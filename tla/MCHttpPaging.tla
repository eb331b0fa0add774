----------------------------- MODULE MCHttpPaging -----------------------------
(***************************************************************************)
(* Small instances of HttpPaging for TLC: a paginated source with a mirror *)
(* and a source of one page on the same host.                              *)
(***************************************************************************)
EXTENDS HttpPaging, TLC

CONSTANTS s1, s2, h1, h2

TwoMirrors == (s1 :> {h1, h2}) @@ (s2 :> {h1})

(* Pages of one row, and pages of two with a short last one.               *)
Every(pages, rows, links, past, totals) ==
    [pages : pages, rows : {rows}, last : {1}, link : links, past : past,
     total : totals]

Single == Every({1}, 1, {"strided"}, {"refused"}, {"none"})

(* What is past its end does not show behind links without a stride.       *)
EveryApi ==
    (s1 :> UNION {Every({1, 2, 3, 5}, rows, {"strided", "echoed"}, Beyond, Totals)
                  \cup Every({1, 2, 3, 5}, rows, {"opaque"}, {"refused"}, {"none"})
                  : rows \in {1, 2}})
    @@ (s2 :> Single)

LinkedApi ==
    (s1 :> Every({5}, 2, {"strided"}, {"refused"}, {"honest"}))
    @@ (s2 :> Single)
===============================================================================
