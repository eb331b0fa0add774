---------------------------- MODULE CollectionRead ----------------------------
(***************************************************************************)
(* What reading a paginated collection promises, whatever the order its    *)
(* pages are asked for and answered in: the table grows by the next pages  *)
(* in order, and a table called whole has every page.                      *)
(***************************************************************************)
EXTENDS Naturals, Sequences

CONSTANTS Sources, Collections

VARIABLES
    size,           \* how many pages each source's collection has
    table,          \* the pages each source has read
    outcome         \* "reading", "whole", "part" or "failed"

vars == <<size, table, outcome>>

FirstPages(n) == [i \in 1 .. n |-> i]

Init ==
    /\ size \in [Sources -> Collections]
    /\ table = [s \in Sources |-> <<>>]
    /\ outcome = [s \in Sources |-> "reading"]

(* Any number of further pages, none skipped, repeated or out of turn, and *)
(* possibly the end: a table with pages missing is not called whole.       *)
Read(s) ==
    /\ outcome[s] = "reading"
    /\ \E n \in Len(table[s]) .. size[s] :
         /\ table' = [table EXCEPT ![s] = FirstPages(n)]
         /\ \E end \in {"reading", "whole", "part", "failed"} :
              /\ end = "whole" => n = size[s]
              /\ outcome' = [outcome EXCEPT ![s] = end]
    /\ UNCHANGED size

Next == \E s \in Sources : Read(s)

Spec == Init /\ [][Next]_vars
===============================================================================
