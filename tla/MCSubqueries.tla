----------------------------- MODULE MCSubqueries -----------------------------
(***************************************************************************)
(* Subqueries over a table t(owner, v) beside rows of p(id, name): rows     *)
(* that ask the same thing, owners that are there, twice, missing or NULL.  *)
(* The operators Subqueries is given are those of Correlated.               *)
(***************************************************************************)
EXTENDS Subqueries, Correlated

Col(n) == <<"column", n, <<>>>>
Of(q, n) == <<"column", n, <<q, n>>>>
Lit(k) == <<"literal", Number(k)>>
Cmp(a, op, b) == <<"comparison", a, op, b>>
Both(a, b) == <<"and", a, b>>
Plus(a, b) == <<"arithmetic", "+", a, b>>
OverIt(a, b) == <<"arithmetic", "/", a, b>>
Order(node) == <<[node |-> node, descending |-> FALSE]>>

Asked(kind, where, items) ==
    [kind |-> kind, table |-> "t", alias |-> "", where |-> where, items |-> items,
     counts |-> FALSE, order |-> <<>>, top |-> NoLimit]
Owned == Cmp(Of("t", "owner"), "=", Of("p", "id"))
Some == Cmp(Of("t", "v"), ">", Lit(1))
Questions_ ==
    {Asked("exists", where, <<Lit(1)>>) : where \in
       {Owned, Cmp(Of("p", "id"), "=", Plus(Of("t", "owner"), Lit(0))), Both(Some, Owned),
        Both(Owned, Cmp(Of("t", "v"), ">", Of("p", "id"))),
        Cmp(Of("t", "owner"), "<", Of("p", "id")), <<"or", Owned, Some>>,
        Cmp(Of("t", "owner"), "=", Lit(1)), Cmp(Of("p", "id"), "=", Lit(1)),
        Cmp(Of("t", "code"), "=", Of("p", "id")), Cmp(Of("t", "code"), "=", Of("p", "name")),
        Both(Cmp(Of("t", "v"), "<>", Lit(1)),
             Cmp(OverIt(Lit(2), <<"arithmetic", "-", Col("v"), Lit(1)>>), "=", Of("p", "id")))}}
      \cup {[Asked("exists", Owned, <<Lit(1)>>) EXCEPT !.top = 0],
            [Asked("exists", Owned, <<Lit(1)>>) EXCEPT !.top = 1],
            Asked("in", Owned, <<Col("v")>>),
            Asked("in", Some, <<Col("owner")>>),
            Asked("scalar", Owned, <<Plus(Of("p", "id"), Col("v"))>>),
            [Asked("scalar", Owned, <<>>) EXCEPT !.counts = TRUE],
            [Asked("scalar", Cmp(Of("t", "owner"), ">", Of("p", "id")), <<Col("v")>>)
               EXCEPT !.order = Order(Col("v")), !.top = 1],
            Asked("scalar", Both(Owned, Cmp(Of("t", "code"), "=", Of("p", "name"))), <<Col("v")>>),
            [Asked("apply", Cmp(Of("q", "owner"), "=", Of("p", "id")), <<Col("v"), Of("p", "name")>>)
               EXCEPT !.alias = "q", !.order = Order(Col("v"))]}

N(k) == Number(k)
P(id, name) == [n \in {<<"id">>, <<"name">>, <<"owner">>} |-> IF n = <<"name">> THEN name ELSE id]
Rows == {<< P(N(1), Text("1")), P(N(1), Text("1")), P(N(2), Text("x")), P(N(3), Text("X")) >>,
         << P(Null, Null), P(N(1), Text("X")), P(N(3), Text("x")), P(N(1), Text("x")) >>,
         <<>>}
Inner(rows_) == [names |-> << <<"owner">>, <<"v">>, <<"code">> >>, rows |-> rows_]
Tables == {Inner(r) : r \in
            {<<>>,
             << <<N(1), N(2), Text("1")>>, <<N(2), N(3), Text("x")>>, <<Null, N(1), Null>> >>,
             << <<N(1), N(1), Text("X")>>, <<N(1), N(2), Text("01")>>, <<N(3), Null, Text("2")>> >>}}
=============================================================================
