----------------------------- MODULE MCScratch ------------------------------
(* Statements a client may send about two tables of its own: values that    *)
(* fit, that convert and that are refused, in rows of one and of two; each  *)
(* table read into the other and into itself; columns swapped.              *)
EXTENDS Scratch, TLC

Literal(v) == <<"literal", v>>
Column(c) == <<"column", c>>
AsInt(e) == <<"int", e>>
Count == <<"count">>
Variable == <<"variable">>
Always == <<"always">>
Above(c, k) == <<"above", c, k>>
IsNone(c) == <<"null", c>>

Names == {"#a", "#b"}
Other(name) == IF name = "#a" THEN "#b" ELSE "#a"

Creations ==
    {[op |-> "create", table |-> "#a", types |-> t] :
       t \in {<<"TINYINT", "VARCHAR">>, <<"DECIMAL", AsGiven>>}}
    \cup {[op |-> "create", table |-> "#b", types |-> <<"FLOAT", "BIT">>]}
Removals == {[op |-> o, table |-> n] : o \in {"drop", "truncate"}, n \in Names}
Copies ==
    {[op |-> "make_from", table |-> "#b", from |-> "#a", items |-> i, where |-> w, named |-> b] :
       i \in {<<Column(1), Column(2)>>, <<AsInt(Column(2)), Count>>},
       w \in {Always, Above(1, 5)}, b \in BOOLEAN}

Written ==
    {<<<<Literal(Number(1)), Literal(Word("q"))>>>>,
     <<<<Literal(Digits(7)), Literal(Word(Padded))>>, <<Literal(Word("q")), Literal(Number(7))>>>>,
     <<<<Literal(Decimal(2675)), Literal(Digits(7))>>, <<Literal(Null), Literal(Number(300))>>>>,
     <<<<Literal(Number(300)), Count>>>>,
     <<<<Literal(Digits(1)), Literal(Word("abcd"))>>>>}
Fillings ==
    {[op |-> "insert_values", table |-> n, into |-> <<>>, values |-> v] : n \in Names, v \in Written}
    \cup {[op |-> "insert_values", table |-> "#a", into |-> i, values |-> <<<<Literal(Number(7)), Literal(Number(1))>>>>] :
            i \in {<<2, 1>>, <<1>>, <<1, 2, 1>>, <<1, 3>>}}
    \cup {[op |-> "insert_select", table |-> n, from |-> f, into |-> i, items |-> e, where |-> w] :
            n \in Names, f \in Names,
            i \in {<<>>, <<2, 1>>}, e \in {<<Column(1), Column(2)>>, <<Literal(Decimal(2675)), AsInt(Column(2))>>},
            w \in {Always, Above(1, 5)}}
Changes ==
    {[op |-> "update", table |-> n, assigned |-> a, where |-> w] :
       n \in Names, w \in {Always, Above(1, 5)},
       a \in {<< <<1, Column(2)>>, <<2, Column(1)>> >>,
              << <<1, AsInt(Column(2))>> >>, << <<2, Literal(Decimal(2675))>> >>,
              << <<1, Literal(Number(1))>>, <<1, Count>> >>, << <<3, Count>> >>}}
    \cup {[op |-> "delete", table |-> n, where |-> w] : n \in Names, w \in {Always, Above(1, 5), IsNone(1)}}
Declarations == {[op |-> "declare", type |-> t] : t \in {"TINYINT", "DECIMAL", "VARCHAR", AsGiven}}
Assignments ==
    {[op |-> "set", value |-> Literal(v)] : v \in {Decimal(2675), Word("abcd"), Number(300)}}
    \cup {[op |-> "select_assigns", value |-> e, from |-> n, where |-> Always] :
            n \in Names, e \in {Column(1), AsInt(Column(2)), Count}}

Reads(s) == s.op \in {"set", "select_assigns"}
Sends == Creations \cup Removals \cup Copies \cup Fillings \cup Changes \cup Declarations \cup Assignments
(* In a TRY, those that are refused after a read of their own.              *)
Tried == {s \in Fillings \cup Changes : s.op \in {"insert_select", "update"}}
MCStatements ==
    {[tried |-> FALSE, reads |-> Reads(s)] @@ s : s \in Sends}
    \cup {[tried |-> TRUE, reads |-> FALSE] @@ s : s \in Tried}
    \cup {[tried |-> TRUE, reads |-> TRUE] @@ s : s \in Assignments}
    \cup {[tried |-> FALSE, reads |-> FALSE, op |-> "end"]}
=============================================================================
