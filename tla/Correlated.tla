------------------------------ MODULE Correlated ------------------------------
(***************************************************************************)
(* What a subquery reads of the row around it, and what it answers when it  *)
(* is handed that: _reads_the_outer_row, as_parameters, _read and           *)
(* _one_answer, and the shapes that _matching_once takes.  These are the    *)
(* operators that Subqueries is given: which asks them of which row, and of *)
(* which version of the table, is there.                                    *)
(***************************************************************************)
EXTENDS Reduce

NoLimit == -1

(* ---- what is asked ------------------------------------------------------*)

(* _reads_the_outer_row: the references whose qualifier is no table of the  *)
(* subquery's own.  A sort key is not looked into.                          *)
Scope(q) == {q.table, q.alias}
References(q) ==
    LET written == Parts(q.where, "column")
                     \o FlattenSeq([i \in DOMAIN q.items |-> Parts(q.items[i], "column")])
    IN SelectSeq(written, LAMBDA c : c[3] # <<>> /\ c[3][1] \notin Scope(q))
Wanted(q) ==
    LET refs == References(q)
    IN Pick(refs, FirstsOf([i \in DOMAIN refs |-> refs[i][3]]))
Names(q) == {Wanted(q)[i][3] : i \in DOMAIN Wanted(q)}
Reading(q) ==
    LET as(node) == AsParameters(node, Names(q))
    IN [q EXCEPT !.where = as(@),
                 !.items = [i \in DOMAIN @ |-> as(@[i])],
                 !.order = [k \in DOMAIN @ |-> [@[k] EXCEPT !.node = as(@)]]]

(* ---- answering it, against values handed to it --------------------------*)

InnerRow(table, i, asked) ==
    [name \in ToSet(table.names) |->
       table.rows[i][SelectLastInSeq(table.names, LAMBDA n : n = name)]] @@ asked
(* The rows of a SELECT over one table: the WHERE, the sort, the TOP, and   *)
(* the list, or one row that counts.  The first refusal is the answer.      *)
FirstN(seq, n) == SubSeq(seq, 1, IF n < Len(seq) THEN n ELSE Len(seq))
Taken(select, table, asked, kept) ==
    LET ordered == SortedBy(kept, select.order,
                     LAMBDA i, key : Evaluate(key.node, InnerRow(table, i, asked)))
    IN IF select.top = NoLimit THEN ordered ELSE FirstN(ordered, select.top)
Listed(select, table, asked, taken) ==
    Settled([k \in DOMAIN taken |-> Settled([c \in DOMAIN select.items |->
       Evaluate(select.items[c], InnerRow(table, taken[k], asked))])])
Result(said_, listed, counts) ==
    LET refused == FirstRefused(said_ \o FlattenSeq(listed), Null)
        kept == Places(said_, LAMBDA s : s = True)
    IN [rows |-> IF refused # Null THEN <<>>
                 ELSE IF counts THEN << <<Number(Len(kept))>> >> ELSE listed,
        refused |-> refused]
Kept(select, table, asked, said_) ==
    LET taken == Taken(select, table, asked, Places(said_, LAMBDA s : s = True))
    IN Result(said_, Listed(select, table, asked, taken), select.counts)
Selected(select, table, asked) ==
    Kept(select, table, asked,
         Settled([i \in DOMAIN table.rows |->
            IF select.where = <<>> THEN True
            ELSE Evaluate(select.where, InnerRow(table, i, asked))]))

(* _one_answer: 1 or 0 of an EXISTS, the column of an IN, the one value of  *)
(* a comparison, NULL where there is none.  An APPLY takes the rows.        *)
Answer(kind, result) ==
    CASE result.refused # Null -> [rows |-> <<>>, value |-> result.refused]
      [] kind = "exists" ->
           [rows |-> <<>>, value |-> Number(IF result.rows = <<>> THEN 0 ELSE 1)]
      [] kind \in {"in", "apply"} -> [rows |-> result.rows, value |-> Null]
      [] kind = "scalar" ->
           [rows |-> <<>>, value |-> IF Len(result.rows) > 1 THEN Refused(UNSUPPORTED)
                                     ELSE IF result.rows = <<>> THEN Null
                                     ELSE result.rows[1][1]]

(* ---- how it is answered -------------------------------------------------*)

(* _matching_once's conditions: an EXISTS of one outer column, matched by   *)
(* one equality ANDed with the rest, and nothing that picks rows after it.  *)
Mentions(node) == Parts(node, "parameter") # <<>>
Mentioning(q) == SelectSeq(Conjuncts(Reading(q).where), Mentions)
IsParameter(node) == node[1] = "parameter"
MatchesOnceOfSome(q) ==       \* a mutant: a TOP picks rows after the match
    LET matching == Mentioning(q)[1]
    IN /\ q.kind = "exists" /\ Len(Wanted(q)) = 1 /\ Len(Mentioning(q)) = 1
       /\ matching[1] = "comparison" /\ matching[3] = "="
       /\ IsParameter(matching[2]) # IsParameter(matching[4])
MatchesOnce(q) ==
    LET matching == Mentioning(q)[1]
    IN /\ q.kind = "exists" /\ Len(Wanted(q)) = 1 /\ q.top = NoLimit
       /\ Len(Mentioning(q)) = 1
       /\ matching[1] = "comparison" /\ matching[3] = "="
       /\ IsParameter(matching[2]) # IsParameter(matching[4])
       /\ IsParameter(matching[2]) => ~Mentions(matching[4])
       /\ IsParameter(matching[4]) => ~Mentions(matching[2])
Reads(q) ==
    LET matching == Mentioning(q)[1]
    IN IF IsParameter(matching[2]) THEN matching[4] ELSE matching[2]
Rest(q) ==
    AllOf(SelectSeq(Conjuncts(Reading(q).where), LAMBDA node : node # Mentioning(q)[1]))
Probe(q) == [Reading(q) EXCEPT !.where = Rest(q), !.items = <<Reads(q)>>,
                               !.order = <<>>, !.counts = FALSE]

Key(q, row) == Settled([k \in DOMAIN Wanted(q) |-> Evaluate(Wanted(q)[k], row)])
Handed(q, key) ==
    [b \in {Bound(Wanted(q)[k][3]) : k \in DOMAIN Wanted(q)} |->
       key[CHOOSE k \in DOMAIN Wanted(q) : Bound(Wanted(q)[k][3]) = b]]
NothingHanded == [b \in {} |-> Null]

(* ---- what Subqueries asks -----------------------------------------------*)

ReadsARow(q) == Wanted(q) # <<>>
AnswerHanded(q, table, key) == Answer(q.kind, Selected(Reading(q), table, Handed(q, key)))

(* The matched column, sorted out for looking values up in it, and what an  *)
(* EXISTS is where a value is looked up: NULL matches nothing.              *)
Matched(match) ==
    [rows |-> <<>>,
     value |-> IF IsRefused(match) THEN match ELSE Number(IF match = True THEN 1 ELSE 0)]
MatchedColumn(q, table) ==
    LET result == Selected(Probe(q), table, NothingHanded)
    IN Candidates([i \in DOMAIN result.rows |-> result.rows[i][1]])
         @@ [value |-> result.refused]
LookedUp(column, key) == Matched(Held(column, key[1]))
IsNullKey(key) == IsNull(key[1])
MatchesNothing == Matched(False)
IsRefusal(answered) == IsRefused(answered.value)

(* ---- what the words mean ------------------------------------------------*)

(* A name is the subquery's own where its qualifier is what the subquery    *)
(* calls its table, and the row's around it otherwise.                      *)
Outside(q, node) ==
    LET called == IF q.alias = "" THEN q.table ELSE q.alias
    IN {c \in ToSet(Parts(node, "column")) : c[3] # <<>> /\ c[3][1] # called}
OutsideNames(q) ==
    {c[3] : c \in Outside(q, q.where)
              \cup UNION {Outside(q, q.items[i]) : i \in DOMAIN q.items}}
Substituted(q) ==
    [q EXCEPT !.where = AsParameters(@, OutsideNames(q)),
              !.items = [i \in DOMAIN @ |-> AsParameters(@[i], OutsideNames(q))]]
Meaning(q, row, table) ==
    LET names  == OutsideNames(q)
        beside == [b \in {Bound(name) : name \in names} |->
                     LET name == CHOOSE name \in names : Bound(name) = b
                     IN Evaluate(<<"column", Last(name), name>>, row)]
    IN Answer(q.kind, Selected(Substituted(q), table, beside))
=============================================================================
