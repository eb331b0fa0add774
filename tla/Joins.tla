-------------------------------- MODULE Joins --------------------------------
(***************************************************************************)
(* How a SELECT's tables become one: catalog.py from resolve to _matched,   *)
(* and APPLY over a select.  A table is its columns' names, what each holds *)
(* and its rows; a name is a sequence of parts, and a join qualifies every  *)
(* name by the table's own name or alias.                                   *)
(***************************************************************************)
EXTENDS Reduce

CONSTANT MaxJoinRows
ASSUME MaxJoinRowsAssumption == MaxJoinRows \in Nat

NothingIn(table) == [i \in DOMAIN table.names |-> Null]
RowOf(names, row) ==
    [name \in ToSet(names) |-> row[SelectLastInSeq(names, LAMBDA n : n = name)]]

(* _renamed and _unqualified: what only one table has keeps its own name.   *)
Renamed(table, qualifier) ==
    [table EXCEPT !.names = [i \in DOMAIN @ |-> <<qualifier>> \o @[i]]]
Unqualified(table) ==
    LET alone(name) == Cardinality({i \in DOMAIN table.names :
                                      Tail(table.names[i]) = Tail(name)}) = 1
    IN [table EXCEPT !.names =
          [i \in DOMAIN @ |-> IF alone(@[i]) THEN Tail(@[i]) ELSE @[i]]]

(* _index_of: where a reference lands in a table, 0 where it is not its.    *)
IndexOf(table, reference) ==
    LET bare == <<reference[2]>>
        exactly(name) == SelectInSeq(table.names, LAMBDA n : n = name)
    IN IF reference[3] # <<>>
       THEN IF exactly(reference[3]) > 0 THEN exactly(reference[3]) ELSE exactly(bare)
       ELSE SelectInSeq(table.names, LAMBDA n : n = bare \/ Tail(n) = bare)

BucketsOfAnyKind(one, other) == TRUE       \* a mutant

(* _buckets_alike: two kinds of value are one key only among numbers.       *)
BucketsAlike(one, other) ==
    one.type = other.type \/ {one.type, other.type} \subseteq {"int", "float"}

(* _equalities: the pairs of columns a condition joins on.                  *)
Equalities(condition, left, right) ==
    LET equal == SelectSeq(Conjuncts(condition), LAMBDA node :
                    /\ node[1] = "comparison" /\ node[3] = "="
                    /\ node[2][1] = "column" /\ node[4][1] = "column")
        lands(a, b) == <<IndexOf(left, a), IndexOf(right, b)>>
        pair(node) == IF 0 \notin ToSet(lands(node[2], node[4]))
                      THEN lands(node[2], node[4]) ELSE lands(node[4], node[2])
    IN SelectSeq([i \in DOMAIN equal |-> pair(equal[i])],
         LAMBDA p : /\ 0 \notin ToSet(p)
                    /\ BucketsAlike(left.kinds[p[1]], right.kinds[p[2]]))

(* The rows on the right a row on the left is tried against: those in its   *)
(* bucket, where the condition has an equality to make buckets of.          *)
Tried(left, right, pairs, i) ==
    LET key(row, side) == [k \in DOMAIN pairs |-> Collated(row[pairs[k][side]])]
        wanted == key(left.rows[i], 1)
    IN IF pairs = <<>> THEN [j \in DOMAIN right.rows |-> j]
       ELSE Places(right.rows, LAMBDA row :
              Null \notin ToSet(wanted) /\ key(row, 2) = wanted)

TooManyRows(rows) == Len(rows) > MaxJoinRows

(* _matched, with the refusal of a join past the ceiling.                   *)
Kept(left, right, join, tried, said) ==
    LET hits == Settled([i \in DOMAIN left.rows |->
                   Pick(tried[i], Places(said[i], LAMBDA s : s = True))])
        keeps == [i \in DOMAIN left.rows |->
                    IF hits[i] = <<>> /\ join.kind \in {"LEFT", "FULL"}
                    THEN <<left.rows[i] \o NothingIn(right)>>
                    ELSE [k \in DOMAIN hits[i] |-> left.rows[i] \o right.rows[hits[i][k]]]]
        others == IF join.kind \notin {"RIGHT", "FULL"} THEN <<>>
                  ELSE Places([j \in DOMAIN right.rows |-> j],
                         LAMBDA j : \A i \in DOMAIN hits : j \notin ToSet(hits[i]))
        rows == FlattenSeq(keeps) \o [k \in DOMAIN others |->
                                        NothingIn(left) \o right.rows[others[k]]]
    IN [names |-> left.names \o right.names, kinds |-> left.kinds \o right.kinds, rows |-> rows,
        refused |-> FirstRefused(FlattenSeq(said),
                       IF TooManyRows(rows) THEN Refused(UNSUPPORTED) ELSE Null)]
Attempted(left, right, join, tried) ==
    Kept(left, right, join, tried,
         Settled([i \in DOMAIN left.rows |-> Settled([k \in DOMAIN tried[i] |->
            IF join.on = <<>> THEN True
            ELSE Evaluate(join.on, RowOf(left.names \o right.names,
                                         left.rows[i] \o right.rows[tried[i][k]]))])]))
Joined(left, right, join) ==
    LET pairs == IF join.on = <<>> THEN <<>> ELSE Equalities(join.on, left, right)
    IN Attempted(left, right, join,
                 Settled([i \in DOMAIN left.rows |-> Tried(left, right, pairs, i)]))

(* resolve: the tables of a FROM, joined one after another.  The first      *)
(* refusal ends it.                                                         *)
Resolve(tables, from) ==
    LET first == tables[from.table]
        step(left, join) == IF IsRefused(left.refused) THEN left
                            ELSE Joined(left, Renamed(tables[join.table], join.alias), join)
    IN IF from.joins = <<>> THEN first
       ELSE Unqualified(FoldLeft(step, Renamed(first, from.alias), from.joins))

=============================================================================
