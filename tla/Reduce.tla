------------------------------- MODULE Reduce -------------------------------
(***************************************************************************)
(* Reducing rows: aggregate.py's grouping and its functions, and window.py's *)
(* functions over a window.  A table is its column names and its rows; a    *)
(* row is a sequence of values.  What is read from a row is an expression   *)
(* of Predicate.  STDEV and its like, STRING_AGG and the fractions of an    *)
(* AVG over a window are left out: they are arithmetic over the same frames. *)
(***************************************************************************)
EXTENDS Predicate

INVALID_OBJECT_NAME == 208
NEGATIVE_OFFSET == 8730
NOT_GROUPED_IN_THE_ORDER_BY == 8127

(* The keys of a sequence's elements, and the places that hold each.        *)
Places(seq, Test(_)) == SelectSeq([i \in DOMAIN seq |-> i], LAMBDA i : Test(seq[i]))
Pick(seq, places) == [k \in DOMAIN places |-> seq[places[k]]]
FirstsOf(seq) ==
    LET known == Settled(seq)
    IN SelectSeq([i \in DOMAIN known |-> i],
                 LAMBDA i : \A j \in 1..(i - 1) : known[j] # known[i])

(* named_row: a row under every name its columns answer to; the first       *)
(* column to claim a name keeps it.                                         *)
NamedRow(names, row) ==
    LET answers == {names[i] : i \in DOMAIN names} \cup {<<Last(names[i])>> : i \in DOMAIN names}
        of(name) == CHOOSE i \in DOMAIN names :
                      /\ name \in {names[i], <<Last(names[i])>>}
                      /\ \A j \in 1..(i - 1) : name \notin {names[j], <<Last(names[j])>>}
    IN [name \in answers |-> row[of(name)]]

CollatedAll(values) == Settled([i \in DOMAIN values |-> Collated(values[i])])

(* _once: each distinct value once, under the collation. *)
Once(values) == Pick(values, FirstsOf(CollatedAll(values)))

Total(values) == FoldLeft(LAMBDA total, v : total + v.n, 0, values)

(* min and max keep the first of the values the collation calls equal.      *)
Furthest(values, biggest) ==
    LET beats(v, w) == IF biggest THEN Collated(v).n > Collated(w).n
                       ELSE Collated(v).n < Collated(w).n
    IN FirstWhere(values, LAMBDA v : \A w \in ToSet(values) : ~beats(w, v))

(* The reductions of compute(), over the values of a group: NULLs are left  *)
(* out, a total of none is NULL, and a mean of integers is truncated.       *)
Reduction(function, values, distinct) ==
    LET all == SelectSeq(values, LAMBDA v : ~IsNull(v))
        present == IF distinct THEN Once(all) ELSE all
    IN CASE \E v \in ToSet(all) : IsRefused(v) -> FirstWhere(all, IsRefused)
         [] function = "COUNT" -> Number(Len(present))
         [] function \in {"SUM", "AVG"} /\ (\E v \in ToSet(present) : IsText(v)) ->
              Refused(INVALID_OBJECT_NAME)
         [] present = <<>> -> Null
         [] function = "SUM" -> Number(Total(present))
         [] function = "AVG" -> Number(TruncatedDivide(Total(present), Len(present)))
         [] function = "MIN" -> Furthest(present, FALSE)
         [] function = "MAX" -> Furthest(present, TRUE)

(* compute: one row for a group.  An item that is not an aggregate reads    *)
(* the group's first row, beside every aggregate the group worked out.      *)
IsAggregate(item) == item.function # "" /\ item.window = <<>>
KeyOf(item) == AggregateKey(item.function, item.name, item.distinct)
Aggregated(names, members, item) ==
    IF item.node = <<>> THEN Number(Len(members))
    ELSE Reduction(item.function,
                   [i \in DOMAIN members |-> Evaluate(item.node, NamedRow(names, members[i]))],
                   item.distinct)
Computed(members, items, answered, first) ==
    [i \in DOMAIN items |->
       IF IsAggregate(items[i]) THEN answered[KeyOf(items[i])]
       ELSE IF members = <<>> /\ items[i].node[1] = "column" THEN Null
       ELSE Evaluate(items[i].node, answered @@ first)]
NothingBeside == [name \in {} |-> Null]
Compute(names, members, items) ==
    LET asked == SelectSeq(items, IsAggregate)
    IN Computed(members, items,
         [key \in {KeyOf(item) : item \in ToSet(asked)} |->
            Aggregated(names, members, FirstWhere(asked, LAMBDA item : KeyOf(item) = key))],
         IF members = <<>> THEN NothingBeside ELSE NamedRow(names, members[1]))

(* group: the partitions, in the order their first row came.                *)
Signature(names, row, keys) ==
    CollatedAll([k \in DOMAIN keys |-> Evaluate(keys[k], NamedRow(names, row))])
Signatures(names, rows, keys) ==
    Settled([i \in DOMAIN rows |-> Signature(names, rows[i], keys)])
Alike(said) ==        \* the places of each group, in the order of their firsts
    LET firsts == FirstsOf(said)
    IN [k \in DOMAIN firsts |-> Places(said, LAMBDA s : s = said[firsts[k]])]
Group(names, rows, items, keys) ==
    LET groups == Alike(Signatures(names, rows, keys))
    IN [k \in DOMAIN groups |-> Compute(names, Pick(rows, groups[k]), items)]

(* ---- windows ------------------------------------------------------------*)

(* A stable sort by one key; reverse keeps the order of equal elements.     *)
PlacesBy(said, descending) ==
    LET ahead(j, i) == SortsBefore(said[IF descending THEN i ELSE j], said[IF descending THEN j ELSE i])
        before(j, i) == ahead(j, i) \/ (~ahead(i, j) /\ j < i)
    IN Settled([i \in DOMAIN said |-> 1 + Cardinality({j \in DOMAIN said : before(j, i)})])
Placed(seq, place) ==
    Settled([p \in DOMAIN seq |-> seq[SelectInSeq(place, LAMBDA q : q = p)]])
StableSort(seq, Value(_), descending) ==
    Placed(seq, PlacesBy(Settled([i \in DOMAIN seq |-> Value(seq[i])]), descending))

(* One key at a time from the last to the first.  A key is a record of what *)
(* it reads and whether it is descending.                                   *)
SortedBy(seq, keys, Value(_, _)) ==
    FoldRight(LAMBDA key, sorted :
                StableSort(sorted, LAMBDA e : Value(e, key), key.descending),
              keys, seq)

(* _partitions: the places of the rows of each partition.                   *)
Partitions(names, rows, window) ==
    ToSet(Alike(Signatures(names, rows, window.partition)))

(* _in_window_order: the places in the window's order, and what each ties   *)
(* with, as the first and the last place of its peers.                      *)
PeersAmong(ordered, marks) ==
    LET peers(p) == {q \in DOMAIN ordered :
                       \A s \in q..p \cup p..q : marks[ordered[s]] = marks[ordered[p]]}
    IN [rows |-> ordered,
        firsts |-> Settled([p \in DOMAIN ordered |-> Min(peers(p))]),
        lasts |-> Settled([p \in DOMAIN ordered |-> Max(peers(p))])]
SortedPlaces(members, order, said) ==
    PeersAmong(SortedBy(members, [k \in DOMAIN order |-> [k |-> k, descending |-> order[k].descending]],
                        LAMBDA i, key : said[i][key.k]),
               [i \in DOMAIN said |-> CollatedAll(said[i])])
InWindowOrder(names, rows, members, window) ==
    SortedPlaces(members, window.order,
       Settled([i \in DOMAIN rows |-> Settled([k \in DOMAIN window.order |->
          Evaluate(window.order[k].node, NamedRow(names, rows[i]))])]))

(* _frame: the first and last place one row sees.  A bound is its kind and  *)
(* how far it is, below zero before the row.                                *)
Unbounded == 99
Edge(bound, place, peers, beginning, byRange, last) ==
    CASE bound = -Unbounded -> 1
      [] bound = Unbounded -> last
      [] bound = 0 /\ byRange -> IF beginning THEN peers.firsts[place] ELSE peers.lasts[place]
      [] OTHER -> place + bound
Frame(place, window, peers) ==
    LET last == Len(peers.rows)
        start == Edge(window.frame.start, place, peers, TRUE, window.frame.range, last)
        finish == Edge(window.frame.end, place, peers, FALSE, window.frame.range, last)
    IN IF ~window.framed
       THEN <<1, IF window.order = <<>> THEN last ELSE peers.lasts[place]>>
       ELSE <<IF start < 1 THEN 1 ELSE start, IF finish > last THEN last ELSE finish>>

(* _rank: ROW_NUMBER, RANK and DENSE_RANK; _ntile gives the first tiles     *)
(* the rows that are left over.                                             *)
Rank(function, peers, place) ==
    CASE function = "ROW_NUMBER" -> place
      [] function = "RANK" -> peers.firsts[place]
      [] function = "DENSE_RANK" -> Cardinality({peers.firsts[p] : p \in 1..place})
Ntile(size, tiles, place) ==
    LET each == size \div tiles
        spare == size % tiles
        ends(tile) == tile * each + (IF tile <= spare THEN tile ELSE spare)
    IN CHOOSE tile \in 1..tiles : ends(tile - 1) < place /\ place <= ends(tile)

(* _read_another: LAG and LEAD reach from the row; the others read an end   *)
(* of its frame.                                                            *)
ReadAnother(window, values, reaches, missing, peers, place) ==
    LET frame == Frame(place, window, peers)
        step == reaches[peers.rows[place]]
        at == IF window.function = "LAG" THEN place - step.n ELSE place + step.n
    IN IF window.function \in {"FIRST_VALUE", "LAST_VALUE"}
       THEN IF frame[1] > frame[2] THEN Null
            ELSE values[peers.rows[frame[IF window.function = "FIRST_VALUE" THEN 1 ELSE 2]]]
       ELSE IF IsNull(step) THEN missing[peers.rows[place]]
       ELSE IF step.n < 0 THEN Refused(NEGATIVE_OFFSET)
       ELSE IF at \in DOMAIN peers.rows THEN values[peers.rows[at]]
       ELSE missing[peers.rows[place]]

(* _running: what a running answer keeps, and what adding one value does.   *)
Running == [rows |-> 0, counted |-> 0, total |-> 0, best |-> Null]
Add(running, function, v) ==
    LET better == IF function = "MAX" THEN Collated(v).n > Collated(running.best).n
                  ELSE Collated(v).n < Collated(running.best).n
    IN IF IsNull(v) THEN [running EXCEPT !.rows = @ + 1]
       ELSE [rows |-> running.rows + 1, counted |-> running.counted + 1,
             total |-> running.total + v.n,
             best |-> IF IsNull(running.best) \/ better THEN v ELSE running.best]
RunningAnswer(running, function, everyRow) ==
    CASE function = "COUNT" -> Number(IF everyRow THEN running.rows ELSE running.counted)
      [] running.counted = 0 -> Null
      [] function = "SUM" -> Number(running.total)
      [] function \in {"MIN", "MAX"} -> running.best

AddAll(running, function, values) ==
    FoldLeft(LAMBDA kept, v : Add(kept, function, v), running, values)

(* _accumulate: each answer is the one before it with what its frame adds,  *)
(* forwards from the partition's start or backwards from its end.           *)
RECURSIVE Forwards(_, _, _, _, _)
Forwards(window, held, bounds, place, run) ==
    LET finish == bounds[place][2]
        added == IF finish < run.reached THEN run.state
                 ELSE AddAll(run.state, window.function, SubSeq(held, run.reached, finish))
        next == [state |-> added,
                 reached |-> IF finish < run.reached THEN run.reached ELSE finish + 1]
    IN IF place > Len(held) THEN <<>>
       ELSE <<RunningAnswer(added, window.function, window.everyRow)>>
              \o Forwards(window, held, bounds, place + 1, next)

RECURSIVE Backwards(_, _, _, _, _)
Backwards(window, held, bounds, place, run) ==
    LET start == bounds[place][1]
        added == IF start > run.reached - 1 THEN run.state
                 ELSE AddAll(run.state, window.function,
                             Reverse(SubSeq(held, start, run.reached - 1)))
        next == [state |-> added,
                 reached |-> IF start > run.reached - 1 THEN run.reached ELSE start]
    IN IF place < 1 THEN <<>>
       ELSE Backwards(window, held, bounds, place - 1, next)
              \o <<RunningAnswer(added, window.function, window.everyRow)>>

(* _reduce: over the frame, which is worked out a row at a time only where  *)
(* no end of it is the partition's.  Answers are in the window's order.     *)
Reduced(window, held, bounds) ==
    IF \A p \in DOMAIN bounds : bounds[p][1] = 1
    THEN Forwards(window, held, bounds, 1, [state |-> Running, reached |-> 1])
    ELSE IF \A p \in DOMAIN bounds : bounds[p][2] = Len(held)
    THEN Backwards(window, held, bounds, Len(held), [state |-> Running, reached |-> Len(held) + 1])
    ELSE [p \in DOMAIN bounds |->
            RunningAnswer(AddAll(Running, window.function, SubSeq(held, bounds[p][1], bounds[p][2])),
                   window.function, window.everyRow)]

(* over: one value for every row, in the order the rows came.               *)
WindowSaid(window, read, peers, reduced, p) ==
    CASE window.function \in {"ROW_NUMBER", "RANK", "DENSE_RANK"} ->
           Number(Rank(window.function, peers, p))
      [] window.function = "NTILE" -> Number(Ntile(Len(peers.rows), window.tiles, p))
      [] window.function \in {"LAG", "LEAD", "FIRST_VALUE", "LAST_VALUE"} ->
           ReadAnother(window, read.node, read.reach, read.missing, peers, p)
      [] OTHER -> reduced[p]
AnsweredIn(window, read, peers) ==
    LET bounds == Settled([p \in DOMAIN peers.rows |-> Frame(p, window, peers)])
        reduced == Reduced(window, Settled(Pick(read.node, peers.rows)), bounds)
    IN {<<peers.rows[p], WindowSaid(window, read, peers, reduced, p)>> : p \in DOMAIN peers.rows}
InPlace(size, answers) ==
    [i \in 1..size |-> (CHOOSE a \in answers : a[1] = i)[2]]
Over(names, rows, window) ==
    LET of(field) == Settled([i \in DOMAIN rows |-> Evaluate(window[field], NamedRow(names, rows[i]))])
        read == [node |-> of("node"), reach |-> of("reach"), missing |-> of("missing")]
    IN InPlace(Len(rows),
         UNION {AnsweredIn(window, read, InWindowOrder(names, rows, members, window)) :
                  members \in Partitions(names, rows, window)})
=============================================================================
