------------------------------- MODULE Answers -------------------------------
(***************************************************************************)
(* What a SELECT promises: its answer, worked out at once from what the     *)
(* words of SQL mean, with no stages, no buckets, no sorts one key at a     *)
(* time and no running totals.  Query is shown to implement it.  Every      *)
(* column keeps the name of its table; a set is put in order only where the *)
(* statement, or the order the rows are stored in, says how.                *)
(***************************************************************************)
EXTENDS Reduce, Precedence

CONSTANTS Statements, Catalogs
VARIABLES asked, tables, answer

NoLimit == -1
Before(v, w, descending) == IF descending THEN SortsBefore(w, v) ELSE SortsBefore(v, w)
Same(v, w) == Collated(v) = Collated(w)
AllSame(v, w) == CollatedAll(v) = CollatedAll(w)
Env(names, row) ==
    [name \in ToSet(names) |-> row[CHOOSE i \in DOMAIN names : names[i] = name]]
Nothing(names) == [i \in DOMAIN names |-> Null]

(* What a SELECT comes to: its rows, or the refusals one of which is sent.  *)
RefusalsAmong(values) == {v.n : v \in {v \in values : IsRefused(v)}}
Within(rows) == UNION {ToSet(rows[i]) : i \in DOMAIN rows}
Wrong(refusals) == [rows |-> <<>>, wrong |-> refusals]
Right(rows) == [rows |-> rows, wrong |-> {}]

(* The elements of a set from the first to the last.                        *)
Ordered(S, Sooner(_, _)) ==
    Settled([k \in 1..Cardinality(S) |->
               CHOOSE x \in S : Cardinality({y \in S : Sooner(y, x)}) = k - 1])

(* Elements of a sequence in the order of their keys, equal ones as they    *)
(* came: one comparison over all the keys at once.                          *)
Precedes(keys, i, j, order) ==
    \/ \E k \in DOMAIN order : /\ Before(keys[i][k], keys[j][k], order[k].descending)
                               /\ \A l \in 1..(k - 1) : Same(keys[i][l], keys[j][l])
    \/ AllSame(keys[i], keys[j]) /\ i < j
InOrder(keys, order) ==      \* the places, in order
    Ordered(DOMAIN keys, LAMBDA i, j : Precedes(keys, i, j, order))

(* ---- the FROM: pairs for which the condition is true --------------------*)

Pairing(left, right, join) ==
    LET holds(i, j) == \/ join.on = <<>>
                       \/ Evaluate(join.on, Env(left.names \o right.names,
                                                left.rows[i] \o right.rows[j])) = True
        pairs == {<<i, j>> \in (DOMAIN left.rows) \X (DOMAIN right.rows) : holds(i, j)}
        last == Len(left.rows) + 1
        lone == (IF join.kind \notin {"LEFT", "FULL"} THEN {}
                 ELSE {<<i, 0>> : i \in {i \in DOMAIN left.rows : \A p \in pairs : p[1] # i}})
                \cup
                (IF join.kind \notin {"RIGHT", "FULL"} THEN {}
                 ELSE {<<last, j>> : j \in {j \in DOMAIN right.rows : \A p \in pairs : p[2] # j}})
        order == Ordered(pairs \cup lone,
                   LAMBDA p, q : p[1] < q[1] \/ (p[1] = q[1] /\ p[2] < q[2]))
        row(p) == (IF p[1] = last THEN Nothing(left.names) ELSE left.rows[p[1]])
                    \o (IF p[2] = 0 THEN Nothing(right.names) ELSE right.rows[p[2]])
    IN [names |-> left.names \o right.names, kinds |-> left.kinds \o right.kinds,
        rows |-> Settled([k \in DOMAIN order |-> row(order[k])])]

Calling(t, alias) == [names |-> [i \in DOMAIN t.names |-> <<alias>> \o t.names[i]],
                      kinds |-> t.kinds, rows |-> t.rows]
Scope(from) ==
    IF from.table = "" THEN [names |-> <<>>, kinds |-> <<>>, rows |-> << <<>> >>]
    ELSE FoldLeft(LAMBDA left, join : Pairing(left, Calling(tables[join.table], join.alias), join),
                  Calling(tables[from.table], from.alias), from.joins)

(* ---- windows: what each row's frame holds -------------------------------*)

WindowMeaning(window, names, rows) ==
    LET value(i) == Evaluate(window.node, Env(names, rows[i]))
        part(i) == [k \in DOMAIN window.partition |-> Evaluate(window.partition[k], Env(names, rows[i]))]
        keys == Settled([i \in DOMAIN rows |-> Settled(
                   [k \in DOMAIN window.order |-> Evaluate(window.order[k].node, Env(names, rows[i]))])])
        beside(i) == {j \in DOMAIN rows : AllSame(part(i), part(j))}
        ahead(i) == {j \in beside(i) : Precedes(keys, j, i, window.order)}
        sooner(i) == {j \in ahead(i) : ~AllSame(keys[i], keys[j])}
        placed == Settled([i \in DOMAIN rows |-> 1 + Cardinality(ahead(i))])
        place(i) == placed[i]
        at(i, p) == CHOOSE j \in beside(i) : place(j) = p
        after(i, j, bound) ==       \* j is not before the start of i's frame
            \/ bound = -Unbounded
            \/ bound = 0 /\ window.frame.range /\ ~(j \in sooner(i))
            \/ bound # -Unbounded /\ ~(bound = 0 /\ window.frame.range) /\ place(j) >= place(i) + bound
        until(i, j, bound) ==
            \/ bound = Unbounded
            \/ bound = 0 /\ window.frame.range /\ ~(i \in sooner(j))
            \/ bound # Unbounded /\ ~(bound = 0 /\ window.frame.range) /\ place(j) <= place(i) + bound
        frame(i) == IF ~window.framed THEN {j \in beside(i) : i \notin sooner(j)}
                    ELSE {j \in beside(i) : after(i, j, window.frame.start) /\ until(i, j, window.frame.end)}
        inFrame(i) == Ordered(frame(i), LAMBDA j, k : place(j) < place(k))
        held(i) == LET order == inFrame(i) IN [k \in DOMAIN order |-> value(order[k])]
        size(i) == Cardinality(beside(i))
        big(i) == size(i) % window.tiles
        each(i) == size(i) \div window.tiles
        reach(i) == Evaluate(window.reach, Env(names, rows[i]))
        other(i) == IF window.function = "LAG" THEN place(i) - reach(i).n ELSE place(i) + reach(i).n
        missing(i) == Evaluate(window.missing, Env(names, rows[i]))
        meaning(i) ==
            CASE window.function = "ROW_NUMBER" -> Number(place(i))
              [] window.function = "RANK" -> Number(1 + Cardinality(sooner(i)))
              [] window.function = "DENSE_RANK" ->
                   Number(1 + Cardinality({CollatedAll(keys[j]) : j \in sooner(i)}))
              [] window.function = "NTILE" ->
                   Number(IF place(i) <= big(i) * (each(i) + 1)
                          THEN (place(i) - 1) \div (each(i) + 1) + 1
                          ELSE big(i) + (place(i) - big(i) * (each(i) + 1) - 1) \div each(i) + 1)
              [] window.function \in {"LAG", "LEAD"} ->
                   IF IsNull(reach(i)) \/ other(i) \notin 1..size(i) THEN missing(i)
                   ELSE value(at(i, other(i)))
              [] window.function \in {"FIRST_VALUE", "LAST_VALUE"} ->
                   IF held(i) = <<>> THEN Null
                   ELSE IF window.function = "FIRST_VALUE" THEN held(i)[1] ELSE Last(held(i))
              [] window.everyRow -> Number(Len(held(i)))
              [] OTHER -> Reduction(window.function, held(i), FALSE)
    IN Settled([i \in DOMAIN rows |-> meaning(i)])

(* ---- one SELECT ---------------------------------------------------------*)

HowMany(select, size) ==
    IF select.top = NoLimit THEN size
    ELSE IF select.share THEN CHOOSE n \in 0..size :
              n * 100 >= select.top * size /\ (n = 0 \/ (n - 1) * 100 < select.top * size)
    ELSE select.top

(* The page of rows already in order, each with its keys: those no further  *)
(* than TOP says, or equal to one that is, between OFFSET and FETCH.        *)
PageMeaning(select, rows, keys) ==
    LET n == HowMany(select, Len(rows))
        taken == {i \in DOMAIN rows : i <= n \/ (select.withTies /\ n > 0 /\ AllSame(keys[i], keys[n]))}
        page == {i \in taken : i > select.offset /\
                   (select.fetch = NoLimit \/ i <= select.offset + select.fetch)}
    IN [k \in 1..Cardinality(page) |-> rows[k + select.offset]]

Unrepeated(rows) == {i \in DOMAIN rows : \A j \in 1..(i - 1) : ~AllSame(rows[i], rows[j])}
Those(seq, places) ==
    LET order == Ordered(places, LAMBDA i, j : i < j) IN [k \in DOMAIN order |-> seq[order[k]]]

(* What a key of the ORDER BY names: an item by its place, an item by its   *)
(* alias, or something worked out from the row.                             *)
KeyMeaning(select, key, output, env) ==
    LET aliased == {i \in DOMAIN select.items : ~select.items[i].star /\ select.items[i].alias # ""
                                                /\ <<select.items[i].alias>> = key.name}
        column == <<"column", Last(key.name), IF Len(key.name) = 2 THEN key.name ELSE <<>>>>
    IN IF key.position > 0 THEN output[key.position]
       ELSE IF key.node # <<>> THEN Evaluate(key.node, env)
       ELSE IF aliased # {} THEN output[CHOOSE i \in aliased : \A j \in aliased : i <= j]
       ELSE Evaluate(column, env)

Finished(select, outputs, keys) ==
    LET order == InOrder(keys, select.order)
        rows == Settled([k \in DOMAIN order |-> outputs[order[k]]])
        sorted == Settled([k \in DOMAIN order |-> keys[order[k]]])
        places == IF select.distinct THEN Unrepeated(rows) ELSE DOMAIN rows
        refusals == RefusalsAmong(Within(outputs) \cup Within(keys))
    IN IF refusals # {} THEN Wrong(refusals)
       ELSE Right(PageMeaning(select, Those(rows, places), Those(sorted, places)))

(* The rows the WHERE keeps, and what it refuses of the others.             *)
Said(select, scope) ==
    Settled([i \in DOMAIN scope.rows |->
               IF select.where = <<>> THEN True
               ELSE Evaluate(select.where, Env(scope.names, scope.rows[i]))])
Kept(select, scope) ==
    LET said == Said(select, scope)
    IN Those(scope.rows, {i \in DOMAIN said : said[i] = True})

RowsMeaning(select, scope) ==
    LET kept == Kept(select, scope)
        env(i) == Env(scope.names, kept[i])
        brought(star) == IF star.alias = "" THEN DOMAIN scope.names
                         ELSE {i \in DOMAIN scope.names : scope.names[i][1] = star.alias}
        said == Settled([k \in DOMAIN select.items |->
                   IF select.items[k].window = <<>> THEN <<>>
                   ELSE WindowMeaning(select.items[k].window, scope.names, kept)])
        item(k, i) == IF select.items[k].star THEN Those(kept[i], brought(select.items[k]))
                      ELSE IF select.items[k].window # <<>> THEN <<said[k][i]>>
                      ELSE <<Evaluate(select.items[k].node, env(i))>>
        outputs == Settled([i \in DOMAIN kept |->
                      IF select.items = <<>> THEN kept[i]
                      ELSE FlattenSeq([k \in DOMAIN select.items |-> item(k, i)])])
        keys == Settled([i \in DOMAIN kept |-> Settled([k \in DOMAIN select.order |->
                   KeyMeaning(select, select.order[k], outputs[i], env(i))])])
    IN Finished(select, outputs, keys)

(* Groups: the rows that agree on every key, each with every aggregate the  *)
(* statement names, counted as that aggregate says.                         *)
RECURSIVE AggregateNodes(_)
AggregateNodes(node) ==
    IF node = <<>> THEN {}
    ELSE CASE node[1] = "aggregate" -> {node}
           [] node[1] = "arithmetic" -> AggregateNodes(node[3]) \cup AggregateNodes(node[4])
           [] node[1] = "comparison" -> AggregateNodes(node[2]) \cup AggregateNodes(node[4])
           [] node[1] \in {"and", "or"} -> AggregateNodes(node[2]) \cup AggregateNodes(node[3])
           [] OTHER -> {}
Measure(function, name, distinct, names, members) ==
    LET column == <<"column", Last(name), IF Len(name) = 2 THEN name ELSE <<>>>>
        values == [i \in DOMAIN members |-> Evaluate(column, Env(names, members[i]))]
    IN IF name = <<>> THEN Number(Len(members)) ELSE Reduction(function, values, distinct)

GroupsMeaning(select, scope) ==
    LET kept == Kept(select, scope)
        mark == Settled([i \in DOMAIN kept |-> Settled([k \in DOMAIN select.group |->
                   Evaluate(select.group[k], Env(scope.names, kept[i]))])])
        firsts == IF select.group = <<>> THEN <<0>>
                  ELSE Ordered(Unrepeated(mark), LAMBDA i, j : i < j)
        members(g) == IF select.group = <<>> THEN kept
                      ELSE Those(kept, {i \in DOMAIN kept : AllSame(mark[i], mark[firsts[g]])})
        nodes == UNION ({AggregateNodes(select.having)}
                   \cup {AggregateNodes(select.order[k].node) : k \in DOMAIN select.order}
                   \cup {IF select.items[k].function # "" THEN {} ELSE AggregateNodes(select.items[k].node)
                         : k \in DOMAIN select.items})
        env(g) == [key \in {AggregateKey(n[2], n[3], n[4]) : n \in nodes} |->
                     LET n == CHOOSE n \in nodes : AggregateKey(n[2], n[3], n[4]) = key
                     IN Measure(n[2], n[3], n[4], scope.names, members(g))]
                  @@ (IF members(g) = <<>> THEN [name \in ToSet(scope.names) |-> Null]
                      ELSE Env(scope.names, members(g)[1]))
        item(k, g) == IF select.items[k].function = "" THEN Evaluate(select.items[k].node, env(g))
                      ELSE Measure(select.items[k].function, select.items[k].name,
                                   select.items[k].distinct, scope.names, members(g))
        all == Settled([g \in DOMAIN firsts |-> Settled([k \in DOMAIN select.items |-> item(k, g)])])
        aliases(g) == LET named == {k \in DOMAIN select.items : select.items[k].alias # ""}
                      IN [name \in {<<select.items[k].alias>> : k \in named} |->
                            all[g][CHOOSE k \in named : <<select.items[k].alias>> = name]]
        had == Settled([g \in DOMAIN firsts |->
                  IF select.having = <<>> THEN True
                  ELSE Evaluate(select.having, env(g) @@ aliases(g))])
        groups == Places(had, LAMBDA said : said = True)
        outputs == Settled([i \in DOMAIN groups |-> all[groups[i]]])
        keys == Settled([i \in DOMAIN groups |-> Settled([k \in DOMAIN select.order |->
                   KeyMeaning(select, select.order[k], outputs[i], env(groups[i]))])])
        refusals == RefusalsAmong(Within(all) \cup ToSet(had))
    IN IF refusals # {} THEN Wrong(refusals) ELSE Finished(select, outputs, keys)

IsReduction(select) ==
    \/ select.group # <<>> \/ select.having # <<>>
    \/ \E k \in DOMAIN select.items :
         /\ ~select.items[k].star /\ select.items[k].window = <<>>
         /\ select.items[k].function # "" \/ AggregateNodes(select.items[k].node) # {}
(* What is wrong with a SELECT whatever its rows: an ORDER BY that names a  *)
(* place there is none of, a constant, or of a grouped answer something its *)
(* groups do not fix, and ties to be counted among rows DISTINCT drops.     *)
RECURSIVE ColumnsOf(_)
ColumnsOf(node) ==
    CASE node[1] = "column" -> {node}
      [] node[1] = "arithmetic" -> ColumnsOf(node[3]) \cup ColumnsOf(node[4])
      [] node[1] \in {"negate", "not"} -> ColumnsOf(node[2])
      [] OTHER -> {}
Malformed(select) ==
    LET nodes == {key.node : key \in {key \in ToSet(select.order) : key.node # <<>>}}
        beyond == \E key \in ToSet(select.order) : key.position > Len(select.items)
        constant == \E node \in nodes : ColumnsOf(node) = {} /\ AggregateNodes(node) = {}
        loose == \E node \in nodes : ~ColumnsOf(node) \subseteq ToSet(select.group)
    IN CASE beyond \/ constant -> {INVALID_OBJECT_NAME}
         [] IsReduction(select) /\ loose -> {NOT_GROUPED_IN_THE_ORDER_BY}
         [] select.withTies /\ select.distinct -> {UNSUPPORTED}
         [] OTHER -> {}

PartMeaning(select) ==
    LET scope == Scope(select.from)
        refusals == RefusalsAmong(ToSet(Said(select, scope)))
    IN IF refusals # {} THEN Wrong(refusals)
       ELSE IF Malformed(select) # {} THEN Wrong(Malformed(select))
       ELSE IF IsReduction(select) THEN GroupsMeaning(select, scope)
       ELSE RowsMeaning(select, scope)

(* ---- a statement --------------------------------------------------------*)

(* What a plain column holds; the parts of a union here have no other.      *)
KindsMeaning(select) ==
    LET scope == Scope(select.from)
    IN [k \in DOMAIN select.items |->
          scope.kinds[CHOOSE i \in DOMAIN scope.names : Last(scope.names[i]) = Last(select.items[k].name)]]
UnionMeaning(parts) ==
    LET kinds == [p \in DOMAIN parts |-> KindsMeaning(parts[p].select)]
        type(k) == ResolveTypes([p \in DOMAIN parts |-> kinds[p][k]])
        read == Settled([p \in DOMAIN parts |-> PartMeaning(parts[p].select)])
        brought(p) == Settled([i \in DOMAIN read[p].rows |-> Settled([k \in DOMAIN kinds[p] |->
                         IF type(k) = Agreed THEN read[p].rows[i][k]
                         ELSE Convert(read[p].rows[i][k], type(k))])])
        step(rows, p) ==
            LET both == rows \o brought(p)
                has(side, row) == \E i \in DOMAIN side : AllSame(side[i], row)
                wanted == CASE parts[p].kind = "INTERSECT" -> {i \in Unrepeated(rows) : has(brought(p), rows[i])}
                            [] parts[p].kind = "EXCEPT" -> {i \in Unrepeated(rows) : ~has(brought(p), rows[i])}
                            [] parts[p].kind = "UNION" -> Unrepeated(both)
                            [] OTHER -> DOMAIN both
            IN IF parts[p].kind \in {"INTERSECT", "EXCEPT"} THEN Those(rows, wanted) ELSE Those(both, wanted)
        inner == UNION {read[p].wrong : p \in DOMAIN parts}
        uneven == \E p \in DOMAIN parts : Len(kinds[p]) # Len(kinds[1])
        converted == RefusalsAmong(UNION {Within(brought(p)) : p \in DOMAIN parts})
    IN CASE inner # {} -> Wrong(inner)
         [] inner = {} /\ uneven -> Wrong({UNSUPPORTED})
         [] inner = {} /\ ~uneven /\ converted # {} -> Wrong(converted)
         [] OTHER -> Right(FoldLeft(step, brought(1), [p \in 1..(Len(parts) - 1) |-> p + 1]))

OrderedUnion(parts) ==
    LET whole == UnionMeaning(parts)
        rows == whole.rows
        items == parts[1].select.items
        called(key) == {k \in DOMAIN items : Last(key.name) = Last(items[k].name)}
        headed(key) == IF key.position > 0 THEN key.position ELSE CHOOSE k \in called(key) : TRUE
        keys == Settled([i \in DOMAIN rows |-> Settled(
                   [k \in DOMAIN asked.order |-> rows[i][headed(asked.order[k])]])])
        order == InOrder(keys, asked.order)
        page == {k \in DOMAIN order : k > asked.offset /\
                   (asked.fetch = NoLimit \/ k <= asked.offset + asked.fetch)}
        unknown == \E key \in ToSet(asked.order) : key.position = 0 /\ called(key) = {}
    IN IF whole.wrong # {} THEN whole
       ELSE IF unknown THEN Wrong({UNSUPPORTED})
       ELSE Right([k \in 1..Cardinality(page) |-> rows[order[k + asked.offset]]])

Meaning ==
    IF Len(asked.parts) = 1 THEN PartMeaning(asked.parts[1].select) ELSE OrderedUnion(asked.parts)

Init == asked \in Statements /\ tables \in Catalogs /\ answer = <<"pending", Null>>
Answer == /\ answer = <<"pending", Null>>
          /\ LET meaning == Meaning
             IN \/ meaning.wrong = {} /\ answer' = <<"rows", meaning.rows>>
                \/ \E k \in meaning.wrong : answer' = <<"refused", k>>
          /\ UNCHANGED <<asked, tables>>
Spec == Init /\ [][Answer]_<<asked, tables, answer>>
=============================================================================
