-------------------------------- MODULE Query --------------------------------
(***************************************************************************)
(* One SELECT answered: Catalog._read, _reduced and _combined, one action   *)
(* for each thing they do to the rows.  A statement is its parts, each a    *)
(* SELECT with the operator that combines it with those before it, and what *)
(* belongs to the whole: the ORDER BY, the OFFSET and the FETCH of a union. *)
(* Subqueries and variables are left to other modules; a common table and a *)
(* derived one are tables by the time a FROM reads them.                    *)
(***************************************************************************)
EXTENDS Joins, Precedence

CONSTANTS Statements, Catalogs

VARIABLES asked,    \* the statement being answered
          tables,   \* the tables there are
          part,     \* which of its parts is being read
          stage,    \* what has been done to that part
          table,    \* the rows so far, and their columns
          ties,     \* how many rows TOP WITH TIES reaches to
          parts,    \* the answers of the parts before it
          answer    \* what is sent
vars == <<asked, tables, part, stage, table, ties, parts, answer>>

NoLimit == -1
NoTable == [names |-> <<>>, kinds |-> <<>>, rows |-> <<>>, refused |-> Null]
Pending == <<"pending", Null>>

select == asked.parts[part].select
Refusing(k) == /\ answer' = <<"refused", k>>
               /\ stage' = "answered"
               /\ UNCHANGED <<asked, tables, part, table, ties, parts>>
Becomes(next, rows) == /\ stage' = next
                       /\ table' = [table EXCEPT !.rows = rows]
                       /\ UNCHANGED <<asked, tables, part, ties, parts, answer>>

(* ---- names --------------------------------------------------------------*)

IsWindow(item) == item.window # <<>>
IsComputed(item) ==
    item.function = "" /\ ~item.star /\ ~IsWindow(item) /\ item.node[1] # "column"
AggregatesIn(node) == IF node = <<>> THEN <<>> ELSE Parts(node, "aggregate")
IsConstant(node) == Parts(node, "column") = <<>> /\ AggregatesIn(node) = <<>>

IsGrouped == select.group # <<>>
HasAggregates ==
    \E i \in DOMAIN select.items :
        LET item == select.items[i]
        IN IsAggregate(item) \/ (IsComputed(item) /\ AggregatesIn(item.node) # <<>>)
IsReduced == IsGrouped \/ HasAggregates \/ select.having # <<>>

(* SelectItem.output_name, and the lookup a sort reads names by.            *)
OutputName(item) ==
    IF item.alias # "" THEN <<item.alias>>
    ELSE IF item.function # "" \/ IsComputed(item) \/ IsWindow(item) THEN <<>> ELSE <<Last(item.name)>>
LookupOf(names) ==
    [name \in ToSet(names) |-> SelectLastInSeq(names, LAMBDA n : n = name)]

(* _group_names: every name a column of a grouped answer has; the first     *)
(* column to claim one keeps it.                                            *)
GroupNames(item) ==
    SelectSeq(<<OutputName(item),
                IF IsAggregate(item) THEN AggregateKey(item.function, item.name, FALSE)
                ELSE item.name>>,
              LAMBDA name : name # <<>>)
GroupLookup(items) ==
    LET claims == FlattenSeq([i \in DOMAIN items |->
                    [k \in DOMAIN GroupNames(items[i]) |-> <<GroupNames(items[i])[k], i>>]])
    IN [name \in {c[1] : c \in ToSet(claims)} |->
          claims[SelectInSeq(claims, LAMBDA c : c[1] = name)][2]]

(* ---- the order ----------------------------------------------------------*)

AtColumn(i) == <<"at", i>>
ByNode(node) == <<"node", node>>
NoOrder(k) == <<"refused", k>>

(* _found and _column_plan: as written, and then by its last part.          *)
Landing(lookup, name) ==
    CASE name \in DOMAIN lookup -> AtColumn(lookup[name])
      [] Len(name) = 2 /\ <<name[2]>> \in DOMAIN lookup -> AtColumn(lookup[<<name[2]>>])
      [] OTHER -> NoOrder(NO_SUCH_COLUMN)

(* _alias_plan: a select-list entry's own definition, and for an aggregate, *)
(* which no source column holds, the column the alias names.                *)
AliasPlan(item, lookup) ==
    LET source == Landing(lookup, item.name)
    IN IF IsComputed(item) THEN ByNode(item.node)
       ELSE IF source[1] = "at" THEN source ELSE Landing(lookup, <<item.alias>>)

(* _order_plan and _position_plan. *)
OrderPlan(key, lookup, items) ==
    LET named == SelectInSeq(items, LAMBDA item : ~item.star /\ <<item.alias>> = key.name)
        columns == {lookup[name] : name \in DOMAIN lookup}
    IN CASE key.position > 0 ->
              IF key.position > (IF items = <<>> THEN Cardinality(columns) ELSE Len(items))
              THEN NoOrder(INVALID_OBJECT_NAME)
              ELSE IF items = <<>> THEN AtColumn(key.position)
              ELSE AliasPlan(items[key.position], lookup)
         [] key.position = 0 /\ key.node # <<>> ->
              IF key.name \in DOMAIN lookup THEN AtColumn(lookup[key.name])
              ELSE IF IsConstant(key.node) THEN NoOrder(INVALID_OBJECT_NAME)
              ELSE ByNode(key.node)
         [] OTHER -> IF named > 0 THEN AliasPlan(items[named], lookup)
                     ELSE Landing(lookup, key.name)

Plans(keys, lookup, items) ==
    [k \in DOMAIN keys |-> OrderPlan(keys[k], lookup, items)]
Said(plan, row, named) ==
    IF plan[1] = "at" THEN row[plan[2]] ELSE Evaluate(plan[2], named)

(* _sorted: one stable sort for each key, from the last to the first.  What  *)
(* a key refuses is a refusal of the sort, whose number it is sent under.   *)
RefusalIn(plans, rows, lookup) ==
    LET wrong == SelectInSeq(plans, LAMBDA p : p[1] = "refused")
        named(row) == [name \in DOMAIN lookup |-> row[lookup[name]]]
        said == FlattenSeq([k \in DOMAIN plans |->
                  [i \in DOMAIN rows |-> Said(plans[k], rows[i], named(rows[i]))]])
    IN IF wrong > 0 THEN plans[wrong][2]
       ELSE IF \E v \in ToSet(said) : IsRefused(v) THEN INVALID_OBJECT_NAME ELSE 0
Sorted(rows, keys, plans, lookup) ==
    LET named(row) == [name \in DOMAIN lookup |-> row[lookup[name]]]
        planned == [k \in DOMAIN keys |-> [plan |-> plans[k], descending |-> keys[k].descending]]
    IN SortedBy(rows, planned, LAMBDA row, key : Said(key.plan, row, named(row)))

(* ---- TOP, OFFSET and FETCH ----------------------------------------------*)

(* _with_ties: how far the rows equal to the last one taken reach.          *)
Reach(rows, plans, names) ==
    LET said == Settled([i \in DOMAIN rows |->
                  CollatedAll([k \in DOMAIN plans |-> Said(plans[k], rows[i], RowOf(names, rows[i]))])])
        tied == {i \in DOMAIN rows : \A j \in select.top..i : said[j] = said[select.top]}
    IN IF ~select.withTies THEN NoLimit
       ELSE IF select.top <= 0 \/ select.top >= Len(rows) THEN select.top
       ELSE Max(tied)

(* _page: a share is rounded up, ties have already been counted.            *)
FirstOf(rows, limit) ==
    IF limit = NoLimit \/ limit >= Len(rows) THEN rows ELSE SubSeq(rows, 1, limit)
Share(top, size) == (top * size + 99) \div 100
Paged(rows, reached) ==
    LET limit == IF reached # NoLimit THEN reached
                 ELSE IF select.top # NoLimit /\ select.share
                 THEN Share(select.top, Len(rows)) ELSE select.top
        kept == FirstOf(rows, limit)
    IN FirstOf(SubSeq(kept, select.offset + 1, Len(kept)), select.fetch)

(* _distinct: the first of the rows the collation calls the same.           *)
Distinct(rows) == Pick(rows, FirstsOf([i \in DOMAIN rows |-> CollatedAll(rows[i])]))

(* ---- the select list ----------------------------------------------------*)

(* Table.index_of: as written, its last part, or the one column of a join.  *)
TableIndex(names, name) ==
    LET exactly(n) == SelectInSeq(names, LAMBDA m : m = n)
        within == {i \in DOMAIN names : Len(names[i]) = 2 /\ Last(names[i]) = Last(name)}
    IN IF exactly(name) > 0 THEN exactly(name)
       ELSE IF Len(name) = 2 THEN exactly(<<name[2]>>)
       ELSE IF Cardinality(within) = 1 THEN CHOOSE i \in within : TRUE ELSE 0

(* _starred: every column, or those one table brought.                      *)
Starred(names, qualifier) ==
    LET brought == Places(names, LAMBDA n : Len(n) = 2 /\ n[1] = qualifier)
    IN IF qualifier = "" THEN [i \in DOMAIN names |-> i]
       ELSE IF brought # <<>> THEN brought
       ELSE IF qualifier \in {select.from.table, select.from.alias}
       THEN Places(names, LAMBDA n : Len(n) = 1) ELSE <<>>

(* _evaluate's plans: where each value of an answered row comes from.  A    *)
(* star stops at the columns the source had; a window's answers follow.     *)
Expand(items, names) ==
    LET windows == SelectSeq([i \in DOMAIN items |-> i], LAMBDA i : IsWindow(items[i]))
        source == SubSeq(names, 1, Len(names) - Len(windows))
        after(i) == Len(source) + SelectInSeq(windows, LAMBDA w : w = i)
        plain(item) == ~item.star /\ ~IsComputed(item) /\ ~IsWindow(item)
        unknown == IF \A item \in ToSet(items) : plain(item) THEN NO_SUCH_COLUMN
                   ELSE INVALID_OBJECT_NAME
        plan(i) ==
            LET item == items[i] stars == Starred(source, item.alias)
                at == IF item.star \/ IsComputed(item) \/ IsWindow(item) THEN 0
                      ELSE TableIndex(names, item.name)
            IN CASE item.star -> IF stars = <<>> THEN <<NoOrder(INVALID_OBJECT_NAME)>>
                                 ELSE [k \in DOMAIN stars |-> AtColumn(stars[k])]
                 [] IsWindow(item) -> <<AtColumn(after(i))>>
                 [] IsComputed(item) -> <<ByNode(item.node)>>
                 [] OTHER -> <<IF at = 0 THEN NoOrder(unknown) ELSE AtColumn(at)>>
    IN IF items = <<>> THEN [i \in DOMAIN names |-> AtColumn(i)]
       ELSE FlattenSeq([i \in DOMAIN items |-> plan(i)])
Evaluated(rows, plans, names) ==
    Settled([i \in DOMAIN rows |-> Settled(
       [k \in DOMAIN plans |-> Said(plans[k], rows[i], RowOf(names, rows[i]))])])
HeadingsOf(plans) ==
    [k \in DOMAIN plans |-> IF plans[k][1] = "at" THEN table.kinds[plans[k][2]] ELSE Integer(4)]

(* ---- what a reduced answer works out and does not show ------------------*)

AskedFor(node) ==
    [function |-> node[2], distinct |-> node[4], name |-> node[3], alias |-> "",
     node |-> IF node[3] = <<>> THEN <<>>
              ELSE <<"column", Last(node[3]), IF Len(node[3]) = 1 THEN <<>> ELSE node[3]>>,
     star |-> FALSE, window |-> <<>>]

(* _unlisted_aggregates: what the HAVING, the ORDER BY or an item computes. *)
UnlistedAggregates ==
    LET listed == {KeyOf(item) : item \in {i \in ToSet(select.items) : IsAggregate(i)}}
        named == AggregatesIn(select.having)
                   \o FlattenSeq([k \in DOMAIN select.order |-> AggregatesIn(select.order[k].node)])
                   \o FlattenSeq([i \in DOMAIN select.items |->
                        IF IsComputed(select.items[i]) THEN AggregatesIn(select.items[i].node) ELSE <<>>])
        asking == [i \in DOMAIN named |-> AskedFor(named[i])]
        missing == SelectSeq(asking, LAMBDA item : KeyOf(item) \notin listed)
    IN Pick(missing, FirstsOf([i \in DOMAIN missing |-> KeyOf(missing[i])]))

(* _unlisted_groupings: a key of the sort that the grouping fixes and no    *)
(* item shows.  A key it does not fix is refused.                           *)
UnlistedGroupings(items) ==
    LET answered == UNION {{<<item.alias>>, item.name, OutputName(item)} : item \in ToSet(items)}
        node(key) == IF key.node # <<>> THEN key.node
                     ELSE <<"column", Last(key.name), IF Len(key.name) = 1 THEN <<>> ELSE key.name>>
        extra == SelectSeq(select.order, LAMBDA key :
                   /\ key.position = 0 /\ key.name \notin answered
                   /\ AggregatesIn(node(key)) = <<>> /\ ~IsConstant(node(key)))
    IN [keys |-> extra,
        loose |-> \E key \in ToSet(extra) : Loose(node(key), ToSet(select.group)),
        items |-> [k \in DOMAIN extra |->
           [function |-> "", distinct |-> FALSE, name |-> extra[k].name, alias |-> "",
            node |-> node(extra[k]), star |-> FALSE, window |-> <<>>]]]
GroupedItems ==
    LET listed == select.items \o UnlistedAggregates
    IN listed \o UnlistedGroupings(listed).items

(* ---- a table and what is kept of it -------------------------------------*)

(* resolve, or the one row with no columns that a SELECT of no table has.   *)
ReadTables ==
    /\ stage = "asked"
    /\ \E found \in {IF select.from.table = "" THEN [NoTable EXCEPT !.rows = << <<>> >>]
                     ELSE Resolve(tables, select.from)} :
         IF IsRefused(found.refused) THEN Refusing(found.refused.n)
         ELSE /\ table' = found
              /\ stage' = "read"
              /\ UNCHANGED <<asked, tables, part, ties, parts, answer>>

(* The WHERE: only true keeps a row. *)
Filter ==
    LET said == Settled([i \in DOMAIN table.rows |->
                   IF select.where = <<>> THEN True
                   ELSE Evaluate(select.where, RowOf(table.names, table.rows[i]))])
    IN /\ stage = "read"
       /\ IF \E i \in DOMAIN said : IsRefused(said[i])
          THEN Refusing(FirstWhere(said, IsRefused).n)
          ELSE Becomes("filtered", Pick(table.rows, Places(said, LAMBDA s : s = True)))

(* A SELECT of no table is answered from its one row, with nothing after.   *)
AnswerNothing ==
    /\ stage = "filtered" /\ select.from.table = "" /\ ~IsReduced
    /\ Becomes("paged", Evaluated(table.rows, Expand(select.items, <<>>), <<>>))

(* aggregate.group and compute: the rows become their groups' rows.         *)
Reduce ==
    LET unlisted == UnlistedGroupings(select.items \o UnlistedAggregates)
        items == GroupedItems
        rows == IF IsGrouped THEN Group(table.names, table.rows, items, select.group)
                ELSE <<Compute(table.names, table.rows, items)>>
        said == FlattenSeq(rows)
        kind(item) == CASE item.function = "COUNT" -> Integer(4)
                        [] item.function \in {"SUM", "AVG"} -> Integer(8)
                        [] item.node # <<>> /\ item.node[1] = "column" ->
                             table.kinds[TableIndex(table.names, item.name)]
                        [] OTHER -> Integer(4)
    IN /\ stage = "filtered" /\ IsReduced
       /\ IF unlisted.loose THEN Refusing(NOT_GROUPED_IN_THE_ORDER_BY)
          ELSE IF \E v \in ToSet(said) : IsRefused(v) THEN Refusing(FirstWhere(said, IsRefused).n)
          ELSE /\ table' = [table EXCEPT !.rows = rows,
                              !.names = [i \in DOMAIN items |-> OutputName(items[i])],
                              !.kinds = [i \in DOMAIN items |-> kind(items[i])]]
               /\ stage' = "grouped"
               /\ UNCHANGED <<asked, tables, part, ties, parts, answer>>

(* _having: a condition on a group's row, under every name it answers to.   *)
Having ==
    LET lookup == GroupLookup(GroupedItems)
        seen(row) == [name \in DOMAIN lookup |-> row[lookup[name]]]
        said == Settled([i \in DOMAIN table.rows |->
                   IF select.having = <<>> THEN True
                   ELSE Evaluate(select.having, seen(table.rows[i]))])
    IN /\ stage = "grouped"
       /\ IF \E i \in DOMAIN said : IsRefused(said[i])
          THEN Refusing(FirstWhere(said, IsRefused).n)
          ELSE Becomes("kept", Pick(table.rows, Places(said, LAMBDA s : s = True)))

SortGroups ==
    LET lookup == GroupLookup(GroupedItems)
        plans == Plans(select.order, lookup, <<>>)
    IN /\ stage = "kept"
       /\ IF RefusalIn(plans, table.rows, lookup) # 0
          THEN Refusing(RefusalIn(plans, table.rows, lookup))
          ELSE Becomes("ordered", Sorted(table.rows, select.order, plans, lookup))

(* The page of a reduced answer, and only the columns that were asked for.  *)
PageGroups ==
    LET plans == Plans(select.order, GroupLookup(GroupedItems), <<>>)
        shown(row) == SubSeq(row, 1, Len(select.items))
        paged == Paged(table.rows, Reach(table.rows, plans, table.names))
    IN /\ stage = "ordered"
       /\ stage' = "paged"
       /\ table' = [table EXCEPT !.rows = [i \in DOMAIN paged |-> shown(paged[i])],
                                 !.kinds = SubSeq(@, 1, Len(select.items))]
       /\ UNCHANGED <<asked, tables, part, ties, parts, answer>>

(* _with_windows: a column on the end for every window the list names.      *)
AddWindows ==
    LET windows == SelectSeq(select.items, IsWindow)
        said == [w \in DOMAIN windows |-> Over(table.names, table.rows, windows[w].window)]
        refusals == FlattenSeq(said)
    IN /\ stage = "filtered" /\ ~IsReduced /\ select.from.table # ""
       /\ IF \E v \in ToSet(refusals) : IsRefused(v)
          THEN Refusing(FirstWhere(refusals, IsRefused).n)
          ELSE /\ stage' = "widened"
               /\ table' =
                    [names |-> table.names \o [w \in DOMAIN windows |-> OutputName(windows[w])],
                     kinds |-> table.kinds \o [w \in DOMAIN windows |-> Integer(4)],
                     rows |-> [i \in DOMAIN table.rows |->
                                 table.rows[i] \o [w \in DOMAIN windows |-> said[w][i]]],
                     refused |-> Null]
               /\ UNCHANGED <<asked, tables, part, ties, parts, answer>>

SortRows ==
    LET lookup == LookupOf(table.names)
        plans == Plans(select.order, lookup, select.items)
        sorted == Sorted(table.rows, select.order, plans, lookup)
    IN /\ stage = "widened"
       /\ IF RefusalIn(plans, table.rows, lookup) # 0
          THEN Refusing(RefusalIn(plans, table.rows, lookup))
          ELSE IF select.withTies /\ select.distinct THEN Refusing(UNSUPPORTED)
          ELSE /\ stage' = "sorted"
               /\ table' = [table EXCEPT !.rows = sorted]
               /\ ties' = Reach(sorted, plans, table.names)
               /\ UNCHANGED <<asked, tables, part, parts, answer>>

Project ==
    LET plans == Expand(select.items, table.names)
        rows == Evaluated(table.rows, plans, table.names)
        wrong == SelectInSeq(plans, LAMBDA p : p[1] = "refused")
        refusals == FlattenSeq(rows)
    IN /\ stage = "sorted"
       /\ IF wrong > 0 THEN Refusing(plans[wrong][2])
          ELSE IF \E v \in ToSet(refusals) : IsRefused(v)
          THEN Refusing(FirstWhere(refusals, IsRefused).n)
          ELSE /\ stage' = "projected"
               /\ table' = [table EXCEPT !.rows = rows, !.kinds = HeadingsOf(plans)]
               /\ UNCHANGED <<asked, tables, part, ties, parts, answer>>

DropRepeats ==
    /\ stage = "projected"
    /\ Becomes("distinct", IF select.distinct THEN Distinct(table.rows) ELSE table.rows)

Page ==
    /\ stage = "distinct"
    /\ Becomes("paged", Paged(table.rows, ties))

(* ---- combining ----------------------------------------------------------*)

(* The next part of a union, or the answer of a statement of one.           *)
NextPart ==
    /\ stage = "paged" /\ Len(asked.parts) > 1
    /\ parts' = Append(parts, [kinds |-> table.kinds, rows |-> table.rows])
    /\ IF part < Len(asked.parts)
       THEN part' = part + 1 /\ stage' = "asked" ELSE stage' = "parts" /\ UNCHANGED part
    /\ table' = NoTable /\ ties' = NoLimit
    /\ UNCHANGED <<asked, tables, answer>>

AnswerOne ==
    /\ stage = "paged" /\ Len(asked.parts) = 1
    /\ answer' = <<"rows", table.rows>>
    /\ stage' = "answered"
    /\ UNCHANGED <<asked, tables, part, table, ties, parts>>

(* _one_type_per_column: each value to the one type of its column.          *)
ColumnTypes ==
    [k \in DOMAIN parts[1].kinds |-> ResolveTypes([i \in DOMAIN parts |-> parts[i].kinds[k]])]
Brought(one) ==
    [i \in DOMAIN one.rows |-> [k \in DOMAIN one.kinds |->
       IF ColumnTypes[k] \in {Agreed, one.kinds[k]} THEN one.rows[i][k]
       ELSE Convert(one.rows[i][k], ColumnTypes[k])]]

(* UNION, EXCEPT and INTERSECT, one after another from the left.            *)
Merged(kind, rows, other) ==
    LET theirs == {CollatedAll(row) : row \in ToSet(other)}
    IN CASE kind = "UNION ALL" -> rows \o other
         [] kind = "UNION" -> Distinct(rows \o other)
         [] kind = "INTERSECT" -> Distinct(SelectSeq(rows, LAMBDA r : CollatedAll(r) \in theirs))
         [] kind = "EXCEPT" -> Distinct(SelectSeq(rows, LAMBDA r : CollatedAll(r) \notin theirs))
Headed == [i \in DOMAIN asked.parts[1].select.items |-> OutputName(asked.parts[1].select.items[i])]
UnionPlans ==
    [k \in DOMAIN asked.order |->
       OrderPlan(asked.order[k], LookupOf(Headed), <<>>)]

(* _combined, once every part is answered. *)
Combine ==
    LET brought == [i \in DOMAIN parts |-> Brought(parts[i])]
        refusals == FlattenSeq(FlattenSeq(brought))
        rows == FoldLeft(LAMBDA rows, i : Merged(asked.parts[i].kind, rows, brought[i]),
                         brought[1], [i \in 1..(Len(parts) - 1) |-> i + 1])
        unknown == \E key \in ToSet(asked.order) :
                     key.position = 0 /\ <<Last(key.name)>> \notin ToSet(Headed)
    IN /\ stage = "parts"
       /\ IF \E i \in DOMAIN parts : Len(parts[i].kinds) # Len(parts[1].kinds)
          THEN Refusing(UNSUPPORTED)
          ELSE IF Clash \in ToSet(ColumnTypes) THEN Refusing(TYPE_CLASH)
          ELSE IF \E v \in ToSet(refusals) : IsRefused(v)
          THEN Refusing(FirstWhere(refusals, IsRefused).n)
          ELSE IF unknown THEN Refusing(UNSUPPORTED)
          ELSE /\ stage' = "merged"
               /\ table' = [NoTable EXCEPT !.rows = rows, !.names = Headed]
               /\ UNCHANGED <<asked, tables, part, ties, parts, answer>>

OrderUnion ==
    LET lookup == LookupOf(table.names)
        sorted == Sorted(table.rows, asked.order, UnionPlans, lookup)
    IN /\ stage = "merged"
       /\ IF RefusalIn(UnionPlans, table.rows, lookup) # 0
          THEN Refusing(RefusalIn(UnionPlans, table.rows, lookup))
          ELSE /\ answer' = <<"rows", FirstOf(SubSeq(sorted, asked.offset + 1, Len(sorted)),
                                              asked.fetch)>>
               /\ stage' = "answered"
               /\ UNCHANGED <<asked, tables, part, table, ties, parts>>

(* ---- the specification --------------------------------------------------*)

Init ==
    /\ asked \in Statements /\ tables \in Catalogs
    /\ part = 1 /\ stage = "asked" /\ table = NoTable
    /\ ties = NoLimit /\ parts = <<>> /\ answer = Pending

(* Nothing follows the answer. *)
Rest == stage = "answered" /\ UNCHANGED vars

Next ==
    \/ ReadTables \/ Filter \/ AnswerNothing
    \/ Reduce \/ Having \/ SortGroups \/ PageGroups
    \/ AddWindows \/ SortRows \/ Project \/ DropRepeats \/ Page
    \/ NextPart \/ AnswerOne \/ Combine \/ OrderUnion
    \/ Rest

Spec == Init /\ [][Next]_vars /\ WF_vars(Next)

(* The answer of a statement is what its words mean over the tables it      *)
(* reads, however the stages came by it: this is Answers, implemented.      *)
Meant == INSTANCE Answers
AnswersWhatIsMeant == Meant!Spec
=============================================================================
