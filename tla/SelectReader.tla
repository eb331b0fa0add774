---------------------------- MODULE SelectReader ----------------------------
(***************************************************************************)
(* How a SELECT is read: sql.py's parse_select.  A statement is read clause *)
(* by clause, each from where the one before it ended; what a clause reads  *)
(* is put in the statement, and a subquery in it is lifted out first and    *)
(* stands as a numbered parameter.  The first complaint ends the reading.   *)
(* STRING_AGG, which is read by a path of its own, is left out.  A statement *)
(* with no FROM loses the queries it names in a WITH.                       *)
(***************************************************************************)
EXTENDS Parser

UNBOUND_MULTI_PART == 4104
NO_SUCH_PREFIX == 107
NO_TABLE_TO_SELECT_FROM == 263
TIES_NEED_AN_ORDER == 1062
GROUP_BY_NEEDS_A_COLUMN == 164
NOT_GROUPED_OR_AGGREGATED == 8120
NO_AGGREGATE_OF_AN_AGGREGATE == 130
NO_DISTINCT_OVER == 10759
NEEDS_AN_ORDER_BY == 4112
NO_FRAME_HERE == 10752
FRAME_BACKWARDS == 4193
RANGE_TAKES_NO_NUMBER == 4194
NOT_A_RECURSION == 252
UNEVEN_VALUE_ROWS == 10709
NO_NAME_FOR_A_VALUES_COLUMN == 8155
MORE_VALUES_THAN_NAMES == 8158
FEWER_VALUES_THAN_NAMES == 8159

NOT_ALIASES ==
    {"FROM", "WHERE", "ORDER", "GROUP", "HAVING", "AS", "JOIN", "INNER", "LEFT", "RIGHT",
     "FULL", "CROSS", "ON", "OFFSET", "UNION", "EXCEPT", "INTERSECT", "FOR", "OPTION",
     "APPLY", "WITH"}
SetOperator == {"UNION", "EXCEPT", "INTERSECT"}
ITEM_ENDS ==
    {"FROM", "WHERE", "ORDER", "GROUP", "HAVING", "OFFSET", "FOR", "OPTION", "INTO"} \cup SetOperator
ORDER_ITEM_ENDS ==
    {"ASC", "DESC", "OFFSET", "FOR", "OPTION", "GROUP", "HAVING", "WHERE", "INTO"} \cup SetOperator
GROUP_ITEM_ENDS == {"ORDER", "HAVING", "OFFSET", "FOR", "OPTION", "INTO"} \cup SetOperator
FRAME_WORDS == {"ROWS", "RANGE"}
JOIN_KINDS == {"INNER", "LEFT", "RIGHT", "FULL", "CROSS"}

(* A step of a reading that has not complained yet. *)
Then(r, next) == IF Bad(r) THEN r ELSE next

(* A part of a statement, read at a place by the rule of its name: every     *)
(* reader here asks for what it holds by name, and more is what it asks with. *)
RECURSIVE Part(_, _, _, _)

(* ---- where things end ---------------------------------------------------*)

(* _read_order_item and _read_expression_text: at a comma or one of these   *)
(* words outside brackets and CASE, or at a bracket that closes what is     *)
(* around it.                                                               *)
Cases(t, i, j) ==
    Cardinality({k \in i..(j - 1) : t[k] = "CASE" /\ Depth(t, i, k) = 0})
      - Cardinality({k \in i..(j - 1) : t[k] = "END" /\ Depth(t, i, k) = 0})
EndOfItem(t, i, ends) ==
    LET stops == {j \in i..Len(t) : /\ Depth(t, i, j) = 0
                                    /\ \/ t[j] = ")"
                                       \/ t[j] \in ends \cup {","} /\ Cases(t, i, j) = 0}
    IN IF stops = {} THEN Len(t) + 1 ELSE Least(stops)

(* _read_aggregate_argument: at the bracket that closes the aggregate. *)
EndOfArgument(t, i) ==
    LET stops == {j \in i..Len(t) : Depth(t, i, j) = 0 /\ t[j] = ")"}
    IN IF stops = {} THEN Len(t) + 1 ELSE Least(stops)

(* _find_order_by and _find_join_end: where the next of these clauses       *)
(* begins outside brackets, or the end.                                     *)
LastConditionEnds == {<<"ORDER", "BY">>, <<"OFFSET">>, <<"OPTION">>} \cup {<<w>> : w \in SetOperator}
ConditionEnds == LastConditionEnds \cup {<<"GROUP", "BY">>, <<"HAVING">>}
JoinEnds ==
    ConditionEnds \cup {<<"JOIN">>, <<"WHERE">>, <<"SELECT">>, <<"CROSS", "APPLY">>, <<"OUTER", "APPLY">>}
      \cup {<<kind, "JOIN">> : kind \in JOIN_KINDS} \cup {<<kind, "OUTER">> : kind \in JOIN_KINDS}
EndOfCondition(t, i, ends) ==
    LET stops == {j \in i..Len(t) : Depth(t, i, j) = 0 /\ \E words \in ends : Begins(t, j, words)}
    IN IF stops = {} THEN Len(t) + 1 ELSE Least(stops)

(* _split_top_level: one entry to each comma outside brackets.              *)
SplitTopLevel(t) ==
    LET commas == SelectSeq([i \in DOMAIN t |-> i], LAMBDA i : t[i] = "," /\ Depth(t, 1, i) = 0)
        edges == <<0>> \o commas \o <<Len(t) + 1>>
        entries == [k \in 1..(Len(edges) - 1) |-> SubSeq(t, edges[k] + 1, edges[k + 1] - 1)]
    IN SelectSeq(entries, LAMBDA entry : entry # <<>>)

(* ---- names --------------------------------------------------------------*)

(* _read_reference and _read_qualified_name: names with dots between them.  *)
NamesEnd(t, i) ==
    LET ends == {j \in (i + 1)..(Len(t) + 1) :
                   /\ (j - i) % 2 = 1 /\ At(t, j) # "."
                   /\ \A k \in i..(j - 1) : (k - i) % 2 = 1 => t[k] = "."}
    IN IF ends = {} THEN Len(t) + 2 ELSE Least(ends)
NamesAt(t, i) ==
    LET end == NamesEnd(t, i)
        names == [k \in 1..((end - i + 1) \div 2) |-> At(t, i + 2 * (k - 1))]
    IN IF \A k \in DOMAIN names : IsName(names[k]) THEN Got(names, end) ELSE Complaint(UNSUPPORTED)
ReadReference(t, i) ==
    LET names == Part("names", t, i, <<>>)
    IN Build(names, IF Len(names.value) > 2 THEN SubSeq(names.value, Len(names.value) - 1, Len(names.value))
                    ELSE names.value)
ReadQualifiedName(t, i) ==
    LET names == Part("names", t, i, <<>>) IN IF Len(names.value) > 3 THEN Complaint(UNSUPPORTED) ELSE names

(* _read_alias, for an item, and _read_table_alias, for a table. *)
ReadAlias(t, i) ==
    LET after == IF Begins(t, i, <<"AS">>) THEN i + 1 ELSE i
        names == ReadQualifiedName(t, after)
    IN IF after = i /\ (~IsName(At(t, i)) \/ At(t, i) \in NOT_ALIASES) THEN Got("", i)
       ELSE Then(names, Got(Last(names.value), names.at))
ReadTableAlias(t, i) ==
    CASE Begins(t, i, <<"AS">>) ->
           IF IsName(t[i + 1]) THEN Got(t[i + 1], i + 2) ELSE Complaint(UNSUPPORTED)
      [] ~Begins(t, i, <<"AS">>) /\ IsName(At(t, i)) /\ At(t, i) \notin NOT_ALIASES -> Got(t[i], i + 1)
      [] OTHER -> Got("", i)

(* _read_bracketed: what a bracket holds. *)
Bracketed(t, i) ==
    LET close == CloseOf(t, i)
    IN IF close > Len(t) THEN Complaint(UNSUPPORTED) ELSE Got(SubSeq(t, i + 1, close - 1), close + 1)

(* _skip_table_hint and _skip_query_hint: a bracket, with its word or bare. *)
SkipTableHint(t, i) ==
    LET opens == IF At(t, i) = "WITH" THEN i + 1 ELSE i
    IN IF At(t, opens) = "(" THEN Part("bracketed", t, opens, <<>>) ELSE Got(<<>>, i)
SkipQueryHint(t, i) ==
    IF At(t, i) = "OPTION" /\ At(t, i + 1) = "(" THEN Part("bracketed", t, i + 1, <<>>) ELSE Got(<<>>, i)

(* ---- subqueries ---------------------------------------------------------*)

(* _lift_subqueries: every bracketed SELECT becomes the parameter of its    *)
(* number, and the word in front of it says what it stands for.             *)
AsksASet == {"IN", "ANY", "ALL", "SOME"}
LiftAtFromTheFirst(t, start, i, so) ==
    LET close == CloseOf(t, i)
    IN CASE i <= so.past -> so
         [] i > so.past /\ t[i] = "(" /\ At(t, i + 1) = "SELECT" ->
              [so EXCEPT !.past = close, !.out = Append(@, SubqueryNames[Len(so.found) + 1]),
                         !.found = Append(@, [kind |-> "scalar", words |-> SubSeq(t, i + 1, close - 1)])]
         [] OTHER -> [so EXCEPT !.out = Append(@, t[i])]
LiftAt(t, start, i, so) ==
    LET name == SubqueryNames[start + Len(so.found) + 1]
        before == At(so.out, Len(so.out))
        close == CloseOf(t, i)
        kind == IF before = "EXISTS" THEN "exists" ELSE IF before \in AsksASet THEN "in" ELSE "scalar"
    IN CASE i <= so.past -> so
         [] i > so.past /\ t[i] = "(" /\ close > Len(t) -> [so EXCEPT !.open = TRUE]
         [] i > so.past /\ t[i] = "(" /\ close <= Len(t) /\ At(t, i + 1) = "SELECT" /\ i + 2 < close ->
              [so EXCEPT !.past = close,
                         !.found = Append(@, [kind |-> kind, words |-> SubSeq(t, i + 1, close - 1)]),
                         !.out = CASE before = "EXISTS" -> Front(@) \o <<name, "=", "1">>
                                   [] before = "IN" -> @ \o <<"(", name, ")">>
                                   [] OTHER -> Append(@, name)]
         [] OTHER -> [so EXCEPT !.out = Append(@, t[i])]
Lifted(t, start) ==
    LET after[i \in 0..Len(t)] ==
          IF i = 0 THEN [out |-> <<>>, found |-> <<>>, past |-> 0, open |-> FALSE]
          ELSE LiftAt(t, start, i, after[i - 1])
    IN after[Len(t)]

(* ---- the list -----------------------------------------------------------*)

Blank == [function |-> "", distinct |-> FALSE, name |-> <<>>, node |-> <<>>, argument |-> <<>>,
          alias |-> "", star |-> FALSE, window |-> <<>>]
Entry(item, found) == [item |-> item, found |-> found]

(* _split_alias and _one_name: after a top-level AS one name and no more;   *)
(* without one the last word, where what is before it can be read alone.    *)
IsQuoted(token) == IF token \in DOMAIN Literals THEN IsText(Literals[token]) ELSE FALSE
SplitAlias(body) ==
    LET places == {k \in 2..Len(body) : body[k] = "AS" /\ Depth(body, 1, k) = 0}
        named == From(body, Least(places) + 1)
        last == Last(body)
    IN IF places # {}
       THEN IF Len(named) = 1 /\ (IsName(named[1]) \/ IsQuoted(named[1]))
            THEN Got([words |-> SubSeq(body, 1, Least(places) - 1), alias |-> named[1]], 1)
            ELSE Complaint(UNSUPPORTED)
       ELSE IF /\ Len(body) > 1
               /\ (IsName(last) /\ ~IsParameter(last)) \/ IsQuoted(last)
               /\ last \notin NOT_ALIASES
               /\ ~Bad(Part("expression", Front(body), 1, <<>>))
            THEN Got([words |-> Front(body), alias |-> last], 1)
            ELSE Got([words |-> body, alias |-> ""], 1)

(* _read_expression_item. *)
ReadExpressionItem(t, i, start) ==
    LET end == EndOfItem(t, i, ITEM_ENDS)
        lifted == Part("lifted", SubSeq(t, i, end - 1), start, <<>>)
        split == Part("split alias", lifted.out, 1, <<>>)
        read == Part("expression", split.value.words, 1, <<>>)
    IN IF lifted.open THEN Complaint(UNSUPPORTED)
       ELSE Then(split, Then(read,
              Got(Entry([Blank EXCEPT !.node = read.value, !.alias = split.value.alias], lifted.found), end)))

(* Entries of one shape with commas between them: what a GROUP BY, an ORDER *)
(* BY, a PARTITION BY and a window's arguments are.                         *)
Entries(t, i, ends, sofar) ==
    LET end == EndOfItem(t, i, ends)
        after == end + IF At(t, end) \in {"ASC", "DESC"} THEN 1 ELSE 0
        read == Append(sofar, [words |-> SubSeq(t, i, end - 1), descending |-> At(t, end) = "DESC"])
    IN IF end = i THEN Complaint(UNSUPPORTED)
       ELSE IF At(t, after) = "," THEN Part("entries", t, after + 1, <<ends, read>>)
       ELSE Got(read, after)
WordsOf(entries) == [k \in DOMAIN entries |-> entries[k].words]

(* _order_key: a position, a name, or an expression. *)
Key(name, node, position, descending) ==
    [name |-> name, node |-> node, position |-> position, descending |-> descending]
OrderKey(words, descending) ==
    LET name == ReadReference(words, 1)
        read == Part("expression", words, 1, <<>>)
    IN CASE Len(words) = 1 /\ IsNumber(words[1]) -> Got(Key(<<>>, <<>>, words[1], descending), 1)
         [] /\ words[1] \notin ToSet(SubqueryNames)
            /\ ~Bad(name) /\ name.at = Len(words) + 1 -> Got(Key(name.value, <<>>, "", descending), 1)
         [] OTHER ->
              IF read.no = ONLY_IN_SELECT_OR_ORDER_BY THEN Complaint(UNSUPPORTED)
              ELSE Build(read, Key(<<>>, read.value, "", descending))

(* _read_order_by, after its two words. *)
AddKey(so, entry, start) ==
    LET lifted == Part("lifted", entry.words, start + Len(so.found), <<>>)
        key == OrderKey(lifted.out, entry.descending)
    IN CASE so.no # 0 -> so
         [] so.no = 0 /\ lifted.open -> [so EXCEPT !.no = UNSUPPORTED]
         [] so.no = 0 /\ ~lifted.open /\ Bad(key) -> [so EXCEPT !.no = key.no]
         [] OTHER -> [so EXCEPT !.keys = Append(@, key.value), !.found = @ \o lifted.found]
ReadOrderBy(t, i, start, ends) ==
    LET entries == Part("entries", t, i, <<ends, <<>>>>)
        read == FoldLeft(LAMBDA so, entry : AddKey(so, entry, start),
                         [keys |-> <<>>, found |-> <<>>, no |-> 0], entries.value)
    IN Then(entries, IF read.no # 0 THEN Complaint(read.no) ELSE Got(read, entries.at))

(* _read_bound, _backwards and _read_frame. *)
ReadBound(t, i, kind) ==
    LET direction == At(t, i + 1) \in {"PRECEDING", "FOLLOWING"}
    IN CASE At(t, i) = "UNBOUNDED" /\ direction -> Got(<<"UNBOUNDED", t[i + 1]>>, i + 2)
         [] At(t, i) = "CURRENT" /\ At(t, i + 1) = "ROW" -> Got(<<"CURRENT">>, i + 2)
         [] IsNumber(At(t, i)) /\ direction ->
              IF kind = "RANGE" THEN Complaint(RANGE_TAKES_NO_NUMBER) ELSE Got(<<t[i + 1], t[i]>>, i + 2)
         [] OTHER -> Complaint(UNSUPPORTED)
Along(bound) ==
    CASE bound = <<"UNBOUNDED", "PRECEDING">> -> 0
      [] bound[1] = "PRECEDING" -> 1
      [] bound[1] = "CURRENT" -> 2
      [] bound[1] = "FOLLOWING" -> 3
      [] bound = <<"UNBOUNDED", "FOLLOWING">> -> 4
ReadFrame(t, i) ==
    LET between == At(t, i + 1) = "BETWEEN"
        start == ReadBound(t, i + IF between THEN 2 ELSE 1, t[i])
        end == IF between THEN ReadBound(t, start.at + 1, t[i]) ELSE Got(<<"CURRENT">>, start.at)
    IN IF Bad(start) THEN start
       ELSE IF between /\ At(t, start.at) # "AND" THEN Complaint(UNSUPPORTED)
       ELSE IF Bad(end) THEN end
       ELSE IF Along(start.value) > Along(end.value) THEN Complaint(FRAME_BACKWARDS)
       ELSE Got([kind |-> t[i], start |-> start.value, end |-> end.value], end.at)

(* _read_over: what the window is.  What its own order lifts is lost.       *)
ReadOver(t, i, function, window) ==
    LET partition == IF Begins(t, i + 2, <<"PARTITION", "BY">>)
                     THEN Part("entries", t, i + 4, <<GROUP_ITEM_ENDS \cup FRAME_WORDS, <<>>>>)
                     ELSE Got(<<>>, i + 2)
        order == IF Begins(t, partition.at, <<"ORDER", "BY">>)
                 THEN Part("order by", t, partition.at + 2, <<0, ORDER_ITEM_ENDS \cup FRAME_WORDS>>)
                 ELSE Got([keys |-> <<>>], partition.at)
        framed == At(t, order.at) \in FRAME_WORDS
        frame == IF framed THEN ReadFrame(t, order.at) ELSE Got(<<>>, order.at)
        ranking == function \in WINDOW_FUNCTIONS
    IN IF At(t, i) # "OVER" \/ At(t, i + 1) # "(" THEN Complaint(NEEDS_AN_OVER_CLAUSE)
       ELSE Then(partition, Then(order,
         IF framed /\ order.value.keys = <<>> THEN Complaint(SYNTAX_ERROR)
         ELSE IF framed /\ ranking /\ function \notin {"FIRST_VALUE", "LAST_VALUE"}
         THEN Complaint(NO_FRAME_HERE)
         ELSE Then(frame,
           IF At(t, frame.at) # ")" THEN Complaint(UNSUPPORTED)
           ELSE IF ranking /\ order.value.keys = <<>> THEN Complaint(NEEDS_AN_ORDER_BY)
           ELSE Got([window EXCEPT !.partition = WordsOf(partition.value), !.order = order.value.keys,
                                   !.frame = frame.value], frame.at + 1))))
Window(function, name, node, arguments) ==
    [function |-> function, name |-> name, node |-> node, arguments |-> arguments,
     partition |-> <<>>, order |-> <<>>, frame |-> <<>>]
Aliased(t, r, item, found) ==
    LET alias == ReadAlias(t, r.at)
    IN Then(r, Then(alias, Got(Entry([item EXCEPT !.alias = alias.value], found), alias.at)))

(* _read_window_arguments, and the entry they are in. *)
LiftedEntries(entries, start) ==
    FoldLeft(LAMBDA so, entry :
               LET lifted == Part("lifted", entry.words, start + Len(so.found), <<>>)
               IN [out |-> Append(so.out, lifted.out), found |-> so.found \o lifted.found,
                   open |-> so.open \/ lifted.open],
             [out |-> <<>>, found |-> <<>>, open |-> FALSE], entries)
ReadWindowItem(t, i, start) ==
    LET written == IF At(t, i + 2) = ")" THEN Got(<<>>, i + 2) ELSE Part("entries", t, i + 2, <<{}, <<>>>>)
        lifted == LiftedEntries(written.value, start)
        over == Part("over", t, written.at + 1, <<t[i], Window(t[i], <<>>, <<>>, lifted.out)>>)
    IN Then(written,
         IF lifted.open \/ At(t, written.at) # ")" THEN Complaint(UNSUPPORTED)
         ELSE Aliased(t, over, [Blank EXCEPT !.name = <<t[i]>>, !.window = over.value], lifted.found))

(* An aggregate: over a window, in a larger expression, or by itself.       *)
ContinuesExpression(t, i) == At(t, i) \in {"-", "+", "*", "/", "%"}
ReadAggregateItem(t, i, start) ==
    LET distinct == Begins(t, i + 2, <<"DISTINCT">>)
        opened == i + IF Begins(t, i + 2, <<"DISTINCT">>) \/ Begins(t, i + 2, <<"ALL">>) THEN 3 ELSE 2
        every == At(t, opened) = "*"
        end == IF every THEN opened + 1 ELSE EndOfArgument(t, opened)
        lifted == IF every THEN Part("lifted", <<>>, start, <<>>) ELSE Part("lifted", SubSeq(t, opened, end - 1), start, <<>>)
        read == IF every THEN Got(<<>>, 1) ELSE Part("expression", lifted.out, 1, <<>>)
        bare == read.value # <<>> /\ read.value[1] = "column"
        name == IF ~bare THEN <<>> ELSE IF read.value[3] # <<>> THEN read.value[3] ELSE <<read.value[2]>>
        item == [Blank EXCEPT !.function = t[i], !.distinct = distinct, !.name = name,
                              !.argument = IF bare THEN <<>> ELSE read.value]
        over == Part("over", t, end + 1, <<t[i], Window(t[i], name, item.argument, <<>>)>>)
        reducesOne == lifted.found # <<>> \/ Parts(read.value, "aggregate") # <<>>
    IN IF (every /\ (t[i] # "COUNT" \/ distinct)) \/ lifted.open \/ Bad(read) \/ At(t, end) # ")"
       THEN Complaint(UNSUPPORTED)
       ELSE IF At(t, end + 1) = "OVER" /\ At(t, end + 2) = "("
       THEN IF distinct THEN Complaint(NO_DISTINCT_OVER)
            ELSE Aliased(t, over, [item EXCEPT !.window = over.value], lifted.found)
       ELSE IF reducesOne THEN Complaint(NO_AGGREGATE_OF_AN_AGGREGATE)
       ELSE IF ContinuesExpression(t, end + 1) THEN Part("expression item", t, i, start)
       ELSE Aliased(t, Got(<<>>, end + 1), item, <<>>)

(* _read_select_item: what an entry is, by what it begins with. *)
StartsExpression(token) ==
    token \in {"-", "+", "(", "CASE", "NULL"} \cup DOMAIN Literals \/ IsParameter(token)
ReadItem(t, i, start) ==
    LET token == At(t, i)
        called == IsName(token) /\ At(t, i + 1) = "("
        name == ReadReference(t, i)
        expression == Part("expression item", t, i, start)
    IN CASE token = "*" /\ ~ContinuesExpression(t, i + 1) ->
              Got(Entry([Blank EXCEPT !.star = TRUE], <<>>), i + 1)
         [] IsName(token) /\ At(t, i + 1) = "." /\ At(t, i + 2) = "*" ->
              Got(Entry([Blank EXCEPT !.star = TRUE, !.name = <<token>>], <<>>), i + 3)
         [] StartsExpression(token) -> expression
         [] called /\ token \in AGGREGATES -> ReadAggregateItem(t, i, start)
         [] called /\ token \in WINDOW_FUNCTIONS -> ReadWindowItem(t, i, start)
         [] called /\ token \notin AGGREGATES \cup WINDOW_FUNCTIONS \cup {"CASE", "NULL"} -> expression
         [] OTHER -> Then(name, IF ContinuesExpression(t, name.at) THEN expression
                                ELSE Aliased(t, name, [Blank EXCEPT !.name = name.value], <<>>))

ReadItems(t, i, items, found) ==
    LET read == Part("item", t, i, Len(found))
        listed == Append(items, read.value.item)
        lifted == found \o read.value.found
    IN Then(read, IF At(t, read.at) = "," THEN Part("items", t, read.at + 1, <<listed, lifted>>)
                  ELSE Got([items |-> listed, found |-> lifted], read.at))

(* ---- tables -------------------------------------------------------------*)

Source == [table |-> <<>>, alias |-> "", derived |-> <<>>, rows |-> <<>>, columns |-> <<>>]

(* _read_values and values_written: rows in brackets, as expressions.       *)
ReadRows(t, i, rows) ==
    LET inner == Part("bracketed", t, i, <<>>)
        written == SplitTopLevel(inner.value)
        row == [k \in DOMAIN written |-> Part("expression", written[k], 1, <<>>)]
    IN CASE At(t, i) = "," -> Part("rows", t, i + 1, rows)
         [] At(t, i) = "(" /\ Bad(inner) -> inner
         [] At(t, i) = "(" /\ ~Bad(inner) ->
              IF \E k \in DOMAIN row : Bad(row[k]) THEN row[Least({k \in DOMAIN row : Bad(row[k])})]
              ELSE Part("rows", t, inner.at, Append(rows, [k \in DOMAIN row |-> row[k].value]))
         [] OTHER -> Got(rows, i)
Even(rows) ==
    Then(rows,
         IF rows.value = <<>> THEN Complaint(UNSUPPORTED)
         ELSE IF Cardinality({Len(row) : row \in ToSet(rows.value)}) > 1 THEN Complaint(UNEVEN_VALUE_ROWS)
         ELSE rows)
ValuesWritten(t) == Even(Part("rows", t, 2, <<>>))

(* _read_apply_alias: a name, and names for its columns. *)
ReadApplyAlias(t, i, named) ==
    LET at == IF Begins(t, i, <<"AS">>) THEN i + 1 ELSE i
        inner == Part("bracketed", t, at + 1, <<>>)
        columns == SplitTopLevel(inner.value)
    IN IF ~IsName(At(t, at)) THEN Complaint(UNSUPPORTED)
       ELSE IF At(t, at + 1) # "("
       THEN IF named THEN Complaint(UNSUPPORTED) ELSE Got([alias |-> t[at], columns |-> <<>>], at + 1)
       ELSE Then(inner, Got([alias |-> t[at], columns |-> [k \in DOMAIN columns |-> columns[k][1]]], inner.at))

(* _read_bracketed_table: a SELECT, or rows written out. *)
ReadDerived(t, i, inner) ==
    LET select == Part("select", inner.value, 1, <<>>)
        alias == ReadTableAlias(t, inner.at)
    IN Then(select, Then(alias,
         IF alias.value = "" THEN Complaint(UNSUPPORTED)
         ELSE Got([Source EXCEPT !.table = <<alias.value>>, !.alias = alias.value,
                                 !.derived = <<select.value>>], alias.at)))
ReadWrittenOut(t, i, inner) ==
    LET rows == Part("values", inner.value, 1, <<>>)
        alias == Part("apply alias", t, inner.at, FALSE)
        width == Len(alias.value.columns)
    IN Then(rows, Then(alias,
         IF width = 0 THEN Complaint(NO_NAME_FOR_A_VALUES_COLUMN)
         ELSE IF Len(rows.value[1]) > width THEN Complaint(MORE_VALUES_THAN_NAMES)
         ELSE IF Len(rows.value[1]) < width THEN Complaint(FEWER_VALUES_THAN_NAMES)
         ELSE Got([Source EXCEPT !.table = <<alias.value.alias>>, !.alias = alias.value.alias,
                                 !.rows = rows.value, !.columns = alias.value.columns], alias.at)))
ReadSource(t, i) ==
    LET inner == Part("bracketed", t, i, <<>>)
        name == ReadQualifiedName(t, i)
        hinted == SkipTableHint(t, name.at)
        alias == ReadTableAlias(t, hinted.at)
        after == SkipTableHint(t, alias.at)
        parts == Len(name.value)
    IN IF At(t, i) = "("
       THEN Then(inner, IF At(inner.value, 1) = "VALUES" THEN ReadWrittenOut(t, i, inner)
                        ELSE ReadDerived(t, i, inner))
       ELSE Then(name, Then(hinted, Then(alias, Then(after,
              Got([Source EXCEPT !.alias = alias.value,
                                 !.table = IF parts = 3 THEN Tail(name.value) ELSE name.value], after.at)))))

(* ---- clauses ------------------------------------------------------------*)

(* What is read so far: the statement, where the reading is, what was       *)
(* lifted, and the complaint that ended it.                                 *)
Empty ==
    [distinct |-> FALSE, top |-> "", share |-> FALSE, ties |-> FALSE, items |-> <<>>,
     source |-> Source, joins |-> <<>>, applies |-> <<>>, where |-> <<>>, group |-> <<>>,
     having |-> <<>>, order |-> <<>>, offset |-> "", fetch |-> "", combine |-> <<>>,
     ctes |-> <<>>, subqueries |-> <<>>]
Start(ctes, at) == [select |-> [Empty EXCEPT !.ctes = ctes], at |-> at, no |-> 0]
Fail(st, k) == [st EXCEPT !.at = 0, !.no = k]
Put(st, field, value, at) == [st EXCEPT !.select[field] = value, !.at = at]
PutLifted(st, field, value, found, at) ==
    [Put(st, field, value, at) EXCEPT !.select.subqueries = @ \o found]
NoTable(st) == st.select.source = Source

ReadDistinct(t, st) ==
    IF Begins(t, st.at, <<"DISTINCT">>) THEN Put(st, "distinct", TRUE, st.at + 1) ELSE st

ReadTop(t, st) ==
    LET counted == st.at + IF At(t, st.at + 1) = "(" THEN 2 ELSE 1
        after == counted + IF At(t, counted + 1) = ")" THEN 2 ELSE 1
        shared == after + IF At(t, after) = "PERCENT" THEN 1 ELSE 0
        ties == At(t, shared) = "WITH" /\ At(t, shared + 1) = "TIES"
        count == At(t, counted)
    IN IF At(t, st.at) = "TOP" /\ (IsNumber(count) \/ count \in Variables)
       THEN [st EXCEPT !.select.top = count, !.select.share = shared > after, !.select.ties = ties,
                       !.at = shared + IF ties THEN 2 ELSE 0]
       ELSE st

ReadList(t, st) ==
    LET list == Part("items", t, st.at, <<<<>>, <<>>>>)
    IN IF Bad(list) THEN Fail(st, list.no)
       ELSE PutLifted(st, "items", list.value.items, list.value.found, list.at)

ReadFrom(t, st) ==
    LET source == Part("table", t, st.at + 1, <<>>)
    IN IF ~Begins(t, st.at, <<"FROM">>) THEN st
       ELSE IF Bad(source) THEN Fail(st, source.no)
       ELSE Put(st, "source", source.value, source.at)

(* A condition and what is lifted out of it; ReadJoins, the WHERE and the   *)
(* HAVING all read one.                                                     *)
ReadCondition(t, i, end, start) ==
    LET lifted == Part("lifted", SubSeq(t, i, end - 1), start, <<>>)
        read == Part("predicate", lifted.out, 1, <<>>)
    IN IF lifted.open THEN Complaint(UNSUPPORTED)
       ELSE Then(read, Got([node |-> read.value, found |-> lifted.found], end))
Conditional(t, st, word, field, ends) ==
    LET read == Part("condition", t, st.at + 1, <<EndOfCondition(t, st.at + 1, ends), Len(st.select.subqueries)>>)
    IN IF ~Begins(t, st.at, <<word>>) THEN st
       ELSE IF Bad(read) THEN Fail(st, read.no)
       ELSE PutLifted(st, field, read.value.node, read.value.found, read.at)

(* _read_joins: each kind of join, and a comma, which is a cross join.  A   *)
(* bracketed table is known by its alias alone.                             *)
JoinAt(t, i) ==
    CASE Begins(t, i, <<"JOIN">>) -> Got("INNER", i + 1)
      [] At(t, i) \in JOIN_KINDS /\ Begins(t, i + 1, <<"JOIN">>) -> Got(t[i], i + 2)
      [] At(t, i) \in JOIN_KINDS /\ Begins(t, i + 1, <<"OUTER", "JOIN">>) -> Got(t[i], i + 3)
      [] At(t, i) = "," /\ (IsName(At(t, i + 1)) \/ At(t, i + 1) = "(") -> Got("CROSS", i + 1)
      [] OTHER -> Complaint(0)
RECURSIVE ReadJoins(_, _)
ReadJoins(t, st) ==
    LET join == JoinAt(t, st.at)
        source == Part("table", t, join.at, <<>>)
        conditional == Begins(t, source.at, <<"ON">>)
        on == IF conditional
              THEN Part("condition", t, source.at + 1, <<EndOfCondition(t, source.at + 1, JoinEnds), Len(st.select.subqueries)>>)
              ELSE Got([node |-> <<>>, found |-> <<>>], source.at)
        joined == [kind |-> join.value, on |-> on.value.node,
                   source |-> IF At(t, join.at) = "(" THEN [source.value EXCEPT !.table = <<>>]
                              ELSE source.value]
    IN IF NoTable(st) \/ Bad(join) THEN st
       ELSE IF Bad(source) THEN Fail(st, source.no)
       ELSE IF Bad(on) THEN Fail(st, on.no)
       ELSE IF ~conditional /\ join.value # "CROSS" THEN Fail(st, UNSUPPORTED)
       ELSE ReadJoins(t, PutLifted(st, "joins", Append(st.select.joins, joined), on.value.found, on.at))

(* _read_applies: rows written out, or a SELECT that is kept as it is.      *)
RECURSIVE ReadApplies(_, _)
ReadApplies(t, st) ==
    LET body == Part("bracketed", t, st.at + 2, <<>>)
        written == At(body.value, 1) = "VALUES"
        alias == Part("apply alias", t, body.at, written)
        rows == IF written THEN Part("rows", body.value, 2, <<>>) ELSE Got(<<>>, 1)
        narrow == {k \in DOMAIN rows.value : Len(rows.value[k]) # Len(alias.value.columns)}
        apply == [keep |-> t[st.at] = "OUTER", alias |-> alias.value.alias,
                  words |-> IF written THEN <<>> ELSE body.value, rows |-> rows.value,
                  columns |-> IF written THEN alias.value.columns ELSE <<>>]
    IN IF NoTable(st) \/ At(t, st.at) \notin {"CROSS", "OUTER"}
          \/ At(t, st.at + 1) # "APPLY" \/ At(t, st.at + 2) # "(" THEN st
       ELSE IF Bad(body) \/ At(body.value, 1) \notin {"VALUES", "SELECT", "WITH"} THEN Fail(st, UNSUPPORTED)
       ELSE IF Bad(rows) THEN Fail(st, rows.no)
       ELSE IF Bad(alias) \/ narrow # {} THEN Fail(st, UNSUPPORTED)
       ELSE ReadApplies(t, Put(st, "applies", Append(st.select.applies, apply), alias.at))

ReadWhere(t, st) == Conditional(t, st, "WHERE", "where", ConditionEnds)
ReadHaving(t, st) == Conditional(t, st, "HAVING", "having", LastConditionEnds)

ReadGroupBy(t, st) ==
    LET entries == Part("entries", t, st.at + 2, <<GROUP_ITEM_ENDS, <<>>>>)
        several(words) == At(words, 1) \in {"ROLLUP", "CUBE"} /\ At(words, 2) = "("
    IN IF ~Begins(t, st.at, <<"GROUP", "BY">>) THEN st
       ELSE IF NoTable(st) THEN Fail(st, GROUP_BY_NEEDS_A_COLUMN)
       ELSE IF Bad(entries) \/ \E e \in ToSet(entries.value) : several(e.words) THEN Fail(st, UNSUPPORTED)
       ELSE Put(st, "group", WordsOf(entries.value), entries.at)

(* _read_tail: the order, the page, and what this is combined with.         *)
ReadOrder(t, st) ==
    LET order == Part("order by", t, st.at + 2, <<Len(st.select.subqueries), ORDER_ITEM_ENDS>>)
    IN IF ~Begins(t, st.at, <<"ORDER", "BY">>) THEN st
       ELSE IF Bad(order) THEN Fail(st, order.no)
       ELSE PutLifted(st, "order", order.value.keys, order.value.found, order.at)
ReadOffsetFetch(t, st) ==
    LET count == At(t, st.at + 1)
        next == st.at + 3
        fetched == /\ At(t, next) = "FETCH" /\ At(t, next + 1) \in {"NEXT", "FIRST"}
                   /\ At(t, next + 3) = "ROWS" /\ At(t, next + 4) = "ONLY"
                   /\ IsNumber(At(t, next + 2)) \/ At(t, next + 2) \in Variables
        known == count \notin Variables /\ (fetched => At(t, next + 2) \notin Variables)
    IN IF At(t, st.at) # "OFFSET" \/ At(t, st.at + 2) # "ROWS" \/ ~(IsNumber(count) \/ count \in Variables)
       THEN st
       ELSE IF st.select.order = <<>> \/ ~known THEN Fail(st, UNSUPPORTED)
       ELSE IF fetched THEN Put(Put(st, "offset", count, next), "fetch", t[next + 2], next + 5)
       ELSE Put(st, "offset", count, next)
ReadCombine(t, st) ==
    LET kind == IF At(t, st.at + 1) = "ALL" THEN <<t[st.at], "ALL">> ELSE <<t[st.at]>>
        rest == Part("select", From(t, st.at + Len(kind)), 1, <<>>)
    IN IF At(t, st.at) \notin SetOperator THEN st
       ELSE IF st.select.order # <<>> THEN Fail(st, UNSUPPORTED)
       ELSE IF Bad(rest) THEN Fail(st, rest.no)
       ELSE Put(st, "combine", <<[kind |-> kind, select |-> rest.value]>>, Len(t) + 1)
ReadHint(t, st) ==
    LET hint == SkipQueryHint(t, st.at) IN IF Bad(hint) THEN Fail(st, hint.no) ELSE [st EXCEPT !.at = hint.at]

(* ---- what a statement that was read may still not be --------------------*)

IsAll(items) == Len(items) = 1 /\ items[1].star /\ items[1].name = <<>>
ColumnOf(name) == <<"column", Last(name), IF Len(name) > 1 THEN name ELSE <<>>>>

(* _nothing_to_read: the first column named where there is no table.        *)
ReadBy(item) ==
    CASE item.node # <<>> -> LET columns == Parts(item.node, "column") aggregates == Parts(item.node, "aggregate")
                             IN IF columns # <<>> THEN columns
                                ELSE [k \in 1..Len(SelectSeq(aggregates, LAMBDA a : a[3] # <<>>)) |->
                                        ColumnOf(SelectSeq(aggregates, LAMBDA a : a[3] # <<>>)[k][3])]
      [] item.node = <<>> /\ item.argument # <<>> -> Parts(item.argument, "column")
      [] item.node = <<>> /\ item.argument = <<>> /\ item.name # <<>> -> <<ColumnOf(item.name)>>
      [] OTHER -> <<>>
NothingToRead(select) ==
    LET named(item) == item.star \/ ReadBy(item) # <<>>
        at == SelectInSeq(select.items, named)
        item == select.items[at]
        read == (IF at > 0 THEN ReadBy(item) ELSE <<>>)
                  \o IF select.where = <<>> THEN <<>> ELSE Parts(select.where, "column")
    IN IF at > 0 /\ item.star THEN (IF item.name = <<>> THEN NO_TABLE_TO_SELECT_FROM ELSE NO_SUCH_PREFIX)
       ELSE IF read = <<>> THEN 0
       ELSE IF read[1][3] # <<>> THEN UNBOUND_MULTI_PART ELSE NO_SUCH_COLUMN

(* The groupings, and what the list may hold beside them. *)
Groupings(select) ==
    LET read == {Part("expression", words, 1, <<>>) : words \in ToSet(select.group)}
    IN {r.value : r \in {r \in read : ~Bad(r)}}
Reduces(select) ==
    \/ select.group # <<>> \/ select.having # <<>>
    \/ \E item \in ToSet(select.items) :
          item.window = <<>> /\ (item.function # "" \/ Parts(item.node, "aggregate") # <<>>)
IsLoose(item, groupings) ==
    /\ item.function = ""
    /\ item.node # <<>> \/ item.name # <<>>
    /\ Loose(IF item.node # <<>> THEN item.node ELSE ColumnOf(item.name), groupings)
NotGrouped(select) ==
    LET groupings == Groupings(select)
        wrong == SelectInSeq(select.items, LAMBDA item : item.window # <<>> \/ IsLoose(item, groupings))
    IN CASE IsAll(select.items) ->
              IF select.group # <<>> \/ select.having # <<>> THEN UNSUPPORTED ELSE 0
         [] ~IsAll(select.items) /\ \E g \in groupings : Parts(g, "column") = <<>> -> GROUP_BY_NEEDS_A_COLUMN
         [] ~IsAll(select.items) /\ Reduces(select) /\ wrong > 0 ->
              IF select.items[wrong].window # <<>> THEN UNSUPPORTED ELSE NOT_GROUPED_OR_AGGREGATED
         [] OTHER -> 0

WrongIn(st) == IF NoTable(st) THEN NothingToRead(st.select) ELSE NotGrouped(st.select)
Finish(t, st, wrong) ==
    LET select == st.select
    IN IF Bad(st) THEN Complaint(st.no)
       ELSE IF st.at <= Len(t) THEN Complaint(UNSUPPORTED)
       ELSE IF select.ties /\ select.order = <<>> THEN Complaint(TIES_NEED_AN_ORDER)
       ELSE IF wrong # 0 THEN Complaint(wrong)
       ELSE Got(IF NoTable(st) THEN [select EXCEPT !.ctes = <<>>] ELSE select, st.at)

(* ---- the statement ------------------------------------------------------*)

(* _unbracketed: the brackets a part of a combination is written in.        *)
RECURSIVE Peeled(_)
Peeled(t) ==
    LET inner == Part("bracketed", t, 1, <<>>)
        rest == inner.value \o From(t, inner.at)
    IN IF At(t, 1) # "(" \/ Bad(inner) THEN t
       ELSE IF At(rest, 1) \in {"SELECT", "WITH"} /\ Len(rest) > 1 THEN rest
       ELSE Peeled(rest)
Unbracketed(t) ==
    LET peeled == Peeled(t) IN IF At(peeled, 1) \in {"SELECT", "WITH"} THEN peeled ELSE t

(* _reads_itself and _read_ctes: the named queries in front of it.          *)
RECURSIVE ReadsItself(_, _)
ReadsItself(name, select) ==
    /\ \A one \in ToSet(select.ctes) : one.name # name
    /\ \/ select.source.table = <<name>>
       \/ \E join \in ToSet(select.joins) : join.source.table = <<name>>
       \/ \E one \in ToSet(select.source.derived) : ReadsItself(name, one)
       \/ \E one \in ToSet(select.combine) : ReadsItself(name, one.select)
ReadCtes(t, i, ctes) ==
    LET name == At(t, i)
        inner == Part("bracketed", t, i + 2, <<>>)
        query == Part("select", inner.value, 1, <<>>)
        named == Append(ctes, [name |-> name, select |-> query.value])
        once == \A one \in ToSet(query.value.combine) : one.kind # <<"UNION", "ALL">>
    IN IF ~IsName(name) \/ At(t, i + 1) # "AS" \/ At(t, i + 2) # "(" THEN Complaint(UNSUPPORTED)
       ELSE Then(inner, Then(query,
         IF ReadsItself(name, query.value) THEN Complaint(IF once THEN NOT_A_RECURSION ELSE UNSUPPORTED)
         ELSE IF At(t, inner.at) = "," THEN Part("ctes", t, inner.at + 1, named)
         ELSE Got(named, inner.at)))

Clause(name, t, st) ==
    CASE Bad(st) -> st
      [] ~Bad(st) /\ name = "DISTINCT" -> ReadDistinct(t, st)
      [] ~Bad(st) /\ name = "TOP" -> ReadTop(t, st)
      [] ~Bad(st) /\ name = "list" -> ReadList(t, st)
      [] ~Bad(st) /\ name = "FROM" -> ReadFrom(t, st)
      [] ~Bad(st) /\ name = "JOIN" -> ReadJoins(t, st)
      [] ~Bad(st) /\ name = "APPLY" -> ReadApplies(t, st)
      [] ~Bad(st) /\ name = "WHERE" -> ReadWhere(t, st)
      [] ~Bad(st) /\ name = "GROUP" -> ReadGroupBy(t, st)
      [] ~Bad(st) /\ name = "HAVING" -> ReadHaving(t, st)
      [] ~Bad(st) /\ name = "ORDER" -> ReadOrder(t, st)
      [] ~Bad(st) /\ name = "OFFSET" -> ReadOffsetFetch(t, st)
      [] ~Bad(st) /\ name = "UNION" -> ReadCombine(t, st)
      [] ~Bad(st) /\ name = "OPTION" -> ReadHint(t, st)
Clauses ==
    <<"DISTINCT", "TOP", "list", "FROM", "JOIN", "APPLY", "WHERE", "GROUP", "HAVING", "ORDER",
      "OFFSET", "UNION", "OPTION">>

RECURSIVE WithoutLastSemicolons(_)
WithoutLastSemicolons(t) ==
    IF t # <<>> /\ Last(t) = ";" THEN WithoutLastSemicolons(Front(t)) ELSE t

ReadSelect(written) ==
    LET text == Unbracketed(WithoutLastSemicolons(written))
        ctes == IF At(text, 1) = "WITH" THEN Part("ctes", text, 2, <<>>) ELSE Got(<<>>, 1)
        t == From(text, ctes.at)
        read == FoldLeft(LAMBDA st, name : Clause(name, t, st), Start(ctes.value, 2), Clauses)
    IN Then(ctes,
         IF t = <<>> \/ t = <<"SELECT">> THEN Complaint(SYNTAX_ERROR)
         ELSE IF t[1] # "SELECT" THEN Complaint(UNSUPPORTED)
         ELSE Finish(t, read, WrongIn(read)))

Part(rule, t, i, more) ==
    CASE rule = "expression" -> ParseExpression(t)
      [] rule = "predicate" -> ParsePredicate(t)
      [] rule = "names" -> NamesAt(t, i)
      [] rule = "bracketed" -> Bracketed(t, i)
      [] rule = "lifted" -> Lifted(t, i)
      [] rule = "split alias" -> SplitAlias(t)
      [] rule = "expression item" -> ReadExpressionItem(t, i, more)
      [] rule = "item" -> ReadItem(t, i, more)
      [] rule = "items" -> ReadItems(t, i, more[1], more[2])
      [] rule = "entries" -> Entries(t, i, more[1], more[2])
      [] rule = "order by" -> ReadOrderBy(t, i, more[1], more[2])
      [] rule = "over" -> ReadOver(t, i, more[1], more[2])
      [] rule = "rows" -> ReadRows(t, i, more)
      [] rule = "values" -> ValuesWritten(t)
      [] rule = "apply alias" -> ReadApplyAlias(t, i, more)
      [] rule = "table" -> ReadSource(t, i)
      [] rule = "condition" -> ReadCondition(t, i, more[1], more[2])
      [] rule = "ctes" -> ReadCtes(t, i, more)
      [] rule = "select" -> ReadSelect(t)
ParseSelect(t) == Part("select", t, 1, <<>>)
=============================================================================
