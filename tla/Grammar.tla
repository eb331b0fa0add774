------------------------------- MODULE Grammar -------------------------------
(***************************************************************************)
(* What a batch means before anybody writes it down, and how it is written. *)
(* An expression is a tree of Predicate, a query the record SelectReader    *)
(* makes of one, a statement a record that begins with its kind, and a      *)
(* batch a sequence of statements.  Nothing here reads: brackets are        *)
(* written where the language's precedence asks for them, and nowhere else. *)
(***************************************************************************)
EXTENDS SelectReader

(* A phrase: its tokens, and the lengths at which what is written so far    *)
(* could be all of it.                                                      *)
W(words) == [text |-> words, stops |-> {Len(words)}]
Nothing == W(<<>>)
Followed(a, b) ==
    [text |-> a.text \o b.text, stops |-> {Len(a.text) + n : n \in b.stops}]
Perhaps(a, b) == [Followed(a, b) EXCEPT !.stops = @ \cup a.stops]
InOrder(phrases) == FoldLeft(Followed, Nothing, phrases)
InBrackets(a) == InOrder(<<W(<<"(">>), a, W(<<")">>)>>)
Listed(phrases) ==
    FoldLeft(LAMBDA a, b : Perhaps(a, Followed(W(<<",">>), b)), Head(phrases), Tail(phrases))
Optional(there, a) == IF there THEN a ELSE Nothing

(* How anything is written, by what it is; with is the subqueries its        *)
(* parameters stand for, or what a batch has between two statements.         *)
RECURSIVE Write(_, _, _)

(* ---- expressions --------------------------------------------------------*)

Binds(node) ==
    CASE node[1] = "or" -> 1
      [] node[1] = "and" -> 2
      [] node[1] = "not" -> 3
      [] node[1] \in {"comparison", "against", "in", "between", "is null"} -> 4
      [] node[1] = "arithmetic" /\ node[2] \in {"+", "-"} -> 5
      [] node[1] = "arithmetic" /\ node[2] \in {"*", "/", "%"} -> 6
      [] node[1] = "negate" -> 7
      [] OTHER -> 8
Spelled(v) == IF v = Null THEN "NULL" ELSE CHOOSE token \in DOMAIN Literals : Literals[token] = v
Dotted(names) ==
    FoldLeft(LAMBDA a, name : Perhaps(a, W(<<".", name>>)), W(<<Head(names)>>), Tail(names))
Asked(node, subqueries) ==
    IF node[1] # "parameter" THEN 0
    ELSE SelectInSubSeq(SubqueryNames, 1, Len(subqueries), LAMBDA name : <<name>> = node[2])
WordOf(word, negated) == W(IF negated THEN <<"NOT", word>> ELSE <<word>>)

SpellOperand(node, needs, subqueries) ==
    IF Binds(node) < needs THEN InBrackets(Write("expression", node, subqueries)) ELSE Write("expression", node, subqueries)
SpellList(nodes, subqueries) ==
    Listed([k \in DOMAIN nodes |->
              IF Asked(nodes[k], subqueries) > 0 THEN W(subqueries[Asked(nodes[k], subqueries)].words)
              ELSE Write("operand", nodes[k], <<5, subqueries>>)])
SpellExpression(node, subqueries) ==
    LET op(n, needs) == Write("operand", n, <<needs, subqueries>>)
        asked == Asked(node, subqueries)
        from(left, more) == Perhaps(left, InOrder(more))
        whole(phrases) == [InOrder(phrases) EXCEPT !.stops = {Len(InOrder(phrases).text)}]
    IN CASE node[1] = "literal" -> W(<<Spelled(node[2])>>)
         [] node[1] = "column" -> IF node[3] = <<>> THEN W(<<node[2]>>) ELSE Dotted(node[3])
         [] node[1] = "parameter" /\ asked = 0 -> W(node[2])
         [] node[1] = "parameter" /\ asked > 0 -> InBrackets(W(subqueries[asked].words))
         [] node[1] = "or" -> from(op(node[2], 1), <<W(<<"OR">>), op(node[3], 2)>>)
         [] node[1] = "and" -> from(op(node[2], 2), <<W(<<"AND">>), op(node[3], 3)>>)
         [] node[1] = "not" -> Followed(W(<<"NOT">>), op(node[2], 3))
         [] node[1] = "comparison" ->
              IF /\ Asked(node[2], subqueries) > 0
                 /\ subqueries[Asked(node[2], subqueries)].kind = "exists"
              THEN Followed(W(<<"EXISTS">>), Write("expression", node[2], subqueries))
              ELSE InOrder(<<op(node[2], 5), W(<<node[3]>>), op(node[4], 5)>>)
         [] node[1] = "against" ->
              InOrder(<<op(node[3], 5), W(<<node[2], IF node[5] THEN "ALL" ELSE "ANY">>), op(node[4][1], 5)>>)
         [] node[1] = "in" ->
              InOrder(<<op(node[2], 5), WordOf("IN", node[4]), InBrackets(Write("list", node[3], subqueries))>>)
         [] node[1] = "between" ->
              InOrder(<<op(node[2], 5), WordOf("BETWEEN", node[5]), W(op(node[3], 5).text),
                        W(<<"AND">>), op(node[4], 5)>>)
         [] node[1] = "is null" -> Followed(op(node[2], 5), W(IF node[3] THEN <<"IS", "NOT", "NULL">> ELSE <<"IS", "NULL">>))
         [] node[1] = "arithmetic" ->
              from(op(node[3], Binds(node)), <<W(<<node[2]>>), op(node[4], Binds(node) + 1)>>)
         [] node[1] = "negate" -> Followed(W(<<"-">>), op(node[2], 7))
         [] node[1] = "aggregate" ->
              Perhaps(W(<<node[2]>>),
                      InBrackets(W((IF node[4] THEN <<"DISTINCT">> ELSE <<>>)
                                     \o (IF node[3] = <<>> THEN <<"*">> ELSE node[3]))))
         [] node[1] = "case" ->
              whole(<<W(<<"CASE">>), Optional(node[4] # <<>>, op(node[4], 5))>>
                    \o FlattenSeq([k \in DOMAIN node[2] |->
                         <<W(<<"WHEN">>), op(node[2][k][1], IF node[4] = <<>> THEN 1 ELSE 5),
                           W(<<"THEN">>), op(node[2][k][2], 5)>>])
                    \o <<Optional(node[3] # <<>>, Followed(W(<<"ELSE">>), op(node[3], 5))), W(<<"END">>)>>)

(* ---- queries ------------------------------------------------------------*)

Names(words) == Listed([k \in DOMAIN words |-> W(<<words[k]>>)])
WrittenKey(key, subqueries) ==
    LET body == CASE key.position # "" -> W(<<key.position>>)
                  [] key.name # <<>> -> Dotted(key.name)
                  [] OTHER -> Write("operand", key.node, <<5, subqueries>>)
    IN Perhaps(body, Optional(key.descending, W(<<"DESC">>)))
SpellOrder(keys, subqueries) ==
    Followed(W(<<"ORDER", "BY">>), Listed([k \in DOMAIN keys |-> WrittenKey(keys[k], subqueries)]))
WrittenBound(bound) ==
    CASE bound[1] = "UNBOUNDED" -> bound
      [] bound[1] = "CURRENT" -> <<"CURRENT", "ROW">>
      [] OTHER -> <<bound[2], bound[1]>>
WrittenWindow(window) ==
    InOrder(<<W(<<"OVER", "(">>),
              Optional(window.partition # <<>>,
                       Followed(W(<<"PARTITION", "BY">>), Listed([k \in DOMAIN window.partition |-> W(window.partition[k])]))),
              Optional(window.order # <<>>, Write("order", window.order, <<>>)),
              Optional(window.frame # <<>>,
                       W(<<window.frame.kind, "BETWEEN">> \o WrittenBound(window.frame.start)
                           \o <<"AND">> \o WrittenBound(window.frame.end))),
              W(<<")">>)>>)
SpellItem(item, subqueries) ==
    LET argument == CASE item.argument # <<>> -> Write("operand", item.argument, <<5, subqueries>>)
                      [] item.argument = <<>> /\ item.name # <<>> -> Dotted(item.name)
                      [] OTHER -> W(<<"*">>)
        body == CASE item.star -> W(IF item.name = <<>> THEN <<"*">> ELSE item.name \o <<".", "*">>)
                  [] ~item.star /\ item.function # "" ->
                       Followed(W(<<item.function>>),
                                InBrackets(Followed(Optional(item.distinct, W(<<"DISTINCT">>)), argument)))
                  [] ~item.star /\ item.function = "" /\ item.window # <<>> ->
                       Followed(W(<<item.window.function>>),
                                InBrackets(IF item.window.arguments = <<>> THEN Nothing
                                           ELSE Listed([k \in DOMAIN item.window.arguments |-> W(item.window.arguments[k])])))
                  [] ~item.star /\ item.function = "" /\ item.window = <<>> /\ item.node = <<>> -> Dotted(item.name)
                  [] OTHER -> Write("operand", item.node, <<5, subqueries>>)
        windowed == IF item.window = <<>> THEN body ELSE Followed(body, WrittenWindow(item.window))
    IN Perhaps(windowed, Optional(item.alias # "", W(<<"AS", item.alias>>)))

SpellRows(rows) ==
    Followed(W(<<"VALUES">>), Listed([k \in DOMAIN rows |-> InBrackets(Write("list", rows[k], <<>>))]))
SpellSource(source) ==
    CASE source.rows # <<>> ->
           InOrder(<<InBrackets(Write("rows", source.rows, <<>>)), W(<<"AS", source.alias>>), InBrackets(Names(source.columns))>>)
      [] source.derived # <<>> ->
           Followed(InBrackets(Write("query", source.derived[1], <<>>)), W(<<"AS", source.alias>>))
      [] OTHER -> Perhaps(Dotted(source.table), Optional(source.alias # "", W(<<"AS", source.alias>>)))
WrittenJoin(join, subqueries) ==
    InOrder(<<W(IF join.kind \in {"INNER", "CROSS"} THEN <<join.kind, "JOIN">> ELSE <<join.kind, "OUTER", "JOIN">>),
              Write("table", join.source, <<>>),
              Optional(join.on # <<>>, Followed(W(<<"ON">>), Write("expression", join.on, subqueries)))>>)
WrittenApply(apply) ==
    InOrder(<<W(<<IF apply.keep THEN "OUTER" ELSE "CROSS", "APPLY">>),
              InBrackets(IF apply.rows = <<>> THEN W(apply.words) ELSE Write("rows", apply.rows, <<>>)),
              W(<<"AS", apply.alias>>),
              Optional(apply.columns # <<>>, InBrackets(Names(apply.columns)))>>)
After(there, words, body) == Optional(there, Followed(W(words), body))
Rest(q) ==
    LET written(node) == IF node = <<>> THEN Nothing ELSE Write("expression", node, q.subqueries)
        clauses ==
          <<After(q.source # Source, <<"FROM">>, Write("table", q.source, <<>>))>>
            \o [k \in DOMAIN q.joins |-> WrittenJoin(q.joins[k], q.subqueries)]
            \o [k \in DOMAIN q.applies |-> WrittenApply(q.applies[k])]
            \o <<After(q.where # <<>>, <<"WHERE">>, written(q.where)),
                 Optional(q.group # <<>>, After(TRUE, <<"GROUP", "BY">>,
                                                Listed([k \in DOMAIN q.group |-> W(q.group[k])]))),
                 After(q.having # <<>>, <<"HAVING">>, written(q.having)),
                 Optional(q.order # <<>>, Write("order", q.order, q.subqueries)),
                 Optional(q.offset # "", W(<<"OFFSET", q.offset, "ROWS">>)),
                 Optional(q.fetch # "", W(<<"FETCH", "NEXT", q.fetch, "ROWS", "ONLY">>)),
                 Optional(q.combine # <<>>, Followed(W(q.combine[1].kind), Write("query", q.combine[1].select, <<>>)))>>
    IN SelectSeq(clauses, LAMBDA clause : clause # Nothing)
HeadOf(q) ==
    InOrder(<<Optional(q.ctes # <<>>, After(TRUE, <<"WITH">>,
                Listed([k \in DOMAIN q.ctes |->
                          Followed(W(<<q.ctes[k].name, "AS">>), InBrackets(Write("query", q.ctes[k].select, <<>>)))]))),
              W(<<"SELECT">>),
              Optional(q.distinct, W(<<"DISTINCT">>)),
              Optional(q.top # "", W(<<"TOP", q.top>>)),
              Optional(q.share, W(<<"PERCENT">>)),
              Optional(q.ties, W(<<"WITH", "TIES">>))>>)
SpellQuery(q) ==
    FoldLeft(Perhaps,
             Followed(HeadOf(q), Listed([k \in DOMAIN q.items |-> Write("item", q.items[k], q.subqueries)])),
             Rest(q))

(* ---- statements ---------------------------------------------------------*)

(* A SELECT that gives its items to variables; one given to none is read,   *)
(* and one that stops before its first = would read the first variable.     *)
WrittenAssigning(names, q) ==
    LET given(k) == Followed(Optional(names[k] # "", W(<<"=">>)), Write("item", q.items[k], q.subqueries))
        one(k) == CASE names[k] = "" -> given(k)
                    [] names[k] # "" /\ k = 1 -> Perhaps(W(<<names[k]>>), given(k))
                    [] OTHER -> Followed(W(<<names[k]>>), given(k))
    IN FoldLeft(Perhaps, Followed(HeadOf(q), Listed([k \in DOMAIN names |-> one(k)])), Rest(q))
WrittenDeclared(one) ==
    Perhaps(W(<<one.name, "int">>),
            Optional(one.node # <<>>, Followed(W(<<"=">>), Write("expression", one.node, one.subqueries))))

(* Statements one after another, a semicolon between two of them or nothing.*)
SpellBatch(ones, between) ==
    FoldLeft(LAMBDA a, b : Perhaps(Perhaps(a, W(between)), b),
             Write("statement", Head(ones), <<>>), [k \in DOMAIN Tail(ones) |-> Write("statement", ones[k + 1], <<>>)])
WrittenBlock(opening, ones, closing) ==
    LET block == InOrder(<<W(opening), Write("batch", ones, <<";">>), W(<<";">> \o closing)>>)
    IN block
SpellStatement(s) ==
    CASE s.kind = "select" -> Write("query", s.query, <<>>)
      [] s.kind = "assign" -> WrittenAssigning(s.names, s.query)
      [] s.kind = "declare" -> Followed(W(<<"DECLARE">>), Listed([k \in DOMAIN s.names |-> WrittenDeclared(s.names[k])]))
      [] s.kind = "set" ->
           Followed(W(<<"SET", s.name>> \o s.op \o <<"=">>), Write("expression", s.node, s.subqueries))
      [] s.kind = "insert" ->
           InOrder(<<W(<<"INSERT", "INTO", s.table>>),
                     Optional(s.columns # <<>>, InBrackets(Names(s.columns))),
                     IF s.query = <<>> THEN Write("rows", s.rows, <<>>) ELSE Write("query", s.query[1], <<>>)>>)
      [] s.kind = "update" ->
           Perhaps(Followed(W(<<"UPDATE", s.table, "SET">>),
                            Listed([k \in DOMAIN s.columns |->
                                      Followed(W(<<s.columns[k], "=">>), Write("expression", s.values[k], s.subqueries))])),
                   After(s.where # <<>>, <<"WHERE">>, IF s.where = <<>> THEN Nothing ELSE Write("expression", s.where, s.subqueries)))
      [] s.kind = "delete" ->
           Perhaps(W(<<"DELETE", "FROM", s.table>>),
                   After(s.where # <<>>, <<"WHERE">>, IF s.where = <<>> THEN Nothing ELSE Write("expression", s.where, s.subqueries)))
      [] s.kind = "create" -> W(<<"CREATE", "TABLE", s.table, "(", "a", "int", ")">>)
      [] s.kind = "drop" -> W(<<"DROP", "TABLE", s.table>>)
      [] s.kind = "call" ->
           Perhaps(W(<<"EXEC", s.procedure>>),
                    Listed([k \in DOMAIN s.names |-> Followed(W(<<s.names[k], "=">>), Write("expression", s.values[k], <<>>))]))
      [] s.kind = "begin" -> W(<<"BEGIN", "TRAN">>)
      [] s.kind = "commit" -> Perhaps(W(<<"COMMIT">>), W(<<"TRAN">>))
      [] s.kind \in {"BREAK", "CONTINUE"} -> W(<<s.kind>>)
      [] s.kind = "block" -> WrittenBlock(<<"BEGIN">>, s.body, <<"END">>)
      [] s.kind = "bare" -> InOrder(<<W(<<"BEGIN">>), Write("statement", s.body[1], <<>>), W(<<"END">>)>>)
      [] s.kind = "while" ->
           InOrder(<<W(<<"WHILE">>), Write("expression", s.condition, s.subqueries), Write("statement", s.body, <<>>)>>)
      [] s.kind = "if" ->
           Perhaps(InOrder(<<W(<<"IF">>), Write("expression", s.condition, s.subqueries), Write("statement", s.body, <<>>)>>),
                   IF s.otherwise = <<>> THEN Nothing
                   ELSE Followed(W(<<"ELSE">>), Write("statement", s.otherwise[1], <<>>)))
      [] s.kind = "try" ->
           Followed(WrittenBlock(<<"BEGIN", "TRY">>, s.body, <<"END", "TRY">>),
                    WrittenBlock(<<"BEGIN", "CATCH">>, s.caught, <<"END", "CATCH">>))

Write(rule, what, with) ==
    CASE rule = "expression" -> SpellExpression(what, with)
      [] rule = "operand" -> SpellOperand(what, with[1], with[2])
      [] rule = "list" -> SpellList(what, with)
      [] rule = "item" -> SpellItem(what, with)
      [] rule = "order" -> SpellOrder(what, with)
      [] rule = "rows" -> SpellRows(what)
      [] rule = "table" -> SpellSource(what)
      [] rule = "query" -> SpellQuery(what)
      [] rule = "statement" -> SpellStatement(what)
      [] rule = "batch" -> SpellBatch(what, with)
Written(node, subqueries) == Write("expression", node, subqueries)
WrittenQuery(q) == Write("query", q, <<>>)
WrittenStatement(s) == Write("statement", s, <<>>)
WrittenBatch(ones, between) == Write("batch", ones, between)
=============================================================================
