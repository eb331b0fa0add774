------------------------------ MODULE MCReading ------------------------------
(***************************************************************************)
(* Batches for Reading: each kind of statement, of clause and of expression *)
(* once or twice, in the company where it is hardest to tell apart.         *)
(***************************************************************************)
EXTENDS Reading

MCLiterals ==
    [x \in {"0", "1", "2", "3", "'x'"} |->
       CASE x = "0" -> Number(0) [] x = "1" -> Number(1) [] x = "2" -> Number(2)
         [] x = "3" -> Number(3) [] OTHER -> Text("x")]
MCVariables == {"@a", "@b", "@c"}

(* ---- expressions ---------------------------------------------------------*)
Lit(token) == <<"literal", MCLiterals[token]>>
Nothing1 == <<"literal", Null>>
Col(name) == <<"column", name, <<>>>>
Of(table, name) == <<"column", name, <<table, name>>>>
Var(name) == <<"parameter", <<name>>>>
Sub(k) == <<"parameter", <<SubqueryNames[k]>>>>
Do(one, op, other) == <<"arithmetic", op, one, other>>
Cmp(one, op, other) == <<"comparison", one, op, other>>
Both(one, other) == <<"and", one, other>>
Either(one, other) == <<"or", one, other>>
Whether(test, yes, no) == <<"case", <<<<test, yes>>>>, no, <<>>>>
Agg(function, name) == <<"aggregate", function, <<name>>, FALSE>>
Exists(k) == Cmp(Sub(k), "=", Lit("1"))

(* ---- queries -------------------------------------------------------------*)
Names1(names) == [k \in DOMAIN names |-> [Blank EXCEPT !.name = <<names[k]>>]]
Node(node) == [Blank EXCEPT !.node = node]
As(item, alias) == [item EXCEPT !.alias = alias]
Over(function, arguments, partition, order, frame) ==
    [Blank EXCEPT !.name = <<function>>,
       !.window = [function |-> function, name |-> <<>>, node |-> <<>>, arguments |-> arguments,
                   partition |-> partition, order |-> order, frame |-> frame]]
By(name) == Key(<<name>>, <<>>, "", FALSE)
Down(key) == [key EXCEPT !.descending = TRUE]
Subquery(kind, q) == [kind |-> kind, words |-> WrittenQuery(q).text]
Table(name) == [Source EXCEPT !.table = <<name>>]
Known(name, alias) == [Source EXCEPT !.table = <<name>>, !.alias = alias]
From1(items, table) == [Empty EXCEPT !.items = items, !.source = Table(table)]
Plain == From1(Names1(<<"a">>), "p")
Constant(node) == [Empty EXCEPT !.items = <<Node(node)>>]

Conditions ==
    <<Both(Either(Cmp(Col("a"), "=", Lit("1")), Cmp(Col("b"), "=", Lit("2"))), <<"is null", Col("c"), FALSE>>),
      Either(Cmp(Col("a"), "=", Lit("1")), Both(<<"not", Cmp(Col("b"), "<", Lit("2"))>>, <<"is null", Col("c"), TRUE>>)),
      Both(<<"between", Col("a"), Lit("1"), Do(Lit("2"), "+", Lit("1")), FALSE>>, <<"in", Col("b"), <<Lit("1"), Lit("2")>>, TRUE>>),
      <<"not", <<"between", Col("a"), Lit("1"), Lit("2"), TRUE>>>>,
      Cmp(Do(Col("a"), "-", Do(Col("b"), "-", Lit("1"))), ">", Do(Col("c"), "*", Do(Lit("1"), "+", Lit("2")))),
      Cmp(Whether(Either(Cmp(Col("a"), "=", Lit("1")), <<"is null", Col("b"), FALSE>>), Lit("1"), Whether(Cmp(Col("b"), "=", Lit("2")), Nothing1, Lit("2"))), "=", Lit("1")),
      Cmp(<<"case", <<<<Lit("1"), Col("b")>>, <<Lit("2"), Col("c")>>>>, <<>>, Col("a")>>, "<>", <<"negate", Lit("1")>>),
      Cmp(<<"negate", Do(Col("a"), "+", Lit("1"))>>, "<=", Do(Do(Lit("1"), "-", Lit("2")), "-", Col("b")))>>

(* Every way one part of an expression stands in another, once.  A condition *)
(* that begins with a bracket is left out: its reader takes the bracket for  *)
(* one around a whole condition.                                             *)
AValue == Do(Col("b"), "+", Lit("1"))
ATest == Cmp(Col("b"), "<", Lit("2"))
ValuesOver(x) ==
    <<Do(x, "-", Lit("1")), Do(Lit("1"), "-", x), Do(x, "*", Lit("2")), Do(Lit("2"), "/", x),
      Do(x, "+", Lit("1")), Do(Lit("2"), "%", x), <<"negate", x>>, Whether(ATest, x, Lit("1")),
      Whether(ATest, Lit("1"), x), <<"case", <<<<x, Lit("1")>>>>, x, Col("c")>>>>
TestsOver(x) ==
    <<Cmp(x, "=", Lit("1")), Cmp(Col("c"), ">", x), <<"between", x, Lit("1"), Lit("2"), FALSE>>,
      <<"between", Col("c"), x, x, TRUE>>, <<"in", x, <<Lit("1")>>, FALSE>>,
      <<"in", Col("c"), <<Lit("1"), x>>, TRUE>>, <<"is null", x, TRUE>>>>
JoinedOver(p) ==
    <<Both(p, ATest), Both(ATest, p), Either(p, ATest), Either(ATest, p), <<"not", p>>,
      Cmp(Whether(p, Lit("1"), Lit("0")), "=", Lit("1"))>>
Over2(Outer(_), inner) == FlattenSeq([k \in DOMAIN inner |-> Outer(inner[k])])
NestedValues == Over2(ValuesOver, ValuesOver(Col("a")) \o ValuesOver(AValue))
NestedTests ==
    SelectSeq(Over2(TestsOver, ValuesOver(Col("a")) \o ValuesOver(AValue))
                \o Over2(JoinedOver, TestsOver(Col("a")) \o JoinedOver(ATest) \o JoinedOver(Either(ATest, ATest))),
              LAMBDA p : Head(Written(p, <<>>).text) # "(")

Ordered == [Plain EXCEPT !.distinct = TRUE, !.top = "2", !.where = Cmp(Col("a"), ">", Lit("1")),
                          !.order = <<Down(By("a")), Key(<<>>, <<>>, "1", FALSE)>>]
Tied ==
    [From1(<<[Blank EXCEPT !.function = "SUM", !.name = <<"a">>,
                !.window = [function |-> "SUM", name |-> <<"a">>, node |-> <<>>, arguments |-> <<>>, partition |-> <<<<"b">>>>,
                            order |-> <<>>, frame |-> <<>>]],
             As(Node(Do(Lit("1"), "+", Col("a"))), "n")>>, "p") EXCEPT !.top = "2", !.ties = TRUE, !.order = <<By("a")>>]
Inner == [Plain EXCEPT !.where = Cmp(Of("p", "a"), "=", Of("t", "a"))]
Queries ==
    <<Ordered,
      [From1(Names1(<<"a">>) \o <<As([Blank EXCEPT !.function = "COUNT"], "n")>>, "p") EXCEPT
         !.where = <<"is null", Col("b"), TRUE>>, !.group = <<<<"a">>>>,
         !.having = Both(Cmp(<<"aggregate", "COUNT", <<>>, FALSE>>, ">", Lit("1")), Cmp(Agg("SUM", "b"), "<", Lit("3"))),
         !.order = <<Down(Key(<<>>, Agg("SUM", "b"), "", FALSE))>>],
      [From1(<<[Blank EXCEPT !.name = <<"p", "a">>], As(Node(Do(Col("b"), "+", Lit("1"))), "d")>>, "p") EXCEPT
         !.joins = <<[kind |-> "LEFT", source |-> Known("t", "u"), on |-> Both(Cmp(Of("p", "a"), "=", Of("u", "a")), Cmp(Of("u", "b"), "=", Lit("1")))],
                     [kind |-> "CROSS", source |-> Table("s"), on |-> <<>>],
                     [kind |-> "INNER", source |-> Table("r"), on |-> Cmp(Of("r", "a"), "=", Of("p", "a"))]>>,
         !.where = Cmp(Of("u", "a"), "=", Lit("2"))],
      [Plain EXCEPT !.where = Both(Exists(1), <<"in", Col("b"), <<Sub(2)>>, TRUE>>),
                    !.subqueries = <<Subquery("exists", Inner), Subquery("in", Plain)>>],
      [From1(<<As(Node(Sub(1)), "n"), [Blank EXCEPT !.name = <<"b">>]>>, "p") EXCEPT
         !.where = <<"against", "<", Col("a"), <<Sub(2)>>, TRUE>>,
         !.order = <<Key(<<>>, Do(Sub(3), "+", Lit("1")), "", FALSE)>>,
         !.subqueries = <<Subquery("scalar", Inner), Subquery("in", Plain), Subquery("scalar", Inner)>>],
      [Empty EXCEPT !.items = <<[Blank EXCEPT !.star = TRUE]>>,
                    !.source = [Source EXCEPT !.table = <<"d">>, !.alias = "d", !.derived = <<[Plain EXCEPT !.where = Conditions[1]]>>],
                    !.offset = "1", !.fetch = "2", !.order = <<By("a")>>],
      [Empty EXCEPT !.items = Names1(<<"x", "y">>),
                    !.source = [Source EXCEPT !.table = <<"v">>, !.alias = "v", !.columns = <<"x", "y">>,
                                              !.rows = <<<<Lit("1"), Lit("'x'")>>, <<Do(Lit("1"), "+", Lit("2")), Nothing1>>>>]],
      [From1(<<Over("ROW_NUMBER", <<>>, <<<<"a">>>>, <<Down(By("b"))>>, <<>>),
               As(Over("FIRST_VALUE", <<<<"c">>>>, <<>>, <<By("b")>>, [kind |-> "ROWS", start |-> <<"PRECEDING", "1">>, end |-> <<"CURRENT">>]), "f")>>, "p")
         EXCEPT !.where = Conditions[2]],
      Tied,
      [Plain EXCEPT !.ctes = <<[name |-> "w", select |-> [Plain EXCEPT !.where = Cmp(Col("a"), "=", Lit("2"))]],
                               [name |-> "z", select |-> From1(Names1(<<"b">>), "w")]>>, !.source = Known("z", "p")],
      [Plain EXCEPT !.combine = <<[kind |-> <<"UNION", "ALL">>, select |->
                       [From1(Names1(<<"b">>), "t") EXCEPT !.where = Conditions[3],
                          !.combine = <<[kind |-> <<"EXCEPT">>, select |-> [Plain EXCEPT !.order = <<By("a")>>]]>>]]>>],
      [From1(Names1(<<"a">>), "p") EXCEPT
         !.applies = <<[keep |-> FALSE, alias |-> "q", words |-> WrittenQuery(Inner).text, rows |-> <<>>, columns |-> <<>>]>>,
         !.source = Known("p", "t"), !.where = Cmp(Of("q", "a"), "=", Lit("1"))],
      [From1(<<As([Blank EXCEPT !.function = "COUNT", !.distinct = TRUE, !.name = <<"a">>], "n"),
               [Blank EXCEPT !.function = "SUM", !.argument = Whether(Cmp(Col("a"), "=", Lit("1")), Lit("1"), Lit("0"))],
               Node(Do(Agg("MAX", "a"), "-", Agg("MIN", "a")))>>, "p") EXCEPT !.where = Conditions[4]]>>

(* ---- statements ----------------------------------------------------------*)
Select(q) == [kind |-> "select", query |-> q]
Reads(node) == Select(Constant(node))
Where(condition) == Select([Plain EXCEPT !.where = condition])
Assigns1(names, q) == [kind |-> "assign", names |-> names, query |-> q]
One1(name, node) == [name |-> name, node |-> node, subqueries |-> <<>>]
Declare(ones) == [kind |-> "declare", names |-> ones]
Set(name, op, node) == [kind |-> "set", name |-> name, op |-> op, node |-> node, subqueries |-> <<>>]
Asked1(s, subqueries) == [s EXCEPT !.subqueries = subqueries]
If(condition, body, otherwise) ==
    [kind |-> "if", condition |-> condition, subqueries |-> <<>>, body |-> body, otherwise |-> otherwise]
While(condition, body) == [kind |-> "while", condition |-> condition, subqueries |-> <<>>, body |-> body]
Bare(s) == [kind |-> "bare", body |-> <<s>>]
Block1(body) == [kind |-> "block", body |-> body]
TryThen(body, caught) == [kind |-> "try", body |-> body, caught |-> caught]
Break == [kind |-> "BREAK"]
Continue == [kind |-> "CONTINUE"]
InsertRows(rows) == [kind |-> "insert", table |-> "#t", columns |-> <<"a", "b">>, rows |-> rows, query |-> <<>>]
InsertRead(q) == [kind |-> "insert", table |-> "#t", columns |-> <<>>, rows |-> <<>>, query |-> <<q>>]
Update(columns, values, where) ==
    [kind |-> "update", table |-> "#t", columns |-> columns, values |-> values, where |-> where, subqueries |-> <<>>]
Delete(where) == [kind |-> "delete", table |-> "#t", where |-> where, subqueries |-> <<>>]
Create == [kind |-> "create", table |-> "#t"]
Drop == [kind |-> "drop", table |-> "#t"]
Call(names, values) == [kind |-> "call", procedure |-> "sp", names |-> names, values |-> values]
Begin == [kind |-> "begin"]
Commit == [kind |-> "commit"]

IsOne1 == Cmp(Var("@a"), "=", Lit("1"))
DeclareA == Declare(<<One1("@a", <<>>)>>)

Apart(ones) == [ones |-> ones, between |-> <<";">>]
Beside(ones) == [ones |-> ones, between |-> <<>>]
Alone(s) == Beside(<<s>>)

Shared == <<DeclareA, If(IsOne1, Reads(Lit("1")), <<Reads(Var("@a"))>>)>>
Counting == While(Cmp(Var("@a"), "<", Lit("3")),
                  Block1(<<Set("@a", <<"+">>, Lit("1")),
                           If(IsOne1, Block1(<<Reads(Lit("1")), Continue>>), <<Block1(<<Reads(Lit("2")), Break>>)>>),
                           Reads(Whether(IsOne1, Lit("1"), Lit("2")))>>))
Trying == TryThen(<<Reads(Lit("1")),
                    TryThen(<<Reads(Lit("2"))>>, <<Reads(Lit("3")), Select(Ordered)>>),
                    While(IsOne1, Block1(<<TryThen(<<Break>>, <<Reads(Lit("0"))>>), Reads(Lit("2"))>>))>>,
                  <<Select(Plain), Set("@a", <<>>, Lit("2"))>>)
Filled == <<Create, InsertRows(<<<<Lit("1"), Lit("'x'")>>, <<Do(Lit("1"), "+", Lit("2")), Nothing1>>>>),
            InsertRead(Ordered)>>
Changed1 == <<Update(<<"a", "b">>, <<Do(Col("b"), "+", Lit("1")), Col("a")>>, Conditions[1]),
              Update(<<"b">>, <<Nothing1>>, <<>>), Delete(Conditions[3]), Delete(<<>>), Drop>>

MCBatches ==
    LET queries == Queries conditions == Conditions tests == NestedTests values == NestedValues IN
    [k \in DOMAIN queries |-> Alone(Select(queries[k]))]
    \o [k \in DOMAIN conditions |-> Alone(Where(conditions[k]))]
    \o [k \in DOMAIN tests |-> Alone(Where(tests[k]))]
    \o [k \in DOMAIN values |-> Alone(Select(From1(<<Node(values[k])>>, "p")))]
    \o <<Apart(<<Declare(<<One1("@a", Whether(Cmp(Lit("1"), "=", Lit("2")), Lit("1"), Lit("2"))), One1("@b", <<>>), One1("@c", Do(Lit("1"), "+", Lit("2")))>>),
                 Set("@a", <<"+">>, Do(Var("@b"), "*", Lit("2"))), Reads(Var("@a"))>>),
         Beside(<<DeclareA, Set("@a", <<>>, Lit("1")), Select(Ordered), Reads(Var("@a"))>>),
         Apart(Filled), Beside(Filled), Apart(Changed1), Beside(Changed1),
         Apart(Shared), Beside(Shared),
         Apart(<<DeclareA, If(IsOne1, Block1(<<Reads(Lit("1")), If(Cmp(Var("@a"), ">", Lit("2")), Reads(Lit("2")), <<Reads(Lit("3"))>>)>>), <<Block1(<<Set("@a", <<>>, Lit("2"))>>)>>)>>),
         Apart(<<DeclareA, Counting, Reads(Lit("0"))>>), Beside(<<DeclareA, Counting, Select(Plain)>>),
         Apart(<<DeclareA, Bare(Reads(Lit("1"))), Bare(Select(Ordered)), Reads(Lit("0"))>>),
         Apart(<<DeclareA, Trying, Reads(Lit("0"))>>), Beside(<<DeclareA, Trying, Reads(Lit("0"))>>),
         Apart(<<DeclareA, Asked1(If(Exists(1), Reads(Lit("1")), <<>>), <<Subquery("exists", Inner)>>),
                 Asked1(Set("@a", <<>>, Do(Sub(1), "+", Lit("1"))), <<Subquery("scalar", Inner)>>)>>),
         Apart(<<Declare(<<One1("@a", <<>>), One1("@b", <<>>)>>),
                 Assigns1(<<"@a", "@b">>, [Tied EXCEPT !.items = <<Node(Do(Lit("1"), "+", Col("a"))), [Blank EXCEPT !.name = <<"b">>]>>]),
                 Assigns1(<<"@a">>, Constant(Lit("1")))>>),
         Apart(<<Begin, Select(Plain), Commit>>), Beside(<<Begin, Select(Plain), Commit>>),
         Apart(<<DeclareA, Call(<<"@b", "@c">>, <<Var("@a"), Lit("1")>>)>>),
         \* what is refused before any of it runs
         Apart(<<Reads(Lit("1")), Reads(Var("@b"))>>),
         Apart(<<If(Cmp(Lit("1"), "=", Lit("2")), Block1(<<DeclareA, Reads(Lit("1"))>>), <<>>), Reads(Var("@a"))>>),
         Apart(<<Declare(<<One1("@a", Var("@b")), One1("@b", <<>>)>>), Reads(Lit("1"))>>),
         Apart(<<DeclareA, Assigns1(<<"@a", "">>, From1(Names1(<<"a", "b">>), "p")), Reads(Var("@c"))>>),
         Apart(<<DeclareA, While(IsOne1, Block1(<<Reads(Lit("1")), Break>>)), If(IsOne1, Continue, <<>>)>>),
         Apart(<<TryThen(<<Reads(Lit("1"))>>, <<Break>>)>>),
         Apart(<<Call(<<"@b">>, <<Var("@a")>>), DeclareA>>),
         Apart(<<Reads(Var("@a")), DeclareA, If(Cmp(Var("@b"), "=", Lit("1")), Reads(Var("@c")), <<>>), Break>>)>>
=============================================================================
