------------------------------- MODULE MCQuery -------------------------------
(***************************************************************************)
(* Statements over a table p(id, name) and a table t(owner, v), and small   *)
(* contents for both: NULLs, text in two cases, owners that are in p once,  *)
(* twice or not at all.                                                     *)
(***************************************************************************)
EXTENDS Query

Col(n) == <<"column", n, <<>>>>
Of(q, n) == <<"column", n, <<q, n>>>>
Lit(k) == <<"literal", Number(k)>>
Cmp(a, op, b) == <<"comparison", a, op, b>>
Both(a, b) == <<"and", a, b>>
Plus(a, b) == <<"arithmetic", "+", a, b>>
Minus(k) == <<"negate", k>>
CountOf(n) == <<"aggregate", "COUNT", n, FALSE>>

Blank == [function |-> "", distinct |-> FALSE, name |-> <<>>, node |-> <<>>,
          alias |-> "", star |-> FALSE, window |-> <<>>]
Item(n) == [Blank EXCEPT !.name = <<n>>, !.node = Col(n)]
ItemOf(q, n) == [Blank EXCEPT !.name = <<q, n>>, !.node = Of(q, n)]
Worked_(node, alias) == [Blank EXCEPT !.node = node, !.alias = alias]
As(item, alias) == [item EXCEPT !.alias = alias]
Agg(f, n) == [Item(n) EXCEPT !.function = f]
AggDistinct(f, n) == [Agg(f, n) EXCEPT !.distinct = TRUE]
CountAll == [Blank EXCEPT !.function = "COUNT"]

Key(n) == [name |-> <<n>>, node |-> <<>>, position |-> 0, descending |-> FALSE]
KeyOn(node) == [Key("worked out") EXCEPT !.node = node]
KeyAt(i) == [Key("") EXCEPT !.position = i]
KeyBy(q, n) == [Key(n) EXCEPT !.name = <<q, n>>]
Down(key) == [key EXCEPT !.descending = TRUE]

P == [table |-> "p", alias |-> "p", joins |-> <<>>]
T == [table |-> "t", alias |-> "t", joins |-> <<>>]
Join(kind, with, alias, on) == [kind |-> kind, table |-> with, alias |-> alias, on |-> on]
PT(kind, on) == [P EXCEPT !.joins = <<Join(kind, "t", "t", on)>>]
OnId == Cmp(Of("t", "owner"), "=", Of("p", "id"))

From(f, items) ==
    [from |-> f, where |-> <<>>, items |-> items, group |-> <<>>, having |-> <<>>,
     order |-> <<>>, distinct |-> FALSE, top |-> NoLimit, share |-> FALSE,
     withTies |-> FALSE, offset |-> 0, fetch |-> NoLimit]
One(s) == [parts |-> <<[kind |-> "", select |-> s]>>, order |-> <<>>, offset |-> 0, fetch |-> NoLimit]

(* ---- joins: every kind, with each form of condition ---------------------*)
Conditions ==
    {OnId,
     Both(OnId, Cmp(Of("t", "v"), "<", Of("p", "id"))),
     Cmp(Of("p", "id"), "<", Of("t", "owner")),
     Cmp(Plus(Of("p", "id"), Lit(0)), "=", Of("t", "owner")),
     Both(Cmp(Col("name"), "=", Col("name")), OnId),
     Cmp(Of("p", "id"), "=", Of("t", "v")),
     Cmp(Of("p", "id"), "=", Of("t", "code"))}
JoinStatements ==
    {One(From(PT(kind, on), <<>>)) : kind \in {"INNER", "LEFT", "RIGHT", "FULL"}, on \in Conditions}
      \cup {One(From([P EXCEPT !.joins = <<Join("CROSS", "t", "t", <<>>)>>], <<>>)),
            One(From([P EXCEPT !.alias = "a", !.joins = <<Join("INNER", "p", "b",
                       Cmp(Of("a", "name"), "=", Of("b", "name"))),
                       Join("LEFT", "t", "t", Cmp(Of("t", "owner"), "=", Of("b", "id")))>>],
                     <<ItemOf("a", "id"), Item("owner")>>))}

(* ---- rows: the WHERE, the list, the order, the page ---------------------*)
ByName == From(P, <<Item("id"), Item("name")>>)
Orders ==
    {<<Key("name")>>, <<Down(Key("name")), Down(Key("id"))>>, <<KeyAt(2), Key("id")>>,
     <<KeyOn(Minus(Col("id")))>>, <<KeyBy("p", "name"), KeyOn(Plus(Col("id"), Col("id")))>>}
Pages ==
    {[top |-> 1, share |-> FALSE, withTies |-> TRUE, offset |-> 0, fetch |-> NoLimit],
     [top |-> 50, share |-> TRUE, withTies |-> FALSE, offset |-> 0, fetch |-> NoLimit],
     [top |-> NoLimit, share |-> FALSE, withTies |-> FALSE, offset |-> 1, fetch |-> 1]}
Turned(s, page) ==
    [s EXCEPT !.top = page.top, !.share = page.share, !.withTies = page.withTies,
              !.offset = page.offset, !.fetch = page.fetch]
RowStatements ==
    {One(Turned([ByName EXCEPT !.order = order], page)) : order \in Orders, page \in Pages}
      \cup {One([Turned([ByName EXCEPT !.order = <<Key("name")>>], page) EXCEPT
                  !.items = <<Item("name")>>, !.distinct = TRUE]) :
              page \in {page \in Pages : ~page.withTies}}
      \cup {One([From(P, <<As(Worked_(Minus(Col("id")), "id"), "id"), Item("name")>>)
                  EXCEPT !.order = <<Key("id")>>]),
            One([From(P, <<As(Item("id"), "name"), As(Item("name"), "id")>>)
                  EXCEPT !.order = <<Key("name")>>, !.where = Cmp(Col("id"), "<", Lit(3))]),
            One(From([P EXCEPT !.table = ""], <<Worked_(Lit(1), "one")>>))}

(* ---- groups -------------------------------------------------------------*)
PerOwner == [From(T, <<Item("owner"), As(CountAll, "n"), As(Agg("SUM", "v"), "total")>>)
              EXCEPT !.group = <<Col("owner")>>]
GroupStatements ==
    {One(PerOwner),
     One([PerOwner EXCEPT !.order = <<Down(Key("n")), Key("owner")>>]),
     One([PerOwner EXCEPT !.having = Cmp(CountOf(<<"v">>), "<", Lit(2))]),
     One([PerOwner EXCEPT !.having = Cmp(Col("n"), "<", Lit(2)), !.order = <<KeyAt(3)>>]),
     One([PerOwner EXCEPT !.order = <<[KeyOn(CountOf(<<"v">>)) EXCEPT !.descending = TRUE]>>,
                          !.top = 1, !.withTies = TRUE]),
     One([From(P, <<AggDistinct("COUNT", "name"), Agg("MIN", "name"), Agg("MAX", "id")>>)
           EXCEPT !.where = Cmp(Col("id"), "<", Lit(9))]),
     One([From(P, <<Item("name"), Agg("AVG", "id")>>) EXCEPT !.group = <<Col("name")>>,
           !.order = <<Key("name")>>]),
     One([From(T, <<CountAll>>) EXCEPT !.group = <<Col("owner")>>, !.order = <<Down(Key("owner"))>>]),
     One([From(P, <<Worked_(Plus(Col("id"), CountOf(<<>>)), "x")>>)
           EXCEPT !.group = <<Col("id"), Col("name")>>]),
     One([From(PT("LEFT", OnId), <<ItemOf("p", "id"), Agg("COUNT", "v")>>)
           EXCEPT !.group = <<Of("p", "id")>>, !.offset = 1])}

(* ---- windows ------------------------------------------------------------*)
NoFrame == [start |-> -Unbounded, end |-> 0, range |-> TRUE]
Over_(f, n, partition, order) ==
    [function |-> f, node |-> Col(n), everyRow |-> FALSE, partition |-> partition, order |-> order,
     framed |-> FALSE, frame |-> NoFrame, tiles |-> 2, reach |-> Lit(1), missing |-> Lit(7)]
Framed(w, start, end, range) ==
    [w EXCEPT !.framed = TRUE, !.frame = [start |-> start, end |-> end, range |-> range]]
WindowItem(w) == [Blank EXCEPT !.window = w, !.alias = "w"]
On(n) == [node |-> Col(n), descending |-> FALSE]
Windows ==
    {Over_(f, "id", <<>>, <<On("name")>>) : f \in {"ROW_NUMBER", "RANK", "DENSE_RANK", "NTILE", "LAG", "LEAD"}}
      \cup {Over_(f, "id", <<Col("name")>>, <<On("id")>>) : f \in {"SUM", "MAX", "LEAD", "FIRST_VALUE"}}
      \cup {Over_("COUNT", "id", <<Col("name")>>, <<>>)}
      \cup {Framed(Over_(f, "id", <<>>, <<On("name")>>), b[1], b[2], b[3]) :
              f \in {"SUM", "MIN", "LAST_VALUE"},
              b \in {<<-Unbounded, 0, FALSE>>, <<0, Unbounded, FALSE>>, <<-1, 1, FALSE>>,
                     <<1, 1, FALSE>>, <<-2, -1, FALSE>>, <<0, Unbounded, TRUE>>, <<0, 0, TRUE>>}}
WindowStatements == {One(From(P, <<Item("id"), Item("name"), WindowItem(w)>>)) : w \in Windows}

(* ---- unions -------------------------------------------------------------*)
Names == From(P, <<Item("name")>>)
Ids == From(P, <<Item("id")>>)
Values_ == From(T, <<Item("v")>>)
Union(s, kind, u) ==
    [parts |-> <<[kind |-> "", select |-> s], [kind |-> kind, select |-> u]>>,
     order |-> <<>>, offset |-> 0, fetch |-> NoLimit]
UnionStatements ==
    {Union(Ids, kind, Values_) : kind \in {"UNION", "UNION ALL", "INTERSECT", "EXCEPT"}}
      \cup {Union(Names, kind, Names) : kind \in {"UNION", "EXCEPT"}}
      \cup {[Union(Ids, "UNION", Values_) EXCEPT !.order = <<Down(KeyBy("p", "id"))>>, !.fetch = 2],
            [Union(Ids, "UNION ALL", From(T, <<Item("code")>>)) EXCEPT !.order = <<KeyAt(1)>>, !.offset = 1],
            [Union(Ids, "UNION", Values_) EXCEPT !.parts = Append(@, [kind |-> "EXCEPT", select |-> Ids])]}

(* ---- statements that are refused, always or where a row makes them ------*)
By(node, op, n) == Cmp(node, op, Lit(n))
Over2(node) == <<"arithmetic", "/", Lit(6), <<"arithmetic", "-", node, Lit(2)>>>>
WrongStatements ==
    {One([ByName EXCEPT !.where = By(Over2(Col("id")), ">", 1)]),
     One([ByName EXCEPT !.where = Both(By(Col("id"), "<>", 2), By(Over2(Col("id")), ">", 1))]),
     One([From(P, <<Item("name"), Worked_(Over2(Col("id")), "x")>>)
            EXCEPT !.where = By(Col("id"), "<>", 2)]),
     One([From(P, <<Item("name"), Worked_(Over2(Col("id")), "x")>>) EXCEPT !.top = 1]),
     One([ByName EXCEPT !.order = <<KeyAt(3)>>]),
     One([ByName EXCEPT !.order = <<Key("id"), KeyOn(Plus(Lit(1), Lit(1)))>>]),
     One([ByName EXCEPT !.order = <<Key("id")>>, !.top = 1, !.withTies = TRUE, !.distinct = TRUE]),
     One([From(P, <<Item("name"), CountAll>>) EXCEPT !.group = <<Col("name")>>,
            !.order = <<KeyOn(Minus(Col("id")))>>]),
     One([PerOwner EXCEPT !.having = By(Over2(CountOf(<<>>)), "<", 9)]),
     One([From(P, <<Item("id"), Agg("SUM", "name")>>) EXCEPT !.group = <<Col("id")>>]),
     Union(ByName, "UNION", Ids),
     Union(Names, "EXCEPT", Ids),
     Union([Ids EXCEPT !.where = By(Over2(Col("id")), ">", 1)], "UNION ALL", Values_),
     [Union(Ids, "UNION ALL", Values_) EXCEPT !.order = <<Key("v")>>]}

Asked == WrongStatements \cup JoinStatements \cup RowStatements \cup GroupStatements \cup WindowStatements \cup UnionStatements

(* ---- contents -----------------------------------------------------------*)
x == Text("x")  X == Text("X")  y == Text("y")
PColumns == [names |-> << <<"id">>, <<"name">> >>, kinds |-> <<Integer(4), NVarChar(4)>>, refused |-> Null]
TColumns == [names |-> << <<"owner">>, <<"v">>, <<"code">> >>,
             kinds |-> <<Integer(4), Integer(8), NVarChar(4)>>, refused |-> Null]
Holding(columns, rows) ==
    [names |-> columns.names, kinds |-> columns.kinds, rows |-> rows, refused |-> Null]
N(k) == Number(k)
Contents ==
    {[p |-> Holding(PColumns, c[1]), t |-> Holding(TColumns, c[2])] : c \in
       {<< <<>>, << <<N(1), N(2), Text("1")>> >> >>,
        << <<<<N(1), x>>, <<N(2), y>>, <<N(3), X>>, <<N(4), Null>>>>,
           <<<<N(1), N(1), Text("1")>>, <<N(3), N(2), Text("2")>>, <<N(1), Null, Null>>, <<Null, N(2), Text("01")>>>> >>,
        << <<<<N(2), X>>, <<Null, x>>, <<N(1), x>>>>,
           <<<<N(2), N(1), Null>>, <<N(5), N(1), Text("1")>>>> >>,
        << <<<<N(1), X>>, <<N(1), x>>, <<N(2), X>>, <<N(2), Null>>, <<N(3), y>>>>, <<>> >>,
        << <<<<N(2), y>>, <<N(2), y>>>>,
           <<<<N(2), N(2), Text("2")>>, <<N(2), N(2), Text("2")>>, <<N(2), N(1), Text("01")>>>> >>,
        << <<<<Null, Null>>>>, <<<<Null, Null, Null>>, <<Null, Null, Null>>>> >>}}
=============================================================================
