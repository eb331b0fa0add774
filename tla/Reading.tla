------------------------------- MODULE Reading -------------------------------
(***************************************************************************)
(* A batch read and taken apart as it runs: catalog.py's _whole_batch,      *)
(* _statement, _tried, _looped and _branch_taken over the readers of sql.py *)
(* and predicate.py.  A batch arrives as a text.  It is compiled, and either *)
(* refused whole or run: what is still to run is a stack of texts, and a     *)
(* step reads the one on top and puts what it holds in its place.  Which way *)
(* a condition goes and whether a statement fails are choices, because they *)
(* are questions about data.                                                *)
(*                                                                          *)
(* Beside the texts runs what was meant: the trees of Grammar the text was   *)
(* written from, stepped by what the language says of each kind of statement *)
(* and never by reading.  The properties compare the two.                    *)
(***************************************************************************)
EXTENDS Grammar, Malformed

CONSTANTS Batches,       \* each a sequence of statements, and what stands between them
          TempTables     \* the names of the session's own tables

VARIABLES which,     \* the batch that was sent
          whole,     \* the text it is written as, and where that may stop
          cut,       \* how many of its tokens were
          stage,     \* "sent", "refused" or "running"
          said,      \* the numbers compiling complained with
          left,      \* the texts still to run, the next one first
          task,      \* what the next one was read as, once it has been
          meant      \* the texts still to run, as what they were written from

vars == <<which, whole, cut, stage, said, left, task, meant>>

(* The batches, worked out once.                                             *)
Sendable == Batches \o <<>>
Batch == Sendable[which]
Sent == SubSeq(whole.text, 1, cut)

(* ---- one statement read --------------------------------------------------*)

(* The words catalog.py looks for where a condition ends, which are not      *)
(* those of sql.py: _statement_start.                                        *)
STATEMENT_WORDS ==
    {"SELECT", "EXEC", "SET", "DECLARE", "PRINT", "RETURN", "BEGIN", "WITH", "INSERT",
     "UPDATE", "DELETE", "COMMIT", "ROLLBACK", "WHILE", "BREAK", "CONTINUE", "IF"}
StatementStart(words, at) == NextWordIn(words, at, STATEMENT_WORDS)

(* What a statement turned out to be, and what was read in it: nothing, or   *)
(* one of these texts.  Where both are there, the first decides whether      *)
(* tables have to be asked; if none has, the second is what is read.         *)
Task(does, says) == [does |-> does, says |-> says, no |-> 0]
CouldNotRead(number) == [does |-> "refuse", says |-> <<>>, no |-> number]
Question(does, select, alone) == [does |-> does, select |-> select, alone |-> alone, says |-> <<>>]
Asks(does, select) == Question(does, select, <<>>)
Says(does, what) == [Question(does, <<>>, <<>>) EXCEPT !.says = what]
Refuse == Says("refuse", <<>>)

Outcome(does, read) == IF Bad(read) THEN CouldNotRead(read.no) ELSE Task(does, <<read.value>>)
AsksTables(read) == ~Bad(read) /\ (read.value.subqueries # <<>> \/ read.value.source # Source)
AloneAs(does) ==
    CASE does = "weigh" -> "predicate" [] does = "assign" -> "expression" [] does = "insert rows" -> "values"
WithTables(does) == IF does = "weigh" THEN "ask" ELSE "assign from a read"
Answered(question, select) ==
    CASE question.does = "refuse" -> CouldNotRead(UNSUPPORTED)
      [] question.alone # <<>> ->
           IF AsksTables(select) THEN Outcome(WithTables(question.does), select)
           ELSE Outcome(question.does, Part(AloneAs(question.does), question.alone, 1, <<>>))
      [] question.alone = <<>> /\ question.select # <<>> -> Outcome(question.does, select)
      [] OTHER -> Task(question.does, question.says)
ReadTo(question) ==
    Answered(question, IF question.select = <<>> THEN Complaint(0) ELSE ParseSelect(question.select))

(* _condition_holds: a read where the condition asks a table.                *)
AskCondition(condition) ==
    Question("weigh", <<"SELECT", "CASE", "WHEN">> \o condition
                        \o <<"THEN", "1", "ELSE", "0", "END", "AS", "v">>, condition)

(* _assigned_by_select, and SelectAssigns.as_a_read.                         *)
GivenBy(part) ==
    IF At(part, 2) = "=" THEN From(part, 3)
    ELSE <<part[1], part[2], "(">> \o From(part, 4) \o <<")">>
CommaBetween(parts) == FoldLeft(LAMBDA a, b : a \o <<",">> \o b, Head(parts), Tail(parts))
AsARead(words) ==
    LET head == HeadOfSelect(words)
        list == TopLevel(words, head, AfterASelectList)
        assigns == SelectSeq(list.parts, Assigns)
    IN SubSeq(words, 1, head - 1)
         \o CommaBetween([k \in DOMAIN assigns |-> GivenBy(assigns[k])]) \o From(words, list.end)

(* _ASSIGNMENT after _COMPOUND_SET, and _assigned_from_a_read.               *)
Compound(words) ==
    IF At(words, 1) = "SET" /\ At(words, 2) \in Variables
       /\ At(words, 3) \in {"+", "-", "*", "/", "%"} /\ At(words, 4) = "="
    THEN <<"SET", words[2], "=", words[2], words[3], "(">> \o From(words, 5) \o <<")">>
    ELSE words
GivesAt(words) ==
    CASE At(words, 3) = "=" -> 4
      [] IsName(At(words, 3)) /\ At(words, 4) = "=" -> 5
      [] OTHER -> 0
IsAssignment(words) ==
    At(words, 1) \in {"SET", "DECLARE"} /\ At(words, 2) \in Variables /\ GivesAt(words) > 0
AskAssignment(words) ==
    LET given == From(words, GivesAt(words)) IN Question("assign", <<"SELECT">> \o given, given)

(* _rows_for: rows written out, or a statement that makes them.              *)
AskRowsFor(words) ==
    CASE At(words, 1) = "VALUES" -> Question("insert rows", <<>>, words)
      [] At(words, 1) \in {"SELECT", "WITH"} -> Asks("insert what is read", words)
      [] OTHER -> Refuse

(* assignments_written, and the read that _changed makes of an UPDATE or a   *)
(* DELETE.                                                                   *)
Unended(words) == IF Last(words) = ";" THEN Front(words) ELSE words
SetsAColumn(part) == IsName(At(part, 1)) /\ At(part, 2) = "=" /\ Len(part) > 2
ChangeAsked(table, parts, where) ==
    LET hit == IF where = <<>> THEN <<"1">>
               ELSE <<"CASE", "WHEN", "(">> \o where \o <<")", "THEN", "1", "ELSE", "0", "END">>
        values == [k \in DOMAIN parts |-> <<"(">> \o From(parts[k], 3) \o <<")">>]
    IN <<"SELECT">> \o CommaBetween(<<hit>> \o values) \o <<"FROM", table>>
AskUpdate(words) ==
    LET stop == NextWordIn(words, 4, {"WHERE", "FROM", "OPTION"})
        parts == SplitTopLevel(SubSeq(words, 4, stop - 1))
        where == From(words, stop + 1)
    IN IF /\ At(words, 3) = "SET" /\ At(words, stop) \in {"WHERE", ""}
          /\ NextWordIn(where, 1, {"FROM", "OPTION"}) > Len(where)
          /\ parts # <<>> /\ \A k \in DOMAIN parts : SetsAColumn(parts[k])
       THEN Asks("update", ChangeAsked(words[2], parts, where)) ELSE Refuse
AskDelete(words) ==
    LET named == IF At(words, 2) = "FROM" THEN 3 ELSE 2
    IN IF At(words, named) \in TempTables /\ At(words, named + 1) \in {"", "WHERE"}
       THEN Asks("delete", ChangeAsked(words[named], <<>>, From(words, named + 2))) ELSE Refuse

(* _session_statement.                                                       *)
AskOfOwnTable(words) ==
    LET named == IF At(words, 2) = "INTO" THEN 3 ELSE 2
        close == CloseOf(words, named + 1)
        rest == IF At(words, named + 1) = "(" THEN close + 1 ELSE named + 1
    IN CASE words[1] = "CREATE" /\ At(words, 3) \in TempTables /\ At(words, 4) = "(" /\ Last(words) = ")" ->
              Says("create", <<words[3]>>)
         [] words[1] = "DROP" /\ At(words, 3) \in TempTables /\ Len(words) = 3 -> Says("drop", <<words[3]>>)
         [] words[1] = "INSERT" /\ At(words, named) \in TempTables -> AskRowsFor(From(words, rest))
         [] words[1] = "UPDATE" /\ At(words, 2) \in TempTables -> AskUpdate(Unended(words))
         [] words[1] = "DELETE" -> AskDelete(Unended(words))
         [] OTHER -> Refuse

(* _statement, for what is neither a compound statement nor several.         *)
AskStatement(words) ==
    CASE words[1] = "SELECT" /\ SelectAssignments(words).assigns # <<>> ->
           Asks("assign each row", AsARead(words))
      [] IsAssignment(Compound(words)) -> AskAssignment(Compound(words))
      [] words[1] \in {"BEGIN", "COMMIT"} -> Says("transaction", <<words[1]>>)
      [] words[1] \in {"CREATE", "DROP", "INSERT", "UPDATE", "DELETE"} -> AskOfOwnTable(words)
      [] words[1] = "EXEC" -> Says("call", <<At(words, 2)>>)
      [] \/ words[1] = "SELECT" /\ SelectAssignments(words).assigns = <<>>
         \/ words[1] = "WITH" -> Asks("read", words)
      [] OTHER -> Says("pass over", <<>>)
Guards(words) == words[1] \in {"IF", "WHILE"}
Ask(words) ==
    IF ~Guards(words) THEN AskStatement(words)
    ELSE IF StatementStart(words, 2) > Len(words) THEN Refuse
    ELSE AskCondition(SubSeq(words, 2, StatementStart(words, 2) - 1))
ReadNext(words) == ReadTo(Ask(words))

(* ---- what each was meant to be -------------------------------------------*)

OneItem(node, alias) == <<[Blank EXCEPT !.node = node, !.alias = alias]>>
Case(node) ==
    <<"case", <<<<node, <<"literal", Literals["1"]>>>>>>, <<"literal", Literals["0"]>>, <<>>>>
ChangeMeant(s, values) ==
    [Empty EXCEPT
       !.items = OneItem(IF s.where = <<>> THEN <<"literal", Literals["1"]>> ELSE Case(s.where), "")
                   \o [k \in DOMAIN values |-> OneItem(values[k], "")[1]],
       !.source = [Source EXCEPT !.table = <<s.table>>], !.subqueries = s.subqueries]
GivenMeant(s) == IF s.op = <<>> THEN s.node ELSE <<"arithmetic", s.op[1], <<"parameter", <<s.name>>>>, s.node>>
AssignMeant(node, subqueries) ==
    IF subqueries = <<>> THEN Task("assign", <<node>>)
    ELSE Task("assign from a read", <<[Empty EXCEPT !.items = OneItem(node, ""), !.subqueries = subqueries]>>)
Meant(s) ==
    CASE s.kind \in {"if", "while"} ->
           IF s.subqueries = <<>> THEN Task("weigh", <<s.condition>>)
           ELSE Task("ask", <<[Empty EXCEPT !.items = OneItem(Case(s.condition), "v"),
                                            !.subqueries = s.subqueries]>>)
      [] s.kind = "select" -> Task("read", <<s.query>>)
      [] s.kind = "assign" -> Task("assign each row", <<s.query>>)
      [] s.kind = "set" -> AssignMeant(GivenMeant(s), s.subqueries)
      [] s.kind = "declare" -> IF s.names[1].node = <<>> THEN Task("pass over", <<>>)
                               ELSE AssignMeant(s.names[1].node, s.names[1].subqueries)
      [] s.kind = "insert" -> IF s.query = <<>> THEN Task("insert rows", <<s.rows>>)
                              ELSE Task("insert what is read", s.query)
      [] s.kind = "update" -> Task("update", <<ChangeMeant(s, s.values)>>)
      [] s.kind = "delete" -> Task("delete", <<ChangeMeant(s, <<>>)>>)
      [] s.kind \in {"create", "drop"} -> Task(s.kind, <<s.table>>)
      [] s.kind = "call" -> Task("call", <<s.procedure>>)
      [] s.kind \in {"begin", "commit"} -> Task("transaction", <<IF s.kind = "begin" THEN "BEGIN" ELSE "COMMIT">>)
      [] OTHER -> Task("pass over", <<>>)

(* What the language settles before a batch runs: every statement in the     *)
(* order it is written, each knowing the variables declared by then.         *)
Atom(s, looping) == <<[is |-> s, looping |-> looping]>>
RECURSIVE Atoms(_, _)
AtomsOf(s, looping) ==
    CASE s.kind = "if" -> Atom(s, looping) \o Atoms(<<s.body>> \o s.otherwise, looping)
      [] s.kind = "while" -> Atom(s, looping) \o Atoms(<<s.body>>, TRUE)
      [] s.kind \in {"block", "bare"} -> Atoms(s.body, looping)
      [] s.kind = "try" -> Atoms(s.body \o s.caught, looping)
      [] OTHER -> Atom(s, looping)
Atoms(ones, looping) == FlattenSeq([k \in DOMAIN ones |-> AtomsOf(ones[k], looping)])

SpokenIn(s) ==
    CASE s.kind = "declare" ->
           FlattenSeq([k \in DOMAIN s.names |->
              IF s.names[k].node = <<>> THEN <<>> ELSE Written(s.names[k].node, s.names[k].subqueries).text])
      [] s.kind = "call" -> FlattenSeq([k \in DOMAIN s.values |-> Written(s.values[k], <<>>).text])
      [] s.kind \in {"if", "while"} -> Written(s.condition, s.subqueries).text
      [] OTHER -> WrittenStatement(s).text
Declared(s) == IF s.kind = "declare" THEN {s.names[k].name : k \in DOMAIN s.names} ELSE {}
Mixes(s) == IF s.kind = "assign" THEN Has(s.names, "") ELSE FALSE
BoundMeant(sofar, atom) ==
    IF ToSet(SpokenIn(atom.is)) \cap Variables \subseteq sofar.known
    THEN [known |-> sofar.known \cup Declared(atom.is),
          found |-> IF Mixes(atom.is) THEN Append(sofar.found, ASSIGNING_AND_READING) ELSE sofar.found]
    ELSE [sofar EXCEPT !.found = Append(@, UNDECLARED_VARIABLE)]
FirstOf(malformed, unbound, loose) ==
    IF malformed # <<>> THEN malformed ELSE IF unbound # <<>> THEN unbound ELSE loose
LooseMeant(atoms) ==
    LET loose == SelectSeq(atoms, LAMBDA atom : atom.is.kind \in {"BREAK", "CONTINUE"} /\ ~atom.looping)
    IN IF loose = <<>> THEN <<>>
       ELSE <<IF loose[1].is.kind = "BREAK" THEN BREAK_OUTSIDE_A_LOOP ELSE CONTINUE_OUTSIDE_A_LOOP>>
RefusalsMeant(ones) ==
    FirstOf(<<>>, FoldLeft(BoundMeant, [known |-> {}, found |-> <<>>], Atoms(ones, FALSE)).found,
            LooseMeant(Atoms(ones, FALSE)))

(* ---- the machine ---------------------------------------------------------*)

Texts(ones) == [k \in DOMAIN ones |-> [what |-> "text", words |-> ones[k]]]
Trees(ones) == [k \in DOMAIN ones |-> [what |-> "text", is |-> <<ones[k]>>]]
Mark(what, words) == <<[what |-> what, words |-> words]>>
MarkMeant(what, ones) == <<[what |-> what, is |-> ones]>>

Init ==
    /\ which \in DOMAIN Sendable
    /\ whole = WrittenBatch(Batch.ones, Batch.between)
    /\ cut \in 1..Len(whole.text)
    /\ stage = "sent"
    /\ said = <<>> /\ left = <<>> /\ task = <<>> /\ meant = <<>>

(* _whole_batch: malformed, then unbound, then loose_exits; a batch that     *)
(* none of them refuses runs, unless it holds nothing that has to be.        *)
RUNS ==
    {"SELECT", "WITH", "IF", "EXEC", "CREATE", "INSERT", "DROP", "BEGIN", "UPDATE", "DELETE",
     "COMMIT", "ROLLBACK", "DECLARE", "SET", "WHILE"}
Compiled(text) == FirstOf(Malformed(text), Unbound(text, {}), LooseExits(text))
MadeTwice(ones) ==
    \E i, j \in DOMAIN ones : /\ i < j /\ ones[i][1] = "CREATE" /\ ones[j][1] = "CREATE"
                              /\ At(ones[i], 3) = At(ones[j], 3)
Begun(refused, ones) ==
    /\ said' = refused
    /\ stage' = IF refused # <<>> \/ MadeTwice(ones) THEN "refused" ELSE "running"
    /\ IF refused = <<>> /\ cut = Len(whole.text) /\ \E k \in DOMAIN ones : ones[k][1] \in RUNS
       THEN left' = Texts(ones) /\ meant' = Trees(Batch.ones)
       ELSE left' = <<>> /\ meant' = <<>>
Compile ==
    /\ stage = "sent"
    /\ Begun(Compiled(Sent), Statements(Sent))
    /\ UNCHANGED <<which, whole, cut, task>>

Words == left[1].words
Tree == meant[1].is[1]
AtAText == stage = "running" /\ left # <<>> /\ left[1].what = "text"
Go(texts, trees) ==
    /\ left' = texts /\ meant' = trees /\ task' = <<>>
    /\ UNCHANGED <<which, whole, cut, stage, said>>
Now(texts, trees) == Go(texts \o Tail(left), trees \o Tail(meant))

(* _block: the statements of a block, or the one statement a branch is.      *)
Block(words) ==
    IF words[1] = "BEGIN" /\ ~BeginsATransaction(words, 1) /\ Last(words) = "END"
    THEN Statements(SubSeq(words, 2, Len(words) - 1)) ELSE <<words>>
BlockMeant(s) == IF s.kind \in {"block", "bare"} THEN s.body ELSE <<s>>
Opens == BeginsATry(Words, 1) \/ Block(Words) # <<Words>>

(* A statement that is one, and a guard's condition, are read first.         *)
IsOne ==
    /\ ~Guards(Words) /\ Words[1] \notin {"BREAK", "CONTINUE"} /\ ~Opens
    /\ Words[1] = "DECLARE" => Len(TopLevel(Words, 2, {}).parts) = 1
ReadOne ==
    /\ AtAText /\ task = <<>>
    /\ Guards(Words) \/ IsOne
    /\ task' = <<ReadNext(Words)>>
    /\ UNCHANGED <<which, whole, cut, stage, said, left, meant>>
WasRead == task # <<>> /\ task[1].does # "refuse"

(* A DECLARE of several variables is each of them in turn.                   *)
DeclareEach ==
    /\ AtAText /\ Words[1] = "DECLARE"
    /\ LET parts == TopLevel(Words, 2, {}).parts
       IN /\ Len(parts) > 1
          /\ Now(Texts([k \in DOMAIN parts |-> <<"DECLARE">> \o parts[k]]),
                 Trees([k \in DOMAIN Tree.names |-> [kind |-> "declare", names |-> <<Tree.names[k]>>]]))

(* _branch_taken, and the branch run as a block.                             *)
TakeBranch(holds) ==
    /\ WasRead /\ Words[1] = "IF"
    /\ LET rest == From(Words, StatementStart(Words, 2))
           finish == EndOfBranch(rest, 1)
           chooses == At(rest, finish) = "ELSE"
           taken == IF chooses THEN SubSeq(rest, 1, finish - 1) ELSE rest
       IN Now(IF holds THEN Texts(Block(taken))
              ELSE IF chooses THEN Texts(Block(From(rest, finish + 1))) ELSE <<>>,
              IF holds THEN Trees(BlockMeant(Tree.body))
              ELSE IF Tree.otherwise # <<>> THEN Trees(BlockMeant(Tree.otherwise[1])) ELSE <<>>)

(* _looped: the body, and then the condition again.                          *)
AtATurn == stage = "running" /\ left # <<>> /\ left[1].what = "turn"
Loop ==
    /\ WasRead /\ Words[1] = "WHILE"
    /\ Now(Texts(Block(From(Words, StatementStart(Words, 2)))) \o Mark("turn", Words),
           Trees(BlockMeant(Tree.body)) \o MarkMeant("turn", <<Tree>>))
LoopNever ==
    /\ WasRead /\ Words[1] = "WHILE"
    /\ Now(<<>>, <<>>)
TurnEnds ==
    /\ AtATurn
    /\ \/ Now(<<>>, <<>>)
       \/ Now(Texts(<<Words>>), Trees(<<Tree>>))

(* _tried and _up_to.                                                        *)
RECURSIVE UpToEnd(_, _, _, _, _)
UpToTheFirstEnd(words, start, at, what, depth) ==
    LET closes == {i \in at..Len(words) : words[i] = "END" /\ At(words, i + 1) = what}
    IN IF closes = {} THEN [body |-> From(words, start), at |-> Len(words) + 1]
       ELSE [body |-> SubSeq(words, start, Least(closes) - 1), at |-> Least(closes) + 2]
UpToEnd(words, start, at, what, depth) ==
    LET here(first) == {i \in at..Len(words) : /\ words[i] = first /\ At(words, i + 1) = what
                                               /\ Depth(words, at, i) = 0}
        closes == IF here("END") = {} THEN 0 ELSE Least(here("END"))
        opens == IF here("BEGIN") = {} THEN 0 ELSE Least(here("BEGIN"))
    IN CASE closes = 0 -> [body |-> From(words, start), at |-> Len(words) + 1]
         [] closes > 0 /\ opens > 0 /\ opens < closes -> UpToEnd(words, start, opens + 2, what, depth + 1)
         [] OTHER -> IF depth = 0 THEN [body |-> SubSeq(words, start, closes - 1), at |-> closes + 2]
                     ELSE UpToEnd(words, start, closes + 2, what, depth - 1)
Try ==
    /\ AtAText /\ BeginsATry(Words, 1)
    /\ LET tried == UpToEnd(Words, 3, 3, "TRY", 0)
           caught == IF BeginsACatch(Words, tried.at)
                     THEN UpToEnd(Words, tried.at + 2, tried.at + 2, "CATCH", 0).body ELSE <<>>
       IN Now(Texts(Statements(tried.body)) \o Mark("caught", caught),
              Trees(Tree.body) \o MarkMeant("caught", Tree.caught))
TryEnds ==
    /\ stage = "running" /\ left # <<>> /\ left[1].what = "caught"
    /\ Now(<<>>, <<>>)

OpenBlock ==
    /\ AtAText /\ Opens /\ ~BeginsATry(Words, 1)
    /\ Now(Texts(Block(Words)), Trees(BlockMeant(Tree)))

(* BREAK and CONTINUE leave everything up to the loop around them.           *)
ToLoop == Least({k \in DOMAIN left : left[k].what = "turn"})
LeaveTheTurn ==
    /\ AtAText /\ Words[1] \in {"BREAK", "CONTINUE"}
    /\ LET at == IF Words[1] = "BREAK" THEN ToLoop + 1 ELSE ToLoop
           atMeant == IF Tree.kind = "BREAK" THEN ToLoop + 1 ELSE ToLoop
       IN Go(From(left, at), From(meant, atMeant))

(* What was read runs, or it fails, as what cannot be read does.  A failure  *)
(* in a TRY goes to its CATCH; another ends the batch or does not.           *)
RunOne == WasRead /\ ~Guards(Words) /\ Now(<<>>, <<>>)
Catching == {k \in DOMAIN left : left[k].what = "caught"}
RunFails ==
    /\ task # <<>>
    /\ IF Catching = {} THEN Now(<<>>, <<>>) \/ Go(<<>>, <<>>)
       ELSE LET at == Least(Catching)
            IN Go(Texts(Statements(left[at].words)) \o From(left, at + 1),
                  Trees(meant[at].is) \o From(meant, at + 1))

Done ==
    /\ stage = "refused" \/ (stage = "running" /\ left = <<>>)
    /\ UNCHANGED vars

Next ==
    \/ Compile
    \/ ReadOne
    \/ DeclareEach
    \/ \E holds \in BOOLEAN : TakeBranch(holds)
    \/ Loop \/ LoopNever \/ TurnEnds
    \/ Try \/ TryEnds
    \/ OpenBlock
    \/ LeaveTheTurn
    \/ RunOne \/ RunFails
    \/ Done

Spec == Init /\ [][Next]_vars

(* ---- properties ----------------------------------------------------------*)

TextOf(entry) ==
    IF entry.what = "caught" THEN WrittenBatch(entry.is, <<";">>).text
    ELSE WrittenStatement(entry.is[1]).text

(* What is still to run is, text for text, what the batch still means.       *)
RunsAsWritten ==
    /\ Len(left) = Len(meant)
    /\ \A k \in DOMAIN left : /\ left[k].what = meant[k].what
                           /\ WithoutLastSemicolons(left[k].words) = TextOf(meant[k])

(* What a text that stops here has opened and not closed, by counting.       *)
Times(words, Is(_)) == Cardinality({i \in DOMAIN words : Is(i)})
LeavesOpen(words) ==
    LET times(those) == Times(words, LAMBDA i : words[i] \in those)
    IN \/ times({"("}) > times({")"})
       \/ times({"BEGIN", "CASE"}) > times({"END"}) + Times(words, LAMBDA i : BeginsATransaction(words, i))
LacksACatch(words) ==
    Times(words, LAMBDA i : words[i] = "BEGIN" /\ At(words, i + 1) = "TRY")
      > Times(words, LAMBDA i : words[i] = "END" /\ At(words, i + 1) = "CATCH")

(* What compiling complains of in a text that has an end: its variables and  *)
(* its exits from loops.                                                     *)
SettledByTheWhole ==
    {UNDECLARED_VARIABLE, UNDECLARED_TABLE_VARIABLE, ASSIGNING_AND_READING,
     BREAK_OUTSIDE_A_LOOP, CONTINUE_OUTSIDE_A_LOOP}

(* A batch that was sent whole is refused before it runs for what the        *)
(* language refuses in it, in the order it is written, and for nothing else. *)
CompilesWhatIsMeant ==
    (stage # "sent" /\ cut = Len(whole.text)) => said = RefusalsMeant(Batch.ones)

(* A batch cut off within a block, a bracket or a CASE, or in the condition  *)
(* of an IF or a loop that reads no table, is refused before any of it runs. *)
(* One cut off elsewhere is refused so too or, where malformed leaves the    *)
(* question open, by reading the statement it was cut off in; and where it   *)
(* could have ended it is not taken for one cut off.  A TRY that was ended   *)
(* and has no CATCH is left out: the code takes it (malformed,               *)
(* _whole_batch, _branch_taken).                                             *)
CutShortIsRefused ==
    stage # "sent" =>
        /\ LeavesOpen(Sent) => said # <<>>
        /\ (cut \notin whole.stops /\ said = <<>> /\ ~LacksACatch(Sent)) =>
              LET last == Last(Leaves(Sent, FALSE)).words
              IN (Guards(last) => Has(last, "SELECT")) /\ ReadNext(last).does = "refuse"
        /\ cut \in whole.stops => ToSet(said) \subseteq SettledByTheWhole

(* Each statement, when its turn comes, is read as the tree it was written   *)
(* from: no clause lost, no operand bound elsewhere, and never refused.      *)
ReadsWhatIsWritten ==
    (task # <<>> /\ meant # <<>>) =>
        task[1].does = Meant(Tree).does /\ task[1].says = Meant(Tree).says
=============================================================================
