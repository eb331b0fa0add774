----------------------------- MODULE Statements -----------------------------
(***************************************************************************)
(* A batch taken apart before any of it runs: sql.py's statements, _leaves, *)
(* loose_exits and unbound.  A text is a sequence of tokens: words that the *)
(* language keeps in capitals, names in small letters, variables, marks.    *)
(* Comments are gone by then.                                               *)
(***************************************************************************)
EXTENDS Words

STATEMENT_STARTS ==
    {"SELECT", "EXEC", "SET", "DECLARE", "PRINT", "RETURN", "BEGIN", "WITH", "INSERT",
     "UPDATE", "DELETE", "CREATE", "DROP", "IF", "COMMIT", "ROLLBACK", "WHILE", "BREAK", "CONTINUE"}
StartsAStatement ==
    STATEMENT_STARTS \ {"WITH"}
HoldsNoSelect == {"DECLARE", "SET", "EXEC", "DROP", "CREATE", "COMMIT", "ROLLBACK"}
SetOperators == {"UNION", "EXCEPT", "INTERSECT"}
UNDECLARED_VARIABLE == 137
UNDECLARED_TABLE_VARIABLE == 1087
ASSIGNING_AND_READING == 141
BREAK_OUTSIDE_A_LOOP == 135
CONTINUE_OUTSIDE_A_LOOP == 136

Joined(seqs) == FoldLeft(LAMBDA a, b : a \o b, <<>>, seqs)

(* _next_word_in: where the next of these words stands outside brackets,    *)
(* or past the end.                                                         *)
NextWordIn(s, from, wanted) ==
    LET found == {i \in from..Len(s) : s[i] \in wanted /\ Depth(s, from, i) = 0}
    IN IF found = {} THEN Len(s) + 1 ELSE Least(found)

BeginsATransaction(s, i) == At(s, i) = "BEGIN" /\ At(s, i + 1) = "TRAN"

RECURSIVE EndOfBlock(_, _, _, _), EndOfBranch(_, _)

(* end_of_branch over a block: every BEGIN in it is counted, and every CASE. *)
EndOfBlock(s, i, depth, cases) ==
    CASE i > Len(s) -> Len(s) + 1
      [] At(s, i) = "BEGIN" -> EndOfBlock(s, i + 1, depth + 1, cases)
      [] At(s, i) = "CASE" -> EndOfBlock(s, i + 1, depth, cases + 1)
      [] At(s, i) = "END" /\ cases > 0 -> EndOfBlock(s, i + 1, depth, cases - 1)
      [] At(s, i) = "END" /\ cases = 0 ->
           IF depth = 1 THEN i + 1 ELSE EndOfBlock(s, i + 1, depth - 1, cases)
      [] OTHER -> EndOfBlock(s, i + 1, depth, cases)

(* end_of_if, from the IF or the WHILE. *)
EndOfIf(s, i) ==
    LET guarded == EndOfBranch(s, NextWordIn(s, i + 1, STATEMENT_STARTS))
    IN IF At(s, guarded) = "ELSE" THEN EndOfBranch(s, guarded + 1) ELSE guarded

EndOfBranch(s, i) ==
    CASE At(s, i) = "BEGIN" /\ ~BeginsATransaction(s, i) -> EndOfBlock(s, i, 0, 0)
      [] At(s, i) \in {"IF", "WHILE"} -> EndOfIf(s, i)
      [] OTHER -> NextWordIn(s, i + 1, STATEMENT_STARTS \cup {"ELSE"})

(* end_of_try: past END TRY, and past the CATCH that follows it. *)
BeginsATry(s, i) == At(s, i) = "BEGIN" /\ At(s, i + 1) = "TRY"
BeginsACatch(s, i) == At(s, i) = "BEGIN" /\ At(s, i + 1) = "CATCH"
PastWord(s, i, wanted) == IF At(s, i) = wanted THEN i + 1 ELSE i
EndOfTry(s, i) ==
    LET tried == PastWord(s, EndOfBranch(s, i), "TRY")
    IN IF BeginsACatch(s, tried) THEN PastWord(s, EndOfBranch(s, tried), "CATCH") ELSE tried

(* _belongs_to_it: whether a word goes on with the statement so far.        *)
BelongsToIt(soFar, word) ==
    CASE word = "SELECT" ->
           \/ Last(soFar) \in SetOperators
           \/ At(soFar, Len(soFar) - 1) \in SetOperators /\ Last(soFar) = "ALL"
           \/ /\ ~(At(soFar, 1) \in HoldsNoSelect \/ BeginsATransaction(soFar, 1))
              /\ NextWordIn(soFar, 1, {"SELECT"}) > Len(soFar)
      [] word = "SET" -> soFar[1] = "UPDATE"
      [] word = "EXEC" -> soFar[1] = "INSERT"
      [] OTHER -> FALSE

(* statements: where a batch divides.  The places are those statements      *)
(* begin at; a semicolon is dropped.                                        *)
RECURSIVE Divided(_, _, _, _)
Divided(s, start, i, depth) ==
    LET soFar == SubSeq(s, start, i - 1)
        whole(end) == <<soFar, SubSeq(s, i, end - 1)>> \o Divided(s, end, end, 0)
    IN CASE i > Len(s) -> <<soFar>>
         [] At(s, i) = ";" -> <<soFar>> \o Divided(s, i + 1, i + 1, depth)
         [] depth = 0 /\ BeginsATry(s, i) -> whole(EndOfTry(s, i))
         [] depth = 0 /\ At(s, i) \in {"IF", "WHILE"} -> whole(EndOfIf(s, i))
         [] /\ depth = 0 /\ ~BeginsATry(s, i) /\ i > start
            /\ At(s, i) \in StartsAStatement \ {"IF", "WHILE"}
            /\ ~BelongsToIt(soFar, s[i]) -> <<soFar>> \o Divided(s, i, i + 1, 0)
         [] OTHER -> Divided(s, start, i + 1, Deepened(depth, s[i]))
Statements(s) == SelectSeq(Divided(s, 1, 1, 0), LAMBDA one : one # <<>>)

(* _inside: what a block holds, without the END that closes it. *)
Inside(one, start, end) ==
    LET held == SubSeq(one, start, end - 1)
    IN IF held # <<>> /\ Last(held) = "END" THEN Front(held) ELSE held

(* _leaves and _opened_up: every statement a text holds, in the order they  *)
(* are written, and whether a WHILE is around it.                           *)
Leaf(words, looping) == <<[words |-> words, looping |-> looping]>>
RECURSIVE Leaves(_, _)
OpenedUp(one, looping) ==
    LET guarded == NextWordIn(one, 2, STATEMENT_STARTS)
        end == EndOfBranch(one, IF one[1] \in {"IF", "WHILE"} THEN guarded ELSE 1)
        inside == looping \/ one[1] = "WHILE"
        tried == PastWord(one, end, "TRY")
        caught == EndOfBranch(one, tried)
    IN CASE one[1] \in {"IF", "WHILE"} /\ guarded > Len(one) -> Leaf(one, looping)
         [] one[1] \in {"IF", "WHILE"} /\ guarded <= Len(one) ->
              Leaf(SubSeq(one, 1, guarded - 1), looping)
                \o Leaves(SubSeq(one, guarded, end - 1), inside)
                \o IF At(one, end) = "ELSE" THEN Leaves(From(one, end + 1), inside) ELSE <<>>
         [] BeginsATry(one, 1) ->
              Leaves(Inside(one, 3, end), looping)
                \o IF BeginsACatch(one, tried)
                   THEN Leaves(Inside(one, tried + 2, caught), looping) ELSE <<>>
         [] one[1] = "BEGIN" /\ At(one, 2) \notin {"TRY", "TRAN"} ->
              Leaves(Inside(one, 2, end), looping) \o Leaves(From(one, end), looping)
         [] OTHER -> Leaf(one, looping)
Leaves(s, looping) ==
    LET ones == Statements(s) IN Joined([i \in DOMAIN ones |-> OpenedUp(ones[i], looping)])

(* loose_exits: the first of them, or none. *)
LooseExits(s) ==
    LET loose == SelectSeq(Leaves(s, FALSE), LAMBDA leaf :
                   leaf.words \in {<<"BREAK">>, <<"CONTINUE">>} /\ ~leaf.looping)
    IN IF loose = <<>> THEN <<>>
       ELSE <<IF loose[1].words = <<"BREAK">> THEN BREAK_OUTSIDE_A_LOOP ELSE CONTINUE_OUTSIDE_A_LOOP>>

(* ---- variables ----------------------------------------------------------*)

(* _top_level: where a text divides at its commas, as the places each part  *)
(* begins and the place after the last.  CASE and END are brackets too.     *)
Among(s, from, at, words) == Cardinality({i \in from..(at - 1) : s[i] \in words})
Nesting(s, from, at) == Among(s, from, at, {"(", "CASE"}) - Among(s, from, at, {")", "END"})
TopLevel(s, start, stop) ==
    LET stops == {i \in start..Len(s) : s[i] \in stop /\ Nesting(s, start, i) = 0}
        end == IF stops = {} THEN Len(s) + 1 ELSE Least(stops)
        commas == SelectSeq([i \in 1..(end - 1) |-> i],
                            LAMBDA i : i >= start /\ s[i] = "," /\ Nesting(s, start, i) = 0)
        edges == <<start - 1>> \o commas \o <<end>>
    IN [parts |-> [k \in 1..(Len(edges) - 1) |-> SubSeq(s, edges[k] + 1, edges[k + 1] - 1)],
        end |-> end]

(* _declarators and _named_arguments: the places of names that are not read. *)
Declarators(words) ==
    IF At(words, 1) # "DECLARE" \/ At(words, 2) \notin Variables THEN {}
    ELSE {2} \cup {i \in 3..Len(words) :
                     /\ words[i] \in Variables /\ words[i - 1] = ","
                     /\ Nesting(words, 3, i - 1) = 0}
NamedArguments(words) ==
    {i \in DOMAIN words :
       /\ words[i] \in Variables /\ At(words, i + 1) = "="
       /\ \E call \in 1..(i - 2) : words[call] = "EXEC" /\ \A j \in (call + 1)..i : words[j] # "EXEC"}

(* _first_unknown: the number it is refused with, or none.                  *)
FirstUnknown(words, known) ==
    LET unknown == {i \in DOMAIN words \ (Declarators(words) \cup NamedArguments(words)) :
                      words[i] \in Variables \ known}
    IN IF unknown = {} THEN <<>>
       ELSE <<IF At(words, Least(unknown) - 1) \in {"FROM", "JOIN", "UPDATE", "INTO"}
              THEN UNDECLARED_TABLE_VARIABLE ELSE UNDECLARED_VARIABLE>>

(* select_assignments: what each item gives a value to, and whether the     *)
(* list reads as well.                                                      *)
AfterASelectList ==
    {"FROM", "WHERE", "GROUP", "HAVING", "ORDER", "UNION", "EXCEPT", "INTERSECT", "OPTION", "INTO"}
HeadOfSelect(s) ==
    LET listed == IF At(s, 2) \in {"ALL", "DISTINCT"} THEN 3 ELSE 2
        counted == CASE At(s, listed) # "TOP" -> listed
                     [] At(s, listed + 1) = "(" -> listed + 4
                     [] OTHER -> listed + 2
        shared == PastWord(s, counted, "PERCENT")
    IN IF At(s, shared) = "WITH" THEN shared + 2 ELSE shared
Assigns(part) ==
    /\ At(part, 1) \in Variables
    /\ \/ At(part, 2) = "="
       \/ At(part, 2) \in {"+", "-", "*", "/", "%"} /\ At(part, 3) = "="
SelectAssignments(s) ==
    LET listed == TopLevel(s, HeadOfSelect(s), AfterASelectList).parts
        assigning == SelectSeq(listed, Assigns)
    IN [assigns |-> assigning, mixed |-> assigning # <<>> /\ Len(assigning) < Len(listed)]

(* unbound: statement by statement, each variable known from the end of the *)
(* DECLARE that names it, whether or not that runs.                         *)
DefinesAModule(words) == At(words, 1) \in {"CREATE", "ALTER"} /\ At(words, 2) = "PROC"
BoundFromItsNames(sofar, leaf) ==
    LET declared == {leaf.words[i] : i \in Declarators(leaf.words)}
        unknown == FirstUnknown(leaf.words, sofar.known \cup declared)
    IN IF unknown # <<>> THEN [sofar EXCEPT !.found = @ \o unknown]
       ELSE [sofar EXCEPT !.known = @ \cup declared]
BoundAfter(sofar, leaf) ==
    LET words == leaf.words
        unknown == FirstUnknown(words, sofar.known)
        declared == {words[i] : i \in Declarators(words)}
        mixed == words[1] = "SELECT" /\ SelectAssignments(words).mixed
    IN IF unknown # <<>> THEN [sofar EXCEPT !.found = @ \o unknown]
       ELSE [known |-> sofar.known \cup declared,
             found |-> sofar.found \o IF mixed THEN <<ASSIGNING_AND_READING>> ELSE <<>>]
Unbound(s, known) ==
    LET leaves == Leaves(s, FALSE)
    IN IF leaves # <<>> /\ DefinesAModule(leaves[1].words) THEN <<>>
       ELSE FoldLeft(BoundAfter, [known |-> known, found |-> <<>>], leaves).found
=============================================================================
