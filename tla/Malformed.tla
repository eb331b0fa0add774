------------------------------ MODULE Malformed ------------------------------
(***************************************************************************)
(* What the text of a batch alone settles before any of it runs: sql.py's   *)
(* malformed.  A text that stops short, or has a word where nothing can     *)
(* take it, is refused; everything else is left to the readers.  A quote or *)
(* a comment left open is a token of its own, and ends what is read.        *)
(***************************************************************************)
EXTENDS Statements, Parser

UNCLOSED_QUOTATION == 105
MISSING_END_COMMENT == 113
NEAR_A_KEYWORD == 156
COLUMN_NEEDS_A_TYPE == 173

WANTS_MORE ==
    {"SELECT", "FROM", "WHERE", "AND", "OR", "NOT", "BY", "JOIN", "IN", "BETWEEN", "LIKE",
     "IS", "UNION", "EXCEPT", "INTERSECT", "HAVING", "GROUP", "ORDER", "AS", "TOP", "DISTINCT",
     "CASE", "WHEN", "THEN", "ELSE", "INTO", "SET", "DECLARE", "EXEC", "PRINT", "IF", "WHILE",
     "INSERT", "UPDATE", "DELETE", "CREATE", "DROP", "WITH", "OVER", "CROSS", "LEFT", "RIGHT",
     "INNER", "OUTER", "ANY", "SOME", "EXISTS", "FETCH", "TABLE", "BEGIN", "VALUES", "ALL",
     "APPLY", "OPTION", "NEXT", "OFFSET", "FULL"}
WantsMoreMarks == {"=", "<", "<>", ">", "+", "-", "/", "%", ",", "(", "."}
OnlyBeginsAClause == {"FROM", "WHERE", "GROUP", "HAVING", "UNION", "EXCEPT", "INTERSECT"}
WaitsForAnOperand ==
    WantsMoreMarks \cup
    {"SELECT", "FROM", "WHERE", "AND", "OR", "NOT", "ON", "BY", "IN", "BETWEEN", "LIKE", "IS",
     "JOIN", "CASE", "WHEN", "THEN", "ELSE", "UNION", "EXCEPT", "INTERSECT", "EXISTS", "HAVING",
     "GROUP", "TOP", "AS", "INTO", "OVER", "CROSS", "LEFT", "RIGHT", "FULL", "INNER", "OUTER",
     "ANY", "SOME", "PRINT", "IF", "EXEC", "INSERT", "WITH", "DECLARE", "WHILE", "VALUES", "SET"}
BeginsAStatement ==
    {"SELECT", "INSERT", "DELETE", "DECLARE", "SET", "EXEC", "PRINT", "IF", "WHILE", "BEGIN", "END",
     "ELSE", "RETURN", "COMMIT", "ROLLBACK", "FETCH", "DROP", "CREATE", "BREAK", "CONTINUE"}
SetIsItsOwn == {"UPDATE", "ALTER"}
NotAfterASet == BeginsAStatement \cup SetIsItsOwn \cup {"WITH"}

(* _lexed: the tokens before a quote or a comment that is left open.        *)
OpenMarks == {"'", "/*"}
Lexed(text) ==
    LET open == SelectInSeq(text, LAMBDA token : token \in OpenMarks)
    IN IF open = 0 THEN [words |-> text, leftOpen |-> ""]
       ELSE [words |-> SubSeq(text, 1, open - 1), leftOpen |-> text[open]]

(* _wants_more: whether the token at this place asks for something more.    *)
WantsMore(words, i, beforeASemicolon) ==
    LET before == At(words, i - 1)
    IN \/ words[i] \in WantsMoreMarks
       \/ /\ words[i] \in WANTS_MORE
          /\ ~(beforeASemicolon /\ words[i] = "BEGIN")
          /\ ~(words[i] \in {"INSERT", "UPDATE", "DELETE"} /\ before = "THEN")
          /\ words[i] = "ALL" => before \in {"UNION", "SELECT"} \cup WantsMoreMarks
          /\ words[i] = "FULL" => \E j \in 1..(i - 1) : words[j] = "FROM"
          /\ ~(words[i] = "VALUES" /\ before = "DEFAULT")

(* _begins_its_statement: whether the word at this place, a SET above all,  *)
(* begins a statement rather than belonging to an UPDATE.                   *)
BeginsItsStatement(words, i) ==
    \A back \in 1..(i - 1) :
        words[back] \in SetIsItsOwn =>
            \E j \in (back + 1)..(i - 1) : words[j] = ";" \/ words[j] \in BeginsAStatement

(* Brackets counted back from the end of the text; one that nothing closed  *)
(* is stepped over.                                                         *)
Undone(token, depth) ==
    CASE token = ")" -> depth + 1
      [] token = "(" -> IF depth = 0 THEN 0 ELSE depth - 1
      [] OTHER -> depth
Within(words, i) ==
    LET back[j \in i..Len(words)] == IF j = Len(words) THEN 0 ELSE Undone(words[j + 1], back[j + 1])
    IN back[i] > 0

(* _where_the_statement_begins: what the last statement says.               *)
Said(words) ==
    LET begins == {i \in DOMAIN words :
          /\ words[i] = ";" \/ words[i] \in BeginsAStatement
          /\ ~Within(words, i)
          /\ ~(words[i] = "FETCH" /\ \E j \in 1..(i - 1) : words[j] = "OFFSET")
          /\ words[i] = ";" \/ BeginsItsStatement(words, i)}
    IN IF begins = {} THEN words
       ELSE From(words, Greatest(begins) + IF words[Greatest(begins)] = ";" THEN 1 ELSE 0)

(* _in_a_declare_list: whether the last word is one a DECLARE's list names. *)
InADeclareList(words) ==
    LET opens(i) == words[i] = "(" /\ ~Within(words, i)
        stops == {i \in 1..(Len(words) - 1) :
                    ~Within(words, i) /\ (opens(i) \/ words[i] = ";" \/ words[i] \in BeginsAStatement)}
    IN stops # {} /\ words[Greatest(stops)] = "DECLARE"

(* _closes_a_bracketed_table: the bracket that the last token closes.       *)
ClosesABracketedTable(words) ==
    LET opens == Greatest({i \in DOMAIN words : words[i] = "(" /\ Depth(words, i, Len(words)) = 1})
    IN Last(words) = ")" /\ At(words, opens - 1) \in {"FROM", "JOIN", "APPLY"}

(* _left_unfinished: the other endings that are unfinished.                 *)
BeforeTheList == {"TOP", "PERCENT", "WITH", "TIES", "DISTINCT", "ALL", "(", ")"} 
LeftUnfinishedInOneStatement(words) ==
    LET n == Len(words)
        before == At(words, n - 1)
    IN \/ Last(words) \in Variables /\ before \in {"DECLARE", "SET"}
       \/ Last(words) = "*" /\ n > 1 /\ ~WantsMore(words, n - 1, FALSE)
       \/ ClosesABracketedTable(words)
LeftUnfinished(words) ==
    LET n == Len(words)
        before == At(words, n - 1)
        said == Said(words)
    IN \/ Last(words) \in Variables /\ before \in {"DECLARE", "SET"}
       \/ Last(words) \in Variables /\ before = "," /\ InADeclareList(words)
       \/ At(words, n - 2) = "CREATE" /\ before = "TABLE" /\ IsName(Last(words))
       \/ Last(words) = "ON" /\ Has(said, "JOIN")
       \/ /\ At(said, 1) = "SELECT" /\ Has(said, "TOP")
          /\ \A token \in ToSet(Tail(said)) : token \in BeforeTheList \/ IsNumber(token)
       \/ /\ At(said, 1) = "INSERT" /\ Len(said) > 1
          /\ ToSet(said) \cap {"VALUES", "SELECT", "EXEC", "DEFAULT"} = {}
       \/ At(said, 1) = "WITH" /\ Len(said) > 1 /\ Last(words) # "("
       \/ Last(words) = "*" /\ n > 1 /\ ~WantsMore(words, n - 1, FALSE)
       \/ /\ Has(said, "OFFSET") /\ Has(said, "FETCH")
          /\ LET fetch == SelectInSeq(said, LAMBDA word : word = "FETCH")
             IN ~Has(From(said, fetch), "ONLY")
       \/ /\ At(said, 1) \in {"IF", "WHILE"}
          /\ ToSet(Tail(said)) \cap BeginsAStatement = {}
       \/ ClosesABracketedTable(words)

(* _opening: what is still open after a number of tokens, or that the text  *)
(* does not close what it opened in order.                                  *)
Unbalanced == <<"unbalanced">>

(* The slip of leaving a BEGIN of two words to its readers.                 *)
OpeningOneWord(words, i, opened) ==
    LET word == words[i] top == IF opened = <<>> THEN "" ELSE Last(opened)
    IN CASE opened = Unbalanced -> opened
         [] word \in {"(", "CASE"} -> Append(opened, word)
         [] word = ")" -> IF top = "(" THEN Front(opened) ELSE Unbalanced
         [] word = "BEGIN" /\ At(words, i + 1) \notin {"TRAN", "TRY", "CATCH"} -> Append(opened, word)
         [] word = "END" /\ At(words, i + 1) \notin {"TRY", "CATCH"} ->
              IF top \in {"CASE", "BEGIN"} THEN Front(opened) ELSE Unbalanced
         [] OTHER -> opened
Opening(words, i, opened) ==
    LET word == words[i] top == IF opened = <<>> THEN "" ELSE Last(opened)
    IN CASE opened = Unbalanced -> opened
         [] word \in {"(", "CASE"} -> Append(opened, word)
         [] word = ")" -> IF top = "(" THEN Front(opened) ELSE Unbalanced
         [] word = "BEGIN" /\ At(words, i + 1) # "TRAN" -> Append(opened, word)
         [] word = "END" -> IF top \in {"CASE", "BEGIN"} THEN Front(opened) ELSE Unbalanced
         [] OTHER -> opened
OpenAfter(words, n) ==
    LET opened[i \in 0..n] == IF i = 0 THEN <<>> ELSE Opening(words, i, opened[i - 1]) IN opened[n]

(* _first_misplaced: what is wrong with the token at this place, or 0.      *)
Misplaced(words, i) ==
    LET before == At(words, i - 1)
        opened == OpenAfter(words, i - 1)
    IN CASE /\ before = "SET" /\ words[i] \in NotAfterASet \cup {";"}
            /\ BeginsItsStatement(words, i - 1) -> NEAR_A_KEYWORD
         [] /\ words[i] = ";" /\ i > 1
            /\ \/ opened # <<>> /\ Last(opened) \in {"(", "CASE"}
               \/ WantsMore(words, i - 1, TRUE) -> SYNTAX_ERROR
         [] words[i] \in OnlyBeginsAClause /\ before \in WaitsForAnOperand -> NEAR_A_KEYWORD
         [] OTHER -> 0
FirstMisplaced(words) ==
    LET wrong == {i \in DOMAIN words : OpenAfter(words, i - 1) # Unbalanced /\ Misplaced(words, i) > 0}
    IN IF wrong = {} THEN 0 ELSE Misplaced(words, Least(wrong))

(* _join_without_an_on: the ONs run out before the tables do.               *)
EndsTheTables == {"WHERE", "GROUP", "ORDER", "HAVING", "UNION", "EXCEPT", "INTERSECT", "OPTION", "OFFSET"}
Counted(words, i, count) ==
    LET word == words[i]
        short == count.joins > count.ons
        next == [count EXCEPT !.depth = Deepened(@, word)]
    IN CASE count.said # 0 -> count
         [] word \in {"(", ")"} \/ count.depth > 0 -> next
         [] word = "JOIN" -> IF At(words, i - 1) = "CROSS" THEN next ELSE [next EXCEPT !.joins = @ + 1]
         [] word = "ON" -> [next EXCEPT !.ons = @ + 1]
         [] short /\ word \in EndsTheTables -> [next EXCEPT !.said = NEAR_A_KEYWORD]
         [] word = ";" \/ (word \in BeginsAStatement /\ BeginsItsStatement(words, i)) ->
              [next EXCEPT !.said = IF short THEN SYNTAX_ERROR ELSE 0, !.joins = 0, !.ons = 0]
         [] OTHER -> next
JoinWithoutAnOn(words) ==
    LET after[i \in 0..Len(words)] ==
          IF i = 0 THEN [depth |-> 0, joins |-> 0, ons |-> 0, said |-> 0]
          ELSE Counted(words, i, after[i - 1])
        counted == after[Len(words)]
    IN IF counted.said = 0 /\ counted.joins > counted.ons THEN SYNTAX_ERROR ELSE counted.said

(* _unfinished: what is said of a text that runs out where it cannot.       *)
Unfinished(words) ==
    LET n == Len(words) said == Said(words)
    IN CASE OpenAfter(words, n) = Unbalanced -> 0
         [] words[n] = "SET" /\ BeginsItsStatement(words, n) -> NEAR_A_KEYWORD
         [] \/ OpenAfter(words, n) # <<>>
            \/ WantsMore(words, n, FALSE)
            \/ LeftUnfinished(words) ->
              IF /\ At(said, 1) = "CREATE" /\ At(said, 2) = "TABLE"
                 /\ At(words, n - 1) \in {"(", ","} /\ IsName(words[n])
              THEN COLUMN_NEEDS_A_TYPE ELSE SYNTAX_ERROR
         [] OTHER -> 0

(* _the_open_condition: the condition the text ran out in, if it did.       *)
OpensACondition == {"WHERE", "ON", "HAVING", "IF", "WHEN"}
CaseBefore(words, i) ==
    LET open(j) == Cardinality({k \in (j + 1)..(i - 1) : words[k] = "END"})
                     <= Cardinality({k \in (j + 1)..(i - 1) : words[k] = "CASE"})
        cases == {j \in 1..(i - 1) : words[j] = "CASE" /\ open(j)}
    IN IF cases = {} THEN 0 ELSE Greatest(cases)
OpenCondition(words) ==
    LET places == {i \in DOMAIN words : words[i] \in OpensACondition \cup {";"} /\ ~Within(words, i)}
        place == Greatest(places)
    IN IF places = {} THEN 0
       ELSE IF words[place] = ";" THEN 0
       ELSE IF words[place] = "WHEN" /\ At(words, CaseBefore(words, place) + 1) # "WHEN" THEN 0
       ELSE place

(* _a_value_where_a_condition_goes, read by the parser of conditions.       *)
BracketLeftOpen(words) ==
    LET open == {i \in DOMAIN words : words[i] = "(" /\ Depth(words, 1, i) = 0}
    IN IF Depth(words, 1, Len(words) + 1) = 0 THEN 1 ELSE Greatest(open)
AValueWhereAConditionGoes(words) ==
    LET place == OpenCondition(words)
        after == From(words, place + 1)
        uneven == Len(SelectSeq(after, LAMBDA w : w = "(")) # Len(SelectSeq(after, LAMBDA w : w = ")"))
        boolean == ToSet(From(after, BracketLeftOpen(after))) \cap {"AND", "OR", "NOT"} # {}
    IN /\ place > 0 /\ after # <<>>
       /\ ~Has(after, "SELECT")
       /\ ~(ToSet(after) \subseteq WANTS_MORE)
       /\ uneven => boolean
       /\ ParsePredicate(after).no = NON_BOOLEAN_CONDITION

(* malformed: the numbers of what it says, in the order it says them.       *)
MalformedWords(words) ==
    LET unfinished == Unfinished(words)
        ended == IF unfinished > 0 THEN unfinished ELSE JoinWithoutAnOn(words)
    IN CASE words = <<>> \/ ended = 0 -> <<>>
         [] ended = SYNTAX_ERROR /\ AValueWhereAConditionGoes(words) -> <<NON_BOOLEAN_CONDITION>>
         [] OTHER -> <<ended>>
Malformed(text) ==
    LET lexed == Lexed(text)
        misplaced == FirstMisplaced(lexed.words)
        comment == IF lexed.leftOpen = "/*" THEN <<MISSING_END_COMMENT>> ELSE <<>>
    IN CASE lexed.leftOpen = "'" ->
              IF misplaced > 0 THEN <<misplaced, UNCLOSED_QUOTATION>> ELSE <<UNCLOSED_QUOTATION, SYNTAX_ERROR>>
         [] misplaced > 0 /\ lexed.leftOpen # "'" -> <<misplaced>> \o comment
         [] OTHER -> comment \o MalformedWords(lexed.words)
=============================================================================
