------------------------------- MODULE Parser -------------------------------
(***************************************************************************)
(* How an expression is read: predicate.py's _Parser.  A text is a sequence *)
(* of tokens: words the language keeps in capitals, names, numbers, texts,  *)
(* variables, marks; a subquery already lifted out stands in it as the      *)
(* number it was given.  The tree is that of Predicate.  What a method       *)
(* returns is what it read and the place after it, or a complaint and its   *)
(* number.  Casts, dates, LIKE and the scalar functions that only compute   *)
(* are left out.                                                            *)
(***************************************************************************)
EXTENDS Predicate, Words

SYNTAX_ERROR == 102
NON_BOOLEAN_CONDITION == 4145
EVERY_RESULT_IS_NULL == 8133
NEEDS_AN_OVER_CLAUSE == 10753
ONLY_IN_SELECT_OR_ORDER_BY == 4108

AGGREGATES == {"COUNT", "SUM", "MIN", "MAX", "AVG"}
WINDOW_FUNCTIONS ==
    {"ROW_NUMBER", "RANK", "DENSE_RANK", "NTILE", "LAG", "LEAD", "FIRST_VALUE", "LAST_VALUE"}
KEYWORDS ==
    {"AND", "OR", "NOT", "IS", "NULL", "LIKE", "IN", "BETWEEN",
     "CASE", "WHEN", "THEN", "ELSE", "END", "AS"}
Comparisons == {"=", "<>", "<", "<=", ">", ">="}
Marks == Comparisons \cup {"+", "-", "*", "/", "%", "(", ")", ",", ".", ";"}

(* The parameters subqueries become: LIFTED_SUBQUERY and a number.          *)
SubqueryNames == <<"@0", "@1", "@2", "@3", "@4", "@5">>
IsParameter(token) == token \in Variables \cup ToSet(SubqueryNames)
IsWord(token) ==
    token \notin KEYWORDS \cup Marks \cup DOMAIN Literals \cup {""} /\ ~IsParameter(token)

IsNumber(token) == IF token \in DOMAIN Literals THEN Literals[token].kind = "int" ELSE FALSE
IsName(token) == token \notin Marks \cup DOMAIN Literals \cup {""}

Got(value, at) == [value |-> value, at |-> at, no |-> 0]
Complaint(k) == [value |-> <<>>, at |-> 0, no |-> k]
Bad(r) == r.at = 0
Build(r, value) == IF Bad(r) THEN r ELSE Got(value, r.at)
Closed(t, r, token, k) ==
    IF Bad(r) THEN r ELSE IF At(t, r.at) = token THEN Got(r.value, r.at + 1) ELSE Complaint(k)

(* The levels that go on from the left: parse_or, parse_and, parse_operand  *)
(* and parse_term.                                                          *)
Levels ==
    [or |-> [below |-> "and", goesOn |-> {"OR"}],
     and |-> [below |-> "not", goesOn |-> {"AND"}],
     operand |-> [below |-> "term", goesOn |-> {"+", "-"}],
     term |-> [below |-> "unary", goesOn |-> {"*", "/", "%"}]]
Combined(level, left, op, right) ==
    IF level \in {"or", "and"} THEN <<level, left, right>> ELSE <<"arithmetic", op, left, right>>

(* A rule read at a place; sofar is what a level, a list or a CASE has read *)
(* already.                                                                 *)
RECURSIVE Read(_, _, _, _)

Level(level, t, i, sofar) ==
    LET one == Read(Levels[level].below, t, i, <<>>)
        node == IF sofar = <<>> THEN one.value ELSE Combined(level, sofar[1], sofar[2], one.value)
    IN IF Bad(one) \/ At(t, one.at) \notin Levels[level].goesOn THEN Build(one, node)
       ELSE Read(level, t, one.at + 1, <<node, t[one.at]>>)

ParseNot(t, i) ==
    LET negated == At(t, i) = "NOT"
        inner == Read(IF negated THEN "not" ELSE "primary", t, IF negated THEN i + 1 ELSE i, <<>>)
    IN IF negated THEN Build(inner, <<"not", inner.value>>) ELSE inner

ParseUnary(t, i) ==
    LET signed == At(t, i) \in {"-", "+"}
        operand == Read(IF signed THEN "unary" ELSE "value", t, IF signed THEN i + 1 ELSE i, <<>>)
    IN IF At(t, i) = "-" THEN Build(operand, <<"negate", operand.value>>) ELSE operand

(* parse_in, after its bracket, and parse_between, after its word.          *)
ParseList(t, i, sofar) ==
    LET one == Read("operand", t, i, <<>>)
        values == Append(sofar, one.value)
    IN CASE Bad(one) -> one
         [] ~Bad(one) /\ At(t, one.at) = "," -> Read("list", t, one.at + 1, values)
         [] OTHER -> Closed(t, Build(one, values), ")", UNSUPPORTED)
ParseBetween(t, i) ==
    LET low == Closed(t, Read("operand", t, i, <<>>), "AND", UNSUPPORTED)
        high == Read("operand", t, low.at, <<>>)
    IN IF Bad(low) THEN low ELSE Build(high, <<low.value, high.value>>)

(* parse_primary: a bracket here is always taken to open a condition.       *)
ParsePrimary(t, i) ==
    LET left == Read("operand", t, i, <<>>)
        negated == At(t, left.at) = "NOT"
        at == left.at + IF negated THEN 1 ELSE 0
        isNot == At(t, at + 1) = "NOT"
        nulled == at + IF isNot THEN 2 ELSE 1
        set == At(t, at + 1) \in {"ALL", "ANY", "SOME"}
        rule == CASE At(t, at) = "IN" -> "list" [] At(t, at) = "BETWEEN" -> "between" [] OTHER -> "operand"
        right == Read(rule, t, at + IF rule = "list" \/ set THEN 2 ELSE 1, <<>>)
    IN CASE At(t, i) = "(" -> Closed(t, Read("or", t, i + 1, <<>>), ")", UNSUPPORTED)
         [] At(t, i) # "(" /\ Bad(left) -> left
         [] At(t, i) # "(" /\ At(t, at) = "IS" /\ ~negated ->
              IF At(t, nulled) = "NULL" THEN Got(<<"is null", left.value, isNot>>, nulled + 1)
              ELSE Complaint(UNSUPPORTED)
         [] At(t, i) # "(" /\ At(t, at) = "IN" ->
              IF At(t, at + 1) = "(" THEN Build(right, <<"in", left.value, right.value, negated>>)
              ELSE Complaint(UNSUPPORTED)
         [] At(t, i) # "(" /\ At(t, at) = "BETWEEN" ->
              IF Bad(right) THEN right
              ELSE Got(<<"between", left.value, right.value[1], right.value[2], negated>>, right.at)
         [] At(t, i) # "(" /\ At(t, at) \in Comparisons /\ ~negated ->
              Build(right, IF set THEN <<"against", t[at], left.value, <<right.value>>, t[at + 1] = "ALL">>
                           ELSE <<"comparison", left.value, t[at], right.value>>)
         [] OTHER -> Complaint(IF negated THEN UNSUPPORTED ELSE NON_BOOLEAN_CONDITION)

(* parse_case, after the word: its branches are read one after another.     *)
ParseBranches(t, i, operand, sofar) ==
    LET test == Closed(t, Read(IF operand = <<>> THEN "or" ELSE "operand", t, i + 1, <<>>),
                       "THEN", UNSUPPORTED)
        result == Read("operand", t, test.at, <<>>)
    IN IF At(t, i) # "WHEN" THEN Got(sofar, i)
       ELSE IF Bad(test) THEN test
       ELSE IF Bad(result) THEN result
       ELSE Read("branches", t, result.at, <<operand, Append(sofar, <<test.value, result.value>>)>>)
ParseCase(t, i) ==
    LET operand == IF At(t, i) = "WHEN" THEN Got(<<>>, i) ELSE Read("operand", t, i, <<>>)
        branches == Read("branches", t, operand.at, <<operand.value, <<>>>>)
        otherwise == IF At(t, branches.at) = "ELSE" THEN Read("operand", t, branches.at + 1, <<>>)
                     ELSE Got(<<>>, branches.at)
        closed == Closed(t, otherwise, "END", UNSUPPORTED)
        results == {b[2] : b \in ToSet(branches.value)} \cup ({otherwise.value} \ {<<>>})
    IN IF Bad(operand) THEN operand
       ELSE IF Bad(branches) THEN branches
       ELSE IF branches.value = <<>> THEN Complaint(UNSUPPORTED)
       ELSE IF Bad(closed) THEN closed
       ELSE IF results = {<<"literal", Null>>} THEN Complaint(EVERY_RESULT_IS_NULL)
       ELSE Got(<<"case", branches.value, otherwise.value, operand.value>>, closed.at)

(* _aggregate, read back by what it says: a column by its last name.        *)
ParseAggregate(t, i) ==
    LET distinct == At(t, i + 2) = "DISTINCT"
        opened == i + IF At(t, i + 2) \in {"DISTINCT", "ALL"} THEN 3 ELSE 2
        inner == Read("operand", t, opened, <<>>)
        argument == IF At(t, opened) = "*" THEN Got(<<>>, opened + 1)
                    ELSE IF At(t, opened) = ")" THEN Got(<<>>, opened)
                    ELSE Build(inner, IF inner.value[1] = "column" THEN <<inner.value[2]>>
                                      ELSE <<SubSeq(t, opened, inner.at - 1)>>)
        closed == Closed(t, argument, ")", UNSUPPORTED)
    IN IF Bad(closed) THEN closed
       ELSE IF At(t, closed.at) = "OVER" THEN Complaint(ONLY_IN_SELECT_OR_ORDER_BY)
       ELSE Got(<<"aggregate", t[i], argument.value, distinct>>, closed.at)

(* _qualified: the last name, and the last two. *)
ParseQualified(t, i) ==
    LET last == CHOOSE j \in i..Len(t) : /\ (j - i) % 2 = 0 /\ At(t, j + 1) # "."
                                         /\ \A k \in i..j : (k - i) % 2 = 1 => t[k] = "."
    IN IF At(t, Len(t)) = "." \/ At(t, last + 1) = "(" THEN Complaint(UNSUPPORTED)
       ELSE Got(<<"column", t[last], IF last > i THEN <<t[last - 2], t[last]>> ELSE <<>>>>, last + 1)

ParseValue(t, i) ==
    LET token == At(t, i)
        called == At(t, i + 1) = "("
    IN CASE token \in DOMAIN Literals -> Got(<<"literal", Literals[token]>>, i + 1)
         [] IsParameter(token) -> Got(<<"parameter", <<token>>>>, i + 1)
         [] token = "NULL" -> Got(<<"literal", Null>>, i + 1)
         [] token = "CASE" -> ParseCase(t, i + 1)
         [] token = "(" -> Closed(t, Read("operand", t, i + 1, <<>>), ")", UNSUPPORTED)
         [] IsWord(token) /\ called ->
              CASE token \in WINDOW_FUNCTIONS -> Complaint(ONLY_IN_SELECT_OR_ORDER_BY)
                [] token \in AGGREGATES -> ParseAggregate(t, i)
                [] OTHER -> Complaint(UNSUPPORTED)
         [] IsWord(token) /\ ~called -> ParseQualified(t, i)
         [] OTHER -> Complaint(UNSUPPORTED)

Read(rule, t, i, sofar) ==
    CASE rule \in DOMAIN Levels -> Level(rule, t, i, sofar)
      [] rule = "not" -> ParseNot(t, i)
      [] rule = "primary" -> ParsePrimary(t, i)
      [] rule = "unary" -> ParseUnary(t, i)
      [] rule = "value" -> ParseValue(t, i)
      [] rule = "list" -> ParseList(t, i, sofar)
      [] rule = "between" -> ParseBetween(t, i)
      [] rule = "branches" -> ParseBranches(t, i, sofar[1], sofar[2])

(* parse_predicate and parse_expression: the whole of the text, no less.    *)
Entire(t, read) == IF ~Bad(read) /\ read.at <= Len(t) THEN Complaint(UNSUPPORTED) ELSE read
ParsePredicate(t) == Entire(t, Read("or", t, 1, <<>>))
ParseExpression(t) == Entire(t, Read("operand", t, 1, <<>>))
=============================================================================
