------------------------------ MODULE Predicate ------------------------------
(***************************************************************************)
(* Expressions and conditions: predicate.py's tree, how a tree is worked    *)
(* out for a row, and how it is read from the tokens of a query.            *)
(*                                                                          *)
(* A tree is a tuple that begins with its node's name.  A row is a function *)
(* from names to values; a name is a sequence of parts, <<"id">> or, after  *)
(* a join, <<"p", "id">>.  Functions with a meaning of their own (dates,    *)
(* text, mathematics) are left out; the ones that settle which of their     *)
(* arguments is the answer are here.                                        *)
(***************************************************************************)
EXTENDS Values, FiniteSets, SequencesExt

DIVIDE_BY_ZERO == 8134
NO_SUCH_COLUMN == 207
AMBIGUOUS_COLUMN == 209
UNSUPPORTED == 50000

(* Column.evaluate and _within_a_join: the qualified name, then the bare    *)
(* one, then a bare name that one joined table has.                         *)
Column(row, name, qualified) ==
    LET within == {key \in DOMAIN row : Len(key) > 1 /\ Last(key) = name}
    IN IF qualified \in DOMAIN row THEN row[qualified]
       ELSE IF <<name>> \in DOMAIN row THEN row[<<name>>]
       ELSE IF qualified # <<>> \/ within = {} THEN Refused(NO_SUCH_COLUMN)
       ELSE IF Cardinality(within) > 1 THEN Refused(AMBIGUOUS_COLUMN)
       ELSE row[CHOOSE key \in within : TRUE]

(* ParameterRef.evaluate: what is bound to a name, NULL where nothing is.   *)
Bound(name) == <<Last(name), "@">>
Parameter(row, name) == IF Bound(name) \in DOMAIN row THEN row[Bound(name)] ELSE Null

(* Aggregate.evaluate: read back from a grouped row, under what it says.    *)
AggregateKey(function, name, distinct) ==
    <<function, distinct, IF name = <<>> THEN "*" ELSE Last(name)>>
AggregateRead(row, key) == IF key \in DOMAIN row THEN row[key] ELSE Refused(UNSUPPORTED)

(* ---- what is in a list --------------------------------------------------*)

Offered(values) == SelectSeq(values, LAMBDA v : ~IsNull(v))
FirstWhere(seq, Test(_)) == seq[SelectInSeq(seq, Test)]
FirstRefused(seq, otherwise) ==
    LET at == SelectInSeq(seq, IsRefused) IN IF at > 0 THEN seq[at] ELSE otherwise

(* _any_match: one at a time; a match wins over a refusal wherever it is.   *)
AnyOf(said) ==
    IF \E i \in DOMAIN said : said[i] = True THEN True
    ELSE IF \E i \in DOMAIN said : IsRefused(said[i])
    THEN FirstWhere(said, IsRefused)
    ELSE False
AnyMatch(v, candidates) ==
    AnyOf([i \in DOMAIN candidates |-> Compare("=", v, candidates[i])])

(* _Candidates: what a value is looked up in, by what the value is.         *)
MattersFor(v) ==
    CASE v.kind \in {"moment", "bit"} -> "any value"
      [] IsText(v) /\ Numeric(v) = NotANumber -> "a number"
      [] IsText(v) -> "nothing"
      [] OTHER -> "text that is not a number"

Candidates(values) ==
    LET offered == ToSet(Offered(values))
        kept == {v \in offered : MattersFor(v) # "any value"}
        numbers == {v \in kept : Numeric(v) # NotANumber}
    IN [offered |-> Offered(values),
        hasNothing |-> Null \in ToSet(values),
        folded |-> {Collated(v) : v \in kept},
        numbersOfText |-> {Numeric(v) : v \in {w \in numbers : IsText(w)}},
        numbersOfOthers |-> {Numeric(v) : v \in {w \in numbers : ~IsText(w)}}]

(* _up_to: what is always compared, and the first that refuses.             *)
UpTo(offered, refusing) ==
    LET first == SelectInSeq(offered, LAMBDA v : MattersFor(v) = refusing)
        at == SelectSeq([i \in DOMAIN offered |-> i],
                 LAMBDA i : MattersFor(offered[i]) = "any value" \/ i = first)
    IN [i \in DOMAIN at |-> offered[at[i]]]

LeftOver(known, v) ==
    UpTo(known.offered,
         CASE v.kind = "int" -> "a number"
           [] IsText(v) /\ Numeric(v) = NotANumber -> "text that is not a number"
           [] OTHER -> "any value")

(* _as_moments: every candidate is read as a moment before any is compared. *)
AmongMoments(known, v) ==
    LET moments == {AsMoment(w) : w \in ToSet(known.offered)}
    IN IF \E m \in moments : IsRefused(m)
       THEN CHOOSE m \in moments : IsRefused(m)
       ELSE Truth(v \in moments)

(* _Candidates.holds. *)
Held(known, v) ==
    IF v.kind = "moment" THEN AmongMoments(known, v)
    ELSE IF /\ v.kind # "bit"
            /\ \/ Collated(v) \in known.folded
               \/ /\ Numeric(v) # NotANumber
                  /\ Numeric(v) \in IF IsText(v) THEN known.numbersOfOthers
                                    ELSE known.numbersOfText
    THEN True
    ELSE AnyMatch(v, IF v.kind = "bit" THEN known.offered ELSE LeftOver(known, v))

Negated(negated, said) ==
    IF negated /\ said \in {True, False} THEN Truth(said = False) ELSE said

(* In.evaluate, with the candidates it keeps. *)
UnknownBeside(hasNothing, held) ==
    IF held = False /\ hasNothing THEN Unknown ELSE held
IsIn(v, known, negated) ==
    IF IsNull(v) THEN Unknown
    ELSE Negated(negated, UnknownBeside(known.hasNothing, Held(known, v)))

(* Against.evaluate: ANY is settled by one that matched, ALL by one that    *)
(* did not, in the order they come.                                         *)
SettledBy(said, every, otherwise) ==
    LET at == SelectInSeq(said, LAMBDA s : IsRefused(s) \/ s # Truth(every))
    IN IF at > 0 THEN said[at] ELSE otherwise
IsAgainst(op, v, values, every) ==
    LET offered == Offered(values)
    IN IF IsNull(v) THEN Unknown
       ELSE SettledBy([i \in DOMAIN offered |-> Compare(op, v, offered[i])], every,
                      IF Len(offered) < Len(values) THEN Unknown ELSE Truth(every))

(* ---- the tree ----------------------------------------------------------*)

(* both_numbers and ARITHMETIC: text beside a number converts to one.       *)
TruncatedDivide(a, b) ==
    LET Abs(k) == IF k < 0 THEN -k ELSE k
        q == Abs(a) \div Abs(b)
    IN IF (a < 0) # (b < 0) THEN -q ELSE q
Reckoned(op, a, b) ==
    CASE op = "+" -> Number(a + b)
      [] op = "-" -> Number(a - b)
      [] op = "*" -> Number(a * b)
      [] op \in {"/", "%"} /\ b = 0 -> Refused(DIVIDE_BY_ZERO)
      [] op \in {"/", "%"} /\ b # 0 ->
           LET q == TruncatedDivide(a, b)
           IN Number(IF op = "/" THEN q ELSE a - b * q)
Arithmetic(op, v, w) ==
    LET a == AsNumber(v) b == AsNumber(w)
    IN IF IsRefused(a) \/ IsRefused(b) THEN FirstRefusal(a, b) ELSE Reckoned(op, a.n, b.n)

(* And.evaluate and Or.evaluate: the right side is read only where the left *)
(* has not settled it.                                                      *)
And(left, right) ==
    IF IsRefused(left) \/ left = False THEN left
    ELSE IF IsRefused(right) \/ right = False THEN right
    ELSE IF Unknown \in {left, right} THEN Unknown ELSE True
Or(left, right) ==
    IF IsRefused(left) \/ left = True THEN left
    ELSE IF IsRefused(right) \/ right = True THEN right
    ELSE IF Unknown \in {left, right} THEN Unknown ELSE False

(* Comparison.evaluate and Between.evaluate over values already worked out. *)
Comparison(v, op, w) ==
    IF IsRefused(v) \/ IsRefused(w) THEN FirstRefusal(v, w)
    ELSE IF IsNull(v) \/ IsNull(w) THEN Unknown ELSE Compare(op, v, w)
Between(v, low, high, negated) ==
    IF IsRefused(v) THEN v
    ELSE IF IsRefused(low) \/ IsRefused(high) THEN FirstRefusal(low, high)
    ELSE IF Null \in {v, low, high} THEN Unknown
    ELSE Negated(negated, And(Compare(">=", v, low), Compare("<=", v, high)))

RECURSIVE Evaluate(_, _)

(* Case.evaluate: the first branch that holds, in either form.              *)
Chosen(branches, said, otherwise, row) ==
    LET at == SelectInSeq(said, LAMBDA s : IsRefused(s) \/ s = True)
        node == IF at > 0 THEN branches[at][2] ELSE otherwise
    IN IF at > 0 /\ IsRefused(said[at]) THEN said[at]
       ELSE IF node = <<>> THEN Null ELSE Evaluate(node, row)
CaseOf(branches, otherwise, operand, row) ==
    LET subject == IF operand = <<>> THEN Null ELSE Evaluate(operand, row)
        test(b) == LET said == Evaluate(b[1], row)
                   IN IF operand = <<>> THEN said ELSE Comparison(subject, "=", said)
    IN IF IsRefused(subject) THEN subject
       ELSE Chosen(branches, [i \in DOMAIN branches |-> test(branches[i])], otherwise, row)

Worked(nodes, row) == [i \in DOMAIN nodes |-> Evaluate(nodes[i], row)]

Evaluate(node, row) ==
    CASE node[1] = "column" -> Column(row, node[2], node[3])
      [] node[1] = "literal" -> node[2]
      [] node[1] = "parameter" -> Parameter(row, node[2])
      [] node[1] = "aggregate" ->
           AggregateRead(row, AggregateKey(node[2], node[3], node[4]))
      [] node[1] = "negate" ->
           LET v == Evaluate(node[2], row)
           IN IF IsNull(v) \/ IsRefused(v) THEN v ELSE Number(0 - Numeric(v))
      [] node[1] = "arithmetic" ->
           LET v == Evaluate(node[3], row) w == Evaluate(node[4], row)
           IN IF IsRefused(v) \/ IsRefused(w) THEN FirstRefusal(v, w)
              ELSE IF Null \in {v, w} THEN Null ELSE Arithmetic(node[2], v, w)
      [] node[1] = "comparison" ->
           Comparison(Evaluate(node[2], row), node[3], Evaluate(node[4], row))
      [] node[1] = "against" ->
           LET v == Evaluate(node[3], row)
           IN IF IsRefused(v) THEN v
              ELSE IsAgainst(node[2], v, Worked(node[4], row), node[5])
      [] node[1] = "in" ->
           LET v == Evaluate(node[2], row)
           IN IF IsRefused(v) THEN v
              ELSE IsIn(v, Candidates(Worked(node[3], row)), node[4])
      [] node[1] = "between" ->
           Between(Evaluate(node[2], row), Evaluate(node[3], row),
                   Evaluate(node[4], row), node[5])
      [] node[1] = "is null" ->
           LET v == Evaluate(node[2], row)
           IN IF IsRefused(v) THEN v ELSE Truth(IsNull(v) # node[3])
      [] node[1] = "and" -> And(Evaluate(node[2], row), Evaluate(node[3], row))
      [] node[1] = "or" -> Or(Evaluate(node[2], row), Evaluate(node[3], row))
      [] node[1] = "not" -> Negated(TRUE, Evaluate(node[2], row))
      [] node[1] = "case" -> CaseOf(node[2], node[3], node[4], row)

(* ---- what a tree is made of ---------------------------------------------*)

(* What a node holds, in the order its fields are declared. *)
Children(node) ==
    CASE node[1] = "arithmetic" -> <<node[3], node[4]>>
      [] node[1] = "comparison" -> <<node[2], node[4]>>
      [] node[1] = "against" -> <<node[3]>> \o node[4]
      [] node[1] = "in" -> <<node[2]>> \o node[3]
      [] node[1] = "between" -> <<node[2], node[3], node[4]>>
      [] node[1] \in {"and", "or"} -> <<node[2], node[3]>>
      [] node[1] \in {"negate", "not", "is null"} -> <<node[2]>>
      [] node[1] = "case" -> FlattenSeq(node[2]) \o <<node[3], node[4]>>
      [] OTHER -> <<>>

(* _all_of: the nodes of one kind within a tree, from the left.             *)
RECURSIVE Parts(_, _)
Parts(node, name) ==
    IF node = <<>> THEN <<>>
    ELSE IF node[1] = name THEN <<node>>
    ELSE LET held == Children(node)
         IN FlattenSeq([i \in DOMAIN held |-> Parts(held[i], name)])

(* ungrouped: whether an expression reads a column its grouping does not    *)
(* fix.  A column is one by its name, whatever qualifies it.                *)
RECURSIVE Loose(_, _)
Loose(node, groupings) ==
    /\ node # <<>>
    /\ node \notin groupings
    /\ IF node[1] = "column" THEN \A g \in groupings : g[1] # "column" \/ g[2] # node[2]
       ELSE \E child \in ToSet(Children(node)) : Loose(child, groupings)

(* conjuncts and all_of: what is ANDed at the top of a condition, and those *)
(* parts ANDed back together.                                               *)
RECURSIVE Conjuncts(_)
Conjuncts(node) ==
    IF node = <<>> THEN <<>>
    ELSE IF node[1] = "and" THEN Conjuncts(node[2]) \o Conjuncts(node[3]) ELSE <<node>>
AllOf(conditions) ==
    IF conditions = <<>> THEN <<>>
    ELSE FoldLeft(LAMBDA node, other : <<"and", node, other>>, Head(conditions), Tail(conditions))

(* rewrite, as as_parameters uses it: the columns that stand for the row    *)
(* around a query become parameters.  A node that is none stays none.       *)
RECURSIVE AsParameters(_, _)
AsParameters(node, names) ==
    LET inside(child) == AsParameters(child, names)
    IN IF node = <<>> THEN node
       ELSE CASE node[1] = "column" ->
                   IF node[3] \in names THEN <<"parameter", node[3]>> ELSE node
              [] node[1] = "arithmetic" -> <<"arithmetic", node[2], inside(node[3]), inside(node[4])>>
              [] node[1] = "comparison" -> <<"comparison", inside(node[2]), node[3], inside(node[4])>>
              [] node[1] \in {"and", "or"} -> <<node[1], inside(node[2]), inside(node[3])>>
              [] node[1] \in {"negate", "not"} -> <<node[1], inside(node[2])>>
              [] node[1] = "is null" -> <<"is null", inside(node[2]), node[3]>>
              [] OTHER -> node

(* matches: only true passes. *)
Matches(node, row) == Evaluate(node, row) = True
=============================================================================
