------------------------------- MODULE Values -------------------------------
(***************************************************************************)
(* The values a column holds and how the bridge compares them: predicate.py *)
(* below its expression tree.  A value is a record: its kind, a number that *)
(* stands for it, and for text the word it is written as.  What a function  *)
(* raises is a value too, Refused with the number a client is sent, so that *)
(* an operator that can refuse says so in its answer.                       *)
(*                                                                          *)
(* Text is one of a few words, chosen for what separates the rules: blank   *)
(* text, which converts to zero; two spellings of one; a word that a bit    *)
(* reads, in both cases; and two words that nothing reads, in both cases.   *)
(***************************************************************************)
EXTENDS Integers, Sequences

(* The word of what is not text, and of blank text. *)
NoWord == ""

Null == [kind |-> "null", n |-> 0, as |-> NoWord]
Number(k) == [kind |-> "int", n |-> k, as |-> NoWord]
Bit(k) == [kind |-> "bit", n |-> k, as |-> NoWord]
Moment(k) == [kind |-> "moment", n |-> k, as |-> NoWord]
Refused(k) == [kind |-> "refused", n |-> k, as |-> NoWord]

IsNull(v) == v.kind = "null"
IsText(v) == v.kind = "text"
IsRefused(v) == v.kind = "refused"

(* The words in the order the collation sorts them, without regard to case. *)
FoldedWords == <<"", "01", "1", "2", "true", "x", "y">>
Fold(w) == CASE w = "TRUE" -> "true" [] w = "X" -> "x" [] w = "Y" -> "y"
             [] OTHER -> w
Text(w) == [kind |-> "text",
            n |-> CHOOSE i \in DOMAIN FoldedWords : FoldedWords[i] = Fold(w),
            as |-> w]

(* The numbers of the refusals a conversion gives. *)
CONVERSION_FAILED == 245
DATETIME_CONVERSION_FAILED == 241

(* collated: text compares without case, anything else as it is. *)
Collated(v) == IF IsText(v) THEN [v EXCEPT !.as = Fold(v.as)] ELSE v

(* _number and _numeric: a number, what text spells, or nothing.  Blank     *)
(* text is zero.                                                            *)
NotANumber == -999
Numeric(v) ==
    IF ~IsText(v) THEN v.n
    ELSE CASE v.as = NoWord -> 0 [] v.as \in {"01", "1"} -> 1 [] v.as = "2" -> 2
           [] OTHER -> NotANumber

(* _as_bit: the words true and false, or a whole number that is not zero.   *)
AsNumber(v) ==
    IF IsText(v) /\ Numeric(v) = NotANumber THEN Refused(CONVERSION_FAILED) ELSE Number(Numeric(v))
NumberAsBit(v) == IF IsRefused(v) THEN v ELSE Bit(IF v.n = 0 THEN 0 ELSE 1)
AsBit(v) ==
    IF IsText(v) /\ Fold(v.as) = "true" THEN Bit(1)
    ELSE NumberAsBit(AsNumber(v))

(* _a_moment: a number is days since 1900; no word here spells a date.      *)
AsMoment(v) ==
    IF v.kind = "moment" THEN v ELSE IF IsText(v) THEN Refused(DATETIME_CONVERSION_FAILED) ELSE Moment(v.n)

(* How two numbers stand to each other under an operator.                   *)
Holds(op, a, b) ==
    CASE op = "=" -> a = b [] op = "<>" -> a # b
      [] op = "<" -> a < b [] op = "<=" -> a <= b
      [] op = ">" -> a > b [] op = ">=" -> a >= b

(* A condition is true, false or unknown, or refuses.                       *)
Truth(b) == [kind |-> "truth", n |-> IF b THEN 1 ELSE 0, as |-> NoWord]
True == Truth(TRUE)
False == Truth(FALSE)
Unknown == [kind |-> "truth", n |-> 2, as |-> NoWord]

FirstRefusal(v, w) == IF IsRefused(v) THEN v ELSE w

(* compare: one comparison of two values that are not NULL, under the       *)
(* collation and SQL's precedence of types: a moment outranks a bit and a   *)
(* number, those outrank text.                                              *)
CompareAs(op, v, w) ==
    IF IsRefused(v) \/ IsRefused(w) THEN FirstRefusal(v, w)
    ELSE Truth(Holds(op, v.n, w.n))

ReadAs(kind, v) ==
    CASE kind = "moment" -> AsMoment(v) [] kind = "as it is" -> Collated(v)
      [] kind = "bit" -> AsBit(v) [] kind = "int" -> AsNumber(v)
CommonKind(kinds) ==
    CASE "moment" \in kinds -> "moment"
      [] kinds = {"text", "bit"} -> "bit" [] kinds = {"text", "int"} -> "int"
      [] OTHER -> "as it is"
CompareBoth(op, v, w, kind) == CompareAs(op, ReadAs(kind, v), ReadAs(kind, w))
Compare(op, v, w) == CompareBoth(op, v, w, CommonKind({v.kind, w.kind}))

(* A sequence as it is, written so that a checker works it out once.        *)
Settled(seq) == seq \o <<>>

(* The key every sort uses: NULLs before everything, then the collation.    *)
SortsBefore(v, w) ==
    \/ IsNull(v) /\ ~IsNull(w)
    \/ ~IsNull(v) /\ ~IsNull(w) /\ Collated(v).n < Collated(w).n
=============================================================================
