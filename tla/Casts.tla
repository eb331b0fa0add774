------------------------------- MODULE Casts --------------------------------
(***************************************************************************)
(* What a value becomes when it is put into a column or a variable of a     *)
(* declared type: cast_to in predicate.py, and the column a SELECT makes of *)
(* the values an expression gave, column_of in source.py.                   *)
(*                                                                          *)
(* A number is counted in thousandths unless it is an int or a bit.  A      *)
(* decimal the query wrote out is apart from a float: 2.675 rounds to 2.68  *)
(* as the decimal it spells and to 2.67 as the float nearest to it, which   *)
(* is a little below.  Text is known by what it spells: a whole number, a   *)
(* number with places, or nothing, and then by one of a few words.          *)
(***************************************************************************)
EXTENDS Values

Float(k) == [kind |-> "float", n |-> k, as |-> NoWord]
Decimal(k) == [kind |-> "decimal", n |-> k, as |-> NoWord]
Word(w) == [kind |-> "text", n |-> 0, as |-> w]
Digits(k) == [kind |-> "text", n |-> k, as |-> "digits"]
Places(k) == [kind |-> "text", n |-> k, as |-> "places"]

(* The declared types: a varchar of two characters, a decimal of three      *)
(* digits and two places, and one of the types that no cast converts to,    *)
(* whose values are kept as they are given.                                 *)
AsGiven == "kept"
Types == {"TINYINT", "INT", "BIT", "FLOAT", "DECIMAL", "VARCHAR", AsGiven}

BIGGEST_TINYINT == 255
VARCHAR_CHARS == 2
DECIMAL_END == 10000

OVERFLOW_FOR_A_TYPE == 220
OVERFLOWED_A_NARROW_COLUMN == 244
CONVERSION_ERROR == 8114
ARITHMETIC_OVERFLOW == 8115
OVERFLOW_FOR_A_VALUE == 232
TRUNCATED_IN_A_TABLE == 2628

IsFloating(v) == v.kind \in {"float", "decimal"}

MOST == 999
MOST_THOUSANDTHS == 1000 * MOST + 999

(* The values there are here: none is below nought, and none has more than  *)
(* three digits before its place.                                           *)
IsValue(v) ==
    \/ v = Null
    \/ v \in {Number(v.n), Digits(v.n)} /\ v.n \in 0..MOST
    \/ v = Bit(v.n) /\ v.n \in 0..1
    \/ v \in {Float(v.n), Decimal(v.n), Places(v.n)} /\ v.n \in 0..MOST_THOUSANDTHS
    \/ v = Word(v.as)

(* How many characters text has. *)
Chars(v) ==
    CASE v.as = "digits" -> IF v.n < 10 THEN 1 ELSE IF v.n < 100 THEN 2 ELSE 3
      [] v.as = "places" -> 5
      [] v.as = NoWord -> 0
      [] v.as \in {"q", "*"} -> 1
      [] v.as \in {"ab", "cut"} -> 2
      [] OTHER -> 4

(* A text that ends in spaces. *)
Padded == "ab  "

(* Text cut to the two characters a varchar here has.                       *)
CutShort(v) ==
    CASE v.as = "digits" -> Digits(v.n \div 10)
      [] v.as \in {Padded, "abcd"} -> Word("ab")
      [] OTHER -> Word("cut")
LosesOnlySpaces(v) == v.as = Padded

(* _as_integer, which cuts a number and reads text only where it is whole.  *)
AsInteger(v) ==
    IF ~IsText(v) THEN Number(IF IsFloating(v) THEN v.n \div 1000 ELSE v.n)
    ELSE CASE v.as = NoWord -> Number(0)
           [] v.as = "digits" -> Number(v.n)
           [] OTHER -> Refused(CONVERSION_FAILED)

(* _number, in thousandths. *)
Thousandths(v) ==
    IF ~IsText(v) THEN Float(IF IsFloating(v) THEN v.n ELSE v.n * 1000)
    ELSE CASE v.as = NoWord -> Float(0)
           [] v.as = "digits" -> Float(v.n * 1000)
           [] v.as = "places" -> Float(v.n)
           [] OTHER -> Refused(CONVERSION_ERROR)

(* A whole number that its type cannot hold is reported by what it was.     *)
ToTinyint(v, whole) ==
    IF IsRefused(whole) \/ whole.n <= BIGGEST_TINYINT THEN whole
    ELSE Refused(IF IsText(v) THEN OVERFLOWED_A_NARROW_COLUMN ELSE OVERFLOW_FOR_A_TYPE)

ToBit(v, whole) ==
    IF IsText(v) /\ v.as = "true" THEN Bit(1)
    ELSE IF IsFloating(v) THEN Bit(IF v.n = 0 THEN 0 ELSE 1)
    ELSE IF IsRefused(whole) THEN whole ELSE Bit(IF whole.n = 0 THEN 0 ELSE 1)

(* _to_places: rounded half away from nought where the number is the one    *)
(* that was spelled; a float at a half is a little below it.                *)
Rounded(k, exact) == ((k + (IF exact THEN 5 ELSE 4)) \div 10) * 10
ToPlaces(v, number, written) ==
    IF IsRefused(number) THEN number
    ELSE LET k == Rounded(number.n, written \/ ~IsFloating(v))
         IN IF k >= DECIMAL_END THEN Refused(ARITHMETIC_OVERFLOW) ELSE Decimal(k)

(* A number as text: a whole float shows its place only where the query     *)
(* wrote it.  Too long for its column, an int is a star and anything else   *)
(* is refused.                                                              *)
NumberAsText(v, written) ==
    IF ~IsFloating(v) THEN Digits(v.n)
    ELSE IF v.kind = "float" /\ ~written /\ v.n % 1000 = 0 THEN Digits(v.n \div 1000)
    ELSE Places(v.n)
NumberTooLong(v, written) ==
    IF ~IsFloating(v) THEN Word("*")
    ELSE Refused(IF written THEN ARITHMETIC_OVERFLOW ELSE OVERFLOW_FOR_A_VALUE)
ToText(v, written) ==
    LET text == IF IsText(v) THEN v ELSE NumberAsText(v, written)
    IN IF Chars(text) <= VARCHAR_CHARS THEN text
       ELSE IF IsText(v) THEN CutShort(v) ELSE NumberTooLong(v, written)

(* cast_to.                                                                 *)
CastTo(v, type, written) ==
    IF IsNull(v) \/ IsRefused(v) \/ type = AsGiven THEN v
    ELSE CASE type = "INT" -> AsInteger(v)
           [] type = "TINYINT" -> ToTinyint(v, AsInteger(v))
           [] type = "BIT" -> ToBit(v, AsInteger(v))
           [] type = "FLOAT" -> Thousandths(v)
           [] type = "DECIMAL" -> ToPlaces(v, Thousandths(v), written)
           [] type = "VARCHAR" -> ToText(v, written)

(* _into_a_column: a column refuses the text a cast would cut, unless what  *)
(* would be cut is only spaces.                                             *)
IntoAColumn(v, type) ==
    IF type = "VARCHAR" /\ IsText(v) /\ Chars(v) > VARCHAR_CHARS /\ ~LosesOnlySpaces(v)
    THEN Refused(TRUNCATED_IN_A_TABLE)
    ELSE CastTo(v, type, v.kind = "decimal")

(* What a value of each type can be.                                        *)
HeldBy(v, type) ==
    \/ IsNull(v)
    \/ type = AsGiven
    \/ type = "INT" /\ v.kind = "int"
    \/ type = "TINYINT" /\ v.kind = "int" /\ v.n <= BIGGEST_TINYINT
    \/ type = "BIT" /\ v.kind = "bit" /\ v.n \in {0, 1}
    \/ type = "FLOAT" /\ IsFloating(v)
    \/ type = "DECIMAL" /\ v.kind = "decimal" /\ v.n % 10 = 0 /\ v.n < DECIMAL_END
    \/ type = "VARCHAR" /\ IsText(v) /\ Chars(v) <= VARCHAR_CHARS

(* ---- the column a SELECT makes of what an expression gave ---------------*)

(* The kind of column: bits, whole numbers, numbers, or else text.          *)
KindOfColumn(values) ==
    LET kinds == {v.kind : v \in {w \in values : ~IsNull(w)}}
    IN CASE kinds = {"bit"} -> "bit"
         [] kinds = {"int"} -> "int"
         [] kinds # {"int"} /\ kinds \subseteq {"int", "float", "decimal"} -> "float"
         [] OTHER -> "text"

(* Text as Python writes a value, whose bits are the words for them.        *)
AsPython(v) ==
    CASE IsText(v) -> v
      [] v.kind = "bit" -> Word(IF v.n = 1 THEN "true" ELSE "false")
      [] v.kind = "int" -> Digits(v.n)
      [] OTHER -> Places(v.n)

(* column_of, for one of its values. *)
InColumn(v, kind) ==
    IF IsNull(v) THEN v
    ELSE CASE kind = "float" -> Thousandths(v)
           [] kind = "text" -> AsPython(v)
           [] OTHER -> v

(* What a column of each kind converts what is put into it to, where a      *)
(* SELECT INTO made it: text is kept as it is given.                        *)
DeclarationOf(kind) ==
    CASE kind = "int" -> "INT" [] kind = "float" -> "FLOAT" [] kind = "bit" -> "BIT"
      [] OTHER -> AsGiven

(* The kind a column of a declared type is served as.                       *)
ServedAs(type) ==
    CASE type \in {"TINYINT", "INT"} -> "int" [] type \in {"FLOAT", "DECIMAL"} -> "float"
      [] type = "BIT" -> "bit" [] OTHER -> "text"
=============================================================================
