---------------------------- MODULE ScratchProofs ----------------------------
(***************************************************************************)
(* What a connection's own tables and its variable can hold, for every set  *)
(* of tables and of statements and every number of them.                    *)
(***************************************************************************)
EXTENDS Scratch, FiniteSetTheorems, WellFoundedInduction, NaturalsInduction,
        SequenceTheorems, TLAPS

-------------------------------------------------------------------------------
(* The first and the last of some places.                                  *)

LEMMA FirstIsOne ==
    ASSUME NEW S, S \subseteq Nat, S # {}
    PROVE  First(S) \in S /\ \A i \in S : First(S) <= i
<1>1. PICK x \in S : \A y \in S : ~ (<<y, x>> \in OpToRel(<, Nat))
  BY WFMin, NatLessThanWellFounded
<1>2. \A y \in S : ~ (y < x)
  BY <1>1 DEF OpToRel
<1>3. \A y \in S : x <= y
  BY <1>2
<1>4. QED
  BY <1>3, Zenon DEF First

LEMMA LatestIsOne ==
    ASSUME NEW n \in Nat, NEW S, S \subseteq 1..n, S # {}
    PROVE  Latest(S) \in S /\ \A j \in S : j <= Latest(S)
<1> DEFINE Down == {n - i : i \in S}
<1>1. Down \subseteq Nat /\ Down # {}
  <2>1. \A i \in S : n - i \in Nat
    OBVIOUS
  <2>2. QED
    BY <2>1
<1>2. First(Down) \in Down /\ \A y \in Down : First(Down) <= y
  <2> HIDE DEF Down
  <2>1. QED
    BY <1>1, FirstIsOne
<1>3. PICK i \in S : First(Down) = n - i
  BY <1>2
<1>4. ASSUME NEW j \in S
      PROVE  j <= i
  <2>1. n - j \in Down
    OBVIOUS
  <2>2. n - i <= n - j
    BY <1>2, <1>3, <2>1
  <2>3. i \in Int /\ j \in Int
    OBVIOUS
  <2> HIDE DEF Down
  <2>4. QED
    BY <2>2, <2>3
<1>5. QED
  BY <1>4, Zenon DEF Latest

-------------------------------------------------------------------------------
(* Casts.                                                                  *)

Wrong(v) == IsRefused(v) /\ v.n # 0
Result(v) == IsValue(v) \/ Wrong(v)
Fits(v, type) == (IsValue(v) /\ HeldBy(v, type)) \/ Wrong(v)

LEMMA Bounds == /\ MOST \in Nat /\ MOST <= 999
                /\ MOST_THOUSANDTHS \in Nat /\ MOST_THOUSANDTHS = 1000 * MOST + 999
<1>1. MOST \in Nat /\ MOST <= 999
  BY SMT DEF MOST
<1>2. QED
  BY <1>1, SMT DEF MOST_THOUSANDTHS

LEMMA Fields ==
    /\ Null.kind = "null"
    /\ \A k : Number(k).kind = "int" /\ Number(k).n = k
    /\ \A k : Bit(k).kind = "bit" /\ Bit(k).n = k
    /\ \A k : Float(k).kind = "float" /\ Float(k).n = k
    /\ \A k : Decimal(k).kind = "decimal" /\ Decimal(k).n = k
    /\ \A k : Digits(k).kind = "text" /\ Digits(k).n = k /\ Digits(k).as = "digits"
    /\ \A k : Places(k).kind = "text" /\ Places(k).n = k /\ Places(k).as = "places"
    /\ \A w : Word(w).kind = "text" /\ Word(w).n = 0 /\ Word(w).as = w
    /\ \A k : Refused(k).kind = "refused" /\ Refused(k).n = k
BY SMT DEF Null, Number, Bit, Float, Decimal, Digits, Places, Word, Refused

LEMMA ValuesAreMade ==
    /\ IsValue(Null)
    /\ \A k \in 0..MOST : IsValue(Number(k)) /\ IsValue(Digits(k))
    /\ \A k \in 0..1 : IsValue(Bit(k))
    /\ \A k \in 0..MOST_THOUSANDTHS : IsValue(Float(k)) /\ IsValue(Decimal(k)) /\ IsValue(Places(k))
    /\ \A w : IsValue(Word(w))
<1>1. ASSUME NEW k \in 0..MOST
      PROVE  IsValue(Number(k)) /\ IsValue(Digits(k))
  <2>1. Number(k).n = k /\ Digits(k).n = k
    BY Fields, SMT
  <2>2. QED
    BY <2>1, Zenon DEF IsValue
<1>2. ASSUME NEW k \in 0..1
      PROVE  IsValue(Bit(k))
  <2>1. Bit(k).n = k
    BY Fields, SMT
  <2>2. QED
    BY <2>1, Zenon DEF IsValue
<1>3. ASSUME NEW k \in 0..MOST_THOUSANDTHS
      PROVE  IsValue(Float(k)) /\ IsValue(Decimal(k)) /\ IsValue(Places(k))
  <2>1. Float(k).n = k /\ Decimal(k).n = k /\ Places(k).n = k
    BY Fields, SMT
  <2>2. QED
    BY <2>1, Zenon DEF IsValue
<1>4. ASSUME NEW w
      PROVE  IsValue(Word(w))
  <2>1. Word(w).as = w
    BY Fields, SMT
  <2>2. QED
    BY <2>1, Zenon DEF IsValue
<1>5. IsValue(Null)
  BY Zenon DEF IsValue
<1>6. QED
  BY <1>1, <1>2, <1>3, <1>4, <1>5, Zenon

LEMMA Kinds ==
    ASSUME NEW v, IsValue(v)
    PROVE  \/ v.kind = "null"
           \/ v.kind = "int" /\ v.n \in 0..MOST
           \/ v.kind = "bit" /\ v.n \in 0..1
           \/ v.kind \in {"float", "decimal"} /\ v.n \in 0..MOST_THOUSANDTHS
           \/ v.kind = "text" /\ v.as = "digits" /\ v.n \in 0..MOST
           \/ v.kind = "text" /\ v.as = "places" /\ v.n \in 0..MOST_THOUSANDTHS
           \/ v.kind = "text" /\ v.as \notin {"digits", "places"}
<1>1. v = Null => v.kind = "null"
  BY Fields, SMT
<1>2. v = Number(v.n) => v.kind = "int"
  BY Fields, SMT
<1>3. v = Digits(v.n) => v.kind = "text" /\ v.as = "digits"
  BY Fields, SMT
<1>4. v = Bit(v.n) => v.kind = "bit"
  BY Fields, SMT
<1>5. v = Float(v.n) => v.kind = "float"
  BY Fields, SMT
<1>6. v = Decimal(v.n) => v.kind = "decimal"
  BY Fields, SMT
<1>7. v = Places(v.n) => v.kind = "text" /\ v.as = "places"
  BY Fields, SMT
<1>8. v = Word(v.as) => v.kind = "text" /\ v.n \in 0..MOST /\ v.n \in 0..MOST_THOUSANDTHS
  BY Fields, Bounds, SMT
<1>9. QED
  BY <1>1, <1>2, <1>3, <1>4, <1>5, <1>6, <1>7, <1>8, Zenon DEF IsValue

LEMMA ValuesAreNotRefused ==
    ASSUME NEW v, IsValue(v)
    PROVE  ~IsRefused(v)
BY Kinds, SMT DEF IsRefused

(* What kind of value it is says how it is worked out. *)
LEMMA Sorts ==
    ASSUME NEW v
    PROVE  /\ v.kind \in {"int", "bit"} => ~IsText(v) /\ ~IsFloating(v)
           /\ v.kind \in {"float", "decimal"} => ~IsText(v) /\ IsFloating(v)
           /\ v.kind = "text" => IsText(v)
           /\ v.as = "digits" => v.as # NoWord /\ v.as # "places"
           /\ v.as = "places" => v.as # NoWord /\ v.as # "digits"
<1>1. NoWord # "digits" /\ NoWord # "places"
  BY SMT DEF NoWord
<1>2. QED
  BY <1>1, SMT DEF IsText, IsFloating

LEMMA AsIntegerIs ==
    ASSUME NEW v
    PROVE  /\ v.kind \in {"int", "bit"} => AsInteger(v) = Number(v.n)
           /\ v.kind \in {"float", "decimal"} => AsInteger(v) = Number(v.n \div 1000)
           /\ v.kind = "text" /\ v.as = "digits" => AsInteger(v) = Number(v.n)
           /\ v.kind = "text" /\ v.as # "digits" =>
                AsInteger(v) \in {Number(0), Refused(CONVERSION_FAILED)}
<1>1. CASE ~IsText(v) /\ IsFloating(v)
  <2>1. AsInteger(v) = Number(v.n \div 1000)
    BY <1>1, SMT DEF AsInteger
  <2>2. QED
    BY <1>1, <2>1, Sorts
<1>2. CASE ~IsText(v) /\ ~IsFloating(v)
  <2>1. AsInteger(v) = Number(v.n)
    BY <1>2, SMT DEF AsInteger
  <2>2. QED
    BY <1>2, <2>1, Sorts
<1>3. CASE IsText(v)
  <2>1. /\ v.as = "digits" => AsInteger(v) = Number(v.n)
        /\ v.as # "digits" => AsInteger(v) \in {Number(0), Refused(CONVERSION_FAILED)}
    BY <1>3, Sorts, SMT DEF AsInteger
  <2>2. QED
    BY <1>3, <2>1, Sorts
<1>4. QED
  BY <1>1, <1>2, <1>3

LEMMA ThousandthsIs ==
    ASSUME NEW v
    PROVE  /\ v.kind \in {"int", "bit"} => Thousandths(v) = Float(v.n * 1000)
           /\ v.kind \in {"float", "decimal"} => Thousandths(v) = Float(v.n)
           /\ v.kind = "text" /\ v.as = "digits" => Thousandths(v) = Float(v.n * 1000)
           /\ v.kind = "text" /\ v.as = "places" => Thousandths(v) = Float(v.n)
           /\ v.kind = "text" /\ v.as \notin {"digits", "places"} =>
                Thousandths(v) \in {Float(0), Refused(CONVERSION_ERROR)}
<1>1. CASE ~IsText(v) /\ IsFloating(v)
  <2>1. Thousandths(v) = Float(v.n)
    BY <1>1, SMT DEF Thousandths
  <2>2. QED
    BY <1>1, <2>1, Sorts
<1>2. CASE ~IsText(v) /\ ~IsFloating(v)
  <2>1. Thousandths(v) = Float(v.n * 1000)
    BY <1>2, SMT DEF Thousandths
  <2>2. QED
    BY <1>2, <2>1, Sorts
<1>3. CASE IsText(v)
  <2>1. v.as = "digits" => Thousandths(v) = Float(v.n * 1000)
    BY <1>3, Sorts, SMT DEF Thousandths
  <2>2. v.as = "places" => Thousandths(v) = Float(v.n)
    BY <1>3, Sorts, SMT DEF Thousandths
  <2>3. v.as \notin {"digits", "places"} => Thousandths(v) \in {Float(0), Refused(CONVERSION_ERROR)}
    BY <1>3, Sorts, SMT DEF Thousandths
  <2>4. QED
    BY <1>3, <2>1, <2>2, <2>3, Sorts
<1>4. QED
  BY <1>1, <1>2, <1>3

LEMMA AsIntegerGives ==
    ASSUME NEW v, IsValue(v), ~IsNull(v)
    PROVE  \/ \E k \in 0..MOST : AsInteger(v) = Number(k)
           \/ AsInteger(v) = Refused(CONVERSION_FAILED) /\ IsText(v)
<1>1. CASE v.kind \in {"float", "decimal"} /\ v.n \in 0..MOST_THOUSANDTHS
  <2>1. v.n \div 1000 \in 0..MOST
    BY <1>1, Bounds, SMT
  <2>2. QED
    BY <1>1, <2>1, AsIntegerIs, SMT
<1>2. CASE v.kind \in {"int", "bit"} /\ v.n \in 0..MOST
  BY <1>2, AsIntegerIs, SMT
<1>3. CASE v.kind = "bit" /\ v.n \in 0..1
  <2>1. v.n \in 0..MOST
    BY <1>3, SMT DEF MOST
  <2>2. QED
    BY <1>2, <1>3, <2>1
<1>4. CASE v.kind = "text" /\ v.as = "digits" /\ v.n \in 0..MOST
  BY <1>4, AsIntegerIs, SMT
<1>5. CASE v.kind = "text" /\ v.as # "digits"
  <2>1. 0 \in 0..MOST
    BY Bounds, SMT
  <2>2. AsInteger(v) \in {Number(0), Refused(CONVERSION_FAILED)} /\ IsText(v)
    BY <1>5, AsIntegerIs, Sorts, SMT
  <2>3. QED
    BY <2>1, <2>2, Zenon
<1>6. QED
  BY <1>1, <1>2, <1>3, <1>4, <1>5, Kinds, Zenon DEF IsNull

LEMMA ThousandthsGives ==
    ASSUME NEW v, IsValue(v), ~IsNull(v)
    PROVE  \/ \E k \in 0..MOST_THOUSANDTHS : Thousandths(v) = Float(k)
           \/ Thousandths(v) = Refused(CONVERSION_ERROR) /\ IsText(v)
<1>1. ASSUME NEW k \in 0..MOST
      PROVE  k * 1000 \in 0..MOST_THOUSANDTHS
  BY Bounds, SMT
<1>2. CASE v.kind \in {"float", "decimal"} /\ v.n \in 0..MOST_THOUSANDTHS
  BY <1>2, ThousandthsIs, SMT
<1>3. CASE v.kind \in {"int", "bit"} /\ v.n \in 0..MOST
  BY <1>1, <1>3, ThousandthsIs, SMT
<1>4. CASE v.kind = "bit" /\ v.n \in 0..1
  <2>1. v.n \in 0..MOST
    BY <1>4, SMT DEF MOST
  <2>2. QED
    BY <1>3, <1>4, <2>1
<1>5. CASE v.kind = "text" /\ v.as = "digits" /\ v.n \in 0..MOST
  BY <1>1, <1>5, ThousandthsIs, SMT
<1>6. CASE v.kind = "text" /\ v.as = "places" /\ v.n \in 0..MOST_THOUSANDTHS
  BY <1>6, ThousandthsIs, SMT
<1>7. CASE v.kind = "text" /\ v.as \notin {"digits", "places"}
  <2>1. 0 \in 0..MOST_THOUSANDTHS
    BY Bounds, SMT
  <2>2. Thousandths(v) \in {Float(0), Refused(CONVERSION_ERROR)} /\ IsText(v)
    BY <1>7, ThousandthsIs, Sorts, SMT
  <2>3. QED
    BY <2>1, <2>2, Zenon
<1>8. QED
  BY <1>2, <1>3, <1>4, <1>5, <1>6, <1>7, Kinds, Zenon DEF IsNull

LEMMA RoundedGives ==
    ASSUME NEW k \in 0..MOST_THOUSANDTHS, NEW exact \in BOOLEAN
    PROVE  Rounded(k, exact) \in Nat /\ Rounded(k, exact) % 10 = 0
<1> DEFINE t == (k + (IF exact THEN 5 ELSE 4)) \div 10
<1>1. t \in Nat
  <2>1. k \in Nat
    BY Bounds, SMT
  <2> DEFINE h == k + (IF exact THEN 5 ELSE 4)
  <2>2. h \in Nat
    BY <2>1, SMT
  <2> HIDE DEF h
  <2>3. h \div 10 \in Nat
    BY <2>2, SMT
  <2> USE DEF h
  <2>4. QED
    BY <2>3
<1>2. Rounded(k, exact) = t * 10
  BY Zenon DEF Rounded
<1> HIDE DEF t
<1>3. QED
  BY <1>1, <1>2, SMT

LEMMA CutShortGives ==
    ASSUME NEW v, IsValue(v), IsText(v)
    PROVE  IsValue(CutShort(v)) /\ IsText(CutShort(v)) /\ Chars(CutShort(v)) <= VARCHAR_CHARS
<1>1. ASSUME NEW w \in {"ab", "cut"}
      PROVE  IsValue(Word(w)) /\ IsText(Word(w)) /\ Chars(Word(w)) <= VARCHAR_CHARS
  <2>1. Word(w).as = w /\ Word(w).kind = "text"
    BY Fields, SMT
  <2>3. Chars(Word(w)) = 2
    BY <1>1, <2>1, Zenon DEF Chars, NoWord
  <2>4. IsValue(Word(w))
    BY ValuesAreMade, Zenon
  <2>5. QED
    BY <2>1, <2>3, <2>4, SMT DEF IsText, VARCHAR_CHARS
<1>2. CASE v.as = "digits"
  <2>1. v.n \in 0..MOST
    BY <1>2, Kinds, SMT DEF IsText
  <2> DEFINE k == v.n \div 10
  <2>2. k \in 0..99 /\ k \in 0..MOST
    BY <2>1, Bounds, SMT
  <2>3. CutShort(v) = Digits(k)
    BY <1>2, Zenon DEF CutShort, Padded
  <2> HIDE DEF k
  <2>4. Digits(k).as = "digits" /\ Digits(k).kind = "text" /\ Digits(k).n = k
    BY Fields, SMT
  <2>5. IsValue(Digits(k))
    BY <2>2, ValuesAreMade, Zenon
  <2>6. Chars(Digits(k)) = IF k < 10 THEN 1 ELSE IF k < 100 THEN 2 ELSE 3
    BY <2>4, Zenon DEF Chars, NoWord
  <2>7. QED
    BY <2>2, <2>3, <2>4, <2>5, <2>6, SMT DEF IsText, VARCHAR_CHARS
<1>3. CASE v.as # "digits"
  <2>1. CutShort(v) \in {Word("ab"), Word("cut")}
    BY <1>3, Zenon DEF CutShort, Padded
  <2>2. QED
    BY <1>1, <2>1, Zenon
<1>4. QED
  BY <1>2, <1>3

LEMMA NumberAsTextGives ==
    ASSUME NEW v, IsValue(v), ~IsNull(v), ~IsText(v), NEW written \in BOOLEAN
    PROVE  IsText(NumberAsText(v, written)) /\ IsValue(NumberAsText(v, written))
<1>1. ASSUME NEW k \in 0..MOST
      PROVE  IsText(Digits(k)) /\ IsValue(Digits(k))
  BY Fields, ValuesAreMade, SMT DEF IsText
<1>2. ASSUME NEW k \in 0..MOST_THOUSANDTHS
      PROVE  IsText(Places(k)) /\ IsValue(Places(k)) /\ k \div 1000 \in 0..MOST
  BY Fields, ValuesAreMade, Bounds, SMT DEF IsText
<1>3. CASE IsFloating(v)
  <2>1. v.n \in 0..MOST_THOUSANDTHS
    BY <1>3, Kinds, SMT DEF IsFloating
  <2> DEFINE k == v.n \div 1000
  <2>2. NumberAsText(v, written) = Digits(k) \/ NumberAsText(v, written) = Places(v.n)
    BY <1>3, SMT DEF NumberAsText
  <2>3. k \in 0..MOST
    BY <1>2, <2>1
  <2> HIDE DEF k
  <2>4. QED
    BY <1>1, <1>2, <2>1, <2>2, <2>3, SMT
<1>4. CASE ~IsFloating(v)
  <2>1. v.n \in 0..MOST
    <3>1. 0..1 \subseteq 0..MOST
      BY SMT DEF MOST
    <3>2. QED
      BY <1>4, <3>1, Kinds, SMT DEF IsFloating, IsNull, IsText
  <2>2. NumberAsText(v, written) = Digits(v.n)
    BY <1>4, Zenon DEF NumberAsText
  <2>3. QED
    BY <1>1, <2>1, <2>2, Zenon
<1>5. QED
  BY <1>3, <1>4

LEMMA ToTextGives ==
    ASSUME NEW v, IsValue(v), ~IsNull(v), NEW written \in BOOLEAN
    PROVE  Fits(ToText(v, written), "VARCHAR")
<1>1. CASE IsText(v)
  <2>1. CASE Chars(v) <= VARCHAR_CHARS
    BY <1>1, <2>1, Zenon DEF ToText, Fits, HeldBy
  <2>2. CASE ~(Chars(v) <= VARCHAR_CHARS)
    <3>1. ToText(v, written) = CutShort(v)
      BY <1>1, <2>2, Zenon DEF ToText
    <3>2. IsValue(CutShort(v)) /\ IsText(CutShort(v)) /\ Chars(CutShort(v)) <= VARCHAR_CHARS
      BY <1>1, CutShortGives, Zenon
    <3>3. QED
      BY <3>1, <3>2, Zenon DEF Fits, HeldBy
  <2>3. QED
    BY <2>1, <2>2
<1>2. CASE ~IsText(v)
  <2>1. IsText(NumberAsText(v, written)) /\ IsValue(NumberAsText(v, written))
    BY <1>2, NumberAsTextGives, Zenon
  <2>2. Fits(NumberTooLong(v, written), "VARCHAR")
    <3>1. Wrong(Refused(ARITHMETIC_OVERFLOW)) /\ Wrong(Refused(OVERFLOW_FOR_A_VALUE))
      BY Fields, SMT DEF Wrong, IsRefused, ARITHMETIC_OVERFLOW, OVERFLOW_FOR_A_VALUE
    <3>2. Word("*").as = "*" /\ Word("*").kind = "text"
      BY Fields, SMT
    <3>3. IsValue(Word("*"))
      BY ValuesAreMade, Zenon
    <3>4. Chars(Word("*")) = 1
      BY <3>2, Zenon DEF Chars, NoWord
    <3>5. Chars(Word("*")) <= VARCHAR_CHARS
      BY <3>4, SMT DEF VARCHAR_CHARS
    <3>6. QED
      BY <3>1, <3>2, <3>3, <3>5, Zenon DEF NumberTooLong, Fits, HeldBy, IsText
  <2>3. QED
    BY <1>2, <2>1, <2>2, Zenon DEF ToText, Fits, HeldBy
<1>3. QED
  BY <1>1, <1>2

LEMMA CastGives ==
    ASSUME NEW v, IsValue(v), NEW type \in Types, NEW written \in BOOLEAN
    PROVE  Fits(CastTo(v, type, written), type)
<1>1. CASE IsNull(v) \/ type = AsGiven
  BY <1>1, Zenon DEF CastTo, Fits, HeldBy
<1>2. CASE ~IsNull(v) /\ type # AsGiven
  <2>0. ~IsRefused(v)
    BY ValuesAreNotRefused
  <2>1. CASE type = "INT"
    <3>1. CastTo(v, type, written) = AsInteger(v)
      BY <1>2, <2>0, <2>1, Zenon DEF CastTo
    <3>2. Wrong(Refused(CONVERSION_FAILED))
      BY Fields, SMT DEF Wrong, IsRefused, CONVERSION_FAILED
    <3>3. ASSUME NEW k \in 0..MOST
          PROVE  Fits(Number(k), "INT")
      BY ValuesAreMade, Fields, SMT DEF Fits, HeldBy
    <3>4. QED
      BY <1>2, <2>1, <3>1, <3>2, <3>3, AsIntegerGives, Zenon DEF Fits
  <2>2. CASE type = "TINYINT"
    <3>1. CastTo(v, type, written) = ToTinyint(v, AsInteger(v))
      BY <1>2, <2>0, <2>2, Zenon DEF CastTo
    <3>2. /\ Wrong(Refused(CONVERSION_FAILED)) /\ Wrong(Refused(OVERFLOW_FOR_A_TYPE))
          /\ Wrong(Refused(OVERFLOWED_A_NARROW_COLUMN))
      BY Fields, SMT DEF Wrong, IsRefused, CONVERSION_FAILED, OVERFLOW_FOR_A_TYPE,
                         OVERFLOWED_A_NARROW_COLUMN
    <3>3. ASSUME NEW k \in 0..MOST
          PROVE  IsValue(Number(k)) /\ Number(k).n = k /\ Number(k).kind = "int" /\ ~IsRefused(Number(k))
      BY ValuesAreMade, Fields, SMT DEF IsRefused
    <3>4. IsRefused(Refused(CONVERSION_FAILED))
      BY Fields, SMT DEF IsRefused
    <3>5. CASE AsInteger(v) = Refused(CONVERSION_FAILED)
      BY <2>2, <3>1, <3>2, <3>4, <3>5, Zenon DEF Fits, ToTinyint
    <3>6. ASSUME NEW k \in 0..MOST, AsInteger(v) = Number(k)
          PROVE  Fits(CastTo(v, type, written), type)
      BY <2>2, <3>1, <3>2, <3>3, <3>6, Zenon DEF Fits, ToTinyint, HeldBy
    <3>7. QED
      BY <1>2, <3>5, <3>6, AsIntegerGives, Zenon
  <2>3. CASE type = "BIT"
    <3>1. CastTo(v, type, written) = ToBit(v, AsInteger(v))
      BY <1>2, <2>0, <2>3, Zenon DEF CastTo
    <3>2. Wrong(Refused(CONVERSION_FAILED))
      BY Fields, SMT DEF Wrong, IsRefused, CONVERSION_FAILED
    <3>3. ASSUME NEW k \in {0, 1}
          PROVE  Fits(Bit(k), "BIT")
      <4>1. k \in 0..1
        BY SMT
      <4>2. IsValue(Bit(k)) /\ Bit(k).n = k /\ Bit(k).kind = "bit"
        BY <4>1, ValuesAreMade, Fields, SMT
      <4>3. QED
        BY <4>2, Zenon DEF Fits, HeldBy
    <3>4. \A k \in 0..MOST : ~IsRefused(Number(k))
      BY Fields, SMT DEF IsRefused
    <3>5. ToBit(v, AsInteger(v)) \in {Bit(0), Bit(1), AsInteger(v)}
      BY Zenon DEF ToBit
    <3>6. ~IsRefused(AsInteger(v)) => ToBit(v, AsInteger(v)) \in {Bit(0), Bit(1)}
      BY Zenon DEF ToBit
    <3>7. QED
      BY <1>2, <2>3, <3>1, <3>2, <3>3, <3>4, <3>5, <3>6, AsIntegerGives, Zenon DEF Fits
  <2>4. CASE type = "FLOAT"
    <3>1. CastTo(v, type, written) = Thousandths(v)
      BY <1>2, <2>0, <2>4, Zenon DEF CastTo
    <3>2. Wrong(Refused(CONVERSION_ERROR))
      BY Fields, SMT DEF Wrong, IsRefused, CONVERSION_ERROR
    <3>3. ASSUME NEW k \in 0..MOST_THOUSANDTHS
          PROVE  Fits(Float(k), "FLOAT")
      BY ValuesAreMade, Fields, SMT DEF Fits, HeldBy, IsFloating
    <3>4. QED
      BY <1>2, <2>4, <3>1, <3>2, <3>3, ThousandthsGives, Zenon DEF Fits
  <2>5. CASE type = "DECIMAL"
    <3>1. CastTo(v, type, written) = ToPlaces(v, Thousandths(v), written)
      BY <1>2, <2>0, <2>5, Zenon DEF CastTo
    <3>2. /\ Wrong(Refused(CONVERSION_ERROR)) /\ Wrong(Refused(ARITHMETIC_OVERFLOW))
          /\ IsRefused(Refused(CONVERSION_ERROR))
      BY Fields, SMT DEF Wrong, IsRefused, CONVERSION_ERROR, ARITHMETIC_OVERFLOW
    <3>3. CASE Thousandths(v) = Refused(CONVERSION_ERROR)
      BY <2>5, <3>1, <3>2, <3>3, Zenon DEF Fits, ToPlaces
    <3>4. ASSUME NEW m \in 0..MOST_THOUSANDTHS, Thousandths(v) = Float(m)
          PROVE  Fits(CastTo(v, type, written), type)
      <4> DEFINE exact == written \/ ~IsFloating(v)
                 k == Rounded(m, exact)
      <4>1. Float(m).n = m /\ ~IsRefused(Float(m))
        BY Fields, SMT DEF IsRefused
      <4>2. exact \in BOOLEAN
        BY Zenon
      <4>3. CastTo(v, type, written) =
              IF k >= DECIMAL_END THEN Refused(ARITHMETIC_OVERFLOW) ELSE Decimal(k)
        BY <3>1, <3>4, <4>1, Zenon DEF ToPlaces
      <4> HIDE DEF exact
      <4>4. k \in Nat /\ k % 10 = 0
        BY <4>2, RoundedGives
      <4> HIDE DEF k
      <4>5. DECIMAL_END \in Nat /\ DECIMAL_END <= MOST_THOUSANDTHS
        <5>1. DECIMAL_END \in Nat /\ DECIMAL_END = 10 * 1000
          BY SMT DEF DECIMAL_END
        <5>2. MOST >= 10
          BY SMT DEF MOST
        <5>3. QED
          BY <5>1, <5>2, Bounds, SMT
      <4>6. CASE k < DECIMAL_END
        <5>1. k \in 0..MOST_THOUSANDTHS /\ ~(k >= DECIMAL_END)
          BY <4>4, <4>5, <4>6, Bounds, SMT
        <5>2. IsValue(Decimal(k)) /\ Decimal(k).n = k /\ Decimal(k).kind = "decimal"
          BY <5>1, ValuesAreMade, Fields, SMT
        <5>3. QED
          BY <2>5, <4>3, <4>4, <4>6, <5>1, <5>2, Zenon DEF Fits, HeldBy
      <4>7. CASE k >= DECIMAL_END
        BY <3>2, <4>3, <4>7, Zenon DEF Fits
      <4>8. k < DECIMAL_END \/ k >= DECIMAL_END
        BY <4>4, <4>5, SMT
      <4>9. QED
        BY <4>6, <4>7, <4>8
    <3>5. QED
      BY <1>2, <3>3, <3>4, ThousandthsGives, Zenon
  <2>6. CASE type = "VARCHAR"
    <3>1. CastTo(v, type, written) = ToText(v, written)
      BY <1>2, <2>0, <2>6, Zenon DEF CastTo
    <3>2. QED
      BY <1>2, <2>6, <3>1, ToTextGives, Zenon
  <2>7. QED
    BY <1>2, <2>1, <2>2, <2>3, <2>4, <2>5, <2>6, Zenon DEF Types
<1>3. QED
  BY <1>1, <1>2

LEMMA CastOfAResult ==
    ASSUME NEW v, Result(v), NEW type \in Types, NEW written \in BOOLEAN
    PROVE  Fits(CastTo(v, type, written), type)
<1>1. CASE IsValue(v)
  BY <1>1, CastGives
<1>2. CASE Wrong(v)
  BY <1>2, Zenon DEF CastTo, Wrong, Fits
<1>3. QED
  BY <1>1, <1>2 DEF Result

LEMMA IntoGives ==
    ASSUME NEW v, IsValue(v), NEW type \in Types
    PROVE  Fits(IntoAColumn(v, type), type)
<1>1. Fits(CastTo(v, type, v.kind = "decimal"), type)
  <2>1. (v.kind = "decimal") \in BOOLEAN
    OBVIOUS
  <2>2. QED
    BY <2>1, CastGives
<1>2. Wrong(Refused(TRUNCATED_IN_A_TABLE))
  BY Fields, SMT DEF Wrong, IsRefused, TRUNCATED_IN_A_TABLE
<1>3. QED
  BY <1>1, <1>2, Zenon DEF IntoAColumn, Fits
-------------------------------------------------------------------------------
(* What a connection holds.                                                *)

(* A table that is made has a type for each column; every value it holds is *)
(* one, and one its column's type can be.                                   *)
TableOK(t) ==
    /\ t = [types |-> t.types, rows |-> t.rows, next |-> t.next]
    /\ t.next \in 1..MaxRows + 1
    /\ DOMAIN t.rows \subseteq 1..t.next - 1
    /\ t.types # <<>> => t.types \in [COLUMNS -> Types]
    /\ t.types = <<>> => t.rows = <<>>
    /\ \A i \in DOMAIN t.rows : \A c \in COLUMNS :
         IsValue(t.rows[i][c]) /\ HeldBy(t.rows[i][c], t.types[c])
VariableOK(x) ==
    /\ x = [type |-> x.type, value |-> x.value]
    /\ x.type \in Types \cup {None}
    /\ IsValue(x.value)
    /\ x.type # None => HeldBy(x.value, x.type)
IInv ==
    /\ tables = [name \in Tables |-> tables[name]]
    /\ \A name \in Tables : TableOK(tables[name])
    /\ VariableOK(variable)
    /\ count \in 0..MaxRows

-------------------------------------------------------------------------------
(* What a statement reads.                                                 *)

(* What is known to a read, and what is known without one, are values.      *)
Known(known) == IsValue(known.variable) /\ IsValue(known.count)

LEMMA ReadsKnow ==
    ASSUME IInv
    PROVE  Known(InARead) /\ Known(WithoutARead)
<1>1. IsValue(variable.value)
  BY Zenon DEF IInv, VariableOK
<1>2. IsValue(Number(count))
  <2>1. count \in 0..MOST
    BY LimitsAssumption, Bounds, SMT DEF IInv
  <2>2. QED
    BY <2>1, ValuesAreMade, Zenon
<1>3. IsValue(Null)
  BY ValuesAreMade, Zenon
<1>4. InARead.variable = variable.value /\ InARead.count = Number(count)
  BY SMT DEF InARead
<1>5. WithoutARead.variable = variable.value /\ WithoutARead.count = Null
  BY SMT DEF WithoutARead
<1>6. QED
  BY <1>1, <1>2, <1>3, <1>4, <1>5, Zenon DEF Known

LEMMA AtomGives ==
    ASSUME NEW columns, NEW e, IsAtom(e, columns), NEW row, NEW known, Known(known),
           \A c \in columns : IsValue(row[c])
    PROVE  IsValue(Atom(e, row, known))
<1>1. CASE e[1] = "literal"
  BY <1>1, Zenon DEF Atom, IsAtom
<1>2. CASE e[1] = "column"
  BY <1>2, Zenon DEF Atom, IsAtom
<1>3. CASE e[1] = "variable"
  BY <1>3, Zenon DEF Atom, Known
<1>4. CASE e[1] = "count"
  BY <1>4, Zenon DEF Atom, Known
<1>5. QED
  BY <1>1, <1>2, <1>3, <1>4, Zenon DEF IsAtom

(* An expression gives a value or is refused, with a number.                *)
LEMMA EvaluateGives ==
    ASSUME NEW columns, NEW e, IsExpression(e, columns), NEW row, NEW known, Known(known),
           \A c \in columns : IsValue(row[c])
    PROVE  Result(Evaluate(e, row, known))
<1>1. CASE e[1] = "int"
  <2>1. IsValue(Atom(e[2], row, known))
    BY <1>1, AtomGives, Zenon DEF IsExpression
  <2>2. "INT" \in Types /\ FALSE \in BOOLEAN
    BY Zenon DEF Types
  <2>3. Fits(CastTo(Atom(e[2], row, known), "INT", FALSE), "INT")
    BY <2>1, <2>2, CastGives, Zenon
  <2>4. QED
    BY <1>1, <2>3, Zenon DEF Evaluate, Fits, Result
<1>2. CASE e[1] # "int"
  <2>1. IsValue(Atom(e, row, known))
    BY <1>2, AtomGives, Zenon DEF IsExpression
  <2>2. QED
    BY <1>2, <2>1, Zenon DEF Evaluate, Result
<1>3. QED
  BY <1>1, <1>2

(* A condition that is refused is refused with a number.                    *)
LEMMA ConditionGives ==
    ASSUME NEW w, IsCondition(w), NEW row, NEW known, \A c \in COLUMNS : IsValue(row[c]),
           IsRefused(Condition(w, row, known))
    PROVE  Condition(w, row, known).n # 0
<1>1. ~IsRefused(True) /\ ~IsRefused(Unknown) /\ \A b : ~IsRefused(Truth(b))
  BY SMT DEF IsRefused, True, Unknown, Truth
<1>2. CASE w[1] = "always"
  BY <1>1, <1>2, Zenon DEF Condition
<1>3. CASE w[1] = "null"
  BY <1>1, <1>3, Zenon DEF Condition
<1>4. CASE w[1] = "above"
  <2> DEFINE v == CastTo(row[w[2]], "INT", FALSE)
  <2>1. w[2] \in COLUMNS
    BY <1>4, Zenon DEF IsCondition
  <2>2. "INT" \in Types /\ FALSE \in BOOLEAN
    BY Zenon DEF Types
  <2>3. Fits(v, "INT")
    BY <2>1, <2>2, CastGives, Zenon
  <2>4. Condition(w, row, known) = IF IsRefused(v) THEN v ELSE IF IsNull(v) THEN Unknown ELSE Truth(v.n > w[3])
    BY <1>4, Zenon DEF Condition
  <2> HIDE DEF v
  <2>5. IsRefused(v)
    BY <1>1, <2>4, Zenon
  <2>6. QED
    BY <2>3, <2>4, <2>5, ValuesAreNotRefused, Zenon DEF Fits, Wrong
<1>5. QED
  BY <1>2, <1>3, <1>4, Zenon DEF IsCondition

(* Rows that are not refused have nothing in them that is.                  *)
LEMMA NoneRefused ==
    ASSUME NEW rows, DOMAIN rows \subseteq Nat,
           \A i \in DOMAIN rows : DOMAIN rows[i] \subseteq Nat,
           \A i \in DOMAIN rows : \A p \in DOMAIN rows[i] : IsRefused(rows[i][p]) => rows[i][p].n # 0,
           RefusedIn(rows) = 0
    PROVE  \A i \in DOMAIN rows : \A p \in DOMAIN rows[i] : ~IsRefused(rows[i][p])
<1> DEFINE refusing == {i \in DOMAIN rows : \E p \in DOMAIN rows[i] : IsRefused(rows[i][p])}
           row == rows[First(refusing)]
           those == {p \in DOMAIN row : IsRefused(row[p])}
<1>1. RefusedIn(rows) = IF refusing = {} THEN 0 ELSE row[First(those)].n
  BY Zenon DEF RefusedIn
<1>2. ASSUME refusing # {}
      PROVE  FALSE
  <2>1. First(refusing) \in refusing
    <3>1. refusing \subseteq Nat
      BY Zenon
    <3> HIDE DEF refusing
    <3>2. QED
      BY <1>2, <3>1, FirstIsOne, Zenon
  <2>2. First(refusing) \in DOMAIN rows /\ \E p \in DOMAIN row : IsRefused(row[p])
    BY <2>1, Zenon
  <2>3. those # {} /\ those \subseteq Nat
    BY <2>2, Zenon
  <2>4. First(those) \in those
    <3> HIDE DEF those
    <3>1. QED
      BY <2>3, FirstIsOne, Zenon
  <2>5. row[First(those)].n # 0
    BY <2>2, <2>4, Zenon
  <2>6. QED
    BY <1>1, <1>2, <2>5, Zenon
<1>3. QED
  BY <1>2, Zenon

(* ---- the column a SELECT makes ------------------------------------------*)

LEMMA ServedAsItIs ==
    ASSUME NEW v, NEW type \in Types, HeldBy(v, type)
    PROVE  HeldBy(v, DeclarationOf(ServedAs(type)))
<1>1. CASE type \in {"TINYINT", "INT"}
  <2>1. DeclarationOf(ServedAs(type)) = "INT"
    BY <1>1, Zenon DEF DeclarationOf, ServedAs
  <2>2. QED
    BY <1>1, <2>1, Zenon DEF HeldBy, AsGiven
<1>2. CASE type \in {"FLOAT", "DECIMAL"}
  <2>1. DeclarationOf(ServedAs(type)) = "FLOAT"
    BY <1>2, Zenon DEF DeclarationOf, ServedAs
  <2>2. QED
    BY <1>2, <2>1, Zenon DEF HeldBy, AsGiven, IsFloating
<1>3. CASE type = "BIT"
  <2>1. DeclarationOf(ServedAs(type)) = "BIT"
    BY <1>3, Zenon DEF DeclarationOf, ServedAs
  <2>2. QED
    BY <1>3, <2>1, Zenon
<1>4. CASE type \in {"VARCHAR", AsGiven}
  <2>1. DeclarationOf(ServedAs(type)) = AsGiven
    BY <1>4, Zenon DEF DeclarationOf, ServedAs, AsGiven
  <2>2. QED
    BY <2>1, Zenon DEF HeldBy
<1>5. QED
  BY <1>1, <1>2, <1>3, <1>4, Zenon DEF Types

LEMMA NullIsHeld ==
    ASSUME NEW v, IsNull(v), NEW type
    PROVE  HeldBy(v, type)
BY Zenon DEF HeldBy

(* A value as text in Python is a value. *)
LEMMA AsPythonGives ==
    ASSUME NEW v, IsValue(v), ~IsNull(v)
    PROVE  IsValue(AsPython(v))
<1>1. CASE v.kind = "text"
  BY <1>1, Zenon DEF AsPython, IsText
<1>2. CASE v.kind = "bit"
  BY <1>2, ValuesAreMade, Zenon DEF AsPython, IsText
<1>3. CASE v.kind = "int" /\ v.n \in 0..MOST
  BY <1>3, ValuesAreMade, Zenon DEF AsPython, IsText
<1>4. CASE v.kind \in {"float", "decimal"} /\ v.n \in 0..MOST_THOUSANDTHS
  BY <1>4, ValuesAreMade, Zenon DEF AsPython, IsText
<1>5. QED
  BY <1>1, <1>2, <1>3, <1>4, Kinds, Zenon DEF IsNull

(* A column's values are made what its kind is, and its kind is one that    *)
(* its values can be made.                                                  *)
LEMMA InColumnGives ==
    ASSUME NEW values, \A w \in values : IsValue(w), NEW v \in values,
           NEW kind, (\A w \in values : IsNull(w)) \/ kind = KindOfColumn(values)
    PROVE  IsValue(InColumn(v, kind)) /\ HeldBy(InColumn(v, kind), DeclarationOf(kind))
<1>1. CASE IsNull(v)
  <2>1. InColumn(v, kind) = v
    BY <1>1, Zenon DEF InColumn
  <2>2. QED
    BY <1>1, <2>1, NullIsHeld, Zenon
<1>2. CASE ~IsNull(v)
  <2> DEFINE kinds == {w.kind : w \in {u \in values : ~IsNull(u)}}
  <2>1. v.kind \in kinds
    BY <1>2, Zenon
  <2>2. kind = CASE kinds = {"bit"} -> "bit"
                 [] kinds = {"int"} -> "int"
                 [] kinds # {"int"} /\ kinds \subseteq {"int", "float", "decimal"} -> "float"
                 [] OTHER -> "text"
    BY <1>2, Zenon DEF KindOfColumn
  <2> HIDE DEF kinds
  <2>3. CASE kinds = {"bit"}
    <3>1. kind = "bit"
      <4>1. kinds # {"int"} /\ ~(kinds \subseteq {"int", "float", "decimal"})
        BY <2>3, SMT
      <4>2. QED
        BY <2>2, <2>3, <4>1, Zenon
    <3>2. v.kind = "bit"
      BY <2>1, <2>3, Zenon
    <3>3. InColumn(v, kind) = v /\ DeclarationOf(kind) = "BIT"
      BY <1>2, <3>1, Zenon DEF InColumn, DeclarationOf
    <3>4. v.n \in {0, 1}
      BY <3>2, Kinds, SMT
    <3>5. QED
      BY <3>2, <3>3, <3>4, Zenon DEF HeldBy
  <2>4. CASE kinds = {"int"}
    <3>1. kind = "int"
      <4>1. kinds # {"bit"}
        BY <2>4, SMT
      <4>2. QED
        BY <2>2, <2>4, <4>1, Zenon
    <3>2. v.kind = "int"
      BY <2>1, <2>4, Zenon
    <3>3. InColumn(v, kind) = v /\ DeclarationOf(kind) = "INT"
      BY <1>2, <3>1, Zenon DEF InColumn, DeclarationOf
    <3>4. QED
      BY <3>2, <3>3, Zenon DEF HeldBy
  <2>5. CASE kinds # {"int"} /\ kinds \subseteq {"int", "float", "decimal"}
    <3>1. kind = "float"
      <4>1. kinds # {"bit"}
        BY <2>5, SMT
      <4>2. QED
        BY <2>2, <2>5, <4>1, Zenon
    <3>2. ~IsText(v)
      BY <2>1, <2>5, SMT DEF IsText
    <3>3. InColumn(v, kind) = Thousandths(v) /\ DeclarationOf(kind) = "FLOAT"
      BY <1>2, <3>1, Zenon DEF InColumn, DeclarationOf
    <3>4. PICK k \in 0..MOST_THOUSANDTHS : Thousandths(v) = Float(k)
      BY <1>2, <3>2, ThousandthsGives, Zenon
    <3>5. IsValue(Float(k)) /\ IsFloating(Float(k))
      BY ValuesAreMade, Fields, SMT DEF IsFloating
    <3>6. QED
      BY <3>3, <3>4, <3>5, Zenon DEF HeldBy
  <2>6. CASE /\ kinds # {"bit"} /\ kinds # {"int"}
             /\ ~(kinds # {"int"} /\ kinds \subseteq {"int", "float", "decimal"})
    <3>1. kind = "text"
      BY <2>2, <2>6, Zenon
    <3>2. InColumn(v, kind) = AsPython(v) /\ DeclarationOf(kind) = AsGiven
      BY <1>2, <3>1, Zenon DEF InColumn, DeclarationOf
    <3>3. QED
      BY <1>2, <3>2, AsPythonGives, Zenon DEF HeldBy
  <2>7. QED
    BY <2>3, <2>4, <2>5, <2>6
<1>3. QED
  BY <1>1, <1>2

(* Values of one kind are made a column of as they are.                     *)
LEMMA OneKindIsKept ==
    ASSUME NEW values, \A w \in values : IsValue(w), NEW v \in values,
           NEW same \in {"int", "float", "bit", "text"}, \A w \in values : w.kind \in {same, "null"},
           NEW kind, (\A w \in values : IsNull(w)) \/ kind = KindOfColumn(values)
    PROVE  InColumn(v, kind) = v
<1>1. CASE IsNull(v)
  BY <1>1, Zenon DEF InColumn
<1>2. CASE ~IsNull(v)
  <2> DEFINE kinds == {w.kind : w \in {u \in values : ~IsNull(u)}}
  <2>1. v.kind \in kinds /\ \A k \in kinds : k = same
    BY <1>2, Zenon DEF IsNull
  <2>2. kind = CASE kinds = {"bit"} -> "bit"
                 [] kinds = {"int"} -> "int"
                 [] kinds # {"int"} /\ kinds \subseteq {"int", "float", "decimal"} -> "float"
                 [] OTHER -> "text"
    BY <1>2, Zenon DEF KindOfColumn
  <2> HIDE DEF kinds
  <2>3. kinds = {same} /\ v.kind = same
    BY <2>1, SMT
  <2>4. CASE same = "bit"
    <3>1. kinds = {"bit"} /\ kinds # {"int"} /\ ~(kinds \subseteq {"int", "float", "decimal"})
      BY <2>3, <2>4, SMT
    <3>2. kind = "bit"
      BY <2>2, <3>1, Zenon
    <3>3. QED
      BY <1>2, <3>2, Zenon DEF InColumn
  <2>5. CASE same = "int"
    <3>1. kinds = {"int"} /\ kinds # {"bit"}
      BY <2>3, <2>5, SMT
    <3>2. kind = "int"
      BY <2>2, <3>1, Zenon
    <3>3. QED
      BY <1>2, <3>2, Zenon DEF InColumn
  <2>6. CASE same = "float"
    <3>1. kinds # {"int"} /\ kinds # {"bit"} /\ kinds \subseteq {"int", "float", "decimal"}
      BY <2>3, <2>6, SMT
    <3>2. kind = "float"
      BY <2>2, <3>1, Zenon
    <3>3. InColumn(v, kind) = Float(v.n)
      <4>1. v.kind = "float"
        BY <2>3, <2>6
      <4>2. Thousandths(v) = Float(v.n)
        BY <4>1, ThousandthsIs, SMT
      <4>3. QED
        BY <1>2, <3>2, <4>2, Zenon DEF InColumn
    <3>4. v = Float(v.n)
      BY <2>3, <2>6, Fields, SMT DEF IsValue
    <3>5. QED
      BY <3>3, <3>4
  <2>7. CASE same = "text"
    <3>1. kinds # {"int"} /\ kinds # {"bit"} /\ ~(kinds \subseteq {"int", "float", "decimal"})
      BY <2>3, <2>7, SMT
    <3>2. kind = "text"
      BY <2>2, <3>1, Zenon
    <3>3. QED
      BY <1>2, <2>3, <2>7, <3>2, Zenon DEF InColumn, AsPython, IsText
  <2>8. QED
    BY <2>4, <2>5, <2>6, <2>7
<1>3. QED
  BY <1>1, <1>2

(* A column taken as it is holds what it held, and what is worked out is    *)
(* what the column is made of.                                              *)
LEMMA MadeGives ==
    ASSUME NEW table, NEW e, NEW asItIs \in BOOLEAN, NEW values, \A w \in values : IsValue(w),
           NEW v \in values,
           asItIs /\ e[1] = "column" =>
             table.types[e[2]] \in Types /\ HeldBy(v, table.types[e[2]])
    PROVE  LET kind == MadeKind(e, values, table, asItIs)
           IN /\ IsValue(MadeValue(e, v, kind, asItIs))
              /\ HeldBy(MadeValue(e, v, kind, asItIs), DeclarationOf(kind))
<1> DEFINE kind == MadeKind(e, values, table, asItIs)
<1>1. CASE asItIs /\ e[1] = "column"
  <2>1. kind = ServedAs(table.types[e[2]])
    BY <1>1, Zenon DEF MadeKind
  <2> HIDE DEF kind
  <2>2. MadeValue(e, v, kind, asItIs) = v
    BY <1>1, Zenon DEF MadeValue
  <2>3. HeldBy(v, DeclarationOf(kind))
    BY <1>1, <2>1, ServedAsItIs, Zenon
  <2> USE DEF kind
  <2>4. QED
    BY <2>2, <2>3, Zenon
<1>2. CASE ~(asItIs /\ e[1] = "column")
  <2>1. (\A w \in values : IsNull(w)) \/ kind = KindOfColumn(values)
    BY <1>2, Zenon DEF MadeKind
  <2> HIDE DEF kind
  <2>2. MadeValue(e, v, kind, asItIs) = InColumn(v, kind)
    BY <1>2, Zenon DEF MadeValue
  <2>3. IsValue(InColumn(v, kind)) /\ HeldBy(InColumn(v, kind), DeclarationOf(kind))
    BY <2>1, InColumnGives
  <2> USE DEF kind
  <2>4. QED
    BY <2>2, <2>3, Zenon
<1>3. QED
  BY <1>1, <1>2

(* A column keeps its values where it is taken as it is, and where they are *)
(* of one kind.                                                             *)
LEMMA MadeKeeps ==
    ASSUME NEW table, NEW e, e[1] = "column", NEW asItIs \in BOOLEAN,
           NEW values, \A w \in values : IsValue(w), NEW v \in values,
           asItIs \/ \E same \in {"int", "float", "bit", "text"} :
                       \A w \in values : w.kind \in {same, "null"}
    PROVE  MadeValue(e, v, MadeKind(e, values, table, asItIs), asItIs) = v
<1>1. CASE asItIs
  BY <1>1, Zenon DEF MadeValue
<1>2. CASE ~asItIs
  <2> DEFINE kind == MadeKind(e, values, table, asItIs)
  <2>1. (\A w \in values : IsNull(w)) \/ kind = KindOfColumn(values)
    BY <1>2, Zenon DEF MadeKind
  <2> HIDE DEF kind
  <2>2. InColumn(v, kind) = v
    BY <1>2, <2>1, OneKindIsKept, Zenon
  <2>3. MadeValue(e, v, kind, asItIs) = InColumn(v, kind)
    BY <1>2, Zenon DEF MadeValue
  <2> USE DEF kind
  <2>4. QED
    BY <2>2, <2>3, Zenon
<1>3. QED
  BY <1>1, <1>2

(* ---- a SELECT -----------------------------------------------------------*)

LEMMA EachGives ==
    ASSUME IInv, NEW table, TableOK(table), NEW items, AreExpressions(items, COLUMNS),
           NEW i \in DOMAIN table.rows, NEW p \in DOMAIN items
    PROVE  Result(Evaluate(items[p], table.rows[i], InARead))
<1>1. IsExpression(items[p], COLUMNS)
  BY Zenon DEF AreExpressions
<1>2. \A c \in COLUMNS : IsValue(table.rows[i][c])
  BY Zenon DEF TableOK
<1>3. QED
  BY <1>1, <1>2, ReadsKnow, EvaluateGives, Zenon

(* Each column a SELECT answers with holds values of its kind, and one that *)
(* is taken as it is, or is of one kind, the table's own.                   *)
AnswersAsRead(read, items, table, places, asItIs) ==
    /\ DOMAIN read.rows = places
    /\ \A i \in places : DOMAIN read.rows[i] = DOMAIN items
    /\ \A i \in places : \A p \in DOMAIN items :
         /\ IsValue(read.rows[i][p])
         /\ HeldBy(read.rows[i][p], DeclarationOf(read.kinds[p]))
         /\ items[p][1] = "column" /\ (asItIs \/ OfOneKind(table, items[p][2])) =>
              read.rows[i][p] = table.rows[i][items[p][2]]

(* So it does where nothing that was asked for is refused.                  *)
LEMMA ReadingGives ==
    ASSUME IInv, NEW table, TableOK(table), NEW items, AreExpressions(items, COLUMNS),
           NEW places, places \subseteq DOMAIN table.rows, NEW asItIs \in BOOLEAN,
           \A i \in places : \A p \in DOMAIN items :
             ~IsRefused(Evaluate(items[p], table.rows[i], InARead))
    PROVE  AnswersAsRead(Reading(items, table, places, asItIs), items, table, places, asItIs)
<1> DEFINE given == [i \in places |-> [p \in DOMAIN items |-> Evaluate(items[p], table.rows[i], InARead)]]
           kinds == [p \in DOMAIN items |-> MadeKind(items[p], {given[i][p] : i \in places}, table, asItIs)]
           rows == [i \in places |-> [p \in DOMAIN items |->
                      MadeValue(items[p], given[i][p], kinds[p], asItIs)]]
           read == Reading(items, table, places, asItIs)
<1>1. read = [refused |-> RefusedIn(given), kinds |-> kinds, rows |-> rows]
  BY Zenon DEF Reading
<1>2. read.rows = rows /\ read.kinds = kinds
  <2> HIDE DEF read, rows, kinds, given
  <2>1. QED
    BY <1>1, SMT
<1>3. ASSUME NEW i \in places, NEW p \in DOMAIN items
      PROVE  /\ IsValue(rows[i][p])
             /\ HeldBy(rows[i][p], DeclarationOf(kinds[p]))
             /\ items[p][1] = "column" /\ (asItIs \/ OfOneKind(table, items[p][2])) =>
                  rows[i][p] = table.rows[i][items[p][2]]
  <2> DEFINE values == {given[j][p] : j \in places}
             v == given[i][p]
  <2>1. \A j \in places : given[j][p] = Evaluate(items[p], table.rows[j], InARead)
    BY Zenon
  <2>2. \A j \in places : IsValue(given[j][p])
    BY <2>1, EachGives, Zenon DEF Result, Wrong
  <2>3. v \in values /\ \A w \in values : IsValue(w)
    BY <2>2, Zenon
  <2>4. items[p][1] = "column" => v = table.rows[i][items[p][2]]
    <3>1. v = Evaluate(items[p], table.rows[i], InARead)
      BY <2>1, Zenon
    <3>2. QED
      BY <3>1, Zenon DEF Evaluate, Atom
  <2>5. asItIs /\ items[p][1] = "column" =>
          table.types[items[p][2]] \in Types /\ HeldBy(v, table.types[items[p][2]])
    <3> SUFFICES ASSUME items[p][1] = "column"
                 PROVE  table.types[items[p][2]] \in Types /\ HeldBy(v, table.types[items[p][2]])
      OBVIOUS
    <3>1. items[p][2] \in COLUMNS
      BY Zenon DEF AreExpressions, IsExpression, IsAtom
    <3>2. v = table.rows[i][items[p][2]]
      BY <2>4
    <3>3. table.rows # <<>> /\ table.types \in [COLUMNS -> Types]
      <4>1. i \in DOMAIN table.rows
        OBVIOUS
      <4>2. table.rows # <<>>
        BY <4>1, SMT
      <4>3. QED
        BY <4>2, Zenon DEF TableOK
    <3>4. HeldBy(table.rows[i][items[p][2]], table.types[items[p][2]])
      BY <3>1, Zenon DEF TableOK
    <3>5. QED
      BY <3>1, <3>2, <3>3, <3>4, SMT
  <2>6. kinds[p] = MadeKind(items[p], values, table, asItIs)
    BY Zenon
  <2>7. rows[i][p] = MadeValue(items[p], v, kinds[p], asItIs)
    BY Zenon
  <2>8. items[p][1] = "column" /\ OfOneKind(table, items[p][2]) =>
          \E same \in {"int", "float", "bit", "text"} : \A w \in values : w.kind \in {same, "null"}
    <3> SUFFICES ASSUME items[p][1] = "column", OfOneKind(table, items[p][2])
                 PROVE  \E same \in {"int", "float", "bit", "text"} :
                          \A w \in values : w.kind \in {same, "null"}
      OBVIOUS
    <3>1. PICK same \in {"int", "float", "bit", "text"} : \A j \in DOMAIN table.rows :
                 table.rows[j][items[p][2]].kind \in {same, "null"}
      BY Zenon DEF OfOneKind
    <3>2. \A j \in places : given[j][p] = table.rows[j][items[p][2]]
      <4>1. \A j \in places : Evaluate(items[p], table.rows[j], InARead) = table.rows[j][items[p][2]]
        BY Zenon DEF Evaluate, Atom
      <4>2. QED
        BY <2>1, <4>1, Zenon
    <3> HIDE DEF given
    <3>3. \A w \in values : w.kind \in {same, "null"}
      BY <3>1, <3>2, Zenon
    <3> HIDE DEF values
    <3>4. QED
      BY <3>1, <3>3
  <2> HIDE DEF values, v, kinds, rows, given
  <2>9. IsValue(rows[i][p]) /\ HeldBy(rows[i][p], DeclarationOf(kinds[p]))
    BY <2>3, <2>5, <2>6, <2>7, MadeGives
  <2>10. ASSUME items[p][1] = "column", asItIs \/ OfOneKind(table, items[p][2])
         PROVE  rows[i][p] = v
    <3> DEFINE e == items[p]
    <3>1. asItIs \/ \E same \in {"int", "float", "bit", "text"} :
                      \A w \in values : w.kind \in {same, "null"}
      BY <2>8, <2>10
    <3>2. e[1] = "column" /\ kinds[p] = MadeKind(e, values, table, asItIs)
      BY <2>6, <2>10
    <3>3. rows[i][p] = MadeValue(e, v, kinds[p], asItIs)
      BY <2>7
    <3> HIDE DEF e
    <3>4. MadeValue(e, v, MadeKind(e, values, table, asItIs), asItIs) = v
      BY <2>3, <3>1, <3>2, MadeKeeps
    <3>5. QED
      BY <3>2, <3>3, <3>4, Zenon
  <2>11. QED
    BY <2>4, <2>9, <2>10, Zenon
<1>4. DOMAIN rows = places /\ \A i \in places : DOMAIN rows[i] = DOMAIN items
  BY Zenon
<1> HIDE DEF rows, kinds, given, read
<1>5. AnswersAsRead(read, items, table, places, asItIs)
  BY <1>2, <1>3, <1>4, Zenon DEF AnswersAsRead
<1> USE DEF read
<1>6. QED
  BY <1>5

LEMMA AskedGives ==
    ASSUME IInv, NEW table, TableOK(table), NEW items, AreExpressions(items, COLUMNS), NEW where,
           Asked(items, table, where).refused = 0
    PROVE  /\ AnswersAsRead(Asked(items, table, where), items, table, Hit(table, where), TRUE)
           /\ Hit(table, where) \subseteq DOMAIN table.rows
<1> DEFINE places == Hit(table, where)
           given == [i \in places |-> [p \in DOMAIN items |-> Evaluate(items[p], table.rows[i], InARead)]]
<1>1. places \subseteq DOMAIN table.rows
  BY Zenon DEF Hit
<1>2. Asked(items, table, where) = Reading(items, table, places, TRUE)
  <2> DEFINE no == RefusedIn(Conditions(table, where))
  <2>1. CASE no = 0
    BY <2>1, Zenon DEF Asked
  <2>2. CASE no # 0
    <3>1. Asked(items, table, where) = [refused |-> no, kinds |-> <<>>, rows |-> <<>>]
      BY <2>2, Zenon DEF Asked
    <3> HIDE DEF no
    <3>2. Asked(items, table, where).refused = no
      BY <3>1, SMT
    <3>3. QED
      BY <2>2, <3>2
  <2>3. QED
    BY <2>1, <2>2
<1> HIDE DEF places
<1>3. RefusedIn(given) = 0
  <2> DEFINE kinds == [p \in DOMAIN items |-> MadeKind(items[p], {given[i][p] : i \in places}, table, TRUE)]
             rows == [i \in places |-> [p \in DOMAIN items |->
                        MadeValue(items[p], given[i][p], kinds[p], TRUE)]]
             read == Reading(items, table, places, TRUE)
  <2>1. read = [refused |-> RefusedIn(given), kinds |-> kinds, rows |-> rows]
    BY Zenon DEF Reading
  <2>2. read.refused = 0
    BY <1>2, Zenon
  <2> HIDE DEF kinds, rows, given, read
  <2>3. QED
    BY <2>1, <2>2, SMT
<1>4. \A i \in places : \A p \in DOMAIN items : given[i][p] = Evaluate(items[p], table.rows[i], InARead)
  BY Zenon
<1>5. \A i \in places : \A p \in DOMAIN items : IsRefused(given[i][p]) => given[i][p].n # 0
  <2>1. ASSUME NEW i \in places, NEW p \in DOMAIN items
        PROVE  Result(given[i][p])
    <3>1. Result(Evaluate(items[p], table.rows[i], InARead))
      BY <1>1, EachGives
    <3> HIDE DEF given
    <3>2. QED
      BY <1>4, <3>1, SMT
  <2> HIDE DEF given
  <2>2. QED
    BY <2>1, ValuesAreNotRefused, Zenon DEF Result, Wrong
<1>6. DOMAIN given = places /\ \A i \in places : DOMAIN given[i] = DOMAIN items
  BY Zenon
<1>7. places \subseteq Nat /\ DOMAIN items \subseteq Nat
  <2>1. places \subseteq Nat
    BY <1>1, LimitsAssumption, SMT DEF TableOK
  <2>2. DOMAIN items \subseteq Nat
    BY SMT DEF AreExpressions, IsList
  <2>3. QED
    BY <2>1, <2>2
<1>8. \A i \in places : \A p \in DOMAIN items : ~IsRefused(Evaluate(items[p], table.rows[i], InARead))
  <2> HIDE DEF given
  <2>1. \A i \in DOMAIN given : \A p \in DOMAIN given[i] : ~IsRefused(given[i][p])
    <3>1. \A i \in DOMAIN given : DOMAIN given[i] \subseteq Nat
      BY <1>6, <1>7, Zenon
    <3>2. \A i \in DOMAIN given : \A p \in DOMAIN given[i] : IsRefused(given[i][p]) => given[i][p].n # 0
      BY <1>5, <1>6, Zenon
    <3>3. DOMAIN given \subseteq Nat
      BY <1>6, <1>7, Zenon
    <3>4. QED
      BY <1>3, <3>1, <3>2, <3>3, NoneRefused, Zenon
  <2>2. QED
    BY <1>4, <1>6, <2>1, Zenon
<1>9. AnswersAsRead(Reading(items, table, places, TRUE), items, table, places, TRUE)
  <2> DEFINE asItIs == TRUE
  <2>1. asItIs \in BOOLEAN
    OBVIOUS
  <2> HIDE DEF asItIs
  <2>2. AnswersAsRead(Reading(items, table, places, asItIs), items, table, places, asItIs)
    BY <1>1, <1>8, <2>1, ReadingGives, Zenon
  <2>3. QED
    BY <2>2 DEF asItIs
<1>10. QED
  BY <1>1, <1>2, <1>9, Zenon DEF places

-------------------------------------------------------------------------------
(* What a statement leaves.                                                *)

LEMMA CountIsIn ==
    ASSUME NEW n \in Nat, NEW S, S \subseteq 1..n
    PROVE  Cardinality(S) \in 0..n
<1>1. IsFiniteSet(1..n) /\ Cardinality(1..n) = n
  BY FS_Interval, SMT
<1>2. IsFiniteSet(S) /\ Cardinality(S) <= Cardinality(1..n)
  BY <1>1, FS_Subset, Zenon
<1>3. Cardinality(S) \in Nat
  BY <1>2, FS_CardinalityType, Zenon
<1>4. QED
  BY <1>1, <1>2, <1>3, SMT

LEMMA PlacesAreCounted ==
    ASSUME NEW t, TableOK(t), NEW S, S \subseteq DOMAIN t.rows
    PROVE  Cardinality(S) \in 0..MaxRows
<1>1. S \subseteq 1..MaxRows
  BY LimitsAssumption, SMT DEF TableOK
<1>2. MaxRows \in Nat
  BY LimitsAssumption, SMT
<1>3. QED
  BY <1>1, <1>2, CountIsIn

LEMMA PlacesAreFinite ==
    ASSUME NEW t, TableOK(t)
    PROVE  IsFiniteSet(DOMAIN t.rows)
<1>1. DOMAIN t.rows \subseteq 1..MaxRows /\ 1 \in Int /\ MaxRows \in Int
  BY LimitsAssumption, SMT DEF TableOK
<1>2. IsFiniteSet(1..MaxRows)
  BY <1>1, FS_Interval, Zenon
<1>3. QED
  BY <1>1, <1>2, FS_Subset, Zenon

LEMMA NewTableIsOK ==
    ASSUME NEW types \in [COLUMNS -> Types], NEW rows, NEW next \in 1..MaxRows + 1,
           DOMAIN rows \subseteq 1..next - 1,
           \A i \in DOMAIN rows : \A c \in COLUMNS :
             IsValue(rows[i][c]) /\ HeldBy(rows[i][c], types[c])
    PROVE  TableOK([types |-> types, rows |-> rows, next |-> next])
<1> DEFINE t == [types |-> types, rows |-> rows, next |-> next]
<1>1. t.types = types /\ t.rows = rows /\ t.next = next
  BY SMT
<1>2. types # <<>>
  <2>1. 1 \in DOMAIN types
    BY SMT DEF COLUMNS
  <2>2. QED
    BY <2>1, SMT
<1>3. t = [types |-> t.types, rows |-> t.rows, next |-> t.next]
  BY SMT
<1> HIDE DEF t
<1>4. TableOK(t)
  BY <1>1, <1>2, <1>3, Zenon DEF TableOK
<1> USE DEF t
<1>5. QED
  BY <1>4

LEMMA NotMadeIsOK == TableOK(NotMade)
<1>1. NotMade.types = <<>> /\ NotMade.rows = <<>> /\ NotMade.next = 1
  BY SMT DEF NotMade
<1>2. NotMade = [types |-> NotMade.types, rows |-> NotMade.rows, next |-> NotMade.next]
  BY SMT DEF NotMade
<1>3. DOMAIN NotMade.rows = {}
  BY <1>1, SMT
<1>4. NotMade.next \in 1..MaxRows + 1
  BY <1>1, LimitsAssumption, SMT
<1>5. QED
  BY <1>1, <1>2, <1>3, <1>4, Zenon DEF TableOK

LEMMA UndeclaredIsOK == VariableOK(Undeclared)
<1>1. Undeclared.type = None /\ Undeclared.value = Null
  BY SMT DEF Undeclared
<1>2. Undeclared = [type |-> Undeclared.type, value |-> Undeclared.value]
  BY SMT DEF Undeclared
<1>3. QED
  BY <1>1, <1>2, ValuesAreMade, Zenon DEF VariableOK

(* A table whose rows change, as EXCEPT has it. *)
LEMMA ChangedTable ==
    ASSUME NEW t, TableOK(t), NEW rows
    PROVE  [t EXCEPT !.rows = rows] = [types |-> t.types, rows |-> rows, next |-> t.next]
<1>1. t = [types |-> t.types, rows |-> t.rows, next |-> t.next]
  BY Zenon DEF TableOK
<1>2. QED
  BY <1>1, SMT

(* ---- how a statement ends -----------------------------------------------*)

(* What every statement does: it keeps the invariant, counts what it        *)
(* touched and writes what it read.                                         *)
Faithful == IInv' /\ Counted /\ WroteWhatItRead

WRITING == {"create", "drop", "make_from", "truncate", "insert_values", "insert_select",
            "update", "delete"}

LEMMA NumbersAreNotNought ==
    /\ INVALID_OBJECT_NAME # 0 /\ NO_SUCH_COLUMN # 0 /\ ALREADY_AN_OBJECT # 0
    /\ NO_SUCH_TABLE_TO_DROP # 0 /\ CANNOT_FIND_THE_OBJECT # 0 /\ A_COLUMN_WITH_NO_NAME # 0
    /\ DOES_NOT_MATCH_THE_TABLE # 0 /\ TOO_FEW_TO_INSERT # 0 /\ TOO_MANY_TO_INSERT # 0
BY SMT DEF INVALID_OBJECT_NAME, NO_SUCH_COLUMN, ALREADY_AN_OBJECT, NO_SUCH_TABLE_TO_DROP,
           CANNOT_FIND_THE_OBJECT, A_COLUMN_WITH_NO_NAME, DOES_NOT_MATCH_THE_TABLE,
           TOO_FEW_TO_INSERT, TOO_MANY_TO_INSERT

LEMMA RefuseKeeps ==
    ASSUME IInv, NEW s, NEW number, number # 0, NEW read \in 0..MaxRows,
           NEW held, VariableOK(held), RefuseHolding(s, number, read, held)
    PROVE  Faithful
<1>1. tables' = tables
  BY Zenon DEF RefuseHolding
<1>2. count' \in 0..MaxRows
  BY LimitsAssumption, SMT DEF RefuseHolding
<1>3. variable' = held \/ variable' = Undeclared
  BY Zenon DEF RefuseHolding
<1>4. VariableOK(variable')
  BY <1>3, UndeclaredIsOK, Zenon
<1>5. IInv'
  BY <1>1, <1>2, <1>4, Zenon DEF IInv
<1>6. last'.did = s /\ last'.refused = number
  BY SMT DEF RefuseHolding
<1>7. ~s.tried /\ number \in THE_BATCH_GOES_ON => count' = 0
  BY Zenon DEF RefuseHolding
<1>8. Counted
  BY <1>6, <1>7, Zenon DEF Counted
<1>9. WroteWhatItRead
  BY <1>1, <1>6, Zenon DEF WroteWhatItRead
<1>10. QED
  BY <1>5, <1>8, <1>9, Zenon DEF Faithful

LEMMA RefusedKeeps ==
    ASSUME IInv, NEW s, NEW number, number # 0, NEW read \in 0..MaxRows, Refuse(s, number, read)
    PROVE  Faithful
<1>1. VariableOK(variable)
  BY Zenon DEF IInv
<1>2. QED
  BY <1>1, RefuseKeeps, Zenon DEF Refuse

(* The table a statement kept is the one in its place, and no other changed. *)
LEMMA KeptIsThere ==
    ASSUME IInv, NEW s, s.table \in Tables, NEW table, NEW touched, Keep(s, table, touched)
    PROVE  /\ tables'[s.table] = table
           /\ \A name \in Tables : name # s.table => tables'[name] = tables[name]
BY SMT DEF Keep, IInv

LEMMA KeepKeeps ==
    ASSUME IInv, NEW s, s.table \in Tables, s.op \in WRITING, NEW table, TableOK(table),
           NEW touched \in 0..MaxRows, Keep(s, table, touched),
           Touched(s, tables') = touched, Wrote(s)
    PROVE  Faithful
<1>1. tables' = [name \in Tables |-> IF name = s.table THEN table ELSE tables[name]]
  BY SMT DEF Keep, IInv
<1>2. tables' = [name \in Tables |-> tables'[name]] /\ \A name \in Tables : TableOK(tables'[name])
  BY <1>1, Zenon DEF IInv
<1>3. variable' = variable /\ count' = touched
  BY Zenon DEF Keep
<1>4. IInv'
  BY <1>2, <1>3, Zenon DEF IInv
<1>5. last'.did = s /\ last'.refused = 0
  BY SMT DEF Keep
<1>6. Counted
  BY <1>3, <1>5, Zenon DEF Counted
<1>7. s.op \notin {"declare", "set", "select_assigns", "end"}
  BY SMT DEF WRITING
<1>8. WroteWhatItRead
  BY <1>5, <1>7, KeptIsThere, Zenon DEF WroteWhatItRead
<1>9. QED
  BY <1>4, <1>6, <1>8, Zenon DEF Faithful

LEMMA CountIsBounded ==
    ASSUME IInv
    PROVE  count \in 0..MaxRows /\ 0 \in 0..MaxRows /\ 1 \in 0..MaxRows
BY LimitsAssumption, SMT DEF IInv

(* ---- making a table and letting it go -----------------------------------*)

(* A table made, dropped or emptied is none of its rows touched. *)
LEMMA NoRowIsTouched ==
    ASSUME NEW s, s.op \in {"create", "drop", "truncate"}
    PROVE  s.op \in WRITING /\ Touched(s, tables') = 0 /\ Wrote(s)
<1>1. s.op \in WRITING
  BY SMT DEF WRITING
<1>2. Touched(s, tables') = 0
  BY Zenon DEF Touched
<1>3. Wrote(s)
  <2>1. s.op \notin {"insert_values", "insert_select"} /\ s.op # "delete" /\ s.op # "update"
    BY SMT
  <2>2. QED
    BY <2>1, Zenon DEF Wrote
<1>4. QED
  BY <1>1, <1>2, <1>3

LEMMA NoRowKeeps ==
    ASSUME IInv, NEW s, s.table \in Tables, s.op \in {"create", "drop", "truncate"},
           NEW table, TableOK(table), Keep(s, table, 0)
    PROVE  Faithful
<1> DEFINE none == 0
<1>1. Keep(s, table, none) /\ Touched(s, tables') = none /\ none \in 0..MaxRows
  BY NoRowIsTouched, CountIsBounded
<1>2. s.op \in WRITING /\ Wrote(s)
  BY NoRowIsTouched
<1> HIDE DEF none
<1>3. QED
  BY <1>1, <1>2, KeepKeeps

LEMMA CreateStep ==
    ASSUME IInv, NEW s, WellFormed(s), s.op = "create", Create(s)
    PROVE  Faithful
<1>1. s.table \in Tables /\ s.types \in [COLUMNS -> Types]
  BY Zenon DEF WellFormed
<1>2. CASE Made(s.table)
  BY <1>2, CountIsBounded, NumbersAreNotNought, RefusedKeeps, Zenon DEF Create
<1>3. CASE ~Made(s.table)
  <2> DEFINE table == [types |-> s.types, rows |-> <<>>, next |-> 1]
  <2>1. TableOK(table)
    <3>1. 1 \in 1..MaxRows + 1 /\ DOMAIN <<>> = {}
      BY LimitsAssumption, SMT
    <3>2. QED
      BY <1>1, <3>1, NewTableIsOK, Zenon
  <2>2. Keep(s, table, 0)
    BY <1>3, Zenon DEF Create
  <2> HIDE DEF table
  <2>3. QED
    BY <1>1, <2>1, <2>2, NoRowKeeps
<1>4. QED
  BY <1>2, <1>3

LEMMA DropStep ==
    ASSUME IInv, NEW s, WellFormed(s), s.op = "drop", Drop(s)
    PROVE  Faithful
<1>1. s.table \in Tables
  BY Zenon DEF WellFormed
<1>2. CASE ~Made(s.table)
  BY <1>2, CountIsBounded, NumbersAreNotNought, RefusedKeeps, Zenon DEF Drop
<1>3. CASE Made(s.table)
  <2>1. Keep(s, NotMade, 0)
    BY <1>3, Zenon DEF Drop
  <2>2. QED
    BY <1>1, <2>1, NotMadeIsOK, NoRowKeeps
<1>4. QED
  BY <1>2, <1>3

LEMMA MadeIsTyped ==
    ASSUME IInv, NEW name \in Tables, Made(name)
    PROVE  TableOK(tables[name]) /\ tables[name].types \in [COLUMNS -> Types]
BY Zenon DEF IInv, Made, TableOK

LEMMA TruncateStep ==
    ASSUME IInv, NEW s, WellFormed(s), s.op = "truncate", Truncate(s)
    PROVE  Faithful
<1>1. s.table \in Tables
  BY Zenon DEF WellFormed
<1>2. CASE ~Made(s.table)
  BY <1>2, CountIsBounded, NumbersAreNotNought, RefusedKeeps, Zenon DEF Truncate
<1>3. CASE Made(s.table)
  <2> DEFINE old == tables[s.table]
             table == [types |-> old.types, rows |-> <<>>, next |-> old.next]
  <2>1. TableOK(old) /\ old.types \in [COLUMNS -> Types]
    BY <1>1, <1>3, MadeIsTyped, Zenon
  <2>2. Keep(s, [old EXCEPT !.rows = <<>>], 0)
    BY <1>3, Zenon DEF Truncate
  <2> HIDE DEF old
  <2>3. [old EXCEPT !.rows = <<>>] = table
    BY <2>1, ChangedTable, Zenon
  <2>4. TableOK(table)
    <3>1. DOMAIN <<>> = {}
      BY SMT
    <3>2. old.next \in 1..MaxRows + 1
      BY <2>1, Zenon DEF TableOK
    <3>3. QED
      BY <2>1, <3>1, <3>2, NewTableIsOK, Zenon
  <2>5. Keep(s, table, 0)
    BY <2>2, <2>3, Zenon
  <2> HIDE DEF table
  <2>6. QED
    BY <1>1, <2>4, <2>5, NoRowKeeps
<1>4. QED
  BY <1>2, <1>3

LEMMA MakeFromStep ==
    ASSUME IInv, NEW s, WellFormed(s), s.op = "make_from", MakeFrom(s)
    PROVE  Faithful
<1>1. /\ s.table \in Tables /\ s.from \in Tables
      /\ AreExpressions(s.items, COLUMNS) /\ Len(s.items) = 2
  BY Zenon DEF WellFormed
<1>2. CASE Made(s.table) \/ ~Made(s.from)
  BY <1>2, CountIsBounded, NumbersAreNotNought, RefusedKeeps, Zenon DEF MakeFrom
<1>3. CASE ~Made(s.table) /\ Made(s.from)
  <2> DEFINE old == tables[s.from]
             read == Asked(s.items, old, s.where)
             touched == Cardinality(DOMAIN read.rows)
             types == [p \in DOMAIN s.items |-> DeclarationOf(read.kinds[p])]
             table == [types |-> types, rows |-> read.rows, next |-> old.next]
  <2>1. TableOK(old)
    BY <1>1, <1>3, MadeIsTyped, Zenon
  <2>2. \/ read.refused # 0 /\ Refuse(s, read.refused, count)
        \/ read.refused = 0 /\ Refuse(s, A_COLUMN_WITH_NO_NAME, touched)
        \/ read.refused = 0 /\ Keep(s, table, touched)
    BY <1>3, Zenon DEF MakeFrom
  <2> HIDE DEF old
  <2>3. CASE read.refused # 0 /\ Refuse(s, read.refused, count)
    BY <2>3, CountIsBounded, NumbersAreNotNought, RefusedKeeps, Zenon
  <2> DEFINE hit == Hit(old, s.where)
  <2>4. ASSUME read.refused = 0
        PROVE  AnswersAsRead(read, s.items, old, hit, TRUE) /\ hit \subseteq DOMAIN old.rows
    BY <1>1, <2>1, <2>4, AskedGives, Zenon
  <2> HIDE DEF read, hit
  <2>9. ASSUME read.refused = 0
        PROVE  /\ DOMAIN read.rows \subseteq DOMAIN old.rows
               /\ \A i \in DOMAIN read.rows : \A p \in DOMAIN s.items :
                    IsValue(read.rows[i][p]) /\ HeldBy(read.rows[i][p], DeclarationOf(read.kinds[p]))
    BY <2>4, <2>9, Zenon DEF AnswersAsRead
  <2>5. ASSUME read.refused = 0
        PROVE  touched \in 0..MaxRows
    BY <2>1, <2>9, <2>5, PlacesAreCounted, Zenon
  <2>6. CASE read.refused = 0 /\ Refuse(s, A_COLUMN_WITH_NO_NAME, touched)
    BY <2>5, <2>6, NumbersAreNotNought, RefusedKeeps, Zenon
  <2>7. CASE read.refused = 0 /\ Keep(s, table, touched)
    <3>1. DOMAIN s.items = COLUMNS
      BY <1>1, SMT DEF AreExpressions, IsList, COLUMNS
    <3>2. types \in [COLUMNS -> Types]
      <4>1. \A k : DeclarationOf(k) \in Types
        BY Zenon DEF DeclarationOf, Types
      <4>2. QED
        BY <3>1, <4>1, Zenon
    <3>3. \A c \in COLUMNS : types[c] = DeclarationOf(read.kinds[c])
      BY <3>1, Zenon
    <3> HIDE DEF types
    <3>4. old.next \in 1..MaxRows + 1 /\ DOMAIN read.rows \subseteq 1..old.next - 1
      BY <2>1, <2>9, <2>7, Zenon DEF TableOK
    <3>5. TableOK(table)
      BY <2>9, <2>7, <3>1, <3>2, <3>3, <3>4, NewTableIsOK, Zenon
    <3> HIDE DEF table
    <3>6. tables'[s.table] = table /\ tables[s.table].rows = <<>>
      <4>1. TableOK(tables[s.table]) /\ tables[s.table].types = <<>>
        BY <1>1, <1>3, Zenon DEF IInv, Made
      <4>2. tables[s.table].rows = <<>>
        BY <4>1, Zenon DEF TableOK
      <4>3. tables'[s.table] = table
        BY <1>1, <2>7, KeptIsThere
      <4>4. QED
        BY <4>2, <4>3
    <3>7. Rows(tables[s.table]) = 0
      <4>1. DOMAIN tables[s.table].rows = {}
        BY <3>6, SMT
      <4>2. QED
        BY <4>1, FS_EmptySet, Zenon DEF Rows
    <3>8. Rows(tables'[s.table]) = touched
      <4>1. table.rows = read.rows
        BY SMT DEF table
      <4>2. QED
        BY <3>6, <4>1, Zenon DEF Rows
    <3>9. Touched(s, tables') = touched
      <4>1. Touched(s, tables') = Rows(tables'[s.table]) - Rows(tables[s.table])
        BY Zenon DEF Touched
      <4>2. touched \in 0..MaxRows
        BY <2>5, <2>7
      <4> HIDE DEF touched
      <4>3. QED
        BY <3>7, <3>8, <4>1, <4>2, LimitsAssumption, SMT
    <3>10. s.op \in WRITING /\ Wrote(s)
      <4>1. s.op \notin {"insert_values", "insert_select"} /\ s.op # "delete" /\ s.op # "update"
        BY SMT
      <4>2. QED
        BY <4>1, Zenon DEF Wrote, WRITING
    <3>11. QED
      BY <1>1, <2>5, <2>7, <3>5, <3>9, <3>10, KeepKeeps, Zenon
  <2>8. QED
    BY <2>2, <2>3, <2>6, <2>7
<1>4. QED
  BY <1>2, <1>3

(* ---- filling it ---------------------------------------------------------*)

LEMMA TwoColumns == Cardinality(COLUMNS) = 2
<1>1. \A n \in Nat \ {0} : Cardinality(1..n) = n
  BY FS_Interval, SMT
<1>2. 2 \in Nat \ {0}
  BY SMT
<1>3. QED
  BY <1>1, <1>2, Zenon DEF COLUMNS

(* A row that fits its table gives each column one of its values, or none.  *)
LEMMA FittedIs ==
    ASSUME NEW s, IsList(s.into), NEW width \in Nat, Misfit(s, width) = 0, NEW row, NEW c \in COLUMNS
    PROVE  \/ \E p \in From(s, c) : p \in 1..width /\ Fitted(s, row)[c] = row[p]
           \/ From(s, c) = {} /\ Fitted(s, row)[c] = Null
<1>1. CASE s.into = <<>>
  <2>1. width = Cardinality(COLUMNS)
    BY <1>1, NumbersAreNotNought, Zenon DEF Misfit
  <2>2. c \in 1..width
    BY <2>1, TwoColumns, SMT DEF COLUMNS
  <2>3. From(s, c) = {c} /\ Fitted(s, row) = row
    BY <1>1, Zenon DEF From, Fitted
  <2>4. QED
    BY <2>2, <2>3, Zenon
<1>2. CASE s.into # <<>>
  <2>1. ~(width < Len(s.into)) /\ ~(width > Len(s.into))
    BY <1>2, NumbersAreNotNought, Zenon DEF Misfit
  <2>2. Len(s.into) \in Nat /\ DOMAIN s.into = 1..Len(s.into)
    BY Zenon DEF IsList
  <2>3. DOMAIN s.into = 1..width
    BY <2>1, <2>2, SMT
  <2>4. From(s, c) = {p \in DOMAIN s.into : s.into[p] = c}
    BY <1>2, Zenon DEF From
  <2>5. Fitted(s, row)[c] = IF \E p \in DOMAIN s.into : s.into[p] = c
                            THEN row[CHOOSE p \in DOMAIN s.into : s.into[p] = c] ELSE Null
    BY <1>2, Zenon DEF Fitted
  <2>6. CASE \E p \in DOMAIN s.into : s.into[p] = c
    <3> DEFINE p == CHOOSE p \in DOMAIN s.into : s.into[p] = c
    <3>1. p \in DOMAIN s.into /\ s.into[p] = c
      BY <2>6, Zenon
    <3>2. Fitted(s, row)[c] = row[p]
      BY <2>5, <2>6, Zenon
    <3> HIDE DEF p
    <3>3. QED
      BY <2>3, <2>4, <3>1, <3>2, Zenon
  <2>7. CASE ~\E p \in DOMAIN s.into : s.into[p] = c
    <3>1. From(s, c) = {}
      BY <2>4, <2>7, Zenon
    <3>2. QED
      BY <2>5, <2>7, <3>1, Zenon
  <2>8. QED
    BY <2>6, <2>7
<1>3. QED
  BY <1>1, <1>2

LEMMA FittedGives ==
    ASSUME NEW s, IsList(s.into), NEW width \in Nat, Misfit(s, width) = 0,
           NEW row, \A p \in 1..width : IsValue(row[p]), NEW c \in COLUMNS
    PROVE  IsValue(Fitted(s, row)[c])
<1>1. \/ \E p \in From(s, c) : p \in 1..width /\ Fitted(s, row)[c] = row[p]
      \/ From(s, c) = {} /\ Fitted(s, row)[c] = Null
  BY FittedIs
<1>2. QED
  BY <1>1, ValuesAreMade, Zenon

(* Rows of which each part is what its column's type makes of a value hold  *)
(* it where none is refused.                                                *)
LEMMA RowsFit ==
    ASSUME NEW types, NEW rows, DOMAIN rows \subseteq Nat, RefusedIn(rows) = 0,
           \A i \in DOMAIN rows : DOMAIN rows[i] = COLUMNS,
           \A i \in DOMAIN rows : \A c \in COLUMNS : Fits(rows[i][c], types[c])
    PROVE  \A i \in DOMAIN rows : \A c \in COLUMNS :
             IsValue(rows[i][c]) /\ HeldBy(rows[i][c], types[c])
<1>1. COLUMNS \subseteq Nat
  BY SMT DEF COLUMNS
<1>2. \A i \in DOMAIN rows : DOMAIN rows[i] \subseteq Nat
  BY <1>1, Zenon
<1>3. \A i \in DOMAIN rows : \A p \in DOMAIN rows[i] : IsRefused(rows[i][p]) => rows[i][p].n # 0
  BY ValuesAreNotRefused, Zenon DEF Fits, Wrong
<1>4. \A i \in DOMAIN rows : \A p \in DOMAIN rows[i] : ~IsRefused(rows[i][p])
  BY <1>2, <1>3, NoneRefused, Zenon
<1>5. QED
  BY <1>4, Zenon DEF Fits, Wrong

(* An INSERT adds its rows beyond those there, and counts them. *)
LEMMA PutKeeps ==
    ASSUME IInv, NEW s, s.table \in Tables, IsList(s.into),
           s.op \in {"insert_values", "insert_select"},
           NEW table, table = tables[s.table], TableOK(table), table.types \in [COLUMNS -> Types],
           NEW width \in Nat, NEW rows, NEW beyond \in Nat \ {0},
           DOMAIN rows \subseteq 1..beyond - 1,
           \A i \in DOMAIN rows : \A p \in 1..width : IsValue(rows[i][p]),
           \A i \in DOMAIN rows : Misfit(s, width) = 0 =>
             TakenFrom(s, StoredRow(table.types, Fitted(s, rows[i]))),
           NEW read \in 0..MaxRows, Put(s, table, width, rows, beyond, read),
           tables'[s.table].next <= MaxRows + 1
    PROVE  Faithful
<1> DEFINE misfit == Misfit(s, width)
           stored == [i \in DOMAIN rows |-> StoredRow(table.types, Fitted(s, rows[i]))]
           refused == IF misfit # 0 THEN misfit ELSE RefusedIn(stored)
           added == {table.next - 1 + i : i \in DOMAIN rows}
           filled == [i \in DOMAIN table.rows \cup added |->
                        IF i \in added THEN stored[i - table.next + 1] ELSE table.rows[i]]
           beyondit == table.next - 1 + beyond
           new == [types |-> table.types, rows |-> filled, next |-> beyondit]
<1>1. CASE refused # 0
  <2>1. Refuse(s, refused, read)
    BY <1>1, Zenon DEF Put
  <2> HIDE DEF refused
  <2>2. QED
    BY <1>1, <2>1, RefusedKeeps
<1>2. CASE refused = 0
  <2>1. misfit = 0 /\ RefusedIn(stored) = 0
    BY <1>2, Zenon
  <2>2. Keep(s, new, Cardinality(added))
    BY <1>2, Zenon DEF Put
  <2>3. table.next \in 1..MaxRows + 1 /\ DOMAIN table.rows \subseteq 1..table.next - 1
    BY Zenon DEF TableOK
  <2>4. new.next = beyondit /\ new.types = table.types /\ new.rows = filled
    <3> HIDE DEF filled, beyondit
    <3>1. QED
      BY SMT
  <2>5. tables'[s.table] = new
    <3> HIDE DEF new
    <3>1. QED
      BY <2>2, KeptIsThere
  <2>6. beyondit \in 1..MaxRows + 1
    <3>1. beyondit \in Nat /\ beyondit >= 1
      BY <2>3, LimitsAssumption, SMT
    <3>2. beyondit <= MaxRows + 1
      BY <2>4, <2>5
    <3> HIDE DEF beyondit
    <3>3. QED
      BY <3>1, <3>2, LimitsAssumption, SMT
  <2>7. DOMAIN rows \subseteq Nat /\ \A i \in DOMAIN rows : i >= 1 /\ i <= beyond - 1
    BY SMT
  <2>8. added \subseteq 1..beyondit - 1
    BY <2>3, <2>7, LimitsAssumption, SMT
  <2>9. DOMAIN table.rows \subseteq 1..beyondit - 1
    BY <2>3, LimitsAssumption, SMT
  <2>10. Cardinality(added) \in 0..MaxRows
    <3>1. 1..beyondit - 1 \subseteq 1..MaxRows
      <4> HIDE DEF beyondit
      <4>1. QED
        BY <2>6, LimitsAssumption, SMT
    <3>2. MaxRows \in Nat
      BY LimitsAssumption, SMT
    <3> HIDE DEF added, beyondit
    <3>3. QED
      BY <2>8, <3>1, <3>2, CountIsIn, Zenon
  <2>11. \A i \in DOMAIN stored : \A c \in COLUMNS :
           IsValue(stored[i][c]) /\ HeldBy(stored[i][c], table.types[c])
    <3>1. DOMAIN stored = DOMAIN rows
      BY Zenon
    <3>2. ASSUME NEW i \in DOMAIN rows, NEW c \in COLUMNS
          PROVE  Fits(stored[i][c], table.types[c])
      <4>1. stored[i][c] = IntoAColumn(Fitted(s, rows[i])[c], table.types[c])
        BY Zenon DEF StoredRow
      <4>2. IsValue(Fitted(s, rows[i])[c])
        <5>1. \A p \in 1..width : IsValue(rows[i][p])
          OBVIOUS
        <5>2. QED
          BY <2>1, <5>1, FittedGives, Zenon
      <4>3. table.types[c] \in Types
        BY SMT
      <4>4. QED
        BY <4>1, <4>2, <4>3, IntoGives, Zenon
    <3>3. \A i \in DOMAIN rows : DOMAIN stored[i] = COLUMNS
      BY Zenon DEF StoredRow
    <3> HIDE DEF stored
    <3>4. QED
      BY <2>1, <2>7, <3>1, <3>2, <3>3, RowsFit, Zenon
  <2>12. \A i \in added : i - table.next + 1 \in DOMAIN rows
    BY <2>3, <2>7, SMT
  <2>13. \A i \in DOMAIN filled : \A c \in COLUMNS :
           IsValue(filled[i][c]) /\ HeldBy(filled[i][c], table.types[c])
    <3>1. DOMAIN stored = DOMAIN rows
      BY Zenon
    <3>2. ASSUME NEW i \in added, NEW c \in COLUMNS
          PROVE  IsValue(filled[i][c]) /\ HeldBy(filled[i][c], table.types[c])
      <4> DEFINE k == i - table.next + 1
      <4>1. filled[i] = stored[k]
        BY Zenon
      <4>2. k \in DOMAIN stored
        BY <2>12, <3>1, Zenon
      <4> HIDE DEF filled, stored, k
      <4>3. QED
        BY <2>11, <4>1, <4>2, Zenon
    <3>3. ASSUME NEW i \in DOMAIN table.rows, i \notin added, NEW c \in COLUMNS
          PROVE  IsValue(filled[i][c]) /\ HeldBy(filled[i][c], table.types[c])
      <4>1. filled[i] = table.rows[i]
        BY <3>3, Zenon
      <4> HIDE DEF filled
      <4>2. QED
        BY <4>1, Zenon DEF TableOK
    <3>4. DOMAIN filled = DOMAIN table.rows \cup added
      BY Zenon
    <3> HIDE DEF filled, added
    <3>5. QED
      BY <3>2, <3>3, <3>4, Zenon
  <2>14. DOMAIN filled \subseteq 1..beyondit - 1
    <3>1. DOMAIN filled = DOMAIN table.rows \cup added
      BY Zenon
    <3> HIDE DEF filled, added
    <3>2. QED
      BY <2>8, <2>9, <3>1, Zenon
  <2>15. /\ DOMAIN filled = DOMAIN table.rows \cup added
         /\ \A i \in DOMAIN table.rows \ added : filled[i] = table.rows[i]
         /\ \A i \in added : \E k \in DOMAIN rows :
              filled[i] = StoredRow(table.types, Fitted(s, rows[k]))
    <3>1. DOMAIN filled = DOMAIN table.rows \cup added
      BY Zenon
    <3>2. ASSUME NEW i \in DOMAIN table.rows \ added
          PROVE  filled[i] = table.rows[i]
      BY Zenon
    <3>3. ASSUME NEW i \in added
          PROVE  \E k \in DOMAIN rows : filled[i] = StoredRow(table.types, Fitted(s, rows[k]))
      <4> DEFINE k == i - table.next + 1
      <4>1. filled[i] = stored[k]
        BY Zenon
      <4>2. k \in DOMAIN rows
        BY <2>12
      <4> HIDE DEF filled, k
      <4>3. filled[i] = StoredRow(table.types, Fitted(s, rows[k]))
        BY <4>1, <4>2, Zenon
      <4>4. QED
        BY <4>2, <4>3, Zenon
    <3> HIDE DEF filled, added
    <3>4. QED
      BY <3>1, <3>2, <3>3, Zenon
  <2>16. DOMAIN table.rows \cap added = {}
    BY <2>3, <2>7, LimitsAssumption, SMT
  <2> HIDE DEF filled, beyondit, added
  <2>17. TableOK(new)
    BY <2>6, <2>13, <2>14, NewTableIsOK, Zenon
  <2> HIDE DEF new
  <2>18. Touched(s, tables') = Cardinality(added)
    <3> DEFINE before == DOMAIN table.rows
    <3>1. Touched(s, tables') = Rows(tables'[s.table]) - Rows(tables[s.table])
      BY Zenon DEF Touched
    <3>2. Rows(tables[s.table]) = Cardinality(before)
      BY Zenon DEF Rows
    <3>3. Rows(tables'[s.table]) = Cardinality(before \cup added)
      BY <2>4, <2>5, <2>15, Zenon DEF Rows
    <3>4. before \subseteq 1..MaxRows /\ added \subseteq 1..MaxRows
      <4>1. 1..beyondit - 1 \subseteq 1..MaxRows
        BY <2>6, LimitsAssumption, SMT
      <4>2. QED
        BY <2>8, <2>9, <4>1, Zenon
    <3>5. IsFiniteSet(1..MaxRows)
      <4>1. 1 \in Int /\ MaxRows \in Int
        BY LimitsAssumption, SMT
      <4>2. QED
        BY <4>1, FS_Interval, Zenon
    <3> HIDE DEF before
    <3>6. IsFiniteSet(before) /\ IsFiniteSet(added)
      BY <3>4, <3>5, FS_Subset, Zenon
    <3>7. before \cap added = {}
      BY <2>16 DEF before
    <3>8. Cardinality(before \cup added) =
            Cardinality(before) + Cardinality(added) - Cardinality(before \cap added)
      BY <3>6, FS_Union, Zenon
    <3>9. Cardinality(before \cap added) = 0
      BY <3>7, FS_EmptySet, Zenon
    <3>10. Cardinality(before) \in Nat /\ Cardinality(added) \in Nat
      BY <3>6, FS_CardinalityType, Zenon
    <3>11. QED
      BY <3>1, <3>2, <3>3, <3>8, <3>9, <3>10, SMT
  <2>19. Wrote(s)
    <3>1. tables'[s.table].rows = filled
      BY <2>4, <2>5
    <3>2. ASSUME NEW i \in DOMAIN table.rows
          PROVE  i \in DOMAIN filled /\ filled[i] = table.rows[i]
      BY <2>15, <2>16, Zenon
    <3>3. ASSUME NEW i \in DOMAIN filled \ DOMAIN table.rows
          PROVE  TakenFrom(s, filled[i])
      <4>1. PICK k \in DOMAIN rows : filled[i] = StoredRow(table.types, Fitted(s, rows[k]))
        BY <2>15, Zenon
      <4>2. TakenFrom(s, StoredRow(table.types, Fitted(s, rows[k])))
        BY <2>1, Zenon
      <4>3. QED
        BY <4>1, <4>2, Zenon
    <3>4. s.op # "delete" /\ s.op # "update"
      BY SMT
    <3>5. QED
      BY <3>1, <3>2, <3>3, <3>4, Zenon DEF Wrote
  <2>20. s.op \in WRITING
    BY Zenon DEF WRITING
  <2>21. QED
    BY <2>2, <2>10, <2>17, <2>18, <2>19, <2>20, KeepKeeps, Zenon
<1>3. QED
  BY <1>1, <1>2

LEMMA InsertValuesStep ==
    ASSUME IInv, NEW s, WellFormed(s), s.op = "insert_values", InsertValues(s),
           tables'[s.table].next <= MaxRows + 1
    PROVE  Faithful
<1>1. s.table \in Tables /\ IsList(s.into) /\ IsList(s.values) /\ 1 \in DOMAIN s.values
  BY Zenon DEF WellFormed
<1>2. \A i \in DOMAIN s.values : AreExpressions(s.values[i], {}) /\ Len(s.values[i]) = Len(s.values[1])
  BY Zenon DEF WellFormed
<1>3. CASE ~Made(s.table)
  BY <1>3, CountIsBounded, NumbersAreNotNought, RefusedKeeps, Zenon DEF InsertValues
<1>4. CASE Made(s.table)
  <2> DEFINE table == tables[s.table]
             rows == [i \in DOMAIN s.values |->
                        [p \in DOMAIN s.values[i] |-> Evaluate(s.values[i][p], <<>>, WithoutARead)]]
             refused == RefusedIn(rows)
  <2>1. TableOK(table) /\ table.types \in [COLUMNS -> Types] /\ table = tables[s.table]
    BY <1>1, <1>4, MadeIsTyped, Zenon
  <2>2. \/ refused # 0 /\ Refuse(s, refused, count)
        \/ refused = 0 /\ Put(s, table, Len(s.values[1]), rows, Len(s.values) + 1, count)
    BY <1>4, Zenon DEF InsertValues
  <2> HIDE DEF table
  <2>3. DOMAIN rows = DOMAIN s.values /\ \A i \in DOMAIN s.values : DOMAIN rows[i] = DOMAIN s.values[i]
    BY Zenon
  <2>4. ASSUME NEW i \in DOMAIN s.values, NEW p \in DOMAIN s.values[i]
        PROVE  Result(rows[i][p])
    <3>1. rows[i][p] = Evaluate(s.values[i][p], <<>>, WithoutARead)
      BY Zenon
    <3> HIDE DEF rows
    <3> DEFINE none == {}
               row == <<>>
    <3>2. IsExpression(s.values[i][p], none)
      BY <1>2, Zenon DEF AreExpressions
    <3>3. \A c \in none : IsValue(row[c])
      OBVIOUS
    <3> HIDE DEF none, row
    <3>4. Result(Evaluate(s.values[i][p], row, WithoutARead))
      BY <3>2, <3>3, ReadsKnow, EvaluateGives, Zenon
    <3> USE DEF row
    <3>5. QED
      BY <3>1, <3>4, Zenon
  <2>10. ASSUME NEW i \in DOMAIN s.values
         PROVE  TakenFrom(s, StoredRow(table.types, Fitted(s, rows[i])))
    <3> DEFINE row == StoredRow(tables[s.table].types, Fitted(s, rows[i]))
    <3>1. row = StoredRow(tables[s.table].types,
                          Fitted(s, [p \in DOMAIN s.values[i] |->
                                       Evaluate(s.values[i][p], <<>>, WithoutARead)]))
      BY Zenon
    <3> HIDE DEF row
    <3>2. TakenFrom(s, row)
      BY <3>1, Zenon DEF TakenFrom
    <3> USE DEF row
    <3>3. QED
      BY <2>1, <3>2
  <2> HIDE DEF rows
  <2>5. DOMAIN s.values = 1..Len(s.values) /\ Len(s.values) \in Nat
    BY <1>1, Zenon DEF IsList
  <2>6. \A i \in DOMAIN s.values : DOMAIN s.values[i] = 1..Len(s.values[1]) /\ Len(s.values[i]) \in Nat
    BY <1>2, Zenon DEF AreExpressions, IsList
  <2>7. CASE refused # 0 /\ Refuse(s, refused, count)
    BY <2>7, CountIsBounded, NumbersAreNotNought, RefusedKeeps, Zenon
  <2>8. CASE refused = 0 /\ Put(s, table, Len(s.values[1]), rows, Len(s.values) + 1, count)
    <3>1. \A i \in DOMAIN rows : \A p \in DOMAIN rows[i] : ~IsRefused(rows[i][p])
      <4>1. DOMAIN rows \subseteq Nat
        BY <2>3, <2>5, SMT
      <4>2. \A i \in DOMAIN rows : DOMAIN rows[i] \subseteq Nat
        BY <2>3, <2>6, SMT
      <4>3. \A i \in DOMAIN rows : \A p \in DOMAIN rows[i] : IsRefused(rows[i][p]) => rows[i][p].n # 0
        BY <2>3, <2>4, ValuesAreNotRefused, Zenon DEF Result, Wrong
      <4>4. QED
        BY <2>8, <4>1, <4>2, <4>3, NoneRefused, Zenon
    <3>2. \A i \in DOMAIN rows : \A p \in 1..Len(s.values[1]) : IsValue(rows[i][p])
      BY <2>3, <2>4, <2>6, <3>1, Zenon DEF Result, Wrong
    <3>3. Len(s.values) + 1 \in Nat \ {0} /\ DOMAIN rows \subseteq 1..(Len(s.values) + 1) - 1
      BY <2>3, <2>5, SMT
    <3>4. Len(s.values[1]) \in Nat
      BY <1>1, <2>6, Zenon
    <3>5. \A i \in DOMAIN rows : TakenFrom(s, StoredRow(table.types, Fitted(s, rows[i])))
      BY <2>3, <2>10, Zenon
    <3>6. s.op \in {"insert_values", "insert_select"}
      OBVIOUS
    <3>7. QED
      BY <1>1, <2>1, <2>8, <3>2, <3>3, <3>4, <3>5, <3>6, CountIsBounded, PutKeeps
  <2>9. QED
    BY <2>2, <2>7, <2>8
<1>5. QED
  BY <1>3, <1>4

(* NULL goes into any column as it is. *)
LEMMA IntoOfNull ==
    ASSUME NEW type
    PROVE  IntoAColumn(Null, type) = Null
<1>1. IsNull(Null) /\ ~IsText(Null)
  BY Fields, SMT DEF IsNull, IsText
<1>2. QED
  BY <1>1, Zenon DEF IntoAColumn, CastTo

(* Each row that an INSERT makes of a SELECT's is made of one it read.      *)
LEMMA SelectedIsTaken ==
    ASSUME NEW s, WellFormed(s), s.op = "insert_select", NEW hit, hit = Hit(tables[s.from], s.where),
           NEW read, AnswersAsRead(read, s.items, tables[s.from], hit, TRUE),
           Misfit(s, Len(s.items)) = 0, NEW i \in hit
    PROVE  TakenFrom(s, StoredRow(tables[s.table].types, Fitted(s, read.rows[i])))
<1> DEFINE n == Len(s.items)
           old == tables[s.from]
           types == tables[s.table].types
           fitted == Fitted(s, read.rows[i])
           row == StoredRow(types, fitted)
<1>1. n \in Nat /\ DOMAIN s.items = 1..n /\ IsList(s.into)
  BY Zenon DEF WellFormed, AreExpressions, IsList
<1>2. ASSUME NEW p \in 1..n, s.items[p][1] = "column"
      PROVE  read.rows[i][p] = old.rows[i][s.items[p][2]]
  BY <1>1, <1>2, Zenon DEF AnswersAsRead
<1>3. \A c \in COLUMNS : row[c] = IntoAColumn(fitted[c], types[c])
  BY Zenon DEF StoredRow
<1>4. ASSUME NEW c \in COLUMNS
      PROVE  \/ \E p \in From(s, c) : p \in 1..n /\ fitted[c] = read.rows[i][p]
             \/ From(s, c) = {} /\ fitted[c] = Null
  <2> DEFINE given == read.rows[i]
  <2>1. Misfit(s, n) = 0
    OBVIOUS
  <2> HIDE DEF n, given
  <2>2. \/ \E p \in From(s, c) : p \in 1..n /\ Fitted(s, given)[c] = given[p]
        \/ From(s, c) = {} /\ Fitted(s, given)[c] = Null
    BY <1>1, <2>1, FittedIs, Zenon
  <2> USE DEF given
  <2>3. QED
    BY <2>2
<1> HIDE DEF row, fitted, n, old, types
<1>5. ASSUME NEW c \in COLUMNS
      PROVE  \/ From(s, c) = {} /\ row[c] = Null
             \/ \E p \in From(s, c) :
                  s.items[p][1] = "column" => row[c] = IntoAColumn(old.rows[i][s.items[p][2]], types[c])
  <2>1. CASE From(s, c) = {} /\ fitted[c] = Null
    BY <1>3, <2>1, IntoOfNull
  <2>2. ASSUME NEW p \in From(s, c), p \in 1..n, fitted[c] = read.rows[i][p]
        PROVE  s.items[p][1] = "column" => row[c] = IntoAColumn(old.rows[i][s.items[p][2]], types[c])
    BY <1>2, <1>3, <2>2
  <2>3. QED
    BY <1>4, <2>1, <2>2, Zenon
<1>6. TakenFrom(s, row)
  <2>1. i \in Hit(tables[s.from], s.where)
    OBVIOUS
  <2>2. QED
    BY <1>5, <2>1, Zenon DEF TakenFrom, old, types
<1> USE DEF row, fitted, types
<1>7. QED
  BY <1>6

LEMMA InsertSelectStep ==
    ASSUME IInv, NEW s, WellFormed(s), s.op = "insert_select", InsertSelect(s),
           tables'[s.table].next <= MaxRows + 1
    PROVE  Faithful
<1>1. /\ s.table \in Tables /\ s.from \in Tables /\ IsList(s.into)
      /\ AreExpressions(s.items, COLUMNS)
  BY Zenon DEF WellFormed
<1>2. CASE ~Made(s.table) \/ ~Made(s.from)
  BY <1>2, CountIsBounded, NumbersAreNotNought, RefusedKeeps, Zenon DEF InsertSelect
<1>3. CASE Made(s.table) /\ Made(s.from)
  <2> DEFINE old == tables[s.from]
             table == tables[s.table]
             read == Asked(s.items, old, s.where)
             counted == Cardinality(DOMAIN read.rows)
  <2>1. /\ TableOK(old) /\ TableOK(table) /\ table.types \in [COLUMNS -> Types]
        /\ old = tables[s.from] /\ table = tables[s.table]
    BY <1>1, <1>3, MadeIsTyped, Zenon
  <2>2. \/ read.refused # 0 /\ Refuse(s, read.refused, count)
        \/ read.refused = 0 /\ Put(s, table, Len(s.items), read.rows, old.next, counted)
    BY <1>3, Zenon DEF InsertSelect
  <2> HIDE DEF old, table
  <2>3. CASE read.refused # 0 /\ Refuse(s, read.refused, count)
    BY <2>3, CountIsBounded, NumbersAreNotNought, RefusedKeeps, Zenon
  <2>4. CASE read.refused = 0 /\ Put(s, table, Len(s.items), read.rows, old.next, counted)
    <3> DEFINE hit == Hit(old, s.where)
    <3>7. AnswersAsRead(read, s.items, old, hit, TRUE) /\ hit \subseteq DOMAIN old.rows
      BY <1>1, <2>1, <2>4, AskedGives, Zenon
    <3> HIDE DEF read, hit
    <3>1. /\ DOMAIN read.rows \subseteq DOMAIN old.rows
          /\ \A i \in DOMAIN read.rows : \A p \in DOMAIN s.items : IsValue(read.rows[i][p])
      BY <3>7, Zenon DEF AnswersAsRead
    <3>2. counted \in 0..MaxRows
      BY <2>1, <3>1, PlacesAreCounted, Zenon
    <3>3. DOMAIN s.items = 1..Len(s.items) /\ Len(s.items) \in Nat
      BY <1>1, Zenon DEF AreExpressions, IsList
    <3>4. old.next \in Nat \ {0} /\ DOMAIN read.rows \subseteq 1..old.next - 1
      BY <2>1, <3>1, LimitsAssumption, SMT DEF TableOK
    <3> HIDE DEF counted
    <3>5. \A i \in DOMAIN read.rows : \A p \in 1..Len(s.items) : IsValue(read.rows[i][p])
      BY <3>1, <3>3, Zenon
    <3>6. ASSUME NEW i \in DOMAIN read.rows, Misfit(s, Len(s.items)) = 0
          PROVE  TakenFrom(s, StoredRow(table.types, Fitted(s, read.rows[i])))
      <4>1. i \in hit /\ hit = Hit(tables[s.from], s.where)
        BY <2>1, <3>7, Zenon DEF AnswersAsRead, hit
      <4>2. AnswersAsRead(read, s.items, tables[s.from], hit, TRUE)
        BY <2>1, <3>7
      <4>3. TakenFrom(s, StoredRow(tables[s.table].types, Fitted(s, read.rows[i])))
        BY <3>6, <4>1, <4>2, SelectedIsTaken
      <4>4. QED
        BY <2>1, <4>3
    <3>8. s.op \in {"insert_values", "insert_select"}
      OBVIOUS
    <3>9. QED
      BY <1>1, <2>1, <2>4, <3>2, <3>3, <3>4, <3>5, <3>6, <3>8, PutKeeps
  <2>5. QED
    BY <2>2, <2>3, <2>4
<1>4. QED
  BY <1>2, <1>3

(* ---- changing what it holds ---------------------------------------------*)

LEMMA DeleteStep ==
    ASSUME IInv, NEW s, WellFormed(s), s.op = "delete", Delete(s)
    PROVE  Faithful
<1>1. s.table \in Tables
  BY Zenon DEF WellFormed
<1>2. CASE ~Made(s.table)
  BY <1>2, CountIsBounded, NumbersAreNotNought, RefusedKeeps, Zenon DEF Delete
<1>3. CASE Made(s.table)
  <2> DEFINE old == tables[s.table]
             refused == RefusedIn(Conditions(old, s.where))
             hit == Hit(old, s.where)
             rows == [i \in DOMAIN old.rows \ hit |-> old.rows[i]]
             table == [types |-> old.types, rows |-> rows, next |-> old.next]
  <2>1. TableOK(old) /\ old.types \in [COLUMNS -> Types]
    BY <1>1, <1>3, MadeIsTyped, Zenon
  <2>2. \/ refused # 0 /\ Refuse(s, refused, count)
        \/ Keep(s, [old EXCEPT !.rows = rows], Cardinality(hit))
    BY <1>3, Zenon DEF Delete
  <2>3. CASE refused # 0 /\ Refuse(s, refused, count)
    <3> HIDE DEF refused
    <3>1. QED
      BY <2>3, CountIsBounded, NumbersAreNotNought, RefusedKeeps, Zenon
  <2>4. CASE Keep(s, [old EXCEPT !.rows = rows], Cardinality(hit))
    <3>1. hit \subseteq DOMAIN old.rows
      BY Zenon DEF Hit
    <3>8. old = tables[s.table] /\ hit = Hit(old, s.where)
      OBVIOUS
    <3> HIDE DEF old, hit
    <3>2. Cardinality(hit) \in 0..MaxRows
      BY <2>1, <3>1, PlacesAreCounted, Zenon
    <3>3. DOMAIN rows = DOMAIN old.rows \ hit /\ \A i \in DOMAIN rows : rows[i] = old.rows[i]
      BY Zenon
    <3> HIDE DEF rows
    <3>4. [old EXCEPT !.rows = rows] = table
      BY <2>1, ChangedTable, Zenon
    <3>5. TableOK(table)
      <4>1. /\ old.next \in 1..MaxRows + 1 /\ DOMAIN rows \subseteq 1..old.next - 1
            /\ \A i \in DOMAIN rows : \A c \in COLUMNS :
                 IsValue(rows[i][c]) /\ HeldBy(rows[i][c], old.types[c])
        BY <2>1, <3>3, Zenon DEF TableOK
      <4>2. QED
        BY <2>1, <4>1, NewTableIsOK, Zenon
    <3>6. Keep(s, table, Cardinality(hit))
      BY <2>4, <3>4, Zenon
    <3>7. table.rows = rows
      BY SMT
    <3> HIDE DEF table
    <3>9. tables'[s.table] = table
      BY <1>1, <3>6, KeptIsThere, Zenon
    <3>10. Touched(s, tables') = Cardinality(hit)
      <4> DEFINE before == DOMAIN old.rows
      <4>1. Touched(s, tables') = Rows(tables[s.table]) - Rows(tables'[s.table])
        BY Zenon DEF Touched
      <4>2. Rows(tables[s.table]) = Cardinality(before)
        BY <3>8, Zenon DEF Rows
      <4>3. Rows(tables'[s.table]) = Cardinality(before \ hit)
        BY <3>3, <3>7, <3>9, Zenon DEF Rows
      <4>4. IsFiniteSet(before)
        BY <2>1, PlacesAreFinite
      <4> HIDE DEF before
      <4>5. Cardinality(before \ hit) = Cardinality(before) - Cardinality(before \cap hit)
        BY <4>4, FS_Difference, Zenon
      <4>6. before \cap hit = hit
        BY <3>1 DEF before
      <4>7. Cardinality(before) \in Nat /\ Cardinality(hit) \in Nat
        BY <3>2, <4>4, FS_CardinalityType, LimitsAssumption, SMT
      <4>8. Touched(s, tables') = Cardinality(before) - Cardinality(before \ hit)
        BY <4>1, <4>2, <4>3
      <4>9. Cardinality(before \ hit) = Cardinality(before) - Cardinality(hit)
        BY <4>5, <4>6
      <4>10. QED
        BY <4>7, <4>8, <4>9
    <3>11. Wrote(s)
      <4>1. s.op \notin {"insert_values", "insert_select"} /\ s.op # "update"
        BY SMT
      <4>2. QED
        BY <3>3, <3>7, <3>8, <3>9, <4>1, Zenon DEF Wrote
    <3>12. s.op \in WRITING
      BY Zenon DEF WRITING
    <3>13. QED
      BY <1>1, <3>2, <3>5, <3>6, <3>10, <3>11, <3>12, KeepKeeps, Zenon
  <2>5. QED
    BY <2>2, <2>3, <2>4
<1>4. QED
  BY <1>2, <1>3

(* What an UPDATE asks of every row is a value for each that it gives, and  *)
(* a column's own where the column is of one kind.                          *)
AnswersEach(read, s, table) ==
    /\ DOMAIN read.rows = DOMAIN table.rows
    /\ \A i \in DOMAIN table.rows : \A p \in DOMAIN s.assigned :
         /\ IsValue(read.rows[i][p])
         /\ s.assigned[p][2][1] = "column" /\ OfOneKind(table, s.assigned[p][2][2]) =>
              read.rows[i][p] = table.rows[i][s.assigned[p][2][2]]

(* So it is where it is not refused: nothing that it works out is.          *)
LEMMA AnswersGive ==
    ASSUME IInv, NEW s, WellFormed(s), s.op = "update", NEW table, TableOK(table),
           Answers(s, table).refused = 0
    PROVE  AnswersEach(Answers(s, table), s, table)
<1> DEFINE values == [p \in DOMAIN s.assigned |-> s.assigned[p][2]]
           condition(i) == Condition(s.where, table.rows[i], InARead)
           worked(i) == [p \in DOMAIN values |-> Evaluate(values[p], table.rows[i], InARead)]
           told == [i \in DOMAIN table.rows |-> <<condition(i)>> \o worked(i)]
           read == Reading(values, table, DOMAIN table.rows, FALSE)
           n == Len(s.assigned)
<1>1. Answers(s, table) = [read EXCEPT !.refused = RefusedIn(told)]
  BY Zenon DEF Answers
<1>2. n \in Nat /\ DOMAIN s.assigned = 1..n
  BY Zenon DEF WellFormed, IsList
<1>3. DOMAIN values = 1..n /\ \A p \in 1..n : values[p] = s.assigned[p][2]
  BY <1>2, Zenon
<1>4. \A p \in 1..n : IsExpression(values[p], COLUMNS)
  BY <1>2, <1>3, Zenon DEF WellFormed
<1>5. AreExpressions(values, COLUMNS)
  <2> HIDE DEF n
  <2>1. Len(values) = n
    BY <1>2, SMT
  <2> HIDE DEF values
  <2>2. QED
    BY <1>2, <1>3, <1>4, <2>1, Zenon DEF AreExpressions, IsList
<1>6. read = [refused |-> read.refused, kinds |-> read.kinds, rows |-> read.rows]
  <2> DEFINE given == [i \in DOMAIN table.rows |->
                         [p \in DOMAIN values |-> Evaluate(values[p], table.rows[i], InARead)]]
             kinds == [p \in DOMAIN values |->
                         MadeKind(values[p], {given[i][p] : i \in DOMAIN table.rows}, table, FALSE)]
             rows == [i \in DOMAIN table.rows |-> [p \in DOMAIN values |->
                        MadeValue(values[p], given[i][p], kinds[p], FALSE)]]
  <2>1. read = [refused |-> RefusedIn(given), kinds |-> kinds, rows |-> rows]
    BY Zenon DEF Reading
  <2> HIDE DEF read, given, kinds, rows
  <2>2. QED
    BY <2>1, SMT
<1>7. Answers(s, table).refused = RefusedIn(told) /\ Answers(s, table).rows = read.rows
  <2> DEFINE answers == Answers(s, table)
             number == RefusedIn(told)
  <2>1. answers = [read EXCEPT !.refused = number]
    BY <1>1, Zenon
  <2> HIDE DEF answers, number, read
  <2>2. answers.refused = number /\ answers.rows = read.rows
    BY <1>6, <2>1, SMT
  <2> USE DEF answers, number
  <2>3. QED
    BY <2>2, Zenon
<1>8. ASSUME NEW i \in DOMAIN table.rows
      PROVE  /\ DOMAIN told[i] = 1..n + 1 /\ told[i][1] = condition(i)
             /\ \A p \in 1..n : told[i][p + 1] = Evaluate(values[p], table.rows[i], InARead)
  <2> DEFINE first == <<condition(i)>>
             rest == worked(i)
             S == {condition(i)} \cup {rest[p] : p \in 1..n}
  <2>1. told[i] = first \o rest
    BY Zenon
  <2>2. DOMAIN rest = 1..n /\ \A p \in 1..n : rest[p] = Evaluate(values[p], table.rows[i], InARead)
    BY <1>3, Zenon
  <2>3. rest = [p \in 1..n |-> rest[p]]
    BY <1>3, Zenon
  <2> HIDE DEF rest, told, n, condition, values
  <2>4. rest \in Seq(S) /\ Len(rest) = n
    BY <1>2, <2>3, SMT
  <2>5. first \in Seq(S) /\ Len(first) = 1 /\ first[1] = condition(i)
    BY SMT
  <2> HIDE DEF first, S
  <2>6. /\ Len(told[i]) = 1 + n
        /\ told[i] \in Seq(S)
        /\ \A j \in 1..1 + n : told[i][j] = IF j <= 1 THEN first[j] ELSE rest[j - 1]
    <3>1. /\ first \o rest \in Seq(S)
          /\ Len(first \o rest) = Len(first) + Len(rest)
          /\ \A j \in 1..Len(first) + Len(rest) :
               (first \o rest)[j] = IF j <= Len(first) THEN first[j] ELSE rest[j - Len(first)]
      BY <2>4, <2>5, ConcatProperties, Zenon
    <3> DEFINE both == first \o rest
    <3>2. told[i] = both
      BY <2>1
    <3> HIDE DEF both
    <3>3. QED
      BY <2>4, <2>5, <3>1, <3>2, Zenon DEF both
  <2>7. DOMAIN told[i] = 1..1 + n
    BY <2>6, LenProperties
  <2>8. \A p \in 1..n : told[i][p + 1] = rest[p]
    BY <1>2, <2>6, SMT
  <2>9. QED
    BY <1>2, <2>2, <2>5, <2>6, <2>7, <2>8, SMT
<1>9. ASSUME NEW i \in DOMAIN table.rows, NEW p \in 1..n
      PROVE  ~IsRefused(Evaluate(values[p], table.rows[i], InARead))
  <2>1. RefusedIn(told) = 0
    BY <1>7
  <2>2. DOMAIN told = DOMAIN table.rows
    BY Zenon
  <2> HIDE DEF told, condition, n
  <2>3. DOMAIN told \subseteq Nat /\ \A j \in DOMAIN told : DOMAIN told[j] \subseteq Nat
    <3>1. DOMAIN table.rows \subseteq Nat
      BY LimitsAssumption, SMT DEF TableOK
    <3>2. 1..n + 1 \subseteq Nat
      BY <1>2, SMT
    <3>3. QED
      BY <1>8, <2>2, <3>1, <3>2, Zenon
  <2>4. ASSUME NEW j \in DOMAIN told, NEW q \in DOMAIN told[j], IsRefused(told[j][q])
        PROVE  told[j][q].n # 0
    <3>1. j \in DOMAIN table.rows /\ q \in 1..n + 1
      BY <1>8, <2>2, Zenon
    <3>2. \A c \in COLUMNS : IsValue(table.rows[j][c])
      BY <3>1, Zenon DEF TableOK
    <3>3. CASE q = 1
      <4>1. told[j][q] = condition(j)
        BY <1>8, <3>1, <3>3, Zenon
      <4>2. IsCondition(s.where)
        BY Zenon DEF WellFormed
      <4> USE DEF condition
      <4>3. QED
        BY <2>4, <3>2, <4>1, <4>2, ConditionGives, Zenon
    <3>4. CASE q # 1
      <4>1. q - 1 \in 1..n /\ (q - 1) + 1 = q
        BY <1>2, <3>1, <3>4, SMT
      <4>2. told[j][q] = Evaluate(values[q - 1], table.rows[j], InARead)
        BY <1>8, <3>1, <4>1
      <4>3. Result(told[j][q])
        <5> HIDE DEF values
        <5>1. Result(Evaluate(values[q - 1], table.rows[j], InARead))
          BY <1>3, <1>5, <3>1, <4>1, EachGives, Zenon
        <5>2. QED
          BY <4>2, <5>1, Zenon
      <4>4. QED
        BY <2>4, <4>3, ValuesAreNotRefused, Zenon DEF Result, Wrong
    <3>5. QED
      BY <3>3, <3>4
  <2>5. \A j \in DOMAIN told : \A q \in DOMAIN told[j] : ~IsRefused(told[j][q])
    BY <2>1, <2>3, <2>4, NoneRefused, Zenon
  <2>6. p + 1 \in 1..n + 1
    BY <1>2, SMT
  <2>7. told[i][p + 1] = Evaluate(values[p], table.rows[i], InARead)
    BY <1>8, Zenon
  <2>8. i \in DOMAIN told /\ p + 1 \in DOMAIN told[i]
    BY <1>8, <2>2, <2>6
  <2>9. ~IsRefused(told[i][p + 1])
    BY <2>5, <2>8, Zenon
  <2>10. QED
    BY <2>7, <2>9
<1>10. /\ DOMAIN read.rows = DOMAIN table.rows
       /\ \A i \in DOMAIN table.rows : \A p \in DOMAIN values :
            /\ IsValue(read.rows[i][p])
            /\ values[p][1] = "column" /\ OfOneKind(table, values[p][2]) =>
                 read.rows[i][p] = table.rows[i][values[p][2]]
  <2> DEFINE places == DOMAIN table.rows
  <2>1. \A i \in places : \A p \in DOMAIN values :
          ~IsRefused(Evaluate(values[p], table.rows[i], InARead))
    BY <1>3, <1>9, Zenon
  <2> DEFINE asItIs == FALSE
             asked == Reading(values, table, places, asItIs)
  <2>2. asItIs \in BOOLEAN /\ places \subseteq DOMAIN table.rows /\ read = asked
    OBVIOUS
  <2> HIDE DEF values, places, asItIs, read
  <2>3. AnswersAsRead(asked, values, table, places, asItIs)
    BY <1>5, <2>1, <2>2, ReadingGives, Zenon
  <2> HIDE DEF asked
  <2>4. QED
    BY <2>2, <2>3, Zenon DEF places, AnswersAsRead
<1>11. DOMAIN values = DOMAIN s.assigned /\ \A p \in DOMAIN values : values[p] = s.assigned[p][2]
  BY Zenon
<1> DEFINE answers == Answers(s, table)
<1>12. answers.rows = read.rows
  BY <1>7
<1> HIDE DEF read, values, answers
<1>13. DOMAIN answers.rows = DOMAIN table.rows
  BY <1>10, <1>12
<1>14. ASSUME NEW i \in DOMAIN table.rows, NEW p \in DOMAIN s.assigned
       PROVE  /\ IsValue(answers.rows[i][p])
              /\ s.assigned[p][2][1] = "column" /\ OfOneKind(table, s.assigned[p][2][2]) =>
                   answers.rows[i][p] = table.rows[i][s.assigned[p][2][2]]
  <2>1. p \in DOMAIN values /\ values[p] = s.assigned[p][2]
    BY <1>11, Zenon
  <2>2. /\ IsValue(read.rows[i][p])
        /\ values[p][1] = "column" /\ OfOneKind(table, values[p][2]) =>
             read.rows[i][p] = table.rows[i][values[p][2]]
    BY <1>10, <2>1, Zenon
  <2> DEFINE e == s.assigned[p][2]
  <2>3. values[p] = e
    BY <2>1
  <2> HIDE DEF e
  <2>4. /\ IsValue(answers.rows[i][p])
        /\ e[1] = "column" /\ OfOneKind(table, e[2]) => answers.rows[i][p] = table.rows[i][e[2]]
    BY <1>12, <2>2, <2>3
  <2> USE DEF e
  <2>5. QED
    BY <2>4
<1>15. AnswersEach(answers, s, table)
  BY <1>13, <1>14, Zenon DEF AnswersEach
<1> USE DEF answers
<1>16. QED
  BY <1>15

(* The places in an UPDATE's list at which it gives a column its value, and *)
(* what it leaves in a column of a row it hits.                             *)
Given(s, c) == {p \in DOMAIN s.assigned : s.assigned[p][1] = c}

LEMMA ChangedIs ==
    ASSUME NEW s, NEW table, NEW row, NEW values, NEW c \in COLUMNS
    PROVE  /\ Given(s, c) = {} => Changed(s, table, row, values)[c] = row[c]
           /\ Given(s, c) # {} =>
                Changed(s, table, row, values)[c] =
                  IntoAColumn(values[Latest(Given(s, c))], table.types[c])
BY Zenon DEF Changed, Given

(* A column that is given another's value last, and that other of one kind, *)
(* is given what it held.                                                   *)
LEMMA ChangedFollows ==
    ASSUME NEW s, IsList(s.assigned), \A p \in DOMAIN s.assigned : s.assigned[p][1] \in COLUMNS,
           NEW table, NEW read, AnswersEach(read, s, table), NEW i \in DOMAIN table.rows,
           NEW after, after = Changed(s, table, table.rows[i], read.rows[i])
    PROVE  Follows(s, table, i, after)
<1> SUFFICES ASSUME NEW p \in DOMAIN s.assigned, s.assigned[p][2][1] = "column",
                    OfOneKind(table, s.assigned[p][2][2]),
                    \A q \in DOMAIN s.assigned : s.assigned[q][1] = s.assigned[p][1] => q <= p
             PROVE  after[s.assigned[p][1]] =
                      IntoAColumn(table.rows[i][s.assigned[p][2][2]], table.types[s.assigned[p][1]])
  BY Zenon DEF Follows
<1> DEFINE to == s.assigned[p][1]
           given == Given(s, to)
<1>1. Len(s.assigned) \in Nat /\ DOMAIN s.assigned = 1..Len(s.assigned)
  BY Zenon DEF IsList
<1>2. to \in COLUMNS /\ p \in given /\ given \subseteq DOMAIN s.assigned
  BY Zenon DEF Given
<1>3. \A q \in given : q <= p
  BY Zenon DEF Given
<1>4. Latest(given) = p
  <2> HIDE DEF given
  <2>1. Latest(given) \in given /\ \A q \in given : q <= Latest(given)
    <3>1. given \subseteq 1..Len(s.assigned) /\ given # {}
      BY <1>1, <1>2
    <3>2. QED
      BY <1>1, <3>1, LatestIsOne
  <2>2. Latest(given) <= p /\ p <= Latest(given)
    BY <1>2, <1>3, <2>1
  <2>3. Latest(given) \in Int /\ p \in Int
    BY <1>1, <1>2, <2>1
  <2>4. QED
    BY <2>2, <2>3
<1>5. after[to] = IntoAColumn(read.rows[i][p], table.types[to])
  <2>1. given # {}
    BY <1>2
  <2>2. Changed(s, table, table.rows[i], read.rows[i])[to] =
          IntoAColumn(read.rows[i][Latest(given)], table.types[to])
    BY <1>2, <2>1, ChangedIs
  <2>3. QED
    BY <1>4, <2>2
<1>6. read.rows[i][p] = table.rows[i][s.assigned[p][2][2]]
  BY Zenon DEF AnswersEach
<1>7. QED
  BY <1>5, <1>6

LEMMA UpdateStep ==
    ASSUME IInv, NEW s, WellFormed(s), s.op = "update", Update(s)
    PROVE  Faithful
<1>1. s.table \in Tables /\ IsList(s.assigned)
  BY Zenon DEF WellFormed
<1>2. CASE ~Made(s.table) \/ \E p \in DOMAIN s.assigned : s.assigned[p][1] \notin COLUMNS
  BY <1>2, CountIsBounded, NumbersAreNotNought, RefusedKeeps, Zenon DEF Update
<1>3. CASE Made(s.table) /\ ~\E p \in DOMAIN s.assigned : s.assigned[p][1] \notin COLUMNS
  <2> DEFINE old == tables[s.table]
             read == Answers(s, old)
             hit == Hit(old, s.where)
             all == Cardinality(DOMAIN old.rows)
             changed == [i \in hit |-> Changed(s, old, old.rows[i], read.rows[i])]
             rows == [i \in DOMAIN old.rows |-> IF i \in hit THEN changed[i] ELSE old.rows[i]]
             table == [types |-> old.types, rows |-> rows, next |-> old.next]
  <2>1. TableOK(old) /\ old.types \in [COLUMNS -> Types]
    BY <1>1, <1>3, MadeIsTyped, Zenon
  <2>2. \/ read.refused # 0 /\ Refuse(s, read.refused, count)
        \/ read.refused = 0 /\ RefusedIn(changed) # 0 /\ Refuse(s, RefusedIn(changed), all)
        \/ /\ read.refused = 0 /\ RefusedIn(changed) = 0
           /\ Keep(s, [old EXCEPT !.rows = rows], Cardinality(hit))
    BY <1>3, Zenon DEF Update
  <2>3. hit \subseteq DOMAIN old.rows
    BY Zenon DEF Hit
  <2>8. old = tables[s.table] /\ hit = Hit(old, s.where)
    OBVIOUS
  <2> HIDE DEF old, hit
  <2>4. CASE read.refused # 0 /\ Refuse(s, read.refused, count)
    <3> HIDE DEF read
    <3>1. QED
      BY <2>4, CountIsBounded, NumbersAreNotNought, RefusedKeeps, Zenon
  <2>5. CASE RefusedIn(changed) # 0 /\ Refuse(s, RefusedIn(changed), all)
    <3> DEFINE number == RefusedIn(changed)
               places == DOMAIN old.rows
    <3>1. all \in 0..MaxRows
      <4>1. places \subseteq DOMAIN old.rows
        OBVIOUS
      <4> HIDE DEF places
      <4>2. Cardinality(places) \in 0..MaxRows
        BY <2>1, <4>1, PlacesAreCounted, Zenon
      <4>3. QED
        BY <4>2 DEF places
    <3>2. number # 0 /\ Refuse(s, number, all)
      BY <2>5
    <3> HIDE DEF number, all
    <3>3. QED
      BY <3>1, <3>2, RefusedKeeps, Zenon
  <2>6. CASE /\ read.refused = 0 /\ RefusedIn(changed) = 0
             /\ Keep(s, [old EXCEPT !.rows = rows], Cardinality(hit))
    <3>14. AnswersEach(read, s, old)
      BY <2>1, <2>6, AnswersGive, Zenon
    <3> HIDE DEF read
    <3>1. \A i \in DOMAIN old.rows : \A p \in DOMAIN s.assigned : IsValue(read.rows[i][p])
      BY <3>14, Zenon DEF AnswersEach
    <3>2. DOMAIN changed = hit /\ \A i \in hit : changed[i] = Changed(s, old, old.rows[i], read.rows[i])
      BY Zenon
    <3> HIDE DEF changed
    <3>3. ASSUME NEW i \in hit, NEW c \in COLUMNS
          PROVE  Fits(changed[i][c], old.types[c])
      <4> DEFINE given == Given(s, c)
      <4>1. i \in DOMAIN old.rows
        BY <2>3
      <4>2. changed[i] = Changed(s, old, old.rows[i], read.rows[i])
        BY <3>2
      <4>3. CASE given = {}
        <5>1. changed[i][c] = old.rows[i][c]
          BY <4>2, <4>3, ChangedIs
        <5>2. QED
          BY <2>1, <4>1, <5>1, Zenon DEF TableOK, Fits
      <4>4. CASE given # {}
        <5>1. given \subseteq DOMAIN s.assigned
          BY Zenon DEF Given
        <5> HIDE DEF given
        <5>2. Latest(given) \in DOMAIN s.assigned
          <6>1. Len(s.assigned) \in Nat /\ given \subseteq 1..Len(s.assigned)
            BY <1>1, <5>1, Zenon DEF IsList
          <6>2. Latest(given) \in given
            BY <4>4, <6>1, LatestIsOne
          <6>3. QED
            BY <5>1, <6>2
        <5>3. IsValue(read.rows[i][Latest(given)])
          BY <3>1, <4>1, <5>2, Zenon
        <5>4. old.types[c] \in Types
          BY <2>1, SMT
        <5> USE DEF given
        <5>5. changed[i][c] = IntoAColumn(read.rows[i][Latest(given)], old.types[c])
          BY <4>2, <4>4, ChangedIs
        <5> HIDE DEF given
        <5>6. QED
          BY <5>3, <5>4, <5>5, IntoGives, Zenon
      <4>5. QED
        BY <4>3, <4>4
    <3>4. \A i \in hit : DOMAIN changed[i] = COLUMNS
      BY <3>2, Zenon DEF Changed
    <3>5. hit \subseteq Nat
      BY <2>1, <2>3, LimitsAssumption, SMT DEF TableOK
    <3>6. \A i \in hit : \A c \in COLUMNS :
            IsValue(changed[i][c]) /\ HeldBy(changed[i][c], old.types[c])
      BY <2>6, <3>2, <3>3, <3>4, <3>5, RowsFit, Zenon
    <3>7. /\ DOMAIN rows = DOMAIN old.rows
          /\ \A i \in DOMAIN rows : rows[i] = IF i \in hit THEN changed[i] ELSE old.rows[i]
      BY Zenon
    <3> HIDE DEF rows
    <3>8. \A i \in DOMAIN rows : \A c \in COLUMNS :
            IsValue(rows[i][c]) /\ HeldBy(rows[i][c], old.types[c])
      BY <2>1, <3>6, <3>7, Zenon DEF TableOK
    <3>9. old.next \in 1..MaxRows + 1 /\ DOMAIN rows \subseteq 1..old.next - 1
      BY <2>1, <3>7, Zenon DEF TableOK
    <3>10. TableOK(table)
      BY <2>1, <3>8, <3>9, NewTableIsOK, Zenon
    <3>11. Keep(s, table, Cardinality(hit))
      BY <2>1, <2>6, ChangedTable, Zenon
    <3>12. Cardinality(hit) \in 0..MaxRows
      BY <2>1, <2>3, PlacesAreCounted, Zenon
    <3>13. table.rows = rows
      BY SMT
    <3> HIDE DEF table
    <3>15. tables'[s.table].rows = rows
      BY <1>1, <3>11, <3>13, KeptIsThere, Zenon
    <3>16. ASSUME NEW i \in hit
           PROVE  Follows(s, old, i, rows[i])
      <4>1. i \in DOMAIN old.rows
        BY <2>3
      <4>2. rows[i] = Changed(s, old, old.rows[i], read.rows[i])
        BY <2>3, <3>2, <3>7
      <4> HIDE DEF rows
      <4>3. QED
        BY <1>1, <1>3, <3>14, <4>1, <4>2, ChangedFollows
    <3>17. Wrote(s)
      <4>1. DOMAIN rows = DOMAIN old.rows
            /\ \A i \in DOMAIN old.rows :
                 IF i \in hit THEN Follows(s, old, i, rows[i]) ELSE rows[i] = old.rows[i]
        BY <3>7, <3>16, Zenon
      <4>2. s.op \notin {"insert_values", "insert_select"} /\ s.op # "delete"
        BY SMT
      <4>3. QED
        BY <2>8, <3>15, <4>1, <4>2, Zenon DEF Wrote
    <3>18. Touched(s, tables') = Cardinality(hit)
      BY <2>8, Zenon DEF Touched
    <3>19. s.op \in WRITING
      BY Zenon DEF WRITING
    <3>20. QED
      BY <1>1, <3>10, <3>11, <3>12, <3>17, <3>18, <3>19, KeepKeeps, Zenon
  <2>7. QED
    BY <2>2, <2>4, <2>5, <2>6
<1>4. QED
  BY <1>2, <1>3

(* ---- the variable -------------------------------------------------------*)

(* A statement that writes no table is the variable's or the end of a batch. *)
LEMMA NoTableIsWritten ==
    ASSUME IInv', NEW s, tables' = tables, last'.did = s, last'.refused = 0,
           count' = Touched(s, tables'),
           s.op \in {"declare", "set", "select_assigns", "end"}
    PROVE  Faithful
<1>1. Counted
  BY Zenon DEF Counted
<1>2. WroteWhatItRead
  BY Zenon DEF WroteWhatItRead
<1>3. QED
  BY <1>1, <1>2, Zenon DEF Faithful

LEMMA DeclareStep ==
    ASSUME IInv, NEW s, WellFormed(s), s.op = "declare", Declare(s)
    PROVE  Faithful
<1>1. s.type \in Types
  BY Zenon DEF WellFormed
<1>2. tables' = tables /\ count' = count /\ variable' = [type |-> s.type, value |-> Null]
  BY Zenon DEF Declare
<1>3. variable'.type = s.type /\ variable'.value = Null
  BY <1>2, SMT
<1>4. variable' = [type |-> variable'.type, value |-> variable'.value]
  BY <1>2, SMT
<1>5. IsValue(Null) /\ HeldBy(Null, s.type)
  <2>1. IsNull(Null)
    BY Fields, SMT DEF IsNull
  <2>2. QED
    BY <2>1, ValuesAreMade, NullIsHeld, Zenon
<1>6. VariableOK(variable')
  BY <1>1, <1>3, <1>4, <1>5, Zenon DEF VariableOK
<1>7. IInv'
  BY <1>2, <1>6, Zenon DEF IInv
<1>8. last'.did = s /\ last'.refused = 0
  BY SMT DEF Declare
<1>9. Touched(s, tables') = count
  BY Zenon DEF Touched
<1>10. QED
  BY <1>2, <1>7, <1>8, <1>9, NoTableIsWritten

(* A value assigned is one the variable's type can hold, or is refused.     *)
LEMMA HeldGives ==
    ASSUME IInv, variable.type # None, NEW v, Result(v), NEW written \in BOOLEAN
    PROVE  /\ Result(Held(v, written).value)
           /\ ~IsRefused(Held(v, written).value) => VariableOK(Held(v, written))
<1> DEFINE given == CastTo(v, variable.type, written)
           held == Held(v, written)
<1>1. /\ variable = [type |-> variable.type, value |-> variable.value]
      /\ variable.type \in Types
  BY Zenon DEF IInv, VariableOK
<1>2. Fits(given, variable.type)
  BY <1>1, CastOfAResult
<1>3. held = [variable EXCEPT !.value = given]
  BY Zenon DEF Held
<1> HIDE DEF given, held
<1>4. held = [type |-> variable.type, value |-> given]
  BY <1>1, <1>3, SMT
<1>5. held.type = variable.type /\ held.value = given
  BY <1>4, SMT
<1>6. held = [type |-> held.type, value |-> held.value]
  BY <1>4, <1>5, Zenon
<1>7. Result(held.value)
  BY <1>2, <1>5, Zenon DEF Fits, Result
<1>8. ~IsRefused(held.value) => VariableOK(held)
  BY <1>1, <1>2, <1>5, <1>6, Zenon DEF Fits, Wrong, VariableOK
<1> USE DEF held
<1>9. QED
  BY <1>7, <1>8, Zenon

(* What is refused is refused with a number. *)
LEMMA RefusedIsNumbered ==
    ASSUME NEW v, Result(v), IsRefused(v)
    PROVE  v.n # 0
BY ValuesAreNotRefused, Zenon DEF Result, Wrong

LEMMA RoundsIsEither == \A e : RoundsAsWritten(e) \in BOOLEAN
BY Zenon DEF RoundsAsWritten

LEMMA SetStep ==
    ASSUME IInv, NEW s, WellFormed(s), s.op = "set", SetVariable(s)
    PROVE  Faithful
<1> DEFINE none == {}
           row == <<>>
           v == Evaluate(s.value, row, WithoutARead)
           held == Held(v, RoundsAsWritten(s.value))
<1>1. variable.type # None
  BY Zenon DEF SetVariable
<1>2. \/ IsRefused(held.value) /\ Refuse(s, held.value.n, count)
      \/ /\ ~IsRefused(held.value) /\ variable' = held /\ count' = 1 /\ tables' = tables
         /\ last' = [did |-> s, refused |-> 0]
  BY Zenon DEF SetVariable
<1>3. IsExpression(s.value, none)
  BY Zenon DEF WellFormed
<1>4. \A c \in none : IsValue(row[c])
  OBVIOUS
<1> HIDE DEF none, row
<1>5. Result(v)
  BY <1>3, <1>4, ReadsKnow, EvaluateGives, Zenon
<1>6. Result(held.value) /\ (~IsRefused(held.value) => VariableOK(held))
  BY <1>1, <1>5, HeldGives, RoundsIsEither, Zenon
<1> HIDE DEF held
<1>7. CASE IsRefused(held.value) /\ Refuse(s, held.value.n, count)
  BY <1>6, <1>7, CountIsBounded, RefusedIsNumbered, RefusedKeeps, Zenon
<1>8. CASE /\ ~IsRefused(held.value) /\ variable' = held /\ count' = 1 /\ tables' = tables
           /\ last' = [did |-> s, refused |-> 0]
  <2>1. IInv'
    BY <1>6, <1>8, CountIsBounded, Zenon DEF IInv
  <2>2. last'.did = s /\ last'.refused = 0
    BY <1>8, SMT
  <2>3. Touched(s, tables') = 1
    BY Zenon DEF Touched
  <2>4. QED
    BY <1>8, <2>1, <2>2, <2>3, NoTableIsWritten
<1>9. QED
  BY <1>2, <1>7, <1>8

LEMMA GiveKeeps ==
    ASSUME IInv, NEW s, s.op = "select_assigns",
           NEW places, places = Hit(tables[s.from], s.where), Cardinality(places) \in 0..MaxRows,
           NEW held, Result(held.value), ~IsRefused(held.value) => VariableOK(held),
           Give(s, places, held)
    PROVE  Faithful
<1>1. CASE IsRefused(held.value)
  BY <1>1, CountIsBounded, RefusedIsNumbered, RefusedKeeps, Zenon DEF Give
<1>2. CASE ~IsRefused(held.value)
  <2>1. variable' = held /\ count' = Cardinality(places) /\ tables' = tables
    BY <1>2, Zenon DEF Give
  <2>2. IInv'
    BY <1>2, <2>1, Zenon DEF IInv
  <2>3. last'.did = s /\ last'.refused = 0
    BY <1>2, SMT DEF Give
  <2>4. Touched(s, tables') = Cardinality(places)
    BY Zenon DEF Touched
  <2>5. QED
    BY <2>1, <2>2, <2>3, <2>4, NoTableIsWritten
<1>3. QED
  BY <1>1, <1>2

LEMMA LatestPlace ==
    ASSUME NEW table, TableOK(table), NEW places, places \subseteq DOMAIN table.rows, places # {}
    PROVE  Latest(places) \in places
<1>1. places \subseteq 1..table.next - 1
  BY Zenon DEF TableOK
<1>2. table.next - 1 \in Nat
  BY LimitsAssumption, SMT DEF TableOK
<1>3. QED
  BY <1>1, <1>2, LatestIsOne

LEMMA AssignLastKeeps ==
    ASSUME IInv, variable.type # None, NEW s, NEW table, TableOK(table),
           NEW places, places = Hit(tables[s.from], s.where), places \subseteq DOMAIN table.rows,
           s.op = "select_assigns", s.value[2] \in COLUMNS,
           AssignLast(s, table, places)
    PROVE  Faithful
<1> DEFINE v == table.rows[Latest(places)][s.value[2]]
           held == IF places = {} THEN variable ELSE Held(v, FALSE)
<1>1. Give(s, places, held)
  BY Zenon DEF AssignLast
<1>2. Result(held.value) /\ (~IsRefused(held.value) => VariableOK(held))
  <2>1. CASE places = {}
    BY <2>1, Zenon DEF IInv, VariableOK, Result
  <2>2. CASE places # {}
    <3>1. Latest(places) \in DOMAIN table.rows
      BY <2>2, LatestPlace
    <3>2. Result(v)
      BY <3>1, Zenon DEF TableOK, Result
    <3>3. FALSE \in BOOLEAN
      OBVIOUS
    <3> HIDE DEF v
    <3>4. QED
      BY <2>2, <3>2, <3>3, HeldGives, Zenon
  <2>3. QED
    BY <2>1, <2>2
<1> HIDE DEF held
<1>3. Cardinality(places) \in 0..MaxRows
  BY PlacesAreCounted
<1>4. QED
  BY <1>1, <1>2, <1>3, GiveKeeps, Zenon

LEMMA AssignEachKeeps ==
    ASSUME IInv, variable.type # None, NEW s, IsExpression(s.value, COLUMNS), s.value[1] # "column",
           NEW table, TableOK(table),
           NEW places, places = Hit(tables[s.from], s.where), places \subseteq DOMAIN table.rows,
           s.op = "select_assigns", AssignEach(s, table, places)
    PROVE  Faithful
<1> DEFINE held == [i \in places |->
                      Held(Evaluate(s.value, table.rows[i], InARead), RoundsAsWritten(s.value))]
           refusing == {i \in places : IsRefused(held[i].value)}
           given == {i \in places : \A r \in refusing : i < r}
           values == {held[i].value : i \in places}
           kind == MadeKind(s.value, values, table, TRUE)
           kept == IF given = {} THEN variable ELSE held[Latest(given)]
           made == IF places = {} THEN variable
                   ELSE Held(InColumn(held[Latest(places)].value, kind), FALSE)
<1>1. \/ refusing # {} /\ RefuseHolding(s, held[First(refusing)].value.n, count, kept)
      \/ refusing = {} /\ Give(s, places, made)
  BY Zenon DEF AssignEach
<1>2. ASSUME NEW i \in places
      PROVE  Result(held[i].value) /\ (~IsRefused(held[i].value) => VariableOK(held[i]))
  <2> DEFINE v == Evaluate(s.value, table.rows[i], InARead)
  <2>1. \A c \in COLUMNS : IsValue(table.rows[i][c])
    BY Zenon DEF TableOK
  <2>2. Result(v)
    BY <2>1, ReadsKnow, EvaluateGives, Zenon
  <2>3. held[i] = Held(v, RoundsAsWritten(s.value))
    BY Zenon
  <2> HIDE DEF v, held
  <2>4. QED
    BY <2>2, <2>3, HeldGives, RoundsIsEither, Zenon
<1> HIDE DEF held
<1>3. CASE refusing # {} /\ RefuseHolding(s, held[First(refusing)].value.n, count, kept)
  <2>1. VariableOK(kept)
    <3>1. CASE given = {}
      BY <3>1, Zenon DEF IInv
    <3>2. CASE given # {}
      <4>1. given \subseteq DOMAIN table.rows
        BY Zenon
      <4>2. Latest(given) \in given
        <5> HIDE DEF given
        <5>1. QED
          BY <3>2, <4>1, LatestPlace
      <4>3. Latest(given) \in places /\ Latest(given) \in Nat
        <5>1. places \subseteq Nat
          BY LimitsAssumption, SMT DEF TableOK
        <5>2. QED
          BY <4>2, <5>1, Zenon
      <4>4. Latest(given) \notin refusing
        <5>1. ~(Latest(given) < Latest(given))
          BY <4>3, SMT
        <5>2. QED
          BY <4>2, <5>1, Zenon
      <4> HIDE DEF given
      <4>5. ~IsRefused(held[Latest(given)].value)
        BY <4>3, <4>4, Zenon
      <4>6. QED
        BY <1>2, <3>2, <4>3, <4>5, Zenon
    <3>3. QED
      BY <3>1, <3>2
  <2> DEFINE number == held[First(refusing)].value.n
  <2>2. number # 0
    <3>1. First(refusing) \in refusing
      <4>1. refusing \subseteq Nat
        BY LimitsAssumption, SMT DEF TableOK
      <4> HIDE DEF refusing
      <4>2. QED
        BY <1>3, <4>1, FirstIsOne
    <3>2. Result(held[First(refusing)].value) /\ IsRefused(held[First(refusing)].value)
      BY <1>2, <3>1, Zenon
    <3>3. QED
      BY <3>2, RefusedIsNumbered
  <2>3. RefuseHolding(s, number, count, kept)
    BY <1>3
  <2> HIDE DEF kept, number
  <2>4. QED
    BY <2>1, <2>2, <2>3, CountIsBounded, RefuseKeeps, Zenon
<1>4. CASE refusing = {} /\ Give(s, places, made)
  <2>1. Result(made.value) /\ (~IsRefused(made.value) => VariableOK(made))
    <3>1. CASE places = {}
      BY <3>1, Zenon DEF IInv, VariableOK, Result
    <3>2. CASE places # {}
      <4> DEFINE v == held[Latest(places)].value
      <4>1. \A i \in places : IsValue(held[i].value)
        BY <1>2, <1>4, Zenon DEF Result, Wrong
      <4>2. \A w \in values : IsValue(w)
        BY <4>1, Zenon
      <4>3. Latest(places) \in places
        BY <3>2, LatestPlace
      <4>4. v \in values
        BY <4>3, Zenon
      <4>5. (\A w \in values : IsNull(w)) \/ kind = KindOfColumn(values)
        BY Zenon DEF MadeKind
      <4> HIDE DEF v, values, kind
      <4>6. Result(InColumn(v, kind))
        BY <4>2, <4>4, <4>5, InColumnGives, Zenon DEF Result
      <4>7. FALSE \in BOOLEAN
        OBVIOUS
      <4>8. made = Held(InColumn(v, kind), FALSE)
        BY <3>2, Zenon DEF v
      <4> HIDE DEF made
      <4>9. QED
        BY <4>6, <4>7, <4>8, HeldGives, Zenon
    <3>3. QED
      BY <3>1, <3>2
  <2>2. Cardinality(places) \in 0..MaxRows
    BY PlacesAreCounted
  <2> HIDE DEF made
  <2>3. QED
    BY <1>4, <2>1, <2>2, GiveKeeps, Zenon
<1>5. QED
  BY <1>1, <1>3, <1>4

LEMMA SelectAssignsStep ==
    ASSUME IInv, NEW s, WellFormed(s), s.op = "select_assigns", SelectAssigns(s)
    PROVE  Faithful
<1>1. s.from \in Tables /\ IsExpression(s.value, COLUMNS)
  BY Zenon DEF WellFormed
<1>2. variable.type # None
  BY Zenon DEF SelectAssigns
<1>3. CASE ~Made(s.from)
  BY <1>3, CountIsBounded, NumbersAreNotNought, RefusedKeeps, Zenon DEF SelectAssigns
<1>4. CASE Made(s.from)
  <2> DEFINE table == tables[s.from]
             refused == RefusedIn(Conditions(table, s.where))
             places == Hit(table, s.where)
  <2>1. TableOK(table)
    BY <1>1, <1>4, MadeIsTyped, Zenon
  <2>2. \/ refused # 0 /\ Refuse(s, refused, count)
        \/ s.value[1] = "column" /\ AssignLast(s, table, places)
        \/ s.value[1] # "column" /\ AssignEach(s, table, places)
    BY <1>4, Zenon DEF SelectAssigns
  <2>3. places \subseteq DOMAIN table.rows
    BY Zenon DEF Hit
  <2>4. s.value[1] = "column" => s.value[2] \in COLUMNS
    BY <1>1, Zenon DEF IsExpression, IsAtom
  <2>9. places = Hit(tables[s.from], s.where)
    OBVIOUS
  <2> HIDE DEF table, refused, places
  <2>5. CASE refused # 0 /\ Refuse(s, refused, count)
    BY <2>5, CountIsBounded, NumbersAreNotNought, RefusedKeeps, Zenon
  <2>6. CASE s.value[1] = "column" /\ AssignLast(s, table, places)
    BY <1>2, <2>1, <2>3, <2>4, <2>6, <2>9, AssignLastKeeps, Zenon
  <2>7. CASE s.value[1] # "column" /\ AssignEach(s, table, places)
    BY <1>1, <1>2, <2>1, <2>3, <2>7, <2>9, AssignEachKeeps, Zenon
  <2>8. QED
    BY <2>2, <2>5, <2>6, <2>7
<1>5. QED
  BY <1>3, <1>4

-------------------------------------------------------------------------------
(* The theorems.                                                           *)

LEMMA IInvInit == Init => IInv
<1> SUFFICES ASSUME Init
             PROVE  IInv
  OBVIOUS
<1>1. tables = [name \in Tables |-> NotMade] /\ variable = Undeclared /\ count = 0
  BY Zenon DEF Init
<1>2. tables = [name \in Tables |-> tables[name]] /\ \A name \in Tables : tables[name] = NotMade
  BY <1>1, Zenon
<1>3. 0 \in 0..MaxRows
  BY LimitsAssumption, SMT
<1>4. QED
  BY <1>1, <1>2, <1>3, NotMadeIsOK, UndeclaredIsOK, Zenon DEF IInv

LEMMA EndStep ==
    ASSUME IInv, NEW s, s.op = "end", EndBatch(s)
    PROVE  Faithful
<1>1. tables' = tables /\ count' = count /\ variable' = Undeclared
  BY Zenon DEF EndBatch
<1>2. IInv'
  BY <1>1, UndeclaredIsOK, Zenon DEF IInv
<1>3. last'.did = s /\ last'.refused = 0
  BY SMT DEF EndBatch
<1>4. Touched(s, tables') = count
  BY Zenon DEF Touched
<1>5. QED
  BY <1>1, <1>2, <1>3, <1>4, NoTableIsWritten

LEMMA NextIsFaithful == IInv /\ Next => Faithful
<1> SUFFICES ASSUME IInv, Next
             PROVE  Faithful
  OBVIOUS
<1>1. PICK s \in Statements : Run(s)
  BY Zenon DEF Next
<1>2. WellFormed(s)
  BY StatementsAssumption
<1>3. \A name \in Tables : tables'[name].next <= MaxRows + 1
  BY Zenon DEF Next
<1>4. CASE s.op = "create" /\ Create(s)
  BY <1>2, <1>4, CreateStep
<1>5. CASE s.op = "drop" /\ Drop(s)
  BY <1>2, <1>5, DropStep
<1>6. CASE s.op = "make_from" /\ MakeFrom(s)
  BY <1>2, <1>6, MakeFromStep
<1>7. CASE s.op = "truncate" /\ Truncate(s)
  BY <1>2, <1>7, TruncateStep
<1>8. CASE s.op = "insert_values" /\ InsertValues(s)
  <2>1. s.table \in Tables
    BY <1>2, <1>8, Zenon DEF WellFormed
  <2>2. QED
    BY <1>2, <1>3, <1>8, <2>1, InsertValuesStep
<1>9. CASE s.op = "insert_select" /\ InsertSelect(s)
  <2>1. s.table \in Tables
    BY <1>2, <1>9, Zenon DEF WellFormed
  <2>2. QED
    BY <1>2, <1>3, <1>9, <2>1, InsertSelectStep
<1>10. CASE s.op = "update" /\ Update(s)
  BY <1>2, <1>10, UpdateStep
<1>11. CASE s.op = "delete" /\ Delete(s)
  BY <1>2, <1>11, DeleteStep
<1>12. CASE s.op = "declare" /\ Declare(s)
  BY <1>2, <1>12, DeclareStep
<1>13. CASE s.op = "set" /\ SetVariable(s)
  BY <1>2, <1>13, SetStep
<1>14. CASE s.op = "select_assigns" /\ SelectAssigns(s)
  BY <1>2, <1>14, SelectAssignsStep
<1>15. CASE s.op = "end" /\ EndBatch(s)
  BY <1>15, EndStep
<1>16. QED
  BY <1>1, <1>4, <1>5, <1>6, <1>7, <1>8, <1>9, <1>10, <1>11, <1>12, <1>13, <1>14, <1>15, Zenon DEF Run

LEMMA IInvNext == IInv /\ [Next]_vars => IInv'
<1>1. IInv /\ UNCHANGED vars => IInv'
  BY Zenon DEF vars, IInv
<1>2. QED
  BY <1>1, NextIsFaithful, Zenon DEF Faithful

(* Whatever statements a client sends, every value in its tables and in its *)
(* variable is one that the declared type can hold: what _stored and        *)
(* _assign convert, what _make_from makes of a SELECT, and what a refused   *)
(* statement leaves.                                                        *)
THEOREM ColumnsHoldTheirTypes == Spec => []HeldAsDeclared
<1>1. IInv => HeldAsDeclared
  BY Zenon DEF IInv, TableOK, VariableOK, HeldAsDeclared
<1>2. QED
  BY IInvInit, IInvNext, <1>1, PTL DEF Spec

(* What @@ROWCOUNT says after a statement is how many rows it touched, and  *)
(* nought after a refusal that the batch goes on past: what an INSERT adds  *)
(* and a DELETE takes away, and not what a read of theirs answered.         *)
THEOREM CountsAreOfWhatWasTouched == Spec => CountsWhatItTouched
<1>1. IInv /\ [Next]_vars => [Counted]_vars
  BY NextIsFaithful, Zenon DEF Faithful
<1>2. QED
  BY IInvInit, IInvNext, <1>1, PTL DEF Spec, CountsWhatItTouched

(* A statement reads its tables as they were and writes them once: an       *)
(* INSERT leaves the rows there and each it adds is made of one row it      *)
(* read, a DELETE takes what its condition holds of and no more, each row   *)
(* of an UPDATE is worked out from itself as it was; and one that is        *)
(* refused, or that assigns, writes none.                                   *)
THEOREM WritesAreOfWhatWasRead == Spec => WritesWhatItRead
<1>1. IInv /\ [Next]_vars => [WroteWhatItRead]_vars
  BY NextIsFaithful, Zenon DEF Faithful
<1>2. QED
  BY IInvInit, IInvNext, <1>1, PTL DEF Spec, WritesWhatItRead
=============================================================================
