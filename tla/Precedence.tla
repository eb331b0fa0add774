------------------------------ MODULE Precedence ------------------------------
(***************************************************************************)
(* The one type a column gets from several branches, and what becomes of    *)
(* their values: precedence.py.  A type is a name and a size: the bytes of  *)
(* an integer, the characters of text.  Whole numbers are given their real  *)
(* ranges up to four bytes; a wider one holds every number a model has.     *)
(***************************************************************************)
EXTENDS Values, FiniteSets, SequencesExt

TYPE_CLASH == 206
CONVERSION_ERROR == 8114
GUID_CONVERSION_FAILED == 8169

Type(name, size) == [type |-> name, size |-> size]
UntypedNull == Type("untyped", 4)
Integer(width) == Type("int", width)
SmallInt == Type("smallint", 2)
NVarChar(size) == Type("nvarchar", size)

(* _rank: the highest wins. *)
RankOf(t) ==
    CASE t.type \in {"varbinary", "binary"} -> 10
      [] t.type = "nvarchar" -> 20
      [] t.type = "uniqueidentifier" -> 30
      [] t.type = "bit" -> 40
      [] t.type = "smallint" -> 60
      [] t.type = "float" -> 90
      [] t.type = "datetime" -> 100
      [] t.type = "int" -> CASE t.size = 1 -> 50 [] t.size = 2 -> 60
                             [] t.size = 4 -> 70 [] t.size = 8 -> 80

(* _INCOMPATIBLE: the pairs that convert neither way round. *)
Incompatible(s, t) ==
    \/ /\ "uniqueidentifier" \in {s.type, t.type}
       /\ {s.type, t.type} \cap {"datetime", "float", "int", "smallint", "bit"} # {}
    \/ /\ "float" \in {s.type, t.type}
       /\ {s.type, t.type} \cap {"varbinary", "binary"} # {}

(* resolve: nothing where the branches agree or say nothing.                *)
Agreed == [type |-> "agreed", size |-> 0]
Clash == [type |-> "refused", size |-> TYPE_CLASH]
Stronger(s, t) ==
    RankOf(s) > RankOf(t) \/ (RankOf(s) = RankOf(t) /\ s.size > t.size)
Winner(kinds) ==                \* max keeps the first of equals
    LET first == SelectInSeq(kinds, LAMBDA t : \A s \in ToSet(kinds) : ~Stronger(s, t))
    IN IF kinds[first] = SmallInt THEN Integer(2) ELSE kinds[first]
ResolveTypes(kinds) ==
    LET known == SelectSeq(kinds, LAMBDA t : t # UntypedNull)
        one == \A t \in ToSet(known) : t = known[1]
    IN IF known = <<>> THEN Agreed
       ELSE IF one THEN IF Len(known) < Len(kinds) THEN known[1] ELSE Agreed
       ELSE IF \E s, t \in ToSet(known) : Incompatible(s, t) THEN Clash
       ELSE Winner(known)

(* converted, as far as the values here tell one type from another.         *)
ConversionNumber(t) ==
    CASE t.type = "datetime" -> DATETIME_CONVERSION_FAILED
      [] t.type = "float" \/ t = Integer(8) -> CONVERSION_ERROR
      [] OTHER -> CONVERSION_FAILED
Spelling(v) == IF v.n = 1 THEN Text("1") ELSE IF v.n = 2 THEN Text("2") ELSE Text("x")
Overflow(width) == CASE width \in {1, 2} -> 244 [] width = 4 -> 248 [] width = 8 -> 8115
Fits(n, width) ==
    CASE width = 1 -> n \in 0..255
      [] width = 2 -> -32768 <= n /\ n <= 32767
      [] OTHER -> TRUE

(* convert: NULL stays NULL; a number is held to the range of its type.     *)
Convert(v, to) ==
    CASE IsNull(v) -> v
      [] to.type = "uniqueidentifier" -> Refused(GUID_CONVERSION_FAILED)
      [] to.type = "nvarchar" -> IF IsText(v) THEN v ELSE Spelling(v)
      [] to.type = "datetime" -> AsMoment(v)
      [] to.type = "bit" -> AsBit(v)
      [] to.type \in {"int", "smallint", "float"} ->
           IF Numeric(v) = NotANumber THEN Refused(ConversionNumber(to))
           ELSE IF to.type # "float" /\ ~Fits(Numeric(v), to.size)
           THEN Refused(Overflow(to.size)) ELSE Number(Numeric(v))
      [] OTHER -> Refused(ConversionNumber(to))
=============================================================================
