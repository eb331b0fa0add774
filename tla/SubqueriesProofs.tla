--------------------------- MODULE SubqueriesProofs ---------------------------
(***************************************************************************)
(* Subqueries for every set of questions, of rows and of tables, whatever   *)
(* the operators it is given read, answer and refuse.                       *)
(***************************************************************************)
EXTENDS Subqueries, FiniteSetTheorems, SequenceTheorems, TLAPS

(* What is kept, of a row or of a column, is of a version the table had;    *)
(* and what was said of a row is what is kept.                              *)
KeptIsOfAVersion ==
    \A key \in DOMAIN answers :
       /\ \E k \in DOMAIN versions : answers[key] = AnswerOf(question, versions[k], key)
       /\ ~Refuses(answers[key])
ReadIsOfAVersion ==
    found # <<>> =>
       \E k \in DOMAIN versions :
          found = <<ColumnOf(question, versions[k])>> /\ ~Refuses(found[1])
SaidIsKept(i) ==
    LET key == AskedBy(question, rows[i])
    IN /\ ~Refuses(said[i])
       /\ plan = "per row" => key \in DOMAIN answers /\ said[i] = answers[key]
       /\ plan = "once" /\ IsNothing(key) => said[i] = Unmatched
       /\ plan = "once" /\ ~IsNothing(key) =>
            found # <<>> /\ said[i] = Found(found[1], key)
BoundIsOfAVersion ==
    plan = "bound" =>
       \E k \in DOMAIN versions :
          \A i \in DOMAIN said : said[i] = AnswerOf(question, versions[k], NoKey)
HeldIsTheLast ==
    IF stage = "asked" THEN plan = "none" /\ versions = <<>> /\ said = <<>>
    ELSE /\ plan = PlanFor(question)
         /\ Len(versions) >= 1 /\ versions[Len(versions)] = held
IInv ==
    /\ TypeOK
    /\ HeldIsTheLast
    /\ KeptIsOfAVersion
    /\ ReadIsOfAVersion
    /\ BoundIsOfAVersion
    /\ \A i \in DOMAIN said : SaidIsKept(i)

-------------------------------------------------------------------------------
(* Sequences that grow.                                                    *)

LEMMA AppendIs ==
    ASSUME NEW s, IsSequence(s), NEW e
    PROVE  /\ IsSequence(Append(s, e))
           /\ Len(s) \in Nat /\ DOMAIN s = 1..Len(s)
           /\ Len(Append(s, e)) = Len(s) + 1
           /\ DOMAIN Append(s, e) = 1..(Len(s) + 1)
           /\ Append(s, e)[Len(s) + 1] = e
           /\ \A i \in DOMAIN s : Append(s, e)[i] = s[i]
<1> DEFINE S == {s[i] : i \in DOMAIN s}
           T == S \cup {e}
<1>1. s \in Seq(S)
  BY DEF IsSequence
<1> HIDE DEF S
<1>2. s \in Seq(T) /\ e \in T
  BY <1>1
<1> HIDE DEF T
<1>3. PICK a : a = Append(s, e)
  OBVIOUS
<1>4. /\ a \in Seq(T) /\ Len(s) \in Nat /\ DOMAIN s = 1..Len(s)
      /\ Len(a) = Len(s) + 1 /\ DOMAIN a = 1..(Len(s) + 1)
      /\ a[Len(s) + 1] = e /\ \A i \in DOMAIN s : a[i] = s[i]
  BY <1>2, <1>3, AppendProperties
<1>5. a \in Seq({a[i] : i \in DOMAIN a})
  BY <1>4
<1>6. QED
  BY <1>3, <1>4, <1>5 DEF IsSequence

LEMMA LastOrBefore ==
    ASSUME NEW n \in Nat, NEW i \in 1..(n + 1)
    PROVE  i \in 1..n \/ i = n + 1
  OBVIOUS

LEMMA EmptyIsASequence == IsSequence(<<>>) /\ Len(<<>>) = 0 /\ DOMAIN <<>> = {}
<1>1. <<>> \in Seq({<<>>[i] : i \in DOMAIN <<>>})
  OBVIOUS
<1>2. QED
  BY <1>1 DEF IsSequence

LEMMA RowsAre ==
    ASSUME IInv
    PROVE  /\ IsSequence(rows) /\ Len(rows) \in Nat /\ DOMAIN rows = 1..Len(rows)
           /\ IsSequence(said) /\ Len(said) \in Nat /\ DOMAIN said = 1..Len(said)
           /\ Len(versions) \in Nat /\ DOMAIN versions = 1..Len(versions)
<1>1. /\ rows \in Outers /\ IsSequence(said) /\ versions \in Seq(Contents)
  BY DEF IInv, TypeOK
<1>2. IsSequence(rows)
  BY <1>1, OutersAssumption
<1>3. QED
  BY <1>1, <1>2, AppendIs

-------------------------------------------------------------------------------
(* The actions.                                                            *)

LEMMA InitHolds == Init => IInv
<1> SUFFICES ASSUME Init
             PROVE  IInv
  OBVIOUS
<1>1. /\ IsSequence(said) /\ Len(said) = 0 /\ DOMAIN said = {}
      /\ versions \in Seq(Contents) /\ Len(versions) = 0 /\ found = <<>>
  BY EmptyIsASequence DEF Init
<1>2. Len(rows) \in Nat
  BY OutersAssumption, AppendIs DEF Init
<1>3. DOMAIN answers = {} /\ IsFiniteSet(DOMAIN answers) /\ Cardinality(DOMAIN answers) = 0
  BY FS_EmptySet DEF Init
<1>4. TypeOK
  BY <1>1, <1>2, <1>3, LimitsAssumption DEF TypeOK, Init
<1>5. QED
  BY <1>1, <1>3, <1>4
     DEF IInv, Init, HeldIsTheLast, KeptIsOfAVersion, ReadIsOfAVersion, BoundIsOfAVersion

(* A step that says nothing keeps what was said, if what was kept is still  *)
(* of a version.                                                            *)
LEMMA SilenceKeeps ==
    ASSUME IInv, stage = "asking", stage' \in {"asking", "answered", "refused"},
           UNCHANGED <<question, rows, held, versions, plan, answers, said>>,
           ReadIsOfAVersion', found # <<>> => found' = found
    PROVE  IInv'
<1>1. TypeOK'
  BY DEF IInv, TypeOK
<1>2. HeldIsTheLast'
  BY DEF IInv, HeldIsTheLast
<1>3. KeptIsOfAVersion' /\ BoundIsOfAVersion'
  BY DEF IInv, KeptIsOfAVersion, BoundIsOfAVersion
<1>4. \A i \in DOMAIN said' : SaidIsKept(i)'
  BY DEF IInv, SaidIsKept
<1>5. QED
  BY <1>1, <1>2, <1>3, <1>4 DEF IInv

(* So does the end, and a refusal.                                        *)
LEMMA EndingKeeps ==
    ASSUME IInv, stage = "asking", stage' \in {"answered", "refused"},
           UNCHANGED <<question, rows, held, versions, plan, answers, found, said>>
    PROVE  IInv'
<1>1. ReadIsOfAVersion'
  BY DEF IInv, ReadIsOfAVersion
<1>2. QED
  BY <1>1, SilenceKeeps

LEMMA PlanKeeps ==
    ASSUME IInv, Plan
    PROVE  IInv'
<1>1. /\ stage = "asked" /\ versions' = <<held>> /\ plan' = PlanFor(question)
      /\ UNCHANGED <<question, rows, held, answers, found>>
  BY DEF Plan
<1>2. /\ TypeOK /\ plan = "none" /\ versions = <<>> /\ said = <<>>
      /\ KeptIsOfAVersion /\ ReadIsOfAVersion
  BY <1>1 DEF IInv, HeldIsTheLast
<1>3. DOMAIN answers = {} /\ found = <<>>
  <2>1. DOMAIN versions = {}
    BY <1>2, EmptyIsASequence
  <2>2. QED
    BY <1>2, <2>1 DEF KeptIsOfAVersion, ReadIsOfAVersion
<1>4. held \in Contents /\ rows \in Outers
  BY <1>2 DEF TypeOK
<1>5. PICK v : v = <<held>>
  OBVIOUS
<1>6. v \in Seq(Contents) /\ Len(v) = 1 /\ DOMAIN v = 1..1 /\ v[1] = held
  BY <1>4, <1>5
<1>7. /\ versions' \in Seq(Contents) /\ Len(versions') = 1 /\ DOMAIN versions' = 1..1
      /\ versions'[1] = held
  BY <1>1, <1>5, <1>6
<1>8. /\ IsSequence(said') /\ Len(said') <= Len(rows)
      /\ \A i \in DOMAIN said' : said'[i] = AnswerOf(question, held, NoKey) /\ ~Refuses(said'[i])
      /\ plan' # "bound" => DOMAIN said' = {}
      /\ stage' \in {"asking", "refused"}
  <2>1. Len(rows) \in Nat /\ IsSequence(rows) /\ DOMAIN rows = 1..Len(rows)
    BY RowsAre
  <2>2. CASE UNCHANGED said /\ stage' \in {"asking", "refused"}
    <3>1. said' = <<>>
      BY <1>2, <2>2
    <3>2. QED
      BY <2>1, <2>2, <3>1, EmptyIsASequence
  <2>3. CASE /\ plan' = "bound" /\ stage' = "asking"
             /\ ~Refuses(AnswerOf(question, held, NoKey))
             /\ said' = [i \in DOMAIN rows |-> AnswerOf(question, held, NoKey)]
    <3>1. PICK whole : whole = AnswerOf(question, held, NoKey)
      OBVIOUS
    <3>2. PICK s : s = [i \in 1..Len(rows) |-> whole]
      OBVIOUS
    <3>3. s \in Seq({s[i] : i \in DOMAIN s}) /\ Len(s) = Len(rows)
      BY <2>1, <3>2
    <3>4. said' = s
      BY <2>1, <2>3, <3>1, <3>2
    <3>5. QED
      BY <2>1, <2>3, <3>1, <3>2, <3>3, <3>4 DEF IsSequence
  <2>4. QED
    BY <2>2, <2>3 DEF Plan, Refuse
<1>9. TypeOK'
  <2>1. Len(versions') <= MaxVersions
    BY <1>7, LimitsAssumption
  <2>2. QED
    BY <1>1, <1>2, <1>7, <1>8, <2>1 DEF TypeOK, PlanFor
<1>10. HeldIsTheLast'
  BY <1>1, <1>7, <1>8 DEF HeldIsTheLast
<1>11. KeptIsOfAVersion' /\ ReadIsOfAVersion'
  BY <1>1, <1>3 DEF KeptIsOfAVersion, ReadIsOfAVersion
<1>12. BoundIsOfAVersion'
  BY <1>1, <1>7, <1>8 DEF BoundIsOfAVersion
<1>13. \A i \in DOMAIN said' : SaidIsKept(i)'
  BY <1>1, <1>8 DEF SaidIsKept
<1>14. QED
  BY <1>9, <1>10, <1>11, <1>12, <1>13 DEF IInv

(* One more answer is said, of the row it is asked for: what was kept stays *)
(* kept, and the answer is what is kept for that row.                       *)
LEMMA SayingKeeps ==
    ASSUME IInv, Asking, plan # "bound",
           NEW a, said' = Append(said, a), ~Refuses(a), stage' = stage,
           UNCHANGED <<question, rows, held, versions, plan>>,
           IsFiniteSet(DOMAIN answers'), Cardinality(DOMAIN answers') <= MaxAnswers,
           KeptIsOfAVersion', ReadIsOfAVersion',
           DOMAIN answers \subseteq DOMAIN answers',
           \A key \in DOMAIN answers : answers'[key] = answers[key],
           found # <<>> => found' = found,
           LET key == AskedBy(question, rows[Here])
           IN /\ plan = "per row" => key \in DOMAIN answers' /\ a = answers'[key]
              /\ plan = "once" /\ IsNothing(key) => a = Unmatched
              /\ plan = "once" /\ ~IsNothing(key) => found' # <<>> /\ a = Found(found'[1], key)
    PROVE  IInv'
<1>1. /\ Len(said) \in Nat /\ DOMAIN said = 1..Len(said) /\ IsSequence(said)
      /\ Len(rows) \in Nat
  BY RowsAre
<1>2. /\ IsSequence(said') /\ Len(said') = Len(said) + 1
      /\ DOMAIN said' = 1..(Len(said) + 1)
      /\ said'[Here] = a /\ \A i \in DOMAIN said : said'[i] = said[i]
  BY <1>1, AppendIs DEF Here
<1>3. Len(said) + 1 <= Len(rows) /\ stage = "asking" /\ Here = Len(said) + 1
  BY DEF Asking, Here
<1>4. TypeOK'
  BY <1>1, <1>2, <1>3 DEF IInv, TypeOK
<1>5. HeldIsTheLast'
  BY <1>3 DEF IInv, HeldIsTheLast
<1>6. BoundIsOfAVersion'
  BY DEF BoundIsOfAVersion
<1>7. ASSUME NEW i \in DOMAIN said'
      PROVE  SaidIsKept(i)'
  <2>1. CASE i = Here
    BY <1>2, <2>1 DEF SaidIsKept
  <2>2. CASE i \in DOMAIN said
    <3>1. SaidIsKept(i) /\ said'[i] = said[i]
      BY <1>2, <2>2 DEF IInv
    <3>2. QED
      BY <3>1 DEF SaidIsKept
  <2>3. i \in DOMAIN said \/ i = Here
    <3>1. Here = Len(said) + 1
      BY <1>3
    <3>2. /\ Len(said) \in Nat /\ DOMAIN said = 1..Len(said)
          /\ DOMAIN said' = 1..(Len(said) + 1)
      BY <1>1, <1>2
    <3>3. QED
      BY <3>1, <3>2, LastOrBefore
  <2>4. QED
    BY <2>1, <2>2, <2>3
<1>8. QED
  BY <1>4, <1>5, <1>6, <1>7 DEF IInv

LEMMA AskPerRowKeeps ==
    ASSUME IInv, AskPerRow
    PROVE  IInv'
<1>1. PICK key : key = AskedBy(question, rows[Here])
  OBVIOUS
<1>2. PICK answer : answer = AnswerOf(question, held, key)
  OBVIOUS
<1>3. /\ Asking /\ plan = "per row" /\ stage = "asking"
      /\ UNCHANGED <<question, rows, held, versions, plan, found>>
  BY DEF AskPerRow, Asking
<1>4. /\ TypeOK /\ KeptIsOfAVersion /\ ReadIsOfAVersion /\ HeldIsTheLast
      /\ IsFiniteSet(DOMAIN answers) /\ Cardinality(DOMAIN answers) <= MaxAnswers
  BY DEF IInv, TypeOK
<1>5. ReadIsOfAVersion'
  BY <1>3, <1>4 DEF ReadIsOfAVersion
<1>6. CASE key \in DOMAIN answers /\ said' = Append(said, answers[key])
           /\ UNCHANGED <<answers, stage>>
  <2>1. PICK kept : kept = answers[key]
    OBVIOUS
  <2>2. ~Refuses(kept) /\ KeptIsOfAVersion'
    BY <1>3, <1>4, <1>6, <2>1 DEF KeptIsOfAVersion
  <2>3. QED
    BY <1>1, <1>3, <1>4, <1>5, <1>6, <2>1, <2>2, SayingKeeps
<1>7. CASE stage' = "refused" /\ UNCHANGED <<said, answers>>
  BY <1>3, <1>7, EndingKeeps
<1>8. CASE /\ key \notin DOMAIN answers /\ ~Full /\ ~Refuses(answer)
           /\ said' = Append(said, answer) /\ Keep(key, answer) /\ stage' = stage
  <2>1. /\ DOMAIN answers' = DOMAIN answers \cup {key} /\ answers'[key] = answer
        /\ \A k \in DOMAIN answers : answers'[k] = answers[k]
    BY <1>8 DEF Keep
  <2>2. IsFiniteSet(DOMAIN answers') /\ Cardinality(DOMAIN answers') <= MaxAnswers
    <3>1. PICK D : D = DOMAIN answers
      OBVIOUS
    <3>2. /\ IsFiniteSet(D) /\ Cardinality(D) \in Nat /\ ~(Cardinality(D) >= MaxAnswers)
          /\ key \notin D /\ MaxAnswers \in Nat
      BY <1>4, <1>8, <3>1, FS_CardinalityType, LimitsAssumption DEF Full
    <3>3. IsFiniteSet(D \cup {key}) /\ Cardinality(D \cup {key}) = Cardinality(D) + 1
      BY <3>2, FS_AddElement
    <3>4. Cardinality(D \cup {key}) <= MaxAnswers
      BY <3>2, <3>3
    <3>5. QED
      BY <2>1, <3>1, <3>3, <3>4
  <2>3. Len(versions) \in DOMAIN versions /\ versions[Len(versions)] = held
    <3>1. Len(versions) >= 1 /\ versions[Len(versions)] = held
      BY <1>3, <1>4 DEF HeldIsTheLast
    <3>2. QED
      BY <3>1, RowsAre
  <2>4. KeptIsOfAVersion'
    BY <1>2, <1>3, <1>4, <1>8, <2>1, <2>3 DEF KeptIsOfAVersion
  <2>5. QED
    BY <1>1, <1>3, <1>4, <1>5, <1>8, <2>1, <2>2, <2>4, SayingKeeps
<1>9. QED
  BY <1>1, <1>2, <1>6, <1>7, <1>8 DEF AskPerRow, Known, Refuse, Say

LEMMA AskOnceKeeps ==
    ASSUME IInv, AskOnce
    PROVE  IInv'
<1>1. PICK key : key = AskedBy(question, rows[Here])
  OBVIOUS
<1>2. PICK column : column = IF found # <<>> THEN found[1] ELSE ColumnOf(question, held)
  OBVIOUS
<1>3. /\ Asking /\ plan = "once" /\ stage = "asking"
      /\ UNCHANGED <<question, rows, held, versions, plan, answers>>
  BY DEF AskOnce, Asking
<1>4. /\ TypeOK /\ KeptIsOfAVersion /\ ReadIsOfAVersion /\ HeldIsTheLast
      /\ IsFiniteSet(DOMAIN answers) /\ Cardinality(DOMAIN answers) <= MaxAnswers
  BY DEF IInv, TypeOK
<1>5. KeptIsOfAVersion'
  BY <1>3, <1>4 DEF KeptIsOfAVersion
<1>6. CASE stage' = "refused" /\ UNCHANGED <<said, found>>
  BY <1>3, <1>6, EndingKeeps
<1>7. CASE /\ IsNothing(key) /\ ~Refuses(Unmatched) /\ said' = Append(said, Unmatched)
           /\ UNCHANGED <<found, stage>>
  <2>1. ReadIsOfAVersion'
    BY <1>3, <1>4, <1>7 DEF ReadIsOfAVersion
  <2>2. QED
    BY <1>1, <1>3, <1>4, <1>5, <1>7, <2>1, SayingKeeps
<1>8. CASE ~IsNothing(key) /\ ~Refuses(column) /\ found' = <<column>>
           /\ Say(Found(column, key))
  <2>1. found' # <<>> /\ found'[1] = column /\ (found # <<>> => found' = found)
    BY <1>2, <1>4, <1>8 DEF ReadIsOfAVersion
  <2>2. Len(versions) \in DOMAIN versions /\ versions[Len(versions)] = held
    <3>1. Len(versions) >= 1 /\ versions[Len(versions)] = held
      BY <1>3, <1>4 DEF HeldIsTheLast
    <3>2. QED
      BY <3>1, RowsAre
  <2>3. ReadIsOfAVersion'
    BY <1>2, <1>3, <1>4, <1>8, <2>1, <2>2 DEF ReadIsOfAVersion
  <2>4. PICK a : a = Found(column, key)
    OBVIOUS
  <2>5. CASE Refuses(a)
    BY <1>3, <1>8, <2>1, <2>3, <2>4, <2>5, SilenceKeeps DEF Say, Refuse
  <2>6. CASE ~Refuses(a)
    BY <1>1, <1>3, <1>4, <1>5, <1>8, <2>1, <2>3, <2>4, <2>6, SayingKeeps DEF Say
  <2>7. QED
    BY <2>5, <2>6
<1>9. QED
  BY <1>1, <1>2, <1>6, <1>7, <1>8 DEF AskOnce, AlreadyRead, Refuse, Say

(* A version more leaves the ones there were where they are.               *)
LEMMA ChangeKeeps ==
    ASSUME IInv, Change
    PROVE  IInv'
<1>1. PICK table \in Contents : held' = table /\ versions' = Append(versions, table)
  BY DEF Change
<1>2. /\ stage = "asking" /\ Len(versions) < MaxVersions
      /\ UNCHANGED <<question, rows, plan, answers, found, said, stage>>
  BY DEF Change
<1>3. /\ TypeOK /\ HeldIsTheLast /\ KeptIsOfAVersion /\ ReadIsOfAVersion /\ BoundIsOfAVersion
      /\ versions \in Seq(Contents)
  BY DEF IInv, TypeOK
<1>4. PICK v : v = Append(versions, table)
  OBVIOUS
<1>5. /\ v \in Seq(Contents) /\ Len(versions) \in Nat /\ Len(v) = Len(versions) + 1
      /\ DOMAIN v = 1..(Len(versions) + 1) /\ DOMAIN versions = 1..Len(versions)
      /\ v[Len(versions) + 1] = table /\ \A k \in DOMAIN versions : v[k] = versions[k]
  BY <1>1, <1>3, <1>4, AppendProperties
<1>6. versions' = v
  BY <1>1, <1>4
<1>7. \A k \in DOMAIN versions : k \in DOMAIN versions' /\ versions'[k] = versions[k]
  BY <1>5, <1>6
<1>8. TypeOK'
  <2>1. Len(versions') <= MaxVersions
    <3>1. Len(versions) < MaxVersions
      BY <1>2
    <3>2. QED
      BY <3>1, <1>5, <1>6, LimitsAssumption
  <2>2. QED
    BY <1>1, <1>2, <1>3, <1>5, <1>6, <2>1 DEF TypeOK
<1>9. HeldIsTheLast'
  <2>1. Len(versions') >= 1 /\ versions'[Len(versions')] = held'
    BY <1>1, <1>5, <1>6
  <2>2. QED
    BY <1>2, <1>3, <2>1 DEF HeldIsTheLast
<1>10. KeptIsOfAVersion'
  BY <1>2, <1>3, <1>7 DEF KeptIsOfAVersion
<1>11. ReadIsOfAVersion'
  BY <1>2, <1>3, <1>7 DEF ReadIsOfAVersion
<1>12. BoundIsOfAVersion'
  BY <1>2, <1>3, <1>7 DEF BoundIsOfAVersion
<1>13. \A i \in DOMAIN said' : SaidIsKept(i)'
  BY <1>2 DEF IInv, SaidIsKept
<1>14. QED
  BY <1>8, <1>9, <1>10, <1>11, <1>12, <1>13 DEF IInv

LEMMA NextHolds == IInv /\ [Next]_vars => IInv'
<1> SUFFICES ASSUME IInv, [Next]_vars
             PROVE  IInv'
  OBVIOUS
<1>1. CASE Plan
  BY <1>1, PlanKeeps
<1>2. CASE AskPerRow
  BY <1>2, AskPerRowKeeps
<1>3. CASE AskOnce
  BY <1>3, AskOnceKeeps
<1>4. CASE End
  BY <1>4, EndingKeeps DEF End
<1>5. CASE Change
  BY <1>5, ChangeKeeps
<1>6. CASE UNCHANGED vars
  <2>1. UNCHANGED <<question, rows, held, versions, plan, answers, found, said, stage>>
    BY <1>6 DEF vars
  <2>2. TypeOK' /\ HeldIsTheLast'
    BY <2>1 DEF IInv, TypeOK, HeldIsTheLast
  <2>3. KeptIsOfAVersion' /\ ReadIsOfAVersion' /\ BoundIsOfAVersion'
    BY <2>1 DEF IInv, KeptIsOfAVersion, ReadIsOfAVersion, BoundIsOfAVersion
  <2>4. \A i \in DOMAIN said' : SaidIsKept(i)'
    BY <2>1 DEF IInv, SaidIsKept
  <2>5. QED
    BY <2>2, <2>3, <2>4 DEF IInv
<1>7. QED
  BY <1>1, <1>2, <1>3, <1>4, <1>5, <1>6 DEF Next, Rest_

LEMMA Invariant == Spec => []IInv
<1>1. Init => IInv
  BY InitHolds
<1>2. IInv /\ [Next]_vars => IInv'
  BY NextHolds
<1>3. QED
  BY <1>1, <1>2, PTL DEF Spec

-------------------------------------------------------------------------------
(* What it promises.                                                       *)

(* No more is kept than MAX_CORRELATED_ANSWERS answers, whatever is asked,  *)
(* and each row has at most one answer (_per_row, _applied_select).         *)
THEOREM KeepsNoMoreThanItMay == Spec => []TypeOK
<1>1. IInv => TypeOK
  BY DEF IInv
<1>2. QED
  BY <1>1, Invariant, PTL

(* What stands beside a row is what the way planned for the question        *)
(* answers of a version, whose column, where it is asked for, was readable. *)
OfVersion(i, table) ==
    LET key == AskedBy(question, rows[i])
    IN /\ said[i] = AnswerFor(question, rows[i], table)
       /\ plan = "once" /\ ~IsNothing(key) => ~Refuses(ColumnOf(question, table))
SaidAlike ==
    \A i, j \in DOMAIN said :
       AskedBy(question, rows[i]) = AskedBy(question, rows[j]) => said[i] = said[j]
SaidOfOneVersion ==
    /\ SaidAlike
    /\ \A i \in DOMAIN said : \E k \in DOMAIN versions : OfVersion(i, versions[k])
    /\ plan \in {"once", "bound"} =>
         \E k \in DOMAIN versions : \A i \in DOMAIN said : OfVersion(i, versions[k])

(* What is kept of equal questions is equal.                                *)
LEMMA KeptIsSaidAlike ==
    ASSUME IInv, NEW i \in DOMAIN said, NEW j \in DOMAIN said,
           AskedBy(question, rows[i]) = AskedBy(question, rows[j])
    PROVE  said[i] = said[j]
<1>1. /\ TypeOK /\ HeldIsTheLast /\ BoundIsOfAVersion /\ SaidIsKept(i) /\ SaidIsKept(j)
  BY DEF IInv
<1>2. CASE stage = "asked"
  BY <1>1, <1>2, EmptyIsASequence DEF HeldIsTheLast
<1>3. CASE stage # "asked"
  <2>1. plan \in {"bound", "once", "per row"}
    BY <1>1, <1>3 DEF HeldIsTheLast, PlanFor
  <2>2. CASE plan = "bound"
    BY <1>1, <2>2 DEF BoundIsOfAVersion
  <2>3. CASE plan # "bound"
    BY <1>1, <2>1, <2>3 DEF SaidIsKept
  <2>4. QED
    BY <2>2, <2>3
<1>4. QED
  BY <1>2, <1>3

LEMMA KeptIsSaid == IInv => SaidOfOneVersion
<1> SUFFICES ASSUME IInv
             PROVE  SaidOfOneVersion
  OBVIOUS
<1>1. /\ TypeOK /\ HeldIsTheLast /\ KeptIsOfAVersion /\ ReadIsOfAVersion /\ BoundIsOfAVersion
      /\ \A i \in DOMAIN said : SaidIsKept(i)
  BY DEF IInv
<1>0. SaidAlike
  BY KeptIsSaidAlike DEF SaidAlike
<1>2. CASE stage = "asked"
  <2>1. DOMAIN said = {} /\ plan = "none"
    BY <1>1, <1>2, EmptyIsASequence DEF HeldIsTheLast
  <2>2. QED
    BY <1>0, <2>1 DEF SaidOfOneVersion
<1>3. CASE stage # "asked"
  <2>1. plan = PlanFor(question) /\ plan \in {"bound", "once", "per row"}
    BY <1>1, <1>3 DEF HeldIsTheLast, PlanFor
  <2>2. CASE plan = "bound"
    BY <1>1, <1>0, <2>1, <2>2 DEF BoundIsOfAVersion, SaidOfOneVersion, OfVersion, AnswerFor
  <2>3. CASE plan = "per row"
    <3>1. ASSUME NEW i \in DOMAIN said
          PROVE  \E k \in DOMAIN versions : OfVersion(i, versions[k])
      <4>1. PICK key : key = AskedBy(question, rows[i])
        OBVIOUS
      <4>2. key \in DOMAIN answers /\ said[i] = answers[key]
        BY <1>1, <2>3, <4>1 DEF SaidIsKept
      <4>3. PICK k \in DOMAIN versions : answers[key] = AnswerOf(question, versions[k], key)
        BY <1>1, <4>2 DEF KeptIsOfAVersion
      <4>4. OfVersion(i, versions[k])
        BY <2>1, <2>3, <4>1, <4>2, <4>3 DEF OfVersion, AnswerFor
      <4>5. QED
        BY <4>4
    <3>2. QED
      BY <1>0, <2>3, <3>1 DEF SaidOfOneVersion
  <2>4. CASE plan = "once"
    <3>1. CASE found = <<>>
      <4>1. \A i \in DOMAIN said :
               IsNothing(AskedBy(question, rows[i])) /\ said[i] = Unmatched
        BY <1>1, <2>4, <3>1 DEF SaidIsKept
      <4>2. Len(versions) >= 1
        BY <1>1, <1>3 DEF HeldIsTheLast
      <4>3. 1 \in DOMAIN versions
        BY <4>2, RowsAre
      <4>4. \A i \in DOMAIN said : OfVersion(i, versions[1])
        BY <2>1, <2>4, <4>1 DEF OfVersion, AnswerFor
      <4>5. QED
        BY <1>0, <4>3, <4>4 DEF SaidOfOneVersion
    <3>2. CASE found # <<>>
      <4>1. PICK k \in DOMAIN versions :
               found = <<ColumnOf(question, versions[k])>> /\ ~Refuses(found[1])
        BY <1>1, <3>2 DEF ReadIsOfAVersion
      <4>2. found[1] = ColumnOf(question, versions[k])
        BY <4>1
      <4>3. ASSUME NEW i \in DOMAIN said
            PROVE  OfVersion(i, versions[k])
        <5>1. SaidIsKept(i)
          BY <1>1
        <5>2. QED
          BY <2>1, <2>4, <4>1, <4>2, <5>1 DEF SaidIsKept, OfVersion, AnswerFor
      <4>4. QED
        BY <1>0, <4>1, <4>3 DEF SaidOfOneVersion
    <3>3. QED
      BY <3>1, <3>2
  <2>5. QED
    BY <2>1, <2>2, <2>3, <2>4
<1>4. QED
  BY <1>2, <1>3

(* Whatever the subquery reads and answers, what is said beside a row is    *)
(* what is planned answers of one version of the table, and where the table *)
(* is read once of the same one for every row; and rows that ask the same   *)
(* are told the same (_per_row, _matching_once).                            *)
THEOREM SaysWhatOneVersionAnswers == Spec => []SaidOfOneVersion
  BY KeptIsSaid, Invariant, PTL

(* Where the ways of answering give what the words mean, of each version.   *)
EveryPlanIsMeant ==
    \A q \in Questions, around \in Outers, table \in Contents :
       AnswersAsMeant(q, around, table)

LEMMA SaidIsMeant ==
    ASSUME EveryPlanIsMeant, IInv, NEW i \in DOMAIN said, NEW k \in DOMAIN versions,
           OfVersion(i, versions[k])
    PROVE  MeantBy(i, versions[k])
<1>1. /\ TypeOK /\ HeldIsTheLast /\ SaidIsKept(i)
  BY DEF IInv
<1>2. PICK table : table = versions[k]
  OBVIOUS
<1>3. table \in Contents /\ question \in Questions /\ rows \in Outers
  <2>1. versions \in Seq(Contents) /\ k \in 1..Len(versions)
    BY <1>1, RowsAre DEF TypeOK
  <2>2. versions[k] \in Contents
    BY <2>1
  <2>3. QED
    BY <1>1, <1>2, <2>2 DEF TypeOK
<1>4. i \in DOMAIN rows
  <2>1. Len(said) <= Len(rows)
    BY <1>1 DEF TypeOK
  <2>2. QED
    BY <2>1, RowsAre
<1>5. plan = PlanFor(question)
  <2>1. CASE stage = "asked"
    BY <1>1, <2>1, EmptyIsASequence DEF HeldIsTheLast
  <2>2. QED
    BY <1>1, <2>1 DEF HeldIsTheLast
<1>6. AnswersAsMeant(question, rows, table)
  BY <1>3 DEF EveryPlanIsMeant
<1>7. ~Refuses(said[i]) /\ OfVersion(i, table)
  BY <1>1, <1>2 DEF SaidIsKept
<1>8. Is(Means(question, rows[i], table), said[i])
  BY <1>4, <1>5, <1>6, <1>7 DEF AnswersAsMeant, OfVersion
<1>9. QED
  BY <1>2, <1>8 DEF MeantBy

(* Where it does, each row is answered for itself: what was kept of one row *)
(* is said of another only if that one asks the same (_per_row), and the    *)
(* column that was read is of a version the table had (_matching_once).     *)
THEOREM EachRowIsAnsweredForItself ==
    ASSUME EveryPlanIsMeant
    PROVE  Spec => []AnswersForItsRow
<1>1. IInv => AnswersForItsRow
  <2> SUFFICES ASSUME IInv
               PROVE  AnswersForItsRow
    OBVIOUS
  <2>1. AnswersAsMeant(question, rows, held)
    BY DEF IInv, TypeOK, EveryPlanIsMeant
  <2>2. \A i \in DOMAIN said : \E k \in DOMAIN versions : MeantBy(i, versions[k])
    BY KeptIsSaid, SaidIsMeant DEF SaidOfOneVersion
  <2>3. QED
    BY <2>1, <2>2 DEF AnswersForItsRow
<1>2. QED
  BY <1>1, Invariant, PTL

(* Rows that ask the same are answered alike however often the table        *)
(* changed between them, and where it is read once every row is answered    *)
(* from that one reading (_per_row, _matching_once).                        *)
THEOREM RowsAreAnsweredFromOneReading ==
    ASSUME EveryPlanIsMeant
    PROVE  Spec => []AnswersFromOneReading
<1>1. IInv => AnswersFromOneReading
  <2> SUFFICES ASSUME IInv
               PROVE  AnswersFromOneReading
    OBVIOUS
  <2>1. plan \in {"once", "bound"} =>
           \E k \in DOMAIN versions : \A i \in DOMAIN said : MeantBy(i, versions[k])
    BY KeptIsSaid, SaidIsMeant DEF SaidOfOneVersion
  <2>2. \A i, j \in DOMAIN said :
           AskedBy(question, rows[i]) = AskedBy(question, rows[j]) => said[i] = said[j]
    BY KeptIsSaid DEF SaidOfOneVersion, SaidAlike
  <2>3. QED
    BY <2>1, <2>2 DEF AnswersFromOneReading
<1>2. QED
  BY <1>1, Invariant, PTL
===============================================================================
