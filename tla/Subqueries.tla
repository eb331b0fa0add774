------------------------------ MODULE Subqueries ------------------------------
(***************************************************************************)
(* A subquery beside the rows of the query around it: Catalog._subqueries,  *)
(* _per_row, _matching_once and _applied_select.  One that reads nothing of *)
(* the row is answered once and bound; one that does is asked row by row,   *)
(* and what it answered is kept by the values it was asked about; an EXISTS *)
(* that matches one column is read once and each row looked up in it.       *)
(*                                                                          *)
(* Every asking reads the table again, and the table may have been          *)
(* refreshed by its source since the row before: Change is that refresh.    *)
(* What a subquery reads of a row and what it answers when it is handed it  *)
(* are operators given to this module: the machine is the same whatever     *)
(* they are, and Correlated has those of the code.                          *)
(***************************************************************************)
EXTENDS Naturals, Sequences, FiniteSets

CONSTANTS Questions,    \* the subqueries asked
          Outers,       \* the rows a query may have around one
          Contents,     \* what the inner table may hold
          MaxAnswers,   \* MAX_CORRELATED_ANSWERS
          MaxVersions   \* how often the inner table changes, and one
CONSTANTS ReadsTheRow(_),     \* does it read anything of the row around it?
          ByColumn(_),        \* can it be matched by one column?
          AskedBy(_, _),        \* what it is asked about: question, row
          AnswerOf(_, _, _),  \* what it answers: question, table, key
          ColumnOf(_, _),     \* the matched column: question, table
          Found(_, _),        \* the answer for a key in a column
          IsNothing(_),       \* is a key NULL?
          Unmatched,          \* the answer for such a key
          Refuses(_),         \* is an answer, or a column, a refusal?
          Means(_, _, _)      \* what its words mean: question, row, table
IsSequence(s) == s \in Seq({s[i] : i \in DOMAIN s})
ASSUME LimitsAssumption == MaxAnswers \in Nat /\ MaxVersions \in Nat \ {0}
ASSUME OutersAssumption == \A around \in Outers : IsSequence(around)

VARIABLES question, rows,
          held,       \* what the inner table holds
          versions,   \* what it held, from the first asking on
          plan,       \* how the subquery is answered
          answers,    \* what was answered, by what it was asked about
          found,      \* the matched column, once it has been read
          said,       \* the answer beside each row so far
          stage
vars == <<question, rows, held, versions, plan, answers, found, said, stage>>

(* ---- the actions --------------------------------------------------------*)

Here == Len(said) + 1
Asking == stage = "asking" /\ Here <= Len(rows)
Refuse == stage' = "refused" /\ UNCHANGED said
Say(answer) ==
    IF Refuses(answer) THEN Refuse ELSE said' = Append(said, answer) /\ UNCHANGED stage

(* _subqueries, and the plan _per_row and _matching_once settle on.  One    *)
(* that reads nothing of the row is handed nothing.                         *)
NoKey == <<>>
PlanFor(q) ==
    IF ~ReadsTheRow(q) THEN "bound" ELSE IF ByColumn(q) THEN "once" ELSE "per row"
Plan ==
    /\ stage = "asked"
    /\ versions' = <<held>> /\ plan' = PlanFor(question)
    /\ IF plan' # "bound"
       THEN stage' = "asking" /\ UNCHANGED said
       ELSE \E whole \in {AnswerOf(question, held, NoKey)} :
              IF Refuses(whole) THEN Refuse
              ELSE stage' = "asking" /\ said' = [i \in DOMAIN rows |-> whole]
    /\ UNCHANGED <<question, rows, held, answers, found>>

(* What was answered before, whether another may be kept, and whether the   *)
(* column has been read.                                                    *)
Known(key) == key \in DOMAIN answers
Full == Cardinality(DOMAIN answers) >= MaxAnswers
NeverRead == FALSE              \* a mutant
AlreadyRead == found # <<>>

(* produce in _per_row, and ask in _applied_select.  A refusal is raised,   *)
(* and not kept.                                                            *)
Keep(key, answer) ==
    answers' = [k \in DOMAIN answers \cup {key} |-> IF k = key THEN answer ELSE answers[k]]
AskPerRow ==
    /\ Asking /\ plan = "per row"
    /\ \E key \in {AskedBy(question, rows[Here])} :
         IF Known(key)
         THEN said' = Append(said, answers[key]) /\ UNCHANGED <<answers, stage>>
         ELSE IF Full THEN Refuse /\ UNCHANGED answers
         ELSE \E answer \in {AnswerOf(question, held, key)} :
                /\ Say(answer)
                /\ IF Refuses(answer) THEN UNCHANGED answers ELSE Keep(key, answer)
    /\ UNCHANGED <<question, rows, held, versions, plan, found>>

(* produce in _matching_once: NULL matches nothing, and asks nothing.       *)
AskOnce ==
    /\ Asking /\ plan = "once"
    /\ \E key \in {AskedBy(question, rows[Here])} :
         IF IsNothing(key)
         THEN Say(Unmatched) /\ UNCHANGED found
         ELSE \E column \in {IF AlreadyRead THEN found[1] ELSE ColumnOf(question, held)} :
                IF Refuses(column) THEN Refuse /\ UNCHANGED found
                ELSE Say(Found(column, key)) /\ found' = <<column>>
    /\ UNCHANGED <<question, rows, held, versions, plan, answers>>

End ==
    /\ stage = "asking" /\ Len(said) = Len(rows)
    /\ stage' = "answered"
    /\ UNCHANGED <<question, rows, held, versions, plan, answers, found, said>>

(* What the inner table's source does meanwhile. *)
Change ==
    /\ stage = "asking" /\ Len(versions) < MaxVersions
    /\ \E table \in Contents \ {held} :
         /\ held' = table
         /\ versions' = Append(versions, table)
    /\ UNCHANGED <<question, rows, plan, answers, found, said, stage>>

Rest_ == stage \in {"answered", "refused"} /\ UNCHANGED vars

Init ==
    /\ question \in Questions /\ rows \in Outers /\ held \in Contents
    /\ versions = <<>> /\ plan = "none" /\ answers = [key \in {} |-> key]
    /\ found = <<>> /\ said = <<>> /\ stage = "asked"
Next == Plan \/ AskPerRow \/ AskOnce \/ End \/ Change \/ Rest_
Spec == Init /\ [][Next]_vars

(* ---- what it promises ---------------------------------------------------*)

TypeOK ==
    /\ question \in Questions /\ rows \in Outers /\ held \in Contents
    /\ versions \in Seq(Contents) /\ Len(versions) <= MaxVersions
    /\ plan \in {"none", "bound", "once", "per row"}
    /\ stage \in {"asked", "asking", "answered", "refused"}
    /\ IsSequence(said) /\ Len(said) <= Len(rows)
    /\ IsFiniteSet(DOMAIN answers) /\ Cardinality(DOMAIN answers) <= MaxAnswers

(* What is answered beside a row of one version of the table, in the way    *)
(* that is planned for the question.                                        *)
AnswerFor(q, row, table) ==
    CASE PlanFor(q) = "bound" -> AnswerOf(q, table, NoKey)
      [] PlanFor(q) = "per row" -> AnswerOf(q, table, AskedBy(q, row))
      [] PlanFor(q) = "once" ->
           IF IsNothing(AskedBy(q, row)) THEN Unmatched
           ELSE Found(ColumnOf(q, table), AskedBy(q, row))
Is(meaning, answer) == Refuses(meaning) \/ answer = meaning

(* Of one version of the table, what is planned for a question comes to     *)
(* what its words mean beside each row, unless it refuses.                  *)
AnswersAsMeant(q, around, table) ==
    \A i \in DOMAIN around :
       LET key == AskedBy(q, around[i])
       IN \/ PlanFor(q) = "once" /\ ~IsNothing(key) /\ Refuses(ColumnOf(q, table))
          \/ Refuses(AnswerFor(q, around[i], table))
          \/ Is(Means(q, around[i], table), AnswerFor(q, around[i], table))

MeantBy(i, table) == Is(Means(question, rows[i], table), said[i])

(* What stands beside a row is what the subquery comes to for that row, of  *)
(* a version the table had since it was first asked: whichever way it was   *)
(* answered, and however often the table changed meanwhile.  That is so     *)
(* because the way planned for it is one that gives what it means           *)
(* (_matching_once "asks the same question of every outer row"), and what   *)
(* is kept of one row is said of another only if it is what that one asks.  *)
AnswersForItsRow ==
    /\ stage = "asked" => AnswersAsMeant(question, rows, held)
    /\ \A i \in DOMAIN said : \E k \in DOMAIN versions : MeantBy(i, versions[k])

(* Where the table is read once, every row is answered from that one        *)
(* reading; and rows that hand the subquery the same values are answered    *)
(* alike, from one reading (_per_row, _matching_once).                      *)
AnswersFromOneReading ==
    /\ plan \in {"once", "bound"} =>
         \E k \in DOMAIN versions : \A i \in DOMAIN said : MeantBy(i, versions[k])
    /\ \A i, j \in DOMAIN said :
         AskedBy(question, rows[i]) = AskedBy(question, rows[j]) => said[i] = said[j]
=============================================================================
