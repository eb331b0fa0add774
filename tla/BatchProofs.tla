----------------------------- MODULE BatchProofs ------------------------------
(***************************************************************************)
(* What holds of BatchExec for every batch: of any length, nested to any   *)
(* depth, with errors of any number raised anywhere in it, over any temp   *)
(* tables and however often a loop may turn.                               *)
(***************************************************************************)
EXTENDS BatchExec, WellFoundedInduction, NaturalsInduction, SequenceTheorems,
        TLAPS

-------------------------------------------------------------------------------
(* The statements of Transactions.                                         *)

LEMMA Largest ==
    ASSUME NEW n \in Nat, NEW S, S \subseteq 1..n, S # {}
    PROVE  \E i \in S : \A j \in S : j <= i
<1> DEFINE Down == {n - i : i \in S}
<1>1. Down \subseteq Nat /\ Down # {}
  <2>1. \A i \in S : n - i \in Nat
    OBVIOUS
  <2>2. QED
    BY <2>1
<1>2. PICK x \in Down : \A y \in Down : ~ (<<y, x>> \in OpToRel(<, Nat))
  BY <1>1, WFMin, NatLessThanWellFounded
<1>3. \A y \in Down : ~ (y < x)
  BY <1>1, <1>2 DEF OpToRel
<1>4. PICK i \in S : x = n - i
  OBVIOUS
<1>5. ASSUME NEW j \in S
      PROVE  j <= i
  <2>1. n - j \in Down
    OBVIOUS
  <2>2. ~ (n - j < n - i)
    BY <1>3, <1>4, <2>1
  <2>3. i \in Int /\ j \in Int
    OBVIOUS
  <2> HIDE DEF Down
  <2>4. QED
    BY <2>2, <2>3
<1>6. QED
  BY <1>5

(* The mark a rollback goes back to is one of the savepoints.              *)
LEMMA NewestIsAMark ==
    ASSUME NEW t \in Transaction, NEW name, Marks(t, name) # {}
    PROVE  Newest(t, name) \in 1..Len(t.savepoints)
<1>1. t.savepoints \in Seq(Names)
  BY DEF Transaction
<1>2. Marks(t, name) \subseteq 1..Len(t.savepoints) /\ Len(t.savepoints) \in Nat
  BY <1>1 DEF Marks
<1>3. \E i \in Marks(t, name) : \A j \in Marks(t, name) : j <= i
  BY <1>2, Largest
<1>4. Newest(t, name) \in Marks(t, name)
  BY <1>3 DEF Newest
<1>5. QED
  BY <1>2, <1>4

(* A transaction that can be there: typed, and nothing left when closed.   *)
Sound(t) == t \in Transaction /\ NothingHeldWhenClosed(t)

LEMMA ClosedIsSound == Sound(Closed)
<1>1. <<>> \in Seq(Names)
  OBVIOUS
<1>2. QED
  BY <1>1 DEF Sound, Closed, Transaction, NamesOrNone, NothingHeldWhenClosed

(* No statement leaves anything of a transaction it ended.                 *)
LEMMA StatementIsSound ==
    ASSUME NEW t, Sound(t), NEW kind \in Kinds, NEW name \in NamesOrNone,
           kind = "save" => name # NoName
    PROVE  LET did == TransactionStatement(t, kind, name)
           IN  Sound(did.tran) /\ did.error \in Nat
<1>1. /\ t \in Transaction /\ NothingHeldWhenClosed(t) /\ t.count \in Nat
      /\ t.savepoints \in Seq(Names) /\ Sound(Closed) /\ NoError \in Nat
  BY ClosedIsSound DEF Sound, Transaction, NoError
<1>2. Sound(Begin(t, name).tran) /\ Begin(t, name).error \in Nat
  BY <1>1 DEF Sound, Begin, Did, Transaction, NothingHeldWhenClosed, Closed
<1>3. Sound(Commit(t).tran) /\ Commit(t).error \in Nat
  <2>1. t.count \notin {0, 1} => Sound([t EXCEPT !.count = @ - 1])
    BY <1>1 DEF Sound, Transaction, NothingHeldWhenClosed
  <2>2. QED
    BY <1>1, <2>1 DEF Commit, Did, Refused, CommitWithoutBegin
<1>4. Sound(Rollback(t, name).tran) /\ Rollback(t, name).error \in Nat
  <2> DEFINE left == SubSeq(t.savepoints, 1, Newest(t, name) - 1)
  <2>1. t.count # 0 /\ Marks(t, name) # {} => Sound([t EXCEPT !.savepoints = left])
    <3> SUFFICES ASSUME t.count # 0, Marks(t, name) # {}
                 PROVE  Sound([t EXCEPT !.savepoints = left])
      OBVIOUS
    <3>1. Newest(t, name) \in 1..Len(t.savepoints)
      BY <1>1, NewestIsAMark
    <3>2. /\ Newest(t, name) - 1 \in Int
          /\ \A i \in 1..(Newest(t, name) - 1) : t.savepoints[i] \in Names
      BY <1>1, <3>1
    <3>3. left \in Seq(Names)
      BY <3>2, SubSeqProperties
    <3> HIDE DEF left
    <3>4. QED
      BY <1>1, <3>3 DEF Sound, Transaction, NothingHeldWhenClosed
  <2> HIDE DEF left
  <2>2. Rollback(t, name) \in
          {Refused(t, RollbackWithoutBegin), Did(Closed), Refused(t, NoSuchSavepoint)}
        \/ /\ t.count # 0 /\ Marks(t, name) # {}
           /\ Rollback(t, name) = Did([t EXCEPT !.savepoints = left])
    BY DEF Rollback, left
  <2>3. QED
    BY <1>1, <2>1, <2>2 DEF Did, Refused, RollbackWithoutBegin, NoSuchSavepoint
<1>5. ASSUME name \in Names
      PROVE  Sound(Save(t, name).tran) /\ Save(t, name).error \in Nat
  <2> DEFINE marked == Append(t.savepoints, name)
  <2>1. marked \in Seq(Names)
    BY <1>1, <1>5
  <2>2. t.count # 0 => Save(t, name) = Did([t EXCEPT !.savepoints = marked])
    BY DEF Save
  <2> HIDE DEF marked
  <2>3. t.count # 0 => Sound([t EXCEPT !.savepoints = marked])
    BY <1>1, <2>1 DEF Sound, Transaction, NothingHeldWhenClosed
  <2>4. t.count = 0 => Save(t, name) = Refused(t, SaveWithoutBegin)
    BY DEF Save
  <2>5. QED
    BY <1>1, <2>2, <2>3, <2>4 DEF Did, Refused, SaveWithoutBegin
<1>6. kind = "save" => name \in Names
  BY DEF NamesOrNone
<1>7. QED
  BY <1>1, <1>2, <1>3, <1>4, <1>5, <1>6 DEF TransactionStatement, Kinds, Did

-------------------------------------------------------------------------------
(* What is true of the constructs that are open.                           *)

Has(stack, kind) == \E i \in DOMAIN stack : stack[i].kind = kind
Front(stack) == SubSeq(stack, 1, Len(stack) - 1)

(* A batch is the outermost construct and no other, and nothing inside a   *)
(* TRY catches.                                                            *)
Nested(stack) ==
    /\ \A i \in DOMAIN stack : stack[i].kind = "batch" <=> i = 1
    /\ \A i, j \in DOMAIN stack :
          i <= j /\ stack[i].kind = "try" => stack[j].catching = FALSE

(* The outermost text found only tables that no text made.                 *)
FoundOutside(stack, names) ==
    \A i \in DOMAIN stack :
       stack[i].kind = "text" =>
          stack[i].held \subseteq names \/ \E j \in 1..(i - 1) : stack[j].kind = "text"

(* A loop is around, in the same batch or text.                            *)
InALoop(stack) ==
    \E i \in DOMAIN stack :
       stack[i].kind = "while" /\ \A j \in i..Len(stack) : stack[j].kind # "text"

Safe(stack, made, names, error, away, thrown) ==
    /\ Nested(stack)
    /\ error # NoExc => Has(stack, "catch")
    /\ ~Has(stack, "text") => made \subseteq names
    /\ FoundOutside(stack, names)
    /\ away # "no" => InALoop(stack) /\ thrown = NoExc

LEMMA FrontIs ==
    ASSUME NEW stack \in Seq(Frames), stack # <<>>
    PROVE  /\ Front(stack) \in Seq(Frames)
           /\ Len(stack) \in Nat /\ Len(stack) >= 1
           /\ Len(Front(stack)) = Len(stack) - 1
           /\ DOMAIN Front(stack) = 1..(Len(stack) - 1)
           /\ DOMAIN stack = 1..Len(stack)
           /\ \A i \in 1..(Len(stack) - 1) : Front(stack)[i] = stack[i]
           /\ stack[Len(stack)] \in Frames
<1>1. Len(stack) \in Nat /\ Len(stack) >= 1 /\ DOMAIN stack = 1..Len(stack)
  OBVIOUS
<1>2. \A i \in 1..(Len(stack) - 1) : stack[i] \in Frames
  BY <1>1
<1>3. /\ Front(stack) \in Seq(Frames) /\ Len(Front(stack)) = Len(stack) - 1
      /\ \A i \in 1..(Len(stack) - 1) : Front(stack)[i] = stack[i]
  BY <1>1, <1>2, SubSeqProperties DEF Front
<1>4. stack[Len(stack)] \in Frames
  BY <1>1
<1>5. DOMAIN Front(stack) = 1..(Len(stack) - 1)
  BY <1>1, <1>3
<1>6. QED
  BY <1>1, <1>3, <1>4, <1>5

(* A construct that is done takes nothing with it but what it is itself.   *)
LEMMA PoppingIsSafe ==
    ASSUME NEW stack \in Seq(Frames), stack # <<>>, NEW made, NEW names,
           NEW error, NEW away, NEW thrown,
           NEW made2, NEW error2, NEW away2, NEW thrown2,
           Safe(stack, made, names, error, away, thrown),
           stack[Len(stack)].kind = "catch" => error2 = NoExc,
           stack[Len(stack)].kind # "catch" => error2 = error,
           stack[Len(stack)].kind = "text" => made2 \subseteq stack[Len(stack)].held,
           stack[Len(stack)].kind # "text" => made2 = made,
           away2 # "no" => away2 = away /\ stack[Len(stack)].kind # "while" /\ thrown2 = thrown
    PROVE  Safe(Front(stack), made2, names, error2, away2, thrown2)
<1> DEFINE front == Front(stack)
           n     == Len(stack)
           top   == stack[n]
<1>1. /\ front \in Seq(Frames) /\ n \in Nat /\ n >= 1
      /\ DOMAIN front = 1..(n - 1) /\ DOMAIN stack = 1..n
      /\ \A i \in 1..(n - 1) : front[i] = stack[i]
      /\ Len(front) = n - 1
  BY FrontIs
<1> HIDE DEF front, n
<1>2. Nested(front)
  BY <1>1 DEF Nested, Safe
<1>3. ASSUME NEW kind
      PROVE  Has(stack, kind) <=> Has(front, kind) \/ top.kind = kind
  BY <1>1 DEF Has
<1>4. error2 # NoExc => Has(front, "catch")
  BY <1>3 DEF Safe, n
<1>5. ~Has(front, "text") => made2 \subseteq names
  <2>1. CASE top.kind = "text"
    <3>1. SUFFICES ASSUME ~Has(front, "text") PROVE top.held \subseteq names
      BY <2>1 DEF n
    <3>2. \A j \in 1..(n - 1) : stack[j].kind # "text"
      BY <3>1, <1>1 DEF Has
    <3>3. n \in DOMAIN stack
      BY <1>1
    <3>4. QED
      BY <2>1, <3>2, <3>3 DEF Safe, FoundOutside
  <2>2. CASE top.kind # "text"
    BY <2>2, <1>3 DEF Safe, n
  <2>3. QED
    BY <2>1, <2>2
<1>6. FoundOutside(front, names)
  <2>1. ASSUME NEW i \in DOMAIN front, front[i].kind = "text"
        PROVE  front[i].held \subseteq names \/ \E j \in 1..(i - 1) : front[j].kind = "text"
    <3>1. i \in DOMAIN stack /\ stack[i] = front[i] /\ \A j \in 1..(i - 1) : front[j] = stack[j]
      BY <1>1
    <3>2. stack[i].held \subseteq names \/ \E j \in 1..(i - 1) : stack[j].kind = "text"
      BY <2>1, <3>1 DEF Safe, FoundOutside
    <3>3. QED
      BY <3>1, <3>2
  <2>2. QED
    BY <2>1 DEF FoundOutside
<1>7. away2 # "no" => InALoop(front) /\ thrown2 = NoExc
  <2>1. SUFFICES ASSUME away2 # "no" PROVE InALoop(front) /\ thrown2 = NoExc
    OBVIOUS
  <2>2. PICK i \in DOMAIN stack : /\ stack[i].kind = "while"
                                  /\ \A j \in i..n : stack[j].kind # "text"
    BY <2>1 DEF Safe, InALoop, n
  <2>3. i # n
    BY <2>1, <2>2 DEF n
  <2>4. i \in 1..(n - 1)
    BY <1>1, <2>3
  <2>5. front[i].kind = "while" /\ \A j \in i..(n - 1) : front[j].kind # "text"
    BY <1>1, <2>2, <2>4
  <2>6. InALoop(front)
    BY <1>1, <2>4, <2>5 DEF InALoop
  <2>7. QED
    BY <2>1, <2>6 DEF Safe
<1>8. QED
  BY <1>2, <1>4, <1>5, <1>6, <1>7 DEF Safe, front

(* A construct opened inside another.                                      *)
LEMMA PushingIsSafe ==
    ASSUME NEW stack \in Seq(Frames), stack # <<>>, NEW made, NEW names,
           NEW error, NEW away, NEW thrown, NEW frame \in Frames, NEW error2, NEW thrown2,
           Safe(stack, made, names, error, away, thrown),
           frame.kind # "batch",
           frame.catching = TRUE => stack[Len(stack)].catching = TRUE /\ frame.kind # "try",
           frame.kind = "text" => frame.held = made,
           error2 # NoExc => error2 = error \/ frame.kind = "catch"
    PROVE  Safe(Append(stack, frame), made, names, error2, "no", thrown2)
<1> DEFINE more == Append(stack, frame)
           n    == Len(stack)
<1>1. /\ n \in Nat /\ n >= 1 /\ more \in Seq(Frames) /\ Len(more) = n + 1
      /\ DOMAIN more = 1..(n + 1) /\ DOMAIN stack = 1..n
      /\ \A i \in 1..n : more[i] = stack[i]
      /\ more[n + 1] = frame
  OBVIOUS
<1> HIDE DEF more, n
<1>2. Nested(more)
  <2>1. \A i \in DOMAIN more : more[i].kind = "batch" <=> i = 1
    BY <1>1 DEF Safe, Nested
  <2>2. ASSUME NEW i \in DOMAIN more, NEW j \in DOMAIN more, i <= j, more[i].kind = "try"
        PROVE  more[j].catching = FALSE
    <3>0. frame.catching = TRUE \/ frame.catching = FALSE
      BY DEF Frames
    <3>1. CASE j \in 1..n
      BY <1>1, <2>2, <3>1 DEF Safe, Nested
    <3>2. CASE j = n + 1 /\ i \in 1..n
      <4>1. stack[n].catching = FALSE
        BY <1>1, <2>2, <3>2 DEF Safe, Nested
      <4>2. QED
        BY <1>1, <3>0, <3>2, <4>1 DEF n
    <3>3. CASE j = n + 1 /\ i = n + 1
      <4>1. more[j] = frame /\ frame.kind = "try"
        BY <1>1, <2>2, <3>3
      <4>2. QED
        BY <3>0, <4>1
    <3>4. j \in 1..n \/ (j = n + 1 /\ i \in 1..n) \/ (j = n + 1 /\ i = n + 1)
      BY <1>1
    <3>5. QED
      BY <3>1, <3>2, <3>3, <3>4, Zenon
  <2>3. QED
    BY <2>1, <2>2 DEF Nested
<1>3. ASSUME NEW kind
      PROVE  Has(more, kind) <=> Has(stack, kind) \/ frame.kind = kind
  BY <1>1 DEF Has
<1>4. error2 # NoExc => Has(more, "catch")
  BY <1>3 DEF Safe
<1>5. ~Has(more, "text") => made \subseteq names
  BY <1>3 DEF Safe
<1>6. FoundOutside(more, names)
  <2>1. ASSUME NEW i \in DOMAIN more, more[i].kind = "text"
        PROVE  more[i].held \subseteq names \/ \E j \in 1..(i - 1) : more[j].kind = "text"
    <3>1. CASE i \in 1..n
      <4>1. stack[i].held \subseteq names \/ \E j \in 1..(i - 1) : stack[j].kind = "text"
        BY <1>1, <2>1, <3>1 DEF Safe, FoundOutside
      <4>2. \A j \in 1..(i - 1) : more[j] = stack[j]
        BY <1>1, <3>1
      <4>3. QED
        BY <1>1, <3>1, <4>1, <4>2
    <3>2. CASE i = n + 1
      <4>1. CASE Has(stack, "text")
        BY <1>1, <3>2, <4>1 DEF Has
      <4>2. CASE ~Has(stack, "text")
        BY <1>1, <2>1, <3>2, <4>2 DEF Safe
      <4>3. QED
        BY <4>1, <4>2
    <3>3. QED
      BY <1>1, <3>1, <3>2
  <2>2. QED
    BY <2>1 DEF FoundOutside
<1>7. QED
  BY <1>2, <1>4, <1>5, <1>6 DEF Safe, more

(* A loop that turns again is the loop it was.                             *)
LEMMA TurningIsSafe ==
    ASSUME NEW stack \in Seq(Frames), stack # <<>>, NEW made, NEW names,
           NEW error, NEW away, NEW thrown, NEW thrown2, NEW turns \in Nat,
           Safe(stack, made, names, error, away, thrown)
    PROVE  LET turned == [stack EXCEPT ![Len(stack)].turns = turns]
           IN  /\ turned \in Seq(Frames) /\ turned # <<>>
               /\ Safe(turned, made, names, error, "no", thrown2)
<1> DEFINE turned == [stack EXCEPT ![Len(stack)].turns = turns]
<1>1. DOMAIN turned = DOMAIN stack /\ Len(turned) = Len(stack) /\ DOMAIN stack = 1..Len(stack)
  OBVIOUS
<1>2. \A i \in DOMAIN stack :
         /\ turned[i].kind = stack[i].kind /\ turned[i].held = stack[i].held
         /\ turned[i].catching = stack[i].catching /\ turned[i] \in Frames
  <2>1. ASSUME NEW i \in DOMAIN stack, i # Len(stack)
        PROVE  turned[i] = stack[i] /\ stack[i] \in Frames
    BY <2>1
  <2>2. CASE Len(stack) \in DOMAIN stack
    <3> DEFINE top == stack[Len(stack)]
    <3>1. top \in Frames /\ turned[Len(stack)] = [top EXCEPT !.turns = turns]
      BY <2>2
    <3> HIDE DEF top
    <3>2. /\ [top EXCEPT !.turns = turns] \in Frames
          /\ [top EXCEPT !.turns = turns].kind = top.kind
          /\ [top EXCEPT !.turns = turns].held = top.held
          /\ [top EXCEPT !.turns = turns].catching = top.catching
      BY <3>1 DEF Frames
    <3>3. QED
      BY <2>1, <3>1, <3>2 DEF top
  <2>3. QED
    BY <2>1, <2>2
<1>3. turned \in Seq(Frames) /\ turned # <<>>
  BY <1>1, <1>2
<1> HIDE DEF turned
<1>4. Nested(turned)
  BY <1>1, <1>2 DEF Safe, Nested
<1>5. ASSUME NEW kind PROVE Has(turned, kind) <=> Has(stack, kind)
  BY <1>1, <1>2 DEF Has
<1>6. FoundOutside(turned, names)
  <2>1. ASSUME NEW i \in DOMAIN turned, turned[i].kind = "text"
        PROVE  turned[i].held \subseteq names \/ \E j \in 1..(i - 1) : turned[j].kind = "text"
    <3>1. stack[i].held \subseteq names \/ \E j \in 1..(i - 1) : stack[j].kind = "text"
      BY <1>1, <1>2, <2>1 DEF Safe, FoundOutside
    <3>2. \A j \in 1..(i - 1) : j \in DOMAIN stack
      BY <1>1
    <3>3. QED
      BY <1>1, <1>2, <3>1, <3>2
  <2>2. QED
    BY <2>1 DEF FoundOutside
<1>7. QED
  BY <1>3, <1>4, <1>5, <1>6 DEF Safe, turned

-------------------------------------------------------------------------------
(* The inductive invariant: types, nothing left of a transaction that is   *)
(* over, and what the open constructs say of the tables, of what was       *)
(* caught and of a BREAK on its way out.                                   *)

IInv ==
    /\ Typed
    /\ NothingHeldWhenClosed(tran)
    /\ Safe(frames, tables, outside, caught, leaving, exc)

LEMMA UnmarkedIs == \A n \in Nat : Unmarked(n) \in Errors
  BY DEF Unmarked, Errors

LEMMA NumbersAre ==
    /\ NoError \in Nat /\ SyntaxError \in Nat /\ AlreadyAnObject \in Nat
    /\ NoSuchTableToDrop \in Nat /\ NothingToRethrow \in Nat
    /\ Unsupported \in Nat /\ UnbalancedTransactions \in Nat
    /\ Fails \subseteq Nat /\ NoExc \in Errors
<1>1. NoError \in Nat /\ SyntaxError \in Nat /\ AlreadyAnObject \in Nat
      /\ NoSuchTableToDrop \in Nat /\ NothingToRethrow \in Nat
      /\ Unsupported \in Nat /\ UnbalancedTransactions \in Nat
  BY DEF NoError, SyntaxError, AlreadyAnObject, NoSuchTableToDrop, NothingToRethrow,
         Unsupported, UnbalancedTransactions
<1>2. QED
  BY <1>1, UnmarkedIs, BatchAssumption DEF NoExc

LEMMA EndedIsSound ==
    ASSUME NEW t, Sound(t), NEW e, NEW abort
    PROVE  Sound(EndedTheBatch(t, e, abort))
  BY ClosedIsSound DEF EndedTheBatch

LEMMA FrameIs ==
    ASSUME NEW kind \in Constructs, NEW catching \in BOOLEAN
    PROVE  /\ Frame(kind, catching) \in Frames
           /\ Frame(kind, catching).kind = kind
           /\ Frame(kind, catching).catching = catching
  BY DEF Frame, Frames

LEMMA TopIs ==
    ASSUME Typed, frames # <<>>
    PROVE  /\ Top \in Frames /\ Top.catching \in BOOLEAN /\ Top.turns \in Nat
           /\ Top.held \subseteq TempTables /\ Top.opened \in Nat
           /\ Top = frames[Len(frames)] /\ Around = Front(frames)
           /\ Around \in Seq(Frames)
<1>1. frames \in Seq(Frames)
  BY DEF Typed
<1>2. Top \in Frames /\ Top = frames[Len(frames)] /\ Around = Front(frames)
      /\ Around \in Seq(Frames)
  BY <1>1, FrontIs DEF Top, Around, Front
<1>3. QED
  BY <1>2 DEF Frames

(* A statement that opens nothing and touches no table.                    *)
LEMMA PlainIsSafe ==
    ASSUME IInv, NEW isRead \in BOOLEAN, Statement(isRead),
           frames' = frames, tables' = tables, outside' = outside, leaving' = leaving,
           exc' \in Errors, errorNumber' \in Nat, answers' \in Seq(Errors),
           xactAbort' \in BOOLEAN, declared' \subseteq TempTables, Sound(tran')
    PROVE  IInv'
<1>1. Typed /\ leaving = "no" /\ Safe(frames, tables, outside, caught, leaving, exc)
  BY DEF IInv, Statement, Idle
<1>2. Safe(frames', tables', outside', caught', leaving', exc')
  BY <1>1 DEF Safe, Statement
<1>3. Typed'
  BY <1>1 DEF Typed, Statement, Sound
<1>4. QED
  BY <1>2, <1>3 DEF IInv, Sound

LEMMA PlainStep ==
    ASSUME IInv,
           \/ Read
           \/ \E number \in Fails, isRead \in BOOLEAN : Fail(number, isRead)
           \/ \E clears \in BOOLEAN : SetOrDeclare(clears)
           \/ SetXactAbort
           \/ \E kind \in TranKinds, name \in NamesOrNone : TransactionKind(kind, name)
           \/ Raiserror
           \/ Throw(Unsupported)
           \/ Rethrow
           \/ Statement(FALSE) /\ errorNumber' = NoError
              /\ UNCHANGED <<frames, exc, leaving, answers, happened>> /\ SessionKept
    PROVE  IInv'
<1>1. /\ Typed /\ Sound(tran) /\ Rows \in Errors /\ NoError \in Nat
      /\ exc \in Errors /\ errorNumber \in Nat /\ xactAbort \in BOOLEAN
      /\ answers \in Seq(Errors) /\ declared \subseteq TempTables /\ caught \in Errors
  <2>1. Typed /\ Sound(tran)
    BY DEF IInv, Typed, Sound
  <2>2. /\ exc \in Errors /\ errorNumber \in Nat /\ xactAbort \in BOOLEAN
        /\ answers \in Seq(Errors) /\ declared \subseteq TempTables /\ caught \in Errors
    BY <2>1 DEF Typed
  <2>3. QED
    BY <2>1, <2>2, NumbersAre DEF Rows
<1>2. CASE Read
  <2>1. /\ Statement(TRUE) /\ frames' = frames /\ exc' = exc /\ leaving' = leaving
        /\ errorNumber' \in {errorNumber, NoError} /\ answers' = Append(answers, Rows)
        /\ SessionKept
    BY <1>2 DEF Read, Finishes, Finish
  <2>2. answers' \in Seq(Errors)
    BY <1>1, <2>1
  <2>3. QED
    BY <1>1, <2>1, <2>2, PlainIsSafe DEF SessionKept
<1>3. ASSUME NEW number \in Fails, NEW isRead \in BOOLEAN, Fail(number, isRead)
      PROVE  IInv'
  BY <1>1, <1>3, PlainIsSafe, UnmarkedIs, NumbersAre DEF Fail, Raises, RaiseIn, SessionKept
<1>4. ASSUME NEW clears \in BOOLEAN, SetOrDeclare(clears)
      PROVE  IInv'
  BY <1>1, <1>4, PlainIsSafe DEF SetOrDeclare, Finishes, Finish, SessionKept
<1>5. CASE SetXactAbort
  BY <1>1, <1>5, PlainIsSafe DEF SetXactAbort, Finishes, Finish
<1>6. ASSUME NEW kind \in TranKinds, NEW name \in NamesOrNone, TransactionKind(kind, name)
      PROVE  IInv'
  <2> DEFINE did == TransactionStatement(tran, kind, name)
  <2>1. kind \in Kinds /\ (kind = "save" => name # NoName)
    BY <1>6, BatchAssumption DEF TransactionKind
  <2>2. Sound(did.tran) /\ did.error \in Nat
    BY <1>1, <2>1, StatementIsSound
  <2>3. /\ Statement(FALSE) /\ tran' = did.tran
        /\ frames' = frames /\ leaving' = leaving
        /\ tables' = tables /\ outside' = outside /\ xactAbort' = xactAbort
        /\ declared' = declared /\ answers' = answers
        /\ exc' \in {exc, Unmarked(did.error)} /\ errorNumber' \in {errorNumber, NoError}
    BY <1>6 DEF TransactionKind, Finishes, Finish, Raises, RaiseIn
  <2> HIDE DEF did
  <2>4. exc' \in Errors /\ errorNumber' \in Nat
    BY <1>1, <2>2, <2>3, UnmarkedIs
  <2>5. QED
    BY <1>1, <2>2, <2>3, <2>4, PlainIsSafe
<1>7. CASE Raiserror
  <2>1. [number |-> Unsupported, carriesOn |-> "on"] \in Errors
    BY NumbersAre DEF Errors
  <2>2. QED
    BY <1>1, <1>7, <2>1, PlainIsSafe DEF Raiserror, Raises, RaiseIn, SessionKept
<1>8. CASE Throw(Unsupported)
  <2>1. [number |-> Unsupported, carriesOn |-> "ends"] \in Errors
    BY NumbersAre DEF Errors
  <2>2. QED
    BY <1>1, <1>8, <2>1, PlainIsSafe DEF Throw, Raises, RaiseIn, SessionKept
<1>9. CASE Rethrow
  <2>1. caught.number \in Nat
    BY <1>1 DEF Errors
  <2>2. [number |-> caught.number, carriesOn |-> "ends"] \in Errors
    BY <2>1 DEF Errors
  <2>3. Unmarked(NothingToRethrow) \in Errors
    BY UnmarkedIs, NumbersAre
  <2>4. exc' \in Errors
    BY <1>9, <2>2, <2>3 DEF Rethrow, Raises, RaiseIn
  <2>5. QED
    BY <1>1, <1>9, <2>4, PlainIsSafe DEF Rethrow, Raises, RaiseIn, SessionKept
<1>10. CASE Statement(FALSE) /\ errorNumber' = NoError
            /\ UNCHANGED <<frames, exc, leaving, answers, happened>> /\ SessionKept
  BY <1>1, <1>10, PlainIsSafe DEF SessionKept
<1>11. QED
  BY <1>2, <1>3, <1>4, <1>5, <1>6, <1>7, <1>8, <1>9, <1>10

(* Tables made and dropped: one made in a text is not among those outside. *)
LEMMA TableStep ==
    ASSUME IInv, NEW x \in TempTables, CreateTable(x) \/ DropTable(x)
    PROVE  IInv'
<1>1. /\ Typed /\ Sound(tran) /\ leaving = "no"
      /\ Safe(frames, tables, outside, caught, leaving, exc)
  BY DEF IInv, Typed, Sound, CreateTable, DropTable, Statement, Idle
<1>2. /\ Unmarked(AlreadyAnObject) \in Errors /\ Unmarked(NoSuchTableToDrop) \in Errors
      /\ NoError \in Nat
  BY UnmarkedIs, NumbersAre
<1>3. /\ Statement(FALSE) /\ frames' = frames /\ leaving' = leaving
      /\ exc' \in Errors /\ errorNumber' \in Nat /\ answers' = answers
      /\ tran' = tran /\ xactAbort' = xactAbort /\ declared' \subseteq TempTables
      /\ outside \subseteq outside' /\ outside' \subseteq outside \cup {x}
  <2>1. exc \in Errors /\ errorNumber \in Nat /\ declared \subseteq TempTables
    BY <1>1 DEF Typed
  <2>2. CASE CreateTable(x)
    BY <1>2, <2>1, <2>2 DEF CreateTable, Finishes, Finish, Raises, RaiseIn
  <2>3. CASE DropTable(x)
    BY <1>2, <2>1, <2>3 DEF DropTable, Finishes, Finish, Raises, RaiseIn
  <2>4. QED
    BY <2>2, <2>3
<1>4. /\ tables' \subseteq tables \cup {x}
      /\ ~Has(frames, "text") => tables' \subseteq tables \cup outside'
  BY DEF CreateTable, DropTable, Open, Has
<1>5. FoundOutside(frames, outside')
  BY <1>1, <1>3 DEF Safe, FoundOutside
<1>6. Safe(frames', tables', outside', caught', leaving', exc')
  BY <1>1, <1>3, <1>4, <1>5 DEF Safe, Statement
<1>7. Typed'
  BY <1>1, <1>3, <1>4 DEF Typed, Statement
<1>8. QED
  BY <1>1, <1>3, <1>6, <1>7 DEF IInv, Sound

LEMMA LeaveTheTurnStep ==
    ASSUME IInv, NEW word \in {"BREAK", "CONTINUE"}, LeaveTheTurn(word)
    PROVE  IInv'
<1>1. Typed /\ Safe(frames, tables, outside, caught, leaving, exc) /\ exc = NoExc
  BY DEF IInv, LeaveTheTurn, Statement, Idle
<1>2. InALoop(frames)
  BY DEF LeaveTheTurn, InALoop
<1>3. Safe(frames', tables', outside', caught', leaving', exc')
  BY <1>1, <1>2 DEF Safe, LeaveTheTurn, Statement, SessionKept
<1>4. Typed'
  BY <1>1 DEF Typed, LeaveTheTurn, Statement, SessionKept
<1>5. QED
  BY <1>3, <1>4 DEF IInv, LeaveTheTurn, SessionKept

(* An IF, a block, a TRY, a loop or a text opened.                         *)
LEMMA OpeningIsSafe ==
    ASSUME IInv, NEW frame \in Frames, Opens(frame), frame.kind # "batch",
           frame.catching = TRUE => Top.catching = TRUE /\ frame.kind # "try",
           frame.kind = "text" => frame.held = tables,
           exc' \in Errors, errorNumber' \in Nat
    PROVE  IInv'
<1>1. /\ Typed /\ frames # <<>> /\ Safe(frames, tables, outside, caught, leaving, exc)
      /\ leaving = "no"
  BY DEF IInv, Opens, Statement, Idle
<1>2. /\ frames \in Seq(Frames) /\ Top = frames[Len(frames)]
      /\ frames' = Append(frames, frame) /\ caught' = caught /\ leaving' = "no"
      /\ tables' = tables /\ outside' = outside
  BY <1>1 DEF Typed, Top, Opens, Statement, SessionKept
<1>3. Safe(frames', tables', outside', caught', leaving', exc')
  BY <1>1, <1>2, PushingIsSafe
<1>4. frames' \in Seq(Frames)
  BY <1>2
<1>5. Typed'
  BY <1>1, <1>4 DEF Typed, Opens, Statement, SessionKept
<1>6. QED
  BY <1>3, <1>5 DEF IInv, Opens, SessionKept

LEMMA OpenStep ==
    ASSUME IInv,
           If \/ Block \/ Try \/ While \/ \E compiles \in BOOLEAN : ExecText(compiles)
    PROVE  IInv'
<1>1. Typed /\ exc \in Errors /\ errorNumber \in Nat /\ NoError \in Nat
  BY NumbersAre DEF IInv, Typed
<1>2. frames # <<>>
  BY DEF If, Block, Try, While, ExecText, Opens, Statement
<1>3. Top.catching \in BOOLEAN
  BY <1>1, <1>2, TopIs
<1>4. CASE If
  <2>1. CASE Opens(Frame("if", Top.catching)) /\ errorNumber' = NoError
           /\ UNCHANGED <<exc, happened>>
    <3>1. "if" \in Constructs
      BY DEF Constructs
    <3>2. QED
      BY <1>1, <1>3, <2>1, <3>1, FrameIs, OpeningIsSafe
  <2>2. QED
    BY <1>4, <2>1, PlainStep DEF If
<1>5. CASE Block
  <2>1. "block" \in Constructs
    BY DEF Constructs
  <2>2. QED
    BY <1>1, <1>3, <1>5, <2>1, FrameIs, OpeningIsSafe DEF Block
<1>6. CASE Try
  <2>1. "try" \in Constructs
    BY DEF Constructs
  <2>2. QED
    BY <1>1, <1>3, <1>6, <2>1, FrameIs, OpeningIsSafe DEF Try
<1>7. CASE While
  <2> DEFINE frame == [Frame("while", Top.catching) EXCEPT !.turns = 1]
  <2>1. /\ frame \in Frames /\ frame.kind = "while" /\ frame.catching = Top.catching
    BY <1>3 DEF Frame, Frames, Constructs
  <2>2. Opens(frame) /\ errorNumber' = NoError /\ exc' = exc
    BY <1>7 DEF While
  <2> HIDE DEF frame
  <2>3. QED
    BY <1>1, <2>1, <2>2, OpeningIsSafe
<1>8. ASSUME NEW compiles \in BOOLEAN, ExecText(compiles)
      PROVE  IInv'
  <2> DEFINE frame == [Frame("text", Top.catching) EXCEPT !.held = tables,
                                                          !.opened = tran.count]
  <2>1. tables \subseteq TempTables /\ tran.count \in Nat
    BY <1>1 DEF Typed, Transaction
  <2>2. /\ frame \in Frames /\ frame.kind = "text" /\ frame.catching = Top.catching
        /\ frame.held = tables
    BY <1>3, <2>1 DEF Frame, Frames, Constructs
  <2>3. Opens(frame) /\ errorNumber' = errorNumber /\ exc' \in {exc, Unmarked(SyntaxError)}
    BY <1>8 DEF ExecText
  <2>4. exc' \in Errors
    BY <1>1, <2>3, UnmarkedIs, NumbersAre
  <2> HIDE DEF frame
  <2>5. QED
    BY <1>1, <2>2, <2>3, <2>4, OpeningIsSafe
<1>9. QED
  BY <1>4, <1>5, <1>6, <1>7, <1>8

(* The innermost construct is left, in order or by what is on its way out. *)
LEMMA LeavingIsSafe ==
    ASSUME IInv, frames # <<>>, frames' = Around, Unasked, tran' = tran,
           exc' \in Errors, errorNumber' \in Nat, answers' \in Seq(Errors),
           Top.kind = "catch" => caught' = NoExc,
           Top.kind # "catch" => caught' = caught,
           Top.kind = "text" => tables' = TablesHeld,
           Top.kind # "text" => tables' = tables,
           leaving' # "no" => leaving' = leaving /\ Top.kind # "while" /\ exc' = exc
    PROVE  IInv'
<1>1. /\ Typed /\ Safe(frames, tables, outside, caught, leaving, exc)
      /\ frames \in Seq(Frames) /\ NoExc \in Errors
  BY NumbersAre DEF IInv, Typed
<1>2. Top = frames[Len(frames)] /\ Around = Front(frames) /\ Around \in Seq(Frames)
  BY <1>1, TopIs
<1>3. Top.kind = "text" => tables' \subseteq frames[Len(frames)].held
  BY <1>2 DEF TablesHeld
<1>4. Safe(Front(frames), tables', outside, caught', leaving', exc')
  BY <1>1, <1>2, <1>3, PoppingIsSafe
<1>5. Safe(frames', tables', outside', caught', leaving', exc')
  BY <1>2, <1>4 DEF Unasked
<1>6. caught' \in Errors /\ tables' \subseteq TempTables /\ leaving' \in {"no", "BREAK", "CONTINUE"}
  BY <1>1 DEF Typed, TablesHeld
<1>7. Typed'
  BY <1>1, <1>2, <1>6 DEF Typed, Unasked
<1>8. QED
  BY <1>5, <1>7 DEF IInv

(* A loop's condition asked again.                                         *)
LEMMA AskAgainStep ==
    ASSUME IInv, frames # <<>>, Top.kind = "while", AskAgain
    PROVE  IInv'
<1>1. /\ Typed /\ Safe(frames, tables, outside, caught, leaving, exc)
      /\ frames \in Seq(Frames) /\ exc \in Errors /\ answers \in Seq(Errors)
  BY DEF IInv, Typed
<1>2. Top.turns \in Nat /\ Top = frames[Len(frames)]
  BY <1>1, TopIs
<1>3. /\ leaving' = "no" /\ tran' = tran /\ tables' = tables /\ caught' = caught
      /\ answers' = answers /\ Unasked
  BY DEF AskAgain
<1>4. CASE /\ frames' = [frames EXCEPT ![Len(frames)].turns = @ + 1]
           /\ errorNumber' = NoError /\ UNCHANGED exc
  <2> DEFINE turns == Top.turns + 1
  <2>1. turns \in Nat /\ frames' = [frames EXCEPT ![Len(frames)].turns = turns]
    BY <1>2, <1>4
  <2> HIDE DEF turns
  <2>2. frames' \in Seq(Frames) /\ Safe(frames', tables, outside, caught, "no", exc)
    BY <1>1, <2>1, TurningIsSafe
  <2>3. Safe(frames', tables', outside', caught', leaving', exc')
    BY <1>3, <1>4, <2>2 DEF Unasked
  <2>4. Typed'
    BY <1>1, <1>3, <1>4, <2>2, NumbersAre DEF Typed, Unasked
  <2>5. QED
    BY <1>3, <2>3, <2>4 DEF IInv
<1>5. CASE frames' = Around /\ errorNumber' \in Nat /\ exc' \in Errors
  BY <1>1, <1>3, <1>5, LeavingIsSafe
<1>6. \/ /\ frames' = [frames EXCEPT ![Len(frames)].turns = @ + 1]
         /\ errorNumber' = NoError /\ UNCHANGED exc
      \/ frames' = Around /\ errorNumber' \in Nat /\ exc' \in Errors
  <2>1. errorNumber \in Nat /\ NoError \in Nat /\ Unmarked(Unsupported) \in Errors
        /\ \A number \in Fails : Unmarked(number) \in Errors
    BY <1>1, NumbersAre, UnmarkedIs DEF Typed
  <2>2. QED
    BY <1>1, <2>1 DEF AskAgain, RaiseIn
<1>7. QED
  BY <1>4, <1>5, <1>6

LEMMA CloseStep ==
    ASSUME IInv, CloseBlock \/ CloseCatch \/ EndTurn \/ CloseText
    PROVE  IInv'
<1>1. /\ frames # <<>> /\ exc = NoExc /\ leaving = "no" /\ exc \in Errors
      /\ errorNumber \in Nat /\ NoError \in Nat /\ answers \in Seq(Errors)
      /\ Unmarked(UnbalancedTransactions) \in Errors
  BY NumbersAre, UnmarkedIs
     DEF IInv, Typed, CloseBlock, CloseCatch, EndTurn, CloseText, Ends, Idle
<1>2. CASE CloseBlock
  <2>1. /\ Top.kind \in {"if", "block", "try"} /\ frames' = Around /\ Unasked
        /\ tran' = tran /\ tables' = tables /\ caught' = caught /\ answers' = answers
        /\ exc' = exc /\ leaving' = leaving /\ errorNumber' \in {errorNumber, NoError}
    BY <1>2 DEF CloseBlock, Ends, Finish
  <2>2. QED
    BY <1>1, <2>1, LeavingIsSafe
<1>3. CASE CloseCatch
  <2>1. /\ Top.kind = "catch" /\ frames' = Around /\ Unasked
        /\ tran' = tran /\ tables' = tables /\ caught' = NoExc /\ answers' = answers
        /\ exc' = exc /\ leaving' = leaving /\ errorNumber' \in {errorNumber, NoError}
    BY <1>3 DEF CloseCatch, Ends, Finish
  <2>2. QED
    BY <1>1, <2>1, LeavingIsSafe
<1>4. CASE EndTurn
  BY <1>1, <1>4, AskAgainStep DEF EndTurn, Ends
<1>5. CASE CloseText
  <2>1. /\ Top.kind = "text" /\ frames' = Around /\ Unasked
        /\ tran' = tran /\ tables' = TablesHeld /\ caught' = caught /\ answers' = answers
        /\ leaving' = leaving /\ errorNumber' \in {errorNumber, NoError}
        /\ exc' \in {exc, Unmarked(UnbalancedTransactions)}
    BY <1>5 DEF CloseText, Ends, Finish, RaiseIn
  <2>2. exc' \in Errors
    BY <1>1, <2>1
  <2>3. QED
    BY <1>1, <2>1, <2>2, LeavingIsSafe
<1>6. QED
  BY <1>2, <1>3, <1>4, <1>5

(* The batch is over.                                                      *)
LEMMA BatchEndIsSafe ==
    ASSUME IInv, frames # <<>>, Top.kind = "batch", leaving = "no", leaving' = leaving,
           frames' = <<>>, tables' = tables, outside' = outside, caught' = caught
    PROVE  Safe(frames', tables', outside', caught', leaving', exc')
<1>1. /\ frames \in Seq(Frames) /\ Top = frames[Len(frames)]
      /\ Safe(frames, tables, outside, caught, leaving, exc)
  <2>1. Typed /\ Safe(frames, tables, outside, caught, leaving, exc)
    BY DEF IInv
  <2>2. Top = frames[Len(frames)]
    BY <2>1, TopIs
  <2>3. QED
    BY <2>1, <2>2 DEF Typed
<1>2. Len(frames) = 1
  <2>1. Len(frames) \in DOMAIN frames
    BY <1>1
  <2>2. QED
    BY <1>1, <2>1 DEF Safe, Nested
<1>3. ~Has(frames, "catch") /\ ~Has(frames, "text")
  BY <1>1, <1>2 DEF Has
<1>4. QED
  BY <1>1, <1>3 DEF Safe, Nested, FoundOutside

LEMMA UnwindStep ==
    ASSUME IInv, Take \/ LeaveBlock \/ LeaveCatch \/ LeaveText \/ LeaveTurn \/ Break \/ Continue
    PROVE  IInv'
<1>1. /\ Typed /\ exc \in Errors /\ NoExc \in Errors /\ exc.number \in Nat
      /\ errorNumber \in Nat /\ answers \in Seq(Errors) /\ Append(answers, exc) \in Seq(Errors)
      /\ frames \in Seq(Frames)
  BY NumbersAre DEF IInv, Typed, Errors
<1>2. frames # <<>> /\ (exc # NoExc => leaving = "no")
  BY DEF IInv, Safe, Take, LeaveBlock, LeaveCatch, LeaveText, LeaveTurn, Break, Continue, Raised
<1>3. CASE Take
  <2>1. /\ frames' = frames /\ leaving' = leaving /\ tran' = tran /\ tables' = tables
        /\ caught' = caught /\ Unasked /\ exc' = NoExc /\ leaving = "no"
        /\ answers' = Append(answers, exc) /\ errorNumber' \in {errorNumber, exc.number}
    BY <1>2, <1>3 DEF Take, Raised, Noted
  <2>2. Safe(frames', tables', outside', caught', leaving', exc')
    BY <2>1 DEF IInv, Safe, Unasked
  <2>3. Typed'
    BY <1>1, <2>1 DEF Typed, Unasked
  <2>4. QED
    BY <2>1, <2>2, <2>3 DEF IInv
<1>4. CASE LeaveBlock
  <2>1. /\ Top.kind \in {"if", "block", "while"} /\ frames' = Around /\ Unasked /\ exc' = exc
        /\ leaving' = "no" /\ tran' = tran /\ tables' = tables /\ caught' = caught
        /\ answers' = answers /\ errorNumber' \in {errorNumber, exc.number}
    BY <1>2, <1>4 DEF LeaveBlock, Raised, Noted
  <2>2. QED
    BY <1>1, <1>2, <2>1, LeavingIsSafe
<1>5. CASE LeaveCatch
  <2>1. /\ Top.kind = "catch" /\ frames' = Around /\ Unasked /\ exc' = exc
        /\ leaving' = "no" /\ tran' = tran /\ tables' = tables /\ caught' = NoExc
        /\ answers' = answers /\ errorNumber' \in {errorNumber, exc.number}
    BY <1>2, <1>5 DEF LeaveCatch, Raised, Noted
  <2>2. QED
    BY <1>1, <1>2, <2>1, LeavingIsSafe
<1>6. CASE LeaveText
  <2>1. /\ Top.kind = "text" /\ frames' = Around /\ Unasked /\ exc' \in {exc, NoExc}
        /\ leaving' = "no" /\ tran' = tran /\ tables' = TablesHeld /\ caught' = caught
        /\ answers' \in {answers, Append(answers, exc)} /\ errorNumber' = exc.number
    BY <1>2, <1>6 DEF LeaveText, Raised
  <2>2. answers' \in Seq(Errors) /\ exc' \in Errors
    BY <1>1, <2>1
  <2>3. QED
    BY <1>1, <1>2, <2>1, <2>2, LeavingIsSafe
<1>7. CASE LeaveTurn
  <2>1. /\ Top.kind # "while" /\ frames' = Around /\ Unasked /\ exc' = exc
        /\ leaving' = leaving /\ leaving # "no" /\ tran' = tran /\ tables' = tables
        /\ caught' = (IF Top.kind = "catch" THEN NoExc ELSE caught)
        /\ answers' = answers /\ errorNumber' = errorNumber
    BY <1>7 DEF LeaveTurn
  <2>2. Top.kind # "text"
    <3>1. InALoop(frames) /\ Top = frames[Len(frames)] /\ Len(frames) \in Nat
      BY <1>1, <1>2, <2>1, TopIs DEF IInv, Safe
    <3>2. QED
      BY <1>1, <3>1 DEF InALoop
  <2>3. QED
    BY <1>1, <1>2, <2>1, <2>2, LeavingIsSafe
<1>8. CASE Break
  <2>1. /\ Top.kind = "while" /\ frames' = Around /\ Unasked /\ exc' = exc
        /\ leaving' = "no" /\ tran' = tran /\ tables' = tables /\ caught' = caught
        /\ answers' = answers /\ errorNumber' = errorNumber
    BY <1>8 DEF Break
  <2>2. QED
    BY <1>1, <1>2, <2>1, LeavingIsSafe
<1>9. CASE Continue
  BY <1>2, <1>9, AskAgainStep DEF Continue
<1>10. QED
  BY <1>3, <1>4, <1>5, <1>6, <1>7, <1>8, <1>9

(* A TRY is not the batch, so its CATCH runs inside something.             *)
LEMMA EnterCatchStep ==
    ASSUME IInv, EnterCatch
    PROVE  IInv'
<1> DEFINE frame == Frame("catch", Under(Around).catching)
<1>1. /\ Typed /\ Safe(frames, tables, outside, caught, leaving, exc)
      /\ frames \in Seq(Frames) /\ exc \in Errors /\ exc.number \in Nat /\ NoExc \in Errors
  BY NumbersAre DEF IInv, Typed, Errors
<1>2. /\ frames # <<>> /\ Top.kind = "try" /\ frames' = Append(Around, frame)
      /\ errorNumber' = exc.number /\ caught' = exc /\ exc' = NoExc /\ Unasked
      /\ leaving' = leaving /\ tran' = tran /\ tables' = tables /\ answers' = answers
      /\ leaving = "no"
  BY <1>1 DEF EnterCatch, Raised, Safe
<1>3. Top = frames[Len(frames)] /\ Around = Front(frames) /\ Around \in Seq(Frames)
  BY <1>1, <1>2, TopIs
<1>4. Safe(Around, tables, outside, caught, "no", exc)
  BY <1>1, <1>2, <1>3, PoppingIsSafe
<1>5. Around # <<>>
  <2>1. Len(frames) \in DOMAIN frames /\ Len(frames) # 1
    BY <1>1, <1>2, <1>3 DEF Safe, Nested
  <2>2. Len(Around) = Len(frames) - 1 /\ Len(frames) \in Nat
    BY <1>1, <1>2, <1>3, FrontIs
  <2>3. QED
    BY <2>1, <2>2, <1>1
<1>6. Under(Around) \in Frames /\ Under(Around) = Around[Len(Around)]
  BY <1>3, <1>5 DEF Under
<1>7. /\ frame \in Frames /\ frame.kind = "catch" /\ frame.catching = Under(Around).catching
  BY <1>6 DEF Frame, Frames, Constructs
<1> HIDE DEF frame
<1>8. Safe(Append(Around, frame), tables, outside, exc, "no", NoExc)
  BY <1>3, <1>4, <1>5, <1>6, <1>7, PushingIsSafe
<1>9. Safe(frames', tables', outside', caught', leaving', exc')
  BY <1>2, <1>8 DEF Unasked
<1>10. frames' \in Seq(Frames)
  BY <1>2, <1>3, <1>7
<1>11. Typed'
  BY <1>1, <1>2, <1>10 DEF Typed, Unasked
<1>12. QED
  BY <1>2, <1>9, <1>11 DEF IInv

LEMMA BatchStep ==
    ASSUME IInv,
           \/ \E number \in {SyntaxError, AlreadyAnObject} : Refuse(number)
           \/ \E number \in Fails \cup {NoError} : LoneRead(number)
           \/ StartBatch \/ CloseBatch \/ LeaveBatch
    PROVE  IInv'
<1>1. /\ Typed /\ Safe(frames, tables, outside, caught, leaving, exc) /\ Sound(tran)
      /\ exc \in Errors /\ NoExc \in Errors /\ exc.number \in Nat /\ errorNumber \in Nat
      /\ answers \in Seq(Errors)
      /\ \A number \in Nat : Unmarked(number) \in Errors
  BY NumbersAre, UnmarkedIs DEF IInv, Typed, Errors, Sound
<1>2. ASSUME NEW number \in {SyntaxError, AlreadyAnObject} \cup Fails \cup {NoError},
             Refuse(number) \/ LoneRead(number)
      PROVE  IInv'
  <2>1. number \in Nat
    BY NumbersAre
  <2>2. Sound(EndedTheBatch(tran, Unmarked(number), xactAbort))
    BY <1>1, EndedIsSound
  <2>3. /\ tran' \in {tran, EndedTheBatch(tran, Unmarked(number), xactAbort)}
        /\ reply' = <<Unmarked(number)>> /\ batches' = batches + 1
        /\ UNCHANGED <<xactAbort, tables, errorNumber, caught, running, ran, outside>>
    BY <1>2 DEF Refuse, LoneRead, NextBatch
  <2>4. reply' \in Seq(Errors)
    BY <1>1, <2>1, <2>3
  <2>5. Safe(frames', tables', outside', caught', leaving', exc')
    BY <1>1, <2>3 DEF running
  <2>6. Typed' /\ Sound(tran')
    BY <1>1, <2>2, <2>3, <2>4 DEF Typed, running, Sound
  <2>7. QED
    BY <2>5, <2>6 DEF IInv, Sound
<1>3. CASE StartBatch
  <2> DEFINE frame == Frame("batch", TRUE)
  <2>1. frame \in Frames /\ frame.kind = "batch"
    BY DEF Frame, Frames, Constructs
  <2>2. /\ frames = <<>> /\ frames' = <<frame>> /\ answers' = <<>> /\ shape' = "none"
        /\ declared' = {} /\ reply' = <<>> /\ batches' = batches + 1
        /\ UNCHANGED <<session, exc, leaving, ran, outside>>
    BY <1>3 DEF StartBatch, NextBatch
  <2> HIDE DEF frame
  <2>3. leaving = "no" /\ caught = NoExc /\ tables \subseteq outside
    BY <1>1, <2>2 DEF Safe, InALoop, Has
  <2>4. Safe(<<frame>>, tables, outside, caught, leaving, exc)
    BY <2>1, <2>3 DEF Safe, Nested, FoundOutside, Has
  <2>5. Safe(frames', tables', outside', caught', leaving', exc')
    BY <2>2, <2>4 DEF session
  <2>6. frames' \in Seq(Frames)
    BY <2>1, <2>2
  <2>7. Typed'
    BY <1>1, <2>2, <2>6 DEF Typed, session
  <2>8. QED
    BY <1>1, <2>2, <2>5, <2>7 DEF IInv, session, Sound
<1>4. CASE CloseBatch
  <2>1. /\ frames # <<>> /\ Top.kind = "batch" /\ leaving = "no"
        /\ UNCHANGED <<xactAbort, tables, errorNumber, caught, exc, leaving, batches, ran, outside>>
        /\ tran' \in {tran, EndedTheBatch(tran, answers[1], xactAbort)}
        /\ frames' = <<>> /\ reply' = answers /\ answers' = <<>> /\ shape' = "none" /\ declared' = {}
    BY <1>4 DEF CloseBatch, Ends, Idle, Answer
  <2>2. Safe(frames', tables', outside', caught', leaving', exc')
    BY <2>1, BatchEndIsSafe
  <2>3. Sound(tran')
    BY <1>1, <2>1, EndedIsSound
  <2>4. Typed'
    BY <1>1, <2>1, <2>3 DEF Typed, Sound
  <2>5. QED
    BY <2>2, <2>3, <2>4 DEF IInv, Sound
<1>5. CASE LeaveBatch
  <2>1. /\ frames # <<>> /\ Top.kind = "batch" /\ leaving = "no" /\ exc' = NoExc
        /\ UNCHANGED <<xactAbort, tables, caught, leaving, batches, ran, outside>>
        /\ tran' = EndedTheBatch(tran, exc, xactAbort)
        /\ errorNumber' \in {errorNumber, exc.number}
        /\ frames' = <<>> /\ reply' \in {<<exc>>, Append(answers, exc)}
        /\ answers' = <<>> /\ shape' = "none" /\ declared' = {}
    BY <1>1, <1>5 DEF LeaveBatch, Raised, Answer, Noted, Safe
  <2>2. Safe(frames', tables', outside', caught', leaving', exc')
    BY <2>1, BatchEndIsSafe
  <2>3. Sound(tran')
    BY <1>1, <2>1, EndedIsSound
  <2>4. reply' \in Seq(Errors)
    <3>1. <<exc>> \in Seq(Errors) /\ Append(answers, exc) \in Seq(Errors)
      BY <1>1
    <3>2. QED
      BY <2>1, <3>1
  <2>5. Typed'
    BY <1>1, <2>1, <2>3, <2>4 DEF Typed, Sound
  <2>6. QED
    BY <2>2, <2>3, <2>5 DEF IInv, Sound
<1>6. QED
  BY <1>2, <1>3, <1>4, <1>5

LEMMA InitHolds == Init => IInv
<1>1. SUFFICES ASSUME Init PROVE IInv
  OBVIOUS
<1>2. Sound(Closed)
  BY ClosedIsSound
<1>3. Typed
  <2>1. <<>> \in Seq(Frames) /\ <<>> \in Seq(Errors)
    OBVIOUS
  <2>2. tran \in Transaction /\ caught \in Errors /\ exc \in Errors /\ errorNumber \in Nat
    BY <1>1, <1>2, NumbersAre DEF Init, Sound
  <2>3. QED
    BY <1>1, <2>1, <2>2 DEF Init, Typed
<1>4. Safe(frames, tables, outside, caught, leaving, exc)
  BY <1>1 DEF Init, Safe, Nested, FoundOutside, Has
<1>5. QED
  BY <1>1, <1>2, <1>3, <1>4 DEF IInv, Sound, Init

LEMMA NextKeeps == IInv /\ [Next]_vars => IInv'
<1>1. ASSUME IInv, UNCHANGED vars
      PROVE  IInv'
  <2>1. Typed' /\ tran' = tran
    BY <1>1 DEF IInv, vars, session, running, Typed
  <2>2. Safe(frames', tables', outside', caught', leaving', exc')
    BY <1>1 DEF IInv, vars, session, running
  <2>3. QED
    BY <1>1, <2>1, <2>2 DEF IInv
<1>2. ASSUME IInv, RunStatement
      PROVE  IInv'
  BY <1>2, PlainStep, TableStep, LeaveTheTurnStep, OpenStep DEF RunStatement
<1>3. ASSUME IInv, Close \/ Unwind
      PROVE  IInv'
  BY <1>3, CloseStep, UnwindStep, EnterCatchStep, BatchStep DEF Close, Unwind
<1>4. QED
  BY <1>1, <1>2, <1>3, BatchStep DEF Next

LEMMA Invariance == Spec => []IInv
  BY InitHolds, NextKeeps, PTL DEF Spec

(* However a CATCH is left, by its end, by an error in it or by a BREAK,   *)
(* what it caught is forgotten, and outside one there is nothing caught    *)
(* (_tried).                                                               *)
THEOREM Caught == Spec => []CaughtInItsCatchOnly
<1>1. IInv => CaughtInItsCatchOnly
  BY DEF IInv, Safe, CaughtInItsCatchOnly, Has, Open
<1>2. QED
  BY <1>1, Invariance, PTL

(* However a text ends, and however deep texts are in one another, none of *)
(* the tables it made is left (_ran_written_out).                          *)
THEOREM NoTableIsLeft == Spec => []TextLeavesNoTable
<1>1. IInv => TextLeavesNoTable
  BY DEF IInv, Safe, TextLeavesNoTable, Has, Open
<1>2. QED
  BY <1>1, Invariance, PTL

-------------------------------------------------------------------------------
(* What a step may not do.                                                 *)

(* A statement closes no construct, and answers rows or nothing.           *)
LEMMA StatementsAre ==
    ASSUME Typed, RunStatement
    PROVE  /\ frames # <<>> /\ ran' = ran + 1 /\ ran \in Nat
           /\ frames' # <<>> /\ Len(frames') >= Len(frames) /\ frames'[1] = frames[1]
           /\ answers' \in {answers, Append(answers, Rows)}
<1>1. /\ frames # <<>> /\ ran' = ran + 1
      /\ frames' = frames \/ \E frame \in Frames : frames' = Append(frames, frame)
      /\ answers' \in {answers, Append(answers, Rows)}
  <2>1. CASE If \/ Block \/ Try \/ While \/ \E compiles \in BOOLEAN : ExecText(compiles)
    <3>1. /\ Statement(FALSE) /\ answers' = answers
          /\ \/ frames' = frames
             \/ \E kind \in {"if", "block"} : frames' = Append(frames, Frame(kind, Top.catching))
             \/ frames' = Append(frames, Frame("try", FALSE))
             \/ frames' = Append(frames, [Frame("while", Top.catching) EXCEPT !.turns = 1])
             \/ frames' = Append(frames, [Frame("text", Top.catching) EXCEPT
                                             !.held = tables, !.opened = tran.count])
      BY <2>1, Zenon DEF If, Block, Try, While, ExecText, Opens
    <3>2. frames # <<>> /\ ran' = ran + 1
      BY <3>1 DEF Statement
    <3>3. Top.catching \in BOOLEAN /\ tables \subseteq TempTables /\ tran.count \in Nat
      BY <3>2, TopIs DEF Typed, Transaction
    <3>4. /\ \A kind \in {"if", "block"} : Frame(kind, Top.catching) \in Frames
          /\ Frame("try", FALSE) \in Frames
          /\ [Frame("while", Top.catching) EXCEPT !.turns = 1] \in Frames
          /\ [Frame("text", Top.catching) EXCEPT
                 !.held = tables, !.opened = tran.count] \in Frames
      BY <3>3 DEF Frame, Frames, Constructs
    <3>5. QED
      BY <3>1, <3>2, <3>4
  <2>2. CASE ~(If \/ Block \/ Try \/ While \/ \E compiles \in BOOLEAN : ExecText(compiles))
    BY <2>2 DEF RunStatement, Read, Fail, SetOrDeclare, SetXactAbort, TransactionKind,
                CreateTable, DropTable, Raiserror, Throw, Rethrow, LeaveTheTurn,
                Statement, Finishes, Finish, Raises, RaiseIn
  <2>3. QED
    BY <2>1, <2>2
<1>2. frames \in Seq(Frames) /\ ran \in Nat
  BY DEF Typed
<1>3. QED
  BY <1>1, <1>2

(* Only a batch is outermost.                                              *)
LEMMA OutermostIs ==
    ASSUME IInv, frames # <<>>
    PROVE  /\ Top.kind = "batch" => Len(frames) = 1 /\ ~Open({"try"})
           /\ Top.kind # "batch" => Around # <<>>
           /\ Open({"try"}) => ~Top.catching
           /\ Len(Around) = Len(frames) - 1 /\ Len(frames) \in Nat
<1>1. /\ frames \in Seq(Frames) /\ Top = frames[Len(frames)] /\ Around = Front(frames)
      /\ Nested(frames)
  BY TopIs DEF IInv, Typed, Safe
<1>2. /\ Len(frames) \in Nat /\ Len(frames) >= 1 /\ DOMAIN frames = 1..Len(frames)
      /\ Len(Around) = Len(frames) - 1
  BY <1>1, FrontIs
<1>3. Top.kind = "batch" <=> Len(frames) = 1
  BY <1>1, <1>2 DEF Nested
<1>4. Len(frames) # 1 => Around # <<>>
  BY <1>1, <1>2
<1>5. Len(frames) = 1 => ~Open({"try"})
  BY <1>1, <1>2 DEF Nested, Open
<1>6. Open({"try"}) => ~Top.catching
  BY <1>1, <1>2 DEF Nested, Open
<1>7. QED
  BY <1>2, <1>3, <1>4, <1>5, <1>6

(* A loop that turns again closes nothing.                                 *)
LEMMA AskingAgainIs ==
    ASSUME Typed, frames # <<>>, AskAgain
    PROVE  (frames' = Around \/ Len(frames') = Len(frames)) /\ tran' = tran /\ answers' = answers
<1>1. \/ frames' = Around
      \/ frames' = [frames EXCEPT ![Len(frames)].turns = @ + 1]
  BY DEF AskAgain, RaiseIn
<1>2. frames \in Seq(Frames)
  BY DEF Typed
<1>3. QED
  BY <1>1, <1>2 DEF AskAgain

(* The transactions a batch is left with are those its statements left,    *)
(* whatever errors are raised, caught and carried out of texts on the way  *)
(* (EndedTheBatch is asked where a batch is answered and nowhere else).    *)
THEOREM EndsRollBack == Spec => OnlyTheEndOfABatchRollsBack
<1>1. ASSUME IInv, [Next]_vars
      PROVE  [(ran' = ran /\ frames' # <<>>) => tran' = tran]_vars
  <2>1. CASE RunStatement
    BY <1>1, <2>1, StatementsAre DEF IInv
  <2>2. CASE Close
    BY <2>2 DEF Close, CloseBlock, CloseCatch, EndTurn, AskAgain, CloseText, CloseBatch, Answer
  <2>3. CASE Unwind
    BY <2>3 DEF Unwind, Take, LeaveBlock, LeaveCatch, EnterCatch, LeaveText, LeaveBatch,
                LeaveTurn, Break, Continue, AskAgain, Answer
  <2>4. CASE \/ \E number \in {SyntaxError, AlreadyAnObject} : Refuse(number)
             \/ \E number \in Fails \cup {NoError} : LoneRead(number)
    BY <2>4 DEF Refuse, LoneRead, NextBatch, running
  <2>5. CASE StartBatch
    BY <2>5 DEF StartBatch, session
  <2>6. CASE UNCHANGED vars
    BY <2>6
  <2>7. QED
    BY <1>1, <2>1, <2>2, <2>3, <2>4, <2>5, <2>6 DEF Next
<1>2. QED
  BY Invariance, <1>1, PTL DEF Spec, OnlyTheEndOfABatchRollsBack

(* Until its CATCH has it, an error in a TRY is not told, from however     *)
(* deep in it it comes (_run_all).                                         *)
THEOREM TriesAreSilent == Spec => TryingIsSilent
<1>1. ASSUME IInv, [Next]_vars
      PROVE  [Open({"try"}) => answers' \in {answers, Append(answers, Rows)}]_vars
  <2>1. SUFFICES ASSUME Next, Open({"try"})
                 PROVE  answers' \in {answers, Append(answers, Rows)}
    BY <1>1 DEF vars, running
  <2>2. frames # <<>>
    BY <2>1 DEF Open
  <2>3. Top.kind # "batch" /\ ~Top.catching /\ Typed
    BY <1>1, <2>1, <2>2, OutermostIs DEF IInv
  <2>4. CASE RunStatement
    BY <2>3, <2>4, StatementsAre
  <2>5. CASE Close
    BY <2>3, <2>5 DEF Close, CloseBlock, CloseCatch, EndTurn, AskAgain, CloseText,
                      CloseBatch, Ends
  <2>6. CASE Unwind
    BY <2>3, <2>6 DEF Unwind, Take, Takes, LeaveBlock, LeaveCatch, EnterCatch, LeaveText,
                      LeaveBatch, LeaveTurn, Break, Continue, AskAgain, Raised
  <2>7. QED
    BY <2>1, <2>2, <2>4, <2>5, <2>6 DEF Next, Refuse, LoneRead, StartBatch, NextBatch
<1>2. QED
  BY Invariance, <1>1, PTL DEF Spec, TryingIsSilent

(* A text that leaves the count of transactions changed has told of an     *)
(* error (266, or what ended the text), at any depth (_ran_written_out).   *)
THEOREM MismatchesAreTold == Spec => MismatchIsTold
<1>1. ASSUME IInv, [Next]_vars
      PROVE  [(frames # <<>> /\ Top.kind = "text" /\ Len(frames') < Len(frames)) =>
                 \/ tran'.count = Top.opened
                 \/ exc' # NoExc
                 \/ Len(answers') > Len(answers)]_vars
  <2>1. SUFFICES ASSUME Next, frames # <<>>, Top.kind = "text", Len(frames') < Len(frames)
                 PROVE  \/ tran'.count = Top.opened
                        \/ exc' # NoExc
                        \/ Len(answers') > Len(answers)
    <3>1. UNCHANGED vars => Len(frames') = Len(frames) /\ Len(frames) \in Nat
      BY <1>1 DEF vars, running, IInv, Typed
    <3>2. QED
      BY <1>1, <3>1
  <2>2. Typed /\ answers \in Seq(Errors) /\ Len(frames) \in Nat
    BY <1>1 DEF IInv, Typed
  <2>3. ~RunStatement
    <3>1. RunStatement => Len(frames') >= Len(frames) /\ Len(frames') \in Nat
      <4>1. frames' \in Seq(Frames)
        BY <1>1, NextKeeps DEF IInv, Typed
      <4>2. QED
        BY <2>2, <4>1, StatementsAre
    <3>2. QED
      BY <2>1, <2>2, <3>1
  <2>4. leaving # "no" => FALSE
    <3>1. SUFFICES ASSUME leaving # "no" PROVE FALSE
      OBVIOUS
    <3>2. InALoop(frames) /\ Top = frames[Len(frames)] /\ Len(frames) \in Nat
          /\ frames \in Seq(Frames)
      BY <1>1, <2>1, <3>1, TopIs DEF IInv, Safe, Typed
    <3>3. QED
      BY <2>1, <3>2 DEF InALoop
  <2>5. CASE CloseText
    <3>1. Unmarked(UnbalancedTransactions) # NoExc
      BY DEF Unmarked, NoExc, UnbalancedTransactions, NoError
    <3>2. QED
      BY <2>5, <3>1 DEF CloseText, RaiseIn, Finish
  <2>6. CASE LeaveText
    BY <2>2, <2>6 DEF LeaveText, Raised
  <2>7. CASE Take
    BY <2>1, <2>2, <2>7 DEF Take
  <2>8. QED
    BY <2>1, <2>3, <2>4, <2>5, <2>6, <2>7
       DEF Next, Refuse, LoneRead, StartBatch, NextBatch, Close, CloseBlock, CloseCatch,
           EndTurn, CloseBatch, Ends, Unwind, LeaveBlock, LeaveCatch, EnterCatch,
           LeaveBatch, LeaveTurn, Break, Continue, Raised
<1>2. QED
  BY Invariance, <1>1, PTL DEF Spec, MismatchIsTold

(* A batch is over at its end or at an error that ends it, and nowhere     *)
(* else.                                                                   *)
LEMMA OnlyABatchEnds ==
    ASSUME IInv, Close \/ Unwind, frames' = <<>>
    PROVE  CloseBatch \/ LeaveBatch
<1>1. frames # <<>> /\ Typed /\ Len(frames) \in Nat
  <2>1. frames # <<>>
    BY DEF Close, CloseBlock, CloseCatch, EndTurn, CloseText, CloseBatch, Ends,
           Unwind, Take, LeaveBlock, LeaveCatch, EnterCatch, LeaveText, LeaveBatch, LeaveTurn,
           Break, Continue, Raised
  <2>2. Typed /\ frames \in Seq(Frames)
    BY DEF IInv, Typed
  <2>3. QED
    BY <2>1, <2>2
<1>2. Top.kind # "batch" => frames' # Around
  BY <1>1, OutermostIs
<1>3. ~(AskAgain /\ Top.kind = "while")
  <2>1. SUFFICES ASSUME AskAgain, Top.kind = "while" PROVE FALSE
    OBVIOUS
  <2>2. Len(frames') = Len(frames)
    BY <1>1, <1>2, <2>1, AskingAgainIs
  <2>3. QED
    BY <1>1, <2>2 DEF Typed
<1>4. ~(CloseBlock \/ CloseCatch \/ EndTurn \/ CloseText)
  BY <1>2, <1>3 DEF CloseBlock, CloseCatch, EndTurn, CloseText, Ends, Finish, RaiseIn
<1>5. ~EnterCatch
  <2>1. Around \in Seq(Frames)
    BY <1>1, TopIs
  <2>2. QED
    BY <2>1 DEF EnterCatch
<1>6. ~(Take \/ LeaveBlock \/ LeaveCatch \/ LeaveText)
  BY <1>1, <1>2 DEF Take, LeaveBlock, LeaveCatch, LeaveText, Raised
<1>7. ~LeaveTurn
  <2>1. SUFFICES ASSUME LeaveTurn PROVE FALSE
    OBVIOUS
  <2>2. InALoop(frames) /\ frames \in Seq(Frames) /\ Nested(frames)
    BY <2>1 DEF LeaveTurn, IInv, Safe, Typed
  <2>3. Len(frames) # 1
    <3>1. SUFFICES ASSUME Len(frames) = 1 PROVE FALSE
      OBVIOUS
    <3>2. frames[1].kind = "batch" /\ frames[1].kind = "while"
      BY <2>2, <3>1 DEF InALoop, Nested
    <3>3. QED
      BY <3>2
  <2>4. QED
    BY <1>1, <1>2, <2>1, <2>3, OutermostIs DEF LeaveTurn
<1>8. ~(Break \/ Continue)
  BY <1>1, <1>2, <1>3 DEF Break, Continue
<1>9. QED
  BY <1>4, <1>5, <1>6, <1>7, <1>8 DEF Close, Unwind

-------------------------------------------------------------------------------
(* What the client reads of what happened.                                 *)

(* The answers and the error on its way out are what happened; no error is *)
(* on its way between batches; and a batch catches, so that one ends at an *)
(* error of GoesOn under XACT_ABORT alone, which keeps the answers.        *)
HInv ==
    /\ happened \in Seq(Errors)
    /\ TellsWhatHappened
    /\ frames = <<>> => exc = NoExc
    /\ frames # <<>> => frames[1].catching = TRUE

(* What a step does to what happened.                                      *)
Nothing  == UNCHANGED <<exc, answers, happened>>
Gives    == /\ exc = NoExc /\ exc' = NoExc
            /\ answers' = Append(answers, Rows) /\ happened' = Append(happened, Rows)
Fallen   == exc = NoExc /\ exc' # NoExc /\ answers' = answers /\ Happens(exc')
Settled  == exc # NoExc /\ exc' = NoExc /\ answers' = Append(answers, exc) /\ happened' = happened
Handled  == /\ exc # NoExc /\ exc' = NoExc /\ answers' = answers
            /\ happened' = SubSeq(happened, 1, Len(happened) - 1)

(* The numbers errors are raised with are the number of none.              *)
LEMMA ErrorsAre ==
    /\ \A number \in Fails \cup {AlreadyAnObject, NoSuchTableToDrop, SyntaxError,
                                 NothingToRethrow, Unsupported, UnbalancedTransactions} :
          Unmarked(number) # NoExc
    /\ \A number : [number |-> number, carriesOn |-> "ends"] # NoExc
    /\ [number |-> Unsupported, carriesOn |-> "on"] # NoExc
<1>1. \A number \in Fails \cup {AlreadyAnObject, NoSuchTableToDrop, SyntaxError,
                                 NothingToRethrow, Unsupported, UnbalancedTransactions} :
         number # NoError
  BY BatchAssumption DEF NoError, AlreadyAnObject, NoSuchTableToDrop, SyntaxError,
                         NothingToRethrow, Unsupported, UnbalancedTransactions
<1>2. \A number : Unmarked(number).number = number /\ Unmarked(number).carriesOn = "unset"
  BY DEF Unmarked
<1>3. NoExc.number = NoError /\ NoExc.carriesOn = "unset"
  BY <1>2 DEF NoExc
<1>4. \A number : [number |-> number, carriesOn |-> "ends"].carriesOn # NoExc.carriesOn
  BY <1>3
<1>5. [number |-> Unsupported, carriesOn |-> "on"].carriesOn # NoExc.carriesOn
  BY <1>3
<1>6. QED
  BY <1>1, <1>2, <1>3, <1>4, <1>5

LEMMA StatementsTell ==
    ASSUME RunStatement
    PROVE  Nothing \/ Gives \/ Fallen
<1>1. exc = NoExc
  BY DEF RunStatement, Read, Fail, SetOrDeclare, SetXactAbort, TransactionKind, CreateTable,
         DropTable, Raiserror, Throw, Rethrow, LeaveTheTurn, If, Block, Try, While, ExecText,
         Opens, Statement, Idle
<1>2. CASE Read
  BY <1>1, <1>2 DEF Read, Finish, Happens, Gives
<1>3. ASSUME NEW number \in Fails, NEW isRead \in BOOLEAN, Fail(number, isRead)
      PROVE  Fallen
  BY <1>1, <1>3, ErrorsAre DEF Fail, Raises, RaiseIn, Fallen
<1>4. CASE (\E clears \in BOOLEAN : SetOrDeclare(clears)) \/ SetXactAbort
  BY <1>4 DEF SetOrDeclare, SetXactAbort, Finishes, Finish, Nothing
<1>5. ASSUME NEW kind, NEW name, TransactionKind(kind, name)
      PROVE  Nothing \/ Fallen
  <2> DEFINE did == TransactionStatement(tran, kind, name)
  <2>1. CASE did.error = NoError
    BY <1>5, <2>1 DEF TransactionKind, Finishes, Finish, Nothing
  <2>2. CASE did.error # NoError
    <3>1. answers' = answers /\ exc' = Unmarked(did.error) /\ Happens(exc')
      BY <1>5, <2>2 DEF TransactionKind, Raises, RaiseIn, Happens
    <3>2. Unmarked(did.error).number # NoExc.number
      BY <2>2 DEF Unmarked, NoExc
    <3>3. QED
      BY <1>1, <3>1, <3>2 DEF Fallen
  <2>3. QED
    BY <2>1, <2>2
<1>6. ASSUME NEW x, CreateTable(x) \/ DropTable(x)
      PROVE  Nothing \/ Fallen
  <2>1. CASE CreateTable(x)
    BY <1>1, <2>1, ErrorsAre
       DEF CreateTable, Raises, RaiseIn, Happens, Finishes, Finish, Nothing, Fallen
  <2>2. CASE DropTable(x)
    BY <1>1, <2>2, ErrorsAre
       DEF DropTable, Raises, RaiseIn, Happens, Finishes, Finish, Nothing, Fallen
  <2>3. QED
    BY <1>6, <2>1, <2>2
<1>7. CASE Raiserror \/ Throw(Unsupported)
  BY <1>1, <1>7, ErrorsAre DEF Raiserror, Throw, Raises, RaiseIn, Happens, Fallen
<1>8. CASE Rethrow
  BY <1>1, <1>8, ErrorsAre DEF Rethrow, Raises, RaiseIn, Happens, Fallen
<1>9. CASE \E word \in {"BREAK", "CONTINUE"} : LeaveTheTurn(word)
  BY <1>9 DEF LeaveTheTurn, Nothing
<1>10. CASE If \/ Block \/ Try \/ While
  BY <1>10 DEF If, Block, Try, While, Opens, Nothing
<1>11. ASSUME NEW compiles \in BOOLEAN, ExecText(compiles)
       PROVE  Nothing \/ Fallen
  BY <1>1, <1>11, ErrorsAre DEF ExecText, Opens, Happens, Nothing, Fallen
<1>12. QED
  BY <1>2, <1>3, <1>4, <1>5, <1>6, <1>7, <1>8, <1>9, <1>10, <1>11 DEF RunStatement

LEMMA ClosingTells ==
    ASSUME IInv, \/ CloseBlock \/ CloseCatch \/ EndTurn \/ CloseText
                 \/ Take \/ LeaveBlock \/ LeaveCatch \/ EnterCatch \/ LeaveText
                 \/ LeaveTurn \/ Break \/ Continue
    PROVE  Nothing \/ Fallen \/ Settled \/ Handled
<1>1. ASSUME AskAgain, exc = NoExc
      PROVE  Nothing \/ Fallen
  BY <1>1, ErrorsAre DEF AskAgain, RaiseIn, Happens, Nothing, Fallen
<1>2. CASE CloseBlock \/ CloseCatch
  BY <1>2 DEF CloseBlock, CloseCatch, Finish, Nothing
<1>3. CASE EndTurn
  BY <1>1, <1>3 DEF EndTurn, Ends, Idle
<1>4. CASE CloseText
  BY <1>4, ErrorsAre DEF CloseText, Ends, Idle, RaiseIn, Happens, Finish, Nothing, Fallen
<1>5. CASE Take
  BY <1>5 DEF Take, Raised, Settled
<1>6. CASE LeaveBlock \/ LeaveCatch \/ LeaveTurn \/ Break
  BY <1>6 DEF LeaveBlock, LeaveCatch, LeaveTurn, Break, Nothing
<1>7. CASE EnterCatch
  BY <1>7 DEF EnterCatch, Raised, Handled
<1>8. CASE LeaveText
  BY <1>8 DEF LeaveText, Raised, Nothing, Settled
<1>9. CASE Continue
  <2>1. exc = NoExc
    BY <1>9 DEF Continue, IInv, Safe
  <2>2. QED
    BY <1>1, <1>9, <2>1 DEF Continue
<1>10. QED
  BY <1>2, <1>3, <1>4, <1>5, <1>6, <1>7, <1>8, <1>9

(* Each way a step can go keeps the record.                                *)
LEMMA RecordIsKept ==
    ASSUME Typed, Typed', HInv, frames # <<>>, frames' # <<>>,
           Nothing \/ Gives \/ Fallen \/ Settled \/ Handled
    PROVE  TellsWhatHappened' /\ happened' \in Seq(Errors)
<1>1. /\ answers \in Seq(Errors) /\ exc \in Errors /\ happened \in Seq(Errors)
      /\ answers' \in Seq(Errors) /\ exc' \in Errors
      /\ happened = IF exc = NoExc THEN answers ELSE Append(answers, exc)
  BY DEF Typed, HInv, TellsWhatHappened
<1>2. happened' = IF exc' = NoExc THEN answers' ELSE Append(answers', exc')
  <2>1. CASE Nothing
    BY <1>1, <2>1 DEF Nothing
  <2>2. CASE Gives
    BY <1>1, <2>2 DEF Gives
  <2>3. CASE Fallen
    BY <1>1, <2>3 DEF Fallen, Happens
  <2>4. CASE Settled
    BY <1>1, <2>4 DEF Settled
  <2>5. CASE Handled
    <3>1. SubSeq(Append(answers, exc), 1, Len(Append(answers, exc)) - 1) = answers
      BY <1>1
    <3>2. QED
      BY <1>1, <2>5, <3>1 DEF Handled
  <2>6. QED
    BY <2>1, <2>2, <2>3, <2>4, <2>5
<1>3. happened' \in Seq(Errors)
  BY <1>1, <1>2
<1>4. QED
  BY <1>2, <1>3 DEF TellsWhatHappened

(* The outermost construct stays the outermost.                            *)
LEMMA OutermostStays ==
    ASSUME IInv, frames # <<>>, frames' # <<>>, RunStatement \/ Close \/ Unwind
    PROVE  frames'[1].catching = frames[1].catching
<1>1. /\ Typed /\ frames \in Seq(Frames) /\ Around = Front(frames)
      /\ Top = frames[Len(frames)] /\ Around \in Seq(Frames)
  BY TopIs DEF IInv, Typed
<1>2. Around # <<>> => Around[1] = frames[1]
  <2>1. /\ Len(Around) = Len(frames) - 1 /\ Len(frames) \in Nat
        /\ \A i \in 1..(Len(frames) - 1) : Around[i] = frames[i]
    BY <1>1, FrontIs
  <2>2. Around # <<>> => Len(Around) # 0
    BY <1>1
  <2>3. Around # <<>> => 1 \in 1..(Len(frames) - 1)
    BY <2>1, <2>2
  <2>4. QED
    BY <2>1, <2>3
<1>3. CASE RunStatement
  BY <1>1, <1>3, StatementsAre
<1>4. CASE frames' \in {frames, Around}
  BY <1>2, <1>4
<1>5. ASSUME frames' = [frames EXCEPT ![Len(frames)].turns = @ + 1]
      PROVE  frames'[1].catching = frames[1].catching
  <2>1. frames[1] \in Frames
    BY <1>1
  <2>2. CASE Len(frames) = 1
    BY <1>1, <1>5, <2>1, <2>2 DEF Frames
  <2>3. CASE Len(frames) # 1
    BY <1>1, <1>5, <2>3
  <2>4. QED
    BY <2>2, <2>3
<1>6. AskAgain => \/ frames' = Around
                  \/ frames' = [frames EXCEPT ![Len(frames)].turns = @ + 1]
  BY DEF AskAgain, RaiseIn
<1>7. CASE EnterCatch
  <2>1. Top.kind # "batch"
    BY <1>7 DEF EnterCatch, Raised
  <2>2. Around # <<>>
    BY <2>1, OutermostIs
  <2>3. frames' = Append(Around, Frame("catch", Under(Around).catching))
    BY <1>7 DEF EnterCatch
  <2>4. QED
    BY <1>1, <1>2, <2>2, <2>3
<1>8. CASE Close \/ (Unwind /\ ~EnterCatch)
  <2>1. \/ frames' \in {frames, Around}
        \/ frames' = [frames EXCEPT ![Len(frames)].turns = @ + 1]
    BY <1>6, <1>8
       DEF Close, CloseBlock, CloseCatch, EndTurn, CloseText, CloseBatch, Answer, Finish,
           RaiseIn, Unwind, Take, LeaveBlock, LeaveCatch, LeaveText, LeaveBatch, LeaveTurn,
           Break, Continue
  <2>2. QED
    BY <1>4, <1>5, <2>1
<1>9. QED
  BY <1>3, <1>7, <1>8

(* A batch that ended is answered what happened, or the error it ended at. *)
LEMMA EndingTells ==
    ASSUME IInv, HInv, CloseBatch \/ LeaveBatch
    PROVE  HInv'
<1>1. /\ frames # <<>> /\ Typed /\ happened \in Seq(Errors) /\ answers \in Seq(Errors)
      /\ exc \in Errors
      /\ happened = IF exc = NoExc THEN answers ELSE Append(answers, exc)
      /\ Top.kind = "batch" /\ frames' = <<>> /\ exc' = NoExc /\ happened' = happened
  BY DEF IInv, Typed, HInv, TellsWhatHappened, CloseBatch, LeaveBatch, Ends, Idle, Raised, Answer
<1>2. CASE CloseBatch
  <2>1. reply' = happened
    BY <1>1, <1>2 DEF CloseBatch, Ends, Idle, Answer
  <2>2. QED
    BY <1>1, <2>1 DEF HInv, TellsWhatHappened
<1>3. CASE LeaveBatch
  <2>1. /\ happened = Append(answers, exc) /\ ~Takes
        /\ reply' = IF answers = <<>> \/ ~KeepsWhatAnswered(exc) THEN <<exc>>
                    ELSE Append(answers, exc)
    BY <1>1, <1>3 DEF LeaveBatch, Raised, Answer
  <2>2. CASE answers # <<>> /\ KeepsWhatAnswered(exc)
    BY <1>1, <2>1, <2>2 DEF HInv, TellsWhatHappened
  <2>3. CASE answers = <<>>
    <3>1. Append(<<>>, exc) = <<exc>>
      OBVIOUS
    <3>2. reply' = happened
      BY <2>1, <2>3, <3>1
    <3>3. QED
      BY <1>1, <3>2 DEF HInv, TellsWhatHappened
  <2>4. CASE ~KeepsWhatAnswered(exc)
    <3>1. ~TheBatchGoesOn(exc, xactAbort)
      <4>1. Len(frames) = 1 /\ Top = frames[Len(frames)]
        BY <1>1, OutermostIs, TopIs
      <4>2. Top.catching = TRUE
        BY <1>1, <4>1 DEF HInv
      <4>3. QED
        BY <1>1, <2>1, <4>2 DEF Takes, RunsAll
    <3>2. InNeitherList(exc)
      BY <2>4, <3>1 DEF KeepsWhatAnswered, TheBatchGoesOn, InNeitherList
    <3>3. happened # <<>> /\ happened[Len(happened)] = exc /\ reply' = <<exc>>
      BY <1>1, <2>1, <2>4
    <3>4. TellsWhatHappened'
      BY <1>1, <3>2, <3>3 DEF TellsWhatHappened, InNeitherList
    <3>5. QED
      BY <1>1, <3>4 DEF HInv
  <2>5. QED
    BY <2>2, <2>3, <2>4
<1>4. QED
  BY <1>2, <1>3

LEMMA HInitHolds == Init => HInv
<1>1. <<>> \in Seq(Errors)
  OBVIOUS
<1>2. QED
  BY <1>1 DEF Init, HInv, TellsWhatHappened

LEMMA HNextKeeps == IInv /\ HInv /\ [Next]_vars => HInv'
<1> SUFFICES ASSUME IInv, HInv, [Next]_vars PROVE HInv'
  OBVIOUS
<1>1. Typed /\ Typed'
  BY NextKeeps DEF IInv
<1>2. CASE UNCHANGED vars
  BY <1>2 DEF HInv, TellsWhatHappened, InNeitherList, vars, running
<1>3. ASSUME NEW number \in {SyntaxError, AlreadyAnObject} \cup Fails \cup {NoError},
             Refuse(number) \/ LoneRead(number)
      PROVE  HInv'
  <2>1. /\ frames = <<>> /\ frames' = frames /\ exc' = exc
        /\ reply' = <<Unmarked(number)>> /\ happened' = reply'
    BY <1>3 DEF Refuse, LoneRead, NextBatch, running
  <2>2. Unmarked(number) \in Errors
    BY UnmarkedIs, NumbersAre
  <2>3. <<Unmarked(number)>> \in Seq(Errors)
    BY <2>2
  <2>4. QED
    BY <2>1, <2>3 DEF HInv, TellsWhatHappened
<1>4. CASE StartBatch
  <2> DEFINE frame == Frame("batch", TRUE)
  <2>1. frame.catching = TRUE
    BY DEF Frame
  <2>2. /\ frames = <<>> /\ frames' = <<frame>> /\ answers' = <<>> /\ happened' = <<>>
        /\ exc' = exc
    BY <1>4 DEF StartBatch, NextBatch
  <2> HIDE DEF frame
  <2>3. exc' = NoExc
    BY <2>2 DEF HInv
  <2>4. frames' # <<>> /\ frames'[1].catching = TRUE /\ <<>> \in Seq(Errors)
    BY <2>1, <2>2
  <2>5. QED
    BY <2>2, <2>3, <2>4 DEF HInv, TellsWhatHappened
<1>5. CASE CloseBatch \/ LeaveBatch
  BY <1>5, EndingTells
<1>6. CASE (RunStatement \/ Close \/ Unwind) /\ ~(CloseBatch \/ LeaveBatch)
  <2>1. frames # <<>> /\ frames' # <<>>
    <3>1. CASE RunStatement
      BY <1>1, <3>1, StatementsAre
    <3>2. CASE Close \/ Unwind
      <4>1. frames # <<>>
        BY <3>2 DEF Close, CloseBlock, CloseCatch, EndTurn, CloseText, CloseBatch, Ends,
                    Unwind, Take, LeaveBlock, LeaveCatch, EnterCatch, LeaveText, LeaveBatch,
                    LeaveTurn, Break, Continue, Raised
      <4>2. QED
        BY <1>6, <3>2, <4>1, OnlyABatchEnds
    <3>3. QED
      BY <1>6, <3>1, <3>2
  <2>2. Nothing \/ Gives \/ Fallen \/ Settled \/ Handled
    BY <1>6, StatementsTell, ClosingTells DEF Close, Unwind
  <2>3. TellsWhatHappened' /\ happened' \in Seq(Errors)
    BY <1>1, <2>1, <2>2, RecordIsKept
  <2>4. frames'[1].catching = TRUE
    BY <1>6, <2>1, OutermostStays DEF HInv
  <2>5. QED
    BY <2>1, <2>3, <2>4 DEF HInv
<1>7. QED
  BY <1>2, <1>3, <1>4, <1>5, <1>6 DEF Next

LEMMA HInvariance == Spec => [](IInv /\ HInv)
<1>1. Init => IInv /\ HInv
  BY InitHolds, HInitHolds
<1>2. (IInv /\ HInv) /\ [Next]_vars => (IInv /\ HInv)'
  BY NextKeeps, HNextKeeps
<1>3. QED
  BY <1>1, <1>2, PTL DEF Spec

(* Whatever a batch does, its stack, the session it changes, what happened *)
(* in it and what it answers are well formed.                              *)
THEOREM TypeCorrect == Spec => []TypeOK
<1>1. IInv /\ HInv => TypeOK
  BY DEF IInv, HInv, TypeOK
<1>2. QED
  BY <1>1, HInvariance, PTL

(* The rows and the errors no CATCH took reach the client, each once and   *)
(* in their order, through constructs of any depth; all but the last are   *)
(* dropped exactly where a batch ends at an error of neither list          *)
(* (_run_all, _tried, _ran_written_out, _batch).                           *)
THEOREM BatchTells == Spec => []TellsWhatHappened
<1>1. IInv /\ HInv => TellsWhatHappened
  BY DEF HInv
<1>2. QED
  BY <1>1, HInvariance, PTL
===============================================================================
