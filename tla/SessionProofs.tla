---------------------------- MODULE SessionProofs -----------------------------
(***************************************************************************)
(* What holds of Session for every set of names and temp tables, however   *)
(* names fold and whichever the grammar reads, and for every number of     *)
(* messages.                                                               *)
(***************************************************************************)
EXTENDS Session, WellFoundedInduction, NaturalsInduction, SequenceTheorems,
        TLAPS

-------------------------------------------------------------------------------
(* The statements of Transactions.                                         *)

LEMMA Largest ==
    ASSUME NEW n \in Nat, NEW S, S \subseteq 1..n, S # {}
    PROVE  \E i \in S : \A j \in S : j <= i
<1> DEFINE Down == {n - i : i \in S}
<1>1. Down \subseteq Nat /\ Down # {}
  <2>1. \A i \in S : n - i \in Nat
    OBVIOUS
  <2>2. QED
    BY <2>1
<1>2. PICK x \in Down : \A y \in Down : ~ (<<y, x>> \in OpToRel(<, Nat))
  BY <1>1, WFMin, NatLessThanWellFounded
<1>3. \A y \in Down : ~ (y < x)
  BY <1>1, <1>2 DEF OpToRel
<1>4. PICK i \in S : x = n - i
  OBVIOUS
<1>5. ASSUME NEW j \in S
      PROVE  j <= i
  <2>1. n - j \in Down
    OBVIOUS
  <2>2. ~ (n - j < n - i)
    BY <1>3, <1>4, <2>1
  <2>3. i \in Int /\ j \in Int
    OBVIOUS
  <2> HIDE DEF Down
  <2>4. QED
    BY <2>2, <2>3
<1>6. QED
  BY <1>5

(* The mark a rollback goes back to is one of the savepoints.              *)
LEMMA NewestIsAMark ==
    ASSUME NEW t \in Transaction, NEW name, Marks(t, name) # {}
    PROVE  Newest(t, name) \in 1..Len(t.savepoints)
<1>1. t.savepoints \in Seq(Names)
  BY DEF Transaction
<1>2. Marks(t, name) \subseteq 1..Len(t.savepoints) /\ Len(t.savepoints) \in Nat
  BY <1>1 DEF Marks
<1>3. \E i \in Marks(t, name) : \A j \in Marks(t, name) : j <= i
  BY <1>2, Largest
<1>4. Newest(t, name) \in Marks(t, name)
  BY <1>3 DEF Newest
<1>5. QED
  BY <1>2, <1>4

(* A transaction that can be there: typed, and nothing left when closed.   *)
Sound(t) == t \in Transaction /\ NothingHeldWhenClosed(t)

LEMMA ClosedIsSound == Sound(Closed)
<1>1. <<>> \in Seq(Names)
  OBVIOUS
<1>2. QED
  BY <1>1 DEF Sound, Closed, Transaction, NamesOrNone, NothingHeldWhenClosed

LEMMA BeginIsSound ==
    ASSUME NEW t, Sound(t), NEW name \in NamesOrNone
    PROVE  /\ Sound(Begin(t, name).tran) /\ Begin(t, name).error = NoError
           /\ t.count = 0 => Begin(t, name).tran.count = 1
  BY DEF Sound, Begin, Did, Transaction, NothingHeldWhenClosed, Closed

LEMMA CommitIsSound ==
    ASSUME NEW t, Sound(t)
    PROVE  /\ Sound(Commit(t).tran) /\ Commit(t).error \in Nat
           /\ t.count = 1 => Commit(t).tran.count = 0
           /\ Commit(t).error = NoError => t.count > 0
           /\ Commit(t).error # NoError => Commit(t).tran = t
<1>1. CASE t.count = 0
  BY <1>1 DEF Commit, Refused, CommitWithoutBegin, NoError
<1>2. CASE t.count = 1
  BY <1>2, ClosedIsSound DEF Commit, Did, Closed, NoError
<1>3. CASE t.count \notin {0, 1}
  <2>1. t.count \in Nat /\ t.count > 1 /\ t \in Transaction
    BY <1>3 DEF Sound, Transaction
  <2>2. Commit(t) = Did([t EXCEPT !.count = @ - 1])
    BY <1>3 DEF Commit
  <2>3. Sound([t EXCEPT !.count = @ - 1])
    BY <2>1 DEF Sound, Transaction, NothingHeldWhenClosed
  <2>4. QED
    BY <1>3, <2>1, <2>2, <2>3 DEF Did, NoError
<1>4. QED
  BY <1>1, <1>2, <1>3

LEMMA RollbackIsSound ==
    ASSUME NEW t, Sound(t), NEW name \in NamesOrNone
    PROVE  /\ Sound(Rollback(t, name).tran) /\ Rollback(t, name).error \in Nat
           /\ (name = NoName /\ Rollback(t, name).error = NoError)
                 => Rollback(t, name).tran.count = 0
           /\ Rollback(t, name).error = NoError => t.count > 0
           /\ Rollback(t, name).error # NoError => Rollback(t, name).tran = t
<1>0. t.count \in Nat /\ t \in Transaction
  BY DEF Sound, Transaction
<1>1. CASE t.count = 0
  BY <1>1 DEF Rollback, Refused, RollbackWithoutBegin, NoError
<1>2. CASE t.count # 0 /\ Marks(t, name) # {}
  <2> DEFINE newest == Newest(t, name)
             left   == SubSeq(t.savepoints, 1, newest - 1)
  <2>1. newest \in 1..Len(t.savepoints)
    BY <1>0, <1>2, NewestIsAMark
  <2>2. t.savepoints \in Seq(Names) /\ name # NoName
    BY <1>0, <1>2 DEF Transaction, Marks
  <2>3. left \in Seq(Names)
    <3>1. newest - 1 \in Int /\ \A i \in 1..(newest - 1) : t.savepoints[i] \in Names
      BY <2>1, <2>2
    <3>2. QED
      BY <3>1, SubSeqProperties
  <2>4. Rollback(t, name) = Did([t EXCEPT !.savepoints = left])
    BY <1>2 DEF Rollback
  <2> HIDE DEF left
  <2>5. Sound([t EXCEPT !.savepoints = left])
    BY <1>0, <1>2, <2>3 DEF Sound, Transaction, NothingHeldWhenClosed
  <2>6. QED
    BY <1>0, <1>2, <2>2, <2>4, <2>5 DEF Did, NoError
<1>3. CASE t.count # 0 /\ Marks(t, name) = {} /\ name \in {NoName, t.name}
  BY <1>0, <1>3, ClosedIsSound DEF Rollback, Did, NoError, Closed
<1>4. CASE t.count # 0 /\ Marks(t, name) = {} /\ name \notin {NoName, t.name}
  BY <1>0, <1>4 DEF Rollback, Refused, NoSuchSavepoint, NoError
<1>5. QED
  BY <1>1, <1>2, <1>3, <1>4

LEMMA SaveIsSound ==
    ASSUME NEW t, Sound(t), NEW name \in Names
    PROVE  /\ Sound(Save(t, name).tran) /\ Save(t, name).error \in Nat
           /\ Save(t, name).tran.count = t.count
           /\ Save(t, name).error # NoError => Save(t, name).tran = t
<1>1. CASE t.count = 0
  BY <1>1 DEF Save, Refused, SaveWithoutBegin, NoError
<1>2. CASE t.count # 0
  <2> DEFINE marked == Append(t.savepoints, name)
  <2>1. marked \in Seq(Names) /\ t \in Transaction
    BY DEF Sound, Transaction
  <2>2. Save(t, name) = Did([t EXCEPT !.savepoints = marked])
    BY <1>2 DEF Save
  <2> HIDE DEF marked
  <2>3. Sound([t EXCEPT !.savepoints = marked])
    BY <1>2, <2>1 DEF Sound, Transaction, NothingHeldWhenClosed
  <2>4. QED
    BY <2>1, <2>2, <2>3 DEF Did, NoError, Transaction
<1>3. QED
  BY <1>1, <1>2

(* No statement leaves anything of a transaction it ended.                 *)
LEMMA StatementIsSound ==
    ASSUME NEW t, Sound(t), NEW kind \in Kinds, NEW name \in NamesOrNone,
           kind = "save" => name # NoName
    PROVE  LET did == TransactionStatement(t, kind, name)
           IN  /\ Sound(did.tran) /\ did.error \in Nat
               /\ did.error # NoError => did.tran = t
<1>1. CASE name \notin Readable \cup {NoName}
  BY <1>1 DEF TransactionStatement, Did, NoError
<1>2. CASE name \in Readable \cup {NoName}
  <2>1. CASE kind = "begin"
    BY <1>2, <2>1, BeginIsSound DEF TransactionStatement, NoError
  <2>2. CASE kind = "commit"
    BY <1>2, <2>2, CommitIsSound DEF TransactionStatement
  <2>3. CASE kind = "rollback"
    BY <1>2, <2>3, RollbackIsSound DEF TransactionStatement
  <2>4. CASE kind = "save"
    <3>1. name \in Names
      BY <2>4 DEF NamesOrNone
    <3>2. QED
      BY <1>2, <2>4, <3>1, SaveIsSound DEF TransactionStatement
  <2>5. QED
    BY <2>1, <2>2, <2>3, <2>4 DEF Kinds
<1>3. QED
  BY <1>1, <1>2

-------------------------------------------------------------------------------
(* What a message's reset leaves.                                          *)

Records ==
    [tran : Transaction, made : BOOLEAN, tables : [TempTables -> Nat],
     xactAbort : Nat, descriptor : Nat, user : Nat \ {0}, owner : Nat,
     strayed : BOOLEAN]

(* What is in the session is its user's own.                               *)
Owned(tabs, abort, by) ==
    /\ tabs \in [TempTables -> Nat]
    /\ \A x \in TempTables : tabs[x] \in {Nobody, by}
    /\ abort \in {Nobody, by}

Live(d) == d # NoDescriptor => d \in announced.begun \ announced.ended

Sober(s) == ~s.strayed =>
               /\ s.descriptor # NoDescriptor <=> s.tran.count > 0
               /\ s.tran.count <= 1

Left(s) ==
    /\ s \in Records
    /\ Sound(s.tran)
    /\ Owned(s.tables, s.xactAbort, s.user)
    /\ s.owner \in {Nobody, s.user}
    /\ s.owner = Nobody <=> s.tran.count = 0
    /\ Live(s.descriptor)
    /\ Sober(s)

(* The inductive invariant: the checked ones, with every descriptor handed *)
(* out at most the counter and a client that never strayed at most one     *)
(* transaction deep.                                                       *)
Counted == announced.begun \subseteq 1..counter

IInv ==
    /\ TypeOK
    /\ NothingOutlivesItsTransaction
    /\ NothingOutlivesItsUser
    /\ DescriptorsArePaired
    /\ Counted
    /\ ToldWhatIsHeld
    /\ ~strayed => tran.count <= 1

LEMMA KeptIsLeft ==
    ASSUME IInv
    PROVE  Left(Kept)
  BY DEF IInv, TypeOK, NothingOutlivesItsTransaction, NothingOutlivesItsUser,
         DescriptorsArePaired, ToldWhatIsHeld, Left, Kept, Records, Sound,
         Owned, Live, Sober

LEMMA ResetIsLeft ==
    ASSUME IInv, NEW reset \in Resets
    PROVE  Left(Reset(reset))
<1>1. CASE reset = "no"
  BY <1>1, KeptIsLeft DEF Reset
<1>2. CASE reset # "no"
  <2> DEFINE keeps == reset = "keep" /\ made
             none  == [x \in TempTables |-> Nobody]
  <2>1. user \in Nat \ {0} /\ user + 1 \in Nat \ {0} /\ user + 1 # Nobody
    BY DEF IInv, TypeOK, Nobody
  <2>2. Owned(none, Nobody, user + 1)
    BY DEF Owned, Nobody
  <2>3. CASE keeps
    <3> DEFINE s == [tran |-> tran, made |-> TRUE, tables |-> none,
                     xactAbort |-> Nobody, descriptor |-> descriptor,
                     user |-> user + 1,
                     owner |-> IF tran.count > 0 THEN user + 1 ELSE Nobody,
                     strayed |-> strayed]
    <3>1. Reset(reset) = s
      BY <1>2, <2>3 DEF Reset, Kept, IInv, TypeOK
    <3>2. tran \in Transaction /\ tran.count \in Nat
      BY DEF IInv, TypeOK, Transaction
    <3> HIDE DEF none
    <3>3. s \in Records
      BY <2>1, <2>2 DEF IInv, TypeOK, Records, Owned, Nobody
    <3>4. Sound(s.tran) /\ Live(s.descriptor) /\ Sober(s)
      BY DEF IInv, TypeOK, NothingOutlivesItsTransaction, DescriptorsArePaired,
             ToldWhatIsHeld, Sound, Live, Sober
    <3>5. s.owner \in {Nobody, s.user} /\ (s.owner = Nobody <=> s.tran.count = 0)
      BY <2>1, <3>2
    <3>6. QED
      BY <2>2, <3>1, <3>3, <3>4, <3>5 DEF Left
  <2>4. CASE ~keeps
    <3> DEFINE s == [tran |-> Closed, made |-> FALSE, tables |-> none,
                     xactAbort |-> Nobody, descriptor |-> NoDescriptor,
                     user |-> user + 1, owner |-> Nobody, strayed |-> FALSE]
    <3>1. Reset(reset) = s
      BY <1>2, <2>4 DEF Reset, Kept
    <3> HIDE DEF none
    <3>2. Closed \in Transaction /\ Closed.count = 0
      BY ClosedIsSound DEF Sound, Closed
    <3>3. s \in Records
      BY <2>1, <2>2, <3>2 DEF Records, Owned, Nobody, NoDescriptor
    <3>4. Live(s.descriptor) /\ Sober(s)
      BY <3>2 DEF Live, Sober, NoDescriptor
    <3>5. QED
      BY <2>2, <3>1, <3>2, <3>3, <3>4, ClosedIsSound DEF Left
  <2>5. QED
    BY <2>3, <2>4
<1>3. QED
  BY <1>1, <1>2

-------------------------------------------------------------------------------
(* What a message leaves.                                                  *)

(* The part of the invariant that Leave settles.                           *)
Settled ==
    /\ tran \in Transaction /\ made \in BOOLEAN
    /\ xactAbort \in Nat /\ descriptor \in Nat
    /\ tables \in [TempTables -> Nat]
    /\ user \in Nat \ {0} /\ owner \in Nat /\ messages \in Nat
    /\ NothingOutlivesItsTransaction
    /\ NothingOutlivesItsUser

LEMMA LeaveSettles ==
    ASSUME messages \in Nat, NEW s, Left(s), NEW t, Sound(t),
           NEW m \in BOOLEAN, NEW tabs, NEW abort, Owned(tabs, abort, s.user),
           NEW d \in Nat, Leave(s, t, m, tabs, abort, d)
    PROVE  Settled'
<1>1. s.user \in Nat \ {0} /\ s.owner \in {Nobody, s.user}
  BY DEF Left, Records
<1>0. t.count \in Nat /\ s.tran.count \in Nat
  BY DEF Sound, Left, Transaction
<1>2. owner' \in {Nobody, s.user} /\ (owner' = Nobody <=> t.count = 0)
  <2>1. CASE t.count = 0
    BY <2>1 DEF Leave
  <2>2. CASE t.count # 0 /\ s.tran.count = 0
    BY <1>0, <1>1, <2>2 DEF Leave, Nobody
  <2>3. CASE t.count # 0 /\ s.tran.count # 0
    BY <1>1, <2>3 DEF Leave, Left
  <2>4. QED
    BY <2>1, <2>2, <2>3
<1>3. QED
  BY <1>1, <1>2
     DEF Settled, Leave, Sound, Owned, NothingOutlivesItsTransaction,
         NothingOutlivesItsUser, Nobody

LEMMA FailedIsSound ==
    ASSUME NEW s, NEW t, Sound(t), NEW error
    PROVE  /\ Sound(Failed(s, t, error))
           /\ (~Ends(s, error) /\ error # NoError) => Failed(s, t, error) = t
           /\ (Ends(s, error) /\ error # NoError)
                 => Failed(s, t, error) = Closed
  BY ClosedIsSound DEF Failed, EndedTheBatch, Ends

LEMMA EndsIsBoolean ==
    ASSUME NEW s, NEW error
    PROVE  Ends(s, error) \in BOOLEAN
  BY DEF Ends

(* A message that announces nothing.                                       *)
LEMMA UntoldKeeps ==
    ASSUME IInv, Settled', Untold, NEW s, Left(s), descriptor' = s.descriptor,
           strayed' \in BOOLEAN,
           ~strayed' => ~s.strayed /\ tran'.count = s.tran.count
    PROVE  IInv'
<1>1. TypeOK'
  BY DEF IInv, TypeOK, Settled, Untold
<1>2. DescriptorsArePaired' /\ Counted'
  BY DEF IInv, DescriptorsArePaired, Counted, Untold, Left, Live
<1>3. ToldWhatIsHeld' /\ (~strayed => tran.count <= 1)'
  BY DEF ToldWhatIsHeld, Left, Sober
<1>4. QED
  BY <1>1, <1>2, <1>3 DEF IInv, Settled

-------------------------------------------------------------------------------
(* The steps.                                                              *)

LEMMA InitHolds == Init => IInv
<1>1. Sound(Closed) /\ Closed.count = 0
  BY ClosedIsSound DEF Closed
<1> SUFFICES ASSUME Init PROVE IInv
  OBVIOUS
<1> USE DEF Init, Nobody, NoDescriptor
<1>2. TypeOK
  <2>1. announced \in [begun : SUBSET Nat, ended : SUBSET Nat]
    OBVIOUS
  <2>2. tables \in [TempTables -> Nat]
    OBVIOUS
  <2>3. tran \in Transaction
    BY <1>1 DEF Sound
  <2>4. /\ xactAbort \in Nat /\ descriptor \in Nat /\ counter \in Nat
        /\ owner \in Nat /\ messages \in Nat /\ user \in Nat \ {0}
    OBVIOUS
  <2>5. made \in BOOLEAN /\ strayed \in BOOLEAN
    OBVIOUS
  <2> HIDE DEF Init
  <2>6. QED
    BY <2>1, <2>2, <2>3, <2>4, <2>5 DEF TypeOK
<1>3. NothingOutlivesItsTransaction /\ NothingOutlivesItsUser
  BY <1>1 DEF NothingOutlivesItsTransaction, NothingOutlivesItsUser, Sound
<1>4. DescriptorsArePaired /\ Counted /\ ToldWhatIsHeld
  BY <1>1 DEF DescriptorsArePaired, Counted, ToldWhatIsHeld
<1>5. QED
  BY <1>1, <1>2, <1>3, <1>4 DEF IInv

(* A request that began a transaction, ended one, or did neither.          *)
LEMMA RequestKeeps ==
    ASSUME IInv, NEW reset \in Resets, NEW kind \in Kinds,
           NEW name \in NamesOrNone, Request(reset, kind, name)
    PROVE  IInv'
<1> DEFINE s    == Reset(reset)
           used == IF kind = "commit" THEN NoName ELSE name
           did  == TransactionStatement(s.tran, kind, used)
           env  == EnvChange(s, kind, name)
           m    == s.made \/ Reads(used) \/ Ends(s, did.error)
<1>1. Left(s)
  BY ResetIsLeft
<1>2. used \in NamesOrNone /\ (kind = "save" => used # NoName)
  BY DEF Request, NamesOrNone
<1>3. Sound(did.tran) /\ did.error \in Nat
      /\ (did.error # NoError => did.tran = s.tran)
  BY <1>1, <1>2, StatementIsSound DEF Left
<1>4. m \in BOOLEAN
  BY <1>1, EndsIsBoolean DEF Left, Records, Reads
<1>5. messages \in Nat /\ counter \in Nat
  BY DEF IInv, TypeOK
<1>6. s.descriptor \in Nat /\ s.strayed \in BOOLEAN
      /\ Owned(s.tables, s.xactAbort, s.user)
  BY <1>1 DEF Left, Records
<1>7. strayed' = (s.strayed \/ ~KeepsToOne(s, kind, used, did))
  BY DEF Request
<1>8. CASE did.error # NoError
  <2> DEFINE t == Failed(s, did.tran, did.error)
  <2>1. Leave(s, t, m, s.tables, s.xactAbort, s.descriptor) /\ Untold
    BY <1>8 DEF Request
  <2>2. Sound(t)
    BY <1>3, FailedIsSound
  <2>3. Settled'
    BY <1>1, <1>4, <1>5, <1>6, <2>1, <2>2, LeaveSettles
  <2>4. ~strayed' => ~s.strayed /\ t.count = s.tran.count
    <3>1. CASE Ends(s, did.error)
      <4>1. t = Closed
        BY <1>3, <1>8, <3>1, FailedIsSound
      <4>2. ~strayed' => s.tran.count = 0
        BY <1>7, <3>1 DEF KeepsToOne
      <4>3. t.count = 0
        BY <4>1 DEF Closed
      <4>4. strayed' = (s.strayed \/ ~KeepsToOne(s, kind, used, did))
        BY <1>7
      <4> HIDE DEF s, t, did
      <4>5. QED
        BY <4>2, <4>3, <4>4
    <3>2. CASE ~Ends(s, did.error)
      <4>1. t = s.tran
        BY <1>3, <1>8, <3>2, FailedIsSound
      <4>2. QED
        BY <1>7, <4>1
    <3>3. QED
      BY <3>1, <3>2
  <2>5. descriptor' = s.descriptor /\ tran' = t
    BY <2>1 DEF Leave
  <2>6. strayed' \in BOOLEAN
    BY <1>7
  <2> HIDE DEF s, t, did
  <2>7. QED
    BY <1>1, <2>1, <2>3, <2>4, <2>5, <2>6, UntoldKeeps
<1>9. CASE did.error = NoError
  <2>1. /\ Leave(s, did.tran, m, s.tables, s.xactAbort, env.to)
        /\ counter' = IF kind = "begin" THEN counter + 1 ELSE counter
        /\ IF env.told = "nothing" THEN UNCHANGED announced
           ELSE Tell(env.told, env.of)
    BY <1>9 DEF Request
  <2>2. env.to \in Nat
    BY <1>5, <1>6 DEF EnvChange, NoDescriptor
  <2>3. Settled'
    BY <1>1, <1>3, <1>4, <1>5, <1>6, <2>1, <2>2, LeaveSettles
  <2>4. descriptor' = env.to /\ tran' = did.tran
    BY <2>1 DEF Leave
  <2>5. did.tran.count \in Nat /\ s.tran.count \in Nat
    BY <1>1, <1>3 DEF Sound, Left, Transaction
  <2>6. CASE kind = "begin"
    <3>1. /\ descriptor' = counter + 1 /\ counter' = counter + 1
          /\ announced' = [announced EXCEPT !.begun = @ \cup {counter + 1}]
      BY <2>1, <2>4, <2>6 DEF EnvChange, Tell
    <3>2. TypeOK'
      BY <1>5, <1>7, <2>3, <3>1 DEF IInv, TypeOK, Settled
    <3>3. DescriptorsArePaired' /\ Counted'
      BY <1>5, <3>1 DEF IInv, TypeOK, DescriptorsArePaired, Counted
    <3>4. ~strayed' => tran'.count = 1
      <4>1. ~strayed' => s.tran.count = 0 /\ Reads(name)
        BY <1>7, <2>6 DEF KeepsToOne
      <4>2. Reads(name) => did.tran = Begin(s.tran, name).tran
        BY <2>6 DEF Reads, TransactionStatement
      <4>3. s.tran.count = 0 => Begin(s.tran, name).tran.count = 1
        BY <1>1, BeginIsSound DEF Left
      <4>4. QED
        BY <2>4, <4>1, <4>2, <4>3
    <3>5. descriptor' # NoDescriptor
      BY <1>5, <3>1 DEF NoDescriptor
    <3>6. QED
      BY <2>3, <3>2, <3>3, <3>4, <3>5 DEF IInv, Settled, ToldWhatIsHeld
  <2>7. CASE EndsTransaction(kind, name)
    <3>1. kind # "begin" /\ used = NoName
      BY <2>7 DEF EndsTransaction
    <3>2. counter' = counter /\ descriptor' = NoDescriptor
          /\ announced' = IF s.descriptor = NoDescriptor THEN announced
                          ELSE [announced EXCEPT !.ended = @ \cup {s.descriptor}]
      BY <2>1, <2>4, <2>7, <3>1 DEF EnvChange, Tell
    <3>3. TypeOK'
      BY <1>6, <1>7, <2>3, <3>2 DEF IInv, TypeOK, Settled
    <3>4. DescriptorsArePaired' /\ Counted'
      BY <1>1, <3>2 DEF IInv, TypeOK, DescriptorsArePaired, Counted, Left, Live
    <3>5. ~strayed' => tran'.count = 0
      <4>1. ~strayed' => s.tran.count <= 1
        BY <1>1, <1>7 DEF Left, Sober
      <4>2. CASE kind = "commit"
        <5>1. did = Commit(s.tran)
          BY <3>1, <4>2 DEF TransactionStatement
        <5>2. s.tran.count <= 1 => did.tran.count = 0
          BY <1>1, <1>9, <2>5, <5>1, CommitIsSound DEF Left
        <5>3. QED
          BY <2>4, <4>1, <5>2
      <4>3. CASE kind = "rollback"
        <5>1. did = Rollback(s.tran, NoName) /\ NoName \in NamesOrNone
          BY <3>1, <4>3 DEF TransactionStatement, NamesOrNone
        <5>2. did.tran.count = 0
          BY <1>1, <1>9, <5>1, RollbackIsSound DEF Left
        <5>3. QED
          BY <2>4, <5>2
      <4>4. QED
        BY <2>7, <4>2, <4>3 DEF EndsTransaction
    <3>6. QED
      BY <2>3, <2>4, <2>5, <3>2, <3>3, <3>4, <3>5
         DEF IInv, Settled, ToldWhatIsHeld
  <2>8. CASE kind # "begin" /\ ~EndsTransaction(kind, name)
    <3>1. Untold /\ descriptor' = s.descriptor
      BY <2>1, <2>4, <2>8 DEF EnvChange, Untold
    <3>2. ~strayed' => ~s.strayed /\ tran'.count = s.tran.count
      <4>1. CASE kind = "rollback"
        <5>1. used = name /\ name # NoName
          BY <2>8, <4>1 DEF EndsTransaction
        <5>2. QED
          BY <1>7, <2>4, <4>1, <5>1 DEF KeepsToOne
      <4>2. CASE kind = "save"
        <5>1. name \in Names /\ used = name
          BY <1>2, <4>2 DEF NamesOrNone
        <5>2. did.tran.count = s.tran.count
          BY <1>1, <4>2, <5>1, SaveIsSound DEF TransactionStatement, Left, Did
        <5>3. QED
          BY <1>7, <2>4, <5>2
      <4>3. QED
        BY <2>8, <4>1, <4>2 DEF EndsTransaction, Kinds
    <3>3. strayed' \in BOOLEAN
      BY <1>7
    <3> HIDE DEF s, did
    <3>4. QED
      BY <1>1, <2>3, <3>1, <3>2, <3>3, UntoldKeeps
  <2>9. QED
    BY <2>6, <2>7, <2>8
<1>10. QED
  BY <1>8, <1>9

LEMMA RequestDistributedKeeps ==
    ASSUME IInv, NEW reset \in Resets, RequestDistributed(reset)
    PROVE  IInv'
<1> DEFINE s == Reset(reset)
<1>1. Left(s) /\ messages \in Nat
  BY ResetIsLeft DEF IInv, TypeOK
<1>2. /\ Leave(s, s.tran, s.made, s.tables, s.xactAbort, s.descriptor)
      /\ Untold /\ strayed' = s.strayed
  BY DEF RequestDistributed
<1> HIDE DEF s
<1>3. Settled'
  BY <1>1, <1>2, LeaveSettles DEF Left, Records
<1>4. descriptor' = s.descriptor /\ tran' = s.tran /\ s.strayed \in BOOLEAN
  BY <1>1, <1>2 DEF Leave, Left, Records
<1>5. QED
  BY <1>1, <1>2, <1>3, <1>4, UntoldKeeps

LEMMA BatchKeeps ==
    ASSUME IInv, NEW s, Left(s), NEW t, Sound(t), NEW m \in BOOLEAN,
           NEW error, NEW tabs, NEW abort, Owned(tabs, abort, s.user),
           Batch(s, t, m, error, tabs, abort)
    PROVE  IInv'
<1> DEFINE left == IF error = NoError THEN t ELSE Failed(s, t, error)
           mm   == m \/ Ends(s, error)
<1>1. Sound(left) /\ mm \in BOOLEAN
  BY FailedIsSound, EndsIsBoolean
<1>2. /\ Leave(s, left, mm, tabs, abort, s.descriptor)
      /\ Untold /\ strayed' = (s.strayed \/ tran' # s.tran)
  BY DEF Batch
<1>3. messages \in Nat /\ s.descriptor \in Nat /\ s.strayed \in BOOLEAN
  BY DEF IInv, TypeOK, Left, Records
<1> HIDE DEF left, mm
<1>4. Settled'
  BY <1>1, <1>2, <1>3, LeaveSettles
<1>5. descriptor' = s.descriptor
  BY <1>2 DEF Leave
<1>6. QED
  BY <1>2, <1>3, <1>4, <1>5, UntoldKeeps

LEMMA BatchesKeep ==
    ASSUME IInv, NEW reset \in Resets,
           \/ \E kind \in Kinds, name \in NamesOrNone :
                TransactionBatch(reset, kind, name)
           \/ \E x \in TempTables : CreateTable(reset, x) \/ DropTable(reset, x)
           \/ \E on \in BOOLEAN : SetXactAbort(reset, on)
           \/ \E error \in Failures \cup {NoError} : OtherBatch(reset, error)
    PROVE  IInv'
<1> DEFINE s == Reset(reset)
<1>1. Left(s)
  BY ResetIsLeft
<1>2. /\ Sound(s.tran) /\ s.made \in BOOLEAN
      /\ Owned(s.tables, s.xactAbort, s.user) /\ s.user \in Nat
  BY <1>1 DEF Left, Records
<1>3. ASSUME NEW kind \in Kinds, NEW name \in NamesOrNone,
             TransactionBatch(reset, kind, name)
      PROVE  IInv'
  <2> DEFINE did == TransactionStatement(s.tran, kind, name)
             m   == s.made \/ Reads(name)
  <2>1. (kind = "save" => name # NoName)
        /\ Batch(s, did.tran, m, did.error, s.tables, s.xactAbort)
    BY <1>3 DEF TransactionBatch
  <2>2. Sound(did.tran) /\ m \in BOOLEAN
    BY <1>2, <2>1, StatementIsSound DEF Reads
  <2> HIDE DEF s, did, m
  <2>3. QED
    BY <1>1, <1>2, <2>1, <2>2, BatchKeeps
<1>4. ASSUME NEW x \in TempTables, CreateTable(reset, x)
      PROVE  IInv'
  <2> DEFINE tabs == [s.tables EXCEPT ![x] = s.user]
  <2>1. \/ Batch(s, s.tran, s.made, AlreadyAnObject, s.tables, s.xactAbort)
        \/ Batch(s, s.tran, s.made, NoError, tabs, s.xactAbort)
    BY <1>4 DEF CreateTable
  <2>2. Owned(tabs, s.xactAbort, s.user)
    BY <1>2 DEF Owned
  <2> HIDE DEF s, tabs
  <2>3. QED
    BY <1>1, <1>2, <2>1, <2>2, BatchKeeps
<1>5. ASSUME NEW x \in TempTables, DropTable(reset, x)
      PROVE  IInv'
  <2> DEFINE tabs == [s.tables EXCEPT ![x] = Nobody]
  <2>1. \/ Batch(s, s.tran, s.made, NoSuchTableToDrop, s.tables, s.xactAbort)
        \/ Batch(s, s.tran, s.made, NoError, tabs, s.xactAbort)
    BY <1>5 DEF DropTable
  <2>2. Owned(tabs, s.xactAbort, s.user)
    BY <1>2 DEF Owned, Nobody
  <2> HIDE DEF s, tabs
  <2>3. QED
    BY <1>1, <1>2, <2>1, <2>2, BatchKeeps
<1>6. ASSUME NEW on \in BOOLEAN, SetXactAbort(reset, on)
      PROVE  IInv'
  <2> DEFINE abort == IF on THEN s.user ELSE Nobody
  <2>1. Batch(s, s.tran, s.made, NoError, s.tables, abort)
    BY <1>6 DEF SetXactAbort
  <2>2. Owned(s.tables, abort, s.user)
    BY <1>2 DEF Owned
  <2> HIDE DEF s, abort
  <2>3. QED
    BY <1>1, <1>2, <2>1, <2>2, BatchKeeps
<1>7. ASSUME NEW error, OtherBatch(reset, error)
      PROVE  IInv'
  <2>1. PICK looked \in BOOLEAN :
          Batch(s, s.tran, s.made \/ looked, error, s.tables, s.xactAbort)
    BY <1>7 DEF OtherBatch
  <2>2. (s.made \/ looked) \in BOOLEAN
    OBVIOUS
  <2> HIDE DEF s
  <2>3. QED
    BY <1>1, <1>2, <2>1, <2>2, BatchKeeps
<1>8. QED
  BY <1>3, <1>4, <1>5, <1>6, <1>7

LEMMA StutterKeeps == IInv /\ UNCHANGED vars => IInv'
  BY DEF IInv, TypeOK, NothingOutlivesItsTransaction, NothingOutlivesItsUser,
         DescriptorsArePaired, ToldWhatIsHeld, Counted, vars, session, client

LEMMA NextKeeps == IInv /\ [Next]_vars => IInv'
  BY RequestKeeps, RequestDistributedKeeps, BatchesKeep, StutterKeeps DEF Next

-------------------------------------------------------------------------------
(* The theorems.                                                           *)

LEMMA Invariance == Spec => []IInv
  BY InitHolds, NextKeeps, PTL DEF Spec

(* The session, the descriptor and their history keep their types.         *)
THEOREM TypeCorrect == Spec => []TypeOK
  BY Invariance, PTL DEF IInv

(* However a transaction closes, by a commit, a rollback, an error or a    *)
(* reset (_Transactions.end), it leaves no name and no savepoint.          *)
THEOREM NothingLeft == Spec => []NothingOutlivesItsTransaction
  BY Invariance, PTL DEF IInv

(* What a pooled connection holds is always its present user's             *)
(* (_reset_the_session).                                                   *)
THEOREM NoLeftovers == Spec => []NothingOutlivesItsUser
  BY Invariance, PTL DEF IInv

(* Every descriptor told ended was told begun, and the one held has not    *)
(* been told ended (_transaction_envchange).                               *)
THEOREM Paired == Spec => []DescriptorsArePaired
  BY Invariance, PTL DEF IInv

(* A client with one transaction at a time, begun and ended through its    *)
(* API, is told of it exactly while it is open.                            *)
THEOREM Told == Spec => []ToldWhatIsHeld
  BY Invariance, PTL DEF IInv

(* Only a request to begin one hands a descriptor out.                     *)
LEMMA ResetHandsOutNone ==
    ASSUME NEW reset
    PROVE  Reset(reset).descriptor \in {NoDescriptor, descriptor}
<1>1. CASE reset = "no"
  BY <1>1 DEF Reset, Kept
<1>2. CASE reset # "no"
  BY <1>2 DEF Reset, Kept
<1>3. QED
  BY <1>1, <1>2

LEMMA LeaveHandsOut ==
    ASSUME NEW reset, NEW t, NEW m, NEW tabs, NEW abort,
           Leave(Reset(reset), t, m, tabs, abort, Reset(reset).descriptor)
    PROVE  descriptor' \in {NoDescriptor, descriptor}
<1>1. descriptor' = Reset(reset).descriptor
  BY DEF Leave
<1>2. QED
  BY <1>1, ResetHandsOutNone

LEMMA RequestHandsOut ==
    ASSUME IInv, NEW reset \in Resets, NEW kind \in Kinds,
           NEW name \in NamesOrNone, Request(reset, kind, name)
    PROVE  \/ descriptor' \in {NoDescriptor, descriptor}
           \/ descriptor' = counter + 1
<1> DEFINE s   == Reset(reset)
           env == EnvChange(s, kind, name)
<1>1. \/ descriptor' = s.descriptor
      \/ descriptor' = env.to
  BY DEF Request, Leave
<1>2. env.to \in {NoDescriptor, s.descriptor, counter + 1}
  BY DEF EnvChange
<1>3. QED
  BY <1>1, <1>2, ResetHandsOutNone

LEMMA BatchHandsOut ==
    ASSUME NEW reset, NEW t, NEW m, NEW error, NEW tabs, NEW abort,
           Batch(Reset(reset), t, m, error, tabs, abort)
    PROVE  descriptor' \in {NoDescriptor, descriptor}
<1>1. PICK left, mm :
        Leave(Reset(reset), left, mm, tabs, abort, Reset(reset).descriptor)
  BY DEF Batch
<1>2. QED
  BY <1>1, LeaveHandsOut

LEMMA NextHandsOut ==
    ASSUME IInv, Next
    PROVE  \/ descriptor' \in {NoDescriptor, descriptor}
           \/ descriptor' = counter + 1
<1>1. PICK reset \in Resets :
        \/ \E kind \in Kinds, name \in NamesOrNone : Request(reset, kind, name)
        \/ RequestDistributed(reset)
        \/ \E kind \in Kinds, name \in NamesOrNone :
             TransactionBatch(reset, kind, name)
        \/ \E x \in TempTables : CreateTable(reset, x) \/ DropTable(reset, x)
        \/ \E on \in BOOLEAN : SetXactAbort(reset, on)
        \/ \E error \in Failures \cup {NoError} : OtherBatch(reset, error)
  BY DEF Next
<1>2. RequestDistributed(reset) => descriptor' \in {NoDescriptor, descriptor}
  BY LeaveHandsOut DEF RequestDistributed
<1>3. ASSUME NEW kind, NEW name, TransactionBatch(reset, kind, name)
      PROVE  descriptor' \in {NoDescriptor, descriptor}
  BY <1>3, BatchHandsOut DEF TransactionBatch
<1>4. ASSUME NEW x, CreateTable(reset, x) \/ DropTable(reset, x)
      PROVE  descriptor' \in {NoDescriptor, descriptor}
  BY <1>4, BatchHandsOut DEF CreateTable, DropTable
<1>5. ASSUME NEW on, SetXactAbort(reset, on)
      PROVE  descriptor' \in {NoDescriptor, descriptor}
  BY <1>5, BatchHandsOut DEF SetXactAbort
<1>6. ASSUME NEW error, OtherBatch(reset, error)
      PROVE  descriptor' \in {NoDescriptor, descriptor}
  BY <1>6, BatchHandsOut DEF OtherBatch
<1>7. QED
  BY <1>1, <1>2, <1>3, <1>4, <1>5, <1>6, RequestHandsOut

(* No transaction is given a descriptor an earlier one had                 *)
(* (_new_descriptor), whatever resets come between.                        *)
THEOREM Fresh == Spec => DescriptorsAreFresh
<1>1. ASSUME IInv, [Next]_vars
      PROVE  [descriptor' \notin {NoDescriptor, descriptor} =>
                 \A d \in announced.begun : descriptor' > d]_vars
  <2>1. CASE Next
    <3>1. \A d \in announced.begun : counter + 1 > d
      BY <1>1 DEF IInv, TypeOK, Counted
    <3>2. QED
      BY <1>1, <2>1, <3>1, NextHandsOut
  <2>2. CASE UNCHANGED vars
    BY <2>2
  <2>3. QED
    BY <1>1, <2>1, <2>2
<1>2. QED
  BY Invariance, <1>1, PTL DEF Spec, DescriptorsAreFresh
===============================================================================
