--------------------------- MODULE HttpSourceProofs ---------------------------
(***************************************************************************)
(* What holds of HttpSource for every number of clients and refreshers,    *)
(* every TTL, every mix of operations and every fault the constants allow. *)
(* The theorems about its refreshes name the faults they do not survive: a *)
(* thread the system refuses leaves the flag up for ever, rows that make   *)
(* no table leave their children behind, and a waiter that outlasts the    *)
(* table it waits for reads it again beside a refresh.                     *)
(***************************************************************************)
EXTENDS HttpSource, TLAPS

(* Where a returning call goes depends on the thread and its operation.    *)
LEMMA AfterReturnPlace ==
    ASSUME NEW t \in Threads
    PROVE  /\ t \in Refreshers => AfterReturn(t) = "idle"
           /\ t \notin Refreshers =>
                 AfterReturn(t) \in {"children.copy", "cs.again", "done"}
  BY DEF AfterReturn

(* The same for the first place of an operation.                           *)
LEMMA FirstPlacePlace ==
    ASSUME NEW o
    PROVE  FirstPlace(o) \in
              {"children.check", "cs.check", "forget", "fresh.read"}
  BY DEF FirstPlace

LEMMA NotFreshPlace ==
    ASSUME NEW t
    PROVE  NotFresh(t) \in {"own.read", "stale.read"}
  BY DEF NotFresh

-------------------------------------------------------------------------------
(* Type correctness: every field of the source keeps its type, and every   *)
(* thread stays among the places its kind of thread can be in.             *)

LEMMA TypeInit == Init => TypeOK
<1> SUFFICES ASSUME Init PROVE TypeOK
  OBVIOUS
<1> USE DEF Init, Nothing, Versions, Tables
<1>1. 1 \in Versions /\ now \in Nat /\ fetchedAt \in Nat
  BY ConstantsAssumption
<1>2. "idle" \in ClientPlaces /\ "idle" \in RefresherPlaces
  BY DEF ClientPlaces, RefresherPlaces, Resting
<1>3. Clients \subseteq Threads /\ Refreshers \subseteq Threads
  BY DEF Threads
<1>4. Placed
  BY <1>2, <1>3 DEF Placed
<1>5. QED
  BY <1>1, <1>4 DEF TypeOK

(* A client moves among the client places, a refresher among its own.      *)
LEMMA MoveClient ==
    ASSUME TypeOK, NEW t \in Clients, NEW place \in ClientPlaces,
           Goto(t, place)
    PROVE  Placed'
<1>1. t \in Threads /\ t \notin Refreshers
  BY ConstantsAssumption DEF Threads
<1>2. QED
  BY <1>1 DEF TypeOK, Placed, Goto

LEMMA MoveRefresher ==
    ASSUME TypeOK, NEW r \in Refreshers, NEW place \in RefresherPlaces,
           Goto(r, place)
    PROVE  Placed'
<1>1. r \in Threads /\ r \notin Clients
  BY ConstantsAssumption DEF Threads
<1>2. QED
  BY <1>1 DEF TypeOK, Placed, Goto

LEMMA HoldTable ==
    ASSUME TypeOK, NEW t \in Threads, NEW table \in Tables, Hold(t, table)
    PROVE  seen' \in [Threads -> Tables]
  BY DEF TypeOK, Hold

LEMMA NothingIsATable == Nothing \in Tables
  BY DEF Tables

LEMMA MoveReturn ==
    ASSUME TypeOK, NEW t \in Threads, NEW table \in Tables, Return(t, table)
    PROVE  Placed' /\ seen' \in [Threads -> Tables]
<1>1. CASE t \in Refreshers
  <2>1. AfterReturn(t) = "idle" /\ "idle" \in RefresherPlaces
    BY <1>1, AfterReturnPlace DEF RefresherPlaces
  <2>2. QED
    BY <1>1, <2>1, MoveRefresher, HoldTable DEF Return
<1>2. CASE t \notin Refreshers
  <2>1. t \in Clients
    BY <1>2 DEF Threads
  <2>2. AfterReturn(t) \in ClientPlaces
    BY <1>2, AfterReturnPlace DEF ClientPlaces, Resting
  <2>3. QED
    BY <2>1, <2>2, MoveClient, HoldTable DEF Return
<1>3. QED
  BY <1>1, <1>2

LEMMA MoveRaise ==
    ASSUME TypeOK, NEW t \in Threads, Raise(t)
    PROVE  /\ Placed' /\ seen' \in [Threads -> Tables]
           /\ lock' = NoThread
<1>1. CASE t \in Refreshers
  <2>1. "run.clear" \in RefresherPlaces
    BY DEF RefresherPlaces
  <2>2. QED
    BY <1>1, <2>1, MoveRefresher, HoldTable, NothingIsATable DEF Raise
<1>2. CASE t \notin Refreshers
  <2>1. t \in Clients /\ "raised" \in ClientPlaces
    BY <1>2 DEF Threads, ClientPlaces, Resting
  <2>2. QED
    BY <1>2, <2>1, MoveClient, HoldTable, NothingIsATable DEF Raise
<1>3. QED
  BY <1>1, <1>2

(* A thread that is fetching may be of either kind.                        *)
LEMMA MoveFetch ==
    ASSUME TypeOK, NEW t \in Threads, pc[t] \in InLock,
           NEW place \in FullFetch, pc[t] \in FullFetch, Goto(t, place)
    PROVE  Placed'
<1>1. place \in ClientPlaces /\ place \in RefresherPlaces
  BY DEF ClientPlaces, RefresherPlaces, InLock
<1>2. QED
  BY <1>1, MoveClient, MoveRefresher DEF Threads

LEMMA MoveFirst ==
    ASSUME TypeOK, NEW t \in Threads, pc[t] \in FirstFetch,
           NEW place \in FirstFetch, Goto(t, place)
    PROVE  Placed'
<1>1. t \in Clients
  BY ConstantsAssumption
     DEF TypeOK, Placed, Threads, RefresherPlaces, FirstFetch, FullFetch
<1>2. place \in ClientPlaces
  BY DEF ClientPlaces, InLock
<1>3. QED
  BY <1>1, <1>2, MoveClient

LEMMA TypeCall ==
    ASSUME TypeOK, NEW t \in Clients, Call(t)
    PROVE  TypeOK'
<1>1. PICK o \in Ops : op' = [op EXCEPT ![t] = o] /\ Goto(t, FirstPlace(o))
  BY DEF Call
<1>2. FirstPlace(o) \in ClientPlaces
  BY FirstPlacePlace DEF ClientPlaces
<1>3. t \in Threads /\ t \notin Refreshers
  BY ConstantsAssumption DEF Threads
<1>4. Placed' /\ seen' \in [Threads -> Tables]
  BY <1>1, <1>2, <1>3, MoveClient, HoldTable, NothingIsATable DEF Call
<1>5. QED
  BY <1>1, <1>4
     DEF Call, TypeOK, Hold, world, store

(* What every step that leaves the store alone must still show.            *)
LEMMA TypeUnchangedStore ==
    ASSUME TypeOK, UNCHANGED <<world, store, settled, floor, calls, op>>,
           Placed', seen' \in [Threads -> Tables], refreshing' \in BOOLEAN,
           lock' \in Threads \cup {NoThread}
    PROVE  TypeOK'
  BY DEF TypeOK, world, store

LEMMA TypeLoad ==
    ASSUME TypeOK, NEW t \in Clients, LoadStep(t)
    PROVE  TypeOK'
<1> USE DEF history
<1>1. t \in Threads /\ t \notin Refreshers
  BY ConstantsAssumption DEF Threads
<1>2. cached \in Tables /\ seen[t] \in Tables
  BY <1>1 DEF TypeOK
<1>3. {"own.read", "stale.read", "fresh.age", "load.lock", "begin.lock",
       "begin.start", "full.fetch", "raised"} \subseteq ClientPlaces
  BY DEF ClientPlaces, Resting, InLock, FullFetch
<1>4. refreshing \in BOOLEAN /\ lock \in Threads \cup {NoThread}
      /\ seen \in [Threads -> Tables] /\ Placed
  BY DEF TypeOK
<1>5. CASE ReadCached(t)
  BY <1>1, <1>2, <1>3, <1>4, <1>5, MoveClient, HoldTable, NotFreshPlace,
     TypeUnchangedStore DEF ReadCached
<1>6. CASE ReadAge(t)
  BY <1>1, <1>2, <1>3, <1>4, <1>6, MoveClient, MoveReturn, NotFreshPlace,
     TypeUnchangedStore DEF ReadAge
<1>7. CASE ReadStale(t)
  BY <1>1, <1>2, <1>3, <1>4, <1>7, MoveClient, HoldTable,
     TypeUnchangedStore DEF ReadStale
<1>8. CASE FirstLoad(t)
  BY <1>1, <1>2, <1>3, <1>4, <1>8, MoveClient, MoveReturn,
     TypeUnchangedStore DEF FirstLoad
<1>9. CASE BeginRefresh(t)
  BY <1>1, <1>2, <1>3, <1>4, <1>9, MoveClient, MoveReturn,
     TypeUnchangedStore DEF BeginRefresh
<1>10. CASE StartThread(t)
  <2>1. PICK r \in Refreshers :
           pc' = [pc EXCEPT ![r] = "run.lock", ![t] = AfterReturn(t)]
    BY <1>10 DEF StartThread
  <2>2. /\ AfterReturn(t) \in ClientPlaces /\ "run.lock" \in RefresherPlaces
        /\ r \in Threads /\ r # t
    BY <1>1, AfterReturnPlace
       DEF ClientPlaces, Resting, RefresherPlaces, Threads
  <2>3. Placed'
    <3>1. \A u \in Threads : pc'[u] = IF u = t THEN AfterReturn(t)
                                     ELSE IF u = r THEN "run.lock" ELSE pc[u]
      BY <1>1, <1>4, <2>1, <2>2 DEF Placed
    <3>2. \A u \in Clients : u \in Threads /\ u # r
      BY ConstantsAssumption DEF Threads
    <3>3. \A u \in Refreshers : u \in Threads /\ u # t
      BY <1>1 DEF Threads
    <3>4. \A u \in Clients : pc'[u] \in ClientPlaces
      BY <1>4, <2>2, <3>1, <3>2 DEF Placed
    <3>5. \A u \in Refreshers : pc'[u] \in RefresherPlaces
      BY <1>4, <2>2, <3>1, <3>3 DEF Placed
    <3>6. pc' \in [Threads -> ClientPlaces \cup RefresherPlaces]
      BY <1>4, <2>1, <2>2 DEF Placed
    <3>7. QED
      BY <3>4, <3>5, <3>6 DEF Placed
  <2>4. QED
    BY <1>4, <1>10, <2>3, TypeUnchangedStore DEF StartThread
<1>11. CASE StartFails(t)
  BY <1>1, <1>3, <1>4, <1>11, MoveClient, HoldTable, NothingIsATable,
     TypeUnchangedStore DEF StartFails
<1>12. QED
  BY <1>5, <1>6, <1>7, <1>8, <1>9, <1>10, <1>11 DEF LoadStep

LEMMA TypeSchema ==
    ASSUME TypeOK, NEW t \in Clients, SchemaStep(t)
    PROVE  TypeOK'
<1> USE DEF history
<1>1. t \in Threads /\ schema \in Tables /\ seen[t] \in Tables
  BY DEF TypeOK, Threads
<1>2. {"own.age", "schema.lock", "first.fetch"} \subseteq ClientPlaces
  BY DEF ClientPlaces, InLock, FirstFetch
<1>3. refreshing \in BOOLEAN /\ lock \in Threads \cup {NoThread}
      /\ seen \in [Threads -> Tables] /\ Placed
  BY DEF TypeOK
<1>4. CASE ReadOwn(t)
  BY <1>1, <1>2, <1>3, <1>4, MoveClient, HoldTable, TypeUnchangedStore
     DEF ReadOwn
<1>5. CASE ReadOwnAge(t)
  BY <1>1, <1>2, <1>3, <1>5, MoveClient, MoveReturn, TypeUnchangedStore
     DEF ReadOwnAge
<1>6. CASE FirstSchema(t)
  BY <1>1, <1>2, <1>3, <1>6, MoveClient, MoveReturn, TypeUnchangedStore
     DEF FirstSchema
<1>7. QED
  BY <1>4, <1>5, <1>6 DEF SchemaStep

LEMMA TypeChild ==
    ASSUME TypeOK, NEW t \in Clients, ChildStep(t)
    PROVE  TypeOK'
<1> USE DEF history
<1>1. /\ t \in Threads /\ children \in Tables
      /\ schemaChildren \in Tables
  BY DEF TypeOK, Threads
<1>2. {"fresh.read", "children.copy", "cs.first", "done"} \subseteq ClientPlaces
  BY DEF ClientPlaces, Resting
<1>3. refreshing \in BOOLEAN /\ lock \in Threads \cup {NoThread}
      /\ seen \in [Threads -> Tables] /\ Placed
  BY DEF TypeOK
<1>4. CASE CheckChildren(t)
  BY <1>2, <1>3, <1>4, MoveClient, TypeUnchangedStore DEF CheckChildren
<1>5. CASE CopyChildren(t)
  BY <1>1, <1>2, <1>3, <1>5, MoveClient, HoldTable, TypeUnchangedStore
     DEF CopyChildren
<1>6. CASE CheckChildSchemas(t)
  BY <1>2, <1>3, <1>6, MoveClient, TypeUnchangedStore DEF CheckChildSchemas
<1>7. CASE CheckChildSchemasAgain(t)
  BY <1>2, <1>3, <1>7, MoveClient, TypeUnchangedStore
     DEF CheckChildSchemasAgain
<1>8. CASE CopyFirstChildren(t)
  BY <1>1, <1>2, <1>3, <1>8, MoveClient, HoldTable, TypeUnchangedStore
     DEF CopyFirstChildren
<1>9. QED
  BY <1>4, <1>5, <1>6, <1>7, <1>8 DEF ChildStep

LEMMA TypeInvalidate ==
    ASSUME TypeOK, NEW t \in Clients, Invalidate(t)
    PROVE  TypeOK'
<1>1. "done" \in ClientPlaces
  BY DEF ClientPlaces, Resting
<1>2. Placed'
  BY <1>1, MoveClient DEF Invalidate
<1>3. QED
  BY <1>2, NothingIsATable DEF Invalidate, TypeOK, world, history

LEMMA TypeFetch ==
    ASSUME TypeOK, NEW t \in Threads, FetchStep(t)
    PROVE  TypeOK'
<1> USE DEF history
<1>1. seen[t] \in Tables /\ remote \in Tables
  BY DEF TypeOK, Tables
<1>2. FullFetch \subseteq InLock
  BY DEF InLock
<1>3. CASE AnswerFull(t)
  <2>1. Placed'
    BY <1>2, <1>3, MoveFetch DEF AnswerFull, At, FullFetch
  <2>2. QED
    BY <1>1, <1>3, <2>1, HoldTable DEF AnswerFull, TypeOK, world
<1>4. CASE AnswerFirst(t)
  <2>1. Placed'
    BY <1>4, MoveFirst DEF AnswerFirst, At, FirstFetch
  <2>2. QED
    BY <1>1, <1>4, <2>1, HoldTable DEF AnswerFirst, TypeOK, world
<1>5. CASE FetchFails(t)
  BY <1>5, MoveRaise, TypeUnchangedStore DEF FetchFails, TypeOK
<1>6. CASE TableFails(t)
  BY <1>6, MoveRaise, TypeUnchangedStore DEF TableFails, TypeOK
<1>7. CASE PublishTable(t)
  <2>1. Placed'
    BY <1>2, <1>7, MoveFetch DEF PublishTable, At, FullFetch
  <2>2. QED
    BY <1>1, <1>7, <2>1 DEF PublishTable, TypeOK, world
<1>8. CASE StampTable(t)
  <2>1. Placed'
    BY <1>2, <1>8, MoveFetch DEF StampTable, At, FullFetch
  <2>2. QED
    BY <1>8, <2>1 DEF StampTable, TypeOK, world
<1>9. CASE DropSchema(t)
  <2>1. Placed'
    BY <1>2, <1>9, MoveFetch DEF DropSchema, At, FullFetch
  <2>2. QED
    BY <1>9, <2>1, NothingIsATable DEF DropSchema, TypeOK, world
<1>10. CASE FinishRefresh(t)
  <2>1. Placed' /\ seen' \in [Threads -> Tables]
    BY <1>1, <1>10, MoveReturn DEF FinishRefresh
  <2>2. QED
    BY <1>1, <1>10, <2>1 DEF FinishRefresh, TypeOK, world, store
<1>11. CASE PublishSchema(t)
  <2>1. Placed'
    BY <1>11, MoveFirst DEF PublishSchema, At, FirstFetch
  <2>2. QED
    BY <1>1, <1>11, <2>1 DEF PublishSchema, TypeOK, world
<1>12. CASE StampSchema(t)
  <2>1. Placed' /\ seen' \in [Threads -> Tables]
    BY <1>1, <1>12, MoveReturn DEF StampSchema
  <2>2. QED
    BY <1>12, <2>1 DEF StampSchema, TypeOK, world
<1>13. QED
  BY <1>3, <1>4, <1>5, <1>6, <1>7, <1>8, <1>9, <1>10, <1>11, <1>12
     DEF FetchStep

LEMMA TypeRefresher ==
    ASSUME TypeOK, NEW r \in Refreshers, RefresherStep(r)
    PROVE  TypeOK'
<1> USE DEF history
<1>1. {"full.fetch", "idle"} \subseteq RefresherPlaces /\ r \in Threads
  BY DEF RefresherPlaces, FullFetch, Threads
<1>2. refreshing \in BOOLEAN /\ lock \in Threads \cup {NoThread}
      /\ seen \in [Threads -> Tables]
  BY DEF TypeOK
<1>3. CASE RunRefresh(r)
  BY <1>1, <1>2, <1>3, MoveRefresher, TypeUnchangedStore DEF RunRefresh
<1>4. CASE ClearFlag(r)
  BY <1>1, <1>2, <1>4, MoveRefresher, TypeUnchangedStore DEF ClearFlag
<1>5. QED
  BY <1>3, <1>4 DEF RefresherStep

LEMMA TypeWorld ==
    ASSUME TypeOK, Tick \/ Upstream \/ Quiet \/ UNCHANGED vars
    PROVE  TypeOK'
<1> USE DEF TypeOK, Placed, store, history, world
<1>1. CASE Tick
  BY <1>1 DEF Tick
<1>2. CASE Upstream
  BY <1>2, ConstantsAssumption DEF Upstream, Versions
<1>3. CASE Quiet \/ UNCHANGED vars
  BY <1>3 DEF Quiet, vars
<1>4. QED
  BY <1>1, <1>2, <1>3

THEOREM TypeCorrect == Spec => []TypeOK
<1>1. TypeOK /\ [Next]_vars => TypeOK'
  BY TypeCall, TypeLoad, TypeSchema, TypeChild, TypeInvalidate, TypeFetch,
     TypeRefresher, TypeWorld DEF Next, ClientStep
<1>2. QED
  BY TypeInit, <1>1, PTL DEF Spec

-------------------------------------------------------------------------------
(* The lock: the threads between acquiring it and giving it back are the   *)
(* one thread that holds it.                                               *)

LockInv == \A t \in Threads : pc[t] \in InLock <=> lock = t

(* A step that moves one thread between places outside the lock, or        *)
(* between places inside it, leaves the lock as it is.                     *)
LEMMA LockKept ==
    ASSUME TypeOK, LockInv, NEW t \in Threads, NEW place, Goto(t, place),
           pc[t] \in InLock <=> place \in InLock, lock' = lock
    PROVE  LockInv'
  BY DEF TypeOK, Placed, LockInv, Goto

LEMMA LockTaken ==
    ASSUME TypeOK, LockInv, NEW t \in Threads, NEW place \in InLock,
           Goto(t, place), lock = NoThread, lock' = t
    PROVE  LockInv'
  BY ConstantsAssumption DEF TypeOK, Placed, LockInv, Goto

LEMMA LockGiven ==
    ASSUME TypeOK, LockInv, NEW t \in Threads, NEW place, place \notin InLock,
           pc[t] \in InLock, Goto(t, place), lock' = NoThread
    PROVE  LockInv'
  BY ConstantsAssumption DEF TypeOK, Placed, LockInv, Goto

LEMMA ReturnOutside ==
    ASSUME NEW t \in Threads
    PROVE  AfterReturn(t) \notin InLock
  BY AfterReturnPlace DEF InLock, FullFetch, FirstFetch

LEMMA LockClient ==
    ASSUME TypeOK, LockInv, NEW t \in Clients, Call(t) \/ ClientStep(t)
    PROVE  LockInv'
<1> USE DEF At
<1>1. t \in Threads
  BY DEF Threads
<1>2. CASE Call(t)
  <2>1. PICK o \in Ops : Goto(t, FirstPlace(o))
    BY <1>2 DEF Call
  <2>2. FirstPlace(o) \notin InLock /\ pc[t] \notin InLock
    BY <1>2, FirstPlacePlace DEF Call, Resting, InLock, FullFetch, FirstFetch
  <2>3. QED
    BY <1>1, <1>2, <2>1, <2>2, LockKept DEF Call
<1>3. CASE ReadCached(t) \/ ReadAge(t) \/ ReadStale(t)
  BY <1>1, <1>3, LockKept, NotFreshPlace, ReturnOutside
     DEF ReadCached, ReadAge, ReadStale, Return, InLock, FullFetch, FirstFetch
<1>4. CASE FirstLoad(t)
  BY <1>1, <1>4, LockKept, LockTaken, ReturnOutside
     DEF FirstLoad, Return, InLock, FullFetch, FirstFetch
<1>5. CASE BeginRefresh(t) \/ StartFails(t)
  BY <1>1, <1>5, LockKept, ReturnOutside
     DEF BeginRefresh, StartFails, Return, InLock, FullFetch, FirstFetch
<1>6. CASE StartThread(t)
  <2>1. PICK r \in Refreshers :
           /\ pc[r] = "idle"
           /\ pc' = [pc EXCEPT ![r] = "run.lock", ![t] = AfterReturn(t)]
    BY <1>6 DEF StartThread
  <2>2. r \in Threads /\ pc[t] = "begin.start" /\ lock' = lock
    BY <1>6 DEF StartThread, Threads
  <2>3. /\ AfterReturn(t) \notin InLock /\ "run.lock" \notin InLock
        /\ "begin.start" \notin InLock /\ "idle" \notin InLock
    BY <1>1, ReturnOutside DEF InLock, FullFetch, FirstFetch
  <2>4. QED
    BY <1>1, <2>1, <2>2, <2>3 DEF TypeOK, Placed, LockInv
<1>7. CASE ReadOwn(t) \/ ReadOwnAge(t)
  BY <1>1, <1>7, LockKept, ReturnOutside
     DEF ReadOwn, ReadOwnAge, Return, InLock, FullFetch, FirstFetch
<1>8. CASE FirstSchema(t)
  BY <1>1, <1>8, LockKept, LockTaken, ReturnOutside
     DEF FirstSchema, Return, InLock, FullFetch, FirstFetch
<1>9. CASE ChildStep(t)
  BY <1>1, <1>9, LockKept
     DEF ChildStep, CheckChildren, CopyChildren, CheckChildSchemas,
         CheckChildSchemasAgain, CopyFirstChildren, InLock, FullFetch,
         FirstFetch
<1>10. CASE Invalidate(t)
  BY <1>1, <1>10, LockKept DEF Invalidate, InLock, FullFetch, FirstFetch
<1>11. QED
  BY <1>2, <1>3, <1>4, <1>5, <1>6, <1>7, <1>8, <1>9, <1>10
     DEF ClientStep, LoadStep, SchemaStep

LEMMA LockRaise ==
    ASSUME TypeOK, LockInv, NEW t \in Threads, pc[t] \in InLock, Raise(t)
    PROVE  LockInv'
<1>1. "run.clear" \notin InLock /\ "raised" \notin InLock
  BY DEF InLock, FullFetch, FirstFetch
<1>2. QED
  BY <1>1, LockGiven DEF Raise

LEMMA LockFetch ==
    ASSUME TypeOK, LockInv, NEW t \in Threads, FetchStep(t)
    PROVE  LockInv'
<1> USE DEF At, InLock, FullFetch, FirstFetch
<1>1. CASE AnswerFull(t) \/ AnswerFirst(t) \/ PublishTable(t) \/ StampTable(t)
             \/ DropSchema(t) \/ PublishSchema(t)
  BY <1>1, LockKept DEF AnswerFull, AnswerFirst, PublishTable, StampTable,
                        DropSchema, PublishSchema
<1>2. CASE FetchFails(t) \/ TableFails(t)
  BY <1>2, LockRaise DEF FetchFails, TableFails
<1>3. CASE FinishRefresh(t) \/ StampSchema(t)
  BY <1>3, LockGiven, ReturnOutside DEF FinishRefresh, StampSchema, Return
<1>4. QED
  BY <1>1, <1>2, <1>3 DEF FetchStep

LEMMA LockRefresher ==
    ASSUME TypeOK, LockInv, NEW r \in Refreshers, RefresherStep(r)
    PROVE  LockInv'
<1> USE DEF At, InLock, FullFetch, FirstFetch
<1>1. r \in Threads
  BY DEF Threads
<1>2. CASE RunRefresh(r)
  BY <1>1, <1>2, LockTaken DEF RunRefresh
<1>3. CASE ClearFlag(r)
  BY <1>1, <1>3, LockKept DEF ClearFlag
<1>4. QED
  BY <1>2, <1>3 DEF RefresherStep

LEMMA LockWorld ==
    ASSUME LockInv, Tick \/ Upstream \/ Quiet \/ UNCHANGED vars
    PROVE  LockInv'
  BY DEF LockInv, Tick, Upstream, Quiet, vars

LEMMA LockStep == TypeOK /\ LockInv /\ [Next]_vars => LockInv'
  BY LockClient, LockFetch, LockRefresher, LockWorld DEF Next

LEMMA LockInit == Init => LockInv
<1>1. "idle" \notin InLock
  BY DEF InLock, FullFetch, FirstFetch
<1>2. QED
  BY <1>1, ConstantsAssumption DEF Init, LockInv

LEMMA LockCorrect == Spec => []LockInv
  BY LockInit, LockStep, TypeCorrect, PTL DEF Spec

(* However many threads reach an expired source, whatever fails and        *)
(* whichever operations they call, one of them at a time is fetching.      *)
THEOREM OneFetch == Spec => []OneFetchAtATime
<1>1. LockInv => OneFetchAtATime
  BY DEF LockInv, OneFetchAtATime
<1>2. QED
  BY <1>1, LockCorrect, PTL

-------------------------------------------------------------------------------
(* Reads do not go back.  ReadsDoNotGoBack is not inductive: it says       *)
(* nothing of what a thread is about to publish.  OrderInv adds that every *)
(* copy in the store, and the table a fetch is carrying, is at least as    *)
(* new as the last full read that gave the lock back, so that giving the   *)
(* lock back with a newer one leaves no older copy behind.                 *)

AtLeast(table) == table = Nothing \/ (table >= settled /\ table <= remote)

StoreOrder ==
    /\ settled <= remote
    /\ AtLeast(cached) /\ AtLeast(schema)
    /\ AtLeast(children) /\ AtLeast(schemaChildren)

SeenOrder ==
    /\ \A t \in Threads : seen[t] <= remote
    /\ \A t \in Clients : floor[t] <= settled
    /\ \A t \in Clients : seen[t] = Nothing \/ seen[t] >= floor[t]

Published == {"full.stamp", "full.drop", "full.finish"}
Carrying  == {"full.table", "first.table", "first.stamp"} \cup Published

FetchOrder == \A t \in Threads :
    /\ pc[t] \in Carrying => seen[t] # Nothing /\ seen[t] >= settled
    /\ pc[t] \in Published \cup {"full.table"} => children = seen[t]
    /\ pc[t] \in Published => cached = seen[t]
    /\ pc[t] = "full.finish" => schema = Nothing /\ schemaChildren = Nothing

OrderInv == StoreOrder /\ SeenOrder /\ FetchOrder

LEMMA TablesAreNumbers == Tables \subseteq Nat
  BY DEF Tables, Versions, Nothing

LEMMA CarryingInLock == Carrying \subseteq InLock
  BY DEF Carrying, Published, InLock, FullFetch, FirstFetch

LEMMA OrderInit == Init => OrderInv
<1> SUFFICES ASSUME Init PROVE OrderInv
  OBVIOUS
<1> USE DEF Init, Nothing
<1>1. cached \in {0, 1} /\ settled = cached /\ remote = 1
  OBVIOUS
<1>2. StoreOrder
  BY <1>1 DEF StoreOrder, AtLeast
<1>3. SeenOrder
  BY <1>1 DEF SeenOrder, Threads
<1>4. FetchOrder
  BY DEF FetchOrder, Carrying, Published
<1>5. QED
  BY <1>2, <1>3, <1>4 DEF OrderInv

(* A thread reads something from the store and moves on, outside a fetch.  *)
LEMMA OrderRead ==
    ASSUME TypeOK, OrderInv, NEW t \in Threads, NEW place,
           place \notin Carrying, Goto(t, place),
           NEW table \in Tables, Hold(t, table), table <= remote,
           t \in Clients => table = Nothing \/ table >= floor[t],
           UNCHANGED <<remote, store, settled, floor>>
    PROVE  OrderInv'
<1> USE DEF OrderInv, store
<1>1. \A u \in Threads : /\ pc'[u] = IF u = t THEN place ELSE pc[u]
                         /\ seen'[u] = IF u = t THEN table ELSE seen[u]
  BY DEF TypeOK, Placed, Goto, Hold
<1>2. StoreOrder'
  BY DEF StoreOrder, AtLeast
<1>3. SeenOrder'
  BY <1>1 DEF SeenOrder, Threads
<1>4. FetchOrder'
  BY <1>1 DEF FetchOrder, Published, Carrying
<1>5. QED
  BY <1>2, <1>3, <1>4

(* What a thread may read from the store, it may answer with.              *)
LEMMA StoreIsReadable ==
    ASSUME TypeOK, OrderInv, NEW t \in Threads,
           NEW table \in {cached, schema, children, schemaChildren, Nothing}
    PROVE  /\ table \in Tables /\ table <= remote
           /\ t \in Clients => table = Nothing \/ table >= floor[t]
<1>1. /\ table \in Nat /\ remote \in Nat /\ settled \in Nat
      /\ t \in Clients => floor[t] \in Nat
  BY TablesAreNumbers DEF TypeOK, Tables, Nothing
<1>2. AtLeast(table) /\ (t \in Clients => floor[t] <= settled)
  BY DEF OrderInv, StoreOrder, SeenOrder, AtLeast
<1>3. table \in Tables
  BY DEF TypeOK, Tables
<1>4. QED
  BY <1>1, <1>2, <1>3 DEF AtLeast, Nothing

LEMMA SeenIsReadable ==
    ASSUME TypeOK, OrderInv, NEW t \in Threads
    PROVE  /\ seen[t] \in Tables /\ seen[t] <= remote
           /\ t \in Clients => seen[t] = Nothing \/ seen[t] >= floor[t]
           /\ UNCHANGED seen => Hold(t, seen[t])
  BY DEF TypeOK, OrderInv, SeenOrder, Hold

(* A call begins: what it has read is nothing, so its floor may rise.      *)
LEMMA OrderCall ==
    ASSUME TypeOK, OrderInv, NEW t \in Clients, Call(t)
    PROVE  OrderInv'
<1> USE DEF OrderInv
<1>1. PICK o \in Ops : Goto(t, FirstPlace(o))
  BY DEF Call
<1>2. FirstPlace(o) \notin Carrying
  BY FirstPlacePlace DEF Carrying, Published
<1>3. \A u \in Threads :
         /\ pc'[u] = IF u = t THEN FirstPlace(o) ELSE pc[u]
         /\ seen'[u] = IF u = t THEN Nothing ELSE seen[u]
  BY <1>1 DEF TypeOK, Placed, Goto, Hold, Call
<1>4. \A u \in Clients : floor'[u] = IF u = t THEN settled ELSE floor[u]
  BY DEF Call, TypeOK
<1>5. remote \in Nat /\ settled \in Nat
  BY TablesAreNumbers DEF TypeOK, Tables
<1>6. StoreOrder'
  BY DEF Call, world, store, StoreOrder, AtLeast
<1>7. SeenOrder'
  BY <1>3, <1>4, <1>5 DEF Call, world, SeenOrder, Nothing, Threads
<1>8. FetchOrder'
  BY <1>2, <1>3 DEF Call, store, FetchOrder, Published, Carrying
<1>9. QED
  BY <1>6, <1>7, <1>8

LEMMA PlainPlaces ==
    Carrying \cap {"idle", "done", "raised", "fresh.read", "fresh.age",
                   "stale.read", "begin.lock", "begin.start", "load.lock",
                   "own.read", "own.age", "schema.lock", "children.check",
                   "children.copy", "cs.check", "cs.again", "cs.first",
                   "forget", "run.lock", "run.clear", "full.fetch",
                   "first.fetch"} = {}
  BY DEF Carrying, Published

LEMMA ReturnIsPlain ==
    ASSUME NEW t \in Threads
    PROVE  AfterReturn(t) \notin Carrying
  BY ReturnOutside, CarryingInLock

LEMMA OrderLoad ==
    ASSUME TypeOK, OrderInv, NEW t \in Clients, LoadStep(t)
    PROVE  OrderInv'
<1> USE DEF world, history, At
<1>1. t \in Threads
  BY DEF Threads
<1>2. CASE ReadCached(t) \/ ReadStale(t)
  BY <1>1, <1>2, OrderRead, StoreIsReadable, NotFreshPlace, PlainPlaces
     DEF ReadCached, ReadStale
<1>3. CASE ReadAge(t)
  BY <1>1, <1>3, OrderRead, SeenIsReadable, NotFreshPlace, PlainPlaces,
     ReturnIsPlain DEF ReadAge, Return
<1>4. CASE FirstLoad(t)
  BY <1>1, <1>4, OrderRead, StoreIsReadable, SeenIsReadable, PlainPlaces,
     ReturnIsPlain DEF FirstLoad, Return
<1>5. CASE BeginRefresh(t)
  BY <1>1, <1>5, OrderRead, SeenIsReadable, PlainPlaces, ReturnIsPlain
     DEF BeginRefresh, Return
<1>6. CASE StartThread(t)
  <2>1. PICK r \in Refreshers :
           pc' = [pc EXCEPT ![r] = "run.lock", ![t] = AfterReturn(t)]
    BY <1>6 DEF StartThread
  <2>2. \A u \in Threads : pc'[u] \in Carrying => pc[u] = pc'[u]
    BY <1>1, <2>1, ReturnIsPlain, PlainPlaces DEF TypeOK, Placed
  <2>3. UNCHANGED <<remote, store, settled, floor, seen>>
    BY <1>6 DEF StartThread
  <2>4. StoreOrder' /\ SeenOrder'
    BY <2>3 DEF OrderInv, StoreOrder, SeenOrder, AtLeast, store
  <2>5. FetchOrder'
    BY <2>2, <2>3 DEF OrderInv, FetchOrder, Carrying, Published, store
  <2>6. QED
    BY <2>4, <2>5 DEF OrderInv
<1>7. CASE StartFails(t)
  BY <1>1, <1>7, OrderRead, StoreIsReadable, PlainPlaces DEF StartFails
<1>8. QED
  BY <1>2, <1>3, <1>4, <1>5, <1>6, <1>7 DEF LoadStep

LEMMA OrderSchema ==
    ASSUME TypeOK, OrderInv, NEW t \in Clients, SchemaStep(t)
    PROVE  OrderInv'
<1> USE DEF world, history, At
<1>1. t \in Threads
  BY DEF Threads
<1>2. CASE ReadOwn(t)
  BY <1>1, <1>2, OrderRead, StoreIsReadable, PlainPlaces DEF ReadOwn
<1>3. CASE ReadOwnAge(t)
  BY <1>1, <1>3, OrderRead, SeenIsReadable, PlainPlaces, ReturnIsPlain
     DEF ReadOwnAge, Return
<1>4. CASE FirstSchema(t)
  BY <1>1, <1>4, OrderRead, StoreIsReadable, SeenIsReadable, PlainPlaces,
     ReturnIsPlain DEF FirstSchema, Return
<1>5. QED
  BY <1>2, <1>3, <1>4 DEF SchemaStep

LEMMA OrderChild ==
    ASSUME TypeOK, OrderInv, NEW t \in Clients, ChildStep(t)
    PROVE  OrderInv'
<1> USE DEF world, history, At
<1>1. t \in Threads
  BY DEF Threads
<1>2. CASE CopyChildren(t) \/ CopyFirstChildren(t)
  BY <1>1, <1>2, OrderRead, StoreIsReadable, PlainPlaces
     DEF CopyChildren, CopyFirstChildren
<1>3. CASE CheckChildren(t) \/ CheckChildSchemas(t) \/ CheckChildSchemasAgain(t)
  BY <1>1, <1>3, OrderRead, SeenIsReadable, PlainPlaces
     DEF CheckChildren, CheckChildSchemas, CheckChildSchemasAgain
<1>4. QED
  BY <1>2, <1>3 DEF ChildStep

(* invalidate() runs with the lock free, so no fetch is carrying a table.  *)
LEMMA OrderInvalidate ==
    ASSUME TypeOK, LockInv, OrderInv, NEW t \in Clients, Invalidate(t)
    PROVE  OrderInv'
<1> USE DEF OrderInv
<1>1. \A u \in Threads : pc[u] \notin Carrying
  BY ConstantsAssumption, CarryingInLock DEF LockInv, Invalidate
<1>2. \A u \in Threads : pc'[u] \notin Carrying
  BY <1>1, PlainPlaces DEF Invalidate, Goto, TypeOK, Placed
<1>3. StoreOrder'
  BY DEF Invalidate, world, history, StoreOrder, AtLeast
<1>4. SeenOrder'
  BY DEF Invalidate, world, history, SeenOrder
<1>5. FetchOrder'
  BY <1>2 DEF FetchOrder, Carrying, Published
<1>6. QED
  BY <1>3, <1>4, <1>5

(* The steps of a fetch.  Only the thread t that holds the lock is carrying*)
(* a table, so what it writes can disturb no other thread's fetch.         *)
LEMMA OrderFetch ==
    ASSUME TypeOK, LockInv, OrderInv, NEW t \in Threads, FetchStep(t)
    PROVE  OrderInv'
<1> USE DEF OrderInv, history
<1>1. pc[t] \in InLock
  BY DEF FetchStep, At, AnswerFull, AnswerFirst, FetchFails, TableFails,
         PublishTable, StampTable, DropSchema, FinishRefresh, PublishSchema,
         StampSchema, InLock, FullFetch, FirstFetch
<1>2. \A u \in Threads : pc[u] \in Carrying => u = t
  BY <1>1, CarryingInLock DEF LockInv
<1>3. /\ remote \in Nat /\ settled \in Nat /\ seen[t] \in Nat
      /\ remote # Nothing /\ remote \in Tables
      /\ \A u \in Clients : floor[u] \in Nat
  BY TablesAreNumbers DEF TypeOK, Tables, Versions, Nothing
<1>4. ASSUME NEW place, Goto(t, place)
      PROVE  \A u \in Threads : pc'[u] = IF u = t THEN place ELSE pc[u]
  BY <1>4 DEF TypeOK, Placed, Goto
<1>5. ASSUME NEW table, Hold(t, table)
      PROVE  \A u \in Threads : seen'[u] = IF u = t THEN table ELSE seen[u]
  BY <1>5 DEF TypeOK, Hold
<1>6. settled <= remote /\ seen[t] <= remote
  BY DEF StoreOrder, SeenOrder
<1>7. CASE AnswerFull(t)
  <2>1. StoreOrder'
    BY <1>3, <1>6, <1>7 DEF AnswerFull, world, StoreOrder, AtLeast
  <2>2. SeenOrder'
    BY <1>3, <1>5, <1>6, <1>7
       DEF AnswerFull, world, SeenOrder, StoreOrder, Threads
  <2>3. FetchOrder'
    BY <1>2, <1>3, <1>4, <1>5, <1>6, <1>7
       DEF AnswerFull, world, FetchOrder, Carrying, Published
  <2>4. QED
    BY <2>1, <2>2, <2>3
<1>8. CASE AnswerFirst(t)
  <2>1. StoreOrder'
    BY <1>3, <1>6, <1>8 DEF AnswerFirst, world, StoreOrder, AtLeast
  <2>2. SeenOrder'
    BY <1>3, <1>5, <1>6, <1>8
       DEF AnswerFirst, world, SeenOrder, StoreOrder, Threads
  <2>3. FetchOrder'
    BY <1>2, <1>3, <1>4, <1>5, <1>6, <1>8
       DEF AnswerFirst, world, FetchOrder, Carrying, Published
  <2>4. QED
    BY <2>1, <2>2, <2>3
<1>9. CASE FetchFails(t) \/ TableFails(t)
  <2>1. /\ Raise(t)
        /\ UNCHANGED <<remote, store, settled, floor>>
    BY <1>9 DEF FetchFails, TableFails, world
  <2>2. PICK place \in {"run.clear", "raised"} : Goto(t, place)
    BY <2>1 DEF Raise
  <2>3. Hold(t, Nothing)
    BY <2>1 DEF Raise
  <2>4. QED
    BY <2>1, <2>2, <2>3, OrderRead, StoreIsReadable, PlainPlaces
<1>10. CASE PublishTable(t)
  <2>1. pc[t] = "full.table"
    BY <1>10 DEF PublishTable, At
  <2>2. seen[t] # Nothing /\ seen[t] >= settled /\ children = seen[t]
    BY <2>1 DEF FetchOrder, Carrying
  <2>3. StoreOrder'
    BY <1>6, <1>10, <2>2 DEF PublishTable, world, StoreOrder, AtLeast
  <2>4. SeenOrder'
    BY <1>10 DEF PublishTable, world, SeenOrder
  <2>5. FetchOrder'
    BY <1>2, <1>4, <1>10, <2>2 DEF PublishTable, FetchOrder, Carrying, Published
  <2>6. QED
    BY <2>3, <2>4, <2>5
<1>11. CASE StampTable(t)
  <2>1. pc[t] = "full.stamp"
    BY <1>11 DEF StampTable, At
  <2>2. StoreOrder' /\ SeenOrder'
    BY <1>11 DEF StampTable, world, StoreOrder, SeenOrder, AtLeast
  <2>3. FetchOrder'
    BY <1>2, <1>4, <1>11, <2>1 DEF StampTable, FetchOrder, Carrying, Published
  <2>4. QED
    BY <2>2, <2>3
<1>12. CASE DropSchema(t)
  <2>1. pc[t] = "full.drop"
    BY <1>12 DEF DropSchema, At
  <2>2. StoreOrder' /\ SeenOrder'
    BY <1>12 DEF DropSchema, world, StoreOrder, SeenOrder, AtLeast
  <2>3. FetchOrder'
    BY <1>2, <1>4, <1>12, <2>1 DEF DropSchema, FetchOrder, Carrying, Published
  <2>4. QED
    BY <2>2, <2>3
<1>13. CASE FinishRefresh(t)
  <2>1. pc[t] = "full.finish"
    BY <1>13 DEF FinishRefresh, At
  <2>2. /\ seen[t] # Nothing /\ seen[t] >= settled /\ children = seen[t]
        /\ cached = seen[t] /\ schema = Nothing /\ schemaChildren = Nothing
    BY <2>1 DEF FetchOrder, Carrying, Published
  <2>3. Goto(t, AfterReturn(t)) /\ UNCHANGED seen
    BY <1>13 DEF FinishRefresh, Return, Hold, TypeOK
  <2>4. StoreOrder'
    BY <1>3, <1>6, <1>13, <2>2
       DEF FinishRefresh, world, store, StoreOrder, AtLeast
  <2>5. SeenOrder'
    BY <1>3, <1>13, <2>2, <2>3 DEF FinishRefresh, world, SeenOrder
  <2>6. FetchOrder'
    BY <1>2, <1>4, <1>13, <2>3, ReturnIsPlain
       DEF FinishRefresh, store, FetchOrder, Carrying, Published
  <2>7. QED
    BY <2>4, <2>5, <2>6
<1>14. CASE PublishSchema(t)
  <2>1. pc[t] = "first.table"
    BY <1>14 DEF PublishSchema, At
  <2>2. seen[t] # Nothing /\ seen[t] >= settled
    BY <2>1 DEF FetchOrder, Carrying
  <2>3. StoreOrder'
    BY <1>6, <1>14, <2>2 DEF PublishSchema, world, StoreOrder, AtLeast
  <2>4. SeenOrder'
    BY <1>14 DEF PublishSchema, world, SeenOrder
  <2>5. FetchOrder'
    BY <1>2, <1>4, <1>14, <2>2 DEF PublishSchema, FetchOrder, Carrying, Published
  <2>6. QED
    BY <2>3, <2>4, <2>5
<1>15. CASE StampSchema(t)
  <2>1. Goto(t, AfterReturn(t)) /\ UNCHANGED seen
    BY <1>15 DEF StampSchema, Return, Hold, TypeOK
  <2>2. StoreOrder' /\ SeenOrder'
    BY <1>15, <2>1 DEF StampSchema, world, StoreOrder, SeenOrder, AtLeast
  <2>3. FetchOrder'
    BY <1>2, <1>4, <1>15, <2>1, ReturnIsPlain
       DEF StampSchema, FetchOrder, Carrying, Published
  <2>4. QED
    BY <2>2, <2>3
<1>16. QED
  BY <1>7, <1>8, <1>9, <1>10, <1>11, <1>12, <1>13, <1>14, <1>15 DEF FetchStep

LEMMA OrderRefresher ==
    ASSUME TypeOK, OrderInv, NEW r \in Refreshers, RefresherStep(r)
    PROVE  OrderInv'
<1> USE DEF world, history, At
<1>1. r \in Threads
  BY DEF Threads
<1>2. CASE RunRefresh(r)
  BY <1>1, <1>2, OrderRead, SeenIsReadable, PlainPlaces DEF RunRefresh
<1>3. CASE ClearFlag(r)
  BY <1>1, <1>3, OrderRead, SeenIsReadable, PlainPlaces DEF ClearFlag
<1>4. QED
  BY <1>2, <1>3 DEF RefresherStep

LEMMA OrderWorld ==
    ASSUME TypeOK, OrderInv, Tick \/ Upstream \/ Quiet \/ UNCHANGED vars
    PROVE  OrderInv'
<1> USE DEF OrderInv, StoreOrder, SeenOrder, FetchOrder, AtLeast, store,
            history, world
<1>1. CASE Tick
  BY <1>1 DEF Tick
<1>2. CASE Upstream
  <2>1. /\ remote \in Nat /\ settled \in Nat /\ cached \in Nat
        /\ schema \in Nat /\ children \in Nat /\ schemaChildren \in Nat
        /\ \A t \in Threads : seen[t] \in Nat
    BY TablesAreNumbers DEF TypeOK, Tables
  <2>2. StoreOrder'
    BY <1>2, <2>1 DEF Upstream
  <2>3. SeenOrder' /\ FetchOrder'
    BY <1>2, <2>1 DEF Upstream
  <2>4. QED
    BY <2>2, <2>3
<1>3. CASE Quiet \/ UNCHANGED vars
  BY <1>3 DEF Quiet, vars
<1>4. QED
  BY <1>1, <1>2, <1>3

LEMMA OrderStep == TypeOK /\ LockInv /\ OrderInv /\ [Next]_vars => OrderInv'
  BY OrderCall, OrderLoad, OrderSchema, OrderChild, OrderInvalidate,
     OrderFetch, OrderRefresher, OrderWorld DEF Next, ClientStep

(* Whatever fails, whoever waits and whatever is forgotten, a call never   *)
(* answers with something older than a full read completed before it began.*)
THEOREM NoReadGoesBack == Spec => []ReadsDoNotGoBack
<1>1. OrderInv => ReadsDoNotGoBack
  BY DEF OrderInv, SeenOrder, ReadsDoNotGoBack
<1>2. QED
  BY OrderInit, OrderStep, TypeCorrect, LockCorrect, <1>1, PTL DEF Spec

-------------------------------------------------------------------------------
(* The refreshes.                                                          *)

LEMMA Moved ==
    ASSUME TypeOK, NEW t \in Threads, NEW place, Goto(t, place)
    PROVE  \A u \in Threads : pc'[u] = IF u = t THEN place ELSE pc[u]
  BY DEF TypeOK, Placed, Goto

(* A refresher takes up no call and reads no first page.                   *)
LEMMA KindsOfThread ==
    ASSUME TypeOK
    PROVE  /\ \A r \in Refreshers : r \in Threads /\ r \notin Clients /\ pc[r] \in RefresherPlaces
           /\ \A t \in Clients : t \in Threads /\ t \notin Refreshers /\ pc[t] \in ClientPlaces
           /\ \A t \in Threads : t \in Clients \/ t \in Refreshers
           /\ FirstFetch \cap RefresherPlaces = {}
           /\ {"run.lock", "run.clear"} \cap ClientPlaces = {}
  BY ConstantsAssumption
     DEF TypeOK, Placed, Threads, FirstFetch, FullFetch, RefresherPlaces, ClientPlaces,
         Resting, InLock

-------------------------------------------------------------------------------
(* The flag.                                                               *)

(* A thread that moves without ending a refresh takes no owner away.       *)
LEMMA OwnerStays ==
    ASSUME TypeOK, FlagHasAnOwner, NEW t \in Threads, NEW place, Goto(t, place),
           pc[t] # "begin.start" \/ t \in Refreshers,
           t \in Refreshers => place # "idle",
           refreshing' => refreshing
    PROVE  FlagHasAnOwner'
<1>1. SUFFICES ASSUME refreshing PROVE \E u \in Threads : Pending(u)'
  BY DEF FlagHasAnOwner
<1>2. PICK u \in Threads : Pending(u)
  BY <1>1 DEF FlagHasAnOwner
<1>3. Pending(u)'
  BY <1>2, Moved, KindsOfThread DEF Pending, At
<1>4. QED
  BY <1>3

LEMMA FlagStep ==
    ASSUME ~StartCanFail, TypeOK, FlagHasAnOwner, [Next]_vars
    PROVE  FlagHasAnOwner'
<1> USE DEF At
<1>1. ASSUME NEW t \in Clients, Call(t) \/ SchemaStep(t) \/ ChildStep(t) \/ Invalidate(t)
      PROVE  FlagHasAnOwner'
  <2>1. \E place : Goto(t, place)
    BY <1>1 DEF Call, SchemaStep, ReadOwn, ReadOwnAge, FirstSchema, ChildStep, CheckChildren,
                CopyChildren, CheckChildSchemas, CheckChildSchemasAgain, CopyFirstChildren,
                Invalidate, Return
  <2>2. pc[t] # "begin.start" /\ refreshing' = refreshing
    BY <1>1 DEF Call, SchemaStep, ReadOwn, ReadOwnAge, FirstSchema, ChildStep, CheckChildren,
                CopyChildren, CheckChildSchemas, CheckChildSchemasAgain, CopyFirstChildren,
                Invalidate, Resting
  <2>3. QED
    BY <2>1, <2>2, OwnerStays, KindsOfThread
<1>2. ASSUME NEW t \in Clients, ReadCached(t) \/ ReadAge(t) \/ ReadStale(t) \/ FirstLoad(t)
      PROVE  FlagHasAnOwner'
  <2>1. (\E place : Goto(t, place)) /\ pc[t] # "begin.start" /\ refreshing' = refreshing
    BY <1>2 DEF ReadCached, ReadAge, ReadStale, FirstLoad, Return
  <2>2. QED
    BY <2>1, OwnerStays, KindsOfThread
<1>3. ASSUME NEW t \in Clients, BeginRefresh(t)
      PROVE  FlagHasAnOwner'
  <2>1. CASE MayBegin
    <3>1. pc'[t] = "begin.start" /\ t \in Threads
      BY <1>3, <2>1, Moved, KindsOfThread DEF BeginRefresh
    <3>2. QED
      BY <3>1 DEF FlagHasAnOwner, Pending
  <2>2. CASE ~MayBegin
    BY <1>3, <2>2, OwnerStays, KindsOfThread DEF BeginRefresh, Return
  <2>3. QED
    BY <2>1, <2>2
<1>4. ASSUME NEW t \in Clients, StartThread(t)
      PROVE  FlagHasAnOwner'
  <2>1. PICK r \in Refreshers :
           pc' = [pc EXCEPT ![r] = "run.lock", ![t] = AfterReturn(t)]
    BY <1>4 DEF StartThread
  <2>2. r \in Threads /\ r # t /\ pc'[r] = "run.lock"
    BY <2>1, KindsOfThread DEF TypeOK, Placed
  <2>3. QED
    BY <2>2 DEF FlagHasAnOwner, Pending
<1>5. ASSUME NEW t \in Threads, FetchStep(t)
      PROVE  FlagHasAnOwner'
  <2>1. CASE FinishRefresh(t)
    BY <2>1 DEF FinishRefresh, FlagHasAnOwner
  <2>2. CASE StampSchema(t)
    <3>1. t \notin Refreshers
      BY <2>2, KindsOfThread DEF StampSchema, FirstFetch
    <3>2. QED
      BY <2>2, <3>1, OwnerStays DEF StampSchema, Return
  <2>3. CASE ~FinishRefresh(t) /\ ~StampSchema(t)
    <3>1. /\ \E place : Goto(t, place) /\ place # "idle"
          /\ pc[t] # "begin.start" /\ refreshing' = refreshing
      BY <1>5, <2>3 DEF FetchStep, AnswerFull, AnswerFirst, FetchFails, TableFails,
                        PublishTable, StampTable, DropSchema, PublishSchema, Raise
    <3>2. QED
      BY <3>1, OwnerStays
  <2>4. QED
    BY <2>1, <2>2, <2>3
<1>6. ASSUME NEW r \in Refreshers, RefresherStep(r)
      PROVE  FlagHasAnOwner'
  <2>1. CASE RunRefresh(r)
    BY <2>1, OwnerStays, KindsOfThread DEF RunRefresh
  <2>2. CASE ClearFlag(r)
    BY <2>2 DEF ClearFlag, FlagHasAnOwner
  <2>3. QED
    BY <1>6, <2>1, <2>2 DEF RefresherStep
<1>7. CASE Tick \/ Upstream \/ Quiet \/ UNCHANGED vars
  BY <1>7 DEF Tick, Upstream, Quiet, vars, FlagHasAnOwner, Pending
<1>8. ASSUME NEW t \in Clients
      PROVE  ~StartFails(t)
  BY DEF StartFails
<1>9. QED
  BY <1>1, <1>2, <1>3, <1>4, <1>5, <1>6, <1>7, <1>8 DEF Next, ClientStep, LoadStep

(* Where every thread that is asked for starts, the flag that keeps other  *)
(* refreshes away is up only while somebody is going to take it down       *)
(* (_begin_background_refresh).                                            *)
THEOREM FlagIsOwned ==
    ASSUME ~StartCanFail
    PROVE  Spec => []FlagHasAnOwner
<1>1. Init => FlagHasAnOwner
  BY DEF Init, FlagHasAnOwner
<1>2. TypeOK /\ FlagHasAnOwner /\ [Next]_vars => FlagHasAnOwner'
  BY FlagStep
<1>3. QED
  BY <1>1, <1>2, TypeCorrect, PTL DEF Spec

-------------------------------------------------------------------------------
(* The children.  Between AnswerFull and PublishTable they are already     *)
(* those of the next table.                                                *)

Matched == \/ cached = Nothing \/ children = cached
           \/ \E t \in Threads : pc[t] = "full.table"

LEMMA MatchedStays ==
    ASSUME TypeOK, Matched, NEW t \in Threads, NEW place, Goto(t, place),
           pc[t] # "full.table", UNCHANGED <<cached, children>>
    PROVE  Matched'
  BY Moved DEF Matched

LEMMA MatchedStep ==
    ASSUME Misshapen = {}, TypeOK, OrderInv, Matched, [Next]_vars
    PROVE  Matched'
<1> USE DEF At, store
<1>1. ASSUME NEW t \in Clients, Call(t) \/ SchemaStep(t) \/ ChildStep(t)
      PROVE  Matched'
  <2>1. (\E place : Goto(t, place)) /\ pc[t] # "full.table" /\ UNCHANGED <<cached, children>>
    BY <1>1 DEF Call, SchemaStep, ReadOwn, ReadOwnAge, FirstSchema, ChildStep, CheckChildren,
                CopyChildren, CheckChildSchemas, CheckChildSchemasAgain, CopyFirstChildren,
                Return, Resting
  <2>2. QED
    BY <2>1, MatchedStays, KindsOfThread
<1>2. ASSUME NEW t \in Clients, LoadStep(t)
      PROVE  Matched'
  <2>1. CASE StartThread(t)
    <3>1. PICK r \in Refreshers :
             /\ pc[r] = "idle"
             /\ pc' = [pc EXCEPT ![r] = "run.lock", ![t] = AfterReturn(t)]
      BY <2>1 DEF StartThread
    <3>2. \A u \in Threads : pc[u] = "full.table" => pc'[u] = "full.table"
      BY <2>1, <3>1, KindsOfThread DEF StartThread, TypeOK, Placed
    <3>3. QED
      BY <2>1, <3>2 DEF StartThread, Matched
  <2>2. CASE ~StartThread(t)
    <3>1. (\E place : Goto(t, place)) /\ pc[t] # "full.table" /\ UNCHANGED <<cached, children>>
      BY <1>2, <2>2 DEF LoadStep, ReadCached, ReadAge, ReadStale, FirstLoad, BeginRefresh,
                        StartFails, Return
    <3>2. QED
      BY <3>1, MatchedStays, KindsOfThread
  <2>3. QED
    BY <2>1, <2>2
<1>3. ASSUME NEW t \in Clients, Invalidate(t)
      PROVE  Matched'
  BY <1>3 DEF Invalidate, Matched
<1>4. ASSUME NEW t \in Threads, FetchStep(t)
      PROVE  Matched'
  <2>1. CASE AnswerFull(t)
    BY <2>1, Moved DEF AnswerFull, Matched
  <2>2. CASE PublishTable(t)
    <3>1. children = seen[t]
      BY <2>2 DEF PublishTable, OrderInv, FetchOrder
    <3>2. QED
      BY <2>2, <3>1 DEF PublishTable, Matched
  <2>3. CASE TableFails(t)
    BY <2>3 DEF TableFails
  <2>4. CASE ~AnswerFull(t) /\ ~PublishTable(t) /\ ~TableFails(t)
    <3>1. (\E place : Goto(t, place)) /\ pc[t] # "full.table" /\ UNCHANGED <<cached, children>>
      BY <1>4, <2>4 DEF FetchStep, AnswerFirst, FetchFails, StampTable, DropSchema,
                        FinishRefresh, PublishSchema, StampSchema, Raise, Return
    <3>2. QED
      BY <3>1, MatchedStays
  <2>5. QED
    BY <2>1, <2>2, <2>3, <2>4
<1>5. ASSUME NEW r \in Refreshers, RefresherStep(r)
      PROVE  Matched'
  <2>1. (\E place : Goto(r, place)) /\ pc[r] # "full.table" /\ UNCHANGED <<cached, children>>
    BY <1>5 DEF RefresherStep, RunRefresh, ClearFlag
  <2>2. QED
    BY <2>1, MatchedStays, KindsOfThread
<1>6. CASE Tick \/ Upstream \/ Quiet \/ UNCHANGED vars
  BY <1>6 DEF Tick, Upstream, Quiet, vars, Matched
<1>7. QED
  BY <1>1, <1>2, <1>3, <1>4, <1>5, <1>6 DEF Next, ClientStep

(* A source that starts empty, and whose rows always make a table, serves  *)
(* children with the parent they were read with (ChildSource).             *)
THEOREM ChildrenAreIts ==
    ASSUME ~Primed, Misshapen = {}
    PROVE  Spec => []ChildrenMatchParent
<1>1. Init => Matched
  BY DEF Init, Matched
<1>2. TypeOK /\ OrderInv /\ Matched /\ [Next]_vars => Matched'
  BY MatchedStep
<1>3. LockInv /\ Matched => ChildrenMatchParent
  <2>1. "full.table" \in InLock
    BY DEF InLock, FullFetch
  <2>2. QED
    BY <2>1, ConstantsAssumption DEF LockInv, Matched, ChildrenMatchParent
<1>4. QED
  BY <1>1, <1>2, <1>3, OrderInit, OrderStep, TypeCorrect, LockCorrect, PTL DEF Spec

-------------------------------------------------------------------------------
(* No needless read.  While a refresh is promised the table is not fresh   *)
(* and there is one, which nobody reading for the first time runs beside:  *)
(* who waits for a first read finds nothing, or what was just read.        *)

AboutToRead(t) == pc[t] \in {"begin.start", "run.lock"}

PromiseInv ==
    /\ \A t \in Threads : Pending(t) => refreshing /\ cached # Nothing
    /\ \A t, u \in Threads : Pending(t) /\ Pending(u) => t = u
    /\ \A t \in Threads, u \in Clients : Pending(t) => pc[u] \notin FullFetch
    /\ \A t \in Threads : Pending(t) /\ AboutToRead(t) => ~Fresh

WaiterInv ==
    /\ \A t \in Clients : pc[t] # "forget"
    /\ \A t \in Clients : pc[t] = "begin.lock" => cached # Nothing
    /\ \A t \in Clients : pc[t] = "load.lock" /\ cached # Nothing =>
          Fresh \/ \E u \in Threads : pc[u] = "full.stamp"

RefreshInv == PromiseInv /\ WaiterInv

Undisturbed == UNCHANGED <<cached, fetchedAt, now, refreshing>>

(* A thread that neither promises a refresh, nor waits, nor starts or ends *)
(* a full read.                                                            *)
LEMMA PlainMove ==
    ASSUME TypeOK, RefreshInv, NEW t \in Threads, NEW place, Goto(t, place), Undisturbed,
           place \notin {"begin.lock", "begin.start", "load.lock", "forget", "run.lock"},
           pc[t] # "full.stamp",
           t \in Clients /\ place \in FullFetch => pc[t] \in FullFetch,
           t \in Refreshers => pc[t] # "idle"
    PROVE  RefreshInv'
<1>1. \A u \in Threads : pc'[u] = IF u = t THEN place ELSE pc[u]
  BY Moved
<1>2. Fresh' <=> Fresh
  BY DEF Undisturbed, Fresh
<1>3. \A u \in Threads : Pending(u)' => Pending(u)
  BY <1>1, KindsOfThread DEF Pending, At
<1>4. PromiseInv'
  <2>1. \A u \in Threads : Pending(u)' => (refreshing /\ cached # Nothing)'
    BY <1>3 DEF RefreshInv, PromiseInv, Undisturbed
  <2>2. \A v, u \in Threads : Pending(v)' /\ Pending(u)' => v = u
    BY <1>3 DEF RefreshInv, PromiseInv
  <2>3. \A v \in Threads, u \in Clients : Pending(v)' => pc'[u] \notin FullFetch
    BY <1>1, <1>3, KindsOfThread DEF RefreshInv, PromiseInv
  <2>4. \A v \in Threads : Pending(v)' /\ AboutToRead(v)' => ~Fresh'
    BY <1>1, <1>2, <1>3 DEF RefreshInv, PromiseInv, AboutToRead
  <2>5. QED
    BY <2>1, <2>2, <2>3, <2>4 DEF PromiseInv
<1>5. WaiterInv'
  <2>1. \A u \in Clients : pc'[u] # "forget" /\ (pc'[u] = "begin.lock" => cached' # Nothing)
    BY <1>1, KindsOfThread DEF RefreshInv, WaiterInv, Undisturbed
  <2>2. \A u \in Threads : pc[u] = "full.stamp" => pc'[u] = "full.stamp"
    BY <1>1
  <2>3. \A u \in Clients : pc'[u] = "load.lock" /\ cached' # Nothing =>
           Fresh' \/ \E v \in Threads : pc'[v] = "full.stamp"
    BY <1>1, <1>2, <2>2, KindsOfThread DEF RefreshInv, WaiterInv, Undisturbed
  <2>4. QED
    BY <2>1, <2>3 DEF WaiterInv
<1>6. QED
  BY <1>4, <1>5 DEF RefreshInv

LEMMA ReturnsAre ==
    ASSUME NEW t \in Threads
    PROVE  /\ AfterReturn(t) \in {"idle", "children.copy", "cs.again", "done"}
           /\ AfterReturn(t) \notin FullFetch
           /\ AfterReturn(t) \notin {"begin.lock", "begin.start", "load.lock", "forget", "run.lock"}
  BY AfterReturnPlace DEF FullFetch

LEMMA RefreshClient ==
    ASSUME TypeOK, LockInv, RefreshInv, "invalidate" \notin Ops,
           NEW t \in Clients,
           Call(t) \/ SchemaStep(t) \/ ChildStep(t) \/ Invalidate(t)
    PROVE  RefreshInv'
<1> USE DEF At, Undisturbed, store, world
<1>1. t \in Threads /\ t \notin Refreshers
  BY KindsOfThread
<1>2. CASE Call(t)
  <2>1. PICK o \in Ops : Goto(t, FirstPlace(o))
    BY <1>2 DEF Call
  <2>2. FirstPlace(o) \in {"children.check", "cs.check", "fresh.read"}
    BY <2>1 DEF FirstPlace
  <2>3. QED
    BY <1>1, <1>2, <2>1, <2>2, PlainMove DEF Call, FullFetch, Resting
<1>3. CASE SchemaStep(t)
  BY <1>1, <1>3, PlainMove, ReturnsAre
     DEF SchemaStep, ReadOwn, ReadOwnAge, FirstSchema, Return, FullFetch
<1>4. CASE ChildStep(t)
  BY <1>1, <1>4, PlainMove
     DEF ChildStep, CheckChildren, CopyChildren, CheckChildSchemas, CheckChildSchemasAgain,
         CopyFirstChildren, FullFetch
<1>5. CASE Invalidate(t)
  BY <1>5 DEF Invalidate, RefreshInv, WaiterInv
<1>6. QED
  BY <1>2, <1>3, <1>4, <1>5

(* A query promises a refresh of what it saw expire.                       *)
LEMMA RefreshLoad ==
    ASSUME TypeOK, LockInv, RefreshInv, NEW t \in Clients, LoadStep(t)
    PROVE  RefreshInv'
<1> USE DEF At, Undisturbed, store, world
<1>1. t \in Threads /\ t \notin Refreshers
  BY KindsOfThread
<1>2. CASE ReadCached(t) \/ ReadAge(t) \/ StartFails(t)
  BY <1>1, <1>2, PlainMove, ReturnsAre, NotFreshPlace
     DEF ReadCached, ReadAge, StartFails, Return, FullFetch
<1>3. CASE ReadStale(t)
  <2>1. /\ Undisturbed /\ pc[t] = "stale.read"
        /\ \A u \in Threads : pc'[u] = IF u = t THEN IF cached = Nothing THEN "load.lock"
                                                     ELSE "begin.lock"
                                       ELSE pc[u]
    BY <1>1, <1>3, Moved DEF ReadStale
  <2>2. PromiseInv'
    BY <1>1, <2>1, KindsOfThread
       DEF RefreshInv, PromiseInv, Pending, AboutToRead, Fresh, FullFetch
  <2>3. WaiterInv'
    BY <1>1, <2>1, KindsOfThread DEF RefreshInv, WaiterInv, Fresh
  <2>4. QED
    BY <2>2, <2>3 DEF RefreshInv
<1>4. CASE FirstLoad(t)
  <2>1. CASE Fresh
    BY <1>1, <1>4, <2>1, PlainMove, ReturnsAre DEF FirstLoad, Return
  <2>2. CASE ~Fresh
    <3>1. /\ Undisturbed /\ pc[t] = "load.lock" /\ lock = NoThread
          /\ \A u \in Threads : pc'[u] = IF u = t THEN "full.fetch" ELSE pc[u]
      BY <1>1, <1>4, <2>2, Moved DEF FirstLoad
    <3>2. \A u \in Threads : pc[u] # "full.stamp"
      BY <3>1, ConstantsAssumption DEF LockInv, InLock, FullFetch
    <3>3. cached = Nothing
      BY <2>2, <3>1, <3>2 DEF RefreshInv, WaiterInv
    <3>4. \A u \in Threads : ~Pending(u) /\ ~Pending(u)'
      BY <1>1, <3>1, <3>3 DEF RefreshInv, PromiseInv, Pending
    <3>5. PromiseInv'
      BY <3>4 DEF PromiseInv
    <3>6. WaiterInv'
      BY <1>1, <3>1, <3>3, KindsOfThread DEF RefreshInv, WaiterInv
    <3>7. QED
      BY <3>5, <3>6 DEF RefreshInv
  <2>3. QED
    BY <2>1, <2>2
<1>5. CASE BeginRefresh(t)
  <2>1. CASE ~MayBegin
    BY <1>1, <1>5, <2>1, PlainMove, ReturnsAre DEF BeginRefresh, Return
  <2>2. CASE MayBegin
    <3>1. /\ UNCHANGED <<cached, fetchedAt, now>> /\ refreshing' = TRUE
          /\ pc[t] = "begin.lock" /\ lock = NoThread /\ ~refreshing /\ ~Fresh
          /\ \A u \in Threads : pc'[u] = IF u = t THEN "begin.start" ELSE pc[u]
      BY <1>1, <1>5, <2>2, Moved DEF BeginRefresh, MayBegin
    <3>2. \A u \in Threads : pc[u] \notin FullFetch
      BY <3>1, ConstantsAssumption DEF LockInv, InLock
    <3>3. \A u \in Threads : ~Pending(u)
      BY <3>1 DEF RefreshInv, PromiseInv
    <3>4. \A u \in Threads : Pending(u)' <=> u = t
      BY <1>1, <3>1, <3>3, KindsOfThread DEF Pending
    <3>5. cached # Nothing
      BY <3>1 DEF RefreshInv, WaiterInv
    <3>6. PromiseInv'
      BY <3>1, <3>2, <3>4, <3>5, KindsOfThread DEF PromiseInv, Fresh, FullFetch
    <3>7. WaiterInv'
      BY <1>1, <3>1, <3>2, KindsOfThread DEF RefreshInv, WaiterInv, Fresh, FullFetch
    <3>8. QED
      BY <3>6, <3>7 DEF RefreshInv
  <2>3. QED
    BY <2>1, <2>2
<1>6. CASE StartThread(t)
  <2>1. PICK r \in Refreshers :
           /\ pc[r] = "idle"
           /\ pc' = [pc EXCEPT ![r] = "run.lock", ![t] = AfterReturn(t)]
    BY <1>6 DEF StartThread
  <2>2. Undisturbed /\ pc[t] = "begin.start" /\ r \in Threads /\ r # t
    BY <1>1, <1>6, <2>1, KindsOfThread DEF StartThread
  <2>3. \A u \in Threads : pc'[u] = IF u = t THEN AfterReturn(t)
                                    ELSE IF u = r THEN "run.lock" ELSE pc[u]
    BY <1>1, <2>1, <2>2 DEF TypeOK, Placed
  <2>4. Pending(t) /\ ~Pending(r) /\ \A u \in Threads : Pending(u)' <=> u = r
    <3>1. Pending(t) /\ AfterReturn(t) # "begin.start"
      BY <1>1, <2>2, ReturnsAre DEF Pending
    <3>2. \A u \in Threads : Pending(u) => u = t
      BY <1>1, <3>1 DEF RefreshInv, PromiseInv
    <3>3. ~Pending(r) /\ Pending(r)'
      <4>1. r \notin Clients /\ pc'[r] = "run.lock"
        BY <2>1, <2>2, <2>3, KindsOfThread
      <4>2. QED
        BY <2>1, <4>1 DEF Pending
    <3>4. ASSUME NEW u \in Threads, Pending(u)', u # r
          PROVE  FALSE
      <4>1. u # t
        BY <1>1, <2>3, <3>1, <3>4 DEF Pending
      <4>2. Pending(u)
        BY <2>3, <3>4, <4>1 DEF Pending
      <4>3. QED
        BY <3>2, <4>1, <4>2
    <3>5. QED
      BY <3>1, <3>3, <3>4
  <2>5. PromiseInv'
    <3>1. refreshing /\ cached # Nothing /\ ~Fresh /\ \A u \in Clients : pc[u] \notin FullFetch
      BY <1>1, <2>2, <2>4 DEF RefreshInv, PromiseInv, AboutToRead
    <3>2. \A u \in Clients : pc'[u] \notin FullFetch
      BY <1>1, <2>3, <3>1, KindsOfThread, ReturnsAre DEF FullFetch
    <3>3. QED
      BY <2>2, <2>4, <3>1, <3>2 DEF PromiseInv, Fresh
  <2>6. WaiterInv'
    <3>1. \A u \in Threads : pc[u] = "full.stamp" => pc'[u] = "full.stamp"
      BY <2>1, <2>2, <2>3
    <3>2. \A u \in Clients : pc'[u] = pc[u] \/ (u = t /\ pc'[u] = AfterReturn(t))
      BY <2>1, <2>3, KindsOfThread
    <3>3. QED
      BY <1>1, <2>2, <3>1, <3>2, ReturnsAre DEF RefreshInv, WaiterInv, Fresh
  <2>7. QED
    BY <2>5, <2>6 DEF RefreshInv
<1>7. QED
  BY <1>2, <1>3, <1>4, <1>5, <1>6 DEF LoadStep

(* The steps of a full read are those of the one refresh promised, or of a *)
(* first read while none is.                                               *)
LEMMA RefreshFetch ==
    ASSUME TTL # 0, TypeOK, LockInv, OrderInv, RefreshInv, NEW t \in Threads, FetchStep(t)
    PROVE  RefreshInv'
<1> USE DEF At, Undisturbed, store, world, history
<1>1. ASSUME NEW u \in Threads, Pending(u), pc[t] \in FullFetch
      PROVE  u = t /\ t \in Refreshers
  <2>1. t \in Refreshers
    BY <1>1, KindsOfThread DEF RefreshInv, PromiseInv
  <2>2. Pending(t)
    BY <1>1, <2>1 DEF Pending, FullFetch
  <2>3. QED
    BY <1>1, <2>1, <2>2 DEF RefreshInv, PromiseInv
<1>2. CASE PublishTable(t)
  <2>1. /\ UNCHANGED <<fetchedAt, now, refreshing>> /\ cached' = seen[t] /\ pc[t] = "full.table"
        /\ \A u \in Threads : pc'[u] = IF u = t THEN "full.stamp" ELSE pc[u]
    BY <1>2, Moved DEF PublishTable
  <2>2. cached' # Nothing /\ pc[t] \in FullFetch
    BY <2>1 DEF OrderInv, FetchOrder, Carrying, FullFetch
  <2>3. \A u \in Threads : Pending(u)' => Pending(u) /\ u = t
    BY <1>1, <2>1, <2>2 DEF Pending
  <2>4. PromiseInv'
    <3>1. \A u \in Threads : Pending(u)' => refreshing' /\ cached' # Nothing
      BY <2>1, <2>2, <2>3 DEF RefreshInv, PromiseInv
    <3>2. \A v \in Threads, u \in Clients : Pending(v)' => pc'[u] \notin FullFetch
      BY <1>1, <2>1, <2>2, <2>3, KindsOfThread DEF RefreshInv, PromiseInv
    <3>3. QED
      BY <2>1, <2>3, <3>1, <3>2 DEF PromiseInv, AboutToRead
  <2>5. WaiterInv'
    BY <2>1, <2>2, KindsOfThread DEF RefreshInv, WaiterInv
  <2>6. QED
    BY <2>4, <2>5 DEF RefreshInv
<1>3. CASE StampTable(t)
  <2>1. /\ UNCHANGED <<cached, now, refreshing>> /\ fetchedAt' = now /\ pc[t] = "full.stamp"
        /\ \A u \in Threads : pc'[u] = IF u = t THEN "full.drop" ELSE pc[u]
    BY <1>3, Moved DEF StampTable
  <2>2. cached # Nothing /\ pc[t] \in FullFetch
    BY <2>1 DEF OrderInv, FetchOrder, Carrying, Published, FullFetch
  <2>3. Fresh'
    BY <2>1, <2>2, ConstantsAssumption DEF Fresh, TypeOK
  <2>4. \A u \in Threads : Pending(u)' => Pending(u) /\ u = t
    BY <1>1, <2>1, <2>2 DEF Pending
  <2>5. PromiseInv'
    <3>1. \A v \in Threads, u \in Clients : Pending(v)' => pc'[u] \notin FullFetch
      BY <1>1, <2>1, <2>2, <2>4, KindsOfThread DEF RefreshInv, PromiseInv
    <3>2. \A u \in Threads : Pending(u)' => refreshing' /\ cached' # Nothing
      BY <2>1, <2>4 DEF RefreshInv, PromiseInv
    <3>3. QED
      BY <2>1, <2>4, <3>1, <3>2 DEF PromiseInv, AboutToRead
  <2>6. WaiterInv'
    BY <2>1, <2>3, KindsOfThread DEF RefreshInv, WaiterInv
  <2>7. QED
    BY <2>5, <2>6 DEF RefreshInv
<1>4. CASE FinishRefresh(t)
  <2>1. /\ UNCHANGED <<cached, fetchedAt, now>> /\ pc[t] = "full.finish"
        /\ \A u \in Threads : pc'[u] = IF u = t THEN AfterReturn(t) ELSE pc[u]
    BY <1>4, Moved DEF FinishRefresh, Return
  <2>2. t \in Refreshers => AfterReturn(t) = "idle"
    BY AfterReturnPlace
  <2>3. \A u \in Threads : ~Pending(u)'
    BY <1>1, <2>1, <2>2, ReturnsAre DEF Pending, FullFetch
  <2>4. WaiterInv'
    BY <2>1, KindsOfThread, ReturnsAre DEF RefreshInv, WaiterInv, Fresh
  <2>5. QED
    BY <2>3, <2>4 DEF RefreshInv, PromiseInv
<1>5. CASE AnswerFull(t) \/ DropSchema(t)
  <2>1. /\ Undisturbed /\ pc[t] \in FullFetch /\ pc[t] # "full.stamp"
        /\ \E place \in {"full.table", "full.finish"} : Goto(t, place)
    BY <1>5 DEF AnswerFull, DropSchema, FullFetch
  <2>2. t \in Refreshers => pc[t] # "idle"
    BY <2>1 DEF FullFetch
  <2>3. QED
    BY <2>1, <2>2, PlainMove
<1>6. CASE FetchFails(t) \/ TableFails(t)
  <2>1. /\ Undisturbed /\ pc[t] # "full.stamp" /\ pc[t] # "idle"
        /\ \E place \in {"run.clear", "raised"} : Goto(t, place)
    BY <1>6 DEF FetchFails, TableFails, Raise
  <2>2. QED
    BY <2>1, PlainMove DEF FullFetch
<1>7. CASE AnswerFirst(t) \/ PublishSchema(t) \/ StampSchema(t)
  <2>1. /\ Undisturbed /\ pc[t] # "full.stamp" /\ pc[t] # "idle"
        /\ \E place \in {"first.table", "first.stamp", AfterReturn(t)} : Goto(t, place)
    BY <1>7 DEF AnswerFirst, PublishSchema, StampSchema, Return
  <2>2. QED
    BY <2>1, PlainMove, ReturnsAre DEF FullFetch
<1>8. QED
  BY <1>2, <1>3, <1>4, <1>5, <1>6, <1>7 DEF FetchStep

LEMMA RefreshThread ==
    ASSUME TypeOK, RefreshInv, NEW r \in Refreshers, RefresherStep(r)
    PROVE  RefreshInv'
<1> USE DEF At, Undisturbed, store, world, history
<1>1. r \in Threads /\ r \notin Clients
  BY KindsOfThread
<1>2. CASE RunRefresh(r)
  BY <1>1, <1>2, PlainMove DEF RunRefresh
<1>3. CASE ClearFlag(r)
  <2>1. /\ UNCHANGED <<cached, fetchedAt, now>> /\ pc[r] = "run.clear"
        /\ \A u \in Threads : pc'[u] = IF u = r THEN "idle" ELSE pc[u]
    BY <1>1, <1>3, Moved DEF ClearFlag
  <2>2. \A u \in Threads : ~Pending(u)'
    <3>1. \A u \in Threads : Pending(u) => u = r
      BY <1>1, <2>1 DEF RefreshInv, PromiseInv, Pending
    <3>2. QED
      BY <1>1, <2>1, <3>1 DEF Pending
  <2>3. WaiterInv'
    BY <1>1, <2>1, KindsOfThread DEF RefreshInv, WaiterInv, Fresh
  <2>4. QED
    BY <2>2, <2>3 DEF RefreshInv, PromiseInv
<1>4. QED
  BY <1>2, <1>3 DEF RefresherStep

LEMMA RefreshWorld ==
    ASSUME PromptWaiters, TypeOK, RefreshInv, Tick \/ Upstream \/ Quiet \/ UNCHANGED vars
    PROVE  RefreshInv'
<1> USE DEF store, world, history
<1>1. CASE Tick
  <2>1. UNCHANGED <<pc, cached, fetchedAt, refreshing>> /\ now' = now + 1 /\ ~WaiterOutlasted
    BY <1>1 DEF Tick
  <2>2. ~Fresh => ~Fresh'
    BY <2>1, ConstantsAssumption DEF Fresh, TypeOK
  <2>3. PromiseInv'
    BY <2>1, <2>2 DEF RefreshInv, PromiseInv, Pending, At, AboutToRead
  <2>4. WaiterInv'
    BY <2>1 DEF RefreshInv, WaiterInv, WaiterOutlasted, At
  <2>5. QED
    BY <2>3, <2>4 DEF RefreshInv
<1>2. CASE Upstream \/ Quiet \/ UNCHANGED vars
  <2>1. UNCHANGED <<pc, cached, fetchedAt, refreshing, now>>
    BY <1>2 DEF Upstream, Quiet, vars
  <2>2. PromiseInv' /\ WaiterInv'
    BY <2>1 DEF RefreshInv, PromiseInv, WaiterInv, Pending, At, AboutToRead, Fresh
  <2>3. QED
    BY <2>2 DEF RefreshInv
<1>3. QED
  BY <1>1, <1>2

LEMMA RefreshStep ==
    ASSUME PromptWaiters, "invalidate" \notin Ops, TTL # 0,
           TypeOK, LockInv, OrderInv, RefreshInv, [Next]_vars
    PROVE  RefreshInv'
  BY RefreshClient, RefreshLoad, RefreshFetch, RefreshThread, RefreshWorld
     DEF Next, ClientStep

(* Who begins a full read is a first load or the thread of a refresh.      *)
LEMMA WhoBegins ==
    ASSUME TypeOK, [Next]_vars, NEW u \in Threads, StartsFullRead(u)
    PROVE  \/ u \in Clients /\ FirstLoad(u) /\ ~Fresh
           \/ u \in Refreshers /\ RunRefresh(u)
<1> USE DEF At
<1>1. pc[u] # "full.fetch" /\ pc'[u] = "full.fetch"
  BY DEF StartsFullRead, InLock, FullFetch
<1>2. ASSUME NEW t \in Threads, NEW place, Goto(t, place), place # "full.fetch"
      PROVE  FALSE
  BY <1>1, <1>2, Moved
<1>3. ASSUME NEW t \in Clients, Call(t)
      PROVE  FALSE
  BY <1>2, <1>3, KindsOfThread, FirstPlacePlace DEF Call
<1>4. ASSUME NEW t \in Clients, SchemaStep(t) \/ ChildStep(t) \/ Invalidate(t)
      PROVE  FALSE
  BY <1>2, <1>4, KindsOfThread, ReturnsAre
     DEF SchemaStep, ReadOwn, ReadOwnAge, FirstSchema, ChildStep, CheckChildren,
         CopyChildren, CheckChildSchemas, CheckChildSchemasAgain, CopyFirstChildren,
         Invalidate, Return
<1>5. ASSUME NEW t \in Clients, LoadStep(t)
      PROVE  u = t /\ FirstLoad(t) /\ ~Fresh
  <2>1. CASE FirstLoad(t)
    <3>1. ~Fresh
      BY <1>2, <2>1, KindsOfThread, ReturnsAre DEF FirstLoad, Return
    <3>2. u = t
      BY <1>1, <2>1, <3>1, Moved, KindsOfThread DEF FirstLoad
    <3>3. QED
      BY <2>1, <3>1, <3>2
  <2>2. CASE StartThread(t)
    <3>1. PICK r \in Refreshers :
             pc' = [pc EXCEPT ![r] = "run.lock", ![t] = AfterReturn(t)]
      BY <2>2 DEF StartThread
    <3>2. AfterReturn(t) # "full.fetch"
      BY KindsOfThread, ReturnsAre
    <3>3. QED
      BY <1>1, <3>1, <3>2, KindsOfThread DEF TypeOK, Placed
  <2>3. CASE ReadCached(t) \/ ReadAge(t) \/ ReadStale(t) \/ BeginRefresh(t) \/ StartFails(t)
    BY <1>2, <2>3, KindsOfThread, ReturnsAre, NotFreshPlace
       DEF ReadCached, ReadAge, ReadStale, BeginRefresh, StartFails, Return
  <2>4. QED
    BY <1>5, <2>1, <2>2, <2>3 DEF LoadStep
<1>6. ASSUME NEW t \in Threads, FetchStep(t)
      PROVE  FALSE
  BY <1>2, <1>6, ReturnsAre
     DEF FetchStep, AnswerFull, AnswerFirst, FetchFails, TableFails, PublishTable,
         StampTable, DropSchema, FinishRefresh, PublishSchema, StampSchema, Raise, Return
<1>7. ASSUME NEW r \in Refreshers, RefresherStep(r)
      PROVE  u = r /\ RunRefresh(r)
  <2>1. ~ClearFlag(r)
    BY <1>2, KindsOfThread DEF ClearFlag
  <2>2. RunRefresh(r)
    BY <1>7, <2>1 DEF RefresherStep
  <2>3. u = r
    BY <1>1, <2>2, Moved, KindsOfThread DEF RunRefresh
  <2>4. QED
    BY <2>2, <2>3
<1>8. ~(Tick \/ Upstream \/ Quiet \/ UNCHANGED vars)
  BY <1>1 DEF Tick, Upstream, Quiet, vars
<1>9. QED
  BY <1>3, <1>4, <1>5, <1>6, <1>7, <1>8 DEF Next, ClientStep

Stamped == fetchedAt <= now

LEMMA StampedStep == TypeOK /\ Stamped /\ [Next]_vars => Stamped'
<1>1. SUFFICES ASSUME TypeOK, Stamped, Next \/ UNCHANGED vars PROVE Stamped'
  OBVIOUS
<1>2. \/ UNCHANGED <<fetchedAt, now>>
      \/ fetchedAt' = now /\ now' = now
      \/ fetchedAt' = 0 /\ now' = now
      \/ fetchedAt' = fetchedAt /\ now' = now + 1
  BY <1>1
     DEF Next, Call, ClientStep, LoadStep, SchemaStep, ChildStep, RefresherStep, FetchStep,
         ReadCached, ReadAge, ReadStale, FirstLoad, BeginRefresh, StartThread, StartFails,
         ReadOwn, ReadOwnAge, FirstSchema, CheckChildren, CopyChildren, CheckChildSchemas,
         CheckChildSchemasAgain, CopyFirstChildren, Invalidate, AnswerFull, AnswerFirst,
         FetchFails, TableFails, PublishTable, StampTable, DropSchema, FinishRefresh,
         PublishSchema, StampSchema, RunRefresh, ClearFlag, Tick, Upstream, Quiet,
         vars, store, world
<1>3. QED
  BY <1>1, <1>2 DEF Stamped, TypeOK

(* Where nobody waits for a first read longer than its table lasts, and    *)
(* nothing is invalidated, no full read is begun over a fresh table: the   *)
(* third fetch that _begin_background_refresh tells of does not happen.    *)
THEOREM NoNeedlessRead ==
    ASSUME PromptWaiters, "invalidate" \notin Ops
    PROVE  Spec => NoFullReadWhileFresh
<1>1. Init => Stamped
  BY ConstantsAssumption DEF Init, Stamped
<1>2. CASE TTL = 0
  <2>1. ASSUME TypeOK, Stamped, [Next]_vars
        PROVE  [\A t \in Threads : StartsFullRead(t) => ~Fresh]_vars
    BY <1>2, <2>1 DEF TypeOK, Stamped, Fresh
  <2>2. QED
    BY <1>1, <2>1, StampedStep, TypeCorrect, PTL DEF Spec, NoFullReadWhileFresh
<1>3. CASE TTL # 0
  <2>1. Init => RefreshInv
    <3>1. SUFFICES ASSUME Init PROVE RefreshInv
      OBVIOUS
    <3>2. \A t \in Threads : pc[t] = "idle" /\ ~Pending(t)
      BY <3>1, KindsOfThread, TypeInit DEF Init, Pending, At
    <3>3. QED
      BY <3>2, KindsOfThread, TypeInit, <3>1 DEF RefreshInv, PromiseInv, WaiterInv
  <2>2. TypeOK /\ LockInv /\ OrderInv /\ RefreshInv /\ [Next]_vars => RefreshInv'
    BY <1>3, RefreshStep
  <2>3. ASSUME TypeOK, RefreshInv, [Next]_vars
        PROVE  [\A t \in Threads : StartsFullRead(t) => ~Fresh]_vars
    <3>1. ASSUME NEW t \in Threads, StartsFullRead(t)
          PROVE  ~Fresh
      <4>1. CASE t \in Refreshers /\ RunRefresh(t)
        BY <2>3, <4>1 DEF RunRefresh, At, RefreshInv, PromiseInv, Pending, AboutToRead
      <4>2. QED
        BY <2>3, <3>1, <4>1, WhoBegins
    <3>2. QED
      BY <3>1
  <2>4. QED
    BY <2>1, <2>2, <2>3, OrderInit, OrderStep, TypeCorrect, LockCorrect, PTL
       DEF Spec, NoFullReadWhileFresh
<1>4. QED
  BY <1>2, <1>3
===============================================================================
