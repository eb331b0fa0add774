------------------------------ MODULE HttpSource ------------------------------
(***************************************************************************)
(* One HttpSource of http_source.py: a table fetched from a URL and        *)
(* remembered for TTL, shared by every client thread of the server.        *)
(*                                                                         *)
(* A table is the version of the upstream collection it was read from; the *)
(* child tables built from the arrays in its rows carry that version too.  *)
(* The clock stands for time.monotonic.  Every assignment to a field that  *)
(* another thread reads without the lock is a step of its own, so that the *)
(* reader can be between the two.  The mirrors one fetch races and the     *)
(* pages it reads are in HttpPaging; here a fetch answers or fails.        *)
(***************************************************************************)
EXTENDS Naturals, FiniteSets

CONSTANTS
    Clients,        \* the server's threads, one per connection
    Refreshers,     \* the identities background refresh threads may have
    NoThread,       \* the lock's holder when nobody holds it
    TTL,            \* how long a table stays fresh
    Ops,            \* the operations the clients call
    Primed,         \* TRUE: discovery seeded the cache (HttpSource.prime)
    Misshapen,      \* versions whose rows expand but do not make a table
    PromptWaiters,  \* TRUE: a waiting first load outlasts no expiry
    StartCanFail,   \* TRUE: the system may refuse a new thread
    MaxTime, MaxVersion, MaxCalls   \* bounds of the model

Threads  == Clients \cup Refreshers
Nothing  == 0
Versions == 1 .. MaxVersion
Tables   == Versions \cup {Nothing}
Operations == {"load", "schema", "children", "child_schemas", "invalidate"}

ASSUME ConstantsAssumption ==
    /\ NoThread \notin Threads
    /\ Clients \cap Refreshers = {}
    /\ TTL \in Nat /\ MaxTime \in Nat /\ MaxVersion \in Nat \ {0}
    /\ MaxCalls \in Nat
    /\ Ops \subseteq Operations
    /\ Misshapen \subseteq Versions
    /\ Primed \in BOOLEAN
    /\ PromptWaiters \in BOOLEAN /\ StartCanFail \in BOOLEAN

VARIABLES
    now,            \* the clock
    remote,         \* the version the upstream serves
    cached, fetchedAt, schema, schemaAt, children, schemaChildren,
    refreshing, lock,
    pc,             \* where each thread is
    op,             \* the operation each client is in
    seen,           \* what the thread has read and still holds in a local
    settled,        \* history: the last full read that gave the lock back
    floor,          \* history: settled when the client's call began
    calls           \* how many calls have begun

store   == <<cached, fetchedAt, schema, schemaAt, children, schemaChildren>>
world   == <<now, remote>>
history == <<settled, floor, calls, op>>
vars    == <<world, store, refreshing, lock, pc, seen, history>>

Resting     == {"idle", "done", "raised"}
FullFetch   == {"full.fetch", "full.table", "full.stamp", "full.drop",
                "full.finish"}
FirstFetch  == {"first.fetch", "first.table", "first.stamp"}
InLock      == FullFetch \cup FirstFetch
ClientPlaces == Resting \cup InLock \cup
    {"fresh.read", "fresh.age", "stale.read", "begin.lock", "begin.start",
     "load.lock", "own.read", "own.age", "schema.lock", "children.check",
     "children.copy", "cs.check", "cs.again", "cs.first", "forget"}
RefresherPlaces == {"idle", "run.lock", "run.clear"} \cup FullFetch

Fresh == cached # Nothing /\ now - fetchedAt < TTL

Placed ==
    /\ pc \in [Threads -> ClientPlaces \cup RefresherPlaces]
    /\ \A t \in Clients : pc[t] \in ClientPlaces
    /\ \A r \in Refreshers : pc[r] \in RefresherPlaces

TypeOK ==
    /\ now \in Nat /\ remote \in Versions
    /\ cached \in Tables /\ schema \in Tables
    /\ children \in Tables /\ schemaChildren \in Tables
    /\ fetchedAt \in Nat /\ schemaAt \in Nat
    /\ refreshing \in BOOLEAN
    /\ lock \in Threads \cup {NoThread}
    /\ Placed
    /\ op \in [Clients -> Ops \cup {"none"}]
    /\ seen \in [Threads -> Tables]
    /\ settled \in Tables
    /\ floor \in [Clients -> Tables]
    /\ calls \in Nat

(* A primed source starts with the crawl's table and no child tables; the  *)
(* clock starts past TTL, so that the fields' initial 0.0 is long ago.     *)
Init ==
    /\ now = TTL /\ remote = 1
    /\ cached = IF Primed THEN 1 ELSE Nothing
    /\ fetchedAt = IF Primed THEN now ELSE 0
    /\ schema = Nothing /\ schemaAt = 0
    /\ children = Nothing /\ schemaChildren = Nothing
    /\ refreshing = FALSE /\ lock = NoThread
    /\ pc = [t \in Threads |-> "idle"]
    /\ op = [t \in Clients |-> "none"]
    /\ seen = [t \in Threads |-> Nothing]
    /\ settled = cached
    /\ floor = [t \in Clients |-> Nothing]
    /\ calls = 0

-------------------------------------------------------------------------------
(* Moving a thread.                                                        *)

At(t, place)   == pc[t] = place
Goto(t, place) == pc' = [pc EXCEPT ![t] = place]
Hold(t, table) == seen' = [seen EXCEPT ![t] = table]

(* Where a call goes on once the load() or the schema() it made returns.   *)
AfterReturn(t) ==
    IF t \in Refreshers THEN "idle"
    ELSE CASE op[t] = "children"      -> "children.copy"
           [] op[t] = "child_schemas" -> "cs.again"
           [] OTHER                   -> "done"

Return(t, table) == Goto(t, AfterReturn(t)) /\ Hold(t, table)

(* The slip of acquiring and releasing by hand, not releasing on the error.*)
RaiseHoldingLock(t) ==
    /\ Goto(t, IF t \in Refreshers THEN "run.clear" ELSE "raised")
    /\ Hold(t, Nothing) /\ UNCHANGED lock

(* A fetch that raises unwinds the `with`, so the lock is given back; the  *)
(* background thread still has to clear its flag, a query reports it.      *)
Raise(t) ==
    /\ Goto(t, IF t \in Refreshers THEN "run.clear" ELSE "raised")
    /\ Hold(t, Nothing)
    /\ lock' = NoThread

-------------------------------------------------------------------------------
(* The calls.                                                              *)

FirstPlace(o) ==
    CASE o = "children"      -> "children.check"
      [] o = "child_schemas" -> "cs.check"
      [] o = "invalidate"    -> "forget"
      [] OTHER               -> "fresh.read"

Call(t) ==
    /\ pc[t] \in Resting /\ calls < MaxCalls
    /\ \E o \in Ops :
          /\ op' = [op EXCEPT ![t] = o]
          /\ Goto(t, FirstPlace(o))
    /\ floor' = [floor EXCEPT ![t] = settled]
    /\ calls' = calls + 1
    /\ Hold(t, Nothing)
    /\ UNCHANGED <<world, store, refreshing, lock, settled>>

(* _fresh(): the table is read, then the time it was fetched at.           *)
NotFresh(t) == IF op[t] \in {"schema", "child_schemas"}
               THEN "own.read" ELSE "stale.read"

ReadCached(t) ==
    /\ At(t, "fresh.read")
    /\ Hold(t, cached)
    /\ Goto(t, IF cached = Nothing THEN NotFresh(t) ELSE "fresh.age")
    /\ UNCHANGED <<world, store, refreshing, lock, history>>

ReadAge(t) ==
    /\ At(t, "fresh.age")
    /\ \/ now - fetchedAt < TTL /\ Return(t, seen[t])
       \/ now - fetchedAt >= TTL /\ Goto(t, NotFresh(t)) /\ UNCHANGED seen
    /\ UNCHANGED <<world, store, refreshing, lock, history>>

(* load(): with something cached, refresh behind the query; with nothing,  *)
(* wait for the lock and look again before fetching.                       *)
ReadStale(t) ==
    /\ At(t, "stale.read")
    /\ Hold(t, cached)
    /\ Goto(t, IF cached = Nothing THEN "load.lock" ELSE "begin.lock")
    /\ UNCHANGED <<world, store, refreshing, lock, history>>

FirstLoad(t) ==
    /\ At(t, "load.lock") /\ lock = NoThread
    /\ \/ Fresh /\ Return(t, cached) /\ UNCHANGED lock
       \/ ~Fresh /\ Goto(t, "full.fetch") /\ lock' = t /\ UNCHANGED seen
    /\ UNCHANGED <<world, store, refreshing, history>>

(* _begin_background_refresh(): the check and the flag under one lock.     *)
MayBeginUnchecked == ~refreshing     \* the slip the docstring says CI caught
MayBegin == ~refreshing /\ ~Fresh

BeginRefresh(t) ==
    /\ At(t, "begin.lock") /\ lock = NoThread
    /\ \/ ~MayBegin /\ Return(t, seen[t]) /\ UNCHANGED refreshing
       \/ MayBegin /\ Goto(t, "begin.start") /\ refreshing' = TRUE
                   /\ UNCHANGED seen
    /\ UNCHANGED <<world, store, lock, history>>

StartThread(t) ==
    /\ At(t, "begin.start")
    /\ \E r \in Refreshers :
          /\ At(r, "idle")
          /\ pc' = [pc EXCEPT ![r] = "run.lock", ![t] = AfterReturn(t)]
    /\ UNCHANGED <<world, store, refreshing, lock, seen, history>>

(* Thread.start() raises RuntimeError when the system refuses the thread.  *)
StartFails(t) ==
    /\ StartCanFail /\ At(t, "begin.start")
    /\ Goto(t, "raised") /\ Hold(t, Nothing)
    /\ UNCHANGED <<world, store, refreshing, lock, history>>

(* schema(): its own copy if that is fresh, else the first page alone.     *)
ReadOwn(t) ==
    /\ At(t, "own.read")
    /\ Hold(t, schema)
    /\ Goto(t, IF schema = Nothing THEN "schema.lock" ELSE "own.age")
    /\ UNCHANGED <<world, store, refreshing, lock, history>>

ReadOwnAge(t) ==
    /\ At(t, "own.age")
    /\ \/ now - schemaAt < TTL /\ Return(t, seen[t])
       \/ now - schemaAt >= TTL /\ Goto(t, "schema.lock") /\ UNCHANGED seen
    /\ UNCHANGED <<world, store, refreshing, lock, history>>

SchemaFresh == schema # Nothing /\ now - schemaAt < TTL

(* The slip of reading the first page outside the lock.                    *)
FirstSchemaUnlocked(t) ==
    /\ At(t, "schema.lock")
    /\ \/ SchemaFresh /\ Return(t, schema)
       \/ ~SchemaFresh /\ Goto(t, "first.fetch") /\ UNCHANGED seen
    /\ UNCHANGED <<world, store, refreshing, lock, history>>

FirstSchema(t) ==
    /\ At(t, "schema.lock") /\ lock = NoThread
    /\ \/ SchemaFresh /\ Return(t, schema) /\ UNCHANGED lock
       \/ ~SchemaFresh /\ Goto(t, "first.fetch") /\ lock' = t
                       /\ UNCHANGED seen
    /\ UNCHANGED <<world, store, refreshing, history>>

(* children() loads only while nothing at all has been read.               *)
CheckChildren(t) ==
    /\ At(t, "children.check")
    /\ Goto(t, IF children = Nothing /\ cached = Nothing
               THEN "fresh.read" ELSE "children.copy")
    /\ UNCHANGED <<world, store, refreshing, lock, seen, history>>

CopyChildren(t) ==
    /\ At(t, "children.copy")
    /\ Hold(t, children) /\ Goto(t, "done")
    /\ UNCHANGED <<world, store, refreshing, lock, history>>

(* child_schemas(): a full read's children, else the first page's.         *)
CheckChildSchemas(t) ==
    /\ At(t, "cs.check")
    /\ Goto(t, IF cached # Nothing THEN "children.copy" ELSE "fresh.read")
    /\ UNCHANGED <<world, store, refreshing, lock, seen, history>>

CheckChildSchemasAgain(t) ==
    /\ At(t, "cs.again")
    /\ Goto(t, IF cached # Nothing THEN "children.copy" ELSE "cs.first")
    /\ UNCHANGED <<world, store, refreshing, lock, seen, history>>

CopyFirstChildren(t) ==
    /\ At(t, "cs.first")
    /\ Hold(t, schemaChildren) /\ Goto(t, "done")
    /\ UNCHANGED <<world, store, refreshing, lock, history>>

(* invalidate() leaves the child tables of the last full read in place.    *)
Invalidate(t) ==
    /\ At(t, "forget") /\ lock = NoThread
    /\ cached' = Nothing /\ fetchedAt' = 0
    /\ schema' = Nothing /\ schemaAt' = 0 /\ schemaChildren' = Nothing
    /\ Goto(t, "done")
    /\ UNCHANGED <<world, children, refreshing, lock, seen, history>>

-------------------------------------------------------------------------------
(* _fetch(): the network, then the child tables, then the table itself.    *)

AnswerFull(t) ==
    /\ At(t, "full.fetch")
    /\ Hold(t, remote) /\ children' = remote
    /\ Goto(t, "full.table")
    /\ UNCHANGED <<world, cached, fetchedAt, schema, schemaAt,
                   schemaChildren, refreshing, lock, history>>

(* The slip of filing the first page's child tables as the full read's.    *)
AnswerFirstAsFull(t) ==
    /\ At(t, "first.fetch")
    /\ Hold(t, remote) /\ children' = remote
    /\ Goto(t, "first.table")
    /\ UNCHANGED <<world, cached, fetchedAt, schema, schemaAt,
                   schemaChildren, refreshing, lock, history>>

AnswerFirst(t) ==
    /\ At(t, "first.fetch")
    /\ Hold(t, remote) /\ schemaChildren' = remote
    /\ Goto(t, "first.table")
    /\ UNCHANGED <<world, cached, fetchedAt, schema, schemaAt, children,
                   refreshing, lock, history>>

FetchFails(t) ==
    /\ pc[t] \in {"full.fetch", "first.fetch"}
    /\ Raise(t)
    /\ UNCHANGED <<world, store, refreshing, history>>

(* from_records() refuses the rows, after the child tables are in place.   *)
TableFails(t) ==
    /\ pc[t] \in {"full.table", "first.table"} /\ seen[t] \in Misshapen
    /\ Raise(t)
    /\ UNCHANGED <<world, store, refreshing, history>>

(* _refresh(): the table, its time, the narrower copies, then the flag.    *)
PublishTable(t) ==
    /\ At(t, "full.table") /\ seen[t] \notin Misshapen
    /\ cached' = seen[t]
    /\ Goto(t, "full.stamp")
    /\ UNCHANGED <<world, fetchedAt, schema, schemaAt, children,
                   schemaChildren, refreshing, lock, seen, history>>

StampTable(t) ==
    /\ At(t, "full.stamp")
    /\ fetchedAt' = now
    /\ Goto(t, "full.drop")
    /\ UNCHANGED <<world, cached, schema, schemaAt, children, schemaChildren,
                   refreshing, lock, seen, history>>

DropSchema(t) ==
    /\ At(t, "full.drop")
    /\ schema' = Nothing /\ schemaAt' = 0 /\ schemaChildren' = Nothing
    /\ Goto(t, "full.finish")
    /\ UNCHANGED <<world, cached, fetchedAt, children, refreshing, lock,
                   seen, history>>

FinishRefresh(t) ==
    /\ At(t, "full.finish")
    /\ refreshing' = FALSE /\ lock' = NoThread
    /\ settled' = seen[t]
    /\ Return(t, seen[t])
    /\ UNCHANGED <<world, store, floor, calls, op>>

PublishSchema(t) ==
    /\ At(t, "first.table") /\ seen[t] \notin Misshapen
    /\ schema' = seen[t]
    /\ Goto(t, "first.stamp")
    /\ UNCHANGED <<world, cached, fetchedAt, schemaAt, children,
                   schemaChildren, refreshing, lock, seen, history>>

StampSchema(t) ==
    /\ At(t, "first.stamp")
    /\ schemaAt' = now /\ lock' = NoThread
    /\ Return(t, seen[t])
    /\ UNCHANGED <<world, cached, fetchedAt, schema, children,
                   schemaChildren, refreshing, history>>

(* run(), the body of the background thread.                               *)
(* The slip of refreshing outside the lock.                                *)
RunRefreshUnlocked(r) ==
    /\ At(r, "run.lock")
    /\ Goto(r, "full.fetch")
    /\ UNCHANGED <<world, store, refreshing, lock, seen, history>>

RunRefresh(r) ==
    /\ At(r, "run.lock") /\ lock = NoThread
    /\ lock' = r /\ Goto(r, "full.fetch")
    /\ UNCHANGED <<world, store, refreshing, seen, history>>

(* The slip of ending a failed refresh without taking the flag down.       *)
ClearNothing(r) ==
    /\ At(r, "run.clear") /\ Goto(r, "idle")
    /\ UNCHANGED <<world, store, refreshing, lock, seen, history>>

ClearFlag(r) ==
    /\ At(r, "run.clear")
    /\ refreshing' = FALSE /\ Goto(r, "idle")
    /\ UNCHANGED <<world, store, lock, seen, history>>

-------------------------------------------------------------------------------
(* The world outside: time passes and the upstream collection changes.     *)

WaiterOutlasted == cached # Nothing /\ \E t \in Clients : At(t, "load.lock")

Tick ==
    /\ now < MaxTime
    /\ PromptWaiters => ~WaiterOutlasted
    /\ now' = now + 1
    /\ UNCHANGED <<remote, store, refreshing, lock, pc, seen, history>>

Upstream ==
    /\ remote < MaxVersion
    /\ remote' = remote + 1
    /\ UNCHANGED <<now, store, refreshing, lock, pc, seen, history>>

(* The workload is over: every call has returned and no more will come.    *)
Quiet ==
    /\ calls = MaxCalls
    /\ \A t \in Clients : pc[t] \in Resting
    /\ \A r \in Refreshers : At(r, "idle")
    /\ UNCHANGED vars

LoadStep(t) == \/ ReadCached(t) \/ ReadAge(t) \/ ReadStale(t) \/ FirstLoad(t)
               \/ BeginRefresh(t) \/ StartThread(t) \/ StartFails(t)

SchemaStep(t) == ReadOwn(t) \/ ReadOwnAge(t) \/ FirstSchema(t)

ChildStep(t) == \/ CheckChildren(t) \/ CopyChildren(t)
                \/ CheckChildSchemas(t) \/ CheckChildSchemasAgain(t)
                \/ CopyFirstChildren(t)

FetchStep(t) ==
    \/ AnswerFull(t) \/ AnswerFirst(t) \/ FetchFails(t) \/ TableFails(t)
    \/ PublishTable(t) \/ StampTable(t) \/ DropSchema(t) \/ FinishRefresh(t)
    \/ PublishSchema(t) \/ StampSchema(t)

ClientStep(t) == LoadStep(t) \/ SchemaStep(t) \/ ChildStep(t) \/ Invalidate(t)

RefresherStep(r) == RunRefresh(r) \/ ClearFlag(r)

Next == \/ \E t \in Clients : Call(t) \/ ClientStep(t)
        \/ \E r \in Refreshers : RefresherStep(r)
        \/ \E t \in Threads : FetchStep(t)
        \/ Tick \/ Upstream \/ Quiet

Spec == Init /\ [][Next]_vars

(* Threads run; a request ends, because each carries a timeout.  Nobody    *)
(* has to call, the clock and the upstream may stand still.                *)
Fairness == /\ \A t \in Clients : WF_vars(ClientStep(t))
            /\ \A r \in Refreshers : WF_vars(RefresherStep(r))
            /\ \A t \in Threads : WF_vars(FetchStep(t))

FairSpec == Spec /\ Fairness

-------------------------------------------------------------------------------
(* Properties.                                                             *)

(* A refresh that has been promised and not yet given up: the client that  *)
(* set the flag, or the thread it started.                                 *)
Pending(t) == \/ t \in Clients /\ At(t, "begin.start")
              \/ t \in Refreshers /\ ~At(t, "idle")

(* "Several threads reaching an expired table cause one fetch": no two     *)
(* threads are inside _fetch or between it and the end of its `with`.      *)
OneFetchAtATime ==
    \A t, u \in Threads : pc[t] \in InLock /\ pc[u] \in InLock => t = u

(* "Left set, no later expiry would ever refresh again": the flag is up    *)
(* only while somebody is on the way to take it down.                      *)
FlagHasAnOwner == refreshing => \E t \in Threads : Pending(t)

(* No answer is older than a full read that had already given the lock     *)
(* back when the call began, whichever of the five caches it came from.    *)
ReadsDoNotGoBack ==
    \A t \in Clients :
        At(t, "done") /\ seen[t] # Nothing => seen[t] >= floor[t]

(* ChildSource: the parent "rebuilds both together", so while no fetch is  *)
(* under way the child tables are those of the table being served.         *)
ChildrenMatchParent ==
    lock = NoThread /\ cached # Nothing => children = cached

(* No full read begins over a cache that is fresh: the third fetch where   *)
(* the source promises two, of _begin_background_refresh's docstring.      *)
StartsFullRead(t) == pc[t] \notin InLock /\ pc'[t] = "full.fetch"
NoFullReadWhileFresh ==
    [][\A t \in Threads : StartsFullRead(t) => ~Fresh]_vars

(* Every call returns or raises.                                           *)
CallsEnd == \A t \in Clients : pc[t] \notin Resting ~> pc[t] \in Resting

===============================================================================
