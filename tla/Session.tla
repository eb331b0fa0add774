-------------------------------- MODULE Session -------------------------------
(***************************************************************************)
(* What one physical connection keeps between the messages of the users it *)
(* is lent to: the transactions, the temp tables and the SET options in    *)
(* its session dictionary, and the descriptor of the transaction a client  *)
(* began through its API (Connection of tds/connection.py, with the parts  *)
(* of catalog.py that change the session).                                 *)
(*                                                                         *)
(* A message is handled whole before the next is read, so it is one step.  *)
(* A pool lends the connection to one user after another, and each one's   *)
(* first message carries a reset bit.  A batch here is one statement; what *)
(* several in one batch do is in BatchExec.                                *)
(***************************************************************************)
EXTENDS Transactions, FiniteSets

CONSTANTS
    TempTables,     \* names of temp tables
    SqlToo,         \* TRUE: clients send transaction statements as SQL too
    MaxMessages     \* bound of the model

Resets == {"no", "all", "keep"}     \* RESET_CONNECTION, .._SKIP_TRAN
NoDescriptor == 0

(* How the statements of a client fail while running.                      *)
Failures == {DivideByZero, ConversionFailed, SyntaxError, InvalidObjectName,
             Unsupported}

ASSUME SessionAssumption == SqlToo \in BOOLEAN /\ MaxMessages \in Nat

VARIABLES
    tran,           \* session[TRANSACTION], Closed where there is none
    made,           \* whether session[TRANSACTION] is there
    tables,         \* the temp tables in the session, with who made each
    xactAbort,      \* session[XACT_ABORT], with who set it
    descriptor,     \* _xact_descriptor
    counter,        \* _descriptor_counter
    user,           \* history: which user the connection is lent to
    owner,          \* history: who began the open transaction
    announced,      \* history: descriptors told begun, and those told ended
    strayed,        \* history: the client left the API's one transaction
    messages        \* history: how many messages were handled

session == <<tran, made, tables, xactAbort>>
client  == <<user, owner, announced, strayed, messages>>
vars    == <<session, descriptor, counter, client>>

Nobody == 0

TypeOK ==
    /\ tran \in Transaction /\ made \in BOOLEAN
    /\ tables \in [TempTables -> Nat]
    /\ xactAbort \in Nat
    /\ descriptor \in Nat /\ counter \in Nat
    /\ user \in Nat \ {0} /\ owner \in Nat
    /\ announced \in [begun : SUBSET Nat, ended : SUBSET Nat]
    /\ strayed \in BOOLEAN
    /\ messages \in Nat

Init ==
    /\ tran = Closed /\ made = FALSE
    /\ tables = [x \in TempTables |-> Nobody]
    /\ xactAbort = Nobody
    /\ descriptor = NoDescriptor /\ counter = 0
    /\ user = 1 /\ owner = Nobody
    /\ announced = [begun |-> {}, ended |-> {}]
    /\ strayed = FALSE
    /\ messages = 0

-------------------------------------------------------------------------------
(* A message's reset bits, acted on before the message is read.  Each      *)
(* operator below is given what the reset left.                            *)

Kept == [tran |-> tran, made |-> made, tables |-> tables,
         xactAbort |-> xactAbort, descriptor |-> descriptor, user |-> user,
         owner |-> owner, strayed |-> strayed]

(* The slip of ending the transaction and leaving the rest.               *)
ResetTransaction(reset) ==
    IF reset = "no" THEN Kept
    ELSE [Kept EXCEPT !.tran = Closed, !.made = FALSE,
                      !.descriptor = NoDescriptor, !.user = @ + 1,
                      !.owner = Nobody, !.strayed = FALSE]

(* The dictionary is cleared, and with it the descriptor, unless the reset *)
(* keeps the transactions and there are some to keep.                      *)
Reset(reset) ==
    IF reset = "no" THEN Kept
    ELSE LET keeps == reset = "keep" /\ made
         IN  [Kept EXCEPT
                !.tran = IF keeps THEN @ ELSE Closed,
                !.made = keeps,
                !.tables = [x \in TempTables |-> Nobody],
                !.xactAbort = Nobody,
                !.descriptor = IF keeps THEN @ ELSE NoDescriptor,
                !.user = @ + 1,
                !.owner = IF keeps /\ tran.count > 0 THEN user + 1 ELSE Nobody,
                !.strayed = keeps /\ @]

(* What a message leaves.                                                  *)
Leave(s, t, m, tabs, abort, d) ==
    /\ tran' = t
    /\ made' = m
    /\ tables' = tabs
    /\ xactAbort' = abort
    /\ descriptor' = d
    /\ user' = s.user
    /\ owner' = CASE t.count = 0 -> Nobody
                  [] t.count > 0 /\ s.tran.count = 0 -> s.user
                  [] OTHER -> s.owner
    /\ messages' = messages + 1

Untold == UNCHANGED <<announced, counter>>

Tell(kind, d) == announced' = [announced EXCEPT ![kind] = @ \cup {d}]

(* A single statement that raised: the batch may have ended, and with it   *)
(* the transactions.                                                       *)
Failed(s, t, error) == EndedTheBatch(t, Unmarked(error), s.xactAbort # Nobody)
Ends(s, error) ==
    error # NoError /\ EndsTheTransaction(Unmarked(error), s.xactAbort # Nobody)

-------------------------------------------------------------------------------
(* Transaction-manager requests (_answer_transaction).                     *)

Receive == messages < MaxMessages

Reads(name) == name \in Readable \cup {NoName}

(* A client that has at most one transaction, of a name that is read, and  *)
(* ends it by an unnamed request never strays.                             *)
KeepsToOne(s, kind, name, did) ==
    /\ kind = "begin" => s.tran.count = 0 /\ Reads(name)
    /\ kind = "rollback" /\ name # NoName => did.tran.count = s.tran.count
    /\ Ends(s, did.error) => s.tran.count = 0

EndsTransaction(kind, name) ==
    kind = "commit" \/ (kind = "rollback" /\ name = NoName)

(* The slip of keeping the descriptor of a transaction that has ended.     *)
EnvChangeKeeping(s, kind, name) ==
    IF kind = "begin"
      THEN [to |-> counter + 1, told |-> "begun", of |-> counter + 1]
    ELSE IF EndsTransaction(kind, name) /\ s.descriptor # NoDescriptor
      THEN [to |-> s.descriptor, told |-> "ended", of |-> s.descriptor]
    ELSE [to |-> s.descriptor, told |-> "nothing", of |-> NoDescriptor]

(* The slip of telling of an end whenever a rollback is answered.          *)
EnvChangeOnAnyRollback(s, kind, name) ==
    IF kind = "begin"
      THEN [to |-> counter + 1, told |-> "begun", of |-> counter + 1]
    ELSE IF kind \in {"commit", "rollback"} /\ s.descriptor # NoDescriptor
      THEN [to |-> NoDescriptor, told |-> "ended", of |-> s.descriptor]
    ELSE [to |-> s.descriptor, told |-> "nothing", of |-> NoDescriptor]

(* The slip of numbering on from the descriptor held and not the counter.  *)
EnvChangeRestarting(s, kind, name) ==
    IF kind = "begin"
      THEN [to |-> s.descriptor + 1, told |-> "begun", of |-> s.descriptor + 1]
    ELSE IF EndsTransaction(kind, name) /\ s.descriptor # NoDescriptor
      THEN [to |-> NoDescriptor, told |-> "ended", of |-> s.descriptor]
    ELSE [to |-> s.descriptor, told |-> "nothing", of |-> NoDescriptor]

(* The descriptor after a request that succeeded, and what is told of it.  *)
EnvChange(s, kind, name) ==
    IF kind = "begin"
      THEN [to |-> counter + 1, told |-> "begun", of |-> counter + 1]
    ELSE IF EndsTransaction(kind, name) /\ s.descriptor # NoDescriptor
      THEN [to |-> NoDescriptor, told |-> "ended", of |-> s.descriptor]
    ELSE [to |-> s.descriptor, told |-> "nothing", of |-> NoDescriptor]

(* A commit drops the name the request carried; a save has one.            *)
Request(reset, kind, name) ==
    LET s    == Reset(reset)
        used == IF kind = "commit" THEN NoName ELSE name
        did  == TransactionStatement(s.tran, kind, used)
        env  == EnvChange(s, kind, name)
        m    == s.made \/ Reads(used) \/ Ends(s, did.error)
    IN  /\ Receive
        /\ kind = "save" => name # NoName
        /\ strayed' = (s.strayed \/ ~KeepsToOne(s, kind, used, did))
        /\ IF did.error # NoError
           THEN /\ Leave(s, Failed(s, did.tran, did.error), m, s.tables,
                         s.xactAbort, s.descriptor)
                /\ Untold
           ELSE /\ Leave(s, did.tran, m, s.tables, s.xactAbort, env.to)
                /\ counter' = IF kind = "begin" THEN counter + 1 ELSE counter
                /\ IF env.told = "nothing" THEN UNCHANGED announced
                   ELSE Tell(env.told, env.of)

(* A distributed request is declined and nothing acts on it.               *)
RequestDistributed(reset) ==
    LET s == Reset(reset)
    IN  /\ Receive
        /\ Leave(s, s.tran, s.made, s.tables, s.xactAbort, s.descriptor)
        /\ Untold
        /\ strayed' = s.strayed

-------------------------------------------------------------------------------
(* Batches of one statement.                                               *)

(* One that leaves the session as given, or raises.                        *)
Batch(s, t, m, error, tabs, abort) ==
    /\ Receive
    /\ Leave(s, IF error = NoError THEN t ELSE Failed(s, t, error),
             m \/ Ends(s, error), tabs, abort, s.descriptor)
    /\ Untold
    /\ strayed' = (s.strayed \/ tran' # s.tran)

TransactionBatch(reset, kind, name) ==
    LET s   == Reset(reset)
        did == TransactionStatement(s.tran, kind, name)
    IN  /\ SqlToo
        /\ kind = "save" => name # NoName
        /\ Batch(s, did.tran, s.made \/ Reads(name), did.error, s.tables,
                 s.xactAbort)

CreateTable(reset, x) ==
    LET s == Reset(reset)
    IN  IF s.tables[x] # Nobody
        THEN Batch(s, s.tran, s.made, AlreadyAnObject, s.tables, s.xactAbort)
        ELSE Batch(s, s.tran, s.made, NoError, [s.tables EXCEPT ![x] = s.user],
                   s.xactAbort)

DropTable(reset, x) ==
    LET s == Reset(reset)
    IN  IF s.tables[x] = Nobody
        THEN Batch(s, s.tran, s.made, NoSuchTableToDrop, s.tables, s.xactAbort)
        ELSE Batch(s, s.tran, s.made, NoError, [s.tables EXCEPT ![x] = Nobody],
                   s.xactAbort)

SetXactAbort(reset, on) ==
    LET s == Reset(reset)
    IN  Batch(s, s.tran, s.made, NoError, s.tables,
              IF on THEN s.user ELSE Nobody)

(* A read, which looks the @@ variables up, or a statement that fails      *)
(* before it does or after.                                                *)
OtherBatch(reset, error) ==
    LET s == Reset(reset)
    IN  \E looked \in BOOLEAN :
            /\ error = NoError => looked
            /\ Batch(s, s.tran, s.made \/ looked, error, s.tables, s.xactAbort)

-------------------------------------------------------------------------------
Next ==
    \E reset \in Resets :
        \/ \E kind \in Kinds, name \in NamesOrNone : Request(reset, kind, name)
        \/ RequestDistributed(reset)
        \/ \E kind \in Kinds, name \in NamesOrNone :
             TransactionBatch(reset, kind, name)
        \/ \E x \in TempTables : CreateTable(reset, x) \/ DropTable(reset, x)
        \/ \E on \in BOOLEAN : SetXactAbort(reset, on)
        \/ \E error \in Failures \cup {NoError} : OtherBatch(reset, error)

Spec == Init /\ [][Next]_vars

-------------------------------------------------------------------------------
(* Properties.                                                             *)

(* Whatever closes a transaction, a commit, a rollback, an error or a      *)
(* reset, no name and no savepoint of it is left for the next to find.     *)
NothingOutlivesItsTransaction == NothingHeldWhenClosed(tran)

(* Nothing one user of a pooled connection left is there for the next      *)
(* (_reset_the_session); a transaction kept on request becomes the new     *)
(* user's.                                                                 *)
NothingOutlivesItsUser ==
    /\ \A x \in TempTables : tables[x] \in {Nobody, user}
    /\ xactAbort \in {Nobody, user}
    /\ owner \in {Nobody, user}
    /\ owner = Nobody <=> tran.count = 0

(* A transaction is told ended once, by the descriptor it was told begun   *)
(* with (_transaction_envchange).                                          *)
DescriptorsArePaired ==
    /\ announced.ended \subseteq announced.begun
    /\ descriptor # NoDescriptor =>
         descriptor \in announced.begun \ announced.ended

(* No descriptor is handed out twice, to this user or to another           *)
(* (_new_descriptor).                                                      *)
DescriptorsAreFresh ==
    [][descriptor' \notin {NoDescriptor, descriptor} =>
          \A d \in announced.begun : descriptor' > d]_vars

(* A client that keeps to one transaction through its API, and whose       *)
(* batches end none, is told of a transaction exactly while it is open.    *)
ToldWhatIsHeld == ~strayed => (descriptor # NoDescriptor <=> tran.count > 0)
===============================================================================
