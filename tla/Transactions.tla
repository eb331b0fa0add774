----------------------------- MODULE Transactions -----------------------------
(***************************************************************************)
(* A connection's transactions (_Transactions and _transaction_statement   *)
(* of catalog.py): how many are open, what the outermost one is called and *)
(* the savepoints marked in it, newest last; and what an error does to     *)
(* them.  Nothing is written, so this is all there is of a transaction.    *)
(* Used by the modules of the session and of the batch.                    *)
(***************************************************************************)
EXTENDS Naturals, Sequences

CONSTANTS
    Names,          \* the names clients give
    NoName,         \* None
    Fold,           \* Fold[n]: the name n in lower case
    Readable        \* the names the statements' grammar reads (_TRANSACTION_NAME)

ASSUME NamesAssumption ==
    /\ NoName \notin Names
    /\ Fold \in [Names -> Names]
    /\ Readable \subseteq Names

NamesOrNone == Names \cup {NoName}

Transaction == [count : Nat, name : NamesOrNone, savepoints : Seq(Names)]

Kinds == {"begin", "commit", "rollback", "save"}

Closed == [count |-> 0, name |-> NoName, savepoints |-> <<>>]

(* Nothing of a transaction outlives it.                                   *)
NothingHeldWhenClosed(t) == t.count = 0 => t = Closed

-------------------------------------------------------------------------------
(* Errors, by the number the client reads.                                 *)

NoError            == 0
CommitWithoutBegin == 3902
RollbackWithoutBegin == 3903
SaveWithoutBegin   == 628
NoSuchSavepoint    == 6401
AlreadyAnObject    == 2714
NoSuchTableToDrop  == 3701
DivideByZero       == 8134
ConversionFailed   == 245
SyntaxError        == 102
InvalidObjectName  == 208
Unsupported        == 50000
UnbalancedTransactions == 266
NoSuchProcedure    == 2812
NothingToRethrow   == 10704

GoesOn == {CommitWithoutBegin, RollbackWithoutBegin, NoSuchSavepoint,
           NoSuchTableToDrop, DivideByZero, UnbalancedTransactions,
           NoSuchProcedure}
SettingDoesNotReach    == {NoSuchTableToDrop}
SettledWhileCompiling  == {SyntaxError}
KeptUnlessXactAbort    == {InvalidObjectName}

(* An error as it is raised; carriesOn is the mark of one a client asked   *)
(* for: "on" of a RAISERROR, "ends" of a THROW, "unset" of every other.    *)
Unmarked(number) == [number |-> number, carriesOn |-> "unset"]

TheBatchGoesOn(exc, xactAbort) ==
    IF exc.carriesOn # "unset" THEN exc.carriesOn = "on"
    ELSE /\ exc.number \in GoesOn
         /\ xactAbort => exc.number \in SettingDoesNotReach

RollsTheTransactionBack(exc, xactAbort) ==
    exc.carriesOn = "unset" =>
        /\ exc.number \notin SettledWhileCompiling \cup {Unsupported}
        /\ exc.number \in KeptUnlessXactAbort => xactAbort

(* Whether an error ends the batch around it and its transactions with it. *)
EndsTheTransaction(exc, xactAbort) ==
    /\ ~TheBatchGoesOn(exc, xactAbort)
    /\ RollsTheTransactionBack(exc, xactAbort)

EndedTheBatch(t, exc, xactAbort) ==
    IF EndsTheTransaction(exc, xactAbort) THEN Closed ELSE t

-------------------------------------------------------------------------------
(* The statements.  Each gives the transactions after it and the error it  *)
(* raised, if any.                                                         *)

Did(t)        == [tran |-> t, error |-> NoError]
Refused(t, e) == [tran |-> t, error |-> e]

Begin(t, name) ==
    Did(IF t.count = 0
        THEN [count |-> 1, name |-> name, savepoints |-> <<>>]
        ELSE [t EXCEPT !.count = @ + 1])

(* The slip of forgetting the name and the savepoints' end.                *)
CommitCounting(t) ==
    IF t.count = 0 THEN Refused(t, CommitWithoutBegin)
    ELSE Did([t EXCEPT !.count = @ - 1])

Commit(t) ==
    IF t.count = 0 THEN Refused(t, CommitWithoutBegin)
    ELSE Did(IF t.count = 1 THEN Closed ELSE [t EXCEPT !.count = @ - 1])

Marks(t, name) == {i \in DOMAIN t.savepoints :
                     name # NoName /\ Fold[t.savepoints[i]] = Fold[name]}
Newest(t, name) == CHOOSE i \in Marks(t, name) :
                     \A j \in Marks(t, name) : j <= i

(* A savepoint is found before a transaction of the same name; the newest  *)
(* of its name goes, with every one marked after it.                       *)
Rollback(t, name) ==
    IF t.count = 0 THEN Refused(t, RollbackWithoutBegin)
    ELSE IF Marks(t, name) # {}
      THEN Did([t EXCEPT !.savepoints = SubSeq(@, 1, Newest(t, name) - 1)])
    ELSE IF name \in {NoName, t.name} THEN Did(Closed)
    ELSE Refused(t, NoSuchSavepoint)

Save(t, name) ==
    IF t.count = 0 THEN Refused(t, SaveWithoutBegin)
    ELSE Did([t EXCEPT !.savepoints = Append(@, name)])

(* A statement whose name the grammar does not read is passed over.        *)
TransactionStatement(t, kind, name) ==
    IF name \notin Readable \cup {NoName} THEN Did(t)
    ELSE CASE kind = "begin"    -> Begin(t, name)
           [] kind = "commit"   -> Commit(t)
           [] kind = "rollback" -> Rollback(t, name)
           [] kind = "save"     -> Save(t, name)
===============================================================================
