------------------------------- MODULE BatchExec ------------------------------
(***************************************************************************)
(* How a batch runs (_batch, _run_all, _statement, _tried, _looped and     *)
(* _ran_written_out of catalog.py): the statements of a batch, its IFs,    *)
(* blocks, loops, TRYs and EXECs of text, and where an error raised in one *)
(* of them goes.                                                           *)
(*                                                                         *)
(* frames is the stack of the Python calls that run statements, one for    *)
(* each construct that is open, and exc the exception on its way out of    *)
(* the innermost.  The program is chosen as it runs: the next statement of *)
(* the innermost construct is any statement, or its end.  (A loop may so   *)
(* run other statements each turn, as one whose body is made of IFs does.) *)
(* @@ROWCOUNT, the variables and the rows themselves are left out.         *)
(***************************************************************************)
EXTENDS Transactions, FiniteSets

CONSTANTS
    TempTables,     \* names of temp tables
    Fails,          \* numbers a read, a condition or a write may fail with
    TranKinds,      \* the transaction statements batches use
    MaxTurns,       \* MAX_LOOP_TURNS
    MaxBatches,     \* bounds of the model: batches, statements over all of
    MaxStatements,  \* them, and constructs open at once
    MaxDepth

ASSUME BatchAssumption ==
    /\ Fails \subseteq Nat \ {NoError}
    /\ TranKinds \subseteq Kinds
    /\ MaxTurns \in Nat /\ MaxBatches \in Nat
    /\ MaxStatements \in Nat /\ MaxDepth \in Nat

VARIABLES
    tran, xactAbort, tables,    \* the session: its transactions, SET option
    errorNumber, caught,        \* and temp tables, @@ERROR, and CAUGHT
    frames,         \* the constructs open, innermost last
    exc,            \* the QueryError on its way out, or NoExc
    leaving,        \* a BREAK or CONTINUE on its way out, or "no"
    answers,        \* what the batch answered so far
    shape,          \* what the batch is so far: nothing, one read, or more
    declared,       \* the temp tables the batch itself declares
    batches, ran,   \* how many batches and statements ran
    outside,        \* history: names made by statements not in an EXEC
    happened,       \* history: the rows a batch gave and the errors raised
                    \* in it that no CATCH took, in the order of both
    reply           \* history: what the client read of the last batch

session == <<tran, xactAbort, tables, errorNumber, caught>>
running == <<frames, exc, leaving, answers, shape, declared>>
vars    == <<session, running, batches, ran, outside, happened, reply>>

NoExc == Unmarked(NoError)
Rows  == NoExc                  \* an answer that is rows

(* An error ends the batch and what ran before it is still answered.       *)
EndsAfter == {InvalidObjectName, ConversionFailed, SaveWithoutBegin,
              AlreadyAnObject}

(* The slip of keeping nothing before an error that XACT_ABORT ends at.    *)
KeepsWhateverTheSetting(e) ==
    e.carriesOn # "unset" \/ e.number \in EndsAfter

KeepsWhatAnswered(e) ==
    \/ e.carriesOn # "unset"
    \/ e.number \in EndsAfter
    \/ xactAbort /\ e.number \in GoesOn

(* An error ends the batch around an EXEC of text with the text.           *)
EscapesWrittenOut(e) ==
    IF e.carriesOn # "unset" THEN e.carriesOn = "ends"
    ELSE e.number \in {ConversionFailed, SaveWithoutBegin}

-------------------------------------------------------------------------------
(* The constructs.  catching is handed down to what each one runs; turns   *)
(* is of a loop, held and opened are of a text: the tables and the number  *)
(* of transactions it found.                                               *)

Constructs == {"batch", "if", "block", "try", "catch", "while", "text"}

Frame(kind, catching) ==
    [kind |-> kind, catching |-> catching, turns |-> 0, held |-> {},
     opened |-> 0]

Frames == [kind : Constructs, catching : BOOLEAN, turns : Nat,
           held : SUBSET TempTables, opened : Nat]

Top    == frames[Len(frames)]
Around == SubSeq(frames, 1, Len(frames) - 1)
Under(stack) == stack[Len(stack)]

(* The statements of a TRY are run one by one, those of the others by      *)
(* _run_all, which puts @@ERROR back and takes errors the batch runs past. *)
RunsAll(frame) == frame.kind # "try"

Open(kinds) == \E i \in DOMAIN frames : frames[i].kind \in kinds

Errors == [number : Nat, carriesOn : {"unset", "on", "ends"}]

Typed ==
    /\ tran \in Transaction /\ xactAbort \in BOOLEAN
    /\ tables \subseteq TempTables
    /\ errorNumber \in Nat /\ caught \in Errors
    /\ frames \in Seq(Frames)
    /\ exc \in Errors /\ leaving \in {"no", "BREAK", "CONTINUE"}
    /\ answers \in Seq(Errors)
    /\ shape \in {"none", "read", "more"} /\ declared \subseteq TempTables
    /\ batches \in Nat /\ ran \in Nat
    /\ outside \subseteq TempTables
    /\ reply \in Seq(Errors)

TypeOK == Typed /\ happened \in Seq(Errors)

Init ==
    /\ tran = Closed /\ xactAbort = FALSE /\ tables = {}
    /\ errorNumber = NoError /\ caught = NoExc
    /\ frames = <<>> /\ exc = NoExc /\ leaving = "no" /\ answers = <<>>
    /\ shape = "none" /\ declared = {}
    /\ batches = 0 /\ ran = 0
    /\ outside = {}
    /\ happened = <<>> /\ reply = <<>>

-------------------------------------------------------------------------------
(* Batches.                                                                *)

NextBatch == frames = <<>> /\ batches < MaxBatches /\ batches' = batches + 1

(* A batch that does not compile, or that declares a table twice, and one  *)
(* that is a single read, run no statement of a batch.                     *)
Refuse(number) ==
    /\ NextBatch
    /\ tran' = EndedTheBatch(tran, Unmarked(number), xactAbort)
    /\ reply' = <<Unmarked(number)>>
    /\ happened' = reply'
    /\ UNCHANGED <<xactAbort, tables, errorNumber, caught, running, ran, outside>>

LoneRead(number) ==
    /\ NextBatch
    /\ tran' = IF number = NoError THEN tran
               ELSE EndedTheBatch(tran, Unmarked(number), xactAbort)
    /\ reply' = <<Unmarked(number)>>
    /\ happened' = reply'
    /\ UNCHANGED <<xactAbort, tables, errorNumber, caught, running, ran, outside>>

StartBatch ==
    /\ NextBatch
    /\ ran < MaxStatements
    /\ frames' = <<Frame("batch", TRUE)>>
    /\ answers' = <<>> /\ shape' = "none" /\ declared' = {}
    /\ happened' = <<>> /\ reply' = <<>>
    /\ UNCHANGED <<session, exc, leaving, ran, outside>>

-------------------------------------------------------------------------------
(* What becomes of a statement in a construct of the stack it was run by.  *)

Idle == exc = NoExc /\ leaving = "no"

Happens(one) == happened' = Append(happened, one)

(* It finished; clears is what _clears_the_error says of it.               *)
Finish(stack, clears) ==
    /\ frames' = stack
    /\ errorNumber' = IF clears /\ RunsAll(Under(stack)) THEN NoError
                      ELSE errorNumber
    /\ UNCHANGED <<exc, leaving>>

(* It raised.                                                              *)
RaiseIn(stack, e) ==
    /\ frames' = stack
    /\ exc' = e
    /\ Happens(e)
    /\ UNCHANGED <<errorNumber, leaving>>

(* A statement of the innermost construct, and what the batch is with it.  *)
Statement(isRead) ==
    /\ frames # <<>> /\ Idle /\ ran < MaxStatements
    /\ ran' = ran + 1
    /\ IF shape = "none" /\ isRead
       THEN shape' = "read" /\ ran' < MaxStatements
       ELSE shape' = "more"
    /\ UNCHANGED <<batches, reply, caught>>

Finishes(clears) == Finish(frames, clears) /\ UNCHANGED happened
Raises(e)        == RaiseIn(frames, e)

SessionKept == UNCHANGED <<tran, xactAbort, tables, declared, outside>>

(* A read, of a table or by a procedure.                                   *)
Read ==
    /\ Statement(TRUE)
    /\ Finish(frames, TRUE)
    /\ Happens(Rows)
    /\ answers' = Append(answers, Rows)
    /\ SessionKept

(* A statement that fails, a read or another.                              *)
Fail(number, isRead) ==
    /\ shape # "none" => ~isRead
    /\ Statement(isRead)
    /\ Raises(Unmarked(number))
    /\ UNCHANGED answers
    /\ SessionKept

(* SET, an assignment, or a DECLARE with no value, which clears nothing.   *)
SetOrDeclare(clears) ==
    /\ Statement(FALSE)
    /\ Finishes(clears)
    /\ UNCHANGED answers
    /\ SessionKept

SetXactAbort ==
    /\ Statement(FALSE)
    /\ Finishes(TRUE)
    /\ xactAbort' = ~xactAbort
    /\ UNCHANGED <<tran, tables, declared, outside, answers>>

TransactionKind(kind, name) ==
    LET did == TransactionStatement(tran, kind, name)
    IN  /\ kind = "save" => name # NoName
        /\ Statement(FALSE)
        /\ tran' = did.tran
        /\ IF did.error = NoError THEN Finishes(TRUE)
           ELSE Raises(Unmarked(did.error))
        /\ UNCHANGED <<xactAbort, tables, declared, outside, answers>>

(* A table the batch's own statements name twice is refused above.         *)
CreateTable(x) ==
    /\ Statement(FALSE)
    /\ IF Top.kind = "batch"
       THEN x \notin declared /\ declared' = declared \cup {x}
       ELSE UNCHANGED declared
    /\ IF x \in tables
       THEN Raises(Unmarked(AlreadyAnObject)) /\ UNCHANGED <<tables, outside>>
       ELSE /\ Finishes(TRUE)
            /\ tables' = tables \cup {x}
            /\ outside' = IF Open({"text"}) THEN outside ELSE outside \cup {x}
    /\ UNCHANGED <<tran, xactAbort, answers>>

DropTable(x) ==
    /\ Statement(FALSE)
    /\ IF x \notin tables
       THEN Raises(Unmarked(NoSuchTableToDrop)) /\ UNCHANGED tables
       ELSE Finishes(TRUE) /\ tables' = tables \ {x}
    /\ UNCHANGED <<tran, xactAbort, declared, outside, answers>>

(* RAISERROR of a severity that raises, and THROW: of an error of its own, *)
(* or bare, of the one its CATCH caught.                                   *)
Raiserror ==
    /\ Statement(FALSE)
    /\ Raises([number |-> Unsupported, carriesOn |-> "on"])
    /\ UNCHANGED answers
    /\ SessionKept

Throw(number) ==
    /\ Statement(FALSE)
    /\ Raises([number |-> number, carriesOn |-> "ends"])
    /\ UNCHANGED answers
    /\ SessionKept

Rethrow ==
    /\ Statement(FALSE)
    /\ Raises(IF caught = NoExc THEN Unmarked(NothingToRethrow)
              ELSE [number |-> caught.number, carriesOn |-> "ends"])
    /\ UNCHANGED answers
    /\ SessionKept

(* BREAK and CONTINUE stand in a loop of their own batch or text           *)
(* (loose_exits).                                                          *)
LeaveTheTurn(word) ==
    /\ Statement(FALSE)
    /\ \E i \in DOMAIN frames :
         /\ frames[i].kind = "while"
         /\ \A j \in i..Len(frames) : frames[j].kind # "text"
    /\ leaving' = word
    /\ UNCHANGED <<frames, errorNumber, exc, answers, happened>>
    /\ SessionKept

-------------------------------------------------------------------------------
(* Opening a construct.                                                    *)

Opens(frame) ==
    /\ Statement(FALSE)
    /\ Len(frames) < MaxDepth
    /\ frames' = Append(frames, frame)
    /\ UNCHANGED <<leaving, answers>>
    /\ SessionKept

(* A condition was asked, and neither an IF nor a loop clears again.       *)
If ==
    \/ /\ Opens(Frame("if", Top.catching))
       /\ errorNumber' = NoError
       /\ UNCHANGED <<exc, happened>>
    \/ /\ Statement(FALSE)
       /\ errorNumber' = NoError
       /\ UNCHANGED <<frames, exc, leaving, answers, happened>>
       /\ SessionKept

Block ==
    /\ Opens(Frame("block", Top.catching))
    /\ UNCHANGED <<errorNumber, exc, happened>>

Try ==
    /\ Opens(Frame("try", FALSE))
    /\ UNCHANGED <<errorNumber, exc, happened>>

(* A loop whose condition does not hold is an IF's false one.              *)
While ==
    /\ Opens([Frame("while", Top.catching) EXCEPT !.turns = 1])
    /\ errorNumber' = NoError
    /\ UNCHANGED <<exc, happened>>

(* Text that does not compile fails as its own batch would, before any of  *)
(* it runs.                                                                *)
ExecText(compiles) ==
    /\ Opens([Frame("text", Top.catching) EXCEPT !.held = tables,
                                                 !.opened = tran.count])
    /\ IF compiles THEN UNCHANGED <<exc, happened>>
       ELSE exc' = Unmarked(SyntaxError) /\ Happens(exc')
    /\ UNCHANGED errorNumber

-------------------------------------------------------------------------------
(* The innermost construct comes to its end.                               *)

Ends(kinds) == frames # <<>> /\ Idle /\ Top.kind \in kinds

Unasked == UNCHANGED <<batches, ran, shape, declared, outside, reply, xactAbort>>

CloseBlock ==
    /\ Ends({"if", "block", "try"})
    /\ Finish(Around, Top.kind # "if")
    /\ UNCHANGED <<tran, tables, caught, answers, happened>>
    /\ Unasked

CloseCatch ==
    /\ Ends({"catch"})
    /\ Finish(Around, TRUE)
    /\ caught' = NoExc
    /\ UNCHANGED <<tran, tables, answers, happened>>
    /\ Unasked

(* The slip of starting the count again where it should stop.              *)
AskAgainEndlessly ==
    /\ \/ /\ frames' = [frames EXCEPT ![Len(frames)].turns = (@ % MaxTurns) + 1]
          /\ UNCHANGED exc
       \/ frames' = Around /\ UNCHANGED exc
    /\ UNCHANGED happened
    /\ errorNumber' = NoError
    /\ leaving' = "no"
    /\ UNCHANGED <<tran, tables, caught, answers>>
    /\ Unasked

(* The condition is asked again: it holds, and the loop has turns left or  *)
(* is stopped; it does not; or it fails.                                   *)
AskAgain ==
    /\ \/ /\ Top.turns < MaxTurns
          /\ frames' = [frames EXCEPT ![Len(frames)].turns = @ + 1]
          /\ errorNumber' = NoError
          /\ UNCHANGED <<exc, happened>>
       \/ /\ Top.turns = MaxTurns
          /\ frames' = Around
          /\ errorNumber' = NoError
          /\ exc' = Unmarked(Unsupported)
          /\ Happens(exc')
       \/ /\ frames' = Around
          /\ errorNumber' = NoError
          /\ UNCHANGED <<exc, happened>>
       \/ /\ \E number \in Fails : RaiseIn(Around, Unmarked(number))
    /\ leaving' = "no"
    /\ UNCHANGED <<tran, tables, caught, answers>>
    /\ Unasked

EndTurn == Ends({"while"}) /\ AskAgain

(* A table the text made goes with it, and the transactions must be as     *)
(* many as it found.                                                       *)
TablesHeld == tables \cap Top.held

(* The slip of not counting the transactions.                              *)
CloseTextUnbalanced ==
    /\ Ends({"text"})
    /\ tables' = TablesHeld
    /\ Finish(Around, FALSE)
    /\ UNCHANGED <<tran, caught, answers, happened>>
    /\ Unasked

CloseText ==
    /\ Ends({"text"})
    /\ tables' = TablesHeld
    /\ IF tran.count # Top.opened
       THEN RaiseIn(Around, Unmarked(UnbalancedTransactions))
       ELSE Finish(Around, FALSE) /\ UNCHANGED happened
    /\ UNCHANGED <<tran, caught, answers>>
    /\ Unasked

(* The reply.  One answer that is an error is raised, and an error raised  *)
(* ends its batch's transactions (answer).                                 *)
Answer(given) ==
    /\ frames' = <<>>
    /\ reply' = given
    /\ answers' = <<>> /\ shape' = "none" /\ declared' = {}

(* A batch of one read does not come here, nor one of nothing.             *)
CloseBatch ==
    /\ Ends({"batch"})
    /\ shape = "more"
    /\ tran' = IF Len(answers) = 1 /\ answers[1] # Rows
               THEN EndedTheBatch(tran, answers[1], xactAbort) ELSE tran
    /\ Answer(answers)
    /\ UNCHANGED <<xactAbort, tables, errorNumber, caught, exc, leaving, batches,
                   ran, outside, happened>>

-------------------------------------------------------------------------------
(* An error on its way out.                                                *)

Raised(kinds) == frames # <<>> /\ exc # NoExc /\ Top.kind \in kinds

(* The slip of taking it within a TRY.                                     *)
TakesInATry == RunsAll(Top) /\ TheBatchGoesOn(exc, xactAbort)

(* _run_all takes an error its batch runs past, outside every TRY.         *)
Takes == RunsAll(Top) /\ Top.catching /\ TheBatchGoesOn(exc, xactAbort)

Noted == errorNumber' = IF RunsAll(Top) THEN exc.number ELSE errorNumber

Take ==
    /\ Raised(Constructs)
    /\ Takes
    /\ Noted
    /\ answers' = Append(answers, exc)
    /\ exc' = NoExc
    /\ UNCHANGED <<frames, leaving, tran, tables, caught, happened>>
    /\ Unasked

LeaveBlock ==
    /\ Raised({"if", "block", "while"})
    /\ ~Takes
    /\ Noted
    /\ frames' = Around
    /\ UNCHANGED <<exc, leaving, tran, tables, caught, answers, happened>>
    /\ Unasked

(* The slip of forgetting what was caught only where the CATCH ends well.  *)
LeaveCatchCarrying ==
    /\ Raised({"catch"})
    /\ ~Takes
    /\ Noted
    /\ frames' = Around
    /\ UNCHANGED <<exc, leaving, tran, tables, caught, answers, happened>>
    /\ Unasked

LeaveCatch ==
    /\ Raised({"catch"})
    /\ ~Takes
    /\ Noted
    /\ frames' = Around
    /\ caught' = NoExc
    /\ UNCHANGED <<exc, leaving, tran, tables, answers, happened>>
    /\ Unasked

(* The slip of ending the transactions at an error a CATCH handles.        *)
EnterCatchClosing ==
    /\ Raised({"try"})
    /\ frames' = Append(Around, Frame("catch", Under(Around).catching))
    /\ tran' = EndedTheBatch(tran, exc, xactAbort)
    /\ errorNumber' = exc.number
    /\ caught' = exc
    /\ exc' = NoExc
    /\ happened' = SubSeq(happened, 1, Len(happened) - 1)
    /\ UNCHANGED <<leaving, tables, answers>>
    /\ Unasked

(* The TRY's CATCH runs in its place.                                      *)
EnterCatch ==
    /\ Raised({"try"})
    /\ frames' = Append(Around, Frame("catch", Under(Around).catching))
    /\ errorNumber' = exc.number
    /\ caught' = exc
    /\ exc' = NoExc
    /\ happened' = SubSeq(happened, 1, Len(happened) - 1)
    /\ UNCHANGED <<leaving, tran, tables, answers>>
    /\ Unasked

(* The slip of dropping the text's tables only where it ends well.         *)
LeaveTextKeeping ==
    /\ Raised({"text"})
    /\ ~Takes
    /\ errorNumber' = exc.number
    /\ frames' = Around
    /\ IF ~Top.catching \/ EscapesWrittenOut(exc)
       THEN UNCHANGED <<exc, answers>>
       ELSE exc' = NoExc /\ answers' = Append(answers, exc)
    /\ UNCHANGED <<leaving, tran, tables, caught, happened>>
    /\ Unasked

(* An error ends the text alone unless it escapes or a TRY is around.      *)
LeaveText ==
    /\ Raised({"text"})
    /\ ~Takes
    /\ errorNumber' = exc.number
    /\ tables' = TablesHeld
    /\ frames' = Around
    /\ IF ~Top.catching \/ EscapesWrittenOut(exc)
       THEN UNCHANGED <<exc, answers>>
       ELSE exc' = NoExc /\ answers' = Append(answers, exc)
    /\ UNCHANGED <<leaving, tran, caught, happened>>
    /\ Unasked

(* The batch ended at it, and what answered before it is kept or is not.   *)
LeaveBatch ==
    /\ Raised({"batch"})
    /\ ~Takes
    /\ Noted
    /\ tran' = EndedTheBatch(tran, exc, xactAbort)
    /\ exc' = NoExc
    /\ Answer(IF answers = <<>> \/ ~KeepsWhatAnswered(exc) THEN <<exc>>
              ELSE Append(answers, exc))
    /\ UNCHANGED <<xactAbort, tables, caught, leaving, batches, ran, outside, happened>>

(* A BREAK or a CONTINUE on its way out.                                   *)
LeaveTurn ==
    /\ frames # <<>> /\ leaving # "no"
    /\ Top.kind # "while"
    /\ frames' = Around
    /\ caught' = IF Top.kind = "catch" THEN NoExc ELSE caught
    /\ UNCHANGED <<exc, leaving, errorNumber, tran, tables, answers, happened>>
    /\ Unasked

Break ==
    /\ frames # <<>> /\ leaving = "BREAK"
    /\ Top.kind = "while"
    /\ frames' = Around
    /\ leaving' = "no"
    /\ UNCHANGED <<exc, errorNumber, tran, tables, caught, answers, happened>>
    /\ Unasked

Continue ==
    /\ frames # <<>> /\ leaving = "CONTINUE"
    /\ Top.kind = "while"
    /\ AskAgain

-------------------------------------------------------------------------------
RunStatement ==
    \/ Read
    \/ \E number \in Fails, isRead \in BOOLEAN : Fail(number, isRead)
    \/ \E clears \in BOOLEAN : SetOrDeclare(clears)
    \/ SetXactAbort
    \/ \E kind \in TranKinds, name \in NamesOrNone : TransactionKind(kind, name)
    \/ \E x \in TempTables : CreateTable(x) \/ DropTable(x)
    \/ Raiserror
    \/ Throw(Unsupported)
    \/ Rethrow
    \/ \E word \in {"BREAK", "CONTINUE"} : LeaveTheTurn(word)
    \/ If \/ Block \/ Try \/ While
    \/ \E compiles \in BOOLEAN : ExecText(compiles)

Close == CloseBlock \/ CloseCatch \/ EndTurn \/ CloseText \/ CloseBatch

Unwind == Take \/ LeaveBlock \/ LeaveCatch \/ EnterCatch \/ LeaveText
          \/ LeaveBatch \/ LeaveTurn \/ Break \/ Continue

Next ==
    \/ \E number \in {SyntaxError, AlreadyAnObject} : Refuse(number)
    \/ \E number \in Fails \cup {NoError} : LoneRead(number)
    \/ StartBatch
    \/ RunStatement
    \/ Close
    \/ Unwind

Spec == Init /\ [][Next]_vars

(* One thread runs the batch to its end, which a single read is not.       *)
FairSpec ==
    Spec /\ WF_vars(Close \/ Unwind \/ (shape # "more" /\ RunStatement))

-------------------------------------------------------------------------------
(* Properties.                                                             *)

(* ERROR_NUMBER() and a bare THROW find an error in a CATCH and nowhere    *)
(* else, however the CATCH is left (_tried).                               *)
CaughtInItsCatchOnly == caught # NoExc => Open({"catch"})

(* A table an EXEC of text made is not there once the text is done,        *)
(* however it ended, under a name nothing outside a text made              *)
(* (_ran_written_out).                                                     *)
TextLeavesNoTable == ~Open({"text"}) => tables \subseteq outside

(* What is raised in a TRY, from however many constructs and texts deep,   *)
(* is not answered before its CATCH has seen it, and what was answered     *)
(* stays: the batch answers rows or nothing meanwhile (_run_all).          *)
TryingIsSilent ==
    [][Open({"try"}) => answers' \in {answers, Append(answers, Rows)}]_vars

(* Errors end transactions where they end the batch and nowhere before:    *)
(* a CATCH and the statements after a text find them as they were left.    *)
OnlyTheEndOfABatchRollsBack ==
    [][(ran' = ran /\ frames' # <<>>) => tran' = tran]_vars

(* A batch that runs on past a text which left more or fewer transactions  *)
(* than it found has told the client of an error.                          *)
MismatchIsTold ==
    [][(frames # <<>> /\ Top.kind = "text" /\ Len(frames') < Len(frames)) =>
         \/ tran'.count = Top.opened
         \/ exc' # NoExc
         \/ Len(answers') > Len(answers)]_vars

(* A number the code has in neither of its lists: the error is treated as  *)
(* one of compiling, and a batch that ends at it answers nothing else.     *)
InNeitherList(e) == e.carriesOn = "unset" /\ e.number \notin GoesOn \cup EndsAfter

(* While a batch runs, what it has answered and the error on its way out   *)
(* are the rows it gave and the errors no CATCH took, each once and in the *)
(* order they happened, through every block, loop and text.  The client    *)
(* reads all of them, unless the batch ended at an error of neither list:  *)
(* then it reads that one alone, and neither the rows nor the errors that  *)
(* the batch had run past (_run_all, _batch).                              *)
TellsWhatHappened ==
    IF frames # <<>>
    THEN happened = IF exc = NoExc THEN answers ELSE Append(answers, exc)
    ELSE \/ reply = happened
         \/ /\ happened # <<>>
            /\ LET last == happened[Len(happened)]
               IN InNeitherList(last) /\ reply = <<last>>

(* Every batch is answered: the bound on a loop's turns ends it.           *)
EveryBatchEnds == frames # <<>> ~> frames = <<>>

===============================================================================
