----------------------------- MODULE ReceiptAck -----------------------------
(***************************************************************************)
(* The operator's parser-ack command (cli.py acknowledge_parser_receipt):  *)
(* with the services stopped it commits an intent event, moves the parser  *)
(* receipt from the queue into the archive, and commits a completion       *)
(* event.  The command may die at any step; the same command, repeated,    *)
(* takes over what the audit trail says was left.                          *)
(*                                                                         *)
(* Every event goes through the store of AuditStore, and every process     *)
(* (a command, or the server between commands) opens the store afresh.     *)
(***************************************************************************)
EXTENDS AuditStore

CONSTANTS Receipts,   \* the closed receipts the parser left behind
          NoReceipt   \* no command is running

Requested(k) == <<"requested", k>>
Acknowledged(k) == <<"acknowledged", k>>

\* The events of the command; the server logs others.
AckNotes == {"requested", "acknowledged"} \X Receipts

ASSUME ReceiptsAssumption ==
    /\ AckNotes \subseteq Notes
    /\ NoReceipt \notin Receipts

VARIABLES queue,        \* receipts in parser-queue
          archive,      \* receipts in artifacts/parser-receipts
          receipt,      \* the receipt of the running command
          step,         \* where that command stands; "none" for the server
          interrupted   \* the receipt of the last command, if it was cut short

place == <<queue, archive>>
command == <<receipt, step, interrupted>>
ackVars == <<vars, place, command>>

Steps == {"none", "check", "request", "requesting", "move", "complete",
          "completing", "ended"}

AckInit ==
    /\ Init
    /\ queue = Receipts
    /\ archive = {}
    /\ receipt = NoReceipt
    /\ step = "none"
    /\ interrupted = NoReceipt

\* The command goes on to another step.
Advance(s) == step' = s /\ UNCHANGED <<receipt, interrupted>>

\* The command raises; only its exit is left.
Raise == step' = "ended" /\ interrupted' = receipt /\ UNCHANGED receipt
-----------------------------------------------------------------------------
\* The server opens the store and works between commands.
ServerStart ==
    /\ Start
    /\ step = "none"
    /\ interrupted' = IF blocked' THEN interrupted ELSE NoReceipt
    /\ UNCHANGED <<place, receipt, step>>

Serve ==
    /\ step = "none"
    /\ \/ BeginTx
       \/ \E r \in Records : LogChange(r)
       \/ \E n \in Notes \ AckNotes : LogNote(n)
       \/ Commit
       \/ Abort
       \/ EventFails
       \/ Block
    /\ UNCHANGED <<place, command>>

\* The three durable steps of event() are the same for every caller.
WriteEvent ==
    /\ WriteAudit \/ WriteTranscript \/ InsertEvent
    /\ UNCHANGED <<place, command>>

CommandStart(k) ==
    /\ Start
    /\ step = "none"
    /\ receipt' = k
    /\ step' = "check"
    /\ interrupted' = IF interrupted = k THEN k ELSE NoReceipt
    /\ UNCHANGED place
-----------------------------------------------------------------------------
\* Mutant: an archived receipt adopts only its completion.
Adoptable_OnlyOne(k) ==
    IF k \in queue \ archive THEN {Requested(k)}
    ELSE IF k \in archive \ queue THEN {Acknowledged(k)}
    ELSE {}

\* Mutant: any tail is adopted.
Adoptable_AnyTail(k) == Subjects

\* Which orphaned tail a blocked command may adopt: where the receipt lies
\* tells how far the interrupted command came.
Adoptable(k) ==
    IF k \in queue \ archive THEN {Requested(k)}
    ELSE IF k \in archive \ queue THEN {Requested(k), Acknowledged(k)}
    ELSE {}

Recoverable(k) == TailMatches(Adoptable(k))

StoreReady ==
    /\ step = "check"
    /\ ~blocked
    /\ Advance("request")
    /\ UNCHANGED <<vars, place>>

\* Mutant: a recovered completion is followed by another one.
Recover_NoReturn ==
    /\ step = "check"
    /\ Reconcile(Adoptable(receipt))
    /\ Advance("move")
    /\ UNCHANGED place

\* reconcile_tail_event commits the orphan; a recovered completion ends it.
Recover ==
    /\ step = "check"
    /\ Reconcile(Adoptable(receipt))
    /\ Advance(IF Last(audit).subject = Acknowledged(receipt)
               THEN "ended" ELSE "move")
    /\ UNCHANGED place

GiveUp ==
    /\ step = "check"
    /\ blocked
    /\ ~Recoverable(receipt)
    /\ Advance("ended")
    /\ UNCHANGED <<vars, place>>

Begin ==
    /\ step \in {"request", "complete"}
    /\ BeginTx
    /\ UNCHANGED <<place, command>>

LogRequested ==
    /\ step = "request"
    /\ LogNote(Requested(receipt))
    /\ Advance("requesting")
    /\ UNCHANGED place

CommitRequested ==
    /\ step = "requesting"
    /\ Commit
    /\ Advance("move")
    /\ UNCHANGED place

\* Mutant: the archive is taken before the intent is recorded.
Move_BeforeIntent ==
    /\ step \in {"request", "move"}
    /\ phase = "idle"
    /\ receipt \in queue \cup archive
    /\ queue' = queue \ {receipt}
    /\ archive' = archive \cup {receipt}
    /\ Advance(IF step = "move" THEN "complete" ELSE "request")
    /\ UNCHANGED vars

\* acknowledge_receipt renames the receipt, or finds it archived already.
Move ==
    /\ step = "move"
    /\ phase = "idle"
    /\ receipt \in queue \cup archive
    /\ queue' = queue \ {receipt}
    /\ archive' = archive \cup {receipt}
    /\ Advance("complete")
    /\ UNCHANGED vars

\* Mutant: a failed move is passed over.
MoveFails_Ignored ==
    /\ step = "move"
    /\ phase = "idle"
    /\ Advance("complete")
    /\ UNCHANGED <<vars, place>>

\* A check, the rename or the fsync after it fails.
MoveFails ==
    /\ step = "move"
    /\ phase = "idle"
    /\ \/ UNCHANGED place
       \/ /\ receipt \in queue
          /\ queue' = queue \ {receipt}
          /\ archive' = archive \cup {receipt}
    /\ Raise
    /\ UNCHANGED vars

LogAcknowledged ==
    /\ step = "complete"
    /\ LogNote(Acknowledged(receipt))
    /\ Advance("completing")
    /\ UNCHANGED place

CommitAcknowledged ==
    /\ step = "completing"
    /\ Commit
    /\ step' = "ended"
    /\ interrupted' = NoReceipt
    /\ UNCHANGED <<receipt, place>>

\* A transaction of the command is refused or fails; the store keeps what
\* event() and tx() made of it and the process ends.
CommandFails ==
    /\ step \in {"request", "requesting", "complete", "completing"}
    /\ RefuseTx \/ Abort \/ EventFails
    /\ Raise
    /\ UNCHANGED place

\* A process ends, or dies on its way; a failed command stays unfinished.
Stop ==
    /\ Crash
    /\ step' = "none"
    /\ receipt' = NoReceipt
    /\ interrupted' =
          IF step \in {"none", "check", "ended"} THEN interrupted ELSE receipt
    /\ UNCHANGED place

Disturb ==
    /\ OutsideWrite
    /\ UNCHANGED <<place, command>>

AckNext ==
    \/ ServerStart
    \/ Serve
    \/ WriteEvent
    \/ \E k \in Receipts : CommandStart(k)
    \/ StoreReady
    \/ Recover
    \/ GiveUp
    \/ Begin
    \/ LogRequested
    \/ CommitRequested
    \/ Move
    \/ MoveFails
    \/ LogAcknowledged
    \/ CommitAcknowledged
    \/ CommandFails
    \/ Stop
    \/ Disturb

AckSpec == AckInit /\ [][AckNext]_ackVars
-----------------------------------------------------------------------------
\* Whether an entry is in a sequence of events.
Holds(s, note) == \E i \in 1..Len(s) : s[i] # Torn /\ s[i].subject = note

\* Intent before effect: a receipt leaves the queue only after its request is
\* committed, through every crash, failed rename and recovered tail.
ArchivedWasRequested ==
    \A k \in archive : Holds(events, Requested(k))

\* No completion is on record, not even announced and uncommitted, for a
\* receipt that is not safe in the archive and requested before.
AcknowledgedIsArchived ==
    outside = "never" =>
        \A k \in Receipts :
            Holds(audit, Acknowledged(k)) =>
                /\ k \in archive \ queue
                /\ Holds(events, Requested(k))

\* Between any two completions of one receipt lies a request of its own: a
\* recovered completion is not recorded a second time.
EachCompletionRequested ==
    \A k \in Receipts : \A i, j \in 1..Len(events) :
        /\ i < j
        /\ events[i].subject = Acknowledged(k)
        /\ events[j].subject = Acknowledged(k)
        => \E m \in i..j : events[m].subject = Requested(k)

\* Through every crash and repetition: a receipt is in one of its two places,
\* it is archived only as requested, acknowledged only as archived, and once
\* for each request.
AcknowledgedInOrder ==
    /\ queue \cup archive = Receipts /\ queue \cap archive = {}
    /\ ArchivedWasRequested
    /\ AcknowledgedIsArchived
    /\ EachCompletionRequested

\* OPERATIONS.md: the same command repeats an interrupted acknowledgement.
Repeatable ==
    step = "check" /\ blocked /\ interrupted = receipt /\ outside = "never"
        => Recoverable(receipt)

\* What the code guarantees of it: the repeated command takes over unless the
\* interruption fell inside the two file appends of event().
WholeTail ==
    /\ Len(transcript) = Len(audit)
    /\ \A i \in 1..Len(audit) : audit[i] # Torn /\ transcript[i] # Torn

RepeatableUnlessTorn == WholeTail => Repeatable

\* The command keeps every promise of the store it writes through.
KeepsStore == Spec
=============================================================================
