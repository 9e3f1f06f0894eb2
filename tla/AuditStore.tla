----------------------------- MODULE AuditStore -----------------------------
(***************************************************************************)
(* The private store of src/workspace/store.py: one writer process that    *)
(* keeps its records in SQLite and announces every change in audit.jsonl   *)
(* and transcript.log before it commits.  The two files and the database   *)
(* cannot be written atomically, so the store detects every divergence:    *)
(* it verifies when it starts and after every rollback, compares the files *)
(* with what it last saw before every transaction, and stays blocked once  *)
(* they differ.  A crash may fall between any two durable steps.           *)
(*                                                                         *)
(* The process lock (RLock) and BEGIN IMMEDIATE serialise transactions, so *)
(* one program counter stands for all request threads.                     *)
(***************************************************************************)
EXTENDS Naturals, SequencesExt

CONSTANTS Records,      \* the records transactions write
          Notes,        \* events that announce no record change
          Torn,         \* an incomplete or foreign line in a file
          NoEvent,      \* no event is being written
          MaxEvents,    \* bound on the events ever begun
          OutsideWrites \* TRUE when something else may touch the files

ASSUME SubjectsAssumption ==
    /\ Records \cap Notes = {}
    /\ MaxEvents \in Nat
    /\ OutsideWrites \in BOOLEAN
    /\ Torn \notin [id : Nat \ {0}, subject : Records \cup Notes, prev : Nat]
    /\ Torn \notin [id : Nat \ {0}, subject : Records \cup Notes]

VARIABLES audit,        \* the lines of audit.jsonl
          transcript,   \* the lines of transcript.log
          events,       \* the committed rows of the events table
          revs,         \* the committed revision count of each record
          txEvents,     \* both as the open transaction sees them
          txRevs,
          pending,      \* the event that event() is writing
          phase,        \* where the process stands
          blocked,      \* Store.blocked is set
          stats,        \* Store.audit_stats, or Unknown
          nextId,       \* a fresh event_id
          outside       \* when a foreign write happened, if it did

files == <<audit, transcript>>
db == <<events, revs>>
tx == <<txEvents, txRevs>>
vars == <<audit, transcript, events, revs, txEvents, txRevs, pending, phase,
          blocked, stats, nextId, outside>>

Subjects == Records \cup Notes
Event == [id : Nat \ {0}, subject : Subjects, prev : Nat]
Readable(e) == [id |-> e.id, subject |-> e.subject]
ReadableEvent == [id : Nat \ {0}, subject : Subjects]
Unknown == <<>>
Phases == {"down", "idle", "open", "event", "audited", "transcribed"}

LastId(s) == IF s = <<>> THEN 0 ELSE Last(s).id

\* The line transcript.log holds for each event.
Transcribe(s) == [i \in 1..Len(s) |-> Readable(s[i])]

\* Every event names the hash of the one before it.
Chained(s) ==
    \A i \in 1..Len(s) : s[i].prev = IF i = 1 THEN 0 ELSE s[i - 1].id

\* verify(): the files hold exactly the committed events, in a hash chain.
Verifies(a, t) ==
    /\ a = events
    /\ t = Transcribe(events)
    /\ Chained(events)

\* Mutant: no comparison of the files before a transaction.
FilesUnchanged_NotCompared == TRUE

FilesUnchanged == stats = Unknown \/ stats = files

\* What a new connection sees.
Snapshot == txEvents' = events /\ txRevs' = revs

Init ==
    /\ audit = <<>>
    /\ transcript = <<>>
    /\ events = <<>>
    /\ revs = [r \in Records |-> 0]
    /\ txEvents = <<>>
    /\ txRevs = revs
    /\ pending = NoEvent
    /\ phase = "down"
    /\ blocked = FALSE
    /\ stats = Unknown
    /\ nextId = 1
    /\ outside = "never"
-----------------------------------------------------------------------------
\* Mutant: a restart does not verify.
Start_Unverified ==
    /\ phase = "down"
    /\ phase' = "idle"
    /\ blocked' = FALSE
    /\ stats' = files
    /\ UNCHANGED <<audit, transcript, db, tx, pending, nextId, outside>>

\* Store.__init__ verifies and blocks itself instead of refusing to open.
Start ==
    /\ phase = "down"
    /\ phase' = "idle"
    /\ blocked' = ~Verifies(audit, transcript)
    /\ stats' = IF Verifies(audit, transcript) THEN files ELSE Unknown
    /\ UNCHANGED <<audit, transcript, db, tx, pending, nextId, outside>>

\* Mutant: a blocked store still opens transactions.
BeginTx_WhenBlocked ==
    /\ phase = "idle"
    /\ FilesUnchanged
    /\ phase' = "open"
    /\ Snapshot
    /\ UNCHANGED <<audit, transcript, db, pending, blocked, stats, nextId,
                   outside>>

\* tx(): _assert_write_ready passes and BEGIN IMMEDIATE takes the snapshot.
BeginTx ==
    /\ phase = "idle"
    /\ ~blocked
    /\ FilesUnchanged
    /\ phase' = "open"
    /\ Snapshot
    /\ UNCHANGED <<audit, transcript, db, pending, blocked, stats, nextId,
                   outside>>

\* _assert_write_ready finds files it did not write.
RefuseTx ==
    /\ phase = "idle"
    /\ ~blocked
    /\ ~FilesUnchanged
    /\ blocked' = TRUE
    /\ UNCHANGED <<audit, transcript, db, tx, pending, phase, stats, nextId,
                   outside>>

\* event() reads the last row inside the transaction and builds the body.
BeginEvent(s) ==
    /\ phase = "open"
    /\ nextId <= MaxEvents
    /\ pending' = [id |-> nextId, subject |-> s, prev |-> LastId(txEvents)]
    /\ nextId' = nextId + 1
    /\ phase' = "event"

\* A handler writes a new revision with put() and announces it.
LogChange(r) ==
    /\ BeginEvent(r)
    /\ txRevs' = [txRevs EXCEPT ![r] = @ + 1]
    /\ UNCHANGED <<audit, transcript, db, txEvents, blocked, stats, outside>>

\* A handler announces something that changes no record.
LogNote(n) ==
    /\ BeginEvent(n)
    /\ UNCHANGED <<audit, transcript, db, tx, blocked, stats, outside>>

\* Mutant: a failed write to audit.jsonl is swallowed.
WriteAudit_ErrorSwallowed ==
    /\ phase = "event"
    /\ audit' \in {audit, Append(audit, pending)}
    /\ phase' = "audited"
    /\ UNCHANGED <<transcript, db, tx, pending, blocked, stats, nextId,
                   outside>>

WriteAudit ==
    /\ phase = "event"
    /\ audit' = Append(audit, pending)
    /\ phase' = "audited"
    /\ UNCHANGED <<transcript, db, tx, pending, blocked, stats, nextId,
                   outside>>

\* Mutant: the hashed body goes to the transcript instead of the readable line.
WriteTranscript_WholeBody ==
    /\ phase = "audited"
    /\ transcript' = Append(transcript, pending)
    /\ phase' = "transcribed"
    /\ UNCHANGED <<audit, db, tx, pending, blocked, stats, nextId, outside>>

WriteTranscript ==
    /\ phase = "audited"
    /\ transcript' = Append(transcript, Readable(pending))
    /\ phase' = "transcribed"
    /\ UNCHANGED <<audit, db, tx, pending, blocked, stats, nextId, outside>>

InsertEvent ==
    /\ phase = "transcribed"
    /\ txEvents' = Append(txEvents, pending)
    /\ stats' = files
    /\ pending' = NoEvent
    /\ phase' = "open"
    /\ UNCHANGED <<audit, transcript, db, txRevs, blocked, nextId, outside>>

Commit ==
    /\ phase = "open"
    /\ events' = txEvents
    /\ revs' = txRevs
    /\ phase' = "idle"
    /\ UNCHANGED <<audit, transcript, tx, pending, blocked, stats, nextId,
                   outside>>
-----------------------------------------------------------------------------
\* What the transaction's except clause does: roll back, then verify.
RollBack ==
    /\ Snapshot
    /\ pending' = NoEvent
    /\ phase' = "idle"
    /\ stats' = IF Verifies(audit', transcript') THEN files' ELSE stats

\* Mutant: a rollback is taken to undo the announced events too.
Abort_Unverified ==
    /\ phase = "open"
    /\ UNCHANGED <<audit, transcript, db, nextId, outside>>
    /\ RollBack
    /\ blocked' = blocked

\* Mutant: the rollback decides alone whether the store is blocked.
Abort_Forgets ==
    /\ phase = "open"
    /\ UNCHANGED <<audit, transcript, db, nextId, outside>>
    /\ RollBack
    /\ blocked' = ~Verifies(audit, transcript)

\* The handler raises, or COMMIT itself fails.  Nothing unblocks the store.
Abort ==
    /\ phase = "open"
    /\ UNCHANGED <<audit, transcript, db, nextId, outside>>
    /\ RollBack
    /\ blocked' = (blocked \/ ~Verifies(audit, transcript))

\* A line may be missing, torn or complete when its write is interrupted.
AuditInterrupted ==
    /\ phase = "event"
    /\ audit' \in {audit, Append(audit, Torn)}
    /\ UNCHANGED transcript

TranscriptInterrupted ==
    /\ phase = "audited"
    /\ transcript' \in {transcript, Append(transcript, Torn)}
    /\ UNCHANGED audit

\* fsync failed after a complete write, or the INSERT failed.
LinesWritten ==
    /\ phase \in {"audited", "transcribed"}
    /\ UNCHANGED files

\* event() raises: its own except blocks the store before tx() rolls back.
EventFails ==
    /\ AuditInterrupted \/ TranscriptInterrupted \/ LinesWritten
    /\ RollBack
    /\ blocked' = TRUE
    /\ UNCHANGED <<db, nextId, outside>>

\* The process dies, or is stopped while it is idle.
Crash ==
    /\ \/ AuditInterrupted
       \/ TranscriptInterrupted
       \/ phase \in {"idle", "open", "transcribed"} /\ UNCHANGED files
    /\ phase' = "down"
    /\ Snapshot
    /\ pending' = NoEvent
    /\ blocked' = FALSE
    /\ stats' = Unknown
    /\ UNCHANGED <<db, nextId, outside>>
-----------------------------------------------------------------------------
\* Mutant: any well-formed tail is adopted, whatever operation it announces.
TailMatches_AnyOperation(allowed) ==
    /\ Len(audit) = Len(events) + 1
    /\ Len(transcript) = Len(audit)
    /\ IsPrefix(events, audit)
    /\ IsPrefix(Transcribe(events), transcript)
    /\ Last(audit) # Torn
    /\ Last(audit).prev = LastId(events)
    /\ Last(transcript) = Readable(Last(audit))

\* The checks of reconcile_tail_event: valid history and exactly one complete
\* line beyond it in both files, chained to it and among the allowed events.
TailMatches(allowed) ==
    /\ Len(audit) = Len(events) + 1
    /\ Len(transcript) = Len(audit)
    /\ IsPrefix(events, audit)
    /\ IsPrefix(Transcribe(events), transcript)
    /\ Chained(events)
    /\ Last(audit) # Torn
    /\ Last(audit).prev = LastId(events)
    /\ Last(audit).subject \in allowed
    /\ Last(transcript) = Readable(Last(audit))

\* Only a note can be recovered.  When a check fails the store stays blocked.
Reconcile(allowed) ==
    /\ phase = "idle"
    /\ blocked
    /\ TailMatches(allowed)
    /\ events' = Append(events, Last(audit))
    /\ txEvents' = events'
    /\ txRevs' = revs
    /\ blocked' = FALSE
    /\ stats' = files
    /\ UNCHANGED <<audit, transcript, revs, pending, phase, nextId, outside>>

\* A handler that finds damaged evidence, or fails to clean up after itself,
\* blocks the store.  It holds no lock: a transaction of another thread that
\* is already open completes.
Block ==
    /\ phase # "down"
    /\ ~blocked
    /\ blocked' = TRUE
    /\ UNCHANGED <<audit, transcript, db, tx, pending, phase, stats, nextId,
                   outside>>

\* Something other than this writer appends to, or damages, one of the files.
Damaged(lines) ==
    {Append(lines, Torn)} \cup
    (IF lines = <<>> THEN {} ELSE {[lines EXCEPT ![Len(lines)] = Torn]})

OutsideWrite ==
    /\ OutsideWrites
    /\ outside = "never"
    /\ \/ audit' \in Damaged(audit) /\ UNCHANGED transcript
       \/ transcript' \in Damaged(transcript) /\ UNCHANGED audit
    /\ outside' = IF phase \in {"down", "idle"} THEN "between" ELSE "during"
    /\ UNCHANGED <<db, tx, pending, phase, blocked, stats, nextId>>

Next ==
    \/ Start
    \/ BeginTx
    \/ RefuseTx
    \/ \E r \in Records : LogChange(r)
    \/ \E n \in Notes : LogNote(n)
    \/ WriteAudit
    \/ WriteTranscript
    \/ InsertEvent
    \/ Commit
    \/ Abort
    \/ EventFails
    \/ Crash
    \/ \E n \in Notes : Reconcile({n})
    \/ Block
    \/ OutsideWrite

Spec == Init /\ [][Next]_vars
-----------------------------------------------------------------------------
Lines == Seq(Event \cup {Torn})
ReadableLines == Seq(ReadableEvent \cup {Torn})

\* Every variable keeps its shape.
TypeOK ==
    /\ audit \in Lines
    /\ transcript \in ReadableLines
    /\ events \in Seq(Event)
    /\ revs \in [Records -> Nat]
    /\ txEvents \in Seq(Event)
    /\ txRevs \in [Records -> Nat]
    /\ pending \in Event \cup {NoEvent}
    /\ phase \in Phases
    /\ blocked \in BOOLEAN
    /\ stats = Unknown \/ stats \in Lines \X ReadableLines
    /\ nextId \in Nat \ {0}
    /\ outside \in {"never", "between", "during"}

\* Write-ahead: whatever the database has committed, both files already held
\* (event() fsyncs both before its INSERT, and no file is ever shortened).
CommittedIsDurable ==
    outside = "never" =>
        /\ IsPrefix(events, audit)
        /\ IsPrefix(Transcribe(events), transcript)

\* A store that would accept the next transaction agrees with its files: no
\* crash, failed write, failed commit, restart or recovery leaves an
\* announced but uncommitted event behind an unblocked writer.
WriterReady == phase = "idle" /\ ~blocked /\ FilesUnchanged

ReadyMeansAgreed ==
    WriterReady /\ outside # "during" => Verifies(audit, transcript)

\* audit.jsonl never forks: every complete line names the line before it, so
\* a sequence number is never announced twice.
AuditNeverForks ==
    outside = "never" =>
        \A i \in 1..Len(audit) :
            audit[i] # Torn =>
                audit[i].prev = IF i = 1 THEN 0 ELSE audit[i - 1].id

\* A record revision is committed exactly when its event is, also when a
\* tail is adopted after a crash: recovery never announces a lost change.
EveryRevisionAnnounced ==
    \A r \in Records :
        revs[r] = Cardinality({i \in 1..Len(events) :
                                     events[i].subject = r})

\* Once something else touched the files between two transactions, nothing
\* is committed any more, across restarts and attempts to recover.
ForeignWriteStopsCommits == [][outside = "between" => UNCHANGED db]_vars

\* A blocked store closes: it ends the transaction that is open, and freezes.
LedgerMode ==
    IF phase = "down" \/ (phase = "idle" /\ blocked) THEN "frozen"
    ELSE IF blocked THEN "closing" ELSE "open"

\* What the audit trail promises its readers: until something else writes a
\* file, every step of the store is a step of AuditLedger or none of its steps.
\* A fault that is reported beside an open transaction outlives its rollback.
Ledger == INSTANCE AuditLedger WITH
    shown <- audit,
    ledger <- events,
    revs <- revs,
    mode <- LedgerMode

ImplementsLedger ==
    /\ Ledger!Init
    /\ [][outside' = "never" => Ledger!Next]_(Ledger!vars)
=============================================================================
