-------------------------- MODULE AuditStoreProofs --------------------------
(***************************************************************************)
(* Proofs about AuditStore for any sets of records and notes, any number   *)
(* of events and any placement of crashes, and about the command of        *)
(* ReceiptAck, which writes through it, for any number of receipts.  The   *)
(* first part uses nothing of the command: every store is one with no      *)
(* receipts.                                                               *)
(***************************************************************************)
EXTENDS ReceiptAck, SequenceTheorems, FiniteSetTheorems, TLAPS

-----------------------------------------------------------------------------
(* Prefixes and transcripts.                                               *)

\* A prefix, entry by entry.
LEMMA PrefixPointwise ==
    ASSUME NEW S, NEW s \in Seq(S), NEW t \in Seq(S)
    PROVE  IsPrefix(s, t) <=> /\ Len(s) <= Len(t)
                              /\ \A i \in 1..Len(s) : s[i] = t[i]
  BY DEF IsPrefix

\* Appending to the longer sequence keeps a prefix.
LEMMA PrefixAppend ==
    ASSUME NEW S, NEW s \in Seq(S), NEW t \in Seq(S), NEW e \in S,
           IsPrefix(s, t)
    PROVE  IsPrefix(s, Append(t, e)) /\ IsPrefix(t, Append(t, e))
  <1> DEFINE u == Append(t, e)
  <1>1. /\ u \in Seq(S)
        /\ Len(u) = Len(t) + 1
        /\ \A i \in 1..Len(t) : u[i] = t[i]
    OBVIOUS
  <1>2. Len(s) <= Len(t) /\ \A i \in 1..Len(s) : s[i] = t[i]
    BY PrefixPointwise
  <1> HIDE DEF u
  <1>3. IsPrefix(s, u) /\ IsPrefix(t, u)
    BY <1>1, <1>2, PrefixPointwise
  <1> QED BY <1>3 DEF u

\* The transcript of a sequence is a sequence of readable lines.
LEMMA TranscribeType ==
    ASSUME NEW s \in Seq(Event)
    PROVE  /\ Transcribe(s) \in Seq(ReadableEvent)
           /\ Len(Transcribe(s)) = Len(s)
           /\ \A i \in 1..Len(s) : Transcribe(s)[i] = Readable(s[i])
  <1>1. \A i \in 1..Len(s) : s[i] \in Event
    OBVIOUS
  <1>2. \A e \in Event : Readable(e) \in ReadableEvent
    BY DEF Readable, Event, ReadableEvent
  <1>3. \A i \in 1..Len(s) : Readable(s[i]) \in ReadableEvent
    BY <1>1, <1>2
  <1>4. Len(s) \in Nat
    OBVIOUS
  <1>5. Transcribe(s) \in [1..Len(s) -> ReadableEvent]
    BY <1>3 DEF Transcribe
  <1>6. Transcribe(s) \in Seq(ReadableEvent)
    BY <1>4, <1>5
  <1>7. Len(Transcribe(s)) = Len(s)
    BY <1>4, <1>5, <1>6, LenProperties
  <1> QED BY <1>6, <1>7 DEF Transcribe

\* Transcribing one more event appends one more line.
LEMMA TranscribeAppend ==
    ASSUME NEW s \in Seq(Event), NEW e \in Event
    PROVE  Transcribe(Append(s, e)) = Append(Transcribe(s), Readable(e))
  BY DEF Transcribe, Readable, Event

\* Transcribing keeps prefixes.
LEMMA TranscribePrefix ==
    ASSUME NEW s \in Seq(Event), NEW t \in Seq(Event), IsPrefix(s, t)
    PROVE  IsPrefix(Transcribe(s), Transcribe(t))
  BY PrefixPointwise, TranscribeType
-----------------------------------------------------------------------------
(* Type correctness.                                                       *)

LEMMA TypeInit == Init => TypeOK
  <1> SUFFICES ASSUME Init PROVE TypeOK
    OBVIOUS
  <1>1. /\ audit \in Lines /\ transcript \in ReadableLines
        /\ events \in Seq(Event) /\ txEvents \in Seq(Event)
    BY EmptySeq DEF Init, Lines, ReadableLines
  <1>2. revs \in [Records -> Nat] /\ txRevs \in [Records -> Nat]
    BY DEF Init
  <1>3. nextId \in Nat \ {0}
    BY DEF Init
  <1> QED BY <1>1, <1>2, <1>3 DEF Init, TypeOK, Phases

\* The id of the last event, or 0.
LEMMA LastIdType ==
    ASSUME NEW s \in Seq(Event)
    PROVE  LastId(s) \in Nat
  <1>1. CASE s = <<>>
    BY <1>1 DEF LastId
  <1>2. CASE s # <<>>
    <2>1. Len(s) \in 1..Len(s)
      BY <1>2
    <2>2. s[Len(s)] \in Event
      BY <2>1
    <2> QED BY <1>2, <2>2 DEF LastId, Last, Event
  <1> QED BY <1>1, <1>2

\* An event built inside the transaction is an event.
LEMMA BeginEventType ==
    ASSUME TypeOK, NEW s \in Subjects, BeginEvent(s)
    PROVE  pending' \in Event /\ nextId' \in Nat \ {0} /\ phase' \in Phases
  <1>1. LastId(txEvents) \in Nat
    BY LastIdType DEF TypeOK
  <1>2. nextId \in Nat \ {0} /\ nextId + 1 \in Nat \ {0}
    BY DEF TypeOK
  <1>3. pending' \in Event
    BY <1>1, <1>2 DEF BeginEvent, Event
  <1> QED BY <1>2, <1>3 DEF BeginEvent, Phases

\* Every line that is written is a line.
LEMMA LineTypes ==
    ASSUME TypeOK
    PROVE  /\ Append(audit, Torn) \in Lines
           /\ Append(transcript, Torn) \in ReadableLines
           /\ pending \in Event => Append(audit, pending) \in Lines
           /\ pending \in Event =>
                Append(transcript, Readable(pending)) \in ReadableLines
           /\ Damaged(audit) \subseteq Lines
           /\ Damaged(transcript) \subseteq ReadableLines
  <1>1. Append(audit, Torn) \in Lines /\ Append(transcript, Torn) \in ReadableLines
    BY DEF TypeOK, Lines, ReadableLines
  <1>2. ASSUME pending \in Event
        PROVE  /\ Append(audit, pending) \in Lines
               /\ Append(transcript, Readable(pending)) \in ReadableLines
    <2>1. Readable(pending) \in ReadableEvent
      BY <1>2 DEF Readable, Event, ReadableEvent
    <2> QED BY <1>2, <2>1 DEF TypeOK, Lines, ReadableLines
  <1>3. ASSUME NEW S, NEW s \in Seq(S \cup {Torn})
        PROVE  Damaged(s) \subseteq Seq(S \cup {Torn})
    <2>1. Append(s, Torn) \in Seq(S \cup {Torn})
      OBVIOUS
    <2>2. ASSUME s # <<>>
          PROVE  [s EXCEPT ![Len(s)] = Torn] \in Seq(S \cup {Torn})
      <3>1. Len(s) \in 1..Len(s)
        BY <2>2
      <3> QED BY <3>1, ExceptSeq
    <2> QED BY <2>1, <2>2 DEF Damaged
  <1> QED BY <1>1, <1>2, <1>3 DEF TypeOK, Lines, ReadableLines

\* A tail that passes the checks of reconcile_tail_event is an event, and with
\* it the files hold exactly the committed events and that one.
LEMMA TailIsEvent ==
    ASSUME TypeOK, NEW allowed, TailMatches(allowed)
    PROVE  Last(audit) \in Event
  <1>1. Len(audit) \in 1..Len(audit)
    BY DEF TailMatches, TypeOK, Lines
  <1>2. audit[Len(audit)] \in Event \cup {Torn}
    BY <1>1 DEF TypeOK, Lines
  <1> QED BY <1>2 DEF TailMatches, Last

LEMMA TailCompletes ==
    ASSUME TypeOK, NEW allowed, TailMatches(allowed)
    PROVE  /\ audit = Append(events, Last(audit))
           /\ transcript = Transcribe(Append(events, Last(audit)))
  <1> DEFINE e == Last(audit)
             u == Append(events, e)
             v == Append(Transcribe(events), Readable(e))
  <1>1. e \in Event /\ Readable(e) \in ReadableEvent
    <2>1. e \in Event
      BY TailIsEvent
    <2> QED BY <2>1 DEF Readable, Event, ReadableEvent
  <1>2. /\ audit \in Seq(Event \cup {Torn})
        /\ events \in Seq(Event \cup {Torn})
        /\ transcript \in Seq(ReadableEvent \cup {Torn})
        /\ Transcribe(events) \in Seq(ReadableEvent \cup {Torn})
        /\ Len(Transcribe(events)) = Len(events)
    BY TranscribeType DEF TypeOK, Lines, ReadableLines
  <1>3. /\ \A i \in 1..Len(events) : audit[i] = events[i]
        /\ \A i \in 1..Len(events) : transcript[i] = Transcribe(events)[i]
    BY <1>2, PrefixPointwise DEF TailMatches
  <1>4. /\ Len(audit) = Len(events) + 1 /\ audit[Len(events) + 1] = e
        /\ Len(transcript) = Len(events) + 1
        /\ transcript[Len(events) + 1] = Readable(e)
    BY DEF TailMatches, Last
  <1> HIDE DEF e
  <1>5. /\ u \in Seq(Event \cup {Torn}) /\ Len(u) = Len(events) + 1
        /\ \A i \in 1..Len(events) : u[i] = events[i]
        /\ u[Len(events) + 1] = e
        /\ Len(events) \in Nat
    BY <1>1, <1>2
  <1>6. /\ v \in Seq(ReadableEvent \cup {Torn}) /\ Len(v) = Len(events) + 1
        /\ \A i \in 1..Len(events) : v[i] = Transcribe(events)[i]
        /\ v[Len(events) + 1] = Readable(e)
    <2> DEFINE t == Transcribe(events)
               x == Readable(e)
    <2>1. t \in Seq(ReadableEvent \cup {Torn}) /\ Len(t) = Len(events)
      BY <1>2
    <2>2. x \in ReadableEvent \cup {Torn}
      BY <1>1
    <2> HIDE DEF t, x
    <2>3. /\ Append(t, x) \in Seq(ReadableEvent \cup {Torn})
          /\ Len(Append(t, x)) = Len(t) + 1
          /\ \A i \in 1..Len(t) : Append(t, x)[i] = t[i]
          /\ Append(t, x)[Len(t) + 1] = x
      BY <2>1, <2>2, AppendProperties
    <2> QED BY <2>1, <2>3 DEF t, x
  <1> HIDE DEF u, v
  <1>7. \A i \in 1..Len(audit) : audit[i] = u[i]
    BY <1>3, <1>4, <1>5
  <1>8. audit = u
    BY <1>2, <1>4, <1>5, <1>7, SeqEqual
  <1>9. \A i \in 1..Len(transcript) : transcript[i] = v[i]
    BY <1>3, <1>4, <1>5, <1>6
  <1>10. transcript = v
    BY <1>2, <1>4, <1>6, <1>9, SeqEqual
  <1>11. v = Transcribe(u)
    <2>1. events \in Seq(Event)
      BY DEF TypeOK
    <2> QED BY <1>1, <2>1, TranscribeAppend DEF u, v
  <1> QED BY <1>8, <1>10, <1>11 DEF e, u

\* A state between "event" and "transcribed" is writing an event.
PendingIsEvent == phase \in {"event", "audited", "transcribed"} => pending \in Event

LEMMA TypeNext == TypeOK /\ PendingIsEvent /\ [Next]_vars => (TypeOK /\ PendingIsEvent)'
  <1> SUFFICES ASSUME TypeOK, PendingIsEvent, [Next]_vars
               PROVE  TypeOK' /\ PendingIsEvent'
    OBVIOUS
  <1> USE DEF Phases, PendingIsEvent
  <1>0. files \in Lines \X ReadableLines
    BY DEF TypeOK, files
  <1>1. CASE Start
    BY <1>0, <1>1 DEF TypeOK, Start, db, tx
  <1>2. CASE BeginTx
    BY <1>2 DEF TypeOK, BeginTx, Snapshot, db
  <1>3. CASE RefuseTx \/ Block
    BY <1>3 DEF TypeOK, RefuseTx, Block, db, tx
  <1>4. CASE \E r \in Records : LogChange(r)
    <2> PICK r \in Records : LogChange(r)
      BY <1>4
    <2>1. pending' \in Event /\ nextId' \in Nat \ {0} /\ phase' \in Phases
      BY BeginEventType DEF LogChange, Subjects
    <2>2. txRevs' \in [Records -> Nat]
      BY DEF TypeOK, LogChange
    <2> QED BY <2>1, <2>2 DEF TypeOK, LogChange, db
  <1>5. CASE \E n \in Notes : LogNote(n)
    <2> PICK n \in Notes : LogNote(n)
      BY <1>5
    <2>1. pending' \in Event /\ nextId' \in Nat \ {0} /\ phase' \in Phases
      BY BeginEventType DEF LogNote, Subjects
    <2> QED BY <2>1 DEF TypeOK, LogNote, db, tx
  <1>6. CASE WriteAudit
    BY <1>6, LineTypes DEF TypeOK, WriteAudit, db, tx
  <1>7. CASE WriteTranscript
    BY <1>7, LineTypes DEF TypeOK, WriteTranscript, db, tx
  <1>8. CASE InsertEvent
    <2>1. txEvents' \in Seq(Event)
      BY <1>8 DEF TypeOK, InsertEvent
    <2> QED BY <1>0, <1>8, <2>1 DEF TypeOK, InsertEvent, db
  <1>9. CASE Commit
    BY <1>9 DEF TypeOK, Commit, tx
  <1>10. ASSUME RollBack, UNCHANGED <<db, nextId, outside>>, blocked' \in BOOLEAN,
                audit' \in Lines, transcript' \in ReadableLines
         PROVE  TypeOK' /\ PendingIsEvent'
    <2>1. files' \in Lines \X ReadableLines
      BY <1>10 DEF files
    <2> QED BY <1>10, <2>1 DEF TypeOK, RollBack, Snapshot, db
  <1>11. CASE Abort
    BY <1>10, <1>11 DEF TypeOK, Abort
  <1>12. ASSUME \/ AuditInterrupted
                \/ TranscriptInterrupted
                \/ UNCHANGED files
         PROVE  audit' \in Lines /\ transcript' \in ReadableLines
    BY <1>12, LineTypes DEF TypeOK, AuditInterrupted, TranscriptInterrupted, files
  <1>13. CASE EventFails
    BY <1>10, <1>12, <1>13 DEF EventFails, LinesWritten
  <1>14. CASE Crash
    BY <1>12, <1>14 DEF TypeOK, Crash, Snapshot, db
  <1>15. CASE \E n \in Notes : Reconcile({n})
    <2> PICK n \in Notes : Reconcile({n})
      BY <1>15
    <2>1. Last(audit) \in Event
      BY TailIsEvent DEF Reconcile
    <2>2. events' \in Seq(Event)
      BY <2>1 DEF TypeOK, Reconcile
    <2> QED BY <1>0, <2>2 DEF TypeOK, Reconcile
  <1>16. CASE OutsideWrite
    BY <1>16, LineTypes DEF TypeOK, OutsideWrite, db, tx
  <1>17. CASE UNCHANGED vars
    BY <1>17 DEF TypeOK, vars
  <1> QED BY <1>1, <1>2, <1>3, <1>4, <1>5, <1>6, <1>7, <1>8, <1>9, <1>11,
             <1>13, <1>14, <1>15, <1>16, <1>17 DEF Next

\* Every variable keeps its shape, for any records, notes and bound.
THEOREM TypeCorrect == Spec => []TypeOK
  <1>1. Init => TypeOK /\ PendingIsEvent
    BY TypeInit DEF Init, PendingIsEvent
  <1> QED BY <1>1, TypeNext, PTL DEF Spec
-----------------------------------------------------------------------------
(***************************************************************************)
(* The inductive invariant.  CommittedIsDurable is not inductive alone: it *)
(* needs to know what the files hold at each step of event(), that an open *)
(* transaction only extends what is committed, and that a store is never   *)
(* unblocked with an announced event left behind.                          *)
(***************************************************************************)

Writing == phase \in {"event", "audited", "transcribed"}
InTx == phase = "open" \/ Writing

\* An open transaction extends the committed chain.
TxExtends ==
    /\ Chained(events)
    /\ InTx => IsPrefix(events, txEvents) /\ Chained(txEvents)
    /\ Writing => pending.prev = LastId(txEvents)

\* What the files hold at each step, while nothing else touches them.
FilesAt ==
    outside = "never" =>
        /\ phase = "idle" /\ ~blocked =>
              audit = events /\ transcript = Transcribe(events)
        /\ phase \in {"open", "event"} =>
              audit = txEvents /\ transcript = Transcribe(txEvents)
        /\ phase = "audited" =>
              /\ audit = Append(txEvents, pending)
              /\ transcript = Transcribe(txEvents)
        /\ phase = "transcribed" =>
              /\ audit = Append(txEvents, pending)
              /\ transcript = Append(Transcribe(txEvents), Readable(pending))

\* The last comparison of the files is current between transactions.
StatsCurrent ==
    outside = "never" =>
        (phase = "open" \/ (phase = "idle" /\ ~blocked) => stats = files)

\* A foreign write between transactions leaves a line that no event
\* transcribes to, and a running store notices it before its next write.
Tainted ==
    outside = "between" =>
        /\ phase \in {"down", "idle"}
        /\ \/ \E i \in 1..Len(audit) : audit[i] = Torn
           \/ \E i \in 1..Len(transcript) : transcript[i] = Torn
        /\ phase = "idle" /\ ~blocked => ~FilesUnchanged

Inv ==
    /\ TypeOK
    /\ PendingIsEvent
    /\ TxExtends
    /\ FilesAt
    /\ StatsCurrent
    /\ CommittedIsDurable
    /\ AuditNeverForks
    /\ Tainted

LEMMA InvInit == Init => Inv
  <1> SUFFICES ASSUME Init PROVE Inv
    OBVIOUS
  <1>1. TypeOK
    BY TypeInit
  <1>2. Chained(events) /\ Transcribe(events) = <<>>
    BY DEF Init, Chained, Transcribe
  <1>3. IsPrefix(events, audit) /\ IsPrefix(<<>>, transcript)
    BY DEF Init, IsPrefix
  <1> QED BY <1>1, <1>2, <1>3 DEF Init, Inv, PendingIsEvent, TxExtends,
             FilesAt, StatsCurrent, CommittedIsDurable, AuditNeverForks,
             Tainted, InTx, Writing

\* Appending an event that names the last one keeps a chain.
LEMMA ChainAppend ==
    ASSUME NEW s \in Seq(Event), NEW e \in Event, Chained(s),
           e.prev = LastId(s)
    PROVE  Chained(Append(s, e))
  <1> DEFINE u == Append(s, e)
  <1>1. /\ Len(u) = Len(s) + 1 /\ Len(s) \in Nat
        /\ \A i \in 1..Len(s) : u[i] = s[i]
        /\ u[Len(s) + 1] = e
    OBVIOUS
  <1>2. s = <<>> <=> Len(s) = 0
    OBVIOUS
  <1> HIDE DEF u
  <1>3. Chained(u)
    BY <1>1, <1>2 DEF Chained, LastId, Last
  <1> QED BY <1>3 DEF u

\* Every step keeps the open transaction an extension of the committed chain.
LEMMA TxExtendsStep ==
    ASSUME Inv, Next
    PROVE  TxExtends'
  <1> USE DEF Inv, TxExtends, InTx, Writing
  <1>1. CASE Start \/ RefuseTx \/ Block \/ OutsideWrite
    BY <1>1 DEF Start, RefuseTx, Block, OutsideWrite, db, tx, Chained
  <1>2. CASE BeginTx
    <2>1. IsPrefix(events, events)
      BY PrefixPointwise DEF TypeOK
    <2> QED BY <1>2, <2>1 DEF BeginTx, Snapshot, db, Chained
  <1>3. CASE \E r \in Records : LogChange(r)
    BY <1>3 DEF LogChange, BeginEvent, db, Chained
  <1>4. CASE \E n \in Notes : LogNote(n)
    BY <1>4 DEF LogNote, BeginEvent, db, tx, Chained
  <1>5. CASE WriteAudit \/ WriteTranscript
    BY <1>5 DEF WriteAudit, WriteTranscript, db, tx, Chained
  <1>6. CASE InsertEvent
    <2>1. IsPrefix(events, Append(txEvents, pending))
      BY <1>6, PrefixAppend DEF InsertEvent, TypeOK, PendingIsEvent
    <2>2. Chained(Append(txEvents, pending))
      BY <1>6, ChainAppend DEF InsertEvent, TypeOK, PendingIsEvent
    <2> QED BY <1>6, <2>1, <2>2 DEF InsertEvent, db
  <1>7. CASE Commit
    BY <1>7 DEF Commit, tx, Chained
  <1>8. CASE Abort \/ EventFails \/ Crash
    BY <1>8 DEF Abort, EventFails, Crash, RollBack, db, Chained
  <1>9. CASE \E n \in Notes : Reconcile({n})
    <2> PICK n \in Notes : Reconcile({n})
      BY <1>9
    <2>1. Last(audit) \in Event
      BY TailIsEvent DEF Reconcile
    <2>2. Chained(Append(events, Last(audit)))
      BY <2>1, ChainAppend DEF Reconcile, TailMatches, TypeOK
    <2> QED BY <2>2 DEF Reconcile
  <1> QED BY <1>1, <1>2, <1>3, <1>4, <1>5, <1>6, <1>7, <1>8, <1>9 DEF Next

\* Every step leaves in the files what the next phase expects of them.
LEMMA FilesAtStep ==
    ASSUME Inv, Next
    PROVE  FilesAt'
  <1> SUFFICES ASSUME outside' = "never" PROVE FilesAt'
    BY DEF FilesAt
  <1> outside = "never"
    BY DEF Next, Start, BeginTx, RefuseTx, Block, LogChange, LogNote, WriteAudit,
       WriteTranscript, InsertEvent, Commit, Abort, EventFails, Crash,
       Reconcile, OutsideWrite
  <1> USE DEF Inv, FilesAt
  <1>1. CASE Start
    BY <1>1 DEF Start, Verifies, db, Transcribe
  <1>2. CASE BeginTx
    BY <1>2 DEF BeginTx, Snapshot, Transcribe
  <1>3. CASE RefuseTx \/ Block
    BY <1>3 DEF RefuseTx, Block, db, tx
  <1>4. CASE \E r \in Records : LogChange(r)
    BY <1>4 DEF LogChange, BeginEvent, db, Transcribe
  <1>5. CASE \E n \in Notes : LogNote(n)
    BY <1>5 DEF LogNote, BeginEvent, db, tx, Transcribe
  <1>6. CASE WriteAudit
    BY <1>6 DEF WriteAudit, db, tx, Transcribe
  <1>7. CASE WriteTranscript
    BY <1>7 DEF WriteTranscript, db, tx, Transcribe
  <1>8. CASE InsertEvent
    <2>1. Append(Transcribe(txEvents), Readable(pending)) =
          Transcribe(Append(txEvents, pending))
      BY <1>8, TranscribeAppend DEF InsertEvent, TypeOK, PendingIsEvent
    <2>2. audit' = txEvents' /\ transcript' = Transcribe(txEvents')
      BY <1>8, <2>1 DEF InsertEvent
    <2>3. phase' = "open"
      BY <1>8 DEF InsertEvent
    <2> QED BY <2>2, <2>3 DEF Transcribe
  <1>9. CASE Commit
    BY <1>9 DEF Commit, tx, Transcribe
  <1>10. CASE Abort
    BY <1>10 DEF Abort, RollBack, Verifies, db, Transcribe
  <1>11. CASE EventFails \/ Crash
    BY <1>11 DEF EventFails, Crash, RollBack
  <1>12. CASE \E n \in Notes : Reconcile({n})
    <2> PICK n \in Notes : Reconcile({n})
      BY <1>12
    <2>1. audit' = events' /\ transcript' = Transcribe(events')
      BY TailCompletes DEF Reconcile
    <2>2. phase' = "idle"
      BY DEF Reconcile
    <2> QED BY <2>1, <2>2 DEF Transcribe
  <1>13. CASE OutsideWrite
    BY <1>13 DEF OutsideWrite
  <1> QED BY <1>1, <1>2, <1>3, <1>4, <1>5, <1>6, <1>7, <1>8, <1>9, <1>10,
             <1>11, <1>12, <1>13 DEF Next

\* Every step keeps the comparison of the files current.
LEMMA StatsStep ==
    ASSUME Inv, Next
    PROVE  StatsCurrent'
  <1> SUFFICES ASSUME outside' = "never" PROVE StatsCurrent'
    BY DEF StatsCurrent
  <1> outside = "never"
    BY DEF Next, Start, BeginTx, RefuseTx, Block, LogChange, LogNote, WriteAudit,
       WriteTranscript, InsertEvent, Commit, Abort, EventFails, Crash,
       Reconcile, OutsideWrite
  <1> USE DEF Inv, StatsCurrent, files
  <1>1. CASE Start \/ BeginTx \/ RefuseTx \/ Block
    BY <1>1 DEF Start, BeginTx, RefuseTx, Block
  <1>2. CASE \E r \in Records : LogChange(r)
    BY <1>2 DEF LogChange, BeginEvent
  <1>3. CASE \E n \in Notes : LogNote(n)
    BY <1>3 DEF LogNote, BeginEvent
  <1>4. CASE WriteAudit \/ WriteTranscript \/ InsertEvent \/ Commit
    BY <1>4 DEF WriteAudit, WriteTranscript, InsertEvent, Commit
  <1>5. CASE Abort
    BY <1>5 DEF Abort, RollBack, Verifies
  <1>6. CASE EventFails \/ Crash
    BY <1>6 DEF EventFails, Crash, RollBack
  <1>7. CASE \E n \in Notes : Reconcile({n})
    BY <1>7 DEF Reconcile
  <1>8. CASE OutsideWrite
    BY <1>8 DEF OutsideWrite
  <1> QED BY <1>1, <1>2, <1>3, <1>4, <1>5, <1>6, <1>7, <1>8 DEF Next

\* A step of the writer itself, not of something else on the host.
LEMMA OwnStep ==
    ASSUME Next, outside' = "never"
    PROVE  outside = "never" /\ ~OutsideWrite
  BY DEF Next, Start, BeginTx, RefuseTx, Block, LogChange, LogNote, WriteAudit,
     WriteTranscript, InsertEvent, Commit, Abort, EventFails, Crash,
     Reconcile, OutsideWrite

\* How the files may change in one step of the writer.
LEMMA FilesGrow ==
    ASSUME Inv, Next, outside' = "never"
    PROVE  /\ \/ audit' = audit
              \/ audit' = Append(audit, Torn)
              \/ phase = "event" /\ audit' = Append(audit, pending)
           /\ \/ transcript' = transcript
              \/ \E l \in ReadableEvent \cup {Torn} : transcript' = Append(transcript, l)
  <1>1. CASE WriteTranscript
    <2>1. Readable(pending) \in ReadableEvent
      BY <1>1 DEF Inv, PendingIsEvent, WriteTranscript, Readable, Event, ReadableEvent
    <2> QED BY <1>1, <2>1 DEF WriteTranscript
  <1>2. CASE EventFails \/ Crash
    BY <1>2 DEF EventFails, Crash, AuditInterrupted, TranscriptInterrupted,
       LinesWritten, files
  <1>3. CASE ~WriteTranscript /\ ~EventFails /\ ~Crash
    BY <1>3, OwnStep DEF Next, Start, BeginTx, RefuseTx, Block, LogChange, LogNote,
       BeginEvent, WriteAudit, InsertEvent, Commit, Abort, Reconcile
  <1> QED BY <1>1, <1>2, <1>3

\* The committed tables change only at a commit and at a recovery.
LEMMA EventsKept ==
    ASSUME Next
    PROVE  Commit \/ (\E n \in Notes : Reconcile({n})) \/ events' = events
  BY DEF Next, Start, BeginTx, RefuseTx, Block, LogChange, LogNote, WriteAudit,
     WriteTranscript, InsertEvent, Abort, EventFails, Crash, OutsideWrite, db

LEMMA DurableStep ==
    ASSUME Inv, Next
    PROVE  CommittedIsDurable'
  <1> SUFFICES ASSUME outside' = "never"
               PROVE  /\ IsPrefix(events, audit)'
                      /\ IsPrefix(Transcribe(events), transcript)'
    BY DEF CommittedIsDurable
  <1>0. outside = "never"
    BY OwnStep
  <1>1. ASSUME NEW S, NEW s \in Seq(S) PROVE IsPrefix(s, s)
    BY <1>1, PrefixPointwise
  <1>2. CASE Commit
    <2>1. audit' = events' /\ transcript' = Transcribe(txEvents) /\ events' = txEvents
      BY <1>0, <1>2 DEF Commit, Inv, FilesAt
    <2>2. Transcribe(txEvents) \in Seq(ReadableEvent)
      BY TranscribeType DEF Inv, TypeOK
    <2>3. IsPrefix(txEvents, txEvents) /\ IsPrefix(Transcribe(txEvents), Transcribe(txEvents))
      BY <1>1, <2>2 DEF Inv, TypeOK
    <2>4. Transcribe(events)' = Transcribe(txEvents)
      BY <2>1 DEF Transcribe
    <2> QED BY <2>1, <2>3, <2>4
  <1>3. CASE \E n \in Notes : Reconcile({n})
    <2> PICK n \in Notes : Reconcile({n})
      BY <1>3
    <2> DEFINE u == Append(events, Last(audit))
    <2>1. audit' = u /\ events' = u /\ transcript' = Transcribe(u)
      BY TailCompletes DEF Reconcile, Inv
    <2>2. u \in Seq(Event)
      BY TailIsEvent DEF Reconcile, Inv, TypeOK
    <2>3. Transcribe(u) \in Seq(ReadableEvent)
      BY <2>2, TranscribeType
    <2>4. Transcribe(events)' = Transcribe(u)
      BY <2>1 DEF Transcribe
    <2> HIDE DEF u
    <2> QED BY <1>1, <2>1, <2>2, <2>3, <2>4
  <1>4. CASE events' = events
    <2>1. /\ events \in Seq(Event \cup {Torn}) /\ audit \in Seq(Event \cup {Torn})
          /\ Transcribe(events) \in Seq(ReadableEvent \cup {Torn})
          /\ transcript \in Seq(ReadableEvent \cup {Torn})
      BY TranscribeType DEF Inv, TypeOK, Lines, ReadableLines
    <2>2. IsPrefix(events, audit) /\ IsPrefix(Transcribe(events), transcript)
      BY <1>0 DEF Inv, CommittedIsDurable
    <2>3. IsPrefix(events, audit')
      <3>1. audit' = audit \/ \E l \in Event \cup {Torn} : audit' = Append(audit, l)
        BY FilesGrow DEF Inv, PendingIsEvent
      <3> QED BY <2>1, <2>2, <3>1, PrefixAppend
    <2>4. IsPrefix(Transcribe(events), transcript')
      BY <2>1, <2>2, FilesGrow, PrefixAppend
    <2>5. Transcribe(events)' = Transcribe(events)
      BY <1>4 DEF Transcribe
    <2> QED BY <1>4, <2>3, <2>4, <2>5
  <1> QED BY <1>2, <1>3, <1>4, EventsKept

LEMMA ForkStep ==
    ASSUME Inv, Next
    PROVE  AuditNeverForks'
  <1> SUFFICES ASSUME outside' = "never" PROVE AuditNeverForks'
    BY DEF AuditNeverForks
  <1>0. outside = "never"
    BY OwnStep
  <1>1. \A i \in 1..Len(audit) :
            audit[i] # Torn =>
                audit[i].prev = IF i = 1 THEN 0 ELSE audit[i - 1].id
    BY <1>0 DEF Inv, AuditNeverForks
  <1>2. audit \in Seq(Event \cup {Torn}) /\ Len(audit) \in Nat
    BY DEF Inv, TypeOK, Lines
  <1>3. CASE audit' = audit
    BY <1>1, <1>3 DEF AuditNeverForks
  <1>4. CASE audit' = Append(audit, Torn)
    <2>1. /\ Len(audit') = Len(audit) + 1
          /\ \A i \in 1..Len(audit) : audit'[i] = audit[i]
          /\ audit'[Len(audit) + 1] = Torn
      BY <1>2, <1>4
    <2> QED BY <1>1, <1>2, <2>1 DEF AuditNeverForks
  <1>5. CASE phase = "event" /\ audit' = Append(audit, pending)
    <2>1. audit = txEvents /\ pending.prev = LastId(txEvents)
      BY <1>0, <1>5 DEF Inv, TxExtends, Writing, FilesAt
    <2>2. /\ Len(audit') = Len(audit) + 1
          /\ \A i \in 1..Len(audit) : audit'[i] = audit[i]
          /\ audit'[Len(audit) + 1] = pending
      BY <1>2, <1>5 DEF Inv, PendingIsEvent
    <2>3. audit = <<>> <=> Len(audit) = 0
      BY <1>2
    <2>4. pending.prev = IF Len(audit) = 0 THEN 0 ELSE audit[Len(audit)].id
      BY <2>1, <2>3 DEF LastId, Last
    <2> QED BY <1>1, <1>2, <2>2, <2>4 DEF AuditNeverForks
  <1> QED BY <1>3, <1>4, <1>5, FilesGrow

\* No event and no readable line is a torn one.
LEMMA TornIsForeign == Torn \notin Event /\ Torn \notin ReadableEvent
  BY SubjectsAssumption DEF Event, ReadableEvent, Subjects

\* A file with a torn line neither verifies nor has a recoverable tail.
LEMMA TornNeverVerifies ==
    ASSUME TypeOK,
           \/ \E i \in 1..Len(audit) : audit[i] = Torn
           \/ \E i \in 1..Len(transcript) : transcript[i] = Torn
    PROVE  /\ ~Verifies(audit, transcript)
           /\ \A allowed : ~TailMatches(allowed)
  <1>1. ASSUME NEW s \in Seq(Event), audit = s, transcript = Transcribe(s)
        PROVE  FALSE
    <2>1. \A i \in 1..Len(audit) : audit[i] \in Event
      BY <1>1
    <2>2. Transcribe(s) \in Seq(ReadableEvent)
      BY TranscribeType
    <2>3. \A i \in 1..Len(transcript) : transcript[i] \in ReadableEvent
      BY <1>1, <2>2
    <2> QED BY <2>1, <2>3, TornIsForeign
  <1>2. ~Verifies(audit, transcript)
    BY <1>1 DEF Verifies, TypeOK
  <1>3. ASSUME NEW allowed, TailMatches(allowed) PROVE FALSE
    <2>1. Append(events, Last(audit)) \in Seq(Event)
      BY <1>3, TailIsEvent DEF TypeOK
    <2> QED BY <1>1, <1>3, <2>1, TailCompletes
  <1> QED BY <1>2, <1>3

\* A damaged file has a torn line.
LEMMA DamageIsTorn ==
    ASSUME NEW S, NEW s \in Seq(S), NEW t \in Damaged(s)
    PROVE  \E i \in 1..Len(t) : t[i] = Torn
  <1>1. CASE t = Append(s, Torn)
    <2>1. Len(t) = Len(s) + 1 /\ t[Len(s) + 1] = Torn /\ Len(s) \in Nat
      BY <1>1
    <2> QED BY <2>1
  <1>2. CASE s # <<>> /\ t = [s EXCEPT ![Len(s)] = Torn]
    <2>1. Len(s) \in 1..Len(s)
      BY <1>2
    <2>2. s \in [1..Len(s) -> S]
      OBVIOUS
    <2>3. t[Len(s)] = Torn
      BY <1>2, <2>1, <2>2
    <2>4. s \in Seq(S \cup {Torn})
      OBVIOUS
    <2>5. Len(t) = Len(s)
      BY <1>2, <2>1, <2>4, ExceptSeq
    <2> QED BY <2>1, <2>3, <2>5
  <1> QED BY <1>1, <1>2 DEF Damaged

LEMMA TaintStep ==
    ASSUME Inv, Next
    PROVE  Tainted'
  <1> SUFFICES ASSUME outside' = "between" PROVE Tainted'
    BY DEF Tainted
  <1>1. CASE outside = "between"
    <2>1. /\ phase \in {"down", "idle"}
          /\ \/ \E i \in 1..Len(audit) : audit[i] = Torn
             \/ \E i \in 1..Len(transcript) : transcript[i] = Torn
          /\ phase = "idle" /\ ~blocked => ~FilesUnchanged
      BY <1>1 DEF Inv, Tainted
    <2>2. ~Verifies(audit, transcript) /\ \A allowed : ~TailMatches(allowed)
      BY <2>1, TornNeverVerifies DEF Inv
    <2>3. UNCHANGED files
      BY <1>1, <2>1 DEF Next, Start, BeginTx, RefuseTx, Block, LogChange, LogNote,
         BeginEvent, WriteAudit, WriteTranscript, InsertEvent, Commit, Abort,
         EventFails, Crash, AuditInterrupted, TranscriptInterrupted,
         LinesWritten, Reconcile, OutsideWrite, files
    <2>4. ~BeginTx /\ \A n \in Notes : ~Reconcile({n})
      BY <2>1, <2>2 DEF BeginTx, Reconcile
    <2>5. CASE Start
      BY <2>2, <2>5, <2>1, <2>3 DEF Start, Tainted, files
    <2>6. CASE Crash
      BY <2>6, <2>1, <2>3 DEF Crash, Tainted, files
    <2>7. CASE RefuseTx \/ Block
      BY <2>7, <2>1, <2>3 DEF RefuseTx, Block, Tainted, files
    <2>8. Start \/ Crash \/ RefuseTx \/ Block
      BY <1>1, <2>1, <2>4 DEF Next, LogChange, LogNote, BeginEvent, WriteAudit,
         WriteTranscript, InsertEvent, Commit, Abort, EventFails,
         AuditInterrupted, TranscriptInterrupted, LinesWritten, OutsideWrite
    <2> QED BY <2>5, <2>6, <2>7, <2>8
  <1>2. CASE outside # "between"
    <2>1. OutsideWrite
      BY <1>2 DEF Next, Start, BeginTx, RefuseTx, Block, LogChange, LogNote, BeginEvent,
         WriteAudit, WriteTranscript, InsertEvent, Commit, Abort, EventFails,
         Crash, Reconcile
    <2>2. /\ outside = "never" /\ phase \in {"down", "idle"}
          /\ UNCHANGED <<phase, blocked, stats>>
      BY <2>1 DEF OutsideWrite
    <2>3. \/ \E i \in 1..Len(audit') : audit'[i] = Torn
          \/ \E i \in 1..Len(transcript') : transcript'[i] = Torn
      BY <2>1, DamageIsTorn DEF OutsideWrite, Inv, TypeOK, Lines, ReadableLines
    <2>4. ASSUME phase = "idle", ~blocked PROVE ~FilesUnchanged'
      <3>1. stats = <<audit, transcript>> /\ stats # Unknown
        BY <2>2, <2>4 DEF Inv, StatsCurrent, files, Unknown
      <3>2. Verifies(audit, transcript)
        BY <2>2, <2>4 DEF Inv, FilesAt, TxExtends, Verifies
      <3>3. ~(audit' = audit /\ transcript' = transcript)
        BY <2>3, <3>2, TornNeverVerifies DEF Inv
      <3> QED BY <2>2, <3>1, <3>3 DEF FilesUnchanged, files
    <2> QED BY <2>2, <2>3, <2>4 DEF Tainted
  <1> QED BY <1>1, <1>2

LEMMA InvNext == Inv /\ [Next]_vars => Inv'
  <1>1. ASSUME Inv, Next PROVE Inv'
    <2>1. TypeOK' /\ PendingIsEvent'
      BY <1>1, TypeNext DEF Inv
    <2> QED BY <1>1, <2>1, TxExtendsStep, FilesAtStep, StatsStep, DurableStep,
               ForkStep, TaintStep DEF Inv
  <1>2. ASSUME Inv, UNCHANGED vars PROVE Inv'
    BY <1>2 DEF vars, Inv, TypeOK, PendingIsEvent, TxExtends, FilesAt,
       StatsCurrent, CommittedIsDurable, AuditNeverForks, Tainted, InTx, Writing,
       FilesUnchanged, files, Transcribe, Chained
  <1> QED BY <1>1, <1>2

THEOREM Invariance == Spec => []Inv
  BY InvInit, InvNext, PTL DEF Spec

\* Whatever is committed was in both files first, and stays there.
THEOREM Durability == Spec => []CommittedIsDurable
  <1>1. Inv => CommittedIsDurable
    BY DEF Inv
  <1> QED BY Invariance, <1>1, PTL

\* The trail is one chain: no event is announced beside an orphaned one.
THEOREM NoFork == Spec => []AuditNeverForks
  <1>1. Inv => AuditNeverForks
    BY DEF Inv
  <1> QED BY Invariance, <1>1, PTL

\* A store that would open a transaction agrees with its files.
THEOREM Agreement == Spec => []ReadyMeansAgreed
  <1>1. Inv => ReadyMeansAgreed
    BY DEF Inv, TypeOK, ReadyMeansAgreed, WriterReady, FilesAt, TxExtends,
       Verifies, Tainted
  <1> QED BY Invariance, <1>1, PTL

\* A foreign write between two transactions ends all commits.
THEOREM ForeignWriteIsFinal == Spec => ForeignWriteStopsCommits
  <1>1. Inv /\ [Next]_vars => [outside = "between" => UNCHANGED db]_vars
    <2> SUFFICES ASSUME Inv, Next, outside = "between" PROVE UNCHANGED db
      BY DEF vars, db
    <2>1. /\ phase \in {"down", "idle"}
          /\ \/ \E i \in 1..Len(audit) : audit[i] = Torn
             \/ \E i \in 1..Len(transcript) : transcript[i] = Torn
      BY DEF Inv, Tainted
    <2>2. \A allowed : ~TailMatches(allowed)
      BY <2>1, TornNeverVerifies DEF Inv
    <2> QED BY <2>1, <2>2 DEF Next, Start, BeginTx, RefuseTx, Block, LogChange,
         LogNote, BeginEvent, WriteAudit, WriteTranscript, InsertEvent, Commit,
         Abort, EventFails, Crash, Reconcile, OutsideWrite, db
  <1> QED BY Invariance, <1>1, PTL DEF Spec, ForeignWriteStopsCommits
-----------------------------------------------------------------------------
(* Revisions and the events that announce them.                            *)

CountOf(s, r) == Cardinality({i \in 1..Len(s) : s[i].subject = r})

\* One more event counts for its own subject only.
LEMMA CountAppend ==
    ASSUME NEW s \in Seq(Event), NEW e \in Event, NEW r
    PROVE  /\ CountOf(s, r) \in Nat
           /\ CountOf(Append(s, e), r) =
                CountOf(s, r) + (IF e.subject = r THEN 1 ELSE 0)
  <1> DEFINE u == Append(s, e)
             A == {i \in 1..Len(s) : s[i].subject = r}
             B == {i \in 1..Len(u) : u[i].subject = r}
             n == Len(s) + 1
  <1>1. Len(s) \in Nat /\ Len(u) = n /\ u[n] = e /\ \A i \in 1..Len(s) : u[i] = s[i]
    OBVIOUS
  <1>2. CountOf(s, r) = Cardinality(A) /\ CountOf(u, r) = Cardinality(B)
    BY DEF CountOf
  <1> HIDE DEF u
  <1>3. n \notin A /\ A \subseteq 1..Len(s)
    BY <1>1
  <1>4. B = IF e.subject = r THEN A \cup {n} ELSE A
    BY <1>1
  <1> HIDE DEF A, B, n
  <1>5. IsFiniteSet(1..Len(s))
    <2>1. 1 \in Int /\ Len(s) \in Int
      BY <1>1
    <2> QED BY <2>1, FS_Interval, Zenon
  <1>6. IsFiniteSet(A)
    <2>1. A \in SUBSET (1..Len(s))
      BY <1>3
    <2> QED BY <1>5, <2>1, FS_Subset
  <1>7. Cardinality(A) \in Nat
    BY <1>6, FS_CardinalityType
  <1>8. Cardinality(A \cup {n}) = Cardinality(A) + 1
    BY <1>3, <1>6, FS_AddElement
  <1> QED BY <1>2, <1>4, <1>7, <1>8 DEF u

\* Inside a transaction the event being written is one revision ahead.
RevsCounted ==
    \A r \in Records :
        /\ revs[r] = CountOf(events, r)
        /\ phase = "open" => txRevs[r] = CountOf(txEvents, r)
        /\ Writing => txRevs[r] = CountOf(txEvents, r)
                                    + (IF pending.subject = r THEN 1 ELSE 0)

LEMMA RevsCountedStep ==
    ASSUME TypeOK, PendingIsEvent, RevsCounted, Next
    PROVE  RevsCounted'
  <1> SUFFICES ASSUME NEW r \in Records
               PROVE  /\ revs'[r] = CountOf(events', r)
                      /\ phase' = "open" => txRevs'[r] = CountOf(txEvents', r)
                      /\ Writing' => txRevs'[r] = CountOf(txEvents', r)
                                       + (IF pending'.subject = r THEN 1 ELSE 0)
    BY DEF RevsCounted, CountOf
  <1>0. /\ revs[r] = CountOf(events, r)
        /\ phase = "open" => txRevs[r] = CountOf(txEvents, r)
        /\ Writing => txRevs[r] = CountOf(txEvents, r)
                                    + (IF pending.subject = r THEN 1 ELSE 0)
        /\ txRevs \in [Records -> Nat]
    BY DEF RevsCounted, TypeOK
  <1> USE DEF Writing
  <1>1. CASE Start \/ RefuseTx \/ Block \/ OutsideWrite
    BY <1>0, <1>1 DEF Start, RefuseTx, Block, OutsideWrite, db, tx
  <1>2. CASE BeginTx \/ Abort \/ EventFails \/ Crash
    BY <1>0, <1>2 DEF BeginTx, Abort, EventFails, Crash, RollBack, Snapshot, db
  <1>3. CASE \E q \in Records : LogChange(q)
    <2> PICK q \in Records : LogChange(q)
      BY <1>3
    <2>1. txRevs'[r] = txRevs[r] + (IF q = r THEN 1 ELSE 0)
      BY <1>0 DEF LogChange
    <2>2. pending'.subject = q /\ phase = "open" /\ phase' = "event"
      BY DEF LogChange, BeginEvent
    <2> QED BY <1>0, <2>1, <2>2 DEF LogChange, db
  <1>4. CASE \E n \in Notes : LogNote(n)
    <2> PICK n \in Notes : LogNote(n)
      BY <1>4
    <2>1. /\ pending'.subject = n /\ phase = "open" /\ phase' = "event"
          /\ UNCHANGED <<events, revs, txEvents, txRevs>>
      BY DEF LogNote, BeginEvent, db, tx
    <2>2. n # r
      BY SubjectsAssumption
    <2>3. CountOf(txEvents, r) \in Nat
      BY <1>0, <2>1
    <2> QED BY <1>0, <2>1, <2>2, <2>3
  <1>5. CASE WriteAudit \/ WriteTranscript
    BY <1>0, <1>5 DEF WriteAudit, WriteTranscript, db, tx
  <1>6. CASE InsertEvent
    <2>1. txRevs[r] = CountOf(Append(txEvents, pending), r)
      BY <1>0, <1>6, CountAppend DEF InsertEvent, TypeOK, PendingIsEvent
    <2> QED BY <1>0, <1>6, <2>1 DEF InsertEvent, db
  <1>7. CASE Commit
    BY <1>0, <1>7 DEF Commit, tx
  <1>8. CASE \E n \in Notes : Reconcile({n})
    <2> PICK n \in Notes : Reconcile({n})
      BY <1>8
    <2>1. Last(audit) \in Event /\ Last(audit).subject # r
      BY TailIsEvent, SubjectsAssumption DEF Reconcile, TailMatches
    <2>2. CountOf(Append(events, Last(audit)), r) = CountOf(events, r)
      BY <2>1, CountAppend DEF TypeOK
    <2> QED BY <1>0, <2>2 DEF Reconcile
  <1> QED BY <1>1, <1>2, <1>3, <1>4, <1>5, <1>6, <1>7, <1>8 DEF Next

LEMMA RevsCountedInvariant == Spec => []RevsCounted
  <1>1. Init => RevsCounted
    <2> SUFFICES ASSUME Init PROVE RevsCounted
      OBVIOUS
    <2>1. \A r : CountOf(<<>>, r) = 0
      BY FS_EmptySet DEF CountOf
    <2> QED BY <2>1 DEF Init, RevsCounted, Writing
  <1>2. TypeOK /\ PendingIsEvent /\ RevsCounted /\ [Next]_vars => RevsCounted'
    <2>1. ASSUME RevsCounted, UNCHANGED vars PROVE RevsCounted'
      BY <2>1 DEF RevsCounted, vars, Writing
    <2> QED BY <2>1, RevsCountedStep
  <1>3. Inv => TypeOK /\ PendingIsEvent
    BY DEF Inv
  <1> QED BY <1>1, <1>2, <1>3, Invariance, PTL DEF Spec

\* A revision is committed exactly when its event is, through every crash,
\* rollback and recovery.
THEOREM Announcement == Spec => []EveryRevisionAnnounced
  <1>1. RevsCounted => EveryRevisionAnnounced
    BY DEF RevsCounted, EveryRevisionAnnounced, CountOf
  <1> QED BY RevsCountedInvariant, <1>1, PTL
-----------------------------------------------------------------------------
(***************************************************************************)
(* AuditStore implements AuditLedger while nothing else touches the files. *)
(***************************************************************************)

Undisturbed == outside = "never"

\* What appending one line does to the trail a reader sees.
LEMMA AppendShows ==
    ASSUME TypeOK, NEW l \in Event \cup {Torn}, audit' = Append(audit, l)
    PROVE  Ledger!ShowsOneMore
  <1>1. audit \in Seq(Event \cup {Torn})
    BY DEF TypeOK, Lines
  <1>2. IsPrefix(audit, audit)
    BY <1>1, PrefixPointwise
  <1>3. IsPrefix(audit, audit') /\ Len(audit') = Len(audit) + 1
    BY <1>1, <1>2, PrefixAppend
  <1>4. Ledger!IsPrefix(audit, audit')
    BY <1>3 DEF IsPrefix, Ledger!IsPrefix
  <1> QED BY <1>3, <1>4 DEF Ledger!ShowsOneMore

\* A commit publishes exactly what the trail shows.
LEMMA CommitSettles ==
    ASSUME Inv, RevsCounted, Undisturbed, Commit
    PROVE  events' = audit /\ revs' = Ledger!Tally(audit)
  <1>1. events' = txEvents /\ audit = txEvents /\ revs' = txRevs
    BY DEF Commit, Inv, FilesAt, Undisturbed
  <1>2. \A r \in Records : txRevs[r] = CountOf(txEvents, r)
    BY DEF Commit, RevsCounted
  <1>3. txRevs = [r \in Records |-> CountOf(txEvents, r)]
    BY <1>2 DEF Inv, TypeOK
  <1>4. \A S : Ledger!Cardinality(S) = Cardinality(S)
    BY Zenon DEF Ledger!Cardinality, Cardinality
  <1>5. \A r \in Records : CountOf(audit, r) = Ledger!Cardinality(
            {i \in 1..Len(audit) : audit[i].subject = r})
    BY <1>4 DEF CountOf
  <1> QED BY <1>1, <1>3, <1>5 DEF Ledger!Tally

\* Who is undisturbed after a step was so before it.
LEMMA NeverIsFirst ==
    ASSUME [Next]_vars, Undisturbed'
    PROVE  Undisturbed
  BY DEF Next, Start, BeginTx, RefuseTx, Block, LogChange, LogNote, WriteAudit,
     WriteTranscript, InsertEvent, Commit, Abort, EventFails, Crash,
     Reconcile, OutsideWrite, Undisturbed, vars

LEMMA StepRefines ==
    ASSUME Inv, RevsCounted, Undisturbed, Undisturbed', Next
    PROVE  [Ledger!Next]_Ledger!vars
  <1> USE DEF Ledger!vars, LedgerMode
  <1>1. CASE Start
    BY <1>1 DEF Start, Verifies, db, Ledger!Next, Ledger!Thaw
  <1>2. CASE BeginTx
    BY <1>2 DEF BeginTx, db
  <1>3. CASE RefuseTx \/ Block
    BY <1>3 DEF RefuseTx, Block, db, Ledger!Next, Ledger!Freeze, Ledger!Close
  <1>4. CASE \E r \in Records : LogChange(r)
    BY <1>4 DEF LogChange, BeginEvent, db
  <1>5. CASE \E n \in Notes : LogNote(n)
    BY <1>5 DEF LogNote, BeginEvent, db
  <1>6. CASE WriteAudit
    <2>1. Ledger!ShowsOneMore
      BY <1>6, AppendShows DEF WriteAudit, Inv, PendingIsEvent
    <2> QED BY <1>6, <2>1 DEF WriteAudit, db, Ledger!Next, Ledger!Announce
  <1>7. CASE WriteTranscript
    BY <1>7 DEF WriteTranscript, db
  <1>8. CASE InsertEvent
    BY <1>8 DEF InsertEvent, db
  <1>9. CASE Commit
    <2>1. events' = audit /\ revs' = Ledger!Tally(audit)
      BY <1>9, CommitSettles
    <2> QED BY <1>9, <2>1 DEF Commit, Ledger!Next, Ledger!Settle
  <1>10. CASE Abort
    <2> QED BY <1>10 DEF Abort, RollBack, db, Ledger!Next, Ledger!Freeze
  <1>11. ASSUME \/ AuditInterrupted
                \/ TranscriptInterrupted
                \/ UNCHANGED files
         PROVE  audit' = audit \/ Ledger!ShowsOneMore
    BY <1>11, AppendShows DEF AuditInterrupted, TranscriptInterrupted, files, Inv
  <1>12. CASE EventFails
    <2>1. phase # "down" /\ phase # "idle"
      BY <1>12 DEF EventFails, AuditInterrupted, TranscriptInterrupted,
         LinesWritten
    <2>2. audit' = audit \/ Ledger!ShowsOneMore
      BY <1>11, <1>12 DEF EventFails, LinesWritten
    <2> QED BY <1>12, <2>1, <2>2 DEF EventFails, RollBack, db, Ledger!Next,
               Ledger!Freeze
  <1>13. CASE Crash
    <2>1. audit' = audit \/ Ledger!ShowsOneMore
      BY <1>11, <1>13 DEF Crash
    <2>2. phase # "down" /\ (phase = "idle" => audit' = audit)
      BY <1>13 DEF Crash, AuditInterrupted, TranscriptInterrupted, files
    <2>3. CASE phase = "idle" /\ blocked
      <3>1. audit' = audit /\ events' = events /\ revs' = revs
        BY <1>13, <2>2, <2>3 DEF Crash, db
      <3>2. phase' = "down"
        BY <1>13 DEF Crash
      <3>3. LedgerMode' = LedgerMode
        BY <2>3, <3>2
      <3> QED BY <3>1, <3>3
    <2>4. CASE ~(phase = "idle" /\ blocked)
      <3>1. Ledger!Freeze
        BY <1>13, <2>1, <2>2, <2>4 DEF Crash, db, Ledger!Freeze
      <3> QED BY <3>1 DEF Ledger!Next
    <2> QED BY <2>3, <2>4
  <1>14. CASE \E n \in Notes : Reconcile({n})
    <2> PICK n \in Notes : Reconcile({n})
      BY <1>14
    <2>1. events' = audit
      BY TailCompletes DEF Reconcile, Inv
    <2>2. /\ Len(audit) = Len(events) + 1
          /\ IsPrefix(events, audit)
          /\ Last(audit) # Torn
          /\ Last(audit).subject \in Notes
      BY DEF Reconcile, TailMatches
    <2>3. /\ Ledger!IsPrefix(events, audit)
          /\ Ledger!Last(audit) # Torn
          /\ Ledger!Last(audit).subject \in Notes
      BY <2>2 DEF IsPrefix, Ledger!IsPrefix, Last, Ledger!Last
    <2> QED BY <2>1, <2>2, <2>3 DEF Reconcile, Ledger!Next, Ledger!Recover
  <1>15. CASE OutsideWrite
    BY <1>15 DEF OutsideWrite, Undisturbed
  <1> QED BY <1>1, <1>2, <1>3, <1>4, <1>5, <1>6, <1>7, <1>8, <1>9, <1>10,
             <1>12, <1>13, <1>14, <1>15 DEF Next

\* The store keeps the promise of the ledger until something else writes its
\* files: two files and a database, written one after the other, look to a
\* reader like one ledger that is announced first, settled at once and frozen
\* whenever the two disagree, or once a fault was reported and the transaction
\* that was open beside it is over.
THEOREM Refinement == Spec => ImplementsLedger
  <1>1. Init => Ledger!Init
    BY DEF Init, LedgerMode, Ledger!Init
  <1>2. Inv /\ RevsCounted /\ [Next]_vars
            => [outside' = "never" => Ledger!Next]_(Ledger!vars)
    <2> SUFFICES ASSUME Inv, RevsCounted, [Next]_vars, Undisturbed'
                 PROVE  [Ledger!Next]_(Ledger!vars)
      BY DEF Undisturbed
    <2>1. ASSUME UNCHANGED vars PROVE UNCHANGED Ledger!vars
      BY <2>1 DEF vars, LedgerMode, Ledger!vars
    <2>2. Undisturbed
      BY NeverIsFirst
    <2> QED BY <2>1, <2>2, StepRefines
  <1> QED BY <1>1, <1>2, Invariance, RevsCountedInvariant,
             PTL DEF Spec, ImplementsLedger

\* Where nothing else may write the files, the store implements the whole
\* specification of the ledger.
THEOREM RefinementAlone ==
    ASSUME ~OutsideWrites
    PROVE  Spec => Ledger!Spec
  <1>1. Init => Undisturbed
    BY DEF Init, Undisturbed
  <1>2. Undisturbed /\ [Next]_vars => Undisturbed'
    BY DEF Next, Start, BeginTx, RefuseTx, Block, LogChange, LogNote, WriteAudit,
       WriteTranscript, InsertEvent, Commit, Abort, EventFails, Crash,
       Reconcile, OutsideWrite, Undisturbed, vars
  <1>3. Undisturbed' /\ [outside' = "never" => Ledger!Next]_(Ledger!vars)
            => [Ledger!Next]_(Ledger!vars)
    BY DEF Undisturbed
  <1> QED BY <1>1, <1>2, <1>3, Refinement,
             PTL DEF Spec, ImplementsLedger, Ledger!Spec
-----------------------------------------------------------------------------
(***************************************************************************)
(* ReceiptAck implements AuditStore: every step of the command and of the  *)
(* server between commands is a step of the store or leaves it alone.      *)
(***************************************************************************)

AckTypeOK ==
    /\ queue \subseteq Receipts
    /\ archive \subseteq Receipts
    /\ step \in Steps
    /\ receipt \in Receipts \cup {NoReceipt}
    /\ interrupted \in Receipts \cup {NoReceipt}
    /\ step = "none" <=> receipt = NoReceipt

\* The two events of each receipt are different notes.
LEMMA AckSubjects ==
    ASSUME NEW k \in Receipts
    PROVE  /\ Requested(k) \in AckNotes /\ Requested(k) \in Notes
           /\ Acknowledged(k) \in AckNotes /\ Acknowledged(k) \in Notes
           /\ \A j : /\ Requested(k) # Acknowledged(j)
                     /\ Acknowledged(k) = Acknowledged(j) => k = j
                     /\ Requested(k) = Requested(j) => k = j
  BY ReceiptsAssumption DEF Requested, Acknowledged, AckNotes

LEMMA AckTypeStep == AckTypeOK /\ [AckNext]_ackVars => AckTypeOK'
  <1> SUFFICES ASSUME AckTypeOK, [AckNext]_ackVars PROVE AckTypeOK'
    OBVIOUS
  <1> USE ReceiptsAssumption DEF AckTypeOK, Steps, place, command
  <1>1. CASE ServerStart
    BY <1>1 DEF ServerStart
  <1>2. CASE Serve \/ WriteEvent \/ Begin \/ Disturb
    BY <1>2 DEF Serve, WriteEvent, Begin, Disturb
  <1>3. CASE \E k \in Receipts : CommandStart(k)
    BY <1>3 DEF CommandStart
  <1>4. CASE StoreReady \/ Recover \/ GiveUp
    BY <1>4 DEF StoreReady, Recover, GiveUp, Advance
  <1>5. CASE LogRequested \/ CommitRequested \/ LogAcknowledged
    BY <1>5 DEF LogRequested, CommitRequested, LogAcknowledged, Advance
  <1>6. CASE Move \/ MoveFails
    BY <1>6 DEF Move, MoveFails, Advance, Raise
  <1>7. CASE CommitAcknowledged \/ CommandFails \/ Stop
    BY <1>7 DEF CommitAcknowledged, CommandFails, Raise, Stop
  <1>8. CASE UNCHANGED ackVars
    BY <1>8 DEF ackVars
  <1> QED BY <1>1, <1>2, <1>3, <1>4, <1>5, <1>6, <1>7, <1>8 DEF AckNext

LEMMA StepKeepsStore == AckTypeOK /\ [AckNext]_ackVars => [Next]_vars
  <1> SUFFICES ASSUME AckTypeOK, [AckNext]_ackVars PROVE [Next]_vars
    OBVIOUS
  <1> USE DEF Next
  <1>1. CASE ServerStart \/ WriteEvent \/ Begin \/ Stop \/ Disturb
    BY <1>1 DEF ServerStart, WriteEvent, Begin, Stop, Disturb
  <1>2. CASE Serve
    BY <1>2 DEF Serve
  <1>3. CASE \E k \in Receipts : CommandStart(k)
    BY <1>3 DEF CommandStart
  <1>4. CASE StoreReady \/ GiveUp \/ Move \/ MoveFails
    BY <1>4 DEF StoreReady, GiveUp, Move, MoveFails
  <1>5. CASE Recover
    <2>1. Adoptable(receipt) \subseteq Notes
      BY AckSubjects DEF Adoptable, AckTypeOK
    <2>2. Reconcile(Adoptable(receipt))
      BY <1>5 DEF Recover
    <2>3. Last(audit).subject \in Notes /\ Reconcile({Last(audit).subject})
      BY <2>1, <2>2 DEF Reconcile, TailMatches
    <2> QED BY <2>3
  <1>6. CASE LogRequested \/ LogAcknowledged
    <2>1. receipt \in Receipts
      BY <1>6 DEF LogRequested, LogAcknowledged, AckTypeOK
    <2> QED BY <1>6, <2>1, AckSubjects DEF LogRequested, LogAcknowledged
  <1>7. CASE CommitRequested \/ CommitAcknowledged \/ CommandFails
    BY <1>7 DEF CommitRequested, CommitAcknowledged, CommandFails
  <1>8. CASE UNCHANGED ackVars
    BY <1>8 DEF ackVars
  <1> QED BY <1>1, <1>2, <1>3, <1>4, <1>5, <1>6, <1>7, <1>8 DEF AckNext

LEMMA AckTypeCorrect == AckSpec => []AckTypeOK
  <1>1. AckInit => AckTypeOK
    BY DEF AckInit, AckTypeOK, Steps
  <1> QED BY <1>1, AckTypeStep, PTL DEF AckSpec

\* Whatever is true of the store is true of the store under the command.
THEOREM CommandKeepsStore == AckSpec => KeepsStore
  <1>1. AckInit => Init
    BY DEF AckInit
  <1> QED BY <1>1, StepKeepsStore, AckTypeCorrect,
             PTL DEF AckSpec, Spec, KeepsStore
-----------------------------------------------------------------------------
(***************************************************************************)
(* The inductive invariant of the command.  That completions follow their  *)
(* requests is not inductive alone: it needs to know which event stands in *)
(* the open transaction at each step of the command, that the server logs  *)
(* no event of the command, and that a recovered tail is one of them.      *)
(***************************************************************************)

\* The command works on its receipt and on nothing else.
InCommand ==
    step \in {"request", "requesting", "move", "complete", "completing"}

Note == IF step = "requesting" THEN Requested(receipt)
        ELSE Acknowledged(receipt)

\* Where the store stands at each step, and what its transaction holds.
CommandTx ==
    /\ step \in {"check", "move", "ended"} => phase = "idle"
    /\ step \in {"request", "complete"} => phase \in {"idle", "open"}
    /\ step \in {"requesting", "completing"} => InTx
    /\ InCommand => ~blocked
    /\ step \in {"request", "complete"} /\ phase = "open" => txEvents = events
    /\ step \in {"requesting", "completing"} =>
          /\ Writing => txEvents = events /\ pending.subject = Note
          /\ phase = "open" => /\ Len(txEvents) = Len(events) + 1
                               /\ Last(txEvents).subject = Note

ServerTx == step = "none" /\ Writing => pending.subject \notin AckNotes

\* A request of the receipt that no completion has answered yet.
OpenRequest(s, k) ==
    \E m \in 1..Len(s) :
        /\ s[m].subject = Requested(k)
        /\ \A i \in m..Len(s) : s[i].subject # Acknowledged(k)

\* The command moves what it requested and completes what it moved.
Progress ==
    /\ step \in {"move", "complete", "completing"} =>
            OpenRequest(events, receipt)
    /\ step \in {"complete", "completing"} => receipt \in archive \ queue

OnePlace == queue \cup archive = Receipts /\ queue \cap archive = {}

\* EachCompletionRequested of any trail, torn lines aside.
Paired(s) ==
    \A k \in Receipts : \A i, j \in 1..Len(s) :
        /\ i < j
        /\ s[i] # Torn /\ s[i].subject = Acknowledged(k)
        /\ s[j] # Torn /\ s[j].subject = Acknowledged(k)
        => \E m \in i..j : s[m] # Torn /\ s[m].subject = Requested(k)

TrailPaired ==
    /\ Paired(events)
    /\ InTx => Paired(txEvents)
    /\ outside = "never" => Paired(audit)

\* What something else wrote stays in the files.
ForeignStays ==
    outside # "never" =>
        \/ \E i \in 1..Len(audit) : audit[i] = Torn
        \/ \E i \in 1..Len(transcript) : transcript[i] = Torn

\* Whole files are those of the database, or one recoverable event ahead.
Remains(k) ==
    outside = "never" /\ WholeTail =>
        Verifies(audit, transcript) \/ TailMatches(Adoptable(k))

\* What an interrupted command leaves waits for its repetition.
Leftovers ==
    /\ interrupted # NoReceipt =>
          /\ step # "none" => interrupted = receipt
          /\ step = "none" => phase = "down" \/ (phase = "idle" /\ blocked)
          /\ Remains(interrupted)
    /\ outside = "never" /\ step = "check" /\ blocked =>
          ~Verifies(audit, transcript)

Trail ==
    /\ Inv /\ AckTypeOK
    /\ CommandTx /\ ServerTx /\ Progress
    /\ OnePlace /\ TrailPaired /\ ForeignStays
    /\ ArchivedWasRequested /\ AcknowledgedIsArchived

AckInv == Trail /\ Leftovers
-----------------------------------------------------------------------------
\* Where the store's transaction stands after each step of a command.
LEMMA CommandTxStep ==
    ASSUME Trail, AckNext PROVE CommandTx'
  <1> USE DEF Trail, CommandTx, InTx, Writing, InCommand, Note, place, command
  <1>1. CASE ServerStart \/ Stop
    BY <1>1 DEF ServerStart, Stop
  <1>2. CASE Serve
    BY <1>2 DEF Serve
  <1>3. CASE WriteEvent
    <2>1. CASE WriteAudit \/ WriteTranscript
      BY <1>3, <2>1 DEF WriteEvent, WriteAudit, WriteTranscript, db, tx
    <2>2. CASE InsertEvent
      <3>1. /\ txEvents' = Append(txEvents, pending) /\ events' = events
            /\ phase = "transcribed" /\ phase' = "open" /\ blocked' = blocked
            /\ step' = step /\ receipt' = receipt
        BY <1>3, <2>2 DEF WriteEvent, InsertEvent, db
      <3>2. txEvents \in Seq(Event) /\ pending \in Event
        BY <3>1 DEF Inv, TypeOK, PendingIsEvent
      <3>3. Len(txEvents') = Len(txEvents) + 1 /\ Last(txEvents') = pending
        BY <3>1, <3>2 DEF Last
      <3> QED BY <3>1, <3>3
    <2> QED BY <1>3, <2>1, <2>2 DEF WriteEvent
  <1>4. CASE \E k \in Receipts : CommandStart(k)
    BY <1>4 DEF CommandStart, Start
  <1>5. CASE StoreReady \/ GiveUp
    BY <1>5 DEF StoreReady, GiveUp, Advance, vars
  <1>6. CASE Recover
    BY <1>6 DEF Recover, Advance, Reconcile
  <1>7. CASE Begin
    BY <1>7 DEF Begin, BeginTx, Snapshot, db
  <1>8. CASE LogRequested \/ LogAcknowledged
    BY <1>8 DEF LogRequested, LogAcknowledged, LogNote, BeginEvent, Advance,
       db, tx
  <1>9. CASE CommitRequested \/ CommitAcknowledged
    BY <1>9 DEF CommitRequested, CommitAcknowledged, Commit, Advance, tx
  <1>10. CASE Move \/ MoveFails
    BY <1>10 DEF Move, MoveFails, Advance, Raise, vars
  <1>11. CASE CommandFails
    BY <1>11 DEF CommandFails, Raise, RefuseTx, Abort, EventFails, RollBack
  <1>12. CASE Disturb
    BY <1>12 DEF Disturb, OutsideWrite, db, tx
  <1> QED BY <1>1, <1>2, <1>3, <1>4, <1>5, <1>6, <1>7, <1>8, <1>9, <1>10, <1>11,
             <1>12 DEF AckNext

\* The server announces no event of the command.
LEMMA ServerTxStep ==
    ASSUME Trail, AckNext PROVE ServerTx'
  <1> USE DEF Trail, ServerTx, CommandTx, InTx, Writing, place, command
  <1>1. CASE ServerStart \/ Stop
    BY <1>1 DEF ServerStart, Stop, Start, Crash
  <1>2. CASE Serve
    <2>1. CASE \E r \in Records : LogChange(r)
      BY <2>1, SubjectsAssumption, ReceiptsAssumption DEF LogChange, BeginEvent
    <2>2. CASE \E n \in Notes \ AckNotes : LogNote(n)
      BY <2>2 DEF LogNote, BeginEvent
    <2>3. CASE BeginTx \/ Commit \/ Abort \/ EventFails
      BY <2>3 DEF BeginTx, Commit, Abort, EventFails, RollBack
    <2>4. CASE Block
      BY <1>2, <2>4 DEF Serve, Block
    <2> QED BY <1>2, <2>1, <2>2, <2>3, <2>4 DEF Serve
  <1>3. CASE WriteEvent
    BY <1>3 DEF WriteEvent, WriteAudit, WriteTranscript, InsertEvent
  <1>4. CASE \E k \in Receipts : CommandStart(k)
    BY <1>4 DEF CommandStart
  <1>5. CASE StoreReady \/ GiveUp \/ Recover \/ Begin \/ Move \/ MoveFails
    BY <1>5 DEF StoreReady, GiveUp, Recover, Begin, Move, MoveFails, Advance,
       Raise
  <1>6. CASE LogRequested \/ LogAcknowledged \/ CommitRequested
    BY <1>6 DEF LogRequested, LogAcknowledged, CommitRequested, Advance
  <1>7. CASE CommitAcknowledged \/ CommandFails
    BY <1>7 DEF CommitAcknowledged, CommandFails, Raise
  <1>8. CASE Disturb
    BY <1>8 DEF Disturb, OutsideWrite
  <1> QED BY <1>1, <1>2, <1>3, <1>4, <1>5, <1>6, <1>7, <1>8 DEF AckNext

\* Receipts only ever move from the queue into the archive.
LEMMA PlaceStep ==
    ASSUME Trail, AckNext
    PROVE  /\ OnePlace'
           /\ queue' \subseteq queue /\ archive \subseteq archive'
           /\ archive' = archive \/ (archive' = archive \cup {receipt} /\ step = "move")
  <1>1. CASE Move \/ MoveFails
    <2>1. receipt \in Receipts
      BY <1>1 DEF Move, MoveFails, Trail, AckTypeOK
    <2> QED BY <1>1, <2>1 DEF Move, MoveFails, Trail, OnePlace, place
  <1>2. CASE ~Move /\ ~MoveFails
    BY <1>2 DEF AckNext, Trail, OnePlace, place, ServerStart, Serve, WriteEvent,
       CommandStart, StoreReady, Recover, GiveUp, Begin, LogRequested,
       CommitRequested, LogAcknowledged, CommitAcknowledged, CommandFails, Stop,
       Disturb
  <1> QED BY <1>1, <1>2
-----------------------------------------------------------------------------
(* Trails, as they grow by one event.                                      *)

\* A request that is appended is open.
LEMMA OpenAppend ==
    ASSUME NEW s \in Seq(Event), NEW k \in Receipts, Len(s) > 0,
           Last(s).subject = Requested(k)
    PROVE  OpenRequest(s, k)
  <1>1. Len(s) \in 1..Len(s) /\ \A i \in Len(s)..Len(s) : i = Len(s)
    OBVIOUS
  <1>2. s[Len(s)].subject = Requested(k)
    BY DEF Last
  <1>3. s[Len(s)].subject # Acknowledged(k)
    BY <1>2, AckSubjects
  <1> QED BY <1>1, <1>2, <1>3 DEF OpenRequest

\* What is on record stays on record.
LEMMA HoldsGrows ==
    ASSUME NEW S, NEW s \in Seq(S), NEW t \in Seq(S), IsPrefix(s, t),
           NEW n, Holds(s, n)
    PROVE  Holds(t, n)
  <1>1. Len(s) <= Len(t) /\ \A i \in 1..Len(s) : s[i] = t[i]
    BY PrefixPointwise
  <1>2. PICK i \in 1..Len(s) : s[i] # Torn /\ s[i].subject = n
    BY DEF Holds
  <1>3. i \in 1..Len(t) /\ t[i] = s[i]
    BY <1>1
  <1> QED BY <1>2, <1>3 DEF Holds

\* An open request is on record.
LEMMA OpenHolds ==
    ASSUME NEW s \in Seq(Event), NEW k, OpenRequest(s, k)
    PROVE  Holds(s, Requested(k))
  <1>1. \A i \in 1..Len(s) : s[i] \in Event
    OBVIOUS
  <1> QED BY <1>1, TornIsForeign DEF OpenRequest, Holds

\* A completion that is appended to an open request keeps a trail paired, and
\* so does everything else.
LEMMA PairedAppend ==
    ASSUME NEW s \in Seq(Event \cup {Torn}), NEW e \in Event \cup {Torn},
           Paired(s),
           \A k \in Receipts : e # Torn /\ e.subject = Acknowledged(k)
                => s \in Seq(Event) /\ OpenRequest(s, k)
    PROVE  Paired(Append(s, e))
  <1> DEFINE u == Append(s, e)
  <1>1. /\ Len(u) = Len(s) + 1 /\ Len(s) \in Nat
        /\ \A i \in 1..Len(s) : u[i] = s[i]
        /\ u[Len(s) + 1] = e
    OBVIOUS
  <1> HIDE DEF u
  <1>2. ASSUME NEW k \in Receipts, NEW i \in 1..Len(u), NEW j \in 1..Len(u), i < j,
               u[i] # Torn, u[i].subject = Acknowledged(k),
               u[j] # Torn, u[j].subject = Acknowledged(k)
        PROVE  \E m \in i..j : u[m] # Torn /\ u[m].subject = Requested(k)
    <2>1. i \in 1..Len(s) /\ u[i] = s[i]
      BY <1>1, <1>2
    <2>2. CASE j \in 1..Len(s)
      <3>1. PICK m \in i..j : s[m] # Torn /\ s[m].subject = Requested(k)
        BY <1>1, <1>2, <2>1, <2>2 DEF Paired
      <3>2. u[m] = s[m]
        BY <1>1, <2>1, <2>2, <3>1
      <3> QED BY <3>1, <3>2
    <2>3. CASE j = Len(s) + 1
      <3>1. s \in Seq(Event) /\ OpenRequest(s, k)
        BY <1>1, <1>2, <2>3
      <3>2. PICK m \in 1..Len(s) :
                    /\ s[m].subject = Requested(k)
                    /\ \A h \in m..Len(s) : s[h].subject # Acknowledged(k)
        BY <3>1 DEF OpenRequest
      <3>3. ~(m <= i)
        BY <1>1, <1>2, <2>1, <3>2
      <3>4. m \in i..j /\ u[m] = s[m] /\ s[m] \in Event
        BY <1>1, <2>1, <2>3, <3>1, <3>2, <3>3
      <3> QED BY <3>2, <3>4, TornIsForeign
    <2> QED BY <1>1, <2>2, <2>3
  <1>3. Paired(u)
    BY <1>2 DEF Paired
  <1> QED BY <1>3 DEF u
-----------------------------------------------------------------------------
(* Every step keeps the trail.                                             *)

\* A completion is only ever announced for an open request.
LEMMA PendingOpens ==
    ASSUME Trail, Writing, NEW k \in Receipts,
           pending.subject = Acknowledged(k)
    PROVE  /\ txEvents = events
           /\ OpenRequest(events, k)
           /\ k \in archive \ queue
  <1>1. Acknowledged(k) \in AckNotes
    BY AckSubjects
  <1>2. step \in {"requesting", "completing"}
    BY <1>1 DEF Trail, AckTypeOK, Steps, CommandTx, ServerTx, Writing
  <1>3. txEvents = events /\ pending.subject = Note /\ receipt \in Receipts
    BY <1>2 DEF Trail, CommandTx, AckTypeOK
  <1>4. step = "completing" /\ receipt = k
    BY <1>2, <1>3, AckSubjects DEF Note
  <1> QED BY <1>3, <1>4 DEF Trail, Progress

\* A tail can be adopted only where nothing else wrote the files.
LEMMA ReconcileIsOwn ==
    ASSUME Trail, NEW allowed, Reconcile(allowed)
    PROVE  /\ outside = "never"
           /\ events' = audit /\ audit' = audit
           /\ Last(audit) \in Event
           /\ Last(audit).subject \in allowed
  <1>1. outside = "never"
    BY TornNeverVerifies DEF Trail, Inv, ForeignStays, Reconcile
  <1> QED BY <1>1, TailIsEvent, TailCompletes DEF Trail, Inv, Reconcile, TailMatches

\* What is committed stays committed.
LEMMA EventsGrow ==
    ASSUME Trail, Inv', [Next]_vars
    PROVE  /\ events \in Seq(Event) /\ events' \in Seq(Event)
           /\ IsPrefix(events, events')
  <1>1. events \in Seq(Event) /\ events' \in Seq(Event)
    BY DEF Trail, Inv, TypeOK
  <1>2. CASE Commit
    BY <1>1, <1>2 DEF Commit, Trail, Inv, TxExtends, InTx
  <1>3. CASE \E n \in Notes : Reconcile({n})
    <2>1. IsPrefix(events, audit) /\ events' = audit
      BY <1>3, ReconcileIsOwn DEF Reconcile, TailMatches
    <2> QED BY <1>1, <2>1
  <1>4. CASE events' = events
    BY <1>1, <1>4, PrefixPointwise
  <1> QED BY <1>1, <1>2, <1>3, <1>4, EventsKept DEF vars

LEMMA ProgressStep ==
    ASSUME Trail, Inv', AckNext PROVE Progress'
  <1> USE DEF Trail, Progress, place, command
  <1>1. CASE ServerStart \/ Serve \/ Stop
    BY <1>1 DEF ServerStart, Serve, Stop
  <1>2. CASE \E k \in Receipts : CommandStart(k)
    BY <1>2 DEF CommandStart
  <1>3. CASE WriteEvent
    BY <1>3 DEF WriteEvent, WriteAudit, WriteTranscript, InsertEvent, db, OpenRequest
  <1>4. CASE StoreReady \/ GiveUp
    BY <1>4 DEF StoreReady, GiveUp, Advance
  <1>5. CASE Recover
    <2>1. /\ events' = audit /\ Last(audit).subject \in Adoptable(receipt)
          /\ receipt' = receipt
          /\ step' = IF Last(audit).subject = Acknowledged(receipt)
                     THEN "ended" ELSE "move"
      BY <1>5, ReconcileIsOwn DEF Recover, Advance
    <2>2. SUFFICES ASSUME step' = "move" PROVE OpenRequest(events', receipt')
      BY <2>1 DEF OpenRequest
    <2>3. receipt \in Receipts
      BY <2>1 DEF Adoptable, OnePlace
    <2>4. Last(events').subject = Requested(receipt)
      BY <2>1, <2>2 DEF Adoptable
    <2>5. events' \in Seq(Event) /\ Len(events') > 0
      <3>1. events' \in Seq(Event)
        BY DEF Inv, TypeOK
      <3>2. Len(events') = Len(events) + 1 /\ Len(events) \in Nat
        BY <1>5, <2>1 DEF Recover, Reconcile, TailMatches, Inv, TypeOK
      <3> QED BY <3>1, <3>2
    <2> QED BY <2>1, <2>3, <2>4, <2>5, OpenAppend
  <1>6. CASE Begin
    BY <1>6 DEF Begin, BeginTx, db, OpenRequest
  <1>7. CASE LogRequested \/ LogAcknowledged
    BY <1>7 DEF LogRequested, LogAcknowledged, LogNote, Advance, db, OpenRequest
  <1>8. CASE CommitRequested
    <2>1. events' = txEvents /\ step' = "move" /\ receipt' = receipt
      BY <1>8 DEF CommitRequested, Commit, Advance
    <2>2. Len(txEvents) = Len(events) + 1 /\ Last(txEvents).subject = Requested(receipt)
      BY <1>8 DEF CommitRequested, Commit, CommandTx, Note
    <2>3. receipt \in Receipts
      BY <1>8 DEF CommitRequested, AckTypeOK
    <2>4. txEvents \in Seq(Event) /\ Len(events) \in Nat
      BY DEF Inv, TypeOK
    <2> QED BY <2>1, <2>2, <2>3, <2>4, OpenAppend
  <1>9. CASE Move
    BY <1>9 DEF Move, Advance, vars, OpenRequest
  <1>10. CASE MoveFails \/ CommandFails
    BY <1>10 DEF MoveFails, CommandFails, Raise
  <1>11. CASE CommitAcknowledged
    BY <1>11 DEF CommitAcknowledged
  <1>12. CASE Disturb
    BY <1>12 DEF Disturb, OutsideWrite, db, OpenRequest
  <1> QED BY <1>1, <1>2, <1>3, <1>4, <1>5, <1>6, <1>7, <1>8, <1>9, <1>10, <1>11,
             <1>12 DEF AckNext

\* How a transaction may change in one step of the store.
LEMMA TxGrows ==
    ASSUME Trail, Next, InTx'
    PROVE  \/ txEvents' = events
           \/ InTx /\ txEvents' = txEvents
           \/ InTx /\ Writing /\ txEvents' = Append(txEvents, pending)
  BY DEF Next, Start, BeginTx, RefuseTx, Block, LogChange, LogNote, BeginEvent,
     WriteAudit, WriteTranscript, InsertEvent, Commit, Abort, EventFails, Crash,
     RollBack, Snapshot, Reconcile, OutsideWrite, InTx, Writing, tx

LEMMA PairedStep ==
    ASSUME Trail, [Next]_vars PROVE TrailPaired'
  <1>0. CASE UNCHANGED vars
    BY <1>0 DEF vars, Trail, TrailPaired, Paired, InTx, Writing
  <1> SUFFICES ASSUME Next PROVE TrailPaired'
    BY <1>0
  <1>1. Paired(events) /\ (InTx => Paired(txEvents))
    BY DEF Trail, TrailPaired
  <1>2. ASSUME Writing, NEW k \in Receipts,
               pending # Torn, pending.subject = Acknowledged(k)
        PROVE  txEvents \in Seq(Event) /\ OpenRequest(txEvents, k)
    BY <1>2, PendingOpens DEF Trail, Inv, TypeOK
  <1>3. Paired(events')
    <2>1. CASE Commit
      BY <1>1, <2>1 DEF Commit, InTx, Paired
    <2>2. CASE \E n \in Notes : Reconcile({n})
      BY <2>2, ReconcileIsOwn DEF Trail, TrailPaired
    <2>3. CASE events' = events
      BY <1>1, <2>3
    <2> QED BY <2>1, <2>2, <2>3, EventsKept
  <1>4. ASSUME InTx' PROVE Paired(txEvents')
    <2>1. CASE InTx /\ Writing /\ txEvents' = Append(txEvents, pending)
      <3>1. txEvents \in Seq(Event \cup {Torn}) /\ pending \in Event \cup {Torn}
        BY <2>1 DEF Trail, Inv, TypeOK, PendingIsEvent, Writing
      <3> QED BY <1>1, <1>2, <2>1, <3>1, PairedAppend
    <2> QED BY <1>1, <1>4, <2>1, TxGrows
  <1>5. ASSUME outside' = "never" PROVE Paired(audit')
    <2>1. outside = "never" /\ Paired(audit)
      BY <1>5, OwnStep DEF Trail, TrailPaired
    <2>2. audit \in Seq(Event \cup {Torn})
      BY DEF Trail, Inv, TypeOK, Lines
    <2>3. CASE audit' = audit
      BY <2>1, <2>3
    <2>4. CASE audit' = Append(audit, Torn)
      BY <2>1, <2>2, <2>4, PairedAppend
    <2>5. CASE phase = "event" /\ audit' = Append(audit, pending)
      <3>1. audit = txEvents /\ Writing /\ pending \in Event
        BY <2>1, <2>5 DEF Trail, Inv, FilesAt, Writing, PendingIsEvent
      <3> QED BY <1>2, <2>1, <2>2, <2>5, <3>1, PairedAppend
    <2> QED BY <1>5, <2>3, <2>4, <2>5, FilesGrow DEF Trail
  <1> QED BY <1>3, <1>4, <1>5 DEF TrailPaired, Paired

\* A torn line is never taken back.
LEMMA TornStays ==
    ASSUME NEW S, NEW s \in Seq(S), NEW l \in S,
           \E i \in 1..Len(s) : s[i] = Torn
    PROVE  \E i \in 1..Len(Append(s, l)) : Append(s, l)[i] = Torn
  <1>1. PICK i \in 1..Len(s) : s[i] = Torn
    OBVIOUS
  <1>2. i \in 1..Len(Append(s, l)) /\ Append(s, l)[i] = s[i]
    OBVIOUS
  <1> QED BY <1>1, <1>2

LEMMA ForeignStep ==
    ASSUME Trail, [Next]_vars PROVE ForeignStays'
  <1> SUFFICES ASSUME outside' # "never"
               PROVE  \/ \E i \in 1..Len(audit') : audit'[i] = Torn
                      \/ \E i \in 1..Len(transcript') : transcript'[i] = Torn
    BY DEF ForeignStays
  <1>0. audit \in Lines /\ transcript \in ReadableLines
    BY DEF Trail, Inv, TypeOK
  <1>3. CASE UNCHANGED vars
    BY <1>3 DEF vars, Trail, ForeignStays
  <1>1. CASE OutsideWrite
    BY <1>0, <1>1, DamageIsTorn DEF OutsideWrite, Lines, ReadableLines
  <1>2. CASE Next /\ ~OutsideWrite
    <2>1. \/ \E i \in 1..Len(audit) : audit[i] = Torn
          \/ \E i \in 1..Len(transcript) : transcript[i] = Torn
      BY <1>2 DEF Trail, ForeignStays, Next, Start, BeginTx, RefuseTx, Block,
         LogChange, LogNote, WriteAudit, WriteTranscript, InsertEvent, Commit,
         Abort, EventFails, Crash, Reconcile
    <2>2. \/ audit' = audit
          \/ \E l \in Event \cup {Torn} : audit' = Append(audit, l)
      BY <1>2 DEF Next, Start, BeginTx, RefuseTx, Block, LogChange, LogNote,
         WriteAudit, WriteTranscript, InsertEvent, Commit, Abort, EventFails,
         Crash, Reconcile, AuditInterrupted, TranscriptInterrupted, LinesWritten,
         files, Trail, Inv, PendingIsEvent
    <2>3. Readable(pending) \in ReadableEvent \/ ~WriteTranscript
      BY DEF WriteTranscript, Trail, Inv, PendingIsEvent, Readable, Event,
         ReadableEvent
    <2>4. \/ transcript' = transcript
          \/ \E l \in ReadableEvent \cup {Torn} : transcript' = Append(transcript, l)
      BY <1>2, <2>3 DEF Next, Start, BeginTx, RefuseTx, Block, LogChange, LogNote,
         WriteAudit, WriteTranscript, InsertEvent, Commit, Abort, EventFails,
         Crash, Reconcile, AuditInterrupted, TranscriptInterrupted, LinesWritten,
         files
    <2>5. CASE \E i \in 1..Len(audit) : audit[i] = Torn
      BY <1>0, <2>2, <2>5, TornStays DEF Lines
    <2>6. CASE \E i \in 1..Len(transcript) : transcript[i] = Torn
      BY <1>0, <2>4, <2>6, TornStays DEF ReadableLines
    <2> QED BY <2>1, <2>5, <2>6
  <1> QED BY <1>1, <1>2, <1>3

\* A receipt is archived only after its request is committed.
LEMMA ArchivedStep ==
    ASSUME Trail, Inv', AckNext, [Next]_vars PROVE ArchivedWasRequested'
  <1> SUFFICES ASSUME NEW k \in archive' PROVE Holds(events', Requested(k))
    BY DEF ArchivedWasRequested, Holds
  <1>1. Holds(events, Requested(k))
    <2>1. CASE k \in archive
      BY <2>1 DEF Trail, ArchivedWasRequested
    <2>2. CASE k = receipt /\ step = "move"
      BY <2>2, OpenHolds DEF Trail, Progress, Inv, TypeOK
    <2> QED BY <2>1, <2>2, PlaceStep
  <1> QED BY <1>1, EventsGrow, HoldsGrows

\* A completion is announced only for a receipt that is in the archive.
LEMMA AcknowledgedStep ==
    ASSUME Trail, Inv', AckNext, [Next]_vars PROVE AcknowledgedIsArchived'
  <1> SUFFICES ASSUME outside' = "never", NEW k \in Receipts,
                      Holds(audit', Acknowledged(k))
               PROVE  k \in archive' \ queue' /\ Holds(events', Requested(k))
    BY DEF AcknowledgedIsArchived, Holds
  <1>1. outside = "never" /\ (Next \/ audit' = audit)
    BY OwnStep DEF vars
  <1>2. k \in archive \ queue /\ Holds(events, Requested(k))
    <2>1. CASE Holds(audit, Acknowledged(k))
      BY <1>1, <2>1 DEF Trail, AcknowledgedIsArchived
    <2>2. CASE phase = "event" /\ audit' = Append(audit, pending)
               /\ pending.subject = Acknowledged(k)
      BY <2>2, PendingOpens, OpenHolds DEF Writing, Trail, Inv, TypeOK
    <2>3. ASSUME NEW l \in Event \cup {Torn}, audit' = Append(audit, l)
          PROVE  \/ Holds(audit, Acknowledged(k))
                 \/ l # Torn /\ l.subject = Acknowledged(k)
      <3>1. /\ Len(audit') = Len(audit) + 1 /\ Len(audit) \in Nat
            /\ \A i \in 1..Len(audit) : audit'[i] = audit[i]
            /\ audit'[Len(audit) + 1] = l
        BY <2>3 DEF Trail, Inv, TypeOK, Lines
      <3> QED BY <3>1 DEF Holds
    <2>4. phase = "event" => pending \in Event
      BY DEF Trail, Inv, PendingIsEvent
    <2> QED BY <1>1, <2>1, <2>2, <2>3, <2>4, FilesGrow DEF Trail
  <1> QED BY <1>2, PlaceStep, EventsGrow, HoldsGrows
-----------------------------------------------------------------------------
(* What an interrupted command leaves.                                     *)

\* One event ahead of the database, a whole trail is recoverable.
LEMMA OneAhead ==
    ASSUME TypeOK, NEW t \in Seq(Event), NEW allowed,
           audit = t, transcript = Transcribe(t),
           IsPrefix(events, t), Len(t) = Len(events) + 1,
           Chained(events), Chained(t), Last(t).subject \in allowed
    PROVE  TailMatches(allowed)
  <1>1. events \in Seq(Event) /\ Len(events) \in Nat /\ Len(t) \in 1..Len(t)
    BY DEF TypeOK
  <1>2. Len(transcript) = Len(audit) /\ Last(transcript) = Readable(Last(audit))
    BY <1>1, TranscribeType DEF Last
  <1>3. IsPrefix(Transcribe(events), transcript)
    BY <1>1, TranscribePrefix
  <1>4. Last(audit) # Torn
    <2>1. t[Len(t)] \in Event
      BY <1>1
    <2> QED BY <2>1, TornIsForeign DEF Last
  <1>5. Last(audit).prev = LastId(events)
    <2>1. CASE Len(events) = 0
      <3>1. events = <<>> /\ Len(t) = 1
        BY <1>1, <2>1
      <3> QED BY <3>1, <1>1 DEF Chained, Last, LastId
    <2>2. CASE Len(events) # 0
      <3>1. events # <<>> /\ Len(t) # 1 /\ Len(t) - 1 = Len(events)
        BY <1>1, <2>2
      <3>2. t[Len(events)] = events[Len(events)]
        BY <1>1, <2>2, PrefixPointwise
      <3> QED BY <1>1, <3>1, <3>2 DEF Chained, Last, LastId
    <2> QED BY <2>1, <2>2
  <1> QED BY <1>2, <1>3, <1>4, <1>5 DEF TailMatches

\* Between its transactions an unblocked store agrees with its files.
LEMMA IdleVerifies ==
    ASSUME Trail, outside = "never", phase = "idle", ~blocked
    PROVE  Verifies(audit, transcript)
  BY DEF Trail, Inv, FilesAt, TxExtends, Verifies

\* At each of its steps, what the command leaves if it stops is recoverable.
LEMMA CommandRemains == Trail /\ InCommand => Remains(receipt)
  <1> SUFFICES ASSUME Trail, InCommand, outside = "never", WholeTail,
                      ~Verifies(audit, transcript)
               PROVE  TailMatches(Adoptable(receipt))
    BY DEF Remains
  <1>1. phase # "idle" /\ ~blocked
    BY IdleVerifies DEF Trail, CommandTx
  <1>2. TypeOK /\ Chained(events)
    BY DEF Trail, Inv, TxExtends
  <1>3. txEvents # events \/ phase \notin {"open", "event"}
    BY <1>2 DEF Trail, Inv, FilesAt, Verifies
  <1>4. phase # "audited"
    <2> SUFFICES ASSUME phase = "audited" PROVE FALSE
      OBVIOUS
    <2>1. audit = Append(txEvents, pending) /\ transcript = Transcribe(txEvents)
      BY DEF Trail, Inv, FilesAt
    <2>2. txEvents \in Seq(Event) /\ pending \in Event
      BY DEF Trail, Inv, TypeOK, PendingIsEvent
    <2>3. Len(audit) = Len(txEvents) + 1 /\ Len(transcript) = Len(txEvents)
          /\ Len(txEvents) \in Nat
      BY <2>1, <2>2, TranscribeType
    <2> QED BY <2>3 DEF WholeTail
  <1>5. /\ step \in {"requesting", "completing"}
        /\ phase \in {"open", "transcribed"}
    BY <1>1, <1>3, <1>4 DEF Trail, CommandTx, InCommand, InTx, Writing
  <1>6. Note \in Adoptable(receipt)
    BY <1>5 DEF Trail, AckTypeOK, OnePlace, Progress, Note, Adoptable
  <1>7. \E t \in Seq(Event) :
            /\ audit = t /\ transcript = Transcribe(t)
            /\ IsPrefix(events, t) /\ Len(t) = Len(events) + 1
            /\ Chained(t) /\ Last(t).subject = Note
    <2>1. CASE phase = "open"
      <3>1. /\ audit = txEvents /\ transcript = Transcribe(txEvents)
            /\ txEvents \in Seq(Event)
            /\ IsPrefix(events, txEvents) /\ Chained(txEvents)
        BY <2>1 DEF Trail, Inv, FilesAt, TxExtends, InTx, TypeOK
      <3>2. Len(txEvents) = Len(events) + 1 /\ Last(txEvents).subject = Note
        BY <1>5, <2>1 DEF Trail, CommandTx
      <3> QED BY <3>1, <3>2
    <2>2. CASE phase = "transcribed"
      <3> DEFINE t == Append(events, pending)
      <3>1. Writing /\ InTx
        BY <2>2 DEF Writing, InTx
      <3>2. txEvents = events /\ pending.subject = Note
        BY <1>5, <3>1 DEF Trail, CommandTx
      <3>3. /\ events \in Seq(Event) /\ pending \in Event
            /\ pending.prev = LastId(events)
        BY <3>1, <3>2 DEF Trail, Inv, TypeOK, PendingIsEvent, Writing, TxExtends
      <3>4. audit = t /\ transcript = Append(Transcribe(events), Readable(pending))
        BY <2>2, <3>2 DEF Trail, Inv, FilesAt
      <3>5. transcript = Transcribe(t)
        BY <3>3, <3>4, TranscribeAppend
      <3>6. IsPrefix(events, events)
        BY <3>3, PrefixPointwise
      <3>7. IsPrefix(events, t) /\ Chained(t)
        BY <1>2, <3>3, <3>6, PrefixAppend, ChainAppend
      <3>8. t \in Seq(Event) /\ Len(t) = Len(events) + 1 /\ Last(t) = pending
        BY <3>3 DEF Last
      <3> QED BY <3>2, <3>4, <3>5, <3>7, <3>8
    <2> QED BY <1>5, <2>1, <2>2
  <1> QED BY <1>2, <1>6, <1>7, OneAhead

\* Torn lines are never whole.
LEMMA TornIsNotWhole ==
    ASSUME TypeOK,
           \/ audit' = Append(audit, Torn)
           \/ transcript' = Append(transcript, Torn)
    PROVE  ~WholeTail'
  <1>1. ASSUME NEW S, NEW s \in Seq(S)
        PROVE  Len(s) + 1 \in 1..Len(Append(s, Torn))
               /\ Append(s, Torn)[Len(s) + 1] = Torn
    OBVIOUS
  <1> QED BY <1>1 DEF WholeTail, TypeOK, Lines, ReadableLines

LEMMA NextRemains == Trail' /\ InCommand' => Remains(receipt)'
  BY CommandRemains, PTL

\* Where neither the files nor the database nor the receipts move, nothing is
\* left that was not left before.
LEMMA StillRemains ==
    ASSUME UNCHANGED <<audit, transcript, events, place>>,
           outside' = "never" => outside = "never",
           \/ Remains(interrupted) /\ interrupted' = interrupted
           \/ Remains(receipt) /\ interrupted' = receipt
    PROVE  Remains(interrupted)'
  <1>1. UNCHANGED <<audit, transcript, events, queue, archive>>
    BY DEF place
  <1>2. WholeTail' = WholeTail
    BY <1>1 DEF WholeTail
  <1>3. Verifies(audit, transcript)' = Verifies(audit, transcript)
    BY <1>1 DEF Verifies, Chained, Transcribe
  <1>4. \A allowed : TailMatches(allowed) =>
            /\ Len(audit') = Len(events') + 1
            /\ Len(transcript') = Len(audit')
            /\ IsPrefix(events', audit')
            /\ IsPrefix(Transcribe(events'), transcript')
            /\ Chained(events')
            /\ Last(audit') # Torn
            /\ Last(audit').prev = LastId(events')
            /\ Last(audit').subject \in allowed
            /\ Last(transcript') = Readable(Last(audit'))
    BY <1>1 DEF TailMatches
  <1>5. ASSUME NEW k, interrupted' = k, TailMatches(Adoptable(k))
        PROVE  TailMatches(Adoptable(interrupted))'
    <2>1. Adoptable(interrupted)' = Adoptable(k)
      BY <1>1, <1>5 DEF Adoptable
    <2> QED BY <1>4, <1>5, <2>1 DEF TailMatches, Transcribe, Chained
  <1> QED BY <1>2, <1>3, <1>5 DEF Remains

\* Files with a torn line are not whole, so nothing is left to adopt.
LEMMA InterruptedRemains ==
    ASSUME Trail, InCommand, interrupted' = receipt,
           AuditInterrupted \/ TranscriptInterrupted \/ UNCHANGED files,
           UNCHANGED <<events, place, outside>>
    PROVE  Remains(interrupted)'
  <1>1. CASE UNCHANGED files
    BY <1>1, CommandRemains, StillRemains DEF files
  <1>2. CASE ~UNCHANGED files
    <2>1. ~WholeTail'
      BY <1>2, TornIsNotWhole
         DEF AuditInterrupted, TranscriptInterrupted, files, Trail, Inv
    <2> QED BY <2>1 DEF Remains
  <1> QED BY <1>1, <1>2

\* A move is taken back by nobody and leaves the files alone.
LEMMA MovedRemains ==
    ASSUME Trail, step = "move", UNCHANGED vars
    PROVE  Remains(interrupted)'
  <1>1. phase = "idle" /\ ~blocked
    BY DEF Trail, CommandTx, InCommand
  <1>2. outside = "never" => Verifies(audit, transcript)
    BY <1>1, IdleVerifies
  <1>3. Verifies(audit, transcript)' = Verifies(audit, transcript)
    BY DEF vars, Verifies, Chained, Transcribe
  <1> QED BY <1>2, <1>3 DEF Remains, vars

LEMMA LeftoversStep ==
    ASSUME AckInv, Trail', AckNext, [Next]_vars PROVE Leftovers'
  <1>0. outside' = "never" => outside = "never"
    BY OwnStep DEF vars
  <1> USE DEF AckInv
  <1>1. CASE ServerStart
    <2>1. /\ UNCHANGED <<audit, transcript, events, place>>
          /\ phase' = "idle" /\ step' = "none" /\ receipt' = receipt
          /\ interrupted' = IF blocked' THEN interrupted ELSE NoReceipt
      BY <1>1 DEF ServerStart, Start, db
    <2>2. interrupted' # NoReceipt => Remains(interrupted)'
      BY <1>0, <2>1, StillRemains DEF Leftovers
    <2> QED BY <2>1, <2>2 DEF Leftovers
  <1>2. CASE Serve
    <2>1. step = "none" /\ step' = "none" /\ interrupted' = interrupted
      BY <1>2 DEF Serve, command
    <2>2. phase # "down" /\ ~(phase = "idle" /\ blocked)
      BY <1>2 DEF Serve, BeginTx, LogChange, LogNote, BeginEvent, Commit, Abort,
         EventFails, AuditInterrupted, TranscriptInterrupted, LinesWritten, Block
    <2>3. interrupted = NoReceipt
      BY <2>1, <2>2 DEF Leftovers
    <2> QED BY <2>1, <2>3 DEF Leftovers
  <1>3. CASE WriteEvent
    <2>1. /\ step' = step /\ receipt' = receipt /\ interrupted' = interrupted
          /\ Writing
      BY <1>3 DEF WriteEvent, command, WriteAudit, WriteTranscript, InsertEvent,
         Writing
    <2>2. CASE step = "none"
      BY <2>1, <2>2 DEF Leftovers, Writing
    <2>3. CASE step # "none"
      <3>1. step \in {"requesting", "completing"}
        BY <2>1, <2>3 DEF Trail, AckTypeOK, Steps, CommandTx, Writing
      <3>2. Remains(receipt)'
        BY <2>1, <3>1, NextRemains DEF InCommand
      <3>3. interrupted # NoReceipt => interrupted' = receipt'
        BY <2>1, <2>3 DEF Leftovers
      <3>4. interrupted' # NoReceipt => Remains(interrupted)'
        BY <2>1, <3>2, <3>3 DEF Remains, TailMatches, Adoptable
      <3> QED BY <2>1, <2>3, <3>1, <3>3, <3>4 DEF Leftovers
    <2> QED BY <2>2, <2>3
  <1>4. CASE \E k \in Receipts : CommandStart(k)
    <2> PICK k \in Receipts : CommandStart(k)
      BY <1>4
    <2>1. /\ UNCHANGED <<audit, transcript, events, place>>
          /\ step = "none" /\ step' = "check" /\ receipt' = k
          /\ interrupted' = IF interrupted = k THEN k ELSE NoReceipt
          /\ blocked' = ~Verifies(audit, transcript)
      BY DEF CommandStart, Start, db
    <2>2. interrupted' # NoReceipt => Remains(interrupted)'
      BY <1>0, <2>1, StillRemains, ReceiptsAssumption DEF Leftovers
    <2>3. blocked' => ~Verifies(audit, transcript)'
      BY <2>1 DEF Verifies, Chained, Transcribe
    <2> QED BY <2>1, <2>2, <2>3 DEF Leftovers
  <1>5. CASE StoreReady \/ GiveUp \/ Begin \/ LogRequested \/ LogAcknowledged
    <2>1. /\ UNCHANGED <<audit, transcript, events, place>>
          /\ receipt' = receipt /\ interrupted' = interrupted
          /\ step # "none" /\ step' # "none" /\ step' # "check"
      BY <1>5 DEF StoreReady, GiveUp, Begin, LogRequested, LogAcknowledged,
         Advance, vars, BeginTx, LogNote, BeginEvent, db, command
    <2>2. interrupted' # NoReceipt => Remains(interrupted)'
      BY <1>0, <2>1, StillRemains DEF Leftovers
    <2> QED BY <2>1, <2>2 DEF Leftovers
  <1>6. CASE Recover
    <2>1. /\ receipt' = receipt /\ interrupted' = interrupted
          /\ step = "check" /\ step' # "none" /\ step' # "check"
          /\ phase' = "idle" /\ ~blocked'
      BY <1>6 DEF Recover, Advance, Reconcile, Trail, CommandTx
    <2>2. outside' = "never" => Verifies(audit, transcript)'
      BY <2>1 DEF Trail, Inv, FilesAt, TxExtends, Verifies
    <2>3. Remains(interrupted)'
      BY <2>2 DEF Remains
    <2> QED BY <2>1, <2>3 DEF Leftovers
  <1>7. CASE CommitRequested
    <2>1. /\ receipt' = receipt /\ interrupted' = interrupted
          /\ step # "none" /\ step' = "move"
      BY <1>7 DEF CommitRequested, Advance
    <2>2. Remains(receipt)'
      BY <2>1, NextRemains DEF InCommand
    <2>3. interrupted' # NoReceipt => interrupted' = receipt'
      BY <2>1 DEF Leftovers
    <2>4. interrupted' # NoReceipt => Remains(interrupted)'
      BY <2>2, <2>3 DEF Remains, TailMatches, Adoptable
    <2> QED BY <2>1, <2>3, <2>4 DEF Leftovers
  <1>8. CASE Move \/ MoveFails
    <2>1. /\ receipt' = receipt /\ interrupted' \in {interrupted, receipt}
          /\ step = "move" /\ step' # "none" /\ step' # "check"
      BY <1>8 DEF Move, MoveFails, Advance, Raise
    <2>2. Remains(interrupted)'
      BY <1>8, <2>1, MovedRemains DEF Move, MoveFails
    <2> QED BY <2>1, <2>2 DEF Leftovers
  <1>9. CASE CommitAcknowledged
    BY <1>9 DEF CommitAcknowledged, Leftovers
  <1>10. CASE CommandFails
    <2>1. /\ receipt' = receipt /\ interrupted' = receipt /\ step' = "ended"
          /\ InCommand /\ UNCHANGED place
      BY <1>10 DEF CommandFails, Raise, InCommand
    <2>2. /\ AuditInterrupted \/ TranscriptInterrupted \/ UNCHANGED files
          /\ UNCHANGED <<events, outside>>
      BY <1>10 DEF CommandFails, RefuseTx, Abort, EventFails, LinesWritten, db,
         files
    <2>3. Remains(interrupted)'
      BY <2>1, <2>2, InterruptedRemains
    <2> QED BY <2>1, <2>3 DEF Leftovers
  <1>11. CASE Stop
    <2>1. /\ step' = "none" /\ phase' = "down" /\ UNCHANGED place
          /\ UNCHANGED <<events, outside>>
          /\ interrupted' =
                IF step \in {"none", "check", "ended"} THEN interrupted
                ELSE receipt
          /\ \/ AuditInterrupted \/ TranscriptInterrupted
             \/ phase \in {"idle", "open", "transcribed"} /\ UNCHANGED files
      BY <1>11 DEF Stop, Crash, db
    <2>2. CASE InCommand
      <3>1. interrupted' = receipt
        BY <2>1, <2>2 DEF InCommand
      <3>2. Remains(interrupted)'
        BY <2>1, <2>2, <3>1, InterruptedRemains
      <3> QED BY <2>1, <3>2 DEF Leftovers
    <2>3. CASE ~InCommand
      <3>1. step \in {"none", "check", "ended"}
        BY <2>3 DEF InCommand, Trail, AckTypeOK, Steps
      <3>2. interrupted' = interrupted
        BY <2>1, <3>1
      <3>3. interrupted # NoReceipt => phase \in {"down", "idle"}
        BY <3>1 DEF Leftovers, Trail, CommandTx
      <3>4. interrupted # NoReceipt => UNCHANGED files
        BY <2>1, <3>3 DEF AuditInterrupted, TranscriptInterrupted
      <3>5. interrupted' # NoReceipt => Remains(interrupted)'
        BY <2>1, <3>2, <3>4, StillRemains DEF Leftovers, files
      <3> QED BY <2>1, <3>5 DEF Leftovers
    <2> QED BY <2>2, <2>3
  <1>12. CASE Disturb
    <2>1. /\ outside' # "never" /\ UNCHANGED command
          /\ UNCHANGED <<phase, blocked>>
      BY <1>12 DEF Disturb, OutsideWrite
    <2> QED BY <2>1 DEF Leftovers, Remains, command
  <1> QED BY <1>1, <1>2, <1>3, <1>4, <1>5, <1>6, <1>7, <1>8, <1>9, <1>10, <1>11,
             <1>12 DEF AckNext
-----------------------------------------------------------------------------
LEMMA AckInvInit == AckInit => AckInv
  <1> SUFFICES ASSUME AckInit PROVE AckInv
    OBVIOUS
  <1>1. Inv
    BY InvInit DEF AckInit
  <1>2. AckTypeOK /\ OnePlace
    BY DEF AckInit, AckTypeOK, Steps, OnePlace
  <1>3. audit = <<>> /\ events = <<>> /\ txEvents = <<>> /\ outside = "never"
    BY DEF AckInit, Init
  <1>4. Paired(<<>>) /\ \A n : ~Holds(<<>>, n)
    BY DEF Paired, Holds
  <1>5. TrailPaired /\ ForeignStays
    BY <1>3, <1>4 DEF TrailPaired, ForeignStays
  <1>6. ArchivedWasRequested /\ AcknowledgedIsArchived
    BY <1>3, <1>4 DEF AckInit, ArchivedWasRequested, AcknowledgedIsArchived
  <1> QED BY <1>1, <1>2, <1>5, <1>6 DEF AckInit, Init, AckInv, Trail, CommandTx,
             ServerTx, Progress, Leftovers, InCommand, Writing, InTx

LEMMA AckInvNext == AckInv /\ [AckNext]_ackVars => AckInv'
  <1>1. ASSUME AckInv, AckNext PROVE AckInv'
    <2>1. Trail /\ AckTypeOK /\ Inv
      BY <1>1 DEF AckInv, Trail
    <2>2. [Next]_vars
      BY <1>1, <2>1, StepKeepsStore
    <2>3. Inv' /\ AckTypeOK'
      BY <1>1, <2>1, <2>2, InvNext, AckTypeStep
    <2>4. Trail'
      BY <1>1, <2>1, <2>2, <2>3, CommandTxStep, ServerTxStep, ProgressStep,
         PlaceStep, PairedStep, ForeignStep, ArchivedStep, AcknowledgedStep
         DEF Trail
    <2> QED BY <1>1, <2>2, <2>4, LeftoversStep DEF AckInv
  <1>2. ASSUME AckInv, UNCHANGED ackVars PROVE AckInv'
    <2>1. UNCHANGED vars /\ UNCHANGED <<place, command>>
      BY <1>2 DEF ackVars
    <2>2. Inv' /\ AckTypeOK' /\ TrailPaired' /\ ForeignStays'
      BY <1>2, <2>1, InvNext, AckTypeStep, PairedStep, ForeignStep
         DEF AckInv, Trail
    <2>3. /\ CommandTx' /\ ServerTx' /\ Progress' /\ OnePlace'
          /\ ArchivedWasRequested' /\ AcknowledgedIsArchived'
      BY <1>2, <2>1 DEF AckInv, Trail, CommandTx, ServerTx, Progress, OnePlace,
         ArchivedWasRequested, AcknowledgedIsArchived, vars, place, command,
         InTx, Writing, InCommand, Note, OpenRequest, Holds
    <2>4. Remains(interrupted) => Remains(interrupted)'
      BY <2>1, StillRemains DEF vars, command
    <2>5. Verifies(audit, transcript)' = Verifies(audit, transcript)
      BY <2>1 DEF vars, Verifies, Chained, Transcribe
    <2>6. Leftovers'
      BY <1>2, <2>1, <2>4, <2>5 DEF AckInv, Leftovers, vars, command
    <2> QED BY <2>2, <2>3, <2>6 DEF AckInv, Trail
  <1> QED BY <1>1, <1>2

LEMMA AckInvariance == AckSpec => []AckInv
  BY AckInvInit, AckInvNext, PTL DEF AckSpec

\* Through every crash and repetition a receipt is in one place, archived only
\* as requested, acknowledged only as archived, and once for each request.
THEOREM IntentBeforeEffect == AckSpec => []AcknowledgedInOrder
  <1>1. AckInv => AcknowledgedInOrder
    <2> SUFFICES ASSUME AckInv PROVE EachCompletionRequested
      BY DEF AckInv, Trail, OnePlace, AcknowledgedInOrder
    <2>1. events \in Seq(Event) /\ Paired(events)
      BY DEF AckInv, Trail, TrailPaired, Inv, TypeOK
    <2>2. \A i \in 1..Len(events) : events[i] # Torn
      BY <2>1, TornIsForeign
    <2> QED BY <2>1, <2>2 DEF Paired, EachCompletionRequested
  <1> QED BY <1>1, AckInvariance, PTL

\* The command, repeated after an interruption that left whole lines, always
\* takes over what the interrupted one left.
THEOREM RepetitionTakesOver == AckSpec => []RepeatableUnlessTorn
  <1>1. AckInv => RepeatableUnlessTorn
    <2> SUFFICES ASSUME AckInv, WholeTail, step = "check", blocked,
                        interrupted = receipt, outside = "never"
                 PROVE  Recoverable(receipt)
      BY DEF RepeatableUnlessTorn, Repeatable
    <2>1. interrupted # NoReceipt
      BY DEF AckInv, Trail, AckTypeOK
    <2> QED BY <2>1 DEF AckInv, Leftovers, Remains, Recoverable
  <1> QED BY <1>1, AckInvariance, PTL
=============================================================================
