# Harbinger: verification project

TLA+ specifications of the server side of Harbinger (`workspace/*.py`), the
TLC configurations that check them and the TLAPS proofs about them. Harbinger
keeps the records of one engagement in a private folder, announces every change
in an audit trail, runs uploaded files through parsers in a service without
network, and exchanges signed bundles with paired hosts.

## 1. The system

| Component | Source | State | Operations |
| --- | --- | --- | --- |
| Audit store | `store.py` | SQLite (records, revisions, events, tables of the other components), `audit.jsonl`, `transcript.log`; in memory `blocked`, `audit_stats` | `tx`, `event`, `put`, `verify`, `reconcile_tail_event` |
| Server | `server.py` | the store, one file slot | uploads, parse, preview, merge, notes and evidence routes; `create_app` recovery |
| Parser queue | `isolation.py` | files of `parser-queue`, one slot | `run_parser`, `queue_parser` |
| Parser service | `parser_service.py`, `parser_job.py` | the same files, the child process | `serve`, `child`, `inspect_queue`, `acknowledge_receipt` |
| Command line | `cli.py` | the store, the queue, the archive, backups | `initialize`, `backup`, `restore`, `acknowledge_parser_receipt` |
| Transfers | `transfer.py` | tables `transfers`, `peer_http_nonces`, folders `artifacts`, `conflicts`, `exports` | `build_bundle`, `open_bundle`, `resolve_conflict`, `authorize_peer_headers`, `send` |
| Sessions | `auth.py` | tables `users`, `sessions`, `login_limits` | `login`, `session`, logout |
| Harness trust | `harness_trust.py` | tables `harness_sources`, `harness_envelopes` | enrol, revoke, verify (part of the uploads here) |
| Ghostwriter adapter | `ghostwriter.py` | none of its own | refused by configuration |
| Parsers, filters, schemas, origins | `parsers/`, `evidence_images/`, `client_info_stripper/`, `models.py`, `origins.py` | none | pure functions |
| Management, front end | `manage.sh`, `compose.yaml`, `frontend/` | none | wrappers and presentation |

How they interact. Every component that changes records does so inside
`with store.tx()`, which holds the process lock and an SQLite write transaction
and in which `event()` appends to the two audit files. No handler awaits inside
a transaction. Files (artifacts, conflict ciphertext, queue entries) are written
outside transactions, before or after them. The server hands a file to the parser
service through the queue directory only. Commands of `cli.py` run in processes
of their own while the services are stopped. Paired hosts reach one route,
`/peer/inbox`, whose headers are authorized before the body is read.

What is hard here:

- two files and a database cannot be written atomically, and a process may die
  between any two writes (store, parser-ack);
- two processes share a directory and may both die, at deadlines of their own
  (parser queue);
- messages are delayed and delivered twice, with clocks that disagree (peers);
- handlers read, leave the lock and write later (uploads, conflicts, imports);
- a bundle is cached before its approval is committed, and the sender often does not
  know whether it arrived (transfers);
- a session is looked up and refreshed in two statements outside the lock, and a login
  reads its clock before it waits for the lock (sessions);
- a backup copies a database, two logs and many files one after the other while another
  process may write them, and a restore reads its source twice (backup).

What makes each component correct is listed with its module below; the hazards
behind those properties, with their source lines, are in `PROJECT.json`.

## 2. Modules

| Module | What it is |
| --- | --- |
| `AuditLedger` | abstract: the write-ahead ledger that the store promises |
| `AuditStore` | the store: transactions, the steps of `event()`, failures, crashes, recovery |
| `AuditStoreProofs` | theorems about `AuditStore` and `ReceiptAck` |
| `ReceiptAck` | EXTENDS `AuditStore`: the parser-ack command and the server between commands |
| `PeerAdmission`, `PeerAdmissionProofs` | admission of signed peer requests |
| `ParseJobs` | abstract: what a user who asks for a parse may rely on |
| `ParserQueue`, `ParserQueueProofs` | the app, the queue directory, the parser service and its child, and theorems about them |
| `BundleDelivery` | abstract: what a bundle from a paired host may come to |
| `BundleImport` | import of bundles, resolution of conflicts, the files of both and their cleanup |
| `BundleImportProofs` | theorems about `BundleImport`, and that it implements `BundleDelivery` |
| `TransferExchange` | building, caching and sending of bundles, and the receipts that come back |
| `TransferExchangeProofs` | theorems about `TransferExchange` |
| `EvidenceReview` | abstract: what users who share an engagement may rely on for each upload |
| `UploadLifecycle` | one upload from receipt over parses and reviews to merge and export approval |
| `UploadLifecycleProofs` | theorems about `UploadLifecycle`, and that it implements `EvidenceReview` |
| `SessionAuth`, `SessionAuthProofs` | login limits, sessions, logout and the event stream, and theorems about them |
| `BackupRestore`, `BackupRestoreProofs` | a backup beside a running writer, a restore from a medium that goes bad, and theorems about them |
| `MC*` | instances for TLC |

### AuditStore

The process lock and `BEGIN IMMEDIATE` serialise transactions, so `phase` stands
for all request threads: `idle`, `open` (inside `tx`), `event` (the body is built),
`audited` and `transcribed` (a file is appended and synced). `audit` and
`transcript` are the lines of the files, `events` and `revs` the committed rows,
`txEvents` and `txRevs` what the open transaction sees, `stats` is
`Store.audit_stats`. A hash is abstracted to the identity of the entry it hashes:
`prev` names the entry before. A revision of a record and the event that announces
it are one action (`LogChange`), since handlers write them in the same transaction
and nothing observes the order inside it. A failed or interrupted write leaves
nothing, a torn line or a complete one; a write that stops half way looks the same
as a foreign fragment, so both are `Torn`. `Block` is the assignment of
`store.blocked` by handlers, which takes no lock. `OutsideWrite` lets something
else append to, or damage, a file once, between or during transactions.

`AuditLedger` states the promise without files and transactions: what is committed
was shown, only a run of shown entries is committed, and a ledger that shows more
than was committed is frozen until settled; exactly one entry can be adopted, and
only one that announces no record change. A ledger whose fault is reported closes: what
is under way may still be settled, and then it is frozen. `ImplementsLedger` is the
refinement, with the store frozen while it is down, or idle and blocked, and closing
while it is blocked beside an open transaction, whose rollback must not unblock it: every
step is a step of the ledger or changes nothing of it, until something else writes the files.

### ReceiptAck

Extends the store with the queue, the archive and the steps of
`acknowledge_parser_receipt`. Every process, a command or the server, opens the
store afresh (`CommandStart`, `ServerStart`), so the store's `Start` and `Crash`
are the start and the end of processes. Where the receipt lies decides which
orphaned tail a repeated command adopts (`Adoptable`). `interrupted` remembers, for
the properties, whose command was cut short. The server between commands logs events of
its own (`Serve`), but none of the two kinds the command logs (`AckNotes`).

### PeerAdmission

`authorize_peer_headers` with its clock read, window, table and transaction. The
receiver reads its clock before it waits for the lock, so time passes between the
check and the insertion. `Window` and `Retention` are constants; the code has 60
and 300 seconds, and the assumption `Retention >= 2 * Window` is all that the
properties need. The receiver's clock never runs backwards.

### ParserQueue

`files` is the directory, as pairs of a job and a kind (`tmp` and `rtmp` are the
hidden temporary files of the request and of the service). `pc` walks through
`queue_parser` one file access at a time, `handler` through `parse_upload` around it
(marking, asking for the parser slot, saving the outcome), `svc` through `serve()` and
`child` through the child. Each of the processes may die at any step. A failed read
or write, an invalid result and both receipts at once are the one outcome
`Ambiguous`, after which the code erases nothing. A child that is killed at any
moment covers the deadline of the service, the cancel marker and SIGTERM. `AppStart` marks all
interrupted uploads in one step; the code has a transaction for each, and a start that dies
between them leaves the rest to the next.

`ParseJobs` leaves out directory, slot and deadlines: a parse that was asked for runs at
most once, possibly after its user was told that it failed; a preview needs a run; every
answer but a bare failure is given when the parser has stopped; and a restart hands to a
reviewer only parses that are over. `ImplementsParseJobs` takes the child that has not been
reaped for the running job, the upload records for the answers, and `runs` for itself.

### BundleImport

Every thread in `open_bundle` or `resolve_conflict` is a record of `call`: where it is
(`pc`), what it still has to write (`todo`), the files it takes itself for the creator
of (`created`) and the revisions its reviewer named (`named`). A bundle is what it
carries: a source revision per record. Whether a record is a duplicate, missing or in
conflict follows from `local`, as in `open_bundle`.

The three moments of a file are kept apart: looking for it, opening it with `O_EXCL`
and completing it, so that a file on disk is `absent`, `partial` or `full`. An import
holds the store's lock (`holder`) from its checks to its commit and writes its files in
between; a resolution writes its files first and takes the lock for its second
comparison only. The cleanup of a failed call starts when the lock is free: it reads
which files committed records name, then unlinks the rest one by one. Two imports may
overlap although requests take turns at the upload slot, since the timeout of a request
(`server.py`, 180 seconds) cancels the wait and not the thread. Replicas cannot be
edited here, so accepting a conflict is the only thing that replaces one. `shared` is
kept for a property only: the files a call found in place while another call had them
down as its own.

`BundleDelivery` is what the sender and the reviewer may rely on: a bundle is imported,
or waits for review and is then imported or dropped in favour of the local records;
nothing else ever happens to it. `ImplementsDelivery` maps the table of receipts and the
conflict records to one outcome per bundle.

### TransferExchange

The two routes `export` and `send` around `build_bundle`, and the answers of the other
host. `version` stands for everything a review hash is computed from, `Review` gives the
version a bundle is built from, so many bundles could carry one review. A request is a
record of `call`: it builds inside a transaction (`holder`), or takes the bundle from the
cache, and then exports or posts it. A cached bundle is two files, each created with
`O_EXCL` and then filled; `stage` counts the four steps, and half a cache is what
`_load_cached_bundle` and `verify()` refuse. The events of a build reach the audit files
before its commit (`ahead`), as in `AuditStore`, whose transactions are one lock, one
blocked flag and one verification here. A build that fails keeps its files (`BuildFails`,
`EventFails`, `Restart`); `cut` remembers, for a property only, the bundles whose cache was
whole by then: the next request for the review sends such a bundle although no
`transfer.approved` names it. This is the code as it is, and `SentIsApproved` says that it
is the only way.

What was sent stays in `sent`, and may arrive at any time, any number of times, or never.
The receiver is `BundleDelivery`, which `BundleImport` is proved to implement, with
the receipt that `open_bundle` stores and a resolution rewrites. An answer can be late: it is
what the receipt was when it was given (`Answer`), logged whenever the sender gets to it
(`LogReceipt`), or never (`LogUnconfirmed`, `GiveUp`).

### UploadLifecycle

A transaction of `server.py` is one action, since nothing else runs between its
statements; everything a handler reads or writes outside one is an action of its own.
An upload takes the file slot (`StartUpload`), writes its artifact (`FinishFile`), and in
one transaction looks for its envelope and its observation and is saved, answered as a
duplicate or refused. The artifact is removed afterwards unless the flag `committed` was set,
which the code does before the commit: a failed commit keeps an artifact nobody names
(`CommitFails`). The slot is `slot`, the upload whose request the middleware `boundary` waits
for. Its timeout of 180 seconds (`TransferDeadline`) cancels the wait and frees the slot, but
not the handler, which `call_next` runs in a task of its own: it goes on to write and commit
beside the next upload. Nothing therefore rests on the slot: each request has a file of its own, and
duplicates are looked up in the transaction that saves. Imports and the peer inbox take
the same slot, which only makes an upload start later. A parse reads the record on the event loop (`ReadForParse`), marks it in a
transaction that reads it again (`BeginParse`), and saves its result only over its own
mark. A preview page is two queries, first the upload and then its preview, and is
submitted with the revisions it showed (`Bound`, `Merge`) at any later time. The index of
harness envelopes is not a variable: it is the set of harness uploads that were saved.
`admitted` is the set of envelopes that an audit event names as received, and `seen` is what
a reviewer's page shows. Sources are enrolled and revoked by `cli.py` while the app is stopped.

`EvidenceReview` has no handlers, files, envelopes or pages: each change of a record is one
step and one revision, a parse begins only on an upload that nobody works on, and its
end takes the mark back, leaves it behind, or saves a whole result. `ImplementsReview`
takes as the work on an upload the requests that are past their own mark.

### SessionAuth

`limit` and `session` are the tables `login_limits` and `sessions`, `users` the names with
an account, `now` the clock. A login is a record of `login` from its clock read
(`Attempt`) to its transaction, where it is throttled, denied or accepted. The
middleware's `auth.session` runs on the event loop and does not await, so there is one
lookup at a time (`LoopFree`); its SELECT (`CheckActive`) and its UPDATE (`Touch`) are two
actions, since login and logout run in threads and can fall in between. A passive request
(events, status, readiness) has no UPDATE. A request that was found signed in goes on
(`acting`), however late, and one of them is the logout. A stream keeps the cookie of its
request and looks it up again until it ends (`StreamEnds`). The process may restart at
any time; the tables stay.

`burst`, `life` and `refused` are kept for the properties: how many denials of a key
followed each other closely, when a token was made, last used by a request that is not
passive, and signed out, and which tokens were ever refused. The times are constants;
the code has five failures, 300, 1800 and 28800 seconds. `MaxWait` bounds the wait of a
login for the lock, which the code does not bound: a login that waited longer than
the window counts from a clock that is out of date. The gap that ends a burst is `Window`
less `MaxWait` for that reason.

### BackupRestore

An item is an upload or a bundle kept for a conflict, with a file of its own, an event and
a record. The writer is one process at a time that adds items in the order of the code:
file, transaction, line of the audit, line of the transcript, commit; it may be rolled
back, stop or die anywhere and start again, while a backup runs. The database is three
sets: `db`, what is committed, and the two pages of `main`, what of it the last
checkpoints took to the database file. `sidecars` says whether a write-ahead log lies
beside it. A backup opens its store read-only (`OpenSource`): if it saw sidecars, it reads
one snapshot of all that is committed (`CopySnapshot`); if it saw none, it reads the
database file alone and without locks, so its two pages are copied at different times
(`CopyFirstPage`, `CopySecondPage`). It lists the files before it verifies and copies the
database, and the logs last, as `backup` does, and then verifies the copy (`Publish`).

A restore checks every piece against the manifest, copies the pieces one by one and
compares each copy again, while `Spoil` and `Mend` change the medium at any time. `listed`,
`moments` and `steady` are kept for the properties: what was committed when the files were
listed, every value the database has had since, and whether the copy was one snapshot or no
checkpoint ran since the store was opened. Without
the latter a published backup may hold the records of one time and the events of
another: the verification of the copy compares events with the logs, but not with
records. The operator's guide asks for the services to be stopped, which excludes this case.

## 3. Runs and bounds

| Run | Question | Bounds |
| --- | --- | --- |
| `store` | do files and database stay in step under everything, including one foreign write, and is the store a ledger until then? | 2 records, 2 notes, 4 events ever begun |
| `receipt_ack` | does the command keep order and can it be repeated? | 1 record, 2 receipts, 1 note of the server, 4 events |
| `peer_admission` | is every request authorized once? | 2 sources, 2 nonces, window 1, retention 2, times 0 to 4 |
| `parser_queue` | do app and service share the queue safely, and does every parse end? | 2 jobs |
| `parser_queue_restart` | does an app that died during a parse start again? (no) | 2 jobs |
| `bundle_import` | do overlapping imports and resolutions, failing anywhere, keep the promise of `BundleDelivery`? | 1 finding, 2 evidence files, 3 bundles, 2 calls |
| `bundle_import_race` | does every committed record keep its file when calls overlap? (no) | the same |
| `transfer_exchange` | does one review leave as one bundle, and is the audit trail about it true? | 2 requests, 2 versions, 3 bundles, 2 records |
| `upload_lifecycle` | do uploads, parses, reviews, merges and approvals of several users stay consistent? | 2 uploads, 2 parse requests, 1 reviewer, 4 revisions |
| `upload_envelope_reuse` | does an envelope identifier name one content? (no) | 3 uploads |
| `session_auth` | is guessing limited, and is a session over when it is over? | 1 name, 1 address, 2 logins, 1 session, 2 requests, 2 failures, window 3, wait 1, idle 1, lifetime 2, times 0 to 4 |
| `backup_restore` | is a backup whole, and a restored workspace the backup? | 1 upload, 1 conflict bundle, 1 bad piece at a time |

Why these are enough. Four events allow a committed event, one lost by a rollback,
one orphaned by a crash and the one that would fork the chain after it; one more
changes no relation between two neighbours. Two receipts let a command for one
find the orphan of the other. A retention of exactly twice the window is the edge at
which a nonce is forgotten, and the times reach past it. The app hands over one job
at a time, so two jobs are one left behind and one under way. Three bundles over one
finding are the first import, a conflict and a second conflict over the same record,
which is what makes two decisions compete; a second evidence file lets a call fail with
one written. Two versions, the first with two possible bundles, let a retry build a second
bundle and let the bundle of the second version conflict with the first at the receiver; two requests let
one find what the other has built, cached or left behind. Four revisions of an upload are the marks and results of two parses; each
of approval and merge takes one of them, so every order of the four is there. Three
uploads are what the reuse of an envelope takes: the observation, its duplicate under
another envelope, and the reuse of that one. Two logins are enough for one to be denied
while the other waits with an older clock, two failures for a counter to be set back by
it, and two requests for a lookup, a logout and a stream of one session to overlap; the
times reach past the window, the idle timeout and the lifetime. Keys and tokens do not touch
each other, so one of each is enough. Two items are one that a backup lists and one that
is written meanwhile, or is half written, and a conflict bundle differs from an upload
in what `verify` compares. Once a backup is published, what happens to its source cannot
change it, so the instance stops the writer there. The bounds are in the
guards (`MaxEvents`, `MaxTime`, `MaxRevision`), in the two constraints of `MCBackupRestore`
or in the size of the constants. The proofs in section 5 do not depend on them.

Deadlock is checked in every run but `backup_restore`, whose writer, backup and restore
may all be done.

Properties of `store`: `CommittedIsDurable` (write-ahead), `ReadyMeansAgreed` (a store
that would accept work agrees with its files), `AuditNeverForks`,
`EveryRevisionAnnounced`, `ForeignWriteStopsCommits` (no commit after a foreign write,
across restarts and recovery). Of `receipt_ack`: `AcknowledgedInOrder` (intent, move,
completion in that order, on disk, and one completion for each request),
`RepeatableUnlessTorn` (a command that was cut short can be repeated, unless it fell
between or inside the two appends of an event), and `KeepsStore`: the composition is still
the store. Of `peer_admission`: `AdmittedOnce` (authorized once, and refused as a replay only if
authorized before). Of `parser_queue`: `QueueTellsOutcome` (no error receipt for a parse
that succeeded, and what timed out stays for the operator),
`NoWorkOverLeftovers`, `ImplementsParseJobs`, and the liveness properties `ParseEnds` and
`ClaimedIsRetired`. Of `bundle_import`: `ImplementsDelivery`, `AcceptReplacesRecorded` (of two conflicts over one
record only one can be accepted), `LostOnlyIfShared` (the race of section 4 is the only way
in which a committed file is lost). Of `transfer_exchange`: `OneBundlePerReview` (a retry
never makes a second bundle), `SentIsApproved`, `ReadyMeansWhole` (no build starts over half a
cache), `ReceiptsValidate` (both ends count alike) and `LoggedIsTrue`. Of `upload_lifecycle`: `ImplementsReview` (one parse at a
time, and nobody clears the mark of another), `EvidenceOnce`
(also when a file is sent again while its first upload outlives the deadline),
`RecordHasArtifact` and `MergedAsReviewed` (a merge takes the preview its reviewer saw, and
no later parse or merge changes it). Of `session_auth`: `FailuresBounded`, `UseIsEarned` (no
request is let in by a session that was logged out, is too old, was idle or was refused
before) and `StreamsEnd`. Of `backup_restore`: `PublishedIsWhole` (its events
are the database of one moment since the files were listed, everything committed at the
listing is there with its whole file, and nothing uncommitted) and `RestoredIsBackup`. The comment above each definition says which behaviour it is about.

Fairness is assumed in `ParserQueue` and `SessionAuth`. In `ParserQueue` the app and the service keep working while
they live (weak fairness of their steps; dying is an action without fairness). A
child ends, because its CPU time is limited and the service kills it at its own
deadline. The app tests its monotonic deadline once per poll, so a wait polled again
and again ends (strong fairness of `Deadline`). In `SessionAuth` a lookup that began on the
event loop ends (weak fairness of `Touch`), and a stream, which sleeps two seconds and then
asks again, gets its turn among other lookups (strong fairness of `StreamEnds`); nobody
has to log in, log out or let time pass. Nothing is assumed about users, restarts or
operators anywhere.

## 4. Disagreements between code and documentation

- `parser_queue_restart`: OPERATIONS.md says that an interrupted queue blocks mutations
  after a restart. When an upload is still marked as being parsed, `create_app` blocks
  the store first and then opens a transaction to mark that upload, and does not start.
- `bundle_import_race`: the cleanup of a failed call runs without the lock. A call that
  found the file before it is unlinked commits a record whose file is then gone. The
  comments of both cleanups promise that committed files are left alone.
- `upload_envelope_reuse`: an envelope that arrives with an observation already indexed is
  answered as a duplicate but not indexed itself, so its identifier is accepted again
  with other content; ARCHITECTURE.md and OPERATIONS.md say that this is rejected.

Two limits of retrying that the models show, without a run of their own. A crash between or
inside the two file appends of `event()` leaves a tail that recovery refuses, so an
acknowledgement cut short there cannot be repeated (`RepeatableUnlessTorn` has the exception).
Evidence and ciphertext are written under their final names, so a process that dies while it
writes leaves a part, which `RefuseExisting` of `BundleImport` takes for different
content.

## 5. Proofs

Proved for every value of the constants, from the assumptions named in the modules:

- `AuditStoreProofs`: `TypeCorrect`, `Durability`, `NoFork`, `Agreement`,
  `ForeignWriteIsFinal`, `Announcement`, `Refinement` (the store implements `AuditLedger`
  until something else writes its files) and `RefinementAlone` (with `OutsideWrites = FALSE`
  it does so for good). The inductive invariant relates the files to
  what the open transaction sees, step by step of `event()`: files equal to the
  transaction's events, or one line ahead while the event is written. It needs the
  relation between `stats` and the files (a writer that would pass the comparison
  last saw exactly its own lines) and, for foreign writes, that a torn line taints the
  files for good. `EveryRevisionAnnounced` needs an invariant of its own about
  `txRevs`, since the transaction counts before the commit does.
  About `ReceiptAck`: `CommandKeepsStore` (so that the theorems above hold of the store
  while the command uses it), `IntentBeforeEffect` and `RepetitionTakesOver`. The
  invariant says which event the open transaction holds at each step of the command; that
  the server's transactions hold none of the command's; that every completion in the
  transaction's trail follows a request of its receipt that no other completion has used;
  and that an interruption which tore nothing left the files in agreement with the database
  or ahead by one line, whose event the place of the receipt tells.
- `PeerAdmissionProofs`: `TypeCorrect` and `NoReplay`, from `Retention >= 2 * Window`.
  The invariant says that an admitted request is in the table for as long as its
  timestamp could still be accepted: its row was created at most `Window` before or
  after its timestamp.
- `BundleImportProofs`: `TypeCorrect`, `CreatorIsUnique`, `LossNeedsSharing`, `Refinement` (`BundleImport`
  implements `BundleDelivery`) and `ReplacementIsReviewed`, for any bundles over any records
  and any number of overlapping calls. The invariant says that a working import holds the
  lock and that its bundle has no receipt yet, so the check for a receipt still holds at
  the commit; that receipts and conflict records agree, and records under review differ
  from what the bundle carries, so that an acceptance replaces exactly these; and that
  evidence with a creator is on disk, so that `O_EXCL` gives it no second one. A ciphertext
  needs the lock for this, evidence does not. `LossNeedsSharing` follows a file that was never
  `shared`: whoever has it down as its own is the only call that uses it, so what a
  committed record names, and what a call is about to commit, is on disk and in no cleanup.
- `TransferExchangeProofs`: `TypeCorrect`, `OneBundle`, `Approved`, `Ready`,
  `ReceiptContract` and `LogTruthful`, for any finite set of records and any number of
  versions, bundles and requests. The invariant has two halves. The sender's says that a
  cache that is not whole is being written or has blocked the store, that a whole one is
  approved, was cut short or has its builder still at work, and that whatever was sent is what
  the cache holds for its review: since a whole cache is never written again, one review is
  one bundle. The receiver's says that a receipt agrees with what became of its bundle and
  that an answer on its way still will: an outcome only moves on. `ReceiptContract` rests on
  the cardinalities of the classes a bundle's records fall into.
- `UploadLifecycleProofs`: `TypeCorrect`, `OneOwner`, `StatusIsTrue`, `NoEvidenceTwice`,
  `ArtifactsKept`, `MergeIsSound` and `Refinement` (`UploadLifecycle` implements
  `EvidenceReview`), for any number of uploads, users and revisions. The
  invariant adds two things: an upload request that has not ended has no record (so no
  discarded file and no saved record is in the way of another, whether or not uploads overlap), and a request that read a
  record either holds an old revision of it or the record is neither marked nor merged,
  which is why reading it again under the lock is enough. For the refinement the mark has one
  owner, who finds his own revision when he ends, and a preview that waits was not quarantined.
- `SessionAuthProofs`: `TypeCorrect`, `DenialsBounded` and `SessionsEarned`, for any number of
  keys, tokens, threads and requests and any times that satisfy `AuthAssumption`. For the
  first the invariant says that a burst is never larger than the counter of its key, and
  that the counter holds for every login that may still be denied within the burst: its
  clock is at most `MaxWait` old, and the reset lies `Window` after a clock. For the second
  it says that a row never promises more than `life` remembers, and that a token that was
  refused is logged out, too old or idle, with no update of it under way: since lookups take turns, no
  touch can be late for a refusal.
- `BackupRestoreProofs`: `TypeCorrect`, `BackupConsistent` and `RestoreFaithful`, for any set of
  items. The invariant says what the writer keeps whatever it does (the logs lead, the database
  follows, a committed item has its whole file, the database file holds nothing
  uncommitted), and at each step of the backup what is already copied: everything listed is in
  the files when they are copied, and in the events because the logs only grow and the copy's
  events end where its logs end. The events copied are part of what was listed or were the
  database at a later moment, also when they come from an old database file; as the logs of
  the copy hold all that was listed, older events would lack something, and the
  verification refuses them. So a published backup has the events of one moment.

- `ParserQueueProofs`: `TypeCorrect`, `RunOnce`, `OutcomeTold`, `CleanStart` and `Refinement`
  (`ParserQueue` implements `ParseJobs`), for any number of jobs and any deaths of either side. The invariant says how far each job has come: nobody but
  the app has seen it before its request is published; a request is new, and a job that the
  service has claimed keeps its running file until it is retired, so it has no second request;
  a job that the app cleans up is one the service will not touch again; and a failed job that
  was published keeps its input. That the slot, the handlers and the marks of the uploads
  agree ties this to what the app recorded. For the refinement it adds
  that a job whose upload is answered or handed over stays closed, except that a bare failure
  can still be run, and that a response in the directory comes from a run.

Only model-checked: the liveness properties `ParseEnds`, `ClaimedIsRetired` and `StreamsEnd`,
which are out of the prover's reach.

## 6. Not modelled

Per component the reasons are in `PROJECT.json`. Within modelled components: the
permission checks of `_assert_write_ready` (they refuse a transaction before it starts,
as `blocked` does), the parts of `verify()` about conflict bundles and harness records,
the bubblewrap path of `run_parser` without a queue, the health check of the service,
and syntax checks of headers and file names. Of bundles: decryption, signatures and the
checks of a manifest (a bundle that does not open changes nothing), a bundle that carries
a known source revision with another body (`resolve_conflict` refuses it), the rules for which
records may be selected (a selection they refuse never gets a review), and builds without a
review hash, which no route makes. That every sent bundle has a committed
`transfer.approved` is not among the properties, since it does not hold (see
`TransferExchange`).
Of sessions: the scrypt computation, and the checks of origin and CSRF token after the
lookup, which keep no state. Of backups: the contents of keys and exports (files like the
others here), the check that the parser queue is empty, permissions and encrypted storage
(refusals before anything is copied), and a writer that is started from a restored copy.
Of uploads: the records a merge makes from the reviewed rows, edits of records, downloads.

## 7. Plan

1. Consequences of the abstract specifications (`ParseJobs`, `EvidenceReview`, `AuditLedger`,
   `BundleDelivery`), proved from them alone and carried over by the refinements.
2. The Merlin side of the server: notes, drafts and their revision reviews.
