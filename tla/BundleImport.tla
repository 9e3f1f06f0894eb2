---------------------------- MODULE BundleImport ----------------------------
(***************************************************************************)
(* transfer.py open_bundle and resolve_conflict on the receiving host.     *)
(* A call writes evidence files (artifacts) or the ciphertext of a         *)
(* conflict, and commits records and a receipt in one transaction; when    *)
(* the transaction fails it cleans up what it wrote, after the store's     *)
(* lock is free again.  Calls run in threads: an import holds the lock     *)
(* while it writes its files, the resolution of a conflict does not.  The  *)
(* timeout of an upload answers the sender while the thread goes on, so    *)
(* two imports may run at once, too.                                       *)
(*                                                                         *)
(* The bundles come from one paired host that owns every record in them;   *)
(* imported replicas are read-only here (server.py edit_allowed).  A       *)
(* bundle that does not open changes nothing and is left out.              *)
(***************************************************************************)
EXTENDS Naturals

CONSTANTS Records,   \* record identifiers
          Uploads,   \* the records with an evidence file of the same name
          Bundles,   \* bundle identifiers
          Carries,   \* the source revision of each record a bundle carries, or 0
          Calls,     \* threads in open_bundle or resolve_conflict
          NoBundle,  \* an idle thread's bundle
          NoFile     \* a thread that writes no file

ASSUME ImportAssumption ==
    /\ Uploads \subseteq Records
    /\ Bundles \cap Records = {}
    /\ Carries \in [Bundles -> [Records -> Nat]]
    /\ NoBundle \notin Bundles
    /\ NoFile \notin Uploads \cup Bundles

VARIABLES local,     \* per record its source revision and its local revision
          receipt,   \* the status in the transfers table
          conflict,  \* the transfer_conflict record of each bundle
          disk,      \* artifacts, by upload, and conflict ciphertexts, by bundle
          holder,    \* the import that holds the store's lock, if any
          call,      \* what each thread is doing
          blocked,   \* Store.blocked
          shared     \* files a call found in place while another call had
                     \* them down as its own (only for the properties)

database == <<local, receipt, conflict>>
vars == <<local, receipt, conflict, disk, holder, call, blocked, shared>>

Files == Uploads \cup Bundles
Absent == [source |-> 0, revision |-> 0]

\* Revisions of some records, as a conflict or a reviewer holds them: Absent
\* for the others.
NoVersions == [r \in Records |-> Absent]
Current(S) == [r \in Records |-> IF r \in S THEN local[r] ELSE Absent]

NoConflict == [state |-> "none", snapshot |-> NoVersions, deferred |-> {},
               binding |-> NoVersions]
Idle == [pc |-> "idle", op |-> "none", bundle |-> NoBundle, todo |-> {},
         file |-> NoFile, created |-> {}, referenced |-> {}, named |-> NoVersions]

Carried(b) == {r \in Records : Carries[b][r] > 0}
Evidence(b) == Carried(b) \cap Uploads

Duplicates(b) == {r \in Carried(b) : local[r].source = Carries[b][r]}
Deferred(b) == {r \in Carried(b) : local[r] = Absent}
Conflicts(b) == Carried(b) \ (Duplicates(b) \cup Deferred(b))

\* The records a recorded conflict is about.
InConflict(b) == {r \in Records : conflict[b].snapshot[r] # Absent}

\* store.put of what the bundle carries for the records of S.
Put(b, S) ==
    [r \in Records |->
        IF r \in S
        THEN [source |-> Carries[b][r], revision |-> local[r].revision + 1]
        ELSE local[r]]

\* Files a committed record names; cleanup must leave them alone.
Referenced ==
    {u \in Uploads : local[u] # Absent}
        \cup {b \in Bundles : conflict[b] # NoConflict}

\* The part of Store.verify about conflicts: each has its ciphertext.
Verifies == \A b \in Bundles : conflict[b] # NoConflict => disk[b] = "full"

Init ==
    /\ local = [r \in Records |-> Absent]
    /\ receipt = [b \in Bundles |-> "none"]
    /\ conflict = [b \in Bundles |-> NoConflict]
    /\ disk = [f \in Files |-> "absent"]
    /\ holder = {}
    /\ call = [c \in Calls |-> Idle]
    /\ blocked = FALSE
    /\ shared = {}
-----------------------------------------------------------------------------
\* A call leaves its transaction or its file work and goes on elsewhere.
Goes(c, state) ==
    /\ call' = [call EXCEPT ![c] = state]
    /\ holder' = holder \ {c}

\* What follows an exception inside the try block of a call.
AfterFailure(c) ==
    IF call[c].created = {} THEN Idle
    ELSE [Idle EXCEPT !.pc = "cleanup", !.created = call[c].created]

\* An exception: an import rolls back and cleans up; a resolution that is
\* still writing files has not entered its try block.
Raise(c) ==
    IF call[c].op = "import"
    THEN /\ Goes(c, AfterFailure(c))
         /\ blocked' = (blocked \/ ~Verifies)
    ELSE /\ Goes(c, Idle)
         /\ UNCHANGED blocked
-----------------------------------------------------------------------------
\* Mutant: the import does not wait for the transaction of another thread.
BeginImport_Unlocked(c, b) ==
    /\ call[c] = Idle
    /\ ~blocked
    /\ receipt[b] = "none"
    /\ holder' = holder \cup {c}
    /\ call' = [call EXCEPT ![c] =
            [Idle EXCEPT !.pc = "files", !.op = "import", !.bundle = b,
                         !.todo = IF Conflicts(b) = {} THEN Evidence(b)
                                                       ELSE {b}]]
    /\ UNCHANGED <<database, disk, blocked, shared>>

\* The transaction of open_bundle begins.  A bundle that has a receipt gets
\* it again and nothing changes.
BeginImport(c, b) ==
    /\ call[c] = Idle
    /\ holder = {}
    /\ ~blocked
    /\ receipt[b] = "none"
    /\ holder' = {c}
    /\ call' = [call EXCEPT ![c] =
            [Idle EXCEPT !.pc = "files", !.op = "import", !.bundle = b,
                         !.todo = IF Conflicts(b) = {} THEN Evidence(b)
                                                       ELSE {b}]]
    /\ UNCHANGED <<database, disk, blocked, shared>>

\* resolve_conflict before its transaction: the revisions the reviewer named
\* are current, and what is accepted can replace what is recorded.
Acceptable(b) ==
    /\ Current(InConflict(b)) = conflict[b].snapshot
    /\ InConflict(b) \cap Uploads = {}

BeginResolve(c, b, decision) ==
    /\ call[c] = Idle
    /\ conflict[b].state = "needs_review"
    /\ decision = "accept_incoming" => Acceptable(b) /\ disk[b] = "full"
    /\ call' = [call EXCEPT ![c] =
            [Idle EXCEPT !.pc = "files", !.op = decision, !.bundle = b,
                         !.named = Current(InConflict(b)),
                         !.todo = IF decision = "accept_incoming"
                                  THEN Evidence(b) ELSE {}]]
    /\ UNCHANGED <<database, disk, holder, blocked, shared>>
-----------------------------------------------------------------------------
\* Mutant: a file that is there is used, whatever it holds.
UseExisting_AnyContent(c, f) ==
    /\ call[c].pc = "files"
    /\ f \in call[c].todo
    /\ disk[f] # "absent"
    /\ call' = [call EXCEPT ![c].todo = @ \ {f},
                            ![c].created = @ \cup ({f} \cap Bundles)]
    /\ shared' = IF \E d \in Calls \ {c} : f \in call[d].created
                 THEN shared \cup {f} ELSE shared
    /\ UNCHANGED <<database, disk, holder, blocked>>

\* _persist_artifact and preserve_conflict_bundle look for the file.  A copy
\* that is there is used; a ciphertext is cleaned up later whoever wrote it.
UseExisting(c, f) ==
    /\ call[c].pc = "files"
    /\ f \in call[c].todo
    /\ disk[f] = "full"
    /\ call' = [call EXCEPT ![c].todo = @ \ {f},
                            ![c].created = @ \cup ({f} \cap Bundles)]
    /\ shared' = IF \E d \in Calls \ {c} : f \in call[d].created
                 THEN shared \cup {f} ELSE shared
    /\ UNCHANGED <<database, disk, holder, blocked>>

\* A copy with other content is refused.
RefuseExisting(c, f) ==
    /\ call[c].pc = "files"
    /\ f \in call[c].todo
    /\ disk[f] = "partial"
    /\ Raise(c)
    /\ UNCHANGED <<database, disk, shared>>

MissFile(c, f) ==
    /\ call[c].pc = "files"
    /\ f \in call[c].todo
    /\ disk[f] = "absent"
    /\ call' = [call EXCEPT ![c].pc = "opening", ![c].file = f]
    /\ UNCHANGED <<database, disk, holder, blocked, shared>>

\* O_EXCL: only one of two threads that missed the file opens it.
OpenFile(c) ==
    /\ call[c].pc = "opening"
    /\ disk[call[c].file] = "absent"
    /\ disk' = [disk EXCEPT ![call[c].file] = "partial"]
    /\ call' = [call EXCEPT ![c].pc = "writing"]
    /\ UNCHANGED <<database, holder, blocked, shared>>

OpenCollides(c) ==
    /\ call[c].pc = "opening"
    /\ disk[call[c].file] # "absent"
    /\ Raise(c)
    /\ UNCHANGED <<database, disk, shared>>

\* The file is complete, and still there.
WriteFile(c) ==
    /\ call[c].pc = "writing"
    /\ disk[call[c].file] = "partial"
    /\ disk' = [disk EXCEPT ![call[c].file] = "full"]
    /\ call' = [call EXCEPT ![c].pc = "files", ![c].file = NoFile,
                            ![c].todo = @ \ {call[c].file},
                            ![c].created = @ \cup {call[c].file}]
    /\ UNCHANGED <<database, holder, blocked, shared>>

\* A failed write takes its own file back; a failed fsync of the directory
\* after it leaves a file the caller never hears of.  A ciphertext may have
\* been unlinked meanwhile by the cleanup of an earlier import.
WriteFails(c) ==
    /\ call[c].pc = "writing"
    /\ \E left \in {"absent", "full"} :
            /\ disk[call[c].file] = "absent" => left = "absent"
            /\ disk' = [disk EXCEPT ![call[c].file] = left]
    /\ Raise(c)
    /\ UNCHANGED <<database, shared>>
-----------------------------------------------------------------------------
\* The work before a commit is done.
Ready(c) == call[c].pc = "files" /\ call[c].todo = {}

\* Mutant: the evidence of a conflict is imported without review.
CommitImport_TakesDeferred(c) ==
    LET b == call[c].bundle IN
    /\ Ready(c)
    /\ call[c].op = "import"
    /\ local' = Put(b, Deferred(b))
    /\ IF Conflicts(b) = {}
       THEN /\ receipt' = [receipt EXCEPT ![b] = "imported"]
            /\ UNCHANGED conflict
       ELSE /\ conflict' = [conflict EXCEPT ![b] =
                    [state |-> "needs_review",
                     snapshot |-> Current(Conflicts(b)),
                     deferred |-> Deferred(b),
                     binding |-> NoVersions]]
            /\ receipt' = [receipt EXCEPT ![b] = "conflict"]
    /\ Goes(c, Idle)
    /\ UNCHANGED <<disk, blocked, shared>>

\* open_bundle commits: the missing records, or the conflict.
CommitImport(c) ==
    LET b == call[c].bundle IN
    /\ Ready(c)
    /\ call[c].op = "import"
    /\ IF Conflicts(b) = {}
       THEN /\ local' = Put(b, Deferred(b))
            /\ receipt' = [receipt EXCEPT ![b] = "imported"]
            /\ UNCHANGED conflict
       ELSE /\ conflict' = [conflict EXCEPT ![b] =
                    [state |-> "needs_review",
                     snapshot |-> Current(Conflicts(b)),
                     deferred |-> Deferred(b),
                     binding |-> NoVersions]]
            /\ receipt' = [receipt EXCEPT ![b] = "conflict"]
            /\ UNCHANGED local
    /\ Goes(c, Idle)
    /\ UNCHANGED <<disk, blocked, shared>>

\* Any exception of the import's transaction.  The event may be durable
\* already, and then the rollback blocks the store.
ImportFails(c) ==
    /\ Ready(c)
    /\ call[c].op = "import"
    /\ Goes(c, AfterFailure(c))
    /\ blocked' \in {blocked \/ ~Verifies, TRUE}
    /\ UNCHANGED <<database, disk, shared>>
-----------------------------------------------------------------------------
\* What resolve_conflict checks again under the lock.
StillReviewed(c) ==
    LET b == call[c].bundle IN
    /\ conflict[b].state = "needs_review"
    /\ Current(InConflict(b)) = call[c].named

StillAcceptable(b) ==
    /\ Current(InConflict(b)) = conflict[b].snapshot
    /\ conflict[b].deferred \subseteq Deferred(b)
    /\ \A r \in Carried(b) \ (InConflict(b)
                                \cup conflict[b].deferred) :
            local[r].source = Carries[b][r]

Resolved(c, state) ==
    LET b == call[c].bundle IN
    conflict' = [conflict EXCEPT ![b].state = state, ![b].binding = call[c].named]

InDecision(c) ==
    /\ Ready(c)
    /\ call[c].op # "import"
    /\ holder = {}

\* Mutant: the revisions compared before the lock are not compared under it.
Accept_AnyRevision(c) ==
    LET b == call[c].bundle IN
    /\ InDecision(c)
    /\ ~blocked
    /\ call[c].op = "accept_incoming"
    /\ conflict[b].state = "needs_review"
    /\ conflict[b].deferred \subseteq Deferred(b)
    /\ local' = Put(b, InConflict(b) \cup conflict[b].deferred)
    /\ receipt' = [receipt EXCEPT ![b] = "imported"]
    /\ Resolved(c, "accept_incoming")
    /\ Goes(c, Idle)
    /\ UNCHANGED <<disk, blocked, shared>>

Accept(c) ==
    LET b == call[c].bundle IN
    /\ InDecision(c)
    /\ ~blocked
    /\ call[c].op = "accept_incoming"
    /\ StillReviewed(c)
    /\ StillAcceptable(b)
    /\ local' = Put(b, InConflict(b) \cup conflict[b].deferred)
    /\ receipt' = [receipt EXCEPT ![b] = "imported"]
    /\ Resolved(c, "accept_incoming")
    /\ Goes(c, Idle)
    /\ UNCHANGED <<disk, blocked, shared>>

KeepLocal(c) ==
    /\ InDecision(c)
    /\ ~blocked
    /\ call[c].op = "keep_local"
    /\ StillReviewed(c)
    /\ Resolved(c, "keep_local")
    /\ Goes(c, Idle)
    /\ UNCHANGED <<local, receipt, disk, blocked, shared>>

\* Another call has taken the same decision over the same revisions.
AlreadyResolved(c) ==
    LET b == call[c].bundle IN
    /\ InDecision(c)
    /\ ~blocked
    /\ conflict[b].state = call[c].op
    /\ conflict[b].binding = call[c].named
    /\ Goes(c, Idle)
    /\ UNCHANGED <<database, disk, blocked, shared>>

\* The store refuses, something changed since the review, or an exception.
ResolveFails(c) ==
    /\ InDecision(c)
    /\ Goes(c, AfterFailure(c))
    /\ blocked' \in {blocked \/ ~Verifies, TRUE}
    /\ UNCHANGED <<database, disk, shared>>
-----------------------------------------------------------------------------
\* _cleanup_unindexed_artifacts and _cleanup_unindexed_conflict_bundle run
\* without the lock: first they read which of their files records name, ...
ReadReferenced(c) ==
    /\ call[c].pc = "cleanup"
    /\ call' = [call EXCEPT ![c].pc = "unlinking",
                            ![c].referenced = Referenced \cap call[c].created]
    /\ UNCHANGED <<database, disk, holder, blocked, shared>>

\* ... then they unlink the rest.
UnlinkCreated(c, f) ==
    /\ call[c].pc = "unlinking"
    /\ f \in call[c].created \ call[c].referenced
    /\ disk' = [disk EXCEPT ![f] = "absent"]
    /\ call' = [call EXCEPT ![c].created = @ \ {f}]
    /\ UNCHANGED <<database, holder, blocked, shared>>

CleanedUp(c) ==
    /\ call[c].pc = "unlinking"
    /\ call[c].created \subseteq call[c].referenced
    /\ call' = [call EXCEPT ![c] = Idle]
    /\ UNCHANGED <<database, disk, holder, blocked, shared>>

\* An exception of the cleanup blocks the store and is swallowed.
CleanupFails(c) ==
    /\ call[c].pc \in {"cleanup", "unlinking"}
    /\ call' = [call EXCEPT ![c] = Idle]
    /\ blocked' = TRUE
    /\ UNCHANGED <<database, disk, holder, shared>>

\* The process dies and starts again; the store opens only if it verifies,
\* which an event that was written without its commit also prevents.
Restart ==
    /\ call' = [c \in Calls |-> Idle]
    /\ holder' = {}
    /\ blocked' \in {~Verifies, TRUE}
    /\ shared' = shared \cap Referenced
    /\ UNCHANGED <<database, disk>>

Next ==
    \/ \E c \in Calls, b \in Bundles :
        \/ BeginImport(c, b)
        \/ \E decision \in {"accept_incoming", "keep_local"} :
                BeginResolve(c, b, decision)
    \/ \E c \in Calls, f \in Files :
        UseExisting(c, f) \/ RefuseExisting(c, f) \/ MissFile(c, f)
            \/ UnlinkCreated(c, f)
    \/ \E c \in Calls :
        \/ OpenFile(c) \/ OpenCollides(c) \/ WriteFile(c) \/ WriteFails(c)
        \/ CommitImport(c) \/ ImportFails(c)
        \/ Accept(c) \/ KeepLocal(c) \/ AlreadyResolved(c) \/ ResolveFails(c)
        \/ ReadReferenced(c) \/ CleanedUp(c) \/ CleanupFails(c)
    \/ Restart

Spec == Init /\ [][Next]_vars
-----------------------------------------------------------------------------
Version == [source : Nat, revision : Nat]
Versions == [Records -> Version]

ConflictRecord ==
    [state : {"none", "needs_review", "keep_local", "accept_incoming"},
     snapshot : Versions, deferred : SUBSET Records, binding : Versions]

CallRecord ==
    [pc : {"idle", "files", "opening", "writing", "cleanup", "unlinking"},
     op : {"none", "import", "accept_incoming", "keep_local"},
     bundle : Bundles \cup {NoBundle}, todo : SUBSET Files,
     file : Files \cup {NoFile}, created : SUBSET Files,
     referenced : SUBSET Files, named : Versions]

\* Every variable keeps its shape, and the lock is held by an import that
\* works on its files, and only by such a one.
TypeOK ==
    /\ local \in Versions
    /\ receipt \in [Bundles -> {"none", "imported", "conflict"}]
    /\ conflict \in [Bundles -> ConflictRecord]
    /\ disk \in [Files -> {"absent", "partial", "full"}]
    /\ holder = {c \in Calls : /\ call[c].op = "import"
                               /\ call[c].pc \in {"files", "opening", "writing"}}
    /\ \A c, d \in holder : c = d
    /\ call \in [Calls -> CallRecord]
    /\ blocked \in BOOLEAN
    /\ shared \subseteq Files

\* What a bundle has come to, for whoever reads receipts and conflicts.
Outcome(b) ==
    IF receipt[b] # "conflict" THEN receipt[b]
    ELSE IF conflict[b].state = "keep_local" THEN "kept" ELSE "review"

Delivery == INSTANCE BundleDelivery
    WITH outcome <- [b \in Bundles |-> Outcome(b)]

\* However calls interleave, fail and are repeated, each bundle takes effect
\* at most once and as a whole, and one in conflict changes nothing before a
\* reviewer decides (open_bundle, resolve_conflict).
ImplementsDelivery == Delivery!Spec

\* A replica is replaced only by a decision over exactly the revision that
\* was here when the conflict was recorded: of two conflicts over a record,
\* reviewed at the same time, only one can be accepted (resolve_conflict
\* compares again under the lock).
AcceptReplacesRecorded ==
    [][\A r \in Records : local[r] # Absent /\ local'[r] # local[r] =>
            \E b \in Bundles :
                /\ conflict[b].state = "needs_review"
                /\ conflict'[b].state = "accept_incoming"
                /\ conflict[b].snapshot[r] = local[r]]_vars

\* The evidence files a call would remove if it failed.
Owned(c) ==
    (call[c].created \cap Uploads)
        \cup (IF call[c].pc = "writing" THEN {call[c].file} ELSE {})

\* No two calls take themselves for the creator of one file: a failed call
\* never cleans up what another one wrote (_persist_artifact).
OneCreator ==
    \A c, d \in Calls : c # d => Owned(c) \cap Owned(d) = {}

\* Whatever a committed record names is on disk, complete: the evidence of an
\* upload and the ciphertext of a conflict (_persist_artifact,
\* preserve_conflict_bundle and their cleanup).
CommittedHasFile == \A f \in Referenced : disk[f] = "full"

\* Through failures, restarts and overlapping calls a committed file is lost
\* in one way only: a call found it in place while the call that wrote it
\* had not committed, and could still fail and clean it up.
LostOnlyIfShared == \A f \in Referenced : disk[f] = "full" \/ f \in shared
=============================================================================
