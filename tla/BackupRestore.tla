--------------------------- MODULE BackupRestore ---------------------------
(***************************************************************************)
(* backup and restore of cli.py.  A backup copies a workspace piece by     *)
(* piece, while the process that writes it may be started, run and die:    *)
(* the store's lock does not reach over processes.  A restore copies a     *)
(* backup piece by piece, while the medium it lies on may go bad.          *)
(*                                                                         *)
(* The writer adds items: it writes a file, appends to the audit and the   *)
(* transcript and commits.  A commit is in the write-ahead log first; a    *)
(* checkpoint takes it to the database file page by page, and sidecar      *)
(* files are there until one is complete.  The store of a backup reads the *)
(* log if it saw sidecars when it was opened, and if not the database file *)
(* alone.  The bytes of a file are only told apart as a part or the whole. *)
(***************************************************************************)
EXTENDS Naturals

CONSTANTS Items,      \* uploads, and bundles kept for a conflict
          Conflicts,  \* the latter: verify() compares their files
          NoItem, NoBackup

Pieces == {"database", "audit", "transcript"} \cup Items

ASSUME BackupAssumption ==
    /\ Conflicts \subseteq Items
    /\ NoItem \notin Items

VARIABLES db,          \* committed items
          main,        \* pages of the database file
          sidecars,    \* a write-ahead log lies beside it
          audit,       \* lines of the audit, by their items
          transcript,  \* lines of the transcript
          file,        \* the artifacts and conflicts trees
          writer,      \* the process that writes
          backup,      \* the backup command
          staged,      \* its staging folder
          published,   \* the backup folder
          spoiled,     \* pieces of it that went bad
          restore,     \* the restore command and its staging folder
          restored     \* the restored workspace: pieces there, pieces bad

logs == <<audit, transcript>>
workspace == <<db, main, sidecars, logs, file, writer>>
saving == <<backup, staged>>
kept == <<published, spoiled>>
restoring == <<restore, restored>>
vars == <<workspace, saving, kept, restoring>>

States == {"none", "part", "whole"}
Down == [pc |-> "down", item |-> NoItem]
NoFiles == [i \in Items |-> "none"]
Nothing == [events |-> {}, records |-> {}, audit |-> {}, transcript |-> {},
            files |-> NoFiles]
NotSaving == [pc |-> "idle", wal |-> FALSE, still |-> FALSE, todo |-> {},
              listed |-> {}, moments |-> {}]
NotRestoring == [pc |-> "idle", checked |-> {}, copied |-> {}, bad |-> {}]

Init ==
    /\ db = {} /\ audit = {} /\ transcript = {}
    /\ main = [events |-> {}, records |-> {}]
    /\ sidecars = FALSE
    /\ file = NoFiles
    /\ writer = Down
    /\ backup = NotSaving
    /\ staged = Nothing
    /\ published = NoBackup
    /\ spoiled = {}
    /\ restore = NotRestoring
    /\ restored = NoBackup
-----------------------------------------------------------------------------
At(pc) == writer.pc = pc
Go(pc) == writer' = [writer EXCEPT !.pc = pc]
Written(new) == file' = [file EXCEPT ![writer.item] = new]

\* The store of a process that starts opens the database first.
Start ==
    /\ At("down")
    /\ Go("open")
    /\ sidecars' = TRUE
    /\ UNCHANGED <<db, main, logs, file, saving, kept, restoring>>

StartFile(i) ==
    /\ At("up")
    /\ i \notin audit
    /\ file[i] = "none"
    /\ writer' = [pc |-> "filing", item |-> i]
    /\ file' = [file EXCEPT ![i] = "part"]
    /\ UNCHANGED <<db, main, sidecars, logs, saving, kept, restoring>>

FinishFile ==
    /\ At("filing")
    /\ Go("filed")
    /\ Written("whole")
    /\ UNCHANGED <<db, main, sidecars, logs, saving, kept, restoring>>

\* What was sent is refused.
Discard ==
    /\ writer.pc \in {"filing", "filed"}
    /\ writer' = [pc |-> "up", item |-> NoItem]
    /\ Written("none")
    /\ UNCHANGED <<db, main, sidecars, logs, saving, kept, restoring>>

\* Mutant: the transaction does not wait for a file.
Begin_NoFile ==
    /\ At("up")
    /\ Go("begun")
    /\ sidecars' = TRUE
    /\ UNCHANGED <<db, main, logs, file, saving, kept, restoring>>

\* A transaction is begun only while the logs and the database agree.
Begin ==
    /\ At("filed")
    /\ audit = db /\ transcript = db
    /\ Go("begun")
    /\ sidecars' = TRUE
    /\ UNCHANGED <<db, main, logs, file, saving, kept, restoring>>

AppendAudit ==
    /\ At("begun")
    /\ audit' = audit \cup {writer.item}
    /\ Go("audited")
    /\ UNCHANGED <<db, main, sidecars, transcript, file, saving, kept, restoring>>

AppendTranscript ==
    /\ At("audited")
    /\ transcript' = transcript \cup {writer.item}
    /\ Go("logged")
    /\ UNCHANGED <<db, main, sidecars, audit, file, saving, kept, restoring>>

Commit ==
    /\ At("logged")
    /\ db' = db \cup {writer.item}
    /\ writer' = [pc |-> "open", item |-> NoItem]
    /\ backup' = IF backup.pc = "idle" THEN backup
                 ELSE [backup EXCEPT !.moments = @ \cup {db'}]
    /\ UNCHANGED <<main, sidecars, logs, file, staged, kept, restoring>>

\* The transaction is rolled back: its lines stay.  Its file is removed, but
\* not if only the commit failed.
Rollback ==
    /\ writer.pc \in {"begun", "audited", "logged"}
    /\ writer' = [pc |-> "open", item |-> NoItem]
    /\ \/ Written("none")
       \/ At("logged") /\ UNCHANGED file
    /\ UNCHANGED <<db, main, sidecars, logs, saving, kept, restoring>>

\* A checkpoint takes one more page from the log to the database file.
Checkpoint(page) ==
    /\ At("open")
    /\ main[page] # db
    /\ main' = [main EXCEPT ![page] = db]
    /\ backup' = [backup EXCEPT !.still = FALSE]
    /\ UNCHANGED <<db, sidecars, logs, file, writer, staged, kept, restoring>>

\* The last connection is closed; a complete checkpoint ends the log.
Close ==
    /\ At("open")
    /\ Go("up")
    /\ sidecars' \in {TRUE} \cup
           (IF main = [events |-> db, records |-> db] THEN {FALSE} ELSE {})
    /\ UNCHANGED <<db, main, logs, file, saving, kept, restoring>>

\* The process stops or dies, wherever it is.
Stop ==
    /\ ~At("down")
    /\ writer' = Down
    /\ UNCHANGED <<db, main, sidecars, logs, file, saving, kept, restoring>>
-----------------------------------------------------------------------------
\* Mutant: verify() does not look for lines after the last event.
Agrees_NoTail(w) ==
    /\ w.events \subseteq w.audit /\ w.events \subseteq w.transcript
    /\ \A i \in w.records \cap Conflicts : w.files[i] = "whole"

\* Store.verify: the logs end where the events end, and the bundles that
\* conflict records name are there.
Agrees(w) ==
    /\ w.events = w.audit /\ w.events = w.transcript
    /\ \A i \in w.records \cap Conflicts : w.files[i] = "whole"

\* The workspace as the backup's store sees it.
Seen ==
    [events  |-> IF backup.wal THEN db ELSE main.events,
     records |-> IF backup.wal THEN db ELSE main.records,
     audit |-> audit, transcript |-> transcript, files |-> file]

Reach(pc) == backup' = [backup EXCEPT !.pc = pc]

\* The command opens its store, for a destination that is new.
OpenSource ==
    /\ backup.pc = "idle"
    /\ published = NoBackup
    /\ backup' = [NotSaving EXCEPT !.pc = "opened", !.wal = sidecars,
                                   !.still = TRUE]
    /\ UNCHANGED <<workspace, staged, kept, restoring>>

\* Mutant: the artifacts tree is not listed.
ListFiles_NoArtifacts ==
    /\ backup.pc = "opened"
    /\ LET found == {i \in Conflicts : file[i] # "none"}
       IN  backup' = [backup EXCEPT !.pc = "listed", !.todo = found,
                                    !.listed = db, !.moments = {db}]
    /\ UNCHANGED <<workspace, staged, kept, restoring>>

ListFiles ==
    /\ backup.pc = "opened"
    /\ LET found == {i \in Items : file[i] # "none"}
       IN  backup' = [backup EXCEPT !.pc = "listed", !.todo = found,
                                    !.listed = db, !.moments = {db}]
    /\ UNCHANGED <<workspace, staged, kept, restoring>>

\* It verifies the workspace and makes its staging folder.
VerifySource ==
    /\ backup.pc = "listed"
    /\ Agrees(Seen)
    /\ Reach("verified")
    /\ UNCHANGED <<workspace, staged, kept, restoring>>

\* A copy that reads the log is one snapshot.
CopySnapshot ==
    /\ backup.pc = "verified"
    /\ backup.wal
    /\ staged' = [staged EXCEPT !.events = db, !.records = db]
    /\ Reach("copied")
    /\ UNCHANGED <<workspace, kept, restoring>>

\* A copy of the database file alone takes no lock: page by page.
CopyFirstPage(page) ==
    /\ backup.pc = "verified"
    /\ ~backup.wal
    /\ page \in {"events", "records"}
    /\ staged' = [staged EXCEPT ![page] = main[page]]
    /\ Reach(page)
    /\ UNCHANGED <<workspace, kept, restoring>>

CopySecondPage(page) ==
    /\ backup.pc \in {"events", "records"}
    /\ page \in {"events", "records"} \ {backup.pc}
    /\ staged' = [staged EXCEPT ![page] = main[page]]
    /\ Reach("copied")
    /\ UNCHANGED <<workspace, kept, restoring>>

\* A file that was listed and is gone ends the backup.
CopyFile(i) ==
    /\ backup.pc = "copied"
    /\ i \in backup.todo
    /\ file[i] # "none"
    /\ staged' = [staged EXCEPT !.files[i] = file[i]]
    /\ backup' = [backup EXCEPT !.todo = @ \ {i}]
    /\ UNCHANGED <<workspace, kept, restoring>>

CopyAudit ==
    /\ backup.pc = "copied"
    /\ backup.todo = {}
    /\ staged' = [staged EXCEPT !.audit = audit]
    /\ Reach("audit")
    /\ UNCHANGED <<workspace, kept, restoring>>

CopyTranscript ==
    /\ backup.pc = "audit"
    /\ staged' = [staged EXCEPT !.transcript = transcript]
    /\ Reach("transcript")
    /\ UNCHANGED <<workspace, kept, restoring>>

\* The copy is verified, hashed into the manifest and renamed.
Publish ==
    /\ backup.pc = "transcript"
    /\ Agrees(staged)
    /\ published' = [tree |-> staged, listed |-> backup.listed,
                     moments |-> backup.moments,
                     steady |-> backup.wal \/ backup.still]
    /\ backup' = NotSaving
    /\ staged' = Nothing
    /\ UNCHANGED <<workspace, spoiled, restoring>>

\* A step fails and the staging folder is removed, or the command dies and
\* leaves it under a hidden name.
BackupEnds ==
    /\ backup.pc # "idle"
    /\ backup' = NotSaving
    /\ staged' = Nothing
    /\ UNCHANGED <<workspace, kept, restoring>>
-----------------------------------------------------------------------------
\* What the manifest lists.
Listed(b) ==
    {"database", "audit", "transcript"}
        \cup {i \in Items : b.tree.files[i] # "none"}

\* The medium of the backup goes bad, or somebody changes a piece of it.
Spoil(p) ==
    /\ published # NoBackup
    /\ p \in Listed(published) \ spoiled
    /\ spoiled' = spoiled \cup {p}
    /\ UNCHANGED <<workspace, saving, published, restoring>>

\* It is mended from another copy.
Mend(p) ==
    /\ p \in spoiled
    /\ spoiled' = spoiled \ {p}
    /\ UNCHANGED <<workspace, saving, published, restoring>>

\* The files of the backup are those of its manifest.
StartRestore ==
    /\ published # NoBackup
    /\ restored = NoBackup
    /\ restore.pc = "idle"
    /\ restore' = [NotRestoring EXCEPT !.pc = "checking"]
    /\ UNCHANGED <<workspace, saving, kept, restored>>

CheckPiece(p) ==
    /\ restore.pc = "checking"
    /\ p \in Listed(published) \ restore.checked
    /\ p \notin spoiled
    /\ restore' = [restore EXCEPT !.checked = @ \cup {p}]
    /\ UNCHANGED <<workspace, saving, kept, restored>>

StageRestore ==
    /\ restore.pc = "checking"
    /\ restore.checked = Listed(published)
    /\ restore' = [restore EXCEPT !.pc = "copying"]
    /\ UNCHANGED <<workspace, saving, kept, restored>>

\* Bytes are copied as they are at this time ...
CopyPiece(p) ==
    /\ restore.pc = "copying"
    /\ p \in Listed(published) \ restore.copied
    /\ restore' = [pc |-> "rechecking", checked |-> restore.checked,
                   copied |-> restore.copied \cup {p},
                   bad |-> IF p \in spoiled THEN restore.bad \cup {p}
                                            ELSE restore.bad]
    /\ UNCHANGED <<workspace, saving, kept, restored>>

\* Mutant: what was checked once is not checked again.
Recheck_Trusts ==
    /\ restore.pc = "rechecking"
    /\ restore' = [restore EXCEPT !.pc = "copying"]
    /\ UNCHANGED <<workspace, saving, kept, restored>>

\* ... and the copy is compared with the manifest again.
Recheck ==
    /\ restore.pc = "rechecking"
    /\ restore.bad = {}
    /\ restore' = [restore EXCEPT !.pc = "copying"]
    /\ UNCHANGED <<workspace, saving, kept, restored>>

\* The new workspace is verified and renamed.
PublishRestore ==
    /\ restore.pc = "copying"
    /\ restore.copied = Listed(published)
    /\ Agrees(published.tree)
    /\ restored' = [pieces |-> restore.copied, bad |-> restore.bad]
    /\ restore' = NotRestoring
    /\ UNCHANGED <<workspace, saving, kept>>

RestoreEnds ==
    /\ restore.pc # "idle"
    /\ restore' = NotRestoring
    /\ UNCHANGED <<workspace, saving, kept, restored>>

Write ==
    \/ Start
    \/ \E i \in Items : StartFile(i)
    \/ FinishFile
    \/ Discard
    \/ Begin
    \/ AppendAudit
    \/ AppendTranscript
    \/ Commit
    \/ Rollback
    \/ \E page \in {"events", "records"} : Checkpoint(page)
    \/ Close
    \/ Stop

Save ==
    \/ OpenSource
    \/ ListFiles
    \/ VerifySource
    \/ CopySnapshot
    \/ \E page \in {"events", "records"} : CopyFirstPage(page)
    \/ \E page \in {"events", "records"} : CopySecondPage(page)
    \/ \E i \in Items : CopyFile(i)
    \/ CopyAudit
    \/ CopyTranscript
    \/ Publish
    \/ BackupEnds

Return ==
    \/ \E p \in Pieces : Spoil(p)
    \/ \E p \in Pieces : Mend(p)
    \/ StartRestore
    \/ \E p \in Pieces : CheckPiece(p)
    \/ StageRestore
    \/ \E p \in Pieces : CopyPiece(p)
    \/ Recheck
    \/ PublishRestore
    \/ RestoreEnds

Next == Write \/ Save \/ Return

Spec == Init /\ [][Next]_vars
-----------------------------------------------------------------------------
Trees ==
    [events : SUBSET Items, records : SUBSET Items, audit : SUBSET Items,
     transcript : SUBSET Items, files : [Items -> States]]

\* Every variable keeps its shape.
TypeOK ==
    /\ {db, audit, transcript} \subseteq SUBSET Items
    /\ main \in [events : SUBSET Items, records : SUBSET Items]
    /\ sidecars \in BOOLEAN
    /\ file \in [Items -> States]
    /\ writer \in [pc : {"down", "up", "filing", "filed", "begun", "audited",
                         "logged", "open"},
                   item : Items \cup {NoItem}]
    /\ writer.item = NoItem <=> writer.pc \in {"down", "up", "open"}
    /\ backup \in [pc : {"idle", "opened", "listed", "verified", "events",
                         "records", "copied", "audit", "transcript"},
                   wal : BOOLEAN, still : BOOLEAN, todo : SUBSET Items,
                   listed : SUBSET Items, moments : SUBSET SUBSET Items]
    /\ staged \in Trees
    /\ published # NoBackup =>
           published \in [tree : Trees, listed : SUBSET Items,
                          moments : SUBSET SUBSET Items, steady : BOOLEAN]
    /\ spoiled \subseteq Pieces
    /\ restore \in [pc : {"idle", "checking", "copying", "rechecking"},
                    checked : SUBSET Pieces, copied : SUBSET Pieces,
                    bad : SUBSET Pieces]
    /\ restored # NoBackup =>
           restored \in [pieces : SUBSET Pieces, bad : SUBSET Pieces]

\* Whatever the writer does meanwhile, a backup has the events of everything
\* that was committed when its files were listed, and each file whole; it
\* has the records too, those that only the write-ahead log had included,
\* unless it read the database file alone and a checkpoint ran meanwhile.
NothingLost ==
    published # NoBackup =>
        \A i \in published.listed :
            /\ i \in published.tree.events
            /\ published.tree.files[i] = "whole"
            /\ published.steady => i \in published.tree.records

\* Its events are those of one moment, after its files were listed and before
\* it was published; its logs end with them, and its records, all of them
\* committed, are theirs, but for such a checkpoint.
PublishedIsCut ==
    published # NoBackup =>
        LET t == published.tree
        IN  /\ t.events = t.audit /\ t.events = t.transcript
            /\ t.events \in published.moments
            /\ t.records \subseteq db
            /\ published.steady => t.events = t.records

\* What is published is a whole copy of the workspace as it was committed at
\* one time, or, where a checkpoint ran meanwhile, of its events and files.
PublishedIsWhole == NothingLost /\ PublishedIsCut

\* A restored workspace is the backup as it was published, whatever happens
\* to the medium between and during the checks.
RestoredIsBackup ==
    restored # NoBackup =>
        /\ restored.pieces = Listed(published)
        /\ restored.bad = {}
=============================================================================
