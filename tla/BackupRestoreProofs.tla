------------------------ MODULE BackupRestoreProofs ------------------------
(***************************************************************************)
(* Proofs about BackupRestore.  What a published backup holds follows from *)
(* three invariants: what the writer keeps true of the workspace at every  *)
(* step, what is true of the staging folder at each step of a backup, and  *)
(* what a restore knows of the pieces that it has copied.                  *)
(***************************************************************************)
EXTENDS BackupRestore, TLAPS

-----------------------------------------------------------------------------
(* Type correctness.                                                       *)

LEMMA InitType == Init => TypeOK
  <1> SUFFICES ASSUME Init PROVE TypeOK
    OBVIOUS
  <1>1. NoFiles \in [Items -> States]
    BY DEF NoFiles, States
  <1>2. Nothing \in Trees
    BY <1>1 DEF Nothing, Trees
  <1>3. file \in [Items -> States] /\ staged \in Trees
    BY <1>1, <1>2 DEF Init
  <1>4. /\ writer = [pc |-> "down", item |-> NoItem]
        /\ published = NoBackup /\ restored = NoBackup /\ spoiled = {}
    BY DEF Init, Down
  <1>5. backup \in [pc : {"idle", "opened", "listed", "verified", "events",
                         "records", "copied", "audit", "transcript"},
                   wal : BOOLEAN, still : BOOLEAN, todo : SUBSET Items,
                   listed : SUBSET Items, moments : SUBSET SUBSET Items]
    BY DEF Init, NotSaving
  <1>6. restore \in [pc : {"idle", "checking", "copying", "rechecking"},
                    checked : SUBSET Pieces, copied : SUBSET Pieces,
                    bad : SUBSET Pieces]
    BY DEF Init, NotRestoring
  <1>7. /\ {db, audit, transcript} \subseteq SUBSET Items
        /\ main \in [events : SUBSET Items, records : SUBSET Items]
        /\ sidecars \in BOOLEAN
    BY DEF Init
  <1> QED BY <1>3, <1>4, <1>5, <1>6, <1>7, BackupAssumption DEF TypeOK

LEMMA WriteType == TypeOK /\ Write => TypeOK'
  <1> SUFFICES ASSUME TypeOK, Write PROVE TypeOK'
    OBVIOUS
  <1> USE BackupAssumption DEF workspace, saving, kept, restoring, logs, At, Go,
                               Written, States
  <1>1. CASE Start
    BY <1>1 DEF Start, TypeOK
  <1>2. ASSUME NEW i \in Items, StartFile(i) PROVE TypeOK'
    BY <1>2 DEF StartFile, TypeOK
  <1>3. CASE FinishFile
    BY <1>3 DEF FinishFile, TypeOK
  <1>4. CASE Discard
    BY <1>4 DEF Discard, TypeOK
  <1>5. CASE Begin
    BY <1>5 DEF Begin, TypeOK
  <1>6. CASE AppendAudit
    BY <1>6 DEF AppendAudit, TypeOK
  <1>7. CASE AppendTranscript
    BY <1>7 DEF AppendTranscript, TypeOK
  <1>8. CASE Commit
    BY <1>8 DEF Commit, TypeOK
  <1>9. CASE Rollback
    BY <1>9 DEF Rollback, TypeOK
  <1>10. ASSUME NEW page \in {"events", "records"}, Checkpoint(page)
         PROVE  TypeOK'
    BY <1>10 DEF Checkpoint, TypeOK
  <1>11. CASE Close
    <2>1. sidecars' \in BOOLEAN
      BY <1>11 DEF Close
    <2> QED BY <1>11, <2>1 DEF Close, TypeOK
  <1>12. CASE Stop
    BY <1>12 DEF Stop, TypeOK, Down
  <1> QED BY <1>1, <1>2, <1>3, <1>4, <1>5, <1>6, <1>7, <1>8, <1>9, <1>10,
             <1>11, <1>12 DEF Write

LEMMA SaveType == TypeOK /\ Save => TypeOK'
  <1> SUFFICES ASSUME TypeOK, Save PROVE TypeOK'
    OBVIOUS
  <1> USE DEF workspace, kept, restoring, logs, Reach
  <1>1. CASE OpenSource
    BY <1>1 DEF OpenSource, TypeOK, NotSaving
  <1>2. CASE ListFiles
    <2>1. db \in SUBSET Items /\ {db} \in SUBSET SUBSET Items
      BY DEF TypeOK
    <2> QED BY <1>2, <2>1 DEF ListFiles, TypeOK
  <1>3. CASE VerifySource
    BY <1>3 DEF VerifySource, TypeOK
  <1>4. CASE CopySnapshot
    BY <1>4 DEF CopySnapshot, TypeOK, Trees
  <1>5. ASSUME NEW page \in {"events", "records"}, CopyFirstPage(page)
        PROVE  TypeOK'
    BY <1>5 DEF CopyFirstPage, TypeOK, Trees
  <1>6. ASSUME NEW page \in {"events", "records"}, CopySecondPage(page)
        PROVE  TypeOK'
    BY <1>6 DEF CopySecondPage, TypeOK, Trees
  <1>7. ASSUME NEW i \in Items, CopyFile(i) PROVE TypeOK'
    BY <1>7 DEF CopyFile, TypeOK, Trees
  <1>8. CASE CopyAudit
    BY <1>8 DEF CopyAudit, TypeOK, Trees
  <1>9. CASE CopyTranscript
    BY <1>9 DEF CopyTranscript, TypeOK, Trees
  <1>10. CASE Publish
    BY <1>10 DEF Publish, TypeOK, Trees, NotSaving, Nothing, NoFiles, States
  <1>11. CASE BackupEnds
    BY <1>11 DEF BackupEnds, TypeOK, Trees, NotSaving, Nothing, NoFiles, States
  <1> QED BY <1>1, <1>2, <1>3, <1>4, <1>5, <1>6, <1>7, <1>8, <1>9, <1>10,
             <1>11 DEF Save

LEMMA ReturnType == TypeOK /\ Return => TypeOK'
  <1> SUFFICES ASSUME TypeOK, Return PROVE TypeOK'
    OBVIOUS
  <1> USE DEF workspace, saving, logs
  <1>1. ASSUME NEW p \in Pieces, Spoil(p) \/ Mend(p) PROVE TypeOK'
    BY <1>1 DEF Spoil, Mend, TypeOK, restoring
  <1>2. CASE StartRestore
    BY <1>2 DEF StartRestore, TypeOK, kept, NotRestoring
  <1>3. ASSUME NEW p \in Pieces, CheckPiece(p) PROVE TypeOK'
    BY <1>3 DEF CheckPiece, TypeOK, kept
  <1>4. CASE StageRestore
    BY <1>4 DEF StageRestore, TypeOK, kept
  <1>5. ASSUME NEW p \in Pieces, CopyPiece(p) PROVE TypeOK'
    BY <1>5 DEF CopyPiece, TypeOK, kept
  <1>6. CASE Recheck
    BY <1>6 DEF Recheck, TypeOK, kept
  <1>7. CASE PublishRestore
    BY <1>7 DEF PublishRestore, TypeOK, kept, NotRestoring
  <1>8. CASE RestoreEnds
    BY <1>8 DEF RestoreEnds, TypeOK, kept, NotRestoring
  <1> QED BY <1>1, <1>2, <1>3, <1>4, <1>5, <1>6, <1>7, <1>8 DEF Return

LEMMA NextType == TypeOK /\ [Next]_vars => TypeOK'
  <1>1. TypeOK /\ UNCHANGED vars => TypeOK'
    BY DEF TypeOK, vars, workspace, saving, kept, restoring, logs
  <1> QED BY <1>1, WriteType, SaveType, ReturnType DEF Next

\* Every variable keeps its shape, for any set of items.
THEOREM TypeCorrect == Spec => []TypeOK
  BY InitType, NextType, PTL DEF Spec
-----------------------------------------------------------------------------
(* The inductive invariant, one part per actor.                            *)

\* The logs are ahead of the database and the database ahead of its file;
\* what is committed has its file, and so has what is about to be.
WorkspaceInv ==
    /\ db \subseteq audit /\ db \subseteq transcript
    /\ \A i \in db : file[i] = "whole"
    /\ main.events \subseteq db /\ main.records \subseteq db
    /\ ~sidecars => main.events = db /\ main.records = db
    /\ writer.pc \in {"begun", "audited", "logged", "open"} => sidecars
    /\ writer.item \notin db
    /\ writer.pc \in {"filed", "begun", "audited", "logged"} =>
           file[writer.item] = "whole"
    /\ writer.pc \in {"audited", "logged"} => writer.item \in audit
    /\ writer.pc = "logged" => writer.item \in transcript

\* How the two copied pages belong together.
PagesAgree ==
    /\ backup.pc \in {"events", "records"} => ~backup.wal
    /\ backup.still /\ ~backup.wal =>
           /\ main.events = main.records
           /\ backup.pc = "events" => staged.events = main.events
           /\ backup.pc = "records" => staged.records = main.records
    /\ backup.pc \in {"copied", "audit", "transcript"}
          /\ (backup.wal \/ backup.still) => staged.events = staged.records

\* What is listed is committed, and is copied or still to be copied.
SavingInv ==
    /\ staged.events \subseteq db /\ staged.records \subseteq db
    /\ backup.pc # "idle" =>
        /\ published = NoBackup
        /\ backup.listed \subseteq db
        /\ \A i \in backup.listed \ backup.todo : staged.files[i] = "whole"
        /\ backup.pc \in {"audit", "transcript"} =>
               backup.todo = {} /\ backup.listed \subseteq staged.audit
        /\ PagesAgree

\* A set that the database was equal to since the files were listed, or part of
\* what was listed.
FromMoment(s) == s \in backup.moments \/ s \subseteq backup.listed

\* The database file, and what was copied of it, are as old as the listing or
\* were the database at a later moment.
MomentInv ==
    backup.pc \notin {"idle", "opened"} =>
        /\ db \in backup.moments /\ backup.listed \in backup.moments
        /\ FromMoment(main.events) /\ FromMoment(staged.events)

KeptInv == NothingLost /\ PublishedIsCut

LEMMA InitInv == Init => WorkspaceInv /\ SavingInv /\ MomentInv /\ KeptInv
  <1> SUFFICES ASSUME Init PROVE WorkspaceInv /\ SavingInv /\ MomentInv /\ KeptInv
    OBVIOUS
  <1>1. WorkspaceInv
    BY DEF Init, WorkspaceInv, Down
  <1>2. SavingInv /\ MomentInv /\ KeptInv
    BY DEF Init, SavingInv, MomentInv, KeptInv, NothingLost, PublishedIsCut,
           NotSaving, Nothing
  <1> QED BY <1>1, <1>2

\* A step that leaves the database and its file alone is no business of the
\* backup.
LEMMA SavingFrame ==
    ASSUME SavingInv, MomentInv, KeptInv, UNCHANGED <<saving, published, db, main>>
    PROVE  SavingInv' /\ MomentInv' /\ KeptInv'
  <1>1. PagesAgree => PagesAgree'
    BY DEF PagesAgree, saving
  <1> QED BY <1>1 DEF SavingInv, MomentInv, FromMoment, KeptInv, NothingLost,
                      PublishedIsCut, saving

\* A commit adds a moment.
LEMMA CommitSaving ==
    ASSUME TypeOK, SavingInv, MomentInv, KeptInv, Commit
    PROVE  SavingInv' /\ MomentInv' /\ KeptInv'
  <1>1. /\ backup' = IF backup.pc = "idle" THEN backup
                    ELSE [backup EXCEPT !.moments = @ \cup {db'}]
        /\ UNCHANGED <<main, staged, published>> /\ db \subseteq db'
    BY DEF Commit, kept
  <1>2. /\ backup'.pc = backup.pc /\ backup'.wal = backup.wal
        /\ backup'.still = backup.still
        /\ backup'.todo = backup.todo /\ backup'.listed = backup.listed
        /\ backup.pc # "idle" => backup'.moments = backup.moments \cup {db'}
    BY <1>1 DEF TypeOK
  <1>3. PagesAgree => PagesAgree'
    BY <1>1, <1>2 DEF PagesAgree
  <1>4. MomentInv'
    BY <1>1, <1>2 DEF MomentInv, FromMoment
  <1> QED BY <1>1, <1>2, <1>3, <1>4
          DEF SavingInv, KeptInv, NothingLost, PublishedIsCut

\* A checkpoint ends the stillness that the pages depend on.
LEMMA CheckpointSaving ==
    ASSUME TypeOK, SavingInv, MomentInv, KeptInv,
           NEW page \in {"events", "records"}, Checkpoint(page)
    PROVE  SavingInv' /\ MomentInv' /\ KeptInv'
  <1>1. /\ backup' = [backup EXCEPT !.still = FALSE]
        /\ UNCHANGED <<db, staged, published>>
    BY DEF Checkpoint, kept
  <1>2. /\ backup'.pc = backup.pc /\ backup'.wal = backup.wal
        /\ backup'.todo = backup.todo /\ backup'.listed = backup.listed
        /\ ~backup'.still /\ backup'.moments = backup.moments
    BY <1>1 DEF TypeOK
  <1>3. PagesAgree => PagesAgree'
    BY <1>1, <1>2 DEF PagesAgree
  <1>4. main'.events \in {main.events, db}
    BY DEF Checkpoint, TypeOK
  <1>5. MomentInv'
    BY <1>1, <1>2, <1>4 DEF MomentInv, FromMoment
  <1> QED BY <1>1, <1>2, <1>3, <1>5
          DEF SavingInv, KeptInv, NothingLost, PublishedIsCut
-----------------------------------------------------------------------------
LEMMA WriteWorkspace ==
    ASSUME TypeOK, WorkspaceInv, Write
    PROVE  WorkspaceInv' /\ db \subseteq db'
  <1> USE BackupAssumption DEF logs, At, Go, Written
  <1>1. CASE Start
    BY <1>1 DEF Start, WorkspaceInv, TypeOK
  <1>2. ASSUME NEW i \in Items, StartFile(i)
        PROVE  WorkspaceInv' /\ db \subseteq db'
    <2>1. i \notin db
      BY <1>2 DEF StartFile, WorkspaceInv
    <2> QED BY <1>2, <2>1 DEF StartFile, WorkspaceInv, TypeOK
  <1>3. CASE FinishFile
    BY <1>3 DEF FinishFile, WorkspaceInv, TypeOK
  <1>4. CASE Discard
    BY <1>4 DEF Discard, WorkspaceInv, TypeOK
  <1>5. CASE Begin
    BY <1>5 DEF Begin, WorkspaceInv, TypeOK
  <1>6. CASE AppendAudit
    BY <1>6 DEF AppendAudit, WorkspaceInv, TypeOK
  <1>7. CASE AppendTranscript
    BY <1>7 DEF AppendTranscript, WorkspaceInv, TypeOK
  <1>8. CASE Commit
    BY <1>8 DEF Commit, WorkspaceInv, TypeOK
  <1>9. CASE Rollback
    BY <1>9 DEF Rollback, WorkspaceInv, TypeOK
  <1>10. ASSUME NEW page \in {"events", "records"}, Checkpoint(page)
         PROVE  WorkspaceInv' /\ db \subseteq db'
    BY <1>10 DEF Checkpoint, WorkspaceInv, TypeOK
  <1>11. CASE Close
    <2>1. \/ sidecars'
          \/ main.events = db /\ main.records = db
      <3>1. CASE main = [events |-> db, records |-> db]
        BY <3>1
      <3>2. CASE main # [events |-> db, records |-> db]
        <4>1. sidecars' = TRUE
          BY <1>11, <3>2 DEF Close
        <4> QED BY <4>1
      <3> QED BY <3>1, <3>2
    <2>2. /\ writer'.pc = "up" /\ writer'.item = writer.item
          /\ UNCHANGED <<db, main, audit, transcript, file>>
      BY <1>11 DEF Close, TypeOK
    <2> QED BY <2>1, <2>2 DEF WorkspaceInv
  <1>12. CASE Stop
    BY <1>12 DEF Stop, WorkspaceInv, TypeOK, Down
  <1> QED BY <1>1, <1>2, <1>3, <1>4, <1>5, <1>6, <1>7, <1>8, <1>9, <1>10,
             <1>11, <1>12 DEF Write

LEMMA WriteSaving ==
    ASSUME TypeOK, WorkspaceInv, SavingInv, MomentInv, KeptInv, Write
    PROVE  SavingInv' /\ MomentInv' /\ KeptInv'
  <1>1. CASE \E page \in {"events", "records"} : Checkpoint(page)
    BY <1>1, CheckpointSaving
  <1>2. CASE Commit
    BY <1>2, CommitSaving
  <1>3. CASE ~Commit /\ ~\E page \in {"events", "records"} : Checkpoint(page)
    <2>1. UNCHANGED <<saving, published, db, main>>
      BY <1>3 DEF Write, Start, StartFile, FinishFile, Discard, Begin,
                  AppendAudit, AppendTranscript, Rollback, Close, Stop, kept
    <2> QED BY <2>1, SavingFrame
  <1> QED BY <1>1, <1>2, <1>3
-----------------------------------------------------------------------------
\* The fields that a step of the backup leaves as they are.
LEMMA ReachFields ==
    ASSUME TypeOK, NEW pc, Reach(pc)
    PROVE  /\ backup'.pc = pc /\ backup'.wal = backup.wal
           /\ backup'.still = backup.still /\ backup'.todo = backup.todo
           /\ backup'.listed = backup.listed
           /\ backup'.moments = backup.moments
  BY DEF Reach, TypeOK

\* A page is copied as it is, and only then.
LEMMA CopyPage ==
    ASSUME TypeOK, NEW page \in {"events", "records"},
           staged' = [staged EXCEPT ![page] = main[page]]
    PROVE  /\ page = "events" => staged'.events = main.events
                                 /\ staged'.records = staged.records
           /\ page = "records" => staged'.records = main.records
                                  /\ staged'.events = staged.events
           /\ staged'.audit = staged.audit /\ staged'.files = staged.files
  BY DEF TypeOK, Trees

\* The events are taken from the database or from its file.
LEMMA SaveMoments ==
    ASSUME TypeOK, WorkspaceInv, SavingInv, MomentInv, Save
    PROVE  MomentInv'
  <1>1. UNCHANGED <<db, main>>
    BY DEF Save, OpenSource, ListFiles, VerifySource, CopySnapshot,
           CopyFirstPage, CopySecondPage, CopyFile, CopyAudit, CopyTranscript,
           Publish, BackupEnds, workspace
  <1>2. CASE OpenSource \/ Publish \/ BackupEnds
    <2>1. CASE OpenSource
      BY <2>1 DEF OpenSource, NotSaving, MomentInv
    <2>2. CASE Publish \/ BackupEnds
      BY <2>2 DEF Publish, BackupEnds, NotSaving, MomentInv
    <2> QED BY <1>2, <2>1, <2>2
  <1>3. CASE ListFiles
    <2>1. /\ backup'.listed = db /\ backup'.moments = {db}
          /\ staged' = staged
      BY <1>3 DEF ListFiles, TypeOK
    <2>2. staged.events \subseteq db /\ main.events \subseteq db
      BY DEF SavingInv, WorkspaceInv
    <2> QED BY <1>1, <2>1, <2>2 DEF MomentInv, FromMoment
  <1>4. ASSUME backup.pc \notin {"idle", "opened"},
               backup'.listed = backup.listed, backup'.moments = backup.moments,
               staged'.events \in {staged.events, main.events, db}
        PROVE  MomentInv'
    BY <1>1, <1>4 DEF MomentInv, FromMoment
  <1>5. CASE VerifySource
    BY <1>4, <1>5, ReachFields DEF VerifySource
  <1>6. CASE CopySnapshot
    <2>1. staged'.events = db
      BY <1>6 DEF CopySnapshot, TypeOK, Trees
    <2> QED BY <1>4, <1>6, <2>1, ReachFields DEF CopySnapshot
  <1>7. ASSUME NEW page \in {"events", "records"},
               CopyFirstPage(page) \/ CopySecondPage(page)
        PROVE  MomentInv'
    <2>1. staged'.events \in {staged.events, main.events}
      BY <1>7, CopyPage DEF CopyFirstPage, CopySecondPage
    <2>2. /\ backup.pc \notin {"idle", "opened"}
          /\ backup'.listed = backup.listed /\ backup'.moments = backup.moments
      BY <1>7, ReachFields DEF CopyFirstPage, CopySecondPage
    <2> QED BY <1>4, <2>1, <2>2
  <1>8. ASSUME NEW i \in Items, CopyFile(i) PROVE MomentInv'
    <2>1. /\ backup'.listed = backup.listed /\ backup'.moments = backup.moments
          /\ staged'.events = staged.events
      BY <1>8 DEF CopyFile, TypeOK, Trees
    <2> QED BY <1>4, <1>8, <2>1 DEF CopyFile
  <1>9. CASE CopyAudit \/ CopyTranscript
    <2>1. staged'.events = staged.events
      BY <1>9 DEF CopyAudit, CopyTranscript, TypeOK, Trees
    <2>2. /\ backup.pc \notin {"idle", "opened"}
          /\ backup'.listed = backup.listed /\ backup'.moments = backup.moments
      BY <1>9, ReachFields DEF CopyAudit, CopyTranscript
    <2> QED BY <1>4, <2>1, <2>2
  <1> QED BY <1>2, <1>3, <1>5, <1>6, <1>7, <1>8, <1>9 DEF Save

LEMMA SaveSaving ==
    ASSUME TypeOK, WorkspaceInv, SavingInv, MomentInv, KeptInv, Save
    PROVE  SavingInv' /\ KeptInv'
  <1>1. UNCHANGED <<db, main, audit, file>>
    BY DEF Save, OpenSource, ListFiles, VerifySource, CopySnapshot,
           CopyFirstPage, CopySecondPage, CopyFile, CopyAudit, CopyTranscript,
           Publish, BackupEnds, workspace, logs
  <1>2. published' = published => KeptInv'
    BY <1>1 DEF KeptInv, NothingLost, PublishedIsCut
  <1>3. CASE OpenSource
    <2>1. /\ backup' = [NotSaving EXCEPT !.pc = "opened", !.wal = sidecars,
                                         !.still = TRUE]
          /\ published' = published /\ published = NoBackup
      BY <1>3 DEF OpenSource, kept
    <2>2. /\ backup'.pc = "opened" /\ backup'.wal = sidecars
          /\ backup'.listed = {}
      BY <2>1 DEF NotSaving
    <2>3. ~sidecars => main.events = main.records
      BY DEF WorkspaceInv
    <2>4. PagesAgree'
      BY <1>1, <2>2, <2>3 DEF PagesAgree
    <2>5. staged' = staged
      BY <1>3 DEF OpenSource
    <2>6. SavingInv'
      BY <1>1, <2>1, <2>2, <2>4, <2>5 DEF SavingInv
    <2> QED BY <1>2, <2>1, <2>6
  <1>4. CASE ListFiles
    <2> DEFINE found == {i \in Items : file[i] # "none"}
    <2>1. /\ backup' = [backup EXCEPT !.pc = "listed", !.todo = found,
                                      !.listed = db, !.moments = {db}]
          /\ UNCHANGED <<staged, published>> /\ backup.pc = "opened"
      BY <1>4 DEF ListFiles, kept
    <2>2. /\ backup'.pc = "listed" /\ backup'.wal = backup.wal
          /\ backup'.still = backup.still
          /\ backup'.todo = found /\ backup'.listed = db
      BY <2>1 DEF TypeOK
    <2>3. db \subseteq found
      BY DEF WorkspaceInv, TypeOK
    <2>4. PagesAgree'
      BY <1>1, <2>1, <2>2 DEF SavingInv, PagesAgree
    <2>5. SavingInv'
      BY <1>1, <2>1, <2>2, <2>3, <2>4 DEF SavingInv
    <2> QED BY <1>2, <2>1, <2>5
  <1>5. CASE VerifySource
    <2>1. /\ Reach("verified") /\ backup.pc = "listed"
          /\ UNCHANGED <<staged, published>>
      BY <1>5 DEF VerifySource, kept
    <2>2. SavingInv'
      BY <1>1, <2>1, ReachFields DEF SavingInv, PagesAgree
    <2> QED BY <1>2, <2>1, <2>2
  <1>6. CASE CopySnapshot
    <2>1. /\ Reach("copied") /\ backup.pc = "verified" /\ backup.wal
          /\ staged' = [staged EXCEPT !.events = db, !.records = db]
          /\ published' = published
      BY <1>6 DEF CopySnapshot, kept
    <2>2. /\ staged'.events = db /\ staged'.records = db
          /\ staged'.files = staged.files
      BY <2>1 DEF TypeOK, Trees
    <2>3. PagesAgree'
      <3>1. backup'.pc = "copied" /\ backup'.wal = backup.wal
        BY <2>1, ReachFields
      <3>2. backup'.wal /\ staged'.events = staged'.records
        BY <2>1, <2>2, <3>1
      <3> QED BY <3>1, <3>2 DEF PagesAgree
    <2>4. /\ backup'.pc = "copied" /\ backup'.todo = backup.todo
          /\ backup'.listed = backup.listed
      BY <2>1, ReachFields
    <2>5. published = NoBackup /\ backup.listed \subseteq db
          /\ \A i \in backup.listed \ backup.todo : staged.files[i] = "whole"
      BY <2>1 DEF SavingInv
    <2>6. SavingInv'
      BY <1>1, <2>1, <2>2, <2>3, <2>4, <2>5 DEF SavingInv
    <2> QED BY <1>2, <2>1, <2>6
  <1>7. ASSUME NEW page \in {"events", "records"}, CopyFirstPage(page)
        PROVE  SavingInv' /\ KeptInv'
    <2>1. /\ Reach(page) /\ backup.pc = "verified" /\ ~backup.wal
          /\ staged' = [staged EXCEPT ![page] = main[page]]
          /\ published' = published
      BY <1>7 DEF CopyFirstPage, kept
    <2>2. PagesAgree'
      BY <1>1, <2>1, CopyPage, ReachFields DEF SavingInv, PagesAgree
    <2>3. SavingInv'
      BY <1>1, <2>1, <2>2, CopyPage, ReachFields DEF SavingInv, WorkspaceInv
    <2> QED BY <1>2, <2>1, <2>3
  <1>8. ASSUME NEW page \in {"events", "records"}, CopySecondPage(page)
        PROVE  SavingInv' /\ KeptInv'
    <2>1. /\ Reach("copied") /\ backup.pc \in {"events", "records"}
          /\ page # backup.pc
          /\ staged' = [staged EXCEPT ![page] = main[page]]
          /\ published' = published
      BY <1>8 DEF CopySecondPage, kept
    <2>2. ~backup.wal
      BY <2>1 DEF SavingInv, PagesAgree
    <2>3. backup.still => staged'.events = staged'.records
      <3>1. CASE page = "events"
        BY <2>1, <2>2, <3>1, CopyPage DEF SavingInv, PagesAgree
      <3>2. CASE page = "records"
        BY <2>1, <2>2, <3>2, CopyPage DEF SavingInv, PagesAgree
      <3> QED BY <3>1, <3>2
    <2>4. PagesAgree'
      BY <1>1, <2>1, <2>2, <2>3, ReachFields DEF SavingInv, PagesAgree
    <2>5. SavingInv'
      BY <1>1, <2>1, <2>4, CopyPage, ReachFields DEF SavingInv, WorkspaceInv
    <2> QED BY <1>2, <2>1, <2>5
  <1>9. ASSUME NEW i \in Items, CopyFile(i)
        PROVE  SavingInv' /\ KeptInv'
    <2>1. /\ backup' = [backup EXCEPT !.todo = @ \ {i}]
          /\ staged' = [staged EXCEPT !.files[i] = file[i]]
          /\ backup.pc = "copied" /\ published' = published
      BY <1>9 DEF CopyFile, kept
    <2>2. /\ backup'.pc = backup.pc /\ backup'.wal = backup.wal
          /\ backup'.still = backup.still /\ backup'.listed = backup.listed
          /\ backup'.todo = backup.todo \ {i}
      BY <2>1 DEF TypeOK
    <2>3. /\ staged'.events = staged.events
          /\ staged'.records = staged.records
          /\ staged'.files = [staged.files EXCEPT ![i] = file[i]]
      BY <2>1 DEF TypeOK, Trees
    <2>4. PagesAgree'
      BY <1>1, <2>1, <2>2, <2>3 DEF SavingInv, PagesAgree
    <2>5. \A j \in backup'.listed \ backup'.todo : staged'.files[j] = "whole"
      <3> SUFFICES ASSUME NEW j \in backup.listed, j \notin backup.todo \/ j = i
                   PROVE  staged'.files[j] = "whole"
        BY <2>2
      <3>1. j \in Items /\ staged.files \in [Items -> States]
        BY DEF TypeOK, Trees
      <3>2. CASE j = i
        BY <2>1, <2>3, <3>1, <3>2 DEF SavingInv, WorkspaceInv
      <3>3. CASE j # i
        BY <2>1, <2>3, <3>1, <3>3 DEF SavingInv
      <3> QED BY <3>2, <3>3
    <2>6. SavingInv'
      BY <1>1, <2>1, <2>2, <2>3, <2>4, <2>5 DEF SavingInv
    <2> QED BY <1>2, <2>1, <2>6
  <1>10. CASE CopyAudit
    <2>1. /\ Reach("audit") /\ backup.pc = "copied" /\ backup.todo = {}
          /\ staged' = [staged EXCEPT !.audit = audit]
          /\ published' = published
      BY <1>10 DEF CopyAudit, kept
    <2>2. /\ staged'.events = staged.events
          /\ staged'.records = staged.records
          /\ staged'.files = staged.files /\ staged'.audit = audit
      BY <2>1 DEF TypeOK, Trees
    <2>3. PagesAgree'
      BY <1>1, <2>1, <2>2, ReachFields DEF SavingInv, PagesAgree
    <2>4. SavingInv'
      BY <1>1, <2>1, <2>2, <2>3, ReachFields DEF SavingInv, WorkspaceInv
    <2> QED BY <1>2, <2>1, <2>4
  <1>11. CASE CopyTranscript
    <2>1. /\ Reach("transcript") /\ backup.pc = "audit"
          /\ staged' = [staged EXCEPT !.transcript = transcript]
          /\ published' = published
      BY <1>11 DEF CopyTranscript, kept
    <2>2. /\ staged'.events = staged.events
          /\ staged'.records = staged.records
          /\ staged'.files = staged.files /\ staged'.audit = staged.audit
      BY <2>1 DEF TypeOK, Trees
    <2>3. PagesAgree'
      BY <1>1, <2>1, <2>2, ReachFields DEF SavingInv, PagesAgree
    <2>4. SavingInv'
      BY <1>1, <2>1, <2>2, <2>3, ReachFields DEF SavingInv
    <2> QED BY <1>2, <2>1, <2>4
  <1>12. CASE Publish
    <2>1. /\ backup.pc = "transcript" /\ Agrees(staged)
          /\ published' = [tree |-> staged, listed |-> backup.listed,
                           moments |-> backup.moments,
                           steady |-> backup.wal \/ backup.still]
          /\ backup' = NotSaving
      BY <1>12 DEF Publish
    <2>2. /\ published'.tree = staged /\ published'.listed = backup.listed
          /\ published'.moments = backup.moments
          /\ published'.steady = (backup.wal \/ backup.still)
      BY <2>1
    <2>3. /\ staged.events = staged.audit /\ staged.events = staged.transcript
          /\ staged.events \subseteq db /\ staged.records \subseteq db
          /\ backup.listed \subseteq staged.events
          /\ \A i \in backup.listed : staged.files[i] = "whole"
          /\ (backup.wal \/ backup.still) => staged.events = staged.records
      BY <2>1 DEF SavingInv, PagesAgree, Agrees
    \* Older events would lack something that was listed.
    <2>4. staged.events \in backup.moments
      <3>1. /\ FromMoment(staged.events)
            /\ backup.listed \in backup.moments
        BY <2>1 DEF MomentInv
      <3>2. staged.events \subseteq backup.listed => staged.events = backup.listed
        BY <2>3
      <3> QED BY <3>1, <3>2 DEF FromMoment
    <2>5. KeptInv'
      BY <1>1, <2>2, <2>3, <2>4 DEF KeptInv, NothingLost, PublishedIsCut
    <2>6. SavingInv'
      BY <1>12, <2>1 DEF Publish, SavingInv, NotSaving, Nothing
    <2> QED BY <2>5, <2>6
  <1>13. CASE BackupEnds
    <2>1. backup'.pc = "idle" /\ published' = published
      BY <1>13 DEF BackupEnds, NotSaving, kept
    <2>2. SavingInv'
      BY <1>13, <2>1 DEF BackupEnds, SavingInv, Nothing
    <2> QED BY <1>2, <2>1, <2>2
  <1> QED BY <1>3, <1>4, <1>5, <1>6, <1>7, <1>8, <1>9, <1>10, <1>11, <1>12,
             <1>13 DEF Save
-----------------------------------------------------------------------------
\* Restoring changes neither the workspace nor the backup.
LEMMA ReturnFrame ==
    ASSUME Return PROVE UNCHANGED <<workspace, saving, published>>
  BY DEF Return, Spoil, Mend, StartRestore, CheckPiece, StageRestore,
         CopyPiece, Recheck, PublishRestore, RestoreEnds, kept

Inv == TypeOK /\ WorkspaceInv /\ SavingInv /\ MomentInv /\ KeptInv

LEMMA NextInv == Inv /\ [Next]_vars => Inv'
  <1> SUFFICES ASSUME Inv, [Next]_vars PROVE Inv'
    OBVIOUS
  <1> USE DEF Inv
  <1>1. TypeOK'
    BY NextType
  <1>2. CASE Write
    BY <1>1, <1>2, WriteWorkspace, WriteSaving
  <1>3. CASE Save
    <2>1. workspace' = workspace
      BY <1>3 DEF Save, OpenSource, ListFiles, VerifySource, CopySnapshot,
             CopyFirstPage, CopySecondPage, CopyFile, CopyAudit, CopyTranscript,
             Publish, BackupEnds
    <2>2. WorkspaceInv'
      BY <2>1 DEF WorkspaceInv, workspace, logs
    <2> QED BY <1>1, <1>3, <2>2, SaveSaving, SaveMoments
  <1>4. CASE Return \/ UNCHANGED vars
    <2>1. UNCHANGED <<workspace, saving, published>>
      BY <1>4, ReturnFrame DEF vars, kept
    <2>2. WorkspaceInv'
      BY <2>1 DEF WorkspaceInv, workspace, logs
    <2>3. SavingInv' /\ MomentInv' /\ KeptInv'
      BY <2>1, SavingFrame DEF workspace
    <2> QED BY <1>1, <2>2, <2>3
  <1> QED BY <1>2, <1>3, <1>4 DEF Next

LEMMA Safe == Spec => []Inv
  BY InitType, InitInv, NextInv, PTL DEF Spec, Inv

\* For any set of items, and wherever the writer is started, killed or
\* checkpoints: a backup has the events of one moment, nothing of what was
\* committed when its files were listed is missing, and nothing is there that
\* was not committed (backup).
THEOREM BackupConsistent == Spec => []PublishedIsWhole
  <1>1. Inv => PublishedIsWhole
    BY DEF Inv, KeptInv, PublishedIsWhole
  <1> QED BY <1>1, Safe, PTL
-----------------------------------------------------------------------------
(* The restored workspace.                                                 *)

\* A backup is not replaced while it is restored, and what is copied and
\* compared is good.
RestoringInv ==
    /\ restore.pc # "idle" => published # NoBackup
    /\ restore.pc \in {"checking", "copying"} => restore.bad = {}
    /\ restored # NoBackup => published # NoBackup
    /\ RestoredIsBackup

LEMMA InitRestoring == Init => RestoringInv
  BY DEF Init, RestoringInv, RestoredIsBackup, NotRestoring

LEMMA NextRestoring ==
    Inv /\ RestoringInv /\ [Next]_vars => RestoringInv'
  <1> SUFFICES ASSUME TypeOK, SavingInv, RestoringInv, [Next]_vars
               PROVE  RestoringInv'
    BY DEF Inv
  <1>1. CASE UNCHANGED <<published, restoring>>
    BY <1>1 DEF RestoringInv, RestoredIsBackup, Listed, restoring
  <1>2. CASE Publish
    <2>1. published = NoBackup /\ UNCHANGED restoring
      BY <1>2 DEF Publish, SavingInv
    <2> QED BY <2>1 DEF RestoringInv, RestoredIsBackup, restoring
  <1>3. CASE StartRestore
    BY <1>3 DEF StartRestore, RestoringInv, RestoredIsBackup, NotRestoring, kept
  <1>4. ASSUME NEW p \in Pieces, CheckPiece(p) PROVE RestoringInv'
    BY <1>4 DEF CheckPiece, RestoringInv, RestoredIsBackup, Listed, TypeOK, kept
  <1>5. CASE StageRestore
    BY <1>5 DEF StageRestore, RestoringInv, RestoredIsBackup, Listed, TypeOK, kept
  <1>6. ASSUME NEW p \in Pieces, CopyPiece(p) PROVE RestoringInv'
    BY <1>6 DEF CopyPiece, RestoringInv, RestoredIsBackup, Listed, kept
  <1>7. CASE Recheck
    BY <1>7 DEF Recheck, RestoringInv, RestoredIsBackup, Listed, TypeOK, kept
  <1>8. CASE PublishRestore
    BY <1>8 DEF PublishRestore, RestoringInv, RestoredIsBackup, Listed,
                NotRestoring, kept
  <1>9. CASE RestoreEnds
    BY <1>9 DEF RestoreEnds, RestoringInv, RestoredIsBackup, Listed,
                NotRestoring, kept
  <1>10. CASE Write
    BY <1>1, <1>10 DEF Write, Start, StartFile, FinishFile, Discard, Begin,
           AppendAudit, AppendTranscript, Commit, Rollback, Checkpoint, Close,
           Stop, kept
  <1>11. CASE Save
    BY <1>1, <1>2, <1>11 DEF Save, OpenSource, ListFiles, VerifySource,
           CopySnapshot, CopyFirstPage, CopySecondPage, CopyFile, CopyAudit,
           CopyTranscript, BackupEnds, kept
  <1>12. ASSUME NEW p \in Pieces, Spoil(p) \/ Mend(p) PROVE RestoringInv'
    BY <1>1, <1>12 DEF Spoil, Mend
  <1>13. CASE UNCHANGED vars
    BY <1>1, <1>13 DEF vars, kept
  <1> QED BY <1>3, <1>4, <1>5, <1>6, <1>7, <1>8, <1>9, <1>10, <1>11, <1>12,
             <1>13 DEF Next, Return

\* However its medium goes bad and is mended, a backup is restored as it was
\* published or not at all.
THEOREM RestoreFaithful == Spec => []RestoredIsBackup
  <1>1. RestoringInv => RestoredIsBackup
    BY DEF RestoringInv
  <1> QED BY <1>1, InitRestoring, NextRestoring, Safe, PTL DEF Spec
=============================================================================
