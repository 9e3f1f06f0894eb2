------------------------- MODULE BundleImportProofs -------------------------
(***************************************************************************)
(* For any records, bundles and overlapping calls: every bundle comes to   *)
(* what BundleDelivery promises, a replica is replaced only over what was  *)
(* recorded, and no file has two creators.                                 *)
(***************************************************************************)
EXTENDS BundleImport, TLAPS

Working(c) == call[c].pc \in {"files", "opening", "writing"}

\* A working call has a bundle, and only an import writes a ciphertext.
CallsWork ==
    \A c \in Calls :
        /\ Working(c) => call[c].op # "none" /\ call[c].bundle \in Bundles
        /\ Working(c) /\ call[c].op # "import" => call[c].todo \subseteq Uploads
        /\ call[c].pc \in {"opening", "writing"} => call[c].file \in call[c].todo

\* An import holds the lock, so its bundle has no receipt until it commits.
ImportIsFirst ==
    \A c \in Calls :
        Working(c) /\ call[c].op = "import" => receipt[call[c].bundle] = "none"

\* The receipt and the conflict record of a bundle agree, and what is under
\* review differs from what the bundle carries.
ReceiptsAgree ==
    \A b \in Bundles :
        /\ receipt[b] = "none" => conflict[b].state = "none"
        /\ receipt[b] = "conflict" =>
                conflict[b].state \in {"needs_review", "keep_local"}
        /\ conflict[b].state = "needs_review" =>
                /\ receipt[b] = "conflict"
                /\ \A r \in InConflict(b) :
                        /\ r \in Carried(b)
                        /\ conflict[b].snapshot[r].source # Carries[b][r]

\* Evidence that has a creator is on disk.
CreatedIsThere ==
    \A c \in Calls :
        /\ \A u \in Uploads \cap Owned(c) : disk[u] # "absent"
        /\ call[c].pc = "writing" => call[c].file \notin call[c].created \cap Uploads

Inv ==
    /\ TypeOK
    /\ CallsWork
    /\ ImportIsFirst
    /\ ReceiptsAgree
    /\ CreatedIsThere
    /\ OneCreator

\* The call is an import that holds the lock.
Importing(c) ==
    call[c].op = "import" /\ call[c].pc \in {"files", "opening", "writing"}
-----------------------------------------------------------------------------
LEMMA ConstantTypes ==
    /\ Idle \in CallRecord
    /\ NoConflict \in ConflictRecord
    /\ Absent \in Version
    /\ NoVersions \in Versions
  BY DEF Idle, CallRecord, NoConflict, ConflictRecord, Absent, Version,
         NoVersions, Versions

LEMMA InvInit == Init => Inv
  <1> SUFFICES ASSUME Init PROVE Inv
    OBVIOUS
  <1>1. TypeOK
    <2>1. local \in Versions /\ conflict \in [Bundles -> ConflictRecord]
          /\ call \in [Calls -> CallRecord]
      BY ConstantTypes DEF Init, Versions
    <2>2. \A c \in Calls : call[c].pc = "idle"
      BY DEF Init, Idle
    <2> QED BY <2>1, <2>2 DEF Init, TypeOK
  <1>2. \A c \in Calls : /\ call[c].pc = "idle" /\ call[c].created = {}
                         /\ Owned(c) = {}
    BY DEF Init, Idle, Owned
  <1>3. \A b \in Bundles : receipt[b] = "none" /\ conflict[b].state = "none"
    BY DEF Init, NoConflict
  <1> QED BY <1>1, <1>2, <1>3 DEF Inv, CallsWork, Working, ImportIsFirst,
            ReceiptsAgree, CreatedIsThere, OneCreator
-----------------------------------------------------------------------------
(* Type correctness.                                                       *)

\* One call goes on; the lock and the calls keep their shapes.
LEMMA CallStep ==
    ASSUME TypeOK, NEW c \in Calls, NEW t \in CallRecord,
           call' = [call EXCEPT ![c] = t],
           LET imports == t.op = "import" /\ t.pc \in {"files", "opening", "writing"}
           IN  \/ Importing(c) /\ imports /\ holder' = holder
               \/ ~imports /\ holder' = holder \ {c}
               \/ imports /\ holder = {} /\ holder' = {c}
    PROVE  /\ call' \in [Calls -> CallRecord]
           /\ holder' = {d \in Calls : /\ call'[d].op = "import"
                                       /\ call'[d].pc \in {"files", "opening", "writing"}}
           /\ \A d, e \in holder' : d = e
  BY DEF TypeOK, Importing

LEMMA VersionsPut ==
    ASSUME TypeOK, NEW b \in Bundles, NEW S \in SUBSET Records
    PROVE  Put(b, S) \in Versions
  <1>1. \A r \in Records : Carries[b][r] \in Nat
    BY ImportAssumption
  <1> QED BY <1>1 DEF TypeOK, Put, Versions, Version

LEMMA VersionsCurrent ==
    ASSUME TypeOK, NEW S PROVE Current(S) \in Versions
  BY ConstantTypes DEF TypeOK, Current, Versions

LEMMA AfterFailureType ==
    ASSUME TypeOK, NEW c \in Calls
    PROVE  /\ AfterFailure(c) \in CallRecord
           /\ AfterFailure(c).op = "none"
  BY ConstantTypes DEF TypeOK, AfterFailure, Idle, CallRecord

LEMMA RaiseType ==
    ASSUME TypeOK, NEW c \in Calls, Raise(c),
           disk' \in [Files -> {"absent", "partial", "full"}],
           UNCHANGED <<database, shared>>
    PROVE  TypeOK'
  <1>1. CASE call[c].op = "import"
    <2>1. /\ call' = [call EXCEPT ![c] = AfterFailure(c)]
          /\ holder' = holder \ {c}
          /\ blocked' \in BOOLEAN
      BY <1>1 DEF Raise, Goes, TypeOK
    <2> QED BY <2>1, AfterFailureType, CallStep DEF TypeOK, database
  <1>2. CASE call[c].op # "import"
    <2>1. /\ call' = [call EXCEPT ![c] = Idle]
          /\ holder' = holder \ {c}
          /\ blocked' = blocked
      BY <1>2 DEF Raise, Goes
    <2>2. Idle \in CallRecord /\ Idle.op = "none"
      BY ConstantTypes DEF Idle
    <2> QED BY <2>1, <2>2, CallStep DEF TypeOK, database
  <1> QED BY <1>1, <1>2

\* A call changes nothing of the lock and stays in its operation.
LEMMA QuietStep ==
    ASSUME TypeOK, NEW c \in Calls, NEW t \in CallRecord,
           call' = [call EXCEPT ![c] = t],
           t.op = call[c].op,
           t.pc \in {"files", "opening", "writing"}
                <=> call[c].pc \in {"files", "opening", "writing"},
           disk' \in [Files -> {"absent", "partial", "full"}],
           shared' \subseteq Files,
           UNCHANGED <<database, holder, blocked>>
    PROVE  TypeOK'
  <1>1. /\ call' \in [Calls -> CallRecord]
        /\ holder' = {d \in Calls : /\ call'[d].op = "import"
                                    /\ call'[d].pc \in {"files", "opening", "writing"}}
        /\ \A d, e \in holder' : d = e
    BY DEF TypeOK
  <1> QED BY <1>1 DEF TypeOK, database

LEMMA TypeStep ==
    ASSUME Inv, [Next]_vars
    PROVE  TypeOK'
  <1> USE DEF Inv
  <1>1. ASSUME UNCHANGED vars PROVE TypeOK'
    BY <1>1 DEF TypeOK, vars, database
  <1>2. ASSUME NEW c \in Calls, NEW b \in Bundles, BeginImport(c, b)
        PROVE  TypeOK'
    <2> DEFINE t == [Idle EXCEPT !.pc = "files", !.op = "import", !.bundle = b,
                                 !.todo = IF Conflicts(b) = {} THEN Evidence(b)
                                                               ELSE {b}]
    <2>1. t \in CallRecord /\ t.op = "import" /\ t.pc = "files"
      BY ConstantTypes DEF CallRecord, Idle, Files, Evidence
    <2>2. call' = [call EXCEPT ![c] = t] /\ holder = {} /\ holder' = {c}
      BY <1>2 DEF BeginImport
    <2> HIDE DEF t
    <2> QED BY <1>2, <2>1, <2>2, CallStep DEF BeginImport, TypeOK, database
  <1>3. ASSUME NEW c \in Calls, NEW b \in Bundles,
               NEW decision \in {"accept_incoming", "keep_local"},
               BeginResolve(c, b, decision)
        PROVE  TypeOK'
    <2> DEFINE t == [Idle EXCEPT !.pc = "files", !.op = decision, !.bundle = b,
                                 !.named = Current(InConflict(b)),
                                 !.todo = IF decision = "accept_incoming"
                                          THEN Evidence(b) ELSE {}]
    <2>1. t \in CallRecord /\ t.op = decision
      BY ConstantTypes, VersionsCurrent DEF CallRecord, Idle, Files, Evidence
    <2>2. call' = [call EXCEPT ![c] = t] /\ holder' = holder
      BY <1>3 DEF BeginResolve
    <2>3. holder' = holder \ {c}
      BY <1>3, <2>2 DEF BeginResolve, TypeOK, Idle
    <2> HIDE DEF t
    <2> QED BY <1>3, <2>1, <2>2, <2>3, CallStep DEF BeginResolve, TypeOK, database
  <1>4. ASSUME NEW c \in Calls, NEW f \in Files, UseExisting(c, f)
        PROVE  TypeOK'
    <2> DEFINE t == [call[c] EXCEPT !.todo = @ \ {f},
                                    !.created = @ \cup ({f} \cap Bundles)]
    <2>1. t \in CallRecord /\ t.op = call[c].op /\ t.pc = call[c].pc
      BY DEF TypeOK, CallRecord
    <2>2. call' = [call EXCEPT ![c] = t]
      BY <1>4 DEF UseExisting, TypeOK, CallRecord
    <2> HIDE DEF t
    <2>3. /\ disk' \in [Files -> {"absent", "partial", "full"}]
          /\ shared' \subseteq Files
          /\ UNCHANGED <<database, holder, blocked>>
      BY <1>4 DEF UseExisting, TypeOK
    <2> QED BY <2>1, <2>2, <2>3, QuietStep
  <1>5. ASSUME NEW c \in Calls, NEW f \in Files, RefuseExisting(c, f)
        PROVE  TypeOK'
    BY <1>5, RaiseType DEF RefuseExisting, TypeOK
  <1>6. ASSUME NEW c \in Calls, NEW f \in Files, MissFile(c, f)
        PROVE  TypeOK'
    <2> DEFINE t == [call[c] EXCEPT !.pc = "opening", !.file = f]
    <2>1. t \in CallRecord /\ t.op = call[c].op /\ t.pc = "opening"
      BY DEF TypeOK, CallRecord
    <2>2. call' = [call EXCEPT ![c] = t] /\ call[c].pc = "files"
      BY <1>6 DEF MissFile, TypeOK, CallRecord
    <2> HIDE DEF t
    <2>3. /\ disk' \in [Files -> {"absent", "partial", "full"}]
          /\ shared' \subseteq Files
          /\ UNCHANGED <<database, holder, blocked>>
      BY <1>6 DEF MissFile, TypeOK
    <2> QED BY <2>1, <2>2, <2>3, QuietStep
  <1>7. ASSUME NEW c \in Calls, NEW f \in Files, UnlinkCreated(c, f)
        PROVE  TypeOK'
    <2> DEFINE t == [call[c] EXCEPT !.created = @ \ {f}]
    <2>1. t \in CallRecord /\ t.op = call[c].op /\ t.pc = call[c].pc
      BY DEF TypeOK, CallRecord
    <2>2. call' = [call EXCEPT ![c] = t]
      BY <1>7 DEF UnlinkCreated, TypeOK, CallRecord
    <2> HIDE DEF t
    <2>3. /\ disk' \in [Files -> {"absent", "partial", "full"}]
          /\ shared' \subseteq Files
          /\ UNCHANGED <<database, holder, blocked>>
      BY <1>7 DEF UnlinkCreated, TypeOK
    <2> QED BY <2>1, <2>2, <2>3, QuietStep
  <1>8. ASSUME NEW c \in Calls, OpenFile(c) PROVE TypeOK'
    <2> DEFINE t == [call[c] EXCEPT !.pc = "writing"]
    <2>1. t \in CallRecord /\ t.op = call[c].op /\ t.pc = "writing"
      BY DEF TypeOK, CallRecord
    <2>2. call' = [call EXCEPT ![c] = t] /\ call[c].pc = "opening"
      BY <1>8 DEF OpenFile, TypeOK, CallRecord
    <2> HIDE DEF t
    <2>3. /\ disk' \in [Files -> {"absent", "partial", "full"}]
          /\ shared' \subseteq Files
          /\ UNCHANGED <<database, holder, blocked>>
      BY <1>8 DEF OpenFile, TypeOK
    <2> QED BY <2>1, <2>2, <2>3, QuietStep
  <1>9. ASSUME NEW c \in Calls, OpenCollides(c) PROVE TypeOK'
    BY <1>9, RaiseType DEF OpenCollides, TypeOK
  <1>10. ASSUME NEW c \in Calls, WriteFile(c) PROVE TypeOK'
    <2> DEFINE t == [call[c] EXCEPT !.pc = "files", !.file = NoFile,
                                    !.todo = @ \ {call[c].file},
                                    !.created = @ \cup {call[c].file}]
    <2>0. call[c].file \in Files
      BY <1>10 DEF WriteFile, CallsWork, TypeOK, CallRecord
    <2>1. t \in CallRecord /\ t.op = call[c].op /\ t.pc = "files"
      BY <2>0 DEF TypeOK, CallRecord
    <2>2. call' = [call EXCEPT ![c] = t] /\ call[c].pc = "writing"
      BY <1>10 DEF WriteFile, TypeOK, CallRecord
    <2> HIDE DEF t
    <2>3. /\ disk' \in [Files -> {"absent", "partial", "full"}]
          /\ shared' \subseteq Files
          /\ UNCHANGED <<database, holder, blocked>>
      BY <1>10 DEF WriteFile, TypeOK
    <2> QED BY <2>1, <2>2, <2>3, QuietStep
  <1>11. ASSUME NEW c \in Calls, WriteFails(c) PROVE TypeOK'
    <2>1. disk' \in [Files -> {"absent", "partial", "full"}]
      BY <1>11 DEF WriteFails, TypeOK
    <2> QED BY <1>11, <2>1, RaiseType DEF WriteFails
  <1>12. ASSUME NEW c \in Calls, CommitImport(c) PROVE TypeOK'
    <2> DEFINE b == call[c].bundle
    <2>1. b \in Bundles
      BY <1>12 DEF CommitImport, Ready, CallsWork, Working
    <2>2. local' \in Versions
      BY <1>12, <2>1, VersionsPut DEF CommitImport, Deferred, Carried, TypeOK
    <2>3. conflict' \in [Bundles -> ConflictRecord]
      <3>1. [state |-> "needs_review", snapshot |-> Current(Conflicts(b)),
             deferred |-> Deferred(b), binding |-> NoVersions] \in ConflictRecord
        BY ConstantTypes, VersionsCurrent DEF ConflictRecord, Deferred, Carried
      <3> QED BY <1>12, <2>1, <3>1 DEF CommitImport, TypeOK
    <2>4. receipt' \in [Bundles -> {"none", "imported", "conflict"}]
      BY <1>12, <2>1 DEF CommitImport, TypeOK
    <2> QED BY <1>12, <2>2, <2>3, <2>4, ConstantTypes, CallStep
            DEF CommitImport, Goes, TypeOK, Idle
  <1>13. ASSUME NEW c \in Calls, ImportFails(c) PROVE TypeOK'
    BY <1>13, AfterFailureType, CallStep
    DEF ImportFails, Goes, TypeOK, Verifies, database
  <1>14. ASSUME NEW c \in Calls, NEW state \in {"keep_local", "accept_incoming"},
                Ready(c), Resolved(c, state)
         PROVE  conflict' \in [Bundles -> ConflictRecord]
    <2>1. /\ call[c].bundle \in Bundles
          /\ call[c].named \in Versions
          /\ conflict[call[c].bundle] \in ConflictRecord
      BY <1>14 DEF Ready, CallsWork, Working, TypeOK, CallRecord
    <2>2. [[conflict[call[c].bundle] EXCEPT !.state = state]
                EXCEPT !.binding = call[c].named] \in ConflictRecord
      BY <2>1 DEF ConflictRecord
    <2> QED BY <1>14, <2>1, <2>2 DEF Resolved, TypeOK
  <1>15. ASSUME NEW c \in Calls, Accept(c) PROVE TypeOK'
    <2> DEFINE b == call[c].bundle
    <2>1. b \in Bundles /\ conflict[b].deferred \subseteq Records
      BY <1>15 DEF Accept, InDecision, Ready, CallsWork, Working, TypeOK,
                   ConflictRecord
    <2>2. local' \in Versions
      BY <1>15, <2>1, VersionsPut DEF Accept, InConflict
    <2>3. receipt' \in [Bundles -> {"none", "imported", "conflict"}]
      BY <1>15, <2>1 DEF Accept, TypeOK
    <2> QED BY <1>14, <1>15, <2>2, <2>3, ConstantTypes, CallStep
            DEF Accept, InDecision, Goes, TypeOK, Idle
  <1>16. ASSUME NEW c \in Calls, KeepLocal(c) PROVE TypeOK'
    BY <1>14, <1>16, ConstantTypes, CallStep
    DEF KeepLocal, InDecision, Goes, TypeOK, Idle
  <1>17. ASSUME NEW c \in Calls, AlreadyResolved(c) PROVE TypeOK'
    BY <1>17, ConstantTypes, CallStep
    DEF AlreadyResolved, Goes, TypeOK, Idle, database
  <1>18. ASSUME NEW c \in Calls, ResolveFails(c) PROVE TypeOK'
    BY <1>18, AfterFailureType, CallStep
    DEF ResolveFails, Goes, TypeOK, Verifies, database
  <1>19. ASSUME NEW c \in Calls, ReadReferenced(c) PROVE TypeOK'
    <2> DEFINE t == [call[c] EXCEPT !.pc = "unlinking",
                                    !.referenced = Referenced \cap call[c].created]
    <2>1. t \in CallRecord /\ t.op = call[c].op /\ t.pc = "unlinking"
      BY DEF TypeOK, CallRecord, Referenced, Files
    <2>2. call' = [call EXCEPT ![c] = t] /\ call[c].pc = "cleanup"
      BY <1>19 DEF ReadReferenced, TypeOK, CallRecord
    <2> HIDE DEF t
    <2>3. /\ disk' \in [Files -> {"absent", "partial", "full"}]
          /\ shared' \subseteq Files
          /\ UNCHANGED <<database, holder, blocked>>
      BY <1>19 DEF ReadReferenced, TypeOK
    <2> QED BY <2>1, <2>2, <2>3, QuietStep
  <1>20. ASSUME NEW c \in Calls, CleanedUp(c) \/ CleanupFails(c) PROVE TypeOK'
    <2>1. call' = [call EXCEPT ![c] = Idle] /\ holder' = holder \ {c}
      BY <1>20 DEF CleanedUp, CleanupFails, TypeOK
    <2> QED BY <1>20, <2>1, ConstantTypes, CallStep
            DEF CleanedUp, CleanupFails, TypeOK, Idle, database
  <1>21. ASSUME Restart PROVE TypeOK'
    <2>1. \A c \in Calls : call'[c].op = "none"
      BY <1>21 DEF Restart, Idle
    <2> QED BY <1>21, <2>1, ConstantTypes DEF Restart, TypeOK, Verifies, database
  <1> QED BY <1>1, <1>2, <1>3, <1>4, <1>5, <1>6, <1>7, <1>8, <1>9, <1>10, <1>11,
             <1>12, <1>13, <1>15, <1>16, <1>17, <1>18, <1>19, <1>20, <1>21
          DEF Next
-----------------------------------------------------------------------------
(* Calls and receipts.                                                     *)

\* A call that has left its transaction is no longer working.
LEMMA IdleOrCleanup ==
    ASSUME TypeOK, NEW c \in Calls
    PROVE  /\ Idle.pc = "idle"
           /\ AfterFailure(c).pc \in {"idle", "cleanup"}
  BY DEF AfterFailure, Idle

LEMMA RaiseEnds ==
    ASSUME TypeOK, NEW c \in Calls, Raise(c)
    PROVE  /\ call'[c].pc \in {"idle", "cleanup"}
           /\ \A d \in Calls \ {c} : call'[d] = call[d]
  BY IdleOrCleanup DEF Raise, Goes, TypeOK

\* The call is not working afterwards, and nothing happens to the others.
Stops(c) ==
    /\ call'[c].pc \notin {"files", "opening", "writing"}
    /\ \A d \in Calls \ {c} : call'[d] = call[d]

\* The steps with which a call stops working.
Ends(c) ==
    \/ OpenCollides(c) \/ WriteFails(c) \/ CommitImport(c) \/ ImportFails(c)
    \/ Accept(c) \/ KeepLocal(c) \/ AlreadyResolved(c) \/ ResolveFails(c)
    \/ ReadReferenced(c) \/ CleanedUp(c) \/ CleanupFails(c)
    \/ \E f \in Files : RefuseExisting(c, f) \/ UnlinkCreated(c, f)

LEMMA EndStops ==
    ASSUME TypeOK, NEW c \in Calls, Ends(c)
    PROVE  Stops(c)
  <1>1. CASE OpenCollides(c) \/ WriteFails(c) \/ \E f \in Files : RefuseExisting(c, f)
    BY <1>1, RaiseEnds DEF OpenCollides, WriteFails, RefuseExisting, Stops
  <1>2. CASE \/ CommitImport(c) \/ ImportFails(c) \/ Accept(c) \/ KeepLocal(c)
             \/ AlreadyResolved(c) \/ ResolveFails(c) \/ CleanedUp(c)
             \/ CleanupFails(c)
    BY <1>2, IdleOrCleanup
    DEF CommitImport, ImportFails, Accept, KeepLocal, AlreadyResolved,
        ResolveFails, CleanedUp, CleanupFails, Goes, Stops, TypeOK
  <1>3. CASE ReadReferenced(c) \/ \E f \in Files : UnlinkCreated(c, f)
    BY <1>3 DEF ReadReferenced, UnlinkCreated, Stops, TypeOK, CallRecord
  <1> QED BY <1>1, <1>2, <1>3 DEF Ends

LEMMA CallsWorkStep ==
    ASSUME Inv, [Next]_vars
    PROVE  CallsWork'
  <1> USE DEF Inv
  <1>1. ASSUME UNCHANGED vars PROVE CallsWork'
    BY <1>1 DEF CallsWork, Working, vars
  <1>2. ASSUME NEW c \in Calls, Stops(c) PROVE CallsWork'
    BY <1>2 DEF CallsWork, Working, Stops
  <1>3. ASSUME NEW c \in Calls, NEW b \in Bundles, BeginImport(c, b)
        PROVE  CallsWork'
    <2>1. /\ call'[c].op = "import" /\ call'[c].bundle \in Bundles
          /\ call'[c].pc = "files"
          /\ \A d \in Calls \ {c} : call'[d] = call[d]
      BY <1>3 DEF BeginImport, TypeOK, Idle
    <2> QED BY <2>1 DEF CallsWork, Working
  <1>4. ASSUME NEW c \in Calls, NEW b \in Bundles,
               NEW decision \in {"accept_incoming", "keep_local"},
               BeginResolve(c, b, decision)
        PROVE  CallsWork'
    <2>1. /\ call'[c].op # "none" /\ call'[c].bundle \in Bundles
          /\ call'[c].pc = "files"
          /\ call'[c].todo \subseteq Uploads
          /\ \A d \in Calls \ {c} : call'[d] = call[d]
      BY <1>4 DEF BeginResolve, TypeOK, Idle, Evidence
    <2> QED BY <2>1 DEF CallsWork, Working
  <1>5. ASSUME NEW c \in Calls, NEW f \in Files, UseExisting(c, f)
        PROVE  CallsWork'
    <2>1. /\ call[c].pc = "files" /\ call'[c].pc = "files"
          /\ call'[c].op = call[c].op /\ call'[c].bundle = call[c].bundle
          /\ call'[c].todo \subseteq call[c].todo
          /\ \A d \in Calls \ {c} : call'[d] = call[d]
      BY <1>5 DEF UseExisting, TypeOK, CallRecord
    <2> QED BY <2>1 DEF CallsWork, Working
  <1>6. ASSUME NEW c \in Calls, NEW f \in Files, MissFile(c, f)
        PROVE  CallsWork'
    <2>1. /\ call[c].pc = "files" /\ call'[c].pc = "opening"
          /\ call'[c].op = call[c].op /\ call'[c].bundle = call[c].bundle
          /\ call'[c].todo = call[c].todo /\ call'[c].file \in call[c].todo
          /\ \A d \in Calls \ {c} : call'[d] = call[d]
      BY <1>6 DEF MissFile, TypeOK, CallRecord
    <2> QED BY <2>1 DEF CallsWork, Working
  <1>7. ASSUME NEW c \in Calls, OpenFile(c) PROVE CallsWork'
    <2>1. /\ call[c].pc = "opening" /\ call'[c].pc = "writing"
          /\ call'[c].op = call[c].op /\ call'[c].bundle = call[c].bundle
          /\ call'[c].todo = call[c].todo /\ call'[c].file = call[c].file
          /\ \A d \in Calls \ {c} : call'[d] = call[d]
      BY <1>7 DEF OpenFile, TypeOK, CallRecord
    <2> QED BY <2>1 DEF CallsWork, Working
  <1>8. ASSUME NEW c \in Calls, WriteFile(c) PROVE CallsWork'
    <2>1. /\ call[c].pc = "writing" /\ call'[c].pc = "files"
          /\ call'[c].op = call[c].op /\ call'[c].bundle = call[c].bundle
          /\ call'[c].todo \subseteq call[c].todo
          /\ \A d \in Calls \ {c} : call'[d] = call[d]
      BY <1>8 DEF WriteFile, TypeOK, CallRecord
    <2> QED BY <2>1 DEF CallsWork, Working
  <1>9. ASSUME Restart PROVE CallsWork'
    BY <1>9 DEF Restart, CallsWork, Working, Idle
  <1> QED BY <1>1, <1>2, <1>3, <1>4, <1>5, <1>6, <1>7, <1>8, <1>9,
             EndStops DEF Next, Ends

\* Every import of the next state was there before, over the same bundle.
NoNewImport ==
    \A d \in Calls :
        call'[d].op = "import" /\ call'[d].pc \in {"files", "opening", "writing"}
            => Importing(d) /\ call'[d].bundle = call[d].bundle

LEMMA ImportsContinue ==
    ASSUME Inv, [Next]_vars,
           ~ \E c \in Calls, b \in Bundles : BeginImport(c, b)
    PROVE  NoNewImport
  <1> USE DEF Inv
  <1>1. ASSUME UNCHANGED vars PROVE NoNewImport
    BY <1>1 DEF NoNewImport, Importing, vars
  <1>2. ASSUME NEW c \in Calls, NEW b \in Bundles,
               NEW decision \in {"accept_incoming", "keep_local"},
               BeginResolve(c, b, decision)
        PROVE  NoNewImport
    BY <1>2 DEF BeginResolve, NoNewImport, Importing, TypeOK, Idle
  <1>3. ASSUME NEW c \in Calls, NEW f \in Files, UseExisting(c, f) \/ MissFile(c, f)
        PROVE  NoNewImport
    BY <1>3 DEF UseExisting, MissFile, NoNewImport, Importing, TypeOK, CallRecord
  <1>4. ASSUME NEW c \in Calls, OpenFile(c) \/ WriteFile(c) PROVE NoNewImport
    BY <1>4 DEF OpenFile, WriteFile, NoNewImport, Importing, TypeOK, CallRecord
  <1>5. ASSUME NEW c \in Calls, Stops(c) PROVE NoNewImport
    BY <1>5 DEF Stops, NoNewImport, Importing
  <1>6. ASSUME Restart PROVE NoNewImport
    BY <1>6 DEF Restart, NoNewImport, Idle
  <1> QED BY <1>1, <1>2, <1>3, <1>4, <1>5, <1>6, EndStops DEF Next, Ends

\* Only a commit changes what is recorded.
Commits ==
    \E c \in Calls : CommitImport(c) \/ Accept(c) \/ KeepLocal(c)

LEMMA RecordedUnlessCommit ==
    ASSUME [Next]_vars, ~Commits
    PROVE  UNCHANGED database
  BY DEF Commits, Next, vars, database, BeginImport, BeginResolve, UseExisting,
         RefuseExisting, MissFile, UnlinkCreated, OpenFile, OpenCollides,
         WriteFile, WriteFails, ImportFails, AlreadyResolved, ResolveFails,
         ReadReferenced, CleanedUp, CleanupFails, Restart

\* What an import commits.
LEMMA CommitImportFacts ==
    ASSUME Inv, NEW c \in Calls, CommitImport(c)
    PROVE  /\ call[c].bundle \in Bundles
           /\ receipt[call[c].bundle] = "none"
           /\ holder = {c}
  BY DEF Inv, CommitImport, Ready, CallsWork, Working, ImportIsFirst, TypeOK

LEMMA ImportIsFirstStep ==
    ASSUME Inv, [Next]_vars
    PROVE  ImportIsFirst'
  <1> USE DEF Inv
  <1>1. ASSUME NEW c \in Calls, NEW b \in Bundles, BeginImport(c, b)
        PROVE  ImportIsFirst'
    <2>1. /\ call'[c].bundle = b /\ receipt[b] = "none"
          /\ \A d \in Calls \ {c} : call'[d] = call[d]
          /\ receipt' = receipt
      BY <1>1 DEF BeginImport, TypeOK, Idle, database
    <2> QED BY <2>1 DEF ImportIsFirst, Working
  <1>2. ASSUME NoNewImport, receipt' = receipt PROVE ImportIsFirst'
    BY <1>2 DEF ImportIsFirst, NoNewImport, Importing, Working
  <1>3. ASSUME NEW c \in Calls, CommitImport(c), NoNewImport
        PROVE  ImportIsFirst'
    <2>1. \A d \in Calls : Importing(d) => d = c
      BY <1>3, CommitImportFacts DEF TypeOK, Importing
    <2>2. call'[c].pc = "idle"
      BY <1>3 DEF CommitImport, Goes, TypeOK, Idle
    <2> QED BY <1>3, <2>1, <2>2 DEF ImportIsFirst, NoNewImport, Working
  <1>4. ASSUME NEW c \in Calls, Accept(c) \/ KeepLocal(c), NoNewImport
        PROVE  ImportIsFirst'
    <2>1. \A d \in Calls : ~Importing(d)
      BY <1>4 DEF Accept, KeepLocal, InDecision, TypeOK, Importing
    <2> QED BY <1>4, <2>1 DEF ImportIsFirst, NoNewImport, Working
  <1>5. CASE ~Commits
    BY <1>1, <1>2, <1>5, RecordedUnlessCommit, ImportsContinue DEF database
  <1>6. ASSUME NEW c \in Calls, CommitImport(c) \/ Accept(c) \/ KeepLocal(c),
               NEW d \in Calls, NEW b \in Bundles, BeginImport(d, b)
        PROVE  FALSE
    <2>1. holder = {} /\ holder' = {d}
      BY <1>6 DEF BeginImport
    <2>2. holder' = holder \ {c}
      BY <1>6 DEF CommitImport, Accept, KeepLocal, Goes
    <2> QED BY <2>1, <2>2
  <1> QED BY <1>3, <1>4, <1>5, <1>6, ImportsContinue DEF Commits

\* What a resolution decides over.
LEMMA DecisionFacts ==
    ASSUME Inv, NEW c \in Calls, Ready(c)
    PROVE  /\ call[c].bundle \in Bundles
           /\ conflict[call[c].bundle] \in ConflictRecord
           /\ conflict \in [Bundles -> ConflictRecord]
           /\ receipt \in [Bundles -> {"none", "imported", "conflict"}]
  BY DEF Inv, Ready, CallsWork, Working, TypeOK

LEMMA ReceiptsAgreeStep ==
    ASSUME Inv, [Next]_vars
    PROVE  ReceiptsAgree'
  <1> USE DEF Inv
  <1>1. CASE ~Commits
    BY <1>1, RecordedUnlessCommit DEF ReceiptsAgree, database, InConflict
  <1>2. ASSUME NEW c \in Calls, CommitImport(c) PROVE ReceiptsAgree'
    <2> DEFINE b == call[c].bundle
    <2>0. /\ b \in Bundles /\ receipt[b] = "none"
          /\ conflict[b].state = "none"
          /\ conflict \in [Bundles -> ConflictRecord]
          /\ receipt \in [Bundles -> {"none", "imported", "conflict"}]
      BY <1>2, CommitImportFacts DEF ReceiptsAgree, TypeOK
    <2>1. CASE Conflicts(b) = {}
      <3>1. receipt' = [receipt EXCEPT ![b] = "imported"] /\ conflict' = conflict
        BY <1>2, <2>1 DEF CommitImport
      <3> QED BY <2>0, <3>1 DEF ReceiptsAgree, InConflict
    <2>2. CASE Conflicts(b) # {}
      <3>1. /\ receipt' = [receipt EXCEPT ![b] = "conflict"]
            /\ conflict'[b].state = "needs_review"
            /\ conflict'[b].snapshot = Current(Conflicts(b))
            /\ \A a \in Bundles \ {b} : conflict'[a] = conflict[a]
        BY <1>2, <2>0, <2>2 DEF CommitImport
      <3>2. \A r \in Records : Current(Conflicts(b))[r] # Absent =>
                /\ r \in Carried(b)
                /\ Current(Conflicts(b))[r].source # Carries[b][r]
        BY DEF Current, Conflicts, Duplicates
      <3> QED BY <2>0, <3>1, <3>2 DEF ReceiptsAgree, InConflict
    <2> QED BY <2>1, <2>2
  <1>3. ASSUME NEW c \in Calls, Accept(c) PROVE ReceiptsAgree'
    <2> DEFINE b == call[c].bundle
    <2>1. /\ b \in Bundles /\ conflict \in [Bundles -> ConflictRecord]
          /\ receipt \in [Bundles -> {"none", "imported", "conflict"}]
      BY <1>3, DecisionFacts DEF Accept, InDecision
    <2>2. /\ receipt' = [receipt EXCEPT ![b] = "imported"]
          /\ conflict'[b].state = "accept_incoming"
          /\ \A a \in Bundles \ {b} : conflict'[a] = conflict[a]
      BY <1>3, <2>1 DEF Accept, Resolved, ConflictRecord
    <2> QED BY <2>1, <2>2 DEF ReceiptsAgree, InConflict
  <1>4. ASSUME NEW c \in Calls, KeepLocal(c) PROVE ReceiptsAgree'
    <2> DEFINE b == call[c].bundle
    <2>1. /\ b \in Bundles /\ conflict \in [Bundles -> ConflictRecord]
          /\ receipt[b] = "conflict"
      BY <1>4, DecisionFacts DEF KeepLocal, InDecision, StillReviewed, ReceiptsAgree
    <2>2. /\ receipt' = receipt
          /\ conflict'[b].state = "keep_local"
          /\ \A a \in Bundles \ {b} : conflict'[a] = conflict[a]
      BY <1>4, <2>1 DEF KeepLocal, Resolved, ConflictRecord
    <2> QED BY <2>1, <2>2 DEF ReceiptsAgree, InConflict
  <1> QED BY <1>1, <1>2, <1>3, <1>4 DEF Commits
-----------------------------------------------------------------------------
(* Files and their creators.                                               *)

Creators == CreatedIsThere /\ OneCreator

\* No call takes itself for the creator of more than before, and what has a
\* creator stays where it is.
LEMMA CreatorsKept ==
    ASSUME Inv,
           \A c \in Calls : Owned(c)' \subseteq Owned(c),
           \A c \in Calls : \A u \in Uploads \cap Owned(c)' :
                disk[u] # "absent" => disk'[u] # "absent",
           \A c \in Calls : call'[c].pc = "writing" =>
                /\ call[c].pc = "writing" /\ call'[c].file = call[c].file
                /\ call'[c].created \subseteq call[c].created
    PROVE  Creators'
  BY DEF Inv, Creators, CreatedIsThere, OneCreator

\* A call that ends or fails keeps at most what it created.
LEMMA EndedOwns ==
    ASSUME TypeOK, NEW c \in Calls,
           call' = [call EXCEPT ![c] = AfterFailure(c)]
               \/ call' = [call EXCEPT ![c] = Idle]
    PROVE  /\ Owned(c)' \subseteq call[c].created \cap Uploads
           /\ call'[c].pc # "writing"
           /\ \A d \in Calls : Owned(d)' \subseteq Owned(d)
           /\ \A d \in Calls \ {c} : call'[d] = call[d]
  <1>1. /\ AfterFailure(c).created \subseteq call[c].created
        /\ AfterFailure(c).pc # "writing"
        /\ Idle.created = {} /\ Idle.pc # "writing"
    BY ConstantTypes DEF AfterFailure, Idle, CallRecord, TypeOK
  <1>2. /\ call'[c].created \subseteq call[c].created
        /\ call'[c].pc # "writing"
        /\ \A d \in Calls \ {c} : call'[d] = call[d]
    BY <1>1 DEF TypeOK
  <1>3. Owned(c)' \subseteq call[c].created \cap Uploads
    BY <1>2 DEF Owned
  <1>4. \A d \in Calls \ {c} : Owned(d)' = Owned(d)
    BY <1>2 DEF Owned
  <1> QED BY <1>2, <1>3, <1>4 DEF Owned

LEMMA CreatorsStep ==
    ASSUME Inv, [Next]_vars
    PROVE  Creators'
  <1> USE DEF Inv
  <1>1. ASSUME UNCHANGED <<call, disk>> PROVE Creators'
    BY <1>1 DEF Creators, CreatedIsThere, OneCreator, Owned
  \* A call ends without touching a file.
  <1>2. ASSUME NEW c \in Calls, UNCHANGED disk,
               call' = [call EXCEPT ![c] = AfterFailure(c)]
                   \/ call' = [call EXCEPT ![c] = Idle]
        PROVE  Creators'
    BY <1>2, EndedOwns, CreatorsKept
  \* A call goes on without touching a file or what it created.
  <1>3. ASSUME NEW c \in Calls, UNCHANGED disk,
               \A d \in Calls \ {c} : call'[d] = call[d],
               call'[c].pc # "writing",
               call'[c].created \cap Uploads \subseteq call[c].created
        PROVE  Creators'
    <2>1. \A d \in Calls : Owned(d)' \subseteq Owned(d)
      BY <1>3 DEF Owned
    <2> QED BY <1>3, <2>1, CreatorsKept
  <1>4. ASSUME NEW c \in Calls, NEW b \in Bundles, BeginImport(c, b)
        PROVE  Creators'
    BY <1>3, <1>4 DEF BeginImport, TypeOK, Idle
  <1>5. ASSUME NEW c \in Calls, NEW b \in Bundles,
               NEW decision \in {"accept_incoming", "keep_local"},
               BeginResolve(c, b, decision)
        PROVE  Creators'
    BY <1>3, <1>5 DEF BeginResolve, TypeOK, Idle
  <1>6. ASSUME NEW c \in Calls, NEW f \in Files, UseExisting(c, f)
        PROVE  Creators'
    <2>1. /\ \A d \in Calls \ {c} : call'[d] = call[d]
          /\ call'[c].pc = "files"
          /\ call'[c].created = call[c].created \cup ({f} \cap Bundles)
          /\ disk' = disk
      BY <1>6 DEF UseExisting, TypeOK, CallRecord
    <2>2. Bundles \cap Uploads = {}
      BY ImportAssumption
    <2> QED BY <1>3, <2>1, <2>2
  <1>7. ASSUME NEW c \in Calls, NEW f \in Files, MissFile(c, f)
        PROVE  Creators'
    BY <1>3, <1>7 DEF MissFile, TypeOK, CallRecord
  <1>8. ASSUME NEW c \in Calls, ReadReferenced(c) PROVE Creators'
    BY <1>3, <1>8 DEF ReadReferenced, TypeOK, CallRecord
  <1>9. ASSUME NEW c \in Calls, Raise(c), UNCHANGED disk PROVE Creators'
    BY <1>2, <1>9 DEF Raise, Goes
  <1>10. ASSUME NEW c \in Calls, OpenCollides(c)
                    \/ \E f \in Files : RefuseExisting(c, f)
         PROVE  Creators'
    BY <1>9, <1>10 DEF OpenCollides, RefuseExisting
  <1>11. ASSUME NEW c \in Calls, \/ CommitImport(c) \/ ImportFails(c)
                    \/ Accept(c) \/ KeepLocal(c) \/ AlreadyResolved(c)
                    \/ ResolveFails(c) \/ CleanedUp(c) \/ CleanupFails(c)
         PROVE  Creators'
    BY <1>2, <1>11
    DEF CommitImport, ImportFails, Accept, KeepLocal, AlreadyResolved,
        ResolveFails, CleanedUp, CleanupFails, Goes
  \* Nobody created a file that is not there.
  <1>12. ASSUME NEW c \in Calls, OpenFile(c) PROVE Creators'
    <2> DEFINE f == call[c].file
    <2>1. /\ call[c].pc = "opening" /\ f \in Files /\ f \in call[c].todo
          /\ disk[f] = "absent"
          /\ disk' = [disk EXCEPT ![f] = "partial"]
          /\ call'[c].pc = "writing" /\ call'[c].file = f
          /\ call'[c].created = call[c].created
          /\ \A d \in Calls \ {c} : call'[d] = call[d]
      BY <1>12 DEF OpenFile, CallsWork, TypeOK, CallRecord
    <2>2. \A d \in Calls : f \notin Owned(d)
      <3>1. CASE f \in Uploads
        BY <2>1, <3>1 DEF CreatedIsThere
      <3>2. CASE f \notin Uploads
        <4>1. call[c].op = "import"
          BY <2>1, <3>2 DEF CallsWork, Working
        <4>2. ASSUME NEW d \in Calls, f \in Owned(d) PROVE FALSE
          <5>1. call[d].pc = "writing" /\ call[d].file = f
            BY <3>2, <4>2 DEF Owned
          <5>2. call[d].op = "import"
            BY <3>2, <5>1 DEF CallsWork, Working
          <5>3. c = d
            BY <2>1, <4>1, <5>1, <5>2 DEF TypeOK
          <5> QED BY <2>1, <5>1, <5>3
        <4> QED BY <4>2
      <3> QED BY <3>1, <3>2
    <2>3. /\ Owned(c)' = Owned(c) \cup {f}
          /\ \A d \in Calls \ {c} : Owned(d)' = Owned(d)
      BY <2>1 DEF Owned
    <2>4. OneCreator'
      BY <2>2, <2>3 DEF OneCreator
    <2>5. f \notin call[c].created \cap Uploads
      BY <2>2 DEF Owned
    <2>6. disk'[f] # "absent" /\ \A g \in Files \ {f} : disk'[g] = disk[g]
      BY <2>1 DEF TypeOK
    <2>7. CreatedIsThere'
      BY <2>1, <2>3, <2>5, <2>6 DEF CreatedIsThere, Files
    <2> QED BY <2>4, <2>7 DEF Creators
  <1>13. ASSUME NEW c \in Calls, WriteFile(c) PROVE Creators'
    <2> DEFINE f == call[c].file
    <2>1. /\ call[c].pc = "writing" /\ call'[c].pc = "files"
          /\ disk' = [disk EXCEPT ![f] = "full"]
          /\ call'[c].created = call[c].created \cup {f}
          /\ \A d \in Calls \ {c} : call'[d] = call[d]
      BY <1>13 DEF WriteFile, TypeOK, CallRecord
    <2>2. \A d \in Calls : Owned(d)' \subseteq Owned(d)
      BY <2>1 DEF Owned
    <2>3. \A u \in Uploads : disk[u] # "absent" => disk'[u] # "absent"
      BY <2>1 DEF TypeOK, Files
    <2> QED BY <2>1, <2>2, <2>3, CreatorsKept
  \* The file that could not be written had this creator only.
  <1>14. ASSUME NEW c \in Calls, WriteFails(c) PROVE Creators'
    <2> DEFINE f == call[c].file
    <2>1. /\ call[c].pc = "writing"
          /\ \A u \in Uploads : u # f => disk'[u] = disk[u]
          /\ call' = [call EXCEPT ![c] = AfterFailure(c)]
                \/ call' = [call EXCEPT ![c] = Idle]
      BY <1>14 DEF WriteFails, Raise, Goes, TypeOK, Files
    <2>2. /\ Owned(c)' \subseteq call[c].created \cap Uploads
          /\ \A d \in Calls : Owned(d)' \subseteq Owned(d)
          /\ call'[c].pc # "writing"
          /\ \A d \in Calls \ {c} : call'[d] = call[d]
      BY <2>1, EndedOwns
    <2>3. f \notin Owned(c)'
      BY <2>1, <2>2 DEF CreatedIsThere
    <2>4. \A d \in Calls \ {c} : f \notin Owned(d)
      BY <2>1 DEF OneCreator, Owned
    <2>5. \A d \in Calls : f \notin Owned(d)'
      BY <2>2, <2>3, <2>4
    <2> QED BY <2>1, <2>2, <2>5, CreatorsKept
  \* A cleanup removes its own evidence.
  <1>15. ASSUME NEW c \in Calls, NEW f \in Files, UnlinkCreated(c, f)
         PROVE  Creators'
    <2>1. /\ call[c].pc = "unlinking" /\ f \in call[c].created
          /\ disk' = [disk EXCEPT ![f] = "absent"]
          /\ call'[c].pc = "unlinking"
          /\ call'[c].created = call[c].created \ {f}
          /\ \A d \in Calls \ {c} : call'[d] = call[d]
      BY <1>15 DEF UnlinkCreated, TypeOK, CallRecord
    <2>2. /\ Owned(c)' = Owned(c) \ {f}
          /\ \A d \in Calls \ {c} : Owned(d)' = Owned(d)
      BY <2>1 DEF Owned
    <2>3. f \in Uploads => \A d \in Calls : f \notin Owned(d)'
      BY <2>1, <2>2 DEF OneCreator, Owned
    <2>4. \A u \in Uploads : u # f => disk'[u] = disk[u]
      BY <2>1 DEF TypeOK, Files
    <2> QED BY <2>1, <2>2, <2>3, <2>4, CreatorsKept
  <1>16. ASSUME Restart PROVE Creators'
    <2>1. \A c \in Calls : Owned(c)' = {} /\ call'[c].pc = "idle"
      BY <1>16 DEF Restart, Owned, Idle
    <2> QED BY <2>1 DEF Creators, CreatedIsThere, OneCreator
  <1>17. ASSUME UNCHANGED vars PROVE Creators'
    BY <1>1, <1>17 DEF vars
  <1> QED BY <1>4, <1>5, <1>6, <1>7, <1>8, <1>10, <1>11, <1>12, <1>13, <1>14,
             <1>15, <1>16, <1>17 DEF Next

LEMMA InvStep == Inv /\ [Next]_vars => Inv'
  BY TypeStep, CallsWorkStep, ImportIsFirstStep, ReceiptsAgreeStep, CreatorsStep
  DEF Inv, Creators

LEMMA InvAlways == Spec => []Inv
  BY InvInit, InvStep, PTL DEF Spec
-----------------------------------------------------------------------------
(* The theorems.                                                           *)

\* Every variable of BundleImport keeps its shape, and the lock has at most
\* one holder.
THEOREM TypeCorrect == Spec => []TypeOK
  BY InvAlways, PTL DEF Inv

\* However many calls overlap and fail, no evidence file has two creators, so
\* no cleanup removes what another call wrote (_persist_artifact).
THEOREM CreatorIsUnique == Spec => []OneCreator
  BY InvAlways, PTL DEF Inv

LEMMA AcceptFacts ==
    ASSUME Inv, NEW c \in Calls, Accept(c)
    PROVE  LET b == call[c].bundle
               S == InConflict(b) \cup conflict[b].deferred
           IN  /\ b \in Bundles
               /\ conflict[b].state = "needs_review"
               /\ receipt[b] = "conflict"
               /\ receipt' = [receipt EXCEPT ![b] = "imported"]
               /\ conflict'[b].state = "accept_incoming"
               /\ \A a \in Bundles \ {b} : conflict'[a] = conflict[a]
               /\ local' = Put(b, S)
               /\ \A r \in InConflict(b) : conflict[b].snapshot[r] = local[r]
               /\ \A r \in conflict[b].deferred :
                        r \in Carried(b) /\ local[r] = Absent
               /\ \A r \in S : r \in Carried(b) /\ local[r].source # Carries[b][r]
               /\ \A r \in Carried(b) \ S : local[r].source = Carries[b][r]
  <1> DEFINE b == call[c].bundle
             S == InConflict(b) \cup conflict[b].deferred
  <1> USE DEF Inv
  <1>1. /\ b \in Bundles /\ conflict \in [Bundles -> ConflictRecord]
        /\ conflict[b].state = "needs_review"
        /\ receipt[b] = "conflict"
    BY DecisionFacts DEF Accept, InDecision, StillReviewed, ReceiptsAgree
  <1>2. /\ receipt' = [receipt EXCEPT ![b] = "imported"]
        /\ conflict'[b].state = "accept_incoming"
        /\ \A a \in Bundles \ {b} : conflict'[a] = conflict[a]
        /\ local' = Put(b, S)
    BY <1>1 DEF Accept, Resolved, ConflictRecord
  <1>3. \A r \in InConflict(b) : conflict[b].snapshot[r] = local[r]
    BY DEF Accept, StillAcceptable, Current, InConflict
  <1>4. \A r \in conflict[b].deferred : r \in Carried(b) /\ local[r] = Absent
    BY DEF Accept, StillAcceptable, Deferred
  <1>5. \A r \in Carried(b) : Carries[b][r] > 0 /\ Carries[b][r] \in Nat
    BY <1>1, ImportAssumption DEF Carried
  <1>6. \A r \in S : r \in Carried(b) /\ local[r].source # Carries[b][r]
    BY <1>1, <1>3, <1>4, <1>5 DEF ReceiptsAgree, Absent
  <1>7. \A r \in Carried(b) \ S : local[r].source = Carries[b][r]
    BY DEF Accept, StillAcceptable
  <1> QED BY <1>1, <1>2, <1>3, <1>4, <1>6, <1>7

\* An acceptance puts every carried revision in force.
LEMMA AcceptReceives ==
    ASSUME Inv, NEW c \in Calls, Accept(c)
    PROVE  local' = Delivery!Received(call[c].bundle)
  <1> DEFINE b == call[c].bundle
             S == InConflict(b) \cup conflict[b].deferred
  <1>1. \A r \in Records : r \in S <=>
            r \in Carried(b) /\ local[r].source # Carries[b][r]
    <2>1. \A r \in S : r \in Carried(b) /\ local[r].source # Carries[b][r]
      BY AcceptFacts
    <2>2. \A r \in Carried(b) \ S : local[r].source = Carries[b][r]
      BY AcceptFacts
    <2> HIDE DEF S
    <2> QED BY <2>1, <2>2
  <1>2. Carried(b) = Delivery!Carried(b)
    BY DEF Carried, Delivery!Carried
  <1>3. local' = Put(b, S)
    BY AcceptFacts
  <1> HIDE DEF S
  <1> QED BY <1>1, <1>2, <1>3 DEF Put, Delivery!Received

\* The sets of the two specifications, while a bundle is imported.
LEMMA ImportReceives ==
    ASSUME Inv, NEW b \in Bundles
    PROVE  /\ Delivery!Conflicts(b) = Conflicts(b)
           /\ Conflicts(b) = {} => Put(b, Deferred(b)) = Delivery!Received(b)
  <1>1. Carried(b) = Delivery!Carried(b) /\ Absent = Delivery!Absent
    BY DEF Carried, Delivery!Carried, Absent, Delivery!Absent
  <1>2. \A r \in Carried(b) : Carries[b][r] > 0 /\ Carries[b][r] \in Nat
    BY ImportAssumption DEF Carried
  <1>3. \A r \in Deferred(b) : r \in Carried(b) /\ local[r].source # Carries[b][r]
    BY <1>2 DEF Deferred, Absent
  <1>4. Delivery!Conflicts(b) = Conflicts(b)
    BY <1>1, <1>3 DEF Conflicts, Duplicates, Deferred, Delivery!Conflicts
  <1>5. ASSUME Conflicts(b) = {}
        PROVE  \A r \in Records : r \in Deferred(b) <=>
                    r \in Carried(b) /\ local[r].source # Carries[b][r]
    BY <1>3, <1>5 DEF Conflicts, Duplicates
  <1>6. Conflicts(b) = {} => Put(b, Deferred(b)) = Delivery!Received(b)
    BY <1>1, <1>5 DEF Put, Delivery!Received
  <1> QED BY <1>4, <1>6

LEMMA DeliveryStep ==
    ASSUME Inv, [Next]_vars
    PROVE  [Delivery!Next]_Delivery!vars
  <1> DEFINE outcome == [b \in Bundles |-> Outcome(b)]
  <1> USE DEF Inv
  <1>1. CASE ~Commits
    BY <1>1, RecordedUnlessCommit DEF database, Delivery!vars, Outcome
  <1>2. ASSUME NEW c \in Calls, CommitImport(c) PROVE Delivery!Next
    <2> DEFINE b == call[c].bundle
    <2>0. /\ b \in Bundles /\ receipt[b] = "none" /\ outcome[b] = "none"
          /\ receipt \in [Bundles -> {"none", "imported", "conflict"}]
          /\ conflict \in [Bundles -> ConflictRecord]
      BY <1>2, CommitImportFacts DEF Outcome, TypeOK
    <2>1. CASE Conflicts(b) = {}
      <3>1. /\ local' = Put(b, Deferred(b)) /\ conflict' = conflict
            /\ receipt' = [receipt EXCEPT ![b] = "imported"]
        BY <1>2, <2>1 DEF CommitImport
      <3>2. outcome' = [outcome EXCEPT ![b] = "imported"]
        BY <2>0, <3>1 DEF Outcome
      <3> QED BY <2>0, <2>1, <3>1, <3>2, ImportReceives
              DEF Delivery!Next, Delivery!Import
    <2>2. CASE Conflicts(b) # {}
      <3>1. /\ local' = local
            /\ receipt' = [receipt EXCEPT ![b] = "conflict"]
            /\ conflict'[b].state = "needs_review"
            /\ \A a \in Bundles \ {b} : conflict'[a] = conflict[a]
        BY <1>2, <2>0, <2>2 DEF CommitImport
      <3>2. outcome' = [outcome EXCEPT ![b] = "review"]
        BY <2>0, <3>1 DEF Outcome
      <3> QED BY <2>0, <2>2, <3>1, <3>2, ImportReceives
              DEF Delivery!Next, Delivery!HoldForReview
    <2> QED BY <2>1, <2>2
  <1>3. ASSUME NEW c \in Calls, Accept(c) PROVE Delivery!Next
    <2> DEFINE b == call[c].bundle
    <2>1. /\ b \in Bundles
          /\ receipt[b] = "conflict" /\ conflict[b].state = "needs_review"
          /\ receipt' = [receipt EXCEPT ![b] = "imported"]
          /\ \A a \in Bundles \ {b} : conflict'[a] = conflict[a]
      BY <1>3, AcceptFacts
    <2>2. /\ outcome[b] = "review"
          /\ outcome' = [outcome EXCEPT ![b] = "imported"]
      BY <2>1 DEF Outcome, TypeOK
    <2> QED BY <1>3, <2>1, <2>2, AcceptReceives DEF Delivery!Next, Delivery!Accept
  <1>4. ASSUME NEW c \in Calls, KeepLocal(c) PROVE Delivery!Next
    <2> DEFINE b == call[c].bundle
    <2>1. /\ b \in Bundles /\ conflict \in [Bundles -> ConflictRecord]
          /\ conflict[b].state = "needs_review" /\ receipt[b] = "conflict"
      BY <1>4, DecisionFacts DEF KeepLocal, InDecision, StillReviewed, ReceiptsAgree
    <2>2. /\ receipt' = receipt /\ local' = local
          /\ conflict'[b].state = "keep_local"
          /\ \A a \in Bundles \ {b} : conflict'[a] = conflict[a]
      BY <1>4, <2>1 DEF KeepLocal, Resolved, ConflictRecord
    <2>3. outcome[b] = "review" /\ outcome' = [outcome EXCEPT ![b] = "kept"]
      BY <2>1, <2>2 DEF Outcome
    <2> QED BY <2>1, <2>2, <2>3 DEF Delivery!Next, Delivery!KeepLocal
  <1> QED BY <1>1, <1>2, <1>3, <1>4 DEF Commits

\* However calls overlap and fail, each bundle takes effect at most once and
\* as a whole, and one in conflict waits for its reviewer (open_bundle,
\* resolve_conflict).
THEOREM Refinement == Spec => ImplementsDelivery
  <1>1. Init => Delivery!Init
    BY DEF Init, Delivery!Init, Outcome, Absent, Delivery!Absent
  <1>2. Inv /\ [Next]_vars => [Delivery!Next]_Delivery!vars
    BY DeliveryStep
  <1> QED BY <1>1, <1>2, InvAlways, PTL
          DEF Spec, ImplementsDelivery, Delivery!Spec

\* A replica is replaced only by accepting a conflict that recorded exactly the
\* revision that is here (resolve_conflict).
THEOREM ReplacementIsReviewed == Spec => AcceptReplacesRecorded
  <1> DEFINE Replaces ==
        \A r \in Records : local[r] # Absent /\ local'[r] # local[r] =>
            \E b \in Bundles :
                /\ conflict[b].state = "needs_review"
                /\ conflict'[b].state = "accept_incoming"
                /\ conflict[b].snapshot[r] = local[r]
  <1>1. ASSUME Inv, [Next]_vars PROVE Replaces
    <2>1. CASE ~Commits
      BY <1>1, <2>1, RecordedUnlessCommit DEF database
    <2>2. ASSUME NEW c \in Calls, CommitImport(c) PROVE Replaces
      BY <2>2 DEF CommitImport, Put, Deferred
    <2>3. ASSUME NEW c \in Calls, Accept(c) PROVE Replaces
      <3> SUFFICES ASSUME NEW r \in Records, local[r] # Absent,
                          local'[r] # local[r]
                   PROVE  /\ call[c].bundle \in Bundles
                          /\ conflict[call[c].bundle].state = "needs_review"
                          /\ conflict'[call[c].bundle].state = "accept_incoming"
                          /\ conflict[call[c].bundle].snapshot[r] = local[r]
        OBVIOUS
      <3>1. r \in InConflict(call[c].bundle)
        BY <1>1, <2>3, AcceptFacts DEF Put
      <3> QED BY <1>1, <2>3, <3>1, AcceptFacts
    <2>4. ASSUME NEW c \in Calls, KeepLocal(c) PROVE Replaces
      BY <2>4 DEF KeepLocal
    <2> QED BY <2>1, <2>2, <2>3, <2>4 DEF Commits
  <1>2. Inv /\ [Next]_vars => [Replaces]_vars
    BY <1>1
  <1> HIDE DEF Replaces
  <1>3. Spec => [][Replaces]_vars
    BY <1>2, InvAlways, PTL DEF Spec
  <1> QED BY <1>3 DEF AcceptReplacesRecorded, Replaces
-----------------------------------------------------------------------------
(* Committed files.  A file no call found in place too early has at most   *)
(* one holder, whose view of it is right; what records name and what a     *)
(* call is about to commit has none, so no cleanup can reach it.           *)

\* The files a call has created, or found as the ciphertext it needs, and the
\* one it is writing.
Holds(c) ==
    call[c].created \cup (IF call[c].pc = "writing" THEN {call[c].file} ELSE {})

\* The file is complete and no failure of a call can remove it, unless a call
\* found it in place too early.
Settled(f) == f \in shared \/ (disk[f] = "full" /\ \A c \in Calls : f \notin Holds(c))

Unrecorded == \A b \in Bundles : receipt[b] = "none" => conflict[b] = NoConflict

\* What a call has still to do, it has not done; it writes no other ciphertext
\* than its bundle's.
TasksApart ==
    \A c \in Calls : Working(c) =>
        /\ call[c].todo \cap call[c].created = {}
        /\ call[c].todo \cap Bundles \subseteq {call[c].bundle}

HeldOnce ==
    \A c \in Calls : \A f \in Holds(c) \ shared :
        /\ disk[f] = IF f \in call[c].created THEN "full" ELSE "partial"
        /\ \A d \in Calls \ {c} : f \notin Holds(d)

ReferencedSettled == \A f \in Referenced : Settled(f)

\* The call will put the evidence of its bundle in force when it commits.
TakesEvidence(c) ==
    /\ Working(c)
    /\ \/ call[c].op = "import" /\ Conflicts(call[c].bundle) = {}
       \/ call[c].op = "accept_incoming"

EvidenceSupplied ==
    \A c \in Calls : TakesEvidence(c) =>
        \A u \in Evidence(call[c].bundle) \ call[c].todo :
            u \in call[c].created \/ Settled(u)

CiphertextSupplied ==
    \A c \in Calls :
        Working(c) /\ call[c].op = "import" /\ Conflicts(call[c].bundle) # {}
            => call[c].bundle \in call[c].todo \cup call[c].created

FileInv ==
    /\ Unrecorded
    /\ TasksApart
    /\ HeldOnce
    /\ ReferencedSettled
    /\ EvidenceSupplied
    /\ CiphertextSupplied

LEMMA FileInvInit == Init => FileInv
  <1> SUFFICES ASSUME Init PROVE FileInv
    OBVIOUS
  <1>1. \A c \in Calls : ~Working(c) /\ Holds(c) = {}
    BY DEF Init, Idle, Working, Holds
  <1>2. Referenced = {} /\ Unrecorded
    BY ImportAssumption DEF Init, Referenced, Unrecorded
  <1> QED BY <1>1, <1>2 DEF FileInv, TasksApart, HeldOnce, ReferencedSettled,
            TakesEvidence, EvidenceSupplied, CiphertextSupplied

\* A call that stops working forgets files and gives up what it removes.
LEMMA EndFiles ==
    ASSUME Inv, TasksApart, NEW c \in Calls, Ends(c)
    PROVE  /\ shared' = shared
           /\ call'[c].created \subseteq call[c].created
           /\ Holds(c)' = call'[c].created
           /\ \A d \in Calls \ {c} : call'[d] = call[d] /\ Holds(d)' = Holds(d)
           /\ \A f \in Files : disk'[f] # disk[f] => f \in Holds(c) \ Holds(c)'
  <1> USE DEF Inv
  <1>1. Stops(c)
    BY EndStops
  <1>2. /\ Holds(c)' = call'[c].created
        /\ \A d \in Calls \ {c} : call'[d] = call[d] /\ Holds(d)' = Holds(d)
    BY <1>1 DEF Stops, Holds
  <1>3. AfterFailure(c).created \subseteq call[c].created /\ Idle.created = {}
    BY DEF AfterFailure, Idle
  <1>4. ASSUME Raise(c) PROVE call'[c].created \subseteq call[c].created
    BY <1>3, <1>4 DEF Raise, Goes, TypeOK
  <1>5. CASE WriteFails(c)
    <2>1. /\ call[c].pc = "writing" /\ shared' = shared
          /\ \A f \in Files : disk'[f] # disk[f] => f = call[c].file
      BY <1>5 DEF WriteFails, TypeOK
    <2>2. call[c].file \notin call[c].created
      BY <2>1 DEF CallsWork, Working, TasksApart
    <2> QED BY <1>2, <1>4, <1>5, <2>1, <2>2 DEF WriteFails, Holds
  <1>6. CASE \E f \in Files : UnlinkCreated(c, f)
    <2>1. PICK f \in Files : UnlinkCreated(c, f)
      BY <1>6
    <2>2. /\ f \in call[c].created /\ shared' = shared
          /\ disk' = [disk EXCEPT ![f] = "absent"]
          /\ call'[c].created = call[c].created \ {f}
      BY <2>1 DEF UnlinkCreated, TypeOK, CallRecord
    <2> QED BY <1>2, <2>2 DEF Holds, TypeOK
  <1>7. CASE OpenCollides(c) \/ \E f \in Files : RefuseExisting(c, f)
    BY <1>2, <1>4, <1>7 DEF OpenCollides, RefuseExisting
  <1>8. CASE \/ CommitImport(c) \/ ImportFails(c) \/ Accept(c) \/ KeepLocal(c)
             \/ AlreadyResolved(c) \/ ResolveFails(c) \/ CleanedUp(c)
             \/ CleanupFails(c)
    BY <1>2, <1>3, <1>8
    DEF CommitImport, ImportFails, Accept, KeepLocal, AlreadyResolved,
        ResolveFails, CleanedUp, CleanupFails, Goes, TypeOK
  <1>9. CASE ReadReferenced(c)
    BY <1>2, <1>9 DEF ReadReferenced, TypeOK, CallRecord
  <1> QED BY <1>5, <1>6, <1>7, <1>8, <1>9 DEF Ends

\* A call begins: it holds no file yet.
LEMMA BeginFiles ==
    ASSUME Inv, NEW c \in Calls, NEW b \in Bundles,
           \/ BeginImport(c, b)
           \/ \E decision \in {"accept_incoming", "keep_local"} :
                    BeginResolve(c, b, decision)
    PROVE  /\ UNCHANGED <<database, disk, shared>>
           /\ call[c] = Idle
           /\ call'[c].pc = "files" /\ call'[c].bundle = b
           /\ call'[c].created = {}
           /\ call'[c].op = "import" =>
                call'[c].todo = IF Conflicts(b) = {} THEN Evidence(b) ELSE {b}
           /\ call'[c].op = "accept_incoming" => call'[c].todo = Evidence(b)
           /\ call'[c].op = "keep_local" => call'[c].todo = {}
           /\ call'[c].op # "none"
           /\ Holds(c)' = {}
           /\ \A d \in Calls \ {c} : call'[d] = call[d] /\ Holds(d)' = Holds(d)
  <1> USE DEF Inv
  <1>1. CASE BeginImport(c, b)
    <2>1. call' = [call EXCEPT ![c] =
            [Idle EXCEPT !.pc = "files", !.op = "import", !.bundle = b,
                         !.todo = IF Conflicts(b) = {} THEN Evidence(b)
                                                       ELSE {b}]]
      BY <1>1 DEF BeginImport
    <2>2. /\ call'[c].pc = "files" /\ call'[c].bundle = b
          /\ call'[c].created = {} /\ call'[c].op = "import"
          /\ call'[c].todo = IF Conflicts(b) = {} THEN Evidence(b) ELSE {b}
          /\ \A d \in Calls \ {c} : call'[d] = call[d]
      BY <2>1 DEF TypeOK, Idle
    <2> QED BY <1>1, <2>2 DEF BeginImport, Holds
  <1>2. ASSUME NEW decision \in {"accept_incoming", "keep_local"},
               BeginResolve(c, b, decision)
        PROVE  /\ UNCHANGED <<database, disk, shared>>
               /\ call[c] = Idle
               /\ call'[c].pc = "files" /\ call'[c].bundle = b
               /\ call'[c].created = {} /\ call'[c].op = decision
               /\ call'[c].todo = IF decision = "accept_incoming"
                                  THEN Evidence(b) ELSE {}
               /\ \A d \in Calls \ {c} : call'[d] = call[d]
    BY <1>2 DEF BeginResolve, TypeOK, Idle
  <1>3. CASE \E decision \in {"accept_incoming", "keep_local"} :
                    BeginResolve(c, b, decision)
    BY <1>2, <1>3 DEF Holds
  <1> QED BY <1>1, <1>3

\* A working call found a file in place, misses one, opens or completes one.
LEMMA UseExistingFiles ==
    ASSUME Inv, NEW c \in Calls, NEW f \in Files, UseExisting(c, f)
    PROVE  /\ UNCHANGED <<database, disk>>
           /\ disk[f] = "full" /\ f \in call[c].todo
           /\ Working(c) /\ call'[c].pc = "files" /\ call[c].pc = "files"
           /\ call'[c].op = call[c].op /\ call'[c].bundle = call[c].bundle
           /\ call'[c].todo = call[c].todo \ {f}
           /\ call'[c].created = call[c].created \cup ({f} \cap Bundles)
           /\ shared' = IF \E d \in Calls \ {c} : f \in call[d].created
                        THEN shared \cup {f} ELSE shared
           /\ Holds(c)' = Holds(c) \cup ({f} \cap Bundles)
           /\ \A d \in Calls \ {c} : call'[d] = call[d] /\ Holds(d)' = Holds(d)
  BY DEF Inv, UseExisting, TypeOK, CallRecord, Holds, Working

LEMMA MissFileFiles ==
    ASSUME Inv, NEW c \in Calls, NEW f \in Files, MissFile(c, f)
    PROVE  /\ UNCHANGED <<database, disk, shared>>
           /\ Working(c) /\ call'[c].pc = "opening"
           /\ call'[c].op = call[c].op /\ call'[c].bundle = call[c].bundle
           /\ call'[c].todo = call[c].todo /\ call'[c].created = call[c].created
           /\ Holds(c)' = Holds(c)
           /\ \A d \in Calls \ {c} : call'[d] = call[d] /\ Holds(d)' = Holds(d)
  BY DEF Inv, MissFile, TypeOK, CallRecord, Holds, Working

LEMMA OpenFileFiles ==
    ASSUME Inv, NEW c \in Calls, OpenFile(c)
    PROVE  /\ UNCHANGED <<database, shared>>
           /\ call[c].file \in Files /\ call[c].file \in call[c].todo
           /\ disk[call[c].file] = "absent"
           /\ disk'[call[c].file] = "partial"
           /\ \A f \in Files \ {call[c].file} : disk'[f] = disk[f]
           /\ Working(c) /\ call'[c].pc = "writing"
           /\ call'[c].op = call[c].op /\ call'[c].bundle = call[c].bundle
           /\ call'[c].todo = call[c].todo /\ call'[c].created = call[c].created
           /\ Holds(c)' = Holds(c) \cup {call[c].file}
           /\ \A d \in Calls \ {c} : call'[d] = call[d] /\ Holds(d)' = Holds(d)
  <1>1. /\ Working(c) /\ call[c].pc = "opening"
        /\ call[c].file \in Files /\ call[c].file \in call[c].todo
    BY DEF Inv, OpenFile, Working, CallsWork, TypeOK, CallRecord
  <1>2. /\ call'[c] = [call[c] EXCEPT !.pc = "writing"]
        /\ \A d \in Calls \ {c} : call'[d] = call[d]
    BY DEF Inv, OpenFile, TypeOK
  <1>3. call[c] \in CallRecord
    BY DEF Inv, TypeOK
  <1>4. /\ call'[c].pc = "writing" /\ call'[c].file = call[c].file
        /\ call'[c].op = call[c].op /\ call'[c].bundle = call[c].bundle
        /\ call'[c].todo = call[c].todo /\ call'[c].created = call[c].created
    BY <1>2, <1>3 DEF CallRecord
  <1>5. /\ Holds(c)' = Holds(c) \cup {call[c].file}
        /\ \A d \in Calls \ {c} : Holds(d)' = Holds(d)
    BY <1>1, <1>2, <1>4 DEF Holds
  <1> QED BY <1>1, <1>2, <1>4, <1>5 DEF Inv, OpenFile, TypeOK

LEMMA WriteFileFiles ==
    ASSUME Inv, NEW c \in Calls, WriteFile(c)
    PROVE  /\ UNCHANGED <<database, shared>>
           /\ call[c].file \in Files /\ call[c].file \in call[c].todo
           /\ call[c].file \in Holds(c)
           /\ disk'[call[c].file] = "full"
           /\ \A f \in Files \ {call[c].file} : disk'[f] = disk[f]
           /\ Working(c) /\ call'[c].pc = "files"
           /\ call'[c].op = call[c].op /\ call'[c].bundle = call[c].bundle
           /\ call'[c].todo = call[c].todo \ {call[c].file}
           /\ call'[c].created = call[c].created \cup {call[c].file}
           /\ Holds(c)' = Holds(c)
           /\ \A d \in Calls \ {c} : call'[d] = call[d] /\ Holds(d)' = Holds(d)
  <1>1. /\ Working(c) /\ call[c].pc = "writing"
        /\ call[c].file \in Files /\ call[c].file \in call[c].todo
    BY DEF Inv, WriteFile, Working, CallsWork, TypeOK, CallRecord
  <1>2. /\ call'[c] = [call[c] EXCEPT !.pc = "files", !.file = NoFile,
                                      !.todo = @ \ {call[c].file},
                                      !.created = @ \cup {call[c].file}]
        /\ \A d \in Calls \ {c} : call'[d] = call[d]
    BY DEF Inv, WriteFile, TypeOK, CallRecord
  <1>3. call[c] \in CallRecord
    BY DEF Inv, TypeOK
  <1>4. /\ call'[c].pc = "files"
        /\ call'[c].op = call[c].op /\ call'[c].bundle = call[c].bundle
        /\ call'[c].todo = call[c].todo \ {call[c].file}
        /\ call'[c].created = call[c].created \cup {call[c].file}
    BY <1>2, <1>3 DEF CallRecord
  <1>5. /\ Holds(c)' = Holds(c)
        /\ \A d \in Calls \ {c} : Holds(d)' = Holds(d)
    BY <1>1, <1>2, <1>4 DEF Holds
  <1> QED BY <1>1, <1>2, <1>4, <1>5 DEF Inv, WriteFile, TypeOK, Holds
-----------------------------------------------------------------------------
\* The kinds of steps, for the lemmas about files.
Begins(c) ==
    \E b \in Bundles :
        \/ BeginImport(c, b)
        \/ \E decision \in {"accept_incoming", "keep_local"} :
                BeginResolve(c, b, decision)

LEMMA StepKinds ==
    ASSUME [Next]_vars
    PROVE  \/ UNCHANGED vars
           \/ Restart
           \/ \E c \in Calls :
                \/ Begins(c) \/ OpenFile(c) \/ WriteFile(c) \/ Ends(c)
                \/ \E f \in Files : UseExisting(c, f) \/ MissFile(c, f)
  BY DEF Next, Begins, Ends

\* A settled file stays settled, an unreferenced one until the next start.
LEMMA SettledStays ==
    ASSUME Inv, FileInv, [Next]_vars, NEW f \in Files, Settled(f),
           f \in Uploads \cup Referenced, Restart => f \in Referenced
    PROVE  Settled(f)'
  <1> USE DEF FileInv
  <1>1. CASE UNCHANGED vars
    BY <1>1 DEF vars, Settled, Holds
  <1>2. CASE Restart
    <2>1. \A c \in Calls : Holds(c)' = {}
      BY <1>2 DEF Restart, Holds, Idle
    <2> QED BY <1>2, <2>1 DEF Restart, Settled
  <1>3. ASSUME NEW c \in Calls, Begins(c) PROVE Settled(f)'
    <2>1. UNCHANGED <<disk, shared>> /\ \A d \in Calls : Holds(d)' \subseteq Holds(d)
      BY <1>3, BeginFiles DEF Begins
    <2> QED BY <2>1 DEF Settled
  <1>4. ASSUME NEW c \in Calls, OpenFile(c) PROVE Settled(f)'
    BY <1>4, OpenFileFiles DEF Settled
  <1>5. ASSUME NEW c \in Calls, WriteFile(c) PROVE Settled(f)'
    BY <1>5, WriteFileFiles DEF Settled
  <1>6. ASSUME NEW c \in Calls, Ends(c) PROVE Settled(f)'
    BY <1>6, EndFiles DEF Settled, Holds
  <1>7. ASSUME NEW c \in Calls, NEW g \in Files, UseExisting(c, g)
        PROVE  Settled(f)'
    <2>1. shared \subseteq shared' /\ disk' = disk
      BY <1>7, UseExistingFiles
    <2>2. f \notin {g} \cap Bundles
      <3>1. SUFFICES ASSUME f = g, f \in Bundles PROVE FALSE
        OBVIOUS
      <3>2. f \in Referenced /\ f \notin Uploads
        BY <3>1, ImportAssumption
      <3>3. conflict[f] # NoConflict
        BY <3>1, <3>2, ImportAssumption DEF Referenced
      <3>4. f = call[c].bundle /\ call[c].op = "import" /\ Working(c)
        BY <1>7, <3>1, <3>2, UseExistingFiles DEF TasksApart, Inv, CallsWork
      <3> QED BY <3>1, <3>3, <3>4 DEF Inv, ImportIsFirst, Unrecorded
    <2>3. \A d \in Calls : f \in Holds(d)' => f \in Holds(d)
      BY <1>7, <2>2, UseExistingFiles
    <2> QED BY <2>1, <2>3 DEF Settled
  <1>8. ASSUME NEW c \in Calls, NEW g \in Files, MissFile(c, g)
        PROVE  Settled(f)'
    <2>1. UNCHANGED <<disk, shared>> /\ \A d \in Calls : Holds(d)' = Holds(d)
      BY <1>8, MissFileFiles
    <2> QED BY <2>1 DEF Settled
  <1> QED BY <1>1, <1>2, <1>3, <1>4, <1>5, <1>6, <1>7, <1>8, StepKinds

LEMMA HeldOnceStep ==
    ASSUME Inv, FileInv, [Next]_vars
    PROVE  HeldOnce'
  <1> USE DEF FileInv
  <1>1. CASE UNCHANGED vars
    BY <1>1 DEF vars, HeldOnce, Holds
  <1>2. CASE Restart
    <2>1. \A c \in Calls : Holds(c)' = {}
      BY <1>2 DEF Restart, Holds, Idle
    <2> QED BY <2>1 DEF HeldOnce
  <1>3. ASSUME NEW c \in Calls, Begins(c) PROVE HeldOnce'
    <2>1. UNCHANGED <<disk, shared>> /\ Holds(c)' = {}
          /\ \A d \in Calls \ {c} : call'[d] = call[d] /\ Holds(d)' = Holds(d)
      BY <1>3, BeginFiles DEF Begins
    <2> QED BY <2>1 DEF HeldOnce
  <1>4. ASSUME NEW c \in Calls, OpenFile(c) PROVE HeldOnce'
    <2> DEFINE f == call[c].file
    <2>1. f \notin shared => \A d \in Calls : f \notin Holds(d)
      BY <1>4, OpenFileFiles DEF HeldOnce
    <2>2. f \notin call[c].created
      BY <1>4, OpenFileFiles DEF TasksApart
    <2>3. ASSUME NEW d \in Calls, NEW g \in Holds(d)' \ shared'
          PROVE  /\ disk'[g] = IF g \in call'[d].created THEN "full" ELSE "partial"
                 /\ \A e \in Calls \ {d} : g \notin Holds(e)'
      <3>1. CASE g = f
        BY <1>4, <2>1, <2>2, <2>3, <3>1, OpenFileFiles
      <3>2. CASE g # f
        <4>1. /\ g \in Holds(d) \ shared /\ call'[d].created = call[d].created
              /\ \A e \in Calls : g \in Holds(e)' => g \in Holds(e)
          BY <1>4, <2>3, <3>2, OpenFileFiles
        <4>2. g \in Files
          BY <4>1 DEF Inv, TypeOK, CallRecord, CallsWork, Holds
        <4>3. disk'[g] = disk[g]
          BY <1>4, <3>2, <4>2, OpenFileFiles
        <4> QED BY <4>1, <4>3 DEF HeldOnce
      <3> QED BY <3>1, <3>2
    <2> QED BY <2>3 DEF HeldOnce
  <1>5. ASSUME NEW c \in Calls, WriteFile(c) PROVE HeldOnce'
    <2> DEFINE f == call[c].file
    <2>1. ASSUME NEW d \in Calls, NEW g \in Holds(d)' \ shared'
          PROVE  /\ disk'[g] = IF g \in call'[d].created THEN "full" ELSE "partial"
                 /\ \A e \in Calls \ {d} : g \notin Holds(e)'
      <3>1. g \in Holds(d) \ shared /\ \A e \in Calls : Holds(e)' = Holds(e)
        BY <1>5, <2>1, WriteFileFiles
      <3>2. g \in Files
        BY <3>1 DEF Inv, TypeOK, CallRecord, CallsWork, Holds
      <3>3. CASE g = f
        <4>1. d = c
          BY <1>5, <3>1, <3>3, WriteFileFiles DEF HeldOnce
        <4> QED BY <1>5, <3>1, <3>3, <4>1, WriteFileFiles DEF HeldOnce
      <3>4. CASE g # f
        <4>1. disk'[g] = disk[g] /\ (g \in call'[d].created <=> g \in call[d].created)
          BY <1>5, <3>2, <3>4, WriteFileFiles
        <4> QED BY <3>1, <4>1 DEF HeldOnce
      <3> QED BY <3>3, <3>4
    <2> QED BY <2>1 DEF HeldOnce
  <1>6. ASSUME NEW c \in Calls, Ends(c) PROVE HeldOnce'
    <2>1. ASSUME NEW d \in Calls, NEW g \in Holds(d)' \ shared'
          PROVE  /\ disk'[g] = IF g \in call'[d].created THEN "full" ELSE "partial"
                 /\ \A e \in Calls \ {d} : g \notin Holds(e)'
      <3>1. /\ g \in Holds(d) \ shared
            /\ g \in call'[d].created <=> g \in call[d].created
            /\ \A e \in Calls : Holds(e)' \subseteq Holds(e)
        BY <1>6, <2>1, EndFiles DEF Holds
      <3>2. g \in Files
        BY <3>1 DEF Inv, TypeOK, CallRecord, CallsWork, Holds
      <3>3. disk'[g] = disk[g]
        BY <1>6, <2>1, <3>1, <3>2, EndFiles DEF HeldOnce
      <3> QED BY <3>1, <3>3 DEF HeldOnce
    <2> QED BY <2>1 DEF HeldOnce
  <1>7. ASSUME NEW c \in Calls, NEW f \in Files, UseExisting(c, f)
        PROVE  HeldOnce'
    <2>1. ASSUME NEW d \in Calls, NEW g \in Holds(d)' \ shared'
          PROVE  /\ disk'[g] = IF g \in call'[d].created THEN "full" ELSE "partial"
                 /\ \A e \in Calls \ {d} : g \notin Holds(e)'
      <3>1. disk' = disk /\ shared \subseteq shared'
        BY <1>7, UseExistingFiles
      \* Nobody else holds the ciphertext, or it is shared now.
      <3>2. CASE g \in {f} \cap Bundles
        <4>1. \A e \in Calls \ {c} : g \notin call[e].created
          BY <1>7, <2>1, <3>2, UseExistingFiles
        <4>2. \A e \in Calls \ {c} : g \notin Holds(e)
          BY <1>7, <2>1, <3>1, <3>2, <4>1, UseExistingFiles DEF HeldOnce
        <4>3. d = c
          BY <1>7, <2>1, <4>2, UseExistingFiles
        <4> QED BY <1>7, <3>1, <3>2, <4>2, <4>3, UseExistingFiles
      <3>3. CASE g \notin {f} \cap Bundles
        <4>1. /\ g \in Holds(d) \ shared
              /\ g \in call'[d].created <=> g \in call[d].created
              /\ \A e \in Calls : g \in Holds(e)' => g \in Holds(e)
          BY <1>7, <2>1, <3>1, <3>3, UseExistingFiles
        <4> QED BY <3>1, <4>1 DEF HeldOnce
      <3> QED BY <3>2, <3>3
    <2> QED BY <2>1 DEF HeldOnce
  <1>8. ASSUME NEW c \in Calls, NEW f \in Files, MissFile(c, f)
        PROVE  HeldOnce'
    <2>1. /\ UNCHANGED <<disk, shared>>
          /\ \A d \in Calls : Holds(d)' = Holds(d) /\ call'[d].created = call[d].created
      BY <1>8, MissFileFiles
    <2> QED BY <2>1 DEF HeldOnce
  <1> QED BY <1>1, <1>2, <1>3, <1>4, <1>5, <1>6, <1>7, <1>8, StepKinds
-----------------------------------------------------------------------------
\* The call was at work before: it has done some of its files.
Continues(c) ==
    /\ Working(c)
    /\ call'[c].op = call[c].op /\ call'[c].bundle = call[c].bundle
    /\ call'[c].todo \subseteq call[c].todo
    /\ call[c].created \subseteq call'[c].created
    /\ call'[c].created \subseteq
            call[c].created \cup (call[c].todo \ call'[c].todo)
    /\ \A f \in call[c].todo \ call'[c].todo :
            f \in call'[c].created \/ (f \in Files /\ UseExisting(c, f))

LEMMA WorkingBefore ==
    ASSUME Inv, [Next]_vars, NEW c \in Calls, Working(c)'
    PROVE  Begins(c) \/ Continues(c)
  <1>1. CASE call'[c] = call[c]
    BY <1>1 DEF Continues, Working
  <1>2. CASE UNCHANGED vars
    BY <1>1, <1>2 DEF vars
  <1>3. CASE Restart
    BY <1>3 DEF Restart, Working, Idle
  <1>4. ASSUME NEW d \in Calls, Begins(d) PROVE Begins(c) \/ Continues(c)
    <2>1. \A e \in Calls \ {d} : call'[e] = call[e]
      BY <1>4, BeginFiles DEF Begins
    <2> QED BY <1>1, <1>4, <2>1
  <1>5. ASSUME NEW d \in Calls, OpenFile(d) PROVE Begins(c) \/ Continues(c)
    BY <1>1, <1>5, OpenFileFiles DEF Continues
  <1>6. ASSUME NEW d \in Calls, WriteFile(d) PROVE Begins(c) \/ Continues(c)
    BY <1>1, <1>6, WriteFileFiles DEF Continues
  <1>7. ASSUME NEW d \in Calls, Ends(d) PROVE Begins(c) \/ Continues(c)
    BY <1>1, <1>7, EndStops DEF Stops, Working, Inv
  <1>8. ASSUME NEW d \in Calls, NEW f \in Files, UseExisting(d, f)
        PROVE  Begins(c) \/ Continues(c)
    BY <1>1, <1>8, UseExistingFiles DEF Continues
  <1>9. ASSUME NEW d \in Calls, NEW f \in Files, MissFile(d, f)
        PROVE  Begins(c) \/ Continues(c)
    BY <1>1, <1>9, MissFileFiles DEF Continues
  <1> QED BY <1>2, <1>3, <1>4, <1>5, <1>6, <1>7, <1>8, <1>9, StepKinds

\* While an import works, it holds the lock and no record changes.
LEMMA ImportSeesLocal ==
    ASSUME Inv, [Next]_vars, NEW c \in Calls, Working(c)',
           call'[c].op = "import"
    PROVE  UNCHANGED database
  <1>1. c \in holder'
    BY TypeStep DEF TypeOK, Working
  <1>2. ASSUME NEW d \in Calls, CommitImport(d) \/ Accept(d) \/ KeepLocal(d)
        PROVE  holder' = {}
    BY <1>2, CommitImportFacts DEF CommitImport, Accept, KeepLocal, InDecision, Goes
  <1> QED BY <1>1, <1>2, RecordedUnlessCommit DEF Commits

LEMMA TasksApartStep ==
    ASSUME Inv, FileInv, [Next]_vars
    PROVE  TasksApart'
  <1> SUFFICES ASSUME NEW c \in Calls, Working(c)'
               PROVE  /\ call'[c].todo \cap call'[c].created = {}
                      /\ call'[c].todo \cap Bundles \subseteq {call'[c].bundle}
    BY DEF TasksApart
  <1>1. CASE Begins(c)
    <2>1. PICK b \in Bundles :
                \/ BeginImport(c, b)
                \/ \E decision \in {"accept_incoming", "keep_local"} :
                        BeginResolve(c, b, decision)
      BY <1>1 DEF Begins
    <2>2. Evidence(b) \cap Bundles = {}
      BY ImportAssumption DEF Evidence
    <2>3. call'[c].op \in {"import", "accept_incoming", "keep_local"}
      <3>1. call'[c] \in CallRecord
        BY TypeStep DEF TypeOK
      <3>2. call'[c].op # "none"
        BY <2>1, BeginFiles
      <3> QED BY <3>1, <3>2 DEF CallRecord
    <2>4. call'[c].created = {} /\ call'[c].todo \in {Evidence(b), {b}, {}}
          /\ call'[c].bundle = b
      BY <2>1, <2>3, BeginFiles
    <2> QED BY <2>2, <2>4
  <1>2. CASE Continues(c)
    BY <1>2 DEF Continues, FileInv, TasksApart
  <1> QED BY <1>1, <1>2, WorkingBefore

LEMMA EvidenceSuppliedStep ==
    ASSUME Inv, FileInv, [Next]_vars
    PROVE  EvidenceSupplied'
  <1> SUFFICES ASSUME NEW c \in Calls, TakesEvidence(c)',
                      NEW u \in Evidence(call'[c].bundle) \ call'[c].todo
               PROVE  u \in call'[c].created \/ Settled(u)'
    BY DEF EvidenceSupplied, Evidence, Carried
  <1>0. u \in Uploads /\ u \in Files /\ u \notin Bundles
    BY ImportAssumption DEF Evidence, Files
  <1>1. Working(c)' /\ ~Restart
    <2>1. Working(c)'
      BY DEF TakesEvidence
    <2>2. call'[c].pc # "idle"
      BY <2>1 DEF Working
    <2>3. Restart => call'[c].pc = "idle"
      BY DEF Restart, Idle
    <2> QED BY <2>1, <2>2, <2>3
  <1>2. call'[c].op = "import" => UNCHANGED database
    BY <1>1, ImportSeesLocal
  <1>3. ASSUME call'[c].op = "import"
        PROVE  Conflicts(call'[c].bundle) = {}
    BY <1>2, <1>3 DEF TakesEvidence, database, Conflicts, Duplicates, Deferred
  <1>4. ASSUME NEW b \in Bundles,
               \/ BeginImport(c, b)
               \/ \E decision \in {"accept_incoming", "keep_local"} :
                        BeginResolve(c, b, decision)
        PROVE  FALSE
    <2>1. call'[c].op \in {"import", "accept_incoming"}
      BY DEF TakesEvidence
    <2>2. call'[c].bundle = b
      BY <1>4, BeginFiles
    <2>3. call'[c].todo = Evidence(b)
      BY <1>3, <1>4, <2>1, <2>2, BeginFiles
    <2> QED BY <2>2, <2>3
  <1>5. CASE Continues(c)
    <2>1. TakesEvidence(c) /\ u \in Evidence(call[c].bundle)
      BY <1>3, <1>5 DEF TakesEvidence, Continues
    <2>2. CASE u \notin call[c].todo
      <3>1. u \in call[c].created \/ Settled(u)
        BY <2>1, <2>2 DEF FileInv, EvidenceSupplied
      <3> QED BY <1>0, <1>1, <1>5, <3>1, SettledStays DEF Continues
    <2>3. CASE UseExisting(c, u)
      <3>1. u \notin Holds(c)'
        BY <1>0, <2>3, UseExistingFiles DEF FileInv, TasksApart, Holds
      <3>2. ASSUME u \notin shared'
            PROVE  disk'[u] = "full" /\ \A d \in Calls \ {c} : u \notin Holds(d)'
        BY <1>0, <2>3, <3>2, UseExistingFiles DEF FileInv, HeldOnce
      <3> QED BY <3>1, <3>2 DEF Settled
    <2> QED BY <1>5, <2>2, <2>3 DEF Continues
  <1> QED BY <1>1, <1>4, <1>5, WorkingBefore DEF Begins

LEMMA CiphertextSuppliedStep ==
    ASSUME Inv, FileInv, [Next]_vars
    PROVE  CiphertextSupplied'
  <1> SUFFICES ASSUME NEW c \in Calls, Working(c)', call'[c].op = "import",
                      Conflicts(call[c].bundle)' # {}
               PROVE  call'[c].bundle \in call'[c].todo \cup call'[c].created
    BY DEF CiphertextSupplied
  <1>1. Conflicts(call'[c].bundle) # {}
    BY ImportSeesLocal DEF database, Conflicts, Duplicates, Deferred, Carried
  <1>2. ASSUME NEW b \in Bundles,
               \/ BeginImport(c, b)
               \/ \E decision \in {"accept_incoming", "keep_local"} :
                        BeginResolve(c, b, decision)
        PROVE  call'[c].bundle \in call'[c].todo
    <2>1. call'[c].bundle = b
      BY <1>2, BeginFiles
    <2>2. call'[c].todo = {b}
      BY <1>1, <1>2, <2>1, BeginFiles
    <2> QED BY <2>1, <2>2
  <1>3. CASE Continues(c)
    <2>1. /\ call[c].bundle = call'[c].bundle /\ call[c].bundle \in Bundles
          /\ call[c].bundle \in call[c].todo \cup call[c].created
      BY <1>1, <1>3 DEF Continues, FileInv, CiphertextSupplied, Inv, CallsWork
    <2>2. CASE UseExisting(c, call[c].bundle)
      BY <2>1, <2>2, UseExistingFiles DEF Files
    <2> QED BY <1>3, <2>1, <2>2 DEF Continues
  <1> QED BY <1>2, <1>3, WorkingBefore DEF Begins
-----------------------------------------------------------------------------
LEMMA UnrecordedStep ==
    ASSUME Inv, FileInv, [Next]_vars
    PROVE  Unrecorded'
  <1> USE DEF FileInv
  <1>1. CASE ~Commits
    BY <1>1, RecordedUnlessCommit DEF database, Unrecorded
  <1>2. ASSUME NEW c \in Calls, CommitImport(c) PROVE Unrecorded'
    <2>1. /\ call[c].bundle \in Bundles
          /\ receipt'[call[c].bundle] # "none"
          /\ \A b \in Bundles \ {call[c].bundle} :
                receipt'[b] = receipt[b] /\ conflict'[b] = conflict[b]
      BY <1>2, CommitImportFacts DEF CommitImport, Inv, TypeOK
    <2> QED BY <2>1 DEF Unrecorded
  <1>3. ASSUME NEW c \in Calls, Accept(c) PROVE Unrecorded'
    <2> DEFINE b == call[c].bundle
    <2>1. /\ b \in Bundles
          /\ receipt' = [receipt EXCEPT ![b] = "imported"]
          /\ \A a \in Bundles \ {b} : conflict'[a] = conflict[a]
      BY <1>3, AcceptFacts
    <2>2. receipt'[b] # "none" /\ \A a \in Bundles \ {b} : receipt'[a] = receipt[a]
      BY <2>1 DEF Inv, TypeOK
    <2> QED BY <2>1, <2>2 DEF Unrecorded
  <1>4. ASSUME NEW c \in Calls, KeepLocal(c) PROVE Unrecorded'
    <2>1. /\ call[c].bundle \in Bundles
          /\ receipt[call[c].bundle] = "conflict" /\ receipt' = receipt
          /\ \A b \in Bundles \ {call[c].bundle} : conflict'[b] = conflict[b]
      BY <1>4, DecisionFacts
      DEF KeepLocal, InDecision, StillReviewed, Resolved, Inv, ReceiptsAgree
    <2> QED BY <2>1 DEF Unrecorded
  <1> QED BY <1>1, <1>2, <1>3, <1>4 DEF Commits

\* A call that commits lets go of its files, and nobody else holds them.
LEMMA CommitReleases ==
    ASSUME Inv, FileInv, NEW c \in Calls, CommitImport(c) \/ Accept(c),
           NEW f \in call[c].created
    PROVE  Settled(f)'
  <1> USE DEF FileInv
  <1>1. f \in Files /\ f \in Holds(c) /\ Ends(c)
    BY DEF Ends, Holds, Inv, TypeOK, CallRecord
  <1>2. call'[c].created = {}
    BY DEF CommitImport, Accept, Goes, Idle, Inv, TypeOK
  <1>3. /\ shared' = shared /\ disk' = disk /\ Holds(c)' = {}
        /\ \A d \in Calls \ {c} : Holds(d)' = Holds(d)
    BY <1>1, <1>2, EndFiles DEF CommitImport, Accept
  <1> QED BY <1>1, <1>3 DEF Settled, HeldOnce

LEMMA ReferencedSettledStep ==
    ASSUME Inv, FileInv, [Next]_vars
    PROVE  ReferencedSettled'
  <1> SUFFICES ASSUME NEW f \in Referenced' PROVE Settled(f)'
    BY DEF ReferencedSettled
  <1>1. f \in Files
    BY DEF Referenced, Files
  <1>2. CASE f \in Referenced
    BY <1>1, <1>2, SettledStays DEF FileInv, ReferencedSettled
  <1>3. ASSUME NEW c \in Calls, TakesEvidence(c), call[c].todo = {},
               CommitImport(c) \/ Accept(c), ~Restart,
               f \in Evidence(call[c].bundle)
        PROVE  Settled(f)'
    <2>1. f \in call[c].created \/ Settled(f)
      BY <1>3 DEF FileInv, EvidenceSupplied
    <2>2. f \in Uploads
      BY <1>3 DEF Evidence
    <2> QED BY <1>1, <1>3, <2>1, <2>2, SettledStays, CommitReleases
  <1>4. ASSUME NEW c \in Calls, CommitImport(c), f \notin Referenced, ~Restart
        PROVE  Settled(f)'
    <2> DEFINE b == call[c].bundle
    <2>1. b \in Bundles /\ Working(c) /\ call[c].todo = {} /\ call[c].op = "import"
      BY <1>4, CommitImportFacts DEF CommitImport, Ready, Working
    <2>2. CASE Conflicts(b) = {}
      <3>1. local' = Put(b, Deferred(b)) /\ conflict' = conflict
        BY <1>4, <2>2 DEF CommitImport
      <3>2. f \in Evidence(b)
        BY <1>4, <3>1, ImportAssumption DEF Referenced, Put, Deferred, Evidence
      <3> QED BY <1>3, <1>4, <2>1, <2>2, <3>2 DEF TakesEvidence
    <2>3. CASE Conflicts(b) # {}
      <3>1. /\ local' = local
            /\ \A a \in Bundles \ {b} : conflict'[a] = conflict[a]
        BY <1>4, <2>1, <2>3 DEF CommitImport, Inv, TypeOK
      <3>2. f = b
        BY <1>4, <3>1 DEF Referenced
      <3>3. b \in call[c].created
        BY <2>1, <2>3 DEF FileInv, CiphertextSupplied
      <3> QED BY <1>4, <3>2, <3>3, CommitReleases
    <2> QED BY <2>2, <2>3
  <1>5. ASSUME NEW c \in Calls, Accept(c), f \notin Referenced, ~Restart
        PROVE  Settled(f)'
    <2> DEFINE b == call[c].bundle
               S == InConflict(b) \cup conflict[b].deferred
    <2>1. TakesEvidence(c) /\ call[c].todo = {}
      BY <1>5 DEF Accept, InDecision, Ready, TakesEvidence, Working
    <2>2. /\ b \in Bundles /\ conflict[b].state = "needs_review"
          /\ \A a \in Bundles \ {b} : conflict'[a] = conflict[a]
          /\ local' = Put(b, S)
          /\ \A r \in S : r \in Carried(b)
      BY <1>5, AcceptFacts
    <2>3. conflict[b] # NoConflict
      BY <2>2 DEF NoConflict
    <2>4. f \in Evidence(b)
      <3> HIDE DEF S
      <3> QED BY <1>5, <2>2, <2>3, ImportAssumption DEF Referenced, Put, Evidence
    <2> QED BY <1>3, <1>5, <2>1, <2>4
  <1>6. ASSUME NEW c \in Calls, KeepLocal(c) PROVE f \in Referenced
    <2>1. /\ local' = local /\ conflict[call[c].bundle] # NoConflict
          /\ call[c].bundle \in Bundles
          /\ \A a \in Bundles \ {call[c].bundle} : conflict'[a] = conflict[a]
      BY <1>6, DecisionFacts
      DEF KeepLocal, InDecision, StillReviewed, Resolved, NoConflict
    <2> QED BY <2>1 DEF Referenced
  <1>7. CASE ~Commits
    <2>1. Referenced' = Referenced
      BY <1>7, RecordedUnlessCommit DEF database, Referenced
    <2> QED BY <1>2, <2>1
  <1>8. CASE Restart
    <2>1. Referenced' = Referenced
      BY <1>8 DEF Restart, database, Referenced
    <2> QED BY <1>2, <2>1
  <1> QED BY <1>2, <1>4, <1>5, <1>6, <1>7, <1>8 DEF Commits

LEMMA FileInvStep == Inv /\ FileInv /\ [Next]_vars => FileInv'
  BY UnrecordedStep, TasksApartStep, HeldOnceStep, ReferencedSettledStep,
     EvidenceSuppliedStep, CiphertextSuppliedStep
  DEF FileInv

\* However calls overlap, fail and are cut short, what committed records name
\* is complete on disk, unless a call found it in place before the one that
\* wrote it had committed (_persist_artifact, preserve_conflict_bundle and the
\* cleanup of both).
THEOREM LossNeedsSharing == Spec => []LostOnlyIfShared
  <1>1. FileInv => LostOnlyIfShared
    BY DEF FileInv, ReferencedSettled, Settled, LostOnlyIfShared
  <1> QED BY <1>1, FileInvInit, FileInvStep, InvAlways, PTL DEF Spec
=============================================================================
