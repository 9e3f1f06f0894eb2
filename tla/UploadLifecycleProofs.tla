------------------------ MODULE UploadLifecycleProofs ------------------------
(***************************************************************************)
(* For any number of uploads, users and revisions: a mark has one owner,   *)
(* a merge is final and was reviewed, evidence is kept once and in place.  *)
(***************************************************************************)
EXTENDS UploadLifecycle, TLAPS

\* An upload whose request has not ended has no record, and its file is there
\* once it is written.
RequestsPrecede ==
    \A u \in Uploads :
        /\ request[u] # "ended" => ~Exists(u)
        /\ request[u] = "written" => artifact[u] = "full"

\* A request that read a record can mark it only if it was not marked or
\* merged meanwhile: each of these takes a revision.
ReadsAreDated ==
    \A p \in Parsers :
        /\ parse[p].pc # "idle" => parse[p].upload \in Uploads /\ Exists(parse[p].upload)
        /\ parse[p].pc = "read" =>
                /\ parse[p].revision <= upload[parse[p].upload].revision
                /\ upload[parse[p].upload].revision = parse[p].revision =>
                        upload[parse[p].upload].status \notin {"merged", "parsing"}

\* The mark "parsing" belongs to one request: while it runs, the record is
\* marked and nobody has written over the mark (parse_upload re-reads it
\* under the lock "to prevent two parser dispatches").
MarkHasOneOwner ==
    \A p \in Parsers : parse[p].pc = "running" =>
        /\ upload[parse[p].upload].status = "parsing"
        /\ upload[parse[p].upload].revision = parse[p].revision
        /\ \A q \in Parsers : q # p /\ parse[q].pc = "running" =>
                parse[q].upload # parse[p].upload

\* What the status says of the last result stays true through failed and
\* repeated parses, approvals and restarts: what waits for a merge, or is
\* merged, was not quarantined (parse_upload, create_app).
StatusTellsResult ==
    \A u \in Uploads : Exists(u) =>
        /\ upload[u].status \in {"preview", "merged"} =>
                /\ preview[u] # NoPreview
                /\ preview[u].result # "quarantined"
        /\ upload[u].status = "quarantined" =>
                preview[u] # NoPreview /\ preview[u].result = "quarantined"

Inv ==
    /\ TypeOK
    /\ RequestsPrecede
    /\ RecordHasArtifact
    /\ ReadsAreDated
    /\ MarkHasOneOwner
    /\ StatusTellsResult
    /\ EvidenceOnce

\* The part of the invariant about records, files and contents, and the part
\* about records, parses and previews.
Files == RequestsPrecede /\ RecordHasArtifact /\ EvidenceOnce
Parses == ReadsAreDated /\ MarkHasOneOwner /\ StatusTellsResult
-----------------------------------------------------------------------------
LEMMA RecordIsNotNone ==
    /\ \A r \in UploadRecord : r # NoUpload
    /\ \A r \in PreviewRecord : r # NoPreview
  BY LifecycleAssumption

LEMMA InvInit == Init => Inv
  <1> SUFFICES ASSUME Init PROVE Inv
    OBVIOUS
  <1>1. \A u \in Uploads : ~Exists(u)
    BY DEF Init, Exists
  <1>2. \A p \in Parsers : parse[p].pc = "idle"
    BY DEF Init, IdleParse
  <1>3. TypeOK
    BY DEF Init, TypeOK, IdleParse, Unseen, Uploading
  <1> QED BY <1>1, <1>2, <1>3
          DEF Init, Inv, RequestsPrecede, RecordHasArtifact, ReadsAreDated,
              MarkHasOneOwner, StatusTellsResult, EvidenceOnce

\* One revision of one record.
LEMMA PutFacts ==
    ASSUME TypeOK, NEW u \in Uploads, Exists(u), NEW status \in Statuses,
           Put(u, status)
    PROVE  /\ upload' \in [Uploads -> UploadRecord \cup {NoUpload}]
           /\ upload'[u].status = status
           /\ upload[u].revision \in Nat
           /\ upload'[u].revision = upload[u].revision + 1
           /\ \A w \in Uploads \ {u} : upload'[w] = upload[w]
           /\ \A w \in Uploads : Exists(w)' <=> Exists(w)
  <1> DEFINE t == [status |-> status, revision |-> upload[u].revision + 1]
  <1>1. upload[u] \in UploadRecord
    BY DEF TypeOK, Exists
  <1>2. t \in UploadRecord /\ upload[u].revision \in Nat
    BY <1>1 DEF UploadRecord
  <1>3. upload' = [upload EXCEPT ![u] = t]
    BY DEF Put
  <1>4. t # NoUpload
    BY <1>2, RecordIsNotNone
  <1> QED BY <1>2, <1>3, <1>4 DEF TypeOK, Exists

\* What a step does not touch.
LEMMA FilesKept ==
    ASSUME Inv, UNCHANGED uploading,
           \A w \in Uploads : Exists(w)' => Exists(w)
    PROVE  Files'
  BY DEF Inv, Files, uploading, RequestsPrecede, RecordHasArtifact, EvidenceOnce,
         Restricted

LEMMA ParsesKept ==
    ASSUME Inv, UNCHANGED <<preview, parse>>,
           \A w \in Uploads : Exists(w) => upload'[w] = upload[w],
           \A w \in Uploads : ~Exists(w) =>
                upload'[w] = upload[w] \/ upload'[w].status = "uploaded"
    PROVE  Parses'
  <1>1. \A w \in Uploads : Exists(w) => Exists(w)'
    BY DEF Exists
  <1>2. ReadsAreDated'
    BY <1>1 DEF Inv, ReadsAreDated
  <1>3. \A p \in Parsers : parse[p].pc = "running" =>
            parse[p].upload \in Uploads /\ Exists(parse[p].upload)
    BY DEF Inv, ReadsAreDated
  <1>4. MarkHasOneOwner'
    BY <1>3 DEF Inv, MarkHasOneOwner
  <1>5. StatusTellsResult'
    BY DEF Inv, StatusTellsResult, Exists
  <1> QED BY <1>2, <1>4, <1>5 DEF Parses
-----------------------------------------------------------------------------
(* Upload requests.                                                        *)

\* A request goes on, or ends without a record.
LEMMA RequestStep ==
    ASSUME Inv, NEW u \in Uploads, request[u] # "ended",
           UNCHANGED <<content, upload, preview, parse, seen, source>>,
           admitted' \subseteq Envelopes,
           NEW r \in {"writing", "written", "ended"},
           NEW a \in {"absent", "partial", "full"},
           request' = [request EXCEPT ![u] = r],
           artifact' = [artifact EXCEPT ![u] = a],
           r = "written" => a = "full",
           \/ slot' = IF r = "ended" /\ slot = u THEN NoUpload ELSE slot
           \/ slot' = u /\ r # "ended"
    PROVE  Inv'
  <1>1. /\ request'[u] = r /\ artifact'[u] = a
        /\ \A w \in Uploads \ {u} :
                request'[w] = request[w] /\ artifact'[w] = artifact[w]
    BY DEF Inv, TypeOK
  <1>2. ~Exists(u)
    BY DEF Inv, RequestsPrecede
  <1>3. \A w \in Uploads : Exists(w)' <=> Exists(w)
    BY DEF Exists
  <1>4. TypeOK'
    <2>1. /\ slot' \in Uploads \cup {NoUpload}
          /\ slot' # NoUpload => Uploading(slot)'
      BY <1>1 DEF Inv, TypeOK, Uploading
    <2>2. /\ request' \in [Uploads -> {"none", "writing", "written", "ended"}]
          /\ artifact' \in [Uploads -> {"absent", "partial", "full"}]
      BY DEF Inv, TypeOK
    <2> QED BY <2>1, <2>2 DEF Inv, TypeOK
  <1>5. RequestsPrecede' /\ RecordHasArtifact'
    BY <1>1, <1>2, <1>3 DEF Inv, RequestsPrecede, RecordHasArtifact
  <1>6. EvidenceOnce'
    BY <1>3 DEF Inv, EvidenceOnce, Restricted
  <1>7. Parses'
    BY ParsesKept
  <1> QED BY <1>4, <1>5, <1>6, <1>7 DEF Inv, Parses

LEMMA SaveStep ==
    ASSUME Inv, NEW u \in Uploads, SaveUpload(u)
    PROVE  Inv'
  <1> DEFINE t == [status |-> "uploaded", revision |-> 1]
  <1>1. /\ upload' = [upload EXCEPT ![u] = t]
        /\ request' = [request EXCEPT ![u] = "ended"]
        /\ slot' = IF slot = u THEN NoUpload ELSE slot
        /\ request[u] = "written"
        /\ UNCHANGED <<content, artifact, preview, parse, seen, source>>
        /\ admitted' \subseteq Envelopes
    BY DEF SaveUpload, End, Inv, TypeOK
  <1>2. t \in UploadRecord /\ t # NoUpload /\ t.status = "uploaded"
    BY RecordIsNotNone DEF UploadRecord, Statuses
  <1>3. ~Exists(u) /\ artifact[u] = "full"
    BY <1>1 DEF Inv, RequestsPrecede
  <1> HIDE DEF t
  <1>4. /\ upload'[u] = t /\ request'[u] = "ended"
        /\ \A w \in Uploads \ {u} :
                upload'[w] = upload[w] /\ request'[w] = request[w]
    BY <1>1 DEF Inv, TypeOK
  <1>5. /\ Exists(u)'
        /\ \A w \in Uploads \ {u} : Exists(w)' <=> Exists(w)
    BY <1>2, <1>4 DEF Exists
  <1>6. TypeOK'
    <2>1. /\ slot' \in Uploads \cup {NoUpload}
          /\ slot' # NoUpload => Uploading(slot)'
      BY <1>1, <1>4 DEF Inv, TypeOK, Uploading
    <2>2. /\ request' \in [Uploads -> {"none", "writing", "written", "ended"}]
          /\ upload' \in [Uploads -> UploadRecord \cup {NoUpload}]
      BY <1>1, <1>2 DEF Inv, TypeOK
    <2> QED BY <1>1, <2>1, <2>2 DEF Inv, TypeOK
  <1>7. RequestsPrecede' /\ RecordHasArtifact'
    BY <1>1, <1>3, <1>4, <1>5 DEF Inv, RequestsPrecede, RecordHasArtifact
  \* The two lookups found neither the content nor an identifier.
  <1>8. EvidenceOnce'
    <2>1. \A w \in Uploads \ {u} : Exists(w) => content[w] # content[u]
      BY DEF SaveUpload, AlreadyHere
    <2>2. ASSUME NEW w \in Uploads, Exists(w), Restricted(w), Restricted(u)
          PROVE  /\ content[w].envelope # content[u].envelope
                 /\ content[w].observation # content[u].observation
      <3>1. content[w] \in Indexed
        BY <2>2 DEF Indexed
      <3>2. SameEnvelope(content[u]) = {} /\ SameObservation(content[u]) = {}
        BY <2>2 DEF SaveUpload, Replayed, Restricted
      <3> QED BY <3>1, <3>2 DEF SameEnvelope, SameObservation
    <2> QED BY <1>1, <1>5, <2>1, <2>2 DEF Inv, EvidenceOnce, Restricted
  <1>9. Parses'
    BY <1>1, <1>2, <1>3, <1>4, ParsesKept
  <1> QED BY <1>6, <1>7, <1>8, <1>9 DEF Inv, Parses
-----------------------------------------------------------------------------
(* Parses, reviews and restarts.                                           *)

\* The facts about one parse request and its record.
LEMMA RunningFacts ==
    ASSUME Inv, NEW p \in Parsers, parse[p].pc = "running"
    PROVE  /\ parse[p].upload \in Uploads
           /\ Exists(parse[p].upload)
           /\ upload[parse[p].upload].status = "parsing"
           /\ upload[parse[p].upload].revision = parse[p].revision
  BY DEF Inv, ReadsAreDated, MarkHasOneOwner

LEMMA ReadForParseStep ==
    ASSUME Inv, NEW p \in Parsers, NEW u \in Uploads, ReadForParse(p, u)
    PROVE  Inv'
  <1>1. upload[u].revision \in Nat
    BY DEF ReadForParse, Inv, TypeOK, Exists, UploadRecord
  <1>2. /\ parse'[p] = [pc |-> "read", upload |-> u, revision |-> upload[u].revision]
        /\ \A q \in Parsers \ {p} : parse'[q] = parse[q]
        /\ UNCHANGED <<uploading, upload, preview, seen, source, admitted>>
    BY DEF ReadForParse, Inv, TypeOK
  <1>3. TypeOK'
    BY <1>1 DEF ReadForParse, Inv, TypeOK, uploading, Uploading
  <1>4. ReadsAreDated'
    BY <1>1, <1>2 DEF ReadForParse, Inv, ReadsAreDated, Exists
  <1>5. MarkHasOneOwner' /\ StatusTellsResult'
    BY <1>2 DEF Inv, MarkHasOneOwner, StatusTellsResult, Exists
  <1>6. Files'
    BY <1>2, FilesKept DEF Exists
  <1> QED BY <1>3, <1>4, <1>5, <1>6 DEF Inv, Files

LEMMA RefuseParseStep ==
    ASSUME Inv, NEW p \in Parsers, RefuseParse(p)
    PROVE  Inv'
  <1>1. /\ parse'[p] = IdleParse
        /\ \A q \in Parsers \ {p} : parse'[q] = parse[q]
        /\ UNCHANGED <<uploading, upload, preview, seen, source, admitted>>
    BY DEF RefuseParse, Inv, TypeOK
  <1>2. TypeOK'
    BY DEF RefuseParse, Inv, TypeOK, uploading, Uploading, IdleParse
  <1>3. Parses'
    BY <1>1 DEF Parses, Inv, ReadsAreDated, MarkHasOneOwner, StatusTellsResult,
                Exists, IdleParse
  <1>4. Files'
    BY <1>1, FilesKept DEF Exists
  <1> QED BY <1>2, <1>3, <1>4 DEF Inv, Files, Parses

LEMMA BeginParseStep ==
    ASSUME Inv, NEW p \in Parsers, BeginParse(p)
    PROVE  Inv'
  <1> DEFINE u == parse[p].upload
  <1>1. /\ u \in Uploads /\ Exists(u)
        /\ upload[u].revision = parse[p].revision
        /\ upload[u].status \notin {"merged", "parsing"}
    BY DEF BeginParse, Inv, ReadsAreDated
  <1>2. /\ upload' \in [Uploads -> UploadRecord \cup {NoUpload}]
        /\ upload'[u].status = "parsing"
        /\ upload[u].revision \in Nat
        /\ upload'[u].revision = upload[u].revision + 1
        /\ \A w \in Uploads \ {u} : upload'[w] = upload[w]
        /\ \A w \in Uploads : Exists(w)' <=> Exists(w)
    BY <1>1, PutFacts DEF BeginParse, Inv, Statuses
  <1>3. /\ parse'[p].pc = "running" /\ parse'[p].upload = u
        /\ parse'[p].revision = upload[u].revision + 1
        /\ \A q \in Parsers \ {p} : parse'[q] = parse[q]
        /\ UNCHANGED <<uploading, preview, seen, source, admitted>>
    BY DEF BeginParse, Inv, TypeOK
  <1>4. TypeOK'
    <2>1. parse' \in [Parsers -> [pc : {"idle", "read", "running"},
                                  upload : Uploads \cup {NoUpload},
                                  revision : Nat]]
      BY <1>2 DEF BeginParse, Inv, TypeOK
    <2> QED BY <1>2, <1>3, <2>1 DEF Inv, TypeOK, uploading, Uploading
  \* Whoever read the record before now holds an old revision.
  <1>5. ReadsAreDated'
    <2>1. ASSUME NEW q \in Parsers \ {p}, parse[q].pc = "read",
                 parse[q].upload = u
          PROVE  /\ parse[q].revision <= upload'[u].revision
                 /\ parse[q].revision # upload'[u].revision
      <3>1. parse[q].revision \in Nat /\ parse[q].revision <= upload[u].revision
        BY <2>1 DEF Inv, ReadsAreDated, TypeOK
      <3> QED BY <1>2, <3>1
    <2> QED BY <1>1, <1>2, <1>3, <2>1 DEF Inv, ReadsAreDated
  \* The record was not marked, so nobody else runs over it.
  <1>6. \A q \in Parsers : parse[q].pc = "running" => parse[q].upload # u
    BY <1>1, RunningFacts
  <1>7. MarkHasOneOwner'
    <2>1. \A q \in Parsers \ {p} : parse'[q].pc = "running" =>
            /\ parse'[q].upload \in Uploads \ {u}
            /\ upload'[parse'[q].upload] = upload[parse[q].upload]
      BY <1>2, <1>3, <1>6, RunningFacts
    <2> QED BY <1>2, <1>3, <2>1 DEF Inv, MarkHasOneOwner
  <1>8. StatusTellsResult'
    BY <1>2, <1>3 DEF Inv, StatusTellsResult
  <1>9. Files'
    BY <1>2, <1>3, FilesKept
  <1> QED BY <1>4, <1>5, <1>7, <1>8, <1>9 DEF Inv, Files

\* The end of a parse: the request is idle, its record has another revision.
LEMMA EndParseStep ==
    ASSUME Inv, NEW p \in Parsers, parse[p].pc = "running",
           NEW status \in Statuses \ {"parsing", "merged"},
           Put(parse[p].upload, status),
           parse' = [parse EXCEPT ![p] = IdleParse],
           UNCHANGED <<uploading, seen, source, admitted>>,
           preview' \in [Uploads -> PreviewRecord \cup {NoPreview}],
           \A w \in Uploads : w # parse[p].upload => preview'[w] = preview[w],
           status = "preview" =>
                /\ preview'[parse[p].upload] # NoPreview
                /\ preview'[parse[p].upload].result # "quarantined",
           status = "quarantined" =>
                /\ preview'[parse[p].upload] # NoPreview
                /\ preview'[parse[p].upload].result = "quarantined"
    PROVE  Inv'
  <1> DEFINE u == parse[p].upload
  <1>1. u \in Uploads /\ Exists(u)
    BY RunningFacts
  <1>2. /\ upload' \in [Uploads -> UploadRecord \cup {NoUpload}]
        /\ upload'[u].status = status
        /\ upload[u].revision \in Nat
        /\ upload'[u].revision = upload[u].revision + 1
        /\ \A w \in Uploads \ {u} : upload'[w] = upload[w]
        /\ \A w \in Uploads : Exists(w)' <=> Exists(w)
    BY <1>1, PutFacts DEF Inv
  <1>3. /\ parse'[p].pc = "idle"
        /\ \A q \in Parsers \ {p} : parse'[q] = parse[q]
    BY DEF Inv, TypeOK, IdleParse
  <1>4. TypeOK'
    <2>1. parse' \in [Parsers -> [pc : {"idle", "read", "running"},
                                  upload : Uploads \cup {NoUpload},
                                  revision : Nat]]
      BY DEF Inv, TypeOK, IdleParse
    <2> QED BY <1>2, <2>1 DEF Inv, TypeOK, uploading, Uploading
  <1>5. ReadsAreDated'
    BY <1>1, <1>2, <1>3 DEF Inv, ReadsAreDated, TypeOK
  <1>6. MarkHasOneOwner'
    <2>1. \A q \in Parsers \ {p} : parse[q].pc = "running" =>
            /\ parse[q].upload \in Uploads \ {u}
            /\ upload'[parse[q].upload] = upload[parse[q].upload]
      BY <1>2, RunningFacts DEF Inv, MarkHasOneOwner
    <2> QED BY <1>3, <2>1 DEF Inv, MarkHasOneOwner
  <1>7. StatusTellsResult'
    BY <1>1, <1>2 DEF Inv, StatusTellsResult
  <1>8. Files'
    BY <1>2, FilesKept
  <1> QED BY <1>4, <1>5, <1>6, <1>7, <1>8 DEF Inv, Files

LEMMA CompleteParseStep ==
    ASSUME Inv, NEW p \in Parsers, NEW result \in Results,
           CompleteParse(p, result)
    PROVE  Inv'
  <1> DEFINE u == parse[p].upload
             v == [revision |-> PreviewRevision(u) + 1, result |-> result]
  <1>1. parse[p].pc = "running" /\ u \in Uploads
    BY RunningFacts DEF CompleteParse
  <1>2. PreviewRevision(u) \in Nat
    BY <1>1 DEF PreviewRevision, Inv, TypeOK, PreviewRecord
  <1>3. v \in PreviewRecord /\ v # NoPreview /\ v.result = result
    BY <1>2, RecordIsNotNone DEF PreviewRecord
  <1>4. preview' = [preview EXCEPT ![u] = v]
    BY DEF CompleteParse
  <1> HIDE DEF v
  <1>5. /\ preview' \in [Uploads -> PreviewRecord \cup {NoPreview}]
        /\ preview'[u] = v
        /\ \A w \in Uploads : w # u => preview'[w] = preview[w]
    BY <1>1, <1>3, <1>4 DEF Inv, TypeOK
  <1>6. /\ StatusOf(result) \in Statuses \ {"parsing", "merged"}
        /\ StatusOf(result) = "preview" => result # "quarantined"
        /\ StatusOf(result) = "quarantined" => result = "quarantined"
    BY DEF StatusOf, Statuses
  <1> QED BY <1>1, <1>3, <1>5, <1>6, EndParseStep DEF CompleteParse

LEMMA FailParseStep ==
    ASSUME Inv, NEW p \in Parsers, FailParse(p)
    PROVE  Inv'
  <1>1. CASE Put(parse[p].upload, "failed")
    <2>1. preview' \in [Uploads -> PreviewRecord \cup {NoPreview}]
      BY DEF FailParse, Inv, TypeOK
    <2>2. "failed" \in Statuses \ {"parsing", "merged"}
      BY DEF Statuses
    <2> QED BY <1>1, <2>1, <2>2, EndParseStep DEF FailParse
  <1>2. CASE UNCHANGED upload
    <2>1. /\ parse'[p] = IdleParse
          /\ \A q \in Parsers \ {p} : parse'[q] = parse[q]
          /\ UNCHANGED <<uploading, upload, preview, seen, source, admitted>>
      BY <1>2 DEF FailParse, Inv, TypeOK
    <2>2. TypeOK'
      BY <1>2 DEF FailParse, Inv, TypeOK, uploading, Uploading, IdleParse
    <2>3. Parses'
      BY <2>1 DEF Parses, Inv, ReadsAreDated, MarkHasOneOwner, StatusTellsResult,
                  Exists, IdleParse
    <2>4. Files'
      BY <2>1, FilesKept DEF Exists
    <2> QED BY <2>2, <2>3, <2>4 DEF Inv, Files, Parses
  <1> QED BY <1>1, <1>2 DEF FailParse

\* A revision that somebody writes over a record that is not being parsed.
LEMMA ReviewStep ==
    ASSUME Inv, NEW u \in Uploads, Exists(u),
           NEW status \in {"preview", "merged"},
           upload[u].status \in {"preview", "merged"},
           Put(u, status),
           UNCHANGED <<uploading, preview, parse, seen, source, admitted>>
    PROVE  Inv'
  <1>1. /\ upload' \in [Uploads -> UploadRecord \cup {NoUpload}]
        /\ upload'[u].status = status
        /\ upload[u].revision \in Nat
        /\ upload'[u].revision = upload[u].revision + 1
        /\ \A w \in Uploads \ {u} : upload'[w] = upload[w]
        /\ \A w \in Uploads : Exists(w)' <=> Exists(w)
    BY PutFacts DEF Inv, Statuses
  <1>2. TypeOK'
    BY <1>1 DEF Inv, TypeOK, uploading, Uploading
  <1>3. ReadsAreDated'
    <2>1. ASSUME NEW q \in Parsers, parse[q].pc = "read", parse[q].upload = u
          PROVE  /\ parse[q].revision <= upload'[u].revision
                 /\ parse[q].revision # upload'[u].revision
      <3>1. parse[q].revision \in Nat /\ parse[q].revision <= upload[u].revision
        BY <2>1 DEF Inv, ReadsAreDated, TypeOK
      <3> QED BY <1>1, <3>1
    <2> QED BY <1>1, <2>1 DEF Inv, ReadsAreDated
  <1>4. MarkHasOneOwner'
    <2>1. \A q \in Parsers : parse[q].pc = "running" =>
            upload'[parse[q].upload] = upload[parse[q].upload]
      BY <1>1, RunningFacts
    <2> QED BY <2>1 DEF Inv, MarkHasOneOwner
  <1>5. StatusTellsResult'
    BY <1>1 DEF Inv, StatusTellsResult
  <1>6. Files'
    BY <1>1, FilesKept
  <1> QED BY <1>2, <1>3, <1>4, <1>5, <1>6 DEF Inv, Files

LEMMA MergeStep ==
    ASSUME Inv, NEW r \in Reviewers, NEW acknowledged \in BOOLEAN,
           Merge(r, acknowledged)
    PROVE  /\ Inv'
           /\ seen[r].upload \in Uploads /\ Exists(seen[r].upload)
           /\ upload[seen[r].upload].status = "preview"
  <1> DEFINE u == seen[r].upload
  <1>1. u \in Uploads
    BY DEF Merge, Inv, TypeOK
  <1>2. Exists(u) /\ upload[u].status = "preview" /\ Put(u, "merged")
    BY DEF Merge
  <1> QED BY <1>1, <1>2, ReviewStep DEF Merge

LEMMA RestartStep ==
    ASSUME Inv, Restart
    PROVE  Inv'
  <1>1. \A u \in Uploads : Exists(u) => upload[u] \in UploadRecord
    BY DEF Inv, TypeOK, Exists
  <1>2. ASSUME NEW u \in Uploads, Exists(u), upload[u].status = "parsing"
        PROVE  /\ upload'[u] \in UploadRecord /\ upload'[u] # NoUpload
               /\ upload'[u].status = "needs_review"
    BY <1>1, <1>2, RecordIsNotNone DEF Restart, UploadRecord, Statuses
  <1>3. \A u \in Uploads : ~Exists(u) \/ upload[u].status # "parsing" =>
            upload'[u] = upload[u]
    BY DEF Restart
  <1>4. \A u \in Uploads : Exists(u)' <=> Exists(u)
    BY <1>2, <1>3 DEF Exists
  <1>5. \A u \in Uploads : request'[u] # "ended" => request'[u] = "none" /\ request[u] = "none"
    BY DEF Restart
  <1>6. \A p \in Parsers : parse'[p] = IdleParse
    BY DEF Restart
  <1>7. TypeOK'
    <2>1. upload' \in [Uploads -> UploadRecord \cup {NoUpload}]
      <3>1. \A u \in Uploads : upload'[u] \in UploadRecord \cup {NoUpload}
        BY <1>2, <1>3 DEF Inv, TypeOK
      <3> QED BY <3>1 DEF Restart
    <2>2. slot' = NoUpload
      BY DEF Restart
    <2>3. request' \in [Uploads -> {"none", "writing", "written", "ended"}]
      BY DEF Restart
    <2>4. parse' \in [Parsers -> [pc : {"idle", "read", "running"},
                                  upload : Uploads \cup {NoUpload},
                                  revision : Nat]]
      BY DEF Restart, IdleParse
    <2> QED BY <2>1, <2>2, <2>3, <2>4 DEF Restart, Inv, TypeOK
  <1>8. RequestsPrecede' /\ RecordHasArtifact'
    BY <1>4, <1>5 DEF Restart, Inv, RequestsPrecede, RecordHasArtifact
  <1>9. EvidenceOnce'
    BY <1>4 DEF Restart, Inv, EvidenceOnce, Restricted
  <1>10. ReadsAreDated' /\ MarkHasOneOwner'
    BY <1>6 DEF ReadsAreDated, MarkHasOneOwner, IdleParse
  <1>11. StatusTellsResult'
    BY <1>2, <1>3, <1>4 DEF Restart, Inv, StatusTellsResult
  <1> QED BY <1>7, <1>8, <1>9, <1>10, <1>11 DEF Inv

LEMMA InvStep ==
    ASSUME Inv, [Next]_vars
    PROVE  Inv'
  <1>1. ASSUME UNCHANGED vars PROVE Inv'
    <2>1. TypeOK'
      BY <1>1 DEF Inv, TypeOK, vars, uploading, Uploading
    <2>2. Files'
      BY <1>1, FilesKept DEF vars, uploading, Exists
    <2>3. Parses'
      BY <1>1, ParsesKept DEF vars
    <2> QED BY <2>1, <2>2, <2>3 DEF Inv, Files, Parses
  <1>2. ASSUME NEW u \in Uploads, StartUpload(u) PROVE Inv'
    BY <1>2, RequestStep DEF StartUpload, Inv, TypeOK
  <1>3. ASSUME NEW u \in Uploads, FinishFile(u) PROVE Inv'
    BY <1>3, RequestStep DEF FinishFile, Inv, TypeOK
  <1>4. ASSUME NEW u \in Uploads, RefuseUpload(u) PROVE Inv'
    BY <1>4, RequestStep DEF RefuseUpload, Discard, End, Inv, TypeOK
  <1>5. ASSUME NEW u \in Uploads, DuplicateUpload(u) PROVE Inv'
    BY <1>5, RequestStep DEF DuplicateUpload, Discard, End, Inv, TypeOK
  <1>6. ASSUME NEW u \in Uploads, CommitFails(u) PROVE Inv'
    <2>1. artifact' = [artifact EXCEPT ![u] = artifact[u]]
      BY <1>6 DEF CommitFails, Inv, TypeOK
    <2>2. artifact[u] \in {"absent", "partial", "full"}
      BY DEF Inv, TypeOK
    <2> QED BY <1>6, <2>1, <2>2, RequestStep DEF CommitFails, End, Inv, TypeOK
  <1>7. ASSUME NEW u \in Uploads, Approve(u) PROVE Inv'
    BY <1>7, ReviewStep DEF Approve
  <1>8. ASSUME NEW r \in Reviewers, OpenPreview(r) \/ \E u \in Uploads : OpenUpload(r, u)
        PROVE  Inv'
    <2>1. /\ UNCHANGED <<uploading, upload, preview, parse, source, admitted>>
          /\ seen' \in [Reviewers -> [upload : Uploads \cup {NoUpload}, revision : Nat,
                                     preview : PreviewRecord \cup {NoPreview}]]
      <3>1. CASE OpenPreview(r)
        BY <3>1 DEF OpenPreview, Inv, TypeOK
      <3>2. ASSUME NEW u \in Uploads, OpenUpload(r, u)
            PROVE  seen' \in [Reviewers -> [upload : Uploads \cup {NoUpload},
                        revision : Nat, preview : PreviewRecord \cup {NoPreview}]]
        BY <3>2 DEF OpenUpload, Inv, TypeOK, Exists, UploadRecord
      <3> QED BY <1>8, <3>1, <3>2 DEF OpenUpload, OpenPreview
    <2>2. TypeOK'
      BY <2>1 DEF Inv, TypeOK, uploading, Uploading
    <2>3. Files' /\ Parses'
      BY <2>1, FilesKept, ParsesKept DEF Exists
    <2> QED BY <2>2, <2>3 DEF Inv, Files, Parses
  <1>9. ASSUME NEW s \in Sources, Enroll(s) \/ Revoke(s) PROVE Inv'
    <2>1. /\ UNCHANGED <<uploading, upload, preview, parse, seen, admitted>>
          /\ source' \in [Sources -> {"none", "active", "revoked"}]
      BY <1>9 DEF Enroll, Revoke, Inv, TypeOK
    <2>2. TypeOK'
      BY <2>1 DEF Inv, TypeOK, uploading, Uploading
    <2>3. Files' /\ Parses'
      BY <2>1, FilesKept, ParsesKept DEF Exists
    <2> QED BY <2>2, <2>3 DEF Inv, Files, Parses
  <1>10. ASSUME TransferDeadline PROVE Inv'
    <2>1. TypeOK'
      BY <1>10 DEF TransferDeadline, Inv, TypeOK
    <2>2. RequestsPrecede' /\ RecordHasArtifact' /\ EvidenceOnce'
      BY <1>10 DEF TransferDeadline, Inv, RequestsPrecede, RecordHasArtifact,
                   EvidenceOnce, Exists, Restricted
    <2>3. Parses'
      BY <1>10, ParsesKept DEF TransferDeadline
    <2> QED BY <2>1, <2>2, <2>3 DEF Inv, Parses
  <1> QED BY <1>1, <1>2, <1>3, <1>4, <1>5, <1>6, <1>7, <1>8, <1>9, <1>10, SaveStep,
             ReadForParseStep, BeginParseStep, RefuseParseStep,
             CompleteParseStep, FailParseStep, MergeStep, RestartStep
          DEF Next

LEMMA InvAlways == Spec => []Inv
  BY InvInit, InvStep, PTL DEF Spec
-----------------------------------------------------------------------------
(* The theorems.                                                           *)

\* Every variable keeps its shape, and one upload at a time writes its file.
THEOREM TypeCorrect == Spec => []TypeOK
  BY InvAlways, PTL DEF Inv

\* A record marked as being parsed is parsed by one request, and nobody writes
\* over its mark (parse_upload).
THEOREM OneOwner == Spec => []MarkHasOneOwner
  BY InvAlways, PTL DEF Inv

\* What waits for a merge or is merged was not quarantined (parse_upload).
THEOREM StatusIsTrue == Spec => []StatusTellsResult
  BY InvAlways, PTL DEF Inv

\* Neither a content nor an identifier of an envelope has two records
\* (upload).
THEOREM NoEvidenceTwice == Spec => []EvidenceOnce
  BY InvAlways, PTL DEF Inv

\* The file of every record is there (upload).
THEOREM ArtifactsKept == Spec => []RecordHasArtifact
  BY InvAlways, PTL DEF Inv

\* What is merged stays merged and keeps the preview it was merged from.
Final ==
    \A u \in Uploads : Exists(u) /\ upload[u].status = "merged" =>
        upload'[u].status = "merged" /\ preview'[u] = preview[u]

LEMMA FinalStep == Inv /\ [Next]_vars => Final
  <1>1. ASSUME Inv, [Next]_vars PROVE Final
    <2> SUFFICES ASSUME NEW u \in Uploads, Exists(u), upload[u].status = "merged"
                 PROVE  upload'[u].status = "merged" /\ preview'[u] = preview[u]
      BY DEF Final
    <2>1. CASE UNCHANGED <<upload, preview>>
      BY <2>1
    <2>2. ASSUME NEW w \in Uploads, SaveUpload(w)
          PROVE  upload'[u] = upload[u] /\ preview' = preview
      <3>1. w # u
        BY <1>1, <2>2 DEF SaveUpload, Inv, RequestsPrecede
      <3> QED BY <2>2, <3>1 DEF SaveUpload
    <2>3. ASSUME NEW w \in Uploads, Approve(w)
          PROVE  upload'[u].status = "merged" /\ preview' = preview
      BY <1>1, <2>3 DEF Approve, Put, Inv, TypeOK
    <2>4. ASSUME NEW p \in Parsers, BeginParse(p)
          PROVE  upload'[u] = upload[u] /\ preview' = preview
      <3>1. parse[p].upload # u
        BY <1>1, <2>4 DEF BeginParse, Inv, ReadsAreDated
      <3> QED BY <2>4, <3>1 DEF BeginParse, Put
    <2>5. ASSUME NEW p \in Parsers,
                 FailParse(p) \/ \E result \in Results : CompleteParse(p, result)
          PROVE  upload'[u] = upload[u] /\ preview'[u] = preview[u]
      <3>1. parse[p].upload # u
        BY <1>1, <2>5, RunningFacts DEF CompleteParse, FailParse
      <3>2. upload \in [Uploads -> UploadRecord \cup {NoUpload}]
            /\ preview \in [Uploads -> PreviewRecord \cup {NoPreview}]
        BY <1>1 DEF Inv, TypeOK
      <3>3. CASE FailParse(p)
        BY <3>1, <3>2, <3>3 DEF FailParse, Put
      <3>4. ASSUME NEW result \in Results, CompleteParse(p, result)
            PROVE  upload'[u] = upload[u] /\ preview'[u] = preview[u]
        BY <3>1, <3>2, <3>4 DEF CompleteParse, Put
      <3> QED BY <2>5, <3>3, <3>4
    <2>6. ASSUME NEW r \in Reviewers, NEW acknowledged \in BOOLEAN,
                 Merge(r, acknowledged)
          PROVE  upload'[u] = upload[u] /\ preview' = preview
      <3>1. seen[r].upload # u
        BY <2>6 DEF Merge
      <3> QED BY <2>6, <3>1 DEF Merge, Put
    <2>7. CASE Restart
      BY <2>7 DEF Restart
    <2> QED BY <1>1, <2>1, <2>2, <2>3, <2>4, <2>5, <2>6, <2>7
            DEF Next, vars, StartUpload, TransferDeadline, FinishFile, RefuseUpload,
                DuplicateUpload, CommitFails, ReadForParse, RefuseParse,
                OpenUpload, OpenPreview, Enroll, Revoke
  <1> QED BY <1>1

\* A step that merges is what a reviewer submits.
Reviewed ==
    \A u \in Uploads :
        Exists(u) /\ upload[u].status # "merged" /\ upload'[u].status = "merged"
            => \E r \in Reviewers :
                   /\ seen[r].upload = u
                   /\ seen[r].preview = preview[u]
                   /\ seen[r].revision = upload[u].revision

LEMMA ReviewedStep == Inv /\ [Next]_vars => Reviewed
  <1> SUFFICES ASSUME Inv, [Next]_vars, NEW u \in Uploads,
                      Exists(u), upload[u].status # "merged",
                      upload'[u].status = "merged"
               PROVE  \E r \in Reviewers : /\ seen[r].upload = u
                                           /\ seen[r].preview = preview[u]
                                           /\ seen[r].revision = upload[u].revision
    BY DEF Reviewed
  <1>1. upload \in [Uploads -> UploadRecord \cup {NoUpload}]
    BY DEF Inv, TypeOK
  <1>2. upload' # upload
    OBVIOUS
  <1>3. ASSUME NEW w \in Uploads, SaveUpload(w) PROVE FALSE
    <2>1. w # u
      BY <1>3 DEF SaveUpload, Inv, RequestsPrecede
    <2> QED BY <1>3, <2>1 DEF SaveUpload
  <1>4. ASSUME NEW w \in Uploads, Approve(w) PROVE FALSE
    BY <1>1, <1>4 DEF Approve, Put
  <1>5. ASSUME NEW p \in Parsers, BeginParse(p) PROVE FALSE
    BY <1>1, <1>5 DEF BeginParse, Put
  <1>6. ASSUME NEW p \in Parsers, NEW result \in Results, CompleteParse(p, result)
        PROVE  FALSE
    <2>1. StatusOf(result) # "merged"
      BY DEF StatusOf
    <2> QED BY <1>1, <1>6, <2>1 DEF CompleteParse, Put
  <1>7. ASSUME NEW p \in Parsers, FailParse(p) PROVE FALSE
    BY <1>1, <1>7 DEF FailParse, Put
  <1>8. ASSUME NEW r \in Reviewers, NEW acknowledged \in BOOLEAN,
               Merge(r, acknowledged)
        PROVE  /\ seen[r].upload = u
               /\ seen[r].preview = preview[u]
               /\ seen[r].revision = upload[u].revision
    <2>1. seen[r].upload = u
      BY <1>1, <1>8 DEF Merge, Put
    <2> QED BY <1>8, <2>1 DEF Merge, Bound
  <1>9. CASE Restart
    BY <1>2, <1>9 DEF Restart
  <1> QED BY <1>2, <1>3, <1>4, <1>5, <1>6, <1>7, <1>8, <1>9
          DEF Next, vars, StartUpload, TransferDeadline, FinishFile, RefuseUpload,
              DuplicateUpload, CommitFails, ReadForParse, RefuseParse,
              OpenUpload, OpenPreview, Enroll, Revoke

\* Uploads are merged as they were reviewed, and for good (parse_upload, merge).
THEOREM MergeIsSound == Spec => MergedAsReviewed
  <1>1. Final /\ Reviewed =>
            \A u \in Uploads : Exists(u) =>
                IF upload[u].status = "merged"
                THEN upload'[u].status = "merged" /\ preview'[u] = preview[u]
                ELSE upload'[u].status = "merged" =>
                         \E r \in Reviewers :
                             /\ seen[r].upload = u
                             /\ seen[r].preview = preview[u]
                             /\ seen[r].revision = upload[u].revision
    BY DEF Final, Reviewed
  <1> QED BY <1>1, FinalStep, ReviewedStep, InvAlways, PTL
          DEF Spec, MergedAsReviewed
-----------------------------------------------------------------------------
(* The refinement.                                                         *)

AtWork == [u \in Uploads |-> Working(u)]

\* Whoever runs over an upload does so alone.
LEMMA WorksAlone ==
    ASSUME Inv, NEW p \in Parsers, parse[p].pc = "running"
    PROVE  Working(parse[p].upload) = {p}
  BY DEF Working, Inv, MarkHasOneOwner

\* Requests that do not start or end work leave it alone.
LEMMA WorkKept ==
    ASSUME \A p \in Parsers :
              \/ parse'[p] = parse[p]
              \/ parse[p].pc # "running" /\ parse'[p].pc # "running"
    PROVE  AtWork' = AtWork
  <1>1. \A u \in Uploads : Working(u)' = Working(u)
    BY DEF Working
  <1> QED BY <1>1 DEF AtWork

\* One request starts or ends its work on its upload.
LEMMA WorkChanged ==
    ASSUME NEW p \in Parsers, NEW u \in Uploads,
           \A q \in Parsers \ {p} : parse'[q] = parse[q],
           \A w \in Uploads \ {u} : p \notin Working(w) /\ p \notin Working(w)'
    PROVE  AtWork' = [AtWork EXCEPT ![u] = Working(u)']
  <1>1. \A w \in Uploads \ {u} : Working(w)' = Working(w)
    BY DEF Working
  <1> QED BY <1>1 DEF AtWork

LEMMA BeginIsBegin ==
    ASSUME Inv, NEW p \in Parsers, BeginParse(p)
    PROVE  Review!Next
  <1>1. /\ parse[p].pc = "read"
        /\ parse[p].upload \in Uploads /\ Exists(parse[p].upload)
        /\ upload[parse[p].upload].status \notin {"merged", "parsing"}
    BY DEF BeginParse, Inv, ReadsAreDated
  <1>2. PICK u \in Uploads : u = parse[p].upload
    BY <1>1
  <1>3. upload[u].status \in Statuses
    BY <1>1, <1>2 DEF Inv, TypeOK, Exists, UploadRecord
  <1>4. /\ parse'[p].pc = "running" /\ parse'[p].upload = u
        /\ \A q \in Parsers \ {p} : parse'[q] = parse[q]
    BY <1>2 DEF BeginParse, Inv, TypeOK
  <1>5. Working(u) = {}
    BY <1>1, <1>2, RunningFacts DEF Working
  <1>6. Working(u)' = {p}
    BY <1>4, <1>5 DEF Working
  <1>7. AtWork' = [AtWork EXCEPT ![u] = {p}]
    <2>1. \A w \in Uploads \ {u} : p \notin Working(w) /\ p \notin Working(w)'
      BY <1>1, <1>4 DEF Working
    <2> QED BY <1>4, <1>6, <2>1, WorkChanged
  <1>8. Review!Begin(u, p)
    BY <1>1, <1>2, <1>3, <1>5, <1>7
    DEF BeginParse, Put, Statuses, Exists, AtWork, Review!Begin, Review!Revise
  <1> QED BY <1>8 DEF Review!Next

\* A request that ends takes its work back.
LEMMA EndStops ==
    ASSUME Inv, NEW p \in Parsers, parse[p].pc = "running",
           parse' = [parse EXCEPT ![p] = IdleParse]
    PROVE  Review!Stops(parse[p].upload)
  <1>1. PICK u \in Uploads : u = parse[p].upload
    BY RunningFacts
  <1>2. Working(u) = {p}
    BY <1>1, WorksAlone
  <1>3. /\ parse'[p].pc = "idle"
        /\ \A q \in Parsers \ {p} : parse'[q] = parse[q]
    BY DEF Inv, TypeOK, IdleParse
  <1>4. Working(u)' = {}
    BY <1>2, <1>3 DEF Working
  <1>5. AtWork' = [AtWork EXCEPT ![u] = {}]
    <2>1. \A w \in Uploads \ {u} : p \notin Working(w) /\ p \notin Working(w)'
      BY <1>1, <1>3 DEF Working
    <2> QED BY <1>3, <1>4, <2>1, WorkChanged
  <1> QED BY <1>1, <1>2, <1>5 DEF AtWork, Review!Stops

LEMMA CompleteIsComplete ==
    ASSUME Inv, NEW p \in Parsers, NEW result \in Results,
           CompleteParse(p, result)
    PROVE  Review!Next
  <1> DEFINE u == parse[p].upload
  <1>1. /\ u \in Uploads /\ Exists(u) /\ upload[u].status = "parsing"
        /\ Review!Stops(u)
    BY RunningFacts, EndStops DEF CompleteParse
  <1>2. Review!Complete(u, result)
    BY <1>1 DEF CompleteParse, Put, StatusOf, PreviewRevision, Exists,
      Review!Complete, Review!Revise, Review!Saved
  <1> QED BY <1>1, <1>2 DEF Review!Next

LEMMA FailIsFail ==
    ASSUME Inv, NEW p \in Parsers, FailParse(p)
    PROVE  Review!Next
  <1> DEFINE u == parse[p].upload
  <1>1. /\ u \in Uploads /\ Exists(u) /\ upload[u].status = "parsing"
        /\ Review!Stops(u)
    BY RunningFacts, EndStops DEF FailParse
  <1>2. Review!Fail(u)
    BY <1>1 DEF FailParse, Put, Exists, Review!Fail, Review!Revise
  <1> QED BY <1>1, <1>2 DEF Review!Next

LEMMA RestartIsInterrupt ==
    ASSUME Inv, Restart
    PROVE  Review!Next
  <1>1. \A u \in Uploads : Working(u)' = {}
    BY DEF Restart, Working, IdleParse
  <1>2. Review!Interrupt
    BY <1>1 DEF Restart, Exists, Review!Interrupt
  <1> QED BY <1>2 DEF Review!Next

LEMMA Refines ==
    ASSUME Inv, [Next]_vars
    PROVE  [Review!Next]_Review!vars
  <1>1. ASSUME UNCHANGED <<upload, preview, parse>>
        PROVE  UNCHANGED Review!vars
    BY <1>1, WorkKept DEF AtWork, Review!vars
  <1>2. ASSUME NEW p \in Parsers,
               RefuseParse(p) \/ \E u \in Uploads : ReadForParse(p, u)
        PROVE  UNCHANGED Review!vars
    <2>1. /\ UNCHANGED <<upload, preview>>
          /\ \A q \in Parsers \ {p} : parse'[q] = parse[q]
          /\ parse[p].pc # "running" /\ parse'[p].pc # "running"
      BY <1>2 DEF RefuseParse, ReadForParse, IdleParse, Inv, TypeOK
    <2> QED BY <2>1, WorkKept DEF AtWork, Review!vars
  <1>3. ASSUME NEW u \in Uploads, SaveUpload(u) PROVE Review!Next
    <2>1. upload[u] = NoUpload
      BY <1>3 DEF SaveUpload, Inv, RequestsPrecede, Exists
    <2>2. AtWork' = AtWork
      BY <1>3, WorkKept DEF SaveUpload
    <2>3. Review!Receive(u)
      BY <1>3, <2>1, <2>2 DEF SaveUpload, AtWork, Review!Receive
    <2> QED BY <2>3 DEF Review!Next
  <1>4. ASSUME NEW u \in Uploads, Approve(u) PROVE Review!Next
    <2>1. AtWork' = AtWork
      BY <1>4, WorkKept DEF Approve
    <2>2. Review!Approve(u)
      BY <1>4, <2>1 DEF Approve, Put, Exists, AtWork, Review!Approve, Review!Revise
    <2> QED BY <2>2 DEF Review!Next
  \* What waits for a merge was not quarantined.
  <1>5. ASSUME NEW r \in Reviewers, NEW acknowledged \in BOOLEAN,
               Merge(r, acknowledged)
        PROVE  Review!Next
    <2> DEFINE u == seen[r].upload
    <2>1. /\ u \in Uploads /\ Exists(u) /\ upload[u].status = "preview"
          /\ preview[u] # NoPreview /\ preview[u].result # "quarantined"
      BY <1>5, MergeStep DEF Inv, StatusTellsResult
    <2>2. AtWork' = AtWork
      BY <1>5, WorkKept DEF Merge
    <2>3. Review!Merge(u)
      BY <1>5, <2>1, <2>2 DEF Merge, Put, Exists, AtWork, Review!Merge, Review!Revise
    <2> QED BY <2>1, <2>3 DEF Review!Next
  <1> QED BY <1>1, <1>2, <1>3, <1>4, <1>5, BeginIsBegin, CompleteIsComplete,
             FailIsFail, RestartIsInterrupt
          DEF Next, vars, StartUpload, TransferDeadline, FinishFile, RefuseUpload,
              DuplicateUpload, CommitFails, OpenUpload, OpenPreview, Enroll, Revoke

\* A parse has its upload for itself and saves a whole result, and only a
\* preview that was not quarantined is ever merged, once (parse_upload, merge,
\* create_app).
THEOREM Refinement == Spec => ImplementsReview
  <1>1. Init => Review!Init
    BY DEF Init, IdleParse, Working, Review!Init
  <1> QED BY <1>1, Refines, InvAlways, PTL DEF Spec, ImplementsReview, Review!Spec
=============================================================================
