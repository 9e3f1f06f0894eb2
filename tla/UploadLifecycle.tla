-------------------------- MODULE UploadLifecycle --------------------------
(***************************************************************************)
(* server.py: an uploaded file becomes an upload record, is parsed into a  *)
(* preview, reviewed, and merged.  harness_trust.py: signed envelopes are  *)
(* accepted from enrolled sources only, and a source may be revoked.       *)
(*                                                                         *)
(* One transaction is one step.  Between two of them other handlers run:   *)
(* upload and parse on the event loop, preview, merge and approval in      *)
(* threads.  How a parse talks to its service is the subject of            *)
(* ParserQueue; here it ends with a result or fails.                       *)
(***************************************************************************)
EXTENDS Naturals

CONSTANTS Uploads,      \* upload identifiers, each drawn for one request
          Ordinary,     \* contents of ordinary files
          Envelopes,    \* signed envelopes: source, envelope, observation, body
          Sources,      \* harness source identifiers
          Parsers,      \* requests in parse_upload
          Reviewers,    \* who opens previews and merges
          NoUpload,     \* no such record, or nothing opened
          NoPreview,    \* nothing parsed yet
          MaxRevision   \* bound on the revisions of one record

Contents == Ordinary \cup Envelopes
Results == {"complete", "partial", "quarantined"}
Statuses == {"uploaded", "parsing", "preview", "quarantined", "failed",
             "needs_review", "merged"}
UploadRecord == [status : Statuses, revision : Nat \ {0}]
PreviewRecord == [revision : Nat \ {0}, result : Results]

ASSUME LifecycleAssumption ==
    /\ \A e \in Envelopes : e.source \in Sources
    /\ Ordinary \cap Envelopes = {}
    /\ NoUpload \notin Uploads \cup UploadRecord
    /\ NoPreview \notin PreviewRecord
    /\ MaxRevision \in Nat

VARIABLES request,   \* where the upload request of an identifier stands
          content,   \* the file it brings, with its format
          artifact,  \* the file in artifacts
          slot,      \* the upload whose request holds the file slot
          upload,    \* the upload record
          preview,   \* the preview record
          parse,     \* the parse requests
          seen,      \* what a reviewer's page shows
          source,    \* the harness_sources table
          admitted   \* envelopes that an audit event names as received

uploading == <<request, content, artifact, slot>>
vars == <<request, content, artifact, slot, upload, preview, parse, seen,
          source, admitted>>

IdleParse == [pc |-> "idle", upload |-> NoUpload, revision |-> 0]
Unseen == [upload |-> NoUpload, revision |-> 0, preview |-> NoPreview]

Exists(u) == upload[u] # NoUpload
Restricted(u) == content[u] \in Envelopes

\* verify_harness_observation, which every step repeats: the source is active.
Trusted(c) == c \in Envelopes => source[c.source] = "active"

\* Envelopes of an upload record: the rows of harness_envelopes.
Indexed == {content[u] : u \in {w \in Uploads : Exists(w) /\ Restricted(w)}}

Init ==
    /\ request = [u \in Uploads |-> "none"]
    /\ content \in [Uploads -> Contents]
    /\ artifact = [u \in Uploads |-> "absent"]
    /\ slot = NoUpload
    /\ upload = [u \in Uploads |-> NoUpload]
    /\ preview = [u \in Uploads |-> NoPreview]
    /\ parse = [p \in Parsers |-> IdleParse]
    /\ seen = [r \in Reviewers |-> Unseen]
    /\ source = [s \in Sources |-> "none"]
    /\ admitted = {}

\* store.put of the upload record.
Put(u, status) ==
    upload' = [upload EXCEPT ![u] =
                  [status |-> status, revision |-> upload[u].revision + 1]]
-----------------------------------------------------------------------------
\* boundary takes the file slot for the request.  The handler announces the
\* upload and starts to write its file.
StartUpload(u) ==
    /\ slot = NoUpload
    /\ request[u] = "none"
    /\ slot' = u
    /\ request' = [request EXCEPT ![u] = "writing"]
    /\ artifact' = [artifact EXCEPT ![u] = "partial"]
    /\ UNCHANGED <<content, upload, preview, parse, seen, source, admitted>>

\* The deadline of boundary ends its wait for the handler and frees the slot.
\* The handler goes on: the next upload may start while this one still writes.
TransferDeadline ==
    /\ slot # NoUpload
    /\ slot' = NoUpload
    /\ UNCHANGED <<request, content, artifact, upload, preview, parse, seen,
                   source, admitted>>

FinishFile(u) ==
    /\ request[u] = "writing"
    /\ Trusted(content[u])
    /\ request' = [request EXCEPT ![u] = "written"]
    /\ artifact' = [artifact EXCEPT ![u] = "full"]
    /\ UNCHANGED <<content, slot, upload, preview, parse, seen, source, admitted>>

\* The handler is done; boundary frees the slot if it still waits for it.
End(u) ==
    /\ request' = [request EXCEPT ![u] = "ended"]
    /\ slot' = IF slot = u THEN NoUpload ELSE slot

\* The request ends without a record and unlinks its file.
Discard(u) == End(u) /\ artifact' = [artifact EXCEPT ![u] = "absent"]

\* Mutant: the slot is not freed when the handler raises.
RefuseUpload_KeepsSlot(u) ==
    /\ request[u] \in {"writing", "written"}
    /\ request' = [request EXCEPT ![u] = "ended"]
    /\ artifact' = [artifact EXCEPT ![u] = "absent"]
    /\ UNCHANGED <<content, slot, upload, preview, parse, seen, source, admitted>>

\* Too large, of another class, not trusted, refused as a changed envelope, or
\* an exception.
RefuseUpload(u) ==
    /\ request[u] \in {"writing", "written"}
    /\ Discard(u)
    /\ UNCHANGED <<content, upload, preview, parse, seen, source, admitted>>

\* An indexed envelope with an identifier of this one.
SameEnvelope(c) == {e \in Indexed : e.envelope = c.envelope}
SameObservation(c) == {e \in Indexed : e.observation = c.observation}

\* The two checks against reuse of an identifier.
Unchanged(c) ==
    /\ \A e \in SameEnvelope(c) : e = c
    /\ \A e \in SameObservation(c) : e.body = c.body

Replayed(c) ==
    c \in Envelopes /\ SameEnvelope(c) \cup SameObservation(c) # {}

AlreadyHere(u) == \E w \in Uploads : Exists(w) /\ content[w] = content[u]

\* The upload is a duplicate: its file goes, the earlier record is returned.
DuplicateUpload(u) ==
    /\ request[u] = "written"
    /\ content[u] \in Envelopes => Unchanged(content[u])
    /\ Replayed(content[u]) \/ AlreadyHere(u)
    /\ Discard(u)
    /\ admitted' = admitted \cup ({content[u]} \cap Envelopes)
    /\ UNCHANGED <<content, upload, preview, parse, seen, source>>

\* Mutant: an observation that arrives in another envelope is not looked up.
SaveUpload_EnvelopeOnly(u) ==
    /\ request[u] = "written"
    /\ content[u] \in Envelopes => SameEnvelope(content[u]) = {}
    /\ ~AlreadyHere(u)
    /\ End(u)
    /\ upload' = [upload EXCEPT ![u] = [status |-> "uploaded", revision |-> 1]]
    /\ admitted' = admitted \cup ({content[u]} \cap Envelopes)
    /\ UNCHANGED <<content, artifact, preview, parse, seen, source>>

\* Mutant: the handler does not note that it committed.
SaveUpload_Unnoted(u) ==
    /\ request[u] = "written"
    /\ ~Replayed(content[u])
    /\ ~AlreadyHere(u)
    /\ Discard(u)
    /\ upload' = [upload EXCEPT ![u] = [status |-> "uploaded", revision |-> 1]]
    /\ admitted' = admitted \cup ({content[u]} \cap Envelopes)
    /\ UNCHANGED <<content, preview, parse, seen, source>>

SaveUpload(u) ==
    /\ request[u] = "written"
    /\ ~Replayed(content[u])
    /\ ~AlreadyHere(u)
    /\ End(u)
    /\ upload' = [upload EXCEPT ![u] = [status |-> "uploaded", revision |-> 1]]
    /\ admitted' = admitted \cup ({content[u]} \cap Envelopes)
    /\ UNCHANGED <<content, artifact, preview, parse, seen, source>>

\* The commit itself fails: the handler takes the file for committed.
CommitFails(u) ==
    /\ request[u] = "written"
    /\ ~Replayed(content[u])
    /\ ~AlreadyHere(u)
    /\ End(u)
    /\ UNCHANGED <<content, artifact, upload, preview, parse, seen, source,
                   admitted>>
-----------------------------------------------------------------------------
\* Mutant: a record marked as being parsed is parsed again.
ReadForParse_AnyStatus(p, u) ==
    /\ parse[p] = IdleParse
    /\ \A q \in Parsers : parse[q].pc # "read"
    /\ Exists(u)
    /\ upload[u].status # "merged"
    /\ Trusted(content[u])
    /\ parse' = [parse EXCEPT ![p] = [pc |-> "read", upload |-> u,
                                      revision |-> upload[u].revision]]
    /\ UNCHANGED <<uploading, upload, preview, seen, source, admitted>>

\* parse_upload reads the record.  On the event loop no other parse request
\* comes between this and BeginParse; merges and approvals do.
ReadForParse(p, u) ==
    /\ parse[p] = IdleParse
    /\ \A q \in Parsers : parse[q].pc # "read"
    /\ Exists(u)
    /\ upload[u].status \notin {"merged", "parsing"}
    /\ Trusted(content[u])
    /\ parse' = [parse EXCEPT ![p] = [pc |-> "read", upload |-> u,
                                      revision |-> upload[u].revision]]
    /\ UNCHANGED <<uploading, upload, preview, seen, source, admitted>>

\* Mutant: the record is not read again under the lock.
BeginParse_NotReread(p) ==
    LET u == parse[p].upload IN
    /\ parse[p].pc = "read"
    /\ parse[p].revision < MaxRevision
    /\ Put(u, "parsing")
    /\ parse' = [parse EXCEPT ![p].pc = "running",
                              ![p].revision = upload[u].revision + 1]
    /\ UNCHANGED <<uploading, preview, seen, source, admitted>>

BeginParse(p) ==
    LET u == parse[p].upload IN
    /\ parse[p].pc = "read"
    /\ upload[u].revision = parse[p].revision
    /\ parse[p].revision < MaxRevision
    /\ Put(u, "parsing")
    /\ parse' = [parse EXCEPT ![p].pc = "running",
                              ![p].revision = upload[u].revision + 1]
    /\ UNCHANGED <<uploading, preview, seen, source, admitted>>

\* The record changed in between, or the transaction fails.
RefuseParse(p) ==
    /\ parse[p].pc = "read"
    /\ parse' = [parse EXCEPT ![p] = IdleParse]
    /\ UNCHANGED <<uploading, upload, preview, seen, source, admitted>>

StatusOf(result) == IF result = "quarantined" THEN "quarantined" ELSE "preview"

PreviewRevision(u) == IF preview[u] = NoPreview THEN 0 ELSE preview[u].revision

\* Preview and upload change together, over the revision that was marked.
CompleteParse(p, result) ==
    LET u == parse[p].upload IN
    /\ parse[p].pc = "running"
    /\ upload[u].revision = parse[p].revision
    /\ preview' = [preview EXCEPT ![u] = [revision |-> PreviewRevision(u) + 1,
                                          result |-> result]]
    /\ Put(u, StatusOf(result))
    /\ parse' = [parse EXCEPT ![p] = IdleParse]
    /\ UNCHANGED <<uploading, seen, source, admitted>>

\* The parser or the transaction fails.  The mark is taken back if it is
\* still this request's; when that fails too, it stays until a restart.
FailParse(p) ==
    LET u == parse[p].upload IN
    /\ parse[p].pc = "running"
    /\ \/ /\ upload[u].revision = parse[p].revision
          /\ Put(u, "failed")
       \/ UNCHANGED upload
    /\ parse' = [parse EXCEPT ![p] = IdleParse]
    /\ UNCHANGED <<uploading, preview, seen, source, admitted>>
-----------------------------------------------------------------------------
\* The preview route reads the upload and then, in another query, the preview.
OpenUpload(r, u) ==
    /\ Exists(u)
    /\ seen' = [seen EXCEPT ![r] = [upload |-> u,
                                    revision |-> upload[u].revision,
                                    preview |-> NoPreview]]
    /\ UNCHANGED <<uploading, upload, preview, parse, source, admitted>>

OpenPreview(r) ==
    /\ seen[r].upload # NoUpload
    /\ seen[r].preview = NoPreview
    /\ preview[seen[r].upload] # NoPreview
    /\ seen' = [seen EXCEPT ![r].preview = preview[seen[r].upload]]
    /\ UNCHANGED <<uploading, upload, preview, parse, source, admitted>>

\* Mutant: a page whose revisions are old is accepted.
Bound_AnyRevision(r, u) == TRUE

\* The binding that the reviewer's page submits is that of the records.
Bound(r, u) ==
    /\ seen[r].revision = upload[u].revision
    /\ seen[r].preview = preview[u]

Merge(r, acknowledged) ==
    LET u == seen[r].upload IN
    /\ u # NoUpload
    /\ Exists(u)
    /\ seen[r].preview # NoPreview
    /\ Bound(r, u)
    /\ upload[u].status = "preview"
    /\ Restricted(u) \/ preview[u].result = "partial" => acknowledged
    /\ artifact[u] = "full"
    /\ Trusted(content[u])
    /\ Put(u, "merged")
    /\ UNCHANGED <<uploading, preview, parse, seen, source, admitted>>

\* Export approval writes a revision and keeps the status.
Approve(u) ==
    /\ Exists(u)
    /\ ~Restricted(u)
    /\ upload[u].status \in {"preview", "merged"}
    /\ artifact[u] = "full"
    /\ upload[u].revision < MaxRevision
    /\ Put(u, upload[u].status)
    /\ UNCHANGED <<uploading, preview, parse, seen, source, admitted>>
-----------------------------------------------------------------------------
\* Sources are enrolled and revoked while the server is stopped.
Stopped ==
    /\ \A u \in Uploads : request[u] \in {"none", "ended"}
    /\ parse = [p \in Parsers |-> IdleParse]

\* The same card again changes nothing, also after a revocation.
Enroll(s) ==
    /\ Stopped
    /\ source[s] = "none"
    /\ source' = [source EXCEPT ![s] = "active"]
    /\ UNCHANGED <<uploading, upload, preview, parse, seen, admitted>>

Revoke(s) ==
    /\ Stopped
    /\ source[s] = "active"
    /\ source' = [source EXCEPT ![s] = "revoked"]
    /\ UNCHANGED <<uploading, upload, preview, parse, seen, admitted>>

\* The process dies and create_app marks what was interrupted.
Restart ==
    /\ request' = [u \in Uploads |->
            IF request[u] = "none" THEN "none" ELSE "ended"]
    /\ slot' = NoUpload
    /\ upload' = [u \in Uploads |->
            IF Exists(u) /\ upload[u].status = "parsing"
            THEN [status |-> "needs_review", revision |-> upload[u].revision + 1]
            ELSE upload[u]]
    /\ parse' = [p \in Parsers |-> IdleParse]
    /\ UNCHANGED <<content, artifact, preview, seen, source, admitted>>

Next ==
    \/ \E u \in Uploads :
        \/ StartUpload(u) \/ FinishFile(u) \/ RefuseUpload(u)
        \/ DuplicateUpload(u) \/ SaveUpload(u) \/ CommitFails(u)
        \/ Approve(u)
    \/ TransferDeadline
    \/ \E p \in Parsers :
        \/ \E u \in Uploads : ReadForParse(p, u)
        \/ BeginParse(p) \/ RefuseParse(p)
        \/ \E result \in Results : CompleteParse(p, result)
        \/ FailParse(p)
    \/ \E r \in Reviewers :
        \/ \E u \in Uploads : OpenUpload(r, u)
        \/ OpenPreview(r)
        \/ \E acknowledged \in BOOLEAN : Merge(r, acknowledged)
    \/ \E s \in Sources : Enroll(s) \/ Revoke(s)
    \/ Restart

Spec == Init /\ [][Next]_vars
-----------------------------------------------------------------------------
Uploading(u) == request[u] \in {"writing", "written"}

\* Every variable keeps its shape, and the file slot is held only for a request
\* that is under way: whether it is answered, refused or outlives the deadline,
\* the next upload finds the slot free (boundary).
TypeOK ==
    /\ request \in [Uploads -> {"none", "writing", "written", "ended"}]
    /\ content \in [Uploads -> Contents]
    /\ artifact \in [Uploads -> {"absent", "partial", "full"}]
    /\ upload \in [Uploads -> UploadRecord \cup {NoUpload}]
    /\ preview \in [Uploads -> PreviewRecord \cup {NoPreview}]
    /\ parse \in [Parsers -> [pc : {"idle", "read", "running"},
                              upload : Uploads \cup {NoUpload},
                              revision : Nat]]
    /\ seen \in [Reviewers -> [upload : Uploads \cup {NoUpload}, revision : Nat,
                               preview : PreviewRecord \cup {NoPreview}]]
    /\ source \in [Sources -> {"none", "active", "revoked"}]
    /\ admitted \subseteq Envelopes
    /\ slot \in Uploads \cup {NoUpload}
    /\ slot # NoUpload => Uploading(slot)

\* The parse requests that believe the mark on an upload is theirs.
Working(u) == {p \in Parsers : parse[p].pc = "running" /\ parse[p].upload = u}

Review == INSTANCE EvidenceReview WITH working <- [u \in Uploads |-> Working(u)]

\* However users overlap and the server dies: a parse has its upload for
\* itself, what it saves is the result of a whole parse over its own mark, and
\* what is quarantined or merged is never merged again (parse_upload "to
\* prevent two parser dispatches", preview, merge, create_app).
ImplementsReview == Review!Spec

\* An upload becomes merged only as some reviewer's page showed it, upload
\* and preview together, however many parses and approvals came between
\* opening the page and submitting it (merge, reviewed_preview); and merged it
\* stays, its preview never parsed anew: no request that read the record
\* before the merge writes over it afterwards (parse_upload).
MergedAsReviewed ==
    [][\A u \in Uploads : Exists(u) =>
          IF upload[u].status = "merged"
          THEN upload'[u].status = "merged" /\ preview'[u] = preview[u]
          ELSE upload'[u].status = "merged" =>
                   \E r \in Reviewers :
                       /\ seen[r].upload = u
                       /\ seen[r].preview = preview[u]
                       /\ seen[r].revision = upload[u].revision]_vars

\* One record per content, and one per envelope and per observation, also
\* when an upload outlives its deadline and is sent again meanwhile, when
\* commits fail and when the server restarts between two uploads (upload,
\* tables imports and harness_envelopes).
EvidenceOnce ==
    \A u, w \in Uploads : u # w /\ Exists(u) /\ Exists(w) =>
        /\ content[u] # content[w]
        /\ Restricted(u) /\ Restricted(w) =>
                /\ content[u].envelope # content[w].envelope
                /\ content[u].observation # content[w].observation

\* A record never outlives its file: what is parsed, merged or exported is
\* there (upload unlinks only what it did not commit).
RecordHasArtifact == \A u \in Uploads : Exists(u) => artifact[u] = "full"

\* An envelope identifier stands for one signed content: the trail never
\* says of two different ones that they were received (ARCHITECTURE.md:
\* "identifier reuse with changed content is rejected").
EnvelopeNamesOneContent ==
    \A e, g \in admitted : e.envelope = g.envelope => e = g
=============================================================================
