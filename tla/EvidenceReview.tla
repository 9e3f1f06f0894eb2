---------------------------- MODULE EvidenceReview ----------------------------
(***************************************************************************)
(* What users who share an engagement may rely on for each upload: one     *)
(* parse at a time works on it, and nothing else changes it meanwhile; its *)
(* preview is the result of a whole parse; only a preview that was not     *)
(* quarantined can be merged; and a merge is final.  UploadLifecycle       *)
(* implements this with handlers that read, let others run, and compare    *)
(* again before they write.                                                *)
(***************************************************************************)
EXTENDS Naturals

CONSTANTS Uploads, Parsers, Results, NoUpload, NoPreview

VARIABLES upload,   \* the record of each upload: status and revision
          preview,  \* the result of its last parse that was saved
          working   \* the parse requests at work on it

vars == <<upload, preview, working>>

Init ==
    /\ upload = [u \in Uploads |-> NoUpload]
    /\ preview = [u \in Uploads |-> NoPreview]
    /\ working = [u \in Uploads |-> {}]

Receive(u) ==
    /\ upload[u] = NoUpload
    /\ upload' = [upload EXCEPT ![u] = [status |-> "uploaded", revision |-> 1]]
    /\ UNCHANGED <<preview, working>>

\* Every change of a record from one status to another is one revision.
Revise(u, from, to) ==
    /\ upload[u] # NoUpload
    /\ upload[u].status \in from
    /\ upload' = [upload EXCEPT ![u] = [status |-> to,
                                        revision |-> upload[u].revision + 1]]

Begin(u, p) ==
    /\ Revise(u, {"uploaded", "preview", "quarantined", "failed", "needs_review"},
              "parsing")
    /\ working[u] = {}
    /\ working' = [working EXCEPT ![u] = {p}]
    /\ UNCHANGED preview

Stops(u) ==
    /\ working[u] # {}
    /\ working' = [working EXCEPT ![u] = {}]

\* How many results were saved.
Saved(u) == IF preview[u] = NoPreview THEN 0 ELSE preview[u].revision

Complete(u, result) ==
    /\ Stops(u)
    /\ Revise(u, {"parsing"},
              IF result = "quarantined" THEN "quarantined" ELSE "preview")
    /\ preview' = [preview EXCEPT ![u] = [revision |-> Saved(u) + 1,
                                          result |-> result]]

\* A failed parse leaves the last preview; even its mark may stay behind.
Fail(u) ==
    /\ Stops(u)
    /\ Revise(u, {"parsing"}, "failed") \/ UNCHANGED upload
    /\ UNCHANGED preview

Merge(u) ==
    /\ Revise(u, {"preview"}, "merged")
    /\ preview[u] # NoPreview
    /\ preview[u].result # "quarantined"
    /\ UNCHANGED <<preview, working>>

\* An approval for export.
Approve(u) ==
    /\ \E status \in {"preview", "merged"} : Revise(u, {status}, status)
    /\ UNCHANGED <<preview, working>>

\* A restart leaves to a reviewer what was being parsed.
Interrupt ==
    /\ working' = [u \in Uploads |-> {}]
    /\ upload' = [u \in Uploads |->
            IF upload[u] # NoUpload /\ upload[u].status = "parsing"
            THEN [status |-> "needs_review", revision |-> upload[u].revision + 1]
            ELSE upload[u]]
    /\ UNCHANGED preview

Next ==
    \/ \E u \in Uploads :
        \/ Receive(u) \/ Fail(u) \/ Merge(u) \/ Approve(u)
        \/ \E p \in Parsers : Begin(u, p)
        \/ \E result \in Results : Complete(u, result)
    \/ Interrupt

Spec == Init /\ [][Next]_vars
=============================================================================
