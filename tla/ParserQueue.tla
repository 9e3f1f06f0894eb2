---------------------------- MODULE ParserQueue ----------------------------
(***************************************************************************)
(* The parser queue: one directory through which the app                   *)
(* (isolation.py queue_parser, called by server.py parse_upload) hands one *)
(* job at a time to a parser service without network (parser_service.py),  *)
(* which runs each job in a child.  The two processes share nothing but    *)
(* the files of the directory; either may die at any step, and deadlines   *)
(* may fall at any time.  Each job is one parse of one upload, under an    *)
(* identifier of its own: a user who repeats a parse asks for another job. *)
(***************************************************************************)
EXTENDS Naturals, SequencesExt

CONSTANTS Jobs,   \* the parses that are ever asked for
          NoJob

ASSUME JobsAssumption == NoJob \notin Jobs

VARIABLES files,     \* the directory: pairs of a job and a kind of file
          order,     \* the published requests, oldest first
          upload,    \* the status of the upload record each job parses;
                     \* "refused" and "unsaved" are kinds of the code's "failed"
          app,       \* "down", "up", or "failed" to start
          blocked,   \* Store.blocked of the running app
          mine,      \* the jobs submitted since the app started
          handler,   \* where the request that submitted each job stands
          job,       \* the job queue_parser works on
          pc,        \* where queue_parser stands
          verdict,   \* the status it will give the upload
          svc,       \* where serve() stands
          served,    \* the job it has claimed
          child,     \* where the child stands
          runs       \* how often each job was run

queueVars == <<files, order>>
callVars == <<job, pc, verdict>>
appVars == <<upload, app, blocked, mine, handler, callVars>>
svcVars == <<svc, served, child, runs>>
vars == <<queueVars, appVars, svcVars>>

Kinds == {"input", "tmp", "request", "running", "response", "error", "cancel",
          "rtmp"}
Has(j, kind) == <<j, kind>> \in files

\* inspect_queue: anything but a closed receipt needs an operator.
Unresolved == {f \in files : f[2] \notin {"response", "error"}}

Init ==
    /\ files = {}
    /\ order = <<>>
    /\ upload = [j \in Jobs |-> "uploaded"]
    /\ app = "down"
    /\ blocked = FALSE
    /\ mine = {}
    /\ handler = [j \in Jobs |-> "none"]
    /\ job = NoJob
    /\ pc = "idle"
    /\ verdict = "none"
    /\ svc = "down"
    /\ served = NoJob
    /\ child = "none"
    /\ runs = [j \in Jobs |-> 0]
-----------------------------------------------------------------------------
(* The app.                                                                *)

Interrupted == {j \in Jobs : upload[j] = "parsing"}

NeedsReview == [j \in Jobs |-> IF j \in Interrupted THEN "needs_review"
                               ELSE upload[j]]

\* Mutant: a start does not look at the queue.
AppStart_Uninspected ==
    /\ app \in {"down", "failed"}
    /\ app' = "up"
    /\ blocked' = FALSE
    /\ upload' = NeedsReview
    /\ mine' = {}
    /\ UNCHANGED <<queueVars, svcVars, handler, callVars>>

\* create_app: unresolved files block the store; each interrupted upload is then
\* marked in a transaction, which a blocked store refuses.
AppStart ==
    /\ app \in {"down", "failed"}
    /\ blocked' = (Unresolved # {})
    /\ IF Unresolved # {} /\ Interrupted # {}
       THEN app' = "failed" /\ UNCHANGED upload
       ELSE app' = "up" /\ upload' = NeedsReview
    /\ mine' = {}
    /\ UNCHANGED <<queueVars, svcVars, handler, callVars>>

AppCrash ==
    /\ app = "up"
    /\ app' = "down"
    /\ handler' = [j \in Jobs |-> "none"]
    /\ job' = NoJob
    /\ pc' = "idle"
    /\ verdict' = "none"
    /\ UNCHANGED <<queueVars, svcVars, upload, blocked, mine>>

\* Any other fault of the store: an audit file that does not verify, say.
StoreBlocks ==
    /\ app = "up"
    /\ ~blocked
    /\ blocked' = TRUE
    /\ UNCHANGED <<queueVars, svcVars, upload, app, mine, handler, callVars>>

\* parse_upload marks the upload before it asks for the parser.
Submit(j) ==
    /\ app = "up"
    /\ ~blocked
    /\ upload[j] = "uploaded"
    /\ upload' = [upload EXCEPT ![j] = "parsing"]
    /\ mine' = mine \cup {j}
    /\ handler' = [handler EXCEPT ![j] = "slot"]
    /\ UNCHANGED <<queueVars, svcVars, app, blocked, callVars>>

\* run_parser takes the only slot.
TakeSlot(j) ==
    /\ handler[j] = "slot"
    /\ pc = "idle"
    /\ handler' = [handler EXCEPT ![j] = "queue"]
    /\ job' = j
    /\ pc' = "input"
    /\ UNCHANGED <<queueVars, svcVars, upload, app, blocked, mine, verdict>>

\* The slot is taken, or the artifact does not match its checksum.
TurnAway(j) ==
    /\ handler[j] = "slot"
    /\ handler' = [handler EXCEPT ![j] = "failed"]
    /\ UNCHANGED <<queueVars, svcVars, upload, app, blocked, mine, callVars>>

\* The outcome is saved.  When a preview cannot be, the upload is marked failed
\* instead, and when that transaction is refused too it stays as it is.
Record(j) ==
    /\ handler[j] \in {"preview", "failed", "refused"}
    /\ \/ ~blocked /\ upload' = [upload EXCEPT ![j] = handler[j]]
       \/ /\ ~blocked
          /\ handler[j] = "preview"
          /\ upload' = [upload EXCEPT ![j] = "unsaved"]
       \/ UNCHANGED upload
    /\ handler' = [handler EXCEPT ![j] = "none"]
    /\ UNCHANGED <<queueVars, svcVars, app, blocked, mine, callVars>>

\* queue_parser moves on and the app keeps everything else.
Step(next) ==
    /\ pc' = next
    /\ UNCHANGED <<svcVars, upload, app, blocked, mine, handler, job>>

\* An exception or a result leaves the loop.
Settle(result) == verdict' = result /\ Step("done")

\* The finally clause removes the job's files first.
Clean(result) == verdict' = result /\ Step("cleaning")

WriteInput ==
    /\ pc = "input"
    /\ files' = files \cup {<<job, "input">>}
    /\ Step("tmp")
    /\ UNCHANGED <<order, verdict>>

WriteRequest ==
    /\ pc = "tmp"
    /\ files' = files \cup {<<job, "tmp">>}
    /\ Step("publish")
    /\ UNCHANGED <<order, verdict>>

\* A write fails before the request is published.
WriteFails ==
    /\ pc \in {"input", "tmp"}
    /\ files' \in {files, files \cup {<<job, pc>>}}
    /\ Clean("failed")
    /\ UNCHANGED order

\* Mutant: the request is not renamed but written again.
Publish_KeepsRequest ==
    /\ pc = "publish"
    /\ files' = files \cup {<<job, "request">>}
    /\ order' = Append(order, job)
    /\ Step("publish")
    /\ UNCHANGED verdict

Publish ==
    /\ pc = "publish"
    /\ files' = (files \ {<<job, "tmp">>}) \cup {<<job, "request">>}
    /\ order' = Append(order, job)
    /\ Step("wait")
    /\ UNCHANGED verdict

\* The rename fails after the handoff was marked uncertain.
PublishFails ==
    /\ pc = "publish"
    /\ Settle("failed")
    /\ UNCHANGED queueVars

ReadResponse ==
    /\ pc = "wait"
    /\ Step(IF Has(job, "response") THEN "responded" ELSE "unanswered")
    /\ UNCHANGED <<queueVars, verdict>>

\* Mutant: a response is taken before the running job is retired.
AwaitRetirement_Skipped ==
    /\ pc = "responded"
    /\ Step("retired")
    /\ UNCHANGED <<queueVars, verdict>>

\* A response counts only once the service has retired the job.
AwaitRetirement ==
    /\ pc = "responded"
    /\ Step(IF Has(job, "running") THEN "wait" ELSE "retired")
    /\ UNCHANGED <<queueVars, verdict>>

Succeed ==
    /\ pc = "retired"
    /\ ~Has(job, "error")
    /\ Clean("preview")
    /\ UNCHANGED queueVars

\* Both receipts, an unreadable file or an invalid result: nothing is erased.
Ambiguous ==
    /\ pc \in {"wait", "responded", "retired", "unanswered", "erred"}
    /\ Settle("failed")
    /\ UNCHANGED queueVars

ReadError ==
    /\ pc = "unanswered"
    /\ Step(IF Has(job, "error") THEN "erred" ELSE "wait")
    /\ UNCHANGED <<queueVars, verdict>>

Refused ==
    /\ pc = "erred"
    /\ IF Has(job, "running") THEN Step("wait") /\ UNCHANGED verdict
       ELSE Clean("refused")
    /\ UNCHANGED queueVars

\* Mutant: a timed-out job is cleaned up.
Deadline_Erases ==
    /\ pc = "wait"
    /\ files' = files \cup {<<job, "cancel">>}
    /\ Clean("failed")
    /\ UNCHANGED order

\* Mutant: the wait ends only while the service has not taken the job.
Deadline_Unclaimed ==
    /\ pc = "wait"
    /\ Has(job, "request")
    /\ files' = files \cup {<<job, "cancel">>}
    /\ Settle("failed")
    /\ UNCHANGED order

\* The wait is over: a marker asks the service to cancel.
Deadline ==
    /\ pc = "wait"
    /\ files' \in {files, files \cup {<<job, "cancel">>}}
    /\ Settle("failed")
    /\ UNCHANGED order

\* What the finally clause still has to unlink; a refusal keeps its receipt.
Leftover ==
    {k \in Kinds : Has(job, k) /\ ~(verdict = "refused" /\ k = "error")}

UnlinkOrder ==
    <<"input", "request", "tmp", "response", "error", "cancel", "running",
      "rtmp">>

Unlink ==
    /\ pc = "cleaning"
    /\ \E i \in 1..8 :
          LET k == UnlinkOrder[i]
          IN  /\ k \in Leftover
              /\ \A h \in 1..(i - 1) : UnlinkOrder[h] \notin Leftover
              /\ files' = files \ {<<job, k>>}
              /\ order' = IF k = "request" THEN Remove(order, job) ELSE order
    /\ UNCHANGED <<appVars, svcVars>>

\* The slot is free again and the handler has its outcome.
Finish ==
    /\ \/ pc = "done"
       \/ pc = "cleaning" /\ Leftover = {}
    /\ handler' = [handler EXCEPT ![job] = verdict]
    /\ job' = NoJob
    /\ pc' = "idle"
    /\ verdict' = "none"
    /\ UNCHANGED <<queueVars, svcVars, upload, app, blocked, mine>>
-----------------------------------------------------------------------------
(* The parser service and its child.                                       *)

Serving(next) == svc' = next /\ UNCHANGED <<appVars, served, runs>>

\* Mutant: an interrupted job is queued again.
SvcStart_Requeues ==
    /\ svc = "down"
    /\ Serving("scan")
    /\ files' = {IF f[2] = "running" THEN <<f[1], "request">> ELSE f : f \in files}
    /\ order' = order \o SetToSeq({j \in Jobs : Has(j, "running")})
    /\ UNCHANGED child

\* serve() refuses to start over unresolved files.
SvcStart ==
    /\ svc = "down"
    /\ Unresolved = {}
    /\ Serving("scan")
    /\ UNCHANGED <<queueVars, child>>

\* The oldest request becomes the running job.
Claim ==
    /\ svc = "scan"
    /\ order # <<>>
    /\ served' = Head(order)
    /\ order' = Tail(order)
    /\ files' = (files \ {<<Head(order), "request">>})
                    \cup {<<Head(order), "running">>}
    /\ svc' = "claimed"
    /\ UNCHANGED <<appVars, child, runs>>

Spawn ==
    /\ svc = "claimed"
    /\ Has(served, "input")
    /\ svc' = "child"
    /\ child' = "parsing"
    /\ runs' = [runs EXCEPT ![served] = @ + 1]
    /\ UNCHANGED <<queueVars, appVars, served>>

\* The request or its input does not check out.
Reject ==
    /\ svc = "claimed"
    /\ Serving("error")
    /\ UNCHANGED <<queueVars, child>>

\* The child writes a temporary file, renames it and exits.
ChildWrites ==
    /\ child = "parsing"
    /\ files' = files \cup {<<served, "rtmp">>}
    /\ child' = "wrote"
    /\ UNCHANGED <<order, appVars, svc, served, runs>>

ChildPublishes ==
    /\ child = "wrote"
    /\ files' = (files \ {<<served, "rtmp">>}) \cup {<<served, "response">>}
    /\ child' = "published"
    /\ UNCHANGED <<order, appVars, svc, served, runs>>

ChildExits ==
    /\ child = "published"
    /\ child' = "exited"
    /\ UNCHANGED <<queueVars, appVars, svc, served, runs>>

\* The child fails, or is killed at the deadline, on cancellation or when the
\* service stops; a killed child leaves its temporary file.
ChildFails ==
    /\ child \in {"parsing", "wrote", "published"}
    /\ child' = "failed"
    /\ UNCHANGED <<queueVars, appVars, svc, served, runs>>

Reap ==
    /\ svc = "child"
    /\ child \in {"exited", "failed"}
    /\ Serving(IF child = "exited" /\ Has(served, "response")
               THEN "retire" ELSE "error")
    /\ child' = "none"
    /\ UNCHANGED queueVars

WriteError ==
    /\ svc = "error"
    /\ files' = files \cup {<<served, "error">>}
    /\ Serving("retire")
    /\ UNCHANGED <<order, child>>

\* Even the receipt cannot be written: the job is retired and serve() ends.
WriteErrorFails ==
    /\ svc = "error"
    /\ files' = files \ ({served} \X {"running", "tmp", "rtmp"})
    /\ svc' = "down"
    /\ served' = NoJob
    /\ UNCHANGED <<order, appVars, child, runs>>

\* Mutant: a job without a response is not retired.
Retire_OnlyAnswered ==
    /\ svc = "retire"
    /\ Has(served, "response")
    /\ files' = files \ {<<served, "running">>}
    /\ Serving("sweep")
    /\ UNCHANGED <<order, child>>

\* The finally clause: the running file first, then what a child left behind.
Retire ==
    /\ svc = "retire"
    /\ files' = files \ {<<served, "running">>}
    /\ Serving("sweep")
    /\ UNCHANGED <<order, child>>

Sweep ==
    /\ svc = "sweep"
    /\ files' = files \ ({served} \X {"tmp", "rtmp"})
    /\ svc' = "scan"
    /\ served' = NoJob
    /\ UNCHANGED <<order, appVars, child, runs>>

\* The service stops between jobs or dies with its child; dying while it writes
\* a receipt leaves the temporary file.
SvcStop ==
    /\ svc # "down"
    /\ \/ UNCHANGED files
       \/ svc = "error" /\ files' = files \cup {<<served, "rtmp">>}
    /\ svc' = "down"
    /\ served' = NoJob
    /\ child' = "none"
    /\ UNCHANGED <<order, appVars, runs>>

\* External: with both services stopped, an operator reviews the queue and
\* preserves its files elsewhere.
OperatorReviews ==
    /\ app # "up"
    /\ svc = "down"
    /\ files # {}
    /\ files' = {}
    /\ order' = <<>>
    /\ UNCHANGED <<appVars, svcVars>>

\* What a handler does next, and queue_parser up to its deadline.
AppWork ==
    \/ \E j \in Jobs : TakeSlot(j) \/ TurnAway(j) \/ Record(j)
    \/ WriteInput
    \/ WriteRequest
    \/ WriteFails
    \/ Publish
    \/ PublishFails
    \/ ReadResponse
    \/ AwaitRetirement
    \/ Succeed
    \/ Ambiguous
    \/ ReadError
    \/ Refused
    \/ Unlink
    \/ Finish

ServeJob ==
    \/ Claim
    \/ Spawn
    \/ Reject
    \/ Reap
    \/ WriteError
    \/ Retire
    \/ Sweep

ChildNext == ChildWrites \/ ChildPublishes \/ ChildExits \/ ChildFails

Next ==
    \/ AppStart
    \/ AppCrash
    \/ StoreBlocks
    \/ \E j \in Jobs : Submit(j)
    \/ AppWork
    \/ Deadline
    \/ ServeJob
    \/ ChildNext
    \/ WriteErrorFails
    \/ SvcStart
    \/ SvcStop
    \/ OperatorReviews

\* The app and the service keep working while they live.  A child ends: its CPU
\* time is limited and the service kills it at its own deadline.  The app polls
\* until its monotonic clock passes the deadline, so a wait that is tested for
\* it again and again does end.
Fairness ==
    /\ WF_vars(AppWork)
    /\ SF_vars(Deadline)
    /\ WF_vars(ServeJob)
    /\ WF_vars(ChildNext)

Spec == Init /\ [][Next]_vars /\ Fairness
-----------------------------------------------------------------------------
\* The queue of requests matches the files.
OrderOK ==
    /\ order \in Seq(Jobs)
    /\ IsInjective(order)
    /\ \A j \in Jobs : Has(j, "request") <=> \E i \in 1..Len(order) : order[i] = j

\* Every variable keeps its shape, and the queue of requests matches the files.
TypeOK ==
    /\ files \subseteq Jobs \X Kinds
    /\ OrderOK
    /\ upload \in [Jobs -> {"uploaded", "parsing", "preview", "failed", "refused",
                            "unsaved", "needs_review"}]
    /\ app \in {"down", "up", "failed"}
    /\ blocked \in BOOLEAN
    /\ mine \subseteq Jobs
    /\ handler \in [Jobs -> {"none", "slot", "queue", "preview", "failed", "refused"}]
    /\ job = NoJob <=> pc = "idle"
    /\ job \in Jobs \cup {NoJob}
    /\ pc \in {"idle", "input", "tmp", "publish", "wait", "responded", "retired",
               "unanswered", "erred", "cleaning", "done"}
    /\ verdict \in {"none", "preview", "failed", "refused"}
    /\ svc \in {"down", "scan", "claimed", "child", "error", "retire", "sweep"}
    /\ served \in Jobs \cup {NoJob}
    /\ child \in {"none", "parsing", "wrote", "published", "exited", "failed"}
    /\ runs \in [Jobs -> Nat]

\* Taking a response too early would let cleanup create a false error receipt
\* for a successful import.  A previewed upload has none.
NoFalseErrorReceipt ==
    \A j \in Jobs : upload[j] = "preview" =>
        ~Has(j, "error") /\ ~(served = j /\ svc = "error")

\* A job that ran and whose upload failed keeps a file that makes the next start
\* ask for an operator.
TimedOutStaysVisible ==
    app = "up" => \A j \in mine :
        upload[j] = "failed" /\ runs[j] > 0 => \E f \in Unresolved : f[1] = j

\* isolation.py: what the queue shows of a job is what became of it.  An import
\* that succeeded has no error receipt, and a timed out or ambiguous job
\* remains visible to recovery.
QueueTellsOutcome == NoFalseErrorReceipt /\ TimedOutStaysVisible

\* What an earlier life of the app left behind never meets new work: an app that
\* accepts it has no unresolved leftovers in its queue, and no upload still
\* marked as being parsed, which no request could parse again.
NoWorkOverLeftovers ==
    app = "up" /\ ~blocked =>
        /\ \A f \in Unresolved : f[1] \in mine
        /\ Interrupted \subseteq mine

\* The job whose child has not been reaped.
Running == IF child = "none" THEN {} ELSE {served}

Parse == INSTANCE ParseJobs WITH running <- Running

\* Whichever process dies, is restarted or is late: no parse is repeated
\* automatically (server.py), a preview comes from the one run of its job, nothing but a failure is announced while the parser
\* works, and a parse that was answered otherwise, or handed to a reviewer at a
\* restart, never runs again (isolation.py, create_app and parse_upload).
ImplementsParseJobs == Parse!Spec

\* Every request for a parse ends, even if the service dies or never starts.
ParseEnds == \A j \in Jobs : handler[j] # "none" ~> handler[j] = "none"

\* A claimed job is retired, or its service died.
ClaimedIsRetired == \A j \in Jobs : served = j ~> served # j

\* OPERATIONS.md: a restart over an interrupted queue blocks the app, which
\* then still serves reads.
RestartServes == app # "failed"
=============================================================================
