------------------------------ MODULE ParseJobs ------------------------------
(***************************************************************************)
(* What a user who asks for a parse may rely on, however app, parser       *)
(* service and child die: the parser runs at most once; only a failure is  *)
(* announced while it runs or might still be started; a preview was made   *)
(* by the run; and what a restart hands to a reviewer is over.             *)
(* ParserQueue implements this with a directory of files and two           *)
(* processes.                                                              *)
(***************************************************************************)
EXTENDS Naturals

CONSTANT Jobs  \* the parses that are ever asked for

VARIABLES upload,   \* the status of the upload record each job parses;
                    \* "refused" and "unsaved" are kinds of the code's "failed"
          runs,     \* how often each job was run
          running   \* the jobs a parser works on

vars == <<upload, runs, running>>

Init ==
    /\ upload = [j \in Jobs |-> "uploaded"]
    /\ runs = [j \in Jobs |-> 0]
    /\ running = {}

Ask(j) ==
    /\ upload[j] = "uploaded"
    /\ upload' = [upload EXCEPT ![j] = "parsing"]
    /\ UNCHANGED <<runs, running>>

\* Nobody may be waiting any more: a parse that timed out can still start.
Run(j) ==
    /\ upload[j] \in {"parsing", "failed"}
    /\ runs[j] = 0
    /\ runs' = [runs EXCEPT ![j] = 1]
    /\ running' = running \cup {j}
    /\ UNCHANGED upload

\* The parser is done, fails, or is killed.
End(j) ==
    /\ j \in running
    /\ running' = running \ {j}
    /\ UNCHANGED <<upload, runs>>

\* A preview needs a run, whether or not it can be saved; an error receipt
\* needs none; and both are given when the parser has stopped.
Answer(j, status) ==
    /\ upload[j] = "parsing"
    /\ status \in {"preview", "unsaved"} => runs[j] = 1
    /\ status # "failed" => j \notin running
    /\ upload' = [upload EXCEPT ![j] = status]
    /\ UNCHANGED <<runs, running>>

\* A restart: whatever was asked for and not answered is left to a reviewer.
HandOver ==
    /\ running = {}
    /\ upload' = [j \in Jobs |-> IF upload[j] = "parsing" THEN "needs_review"
                                 ELSE upload[j]]
    /\ UNCHANGED <<runs, running>>

Next ==
    \/ \E j \in Jobs :
        \/ Ask(j) \/ Run(j) \/ End(j)
        \/ \E status \in {"preview", "unsaved", "failed", "refused"} :
                Answer(j, status)
    \/ HandOver

Spec == Init /\ [][Next]_vars
=============================================================================
