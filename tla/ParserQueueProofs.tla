------------------------- MODULE ParserQueueProofs -------------------------
(***************************************************************************)
(* Proofs about ParserQueue for any number of parses, and any placement of *)
(* deadlines, deaths and restarts of the app and of the parser service.    *)
(***************************************************************************)
EXTENDS ParserQueue, TLAPS

-----------------------------------------------------------------------------
(* The inductive invariant.                                                *)

\* The service works on a job that it has not retired.
Active == svc \in {"claimed", "child", "error", "retire"}

\* Nobody but the app has ever seen the job.
Fresh(j) ==
    /\ runs[j] = 0
    /\ served # j
    /\ \A k \in {"request", "running", "response", "error"} : ~Has(j, k)

\* Nobody but the app will ever touch the job again.
Closed(j) ==
    /\ ~Has(j, "request")
    /\ ~Has(j, "running")
    /\ served = j => svc = "sweep"

\* The slot, the handlers and the marks of the uploads agree.
AppInv ==
    /\ app # "up" => \A j \in Jobs : handler[j] = "none"
    /\ \A j \in Jobs : handler[j] = "queue" <=> job = j
    /\ \A j \in Jobs : handler[j] # "none" =>
           upload[j] = "parsing" /\ j \in mine
    /\ pc = "done" => verdict = "failed"
    /\ pc = "cleaning" => verdict # "none"

\* A request is new, a claimed job has its running file, and runs once.
ServiceInv ==
    /\ \A j \in Jobs : Has(j, "request") =>
           /\ runs[j] = 0
           /\ served # j
           /\ \A k \in {"running", "response", "error"} : ~Has(j, k)
    /\ svc \in {"down", "scan"} <=> served = NoJob
    /\ Active => Has(served, "running")
    /\ svc = "claimed" => runs[served] = 0
    /\ child # "none" => svc = "child"
    /\ \A j \in Jobs : runs[j] <= 1

\* How far each job has come: not published, answered, or over.
StageInv ==
    /\ \A j \in Jobs :
           upload[j] = "uploaded" \/ handler[j] = "slot" => Fresh(j)
    /\ pc \in {"input", "tmp", "publish"} => Fresh(job)
    /\ pc \in {"responded", "erred"} => ~Has(job, "request")
    /\ pc = "retired" => Closed(job)
    /\ pc = "cleaning" =>
           IF verdict = "failed" THEN Fresh(job) ELSE Closed(job)

\* A success has no error receipt.
SuccessInv ==
    /\ pc = "cleaning" /\ verdict = "preview" => ~Has(job, "error")
    /\ \A j \in Jobs : "preview" \in {handler[j], upload[j]} =>
           Closed(j) /\ ~Has(j, "error")

\* A failed job is one that was never published or that keeps its input.
FailureInv ==
    /\ pc \in {"tmp", "publish", "wait", "responded", "retired", "unanswered",
               "erred", "done"} => Has(job, "input")
    /\ app = "up" => \A j \in mine :
           "failed" \in {handler[j], upload[j]} => Fresh(j) \/ Has(j, "input")

IInv ==
    /\ TypeOK /\ AppInv /\ ServiceInv /\ StageInv /\ SuccessInv /\ FailureInv
    /\ NoWorkOverLeftovers
-----------------------------------------------------------------------------
(* The queue of requests.                                                  *)

\* A job that is not in the queue is put at its end.
LEMMA QueueAppend ==
    ASSUME NEW S, NEW s \in Seq(S), IsInjective(s), NEW e \in S,
           \A i \in 1..Len(s) : s[i] # e
    PROVE  LET t == Append(s, e)
           IN  /\ t \in Seq(S) /\ IsInjective(t)
               /\ \A x : (\E i \in 1..Len(t) : t[i] = x)
                         <=> x = e \/ \E i \in 1..Len(s) : s[i] = x
  <1> DEFINE t == Append(s, e)
  <1>1. /\ t \in Seq(S)
        /\ Len(t) = Len(s) + 1
        /\ \A i \in 1..Len(s) : t[i] = s[i]
        /\ t[Len(s) + 1] = e
    OBVIOUS
  <1>2. DOMAIN s = 1..Len(s) /\ DOMAIN t = 1..Len(t) /\ Len(s) \in Nat
    BY <1>1
  <1> HIDE DEF t
  <1>3. IsInjective(t)
    BY <1>1, <1>2 DEF IsInjective
  <1>4. \A x : (\E i \in 1..Len(t) : t[i] = x)
               <=> x = e \/ \E i \in 1..Len(s) : s[i] = x
    BY <1>1, <1>2
  <1> QED
    BY <1>1, <1>3, <1>4 DEF t

\* The oldest job leaves it.
LEMMA QueueTail ==
    ASSUME NEW S, NEW s \in Seq(S), IsInjective(s), s # <<>>
    PROVE  LET t == Tail(s)
           IN  /\ t \in Seq(S) /\ IsInjective(t)
               /\ \A x : (\E i \in 1..Len(t) : t[i] = x)
                         <=> x # Head(s) /\ \E i \in 1..Len(s) : s[i] = x
  <1> DEFINE t == Tail(s)
  <1>1. /\ t \in Seq(S)
        /\ Len(t) = Len(s) - 1
        /\ \A i \in 1..Len(t) : t[i] = s[i + 1]
        /\ Head(s) = s[1]
        /\ Len(s) \in Nat \ {0}
    OBVIOUS
  <1>2. DOMAIN s = 1..Len(s) /\ DOMAIN t = 1..Len(t)
    BY <1>1
  <1> HIDE DEF t
  <1>3. IsInjective(t)
    BY <1>1, <1>2 DEF IsInjective
  <1>4. ASSUME NEW x
        PROVE  (\E i \in 1..Len(t) : t[i] = x)
               <=> x # Head(s) /\ \E i \in 1..Len(s) : s[i] = x
    <2>1. ASSUME NEW i \in 1..Len(t), t[i] = x
          PROVE  x # Head(s) /\ \E h \in 1..Len(s) : s[h] = x
      <3>1. i + 1 \in 1..Len(s) /\ 1 \in 1..Len(s) /\ i + 1 # 1
        BY <1>1
      <3> QED
        BY <1>1, <1>2, <2>1, <3>1 DEF IsInjective
    <2>2. ASSUME NEW i \in 1..Len(s), s[i] = x, x # Head(s)
          PROVE  \E h \in 1..Len(t) : t[h] = x
      <3>1. i - 1 \in 1..Len(t) /\ (i - 1) + 1 = i
        BY <1>1, <2>2
      <3> QED
        BY <1>1, <2>2, <3>1
    <2> QED
      BY <2>1, <2>2
  <1> QED
    BY <1>1, <1>3, <1>4 DEF t

-----------------------------------------------------------------------------
(* Every step keeps the invariant.                                         *)

\* What the service does with the oldest request h.
Claims(h) ==
    /\ svc = "scan" /\ svc' = "claimed"
    /\ served' = h
    /\ files' = (files \ {<<h, "request">>}) \cup {<<h, "running">>}
    /\ UNCHANGED <<appVars, child, runs>>

\* The oldest request is one that the directory shows.
LEMMA Claimed ==
    ASSUME IInv, Claim
    PROVE  \E h \in Jobs : Has(h, "request") /\ Claims(h)
  <1>1. order \in Seq(Jobs) /\ order # <<>>
    BY DEF Claim, IInv, TypeOK, OrderOK
  <1>2. Head(order) \in Jobs /\ 1 \in 1..Len(order) /\ Head(order) = order[1]
    BY <1>1
  <1>3. Has(Head(order), "request")
    BY <1>2 DEF IInv, TypeOK, OrderOK
  <1> QED
    BY <1>2, <1>3 DEF Claim, Claims

\* The queue of requests follows the directory: the app appends what it has
\* not published before, the service takes the oldest.
LEMMA OrderStep ==
    IInv /\ [Next]_vars => OrderOK'
  <1> SUFFICES ASSUME IInv, [Next]_vars PROVE OrderOK'
    OBVIOUS
  <1> USE JobsAssumption DEF IInv
  <1>1. CASE WriteInput
    BY <1>1 DEF WriteInput, Step, svcVars, OrderOK, Has, TypeOK
  <1>2. CASE WriteRequest
    BY <1>2 DEF WriteRequest, Step, svcVars, OrderOK, Has, TypeOK
  <1>3. CASE WriteFails
    BY <1>3 DEF WriteFails, Clean, Step, svcVars, OrderOK, Has, TypeOK
  <1>4. CASE Publish
    <2>1. /\ job \in Jobs /\ \A i \in 1..Len(order) : order[i] # job
          /\ order \in Seq(Jobs) /\ IsInjective(order)
      BY <1>4 DEF Publish, StageInv, TypeOK, OrderOK, Fresh
    <2>2. order' = Append(order, job)
      BY <1>4 DEF Publish
    <2>3. /\ order' \in Seq(Jobs) /\ IsInjective(order')
          /\ \A x : (\E i \in 1..Len(order') : order'[i] = x)
                     <=> x = job \/ \E i \in 1..Len(order) : order[i] = x
      BY <2>1, <2>2, QueueAppend
    <2>4. \A j \in Jobs : Has(j, "request")' <=> j = job \/ Has(j, "request")
      BY <1>4 DEF Publish, Has
    <2> QED
      BY <2>3, <2>4 DEF TypeOK, OrderOK
  <1>5. CASE Unlink
    <2>1. ~Has(job, "request")
      BY <1>5 DEF Unlink, StageInv, Fresh, Closed
    <2>2. PICK i \in 1..8 :
             /\ UnlinkOrder[i] \in Leftover
             /\ files' = files \ {<<job, UnlinkOrder[i]>>}
             /\ order' = IF UnlinkOrder[i] = "request" THEN Remove(order, job)
                         ELSE order
      BY <1>5 DEF Unlink
    <2>3. UnlinkOrder[i] # "request"
      BY <2>1, <2>2 DEF Leftover
    <2>4. /\ order' = order
          /\ \A j \in Jobs : Has(j, "request")' <=> Has(j, "request")
      BY <2>2, <2>3 DEF Has
    <2> QED
      BY <2>4 DEF TypeOK, OrderOK
  <1>6. CASE Deadline
    BY <1>6 DEF Deadline, Settle, Step, svcVars, OrderOK, Has, TypeOK
  <1>7. CASE Claim
    <2>1. order # <<>> /\ order \in Seq(Jobs) /\ IsInjective(order)
      BY <1>7 DEF Claim, TypeOK, OrderOK
    <2>2. order' = Tail(order)
      BY <1>7 DEF Claim
    <2>3. /\ order' \in Seq(Jobs) /\ IsInjective(order')
          /\ \A x : (\E i \in 1..Len(order') : order'[i] = x)
                     <=> x # Head(order) /\ \E i \in 1..Len(order) : order[i] = x
      BY <2>1, <2>2, QueueTail
    <2>4. \A j \in Jobs : Has(j, "request")' <=>
                              j # Head(order) /\ Has(j, "request")
      BY <1>7 DEF Claim, Has
    <2> QED
      BY <2>3, <2>4 DEF TypeOK, OrderOK
  <1>8. CASE WriteError
    BY <1>8 DEF WriteError, Serving, appVars, callVars, OrderOK, Has, TypeOK
  <1>9. CASE Retire
    BY <1>9 DEF Retire, Serving, appVars, callVars, OrderOK, Has, TypeOK
  <1>10. CASE Sweep
    BY <1>10 DEF Sweep, appVars, callVars, OrderOK, Has, TypeOK
  <1>11. CASE ChildWrites
    BY <1>11 DEF ChildWrites, appVars, callVars, OrderOK, Has, TypeOK
  <1>12. CASE ChildPublishes
    BY <1>12 DEF ChildPublishes, appVars, callVars, OrderOK, Has, TypeOK
  <1>13. CASE WriteErrorFails
    BY <1>13 DEF WriteErrorFails, appVars, callVars, OrderOK, Has, TypeOK
  <1>14. CASE SvcStop
    BY <1>14 DEF SvcStop, appVars, callVars, OrderOK, Has, TypeOK
  <1>15. CASE OperatorReviews
    <2>1. order' = <<>> /\ files' = {}
      BY <1>15 DEF OperatorReviews
    <2> QED
      BY <2>1 DEF OrderOK, Has, IsInjective
  <1>16. CASE \/ AppStart
            \/ AppCrash
            \/ StoreBlocks
            \/ (\E j \in Jobs : Submit(j))
            \/ (\E j \in Jobs : TakeSlot(j))
            \/ (\E j \in Jobs : TurnAway(j))
            \/ (\E j \in Jobs : Record(j))
            \/ PublishFails
            \/ ReadResponse
            \/ AwaitRetirement
            \/ Succeed
            \/ Ambiguous
            \/ ReadError
            \/ Refused
            \/ Finish
            \/ Spawn
            \/ Reject
            \/ Reap
            \/ ChildExits
            \/ ChildFails
            \/ SvcStart
            \/ UNCHANGED vars
    BY <1>16 DEF AppStart, Interrupted, NeedsReview, queueVars, svcVars,
      callVars, AppCrash, StoreBlocks, Submit, TakeSlot, TurnAway, Record, PublishFails,
      Settle, Step, ReadResponse, AwaitRetirement, Succeed, Clean, Ambiguous,
      ReadError, Refused, Finish, Leftover, Spawn, appVars, Reject, Serving,
      Reap, ChildExits, ChildFails, SvcStart, vars, OrderOK, Has, TypeOK
  <1> QED
    BY <1>1, <1>2, <1>3, <1>4, <1>5, <1>6, <1>7, <1>8, <1>9, <1>10, <1>11,
      <1>12, <1>13, <1>14, <1>15, <1>16
      DEF Next, AppWork, ServeJob, ChildNext

\* Every step keeps the shape of the variables.
LEMMA TypeStep ==
    IInv /\ [Next]_vars /\ OrderOK' => TypeOK'
  <1> SUFFICES ASSUME IInv, [Next]_vars, OrderOK' PROVE TypeOK'
    OBVIOUS
  <1> USE JobsAssumption DEF IInv
  <1>1. CASE AppStart
    BY <1>1 DEF AppStart, Interrupted, NeedsReview, queueVars, svcVars,
      callVars, TypeOK, Kinds
  <1>2. CASE AppCrash
    BY <1>2 DEF AppCrash, queueVars, svcVars, TypeOK, Kinds
  <1>3. CASE StoreBlocks
    BY <1>3 DEF StoreBlocks, queueVars, svcVars, callVars, TypeOK, Kinds
  <1>4. ASSUME NEW j \in Jobs, Submit(j) PROVE TypeOK'
    BY <1>4 DEF Submit, queueVars, svcVars, callVars, TypeOK, Kinds
  <1>5. ASSUME NEW j \in Jobs, TakeSlot(j) PROVE TypeOK'
    BY <1>5 DEF TakeSlot, queueVars, svcVars, TypeOK, Kinds
  <1>6. ASSUME NEW j \in Jobs, TurnAway(j) PROVE TypeOK'
    BY <1>6 DEF TurnAway, queueVars, svcVars, callVars, TypeOK, Kinds
  <1>7. ASSUME NEW j \in Jobs, Record(j) PROVE TypeOK'
    BY <1>7 DEF Record, queueVars, svcVars, callVars, TypeOK, Kinds
  <1>8. CASE WriteInput
    BY <1>8 DEF WriteInput, Step, svcVars, TypeOK, Kinds
  <1>9. CASE WriteRequest
    BY <1>9 DEF WriteRequest, Step, svcVars, TypeOK, Kinds
  <1>10. CASE WriteFails
    BY <1>10 DEF WriteFails, Clean, Step, svcVars, TypeOK, Kinds
  <1>11. CASE Publish
    BY <1>11 DEF Publish, Step, svcVars, TypeOK, Kinds
  <1>12. CASE PublishFails
    BY <1>12 DEF PublishFails, Settle, queueVars, Step, svcVars, TypeOK, Kinds
  <1>13. CASE ReadResponse
    BY <1>13 DEF ReadResponse, Step, queueVars, svcVars, TypeOK, Kinds
  <1>14. CASE AwaitRetirement
    BY <1>14 DEF AwaitRetirement, Step, queueVars, svcVars, TypeOK, Kinds
  <1>15. CASE Succeed
    BY <1>15 DEF Succeed, Clean, queueVars, Step, svcVars, TypeOK, Kinds
  <1>16. CASE Ambiguous
    BY <1>16 DEF Ambiguous, Settle, queueVars, Step, svcVars, TypeOK, Kinds
  <1>17. CASE ReadError
    BY <1>17 DEF ReadError, Step, queueVars, svcVars, TypeOK, Kinds
  <1>18. CASE Refused
    BY <1>18 DEF Refused, Step, Clean, queueVars, svcVars, TypeOK, Kinds
  <1>19. CASE Unlink
    BY <1>19 DEF Unlink, UnlinkOrder, Leftover, appVars, svcVars, callVars,
      TypeOK, Kinds
  <1>20. CASE Finish
    BY <1>20 DEF Finish, Leftover, queueVars, svcVars, TypeOK, Kinds
  <1>21. CASE Deadline
    BY <1>21 DEF Deadline, Settle, Step, svcVars, TypeOK, Kinds
  <1>22. CASE Claim
    <2>1. PICK h \in Jobs : Has(h, "request") /\ Claims(h)
      BY <1>22, Claimed
    <2> QED
      BY <2>1 DEF Claims, TypeOK, Kinds, appVars, callVars
  <1>23. CASE Spawn
    BY <1>23 DEF Spawn, queueVars, appVars, callVars, TypeOK, Kinds, ServiceInv,
      Active
  <1>24. CASE Reject
    BY <1>24 DEF Reject, Serving, queueVars, appVars, callVars, TypeOK, Kinds
  <1>25. CASE Reap
    BY <1>25 DEF Reap, Serving, queueVars, appVars, callVars, TypeOK, Kinds
  <1>26. CASE WriteError
    BY <1>26 DEF WriteError, Serving, appVars, callVars, TypeOK, Kinds,
      ServiceInv, Active
  <1>27. CASE Retire
    BY <1>27 DEF Retire, Serving, appVars, callVars, TypeOK, Kinds
  <1>28. CASE Sweep
    BY <1>28 DEF Sweep, appVars, callVars, TypeOK, Kinds
  <1>29. CASE ChildWrites
    BY <1>29 DEF ChildWrites, appVars, callVars, TypeOK, Kinds, ServiceInv, Active
  <1>30. CASE ChildPublishes
    BY <1>30 DEF ChildPublishes, appVars, callVars, TypeOK, Kinds, ServiceInv,
      Active
  <1>31. CASE ChildExits
    BY <1>31 DEF ChildExits, queueVars, appVars, callVars, TypeOK, Kinds
  <1>32. CASE ChildFails
    BY <1>32 DEF ChildFails, queueVars, appVars, callVars, TypeOK, Kinds
  <1>33. CASE WriteErrorFails
    BY <1>33 DEF WriteErrorFails, appVars, callVars, TypeOK, Kinds
  <1>34. CASE SvcStart
    BY <1>34 DEF SvcStart, Serving, queueVars, appVars, callVars, TypeOK, Kinds
  <1>35. CASE SvcStop
    BY <1>35 DEF SvcStop, appVars, callVars, TypeOK, Kinds, ServiceInv, Active
  <1>36. CASE OperatorReviews
    BY <1>36 DEF OperatorReviews, appVars, svcVars, callVars, TypeOK, Kinds
  <1>37. CASE UNCHANGED vars
    BY <1>37 DEF vars, queueVars, appVars, callVars, svcVars, TypeOK
  <1> QED
    BY <1>1, <1>2, <1>3, <1>4, <1>5, <1>6, <1>7, <1>8, <1>9, <1>10, <1>11,
      <1>12, <1>13, <1>14, <1>15, <1>16, <1>17, <1>18, <1>19, <1>20, <1>21, <1>22,
      <1>23, <1>24, <1>25, <1>26, <1>27, <1>28, <1>29, <1>30, <1>31, <1>32,
      <1>33, <1>34, <1>35, <1>36, <1>37
      DEF Next, AppWork, ServeJob, ChildNext

\* Handlers, marks and the slot: only a request that has a mark takes the slot.
LEMMA AppStep ==
    IInv /\ [Next]_vars => AppInv'
  <1> SUFFICES ASSUME IInv, [Next]_vars PROVE AppInv'
    OBVIOUS
  <1> USE JobsAssumption DEF IInv
  <1>1. CASE AppStart
    BY <1>1 DEF AppStart, Interrupted, NeedsReview, queueVars, svcVars,
      callVars, AppInv
  <1>2. CASE AppCrash
    BY <1>2 DEF AppCrash, queueVars, svcVars, AppInv
  <1>3. ASSUME NEW j \in Jobs, Submit(j) PROVE AppInv'
    BY <1>3 DEF Submit, queueVars, svcVars, callVars, AppInv, TypeOK
  <1>4. ASSUME NEW j \in Jobs, TakeSlot(j) PROVE AppInv'
    BY <1>4 DEF TakeSlot, queueVars, svcVars, AppInv, TypeOK
  <1>5. ASSUME NEW j \in Jobs, TurnAway(j) PROVE AppInv'
    BY <1>5 DEF TurnAway, queueVars, svcVars, callVars, AppInv
  <1>6. ASSUME NEW j \in Jobs, Record(j) PROVE AppInv'
    BY <1>6 DEF Record, queueVars, svcVars, callVars, AppInv, TypeOK
  <1>7. CASE WriteInput
    BY <1>7 DEF WriteInput, Step, svcVars, AppInv
  <1>8. CASE WriteRequest
    BY <1>8 DEF WriteRequest, Step, svcVars, AppInv
  <1>9. CASE WriteFails
    BY <1>9 DEF WriteFails, Clean, Step, svcVars, AppInv
  <1>10. CASE Publish
    BY <1>10 DEF Publish, Step, svcVars, AppInv
  <1>11. CASE PublishFails
    BY <1>11 DEF PublishFails, Settle, queueVars, Step, svcVars, AppInv
  <1>12. CASE ReadResponse
    BY <1>12 DEF ReadResponse, Step, queueVars, svcVars, AppInv
  <1>13. CASE AwaitRetirement
    BY <1>13 DEF AwaitRetirement, Step, queueVars, svcVars, AppInv
  <1>14. CASE Succeed
    BY <1>14 DEF Succeed, Clean, queueVars, Step, svcVars, AppInv
  <1>15. CASE Ambiguous
    BY <1>15 DEF Ambiguous, Settle, queueVars, Step, svcVars, AppInv
  <1>16. CASE ReadError
    BY <1>16 DEF ReadError, Step, queueVars, svcVars, AppInv
  <1>17. CASE Refused
    BY <1>17 DEF Refused, Step, Clean, queueVars, svcVars, AppInv
  <1>18. CASE Finish
    BY <1>18 DEF Finish, Leftover, queueVars, svcVars, AppInv, TypeOK
  <1>19. CASE Deadline
    BY <1>19 DEF Deadline, Settle, Step, svcVars, AppInv
  <1>20. CASE \/ StoreBlocks
            \/ Unlink
            \/ Claim
            \/ Spawn
            \/ Reject
            \/ Reap
            \/ WriteError
            \/ Retire
            \/ Sweep
            \/ ChildWrites
            \/ ChildPublishes
            \/ ChildExits
            \/ ChildFails
            \/ WriteErrorFails
            \/ SvcStart
            \/ SvcStop
            \/ OperatorReviews
            \/ UNCHANGED vars
    BY <1>20 DEF StoreBlocks, queueVars, svcVars, callVars, Unlink, UnlinkOrder,
      Leftover, appVars, Claim, Spawn, Reject, Serving, Reap, WriteError,
      Retire, Sweep, ChildWrites, ChildPublishes, ChildExits, ChildFails,
      WriteErrorFails, SvcStart, SvcStop, OperatorReviews, vars, AppInv
  <1> QED
    BY <1>1, <1>2, <1>3, <1>4, <1>5, <1>6, <1>7, <1>8, <1>9, <1>10, <1>11,
      <1>12, <1>13, <1>14, <1>15, <1>16, <1>17, <1>18, <1>19, <1>20
      DEF Next, AppWork, ServeJob, ChildNext

\* The service claims what is new, and keeps the running file until it retires
\* the job; the app unlinks nothing before that.
LEMMA ServiceStep ==
    IInv /\ [Next]_vars => ServiceInv'
  <1> SUFFICES ASSUME IInv, [Next]_vars PROVE ServiceInv'
    OBVIOUS
  <1> USE JobsAssumption DEF IInv
  <1>1. CASE WriteInput
    BY <1>1 DEF WriteInput, Step, svcVars, ServiceInv, Active, Has
  <1>2. CASE WriteRequest
    BY <1>2 DEF WriteRequest, Step, svcVars, ServiceInv, Active, Has
  <1>3. CASE WriteFails
    BY <1>3 DEF WriteFails, Clean, Step, svcVars, ServiceInv, Active, Has
  <1>4. CASE Publish
    BY <1>4 DEF Publish, Step, svcVars, ServiceInv, Active, Has, TypeOK, StageInv,
      Fresh, Closed
  <1>5. CASE Unlink
    BY <1>5 DEF Unlink, UnlinkOrder, Leftover, appVars, svcVars, callVars,
      ServiceInv, Active, Has, TypeOK, StageInv, Fresh, Closed
  <1>6. CASE Deadline
    BY <1>6 DEF Deadline, Settle, Step, svcVars, ServiceInv, Active, Has
  <1>7. CASE Claim
    <2>1. PICK h \in Jobs : Has(h, "request") /\ Claims(h)
      BY <1>7, Claimed
    <2> QED
      BY <2>1 DEF Claims, ServiceInv, TypeOK, Active, Has
  <1>8. CASE Spawn
    BY <1>8 DEF Spawn, queueVars, appVars, callVars, ServiceInv, Active, Has
  <1>9. CASE Reject
    BY <1>9 DEF Reject, Serving, queueVars, appVars, callVars, ServiceInv, Active,
      Has
  <1>10. CASE Reap
    BY <1>10 DEF Reap, Serving, queueVars, appVars, callVars, ServiceInv, Active,
      Has
  <1>11. CASE WriteError
    BY <1>11 DEF WriteError, Serving, appVars, callVars, ServiceInv, Active, Has
  <1>12. CASE Retire
    BY <1>12 DEF Retire, Serving, appVars, callVars, ServiceInv, Active, Has
  <1>13. CASE Sweep
    BY <1>13 DEF Sweep, appVars, callVars, ServiceInv, Active, Has
  <1>14. CASE ChildWrites
    BY <1>14 DEF ChildWrites, appVars, callVars, ServiceInv, Active, Has
  <1>15. CASE ChildPublishes
    BY <1>15 DEF ChildPublishes, appVars, callVars, ServiceInv, Active, Has
  <1>16. CASE ChildExits
    BY <1>16 DEF ChildExits, queueVars, appVars, callVars, ServiceInv, Active, Has
  <1>17. CASE ChildFails
    BY <1>17 DEF ChildFails, queueVars, appVars, callVars, ServiceInv, Active, Has
  <1>18. CASE WriteErrorFails
    BY <1>18 DEF WriteErrorFails, appVars, callVars, ServiceInv, Active, Has
  <1>19. CASE SvcStart
    BY <1>19 DEF SvcStart, Serving, queueVars, appVars, callVars, ServiceInv,
      Active, Has
  <1>20. CASE SvcStop
    BY <1>20 DEF SvcStop, appVars, callVars, ServiceInv, Active, Has
  <1>21. CASE OperatorReviews
    BY <1>21 DEF OperatorReviews, appVars, svcVars, callVars, ServiceInv, Active,
      Has
  <1>22. CASE \/ AppStart
            \/ AppCrash
            \/ StoreBlocks
            \/ (\E j \in Jobs : Submit(j))
            \/ (\E j \in Jobs : TakeSlot(j))
            \/ (\E j \in Jobs : TurnAway(j))
            \/ (\E j \in Jobs : Record(j))
            \/ PublishFails
            \/ ReadResponse
            \/ AwaitRetirement
            \/ Succeed
            \/ Ambiguous
            \/ ReadError
            \/ Refused
            \/ Finish
            \/ UNCHANGED vars
    BY <1>22 DEF AppStart, Interrupted, NeedsReview, queueVars, svcVars,
      callVars, AppCrash, StoreBlocks, Submit, TakeSlot, TurnAway, Record, PublishFails,
      Settle, Step, ReadResponse, AwaitRetirement, Succeed, Clean, Ambiguous,
      ReadError, Refused, Finish, Leftover, vars, appVars, ServiceInv, Active,
      Has
  <1> QED
    BY <1>1, <1>2, <1>3, <1>4, <1>5, <1>6, <1>7, <1>8, <1>9, <1>10, <1>11,
      <1>12, <1>13, <1>14, <1>15, <1>16, <1>17, <1>18, <1>19, <1>20, <1>21, <1>22
      DEF Next, AppWork, ServeJob, ChildNext

\* A job is not touched before it is published nor after it is over.
LEMMA StageStep ==
    IInv /\ [Next]_vars => StageInv'
  <1> SUFFICES ASSUME IInv, [Next]_vars PROVE StageInv'
    OBVIOUS
  <1> USE JobsAssumption DEF IInv
  <1>1. CASE AppStart
    BY <1>1 DEF AppStart, Interrupted, NeedsReview, queueVars, svcVars,
      callVars, StageInv, Has, Fresh, Closed
  <1>2. CASE AppCrash
    BY <1>2 DEF AppCrash, queueVars, svcVars, StageInv, Has, Fresh, Closed
  <1>3. ASSUME NEW j \in Jobs, Submit(j) PROVE StageInv'
    BY <1>3 DEF Submit, queueVars, svcVars, callVars, StageInv, Has, Fresh, Closed
  <1>4. ASSUME NEW j \in Jobs, TakeSlot(j) PROVE StageInv'
    BY <1>4 DEF TakeSlot, queueVars, svcVars, StageInv, Has, Fresh, Closed
  <1>5. ASSUME NEW j \in Jobs, TurnAway(j) PROVE StageInv'
    BY <1>5 DEF TurnAway, queueVars, svcVars, callVars, StageInv, Has, Fresh,
      Closed
  <1>6. ASSUME NEW j \in Jobs, Record(j) PROVE StageInv'
    BY <1>6 DEF Record, queueVars, svcVars, callVars, StageInv, Has, Fresh,
      Closed, TypeOK
  <1>7. CASE WriteInput
    BY <1>7 DEF WriteInput, Step, svcVars, StageInv, Has, Fresh, Closed
  <1>8. CASE WriteRequest
    BY <1>8 DEF WriteRequest, Step, svcVars, StageInv, Has, Fresh, Closed
  <1>9. CASE WriteFails
    BY <1>9 DEF WriteFails, Clean, Step, svcVars, StageInv, Has, Fresh, Closed
  <1>10. CASE Publish
    BY <1>10 DEF Publish, Step, svcVars, StageInv, Has, Fresh, Closed, TypeOK,
      AppInv
  <1>11. CASE PublishFails
    BY <1>11 DEF PublishFails, Settle, queueVars, Step, svcVars, StageInv, Has,
      Fresh, Closed
  <1>12. CASE ReadResponse
    BY <1>12 DEF ReadResponse, Step, queueVars, svcVars, StageInv, Has, Fresh,
      Closed, TypeOK, ServiceInv, Active
  <1>13. CASE AwaitRetirement
    BY <1>13 DEF AwaitRetirement, Step, queueVars, svcVars, StageInv, Has, Fresh,
      Closed, TypeOK, ServiceInv, Active
  <1>14. CASE Succeed
    BY <1>14 DEF Succeed, Clean, queueVars, Step, svcVars, StageInv, Has, Fresh,
      Closed
  <1>15. CASE Ambiguous
    BY <1>15 DEF Ambiguous, Settle, queueVars, Step, svcVars, StageInv, Has,
      Fresh, Closed
  <1>16. CASE ReadError
    BY <1>16 DEF ReadError, Step, queueVars, svcVars, StageInv, Has, Fresh,
      Closed, TypeOK, ServiceInv, Active
  <1>17. CASE Refused
    BY <1>17 DEF Refused, Step, Clean, queueVars, svcVars, StageInv, Has, Fresh,
      Closed, TypeOK, ServiceInv, Active
  <1>18. CASE Unlink
    BY <1>18 DEF Unlink, UnlinkOrder, Leftover, appVars, svcVars, callVars,
      StageInv, Has, Fresh, Closed
  <1>19. CASE Finish
    BY <1>19 DEF Finish, Leftover, queueVars, svcVars, StageInv, Has, Fresh,
      Closed, TypeOK
  <1>20. CASE Deadline
    BY <1>20 DEF Deadline, Settle, Step, svcVars, StageInv, Has, Fresh, Closed
  <1>21. CASE Claim
    <2>1. PICK h \in Jobs : Has(h, "request") /\ Claims(h)
      BY <1>21, Claimed
    <2> QED
      BY <2>1 DEF Claims, StageInv, TypeOK, Has, Fresh, Closed, appVars, callVars
  <1>22. CASE Spawn
    BY <1>22 DEF Spawn, queueVars, appVars, callVars, StageInv, Has, Fresh, Closed
  <1>23. CASE Reject
    BY <1>23 DEF Reject, Serving, queueVars, appVars, callVars, StageInv, Has,
      Fresh, Closed
  <1>24. CASE Reap
    BY <1>24 DEF Reap, Serving, queueVars, appVars, callVars, StageInv, Has,
      Fresh, Closed
  <1>25. CASE WriteError
    BY <1>25 DEF WriteError, Serving, appVars, callVars, StageInv, Has, Fresh,
      Closed
  <1>26. CASE Retire
    BY <1>26 DEF Retire, Serving, appVars, callVars, StageInv, Has, Fresh, Closed
  <1>27. CASE Sweep
    BY <1>27 DEF Sweep, appVars, callVars, StageInv, Has, Fresh, Closed, TypeOK
  <1>28. CASE ChildWrites
    BY <1>28 DEF ChildWrites, appVars, callVars, StageInv, Has, Fresh, Closed
  <1>29. CASE ChildPublishes
    BY <1>29 DEF ChildPublishes, appVars, callVars, StageInv, Has, Fresh, Closed
  <1>30. CASE WriteErrorFails
    BY <1>30 DEF WriteErrorFails, appVars, callVars, StageInv, Has, Fresh, Closed,
      TypeOK
  <1>31. CASE SvcStart
    BY <1>31 DEF SvcStart, Serving, queueVars, appVars, callVars, StageInv, Has,
      Fresh, Closed
  <1>32. CASE SvcStop
    BY <1>32 DEF SvcStop, appVars, callVars, StageInv, Has, Fresh, Closed, TypeOK
  <1>33. CASE OperatorReviews
    BY <1>33 DEF OperatorReviews, appVars, svcVars, callVars, StageInv, Has,
      Fresh, Closed
  <1>34. CASE \/ StoreBlocks
            \/ ChildExits
            \/ ChildFails
            \/ UNCHANGED vars
    BY <1>34 DEF StoreBlocks, queueVars, svcVars, callVars, ChildExits, appVars,
      ChildFails, vars, StageInv, Has, Fresh, Closed
  <1> QED
    BY <1>1, <1>2, <1>3, <1>4, <1>5, <1>6, <1>7, <1>8, <1>9, <1>10, <1>11,
      <1>12, <1>13, <1>14, <1>15, <1>16, <1>17, <1>18, <1>19, <1>20, <1>21, <1>22,
      <1>23, <1>24, <1>25, <1>26, <1>27, <1>28, <1>29, <1>30, <1>31, <1>32,
      <1>33, <1>34
      DEF Next, AppWork, ServeJob, ChildNext

\* After a success no error receipt is written.
LEMMA SuccessStep ==
    IInv /\ [Next]_vars => SuccessInv'
  <1> SUFFICES ASSUME IInv, [Next]_vars PROVE SuccessInv'
    OBVIOUS
  <1> USE JobsAssumption DEF IInv
  <1>1. CASE AppStart
    BY <1>1 DEF AppStart, Interrupted, NeedsReview, queueVars, svcVars,
      callVars, SuccessInv, Has, Closed
  <1>2. CASE AppCrash
    BY <1>2 DEF AppCrash, queueVars, svcVars, SuccessInv, Has, Closed
  <1>3. ASSUME NEW j \in Jobs, Submit(j) PROVE SuccessInv'
    BY <1>3 DEF Submit, queueVars, svcVars, callVars, SuccessInv, Has, Closed
  <1>4. ASSUME NEW j \in Jobs, TakeSlot(j) PROVE SuccessInv'
    BY <1>4 DEF TakeSlot, queueVars, svcVars, SuccessInv, Has, Closed
  <1>5. ASSUME NEW j \in Jobs, TurnAway(j) PROVE SuccessInv'
    BY <1>5 DEF TurnAway, queueVars, svcVars, callVars, SuccessInv, Has, Closed
  <1>6. ASSUME NEW j \in Jobs, Record(j) PROVE SuccessInv'
    BY <1>6 DEF Record, queueVars, svcVars, callVars, SuccessInv, Has, Closed,
      TypeOK
  <1>7. CASE WriteInput
    BY <1>7 DEF WriteInput, Step, svcVars, SuccessInv, Has, Closed
  <1>8. CASE WriteRequest
    BY <1>8 DEF WriteRequest, Step, svcVars, SuccessInv, Has, Closed
  <1>9. CASE WriteFails
    BY <1>9 DEF WriteFails, Clean, Step, svcVars, SuccessInv, Has, Closed
  <1>10. CASE Publish
    BY <1>10 DEF Publish, Step, svcVars, SuccessInv, Has, Closed, TypeOK, AppInv
  <1>11. CASE PublishFails
    BY <1>11 DEF PublishFails, Settle, queueVars, Step, svcVars, SuccessInv, Has,
      Closed
  <1>12. CASE ReadResponse
    BY <1>12 DEF ReadResponse, Step, queueVars, svcVars, SuccessInv, Has, Closed
  <1>13. CASE AwaitRetirement
    BY <1>13 DEF AwaitRetirement, Step, queueVars, svcVars, SuccessInv, Has,
      Closed
  <1>14. CASE Succeed
    BY <1>14 DEF Succeed, Clean, queueVars, Step, svcVars, SuccessInv, Has, Closed
  <1>15. CASE Ambiguous
    BY <1>15 DEF Ambiguous, Settle, queueVars, Step, svcVars, SuccessInv, Has,
      Closed
  <1>16. CASE ReadError
    BY <1>16 DEF ReadError, Step, queueVars, svcVars, SuccessInv, Has, Closed
  <1>17. CASE Refused
    BY <1>17 DEF Refused, Step, Clean, queueVars, svcVars, SuccessInv, Has, Closed
  <1>18. CASE Unlink
    BY <1>18 DEF Unlink, UnlinkOrder, Leftover, appVars, svcVars, callVars,
      SuccessInv, Has, Closed
  <1>19. CASE Finish
    BY <1>19 DEF Finish, Leftover, queueVars, svcVars, SuccessInv, Has, Closed,
      TypeOK, AppInv, StageInv, Fresh
  <1>20. CASE Deadline
    BY <1>20 DEF Deadline, Settle, Step, svcVars, SuccessInv, Has, Closed
  <1>21. CASE Claim
    <2>1. PICK h \in Jobs : Has(h, "request") /\ Claims(h)
      BY <1>21, Claimed
    <2> QED
      BY <2>1 DEF Claims, SuccessInv, TypeOK, Has, Closed, appVars, callVars
  <1>22. CASE Spawn
    BY <1>22 DEF Spawn, queueVars, appVars, callVars, SuccessInv, Has, Closed
  <1>23. CASE Reject
    BY <1>23 DEF Reject, Serving, queueVars, appVars, callVars, SuccessInv, Has,
      Closed
  <1>24. CASE Reap
    BY <1>24 DEF Reap, Serving, queueVars, appVars, callVars, SuccessInv, Has,
      Closed
  <1>25. CASE WriteError
    BY <1>25 DEF WriteError, Serving, appVars, callVars, SuccessInv, Has, Closed,
      TypeOK, StageInv, Fresh
  <1>26. CASE Retire
    BY <1>26 DEF Retire, Serving, appVars, callVars, SuccessInv, Has, Closed
  <1>27. CASE Sweep
    BY <1>27 DEF Sweep, appVars, callVars, SuccessInv, Has, Closed
  <1>28. CASE ChildWrites
    BY <1>28 DEF ChildWrites, appVars, callVars, SuccessInv, Has, Closed
  <1>29. CASE ChildPublishes
    BY <1>29 DEF ChildPublishes, appVars, callVars, SuccessInv, Has, Closed
  <1>30. CASE WriteErrorFails
    BY <1>30 DEF WriteErrorFails, appVars, callVars, SuccessInv, Has, Closed
  <1>31. CASE SvcStart
    BY <1>31 DEF SvcStart, Serving, queueVars, appVars, callVars, SuccessInv, Has,
      Closed
  <1>32. CASE SvcStop
    BY <1>32 DEF SvcStop, appVars, callVars, SuccessInv, Has, Closed
  <1>33. CASE OperatorReviews
    BY <1>33 DEF OperatorReviews, appVars, svcVars, callVars, SuccessInv, Has,
      Closed
  <1>34. CASE \/ StoreBlocks
            \/ ChildExits
            \/ ChildFails
            \/ UNCHANGED vars
    BY <1>34 DEF StoreBlocks, queueVars, svcVars, callVars, ChildExits, appVars,
      ChildFails, vars, SuccessInv, Has, Closed
  <1> QED
    BY <1>1, <1>2, <1>3, <1>4, <1>5, <1>6, <1>7, <1>8, <1>9, <1>10, <1>11,
      <1>12, <1>13, <1>14, <1>15, <1>16, <1>17, <1>18, <1>19, <1>20, <1>21, <1>22,
      <1>23, <1>24, <1>25, <1>26, <1>27, <1>28, <1>29, <1>30, <1>31, <1>32,
      <1>33, <1>34
      DEF Next, AppWork, ServeJob, ChildNext

\* A failed job that ran keeps its input while the app lives.
LEMMA FailureStep ==
    IInv /\ [Next]_vars => FailureInv'
  <1> SUFFICES ASSUME IInv, [Next]_vars PROVE FailureInv'
    OBVIOUS
  <1> USE JobsAssumption DEF IInv
  <1>1. CASE AppStart
    BY <1>1 DEF AppStart, Interrupted, NeedsReview, queueVars, svcVars,
      callVars, FailureInv, Has, Fresh
  <1>2. CASE AppCrash
    BY <1>2 DEF AppCrash, queueVars, svcVars, FailureInv, Has, Fresh
  <1>3. ASSUME NEW j \in Jobs, Submit(j) PROVE FailureInv'
    BY <1>3 DEF Submit, queueVars, svcVars, callVars, FailureInv, Has, Fresh,
      TypeOK
  <1>4. ASSUME NEW j \in Jobs, TakeSlot(j) PROVE FailureInv'
    BY <1>4 DEF TakeSlot, queueVars, svcVars, FailureInv, Has, Fresh
  <1>5. ASSUME NEW j \in Jobs, TurnAway(j) PROVE FailureInv'
    BY <1>5 DEF TurnAway, queueVars, svcVars, callVars, FailureInv, Has, Fresh,
      TypeOK, StageInv, Closed
  <1>6. ASSUME NEW j \in Jobs, Record(j) PROVE FailureInv'
    BY <1>6 DEF Record, queueVars, svcVars, callVars, FailureInv, Has, Fresh,
      TypeOK
  <1>7. CASE WriteInput
    BY <1>7 DEF WriteInput, Step, svcVars, FailureInv, Has, Fresh
  <1>8. CASE WriteRequest
    BY <1>8 DEF WriteRequest, Step, svcVars, FailureInv, Has, Fresh
  <1>9. CASE WriteFails
    BY <1>9 DEF WriteFails, Clean, Step, svcVars, FailureInv, Has, Fresh
  <1>10. CASE Publish
    BY <1>10 DEF Publish, Step, svcVars, FailureInv, Has, Fresh
  <1>11. CASE PublishFails
    BY <1>11 DEF PublishFails, Settle, queueVars, Step, svcVars, FailureInv, Has,
      Fresh
  <1>12. CASE ReadResponse
    BY <1>12 DEF ReadResponse, Step, queueVars, svcVars, FailureInv, Has, Fresh
  <1>13. CASE AwaitRetirement
    BY <1>13 DEF AwaitRetirement, Step, queueVars, svcVars, FailureInv, Has, Fresh
  <1>14. CASE Succeed
    BY <1>14 DEF Succeed, Clean, queueVars, Step, svcVars, FailureInv, Has, Fresh
  <1>15. CASE Ambiguous
    BY <1>15 DEF Ambiguous, Settle, queueVars, Step, svcVars, FailureInv, Has,
      Fresh
  <1>16. CASE ReadError
    BY <1>16 DEF ReadError, Step, queueVars, svcVars, FailureInv, Has, Fresh
  <1>17. CASE Refused
    BY <1>17 DEF Refused, Step, Clean, queueVars, svcVars, FailureInv, Has, Fresh
  <1>18. CASE Unlink
    BY <1>18 DEF Unlink, UnlinkOrder, Leftover, appVars, svcVars, callVars,
      FailureInv, Has, Fresh, TypeOK, AppInv
  <1>19. CASE Finish
    BY <1>19 DEF Finish, Leftover, queueVars, svcVars, FailureInv, Has, Fresh,
      TypeOK, StageInv, Closed
  <1>20. CASE Deadline
    BY <1>20 DEF Deadline, Settle, Step, svcVars, FailureInv, Has, Fresh
  <1>21. CASE Claim
    <2>1. PICK h \in Jobs : Has(h, "request") /\ Claims(h)
      BY <1>21, Claimed
    <2> QED
      BY <2>1 DEF Claims, FailureInv, TypeOK, Has, Fresh, appVars, callVars
  <1>22. CASE Spawn
    BY <1>22 DEF Spawn, queueVars, appVars, callVars, FailureInv, Has, Fresh
  <1>23. CASE WriteError
    BY <1>23 DEF WriteError, Serving, appVars, callVars, FailureInv, Has, Fresh
  <1>24. CASE Retire
    BY <1>24 DEF Retire, Serving, appVars, callVars, FailureInv, Has, Fresh
  <1>25. CASE Sweep
    BY <1>25 DEF Sweep, appVars, callVars, FailureInv, Has, Fresh, TypeOK
  <1>26. CASE ChildWrites
    BY <1>26 DEF ChildWrites, appVars, callVars, FailureInv, Has, Fresh
  <1>27. CASE ChildPublishes
    BY <1>27 DEF ChildPublishes, appVars, callVars, FailureInv, Has, Fresh
  <1>28. CASE WriteErrorFails
    BY <1>28 DEF WriteErrorFails, appVars, callVars, FailureInv, Has, Fresh,
      TypeOK
  <1>29. CASE SvcStop
    BY <1>29 DEF SvcStop, appVars, callVars, FailureInv, Has, Fresh, TypeOK
  <1>30. CASE OperatorReviews
    BY <1>30 DEF OperatorReviews, appVars, svcVars, callVars, FailureInv, Has,
      Fresh, TypeOK, AppInv
  <1>31. CASE \/ StoreBlocks
            \/ Reject
            \/ Reap
            \/ ChildExits
            \/ ChildFails
            \/ SvcStart
            \/ UNCHANGED vars
    BY <1>31 DEF StoreBlocks, queueVars, svcVars, callVars, Reject, Serving,
      appVars, Reap, ChildExits, ChildFails, SvcStart, vars, FailureInv, Has,
      Fresh
  <1> QED
    BY <1>1, <1>2, <1>3, <1>4, <1>5, <1>6, <1>7, <1>8, <1>9, <1>10, <1>11,
      <1>12, <1>13, <1>14, <1>15, <1>16, <1>17, <1>18, <1>19, <1>20, <1>21, <1>22,
      <1>23, <1>24, <1>25, <1>26, <1>27, <1>28, <1>29, <1>30, <1>31
      DEF Next, AppWork, ServeJob, ChildNext

\* Whatever a running app finds unresolved is its own.
LEMMA LeftStep ==
    IInv /\ [Next]_vars => NoWorkOverLeftovers'
  <1> SUFFICES ASSUME IInv, [Next]_vars PROVE NoWorkOverLeftovers'
    OBVIOUS
  <1> USE JobsAssumption DEF IInv
  <1>1. CASE AppStart
    BY <1>1 DEF AppStart, Interrupted, NeedsReview, queueVars, svcVars,
      callVars, NoWorkOverLeftovers, Unresolved
  <1>2. CASE AppCrash
    BY <1>2 DEF AppCrash, queueVars, svcVars, NoWorkOverLeftovers, Unresolved,
      Interrupted
  <1>3. CASE StoreBlocks
    BY <1>3 DEF StoreBlocks, queueVars, svcVars, callVars, NoWorkOverLeftovers,
      Unresolved, Interrupted
  <1>4. ASSUME NEW j \in Jobs, Submit(j) PROVE NoWorkOverLeftovers'
    BY <1>4 DEF Submit, queueVars, svcVars, callVars, NoWorkOverLeftovers,
      Unresolved, Interrupted
  <1>5. ASSUME NEW j \in Jobs, Record(j) PROVE NoWorkOverLeftovers'
    BY <1>5 DEF Record, queueVars, svcVars, callVars, NoWorkOverLeftovers,
      Unresolved, Interrupted, TypeOK
  <1>6. CASE WriteInput
    BY <1>6 DEF WriteInput, Step, svcVars, NoWorkOverLeftovers, Unresolved,
      Interrupted, TypeOK, AppInv
  <1>7. CASE WriteRequest
    BY <1>7 DEF WriteRequest, Step, svcVars, NoWorkOverLeftovers, Unresolved,
      Interrupted, TypeOK, AppInv
  <1>8. CASE WriteFails
    BY <1>8 DEF WriteFails, Clean, Step, svcVars, NoWorkOverLeftovers, Unresolved,
      Interrupted, TypeOK, AppInv
  <1>9. CASE Publish
    BY <1>9 DEF Publish, Step, svcVars, NoWorkOverLeftovers, Unresolved,
      Interrupted, TypeOK, AppInv
  <1>10. CASE Unlink
    BY <1>10 DEF Unlink, UnlinkOrder, Leftover, appVars, svcVars, callVars,
      NoWorkOverLeftovers, Unresolved, Interrupted
  <1>11. CASE Deadline
    BY <1>11 DEF Deadline, Settle, Step, svcVars, NoWorkOverLeftovers, Unresolved,
      Interrupted, TypeOK, AppInv
  <1>12. CASE Claim
    <2>1. PICK h \in Jobs : Has(h, "request") /\ Claims(h)
      BY <1>12, Claimed
    <2> QED
      BY <2>1 DEF Claims, NoWorkOverLeftovers, Unresolved, Interrupted, TypeOK,
                  Has, appVars, callVars
  <1>13. CASE WriteError
    BY <1>13 DEF WriteError, Serving, appVars, callVars, NoWorkOverLeftovers,
      Unresolved, Interrupted
  <1>14. CASE Retire
    BY <1>14 DEF Retire, Serving, appVars, callVars, NoWorkOverLeftovers,
      Unresolved, Interrupted
  <1>15. CASE Sweep
    BY <1>15 DEF Sweep, appVars, callVars, NoWorkOverLeftovers, Unresolved,
      Interrupted
  <1>16. CASE ChildWrites
    BY <1>16 DEF ChildWrites, appVars, callVars, NoWorkOverLeftovers, Unresolved,
      Interrupted, TypeOK, AppInv, ServiceInv, Active, StageInv, Fresh,
      Closed, Has, Kinds
  <1>17. CASE ChildPublishes
    BY <1>17 DEF ChildPublishes, appVars, callVars, NoWorkOverLeftovers,
      Unresolved, Interrupted
  <1>18. CASE WriteErrorFails
    BY <1>18 DEF WriteErrorFails, appVars, callVars, NoWorkOverLeftovers,
      Unresolved, Interrupted
  <1>19. CASE SvcStop
    BY <1>19 DEF SvcStop, appVars, callVars, NoWorkOverLeftovers, Unresolved,
      Interrupted, TypeOK, AppInv, ServiceInv, Active, StageInv, Fresh,
      Closed, Has, Kinds
  <1>20. CASE OperatorReviews
    BY <1>20 DEF OperatorReviews, appVars, svcVars, callVars, NoWorkOverLeftovers,
      Unresolved, Interrupted
  <1>21. CASE \/ (\E j \in Jobs : TakeSlot(j))
            \/ (\E j \in Jobs : TurnAway(j))
            \/ PublishFails
            \/ ReadResponse
            \/ AwaitRetirement
            \/ Succeed
            \/ Ambiguous
            \/ ReadError
            \/ Refused
            \/ Finish
            \/ Spawn
            \/ Reject
            \/ Reap
            \/ ChildExits
            \/ ChildFails
            \/ SvcStart
            \/ UNCHANGED vars
    BY <1>21 DEF TakeSlot, queueVars, svcVars, TurnAway, callVars, PublishFails,
      Settle, Step, ReadResponse, AwaitRetirement, Succeed, Clean, Ambiguous,
      ReadError, Refused, Finish, Leftover, Spawn, appVars, Reject, Serving,
      Reap, ChildExits, ChildFails, SvcStart, vars, NoWorkOverLeftovers,
      Unresolved, Interrupted
  <1> QED
    BY <1>1, <1>2, <1>3, <1>4, <1>5, <1>6, <1>7, <1>8, <1>9, <1>10, <1>11,
      <1>12, <1>13, <1>14, <1>15, <1>16, <1>17, <1>18, <1>19, <1>20, <1>21
      DEF Next, AppWork, ServeJob, ChildNext

-----------------------------------------------------------------------------
(* The theorems.                                                           *)

\* The initial state.
LEMMA Start == Init => IInv
  <1> SUFFICES ASSUME Init PROVE IInv
    OBVIOUS
  <1>1. OrderOK
    BY DEF Init, OrderOK, Has, IsInjective
  <1>2. TypeOK
    BY <1>1, JobsAssumption DEF Init, TypeOK
  <1> QED
    BY <1>2, JobsAssumption
       DEF Init, IInv, AppInv, ServiceInv, StageInv, SuccessInv, FailureInv,
           NoWorkOverLeftovers, Interrupted, Unresolved, Active, Fresh, Closed,
           Has

\* The invariant holds in every state.
LEMMA Inductive == Spec => []IInv
  <1>1. IInv /\ [Next]_vars => IInv'
    BY OrderStep, TypeStep, AppStep, ServiceStep, StageStep, SuccessStep,
       FailureStep, LeftStep
       DEF IInv
  <1> QED
    BY <1>1, Start, PTL DEF Spec

\* Every variable keeps its shape, and the requests of the directory are the
\* queue that the service takes them from.
THEOREM TypeCorrect == Spec => []TypeOK
  BY Inductive, PTL DEF IInv

\* However deadlines, deaths and restarts fall, no parse is run twice
\* (serve, create_app).
THEOREM RunOnce == Spec => [](\A j \in Jobs : runs[j] <= 1)
  <1>1. IInv => \A j \in Jobs : runs[j] <= 1
    BY DEF IInv, ServiceInv
  <1> QED
    BY <1>1, Inductive, PTL

\* The queue never shows an error for a parse that succeeded, and shows every
\* parse that failed after it ran until an operator has seen it.
THEOREM OutcomeTold == Spec => []QueueTellsOutcome
  <1>1. IInv => NoFalseErrorReceipt
    BY DEF IInv, SuccessInv, NoFalseErrorReceipt, Closed
  <1>2. IInv => TimedOutStaysVisible
    <2> SUFFICES ASSUME IInv, app = "up", NEW j \in mine,
                        upload[j] = "failed", runs[j] > 0
                 PROVE  \E f \in Unresolved : f[1] = j
      BY DEF TimedOutStaysVisible
    <2>1. Has(j, "input")
      BY DEF IInv, FailureInv, Fresh
    <2>2. <<j, "input">> \in Unresolved
      BY <2>1 DEF Has, Unresolved
    <2> QED
      BY <2>2
  <1> QED
    BY <1>1, <1>2, Inductive, PTL DEF QueueTellsOutcome

\* An app that takes new work has nothing of an earlier life before it.
THEOREM CleanStart == Spec => []NoWorkOverLeftovers
  BY Inductive, PTL DEF IInv
-----------------------------------------------------------------------------
(* ParserQueue implements ParseJobs.  What the invariant above does not    *)
(* say: a response is there because its job ran, and what has been         *)
(* answered or handed over stays closed.                                   *)

\* The job has an outcome that ends it: there is nothing left to run.
Over(j) ==
    \/ handler[j] \in {"preview", "refused"}
    \/ upload[j] \in {"preview", "unsaved", "refused", "needs_review"}

OverInv == \A j \in Jobs : Over(j) => Closed(j)

\* Whatever tells of a result, a result was made.
RunInv ==
    /\ \A j \in Jobs : Has(j, "response") => runs[j] = 1
    /\ child # "none" => runs[served] = 1
    /\ pc \in {"responded", "retired"} => runs[job] = 1
    /\ pc = "cleaning" /\ verdict = "preview" => runs[job] = 1
    /\ \A j \in Jobs :
           handler[j] = "preview" \/ upload[j] \in {"preview", "unsaved"} =>
               runs[j] = 1

\* A job is closed for good, unless it is only now being published.
LEMMA ClosedStays ==
    ASSUME IInv, [Next]_vars, NEW j \in Jobs, Closed(j),
           pc = "publish" => job # j
    PROVE  Closed(j)'
  <1> USE JobsAssumption DEF IInv
  <1>1. CASE \/ WriteInput \/ WriteRequest \/ WriteFails \/ Publish \/ Deadline
    BY <1>1 DEF WriteInput, WriteRequest, WriteFails, Publish, Deadline, Clean,
      Settle, Step, svcVars, Closed, Has
  <1>2. CASE Unlink
    BY <1>2 DEF Unlink, svcVars, Closed, Has
  <1>3. CASE Claim
    <2>1. PICK h \in Jobs : Has(h, "request") /\ Claims(h)
      BY <1>3, Claimed
    <2> QED BY <2>1 DEF Claims, Closed, Has
  <1>4. CASE \/ Spawn \/ Reject \/ Reap \/ WriteError \/ Retire
    BY <1>4 DEF Spawn, Reject, Reap, WriteError, Retire, Serving, queueVars,
      Closed, Has
  <1>5. CASE \/ Sweep \/ WriteErrorFails \/ SvcStop
    BY <1>5 DEF Sweep, WriteErrorFails, SvcStop, Closed, Has
  <1>6. CASE \/ ChildWrites \/ ChildPublishes \/ ChildExits \/ ChildFails
    BY <1>6 DEF ChildWrites, ChildPublishes, ChildExits, ChildFails, queueVars,
      Closed, Has
  <1>7. CASE SvcStart
    BY <1>7 DEF SvcStart, Serving, queueVars, Closed, Has, ServiceInv
  <1>8. CASE OperatorReviews
    BY <1>8 DEF OperatorReviews, svcVars, Closed, Has
  <1>9. CASE \/ AppStart \/ AppCrash \/ StoreBlocks
             \/ (\E i \in Jobs : Submit(i) \/ TakeSlot(i) \/ TurnAway(i) \/ Record(i))
             \/ PublishFails \/ ReadResponse \/ AwaitRetirement \/ Succeed
             \/ Ambiguous \/ ReadError \/ Refused \/ Finish \/ UNCHANGED vars
    BY <1>9 DEF AppStart, AppCrash, StoreBlocks, Submit, TakeSlot, TurnAway,
      Record, PublishFails, ReadResponse, AwaitRetirement, Succeed, Ambiguous,
      ReadError, Refused, Finish, Clean, Settle, Step, vars, queueVars, svcVars,
      Closed, Has
  <1> QED
    BY <1>1, <1>2, <1>3, <1>4, <1>5, <1>6, <1>7, <1>8, <1>9
    DEF Next, AppWork, ServeJob, ChildNext


LEMMA OverStep ==
    IInv /\ OverInv /\ [Next]_vars => OverInv'
  <1> SUFFICES ASSUME IInv, OverInv, [Next]_vars, NEW j \in Jobs, Over(j)'
               PROVE  Closed(j)'
    BY DEF OverInv
  <1> USE JobsAssumption DEF IInv
  <1>1. CASE Over(j)
    <2>1. Closed(j)
      BY <1>1 DEF OverInv
    <2>2. job # j
      BY <1>1 DEF Over, AppInv
    <2> QED BY <2>1, <2>2, ClosedStays
  <1>2. CASE AppStart
    <2>1. UNCHANGED <<queueVars, svcVars, handler>>
      BY <1>2 DEF AppStart
    <2>2. CASE Unresolved = {}
      <3>1. \A k \in {"request", "running"} : ~Has(j, k)
        BY <2>2 DEF Unresolved, Has
      <3>2. served = j => svc = "sweep"
        BY <2>2 DEF Unresolved, Has, ServiceInv, Active, TypeOK
      <3> QED BY <2>1, <3>1, <3>2 DEF Closed, Has, queueVars, svcVars
    <2>3. CASE Unresolved # {}
      <3>1. upload' = upload
        BY <1>2, <2>3 DEF AppStart, Interrupted, NeedsReview, TypeOK
      <3> QED BY <1>1, <2>1, <3>1 DEF Over
    <2> QED BY <2>2, <2>3
  <1>3. ASSUME NEW i \in Jobs, Record(i) PROVE Closed(j)'
    BY <1>1, <1>3 DEF Record, Over, TypeOK
  <1>4. CASE Finish
    BY <1>1, <1>4 DEF Finish, Over, AppInv, StageInv, TypeOK, Closed, Has,
      queueVars, svcVars
  <1>5. CASE \E i \in Jobs : Submit(i) \/ TakeSlot(i) \/ TurnAway(i)
    BY <1>1, <1>5 DEF Submit, TakeSlot, TurnAway, Over, TypeOK
  <1>6. CASE AppCrash
    BY <1>1, <1>6 DEF AppCrash, Over
  <1>7. CASE \/ StoreBlocks \/ WriteInput \/ WriteRequest \/ WriteFails
             \/ Publish \/ PublishFails \/ ReadResponse \/ AwaitRetirement
             \/ Succeed \/ Ambiguous \/ ReadError \/ Refused \/ Unlink \/ Deadline
             \/ UNCHANGED vars
    BY <1>1, <1>7 DEF StoreBlocks, WriteInput, WriteRequest, WriteFails, Publish,
      PublishFails, ReadResponse, AwaitRetirement, Succeed, Ambiguous, ReadError,
      Refused, Unlink, Deadline, Clean, Settle, Step, vars, appVars, Over
  <1>8. CASE ServeJob \/ ChildNext \/ WriteErrorFails \/ SvcStart \/ SvcStop
                \/ OperatorReviews
    BY <1>1, <1>8 DEF ServeJob, Claim, Spawn, Reject, Reap, WriteError, Retire,
      Sweep, Serving, ChildNext, ChildWrites, ChildPublishes, ChildExits,
      ChildFails, WriteErrorFails, SvcStart, SvcStop, OperatorReviews, appVars,
      Over
  <1> QED
    BY <1>2, <1>3, <1>4, <1>5, <1>6, <1>7, <1>8 DEF Next, AppWork

LEMMA RunStep ==
    IInv /\ RunInv /\ [Next]_vars => RunInv'
  <1> SUFFICES ASSUME IInv, RunInv, [Next]_vars PROVE RunInv'
    OBVIOUS
  <1> USE JobsAssumption DEF IInv
  <1>1. CASE AppStart
    BY <1>1 DEF AppStart, NeedsReview, Interrupted, queueVars, svcVars,
      callVars, RunInv, Has
  <1>2. CASE \E j \in Jobs : Submit(j) \/ TakeSlot(j) \/ TurnAway(j)
    BY <1>2 DEF Submit, TakeSlot, TurnAway, queueVars, svcVars, callVars, RunInv,
      Has, TypeOK
  <1>3. ASSUME NEW j \in Jobs, Record(j) PROVE RunInv'
    BY <1>3 DEF Record, queueVars, svcVars, callVars, RunInv, Has, TypeOK
  <1>4. CASE \/ WriteInput \/ WriteRequest \/ WriteFails \/ Publish \/ Deadline
    BY <1>4 DEF WriteInput, WriteRequest, WriteFails, Publish, Deadline, Clean,
      Settle, Step, svcVars, RunInv, Has
  <1>5. CASE ReadResponse \/ AwaitRetirement \/ Succeed
    BY <1>5 DEF ReadResponse, AwaitRetirement, Succeed, Clean, Step, queueVars,
      svcVars, RunInv, Has, TypeOK
  <1>6. CASE PublishFails \/ Ambiguous \/ ReadError \/ Refused
    BY <1>6 DEF PublishFails, Ambiguous, ReadError, Refused, Clean, Settle, Step,
      queueVars, svcVars, RunInv, Has
  <1>7. CASE Unlink
    BY <1>7 DEF Unlink, appVars, callVars, svcVars, RunInv, Has
  <1>8. CASE Finish
    BY <1>8 DEF Finish, queueVars, svcVars, RunInv, Has, TypeOK, AppInv
  <1>9. CASE Claim
    <2>1. PICK h \in Jobs : Has(h, "request") /\ Claims(h)
      BY <1>9, Claimed
    <2> QED BY <2>1 DEF Claims, appVars, callVars, RunInv, Has, ServiceInv
  \* The job that is started has not run: no file tells of it.
  <1>10. CASE Spawn
    <2>1. /\ served \in Jobs /\ runs[served] = 0
          /\ runs' = [runs EXCEPT ![served] = 1]
      <3>1. svc = "claimed" /\ runs' = [runs EXCEPT ![served] = @ + 1]
        BY <1>10 DEF Spawn
      <3>2. served \in Jobs /\ runs[served] = 0
        BY <3>1 DEF ServiceInv, TypeOK
      <3> QED BY <3>1, <3>2
    <2>2. \A j \in Jobs : runs[j] = 1 => runs'[j] = 1
      BY <2>1 DEF TypeOK
    <2>3. runs'[served] = 1
      BY <2>1 DEF TypeOK
    <2>4. job \in Jobs \/ pc = "idle"
      BY DEF TypeOK
    <2> QED BY <1>10, <2>2, <2>3, <2>4 DEF Spawn, queueVars, appVars, callVars,
              RunInv, Has
  <1>11. CASE ChildPublishes
    BY <1>11 DEF ChildPublishes, appVars, callVars, RunInv, Has
  <1>12. CASE \/ Reject \/ Reap \/ WriteError \/ Retire \/ Sweep
              \/ WriteErrorFails \/ SvcStart \/ SvcStop \/ ChildWrites
              \/ ChildExits \/ ChildFails \/ OperatorReviews
    BY <1>12 DEF Reject, Reap, WriteError, Retire, Sweep, WriteErrorFails,
      SvcStart, SvcStop, ChildWrites, ChildExits, ChildFails, OperatorReviews,
      Serving, queueVars, appVars, svcVars, callVars, RunInv, Has, ServiceInv
  <1>13. CASE AppCrash \/ StoreBlocks \/ UNCHANGED vars
    BY <1>13 DEF AppCrash, StoreBlocks, vars, queueVars, appVars, svcVars,
      callVars, RunInv, Has
  <1> QED
    BY <1>1, <1>2, <1>3, <1>4, <1>5, <1>6, <1>7, <1>8, <1>9, <1>10, <1>11,
      <1>12, <1>13
    DEF Next, AppWork, ServeJob, ChildNext

LEMMA ParseStep ==
    ASSUME IInv, OverInv, RunInv, [Next]_vars
    PROVE  [Parse!Next]_Parse!vars
  <1> USE JobsAssumption DEF IInv
  <1>1. CASE AppStart
    <2>1. runs' = runs /\ Running' = Running
      BY <1>1 DEF AppStart, svcVars, Running
    <2>2. CASE Unresolved = {}
      <3>1. Running = {}
        BY <2>2 DEF Unresolved, Has, ServiceInv, Active, Running, TypeOK
      <3>2. upload' = [j \in Jobs |-> IF upload[j] = "parsing" THEN "needs_review"
                                      ELSE upload[j]]
        BY <1>1, <2>2 DEF AppStart, NeedsReview, Interrupted
      <3> QED BY <2>1, <3>1, <3>2 DEF Parse!Next, Parse!HandOver
    <2>3. CASE Unresolved # {}
      <3>1. upload' = upload
        BY <1>1, <2>3 DEF AppStart, Interrupted, NeedsReview, TypeOK
      <3> QED BY <2>1, <3>1 DEF Parse!vars
    <2> QED BY <2>2, <2>3
  <1>2. ASSUME NEW j \in Jobs, Submit(j) PROVE Parse!Next
    BY <1>2 DEF Submit, svcVars, Running, Parse!Next, Parse!Ask
  <1>3. ASSUME NEW j \in Jobs, Record(j) PROVE [Parse!Next]_Parse!vars
    <2>1. /\ upload[j] = "parsing" /\ runs' = runs /\ Running' = Running
          /\ handler[j] \in {"preview", "failed", "refused"}
      BY <1>3 DEF Record, AppInv, svcVars, Running
    <2>2. handler[j] # "failed" => j \notin Running
      BY <2>1 DEF OverInv, Over, Closed, ServiceInv, Running
    <2>3. handler[j] = "preview" => runs[j] = 1
      BY DEF RunInv
    <2>4. CASE upload' = [upload EXCEPT ![j] = handler[j]]
      <3>1. Parse!Answer(j, handler[j])
        BY <2>1, <2>2, <2>3, <2>4 DEF Parse!Answer
      <3> QED BY <2>1, <3>1 DEF Parse!Next
    <2>5. CASE handler[j] = "preview" /\ upload' = [upload EXCEPT ![j] = "unsaved"]
      <3>1. Parse!Answer(j, "unsaved")
        BY <2>1, <2>2, <2>3, <2>5 DEF Parse!Answer
      <3> QED BY <3>1 DEF Parse!Next
    <2>6. CASE upload' = upload
      BY <2>1, <2>6 DEF Parse!vars
    <2> QED BY <1>3, <2>4, <2>5, <2>6 DEF Record
  <1>4. CASE Spawn
    <2>1. /\ served \in Jobs /\ runs[served] = 0 /\ ~Closed(served)
          /\ Running = {} /\ Running' = {served}
      BY <1>4 DEF Spawn, ServiceInv, TypeOK, Closed, Running
    <2>2. upload[served] \in {"parsing", "failed"}
      <3>1. upload[served] # "uploaded"
        BY <2>1 DEF StageInv, Fresh
      <3>2. ~Over(served)
        BY <2>1 DEF OverInv
      <3> QED BY <2>1, <3>1, <3>2 DEF Over, TypeOK
    <2>3. upload' = upload /\ runs' = [runs EXCEPT ![served] = 1]
      BY <1>4, <2>1 DEF Spawn, appVars
    <2>4. Parse!Run(served)
      BY <2>1, <2>2, <2>3 DEF Parse!Run
    <2> QED BY <2>1, <2>4 DEF Parse!Next
  <1>5. CASE Reap \/ SvcStop
    <2>1. UNCHANGED <<upload, runs>> /\ Running' = {}
      BY <1>5 DEF Reap, SvcStop, Serving, appVars, Running
    <2>2. CASE child = "none"
      BY <2>1, <2>2 DEF Running, Parse!vars
    <2>3. CASE child # "none"
      <3>1. served \in Jobs /\ Running = {served}
        BY <2>3 DEF ServiceInv, TypeOK, Running
      <3>2. Parse!End(served)
        BY <2>1, <3>1 DEF Parse!End
      <3> QED BY <3>1, <3>2 DEF Parse!Next
    <2> QED BY <2>2, <2>3
  <1>6. CASE \/ Claim \/ Reject \/ WriteError \/ Retire \/ Sweep
             \/ WriteErrorFails \/ SvcStart
    <2>1. child = "none" /\ child' = "none"
      BY <1>6 DEF Claim, Reject, WriteError, Retire, Sweep, WriteErrorFails,
        SvcStart, Serving, ServiceInv
    <2>2. UNCHANGED <<upload, runs>>
      BY <1>6 DEF Claim, Reject, WriteError, Retire, Sweep, WriteErrorFails,
        SvcStart, Serving, appVars
    <2> QED BY <2>1, <2>2 DEF Running, Parse!vars
  <1>7. CASE ChildNext
    <2>1. UNCHANGED <<upload, runs, served>> /\ child # "none" /\ child' # "none"
      BY <1>7 DEF ChildNext, ChildWrites, ChildPublishes, ChildExits, ChildFails,
        appVars
    <2> QED BY <2>1 DEF Running, Parse!vars
  <1>8. CASE \/ AppCrash \/ StoreBlocks
             \/ (\E j \in Jobs : TakeSlot(j) \/ TurnAway(j))
             \/ WriteInput \/ WriteRequest \/ WriteFails \/ Publish
             \/ PublishFails \/ ReadResponse \/ AwaitRetirement \/ Succeed
             \/ Ambiguous \/ ReadError \/ Refused \/ Unlink \/ Finish \/ Deadline
             \/ OperatorReviews \/ UNCHANGED vars
    <2>1. UNCHANGED <<upload, svcVars>>
      BY <1>8 DEF AppCrash, StoreBlocks, TakeSlot, TurnAway, WriteInput,
        WriteRequest, WriteFails, Publish, PublishFails, ReadResponse,
        AwaitRetirement, Succeed, Ambiguous, ReadError, Refused, Unlink, Finish,
        Deadline, OperatorReviews, Clean, Settle, Step, vars, appVars
    <2> QED BY <2>1 DEF svcVars, Running, Parse!vars
  <1> QED
    BY <1>1, <1>2, <1>3, <1>4, <1>5, <1>6, <1>7, <1>8
    DEF Next, AppWork, ServeJob

\* A parse runs at most once, its preview comes from that run, and nothing of
\* it runs once it is answered or handed to a reviewer, whichever process dies
\* at whatever step (isolation.py, parser_service.py, create_app).
THEOREM Refinement == Spec => ImplementsParseJobs
  <1>1. Init => Parse!Init /\ OverInv /\ RunInv
    BY JobsAssumption DEF Init, Parse!Init, Running, OverInv, Over, RunInv, Has
  <1>2. IInv /\ OverInv /\ RunInv /\ [Next]_vars => OverInv' /\ RunInv'
    BY OverStep, RunStep
  <1>3. IInv /\ OverInv /\ RunInv /\ [Next]_vars => [Parse!Next]_Parse!vars
    BY ParseStep
  <1> QED BY <1>1, <1>2, <1>3, Inductive, PTL
          DEF Spec, ImplementsParseJobs, Parse!Spec
=============================================================================
