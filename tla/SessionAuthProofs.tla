------------------------- MODULE SessionAuthProofs -------------------------
(***************************************************************************)
(* For any names, addresses, tokens and threads, and any limits: denials   *)
(* are bounded, a session is used only while it is earned, and a refusal   *)
(* is final.                                                               *)
(***************************************************************************)
EXTENDS SessionAuth, TLAPS

\* What lookups and requests do, and leave alone.
RequestStep ==
    \/ \E r \in Requests : RequestNext(r)
    \/ \E t \in Tokens : Refuse(t)

LEMMA RequestStepFrame ==
    ASSUME RequestStep PROVE UNCHANGED <<now, users, login, counted>>
  BY DEF RequestStep, RequestNext, CheckPassive, CheckActive, Touch, SignOut,
         Done, OpenStream, StreamEnds, Disconnect, Refuse

LEMMA NextCases ==
    ASSUME [Next]_vars
    PROVE  \/ Tick
           \/ \E n \in Names : AddUser(n)
           \/ \E l \in Logins : LoginNext(l)
           \/ RequestStep
           \/ Restart
           \/ UNCHANGED vars
  BY DEF Next, RequestStep
-----------------------------------------------------------------------------
\* The types of the single components of the state.
LEMMA Types ==
    ASSUME TypeOK
    PROVE  /\ \A k \in Keys : /\ limit[k] # NoRow => limit[k].count \in Nat
                                                  /\ limit[k].reset \in Nat
                              /\ burst[k].size \in Nat /\ burst[k].last \in Nat
           /\ \A t \in Tokens : /\ session[t] # NoRow => session[t].expires \in Nat
                                                      /\ session[t].touched \in Nat
                                /\ life[t].since \in Nat /\ life[t].active \in Nat
           /\ \A l \in Logins : login[l].at \in Nat /\ login[l].key \in Keys \cup {NoKey}
           /\ \A r \in Requests : request[r].at \in Nat
           /\ now \in Nat
  BY DEF TypeOK

LEMMA Amounts ==
    /\ MaxFailures \in Nat /\ Window \in Nat /\ Idle \in Nat /\ Lifetime \in Nat
    /\ MaxWait \in Nat /\ MaxTime \in Nat /\ MaxFailures > 0
    /\ MaxWait < Window /\ MaxWait <= Idle /\ MaxWait <= Lifetime
  BY AuthAssumption

LEMMA FailuresType ==
    ASSUME TypeOK, NEW l \in Logins, Waiting(l)
    PROVE  Failures(l) \in Nat
  BY Types DEF Failures, Waiting

LEMMA TypeLogin ==
    ASSUME TypeOK, NEW l \in Logins, LoginNext(l)
    PROVE  TypeOK'
  <1>1. ASSUME NEW k \in Keys, Attempt(l, k) PROVE TypeOK'
    BY <1>1 DEF Attempt, TypeOK, counted, used
  <1>2. CASE Throttled(l)
    BY <1>2 DEF Throttled, Leave, NoLogin, TypeOK, counted, used
  <1>3. CASE LoginFails(l)
    BY <1>3 DEF LoginFails, Leave, NoLogin, TypeOK, counted, used
  <1>4. CASE Denied(l)
    <2>1. login[l].key \in Keys
      BY <1>4, Types DEF Denied, Waiting
    <2>2. Failures(l) + 1 \in Nat /\ login[l].at + Window \in Nat
      BY <1>4, FailuresType, Types, Amounts DEF Denied
    <2>3. InBurst(login[l].key) \in [size : Nat, last : Nat]
      BY <2>1, Types DEF InBurst
    <2> QED BY <1>4, <2>1, <2>2, <2>3 DEF Denied, Leave, NoLogin, TypeOK, used
  <1>5. ASSUME NEW t \in Tokens, Accepted(l, t) PROVE TypeOK'
    <2>1. login[l].key \in Keys /\ login[l].at + Lifetime \in Nat
      BY <1>5, Types, Amounts DEF Accepted, Waiting
    <2> QED BY <1>5, <2>1 DEF Accepted, Leave, NoLogin, TypeOK
  <1> QED BY <1>1, <1>2, <1>3, <1>4, <1>5 DEF LoginNext

LEMMA TypeRequest ==
    ASSUME TypeOK, RequestStep
    PROVE  TypeOK'
  <1>1. ASSUME NEW r \in Requests, NEW t \in Tokens, CheckPassive(r, t)
        PROVE  TypeOK'
    BY <1>1 DEF CheckPassive, Enter, TypeOK, counted
  <1>2. ASSUME NEW r \in Requests, NEW t \in Tokens, CheckActive(r, t)
        PROVE  TypeOK'
    BY <1>2 DEF CheckActive, Enter, TypeOK, counted
  <1>3. ASSUME NEW r \in Requests, Touch(r) PROVE TypeOK'
    <2>1. request[r].token \in Tokens /\ request[r].at \in Nat
      BY <1>3 DEF Touch, TypeOK
    <2>2. session' \in [Tokens -> {NoRow} \cup [expires : Nat, touched : Nat]]
      BY <1>3, <2>1 DEF Touch, TypeOK
    <2> QED BY <1>3, <2>1, <2>2 DEF Touch, Enter, TypeOK, counted
  <1>4. ASSUME NEW r \in Requests, SignOut(r) PROVE TypeOK'
    <2>1. request[r].token \in Tokens
      BY <1>4 DEF SignOut, TypeOK
    <2> QED BY <1>4, <2>1 DEF SignOut, Reset, NoRequest, TypeOK, counted
  <1>5. ASSUME NEW r \in Requests, Done(r) PROVE TypeOK'
    BY <1>5 DEF Done, Reset, NoRequest, TypeOK, counted
  <1>6. ASSUME NEW r \in Requests, OpenStream(r) PROVE TypeOK'
    BY <1>6 DEF OpenStream, TypeOK, counted
  <1>7. ASSUME NEW r \in Requests, StreamEnds(r) PROVE TypeOK'
    BY <1>7 DEF StreamEnds, Reset, NoRequest, TypeOK, counted
  <1>8. ASSUME NEW r \in Requests, Disconnect(r) PROVE TypeOK'
    BY <1>8 DEF Disconnect, Reset, NoRequest, TypeOK, counted
  <1>9. ASSUME NEW t \in Tokens, Refuse(t) PROVE TypeOK'
    BY <1>9 DEF Refuse, TypeOK, counted
  <1> QED BY <1>1, <1>2, <1>3, <1>4, <1>5, <1>6, <1>7, <1>8, <1>9
          DEF RequestStep, RequestNext

LEMMA TypeInit == Init => TypeOK
  BY DEF Init, TypeOK, NoLogin, NoRequest, Unborn

LEMMA TypeStep == TypeOK /\ [Next]_vars => TypeOK'
  <1> SUFFICES ASSUME TypeOK, [Next]_vars PROVE TypeOK'
    OBVIOUS
  <1>1. CASE Tick
    BY <1>1 DEF Tick, TypeOK, counted, used
  <1>2. ASSUME NEW n \in Names, AddUser(n) PROVE TypeOK'
    BY <1>2 DEF AddUser, TypeOK, counted, used
  <1>3. CASE Restart
    BY <1>3 DEF Restart, NoLogin, NoRequest, TypeOK, counted
  <1>4. CASE UNCHANGED vars
    BY <1>4 DEF vars, TypeOK
  <1> QED BY NextCases, TypeLogin, TypeRequest, <1>1, <1>2, <1>3, <1>4

\* Every variable keeps its shape.
THEOREM TypeCorrect == Spec => []TypeOK
  BY TypeInit, TypeStep, PTL DEF Spec
-----------------------------------------------------------------------------
\* A login that waits read its clock at most MaxWait ago.
WaitBounded ==
    \A l \in Logins :
        Waiting(l) => login[l].at <= now /\ now <= login[l].at + MaxWait

\* While a burst can go on, the row of its key counts at least as much.
BurstCounted ==
    \A k \in Keys : burst[k].size > 0 =>
        /\ limit[k] # NoRow
        /\ burst[k].size <= limit[k].count
        /\ limit[k].count <= MaxFailures
        /\ burst[k].last + Gap <= limit[k].reset

LoginInv == WaitBounded /\ BurstCounted

LEMMA LoginInit == Init => LoginInv
  BY DEF Init, LoginInv, WaitBounded, BurstCounted, Waiting, NoLogin

\* A thread that leaves login waits no more.
LEMMA LeaveWaits ==
    ASSUME TypeOK, WaitBounded, NEW l \in Logins, Leave(l), now' = now
    PROVE  WaitBounded'
  BY DEF WaitBounded, Leave, Waiting, NoLogin, TypeOK

LEMMA DeniedCounts ==
    ASSUME TypeOK, LoginInv, NEW l \in Logins, Denied(l)
    PROVE  BurstCounted'
  <1> DEFINE key == login[l].key
             n == Failures(l)
  <1>1. /\ key \in Keys /\ n \in Nat /\ n < MaxFailures
        /\ login[l].at \in Nat /\ now \in Nat /\ login[l].at <= now
        /\ now <= login[l].at + MaxWait
    BY Types, FailuresType DEF Denied, Waiting, LoginInv, WaitBounded
  <1>2. limit'[key] = [count |-> n + 1, reset |-> login[l].at + Window]
    BY <1>1 DEF Denied, TypeOK
  <1>3. burst'[key] = InBurst(key)
    BY <1>1 DEF Denied, TypeOK
  <1>4. InBurst(key).last = now
    BY DEF InBurst
  <1>5. burst'[key].size <= n + 1
    <2>1. CASE burst[key].size > 0 /\ now < burst[key].last + Gap
      <3>1. /\ limit[key] # NoRow /\ burst[key].size <= limit[key].count
            /\ burst[key].last + Gap <= limit[key].reset
        BY <1>1, <2>1 DEF LoginInv, BurstCounted
      <3>2. /\ burst[key].size \in Nat /\ burst[key].last \in Nat
            /\ limit[key].count \in Nat /\ limit[key].reset \in Nat
        BY <1>1, <3>1, Types
      <3>3. limit[key].reset > login[l].at
        BY <1>1, <2>1, <3>1, <3>2, Amounts DEF Gap
      <3>4. n = limit[key].count
        BY <3>1, <3>3 DEF Failures
      <3>5. InBurst(key).size = burst[key].size + 1
        BY <2>1 DEF InBurst
      <3> QED BY <1>3, <3>1, <3>2, <3>4, <3>5
    <2>2. CASE ~(burst[key].size > 0 /\ now < burst[key].last + Gap)
      <3>1. InBurst(key).size = 1
        BY <2>2 DEF InBurst
      <3> QED BY <1>1, <1>3, <3>1
    <2> QED BY <2>1, <2>2
  <1>6. now + Gap <= login[l].at + Window
    BY <1>1, Amounts DEF Gap
  <1>7. [count |-> n + 1, reset |-> login[l].at + Window] # NoRow
    <2>1. [count |-> n + 1, reset |-> login[l].at + Window]
              \in [count : Nat, reset : Nat]
      BY <1>1, Amounts
    <2> QED BY <2>1, AuthAssumption
  <1>8. n + 1 <= MaxFailures
    BY <1>1, Amounts
  <1>9. ASSUME NEW k \in Keys, k # key
        PROVE  limit'[k] = limit[k] /\ burst'[k] = burst[k]
    BY <1>1, <1>9 DEF Denied, TypeOK
  <1> SUFFICES ASSUME NEW k \in Keys, burst'[k].size > 0
               PROVE  /\ limit'[k] # NoRow
                      /\ burst'[k].size <= limit'[k].count
                      /\ limit'[k].count <= MaxFailures
                      /\ burst'[k].last + Gap <= limit'[k].reset
    BY DEF BurstCounted, Gap
  <1>10. CASE k = key
    BY <1>10, <1>2, <1>3, <1>4, <1>5, <1>6, <1>7, <1>8
  <1>11. CASE k # key
    BY <1>9, <1>11 DEF LoginInv, BurstCounted
  <1> QED BY <1>10, <1>11

LEMMA AcceptedCounts ==
    ASSUME TypeOK, LoginInv, NEW l \in Logins, NEW t \in Tokens, Accepted(l, t)
    PROVE  BurstCounted'
  <1>1. login[l].key \in Keys
    BY Types DEF Accepted, Waiting
  <1>2. burst'[login[l].key].size = 0
    BY <1>1 DEF Accepted, TypeOK
  <1>3. ASSUME NEW k \in Keys, k # login[l].key
        PROVE  limit'[k] = limit[k] /\ burst'[k] = burst[k]
    BY <1>1, <1>3 DEF Accepted, TypeOK
  <1> QED BY <1>2, <1>3 DEF LoginInv, BurstCounted, Gap

LEMMA LoginStep == TypeOK /\ LoginInv /\ [Next]_vars => LoginInv'
  <1> SUFFICES ASSUME TypeOK, LoginInv, [Next]_vars PROVE LoginInv'
    OBVIOUS
  <1>1. CASE Tick
    <2>1. WaitBounded'
      <3> SUFFICES ASSUME NEW l \in Logins, Waiting(l)'
                   PROVE  login'[l].at <= now' /\ now' <= login'[l].at + MaxWait
        BY DEF WaitBounded
      <3>1. /\ Waiting(l) /\ login' = login /\ now' = now + 1
            /\ now < login[l].at + MaxWait /\ login[l].at <= now
        BY <1>1 DEF Tick, Waiting, LoginInv, WaitBounded
      <3>2. now \in Nat /\ login[l].at \in Nat
        BY Types
      <3> QED BY <3>1, <3>2, Amounts
    <2>2. BurstCounted'
      BY <1>1 DEF Tick, counted, LoginInv, BurstCounted, Gap
    <2> QED BY <2>1, <2>2 DEF LoginInv
  <1>2. ASSUME NEW n \in Names, AddUser(n) PROVE LoginInv'
    BY <1>2 DEF AddUser, counted, LoginInv, WaitBounded, BurstCounted, Waiting, Gap
  <1>3. ASSUME NEW l \in Logins, LoginNext(l) PROVE LoginInv'
    <2>1. ASSUME NEW k \in Keys, Attempt(l, k) PROVE LoginInv'
      <3>1. WaitBounded'
        <4> SUFFICES ASSUME NEW m \in Logins, Waiting(m)'
                     PROVE  login'[m].at <= now' /\ now' <= login'[m].at + MaxWait
          BY DEF WaitBounded
        <4>1. now' = now /\ now \in Nat
          BY <2>1, Types DEF Attempt
        <4>2. CASE m = l
          <5>1. login'[m].at = now
            BY <2>1, <4>2 DEF Attempt, TypeOK
          <5> QED BY <4>1, <5>1, Amounts
        <4>3. CASE m # l
          <5>1. login'[m] = login[m]
            BY <2>1, <4>3 DEF Attempt, TypeOK
          <5> QED BY <4>1, <5>1 DEF Waiting, LoginInv, WaitBounded
        <4> QED BY <4>2, <4>3
      <3>2. BurstCounted'
        BY <2>1 DEF Attempt, counted, LoginInv, BurstCounted, Gap
      <3> QED BY <3>1, <3>2 DEF LoginInv
    <2>2. CASE Throttled(l)
      BY <2>2, LeaveWaits DEF Throttled, counted, LoginInv, BurstCounted, Gap
    <2>3. CASE LoginFails(l)
      BY <2>3, LeaveWaits DEF LoginFails, counted, LoginInv, BurstCounted, Gap
    <2>4. CASE Denied(l)
      BY <2>4, LeaveWaits, DeniedCounts DEF Denied, LoginInv
    <2>5. ASSUME NEW t \in Tokens, Accepted(l, t) PROVE LoginInv'
      BY <2>5, LeaveWaits, AcceptedCounts DEF Accepted, LoginInv
    <2> QED BY <1>3, <2>1, <2>2, <2>3, <2>4, <2>5 DEF LoginNext
  <1>4. CASE RequestStep
    BY <1>4, RequestStepFrame
    DEF counted, LoginInv, WaitBounded, BurstCounted, Waiting, Gap
  <1>5. CASE Restart
    BY <1>5
    DEF Restart, NoLogin, counted, LoginInv, WaitBounded, BurstCounted, Waiting, Gap
  <1>6. CASE UNCHANGED vars
    BY <1>6 DEF vars, LoginInv, WaitBounded, BurstCounted, Waiting, Gap
  <1> QED BY NextCases, <1>1, <1>2, <1>3, <1>4, <1>5, <1>6

LEMMA BoundedByCount == TypeOK /\ LoginInv => FailuresBounded
  <1> SUFFICES ASSUME TypeOK, LoginInv, NEW k \in Keys
               PROVE  burst[k].size <= MaxFailures
    BY DEF FailuresBounded
  <1>1. burst[k].size \in Nat
    BY Types
  <1>2. CASE burst[k].size > 0
    BY <1>1, <1>2, Types, Amounts DEF LoginInv, BurstCounted
  <1>3. CASE burst[k].size = 0
    BY <1>3, Amounts
  <1> QED BY <1>1, <1>2, <1>3

LEMMA BothInvariant == Spec => [](TypeOK /\ LoginInv)
  <1>1. TypeOK /\ LoginInv /\ [Next]_vars => (TypeOK /\ LoginInv)'
    BY TypeStep, LoginStep
  <1> QED BY <1>1, TypeInit, LoginInit, PTL DEF Spec

\* At most MaxFailures logins of an address and name are denied in a burst.
THEOREM DenialsBounded == Spec => []FailuresBounded
  BY BothInvariant, BoundedByCount, PTL
-----------------------------------------------------------------------------
\* A row belongs to a token that was not logged out, and promises no more
\* than its login and its last request that is not passive have earned.
RowsEarned ==
    \A t \in Tokens : session[t] # NoRow =>
        /\ life[t].state = "born"
        /\ session[t].touched <= life[t].active
        /\ session[t].expires <= life[t].since + Lifetime

\* An UPDATE that is under way carries the time of a request that was let in.
TouchesEarned ==
    \A r \in Requests : request[r].pc = "touching" =>
        request[r].at <= life[request[r].token].active

\* A refused token has no live row, and no UPDATE is on its way to one.
RefusedIsDead ==
    \A t \in refused :
        /\ life[t].state # "unborn"
        /\ ~Live(t)
        /\ \A r \in Requests :
               ~(request[r].pc = "touching" /\ request[r].token = t)

\* The latest activity is not in the future.
ActiveIsPast == \A t \in Tokens : life[t].active <= now

\* Whoever is let in came with a token that a login has drawn.
UsedAreBorn ==
    \A r \in Requests : request[r].pc # "idle" =>
        life[request[r].token].state # "unborn"

SessionInv ==
    RowsEarned /\ TouchesEarned /\ RefusedIsDead /\ ActiveIsPast /\ UsedAreBorn

LEMMA SessionInit == Init => SessionInv
  BY DEF Init, SessionInv, RowsEarned, TouchesEarned, RefusedIsDead,
         ActiveIsPast, UsedAreBorn, NoRequest, Unborn

\* Where neither sessions nor requests change, time can only end a session.
LEMMA SessionFrame ==
    ASSUME TypeOK, SessionInv, UNCHANGED used, now' \in Nat, now' >= now
    PROVE  SessionInv'
  <1>1. RefusedIsDead'
    <2> SUFFICES ASSUME NEW t \in refused PROVE ~Live(t)'
      BY DEF RefusedIsDead, SessionInv, used
    <2>1. t \in Tokens /\ now \in Nat
      BY DEF TypeOK
    <2>2. ~Live(t)
      BY DEF SessionInv, RefusedIsDead
    <2> QED BY <2>1, <2>2, Types, Amounts DEF Live, used
  <1>2. ActiveIsPast'
    BY Types DEF ActiveIsPast, SessionInv, used
  <1> QED BY <1>1, <1>2
          DEF SessionInv, RowsEarned, TouchesEarned, UsedAreBorn, used

\* A step that changes nothing but where requests are, and starts no UPDATE.
LEMMA RequestFrame ==
    ASSUME TypeOK, SessionInv, UNCHANGED <<now, session, life, refused>>,
           \A r \in Requests : request'[r].pc = "touching" =>
                                   request'[r] = request[r],
           UsedAreBorn'
    PROVE  SessionInv'
  BY DEF SessionInv, RowsEarned, TouchesEarned, RefusedIsDead, ActiveIsPast, Live

LEMMA ActiveEarned ==
    ASSUME TypeOK, SessionInv, NEW r \in Requests, NEW t \in Tokens,
           CheckActive(r, t)
    PROVE  SessionInv'
  <1>1. /\ session' = session /\ now' = now /\ refused' = refused
        /\ request'[r] = [pc |-> "touching", token |-> t, at |-> now]
        /\ \A q \in Requests \ {r} : request'[q] = request[q]
        /\ life'[t].active = now /\ life'[t].since = life[t].since
        /\ life'[t].state = life[t].state
        /\ \A u \in Tokens \ {t} : life'[u] = life[u]
    BY DEF CheckActive, Enter, TypeOK
  <1>2. \A u \in Tokens : life[u].active <= life'[u].active
                          /\ life'[u].active <= now
    BY <1>1, Types DEF SessionInv, ActiveIsPast
  <1>3. RowsEarned'
    BY <1>1, <1>2, Types DEF SessionInv, RowsEarned
  <1>4. TouchesEarned'
    <2> SUFFICES ASSUME NEW q \in Requests, request'[q].pc = "touching"
                 PROVE  request'[q].at <= life'[request'[q].token].active
      BY DEF TouchesEarned
    <2>1. CASE q = r
      BY <1>1, <2>1, Types
    <2>2. CASE q # r
      <3>1. request'[q] = request[q] /\ request[q].token \in Tokens
        BY <1>1, <2>2 DEF TypeOK
      <3>2. request[q].at <= life[request[q].token].active
        BY <3>1 DEF SessionInv, TouchesEarned
      <3> QED BY <1>1, <1>2, <3>1, <3>2, Types
    <2> QED BY <2>1, <2>2
  <1>5. t \notin refused
    BY DEF CheckActive, SessionInv, RefusedIsDead
  <1>6. RefusedIsDead'
    <2> SUFFICES ASSUME NEW u \in refused
                 PROVE  /\ life'[u].state # "unborn"
                        /\ ~Live(u)'
                        /\ \A q \in Requests :
                               ~(request'[q].pc = "touching" /\ request'[q].token = u)
      BY <1>1 DEF RefusedIsDead
    <2>1. u \in Tokens /\ u # t
      BY <1>5 DEF TypeOK
    <2>2. ~Live(u)'
      BY <1>1, <2>1 DEF CheckActive, SessionInv, RefusedIsDead, Live
    <2>3. \A q \in Requests :
              ~(request'[q].pc = "touching" /\ request'[q].token = u)
      BY <1>1, <2>1 DEF SessionInv, RefusedIsDead
    <2>4. life'[u].state # "unborn"
      BY <1>1, <2>1 DEF SessionInv, RefusedIsDead
    <2> QED BY <2>2, <2>3, <2>4
  <1>7. UsedAreBorn'
    <2>1. life[t].state # "unborn"
      BY DEF CheckActive, Live, SessionInv, RowsEarned
    <2> QED BY <1>1, <2>1 DEF SessionInv, UsedAreBorn, TypeOK
  <1> QED BY <1>1, <1>2, <1>3, <1>4, <1>6, <1>7 DEF SessionInv, ActiveIsPast

LEMMA TouchEarned ==
    ASSUME TypeOK, SessionInv, NEW r \in Requests, Touch(r)
    PROVE  SessionInv'
  <1> DEFINE t == request[r].token
  <1>1. /\ t \in Tokens /\ request[r].at \in Nat
        /\ request[r].at <= life[t].active
        /\ t \notin refused
    BY DEF Touch, TypeOK, SessionInv, TouchesEarned, RefusedIsDead
  <1>2. /\ life' = life /\ now' = now /\ refused' = refused
        /\ request'[r].pc = "acting" /\ request'[r].token = t
        /\ \A q \in Requests \ {r} : request'[q] = request[q]
        /\ \A u \in Tokens \ {t} : session'[u] = session[u]
        /\ session'[t] # NoRow =>
               /\ session[t] # NoRow
               /\ session'[t].expires = session[t].expires
               /\ session'[t].touched = request[r].at
    BY <1>1 DEF Touch, Enter, TypeOK
  <1>3. RowsEarned'
    BY <1>1, <1>2 DEF SessionInv, RowsEarned
  <1>4. TouchesEarned'
    BY <1>2 DEF SessionInv, TouchesEarned
  <1>5. RefusedIsDead'
    BY <1>1, <1>2 DEF SessionInv, RefusedIsDead, Live, TypeOK
  <1>6. UsedAreBorn'
    BY <1>2 DEF Touch, SessionInv, UsedAreBorn
  <1> QED BY <1>2, <1>3, <1>4, <1>5, <1>6 DEF SessionInv, ActiveIsPast

LEMMA SignOutEarned ==
    ASSUME TypeOK, SessionInv, NEW r \in Requests, SignOut(r)
    PROVE  SessionInv'
  <1> DEFINE t == request[r].token
  <1>1. t \in Tokens
    BY DEF SignOut, TypeOK
  <1>2. /\ now' = now /\ refused' = refused
        /\ request'[r].pc = "idle"
        /\ \A q \in Requests \ {r} : request'[q] = request[q]
        /\ session'[t] = NoRow
        /\ \A u \in Tokens \ {t} : session'[u] = session[u] /\ life'[u] = life[u]
        /\ life'[t].state = "out" /\ life'[t].active = life[t].active
    BY <1>1 DEF SignOut, Reset, NoRequest, TypeOK
  <1>3. RowsEarned'
    BY <1>1, <1>2 DEF SessionInv, RowsEarned
  <1>4. TouchesEarned'
    BY <1>1, <1>2 DEF SessionInv, TouchesEarned, TypeOK
  <1>5. RefusedIsDead'
    BY <1>1, <1>2 DEF SessionInv, RefusedIsDead, Live, TypeOK
  <1>6. ActiveIsPast'
    BY <1>1, <1>2 DEF SessionInv, ActiveIsPast
  <1>7. UsedAreBorn'
    BY <1>1, <1>2 DEF SessionInv, UsedAreBorn, TypeOK
  <1> QED BY <1>3, <1>4, <1>5, <1>6, <1>7 DEF SessionInv

\* A lookup that finds its session dead does so while no UPDATE is under way.
LEMMA RefusalEarned ==
    ASSUME TypeOK, SessionInv, NEW t \in Tokens, LoopFree, ~Live(t),
           life[t].state # "unborn", refused' = refused \cup {t},
           UNCHANGED <<now, session, life>>,
           \A r \in Requests : request'[r].pc = "touching" =>
                                   request'[r] = request[r],
           UsedAreBorn'
    PROVE  SessionInv'
  BY DEF SessionInv, RowsEarned, TouchesEarned, RefusedIsDead, ActiveIsPast,
         Live, LoopFree

LEMMA AcceptedEarned ==
    ASSUME TypeOK, SessionInv, LoginInv, NEW l \in Logins, NEW t \in Tokens,
           Accepted(l, t)
    PROVE  SessionInv'
  <1>1. /\ now' = now /\ refused' = refused /\ request' = request
        /\ session'[t] = [expires |-> login[l].at + Lifetime, touched |-> now]
        /\ life'[t] = [since |-> now, active |-> now, state |-> "born"]
        /\ \A u \in Tokens \ {t} : session'[u] = session[u] /\ life'[u] = life[u]
    BY DEF Accepted, TypeOK
  <1>2. /\ t \notin refused /\ life[t].active <= now
        /\ login[l].at <= now
    BY DEF Accepted, SessionInv, RefusedIsDead, ActiveIsPast, LoginInv,
           WaitBounded
  <1>3. login[l].at + Lifetime <= now + Lifetime
    BY <1>2, Types, Amounts
  <1>4. RowsEarned'
    BY <1>1, <1>3, Types DEF SessionInv, RowsEarned
  <1>5. TouchesEarned'
    <2> SUFFICES ASSUME NEW r \in Requests, request[r].pc = "touching"
                 PROVE  request[r].at <= life'[request[r].token].active
      BY <1>1 DEF TouchesEarned
    <2>1. request[r].token \in Tokens
      BY DEF TypeOK
    <2>2. request[r].at <= life[request[r].token].active
      BY DEF SessionInv, TouchesEarned
    <2>3. CASE request[r].token = t
      BY <1>1, <1>2, <2>2, <2>3, Types
    <2>4. CASE request[r].token # t
      BY <1>1, <2>1, <2>2, <2>4
    <2> QED BY <2>3, <2>4
  <1>6. RefusedIsDead'
    <2> SUFFICES ASSUME NEW u \in refused
                 PROVE  /\ life'[u].state # "unborn"
                        /\ ~Live(u)'
                        /\ \A r \in Requests :
                               ~(request[r].pc = "touching" /\ request[r].token = u)
      BY <1>1 DEF RefusedIsDead
    <2>1. u \in Tokens \ {t}
      BY <1>2 DEF TypeOK
    <2>2. session'[u] = session[u] /\ life'[u] = life[u] /\ now' = now
      BY <1>1, <2>1
    <2> QED BY <2>2 DEF SessionInv, RefusedIsDead, Live
  <1>7. ActiveIsPast'
    BY <1>1, Types DEF SessionInv, ActiveIsPast
  <1>8. UsedAreBorn'
    BY <1>1 DEF SessionInv, UsedAreBorn, TypeOK
  <1> QED BY <1>4, <1>5, <1>6, <1>7, <1>8 DEF SessionInv

LEMMA SessionStep ==
    TypeOK /\ LoginInv /\ SessionInv /\ [Next]_vars => SessionInv'
  <1> SUFFICES ASSUME TypeOK, LoginInv, SessionInv, [Next]_vars
               PROVE  SessionInv'
    OBVIOUS
  <1>0. now \in Nat /\ now >= now
    BY Types
  <1>1. CASE Tick
    <2>1. now' \in Nat /\ now' >= now /\ UNCHANGED used
      BY <1>0, <1>1 DEF Tick
    <2> QED BY <2>1, SessionFrame
  <1>2. ASSUME NEW n \in Names, AddUser(n) PROVE SessionInv'
    BY <1>0, <1>2, SessionFrame DEF AddUser
  <1>3. ASSUME NEW l \in Logins, LoginNext(l) PROVE SessionInv'
    <2>1. ASSUME NEW t \in Tokens, Accepted(l, t) PROVE SessionInv'
      BY <2>1, AcceptedEarned
    <2>2. CASE ~(\E t \in Tokens : Accepted(l, t))
      <3>1. now' = now /\ UNCHANGED used
        BY <1>3, <2>2 DEF LoginNext, Attempt, Throttled, Denied, LoginFails
      <3> QED BY <1>0, <3>1, SessionFrame
    <2> QED BY <2>1, <2>2
  <1>4. ASSUME NEW r \in Requests, RequestNext(r) PROVE SessionInv'
    <2>1. ASSUME NEW t \in Tokens, CheckPassive(r, t) PROVE SessionInv'
      <3>1. \A q \in Requests : request'[q].pc = "touching" =>
                                    request'[q] = request[q]
        BY <2>1 DEF CheckPassive, Enter, TypeOK
      <3>2. life[t].state # "unborn"
        BY <2>1 DEF CheckPassive, Live, SessionInv, RowsEarned
      <3>3. UsedAreBorn'
        BY <2>1, <3>2 DEF CheckPassive, Enter, SessionInv, UsedAreBorn, TypeOK
      <3> QED BY <2>1, <3>1, <3>3, RequestFrame DEF CheckPassive
    <2>2. ASSUME NEW t \in Tokens, CheckActive(r, t) PROVE SessionInv'
      BY <2>2, ActiveEarned
    <2>3. CASE Touch(r)
      BY <2>3, TouchEarned
    <2>4. CASE SignOut(r)
      BY <2>4, SignOutEarned
    <2>5. CASE Done(r)
      <3>1. \A q \in Requests : request'[q].pc = "touching" =>
                                    request'[q] = request[q]
        BY <2>5 DEF Done, Reset, NoRequest, TypeOK
      <3>2. UsedAreBorn'
        BY <2>5 DEF Done, Reset, NoRequest, SessionInv, UsedAreBorn, TypeOK
      <3> QED BY <2>5, <3>1, <3>2, RequestFrame DEF Done
    <2>6. CASE OpenStream(r)
      <3>1. \A q \in Requests : request'[q].pc = "touching" =>
                                    request'[q] = request[q]
        BY <2>6 DEF OpenStream, TypeOK
      <3>2. UsedAreBorn'
        BY <2>6 DEF OpenStream, SessionInv, UsedAreBorn, TypeOK
      <3> QED BY <2>6, <3>1, <3>2, RequestFrame DEF OpenStream
    <2>7. CASE StreamEnds(r)
      <3>1. \A q \in Requests : request'[q].pc = "touching" =>
                                    request'[q] = request[q]
        BY <2>7 DEF StreamEnds, Reset, NoRequest, TypeOK
      <3>2. request[r].token \in Tokens
        BY <2>7 DEF StreamEnds, TypeOK
      <3>3. life[request[r].token].state # "unborn"
        BY <2>7 DEF StreamEnds, SessionInv, UsedAreBorn
      <3>4. UsedAreBorn'
        BY <2>7 DEF StreamEnds, Reset, NoRequest, SessionInv, UsedAreBorn, TypeOK
      <3> QED BY <2>7, <3>1, <3>2, <3>3, <3>4, RefusalEarned DEF StreamEnds
    <2>8. CASE Disconnect(r)
      <3>1. \A q \in Requests : request'[q].pc = "touching" =>
                                    request'[q] = request[q]
        BY <2>8 DEF Disconnect, Reset, NoRequest, TypeOK
      <3>2. UsedAreBorn'
        BY <2>8 DEF Disconnect, Reset, NoRequest, SessionInv, UsedAreBorn, TypeOK
      <3> QED BY <2>8, <3>1, <3>2, RequestFrame DEF Disconnect
    <2> QED BY <1>4, <2>1, <2>2, <2>3, <2>4, <2>5, <2>6, <2>7, <2>8
            DEF RequestNext
  <1>5. ASSUME NEW t \in Tokens, Refuse(t) PROVE SessionInv'
    <2>1. UsedAreBorn'
      BY <1>5 DEF Refuse, SessionInv, UsedAreBorn
    <2> QED BY <1>5, <2>1, RefusalEarned DEF Refuse
  <1>6. CASE Restart
    BY <1>6, RequestFrame DEF Restart, NoRequest, UsedAreBorn
  <1>7. CASE UNCHANGED vars
    BY <1>0, <1>7, SessionFrame DEF vars, used
  <1> QED BY NextCases, <1>1, <1>2, <1>3, <1>4, <1>5, <1>6, <1>7 DEF RequestStep

LEMMA AllInvariant == Spec => [](TypeOK /\ LoginInv /\ SessionInv)
  <1>1. TypeOK /\ LoginInv /\ SessionInv /\ [Next]_vars
            => (TypeOK /\ LoginInv /\ SessionInv)'
    BY TypeStep, LoginStep, SessionStep
  <1> QED BY <1>1, TypeInit, LoginInit, SessionInit, PTL DEF Spec
-----------------------------------------------------------------------------
\* Only a lookup lets a request in, and only with a live session.
LEMMA LetInIsLive ==
    ASSUME TypeOK, [Next]_vars, NEW r \in Requests,
           request[r].pc = "idle", request'[r].pc # "idle"
    PROVE  Live(request'[r].token) /\ request'[r].token \in Tokens
  <1>1. ASSUME NEW q \in Requests, NEW t \in Tokens,
               CheckPassive(q, t) \/ CheckActive(q, t)
        PROVE  Live(request'[r].token) /\ request'[r].token \in Tokens
    <2>1. q = r
      BY <1>1 DEF CheckPassive, CheckActive, Enter, TypeOK
    <2> QED BY <1>1, <2>1 DEF CheckPassive, CheckActive, Enter, TypeOK
  <1>2. ASSUME NEW q \in Requests,
               \/ Touch(q) \/ SignOut(q) \/ Done(q) \/ OpenStream(q)
               \/ StreamEnds(q) \/ Disconnect(q)
        PROVE  FALSE
    <2>1. request[q].pc # "idle"
      BY <1>2 DEF Touch, SignOut, Done, OpenStream, StreamEnds, Disconnect
    <2>2. request'[r] = request[r]
      BY <1>2, <2>1 DEF Touch, SignOut, Done, OpenStream, StreamEnds,
                        Disconnect, Reset, Enter, TypeOK
    <2> QED BY <2>2
  <1>3. CASE Restart
    BY <1>3 DEF Restart, NoRequest
  <1>4. CASE UNCHANGED request
    BY <1>4
  <1>5. ASSUME NEW l \in Logins, LoginNext(l) PROVE UNCHANGED request
    BY <1>5 DEF LoginNext, Attempt, Throttled, Denied, Accepted, LoginFails, used
  <1>6. CASE Tick \/ (\E n \in Names : AddUser(n)) \/ (\E t \in Tokens : Refuse(t))
    BY <1>4, <1>6 DEF Tick, AddUser, Refuse, used
  <1> QED BY <1>1, <1>2, <1>3, <1>4, <1>5, <1>6
          DEF Next, RequestNext, vars

\* A request is let in only with a session that is earned.
THEOREM SessionsEarned == Spec => UseIsEarned
  <1>1. ASSUME TypeOK, SessionInv, [Next]_vars, NEW r \in Requests,
               request[r].pc = "idle", request'[r].pc # "idle"
        PROVE  LET t == request'[r].token
               IN  /\ life[t].state = "born"
                   /\ now <= life[t].since + Lifetime
                   /\ now <= life[t].active + Idle
                   /\ t \notin refused
    <2> DEFINE t == request'[r].token
    <2>1. Live(t) /\ t \in Tokens
      BY <1>1, LetInIsLive
    <2>2. /\ life[t].state = "born"
          /\ session[t].touched <= life[t].active
          /\ session[t].expires <= life[t].since + Lifetime
      BY <1>1, <2>1 DEF Live, SessionInv, RowsEarned
    <2>3. /\ session[t].touched \in Nat /\ session[t].expires \in Nat
          /\ life[t].active \in Nat /\ life[t].since \in Nat /\ now \in Nat
      BY <1>1, <2>1, Types DEF Live
    <2>4. now <= life[t].since + Lifetime
      BY <2>1, <2>2, <2>3, Amounts DEF Live
    <2>5. now <= life[t].active + Idle
      BY <2>1, <2>2, <2>3, Amounts DEF Live
    <2>6. t \notin refused
      BY <1>1, <2>1 DEF SessionInv, RefusedIsDead
    <2> QED BY <2>2, <2>4, <2>5, <2>6
  <1>2. TypeOK /\ LoginInv /\ SessionInv /\ [Next]_vars =>
            \A r \in Requests :
                request[r].pc = "idle" /\ request'[r].pc # "idle" =>
                    LET t == request'[r].token
                    IN  /\ life[t].state = "born"
                        /\ now <= life[t].since + Lifetime
                        /\ now <= life[t].active + Idle
                        /\ t \notin refused
    BY <1>1
  <1> QED BY <1>2, AllInvariant, PTL DEF Spec, UseIsEarned
=============================================================================
