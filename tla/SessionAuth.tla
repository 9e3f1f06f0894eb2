---------------------------- MODULE SessionAuth ----------------------------
(***************************************************************************)
(* auth.py and the session part of server.py: logins limited per address   *)
(* and name, sessions with a lifetime and an idle timeout, logout, and the *)
(* event stream that looks its session up again and again.                 *)
(*                                                                         *)
(* Logins and logouts run in threads; a login reads its clock before it    *)
(* waits for the store's lock.  The lookup of a request's session runs on  *)
(* the event loop and never awaits, so there is one at a time, but it is a *)
(* SELECT and an UPDATE outside the lock: threads run in between.  The     *)
(* clock never runs backwards.                                             *)
(***************************************************************************)
EXTENDS Naturals

CONSTANTS Names,        \* account names that are tried
          Addresses,    \* client addresses
          Tokens,       \* session tokens, each drawn once
          Logins,       \* threads in login
          Requests,     \* requests that carry a token
          MaxFailures,  \* failures before an address and name must wait: 5
          Window,       \* how long it must wait: 300 seconds
          Idle,         \* idle timeout: 1800 seconds
          Lifetime,     \* of a session: 8 hours
          MaxWait,      \* how long a login may wait for the lock
          MaxTime,      \* bound on the clock
          NoKey, NoRow, NoToken

Keys == Addresses \X Names

ASSUME AuthAssumption ==
    /\ {MaxFailures, Window, Idle, Lifetime, MaxWait, MaxTime} \subseteq Nat
    /\ MaxFailures > 0
    /\ MaxWait < Window
    /\ MaxWait <= Idle
    /\ MaxWait <= Lifetime
    /\ NoKey \notin Keys
    /\ NoRow \notin [count : Nat, reset : Nat] \cup [expires : Nat, touched : Nat]
    /\ NoToken \notin Tokens

VARIABLES now,       \* the clock
          users,     \* names with an account
          limit,     \* the login_limits table
          session,   \* the sessions table
          login,     \* the threads in login
          request,   \* the requests past the start of their lookup
          burst,     \* denials of a key, each soon after the one before
          life,      \* what became of each token
          refused    \* tokens that a lookup has refused

vars == <<now, users, limit, session, login, request, burst, life, refused>>
counted == <<limit, burst>>
used == <<session, request, life, refused>>

NoLogin == [key |-> NoKey, at |-> 0]
NoRequest == [pc |-> "idle", token |-> NoToken, at |-> 0]
Unborn == [since |-> 0, active |-> 0, state |-> "unborn"]

Waiting(l) == login[l].key # NoKey

\* Denials closer than this belong to one burst.
Gap == Window - MaxWait

Init ==
    /\ now = 0
    /\ users = {}
    /\ limit = [k \in Keys |-> NoRow]
    /\ session = [t \in Tokens |-> NoRow]
    /\ login = [l \in Logins |-> NoLogin]
    /\ request = [r \in Requests |-> NoRequest]
    /\ burst = [k \in Keys |-> [size |-> 0, last |-> 0]]
    /\ life = [t \in Tokens |-> Unborn]
    /\ refused = {}
-----------------------------------------------------------------------------
Tick ==
    /\ now < MaxTime
    /\ \A l \in Logins : Waiting(l) => now < login[l].at + MaxWait
    /\ now' = now + 1
    /\ UNCHANGED <<users, login, counted, used>>

AddUser(n) ==
    /\ n \notin users
    /\ users' = users \cup {n}
    /\ UNCHANGED <<now, login, counted, used>>

\* login() reads the clock and waits for the lock.
Attempt(l, k) ==
    /\ ~Waiting(l)
    /\ login' = [login EXCEPT ![l] = [key |-> k, at |-> now]]
    /\ UNCHANGED <<now, users, counted, used>>

Leave(l) == login' = [login EXCEPT ![l] = NoLogin]

\* The failures that count against an attempt.
Failures(l) ==
    LET row == limit[login[l].key]
    IN  IF row # NoRow /\ row.reset > login[l].at THEN row.count ELSE 0

Throttled(l) ==
    /\ Waiting(l)
    /\ Failures(l) >= MaxFailures
    /\ Leave(l)
    /\ UNCHANGED <<now, users, counted, used>>

\* The next denial of a key: of the same burst, or the first of a new one.
InBurst(k) ==
    [size |-> IF burst[k].size > 0 /\ now < burst[k].last + Gap
              THEN burst[k].size + 1 ELSE 1,
     last |-> now]

\* Mutant: the time to wait runs from the first failure, not from the last.
Denied_FirstReset(l) ==
    LET k == login[l].key
        reset == IF Failures(l) = 0 THEN login[l].at + Window
                                    ELSE limit[k].reset
    IN  /\ Waiting(l)
        /\ Failures(l) < MaxFailures
        /\ limit' = [limit EXCEPT ![k] = [count |-> Failures(l) + 1,
                                          reset |-> reset]]
        /\ burst' = [burst EXCEPT ![k] = InBurst(k)]
        /\ Leave(l)
        /\ UNCHANGED <<now, users, used>>

\* An unknown name or a wrong password.
Denied(l) ==
    LET k == login[l].key
    IN  /\ Waiting(l)
        /\ Failures(l) < MaxFailures
        /\ limit' = [limit EXCEPT ![k] = [count |-> Failures(l) + 1,
                                          reset |-> login[l].at + Window]]
        /\ burst' = [burst EXCEPT ![k] = InBurst(k)]
        /\ Leave(l)
        /\ UNCHANGED <<now, users, used>>

\* The right password: a session is made, and sign_in looks it up before
\* anybody else knows its token.
Accepted(l, t) ==
    LET k == login[l].key
    IN  /\ Waiting(l)
        /\ Failures(l) < MaxFailures
        /\ k[2] \in users
        /\ life[t].state = "unborn"
        /\ limit' = [limit EXCEPT ![k] = NoRow]
        /\ burst' = [burst EXCEPT ![k] = [size |-> 0, last |-> 0]]
        /\ session' = [session EXCEPT ![t] =
                          [expires |-> login[l].at + Lifetime, touched |-> now]]
        /\ life' = [life EXCEPT ![t] = [since |-> now, active |-> now,
                                        state |-> "born"]]
        /\ Leave(l)
        /\ UNCHANGED <<now, users, request, refused>>

\* The transaction is refused or rolled back.
LoginFails(l) ==
    /\ Waiting(l)
    /\ Leave(l)
    /\ UNCHANGED <<now, users, counted, used>>
-----------------------------------------------------------------------------
Live(t) ==
    /\ session[t] # NoRow
    /\ session[t].expires >= now
    /\ session[t].touched + Idle >= now

\* Mutant: lookups run in threads.
LoopFree_Threads == TRUE

\* No lookup is between its SELECT and its UPDATE.
LoopFree == \A r \in Requests : request[r].pc # "touching"

Enter(r, pc, t, at) ==
    request' = [request EXCEPT ![r] = [pc |-> pc, token |-> t, at |-> at]]

\* Mutant: every lookup refreshes the idle timeout.
CheckPassive_Touches(r, t) ==
    /\ request[r].pc = "idle"
    /\ LoopFree
    /\ Live(t)
    /\ Enter(r, "passive", t, 0)
    /\ session' = [session EXCEPT ![t].touched = now]
    /\ UNCHANGED <<now, users, login, counted, life, refused>>

\* A request for events, the status or the readiness: its lookup ends here.
CheckPassive(r, t) ==
    /\ request[r].pc = "idle"
    /\ LoopFree
    /\ Live(t)
    /\ Enter(r, "passive", t, 0)
    /\ UNCHANGED <<now, users, login, counted, session, life, refused>>

\* Any other request: it is found to be signed in, and is about to say so.
CheckActive(r, t) ==
    /\ request[r].pc = "idle"
    /\ LoopFree
    /\ Live(t)
    /\ Enter(r, "touching", t, now)
    /\ life' = [life EXCEPT ![t].active = now]
    /\ UNCHANGED <<now, users, login, counted, session, refused>>

\* The lookup of a request finds no session, or one that has run out.
Refuse(t) ==
    /\ life[t].state # "unborn"
    /\ LoopFree
    /\ ~Live(t)
    /\ refused' = refused \cup {t}
    /\ UNCHANGED <<now, users, login, counted, session, request, life>>

\* Mutant: the row is written whole, as it was read.
Touch_Upsert(r) ==
    LET t == request[r].token
    IN  /\ request[r].pc = "touching"
        /\ session' = [session EXCEPT ![t] =
                          [expires |-> life[t].since + Lifetime,
                           touched |-> request[r].at]]
        /\ Enter(r, "acting", t, 0)
        /\ UNCHANGED <<now, users, login, counted, life, refused>>

\* UPDATE sessions: a row that is gone stays gone.
Touch(r) ==
    LET t == request[r].token
    IN  /\ request[r].pc = "touching"
        /\ session' = IF session[t] = NoRow THEN session
                      ELSE [session EXCEPT ![t].touched = request[r].at]
        /\ Enter(r, "acting", t, 0)
        /\ UNCHANGED <<now, users, login, counted, life, refused>>

Reset(r) == request' = [request EXCEPT ![r] = NoRequest]

\* POST /api/logout.
SignOut(r) ==
    LET t == request[r].token
    IN  /\ request[r].pc = "acting"
        /\ session' = [session EXCEPT ![t] = NoRow]
        /\ life' = [life EXCEPT ![t].state = "out"]
        /\ Reset(r)
        /\ UNCHANGED <<now, users, login, counted, refused>>

\* A request is answered, or its UPDATE finds the database locked.
Done(r) ==
    /\ request[r].pc \in {"touching", "acting", "passive"}
    /\ Reset(r)
    /\ UNCHANGED <<now, users, login, counted, session, life, refused>>
-----------------------------------------------------------------------------
\* Mutant: the stream does not keep the cookie of its request.
OpenStream_NoCookie(r) ==
    /\ request[r].pc = "passive"
    /\ Enter(r, "streaming", NoToken, 0)
    /\ UNCHANGED <<now, users, login, counted, session, life, refused>>

\* GET /api/events.
OpenStream(r) ==
    /\ request[r].pc = "passive"
    /\ request' = [request EXCEPT ![r].pc = "streaming"]
    /\ UNCHANGED <<now, users, login, counted, session, life, refused>>

\* Mutant: the stream trusts the lookup it was opened with.
StreamEnds_Never(r) == FALSE /\ UNCHANGED vars

\* Every two seconds the stream looks its session up, and ends without one.
StreamEnds(r) ==
    /\ request[r].pc = "streaming"
    /\ LoopFree
    /\ ~Live(request[r].token)
    /\ Reset(r)
    /\ refused' = refused \cup {request[r].token}
    /\ UNCHANGED <<now, users, login, counted, session, life>>

Disconnect(r) ==
    /\ request[r].pc = "streaming"
    /\ Reset(r)
    /\ UNCHANGED <<now, users, login, counted, session, life, refused>>

\* The process dies or is restarted; the tables stay.
Restart ==
    /\ login' = [l \in Logins |-> NoLogin]
    /\ request' = [r \in Requests |-> NoRequest]
    /\ UNCHANGED <<now, users, counted, session, life, refused>>

LoginNext(l) ==
    \/ \E k \in Keys : Attempt(l, k)
    \/ Throttled(l)
    \/ Denied(l)
    \/ \E t \in Tokens : Accepted(l, t)
    \/ LoginFails(l)

RequestNext(r) ==
    \/ \E t \in Tokens : CheckPassive(r, t) \/ CheckActive(r, t)
    \/ Touch(r)
    \/ SignOut(r)
    \/ Done(r)
    \/ OpenStream(r)
    \/ StreamEnds(r)
    \/ Disconnect(r)

Next ==
    \/ Tick
    \/ \E n \in Names : AddUser(n)
    \/ \E l \in Logins : LoginNext(l)
    \/ \E r \in Requests : RequestNext(r)
    \/ \E t \in Tokens : Refuse(t)
    \/ Restart

\* A lookup on the event loop ends, and a stream that wants its turn on the
\* loop gets it, whatever other requests do there.
Fairness ==
    \A r \in Requests : WF_vars(Touch(r)) /\ SF_vars(StreamEnds(r))

Spec == Init /\ [][Next]_vars /\ Fairness
-----------------------------------------------------------------------------
\* Every variable keeps its shape.
TypeOK ==
    /\ now \in Nat
    /\ users \subseteq Names
    /\ limit \in [Keys -> {NoRow} \cup [count : Nat, reset : Nat]]
    /\ session \in [Tokens -> {NoRow} \cup [expires : Nat, touched : Nat]]
    /\ login \in [Logins -> [key : Keys \cup {NoKey}, at : Nat]]
    /\ request \in [Requests ->
           [pc : {"idle", "touching", "acting", "passive", "streaming"},
            token : Tokens \cup {NoToken}, at : Nat]]
    /\ \A r \in Requests : request[r].pc # "idle" => request[r].token \in Tokens
    /\ burst \in [Keys -> [size : Nat, last : Nat]]
    /\ life \in [Tokens -> [since : Nat, active : Nat,
                            state : {"unborn", "born", "out"}]]
    /\ refused \subseteq Tokens

\* However logins of one address and name overlap and wait for the lock, at
\* most MaxFailures are denied before a pause of the window, less what a
\* login may have waited, or a success.
FailuresBounded == \A k \in Keys : burst[k].size <= MaxFailures

\* A request is let in only with a session that was not logged out, is not
\* older than its lifetime, and was used within the idle timeout by a login
\* or a request that is not passive: neither polling, nor an update that is
\* late or meets a logout, keeps one alive or brings one back.  And whoever
\* was once told to sign in again is not let in with the old session.
UseIsEarned ==
    [][\A r \in Requests :
          request[r].pc = "idle" /\ request'[r].pc # "idle" =>
              LET t == request'[r].token
              IN  /\ life[t].state = "born"
                  /\ now <= life[t].since + Lifetime
                  /\ now <= life[t].active + Idle
                  /\ t \notin refused]_vars

Over(t) == life[t].state = "out" \/ now > life[t].since + Lifetime

\* A stream does not outlive its session.
StreamsEnd ==
    \A r \in Requests, t \in Tokens :
        request[r].pc = "streaming" /\ request[r].token = t /\ Over(t)
            ~> ~(request[r].pc = "streaming" /\ request[r].token = t /\ Over(t))
=============================================================================
