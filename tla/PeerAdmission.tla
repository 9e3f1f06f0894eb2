--------------------------- MODULE PeerAdmission ---------------------------
(***************************************************************************)
(* transfer.py authorize_peer_headers: a host admits each signed request   *)
(* of a paired host at most once.  It accepts a timestamp within Window of *)
(* its own clock and remembers nonces for Retention; requests may be       *)
(* delayed, duplicated and delivered again after a restart, and the        *)
(* sender's clock need not agree with the receiver's.                      *)
(*                                                                         *)
(* The receiver reads its clock once, before it waits for the store's      *)
(* lock.  The check runs on the event loop, so one request is checked at a *)
(* time, but time passes while it waits.  The receiver's clock never runs  *)
(* backwards.                                                              *)
(***************************************************************************)
EXTENDS Integers, FiniteSets

CONSTANTS Sources,    \* the enrolled peers
          Nonces,     \* request nonces
          Window,     \* accepted difference between the two clocks
          Retention,  \* how long a nonce is kept
          MaxTime,    \* bound on both clocks
          NoRequest   \* no request is being checked

Requests == [source : Sources, nonce : Nonces, timestamp : 0..MaxTime]

ASSUME AdmissionAssumption ==
    /\ Window \in Nat
    /\ Retention \in Nat
    /\ Retention >= 2 * Window
    /\ MaxTime \in Nat
    /\ NoRequest \notin Requests

VARIABLES clock,      \* the receiver's clock
          signed,     \* the requests that peers have signed and sent
          rows,       \* the peer_http_nonces table
          checking,   \* the request whose headers passed, or NoRequest
          readAt,     \* the clock as it was last read for a check
          admissions  \* how often each request was authorized

vars == <<clock, signed, rows, checking, readAt, admissions>>

Row == [source : Sources, nonce : Nonces, created : Nat]

\* Mutant: nonces of different peers collide.
SameKey_NonceOnly(a, b) == a.nonce = b.nonce

\* The primary key of peer_http_nonces.
SameKey(a, b) == a.source = b.source /\ a.nonce = b.nonce

\* Mutant: a nonce is dropped as soon as it reaches the retention time.
Kept_UntilRetention(now) == {r \in rows : r.created + Retention > now}

\* What DELETE ... WHERE created < now - 300 leaves.
Kept(now) == {r \in rows : r.created + Retention >= now}

Known(m) == \E r \in Kept(readAt) : SameKey(r, m)

Init ==
    /\ clock = 0
    /\ signed = {}
    /\ rows = {}
    /\ checking = NoRequest
    /\ readAt = 0
    /\ admissions = [m \in Requests |-> 0]
-----------------------------------------------------------------------------
Tick ==
    /\ clock < MaxTime
    /\ clock' = clock + 1
    /\ UNCHANGED <<signed, rows, checking, readAt, admissions>>

\* peer_http_headers: a fresh nonce and the sender's own time.
Sign(m) ==
    /\ \A s \in signed : ~(s.source = m.source /\ s.nonce = m.nonce)
    /\ signed' = signed \cup {m}
    /\ UNCHANGED <<clock, rows, checking, readAt, admissions>>

\* Mutant: only old timestamps are refused.
InWindow_PastOnly(m) == clock - m.timestamp <= Window

InWindow(m) ==
    /\ clock - m.timestamp <= Window
    /\ m.timestamp - clock <= Window

\* The headers of a delivered request pass.
Check(m) ==
    /\ checking = NoRequest
    /\ m \in signed
    /\ InWindow(m)
    /\ checking' = m
    /\ readAt' = clock
    /\ UNCHANGED <<clock, signed, rows, admissions>>

\* Its timestamp is outside the window: refused without a trace.
RefuseHeaders(m) ==
    /\ checking = NoRequest
    /\ m \in signed
    /\ ~InWindow(m)
    /\ UNCHANGED vars

\* Mutant: the table has no primary key.
Admit_NoKey ==
    /\ checking # NoRequest
    /\ rows' = Kept(readAt) \cup {[source |-> checking.source,
                                   nonce |-> checking.nonce,
                                   created |-> readAt]}
    /\ admissions' = [admissions EXCEPT ![checking] = @ + 1]
    /\ checking' = NoRequest
    /\ UNCHANGED <<clock, signed, readAt>>

\* The transaction commits: old rows go, the nonce is consumed.
Admit ==
    /\ checking # NoRequest
    /\ ~Known(checking)
    /\ rows' = Kept(readAt) \cup {[source |-> checking.source,
                                   nonce |-> checking.nonce,
                                   created |-> readAt]}
    /\ admissions' = [admissions EXCEPT ![checking] = @ + 1]
    /\ checking' = NoRequest
    /\ UNCHANGED <<clock, signed, readAt>>

\* The insertion violates the primary key and the deletion is rolled back.
RefuseReplay ==
    /\ checking # NoRequest
    /\ Known(checking)
    /\ checking' = NoRequest
    /\ UNCHANGED <<clock, signed, rows, readAt, admissions>>

\* The store refuses or fails the transaction, or the receiver restarts.
Fail ==
    /\ checking # NoRequest
    /\ checking' = NoRequest
    /\ UNCHANGED <<clock, signed, rows, readAt, admissions>>

Next ==
    \/ Tick
    \/ \E m \in Requests : Sign(m) \/ Check(m) \/ RefuseHeaders(m)
    \/ Admit
    \/ RefuseReplay
    \/ Fail

Spec == Init /\ [][Next]_vars
-----------------------------------------------------------------------------
\* Every variable keeps its shape, and the table's keys are unique.
TypeOK ==
    /\ clock \in Nat
    /\ signed \subseteq Requests
    /\ rows \subseteq Row
    /\ \A r, s \in rows : r.source = s.source /\ r.nonce = s.nonce => r = s
    /\ checking \in signed \cup {NoRequest}
    /\ readAt \in 0..clock
    /\ admissions \in [Requests -> Nat]

ReplayWasAdmitted ==
    checking # NoRequest /\ Known(checking) => admissions[checking] >= 1

\* However often a request is delivered, and however far the sender's clock
\* is ahead, it is authorized at most once: its nonce is remembered for as
\* long as its timestamp can still be accepted.  And it is refused as a
\* replay only if it was authorized before: no other peer, failed transaction
\* or restart consumes its nonce.
AdmittedOnce ==
    /\ \A m \in Requests : admissions[m] <= 1
    /\ ReplayWasAdmitted
=============================================================================
