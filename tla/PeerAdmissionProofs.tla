------------------------ MODULE PeerAdmissionProofs ------------------------
(***************************************************************************)
(* A request is admitted at most once, for any peers and nonces and any    *)
(* window and retention with Retention >= 2 * Window.                      *)
(***************************************************************************)
EXTENDS PeerAdmission, TLAPS

\* What is still known of an admitted request: its row, created when the
\* timestamp was at most Window ahead, or that its time is over.
Remembered(m) ==
    \/ \E r \in rows : SameKey(r, m) /\ m.timestamp <= r.created + Window
    \/ readAt > m.timestamp + Window

\* The checked headers passed at readAt.
CheckedInWindow ==
    checking # NoRequest =>
        /\ readAt - checking.timestamp <= Window
        /\ checking.timestamp - readAt <= Window

AdmittedRemembered ==
    \A m \in Requests : admissions[m] <= 1 /\ (admissions[m] = 1 => Remembered(m))

\* A row stands for an admitted request, and only one request has its key.
RowsAdmitted ==
    \A r \in rows : \E m \in signed : SameKey(r, m) /\ admissions[m] >= 1

KeysUnique == \A a, b \in signed : SameKey(a, b) => a = b

Inv ==
    /\ TypeOK
    /\ CheckedInWindow
    /\ AdmittedRemembered
    /\ RowsAdmitted
    /\ KeysUnique

LEMMA InvInit == Init => Inv
  BY AdmissionAssumption
  DEF Init, Inv, TypeOK, CheckedInWindow, AdmittedRemembered, RowsAdmitted,
      KeysUnique, Requests

\* A request that was admitted is known when it is checked again.
LEMMA AdmittedIsKnown ==
    ASSUME Inv, checking # NoRequest, admissions[checking] = 1
    PROVE  Known(checking)
  <1>1. checking \in Requests /\ checking.timestamp \in Nat /\ readAt \in Nat
    BY DEF Inv, TypeOK, Requests
  <1>2. readAt - checking.timestamp <= Window
    BY DEF Inv, CheckedInWindow
  <1>3. ~(readAt > checking.timestamp + Window)
    BY <1>1, <1>2, AdmissionAssumption
  <1>4. PICK r \in rows : /\ SameKey(r, checking)
                          /\ checking.timestamp <= r.created + Window
    BY <1>1, <1>3 DEF Inv, AdmittedRemembered, Remembered
  <1>5. r.created \in Nat
    BY DEF Inv, TypeOK, Row
  <1>6. r.created + Retention >= readAt
    BY <1>1, <1>2, <1>4, <1>5, AdmissionAssumption
  <1> QED BY <1>4, <1>6 DEF Known, Kept

\* Deleting old rows forgets only requests whose time is over.
LEMMA KeptRemembers ==
    ASSUME Inv, NEW m \in Requests, Remembered(m)
    PROVE  \/ \E r \in Kept(readAt) : /\ SameKey(r, m)
                                      /\ m.timestamp <= r.created + Window
           \/ readAt > m.timestamp + Window
  <1>1. CASE readAt > m.timestamp + Window
    BY <1>1
  <1>2. CASE \E r \in rows : SameKey(r, m) /\ m.timestamp <= r.created + Window
    <2> PICK r \in rows : SameKey(r, m) /\ m.timestamp <= r.created + Window
      BY <1>2
    <2>1. /\ r.created \in Nat /\ readAt \in Nat /\ m.timestamp \in Nat
      BY DEF Inv, TypeOK, Row, Requests
    <2>2. CASE r.created + Retention >= readAt
      BY <2>2 DEF Kept
    <2>3. CASE ~(r.created + Retention >= readAt)
      <3>1. readAt > m.timestamp + Window
        BY <2>1, <2>3, AdmissionAssumption
      <3> QED BY <3>1
    <2> QED BY <2>2, <2>3
  <1> QED BY <1>1, <1>2 DEF Remembered

\* The row that an admission inserts.
Inserted == [source |-> checking.source, nonce |-> checking.nonce,
             created |-> readAt]

LEMMA InsertedRow ==
    ASSUME TypeOK, checking # NoRequest
    PROVE  Inserted \in Row /\ SameKey(Inserted, checking)
  BY DEF TypeOK, Requests, Row, Inserted, SameKey

LEMMA AdmitStep ==
    ASSUME Inv, Admit
    PROVE  Inv'
  <1>0. /\ checking \in Requests /\ checking \in signed
        /\ readAt \in Nat /\ admissions \in [Requests -> Nat]
        /\ rows' = Kept(readAt) \cup {Inserted}
        /\ Kept(readAt) \subseteq rows
    BY DEF Admit, Inv, TypeOK, Inserted, Kept
  <1>1. admissions[checking] = 0
    <2>1. admissions[checking] # 1
      BY AdmittedIsKnown DEF Admit
    <2>2. admissions[checking] \in Nat /\ admissions[checking] <= 1
      BY <1>0 DEF Inv, AdmittedRemembered
    <2> QED BY <2>1, <2>2
  <1>2. \A m \in Requests :
            admissions'[m] = IF m = checking THEN 1 ELSE admissions[m]
    BY <1>0, <1>1 DEF Admit
  <1>3. TypeOK'
    <2>1. rows' \subseteq Row
      BY <1>0, InsertedRow DEF Admit, Inv, TypeOK
    <2>2. \A r \in Kept(readAt) : ~SameKey(r, checking)
      BY DEF Admit, Known
    <2>3. \A r, s \in rows' : r.source = s.source /\ r.nonce = s.nonce => r = s
      BY <1>0, <2>2 DEF Inv, TypeOK, SameKey, Inserted
    <2>4. admissions' \in [Requests -> Nat]
      BY <1>0 DEF Admit
    <2> QED BY <2>1, <2>3, <2>4 DEF Admit, Inv, TypeOK
  <1>4. CheckedInWindow'
    BY DEF Admit, CheckedInWindow
  <1>5. AdmittedRemembered'
    <2> SUFFICES ASSUME NEW m \in Requests
                 PROVE  /\ admissions'[m] <= 1
                        /\ admissions'[m] = 1 => Remembered(m)'
      BY DEF AdmittedRemembered
    <2>1. CASE m = checking
      <3>1. SameKey(Inserted, m) /\ m.timestamp <= Inserted.created + Window
        <4>1. checking.timestamp - readAt <= Window
          BY DEF Admit, Inv, CheckedInWindow
        <4>2. checking.timestamp \in Nat
          BY <1>0 DEF Requests
        <4>3. checking.timestamp <= readAt + Window
          BY <1>0, <4>1, <4>2, AdmissionAssumption
        <4> QED BY <2>1, <4>3, InsertedRow DEF Admit, Inv, Inserted
      <3>2. Remembered(m)'
        BY <1>0, <3>1 DEF Remembered, SameKey
      <3> QED BY <1>2, <2>1, <3>2
    <2>2. CASE m # checking
      <3>1. admissions'[m] = admissions[m]
        BY <1>2, <2>2
      <3>2. ASSUME Remembered(m) PROVE Remembered(m)'
        <4>1. readAt' = readAt
          BY DEF Admit
        <4> QED BY <1>0, <3>2, <4>1, KeptRemembers DEF Remembered, SameKey
      <3> QED BY <3>1, <3>2 DEF Inv, AdmittedRemembered
    <2> QED BY <2>1, <2>2
  <1>6. RowsAdmitted'
    <2> SUFFICES ASSUME NEW r \in rows'
                 PROVE  \E m \in signed : SameKey(r, m) /\ admissions'[m] >= 1
      BY DEF RowsAdmitted, Admit, SameKey
    <2>1. CASE r = Inserted
      <3>1. SameKey(r, checking)
        BY <2>1, InsertedRow DEF Inv, Admit
      <3> QED BY <1>0, <1>2, <3>1
    <2>2. CASE r \in rows
      <3>1. PICK m \in signed : SameKey(r, m) /\ admissions[m] >= 1
        BY <2>2 DEF Inv, RowsAdmitted
      <3>2. m \in Requests
        BY DEF Inv, TypeOK
      <3> QED BY <1>2, <3>1, <3>2
    <2> QED BY <1>0, <2>1, <2>2
  <1>7. KeysUnique'
    BY DEF Admit, Inv, KeysUnique, SameKey
  <1> QED BY <1>3, <1>4, <1>5, <1>6, <1>7 DEF Inv

LEMMA CheckStep ==
    ASSUME Inv, NEW m \in Requests, Check(m)
    PROVE  Inv'
  <1>0. /\ readAt' = clock /\ readAt <= clock /\ readAt \in Nat /\ clock \in Nat
        /\ m.timestamp \in Nat
    BY DEF Check, Inv, TypeOK, Requests
  <1>1. TypeOK'
    BY <1>0 DEF Check, Inv, TypeOK
  <1>2. CheckedInWindow'
    BY <1>0 DEF Check, InWindow, CheckedInWindow
  <1>3. AdmittedRemembered'
    <2>1. ASSUME NEW k \in Requests, Remembered(k) PROVE Remembered(k)'
      <3>1. k.timestamp \in Nat
        BY DEF Requests
      <3>2. CASE readAt > k.timestamp + Window
        <4>1. readAt' > k.timestamp + Window
          BY <1>0, <3>1, <3>2, AdmissionAssumption
        <4> QED BY <4>1 DEF Remembered
      <3>3. CASE \E r \in rows : SameKey(r, k) /\ k.timestamp <= r.created + Window
        BY <3>3 DEF Check, Remembered, SameKey
      <3> QED BY <2>1, <3>2, <3>3 DEF Remembered
    <2> QED BY <2>1 DEF Check, Inv, AdmittedRemembered
  <1>4. RowsAdmitted' /\ KeysUnique'
    BY DEF Check, Inv, RowsAdmitted, KeysUnique, SameKey
  <1> QED BY <1>1, <1>2, <1>3, <1>4 DEF Inv

LEMMA SignStep ==
    ASSUME Inv, NEW m \in Requests, Sign(m)
    PROVE  Inv'
  <1>1. TypeOK' /\ CheckedInWindow'
    BY DEF Sign, Inv, TypeOK, CheckedInWindow
  <1>2. AdmittedRemembered'
    BY DEF Sign, Inv, AdmittedRemembered, Remembered, SameKey
  <1>3. RowsAdmitted' /\ KeysUnique'
    BY DEF Sign, Inv, RowsAdmitted, KeysUnique, SameKey
  <1> QED BY <1>1, <1>2, <1>3 DEF Inv

LEMMA InvNext == Inv /\ [Next]_vars => Inv'
  <1> SUFFICES ASSUME Inv, [Next]_vars PROVE Inv'
    OBVIOUS
  <1>1. CASE Tick
    <2>1. TypeOK'
      BY <1>1 DEF Tick, Inv, TypeOK
    <2> QED BY <1>1, <2>1 DEF Tick, Inv, CheckedInWindow, AdmittedRemembered,
            Remembered, RowsAdmitted, KeysUnique, SameKey
  <1>2. CASE \E m \in Requests : Sign(m) \/ Check(m) \/ RefuseHeaders(m)
    <2> PICK m \in Requests : Sign(m) \/ Check(m) \/ RefuseHeaders(m)
      BY <1>2
    <2>1. CASE RefuseHeaders(m)
      BY <2>1 DEF RefuseHeaders, vars, Inv, TypeOK, CheckedInWindow,
         AdmittedRemembered, Remembered, RowsAdmitted, KeysUnique, SameKey
    <2> QED BY <2>1, SignStep, CheckStep
  <1>3. CASE Admit
    BY <1>3, AdmitStep
  <1>4. CASE RefuseReplay \/ Fail \/ UNCHANGED vars
    <2>1. TypeOK' /\ CheckedInWindow'
      BY <1>4 DEF RefuseReplay, Fail, vars, Inv, TypeOK, CheckedInWindow
    <2> QED BY <1>4, <2>1 DEF RefuseReplay, Fail, vars, Inv,
            AdmittedRemembered, Remembered, RowsAdmitted, KeysUnique, SameKey
  <1> QED BY <1>1, <1>2, <1>3, <1>4 DEF Next

LEMMA Invariance == Spec => []Inv
  BY InvInit, InvNext, PTL DEF Spec

\* Every variable keeps its shape, for any bounds on the clocks.
THEOREM TypeCorrect == Spec => []TypeOK
  <1>1. Inv => TypeOK
    BY DEF Inv
  <1> QED BY Invariance, <1>1, PTL

LEMMA RefusalIsJust == Inv => ReplayWasAdmitted
  <1> SUFFICES ASSUME Inv, checking # NoRequest, Known(checking)
               PROVE  admissions[checking] >= 1
    BY DEF ReplayWasAdmitted
  <1>1. PICK r \in rows : SameKey(r, checking)
    BY DEF Known, Kept
  <1>2. PICK m \in signed : SameKey(r, m) /\ admissions[m] >= 1
    BY DEF Inv, RowsAdmitted
  <1>3. m = checking
    BY <1>1, <1>2 DEF Inv, KeysUnique, TypeOK, SameKey
  <1> QED BY <1>2, <1>3

\* No request is authorized twice, whatever is delayed, duplicated or
\* delivered again after a restart, and none is refused that was not.
THEOREM NoReplay == Spec => []AdmittedOnce
  <1>1. Inv => \A m \in Requests : admissions[m] <= 1
    BY DEF Inv, AdmittedRemembered
  <1>2. Inv => AdmittedOnce
    BY <1>1, RefusalIsJust DEF AdmittedOnce
  <1> QED BY Invariance, <1>2, PTL
=============================================================================
