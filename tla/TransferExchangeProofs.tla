----------------------- MODULE TransferExchangeProofs -----------------------
(***************************************************************************)
(* For any records, versions, bundles and requests: one review leaves the  *)
(* host as one bundle, what leaves was approved, and what the sender logs  *)
(* is what became of the bundle at the receiver.                           *)
(***************************************************************************)
EXTENDS TransferExchange, FiniteSetTheorems, TLAPS

\* Only the holder builds; a request past its build has the cached bundle of
\* its review.
CallsHold ==
    \A c \in Calls :
        /\ call[c].pc \in {"building", "announced"} <=> c \in holder
        /\ call[c].pc # "idle" => call[c].version \in Versions
        /\ call[c].pc = "building" /\ cache[call[c].version].stage > 0 =>
                call[c].bundle = cache[call[c].version].bundle
        /\ call[c].pc \in {"announced", "ready", "posted"} =>
                /\ cache[call[c].version].stage = Complete
                /\ call[c].bundle = cache[call[c].version].bundle
        /\ call[c].pc \in {"ready", "posted"} =>
                call[c].bundle \in approved \cup cut

\* Somebody is building the bundle of v.
Building(v) == \E c \in holder : call[c].version = v

\* A cache that is not whole is being written, or has blocked the store; a
\* whole one is approved, was cut short, or its build has yet to commit.
CacheFits ==
    \A v \in Versions :
        /\ cache[v].stage > 0 =>
                cache[v].bundle \in Bundles /\ Review[cache[v].bundle] = v
        /\ cache[v].stage \notin {0, Complete} => blocked \/ Building(v)
        /\ cache[v].stage = Complete =>
                cache[v].bundle \in approved \cup cut \/ Building(v)

AheadHeld ==
    ahead => blocked \/ \E c \in holder : call[c].pc = "announced"

SentCached ==
    \A b \in sent :
        cache[Review[b]].stage = Complete /\ cache[Review[b]].bundle = b

SendInv == CallsHold /\ CacheFits /\ AheadHeld /\ SentCached /\ SentIsApproved

\* A receipt of the receiver says what became of its bundle.
ReceiptsFit ==
    \A b \in Bundles :
        /\ outcome[b] = "none" => receipt[b] = NoReceipt
        /\ outcome[b] # "none" => receipt[b] \in Receipts /\ Valid(receipt[b], b)
        /\ outcome[b] \in {"review", "kept"} => receipt[b].status = "conflict"
        /\ outcome[b] = "imported" => receipt[b].status = "imported"

\* So does an answer that was on its way while a conflict was resolved.
Tells(what, b) ==
    /\ what = "imported" => outcome[b] = "imported"
    /\ what = "conflict" => outcome[b] \in {"review", "imported", "kept"}

AnswersFit ==
    \A c \in Calls :
        call[c].answer # NoReceipt =>
            /\ call[c].pc = "posted"
            /\ Tells(call[c].answer.status, call[c].bundle)

ReceiveInv == ReceiptsFit /\ AnswersFit /\ LoggedIsTrue

Inv == TypeOK /\ SendInv /\ ReceiveInv
-----------------------------------------------------------------------------
LEMMA IdleIsCall == Idle \in CallRecord
  BY DEF Idle, CallRecord

LEMMA InvInit == Init => Inv
  <1> SUFFICES ASSUME Init PROVE Inv
    OBVIOUS
  <1> USE ExchangeAssumption DEF Init, Idle, Uncached, Complete
  <1>1. TypeOK
    <2>1. /\ local \in [Records -> [source : Nat, revision : Nat]]
          /\ outcome \in [Bundles -> Delivery!Outcomes]
      BY DEF Delivery!Init, Delivery!Absent, Delivery!Outcomes
    <2>2. cache \in [Versions -> [bundle : Bundles \cup {NoBundle},
                                 stage : 0..Complete]]
      OBVIOUS
    <2>3. call \in [Calls -> CallRecord]
      BY IdleIsCall
    <2> QED BY <2>1, <2>2, <2>3 DEF TypeOK
  <1>2. CallsHold /\ CacheFits /\ AheadHeld
    BY DEF CallsHold, CacheFits, AheadHeld
  <1>3. SentCached /\ SentIsApproved
    BY DEF SentCached, SentIsApproved
  <1>4. ReceiptsFit /\ AnswersFit /\ LoggedIsTrue
    BY DEF ReceiptsFit, AnswersFit, LoggedIsTrue, Delivery!Init
  <1> QED BY <1>1, <1>2, <1>3, <1>4 DEF Inv, SendInv, ReceiveInv
-----------------------------------------------------------------------------
(* Counting.                                                               *)

LEMMA CarriedFinite ==
    ASSUME NEW b \in Bundles, NEW S, S \subseteq Delivery!Carried(b)
    PROVE  IsFiniteSet(S) /\ Cardinality(S) \in Nat
  <1>1. IsFiniteSet(Delivery!Carried(b))
    BY FS_Subset, ExchangeAssumption DEF Delivery!Carried
  <1> QED BY <1>1, FS_Subset, FS_CardinalityType

\* The cardinalities of a part and of what is left of it add up.
LEMMA PartsAdd ==
    ASSUME NEW S, IsFiniteSet(S), NEW T, T \subseteq S
    PROVE  /\ Cardinality(T) \in Nat
           /\ Cardinality(S \ T) \in Nat
           /\ Cardinality(S) = Cardinality(T) + Cardinality(S \ T)
  <1>1. IsFiniteSet(T) /\ IsFiniteSet(S \ T)
    BY FS_Subset
  <1>2. Cardinality(T \cup (S \ T)) =
            Cardinality(T) + Cardinality(S \ T) - Cardinality(T \cap (S \ T))
    BY <1>1, FS_Union
  <1>3. T \cup (S \ T) = S /\ T \cap (S \ T) = {}
    OBVIOUS
  <1>4. Cardinality(T) \in Nat /\ Cardinality(S \ T) \in Nat
    BY <1>1, FS_CardinalityType
  <1>5. Cardinality({}) = 0
    BY FS_EmptySet
  <1>6. Cardinality(T \cup (S \ T)) = Cardinality(S)
    BY <1>3, Zenon
  <1>7. Cardinality(T \cap (S \ T)) = 0
    BY <1>3, <1>5, Zenon
  <1> DEFINE all == Cardinality(S)
             part == Cardinality(T)
             left == Cardinality(S \ T)
  <1>8. all = part + left - 0
    BY <1>2, <1>6, <1>7, Zenon
  <1>9. part \in Nat /\ left \in Nat
    BY <1>4
  <1> HIDE DEF all, part, left
  <1>10. all = part + left
    BY <1>8, <1>9
  <1> QED BY <1>9, <1>10 DEF all, part, left

\* The receipt of an import adds up.
LEMMA ImportedIsValid ==
    ASSUME TypeOK, NEW b \in Bundles
    PROVE  ImportedReceipt(b) \in Receipts /\ Valid(ImportedReceipt(b), b)
  <1> DEFINE C == Delivery!Carried(b)
             M == {r \in C : local[r] = Delivery!Absent}
  <1>1. /\ Cardinality(M) \in Nat
        /\ Cardinality(C \ M) \in Nat
        /\ Cardinality(C) = Cardinality(M) + Cardinality(C \ M)
    BY CarriedFinite, PartsAdd
  <1>2. Cardinality(C) - Cardinality(M) \in Nat
    BY <1>1
  <1> HIDE DEF M
  <1>3. ImportedReceipt(b) =
            [bundle |-> b, status |-> "imported", imported |-> Cardinality(M),
             duplicates |-> Cardinality(C) - Cardinality(M),
             conflicts |-> {}, deferred |-> {}]
    BY DEF ImportedReceipt, M
  <1> HIDE DEF C
  <1>4. ImportedReceipt(b) \in Receipts
    BY <1>1, <1>2, <1>3 DEF Receipts
  <1> QED BY <1>1, <1>3, <1>4 DEF Valid, C

\* So does the receipt of a conflict: no record is in two of its classes.
LEMMA ConflictIsValid ==
    ASSUME TypeOK, NEW b \in Bundles, Delivery!Conflicts(b) # {}
    PROVE  ConflictReceipt(b) \in Receipts /\ Valid(ConflictReceipt(b), b)
  <1> DEFINE C == Delivery!Carried(b)
             K == Delivery!Conflicts(b)
             M == {r \in C : local[r] = Delivery!Absent}
  <1>1. K \subseteq C /\ M \subseteq C \ K /\ C \subseteq Records
    BY DEF Delivery!Conflicts, Delivery!Carried
  <1>2. IsFiniteSet(C) /\ IsFiniteSet(C \ K)
    BY CarriedFinite
  <1>3. (C \ K) \ M = C \ (K \cup M)
    OBVIOUS
  <1> HIDE DEF M
  <1>4. /\ Cardinality(K) \in Nat
        /\ Cardinality(M) \in Nat
        /\ Cardinality(C \ (K \cup M)) \in Nat
        /\ Cardinality(C \ (K \cup M)) + Cardinality(K) + Cardinality(M)
                = Cardinality(C)
    <2>1. /\ Cardinality(K) \in Nat
          /\ Cardinality(C) = Cardinality(K) + Cardinality(C \ K)
      BY <1>1, <1>2, PartsAdd
    <2>2. /\ Cardinality(M) \in Nat
          /\ Cardinality((C \ K) \ M) \in Nat
          /\ Cardinality(C \ K) = Cardinality(M) + Cardinality((C \ K) \ M)
      BY <1>1, <1>2, PartsAdd
    <2>3. Cardinality((C \ K) \ M) = Cardinality(C \ (K \cup M))
      BY <1>3, Zenon
    <2> DEFINE k == Cardinality(K)
               m == Cardinality(M)
               d == Cardinality(C \ (K \cup M))
               others == Cardinality(C \ K)
               all == Cardinality(C)
    <2>4. k \in Nat /\ m \in Nat /\ d \in Nat
      BY <2>1, <2>2, <2>3, Zenon
    <2>5. all = k + others /\ others = m + d
      BY <2>1, <2>2, <2>3, Zenon
    <2> HIDE DEF k, m, d, others, all
    <2>6. d + k + m = all
      BY <2>4, <2>5
    <2> QED BY <2>4, <2>6, Zenon DEF k, m, d, all
  <1>5. ConflictReceipt(b) =
            [bundle |-> b, status |-> "conflict", imported |-> 0,
             duplicates |-> Cardinality(C \ (K \cup M)),
             conflicts |-> K, deferred |-> M]
    BY DEF ConflictReceipt, M
  <1> HIDE DEF C, K
  <1>6. ConflictReceipt(b) \in Receipts
    BY <1>1, <1>4, <1>5 DEF Receipts
  <1>7. K \cap M = {} /\ K # {}
    BY <1>1 DEF K
  <1> QED BY <1>1, <1>4, <1>5, <1>6, <1>7 DEF Valid, C

\* And so it stays when its bundle is accepted.
LEMMA AcceptedIsValid ==
    ASSUME NEW b \in Bundles, NEW a \in Receipts, Valid(a, b),
           a.status = "conflict"
    PROVE  /\ AcceptedReceipt(a) \in Receipts
           /\ Valid(AcceptedReceipt(a), b)
           /\ AcceptedReceipt(a).status = "imported"
  <1>1. /\ Cardinality(a.conflicts) \in Nat
        /\ Cardinality(a.deferred) \in Nat
        /\ Cardinality(Delivery!Carried(b)) \in Nat
    <2>1. a.conflicts \subseteq Delivery!Carried(b)
      BY DEF Valid
    <2>2. a.deferred \subseteq Delivery!Carried(b)
      BY DEF Valid
    <2> QED BY <2>1, <2>2, CarriedFinite
  <1>2. AcceptedReceipt(a) =
            [bundle |-> a.bundle, status |-> "imported",
             imported |-> Cardinality(a.conflicts) + Cardinality(a.deferred),
             duplicates |-> a.duplicates, conflicts |-> {}, deferred |-> {}]
    BY DEF AcceptedReceipt
  <1>3. a.bundle \in Bundles /\ a.duplicates \in Nat
    BY DEF Receipts
  <1>4. AcceptedReceipt(a) \in Receipts
    BY <1>1, <1>2, <1>3 DEF Receipts
  <1>5. a.duplicates + Cardinality(a.conflicts) + Cardinality(a.deferred)
            = Cardinality(Delivery!Carried(b))
    BY DEF Valid
  <1> QED BY <1>1, <1>2, <1>3, <1>4, <1>5 DEF Valid
-----------------------------------------------------------------------------
(* Types.                                                                  *)

LEMMA CutShortType == Inv => CutShort \subseteq Bundles
  <1> SUFFICES ASSUME Inv, NEW c \in holder,
                      cache[call[c].version].stage = Complete
               PROVE  cache[call[c].version].bundle \in Bundles
    BY DEF CutShort
  <1>1. c \in Calls
    BY DEF Inv, TypeOK
  <1>2. call[c].version \in Versions
    BY <1>1 DEF Inv, SendInv, CallsHold
  <1> QED BY <1>2 DEF Inv, SendInv, CacheFits, Complete

\* The ways a step changes the record of one call.
LEMMA CallType ==
    ASSUME TypeOK, NEW c \in Calls
    PROVE  /\ [call EXCEPT ![c] = Idle] \in [Calls -> CallRecord]
           /\ \A p \in {"idle", "building", "announced", "ready", "posted"} :
                [call EXCEPT ![c].pc = p] \in [Calls -> CallRecord]
           /\ \A b \in Bundles \cup {NoBundle} :
                [call EXCEPT ![c].bundle = b] \in [Calls -> CallRecord]
           /\ \A a \in Receipts \cup {NoReceipt} :
                [call EXCEPT ![c].answer = a] \in [Calls -> CallRecord]
           /\ \A v \in Versions :
                [call EXCEPT ![c].pc = "building", ![c].version = v]
                    \in [Calls -> CallRecord]
           /\ \A v \in Versions, b \in Bundles \cup {NoBundle} :
                [call EXCEPT ![c].pc = "ready", ![c].version = v, ![c].bundle = b]
                    \in [Calls -> CallRecord]
  <1>1. call \in [Calls -> CallRecord]
    BY DEF TypeOK
  <1>2. [call EXCEPT ![c] = Idle] \in [Calls -> CallRecord]
    BY <1>1, IdleIsCall
  <1>3. ASSUME NEW p \in {"idle", "building", "announced", "ready", "posted"}
        PROVE  [call EXCEPT ![c].pc = p] \in [Calls -> CallRecord]
    BY <1>1 DEF CallRecord
  <1>4. ASSUME NEW b \in Bundles \cup {NoBundle}
        PROVE  [call EXCEPT ![c].bundle = b] \in [Calls -> CallRecord]
    BY <1>1 DEF CallRecord
  <1>5. ASSUME NEW a \in Receipts \cup {NoReceipt}
        PROVE  [call EXCEPT ![c].answer = a] \in [Calls -> CallRecord]
    BY <1>1 DEF CallRecord
  <1>6. ASSUME NEW v \in Versions
        PROVE  [call EXCEPT ![c].pc = "building", ![c].version = v]
                    \in [Calls -> CallRecord]
    BY <1>1 DEF CallRecord
  <1>7. ASSUME NEW v \in Versions, NEW b \in Bundles \cup {NoBundle}
        PROVE  [call EXCEPT ![c].pc = "ready", ![c].version = v, ![c].bundle = b]
                    \in [Calls -> CallRecord]
    <2> DEFINE f == [call EXCEPT ![c].pc = "ready", ![c].version = v]
    <2>1. f \in [Calls -> CallRecord]
      BY <1>1 DEF CallRecord
    <2>2. [call EXCEPT ![c].pc = "ready", ![c].version = v, ![c].bundle = b]
            = [f EXCEPT ![c].bundle = b]
      OBVIOUS
    <2> HIDE DEF f
    <2>3. [f EXCEPT ![c].bundle = b] \in [Calls -> CallRecord]
      BY <2>1 DEF CallRecord
    <2> QED BY <2>2, <2>3
  <1> QED BY <1>2, <1>3, <1>4, <1>5, <1>6, <1>7, Zenon

LEMMA SenderType ==
    ASSUME Inv, Sender
    PROVE  TypeOK'
  <1>1. TypeOK /\ CutShort \subseteq Bundles
    BY CutShortType DEF Inv
  <1>2. ASSUME NEW c \in Calls,
               call[c].pc \in {"announced", "ready", "posted"}
        PROVE  call[c].bundle \in Bundles
    BY <1>2 DEF Inv, SendInv, CallsHold, CacheFits, Complete
  <1>3. CASE Edit
    BY <1>1, <1>3 DEF TypeOK, Edit, store, build, receiver
  <1>4. CASE Preview
    BY <1>1, <1>4 DEF TypeOK, Preview, store, build, receiver
  <1>5. CASE StoreBlocks
    BY <1>1, <1>5 DEF TypeOK, StoreBlocks, rest, receiver
  <1>6. CASE Restart
    <2>1. call' \in [Calls -> CallRecord]
      BY <1>6, IdleIsCall DEF Restart
    <2>2. blocked' \in BOOLEAN
      BY <1>6 DEF Restart
    <2> QED BY <1>1, <1>6, <2>1, <2>2 DEF TypeOK, Restart, rest, receiver
  <1>7. ASSUME NEW c \in Calls, NEW v \in Versions, BeginBuild(c, v)
        PROVE  TypeOK'
    <2>1. call' \in [Calls -> CallRecord]
      BY <1>1, <1>7, CallType, Zenon DEF BeginBuild
    <2>2. holder' = {c} /\ UNCHANGED <<rest, build, blocked>>
      BY <1>7 DEF BeginBuild
    <2> QED BY <1>1, <2>1, <2>2 DEF TypeOK, rest, receiver, build
  <1>8. ASSUME NEW c \in Calls, NEW v \in Versions, UseCached(c, v)
        PROVE  TypeOK'
    <2>1. cache[v].bundle \in Bundles \cup {NoBundle}
      BY <1>1 DEF TypeOK
    <2>2. call' \in [Calls -> CallRecord]
      BY <1>1, <1>8, <2>1, CallType, Zenon DEF UseCached
    <2> QED BY <1>1, <1>8, <2>2
            DEF TypeOK, UseCached, rest, receiver, store, build
  <1>9. ASSUME NEW c \in Calls, NEW b \in Bundles, OpenCache(c, b)
        PROVE  TypeOK'
    <2>1. [bundle |-> b, stage |-> 1] \in
                [bundle : Bundles \cup {NoBundle}, stage : 0..Complete]
      BY DEF Complete
    <2>2. cache' \in [Versions -> [bundle : Bundles \cup {NoBundle},
                                   stage : 0..Complete]]
      <3>1. Review[b] \in Versions
        BY ExchangeAssumption
      <3>2. cache' = [cache EXCEPT ![Review[b]] = [bundle |-> b, stage |-> 1]]
        BY <1>9 DEF OpenCache
      <3> DEFINE R == [bundle : Bundles \cup {NoBundle}, stage : 0..Complete]
                 x == [bundle |-> b, stage |-> 1]
      <3>3. cache \in [Versions -> R] /\ x \in R
        BY <1>1, <2>1 DEF TypeOK
      <3> HIDE DEF R, x
      <3>4. [cache EXCEPT ![Review[b]] = x] \in [Versions -> R]
        BY <3>1, <3>3
      <3>5. cache' = [cache EXCEPT ![Review[b]] = x]
        BY <3>2, Zenon DEF x
      <3>6. cache' \in [Versions -> R]
        BY <3>4, <3>5
      <3> QED BY <3>6, Zenon DEF R
    <2>3. call' \in [Calls -> CallRecord]
      BY <1>1, <1>9, CallType, Zenon DEF OpenCache
    <2> QED BY <1>1, <1>9, <2>2, <2>3 DEF TypeOK, OpenCache, rest, receiver
  <1>10. ASSUME NEW c \in Calls, WriteCache(c) PROVE TypeOK'
    <2> DEFINE v == call[c].version
    <2>1. v \in Versions /\ cache[v].stage \in 1..(Complete - 1)
      BY <1>10 DEF WriteCache, Inv, SendInv, CallsHold
    <2>2. cache[v].stage + 1 \in 0..Complete
      BY <2>1 DEF Complete
    <2>3. cache' \in [Versions -> [bundle : Bundles \cup {NoBundle},
                                   stage : 0..Complete]]
      BY <1>1, <1>10, <2>1, <2>2 DEF TypeOK, WriteCache
    <2> QED BY <1>1, <1>10, <2>3 DEF TypeOK, WriteCache, rest, receiver
  <1>11. ASSUME NEW c \in Calls, Announce(c) PROVE TypeOK'
    <2>1. call' \in [Calls -> CallRecord]
      BY <1>1, <1>11, CallType, Zenon DEF Announce
    <2> QED BY <1>1, <1>11, <2>1 DEF TypeOK, Announce, rest, receiver
  <1>12. ASSUME NEW c \in Calls, CommitBuild(c) PROVE TypeOK'
    <2>1. call' \in [Calls -> CallRecord]
      BY <1>1, <1>12, CallType, Zenon DEF CommitBuild
    <2>2. call[c].bundle \in Bundles
      BY <1>2, <1>12 DEF CommitBuild
    <2> QED BY <1>1, <1>12, <2>1, <2>2 DEF TypeOK, CommitBuild, rest, receiver
  <1>13. ASSUME NEW c \in Calls, BuildFails(c) PROVE TypeOK'
    <2>1. call' \in [Calls -> CallRecord]
      BY <1>1, <1>13, CallType, Zenon DEF BuildFails
    <2>2. blocked' \in BOOLEAN
      BY <1>13 DEF BuildFails
    <2> QED BY <1>1, <1>13, <2>1, <2>2 DEF TypeOK, BuildFails, rest, receiver
  <1>14. ASSUME NEW c \in Calls, EventFails(c) PROVE TypeOK'
    <2>1. call' \in [Calls -> CallRecord]
      BY <1>1, <1>14, CallType, Zenon DEF EventFails
    <2> QED BY <1>1, <1>14, <2>1 DEF TypeOK, EventFails, rest, receiver
  <1>15. ASSUME NEW c \in Calls, Post(c) PROVE TypeOK'
    <2>1. call' \in [Calls -> CallRecord]
      BY <1>1, <1>15, CallType, Zenon DEF Post
    <2>2. call[c].bundle \in Bundles
      BY <1>2, <1>15 DEF Post
    <2> QED BY <1>1, <1>15, <2>1, <2>2 DEF TypeOK, Post, store, build, receiver
  <1>16. ASSUME NEW c \in Calls, Answer(c) PROVE TypeOK'
    <2>1. receipt[call[c].bundle] \in Receipts \cup {NoReceipt}
      BY <1>1, <1>2, <1>16 DEF TypeOK, Answer
    <2>2. call' \in [Calls -> CallRecord]
      BY <1>1, <1>16, <2>1, CallType, Zenon DEF Answer
    <2> QED BY <1>1, <1>16, <2>2 DEF TypeOK, Answer, rest, store, build, receiver
  <1>17. ASSUME NEW c \in Calls, call[c].pc \in {"ready", "posted"},
                NEW what \in {"exported", "unconfirmed", "imported", "conflict"},
                Record(c, what)
         PROVE  /\ call' \in [Calls -> CallRecord]
                /\ logged' \in [Bundles ->
                    SUBSET {"exported", "unconfirmed", "imported", "conflict"}]
    <2>1. call' \in [Calls -> CallRecord]
      BY <1>1, <1>17, CallType, Zenon DEF Record
    <2>2. call[c].bundle \in Bundles
      BY <1>2, <1>17
    <2> QED BY <1>1, <1>17, <2>1, <2>2 DEF TypeOK, Record
  <1>18. ASSUME NEW c \in Calls, Export(c) PROVE TypeOK'
    <2>1. call[c].bundle \in Bundles
      BY <1>2, <1>18 DEF Export
    <2> QED BY <1>1, <1>17, <1>18, <2>1
            DEF TypeOK, Export, store, build, receiver
  <1>19. ASSUME NEW c \in Calls, LogReceipt(c) PROVE TypeOK'
    <2>1. call[c].answer \in Receipts
      BY <1>1, <1>19 DEF TypeOK, CallRecord, LogReceipt
    <2>2. call[c].answer.status \in
                {"exported", "unconfirmed", "imported", "conflict"}
      BY <2>1 DEF Receipts
    <2> QED BY <1>1, <1>17, <1>19, <2>2
            DEF TypeOK, LogReceipt, store, build, receiver
  <1>20. ASSUME NEW c \in Calls, LogUnconfirmed(c) PROVE TypeOK'
    BY <1>1, <1>17, <1>20 DEF TypeOK, LogUnconfirmed, store, build, receiver
  <1>21. ASSUME NEW c \in Calls, GiveUp(c) PROVE TypeOK'
    <2>1. call' \in [Calls -> CallRecord]
      BY <1>1, <1>21, CallType, Zenon DEF GiveUp
    <2> QED BY <1>1, <1>21, <2>1 DEF TypeOK, GiveUp, rest, store, build, receiver
  <1> QED BY <1>3, <1>4, <1>5, <1>6, <1>7, <1>8, <1>9, <1>10, <1>11, <1>12,
             <1>13, <1>14, <1>15, <1>16, <1>18, <1>19, <1>20, <1>21
          DEF Sender, Request

LEMMA ReceiverType ==
    ASSUME Inv, Receiver
    PROVE  TypeOK'
  <1>1. TypeOK /\ ReceiptsFit
    BY DEF Inv, ReceiveInv
  <1>2. ASSUME UNCHANGED sender,
               local' \in [Records -> [source : Nat, revision : Nat]],
               outcome' \in [Bundles -> Delivery!Outcomes],
               receipt' \in [Bundles -> Receipts \cup {NoReceipt}]
        PROVE  TypeOK'
    BY <1>1, <1>2 DEF TypeOK, sender, store, build
  <1>3. ASSUME NEW b \in Bundles
        PROVE  Delivery!Received(b) \in
                    [Records -> [source : Nat, revision : Nat]]
    BY <1>1, ExchangeAssumption DEF TypeOK, Delivery!Received, Delivery!Carried
  <1>4. ASSUME NEW b \in Bundles, Receive(b) PROVE TypeOK'
    <2>1. CASE Delivery!Import(b) /\ receipt' =
                    [receipt EXCEPT ![b] = ImportedReceipt(b)]
      <3>1. receipt' \in [Bundles -> Receipts \cup {NoReceipt}]
        BY <1>1, <2>1, ImportedIsValid DEF TypeOK
      <3>2. outcome' \in [Bundles -> Delivery!Outcomes]
        BY <1>1, <2>1 DEF TypeOK, Delivery!Import, Delivery!Outcomes
      <3> QED BY <1>2, <1>3, <1>4, <2>1, <3>1, <3>2 DEF Receive, Delivery!Import
    <2>2. CASE Delivery!HoldForReview(b) /\ receipt' =
                    [receipt EXCEPT ![b] = ConflictReceipt(b)]
      <3>1. receipt' \in [Bundles -> Receipts \cup {NoReceipt}]
        BY <1>1, <2>2, ConflictIsValid DEF TypeOK, Delivery!HoldForReview
      <3>2. outcome' \in [Bundles -> Delivery!Outcomes] /\ local' = local
        BY <1>1, <2>2 DEF TypeOK, Delivery!HoldForReview, Delivery!Outcomes
      <3>3. local \in [Records -> [source : Nat, revision : Nat]]
        BY <1>1 DEF TypeOK
      <3> QED BY <1>2, <1>4, <3>1, <3>2, <3>3 DEF Receive
    <2> QED BY <1>4, <2>1, <2>2 DEF Receive
  <1>5. ASSUME NEW b \in Bundles, Accept(b) PROVE TypeOK'
    <2>1. AcceptedReceipt(receipt[b]) \in Receipts
      BY <1>1, <1>5, AcceptedIsValid DEF ReceiptsFit, Accept, Delivery!Accept
    <2>2. receipt' \in [Bundles -> Receipts \cup {NoReceipt}]
      BY <1>1, <1>5, <2>1 DEF TypeOK, Accept
    <2>3. outcome' \in [Bundles -> Delivery!Outcomes]
      BY <1>1, <1>5 DEF TypeOK, Accept, Delivery!Accept, Delivery!Outcomes
    <2> QED BY <1>2, <1>3, <1>5, <2>2, <2>3 DEF Accept, Delivery!Accept
  <1>6. ASSUME NEW b \in Bundles, KeepLocal(b) PROVE TypeOK'
    <2>1. outcome' \in [Bundles -> Delivery!Outcomes]
      BY <1>1, <1>6 DEF TypeOK, KeepLocal, Delivery!KeepLocal, Delivery!Outcomes
    <2>2. /\ local' \in [Records -> [source : Nat, revision : Nat]]
          /\ receipt' \in [Bundles -> Receipts \cup {NoReceipt}]
      BY <1>1, <1>6 DEF TypeOK, KeepLocal, Delivery!KeepLocal
    <2> QED BY <1>2, <1>6, <2>1, <2>2 DEF KeepLocal
  <1> QED BY <1>4, <1>5, <1>6 DEF Receiver
-----------------------------------------------------------------------------
(* The sender.                                                             *)

\* A step of the receiver changes nothing of this.
LEMMA SendKept ==
    ASSUME SendInv, UNCHANGED <<call, cache, holder, approved, cut, blocked,
                                ahead, sent>>
    PROVE  SendInv'
  BY DEF SendInv, CallsHold, CacheFits, Building, AheadHeld, SentCached,
         SentIsApproved

\* A request that ends, while others go on as they are, disturbs nothing if
\* it did not build.
LEMMA CallEnds ==
    ASSUME Inv, NEW c \in Calls, c \notin holder,
           call' = [call EXCEPT ![c] = Idle],
           UNCHANGED <<cache, holder, approved, cut, blocked, ahead>>
    PROVE  /\ CallsHold'
           /\ CacheFits'
           /\ AheadHeld'
  <1>1. /\ call'[c] = Idle
        /\ \A d \in Calls \ {c} : call'[d] = call[d]
        /\ holder \subseteq Calls
    BY DEF Inv, TypeOK
  <1>2. CallsHold'
    BY <1>1 DEF Inv, SendInv, CallsHold, Idle
  <1>3. \A v \in Versions : Building(v) => Building(v)'
    BY <1>1 DEF Building
  <1>4. CacheFits'
    BY <1>3 DEF Inv, SendInv, CacheFits
  <1>5. AheadHeld'
    BY <1>1 DEF Inv, SendInv, AheadHeld
  <1> QED BY <1>2, <1>4, <1>5

\* A request that did not build moves on with the cached bundle it has.
LEMMA CallGoesOn ==
    ASSUME Inv, NEW c \in Calls, c \notin holder,
           NEW v \in Versions, cache[v].stage = Complete,
           call' \in [Calls -> CallRecord],
           call'[c].pc \in {"ready", "posted"},
           call'[c].version = v,
           call'[c].bundle = cache[v].bundle,
           cache[v].bundle \in approved \cup cut,
           \A d \in Calls \ {c} : call'[d] = call[d],
           UNCHANGED <<cache, holder, approved, cut, blocked, ahead>>
    PROVE  /\ CallsHold'
           /\ CacheFits'
           /\ AheadHeld'
  <1>1. holder \subseteq Calls
    BY DEF Inv, TypeOK
  <1>2. CallsHold'
    BY DEF Inv, SendInv, CallsHold
  <1>3. \A w \in Versions : Building(w) => Building(w)'
    BY <1>1 DEF Building
  <1>4. CacheFits'
    BY <1>3 DEF Inv, SendInv, CacheFits
  <1>5. AheadHeld'
    BY <1>1 DEF Inv, SendInv, AheadHeld
  <1> QED BY <1>2, <1>4, <1>5

\* A build that ends without its commit: the store is verified, or blocked.
LEMMA BuildEnds ==
    ASSUME Inv, holder' = {}, cut' = cut \cup CutShort,
           call' \in [Calls -> CallRecord],
           \A d \in Calls : call'[d] = Idle \/ (call'[d] = call[d] /\ d \notin holder),
           ~Verifies => blocked',
           ahead' => blocked',
           UNCHANGED <<cache, approved, sent>>
    PROVE  SendInv'
  <1>1. CallsHold'
    BY DEF Inv, SendInv, CallsHold, Idle
  <1>2. ASSUME NEW v \in Versions, Building(v), cache[v].stage = Complete
        PROVE  cache[v].bundle \in cut'
    BY <1>2 DEF Building, CutShort
  <1>3. CacheFits'
    BY <1>2 DEF Inv, SendInv, CacheFits, Verifies
  <1>4. AheadHeld' /\ SentCached' /\ SentIsApproved'
    BY DEF Inv, SendInv, AheadHeld, SentCached, SentIsApproved
  <1> QED BY <1>1, <1>3, <1>4 DEF SendInv
LEMMA SenderSends ==
    ASSUME Inv, Sender
    PROVE  SendInv'
  <1> USE DEF Complete
  <1>1. /\ TypeOK /\ CallsHold /\ CacheFits /\ AheadHeld
        /\ SentCached /\ SentIsApproved
        /\ TypeOK'
    BY SenderType DEF Inv, SendInv
  <1>2. holder \subseteq Calls /\ call' \in [Calls -> CallRecord]
    BY <1>1 DEF TypeOK
  <1>3. ASSUME NEW c \in Calls, call[c].pc \in {"ready", "posted"}
        PROVE  /\ c \notin holder
               /\ call[c].version \in Versions
               /\ cache[call[c].version].stage = Complete
               /\ call[c].bundle = cache[call[c].version].bundle
               /\ call[c].bundle \in approved \cup cut
               /\ Review[call[c].bundle] = call[c].version
    BY <1>1, <1>3 DEF CallsHold, CacheFits
  <1>4. ASSUME NEW c \in Calls, call[c].pc \in {"building", "announced"}
        PROVE  /\ holder = {c}
               /\ call[c].version \in Versions
    BY <1>1, <1>4 DEF CallsHold, TypeOK
  <1>5. CASE Edit \/ Preview
    BY <1>1, <1>5, SendKept DEF Edit, Preview, store, build, SendInv
  <1>6. CASE StoreBlocks
    BY <1>1, <1>6 DEF StoreBlocks, rest, SendInv, CallsHold, CacheFits,
       Building, AheadHeld, SentCached, SentIsApproved
  <1>7. CASE Restart
    <2>1. (ahead' => blocked') /\ (~Verifies => blocked')
      BY <1>7 DEF Restart, Verifies
    <2>2. /\ holder' = {} /\ cut' = cut \cup CutShort
          /\ UNCHANGED <<cache, approved, sent>>
      BY <1>7 DEF Restart, rest
    <2>3. \A d \in Calls : call'[d] = Idle
      BY <1>7 DEF Restart
    <2> QED BY <1>2, <2>1, <2>2, <2>3, BuildEnds
  <1>8. ASSUME NEW c \in Calls, NEW v \in Versions, BeginBuild(c, v)
        PROVE  SendInv'
    <2>1. /\ holder = {} /\ holder' = {c} /\ ~blocked /\ v \in Versions
          /\ call[c] = Idle /\ cache[v].stage = 0
          /\ call'[c].pc = "building" /\ call'[c].version = v
          /\ \A d \in Calls \ {c} : call'[d] = call[d]
          /\ UNCHANGED <<cache, approved, cut, blocked, ahead, sent>>
      BY <1>1, <1>8
         DEF BeginBuild, Admitted, rest, build, TypeOK, CallRecord
    <2>2. CallsHold'
      BY <1>1, <2>1 DEF CallsHold
    <2>3. CacheFits' /\ AheadHeld'
      BY <1>1, <2>1 DEF CacheFits, Building, AheadHeld
    <2> QED BY <1>1, <2>1, <2>2, <2>3 DEF SendInv, SentCached, SentIsApproved
  <1>9. ASSUME NEW c \in Calls, NEW v \in Versions, UseCached(c, v)
        PROVE  SendInv'
    <2>1. /\ holder = {} /\ cache[v].stage = Complete
          /\ call'[c].pc = "ready" /\ call'[c].version = v
          /\ call'[c].bundle = cache[v].bundle
          /\ \A d \in Calls \ {c} : call'[d] = call[d]
          /\ UNCHANGED <<cache, holder, approved, cut, blocked, ahead, sent>>
      BY <1>1, <1>9
         DEF UseCached, Admitted, rest, store, build, TypeOK, CallRecord
    <2>2. cache[v].bundle \in approved \cup cut
      BY <1>1, <2>1 DEF CacheFits, Building
    <2>3. CallsHold' /\ CacheFits' /\ AheadHeld'
      BY <1>2, <2>1, <2>2, CallGoesOn
    <2> QED BY <1>1, <2>1, <2>3 DEF SendInv, SentCached, SentIsApproved
  <1>10. ASSUME NEW c \in Calls, NEW b \in Bundles, OpenCache(c, b)
         PROVE  SendInv'
    <2> DEFINE v == Review[b]
    <2>1. /\ holder = {c} /\ v \in Versions
          /\ call[c].pc = "building" /\ call[c].version = v
          /\ cache[v].stage = 0
          /\ call'[c].pc = "building" /\ call'[c].version = v
          /\ call'[c].bundle = b
          /\ \A d \in Calls \ {c} : call'[d] = call[d]
          /\ cache'[v].bundle = b /\ cache'[v].stage = 1
          /\ \A w \in Versions \ {v} : cache'[w] = cache[w]
          /\ UNCHANGED <<holder, approved, cut, blocked, ahead, sent>>
      <3>1. holder = {c} /\ v \in Versions
        BY <1>4, <1>10, ExchangeAssumption DEF OpenCache
      <3>2. /\ cache'[v] = [bundle |-> b, stage |-> 1]
            /\ \A w \in Versions \ {v} : cache'[w] = cache[w]
        BY <1>1, <1>10, <3>1 DEF OpenCache, TypeOK
      <3>3. /\ call'[c].pc = "building" /\ call'[c].version = v
            /\ call'[c].bundle = b
            /\ \A d \in Calls \ {c} : call'[d] = call[d]
        BY <1>1, <1>10 DEF OpenCache, TypeOK, CallRecord
      <3> QED BY <1>10, <3>1, <3>2, <3>3 DEF OpenCache, rest
    <2> HIDE DEF v
    <2>2. CallsHold'
      BY <1>1, <2>1 DEF CallsHold
    <2>3. CacheFits'
      BY <1>1, <2>1 DEF CacheFits, Building, v
    <2>4. AheadHeld' /\ SentIsApproved'
      BY <1>1, <2>1 DEF AheadHeld, SentIsApproved
    <2>5. \A a \in sent : Review[a] \in Versions \ {v}
      BY <1>1, <2>1, ExchangeAssumption DEF SentCached, TypeOK
    <2>6. SentCached'
      BY <1>1, <2>1, <2>5 DEF SentCached
    <2> QED BY <2>2, <2>3, <2>4, <2>6 DEF SendInv
  <1>11. ASSUME NEW c \in Calls, WriteCache(c) PROVE SendInv'
    <2> DEFINE v == call[c].version
    <2>1. /\ holder = {c} /\ v \in Versions
          /\ call[c].pc = "building"
          /\ cache[v].stage \in 1..3
          /\ cache'[v].bundle = cache[v].bundle
          /\ cache'[v].stage = cache[v].stage + 1
          /\ \A w \in Versions \ {v} : cache'[w] = cache[w]
          /\ UNCHANGED <<call, holder, approved, cut, blocked, ahead, sent>>
      <3>1. holder = {c} /\ v \in Versions
        BY <1>4, <1>11 DEF WriteCache
      <3>2. cache[v].stage \in 1..3 /\ call[c].pc = "building"
        BY <1>11 DEF WriteCache
      <3>3. /\ cache'[v].bundle = cache[v].bundle
            /\ cache'[v].stage = cache[v].stage + 1
            /\ \A w \in Versions \ {v} : cache'[w] = cache[w]
        BY <1>1, <1>11, <3>1 DEF WriteCache, TypeOK
      <3> QED BY <1>11, <3>1, <3>2, <3>3 DEF WriteCache, rest
    <2>2. \A w \in Versions : w = v => Building(w)'
      BY <2>1 DEF Building
    <2>3. \A d \in Calls : d # c => call[d].pc \notin {"building", "announced"}
      BY <1>1, <2>1 DEF CallsHold
    <2>4. \A d \in Calls : call[d].pc \in {"announced", "ready", "posted"} =>
                call[d].version \in Versions \ {v}
      BY <1>1, <2>1 DEF CallsHold
    <2> HIDE DEF v
    <2>5. CallsHold'
      BY <1>1, <2>1, <2>3, <2>4 DEF CallsHold, v
    <2>6. CacheFits'
      <3>1. \A w \in Versions : Building(w) => Building(w)'
        BY <2>1 DEF Building
      <3>2. cache[v].bundle \in Bundles /\ Review[cache[v].bundle] = v
        BY <1>1, <2>1 DEF CacheFits
      <3>3. \A w \in Versions \ {v} :
                /\ cache'[w] = cache[w]
                /\ cache[w].stage > 0 =>
                        cache[w].bundle \in Bundles /\ Review[cache[w].bundle] = w
                /\ cache[w].stage \notin {0, Complete} =>
                        blocked' \/ Building(w)'
                /\ cache[w].stage = Complete =>
                        cache[w].bundle \in approved' \cup cut' \/ Building(w)'
        BY <1>1, <2>1, <3>1 DEF CacheFits
      <3> QED BY <2>1, <2>2, <3>2, <3>3 DEF CacheFits
    <2>7. AheadHeld' /\ SentIsApproved'
      BY <1>1, <2>1 DEF AheadHeld, SentIsApproved
    <2>8. SentCached'
      <3>1. \A a \in sent : Review[a] \in Versions \ {v}
        BY <1>1, <2>1, ExchangeAssumption DEF SentCached, TypeOK
      <3> QED BY <1>1, <2>1, <3>1 DEF SentCached
    <2> QED BY <2>5, <2>6, <2>7, <2>8 DEF SendInv
  <1>12. ASSUME NEW c \in Calls, Announce(c) PROVE SendInv'
    <2>1. /\ holder = {c} /\ call[c].version \in Versions
          /\ call[c].pc = "building"
          /\ cache[call[c].version].stage = Complete
          /\ call'[c].pc = "announced" /\ call'[c].version = call[c].version
          /\ call'[c].bundle = call[c].bundle
          /\ \A d \in Calls \ {c} : call'[d] = call[d]
          /\ UNCHANGED <<cache, holder, approved, cut, blocked, sent>>
      BY <1>1, <1>4, <1>12 DEF Announce, rest, TypeOK, CallRecord
    <2>2. CallsHold'
      BY <1>1, <2>1 DEF CallsHold
    <2>3. CacheFits' /\ AheadHeld'
      BY <1>1, <2>1 DEF CacheFits, Building, AheadHeld
    <2> QED BY <1>1, <2>1, <2>2, <2>3 DEF SendInv, SentCached, SentIsApproved
  <1>13. ASSUME NEW c \in Calls, CommitBuild(c) PROVE SendInv'
    <2>1. /\ holder = {c} /\ holder' = {} /\ call[c].version \in Versions
          /\ cache[call[c].version].stage = Complete
          /\ call[c].bundle = cache[call[c].version].bundle
          /\ call'[c].pc = "ready" /\ call'[c].version = call[c].version
          /\ call'[c].bundle = call[c].bundle
          /\ \A d \in Calls \ {c} : call'[d] = call[d]
          /\ approved' = approved \cup {call[c].bundle} /\ ~ahead'
          /\ UNCHANGED <<cache, cut, blocked, sent>>
      BY <1>1, <1>4, <1>13
         DEF CommitBuild, rest, CallsHold, TypeOK, CallRecord
    <2>2. CallsHold'
      BY <1>1, <2>1 DEF CallsHold
    <2>3. CacheFits' /\ AheadHeld'
      BY <1>1, <2>1 DEF CacheFits, Building, AheadHeld
    <2> QED BY <1>1, <2>1, <2>2, <2>3 DEF SendInv, SentCached, SentIsApproved
  <1>14. ASSUME NEW c \in Calls, BuildFails(c) \/ EventFails(c)
         PROVE  SendInv'
    <2>1. holder = {c}
      BY <1>4, <1>14 DEF BuildFails, EventFails
    <2>2. /\ ~Verifies => blocked'
          /\ ahead' => blocked'
          /\ call' = [call EXCEPT ![c] = Idle]
          /\ holder' = {} /\ cut' = cut \cup CutShort
          /\ UNCHANGED <<cache, approved, sent>>
      <3>1. CASE BuildFails(c)
        <4>1. /\ blocked' = (blocked \/ ~Verifies) /\ ahead' = ahead
              /\ call' = [call EXCEPT ![c] = Idle]
              /\ holder' = {} /\ cut' = cut \cup CutShort
              /\ UNCHANGED <<cache, approved, sent>>
          BY <3>1 DEF BuildFails, rest
        <4>2. ahead => ~Verifies
          BY DEF Verifies
        <4> QED BY <4>1, <4>2
      <3>2. CASE EventFails(c)
        BY <3>2 DEF EventFails, rest
      <3> QED BY <1>14, <3>1, <3>2
    <2>3. \A d \in Calls :
                call'[d] = Idle \/ (call'[d] = call[d] /\ d \notin holder)
      <3>1. call \in [Calls -> CallRecord]
        BY <1>1 DEF TypeOK
      <3> QED BY <2>1, <2>2, <3>1
    <2> QED BY <1>2, <2>2, <2>3, BuildEnds
  <1>15. ASSUME NEW c \in Calls, Export(c) PROVE SendInv'
    <2>1. CallsHold' /\ CacheFits' /\ AheadHeld'
      BY <1>3, <1>15, CallEnds DEF Export, Record, store, build
    <2>2. SentCached' /\ SentIsApproved'
      BY <1>1, <1>3, <1>15
         DEF Export, store, build, SentCached, SentIsApproved
    <2> QED BY <2>1, <2>2 DEF SendInv
  <1>16. ASSUME NEW c \in Calls, Post(c) PROVE SendInv'
    <2>1. /\ call'[c].pc = "posted" /\ call'[c].version = call[c].version
          /\ call'[c].bundle = call[c].bundle
          /\ \A d \in Calls \ {c} : call'[d] = call[d]
          /\ UNCHANGED <<cache, holder, approved, cut, blocked, ahead>>
      BY <1>1, <1>16 DEF Post, store, build, TypeOK, CallRecord
    <2>2. call[c].pc = "ready"
      BY <1>16 DEF Post
    <2>3. CallsHold' /\ CacheFits' /\ AheadHeld'
      BY <1>2, <1>3, <2>1, <2>2, CallGoesOn
    <2>4. SentCached' /\ SentIsApproved'
      BY <1>1, <1>3, <1>16 DEF Post, store, build, SentCached, SentIsApproved
    <2> QED BY <2>3, <2>4 DEF SendInv
  <1>17. ASSUME NEW c \in Calls, Answer(c) PROVE SendInv'
    <2>1. /\ call'[c].pc = "posted" /\ call'[c].version = call[c].version
          /\ call'[c].bundle = call[c].bundle
          /\ \A d \in Calls \ {c} : call'[d] = call[d]
          /\ UNCHANGED <<cache, holder, approved, cut, blocked, ahead, sent>>
      BY <1>1, <1>17 DEF Answer, rest, store, build, TypeOK, CallRecord
    <2>2. call[c].pc = "posted"
      BY <1>17 DEF Answer
    <2>3. CallsHold' /\ CacheFits' /\ AheadHeld'
      BY <1>2, <1>3, <2>1, <2>2, CallGoesOn
    <2> QED BY <1>1, <2>1, <2>3 DEF SendInv, SentCached, SentIsApproved
  <1>18. ASSUME NEW c \in Calls, LogReceipt(c) \/ LogUnconfirmed(c) \/ GiveUp(c)
         PROVE  SendInv'
    <2>1. /\ call[c].pc \in {"ready", "posted"}
          /\ call' = [call EXCEPT ![c] = Idle]
          /\ UNCHANGED <<cache, holder, approved, cut, blocked, ahead, sent>>
      BY <1>18 DEF LogReceipt, LogUnconfirmed, GiveUp, Record, rest, store, build
    <2>2. CallsHold' /\ CacheFits' /\ AheadHeld'
      BY <1>3, <2>1, CallEnds
    <2> QED BY <1>1, <2>1, <2>2 DEF SendInv, SentCached, SentIsApproved
  <1> QED BY <1>5, <1>6, <1>7, <1>8, <1>9, <1>10, <1>11, <1>12, <1>13, <1>14,
             <1>15, <1>16, <1>17, <1>18
          DEF Sender, Request
-----------------------------------------------------------------------------
(* The receiver, and what the sender hears of it.                          *)

\* What became of a bundle stays true as the receiver goes on.
LEMMA ReceiverHeard ==
    ASSUME Inv, NEW b \in Bundles, NEW what,
           \/ outcome[b] = "none"
           \/ outcome[b] = "review" /\ what # "review",
           outcome' = [outcome EXCEPT ![b] = what],
           what \in {"imported", "review", "kept"},
           UNCHANGED <<call, logged>>
    PROVE  AnswersFit' /\ LoggedIsTrue'
  <1>1. /\ outcome'[b] = what
        /\ \A a \in Bundles \ {b} : outcome'[a] = outcome[a]
    BY DEF Inv, TypeOK
  <1>2. ASSUME NEW c \in Calls, call[c].answer # NoReceipt
        PROVE  call[c].pc = "posted" /\ call[c].bundle \in Bundles
    BY <1>2 DEF Inv, SendInv, ReceiveInv, AnswersFit, CallsHold, CacheFits,
                Complete
  <1>3. ASSUME NEW a \in Bundles, NEW s, Tells(s, a)
        PROVE  Tells(s, a)'
    BY <1>1, <1>3 DEF Tells
  <1>4. AnswersFit'
    BY <1>2, <1>3 DEF Inv, ReceiveInv, AnswersFit
  <1>5. LoggedIsTrue'
    BY <1>1 DEF Inv, ReceiveInv, LoggedIsTrue
  <1> QED BY <1>4, <1>5

LEMMA ReceiverAnswers ==
    ASSUME Inv, Receiver
    PROVE  ReceiveInv'
  <1>1. TypeOK /\ ReceiptsFit
    BY DEF Inv, ReceiveInv
  <1>2. ASSUME NEW b \in Bundles, NEW a,
               NEW what \in {"imported", "review", "kept"},
               outcome' = [outcome EXCEPT ![b] = what],
               receipt' = [receipt EXCEPT ![b] = a],
               a \in Receipts, Valid(a, b),
               a.status = IF what = "imported" THEN "imported" ELSE "conflict"
        PROVE  ReceiptsFit'
    <2>1. /\ outcome'[b] = what /\ receipt'[b] = a
          /\ \A d \in Bundles \ {b} :
                outcome'[d] = outcome[d] /\ receipt'[d] = receipt[d]
      BY <1>1, <1>2 DEF TypeOK
    <2> QED BY <1>1, <1>2, <2>1 DEF ReceiptsFit
  <1>3. ASSUME NEW b \in Bundles, Receive(b) PROVE ReceiveInv'
    <2>1. UNCHANGED <<call, logged>>
      BY <1>3 DEF Receive, sender
    <2>2. CASE Delivery!Import(b) /\ receipt' =
                    [receipt EXCEPT ![b] = ImportedReceipt(b)]
      <3>1. /\ outcome[b] = "none"
            /\ outcome' = [outcome EXCEPT ![b] = "imported"]
        BY <2>2 DEF Delivery!Import
      <3>2. ImportedReceipt(b).status = "imported"
        BY DEF ImportedReceipt
      <3>3. ReceiptsFit'
        BY <1>1, <1>2, <2>2, <3>1, <3>2, ImportedIsValid
      <3> QED BY <2>1, <3>1, <3>3, ReceiverHeard DEF ReceiveInv
    <2>3. CASE Delivery!HoldForReview(b) /\ receipt' =
                    [receipt EXCEPT ![b] = ConflictReceipt(b)]
      <3>1. /\ outcome[b] = "none" /\ Delivery!Conflicts(b) # {}
            /\ outcome' = [outcome EXCEPT ![b] = "review"]
        BY <2>3 DEF Delivery!HoldForReview
      <3>2. ConflictReceipt(b).status = "conflict"
        BY DEF ConflictReceipt
      <3>3. ReceiptsFit'
        BY <1>1, <1>2, <2>3, <3>1, <3>2, ConflictIsValid
      <3> QED BY <2>1, <3>1, <3>3, ReceiverHeard DEF ReceiveInv
    <2> QED BY <1>3, <2>2, <2>3 DEF Receive
  <1>4. ASSUME NEW b \in Bundles, Accept(b) PROVE ReceiveInv'
    <2>1. /\ outcome[b] = "review"
          /\ outcome' = [outcome EXCEPT ![b] = "imported"]
          /\ receipt' = [receipt EXCEPT ![b] = AcceptedReceipt(receipt[b])]
          /\ UNCHANGED <<call, logged>>
      BY <1>4 DEF Accept, Delivery!Accept, sender
    <2>2. /\ receipt[b] \in Receipts /\ Valid(receipt[b], b)
          /\ receipt[b].status = "conflict"
      BY <1>1, <2>1 DEF ReceiptsFit
    <2>3. ReceiptsFit'
      BY <1>2, <2>1, <2>2, AcceptedIsValid
    <2> QED BY <2>1, <2>3, ReceiverHeard DEF ReceiveInv
  <1>5. ASSUME NEW b \in Bundles, KeepLocal(b) PROVE ReceiveInv'
    <2>1. /\ outcome[b] = "review"
          /\ outcome' = [outcome EXCEPT ![b] = "kept"]
          /\ UNCHANGED <<receipt, call, logged>>
      BY <1>5 DEF KeepLocal, Delivery!KeepLocal, sender
    <2>2. ReceiptsFit'
      BY <1>1, <2>1 DEF ReceiptsFit, TypeOK
    <2> QED BY <2>1, <2>2, ReceiverHeard DEF ReceiveInv
  <1> QED BY <1>3, <1>4, <1>5 DEF Receiver

\* The answers of requests that keep their answer and bundle, or drop them.
LEMMA AnswersKept ==
    ASSUME Inv, UNCHANGED outcome,
           \A c \in Calls :
               \/ call'[c].answer = NoReceipt
               \/ call'[c] = call[c]
    PROVE  AnswersFit'
  BY DEF Inv, ReceiveInv, AnswersFit, Tells

LEMMA SenderHears ==
    ASSUME Inv, Sender
    PROVE  ReceiveInv'
  <1>1. /\ TypeOK /\ CallsHold /\ CacheFits
        /\ ReceiptsFit /\ AnswersFit /\ LoggedIsTrue
    BY DEF Inv, SendInv, ReceiveInv
  <1>2. call \in [Calls -> CallRecord]
    BY <1>1 DEF TypeOK
  <1>3. ASSUME UNCHANGED receiver PROVE ReceiptsFit'
    BY <1>1, <1>3 DEF receiver, ReceiptsFit
  <1>4. ASSUME UNCHANGED <<outcome, logged>> PROVE LoggedIsTrue'
    BY <1>1, <1>4 DEF LoggedIsTrue
  <1>5. ASSUME NEW c \in Calls, call[c].pc # "posted"
        PROVE  call[c].answer = NoReceipt
    BY <1>1, <1>5 DEF AnswersFit
  <1>6. CASE Edit \/ Preview \/ StoreBlocks
    <2>1. UNCHANGED <<receiver, outcome, logged, call>>
      BY <1>6 DEF Edit, Preview, StoreBlocks, rest, receiver
    <2> QED BY <1>3, <1>4, <2>1, AnswersKept DEF ReceiveInv
  <1>7. CASE Restart
    <2>1. UNCHANGED <<receiver, outcome, logged>>
      BY <1>7 DEF Restart, rest, receiver
    <2>2. \A c \in Calls : call'[c].answer = NoReceipt
      BY <1>7 DEF Restart, Idle
    <2> QED BY <1>3, <1>4, <2>1, <2>2, AnswersKept DEF ReceiveInv
  <1>8. ASSUME NEW c \in Calls,
               \/ \E v \in Versions : BeginBuild(c, v) \/ UseCached(c, v)
               \/ \E b \in Bundles : OpenCache(c, b)
               \/ WriteCache(c) \/ Announce(c) \/ CommitBuild(c)
               \/ BuildFails(c) \/ EventFails(c) \/ Post(c)
        PROVE  ReceiveInv'
    <2>1. UNCHANGED <<receiver, outcome, logged>>
      BY <1>8 DEF BeginBuild, UseCached, OpenCache, WriteCache, Announce,
         CommitBuild, BuildFails, EventFails, Post, rest, receiver
    <2>2. /\ call[c].pc # "posted"
          /\ call'[c] = Idle \/ call'[c].answer = call[c].answer
      <3>1. ASSUME NEW v \in Versions, BeginBuild(c, v) \/ UseCached(c, v)
            PROVE  call[c].pc # "posted" /\ call'[c].answer = call[c].answer
        <4>1. call[c].pc # "posted"
          BY <3>1 DEF BeginBuild, UseCached, Admitted, Idle
        <4>2. call'[c].answer = call[c].answer
          BY <1>2, <3>1 DEF BeginBuild, UseCached, CallRecord
        <4> QED BY <4>1, <4>2
      <3>2. ASSUME NEW b \in Bundles, OpenCache(c, b)
            PROVE  call[c].pc # "posted" /\ call'[c].answer = call[c].answer
        BY <1>2, <3>2 DEF OpenCache, CallRecord
      <3>3. CASE WriteCache(c) \/ Announce(c) \/ CommitBuild(c) \/ Post(c)
        BY <1>2, <3>3 DEF WriteCache, Announce, CommitBuild, Post, CallRecord
      <3>4. CASE BuildFails(c) \/ EventFails(c)
        BY <1>2, <3>4 DEF BuildFails, EventFails
      <3> QED BY <1>8, <3>1, <3>2, <3>3, <3>4
    <2>3. call'[c].answer = NoReceipt
      BY <1>5, <2>2 DEF Idle
    <2>4. \A d \in Calls \ {c} : call'[d] = call[d]
      BY <1>2, <1>8 DEF BeginBuild, UseCached, OpenCache, WriteCache,
         Announce, CommitBuild, BuildFails, EventFails, Post
    <2> QED BY <1>3, <1>4, <2>1, <2>3, <2>4, AnswersKept DEF ReceiveInv
  <1>9. ASSUME NEW c \in Calls, Answer(c) PROVE ReceiveInv'
    <2>1. /\ call[c].pc = "posted"
          /\ receipt[call[c].bundle] # NoReceipt
          /\ UNCHANGED <<receiver, outcome, logged>>
      BY <1>9 DEF Answer, rest, receiver
    <2>2. /\ call'[c].pc = "posted"
          /\ call'[c].bundle = call[c].bundle
          /\ call'[c].answer = receipt[call[c].bundle]
          /\ \A d \in Calls \ {c} : call'[d] = call[d]
      BY <1>2, <1>9 DEF Answer, CallRecord
    <2>3. call[c].bundle \in Bundles
      BY <1>1, <2>1 DEF CallsHold, CacheFits, Complete
    <2>4. Tells(receipt[call[c].bundle].status, call[c].bundle)
      <3>1. outcome[call[c].bundle] \in {"none", "imported", "review", "kept"}
        BY <1>1, <2>3 DEF TypeOK, Delivery!Outcomes
      <3> QED BY <1>1, <2>1, <2>3, <3>1 DEF ReceiptsFit, Tells
    <2>5. AnswersFit'
      BY <1>1, <2>1, <2>2, <2>4 DEF AnswersFit, Tells
    <2> QED BY <1>3, <1>4, <2>1, <2>5 DEF ReceiveInv
  <1>10. ASSUME NEW c \in Calls, NEW what, Record(c, what),
                call[c].pc \in {"ready", "posted"}, UNCHANGED receiver,
                Tells(what, call[c].bundle)
         PROVE  ReceiveInv'
    <2>1. /\ logged' = [logged EXCEPT ![call[c].bundle] = @ \cup {what}]
          /\ call' = [call EXCEPT ![c] = Idle]
          /\ UNCHANGED outcome
      BY <1>10 DEF Record, receiver
    <2>2. \A d \in Calls : call'[d].answer = NoReceipt \/ call'[d] = call[d]
      BY <1>2, <2>1 DEF Idle
    <2>3. call[c].bundle \in Bundles
      BY <1>1, <1>10 DEF CallsHold, CacheFits, Complete
    <2>4. LoggedIsTrue'
      BY <1>1, <1>10, <2>1, <2>3 DEF LoggedIsTrue, Tells, TypeOK
    <2> QED BY <1>3, <1>10, <2>1, <2>2, <2>4, AnswersKept DEF ReceiveInv
  <1>11. ASSUME NEW c \in Calls, Export(c) \/ LogUnconfirmed(c)
         PROVE  ReceiveInv'
    BY <1>10, <1>11 DEF Export, LogUnconfirmed, Tells
  <1>12. ASSUME NEW c \in Calls, LogReceipt(c) PROVE ReceiveInv'
    <2>1. Tells(call[c].answer.status, call[c].bundle)
      BY <1>1, <1>12 DEF LogReceipt, AnswersFit
    <2> QED BY <1>10, <1>12, <2>1 DEF LogReceipt
  <1>13. ASSUME NEW c \in Calls, GiveUp(c) PROVE ReceiveInv'
    <2>1. UNCHANGED <<receiver, outcome, logged>>
      BY <1>13 DEF GiveUp, rest, receiver
    <2>2. \A d \in Calls : call'[d].answer = NoReceipt \/ call'[d] = call[d]
      BY <1>2, <1>13 DEF GiveUp, Idle
    <2> QED BY <1>3, <1>4, <2>1, <2>2, AnswersKept DEF ReceiveInv
  <1> QED BY <1>6, <1>7, <1>8, <1>9, <1>11, <1>12, <1>13 DEF Sender, Request
-----------------------------------------------------------------------------
LEMMA InvStep == Inv /\ [Next]_vars => Inv'
  <1> SUFFICES ASSUME Inv, [Next]_vars PROVE Inv'
    OBVIOUS
  <1>1. CASE Sender
    BY <1>1, SenderType, SenderSends, SenderHears DEF Inv
  <1>2. CASE Receiver
    <2>1. UNCHANGED sender
      BY <1>2 DEF Receiver, Receive, Accept, KeepLocal
    <2>2. SendInv'
      BY <2>1, SendKept DEF Inv, sender, store, build
    <2> QED BY <1>2, <2>2, ReceiverType, ReceiverAnswers DEF Inv
  <1>3. CASE UNCHANGED vars
    <2>1. TypeOK'
      BY <1>3 DEF Inv, TypeOK, vars, rest, receiver, store, build
    <2>2. SendInv'
      BY <1>3, SendKept DEF Inv, vars, rest, store, build
    <2>3. ReceiveInv'
      BY <1>3 DEF Inv, vars, rest, receiver, ReceiveInv, ReceiptsFit,
         AnswersFit, Tells, LoggedIsTrue
    <2> QED BY <2>1, <2>2, <2>3 DEF Inv
  <1> QED BY <1>1, <1>2, <1>3 DEF Next

LEMMA Invariance == Spec => []Inv
  BY InvInit, InvStep, PTL DEF Spec

\* Every reachable state is well-formed, and at most one build holds the lock
\* (transfer.py, build_bundle inside Store.tx).
THEOREM TypeCorrect == Spec => []TypeOK
  <1>1. Inv => TypeOK
    BY DEF Inv
  <1> QED BY <1>1, Invariance, PTL

\* One review leaves the host as one bundle, whatever was retried, cut short
\* or restarted (transfer.py, build_bundle and its cache).
THEOREM OneBundle == Spec => []OneBundlePerReview
  <1>1. Inv => OneBundlePerReview
    BY DEF Inv, SendInv, SentCached, OneBundlePerReview
  <1> QED BY <1>1, Invariance, PTL

\* What leaves the host was approved in the audit trail or is the cached
\* bundle of a build that was cut short (transfer.py, build_bundle).
THEOREM Approved == Spec => []SentIsApproved
  <1>1. Inv => SentIsApproved
    BY DEF Inv, SendInv
  <1> QED BY <1>1, Invariance, PTL

\* A store that takes a new build has whole caches and no announced event
\* without its commit (store.py, tx and verify after a rollback).
THEOREM Ready == Spec => []ReadyMeansWhole
  <1>1. Inv => ReadyMeansWhole
    <2> SUFFICES ASSUME Inv, ~blocked, holder = {} PROVE Verifies
      BY DEF ReadyMeansWhole
    <2>1. ~ahead
      BY DEF Inv, SendInv, AheadHeld
    <2>2. \A v \in Versions : cache[v].stage \in {0, Complete}
      BY DEF Inv, SendInv, CacheFits, Building
    <2> QED BY <2>1, <2>2 DEF Verifies
  <1> QED BY <1>1, Invariance, PTL

\* Every receipt the receiver stores satisfies the sender's validate_receipt,
\* for any number of records (transfer.py, import_bundle and the resolution
\* of conflicts).
THEOREM ReceiptContract == Spec => []ReceiptsValidate
  <1>1. Inv => ReceiptsValidate
    BY DEF Inv, ReceiveInv, ReceiptsFit, ReceiptsValidate
  <1> QED BY <1>1, Invariance, PTL

\* What the sender's audit trail says of a bundle is what became of it,
\* also when the conflict was resolved while the answer was on its way
\* (transfer.py, the route send).
THEOREM LogTruthful == Spec => []LoggedIsTrue
  <1>1. Inv => LoggedIsTrue
    BY DEF Inv, ReceiveInv
  <1> QED BY <1>1, Invariance, PTL
=============================================================================
