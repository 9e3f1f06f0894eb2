-------------------------- MODULE TransferExchange --------------------------
(***************************************************************************)
(* Reviewed transfers between two hosts (transfer.py preview_bundle,       *)
(* build_bundle, the routes export and send, validate_receipt).  The       *)
(* sender builds the bundle of a review once, inside a transaction that    *)
(* also writes it to a cache of two files, and sends the cached bundle     *)
(* whenever the same review is sent again.  A request or its answer may be *)
(* lost or late, so the sender often does not know whether a bundle        *)
(* arrived; the receiver is BundleDelivery with the receipts it answers.   *)
(*                                                                         *)
(* A version stands for everything a review hash is computed from: the     *)
(* selected records with what they refer to, the evidence files and the    *)
(* enrolled recipient.                                                     *)
(***************************************************************************)
EXTENDS Naturals, FiniteSets

CONSTANTS Records,   \* record identifiers
          Bundles,   \* bundle identifiers
          Versions,  \* states of the selected records and the recipient
          Review,    \* the version each bundle is built from
          Carries,   \* the source revision of each record a bundle carries, or 0
          Calls,     \* requests to export or send
          NoBundle,  \* no bundle
          NoReceipt  \* no answer

ASSUME ExchangeAssumption ==
    /\ IsFiniteSet(Records)
    /\ Versions \subseteq Nat \ {0}
    /\ 1 \in Versions
    /\ Review \in [Bundles -> Versions]
    /\ Carries \in [Bundles -> [Records -> Nat]]
    /\ NoBundle \notin Bundles

VARIABLES version,   \* the selected records as they are now
          reviewed,  \* the versions a preview has shown
          cache,     \* the cached bundle of each version and how far it is written
          used,      \* identifiers of bundles that reached the disk
          approved,  \* bundles with a committed transfer.approved
          ahead,     \* the audit files hold an event the database does not
          blocked,   \* Store.blocked
          holder,    \* the call whose transaction is open, if any
          call,      \* what each request is doing
          sent,      \* bundles that left the host, by request or as a file
          logged,    \* what the sender's audit trail says of each bundle
          cut,       \* bundles whose build failed with the cache complete
                     \* (only for the properties)
          local,     \* the receiver's records, see BundleDelivery
          outcome,   \* what became of each bundle at the receiver
          receipt    \* the receiver's receipt of each bundle

receiver == <<local, outcome, receipt>>
rest == <<version, reviewed, sent, logged, receiver>>
build == <<cache, used, approved, ahead, cut>>
store == <<build, blocked, holder>>
vars == <<rest, store, call>>

Delivery == INSTANCE BundleDelivery

\* The files of a cached bundle are written in four steps: the ciphertext is
\* there in part, whole, and then so is its metadata.
Complete == 4
Uncached == [bundle |-> NoBundle, stage |-> 0]

Idle == [pc |-> "idle", version |-> 0, bundle |-> NoBundle,
         answer |-> NoReceipt]

\* What the store's verification asks of the audit files and of the cache.
Verifies == ~ahead /\ \A v \in Versions : cache[v].stage \in {0, Complete}

Init ==
    /\ version = 1
    /\ reviewed = {}
    /\ cache = [v \in Versions |-> Uncached]
    /\ used = {}
    /\ approved = {}
    /\ ahead = FALSE
    /\ blocked = FALSE
    /\ holder = {}
    /\ call = [c \in Calls |-> Idle]
    /\ sent = {}
    /\ logged = [b \in Bundles |-> {}]
    /\ cut = {}
    /\ Delivery!Init
    /\ receipt = [b \in Bundles |-> NoReceipt]
-----------------------------------------------------------------------------
\* Somebody saves one of the records, or enrols the recipient anew, perhaps
\* as it was before.
Edit ==
    /\ holder = {}
    /\ ~blocked
    /\ version' \in Versions \ {version}
    /\ UNCHANGED <<reviewed, sent, logged, receiver, store, call>>

\* preview_bundle waits for the lock, so it never shows half a transaction.
Preview ==
    /\ holder = {}
    /\ version \notin reviewed
    /\ reviewed' = reviewed \cup {version}
    /\ UNCHANGED <<version, sent, logged, receiver, store, call>>

\* A transaction of something else fails, or a handler blocks the store.
StoreBlocks ==
    /\ ~blocked
    /\ blocked' = TRUE
    /\ ahead' \in IF holder = {} THEN {ahead, TRUE} ELSE {ahead}
    /\ UNCHANGED <<rest, cache, used, approved, cut, holder, call>>
-----------------------------------------------------------------------------
\* build_bundle gets past tx() and finds the records as they were reviewed.
\* Otherwise it raises and has changed nothing.
Admitted(c, v) ==
    /\ call[c] = Idle
    /\ holder = {}
    /\ ~blocked
    /\ v \in reviewed
    /\ v = version

\* Mutant: a second transaction does not wait for the first.
BeginBuild_Unlocked(c, v) ==
    /\ call[c] = Idle
    /\ ~blocked
    /\ v \in reviewed
    /\ v = version
    /\ cache[v].stage = 0
    /\ holder' = holder \cup {c}
    /\ call' = [call EXCEPT ![c].pc = "building", ![c].version = v]
    /\ UNCHANGED <<rest, build, blocked>>

\* Mutant: what was built before is built again.
BeginBuild_Afresh(c, v) ==
    /\ Admitted(c, v)
    /\ holder' = {c}
    /\ cache' = [cache EXCEPT ![v] = Uncached]
    /\ call' = [call EXCEPT ![c].pc = "building", ![c].version = v]
    /\ UNCHANGED <<rest, used, approved, ahead, cut, blocked>>

BeginBuild(c, v) ==
    /\ Admitted(c, v)
    /\ cache[v].stage = 0
    /\ holder' = {c}
    /\ call' = [call EXCEPT ![c].pc = "building", ![c].version = v]
    /\ UNCHANGED <<rest, build, blocked>>

\* Mutant: the cache is looked up without the store's lock.
UseCached_Unlocked(c, v) ==
    /\ call[c] = Idle
    /\ v \in reviewed
    /\ v = version
    /\ cache[v].stage = Complete
    /\ call' = [call EXCEPT ![c].pc = "ready", ![c].version = v,
                            ![c].bundle = cache[v].bundle]
    /\ UNCHANGED <<rest, store>>

\* The same review again: the transaction commits without an event.
UseCached(c, v) ==
    /\ Admitted(c, v)
    /\ cache[v].stage = Complete
    /\ call' = [call EXCEPT ![c].pc = "ready", ![c].version = v,
                            ![c].bundle = cache[v].bundle]
    /\ UNCHANGED <<rest, store>>

\* A new bundle gets its identifier, is signed and encrypted, and its
\* ciphertext file is created.
OpenCache(c, b) ==
    /\ call[c].pc = "building"
    /\ cache[call[c].version].stage = 0
    /\ Review[b] = call[c].version
    /\ b \notin used
    /\ used' = used \cup {b}
    /\ cache' = [cache EXCEPT ![Review[b]] = [bundle |-> b, stage |-> 1]]
    /\ call' = [call EXCEPT ![c].bundle = b]
    /\ UNCHANGED <<rest, approved, ahead, cut, blocked, holder>>

WriteCache(c) ==
    /\ call[c].pc = "building"
    /\ cache[call[c].version].stage \in 1..(Complete - 1)
    /\ cache' = [cache EXCEPT ![call[c].version].stage = @ + 1]
    /\ UNCHANGED <<rest, used, approved, ahead, cut, blocked, holder, call>>

\* The events transfer.approved and transfer.encrypted reach the audit files.
Announce(c) ==
    /\ call[c].pc = "building"
    /\ cache[call[c].version].stage = Complete
    /\ ahead' = TRUE
    /\ call' = [call EXCEPT ![c].pc = "announced"]
    /\ UNCHANGED <<rest, cache, used, approved, cut, blocked, holder>>

CommitBuild(c) ==
    /\ call[c].pc = "announced"
    /\ approved' = approved \cup {call[c].bundle}
    /\ ahead' = FALSE
    /\ holder' = {}
    /\ call' = [call EXCEPT ![c].pc = "ready"]
    /\ UNCHANGED <<rest, cache, used, cut, blocked>>

\* Bundles whose build ends now, before its commit, with the cache complete.
CutShort ==
    {cache[call[c].version].bundle :
        c \in {d \in holder : cache[call[d].version].stage = Complete}}

\* Mutant: the rollback is not followed by a verification.
BuildFails_Unverified(c) ==
    /\ call[c].pc \in {"building", "announced"}
    /\ cut' = cut \cup CutShort
    /\ holder' = {}
    /\ call' = [call EXCEPT ![c] = Idle]
    /\ UNCHANGED <<rest, cache, used, approved, ahead, blocked>>

\* An exception in the build: the transaction rolls back and verifies.  Files
\* already written stay, and so do events already announced.
BuildFails(c) ==
    /\ call[c].pc \in {"building", "announced"}
    /\ blocked' = (blocked \/ ~Verifies)
    /\ cut' = cut \cup CutShort
    /\ holder' = {}
    /\ call' = [call EXCEPT ![c] = Idle]
    /\ UNCHANGED <<rest, cache, used, approved, ahead>>

\* event() cannot write: it blocks the store, whatever reached the files.
EventFails(c) ==
    /\ call[c].pc = "building"
    /\ cache[call[c].version].stage = Complete
    /\ ahead' \in BOOLEAN
    /\ blocked' = TRUE
    /\ cut' = cut \cup CutShort
    /\ holder' = {}
    /\ call' = [call EXCEPT ![c] = Idle]
    /\ UNCHANGED <<rest, cache, used, approved>>

\* The sender's process dies and starts again.
Restart ==
    /\ blocked' = ~Verifies
    /\ cut' = cut \cup CutShort
    /\ holder' = {}
    /\ call' = [c \in Calls |-> Idle]
    /\ UNCHANGED <<rest, cache, used, approved, ahead>>
-----------------------------------------------------------------------------
\* A request ends with an event about its bundle.
Record(c, what) ==
    /\ holder = {}
    /\ ~blocked
    /\ logged' = [logged EXCEPT ![call[c].bundle] = @ \cup {what}]
    /\ call' = [call EXCEPT ![c] = Idle]

\* The encrypted file goes to the operator once transfer.exported is there.
Export(c) ==
    /\ call[c].pc = "ready"
    /\ Record(c, "exported")
    /\ sent' = sent \cup {call[c].bundle}
    /\ UNCHANGED <<version, reviewed, receiver, store>>

\* POST to /peer/inbox, outside any transaction.
Post(c) ==
    /\ call[c].pc = "ready"
    /\ sent' = sent \cup {call[c].bundle}
    /\ call' = [call EXCEPT ![c].pc = "posted"]
    /\ UNCHANGED <<version, reviewed, logged, receiver, store>>

\* The answer of the receiver arrives in time.
Answer(c) ==
    /\ call[c].pc = "posted"
    /\ call[c].answer = NoReceipt
    /\ receipt[call[c].bundle] # NoReceipt
    /\ call' = [call EXCEPT ![c].answer = receipt[call[c].bundle]]
    /\ UNCHANGED <<rest, store>>

\* validate_receipt: the counts and identifiers add up to the sent records.
Valid(a, b) ==
    LET ids == Delivery!Carried(b) IN
    /\ a.bundle = b
    /\ a.conflicts \subseteq ids
    /\ a.deferred \subseteq ids
    /\ a.conflicts \cap a.deferred = {}
    /\ \/ /\ a.status = "conflict"
          /\ a.imported = 0
          /\ a.conflicts # {}
          /\ a.duplicates + Cardinality(a.conflicts) + Cardinality(a.deferred)
                = Cardinality(ids)
       \/ /\ a.status = "imported"
          /\ a.conflicts = {}
          /\ a.deferred = {}
          /\ a.imported + a.duplicates = Cardinality(ids)

LogReceipt(c) ==
    /\ call[c].pc = "posted"
    /\ call[c].answer # NoReceipt
    /\ Valid(call[c].answer, call[c].bundle)
    /\ Record(c, call[c].answer.status)
    /\ UNCHANGED <<version, reviewed, sent, receiver, store>>

\* No answer, an error, or an answer that did not arrive whole.
LogUnconfirmed(c) ==
    /\ call[c].pc = "posted"
    /\ Record(c, "unconfirmed")
    /\ UNCHANGED <<version, reviewed, sent, receiver, store>>

\* The request ends with an exception and leaves no event.
GiveUp(c) ==
    /\ call[c].pc \in {"ready", "posted"}
    /\ call' = [call EXCEPT ![c] = Idle]
    /\ UNCHANGED <<rest, store>>
-----------------------------------------------------------------------------
\* The receiver answers a bundle it knows with the receipt it has.
ImportedReceipt(b) ==
    LET missing == {r \in Delivery!Carried(b) : local[r] = Delivery!Absent} IN
    [bundle |-> b, status |-> "imported", imported |-> Cardinality(missing),
     duplicates |-> Cardinality(Delivery!Carried(b)) - Cardinality(missing),
     conflicts |-> {}, deferred |-> {}]

ConflictReceipt(b) ==
    LET missing == {r \in Delivery!Carried(b) : local[r] = Delivery!Absent} IN
    [bundle |-> b, status |-> "conflict", imported |-> 0,
     duplicates |-> Cardinality(Delivery!Carried(b) \
                                (Delivery!Conflicts(b) \cup missing)),
     conflicts |-> Delivery!Conflicts(b), deferred |-> missing]

\* Mutant: the deferred records are forgotten in the count.
AcceptedReceipt_NoDeferred(a) ==
    [bundle |-> a.bundle, status |-> "imported",
     imported |-> Cardinality(a.conflicts),
     duplicates |-> a.duplicates, conflicts |-> {}, deferred |-> {}]

AcceptedReceipt(a) ==
    [bundle |-> a.bundle, status |-> "imported",
     imported |-> Cardinality(a.conflicts) + Cardinality(a.deferred),
     duplicates |-> a.duplicates, conflicts |-> {}, deferred |-> {}]

sender == <<version, reviewed, sent, logged, store, call>>

Receive(b) ==
    /\ b \in sent
    /\ \/ /\ Delivery!Import(b)
          /\ receipt' = [receipt EXCEPT ![b] = ImportedReceipt(b)]
       \/ /\ Delivery!HoldForReview(b)
          /\ receipt' = [receipt EXCEPT ![b] = ConflictReceipt(b)]
    /\ UNCHANGED sender

Accept(b) ==
    /\ Delivery!Accept(b)
    /\ receipt' = [receipt EXCEPT ![b] = AcceptedReceipt(@)]
    /\ UNCHANGED sender

\* Mutant: any decision turns the receipt into one of an import.
KeepLocal_AsImported(b) ==
    /\ Delivery!KeepLocal(b)
    /\ receipt' = [receipt EXCEPT ![b] = AcceptedReceipt(@)]
    /\ UNCHANGED sender

KeepLocal(b) ==
    /\ Delivery!KeepLocal(b)
    /\ UNCHANGED <<receipt, sender>>
-----------------------------------------------------------------------------
\* A request to export or send the bundle of a review.
Request(c) ==
    \/ \E v \in Versions : BeginBuild(c, v) \/ UseCached(c, v)
    \/ \E b \in Bundles : OpenCache(c, b)
    \/ WriteCache(c)
    \/ Announce(c)
    \/ CommitBuild(c)
    \/ BuildFails(c)
    \/ EventFails(c)
    \/ Export(c)
    \/ Post(c)
    \/ Answer(c)
    \/ LogReceipt(c)
    \/ LogUnconfirmed(c)
    \/ GiveUp(c)

Sender ==
    \/ Edit
    \/ Preview
    \/ StoreBlocks
    \/ Restart
    \/ \E c \in Calls : Request(c)

Receiver == \E b \in Bundles : Receive(b) \/ Accept(b) \/ KeepLocal(b)

Next == Sender \/ Receiver

Spec == Init /\ [][Next]_vars
-----------------------------------------------------------------------------
Receipts ==
    [bundle : Bundles, status : {"imported", "conflict"}, imported : Nat,
     duplicates : Nat, conflicts : SUBSET Records, deferred : SUBSET Records]

CallRecord ==
    [pc : {"idle", "building", "announced", "ready", "posted"},
     version : Versions \cup {0}, bundle : Bundles \cup {NoBundle},
     answer : Receipts \cup {NoReceipt}]

\* Every variable keeps its shape, and one transaction is open at a time.
TypeOK ==
    /\ version \in Versions
    /\ reviewed \subseteq Versions
    /\ cache \in [Versions -> [bundle : Bundles \cup {NoBundle},
                               stage : 0..Complete]]
    /\ used \subseteq Bundles
    /\ approved \subseteq Bundles
    /\ ahead \in BOOLEAN
    /\ blocked \in BOOLEAN
    /\ holder = {} \/ \E c \in Calls : holder = {c}
    /\ call \in [Calls -> CallRecord]
    /\ sent \subseteq Bundles
    /\ logged \in [Bundles ->
            SUBSET {"exported", "unconfirmed", "imported", "conflict"}]
    /\ cut \subseteq Bundles
    /\ local \in [Records -> [source : Nat, revision : Nat]]
    /\ outcome \in [Bundles -> Delivery!Outcomes]
    /\ receipt \in [Bundles -> Receipts \cup {NoReceipt}]

\* Whatever was lost, repeated or interrupted, one review leaves the host as
\* one bundle: a retry is the same bundle, which the receiver recognises
\* (build_bundle's cache, written before the commit and never rewritten).
OneBundlePerReview ==
    \A a, b \in sent : Review[a] = Review[b] => a = b

\* What leaves the host has a committed approval in the audit trail, or comes
\* from a build that was cut short after its cache was complete: the retry
\* takes the cached bundle and announces nothing.
SentIsApproved == sent \subseteq approved \cup cut

\* A store that accepts the next build has no half-written cache and no event
\* that was announced but not committed.
ReadyMeansWhole == ~blocked /\ holder = {} => Verifies

\* The receiver's receipts, also of a resolved conflict, satisfy the sender.
ReceiptsValidate ==
    \A b \in Bundles : receipt[b] # NoReceipt => Valid(receipt[b], b)

\* What the sender's audit trail says of a bundle is what became of it,
\* however late the answer was logged.
LoggedIsTrue ==
    \A b \in Bundles :
        /\ "imported" \in logged[b] => outcome[b] = "imported"
        /\ "conflict" \in logged[b] =>
                outcome[b] \in {"review", "imported", "kept"}
=============================================================================
