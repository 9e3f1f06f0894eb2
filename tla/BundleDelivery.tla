--------------------------- MODULE BundleDelivery ---------------------------
(***************************************************************************)
(* What a receiving host promises about signed bundles: however often a    *)
(* bundle is delivered it takes effect at most once and as a whole.  It    *)
(* adds what is missing, or, when something of it differs from a record    *)
(* kept here, changes nothing until a reviewer accepts it or keeps the     *)
(* local records.  BundleImport implements this with a transaction per     *)
(* step, evidence files outside the database, and calls that may fail.     *)
(***************************************************************************)
EXTENDS Naturals

CONSTANTS Records,  \* record identifiers
          Bundles,  \* bundle identifiers
          Carries   \* the source revision of each record a bundle carries, or 0

VARIABLES local,    \* per record its source revision and its local revision
          outcome   \* what became of each bundle

vars == <<local, outcome>>

Outcomes == {"none", "imported", "review", "kept"}

Absent == [source |-> 0, revision |-> 0]

Carried(b) == {r \in Records : Carries[b][r] > 0}

\* Records kept here at another source revision than the bundle carries.
Conflicts(b) ==
    {r \in Carried(b) : local[r] # Absent /\ local[r].source # Carries[b][r]}

\* The records once every carried revision is in force.
Received(b) ==
    [r \in Records |->
        IF r \in Carried(b) /\ local[r].source # Carries[b][r]
        THEN [source |-> Carries[b][r], revision |-> local[r].revision + 1]
        ELSE local[r]]

Init ==
    /\ local = [r \in Records |-> Absent]
    /\ outcome = [b \in Bundles |-> "none"]

Import(b) ==
    /\ outcome[b] = "none"
    /\ Conflicts(b) = {}
    /\ local' = Received(b)
    /\ outcome' = [outcome EXCEPT ![b] = "imported"]

HoldForReview(b) ==
    /\ outcome[b] = "none"
    /\ Conflicts(b) # {}
    /\ outcome' = [outcome EXCEPT ![b] = "review"]
    /\ UNCHANGED local

Accept(b) ==
    /\ outcome[b] = "review"
    /\ local' = Received(b)
    /\ outcome' = [outcome EXCEPT ![b] = "imported"]

KeepLocal(b) ==
    /\ outcome[b] = "review"
    /\ outcome' = [outcome EXCEPT ![b] = "kept"]
    /\ UNCHANGED local

Next ==
    \E b \in Bundles :
        Import(b) \/ HoldForReview(b) \/ Accept(b) \/ KeepLocal(b)

Spec == Init /\ [][Next]_vars
=============================================================================
