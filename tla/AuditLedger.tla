---------------------------- MODULE AuditLedger ----------------------------
(***************************************************************************)
(* What the private store promises to whoever reads its audit trail:       *)
(* nothing is committed that the trail did not show first, a committed     *)
(* entry is never withdrawn, records change only together with the entry   *)
(* that announces them, a trail that shows more than was committed freezes *)
(* the store until it is settled, and a fault that is reported while a     *)
(* transaction is under way freezes it with the end of that transaction.   *)
(* AuditStore implements this with two append-only files and one SQLite    *)
(* database.                                                               *)
(***************************************************************************)
EXTENDS Naturals, SequencesExt

CONSTANTS Records,  \* the records whose revisions the ledger announces
          Notes,    \* entries that announce no record change
          Torn      \* a line that is no complete entry

VARIABLES shown,    \* the entries a reader of audit.jsonl finds
          ledger,   \* the committed entries
          revs,     \* the committed revision count of each record
          mode      \* open, closing (a fault was reported) or frozen

vars == <<shown, ledger, revs, mode>>

\* The revisions that a run of entries accounts for.
Tally(entries) ==
    [r \in Records |->
        Cardinality({i \in 1..Len(entries) : entries[i].subject = r})]

\* One more line has been written to the trail.
ShowsOneMore == Len(shown') = Len(shown) + 1 /\ IsPrefix(shown, shown')

Init ==
    /\ shown = <<>>
    /\ ledger = <<>>
    /\ revs = [r \in Records |-> 0]
    /\ mode = "frozen"

Announce ==
    /\ mode # "frozen"
    /\ ShowsOneMore
    /\ UNCHANGED <<ledger, revs, mode>>

\* What was announced is committed; a ledger that was closing freezes with it.
Settle ==
    /\ mode # "frozen"
    /\ ledger' = shown
    /\ revs' = Tally(shown)
    /\ mode' = IF mode = "closing" THEN "frozen" ELSE mode
    /\ UNCHANGED shown

\* A fault is reported; only the transaction that is under way may go on.
Close ==
    /\ mode = "open"
    /\ mode' = "closing"
    /\ UNCHANGED <<shown, ledger, revs>>

\* A crash or a failure; the line being written may have reached the disk.
Freeze ==
    /\ mode # "frozen"
    /\ mode' = "frozen"
    /\ shown' = shown \/ ShowsOneMore
    /\ UNCHANGED <<ledger, revs>>

\* The store is opened again.
Thaw ==
    /\ mode = "frozen"
    /\ shown = ledger
    /\ mode' = "open"
    /\ UNCHANGED <<shown, ledger, revs>>

\* Exactly one uncommitted entry is adopted, and only one that announces no
\* record change: a lost record change cannot be reconstructed.
Recover ==
    /\ mode = "frozen"
    /\ Len(shown) = Len(ledger) + 1
    /\ IsPrefix(ledger, shown)
    /\ Last(shown) # Torn
    /\ Last(shown).subject \in Notes
    /\ ledger' = shown
    /\ mode' = "open"
    /\ UNCHANGED <<shown, revs>>

Next == Announce \/ Settle \/ Close \/ Freeze \/ Thaw \/ Recover

Spec == Init /\ [][Next]_vars
=============================================================================
