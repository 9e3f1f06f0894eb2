------------------------- MODULE MCTransferExchange -------------------------
\* A finding and its lead.  The finding is revised after the first review, and
\* the second selection adds the lead; the first review could get two bundles.  Enrolling the
\* recipient as it was brings the first review back.
EXTENDS TransferExchange, TLC

CONSTANTS finding, lead

MCRecords == {finding, lead}
MCVersions == 1..2
MCBundles == {<<1, "a">>, <<1, "b">>, <<2, "a">>}
MCReview == [b \in MCBundles |-> b[1]]
MCCarries ==
    [b \in MCBundles |->
        finding :> b[1] @@ lead :> (IF b[1] = 1 THEN 0 ELSE 1)]
Symmetry == Permutations(Calls)
=============================================================================
