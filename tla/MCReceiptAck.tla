---------------------------- MODULE MCReceiptAck ----------------------------
\* Two receipts, one record and one note written by the server between commands.
EXTENDS ReceiptAck

CONSTANTS r1, n1, k1, k2

MCRecords == {r1}
MCReceipts == {k1, k2}
MCNotes == AckNotes \cup {n1}
Symmetry == Permutations(MCReceipts)
=============================================================================
