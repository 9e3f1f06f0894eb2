---------------------------- MODULE MCAuditStore ----------------------------
\* A small store for TLC: two records, two kinds of notes, one file pair.
EXTENDS AuditStore

CONSTANTS r1, r2, n1, n2

MCRecords == {r1, r2}
MCNotes == {n1, n2}
Symmetry == Permutations(MCRecords) \cup Permutations(MCNotes)
=============================================================================
