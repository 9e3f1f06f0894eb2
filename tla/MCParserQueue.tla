--------------------------- MODULE MCParserQueue ---------------------------
\* Two parses: one may be left behind while the other is handed over.
EXTENDS ParserQueue

CONSTANTS j1, j2

MCJobs == {j1, j2}
Symmetry == Permutations(MCJobs)
=============================================================================
