------------------------- MODULE MCUploadLifecycle -------------------------
\* One ordinary file; envelopes of one source: an observation, the same
\* observation in another envelope, and that envelope with another one.
EXTENDS UploadLifecycle, TLC

CONSTANTS note, broker

Envelope(e, o) == [source |-> broker, envelope |-> e, observation |-> o, body |-> o]

MCEnvelopes == {Envelope(1, 1), Envelope(2, 1), Envelope(2, 2)}
Symmetry == Permutations(Uploads) \cup Permutations(Parsers)
=============================================================================
