-------------------------- MODULE MCBackupRestore --------------------------
(***************************************************************************)
(* An instance of BackupRestore for TLC: an upload and a conflict bundle.  *)
(* Once a backup is published its workspace has no part in what happens to *)
(* it, so the writer is stopped then, and one piece is bad at a time.      *)
(***************************************************************************)
EXTENDS BackupRestore, FiniteSets

OneBadPiece == Cardinality(spoiled) <= 1

WriterStops ==
    /\ published # NoBackup /\ workspace' # workspace => writer'.pc = "down"
    /\ restore'.pc # "idle" => writer.pc = "down"
=============================================================================
