----------------------------- MODULE MCService ------------------------------
(* Small instances for the refinement. *)
EXTENDS MCBackend, BackendService

\* Procedures that meet on the names of one directory.
RaceOps ==
  {"MNT", "UMNT", "LOOKUP", "CREATE", "WRITE", "SETATTR", "REMOVE", "RENAME"}

TwoThreads == Permutations(Threads)
=============================================================================
