----------------------------- MODULE MCRestart ------------------------------
(***************************************************************************)
(* The backend with a history of the handles it gave in earlier lives, for *)
(* what the README says of handles after a crash or a reboot.              *)
(***************************************************************************)
EXTENDS MCBackend

VARIABLE past   \* the handles the table held when the server went down

RestartSpec ==
  /\ Init /\ past = {}
  /\ [][ \/ Restart /\ past' = past \cup DOMAIN fhandleMap
         \/ Work /\ past' = past ]_<<vars, past>>

\* README, "Server would return ESTALE for old fileHandles after a
\* crash/reboot": a call on a handle of an earlier life answers STALE.
OldHandlesStale ==
  \A g \in Threads : Replying(g) /\ thread[g].fh \in past
                       => thread[g].st = "STALE"
=============================================================================
