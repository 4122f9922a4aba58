--------------------------- MODULE BackendService ---------------------------
(***************************************************************************)
(* The backend implements ExportService: what a client sees of a call is   *)
(* its procedure, whether it had its effect, and the status once the       *)
(* handler is done with it.                                                *)
(***************************************************************************)
EXTENDS Backend

Seen(t) ==
  [op |-> t.op, did |-> t.did,
   st |-> IF t.pc # "reply" THEN "none"
          ELSE IF t.st = "OK" THEN "OK" ELSE "error"]

Service == INSTANCE ExportService WITH call <- [g \in Threads |-> Seen(thread[g])]

\* The handlers with all their steps, failing system calls and races, do what
\* ExportService allows: a call has at most one effect, never after its status
\* is decided, never without write access, and its status tells of it.
Implements == Service!Spec
=============================================================================
