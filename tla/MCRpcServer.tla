---------------------------- MODULE MCRpcServer -----------------------------
(* The table of main.go, with the procedures that differ for the codec. *)
EXTENDS RpcServer

Null == "Nfsproc3_null_3_svc"
Getattr == "Nfsproc3_getattr_3_svc"
Mnt == "Mountproc_mnt_3_svc"
Dump == "Mountproc_dump_3_svc"

Served ==
  <<[program |-> 100003, version |-> 3, procs |-> <<Null, Getattr>>],
    [program |-> 100005, version |-> 3, procs |-> <<Mnt, Dump>>]>>
WithArgs == {Getattr, Mnt}
WithHandle == {Getattr}
NilResult == {Dump}

\* A header with everything right, and what can be wrong with it.
Header(p, proc, args) ==
  [rpcvers |-> 2, flavor |-> "AuthSys", program |-> p, version |-> 3,
   procedure |-> proc, args |-> args]

AllHeaders ==
  {Header(100003, 0, "good"), Header(100003, 1, "good"),
   Header(100003, 1, "garbage"), Header(100003, 0, "garbage"),
   Header(100003, 2, "good"), Header(100005, 0, "good"),
   Header(100005, 0, "garbage"), Header(100005, 1, "good"),
   Header(100004, 0, "good"),
   [Header(100003, 1, "good") EXCEPT !.version = 4],
   [Header(100005, 0, "good") EXCEPT !.version = 1],
   [Header(100003, 0, "good") EXCEPT !.rpcvers = 3],
   [Header(100005, 0, "good") EXCEPT !.flavor = "AuthDh"]}
=============================================================================
