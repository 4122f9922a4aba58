----------------------------- MODULE MCStartup ------------------------------
(* Instances of Startup: each server has a port of its own. *)
EXTENDS Startup

OwnPort(s) == IF s = CHOOSE t \in Servers : TRUE THEN 1 ELSE 2

\* checkReplyForErr takes all but "Success" for an error: one of them will do,
\* and a connection that ends, before rpcbind does what it was asked or after.
SomeReplies == {"Success", "SystemErr", "closed"}
=============================================================================
