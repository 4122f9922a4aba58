----------------------------- MODULE MCDirScan ------------------------------
(* Small directories: entries of one and of two units. *)
EXTENDS DirScan, TLC

CONSTANTS a, b, c, d, dot, dotdot

DotPair == <<dot, dotdot>>
ThreeEntries == <<a, b, c>>
Sizes == [x \in {a, b, c, d, dot, dotdot} |-> IF x \in {b, dotdot} THEN 2 ELSE 1]
=============================================================================
