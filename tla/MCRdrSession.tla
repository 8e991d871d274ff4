---------------------------- MODULE MCRdrSession ----------------------------
(***************************************************************************)
(* RdrSession for TLC: three windows of two clients, and a file.           *)
(***************************************************************************)
EXTENDS RdrSession

CONSTANTS a, b

OwnerOf == [w \in Wins |-> IF w = 4 THEN b ELSE a]
=============================================================================
