----------------------------- MODULE MCEditFile -----------------------------
(***************************************************************************)
(* EditFile for TLC: two processes with a window each, and a name that     *)
(* does not exist yet.                                                     *)
(***************************************************************************)
EXTENDS EditFile

CONSTANTS p1, p2, w1, w2, f1

MCOwner == [w \in Windows |-> IF w = w2 THEN p2 ELSE p1]
MCMode == [x \in Procs |-> IF x = p1 THEN "backup" ELSE "quick"]
MCBudget == [w \in Windows |-> IF w = w2 THEN 3 ELSE 2]
MCFirstFile == [w \in Windows |-> NoName]
=============================================================================
