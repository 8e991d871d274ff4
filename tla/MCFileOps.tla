----------------------------- MODULE MCFileOps -----------------------------
(***************************************************************************)
(* FileOps for TLC: two failures alone, or one of each.                    *)
(***************************************************************************)
EXTENDS FileOps

MCBudgets == {[faults |-> 2, presses |-> 0, others |-> 0],
              [faults |-> 1, presses |-> 1, others |-> 1]}
=============================================================================
