---------------------------- MODULE MCRdrServer ----------------------------
(***************************************************************************)
(* RdrServer for TLC: the sets are given in the .cfg files as model        *)
(* values, and these definitions say which of them may be permuted.        *)
(***************************************************************************)
EXTENDS RdrServer, TLC

\* Endpoints are interchangeable, and so are names; clients are, within a kind.
Symmetry == Permutations(Endpoints) \cup Permutations(Names)
            \cup Permutations(Clients \ WSClients)
=============================================================================
