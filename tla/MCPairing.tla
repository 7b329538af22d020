------------------------------ MODULE MCPairing ------------------------------
(***************************************************************************)
(* Values of Pairing's constants for TLC.                                  *)
(***************************************************************************)
EXTENDS Pairing, TLC

\* RPC sessions, keys and tasks are interchangeable among themselves.
Symmetry == Permutations(Rpc) \cup Permutations(Key) \cup Permutations(Task)
=============================================================================
