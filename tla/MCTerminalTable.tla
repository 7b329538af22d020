--------------------------- MODULE MCTerminalTable ---------------------------
(***************************************************************************)
(* Values of TerminalTable's constants for TLC.                            *)
(***************************************************************************)
EXTENDS TerminalTable, TLC

\* Worker threads are interchangeable.
Symmetry == Permutations(Worker)
=============================================================================
