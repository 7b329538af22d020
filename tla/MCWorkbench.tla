----------------------------- MODULE MCWorkbench -----------------------------
(* A small workbench for TLC. *)
EXTENDS Workbench, TLC

\* Ids are only compared.
MCSymmetry ==
  Permutations(PaneIds) \cup Permutations(TabIds)
=============================================================================
