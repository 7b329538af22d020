----------------------------- MODULE MCFilesTab -----------------------------
(* A small Files tab for TLC. *)
EXTENDS FilesTab

CONSTANTS d1, d2

\* d1, which holds the file, is in d2, which is a root.
MCParent == [d \in Dirs |-> IF d = d1 THEN d2 ELSE NoPath]

\* Bounds: the last change is made while the tab is on the file it was opened
\* on, the one before while it has not both moved and lost its connection.
LastChanges ==
  /\ version = MaxVersion =>
       view = "browser" /\ history = <<>> /\ losses = 0 /\ trash = {}
  /\ version = MaxVersion - 1 => history = <<>> \/ losses = 0
=============================================================================
