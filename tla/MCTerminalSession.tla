------------------------- MODULE MCTerminalSession --------------------------
(***************************************************************************)
(* Values of TerminalSession's constants for TLC.                          *)
(***************************************************************************)
EXTENDS TerminalSession, TLC

CONSTANTS h1, h2

\* A client that attaches and takes control, and never closes.
Viewer == h1 :> {"attach", "take_control"}

\* Attaching, taking control and writing race with a close.
CloseRace ==
    h1 :> {"attach", "take_control", "write_input"} @@ h2 :> {"close_session"}

\* Bound: the wait for a child that runs does not fail.
WaitSucceeds == child # "unwaited"
=============================================================================
