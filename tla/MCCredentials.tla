---------------------------- MODULE MCCredentials ----------------------------
(***************************************************************************)
(* Values of Credentials' constants for TLC.                               *)
(***************************************************************************)
EXTENDS Credentials, TLC

\* Tasks are interchangeable.
Symmetry == Permutations(Task)

Renewing(t) == task[t].at \in Writing /\ task[t].op = "renew"
Authenticating(t) == task[t].at \in {"verify", "admit"}

\* Bound: of the calls under way one renews and one authenticates at most; any
\* number of them pair.
OneOfEach ==
    \A t, u \in Task :
        \/ Renewing(t) /\ Renewing(u)
        \/ Authenticating(t) /\ Authenticating(u)
        => t = u
=============================================================================
