------------------------------ MODULE OpenTabs ------------------------------
(***************************************************************************)
(* What the workbench promises about its tabs, whatever panes they are in. *)
(* Tabs are opened and closed only on request; until then a tab is never   *)
(* lost, duplicated or changed behind the user's back, however it is       *)
(* moved, split or focused.  Closing asks the daemon to close exactly the  *)
(* terminal sessions that no other tab shows; detaching asks for none.     *)
(* Workbench implements it (Workbench!OpenTabsSpec).                       *)
(***************************************************************************)
CONSTANTS TabIds,    \* the ids of tabs
          Sessions,  \* the ids of terminal sessions
          None       \* no tab, no session

VARIABLES tabs,   \* the data of each tab, None for an id no tab has
          asked   \* the sessions the last step asked the daemon to close

vars == <<tabs, asked>>

Data == [tool : {"files", "terminal"}, dirty : BOOLEAN,
         session : Sessions \cup {None}]

Opened == {t \in TabIds : tabs[t] # None}

\* The sessions that the tabs S show.
Shown(S) == {s \in Sessions :
               \E t \in S : tabs[t].tool = "terminal" /\ tabs[t].session = s}

-----------------------------------------------------------------------------
Init ==
  /\ asked = {}
  /\ \E t \in TabIds, d \in Data :
       /\ ~d.dirty
       /\ tabs = [u \in TabIds |-> IF u = t THEN d ELSE None]

\* t is an id no tab has.
Open(t, d) ==
  /\ ~d.dirty
  /\ asked' = {}
  /\ tabs' = [tabs EXCEPT ![t] = d]

Without(S) == [t \in TabIds |-> IF t \in S THEN None ELSE tabs[t]]

Close(S) ==
  /\ S # {}
  /\ Opened \ S # {}
  /\ tabs' = Without(S)
  /\ asked' = Shown(S) \ Shown(Opened \ S)

Detach(t) ==
  /\ tabs[t].tool = "terminal"
  /\ Opened # {t}
  /\ asked' = {}
  /\ tabs' = Without({t})

\* The last tab makes room for u when it is detached.
Replace(t, u, d) ==
  /\ tabs[t].tool = "terminal"
  /\ Opened = {t}
  /\ ~d.dirty
  /\ asked' = {}
  /\ tabs' = [Without({t}) EXCEPT ![u] = d]

SetDirty(t, dirty) ==
  /\ tabs[t].tool = "files"
  /\ asked' = {}
  /\ tabs' = [tabs EXCEPT ![t].dirty = dirty]

SetSession(t, s) ==
  /\ tabs[t].tool = "terminal"
  /\ asked' = {}
  /\ tabs' = [tabs EXCEPT ![t].session = s]

\* Selecting, focusing, moving and splitting: the tabs stay as they are.
Rearrange ==
  /\ asked' = {}
  /\ tabs' = tabs

Next ==
  \/ Rearrange
  \/ \E t \in Opened :
       \/ Detach(t)
       \/ \E dirty \in BOOLEAN : SetDirty(t, dirty)
       \/ \E s \in Sessions \cup {None} : SetSession(t, s)
       \/ \E u \in TabIds \ Opened, d \in Data : Replace(t, u, d)
  \/ \E S \in SUBSET Opened : Close(S)
  \/ \E t \in TabIds \ Opened, d \in Data : Open(t, d)

Spec == Init /\ [][Next]_vars
=============================================================================
