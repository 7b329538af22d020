------------------------------ MODULE Workbench ------------------------------
(***************************************************************************)
(* The workbench of one machine in one browser window: its panes, their    *)
(* tabs, the history a pane falls back on when its active tab goes, the    *)
(* layout's leaves, and the dialog that asks before unsaved changes are    *)
(* closed (web/src/state/workbench.ts, pane-layout/pane-view.tsx).         *)
(*                                                                         *)
(* The order of panes and of tabs is left out: where the code takes the    *)
(* first one, the model takes any.  An id of a tab or pane that is gone    *)
(* stands for the next random one.  "files" stands for every tool but the  *)
(* terminal.  A leaf of the layout is the id of the pane it shows.  While  *)
(* the dialog is open its backdrop keeps the pointer from everything else, *)
(* and only what runs without the user still happens.                      *)
(***************************************************************************)
CONSTANTS PaneIds,   \* ids of panes
          TabIds,    \* ids of tabs
          Sessions,  \* ids of terminal sessions
          None       \* no tab, no session, no dialog (undefined in the code)

VARIABLES
  panes,       \* the ids of state.panes
  tabsOf,      \* the ids of each pane's tabs
  activeTab,   \* each pane's activeTabId
  activePane,  \* activePaneId
  data,        \* each tab's tool, dirty and terminalSessionId
  previous,    \* each tab's previousActiveTabId
  layout,      \* the panes that have a leaf in the layout
  dialog,      \* pendingCloseRequest: a pane, and one of its tabs or None
  asked        \* the sessions the last action asked the daemon to close

vars == <<panes, tabsOf, activeTab, activePane, data, previous, layout,
          dialog, asked>>

Tools == {"files", "terminal"}
Data == [tool : Tools, dirty : BOOLEAN, session : Sessions \cup {None}]
Requests == [pane : PaneIds, tab : TabIds \cup {None}]

ASSUME NoneIsNothing ==
  /\ None \notin PaneIds \cup TabIds \cup Sessions
  /\ None \notin Data
  /\ None \notin Requests

Present == UNION {tabsOf[p] : p \in panes}

\* createFilesTab, createTerminalTab, createWorkbenchTab
NewTab(tool, s) == [tool |-> tool, dirty |-> FALSE, session |-> s]

\* cloneWorkbenchTab: a clone of a terminal starts a session of its own.
cloneWorkbenchTab(d) ==
  IF d.tool = "terminal" THEN NewTab("terminal", None)
                         ELSE [d EXCEPT !.dirty = FALSE]

Cleared(f, S) == [t \in TabIds |-> IF t \in S THEN None ELSE f[t]]

\* Mutant: the history is taken over as it is.
HistoryTakenOver(tabs, prev) == prev

\* normalizePaneTabHistory: a tab remembers only another tab of its pane.
normalizePaneTabHistory(tabs, prev) ==
  Cleared(prev, {t \in tabs : prev[t] \notin tabs \ {t}})

\* The history once t becomes active in a pane that has tabs.
ActivatedHistory(tabs, active, t, prev) ==
  normalizePaneTabHistory(tabs,
    IF active = t THEN prev
    ELSE [prev EXCEPT ![t] = IF active \in tabs THEN active ELSE None])

activatePaneTab(p, tabs, t, prev) ==
  /\ activeTab' = [activeTab EXCEPT ![p] = t]
  /\ previous' = ActivatedHistory(tabs, activeTab[p], t, prev)

\* fallbackActiveTabId: where a pane goes when t leaves it.
fallbackActiveTabId(t, tabs) ==
  IF previous[t] \in tabs THEN {previous[t]} ELSE tabs

\* The active tab of p once t has left it and tabs stay.
ActiveWithout(p, t, tabs) ==
  IF activeTab[p] = t THEN fallbackActiveTabId(t, tabs) ELSE {activeTab[p]}

-----------------------------------------------------------------------------
Init ==
  /\ \E p \in PaneIds, t \in TabIds :
       /\ panes = {p}
       /\ layout = {p}
       /\ activePane = p
       /\ tabsOf = [q \in PaneIds |-> IF q = p THEN {t} ELSE {}]
       /\ activeTab = [q \in PaneIds |-> IF q = p THEN t ELSE None]
       /\ data = [u \in TabIds |-> IF u = t THEN NewTab("files", None)
                                            ELSE None]
  /\ previous = [t \in TabIds |-> None]
  /\ dialog = None
  /\ asked = {}

-----------------------------------------------------------------------------
(* Opening tabs *)

openTabInPane(p, u, d) ==
  /\ u \notin Present
  /\ activePane' = p
  /\ tabsOf' = [tabsOf EXCEPT ![p] = @ \cup {u}]
  /\ data' = [data EXCEPT ![u] = d]
  /\ activatePaneTab(p, tabsOf[p] \cup {u}, u, previous)
  /\ asked' = {}
  /\ UNCHANGED <<panes, layout, dialog>>

\* addFilesTab, addTerminalTab and the other tools' of a pane's own menu
AddTab(p, u) ==
  /\ dialog = None
  /\ p \in panes
  /\ \E tool \in Tools : openTabInPane(p, u, NewTab(tool, None))

\* openFilesTab, and openTerminalTab, which the list of the daemon's
\* sessions calls with a session that other tabs may be showing
OpenTabInActivePane(u) ==
  /\ dialog = None
  /\ \/ openTabInPane(activePane, u, NewTab("files", None))
     \/ \E s \in Sessions \cup {None} :
          openTabInPane(activePane, u, NewTab("terminal", s))

selectTool(tool, u) ==
  LET existing == {t \in tabsOf[activePane] : data[t].tool = tool}
  IN /\ dialog = None
     /\ \/ /\ existing = {}
           /\ openTabInPane(activePane, u, NewTab(tool, None))
        \/ /\ \E t \in existing :
                activatePaneTab(activePane, tabsOf[activePane], t, previous)
           /\ asked' = {}
           /\ UNCHANGED <<panes, tabsOf, activePane, data, layout, dialog>>

duplicateTab(p, t, u) ==
  /\ dialog = None
  /\ t \in tabsOf[p]
  /\ openTabInPane(p, u, cloneWorkbenchTab(data[t]))

\* addPane and the layout's split: the new pane shows a clone of the active tab.
splitPane(p, q, u) ==
  /\ dialog = None
  /\ p \in panes
  /\ q \notin panes
  /\ u \notin Present
  /\ panes' = panes \cup {q}
  /\ layout' = layout \cup {q}
  /\ activePane' = q
  /\ tabsOf' = [tabsOf EXCEPT ![q] = {u}]
  /\ activeTab' = [activeTab EXCEPT ![q] = u]
  /\ data' = [data EXCEPT ![u] = cloneWorkbenchTab(data[activeTab[p]])]
  /\ asked' = {}
  /\ previous' = Cleared(previous, {u})
  /\ UNCHANGED dialog

-----------------------------------------------------------------------------
(* Focus *)

focusPane(p) ==
  /\ dialog = None
  /\ p \in panes
  /\ activePane' = p
  /\ asked' = {}
  /\ UNCHANGED <<panes, tabsOf, activeTab, data, previous, layout, dialog>>

selectTab(p, t) ==
  /\ dialog = None
  /\ t \in tabsOf[p]
  /\ activePane' = p
  /\ activatePaneTab(p, tabsOf[p], t, previous)
  /\ asked' = {}
  /\ UNCHANGED <<panes, tabsOf, data, layout, dialog>>

-----------------------------------------------------------------------------
(* Closing *)

SessionsOf(S) ==
  {s \in Sessions :
     \E t \in S : data[t].tool = "terminal" /\ data[t].session = s}

\* Mutant: sessions that other tabs show are closed too.
ClosesSharedSessions(S) == asked' = SessionsOf(S)

closeTerminalSessions(S) == asked' = SessionsOf(S) \ SessionsOf(Present \ S)

\* closeTab in a pane with other tabs
closeTab(p, t) ==
  LET tabs == tabsOf[p] \ {t}
  IN /\ tabsOf' = [tabsOf EXCEPT ![p] = tabs]
     /\ \E active \in ActiveWithout(p, t, tabs) :
          activeTab' = [activeTab EXCEPT ![p] = active]
     /\ data' = Cleared(data, {t})
     /\ previous' = normalizePaneTabHistory(tabs, Cleared(previous, {t}))
     /\ UNCHANGED <<panes, activePane, layout>>

\* removePane and the layout's removePane
RemovePane(p) ==
  /\ panes' = panes \ {p}
  /\ layout' = layout \ {p}
  /\ activePane' \in IF activePane = p THEN panes \ {p} ELSE {activePane}
  /\ tabsOf' = [tabsOf EXCEPT ![p] = {}]
  /\ activeTab' = [activeTab EXCEPT ![p] = None]
  /\ data' = Cleared(data, tabsOf[p])
  /\ previous' = Cleared(previous, tabsOf[p])

performClosePane(p) ==
  /\ panes # {p}
  /\ closeTerminalSessions(tabsOf[p])
  /\ RemovePane(p)

performCloseWorkbenchTab(p, t) ==
  \/ /\ tabsOf[p] # {t}
     /\ closeTerminalSessions({t})
     /\ closeTab(p, t)
  \/ /\ tabsOf[p] = {t}
     /\ performClosePane(p)

\* Mutant: only the tabs in view are looked at.
DirtyInView(S) == {t \in S : data[t].dirty /\ \E p \in panes : activeTab[p] = t}

Dirty(S) == {t \in S : data[t].dirty}

\* The dialog opens and everything else waits for the answer.
AskFirst(p, t) ==
  /\ dialog' = [pane |-> p, tab |-> t]
  /\ asked' = {}
  /\ UNCHANGED <<panes, tabsOf, activeTab, activePane, data, previous, layout>>

requestClosePane(p) ==
  /\ dialog = None
  /\ p \in panes
  /\ panes # {p}
  /\ \/ /\ Dirty(tabsOf[p]) # {}
        /\ AskFirst(p, None)
     \/ /\ Dirty(tabsOf[p]) = {}
        /\ performClosePane(p)
        /\ UNCHANGED dialog

requestCloseWorkbenchTab(p, t) ==
  /\ dialog = None
  /\ t \in tabsOf[p]
  /\ \/ /\ data[t].dirty
        /\ AskFirst(p, t)
     \/ /\ ~data[t].dirty
        /\ performCloseWorkbenchTab(p, t)
        /\ UNCHANGED dialog

\* The dialog closes and the request is performed; the only tab of the only
\* pane stays.
confirmPendingCloseRequest ==
  /\ dialog # None
  /\ dialog' = None
  /\ \/ /\ dialog.tab # None
        /\ performCloseWorkbenchTab(dialog.pane, dialog.tab)
     \/ /\ dialog.tab = None
        /\ performClosePane(dialog.pane)
     \/ /\ dialog.tab # None
        /\ panes = {dialog.pane}
        /\ tabsOf[dialog.pane] = {dialog.tab}
        /\ asked' = {}
        /\ UNCHANGED <<panes, tabsOf, activeTab, activePane, data, previous,
                       layout>>

\* Cancel, Escape, a click on the backdrop, or the page is reloaded
CancelClose ==
  /\ dialog # None
  /\ dialog' = None
  /\ asked' = {}
  /\ UNCHANGED <<panes, tabsOf, activeTab, activePane, data, previous, layout>>

\* The session goes on without the tab.  The last tab of the workbench makes
\* room for a files tab u.
detachTerminalTab(p, t, u) ==
  /\ dialog = None
  /\ t \in tabsOf[p]
  /\ data[t].tool = "terminal"
  /\ asked' = {}
  /\ UNCHANGED dialog
  /\ \/ /\ tabsOf[p] # {t}
        /\ closeTab(p, t)
     \/ /\ tabsOf[p] = {t}
        /\ panes # {p}
        /\ RemovePane(p)
     \/ /\ tabsOf[p] = {t}
        /\ panes = {p}
        /\ u \notin Present
        /\ activePane' = p
        /\ tabsOf' = [tabsOf EXCEPT ![p] = {u}]
        /\ activeTab' = [activeTab EXCEPT ![p] = u]
        /\ data' = [Cleared(data, {t}) EXCEPT ![u] = NewTab("files", None)]
        /\ previous' = Cleared(previous, {t, u})
        /\ UNCHANGED <<panes, layout>>

-----------------------------------------------------------------------------
(* Moving *)

\* t is dropped on the tabs of its own pane; on itself it changes nothing.
MoveTabWithinPane(p, t) ==
  /\ dialog = None
  /\ t \in tabsOf[p]
  /\ activePane' = p
  /\ \/ activatePaneTab(p, tabsOf[p], t, previous)
     \/ UNCHANGED <<activeTab, previous>>
  /\ asked' = {}
  /\ UNCHANGED <<panes, tabsOf, data, layout, dialog>>

\* Mutant: the leaf of a pane whose last tab has moved stays in the layout.
LeavesALeaf(p, t, q, received, prev) ==
  LET tabs == tabsOf[p] \ {t}
  IN /\ panes' = (panes \ (IF tabs = {} THEN {p} ELSE {})) \cup {q}
     /\ layout' = layout \cup {q}
     /\ activePane' = q
     /\ tabsOf' = [tabsOf EXCEPT ![p] = tabs, ![q] = received]
     /\ \E active \in IF tabs = {} THEN {None} ELSE ActiveWithout(p, t, tabs) :
          activeTab' = [activeTab EXCEPT ![p] = active, ![q] = t]
     /\ previous' = normalizePaneTabHistory(tabs, prev)
     /\ asked' = {}
     /\ UNCHANGED <<data, dialog>>

\* What t leaves behind: its pane is removed with its last tab.  prev is the
\* history in the pane that receives it, and there, q, it is active.
TabLeaves(p, t, q, received, prev) ==
  LET tabs == tabsOf[p] \ {t}
      kept == IF tabs = {} THEN {} ELSE {p}
  IN /\ panes' = (panes \ {p}) \cup kept \cup {q}
     /\ layout' = (layout \ {p}) \cup kept \cup {q}
     /\ activePane' = q
     /\ tabsOf' = [tabsOf EXCEPT ![p] = tabs, ![q] = received]
     /\ \E active \in IF tabs = {} THEN {None} ELSE ActiveWithout(p, t, tabs) :
          activeTab' = [activeTab EXCEPT ![p] = active, ![q] = t]
     /\ previous' = normalizePaneTabHistory(tabs, prev)
     /\ asked' = {}
     /\ UNCHANGED <<data, dialog>>

\* moveTab to the tabs of another pane
moveTab(p, t, q) ==
  /\ dialog = None
  /\ t \in tabsOf[p]
  /\ q \in panes \ {p}
  /\ TabLeaves(p, t, q, tabsOf[q] \cup {t},
       ActivatedHistory(tabsOf[q] \cup {t}, activeTab[q], t, previous))

\* t is dropped on the body of pane q, which is split for the new pane r.
moveTabToNewPane(p, t, q, r) ==
  /\ dialog = None
  /\ t \in tabsOf[p]
  /\ q \in panes
  /\ ~(p = q /\ tabsOf[p] = {t})
  /\ r \notin panes
  /\ TabLeaves(p, t, r, {t}, Cleared(previous, {t}))

-----------------------------------------------------------------------------
(* What the views of the tabs report, whether or not a dialog is open *)

setTabDirty(p, t, dirty) ==
  /\ t \in tabsOf[p]
  /\ data[t].tool = "files"
  /\ data' = [data EXCEPT ![t].dirty = dirty]
  /\ asked' = {}
  /\ UNCHANGED <<panes, tabsOf, activeTab, activePane, previous, layout, dialog>>

setTerminalSessionId(p, t, s) ==
  /\ t \in tabsOf[p]
  /\ data[t].tool = "terminal"
  /\ data' = [data EXCEPT ![t].session = s]
  /\ asked' = {}
  /\ UNCHANGED <<panes, tabsOf, activeTab, activePane, previous, layout, dialog>>

Next ==
  \/ \E p \in PaneIds, u \in TabIds : AddTab(p, u)
  \/ \E u \in TabIds : OpenTabInActivePane(u)
  \/ \E tool \in Tools, u \in TabIds : selectTool(tool, u)
  \/ \E p \in PaneIds, t, u \in TabIds : duplicateTab(p, t, u)
  \/ \E p, q \in PaneIds, u \in TabIds : splitPane(p, q, u)
  \/ \E p \in PaneIds : focusPane(p)
  \/ \E p \in PaneIds, t \in TabIds : selectTab(p, t)
  \/ \E p \in PaneIds : requestClosePane(p)
  \/ \E p \in PaneIds, t \in TabIds : requestCloseWorkbenchTab(p, t)
  \/ confirmPendingCloseRequest
  \/ CancelClose
  \/ \E p \in PaneIds, t, u \in TabIds : detachTerminalTab(p, t, u)
  \/ \E p \in PaneIds, t \in TabIds : MoveTabWithinPane(p, t)
  \/ \E p, q \in PaneIds, t \in TabIds : moveTab(p, t, q)
  \/ \E p, q, r \in PaneIds, t \in TabIds : moveTabToNewPane(p, t, q, r)
  \/ \E p \in PaneIds, t \in TabIds, dirty \in BOOLEAN : setTabDirty(p, t, dirty)
  \/ \E p \in PaneIds, t \in TabIds, s \in Sessions \cup {None} :
       setTerminalSessionId(p, t, s)

Spec == Init /\ [][Next]_vars

-----------------------------------------------------------------------------
(* Properties *)

\* The variables have their types.
TypeOK ==
  /\ panes \subseteq PaneIds
  /\ tabsOf \in [PaneIds -> SUBSET TabIds]
  /\ activeTab \in [PaneIds -> TabIds \cup {None}]
  /\ activePane \in PaneIds
  /\ data \in [TabIds -> Data \cup {None}]
  /\ previous \in [TabIds -> TabIds \cup {None}]
  /\ layout \subseteq PaneIds
  /\ dialog \in Requests \cup {None}
  /\ asked \subseteq Sessions

\* Panes are never empty or without an active tab of their own, no tab is in
\* two panes, the focused pane exists, and the layout shows exactly the panes:
\* moves, drops and closings keep state.panes and the layout in step although
\* they are changed by separate calls.
PanesAreWhole ==
  /\ layout = panes
  /\ activePane \in panes
  /\ \A p \in panes : activeTab[p] \in tabsOf[p]
  /\ \A p, q \in panes : p # q => tabsOf[p] \cap tabsOf[q] = {}

\* A tab remembers only another tab that is in its pane now, so closing the
\* active tab never activates a tab that has been closed or moved away.
HistoryStaysInPane ==
  \A p \in panes : \A t \in tabsOf[p] :
    previous[t] \in (tabsOf[p] \ {t}) \cup {None}

Confirmed(t) ==
  /\ dialog # None
  /\ dialog' = None
  /\ \/ dialog.tab = t
     \/ dialog.tab = None /\ t \in tabsOf[dialog.pane]

\* A tab that is marked as having unsaved changes goes from the workbench only
\* when the user has confirmed the dialog about this tab or about its pane: no
\* other way of closing, detaching, moving or replacing tabs takes it away
\* (pane-view.tsx 218-330).  It is about tabs and their marks: the changes are
\* state of the text viewer, which a move to another pane makes anew without
\* them, while the mark stays (text/index.tsx 68-77).
UnsavedNeedsConfirmation ==
  [][\A t \in Present :
       (data[t].dirty /\ t \notin Present') => Confirmed(t)]_vars

\* The tabs as OpenTabs sees them: those that some pane holds.
TabsInPanes == [t \in TabIds |-> IF t \in Present THEN data[t] ELSE None]

OpenTabsView == INSTANCE OpenTabs WITH tabs <- TabsInPanes

\* The workbench implements OpenTabs: tabs are opened and closed only on
\* request, and exactly the sessions no tab shows any more are closed.
OpenTabsSpec == OpenTabsView!Spec
=============================================================================
