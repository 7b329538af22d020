-------------------------- MODULE Workbench_proofs --------------------------
(***************************************************************************)
(* Proofs about Workbench for any numbers of panes, tabs and sessions: its *)
(* invariants, that unsaved changes go only when the user says so, and     *)
(* that it implements OpenTabs.                                            *)
(***************************************************************************)
EXTENDS Workbench, TLAPS

\* The types of what panes and tabs are made of.
StateOK ==
  /\ panes \subseteq PaneIds
  /\ tabsOf \in [PaneIds -> SUBSET TabIds]
  /\ activeTab \in [PaneIds -> TabIds \cup {None}]
  /\ activePane \in PaneIds
  /\ data \in [TabIds -> Data \cup {None}]
  /\ previous \in [TabIds -> TabIds \cup {None}]
  /\ layout \subseteq PaneIds

\* A pane that is gone has left no tabs.
GoneIsEmpty == \A p \in PaneIds : p \notin panes => tabsOf[p] = {}

\* A tab of a pane has data, and only files tabs have unsaved changes.
TabsHaveData ==
  \A p \in panes : \A t \in tabsOf[p] :
    data[t] \in Data /\ (data[t].tool = "terminal" => ~data[t].dirty)

\* The inductive invariant of everything but the dialog.
Whole == /\ StateOK
         /\ PanesAreWhole
         /\ HistoryStaysInPane
         /\ GoneIsEmpty
         /\ TabsHaveData

\* The dialog is about a pane and, if about a tab, a tab of that pane.
DialogIsCurrent ==
  dialog # None =>
    /\ dialog.pane \in panes
    /\ dialog.tab = None \/ dialog.tab \in tabsOf[dialog.pane]

IInv == /\ Whole
        /\ dialog \in Requests \cup {None}
        /\ DialogIsCurrent
        /\ asked \subseteq Sessions

-----------------------------------------------------------------------------
(* The operators *)

LEMMA ClearedApplied ==
  ASSUME NEW f, NEW S, NEW t \in TabIds
  PROVE  Cleared(f, S)[t] = IF t \in S THEN None ELSE f[t]
  BY DEF Cleared

\* Clearing entries keeps a function's type.
LEMMA ClearedType ==
  ASSUME NEW X, NEW f \in [TabIds -> X \cup {None}], NEW S
  PROVE  Cleared(f, S) \in [TabIds -> X \cup {None}]
  BY DEF Cleared

\* So does normalizing the history ...
LEMMA NormalizedType ==
  ASSUME NEW tabs, NEW prev \in [TabIds -> TabIds \cup {None}]
  PROVE  normalizePaneTabHistory(tabs, prev) \in [TabIds -> TabIds \cup {None}]
  BY ClearedType DEF normalizePaneTabHistory

\* Within the pane only other tabs of it are remembered; what other panes
\* remember stays.
LEMMA Normalized ==
  ASSUME NEW tabs, NEW prev, NEW t \in TabIds
  PROVE  /\ t \in tabs => normalizePaneTabHistory(tabs, prev)[t]
                            \in (tabs \ {t}) \cup {None}
         /\ t \notin tabs => normalizePaneTabHistory(tabs, prev)[t] = prev[t]
  BY ClearedApplied DEF normalizePaneTabHistory

\* ... and adding an activation to it.
LEMMA ActivatedType ==
  ASSUME NEW tabs, NEW active \in TabIds \cup {None}, NEW t \in TabIds,
         NEW prev \in [TabIds -> TabIds \cup {None}]
  PROVE  ActivatedHistory(tabs, active, t, prev)
           \in [TabIds -> TabIds \cup {None}]
  BY NormalizedType DEF ActivatedHistory

\* The history of a pane names other tabs of the pane only.
LEMMA Activated ==
  ASSUME NEW tabs, NEW active, NEW t \in tabs, NEW u \in TabIds,
         NEW prev \in [TabIds -> TabIds \cup {None}]
  PROVE  /\ u \in tabs => ActivatedHistory(tabs, active, t, prev)[u]
                            \in (tabs \ {u}) \cup {None}
         /\ u \notin tabs => ActivatedHistory(tabs, active, t, prev)[u] = prev[u]
  BY Normalized DEF ActivatedHistory

\* A cloned tab (workbench.ts, cloneWorkbenchTab) is not marked.
LEMMA CloneType ==
  ASSUME NEW d \in Data
  PROVE  cloneWorkbenchTab(d) \in Data /\ ~cloneWorkbenchTab(d).dirty
  BY DEF cloneWorkbenchTab, NewTab, Data, Tools

-----------------------------------------------------------------------------
(* The changes of panes and tabs keep them whole *)

LEMMA InitWhole == Init => IInv
<1> SUFFICES ASSUME Init PROVE IInv
  OBVIOUS
<1>1. PICK p \in PaneIds, t \in TabIds :
        /\ panes = {p} /\ layout = {p} /\ activePane = p
        /\ tabsOf = [q \in PaneIds |-> IF q = p THEN {t} ELSE {}]
        /\ activeTab = [q \in PaneIds |-> IF q = p THEN t ELSE None]
        /\ data = [u \in TabIds |-> IF u = t THEN NewTab("files", None) ELSE None]
  BY DEF Init
<1>2. NewTab("files", None) \in Data /\ NewTab("files", None).tool = "files"
  BY DEF NewTab, Data, Tools
<1>3. StateOK
  BY <1>1, <1>2 DEF Init, StateOK
<1>4. PanesAreWhole /\ GoneIsEmpty /\ HistoryStaysInPane
  BY <1>1 DEF Init, PanesAreWhole, GoneIsEmpty, HistoryStaysInPane
<1>5. TabsHaveData
  BY <1>1, <1>2 DEF TabsHaveData
<1> QED BY <1>3, <1>4, <1>5 DEF IInv, Whole, DialogIsCurrent, Init

\* A tab of the pane becomes its active tab.
LEMMA ActivateWhole ==
  ASSUME Whole, NEW p \in panes, NEW t \in tabsOf[p], activePane' \in panes,
         activatePaneTab(p, tabsOf[p], t, previous),
         UNCHANGED <<panes, tabsOf, data, layout>>
  PROVE  Whole'
<1>1. /\ p \in PaneIds /\ t \in TabIds
      /\ tabsOf[p] \subseteq TabIds
      /\ activeTab[p] \in TabIds \cup {None}
  BY DEF Whole, StateOK
<1>2. previous' = ActivatedHistory(tabsOf[p], activeTab[p], t, previous)
  BY DEF activatePaneTab
<1>3. StateOK'
  <2>1. previous' \in [TabIds -> TabIds \cup {None}]
    BY <1>1, <1>2, ActivatedType DEF Whole, StateOK
  <2> QED BY <1>1, <2>1 DEF Whole, StateOK, activatePaneTab
<1>4. PanesAreWhole'
  BY <1>1 DEF Whole, StateOK, PanesAreWhole, activatePaneTab
<1>5. HistoryStaysInPane'
  <2> SUFFICES ASSUME NEW q \in panes, NEW u \in tabsOf[q]
               PROVE  previous'[u] \in (tabsOf[q] \ {u}) \cup {None}
    BY DEF HistoryStaysInPane
  <2>1. u \in TabIds /\ previous \in [TabIds -> TabIds \cup {None}]
    BY DEF Whole, StateOK
  <2>2. CASE q = p
    BY <1>1, <1>2, <2>1, <2>2, Activated
  <2>3. CASE q # p
    <3>1. u \notin tabsOf[p]
      BY <2>3 DEF Whole, PanesAreWhole
    <3> QED BY <1>1, <1>2, <2>1, <3>1, Activated DEF Whole, HistoryStaysInPane
  <2> QED BY <2>2, <2>3
<1>6. GoneIsEmpty' /\ TabsHaveData'
  BY DEF Whole, GoneIsEmpty, TabsHaveData
<1> QED BY <1>3, <1>4, <1>5, <1>6 DEF Whole

\* A new tab opens in a pane.
LEMMA OpenWhole ==
  ASSUME Whole, NEW p \in panes, NEW u \in TabIds, NEW d \in Data, ~d.dirty,
         openTabInPane(p, u, d)
  PROVE  Whole'
<1> DEFINE tabs == tabsOf[p] \cup {u}
<1>1. /\ p \in PaneIds
      /\ tabsOf[p] \subseteq TabIds
      /\ activeTab[p] \in TabIds \cup {None}
      /\ previous \in [TabIds -> TabIds \cup {None}]
  BY DEF Whole, StateOK
<1>2. previous' = ActivatedHistory(tabs, activeTab[p], u, previous)
  BY DEF openTabInPane, activatePaneTab
<1>3. \A q \in panes : u \notin tabsOf[q]
  BY DEF openTabInPane, Present
<1>4. StateOK'
  <2>1. previous' \in [TabIds -> TabIds \cup {None}]
    BY <1>1, <1>2, ActivatedType
  <2> QED BY <1>1, <2>1 DEF Whole, StateOK, openTabInPane, activatePaneTab
<1>5. /\ panes' = panes /\ layout' = layout
      /\ \A q \in panes : tabsOf'[q] = IF q = p THEN tabs ELSE tabsOf[q]
  BY <1>1 DEF Whole, StateOK, openTabInPane
<1>6. PanesAreWhole'
  BY <1>1, <1>3, <1>5
     DEF Whole, StateOK, PanesAreWhole, openTabInPane, activatePaneTab
<1>7. HistoryStaysInPane'
  <2> SUFFICES ASSUME NEW q \in panes, NEW t \in tabsOf'[q]
               PROVE  previous'[t] \in (tabsOf'[q] \ {t}) \cup {None}
    BY <1>5 DEF HistoryStaysInPane
  <2>1. CASE q = p
    BY <1>1, <1>2, <1>5, <2>1, Activated
  <2>2. CASE q # p
    <3>1. t \in tabsOf[q] /\ t \in TabIds /\ t \notin tabs
      BY <1>3, <1>5, <2>2 DEF Whole, StateOK, PanesAreWhole
    <3> HIDE DEF tabs
    <3> QED BY <1>1, <1>2, <1>5, <2>2, <3>1, Activated
            DEF Whole, HistoryStaysInPane, tabs
  <2> QED BY <2>1, <2>2
<1>8. GoneIsEmpty'
  BY <1>1 DEF Whole, StateOK, GoneIsEmpty, openTabInPane
<1>9. TabsHaveData'
  BY <1>1, <1>5 DEF Whole, StateOK, TabsHaveData, openTabInPane
<1> QED BY <1>4, <1>6, <1>7, <1>8, <1>9 DEF Whole

\* What changes in a tab's data keeps it a tab's data.
LEMMA DataWhole ==
  ASSUME Whole, NEW t \in Present, NEW d \in Data,
         d.tool = "terminal" => ~d.dirty,
         data' = [data EXCEPT ![t] = d],
         UNCHANGED <<panes, tabsOf, activeTab, activePane, previous, layout>>
  PROVE  Whole'
<1>1. t \in TabIds
  BY DEF Present, Whole, StateOK
<1>2. StateOK'
  BY <1>1 DEF Whole, StateOK
<1>3. PanesAreWhole' /\ HistoryStaysInPane' /\ GoneIsEmpty'
  BY DEF Whole, PanesAreWhole, HistoryStaysInPane, GoneIsEmpty
<1>4. TabsHaveData'
  BY <1>1 DEF Whole, StateOK, TabsHaveData
<1> QED BY <1>2, <1>3, <1>4 DEF Whole

\* A pane is split for a new one.
LEMMA SplitWhole ==
  ASSUME Whole, NEW p \in PaneIds, NEW q \in PaneIds, NEW u \in TabIds,
         splitPane(p, q, u)
  PROVE  Whole'
<1>1. /\ p \in panes /\ q \notin panes
      /\ activeTab[p] \in tabsOf[p] /\ activeTab[p] \in TabIds
  BY DEF Whole, StateOK, PanesAreWhole, splitPane
<1>2. \A r \in panes : u \notin tabsOf[r]
  BY DEF splitPane, Present
<1>3. /\ data[activeTab[p]] \in Data
      /\ cloneWorkbenchTab(data[activeTab[p]]) \in Data
      /\ ~cloneWorkbenchTab(data[activeTab[p]]).dirty
  BY <1>1, CloneType DEF Whole, TabsHaveData
<1>4. StateOK'
  BY <1>3, ClearedType DEF Whole, StateOK, splitPane
<1>5. \A r \in PaneIds : tabsOf'[r] = IF r = q THEN {u} ELSE tabsOf[r]
  BY DEF Whole, StateOK, splitPane
<1>6. PanesAreWhole'
  BY <1>2, <1>5 DEF Whole, StateOK, PanesAreWhole, splitPane
<1>7. HistoryStaysInPane'
  <2> SUFFICES ASSUME NEW r \in panes', NEW t \in tabsOf'[r]
               PROVE  previous'[t] \in (tabsOf'[r] \ {t}) \cup {None}
    BY DEF HistoryStaysInPane
  <2>1. r \in PaneIds /\ t \in TabIds
    BY <1>5 DEF Whole, StateOK, splitPane
  <2>2. previous'[t] = IF t = u THEN None ELSE previous[t]
    BY <2>1, ClearedApplied DEF splitPane
  <2>3. CASE r = q
    BY <1>5, <2>1, <2>2, <2>3
  <2>4. CASE r # q
    BY <1>2, <1>5, <2>1, <2>2, <2>4 DEF Whole, HistoryStaysInPane, splitPane
  <2> QED BY <2>3, <2>4
<1>8. GoneIsEmpty'
  BY <1>5 DEF Whole, GoneIsEmpty, splitPane
<1>9. TabsHaveData'
  BY <1>2, <1>3, <1>5 DEF Whole, StateOK, TabsHaveData, splitPane
<1> QED BY <1>4, <1>6, <1>7, <1>8, <1>9 DEF Whole

\* One of several tabs is closed.
LEMMA CloseTabWhole ==
  ASSUME Whole, NEW p \in panes, NEW t \in tabsOf[p], tabsOf[p] # {t},
         closeTab(p, t)
  PROVE  Whole'
<1> DEFINE tabs == tabsOf[p] \ {t}
<1>1. /\ p \in PaneIds /\ t \in TabIds
      /\ tabs \subseteq TabIds /\ tabs # {}
      /\ previous \in [TabIds -> TabIds \cup {None}]
  BY DEF Whole, StateOK
<1>2. PICK active \in ActiveWithout(p, t, tabs) :
        activeTab' = [activeTab EXCEPT ![p] = active]
  BY DEF closeTab
<1>3. active \in tabs
  BY <1>1, <1>2 DEF ActiveWithout, fallbackActiveTabId, Whole, PanesAreWhole
<1>4. previous' = normalizePaneTabHistory(tabs, Cleared(previous, {t}))
  BY DEF closeTab
<1>5. \A q \in PaneIds : tabsOf'[q] = IF q = p THEN tabs ELSE tabsOf[q]
  BY DEF Whole, StateOK, closeTab
<1>6. StateOK'
  <2>1. previous' \in [TabIds -> TabIds \cup {None}]
    BY <1>1, <1>4, ClearedType, NormalizedType
  <2>2. data' \in [TabIds -> Data \cup {None}]
    BY ClearedType DEF Whole, StateOK, closeTab
  <2> QED BY <1>1, <1>2, <1>3, <2>1, <2>2 DEF Whole, StateOK, closeTab
<1>7. PanesAreWhole'
  BY <1>1, <1>2, <1>3, <1>5 DEF Whole, StateOK, PanesAreWhole, closeTab
<1>8. HistoryStaysInPane'
  <2> SUFFICES ASSUME NEW q \in panes, NEW u \in tabsOf'[q]
               PROVE  previous'[u] \in (tabsOf'[q] \ {u}) \cup {None}
    BY DEF HistoryStaysInPane, closeTab
  <2>1. q \in PaneIds /\ u \in TabIds
    BY <1>1, <1>5 DEF Whole, StateOK
  <2>2. CASE q = p
    BY <1>4, <1>5, <2>1, <2>2, Normalized
  <2>3. CASE q # p
    <3>1. u \in tabsOf[q] /\ u \notin tabs /\ u # t
      BY <1>5, <2>1, <2>3 DEF Whole, PanesAreWhole
    <3>2. previous'[u] = previous[u]
      BY <1>4, <2>1, <3>1, Normalized, ClearedApplied
    <3> QED BY <1>5, <2>1, <2>3, <3>1, <3>2 DEF Whole, HistoryStaysInPane
  <2> QED BY <2>2, <2>3
<1>9. GoneIsEmpty'
  BY <1>5 DEF Whole, GoneIsEmpty, closeTab
<1>10. TabsHaveData'
  <2> SUFFICES ASSUME NEW q \in panes, NEW u \in tabsOf'[q]
               PROVE  /\ data'[u] \in Data
                      /\ data'[u].tool = "terminal" => ~data'[u].dirty
    BY DEF TabsHaveData, closeTab
  <2>1. u \in tabsOf[q] /\ u # t /\ u \in TabIds
    BY <1>5 DEF Whole, StateOK, PanesAreWhole
  <2>2. data'[u] = data[u]
    BY <2>1, ClearedApplied DEF closeTab
  <2> QED BY <2>1, <2>2 DEF Whole, TabsHaveData
<1> QED BY <1>6, <1>7, <1>8, <1>9, <1>10 DEF Whole

\* One of several panes is removed.
LEMMA RemovePaneWhole ==
  ASSUME Whole, NEW p \in panes, panes # {p}, RemovePane(p)
  PROVE  Whole'
<1>1. /\ p \in PaneIds
      /\ previous \in [TabIds -> TabIds \cup {None}]
      /\ data \in [TabIds -> Data \cup {None}]
  BY DEF Whole, StateOK
<1>2. \A q \in PaneIds : tabsOf'[q] = IF q = p THEN {} ELSE tabsOf[q]
  BY DEF Whole, StateOK, RemovePane
<1>3. StateOK'
  <2>1. /\ previous' \in [TabIds -> TabIds \cup {None}]
        /\ data' \in [TabIds -> Data \cup {None}]
    BY <1>1, ClearedType DEF RemovePane
  <2> QED BY <1>1, <2>1 DEF Whole, StateOK, RemovePane
<1>4. PanesAreWhole'
  BY <1>1, <1>2 DEF Whole, StateOK, PanesAreWhole, RemovePane
<1>5. \A q \in panes' : \A u \in tabsOf'[q] :
        /\ q \in panes /\ u \in tabsOf[q] /\ tabsOf'[q] = tabsOf[q]
        /\ previous'[u] = previous[u] /\ data'[u] = data[u]
  <2> SUFFICES ASSUME NEW q \in panes', NEW u \in tabsOf'[q]
               PROVE  /\ q \in panes /\ u \in tabsOf[q]
                      /\ tabsOf'[q] = tabsOf[q]
                      /\ previous'[u] = previous[u] /\ data'[u] = data[u]
    OBVIOUS
  <2>1. q \in panes /\ q # p /\ u \in tabsOf[q] /\ u \in TabIds
    BY <1>2 DEF Whole, StateOK, RemovePane
  <2>2. u \notin tabsOf[p]
    BY <2>1 DEF Whole, PanesAreWhole
  <2> QED BY <1>2, <2>1, <2>2, ClearedApplied DEF Whole, StateOK, RemovePane
<1>6. HistoryStaysInPane' /\ TabsHaveData'
  BY <1>5 DEF Whole, HistoryStaysInPane, TabsHaveData
<1>7. GoneIsEmpty'
  BY <1>2 DEF Whole, GoneIsEmpty, RemovePane
<1> QED BY <1>3, <1>4, <1>6, <1>7 DEF Whole

\* A tab leaves its pane for the pane q, which has received it and others.
LEMMA TabLeavesWhole ==
  ASSUME Whole, NEW p \in panes, NEW t \in tabsOf[p],
         NEW q \in PaneIds \ {p},
         NEW received, received = tabsOf[q] \cup {t},
         NEW prev \in [TabIds -> TabIds \cup {None}],
         \A u \in received : prev[u] \in (received \ {u}) \cup {None},
         \A u \in TabIds \ received : prev[u] = previous[u],
         TabLeaves(p, t, q, received, prev)
  PROVE  Whole'
<1> DEFINE tabs == tabsOf[p] \ {t}
<1>1. /\ p \in PaneIds /\ t \in TabIds
      /\ tabs \subseteq TabIds /\ received \subseteq TabIds
  BY DEF Whole, StateOK
<1>2. tabs \cap received = {}
  BY <1>1 DEF Whole, PanesAreWhole, GoneIsEmpty
<1>3. PICK active \in IF tabs = {} THEN {None} ELSE ActiveWithout(p, t, tabs) :
        activeTab' = [activeTab EXCEPT ![p] = active, ![q] = t]
  BY DEF TabLeaves
<1>4. active \in TabIds \cup {None} /\ (tabs # {} => active \in tabs)
  BY <1>1, <1>3 DEF ActiveWithout, fallbackActiveTabId, Whole, PanesAreWhole
<1>5. \A r \in PaneIds : tabsOf'[r] = IF r = p THEN tabs
                                      ELSE IF r = q THEN received ELSE tabsOf[r]
  BY DEF Whole, StateOK, TabLeaves
<1>6. panes' = {r \in panes \cup {q} : r = p => tabs # {}} /\ layout' = panes'
  BY DEF Whole, PanesAreWhole, TabLeaves
<1>7. \A u \in TabIds :
        /\ u \in tabs => previous'[u] \in (tabs \ {u}) \cup {None}
        /\ u \notin tabs => previous'[u] = prev[u]
  BY Normalized DEF TabLeaves
<1>8. StateOK'
  <2>1. previous' \in [TabIds -> TabIds \cup {None}]
    BY NormalizedType DEF TabLeaves
  <2>2. tabsOf' \in [PaneIds -> SUBSET TabIds]
    BY <1>1 DEF Whole, StateOK, TabLeaves
  <2>3. activeTab' \in [PaneIds -> TabIds \cup {None}]
    BY <1>1, <1>3, <1>4 DEF Whole, StateOK
  <2> QED BY <1>6, <2>1, <2>2, <2>3 DEF Whole, StateOK, TabLeaves
<1>9. PanesAreWhole'
  <2>1. activePane' \in panes'
    BY <1>6 DEF TabLeaves
  <2>2. ASSUME NEW r \in panes' PROVE activeTab'[r] \in tabsOf'[r]
    <3>1. r \in PaneIds
      BY <1>6 DEF Whole, StateOK
    <3>2. activeTab'[r] = IF r = q THEN t ELSE IF r = p THEN active ELSE activeTab[r]
      BY <1>3, <3>1 DEF Whole, StateOK
    <3>3. CASE r = q
      BY <1>5, <3>1, <3>2, <3>3
    <3>4. CASE r # q /\ r = p
      BY <1>4, <1>5, <1>6, <3>1, <3>2, <3>4
    <3>5. CASE r # q /\ r # p
      BY <1>5, <1>6, <3>1, <3>2, <3>5 DEF Whole, PanesAreWhole
    <3> QED BY <3>3, <3>4, <3>5
  <2>3. ASSUME NEW r \in panes', NEW s \in panes', r # s
        PROVE  tabsOf'[r] \cap tabsOf'[s] = {}
    <3> SUFFICES ASSUME NEW u, u \in tabsOf'[r], u \in tabsOf'[s]
                 PROVE  FALSE
      OBVIOUS
    <3>1. r \in PaneIds /\ s \in PaneIds
      BY <1>6 DEF Whole, StateOK
    <3>2. \A x, y \in PaneIds : u \in tabsOf[x] /\ u \in tabsOf[y] => x = y
      BY DEF Whole, PanesAreWhole, GoneIsEmpty
    <3>3. ASSUME NEW x \in PaneIds, u \in tabsOf'[x]
          PROVE  IF u = t THEN x = q
                          ELSE u \in tabsOf[x]
      <4>1. CASE x = p
        BY <1>1, <1>5, <3>3, <4>1
      <4>2. CASE x = q
        BY <1>5, <3>3, <4>2
      <4>3. CASE x # p /\ x # q
        <5>1. u \in tabsOf[x]
          BY <1>5, <3>3, <4>3
        <5>2. t \notin tabsOf[x]
          BY <1>1, <4>3 DEF Whole, PanesAreWhole, GoneIsEmpty
        <5> QED BY <5>1, <5>2
      <4> QED BY <4>1, <4>2, <4>3
    <3>4. (u = t => r = q) /\ (u # t => u \in tabsOf[r])
      BY <3>1, <3>3
    <3>5. (u = t => s = q) /\ (u # t => u \in tabsOf[s])
      BY <3>1, <3>3
    <3> QED BY <2>3, <3>1, <3>2, <3>4, <3>5
  <2> QED BY <1>6, <2>1, <2>2, <2>3 DEF PanesAreWhole
<1>10. \A r \in panes', u \in TabIds :
         u \in tabsOf'[r] =>
           previous'[u] \in (tabsOf'[r] \ {u}) \cup {None}
  <2> TAKE r \in panes', u \in TabIds
  <2> HAVE u \in tabsOf'[r]
  <2>1. r \in PaneIds
    BY <1>6 DEF Whole, StateOK
  <2>2. CASE r = p
    BY <1>5, <1>7, <2>1, <2>2
  <2>3. CASE r = q
    BY <1>2, <1>5, <1>7, <2>1, <2>3
  <2>4. CASE r # p /\ r # q
    <3>1. r \in panes /\ u \in tabsOf[r] /\ u \notin tabs /\ u \notin received
      BY <1>1, <1>5, <1>6, <2>1, <2>4 DEF Whole, PanesAreWhole, GoneIsEmpty
    <3> QED BY <1>5, <1>7, <2>1, <2>4, <3>1 DEF Whole, HistoryStaysInPane
  <2> QED BY <2>2, <2>3, <2>4
<1>11. HistoryStaysInPane'
  BY <1>8, <1>10 DEF HistoryStaysInPane, StateOK
<1>12. GoneIsEmpty'
  BY <1>5, <1>6 DEF Whole, GoneIsEmpty
<1>13. TabsHaveData'
  BY <1>5, <1>6 DEF Whole, StateOK, TabsHaveData, GoneIsEmpty, TabLeaves
<1> QED BY <1>8, <1>9, <1>11, <1>12, <1>13 DEF Whole

-----------------------------------------------------------------------------
(* The steps keep the invariant *)

LEMMA NewTabType ==
  ASSUME NEW tool \in Tools, NEW s \in Sessions \cup {None}
  PROVE  /\ NewTab(tool, s) \in Data
         /\ ~NewTab(tool, s).dirty
         /\ NewTab(tool, s).tool = tool
  BY DEF NewTab, Data, Tools

\* What Whole says of the tabs that are in panes.
LEMMA PresentTabs ==
  ASSUME Whole
  PROVE  /\ Present \subseteq TabIds
         /\ \A p \in PaneIds : tabsOf[p] \subseteq Present
         /\ \A p \in PaneIds : \A t \in tabsOf[p] :
              p \in panes /\ data[t] \in Data
                /\ (data[t].tool = "terminal" => ~data[t].dirty)
  BY DEF Whole, StateOK, Present, GoneIsEmpty, TabsHaveData

\* The sessions that tabs show.
LEMMA SessionsType ==
  ASSUME NEW S PROVE SessionsOf(S) \subseteq Sessions
  BY DEF SessionsOf

\* A tab's being closed, asked for or not, keeps the invariant.
LEMMA CloseTabKeeps ==
  ASSUME IInv, NEW p \in PaneIds, NEW t \in tabsOf[p], dialog' = None,
         performCloseWorkbenchTab(p, t)
  PROVE  IInv'
<1>1. p \in panes
  BY PresentTabs DEF IInv
<1>2. asked' \subseteq Sessions
  BY SessionsType
     DEF performCloseWorkbenchTab, performClosePane, closeTerminalSessions
<1>3. CASE tabsOf[p] # {t}
  BY <1>1, <1>2, <1>3, CloseTabWhole
     DEF performCloseWorkbenchTab, IInv, DialogIsCurrent
<1>4. CASE tabsOf[p] = {t}
  BY <1>1, <1>2, <1>4, RemovePaneWhole
     DEF performCloseWorkbenchTab, performClosePane, IInv, DialogIsCurrent
<1> QED BY <1>3, <1>4

\* Closing a pane, or the contents of the last one.
LEMMA ClosePaneKeeps ==
  ASSUME IInv, NEW p \in panes, dialog' = None, performClosePane(p)
  PROVE  IInv'
  BY SessionsType, RemovePaneWhole
     DEF performClosePane, closeTerminalSessions, IInv, DialogIsCurrent

\* Opening a tab with an id that is new.
LEMMA OpenKeeps ==
  ASSUME IInv, dialog = None, NEW p \in panes, NEW u \in TabIds,
         NEW d \in Data, ~d.dirty, openTabInPane(p, u, d)
  PROVE  IInv'
  BY OpenWhole DEF openTabInPane, IInv, DialogIsCurrent

\* The dialog that asks before a close names what exists.
LEMMA AskFirstKeeps ==
  ASSUME IInv, NEW p \in panes, NEW t \in tabsOf[p] \cup {None}, AskFirst(p, t)
  PROVE  IInv'
<1>1. p \in PaneIds /\ t \in TabIds \cup {None}
  BY DEF IInv, Whole, StateOK
<1>2. Whole'
  BY DEF AskFirst, IInv, Whole, StateOK, PanesAreWhole, HistoryStaysInPane,
         GoneIsEmpty, TabsHaveData
<1>3. dialog' \in Requests \cup {None} /\ DialogIsCurrent'
  BY <1>1 DEF AskFirst, Requests, DialogIsCurrent
<1> QED BY <1>2, <1>3 DEF IInv, AskFirst

\* Steps that leave panes and tabs alone.
LEMMA StillWhole ==
  ASSUME Whole, activePane' \in panes,
         UNCHANGED <<panes, tabsOf, activeTab, data, previous, layout>>
  PROVE  Whole'
  BY DEF Whole, StateOK, PanesAreWhole, HistoryStaysInPane, GoneIsEmpty,
         TabsHaveData

\* Every step keeps the invariant.
LEMMA NextKeeps == IInv /\ [Next]_vars => IInv'
<1> SUFFICES ASSUME IInv, [Next]_vars PROVE IInv'
  OBVIOUS
<1> USE PresentTabs
<1>0. /\ Whole /\ activePane \in panes /\ panes \subseteq PaneIds
      /\ \A p \in PaneIds, t \in TabIds : t \in tabsOf[p] => p \in panes
  BY DEF IInv, Whole, StateOK, PanesAreWhole
<1>1. ASSUME NEW p \in PaneIds, NEW u \in TabIds, AddTab(p, u) PROVE IInv'
  BY <1>1, NewTabType, OpenKeeps DEF AddTab
<1>2. ASSUME NEW u \in TabIds, OpenTabInActivePane(u) PROVE IInv'
  BY <1>0, <1>2, NewTabType, OpenKeeps DEF OpenTabInActivePane, Tools
<1>3. ASSUME NEW tool \in Tools, NEW u \in TabIds, selectTool(tool, u) PROVE IInv'
  <2>1. CASE openTabInPane(activePane, u, NewTab(tool, None))
    BY <1>0, <1>3, <2>1, NewTabType, OpenKeeps DEF selectTool
  <2>2. ASSUME NEW t \in tabsOf[activePane],
               activatePaneTab(activePane, tabsOf[activePane], t, previous),
               asked' = {}, UNCHANGED <<panes, tabsOf, activePane, data, layout, dialog>>
        PROVE  IInv'
    BY <1>0, <2>2, ActivateWhole DEF IInv, DialogIsCurrent
  <2> QED BY <1>3, <2>1, <2>2 DEF selectTool
<1>4. ASSUME NEW p \in PaneIds, NEW t \in TabIds, NEW u \in TabIds, duplicateTab(p, t, u)
      PROVE  IInv'
  BY <1>0, <1>4, CloneType, OpenKeeps DEF duplicateTab
<1>5. ASSUME NEW p \in PaneIds, NEW q \in PaneIds, NEW u \in TabIds, splitPane(p, q, u)
      PROVE  IInv'
  BY <1>0, <1>5, SplitWhole DEF splitPane, IInv, DialogIsCurrent
<1>6. ASSUME NEW p \in PaneIds, focusPane(p) PROVE IInv'
  BY <1>0, <1>6, StillWhole DEF focusPane, IInv, DialogIsCurrent
<1>7. ASSUME NEW p \in PaneIds, NEW t \in TabIds, selectTab(p, t) PROVE IInv'
  BY <1>0, <1>7, ActivateWhole DEF selectTab, IInv, DialogIsCurrent
<1>8. ASSUME NEW p \in PaneIds, requestClosePane(p) PROVE IInv'
  BY <1>8, AskFirstKeeps, ClosePaneKeeps DEF requestClosePane
<1>9. ASSUME NEW p \in PaneIds, NEW t \in TabIds, requestCloseWorkbenchTab(p, t)
      PROVE  IInv'
  BY <1>0, <1>9, AskFirstKeeps, CloseTabKeeps DEF requestCloseWorkbenchTab
<1>10. ASSUME confirmPendingCloseRequest PROVE IInv'
  <2>1. /\ dialog.pane \in PaneIds /\ dialog.pane \in panes /\ dialog' = None
        /\ dialog.tab # None => dialog.tab \in tabsOf[dialog.pane]
    BY <1>10 DEF confirmPendingCloseRequest, IInv, DialogIsCurrent, Requests
  <2>2. CASE performCloseWorkbenchTab(dialog.pane, dialog.tab) /\ dialog.tab # None
    BY <2>1, <2>2, CloseTabKeeps
  <2>3. CASE performClosePane(dialog.pane)
    BY <2>1, <2>3, ClosePaneKeeps
  <2>4. CASE /\ asked' = {}
             /\ UNCHANGED <<panes, tabsOf, activeTab, activePane, data, previous, layout>>
    BY <1>0, <2>1, <2>4, StillWhole DEF IInv, DialogIsCurrent
  <2> QED BY <1>10, <2>2, <2>3, <2>4 DEF confirmPendingCloseRequest
<1>11. ASSUME CancelClose PROVE IInv'
  BY <1>0, <1>11, StillWhole DEF CancelClose, IInv, DialogIsCurrent
<1>12. ASSUME NEW p \in PaneIds, NEW t \in TabIds, NEW u \in TabIds,
              detachTerminalTab(p, t, u)
       PROVE  IInv'
  <2>1. p \in panes /\ t \in tabsOf[p] /\ dialog = None /\ dialog' = None /\ asked' = {}
    BY <1>0, <1>12 DEF detachTerminalTab
  <2>2. CASE tabsOf[p] # {t} /\ closeTab(p, t)
    BY <1>0, <2>1, <2>2, CloseTabWhole DEF IInv, DialogIsCurrent
  <2>3. CASE panes # {p} /\ RemovePane(p)
    BY <1>0, <2>1, <2>3, RemovePaneWhole DEF IInv, DialogIsCurrent
  <2>4. CASE /\ tabsOf[p] = {t} /\ panes = {p} /\ u \notin Present
             /\ activePane' = p
             /\ tabsOf' = [tabsOf EXCEPT ![p] = {u}]
             /\ activeTab' = [activeTab EXCEPT ![p] = u]
             /\ data' = [Cleared(data, {t}) EXCEPT ![u] = NewTab("files", None)]
             /\ previous' = Cleared(previous, {t, u})
             /\ UNCHANGED <<panes, layout>>
    <3>1. NewTab("files", None) \in Data /\ NewTab("files", None).tool = "files"
      BY NewTabType DEF Tools
    <3>2. Cleared(data, {t}) \in [TabIds -> Data \cup {None}]
      BY ClearedType DEF IInv, Whole, StateOK
    <3>3. StateOK'
      BY <2>4, <3>1, <3>2, ClearedType DEF IInv, Whole, StateOK
    <3>4. tabsOf'[p] = {u} /\ data'[u] = NewTab("files", None) /\ previous'[u] = None
      BY <2>4, <3>2, ClearedApplied DEF IInv, Whole, StateOK
    <3>5. PanesAreWhole' /\ HistoryStaysInPane' /\ TabsHaveData'
      BY <2>4, <3>1, <3>4
         DEF IInv, Whole, StateOK, PanesAreWhole, HistoryStaysInPane, TabsHaveData
    <3>6. GoneIsEmpty'
      BY <2>4 DEF IInv, Whole, StateOK, GoneIsEmpty
    <3> QED BY <2>1, <3>3, <3>5, <3>6 DEF IInv, Whole, DialogIsCurrent
  <2> QED BY <1>12, <2>2, <2>3, <2>4 DEF detachTerminalTab
<1>13. ASSUME NEW p \in PaneIds, NEW t \in TabIds, MoveTabWithinPane(p, t) PROVE IInv'
  BY <1>0, <1>13, ActivateWhole, StillWhole
     DEF MoveTabWithinPane, IInv, DialogIsCurrent
<1>14. ASSUME NEW p \in PaneIds, NEW q \in PaneIds, NEW t \in TabIds, moveTab(p, t, q)
       PROVE  IInv'
  <2> DEFINE received == tabsOf[q] \cup {t}
             prev == ActivatedHistory(received, activeTab[q], t, previous)
  <2>1. /\ p \in panes /\ t \in tabsOf[p] /\ q \in PaneIds \ {p}
        /\ dialog = None /\ dialog' = None /\ asked' = {}
        /\ TabLeaves(p, t, q, received, prev)
    BY <1>0, <1>14 DEF moveTab, TabLeaves
  <2>2. /\ previous \in [TabIds -> TabIds \cup {None}]
        /\ activeTab[q] \in TabIds \cup {None}
        /\ received \subseteq TabIds
    BY <1>0 DEF Whole, StateOK
  <2>3. /\ prev \in [TabIds -> TabIds \cup {None}]
        /\ \A u \in received : prev[u] \in (received \ {u}) \cup {None}
        /\ \A u \in TabIds \ received : prev[u] = previous[u]
    BY <2>2, ActivatedType, Activated
  <2>4. Whole'
    <3> HIDE DEF prev
    <3> QED BY <1>0, <2>1, <2>3, TabLeavesWhole
  <2> QED BY <2>1, <2>4 DEF IInv, DialogIsCurrent
<1>15. ASSUME NEW p \in PaneIds, NEW q \in PaneIds, NEW r \in PaneIds, NEW t \in TabIds,
              moveTabToNewPane(p, t, q, r)
       PROVE  IInv'
  <2> DEFINE prev == Cleared(previous, {t})
  <2>1. /\ p \in panes /\ t \in tabsOf[p] /\ r \in PaneIds \ {p}
        /\ dialog = None /\ dialog' = None /\ asked' = {}
        /\ TabLeaves(p, t, r, {t}, prev)
    BY <1>0, <1>15 DEF moveTabToNewPane, TabLeaves
  <2>2. {t} = tabsOf[r] \cup {t}
    BY <1>0, <1>15 DEF moveTabToNewPane, Whole, GoneIsEmpty
  <2>3. /\ prev \in [TabIds -> TabIds \cup {None}]
        /\ \A u \in {t} : prev[u] \in ({t} \ {u}) \cup {None}
        /\ \A u \in TabIds \ {t} : prev[u] = previous[u]
    <3>1. previous \in [TabIds -> TabIds \cup {None}]
      BY <1>0 DEF Whole, StateOK
    <3>2. prev \in [TabIds -> TabIds \cup {None}]
      BY <3>1, ClearedType
    <3> QED BY <3>2, ClearedApplied
  <2>4. Whole'
    <3> HIDE DEF prev
    <3> QED BY <1>0, <2>1, <2>2, <2>3, TabLeavesWhole
  <2> QED BY <2>1, <2>4 DEF IInv, DialogIsCurrent
<1>16. ASSUME NEW p \in PaneIds, NEW t \in TabIds, NEW dirty \in BOOLEAN,
              setTabDirty(p, t, dirty)
       PROVE  IInv'
  <2> DEFINE d == [data[t] EXCEPT !.dirty = dirty]
  <2>1. t \in Present /\ data[t] \in Data /\ data[t].tool = "files"
    BY <1>0, <1>16 DEF setTabDirty
  <2>2. d \in Data /\ d.tool # "terminal"
    BY <2>1 DEF Data, Tools
  <2>3. data' = [data EXCEPT ![t] = d]
    BY <1>16 DEF setTabDirty
  <2>4. Whole'
    BY <1>0, <1>16, <2>1, <2>2, <2>3, DataWhole DEF setTabDirty
  <2> QED BY <1>16, <2>4 DEF setTabDirty, IInv, DialogIsCurrent
<1>17. ASSUME NEW p \in PaneIds, NEW t \in TabIds, NEW s \in Sessions \cup {None},
              setTerminalSessionId(p, t, s)
       PROVE  IInv'
  <2> DEFINE d == [data[t] EXCEPT !.session = s]
  <2>1. t \in Present /\ data[t] \in Data /\ ~data[t].dirty
    BY <1>0, <1>17 DEF setTerminalSessionId
  <2>2. d \in Data /\ ~d.dirty
    BY <2>1 DEF Data, Tools
  <2>3. data' = [data EXCEPT ![t] = d]
    BY <1>17 DEF setTerminalSessionId
  <2>4. Whole'
    BY <1>0, <1>17, <2>1, <2>2, <2>3, DataWhole DEF setTerminalSessionId
  <2> QED BY <1>17, <2>4 DEF setTerminalSessionId, IInv, DialogIsCurrent
<1>18. CASE UNCHANGED vars
  BY <1>0, <1>18, StillWhole DEF vars, IInv, DialogIsCurrent
<1> QED BY <1>1, <1>2, <1>3, <1>4, <1>5, <1>6, <1>7, <1>8, <1>9, <1>10, <1>11,
           <1>12, <1>13, <1>14, <1>15, <1>16, <1>17, <1>18 DEF Next

\* So it always holds.
LEMMA Invariance == Spec => []IInv
  BY InitWhole, NextKeeps, PTL DEF Spec

\* The variables of the workbench have their types.
THEOREM TypeCorrect == Spec => []TypeOK
<1>1. IInv => TypeOK
  BY DEF IInv, Whole, StateOK, TypeOK
<1> QED BY <1>1, Invariance, PTL

\* However tabs are moved, dropped, split, closed and detached, every pane has
\* tabs and an active one, no tab is in two panes, and the layout shows exactly
\* the panes.
THEOREM PanesStayWhole == Spec => []PanesAreWhole
<1>1. IInv => PanesAreWhole
  BY DEF IInv, Whole
<1> QED BY <1>1, Invariance, PTL

\* A tab remembers only tabs that are in its pane.
THEOREM HistoryCorrect == Spec => []HistoryStaysInPane
<1>1. IInv => HistoryStaysInPane
  BY DEF IInv, Whole
<1> QED BY <1>1, Invariance, PTL

-----------------------------------------------------------------------------
(* What becomes of the tabs in the panes *)

LEMMA PresentIs ==
  ASSUME Whole
  PROVE  /\ \A t : t \in Present <=> \E p \in PaneIds : t \in tabsOf[p]
         /\ Present \subseteq TabIds
         /\ \A t \in Present : data[t] \in Data
  BY DEF Whole, StateOK, Present, GoneIsEmpty, TabsHaveData

\* The tabs that are in panes after a step.
LEMMA PresentIsNext ==
  ASSUME Whole'
  PROVE  \A t : t \in Present' <=> \E p \in PaneIds : t \in tabsOf'[p]
  BY DEF Whole, StateOK, Present, GoneIsEmpty

\* Steps that leave panes and tabs alone leave the tabs' view alone.
LEMMA TabsSame ==
  ASSUME UNCHANGED <<panes, tabsOf, data>>
  PROVE  Present' = Present /\ TabsInPanes' = TabsInPanes
  BY DEF Present, TabsInPanes

\* An opened tab is one more.
LEMMA TabsOpen ==
  ASSUME Whole, Whole', NEW p \in PaneIds, NEW u \in TabIds, NEW d,
         tabsOf' = [tabsOf EXCEPT ![p] = @ \cup {u}],
         data' = [data EXCEPT ![u] = d]
  PROVE  /\ Present' = Present \cup {u}
         /\ TabsInPanes' = [TabsInPanes EXCEPT ![u] = d]
<1>1. \A q \in PaneIds : tabsOf'[q] = IF q = p THEN tabsOf[q] \cup {u} ELSE tabsOf[q]
  BY DEF Whole, StateOK
<1>2. Present' = Present \cup {u}
  BY <1>1, PresentIs, PresentIsNext
<1>3. \A t \in TabIds : data'[t] = IF t = u THEN d ELSE data[t]
  BY DEF Whole, StateOK
<1> QED BY <1>2, <1>3 DEF TabsInPanes

\* The tabs S of p are no longer there.
LEMMA TabsGone ==
  ASSUME Whole, Whole', NEW p \in PaneIds, NEW S, S \subseteq tabsOf[p],
         tabsOf' = [tabsOf EXCEPT ![p] = @ \ S],
         data' = Cleared(data, S)
  PROVE  /\ Present' = Present \ S
         /\ TabsInPanes' = Cleared(TabsInPanes, S)
<1>1. \A q \in PaneIds : tabsOf'[q] = IF q = p THEN tabsOf[q] \ S ELSE tabsOf[q]
  BY DEF Whole, StateOK
<1>2. \A q \in PaneIds \ {p} : tabsOf[q] \cap S = {}
  BY DEF Whole, PanesAreWhole, GoneIsEmpty
<1>3. ASSUME NEW t PROVE t \in Present' <=> t \in Present \ S
  <2>1. \A q \in PaneIds : t \in tabsOf'[q] <=> t \in tabsOf[q] /\ t \notin S
    BY <1>1, <1>2
  <2> QED BY <2>1, PresentIs, PresentIsNext
<1>4. Present' = Present \ S
  BY <1>3
<1>5. \A t \in TabIds : data'[t] = IF t \in S THEN None ELSE data[t]
  BY ClearedApplied
<1> QED BY <1>4, <1>5 DEF TabsInPanes, Cleared

\* A closed tab is one less.
LEMMA TabsAfterCloseTab ==
  ASSUME Whole, Whole', NEW p \in PaneIds, NEW t \in tabsOf[p], closeTab(p, t)
  PROVE  Present' = Present \ {t} /\ TabsInPanes' = Cleared(TabsInPanes, {t})
<1>1. tabsOf' = [tabsOf EXCEPT ![p] = @ \ {t}] /\ data' = Cleared(data, {t})
  BY DEF closeTab, Whole, StateOK
<1> QED BY <1>1, TabsGone

\* Closing a pane takes its tabs away.
LEMMA TabsAfterRemovePane ==
  ASSUME Whole, Whole', NEW p \in PaneIds, RemovePane(p)
  PROVE  /\ Present' = Present \ tabsOf[p]
         /\ TabsInPanes' = Cleared(TabsInPanes, tabsOf[p])
<1>1. /\ tabsOf' = [tabsOf EXCEPT ![p] = @ \ tabsOf[p]]
      /\ data' = Cleared(data, tabsOf[p])
  BY DEF RemovePane, Whole, StateOK
<1> QED BY <1>1, TabsGone

\* Moving a tab to another pane changes no tab.
LEMMA TabsAfterTabLeaves ==
  ASSUME Whole, Whole', NEW p \in PaneIds, NEW t \in tabsOf[p],
         NEW q \in PaneIds \ {p}, NEW prev,
         TabLeaves(p, t, q, tabsOf[q] \cup {t}, prev)
  PROVE  Present' = Present /\ TabsInPanes' = TabsInPanes
<1>1. \A r \in PaneIds : tabsOf'[r] = IF r = p THEN tabsOf[p] \ {t}
                                      ELSE IF r = q THEN tabsOf[q] \cup {t}
                                      ELSE tabsOf[r]
  BY DEF Whole, StateOK, TabLeaves
<1>2. ASSUME NEW u PROVE u \in Present' <=> u \in Present
  BY <1>1, PresentIs, PresentIsNext
<1>3. Present' = Present
  BY <1>2
<1> QED BY <1>3 DEF TabsInPanes, TabLeaves

\* What a performed request to close takes away.
LEMMA TabsAfterClose ==
  ASSUME Whole, Whole', NEW p \in PaneIds, NEW t \in tabsOf[p],
         performCloseWorkbenchTab(p, t)
  PROVE  Present' = Present \ {t} /\ TabsInPanes' = Cleared(TabsInPanes, {t})
  BY TabsAfterCloseTab, TabsAfterRemovePane
     DEF performCloseWorkbenchTab, performClosePane

-----------------------------------------------------------------------------
(* Unsaved changes *)

\* Only a confirmed request takes a tab with unsaved changes away.
LEMMA StepConfirms ==
  ASSUME IInv, IInv', [Next]_vars,
         NEW t \in Present, data[t].dirty, t \notin Present'
  PROVE  Confirmed(t)
<1> USE PresentTabs
<1>0. Whole /\ Whole' /\ t \in TabIds /\ activePane \in PaneIds
  BY DEF IInv, Whole, StateOK
<1>1. ASSUME NEW p \in PaneIds, NEW u \in TabIds, NEW d, openTabInPane(p, u, d)
      PROVE  FALSE
  BY <1>0, <1>1, TabsOpen DEF openTabInPane
<1>2. ASSUME UNCHANGED <<panes, tabsOf, data>> PROVE FALSE
  BY <1>2, TabsSame
<1>3. ASSUME UNCHANGED <<panes, tabsOf>> PROVE FALSE
  BY <1>3 DEF Present
<1>4. ASSUME NEW p \in PaneIds, performClosePane(p), t \notin tabsOf[p] PROVE FALSE
  BY <1>0, <1>4, TabsAfterRemovePane DEF performClosePane
<1>5. ASSUME NEW p \in PaneIds, NEW u \in tabsOf[p], performCloseWorkbenchTab(p, u),
             t # u
      PROVE  FALSE
  BY <1>0, <1>5, TabsAfterClose
<1>6. ASSUME NEW p \in PaneIds, NEW u \in TabIds, AddTab(p, u) PROVE FALSE
  BY <1>1, <1>6 DEF AddTab
<1>7. ASSUME NEW u \in TabIds, OpenTabInActivePane(u) PROVE FALSE
  BY <1>0, <1>1, <1>7 DEF OpenTabInActivePane
<1>8. ASSUME NEW tool \in Tools, NEW u \in TabIds, selectTool(tool, u) PROVE FALSE
  BY <1>0, <1>1, <1>2, <1>8 DEF selectTool
<1>9. ASSUME NEW p \in PaneIds, NEW v \in TabIds, NEW u \in TabIds,
             duplicateTab(p, v, u)
      PROVE  FALSE
  BY <1>1, <1>9 DEF duplicateTab
<1>10. ASSUME NEW p \in PaneIds, NEW q \in PaneIds, NEW u \in TabIds, splitPane(p, q, u)
       PROVE  FALSE
  BY <1>0, <1>10, PresentIs, PresentIsNext DEF splitPane, Whole, StateOK, GoneIsEmpty
<1>11. ASSUME NEW p \in PaneIds, requestClosePane(p) PROVE FALSE
  BY <1>2, <1>4, <1>11 DEF requestClosePane, AskFirst, Dirty
<1>12. ASSUME NEW p \in PaneIds, NEW u \in TabIds, requestCloseWorkbenchTab(p, u)
       PROVE  FALSE
  BY <1>2, <1>5, <1>12 DEF requestCloseWorkbenchTab, AskFirst
<1>13. CASE confirmPendingCloseRequest
  <2>1. /\ dialog.pane \in PaneIds /\ dialog # None /\ dialog' = None
        /\ dialog.tab # None => dialog.tab \in tabsOf[dialog.pane]
    BY <1>13 DEF confirmPendingCloseRequest, IInv, DialogIsCurrent, Requests
  <2> QED BY <1>2, <1>4, <1>5, <1>13, <2>1 DEF confirmPendingCloseRequest, Confirmed
<1>14. ASSUME NEW p \in PaneIds, NEW v \in TabIds, NEW u \in TabIds,
              detachTerminalTab(p, v, u)
       PROVE  FALSE
  <2>1. v \in tabsOf[p] /\ v # t
    BY <1>0, <1>14 DEF detachTerminalTab
  <2>2. CASE tabsOf[p] # {v} /\ closeTab(p, v)
    BY <1>0, <2>1, <2>2, TabsAfterCloseTab
  <2>3. CASE tabsOf[p] = {v} /\ RemovePane(p)
    BY <1>0, <2>1, <2>3, TabsAfterRemovePane
  <2>4. CASE panes = {p} /\ tabsOf[p] = {v}
    BY <2>1, <2>4 DEF Present
  <2> QED BY <1>14, <2>2, <2>3, <2>4 DEF detachTerminalTab
<1>15. ASSUME NEW p \in PaneIds, NEW v \in TabIds, NEW q \in PaneIds, moveTab(p, v, q)
       PROVE  FALSE
  BY <1>0, <1>15, TabsAfterTabLeaves DEF moveTab
<1>16. ASSUME NEW p \in PaneIds, NEW v \in TabIds, NEW q \in PaneIds, NEW r \in PaneIds,
              moveTabToNewPane(p, v, q, r)
       PROVE  FALSE
  <2>1. {v} = tabsOf[r] \cup {v} /\ v \in tabsOf[p] /\ r \in PaneIds \ {p}
    BY <1>0, <1>16 DEF moveTabToNewPane, Whole, GoneIsEmpty
  <2>2. TabLeaves(p, v, r, tabsOf[r] \cup {v}, Cleared(previous, {v}))
    BY <1>16, <2>1 DEF moveTabToNewPane
  <2> QED BY <1>0, <2>1, <2>2, TabsAfterTabLeaves
<1>17. ~(UNCHANGED vars) /\ ~(UNCHANGED <<panes, tabsOf>>)
  BY <1>3 DEF vars
<1> QED BY <1>6, <1>7, <1>8, <1>9, <1>10, <1>11, <1>12, <1>13, <1>14, <1>15, <1>16,
           <1>17
        DEF Next, focusPane, selectTab, CancelClose, MoveTabWithinPane, setTabDirty,
            setTerminalSessionId

\* No step but a confirmed one closes a tab that is marked as having unsaved
\* changes.
THEOREM UnsavedIsConfirmed == Spec => UnsavedNeedsConfirmation
<1>1. IInv /\ IInv' /\ [Next]_vars =>
        [\A t \in Present :
           (data[t].dirty /\ t \notin Present') => Confirmed(t)]_vars
  BY StepConfirms
<1> QED BY <1>1, Invariance, PTL DEF Spec, UnsavedNeedsConfirmation

-----------------------------------------------------------------------------
(* The workbench implements OpenTabs *)

LEMMA ViewOpened ==
  ASSUME Whole
  PROVE  /\ OpenTabsView!Opened = Present
         /\ \A t \in Present : TabsInPanes[t] = data[t]
         /\ \A t \in TabIds \ Present : TabsInPanes[t] = None
  BY PresentIs, NoneIsNothing DEF OpenTabsView!Opened, TabsInPanes

\* The abstract specification's data is the workbench's.
LEMMA ViewData == OpenTabsView!Data = Data
  BY DEF OpenTabsView!Data, Data, Tools

\* So are the sessions it shows ...
LEMMA ViewShown ==
  ASSUME Whole, NEW S, S \subseteq Present
  PROVE  OpenTabsView!Shown(S) = SessionsOf(S)
  BY ViewOpened DEF OpenTabsView!Shown, SessionsOf

\* ... and what is left when tabs are closed.
LEMMA ViewWithout ==
  ASSUME NEW S
  PROVE  OpenTabsView!Without(S) = Cleared(TabsInPanes, S)
  BY DEF OpenTabsView!Without, Cleared

\* The first state is one of the abstract specification.
LEMMA ViewInit ==
  ASSUME Init
  PROVE  OpenTabsView!Init
<1>1. PICK p \in PaneIds, t \in TabIds :
        /\ panes = {p}
        /\ tabsOf = [q \in PaneIds |-> IF q = p THEN {t} ELSE {}]
        /\ data = [u \in TabIds |-> IF u = t THEN NewTab("files", None) ELSE None]
  BY DEF Init
<1>2. NewTab("files", None) \in Data /\ ~NewTab("files", None).dirty
  BY NewTabType DEF Tools
<1>3. Present = {t}
  BY <1>1 DEF Present
<1>4. TabsInPanes = [u \in TabIds |-> IF u = t THEN NewTab("files", None) ELSE None]
  BY <1>1, <1>3 DEF TabsInPanes
<1> QED BY <1>2, <1>4, ViewData DEF OpenTabsView!Init, Init

\* A step that changes no tab and asks nothing is one of its steps.
LEMMA ViewQuiet ==
  ASSUME TabsInPanes' = TabsInPanes, asked' = {}
  PROVE  OpenTabsView!Next
  BY DEF OpenTabsView!Next, OpenTabsView!Rearrange

\* Opening a tab is its Open.
LEMMA ViewOpen ==
  ASSUME Whole, Whole', NEW p \in PaneIds, NEW u \in TabIds, NEW d \in Data,
         ~d.dirty, openTabInPane(p, u, d)
  PROVE  OpenTabsView!Next
<1>1. TabsInPanes' = [TabsInPanes EXCEPT ![u] = d] /\ asked' = {} /\ u \notin Present
  BY TabsOpen DEF openTabInPane
<1>2. OpenTabsView!Open(u, d)
  BY <1>1 DEF OpenTabsView!Open
<1> QED BY <1>1, <1>2, ViewOpened, ViewData DEF OpenTabsView!Next

\* The tabs S are closed, and the sessions only they show.
LEMMA ViewClose ==
  ASSUME Whole, NEW S, S \subseteq Present, S # {}, Present \ S # {},
         closeTerminalSessions(S), TabsInPanes' = Cleared(TabsInPanes, S)
  PROVE  OpenTabsView!Next
<1>1. OpenTabsView!Close(S)
  BY ViewOpened, ViewShown, ViewWithout DEF OpenTabsView!Close, closeTerminalSessions
<1> QED BY <1>1, ViewOpened DEF OpenTabsView!Next

\* Closing a pane is its Close of the pane's tabs.
LEMMA ViewClosePane ==
  ASSUME Whole, Whole', NEW p \in panes, performClosePane(p)
  PROVE  OpenTabsView!Next
<1>1. p \in PaneIds /\ tabsOf[p] # {} /\ tabsOf[p] \subseteq Present
  BY PresentTabs DEF Whole, StateOK, PanesAreWhole
<1>2. PICK q \in panes : q # p
  BY DEF performClosePane
<1>3. Present \ tabsOf[p] # {}
  BY <1>2 DEF Whole, PanesAreWhole, Present
<1>4. TabsInPanes' = Cleared(TabsInPanes, tabsOf[p])
  BY <1>1, TabsAfterRemovePane DEF performClosePane
<1> QED BY <1>1, <1>3, <1>4, ViewClose DEF performClosePane

\* Closing a tab is its Close of one.
LEMMA ViewCloseTab ==
  ASSUME Whole, Whole', NEW p \in PaneIds, NEW t \in tabsOf[p],
         performCloseWorkbenchTab(p, t)
  PROVE  OpenTabsView!Next
<1>1. p \in panes /\ tabsOf[p] \subseteq Present
  BY PresentTabs
<1>2. CASE tabsOf[p] # {t} /\ closeTerminalSessions({t})
  BY <1>1, <1>2, TabsAfterClose, ViewClose
<1>3. CASE performClosePane(p)
  BY <1>1, <1>3, ViewClosePane
<1> QED BY <1>2, <1>3 DEF performCloseWorkbenchTab

\* A terminal tab that leaves for another window is its Detach.
LEMMA ViewDetach ==
  ASSUME Whole, NEW t \in Present, data[t].tool = "terminal", asked' = {},
         Present # {t}, TabsInPanes' = Cleared(TabsInPanes, {t})
  PROVE  OpenTabsView!Next
<1>1. OpenTabsView!Detach(t)
  BY ViewOpened, ViewWithout DEF OpenTabsView!Detach
<1> QED BY <1>1, ViewOpened DEF OpenTabsView!Next

\* Every step of the workbench is a step of it or a stutter.
LEMMA StepImplements ==
  ASSUME IInv, IInv', [Next]_vars
  PROVE  [OpenTabsView!Next]_OpenTabsView!vars
<1> USE PresentTabs
<1>0. /\ Whole /\ Whole' /\ activePane \in PaneIds
      /\ \A p \in PaneIds, t \in TabIds : t \in tabsOf[p] => p \in panes
  BY DEF IInv, Whole, StateOK
<1>1. ASSUME NEW p \in PaneIds, NEW u \in TabIds, AddTab(p, u)
      PROVE  OpenTabsView!Next
  BY <1>0, <1>1, NewTabType, ViewOpen DEF AddTab
<1>2. ASSUME NEW u \in TabIds, OpenTabInActivePane(u) PROVE OpenTabsView!Next
  BY <1>0, <1>2, NewTabType, ViewOpen DEF OpenTabInActivePane, Tools
<1>3. ASSUME NEW tool \in Tools, NEW u \in TabIds, selectTool(tool, u)
      PROVE  OpenTabsView!Next
  BY <1>0, <1>3, NewTabType, ViewOpen, TabsSame, ViewQuiet DEF selectTool
<1>4. ASSUME NEW p \in PaneIds, NEW t \in TabIds, NEW u \in TabIds, duplicateTab(p, t, u)
      PROVE  OpenTabsView!Next
  BY <1>0, <1>4, CloneType, ViewOpen DEF duplicateTab
<1>5. ASSUME NEW p \in PaneIds, NEW q \in PaneIds, NEW u \in TabIds, splitPane(p, q, u)
      PROVE  OpenTabsView!Next
  <2> DEFINE d == cloneWorkbenchTab(data[activeTab[p]])
  <2>1. activeTab[p] \in tabsOf[p] /\ tabsOf[q] = {} /\ u \notin Present /\ asked' = {}
    BY <1>0, <1>5 DEF splitPane, Whole, PanesAreWhole, GoneIsEmpty
  <2>2. d \in Data /\ ~d.dirty
    BY <1>0, <2>1, CloneType
  <2>3. /\ tabsOf' = [tabsOf EXCEPT ![q] = @ \cup {u}]
        /\ data' = [data EXCEPT ![u] = d]
    BY <1>0, <1>5, <2>1 DEF splitPane, Whole, StateOK
  <2>4. TabsInPanes' = [TabsInPanes EXCEPT ![u] = d]
    <3> HIDE DEF d
    <3> QED BY <1>0, <2>3, TabsOpen
  <2>5. OpenTabsView!Open(u, d)
    BY <2>1, <2>2, <2>4 DEF OpenTabsView!Open
  <2> QED BY <1>0, <2>1, <2>2, <2>5, ViewOpened, ViewData DEF OpenTabsView!Next
<1>6. ASSUME NEW p \in PaneIds, focusPane(p) PROVE OpenTabsView!Next
  BY <1>6, TabsSame, ViewQuiet DEF focusPane
<1>7. ASSUME NEW p \in PaneIds, NEW t \in TabIds, selectTab(p, t) PROVE OpenTabsView!Next
  BY <1>7, TabsSame, ViewQuiet DEF selectTab
<1>8. ASSUME NEW p \in PaneIds, requestClosePane(p) PROVE OpenTabsView!Next
  BY <1>0, <1>8, TabsSame, ViewQuiet, ViewClosePane DEF requestClosePane, AskFirst
<1>9. ASSUME NEW p \in PaneIds, NEW t \in TabIds, requestCloseWorkbenchTab(p, t)
      PROVE  OpenTabsView!Next
  BY <1>0, <1>9, TabsSame, ViewQuiet, ViewCloseTab
     DEF requestCloseWorkbenchTab, AskFirst
<1>10. ASSUME confirmPendingCloseRequest PROVE OpenTabsView!Next
  <2>1. /\ dialog.pane \in PaneIds /\ dialog.pane \in panes
        /\ dialog.tab # None => dialog.tab \in tabsOf[dialog.pane]
    BY <1>10 DEF confirmPendingCloseRequest, IInv, DialogIsCurrent, Requests
  <2> QED BY <1>0, <1>10, <2>1, TabsSame, ViewQuiet, ViewCloseTab, ViewClosePane
          DEF confirmPendingCloseRequest
<1>11. ASSUME CancelClose PROVE OpenTabsView!Next
  BY <1>11, TabsSame, ViewQuiet DEF CancelClose
<1>12. ASSUME NEW p \in PaneIds, NEW t \in TabIds, NEW u \in TabIds,
              detachTerminalTab(p, t, u)
       PROVE  OpenTabsView!Next
  <2>1. /\ p \in panes /\ t \in tabsOf[p] /\ t \in Present
        /\ data[t].tool = "terminal" /\ asked' = {}
    BY <1>0, <1>12 DEF detachTerminalTab
  <2>2. CASE tabsOf[p] # {t} /\ closeTab(p, t)
    BY <1>0, <2>1, <2>2, TabsAfterCloseTab, ViewDetach
  <2>3. CASE tabsOf[p] = {t} /\ panes # {p} /\ RemovePane(p)
    <3>1. PICK q \in panes : q # p
      BY <2>1, <2>3
    <3>2. Present # {t}
      BY <1>0, <2>1, <3>1 DEF Whole, PanesAreWhole, Present
    <3> QED BY <1>0, <2>1, <2>3, <3>2, TabsAfterRemovePane, ViewDetach
  <2>4. CASE /\ tabsOf[p] = {t} /\ panes = {p} /\ u \notin Present
             /\ tabsOf' = [tabsOf EXCEPT ![p] = {u}]
             /\ data' = [Cleared(data, {t}) EXCEPT ![u] = NewTab("files", None)]
             /\ panes' = panes
    <3>1. Present = {t} /\ Present' = {u} /\ u # t
      BY <1>0, <2>1, <2>4 DEF Present, Whole, StateOK
    <3>2. TabsInPanes' = [Cleared(TabsInPanes, {t}) EXCEPT ![u] = NewTab("files", None)]
      <4> SUFFICES ASSUME NEW v \in TabIds
                   PROVE  TabsInPanes'[v] = [Cleared(TabsInPanes, {t})
                                               EXCEPT ![u] = NewTab("files", None)][v]
        BY DEF TabsInPanes, Cleared
      <4> QED BY <2>4, <3>1 DEF TabsInPanes, Cleared
    <3>3. NewTab("files", None) \in Data /\ ~NewTab("files", None).dirty
      BY NewTabType DEF Tools
    <3>4. OpenTabsView!Replace(t, u, NewTab("files", None))
      BY <1>0, <2>1, <3>1, <3>2, <3>3, ViewOpened, ViewWithout
         DEF OpenTabsView!Replace
    <3> QED BY <1>0, <2>1, <2>4, <3>3, <3>4, ViewOpened, ViewData
            DEF OpenTabsView!Next
  <2> QED BY <1>12, <2>2, <2>3, <2>4 DEF detachTerminalTab
<1>13. ASSUME NEW p \in PaneIds, NEW t \in TabIds, MoveTabWithinPane(p, t)
       PROVE  OpenTabsView!Next
  BY <1>13, TabsSame, ViewQuiet DEF MoveTabWithinPane
<1>14. ASSUME NEW p \in PaneIds, NEW q \in PaneIds, NEW t \in TabIds, moveTab(p, t, q)
       PROVE  OpenTabsView!Next
  <2>1. TabsInPanes' = TabsInPanes
    BY <1>0, <1>14, TabsAfterTabLeaves DEF moveTab
  <2> QED BY <1>14, <2>1, ViewQuiet DEF moveTab, TabLeaves
<1>15. ASSUME NEW p \in PaneIds, NEW q \in PaneIds, NEW r \in PaneIds, NEW t \in TabIds,
              moveTabToNewPane(p, t, q, r)
       PROVE  OpenTabsView!Next
  <2>1. {t} = tabsOf[r] \cup {t} /\ t \in tabsOf[p] /\ r \in PaneIds \ {p}
    BY <1>0, <1>15 DEF moveTabToNewPane, Whole, GoneIsEmpty
  <2>2. TabLeaves(p, t, r, tabsOf[r] \cup {t}, Cleared(previous, {t}))
    BY <1>15, <2>1 DEF moveTabToNewPane
  <2>3. TabsInPanes' = TabsInPanes
    BY <1>0, <2>1, <2>2, TabsAfterTabLeaves
  <2> QED BY <2>2, <2>3, ViewQuiet DEF TabLeaves
<1>16. ASSUME NEW p \in PaneIds, NEW t \in TabIds, NEW dirty \in BOOLEAN,
              setTabDirty(p, t, dirty)
       PROVE  OpenTabsView!Next
  <2>1. t \in Present /\ Present' = Present /\ data[t].tool = "files" /\ asked' = {}
    BY <1>0, <1>16 DEF setTabDirty, Present
  <2>2. TabsInPanes' = [TabsInPanes EXCEPT ![t].dirty = dirty]
    BY <1>0, <1>16, <2>1 DEF setTabDirty, TabsInPanes, Whole, StateOK
  <2>3. OpenTabsView!SetDirty(t, dirty)
    BY <1>0, <2>1, <2>2, ViewOpened DEF OpenTabsView!SetDirty
  <2> QED BY <1>0, <2>1, <2>3, ViewOpened DEF OpenTabsView!Next
<1>17. ASSUME NEW p \in PaneIds, NEW t \in TabIds, NEW s \in Sessions \cup {None},
              setTerminalSessionId(p, t, s)
       PROVE  OpenTabsView!Next
  <2>1. t \in Present /\ Present' = Present /\ data[t].tool = "terminal" /\ asked' = {}
    BY <1>0, <1>17 DEF setTerminalSessionId, Present
  <2>2. TabsInPanes' = [TabsInPanes EXCEPT ![t].session = s]
    BY <1>0, <1>17, <2>1 DEF setTerminalSessionId, TabsInPanes, Whole, StateOK
  <2>3. OpenTabsView!SetSession(t, s)
    BY <1>0, <2>1, <2>2, ViewOpened DEF OpenTabsView!SetSession
  <2> QED BY <1>0, <2>1, <2>3, ViewOpened DEF OpenTabsView!Next
<1>18. CASE UNCHANGED vars
  BY <1>18, TabsSame DEF vars, OpenTabsView!vars
<1> QED BY <1>1, <1>2, <1>3, <1>4, <1>5, <1>6, <1>7, <1>8, <1>9, <1>10, <1>11,
           <1>12, <1>13, <1>14, <1>15, <1>16, <1>17, <1>18 DEF Next

\* Whatever is done to panes, tabs are opened, closed and detached only as
\* OpenTabs allows, and exactly the sessions that no tab shows are closed.
THEOREM ImplementsOpenTabs == Spec => OpenTabsSpec
<1>1. Init => OpenTabsView!Init
  BY ViewInit
<1>2. IInv /\ IInv' /\ [Next]_vars => [OpenTabsView!Next]_OpenTabsView!vars
  BY StepImplements
<1> QED BY <1>1, <1>2, Invariance, PTL DEF Spec, OpenTabsSpec, OpenTabsView!Spec
=============================================================================
