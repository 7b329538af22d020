\* Three panes, four tabs and a session that several of them may show: a pane
\* of several tabs beside others, moves that empty a pane, splits of what is left.
SPECIFICATION Spec
CONSTANTS
  PaneIds = {p1, p2, p3}
  TabIds = {t1, t2, t3, t4}
  Sessions = {s1}
  None = None
SYMMETRY MCSymmetry
INVARIANTS
  PanesAreWhole
  HistoryStaysInPane
PROPERTIES
  UnsavedNeedsConfirmation
  OpenTabsSpec
