SPECIFICATION Spec
CONSTANTS
  d1 = d1
  d2 = d2
  Dirs = {d1, d2}
  Busy = {d1}
  Names = {n1}
  Missing = Missing
  Parent <- MCParent
  Home = d1
  NoPath = NoPath
  Edit = Edit
  NoFile = NoFile
  MaxVersion = 4
  MaxWire = 1
  MaxHistory = 1
  MaxLosses = 1
  MaxSaves = 1
  Patient = TRUE
INVARIANTS
  RowsOfLocation
  UnmarkedIsCurrent
  MarkIsHonest
PROPERTIES
  ListingCatchesUp
  TrashCatchesUp
CONSTRAINT LastChanges
