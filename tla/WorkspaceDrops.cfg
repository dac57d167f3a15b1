\* One drop on layouts of four and of five modules.
CONSTANTS
  None = None
  DefaultWidths <- TwoRows
  StoredLayouts <- FourOrFive
  PointerWidths = {}
  MaxGestures = 1
  MaxEdits = 0
  MaxReloads = 0
SPECIFICATION Spec
INVARIANTS
  RowsFit
  DropLandsBeside
  DropNarrowsEvenly
CHECK_DEADLOCK FALSE
