\* One drop on the rows of the default layout.
CONSTANTS
  None = None
  DefaultWidths <- TwoRows
  StoredLayouts <- NoLayout
  PointerWidths = {}
  MaxGestures = 1
  MaxEdits = 0
  MaxReloads = 0
SPECIFICATION Spec
INVARIANTS
  SideDropLandsInRow
CHECK_DEADLOCK FALSE
