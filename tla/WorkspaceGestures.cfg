\* Gestures, edits, queued resizes, saves and reloads over layouts of every stored format.
CONSTANTS
  None = None
  DefaultWidths <- OneRow
  StoredLayouts <- OldLayouts
  PointerWidths = {15}
  MaxGestures = 2
  MaxEdits = 1
  MaxReloads = 1
SPECIFICATION Spec
INVARIANTS
  TypeOK
  IdsUnique
  GestureFollowsPointer
  StoredIsKept
CHECK_DEADLOCK FALSE
