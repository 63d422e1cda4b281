INIT EditorInit
NEXT EditorNext
CONSTANTS
  MaxStock = 2
  Nothing = Nothing
  Idle = Idle
  Sent = Sent
PROPERTY ToggleKeepsNotes
CHECK_DEADLOCK FALSE
