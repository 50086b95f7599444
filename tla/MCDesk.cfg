SPECIFICATION DeskSpec
CONSTANTS
  ConfigIds <- MCConfigIds
  Minted <- MCMinted
  SeedOf <- MCSeedOf
  Kind <- MCKind
  InitCols <- MCInitCols
  TabHosts = {}
  Draggable <- MCDraggable
  MaxUndo = 1
  MaxColumns = 2
  Terms = {"t"}
  FromBoot = FALSE
  Cadence = 2
  ReverseBases = 1
  ScanCap = 3
  MaxLog = 4
  MaxStray = 1
  MaxKeys = 3
  MaxEvents = 3
  MaxFlips = 1
  PasteMax = 5
  Commands <- MCCommands
  MaxDue = 1
INVARIANTS ViewerRemains FocusPlaced ChunksDontMatter EscLeadsOut OneModal
PROPERTIES GestureUndoable ReplayExact
CHECK_DEADLOCK FALSE
