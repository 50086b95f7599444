SPECIFICATION Spec
CONSTANTS
  ConfigIds <- MCConfigIds
  Minted <- MCMinted
  SeedOf <- MCSeedOf
  Kind <- MCKind
  InitCols <- MCInitCols
  TabHosts <- MCViewer
  Draggable <- MCDraggable
  MaxUndo = 1
  MaxColumns = 2
INVARIANTS SavedIdsDeclared
