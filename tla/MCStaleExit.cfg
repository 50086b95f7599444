SPECIFICATION TermSpec
CONSTANTS
  ConfigIds <- MCConfigIds
  Minted <- MCMinted
  Stable <- MCStable
  SeedOf <- MCSeedOf
  Kind <- MCKind
  InitCols <- MCInitCols
  TabHosts <- MCNone
  Draggable <- MCNone
  MaxUndo = 1
  MaxColumns = 1
  MaxDying = 1
PROPERTIES StaleExitIgnored
