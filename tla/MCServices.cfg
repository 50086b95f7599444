SPECIFICATION ServicesSpec
CONSTANTS
  MaxSessions = 2
  MaxSends = 2
  FormActions = {"a", "b"}
  Shelled = {"a"}
  Texts = {"x", "y"}
  Sizes <- MCSizes
  CacheCap = 1
  MaxFetches = 3
  ConfigIds <- MCConfigIds
  Minted <- MCMinted
  Stable <- MCStable
  SeedOf <- MCSeedOf
  Kind <- MCKind
  InitCols <- MCInitCols
  TabHosts <- MCNone
  Draggable <- MCNone
  MaxUndo = 1
  MaxColumns = 1
  MaxDying = 2
INVARIANTS
  SessionAndPaneAgree ListsBelong
  SessionsPlaced JobsAgree VisibleHasSession
PROPERTIES BusyEnds PendingEnds
CHECK_DEADLOCK FALSE
