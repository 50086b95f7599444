SPECIFICATION ScreenSpec
CONSTANTS
  Window <- MCWindow
  Refreshes = {1, 2}
  Overlays = {"jobs"}
  MaxStreams = 2
  MaxSamples = 2
  Order <- MCOrder
  Parent <- MCParent
  Root = "root"
  Quick = {"b"}
  ContainersOf <- MCContainers
  ActionsOf <- MCActions
  Focusable <- MCFocusable
  Cap = 2
  Pids = {1, 2, 3}
  MaxLoad = 2
  FirstSync <- MCFirstSync
  Matching = {2}
  DataRows = 2
  MaxSyncs = 1
  MaxGestures = 3
INVARIANTS SignalIsAimed LiveIsDesired StreamOnce MonitorsServed RingTracksHere
PROPERTIES TravelLands TreeShowsGroup
CHECK_DEADLOCK FALSE
