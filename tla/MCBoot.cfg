SPECIFICATION BootSpec
CONSTANTS
  Documents <- MCDocuments
  Users <- MCUsers
  Splits <- MCSplits
  PoolKind <- MCPoolKind
  LeftPool <- MCLeftPool
  RightPool <- MCRightPool
  Cells <- MCCells
  MaxWritten = 3
  MaxCells = 3
  a = a
  b = b
  p = p
  q = q
  Labels <- MCLabels
  Slots <- MCNone
  Producers <- MCNone
  MaxJobs = 3
  Gated <- MCGated
  Ports <- MCPorts
  PortsOf <- MCPortsOf
  ItemActions <- MCNone
  EditArgs <- MCGated
  Ptys = {"t1", "t2"}
  Contents = {"x", "y"}
  MaxChanges = 5
  Tabs = {"t1", "t2", "t3"}
  Columns = {"p1", "p2"}
  ColumnOf <- MCColumnOf
  Tall = {1, 2}
  Seeds <- MCSeeds
  RingCap = 3
  MaxLineId = 5
  MaxGestures = 4
INVARIANTS AcceptedIsUsable Layered GridSound ScreenIsCurrent PushedIsChosen
PROPERTIES PreemptionApproved
CHECK_DEADLOCK FALSE
