SPECIFICATION Spec
CONSTANTS
  PaneIds = {"files", "cfg", "groups"}
  Minted = {"tv"}
  TabHosts = {"groups"}
  KindOf <- MCKindOf
  Dirs = {"/", "/sub"}
  MaxLoads = 2
  MaxMints = 1
  Containers = {"c1"}
  Processes = {"p1", "p2"}
  MaxChanges = 2
  Locations = {l1, l2, l3}
  Cap = 4
INVARIANT SlicesStayHome
