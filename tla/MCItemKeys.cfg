SPECIFICATION RunsSpec
CONSTANTS
  a = a
  b = b
  p = p
  q = q
  Labels <- MCLabels
  Slots <- MCNone
  Producers <- MCNone
  MaxJobs = 3
  Gated <- MCGated
  Ports <- MCPorts
  PortsOf <- MCNoPorts
  ItemActions <- MCGated
  EditArgs <- MCNone
INVARIANTS ConfirmGatesRun
CHECK_DEADLOCK FALSE
