SPECIFICATION Spec
CONSTANTS
  tab = tab
  l1 = l1
  l2 = l2
  Slots <- MCSlots
  Producers <- MCProducers
  Labels <- MCLabels
  MaxJobs = 3
INVARIANTS SlotOwnership StoresAgree NoStrayProcess ViewBelongsToRun
PROPERTIES OutputFresh OutcomeFinal EndedJobCloses
CHECK_DEADLOCK FALSE
