\* The registry with a backend that removes what it installed.
CONSTANTS
  Demo = Demo
  ModA = ModA
  ModB = ModB
  Init1 = Init1
  Update1 = Update1
  NoPtr = NoPtr
  RealTrampoline = RealTrampoline
  Mod <- MCMod
  Target <- MCTarget
  Link <- MCLink
  OwnerOf <- MCOwnerOf
  TargetOf <- MCTargetOf
  Priority <- MCPriority
  Slotted <- MCSomeSlotted
  Resolved <- MCSomeResolved
  Planned <- MCPlanned
  Available = TRUE
  RemoveCanFail = FALSE
SPECIFICATION Spec
INVARIANTS CallRunsTheChain HooksMatchTheRegistry
PROPERTIES TeardownLeavesNothingPlanned
