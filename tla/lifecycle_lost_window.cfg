\* A mod whose first enable failed is Enabled later without its hooks.
CONSTANTS
  Demo = Demo
  ModA = ModA
  ModB = ModB
  Init1 = Init1
  Update1 = Update1
  NoPtr = NoPtr
  RealTrampoline = RealTrampoline
  Mod <- MCMod
  Planned <- MCPlanned
  Order <- MCOrder
  Target <- MCTarget
  Link <- MCLink
  OwnerOf <- MCOwnerOf
  TargetOf <- MCTargetOf
  Priority <- MCPriority
  Slotted <- MCLink
  Resolved <- MCResolved
  Available = TRUE
  RemoveCanFail = FALSE
SPECIFICATION LifecycleSpec
INVARIANTS EnabledModsAreHooked
