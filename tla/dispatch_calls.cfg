\* Calls of the game interleaved with every store of the registry.
CONSTANTS
  ModA = ModA
  ModB = ModB
  Update1 = Update1
  NoPtr = NoPtr
  RealTrampoline = RealTrampoline
  Mod <- MCMod
  Target <- MCTarget
  Link <- MCLink
  OwnerOf <- MCOwnerOf
  TargetOf <- MCTargetOf
  Priority <- MCPriority
  Slotted <- MCLink
  Resolved <- MCLink
  Planned <- MCPlanned
  Available = TRUE
  RemoveCanFail = FALSE
SPECIFICATION DispatchSpec
INVARIANTS StoresAreInOrder RunsTheSteadyChain
PROPERTIES CallsEnd
