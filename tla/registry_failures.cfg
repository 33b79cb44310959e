\* The registry with a backend that may fail to remove a hook.
CONSTANTS
  Demo = Demo
  ModA = ModA
  ModB = ModB
  Init1 = Init1
  Update1 = Update1
  NoPtr = NoPtr
  RealTrampoline = RealTrampoline
  Mod <- MCMod
  Target <- MCTarget
  Link <- MCFewerLinks
  OwnerOf <- MCOwnerOf
  TargetOf <- MCTargetOf
  Priority <- MCPriority
  Slotted <- MCFewerLinks
  Resolved <- MCFewerLinks
  Planned <- MCPlanned
  Available = TRUE
  RemoveCanFail = TRUE
SPECIFICATION Spec
INVARIANTS TypeOK Wired LedgerIsUnionOfChains
PROPERTIES OthersKeepTheirHooks LostTargetStaysLost
