\* Every chain of up to four nodes, dispatched with every behaviour of handlers.
CONSTANTS
  ModA = ModA
  ModB = ModB
  Update1 = Update1
  NoPtr = NoPtr
  RealTrampoline = RealTrampoline
  Mod <- MCMod
  Target <- MCTarget
  Link <- MCLink
  OwnerOf <- MCOwnerOf
  TargetOf <- MCTargetOf
  Priority <- MCPriority
  LoadOrder <- MCLoadOrder
  Handled <- MCHandled
SPECIFICATION Spec
INVARIANTS VectorIsAChain RunsOnceInOrder
PROPERTIES StepsKeepTheChain
