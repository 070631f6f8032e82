SPECIFICATION Spec
CONSTANTS
  Dids <- MCDids
  Known <- MCKnown
  None = None
  Wrappers <- MCWrappers
  SeenThrough <- MCSeenThrough
  Crates <- MCCrates
INVARIANTS
  AddedOncePerKey
  TraitCallsInferSelf
