SPECIFICATION ChooseSpec
CONSTANTS
  Types <- MCTypes
  NoOutput <- MCNoOutput
  Traits <- MCTraits
  NoTrait <- MCNoTrait
  Names <- MCNames
  NotCompatible <- NotCompatibleCall
  NoFuzzableType <- NoFuzzable
  SameType <- same_type
  IsFuzzable <- is_fuzzable_type
  FuzzableTypeOf <- fuzzable_type
  FuzzableCallOf <- fuzzable_call
  IsMultiDynamic <- is_multiple_dynamic_length
  MoveCondition <- move_condition
  MutableBorrow <- is_mutable_borrow_occurs
  ImmutableBorrow <- is_immutable_borrow_occurs
  NeedMutTag <- need_mut_tag
  UnsafeCall <- unsafe_call_type
  IsEndType <- is_end_type
  IsGenericType <- is_generic_type
  IsMutBorrowType <- MCIsMutBorrowType
  PreludeFunction <- MCPreludeFunction
  InvisibleFunction <- MCInvisibleFunction
  IsFixedLength <- is_fixed_length
  Crates <- ChooseCrates
  MaxLen = 3
  StopAtEnd = TRUE
  FastModes = {FALSE}
  MaxTestFiles = 2
INVARIANTS
  FilesGain
  DynamicFirst
  FilesCoverNodesOrEdges
