SPECIFICATION TraverseSpec
CONSTANTS
  Types <- MCTypes
  NoOutput <- MCNoOutput
  Traits <- MCTraits
  NoTrait <- MCNoTrait
  Names <- MCNames
  NotCompatible <- NotCompatibleCall
  NoFuzzableType <- NoFuzzable
  SameType <- same_type
  IsFuzzable <- is_fuzzable_type
  FuzzableTypeOf <- fuzzable_type
  FuzzableCallOf <- fuzzable_call
  IsMultiDynamic <- is_multiple_dynamic_length
  MoveCondition <- move_condition
  MutableBorrow <- is_mutable_borrow_occurs
  ImmutableBorrow <- is_immutable_borrow_occurs
  NeedMutTag <- need_mut_tag
  UnsafeCall <- unsafe_call_type
  IsEndType <- is_end_type
  IsGenericType <- is_generic_type
  IsMutBorrowType <- MCIsMutBorrowType
  PreludeFunction <- MCPreludeFunction
  InvisibleFunction <- MCInvisibleFunction
  Crates <- MCCrates
  MaxLen = 3
  StopAtEnd = TRUE
  FastModes = {FALSE}
  Tasks <- MCTasks
  Strategies <- MCStrategies
  MaxSize = 5
  RandomSize = 2
  MaxTestFiles = 3
  MaxSequenceNumber = 40
INVARIANTS
  TargetsCorrect
  StopsAtEnd
  NoneExtendedTwice
  WalkIsBounded
  WalkFilesAreFirst
  DeepIsComplete
PROPERTY
  ImplementsTargetGrowth
