\* The bytes of every small target, for every length up to 24.
SPECIFICATION Spec
CONSTANTS
    Targets <- LayoutTargets
    MaxData = 24
INVARIANTS
    ReadsPartitionData
    OnlySliceEndsAreLost
    
    EvenSplitIsEnough
