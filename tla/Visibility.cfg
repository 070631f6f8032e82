SPECIFICATION Spec
CONSTANTS
    Segments <- SegmentSet
    NoTrait = NoTrait
    Crates <- AllCrates
    Begins <- BeginsTable
INVARIANTS
    VisibilityExact
    AllModsResolved
    KeptCanBeNamed
    LostToPrefixOnly
