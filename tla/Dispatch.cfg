SPECIFICATION Spec
CHECK_DEADLOCK FALSE
CONSTANTS
    Helpers <- MCHelpers
    Sites <- MCSites
    Types <- MCTypes
    MaxRows = 3
INVARIANTS
    DecidesFirstMatch
    ProjectedBeforeRead
    DemandedPartsDecide
