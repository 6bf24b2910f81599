SPECIFICATION Spec
CONSTANTS
    NProducts = 6
    Facts = {1, 2}
    Kind <- MCKind
    Uses <- MCUses
    Inputs <- MCInputs
    Callees <- MCCallees
    Refused <- MCRefused
    MaxRev = 3
    MaxMoves = 3
    Observable = {5}
    Overtakes = FALSE
    FrontDoors = {5, 6}
    Budget = 30
    MaxParked = 1
INVARIANTS
    SettledIsFromScratch
    SettledOnSettled
    ReadersAreExact
    NeverPanics
    ToldIsTrue
    DemandIsQueued
    WithinBudget
PROPERTIES
    ServedIsCurrent
