\* The engine stops when the simulation does: no action is enabled at EndTime.
SPECIFICATION Spec
CONSTANTS
    Trips = {1, 2, 3, 4}
    Unroutable = {4}
    Population <- MCPopulation
    Departure <- MCDeparture
    Plans <- MCPlans
    Dt = 2
    WalkTime = 1
    MaxDelay = 3
    EndTime = 6
    MaxRollbacks = 1
INVARIANTS
    TypeOK
    LegsOnceInOrder
    NobodyLost
    ArrivalsFollowLegs
    LatenessBounded
CHECK_DEADLOCK FALSE
