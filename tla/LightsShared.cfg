\* The simulation stops at LastInstant.
SPECIFICATION Spec
CONSTANTS
    Plan <- MCPlan
    Movements = {"main", "turn", "side"}
    Crossing <- MCCrossing
    Buses = {b1, b2}
    Movement <- MCMovement
    SharedSeq <- MCSharedPriority
    Estimates <- MCLongEstimates
    VertMin <- MCVertMin
    Degagement <- MCDegagement
    Ticks = 504
    Duration <- MCDuration
    Period <- MCPeriod
    LastInstant <- MCLastInstant
    MaxRollbacks = 1
INVARIANTS
    ProcessedBusGreen
CHECK_DEADLOCK FALSE
