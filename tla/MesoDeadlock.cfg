SPECIFICATION Spec
CONSTANTS
    o = o
    m = m
    p = p
    x = x
    city = city
    linkA = linkA
    linkB = linkB
    linkC = linkC
    streetU = streetU
    streetD = streetD
    Nodes <- MCNodes
    Links <- MCLinks
    Meso <- MCMeso
    From <- MCFrom
    To <- MCTo
    Vehicles <- MCVehicles
    Route <- MCShortRoute
    Departures <- MCDepartures
    Headway = 3
    Cross <- MCShort
    Wave <- MCShort
    Room <- MCShort
    ExitHeadway = 1
    TimeStep = 2
    LastInstant = 30
    Period = 4
    MaxRollbacks = 0
CHECK_DEADLOCK FALSE
INVARIANT BlockedNodesReleased
