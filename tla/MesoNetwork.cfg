SPECIFICATION Spec
CONSTANTS
    o = o
    m = m
    p = p
    x = x
    city = city
    linkA = linkA
    linkB = linkB
    linkC = linkC
    streetU = streetU
    streetD = streetD
    Nodes <- MCNodes
    Links <- MCLinks
    Meso <- MCMeso
    From <- MCFrom
    To <- MCTo
    Vehicles <- MCVehicles
    Route <- MCRoute
    Departures <- MCDepartures
    Headway = 3
    Cross <- MCCross
    Wave <- MCWave
    Room <- MCRoom
    ExitHeadway = 4
    TimeStep = 2
    LastInstant = 30
    Period = 4
    MaxRollbacks = 1
CHECK_DEADLOCK FALSE
INVARIANTS
    TypeOK
    OnePlace
    EventsConsumable
    NoLostWakeup
    NoEventMissed
    ExitCapacityKept
PROPERTIES
    LinkCapacityKept
    GapRespected
    RefusedRetriesLater
