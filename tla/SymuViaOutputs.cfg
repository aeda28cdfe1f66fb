\* The instance stops when the simulation does: no call is made at MaxSteps.
SPECIFICATION InstanceSpec
CONSTANTS
    MaxSteps = 8
    MaxSnapshots = 2
    MaxRollbacks = 4
    OutputPeriod = 3
INVARIANTS
    TypeOK
    XmlFollowsHistory
    WritersAgree
    CsvFollowsHistory
    TravelTimesFollowHistory
    OutputsCommitted
    SnapshotsInPlace
CHECK_DEADLOCK FALSE
