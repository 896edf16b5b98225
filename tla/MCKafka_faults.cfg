SPECIFICATION Spec
CONSTANTS
    Jobs = {j1}
    Workers = {w1, w2}
    Partitions = {p1}
    Absent = Absent
    NoSnap = NoSnap
    NoPod = NoPod
    NoJob = NoJob
    JOB_TTL = 1
    MaxCrashes = 1
    MaxEvictions = 1
    MaxRebalances = 1
    MaxRedisErrors = 1
    MaxPublishErrors = 1
SYMMETRY Symmetry
INVARIANTS
    TypeOK
    RecordCoherent
    CompletedEventHasResult
    EventsAgree
PROPERTY
    ImplementsContract
