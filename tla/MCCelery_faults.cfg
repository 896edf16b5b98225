SPECIFICATION Spec
CONSTANTS
    Jobs = {j1}
    Workers = {w1, w2}
    Tags = {t1, t2, t3, t4}
    Absent = Absent
    NoSnap = NoSnap
    NoTag = NoTag
    JOB_TTL = 2
    MAX_RETRIES = 1
    MaxCrashes = 1
    MaxSlow = 1
    MaxRedisErrors = 1
SYMMETRY Symmetry
INVARIANTS
    TypeOK
    RecordCoherent
    NoLostTask
    RetryBound
    QuietIsTerminal
PROPERTIES
    ImplementsContract
    CompletedIsFinal
