SPECIFICATION FairSpec
CONSTANTS
    Jobs = {j1, j2}
    Workers = {w1, w2}
    Partitions = {p1}
    Absent = Absent
    NoSnap = NoSnap
    NoPod = NoPod
    NoJob = NoJob
    JOB_TTL = 1
    MaxCrashes = 0
    MaxEvictions = 0
    MaxRebalances = 1
    MaxRedisErrors = 0
    MaxPublishErrors = 0
PROPERTY
    EventuallyReported
