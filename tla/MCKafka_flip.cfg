SPECIFICATION Spec
CONSTANTS
    Jobs = {j1}
    Workers = {w1, w2}
    Partitions = {p1}
    Absent = Absent
    NoSnap = NoSnap
    NoPod = NoPod
    NoJob = NoJob
    JOB_TTL = 2
    MaxCrashes = 0
    MaxEvictions = 0
    MaxRebalances = 0
    MaxRedisErrors = 0
    MaxPublishErrors = 1
SYMMETRY Symmetry
INVARIANT
    StatusInBoth
