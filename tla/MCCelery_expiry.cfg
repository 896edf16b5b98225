SPECIFICATION Spec
CONSTANTS
    Jobs = {j1}
    Workers = {w1, w2}
    Tags = {t1, t2, t3}
    Absent = Absent
    NoSnap = NoSnap
    NoTag = NoTag
    JOB_TTL = 2
    MAX_RETRIES = 1
    MaxCrashes = 0
    MaxSlow = 0
    MaxRedisErrors = 0
SYMMETRY Symmetry
PROPERTY
    NoExpiryMidFlight
