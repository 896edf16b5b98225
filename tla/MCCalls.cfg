SPECIFICATION Spec
CONSTANTS
    MetricLists <- MCMetricLists
    Given <- MCGiven
    Signature <- MCSignature
    Labels = {"x", "y", "z"}
    MaxSamples = 3
    PartLists <- MCPartLists
    Separators <- MCSeparators
    ChunkSizes = {1, 2, 3, 4}
    Overlaps = {0, 1, 2, 5}
    Totals = {0, 1, 2, 3, 4, 5, 6, 7, 8, 9}
    PageSizes = {1, 2, 3, 4}
INVARIANTS RefusedUnjudged EventMatchesResult VerdictsAgree SummaryAgrees ChunkBound NothingLost PagesPartition
CHECK_DEADLOCK FALSE
