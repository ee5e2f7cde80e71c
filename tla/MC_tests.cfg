SPECIFICATION Spec
CONSTANTS
    Objects <- SomeObjects
    Filters <- SomeFilters
    Skipped = {4}
    Main = "test"
    MaxFrames = 5
INVARIANTS
    TestsReportedOnce
    InfluencesKnown
    CoverageExact
CHECK_DEADLOCK FALSE
