SPECIFICATION Spec
CONSTANTS
    Coverage = 5
    CoverageUnit = 6
    HealthUnit = 1000
    MinAllowedHealth = 18
    Scenarios <- MCScenarios
    Amounts = {1, 2}
    MaxOps = 2
INVARIANTS
    QuietMeansTrue
PROPERTIES
    UpdatesFollowChain
    PreviewKept
    Settles
CHECK_DEADLOCK FALSE
