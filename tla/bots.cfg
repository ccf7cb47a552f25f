SPECIFICATION MonitorsSpec
CONSTANTS
    ann = ann
    bob = bob
    Loans = {ann, bob}
    Scenarios <- MCScenarios
    Patience = 2
    Delays = {1, 2}
    txPerPage = 2
    MaxTxs = 5
    Blocks <- MCBlocks
INVARIANTS
    NothingLeftOpen
    AlarmsAreTrue
PROPERTIES
    InsolventIsAttended
