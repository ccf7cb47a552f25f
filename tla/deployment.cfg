SPECIFICATION FairSpec
CONSTANT Plans <- Checked
INVARIANT PoolsWired
INVARIANT RecordsAgree
INVARIANT NotLeftPaused
PROPERTY MigrationCompletes
CHECK_DEADLOCK FALSE
