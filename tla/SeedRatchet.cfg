SPECIFICATION Spec
CONSTANTS
    MaxConns = 4
INVARIANTS
    ClientNeverAhead
    SeedAgreement
    OldSeedsGone
CHECK_DEADLOCK FALSE
