SPECIFICATION Spec
CONSTANTS
    TabInterval = 2
    MaxCols = 3
    MaxRows = 5
    MaxScreenCells = 9
    MaxParams = 16
    Cols = 3
    Rows = 3
    Limit = 2
    MaxSteps = 3
    LadderSteps = 1
    Prepared <- MCPrepared
    Chars <- MCChars
    Controls <- MCControls
    Escapes <- MCEscapes
    Sequences <- MCSequences
    Sizes <- MCSizes
INVARIANTS
    GridWellFormed
    SnapshotRestores
    LadderFirstFit
CHECK_DEADLOCK FALSE
