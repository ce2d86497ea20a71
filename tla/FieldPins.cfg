SPECIFICATION Spec
CONSTANTS
    MaxOrdinalSpace = 3
    Numbers = {1, 2, 3, 5}
    Pins <- MCPins
    Severities = {"warn", "error"}
INVARIANTS TypeOK PlaceholdersApart
PROPERTIES ClashReported NoSilentMove UnpinnedNeverMoves RebuildMovesNothing
