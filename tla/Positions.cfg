SPECIFICATION Spec
CONSTANTS
    Values <- MCValues
    NumberOf <- MCNumberOf
    Methods = {"Get", "List", "Abort"}
    Pins = {1}
    Severities = {"warn", "error"}
INVARIANTS AliasesShare
PROPERTIES UnpinnedNeverMoves ClashReported RebuildMovesNothing
