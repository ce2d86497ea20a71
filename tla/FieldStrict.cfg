SPECIFICATION LSpec
CONSTANTS
    MaxOrdinalSpace = 4
    Numbers = {1, 2, 3, 4, 5}
    Pins = {}
    Severities = {"error"}
INVARIANTS OneOffset Dense
PROPERTIES KeepsLineage LossMovesNothing
