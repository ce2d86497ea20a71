SPECIFICATION Spec
CONSTANTS
    Values <- MCValues
    NumberOf <- MCNumberOf
    Methods = {"Get", "List", "Abort"}
    Pins = {}
    Severities = {"error"}
PROPERTIES RemovedSlotCovered
