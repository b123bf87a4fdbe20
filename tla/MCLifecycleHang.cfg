CONSTANTS
    Fails = {"collector"}
    MaxAlerts = 2
SPECIFICATION Spec
CHECK_DEADLOCK FALSE
PROPERTIES
    ErrorPathReturns
