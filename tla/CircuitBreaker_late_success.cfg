CONSTANTS
    Callers = {c1, c2}
    FailureThreshold = 2
    SuccessThreshold = 1
    OpenTimeout = 1
SPECIFICATION Spec
PROPERTIES
    HalfOpenFailureReopens
