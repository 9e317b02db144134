CONSTANTS
    Process = {p1, p2}
    Artifact = {a1}
    Records = 1
    MaxAttempts = 2
SPECIFICATION LiveSpec
PROPERTIES
    SuccessIsFinal
