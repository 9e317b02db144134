CONSTANTS
    Process = {p1, p2}
    Artifact = {a1}
    Records = 2
    MaxAttempts = 3
SPECIFICATION LiveSteadySpec
INVARIANTS
    AllOrNothing
    OneOpenAttempt
    ReportIsDurable
    OneSuccessfulAttempt
PROPERTIES
    SuccessIsFinal
    HistoryIsFinal
    ImplementsLedger
    LockIsReleased
