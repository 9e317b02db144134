CONSTANTS
    Request = {r1, r2}
    Input <- MCInput
    MaxConcurrent = 1
    MaxBody = 1
    None = None
SPECIFICATION LiveSpec
INVARIANTS
    LoadIsAccounted
    ReadyIsCurrent
    GracefulStop
PROPERTIES
    PermitReturns
    ShutdownEnds
