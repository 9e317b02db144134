CONSTANTS
    Task = {t1, t2}
    Document <- MCDocument
    ChannelBound = 1
    MaxConnections = 2
    None = None
    a = a
    b = b
SPECIFICATION LiveSpec
INVARIANTS
    StoredIsPreflighted
    NoPoolDeadlock
    ResourcesReturned
PROPERTIES
    CommandEnds
