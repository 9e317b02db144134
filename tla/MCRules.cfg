SPECIFICATION Spec
CONSTANTS
    None = None
    NotSlug = NotSlug
    MaxIntegerDigits = 3
    MaxFractionalDigits = 2
    MaxPermits = 300
    MaxStatementMs = 30000
    MaxInstance = 3
    MaxCatalogRows = 2
    MaxValidators = 2
    MaxCursorBytes = 1024
    MaxSlugLength = 314
    Families = {None, f1, f2}
    BaseRecord <- MCBaseRecord
    Changes <- MCChanges
    Changed <- MCChanged
    Texts <- MCTexts
    Spellings <- MCSpellings
    StoredMeasurements <- MCStoredMeasurements
    Configurations <- MCConfigurations
    IngestConfigurations <- MCIngestConfigurations
    Requests <- MCRequests
    Paths <- MCPaths
    RequestIds <- MCRequestIds
    Tables <- MCTables
    Headers <- MCHeaders
    ClientTokens <- MCClientTokens
    Repositories <- MCRepositories
INVARIANTS
    
    MeasurementsAreComparable
    StoredValuesReadBack
    AcceptedSettingsServe
    AnswersArePublished
    NotModifiedIsCurrent
    CursorsAreBound
    
