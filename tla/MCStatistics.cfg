CONSTANTS
    timer = timer
    service = service
    Importers <- MCImporters
    Services <- MCServices
    Series <- MCSeries
    MobileOnly = {}
    FirstYear = 1
    LastYear = 3
    MaxReading = 2
    MaxTroubles = 2
SPECIFICATION Spec
INVARIANTS
    TypeOK
    OnlyNewYearFreezes
PROPERTIES
    CalmImportIsExact
    SelfHeals
