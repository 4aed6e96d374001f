CONSTANTS
    timer = timer
    service = service
    Importers <- MCTimer
    Services = {}
    Series <- MCMonthly
    MobileOnly = {}
    FirstYear = 1
    LastYear = 3
    MaxReading = 2
    MaxTroubles = 1
SPECIFICATION Spec
INVARIANTS
    CacheIsFinal
