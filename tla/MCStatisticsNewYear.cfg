CONSTANTS
    timer = timer
    service = service
    Importers <- MCTimer
    Services = {}
    Series <- MCDaily
    MobileOnly <- MCMobile
    FirstYear = 1
    LastYear = 4
    MaxReading = 2
    MaxTroubles = 0
SPECIFICATION Spec
INVARIANTS
    SumsAscend
