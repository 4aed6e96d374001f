CONSTANTS
    None = None
    LitresPerM3 = 2
    Contracts <- MCContracts
    MaxClients = 2
    FirstLitres = 2
    MaxLitres = 3
    MaxFailures = 1
SPECIFICATION Spec
INVARIANTS
    TypeOK
    DataIsFreshest
    IndexCovered
    ClientsAccounted
PROPERTIES
    NoImportOnceUnloaded
    
    NewReadingRecorded
CHECK_DEADLOCK FALSE
