CONSTANTS
    f1 = f1
    f2 = f2
    sem = sem
    semm = semm
    number = number
    alice = alice
    bob = bob
    NoData = NoData
    Flows <- MCFlows
    Providers = {sem, semm}
    Contracts = {number}
    Users <- MCUsers
    Owns <- MCOwns
    MaxEntries = 2
    MaxChanges = 1
SYMMETRY Symmetry
SPECIFICATION Spec
INVARIANTS
    TypeOK
    EntriesValidated
    OneEntryPerContract
PROPERTIES
    NoEntryReplaced
CHECK_DEADLOCK FALSE
