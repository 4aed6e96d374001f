CONSTANTS
    poll = poll
    import1 = import1
    import2 = import2
    Nobody = Nobody
    Callers <- MCCallers
    Polls <- MCPolls
    MaxMonths = 2
    MaxSessions = 3
SPECIFICATION Spec
INVARIANTS
    TypeOK
    ExpiryNeedsLapse
PROPERTIES
    NoLiveSessionDropped
    EveryCallEnds
    ImplementsLoginSpec
