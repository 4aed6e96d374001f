CONSTANTS
    poll = poll
    import1 = import1
    import2 = import2
    Nobody = Nobody
    Callers <- MCCallers
    Polls <- MCPolls
    MaxSessions = 3
SPECIFICATION Spec
INVARIANTS
    TypeOK
    OneLogin
    TokensExclusive
    RetryIsNewer
    ExpiryNeedsLapse
    LoginsPerLapse
PROPERTIES
    NoLiveSessionDropped
