CONSTANTS
    poll = poll
    import1 = import1
    import2 = import2
    Nobody = Nobody
    Callers <- MCCallers
    Polls <- MCPolls
    MaxSessions = 2
SPECIFICATION Spec
PROPERTIES
    EveryCallEnds
    ImplementsLoginSpec
