CONSTANTS
    MaxRetries = 3
    MaxRedirects = 5
SPECIFICATION Spec
INVARIANTS
    TypeOK
    CredentialsOnce
    OutageIsNotRejection
    LoginNeverExpires
    NothingLeaks
PROPERTIES
    EveryRequestEnds
