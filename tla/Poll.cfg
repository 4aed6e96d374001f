CONSTANT HasMobile = TRUE
SPECIFICATION Spec
INVARIANTS
    TypeOK
    ReauthOnRejection
PROPERTIES
    ExpiryWins
    DailyFailsByShapeOnly
    UpdateEnds
