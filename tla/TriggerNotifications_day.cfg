SPECIFICATION Spec
CONSTANTS
    Rules = {"r"}
    Analysed = {"r"}
    Debounce = 2
    DebounceTime = 0
    Expiry = 2
    Suppression = 1
    MaxEvents = 2
    MaxAge = 1
    Channel = TRUE
    Lease = 1
    Cooldown = 1
    MaxMoment = 1
    MaxMishaps = 1
INVARIANTS
    TypeOK
    OneOpenEvent
    ConfirmationsApart
    ClaimsApart
    SentIsPosted
PROPERTIES
    NeverForgotten
    OutboxSpec
