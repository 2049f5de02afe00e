SPECIFICATION FairSpec
CONSTANTS
    Rules = {"r"}
    Analysed = {"r"}
    Debounce = 2
    DebounceTime = 0
    Expiry = 1
    Suppression = 0
    MaxEvents = 1
    MaxAge = 1
    Channel = TRUE
    Lease = 1
    Cooldown = 2
    MaxMoment = 2
    MaxMishaps = 2
PROPERTIES
    EventuallyAnnounced
