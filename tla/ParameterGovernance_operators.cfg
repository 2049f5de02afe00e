SPECIFICATION Spec
CONSTANTS
    Sessions = {s1, s2}
    Topics = {t, rollback}
    Rollback = rollback
    MaxProposals = 2
    MaxVersions = 4
INVARIANTS
    TypeOK
    OneActiveUnlessEarly
    SomeActive
    BlockedNeverServed
    BaseWasServed
    ActivatedWasServed
CHECK_DEADLOCK FALSE
