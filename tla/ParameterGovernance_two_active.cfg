SPECIFICATION Spec
CONSTANTS
    Sessions = {s1, s2}
    Topics = {t, rollback}
    Rollback = rollback
    MaxProposals = 2
    MaxVersions = 3
INVARIANTS
    OneActive
CHECK_DEADLOCK FALSE
