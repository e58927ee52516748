SPECIFICATION MCSpec
CONSTANTS
    Members = {m1, m2}
    Roles = {r1, r2}
    SystemRoles = {r2}
    Codenames = {p1}
    Readers = {d1}
    Lives = {3}
    Never = 9
    Second = 2
    CacheTimeout = 4
    MaxEdits = 2
    MaxChallenges = 2
    MaxSecrets = 2
    MaxStep = 2
    Validity = 2
    Attempts = 2
    Recovery = {k1}
    Applicants = {u1, u2}
    Desks = {e1, e2}
    Addresses = {a, b, c}
    Forms = {f1, f2}
INVARIANTS
    Current
    FactorsAreSpent
    SellersAgree
    DefaultIsTheChosen
PROPERTIES
    StaleEntriesLapse
CHECK_DEADLOCK FALSE
