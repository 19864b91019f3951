\* Two clients compete for one challenge entry fewer than they need.
SPECIFICATION Spec
CONSTANTS
    t1 = t1
    t2 = t2
    c1 = c1
    c2 = c2
    c3 = c3
    Threads = {t1, t2}
    Clients = {c1, c2, c3}
    NoClient = NoClient
    MaxChallenges = 2
    MaxSessions = 2
    MaxAttempts = 2
    RateLimit = 2
    PinTtl = 1
    SessionTtl = 1
    MaxTime = 2
    MaxIds = 2
SYMMETRY Symmetry
INVARIANTS
    TypeOK
    OneChallengePerClient
    SecretsWiped
    OneTokenPerChallenge
    LastLoginWins
    BearerGenuine
