SPECIFICATION MCSpec
CONSTANTS
    Operators = {u1}
    Approvers = {u1, u2}
    Targets = {worker, redis}
    SafeTargets = {worker}
    Worker = worker
    Ops = {p}
    Hosts = {h1, h2}
    Incidents = {i1}
    Diagnoses = {d1, d2}
    host2 = h2
    diagnosis1 = d1
    diagnosis2 = d2
    DailyLimit = 2
    None = None
    People = {1, 2}
    Inboxes = {a, b}
    MaxCalls = 3
    MaxOpen = 2
    MaxOtps = 2
    Authors = {a1, a2}
    Ratings = {2, 5}
    Voters = {v1}
    MaxJobs = 2
    MaxAtOnce = 2
    Attempts = {1, 2, 3}
    MaxVisits = 3
    Happenings = {"order_created", "review_approved"}
    Channels = {c1, c2}
    Notes = {1, 2}
    MaxErrands = 3
    agent = agent
    manager = manager
    customer = customer
    low = low
    high = high
    Customer = customer
    Staff = {agent, manager}
    Priorities = {low, high}
    Tags = {t}
    MaxRequests = 3
    Rights <- RightsOfEach
SYMMETRY Symmetry
INVARIANTS
    ProviderCalledOnce
    CooldownHolds
    VerifiedIsProven
    OneCodePerInbox
    CountedIsStored
    EventsAreHistory
    SilentWhenMuted
    TrailTellsTicket
PROPERTIES
    RestartsAreDecided
CHECK_DEADLOCK FALSE
