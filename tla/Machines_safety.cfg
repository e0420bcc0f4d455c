\* What the smaller machines never do: two teams in the meet crawl, two lanes in the pool.
CONSTANTS
    Parts = {"meet", "pool", "fallback", "scoring", "backups", "optimize"}
    Team = {t1, t2}
    StopAfterLost = 2
    t1 = t1
    t2 = t2
    e1 = e1
    e2 = e2
    s1 = s1
    Event = {e1, e2}
    Swimmer = {s1}
    MaxRetries = 1
    Stored <- MCStored
    Gender = {g}
    Seasons = Seasons
    StopAfter429 = 2
    MaxRuns = 2
    MaxRemovals = 1
    Lane = {l1, l2}
    Items = 4
    Stagger = 2
    FallbackPage = {p1, p2}
    MaxListed = 3
    MaxDeaths = 2
    Capture = {c1, c2}
    Url = {u}
    Body = {b1}
    Asker = {r1, r2}
    MaxPlan = 0
    MaxRequests = 3
    MaxCrashes = 1
    DeletesOverlap = FALSE
    Missing = Missing
    Torn = Torn
    Omitted = Omitted
    Club = {1, 2}
    Number = {1, 2, 3, 4, 5}
    Bracket = 3
    Table <- MCTable
    Meet <- MCMeets
    Full = {f1, f2}
    Trimmed = {few}
    Keep <- MCKeep
    SameName = FALSE
    MaxAsked = 3
    Workspace = {w1, w2}
    Mark = {m1}
    MaxApplied = 2
SPECIFICATION MCSpec
INVARIANTS
    TypesOK
    CompleteIsTheWholePlan
    StopsInTime
    AnsweredIsKept
    OthersAreUndisturbed
    PlacesPayTheTable
    CapsAreKept
PROPERTIES
    RequestsAreDue
    StartsAreDue
    LossIsBackedUp
    BackupsStand
    LineupIsTheCoachs
CHECK_DEADLOCK FALSE
