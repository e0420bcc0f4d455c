\* Calls of two clients on one key, or the saves of one client over three keys;
\* three changes of a JSON file by two callers; two starts on every SQLite file.
CONSTANTS
    Call = {1, 2, 3, 4}
    Key = {1, 2, 3}
    Client = {a, b}
    MaxSeq = 2
    MaxKeys = 2
    MayForget = TRUE
    Failures = {"missed", "threw"}
    None = None
    MaxMeeting = 3
    MaxSpread = 4
    MaxBesideLists = 2
    Workspace = {w1, w2}
    Caller = {1, 2}
    Troubles = {{"read fails"}, {"first read fails", "list is late"}}
    MaxVersion = 2
    MaxCalls = 3
    MaxRestarts = 1
    Server = {p1, p2}
    Table = {t1, t2}
    Row = {n1, null}
    Bad = {null}
    SameSecond = FALSE
    MaxStarts = 2
    MaxSaves = 1
SPECIFICATION MCFairSpec
INVARIANTS
    ArrivalOrder
PROPERTIES
    RecordRises
    EvictsLeastRecent
    StoredDataStands
    EveryCallSettles
CHECK_DEADLOCK FALSE
