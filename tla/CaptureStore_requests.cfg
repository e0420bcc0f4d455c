\* Three requests in flight, five in all, over two captures that share a page; one crash.
CONSTANTS
    Capture = {c1, c2}
    Url = {u}
    Body = {b1, b2}
    Request = {r1, r2, r3}
    MaxPlan = 1
    MaxRequests = 5
    MaxCrashes = 1
    RequestsAroundCrash = 3
    DeletesOverlap = FALSE
    Missing = Missing
    Torn = Torn
    Omitted = Omitted
SPECIFICATION MCSpec
SYMMETRY Symmetry
INVARIANTS
    ListedPageHasBytes
    VersionSurvives
    ReadersSeeTheRecords
PROPERTIES
    LedgerSpec
CHECK_DEADLOCK FALSE
