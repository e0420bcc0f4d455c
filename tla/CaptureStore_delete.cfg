\* A delete overlaps a page of another capture.
CONSTANTS
    Capture = {c1, c2}
    Url = {u}
    Body = {b1, b2}
    Request = {r1, r2}
    MaxPlan = 1
    MaxRequests = 5
    MaxCrashes = 0
    RequestsAroundCrash = 3
    DeletesOverlap = TRUE
    Missing = Missing
    Torn = Torn
    Omitted = Omitted
SPECIFICATION MCSpec
SYMMETRY Symmetry
INVARIANTS
    ListedPageHasBytes
CHECK_DEADLOCK FALSE
