\* Two tabs; lists and replies arrive in order; the user waits for Reload.
CONSTANTS
    Tab = {t1, t2}
    Field = {men}
    Mark = {m1, m2, m3}
    MaxVersion = 4
    MaxDeletes = 0
    Overtaking = FALSE
    ListsOverlap = FALSE
    EditInReload = FALSE
    MayUnmount = FALSE
    Repeats = FALSE
    Untouched = Untouched
    NoCopy = NoCopy
SPECIFICATION Spec
SYMMETRY Symmetry
INVARIANTS
    KnownVersionIsSeen
    PausedTabIsSilent
PROPERTIES
    NoUnseenOverwrite
    AppliedInSendOrder
    LedgerSpec
CHECK_DEADLOCK FALSE
