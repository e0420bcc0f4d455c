\* One tab that deletes, undoes and unmounts; timers and requests are fair.
CONSTANTS
    Tab = {t1}
    Field = {men}
    Mark = {m1, m2}
    MaxVersion = 2
    MaxDeletes = 1
    Overtaking = TRUE
    ListsOverlap = TRUE
    EditInReload = FALSE
    MayUnmount = TRUE
    Repeats = FALSE
    Untouched = Untouched
    NoCopy = NoCopy
SPECIFICATION FairSpec
PROPERTIES
    EditsSettle
CHECK_DEADLOCK FALSE
