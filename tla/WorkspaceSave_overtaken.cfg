\* A save's reply overtakes a list that was read before the save.
CONSTANTS
    Tab = {t1, t2}
    Field = {men}
    Mark = {m1, m2}
    MaxVersion = 3
    MaxDeletes = 0
    Overtaking = TRUE
    ListsOverlap = FALSE
    EditInReload = FALSE
    MayUnmount = FALSE
    Repeats = FALSE
    Untouched = Untouched
    NoCopy = NoCopy
SPECIFICATION Spec
SYMMETRY Symmetry
PROPERTIES
    NoUnseenOverwrite
CHECK_DEADLOCK FALSE
