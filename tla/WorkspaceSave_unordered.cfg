\* Lists overlap and are overtaken, PUTs are delivered twice, the user edits
\* during a Reload.
CONSTANTS
    Tab = {t1, t2}
    Field = {men}
    Mark = {m1, m2}
    MaxVersion = 2
    MaxDeletes = 0
    Overtaking = TRUE
    ListsOverlap = TRUE
    EditInReload = TRUE
    MayUnmount = FALSE
    Repeats = TRUE
    Untouched = Untouched
    NoCopy = NoCopy
SPECIFICATION Spec
SYMMETRY Symmetry
INVARIANTS
    SavedMeansStored
    HeldEditsStayOnScreen
PROPERTIES
    ConflictKeepsEdits
CHECK_DEADLOCK FALSE
