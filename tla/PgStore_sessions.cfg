\* Two sessions, a row and one child table, one delete or whole restore.
CONSTANTS
    Session = {s1, s2}
    Part = {row, child}
    RowPart = row
    Val = {a}
    Empty = Empty
    Keep = Keep
    Nobody = Nobody
    MaxVersion = 2
    MaxUpheavals = 1
    MaxSnapshots = 1
SPECIFICATION Spec
SYMMETRY Symmetry
INVARIANTS
    LockedRowStands
    CurrentCopyIsWhole
PROPERTIES
    CheckedSaveKeepsOthers
    NewContentsNewVersion
CHECK_DEADLOCK FALSE
