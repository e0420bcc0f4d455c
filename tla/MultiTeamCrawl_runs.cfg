\* One run over two teams and two swimmers, or two runs over one swimmer; one capture removed.
CONSTANTS
    Team = {t1, t2}
    Gender = {g}
    Swimmer = {s, s2}
    OneRunSwimmer = s2
    Seasons = Seasons
    MaxRetries = 1
    StopAfter429 = 2
    StopAfterLost = 2
    MaxRuns = 2
    MaxRemovals = 1
SPECIFICATION MCSpec
SYMMETRY Symmetric
INVARIANTS
    FinishedIsFiled
    CompleteIsWhole
    RefusalsAreBounded
PROPERTIES
    ForgetsWhenWhole
CHECK_DEADLOCK FALSE
