SPECIFICATION WorkspaceSpec
CONSTANTS
    Runs = {r1, r2}
    Names = {m, n}
    None = None
    MaxDrafts = 2
    MaxDeaths = 1
INVARIANTS
    ReadyIsOneDraft
CHECK_DEADLOCK FALSE
SYMMETRY Symmetry
