CONSTANTS
    r1 = r1
    r2 = r2
    a = a
    b = b
    None = None
    Runs = {r1, r2}
    Revisions = {a, b}
    Layouts <- MCLayouts
    Features <- MCFeatures
    Workers <- MCWorkers
    MaxTrouble = 1
SYMMETRY MCSymmetry
SPECIFICATION Spec
INVARIANTS NothingLeftBehind RunsSound WholeRuntime
PROPERTY CleansUpInOrder
CHECK_DEADLOCK FALSE
