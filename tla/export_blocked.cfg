SPECIFICATION Spec
CONSTANTS
    u1 = u1
    u2 = u2
    e1 = e1
    e2 = e2
    e3 = e3
    Account = {u1, u2}
    Export = {e1, e2, e3}
    Worker = {w1, w2}
    NoExport = NoExport
    Owner <- MCOwner
    Faults = {"enqueue"}
INVARIANTS
    BlockedOnlyWhileExporting
CHECK_DEADLOCK FALSE
SYMMETRY ExportSymmetry
