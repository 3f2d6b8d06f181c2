SPECIFICATION Spec
CONSTANTS
    Bucket = {b1, b2}
    Text = {x, y}
    Model = {m1, m2}
    Original = m1
    Changing = {b1, b2}
    Job = {j1, j2}
    Gone = Gone  None = None  Nobody = Nobody
    Ops = {"delete", "backfill"}
    MaxFaults = 1
SYMMETRY Symmetry
INVARIANTS TypeOK DoneIsStaged RowsAreOwed
PROPERTY SwapIsWhole
