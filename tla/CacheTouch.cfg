SPECIFICATION Spec
CONSTANTS
    File = {f1, f2}
    Client = {c1, c2}
    Text = {x, y}
    Gone = Gone
    MaxAct = 2
    MaxWrites = 2
    Ops = {"update", "touch", "search", "link"}
SYMMETRY Symmetry
INVARIANT ReadsOwnWrites
