SPECIFICATION LiveSpec
CONSTANTS
    File = {f1, f2}
    Client = {c1, c2}
    Text = {x, y}
    Gone = Gone
    MaxAct = 1
    MaxWrites = 2
    Ops = {"update", "edit", "link"}
INVARIANTS CacheTruthful ReadsOwnWrites EditsRequeued
PROPERTY EventuallyTruthful
