SPECIFICATION Spec
CONSTANTS
    Bucket = {b}
    Body = {x, Empty}
    Meaning = {NoMeaning, m}
    Empty = Empty  NoMeaning = NoMeaning  None = None  Nobody = Nobody
    Client = {c1, c2}
    Worker = {w1}
    SingleLoop = TRUE
    Ops = {"create", "update", "restore", "archive", "activate", "delete", "ensure", "repair"}
    MaxFaults = 1
SYMMETRY Symmetry
INVARIANTS TypeOK NoLostWork NoOrphanVector
