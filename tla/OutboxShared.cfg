SPECIFICATION Spec
CONSTANTS
    Bucket = {b}
    Body = {x, y}
    Meaning = {NoMeaning}
    Empty = Empty  NoMeaning = NoMeaning  None = None  Nobody = Nobody
    Client = {c1}
    Worker = {w1, w2}
    SingleLoop = FALSE
    Ops = {"create", "update", "archive", "activate", "delete", "repair"}
    MaxFaults = 1
SYMMETRY Symmetry
INVARIANTS NoLostWork NoOrphanVector
