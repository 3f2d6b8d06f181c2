SPECIFICATION LiveSpec
CONSTANTS
    Bucket = {b}
    Body = {x, y}
    Meaning = {NoMeaning}
    Empty = Empty  NoMeaning = NoMeaning  None = None  Nobody = Nobody
    Client = {c1}
    Worker = {w1}
    SingleLoop = TRUE
    Ops = {"create", "update", "restore", "delete"}
    MaxFaults = 1
PROPERTIES BodyConverges DeletionConverges
