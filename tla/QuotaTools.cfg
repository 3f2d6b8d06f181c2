SPECIFICATION Spec
CONSTANTS
    Bucket = {b1, b2}
    Client = {c1, c2}
    Nobody = Nobody
    MaxPinned = 1
    MaxProtected = 1
    MaxAnchor = 1
    Ops = {"create", "hold", "trace", "anchor", "release", "archive", "delete", "decay", "timeout"}
SYMMETRY Symmetry
INVARIANTS PinnedCap ProtectedCap AnchorCap ProtectedAnchorExclusive NoCircularWait
PROPERTY MarksSetAtomically
