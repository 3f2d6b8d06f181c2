SPECIFICATION LiveSpec
CONSTANTS
    Bucket = {b1}
    Client = {c1, c2}
    Nobody = Nobody
    MaxPinned = 1
    MaxProtected = 1
    MaxAnchor = 1
    Ops = {"create", "trace", "restore", "direct", "archive", "activate"}
INVARIANT PinnedProtectedExclusive
PROPERTY RequestReturns
