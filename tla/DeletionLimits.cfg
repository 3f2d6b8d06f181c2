SPECIFICATION Spec
CONSTANTS
    Bucket = {b1, b2}
    Letter = {}
    Test = {}
    Actions = {"delete"}
    Client = {c1, c2}
    Nobody = Nobody
    DailyLimit = 2
    LifetimeLimit = 2
    LastDay = 2
    Ops = {"submit", "batch", "withdraw", "decide", "delete", "crash", "timeout"}
SYMMETRY Symmetry
INVARIANTS WithinLimits RejectedWasSpared
PROPERTY LedgerKept
