SPECIFICATION LiveSpec
CONSTANTS
    Bucket = {l1, t1}
    Letter = {l1}
    Test = {t1}
    Actions = {"archive", "delete"}
    Client = {c1, c2}
    Nobody = Nobody
    DailyLimit = 2
    LifetimeLimit = 1
    LastDay = 1
    Ops = {"submit", "withdraw", "reconcile", "decide", "archive", "delete", "restore"}
INVARIANTS TypeOK ExecutedIsApproved
PROPERTY PendingEnds
