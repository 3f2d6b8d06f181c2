SPECIFICATION Spec
CONSTANTS
    Reminder = {r1}
    Session = {s1, s2}
    Anyone = Anyone
    Never = Never
    Draft <- MCDraft
    LastTick = 2
    Stamp = {3}
    Turn = {t1, t2}
    Free = Free
    InjectLimit = 1
    Ops = {"create", "status", "snooze", "mark", "limit", "update"}
    MaxRounds = 2
    MaxEdits = 2
SYMMETRY Symmetry
INVARIANTS StampedWhenShown TotalLimitKept DailyLimitKept
PROPERTY OnceIsOnce
