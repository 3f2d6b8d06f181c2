---------------------------- MODULE MCGatewayTurns ----------------------------
(* GatewayTurns for TLC: reminders of every rule that differ in their limits, *)
(* and requests that are interchangeable.                                     *)
EXTENDS GatewayTurns, TLC

Asked(rule, s, end, due, interval, dailyLimit, maxInjections) ==
    [rule |-> rule, session |-> s, end |-> end, due |-> due, interval |-> interval,
     dailyLimit |-> dailyLimit, maxInjections |-> maxInjections]

MCDraft == {Asked("once", Anyone, Never, Never, 0, 1, 0),
            Asked("daily", Anyone, 1, 1, 0, 1, 0),
            Asked("every_n_rounds", Anyone, Never, Never, 2, 0, 2),
            Asked("every_n_rounds", Anyone, Never, Never, 0, 1, 0)}
           \cup {Asked("morning_evening", s, Never, Never, 1, 2, 0) : s \in Session}

Symmetry == Permutations(Turn) \cup Permutations(Session)
=============================================================================
