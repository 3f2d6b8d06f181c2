------------------------------ MODULE AtomicMarks ------------------------------
(***************************************************************************)
(* What setting a mark promises: as if the test for room and the write     *)
(* were one step.  The marks of one active memory change at a time, no     *)
(* excluded pair is written, and each mark a memory gains had room.        *)
(***************************************************************************)
EXTENDS Naturals, FiniteSets

CONSTANTS
    Bucket,        \* memories
    Mark,          \* marks
    Capacity,      \* the limit on the memories that carry a mark
    Exclusive      \* pairs of marks that no memory may carry together

VARIABLE active    \* the marks of each active memory, none of any other

Carrying(f) == {b \in Bucket : f \in active[b]}

Init == active = [b \in Bucket |-> {}]

\* Replace the marks of one memory; it may also enter or leave the active ones.
Assign(b, marks) ==
    /\ \A pair \in Exclusive : ~(pair \subseteq marks)
    /\ \A f \in marks \ active[b] : Cardinality(Carrying(f)) < Capacity[f]
    /\ active' = [active EXCEPT ![b] = marks]

Next == \E b \in Bucket, marks \in SUBSET Mark : Assign(b, marks)

Spec == Init /\ [][Next]_active
=============================================================================
