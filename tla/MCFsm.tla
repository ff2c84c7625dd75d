------------------------------- MODULE MCFsm -------------------------------
(***************************************************************************)
(* A scheme for TLC with every kind of entry: a final action, conditions    *)
(* before one, conditions only, a way back to the same state, the target    *)
(* that is not a state, a second final row, timeouts with and without an    *)
(* entry, two timers in one state.                                          *)
(***************************************************************************)
EXTENDS Fsm

Go   == 10
Note == 11

Row(s, e, c, to) == [state |-> s, event |-> e, cond |-> c, target |-> to]

MCTransitions ==
    << Row(0, Go, FALSE, 1),
       Row(1, Go, TRUE, 2), Row(1, Go, FALSE, 0), Row(1, Go, FALSE, 2),
       Row(2, Go, TRUE, 1),
       Row(0, Note, FALSE, 0), Row(1, Note, TRUE, 1), Row(1, Note, FALSE, 1),
       Row(2, Note, FALSE, Stay),
       Row(1, 5, FALSE, 1), Row(1, 6, FALSE, 0) >>

MCStateTimers == [s \in States |-> CASE s = 1 -> {5, 6} [] s = 2 -> {6} [] OTHER -> {}]
MCValue == [t \in {5, 6} |-> IF t = 5 THEN 2 ELSE 3]
=============================================================================
