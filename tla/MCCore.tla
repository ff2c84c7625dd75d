------------------------------- MODULE MCCore -------------------------------
(***************************************************************************)
(* The message queue, the timer pool, the memory pool and the state machine *)
(* in one instance: a behaviour is one of a single component, the subject.  *)
(***************************************************************************)
EXTENDS MCFsm, MemoryPool, MsgQueue, TimerPool

CONSTANT Subjects       \* the components that are looked at

VARIABLE subject

CoreInit ==
    /\ subject \in Subjects
    /\ Init /\ TimersInit /\ HeapInit
    /\ FsmInit /\ (subject # "state machine" => current = 0)

Only(s, v) == subject # s => UNCHANGED v

CoreNext ==
    /\ \/ subject = "queue" /\ Next
       \/ subject = "timer pool" /\ TimersNext
       \/ subject = "memory pool" /\ HeapNext
       \/ subject = "state machine" /\ FsmNext
    /\ Only("queue", vars) /\ Only("timer pool", timersVars)
    /\ Only("memory pool", heapVars) /\ Only("state machine", fsmVars)
    /\ UNCHANGED subject

coreVars == <<subject, vars, timersVars, heapVars, fsmVars>>

CoreSpec == CoreInit /\ [][CoreNext]_coreVars

CoreFairSpec == /\ CoreSpec
                /\ subject # "queue" \/ Fairness
                /\ subject # "timer pool" \/ TimersFairness
=============================================================================
