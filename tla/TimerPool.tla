------------------------------ MODULE TimerPool ------------------------------
(***************************************************************************)
(* quark::timer_pool (quark/timer.cpp): an active object that ticks every   *)
(* tickCost milliseconds and calls the observers whose period is over.  The *)
(* pool holds its recursive mutex _cs through a whole tick, callbacks       *)
(* included; a call of registerTimer or unregisterTimer by another thread   *)
(* runs while the mutex is free, one made by a callback runs inside it.     *)
(***************************************************************************)
EXTENDS Naturals, Sequences, FiniteSets, FiniteSetsExt

CONSTANTS Observers,       \* callbacks; each has at most one timer at a time
          Delays,          \* the periods asked for, in milliseconds
          TickCost,        \* tickCost
          Width,           \* bits of the tick counters (size_t)
          NoTimer,         \* an id that is not in _timers
          Nobody,          \* no callback is running
          UnregisterOthers \* whether a callback may unregister another timer

ASSUME TickAssumption == /\ TickCost \in Nat \ {0} /\ Delays \subseteq Nat
                         /\ Width \in Nat /\ 2 ^ Width \in Nat \ {0}
ASSUME ObserversAssumption == IsFiniteSet(Observers) /\ Nobody \notin Observers

VARIABLES timers,     \* _timers: the entry of each id
          handle,     \* handle[o]: the id registerTimer returned to o, or 0
          age,        \* history: ticks since o was registered or last due
          phase,      \* where run() and onTick() are
          fired,      \* firedTimers: <<id, observer>> still to be called
          calling,    \* the observer being called
          terminate,  \* isTerminating()
          event,      \* the count of _event
          destroyer   \* where destroy() is

timersVars == <<timers, handle, age, phase, fired, calling, terminate, event, destroyer>>

Ids     == 1 .. Cardinality(Observers)
Wrapped == 0 .. 2 ^ Width - 1
Entry   == [observer : Observers, delay : Delays, tickCount : Wrapped,
            curTickCount : Wrapped]

ASSUME NoTimerAssumption == NoTimer \notin Entry

TimersInit ==
    /\ timers = [i \in Ids |-> NoTimer]
    /\ handle = [o \in Observers |-> 0]
    /\ age = [o \in Observers |-> 0]
    /\ phase = "check" /\ fired = <<>> /\ calling = Nobody
    /\ terminate = FALSE /\ event = 0 /\ destroyer = "none"

Registered == {i \in Ids : timers[i] # NoTimer}

\* onTick holds _cs.
InTick == phase \in {"fire", "call"}

\* Mistake: the id after the number of timers.
NextFreeByCount == Cardinality(Registered) + 1

NextFree == Min(Ids \ Registered)

RegisterTimer(o, delay) ==
    /\ handle[o] = 0
    /\ LET n  == (delay \div TickCost) % 2 ^ Width
           id == NextFree
       IN  /\ timers' = [timers EXCEPT ![id] =
                  [observer |-> o, delay |-> delay, tickCount |-> n,
                   curTickCount |-> n]]
           /\ handle' = [handle EXCEPT ![o] = id]
    /\ age' = [age EXCEPT ![o] = 0]
    /\ UNCHANGED <<phase, fired, calling, terminate, event, destroyer>>

UnregisterTimer(o) ==
    /\ handle[o] # 0
    /\ timers' = [timers EXCEPT ![handle[o]] = NoTimer]
    /\ handle' = [handle EXCEPT ![o] = 0]
    /\ age' = [age EXCEPT ![o] = 0]
    /\ UNCHANGED <<phase, fired, calling, terminate, event, destroyer>>

\* Mistake: unregisterTimer does not take the lock.
ClientUnlocked(o) ==
    UnregisterTimer(o) \/ (~InTick /\ \E d \in Delays : RegisterTimer(o, d))

\* A thread other than the pool registers or unregisters the timer of o.
TimerClient(o) ==
    /\ ~InTick
    /\ UnregisterTimer(o) \/ \E d \in Delays : RegisterTimer(o, d)

\* A callback does.
Callback(o) ==
    /\ phase = "call"
    /\ \/ /\ o = calling \/ UnregisterOthers
          /\ UnregisterTimer(o)
       \/ \E d \in Delays : RegisterTimer(o, d)

(***************************************************************************)
(* run and onTick                                                           *)
(***************************************************************************)
RunCheck ==
    /\ phase = "check"
    /\ phase' = IF terminate THEN "stopped" ELSE "wait"
    /\ UNCHANGED <<timers, handle, age, fired, calling, terminate, event,
                   destroyer>>

RunWoken ==
    /\ phase = "wait" /\ event > 0
    /\ event' = event - 1
    /\ phase' = "check"
    /\ UNCHANGED <<timers, handle, age, fired, calling, terminate, destroyer>>

\* The decrement of a size_t.
Decremented(n) == (n + 2 ^ Width - 1) % 2 ^ Width
Due(i) == Decremented(timers[i].curTickCount) = 0

\* firedTimers is filled in the order of the map, by id.
FireInOrder(due) ==
    \E ids \in [1 .. Cardinality(due) -> due] :
        /\ \A j, k \in DOMAIN ids : j < k => ids[j] < ids[k]
        /\ fired' = [k \in DOMAIN ids |-> <<ids[k], timers[ids[k]].observer>>]

\* Mistake: the counter of a timer that is due is not set back.
TickNoReload ==
    LET due == {i \in Registered : Due(i)} IN
    /\ phase = "wait" /\ event = 0
    /\ timers' = [i \in Ids |->
           IF i \in Registered
           THEN [timers[i] EXCEPT !.curTickCount = Decremented(@)]
           ELSE NoTimer]
    /\ FireInOrder(due)
    /\ age' = [o \in Observers |->
           IF handle[o] = 0 \/ handle[o] \in due THEN 0 ELSE age[o] + 1]
    /\ phase' = "fire"
    /\ UNCHANGED <<handle, calling, terminate, event, destroyer>>

\* The timeout of _event, and the part of onTick under the lock that counts.
Tick ==
    LET due == {i \in Registered : Due(i)} IN
    /\ phase = "wait" /\ event = 0
    /\ timers' = [i \in Ids |->
           IF i \in due
           THEN [timers[i] EXCEPT !.curTickCount = timers[i].tickCount]
           ELSE IF i \in Registered
           THEN [timers[i] EXCEPT !.curTickCount = Decremented(@)]
           ELSE NoTimer]
    /\ FireInOrder(due)
    /\ age' = [o \in Observers |->
           IF handle[o] = 0 \/ handle[o] \in due THEN 0 ELSE age[o] + 1]
    /\ phase' = "fire"
    /\ UNCHANGED <<handle, calling, terminate, event, destroyer>>

\* Mistake: the first call ends the loop over firedTimers.
FireFirstOnly ==
    /\ phase = "fire" /\ fired # <<>>
    /\ calling' = Head(fired)[2]
    /\ fired' = <<>>
    /\ phase' = "call"
    /\ UNCHANGED <<timers, handle, age, terminate, event, destroyer>>

FireNext ==
    /\ phase = "fire" /\ fired # <<>>
    /\ calling' = Head(fired)[2]
    /\ fired' = Tail(fired)
    /\ phase' = "call"
    /\ UNCHANGED <<timers, handle, age, terminate, event, destroyer>>

CallbackReturns ==
    /\ phase = "call"
    /\ calling' = Nobody
    /\ phase' = "fire"
    /\ UNCHANGED <<timers, handle, age, fired, terminate, event, destroyer>>

TickDone ==
    /\ phase = "fire" /\ fired = <<>>
    /\ phase' = "check"
    /\ UNCHANGED <<timers, handle, age, fired, calling, terminate, event,
                   destroyer>>

(***************************************************************************)
(* destroy: terminate, which sets the flag and then the event, and wait,    *)
(* which returns once run has (see the run of Thread for an object that is  *)
(* started once, as the pool is by its constructor).                        *)
(***************************************************************************)
\* Mistake: terminate of the pool does not call thread::terminate.
DestroyNoFlag ==
    /\ destroyer = "none"
    /\ destroyer' = "flagged"
    /\ UNCHANGED <<timers, handle, age, phase, fired, calling, terminate, event>>

DestroyFlag ==
    /\ destroyer = "none"
    /\ terminate' = TRUE
    /\ destroyer' = "flagged"
    /\ UNCHANGED <<timers, handle, age, phase, fired, calling, event>>

DestroyEvent ==
    /\ destroyer = "flagged"
    /\ event' = event + 1
    /\ destroyer' = "waiting"
    /\ UNCHANGED <<timers, handle, age, phase, fired, calling, terminate>>

DestroyWaited ==
    /\ destroyer = "waiting" /\ phase = "stopped"
    /\ destroyer' = "done"
    /\ UNCHANGED <<timers, handle, age, phase, fired, calling, terminate, event>>

Pool == RunCheck \/ RunWoken \/ Tick \/ FireNext \/ CallbackReturns \/ TickDone
DestroyPool == DestroyFlag \/ DestroyEvent \/ DestroyWaited

TimersNext ==
    \/ \E o \in Observers : TimerClient(o) \/ Callback(o)
    \/ Pool \/ DestroyPool

TimersSpec == TimersInit /\ [][TimersNext]_timersVars

\* The pool thread runs and callbacks return; destroy goes on once called.
TimersFairness == WF_timersVars(Pool) /\ WF_timersVars(DestroyPool /\ destroyer # "none")

TimersFairSpec == TimersSpec /\ TimersFairness
-----------------------------------------------------------------------------
\* Every variable keeps its type.
TimersTypeOK ==
    /\ timers \in [Ids -> Entry \cup {NoTimer}]
    /\ handle \in [Observers -> Ids \cup {0}]
    /\ age \in [Observers -> Nat]
    /\ phase \in {"check", "wait", "fire", "call", "stopped"}
    /\ fired \in Seq(Ids \X Observers)
    /\ calling \in Observers \cup {Nobody}
    /\ terminate \in BOOLEAN /\ event \in 0 .. 1
    /\ destroyer \in {"none", "flagged", "waiting", "done"}

\* An id stays the name of the timer it was returned for until it is given
\* back: no later registration takes it over, in or out of a callback.
HandlesValid ==
    \A o \in Observers :
        handle[o] # 0 => /\ handle[o] \in Registered
                         /\ timers[handle[o]].observer = o

\* A callback is made only for a timer that is registered at that moment: once
\* unregisterTimer has returned the host of the callback may be destroyed, as
\* the destructor of the observer in timer_test.cpp does.
CallsRegistered ==
    [][\A o \in Observers :
           FireNext /\ calling' = o => handle[o] = Head(fired)[1]]_timersVars

\* A registered timer is due before ticks worth more than its period passed
\* ("period in milliseconds", timer.h).
PeriodKept ==
    \A o \in Observers :
        handle[o] # 0 => age[o] * TickCost < timers[handle[o]].delay

\* A timer that stays registered is called, until the pool is destroyed.
EventuallyCalled ==
    \A o \in Observers :
        handle[o] # 0 ~> calling = o \/ handle[o] = 0 \/ terminate

\* destroy returns, whatever the callbacks and clients do meanwhile.
DestroyReturns == destroyer = "flagged" ~> destroyer = "done"
=============================================================================
