-------------------------------- MODULE Fsm --------------------------------
(***************************************************************************)
(* nucleon::fsm (nucleon/fsm.h): a machine whose states are objects.        *)
(* process(event) runs the handlers (conditions, then the final action) of  *)
(* the transitions of the current state; a handler may itself change the    *)
(* state, process another event or touch the timers, so calls nest: stack   *)
(* holds one frame per process() that has not returned.  The object a frame *)
(* runs on must survive the changes made under it, and the loop over the    *)
(* timers of a state must survive a change made by the handler of a timeout.*)
(***************************************************************************)
EXTENDS Naturals, Sequences, FiniteSets, SequencesExt

CONSTANTS Objects,      \* addresses of state objects
          States,       \* ids of states; 0 is what newStateId starts with
          Stay,         \* UINT_MAX: the target that is not a state
          Events,       \* ids of the events that are processed from outside
          NestedEvents, \* ids of the events that handlers process
          Transitions,  \* rows of the scheme, in the order they are added
          StateTimers,  \* the timers of each state
          Value,        \* the period of each timer
          Slices,       \* arguments of timerTick
          MaxSwitches,  \* bound: calls of switchState under one process()
          MaxDepth,     \* bound: nested calls of process()
          Nothing       \* no object, no timer, no tick

ASSUME StatesAssumption == 0 \in States /\ Stay \notin States

\* Memory for one more state than there can be: the two of the machine and those
\* that calls of process still run on.
ASSUME ObjectsAssumption ==
    /\ IsFiniteSet(Objects) /\ Cardinality(Objects) >= MaxDepth + 3
    /\ Nothing \notin Objects /\ MaxDepth \in Nat \ {0} /\ MaxSwitches \in Nat

ASSUME SchemeAssumption ==
    Transitions \in Seq([state : States, event : Events \cup NestedEvents \cup DOMAIN Value,
                         cond : BOOLEAN, target : States \cup {Stay}])

ASSUME TimersAssumption ==
    /\ DOMAIN Value \subseteq Nat /\ Nothing \notin DOMAIN Value
    /\ Value \in [DOMAIN Value -> Nat \ {0}] /\ Slices \subseteq Nat
    /\ StateTimers \in [States -> SUBSET DOMAIN Value]

VARIABLES running,   \* FALSE once the machine is destroyed
          allocated, \* state objects that are allocated
          cur,       \* _curState
          current,   \* _curState->id()
          prev,      \* _prevState
          clock,     \* _curTimers: the fields of each timer of the state
          stack,     \* process() calls in progress; changed: of state, under them
          changes,   \* switchState calls under the outermost process()
          tick       \* the timerTick in progress

machine == <<allocated, cur, current, prev, clock, tick>>
fsmVars == <<running, machine, stack, changes>>

Timers   == DOMAIN Value
NewTimer == [elapsed |-> 0, suspended |-> FALSE, expired |-> FALSE]

\* The constructor with an initial state: setCurState, without timers.
FsmInit ==
    /\ running = TRUE
    /\ cur = (CHOOSE o \in Objects : TRUE) /\ prev = Nothing /\ allocated = {cur}
    /\ current \in States
    /\ clock = <<>>
    /\ stack = <<>> /\ changes = 0 /\ tick = Nothing

Idle == running /\ stack = <<>> /\ tick = Nothing

(***************************************************************************)
(* The scheme: a row has a state, an event, a target and cond, which tells  *)
(* a condition from a final action.  Rows are known by their places; they   *)
(* are tried in the order in which they were added.  A second final row can *)
(* only come from addBaseTransition, which drops it.                        *)
(***************************************************************************)
Rows(s, e) == {i \in DOMAIN Transitions :
                  Transitions[i].state = s /\ Transitions[i].event = e}

HasEntry(s, e) == Rows(s, e) # {}

Conditions(f) == {i \in Rows(f.from, f.event) : Transitions[i].cond}
Finals(f)     == {i \in Rows(f.from, f.event) : ~Transitions[i].cond}

\* The conditions that have not been evaluated; f.at is the last one that has.
Untried(f) == {i \in Conditions(f) : f.at < i}

FirstOf(S) == {i \in S : \A j \in S : i <= j}

(***************************************************************************)
(* switchState.  History: changed tells a call of process, or a tick, that  *)
(* the state was not changed since it began (0), once (1) or again (2).     *)
(***************************************************************************)
Again(n) == IF n < 2 THEN n + 1 ELSE n

Changed(call) == [call EXCEPT !.changed = Again(@)]

\* A new object: not one a frame still runs on, so a dangling one shows.
NewObject == CHOOSE o \in Objects :
                o \notin allocated \cup {stack[i].object : i \in DOMAIN stack}

\* Mistake: the previous state is forgotten instead of deleted.
OwnedLeaks == allocated \cup {NewObject}

\* deleteState(_prevState), then the new state.  Constructors do not throw.
Owned == (allocated \ {prev}) \cup {NewObject}

\* Mistake: the timers of the state that is left stay.
TimersKept(s) == DOMAIN clock \cup StateTimers[s]

TimersAfter(s) == StateTimers[s]

\* Mistake: the state that is left is deleted at once, none is kept.
SwitchKeepsNone(s, frames) ==
    \/ s = current /\ stack' = frames /\ UNCHANGED machine
    \/ /\ s # current
       /\ allocated' = {NewObject}
       /\ prev' = Nothing /\ cur' = NewObject
       /\ current' = s
       /\ clock' = [t \in TimersAfter(s) |-> NewTimer]
       /\ tick' = IF tick = Nothing THEN tick ELSE Changed(tick)
       /\ stack' = [i \in DOMAIN frames |-> Changed(frames[i])]

\* frames: the calls of process that are in progress and go on.
SwitchState(s, frames) ==
    \/ s = current /\ stack' = frames /\ UNCHANGED machine
    \/ /\ s # current
       /\ allocated' = Owned
       /\ prev' = cur /\ cur' = NewObject
       /\ current' = s
       /\ clock' = [t \in TimersAfter(s) |-> NewTimer]
       /\ tick' = IF tick = Nothing THEN tick ELSE Changed(tick)
       /\ stack' = [i \in DOMAIN frames |-> Changed(frames[i])]

(***************************************************************************)
(* process                                                                  *)
(***************************************************************************)
\* An event without an entry is "unexpected" and changes nothing.
Begin(e) ==
    /\ HasEntry(current, e)
    /\ stack' = Append(stack, [object |-> cur, from |-> current, event |-> e,
                               at |-> 0, changed |-> 0])

Process(e) ==
    /\ Idle
    /\ Begin(e)
    /\ UNCHANGED <<running, machine, changes>>

\* A handler calls process.
ProcessInside(e) ==
    /\ stack # <<>> /\ Len(stack) < MaxDepth
    /\ Begin(e)
    /\ UNCHANGED <<running, machine, changes>>

\* A handler calls switchState.
SwitchInside(s) ==
    /\ stack # <<>> /\ changes < MaxSwitches
    /\ changes' = changes + 1
    /\ SwitchState(s, stack)
    /\ UNCHANGED running

\* Mistake: the target is compared with the state of the moment.
ChangesNow(f, target) == target # current /\ target # Stay

Changes(f, target) == target # f.from /\ target # Stay

\* fsm_entry::process is over and has set newStateId to target.
Return(target) ==
    LET f == Last(stack) IN
    /\ changes' = IF Len(stack) = 1 THEN 0 ELSE changes
    /\ \/ Changes(f, target) /\ SwitchState(target, Front(stack))
       \/ ~Changes(f, target) /\ stack' = Front(stack) /\ UNCHANGED machine
    /\ UNCHANGED running

ConditionTrue ==
    /\ stack # <<>>
    /\ \E i \in FirstOf(Untried(Last(stack))) : Return(Transitions[i].target)

ConditionFalse ==
    /\ stack # <<>>
    /\ \E i \in FirstOf(Untried(Last(stack))) :
          stack' = [stack EXCEPT ![Len(stack)].at = i]
    /\ UNCHANGED <<running, machine, changes>>

\* All conditions were false; without a final action newStateId is still 0.
FinalReturns ==
    /\ stack # <<>>
    /\ LET f == Last(stack) IN
       /\ Untried(f) = {}
       /\ \/ \E i \in FirstOf(Finals(f)) : Return(Transitions[i].target)
          \/ Finals(f) = {} /\ Return(0)

(***************************************************************************)
(* Timers: startTimer, stopTimer and restartTimer come from outside or from *)
(* a handler; an id that the state has no timer for is ignored.             *)
(***************************************************************************)
SetTimer(t, c) ==
    /\ running /\ (stack # <<>> \/ tick = Nothing)
    /\ t \in DOMAIN clock
    /\ clock' = [clock EXCEPT ![t] = c]
    /\ UNCHANGED <<running, allocated, cur, current, prev, tick, stack, changes>>

StartTimer(t)   == SetTimer(t, [clock[t] EXCEPT !.suspended = FALSE])
StopTimer(t)    == SetTimer(t, [clock[t] EXCEPT !.suspended = TRUE])
RestartTimer(t) == SetTimer(t, NewTimer)

TimerTick(slice) ==
    /\ Idle
    /\ tick' = [slice |-> slice, left |-> DOMAIN clock, timer |-> Nothing,
                from |-> current, changed |-> 0]
    /\ UNCHANGED <<running, allocated, cur, current, prev, clock, stack, changes>>

\* fsm_timer::tick; the sum, a size_t, does not wrap here.
Advanced(t, c, slice) ==
    IF c.suspended THEN c
    ELSE IF c.elapsed + slice < Value[t]
           THEN [c EXCEPT !.elapsed = @ + slice, !.expired = FALSE]
           ELSE [c EXCEPT !.elapsed = 0, !.expired = TRUE]

\* Mistake: a timer that was stopped after it expired still counts.
ExpiredOnce(c) == c.expired

Expired(c) == c.expired /\ ~c.suspended

\* The loop is between two timers.
Ticking == tick # Nothing /\ stack = <<>> /\ tick.timer = Nothing

\* The next timer, in the order of their ids.
TickTimer ==
    /\ Ticking
    /\ \E t \in FirstOf(tick.left) :
          LET c == Advanced(t, clock[t], tick.slice) IN
          /\ clock' = [clock EXCEPT ![t] = c]
          /\ \/ /\ Expired(c) /\ Begin(t)
                /\ tick' = [tick EXCEPT !.left = @ \ {t}, !.timer = t]
             \/ /\ ~(Expired(c) /\ HasEntry(current, t))
                /\ tick' = [tick EXCEPT !.left = @ \ {t}]
                /\ UNCHANGED stack
    /\ UNCHANGED <<running, allocated, cur, current, prev, changes>>

\* Mistake: the loop goes on whatever the handler did.
TickGoesOn ==
    /\ tick # Nothing /\ stack = <<>> /\ tick.timer # Nothing
    /\ tick' = [tick EXCEPT !.timer = Nothing]
    /\ UNCHANGED <<running, allocated, cur, current, prev, clock, stack, changes>>

\* The timeout was processed: the loop ends if the id of the state has changed.
\* After a change away and back _timers was cleared and filled; the loop goes on
\* over the new timers, as it does when they are stored where the old ones were.
TickChecks ==
    /\ tick # Nothing /\ stack = <<>> /\ tick.timer # Nothing
    /\ \/ current # tick.from /\ tick' = Nothing
       \/ current = tick.from /\ tick' = [tick EXCEPT !.timer = Nothing]
    /\ UNCHANGED <<running, allocated, cur, current, prev, clock, stack, changes>>

TickEnds ==
    /\ Ticking /\ tick.left = {}
    /\ tick' = Nothing
    /\ UNCHANGED <<running, allocated, cur, current, prev, clock, stack, changes>>

DestroyFsm ==
    /\ Idle
    /\ running' = FALSE
    /\ allocated' = allocated \ {prev, cur}
    /\ UNCHANGED <<cur, current, prev, clock, tick, stack, changes>>

FsmNext ==
    \/ \E e \in Events : Process(e)
    \/ \E e \in NestedEvents : ProcessInside(e)
    \/ \E s \in States : SwitchInside(s)
    \/ ConditionTrue \/ ConditionFalse \/ FinalReturns
    \/ \E t \in DOMAIN clock : StartTimer(t) \/ StopTimer(t) \/ RestartTimer(t)
    \/ \E n \in Slices : TimerTick(n)
    \/ TickTimer \/ TickChecks \/ TickEnds
    \/ DestroyFsm

FsmSpec == FsmInit /\ [][FsmNext]_fsmVars

(***************************************************************************)
(* Properties                                                               *)
(***************************************************************************)
Frame == [object : Objects, from : States,
          event : Events \cup NestedEvents \cup Timers, at : Nat, changed : 0 .. 2]

\* Types; a timer's elapsed time stays below its period (fsm_timer::tick).
FsmTypeOK ==
    /\ running \in BOOLEAN /\ allocated \subseteq Objects
    /\ current \in States /\ cur \in Objects /\ prev \in Objects \cup {Nothing}
    /\ DOMAIN clock \subseteq Timers
    /\ \A t \in DOMAIN clock :
          clock[t] \in [elapsed : 0 .. Value[t] - 1, suspended : BOOLEAN,
                        expired : BOOLEAN]
    /\ stack \in Seq(Frame) /\ Len(stack) <= MaxDepth
    /\ changes \in 0 .. MaxSwitches
    /\ \/ tick = Nothing
       \/ tick \in [slice : Slices, left : SUBSET Timers,
                    timer : Timers \cup {Nothing}, from : States, changed : 0 .. 2]

\* The machine owns the current and the previous state and nothing else,
\* however changes nest: switchState neither leaks a state nor deletes one
\* twice, and the destructor leaves none.
StatesOwned ==
    /\ running => cur # prev /\ allocated = {cur, prev} \ {Nothing}
    /\ ~running => allocated = {}

\* No handler runs on a deleted state until the state has changed twice under
\* its call of process, by any handlers and transitions at any depth: the first
\* change keeps the object in _prevState, whoever makes the second.
HandlerAlive ==
    \A i \in DOMAIN stack : stack[i].changed < 2 => stack[i].object \in allocated

\* What "to allow change state recursively from state itself" (process) asks
\* for: a handler never runs on a deleted state.  A second change under one call
\* deletes the object of the call, and its next handler runs on it.
HandlerSafe == \A i \in DOMAIN stack : stack[i].object \in allocated

\* After a change of state the machine has the timers of its state, those
\* and no others, at any depth of nesting (switchState clears and fills
\* _curTimers).
TimersOfState == prev # Nothing => DOMAIN clock = StateTimers[current]

\* The loop of fsm_timer_entry::tick does not go on over timers that a change
\* of state has deleted, unless the state changed away and back again before
\* the timeout was processed: however deep the change was made, and whether or
\* not the transition of the timeout follows it with its own.
TickIntact == Ticking => tick.changed # 1

\* What the comment of the comparison says, "check if state has been changed":
\* the loop goes on only if the state has not.  Two changes that return to the
\* id the loop began with pass the comparison.
TickStopsOnChange == Ticking => tick.changed = 0

\* A timer that stopTimer has suspended is silent until it is started, even
\* when it had expired just before.
SuspendedSilent ==
    [][\A t \in DOMAIN clock :
          tick' # Nothing /\ tick'.timer = t /\ Ticking => ~clock[t].suspended]_fsmVars

\* A handler that changes the state keeps its change when its own transition
\* leads back to the state it began in: process compares the target with
\* that state, not with the state of the moment.
LeadsBack(f) == /\ Finals(f) # {}
                /\ \A i \in Rows(f.from, f.event) : Transitions[i].target = f.from

RecursiveChangeKept ==
    [][Len(stack') < Len(stack) /\ LeadsBack(Last(stack)) => cur' = cur]_fsmVars
=============================================================================
