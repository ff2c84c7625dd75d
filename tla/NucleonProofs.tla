--------------------------- MODULE NucleonProofs ---------------------------
(***************************************************************************)
(* Proofs about the components of nucleon, SmartPtr and Fsm.                *)
(***************************************************************************)
EXTENDS SmartPtr, Fsm, FiniteSetTheorems, FunctionTheorems, SequenceTheorems, TLAPS

(***************************************************************************)
(* SmartPtr, for any threads and any finite set of smart_ptr objects: the   *)
(* object lives while it is held and is not forgotten.                      *)
(***************************************************************************)
\* While the counter is there it counts the copies ...
CountInv == counterFrees = 0 => refs = Cardinality(Live)

\* ... and nobody is about to free anything as long as there is one.
LiveInv == Live # {} =>
              /\ counterFrees = 0 /\ deletions = 0
              /\ \A t \in Holders : dropping[t] \notin {"free", "destroy"}

\* The thread that will delete the object of which no copy is left.
Deletes(t) == \/ dropping[t] = "destroy"
              \/ counterFrees = 0 /\ dropping[t] \in {"read", "free"}

DeleterInv == Live = {} /\ deletions = 0 => \E t \in Holders : Deletes(t)

PtrInv == PtrTypeOK /\ CountInv /\ LiveInv /\ DeleterInv

LEMMA LiveFinite == IsFiniteSet(Live) /\ Cardinality(Live) \in Nat
BY HoldersAssumption, FS_Subset, FS_CardinalityType DEF Live

LEMMA PtrInitInv == PtrInit => PtrInv
<1> SUFFICES ASSUME PtrInit PROVE PtrInv
  OBVIOUS
<1> USE DEF PtrInit
<1>1. PtrTypeOK
  BY HoldersAssumption DEF PtrTypeOK
<1>2. Live = {FirstPtr}
  BY HoldersAssumption DEF Live
<1>3. CountInv
  BY <1>2, FS_Singleton DEF CountInv
<1>4. LiveInv /\ DeleterInv
  BY <1>2 DEF LiveInv, DeleterInv
<1> QED
  BY <1>1, <1>3, <1>4 DEF PtrInv

\* A copy is one more that lives and one more that is counted.
LEMMA CopyInv ==
  ASSUME PtrInv, NEW t \in Holders, NEW p \in Ptrs, NEW q \in Ptrs, Copy(t, p, q)
  PROVE  PtrInv'
<1> USE DEF PtrInv, Copy
<1>1. PtrTypeOK'
  BY DEF PtrTypeOK
<1>2. Live' = Live \cup {q} /\ q \notin Live
  BY HoldersAssumption DEF PtrTypeOK, Live
<1>3. p \in Live
  BY HoldersAssumption DEF Live
<1>4. Cardinality(Live') = Cardinality(Live) + 1
  BY <1>2, LiveFinite, FS_AddElement
<1>5. CountInv'
  BY <1>4 DEF CountInv
<1>6. LiveInv' /\ DeleterInv'
  BY <1>2, <1>3 DEF LiveInv, DeleterInv
<1> QED
  BY <1>1, <1>5, <1>6

LEMMA HandOverInv ==
  ASSUME PtrInv, NEW t \in Holders, NEW p \in Ptrs, NEW u \in Holders,
         HandOver(t, p, u)
  PROVE  PtrInv'
<1> USE DEF PtrInv, HandOver
<1>1. PtrTypeOK'
  BY DEF PtrTypeOK
<1>2. Live' = Live
  BY HoldersAssumption DEF PtrTypeOK, Live
<1> QED
  BY <1>1, <1>2 DEF CountInv, LiveInv, DeleterInv, Deletes

\* Who drops the last copy is one that will delete the object.
LEMMA DecrementInv ==
  ASSUME PtrInv, NEW t \in Holders, NEW p \in Ptrs, Decrement(t, p)
  PROVE  PtrInv'
<1> USE DEF PtrInv, Decrement, Goes
<1>1. PtrTypeOK'
  BY DEF PtrTypeOK
<1>2. Live' = Live \ {p} /\ p \in Live
  BY HoldersAssumption DEF PtrTypeOK, Live
<1>3. Cardinality(Live') = Cardinality(Live) - 1
  BY <1>2, LiveFinite, FS_RemoveElement
<1>4. CountInv'
  BY <1>3, LiveFinite DEF CountInv, PtrTypeOK
<1>5. LiveInv'
  BY <1>2 DEF LiveInv, PtrTypeOK
<1>6. dropping'[t] = "read" /\ counterFrees' = 0
  BY <1>2 DEF LiveInv, PtrTypeOK
<1>7. DeleterInv'
  BY <1>6 DEF DeleterInv, Deletes
<1> QED
  BY <1>1, <1>4, <1>5, <1>7

\* What is read back is 0 only if no copy is left.
LEMMA ReadBackInv ==
  ASSUME PtrInv, NEW t \in Holders, ReadBack(t)
  PROVE  PtrInv'
<1> USE DEF PtrInv, ReadBack, Goes
<1>1. PtrTypeOK'
  BY DEF PtrTypeOK
<1>2. Live' = Live
  BY DEF Live
<1>3. CountInv'
  BY <1>2 DEF CountInv
<1>4. dropping'[t] = "free" => Live = {}
  BY LiveFinite, FS_EmptySet DEF CountInv, LiveInv, PtrTypeOK
<1>5. LiveInv'
  BY <1>2, <1>4 DEF LiveInv, PtrTypeOK
<1>6. DeleterInv'
  <2> SUFFICES ASSUME Live = {}, deletions = 0
               PROVE  \E u \in Holders : Deletes(u)'
    BY <1>2 DEF DeleterInv
  <2>1. CASE counterFrees = 0
    <3>1. refs = 0
      BY <2>1, FS_EmptySet DEF CountInv
    <3> QED
      BY <2>1, <3>1 DEF Deletes, PtrTypeOK
  <2>2. CASE counterFrees # 0
    <3>1. PICK u \in Holders : Deletes(u)
      BY DEF DeleterInv
    <3> QED
      BY <2>2, <3>1 DEF Deletes, PtrTypeOK
  <2> QED
    BY <2>1, <2>2
<1> QED
  BY <1>1, <1>3, <1>5, <1>6

LEMMA FreeCounterInv ==
  ASSUME PtrInv, NEW t \in Holders, FreeCounter(t)
  PROVE  PtrInv'
<1> USE DEF PtrInv, FreeCounter, Goes
<1>1. PtrTypeOK'
  BY DEF PtrTypeOK
<1>2. Live' = Live /\ Live = {}
  BY DEF Live, LiveInv
<1>3. CountInv' /\ LiveInv'
  BY <1>2 DEF CountInv, LiveInv, PtrTypeOK
<1>4. DeleterInv'
  BY DEF DeleterInv, Deletes, PtrTypeOK
<1> QED
  BY <1>1, <1>3, <1>4

LEMMA DestroyPointeeInv ==
  ASSUME PtrInv, NEW t \in Holders, DestroyPointee(t)
  PROVE  PtrInv'
<1> USE DEF PtrInv, DestroyPointee, Goes
<1>1. PtrTypeOK'
  BY DEF PtrTypeOK
<1>2. Live' = Live /\ Live = {}
  BY DEF Live, LiveInv
<1>3. CountInv' /\ LiveInv' /\ DeleterInv'
  BY <1>2 DEF CountInv, LiveInv, DeleterInv, PtrTypeOK
<1> QED
  BY <1>1, <1>3

LEMMA PtrInductive == PtrInv /\ [PtrNext]_ptrVars => PtrInv'
<1> SUFFICES ASSUME PtrInv, [PtrNext]_ptrVars PROVE PtrInv'
  OBVIOUS
<1>1. CASE UNCHANGED ptrVars
  BY <1>1 DEF ptrVars, PtrInv, PtrTypeOK, CountInv, LiveInv, DeleterInv, Deletes, Live
<1>2. CASE PtrNext
  BY <1>2, CopyInv, HandOverInv, DecrementInv, ReadBackInv, FreeCounterInv,
     DestroyPointeeInv DEF PtrNext
<1> QED
  BY <1>1, <1>2

\* No release, however it is interleaved with others, frees the counter or the
\* object while some thread holds a copy.
THEOREM PointeeAlive == PtrSpec => []AliveWhileHeld
<1>1. PtrInv => AliveWhileHeld
  BY DEF PtrInv, LiveInv, AliveWhileHeld
<1> QED
  BY <1>1, PtrInitInv, PtrInductive, PTL DEF PtrSpec

\* When the last copy has gone and all releases have returned, the object has
\* been deleted.
THEOREM PointeeDeleted == PtrSpec => []NoLeak
<1>1. PtrInv => NoLeak
  BY DEF PtrInv, PtrTypeOK, DeleterInv, Deletes, NoLeak
<1> QED
  BY <1>1, PtrInitInv, PtrInductive, PTL DEF PtrSpec

(***************************************************************************)
(* Fsm, for any scheme: what the machine owns, which objects handlers run   *)
(* on and which timers are looped over.                                     *)
(***************************************************************************)
\* The two pointers and the timers after a change of state, at any depth.
MachineOK ==
    /\ allocated \subseteq Objects /\ current \in States
    /\ cur \in Objects /\ prev \in Objects \cup {Nothing}
    /\ DOMAIN clock \subseteq Timers
    /\ \A t \in DOMAIN clock :
          clock[t] \in [elapsed : 0 .. Value[t] - 1, suspended : BOOLEAN,
                        expired : BOOLEAN]
    /\ \/ tick = Nothing
       \/ tick \in [slice : Slices, left : SUBSET Timers,
                    timer : Timers \cup {Nothing}, from : States, changed : 0 .. 2]
    /\ TimersOfState

\* The calls of process; a destroyed machine has none.
CallsOK ==
    /\ running \in BOOLEAN
    /\ stack \in Seq(Frame) /\ Len(stack) <= MaxDepth
    /\ changes \in 0 .. MaxSwitches
    /\ ~running => stack = <<>> /\ tick = Nothing

OwnInv == MachineOK /\ CallsOK /\ StatesOwned

\* There is an address for a new state that neither the machine nor a call of
\* process uses.
LEMMA NewObjectFree ==
  ASSUME OwnInv, running
  PROVE  NewObject \in Objects /\ NewObject \notin allocated
<1> DEFINE n == Len(stack)
           used == {stack[i].object : i \in DOMAIN stack}
           f == [i \in 1 .. n |-> stack[i].object]
<1>1. n \in Nat /\ n <= MaxDepth /\ DOMAIN stack = 1 .. n
  BY LenProperties DEF OwnInv, CallsOK
<1>2. f \in Surjection(1 .. n, used)
  BY <1>1 DEF Surjection
<1>3. IsFiniteSet(1 .. n) /\ Cardinality(1 .. n) = n
  <2> HIDE DEF n
  <2> QED
    BY <1>1, FS_Interval
<1>4. IsFiniteSet(used) /\ Cardinality(used) <= n
  BY <1>2, <1>3, FS_Surjection
<1> HIDE DEF used, f, n
<1>5. allocated \subseteq {cur, prev}
  BY DEF OwnInv, StatesOwned
<1>6. IsFiniteSet({cur, prev}) /\ Cardinality({cur, prev}) <= 2
  <2>1. IsFiniteSet({cur}) /\ Cardinality({cur}) = 1
    BY FS_Singleton
  <2>2. {cur, prev} = {cur} \cup {prev}
    OBVIOUS
  <2> QED
    BY <2>1, <2>2, FS_AddElement
<1> DEFINE busy == {cur, prev} \cup used
<1>7. IsFiniteSet(busy) /\ Cardinality(busy) <= n + 2
  <2>1. /\ IsFiniteSet(busy)
        /\ Cardinality(busy) = Cardinality({cur, prev}) + Cardinality(used)
                                 - Cardinality({cur, prev} \cap used)
    BY <1>4, <1>6, FS_Union
  <2>2. IsFiniteSet({cur, prev} \cap used)
    BY <1>4, FS_Subset
  <2>3. /\ Cardinality({cur, prev} \cap used) \in Nat /\ Cardinality(used) \in Nat
        /\ Cardinality({cur, prev}) \in Nat
    BY <1>4, <1>6, <2>2, FS_CardinalityType
  <2> QED
    BY <1>1, <1>4, <1>6, <2>1, <2>3
<1>8. ~(Objects \subseteq busy)
  <2> SUFFICES ASSUME Objects \subseteq busy PROVE FALSE
    OBVIOUS
  <2>1. Cardinality(Objects) <= Cardinality(busy)
    BY <1>7, FS_Subset
  <2>2. Cardinality(Objects) \in Nat /\ Cardinality(busy) \in Nat
    BY <1>7, ObjectsAssumption, FS_CardinalityType
  <2> QED
    BY <1>1, <1>7, <2>1, <2>2, ObjectsAssumption
<1>9. \E o \in Objects : o \notin allocated \cup used
  BY <1>5, <1>8
<1>10. NewObject = CHOOSE o \in Objects : o \notin allocated \cup used
  BY DEF NewObject, used
<1>11. NewObject \in Objects /\ NewObject \notin allocated \cup used
  BY <1>9, <1>10
<1> QED
  BY <1>11

Owns == cur # prev /\ allocated = {cur, prev} \ {Nothing}

LEMMA OwnInit == FsmInit => OwnInv
<1> SUFFICES ASSUME FsmInit PROVE OwnInv
  OBVIOUS
<1> USE DEF FsmInit
<1>1. Objects # {}
  BY ObjectsAssumption, FS_EmptySet
<1>2. cur \in Objects
  BY <1>1
<1>3. MachineOK
  BY <1>2, StatesAssumption DEF MachineOK, TimersOfState
<1>4. CallsOK
  BY ObjectsAssumption DEF CallsOK
<1>5. StatesOwned
  BY <1>2, ObjectsAssumption DEF StatesOwned
<1> QED
  BY <1>3, <1>4, <1>5 DEF OwnInv

LEMMA ChangedFrames ==
  ASSUME NEW frames \in Seq(Frame)
  PROVE  /\ [i \in DOMAIN frames |-> Changed(frames[i])] \in Seq(Frame)
         /\ Len([i \in DOMAIN frames |-> Changed(frames[i])]) = Len(frames)
<1> DEFINE c == [i \in DOMAIN frames |-> Changed(frames[i])]
<1>1. Len(frames) \in Nat /\ DOMAIN frames = 1 .. Len(frames)
  BY LenProperties
<1>2. ASSUME NEW i \in DOMAIN frames PROVE Changed(frames[i]) \in Frame
  <2>1. frames[i] \in Frame
    BY <1>1, ElementOfSeq
  <2>2. Again(frames[i].changed) \in 0 .. 2
    BY <2>1 DEF Again, Frame
  <2> QED
    BY <2>1, <2>2 DEF Changed, Frame
<1>3. c \in [1 .. Len(frames) -> Frame] /\ DOMAIN c = 1 .. Len(frames)
  BY <1>1, <1>2
<1> HIDE DEF c
<1>4. c \in Seq(Frame)
  BY <1>1, <1>3, SeqDef
<1>5. Len(c) = Len(frames)
  BY <1>1, <1>3, <1>4, LenProperties
<1> QED
  BY <1>4, <1>5 DEF c

\* A change of state deletes the previous state, keeps the one it leaves and
\* makes the timers of the new one.
LEMMA SwitchKeeps ==
  ASSUME OwnInv, running, NEW s \in States, NEW frames \in Seq(Frame),
         SwitchState(s, frames)
  PROVE  MachineOK' /\ Owns' /\ stack' \in Seq(Frame) /\ Len(stack') = Len(frames)
<1>1. CASE stack' = frames /\ UNCHANGED machine
  BY <1>1 DEF machine, OwnInv, MachineOK, TimersOfState, StatesOwned, Owns
<1>2. CASE /\ allocated' = Owned /\ prev' = cur /\ cur' = NewObject /\ current' = s
           /\ clock' = [t \in TimersAfter(s) |-> NewTimer]
           /\ tick' = IF tick = Nothing THEN tick ELSE Changed(tick)
           /\ stack' = [i \in DOMAIN frames |-> Changed(frames[i])]
  <2>1. NewObject \in Objects /\ NewObject \notin allocated
    BY NewObjectFree
  <2>2. /\ cur \in Objects /\ allocated = {cur, prev} \ {Nothing} /\ cur # prev
        /\ Nothing \notin Objects
    BY ObjectsAssumption DEF OwnInv, MachineOK, StatesOwned
  <2>3. Owns'
    BY <1>2, <2>1, <2>2 DEF Owned, Owns
  <2>4. allocated' \subseteq Objects /\ cur' \in Objects /\ prev' \in Objects
    BY <1>2, <2>1, <2>2 DEF Owned, OwnInv, MachineOK
  <2>5. /\ DOMAIN clock' = StateTimers[s] /\ StateTimers[s] \subseteq Timers
        /\ \A t \in DOMAIN clock' : clock'[t] = NewTimer
    BY <1>2, TimersAssumption DEF TimersAfter, Timers
  <2>6. \A t \in Timers : NewTimer \in [elapsed : 0 .. Value[t] - 1,
                               suspended : BOOLEAN, expired : BOOLEAN]
    BY TimersAssumption DEF NewTimer, Timers
  <2>7. TimersOfState'
    BY <1>2, <2>5 DEF TimersOfState
  <2>8. \/ tick' = Nothing
        \/ tick' \in [slice : Slices, left : SUBSET Timers,
                      timer : Timers \cup {Nothing}, from : States, changed : 0 .. 2]
    BY <1>2 DEF OwnInv, MachineOK, Changed, Again
  <2>9. MachineOK'
    BY <1>2, <2>4, <2>5, <2>6, <2>7, <2>8 DEF MachineOK
  <2> QED
    BY <1>2, <2>3, <2>9, ChangedFrames
<1> QED
  BY <1>1, <1>2 DEF SwitchState

\* The frame on top, and what is left below it.
LEMMA LastFrame ==
  ASSUME OwnInv, stack # <<>>
  PROVE  /\ Len(stack) \in Nat \ {0} /\ DOMAIN stack = 1 .. Len(stack)
         /\ Last(stack) = stack[Len(stack)] /\ Last(stack) \in Frame
         /\ Front(stack) \in Seq(Frame) /\ Len(Front(stack)) = Len(stack) - 1
         /\ \A i \in 1 .. Len(stack) - 1 : Front(stack)[i] = stack[i]
         /\ running
<1>1. stack \in Seq(Frame) /\ running
  BY DEF OwnInv, CallsOK
<1>2. Len(stack) \in Nat \ {0} /\ DOMAIN stack = 1 .. Len(stack)
  BY <1>1, EmptySeq, LenProperties
<1>3. Last(stack) = stack[Len(stack)] /\ Last(stack) \in Frame
  BY <1>1, <1>2, ElementOfSeq DEF Last
<1>4. /\ Front(stack) \in Seq(Frame) /\ Len(Front(stack)) = Len(stack) - 1
      /\ \A i \in 1 .. Len(stack) - 1 : Front(stack)[i] = stack[i]
  <2>1. 1 \in 1 .. Len(stack) + 1 /\ Len(stack) - 1 \in 1 - 1 .. Len(stack)
    BY <1>2
  <2>2. \A i \in 1 .. Len(stack) - 1 : i \in 1 .. Len(stack)
    BY <1>2
  <2> QED
    BY <1>1, <1>2, <2>1, <2>2, SubSeqProperties DEF Front
<1> QED
  BY <1>1, <1>2, <1>3, <1>4

\* The return of process, whatever it makes of the target.
LEMMA ReturnKeeps ==
  ASSUME OwnInv, stack # <<>>, NEW target \in States \cup {Stay}, Return(target)
  PROVE  OwnInv'
<1>1. /\ changes' \in {0, changes} /\ running' = running
      /\ \/ target \in States /\ SwitchState(target, Front(stack))
         \/ stack' = Front(stack) /\ UNCHANGED machine
  BY DEF Return, Changes
<1>2. running /\ Front(stack) \in Seq(Frame) /\ Len(Front(stack)) = Len(stack) - 1
  BY LastFrame
<1>3. MachineOK' /\ Owns' /\ stack' \in Seq(Frame) /\ Len(stack') = Len(stack) - 1
  <2>1. CASE stack' = Front(stack) /\ UNCHANGED machine
    BY <1>2, <2>1 DEF machine, OwnInv, MachineOK, TimersOfState, StatesOwned, Owns
  <2> QED
    BY <1>1, <1>2, <2>1, SwitchKeeps
<1>4. CallsOK'
  BY <1>1, <1>2, <1>3, LastFrame, ObjectsAssumption DEF OwnInv, CallsOK
<1> QED
  BY <1>1, <1>2, <1>3, <1>4 DEF OwnInv, StatesOwned, Owns

\* A call of process begins on the current state.
LEMMA BeginKeeps ==
  ASSUME OwnInv, running, NEW e \in Events \cup NestedEvents \cup Timers, Begin(e),
         Len(stack) < MaxDepth, changes' = changes, running' = running
  PROVE  CallsOK'
<1> DEFINE f == [object |-> cur, from |-> current, event |-> e, at |-> 0,
                 changed |-> 0]
<1>1. f \in Frame
  BY DEF OwnInv, MachineOK, Frame
<1>2. stack \in Seq(Frame) /\ stack' = Append(stack, f) /\ Len(stack) \in Nat
  BY LenProperties DEF OwnInv, CallsOK, Begin
<1> HIDE DEF f
<1>3. stack' \in Seq(Frame) /\ Len(stack') = Len(stack) + 1
  BY <1>1, <1>2, AppendProperties
<1> QED
  BY <1>2, <1>3, ObjectsAssumption DEF OwnInv, CallsOK

\* Rows of the scheme lead to states or stay.
LEMMA Targets ==
  \A i \in DOMAIN Transitions : Transitions[i].target \in States \cup {Stay}
<1> DEFINE R == [state : States, event : Events \cup NestedEvents \cup DOMAIN Value,
                 cond : BOOLEAN, target : States \cup {Stay}]
<1>1. Transitions \in Seq(R)
  BY SchemeAssumption
<1>2. \A i \in DOMAIN Transitions : Transitions[i] \in R
  BY <1>1, ElementOfSeq, LenProperties
<1> QED
  BY <1>2

LEMMA CallKeeps ==
  ASSUME OwnInv,
         \/ \E e \in Events : Process(e)
         \/ \E e \in NestedEvents : ProcessInside(e)
         \/ \E s \in States : SwitchInside(s)
         \/ ConditionTrue \/ ConditionFalse \/ FinalReturns
  PROVE  OwnInv'
<1>1. ASSUME NEW e \in Events, Process(e) PROVE OwnInv'
  <2>1. running /\ Len(stack) < MaxDepth
    BY <1>1, ObjectsAssumption, EmptySeq DEF Process, Idle
  <2>2. CallsOK'
    BY <1>1, <2>1, BeginKeeps DEF Process
  <2> QED
    BY <1>1, <2>2 DEF Process, OwnInv, machine, MachineOK, TimersOfState,
                      StatesOwned
<1>2. ASSUME NEW e \in NestedEvents, ProcessInside(e) PROVE OwnInv'
  <2>1. running /\ Len(stack) < MaxDepth
    BY <1>2 DEF ProcessInside, OwnInv, CallsOK
  <2>2. CallsOK'
    BY <1>2, <2>1, BeginKeeps DEF ProcessInside
  <2> QED
    BY <1>2, <2>2 DEF ProcessInside, OwnInv, machine, MachineOK, TimersOfState,
                      StatesOwned
<1>3. ASSUME NEW s \in States, SwitchInside(s) PROVE OwnInv'
  <2>1. running
    BY <1>3 DEF SwitchInside, OwnInv, CallsOK
  <2>2. stack \in Seq(Frame) /\ stack # <<>>
    BY <1>3 DEF SwitchInside, OwnInv, CallsOK
  <2>3. MachineOK' /\ Owns' /\ stack' \in Seq(Frame) /\ Len(stack') = Len(stack)
    BY <1>3, <2>1, <2>2, SwitchKeeps DEF SwitchInside
  <2>4. CallsOK'
    BY <1>3, <2>1, <2>3, ObjectsAssumption DEF SwitchInside, OwnInv, CallsOK
  <2> QED
    BY <1>3, <2>1, <2>3, <2>4 DEF SwitchInside, OwnInv, StatesOwned, Owns
<1>4. CASE ConditionTrue
  BY <1>4, ReturnKeeps, Targets DEF ConditionTrue, FirstOf, Untried, Conditions, Rows
<1>5. CASE FinalReturns
  BY <1>5, ReturnKeeps, Targets, StatesAssumption
     DEF FinalReturns, FirstOf, Finals, Rows
<1>6. CASE ConditionFalse
  <2> PICK i \in DOMAIN Transitions : stack' = [stack EXCEPT ![Len(stack)].at = i]
    BY <1>6 DEF ConditionFalse, FirstOf, Untried, Conditions, Rows
  <2>1. i \in Nat
    BY SchemeAssumption, LenProperties
  <2>2. Len(stack) \in DOMAIN stack /\ stack[Len(stack)] \in Frame /\ stack \in Seq(Frame)
    BY <1>6, LastFrame DEF ConditionFalse, OwnInv, CallsOK
  <2>3. [stack[Len(stack)] EXCEPT !.at = i] \in Frame
    BY <2>1, <2>2 DEF Frame
  <2>4. stack' \in Seq(Frame) /\ Len(stack') = Len(stack)
    BY <2>2, <2>3, ExceptSeq
  <2>5. CallsOK'
    BY <1>6, <2>4, LastFrame DEF ConditionFalse, OwnInv, CallsOK
  <2> QED
    BY <1>6, <2>5 DEF ConditionFalse, OwnInv, machine, MachineOK, TimersOfState,
                      StatesOwned
<1> QED
  BY <1>1, <1>2, <1>3, <1>4, <1>5, <1>6

\* fsm_timer::tick leaves the elapsed time below the period, and does not touch
\* a suspended timer.
LEMMA AdvancedTimer ==
  ASSUME OwnInv, NEW t \in DOMAIN clock, NEW slice \in Slices
  PROVE  /\ Advanced(t, clock[t], slice) \in
               [elapsed : 0 .. Value[t] - 1, suspended : BOOLEAN, expired : BOOLEAN]
         /\ Advanced(t, clock[t], slice).suspended = clock[t].suspended
<1> DEFINE c == clock[t]
<1>1. /\ c \in [elapsed : 0 .. Value[t] - 1, suspended : BOOLEAN, expired : BOOLEAN]
      /\ Value[t] \in Nat \ {0} /\ slice \in Nat
  BY TimersAssumption DEF OwnInv, MachineOK, Timers
<1>2. Advanced(t, c, slice) =
         IF c.suspended THEN c
         ELSE IF c.elapsed + slice < Value[t]
                THEN [c EXCEPT !.elapsed = c.elapsed + slice, !.expired = FALSE]
                ELSE [c EXCEPT !.elapsed = 0, !.expired = TRUE]
  BY DEF Advanced
<1> DEFINE a == Advanced(t, c, slice)
<1> SUFFICES /\ a \in [elapsed : 0 .. Value[t] - 1, suspended : BOOLEAN,
                        expired : BOOLEAN]
             /\ a.suspended = c.suspended
  OBVIOUS
<1> HIDE DEF a, c
<1>3. CASE c.suspended
  BY <1>1, <1>2, <1>3 DEF a
<1>4. CASE ~c.suspended /\ c.elapsed + slice < Value[t]
  <2>1. a = [c EXCEPT !.elapsed = c.elapsed + slice, !.expired = FALSE]
    BY <1>2, <1>4 DEF a
  <2>2. c.elapsed + slice \in 0 .. Value[t] - 1
    BY <1>1, <1>4
  <2> QED
    BY <1>1, <2>1, <2>2
<1>5. CASE ~c.suspended /\ ~(c.elapsed + slice < Value[t])
  <2>1. a = [c EXCEPT !.elapsed = 0, !.expired = TRUE]
    BY <1>2, <1>5 DEF a
  <2>2. 0 \in 0 .. Value[t] - 1
    BY <1>1
  <2> QED
    BY <1>1, <2>1, <2>2
<1> QED
  BY <1>3, <1>4, <1>5

\* One timer of the state is set; the pointers stay.
LEMMA ClockKeeps ==
  ASSUME OwnInv, NEW t \in DOMAIN clock,
         NEW c \in [elapsed : 0 .. Value[t] - 1, suspended : BOOLEAN, expired : BOOLEAN],
         clock' = [clock EXCEPT ![t] = c],
         UNCHANGED <<allocated, cur, current, prev>>,
         \/ tick' = Nothing
         \/ tick' \in [slice : Slices, left : SUBSET Timers,
                       timer : Timers \cup {Nothing}, from : States, changed : 0 .. 2]
  PROVE  MachineOK'
<1>1. DOMAIN clock' = DOMAIN clock
  OBVIOUS
<1>2. \A u \in DOMAIN clock' :
         clock'[u] \in [elapsed : 0 .. Value[u] - 1, suspended : BOOLEAN,
                        expired : BOOLEAN]
  BY <1>1 DEF OwnInv, MachineOK
<1> QED
  BY <1>1, <1>2 DEF OwnInv, MachineOK, TimersOfState

LEMMA TimerKeeps ==
  ASSUME OwnInv,
         \E t \in DOMAIN clock : StartTimer(t) \/ StopTimer(t) \/ RestartTimer(t)
  PROVE  OwnInv'
<1> PICK t \in DOMAIN clock : StartTimer(t) \/ StopTimer(t) \/ RestartTimer(t)
  OBVIOUS
<1> DEFINE T == [elapsed : 0 .. Value[t] - 1, suspended : BOOLEAN, expired : BOOLEAN]
<1>1. clock[t] \in T /\ Value[t] \in Nat \ {0}
  BY TimersAssumption DEF OwnInv, MachineOK, Timers
<1>2. /\ [clock[t] EXCEPT !.suspended = FALSE] \in T
      /\ [clock[t] EXCEPT !.suspended = TRUE] \in T
      /\ NewTimer \in T
  <2>1. 0 \in 0 .. Value[t] - 1
    BY <1>1
  <2>2. NewTimer \in T
    BY <2>1 DEF NewTimer
  <2> QED
    BY <1>1, <2>2
<1> HIDE DEF T
<1>3. PICK c \in T : SetTimer(t, c)
  BY <1>2 DEF StartTimer, StopTimer, RestartTimer
<1>4. MachineOK'
  BY <1>3, ClockKeeps DEF SetTimer, T, OwnInv, MachineOK
<1> QED
  BY <1>3, <1>4 DEF SetTimer, OwnInv, CallsOK, StatesOwned

LEMMA TickTimerKeeps ==
  ASSUME OwnInv, TickTimer
  PROVE  OwnInv'
<1> DEFINE T == [slice : Slices, left : SUBSET Timers,
                timer : Timers \cup {Nothing}, from : States, changed : 0 .. 2]
<1>1. /\ tick \in T /\ stack = <<>> /\ running
      /\ UNCHANGED <<running, allocated, cur, current, prev, changes>>
  BY DEF TickTimer, Ticking, OwnInv, MachineOK, CallsOK
<1>2. PICK t \in tick.left :
         /\ clock' = [clock EXCEPT ![t] = Advanced(t, clock[t], tick.slice)]
         /\ \/ Begin(t) /\ tick' = [tick EXCEPT !.left = @ \ {t}, !.timer = t]
            \/ UNCHANGED stack /\ tick' = [tick EXCEPT !.left = @ \ {t}]
  BY DEF TickTimer, FirstOf
<1>3. t \in Timers /\ tick.slice \in Slices
  BY <1>1
<1>4. tick' \in T
  BY <1>1, <1>2, <1>3
<1>5. MachineOK'
  <2>1. CASE t \in DOMAIN clock
    BY <1>1, <1>2, <1>3, <1>4, <2>1, AdvancedTimer, ClockKeeps
  <2>2. CASE t \notin DOMAIN clock
    <3>1. DOMAIN clock' = DOMAIN clock /\ \A u \in DOMAIN clock : clock'[u] = clock[u]
      BY <1>2, <2>2
    <3> QED
      BY <1>1, <1>4, <3>1 DEF OwnInv, MachineOK, TimersOfState
  <2> QED
    BY <2>1, <2>2
<1>6. CallsOK'
  <2>1. Len(stack) < MaxDepth
    BY <1>1, ObjectsAssumption, EmptySeq
  <2>2. CASE Begin(t)
    BY <1>1, <1>3, <2>1, <2>2, BeginKeeps
  <2>3. CASE UNCHANGED stack
    BY <1>1, <2>3 DEF OwnInv, CallsOK
  <2> QED
    BY <1>2, <2>2, <2>3
<1> QED
  BY <1>1, <1>5, <1>6 DEF OwnInv, StatesOwned

LEMMA TickKeeps ==
  ASSUME OwnInv,
         (\E n \in Slices : TimerTick(n)) \/ TickChecks \/ TickEnds
  PROVE  OwnInv'
<1>1. UNCHANGED <<running, allocated, cur, current, prev, clock, stack, changes>> /\ running
  BY DEF TimerTick, Idle, TickChecks, TickEnds, Ticking, OwnInv, CallsOK
<1>2. \/ tick' = Nothing
      \/ tick' \in [slice : Slices, left : SUBSET Timers,
                    timer : Timers \cup {Nothing}, from : States, changed : 0 .. 2]
  <2>1. ASSUME NEW n \in Slices, TimerTick(n) PROVE <1>2
    <3>1. current \in States /\ DOMAIN clock \subseteq Timers
      BY DEF OwnInv, MachineOK
    <3> QED
      BY <2>1, <3>1 DEF TimerTick
  <2>2. CASE TickChecks
    BY <2>2 DEF TickChecks, OwnInv, MachineOK
  <2>3. CASE TickEnds
    BY <2>3 DEF TickEnds
  <2> QED
    BY <2>1, <2>2, <2>3
<1> QED
  BY <1>1, <1>2 DEF OwnInv, MachineOK, TimersOfState, CallsOK, StatesOwned

LEMMA DestroyKeeps ==
  ASSUME OwnInv, DestroyFsm
  PROVE  OwnInv'
BY DEF DestroyFsm, Idle, OwnInv, MachineOK, TimersOfState, CallsOK, StatesOwned

LEMMA OwnInductive == OwnInv /\ [FsmNext]_fsmVars => OwnInv'
<1> SUFFICES ASSUME OwnInv, [FsmNext]_fsmVars PROVE OwnInv'
  OBVIOUS
<1>1. CASE UNCHANGED fsmVars
  BY <1>1 DEF fsmVars, machine, OwnInv, MachineOK, TimersOfState, CallsOK,
              StatesOwned
<1>2. CASE FsmNext
  BY <1>2, CallKeeps, TimerKeeps, TickTimerKeeps, TickKeeps, DestroyKeeps DEF FsmNext
<1> QED
  BY <1>1, <1>2

\* The machine owns its two states and nothing else, whatever the scheme and
\* however deep the handlers nest: no state is leaked, none is deleted twice.
THEOREM NoStateLeaks == FsmSpec => []StatesOwned
<1>1. OwnInv => StatesOwned
  BY DEF OwnInv
<1> QED
  BY <1>1, OwnInit, OwnInductive, PTL DEF FsmSpec

\* Once it has changed its state, the machine has the timers of its state.
THEOREM TimersFollow == FsmSpec => []TimersOfState
<1>1. OwnInv => TimersOfState
  BY DEF OwnInv, MachineOK
<1> QED
  BY <1>1, OwnInit, OwnInductive, PTL DEF FsmSpec

\* A handler of a timeout never begins for a timer that was suspended.
THEOREM SuspendedStaysSilent == FsmSpec => SuspendedSilent
<1> DEFINE Silent ==
      \A t \in DOMAIN clock :
          tick' # Nothing /\ tick'.timer = t /\ Ticking => ~clock[t].suspended
<1>1. OwnInv /\ [FsmNext]_fsmVars => [Silent]_fsmVars
  <2> SUFFICES ASSUME OwnInv, FsmNext, NEW t \in DOMAIN clock,
                      tick' # Nothing, tick'.timer = t, Ticking
               PROVE  ~clock[t].suspended
    BY DEF fsmVars
  <2>1. t \in Timers /\ t # Nothing
    BY TimersAssumption DEF OwnInv, MachineOK, Timers
  <2>2. /\ tick # Nothing /\ stack = <<>> /\ tick.timer = Nothing
        /\ tick \in [slice : Slices, left : SUBSET Timers,
                     timer : Timers \cup {Nothing}, from : States, changed : 0 .. 2]
    BY DEF Ticking, OwnInv, MachineOK
  <2>3. tick' # tick
    BY <2>1, <2>2
  <2>4. TickTimer
    BY <2>2, <2>3 DEF FsmNext, Process, ProcessInside, SwitchInside, Idle, ConditionTrue,
       ConditionFalse, FinalReturns, StartTimer, StopTimer, RestartTimer, SetTimer,
       TimerTick, TickChecks, TickEnds, DestroyFsm
  <2>5. PICK u \in tick.left :
           \/ /\ Expired(Advanced(u, clock[u], tick.slice))
              /\ tick' = [tick EXCEPT !.left = @ \ {u}, !.timer = u]
           \/ tick' = [tick EXCEPT !.left = @ \ {u}]
    BY <2>4 DEF TickTimer, FirstOf
  <2>6. u = t /\ Expired(Advanced(t, clock[t], tick.slice))
    BY <2>1, <2>2, <2>5
  <2> QED
    BY <2>2, <2>6, AdvancedTimer DEF Expired
<1> QED
  BY <1>1, OwnInit, OwnInductive, PTL DEF FsmSpec, SuspendedSilent

\* A transition that leads back to the state in which its event began does not
\* undo the change a handler made meanwhile.
THEOREM HandlersChangeKept == FsmSpec => RecursiveChangeKept
<1> DEFINE Kept == Len(stack') < Len(stack) /\ LeadsBack(Last(stack)) => cur' = cur
<1>1. OwnInv /\ [FsmNext]_fsmVars => [Kept]_fsmVars
  <2> SUFFICES ASSUME OwnInv, FsmNext, Len(stack') < Len(stack), LeadsBack(Last(stack))
               PROVE  cur' = cur
    BY DEF fsmVars
  <2> DEFINE f == Last(stack)
  <2>1. Len(stack) \in Nat /\ stack \in Seq(Frame)
    BY LenProperties DEF OwnInv, CallsOK
  <2>2. \A e : ~Begin(e)
    BY <2>1, AppendProperties DEF Begin
  <2>3. ~ConditionFalse
    <3> SUFFICES ASSUME ConditionFalse PROVE FALSE
      OBVIOUS
    <3>1. Len(stack') = Len(stack)
      BY <2>1, LenProperties DEF ConditionFalse
    <3> QED
      BY <2>1, <3>1
  <2>4. stack' # stack
    BY <2>1
  <2>5. ASSUME NEW s \in States, SwitchInside(s) PROVE FALSE
    BY <2>1, <2>5, ChangedFrames DEF SwitchInside, SwitchState
  <2>6. ConditionTrue \/ FinalReturns
    BY <2>2, <2>3, <2>4, <2>5 DEF FsmNext, Process, ProcessInside, StartTimer, StopTimer,
       RestartTimer, SetTimer, TimerTick, TickTimer, TickChecks, TickEnds, DestroyFsm
  <2>7. Finals(f) # {} /\ \A i \in Rows(f.from, f.event) : Transitions[i].target = f.from
    BY DEF LeadsBack
  <2>8. Return(f.from)
    BY <2>6, <2>7 DEF ConditionTrue, FinalReturns, FirstOf, Untried, Conditions, Finals
  <2> QED
    BY <2>8 DEF Return, Changes, machine
<1> QED
  BY <1>1, OwnInit, OwnInductive, PTL DEF FsmSpec, RecursiveChangeKept

(***************************************************************************)
(* Changes made by handlers, at any depth and in any number: a call of      *)
(* process runs on the current state, on the previous one after the first   *)
(* change under it, and only a second change can delete its object.         *)
(***************************************************************************)
FramesInv ==
    \A i \in DOMAIN stack :
        /\ stack[i].changed = 0 => stack[i].object = cur
        /\ stack[i].changed = 1 => stack[i].object = prev /\ prev # Nothing

\* One change always leads away from the state the loop over the timers began
\* in, and that is what TickChecks compares.
LoopInv ==
    tick # Nothing =>
        /\ tick.changed = 0 => current = tick.from
        /\ tick.changed = 1 => current # tick.from
        /\ stack # <<>> => tick.timer # Nothing
        /\ Ticking => tick.changed # 1

NestInv == FramesInv /\ LoopInv

LEMMA NestInit == FsmInit => NestInv
BY LenProperties, EmptySeq DEF FsmInit, NestInv, FramesInv, LoopInv

\* A change of state, made by a handler or by a transition on its return; frames
\* are the calls that go on.
LEMMA SwitchNest ==
  ASSUME OwnInv, NestInv, running, stack # <<>>, NEW s \in States,
         NEW frames \in Seq(Frame), SwitchState(s, frames),
         \A i \in DOMAIN frames : i \in DOMAIN stack /\ frames[i] = stack[i]
  PROVE  NestInv'
<1>1. CASE stack' = frames /\ UNCHANGED machine
  BY <1>1 DEF machine, NestInv, FramesInv, LoopInv, Ticking
<1>2. CASE /\ s # current /\ prev' = cur /\ current' = s
           /\ tick' = IF tick = Nothing THEN tick ELSE Changed(tick)
           /\ stack' = [i \in DOMAIN frames |-> Changed(frames[i])]
  <2>1. cur \in Objects /\ Nothing \notin Objects
    BY ObjectsAssumption DEF OwnInv, MachineOK
  <2>2. FramesInv'
    <3> SUFFICES ASSUME NEW i \in DOMAIN stack'
                 PROVE  /\ stack'[i].changed # 0
                        /\ stack'[i].changed = 1 => stack'[i].object = cur
      BY <1>2, <2>1 DEF FramesInv
    <3>1. i \in DOMAIN frames /\ stack'[i] = Changed(frames[i])
      BY <1>2
    <3>2. frames[i] \in Frame /\ frames[i] = stack[i] /\ i \in DOMAIN stack
      BY <3>1, ElementOfSeq, LenProperties
    <3>3. /\ stack'[i].changed = Again(frames[i].changed)
          /\ stack'[i].object = frames[i].object
      BY <3>1, <3>2 DEF Changed, Frame
    <3>4. frames[i].changed \in 0 .. 2
      BY <3>2 DEF Frame
    <3>5. Again(frames[i].changed) # 0
          /\ (Again(frames[i].changed) = 1 => frames[i].changed = 0)
      BY <3>4 DEF Again
    <3> QED
      BY <3>2, <3>3, <3>5 DEF NestInv, FramesInv
  <2>3. LoopInv'
    <3> SUFFICES ASSUME tick' # Nothing PROVE LoopInv'
      BY DEF LoopInv
    <3>1. /\ tick # Nothing /\ tick' = Changed(tick)
          /\ tick \in [slice : Slices, left : SUBSET Timers,
                      timer : Timers \cup {Nothing}, from : States, changed : 0 .. 2]
      BY <1>2 DEF OwnInv, MachineOK
    <3>2. /\ tick'.changed = Again(tick.changed) /\ tick'.from = tick.from
          /\ tick'.timer = tick.timer /\ tick.changed \in 0 .. 2
      BY <3>1 DEF Changed
    <3>3. /\ tick.timer # Nothing
          /\ tick.changed = 0 => current = tick.from
      BY <3>1 DEF NestInv, LoopInv
    <3>4. /\ Again(tick.changed) # 0
          /\ Again(tick.changed) = 1 => tick.changed = 0
      BY <3>2 DEF Again
    <3> QED
      BY <1>2, <3>2, <3>3, <3>4 DEF LoopInv, Ticking
  <2> QED
    BY <2>2, <2>3 DEF NestInv
<1> QED
  BY <1>1, <1>2 DEF SwitchState

LEMMA ReturnNest ==
  ASSUME OwnInv, NestInv, stack # <<>>, NEW target \in States \cup {Stay},
         Return(target)
  PROVE  NestInv'
<1>1. /\ DOMAIN stack = 1 .. Len(stack) /\ Len(stack) \in Nat /\ running
      /\ Front(stack) \in Seq(Frame) /\ Len(Front(stack)) = Len(stack) - 1
      /\ \A i \in 1 .. Len(stack) - 1 : Front(stack)[i] = stack[i]
  BY LastFrame
<1>2. DOMAIN Front(stack) = 1 .. Len(stack) - 1
  BY <1>1, LenProperties
<1>3. \A i \in DOMAIN Front(stack) : i \in DOMAIN stack /\ Front(stack)[i] = stack[i]
  BY <1>1, <1>2
<1>4. CASE target \in States /\ SwitchState(target, Front(stack))
  BY <1>1, <1>3, <1>4, SwitchNest
<1>5. CASE stack' = Front(stack) /\ UNCHANGED machine
  <2>1. FramesInv'
    BY <1>3, <1>5 DEF machine, NestInv, FramesInv
  <2>2. LoopInv'
    BY <1>5 DEF machine, NestInv, LoopInv, Ticking
  <2> QED
    BY <2>1, <2>2 DEF NestInv
<1> QED
  BY <1>4, <1>5 DEF Return, Changes

\* A call begins on the current state.
LEMMA BeginNest ==
  ASSUME OwnInv, FramesInv, NEW e, Begin(e), UNCHANGED <<cur, prev>>
  PROVE  FramesInv'
<1> DEFINE f == [object |-> cur, from |-> current, event |-> e, at |-> 0,
                 changed |-> 0]
<1>1. stack \in Seq(Frame) /\ stack' = Append(stack, f)
  BY DEF OwnInv, CallsOK, Begin
<1>2. Len(stack) \in Nat /\ DOMAIN stack = 1 .. Len(stack)
  BY <1>1, LenProperties
<1>3. f.object = cur /\ f.changed = 0
  OBVIOUS
<1> HIDE DEF f
<1>4. /\ DOMAIN stack' = 1 .. Len(stack) + 1
      /\ \A i \in 1 .. Len(stack) : stack'[i] = stack[i]
      /\ stack'[Len(stack) + 1] = f
  BY <1>1, <1>2
<1> SUFFICES ASSUME NEW i \in DOMAIN stack'
             PROVE  /\ stack'[i].changed = 0 => stack'[i].object = cur
                    /\ stack'[i].changed = 1 => stack'[i].object = prev /\ prev # Nothing
  BY DEF FramesInv
<1>5. CASE i \in 1 .. Len(stack)
  BY <1>2, <1>4, <1>5 DEF FramesInv
<1>6. CASE i = Len(stack) + 1
  BY <1>3, <1>4, <1>6
<1> QED
  BY <1>2, <1>4, <1>5, <1>6

\* The calls of process and the conditions that do not end one.
LEMMA CallNest ==
  ASSUME OwnInv, NestInv,
         \/ \E e \in Events : Process(e)
         \/ \E e \in NestedEvents : ProcessInside(e)
         \/ ConditionFalse
  PROVE  NestInv'
<1>1. UNCHANGED machine /\ (stack = <<>> => tick = Nothing)
  BY DEF Process, ProcessInside, ConditionFalse, Idle
<1>2. LoopInv'
  <2> SUFFICES ASSUME tick' # Nothing, stack' = <<>> PROVE FALSE
    BY <1>1 DEF machine, NestInv, LoopInv, Ticking
  <2>1. stack # <<>> /\ stack \in Seq(Frame)
    BY <1>1 DEF machine, OwnInv, CallsOK
  <2>2. Len(stack) \in Nat \ {0} /\ DOMAIN stack # {}
    BY <2>1, LastFrame
  <2>3. CASE ConditionFalse
    BY <2>2, <2>3 DEF ConditionFalse
  <2>4. ASSUME NEW e, Begin(e) PROVE FALSE
    BY <2>1, <2>4, AppendProperties DEF Begin
  <2> QED
    BY <2>3, <2>4 DEF Process, ProcessInside
<1>3. CASE ConditionFalse
  <2>1. PICK n \in Nat : stack' = [stack EXCEPT ![Len(stack)].at = n]
    <3>1. DOMAIN Transitions \subseteq Nat
      BY SchemeAssumption, LenProperties
    <3> QED
      BY <1>3, <3>1 DEF ConditionFalse, FirstOf, Untried, Conditions, Rows
  <2>2. DOMAIN stack' = DOMAIN stack /\ \A i \in DOMAIN stack : stack[i] \in Frame
    BY <2>1, ElementOfSeq, LenProperties DEF OwnInv, CallsOK
  <2>3. \A i \in DOMAIN stack : /\ stack'[i].object = stack[i].object
                                /\ stack'[i].changed = stack[i].changed
    BY <2>1, <2>2 DEF Frame
  <2>4. FramesInv'
    BY <1>1, <2>2, <2>3 DEF machine, NestInv, FramesInv
  <2> QED
    BY <1>2, <2>4 DEF NestInv
<1>4. ASSUME NEW e, Begin(e) PROVE NestInv'
  BY <1>1, <1>2, <1>4, BeginNest DEF machine, NestInv
<1> QED
  BY <1>3, <1>4 DEF Process, ProcessInside

\* The steps of the loop over the timers: it goes on while the id of the state
\* is the one it began in.
LEMMA TickNest ==
  ASSUME OwnInv, NestInv,
         (\E n \in Slices : TimerTick(n)) \/ TickTimer \/ TickChecks \/ TickEnds
  PROVE  NestInv'
<1> DEFINE T == [slice : Slices, left : SUBSET Timers,
                 timer : Timers \cup {Nothing}, from : States, changed : 0 .. 2]
<1>1. UNCHANGED <<cur, current, prev>> /\ stack = <<>>
  BY DEF TimerTick, Idle, TickTimer, TickChecks, TickEnds, Ticking
<1>2. FramesInv'
  <2>1. CASE UNCHANGED stack
    BY <1>1, <2>1 DEF NestInv, FramesInv
  <2>2. CASE ~UNCHANGED stack
    <3>1. PICK t : Begin(t)
      BY <2>2 DEF TimerTick, TickTimer, TickChecks, TickEnds
    <3> QED
      BY <1>1, <3>1, BeginNest DEF NestInv
  <2> QED
    BY <2>1, <2>2
<1>3. ASSUME NEW n \in Slices, TimerTick(n) PROVE LoopInv'
  BY <1>1, <1>3 DEF TimerTick, LoopInv, Ticking
<1>4. CASE TickTimer
  <2>1. tick \in T /\ tick # Nothing /\ tick.timer = Nothing
    BY <1>4 DEF TickTimer, Ticking, OwnInv, MachineOK
  <2>2. PICK t \in tick.left :
           \/ tick' = [tick EXCEPT !.left = @ \ {t}, !.timer = t]
           \/ tick' = [tick EXCEPT !.left = @ \ {t}] /\ UNCHANGED stack
    BY <1>4 DEF TickTimer, FirstOf
  <2>3. t # Nothing
    BY <2>1, TimersAssumption DEF Timers
  <2>4. tick'.changed = tick.changed /\ tick'.from = tick.from
    BY <2>1, <2>2
  <2>5. tick'.timer = t \/ (tick'.timer = Nothing /\ UNCHANGED stack)
    BY <2>1, <2>2
  <2>6. /\ tick.changed = 0 => current = tick.from
        /\ tick.changed # 1
    BY <1>4, <2>1 DEF TickTimer, NestInv, LoopInv
  <2> QED
    BY <1>1, <1>2, <2>3, <2>4, <2>5, <2>6 DEF NestInv, LoopInv
<1>5. CASE TickChecks
  <2> SUFFICES ASSUME tick' # Nothing PROVE LoopInv'
    BY <1>2 DEF NestInv, LoopInv
  <2>1. /\ tick \in T /\ tick # Nothing /\ current = tick.from
        /\ tick' = [tick EXCEPT !.timer = Nothing] /\ UNCHANGED stack
    BY <1>5 DEF TickChecks, OwnInv, MachineOK
  <2>2. tick'.changed = tick.changed /\ tick'.from = tick.from
    BY <2>1
  <2> QED
    BY <1>1, <2>1, <2>2 DEF NestInv, LoopInv
<1>6. CASE TickEnds
  BY <1>2, <1>6 DEF TickEnds, NestInv, LoopInv
<1> QED
  BY <1>2, <1>3, <1>4, <1>5, <1>6 DEF NestInv

LEMMA NestInductive == OwnInv /\ NestInv /\ [FsmNext]_fsmVars => (OwnInv /\ NestInv)'
<1> SUFFICES ASSUME OwnInv, NestInv, [FsmNext]_fsmVars PROVE NestInv'
  BY OwnInductive
<1>1. CASE UNCHANGED fsmVars
  BY <1>1 DEF fsmVars, machine, NestInv, FramesInv, LoopInv, Ticking
<1>2. CASE ConditionTrue \/ FinalReturns
  <2>1. PICK target \in States \cup {Stay} : Return(target)
    BY <1>2, Targets, StatesAssumption
       DEF ConditionTrue, FinalReturns, FirstOf, Untried, Conditions, Finals, Rows
  <2>2. stack # <<>>
    BY <1>2 DEF ConditionTrue, FinalReturns
  <2> QED
    BY <2>1, <2>2, ReturnNest
<1>3. ASSUME NEW s \in States, SwitchInside(s) PROVE NestInv'
  <2>1. running /\ stack \in Seq(Frame) /\ stack # <<>>
    BY <1>3 DEF SwitchInside, OwnInv, CallsOK
  <2> QED
    BY <1>3, <2>1, SwitchNest DEF SwitchInside
<1>4. CASE \E t \in DOMAIN clock : StartTimer(t) \/ StopTimer(t) \/ RestartTimer(t)
  BY <1>4 DEF StartTimer, StopTimer, RestartTimer, SetTimer, NestInv, FramesInv,
              LoopInv, Ticking
<1>5. CASE DestroyFsm
  BY <1>5 DEF DestroyFsm, Idle, NestInv, FramesInv, LoopInv
<1> QED
  BY <1>1, <1>2, <1>3, <1>4, <1>5, CallNest, TickNest DEF FsmNext

\* Whatever the scheme, and however many changes the handlers make at whatever
\* depth, a call of process runs on a live state until the second change under
\* it, the one that HandlerSafe finds.
THEOREM HandlersRunOnLiveStates == FsmSpec => []HandlerAlive
<1>1. OwnInv /\ NestInv => HandlerAlive
  <2> SUFFICES ASSUME OwnInv, NestInv, NEW i \in DOMAIN stack, stack[i].changed < 2
               PROVE  stack[i].object \in allocated
    BY DEF HandlerAlive
  <2>1. running /\ stack \in Seq(Frame)
    BY LenProperties, EmptySeq DEF OwnInv, CallsOK
  <2>2. stack[i] \in Frame
    BY <2>1, ElementOfSeq, LenProperties
  <2>3. stack[i].changed \in {0, 1}
    BY <2>2 DEF Frame
  <2> QED
    BY <2>1, <2>3, ObjectsAssumption
       DEF OwnInv, MachineOK, StatesOwned, NestInv, FramesInv
<1> QED
  BY <1>1, OwnInit, NestInit, NestInductive, PTL DEF FsmSpec

\* Whatever the scheme, the loop over the timers ends when they were deleted,
\* unless a second change brought the state back under the same timeout, the
\* case that TickStopsOnChange finds.
THEOREM LoopSeesChanges == FsmSpec => []TickIntact
<1>1. NestInv => TickIntact
  BY DEF NestInv, LoopInv, TickIntact, Ticking
<1> QED
  BY <1>1, OwnInit, NestInit, NestInductive, PTL DEF FsmSpec
=============================================================================
