---------------------------- MODULE ThreadProofs ----------------------------
(***************************************************************************)
(* Proofs about Thread, for any number of OS threads.  Types hold for any   *)
(* callers; what start, stop and run promise holds for one caller, as the   *)
(* class promises nothing to several.                                       *)
(***************************************************************************)
EXTENDS Thread, FiniteSetTheorems, TLAPS

\* The object is used by one thread.
OneCaller == \E c : Callers = {c}

(***************************************************************************)
(* Types: the semaphores are released at most once by every OS thread.      *)
(***************************************************************************)
ThreadShape ==
    /\ id \in Runs \cup {NoRun} /\ bTerminate \in BOOLEAN
    /\ result \in {"error", "success"}
    /\ startUpEvent \in Nat /\ finishEvent \in Nat
    /\ created \in 0 .. MaxRuns /\ up \subseteq Runs
    /\ wpc \in [Runs -> InLoop \cup {"none", "done"}]
    /\ cpc \in [Callers -> CallerPc]
    /\ last \in [Callers -> Answers]
    /\ destroyed \in BOOLEAN

\* OS threads that have not released _startUpEvent yet, and those that have
\* released _finishEvent.
Starting == {"init", "fail_id", "fail_result", "fail_release", "set_id",
             "set_result", "release"}
Released == {w \in Runs : wpc[w] \notin Starting \cup {"none"}}
Finished == {w \in Runs : wpc[w] \in {"return", "done"}}

\* OS threads are made in the order of their numbers.
FreshInv == \A w \in Runs : wpc[w] = "none" <=> w > created

CountInv == /\ FreshInv
            /\ startUpEvent <= Cardinality(Released)
            /\ finishEvent <= Cardinality(Finished)

LEMMA RunsFinite ==
  /\ IsFiniteSet(Runs) /\ Cardinality(Runs) = MaxRuns
  /\ \A S \in SUBSET Runs :
        IsFiniteSet(S) /\ Cardinality(S) \in Nat /\ Cardinality(S) <= MaxRuns
<1>1. MaxRuns \in Nat
  BY RunsAssumption
<1>2. IsFiniteSet(Runs) /\ Cardinality(Runs) = MaxRuns
  BY <1>1, FS_Interval DEF Runs
<1> QED
  BY <1>2, FS_Subset, FS_CardinalityType

LEMMA ShapeInit == Init => ThreadShape
<1> SUFFICES ASSUME Init PROVE ThreadShape
  OBVIOUS
<1> USE DEF Init
<1>1. /\ wpc \in [Runs -> InLoop \cup {"none", "done"}]
      /\ cpc \in [Callers -> CallerPc] /\ last \in [Callers -> Answers]
  BY DEF InLoop, CallerPc, Answers
<1>2. created \in 0 .. MaxRuns
  BY RunsAssumption
<1> QED
  BY <1>1, <1>2 DEF ThreadShape

LEMMA CallerShape ==
  ASSUME ThreadShape, NEW c \in Callers, Caller(c)
  PROVE  ThreadShape'
<1> USE RunsAssumption
    DEF ThreadShape, CallerAt, Return, IsStarted, CallerPc, Answers, InLoop
<1>1. CASE Start(c)
  BY <1>1 DEF Start
<1>2. CASE StartClearId(c)
  BY <1>2 DEF StartClearId
<1>3. CASE StartClearTerm(c)
  BY <1>3 DEF StartClearTerm
<1>4. CASE StartCreate(c)
  BY <1>4 DEF StartCreate, Runs
<1>5. CASE StartCreateFails(c)
  BY <1>5 DEF StartCreateFails
<1>6. CASE StartAwait(c)
  BY <1>6 DEF StartAwait
<1>7. CASE StartResult(c)
  BY <1>7 DEF StartResult
<1>8. CASE Stop(c)
  BY <1>8 DEF Stop
<1>9. CASE Join(c)
  BY <1>9 DEF Join
<1>10. CASE Wait(c)
  BY <1>10 DEF Wait, Waits, Awaits, Answer
<1>11. CASE WaitFinish(c)
  BY <1>11 DEF WaitFinish, Waits, Awaits, Answer
<1>12. CASE Destroy(c)
  BY <1>12 DEF Destroy
<1> QED
  BY <1>1, <1>2, <1>3, <1>4, <1>5, <1>6, <1>7, <1>8, <1>9, <1>10, <1>11, <1>12
     DEF Caller

LEMMA LoopShape ==
  ASSUME ThreadShape, NEW w \in Runs, Loop(w)
  PROVE  ThreadShape'
<1> USE DEF ThreadShape, RunAt, InLoop
<1>1. CASE LoopInit(w)
  BY <1>1 DEF LoopInit
<1>2. CASE LoopFailId(w) \/ LoopFailResult(w) \/ LoopFailRelease(w)
  BY <1>2 DEF LoopFailId, LoopFailResult, LoopFailRelease
<1>3. CASE LoopSetId(w) \/ LoopSetResult(w) \/ LoopRelease(w)
  BY <1>3 DEF LoopSetId, LoopSetResult, LoopRelease
<1>4. CASE LoopRun(w) \/ LoopClearId(w) \/ LoopClearTerm(w)
  BY <1>4 DEF LoopRun, LoopClearId, LoopClearTerm
<1>5. CASE LoopFinish(w) \/ LoopReturn(w)
  BY <1>5 DEF LoopFinish, LoopReturn
<1> QED
  BY <1>1, <1>2, <1>3, <1>4, <1>5 DEF Loop

LEMMA CountInit == Init => CountInv
<1> SUFFICES ASSUME Init PROVE CountInv
  OBVIOUS
<1>1. startUpEvent = 0 /\ finishEvent = 0
  BY DEF Init
<1>2. Cardinality(Released) \in Nat /\ Cardinality(Finished) \in Nat
  BY RunsFinite DEF Released, Finished
<1>3. FreshInv
  BY RunsAssumption DEF Init, FreshInv, Runs
<1> QED
  BY <1>1, <1>2, <1>3 DEF CountInv

\* A caller takes from the semaphores; the OS thread it makes is a starting one.
LEMMA CallerCount ==
  ASSUME ThreadShape, CountInv, NEW c \in Callers, Caller(c)
  PROVE  CountInv'
<1>1. /\ startUpEvent' \in Nat /\ startUpEvent' <= startUpEvent
      /\ finishEvent' \in Nat /\ finishEvent' <= finishEvent
  BY DEF ThreadShape, Caller, Start, StartClearId, StartClearTerm, StartCreate,
         StartCreateFails, StartAwait, StartResult, Stop, Join, Wait, WaitFinish,
         Destroy
<1>2. \/ wpc' = wpc /\ created' = created
      \/ /\ created < MaxRuns /\ created' = created + 1
         /\ wpc' = [wpc EXCEPT ![created + 1] = "init"]
  BY DEF Caller, Start, StartClearId, StartClearTerm, StartCreate,
         StartCreateFails, StartAwait, StartResult, Stop, Join, Wait, WaitFinish,
         Destroy
<1>3. Cardinality(Released) \in Nat /\ Cardinality(Finished) \in Nat
  BY RunsFinite DEF Released, Finished
<1>4. CASE UNCHANGED <<wpc, created>>
  BY <1>1, <1>3, <1>4
     DEF CountInv, FreshInv, Released, Finished, ThreadShape
<1>5. CASE /\ created < MaxRuns /\ created' = created + 1
           /\ wpc' = [wpc EXCEPT ![created + 1] = "init"]
  <2>1. created + 1 \in Runs /\ wpc[created + 1] = "none"
    BY <1>5, RunsAssumption DEF CountInv, FreshInv, ThreadShape, Runs
  <2>2. Released' = Released /\ Finished' = Finished
    BY <1>5, <2>1 DEF Released, Finished, Starting, ThreadShape
  <2>3. FreshInv'
    BY <1>5, <2>1 DEF CountInv, FreshInv, ThreadShape, Runs
  <2> QED
    BY <1>1, <1>3, <2>2, <2>3 DEF CountInv, ThreadShape
<1> QED
  BY <1>2, <1>4, <1>5

\* An OS thread releases each semaphore once, when it becomes one of those that
\* have.
LEMMA LoopCount ==
  ASSUME ThreadShape, CountInv, NEW w \in Runs, Loop(w)
  PROVE  CountInv'
<1> USE DEF ThreadShape, RunAt, InLoop
<1>1. IsFiniteSet(Released) /\ IsFiniteSet(Finished)
  BY RunsFinite DEF Released, Finished
<1>2. /\ Cardinality(Released) \in Nat /\ Cardinality(Finished) \in Nat
      /\ w \notin Released => Cardinality(Released \cup {w}) = Cardinality(Released) + 1
      /\ w \notin Finished => Cardinality(Finished \cup {w}) = Cardinality(Finished) + 1
  BY <1>1, FS_AddElement, FS_CardinalityType
<1>3. FreshInv' /\ startUpEvent' \in Nat /\ finishEvent' \in Nat
  BY DEF CountInv, FreshInv, Loop, LoopInit, LoopFailId, LoopFailResult,
         LoopFailRelease, LoopSetId, LoopSetResult, LoopRelease, LoopRun,
         LoopClearId, LoopClearTerm, LoopFinish, LoopReturn
<1>4. CASE LoopFailRelease(w) \/ LoopRelease(w)
  <2>1. /\ Released' = Released \cup {w} /\ w \notin Released
        /\ Finished' = Finished
    BY <1>4 DEF LoopFailRelease, LoopRelease, Released, Finished, Starting
  <2>2. startUpEvent' = startUpEvent + 1 /\ finishEvent' = finishEvent
    BY <1>4 DEF LoopFailRelease, LoopRelease
  <2> QED
    BY <1>2, <1>3, <2>1, <2>2 DEF CountInv
<1>5. CASE LoopFinish(w)
  <2>1. /\ Finished' = Finished \cup {w} /\ w \notin Finished
        /\ Released' = Released
    BY <1>5 DEF LoopFinish, Released, Finished, Starting
  <2>2. startUpEvent' = startUpEvent /\ finishEvent' = finishEvent + 1
    BY <1>5 DEF LoopFinish
  <2> QED
    BY <1>2, <1>3, <2>1, <2>2 DEF CountInv
<1>6. CASE ~(LoopFailRelease(w) \/ LoopRelease(w) \/ LoopFinish(w))
  <2>1. startUpEvent' = startUpEvent /\ finishEvent' = finishEvent
    BY <1>6 DEF Loop, LoopInit, LoopFailId, LoopFailResult, LoopSetId,
                LoopSetResult, LoopRun, LoopClearId, LoopClearTerm, LoopReturn
  <2>2. Released' = Released /\ Finished' = Finished
    BY <1>6 DEF Loop, LoopInit, LoopFailId, LoopFailResult, LoopSetId,
                LoopSetResult, LoopRun, LoopClearId, LoopClearTerm, LoopReturn,
                Released, Finished, Starting
  <2> QED
    BY <1>3, <2>1, <2>2 DEF CountInv
<1> QED
  BY <1>4, <1>5, <1>6

\* Whatever the callers do, every field keeps its type; no semaphore counts
\* more than the OS threads there are.
THEOREM TypesKept == Spec => []TypeOK
<1>1. Init => ThreadShape /\ CountInv
  BY ShapeInit, CountInit
<1>2. ThreadShape /\ CountInv /\ [Next]_vars => ThreadShape' /\ CountInv'
  <2> SUFFICES ASSUME ThreadShape, CountInv, [Next]_vars
               PROVE  ThreadShape' /\ CountInv'
    OBVIOUS
  <2>1. CASE UNCHANGED vars
    BY <2>1 DEF vars, ThreadShape, CountInv, FreshInv, Released, Finished
  <2>2. CASE Next
    BY <2>2, CallerShape, CallerCount, LoopShape, LoopCount DEF Next
  <2> QED
    BY <2>1, <2>2
<1>3. ThreadShape /\ CountInv => TypeOK
  <2>1. /\ Cardinality(Released) \in Nat /\ Cardinality(Released) <= MaxRuns
        /\ Cardinality(Finished) \in Nat /\ Cardinality(Finished) <= MaxRuns
    BY RunsFinite DEF Released, Finished
  <2> QED
    BY <2>1, RunsAssumption DEF ThreadShape, CountInv, TypeOK
<1> QED
  BY <1>1, <1>2, <1>3, PTL DEF Spec

(***************************************************************************)
(* One caller.  An OS thread owns the object from its creation until it has *)
(* cleared _id; the object has one owner at most.                           *)
(***************************************************************************)
Holding == {"set_result", "release", "run", "clear_id"}
Owns(w) == wpc[w] \in Starting \cup Holding

\* An owner that has not released _startUpEvent is the youngest OS thread, and
\* start waits for it.
OwnerInv == /\ \A v, w \in Runs : Owns(v) /\ Owns(w) => v = w
            /\ \A w \in Runs : wpc[w] \in Starting => w = created

\* _startUpEvent has been released exactly for the call of start that waits;
\* a start that has found the object not started finds no owner.
CallInv ==
    \A c \in Callers :
        /\ IF cpc[c] = "await_start"
             THEN /\ created \in Runs
                  /\ startUpEvent = (IF wpc[created] \in Starting THEN 0 ELSE 1)
             ELSE startUpEvent = 0 /\ \A w \in Runs : wpc[w] \notin Starting
        /\ cpc[c] \in {"clear_id", "clear_term", "create"} =>
              \A w \in Runs : ~Owns(w)
        /\ destroyed => cpc[c] = "idle"

\* _id names the owner that has set it, for as long as the object is there.
IdInv == /\ id # NoRun => wpc[id] \in Holding
         /\ \A w \in Runs : wpc[w] \in Holding => id = w \/ destroyed

\* _result tells whether onInitialize of the youngest OS thread succeeded.
ResultInv ==
    /\ \A w \in Runs :
          /\ wpc[w] \in {"none", "init", "fail_id", "fail_result", "fail_release"}
                => w \notin up
          /\ wpc[w] \in {"set_id", "set_result", "release"} => w \in up
          /\ wpc[w] = "fail_release" => result = "error"
          /\ wpc[w] = "release" => result = "success"
    /\ (\A w \in Runs : wpc[w] \notin Starting)
          => (result = "success" <=> created \in up)

\* Before the second run a token in _finishEvent, and an answer of stop or wait,
\* tell that nobody owns the object.
FirstInv ==
    /\ created = 0 => finishEvent = 0
    /\ created <= 1 =>
          \A c \in Callers :
              finishEvent > 0 \/ (last[c] = "stopped" /\ cpc[c] = "idle")
                 => \A w \in Runs : ~Owns(w)

ThreadInv == /\ ThreadShape /\ CountInv
             /\ OwnerInv /\ CallInv /\ IdInv /\ ResultInv /\ FirstInv

LEMMA OneInit == ASSUME OneCaller, Init PROVE ThreadInv
<1>1. ThreadShape
  BY ShapeInit
<1>2. CountInv
  BY CountInit
<1>3. \A w \in Runs : wpc[w] \notin Starting \cup Holding
  BY DEF Init, Starting, Holding
<1>4. OwnerInv /\ CallInv /\ IdInv
  BY <1>3 DEF Init, OwnerInv, CallInv, IdInv, Owns
<1>5. ResultInv
  BY DEF Init, ResultInv
<1>6. FirstInv
  BY <1>3 DEF Init, FirstInv, Owns
<1> QED
  BY <1>1, <1>2, <1>4, <1>5, <1>6 DEF ThreadInv

\* A caller that finds the object not started, and does not wait for a start,
\* finds no owner.
LEMMA NoOwner ==
  ASSUME ThreadInv, NEW c \in Callers, ~IsStarted, ~destroyed,
         cpc[c] # "await_start"
  PROVE  \A w \in Runs : ~Owns(w)
<1> SUFFICES ASSUME NEW w \in Runs, Owns(w) PROVE FALSE
  OBVIOUS
<1>1. wpc[w] \notin Starting
  BY DEF ThreadInv, CallInv
<1>2. id = w
  BY <1>1 DEF Owns, ThreadInv, IdInv
<1> QED
  BY <1>2, RunsAssumption DEF IsStarted, Runs

LEMMA CallerKeeps ==
  ASSUME OneCaller, ThreadInv, NEW c \in Callers, Caller(c)
  PROVE  OwnerInv' /\ CallInv' /\ IdInv' /\ ResultInv' /\ FirstInv'
<1> Callers = {c}
  BY DEF OneCaller
<1> USE RunsAssumption
    DEF ThreadInv, ThreadShape, CountInv, FreshInv, OwnerInv, CallInv, IdInv, ResultInv,
        FirstInv, Owns, Starting, Holding, CallerAt, Return, IsStarted
<1>1. CASE Start(c)
  <2>1. cpc[c] = "idle" /\ ~destroyed
    BY <1>1 DEF Start
  <2>2. ~IsStarted => \A w \in Runs : ~Owns(w)
    BY <2>1, NoOwner
  <2>3. CASE IsStarted /\ Return(c, "idle", "started")
    BY <1>1, <2>3 DEF Start
  <2>4. CASE ~IsStarted /\ CallerAt(c, "idle", "clear_id") /\ UNCHANGED last
    BY <1>1, <2>2, <2>4 DEF Start
  <2> QED
    BY <1>1, <2>3, <2>4 DEF Start
<1>2. CASE StartClearId(c)
  BY <1>2 DEF StartClearId
<1>3. CASE StartClearTerm(c)
  BY <1>3 DEF StartClearTerm
<1>4. CASE StartCreate(c)
  BY <1>4 DEF StartCreate, Runs
<1>5. CASE StartCreateFails(c)
  BY <1>5 DEF StartCreateFails
<1>6. CASE StartAwait(c)
  BY <1>6 DEF StartAwait
<1>7. CASE StartResult(c)
  BY <1>7 DEF StartResult
<1>8. CASE Stop(c)
  BY <1>8 DEF Stop
<1>9. CASE Join(c)
  BY <1>9 DEF Join
<1>10. CASE Wait(c)
  <2> PICK from \in Waits :
         \/ ~IsStarted /\ Return(c, from, Answer(from))
         \/ IsStarted /\ CallerAt(c, from, Awaits(from)) /\ UNCHANGED last
    BY <1>10 DEF Wait
  <2>1. cpc[c] = from /\ from \in {"wait", "join", "wait_failed"}
    BY DEF Waits
  <2>2. ~IsStarted => \A w \in Runs : ~Owns(w)
    BY <2>1, NoOwner
  <2>3. CASE ~IsStarted /\ Return(c, from, Answer(from))
    BY <1>10, <2>1, <2>2, <2>3 DEF Wait
  <2>4. CASE IsStarted /\ CallerAt(c, from, Awaits(from)) /\ UNCHANGED last
    BY <1>10, <2>1, <2>4 DEF Wait, Awaits
  <2> QED
    BY <2>3, <2>4
<1>11. CASE WaitFinish(c)
  BY <1>11 DEF WaitFinish, Waits, Awaits, Answer
<1>12. CASE Destroy(c)
  BY <1>12 DEF Destroy
<1> QED
  BY <1>1, <1>2, <1>3, <1>4, <1>5, <1>6, <1>7, <1>8, <1>9, <1>10, <1>11, <1>12
     DEF Caller

LEMMA LoopKeeps ==
  ASSUME OneCaller, ThreadInv, NEW w \in Runs, Loop(w)
  PROVE  OwnerInv' /\ CallInv' /\ IdInv' /\ ResultInv' /\ FirstInv'
<1> USE RunsAssumption
    DEF ThreadInv, ThreadShape, CountInv, FreshInv, OwnerInv, CallInv, IdInv, ResultInv,
        FirstInv, Owns, Starting, Holding, RunAt, OneCaller
<1>1. CASE LoopInit(w)
  BY <1>1 DEF LoopInit
<1>2. CASE LoopFailId(w)
  BY <1>2 DEF LoopFailId
<1>3. CASE LoopFailResult(w)
  BY <1>3 DEF LoopFailResult
<1>4. CASE LoopFailRelease(w)
  BY <1>4 DEF LoopFailRelease
<1>5. CASE LoopSetId(w)
  BY <1>5 DEF LoopSetId
<1>6. CASE LoopSetResult(w)
  BY <1>6 DEF LoopSetResult
<1>7. CASE LoopRelease(w)
  BY <1>7 DEF LoopRelease
<1>8. CASE LoopRun(w)
  BY <1>8 DEF LoopRun
<1>9. CASE LoopClearId(w)
  BY <1>9 DEF LoopClearId
<1>10. CASE LoopClearTerm(w)
  BY <1>10 DEF LoopClearTerm
<1>11. CASE LoopFinish(w)
  <2>1. ~Owns(w)
    BY <1>11 DEF LoopFinish
  <2>2. created <= 1 => \A v \in Runs : ~Owns(v)
    BY <1>11, <2>1 DEF LoopFinish, Runs
  <2>3. \A v \in Runs : Owns(v)' => Owns(v)
    BY <1>11 DEF LoopFinish
  <2>4. OwnerInv' /\ CallInv' /\ IdInv' /\ ResultInv'
    BY <1>11 DEF LoopFinish
  <2>5. created # 0
    BY <1>11 DEF LoopFinish, Runs
  <2>6. FirstInv'
    BY <1>11, <2>2, <2>3, <2>5 DEF LoopFinish
  <2> QED
    BY <2>4, <2>6
<1>12. CASE LoopReturn(w)
  BY <1>12 DEF LoopReturn
<1> QED
  BY <1>1, <1>2, <1>3, <1>4, <1>5, <1>6, <1>7, <1>8, <1>9, <1>10, <1>11, <1>12 DEF Loop

LEMMA ThreadInductive ==
  ASSUME OneCaller PROVE ThreadInv /\ [Next]_vars => ThreadInv'
<1> SUFFICES ASSUME ThreadInv, [Next]_vars PROVE ThreadInv'
  OBVIOUS
<1>1. CASE UNCHANGED vars
  BY <1>1 DEF vars, ThreadInv, ThreadShape, CountInv, FreshInv, Released, Finished,
              OwnerInv, CallInv, IdInv, ResultInv, FirstInv, Owns
<1>2. ASSUME NEW c \in Callers, Caller(c) PROVE ThreadInv'
  <2>1. ThreadShape' /\ CountInv'
    BY <1>2, CallerShape, CallerCount DEF ThreadInv
  <2> QED
    BY <1>2, <2>1, CallerKeeps DEF ThreadInv
<1>3. ASSUME NEW w \in Runs, Loop(w) PROVE ThreadInv'
  <2>1. ThreadShape' /\ CountInv'
    BY <1>3, LoopShape, LoopCount DEF ThreadInv
  <2> QED
    BY <1>3, <2>1, LoopKeeps DEF ThreadInv
<1> QED
  BY <1>1, <1>2, <1>3 DEF Next

\* After onInitialize of the OS thread it made, and not before, start answers
\* what it said, whatever earlier runs have left behind.
THEOREM StartTellsTheTruth == ASSUME OneCaller PROVE Spec => []StartTruthful
<1>1. ThreadInv => StartTruthful
  BY DEF ThreadInv, CallInv, ResultInv, StartTruthful
<1> QED
  BY <1>1, OneInit, ThreadInductive, PTL DEF Spec

\* The owner's code is never run by two OS threads at once.
THEOREM OneRunAtATime == ASSUME OneCaller PROVE Spec => []OneRun
<1>1. ASSUME ThreadInv PROVE OneRun
  <2> DEFINE S == {w \in Runs : wpc[w] \in OwnerCode}
  <2>1. \A v, w \in S : v = w
    BY <1>1 DEF ThreadInv, OwnerInv, Owns, OwnerCode, Starting, Holding
  <2>2. S = {} \/ \E w : S = {w}
    BY <2>1
  <2>3. S = {} => Cardinality(S) = 0
    BY FS_EmptySet
  <2>4. \A w : Cardinality({w}) = 1
    BY FS_Singleton
  <2>5. CASE S = {}
    BY <2>3, <2>5 DEF OneRun
  <2>6. CASE \E w : S = {w}
    <3>1. Cardinality(S) = 1
      BY <2>4, <2>6
    <3> QED
      BY <3>1 DEF OneRun
  <2> QED
    BY <2>2, <2>5, <2>6
<1> QED
  BY <1>1, OneInit, ThreadInductive, PTL DEF Spec

\* Of an object that was started once: when stop or wait has returned, it is not
\* started and nobody runs the owner's code.
THEOREM FirstStopStops == ASSUME OneCaller PROVE Spec => []FirstStopMeansStopped
<1>1. ASSUME ThreadInv PROVE FirstStopMeansStopped
  <2> SUFFICES ASSUME created <= 1, NEW c \in Callers, last[c] = "stopped",
                      cpc[c] = "idle"
               PROVE  ~IsStarted /\ \A w \in Runs : wpc[w] \notin OwnerCode
    BY DEF FirstStopMeansStopped, StopMeansStopped
  <2>1. \A w \in Runs : ~Owns(w)
    BY <1>1 DEF ThreadInv, FirstInv
  <2> QED
    BY <1>1, <2>1 DEF ThreadInv, ThreadShape, IdInv, IsStarted, Owns, OwnerCode,
                      Starting, Holding
<1> QED
  BY <1>1, OneInit, ThreadInductive, PTL DEF Spec
=============================================================================
