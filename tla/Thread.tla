------------------------------- MODULE Thread -------------------------------
(***************************************************************************)
(* quark::thread on Linux (quark/thread.cpp, quark/redhat/thread_impl.h):   *)
(* an active object that callers start, stop, wait for and destroy, and     *)
(* whose body runs on a detached OS thread made anew by every start.  The   *)
(* object and its OS threads share plain volatile fields and two semaphores;*)
(* nothing is locked, so every access to a shared field is a step.          *)
(***************************************************************************)
EXTENDS Naturals, FiniteSets

CONSTANTS Callers,      \* threads that use the object
          MaxRuns,      \* bound: OS threads created in a behaviour
          NoRun,        \* INVALID_THREAD_ID
          InitMayFail,  \* onInitialize of the owner may return false
          MayFinish     \* run of the owner may return before isTerminating()

ASSUME RunsAssumption == MaxRuns \in Nat /\ NoRun \notin 1 .. MaxRuns
ASSUME OwnerAssumption == InitMayFail \in BOOLEAN /\ MayFinish \in BOOLEAN

VARIABLES id,           \* _id: the OS thread that runs the object, or NoRun
          bTerminate,   \* _bTerminate
          result,       \* _result
          startUpEvent, \* the count of _startUpEvent
          finishEvent,  \* the count of _finishEvent
          created,      \* OS threads created so far
          up,           \* history: OS threads whose onInitialize succeeded
          wpc,          \* wpc[w]: where threadLoop of OS thread w is
          cpc,          \* cpc[c]: where the call of c is
          last,         \* last[c]: the last call of c and what it returned
          destroyed     \* the object was destroyed

vars == <<id, bTerminate, result, startUpEvent, finishEvent, created, up, wpc,
          cpc, last, destroyed>>

Runs == 1 .. MaxRuns

\* The steps in which threadLoop still has a field of the object to touch.
InLoop == {"init", "fail_id", "fail_result", "fail_release", "set_id",
           "set_result", "release", "run", "clear_id", "clear_term", "finish",
           "return"}
\* ... those in which the owner's code may run.
OwnerCode == {"init", "run"}
CallerPc == {"idle", "clear_id", "clear_term", "create", "await_start",
             "result", "wait_failed", "await_failed", "wait", "await_finish",
             "join", "await_join"}
Answers == {"none", "started", "not_started", "stopped"}

Init == /\ id = NoRun /\ bTerminate = FALSE /\ result = "error"
        /\ startUpEvent = 0 /\ finishEvent = 0
        /\ created = 0 /\ up = {}
        /\ wpc = [w \in Runs |-> "none"]
        /\ cpc = [c \in Callers |-> "idle"]
        /\ last = [c \in Callers |-> "none"]
        /\ destroyed = FALSE

IsStarted == id # NoRun

CallerAt(c, from, to) == cpc[c] = from /\ cpc' = [cpc EXCEPT ![c] = to]
Return(c, from, answer) == /\ CallerAt(c, from, "idle")
                           /\ last' = [last EXCEPT ![c] = answer]
RunAt(w, from, to) == wpc[w] = from /\ wpc' = [wpc EXCEPT ![w] = to]

(***************************************************************************)
(* start                                                                    *)
(***************************************************************************)
\* Mistake: a started object is started again.
StartUnchecked(c) ==
    /\ ~destroyed
    /\ CallerAt(c, "idle", "clear_id")
    /\ UNCHANGED <<id, bTerminate, result, startUpEvent, finishEvent, created,
                   up, wpc, last, destroyed>>

Start(c) ==
    /\ ~destroyed
    /\ \/ IsStarted /\ Return(c, "idle", "started")
       \/ ~IsStarted /\ CallerAt(c, "idle", "clear_id") /\ UNCHANGED last
    /\ UNCHANGED <<id, bTerminate, result, startUpEvent, finishEvent, created,
                   up, wpc, destroyed>>

StartClearId(c) ==
    /\ CallerAt(c, "clear_id", "clear_term")
    /\ id' = NoRun
    /\ UNCHANGED <<bTerminate, result, startUpEvent, finishEvent, created, up,
                   wpc, last, destroyed>>

StartClearTerm(c) ==
    /\ CallerAt(c, "clear_term", "create")
    /\ bTerminate' = FALSE
    /\ UNCHANGED <<id, result, startUpEvent, finishEvent, created, up, wpc,
                   last, destroyed>>

StartCreate(c) ==
    /\ created < MaxRuns
    /\ CallerAt(c, "create", "await_start")
    /\ created' = created + 1
    /\ wpc' = [wpc EXCEPT ![created + 1] = "init"]
    /\ UNCHANGED <<id, bTerminate, result, startUpEvent, finishEvent, up,
                   last, destroyed>>

\* pthread_create fails.
StartCreateFails(c) ==
    /\ Return(c, "create", "not_started")
    /\ UNCHANGED <<id, bTerminate, result, startUpEvent, finishEvent, created,
                   up, wpc, destroyed>>

\* Mistake: start does not wait until the OS thread is up.
StartNoAwait(c) ==
    /\ CallerAt(c, "await_start", "result")
    /\ UNCHANGED <<id, bTerminate, result, startUpEvent, finishEvent, created,
                   up, wpc, last, destroyed>>

StartAwait(c) ==
    /\ startUpEvent > 0
    /\ CallerAt(c, "await_start", "result")
    /\ startUpEvent' = startUpEvent - 1
    /\ UNCHANGED <<id, bTerminate, result, finishEvent, created, up, wpc,
                   last, destroyed>>

StartResult(c) ==
    /\ \/ result = "success" /\ Return(c, "result", "started")
       \/ result = "error" /\ CallerAt(c, "result", "wait_failed") /\ UNCHANGED last
    /\ UNCHANGED <<id, bTerminate, result, startUpEvent, finishEvent, created,
                   up, wpc, destroyed>>

(***************************************************************************)
(* stop is terminate and wait; wait may also be called by itself.           *)
(***************************************************************************)
\* Mistake: stop does not ask the thread to end.
StopWithoutTerminate(c) ==
    /\ ~destroyed
    /\ CallerAt(c, "idle", "wait")
    /\ UNCHANGED <<id, bTerminate, result, startUpEvent, finishEvent, created,
                   up, wpc, last, destroyed>>

Stop(c) ==
    /\ ~destroyed
    /\ CallerAt(c, "idle", "wait")
    /\ bTerminate' = TRUE
    /\ UNCHANGED <<id, result, startUpEvent, finishEvent, created, up, wpc,
                   last, destroyed>>

\* wait, called by itself.
Join(c) ==
    /\ ~destroyed
    /\ CallerAt(c, "idle", "join")
    /\ UNCHANGED <<id, bTerminate, result, startUpEvent, finishEvent, created,
                   up, wpc, last, destroyed>>

\* Where a call of wait is, made by stop, by itself or by start after a failed
\* onInitialize, and what the caller returns when wait does.
Waits == {"wait", "join", "wait_failed"}
Awaits(from) == CASE from = "wait" -> "await_finish" [] from = "join" -> "await_join"
                  [] from = "wait_failed" -> "await_failed"
Answer(from) == IF from = "wait_failed" THEN "not_started" ELSE "stopped"

Wait(c) ==
    /\ \E from \in Waits :
          \/ ~IsStarted /\ Return(c, from, Answer(from))
          \/ IsStarted /\ CallerAt(c, from, Awaits(from)) /\ UNCHANGED last
    /\ UNCHANGED <<id, bTerminate, result, startUpEvent, finishEvent, created,
                   up, wpc, destroyed>>

\* Mistake: the aquire of wait does not block.
WaitNoBlock(c) ==
    /\ \E from \in Waits : Return(c, Awaits(from), Answer(from))
    /\ finishEvent' = finishEvent - 1
    /\ UNCHANGED <<id, bTerminate, result, startUpEvent, created, up, wpc,
                   destroyed>>

WaitFinish(c) ==
    /\ finishEvent > 0
    /\ \E from \in Waits : Return(c, Awaits(from), Answer(from))
    /\ finishEvent' = finishEvent - 1
    /\ UNCHANGED <<id, bTerminate, result, startUpEvent, created, up, wpc,
                   destroyed>>

\* The destructor, by a caller whose last call ended the thread, as the users
\* of the class write it: stop, then destroy.
Destroy(c) ==
    /\ ~destroyed
    /\ \A d \in Callers : cpc[d] = "idle"
    /\ last[c] = "stopped"
    /\ destroyed' = TRUE
    /\ id' = NoRun /\ bTerminate' = FALSE
    /\ UNCHANGED <<result, startUpEvent, finishEvent, created, up, wpc, cpc,
                   last>>

(***************************************************************************)
(* threadLoop of OS thread w                                                *)
(***************************************************************************)
LoopInit(w) ==
    /\ \/ RunAt(w, "init", "set_id") /\ up' = up \cup {w}
       \/ InitMayFail /\ RunAt(w, "init", "fail_id") /\ UNCHANGED up
    /\ UNCHANGED <<id, bTerminate, result, startUpEvent, finishEvent, created,
                   cpc, last, destroyed>>

LoopFailId(w) ==
    /\ RunAt(w, "fail_id", "fail_result")
    /\ id' = NoRun
    /\ UNCHANGED <<bTerminate, result, startUpEvent, finishEvent, created, up,
                   cpc, last, destroyed>>

LoopFailResult(w) ==
    /\ RunAt(w, "fail_result", "fail_release")
    /\ result' = "error"
    /\ UNCHANGED <<id, bTerminate, startUpEvent, finishEvent, created, up,
                   cpc, last, destroyed>>

LoopFailRelease(w) ==
    /\ RunAt(w, "fail_release", "finish")
    /\ startUpEvent' = startUpEvent + 1
    /\ UNCHANGED <<id, bTerminate, result, finishEvent, created, up, cpc,
                   last, destroyed>>

LoopSetId(w) ==
    /\ RunAt(w, "set_id", "set_result")
    /\ id' = w
    /\ UNCHANGED <<bTerminate, result, startUpEvent, finishEvent, created, up,
                   cpc, last, destroyed>>

LoopSetResult(w) ==
    /\ RunAt(w, "set_result", "release")
    /\ result' = "success"
    /\ UNCHANGED <<id, bTerminate, startUpEvent, finishEvent, created, up,
                   cpc, last, destroyed>>

LoopRelease(w) ==
    /\ RunAt(w, "release", "run")
    /\ startUpEvent' = startUpEvent + 1
    /\ UNCHANGED <<id, bTerminate, result, finishEvent, created, up, cpc,
                   last, destroyed>>

\* run of the owner returns, having read isTerminating() or of itself; then
\* onUninitialize, which touches nothing here.
LoopRun(w) ==
    /\ bTerminate \/ MayFinish
    /\ RunAt(w, "run", "clear_id")
    /\ UNCHANGED <<id, bTerminate, result, startUpEvent, finishEvent, created,
                   up, cpc, last, destroyed>>

LoopClearId(w) ==
    /\ RunAt(w, "clear_id", "clear_term")
    /\ id' = NoRun
    /\ UNCHANGED <<bTerminate, result, startUpEvent, finishEvent, created, up,
                   cpc, last, destroyed>>

LoopClearTerm(w) ==
    /\ RunAt(w, "clear_term", "finish")
    /\ bTerminate' = FALSE
    /\ UNCHANGED <<id, result, startUpEvent, finishEvent, created, up, cpc,
                   last, destroyed>>

LoopFinish(w) ==
    /\ RunAt(w, "finish", "return")
    /\ finishEvent' = finishEvent + 1
    /\ UNCHANGED <<id, bTerminate, result, startUpEvent, created, up, cpc,
                   last, destroyed>>

\* return self->_result
LoopReturn(w) ==
    /\ RunAt(w, "return", "done")
    /\ UNCHANGED <<id, bTerminate, result, startUpEvent, finishEvent, created,
                   up, cpc, last, destroyed>>

Caller(c) == \/ Start(c) \/ StartClearId(c) \/ StartClearTerm(c)
             \/ StartCreate(c) \/ StartCreateFails(c) \/ StartAwait(c)
             \/ StartResult(c) \/ Stop(c) \/ Join(c) \/ Wait(c) \/ WaitFinish(c) \/ Destroy(c)

Loop(w) == \/ LoopInit(w) \/ LoopFailId(w) \/ LoopFailResult(w)
           \/ LoopFailRelease(w) \/ LoopSetId(w) \/ LoopSetResult(w)
           \/ LoopRelease(w) \/ LoopRun(w) \/ LoopClearId(w)
           \/ LoopClearTerm(w) \/ LoopFinish(w) \/ LoopReturn(w)

Next == (\E c \in Callers : Caller(c)) \/ (\E w \in Runs : Loop(w))

Spec == Init /\ [][Next]_vars

\* The OS runs every thread, and a call that has begun goes on; nobody has to
\* begin one, and run of the owner has to return only once it is terminated.
Fairness == /\ \A w \in Runs :
                  WF_vars(Loop(w) /\ (wpc[w] = "run" => bTerminate))
            /\ \A c \in Callers : WF_vars(Caller(c) /\ cpc[c] # "idle")

FairSpec == Spec /\ Fairness
-----------------------------------------------------------------------------
\* Every variable keeps its type, whatever callers do.
TypeOK ==
    /\ id \in Runs \cup {NoRun} /\ bTerminate \in BOOLEAN
    /\ result \in {"error", "success"}
    /\ startUpEvent \in 0 .. MaxRuns /\ finishEvent \in 0 .. MaxRuns
    /\ created \in 0 .. MaxRuns /\ up \subseteq Runs
    /\ wpc \in [Runs -> InLoop \cup {"none", "done"}]
    /\ cpc \in [Callers -> CallerPc]
    /\ last \in [Callers -> Answers]
    /\ destroyed \in BOOLEAN

\* start answers only when the OS thread it made has been through
\* onInitialize, and answers what onInitialize said, also after earlier runs
\* that failed, finished by themselves or were stopped (one caller).
StartTruthful ==
    \A c \in Callers :
        cpc[c] = "result" => (result = "success" <=> created \in up)

\* The owner's code is never run by two OS threads at once, however start,
\* stop and the end of a run interleave (one caller).
OneRun == Cardinality({w \in Runs : wpc[w] \in OwnerCode}) <= 1

\* When stop (or wait) has returned and nothing was called since, the object
\* is not started and no OS thread is left in its code: thread_test.cpp asserts
\* !isStarted() right after stop().
StopMeansStopped ==
    \A c \in Callers :
        last[c] = "stopped" /\ (\A d \in Callers : cpc[d] = "idle")
            => ~IsStarted /\ \A w \in Runs : wpc[w] \notin OwnerCode

\* ... which holds for an object that was started once (one caller).
FirstStopMeansStopped == created <= 1 => StopMeansStopped

\* Once the object is destroyed no OS thread has a field of it left to touch.
NoUseAfterDestroy == destroyed => \A w \in Runs : wpc[w] \notin InLoop

\* A call of start or stop returns, and so does a wait by itself for a run that
\* ends (one caller).
CallsReturn ==
    \A c \in Callers :
        /\ cpc[c] \notin {"idle", "join", "await_join"} ~> cpc[c] = "idle"
        /\ cpc[c] = "await_join" ~> cpc[c] = "idle" \/ \E w \in Runs : wpc[w] = "run"
=============================================================================
