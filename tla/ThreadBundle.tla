---------------------------- MODULE ThreadBundle ----------------------------
(***************************************************************************)
(* quark::thread_bundle (quark/thread.cpp): a vector of threads that one    *)
(* caller starts and stops together.  Of a thread (module Thread) remains   *)
(* what its caller can tell: whether isStarted() holds, and the tokens that *)
(* its runs have left in _finishEvent, since a stop takes the first it gets.*)
(* A start may fail and a started thread may end by itself at any time.     *)
(* One step of start or stop visits one thread.                             *)
(***************************************************************************)
EXTENDS Naturals, Sequences, SequencesExt

CONSTANTS Threads,      \* thread objects
          MaxRuns       \* bound: OS threads made for one object

ASSUME RunsAssumption == MaxRuns \in Nat

VARIABLES threads,      \* _threads
          started,      \* the threads for which isStarted() holds
          runs,         \* runs[t]: OS threads that were made for t
          tokens,       \* tokens[t]: releases of _finishEvent that nobody took
          op,           \* "idle", "start", "stop" or "undo" (stop after a failed start)
          todo,         \* threads that for_each has still to visit, in its order
          ok,           \* _result of the functor
          answer        \* what the last start or stop returned

seen       == <<started, runs, tokens>>
bundleVars == <<threads, seen, op, todo, ok, answer>>

BundleInit == /\ threads = <<>> /\ started = {} /\ op = "idle" /\ todo = <<>>
              /\ runs = [t \in Threads |-> 0] /\ tokens = [t \in Threads |-> 0]
              /\ ok = TRUE /\ answer = "none"

Attach(t) ==
    /\ op = "idle"
    /\ ~Contains(threads, t)
    /\ threads' = Append(threads, t)
    /\ answer' = "none"
    /\ UNCHANGED <<seen, op, todo, ok>>

\* erase(remove_if(...)) erases one element from where remove_if stopped; for a
\* thread that is not attached that is end(), which the caller must not ask for.
Detach(t) ==
    /\ op = "idle"
    /\ \E i \in DOMAIN threads :
          threads[i] = t /\ threads' = RemoveAt(threads, i)
    /\ answer' = "none"
    /\ UNCHANGED <<seen, op, todo, ok>>

\* Both for_each run from rbegin() to rend().
BeginLoop(o) ==
    /\ op' = o
    /\ todo' = Reverse(threads)
    /\ ok' = TRUE

Start == /\ op = "idle"
         /\ BeginLoop("start")
         /\ answer' = "none"
         /\ UNCHANGED <<threads, seen>>

Stop == /\ op = "idle"
        /\ BeginLoop("stop")
        /\ answer' = "none"
        /\ UNCHANGED <<threads, seen>>

Visiting(o) == op \in o /\ todo # <<>> /\ todo' = Tail(todo)

\* start of a thread that is not started, when onInitialize succeeds
Runs(t) == /\ t \notin started /\ runs[t] < MaxRuns
           /\ started' = started \cup {t}
           /\ runs' = [runs EXCEPT ![t] = @ + 1]
           /\ UNCHANGED tokens

\* start when onInitialize fails: _finishEvent is released all the same, and
\* the wait() of start does not take the token.
InitializeFails(t) == /\ t \notin started /\ runs[t] < MaxRuns
                      /\ runs' = [runs EXCEPT ![t] = @ + 1]
                      /\ tokens' = [tokens EXCEPT ![t] = @ + 1]
                      /\ UNCHANGED started

\* startthread, on a thread that is started already, or starts, or whose
\* onInitialize or pthread_create fails.
StartOne ==
    /\ Visiting({"start"})
    /\ LET t == Head(todo) IN
         \/ t \in started /\ UNCHANGED <<seen, ok>>
         \/ Runs(t) /\ UNCHANGED ok
         \/ InitializeFails(t) /\ ok' = FALSE
         \/ t \notin started /\ ok' = FALSE /\ UNCHANGED seen
    /\ UNCHANGED <<threads, op, answer>>

\* stopthread, on a thread that is not started, or that ends while wait() is
\* there for its token, or that runs on because wait() finds an older one.
\* thread::stop always returns true.
StopOne ==
    /\ Visiting({"stop", "undo"})
    /\ LET t == Head(todo) IN
         \/ t \notin started /\ UNCHANGED seen
         \/ /\ t \in started /\ tokens[t] = 0
            /\ started' = started \ {t}
            /\ UNCHANGED <<runs, tokens>>
         \/ /\ t \in started /\ tokens[t] > 0
            /\ tokens' = [tokens EXCEPT ![t] = @ - 1]
            /\ UNCHANGED <<started, runs>>
    /\ UNCHANGED <<threads, op, ok, answer>>

\* Mistake: a failed start leaves what was started.
StartKeeps ==
    /\ op = "start" /\ todo = <<>>
    /\ op' = "idle" /\ answer' = (IF ok THEN "started" ELSE "failed")
    /\ UNCHANGED <<threads, seen, todo, ok>>

StartDone ==
    /\ op = "start" /\ todo = <<>>
    /\ \/ /\ ok
          /\ op' = "idle" /\ answer' = "started"
          /\ UNCHANGED <<todo, ok>>
       \/ ~ok /\ BeginLoop("undo") /\ UNCHANGED answer
    /\ UNCHANGED <<threads, seen>>

StopDone ==
    /\ op \in {"stop", "undo"} /\ todo = <<>>
    /\ op' = "idle"
    /\ answer' = (IF op = "undo" THEN "failed" ELSE "stopped")
    /\ UNCHANGED <<threads, seen, todo, ok>>

\* run of a thread returns by itself.  It clears _id and then releases
\* _finishEvent; a stop that finds the token late returns with it just the same.
Ends(t) == /\ t \in started
           /\ started' = started \ {t}
           /\ tokens' = [tokens EXCEPT ![t] = @ + 1]
           /\ UNCHANGED <<threads, runs, op, todo, ok, answer>>

\* A thread of the bundle may also be started by itself.
StartAlone(t) == /\ op = "idle"
                 /\ Runs(t) \/ InitializeFails(t)
                 /\ answer' = "none"
                 /\ UNCHANGED <<threads, op, todo, ok>>

BundleNext == \/ \E t \in Threads : Attach(t) \/ Detach(t) \/ Ends(t) \/ StartAlone(t)
              \/ Start \/ Stop \/ StartOne \/ StopOne \/ StartDone \/ StopDone

BundleSpec == BundleInit /\ [][BundleNext]_bundleVars
-----------------------------------------------------------------------------
\* Every variable keeps its type, and no thread is attached twice.
BundleTypeOK == /\ threads \in Seq(Threads) /\ IsInjective(threads)
                /\ started \subseteq Threads
                /\ runs \in [Threads -> 0 .. MaxRuns]
                /\ tokens \in [Threads -> 0 .. MaxRuns]
                /\ op \in {"idle", "start", "stop", "undo"}
                /\ todo \in Seq(Threads) /\ ok \in BOOLEAN
                /\ answer \in {"none", "started", "failed", "stopped"}

\* All or nothing: when start has failed, or stop has returned, no attached
\* thread is left running, those that ran before the call included, but for one
\* whose object had an OS thread before: the stop of such a one may take the
\* token of the earlier run or of a failed onInitialize (StopMeansStopped of
\* Thread) and leave it running.
NothingLeft ==
    answer \in {"failed", "stopped"}
        => \A i \in DOMAIN threads : threads[i] \in started => runs[threads[i]] > 1
=============================================================================
