------------------------------ MODULE MsgQueue ------------------------------
(***************************************************************************)
(* quark::msg_queue (quark/msg_queue.h) on the Linux primitives it is built *)
(* from: a mutex _cs, a counting semaphore _sem that starts at 0, a plain   *)
(* volatile flag _signalled and the queue itself.  Each thread is inside at *)
(* most one call; pc[t] is the next statement of that call.  A stretch of   *)
(* code that runs under the lock and touches only what the lock protects is *)
(* one step; every access to _signalled and _sem is a step of its own, since*)
(* get() uses both without the lock.                                        *)
(***************************************************************************)
EXTENDS Naturals, Sequences

CONSTANTS Producers,   \* threads that call push
          Consumers,   \* threads that call get
          NoThread,    \* "the mutex is free"
          MaxPush      \* bound: messages each producer pushes

ASSUME ThreadsAssumption == /\ Producers \cap Consumers = {}
                            /\ NoThread \notin Producers \cup Consumers
ASSUME MaxPushAssumption == MaxPush \in Nat

VARIABLES queue,       \* _queue
          sem,         \* the count of _sem
          signalled,   \* _signalled
          owner,       \* the holder of _cs
          pc,          \* where each thread is
          timed,       \* timed[c]: the get of c has a timeout
          val,         \* val[c]: the local t of get
          pushes,      \* pushes[p]: messages p has pushed
          pushed,      \* history: messages in the order they entered _queue
          got,         \* history: messages in the order get returned them
          cleaned,     \* messages the destructor gave to _Cleaner
          alive        \* FALSE once the destructor has run

vars == <<queue, sem, signalled, owner, pc, timed, val, pushes, pushed, got,
          cleaned, alive>>

Threads  == Producers \cup Consumers
Messages == Producers \X (1 .. MaxPush)
NoValue  == <<>>

ProducerPc == {"idle", "push_append", "push_check", "push_signal",
               "push_post", "push_unlock"}
ConsumerPc == {"idle", "get_await", "get_clear", "get_lock", "get_check",
               "get_reset", "get_unset", "get_front", "get_pop"}
HoldsLock  == {"push_append", "push_check", "push_signal", "push_post",
               "push_unlock", "get_check", "get_reset", "get_unset",
               "get_front", "get_pop"}

Init == /\ queue = <<>> /\ sem = 0 /\ signalled = FALSE
        /\ owner = NoThread
        /\ pc = [t \in Threads |-> "idle"]
        /\ timed = [c \in Consumers |-> FALSE]
        /\ val = [c \in Consumers |-> NoValue]
        /\ pushes = [p \in Producers |-> 0]
        /\ pushed = <<>> /\ got = <<>> /\ cleaned = <<>>
        /\ alive = TRUE

Goto(t, from, to) == pc[t] = from /\ pc' = [pc EXCEPT ![t] = to]

\* The primitives: the mutex, and the semaphore's sem_wait, sem_timedwait
\* that gives up (it decrements if it can, so only at 0) and sem_post.
Lock(t)    == owner = NoThread /\ owner' = t
Unlock     == owner' = NoThread
Acquire    == sem > 0 /\ sem' = sem - 1
GivesUp(c) == timed[c] /\ sem = 0
Release    == sem' = sem + 1

(***************************************************************************)
(* push                                                                     *)
(***************************************************************************)
PushLock(p) ==
    /\ alive
    /\ pushes[p] < MaxPush
    /\ Goto(p, "idle", "push_append")
    /\ Lock(p)
    /\ UNCHANGED <<queue, sem, signalled, timed, val, pushes, pushed, got,
                   cleaned, alive>>

\* Mistake: the new message goes before those that wait.
PushAtFront(p) ==
    LET m == <<p, pushes[p] + 1>> IN
    /\ Goto(p, "push_append", "push_check")
    /\ queue' = <<m>> \o queue
    /\ pushed' = Append(pushed, m)
    /\ pushes' = [pushes EXCEPT ![p] = @ + 1]
    /\ UNCHANGED <<sem, signalled, owner, timed, val, got, cleaned, alive>>

PushAppend(p) ==
    LET m == <<p, pushes[p] + 1>> IN
    /\ Goto(p, "push_append", "push_check")
    /\ queue' = Append(queue, m)
    /\ pushed' = Append(pushed, m)
    /\ pushes' = [pushes EXCEPT ![p] = @ + 1]
    /\ UNCHANGED <<sem, signalled, owner, timed, val, got, cleaned, alive>>

\* Mistake: the message just appended is not counted.
PushCheckOffByOne(p) ==
    /\ \/ Len(queue) = 2 /\ ~signalled /\ Goto(p, "push_check", "push_signal")
       \/ ~(Len(queue) = 2 /\ ~signalled) /\ Goto(p, "push_check", "push_unlock")
    /\ UNCHANGED <<queue, sem, signalled, owner, timed, val, pushes, pushed,
                   got, cleaned, alive>>

PushCheck(p) ==
    /\ \/ /\ Len(queue) = 1 /\ ~signalled
          /\ Goto(p, "push_check", "push_signal")
       \/ /\ ~(Len(queue) = 1 /\ ~signalled)
          /\ Goto(p, "push_check", "push_unlock")
    /\ UNCHANGED <<queue, sem, signalled, owner, timed, val, pushes, pushed,
                   got, cleaned, alive>>

PushSignal(p) ==
    /\ Goto(p, "push_signal", "push_post")
    /\ signalled' = TRUE
    /\ UNCHANGED <<queue, sem, owner, timed, val, pushes, pushed, got,
                   cleaned, alive>>

PushPost(p) ==
    /\ Goto(p, "push_post", "push_unlock")
    /\ Release
    /\ UNCHANGED <<queue, signalled, owner, timed, val, pushes, pushed, got,
                   cleaned, alive>>

PushUnlock(p) ==
    /\ Goto(p, "push_unlock", "idle")
    /\ Unlock
    /\ UNCHANGED <<queue, sem, signalled, timed, val, pushes, pushed, got,
                   cleaned, alive>>

(***************************************************************************)
(* get                                                                      *)
(***************************************************************************)
\* The call, up to the result of empty(), which locks, reads and unlocks.
GetEmpty(c) ==
    /\ alive
    /\ owner = NoThread
    /\ \E ms \in BOOLEAN : timed' = [timed EXCEPT ![c] = ms]
    /\ \/ queue = <<>> /\ Goto(c, "idle", "get_await")
       \/ queue # <<>> /\ Goto(c, "idle", "get_lock")
    /\ UNCHANGED <<queue, sem, signalled, owner, val, pushes, pushed, got,
                   cleaned, alive>>

GetAwait(c) ==
    /\ Goto(c, "get_await", "get_clear")
    /\ Acquire
    /\ UNCHANGED <<queue, signalled, owner, timed, val, pushes, pushed, got,
                   cleaned, alive>>

\* aquire has returned false: msg_queue_to_exception.
GetTimeout(c) ==
    /\ GivesUp(c)
    /\ Goto(c, "get_await", "idle")
    /\ UNCHANGED <<queue, sem, signalled, owner, timed, val, pushes, pushed,
                   got, cleaned, alive>>

\* Mistake: the flag stays up after the token was taken.
GetClearForgotten(c) ==
    /\ Goto(c, "get_clear", "get_lock")
    /\ UNCHANGED <<queue, sem, signalled, owner, timed, val, pushes, pushed,
                   got, cleaned, alive>>

GetClear(c) ==
    /\ Goto(c, "get_clear", "get_lock")
    /\ signalled' = FALSE
    /\ UNCHANGED <<queue, sem, owner, timed, val, pushes, pushed, got,
                   cleaned, alive>>

GetLock(c) ==
    /\ Goto(c, "get_lock", "get_check")
    /\ Lock(c)
    /\ UNCHANGED <<queue, sem, signalled, timed, val, pushes, pushed, got,
                   cleaned, alive>>

GetCheck(c) ==
    /\ queue # <<>>
    /\ \/ signalled /\ Goto(c, "get_check", "get_reset")
       \/ ~signalled /\ Goto(c, "get_check", "get_front")
    /\ UNCHANGED <<queue, sem, signalled, owner, timed, val, pushes, pushed,
                   got, cleaned, alive>>

\* The "message queue is empty" exception; the guard unlocks on the way out.
GetThrowEmpty(c) ==
    /\ queue = <<>>
    /\ Goto(c, "get_check", "idle")
    /\ Unlock
    /\ UNCHANGED <<queue, sem, signalled, timed, val, pushes, pushed, got,
                   cleaned, alive>>

\* aquire() without a timeout, the lock held.
GetReset(c) ==
    /\ Goto(c, "get_reset", "get_unset")
    /\ Acquire
    /\ UNCHANGED <<queue, signalled, owner, timed, val, pushes, pushed, got,
                   cleaned, alive>>

GetUnset(c) ==
    /\ Goto(c, "get_unset", "get_front")
    /\ signalled' = FALSE
    /\ UNCHANGED <<queue, sem, owner, timed, val, pushes, pushed, got,
                   cleaned, alive>>

GetFront(c) ==
    /\ Goto(c, "get_front", "get_pop")
    /\ val' = [val EXCEPT ![c] = Head(queue)]
    /\ UNCHANGED <<queue, sem, signalled, owner, timed, pushes, pushed, got,
                   cleaned, alive>>

\* Mistake: the copy is returned and the element stays in the queue.
GetPeek(c) ==
    /\ Goto(c, "get_pop", "idle")
    /\ got' = Append(got, val[c])
    /\ Unlock
    /\ UNCHANGED <<queue, sem, signalled, timed, val, pushes, pushed, cleaned,
                   alive>>

\* _queue.pop(), the return of t and the unlock of the guard.
GetPop(c) ==
    /\ Goto(c, "get_pop", "idle")
    /\ queue' = Tail(queue)
    /\ got' = Append(got, val[c])
    /\ val' = [val EXCEPT ![c] = NoValue]
    /\ Unlock
    /\ UNCHANGED <<sem, signalled, timed, pushes, pushed, cleaned, alive>>

(***************************************************************************)
(* The destructor.  C++ lets it run only when no call is in progress.       *)
(***************************************************************************)
Destroy ==
    /\ alive
    /\ \A t \in Threads : pc[t] = "idle"
    /\ alive' = FALSE
    /\ cleaned' = queue
    /\ queue' = <<>>
    /\ UNCHANGED <<sem, signalled, owner, pc, timed, val, pushes, pushed, got>>

Push(p) == \/ PushLock(p) \/ PushAppend(p) \/ PushCheck(p)
           \/ PushSignal(p) \/ PushPost(p) \/ PushUnlock(p)

Get(c) == \/ GetEmpty(c) \/ GetAwait(c) \/ GetTimeout(c) \/ GetClear(c)
          \/ GetLock(c) \/ GetCheck(c) \/ GetThrowEmpty(c) \/ GetReset(c)
          \/ GetUnset(c) \/ GetFront(c) \/ GetPop(c)

Next == \/ \E p \in Producers : Push(p)
        \/ \E c \in Consumers : Get(c)
        \/ Destroy

Spec == Init /\ [][Next]_vars

(***************************************************************************)
(* A thread inside push leaves it, and a receiver calls get again and again *)
(* (the loops of the users of the queue).  Nobody has to push or destroy.   *)
(***************************************************************************)
Fairness == /\ \A p \in Producers : WF_vars(Push(p) /\ pc[p] # "idle")
            /\ \A c \in Consumers : WF_vars(Get(c))

FairSpec == Spec /\ Fairness
-----------------------------------------------------------------------------
\* Every variable keeps its type.
TypeOK ==
    /\ queue \in Seq(Messages) /\ pushed \in Seq(Messages)
    /\ got \in Seq(Messages) /\ cleaned \in Seq(Messages)
    /\ sem \in Nat /\ signalled \in BOOLEAN /\ alive \in BOOLEAN
    /\ owner \in Threads \cup {NoThread}
    /\ pc \in [Threads -> ProducerPc \cup ConsumerPc]
    /\ \A p \in Producers : pc[p] \in ProducerPc
    /\ \A c \in Consumers : pc[c] \in ConsumerPc
    /\ timed \in [Consumers -> BOOLEAN]
    /\ val \in [Consumers -> Messages \cup {NoValue}]
    /\ pushes \in [Producers -> 0 .. MaxPush]

\* Whatever the number of receivers: what get returned, what the destructor
\* cleaned and what is still queued are the pushed messages, in their order
\* and without loss or repetition.
FifoConservation == pushed = (got \o cleaned) \o queue

\* With one receiver get never ends in "message queue is empty": the receiver
\* that saw a message, or took the signal of one, still finds one under the lock.
NoSpuriousEmpty == \A c \in Consumers : pc[c] = "get_check" => queue # <<>>

\* With one receiver the aquire() that get makes while it holds the lock never
\* blocks; if it did, nobody could push and no signal could come.
ResetNeverBlocks == \A c \in Consumers : pc[c] = "get_reset" => sem > 0

\* No lost wake-up: a receiver that waits while a message is queued has a
\* signal to take, or the push of that message is still on its way to it.
NoLostWakeup ==
    \A c \in Consumers :
        (pc[c] = "get_await" /\ queue # <<>> /\ owner \notin Producers) => sem > 0

\* The semaphore is used as a binary event: its count never reaches 2, so that
\* a receiver is never woken for a message that was already taken.
BinarySignal == sem <= 1

\* With one receiver the semaphore and the flag carry one signal: these three.
SignalSound == NoSpuriousEmpty /\ ResetNeverBlocks /\ BinarySignal

\* Every pushed message is at last received, or cleaned by the destructor.
EventuallyDelivered ==
    \A m \in Messages :
        (\E i \in DOMAIN pushed : pushed[i] = m)
            ~> \E i \in DOMAIN (got \o cleaned) : (got \o cleaned)[i] = m

\* The queue implements a FIFO channel.
Channel == INSTANCE FifoChannel
           WITH chan <- queue, taken <- got, discarded <- cleaned
ImplementsChannel == Channel!Spec
=============================================================================
