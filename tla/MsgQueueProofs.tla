--------------------------- MODULE MsgQueueProofs ---------------------------
(***************************************************************************)
(* Proofs about MsgQueue for every set of threads and every MaxPush.        *)
(***************************************************************************)
EXTENDS MsgQueue, SequenceTheorems, TLAPS

\* _cs is held by exactly the thread whose pc is inside its scope.
LockInv == \A t \in Threads : pc[t] \in HoldsLock <=> owner = t

\* Under the lock, after the emptiness test, the queue has a front, and the
\* local copy that get is about to return is that front.
DataInv ==
    \A c \in Consumers :
        /\ pc[c] \in {"get_reset", "get_unset", "get_front", "get_pop"}
               => queue # <<>>
        /\ pc[c] = "get_pop" => val[c] = Head(queue)

\* A call is in progress only while the queue lives; the cleaner comes last.
LifeInv == /\ alive => cleaned = <<>>
           /\ ~alive => \A t \in Threads : pc[t] = "idle"

\* A push in progress is within the bound that its guard checked.
BoundInv == \A p \in Producers : pc[p] = "push_append" => pushes[p] < MaxPush

Inv == /\ TypeOK /\ LockInv /\ DataInv /\ LifeInv /\ BoundInv
       /\ FifoConservation

USE DEF Threads, ProducerPc, ConsumerPc, HoldsLock, Goto, Lock, Unlock,
         Acquire, GivesUp, Release, NoValue

\* A message that enters at the end of the queue enters at the end of the whole.
LEMMA AppendToConcat ==
  ASSUME NEW S, NEW g \in Seq(S), NEW q \in Seq(S), NEW m \in S,
         NEW w \in Seq(S), w = g \o q
  PROVE  Append(w, m) = g \o Append(q, m)
<1>1. g \o q \in Seq(S) /\ <<m>> \in Seq(S)
  BY ConcatProperties
<1>2. Append(g \o q, m) = (g \o q) \o <<m>>
  BY <1>1, AppendIsConcat
<1>3. Append(q, m) = q \o <<m>>
  BY AppendIsConcat
<1>4. QED
  BY <1>1, <1>2, <1>3, ConcatAssociative

\* A message that moves from the head of the queue to the end of what was
\* received stays where it was in the whole.
LEMMA MoveHead ==
  ASSUME NEW S, NEW g \in Seq(S), NEW q \in Seq(S), q # <<>>
  PROVE  g \o q = Append(g, Head(q)) \o Tail(q)
<1>1. Head(q) \in S /\ Tail(q) \in Seq(S)
  BY HeadTailProperties
<1>2. <<Head(q)>> \in Seq(S)
  BY <1>1
<1>3. Append(g, Head(q)) = g \o <<Head(q)>>
  BY <1>1, AppendIsConcat
<1>4. q = <<Head(q)>> \o Tail(q)
  BY HeadTailProperties, <1>1
<1>5. QED
  BY <1>1, <1>2, <1>3, <1>4, ConcatAssociative


-----------------------------------------------------------------------------
LEMMA MessageType ==
  ASSUME NEW p \in Producers, NEW n \in 1 .. MaxPush
  PROVE  <<p, n>> \in Messages
BY DEF Messages

LEMMA InitInv == Init => Inv
<1> SUFFICES ASSUME Init PROVE Inv
  OBVIOUS
<1> USE DEF Init
<1>1. <<>> \in Seq(Messages)
  BY EmptySeq
<1>2. TypeOK
  <2>1. /\ val \in [Consumers -> Messages \cup {NoValue}]
        /\ timed \in [Consumers -> BOOLEAN]
    OBVIOUS
  <2>2. pushes \in [Producers -> 0 .. MaxPush]
    BY MaxPushAssumption
  <2>3. /\ pc \in [Threads -> ProducerPc \cup ConsumerPc]
        /\ \A p \in Producers : pc[p] \in ProducerPc
        /\ \A c \in Consumers : pc[c] \in ConsumerPc
    OBVIOUS
  <2>4. /\ owner \in Threads \cup {NoThread}
        /\ sem \in Nat /\ signalled \in BOOLEAN /\ alive \in BOOLEAN
    OBVIOUS
  <2> QED
    BY <1>1, <2>1, <2>2, <2>3, <2>4 DEF TypeOK
<1>3. FifoConservation
  BY <1>1, ConcatEmptySeq DEF FifoConservation
<1>4. LockInv /\ DataInv /\ LifeInv /\ BoundInv
  BY ThreadsAssumption DEF LockInv, DataInv, LifeInv, BoundInv
<1> QED
  BY <1>2, <1>3, <1>4 DEF Inv

LEMMA PushInv ==
  ASSUME Inv, NEW p \in Producers, Push(p)
  PROVE  Inv'
<1>0. p \in Threads /\ p \notin Consumers
  BY ThreadsAssumption
<1> USE <1>0, ThreadsAssumption, MaxPushAssumption
        DEF Inv, TypeOK, LockInv, DataInv, LifeInv, BoundInv
<1>1. CASE PushLock(p)
  BY <1>1 DEF PushLock, FifoConservation
<1>2. CASE PushAppend(p)
  <2> DEFINE m == <<p, pushes[p] + 1>>
  <2>1. /\ m \in Messages
        /\ queue' = Append(queue, m) /\ pushed' = Append(pushed, m)
    <3>1. pushes[p] + 1 \in 1 .. MaxPush
      BY <1>2 DEF PushAppend
    <3>2. /\ queue' = Append(queue, <<p, pushes[p] + 1>>)
          /\ pushed' = Append(pushed, <<p, pushes[p] + 1>>)
      BY <1>2 DEF PushAppend
    <3>3. <<p, pushes[p] + 1>> \in Messages
      BY <3>1, MessageType
    <3> QED
      BY <3>2, <3>3
  <2> HIDE DEF m
  <2>2. queue' \in Seq(Messages) /\ pushed' \in Seq(Messages)
    BY <2>1, AppendProperties
  <2>3. FifoConservation'
    <3> DEFINE past == got \o cleaned
    <3>1. past \in Seq(Messages) /\ past' = past
      BY <1>2, ConcatProperties DEF PushAppend
    <3>2. pushed = past \o queue
      BY DEF FifoConservation
    <3> HIDE DEF past
    <3>3. pushed' = past \o queue'
      <4>1. pushed \in Seq(Messages) /\ queue \in Seq(Messages)
        OBVIOUS
      <4>2. Append(pushed, m) = past \o Append(queue, m)
        BY ONLY <2>1, <3>1, <3>2, <4>1, AppendToConcat, ZenonT(60)
      <4> QED
        BY <2>1, <4>2
    <3> QED
      BY <3>1, <3>3 DEF FifoConservation, past
  <2>4. owner = p /\ pc' = [pc EXCEPT ![p] = "push_check"]
    BY <1>2 DEF PushAppend
  <2>5. TypeOK'
    <3>1. pushes[p] + 1 \in 0 .. MaxPush
      BY <1>2 DEF PushAppend
    <3>2. pushes' \in [Producers -> 0 .. MaxPush]
      BY <1>2, <3>1 DEF PushAppend
    <3>3. /\ pc' \in [Threads -> ProducerPc \cup ConsumerPc]
          /\ \A r \in Producers : pc'[r] \in ProducerPc
          /\ \A c \in Consumers : pc'[c] \in ConsumerPc
      BY <2>4
    <3> QED
      BY <1>2, <2>2, <3>2, <3>3 DEF PushAppend
  <2>6. DataInv'
    BY <1>2, <2>4 DEF PushAppend
  <2> QED
    BY <1>2, <2>3, <2>5, <2>6, SMTT(30) DEF PushAppend
<1>3. CASE PushCheck(p)
  BY <1>3, ZenonT(60) DEF PushCheck, FifoConservation
<1>4. CASE PushSignal(p)
  BY <1>4 DEF PushSignal, FifoConservation
<1>5. CASE PushPost(p)
  BY <1>5 DEF PushPost, FifoConservation
<1>6. CASE PushUnlock(p)
  BY <1>6 DEF PushUnlock, FifoConservation
<1> QED
  BY <1>1, <1>2, <1>3, <1>4, <1>5, <1>6 DEF Push

LEMMA GetInv ==
  ASSUME Inv, NEW c \in Consumers, Get(c)
  PROVE  Inv'
<1>0. c \in Threads /\ c \notin Producers
  BY ThreadsAssumption
<1> USE <1>0, ThreadsAssumption, MaxPushAssumption
        DEF Inv, TypeOK, LockInv, DataInv, LifeInv, BoundInv
<1>1. CASE GetEmpty(c)
  BY <1>1, ZenonT(60) DEF GetEmpty, FifoConservation
<1>2. CASE GetAwait(c)
  BY <1>2 DEF GetAwait, FifoConservation
<1>3. CASE GetTimeout(c)
  BY <1>3 DEF GetTimeout, FifoConservation
<1>4. CASE GetClear(c)
  BY <1>4 DEF GetClear, FifoConservation
<1>5. CASE GetLock(c)
  BY <1>5 DEF GetLock, FifoConservation
<1>6. CASE GetCheck(c)
  BY <1>6 DEF GetCheck, FifoConservation
<1>7. CASE GetThrowEmpty(c)
  BY <1>7 DEF GetThrowEmpty, FifoConservation
<1>8. CASE GetReset(c)
  BY <1>8 DEF GetReset, FifoConservation
<1>9. CASE GetUnset(c)
  BY <1>9 DEF GetUnset, FifoConservation
<1>10. CASE GetFront(c)
  <2>1. Head(queue) \in Messages
    BY <1>10, HeadTailProperties DEF GetFront
  <2> QED
    BY <1>10, <2>1 DEF GetFront, FifoConservation
<1>11. CASE GetPop(c)
  <2>1. /\ queue # <<>> /\ val[c] = Head(queue) /\ alive /\ cleaned = <<>>
        /\ queue' = Tail(queue) /\ got' = Append(got, Head(queue))
    BY <1>11 DEF GetPop
  <2>2. /\ Head(queue) \in Messages
        /\ queue' \in Seq(Messages) /\ got' \in Seq(Messages)
    BY <2>1, HeadTailProperties, AppendProperties
  <2>3. FifoConservation'
    <3>1. pushed = got \o queue
      BY <2>1, ConcatEmptySeq DEF FifoConservation
    <3>2. pushed = got' \o queue'
      BY <2>1, <3>1, MoveHead
    <3>3. got' \o cleaned = got'
      BY <2>1, <2>2, ConcatEmptySeq
    <3> QED
      BY <1>11, <3>2, <3>3 DEF FifoConservation, GetPop
  <2>4. TypeOK'
    BY <1>11, <2>2 DEF GetPop
  <2>5. LockInv' /\ LifeInv' /\ BoundInv'
    BY <1>11 DEF GetPop
  <2>6. DataInv'
    <3>1. \A d \in Consumers : pc'[d] \notin {"get_reset", "get_unset",
                                              "get_front", "get_pop"}
      BY <1>11 DEF GetPop
    <3> QED
      BY <3>1
  <2> QED
    BY <2>3, <2>4, <2>5, <2>6
<1> QED
  BY <1>1, <1>2, <1>3, <1>4, <1>5, <1>6, <1>7, <1>8, <1>9, <1>10, <1>11
     DEF Get

LEMMA DestroyInv ==
  ASSUME Inv, Destroy
  PROVE  Inv'
<1> USE DEF Inv, TypeOK, LockInv, DataInv, LifeInv, BoundInv, Destroy
<1>1. /\ cleaned = <<>> /\ cleaned' = queue /\ queue' = <<>>
      /\ UNCHANGED <<pushed, got>>
  OBVIOUS
<1>2. FifoConservation'
  <2>1. pushed = got \o queue
    BY <1>1, ConcatEmptySeq DEF FifoConservation
  <2>2. got \o queue \in Seq(Messages)
    BY ConcatProperties
  <2> QED
    BY <1>1, <2>1, <2>2, ConcatEmptySeq DEF FifoConservation
<1>3. <<>> \in Seq(Messages)
  BY EmptySeq
<1> QED
  BY <1>1, <1>2, <1>3

LEMMA Inductive == Inv /\ [Next]_vars => Inv'
<1> SUFFICES ASSUME Inv, [Next]_vars PROVE Inv'
  OBVIOUS
<1>1. CASE UNCHANGED vars
  BY <1>1 DEF vars, Inv, TypeOK, LockInv, DataInv, LifeInv, BoundInv,
              FifoConservation
<1>2. CASE Next
  BY <1>2, PushInv, GetInv, DestroyInv DEF Next
<1> QED
  BY <1>1, <1>2

\* Types are kept, whatever the number of producers and receivers of a queue.
THEOREM TypeCorrect == Spec => []TypeOK
<1>1. Inv => TypeOK
  BY DEF Inv
<1> QED
  BY <1>1, InitInv, Inductive, PTL DEF Spec

\* No push or get, however interleaved, loses, repeats or reorders a message.
THEOREM Conservation == Spec => []FifoConservation
<1>1. Inv => FifoConservation
  BY DEF Inv
<1> QED
  BY <1>1, InitInv, Inductive, PTL DEF Spec

-----------------------------------------------------------------------------
(***************************************************************************)
(* The hand-over of the signal when there is one receiver c.  The signal is *)
(* up as long as it is in one of three places: about to be posted, in the   *)
(* semaphore, or just taken by c.                                           *)
(***************************************************************************)
PushAt(s) == owner \in Producers /\ pc[owner] = s
Taken(c)  == pc[c] \in {"get_clear", "get_unset"}

SignalPlace(c) ==
    /\ sem \in {0, 1}
    /\ sem = 1 => signalled /\ ~PushAt("push_post") /\ ~Taken(c)
    /\ PushAt("push_post") => signalled /\ ~Taken(c)
    /\ Taken(c) => signalled
    /\ signalled => sem = 1 \/ PushAt("push_post") \/ Taken(c)

\* A receiver past its test of emptiness, or past the semaphore, has a message.
ReceiverHasMessage(c) ==
    pc[c] \notin {"idle", "get_await"} => queue # <<>>

\* A push that signals, or is about to, has found the receiver outside.
SignalForFirst(c) ==
    /\ PushAt("push_check") => queue # <<>>
    /\ PushAt("push_check") /\ Len(queue) = 1
           => ~signalled /\ pc[c] \in {"idle", "get_await"}
    /\ PushAt("push_signal") => ~signalled
    /\ PushAt("push_signal") \/ PushAt("push_post")
           => queue # <<>> /\ pc[c] \in {"idle", "get_await"}

\* The flag stays down for a waiting receiver only while the queue is empty or
\* the push of the first message is on its way to raising it.
FlagForWaiting(c) ==
    /\ alive /\ queue = <<>> => ~signalled
    /\ pc[c] \in {"get_front", "get_pop"} => ~signalled
    /\ pc[c] = "get_reset" => sem = 1
    /\ pc[c] = "get_await" /\ queue # <<>> /\ ~signalled
           => \/ PushAt("push_signal")
              \/ PushAt("push_check") /\ Len(queue) = 1

SignalInv(c) == /\ SignalPlace(c) /\ ReceiverHasMessage(c)
                /\ SignalForFirst(c) /\ FlagForWaiting(c)

LEMMA SignalInit ==
  ASSUME NEW c, Consumers = {c}, Init
  PROVE  SignalInv(c)
BY ThreadsAssumption
   DEF Init, SignalInv, SignalPlace, ReceiverHasMessage, SignalForFirst,
       FlagForWaiting, PushAt, Taken

LEMMA SignalPush ==
  ASSUME NEW c, Consumers = {c}, Inv, SignalInv(c), NEW p \in Producers, Push(p)
  PROVE  SignalInv(c)'
<1>0. p # c /\ p # NoThread /\ c \in Threads /\ p \in Threads
  BY ThreadsAssumption
<1>a. /\ queue \in Seq(Messages) /\ pc \in [Threads -> ProducerPc \cup ConsumerPc]
      /\ LockInv /\ sem \in Nat /\ signalled \in BOOLEAN
  BY DEF Inv, TypeOK
<1> USE <1>0, <1>a
        DEF SignalInv, SignalPlace, ReceiverHasMessage, SignalForFirst,
            FlagForWaiting, PushAt, Taken, LockInv
<1>1. CASE PushLock(p)
  BY <1>1, ThreadsAssumption DEF PushLock
<1>2. CASE PushAppend(p)
  <2>1. PICK m : queue' = Append(queue, m) /\ m \in Messages
    <3>1. pushes[p] + 1 \in 1 .. MaxPush
      BY <1>2, MaxPushAssumption DEF PushAppend, Inv, TypeOK, BoundInv
    <3>2. <<p, pushes[p] + 1>> \in Messages
      BY <3>1, MessageType
    <3> QED
      BY <1>2, <3>2 DEF PushAppend
  <2>2. queue' # <<>> /\ Len(queue') = Len(queue) + 1
    BY <2>1, AppendProperties
  <2>3. Len(queue) \in Nat /\ (Len(queue) = 0 => queue = <<>>)
    BY EmptySeq, LenProperties
  <2>4. alive
    BY <1>2 DEF PushAppend, Inv, LifeInv
  <2>5. /\ owner = p /\ owner' = p /\ pc[p] = "push_append"
        /\ pc' = [pc EXCEPT ![p] = "push_check"]
        /\ UNCHANGED <<sem, signalled, alive>>
    BY <1>2 DEF PushAppend
  <2> QED
    BY <2>2, <2>3, <2>4, <2>5
<1>3. CASE PushCheck(p)
  BY <1>3 DEF PushCheck
<1>4. CASE PushSignal(p)
  BY <1>4 DEF PushSignal
<1>5. CASE PushPost(p)
  BY <1>5 DEF PushPost
<1>6. CASE PushUnlock(p)
  BY <1>6 DEF PushUnlock
<1> QED
  BY <1>1, <1>2, <1>3, <1>4, <1>5, <1>6 DEF Push

LEMMA SignalGet ==
  ASSUME NEW c, Consumers = {c}, Inv, SignalInv(c), Get(c)
  PROVE  SignalInv(c)'
<1>0. c \notin Producers /\ c # NoThread /\ c \in Threads
  BY ThreadsAssumption
<1>a. /\ pc \in [Threads -> ProducerPc \cup ConsumerPc]
      /\ LockInv /\ sem \in Nat /\ signalled \in BOOLEAN
  BY DEF Inv, TypeOK
<1> USE <1>0, <1>a
        DEF SignalInv, SignalPlace, ReceiverHasMessage, SignalForFirst,
            FlagForWaiting, PushAt, Taken, LockInv
<1>1. CASE GetEmpty(c)
  BY <1>1, ThreadsAssumption DEF GetEmpty
<1>2. CASE GetAwait(c)
  BY <1>2 DEF GetAwait, Inv, LifeInv
<1>3. CASE GetTimeout(c)
  BY <1>3 DEF GetTimeout
<1>4. CASE GetClear(c)
  BY <1>4 DEF GetClear
<1>5. CASE GetLock(c)
  BY <1>5 DEF GetLock
<1>6. CASE GetCheck(c)
  BY <1>6 DEF GetCheck
<1>7. CASE GetThrowEmpty(c)
  BY <1>7 DEF GetThrowEmpty
<1>8. CASE GetReset(c)
  BY <1>8 DEF GetReset
<1>9. CASE GetUnset(c)
  BY <1>9 DEF GetUnset
<1>10. CASE GetFront(c)
  BY <1>10 DEF GetFront
<1>11. CASE GetPop(c)
  BY <1>11, ThreadsAssumption DEF GetPop
<1> QED
  BY <1>1, <1>2, <1>3, <1>4, <1>5, <1>6, <1>7, <1>8, <1>9, <1>10, <1>11
     DEF Get

LEMMA SignalDestroy ==
  ASSUME NEW c, Consumers = {c}, Inv, SignalInv(c), Destroy
  PROVE  SignalInv(c)'
BY ThreadsAssumption
   DEF Destroy, SignalInv, SignalPlace, ReceiverHasMessage, SignalForFirst,
       FlagForWaiting, PushAt, Taken

LEMMA SignalStep ==
  ASSUME NEW c, Consumers = {c}
  PROVE  Inv /\ SignalInv(c) /\ [Next]_vars => SignalInv(c)'
<1> SUFFICES ASSUME Inv, SignalInv(c), [Next]_vars PROVE SignalInv(c)'
  OBVIOUS
<1>1. CASE UNCHANGED vars
  BY <1>1 DEF vars, SignalInv, SignalPlace, ReceiverHasMessage,
              SignalForFirst, FlagForWaiting, PushAt, Taken
<1>2. CASE Next
  BY <1>2, SignalPush, SignalGet, SignalDestroy DEF Next
<1> QED
  BY <1>1, <1>2

LEMMA SignalImplies ==
  ASSUME NEW c, Consumers = {c}, Inv, SignalInv(c)
  PROVE  NoSpuriousEmpty /\ ResetNeverBlocks /\ NoLostWakeup /\ BinarySignal
BY ThreadsAssumption
   DEF Inv, TypeOK, LockInv, LifeInv, SignalInv, SignalPlace,
       ReceiverHasMessage, SignalForFirst, FlagForWaiting, PushAt, Taken,
       NoSpuriousEmpty, ResetNeverBlocks, NoLostWakeup, BinarySignal

\* A queue with one receiver and any producers hands its signal over soundly:
\* get finds its message, never blocks under the lock, and leaves at most one token.
THEOREM OneReceiver ==
  ASSUME NEW c, Consumers = {c}
  PROVE  Spec => []SignalSound
<1>1. Init => Inv /\ SignalInv(c)
  BY InitInv, SignalInit
<1>2. Inv /\ SignalInv(c) /\ [Next]_vars => (Inv /\ SignalInv(c))'
  BY Inductive, SignalStep
<1>3. Inv /\ SignalInv(c) => SignalSound
  BY SignalImplies DEF SignalSound
<1> QED
  BY <1>1, <1>2, <1>3, PTL DEF Spec

\* The one receiver never waits for a signal beside a queued message, unless the
\* push of that message is still on its way to the signal.
THEOREM ReceiverIsWoken ==
  ASSUME NEW c, Consumers = {c}
  PROVE  Spec => []NoLostWakeup
<1>1. Init => Inv /\ SignalInv(c)
  BY InitInv, SignalInit
<1>2. Inv /\ SignalInv(c) /\ [Next]_vars => (Inv /\ SignalInv(c))'
  BY Inductive, SignalStep
<1>3. Inv /\ SignalInv(c) => NoLostWakeup
  BY SignalImplies
<1> QED
  BY <1>1, <1>2, <1>3, PTL DEF Spec
-----------------------------------------------------------------------------
\* Every step of the queue is a step of the FIFO channel or leaves it alone.
THEOREM Implementation == Spec => ImplementsChannel
<1>1. Init => Channel!Init
  BY DEF Init, Channel!Init
<1>2. Inv /\ Inv' /\ [Next]_vars => [Channel!Next]_Channel!chanVars
  <2> SUFFICES ASSUME Inv, Inv', [Next]_vars
               PROVE  [Channel!Next]_Channel!chanVars
    OBVIOUS
  <2> USE DEF Channel!chanVars
  <2>1. CASE UNCHANGED vars
    BY <2>1 DEF vars
  <2>2. ASSUME NEW p \in Producers, Push(p)
        PROVE  Channel!Put \/ UNCHANGED Channel!chanVars
    <3>1. CASE PushAppend(p)
      <4>1. pushes[p] + 1 \in 1 .. MaxPush
        BY <3>1, MaxPushAssumption DEF PushAppend, Inv, TypeOK, BoundInv
      <4>2. <<p, pushes[p] + 1>> \in Messages
        BY <4>1, MessageType
      <4> QED
        BY <3>1, <4>2 DEF PushAppend, Channel!Put
    <3> QED
      BY <2>2, <3>1 DEF Push, PushLock, PushCheck, PushSignal, PushPost,
                        PushUnlock
  <2>3. ASSUME NEW c \in Consumers, Get(c)
        PROVE  Channel!Take \/ UNCHANGED Channel!chanVars
    <3>1. CASE GetPop(c)
      BY <3>1 DEF GetPop, Channel!Take, Inv, DataInv
    <3> QED
      BY <2>3, <3>1 DEF Get, GetEmpty, GetAwait, GetTimeout, GetClear,
         GetLock, GetCheck, GetThrowEmpty, GetReset, GetUnset, GetFront
  <2>4. Destroy => Channel!Discard
    BY DEF Destroy, Channel!Discard, Inv, LifeInv
  <2> QED
    BY <2>1, <2>2, <2>3, <2>4 DEF Next, Channel!Next
<1> QED
  BY <1>1, <1>2, InitInv, Inductive, PTL DEF Spec, ImplementsChannel,
     Channel!Spec
=============================================================================
