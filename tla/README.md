# A formal model of fridmon

fridmon is a set of C++ libraries for long-running monitoring agents: `quark`
(threads, queues, timers, memory pools), `nucleon` (smart pointers, state
machines, factories, dispatchers, a job pool), `meson` (tracing and profiling),
`hyperon` (a configuration DOM), `snmpfwk` (SNMP tables) and `xmlnet` (an XML
RPC agent). This directory holds TLA+ modules of its concurrent core, the TLC
configurations that check them and proofs that TLAPS checks.

`tlc -config X.cfg M` runs a check, `tlapm MProofs.tla` the proofs about `M`;
`PROJECT.json` lists runs, mutants, findings, hazards, theorems and, for every
definition, the source lines it stands for.

## 1. The system

| Component | State | Operations | Interacts with | What is hard, and what makes it correct |
|---|---|---|---|---|
| `quark::msg_queue` | queue, mutex, semaphore, volatile flag | push, get (with timeout), destroy | mutex, semaphore | The flag and the token are handled without the lock by `get`. Order and conservation of messages, no lost wake-up, no block under the lock. |
| `quark::thread` | `_id`, `_bTerminate`, `_result`, two semaphores | start, stop, terminate, wait, threadLoop, destroy | the OS | Nothing is locked. start tells the truth, stop means stopped, one run at a time, no use after destruction. |
| `quark::thread_bundle` | vector of threads | attach, detach, start, stop | `thread` | Failure in the middle of start: all or nothing, as far as the stop of a thread is a stop. |
| `quark::timer_pool` | map of timers, mutex, event | register, unregister, tick, destroy | `thread`, callbacks | Callbacks run inside the tick and may call back. No call after unregistering; periods kept; liveness. |
| memory pool (`small_allocator`, `middle_allocator`, storages) | lists of chunks, free lists in the free memory itself, iterators that outlive changes | allocate, free | everything (`operator new` of pooled objects) | Long sequences of frees. No cell given out twice, free finds its chunk. |
| `user_mempool` | two function pointers | bind, allocate, free | memory pool | Bound without a lock by whoever allocates first: allocate calls what is assigned, a block goes back to its pool; free may call what is not yet assigned (section 5). |
| `singleton_holder` | a pointer and a flag per type; an array of longevities | instance, setLongevity, destruction at exit | `atexit`, constructors that ask for other singletons | Creation races and nested creation: made once, answers every call. Order of destruction. |
| `nucleon::smart_ptr` | shared counter | copy, assign, destroy | interlocked, memory pool | Concurrent releases: alive while held, deleted once. |
| `nucleon::fsm`, `dynamic_fsm` | current and previous state object, timers | process, switchState, timerTick, destroy | handlers, factories | Handlers call back: changes and events nest. A handler's state survives the first change under it, the loop over the timers ends when the state changes; both have a limit (section 5). |
| `nucleon` job pool (`job.h`) | workers, a queue of jobs | push, resize, stop | `std::thread` | A copy of the third-party CTPL pool that nothing includes: left aside. |
| dispatchers, factories | map from id to handler | dispatch, createObject | singleton | First-use initialisation. |
| `meson` | trace levels, output, timers | trace, measure | singleton | Locking around output. |
| `xmlnet` agent | table of connections, queue of messages | accept, receive, send, terminate | sockets, `msg_queue`, `thread` | Three threads share the table and wait outside its lock; descriptors are used again. Table and sockets agree, a message reaches its own connection, stop returns. |
| `hyperon` element | children twice, in a list and in a hash; placeholders | add, remove, find, load, store | vendored expat | Long sequences of edits: list, hash and objects agree, and what was loaded is stored again. |
| `snmpfwk` table | leaves, row statuses, a flag for notifications | addRow, removeRow, row status, GetNext | Epilogue | Managers walk and write while rows come and go: a walk misses nothing, statuses follow rows. |

Vendored (expat, Epilogue), generated and Windows or VxWorks code is left
aside; of the platform code the Linux implementation (`quark/redhat`) is the
one modelled.

## 2. Plan

Done, in this order, because everything concurrent in fridmon stands on them:

1. `MsgQueue` with the abstract `FifoChannel` and `MsgQueueProofs`.
2. `Thread`, then `ThreadBundle` on threads seen from outside.
3. `TimerPool`, an active object with callbacks.
4. `SmartPtr`, on the interlocked operations.
5. `MemoryPool`, the allocator below all pooled objects.
6. `Fsm`: nested events and changes of state, timers of states.

7. `UserMempool`, `Storage` and `Singleton`: binding, memory below the pool,
   creation and destruction at exit.
8. `XmlAgent`, `Element` and `SnmpTable`, the applications' libraries.

`MCCore` and `MCLibrary` put components that do not call each other into one
instance; a behaviour is one of a single component, the `subject`. So that the
modules can be extended together, names that would stand twice carry the name of
their component (`FsmInit`, `HeapNext`, `TimersSpec`).

The proofs follow the same order: `MsgQueue` first, then the modules whose
invariant needs no induction over data, then `Thread`, `Fsm`, the destruction of
singletons, the storage, the memory pool and, on an induction of its own over
folds, `Element` (section 6). Every safety and action property of the runs is a
theorem; liveness stays with TLC.

What is left: `Fsm` with constructors that throw and a scheme shared by several
threads (the result of a condition is stored in the shared transition,
`fsm.h:150`); the dispatchers and factories, which have no steps that
interleave; `assoc_vector` against a reference map.

## 3. The modules and the code

**MsgQueue** (`quark/msg_queue.h`). `pc[t]` is the next statement of the call
thread `t` is in. What runs under the lock and touches only what the lock
protects is one step; each access to `_signalled` and `_sem` is a step of its
own, because `get` uses both before it takes the lock. `GetEmpty` stands for
the call of `empty()`, which locks and unlocks in one step. `GetReset` is the
`aquire` under the lock, `GetThrowEmpty` the "message queue is empty"
exception, `GetTimeout` the other one. A timeout is possible only while the
count of the semaphore is 0, as `sem_timedwait` decrements first if it can.
`Destroy` happens when no call is in progress, as C++ requires. `pushed` and
`got` are history variables.

**FifoChannel** is what the queue promises: put, take in order, discard at the
end. `MsgQueue!ImplementsChannel` maps `chan`, `taken` and `discarded` to
`queue`, `got` and `cleaned`.

**Thread** (`quark/thread.cpp`, `quark/redhat/thread_impl.h`). A caller goes
through start (`StartClearId` and `StartClearTerm` are `cleanup()`), `stop`
(terminate and wait) or `wait`; OS thread `w` goes through `threadLoop`. Every
access to a volatile field is a step. `onInitialize` fails and `run` returns
as the constants allow. `_result` is plain, but ordered by the semaphore that
follows it, except where `threadLoop` returns it.

**ThreadBundle** (`quark/thread.cpp`). Of a thread there is what its caller can
tell: whether it is started, and `tokens`, the releases of `_finishEvent` that
nobody took. A failed `onInitialize` leaves one, and so does a run that ends by
itself, at any moment, also between two steps of `for_each`. `StopOne` takes the
first token there is, as `wait` does: if an earlier run left it, the thread runs
on. `runs` counts the OS threads of each object.

**TimerPool** (`quark/timer.cpp`). The mutex is held from `Tick` to `TickDone`,
callbacks included, so other threads (`TimerClient`) act between ticks and
callbacks (`Callback`) inside them; the mutex is recursive. `fired` is the copy
`firedTimers`. Counters wrap as `size_t` does, at `2^Width`. `age` counts the
ticks a timer has waited. The life of the thread itself is that of `Thread`
for an object started once; only its end is here (`phase = "stopped"`).

**SmartPtr** (`nucleon/smart_ptr.h`, `quark/redhat/sync_impl.h`). `Decrement`
and `ReadBack` are the two halves of `interlocked::decrement`. When the counter
was given back, `ReadBack` may see anything. `HandOver` moves a pointer object
from one thread to another.

**MemoryPool** (`quark/mempool/small_alloc.h`, `quark/mempool/middle_alloc.h`).
A call is one step under the mutex of the pool; the cases of
`allocate` and `free` are separate actions. Iterators are positions in the
list, which never shrinks (`pop_back` moves `_end`). `byte` holds the links of
the free cells; a byte of a client holds `Client`, which no link may be.
`FreeListsExact` says that a sequence as long as the count of the chunk follows
these links from its first cell and names every free cell once. A
region is as large as a chunk; regions come from the storage, go back to the
bucket of the size they are released with, and are also given to clients whose
objects are that large.

**Fsm** (`nucleon/fsm.h`). `stack` holds a frame for each call of `process`
that has not returned: the object it runs on, the state it began in and the
place of the condition it is at. `Rows` are places of the scheme, so that a row
that stands twice is tried twice. While a frame is there its handler may call
`switchState` (`SwitchInside`), `process` (`ProcessInside`) and the timer
functions, each any number of times up to the bounds; an object is an address,
and `NewObject` never takes one that a frame still runs on, so that a dangling
one shows. `ConditionTrue`, `ConditionFalse` and `FinalReturns` are its returns,
with the change of state that `process` then makes. `current` is the id of the
current object. `tick` is the loop over the timers; it remembers the id it began
with, which is all that the code compares, and goes on in place after a change
away and back: the same id has the same timers, new ones in the places of those
that were cleared, which is one of the outcomes the dead iterator can have.
`changed`, of a frame and of `tick`, is the history of how often the state has
changed under it (0, 1, more). `MCFsm` gives a scheme with an entry of every kind.
A machine begins without timers even if its first state has some, as `setCurState`
creates none. The sum of `_elapsed` and `slice`, a `size_t`, does not wrap in the
model.

**UserMempool** (`quark/mempool/user_mempool.h`, `.cpp`). Each read and each
write of `_fnAlloc` and `_fnFree` is a step. `bind` is called by the first
`allocate` (with the default pool) or by `bindPool` of the program. Asserts do
nothing, as in the build with `NDEBUG`; those of `allocate` and `free` are the
properties `AllocBound` and `FreeBound`, of which the second fails (section 5),
and the one of `bind` is in section 5 as well. `blocks` is the pool a thread's
object came from. `binds` is the history of whether two calls of `bind` have been
past the test together.

**Storage** (`quark/mempool/storage.h`, `service_mempool.cpp`).
`expandable_storage` cuts blocks from the front of a chunk; its vector of chunks
lives in a `service_storage`, to which `Pushed` goes when the vector is full.
`ServiceAllocate` wraps as `size_t` does, at `2^SizeBits`.

**Singleton** (`quark/singleton.h`, `singleton.cpp`). `calls[c]` is the stack of
calls of `instance`, `makeInstance` and `destroySingleton` of thread `c`:
constructors (`Uses`) and destructors (`UsesAtEnd`) ask for other singletons.
`made[t]` is the history of who constructed a `t`. `atExit` is what `atexit` was
given, a type for `destroySingleton` and `Main` for `atExitFn`. `trackers` is the
array of longevities, in ascending order as `upper_bound` with the comparison of
the code leaves it. When exit begins the other threads have returned; afterwards
only `Main` runs, and between two functions of `atexit` it may ask for singletons
as well. `RankedAtEnd` says that no destructor asks, itself or through the
constructors it causes to run, for what uses its own; the instance of `library`
has it.

**Element** (`hyperon/element.cpp`). `elements`, `hash` and `child` are the list,
the multimap and the objects. Every operation begins as the code does with
`Ready`, which makes the placeholders of mandatory children when the list is
empty. `Added`, `Dropped` and `LoadChild` are functions from one such tree to the
next, because `fromStorage` is one step that adds many children.

**SnmpTable** (`snmpfwk/SnmpTable.cpp`, `SnmpNode.cpp`, `SnmpLeaf.h`). A leaf is
its name, a column followed by the index of its row; `Less` is
`Oid::operator<`. Each operation holds the lock of the node and is one step; the
walk of a manager is one step per GetNext. `pending` is the history of what that
walk has still to read.

**XmlAgent** (`xmlnet_lib/xml_agent.cpp`, the branch for WIN32; the one for Linux
names `max_connections` and `select_to`, which the receiver does not have, and
does not compile). `server`, `receiver` and `sender` are where the three threads
are; `CsFree` is the critical section of `connections_t`, which only the scan of
the receiver holds over several steps, because `recv` blocks inside it. The `send`
of the sender runs under it too, as one step: `select` has found room for the
message. `owner`
is the operating system's: the connection an open descriptor belongs to; the
lowest free descriptor is given again. A peer connects and closes; what it sends
is left out, since the parsing of requests is unfinished (`spMsg` is null).

## 4. Runs

| Run | Instance | States | Shows |
|---|---|---|---|
| `core` | three components, below | 886 709 | each of them by itself |
| `core_fair` | two components, below | 29 963 | the same, under fairness |
| `thread` | 1 caller, 3 OS threads | 30 605 | start, restart, first stop |
| `library` | eight components, below | 281 090 | each of them by itself |
| `thread_stop` | 1 caller, 2 OS threads | violation | a later stop returns too early |
| `thread_destroy` | 1 caller, 1 OS thread | violation | fields used after destruction |
| `timer_pool_in_callback` | 2 observers | violation | call of a timer that was just unregistered |
| `smart_ptr_once` | 2 threads, 2 copies | violation | two last releases |
| `singleton_order` | 2 threads, 3 types | violation | destroyed before what was built on it |
| `user_pool_free` | 3 threads, 2 pools | violation | `_fnFree` called before it is assigned |
| `fsm_tick` | the scheme of `core` | violation | the loop goes on over cleared timers |
| `fsm_handler` | the scheme of `core` | violation | a handler on a deleted state |

The runs `core` and `core_fair`, by `subject`:

| Subject | Instance | States | Properties |
|---|---|---|---|
| queue (`core`) | 2 producers x 2 pushes, 2 receivers | 26 900 | `FifoConservation`, `ImplementsChannel` |
| memory pool (`core`) | 4 regions, 2 cells each | 663 983 | `FreeListsExact`, `LiveInChunks`, `RegionsOnce` |
| state machine (`core`) | 3 states, 2 events and 2 timers, depth 2, 2 changes by handlers | 195 826 | `StatesOwned`, `HandlerAlive`, `TimersOfState`, `TickIntact`, `SuspendedSilent`, `RecursiveChangeKept` |
| queue (`core_fair`) | 2 producers x 3 pushes, 1 receiver | 18 770 | `SignalSound`, `NoLostWakeup`, `EventuallyDelivered` |
| timer pool (`core_fair`) | 3 observers, periods of 1 and 2 ticks | 11 193 | `HandlesValid`, `PeriodKept`, `CallsRegistered`, `EventuallyCalled`, `DestroyReturns` |

The `library` run, by `subject`:

| Subject | Instance | States | Properties |
|---|---|---|---|
| thread bundle | 2 threads, 2 OS threads each | 3 559 | `NothingLeft` |
| smart pointer | 3 threads, 4 copies | 2 070 | `AliveWhileHeld`, `NoLeak` |
| user pool | 3 threads, 2 pools | 39 279 | `PoolBound` |
| storage | 7 requests of 3 sizes | 1 200 | `BlocksSound` |
| singleton | 2 threads, 3 types, 2 longevities | 162 147 | `MadeOnce`, `UsedOutlivesUser`, `AllDestroyed`, `GreatestFirst`, `AnswersEveryCall` |
| element | 3 names, 2 keys, 3 children, 2 stored | 1 163 | `ChildrenSound`, `StoredAgain` |
| table | 3 columns, 3 rows | 31 680 | `StatusWithNotifications`, `WalkComplete` |
| agent | 2 descriptors, 2 connections and one more at stop, 2 messages | 39 992 | `TableMatchesSockets`, `SentToOwner`, `StopReturns` |

**Bounds and why they are enough.** `MaxPush` 3 lets a queue go empty, refill
while a receiver is between its steps, and grow past one element. Three OS
threads let a token that one run left be taken by the next and the effect be
seen by a third. Two periods let timers be due together and apart; three
observers let one come, one go and one stay within a tick. Four regions let
the list of chunks have a first, a middle, a last and a popped element at once;
two cells let a chunk be full, in use and free. `ByteMax` 2 with chunks of
three cells' size makes the byte the limit of the number of cells. In the state
machine two changes by handlers (`MaxSwitches` 2) are one away and one back, or the
two that delete a handler's object; an event that a handler processes may change
the state as well. Two OS threads for each thread of a bundle are a first run and
one whose stop can find the token of the first. Five objects are one more than can be in use: the two of the machine and one
for each frame (`ObjectsAssumption`). Three types of singletons let one ask for another in its constructor and for
a third, which nobody has made, in its destructor. The vector of `storage` grows
twice, once within a chunk and once into a new one. A name of the element map is
mandatory and keyed, one only mandatory, one only keyed. The rows of the table
are removed one by one, by a common prefix and all; a column is not readable.
Two descriptors for three connections make the system use one again.

**Deadlock** is not checked where the program may rest: each component of `core`,
`core_fair` and `library` stops at its own bounds, a destroyed machine does
nothing, nobody has to push to a queue, two receivers can block each other (no
document promises several), nobody has to call a thread, and when all copies of a
pointer are gone nothing is left to do. That nobody waits for ever who should not
is said by the liveness properties and, for the receiver, by `SignalSound` and
`NoLostWakeup`.

**Fairness.** `MsgQueue`: a producer inside `push` goes on and the receiver
calls `get` in a loop, as every user does. `Thread`: the OS runs every thread,
a call that has begun goes on; `run` of the owner need only end once
`isTerminating()` holds. `TimerPool`: the pool thread runs and callbacks return
(`sem_timedwait` ends), and `destroy`, once called, goes on. `Singleton`: threads run.
`XmlAgent`: its threads run, somebody connects while `accept` waits, and peers
close in the end; without the last two `stop` need not return, as both calls
block. No fairness is assumed of a lock: weak fairness of each thread suffices in
the runs checked.

**Mutants.** Each property is broken by a small mistake in the model of the
code (operators marked "Mistake"), which shows that it depends on the code.

## 5. What the runs found

* `thread_stop`: `threadLoop` posts `_finishEvent` after a failed
  `onInitialize`, but `wait` does not take it once `_id` is cleared; the next
  run is then "stopped" while it runs. The same happens when a run clears `_id`
  between `terminate()` and the test in `wait`. An object started once is safe
  (`FirstStopMeansStopped`).
* `thread_destroy`: stop and destroy races with the last writes of the thread.
* `timer_pool_in_callback`: a callback that unregisters another timer due in
  the same tick does not prevent its call. If every callback unregisters only
  itself, `CallsRegistered` holds.
* `smart_ptr_once`: both of two concurrent releases may be "the last".
* `singleton_order`: a singleton that is already visible, but whose destruction is
  not yet scheduled, is used by the constructor of another one on a second
  thread; it is then destroyed first. Where one thread has made both the order holds
  (`UsedOutlivesUser`) under `RankedAtEnd`.
* Without a run: without `RankedAtEnd` it does not. When the destructor of `trace`
  asks for `timers`, which nobody has made and whose constructor asks for `trace`,
  then `timers` is built on an object that is being destroyed and outlives it; the
  code sets `_destroyed` only after the destructor has run.
* Without a run, read off the code: `thread_bundle` stops threads in the order
  in which it started them, as both loops go from the back, where `thread.h`
  speaks of a stack.
* `fsm_handler`: the second change of state under one call of `process` deletes
  the object its handler runs on, because only one previous state is kept
  (`HandlerSafe`). Any two changes do: by `switchState` of the handler or by the
  transition of an event it processes. `onCloseInd` of the tests can make two (`switchState`, then `process`); it does not touch its object
  after them. Until the second change the object lives (`HandlerAlive`).
* `fsm_tick`: the loop over the timers asks whether the id of the state is another
  one (`fsm.h:372`). Two changes under one timeout that return to the same id have
  cleared the timers all the same, and the loop goes on with an iterator into them
  (`TickStopsOnChange`). This is the only case (`TickIntact`).
* `user_pool_free`: `bind` assigns `_fnAlloc` before `_fnFree`. A thread that
  allocates in between and frees at once calls `_fnFree` while it is 0; the assert
  of `user_mempool.h:46` says that it is not.
* Without a run: an entry of a scheme that has only conditions, all of them false,
  leads to state 0, the value `newStateId` starts with.
* Without a run: what `thread_stop` shows reaches bundles. The stop of a bundle, or
  the one after its failed start, can leave running an object that had an OS thread
  before; `NothingLeft` claims the others.
* Without a run: a period below `tickCost` never fires. `PeriodKept` with
  `Delays = {5, 10}` shows it.
* Without a run: the assert at `user_mempool.cpp:43` fails when two threads
  allocate first, and two binds of different pools may leave one function of
  each; a default bind of `user_tracer` that has begun may overwrite the one of
  the program in the same way.
* Without a run: a request of the vector of chunks above 16 KB is served from a
  chunk that is too small (`service_mempool.cpp:138`); `BlocksSound` is claimed up
  to there.
* Without a run: `fdSet` is older than the lock (`xml_agent.cpp:323`). A descriptor
  that was closed and used again in between is read although nothing came, and
  `recv` blocks with the lock held. `stop` waits in `accept` for one more peer.
* Without a run: `fromStorage` appends to the keys it already has when a node is
  loaded again (`element.cpp:337`); with notifications off the statuses of removed
  rows stay (`SnmpTable.cpp:206`).

## 6. Proofs

Each theorem holds for every value of the constants its module allows. Nothing
but the named assumptions of the modules is used, except where a hypothesis is
given below.

**`MsgQueueProofs`**

* `TypeCorrect`: `Spec => []TypeOK`.
* `Conservation`: `Spec => []FifoConservation`, with any number of receivers.
  By itself it is not inductive: that the element `pop` removes is the one that
  `front` copied needs the lock. The invariant `Inv` is `TypeOK` with `LockInv`
  (a thread between lock and unlock is the owner), `DataInv` (a receiver about
  to pop holds a copy of the head; the queue is not empty between the test and
  the pop), `LifeInv` (after destruction nothing is queued and nobody is
  inside; before it nothing is cleaned) and `BoundInv` (who is about to append
  has pushes left).
* `OneReceiver` and `ReceiverIsWoken`: if there is exactly one consumer,
  `SignalSound` (no spurious empty exception, no block under the lock, at most one
  token) and `NoLostWakeup` hold always. The strengthening `SignalInv` says where
  the one signal is: the flag is up exactly while the token is in the semaphore or
  on its way between two statements.
* `Implementation`: `Spec => ImplementsChannel`; each step is `Put`, `Take`,
  `Discard` or a stutter of the channel.

**`TimerPoolProofs`**

* `IdsStayValid`: `HandlesValid`. Its converse, `EntryOwned` (an entry in use
  belongs to the observer that has its id), makes it inductive. A free id exists
  because the entries in use have different owners, none of which is the one that
  registers: were all in use, the pigeonhole theorem of the library would give
  two of them one owner.
* `TimersDue`: `PeriodKept`, if every period is at least one tick and fits into a
  counter (`PeriodsFit`). `CountersInv`: what an observer has waited and what its
  counter has left make up its period in ticks, and a counter that is not 0 does
  not wrap.
* `OnlyRegisteredCalled`: `CallsRegistered`, if callbacks unregister no timer but
  their own (`~UnregisterOthers`; section 5 has the run without it). `FiredInv`:
  each call still to be made in a tick is for a timer that is registered under its
  id, the observers of these calls differ from each other, and none is the one
  being called, so that what it unregisters is none of them. That the ids of a tick
  differ and `EntryOwned` give the invariant at its start.

**`ThreadProofs`**. `TypesKept` holds for any callers; it needs that each release
of a semaphore is one run's (`CountInv`). The other three assume one caller
(`OneCaller`), as the class does: `StartTellsTheTruth` (`StartTruthful`),
`OneRunAtATime` (`OneRun`) and `FirstStopStops` (`FirstStopMeansStopped`). An OS
thread owns the object from its creation until it has cleared `_id`. `OwnerInv`:
there is one owner, and one that has not yet released `_startUpEvent` is the
youngest thread. `CallInv`: that event is released exactly for the `start` that
waits, and a `start` past its test finds no owner. `IdInv`: `_id` names the owner.
`ResultInv`: `_result` tells about the youngest thread. `FirstInv`: before the
second run, a token in `_finishEvent` means that nobody owns the object; what
`thread_stop` violates is this, for later runs.

**`QuarkProofs`**, a section for each of four components.

* `AllOrNothing`: `NothingLeft`. `TokensInv`: each token is one run's, and a run in
  progress has none yet, so that the stop of an object's first run finds no token and
  waits for its end. With it, `LoopInv` says that in a loop of `stop` every attached
  thread that is in its first run is still to be visited, and `AnswerInv` that there
  is no answer before the loop is over.
* `PoolIsBound`: `PoolBound`. `_fnAlloc` is assigned first (`AllocInv`), and who
  binds or frees has something to bind or free (`BindInv`). `OneBind`: as long as no
  two calls of `bind` were past the test together, at most one is past it, it is the
  only one ever, and all blocks are of its pool.
* `BlocksGivenOnce`: `BlocksSound`. `ChunksInv`: the current chunk is one of the ordinary
  size, with no more left than that. `GivenInv` says that a block of the current chunk lies before what
  remains, so that the next one is apart from all; `ServiceInv` is the same for the
  chunk of the service storage, while the vector of chunks fits into it.
* `NoCellGivenTwice` (`FreeListsExact`), `FreeFindsTheChunk` (`LiveInChunks`),
  `EveryRegionPlaced` (`RegionsOnce`) and `CountsFitAByte` (`TypeOK`) of the memory
  pool, from one invariant `CellsInv`. Its part `Kept` is about the chunks in use:
  they have different memory, every live cell is in one of them, and the list of
  free cells of each is `Exact`, which adds to `FreeListsExact` that the byte of a
  free cell holds a number. `Places` is about the regions. A call is put together
  from lemmas on `Kept`: a chunk is replaced by one with the same memory
  (`KeptReplace`), the last one is dropped if it is free, because a list of all
  cells leaves none to a client (`CellsBound`, `KeptDrop`), two change places
  (`KeptSwap`), one is pushed behind the last in use (`KeptPush`).

**`NucleonProofs`**

* `PointeeAlive` and `PointeeDeleted` of the smart pointer. `CountInv`: while the
  counter is there it equals the number of copies. `LiveInv`: as long as there is a
  copy nobody has freed, or is about to free, anything. `DeleterInv`: after the
  last copy somebody is on its way to delete the object. The set of copies is
  finite.
* For every scheme of an `Fsm`: `NoStateLeaks` (`StatesOwned`), `TimersFollow`
  (`TimersOfState`), `SuspendedStaysSilent` (`SuspendedSilent`) and
  `HandlersChangeKept` (`RecursiveChangeKept`), from `OwnInv`, the types with what
  the machine owns. That there is a free address for a new state is
  `ObjectsAssumption` with a bound on the addresses in use.
* `HandlersRunOnLiveStates` (`HandlerAlive`) and `LoopSeesChanges` (`TickIntact`),
  for every scheme, any depth and any number of changes. `FramesInv`: under a
  frame without a change the current object is its own, after one change the
  previous one is. `LoopInv`: a tick without a change is in the state it began in,
  and after exactly one change in another one, which is what the code compares.

**`SingletonProofs`**

* `CreatedOnce`: `MadeOnce`, whatever constructors and destructors ask for.
  `LockInv`: a call between lock and unlock has the lock of its class, and the stack
  of its thread holds no second such call for the same class. `CreateInv`: what such
  a call is to make has not been made. `MadeInv`: what has been made is there or
  destroyed. The locks of the code are recursive; that a thread does not ask for a
  singleton inside its own constructor, where the second call would pass the lock,
  is `UsesAssumption`, and in the model such a call waits.
* `GreatestLongevityFirst`: `GreatestFirst`, as the array of trackers is sorted by
  longevity and then by age (`SortedInv`). That `upper_bound` finds a place needs
  that a nonempty set of numbers has a least element (`LeastOf`, below).
* `ExitLeavesNone`: `AllDestroyed`. `StackInv`: only constructors and destructors
  are interrupted, and a destructor is the lowest call of the thread that exits.
  `EndInv`: between its construction and its destruction a singleton is known to
  `atexit` exactly once, or is just about to be given to it, or is just being
  destroyed. `TrackInv` counts the trackers.
* `UsedIsDestroyedLater`: `UsedOutlivesUser`, under the hypothesis `RankedAtEnd`.
  `RankInv`: calls inside one another are for ever smaller ranks. `AskedInv`: what a
  constructor under way needs is still to be asked for, is being asked for or is
  there. `OrderInv`: what an object was built with by the same thread was given to
  `atexit` before it.

**`ManagementProofs`**

* `StatusFollowsRows`: `StatusWithNotifications`, in every state, reachable or not,
  that has the type of the table.
* `WalkReadsAll`: `WalkComplete`. It rests on `Less` being a strict total order of
  names (irreflexive, transitive, total), which needs the first place at which
  two names differ. That a nonempty set of numbers has a least element is itself
  proved: without one, the successor would map the finite set of the numbers
  below all of it into itself without 0, one to one, against the pigeonhole
  theorem.
* `ListAndHashAgree`: `ChildrenSound`, from the invariant `TreeOK`, which says the
  same of any tree, those between two steps of a fold included, and that there are
  as many objects as places. Lists are built by folds, of which the library says
  only that a function with the defining equation is chosen: `IterExists` proves
  that there is one, and `Goes` turns it into a chain of steps, along which
  `TreeOK` is carried by induction on the set of the numbers that have been reached
  (`UpTo`, from the least number that has not). That `new` finds an unused object
  is the pigeonhole theorem again.
* `LoadStoresAgain`: `StoredAgain`. `Loading` is the invariant of the fold of
  `fromStorage`: the list is the placeholders of the mandatory names that have not
  been loaded, in their order, followed by the loaded children, in theirs. It rests
  on how `Without` commutes with `Append`, with concatenation, with itself and with
  the passage from objects to names (`WithoutAppend`, `WithoutConcat`,
  `WithoutTwice`, `WithoutImage`).

**`XmlAgentProofs`**, one invariant `AgentInv` for three results: `SocketsKnown`
(`TableMatchesSockets`), `OwnConnection` (`SentToOwner`) and `NobodyUsesCleared`
(`QuietWhenCleared`: the connections are destroyed when the receiver and the
sender have ended). `TableOwned` and `OwnersKnown` are the two directions of the
agreement of table and sockets, `AcceptedInv` and `NumberInv` what is between
`accept` and `add`, `StopOrder` the order in which `stop` goes on.

Only model-checked:

* liveness (`EventuallyDelivered`, `CallsReturn`, `EventuallyCalled`,
  `DestroyReturns`, `AnswersEveryCall`, `StopReturns`), which is out of the
  prover's reach.

## 7. What is not modelled, and why

Most of the repository's 97 000 lines are not fridmon's own: expat (twice), the
Epilogue agent and `bimap.h` are third-party code, and much of the rest is
wrappers of system calls, formats, templates resolved by the compiler, Windows
and VxWorks branches and tests. The modules cover the own code that keeps state
across calls; the vendored parsers and protocol stacks are left to their authors,
so that the share of all lines that is modelled stays small.

Components with status `not_modelled` in `PROJECT.json` carry the reason there.
Within the modelled ones: names, priorities, affinities and unexpected handlers
of threads; exceptions thrown by `run` or by callbacks (the code aborts or
asserts); failures of the OS calls other than `pthread_create`; exhaustion of
memory; the use of a queue or a thread during its own destructor; two callers
that start or stop one thread at once (`Thread` allows several `Callers`, but
the class promises nothing for them); sizes of objects that round to other
buckets; the destruction of the memory pool at exit; constructors of states
that throw, and the expansion of base transitions by `dynamic_fsm`; constructors
of singletons that throw, the lifetimes other than the default and the array of
longevities used by several threads; the attributes of elements, INI files and
the text of XML; the values of SNMP leaves; requests and answers of the agent.
