----------------------------- MODULE Singleton -----------------------------
(***************************************************************************)
(* quark::singleton_holder with class_level_lockable and default_lifetime,  *)
(* and setLongevity (quark/singleton.h, singleton.cpp).  Threads ask for    *)
(* singletons whose constructors and destructors ask for others; at exit    *)
(* the thread Main runs what was given to atexit, the last one first.       *)
(* Main and the other threads are callers; the others have returned when    *)
(* exit begins.                                                             *)
(***************************************************************************)
EXTENDS Naturals, Sequences, FiniteSets, SequencesExt

CONSTANTS
    Clients,        \* threads
    Main,           \* the one that calls exit
    Types,          \* holdee types
    Uses,           \* Uses[t]: the singletons a constructor of t asks for, in order
    UsesAtEnd,      \* UsesAtEnd[t]: those its destructor asks for
    MaxTracked,     \* bound on the objects given to setLongevity
    Longevities,    \* what they may be given
    NoClient

\* Constructors do not wait for each other in a circle.
ASSUME UsesAssumption ==
    /\ Main \in Clients /\ NoClient \notin Clients /\ Main \notin Types
    /\ MaxTracked \in Nat
    /\ Uses \in [Types -> Seq(Types)] /\ UsesAtEnd \in [Types -> Seq(Types)]
    /\ Longevities \subseteq Nat
    /\ \E rank \in [Types -> 1 .. Cardinality(Types)] :
          \A t \in Types : \A i \in DOMAIN Uses[t] : rank[Uses[t][i]] < rank[t]

VARIABLES instances,     \* the types with _pInstance # 0
          destroyed,     \* the types with _destroyed
          made,          \* made[t]: the threads that have constructed a t
          mutex,         \* mutex[t]: owner of the lock of class_level_lockable<t>
          calls,         \* calls[c]: the calls under way, the innermost last
          trackers,      \* pTrackerArray: objects with their longevities
          atExit,        \* what atexit has been given
          tracked,       \* how many objects were given to it; they are numbered
          phase          \* "run", "exit" or "terminated"

holderVars == <<instances, destroyed, made, mutex, calls, trackers, atExit, tracked, phase>>

HolderInit == /\ instances = {} /\ destroyed = {} /\ made = [t \in Types |-> <<>>]
              /\ mutex = [t \in Types |-> NoClient]
              /\ calls = [c \in Clients |-> <<>>]
              /\ trackers = <<>> /\ atExit = <<>> /\ tracked = 0 /\ phase = "run"

Call(t, pc, todo) == [type |-> t, pc |-> pc, todo |-> todo]
At(c, pc) == calls[c] # <<>> /\ Last(calls[c]).pc = pc
Asked(c) == Last(calls[c]).type
Goto(c, pc) == calls' = [calls EXCEPT ![c] = Front(@) \o <<[Last(@) EXCEPT !.pc = pc]>>]
Returns(c) == calls' = [calls EXCEPT ![c] = Front(@)]

\* A constructor or destructor asks for the next singleton of its list.
AsksNext(c) ==
    LET f == Last(calls[c]) IN
    /\ f.todo # <<>>
    /\ calls' = [calls EXCEPT ![c] = Front(@) \o
          << [f EXCEPT !.todo = Tail(@)], Call(Head(f.todo), "test", <<>>) >>]

\* instance, called by a client; after the beginning of exit only by what Main
\* runs between two functions of atexit.
Instance(c, t) ==
    /\ calls[c] = <<>>
    /\ \/ phase = "run"
       \/ phase = "exit" /\ c = Main /\ atExit # <<>>
    /\ calls' = [calls EXCEPT ![c] = <<Call(t, "test", <<>>)>>]
    /\ UNCHANGED <<instances, destroyed, made, mutex, trackers, atExit, tracked, phase>>

\* if (!_pInstance), without the lock
Test(c) ==
    /\ At(c, "test")
    /\ IF Asked(c) \in instances THEN Returns(c) ELSE Goto(c, "lock")
    /\ UNCHANGED <<instances, destroyed, made, mutex, trackers, atExit, tracked, phase>>

LockClass(c) ==
    /\ At(c, "lock") /\ mutex[Asked(c)] = NoClient
    /\ mutex' = [mutex EXCEPT ![Asked(c)] = c]
    /\ Goto(c, "again")
    /\ UNCHANGED <<instances, destroyed, made, trackers, atExit, tracked, phase>>

\* Mistake: the pointer is tested once only.
TestOnce(c) ==
    /\ At(c, "again")
    /\ Asked(c) \notin destroyed
    /\ calls' = [calls EXCEPT ![c] = Front(@) \o
          <<Call(Asked(c), "create", Uses[Asked(c)])>>]
    /\ UNCHANGED <<instances, destroyed, made, mutex, trackers, atExit, tracked, phase>>

\* if (!_pInstance), with the lock
TestAgain(c) ==
    /\ At(c, "again")
    /\ Asked(c) \notin instances => Asked(c) \notin destroyed
    /\ calls' = [calls EXCEPT ![c] = Front(@) \o
          << IF Asked(c) \in instances THEN [Last(@) EXCEPT !.pc = "unlock"]
             ELSE Call(Asked(c), "create", Uses[Asked(c)]) >>]
    /\ UNCHANGED <<instances, destroyed, made, mutex, trackers, atExit, tracked, phase>>

\* onDeadReference throws through every call under way, which lets go its locks;
\* out of a destructor that exit has called, the exception ends the process.
DeadReference(c) ==
    /\ At(c, "again") /\ Asked(c) \notin instances /\ Asked(c) \in destroyed
    /\ mutex' = [t \in Types |-> IF mutex[t] = c THEN NoClient ELSE mutex[t]]
    /\ calls' = [calls EXCEPT ![c] = <<>>]
    /\ phase' = IF calls[c][1].pc = "destroy" THEN "terminated" ELSE phase
    /\ UNCHANGED <<instances, destroyed, made, trackers, atExit, tracked>>

Constructs(c) ==
    /\ At(c, "create") /\ AsksNext(c)
    /\ UNCHANGED <<instances, destroyed, made, mutex, trackers, atExit, tracked, phase>>

\* The constructor ends and _pInstance is assigned.
Constructed(c) ==
    /\ At(c, "create") /\ Last(calls[c]).todo = <<>>
    /\ made' = [made EXCEPT ![Asked(c)] = Append(@, c)]
    /\ instances' = instances \cup {Asked(c)}
    /\ Goto(c, "schedule")
    /\ UNCHANGED <<destroyed, mutex, trackers, atExit, tracked, phase>>

\* Mistake: destructions are queued.
ScheduleBehind(c) ==
    /\ At(c, "schedule")
    /\ atExit' = <<Asked(c)>> \o atExit
    /\ Goto(c, "unlock")
    /\ UNCHANGED <<instances, destroyed, made, mutex, trackers, tracked, phase>>

\* Mistake: nothing is scheduled for a singleton made during exit.
ScheduleBeforeExit(c) ==
    /\ At(c, "schedule")
    /\ atExit' = IF phase = "exit" THEN atExit ELSE Append(atExit, Asked(c))
    /\ Goto(c, "unlock")
    /\ UNCHANGED <<instances, destroyed, made, mutex, trackers, tracked, phase>>

\* scheduleDestruction of default_lifetime
Schedule(c) ==
    /\ At(c, "schedule")
    /\ atExit' = Append(atExit, Asked(c))
    /\ Goto(c, "unlock")
    /\ UNCHANGED <<instances, destroyed, made, mutex, trackers, tracked, phase>>

\* Mistake: the lock is let go only by the call that made the object.
UnlockMaker(c) ==
    /\ At(c, "unlock")
    /\ mutex' = [mutex EXCEPT ![Asked(c)] = IF Len(calls[c]) > 1 THEN @ ELSE NoClient]
    /\ Returns(c)
    /\ UNCHANGED <<instances, destroyed, made, trackers, atExit, tracked, phase>>

UnlockClass(c) ==
    /\ At(c, "unlock")
    /\ mutex' = [mutex EXCEPT ![Asked(c)] = NoClient]
    /\ Returns(c)
    /\ UNCHANGED <<instances, destroyed, made, trackers, atExit, tracked, phase>>

\* Mistake: lower_bound
LowerBound(n) ==
    CHOOSE k \in 1 .. Len(trackers) + 1 :
       /\ k <= Len(trackers) => n <= trackers[k].longevity
       /\ \A j \in 1 .. k - 1 : trackers[j].longevity < n

\* upper_bound, for trackers in ascending order
UpperBound(n) ==
    CHOOSE k \in 1 .. Len(trackers) + 1 :
       /\ k <= Len(trackers) => n < trackers[k].longevity
       /\ \A j \in 1 .. k - 1 : trackers[j].longevity <= n

\* setLongevity has no lock: its callers are one thread.
SetLongevity(n) ==
    /\ calls[Main] = <<>> /\ phase = "run" /\ tracked < MaxTracked
    /\ trackers' = InsertAt(trackers, UpperBound(n), [object |-> tracked, longevity |-> n])
    /\ tracked' = tracked + 1
    /\ atExit' = Append(atExit, Main)        \* atexit(atExitFn)
    /\ UNCHANGED <<instances, destroyed, made, mutex, calls, phase>>

Exit ==
    /\ phase = "run" /\ \A c \in Clients : calls[c] = <<>>
    /\ phase' = "exit"
    /\ UNCHANGED <<instances, destroyed, made, mutex, calls, trackers, atExit, tracked>>

\* exit calls the function that atexit was given last ...
ExitCalls(f) ==
    /\ phase = "exit" /\ calls[Main] = <<>> /\ atExit # <<>> /\ Last(atExit) = f
    /\ atExit' = Front(atExit)

\* ... destroySingleton, or atExitFn, which takes the tracker at the top.
DestroySingleton(t) ==
    /\ ExitCalls(t)
    /\ calls' = [calls EXCEPT ![Main] = <<Call(t, "destroy", UsesAtEnd[t])>>]
    /\ UNCHANGED <<instances, destroyed, made, mutex, trackers, tracked, phase>>

AtExitFn ==
    /\ ExitCalls(Main)
    /\ trackers' = Front(trackers)
    /\ UNCHANGED <<instances, destroyed, made, mutex, calls, tracked, phase>>

Destructs(c) ==
    /\ At(c, "destroy") /\ AsksNext(c)
    /\ UNCHANGED <<instances, destroyed, made, mutex, trackers, atExit, tracked, phase>>

Destructed(c) ==
    /\ At(c, "destroy") /\ Last(calls[c]).todo = <<>>
    /\ instances' = instances \ {Asked(c)}
    /\ destroyed' = destroyed \cup {Asked(c)}
    /\ Returns(c)
    /\ UNCHANGED <<made, mutex, trackers, atExit, tracked, phase>>

Proceeds(c) == \/ Test(c) \/ LockClass(c) \/ TestAgain(c) \/ DeadReference(c)
              \/ Constructs(c) \/ Constructed(c) \/ Schedule(c) \/ UnlockClass(c)
              \/ Destructs(c) \/ Destructed(c)

HolderNext == \/ \E c \in Clients : Proceeds(c) \/ \E t \in Types : Instance(c, t)
              \/ \E n \in Longevities : SetLongevity(n)
              \/ Exit \/ AtExitFn
              \/ \E t \in Types : DestroySingleton(t)

\* Threads run.
HolderFairness == \A c \in Clients : WF_holderVars(Proceeds(c))

HolderSpec == HolderInit /\ [][HolderNext]_holderVars /\ HolderFairness
-----------------------------------------------------------------------------
Ended == phase = "exit" /\ atExit = <<>> /\ calls[Main] = <<>>

\* A singleton is made once, however many threads ask for it at once; it is not
\* made again after its destruction.
MadeOnce == \A t \in Types : Len(made[t]) <= 1

\* No destructor asks, itself or through the constructors it causes to run, for a
\* singleton that uses its own.
RankedAtEnd ==
    \E rank \in [Types -> 1 .. Cardinality(Types)] :
       \A t \in Types :
          /\ \A i \in DOMAIN Uses[t] : rank[Uses[t][i]] < rank[t]
          /\ \A i \in DOMAIN UsesAtEnd[t] : rank[UsesAtEnd[t][i]] < rank[t]

\* What a constructor asked for lives as long as its object, where one thread has
\* made both (RankedAtEnd: a destructor may otherwise make an object that uses the
\* one that is being destroyed).
UsedOutlivesUser ==
    \A t \in instances : \A u \in ToSet(Uses[t]) :
        u \in instances \/ made[u] # made[t]

\* "Schedules an object's destruction as per C++ rules" (singleton.h): objects are
\* destroyed in the reverse order of their construction, whoever made them.
ReverseOfConstruction ==
    \A t \in instances : \A u \in ToSet(Uses[t]) : u \in instances

\* assert(!_destroyed) and assert(elements > 0): every function given to atexit
\* finds the object it is to destroy, and when they have all run none is left,
\* those made during exit included.
AllDestroyed ==
    /\ \A i \in DOMAIN atExit : atExit[i] \notin destroyed
    /\ Len(trackers) = Cardinality({i \in DOMAIN atExit : atExit[i] = Main})
    /\ Ended => instances = {}

\* "Ensures ordered destructions of objects registered thusly" (singleton.h): the
\* object destroyed is of the greatest longevity there is, and of those the
\* youngest.
GreatestFirst ==
    [][AtExitFn => LET top == Last(trackers) IN
          \A p \in ToSet(Front(trackers)) :
             \/ p.longevity < top.longevity
             \/ /\ p.longevity = top.longevity
                /\ p.object < top.object]_holderVars

\* Every call of instance returns or throws: constructors that ask for each other
\* on several threads do not block each other for ever.
AnswersEveryCall == \A c \in Clients : (calls[c] # <<>>) ~> (calls[c] = <<>>)
=============================================================================
