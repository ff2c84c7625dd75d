--------------------------- MODULE TimerPoolProofs ---------------------------
(***************************************************************************)
(* Proofs about TimerPool, for any number of observers, any tick and any    *)
(* periods the counters can hold: an id names one timer, every timer is due *)
(* in time, and only registered timers are called.                          *)
(***************************************************************************)
EXTENDS TimerPool, FiniteSetTheorems, TLAPS

\* What _timers and the ids given out say of each other.
EntriesOK == /\ timers \in [Ids -> Entry \cup {NoTimer}]
             /\ handle \in [Observers -> Ids \cup {0}]
EntryOwned == \A i \in Registered : handle[timers[i].observer] = i
HandlesInv == EntriesOK /\ EntryOwned /\ HandlesValid

LEMMA HandlesInitInv == TimersInit => HandlesInv
BY DEF TimersInit, HandlesInv, EntriesOK, EntryOwned, HandlesValid, Registered

LEMMA IdsFinite == Cardinality(Observers) \in Nat /\ IsFiniteSet(Ids)
                   /\ Cardinality(Ids) = Cardinality(Observers)
<1>1. Cardinality(Observers) \in Nat
  BY ObserversAssumption, FS_CardinalityType
<1>2. /\ IsFiniteSet(1 .. Cardinality(Observers))
      /\ Cardinality(1 .. Cardinality(Observers))
            = IF 1 > Cardinality(Observers) THEN 0 ELSE Cardinality(Observers) - 1 + 1
  <2>1. 1 \in Int /\ Cardinality(Observers) \in Int
    BY <1>1
  <2> QED
    BY <2>1, FS_Interval
<1> QED
  BY <1>1, <1>2 DEF Ids

\* The numbers below all of T would be mapped by the successor, without two being
\* mapped to one, into themselves without 0, if T had no least element.
LEMMA LeastOf ==
  ASSUME NEW T, T \subseteq Nat, T # {}
  PROVE  Min(T) \in T
<1>1. \E k \in T : \A j \in T : k <= j
  <2> SUFFICES ASSUME \A k \in T : \E j \in T : j < k PROVE FALSE
    OBVIOUS
  <2> DEFINE Below == {n \in Nat : \A k \in T : n < k}
             next == [n \in Below |-> n + 1]
  <2>1. PICK t \in T : t \in Nat
    OBVIOUS
  <2>2. IsFiniteSet(Below)
    <3>1. Below \in SUBSET (0 .. t) /\ 0 \in Int /\ t \in Int
      BY <2>1
    <3>2. IsFiniteSet(0 .. t)
      BY <3>1, FS_Interval
    <3> HIDE DEF Below
    <3> QED
      BY <3>1, <3>2, FS_Subset
  <2>3. 0 \in Below
    <3>1. 0 \notin T
      OBVIOUS
    <3> QED
      BY <3>1
  <2>4. next \in [Below -> Below \ {0}]
    <3> SUFFICES ASSUME NEW n \in Below, NEW k \in T PROVE n + 1 < k
      OBVIOUS
    <3>1. PICK j \in T : j < k
      OBVIOUS
    <3> QED
      BY <3>1
  <2>5. IsFiniteSet(Below \ {0}) /\ Cardinality(Below \ {0}) < Cardinality(Below)
    <3> HIDE DEF Below
    <3>1. Cardinality(Below) \in Nat
      BY <2>2, FS_CardinalityType
    <3>2. Cardinality(Below \ {0}) = Cardinality(Below) - 1 /\ IsFiniteSet(Below \ {0})
      BY <2>2, <2>3, FS_RemoveElement
    <3> QED
      BY <3>1, <3>2
  <2>6. \E x, y \in Below : x # y /\ next[x] = next[y]
    <3> HIDE DEF Below, next
    <3> QED
      BY <2>2, <2>4, <2>5, FS_PigeonHole
  <2> QED
    BY <2>6
<1> QED
  BY <1>1 DEF Min

\* An observer without a timer finds a free id: those in use have owners, which
\* differ, and it is none of them.
LEMMA IdIsFree ==
  ASSUME HandlesInv, NEW o \in Observers, handle[o] = 0
  PROVE  NextFree \in Ids /\ NextFree \notin Registered
<1>1. Ids \ Registered # {}
  <2> SUFFICES ASSUME Registered = Ids PROVE FALSE
    BY DEF Registered
  <2> DEFINE owner == [i \in Ids |-> timers[i].observer]
             Owners == Observers \ {o}
  <2>1. ASSUME NEW i \in Ids PROVE owner[i] \in Owners /\ handle[owner[i]] = i
    <3>1. timers[i].observer \in Observers
      BY DEF HandlesInv, EntriesOK, Registered, Entry
    <3>2. handle[timers[i].observer] = i /\ i # 0
      BY DEF HandlesInv, EntryOwned, Ids
    <3> QED
      BY <3>1, <3>2
  <2>2. owner \in [Ids -> Owners]
    BY <2>1
  <2>3. IsFiniteSet(Owners) /\ Cardinality(Owners) = Cardinality(Observers) - 1
    BY ObserversAssumption, FS_RemoveElement
  <2>4. Cardinality(Owners) < Cardinality(Ids)
    BY <2>3, IdsFinite
  <2> HIDE DEF owner, Owners
  <2>5. \E x, y \in Ids : x # y /\ owner[x] = owner[y]
    BY <2>2, <2>3, <2>4, IdsFinite, FS_PigeonHole
  <2> QED
    BY <2>1, <2>5
<1>2. Ids \ Registered \subseteq Nat
  BY DEF Ids
<1>3. Min(Ids \ Registered) \in Ids \ Registered
  BY <1>1, <1>2, LeastOf
<1> QED
  BY <1>3 DEF NextFree

-----------------------------------------------------------------------------
\* The counters.

LEMMA ModBounds == \A n \in Nat : n % 2 ^ Width \in Wrapped
<1> DEFINE W == 2 ^ Width
<1>1. W \in Nat \ {0}
  BY TickAssumption
<1> HIDE DEF W
<1>2. \A n \in Nat : n % W \in 0 .. W - 1
  BY <1>1
<1> QED
  BY <1>2 DEF W, Wrapped

LEMMA DecrementedBounds == \A n \in Wrapped : Decremented(n) \in Wrapped
<1> DEFINE W == 2 ^ Width
<1>1. W \in Nat \ {0}
  BY TickAssumption
<1> HIDE DEF W
<1>2. \A n \in 0 .. W - 1 : n + W - 1 \in Nat
  BY <1>1
<1> QED
  BY <1>2, ModBounds DEF W, Wrapped, Decremented

\* ... which do not wrap as long as they are not 0.
LEMMA DecrementedIs == \A n \in Wrapped : n # 0 => Decremented(n) = n - 1
<1> DEFINE W == 2 ^ Width
<1>1. W \in Nat \ {0}
  BY TickAssumption
<1> HIDE DEF W
<1>2. ASSUME NEW n \in 1 .. W - 1 PROVE (n + W - 1) % W = n - 1
  <2> DEFINE m == n - 1
  <2>1. m \in 0 .. W - 1 /\ n + W - 1 = 1 * W + m
    BY <1>1
  <2> HIDE DEF m
  <2>2. (1 * W + m) % W = m
    BY <1>1, <2>1
  <2> QED
    BY <2>1, <2>2 DEF m
<1>3. \A n \in 0 .. W - 1 : n # 0 => n \in 1 .. W - 1
  BY <1>1
<1> QED
  BY <1>2, <1>3 DEF W, Wrapped, Decremented

\* The periods asked for, in ticks, fit into a counter and are not 0.
PeriodsFit == \A d \in Delays : d \div TickCost \in 1 .. 2 ^ Width - 1

LEMMA TicksOfPeriod ==
  ASSUME PeriodsFit, NEW d \in Delays
  PROVE  /\ (d \div TickCost) % 2 ^ Width = d \div TickCost
         /\ d \div TickCost \in Wrapped \ {0}
<1> DEFINE W == 2 ^ Width
           n == d \div TickCost
<1>1. W \in Nat \ {0} /\ n \in 1 .. W - 1
  BY TickAssumption DEF PeriodsFit
<1> HIDE DEF W, n
<1>2. n % W = n /\ n \in 0 .. W - 1 /\ n # 0
  BY <1>1
<1> QED
  BY <1>2 DEF W, n, Wrapped

\* A period is at least its whole ticks.
LEMMA PeriodAtLeast ==
  ASSUME NEW d \in Delays, NEW a \in Nat, a < d \div TickCost
  PROVE  a * TickCost < d
<1> DEFINE q == d \div TickCost
<1>1. TickCost \in Nat \ {0} /\ d \in Nat
  BY TickAssumption
<1>2. q \in Nat /\ q * TickCost <= d
  BY <1>1
<1> HIDE DEF q
<1>3. a + 1 <= q
  BY <1>2 DEF q
<1>4. (a + 1) * TickCost <= q * TickCost
  BY <1>1, <1>2, <1>3
<1>5. a * TickCost + TickCost = (a + 1) * TickCost
  BY <1>1
<1> QED
  BY <1>1, <1>2, <1>4, <1>5

-----------------------------------------------------------------------------
\* The steps.  A counter has counted down what its observer has waited.
CountersInv ==
    /\ age \in [Observers -> Nat]
    /\ \A i \in Registered : LET e == timers[i] IN
          /\ e.tickCount = e.delay \div TickCost
          /\ e.curTickCount \in 1 .. e.tickCount
          /\ age[e.observer] + e.curTickCount = e.tickCount

LEMMA RegisterInv ==
  ASSUME HandlesInv, NEW o \in Observers, NEW d \in Delays, RegisterTimer(o, d)
  PROVE  HandlesInv' /\ (PeriodsFit /\ CountersInv => CountersInv')
<1> DEFINE id == NextFree
           n == (d \div TickCost) % 2 ^ Width
           e == [observer |-> o, delay |-> d, tickCount |-> n, curTickCount |-> n]
<1>1. /\ handle[o] = 0 /\ id \in Ids /\ id \notin Registered
      /\ timers' = [timers EXCEPT ![id] = e] /\ handle' = [handle EXCEPT ![o] = id]
      /\ age' = [age EXCEPT ![o] = 0]
  BY IdIsFree DEF RegisterTimer
<1>2. e \in Entry /\ e # NoTimer
  <2>1. d \div TickCost \in Nat
    BY TickAssumption
  <2>2. n \in Wrapped
    BY <2>1, ModBounds
  <2> HIDE DEF n
  <2> QED
    BY <2>2, NoTimerAssumption DEF Entry
<1>3. e.observer = o /\ e.delay = d /\ e.tickCount = n /\ e.curTickCount = n
  OBVIOUS
<1> HIDE DEF id, n, e
<1>4. /\ EntriesOK' /\ Registered' = Registered \cup {id} /\ timers'[id] = e
      /\ \A i \in Registered : timers'[i] = timers[i]
      /\ \A p \in Observers : handle'[p] = IF p = o THEN id ELSE handle[p]
  BY <1>1, <1>2 DEF HandlesInv, EntriesOK, Registered
<1>5. ASSUME NEW i \in Registered
      PROVE  /\ timers[i].observer \in Observers \ {o}
             /\ handle'[timers[i].observer] = i
  <2>1. timers[i].observer \in Observers
    BY DEF HandlesInv, EntriesOK, Registered, Entry
  <2>2. handle[timers[i].observer] = i /\ i # 0
    BY DEF HandlesInv, EntryOwned, Registered, Ids
  <2> QED
    BY <1>1, <1>4, <2>1, <2>2
<1>6. EntryOwned'
  BY <1>3, <1>4, <1>5 DEF EntryOwned
<1>7. HandlesValid'
  BY <1>3, <1>4 DEF HandlesValid, HandlesInv
<1>8. ASSUME PeriodsFit, CountersInv PROVE CountersInv'
  <2>1. n = d \div TickCost /\ n \in Nat /\ n \in 1 .. n
    <3>1. n = d \div TickCost /\ n \in Wrapped \ {0}
      BY <1>8, TicksOfPeriod DEF n
    <3> HIDE DEF n
    <3>2. Wrapped \ {0} \subseteq Nat \ {0}
      BY DEF Wrapped
    <3> QED
      BY <3>1, <3>2
  <2>2. age' \in [Observers -> Nat] /\ age'[o] = 0
        /\ \A p \in Observers \ {o} : age'[p] = age[p]
    BY <1>1, <1>8 DEF CountersInv
  <2> QED
    BY <1>3, <1>4, <1>5, <1>8, <2>1, <2>2 DEF CountersInv
<1> QED
  BY <1>4, <1>6, <1>7, <1>8 DEF HandlesInv

LEMMA UnregisterInv ==
  ASSUME HandlesInv, NEW o \in Observers, UnregisterTimer(o)
  PROVE  HandlesInv' /\ (CountersInv => CountersInv')
<1> DEFINE id == handle[o]
<1>1. /\ id \in Registered /\ timers[id].observer = o
      /\ timers' = [timers EXCEPT ![id] = NoTimer] /\ handle' = [handle EXCEPT ![o] = 0]
      /\ age' = [age EXCEPT ![o] = 0]
  BY DEF UnregisterTimer, HandlesInv, HandlesValid
<1>2. /\ EntriesOK' /\ Registered' = Registered \ {id}
      /\ \A i \in Registered \ {id} : timers'[i] = timers[i]
      /\ \A p \in Observers : handle'[p] = IF p = o THEN 0 ELSE handle[p]
  BY <1>1 DEF HandlesInv, EntriesOK, Registered
<1>3. ASSUME NEW i \in Registered \ {id}
      PROVE  /\ timers[i].observer \in Observers \ {o}
             /\ handle[timers[i].observer] = i
  BY <1>1 DEF HandlesInv, EntriesOK, EntryOwned, Registered, Entry
<1>4. EntryOwned'
  BY <1>2, <1>3 DEF EntryOwned
<1>5. HandlesValid'
  BY <1>1, <1>2 DEF HandlesValid, HandlesInv
<1>6. ASSUME CountersInv PROVE CountersInv'
  <2>1. age' \in [Observers -> Nat] /\ \A p \in Observers \ {o} : age'[p] = age[p]
    BY <1>1, <1>6 DEF CountersInv
  <2> QED
    BY <1>2, <1>3, <1>6, <2>1 DEF CountersInv
<1> QED
  BY <1>2, <1>4, <1>5, <1>6 DEF HandlesInv

LEMMA TickInv ==
  ASSUME HandlesInv, Tick
  PROVE  HandlesInv' /\ (CountersInv => CountersInv')
<1> DEFINE due == {i \in Registered : Due(i)}
           after(i) == IF i \in due THEN timers[i].tickCount
                                    ELSE Decremented(timers[i].curTickCount)
           counted(i) == [timers[i] EXCEPT !.curTickCount = after(i)]
<1>1. /\ handle' = handle
      /\ timers' = [i \in Ids |-> IF i \in Registered THEN counted(i) ELSE NoTimer]
      /\ age' = [p \in Observers |->
            IF handle[p] = 0 \/ handle[p] \in due THEN 0 ELSE age[p] + 1]
  BY DEF Tick
<1>2. ASSUME NEW i \in Registered
      PROVE  /\ timers[i] \in Entry /\ counted(i) \in Entry
             /\ counted(i).observer = timers[i].observer
             /\ counted(i).delay = timers[i].delay
             /\ counted(i).tickCount = timers[i].tickCount
             /\ counted(i).curTickCount = after(i)
  <2>1. timers[i] \in Entry
    BY DEF HandlesInv, EntriesOK, Registered
  <2>2. after(i) \in Wrapped
    BY <2>1, DecrementedBounds DEF Entry
  <2> HIDE DEF after
  <2> QED
    BY <2>1, <2>2 DEF Entry
<1> HIDE DEF after, counted, due
<1>3. /\ Registered' = Registered /\ EntriesOK'
      /\ \A i \in Registered : timers'[i] = counted(i)
  BY <1>1, <1>2, NoTimerAssumption DEF HandlesInv, EntriesOK, Registered
<1>4. EntryOwned' /\ HandlesValid'
  BY <1>1, <1>2, <1>3 DEF EntryOwned, HandlesValid, HandlesInv
<1>5. ASSUME CountersInv PROVE CountersInv'
  <2>1. age' \in [Observers -> Nat]
    BY <1>1, <1>5 DEF CountersInv
  <2> SUFFICES ASSUME NEW i \in Registered
               PROVE  LET e == timers'[i] IN
                      /\ e.tickCount = e.delay \div TickCost
                      /\ e.curTickCount \in 1 .. e.tickCount
                      /\ age'[e.observer] + e.curTickCount = e.tickCount
    BY <1>3, <2>1 DEF CountersInv
  <2> DEFINE o == timers[i].observer
             n == timers[i].tickCount
             m == timers[i].curTickCount
  <2>2. /\ n = timers[i].delay \div TickCost /\ m \in 1 .. n /\ age[o] + m = n
        /\ n \in Nat /\ m \in Wrapped /\ o \in Observers /\ handle[o] = i /\ i # 0
        /\ age[o] \in Nat
    <3>1. timers[i] \in Entry
      BY <1>2
    <3>2. n \in Nat /\ m \in Wrapped /\ o \in Observers
      BY <3>1 DEF Entry, Wrapped
    <3>3. handle[o] = i /\ i # 0
      BY DEF HandlesInv, EntryOwned, Registered, Ids
    <3> QED
      BY <1>5, <3>2, <3>3 DEF CountersInv
  <2>3. Decremented(m) = m - 1
    BY <2>2, DecrementedIs
  <2>4. /\ timers'[i] = counted(i) /\ counted(i).observer = o
        /\ counted(i).delay = timers[i].delay /\ counted(i).tickCount = n
        /\ counted(i).curTickCount = after(i)
    BY <1>2, <1>3
  <2>5. i \in due <=> m = 1
    BY <2>2, <2>3 DEF due, Due
  <2>6. CASE m = 1
    <3>1. after(i) = n /\ age'[o] = 0
      BY <1>1, <2>2, <2>5, <2>6 DEF after
    <3> QED
      BY <2>2, <2>4, <2>6, <3>1
  <2>7. CASE m # 1
    <3>1. after(i) = m - 1 /\ age'[o] = age[o] + 1
      BY <1>1, <2>2, <2>3, <2>5, <2>7 DEF after
    <3> QED
      BY <2>2, <2>4, <2>7, <3>1
  <2> QED
    BY <2>6, <2>7
<1> QED
  BY <1>1, <1>3, <1>4, <1>5 DEF HandlesInv

LEMMA PoolInductive ==
  ASSUME HandlesInv, [TimersNext]_timersVars
  PROVE  HandlesInv' /\ (PeriodsFit /\ CountersInv => CountersInv')
<1>1. ASSUME NEW o \in Observers, TimerClient(o) \/ Callback(o)
      PROVE  HandlesInv' /\ (PeriodsFit /\ CountersInv => CountersInv')
  BY <1>1, RegisterInv, UnregisterInv DEF TimerClient, Callback
<1>2. CASE Tick
  BY <1>2, TickInv
<1>3. CASE UNCHANGED <<timers, handle, age>>
  BY <1>3 DEF HandlesInv, EntriesOK, EntryOwned, HandlesValid, CountersInv, Registered
<1>4. CASE \/ RunCheck \/ RunWoken \/ FireNext \/ CallbackReturns \/ TickDone
           \/ DestroyPool \/ UNCHANGED timersVars
  BY <1>3, <1>4 DEF RunCheck, RunWoken, FireNext, CallbackReturns, TickDone, DestroyPool,
                    DestroyFlag, DestroyEvent, DestroyWaited, timersVars
<1> QED
  BY <1>1, <1>2, <1>4 DEF TimersNext, Pool

\* No registration takes over an id that is in use, whoever registers and
\* unregisters timers, in callbacks or outside.
THEOREM IdsStayValid == TimersSpec => []HandlesValid
<1>1. HandlesInv /\ [TimersNext]_timersVars => HandlesInv'
  BY PoolInductive
<1>2. HandlesInv => HandlesValid
  BY DEF HandlesInv
<1> QED
  BY <1>1, <1>2, HandlesInitInv, PTL DEF TimersSpec

\* Every timer is due in time, if the periods are whole ticks a counter can hold.
THEOREM TimersDue == ASSUME PeriodsFit PROVE TimersSpec => []PeriodKept
<1>1. TimersInit => HandlesInv /\ CountersInv
  BY HandlesInitInv DEF TimersInit, CountersInv, Registered
<1>2. (HandlesInv /\ CountersInv) /\ [TimersNext]_timersVars => (HandlesInv /\ CountersInv)'
  BY PoolInductive
<1>3. ASSUME HandlesInv, CountersInv PROVE PeriodKept
  <2> SUFFICES ASSUME NEW o \in Observers, handle[o] # 0
               PROVE  age[o] * TickCost < timers[handle[o]].delay
    BY DEF PeriodKept
  <2> DEFINE e == timers[handle[o]]
  <2>1. /\ handle[o] \in Registered /\ e.observer = o /\ e.delay \in Delays
        /\ e.tickCount \in Nat
    BY <1>3 DEF HandlesInv, HandlesValid, EntriesOK, Registered, Entry, Wrapped
  <2>2. age[o] \in Nat /\ age[o] < e.delay \div TickCost
    BY <1>3, <2>1 DEF CountersInv
  <2> QED
    BY <2>1, <2>2, PeriodAtLeast
<1> QED
  BY <1>1, <1>2, <1>3, PTL DEF TimersSpec

-----------------------------------------------------------------------------
\* The calls.  Those still to be made are for registered timers, of observers
\* that differ from each other and from the one being called.
FiredInv ==
    /\ fired \in Seq(Ids \X Observers)
    /\ ~InTick => fired = <<>>
    /\ \A k \in DOMAIN fired : handle[fired[k][2]] = fired[k][1]
    /\ \A j, k \in DOMAIN fired : j < k => fired[j][2] # fired[k][2]
    /\ phase = "call" => \A k \in DOMAIN fired : fired[k][2] # calling

LEMMA FiredInit == TimersInit => FiredInv
BY DEF TimersInit, FiredInv, InTick

LEMMA FiredIs ==
  ASSUME fired \in Seq(Ids \X Observers), NEW k \in DOMAIN fired
  PROVE  fired[k][1] \in Ids /\ fired[k][1] # 0 /\ fired[k][2] \in Observers
<1>1. fired[k] \in Ids \X Observers
  OBVIOUS
<1>2. 0 \notin Ids
  BY DEF Ids
<1> QED
  BY <1>1, <1>2

\* A change of the handles leaves the calls to be made alone if it is of none of
\* their observers.
LEMMA HandleChange ==
  ASSUME HandlesInv, FiredInv, NEW o \in Observers, NEW id,
         handle' = [handle EXCEPT ![o] = id], UNCHANGED <<fired, phase, calling>>,
         \A k \in DOMAIN fired : fired[k][2] # o
  PROVE  FiredInv'
<1>1. ASSUME NEW k \in DOMAIN fired PROVE handle'[fired[k][2]] = handle[fired[k][2]]
  BY FiredIs DEF HandlesInv, EntriesOK, FiredInv
<1> QED
  BY <1>1 DEF FiredInv, InTick

LEMMA RegisterFired ==
  ASSUME HandlesInv, FiredInv, NEW o \in Observers, NEW d \in Delays, RegisterTimer(o, d)
  PROVE  FiredInv'
<1>1. handle[o] = 0 /\ handle' = [handle EXCEPT ![o] = NextFree]
      /\ UNCHANGED <<fired, phase, calling>>
  BY DEF RegisterTimer
<1>2. \A k \in DOMAIN fired : fired[k][2] # o
  BY <1>1, FiredIs DEF FiredInv
<1> QED
  BY <1>1, <1>2, HandleChange

LEMMA UnregisterFired ==
  ASSUME HandlesInv, FiredInv, NEW o \in Observers, UnregisterTimer(o),
         ~InTick \/ (phase = "call" /\ o = calling)
  PROVE  FiredInv'
<1>1. handle' = [handle EXCEPT ![o] = 0] /\ UNCHANGED <<fired, phase, calling>>
  BY DEF UnregisterTimer
<1>2. \A k \in DOMAIN fired : fired[k][2] # o
  BY DEF FiredInv
<1> QED
  BY <1>1, <1>2, HandleChange

\* The owners of different entries differ.
LEMMA TickFired == ASSUME HandlesInv, Tick PROVE FiredInv'
<1> DEFINE due == {i \in Registered : Due(i)}
           n == Cardinality(due)
           entry(i) == <<i, timers[i].observer>>
<1>1. PICK ids \in [1 .. n -> due] :
         /\ \A j, k \in DOMAIN ids : j < k => ids[j] < ids[k]
         /\ fired' = [k \in DOMAIN ids |-> entry(ids[k])]
  BY DEF Tick, FireInOrder
<1>2. n \in Nat
  <2>1. due \in SUBSET Ids
    BY DEF Registered
  <2> HIDE DEF due
  <2> QED
    BY <2>1, IdsFinite, FS_Subset, FS_CardinalityType
<1>3. handle' = handle /\ phase' = "fire"
  BY DEF Tick
<1>4. ASSUME NEW i \in due
      PROVE  /\ i \in Ids /\ i \in Int /\ timers[i].observer \in Observers
             /\ handle[timers[i].observer] = i
  <2>1. i \in Registered /\ i \in Ids /\ i \in Int
    BY DEF Registered, Ids
  <2> QED
    BY <2>1 DEF HandlesInv, EntriesOK, EntryOwned, Registered, Entry
<1> HIDE DEF due, n
<1>5. /\ DOMAIN fired' = 1 .. n
      /\ \A k \in 1 .. n : /\ fired'[k] = entry(ids[k]) /\ ids[k] \in due
                           /\ fired'[k][1] = ids[k]
                           /\ fired'[k][2] = timers[ids[k]].observer
  BY <1>1
<1>6. fired' \in Seq(Ids \X Observers)
  <2>1. \A k \in 1 .. n : entry(ids[k]) \in Ids \X Observers
    BY <1>4, <1>5
  <2>2. fired' = [k \in 1 .. n |-> entry(ids[k])]
    BY <1>1
  <2> HIDE DEF entry
  <2>3. fired' \in [1 .. n -> Ids \X Observers]
    BY <2>1, <2>2
  <2> QED
    BY <1>2, <2>3
<1>7. \A k \in DOMAIN fired' : handle'[fired'[k][2]] = fired'[k][1]
  BY <1>3, <1>4, <1>5
<1>8. ASSUME NEW j \in DOMAIN fired', NEW k \in DOMAIN fired', j < k
      PROVE  fired'[j][2] # fired'[k][2]
  <2>1. ids[j] \in Int /\ ids[k] \in Int /\ ids[j] < ids[k]
    BY <1>1, <1>4, <1>5, <1>8
  <2> QED
    BY <1>4, <1>5, <2>1
<1> QED
  BY <1>3, <1>6, <1>7, <1>8 DEF FiredInv, InTick

\* The next call is taken off the calls to be made.
LEMMA FireFired ==
  ASSUME FiredInv, FireNext
  PROVE  FiredInv' /\ handle[calling'] = Head(fired)[1]
<1>1. /\ fired \in Seq(Ids \X Observers) /\ fired # <<>> /\ fired' = Tail(fired)
      /\ calling' = Head(fired)[2] /\ phase' = "call" /\ handle' = handle
  BY DEF FireNext, FiredInv
<1>2. /\ Head(fired) = fired[1] /\ 1 \in DOMAIN fired
      /\ fired' \in Seq(Ids \X Observers)
      /\ \A k \in DOMAIN fired' : /\ k \in Nat /\ k + 1 \in DOMAIN fired /\ 1 < k + 1
                                  /\ fired'[k] = fired[k + 1]
  BY <1>1
<1>3. \A j, k \in DOMAIN fired' : j < k => j + 1 < k + 1
  BY <1>2
<1> QED
  BY <1>1, <1>2, <1>3 DEF FiredInv, InTick

LEMMA FiredInductive ==
  ASSUME ~UnregisterOthers, HandlesInv, FiredInv, [TimersNext]_timersVars
  PROVE  FiredInv'
<1>1. ASSUME NEW o \in Observers, TimerClient(o) PROVE FiredInv'
  BY <1>1, RegisterFired, UnregisterFired DEF TimerClient
<1>2. ASSUME NEW o \in Observers, Callback(o) PROVE FiredInv'
  BY <1>2, RegisterFired, UnregisterFired DEF Callback
<1>3. CASE Tick
  BY <1>3, TickFired
<1>4. CASE FireNext
  BY <1>4, FireFired
<1>5. CASE RunCheck \/ RunWoken \/ CallbackReturns \/ TickDone
  BY <1>5 DEF RunCheck, RunWoken, CallbackReturns, TickDone, FiredInv, InTick
<1>6. CASE DestroyPool \/ UNCHANGED timersVars
  BY <1>6 DEF DestroyPool, DestroyFlag, DestroyEvent, DestroyWaited, timersVars, FiredInv, InTick
<1> QED
  BY <1>1, <1>2, <1>3, <1>4, <1>5, <1>6 DEF TimersNext, Pool

\* No observer is called for a timer it has given back, if callbacks unregister
\* no timer but their own.
THEOREM OnlyRegisteredCalled == ASSUME ~UnregisterOthers PROVE TimersSpec => CallsRegistered
<1>1. TimersInit => HandlesInv /\ FiredInv
  BY HandlesInitInv, FiredInit
<1>2. (HandlesInv /\ FiredInv) /\ [TimersNext]_timersVars => (HandlesInv /\ FiredInv)'
  BY PoolInductive, FiredInductive
<1>3. HandlesInv /\ FiredInv /\ [TimersNext]_timersVars
         => [\A o \in Observers :
                FireNext /\ calling' = o => handle[o] = Head(fired)[1]]_timersVars
  BY FireFired
<1> QED
  BY <1>1, <1>2, <1>3, PTL DEF TimersSpec, CallsRegistered
=============================================================================
