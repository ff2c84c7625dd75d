------------------------------ MODULE SmartPtr ------------------------------
(***************************************************************************)
(* nucleon::smart_ptr with the ref_counted_mt ownership policy              *)
(* (nucleon/smart_ptr.h) on quark::interlocked for Linux                    *)
(* (quark/redhat/sync_impl.h): threads share one object through copies of a *)
(* smart pointer.  interlocked::decrement is an atomic decrement followed by*)
(* a separate read of the counter, whose value it returns.                  *)
(***************************************************************************)
EXTENDS Integers, FiniteSets

CONSTANTS Holders,     \* the threads that hold copies
          FirstHolder, \* the one that has made the object
          Ptrs,        \* the smart_ptr objects there may be (bounds the copies)
          FirstPtr,    \* the first of them
          Nobody       \* holder of a smart_ptr that does not exist

ASSUME HoldersAssumption ==
    /\ Nobody \notin Holders /\ FirstHolder \in Holders
    /\ FirstPtr \in Ptrs /\ IsFiniteSet(Ptrs)

VARIABLES refs,          \* *pCount_
          holder,        \* holder[p]: the thread that smart_ptr p belongs to
          dropping,      \* dropping[t]: where t is in ~smart_ptr
          counterFrees,  \* times pCount_ was given back to the pool
          deletions      \* times the object was deleted

ptrVars == <<refs, holder, dropping, counterFrees, deletions>>

\* One thread has made the first smart_ptr.
PtrInit == /\ refs = 1
           /\ holder = [p \in Ptrs |-> IF p = FirstPtr THEN FirstHolder ELSE Nobody]
           /\ dropping = [t \in Holders |-> "no"]
           /\ counterFrees = 0 /\ deletions = 0

Live == {p \in Ptrs : holder[p] # Nobody}

Goes(t, from, to) ==
    dropping[t] = from /\ dropping' = [dropping EXCEPT ![t] = to]

\* Mistake: the copy shares the counter and does not count itself.
CopyUncounted(t, p, q) ==
    /\ dropping[t] = "no" /\ holder[p] = t /\ holder[q] = Nobody
    /\ holder' = [holder EXCEPT ![q] = t]
    /\ UNCHANGED <<refs, dropping, counterFrees, deletions>>

\* The copy constructor makes q of p: clone increments; what it reads back is
\* not used.
Copy(t, p, q) ==
    /\ dropping[t] = "no" /\ holder[p] = t /\ holder[q] = Nobody
    /\ refs' = refs + 1
    /\ holder' = [holder EXCEPT ![q] = t]
    /\ UNCHANGED <<dropping, counterFrees, deletions>>

\* t hands p over to u: the object moves (by swap), the count stays.
HandOver(t, p, u) ==
    /\ dropping[t] = "no" /\ holder[p] = t /\ u # t
    /\ holder' = [holder EXCEPT ![p] = u]
    /\ UNCHANGED <<refs, dropping, counterFrees, deletions>>

\* ~smart_ptr: release, up to the atomic decrement.
Decrement(t, p) ==
    /\ holder[p] = t
    /\ Goes(t, "no", "read")
    /\ holder' = [holder EXCEPT ![p] = Nobody]
    /\ refs' = refs - 1
    /\ UNCHANGED <<counterFrees, deletions>>

\* Mistake: the counter is compared as it was before the decrement.
ReadBefore(t) ==
    /\ \/ refs + 1 = 0 /\ Goes(t, "read", "free")
       \/ refs + 1 # 0 /\ Goes(t, "read", "no")
    /\ UNCHANGED <<refs, holder, counterFrees, deletions>>

\* return lval.  Memory that was given back may hold anything.
ReadBack(t) ==
    /\ \/ (refs = 0 \/ counterFrees > 0) /\ Goes(t, "read", "free")
       \/ (refs # 0 \/ counterFrees > 0) /\ Goes(t, "read", "no")
    /\ UNCHANGED <<refs, holder, counterFrees, deletions>>

FreeCounter(t) ==
    /\ Goes(t, "free", "destroy")
    /\ counterFrees' = counterFrees + 1
    /\ UNCHANGED <<refs, holder, deletions>>

DestroyPointee(t) ==
    /\ Goes(t, "destroy", "no")
    /\ deletions' = deletions + 1
    /\ UNCHANGED <<refs, holder, counterFrees>>

PtrNext ==
    \E t \in Holders :
       \/ ReadBack(t) \/ FreeCounter(t) \/ DestroyPointee(t)
       \/ \E p \in Ptrs : \/ Decrement(t, p)
                          \/ \E q \in Ptrs : Copy(t, p, q)
                          \/ \E u \in Holders : HandOver(t, p, u)

PtrSpec == PtrInit /\ [][PtrNext]_ptrVars
-----------------------------------------------------------------------------
\* Every variable keeps its type.
PtrTypeOK == /\ refs \in Int /\ counterFrees \in Nat /\ deletions \in Nat
             /\ holder \in [Ptrs -> Holders \cup {Nobody}]
             /\ dropping \in [Holders -> {"no", "read", "free", "destroy"}]

\* While a thread still holds a copy, neither the counter nor the object goes.
AliveWhileHeld == Live # {} => counterFrees = 0 /\ deletions = 0

\* When the last copy is gone and every destructor has returned, somebody has
\* deleted the object.
NoLeak == Live = {} /\ (\A t \in Holders : dropping[t] = "no")
             => deletions > 0

\* "Release() returns a boolean saying if that was the last release so the
\* pointer can be deleted" (smart_ptr.h): only one release is the last one.
LastReleaseOnce == counterFrees <= 1 /\ deletions <= 1
=============================================================================
