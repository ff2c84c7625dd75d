---------------------------- MODULE UserMempool ----------------------------
(***************************************************************************)
(* quark::user_mempool (quark/mempool/user_mempool.h, user_mempool.cpp):    *)
(* the pool behind every pooled object is bound, as a pair of functions, by *)
(* the first allocation of any thread or by bindPool<T>() of the program,   *)
(* "TODO: protect bind with lock".  Asserts do nothing here, as in the build *)
(* with NDEBUG; those of allocate and free are properties.                  *)
(***************************************************************************)
EXTENDS Naturals

CONSTANTS Users,        \* threads
          Default,      \* default_memory_pool
          Own,          \* a pool of the program's own
          Unbound       \* 0

ASSUME PoolAssumption == Default # Own /\ Unbound \notin {Default, Own}

Pools == {Default, Own}

VARIABLES fnAlloc,      \* _fnAlloc, as the pool it belongs to
          fnFree,       \* _fnFree
          binding,      \* binding[u]: the pool that u's call of bind is given
          user,         \* where thread u is
          blocks,       \* the pool that u's object came from; Unbound: it has none
          binds         \* history: "together" once two calls of bind were past the
                        \* test at the same time

poolVars == <<fnAlloc, fnFree, binding, user, blocks, binds>>

PoolInit == /\ fnAlloc = Unbound /\ fnFree = Unbound
            /\ binding = [u \in Users |-> Unbound]
            /\ user = [u \in Users |-> "idle"]
            /\ blocks = [u \in Users |-> Unbound]
            /\ binds = "apart"

Moves(u, from, to) == user[u] = from /\ user' = [user EXCEPT ![u] = to]

\* allocate: if (_fnAlloc == 0) defaultBind();
AllocateTest(u) ==
    /\ blocks[u] = Unbound
    /\ IF fnAlloc = Unbound
         THEN /\ Moves(u, "idle", "bind")
              /\ binding' = [binding EXCEPT ![u] = Default]
         ELSE Moves(u, "idle", "allocate") /\ UNCHANGED binding
    /\ UNCHANGED <<fnAlloc, fnFree, blocks, binds>>

\* bindPool<T>()
BindPool(u) ==
    /\ Moves(u, "idle", "bind")
    /\ binding' = [binding EXCEPT ![u] = Own]
    /\ UNCHANGED <<fnAlloc, fnFree, blocks, binds>>

\* A call of defaultBind goes on to allocate, one of bindPool is over.
Bound(u) == IF binding[u] = Default THEN "allocate" ELSE "idle"

\* The calls of bind that are past the test.
Binding == {u \in Users : user[u] \in {"setAlloc", "setFree"}}

PassesTest(u) == /\ Moves(u, "bind", "setAlloc")
                 /\ binds' = IF Binding = {} THEN binds ELSE "together"

\* Mistake: a pool that is bound already is bound again.
BindUntested(u) == /\ PassesTest(u)
                   /\ UNCHANGED <<fnAlloc, fnFree, binding, blocks>>

\* assert(_fnAlloc == 0 && _fnFree == 0), and the same as a test: return false
BindTest(u) ==
    /\ \/ /\ fnAlloc # Unbound \/ fnFree # Unbound
          /\ Moves(u, "bind", Bound(u)) /\ UNCHANGED binds
       \/ fnAlloc = Unbound /\ fnFree = Unbound /\ PassesTest(u)
    /\ UNCHANGED <<fnAlloc, fnFree, binding, blocks>>

SetAlloc(u) == /\ Moves(u, "setAlloc", "setFree")
               /\ fnAlloc' = binding[u]
               /\ UNCHANGED <<fnFree, binding, blocks, binds>>

SetFree(u) == /\ Moves(u, "setFree", Bound(u))
              /\ fnFree' = binding[u]
              /\ UNCHANGED <<fnAlloc, binding, blocks, binds>>

\* assert(_fnAlloc); return _fnAlloc(size);
Allocate(u) == /\ Moves(u, "allocate", "idle")
               /\ blocks' = [blocks EXCEPT ![u] = fnAlloc]
               /\ UNCHANGED <<fnAlloc, fnFree, binding, binds>>

\* free: assert(_fnFree); _fnFree(p, size);
FreeBegins(u) == /\ Moves(u, "idle", "free") /\ blocks[u] # Unbound
                 /\ UNCHANGED <<fnAlloc, fnFree, binding, blocks, binds>>

FreeCalls(u) == /\ Moves(u, "free", "idle")
                /\ blocks' = [blocks EXCEPT ![u] = Unbound]
                /\ UNCHANGED <<fnAlloc, fnFree, binding, binds>>

PoolNext == \E u \in Users :
               \/ AllocateTest(u)
               \/ BindPool(u) \/ BindTest(u) \/ SetAlloc(u) \/ SetFree(u)
               \/ Allocate(u) \/ FreeBegins(u) \/ FreeCalls(u)

PoolSpec == PoolInit /\ [][PoolNext]_poolVars
-----------------------------------------------------------------------------
\* Every variable keeps its type.
PoolTypeOK == /\ fnAlloc \in Pools \cup {Unbound} /\ fnFree \in Pools \cup {Unbound}
              /\ binding \in [Users -> Pools \cup {Unbound}]
              /\ user \in [Users -> {"idle", "bind", "setAlloc", "setFree",
                                     "allocate", "free"}]
              /\ blocks \in [Users -> Pools \cup {Unbound}] /\ binds \in {"apart", "together"}

\* assert(_fnAlloc) of allocate: whoever calls _fnAlloc finds it bound.
AllocBound == \A u \in Users : user[u] = "allocate" => fnAlloc # Unbound

\* assert(_fnFree) of free: whoever calls _fnFree finds it bound.
FreeBound == \A u \in Users : user[u] = "free" => fnFree # Unbound

\* A block goes back to the pool it came from, unless bind is between its two
\* assignments at that moment or two calls of bind have once been past the test
\* together: nothing else mixes the functions of two pools.
FreedToItsPool == \A u \in Users : user[u] = "free" =>
                     \/ fnFree = blocks[u] \/ binds = "together"
                     \/ \E v \in Users : user[v] = "setFree"

\* However many threads bind, allocate and free at once: assert(_fnAlloc) of
\* allocate holds although another thread may be in the middle of bind, and blocks
\* go back to their pool, as far as the missing lock of bind allows.
PoolBound == AllocBound /\ FreedToItsPool
=============================================================================
