---------------------------- MODULE QuarkProofs ----------------------------
(***************************************************************************)
(* Proofs about the components of quark: ThreadBundle, UserMempool, Storage *)
(* and MemoryPool, one section for each.                                    *)
(***************************************************************************)
EXTENDS ThreadBundle, UserMempool, Storage, MemoryPool, SequenceTheorems, FiniteSetTheorems,
        TLAPS

(***************************************************************************)
(* ThreadBundle, for any set of threads: start and stop are all or nothing, *)
(* whichever threads start or end by themselves meanwhile, as far as their  *)
(* objects had no OS thread before.                                         *)
(***************************************************************************)
ListsOK == threads \in Seq(Threads) /\ todo \in Seq(Threads)

Member(t, s) == \E i \in DOMAIN s : s[i] = t

\* Each token is one run's, and that run has ended.
TokensInv == /\ started \subseteq Threads
             /\ runs \in [Threads -> Nat] /\ tokens \in [Threads -> Nat]
             /\ \A t \in Threads : tokens[t] <= runs[t]
             /\ \A t \in started : tokens[t] < runs[t]

\* What runs and is attached is what the loop of stop has still to visit, or an
\* object that had a run before.
LoopInv == op \in {"stop", "undo"} =>
              \A t \in started :
                  Member(t, threads) => Member(t, todo) \/ runs[t] > 1

\* There is an answer only when no loop runs, and then what it says is true.
AnswerInv == /\ op # "idle" => answer = "none"
             /\ NothingLeft

BundleInv == ListsOK /\ TokensInv /\ LoopInv /\ AnswerInv

LEMMA BundleInitInv == BundleInit => BundleInv
BY EmptySeq DEF BundleInit, BundleInv, ListsOK, TokensInv, LoopInv, AnswerInv, NothingLeft

\* rbegin to rend visits every attached thread.
LEMMA ReverseMembers ==
  ASSUME threads \in Seq(Threads)
  PROVE  /\ Reverse(threads) \in Seq(Threads)
         /\ \A t : Member(t, threads) => Member(t, Reverse(threads))
<1> DEFINE n == Len(threads)
           r == [i \in 1 .. n |-> threads[n - i + 1]]
<1>1. Reverse(threads) = r
  BY DEF Reverse
<1>2. n \in Nat /\ DOMAIN threads = 1 .. n /\ threads \in [1 .. n -> Threads]
  BY LenProperties
<1>3. r \in [1 .. n -> Threads]
  <2>1. \A i \in 1 .. n : n - i + 1 \in 1 .. n
    BY <1>2
  <2> QED
    BY <1>2, <2>1
<1>4. r \in Seq(Threads)
  BY <1>2, <1>3
<1>5. ASSUME NEW i \in 1 .. n PROVE r[n - i + 1] = threads[i] /\ n - i + 1 \in 1 .. n
  <2>1. n - i + 1 \in 1 .. n /\ n - (n - i + 1) + 1 = i
    BY <1>2
  <2> QED
    BY <2>1
<1>6. \A t : Member(t, threads) => Member(t, r)
  BY <1>2, <1>3, <1>5 DEF Member
<1> QED
  BY <1>1, <1>4, <1>6

\* Whatever becomes of a thread, its tokens stay those of its runs.
LEMMA TokensKept ==
  ASSUME TokensInv, NEW t \in Threads,
         \/ Runs(t) \/ InitializeFails(t) \/ Ends(t) \/ UNCHANGED seen
         \/ t \in started /\ started' = started \ {t} /\ UNCHANGED <<runs, tokens>>
         \/ /\ t \in started /\ tokens[t] > 0 /\ tokens' = [tokens EXCEPT ![t] = @ - 1]
            /\ UNCHANGED <<started, runs>>
  PROVE  /\ TokensInv' /\ started' \subseteq started \cup {t}
         /\ \A u \in started : runs'[u] = runs[u]
<1>1. CASE Runs(t)
  BY <1>1 DEF TokensInv, Runs
<1>2. CASE InitializeFails(t)
  BY <1>2 DEF TokensInv, InitializeFails
<1>3. CASE Ends(t)
  BY <1>3 DEF TokensInv, Ends
<1>4. CASE UNCHANGED seen
  BY <1>4 DEF TokensInv, seen
<1>5. CASE t \in started /\ started' = started \ {t} /\ UNCHANGED <<runs, tokens>>
  BY <1>5 DEF TokensInv
<1>6. CASE /\ t \in started /\ tokens[t] > 0 /\ tokens' = [tokens EXCEPT ![t] = @ - 1]
           /\ UNCHANGED <<started, runs>>
  BY <1>6 DEF TokensInv
<1> QED
  BY <1>1, <1>2, <1>3, <1>4, <1>5, <1>6

\* A loop that begins has everything to visit.
LEMMA BeginInv ==
  ASSUME BundleInv, NEW o, BeginLoop(o), threads' = threads, UNCHANGED seen,
         answer' = "none"
  PROVE  BundleInv'
<1>1. ListsOK' /\ TokensInv'
  BY ReverseMembers DEF BundleInv, ListsOK, TokensInv, BeginLoop, seen
<1>2. LoopInv'
  BY ReverseMembers DEF BundleInv, ListsOK, BeginLoop, LoopInv, Member, seen
<1>3. AnswerInv'
  BY DEF AnswerInv, NothingLeft
<1> QED
  BY <1>1, <1>2, <1>3 DEF BundleInv

\* What a visit does with the thread: one that still runs after the visit of stop
\* had a token, so that it has had a run before.
LEMMA VisitOne ==
  ASSUME BundleInv, StartOne \/ StopOne, NEW h \in Threads, h = Head(todo)
  PROVE  /\ TokensInv'
         /\ op \in {"stop", "undo"} =>
               /\ started' \subseteq started /\ runs' = runs
               /\ h \in started' => runs[h] > 1
<1> USE DEF BundleInv
<1>1. CASE StartOne
  <2>1. Runs(h) \/ InitializeFails(h) \/ UNCHANGED seen
    BY <1>1 DEF StartOne
  <2> QED
    BY <1>1, <2>1, TokensKept DEF StartOne, Visiting
<1>2. CASE StopOne
  <2>1. \/ UNCHANGED seen /\ h \notin started
        \/ h \in started /\ started' = started \ {h} /\ UNCHANGED <<runs, tokens>>
        \/ /\ h \in started /\ tokens[h] > 0 /\ tokens' = [tokens EXCEPT ![h] = @ - 1]
           /\ UNCHANGED <<started, runs>>
    BY <1>2 DEF StopOne
  <2>2. TokensInv'
    BY <2>1, TokensKept
  <2>3. h \in started /\ tokens[h] > 0 => runs[h] > 1
    BY DEF TokensInv
  <2> QED
    BY <2>1, <2>2, <2>3 DEF seen
<1> QED
  BY <1>1, <1>2

\* The visit of one thread leaves the others to be visited.
LEMMA VisitInv ==
  ASSUME BundleInv, StartOne \/ StopOne
  PROVE  BundleInv'
<1>1. /\ todo # <<>> /\ todo' = Tail(todo) /\ op # "idle"
      /\ threads' = threads /\ op' = op /\ answer' = answer
  BY DEF StartOne, StopOne, Visiting
<1>2. /\ Tail(todo) \in Seq(Threads) /\ Len(Tail(todo)) = Len(todo) - 1
      /\ \A i \in 1 .. Len(Tail(todo)) : Tail(todo)[i] = todo[i + 1]
      /\ Len(todo) \in Nat /\ DOMAIN todo = 1 .. Len(todo)
      /\ DOMAIN Tail(todo) = 1 .. Len(Tail(todo))
      /\ Head(todo) \in Threads
  BY <1>1, HeadTailProperties, LenProperties DEF BundleInv, ListsOK
<1>3. \A t : Member(t, todo) => t = Head(todo) \/ Member(t, Tail(todo))
  <2> SUFFICES ASSUME NEW i \in DOMAIN todo, i # 1
               PROVE  Member(todo[i], Tail(todo))
    BY <1>1 DEF Member
  <2>1. i - 1 \in 1 .. Len(Tail(todo)) /\ (i - 1) + 1 = i
    BY <1>2
  <2>2. Tail(todo)[i - 1] = todo[i]
    BY <1>2, <2>1
  <2> QED
    BY <1>2, <2>1, <2>2 DEF Member
<1>4. /\ TokensInv'
      /\ op \in {"stop", "undo"} =>
            /\ started' \subseteq started /\ runs' = runs
            /\ Head(todo) \in started' => runs[Head(todo)] > 1
  BY <1>2, VisitOne
<1>5. LoopInv'
  <2> SUFFICES ASSUME op \in {"stop", "undo"}, NEW t \in started', Member(t, threads)
               PROVE  Member(t, Tail(todo)) \/ runs'[t] > 1
    BY <1>1 DEF LoopInv, Member
  <2>1. t \in started /\ runs' = runs
    BY <1>4
  <2>2. Member(t, todo) \/ runs[t] > 1
    BY <2>1 DEF BundleInv, LoopInv
  <2> QED
    BY <1>3, <1>4, <2>1, <2>2
<1>6. AnswerInv'
  BY <1>1 DEF BundleInv, AnswerInv, NothingLeft
<1> QED
  BY <1>1, <1>2, <1>4, <1>5, <1>6 DEF BundleInv, ListsOK

\* An attached thread that runs when the loop of stop has ended would be in an
\* empty list, or has had a run before.
LEMMA StopDoneInv ==
  ASSUME BundleInv, StopDone
  PROVE  BundleInv'
<1>1. \A t \in started : Member(t, threads) => runs[t] > 1
  BY DEF BundleInv, LoopInv, StopDone, Member
<1>2. TokensInv'
  BY DEF BundleInv, TokensInv, StopDone, seen
<1>3. AnswerInv'
  BY <1>1 DEF StopDone, AnswerInv, NothingLeft, Member, seen
<1> QED
  BY <1>2, <1>3 DEF BundleInv, ListsOK, LoopInv, StopDone

LEMMA ListInv ==
  ASSUME BundleInv, NEW t \in Threads, Attach(t) \/ Detach(t)
  PROVE  BundleInv'
<1>1. threads' \in Seq(Threads)
  <2>1. CASE Attach(t)
    BY <2>1, AppendProperties DEF Attach, BundleInv, ListsOK
  <2>2. CASE Detach(t)
    <3> PICK i \in DOMAIN threads : threads' = RemoveAt(threads, i)
      BY <2>2 DEF Detach
    <3>1. threads \in Seq(Threads) /\ i \in 1 .. Len(threads) /\ Len(threads) \in Nat
      BY LenProperties DEF BundleInv, ListsOK
    <3>2. \A k \in 1 .. i - 1 : k \in 1 .. Len(threads)
      BY <3>1
    <3>3. \A k \in i + 1 .. Len(threads) : k \in 1 .. Len(threads)
      BY <3>1
    <3>4. /\ SubSeq(threads, 1, i - 1) \in Seq(Threads)
          /\ SubSeq(threads, i + 1, Len(threads)) \in Seq(Threads)
      BY <3>1, <3>2, <3>3, SubSeqProperties
    <3> QED
      BY <3>4, ConcatProperties DEF RemoveAt
  <2> QED
    BY <2>1, <2>2
<1> QED
  BY <1>1 DEF BundleInv, ListsOK, TokensInv, LoopInv, AnswerInv, NothingLeft, Attach,
              Detach, seen

LEMMA BundleInductive == BundleInv /\ [BundleNext]_bundleVars => BundleInv'
<1> SUFFICES ASSUME BundleInv, [BundleNext]_bundleVars PROVE BundleInv'
  OBVIOUS
<1>1. ASSUME NEW t \in Threads, Attach(t) \/ Detach(t) PROVE BundleInv'
  BY <1>1, ListInv
<1>2. ASSUME NEW t \in Threads, Ends(t) PROVE BundleInv'
  <2>1. TokensInv'
    BY <1>2, TokensKept DEF BundleInv
  <2> QED
    BY <1>2, <2>1 DEF Ends, BundleInv, ListsOK, LoopInv, AnswerInv, NothingLeft, Member
<1>3. ASSUME NEW t \in Threads, StartAlone(t) PROVE BundleInv'
  <2>1. TokensInv'
    BY <1>3, TokensKept DEF StartAlone, BundleInv
  <2> QED
    BY <1>3, <2>1 DEF StartAlone, BundleInv, ListsOK, LoopInv, AnswerInv, NothingLeft
<1>4. CASE Start \/ Stop
  BY <1>4, BeginInv DEF Start, Stop
<1>5. CASE StartOne \/ StopOne
  BY <1>5, VisitInv
<1>6. CASE StartDone
  <2>1. CASE op' = "undo"
    BY <1>6, <2>1, BeginInv DEF StartDone, BundleInv, AnswerInv
  <2>2. CASE op' = "idle"
    BY <1>6, <2>2
       DEF StartDone, BeginLoop, BundleInv, ListsOK, TokensInv, LoopInv, AnswerInv,
           NothingLeft, seen
  <2> QED
    BY <1>6, <2>1, <2>2 DEF StartDone, BeginLoop
<1>7. CASE StopDone
  BY <1>7, StopDoneInv
<1>8. CASE UNCHANGED bundleVars
  BY <1>8 DEF bundleVars, seen, BundleInv, ListsOK, TokensInv, LoopInv, AnswerInv,
              NothingLeft, Member
<1> QED
  BY <1>1, <1>2, <1>3, <1>4, <1>5, <1>6, <1>7, <1>8 DEF BundleNext

\* After a failed start, and after stop, no thread of the bundle runs whose object
\* had no OS thread before, for any number of threads and whatever each of them
\* does by itself.
THEOREM AllOrNothing == BundleSpec => []NothingLeft
<1>1. BundleInv => NothingLeft
  BY DEF BundleInv, AnswerInv
<1> QED
  BY <1>1, BundleInitInv, BundleInductive, PTL DEF BundleSpec

(***************************************************************************)
(* UserMempool, for any threads: nobody calls a function that is not bound, *)
(* and no block goes to a pool it did not come from, as far as bind without *)
(* a lock allows.                                                           *)
(***************************************************************************)
\* _fnAlloc is assigned first: whoever is behind it, or finds _fnFree bound,
\* finds _fnAlloc bound as well.
AllocInv ==
    /\ fnFree # Unbound => fnAlloc # Unbound
    /\ \A u \in Users :
          user[u] \in {"setFree", "allocate", "free"} \/ blocks[u] # Unbound
             => fnAlloc # Unbound

\* Who is in bind has been given a pool, and who frees has a block.
BindInv == \A u \in Users :
              /\ user[u] \in {"bind", "setAlloc", "setFree"} => binding[u] \in Pools
              /\ user[u] = "free" => blocks[u] # Unbound

\* As long as one call of bind at a time is past the test, it is the only one ever,
\* and all blocks are of its pool.
OneBind ==
    \/ binds = "together"
    \/ /\ fnAlloc # Unbound /\ fnFree # fnAlloc =>
                   \E v \in Users : user[v] = "setFree"
       /\ \A u \in Users :
             /\ user[u] = "setAlloc" => fnAlloc = Unbound
             /\ user[u] = "setFree" => binding[u] = fnAlloc
             /\ blocks[u] # Unbound => blocks[u] = fnAlloc
             /\ \A v \in Users :
                   /\ user[u] \in {"setAlloc", "setFree"}
                   /\ user[v] \in {"setAlloc", "setFree"}
                   => u = v

UserInv == PoolTypeOK /\ AllocInv /\ BindInv /\ OneBind

LEMMA UserInitInv == PoolInit => UserInv
BY PoolAssumption
   DEF PoolInit, UserInv, PoolTypeOK, AllocInv, BindInv, OneBind, Binding, Pools

LEMMA UserInductive == UserInv /\ [PoolNext]_poolVars => UserInv'
<1> SUFFICES ASSUME UserInv, [PoolNext]_poolVars PROVE UserInv'
  OBVIOUS
<1> USE PoolAssumption DEF UserInv, PoolTypeOK, AllocInv, BindInv, OneBind, Binding,
                           Moves, Pools
<1>1. CASE UNCHANGED poolVars
  BY <1>1 DEF poolVars
<1>2. ASSUME NEW u \in Users, AllocateTest(u) PROVE UserInv'
  BY <1>2 DEF AllocateTest
<1>3. ASSUME NEW u \in Users, BindPool(u) PROVE UserInv'
  BY <1>3 DEF BindPool
<1>4. ASSUME NEW u \in Users, BindTest(u) PROVE UserInv'
  BY <1>4 DEF BindTest, PassesTest, Bound
<1>5. ASSUME NEW u \in Users, SetAlloc(u) PROVE UserInv'
  BY <1>5 DEF SetAlloc
<1>6. ASSUME NEW u \in Users, SetFree(u) PROVE UserInv'
  BY <1>6 DEF SetFree, Bound
<1>7. ASSUME NEW u \in Users, Allocate(u) PROVE UserInv'
  BY <1>7 DEF Allocate
<1>8. ASSUME NEW u \in Users, FreeBegins(u) PROVE UserInv'
  BY <1>8 DEF FreeBegins
<1>9. ASSUME NEW u \in Users, FreeCalls(u) PROVE UserInv'
  BY <1>9 DEF FreeCalls
<1> QED
  BY <1>1, <1>2, <1>3, <1>4, <1>5, <1>6, <1>7, <1>8, <1>9 DEF PoolNext

\* However many threads bind, allocate and free at once, a call of _fnAlloc finds
\* it bound, and a block goes back to the pool it came from unless bind is between
\* its assignments or two calls of it have once been past the test together.
THEOREM PoolIsBound == PoolSpec => []PoolBound
<1>1. UserInv => PoolBound
  <2> SUFFICES ASSUME UserInv, NEW u \in Users, user[u] = "free", binds = "apart"
               PROVE  fnFree = blocks[u] \/ \E v \in Users : user[v] = "setFree"
    BY DEF UserInv, PoolTypeOK, AllocInv, PoolBound, AllocBound, FreedToItsPool
  <2>1. blocks[u] = fnAlloc /\ fnAlloc # Unbound
    BY DEF UserInv, BindInv, AllocInv, OneBind
  <2> QED
    BY <2>1 DEF UserInv, OneBind
<1> QED
  BY <1>1, UserInitInv, UserInductive, PTL DEF PoolSpec

(***************************************************************************)
(* Storage, for any sizes: no two blocks overlap and each lies in its chunk.*)
(***************************************************************************)
BlockType == [chunk : Nat, offset : Nat, size : Nat]

\* The current chunk is one of the ordinary size.
ChunksInv == /\ storageChunks \in Seq(Nat) /\ current \in DOMAIN storageChunks
             /\ storageChunks[current] = StorageChunk
             /\ remain \in 0 .. StorageChunk

\* In the current chunk what has been given out lies before the rest.
GivenInv == /\ Apart(blocksGiven)
            /\ \A b \in blocksGiven :
                  /\ b \in BlockType /\ b.chunk \in DOMAIN storageChunks
                  /\ b.offset + b.size <= storageChunks[b.chunk]
                  /\ b.chunk = current =>
                        b.offset + b.size <= StorageChunk - remain

\* The same of a service storage whose requests have fitted into its chunks.
Sound(s) == /\ s.chunks \in Nat /\ s.remain \in 0 .. ServiceChunk
            /\ s.used = ServiceChunk - s.remain
            /\ Apart(s.blocks)
            /\ \A b \in s.blocks :
                  /\ b \in BlockType /\ b.chunk <= s.chunks
                  /\ b.offset + b.size <= ServiceChunk
                  /\ b.chunk = s.chunks => b.offset + b.size <= s.used

\* The vector of chunks grows only, so that it has always fitted if it does.
ServiceInv == /\ capacity \in Nat
              /\ capacity * EntrySize <= ServiceChunk => Sound(service)

StorageInv == ChunksInv /\ GivenInv /\ ServiceInv

\* Blocks stay apart if the one that is added is apart from each of them.
LEMMA ApartAdded ==
  ASSUME NEW B, NEW e, Apart(B),
         \A b \in B : \/ b.chunk # e.chunk
                      \/ b.offset + b.size <= e.offset
                      \/ e.offset + e.size <= b.offset
  PROVE  Apart(B \cup {e})
BY DEF Apart

\* A size_t does not wrap as long as the request fits.
LEMMA NoWrap ==
  ASSUME NEW left \in Nat, NEW size \in Nat, size <= left, left <= ServiceChunk
  PROVE  (left + 2 ^ SizeBits - size) % 2 ^ SizeBits = left - size
<1> DEFINE m == 2 ^ SizeBits
<1>1. m \in Nat /\ ServiceChunk < m /\ ServiceChunk \in Nat
  BY StorageAssumption
<1>2. left - size \in 0 .. m - 1
  BY <1>1
<1> HIDE DEF m
<1>3. (left + m - size) % m = left - size
  BY <1>1, <1>2
<1> QED
  BY <1>3 DEF m

\* The service storage keeps sound on every request that fits into a chunk.
LEMMA ServiceKeepsSound ==
  ASSUME NEW s, Sound(s), NEW size \in Nat, size <= ServiceChunk
  PROVE  Sound(ServiceAllocate(s, size))
<1> DEFINE fresh == size > s.remain
           n == IF fresh THEN s.chunks + 1 ELSE s.chunks
           left == IF fresh THEN ServiceChunk ELSE s.remain
           used == IF fresh THEN 0 ELSE s.used
           e == Block(n, used, size)
           t == ServiceAllocate(s, size)
<1>1. ServiceChunk \in Nat
  BY StorageAssumption
<1>2. left \in Nat /\ size <= left /\ left <= ServiceChunk /\ used = ServiceChunk - left
  BY <1>1 DEF Sound
<1>3. /\ t.chunks = n /\ t.remain = left - size /\ t.used = used + size
      /\ t.blocks = s.blocks \cup {e}
  BY <1>2, NoWrap DEF ServiceAllocate
<1>4. e \in BlockType /\ e.chunk = n /\ e.offset = used /\ e.size = size /\ n \in Nat
  BY <1>1, <1>2 DEF Sound, Block, BlockType
<1>5. \A b \in s.blocks : b.chunk # n \/ b.offset + b.size <= used
  BY <1>1 DEF Sound, BlockType
<1>6. Apart(t.blocks)
  BY <1>3, <1>4, <1>5, ApartAdded DEF Sound
<1> HIDE DEF n, left, used, e, t, fresh
<1>7. \A b \in s.blocks : b.chunk <= n
  BY DEF n, Sound, BlockType
<1> QED
  BY <1>1, <1>2, <1>3, <1>4, <1>5, <1>6, <1>7 DEF Sound, BlockType, t

\* push_back of _chunks: the vector asks for twice its size when it is full.
LEMMA PushedKeeps ==
  ASSUME StorageInv, NEW size \in Nat, Pushed(size)
  PROVE  /\ storageChunks' \in Seq(Nat) /\ ServiceInv'
         /\ Len(storageChunks') = Len(storageChunks) + 1
         /\ Len(storageChunks) \in Nat
         /\ DOMAIN storageChunks = 1 .. Len(storageChunks)
         /\ DOMAIN storageChunks' = 1 .. Len(storageChunks')
         /\ storageChunks'[Len(storageChunks')] = size
         /\ \A i \in DOMAIN storageChunks : storageChunks'[i] = storageChunks[i]
<1>1. storageChunks \in Seq(Nat) /\ storageChunks' = Append(storageChunks, size)
  BY DEF StorageInv, ChunksInv, Pushed
<1>2. ServiceInv'
  <2>1. CASE UNCHANGED <<capacity, service>>
    BY <2>1 DEF StorageInv, ServiceInv, Sound
  <2>2. CASE /\ capacity' = 2 * capacity
             /\ service' = ServiceAllocate(service, 2 * capacity * EntrySize)
    <3>1. capacity \in Nat /\ EntrySize \in Nat /\ ServiceChunk \in Nat
      BY StorageAssumption DEF StorageInv, ServiceInv
    <3>2. capacity * EntrySize \in Nat /\ 2 * capacity * EntrySize = 2 * (capacity * EntrySize)
      BY <3>1
    <3>3. SUFFICES ASSUME capacity' * EntrySize <= ServiceChunk PROVE Sound(service')
      BY <2>2, <3>1 DEF ServiceInv
    <3>4. /\ 2 * (capacity * EntrySize) \in Nat
          /\ 2 * (capacity * EntrySize) <= ServiceChunk
          /\ capacity * EntrySize <= ServiceChunk
      BY <2>2, <3>1, <3>2, <3>3
    <3> QED
      BY <2>2, <3>2, <3>4, ServiceKeepsSound DEF StorageInv, ServiceInv
  <2> QED
    BY <2>1, <2>2 DEF Pushed
<1> QED
  BY <1>1, <1>2, AppendProperties, LenProperties

LEMMA StorageInitInv == StorageInit => StorageInv
<1> SUFFICES ASSUME StorageInit PROVE StorageInv
  OBVIOUS
<1> USE StorageAssumption DEF StorageInit
<1>1. ChunksInv
  BY DEF ChunksInv
<1>2. GivenInv
  BY DEF GivenInv, Apart
<1>3. ServiceInv
  <2> DEFINE s == [chunks |-> 1, remain |-> ServiceChunk, used |-> 0, blocks |-> {}]
  <2>1. Sound(s)
    BY DEF Sound, Apart
  <2>2. Reserved * EntrySize \in Nat /\ Reserved * EntrySize <= ServiceChunk
    OBVIOUS
  <2> HIDE DEF s
  <2>3. Sound(ServiceAllocate(s, Reserved * EntrySize))
    BY <2>1, <2>2, ServiceKeepsSound
  <2> QED
    BY <2>3 DEF ServiceInv, s
<1> QED
  BY <1>1, <1>2, <1>3 DEF StorageInv

LEMMA ExtraKeeps ==
  ASSUME StorageInv, NEW size \in Requests, ExtraAllocate(size)
  PROVE  StorageInv'
<1> DEFINE e == Block(Len(storageChunks'), 0, size)
<1>1. size \in Nat /\ StorageChunk \in Nat
  BY StorageAssumption
<1>2. Pushed(size) /\ blocksGiven' = blocksGiven \cup {e} /\ UNCHANGED <<remain, current>>
  BY DEF ExtraAllocate
<1>3. /\ storageChunks' \in Seq(Nat) /\ ServiceInv'
      /\ Len(storageChunks') = Len(storageChunks) + 1 /\ Len(storageChunks) \in Nat
      /\ DOMAIN storageChunks = 1 .. Len(storageChunks)
      /\ DOMAIN storageChunks' = 1 .. Len(storageChunks')
      /\ storageChunks'[Len(storageChunks')] = size
      /\ \A i \in DOMAIN storageChunks : storageChunks'[i] = storageChunks[i]
  BY <1>1, <1>2, PushedKeeps
<1>4. /\ e \in BlockType /\ e.chunk = Len(storageChunks') /\ e.offset = 0
      /\ e.size = size
  BY <1>1, <1>3 DEF Block, BlockType
<1> HIDE DEF e
<1>5. ChunksInv'
  BY <1>1, <1>2, <1>3 DEF StorageInv, ChunksInv
<1>6. current \in DOMAIN storageChunks /\ \A b \in blocksGiven : b.chunk \in DOMAIN storageChunks
  BY DEF StorageInv, ChunksInv, GivenInv
<1>7. Apart(blocksGiven')
  BY <1>2, <1>3, <1>4, <1>6, ApartAdded DEF StorageInv, GivenInv
<1>8. GivenInv'
  BY <1>1, <1>2, <1>3, <1>4, <1>6, <1>7 DEF StorageInv, GivenInv, BlockType
<1> QED
  BY <1>3, <1>5, <1>8 DEF StorageInv

LEMMA NewChunkKeeps ==
  ASSUME StorageInv, NEW size \in Requests, AllocateNewChunk(size)
  PROVE  StorageInv'
<1> DEFINE e == Block(current', 0, size)
<1>1. size \in Nat /\ StorageChunk \in Nat /\ size <= StorageChunk
  BY StorageAssumption DEF AllocateNewChunk
<1>2. /\ Pushed(StorageChunk) /\ blocksGiven' = blocksGiven \cup {e}
      /\ current' = Len(storageChunks') /\ remain' = StorageChunk - size
  BY DEF AllocateNewChunk
<1>3. /\ storageChunks' \in Seq(Nat) /\ ServiceInv'
      /\ Len(storageChunks') = Len(storageChunks) + 1 /\ Len(storageChunks) \in Nat
      /\ DOMAIN storageChunks = 1 .. Len(storageChunks)
      /\ DOMAIN storageChunks' = 1 .. Len(storageChunks')
      /\ storageChunks'[Len(storageChunks')] = StorageChunk
      /\ \A i \in DOMAIN storageChunks : storageChunks'[i] = storageChunks[i]
  BY <1>1, <1>2, PushedKeeps
<1>4. /\ e \in BlockType /\ e.chunk = Len(storageChunks') /\ e.offset = 0
      /\ e.size = size
  BY <1>1, <1>2, <1>3 DEF Block, BlockType
<1> HIDE DEF e
<1>5. ChunksInv'
  BY <1>1, <1>2, <1>3 DEF ChunksInv
<1>6. \A b \in blocksGiven : b.chunk \in DOMAIN storageChunks
  BY DEF StorageInv, GivenInv
<1>7. Apart(blocksGiven')
  BY <1>2, <1>3, <1>4, <1>6, ApartAdded DEF StorageInv, GivenInv
<1>8. GivenInv'
  BY <1>1, <1>2, <1>3, <1>4, <1>6, <1>7 DEF StorageInv, GivenInv, BlockType
<1> QED
  BY <1>3, <1>5, <1>8 DEF StorageInv

LEMMA CurrentKeeps ==
  ASSUME StorageInv, NEW size \in Requests, AllocateCurrent(size)
  PROVE  StorageInv'
<1> DEFINE e == Block(current, StorageChunk - remain, size)
<1>1. size \in Nat /\ StorageChunk \in Nat /\ remain \in 0 .. StorageChunk
  BY StorageAssumption DEF StorageInv, ChunksInv
<1>2. /\ size <= remain /\ remain' = remain - size
      /\ blocksGiven' = blocksGiven \cup {e}
      /\ UNCHANGED <<storageChunks, current, capacity, service>>
  BY DEF AllocateCurrent
<1>3. current \in DOMAIN storageChunks /\ DOMAIN storageChunks = 1 .. Len(storageChunks)
      /\ Len(storageChunks) \in Nat /\ storageChunks[current] = StorageChunk
  BY LenProperties DEF StorageInv, ChunksInv
<1>4. /\ e \in BlockType /\ e.chunk = current /\ e.offset = StorageChunk - remain
      /\ e.size = size
  BY <1>1, <1>3 DEF Block, BlockType
<1> HIDE DEF e
<1>5. ChunksInv' /\ ServiceInv'
  BY <1>1, <1>2 DEF StorageInv, ChunksInv, ServiceInv, Sound
<1>6. Apart(blocksGiven')
  BY <1>2, <1>4, ApartAdded DEF StorageInv, GivenInv
<1>7. GivenInv'
  BY <1>1, <1>2, <1>3, <1>4, <1>6 DEF StorageInv, GivenInv, BlockType
<1> QED
  BY <1>5, <1>7 DEF StorageInv

LEMMA StorageInductive == StorageInv /\ [StorageNext]_storageVars => StorageInv'
<1> SUFFICES ASSUME StorageInv, [StorageNext]_storageVars PROVE StorageInv'
  OBVIOUS
<1>1. CASE UNCHANGED storageVars
  BY <1>1 DEF storageVars, StorageInv, ChunksInv, GivenInv, ServiceInv, Sound
<1>2. CASE StorageNext
  BY <1>2, ExtraKeeps, NewChunkKeeps, CurrentKeeps DEF StorageNext
<1> QED
  BY <1>1, <1>2

\* No memory is given out twice and none outside its chunk, by the storage always
\* and by the service storage as long as the vector of chunks fits into one of
\* its chunks.
THEOREM BlocksGivenOnce == StorageSpec => []BlocksSound
<1>1. StorageInv => BlocksSound
  BY DEF StorageInv, GivenInv, ServiceInv, Sound, BlocksSound, Within
<1> QED
  BY <1>1, StorageInitInv, StorageInductive, PTL DEF StorageSpec

(***************************************************************************)
(* MemoryPool, for chunks of any number of cells and any number of regions: *)
(* the lists in the bytes of the free cells stay exact, no region is lost    *)
(* or given out twice, and free finds every chunk.                          *)
(***************************************************************************)
Row == [Cells -> 0 .. ByteMax \cup {Client}]

\* The free cells of c, whose bytes are b, are those of F.
Exact(c, b, F) == /\ \E l \in [1 .. c.avail -> Cells] :
                        IsList(c, b, l) /\ IsInjective(l) /\ ToSet(l) = F
                  /\ \A i \in F : b[i] \in 0 .. ByteMax

\* Every cell has an index that fits into a byte, and the end of the list too.
LEMMA NumCellsIs == /\ NumCells \in 1 .. ByteMax
                    /\ IsFiniteSet(Cells) /\ Cardinality(Cells) = NumCells
<1> DEFINE q == ChunkSize \div BlockSize
<1>1. q \in Nat /\ q >= 1
  <2>1. ChunkSize \in Nat /\ BlockSize \in Nat /\ BlockSize >= 1 /\ BlockSize <= ChunkSize
    BY SizesAssumption
  <2>2. q \in Int /\ BlockSize * q <= ChunkSize /\ ChunkSize < BlockSize * q + BlockSize
    BY <2>1
  <2>3. ASSUME q <= 0 PROVE FALSE
    <3>1. BlockSize * q <= 0
      BY <2>1, <2>2, <2>3
    <3> QED
      BY <2>1, <2>2, <3>1
  <2> QED
    BY <2>2, <2>3
<1> HIDE DEF q
<1>2. NumCells \in 1 .. ByteMax
  <2>1. ByteMax \in Nat /\ ByteMax >= 1
    BY SizesAssumption
  <2>2. \E x \in {q, ByteMax} : \A y \in {q, ByteMax} : x <= y
    BY <1>1, <2>1
  <2>3. /\ NumCells \in {q, ByteMax}
        /\ \A y \in {q, ByteMax} : NumCells <= y
    BY <2>2 DEF NumCells, Min, q
  <2> QED
    BY <1>1, <2>1, <2>3
<1>3. 0 \in Int /\ NumCells - 1 \in Int /\ ~(0 > NumCells - 1) /\ (NumCells - 1) - 0 + 1 = NumCells
  BY <1>2, SizesAssumption
<1> QED
  BY <1>2, <1>3, FS_Interval DEF Cells

\* A list of cells that names none twice is no longer than there are cells, and
\* then it names all.
LEMMA CellsBound ==
  ASSUME NEW n \in Nat, NEW l \in [1 .. n -> Cells], IsInjective(l)
  PROVE  n <= NumCells /\ (n = NumCells => ToSet(l) = Cells)
<1>1. /\ IsFiniteSet(Cells) /\ Cardinality(Cells) = NumCells
  BY NumCellsIs
<1>2. l \in Injection(1 .. n, Cells)
  BY DEF Injection, IsInjective
<1>3. Cardinality(1 .. n) = n
  <2>1. 1 \in Int /\ n \in Int /\ (1 > n <=> n = 0) /\ n - 1 + 1 = n
    OBVIOUS
  <2> QED
    BY <2>1, FS_Interval
<1>4. /\ Cardinality(1 .. n) <= Cardinality(Cells)
      /\ Cardinality(1 .. n) = Cardinality(Cells) => l \in Surjection(1 .. n, Cells)
  BY <1>1, <1>2, FS_Injection
<1>5. n = NumCells => \A i \in Cells : \E k \in 1 .. n : l[k] = i
  BY <1>1, <1>3, <1>4 DEF Surjection
<1>6. ToSet(l) \subseteq Cells /\ DOMAIN l = 1 .. n
  BY DEF ToSet
<1>7. n = NumCells => ToSet(l) = Cells
  BY <1>5, <1>6 DEF ToSet
<1> QED
  BY <1>1, <1>3, <1>4, <1>7

\* allocate takes the first of the list.
LEMMA CellTaken ==
  ASSUME NEW c \in Chunk, NEW b \in Row, NEW F, Exact(c, b, F), c.avail > 0
  PROVE  LET c1 == [c EXCEPT !.first = b[c.first], !.avail = @ - 1]
             b1 == [b EXCEPT ![c.first] = Client]
         IN  /\ c.first \in F /\ c.first \in Cells
             /\ c1 \in Chunk /\ c1.data = c.data /\ b1 \in Row
             /\ Exact(c1, b1, F \ {c.first})
<1> DEFINE c1 == [c EXCEPT !.first = b[c.first], !.avail = @ - 1]
           b1 == [b EXCEPT ![c.first] = Client]
           n  == c.avail
<1>1. n \in 0 .. ByteMax /\ n >= 1 /\ n - 1 \in Nat /\ ByteMax \in Nat
  BY SizesAssumption DEF Chunk
<1>2. PICK l \in [1 .. n -> Cells] : IsList(c, b, l) /\ IsInjective(l) /\ ToSet(l) = F
  BY DEF Exact
<1>3. 1 \in 1 .. n /\ l[1] = c.first /\ c.first \in Cells /\ c.first \in F
  BY <1>1, <1>2 DEF IsList, ToSet
<1>4. b[c.first] \in 0 .. ByteMax
  BY <1>3 DEF Exact
<1>5. /\ c1 \in Chunk /\ c1.data = c.data /\ c1.first = b[c.first] /\ c1.avail = n - 1
  <2>1. n - 1 \in 0 .. ByteMax
    BY <1>1
  <2>2. PICK f \in 0 .. ByteMax : f = b[c.first]
    BY <1>4
  <2>3. PICK a \in 0 .. ByteMax : a = n - 1
    BY <2>1
  <2>4. c1 = [c EXCEPT !.first = f, !.avail = a]
    BY <2>2, <2>3
  <2>5. LET d == [c EXCEPT !.first = f, !.avail = a]
        IN  d \in Chunk /\ d.data = c.data /\ d.first = f /\ d.avail = a
    BY <2>2, <2>3 DEF Chunk
  <2> QED
    BY <2>2, <2>3, <2>4, <2>5
<1>6. b1 \in Row /\ \A i \in Cells : i # c.first => b1[i] = b[i]
  BY DEF Row
<1> DEFINE m == [i \in 1 .. n - 1 |-> l[i + 1]]
<1>7. \A i \in 1 .. n - 1 : i + 1 \in 1 .. n /\ m[i] = l[i + 1] /\ i + 1 # 1
  BY <1>1
<1>8. m \in [1 .. n - 1 -> Cells] /\ DOMAIN m = 1 .. n - 1
  BY <1>2, <1>7
<1> HIDE DEF m, c1, b1
<1>9. IsList(c1, b1, m)
  <2>1. n - 1 > 0 => m[1] = b[c.first]
    <3>1. n - 1 > 0 => 1 \in 1 .. n - 1 /\ 1 + 1 = 2 /\ 1 \in 1 .. n - 1
      BY <1>1
    <3>2. n - 1 > 0 => b[l[1]] = l[1 + 1]
      BY <1>2, <3>1 DEF IsList
    <3> QED
      BY <1>3, <1>7, <3>1, <3>2
  <2>2. ASSUME NEW i \in 1 .. (n - 1) - 1 PROVE b1[m[i]] = m[i + 1]
    <3>1. i \in 1 .. n - 1 /\ i + 1 \in 1 .. n - 1 /\ i + 1 \in 1 .. n
      BY <1>1
    <3>2. m[i] = l[i + 1] /\ m[i + 1] = l[(i + 1) + 1]
      BY <1>7, <3>1
    <3>3. b[l[i + 1]] = l[(i + 1) + 1]
      BY <1>2, <3>1 DEF IsList
    <3>4. l[i + 1] # c.first /\ l[i + 1] \in Cells
      <4>1. DOMAIN l = 1 .. n /\ i + 1 # 1
        BY <3>1
      <4> QED
        BY <1>2, <1>3, <3>1, <4>1 DEF IsInjective
    <3> QED
      BY <1>6, <3>2, <3>3, <3>4
  <2> QED
    BY <1>5, <2>1, <2>2 DEF IsList
<1>10. IsInjective(m)
  <2> SUFFICES ASSUME NEW i \in 1 .. n - 1, NEW j \in 1 .. n - 1, m[i] = m[j] PROVE i = j
    BY <1>8 DEF IsInjective
  <2>1. l[i + 1] = l[j + 1] /\ i + 1 \in 1 .. n /\ j + 1 \in 1 .. n
    BY <1>7
  <2>2. i + 1 = j + 1
    BY <1>2, <2>1 DEF IsInjective
  <2> QED
    BY <2>2
<1>11. ToSet(m) = F \ {c.first}
  <2>1. ASSUME NEW i \in 1 .. n - 1 PROVE m[i] \in F \ {c.first}
    <3>1. i + 1 \in 1 .. n /\ m[i] = l[i + 1] /\ i + 1 # 1
      BY <1>7
    <3> QED
      BY <1>2, <1>3, <3>1 DEF IsInjective, ToSet
  <2>2. ASSUME NEW x \in F \ {c.first} PROVE \E i \in 1 .. n - 1 : m[i] = x
    <3>1. PICK k \in 1 .. n : l[k] = x
      BY <1>2 DEF ToSet
    <3>2. k # 1
      BY <1>3, <3>1
    <3>3. k - 1 \in 1 .. n - 1 /\ (k - 1) + 1 = k
      BY <1>1, <3>2
    <3> QED
      BY <1>7, <3>1, <3>3
  <2> QED
    BY <1>8, <2>1, <2>2 DEF ToSet
<1>12. \A i \in F \ {c.first} : b1[i] \in 0 .. ByteMax
  BY <1>2, <1>6 DEF Exact, ToSet
<1>13. Exact(c1, b1, F \ {c.first})
  BY <1>5, <1>8, <1>9, <1>10, <1>11, <1>12 DEF Exact
<1> QED
  BY <1>3, <1>5, <1>6, <1>13 DEF c1, b1

\* free puts the cell before the others.
LEMMA CellGiven ==
  ASSUME NEW c \in Chunk, NEW b \in Row, NEW F, Exact(c, b, F), NEW i \in Cells, i \notin F
  PROVE  LET c1 == [c EXCEPT !.first = i, !.avail = @ + 1]
             b1 == [b EXCEPT ![i] = c.first]
         IN  c1 \in Chunk /\ c1.data = c.data /\ b1 \in Row /\ Exact(c1, b1, F \cup {i})
<1> DEFINE c1 == [c EXCEPT !.first = i, !.avail = @ + 1]
           b1 == [b EXCEPT ![i] = c.first]
           n  == c.avail
<1>1. n \in Nat /\ ByteMax \in Nat /\ c.first \in 0 .. ByteMax
  BY SizesAssumption DEF Chunk
<1>2. PICK l \in [1 .. n -> Cells] : IsList(c, b, l) /\ IsInjective(l) /\ ToSet(l) = F
  BY DEF Exact
<1> DEFINE m == [k \in 1 .. n + 1 |-> IF k = 1 THEN i ELSE l[k - 1]]
<1>3. /\ 1 \in 1 .. n + 1 /\ m[1] = i
      /\ \A k \in 1 .. n + 1 : k = 1 \/ (k - 1 \in 1 .. n /\ m[k] = l[k - 1])
  BY <1>1
<1>4. m \in [1 .. n + 1 -> Cells] /\ DOMAIN m = 1 .. n + 1
  BY <1>2, <1>3
<1> HIDE DEF m
<1>5. \A k \in 1 .. n : l[k] \in F /\ l[k] # i /\ l[k] \in Cells
  BY <1>2 DEF ToSet
<1>6. IsInjective(m)
  <2> SUFFICES ASSUME NEW j \in 1 .. n + 1, NEW k \in 1 .. n + 1, m[j] = m[k] PROVE j = k
    BY <1>4 DEF IsInjective
  <2>1. CASE j = 1 \/ k = 1
    BY <1>3, <1>5, <2>1
  <2>2. CASE j # 1 /\ k # 1
    <3>1. l[j - 1] = l[k - 1] /\ j - 1 \in 1 .. n /\ k - 1 \in 1 .. n
      BY <1>3, <2>2
    <3>2. j - 1 = k - 1
      BY <1>2, <3>1 DEF IsInjective
    <3> QED
      BY <3>2
  <2> QED
    BY <2>1, <2>2
<1>7. n + 1 <= NumCells /\ n + 1 \in 0 .. ByteMax /\ i \in 0 .. ByteMax
  <2>1. n + 1 \in Nat
    BY <1>1
  <2>2. n + 1 <= NumCells
    BY <1>4, <1>6, <2>1, CellsBound
  <2>3. NumCells \in 1 .. ByteMax
    BY NumCellsIs
  <2> QED
    BY <1>1, <2>2, <2>3 DEF Cells
<1>8. c1 \in Chunk /\ c1.data = c.data /\ c1.first = i /\ c1.avail = n + 1
  BY <1>7 DEF Chunk
<1>9. b1 \in Row /\ b1[i] = c.first /\ \A j \in Cells : j # i => b1[j] = b[j]
  BY <1>1 DEF Row
<1> HIDE DEF c1, b1
<1>10. IsList(c1, b1, m)
  <2> SUFFICES ASSUME NEW k \in 1 .. (n + 1) - 1 PROVE b1[m[k]] = m[k + 1]
    BY <1>3, <1>8 DEF IsList
  <2>1. k \in 1 .. n /\ k + 1 \in 1 .. n + 1 /\ k \in 1 .. n + 1 /\ k + 1 # 1 /\ (k + 1) - 1 = k
    BY <1>1
  <2>2. m[k + 1] = l[k]
    BY <1>3, <2>1
  <2>3. CASE k = 1
    <3>1. n > 0
      BY <1>1, <2>1
    <3>2. l[1] = c.first
      BY <1>2, <3>1 DEF IsList
    <3> QED
      BY <1>3, <1>9, <2>2, <2>3, <3>2
  <2>4. CASE k # 1
    <3>1. /\ k - 1 \in 1 .. n - 1 /\ k - 1 \in 1 .. n /\ (k - 1) + 1 = k
          /\ m[k] = l[k - 1]
      BY <1>1, <1>3, <2>1, <2>4
    <3>2. b[l[k - 1]] = l[(k - 1) + 1]
      BY <1>2, <3>1 DEF IsList
    <3> QED
      BY <1>5, <1>9, <2>2, <3>1, <3>2
  <2> QED
    BY <2>3, <2>4
<1>11. ToSet(m) = F \cup {i}
  <2>1. ASSUME NEW k \in 1 .. n + 1 PROVE m[k] \in F \cup {i}
    BY <1>3, <1>5
  <2>2. ASSUME NEW x \in F PROVE \E k \in 1 .. n + 1 : m[k] = x
    <3>1. PICK k \in 1 .. n : l[k] = x
      BY <1>2 DEF ToSet
    <3>2. k + 1 \in 1 .. n + 1 /\ k + 1 # 1 /\ (k + 1) - 1 = k
      BY <1>1
    <3> QED
      BY <1>3, <3>1, <3>2
  <2> QED
    BY <1>3, <1>4, <2>1, <2>2 DEF ToSet
<1>12. \A j \in F \cup {i} : b1[j] \in 0 .. ByteMax
  BY <1>1, <1>2, <1>9 DEF Exact, ToSet
<1>13. Exact(c1, b1, F \cup {i})
  BY <1>4, <1>6, <1>8, <1>10, <1>11, <1>12 DEF Exact
<1> QED
  BY <1>8, <1>9, <1>13 DEF c1, b1

\* reset links every cell to the one after it.
LEMMA ResetIs ==
  ASSUME NEW r \in Regions
  PROVE  /\ Reset(r) \in Chunk /\ Reset(r).data = r /\ Reset(r).avail > 0
         /\ ResetBytes \in Row /\ Exact(Reset(r), ResetBytes, Cells)
<1>1. NumCells \in 1 .. ByteMax /\ ByteMax \in Nat
  BY NumCellsIs, SizesAssumption
<1>2. /\ Reset(r) \in Chunk /\ Reset(r).data = r /\ Reset(r).first = 0
      /\ Reset(r).avail = NumCells
  BY <1>1 DEF Reset, Chunk
<1>3. \A i \in Cells : ResetBytes[i] = i + 1 /\ i + 1 \in 0 .. ByteMax
  BY <1>1 DEF ResetBytes, Cells
<1>4. ResetBytes \in Row
  BY <1>3 DEF ResetBytes, Row
<1> DEFINE l == [k \in 1 .. NumCells |-> k - 1]
<1>5. \A k \in 1 .. NumCells : k - 1 \in Cells /\ l[k] = k - 1
  BY <1>1 DEF Cells
<1>6. l \in [1 .. NumCells -> Cells] /\ DOMAIN l = 1 .. NumCells
  BY <1>5
<1> HIDE DEF l
<1>7. IsList(Reset(r), ResetBytes, l)
  <2>1. l[1] = 0
    BY <1>1, <1>5
  <2>2. ASSUME NEW k \in 1 .. NumCells - 1 PROVE ResetBytes[l[k]] = l[k + 1]
    <3>1. k \in 1 .. NumCells /\ k + 1 \in 1 .. NumCells
      BY <1>1
    <3>2. l[k] = k - 1 /\ k - 1 \in Cells /\ l[k + 1] = (k + 1) - 1
      BY <1>5, <3>1
    <3>3. ResetBytes[k - 1] = (k - 1) + 1
      BY <1>3, <3>2
    <3> QED
      BY <3>1, <3>2, <3>3
  <2> QED
    BY <1>2, <2>1, <2>2 DEF IsList
<1>8. IsInjective(l)
  BY <1>5, <1>6 DEF IsInjective
<1>9. ToSet(l) = Cells
  BY <1>1, <1>6, <1>8, CellsBound
<1> QED
  BY <1>1, <1>2, <1>3, <1>4, <1>6, <1>7, <1>8, <1>9 DEF Exact

(* The chunks in use, for chunks ch up to e, bytes by and live cells lv.    *)
Data(ch, e)    == {ch[k].data : k \in 1 .. e - 1}
FreeIn(lv, r)  == {i \in Cells : <<r, i>> \notin lv}
Distinct(ch, e) == \A j, k \in 1 .. e - 1 : ch[j].data = ch[k].data => j = k
Lists(ch, e, by, lv) ==
    \A k \in 1 .. e - 1 : Exact(ch[k], by[ch[k].data], FreeIn(lv, ch[k].data))
Here(ch, e, lv) == \A p \in lv : p[1] \in Data(ch, e)

Kept(ch, e, by, lv) ==
    /\ ch \in Seq(Chunk) /\ e \in 1 .. Len(ch) + 1
    /\ by \in [Regions -> Row] /\ lv \subseteq Regions \X Cells
    /\ Distinct(ch, e) /\ Lists(ch, e, by, lv) /\ Here(ch, e, lv)

LEMMA KeptFacts ==
  ASSUME NEW ch, NEW e, NEW by, NEW lv, Kept(ch, e, by, lv)
  PROVE  /\ Len(ch) \in Nat /\ e \in Nat /\ e >= 1 /\ e - 1 \in Nat /\ e - 1 <= Len(ch)
         /\ DOMAIN ch = 1 .. Len(ch) /\ ch \in [1 .. Len(ch) -> Chunk]
         /\ \A k \in 1 .. e - 1 : k \in DOMAIN ch /\ ch[k] \in Chunk /\ ch[k].data \in Regions
         /\ Data(ch, e) \subseteq Regions
<1>1. Len(ch) \in Nat /\ DOMAIN ch = 1 .. Len(ch) /\ ch \in [1 .. Len(ch) -> Chunk]
  BY LenProperties DEF Kept
<1>2. e \in 1 .. Len(ch) + 1
  BY DEF Kept
<1>3. e \in Nat /\ e >= 1 /\ e - 1 \in Nat /\ e - 1 <= Len(ch)
  BY <1>1, <1>2
<1>4. \A k \in 1 .. e - 1 : k \in 1 .. Len(ch)
  BY <1>1, <1>3
<1>5. \A c \in Chunk : c.data \in Regions
  BY DEF Chunk
<1>6. \A k \in 1 .. e - 1 : k \in DOMAIN ch /\ ch[k] \in Chunk /\ ch[k].data \in Regions
  BY <1>1, <1>4, <1>5
<1> QED
  BY <1>1, <1>3, <1>6 DEF Data

\* A chunk changes, with its bytes and its live cells, and keeps its memory.
LEMMA KeptReplace ==
  ASSUME NEW ch, NEW e, NEW by, NEW lv, Kept(ch, e, by, lv),
         NEW k \in 1 .. e - 1, NEW c \in Chunk, c.data = ch[k].data,
         NEW b \in Row, NEW lw \in SUBSET (Regions \X Cells),
         \A p \in Regions \X Cells : p[1] # c.data => (p \in lw <=> p \in lv),
         Exact(c, b, FreeIn(lw, c.data))
  PROVE  /\ Kept([ch EXCEPT ![k] = c], e, [by EXCEPT ![c.data] = b], lw)
         /\ Data([ch EXCEPT ![k] = c], e) = Data(ch, e)
<1> DEFINE d  == [ch EXCEPT ![k] = c]
           bz == [by EXCEPT ![c.data] = b]
<1>1. /\ Len(ch) \in Nat /\ e \in Nat /\ DOMAIN ch = 1 .. Len(ch)
      /\ \A j \in 1 .. e - 1 : j \in DOMAIN ch /\ ch[j] \in Chunk /\ ch[j].data \in Regions
  BY KeptFacts
<1>2. d \in Seq(Chunk) /\ Len(d) = Len(ch) /\ \A j \in DOMAIN ch : d[j] = IF j = k THEN c ELSE ch[j]
  BY <1>1, ExceptSeq DEF Kept
<1>3. bz \in [Regions -> Row] /\ bz[c.data] = b /\ \A r \in Regions : r # c.data => bz[r] = by[r]
  BY <1>1 DEF Kept
<1> HIDE DEF d, bz
<1>4. \A j \in 1 .. e - 1 : d[j].data = ch[j].data
  BY <1>1, <1>2
<1>5. Distinct(d, e)
  BY <1>4 DEF Distinct, Kept
<1>6. Data(d, e) = Data(ch, e)
  BY <1>4 DEF Data
<1>7. Lists(d, e, bz, lw)
  <2> SUFFICES ASSUME NEW j \in 1 .. e - 1
               PROVE  Exact(d[j], bz[d[j].data], FreeIn(lw, d[j].data))
    BY DEF Lists
  <2>1. CASE j = k
    BY <1>1, <1>2, <1>3, <2>1
  <2>2. CASE j # k
    <3>1. d[j] = ch[j] /\ ch[j].data \in Regions /\ ch[j].data # c.data
      BY <1>1, <1>2, <2>2 DEF Distinct, Kept
    <3>2. FreeIn(lw, ch[j].data) = FreeIn(lv, ch[j].data)
      <4>1. \A i \in Cells : <<ch[j].data, i>> \in Regions \X Cells
                             /\ <<ch[j].data, i>>[1] = ch[j].data
        BY <3>1
      <4>2. \A i \in Cells : <<ch[j].data, i>> \in lw <=> <<ch[j].data, i>> \in lv
        BY <3>1, <4>1
      <4> QED
        BY <4>2 DEF FreeIn
    <3> QED
      BY <1>3, <3>1, <3>2 DEF Lists, Kept
  <2> QED
    BY <2>1, <2>2
<1>8. Here(d, e, lw)
  <2> SUFFICES ASSUME NEW p \in lw PROVE p[1] \in Data(ch, e)
    BY <1>6 DEF Here
  <2>1. CASE p[1] = c.data
    BY <2>1 DEF Data
  <2>2. CASE p[1] # c.data
    BY <2>2 DEF Kept, Here
  <2> QED
    BY <2>1, <2>2
<1> QED
  BY <1>2, <1>3, <1>5, <1>6, <1>7, <1>8 DEF Kept, d, bz

\* A chunk that is free has no live cell, and the list may lose it at its end.
LEMMA KeptDrop ==
  ASSUME NEW ch, NEW e, NEW by, NEW lv, Kept(ch, e, by, lv), NEW b \in Row,
         e > 1, IsFree(ch[e - 1])
  PROVE  /\ Kept(ch, e - 1, [by EXCEPT ![ch[e - 1].data] = b], lv)
         /\ Data(ch, e - 1) = Data(ch, e) \ {ch[e - 1].data}
         /\ ch[e - 1].data \in Data(ch, e)
<1> DEFINE r  == ch[e - 1].data
           bz == [by EXCEPT ![r] = b]
<1>1. /\ Len(ch) \in Nat /\ e \in Nat /\ e - 1 <= Len(ch)
      /\ \A j \in 1 .. e - 1 : j \in DOMAIN ch /\ ch[j] \in Chunk /\ ch[j].data \in Regions
  BY KeptFacts
<1>2. /\ e - 1 \in 1 .. Len(ch) + 1 /\ e - 1 \in 1 .. e - 1
      /\ \A j \in 1 .. (e - 1) - 1 : j \in 1 .. e - 1 /\ j # e - 1
      /\ \A j \in 1 .. e - 1 : j = e - 1 \/ (j # e - 1 /\ j \in 1 .. (e - 1) - 1)
  BY <1>1
<1>3. r \in Regions /\ \A j \in 1 .. (e - 1) - 1 : ch[j].data # r
  BY <1>1, <1>2 DEF Distinct, Kept
<1>4. bz \in [Regions -> Row] /\ \A q \in Regions : q # r => bz[q] = by[q]
  BY <1>3 DEF Kept
<1> HIDE DEF bz
<1>5. Data(ch, e) = Data(ch, e - 1) \cup {r} /\ r \notin Data(ch, e - 1)
  BY <1>2, <1>3 DEF Data
<1>6. FreeIn(lv, r) = Cells
  <2>1. Exact(ch[e - 1], by[r], FreeIn(lv, r))
    BY <1>2 DEF Kept, Lists
  <2>2. PICK l \in [1 .. NumCells -> Cells] : IsInjective(l) /\ ToSet(l) = FreeIn(lv, r)
    BY <2>1 DEF Exact, IsFree
  <2>3. NumCells \in Nat
    BY NumCellsIs, SizesAssumption
  <2> QED
    BY <2>2, <2>3, CellsBound
<1>7. \A p \in lv : p[1] # r
  <2> SUFFICES ASSUME NEW p \in lv, p[1] = r PROVE FALSE
    OBVIOUS
  <2>1. p \in Regions \X Cells
    BY DEF Kept
  <2>2. p = <<r, p[2]>> /\ p[2] \in Cells
    BY <2>1
  <2> QED
    BY <1>6, <2>2 DEF FreeIn
<1>8. Here(ch, e - 1, lv)
  BY <1>5, <1>7 DEF Kept, Here
<1>9. Lists(ch, e - 1, bz, lv)
  <2> SUFFICES ASSUME NEW j \in 1 .. (e - 1) - 1
               PROVE  Exact(ch[j], bz[ch[j].data], FreeIn(lv, ch[j].data))
    BY DEF Lists
  <2>1. j \in 1 .. e - 1 /\ ch[j].data \in Regions /\ ch[j].data # r
    BY <1>1, <1>2, <1>3
  <2> QED
    BY <1>4, <2>1 DEF Kept, Lists
<1>10. Distinct(ch, e - 1)
  BY <1>2 DEF Kept, Distinct
<1> QED
  BY <1>2, <1>4, <1>5, <1>8, <1>9, <1>10 DEF Kept, bz

\* Two chunks change places.
LEMMA KeptSwap ==
  ASSUME NEW ch, NEW e, NEW by, NEW lv, Kept(ch, e, by, lv),
         NEW j \in 1 .. e - 1, NEW k \in 1 .. e - 1, j # k,
         NEW d \in Seq(Chunk), Len(d) = Len(ch), d[j] = ch[k], d[k] = ch[j],
         \A i \in DOMAIN ch : i # j /\ i # k => d[i] = ch[i]
  PROVE  Kept(d, e, by, lv) /\ Data(d, e) = Data(ch, e)
<1> DEFINE o(i) == IF i = j THEN k ELSE IF i = k THEN j ELSE i
<1>1. \A i \in 1 .. e - 1 : i \in DOMAIN ch
  BY KeptFacts
<1>2. \A i \in 1 .. e - 1 : o(i) \in 1 .. e - 1 /\ d[i] = ch[o(i)] /\ o(o(i)) = i
  BY <1>1
<1> HIDE DEF o
<1>3. Data(d, e) = Data(ch, e)
  <2>1. \A i \in 1 .. e - 1 : d[i].data = ch[o(i)].data /\ ch[i].data = d[o(i)].data
    BY <1>2
  <2> QED
    BY <1>2, <2>1 DEF Data
<1>4. Distinct(d, e)
  <2> SUFFICES ASSUME NEW h \in 1 .. e - 1, NEW i \in 1 .. e - 1, d[h].data = d[i].data
               PROVE  h = i
    BY DEF Distinct
  <2>1. PICK x \in 1 .. e - 1, y \in 1 .. e - 1 : x = o(h) /\ y = o(i)
    BY <1>2
  <2>2. ch[x].data = ch[y].data /\ o(x) = h /\ o(y) = i
    BY <1>2, <2>1
  <2>3. x = y
    BY <2>2 DEF Kept, Distinct
  <2> QED
    BY <2>2, <2>3
<1>5. Lists(d, e, by, lv)
  <2> SUFFICES ASSUME NEW i \in 1 .. e - 1
               PROVE  Exact(d[i], by[d[i].data], FreeIn(lv, d[i].data))
    BY DEF Lists
  <2>1. PICK c : c = ch[o(i)]
    OBVIOUS
  <2>2. d[i] = c /\ Exact(c, by[c.data], FreeIn(lv, c.data))
    BY <1>2, <2>1 DEF Kept, Lists
  <2> QED
    BY <2>2
<1> QED
  BY <1>3, <1>4, <1>5 DEF Kept, Here

\* push_back puts a chunk with memory of its own behind the last one in use, over
\* an element that was left there or in a new one.
LEMMA KeptPush ==
  ASSUME Kept(chunks, end, byte, live), NEW c \in Chunk, c.data \notin Data(chunks, end),
         NEW b \in Row, Exact(c, b, Cells)
  PROVE  /\ Kept(PushBack(c), end + 1, [byte EXCEPT ![c.data] = b], live)
         /\ Data(PushBack(c), end + 1) = Data(chunks, end) \cup {c.data}
         /\ PushBack(c)[end] = c
<1> DEFINE d  == PushBack(c)
           bz == [byte EXCEPT ![c.data] = b]
<1>1. /\ Len(chunks) \in Nat /\ end \in Nat /\ end >= 1 /\ end - 1 <= Len(chunks)
      /\ DOMAIN chunks = 1 .. Len(chunks) /\ chunks \in Seq(Chunk)
      /\ \A j \in 1 .. end - 1 : j \in DOMAIN chunks /\ chunks[j] \in Chunk
                                 /\ chunks[j].data \in Regions
  BY KeptFacts DEF Kept
<1>2. /\ d \in Seq(Chunk) /\ end <= Len(d) /\ Len(d) \in Nat /\ d[end] = c
      /\ \A j \in 1 .. end - 1 : d[j] = chunks[j]
  <2>1. CASE end = Len(chunks) + 1
    <3>1. d = Append(chunks, c)
      BY <2>1 DEF PushBack
    <3>2. /\ Append(chunks, c) \in Seq(Chunk) /\ Len(Append(chunks, c)) = Len(chunks) + 1
          /\ \A j \in 1 .. Len(chunks) : Append(chunks, c)[j] = chunks[j]
          /\ Append(chunks, c)[Len(chunks) + 1] = c
      BY <1>1, AppendProperties
    <3> QED
      BY <1>1, <2>1, <3>1, <3>2
  <2>2. CASE end # Len(chunks) + 1
    <3>1. d = [chunks EXCEPT ![end] = c]
      BY <2>2 DEF PushBack
    <3>2. end \in 1 .. Len(chunks) /\ \A j \in 1 .. end - 1 : j # end /\ j \in 1 .. Len(chunks)
      BY <1>1, <2>2
    <3>3. d \in Seq(Chunk) /\ Len(d) = Len(chunks)
          /\ \A j \in DOMAIN chunks : d[j] = IF j = end THEN c ELSE chunks[j]
      BY <1>1, <3>1, <3>2, ExceptSeq
    <3> QED
      BY <1>1, <3>2, <3>3
  <2> QED
    BY <2>1, <2>2
<1>3. c.data \in Regions
  BY DEF Chunk
<1>4. bz \in [Regions -> Row] /\ bz[c.data] = b /\ \A r \in Regions : r # c.data => bz[r] = byte[r]
  BY <1>3 DEF Kept
<1> HIDE DEF d, bz
<1>5. /\ end \in 1 .. (end + 1) - 1 /\ end + 1 \in 1 .. Len(d) + 1
      /\ \A j \in 1 .. (end + 1) - 1 : j = end \/ (j # end /\ j \in 1 .. end - 1)
      /\ \A j \in 1 .. end - 1 : j \in 1 .. (end + 1) - 1
  BY <1>1, <1>2
<1>6. \A j \in 1 .. end - 1 : chunks[j].data # c.data
  BY DEF Data
<1>7. Data(d, end + 1) = Data(chunks, end) \cup {c.data}
  BY <1>2, <1>5 DEF Data
<1>8. Distinct(d, end + 1)
  BY <1>2, <1>5, <1>6 DEF Kept, Distinct
<1>9. FreeIn(live, c.data) = Cells
  BY DEF Kept, Here, FreeIn
<1>10. Lists(d, end + 1, bz, live)
  <2> SUFFICES ASSUME NEW j \in 1 .. (end + 1) - 1
               PROVE  Exact(d[j], bz[d[j].data], FreeIn(live, d[j].data))
    BY DEF Lists
  <2>1. CASE j = end
    BY <1>2, <1>4, <1>9, <2>1
  <2>2. CASE j \in 1 .. end - 1
    <3>1. d[j] = chunks[j] /\ chunks[j].data \in Regions /\ chunks[j].data # c.data
      BY <1>1, <1>2, <1>6, <2>2
    <3> QED
      BY <1>4, <2>2, <3>1 DEF Kept, Lists
  <2> QED
    BY <1>5, <2>1, <2>2
<1>11. Here(d, end + 1, live)
  BY <1>7 DEF Kept, Here
<1> QED
  BY <1>2, <1>4, <1>5, <1>7, <1>8, <1>10, <1>11 DEF Kept, d, bz

(* The places of the regions: U for the chunks, L for the clients, and q.   *)
Places(U, L, q, n) == /\ U \subseteq Regions /\ L \subseteq Regions
                      /\ q \in Seq(Regions) /\ n \in 0 .. MaxRegions
                      /\ IsInjective(q) /\ U \cap L = {} /\ (U \cup L) \cap ToSet(q) = {}
                      /\ U \cup L \cup ToSet(q) = 1 .. n

BucketsOK == buckets \in [0 .. NumCells -> Seq(Regions)]

\* What the middle_allocator provides has no other place.
LEMMA TakeRegionIs ==
  ASSUME BucketsOK, NEW U, NEW L, Places(U, L, buckets[NumCells], regions), TakeRegion
  PROVE  /\ Provided \in Regions /\ Provided \notin U \cup L
         /\ Places(U \cup {Provided}, L, buckets'[NumCells], regions')
         /\ Places(U, L \cup {Provided}, buckets'[NumCells], regions')
         /\ BucketsOK'
<1> DEFINE q == buckets[NumCells]
<1>1. NumCells \in 0 .. NumCells
  BY NumCellsIs, SizesAssumption
<1>2. q \in Seq(Regions)
  BY <1>1 DEF BucketsOK
<1>3. CASE IsRecycled
  <2>1. /\ buckets' = [buckets EXCEPT ![NumCells] = Tail(@)] /\ regions' = regions
        /\ Provided = Head(q) /\ q # <<>>
    BY <1>3 DEF TakeRegion, IsRecycled, Provided, Recycled
  <2>2. /\ Tail(q) \in Seq(Regions) /\ Head(q) \in Regions /\ Head(q) = q[1]
        /\ Len(Tail(q)) = Len(q) - 1 /\ \A i \in 1 .. Len(Tail(q)) : Tail(q)[i] = q[i + 1]
    BY <1>2, <2>1, HeadTailProperties
  <2>3. PICK n \in Nat \ {0} : n = Len(q)
    BY <1>2, <2>1, EmptySeq
  <2>4. PICK t \in Seq(Regions) : t = Tail(q)
    BY <2>2
  <2>5. /\ DOMAIN t = 1 .. n - 1 /\ DOMAIN q = 1 .. n
        /\ \A i \in 1 .. n - 1 : t[i] = q[i + 1]
    BY <1>2, <2>2, <2>3, <2>4, LenProperties
  <2>6. \A i \in DOMAIN q : i = 1 \/ (i - 1 \in DOMAIN t /\ t[i - 1] = q[i])
    BY <2>5
  <2>7. \A i \in DOMAIN t : i + 1 \in DOMAIN q /\ i + 1 # 1 /\ q[i + 1] = t[i]
    BY <2>5
  <2>8. 1 \in DOMAIN q
    BY <2>5
  <2>9. IsInjective(q)
    BY DEF Places
  <2>10. IsInjective(t)
    <3> SUFFICES ASSUME NEW i \in DOMAIN t, NEW j \in DOMAIN t, t[i] = t[j] PROVE i = j
      BY DEF IsInjective
    <3>1. i + 1 = j + 1
      BY <2>7, <2>9 DEF IsInjective
    <3> QED
      BY <2>5, <3>1
  <2>11. ToSet(q) = {q[1]} \cup ToSet(t)
    BY <2>6, <2>7, <2>8 DEF ToSet
  <2>12. q[1] \notin ToSet(t)
    BY <2>7, <2>8, <2>9 DEF ToSet, IsInjective
  <2>13. buckets'[NumCells] = t /\ BucketsOK'
    BY <1>1, <2>1, <2>4 DEF BucketsOK
  <2> QED
    BY <2>1, <2>2, <2>4, <2>10, <2>11, <2>12, <2>13 DEF Places
<1>4. CASE ~IsRecycled
  <2>1. /\ buckets' = buckets /\ regions' = regions + 1 /\ regions < MaxRegions
        /\ Provided = regions + 1 /\ q = <<>>
    BY <1>4 DEF TakeRegion, IsRecycled, Provided
  <2>2. regions \in Nat /\ MaxRegions \in Nat /\ regions \in 0 .. MaxRegions
    BY BoundAssumption DEF Places
  <2>3. /\ regions + 1 \in Regions /\ regions + 1 \in 0 .. MaxRegions
        /\ regions + 1 \notin 1 .. regions
        /\ 1 .. regions + 1 = (1 .. regions) \cup {regions + 1}
    BY <2>1, <2>2 DEF Regions
  <2>4. ToSet(q) = {} /\ U \cup L = 1 .. regions
    BY <2>1 DEF ToSet, Places
  <2> QED
    BY <2>1, <2>3, <2>4 DEF Places, BucketsOK
<1> QED
  BY <1>3, <1>4

\* What is given back goes to the clients of its size.
LEMMA GiveRegionIs ==
  ASSUME BucketsOK, NEW U, NEW L, Places(U, L, buckets[NumCells], regions),
         NEW r \in U \cup L, GiveRegion(r, NumCells)
  PROVE  /\ Places(U \ {r}, L \ {r}, buckets'[NumCells], regions)
         /\ BucketsOK'
<1> DEFINE q == buckets[NumCells]
           t == <<r>> \o q
<1>1. NumCells \in 0 .. NumCells
  BY NumCellsIs, SizesAssumption
<1>2. q \in Seq(Regions) /\ r \in Regions
  BY <1>1 DEF BucketsOK, Places
<1>3. /\ t \in Seq(Regions) /\ Len(t) = 1 + Len(q)
      /\ \A i \in 1 .. Len(t) : t[i] = IF i <= 1 THEN <<r>>[i] ELSE q[i - 1]
  <2>1. <<r>> \in Seq(Regions) /\ Len(<<r>>) = 1
    BY <1>2
  <2> QED
    BY <1>2, <2>1, ConcatProperties
<1>4. PICK n \in Nat : n = Len(q)
  BY <1>2, LenProperties
<1> HIDE DEF t
<1>5. DOMAIN t = 1 .. 1 + n /\ DOMAIN q = 1 .. n
  BY <1>2, <1>3, <1>4, LenProperties
<1>6. 1 \in DOMAIN t /\ t[1] = r
  BY <1>3, <1>4, <1>5
<1>7. \A i \in DOMAIN t : i = 1 \/ (i - 1 \in DOMAIN q /\ t[i] = q[i - 1])
  BY <1>3, <1>4, <1>5
<1>8. \A i \in DOMAIN q : i + 1 \in DOMAIN t /\ t[i + 1] = q[i]
  BY <1>3, <1>4, <1>5
<1>9. r \notin ToSet(q) /\ IsInjective(q)
  BY DEF Places
<1>10. IsInjective(t)
  <2> SUFFICES ASSUME NEW i \in DOMAIN t, NEW j \in DOMAIN t, t[i] = t[j] PROVE i = j
    BY DEF IsInjective
  <2>1. CASE i = 1 \/ j = 1
    BY <1>6, <1>7, <1>9, <2>1 DEF ToSet
  <2>2. CASE i # 1 /\ j # 1
    <3>1. i - 1 = j - 1
      BY <1>7, <1>9, <2>2 DEF IsInjective
    <3> QED
      BY <1>5, <3>1
  <2> QED
    BY <2>1, <2>2
<1>11. ToSet(t) = {r} \cup ToSet(q)
  BY <1>6, <1>7, <1>8 DEF ToSet
<1>12. buckets'[NumCells] = t /\ BucketsOK'
  BY <1>1, <1>3 DEF GiveRegion, BucketsOK, t
<1> QED
  BY <1>2, <1>3, <1>10, <1>11, <1>12 DEF Places

\* Memory that is no chunk's may hold anything.
LEMMA OtherBytes ==
  ASSUME NEW ch, NEW e, NEW by, NEW lv, Kept(ch, e, by, lv),
         NEW r, r \notin Data(ch, e), NEW b \in Row
  PROVE  Kept(ch, e, [by EXCEPT ![r] = b], lv)
<1> DEFINE bz == [by EXCEPT ![r] = b]
<1>1. bz \in [Regions -> Row] /\ \A q \in Regions : q # r => bz[q] = by[q]
  BY DEF Kept
<1> HIDE DEF bz
<1>2. \A k \in 1 .. e - 1 : ch[k].data \in Regions /\ ch[k].data # r
  BY KeptFacts DEF Data
<1>3. Lists(ch, e, bz, lv)
  BY <1>1, <1>2 DEF Kept, Lists
<1> QED
  BY <1>1, <1>3 DEF Kept, bz

CellsInv == /\ Kept(chunks, end, byte, live)
            /\ Places(Data(chunks, end), large, buckets[NumCells], regions) /\ BucketsOK
            /\ allocChunk \in 1 .. end /\ freeChunk \in InUse \cup {1}

LEMMA CellsInitInv == HeapInit => CellsInv
<1> SUFFICES ASSUME HeapInit PROVE CellsInv
  OBVIOUS
<1>1. /\ chunks = <<>> /\ end = 1 /\ allocChunk = 1 /\ freeChunk = 1 /\ regions = 0
      /\ live = {} /\ large = {} /\ Len(chunks) = 0 /\ chunks \in Seq(Chunk)
      /\ byte = [r \in Regions |-> [i \in Cells |-> Client]]
      /\ buckets = [n \in 0 .. NumCells |-> <<>>]
  BY EmptySeq DEF HeapInit
<1>2. [i \in Cells |-> Client] \in Row
  BY DEF Row
<1>3. byte \in [Regions -> Row]
  BY <1>1, <1>2
<1>4. 1 .. end - 1 = {} /\ 1 .. 0 = {} /\ end \in 1 .. Len(chunks) + 1 /\ 1 \in 1 .. end
  BY <1>1
<1>5. Kept(chunks, end, byte, live) /\ Data(chunks, end) = {}
  BY <1>1, <1>3, <1>4 DEF Kept, Distinct, Lists, Here, Data
<1>6. NumCells \in 0 .. NumCells /\ 0 \in 0 .. MaxRegions
  BY NumCellsIs, SizesAssumption, BoundAssumption
<1>7. BucketsOK
  BY <1>1 DEF BucketsOK
<1>8. Places({}, {}, buckets[NumCells], regions)
  BY <1>1, <1>4, <1>6 DEF Places, IsInjective, ToSet
<1> QED
  BY <1>1, <1>4, <1>5, <1>7, <1>8 DEF CellsInv

\* TakeCell, when the bytes were by before.
Taken(ch, by, c, b, k) ==
    /\ chunks' = [ch EXCEPT ![k] = [c EXCEPT !.first = b[c.first], !.avail = @ - 1]]
    /\ byte' = [by EXCEPT ![c.data] = [b EXCEPT ![c.first] = Client]]
    /\ live' = live \cup {<<c.data, c.first>>}

\* A cell of the chunk at k goes to a client.
LEMMA TakeCellKeeps ==
  ASSUME NEW ch, NEW e, NEW by, Kept(ch, e, by, live),
         NEW k \in 1 .. e - 1, NEW c, c = ch[k], NEW b, b = by[c.data], c.avail > 0,
         Taken(ch, by, c, b, k)
  PROVE  Kept(chunks', e, byte', live') /\ Data(chunks', e) = Data(ch, e)
<1> DEFINE F == FreeIn(live, c.data)
<1>1. c \in Chunk /\ c.data \in Regions /\ b \in Row
  BY KeptFacts DEF Kept
<1>2. Exact(c, b, F)
  BY DEF Kept, Lists
<1>3. PICK c1, b1 :
         /\ c1 = [c EXCEPT !.first = b[c.first], !.avail = @ - 1]
         /\ b1 = [b EXCEPT ![c.first] = Client]
         /\ c.first \in F /\ c.first \in Cells
         /\ c1 \in Chunk /\ c1.data = c.data /\ b1 \in Row
         /\ Exact(c1, b1, F \ {c.first})
  BY <1>1, <1>2, CellTaken
<1>4. /\ chunks' = [ch EXCEPT ![k] = c1] /\ byte' = [by EXCEPT ![c1.data] = b1]
      /\ live' = live \cup {<<c.data, c.first>>}
  BY <1>3 DEF Taken
<1>5. live' \in SUBSET (Regions \X Cells)
  BY <1>1, <1>3, <1>4 DEF Kept
<1>6. \A p \in Regions \X Cells : p[1] # c1.data => (p \in live' <=> p \in live)
  BY <1>3, <1>4
<1>7. FreeIn(live', c1.data) = F \ {c.first}
  BY <1>3, <1>4 DEF FreeIn
<1> HIDE DEF F
<1>8. Exact(c1, b1, FreeIn(live', c1.data))
  BY <1>3, <1>7
<1>9. c1 \in Chunk /\ c1.data = ch[k].data /\ b1 \in Row
  BY <1>3
<1>10. /\ Kept([ch EXCEPT ![k] = c1], e, [by EXCEPT ![c1.data] = b1], live')
       /\ Data([ch EXCEPT ![k] = c1], e) = Data(ch, e)
  BY <1>5, <1>6, <1>8, <1>9, KeptReplace
<1> QED
  BY <1>4, <1>10

LEMMA AllocateHereKeeps == CellsInv /\ AllocateHere => CellsInv'
<1> SUFFICES ASSUME CellsInv, AllocateHere PROVE CellsInv'
  OBVIOUS
<1>1. /\ allocChunk \in 1 .. end - 1 /\ chunks[allocChunk].avail > 0
      /\ TakeCell(chunks[allocChunk], byte[chunks[allocChunk].data], allocChunk, chunks)
      /\ UNCHANGED <<end, allocChunk, freeChunk, buckets, regions, large>>
  BY DEF AllocateHere, HasRoom, InUse
<1>2. Kept(chunks', end, byte', live') /\ Data(chunks', end) = Data(chunks, end)
  BY <1>1, TakeCellKeeps DEF CellsInv, TakeCell, Taken
<1> QED
  BY <1>1, <1>2 DEF CellsInv, BucketsOK, InUse

LEMMA AllocateSearchKeeps == CellsInv /\ AllocateSearch => CellsInv'
<1> SUFFICES ASSUME CellsInv, AllocateSearch PROVE CellsInv'
  OBVIOUS
<1>1. PICK k \in 1 .. end - 1 :
         /\ chunks[k].avail > 0 /\ allocChunk' = k
         /\ TakeCell(chunks[k], byte[chunks[k].data], k, chunks)
  BY DEF AllocateSearch, HasRoom, InUse
<1>2. UNCHANGED <<end, freeChunk, buckets, regions, large>>
  BY DEF AllocateSearch
<1>3. Kept(chunks', end, byte', live') /\ Data(chunks', end) = Data(chunks, end)
  BY <1>1, TakeCellKeeps DEF CellsInv, TakeCell, Taken
<1>4. end \in Nat
  BY KeptFacts DEF CellsInv
<1>5. allocChunk' \in 1 .. end'
  BY <1>1, <1>2, <1>4
<1> QED
  BY <1>2, <1>3, <1>5 DEF CellsInv, BucketsOK, InUse

LEMMA AllocateChunkKeeps == CellsInv /\ AllocateChunk => CellsInv'
<1> SUFFICES ASSUME CellsInv, AllocateChunk PROVE CellsInv'
  OBVIOUS
<1> DEFINE r  == Provided
           c  == Reset(r)
           ch == PushBack(c)
           by == [byte EXCEPT ![r] = ResetBytes]
<1>1. /\ TakeRegion /\ TakeCell(c, ResetBytes, end, ch)
      /\ end' = end + 1 /\ allocChunk' = end /\ freeChunk' = 1 /\ large' = large
  BY DEF AllocateChunk
<1>2. /\ r \in Regions /\ r \notin Data(chunks, end)
      /\ Places(Data(chunks, end) \cup {r}, large, buckets'[NumCells], regions')
      /\ BucketsOK'
  BY <1>1, TakeRegionIs DEF CellsInv
<1>3. /\ c \in Chunk /\ c.data = r /\ c.avail > 0
      /\ ResetBytes \in Row /\ Exact(c, ResetBytes, Cells)
  BY <1>2, ResetIs
<1>4. /\ chunks' = [ch EXCEPT ![end] =
              [c EXCEPT !.first = ResetBytes[c.first], !.avail = @ - 1]]
      /\ byte' = [byte EXCEPT ![r] = [ResetBytes EXCEPT ![c.first] = Client]]
      /\ live' = live \cup {<<r, c.first>>}
  BY <1>1, <1>3 DEF TakeCell
<1>5. end \in Nat /\ end >= 1 /\ end \in 1 .. (end + 1) - 1 /\ end + 1 \in Nat
  BY KeptFacts DEF CellsInv
<1> HIDE DEF c, r
<1>6. /\ Kept(ch, end + 1, by, live) /\ ch[end] = c
      /\ Data(ch, end + 1) = Data(chunks, end) \cup {r}
  BY <1>2, <1>3, KeptPush DEF CellsInv
<1>7. byte \in [Regions -> Row]
  BY DEF CellsInv, Kept
<1>8. /\ by[c.data] = ResetBytes
      /\ byte' = [by EXCEPT ![c.data] = [ResetBytes EXCEPT ![c.first] = Client]]
  BY <1>2, <1>3, <1>4, <1>7
<1>9. Taken(ch, by, c, ResetBytes, end)
  BY <1>3, <1>4, <1>8 DEF Taken
<1> HIDE DEF ch, by
<1>10. /\ Kept(chunks', end + 1, byte', live')
      /\ Data(chunks', end + 1) = Data(chunks, end) \cup {r}
  BY <1>3, <1>5, <1>6, <1>8, <1>9, TakeCellKeeps
<1>11. allocChunk' \in 1 .. end' /\ freeChunk' \in InUse' \cup {1}
  BY <1>1, <1>5
<1> QED
  BY <1>1, <1>2, <1>10, <1>11 DEF CellsInv

LEMMA AllocateLargeKeeps == CellsInv /\ AllocateLarge => CellsInv'
<1> SUFFICES ASSUME CellsInv, AllocateLarge PROVE CellsInv'
  OBVIOUS
<1> DEFINE r == Provided
           row == [i \in Cells |-> Client]
<1>1. /\ TakeRegion /\ large' = large \cup {r} /\ byte' = [byte EXCEPT ![r] = row]
      /\ UNCHANGED <<chunks, end, allocChunk, freeChunk, live>>
  BY DEF AllocateLarge
<1>2. /\ r \in Regions /\ r \notin Data(chunks, end)
      /\ Places(Data(chunks, end), large \cup {r}, buckets'[NumCells], regions')
      /\ BucketsOK'
  BY <1>1, TakeRegionIs DEF CellsInv
<1>3. Kept(chunks', end', byte', live')
  BY <1>1, <1>2, OtherBytes DEF CellsInv, Row
<1> QED
  BY <1>1, <1>2, <1>3 DEF CellsInv, InUse

LEMMA FreeLargeKeeps ==
  ASSUME CellsInv, NEW r \in large, FreeLarge(r)
  PROVE  CellsInv'
<1>1. /\ GiveRegion(r, NumCells) /\ large' = large \ {r}
      /\ UNCHANGED <<chunks, end, allocChunk, freeChunk, byte, regions, live>>
  BY DEF FreeLarge
<1>2. /\ Places(Data(chunks, end) \ {r}, large \ {r}, buckets'[NumCells], regions)
      /\ BucketsOK'
  BY <1>1, GiveRegionIs DEF CellsInv
<1>3. Data(chunks, end) \ {r} = Data(chunks, end)
  BY DEF CellsInv, Places
<1> QED
  BY <1>1, <1>2, <1>3 DEF CellsInv, InUse

\* free finds the chunk of the cell and puts the cell before its free ones.
LEMMA FreedKept ==
  ASSUME CellsInv, NEW p \in live, NEW k, k = FindChunk(p)
  PROVE  /\ k \in 1 .. end - 1 /\ Freed(p, k) \in Chunk
         /\ Kept([chunks EXCEPT ![k] = Freed(p, k)], end, FreedByte(p, k), live \ {p})
         /\ Data([chunks EXCEPT ![k] = Freed(p, k)], end) = Data(chunks, end)
<1> DEFINE c == chunks[k]
           b == byte[p[1]]
           F == FreeIn(live, p[1])
           lw == live \ {p}
<1>1. p[1] \in Regions /\ p[2] \in Cells /\ p = <<p[1], p[2]>>
  BY DEF CellsInv, Kept
<1>2. \E j \in 1 .. end - 1 : chunks[j].data = p[1]
  BY DEF CellsInv, Kept, Here, Data
<1>3. freeChunk \in InUse
  <2>1. end \in Nat
    BY KeptFacts DEF CellsInv
  <2>2. 1 \in 1 .. end - 1
    BY <1>2, <2>1
  <2> QED
    BY <2>2 DEF CellsInv, InUse
<1>4. k \in 1 .. end - 1 /\ c.data = p[1]
  BY <1>2, <1>3 DEF FindChunk, InUse
<1>5. c \in Chunk /\ b \in Row
  BY <1>1, <1>4, KeptFacts DEF CellsInv, Kept
<1>6. Exact(c, b, F) /\ p[2] \notin F
  BY <1>1, <1>4 DEF CellsInv, Kept, Lists, FreeIn
<1>7. PICK c1, b1 :
         /\ c1 = [c EXCEPT !.first = p[2], !.avail = @ + 1]
         /\ b1 = [b EXCEPT ![p[2]] = c.first]
         /\ c1 \in Chunk /\ c1.data = c.data /\ b1 \in Row
         /\ Exact(c1, b1, F \cup {p[2]})
  BY <1>1, <1>5, <1>6, CellGiven
<1>8. Freed(p, k) = c1
  BY <1>7 DEF Freed
<1>9. FreedByte(p, k) = [byte EXCEPT ![c1.data] = b1]
  BY <1>4, <1>7 DEF FreedByte
<1>10. lw \in SUBSET (Regions \X Cells)
  BY DEF CellsInv, Kept
<1>11. c1 \in Chunk /\ c1.data = c.data /\ b1 \in Row /\ Exact(c1, b1, F \cup {p[2]})
  BY <1>7
<1>12. \A q \in Regions \X Cells : q[1] # c1.data => (q \in lw <=> q \in live)
  BY <1>4, <1>11
<1>13. FreeIn(lw, c1.data) = F \cup {p[2]}
  <2>1. \A i \in Cells : <<p[1], i>> = p <=> i = p[2]
    BY <1>1
  <2>2. \A i \in Cells : <<p[1], i>> \notin lw <=> (<<p[1], i>> \notin live \/ i = p[2])
    BY <2>1
  <2> QED
    BY <1>1, <1>4, <1>11, <2>2 DEF FreeIn
<1> HIDE DEF F, lw, c, b
<1>14. Exact(c1, b1, FreeIn(lw, c1.data))
  BY <1>11, <1>13
<1>15. c1.data = chunks[k].data
  BY <1>11 DEF c
<1>16. Kept(chunks, end, byte, live)
  BY DEF CellsInv
<1>17. /\ Kept([chunks EXCEPT ![k] = c1], end, [byte EXCEPT ![c1.data] = b1], lw)
       /\ Data([chunks EXCEPT ![k] = c1], end) = Data(chunks, end)
  BY <1>4, <1>10, <1>11, <1>12, <1>14, <1>15, <1>16, KeptReplace
<1> QED
  BY <1>4, <1>8, <1>9, <1>11, <1>17 DEF lw

\* The chunk is kept where it is.
LEMMA FreeKeeps ==
  ASSUME CellsInv, NEW p \in live, NEW k, k = FindChunk(p),
         chunks' = [chunks EXCEPT ![k] = Freed(p, k)], Keep(FreedByte(p, k)),
         live' = live \ {p}, freeChunk' = k, UNCHANGED <<allocChunk, regions, large>>
  PROVE  CellsInv'
<1>1. /\ k \in 1 .. end - 1 /\ Kept(chunks', end, byte', live')
      /\ Data(chunks', end) = Data(chunks, end)
  BY FreedKept DEF Keep
<1>2. end' = end /\ buckets' = buckets
  BY DEF Keep
<1> QED
  BY <1>1, <1>2 DEF CellsInv, BucketsOK, InUse

\* The last chunk goes, and its memory to the bucket of whole chunks.
LEMMA ReleaseKeeps ==
  ASSUME CellsInv, NEW p \in live, NEW k, k = FindChunk(p),
         chunks' = [chunks EXCEPT ![k] = Freed(p, k)], live' = live \ {p},
         NEW c, c = chunks'[end - 1], IsFree(c), ReleaseCell(c, FreedByte(p, k)), end' = end - 1,
         allocChunk' \in 1 .. end', freeChunk' \in InUse' \cup {1},
         UNCHANGED <<regions, large>>
  PROVE  CellsInv'
<1> DEFINE r == c.data
           row == [i \in Cells |-> Client]
<1>1. k \in 1 .. end - 1 /\ Kept(chunks', end, FreedByte(p, k), live')
      /\ Data(chunks', end) = Data(chunks, end)
  BY FreedKept
<1>2. end > 1 /\ IsFree(chunks'[end - 1]) /\ row \in Row
  BY <1>1, KeptFacts DEF CellsInv, Row
<1> HIDE DEF row
<1>3. /\ Kept(chunks', end - 1, [FreedByte(p, k) EXCEPT ![r] = row], live')
      /\ Data(chunks', end - 1) = Data(chunks, end) \ {r}
      /\ r \in Data(chunks, end)
  <2>1. PICK ch, by, lw : ch = chunks' /\ by = FreedByte(p, k) /\ lw = live'
    OBVIOUS
  <2>2. Kept(ch, end, by, lw) /\ end > 1 /\ IsFree(ch[end - 1]) /\ row \in Row
    BY <1>1, <1>2, <2>1
  <2>3. /\ Kept(ch, end - 1, [by EXCEPT ![ch[end - 1].data] = row], lw)
        /\ Data(ch, end - 1) = Data(ch, end) \ {ch[end - 1].data}
        /\ ch[end - 1].data \in Data(ch, end)
    BY <2>2, KeptDrop
  <2> QED
    BY <1>1, <2>1, <2>3
<1>4. GiveRegion(r, NumCells) /\ byte' = [FreedByte(p, k) EXCEPT ![r] = row]
  BY DEF ReleaseCell, IsFree, row
<1>5. /\ Places(Data(chunks, end) \ {r}, large \ {r}, buckets'[NumCells], regions)
      /\ BucketsOK'
  BY <1>3, <1>4, GiveRegionIs DEF CellsInv
<1>6. large \ {r} = large
  BY <1>3 DEF CellsInv, Places
<1> QED
  BY <1>3, <1>4, <1>5, <1>6 DEF CellsInv

LEMMA FreeCellKeeps ==
  ASSUME CellsInv, NEW p \in live, Free(p), FreeCell(p, FindChunk(p))
  PROVE  CellsInv'
BY FreeKeeps DEF Free, FreeCell

LEMMA FreeLastKeeps ==
  ASSUME CellsInv, NEW p \in live, Free(p), FreeLast(p, FindChunk(p))
  PROVE  CellsInv'
<1> DEFINE k == FindChunk(p)
<1>1. /\ k \in 1 .. end - 1 /\ IsFree(Freed(p, k)) /\ k = end - 1
      /\ chunks' = [chunks EXCEPT ![k] = Freed(p, k)]
      /\ live' = live \ {p} /\ UNCHANGED <<regions, large>>
  BY FreedKept DEF Free, FreeLast
<1>2. CASE k > 1 /\ IsFree(chunks[k - 1])
  <2>1. /\ ReleaseCell(Freed(p, k), FreedByte(p, k)) /\ end' = end - 1
        /\ allocChunk' = 1 /\ freeChunk' = 1
    BY <1>2 DEF FreeLast
  <2>2. end \in Nat /\ k \in DOMAIN chunks
    BY <1>1, KeptFacts DEF CellsInv
  <2>3. chunks'[end - 1] = Freed(p, k)
    BY <1>1, <2>2
  <2>4. allocChunk' \in 1 .. end' /\ freeChunk' \in InUse' \cup {1}
    BY <1>1, <1>2, <2>1, <2>2
  <2> HIDE DEF k
  <2> QED
    BY <1>1, <2>1, <2>3, <2>4, ReleaseKeeps DEF k
<1>3. CASE ~(k > 1 /\ IsFree(chunks[k - 1]))
  BY <1>1, <1>3, FreeKeeps DEF FreeLast
<1> QED
  BY <1>2, <1>3

LEMMA FreeOtherKeeps ==
  ASSUME CellsInv, NEW p \in live, Free(p), FreeOther(p, FindChunk(p))
  PROVE  CellsInv'
<1> DEFINE k  == FindChunk(p)
           ch == [chunks EXCEPT ![k] = Freed(p, k)]
<1>1. /\ k \in 1 .. end - 1 /\ Freed(p, k) \in Chunk
      /\ Kept(ch, end, FreedByte(p, k), live \ {p})
      /\ Data(ch, end) = Data(chunks, end)
  BY FreedKept
<1>2. /\ k # end - 1 /\ freeChunk' = k
      /\ live' = live \ {p} /\ UNCHANGED <<regions, large>>
  BY DEF Free, FreeOther
<1>3. /\ end \in Nat /\ end >= 1 /\ end - 1 \in 1 .. end - 1 /\ k \in 1 .. (end - 1) - 1
      /\ k \in 1 .. end /\ k \in 1 .. end - 1
  <2>1. end \in Nat /\ end >= 1
    BY KeptFacts DEF CellsInv
  <2> QED
    BY <1>1, <1>2, <2>1
<1>4. k \in DOMAIN chunks /\ end - 1 \in DOMAIN chunks /\ chunks \in Seq(Chunk)
  BY <1>3, KeptFacts DEF CellsInv, Kept
<1>5. ch[k] = Freed(p, k) /\ ch[end - 1] = chunks[end - 1] /\ DOMAIN ch = DOMAIN chunks
  BY <1>2, <1>4
<1>6. CASE IsFree(chunks[end - 1])
  <2>1. /\ chunks' = ch /\ ReleaseCell(chunks[end - 1], FreedByte(p, k)) /\ end' = end - 1
        /\ allocChunk' = k
    BY <1>6 DEF FreeOther
  <2>2. allocChunk' \in 1 .. end' /\ freeChunk' \in InUse' \cup {1}
    BY <1>2, <1>3, <2>1 DEF InUse
  <2>3. chunks'[end - 1] = chunks[end - 1]
    BY <1>5, <2>1
  <2> QED
    BY <1>2, <1>6, <2>1, <2>2, <2>3, ReleaseKeeps
<1>7. CASE ~IsFree(chunks[end - 1])
  <2>1. /\ chunks' = [chunks EXCEPT ![k] = chunks[end - 1], ![end - 1] = Freed(p, k)]
        /\ byte' = FreedByte(p, k) /\ buckets' = buckets /\ end' = end
        /\ allocChunk' = end - 1
    BY <1>7 DEF FreeOther, Keep
  <2>2. /\ DOMAIN chunks' = DOMAIN chunks /\ chunks'[k] = ch[end - 1] /\ chunks'[end - 1] = ch[k]
        /\ \A i \in DOMAIN ch : i # k /\ i # end - 1 => chunks'[i] = ch[i]
    BY <1>2, <1>4, <1>5, <2>1
  <2>3. chunks' \in Seq(Chunk) /\ Len(chunks') = Len(ch)
    <3>1. chunks[end - 1] \in Chunk
      BY <1>3, KeptFacts DEF CellsInv
    <3>2. PICK d : d = [chunks EXCEPT ![k] = chunks[end - 1]]
      OBVIOUS
    <3>3. Len(chunks) \in Nat /\ DOMAIN chunks = 1 .. Len(chunks)
      BY <1>4, LenProperties
    <3>4. d \in Seq(Chunk) /\ Len(d) = Len(chunks)
      BY <1>4, <3>1, <3>2, <3>3, ExceptSeq
    <3>5. chunks' = [d EXCEPT ![end - 1] = Freed(p, k)]
      BY <2>1, <3>2
    <3>6. chunks' \in Seq(Chunk) /\ Len(chunks') = Len(d)
      BY <1>1, <1>4, <3>3, <3>4, <3>5, ExceptSeq
    <3>7. Len(ch) = Len(chunks)
      BY <1>1, <1>4, <3>3, ExceptSeq
    <3> QED
      BY <3>4, <3>6, <3>7
  <2> HIDE DEF k, ch
  <2>4. Kept(chunks', end, FreedByte(p, k), live \ {p}) /\ Data(chunks', end) = Data(ch, end)
    BY <1>1, <1>2, <1>3, <2>2, <2>3, KeptSwap
  <2>5. allocChunk' \in 1 .. end' /\ freeChunk' \in InUse' \cup {1}
    <3>1. end - 1 \in 1 .. end
      BY <1>3
    <3> QED
      BY <1>2, <1>3, <2>1, <3>1 DEF InUse
  <2> QED
    BY <1>1, <1>2, <2>1, <2>4, <2>5 DEF CellsInv, BucketsOK
<1> QED
  BY <1>6, <1>7

LEMMA CellsInductive == CellsInv /\ [HeapNext]_heapVars => CellsInv'
<1> SUFFICES ASSUME CellsInv, [HeapNext]_heapVars PROVE CellsInv'
  OBVIOUS
<1>1. CASE UNCHANGED heapVars
  BY <1>1 DEF heapVars, CellsInv, BucketsOK, InUse
<1>2. CASE AllocateHere \/ AllocateSearch \/ AllocateChunk \/ AllocateLarge
  BY <1>2, AllocateHereKeeps, AllocateSearchKeeps, AllocateChunkKeeps, AllocateLargeKeeps
<1>3. ASSUME NEW p \in live, Free(p) PROVE CellsInv'
  BY <1>3, FreeCellKeeps, FreeLastKeeps, FreeOtherKeeps DEF Free
<1>4. ASSUME NEW r \in large, FreeLarge(r) PROVE CellsInv'
  BY <1>4, FreeLargeKeeps
<1> QED
  BY <1>1, <1>2, <1>3, <1>4 DEF HeapNext

LEMMA CellsAlways == HeapSpec => []CellsInv
BY CellsInitInv, CellsInductive, PTL DEF HeapSpec

\* The free list in the bytes of a chunk runs through exactly the cells that no
\* client has, each once.
THEOREM NoCellGivenTwice == HeapSpec => []FreeListsExact
<1>1. CellsInv => FreeListsExact
  BY DEF CellsInv, Kept, Lists, Exact, FreeIn, FreeListsExact, InUse
<1> QED
  BY <1>1, CellsAlways, PTL

\* free finds the chunk of every cell of a client, whatever was released, swapped
\* or put in place of a released one.
THEOREM FreeFindsTheChunk == HeapSpec => []LiveInChunks
<1>1. CellsInv => LiveInChunks
  <2> SUFFICES ASSUME CellsInv, NEW p \in live
               PROVE  /\ \E k \in InUse : chunks[k].data = p[1]
                      /\ freeChunk \in InUse /\ allocChunk \in 1 .. end
    BY DEF LiveInChunks
  <2>1. PICK k \in 1 .. end - 1 : chunks[k].data = p[1]
    BY DEF CellsInv, Kept, Here, Data
  <2>2. end \in Nat
    BY KeptFacts DEF CellsInv
  <2>3. 1 \in 1 .. end - 1
    BY <2>1, <2>2
  <2> QED
    BY <2>1, <2>3 DEF CellsInv, InUse
<1> QED
  BY <1>1, CellsAlways, PTL

\* No region of the storage is given to two owners, and none is lost.
THEOREM EveryRegionPlaced == HeapSpec => []RegionsOnce
<1>1. CellsInv => RegionsOnce
  <2> SUFFICES ASSUME CellsInv PROVE RegionsOnce
    OBVIOUS
  <2>1. Data(chunks, end) = {chunks[k].data : k \in InUse}
    BY DEF Data, InUse
  <2>2. IsInjective([k \in InUse |-> chunks[k].data])
    BY DEF CellsInv, Kept, Distinct, IsInjective, InUse
  <2> QED
    BY <2>1, <2>2 DEF CellsInv, Places, RegionsOnce
<1> QED
  BY <1>1, CellsAlways, PTL

\* The iterators point into the list, and a count or an index of a chunk never
\* leaves the range of a byte.
THEOREM CountsFitAByte == HeapSpec => []HeapTypeOK
<1>1. CellsInv => HeapTypeOK
  BY DEF CellsInv, Kept, Places, BucketsOK, HeapTypeOK, Row
<1> QED
  BY <1>1, CellsAlways, PTL
=============================================================================
