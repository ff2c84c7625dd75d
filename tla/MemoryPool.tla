----------------------------- MODULE MemoryPool -----------------------------
(***************************************************************************)
(* quark::memory_pool with its small_allocator on a middle_allocator        *)
(* (quark/mempool): one small_alloc_block, which cuts chunks of memory into *)
(* cells of one size, and the bucket of the middle_allocator it takes its   *)
(* chunks from, shared with clients whose objects are as large as a chunk.  *)
(* The pool is locked by a mutex through every call, so a call is one step. *)
(* A free cell holds, in its first byte, the index of the next free cell.   *)
(*                                                                          *)
(* The iterators of the list of chunks are modelled as positions: the list  *)
(* never loses an element, pop_back only moves _end back over the last one. *)
(***************************************************************************)
EXTENDS Naturals, Sequences, FiniteSets, FiniteSetsExt, SequencesExt

CONSTANTS ByteMax,     \* UCHAR_MAX
          ChunkSize,   \* _ChunkSize, in the unit of BlockSize
          BlockSize,   \* _blockSize, the size of a cell
          MaxRegions,  \* bound: regions taken from the storage
          Client       \* what a byte that belongs to a client holds

ASSUME SizesAssumption == /\ ByteMax \in Nat \ {0} /\ ChunkSize \in Nat
                          /\ BlockSize \in 1 .. ChunkSize
ASSUME BoundAssumption == MaxRegions \in Nat
ASSUME ClientAssumption == Client \notin 0 .. ByteMax

VARIABLES chunks,      \* the elements of _chunks._list
          end,         \* _chunks._end
          allocChunk,  \* _pAllocChunk
          freeChunk,   \* _pFreeChunk
          byte,        \* byte[r][i]: the first byte of cell i of region r
          buckets,     \* buckets[n]: free regions that were given back with
                       \* the size of n cells, the last one first
          regions,     \* regions taken from the storage so far
          live,        \* cells <<r, i>> that belong to clients
          large        \* regions that belong to clients as a whole

heapVars == <<chunks, end, allocChunk, freeChunk, byte, buckets, regions, live, large>>

NumCells == Min({ChunkSize \div BlockSize, ByteMax})

Regions == 1 .. MaxRegions
Cells   == 0 .. NumCells - 1
Chunk   == [data : Regions, first : 0 .. ByteMax, avail : 0 .. ByteMax]

HeapInit ==
    /\ chunks = <<>> /\ end = 1 /\ allocChunk = 1 /\ freeChunk = 1
    /\ byte = [r \in Regions |-> [i \in Cells |-> Client]]
    /\ buckets = [n \in 0 .. NumCells |-> <<>>]
    /\ regions = 0 /\ live = {} /\ large = {}

InUse == 1 .. end - 1          \* the positions from begin() to end()

(***************************************************************************)
(* middle_allocator, for objects of the size of a chunk                     *)
(***************************************************************************)
Recycled == Head(buckets[NumCells])
IsRecycled == buckets[NumCells] # <<>>
Provided == IF IsRecycled THEN Recycled ELSE regions + 1

\* The top of the bucket, or memory of the storage when the bucket is empty.
TakeRegion ==
    \/ /\ IsRecycled
       /\ buckets' = [buckets EXCEPT ![NumCells] = Tail(@)]
       /\ UNCHANGED regions
    \/ /\ ~IsRecycled
       /\ regions < MaxRegions
       /\ regions' = regions + 1
       /\ UNCHANGED buckets

GiveRegion(r, n) == buckets' = [buckets EXCEPT ![n] = <<r>> \o @]

AllocateLarge ==
    /\ TakeRegion
    /\ large' = large \cup {Provided}
    /\ byte' = [byte EXCEPT ![Provided] = [i \in Cells |-> Client]]
    /\ UNCHANGED <<chunks, end, allocChunk, freeChunk, live>>

FreeLarge(r) ==
    /\ r \in large
    /\ GiveRegion(r, NumCells)
    /\ large' = large \ {r}
    /\ UNCHANGED <<chunks, end, allocChunk, freeChunk, byte, regions, live>>

(***************************************************************************)
(* small_alloc_block::allocate                                              *)
(***************************************************************************)
HasRoom(k) == k \in InUse /\ chunks[k].avail > 0

\* small_alloc_chunk::allocate, of a chunk c whose bytes are b, at position k.
TakeCell(c, b, k, list) ==
    /\ chunks' = [list EXCEPT ![k] =
           [c EXCEPT !.first = b[c.first], !.avail = @ - 1]]
    /\ byte' = [byte EXCEPT ![c.data] = [b EXCEPT ![c.first] = Client]]
    /\ live' = live \cup {<<c.data, c.first>>}

AllocateHere ==
    /\ HasRoom(allocChunk)
    /\ TakeCell(chunks[allocChunk], byte[chunks[allocChunk].data], allocChunk, chunks)
    /\ UNCHANGED <<end, allocChunk, freeChunk, buckets, regions, large>>

\* The first chunk with room.
AllocateSearch ==
    /\ ~HasRoom(allocChunk)
    /\ \E k \in InUse :
          /\ HasRoom(k) /\ \A j \in 1 .. k - 1 : ~HasRoom(j)
          /\ allocChunk' = k
          /\ TakeCell(chunks[k], byte[chunks[k].data], k, chunks)
    /\ UNCHANGED <<end, freeChunk, buckets, regions, large>>

\* small_alloc_chunk::reset: every cell names the one after it.
Reset(r) == [data |-> r, first |-> 0, avail |-> NumCells]
ResetBytes == [i \in Cells |-> i + 1]

\* service_list::push_back, over the element at _end if there is one.
PushBack(c) == IF end = Len(chunks) + 1 THEN Append(chunks, c)
                                        ELSE [chunks EXCEPT ![end] = c]

AllocateChunk ==
    /\ \A k \in InUse : ~HasRoom(k)
    /\ TakeRegion
    /\ TakeCell(Reset(Provided), ResetBytes, end, PushBack(Reset(Provided)))
    /\ end' = end + 1
    /\ allocChunk' = end
    /\ freeChunk' = 1
    /\ UNCHANGED large

(***************************************************************************)
(* small_alloc_block::free                                                  *)
(***************************************************************************)
\* findChunk looks down and up from _pFreeChunk, which has to be a chunk.
FindChunk(p) == CHOOSE k \in InUse : freeChunk \in InUse /\ chunks[k].data = p[1]

\* Mistake: the cell is not linked to those that were free before.
FreedByteUnlinked(p, k) == byte

\* small_alloc_chunk::free.
FreedByte(p, k) == [byte EXCEPT ![p[1]][p[2]] = chunks[k].first]
Freed(p, k) == [chunks[k] EXCEPT !.first = p[2], !.avail = @ + 1]

\* Mistake: the size given back is that of one cell.
ReleaseOneCell(c, bytes) ==
    /\ GiveRegion(c.data, 1)
    /\ byte' = [bytes EXCEPT ![c.data] = [i \in Cells |-> Client]]

\* The released region belongs to the middle_allocator, which writes into it.
ReleaseCell(c, bytes) ==
    /\ GiveRegion(c.data, c.avail)
    /\ byte' = [bytes EXCEPT ![c.data] = [i \in Cells |-> Client]]

Keep(bytes) == byte' = bytes /\ UNCHANGED <<buckets, end>>

IsFree(c) == c.avail = NumCells

\* The chunk is still in use.
FreeCell(p, k) ==
    /\ ~IsFree(Freed(p, k))
    /\ chunks' = [chunks EXCEPT ![k] = Freed(p, k)]
    /\ freeChunk' = k
    /\ Keep(FreedByte(p, k))
    /\ UNCHANGED allocChunk

\* The last chunk is free now; the one before it may be free already.
FreeLast(p, k) ==
    /\ IsFree(Freed(p, k)) /\ k = end - 1
    /\ chunks' = [chunks EXCEPT ![k] = Freed(p, k)]
    /\ \/ /\ k > 1 /\ IsFree(chunks[k - 1])
          /\ ReleaseCell(Freed(p, k), FreedByte(p, k))
          /\ end' = end - 1
          /\ allocChunk' = 1 /\ freeChunk' = 1
       \/ /\ ~(k > 1 /\ IsFree(chunks[k - 1]))
          /\ Keep(FreedByte(p, k))
          /\ freeChunk' = k
          /\ UNCHANGED allocChunk

\* Mistake: the last chunk goes, whether it is free or not.
FreeOtherDropsLast(p, k) ==
    /\ IsFree(Freed(p, k)) /\ k # end - 1
    /\ freeChunk' = k
    /\ chunks' = [chunks EXCEPT ![k] = Freed(p, k)]
    /\ ReleaseCell(chunks[end - 1], FreedByte(p, k))
    /\ end' = end - 1
    /\ allocChunk' = k

\* Another one is: the last one goes if it is free, or they change places.
FreeOther(p, k) ==
    /\ IsFree(Freed(p, k)) /\ k # end - 1
    /\ freeChunk' = k
    /\ \/ /\ IsFree(chunks[end - 1])
          /\ chunks' = [chunks EXCEPT ![k] = Freed(p, k)]
          /\ ReleaseCell(chunks[end - 1], FreedByte(p, k))
          /\ end' = end - 1
          /\ allocChunk' = k
       \/ /\ ~IsFree(chunks[end - 1])
          /\ chunks' = [chunks EXCEPT ![k] = chunks[end - 1],
                                      ![end - 1] = Freed(p, k)]
          /\ Keep(FreedByte(p, k))
          /\ allocChunk' = end - 1

Free(p) ==
    /\ p \in live
    /\ LET k == FindChunk(p) IN FreeCell(p, k) \/ FreeLast(p, k) \/ FreeOther(p, k)
    /\ live' = live \ {p}
    /\ UNCHANGED <<regions, large>>

HeapNext ==
    \/ AllocateHere \/ AllocateSearch \/ AllocateChunk \/ AllocateLarge
    \/ \E p \in live : Free(p)
    \/ \E r \in large : FreeLarge(r)

HeapSpec == HeapInit /\ [][HeapNext]_heapVars
-----------------------------------------------------------------------------
\* Every variable keeps its type, the iterators included: a block that has
\* chunks looks for a cell from one of them.
HeapTypeOK ==
    /\ chunks \in Seq(Chunk) /\ end \in 1 .. Len(chunks) + 1
    /\ allocChunk \in 1 .. end
    /\ freeChunk \in InUse \cup {1}
    /\ byte \in [Regions -> [Cells -> 0 .. ByteMax \cup {Client}]]
    /\ buckets \in [0 .. NumCells -> Seq(Regions)]
    /\ regions \in 0 .. MaxRegions
    /\ live \subseteq Regions \X Cells /\ large \subseteq Regions

\* The cells of l, in their order, are the list that begins at c.first and goes on
\* with what their bytes hold, b[i] for the cell i.
IsList(c, b, l) == /\ c.avail > 0 => l[1] = c.first
                   /\ \A n \in 1 .. c.avail - 1 : b[l[n]] = l[n + 1]

\* The list of free cells of every chunk runs through exactly the cells that
\* no client has, each once: no client gets a cell of another and none is lost.
FreeListsExact ==
    \A k \in InUse : LET c == chunks[k] IN
        \E l \in [1 .. c.avail -> Cells] :
            /\ IsList(c, byte[c.data], l) /\ IsInjective(l)
            /\ ToSet(l) = {i \in Cells : <<c.data, i>> \notin live}

\* Every cell of a client lies in a chunk of the list, so that free finds it,
\* whatever was released, swapped or put in place of a released one; and the
\* search has a chunk of the list to begin at.
LiveInChunks ==
    \A p \in live : /\ \E k \in InUse : chunks[k].data = p[1]
                    /\ freeChunk \in InUse /\ allocChunk \in 1 .. end

\* Every region taken from the storage has one place: a chunk, a client or the
\* bucket of its size. None is given out twice and none is lost.
RegionsOnce ==
    LET used == {chunks[k].data : k \in InUse} IN
    /\ IsInjective([k \in InUse |-> chunks[k].data])
    /\ IsInjective(buckets[NumCells])
    /\ used \cap large = {}
    /\ (used \cup large) \cap ToSet(buckets[NumCells]) = {}
    /\ used \cup large \cup ToSet(buckets[NumCells]) = 1 .. regions
=============================================================================
