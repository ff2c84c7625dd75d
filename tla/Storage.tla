------------------------------ MODULE Storage ------------------------------
(***************************************************************************)
(* quark::expandable_storage (quark/mempool/storage.h) and the              *)
(* service_storage its vector of chunks lives in (service_mempool.cpp):     *)
(* memory is cut from the front of the current chunk and never given back.  *)
(* A chunk of the storage is one entry of _chunks; when the vector is full  *)
(* it asks the service storage for twice its size, and what it leaves stays *)
(* allocated.                                                               *)
(***************************************************************************)
EXTENDS Naturals, Sequences, FiniteSets

CONSTANTS
    StorageChunk,    \* _ChunkSize of expandable_storage
    ServiceChunk,    \* SERVICE_STORAGE_CHUNK_SIZE
    Reserved,        \* _chunks.reserve(10)
    EntrySize,       \* sizeof(void*)
    Requests,        \* sizes that are asked for
    MaxBlocks,       \* bound on the requests
    SizeBits         \* width of size_t

ASSUME StorageAssumption ==
    /\ StorageChunk \in Nat \ {0} /\ ServiceChunk \in Nat \ {0}
    /\ Reserved \in Nat \ {0} /\ EntrySize \in Nat \ {0}
    /\ Reserved * EntrySize <= ServiceChunk
    /\ Requests \subseteq Nat \ {0} /\ MaxBlocks \in Nat
    /\ SizeBits \in Nat /\ ServiceChunk < 2 ^ SizeBits

VARIABLES storageChunks,       \* sizes of the chunks of _chunks, in order
          remain,       \* _remainSize; the current chunk ends where it is used up
          current,      \* place of the current chunk among them
          blocksGiven,      \* blocks given out: chunk, offset, size
          capacity,     \* capacity of the vector _chunks
          service       \* the service storage: chunks, _remainSize, blocks

storageVars == <<storageChunks, remain, current, blocksGiven, capacity, service>>

Block(c, offset, size) == [chunk |-> c, offset |-> offset, size |-> size]

\* service_storage::allocate has no path for a request larger than a chunk;
\* _remainSize is a size_t.
ServiceAllocate(s, size) ==
    LET fresh == size > s.remain
        n == IF fresh THEN s.chunks + 1 ELSE s.chunks
        left == IF fresh THEN ServiceChunk ELSE s.remain
        used == IF fresh THEN 0 ELSE s.used
    IN  [chunks |-> n, remain |-> (left + 2 ^ SizeBits - size) % 2 ^ SizeBits,
         used |-> used + size,
         blocks |-> s.blocks \cup {Block(n, used, size)}]

\* push_back of _chunks
Pushed(size) ==
    /\ storageChunks' = Append(storageChunks, size)
    /\ IF Len(storageChunks) < capacity THEN UNCHANGED <<capacity, service>>
       ELSE /\ capacity' = 2 * capacity
            /\ service' = ServiceAllocate(service, 2 * capacity * EntrySize)

StorageInit ==
    /\ storageChunks = <<StorageChunk>> /\ remain = StorageChunk /\ current = 1
    /\ blocksGiven = {} /\ capacity = Reserved
    /\ service = ServiceAllocate([chunks |-> 1, remain |-> ServiceChunk, used |-> 0,
                                  blocks |-> {}], Reserved * EntrySize)

\* extraAllocate: a request larger than a chunk gets a chunk of its own.
ExtraAllocate(size) ==
    /\ size > StorageChunk
    /\ Pushed(size)
    /\ blocksGiven' = blocksGiven \cup {Block(Len(storageChunks'), 0, size)}
    /\ UNCHANGED <<remain, current>>

\* newChunk, for what does not fit; the rest of the old chunk is lost.
AllocateNewChunk(size) ==
    /\ size <= StorageChunk /\ size > remain
    /\ Pushed(StorageChunk)
    /\ current' = Len(storageChunks')
    /\ remain' = StorageChunk - size
    /\ blocksGiven' = blocksGiven \cup {Block(current', 0, size)}

\* Mistake: newChunk makes the last chunk of the vector the current one, without
\* starting it.
AllocateLastChunk(size) ==
    /\ size <= StorageChunk /\ size <= remain
    /\ remain' = remain - size
    /\ blocksGiven' = blocksGiven \cup {Block(Len(storageChunks), StorageChunk - remain, size)}
    /\ UNCHANGED <<storageChunks, current, capacity, service>>

AllocateCurrent(size) ==
    /\ size <= StorageChunk /\ size <= remain
    /\ remain' = remain - size
    /\ blocksGiven' = blocksGiven \cup {Block(current, StorageChunk - remain, size)}
    /\ UNCHANGED <<storageChunks, current, capacity, service>>

StorageNext == \E size \in Requests :
                  /\ Cardinality(blocksGiven) < MaxBlocks
                  /\ \/ ExtraAllocate(size) \/ AllocateNewChunk(size)
                     \/ AllocateCurrent(size)

StorageSpec == StorageInit /\ [][StorageNext]_storageVars
-----------------------------------------------------------------------------
Apart(B) == \A a, b \in B : \/ a = b \/ a.chunk # b.chunk
                            \/ a.offset + a.size <= b.offset
                            \/ b.offset + b.size <= a.offset

Within(B, size(_)) == \A b \in B : b.offset + b.size <= size(b.chunk)

\* No two blocks overlap, and each lies in its chunk; for the service storage as
\* long as the vector of chunks fits into one of its chunks.
BlocksSound ==
    /\ Apart(blocksGiven) /\ Within(blocksGiven, LAMBDA c : storageChunks[c])
    /\ capacity * EntrySize <= ServiceChunk =>
          Apart(service.blocks) /\ Within(service.blocks, LAMBDA c : ServiceChunk)
=============================================================================
