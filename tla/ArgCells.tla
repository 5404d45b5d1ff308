------------------------------ MODULE ArgCells ------------------------------
(***************************************************************************)
(* The memory of args on the heap: the cache of freed cells in dataArg.c,  *)
(* the heap count of dataMemory.c, and the block pool below (MemPool, here *)
(* by its promise: a request gets any free run of blocks). The builds with *)
(* PIKA_ARG_CACHE_ENABLE, PIKA_POOL_ENABLE and PIKA_ARG_ALIGN_ENABLE.      *)
(*                                                                         *)
(* A cell is named by its first block. It remembers how many bytes it was  *)
(* allocated with (heap) and how many its content has now (size).          *)
(***************************************************************************)
EXTENDS Integers, Sequences, FiniteSetsExt, SequencesExt

CONSTANTS Block,         \* the blocks of the pool, numbers
          Aline,         \* bytes of a block
          ArgSize,       \* sizeof(Arg)
          CacheSize,     \* PIKA_ARG_CACHE_SIZE
          CacheMax,      \* 2 * PIKA_ARG_CACHE_SIZE, as the macro expands
          CachePoolSize  \* PIKA_ARG_CACHE_POOL_SIZE

ASSUME CellAssumption ==
  /\ Block \subseteq Nat
  /\ Aline \in Nat \ {0} /\ ArgSize \in Nat \ {0}
  /\ CacheSize \in Nat /\ CacheMax \in Nat /\ CacheSize <= CacheMax
  /\ CachePoolSize \in Nat

VARIABLE mem  \* [used: the bitmap, cell, cache_pool, heapUsed]

MemInit == mem = [used |-> {}, cell |-> <<>>, cache_pool |-> <<>>, heapUsed |-> 0]

mem_align(n) == ((n + 3) \div 4) * 4

(* Bytes requested for a cell with a content of size bytes.                *)
Req(size) == mem_align(ArgSize + size)

Run(a, bytes) == a .. a + (bytes + Aline - 1) \div Aline - 1

(* _arg_cache_pop: any cached cell will do for a small enough request.     *)
CacheHitAny(m, size) == m.cache_pool # <<>>
CacheHit(m, size) == Req(size) <= CacheSize /\ m.cache_pool # <<>>

(* _arg_set_hash, which makes every new cell: where it can be...           *)
FreeRuns(m, bytes) == {a \in Block : Run(a, bytes) \subseteq Block \ m.used}
Places(m, size) ==
  IF CacheHit(m, size) THEN {Last(m.cache_pool)}
  ELSE FreeRuns(m, Req(size))

(* ... and the memory with it at a.                                        *)
NewCell(m, a, size) ==
  IF CacheHit(m, size)
  THEN [m EXCEPT !.cache_pool = Front(@), !.cell[a].size = size, !.heapUsed = @ + Req(size)]
  ELSE [m EXCEPT !.used = @ \cup Run(a, Req(size)),
                 !.cell = [x \in DOMAIN @ \cup {a} |->
                             IF x = a THEN [size |-> size, heap |-> Req(size)] ELSE @[x]],
                 !.heapUsed = @ + Req(size)]

(* _arg_cache_push.                                                        *)
Cacheable(m, a) == /\ m.cell[a].heap >= CacheSize /\ m.cell[a].heap <= CacheMax
                   /\ Len(m.cache_pool) < CachePoolSize

(* arg_freeContent: into the cache, or back to the pool (pikaFree) by the  *)
(* size of the present content.                                            *)
FreedBytesContent(c) == mem_align(c.size)
FreedBytes(c) == Req(c.size)
FreeCell(m, a) ==
  IF Cacheable(m, a)
  THEN [m EXCEPT !.cache_pool = Append(@, a), !.heapUsed = @ - Req(m.cell[a].size)]
  ELSE [m EXCEPT !.used = @ \ Run(a, FreedBytes(m.cell[a])),
                 !.cell = [x \in DOMAIN @ \ {a} |-> @[x]],
                 !.heapUsed = @ - Req(m.cell[a].size)]

(* arg_append by extra bytes: in place while the allocation is larger than *)
(* the need (InPlace), else into a new cell.                               *)
InPlace(m, a, extra) == m.cell[a].heap > Req(m.cell[a].size + extra)
GrownUncounted(m, a, extra) == [m EXCEPT !.cell[a].size = @ + extra]
Grown(m, a, extra) ==
  [m EXCEPT !.cell[a].size = @ + extra,
            !.heapUsed = @ + Req(m.cell[a].size + extra) - Req(m.cell[a].size)]

-----------------------------------------------------------------------------
Cached(m) == Range(m.cache_pool)
LiveCells(m) == DOMAIN m.cell \ Cached(m)

(* What the live cells ask for.                                            *)
Asked(m) == [a \in LiveCells(m) |-> Req(m.cell[a].size)]

(* Blocks that are marked used and belong to no cell any more.             *)
Strays(m) == m.used \ UNION {Run(a, m.cell[a].heap) : a \in DOMAIN m.cell}

(* Cells, live or cached, never share a block, all their blocks are marked *)
(* used, and the content fits: a cell from the cache was allocated for     *)
(* another size than the one it is used and freed with.                    *)
CellsExclusive ==
  \A a \in DOMAIN mem.cell :
    /\ Run(a, mem.cell[a].heap) \subseteq mem.used
    /\ ArgSize + mem.cell[a].size <= mem.cell[a].heap
    /\ \A b \in DOMAIN mem.cell \ {a} :
         Run(a, mem.cell[a].heap) \cap Run(b, mem.cell[b].heap) = {}
    /\ Cardinality({i \in DOMAIN mem.cache_pool : mem.cache_pool[i] = a}) <= 1

(* The heap count is the sum of what the live cells asked for, so that     *)
(* pikaMemNow is 0 again when all are freed, through reuse and growth.     *)
HeapExact == mem.heapUsed = SumFunction(Asked(mem))

(* Blocks are lost only by freeing a cell that was reused for a smaller    *)
(* content while the cache is full.                                        *)
LostOnlyWhenCacheFull ==
  [][Strays(mem') \subseteq Strays(mem)
       \/ /\ Len(mem.cache_pool) = CachePoolSize
          /\ \E a \in LiveCells(mem) : /\ a \notin DOMAIN mem'.cell
                                       /\ Req(mem.cell[a].size) < mem.cell[a].heap]_mem
=============================================================================
