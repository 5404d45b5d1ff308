------------------------------ MODULE MemPool ------------------------------
(***************************************************************************)
(* The memory pool of dataMemory.c (PIKA_POOL_ENABLE): pool_malloc and     *)
(* pool_free over a bitmap with two cached indices,                        *)
(*   first_free_block       no free block below it,                        *)
(*   purl_free_block_start  every block from it on is free ("purl" free).  *)
(*                                                                         *)
(* The two loops of the code (the low speed search of pool_malloc, the     *)
(* walk back of pool_free) are steps of the model, one per iteration, so   *)
(* that the proof can give each its loop invariant. The pool is called     *)
(* with interrupts disabled and under the GIL: calls do not interleave.    *)
(***************************************************************************)
EXTENDS Integers

CONSTANTS Handle,  \* the pointer variables of the callers
          aline,   \* bytes per block
          size,    \* bytes of the pool, a multiple of aline
          Request, \* byte sizes callers ask for
          UintMax, \* largest uint32_t
          NoMem    \* a handle that holds no allocation

(* pool_getBlockIndex_byMemSize: blocks that hold n bytes.                 *)
BlockIndex_byMemSize(n) == IF n = 0 THEN 0 ELSE ((n - 1) \div aline) + 1

(* block_index_max of pool_malloc.                                         *)
MaxBlock == BlockIndex_byMemSize(size)

Block == 0 .. MaxBlock - 1

ASSUME PoolAssumption ==
  /\ aline \in Nat \ {0}
  /\ size \in Nat
  /\ Request \subseteq Nat
  /\ UintMax \in Nat
  /\ MaxBlock < UintMax
  /\ NoMem \notin [mem : Nat, size : Nat]

VARIABLES
  bitmap,                \* bitmap[b] = 1: block b is in use
  first_free_block,
  purl_free_block_start,
  live,                  \* live[h]: pointer (offset in pool->mem) and size
  ret,                   \* what the last completed call returned (value, and
                         \* the blocks it had been asked for)
  pc,                    \* "idle", or the loop the running call is in
  req,                   \* the handle and byte size of the running malloc
  block_index,           \* loop variable of either loop
  block_num_found,
  found_first_free

pool == <<bitmap, first_free_block, purl_free_block_start>>
loop == <<block_index, block_num_found, found_first_free>>
vars == <<pool, live, ret, pc, req, loop>>

-----------------------------------------------------------------------------
(* Subtracting one from a uint32_t.                                        *)
Dec(n) == IF n = 0 THEN UintMax ELSE n - 1

block_num_need == BlockIndex_byMemSize(req.size)

(* pool_getBytes_byBlockIndex: the pointer to block b.                     *)
Bytes_byBlockIndex(b) == b * aline

(* bitmap_getByte(b) = 0xFF: the eight bits of b's byte are set. Bits past *)
(* the last block are never set.                                           *)
ByteFull(b) == \A c \in 8 * (b \div 8) .. 8 * (b \div 8) + 7 :
                 c \in Block /\ bitmap[c] = 1

(* The blocks start .. start + n - 1.                                      *)
Span(start, n) == {b \in Block : start <= b /\ b < start + n}

SetBits(blocks, bit) ==
  [b \in Block |-> IF b \in blocks THEN bit ELSE bitmap[b]]

(* The blocks that handle h's allocation covers.                           *)
Covers(h) ==
  IF live[h] = NoMem THEN {}
  ELSE Span(BlockIndex_byMemSize(live[h].mem),
            BlockIndex_byMemSize(live[h].size))

(* Where the purl free blocks start once the blocks up to last are taken.  *)
PurlAfter(last) == IF last >= purl_free_block_start
                   THEN last + 1 ELSE purl_free_block_start

(* first_free_block after the blocks from start on are freed.              *)
FirstFreeKept(start) == first_free_block
FirstFreeAfter(start) == IF start < first_free_block THEN start
                                                     ELSE first_free_block

(* The request ends before the end of the pool.                            *)
FitsPastEnd(last) == last <= MaxBlock
Fits(last) == last < MaxBlock

(* The loop index after the byte of block b was skipped.                   *)
NextByteStuck(b) == 8 * (b \div 8) + 1
NextByte(b) == 8 * (b \div 8) + 7 + 1

(* The count of free blocks after a used one appeared.                     *)
CountKept == block_num_found
CountReset == 0

(* Where the low speed search starts.                                      *)
SearchTooLate == first_free_block + 1
SearchStart == first_free_block

(* The blocks pool_free clears.                                            *)
FreedOneShort(start, num) == Span(start, num - 1)
Freed(start, num) == Span(start, num)

-----------------------------------------------------------------------------
Init ==
  /\ bitmap = [b \in Block |-> 0]
  /\ first_free_block = 0
  /\ purl_free_block_start = 0
  /\ live = [h \in Handle |-> NoMem]
  /\ ret = [val |-> "none", need |-> 0]
  /\ pc = "idle"
  /\ req = [h |-> NoMem, size |-> 0]
  /\ block_index = 0
  /\ block_num_found = 0
  /\ found_first_free = FALSE

(* The call returns and its locals are gone.                               *)
Return ==
  /\ pc' = "idle"
  /\ req' = [h |-> NoMem, size |-> 0]
  /\ block_index' = 0
  /\ block_num_found' = 0
  /\ found_first_free' = FALSE

(* The label found: need blocks that end at the given block are taken. For *)
(* need = 0 the C expression last - need + 1 is evaluated in uint32_t; it  *)
(* cannot wrap here because the label is only reached with last < MaxBlock.*)
Found(h, bytes, last) ==
  LET need == BlockIndex_byMemSize(bytes) IN
  /\ bitmap' = SetBits(Span(last - need + 1, need), 1)
  /\ purl_free_block_start' = PurlAfter(last)
  /\ live' = [live EXCEPT ![h] =
                [mem |-> Bytes_byBlockIndex(last - need + 1), size |-> bytes]]
  /\ ret' = [val |-> "mem", need |-> need]
  /\ Return

(* High speed malloc: the request fits in the purl free blocks.            *)
MallocFast(h, bytes) ==
  LET last == Dec(purl_free_block_start + BlockIndex_byMemSize(bytes)) IN
  /\ pc = "idle"
  /\ live[h] = NoMem
  /\ Fits(last)
  /\ Found(h, bytes, last)
  /\ UNCHANGED first_free_block

(* Otherwise the low speed search starts at the first free block.          *)
MallocSearch(h, bytes) ==
  /\ pc = "idle"
  /\ live[h] = NoMem
  /\ ~ Fits(Dec(purl_free_block_start + BlockIndex_byMemSize(bytes)))
  /\ pc' = "search"
  /\ req' = [h |-> h, size |-> bytes]
  /\ block_index' = SearchStart
  /\ block_num_found' = 0
  /\ found_first_free' = FALSE
  /\ UNCHANGED <<pool, live, ret>>

Searching == pc = "search" /\ block_index < purl_free_block_start

(* A byte with its eight bits set is skipped at once.                      *)
SearchSkipByte ==
  /\ Searching
  /\ ByteFull(block_index)
  /\ block_index' = NextByte(block_index)
  /\ block_num_found' = 0
  /\ UNCHANGED <<pool, live, ret, pc, req, found_first_free>>

(* A used block: find again.                                               *)
SearchUsed ==
  /\ Searching
  /\ ~ ByteFull(block_index)
  /\ bitmap[block_index] = 1
  /\ block_num_found' = CountReset
  /\ block_index' = block_index + 1
  /\ UNCHANGED <<pool, live, ret, pc, req, found_first_free>>

(* A free block: the first one is remembered, and the search ends when     *)
(* enough of them were seen in a row.                                      *)
SearchFree ==
  /\ Searching
  /\ ~ ByteFull(block_index)
  /\ bitmap[block_index] = 0
  /\ first_free_block' = IF found_first_free THEN first_free_block
                                             ELSE block_index
  /\ IF block_num_found + 1 >= block_num_need
     THEN Found(req.h, req.size, block_index)
     ELSE /\ found_first_free' = TRUE
          /\ block_num_found' = block_num_found + 1
          /\ block_index' = block_index + 1
          /\ UNCHANGED <<bitmap, purl_free_block_start, live, ret, pc, req>>

(* The search reached the purl free blocks. The code tries them once more, *)
(* then returns NULL.                                                      *)
SearchEnd ==
  LET last == Dec(purl_free_block_start + block_num_need) IN
  /\ pc = "search"
  /\ block_index >= purl_free_block_start
  /\ IF Fits(last)
     THEN /\ Found(req.h, req.size, last)
          /\ UNCHANGED first_free_block
     ELSE /\ ret' = [val |-> "NULL", need |-> block_num_need]
          /\ Return
          /\ UNCHANGED <<pool, live>>

(* pool_free up to its loop: the blocks are cleared, first_free_block is   *)
(* lowered, and when the freed run ends where the purl free blocks start   *)
(* the walk back begins.                                                   *)
Free(h) ==
  LET start == BlockIndex_byMemSize(live[h].mem)
      num   == BlockIndex_byMemSize(live[h].size)
  IN
  /\ pc = "idle"
  /\ live[h] # NoMem
  /\ bitmap' = SetBits(Freed(start, num), 0)
  /\ first_free_block' = FirstFreeAfter(start)
  /\ live' = [live EXCEPT ![h] = NoMem]
  /\ ret' = [val |-> "none", need |-> 0]
  /\ IF Dec(start + num) = Dec(purl_free_block_start)
     THEN pc' = "back" /\ block_index' = start
     ELSE UNCHANGED <<pc, block_index>>
  /\ UNCHANGED <<purl_free_block_start, req, block_num_found,
                 found_first_free>>

(* while (0 == bitmap_get(bitmap, first_pure_free_block - 1))              *)
BackStep ==
  /\ pc = "back"
  /\ block_index # 0
  /\ bitmap[block_index - 1] = 0
  /\ block_index' = block_index - 1
  /\ UNCHANGED <<pool, live, ret, pc, req, block_num_found, found_first_free>>

BackEnd ==
  /\ pc = "back"
  /\ block_index # 0 => bitmap[block_index - 1] = 1
  /\ purl_free_block_start' = block_index
  /\ Return
  /\ UNCHANGED <<bitmap, first_free_block, live, ret>>

Next ==
  \/ \E h \in Handle, bytes \in Request :
       MallocFast(h, bytes) \/ MallocSearch(h, bytes)
  \/ SearchSkipByte \/ SearchUsed \/ SearchFree \/ SearchEnd
  \/ \E h \in Handle : Free(h)
  \/ BackStep \/ BackEnd

Spec == Init /\ [][Next]_vars

(* The loops of one call run to their end: the calling thread holds the    *)
(* GIL with interrupts off, nothing can stop it.                           *)
LoopStep == SearchSkipByte \/ SearchUsed \/ SearchFree \/ SearchEnd
            \/ BackStep \/ BackEnd
FairSpec == Spec /\ WF_vars(LoopStep)

-----------------------------------------------------------------------------
Allocation == [mem : Nat, size : Nat]

(* Every variable has its C type; the indices stay inside the pool.        *)
TypeOK ==
  /\ bitmap \in [Block -> {0, 1}]
  /\ first_free_block \in 0 .. MaxBlock
  /\ purl_free_block_start \in 0 .. MaxBlock
  /\ live \in [Handle -> Allocation \cup {NoMem}]
  /\ ret \in [val : {"none", "mem", "NULL"}, need : Nat]
  /\ pc \in {"idle", "search", "back"}
  /\ req \in [h : Handle \cup {NoMem}, size : Nat]
  /\ block_index \in 0 .. MaxBlock
  /\ block_num_found \in Nat
  /\ found_first_free \in BOOLEAN

(* Two live allocations never share a block, however the two cached        *)
(* indices moved in between (pool_malloc, label found).                    *)
Exclusive ==
  \A g, h \in Handle : g # h => Covers(g) \cap Covers(h) = {}

(* The bitmap marks exactly the blocks of the live allocations: nothing is *)
(* handed out twice and no block is lost by a free.                        *)
BitmapExact ==
  \A b \in Block : (bitmap[b] = 1) <=> (\E h \in Handle : b \in Covers(h))

(* A live allocation lies in the pool with room for every byte of its size.*)
InPool ==
  \A h \in Handle : live[h] # NoMem =>
    BlockIndex_byMemSize(live[h].mem) + BlockIndex_byMemSize(live[h].size)
      <= MaxBlock

(* purl_free_block_start: every block from it on is free.                  *)
PurlFree == \A b \in Block : b >= purl_free_block_start => bitmap[b] = 0

(* No run of n free blocks anywhere in the pool.                           *)
NoRun(n) == \A s \in 0 .. MaxBlock : s + n <= MaxBlock =>
              \E b \in Block : s <= b /\ b < s + n /\ bitmap[b] = 1

(* pool_malloc returns NULL (and pikaMalloc stops the device) only when no *)
(* run of free blocks is long enough: the two cached indices and the byte  *)
(* skip never hide a run.                                                  *)
NullOnlyWhenFull ==
  (pc = "search" /\ block_index >= purl_free_block_start
     /\ block_num_need > 0) => NoRun(block_num_need)

-----------------------------------------------------------------------------
(* The inductive invariant of the proofs: the cached indices, and one      *)
(* invariant for each loop.                                                *)

(* first_free_block is a lower bound of the free blocks below the purl     *)
(* free ones, and the last block before the purl free ones is used.        *)
FirstFree == /\ first_free_block <= purl_free_block_start
             /\ \A b \in Block : b < purl_free_block_start /\ bitmap[b] = 0
                                 => first_free_block <= b

TailUsed == pc # "back" =>
              purl_free_block_start = 0 \/ bitmap[purl_free_block_start - 1] = 1

(* The search has just seen block_num_found free blocks, the longest run   *)
(* that ends here, and no run that would do before it.                     *)
SearchInv ==
  pc = "search" =>
    /\ req.h \in Handle /\ live[req.h] = NoMem /\ req.size \in Request
    /\ Dec(purl_free_block_start + block_num_need) >= MaxBlock
    /\ block_index <= purl_free_block_start
    /\ block_num_found <= block_index
    /\ block_num_need > 0 => block_num_found < block_num_need
    /\ \A b \in Block : block_index - block_num_found <= b /\ b < block_index
                           => bitmap[b] = 0
    /\ block_num_found < block_index =>
          bitmap[block_index - block_num_found - 1] = 1
    /\ block_num_need > 0 => \A s \in 0 .. MaxBlock :
          s + block_num_need <= block_index =>
            \E b \in Block : s <= b /\ b < s + block_num_need /\ bitmap[b] = 1
    /\ ~ found_first_free => \A b \in Block : b < block_index => bitmap[b] = 1

BackInv ==
  pc = "back" =>
    /\ first_free_block <= block_index
    /\ block_index <= purl_free_block_start
    /\ \A b \in Block : b >= block_index => bitmap[b] = 0

IInv == /\ TypeOK /\ Exclusive /\ BitmapExact /\ InPool /\ PurlFree
        /\ FirstFree /\ TailUsed /\ SearchInv /\ BackInv

(* Refinement: the pool implements the abstract allocator.                 *)
A == INSTANCE PoolAlloc WITH
       owned <- [h \in Handle |-> Covers(h)],
       Need <- {BlockIndex_byMemSize(n) : n \in Request}

AbstractSpec == A!ASpec

(* Every call returns: neither the search of pool_malloc nor the walk back *)
(* of pool_free runs forever.                                              *)
CallsReturn == (pc # "idle") ~> (pc = "idle")
=============================================================================
