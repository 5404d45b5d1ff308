--------------------------- MODULE MemPoolProofs ---------------------------
(***************************************************************************)
(* Proofs about MemPool, for every pool size, block size, set of requests  *)
(* and set of callers.                                                     *)
(***************************************************************************)
EXTENDS MemPool, TLAPS

USE DEF PurlAfter, FirstFreeAfter, Fits, NextByte, CountReset, SearchStart, Freed

(* The number of blocks that hold n bytes is a natural number.             *)
LEMMA BlockIndexNat ==
  ASSUME NEW n \in Nat
  PROVE  BlockIndex_byMemSize(n) \in Nat
BY PoolAssumption DEF BlockIndex_byMemSize

(* pool_getBlockIndex_byMem undoes pool_getBytes_byBlockIndex: the pointer *)
(* handed out for block b is freed as block b.                             *)
LEMMA RoundTrip ==
  ASSUME NEW b \in Nat
  PROVE  /\ Bytes_byBlockIndex(b) \in Nat
         /\ BlockIndex_byMemSize(Bytes_byBlockIndex(b)) = b
<1>1. b * aline \in Nat
  BY PoolAssumption
<1>2. CASE b = 0
  BY <1>1, <1>2, PoolAssumption DEF BlockIndex_byMemSize, Bytes_byBlockIndex
<1>3. CASE b # 0
  <2> DEFINE q == (b * aline - 1) \div aline
  <2>1. b * aline >= aline
    BY <1>3, PoolAssumption
  <2>2. q \in Nat /\ aline * q <= b * aline - 1 /\ b * aline - 1 < aline * (q + 1)
    BY <2>1, PoolAssumption
  <2>3. q < b
    BY <2>2, PoolAssumption
  <2>4. b < q + 2
    BY <2>2, PoolAssumption
  <2>5. q = b - 1 /\ b * aline # 0
    BY <1>1, <2>1, <2>2, <2>3, <2>4, PoolAssumption
  <2> HIDE DEF q
  <2>6. Bytes_byBlockIndex(b) = b * aline
    BY DEF Bytes_byBlockIndex
  <2>7. BlockIndex_byMemSize(b * aline) = q + 1
    BY <2>5 DEF BlockIndex_byMemSize, q
  <2> QED
    BY <1>1, <2>5, <2>6, <2>7
<1> QED
  BY <1>2, <1>3

LEMMA MaxBlockNat == MaxBlock \in Nat
BY PoolAssumption, BlockIndexNat DEF MaxBlock

LEMMA InitIInv == Init => IInv
<1> SUFFICES ASSUME Init PROVE IInv
  OBVIOUS
<1>0. found_first_free \in BOOLEAN
  BY Zenon DEF Init
<1>1. TypeOK
  BY <1>0, MaxBlockNat DEF Init, TypeOK
<1>2. \A h \in Handle : Covers(h) = {}
  BY DEF Init, Covers
<1>3. Exclusive /\ BitmapExact /\ InPool
  BY <1>2 DEF Init, Exclusive, BitmapExact, InPool
<1>4. PurlFree /\ FirstFree /\ TailUsed /\ SearchInv /\ BackInv
  BY MaxBlockNat DEF Init, PurlFree, FirstFree, TailUsed, SearchInv, BackInv, Block
<1> QED
  BY <1>1, <1>3, <1>4 DEF IInv

(* At the label found the handle gets exactly the run, which no other      *)
(* handle covers; the other handles keep what they have.                   *)
LEMMA FoundCovers ==
  ASSUME IInv,
         NEW h \in Handle, live[h] = NoMem,
         NEW bytes \in Request,
         NEW last \in 0 .. MaxBlock - 1,
         NEW need, need = BlockIndex_byMemSize(bytes),
         NEW start, start = last - need + 1, start \in Nat,
         \A b \in Span(start, need) : bitmap[b] = 0,
         Found(h, bytes, last)
  PROVE  /\ Covers(h) = {}
         /\ live'[h] # NoMem /\ live'[h].size = bytes
         /\ BlockIndex_byMemSize(live'[h].mem) = start
         /\ Covers(h)' = Span(start, need)
         /\ \A g \in Handle : g # h =>
              live'[g] = live[g] /\ Covers(g)' = Covers(g)
         /\ \A g \in Handle : Covers(g) \cap Span(start, need) = {}
<1>0. bytes \in Nat
  BY PoolAssumption
<1>1. live' = [live EXCEPT ![h] = [mem |-> Bytes_byBlockIndex(start), size |-> bytes]]
  BY DEF Found
<1>2. live'[h] = [mem |-> Bytes_byBlockIndex(start), size |-> bytes]
  BY <1>1 DEF IInv, TypeOK
<1>3. live'[h] # NoMem /\ live'[h].size = bytes
      /\ BlockIndex_byMemSize(live'[h].mem) = start
  BY <1>0, <1>2, RoundTrip, PoolAssumption
<1>4. Covers(h)' = Span(start, need)
  BY <1>3 DEF Covers
<1>5. \A g \in Handle : g # h => live'[g] = live[g] /\ Covers(g)' = Covers(g)
  BY <1>1 DEF IInv, TypeOK, Covers
<1>6. \A g \in Handle : Covers(g) \cap Span(start, need) = {}
  BY DEF IInv, BitmapExact, Span
<1>7. Covers(h) = {}
  BY DEF Covers
<1> QED
  BY <1>3, <1>4, <1>5, <1>6, <1>7

(* Taking a run of free blocks at the label found keeps the invariant.     *)
(* The run either lies below the purl free blocks or starts with them, and *)
(* first_free_block may have been raised to the first free block.          *)
LEMMA FoundStep ==
  ASSUME IInv, pc # "back",
         NEW h \in Handle, live[h] = NoMem,
         NEW bytes \in Request,
         NEW last \in 0 .. MaxBlock - 1,
         NEW need, need = BlockIndex_byMemSize(bytes),
         NEW start, start = last - need + 1, start \in Nat,
         \A b \in Span(start, need) : bitmap[b] = 0,
         last >= purl_free_block_start =>
           start = purl_free_block_start /\ need > 0,
         Found(h, bytes, last),
         first_free_block' \in 0 .. purl_free_block_start,
         \A b \in Block : b < purl_free_block_start /\ bitmap[b] = 0
                            => first_free_block' <= b
  PROVE  IInv'
<1> USE MaxBlockNat
<1>0. need \in Nat /\ bytes \in Nat
  BY BlockIndexNat, PoolAssumption
<1>1. /\ bitmap' = SetBits(Span(start, need), 1)
      /\ live' = [live EXCEPT ![h] = [mem |-> Bytes_byBlockIndex(start), size |-> bytes]]
      /\ purl_free_block_start' = IF last >= purl_free_block_start
                                  THEN last + 1 ELSE purl_free_block_start
      /\ ret' = [val |-> "mem", need |-> need]
      /\ Return
  BY DEF Found
<1>2. TypeOK'
  <2>1. /\ bitmap' \in [Block -> {0, 1}]
        /\ first_free_block' \in 0 .. MaxBlock
        /\ purl_free_block_start' \in 0 .. MaxBlock
    BY <1>1 DEF IInv, TypeOK, SetBits
  <2>2. live' \in [Handle -> Allocation \cup {NoMem}]
    BY <1>0, <1>1, RoundTrip DEF IInv, TypeOK, Allocation
  <2>3. found_first_free' \in BOOLEAN
    BY <1>1, Zenon DEF Return
  <2> QED
    BY <1>0, <1>1, <2>1, <2>2, <2>3 DEF TypeOK, Return
<1>3. /\ Covers(h) = {} /\ Covers(h)' = Span(start, need)
      /\ live'[h].size = bytes /\ BlockIndex_byMemSize(live'[h].mem) = start
  BY FoundCovers
<1>4. \A g \in Handle : g # h => live'[g] = live[g] /\ Covers(g)' = Covers(g)
  BY FoundCovers
<1>5. \A g \in Handle : Covers(g) \cap Span(start, need) = {}
  BY FoundCovers
<1>6. Exclusive'
  BY <1>3, <1>4, <1>5 DEF IInv, Exclusive
<1>8. BitmapExact'
  <2> SUFFICES ASSUME NEW b \in Block
      PROVE (bitmap'[b] = 1) <=> (\E g \in Handle : b \in Covers(g)')
    BY DEF BitmapExact
  <2>1. bitmap'[b] = 1 <=> (b \in Span(start, need) \/ bitmap[b] = 1)
    BY <1>1 DEF SetBits, IInv, TypeOK
  <2>2. (bitmap[b] = 1) <=> (\E g \in Handle : b \in Covers(g))
    BY DEF IInv, BitmapExact
  <2> QED
    BY <1>3, <1>4, <2>1, <2>2
<1>9. InPool'
  <2>2. BlockIndex_byMemSize(live'[h].mem) + BlockIndex_byMemSize(live'[h].size) <= MaxBlock
    BY <1>0, <1>3
  <2> QED
    BY <1>4, <2>2 DEF IInv, InPool
<1>10. PurlFree' /\ FirstFree'
  BY <1>0, <1>1 DEF IInv, TypeOK, PurlFree, FirstFree, SetBits, Span, Block
<1>11. TailUsed'
  <2>1. CASE last >= purl_free_block_start
    <3>1. last \in Span(start, need)
      BY <1>0, <2>1 DEF Span, Block
    <3>2. bitmap'[last] = 1
      BY <1>1, <3>1 DEF SetBits, Span
    <3> QED
      BY <1>1, <2>1, <3>2 DEF TailUsed
  <2>2. CASE ~ (last >= purl_free_block_start)
    BY <1>1, <2>2 DEF IInv, TypeOK, TailUsed, SetBits, Block, Return
  <2> QED
    BY <2>1, <2>2
<1>12. SearchInv' /\ BackInv'
  BY <1>1 DEF SearchInv, BackInv, Return
<1> QED
  BY <1>2, <1>6, <1>8, <1>9, <1>10, <1>11, <1>12 DEF IInv

(* The search keeps the invariant: one step per branch of its loop body.   *)
LEMMA SearchStep ==
  ASSUME IInv, SearchSkipByte \/ SearchUsed \/ SearchFree \/ SearchEnd
  PROVE  IInv'
<1> USE MaxBlockNat
<1> DEFINE need == block_num_need
<1>1. /\ pc = "search" /\ req.h \in Handle /\ live[req.h] = NoMem
      /\ req.size \in Request /\ need \in Nat
      /\ block_index \in Nat /\ block_num_found \in Nat
      /\ purl_free_block_start \in 0 .. MaxBlock
      /\ first_free_block \in 0 .. MaxBlock
  <2>1. pc = "search"
    BY DEF SearchSkipByte, SearchUsed, SearchFree, SearchEnd, Searching
  <2>2. req.size \in Request
    BY <2>1 DEF IInv, SearchInv
  <2>3. need \in Nat
    BY <2>2, PoolAssumption, BlockIndexNat DEF block_num_need
  <2> QED
    BY <2>1, <2>2, <2>3 DEF IInv, TypeOK, SearchInv
<1> HIDE DEF need
<1>2. /\ Dec(purl_free_block_start + need) >= MaxBlock
      /\ block_index <= purl_free_block_start
      /\ block_num_found <= block_index
      /\ need > 0 => block_num_found < need
      /\ \A b \in Block : block_index - block_num_found <= b /\ b < block_index
                             => bitmap[b] = 0
      /\ block_num_found < block_index =>
            bitmap[block_index - block_num_found - 1] = 1
      /\ need > 0 => \A s \in 0 .. MaxBlock :
            s + need <= block_index =>
              \E b \in Block : s <= b /\ b < s + need /\ bitmap[b] = 1
      /\ ~ found_first_free => \A b \in Block : b < block_index => bitmap[b] = 1
  BY <1>1 DEF IInv, SearchInv, need
<1>3. purl_free_block_start > 0 => need > 0
  BY <1>1, <1>2, PoolAssumption DEF Dec
<1>4. CASE SearchSkipByte
  <2> DEFINE next == 8 * (block_index \div 8) + 8
  <2>1. /\ next \in Nat /\ block_index < next /\ block_index >= next - 8
        /\ \A c \in next - 8 .. next - 1 : c \in Block /\ bitmap[c] = 1
        /\ block_index' = next /\ block_num_found' = 0
        /\ block_index < purl_free_block_start
    BY <1>1, <1>4 DEF SearchSkipByte, ByteFull, Searching
  <2>2. UNCHANGED <<pool, live, ret, pc, req, found_first_free>>
    BY <1>4 DEF SearchSkipByte
  <2> HIDE DEF next
  <2>3. next - 1 \in Block /\ bitmap[next - 1] = 1 /\ next <= purl_free_block_start
    BY <1>1, <2>1 DEF IInv, PurlFree, Block
  <2>4. TypeOK' /\ need' = need
    BY <1>1, <2>1, <2>2, <2>3 DEF IInv, TypeOK, pool, need, block_num_need
  <2>5. SearchInv'
    <3>1. need > 0 => \A s \in 0 .. MaxBlock : s + need <= next =>
              \E b \in Block : s <= b /\ b < s + need /\ bitmap[b] = 1
      <4> SUFFICES ASSUME need > 0, NEW s \in 0 .. MaxBlock, s + need <= next
                   PROVE \E b \in Block : s <= b /\ b < s + need /\ bitmap[b] = 1
        OBVIOUS
      <4>1. CASE s + need <= block_index
        BY <1>2, <4>1
      <4>2. CASE s + need > block_index
        <5>1. s + need - 1 \in next - 8 .. next - 1
          BY <1>1, <2>1, <4>2
        <5> QED
          BY <1>1, <2>1, <5>1
      <4> QED
        BY <1>1, <4>1, <4>2
    <3>2. ~ found_first_free => \A b \in Block : b < next => bitmap[b] = 1
      BY <1>1, <1>2, <2>1 DEF Block
    <3> QED
      BY <1>1, <1>2, <2>1, <2>2, <2>3, <2>4, <3>1, <3>2 DEF SearchInv, need, pool, Dec, Block
  <2> QED
    BY <1>1, <2>2, <2>4, <2>5 DEF IInv, Exclusive, BitmapExact, InPool, PurlFree,
       FirstFree, TailUsed, BackInv, Covers, pool
<1>5. CASE SearchUsed
  <2>1. /\ block_index < purl_free_block_start
        /\ bitmap[block_index] = 1 /\ block_index \in Block
        /\ block_index' = block_index + 1 /\ block_num_found' = 0
        /\ UNCHANGED <<pool, live, ret, pc, req, found_first_free>>
    BY <1>1, <1>5 DEF SearchUsed, Searching, Block
  <2>2. TypeOK' /\ need' = need
    BY <1>1, <2>1 DEF IInv, TypeOK, pool, need, block_num_need
  <2>3. SearchInv'
    <3>1. need > 0 => \A s \in 0 .. MaxBlock : s + need <= block_index + 1 =>
              \E b \in Block : s <= b /\ b < s + need /\ bitmap[b] = 1
      <4> SUFFICES ASSUME need > 0, NEW s \in 0 .. MaxBlock, s + need <= block_index + 1
                   PROVE \E b \in Block : s <= b /\ b < s + need /\ bitmap[b] = 1
        OBVIOUS
      <4>1. CASE s + need <= block_index
        BY <1>2, <4>1
      <4>2. CASE s + need = block_index + 1
        BY <1>1, <2>1, <4>2
      <4> QED
        BY <1>1, <4>1, <4>2
    <3> QED
      BY <1>1, <1>2, <2>1, <2>2, <3>1 DEF SearchInv, need, pool, Dec, Block
  <2> QED
    BY <1>1, <2>1, <2>2, <2>3 DEF IInv, Exclusive, BitmapExact, InPool, PurlFree,
       FirstFree, TailUsed, BackInv, Covers, pool
<1>6. CASE SearchFree
  <2>1. /\ block_index < purl_free_block_start
        /\ bitmap[block_index] = 0 /\ block_index \in Block
        /\ need > 0
        /\ first_free_block' = IF found_first_free THEN first_free_block
                                                   ELSE block_index
    BY <1>1, <1>3, <1>6 DEF SearchFree, Searching, Block
  <2>2. /\ first_free_block' \in 0 .. purl_free_block_start
        /\ \A b \in Block : b < purl_free_block_start /\ bitmap[b] = 0
                            => first_free_block' <= b
    BY <1>1, <1>2, <2>1 DEF IInv, FirstFree, Block
  <2>3. CASE block_num_found + 1 >= need
    <3>1. block_num_found + 1 = need
      BY <1>1, <1>2, <2>1, <2>3
    <3>2. \A b \in Span(block_index - need + 1, need) : bitmap[b] = 0
      BY <1>1, <1>2, <2>1, <3>1 DEF Span, Block
    <3>3. Found(req.h, req.size, block_index)
      BY <1>6, <2>3 DEF SearchFree, need
    <3>4. block_index - need + 1 \in Nat /\ block_index \in 0 .. MaxBlock - 1
      BY <1>1, <1>2, <2>1, <3>1 DEF Block
    <3>5. need = BlockIndex_byMemSize(req.size)
      BY DEF need, block_num_need
    <3> QED
      BY <1>1, <2>1, <2>2, <3>2, <3>3, <3>4, <3>5, FoundStep
  <2>4. CASE ~ (block_num_found + 1 >= need)
    <3>1. /\ found_first_free' = TRUE
          /\ block_num_found' = block_num_found + 1
          /\ block_index' = block_index + 1
          /\ UNCHANGED <<bitmap, purl_free_block_start, live, ret, pc, req>>
      BY <1>6, <2>4 DEF SearchFree, need
    <3>2. TypeOK' /\ need' = need
      BY <1>1, <2>1, <2>2, <3>1 DEF IInv, TypeOK, need, block_num_need
    <3>3. SearchInv'
      <4>1. \A s \in 0 .. MaxBlock : s + need <= block_index + 1 =>
              \E b \in Block : s <= b /\ b < s + need /\ bitmap[b] = 1
        <5> SUFFICES ASSUME NEW s \in 0 .. MaxBlock, s + need <= block_index + 1
                     PROVE \E b \in Block : s <= b /\ b < s + need /\ bitmap[b] = 1
          OBVIOUS
        <5>1. CASE s + need <= block_index
          BY <1>2, <2>1, <5>1
        <5>2. CASE s + need = block_index + 1
          <6>1. block_num_found < block_index
                /\ s <= block_index - block_num_found - 1
            BY <1>1, <1>2, <2>4, <5>2
          <6> QED
            BY <1>1, <1>2, <2>1, <5>2, <6>1 DEF Block
        <5> QED
          BY <1>1, <5>1, <5>2
      <4> QED
        BY <1>1, <1>2, <2>1, <2>4, <3>1, <3>2, <4>1 DEF SearchInv, need, Dec, Block
    <3> QED
      BY <1>1, <2>2, <3>1, <3>2, <3>3 DEF IInv, Exclusive, BitmapExact, InPool,
         PurlFree, FirstFree, TailUsed, BackInv, Covers
  <2> QED
    BY <2>3, <2>4
<1>7. CASE SearchEnd
  <2>1. ret' = [val |-> "NULL", need |-> need] /\ Return /\ UNCHANGED <<pool, live>>
    BY <1>1, <1>2, <1>7, PoolAssumption DEF SearchEnd, need, Dec
  <2>2. found_first_free' \in BOOLEAN
    BY <2>1, Zenon DEF Return
  <2>3. TypeOK'
    BY <1>1, <2>1, <2>2 DEF IInv, TypeOK, Return, pool
  <2> QED
    BY <1>1, <2>1, <2>3 DEF IInv, Exclusive, BitmapExact, InPool, PurlFree,
       FirstFree, TailUsed, BackInv, SearchInv, Covers, pool, Return
<1> QED
  BY <1>4, <1>5, <1>6, <1>7

(* A malloc that is served from the purl free blocks, or starts the search.*)
LEMMA MallocStep ==
  ASSUME IInv, NEW h \in Handle, NEW bytes \in Request,
         MallocFast(h, bytes) \/ MallocSearch(h, bytes)
  PROVE  IInv'
<1> USE MaxBlockNat
<1> DEFINE need == BlockIndex_byMemSize(bytes)
<1>1. need \in Nat /\ purl_free_block_start \in 0 .. MaxBlock
      /\ first_free_block \in 0 .. MaxBlock
  BY PoolAssumption, BlockIndexNat DEF IInv, TypeOK
<1> HIDE DEF need
<1>2. CASE MallocFast(h, bytes)
  <2> DEFINE last == Dec(purl_free_block_start + need)
  <2>1. /\ pc = "idle" /\ live[h] = NoMem /\ last < MaxBlock
        /\ Found(h, bytes, last) /\ first_free_block' = first_free_block
    BY <1>2 DEF MallocFast, need
  <2>2. purl_free_block_start + need > 0 /\ last = purl_free_block_start + need - 1
    BY <1>1, <2>1, PoolAssumption DEF Dec
  <2> HIDE DEF last
  <2>3. \A b \in Span(purl_free_block_start, need) : bitmap[b] = 0
    BY <1>1 DEF IInv, PurlFree, Span
  <2>4. last >= purl_free_block_start => need > 0
    BY <1>1, <2>2
  <2>5. last \in 0 .. MaxBlock - 1 /\ last - need + 1 = purl_free_block_start
    BY <1>1, <2>1, <2>2
  <2>6. /\ first_free_block' \in 0 .. purl_free_block_start
        /\ \A b \in Block : b < purl_free_block_start /\ bitmap[b] = 0
                            => first_free_block' <= b
    BY <1>1, <2>1 DEF IInv, FirstFree
  <2>7. purl_free_block_start \in Nat /\ need = BlockIndex_byMemSize(bytes)
    BY <1>1 DEF need
  <2> QED
    BY <2>1, <2>3, <2>4, <2>5, <2>6, <2>7, FoundStep
<1>3. CASE MallocSearch(h, bytes)
  <2>1. /\ pc = "idle" /\ pc' = "search" /\ req' = [h |-> h, size |-> bytes]
        /\ live[h] = NoMem
        /\ Dec(purl_free_block_start + need) >= MaxBlock
        /\ block_index' = first_free_block /\ block_num_found' = 0
        /\ found_first_free' = FALSE
        /\ UNCHANGED <<pool, live, ret>>
    BY <1>1, <1>3, PoolAssumption DEF MallocSearch, need, Dec
  <2>2. found_first_free' \in BOOLEAN
    BY <2>1, Zenon
  <2>3. TypeOK'
    BY <1>1, <2>1, <2>2, PoolAssumption DEF IInv, TypeOK, pool
  <2>4. \A b \in Block : b < first_free_block => bitmap[b] = 1
    BY <1>1 DEF IInv, TypeOK, FirstFree, Block
  <2>5. block_num_need' = need
    BY <2>1 DEF block_num_need, need
  <2>6. need > 0 => \A s \in 0 .. MaxBlock : s + need <= first_free_block =>
              \E b \in Block : s <= b /\ b < s + need /\ bitmap[b] = 1
    <3> SUFFICES ASSUME need > 0, NEW s \in 0 .. MaxBlock, s + need <= first_free_block
                 PROVE \E b \in Block : s <= b /\ b < s + need /\ bitmap[b] = 1
      OBVIOUS
    <3>1. s \in Block /\ bitmap[s] = 1
      BY <1>1, <2>4 DEF Block
    <3> QED
      BY <1>1, <3>1
  <2>7. SearchInv'
    <3>1. req'.h \in Handle /\ live'[req'.h] = NoMem /\ req'.size \in Request
      BY <2>1
    <3>2. first_free_block <= purl_free_block_start
      BY DEF IInv, FirstFree
    <3>3. first_free_block > 0 => bitmap[first_free_block - 1] = 1
      BY <1>1, <2>4 DEF Block
    <3> QED
      BY <1>1, <2>1, <2>4, <2>5, <2>6, <3>1, <3>2, <3>3 DEF SearchInv, pool, Dec, Block
  <2> QED
    BY <2>1, <2>3, <2>7 DEF IInv, Exclusive, BitmapExact, InPool, PurlFree,
       FirstFree, TailUsed, BackInv, Covers, pool
<1> QED
  BY <1>2, <1>3

(* Freeing clears exactly the blocks of the freed allocation.              *)
LEMMA FreeStep ==
  ASSUME IInv, NEW h \in Handle, Free(h)
  PROVE  IInv'
<1> USE MaxBlockNat
<1> DEFINE start == BlockIndex_byMemSize(live[h].mem)
           num   == BlockIndex_byMemSize(live[h].size)
<1>1. /\ pc = "idle" /\ live[h] # NoMem
      /\ bitmap' = SetBits(Span(start, num), 0)
      /\ first_free_block' = IF start < first_free_block THEN start
                                                         ELSE first_free_block
      /\ live' = [live EXCEPT ![h] = NoMem]
      /\ ret' = [val |-> "none", need |-> 0]
      /\ IF Dec(start + num) = Dec(purl_free_block_start)
         THEN pc' = "back" /\ block_index' = start
         ELSE UNCHANGED <<pc, block_index>>
      /\ UNCHANGED <<purl_free_block_start, req, block_num_found, found_first_free>>
  BY DEF Free
<1>2. live[h] \in Allocation
  BY <1>1 DEF IInv, TypeOK
<1>3. start \in Nat /\ num \in Nat
  BY <1>2, BlockIndexNat DEF Allocation
<1>4. start + num <= MaxBlock
  BY <1>1 DEF IInv, InPool
<1>5. Covers(h) = Span(start, num)
  BY <1>1 DEF Covers
<1> HIDE DEF start, num
<1>6. \A b \in Span(start, num) : b \in Block /\ bitmap[b] = 1 /\ b < purl_free_block_start
  <2> SUFFICES ASSUME NEW b \in Span(start, num)
               PROVE  b \in Block /\ bitmap[b] = 1 /\ b < purl_free_block_start
    OBVIOUS
  <2>1. b \in Block /\ b \in Covers(h)
    BY <1>5 DEF Span
  <2>2. bitmap[b] = 1
    BY <2>1 DEF IInv, BitmapExact
  <2> QED
    BY <2>1, <2>2 DEF IInv, TypeOK, PurlFree, Block
<1>7. \A g \in Handle : g # h => live'[g] = live[g] /\ Covers(g)' = Covers(g)
  BY <1>1 DEF IInv, TypeOK, Covers
<1>8. live'[h] = NoMem /\ Covers(h)' = {}
  BY <1>1 DEF IInv, TypeOK, Covers
<1>9. purl_free_block_start \in 0 .. MaxBlock /\ first_free_block \in 0 .. MaxBlock
  BY DEF IInv, TypeOK
<1>10. TypeOK'
  <2>1. bitmap' \in [Block -> {0, 1}]
    BY <1>1 DEF IInv, TypeOK, SetBits
  <2>2. live' \in [Handle -> Allocation \cup {NoMem}]
    BY <1>1 DEF IInv, TypeOK
  <2>3. first_free_block' \in 0 .. MaxBlock /\ block_index' \in 0 .. MaxBlock
    BY <1>1, <1>3, <1>4, <1>9 DEF IInv, TypeOK
  <2> QED
    BY <1>1, <2>1, <2>2, <2>3 DEF IInv, TypeOK
<1>11. Exclusive'
  BY <1>7, <1>8 DEF IInv, Exclusive
<1>12. BitmapExact'
  <2> SUFFICES ASSUME NEW b \in Block
      PROVE (bitmap'[b] = 1) <=> (\E g \in Handle : b \in Covers(g)')
    BY DEF BitmapExact
  <2>1. bitmap'[b] = 1 <=> (b \notin Span(start, num) /\ bitmap[b] = 1)
    BY <1>1 DEF SetBits, IInv, TypeOK
  <2>2. (bitmap[b] = 1) <=> (\E g \in Handle : b \in Covers(g))
    BY DEF IInv, BitmapExact
  <2>3. \A g \in Handle : g # h /\ b \in Covers(g) => b \notin Span(start, num)
    BY <1>5 DEF IInv, Exclusive
  <2> QED
    BY <1>5, <1>7, <1>8, <2>1, <2>2, <2>3
<1>13. InPool'
  BY <1>7, <1>8 DEF IInv, InPool
<1>14. PurlFree'
  BY <1>1 DEF IInv, PurlFree, SetBits, TypeOK
<1>15. FirstFree'
  BY <1>1, <1>3, <1>9 DEF IInv, FirstFree, SetBits, TypeOK, Span, Block
<1>16. num > 0 => start + num <= purl_free_block_start
  <2> SUFFICES ASSUME num > 0 PROVE start + num <= purl_free_block_start
    OBVIOUS
  <2>1. start + num - 1 \in Span(start, num)
    BY <1>3, <1>4 DEF Span, Block
  <2> QED
    BY <1>3, <1>6, <1>9, <2>1
<1>17. Dec(start + num) = Dec(purl_free_block_start) <=> start + num = purl_free_block_start
  BY <1>3, <1>4, <1>9, PoolAssumption DEF Dec
<1>18. TailUsed'
  <2> SUFFICES ASSUME pc' # "back", purl_free_block_start # 0
               PROVE  bitmap'[purl_free_block_start - 1] = 1
    BY <1>1 DEF TailUsed
  <2>1. start + num # purl_free_block_start
    BY <1>1, <1>17
  <2>2. purl_free_block_start - 1 \notin Span(start, num)
    BY <1>3, <1>9, <1>16, <2>1 DEF Span
  <2>3. bitmap[purl_free_block_start - 1] = 1 /\ purl_free_block_start - 1 \in Block
    BY <1>1, <1>9 DEF IInv, TailUsed, Block
  <2> QED
    BY <1>1, <2>2, <2>3 DEF SetBits
<1>19. SearchInv'
  BY <1>1 DEF SearchInv
<1>20. BackInv'
  <2> SUFFICES ASSUME pc' = "back"
               PROVE  /\ first_free_block' <= start
                      /\ start <= purl_free_block_start
                      /\ \A b \in Block : b >= start => bitmap'[b] = 0
                      /\ block_index' = start
    BY <1>1 DEF BackInv
  <2>1. block_index' = start /\ start + num = purl_free_block_start
    BY <1>1, <1>17
  <2>2. \A b \in Block : b >= start => bitmap'[b] = 0
    BY <1>1, <1>3, <1>9, <2>1 DEF IInv, PurlFree, SetBits, Span, Block
  <2> QED
    BY <1>1, <1>3, <1>9, <2>1, <2>2
<1> QED
  BY <1>10, <1>11, <1>12, <1>13, <1>14, <1>15, <1>18, <1>19, <1>20 DEF IInv

(* The walk back stops at a used block or at block 0.                      *)
LEMMA BackLoopStep ==
  ASSUME IInv, BackStep \/ BackEnd
  PROVE  IInv'
<1> USE MaxBlockNat
<1>1. CASE BackStep
  <2>1. TypeOK'
    BY <1>1 DEF IInv, TypeOK, BackStep, pool
  <2>2. BackInv'
    BY <1>1 DEF IInv, TypeOK, BackInv, BackStep, FirstFree, pool, Block
  <2> QED
    BY <1>1, <2>1, <2>2 DEF BackStep, IInv, Exclusive, BitmapExact, InPool, PurlFree,
       FirstFree, TailUsed, SearchInv, Covers, pool
<1>2. CASE BackEnd
  <2>1. found_first_free' \in BOOLEAN
    BY <1>2, Zenon DEF BackEnd, Return
  <2>2. TypeOK'
    BY <1>2, <2>1 DEF IInv, TypeOK, BackEnd, Return
  <2>3. /\ first_free_block <= block_index
        /\ block_index <= purl_free_block_start
        /\ \A b \in Block : b >= block_index => bitmap[b] = 0
        /\ purl_free_block_start' = block_index /\ pc' = "idle"
        /\ UNCHANGED <<bitmap, first_free_block>>
        /\ block_index \in 0 .. MaxBlock /\ first_free_block \in 0 .. MaxBlock
        /\ purl_free_block_start \in 0 .. MaxBlock
        /\ block_index # 0 => bitmap[block_index - 1] = 1
    BY <1>2 DEF BackEnd, Return, IInv, TypeOK, BackInv
  <2>4. PurlFree' /\ TailUsed' /\ SearchInv' /\ BackInv'
    BY <2>3 DEF PurlFree, TailUsed, SearchInv, BackInv
  <2>5. FirstFree'
    BY <2>3 DEF IInv, FirstFree, Block
  <2> QED
    BY <1>2, <2>2, <2>4, <2>5 DEF BackEnd, IInv, Exclusive, BitmapExact, InPool, Covers
<1> QED
  BY <1>1, <1>2

LEMMA StutterStep == IInv /\ UNCHANGED vars => IInv'
<1> SUFFICES ASSUME IInv, UNCHANGED vars PROVE IInv'
  OBVIOUS
<1>1. TypeOK'
  BY DEF IInv, TypeOK, vars, pool, loop
<1> QED
  BY <1>1 DEF IInv, Exclusive, BitmapExact, InPool, PurlFree, FirstFree, TailUsed,
     SearchInv, BackInv, Covers, block_num_need, vars, pool, loop

(* Every step of the pool keeps the invariant.                             *)
LEMMA NextIInv == IInv /\ [Next]_vars => IInv'
BY MallocStep, SearchStep, FreeStep, BackLoopStep, StutterStep DEF Next

(* When the search ends without a run there is none in the whole pool.     *)
LEMMA NoRunAtEnd == IInv => NullOnlyWhenFull
<1> USE MaxBlockNat
<1> DEFINE need == block_num_need
<1> SUFFICES ASSUME IInv, pc = "search", block_index >= purl_free_block_start,
                    need > 0,
                    NEW s \in 0 .. MaxBlock, s + need <= MaxBlock
             PROVE  \E b \in Block : s <= b /\ b < s + need /\ bitmap[b] = 1
  BY DEF NullOnlyWhenFull, NoRun
<1>1. need \in Nat
  BY PoolAssumption, BlockIndexNat DEF IInv, SearchInv, block_num_need
<1>2. /\ Dec(purl_free_block_start + need) >= MaxBlock
      /\ purl_free_block_start \in 0 .. MaxBlock
      /\ block_index = purl_free_block_start
      /\ \A r \in 0 .. MaxBlock : r + need <= block_index =>
           \E b \in Block : r <= b /\ b < r + need /\ bitmap[b] = 1
  BY DEF IInv, TypeOK, SearchInv
<1> HIDE DEF need
<1>3. purl_free_block_start + need > MaxBlock
  BY <1>1, <1>2, PoolAssumption DEF Dec
<1>4. CASE s + need <= purl_free_block_start
  BY <1>2, <1>4
<1>5. CASE s + need > purl_free_block_start
  <2>1. purl_free_block_start - 1 \in Block /\ bitmap[purl_free_block_start - 1] = 1
    BY <1>1, <1>2, <1>3 DEF IInv, TailUsed, Block
  <2> QED
    BY <1>1, <1>2, <1>3, <1>5, <2>1
<1> QED
  BY <1>1, <1>2, <1>4, <1>5

(* The pool's state always has its types, and the inductive invariant      *)
(* holds in every reachable state.                                         *)
THEOREM PoolInvariant == Spec => []IInv
BY InitIInv, NextIInv, PTL DEF Spec

(* Type correctness of every variable of the pool.                         *)
THEOREM PoolTyping == Spec => []TypeOK
<1>1. IInv => TypeOK
  BY DEF IInv
<1> QED
  BY <1>1, PoolInvariant, PTL

(* pool_malloc never hands out a block twice.                              *)
THEOREM PoolExclusive == Spec => []Exclusive
<1>1. IInv => Exclusive
  BY DEF IInv
<1> QED
  BY <1>1, PoolInvariant, PTL

(* The bitmap is exactly the union of the live allocations.                *)
THEOREM PoolBitmapExact == Spec => []BitmapExact
<1>1. IInv => BitmapExact
  BY DEF IInv
<1> QED
  BY <1>1, PoolInvariant, PTL

(* A live allocation, rounded up to blocks, lies inside the pool.          *)
THEOREM PoolInPool == Spec => []InPool
<1>1. IInv => InPool
  BY DEF IInv
<1> QED
  BY <1>1, PoolInvariant, PTL

(* pool_malloc returns NULL only when no run of free blocks is long enough.*)
THEOREM PoolNullOnlyWhenFull == Spec => []NullOnlyWhenFull
BY NoRunAtEnd, PoolInvariant, PTL

-----------------------------------------------------------------------------
(* Refinement.                                                             *)

LEMMA RunIsSpan ==
  ASSUME NEW s, NEW n PROVE A!Run(s, n) = Span(s, n)
BY DEF A!Run, Span, Block

(* Taking a run at the label found is a malloc of the abstract allocator.  *)
LEMMA FoundRefines ==
  ASSUME IInv,
         NEW h \in Handle, live[h] = NoMem,
         NEW bytes \in Request,
         NEW last \in 0 .. MaxBlock - 1,
         NEW need, need = BlockIndex_byMemSize(bytes),
         NEW start, start = last - need + 1, start \in Nat,
         \A b \in Span(start, need) : bitmap[b] = 0,
         Found(h, bytes, last)
  PROVE  A!ANext
<1> USE MaxBlockNat
<1>0. need \in Nat
  BY BlockIndexNat, PoolAssumption
<1>1. /\ Covers(h) = {} /\ Covers(h)' = Span(start, need)
      /\ \A g \in Handle : g # h => Covers(g)' = Covers(g)
      /\ \A g \in Handle : Covers(g) \cap Span(start, need) = {}
  BY FoundCovers
<1>2. start \in 0 .. MaxBlock /\ start + need <= MaxBlock
  BY <1>0
<1>3. A!Vacant(start, need)
  BY <1>1, <1>2, RunIsSpan DEF A!Vacant
<1>4. [g \in Handle |-> Covers(g)]' =
        [[g \in Handle |-> Covers(g)] EXCEPT ![h] = A!Run(start, need)]
  BY <1>1, RunIsSpan
<1>5. ret' = [val |-> "mem", need |-> need]
  BY DEF Found
<1>6. A!AMalloc(h, need)
  BY <1>1, <1>2, <1>3, <1>4, <1>5 DEF A!AMalloc
<1> QED
  BY <1>6 DEF A!ANext

(* Every step of the pool is a step of the abstract allocator or changes   *)
(* nothing the callers can see.                                            *)
LEMMA StepRefines ==
  IInv /\ [Next]_vars => A!ANext \/ UNCHANGED A!avars
<1> USE MaxBlockNat
<1> SUFFICES ASSUME IInv, [Next]_vars PROVE A!ANext \/ UNCHANGED A!avars
  OBVIOUS
<1>0. purl_free_block_start \in 0 .. MaxBlock
  BY DEF IInv, TypeOK
<1>s. ASSUME live' = live, ret' = ret PROVE UNCHANGED A!avars
  BY <1>s DEF A!avars, Covers
<1>1. CASE \E h \in Handle, bytes \in Request : MallocFast(h, bytes)
  <2> PICK h \in Handle, bytes \in Request : MallocFast(h, bytes)
    BY <1>1
  <2> DEFINE need == BlockIndex_byMemSize(bytes)
             last == Dec(purl_free_block_start + need)
  <2>1. live[h] = NoMem /\ last < MaxBlock /\ Found(h, bytes, last)
    BY DEF MallocFast
  <2>2. need \in Nat
    BY PoolAssumption, BlockIndexNat
  <2> HIDE DEF need
  <2>3. last \in 0 .. MaxBlock - 1 /\ last - need + 1 = purl_free_block_start
    BY <1>0, <2>1, <2>2, PoolAssumption DEF Dec
  <2> HIDE DEF last
  <2>4. \A b \in Span(purl_free_block_start, need) : bitmap[b] = 0
    BY DEF IInv, PurlFree, Span
  <2>5. need = BlockIndex_byMemSize(bytes) /\ purl_free_block_start \in Nat
    BY <1>0 DEF need
  <2> QED
    BY <2>1, <2>3, <2>4, <2>5, FoundRefines
<1>2. CASE \E h \in Handle, bytes \in Request : MallocSearch(h, bytes)
  BY <1>2, <1>s DEF MallocSearch
<1>3. CASE SearchSkipByte \/ SearchUsed
  BY <1>3, <1>s DEF SearchSkipByte, SearchUsed
<1>4. CASE SearchFree
  <2> DEFINE need == block_num_need
  <2>1. /\ pc = "search" /\ req.h \in Handle /\ live[req.h] = NoMem
        /\ req.size \in Request /\ block_index \in Nat /\ block_num_found \in Nat
        /\ block_index < purl_free_block_start /\ bitmap[block_index] = 0
    BY <1>4 DEF SearchFree, Searching, IInv, TypeOK, SearchInv
  <2>2. need \in Nat /\ need = BlockIndex_byMemSize(req.size)
    BY <2>1, PoolAssumption, BlockIndexNat DEF block_num_need
  <2> HIDE DEF need
  <2>3. /\ Dec(purl_free_block_start + need) >= MaxBlock
        /\ block_num_found <= block_index
        /\ need > 0 => block_num_found < need
        /\ \A b \in Block : block_index - block_num_found <= b /\ b < block_index
                             => bitmap[b] = 0
    BY <2>1 DEF IInv, SearchInv, need
  <2>4. need > 0
    BY <1>0, <2>1, <2>2, <2>3 DEF Dec
  <2>5. CASE block_num_found + 1 >= need
    <3>1. block_num_found + 1 = need
      BY <2>1, <2>2, <2>3, <2>4, <2>5
    <3>2. \A b \in Span(block_index - need + 1, need) : bitmap[b] = 0
      BY <2>1, <2>2, <2>3, <3>1 DEF Span, Block
    <3>3. Found(req.h, req.size, block_index)
      BY <1>4, <2>5 DEF SearchFree, need
    <3>4. block_index - need + 1 \in Nat /\ block_index \in 0 .. MaxBlock - 1
      BY <1>0, <2>1, <2>3, <3>1
    <3> QED
      BY <2>1, <2>2, <3>2, <3>3, <3>4, FoundRefines
  <2>6. CASE ~ (block_num_found + 1 >= need)
    BY <1>4, <1>s, <2>6 DEF SearchFree, need
  <2> QED
    BY <2>5, <2>6
<1>5. CASE SearchEnd
  <2> DEFINE need == block_num_need
  <2>1. /\ pc = "search" /\ block_index >= purl_free_block_start
        /\ req.size \in Request /\ Dec(purl_free_block_start + need) >= MaxBlock
    BY <1>5 DEF SearchEnd, IInv, SearchInv
  <2>2. need \in Nat /\ need \in {BlockIndex_byMemSize(n) : n \in Request}
    BY <2>1, PoolAssumption, BlockIndexNat DEF block_num_need
  <2>3. need > 0 => NoRun(need)
    BY <2>1, NoRunAtEnd DEF NullOnlyWhenFull
  <2>4. ret' = [val |-> "NULL", need |-> need] /\ live' = live
    BY <1>0, <1>5, <2>1, <2>2, PoolAssumption DEF SearchEnd, Dec
  <2> HIDE DEF need
  <2>5. need > 0 => \A s \in 0 .. MaxBlock : ~ A!Vacant(s, need)
    <3> SUFFICES ASSUME need > 0, NEW s \in 0 .. MaxBlock, s + need <= MaxBlock
                 PROVE \E h \in Handle : Covers(h) \cap Span(s, need) # {}
      BY RunIsSpan DEF A!Vacant
    <3>1. PICK b \in Block : s <= b /\ b < s + need /\ bitmap[b] = 1
      BY <2>3 DEF NoRun
    <3>2. PICK h \in Handle : b \in Covers(h)
      BY <3>1 DEF IInv, BitmapExact
    <3> QED
      BY <3>1, <3>2 DEF Span
  <2>6. [g \in Handle |-> Covers(g)]' = [g \in Handle |-> Covers(g)]
    BY <2>4 DEF Covers
  <2>7. A!ANull(need)
    BY <2>2, <2>4, <2>5, <2>6 DEF A!ANull
  <2> QED
    BY <2>2, <2>7 DEF A!ANext
<1>6. CASE \E h \in Handle : Free(h)
  <2> PICK h \in Handle : Free(h)
    BY <1>6
  <2>1. Covers(h)' = {} /\ \A g \in Handle : g # h => Covers(g)' = Covers(g)
    BY DEF Free, IInv, TypeOK, Covers
  <2>2. [g \in Handle |-> Covers(g)]' =
          [[g \in Handle |-> Covers(g)] EXCEPT ![h] = {}]
    BY <2>1
  <2>3. A!AFree(h)
    BY <2>2 DEF A!AFree, Free
  <2> QED
    BY <2>3 DEF A!ANext
<1>7. CASE BackStep \/ BackEnd
  BY <1>7, <1>s DEF BackStep, BackEnd
<1>8. CASE UNCHANGED vars
  BY <1>8, <1>s DEF vars
<1> QED
  BY <1>1, <1>2, <1>3, <1>4, <1>5, <1>6, <1>7, <1>8 DEF Next

(* The bitmap allocator implements the abstract allocator.                 *)
THEOREM PoolRefinement == Spec => AbstractSpec
<1>1. Init => A!AInit
  BY DEF Init, A!AInit, Covers
<1> QED
  BY <1>1, StepRefines, PoolInvariant, PTL DEF Spec, AbstractSpec, A!ASpec
=============================================================================
