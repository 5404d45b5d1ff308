----------------------------- MODULE PoolAlloc -----------------------------
(***************************************************************************)
(* What PikaScript's memory pool promises its callers (abstract).          *)
(*                                                                         *)
(* A caller keeps the pointer and the size of each allocation in a handle. *)
(* An allocation is handed out only from blocks no other live allocation   *)
(* covers, a pointer stays valid and exclusive until it is freed, and NULL *)
(* is returned only when no run of blocks long enough is left.             *)
(* MemPool (the bitmap allocator of dataMemory.c) implements this module.  *)
(***************************************************************************)
EXTENDS Naturals

CONSTANTS Handle,   \* the pointer variables of the callers
          MaxBlock, \* blocks in the pool
          Need      \* the requests, in blocks

VARIABLES owned,    \* owned[h]: the set of blocks h's allocation covers
          ret       \* what the last completed call returned, and for
                    \* how many blocks

avars == <<owned, ret>>

AInit == /\ owned = [h \in Handle |-> {}]
         /\ ret = [val |-> "none", need |-> 0]

(* The blocks of a run of n blocks that starts at s.                       *)
Run(s, n) == {b \in 0 .. MaxBlock - 1 : s <= b /\ b < s + n}

(* The run lies in the pool and overlaps no live allocation.               *)
Vacant(s, n) == /\ s + n <= MaxBlock
                /\ \A h \in Handle : owned[h] \cap Run(s, n) = {}

AMalloc(h, n) ==
  /\ owned[h] = {}
  /\ \E s \in 0 .. MaxBlock :
       /\ Vacant(s, n)
       /\ owned' = [owned EXCEPT ![h] = Run(s, n)]
  /\ ret' = [val |-> "mem", need |-> n]

(* A request of zero blocks may be refused at any time.                    *)
ANull(n) == /\ n = 0 \/ \A s \in 0 .. MaxBlock : ~ Vacant(s, n)
            /\ ret' = [val |-> "NULL", need |-> n]
            /\ UNCHANGED owned

AFree(h) == /\ owned' = [owned EXCEPT ![h] = {}]
            /\ ret' = [val |-> "none", need |-> 0]

ANext == \/ \E h \in Handle, n \in Need : AMalloc(h, n)
         \/ \E n \in Need : ANull(n)
         \/ \E h \in Handle : AFree(h)

ASpec == AInit /\ [][ANext]_avars
=============================================================================
