------------------------------ MODULE ByteQueue -----------------------------
(***************************************************************************)
(* The ring buffer of dataQueue.c, ByteQueue: bytes are written at         *)
(* tail, read at head and looked at, ahead of reading, at peek; count and  *)
(* peek_count are the bytes that are left to read and to look at.          *)
(***************************************************************************)
EXTENDS Integers, Sequences

CONSTANTS Byte,  \* the bytes that are written
          Size   \* buffer_size

ASSUME SizeAssumption == Size \in Nat \ {0}

VARIABLES buffer, head, tail, peek, count, peek_count

queue == <<buffer, head, tail, peek, count, peek_count>>

(* byteQueue_init: the buffer may already hold size bytes.                 *)
QInit ==
  /\ buffer \in [0 .. Size - 1 -> Byte]
  /\ head = 0 /\ tail = 0 /\ peek = 0
  /\ count \in {0, Size} /\ peek_count = count

(* The index after i.                                                      *)
WrapLate(i) == IF i + 1 > Size THEN 0 ELSE i + 1
Wrap(i) == IF i + 1 >= Size THEN 0 ELSE i + 1

Full      == head = tail /\ count # 0
Empty     == head = tail /\ count = 0
PeekEmpty == peek = tail /\ peek_count = 0

byteQueue_writeOne(b) ==
  /\ ~Full
  /\ buffer' = [buffer EXCEPT ![tail] = b]
  /\ tail' = Wrap(tail)
  /\ count' = count + 1
  /\ peek_count' = peek_count + 1
  /\ UNCHANGED <<head, peek>>

readNoReset ==
  /\ ~Empty
  /\ head' = Wrap(head)
  /\ count' = count - 1
  /\ UNCHANGED <<buffer, tail, peek, peek_count>>
byteQueue_readOne ==
  /\ ~Empty
  /\ head' = Wrap(head)
  /\ count' = count - 1
  /\ peek_count' = count'
  /\ peek' = head'
  /\ UNCHANGED <<buffer, tail>>

byteQueue_peekOne ==
  /\ ~PeekEmpty
  /\ peek' = Wrap(peek)
  /\ peek_count' = peek_count - 1
  /\ UNCHANGED <<buffer, head, tail, count>>

byteQueue_resetPeek ==
  /\ peek_count' = count
  /\ peek' = head
  /\ UNCHANGED <<buffer, head, tail, count>>

byteQueue_dropAllPeeked ==
  /\ count' = peek_count
  /\ head' = peek
  /\ UNCHANGED <<buffer, tail, peek, peek_count>>

byteQueue_getPeekedNumber == count - peek_count

QNext == \/ \E b \in Byte : byteQueue_writeOne(b)
         \/ byteQueue_readOne \/ byteQueue_peekOne
         \/ byteQueue_resetPeek \/ byteQueue_dropAllPeeked

QSpec == QInit /\ [][QNext]_queue

-----------------------------------------------------------------------------
QTypeOK ==
  /\ buffer \in [0 .. Size - 1 -> Byte]
  /\ head \in 0 .. Size - 1 /\ tail \in 0 .. Size - 1 /\ peek \in 0 .. Size - 1
  /\ count \in 0 .. Size /\ peek_count \in 0 .. count

(* i places after index h, at most one turn.                               *)
Ahead(h, i) == IF h + i >= Size THEN h + i - Size ELSE h + i

(* The three indices agree with the two counts: tail is count places after *)
(* head, and peek is as far from tail as bytes are left to look at. The    *)
(* tests for full and empty compare indices and use a count to tell a full *)
(* turn from none, so they are only right while this holds.                *)
Aligned ==
  /\ tail = Ahead(head, count)
  /\ tail = Ahead(peek, peek_count)
  /\ peek = Ahead(head, count - peek_count)

QInv == QTypeOK /\ Aligned

(* The queue is a first-in first-out queue with look-ahead.                *)
Content == [i \in 1 .. count |-> buffer[Ahead(head, i - 1)]]
Fifo == INSTANCE PeekFifo WITH fifo <- Content, peeked <- count - peek_count
IsFifo == Fifo!Spec
=============================================================================
