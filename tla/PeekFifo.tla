------------------------------ MODULE PeekFifo ------------------------------
(***************************************************************************)
(* What the byte queue of the shell promises: a bounded first-in first-out *)
(* queue whose reader may look ahead, byte by byte, and then either drop   *)
(* what it has looked at or start over. The detailed specification is      *)
(* ByteQueue.                                                              *)
(***************************************************************************)
EXTENDS Integers, Sequences

CONSTANTS Byte, Size

VARIABLES fifo,   \* the bytes that were written and not yet read
          peeked  \* how many of them were looked at

vars == <<fifo, peeked>>

Init == fifo \in Seq(Byte) /\ Len(fifo) \in {0, Size} /\ peeked = 0

Write(b) == /\ Len(fifo) < Size
            /\ fifo' = Append(fifo, b)
            /\ UNCHANGED peeked

Read == /\ fifo # <<>>
        /\ fifo' = Tail(fifo)
        /\ peeked' = 0

Peek == /\ peeked < Len(fifo)
        /\ peeked' = peeked + 1
        /\ UNCHANGED fifo

ResetPeek == peeked' = 0 /\ UNCHANGED fifo

DropPeeked == fifo' = SubSeq(fifo, peeked + 1, Len(fifo)) /\ peeked' = 0

Next == (\E b \in Byte : Write(b)) \/ Read \/ Peek \/ ResetPeek \/ DropPeeked

Spec == Init /\ [][Next]_vars
=============================================================================
