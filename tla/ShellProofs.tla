--------------------------- MODULE ShellProofs ----------------------------
(***************************************************************************)
(* Proofs about the shell, for every size of its buffers and every table   *)
(* of messages. The byte queue keeps its indices and counts aligned, and   *)
(* is a first-in first-out queue with look-ahead (PeekFifo). The message   *)
(* filter in front of the shell uses the queue only through its            *)
(* operations, one at a time, so that all this holds of its queue; it      *)
(* never fills a buffer that the longest message fits into, and what it    *)
(* passes on is the input without the messages. The line buffer is always  *)
(* a terminated string of the length in line_position, the editor          *)
(* implements LineEditor, and no line put aside or entered last is out of  *)
(* reach in the history.                                                   *)
(***************************************************************************)
EXTENDS ShellFilter, ReplShell, Recursion, SequenceTheorems, TLAPS

(* byteQueue_init leaves indices and counts aligned, for an empty buffer   *)
(* and for one that is full from the start.                                *)
LEMMA QInitInv == QInit => QInv
BY SizeAssumption DEF QInit, QInv, QTypeOK, Aligned, Ahead

(* Every operation of the queue keeps  indices and counts aligned.        *)
LEMMA QNextInv == QInv /\ [QNext]_queue => QInv'
<1> SUFFICES ASSUME QInv, [QNext]_queue PROVE QInv'
  OBVIOUS
<1> USE SizeAssumption DEF QInv, QTypeOK, Aligned, Ahead
<1>1. CASE \E b \in Byte : byteQueue_writeOne(b)
  BY <1>1 DEF byteQueue_writeOne, Full, Wrap
<1>2. CASE byteQueue_readOne
  BY <1>2 DEF byteQueue_readOne, Empty, Wrap
<1>3. CASE byteQueue_peekOne
  BY <1>3 DEF byteQueue_peekOne, PeekEmpty, Wrap
<1>4. CASE byteQueue_resetPeek
  BY <1>4 DEF byteQueue_resetPeek
<1>5. CASE byteQueue_dropAllPeeked
  BY <1>5 DEF byteQueue_dropAllPeeked
<1>6. CASE UNCHANGED queue
  BY <1>6 DEF queue
<1>7. QED
  BY <1>1, <1>2, <1>3, <1>4, <1>5, <1>6 DEF QNext

(* The indices of the ring always agree with its counts (QTypeOK and       *)
(* Aligned), which is what the full and empty tests of byteQueue_writeOne, *)
(* byteQueue_readOne and byteQueue_peekOne rest on.                        *)
THEOREM QueueAligned == QSpec => [](QTypeOK /\ Aligned)
<1>1. QInv => QTypeOK /\ Aligned
  BY DEF QInv
<1>2. QED
  BY <1>1, QInitInv, QNextInv, PTL DEF QSpec

-----------------------------------------------------------------------------
(* What the buffer holds between head and tail is a sequence of bytes.     *)
LEMMA ContentSeq == QInv => Content \in Seq(Byte) /\ Len(Content) = count
<1> SUFFICES ASSUME QInv PROVE Content \in Seq(Byte) /\ Len(Content) = count
  OBVIOUS
<1> USE SizeAssumption DEF QInv, QTypeOK, Ahead
<1>1. Content \in [1 .. count -> Byte]
  BY DEF Content
<1>2. count \in Nat
  OBVIOUS
<1>3. QED
  BY <1>1, <1>2 DEF Content

(* byteQueue_writeOne appends.                                             *)
LEMMA WriteAppends ==
  ASSUME QInv, NEW b \in Byte, byteQueue_writeOne(b)
  PROVE  Content' = Append(Content, b) /\ count < Size
<1> USE SizeAssumption DEF QInv, QTypeOK, Aligned, Ahead
<1>1. count < Size
  BY DEF byteQueue_writeOne, Full
<1>2. \A i \in 1 .. count : Ahead(head, i - 1) # tail
  BY <1>1
<1>3. /\ Content' = [i \in 1 .. count + 1 |-> buffer'[Ahead(head, i - 1)]]
      /\ \A i \in 1 .. count : buffer'[Ahead(head, i - 1)] = buffer[Ahead(head, i - 1)]
      /\ buffer'[Ahead(head, count)] = b
  BY <1>1, <1>2 DEF byteQueue_writeOne, Content
<1>4. Content \in Seq(Byte) /\ Len(Content) = count
  BY ContentSeq
<1>5. \A i \in 1 .. count : Content[i] = buffer[Ahead(head, i - 1)]
  BY DEF Content
<1>6. /\ Append(Content, b) \in Seq(Byte)
      /\ Len(Append(Content, b)) = count + 1
      /\ \A i \in 1 .. count : Append(Content, b)[i] = Content[i]
      /\ Append(Content, b)[count + 1] = b
  BY <1>4, AppendProperties
<1>7. buffer' \in [0 .. Size - 1 -> Byte]
  BY DEF byteQueue_writeOne
<1>8. Content' \in Seq(Byte) /\ Len(Content') = count + 1
  <2>1. \A i \in 1 .. count + 1 : Ahead(head, i - 1) \in 0 .. Size - 1
    BY <1>1
  <2>2. Content' \in [1 .. count + 1 -> Byte]
    BY <1>3, <1>7, <2>1
  <2>3. count + 1 \in Nat /\ DOMAIN Content' = 1 .. count + 1
    BY <2>2
  <2> HIDE DEF QInv, QTypeOK, Aligned, Ahead
  <2>4. QED
    BY <2>2, <2>3
<1>9. \A i \in 1 .. count + 1 : Content'[i] = Append(Content, b)[i]
  <2> SUFFICES ASSUME NEW i \in 1 .. count + 1 PROVE Content'[i] = Append(Content, b)[i]
    OBVIOUS
  <2>1. Content'[i] = buffer'[Ahead(head, i - 1)]
    BY <1>3
  <2>2. CASE i = count + 1
    <3>1. i - 1 = count
      BY <2>2
    <3> HIDE DEF QInv, QTypeOK, Aligned, Ahead
    <3>2. QED
      BY <1>3, <1>6, <2>1, <2>2, <3>1
  <2>3. CASE i \in 1 .. count
    <3> HIDE DEF QInv, QTypeOK, Aligned, Ahead
    <3>1. QED
      BY <1>3, <1>5, <1>6, <2>1, <2>3
  <2>4. i = count + 1 \/ i \in 1 .. count
    OBVIOUS
  <2>5. QED
    BY <2>2, <2>3, <2>4
<1>10. QED
  BY <1>1, <1>6, <1>8, <1>9, SeqEqual

(* Tail as a function of its index.                                        *)
LEMMA TailIs ==
  ASSUME NEW S, NEW s \in Seq(S), s # <<>>
  PROVE  Tail(s) = [i \in 1 .. Len(s) - 1 |-> s[i + 1]]
<1> DEFINE t == [i \in 1 .. Len(s) - 1 |-> s[i + 1]]
<1>1. Len(s) \in Nat \ {0} /\ \A i \in 1 .. Len(s) : s[i] \in S
  OBVIOUS
<1>2. t \in Seq(S) /\ Len(t) = Len(s) - 1
  BY <1>1
<1>3. /\ Tail(s) \in Seq(S) /\ Len(Tail(s)) = Len(s) - 1
      /\ \A i \in 1 .. Len(Tail(s)) : Tail(s)[i] = s[i + 1]
  BY HeadTailProperties
<1>4. \A i \in 1 .. Len(Tail(s)) : Tail(s)[i] = t[i]
  BY <1>3
<1> HIDE DEF t
<1>5. Tail(s) = t
  BY <1>2, <1>3, <1>4, SeqEqual
<1> QED
  BY <1>5 DEF t

(* What SubSeq leaves when the first m elements are dropped.               *)
LEMMA SubSeqIs ==
  ASSUME NEW S, NEW s \in Seq(S), NEW m \in 0 .. Len(s)
  PROVE  SubSeq(s, m + 1, Len(s)) = [i \in 1 .. Len(s) - m |-> s[m + i]]
OBVIOUS

(* byteQueue_readOne takes the first byte.                                 *)
LEMMA ReadTakesFirst ==
  ASSUME QInv, byteQueue_readOne
  PROVE  Content # <<>> /\ Content' = Tail(Content)
<1> USE SizeAssumption DEF QInv, QTypeOK, Aligned, Ahead
<1>1. count > 0
  BY DEF byteQueue_readOne, Empty
<1>2. Content \in Seq(Byte) /\ Len(Content) = count
  BY ContentSeq
<1>3. Content # <<>>
  BY <1>1, <1>2
<1>4. Content' = [i \in 1 .. count - 1 |-> buffer[Ahead(Wrap(head), i - 1)]]
  BY DEF byteQueue_readOne, Content
<1>5. \A i \in 1 .. count - 1 : Ahead(Wrap(head), i - 1) = Ahead(head, i)
  BY <1>1 DEF Wrap
<1>6. Tail(Content) = [i \in 1 .. count - 1 |-> Content[i + 1]]
  <2> HIDE DEF QInv, QTypeOK, Aligned, Ahead
  <2> QED
    BY <1>2, <1>3, TailIs
<1>7. \A i \in 1 .. count - 1 : Content[i + 1] = buffer[Ahead(head, i)]
  BY <1>1 DEF Content
<1>8. QED
  BY <1>3, <1>4, <1>5, <1>6, <1>7

(* byteQueue_dropAllPeeked takes the bytes that were looked at.            *)
LEMMA DropTakesPeeked ==
  ASSUME QInv, byteQueue_dropAllPeeked
  PROVE  Content' = SubSeq(Content, count - peek_count + 1, Len(Content))
<1> USE SizeAssumption DEF QInv, QTypeOK, Aligned, Ahead
<1> DEFINE seen == count - peek_count
<1>1. Content \in Seq(Byte) /\ Len(Content) = count
  BY ContentSeq
<1>2. Content' = [i \in 1 .. peek_count |-> buffer[Ahead(peek, i - 1)]]
  BY DEF byteQueue_dropAllPeeked, Content
<1>3. \A i \in 1 .. peek_count : Ahead(peek, i - 1) = Ahead(head, seen + i - 1)
  OBVIOUS
<1>4. SubSeq(Content, seen + 1, count) = [i \in 1 .. peek_count |-> Content[seen + i]]
  <2>1. seen \in 0 .. Len(Content) /\ Len(Content) - seen = peek_count
    BY <1>1
  <2> HIDE DEF QInv, QTypeOK, Aligned, Ahead, seen
  <2> QED
    BY <1>1, <2>1, SubSeqIs
<1>5. \A i \in 1 .. peek_count : Content[seen + i] = buffer[Ahead(head, seen + i - 1)]
  BY DEF Content
<1>6. [i \in 1 .. peek_count |-> buffer[Ahead(peek, i - 1)]]
        = [i \in 1 .. peek_count |-> Content[seen + i]]
  BY <1>3, <1>5
<1> HIDE DEF QInv, QTypeOK, Aligned, Ahead, seen
<1>7. Content' = SubSeq(Content, seen + 1, Len(Content))
  BY <1>1, <1>2, <1>4, <1>6
<1>8. QED
  BY <1>7 DEF seen

(* The ring buffer implements the first-in first-out queue with look-ahead *)
(* for every buffer size: no byte is lost, repeated or reordered, whatever *)
(* the order of writes, reads, looks ahead and drops.                      *)
THEOREM QueueIsFifo == QSpec => IsFifo
<1>1. QInit => Fifo!Init
  <2> SUFFICES ASSUME QInit PROVE Fifo!Init
    OBVIOUS
  <2>1. QInv
    BY QInitInv
  <2>2. Content \in Seq(Byte) /\ Len(Content) = count
    BY <2>1, ContentSeq
  <2>3. QED
    BY <2>2, SizeAssumption DEF QInit, Fifo!Init
<1>2. QInv /\ [QNext]_queue => [Fifo!Next]_(Fifo!vars)
  <2> SUFFICES ASSUME QInv, [QNext]_queue PROVE [Fifo!Next]_(Fifo!vars)
    OBVIOUS
  <2>0. /\ Content \in Seq(Byte) /\ Len(Content) = count
        /\ count \in Nat /\ peek_count \in 0 .. count
    BY ContentSeq, SizeAssumption DEF QInv, QTypeOK
  <2>1. ASSUME NEW b \in Byte, byteQueue_writeOne(b) PROVE Fifo!Write(b)
    <3>1. Content' = Append(Content, b) /\ count < Size
      BY <2>1, WriteAppends
    <3>2. (count - peek_count)' = count - peek_count
      BY <2>0, <2>1 DEF byteQueue_writeOne
    <3>3. QED
      BY <2>0, <3>1, <3>2 DEF Fifo!Write
  <2>2. CASE byteQueue_readOne
    <3>1. (count - peek_count)' = 0
      BY <2>0, <2>2 DEF byteQueue_readOne
    <3>2. QED
      BY <2>2, <3>1, ReadTakesFirst DEF Fifo!Next, Fifo!Read
  <2>3. CASE byteQueue_peekOne
    <3>1. Content' = Content
      BY <2>3 DEF byteQueue_peekOne, Content
    <3>2. /\ peek_count > 0
          /\ (count - peek_count)' = count - peek_count + 1
      BY <2>0, <2>3, SizeAssumption
      DEF byteQueue_peekOne, PeekEmpty, QInv, QTypeOK, Aligned, Ahead
    <3>3. QED
      BY <2>0, <3>1, <3>2 DEF Fifo!Next, Fifo!Peek
  <2>4. CASE byteQueue_resetPeek
    <3>1. Content' = Content /\ (count - peek_count)' = 0
      BY <2>0, <2>4 DEF byteQueue_resetPeek, Content
    <3>2. QED
      BY <3>1 DEF Fifo!Next, Fifo!ResetPeek
  <2>5. CASE byteQueue_dropAllPeeked
    <3>1. (count - peek_count)' = 0
      BY <2>0, <2>5 DEF byteQueue_dropAllPeeked
    <3>2. QED
      BY <2>5, <3>1, DropTakesPeeked DEF Fifo!Next, Fifo!DropPeeked
  <2>6. CASE UNCHANGED queue
    BY <2>6 DEF queue, Content, Fifo!vars
  <2>7. QED
    BY <2>1, <2>2, <2>3, <2>4, <2>5, <2>6 DEF QNext, Fifo!Next
<1>3. QED
  BY <1>1, <1>2, QInitInv, QNextInv, PTL DEF QSpec, IsFifo, Fifo!Spec

-----------------------------------------------------------------------------
(* A step of _do_obj_runChar is an operation of the queue or none.         *)
LEMMA FilterStep == [FNext]_fvars => [QNext]_queue
<1> SUFFICES ASSUME [FNext]_fvars PROVE [QNext]_queue
  OBVIOUS
<1>1. ASSUME NEW b \in Byte, _do_obj_runChar(b) PROVE QNext
  BY <1>1 DEF _do_obj_runChar, QNext
<1>2. ASSUME Drained \/ StreamFilter \/ Starve \/ Finished \/ UNCHANGED fvars PROVE UNCHANGED queue
  BY <1>2 DEF Drained, StreamFilter, Starve, Finished, fvars
<1>3. ASSUME CompareFrom PROVE QNext
  BY <1>3 DEF CompareFrom, QNext
<1>4. ASSUME Differ \/ Agree PROVE QNext
  BY <1>4 DEF Differ, Agree, QNext
<1>5. ASSUME Drop \/ PassOn PROVE QNext
  BY <1>5 DEF Drop, PassOn, QNext
<1> QED
  BY <1>1, <1>2, <1>3, <1>4, <1>5 DEF FNext

(* The queue of the filter starts empty.                                   *)
LEMMA FilterInit == (\E b : b \in Byte) /\ FInit => QInit
  BY SizeAssumption DEF FInit, QInit

(* The filter implements the specification of the queue...                 *)
THEOREM FilterQueue == (\E b : b \in Byte) /\ FSpec => QSpec
  BY FilterInit, FilterStep, PTL DEF FSpec, QSpec

(* ... hence its indices and counts agree in every state of the filter and *)
(* it is a first-in first-out queue with look-ahead there.                 *)
THEOREM FilterQueueSafe == (\E b : b \in Byte) /\ FSpec => []Aligned /\ IsFifo
  BY FilterQueue, QueueAligned, QueueIsFifo, PTL

-----------------------------------------------------------------------------
(* How far the comparison has got: it is at message j of its table, has    *)
(* looked at the k bytes that matched, and has found that more bytes are   *)
(* needed only of a message that is longer than what the queue holds.      *)
Comparing ==
  pc \in {"msg", "cmp"} => /\ tab \in {Default, User} /\ j \in 1 .. Len(tab)
                           /\ result = "fail" \/ (result = "none" /\ count < Size)

Matched == pc = "cmp" => k = count - peek_count /\ k < Len(tab[j].seq)

(* When the queue has room again: the byte that waits was taken, or the    *)
(* message that was found has at least one.                                *)
Holding == /\ pc = "idle" => count < Size
           /\ pc = "loop" /\ peek_count = 0 => count = 0
           /\ pc = "drop" => peek_count < count

FInv == QInv /\ Comparing /\ Matched /\ Holding

(* NextMessage, which decides where the comparison goes, keeps FInv if it  *)
(* is called with a result that is justified.                              *)
LEMMA NextMessageInv ==
  ASSUME FInv, QInv', count' = count, pc = "cmp", NEW r, NextMessage(r),
         r = "fail" \/ (r = "none" /\ count < Size)
  PROVE  FInv'
<1> USE SizeAssumption, FilterAssumption
       DEF FInv, QInv, QTypeOK, Comparing, Matched, Holding, NextMessage, DropCount
<1>1. CASE j < Len(tab)
  BY <1>1
<1>2. CASE ~(j < Len(tab))
  BY <1>2
<1> QED
  BY <1>1, <1>2

LEMMA FilterNextInv == MessagesFit /\ FInv /\ [FNext]_fvars => FInv'
<1> SUFFICES ASSUME MessagesFit, FInv, [FNext]_fvars PROVE FInv'
  OBVIOUS
<1>0. QInv'
  BY FilterStep, QNextInv DEF FInv
<1> USE <1>0, SizeAssumption, FilterAssumption DEF FInv, Comparing, Matched, Holding
<1>1. ASSUME NEW b \in Byte, _do_obj_runChar(b) PROVE FInv'
  BY <1>1 DEF _do_obj_runChar, byteQueue_writeOne, QInv, QTypeOK
<1>2. CASE Drained
  BY <1>2 DEF Drained, queue
<1>3. CASE StreamFilter
  BY <1>3 DEF StreamFilter, queue
<1>4. CASE CompareFrom
  <2>1. tab \in Seq(Message) /\ j \in DOMAIN tab /\ tab[j].seq # <<>>
    BY <1>4 DEF CompareFrom
  <2>2. tab[j] \in Message
    BY <2>1
  <2>3. tab[j].seq \in Seq(SUBSET Byte)
    BY <2>2 DEF Message
  <2>4. Len(tab[j].seq) > 0
    BY <2>1, <2>3, EmptySeq
  <2> QED
    BY <1>4, <2>4 DEF CompareFrom, byteQueue_resetPeek, QInv, QTypeOK
<1>5. CASE Starve
  <2>1. peek_count = 0 /\ count = k
    BY <1>5 DEF Starve, PeekEmpty, QInv, QTypeOK
  <2>2. count < Size
    BY <2>1, <1>5 DEF Starve, MessagesFit, QInv, QTypeOK, Message
  <2> QED
    BY <1>5, <2>2, NextMessageInv DEF Starve, queue
<1>6. CASE Differ
  BY <1>6, NextMessageInv DEF Differ, byteQueue_peekOne
<1>7. CASE Agree
  BY <1>7 DEF Agree, byteQueue_peekOne, QInv, QTypeOK
<1>8. CASE Drop
  BY <1>8 DEF Drop, byteQueue_dropAllPeeked, QInv, QTypeOK
<1>9. CASE PassOn
  BY <1>9 DEF PassOn, byteQueue_readOne, QInv, QTypeOK
<1>10. CASE Finished \/ UNCHANGED fvars
  BY <1>10 DEF Finished, fvars, queue, filter
<1> QED
  BY <1>1, <1>2, <1>3, <1>4, <1>5, <1>6, <1>7, <1>8, <1>9, <1>10 DEF FNext

(* _do_obj_runChar never finds the queue full: bytes are held back only    *)
(* for a message that is longer than they are, whatever the tables, the    *)
(* input and the moment at which the editor ends the shell.                *)
THEOREM FilterHasRoom ==
  ASSUME MessagesFit, \E b : b \in Byte PROVE FSpec => []RoomForByte
<1>1. FInit => FInv
  <2> SUFFICES ASSUME FInit PROVE FInv
    OBVIOUS
  <2>1. QInv
    BY FilterInit, QInitInv
  <2> QED
    BY <2>1, SizeAssumption DEF FInit, FInv, Comparing, Matched, Holding
<1>2. FInv => RoomForByte
  BY SizeAssumption DEF FInv, QInv, QTypeOK, Aligned, Ahead, Holding, RoomForByte, Full
<1>3. FInv /\ [FNext]_fvars => FInv'
  BY FilterNextInv
<1> QED
  BY <1>1, <1>2, <1>3, PTL DEF FSpec

-----------------------------------------------------------------------------
(* A string is a prefix and what comes after it, also when it goes on.     *)
LEMMA AfterIs ==
  ASSUME NEW s \in Seq(Byte), NEW i \in 0 .. Len(s)
  PROVE  /\ After(s, i) \in Seq(Byte) /\ Len(After(s, i)) = Len(s) - i
         /\ \A a \in 1 .. Len(s) - i : After(s, i)[a] = s[i + a]
         /\ SubSeq(s, 1, i) \in Seq(Byte) /\ Len(SubSeq(s, 1, i)) = i
         /\ \A a \in 1 .. i : SubSeq(s, 1, i)[a] = s[a]
<1>1. Len(s) \in Nat /\ i \in Int /\ \A a \in 1 .. Len(s) : s[a] \in Byte
  OBVIOUS
<1>2. /\ SubSeq(s, i + 1, Len(s)) \in Seq(Byte)
      /\ Len(SubSeq(s, i + 1, Len(s))) = IF i + 1 <= Len(s) THEN Len(s) - (i + 1) + 1 ELSE 0
      /\ \A a \in 1 .. Len(s) - (i + 1) + 1 : SubSeq(s, i + 1, Len(s))[a] = s[i + 1 + a - 1]
  BY <1>1, SubSeqProperties
<1>3. /\ SubSeq(s, 1, i) \in Seq(Byte)
      /\ Len(SubSeq(s, 1, i)) = IF 1 <= i THEN i - 1 + 1 ELSE 0
      /\ \A a \in 1 .. i - 1 + 1 : SubSeq(s, 1, i)[a] = s[1 + a - 1]
  BY <1>1, SubSeqProperties
<1>4. \A a \in 1 .. Len(s) - i : i + 1 + a - 1 = i + a
  BY <1>1
<1> QED
  BY <1>1, <1>2, <1>3, <1>4 DEF After

LEMMA AfterConcat ==
  ASSUME NEW s \in Seq(Byte), NEW t \in Seq(Byte), NEW i \in 0 .. Len(s)
  PROVE  /\ After(s \o t, i) = After(s, i) \o t
         /\ SubSeq(s \o t, 1, i) = SubSeq(s, 1, i)
<1>1. /\ s \o t \in Seq(Byte) /\ Len(s \o t) = Len(s) + Len(t)
      /\ \A a \in 1 .. Len(s) + Len(t) : (s \o t)[a] = IF a <= Len(s) THEN s[a] ELSE t[a - Len(s)]
      /\ Len(s) \in Nat /\ Len(t) \in Nat /\ i \in 0 .. Len(s \o t) /\ i \in Nat
  BY ConcatProperties
<1>2. /\ After(s \o t, i) \in Seq(Byte) /\ Len(After(s \o t, i)) = Len(s) + Len(t) - i
      /\ \A a \in 1 .. Len(s) + Len(t) - i : After(s \o t, i)[a] = (s \o t)[i + a]
      /\ SubSeq(s \o t, 1, i) \in Seq(Byte) /\ Len(SubSeq(s \o t, 1, i)) = i
      /\ \A a \in 1 .. i : SubSeq(s \o t, 1, i)[a] = (s \o t)[a]
  <2> DEFINE u == s \o t
  <2>1. u \in Seq(Byte) /\ i \in 0 .. Len(u) /\ Len(u) = Len(s) + Len(t)
    BY <1>1
  <2> HIDE DEF u
  <2>2. /\ After(u, i) \in Seq(Byte) /\ Len(After(u, i)) = Len(u) - i
        /\ \A a \in 1 .. Len(u) - i : After(u, i)[a] = u[i + a]
        /\ SubSeq(u, 1, i) \in Seq(Byte) /\ Len(SubSeq(u, 1, i)) = i
        /\ \A a \in 1 .. i : SubSeq(u, 1, i)[a] = u[a]
    BY <2>1, AfterIs
  <2> QED
    BY <2>1, <2>2 DEF u
<1>3. /\ After(s, i) \in Seq(Byte) /\ Len(After(s, i)) = Len(s) - i
      /\ \A a \in 1 .. Len(s) - i : After(s, i)[a] = s[i + a]
      /\ SubSeq(s, 1, i) \in Seq(Byte) /\ Len(SubSeq(s, 1, i)) = i
      /\ \A a \in 1 .. i : SubSeq(s, 1, i)[a] = s[a]
  BY AfterIs
<1>4. /\ After(s, i) \o t \in Seq(Byte) /\ Len(After(s, i) \o t) = Len(s) - i + Len(t)
      /\ \A a \in 1 .. Len(s) - i + Len(t) :
           (After(s, i) \o t)[a] = IF a <= Len(s) - i THEN After(s, i)[a] ELSE t[a - (Len(s) - i)]
  <2> DEFINE u == After(s, i)
  <2>1. u \in Seq(Byte) /\ Len(u) = Len(s) - i
    BY <1>3
  <2> HIDE DEF u
  <2>2. /\ u \o t \in Seq(Byte) /\ Len(u \o t) = Len(u) + Len(t)
        /\ \A a \in 1 .. Len(u) + Len(t) : (u \o t)[a] = IF a <= Len(u) THEN u[a] ELSE t[a - Len(u)]
    BY <2>1, ConcatProperties
  <2> QED
    BY <2>1, <2>2 DEF u
<1>5. SubSeq(s \o t, 1, i) = SubSeq(s, 1, i)
  <2>1. \A a \in 1 .. i : SubSeq(s \o t, 1, i)[a] = SubSeq(s, 1, i)[a]
    BY <1>1, <1>2, <1>3
  <2> QED
    BY <1>2, <1>3, <2>1, SeqEqual
<1>6. After(s \o t, i) = After(s, i) \o t
  <2>1. ASSUME NEW a \in 1 .. Len(s) + Len(t) - i
        PROVE  After(s \o t, i)[a] = (After(s, i) \o t)[a]
    <3>1. After(s \o t, i)[a] = IF i + a <= Len(s) THEN s[i + a] ELSE t[i + a - Len(s)]
      BY <1>1, <1>2
    <3>2. a - (Len(s) - i) = i + a - Len(s) /\ (a <= Len(s) - i <=> i + a <= Len(s))
      BY <1>1
    <3>3. (After(s, i) \o t)[a] = IF a <= Len(s) - i THEN After(s, i)[a] ELSE t[a - (Len(s) - i)]
      BY <1>1, <1>4
    <3>4. a <= Len(s) - i => After(s, i)[a] = s[i + a]
      BY <1>1, <1>3
    <3> QED
      BY <3>1, <3>2, <3>3, <3>4
  <2>2. Len(After(s \o t, i)) = Len(s) + Len(t) - i /\ Len(After(s, i) \o t) = Len(s) + Len(t) - i
    BY <1>1, <1>2, <1>4
  <2> DEFINE u == After(s \o t, i)
             v == After(s, i) \o t
  <2>3. u \in Seq(Byte) /\ v \in Seq(Byte) /\ Len(u) = Len(v) /\ \A a \in 1 .. Len(u) : u[a] = v[a]
    BY <1>2, <1>4, <2>1, <2>2
  <2> HIDE DEF u, v
  <2>4. u = v
    BY <2>3, SeqEqual
  <2> QED
    BY <2>4 DEF u, v
<1> QED
  BY <1>5, <1>6

(* The messages: none is empty, and no bytes start with two.               *)
LEMMA MessageIs ==
  ASSUME NEW m \in Messages
  PROVE  m.seq \in Seq(SUBSET Byte) /\ Len(m.seq) \in Nat \ {0} /\ m.visible \in BOOLEAN
<1>1. \A i \in DOMAIN Default : Default[i] \in Message /\ Default[i].seq # <<>>
  BY FilterAssumption
<1>2. \A i \in DOMAIN User : User[i] \in Message /\ User[i].seq # <<>>
  BY FilterAssumption
<1>3. m \in Message /\ m.seq # <<>>
  BY <1>1, <1>2 DEF Messages
<1> QED
  BY <1>3, EmptySeq DEF Message

LEMMA HitOnce ==
  ASSUME User = <<>>, Unambiguous, NEW s \in Seq(Byte), NEW m \in Messages, NEW o \in Messages,
         IsHit(m, s), IsHit(o, s)
  PROVE  m = o
<1>1. PICK i \in DOMAIN Default : m = Default[i]
  BY DEF Messages
<1>2. PICK l \in DOMAIN Default : o = Default[l]
  BY DEF Messages
<1>3. DOMAIN m.seq = 1 .. Len(m.seq) /\ DOMAIN o.seq = 1 .. Len(o.seq) /\ DOMAIN s = 1 .. Len(s)
      /\ Len(m.seq) \in Nat /\ Len(o.seq) \in Nat /\ Len(s) \in Nat
  BY MessageIs
<1>4. ASSUME i # l PROVE FALSE
  <2>1. PICK a \in DOMAIN m.seq \cap DOMAIN o.seq : m.seq[a] \cap o.seq[a] = {}
    BY <1>1, <1>2, <1>4 DEF Unambiguous
  <2>2. a \in DOMAIN s
    BY <1>3 DEF IsHit
  <2>3. s[a] \in m.seq[a] /\ s[a] \in o.seq[a]
    BY <2>2 DEF IsHit, Fits
  <2> QED
    BY <2>1, <2>3
<1> QED
  BY <1>1, <1>2, <1>4

LEMMA ShortestIs ==
  ASSUME NEW s \in Seq(Byte), Hits(s) # {}
  PROVE  /\ Shortest(s) \in Messages /\ IsHit(Shortest(s), s)
         /\ Len(Shortest(s).seq) \in 1 .. Len(s)
<1> DEFINE R == {Len(m.seq) : m \in Hits(s)}
<1>1. \A m \in Hits(s) : m \in Messages /\ IsHit(m, s) /\ Len(m.seq) \in Nat \ {0}
  BY MessageIs DEF Hits
<1>2. R \in SUBSET Nat /\ R # {}
  BY <1>1
<1>3. PICK n0 \in R : \A r \in R : n0 <= r
  BY <1>2, NatLeast
<1>4. \E m \in Hits(s) : \A o \in Hits(s) : Len(m.seq) <= Len(o.seq)
  BY <1>3
<1>5. Shortest(s) \in Hits(s)
  BY <1>4 DEF Shortest
<1>6. Len(s) \in Nat
  OBVIOUS
<1> QED
  BY <1>1, <1>5, <1>6 DEF IsHit

(* Passed satisfies the equation by which it is defined: the strings it is *)
(* applied to get shorter.                                                 *)
Front(s) == IF Hits(s) # {}
            THEN IF Shortest(s).visible THEN SubSeq(s, 1, Len(Shortest(s).seq)) ELSE <<>>
            ELSE <<s[1]>>
Taken(s) == IF Hits(s) # {} THEN Len(Shortest(s).seq) ELSE 1
Passing  == {s \in Seq(Byte) : \/ Hits(s) # {}
                               \/ s # <<>> /\ \A m \in Messages : ~IsHeld(m, s)}

LEMMA TakenIs ==
  ASSUME NEW s \in Passing
  PROVE  /\ s \in Seq(Byte) /\ Taken(s) \in 1 .. Len(s) /\ Front(s) \in Seq(Byte)
         /\ After(s, Taken(s)) \in Seq(Byte) /\ Len(After(s, Taken(s))) < Len(s)
<1>1. s \in Seq(Byte) /\ Len(s) \in Nat
  BY DEF Passing
<1>2. CASE Hits(s) # {}
  <2>1. Len(Shortest(s).seq) \in 1 .. Len(s)
    BY <1>1, <1>2, ShortestIs
  <2>2. Taken(s) = Len(Shortest(s).seq)
    BY <1>2 DEF Taken
  <2>3. SubSeq(s, 1, Taken(s)) \in Seq(Byte) /\ After(s, Taken(s)) \in Seq(Byte)
        /\ Len(After(s, Taken(s))) = Len(s) - Taken(s)
    <3>1. PICK i \in 0 .. Len(s) : i = Taken(s)
      BY <1>1, <2>1, <2>2
    <3>2. SubSeq(s, 1, i) \in Seq(Byte) /\ After(s, i) \in Seq(Byte) /\ Len(After(s, i)) = Len(s) - i
      BY <1>1, AfterIs
    <3> QED
      BY <3>1, <3>2
  <2>4. Front(s) \in Seq(Byte)
    BY <1>2, <2>2, <2>3, EmptySeq DEF Front
  <2> QED
    BY <1>1, <2>1, <2>2, <2>3, <2>4
<1>3. CASE Hits(s) = {}
  <2>1. s # <<>>
    BY <1>3 DEF Passing
  <2>2. Len(s) >= 1 /\ s[1] \in Byte
    BY <1>1, <2>1, EmptySeq
  <2>3. Taken(s) = 1 /\ Front(s) = <<s[1]>>
    BY <1>3 DEF Taken, Front
  <2>4. After(s, 1) \in Seq(Byte) /\ Len(After(s, 1)) = Len(s) - 1
    <3>1. PICK i \in 0 .. Len(s) : i = 1
      BY <1>1, <2>2
    <3>2. After(s, i) \in Seq(Byte) /\ Len(After(s, i)) = Len(s) - i
      BY <1>1, AfterIs
    <3> QED
      BY <3>1, <3>2
  <2> QED
    BY <1>1, <2>2, <2>3, <2>4
<1> QED
  BY <1>2, <1>3

LEMMA PassedIs ==
  \A s \in Seq(Byte) :
    /\ Passed[s] \in Seq(Byte)
    /\ Passed[s] = IF s \in Passing THEN Front(s) \o Passed[After(s, Taken(s))] ELSE <<>>
<1> DEFINE D == Seq(Byte)
           rank == [s \in D |-> Len(s)]
           next == [s \in Passing |-> After(s, Taken(s))]
           base == [s \in D |-> <<>>]
           op == [sv \in Passing \X D |-> Front(sv[1]) \o sv[2]]
<1>1. Ranked(D, rank, Passing, next)
  <2>1. Passing \in SUBSET D
    BY DEF Passing
  <2>2. rank \in [D -> Nat]
    OBVIOUS
  <2>3. next \in [Passing -> D]
    BY TakenIs
  <2>4. \A s \in Passing : rank[next[s]] < rank[s]
    BY <2>1, TakenIs
  <2> QED
    BY <2>1, <2>2, <2>3, <2>4 DEF Ranked
<1>2. base \in [D -> D]
  BY EmptySeq
<1>3. op \in [Passing \X D -> D]
  <2>1. \A s \in Passing, v \in D : Front(s) \o v \in D
    BY TakenIs, ConcatProperties
  <2> QED
    BY <2>1
<1>4. \E f \in [D -> D] : Solves(f, D, Passing, next, base, op)
  <2> HIDE DEF D, rank, next, base, op
  <2> QED
    BY <1>1, <1>2, <1>3, Recursive
<1>5. PICK f \in [D -> D] : \A s \in D :
        f[s] = IF s \in Passing THEN op[<<s, f[next[s]]>>] ELSE base[s]
  BY <1>4 DEF Solves
<1>6. ASSUME NEW s \in D
      PROVE  f[s] = IF s \in Passing THEN Front(s) \o f[After(s, Taken(s))] ELSE <<>>
  <2>1. CASE s \in Passing
    <3>1. next[s] = After(s, Taken(s)) /\ next[s] \in D /\ f[next[s]] \in D
      BY <2>1, TakenIs
    <3>2. op[<<s, f[next[s]]>>] = Front(s) \o f[next[s]]
      BY <2>1, <3>1
    <3> HIDE DEF op, next, D
    <3> QED
      BY <1>5, <1>6, <2>1, <3>1, <3>2
  <2>2. CASE s \notin Passing
    BY <1>5, <2>2
  <2> QED
    BY <2>1, <2>2
<1> DEFINE Body(g, s) ==
             IF Hits(s) # {}
             THEN (IF Shortest(s).visible THEN SubSeq(s, 1, Len(Shortest(s).seq)) ELSE <<>>)
                    \o g[After(s, Len(Shortest(s).seq))]
             ELSE IF s = <<>> \/ \E m \in Messages : IsHeld(m, s) THEN <<>>
             ELSE <<s[1]>> \o g[After(s, 1)]
<1>7. \A g : \A s \in D : Body(g, s) = IF s \in Passing THEN Front(s) \o g[After(s, Taken(s))] ELSE <<>>
  BY DEF Passing, Front, Taken
<1>8. f = [s \in D |-> Body(f, s)]
  <2>1. \A s \in D : f[s] = Body(f, s)
    <3> HIDE DEF Body, D
    <3> QED
      BY <1>6, <1>7
  <2> QED
    BY <2>1
<1> DEFINE h == CHOOSE g : g = [s \in D |-> Body(g, s)]
<1>9. h = [s \in D |-> Body(h, s)]
  BY <1>8
<1>10. Passed = h
  BY DEF Passed
<1> HIDE DEF h
<1>11. ASSUME NEW s \in D
       PROVE  h[s] = IF s \in Passing THEN Front(s) \o h[After(s, Taken(s))] ELSE <<>>
  <2>1. h[s] = Body(h, s)
    BY <1>9, <1>11
  <2> HIDE DEF Body, D
  <2> QED
    BY <1>7, <1>11, <2>1
<1> DEFINE T == {k0 \in Nat : \A s \in D : Len(s) < k0 => h[s] \in D}
<1>12. 0 \in T
  OBVIOUS
<1>13. ASSUME NEW k0 \in Nat, k0 \in T PROVE k0 + 1 \in T
  <2> SUFFICES ASSUME NEW s \in D, Len(s) < k0 + 1 PROVE h[s] \in D
    OBVIOUS
  <2>1. CASE s \in Passing
    <3>1. Front(s) \in D /\ After(s, Taken(s)) \in D /\ Len(After(s, Taken(s))) < k0
      BY <2>1, TakenIs
    <3>2. h[After(s, Taken(s))] \in D
      BY <1>13, <3>1
    <3>3. Front(s) \o h[After(s, Taken(s))] \in D
      BY <3>1, <3>2, ConcatProperties
    <3> QED
      BY <1>11, <2>1, <3>3
  <2>2. CASE s \notin Passing
    BY <1>11, <2>2, EmptySeq
  <2> QED
    BY <2>1, <2>2
<1> HIDE DEF T
<1>14. \A k0 \in Nat : k0 \in T
  BY <1>12, <1>13, NatInduct
<1>15. \A s \in D : h[s] \in D
  <2> SUFFICES ASSUME NEW s \in D PROVE h[s] \in D
    OBVIOUS
  <2>1. Len(s) + 1 \in T /\ Len(s) < Len(s) + 1
    BY <1>14
  <2> QED
    BY <2>1 DEF T
<1> QED
  BY <1>10, <1>11, <1>15

-----------------------------------------------------------------------------
(* Whether a message fits can only change from yes to no when the string   *)
(* goes on, and no more once the string is as long as the message.         *)
LEMMA FitsOn ==
  ASSUME NEW s \in Seq(Byte), NEW t \in Seq(Byte), NEW m \in Messages
  PROVE  /\ Fits(m, s \o t) => Fits(m, s)
         /\ IsHit(m, s) => IsHit(m, s \o t)
<1>1. /\ s \o t \in Seq(Byte) /\ Len(s \o t) = Len(s) + Len(t)
      /\ \A i \in 1 .. Len(s) : (s \o t)[i] = s[i]
      /\ Len(s) \in Nat /\ Len(t) \in Nat /\ DOMAIN s = 1 .. Len(s)
  BY ConcatProperties
<1>2. DOMAIN (s \o t) = 1 .. Len(s) + Len(t)
  BY <1>1
<1>3. m.seq \in Seq(SUBSET Byte) /\ Len(m.seq) \in Nat /\ DOMAIN m.seq = 1 .. Len(m.seq)
  BY MessageIs
<1>4. Fits(m, s \o t) => Fits(m, s)
  BY <1>1, <1>2 DEF Fits
<1>5. ASSUME IsHit(m, s) PROVE IsHit(m, s \o t)
  BY <1>1, <1>2, <1>3, <1>5 DEF IsHit, Fits
<1> QED
  BY <1>4, <1>5

(* A message at the front is left out or passed, whatever follows ...      *)
LEMMA PassHit ==
  ASSUME User = <<>>, Unambiguous, NEW s \in Seq(Byte), NEW m \in Messages, IsHit(m, s)
  PROVE  \A t \in Seq(Byte) :
           Passed[s \o t] = (IF m.visible THEN SubSeq(s, 1, Len(m.seq)) ELSE <<>>)
                              \o Passed[After(s, Len(m.seq)) \o t]
<1> TAKE t \in Seq(Byte)
<1> DEFINE u == s \o t
<1>1. u \in Seq(Byte)
  BY ConcatProperties
<1>2. IsHit(m, u)
  BY FitsOn
<1> HIDE DEF u
<1>3. Hits(u) # {}
  BY <1>2 DEF Hits
<1>4. Shortest(u) = m
  BY <1>1, <1>2, <1>3, ShortestIs, HitOnce
<1>5. u \in Passing /\ Taken(u) = Len(m.seq)
      /\ Front(u) = IF m.visible THEN SubSeq(u, 1, Len(m.seq)) ELSE <<>>
  BY <1>1, <1>3, <1>4 DEF Passing, Taken, Front
<1>6. Passed[u] = Front(u) \o Passed[After(u, Len(m.seq))]
  BY <1>1, <1>5, PassedIs
<1>7. PICK i \in 0 .. Len(s) : i = Len(m.seq)
  BY MessageIs DEF IsHit
<1>8. After(u, i) = After(s, i) \o t /\ SubSeq(u, 1, i) = SubSeq(s, 1, i)
  BY AfterConcat DEF u
<1>9. Front(u) = IF m.visible THEN SubSeq(s, 1, Len(m.seq)) ELSE <<>>
  BY <1>5, <1>7, <1>8
<1> QED
  BY <1>6, <1>7, <1>8, <1>9 DEF u

(* ... and a byte that no message can begin with is passed.                *)
LEMMA PassByte ==
  ASSUME NEW s \in Seq(Byte), \A m \in Messages : ~Fits(m, s)
  PROVE  /\ s # <<>>
         /\ \A t \in Seq(Byte) : Passed[s \o t] = SubSeq(s, 1, 1) \o Passed[After(s, 1) \o t]
<1>1. s # <<>>
  <2>1. Default[1] \in Messages
    BY FilterAssumption, EmptySeq DEF Messages
  <2>2. s = <<>> => Fits(Default[1], s)
    BY DEF Fits
  <2> QED
    BY <2>1, <2>2
<1>2. Len(s) \in Nat /\ Len(s) >= 1 /\ s[1] \in Byte
  BY <1>1, EmptySeq
<1>3. ASSUME NEW t \in Seq(Byte) PROVE Passed[s \o t] = SubSeq(s, 1, 1) \o Passed[After(s, 1) \o t]
  <2> DEFINE u == s \o t
  <2>1. u \in Seq(Byte) /\ u[1] = s[1] /\ Len(u) >= 1
    BY <1>2, ConcatProperties
  <2>2. \A m \in Messages : ~Fits(m, u)
    BY FitsOn
  <2> HIDE DEF u
  <2>3. Hits(u) = {} /\ \A m \in Messages : ~IsHeld(m, u)
    BY <2>2 DEF Hits, IsHit, IsHeld
  <2>4. u # <<>>
    BY <2>1
  <2>5. u \in Passing /\ Taken(u) = 1 /\ Front(u) = <<u[1]>>
    BY <2>1, <2>3, <2>4 DEF Passing, Taken, Front
  <2>6. Passed[u] = <<u[1]>> \o Passed[After(u, 1)]
    BY <2>1, <2>5, PassedIs
  <2>7. PICK i \in 0 .. Len(s) : i = 1
    BY <1>2
  <2>8. After(u, i) = After(s, i) \o t
    BY AfterConcat DEF u
  <2>9. SubSeq(s, 1, 1) = <<s[1]>>
    <3>1. SubSeq(s, 1, i) \in Seq(Byte) /\ Len(SubSeq(s, 1, i)) = i /\ \A a \in 1 .. i : SubSeq(s, 1, i)[a] = s[a]
      BY AfterIs
    <3>2. Len(SubSeq(s, 1, 1)) = 1 /\ SubSeq(s, 1, 1)[1] = s[1] /\ SubSeq(s, 1, 1) \in Seq(Byte)
      BY <2>7, <3>1
    <3>3. <<s[1]>> \in Seq(Byte) /\ Len(<<s[1]>>) = 1 /\ <<s[1]>>[1] = s[1]
      BY <1>2
    <3> DEFINE v == SubSeq(s, 1, 1)
               o == <<s[1]>>
    <3>4. v \in Seq(Byte) /\ o \in Seq(Byte) /\ Len(v) = Len(o) /\ \A a \in 1 .. Len(v) : v[a] = o[a]
      BY <3>2, <3>3
    <3> HIDE DEF v, o
    <3>5. v = o
      BY <3>4, SeqEqual
    <3> QED
      BY <3>5 DEF v, o
  <2> QED
    BY <2>1, <2>6, <2>7, <2>8, <2>9 DEF u
<1> QED
  BY <1>1, <1>3

LEMMA Associate ==
  \A p, q, r \in Seq(Byte) : (p \o q) \o r = p \o (q \o r)
BY ConcatAssociative

(* What was given out (fd), the d bytes that are decided on and what the   *)
(* reference makes of the rest of the queue (c) are what it makes of the   *)
(* input (in), now and with any more input.                                *)
Even(fd, d, c, in) ==
  \A t \in Seq(Byte) : fd \o SubSeq(c, 1, d) \o Passed[After(c, d) \o t] = Passed[in \o t]

LEMMA NoneDecided ==
  ASSUME NEW fd \in Seq(Byte), NEW c \in Seq(Byte), NEW in \in Seq(Byte)
  PROVE  Even(fd, 0, c, in) <=> \A t \in Seq(Byte) : fd \o Passed[c \o t] = Passed[in \o t]
<1>1. SubSeq(c, 1, 0) = <<>>
  BY SubSeqEmpty
<1>2. fd \o SubSeq(c, 1, 0) = fd
  BY <1>1, ConcatEmptySeq
<1>3. After(c, 0) = c
  BY SubSeqFull DEF After
<1> QED
  BY <1>2, <1>3 DEF Even

(* The first d bytes are decided on; the first d are dropped.              *)
LEMMA EvenDecide ==
  ASSUME NEW fd \in Seq(Byte), NEW c \in Seq(Byte), NEW in \in Seq(Byte),
         NEW d \in 0 .. Len(c), Even(fd, 0, c, in),
         \A t \in Seq(Byte) : Passed[c \o t] = SubSeq(c, 1, d) \o Passed[After(c, d) \o t]
  PROVE  Even(fd, d, c, in)
<1> SUFFICES ASSUME NEW t \in Seq(Byte)
             PROVE  fd \o SubSeq(c, 1, d) \o Passed[After(c, d) \o t] = Passed[in \o t]
  BY DEF Even
<1>1. fd \o Passed[c \o t] = Passed[in \o t]
  BY NoneDecided
<1>2. SubSeq(c, 1, d) \in Seq(Byte) /\ After(c, d) \in Seq(Byte)
  BY AfterIs
<1>3. After(c, d) \o t \in Seq(Byte)
  BY <1>2, ConcatProperties
<1>4. Passed[After(c, d) \o t] \in Seq(Byte)
  BY <1>3, PassedIs
<1>5. (fd \o SubSeq(c, 1, d)) \o Passed[After(c, d) \o t] = fd \o (SubSeq(c, 1, d) \o Passed[After(c, d) \o t])
  <2> DEFINE p == SubSeq(c, 1, d)
             q == Passed[After(c, d) \o t]
  <2>1. p \in Seq(Byte) /\ q \in Seq(Byte)
    BY <1>2, <1>4
  <2> HIDE DEF p, q
  <2>2. (fd \o p) \o q = fd \o (p \o q)
    BY <2>1, Associate
  <2> QED
    BY <2>2 DEF p, q
<1>6. Passed[c \o t] = SubSeq(c, 1, d) \o Passed[After(c, d) \o t]
  OBVIOUS
<1> QED
  BY <1>1, <1>5, <1>6

LEMMA EvenDrop ==
  ASSUME NEW fd \in Seq(Byte), NEW c \in Seq(Byte), NEW in \in Seq(Byte),
         NEW d \in 0 .. Len(c), Even(fd, 0, c, in),
         \A t \in Seq(Byte) : Passed[c \o t] = <<>> \o Passed[After(c, d) \o t]
  PROVE  Even(fd, 0, After(c, d), in)
<1>1. After(c, d) \in Seq(Byte)
  BY AfterIs
<1>2. ASSUME NEW t \in Seq(Byte) PROVE fd \o Passed[After(c, d) \o t] = Passed[in \o t]
  <2>1. fd \o Passed[c \o t] = Passed[in \o t]
    BY NoneDecided
  <2>2. After(c, d) \o t \in Seq(Byte)
    BY <1>1, ConcatProperties
  <2>3. Passed[After(c, d) \o t] \in Seq(Byte)
    BY <2>2, PassedIs
  <2>4. Passed[c \o t] = Passed[After(c, d) \o t]
    BY <2>3, ConcatEmptySeq
  <2> QED
    BY <2>1, <2>4
<1> QED
  BY <1>1, <1>2, NoneDecided

(* The first byte is given out.                                            *)
LEMMA EvenRead ==
  ASSUME NEW fd \in Seq(Byte), NEW c \in Seq(Byte), NEW in \in Seq(Byte),
         NEW d \in 1 .. Len(c), Even(fd, d, c, in)
  PROVE  Even(Append(fd, c[1]), d - 1, Tail(c), in)
<1>1. /\ c # <<>> /\ c[1] \in Byte /\ Len(c) \in Nat /\ Len(c) >= 1
      /\ Tail(c) \in Seq(Byte) /\ Len(Tail(c)) = Len(c) - 1
      /\ \A a \in 1 .. Len(c) - 1 : Tail(c)[a] = c[a + 1]
  BY HeadTailProperties, EmptySeq
<1> DEFINE e == d - 1
<1>2. e \in 0 .. Len(Tail(c)) /\ e \in Nat /\ d = e + 1 /\ d \in 0 .. Len(c)
  BY <1>1
<1> HIDE DEF e
<1> DEFINE r == Tail(c)
           x == SubSeq(r, 1, e)
           y == After(r, e)
<1>3. /\ y \in Seq(Byte) /\ Len(y) = Len(r) - e /\ \A a \in 1 .. Len(r) - e : y[a] = r[e + a]
      /\ x \in Seq(Byte) /\ Len(x) = e /\ \A a \in 1 .. e : x[a] = r[a]
  <2>1. r \in Seq(Byte) /\ e \in 0 .. Len(r)
    BY <1>1, <1>2
  <2> HIDE DEF r
  <2> QED
    BY <2>1, AfterIs
<1>4. /\ After(c, d) \in Seq(Byte) /\ Len(After(c, d)) = Len(c) - d
      /\ \A a \in 1 .. Len(c) - d : After(c, d)[a] = c[d + a]
      /\ SubSeq(c, 1, d) \in Seq(Byte) /\ Len(SubSeq(c, 1, d)) = d
      /\ \A a \in 1 .. d : SubSeq(c, 1, d)[a] = c[a]
  BY <1>2, AfterIs
<1>5. After(c, d) = y
  <2> DEFINE u == After(c, d)
  <2>1. u \in Seq(Byte) /\ y \in Seq(Byte) /\ Len(u) = Len(y)
    BY <1>1, <1>2, <1>3, <1>4
  <2>2. ASSUME NEW a \in 1 .. Len(u) PROVE u[a] = y[a]
    <3>1. a \in 1 .. Len(c) - d /\ a \in 1 .. Len(r) - e /\ e + a \in 1 .. Len(c) - 1 /\ e + a + 1 = d + a
      BY <1>1, <1>2, <1>4
    <3> QED
      BY <1>1, <1>3, <1>4, <3>1
  <2> HIDE DEF u, y
  <2>3. u = y
    BY <2>1, <2>2, SeqEqual
  <2> QED
    BY <2>3 DEF u
<1>6. fd \o SubSeq(c, 1, d) = Append(fd, c[1]) \o x
  <2>1. SubSeq(c, 1, d) = <<c[1]>> \o x
    <3> DEFINE u == SubSeq(c, 1, d)
               v == <<c[1]>> \o x
    <3>1. /\ v \in Seq(Byte) /\ Len(v) = 1 + e
          /\ \A a \in 1 .. 1 + e : v[a] = IF a <= 1 THEN <<c[1]>>[a] ELSE x[a - 1]
      <4>1. <<c[1]>> \in Seq(Byte) /\ Len(<<c[1]>>) = 1
        BY <1>1
      <4> DEFINE o == <<c[1]>>
      <4> HIDE DEF o, x
      <4>2. /\ o \o x \in Seq(Byte) /\ Len(o \o x) = Len(o) + Len(x)
            /\ \A a \in 1 .. Len(o) + Len(x) : (o \o x)[a] = IF a <= Len(o) THEN o[a] ELSE x[a - Len(o)]
        BY <1>3, <4>1, ConcatProperties DEF o
      <4> QED
        BY <1>3, <4>1, <4>2 DEF o
    <3>2. u \in Seq(Byte) /\ Len(u) = Len(v)
      BY <1>2, <1>4, <3>1
    <3>3. ASSUME NEW a \in 1 .. Len(u) PROVE u[a] = v[a]
      <4>1. a \in 1 .. d /\ a \in 1 .. 1 + e /\ u[a] = c[a]
        BY <1>2, <1>4
      <4>2. CASE a = 1
        BY <3>1, <4>1, <4>2
      <4>3. CASE a # 1
        <5>1. a - 1 \in 1 .. e /\ a - 1 + 1 = a /\ a - 1 \in 1 .. Len(c) - 1
          BY <1>1, <1>2, <4>1, <4>3
        <5>2. x[a - 1] = r[a - 1] /\ r[a - 1] = c[a]
          BY <1>1, <1>3, <5>1
        <5>3. v[a] = x[a - 1]
          BY <3>1, <4>1, <4>3
        <5> QED
          BY <4>1, <5>2, <5>3
      <4> QED
        BY <4>2, <4>3
    <3> HIDE DEF u, v
    <3>4. u = v
      BY <3>1, <3>2, <3>3, SeqEqual
    <3> QED
      BY <3>4 DEF u, v
  <2>2. Append(fd, c[1]) = fd \o <<c[1]>>
    BY <1>1, AppendIsConcat
  <2>3. (fd \o <<c[1]>>) \o x = fd \o (<<c[1]>> \o x)
    <3> DEFINE o == <<c[1]>>
    <3>1. o \in Seq(Byte) /\ x \in Seq(Byte)
      BY <1>1, <1>3
    <3> HIDE DEF x, o
    <3>2. (fd \o o) \o x = fd \o (o \o x)
      BY <3>1, Associate
    <3> QED
      BY <3>2 DEF o
  <2> QED
    BY <2>1, <2>2, <2>3
<1>7. ASSUME NEW t \in Seq(Byte) PROVE Append(fd, c[1]) \o x \o Passed[y \o t] = Passed[in \o t]
  <2>1. fd \o SubSeq(c, 1, d) \o Passed[After(c, d) \o t] = Passed[in \o t]
    BY DEF Even
  <2> HIDE DEF x, y
  <2> QED
    BY <1>5, <1>6, <2>1
<1> QED
  BY <1>7 DEF Even, e

(* A byte comes in.                                                        *)
LEMMA EvenWrite ==
  ASSUME NEW fd \in Seq(Byte), NEW c \in Seq(Byte), NEW in \in Seq(Byte), NEW b \in Byte,
         Even(fd, 0, c, in)
  PROVE  Even(fd, 0, Append(c, b), Append(in, b))
<1>1. ASSUME NEW s \in Seq(Byte), NEW t \in Seq(Byte)
      PROVE  Append(s, b) \o t = s \o (<<b>> \o t)
  <2>1. Append(s, b) = s \o <<b>> /\ <<b>> \in Seq(Byte)
    BY AppendIsConcat
  <2>2. (s \o <<b>>) \o t = s \o (<<b>> \o t)
    BY <2>1, ConcatAssociative
  <2> QED
    BY <2>1, <2>2
<1>2. ASSUME NEW t \in Seq(Byte) PROVE fd \o Passed[Append(c, b) \o t] = Passed[Append(in, b) \o t]
  <2>1. <<b>> \o t \in Seq(Byte)
    <3> DEFINE o == <<b>>
    <3>1. o \in Seq(Byte)
      OBVIOUS
    <3> HIDE DEF o
    <3>2. o \o t \in Seq(Byte)
      BY <3>1, ConcatProperties
    <3> QED
      BY <3>2 DEF o
  <2>2. fd \o Passed[c \o (<<b>> \o t)] = Passed[in \o (<<b>> \o t)]
    <3> DEFINE u == <<b>> \o t
    <3>1. u \in Seq(Byte)
      BY <2>1
    <3> HIDE DEF u
    <3>2. fd \o Passed[c \o u] = Passed[in \o u]
      BY <3>1, NoneDecided
    <3> QED
      BY <3>2 DEF u
  <2>3. Append(c, b) \o t = c \o (<<b>> \o t) /\ Append(in, b) \o t = in \o (<<b>> \o t)
    BY <1>1
  <2> QED
    BY <2>2, <2>3, Zenon
<1>3. Append(c, b) \in Seq(Byte) /\ Append(in, b) \in Seq(Byte)
  BY AppendProperties
<1> QED
  BY <1>2, <1>3, NoneDecided

-----------------------------------------------------------------------------
(* What the filter knows of the bytes in the queue while it works: which   *)
(* messages cannot begin there ...                                         *)
Walked ==
  pc \in {"msg", "cmp"} =>
    /\ tab = Default /\ n = 0
    /\ result = "fail" => \A i \in 1 .. j - 1 : ~Fits(Default[i], Content)

(* ... how much of message j does, and that all of it does.                *)
Compared == pc = "cmp" => \A i \in 1 .. k : Content[i] \in tab[j].seq[i]
Sought    == pc = "drop" => /\ tab = Default /\ j \in DOMAIN Default
                           /\ IsHit(Default[j], Content) /\ ~Default[j].visible
                           /\ count - peek_count = Len(Default[j].seq)
Reading  == pc = "read" => n \in 1 .. count

PInv == /\ FInv /\ Walked /\ Compared /\ Sought /\ Reading
        /\ input \in Seq(Byte) /\ fed \in Seq(Byte) /\ torn \in BOOLEAN
        /\ ~torn => Even(fed, decided, Content, input)

(* byteQueue_peekOne looks at the first byte that was not looked at.       *)
LEMMA PeekedByte ==
  ASSUME QInv, ~PeekEmpty
  PROVE  /\ count - peek_count + 1 \in 1 .. count
         /\ buffer[peek] = Content[count - peek_count + 1]
<1> USE SizeAssumption DEF QInv, QTypeOK, Aligned, Ahead
<1>1. peek_count > 0
  BY DEF PeekEmpty
<1>2. count - peek_count + 1 \in 1 .. count
  BY <1>1
<1>3. PICK i \in 1 .. count : i = count - peek_count + 1
  BY <1>2
<1>4. peek = Ahead(head, i - 1)
  BY <1>3
<1>5. Content[i] = buffer[Ahead(head, i - 1)]
  BY DEF Content
<1> HIDE DEF QInv, QTypeOK, Aligned, Ahead
<1> QED
  BY <1>3, <1>4, <1>5

(* A message whose comparison failed does not fit what the queue holds.    *)
LEMMA DifferFits ==
  ASSUME PInv, pc = "cmp", ~PeekEmpty, buffer[peek] \notin Byte1
  PROVE  ~Fits(Default[j], Content)
<1>1. tab = Default /\ j \in DOMAIN Default /\ k = count - peek_count /\ k < Len(Default[j].seq)
  BY FilterAssumption DEF PInv, FInv, Walked, Comparing, Matched
<1>2. k + 1 \in 1 .. count /\ buffer[peek] = Content[k + 1] /\ count \in Nat
  BY <1>1, PeekedByte DEF PInv, FInv, QInv, QTypeOK
<1>3. Content \in Seq(Byte) /\ Len(Content) = count
  BY ContentSeq DEF PInv, FInv
<1>4. Default[j].seq \in Seq(SUBSET Byte)
  BY <1>1, MessageIs DEF Messages
<1>5. k + 1 \in DOMAIN Content /\ k + 1 \in DOMAIN Default[j].seq
  BY <1>1, <1>2, <1>3, <1>4
<1> QED
  BY <1>1, <1>2, <1>5 DEF Fits, Byte1

(* NextMessage goes on with the table, or passes a byte when no message    *)
(* can begin with it.                                                      *)
LEMMA NextMessageWalk ==
  ASSUME User = <<>>, PInv, pc = "cmp", Content' = Content, UNCHANGED <<count, input, fed, torn>>,
         NEW r, NextMessage(r),
         r = "none" \/ (r = "fail" /\ result = "fail" /\ ~Fits(Default[j], Content))
  PROVE  /\ Walked' /\ Compared' /\ Sought' /\ Reading'
         /\ ~torn' => Even(fed', decided', Content', input')
<1>1. /\ tab = Default /\ n = 0 /\ j \in 1 .. Len(Default) /\ Len(Default) \in Nat
      /\ DOMAIN Default = 1 .. Len(Default)
      /\ result = "fail" => \A i \in 1 .. j - 1 : ~Fits(Default[i], Content)
  BY FilterAssumption DEF PInv, FInv, Walked, Comparing
<1>2. Content \in Seq(Byte) /\ Len(Content) = count /\ count \in Nat
  BY ContentSeq DEF PInv, FInv, QInv, QTypeOK
<1>3. decided = 0 /\ (~torn => Even(fed, 0, Content, input))
      /\ fed \in Seq(Byte) /\ input \in Seq(Byte)
  BY DEF PInv, decided
<1>4. CASE j < Len(tab)
  <2>1. pc' = "msg" /\ j' = j + 1 /\ result' = r /\ tab' = tab /\ n' = n
    BY <1>4 DEF NextMessage
  <2>2. decided' = 0
    BY <2>1 DEF decided
  <2>3. Walked'
    <3>1. ASSUME r = "fail", NEW i \in 1 .. j' - 1 PROVE ~Fits(Default[i], Content)
      <4>1. i \in 1 .. j - 1 \/ i = j
        BY <1>1, <2>1
      <4> QED
        BY <1>1, <3>1, <4>1
    <3> QED
      BY <1>1, <2>1, <3>1 DEF Walked
  <2> QED
    BY <1>3, <2>1, <2>2, <2>3 DEF Compared, Sought, Reading
<1>5. CASE ~(j < Len(tab))
  <2>1. /\ n' = DropCount(r) /\ pc' = IF n' = 0 THEN "idle" ELSE "read"
    BY <1>5 DEF NextMessage
  <2>2. CASE r = "none"
    <3>1. pc' = "idle"
      BY <1>1, <2>1, <2>2 DEF DropCount
    <3>2. decided' = 0
      BY <3>1 DEF decided
    <3> QED
      BY <1>3, <3>1, <3>2 DEF Walked, Compared, Sought, Reading
  <2>3. CASE r = "fail"
    <3>1. pc' = "read" /\ n' = 1
      BY <2>1, <2>3 DEF DropCount
    <3>2. \A m \in Messages : ~Fits(m, Content)
      <4>1. \A i \in DOMAIN Default : i \in 1 .. j - 1 \/ i = j
        BY <1>1, <1>5
      <4>2. \A i \in DOMAIN Default : ~Fits(Default[i], Content)
        BY <1>1, <2>3, <4>1
      <4> QED
        BY <4>2 DEF Messages
    <3> DEFINE c == Content
    <3>3. c \in Seq(Byte) /\ Len(c) = count
      BY <1>2
    <3>4. \A m \in Messages : ~Fits(m, c)
      BY <3>2
    <3>5. ~torn => Even(fed, 0, c, input)
      BY <1>3
    <3>6. c' = c
      OBVIOUS
    <3> HIDE DEF c
    <3>7. /\ c # <<>>
          /\ \A t \in Seq(Byte) : Passed[c \o t] = SubSeq(c, 1, 1) \o Passed[After(c, 1) \o t]
      BY <3>3, <3>4, PassByte
    <3>8. Len(c) >= 1
      BY <3>3, <3>7, EmptySeq
    <3>9. PICK d \in 0 .. Len(c) : d = 1
      BY <1>2, <3>3, <3>8
    <3>10. \A t \in Seq(Byte) : Passed[c \o t] = SubSeq(c, 1, d) \o Passed[After(c, d) \o t]
      BY <3>7, <3>9
    <3>11. ~torn => Even(fed, d, c, input)
      BY <1>3, <3>3, <3>5, <3>10, EvenDecide
    <3>12. decided' = d
      BY <3>1, <3>9 DEF decided
    <3>13. ~torn' => Even(fed', decided', c', input')
      BY <3>6, <3>11, <3>12
    <3>14. Walked' /\ Compared' /\ Sought'
      BY <3>1 DEF Walked, Compared, Sought
    <3>15. Reading'
      BY <1>2, <3>1, <3>3, <3>8 DEF Reading
    <3> QED
      BY <3>13, <3>14, <3>15 DEF c
  <2> QED
    BY <2>2, <2>3
<1> QED
  BY <1>4, <1>5

(* A message that matches to its end is passed as a whole if it is         *)
(* visible, or else left for byteQueue_dropAllPeeked.                      *)
LEMMA AgreeWalk ==
  ASSUME User = <<>>, Unambiguous, PInv, Agree
  PROVE  /\ Walked' /\ Compared' /\ Sought' /\ Reading'
         /\ ~torn' => Even(fed', decided', Content', input')
<1>1. /\ pc = "cmp" /\ tab = Default /\ j \in DOMAIN Default /\ n = 0
      /\ k = count - peek_count /\ k < Len(tab[j].seq)
      /\ result = "fail" => \A i \in 1 .. j - 1 : ~Fits(Default[i], Content)
      /\ \A i \in 1 .. k : Content[i] \in Default[j].seq[i]
  BY FilterAssumption DEF PInv, FInv, Walked, Comparing, Matched, Compared, Agree
<1>2. Content \in Seq(Byte) /\ Len(Content) = count /\ count \in Nat /\ k \in Nat
  BY <1>1, ContentSeq DEF PInv, FInv, QInv, QTypeOK
<1>3. decided = 0 /\ (~torn => Even(fed, 0, Content, input))
      /\ fed \in Seq(Byte) /\ input \in Seq(Byte)
  BY <1>1 DEF PInv, decided
<1>4. /\ k + 1 \in 1 .. count /\ buffer[peek] = Content[k + 1]
      /\ buffer[peek] \in tab[j].seq[k + 1]
  BY <1>1, PeekedByte DEF PInv, FInv, Agree, byteQueue_peekOne, Byte1
<1>5. /\ Content' = Content /\ count' = count /\ peek_count' = peek_count - 1
      /\ tab' = tab /\ j' = j /\ result' = result /\ input' = input /\ fed' = fed /\ torn' = torn
      /\ k' = k + 1
  BY DEF Agree, byteQueue_peekOne, Content
<1>6. \A i \in 1 .. k + 1 : Content[i] \in Default[j].seq[i]
  <2> SUFFICES ASSUME NEW i \in 1 .. k + 1 PROVE Content[i] \in Default[j].seq[i]
    OBVIOUS
  <2>1. CASE i = k + 1
    BY <1>1, <1>4, <2>1
  <2>2. CASE i # k + 1
    BY <1>1, <1>2, <2>2
  <2> QED
    BY <2>1, <2>2
<1>7. Default[j] \in Messages /\ Default[j].seq \in Seq(SUBSET Byte) /\ Len(Default[j].seq) \in Nat
  <2>1. Default[j] \in Messages
    BY <1>1 DEF Messages
  <2> QED
    BY <2>1, MessageIs
<1>8. CASE k + 1 < Len(tab[j].seq)
  <2>1. pc' = "cmp" /\ n' = n
    BY <1>5, <1>8 DEF Agree
  <2>2. decided' = 0
    BY <2>1 DEF decided
  <2>3. Walked'
    BY <1>1, <1>5, <2>1 DEF Walked
  <2>4. Compared'
    BY <1>1, <1>5, <1>6 DEF Compared
  <2> QED
    BY <1>3, <1>5, <2>1, <2>2, <2>3, <2>4 DEF Sought, Reading
<1>9. CASE ~(k + 1 < Len(tab[j].seq))
  <2>1. k + 1 = Len(Default[j].seq)
    BY <1>1, <1>2, <1>7, <1>9
  <2>2. IsHit(Default[j], Content)
    BY <1>2, <1>4, <1>6, <1>7, <2>1 DEF IsHit, Fits
  <2>3. CASE Default[j].visible
    <3>1. pc' = "read" /\ n' = k + 1
      <4>1. pc' = "read" /\ n' = count' - peek_count'
        BY <1>1, <1>5, <1>9, <2>3 DEF Agree, byteQueue_getPeekedNumber
      <4> QED
        BY <1>1, <1>2, <1>5, <4>1 DEF PInv, FInv, QInv, QTypeOK
    <3>2. PICK d \in 0 .. Len(Content) : d = k + 1
      BY <1>2, <1>4
    <3>3. decided' = d
      BY <3>1, <3>2 DEF decided
    <3>4. \A t \in Seq(Byte) : Passed[Content \o t] = SubSeq(Content, 1, d) \o Passed[After(Content, d) \o t]
      <4> DEFINE m == Default[j]
                 c == Content
      <4>1. m \in Messages /\ IsHit(m, c) /\ m.visible /\ c \in Seq(Byte) /\ Len(m.seq) = d
        BY <1>2, <1>7, <2>1, <2>2, <2>3, <3>2
      <4> HIDE DEF m, c
      <4>2. \A t \in Seq(Byte) : Passed[c \o t] = SubSeq(c, 1, d) \o Passed[After(c, d) \o t]
        BY <4>1, PassHit
      <4> QED
        BY <4>2 DEF c
    <3>5. ~torn => Even(fed, d, Content, input)
      <4> DEFINE c == Content
      <4>1. c \in Seq(Byte) /\ d \in 0 .. Len(c) /\ (~torn => Even(fed, 0, c, input))
            /\ \A t \in Seq(Byte) : Passed[c \o t] = SubSeq(c, 1, d) \o Passed[After(c, d) \o t]
        BY <1>2, <1>3, <3>4
      <4> HIDE DEF c
      <4>2. ~torn => Even(fed, d, c, input)
        BY <1>3, <4>1, EvenDecide
      <4> QED
        BY <4>2 DEF c
    <3>6. Reading'
      BY <1>4, <1>5, <3>1 DEF Reading
    <3> QED
      BY <1>5, <3>1, <3>3, <3>5, <3>6 DEF Walked, Compared, Sought
  <2>4. CASE ~Default[j].visible
    <3>1. pc' = "drop"
      BY <1>1, <1>5, <1>9, <2>4 DEF Agree
    <3>2. decided' = 0
      BY <3>1 DEF decided
    <3>3. count' - peek_count' = k + 1
      BY <1>1, <1>2, <1>5 DEF PInv, FInv, QInv, QTypeOK
    <3>4. Sought'
      BY <1>1, <1>5, <2>1, <2>2, <2>4, <3>3 DEF Sought
    <3> QED
      BY <1>3, <1>5, <3>1, <3>2, <3>4 DEF Walked, Compared, Reading
  <2> QED
    BY <2>3, <2>4
<1> QED
  BY <1>8, <1>9

(* A complete message is dropped.                                          *)
LEMMA DropWalk ==
  ASSUME User = <<>>, Unambiguous, PInv, Drop
  PROVE  /\ Walked' /\ Compared' /\ Sought' /\ Reading'
         /\ ~torn' => Even(fed', decided', Content', input')
<1>1. /\ pc = "drop" /\ j \in DOMAIN Default
      /\ IsHit(Default[j], Content) /\ ~Default[j].visible
      /\ count - peek_count = Len(Default[j].seq)
  BY DEF PInv, Sought, Drop
<1>2. Content \in Seq(Byte) /\ Len(Content) = count /\ count \in Nat
  BY ContentSeq DEF PInv, FInv, QInv, QTypeOK
<1>3. (~torn => Even(fed, 0, Content, input)) /\ fed \in Seq(Byte) /\ input \in Seq(Byte)
  BY <1>1 DEF PInv, decided
<1>4. /\ Content' = SubSeq(Content, count - peek_count + 1, Len(Content))
      /\ pc' = "idle" /\ fed' = fed /\ input' = input /\ torn' = torn
  BY DropTakesPeeked DEF PInv, FInv, Drop
<1> DEFINE m == Default[j]
           c == Content
<1>5. m \in Messages /\ IsHit(m, c) /\ ~m.visible /\ c \in Seq(Byte) /\ Len(m.seq) \in Nat
  <2>1. m \in Messages
    BY <1>1 DEF Messages
  <2> QED
    BY <1>1, <1>2, <2>1, MessageIs
<1>6. PICK d \in 0 .. Len(c) : d = Len(m.seq)
  BY <1>2, <1>5 DEF IsHit
<1>7. c' = After(c, d)
  BY <1>1, <1>4, <1>6 DEF After
<1>8. ~torn => Even(fed, 0, c, input)
  BY <1>3
<1> HIDE DEF m, c
<1>9. \A t \in Seq(Byte) : Passed[c \o t] = <<>> \o Passed[After(c, d) \o t]
  BY <1>5, <1>6, PassHit
<1>10. ~torn => Even(fed, 0, After(c, d), input)
  BY <1>3, <1>5, <1>8, <1>9, EvenDrop
<1>11. decided' = 0
  BY <1>4 DEF decided
<1>12. ~torn' => Even(fed', decided', c', input')
  BY <1>4, <1>7, <1>10, <1>11
<1> QED
  BY <1>4, <1>12 DEF c, Walked, Compared, Sought, Reading

(* A byte goes to the editor.                                              *)
LEMMA PassOnWalk ==
  ASSUME PInv, PassOn
  PROVE  /\ Walked' /\ Compared' /\ Sought' /\ Reading'
         /\ fed' \in Seq(Byte) /\ torn' \in BOOLEAN
         /\ ~torn' => Even(fed', decided', Content', input')
<1>1. pc = "read" /\ n \in 1 .. count /\ torn \in BOOLEAN
  BY DEF PInv, Reading, PassOn
<1>2. Content \in Seq(Byte) /\ Len(Content) = count /\ count \in Nat
  BY ContentSeq DEF PInv, FInv, QInv, QTypeOK
<1>3. (~torn => Even(fed, n, Content, input)) /\ fed \in Seq(Byte) /\ input \in Seq(Byte)
  BY <1>1 DEF PInv, decided
<1>4. Content # <<>> /\ Content' = Tail(Content)
  BY ReadTakesFirst DEF PInv, FInv, PassOn
<1>5. buffer[head] = Content[1]
  <2>1. 1 \in 1 .. count /\ Ahead(head, 1 - 1) = head
    BY <1>1, SizeAssumption DEF PInv, FInv, QInv, QTypeOK, Ahead
  <2> QED
    BY <2>1 DEF Content
<1>6. /\ fed' = Append(fed, Content[1]) /\ n' = n - 1 /\ count' = count - 1 /\ input' = input
      /\ \/ pc' = (IF n' = 0 THEN "loop" ELSE "read") /\ torn' = torn
         \/ pc' = "idle" /\ torn' = (torn \/ n' # 0)
  BY <1>5 DEF PassOn, byteQueue_readOne
<1> DEFINE c == Content
<1>7. c \in Seq(Byte) /\ n \in 1 .. Len(c) /\ c' = Tail(c) /\ (~torn => Even(fed, n, c, input))
  BY <1>1, <1>2, <1>3, <1>4
<1>8. fed' = Append(fed, c[1])
  BY <1>6
<1>9. c[1] \in Byte
  BY <1>1, <1>2
<1> HIDE DEF c
<1>10. PICK d \in 1 .. Len(c) : d = n
  BY <1>7
<1>11. ~torn => Even(Append(fed, c[1]), d - 1, Tail(c), input)
  BY <1>3, <1>7, <1>10, EvenRead
<1>12. ~torn' => decided' = d - 1
  BY <1>6, <1>10 DEF decided
<1>13. ~torn' => ~torn
  BY <1>6
<1>14. ~torn' => Even(fed', decided', c', input')
  BY <1>6, <1>7, <1>8, <1>11, <1>12, <1>13
<1>15. fed' \in Seq(Byte)
  BY <1>3, <1>8, <1>9, AppendProperties
<1>16. torn' \in BOOLEAN
  BY <1>1, <1>6
<1>17. Reading'
  BY <1>1, <1>2, <1>6 DEF Reading
<1> QED
  BY <1>6, <1>14, <1>15, <1>16, <1>17 DEF c, Walked, Compared, Sought

LEMMA PassNext ==
  ASSUME MessagesFit, Unambiguous, User = <<>>, PInv, [FNext]_fvars PROVE PInv'
<1>0. FInv'
  BY FilterNextInv DEF PInv
<1>1. ASSUME NEW b \in Byte, _do_obj_runChar(b) PROVE PInv'
  <2>1. Content' = Append(Content, b) /\ Content \in Seq(Byte)
    BY <1>1, WriteAppends, ContentSeq DEF PInv, FInv, _do_obj_runChar
  <2>2. /\ pc = "idle" /\ pc' = "loop" /\ input' = Append(input, b) /\ fed' = fed /\ torn' = torn
        /\ fed \in Seq(Byte) /\ input \in Seq(Byte)
    BY <1>1 DEF PInv, _do_obj_runChar
  <2>3. decided = 0 /\ decided' = 0
    BY <2>2 DEF decided
  <2>4. ~torn => Even(fed, 0, Append(Content, b), Append(input, b))
    <3> DEFINE c == Content
    <3>1. c \in Seq(Byte) /\ (~torn => Even(fed, 0, c, input))
      BY <2>1, <2>3 DEF PInv
    <3> HIDE DEF c
    <3>2. ~torn => Even(fed, 0, Append(c, b), Append(input, b))
      BY <1>1, <2>2, <3>1, EvenWrite
    <3> QED
      BY <3>2 DEF c
  <2>5. ~torn' => Even(fed', decided', Content', input')
    BY <2>1, <2>2, <2>3, <2>4
  <2>6. input' \in Seq(Byte)
    BY <1>1, <2>2, AppendProperties
  <2> QED
    BY <1>0, <2>2, <2>5, <2>6 DEF PInv, Walked, Compared, Sought, Reading
<1>2. CASE Drained
  <2>1. Content' = Content /\ decided = 0 /\ decided' = 0
    BY <1>2 DEF Drained, queue, Content, decided
  <2> QED
    BY <1>0, <1>2, <2>1 DEF Drained, PInv, Walked, Compared, Sought, Reading
<1>3. CASE StreamFilter
  <2>1. Content' = Content /\ decided = 0 /\ decided' = 0
    BY <1>3 DEF StreamFilter, queue, Content, decided
  <2>2. Walked'
    BY <1>3 DEF StreamFilter, Walked
  <2> QED
    BY <1>0, <1>3, <2>1, <2>2 DEF StreamFilter, PInv, Compared, Sought, Reading
<1>4. CASE CompareFrom
  <2>1. Content' = Content /\ decided = 0 /\ decided' = 0
    BY <1>4 DEF CompareFrom, byteQueue_resetPeek, Content, decided
  <2>2. Walked' /\ Compared'
    BY <1>4, <2>1 DEF CompareFrom, PInv, Walked, Compared
  <2> QED
    BY <1>0, <1>4, <2>1, <2>2 DEF CompareFrom, PInv, Sought, Reading
<1>5. CASE Starve
  <2>1. /\ Content' = Content /\ UNCHANGED <<count, input, fed, torn>>
        /\ pc = "cmp" /\ NextMessage("none")
    BY <1>5 DEF Starve, queue, Content
  <2>2. /\ Walked' /\ Compared' /\ Sought' /\ Reading'
        /\ ~torn' => Even(fed', decided', Content', input')
    BY <2>1, NextMessageWalk
  <2> QED
    BY <1>0, <2>1, <2>2 DEF PInv
<1>6. CASE Differ
  <2>1. /\ Content' = Content /\ UNCHANGED <<count, input, fed, torn>>
        /\ pc = "cmp" /\ NextMessage(result)
        /\ ~PeekEmpty /\ buffer[peek] \notin Byte1
    BY <1>6 DEF Differ, byteQueue_peekOne, Content
  <2>2. ~Fits(Default[j], Content)
    BY <2>1, DifferFits
  <2>3. result = "none" \/ result = "fail"
    BY <2>1 DEF PInv, FInv, Comparing
  <2>4. /\ Walked' /\ Compared' /\ Sought' /\ Reading'
        /\ ~torn' => Even(fed', decided', Content', input')
    BY <2>1, <2>2, <2>3, NextMessageWalk
  <2> QED
    BY <1>0, <2>1, <2>4 DEF PInv
<1>7. CASE Agree
  BY <1>0, <1>7, AgreeWalk DEF PInv, Agree
<1>8. CASE Drop
  BY <1>0, <1>8, DropWalk DEF PInv, Drop
<1>9. CASE PassOn
  BY <1>0, <1>9, PassOnWalk DEF PInv, PassOn
<1>10. CASE Finished \/ UNCHANGED fvars
  <2>1. Content' = Content /\ decided' = decided
    BY <1>10 DEF Finished, fvars, queue, filter, Content, decided
  <2>2. Walked' /\ Compared' /\ Sought' /\ Reading'
    BY <1>10, <2>1 DEF Finished, fvars, queue, filter, PInv, Walked, Compared, Sought, Reading
  <2> QED
    BY <1>0, <1>10, <2>1, <2>2 DEF Finished, fvars, queue, filter, PInv
<1> QED
  BY <1>1, <1>2, <1>3, <1>4, <1>5, <1>6, <1>7, <1>8, <1>9, <1>10 DEF FNext

(* The filter gives the editor exactly what the reference makes of the     *)
(* input read as a whole, message by message: the byte-by-byte matching of *)
(* _do_message_filter, which starts again with the next byte when no       *)
(* message fits and waits while one may, never loses, doubles or reorders  *)
(* a byte, for every unambiguous table that fits the buffer, every input   *)
(* and every moment at which the editor ends the shell.                    *)
THEOREM FilterPasses ==
  ASSUME MessagesFit, Unambiguous, User = <<>>, \E b : b \in Byte
  PROVE  FSpec => []Filtered
<1>1. FInit => PInv
  <2> SUFFICES ASSUME FInit PROVE PInv
    OBVIOUS
  <2>1. QInv
    BY FilterInit, QInitInv
  <2>2. FInv
    BY <2>1, SizeAssumption DEF FInit, FInv, Comparing, Matched, Holding
  <2>3. pc = "idle" /\ fed = <<>> /\ input = <<>> /\ torn = FALSE /\ count = 0
    BY DEF FInit
  <2>4. Content \in Seq(Byte) /\ Len(Content) = 0
    BY <2>1, <2>3, ContentSeq
  <2>5. Content = <<>>
    BY <2>4, EmptySeq
  <2>6. decided = 0
    BY <2>3 DEF decided
  <2>7. Even(<<>>, 0, <<>>, <<>>)
    <3> DEFINE e == <<>>
    <3>1. e \in Seq(Byte)
      OBVIOUS
    <3>2. \A t \in Seq(Byte) : <<>> \o Passed[<<>> \o t] = Passed[<<>> \o t]
      <4> TAKE t \in Seq(Byte)
      <4>1. <<>> \o t = t /\ Passed[t] \in Seq(Byte)
        BY ConcatEmptySeq, PassedIs
      <4> QED
        BY <4>1, ConcatEmptySeq
    <3>3. \A t \in Seq(Byte) : e \o Passed[e \o t] = Passed[e \o t]
      BY <3>2
    <3> HIDE DEF e
    <3>4. Even(e, 0, e, e)
      BY <3>1, <3>3, NoneDecided
    <3> QED
      BY <3>4 DEF e
  <2>8. Even(fed, decided, Content, input)
    BY <2>3, <2>5, <2>6, <2>7, Zenon
  <2>9. input \in Seq(Byte) /\ fed \in Seq(Byte)
    BY <2>3
  <2>10. Walked /\ Compared /\ Sought /\ Reading
    BY <2>3 DEF Walked, Compared, Sought, Reading
  <2> QED
    BY <2>2, <2>3, <2>8, <2>9, <2>10 DEF PInv
<1>2. PInv => Filtered
  <2> SUFFICES ASSUME PInv, ~torn
               PROVE  fed \o SubSeq(Content, 1, decided) \o Passed[After(Content, decided)] = Passed[input]
    BY DEF Filtered
  <2>1. Content \in Seq(Byte) /\ Len(Content) = count /\ count \in Nat
    BY ContentSeq DEF PInv, FInv, QInv, QTypeOK
  <2> DEFINE c == Content
  <2>2. c \in Seq(Byte) /\ Even(fed, decided, c, input) /\ input \in Seq(Byte)
    BY <2>1 DEF PInv
  <2>3. decided \in 0 .. count
    BY <2>1 DEF decided, PInv, Reading
  <2>4. PICK d \in 0 .. Len(c) : d = decided
    BY <2>1, <2>3
  <2> HIDE DEF c
  <2>5. After(c, d) \in Seq(Byte)
    BY <2>2, AfterIs
  <2>6. fed \o SubSeq(c, 1, d) \o Passed[After(c, d) \o <<>>] = Passed[input \o <<>>]
    <3>1. <<>> \in Seq(Byte)
      OBVIOUS
    <3> QED
      BY <2>2, <2>4, <3>1, Zenon DEF Even
  <2>7. After(c, d) \o <<>> = After(c, d) /\ input \o <<>> = input
    BY <2>2, <2>5, ConcatEmptySeq
  <2>8. fed \o SubSeq(c, 1, d) \o Passed[After(c, d)] = Passed[input]
    BY <2>6, <2>7, Zenon
  <2> QED
    BY <2>4, <2>8 DEF c
<1>3. PInv /\ [FNext]_fvars => PInv'
  BY PassNext
<1> QED
  BY <1>1, <1>2, <1>3, PTL DEF FSpec

-----------------------------------------------------------------------------
(* The line editor and the history.                                       *)
Inv == TypeOK /\ Terminated /\ EntriesFit

-----------------------------------------------------------------------------
(* strGetSize finds the first terminator.                                  *)
LEMMA StrLenIs ==
  ASSUME NEW b \in [0 .. BuffSize - 1 -> Char \cup {NUL}], NEW len \in 0 .. BuffSize - 1,
         b[len] = NUL, \A i \in 0 .. len - 1 : b[i] # NUL
  PROVE  StrLen(b) = len
<1> DEFINE P(m) == /\ m < BuffSize => b[m] = NUL
                   /\ \A i \in 0 .. m - 1 : b[i] # NUL
<1> USE ShellAssumption
<1>1. len \in 0 .. BuffSize /\ P(len)
  OBVIOUS
<1>2. \A m \in 0 .. BuffSize : P(m) => m = len
  <2> SUFFICES ASSUME NEW m \in 0 .. BuffSize, P(m) PROVE m = len
    OBVIOUS
  <2>1. ~(m < len)
    OBVIOUS
  <2>2. ~(len < m)
    OBVIOUS
  <2> QED BY <2>1, <2>2
<1>3. StrLen(b) = CHOOSE m \in 0 .. BuffSize : P(m)
  BY DEF StrLen
<1> QED BY <1>1, <1>2, <1>3

(* The string in the buffer is the text of the line.                       *)
LEMMA StrIsText ==
  ASSUME TypeOK, Terminated
  PROVE  /\ StrLen(lineBuff) = line_position
         /\ Str(lineBuff) = Text
         /\ Text \in Seq(Char) /\ Len(Text) = line_position
<1>1. StrLen(lineBuff) = line_position
  BY StrLenIs DEF TypeOK, Terminated
<1>2. Str(lineBuff) = Text
  BY <1>1 DEF Str, Text
<1>3. \A i \in 1 .. line_position : lineBuff[i - 1] \in Char
  BY ShellAssumption DEF TypeOK, Terminated
<1> QED BY <1>1, <1>2, <1>3 DEF Text, TypeOK

LEMMA StrIsTextNow == Inv => Str(lineBuff) = Text /\ Len(Text) = line_position
  BY StrIsText DEF Inv

LEMMA StrIsTextNext == Inv' => (Str(lineBuff) = Text /\ Len(Text) = line_position)'
  BY StrIsTextNow, PTL

(* A result of shHistory_add as the invariant needs it.                    *)
GoodHistory(r) == /\ r.entries \in Seq(Seq(Char)) /\ Len(r.entries) <= HistMax
                  /\ \A i \in DOMAIN r.entries : Len(r.entries[i]) < BuffSize
                  /\ r.current \in Int /\ r.last_offset \in Int

(* shHistory_add keeps the history within its size and its entries within  *)
(* the buffer.                                                             *)
LEMMA HistoryAdd ==
  ASSUME TypeOK, EntriesFit, NEW s \in Seq(Char), Len(s) < BuffSize
  PROVE  GoodHistory(shHistory_add(s))
<1> DEFINE d == DropOldest(history)
           h == Trimmed(history)
           Fit(x) == x \in Seq(Seq(Char)) /\ \A i \in 1 .. Len(x) : Len(x[i]) < BuffSize
<1> USE ShellAssumption
<1>1. Fit(history)
  BY DEF TypeOK, EntriesFit
<1>2. Fit(d) /\ Len(d) < HistMax
  <2>1. CASE Len(history) = HistMax
    <3>1. history # <<>> /\ d = Tail(history)
      BY <2>1, <1>1 DEF DropOldest
    <3>2. /\ d \in Seq(Seq(Char)) /\ Len(d) = Len(history) - 1
          /\ \A i \in 1 .. Len(d) : d[i] = history[i + 1]
      BY <3>1, <1>1
    <3> HIDE DEF d
    <3>3. Len(d) < HistMax
      BY <3>2, <2>1
    <3>4. ASSUME NEW i \in 1 .. Len(d) PROVE Len(d[i]) < BuffSize
      <4>1. i + 1 \in 1 .. Len(history) /\ d[i] = history[i + 1]
        BY <3>2
      <4> QED BY <4>1, <1>1
    <3> QED BY <3>2, <3>3, <3>4
  <2>2. CASE Len(history) # HistMax
    BY <2>2, <1>1 DEF DropOldest, TypeOK
  <2> QED BY <2>1, <2>2
<1> HIDE DEF d
<1>3. Fit(h) /\ Len(h) < HistMax
  <2>1. h = DropEmpty(d)
    BY DEF Trimmed, d
  <2> HIDE DEF h
  <2>2. CASE d # <<>> /\ d[Len(d)] = <<>>
    <3>1. h = [i \in 1 .. Len(d) - 1 |-> d[i]]
      BY <2>1, <2>2 DEF DropEmpty
    <3>2. Len(d) \in Nat \ {0}
      BY <1>2, <2>2
    <3> QED BY <3>1, <3>2, <1>2
  <2>3. CASE ~(d # <<>> /\ d[Len(d)] = <<>>)
    BY <2>1, <2>3, <1>2 DEF DropEmpty
  <2> QED BY <2>2, <2>3
<1> HIDE DEF h
<1>4. Fit(Append(h, s)) /\ Len(Append(h, s)) <= HistMax /\ Len(h) \in Int
  BY <1>3
<1>5. current \in Int /\ last_offset \in Int
  BY DEF TypeOK
<1>6. \/ shHistory_add(s) = [entries |-> h, current |-> current, last_offset |-> last_offset]
      \/ shHistory_add(s) = [entries |-> Append(h, s), current |-> Len(h), last_offset |-> 0]
  BY DEF shHistory_add, h
<1>7. CASE shHistory_add(s) = [entries |-> h, current |-> current, last_offset |-> last_offset]
  BY <1>3, <1>5, <1>7 DEF GoodHistory
<1>8. CASE shHistory_add(s) = [entries |-> Append(h, s), current |-> Len(h), last_offset |-> 0]
  <2> DEFINE a == Append(h, s)
  <2>1. Fit(a) /\ Len(a) <= HistMax
    BY <1>4
  <2>2. shHistory_add(s) = [entries |-> a, current |-> Len(h), last_offset |-> 0]
    BY <1>8
  <2> HIDE DEF a
  <2> QED BY <1>4, <2>1, <2>2 DEF GoodHistory
<1> QED BY <1>6, <1>7, <1>8

-----------------------------------------------------------------------------
(* The parts of the invariant: the line, the history and the rest.         *)
LineOK == /\ lineBuff \in [0 .. BuffSize - 1 -> Char \cup {NUL}]
          /\ line_position \in 0 .. BuffSize - 1 /\ line_curpos \in 0 .. line_position
          /\ Terminated
HistOK == /\ history \in Seq(Seq(Char)) /\ Len(history) <= HistMax
          /\ current \in Int /\ last_offset \in Int /\ cached_current \in BOOLEAN
          /\ saved \in Seq(Char)
          /\ EntriesFit
RestOK == /\ stat \in {"NORMAL", "SPEC", "FUNC"} /\ lastCR \in BOOLEAN
          /\ inBlock \in BOOLEAN /\ block \in Seq(Char \cup {LF})

LEMMA InvParts == Inv <=> LineOK /\ HistOK /\ RestOK
  BY DEF Inv, TypeOK, LineOK, HistOK, RestOK

LEMMA ClearOK == __clearBuff => LineOK'
  BY ShellAssumption DEF __clearBuff, Blanked, LineOK, Terminated

LEMMA EnterHistoryOK == Inv /\ EnterHistory => HistOK'
<1> SUFFICES ASSUME Inv, EnterHistory PROVE HistOK'
  OBVIOUS
<1> DEFINE r == shHistory_add(Str(lineBuff))
<1>0. Str(lineBuff) \in Seq(Char) /\ Len(Str(lineBuff)) < BuffSize
  BY StrIsText, ShellAssumption DEF Inv, TypeOK
<1>1. GoodHistory(r)
  BY <1>0, HistoryAdd DEF Inv
<1> HIDE DEF r
<1>2. saved' \in Seq(Char) /\ last_offset' = 0 /\ cached_current' \in BOOLEAN
  <2>1. saved' = <<>> /\ last_offset' = 0 /\ cached_current' = FALSE
    BY Zenon DEF EnterHistory
  <2>2. <<>> \in Seq(Char) /\ FALSE \in BOOLEAN
    OBVIOUS
  <2> QED BY <2>1, <2>2, Zenon
<1>3. CASE lineBuff[0] # NUL
  <2>1. history' = r.entries /\ current' = r.current
    BY <1>3 DEF EnterHistory, r
  <2> QED BY <1>1, <1>2, <2>1 DEF HistOK, EntriesFit, GoodHistory
<1>4. CASE lineBuff[0] = NUL
  <2>1. history' = history /\ current' = current
    BY <1>4 DEF EnterHistory
  <2>2. /\ history \in Seq(Seq(Char)) /\ Len(history) <= HistMax
        /\ current \in Int /\ EntriesFit
    BY DEF Inv, TypeOK
  <2> QED BY <1>2, <2>1, <2>2 DEF HistOK, EntriesFit
<1> QED BY <1>3, <1>4

(* What a move through the history leaves: a good line and a good history, *)
(* and either the line as it was or a recalled one.                        *)
LEMMA NavigationOK ==
  ASSUME Inv, NEW offset \in {-1, 1}, handle_history_navigation(offset)
  PROVE  /\ LineOK' /\ HistOK'
         /\ \/ UNCHANGED line
            \/ line_curpos' = line_position'
<1> DEFINE a == shHistory_add(Str(lineBuff))
           r == IF cached_current
                THEN [entries |-> history, current |-> current, last_offset |-> last_offset]
                ELSE a
           i == r.current + r.last_offset + offset
<1>0. Str(lineBuff) \in Seq(Char) /\ Len(Str(lineBuff)) < BuffSize
  BY StrIsText, ShellAssumption DEF Inv, TypeOK
<1>1. GoodHistory(a)
  BY <1>0, HistoryAdd DEF Inv
<1> HIDE DEF a
<1>2. GoodHistory(r)
  <2>1. CASE cached_current
    BY <2>1 DEF Inv, TypeOK, EntriesFit, GoodHistory
  <2>2. CASE ~cached_current
    BY <2>2, <1>1
  <2> QED BY <2>1, <2>2
<1>3. /\ cached_current' = TRUE
      /\ saved' = IF cached_current THEN saved ELSE Str(lineBuff)
      /\ history' = r.entries /\ current' = r.current
      /\ \/ /\ Found(r.entries, i)
            /\ last_offset' = r.last_offset + offset
            /\ lineBuff' = Copied(r.entries[i + 1])
            /\ line_position' = Len(r.entries[i + 1])
            /\ line_curpos' = Len(r.entries[i + 1])
         \/ /\ ~Found(r.entries, i)
            /\ last_offset' = r.last_offset
            /\ UNCHANGED line
  BY DEF handle_history_navigation, a
<1> HIDE DEF r
<1>4. HistOK'
  <2>1. saved' \in Seq(Char)
    BY <1>0, <1>3 DEF Inv, TypeOK
  <2>2. last_offset' \in Int
    BY <1>2, <1>3 DEF GoodHistory
  <2> QED BY <1>2, <1>3, <2>1, <2>2 DEF HistOK, EntriesFit, GoodHistory
<1>5. CASE Found(r.entries, i)
  <2> DEFINE s == r.entries[i + 1]
  <2>1. i + 1 \in 1 .. Len(r.entries)
    BY <1>2, <1>5 DEF Found, GoodHistory
  <2>2. s \in Seq(Char) /\ Len(s) < BuffSize
    BY <1>2, <2>1 DEF GoodHistory
  <2>3. lineBuff' = Copied(s) /\ line_position' = Len(s) /\ line_curpos' = Len(s)
    BY <1>3, <1>5
  <2> HIDE DEF s, i
  <2>4. Len(s) \in 0 .. BuffSize - 1 /\ \A t \in 1 .. Len(s) : s[t] \in Char
    BY <2>2, ShellAssumption
  <2>5. lineBuff' \in [0 .. BuffSize - 1 -> Char \cup {NUL}]
    BY <2>3, <2>4 DEF Copied, Inv, TypeOK
  <2>6. lineBuff'[Len(s)] = NUL /\ \A t \in 0 .. Len(s) - 1 : lineBuff'[t] # NUL
    BY <2>3, <2>4, ShellAssumption DEF Copied
  <2>7. line_curpos' = line_position'
    BY <2>3
  <2> QED BY <1>4, <2>3, <2>4, <2>5, <2>6, <2>7 DEF LineOK, Terminated
<1>6. CASE ~Found(r.entries, i)
  <2>1. UNCHANGED line
    BY <1>3, <1>6
  <2> QED BY <1>4, <2>1, InvParts DEF LineOK, Terminated, line
<1> QED BY <1>5, <1>6

-----------------------------------------------------------------------------
LEMMA LineSame == LineOK /\ UNCHANGED line => LineOK'
  BY DEF LineOK, Terminated, line

LEMMA HistSame == HistOK /\ UNCHANGED hist => HistOK'
  BY DEF HistOK, EntriesFit, hist

(* Text with a line end is good text for a block.                          *)
LEMMA EndedIs ==
  ASSUME Inv
  PROVE  Ended = Append(Text, LF) /\ Ended \in Seq(Char \cup {LF})
<1>1. Str(lineBuff) = Text /\ Text \in Seq(Char)
  BY StrIsText DEF Inv
<1>2. Text \in Seq(Char \cup {LF})
  BY <1>1
<1> QED BY <1>1, <1>2 DEF Ended

(* Backspace and insertion: the buffer after the memmove, and the text.    *)
LEMMA DeleteOK ==
  ASSUME Inv, line_curpos # 0,
         lineBuff' = Moved(line_curpos, -1),
         line_position' = line_position - 1, line_curpos' = line_curpos - 1
  PROVE  LineOK'
<1> USE ShellAssumption
<1>1. line_position \in 1 .. BuffSize - 1 /\ line_curpos \in 1 .. line_position
  BY DEF Inv, TypeOK
<1>2. lineBuff' \in [0 .. BuffSize - 1 -> Char \cup {NUL}]
  BY <1>1 DEF Moved, Inv, TypeOK
<1>3. lineBuff'[line_position - 1] = NUL
  BY <1>1 DEF Moved
<1>4. ASSUME NEW i \in 0 .. line_position - 2 PROVE lineBuff'[i] # NUL
  BY <1>1, <1>4 DEF Moved, Inv, Terminated
<1> QED BY <1>1, <1>2, <1>3, <1>4 DEF LineOK, Terminated

LEMMA InsertOK ==
  ASSUME Inv, NEW c \in Char, ~LineFull,
         lineBuff' = [Moved(line_curpos, 1) EXCEPT ![line_curpos] = c],
         line_position' = line_position + 1, line_curpos' = line_curpos + 1
  PROVE  LineOK'
<1> USE ShellAssumption
<1>1. line_position \in 0 .. BuffSize - 2 /\ line_curpos \in 0 .. line_position
  BY DEF Inv, TypeOK, LineFull
<1>2. lineBuff' \in [0 .. BuffSize - 1 -> Char \cup {NUL}]
  <2>1. Moved(line_curpos, 1) \in [0 .. BuffSize - 1 -> Char \cup {NUL}]
    BY <1>1 DEF Moved, Inv, TypeOK
  <2> QED BY <1>1, <2>1
<1>3. lineBuff'[line_position + 1] = NUL
  BY <1>1 DEF Moved
<1>4. ASSUME NEW i \in 0 .. line_position PROVE lineBuff'[i] # NUL
  BY <1>1, <1>4 DEF Moved, Inv, Terminated
<1> QED BY <1>1, <1>2, <1>3, <1>4 DEF LineOK, Terminated

-----------------------------------------------------------------------------
LEMMA StepInv == Inv /\ Next => Inv'
<1> SUFFICES ASSUME Inv, Next PROVE Inv'
  OBVIOUS
<1> USE ShellAssumption
<1>0. LineOK /\ HistOK /\ RestOK
  BY InvParts
<1>a. SUFFICES LineOK' /\ HistOK' /\ RestOK'
  BY DEF Inv, TypeOK, LineOK, HistOK, RestOK
<1>1. CASE _obj_runChar_beforeRun
  <2>1. LineOK'
    BY <1>1, ClearOK DEF _obj_runChar_beforeRun
  <2>2. HistOK'
    BY <1>0, <1>1, HistSame DEF _obj_runChar_beforeRun
  <2>3. RestOK'
    BY <1>0, <1>1 DEF _obj_runChar_beforeRun, RestOK
  <2> QED BY <2>1, <2>2, <2>3
<1>2. ASSUME NEW c \in Input PROVE IgnoreLF(c) => LineOK' /\ HistOK' /\ RestOK'
  BY <1>0, LineSame, HistSame DEF IgnoreLF, RestOK
<1>3. ASSUME NEW c \in Input PROVE EscapeKey(c) => LineOK' /\ HistOK' /\ RestOK'
  BY <1>0, LineSame, HistSame DEF EscapeKey, RestOK
<1>4. ASSUME NEW c \in Input PROVE BracketKey(c) => LineOK' /\ HistOK' /\ RestOK'
  BY <1>0, LineSame, HistSame DEF BracketKey, RestOK
<1>5. ASSUME NEW c \in Input, LeftKey(c) PROVE LineOK' /\ HistOK' /\ RestOK'
  <2>1. LineOK'
    BY <1>0, <1>5 DEF LeftKey, LineOK, Terminated
  <2> QED BY <2>1, <1>0, <1>5, HistSame DEF LeftKey, RestOK
<1>6. ASSUME NEW c \in Input, RightKey(c) PROVE LineOK' /\ HistOK' /\ RestOK'
  <2>1. LineOK'
    BY <1>0, <1>6 DEF RightKey, LineOK, Terminated
  <2> QED BY <2>1, <1>0, <1>6, HistSame DEF RightKey, RestOK
<1>7. ASSUME NEW c \in Input, UpDownKey(c) PROVE LineOK' /\ HistOK' /\ RestOK'
  <2>1. PICK offset \in {-1, 1} : handle_history_navigation(offset)
    BY <1>7 DEF UpDownKey
  <2>2. LineOK' /\ HistOK'
    BY <2>1, NavigationOK
  <2>3. RestOK'
    BY <1>0, <1>7 DEF UpDownKey, RestOK
  <2> QED BY <2>2, <2>3
<1>8. ASSUME NEW c \in Input, Backspace(c) PROVE LineOK' /\ HistOK' /\ RestOK'
  <2>1. LineOK'
    BY <1>0, <1>8, LineSame, DeleteOK DEF Backspace
  <2> QED BY <2>1, <1>0, <1>8, HistSame DEF Backspace, Plain, RestOK
<1>9. ASSUME NEW c \in Input, LineOverflow(c) PROVE LineOK' /\ HistOK' /\ RestOK'
  BY <1>0, <1>9, ClearOK, HistSame DEF LineOverflow, Plain, RestOK
<1>10. ASSUME NEW c \in Input, InsertChar(c) PROVE LineOK' /\ HistOK' /\ RestOK'
  <2>1. LineOK'
    BY <1>10, InsertOK DEF InsertChar
  <2> QED BY <2>1, <1>0, <1>10, HistSame DEF InsertChar, Plain, RestOK
<1>11. ASSUME NEW c \in Input, SkipNul(c) PROVE LineOK' /\ HistOK' /\ RestOK'
  BY <1>0, <1>11, LineSame, HistSame DEF SkipNul, Plain, RestOK
<1>12. ASSUME NEW c \in Input, EnterInBlock(c) PROVE LineOK' /\ HistOK' /\ RestOK'
  <2>1. block' \in Seq(Char \cup {LF})
    BY <1>0, <1>12, EndedIs DEF EnterInBlock, RestOK
  <2>2. LineOK' /\ HistOK'
    BY <1>12, ClearOK, EnterHistoryOK DEF EnterInBlock
  <2>3. stat' \in {"NORMAL", "SPEC", "FUNC"} /\ lastCR' \in BOOLEAN
    BY <1>12 DEF EnterInBlock, Plain
  <2>4. inBlock' \in BOOLEAN
    BY <1>12 DEF EnterInBlock, StaysInBlock
  <2> QED BY <2>1, <2>2, <2>3, <2>4 DEF RestOK
<1>13. ASSUME NEW c \in Input, EnterOpening(c) PROVE LineOK' /\ HistOK' /\ RestOK'
  <2>1. LineOK' /\ HistOK'
    BY <1>13, ClearOK, EnterHistoryOK DEF EnterOpening
  <2> QED BY <2>1, <1>0, <1>13, EndedIs DEF EnterOpening, Plain, RestOK
<1>14. ASSUME NEW c \in Input, EnterSingle(c) PROVE LineOK' /\ HistOK' /\ RestOK'
  <2>1. LineOK' /\ HistOK'
    BY <1>14, ClearOK, EnterHistoryOK DEF EnterSingle
  <2> QED BY <2>1, <1>0, <1>14 DEF EnterSingle, Plain, RestOK
<1> QED BY <1>1, <1>2, <1>3, <1>4, <1>5, <1>6, <1>7, <1>8, <1>9, <1>10, <1>11,
           <1>12, <1>13, <1>14 DEF Next

(* For every size of the buffer and of the history: line_position is the   *)
(* length of the string in the buffer (Terminated), and every entry of the *)
(* history fits into the buffer (EntriesFit).                              *)
THEOREM LineBufferSafe == Spec => [](TypeOK /\ Terminated /\ EntriesFit)
<1>1. Init => Inv
  BY ShellAssumption DEF Init, Blanked, Inv, TypeOK, Terminated, EntriesFit
<1>2. Inv /\ UNCHANGED vars => Inv'
  BY DEF Inv, TypeOK, Terminated, EntriesFit, vars, line, hist
<1>3. Inv /\ [Next]_vars => Inv'
  BY <1>2, StepInv
<1>4. Inv => TypeOK /\ Terminated /\ EntriesFit
  BY DEF Inv
<1> QED BY <1>1, <1>3, <1>4, PTL DEF Spec

-----------------------------------------------------------------------------
(* The steps as steps of LineEditor.                                       *)
LEMMA TextOfClear == __clearBuff => Text' = <<>>
  BY DEF __clearBuff, Text

LEMMA TextSame == UNCHANGED line => Text' = Text
  BY DEF line, Text

LEMMA DeleteRefines ==
  ASSUME Inv, line_curpos # 0,
         lineBuff' = Moved(line_curpos, -1),
         line_position' = line_position - 1, line_curpos' = line_curpos - 1
  PROVE  Text' = [i \in 1 .. Len(Text) - 1 |-> IF i < line_curpos THEN Text[i] ELSE Text[i + 1]]
<1> USE ShellAssumption
<1>1. line_position \in 1 .. BuffSize - 1 /\ line_curpos \in 1 .. line_position
  BY DEF Inv, TypeOK
<1>2. Len(Text) = line_position
  BY StrIsText DEF Inv
<1>3. \A i \in 1 .. line_position - 1 :
        lineBuff'[i - 1] = IF i < line_curpos THEN lineBuff[i - 1] ELSE lineBuff[i]
  BY <1>1 DEF Moved
<1>4. \A i \in 1 .. line_position : Text[i] = lineBuff[i - 1]
  BY DEF Text
<1>5. \A i \in 1 .. line_position - 1 :
        lineBuff'[i - 1] = IF i < line_curpos THEN Text[i] ELSE Text[i + 1]
  BY <1>1, <1>3, <1>4
<1>6. Text' = [i \in 1 .. line_position - 1 |-> lineBuff'[i - 1]]
  BY DEF Text
<1>7. Text' = [i \in 1 .. line_position - 1 |-> IF i < line_curpos THEN Text[i] ELSE Text[i + 1]]
  BY <1>5, <1>6, Zenon
<1> QED BY <1>2, <1>7

LEMMA InsertRefines ==
  ASSUME Inv, NEW c \in Char, ~LineFull,
         lineBuff' = [Moved(line_curpos, 1) EXCEPT ![line_curpos] = c],
         line_position' = line_position + 1, line_curpos' = line_curpos + 1
  PROVE  /\ Len(Text) + 1 < BuffSize
         /\ Text' = [i \in 1 .. Len(Text) + 1 |->
                       IF i <= line_curpos THEN Text[i]
                       ELSE IF i = line_curpos + 1 THEN c ELSE Text[i - 1]]
<1> USE ShellAssumption
<1>1. line_position \in 0 .. BuffSize - 2 /\ line_curpos \in 0 .. line_position
  BY DEF Inv, TypeOK, LineFull
<1>2. Len(Text) = line_position
  BY StrIsText DEF Inv
<1>3. \A i \in 1 .. line_position + 1 :
        lineBuff'[i - 1] = IF i <= line_curpos THEN lineBuff[i - 1]
                           ELSE IF i = line_curpos + 1 THEN c ELSE lineBuff[i - 2]
  <2> SUFFICES ASSUME NEW i \in 1 .. line_position + 1
               PROVE lineBuff'[i - 1] = IF i <= line_curpos THEN lineBuff[i - 1]
                           ELSE IF i = line_curpos + 1 THEN c ELSE lineBuff[i - 2]
    OBVIOUS
  <2>1. i - 1 \in 0 .. BuffSize - 1 /\ i - 1 - 1 = i - 2
    BY <1>1
  <2>2. CASE i = line_curpos + 1
    BY <1>1, <2>1, <2>2 DEF Moved
  <2>3. CASE i # line_curpos + 1
    BY <1>1, <2>1, <2>3 DEF Moved
  <2> QED BY <2>2, <2>3
<1>4. \A i \in 1 .. line_position : Text[i] = lineBuff[i - 1]
  BY DEF Text
<1>5. ASSUME NEW i \in 1 .. line_position + 1
      PROVE  lineBuff'[i - 1] = IF i <= line_curpos THEN Text[i]
                                ELSE IF i = line_curpos + 1 THEN c ELSE Text[i - 1]
  BY <1>1, <1>3, <1>4
<1>6. Text' = [i \in 1 .. line_position + 1 |-> lineBuff'[i - 1]]
  BY DEF Text
<1>7. Text' = [i \in 1 .. line_position + 1 |->
                 IF i <= line_curpos THEN Text[i]
                 ELSE IF i = line_curpos + 1 THEN c ELSE Text[i - 1]]
  BY <1>5, <1>6, Zenon
<1> QED BY <1>1, <1>2, <1>7

-----------------------------------------------------------------------------
LEMMA MoveRefines ==
  ASSUME Inv, NEW p \in {line_curpos - 1, line_curpos + 1}, p \in 0 .. line_position,
         line_curpos' = p, UNCHANGED <<lineBuff, line_position, inBlock, block>>, out' = <<>>
  PROVE  Editor!Next
<1>1. Text' = Text
  BY DEF Text
<1>2. Len(Text) = line_position
  BY StrIsText DEF Inv
<1>3. Editor!Move
  BY <1>1, <1>2 DEF Editor!Move
<1> QED BY <1>3 DEF Editor!Next

LEMMA IdleRefines ==
  ASSUME UNCHANGED <<line, inBlock, block>>, out' = <<>>
  PROVE  Editor!Next
<1>1. Editor!Idle
  BY TextSame DEF Editor!Idle, line
<1> QED BY <1>1 DEF Editor!Next

LEMMA NavigationRefines ==
  ASSUME Inv, NEW offset \in {-1, 1}, handle_history_navigation(offset),
         UNCHANGED <<inBlock, block>>, out' = <<>>
  PROVE  Editor!Next
<1>1. CASE UNCHANGED line
  BY <1>1, IdleRefines
<1>2. CASE line_curpos' = line_position'
  <2>1. LineOK'
    BY NavigationOK
  <2>2. \A i \in 1 .. line_position' : lineBuff'[i - 1] \in Char
    <3>1. /\ lineBuff' \in [0 .. BuffSize - 1 -> Char \cup {NUL}]
          /\ line_position' \in 0 .. BuffSize - 1
          /\ \A i \in 0 .. line_position' - 1 : lineBuff'[i] # NUL
      BY <2>1 DEF LineOK, Terminated
    <3> SUFFICES ASSUME NEW i \in 1 .. line_position' PROVE lineBuff'[i - 1] \in Char
      OBVIOUS
    <3>2. i - 1 \in 0 .. line_position' - 1 /\ i - 1 \in 0 .. BuffSize - 1
      <4>1. PICK p \in 0 .. BuffSize - 1 : p = line_position'
        BY <3>1
      <4>2. BuffSize \in Nat /\ i \in 1 .. p
        BY <4>1, ShellAssumption
      <4>3. i - 1 \in 0 .. p - 1 /\ i - 1 \in 0 .. BuffSize - 1
        BY <4>2
      <4> QED BY <4>1, <4>3
    <3>3. lineBuff'[i - 1] \in Char \cup {NUL} /\ lineBuff'[i - 1] # NUL
      BY <3>1, <3>2
    <3> QED BY <3>3
  <2>3. line_position' \in 0 .. BuffSize - 1
    BY <2>1 DEF LineOK
  <2>4. Text' = [i \in 1 .. line_position' |-> lineBuff'[i - 1]]
    BY DEF Text
  <2>5. Text' \in Seq(Char) /\ Len(Text') = line_position'
    BY <2>2, <2>3, <2>4
  <2>6. Editor!Recall
    BY <1>2, <2>3, <2>5, ShellAssumption DEF Editor!Recall
  <2> QED BY <2>6 DEF Editor!Next
<1> QED BY <1>1, <1>2, NavigationOK

(* The tests on the buffer are tests on the text.                          *)
LEMMA BufferTests ==
  ASSUME Inv
  PROVE  /\ Len(Text) = line_position /\ Text \in Seq(Char)
         /\ StaysInBlock <=> Text # <<>> /\ Text[1] \in Blank
         /\ OpensBlock <=> Text # <<>> /\ Text[Len(Text)] = Colon
         /\ Str([lineBuff EXCEPT ![line_position] = NUL]) = Text
<1> USE ShellAssumption
<1>1. /\ StrLen(lineBuff) = line_position /\ Str(lineBuff) = Text
      /\ Text \in Seq(Char) /\ Len(Text) = line_position
  BY StrIsText DEF Inv
<1>2. line_position \in 0 .. BuffSize - 1 /\ lineBuff[line_position] = NUL
      /\ lineBuff \in [0 .. BuffSize - 1 -> Char \cup {NUL}]
  BY DEF Inv, TypeOK, Terminated
<1>3. Text # <<>> <=> line_position > 0
  BY <1>1, <1>2
<1>4. \A i \in 1 .. line_position : Text[i] = lineBuff[i - 1]
  BY DEF Text
<1>5. StaysInBlock <=> Text # <<>> /\ Text[1] \in Blank
  <2>1. CASE line_position = 0
    BY <1>2, <1>3, <2>1 DEF StaysInBlock
  <2>2. CASE line_position > 0
    <3>1. Text[1] = lineBuff[0]
      BY <1>2, <1>4, <2>2
    <3> QED BY <1>3, <2>2, <3>1 DEF StaysInBlock
  <2> QED BY <1>2, <2>1, <2>2
<1>6. OpensBlock <=> Text # <<>> /\ Text[Len(Text)] = Colon
  <2>1. CASE line_position = 0
    BY <1>1, <1>3, <2>1 DEF OpensBlock
  <2>2. CASE line_position > 0
    <3>1. Text[line_position] = lineBuff[line_position - 1]
      BY <1>2, <1>4, <2>2
    <3> QED BY <1>1, <1>2, <1>3, <2>2, <3>1 DEF OpensBlock
  <2> QED BY <1>2, <2>1, <2>2
<1>7. [lineBuff EXCEPT ![line_position] = NUL] = lineBuff
  BY <1>2
<1> QED BY <1>1, <1>5, <1>6, <1>7

LEMMA StepRefines == Inv /\ Next => Editor!Next
<1> SUFFICES ASSUME Inv, Next PROVE Editor!Next
  OBVIOUS
<1>0. /\ line_position \in Nat /\ line_curpos \in 0 .. line_position
      /\ inBlock \in BOOLEAN
  BY ShellAssumption DEF Inv, TypeOK
<1>1. CASE _obj_runChar_beforeRun
  <2>1. Editor!Reset
    BY <1>1, TextOfClear DEF _obj_runChar_beforeRun, __clearBuff, Editor!Reset
  <2> QED BY <2>1 DEF Editor!Next
<1>2. ASSUME NEW c \in Input, IgnoreLF(c) \/ EscapeKey(c) \/ BracketKey(c) \/ SkipNul(c)
      PROVE Editor!Next
  BY <1>2, IdleRefines DEF IgnoreLF, EscapeKey, BracketKey, SkipNul
<1>3. ASSUME NEW c \in Input, LeftKey(c) PROVE Editor!Next
  <2>1. CASE line_curpos > 0
    BY <1>0, <1>3, <2>1, MoveRefines DEF LeftKey
  <2>2. CASE ~(line_curpos > 0)
    BY <1>3, <2>2, IdleRefines DEF LeftKey, line
  <2> QED BY <2>1, <2>2
<1>4. ASSUME NEW c \in Input, RightKey(c) PROVE Editor!Next
  <2>1. CASE line_curpos < line_position
    BY <1>0, <1>4, <2>1, MoveRefines DEF RightKey
  <2>2. CASE ~(line_curpos < line_position)
    BY <1>4, <2>2, IdleRefines DEF RightKey, line
  <2> QED BY <2>1, <2>2
<1>5. ASSUME NEW c \in Input, UpDownKey(c) PROVE Editor!Next
  BY <1>5, NavigationRefines DEF UpDownKey
<1>6. ASSUME NEW c \in Input, Backspace(c) PROVE Editor!Next
  <2>1. CASE line_curpos = 0
    BY <1>6, <2>1, IdleRefines DEF Backspace
  <2>2. CASE line_curpos # 0
    <3>1. /\ lineBuff' = Moved(line_curpos, -1)
          /\ line_position' = line_position - 1 /\ line_curpos' = line_curpos - 1
          /\ out' = <<>> /\ UNCHANGED <<inBlock, block>>
      BY <1>6, <2>2 DEF Backspace
    <3>2. Editor!Delete
      BY <1>0, <2>2, <3>1, DeleteRefines DEF Editor!Delete
    <3> QED BY <3>2 DEF Editor!Next
  <2> QED BY <2>1, <2>2
<1>7. ASSUME NEW c \in Input, LineOverflow(c) PROVE Editor!Next
  <2>1. Editor!Reset
    BY <1>7, TextOfClear DEF LineOverflow, __clearBuff, Editor!Reset
  <2> QED BY <2>1 DEF Editor!Next
<1>8. ASSUME NEW c \in Input, InsertChar(c) PROVE Editor!Next
  <2>1. Editor!Insert
    BY <1>8, InsertRefines DEF InsertChar, Editor!Insert
  <2> QED BY <2>1 DEF Editor!Next
<1>9. ASSUME NEW c \in Input, EnterInBlock(c) PROVE Editor!Next
  <2>1. /\ block' = block \o Append(Text, LF) /\ inBlock
        /\ Text' = <<>> /\ line_curpos' = 0
    BY <1>9, EndedIs, TextOfClear DEF EnterInBlock, __clearBuff
  <2>2. CASE StaysInBlock
    <3>1. inBlock' = TRUE /\ out' = <<>>
      BY <1>9, <2>2 DEF EnterInBlock
    <3>2. Editor!EnterInBlock
      BY <2>1, <2>2, <3>1, BufferTests, Zenon DEF Editor!EnterInBlock, Editor!Line
    <3> QED BY <3>2 DEF Editor!Next
  <2>3. CASE ~StaysInBlock
    <3>1. inBlock' = FALSE /\ out' = <<block'>>
      BY <1>9, <2>3 DEF EnterInBlock
    <3>2. Editor!EnterClosing
      BY <2>1, <2>3, <3>1, BufferTests, Zenon DEF Editor!EnterClosing, Editor!Line
    <3> QED BY <3>2 DEF Editor!Next
  <2> QED BY <2>2, <2>3
<1>10. ASSUME NEW c \in Input, EnterOpening(c) PROVE Editor!Next
  <2>1. /\ block' = Append(Text, LF) /\ Text' = <<>> /\ line_curpos' = 0
    BY <1>10, EndedIs, TextOfClear DEF EnterOpening, __clearBuff
  <2>2. Editor!EnterOpening
    BY <1>10, <2>1, BufferTests, Zenon DEF EnterOpening, Editor!EnterOpening, Editor!Line
  <2> QED BY <2>2 DEF Editor!Next
<1>11. ASSUME NEW c \in Input, EnterSingle(c) PROVE Editor!Next
  <2>1. Text' = <<>> /\ line_curpos' = 0
    BY <1>11, TextOfClear DEF EnterSingle, __clearBuff
  <2>2. Editor!EnterSingle
    BY <1>11, <2>1, BufferTests, Zenon DEF EnterSingle, Editor!EnterSingle
  <2> QED BY <2>2 DEF Editor!Next
<1> QED BY <1>1, <1>2, <1>3, <1>4, <1>5, <1>6, <1>7, <1>8, <1>9, <1>10, <1>11 DEF Next

(* For every size of the buffer: the moves in the buffer insert and delete *)
(* at the cursor, and the handler gets the edited line, or the collected   *)
(* block, and nothing else (IsEditor).                                     *)
THEOREM EditorIsLineEditor == Spec => IsEditor
<1>1. Init => Editor!Init
  BY DEF Init, Editor!Init, Text
<1>2. Inv /\ UNCHANGED vars => UNCHANGED Editor!vars
  BY TextSame DEF vars, line, Editor!vars
<1>3. Inv /\ [Next]_vars => [Editor!Next]_(Editor!vars)
  BY <1>2, StepRefines
<1>4. Spec => []Inv
  BY LineBufferSafe, PTL DEF Inv
<1> QED BY <1>1, <1>3, <1>4, PTL DEF Spec, IsEditor, Editor!Spec

-----------------------------------------------------------------------------
(* The line put aside is the last entry while the user is in the history;  *)
(* an offset leads to an entry; and only the last entry can be empty,      *)
(* since shHistory_add drops an empty one before it adds.                  *)
Aside == cached_current => history # <<>> /\ history[Len(history)] = saved
Offset == /\ ~cached_current => last_offset = 0
          /\ last_offset # 0 => current + last_offset \in 0 .. Len(history) - 1
OnlyLastEmpty(h) == \A i \in 1 .. Len(h) - 1 : h[i] # <<>>

HistInv == Inv /\ Aside /\ Offset /\ OnlyLastEmpty(history)

(* The last entry of t is the last of h that can be a line.                *)
Recent(h, t) == /\ Len(t) >= 1
                /\ t[Len(t)] = IF h[Len(h)] = <<>> THEN h[Len(h) - 1] ELSE h[Len(h)]

(* What is left of the history when a line is added: no empty entry, and   *)
(* the line that was entered last unless the history is too short for it.  *)
LEMMA TrimmedIs ==
  ASSUME NEW h \in Seq(Seq(Char)), OnlyLastEmpty(h), NEW t, t = Trimmed(h)
  PROVE  /\ t \in Seq(Seq(Char)) /\ Len(t) <= Len(h)
         /\ \A i \in 1 .. Len(t) : t[i] # <<>>
         /\ HistMax >= 3 /\ (\E i \in 1 .. Len(h) : h[i] # <<>>) => Recent(h, t)
<1>0. PICK len \in Nat : len = Len(h)
  OBVIOUS
<1>1. PICK d : d = DropOldest(h)
  OBVIOUS
<1>2. t = DropEmpty(d)
  BY <1>1 DEF Trimmed
<1>3. PICK e \in {0, 1} : /\ e = 1 => len = HistMax /\ len >= 1
                          /\ e = 0 => len # HistMax
                          /\ d \in Seq(Seq(Char)) /\ Len(d) = len - e
                          /\ \A i \in 1 .. len - e : d[i] = h[i + e]
  <2>1. CASE len = HistMax
    <3>0. d = Tail(h)
      BY <1>0, <1>1, <2>1 DEF DropOldest
    <3>0a. len >= 1
      BY <2>1, ShellAssumption
    <3>0b. h # <<>>
      BY <1>0, <3>0a
    <3>1. len >= 1 /\ h # <<>> /\ d = Tail(h)
      BY <3>0, <3>0a, <3>0b
    <3>2. d \in Seq(Seq(Char)) /\ Len(d) = len - 1 /\ \A i \in 1 .. len - 1 : d[i] = h[i + 1]
      BY <1>0, <3>1
    <3> QED BY <2>1, <3>1, <3>2
  <2>2. CASE len # HistMax
    <3>1. d = h
      BY <1>0, <1>1, <2>2 DEF DropOldest
    <3> QED BY <1>0, <2>2, <3>1 DEF Recent
  <2> QED BY <2>1, <2>2
<1>4. PICK m \in Nat : m = len - e
  BY <1>3
<1>5. Len(d) = m /\ d \in Seq(Seq(Char)) /\ (m > 0 => d[m] = h[len])
  BY <1>3, <1>4
<1>6. PICK f \in {0, 1} : /\ f = 1 => m >= 1 /\ d[m] = <<>>
                          /\ f = 0 => m = 0 \/ d[m] # <<>>
                          /\ t \in Seq(Seq(Char)) /\ Len(t) = m - f
                          /\ \A i \in 1 .. m - f : t[i] = d[i]
  <2>1. CASE d # <<>> /\ d[m] = <<>>
    <3>1. m >= 1 /\ t = [i \in 1 .. m - 1 |-> d[i]]
      BY <1>2, <1>5, <2>1 DEF DropEmpty
    <3>2. t \in Seq(Seq(Char)) /\ Len(t) = m - 1 /\ \A i \in 1 .. m - 1 : t[i] = d[i]
      BY <1>5, <3>1
    <3> QED BY <2>1, <3>1, <3>2
  <2>2. CASE ~(d # <<>> /\ d[m] = <<>>)
    <3>1. t = d /\ (m = 0 \/ d[m] # <<>>)
      BY <1>2, <1>5, <2>2 DEF DropEmpty
    <3> QED BY <1>5, <3>1
  <2> QED BY <2>1, <2>2
<1>7. \A i \in 1 .. m : i < m => d[i] # <<>>
  <2> SUFFICES ASSUME NEW i \in 1 .. m, i < m PROVE d[i] # <<>>
    OBVIOUS
  <2>1. i \in 1 .. len - e /\ i + e \in 1 .. Len(h) - 1
    BY <1>0, <1>3, <1>4
  <2> QED BY <1>3, <2>1 DEF OnlyLastEmpty
<1>8. \A i \in 1 .. Len(t) : t[i] # <<>>
  <2> SUFFICES ASSUME NEW i \in 1 .. m - f PROVE t[i] # <<>>
    BY <1>6
  <2>1. i \in 1 .. m /\ t[i] = d[i]
    BY <1>6
  <2> QED BY <1>6, <1>7, <2>1
<1>9. ASSUME HistMax >= 3, \E i \in 1 .. Len(h) : h[i] # <<>>
      PROVE  Recent(h, t)
  <2>1. PICK y \in 1 .. len : h[y] # <<>>
    BY <1>0, <1>9
  <2>2. HistMax \in Nat /\ len >= 1 /\ m >= 1 /\ d[m] = h[len]
    BY <1>0, <1>3, <1>4, <1>5, <1>9, <2>1, ShellAssumption
  <2>3. CASE f = 0
    <3>1. Len(t) = m /\ t[m] = d[m] /\ h[len] # <<>>
      BY <1>6, <2>2, <2>3
    <3> QED BY <1>0, <2>2, <3>1 DEF Recent
  <2>4. CASE f = 1
    <3>1. h[len] = <<>> /\ len >= 2
      BY <1>6, <2>1, <2>2, <2>4
    <3>2. m >= 2
      BY <1>3, <1>4, <1>9, <2>2, <3>1
    <3>3. PICK j1 \in Nat : j1 = m - 1
      BY <3>2
    <3>4. j1 \in 1 .. m - f /\ j1 \in 1 .. len - e /\ j1 + e = len - 1
      BY <1>4, <2>4, <3>2, <3>3
    <3>5. Len(t) = j1 /\ t[j1] = d[j1] /\ d[j1] = h[j1 + e]
      BY <1>3, <1>6, <2>4, <3>3, <3>4
    <3> QED BY <1>0, <3>1, <3>2, <3>3, <3>4, <3>5 DEF Recent
  <2> QED BY <2>3, <2>4
<1> QED BY <1>0, <1>3, <1>4, <1>6, <1>8, <1>9

(* What shHistory_add leaves at the end of the history.                    *)
LEMMA AddIs ==
  ASSUME history \in Seq(Seq(Char)), OnlyLastEmpty(history), NEW s \in Seq(Char),
         NEW r, r = shHistory_add(s)
  PROVE  /\ r.entries \in Seq(Seq(Char)) /\ r.entries # <<>> /\ r.entries[Len(r.entries)] = s
         /\ OnlyLastEmpty(r.entries) /\ r.last_offset \in {0, last_offset}
         /\ s = <<>> => r = [entries |-> Append(Trimmed(history), s),
                             current |-> Len(Trimmed(history)), last_offset |-> 0]
<1>1. PICK h : h = Trimmed(history)
  OBVIOUS
<1>2. h \in Seq(Seq(Char)) /\ \A i \in 1 .. Len(h) : h[i] # <<>>
  BY <1>1, TrimmedIs
<1>3. CASE Same(h, s)
  <2>1. r = [entries |-> h, current |-> current, last_offset |-> last_offset]
    BY <1>1, <1>3 DEF shHistory_add
  <2>2. h # <<>> /\ h[Len(h)] = s /\ Len(h) \in 1 .. Len(h)
    BY <1>2, <1>3 DEF Same
  <2>3. s # <<>>
    BY <1>2, <2>2
  <2>4. OnlyLastEmpty(h)
    BY <1>2 DEF OnlyLastEmpty
  <2> QED BY <1>2, <2>1, <2>2, <2>3, <2>4
<1>4. CASE ~Same(h, s)
  <2>1. PICK a : a = Append(h, s)
    OBVIOUS
  <2>2. r = [entries |-> a, current |-> Len(h), last_offset |-> 0]
    BY <1>1, <1>4, <2>1 DEF shHistory_add
  <2>3. /\ a \in Seq(Seq(Char)) /\ Len(a) = Len(h) + 1 /\ a[Len(h) + 1] = s
        /\ Len(h) \in Nat /\ \A i \in 1 .. Len(h) : a[i] = h[i]
    BY <1>2, <2>1
  <2>4. a # <<>> /\ a[Len(a)] = s /\ OnlyLastEmpty(a)
    BY <1>2, <2>3 DEF OnlyLastEmpty
  <2> QED BY <1>1, <2>1, <2>2, <2>3, <2>4
<1> QED BY <1>3, <1>4

(* Entering a line leaves the history; going through it keeps the line put *)
(* aside at its end.                                                       *)
LEMMA EnterAside ==
  ASSUME HistInv, EnterHistory
  PROVE  Aside' /\ Offset' /\ OnlyLastEmpty(history)'
<1>0. Str(lineBuff) \in Seq(Char) /\ history \in Seq(Seq(Char)) /\ OnlyLastEmpty(history)
  BY StrIsText DEF HistInv, Inv, TypeOK
<1>1. last_offset' = 0 /\ cached_current' = FALSE
  BY Zenon DEF EnterHistory
<1>2. Aside'
  BY <1>1 DEF Aside
<1>3. Offset'
  BY <1>1 DEF Offset
<1>4. OnlyLastEmpty(history')
  <2>1. CASE lineBuff[0] # NUL
    <3>1. PICK r : r = shHistory_add(Str(lineBuff))
      OBVIOUS
    <3>2. history' = r.entries
      BY <2>1, <3>1 DEF EnterHistory
    <3>3. OnlyLastEmpty(r.entries)
      BY <1>0, <3>1, AddIs
    <3> QED BY <3>2, <3>3
  <2>2. CASE lineBuff[0] = NUL
    BY <1>0, <2>2 DEF EnterHistory
  <2> QED BY <2>1, <2>2
<1> QED BY <1>2, <1>3, <1>4 DEF OnlyLastEmpty

LEMMA NavigationAside ==
  ASSUME HistInv, NEW offset \in {-1, 1}, handle_history_navigation(offset)
  PROVE  Aside' /\ Offset' /\ OnlyLastEmpty(history)'
<1>0. /\ Str(lineBuff) \in Seq(Char) /\ history \in Seq(Seq(Char)) /\ OnlyLastEmpty(history)
      /\ current \in Int /\ last_offset \in Int /\ Aside /\ Offset
  BY StrIsText DEF HistInv, Inv, TypeOK
<1>a. HistOK'
  BY NavigationOK DEF HistInv
<1>1. PICK a : a = shHistory_add(Str(lineBuff))
  OBVIOUS
<1>2. PICK r : r = IF cached_current
                   THEN [entries |-> history, current |-> current, last_offset |-> last_offset]
                   ELSE a
  OBVIOUS
<1>3. PICK i : i = r.current + r.last_offset + offset
  OBVIOUS
<1>4. /\ cached_current' = TRUE
      /\ saved' = IF cached_current THEN saved ELSE Str(lineBuff)
      /\ history' = r.entries /\ current' = r.current
      /\ \/ Found(r.entries, i) /\ last_offset' = r.last_offset + offset
         \/ ~Found(r.entries, i) /\ last_offset' = r.last_offset
  BY <1>1, <1>2, <1>3 DEF handle_history_navigation
<1>5. /\ r.entries \in Seq(Seq(Char)) /\ r.entries # <<>> /\ OnlyLastEmpty(r.entries)
      /\ r.entries[Len(r.entries)] = saved'
      /\ r.last_offset \in Int /\ r.current \in Int
      /\ r.last_offset # 0 => r.current + r.last_offset \in 0 .. Len(r.entries) - 1
  <2>1. CASE cached_current
    <3>1. r = [entries |-> history, current |-> current, last_offset |-> last_offset] /\ saved' = saved
      BY <1>2, <1>4, <2>1
    <3> QED BY <1>0, <2>1, <3>1 DEF Aside, Offset
  <2>2. CASE ~cached_current
    <3>1. r = a /\ saved' = Str(lineBuff) /\ last_offset = 0
      BY <1>0, <1>2, <1>4, <2>2 DEF Offset
    <3>2. /\ r.entries \in Seq(Seq(Char)) /\ r.entries # <<>>
          /\ r.entries[Len(r.entries)] = Str(lineBuff)
          /\ OnlyLastEmpty(r.entries) /\ r.last_offset \in {0, last_offset}
      BY <1>0, <1>1, <3>1, AddIs
    <3>3. r.current \in Int
      BY <1>4, <1>a DEF HistOK
    <3> QED BY <3>1, <3>2, <3>3
  <2> QED BY <2>1, <2>2
<1>6. Aside'
  <2>1. history' # <<>> /\ history'[Len(history')] = saved'
    BY <1>4, <1>5
  <2> QED BY <2>1 DEF Aside
<1>7. Offset'
  <2>1. last_offset' # 0 => current' + last_offset' \in 0 .. Len(history') - 1
    <3>1. CASE Found(r.entries, i) /\ last_offset' = r.last_offset + offset
      <4>1. Len(r.entries) \in Nat /\ i \in Int /\ i >= 0 /\ i < Len(r.entries)
        BY <1>3, <1>5, <3>1 DEF Found
      <4>2. current' + last_offset' = i
        BY <1>3, <1>4, <1>5, <3>1
      <4> QED BY <1>4, <4>1, <4>2
    <3>2. CASE ~Found(r.entries, i) /\ last_offset' = r.last_offset
      BY <1>4, <1>5, <3>2
    <3> QED BY <1>4, <3>1, <3>2
  <2>2. cached_current'
    BY <1>4
  <2> QED BY <2>1, <2>2 DEF Offset
<1> QED BY <1>4, <1>5, <1>6, <1>7 DEF OnlyLastEmpty

LEMMA StepAside == HistInv /\ [Next]_vars => HistInv'
<1> SUFFICES ASSUME HistInv, [Next]_vars PROVE HistInv'
  OBVIOUS
<1>1. Inv'
  <2>1. CASE UNCHANGED vars
    BY <2>1 DEF HistInv, Inv, TypeOK, Terminated, EntriesFit, vars, line, hist
  <2>2. CASE Next
    BY <2>2, StepInv DEF HistInv
  <2> QED BY <2>1, <2>2
<1>2. ASSUME UNCHANGED hist PROVE Aside' /\ Offset' /\ OnlyLastEmpty(history)'
  BY <1>2 DEF HistInv, Aside, Offset, OnlyLastEmpty, hist
<1>3. \/ UNCHANGED hist
      \/ EnterHistory
      \/ \E offset \in {-1, 1} : handle_history_navigation(offset)
  <2>1. CASE UNCHANGED vars
    BY <2>1 DEF vars
  <2>2. CASE _obj_runChar_beforeRun
    BY <2>2 DEF _obj_runChar_beforeRun
  <2>3. ASSUME NEW c \in Input, IgnoreLF(c) \/ EscapeKey(c) \/ BracketKey(c) PROVE UNCHANGED hist
    BY <2>3 DEF IgnoreLF, EscapeKey, BracketKey
  <2>4. ASSUME NEW c \in Input, LeftKey(c) \/ RightKey(c) PROVE UNCHANGED hist
    BY <2>4 DEF LeftKey, RightKey
  <2>5. ASSUME NEW c \in Input, UpDownKey(c)
        PROVE  \E offset \in {-1, 1} : handle_history_navigation(offset)
    <3>1. handle_history_navigation(IF c = KEY_UP THEN -1 ELSE 1)
      BY <2>5 DEF UpDownKey
    <3>2. CASE c = KEY_UP
      BY <3>1, <3>2
    <3>3. CASE c # KEY_UP
      BY <3>1, <3>3
    <3> QED BY <3>2, <3>3
  <2>6. ASSUME NEW c \in Input, Backspace(c) \/ LineOverflow(c) \/ InsertChar(c) \/ SkipNul(c)
        PROVE  UNCHANGED hist
    BY <2>6 DEF Backspace, LineOverflow, InsertChar, SkipNul
  <2>7. ASSUME NEW c \in Input, EnterInBlock(c) \/ EnterOpening(c) \/ EnterSingle(c)
        PROVE  EnterHistory
    BY <2>7 DEF EnterInBlock, EnterOpening, EnterSingle
  <2> QED BY <2>1, <2>2, <2>3, <2>4, <2>5, <2>6, <2>7 DEF Next
<1>4. Aside' /\ Offset' /\ OnlyLastEmpty(history)'
  BY <1>2, <1>3, EnterAside, NavigationAside
<1> QED BY <1>1, <1>4 DEF HistInv

LEMMA HistoryKept == Spec => []HistInv
<1>1. Init => HistInv
  <2> SUFFICES ASSUME Init PROVE HistInv
    OBVIOUS
  <2>1. Inv
    BY ShellAssumption DEF Init, Blanked, Inv, TypeOK, Terminated, EntriesFit
  <2>2. Aside /\ Offset /\ OnlyLastEmpty(history)
    BY DEF Init, Aside, Offset, OnlyLastEmpty
  <2> QED BY <2>1, <2>2 DEF HistInv
<1> QED BY <1>1, StepAside, PTL DEF Spec

(* The line that handle_history_navigation puts aside can be reached again *)
(* by going down, for every size of the history, although shHistory_add    *)
(* moves and removes entries and sometimes leaves current as it was.       *)
THEOREM SavedLineReachable == Spec => []SavedReachable
<1>1. HistInv => SavedReachable
  <2> SUFFICES ASSUME HistInv, cached_current, last_offset # 0
               PROVE  \E t \in current + last_offset .. Len(history) - 1 :
                        t >= 0 /\ history[t + 1] = saved
    BY DEF SavedReachable
  <2>1. /\ history[Len(history)] = saved /\ Len(history) \in Nat
        /\ current + last_offset \in 0 .. Len(history) - 1
    BY DEF HistInv, Aside, Offset, Inv, TypeOK
  <2>2. PICK len \in Nat : len = Len(history)
    BY <2>1
  <2>3. len - 1 \in current + last_offset .. len - 1 /\ len - 1 >= 0 /\ len - 1 + 1 = len
    BY <2>1, <2>2
  <2> QED BY <2>1, <2>2, <2>3
<1> QED BY <1>1, HistoryKept, PTL

(* With room for three entries (PIKA_SHELL_HISTORY_NUM is 5 by default):   *)
(* going up from an empty line recalls the line that was entered last,     *)
(* also when the history is full or ends with an empty entry.              *)
THEOREM UpRecallsLastLine == ASSUME HistMax >= 3 PROVE Spec => UpRecallsLast
<1>1. ASSUME HistInv, [Next]_vars, NEW c \in Input, c = KEY_UP, UpDownKey(c),
             ~cached_current, line_position = 0, \E i \in DOMAIN history : history[i] # <<>>
      PROVE  Str(lineBuff') = LastLine
  <2>0. /\ history \in Seq(Seq(Char)) /\ OnlyLastEmpty(history) /\ Inv
        /\ EntriesFit /\ Inv'
    BY <1>1, StepAside DEF HistInv, Inv, TypeOK
  <2>1. Str(lineBuff) = <<>>
    <3>1. Str(lineBuff) = Text /\ Text \in Seq(Char) /\ Len(Text) = 0
      BY <1>1, <2>0, StrIsText DEF Inv
    <3> QED BY <3>1
  <2>2. PICK h : h = Trimmed(history)
    OBVIOUS
  <2>3. \E i \in 1 .. Len(history) : history[i] # <<>>
    BY <1>1, <2>0
  <2>4. /\ h \in Seq(Seq(Char)) /\ Len(h) >= 1 /\ Len(h) \in Nat
        /\ h[Len(h)] = IF history[Len(history)] = <<>>
                       THEN history[Len(history) - 1] ELSE history[Len(history)]
    <3>1. h \in Seq(Seq(Char)) /\ Recent(history, h)
      BY <2>0, <2>2, <2>3, TrimmedIs
    <3> QED BY <3>1 DEF Recent
  <2>5. h[Len(h)] = LastLine
    <3>1. history # <<>>
      BY <2>0, <2>3
    <3> QED BY <2>4, <3>1 DEF LastLine
  <2>6. PICK e : e = Append(h, <<>>)
    OBVIOUS
  <2>7. PICK r : r = shHistory_add(Str(lineBuff))
    OBVIOUS
  <2>8. r = [entries |-> e, current |-> Len(h), last_offset |-> 0]
    <3>1. <<>> \in Seq(Char)
      OBVIOUS
    <3> QED BY <2>0, <2>1, <2>2, <2>6, <2>7, <3>1, AddIs
  <2>9. PICK len \in Nat : len = Len(h)
    BY <2>4
  <2>10. len >= 1 /\ Len(e) = len + 1 /\ e[len] = h[len] /\ e \in Seq(Seq(Char))
    BY <2>4, <2>6, <2>9
  <2>11. handle_history_navigation(-1)
    BY <1>1 DEF UpDownKey
  <2>12. Found(e, len + 0 + (-1)) /\ len + 0 + (-1) + 1 = len
    BY <2>10 DEF Found
  <2>13. lineBuff' = Copied(h[len]) /\ line_position' = Len(h[len])
    <3>1. /\ r.entries = e /\ r.current = len /\ r.last_offset = 0
      BY <2>8, <2>9
    <3>2. /\ \/ /\ Found(r.entries, r.current + r.last_offset + (-1))
                /\ lineBuff' = Copied(r.entries[r.current + r.last_offset + (-1) + 1])
                /\ line_position' = Len(r.entries[r.current + r.last_offset + (-1) + 1])
             \/ ~Found(r.entries, r.current + r.last_offset + (-1))
      BY <1>1, <2>7, <2>11 DEF handle_history_navigation
    <3> QED BY <2>10, <2>12, <3>1, <3>2
  <2>14. PICK s : s = h[len]
    OBVIOUS
  <2>15. s \in Seq(Char) /\ Len(s) \in Nat
    BY <2>4, <2>9, <2>10, <2>14
  <2>16. Str(lineBuff') = Text' /\ Len(Text') = Len(s) /\ Len(s) < BuffSize
    <3>1. Str(lineBuff') = Text' /\ Len(Text') = line_position'
      BY <2>0, StrIsTextNext
    <3>2. line_position' \in 0 .. BuffSize - 1
      BY <2>0 DEF Inv, TypeOK
    <3> QED BY <2>13, <2>14, <2>15, <3>1, <3>2, ShellAssumption
  <2>17. Text' = [i \in 1 .. Len(s) |-> s[i]]
    <3>1. Text' = [i \in 1 .. Len(s) |-> lineBuff'[i - 1]]
      BY <2>13, <2>14 DEF Text
    <3>2. \A i \in 1 .. Len(s) : lineBuff'[i - 1] = s[i]
      <4> TAKE i \in 1 .. Len(s)
      <4>1. i - 1 \in 0 .. BuffSize - 1 /\ i - 1 < Len(s) /\ i - 1 + 1 = i
        BY <2>15, <2>16, ShellAssumption
      <4> QED BY <2>13, <2>14, <4>1 DEF Copied
    <3> QED BY <3>1, <3>2
  <2>18. Text' = s
    BY <2>15, <2>17
  <2> QED BY <2>5, <2>9, <2>14, <2>16, <2>18
<1>2. HistInv /\ [Next]_vars =>
        [ ( /\ \E c \in Input : c = KEY_UP /\ UpDownKey(c)
            /\ ~cached_current /\ line_position = 0
            /\ \E i \in DOMAIN history : history[i] # <<>> )
          => Str(lineBuff') = LastLine ]_vars
  BY <1>1
<1> QED BY <1>2, HistoryKept, PTL DEF Spec, UpRecallsLast
=============================================================================
