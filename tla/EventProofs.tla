--------------------------- MODULE EventProofs ----------------------------
(***************************************************************************)
(* Proofs about events and the threads that handle them. For every         *)
(* PIKA_EVENT_LIST_SIZE, both builds and any number of events: arg events  *)
(* are handled in order and once, the ring of signals holds what was       *)
(* accepted, and no result of an arg event is overwritten. For every set   *)
(* of workers, native threads and event threads: who touches the VM owns   *)
(* the GIL, and without arg events at most one thread executes bytecode.   *)
(***************************************************************************)
EXTENDS EventQueue, PikaThreads, SequenceTheorems, TLAPS

(* Index k places after i in a ring, and the events between two indices,   *)
(* without the remainder of a division.                                    *)
Ahead(i, k) == IF i + k < N THEN i + k ELSE i + k - N
Held(head, tail) == IF head <= tail THEN tail - head ELSE tail - head + N

LEMMA ModSmall == ASSUME NEW x \in 0 .. N - 1 PROVE x % N = x
  BY QueueAssumption
LEMMA ModWrap == ASSUME NEW x \in N .. 2 * N - 1 PROVE x % N = x - N
  BY QueueAssumption

LEMMA AheadMod == ASSUME NEW i \in Slot, NEW k \in Slot
                  PROVE (i + k) % N = Ahead(i, k) /\ Ahead(i, k) \in Slot
<1>1. CASE i + k < N
  BY <1>1, QueueAssumption, ModSmall DEF Ahead, Slot
<1>2. CASE i + k >= N
  <2>1. i + k \in N .. 2 * N - 1
    BY <1>2, QueueAssumption DEF Slot
  <2> QED BY <1>2, <2>1, QueueAssumption, ModWrap DEF Ahead, Slot
<1> QED BY <1>1, <1>2, QueueAssumption DEF Slot

LEMMA SuccIs == ASSUME NEW i \in Slot
                PROVE Succ(i) = Ahead(i, 1) /\ Succ(i) \in Slot
<1>1. 1 \in Slot
  BY QueueAssumption DEF Slot
<1> QED BY <1>1, AheadMod DEF Succ

LEMMA HeldMod == ASSUME NEW h \in Slot, NEW t \in Slot
                 PROVE (t - h + N) % N = Held(h, t) /\ Held(h, t) \in Slot
<1>1. CASE t < h
  BY <1>1, QueueAssumption, ModSmall DEF Held, Slot
<1>2. CASE h <= t
  <2>1. t - h + N \in N .. 2 * N - 1
    BY <1>2, QueueAssumption DEF Slot
  <2> QED BY <1>2, <2>1, QueueAssumption, ModWrap DEF Held, Slot
<1> QED BY <1>1, <1>2, QueueAssumption DEF Slot

(* What pushing at the tail and popping at the head does to the count, and *)
(* which slots hold the events then.                                       *)
LEMMA PushHeld ==
  ASSUME NEW h \in Slot, NEW t \in Slot, ~isFull(h, t)
  PROVE  /\ Held(h, Succ(t)) = Held(h, t) + 1
         /\ Ahead(h, Held(h, t)) = t
         /\ \A k \in 1 .. Held(h, t) : Ahead(h, k - 1) \in Slot \ {t}
<1> Succ(t) = Ahead(t, 1)
  BY SuccIs
<1> QED BY QueueAssumption DEF Slot, isFull, Ahead, Held

LEMMA PopHeld ==
  ASSUME NEW h \in Slot, NEW t \in Slot, ~isEmpty(h, t)
  PROVE  /\ Held(h, t) >= 1
         /\ Held(Succ(h), t) = Held(h, t) - 1
         /\ Ahead(h, 0) = h
         /\ \A k \in 1 .. Held(h, t) - 1 : Ahead(Succ(h), k - 1) = Ahead(h, k)
         /\ \A k \in 1 .. Held(h, t) - 1 : Ahead(h, k) # h
<1> Succ(h) = Ahead(h, 1)
  BY SuccIs
<1> QED BY QueueAssumption DEF Slot, isEmpty, Ahead, Held

LEMMA PopNotFull ==
  ASSUME NEW h \in Slot, NEW t \in Slot, ~isEmpty(h, t)
  PROVE  ~isFull(Succ(h), t)
<1> Succ(h) = Ahead(h, 1) /\ Succ(t) = Ahead(t, 1)
  BY SuccIs
<1> QED BY QueueAssumption DEF Slot, isEmpty, isFull, Ahead

LEMMA NumbersAppend ==
  ASSUME NEW n \in Nat
  PROVE  Append(Numbers(n), n + 1) = Numbers(n + 1)
<1>1. Numbers(n) \in Seq(Nat) /\ Len(Numbers(n)) = n
  BY DEF Numbers
<1>2. Numbers(n + 1) \in Seq(Nat) /\ Len(Numbers(n + 1)) = n + 1
  BY DEF Numbers
<1>3. /\ Append(Numbers(n), n + 1) \in Seq(Nat)
      /\ Len(Append(Numbers(n), n + 1)) = n + 1
      /\ \A i \in 1 .. n : Append(Numbers(n), n + 1)[i] = Numbers(n)[i]
      /\ Append(Numbers(n), n + 1)[n + 1] = n + 1
  BY <1>1, AppendProperties
<1>4. \A i \in 1 .. n + 1 : Append(Numbers(n), n + 1)[i] = Numbers(n + 1)[i]
  BY <1>3 DEF Numbers
<1> QED BY <1>2, <1>3, <1>4, SeqEqual

LEMMA DropLast ==
  ASSUME NEW S, NEW s \in Seq(S), s # <<>>
  PROVE  SubSeq(s, 1, Len(s) - 1) \in Seq(S) /\ Len(SubSeq(s, 1, Len(s) - 1)) = Len(s) - 1
<1>1. Len(s) \in Nat /\ Len(s) >= 1 /\ \A i \in 1 .. Len(s) : s[i] \in S
  BY EmptySeq
<1>2. PICK n \in Nat : Len(s) - 1 = n
  BY <1>1
<1>3. \A i \in 1 .. n : s[i] \in S
  BY <1>1, <1>2
<1>4. /\ SubSeq(s, 1, n) \in Seq(S)
      /\ Len(SubSeq(s, 1, n)) = IF 1 <= n THEN n - 1 + 1 ELSE 0
  <2>1. 1 \in Int /\ n \in Int
    OBVIOUS
  <2> QED BY <1>3, <2>1, SubSeqProperties
<1>5. (IF 1 <= n THEN n - 1 + 1 ELSE 0) = n
  OBVIOUS
<1> QED BY <1>2, <1>4, <1>5, Zenon

LEMMA OneLeft ==
  ASSUME NEW S, NEW s \in Seq(S), s # <<>>, Len(s) <= 1
  PROVE  Len(s) = 1
<1>1. Len(s) \in Nat \ {0}
  BY EmptySeq
<1> QED BY <1>1

-----------------------------------------------------------------------------
Events == Nat \cup {None}
Handlers == [q : {"cq", "sq"}, ev : Events, head : Slot]
Phases == {"idle", "write", "advance", "store", "clear"}

RingTypes ==
  /\ cq_head \in Slot /\ cq_tail \in Slot /\ cq_ev \in [Slot -> Events]
  /\ sq_head \in Slot /\ sq_tail \in Slot /\ sq_ev \in [Slot -> Events]
  /\ running \in Seq(Handlers)
  /\ argSent \in Nat /\ sigSent \in Nat /\ sigRun \in Nat /\ deinits \in Nat
  /\ push \in [Sender -> Phases] /\ nextTail \in [Sender -> Slot]
  /\ emptying \in BOOLEAN

cqHeld == Held(cq_head, cq_tail)
sqHeld == Held(sq_head, sq_tail)

(* The slots between the heads and the tails of cq hold the events that    *)
(* were accepted last, and the others have had their handler call.         *)
ArgInv ==
  /\ cqHeld <= argSent
  /\ argRun = Numbers(argSent - cqHeld)
  /\ \A k \in 1 .. cqHeld : cq_ev[Ahead(cq_head, k - 1)] = argSent - cqHeld + k

(* The same of sq; besides, at most one push is under way, its room cannot *)
(* be taken away, what it wrote is behind the tail, and the tail it read   *)
(* is still the tail.                                                      *)
SigInv ==
  /\ sigSent = sigRun + sqHeld
  /\ \A k \in 1 .. sqHeld : sq_ev[Ahead(sq_head, k - 1)] = sigRun + k
  /\ \A p, q \in Sender : Pushing(p) /\ Pushing(q) => p = q
  /\ \A p \in Sender : Pushing(p) => ~isFull(sq_head, sq_tail)
  /\ \A p \in Sender : push[p] \in {"advance", "store"} => sq_ev[sq_tail] = sigSent + 1
  /\ \A p \in Sender : push[p] = "store" => nextTail[p] = Succ(sq_tail)

(* Without nesting, the slot of the running handler is the one before the  *)
(* head, which a push cannot reach; neither it nor a waiting slot has a    *)
(* result.                                                                 *)
ResInv ==
  /\ Len(running) <= 1
  /\ \A k \in 1 .. cqHeld : Ahead(cq_head, k - 1) \notin cq_res
  /\ (running # <<>> /\ running[1].q = "cq") =>
       Succ(running[1].head) = cq_head /\ running[1].head \notin cq_res

IInv == /\ RingTypes /\ ArgInv
        /\ ~overlap /\ ~emptying => SigInv
        /\ emptying => sq_head = 0
        /\ threaded /\ deinits = 0 => ResInv

(* Both queues start empty (Init; _VMEvent_deinit leaves them so).         *)
LEMMA InitIInv == Init => IInv
<1> SUFFICES ASSUME Init PROVE IInv
  OBVIOUS
<1> USE QueueAssumption DEF Init
<1>1. RingTypes
  <2>1. NoEvents \in [Slot -> Events]
    BY DEF NoEvents, Events
  <2>2. <<>> \in Seq(Handlers)
    OBVIOUS
  <2>3. [p \in Sender |-> "idle"] \in [Sender -> Phases]
    BY DEF Phases
  <2>4. 0 \in Slot /\ 0 \in Nat
    BY DEF Slot
  <2>5. [p \in Sender |-> 0] \in [Sender -> Slot]
    BY <2>4
  <2> QED BY <2>1, <2>2, <2>3, <2>4, <2>5 DEF RingTypes
<1>2. cqHeld = 0 /\ sqHeld = 0
  BY DEF cqHeld, sqHeld, Held
<1>3. <<>> = Numbers(0)
  BY DEF Numbers
<1>4. ArgInv
  BY <1>2, <1>3 DEF ArgInv
<1>5. SigInv
  BY <1>2 DEF SigInv, Pushing
<1>6. ResInv
  BY <1>2 DEF ResInv
<1> QED BY <1>1, <1>4, <1>5, <1>6 DEF IInv

-----------------------------------------------------------------------------
(* Every step keeps indices in the rings and slots typed.                  *)
LEMMA TypesStep == IInv /\ Next => RingTypes'
<1> SUFFICES ASSUME IInv, Next PROVE RingTypes'
  OBVIOUS
<1> USE QueueAssumption DEF IInv, RingTypes
<1>1. /\ Succ(cq_tail) \in Slot /\ Succ(cq_head) \in Slot
      /\ Succ(sq_tail) \in Slot /\ Succ(sq_head) \in Slot
  BY SuccIs
<1>2. argSent + 1 \in Events /\ sigSent + 1 \in Events
  BY DEF Events
<1>3. CASE PushEvent
  BY <1>1, <1>2, <1>3 DEF PushEvent, sq, send, end
<1>4. ASSUME NEW p \in Sender, NEW await \in BOOLEAN, SignalCheck(p, await) PROVE RingTypes'
  BY <1>4 DEF SignalCheck, cq, sq, hist, end, Phases
<1>5. ASSUME NEW p \in Sender, SignalWrite(p) PROVE RingTypes'
  BY <1>2, <1>5 DEF SignalWrite, cq, hist, end, Phases
<1>6. ASSUME NEW p \in Sender, SignalAdvance(p) PROVE RingTypes'
  BY <1>1, <1>6 DEF SignalAdvance, cq, sq, hist, end, Phases
<1>13. ASSUME NEW p \in Sender, SignalStore(p) PROVE RingTypes'
  <2>1. 0 \in Slot
    BY DEF Slot
  <2> QED BY <2>1, <1>13 DEF SignalStore, cq, end, Phases
<1>7. ASSUME NEW p \in Sender, SignalClear(p) PROVE RingTypes'
  BY <1>7 DEF SignalClear, cq, hist, end, Phases
<1>8. CASE AwaitReturn
  BY <1>8 DEF AwaitReturn, cq, sq, hist, end
<1>9. CASE PickupArg
  <2>1. [q |-> "cq", ev |-> cq_ev[cq_head], head |-> cq_head]
          \in Handlers
    BY DEF Handlers
  <2>2. running' \in Seq(Handlers)
    BY <1>9, <2>1, AppendProperties DEF PickupArg
  <2> QED BY <1>1, <1>9, <2>2 DEF PickupArg, sq, send, end
<1>10. CASE PickupSignal
  <2>1. [q |-> "sq", ev |-> sq_ev[SignalSlot], head |-> sq_head]
          \in Handlers
    BY DEF SignalSlot, Handlers
  <2>2. running' \in Seq(Handlers)
    BY <1>10, <2>1, AppendProperties DEF PickupSignal
  <2> QED BY <1>1, <1>10, <2>2 DEF PickupSignal, cq, send, end
<1>11. CASE HandlerDone
  <2>1. running' \in Seq(Handlers)
    BY <1>11, DropLast DEF HandlerDone
  <2> QED BY <1>11, <2>1 DEF HandlerDone, hist, send, end
<1>12. CASE Deinit
  <2>1. NoEvents \in [Slot -> Events] /\ 0 \in Slot
    BY DEF NoEvents, Events, Slot
  <2> QED BY <1>12, <2>1 DEF Deinit, send
<1>14. CASE DeinitTail
  <2>1. 0 \in Slot
    BY DEF Slot
  <2> QED BY <1>14, <2>1 DEF DeinitTail, cq
<1> QED
  BY <1>3, <1>4, <1>5, <1>6, <1>7, <1>8, <1>9, <1>10, <1>11, <1>12, <1>13, <1>14 DEF Next, Send

(* pushEvent and popEvent keep the arg events in order.                    *)
LEMMA ArgStep == IInv /\ Next => ArgInv'
<1> SUFFICES ASSUME IInv, Next PROVE ArgInv'
  OBVIOUS
<1> USE QueueAssumption DEF IInv, RingTypes, end
<1>1. CASE PushEvent
  <2>1. /\ cqHeld' = cqHeld + 1 /\ Ahead(cq_head, cqHeld) = cq_tail
        /\ \A k \in 1 .. cqHeld : Ahead(cq_head, k - 1) \in Slot \ {cq_tail}
        /\ cqHeld \in Nat
    BY <1>1, PushHeld, HeldMod DEF PushEvent, cqHeld, Slot
  <2>2. argSent' - cqHeld' = argSent - cqHeld /\ cqHeld' <= argSent'
    BY <1>1, <2>1 DEF PushEvent, ArgInv
  <2>3. ASSUME NEW k \in 1 .. cqHeld'
        PROVE cq_ev'[Ahead(cq_head', k - 1)] = argSent' - cqHeld' + k
    <3>1. CASE k = cqHeld + 1
      <4>1. k - 1 = cqHeld
        BY <2>1, <3>1
      <4>2. cq_ev'[cq_tail] = argSent + 1 /\ cq_head' = cq_head
        BY <1>1 DEF PushEvent
      <4> QED BY <2>1, <2>2, <3>1, <4>1, <4>2 DEF ArgInv
    <3>2. CASE k \in 1 .. cqHeld
      <4>1. cq_ev'[Ahead(cq_head', k - 1)] = cq_ev[Ahead(cq_head, k - 1)]
        BY <1>1, <2>1, <3>2 DEF PushEvent
      <4> QED BY <2>2, <3>2, <4>1 DEF ArgInv
    <3> QED BY <2>1, <3>1, <3>2
  <2> QED BY <1>1, <2>2, <2>3 DEF ArgInv, PushEvent
<1>2. CASE PickupArg
  <2>1. /\ cqHeld >= 1 /\ cqHeld' = cqHeld - 1 /\ Ahead(cq_head, 0) = cq_head
        /\ \A k \in 1 .. cqHeld - 1 : Ahead(cq_head', k - 1) = Ahead(cq_head, k)
        /\ cqHeld \in Nat
    BY <1>2, PopHeld, HeldMod DEF PickupArg, cqHeld, Slot
  <2>2. argSent' - cqHeld' = argSent - cqHeld + 1 /\ cqHeld' <= argSent' /\ argSent - cqHeld \in Nat
    BY <1>2, <2>1 DEF PickupArg, ArgInv
  <2>3. cq_ev[cq_head] = argSent - cqHeld + 1
    <3>1. 1 \in 1 .. cqHeld /\ 1 - 1 = 0
      BY <2>1
    <3>2. cq_ev[Ahead(cq_head, 1 - 1)] = argSent - cqHeld + 1
      BY <3>1, Zenon DEF ArgInv
    <3> QED BY <2>1, <3>1, <3>2
  <2>4. argRun' = Numbers(argSent' - cqHeld')
    BY <1>2, <2>2, <2>3, NumbersAppend DEF PickupArg, ArgInv
  <2>5. ASSUME NEW k \in 1 .. cqHeld'
        PROVE cq_ev'[Ahead(cq_head', k - 1)] = argSent' - cqHeld' + k
    <3>1. k \in 1 .. cqHeld - 1 /\ k + 1 \in 1 .. cqHeld /\ (k + 1) - 1 = k
      BY <2>1
    <3>2. cq_ev[Ahead(cq_head, (k + 1) - 1)] = argSent - cqHeld + (k + 1)
      BY <3>1 DEF ArgInv
    <3> QED BY <1>2, <2>1, <2>2, <3>1, <3>2 DEF PickupArg
  <2> QED BY <2>2, <2>4, <2>5 DEF ArgInv
<1>3. CASE Deinit
  <2>1. cqHeld' = 0
    BY <1>3 DEF Deinit, cqHeld, Held
  <2>2. <<>> = Numbers(0)
    BY DEF Numbers
  <2> QED BY <1>3, <2>1, <2>2 DEF Deinit, ArgInv
<1>4. CASE UNCHANGED <<cq_head, cq_tail, cq_ev, argSent, argRun>>
  BY <1>4 DEF ArgInv, cqHeld
<1> QED
  BY <1>1, <1>2, <1>3, <1>4 DEF Next, Send, SignalCheck, SignalWrite, SignalAdvance, SignalStore,
     SignalClear, AwaitReturn, PickupSignal, HandlerDone, DeinitTail, cq, hist

(* Once a deinit has reset the head of sq no pickup moves it until the     *)
(* tail is reset too.                                                      *)
LEMMA HeadStep == IInv /\ Next /\ emptying' => sq_head' = 0
<1> USE DEF IInv
<1>1. ASSUME IInv, Deinit PROVE sq_head' = 0
  BY <1>1 DEF Deinit
<1>2. ASSUME IInv, DeinitTail PROVE ~emptying'
  BY <1>2 DEF DeinitTail
<1>3. ASSUME IInv, PickupSignal PROVE ~emptying'
  BY <1>3 DEF PickupSignal, VMFree, end
<1> QED
  BY <1>1, <1>2, <1>3 DEF Next, Send, PushEvent, SignalCheck, SignalWrite, SignalAdvance, SignalStore,
     SignalClear, AwaitReturn, PickupArg, HandlerDone, sq, end

(* The steps of pushSignal, interleaved with pickups, keep the ring of     *)
(* signals, as long as no other push overlaps; the end of a deinit that no *)
(* push overlaps makes it empty.                                           *)
LEMMA SigStep == IInv /\ Next /\ ~overlap' /\ ~emptying' => SigInv'
<1> SUFFICES ASSUME IInv, Next, ~overlap', ~emptying' PROVE SigInv'
  OBVIOUS
<1> USE QueueAssumption DEF IInv, RingTypes, end
<1>1. ASSUME NEW p \in Sender, NEW await \in BOOLEAN, SignalCheck(p, await) PROVE SigInv'
  <2>1. CASE isFull(sq_head, sq_tail)
    BY <1>1, <2>1 DEF SignalCheck, SigInv, Pushing, sqHeld, isFull, sq, hist
  <2>2. CASE ~isFull(sq_head, sq_tail)
    <3>1. ~overlap /\ \A q \in Sender : ~Pushing(q)
      BY <1>1, <2>2 DEF SignalCheck
    <3>2. \A q \in Sender : push'[q] = IF q = p THEN "write" ELSE push[q]
      BY <1>1, <2>2 DEF SignalCheck
    <3>3. UNCHANGED <<sq_head, sq_tail, sq_ev, sigSent, sigRun>>
      BY <1>1 DEF SignalCheck, sq, hist
    <3>4. /\ \A q \in Sender : Pushing(q)' => q = p
          /\ \A q \in Sender : push'[q] \notin {"advance", "store"}
      BY <3>1, <3>2 DEF Pushing
    <3>5. SigInv
      BY <1>1, <3>1 DEF SignalCheck
    <3>6. /\ sigSent' = sigRun' + sqHeld'
          /\ \A k \in 1 .. sqHeld' : sq_ev'[Ahead(sq_head', k - 1)] = sigRun' + k
      BY <3>3, <3>5 DEF SigInv, sqHeld
    <3>7. ~isFull(sq_head', sq_tail')
      BY <2>2, <3>3
    <3> HIDE DEF IInv
    <3> QED BY <3>4, <3>6, <3>7 DEF SigInv, sqHeld, isFull, Pushing
  <2> QED BY <2>1, <2>2
<1>2. ASSUME NEW p \in Sender, SignalWrite(p) PROVE SigInv'
  <2>1. ~overlap /\ SigInv /\ Pushing(p) /\ ~isFull(sq_head, sq_tail)
    BY <1>2 DEF SignalWrite, SigInv, Pushing
  <2>2. \A q \in Sender : push'[q] = IF q = p THEN "advance" ELSE push[q]
    BY <1>2 DEF SignalWrite
  <2>3. \A q \in Sender : Pushing(q)' => q = p
    BY <2>1, <2>2 DEF Pushing, SigInv
  <2>4. UNCHANGED <<sq_head, sq_tail, sigSent, sigRun>>
    BY <1>2 DEF SignalWrite, hist
  <2>5. \A k \in 1 .. sqHeld : Ahead(sq_head, k - 1) \in Slot \ {sq_tail}
    BY <2>1, PushHeld DEF sqHeld
  <2>6. /\ \A k \in 1 .. sqHeld : sq_ev'[Ahead(sq_head, k - 1)] = sq_ev[Ahead(sq_head, k - 1)]
        /\ sq_ev'[sq_tail] = sigSent + 1
    BY <1>2, <2>5 DEF SignalWrite
  <2>7. \A q \in Sender : push'[q] # "store"
    BY <2>1, <2>2 DEF SigInv, Pushing
  <2> QED BY <2>1, <2>3, <2>4, <2>6, <2>7 DEF SigInv, sqHeld, isFull
<1>8. ASSUME NEW p \in Sender, SignalAdvance(p) PROVE SigInv'
  <2>1. ~overlap /\ SigInv /\ Pushing(p)
    BY <1>8 DEF SignalAdvance, Pushing
  <2>2. /\ \A q \in Sender : push'[q] = IF q = p THEN "store" ELSE push[q]
        /\ nextTail'[p] = Succ(sq_tail)
    BY <1>8 DEF SignalAdvance
  <2>3. UNCHANGED <<sq_head, sq_tail, sq_ev, sigSent, sigRun>>
    BY <1>8 DEF SignalAdvance, sq, hist
  <2>4. \A q \in Sender : push[q] \in {"advance", "store"} => q = p
    BY <2>1 DEF SigInv, Pushing
  <2>5. push[p] = "advance"
    BY <1>8 DEF SignalAdvance
  <2>6. \A q \in Sender : Pushing(q)' => Pushing(q)
    BY <2>2, <2>5 DEF Pushing
  <2> QED BY <2>1, <2>2, <2>3, <2>4, <2>5, <2>6 DEF SigInv, sqHeld, isFull, Succ
<1>3. ASSUME NEW p \in Sender, SignalStore(p) PROVE SigInv'
  <2>1. ~overlap /\ SigInv /\ Pushing(p) /\ ~isFull(sq_head, sq_tail)
        /\ sq_ev[sq_tail] = sigSent + 1 /\ sq_tail' = Succ(sq_tail)
    BY <1>3 DEF SignalStore, SigInv, Pushing
  <2>2. \A q \in Sender : q # p => push'[q] = push[q]
    BY <1>3 DEF SignalStore
  <2>3. push'[p] \in {"clear", "idle"}
    BY <1>3 DEF SignalStore
  <2>4. \A q \in Sender : ~Pushing(q)' /\ push'[q] \notin {"advance", "store"}
    BY <2>1, <2>2, <2>3 DEF Pushing, SigInv
  <2>5. /\ sqHeld' = sqHeld + 1 /\ Ahead(sq_head, sqHeld) = sq_tail /\ sqHeld \in Nat
    BY <1>3, <2>1, PushHeld, HeldMod DEF sqHeld, SignalStore, Slot
  <2>6. sigSent' = sigSent + 1 /\ UNCHANGED <<sq_head, sq_ev, sigRun>>
    BY <1>3 DEF SignalStore
  <2>7. ASSUME NEW k \in 1 .. sqHeld + 1 PROVE sq_ev[Ahead(sq_head, k - 1)] = sigRun + k
    <3>1. CASE k = sqHeld + 1
      <4>1. k - 1 = sqHeld
        BY <2>5, <3>1
      <4> QED BY <2>1, <2>5, <3>1, <4>1 DEF SigInv
    <3>2. CASE k \in 1 .. sqHeld
      BY <2>1, <3>2 DEF SigInv
    <3> QED BY <2>5, <3>1, <3>2
  <2> QED BY <2>1, <2>4, <2>5, <2>6, <2>7 DEF SigInv
<1>4. ASSUME NEW p \in Sender, SignalClear(p) PROVE SigInv'
  <2>1. \A q \in Sender : push'[q] = IF q = p THEN "idle" ELSE push[q]
    BY <1>4 DEF SignalClear
  <2>2. UNCHANGED <<sq_head, sq_tail, sq_ev, sigSent, sigRun, overlap>>
    BY <1>4 DEF SignalClear, hist
  <2>3. \A q \in Sender : (Pushing(q)' => Pushing(q)) /\ (push'[q] \in {"advance", "store"} => push'[q] = push[q])
    BY <2>1 DEF Pushing
  <2>4. UNCHANGED nextTail
    BY <1>4 DEF SignalClear
  <2> QED BY <2>2, <2>3, <2>4 DEF SigInv, sqHeld, isFull, Succ
<1>5. CASE PickupSignal
  <2>0. ~emptying /\ sigSent = sigRun + sqHeld
        /\ \A k \in 1 .. sqHeld : sq_ev[Ahead(sq_head, k - 1)] = sigRun + k
    BY <1>5 DEF PickupSignal, VMFree, send, end, SigInv
  <2>1. /\ sqHeld >= 1 /\ sqHeld' = sqHeld - 1 /\ sqHeld \in Nat
        /\ \A k \in 1 .. sqHeld - 1 : Ahead(sq_head', k - 1) = Ahead(sq_head, k)
    BY <1>5, PopHeld, HeldMod DEF PickupSignal, sqHeld, Slot
  <2>2. ~isFull(sq_head', sq_tail)
    BY <1>5, PopNotFull DEF PickupSignal
  <2>3. sigRun' = sigRun + 1 /\ UNCHANGED <<sq_tail, sq_ev, sigSent, push, nextTail, overlap>>
    BY <1>5 DEF PickupSignal, send
  <2>4. ASSUME NEW k \in 1 .. sqHeld - 1
        PROVE sq_ev[Ahead(sq_head', k - 1)] = sigRun + 1 + k
    <3>1. k + 1 \in 1 .. sqHeld /\ (k + 1) - 1 = k
      BY <2>1
    <3>2. sq_ev[Ahead(sq_head, (k + 1) - 1)] = sigRun + (k + 1)
      BY <2>0, <3>1
    <3> QED BY <2>1, <3>1, <3>2
  <2>5. sigSent' = sigRun' + sqHeld'
    BY <2>0, <2>1, <2>3
  <2>6. \A k \in 1 .. sqHeld' : sq_ev'[Ahead(sq_head', k - 1)] = sigRun' + k
    BY <2>1, <2>3, <2>4
  <2>7. SigInv
    BY <1>5, <2>0, <2>3
  <2>8. /\ \A p, q \in Sender : Pushing(p)' /\ Pushing(q)' => p = q
        /\ \A p \in Sender : Pushing(p)' => ~isFull(sq_head, sq_tail)'
    BY <2>2, <2>3, <2>7 DEF SigInv, Pushing, isFull
  <2>9. /\ \A p \in Sender : push'[p] \in {"advance", "store"} => sq_ev'[sq_tail'] = sigSent' + 1
        /\ \A p \in Sender : push'[p] = "store" => nextTail'[p] = Succ(sq_tail)'
    BY <2>3, <2>7 DEF SigInv, Succ
  <2> QED BY <2>5, <2>6, <2>8, <2>9 DEF SigInv
<1>6. CASE DeinitTail
  <2>1. sq_head' = 0 /\ sq_tail' = 0 /\ sigSent' = 0 /\ sigRun' = 0 /\ UNCHANGED push
    BY <1>6 DEF DeinitTail
  <2>2. sqHeld' = 0
    BY <2>1 DEF sqHeld, Held
  <2>3. \A q \in Sender : ~Pushing(q)'
    BY <1>6 DEF DeinitTail, Pushing
  <2> QED BY <2>1, <2>2, <2>3 DEF SigInv, Pushing
<1>7. CASE UNCHANGED <<sq_head, sq_tail, sq_ev, sigSent, sigRun, push, nextTail, overlap, emptying>>
  BY <1>7 DEF SigInv, sqHeld, Pushing, isFull, Succ
<1> QED
  BY <1>1, <1>2, <1>3, <1>4, <1>5, <1>6, <1>7, <1>8 DEF Next, Send,
     PushEvent, AwaitReturn, PickupArg, HandlerDone, Deinit, sq, hist, send

(* The slot before the head is not one of those that wait.                 *)
LEMMA BeforeHead ==
  ASSUME NEW r \in Slot, NEW h \in Slot, NEW t \in Slot, Succ(r) = h
  PROVE  \A k \in 1 .. Held(h, t) : Ahead(h, k - 1) # r
<1> Succ(r) = Ahead(r, 1)
  BY SuccIs
<1> QED BY QueueAssumption DEF Slot, Ahead, Held

(* A push of an arg event frees the slot it uses, a pickup leaves its slot *)
(* out of the reach of pushes until the handler has returned.              *)
LEMMA ResStep == IInv /\ Next /\ threaded' /\ deinits' = 0 => ResInv'
<1> SUFFICES ASSUME IInv, Next, threaded', deinits' = 0 PROVE ResInv'
  OBVIOUS
<1> USE QueueAssumption DEF IInv, RingTypes, end
<1>1. CASE PushEvent
  <2>1. /\ cqHeld' = cqHeld + 1 /\ Ahead(cq_head, cqHeld) = cq_tail /\ cqHeld \in Nat
    BY <1>1, PushHeld, HeldMod DEF PushEvent, cqHeld, Slot
  <2>2. ResInv /\ cq_res' = cq_res \ {cq_tail} /\ UNCHANGED <<cq_head, running>>
    BY <1>1 DEF PushEvent, FreshRes
  <2>3. ASSUME NEW k \in 1 .. cqHeld + 1 PROVE Ahead(cq_head, k - 1) \notin cq_res'
    <3>1. CASE k = cqHeld + 1
      <4>1. k - 1 = cqHeld
        BY <2>1, <3>1
      <4> QED BY <2>1, <2>2, <4>1
    <3>2. CASE k \in 1 .. cqHeld
      BY <2>2, <3>2 DEF ResInv
    <3> QED BY <2>1, <3>1, <3>2
  <2> QED BY <2>1, <2>2, <2>3 DEF ResInv
<1>2. CASE PickupArg
  <2>1. /\ cqHeld >= 1 /\ cqHeld' = cqHeld - 1 /\ Ahead(cq_head, 0) = cq_head
        /\ \A k \in 1 .. cqHeld - 1 : Ahead(cq_head', k - 1) = Ahead(cq_head, k)
        /\ cqHeld \in Nat
    BY <1>2, PopHeld, HeldMod DEF PickupArg, cqHeld, Slot
  <2>2. ResInv /\ running = <<>> /\ cq_head' = Succ(cq_head) /\ UNCHANGED cq_res
    BY <1>2 DEF PickupArg, CanPickup
  <2>3. cq_head \notin cq_res
    <3>1. 1 \in 1 .. cqHeld /\ 1 - 1 = 0
      BY <2>1
    <3>2. Ahead(cq_head, 1 - 1) \notin cq_res
      BY <2>2, <3>1, Zenon DEF ResInv
    <3> QED BY <2>1, <3>1, <3>2
  <2>4. ASSUME NEW k \in 1 .. cqHeld - 1 PROVE Ahead(cq_head', k - 1) \notin cq_res
    <3>1. k + 1 \in 1 .. cqHeld /\ (k + 1) - 1 = k
      BY <2>1
    <3>2. Ahead(cq_head, (k + 1) - 1) \notin cq_res
      BY <2>2, <3>1 DEF ResInv
    <3> QED BY <2>1, <3>1, <3>2
  <2>5. running' = <<[q |-> "cq", ev |-> cq_ev[cq_head], head |-> cq_head]>>
    BY <1>2, <2>2 DEF PickupArg
  <2>6. Len(running') = 1 /\ running'[1].q = "cq" /\ running'[1].head = cq_head
    BY <2>5
  <2> QED BY <2>1, <2>2, <2>3, <2>4, <2>6 DEF ResInv
<1>3. CASE PickupSignal
  <2>1. ResInv /\ running = <<>> /\ UNCHANGED <<cq_head, cq_tail, cq_res>>
    BY <1>3 DEF PickupSignal, CanPickup, cq
  <2>2. running' = <<[q |-> "sq", ev |-> sq_ev[SignalSlot], head |-> sq_head]>>
    BY <1>3, <2>1 DEF PickupSignal
  <2>3. Len(running') = 1 /\ running'[1].q = "sq"
    BY <2>2
  <2> QED BY <2>1, <2>3 DEF ResInv, cqHeld
<1>4. CASE HandlerDone
  <2>1. ResInv /\ running # <<>> /\ UNCHANGED <<cq_head, cq_tail>>
    BY <1>4 DEF HandlerDone
  <2>2. Len(running) = 1 /\ Top = running[1] /\ running[1] \in Handlers
    <3>1. running \in Seq(Handlers) /\ Len(running) <= 1
      BY <2>1 DEF ResInv
    <3>2. Len(running) = 1
      BY <2>1, <3>1, OneLeft
    <3>3. running[1] \in Handlers
      <4>1. 1 \in 1 .. Len(running)
        BY <3>2
      <4> HIDE DEF IInv, RingTypes, Handlers
      <4> QED BY <3>1, <4>1, ElementOfSeq
    <3> QED BY <3>2, <3>3 DEF Top
  <2>3. running' = <<>>
    <3>1. running' \in Seq(Handlers) /\ Len(running') = Len(running) - 1
      BY <1>4, <2>1, DropLast DEF HandlerDone
    <3>2. Len(running') = 0
      BY <2>2, <3>1
    <3> QED BY <3>1, <3>2, EmptySeq
  <2>4. \A k \in 1 .. cqHeld : Ahead(cq_head, k - 1) \notin cq_res'
    <3>1. CASE Top.q = "cq"
      <4>1. \A k \in 1 .. cqHeld : Ahead(cq_head, k - 1) # Top.head
        BY <2>1, <2>2, <3>1, BeforeHead DEF ResInv, cqHeld, Handlers
      <4>2. cq_res' \subseteq cq_res \cup {Top.head}
        BY <1>4 DEF HandlerDone
      <4> QED BY <2>1, <4>1, <4>2 DEF ResInv
    <3>2. CASE Top.q # "cq"
      <4>1. UNCHANGED cq_res
        BY <1>4, <3>2 DEF HandlerDone
      <4> QED BY <2>1, <4>1 DEF ResInv
    <3> QED BY <3>1, <3>2
  <2>5. Len(running') = 0
    BY <2>3
  <2> QED BY <2>1, <2>3, <2>4, <2>5 DEF ResInv, cqHeld
<1>5. CASE Deinit
  BY <1>5 DEF Deinit
<1>6. CASE UNCHANGED <<threaded, cq_head, cq_tail, cq_res, running, deinits>>
  BY <1>6 DEF ResInv, cqHeld
<1> QED
  BY <1>1, <1>2, <1>3, <1>4, <1>5, <1>6 DEF Next, Send, SignalCheck, SignalWrite,
     SignalAdvance, SignalStore, SignalClear, AwaitReturn, DeinitTail, cq, end

LEMMA IInvStep == IInv /\ [Next]_vars => IInv'
<1>1. IInv /\ Next => IInv'
  BY TypesStep, ArgStep, SigStep, HeadStep, ResStep DEF IInv
<1>2. IInv /\ UNCHANGED vars => IInv'
  BY DEF IInv, vars, cq, sq, hist, send, end, RingTypes, ArgInv, SigInv, ResInv, cqHeld, sqHeld,
     Pushing, isFull, Succ
<1> QED BY <1>1, <1>2

LEMMA IInvAlways == Spec => []IInv
  BY InitIInv, IInvStep, PTL DEF Spec

-----------------------------------------------------------------------------
(* The events of a ring, without the remainder.                            *)
LEMMA PendingIs ==
  ASSUME NEW h \in Slot, NEW t \in Slot, NEW ev
  PROVE  Pending(h, t, ev) = [k \in 1 .. Held(h, t) |-> ev[Ahead(h, k - 1)]]
<1>1. (t - h + N) % N = Held(h, t) /\ Held(h, t) \in 0 .. N - 1
  BY HeldMod DEF Slot
<1>2. ASSUME NEW k \in 1 .. Held(h, t) PROVE (h + k - 1) % N = Ahead(h, k - 1)
  <2>1. k - 1 \in Slot /\ h + k - 1 = h + (k - 1)
    BY <1>1, QueueAssumption DEF Slot
  <2> QED BY <2>1, AheadMod
<1> QED BY <1>1, <1>2 DEF Pending

LEMMA ArgInvOrder == RingTypes /\ ArgInv => ArgOrder
<1> SUFFICES ASSUME RingTypes, ArgInv PROVE ArgOrder
  OBVIOUS
<1>1. PICK c \in Nat : c = cqHeld
  BY HeldMod, QueueAssumption DEF RingTypes, cqHeld, Slot
<1>2. PICK m \in Nat : m = argSent - cqHeld
  BY <1>1 DEF RingTypes, ArgInv
<1> DEFINE P == [k \in 1 .. c |-> m + k]
<1>3. Pending(cq_head, cq_tail, cq_ev) = P
  <2>1. \A k \in 1 .. c : cq_ev[Ahead(cq_head, k - 1)] = m + k
    BY <1>1, <1>2 DEF ArgInv
  <2>2. Pending(cq_head, cq_tail, cq_ev) = [k \in 1 .. c |-> cq_ev[Ahead(cq_head, k - 1)]]
    BY <1>1, PendingIs DEF RingTypes, cqHeld
  <2> QED BY <2>1, <2>2
<1>4. P \in Seq(Nat) /\ Len(P) = c /\ \A k \in 1 .. c : P[k] = m + k
  OBVIOUS
<1>5. Numbers(m) \in Seq(Nat) /\ Len(Numbers(m)) = m /\ \A k \in 1 .. m : Numbers(m)[k] = k
  BY DEF Numbers
<1>6. /\ Numbers(m + c) \in Seq(Nat) /\ Len(Numbers(m + c)) = m + c
      /\ \A k \in 1 .. m + c : Numbers(m + c)[k] = k
  BY DEF Numbers
<1> HIDE DEF P
<1>7. /\ Numbers(m) \o P \in Seq(Nat) /\ Len(Numbers(m) \o P) = m + c
      /\ \A i \in 1 .. m + c : (Numbers(m) \o P)[i] = IF i <= m THEN Numbers(m)[i] ELSE P[i - m]
  <2>1. /\ Numbers(m) \o P \in Seq(Nat) /\ Len(Numbers(m) \o P) = Len(Numbers(m)) + Len(P)
        /\ \A i \in 1 .. Len(Numbers(m)) + Len(P) : (Numbers(m) \o P)[i] =
             IF i <= Len(Numbers(m)) THEN Numbers(m)[i] ELSE P[i - Len(Numbers(m))]
    BY <1>4, <1>5, ConcatProperties, Zenon
  <2>2. Len(Numbers(m)) = m /\ Len(P) = c
    BY <1>4, <1>5
  <2> QED BY <2>1, <2>2, Zenon
<1>8. ASSUME NEW i \in 1 .. m + c PROVE (Numbers(m) \o P)[i] = Numbers(m + c)[i]
  <2>1. CASE i <= m
    BY <1>5, <1>6, <1>7, <2>1
  <2>2. CASE i > m
    <3>1. i - m \in 1 .. c /\ m + (i - m) = i
      BY <2>2
    <3>2. P[i - m] = m + (i - m)
      BY <1>4, <3>1
    <3>3. (Numbers(m) \o P)[i] = P[i - m]
      <4>1. ~(i <= m)
        BY <2>2
      <4> QED BY <1>7, <4>1, Zenon
    <3>4. Numbers(m + c)[i] = i
      BY <1>6
    <3> QED BY <3>1, <3>2, <3>3, <3>4
  <2>3. i <= m \/ i > m
    BY <1>1, <1>2
  <2> QED BY <2>1, <2>2, <2>3, Zenon
<1>9. Numbers(m) \o P = Numbers(m + c)
  BY <1>6, <1>7, <1>8, SeqEqual
<1>10. m + c = argSent
  BY <1>1, <1>2 DEF RingTypes
<1> QED BY <1>2, <1>3, <1>9, <1>10 DEF ArgOrder, ArgInv

LEMMA SigInvStored == RingTypes /\ (~overlap /\ ~emptying => SigInv) => SignalsStored
<1> SUFFICES ASSUME RingTypes, SigInv
             PROVE  Pending(sq_head, sq_tail, sq_ev)
                      = SubSeq(Numbers(sigSent), sigRun + 1, sigSent)
  BY DEF SignalsStored
<1>1. PICK c \in Nat : c = sqHeld
  BY HeldMod, QueueAssumption DEF RingTypes, sqHeld, Slot
<1>2. sigSent = sigRun + c /\ sigRun \in Nat /\ sigSent \in Nat
  BY <1>1 DEF RingTypes, SigInv
<1> DEFINE P == [k \in 1 .. c |-> sigRun + k]
<1>3. Pending(sq_head, sq_tail, sq_ev) = P
  BY <1>1, PendingIs DEF RingTypes, SigInv, sqHeld
<1>4. P \in Seq(Nat) /\ Len(P) = c /\ \A k \in 1 .. c : P[k] = sigRun + k
  BY <1>2
<1> HIDE DEF P
<1>5. \A i \in sigRun + 1 .. sigSent : Numbers(sigSent)[i] = i /\ Numbers(sigSent)[i] \in Nat
  BY <1>2 DEF Numbers
<1>6. sigRun + 1 \in Int /\ sigSent \in Int /\ sigSent - (sigRun + 1) + 1 = c
  BY <1>2
<1> DEFINE R == SubSeq(Numbers(sigSent), sigRun + 1, sigSent)
<1>7. /\ R \in Seq(Nat)
      /\ Len(R) = IF sigRun + 1 <= sigSent THEN sigSent - (sigRun + 1) + 1 ELSE 0
      /\ \A i \in 1 .. sigSent - (sigRun + 1) + 1 : R[i] = Numbers(sigSent)[sigRun + 1 + i - 1]
  BY <1>5, <1>6, SubSeqProperties
<1> HIDE DEF R
<1>8. Len(R) = c
  BY <1>2, <1>6, <1>7
<1>9. ASSUME NEW i \in 1 .. c PROVE R[i] = P[i]
  <2>1. sigRun + 1 + i - 1 = sigRun + i /\ sigRun + i \in sigRun + 1 .. sigSent
    BY <1>2
  <2> QED BY <1>4, <1>5, <1>6, <1>7, <2>1
<1>10. R = P
  BY <1>4, <1>7, <1>8, <1>9, SeqEqual
<1> QED BY <1>3, <1>10 DEF R

(* For every size of the ring, arg events reach a handler in the order     *)
(* pushEvent accepted them, each exactly once.                             *)
THEOREM ArgEventsInOrder == Spec => []ArgOrder
  BY IInvAlways, ArgInvOrder, PTL DEF IInv

(* For every size of the ring, and whatever pickups, deinits and arg       *)
(* events come between the steps of pushSignal: as long as no push         *)
(* overlaps another one or the end of a deinit, sq holds in order what was *)
(* accepted and not yet handled.                                           *)
THEOREM SignalsInRing == Spec => []SignalsStored
  BY IInvAlways, SigInvStored, PTL DEF IInv

(* For every size of the ring no result of an arg event is written over    *)
(* another one before the slot was pushed to again.                        *)
THEOREM ResultsKept == Spec => CqResultNotLost
<1>1. IInv /\ [Next]_vars
        => [(HandlerDone /\ threaded /\ Top.q = "cq" /\ deinits = 0) => Top.head \notin cq_res]_vars
  <2> SUFFICES ASSUME IInv, HandlerDone, threaded, Top.q = "cq", deinits = 0
               PROVE Top.head \notin cq_res
    OBVIOUS
  <2>1. ResInv /\ running # <<>> /\ running \in Seq(Handlers)
    BY DEF IInv, HandlerDone, RingTypes
  <2>2. Len(running) = 1
    BY <2>1, OneLeft DEF ResInv
  <2> QED BY <2>1, <2>2 DEF ResInv, Top
<1> QED BY <1>1, IInvAlways, PTL DEF Spec, CqResultNotLost

-----------------------------------------------------------------------------
(* The GIL and the threads.                                              *)
Entering == {"enter", "bare", "lock", "flag"}
Making == {"check", "make", "made"}

(* How many levels of the mutex a thread owns at a label...                *)
Level(t, l) == CASE l = "push" -> IF t \in Native THEN 1 ELSE 2
                 [] l = "wait" -> IF t \in Native THEN 0 ELSE 1
                 [] l \in {"vm", "vm0", "poll", "first", "spawn", "deinit"} -> 1
                 [] OTHER -> 0

(* ... and inside GIL_ENTER, GIL_EXIT and _VM_lock_init, by the label they *)
(* return to.                                                              *)
Depth(t) == CASE pc[t] \in {"enter", "bare", "lock"} -> Level(t, back[t]) - 1
              [] pc[t] \in Making \cup {"flag"} -> Level(t, back[t])
              [] pc[t] = "exit" -> Level(t, back[t]) + 1
              [] OTHER -> Level(t, pc[t])

Types == /\ DOMAIN pc = Thread /\ DOMAIN back = Thread
         /\ lock_times \in Nat
         /\ owner \in Thread \cup {NoThread}
         /\ (owner = NoThread) <=> (lock_times = 0)

(* The mutex is counted as the labels say.                                 *)
Owns(t) == /\ (owner = t) <=> (Depth(t) >= 1)
           /\ owner = t => lock_times = Depth(t)

(* Where a thread other than the main one can be.                          *)
Waiting == {"unborn", "idle", "gone"}
Where(t) ==
  \/ /\ t \in Native
     /\ \/ pc[t] \in {"idle", "wait", "push", "gone"}
        \/ pc[t] \in Entering \ {"bare"} /\ back[t] = "push"
        \/ pc[t] = "exit" /\ back[t] = "idle"
        \/ pc[t] \in Making /\ back[t] = "wait"
  \/ /\ t \notin Native
     /\ \/ pc[t] \in {"unborn", "born", "start", "gone", "sleep", "vm", "vm0", "poll", "wait",
                      "push", "first", "spawn"}
        \/ pc[t] \in Entering \ {"bare"} /\ back[t] \in {"vm", "vm0", "poll", "push"}
        \/ pc[t] = "exit" /\ back[t] \in {"sleep", "gone", "start", "vm"}
        \/ pc[t] = "check" /\ back[t] \in {"wait", "first"}

Other(t) == /\ Where(t) /\ Owns(t)
            /\ owner = t /\ pc[t] # "flag" => is_first_lock
            /\ pc[t] \notin Waiting /\ (t \in Native => pc[t] \notin Making) => is_init

(* Of the main thread: it uses the mutex only when there is one.           *)
MainUses ==
  /\ (\/ pc[Main] \in {"lock", "flag", "first", "spawn", "wait", "push"}
      \/ pc[Main] \in Entering /\ back[Main] \in {"spawn", "push"}) => is_init
  /\ pc[Main] \in {"spawn", "push"} => is_first_lock
  /\ pc[Main] = "bare" => back[Main] \in {"vm", "deinit"}
  /\ pc[Main] \notin {"vm0", "poll", "born", "start", "gone"}
  /\ pc[Main] \in Entering => back[Main] \in {"vm", "spawn", "push", "deinit"}
  /\ pc[Main] = "exit" => back[Main] \in {"sleep", "vm", "join"}
  /\ pc[Main] \in Making => back[Main] \in {"wait", "first"}

(* Up to pika_GIL_deinit, or to a mutex in use that is made again.         *)
GInv == /\ Types
        /\ pc[Main] \notin {"dead", "undefined"} =>
             /\ \A t \in Thread \ {Main} : Other(t)
             /\ MainUses
             /\ is_first_lock => is_init

(* A program in which no native thread sends.                              *)
Sole == ~events \/ \A s \in Native : pc[s] = "gone"

(* In such a program only Main makes the mutex, before anybody else runs.  *)
NInv ==
  /\ pc[Main] = "undefined" => \A t \in Thread : pc[t] \in {"undefined", "gone"}
  /\ Sole /\ pc[Main] # "dead" =>
       /\ pc[Main] # "undefined"
       /\ \A s \in Native : pc[s] \in Waiting
       /\ ~is_first_lock => /\ \A t \in Thread \ {Main} : pc[t] \in Waiting
                            /\ owner = NoThread \/ pc[Main] = "flag"
       /\ is_first_lock => pc[Main] \notin {"make", "made"}

(* Main runs without a lock until it starts the first thread: then it has  *)
(* the mutex before that thread exists, and counts it like the others.     *)
MainAlone ==
  /\ \A t \in Thread \ {Main} : pc[t] \in Waiting
  /\ IF pc[Main] = "flag" THEN owner = Main /\ lock_times = 1 ELSE owner = NoThread
  /\ is_init => \/ pc[Main] = "first"
                \/ pc[Main] \in {"enter", "lock", "flag"} /\ back[Main] = "spawn"
  /\ ~is_init => pc[Main] \notin {"lock", "flag", "first", "spawn"}

XInv == ~events /\ pc[Main] # "dead" =>
  /\ event_thread = NoThread
  /\ \A t \in Native \cup EventThread : pc[t] \in Waiting
  /\ \A t \in Worker : /\ pc[t] \notin {"wait", "push"}
                       /\ pc[t] \in Entering => back[t] # "push"
                       /\ pc[t] = "check" => back[t] = "first"
  /\ \/ pc[Main] \in {"vm", "sleep", "first", "spawn", "deinit"}
     \/ pc[Main] \in Entering /\ back[Main] \in {"vm", "spawn"}
     \/ pc[Main] \in Making /\ back[Main] = "first"
     \/ pc[Main] = "exit" /\ back[Main] = "sleep"
  /\ is_first_lock => pc[Main] # "bare" /\ Owns(Main)
  /\ ~is_first_lock => MainAlone

(* Nobody has a lock at the start, and nobody but Main runs.               *)
LEMMA InitInv == TInit => GInv /\ NInv /\ XInv
<1> SUFFICES ASSUME TInit PROVE GInv /\ NInv /\ XInv
  OBVIOUS
<1> USE ThreadAssumption
<1> PICK p \in Programs :
       pc = [t \in Thread |-> CASE t = Main -> "vm"
                                   [] t \notin p.threads \cup {Main} -> "gone"
                                   [] t \in Native \cap p.threads -> "idle"
                                   [] OTHER -> "unborn"]
  BY DEF TInit
<1>1. pc[Main] = "vm" /\ \A t \in Thread \ {Main} :
        pc[t] \in {"gone", "unborn", "idle"} /\ (t \in Native => pc[t] # "unborn")
                                             /\ (t \notin Native => pc[t] # "idle")
  BY DEF Thread
<1>2. Types
  BY DEF TInit, Types
<1>3. ASSUME NEW t \in Thread \ {Main} PROVE Other(t)
  BY <1>1, <1>3 DEF TInit, Other, Where, Owns, Depth, Level, Waiting, Making
<1>4. GInv
  BY <1>1, <1>2, <1>3 DEF TInit, GInv, MainUses, Entering, Making
<1>5. NInv
  BY <1>1 DEF TInit, NInv, Waiting, Thread
<1>6. XInv
  BY <1>1 DEF TInit, XInv, MainAlone, Waiting, Thread, Making
<1> QED BY <1>4, <1>5, <1>6

-----------------------------------------------------------------------------
(* The steps of every thread keep the levels of the mutex.                 *)
LEMMA GStep == GInv /\ TNext => GInv'
<1> SUFFICES ASSUME GInv, TNext PROVE GInv'
  OBVIOUS
<1> USE ThreadAssumption
<1> USE DEF Thread, GInv, Types, Other, Where, Owns, Depth, Level, Waiting, MainUses, Entering,
            Making, Goto, Call, Return, gil, evt
<1>1. ASSUME NEW t \in Thread, EnterRead(t) PROVE GInv'
  BY <1>1 DEF EnterRead
<1>2. ASSUME NEW t \in Thread, EnterBare(t) PROVE GInv'
  BY <1>2 DEF EnterBare
<1>3. ASSUME NEW t \in Thread, EnterLock(t) PROVE GInv'
  BY <1>3 DEF EnterLock, CanLock, Times
<1>4. ASSUME NEW t \in Thread, EnterFlag(t) PROVE GInv'
  BY <1>4 DEF EnterFlag
<1>5. ASSUME NEW t \in Thread, Exit(t) PROVE GInv'
  BY <1>5 DEF Exit, OwnerAfterExit
<1>6. ASSUME NEW t \in Thread, Sleep(t) PROVE GInv'
  BY <1>6 DEF Sleep
<1>7. ASSUME NEW t \in Thread, Wake(t) PROVE GInv'
  BY <1>7 DEF Wake
<1>8. ASSUME NEW t \in Thread, StartThread(t) PROVE GInv'
  BY <1>8 DEF StartThread
<1>9. ASSUME NEW t \in Thread, Spawn(t) PROVE GInv'
  BY <1>9 DEF Spawn
<1>10. ASSUME NEW t \in Thread, SpawnNone(t) PROVE GInv'
  BY <1>10 DEF SpawnNone
<1>11. ASSUME NEW t \in Thread, RunVM(t) PROVE GInv'
  BY <1>11 DEF RunVM
<1>12. ASSUME NEW t \in Thread, WorkerEnd(t) PROVE GInv'
  BY <1>12 DEF WorkerEnd
<1>13. ASSUME NEW t \in Thread, SendStart(t) PROVE GInv'
  BY <1>13 DEF SendStart, Home
<1>14. ASSUME NEW t \in Thread, SendWait(t) PROVE GInv'
  BY <1>14 DEF SendWait
<1>15. ASSUME NEW t \in Thread, SendPush(t) PROVE GInv'
  <2>0. UNCHANGED <<is_init, is_first_lock, owner, lock_times>> /\ pc[t] = "push"
    BY <1>15 DEF SendPush
  <2>1. CASE event_thread = NoThread /\ \E e \in EventThread : pc[e] = "unborn"
    <3>1. PICK e \in EventThread : /\ pc[e] = "unborn"
                                  /\ pc' = [pc EXCEPT ![t] = "exit", ![e] = "born"]
                                  /\ back' = [back EXCEPT ![t] = Home(t)]
      BY <1>15, <2>1 DEF SendPush
    <3> QED BY <2>0, <3>1 DEF Home
  <2>2. CASE ~(event_thread = NoThread /\ \E e \in EventThread : pc[e] = "unborn")
    <3>1. pc' = [pc EXCEPT ![t] = "exit"] /\ back' = [back EXCEPT ![t] = Home(t)]
      BY <1>15, <2>2 DEF SendPush
    <3> QED BY <2>0, <3>1 DEF Home
  <2> QED BY <2>1, <2>2
<1>16. ASSUME NEW t \in Thread, EventHandled(t) PROVE GInv'
  BY <1>16 DEF EventHandled
<1>17. ASSUME NEW t \in EventThread, EventLoop(t) PROVE GInv'
  BY <1>17 DEF EventLoop
<1>18. ASSUME NEW t \in EventThread, EventExit(t) PROVE GInv'
  BY <1>18 DEF EventExit
<1>19. ASSUME NEW t \in EventThread, EventPoll(t) PROVE GInv'
  BY <1>19 DEF EventPoll
<1>20. CASE VMEvent_deinit
  BY <1>20 DEF VMEvent_deinit
<1>21. CASE DeinitDestroy
  BY <1>21 DEF DeinitDestroy, ExitCall
<1>22. CASE DeinitJoin
  BY <1>22 DEF DeinitJoin
<1>23. CASE GILDeinit
  BY <1>23 DEF GILDeinit
<1>24. ASSUME NEW t \in Thread, InitCheck(t) PROVE GInv'
  BY <1>24 DEF InitCheck
<1>25. ASSUME NEW t \in Thread, InitMutex(t) PROVE GInv'
  BY <1>25 DEF InitMutex, InUse
<1>26. ASSUME NEW t \in Thread, InitDone(t) PROVE GInv'
  BY <1>26 DEF InitDone
<1>27. ASSUME NEW t \in Thread, Remake(t) PROVE GInv'
  <2>1. pc'[Main] \in {"dead", "undefined"} /\ UNCHANGED <<lock_times, owner, back>>
    BY <1>27 DEF Remake
  <2>2. DOMAIN pc' = Thread
    BY <1>27 DEF Remake
  <2> QED BY <2>1, <2>2
<1>28. ASSUME NEW t \in Thread, FirstLock(t) PROVE GInv'
  BY <1>28 DEF FirstLock, TakeFirstLock
<1> HIDE DEF GInv, Thread
<1> QED
  BY <1>1, <1>2, <1>3, <1>4, <1>5, <1>6, <1>7, <1>8, <1>9, <1>10, <1>11, <1>12, <1>13, <1>14, <1>15, <1>16, <1>17, <1>18, <1>19, <1>20, <1>21, <1>22, <1>23,
     <1>24, <1>25, <1>26, <1>27, <1>28
     DEF TNext, Step

(* Without native senders nobody makes a mutex that is in use again.       *)
LEMMA NStep == GInv /\ NInv /\ TNext => NInv'
<1> SUFFICES ASSUME GInv, NInv, TNext PROVE NInv'
  OBVIOUS
<1> USE ThreadAssumption
<1> USE DEF Thread, GInv, NInv, Sole, Types, Other, Where, Owns, Depth, Level, Waiting, MainUses, Entering,
            Making, Goto, Call, Return, gil, evt
<1>1. ASSUME NEW t \in Thread, EnterRead(t) PROVE NInv'
  BY <1>1 DEF EnterRead
<1>2. ASSUME NEW t \in Thread, EnterBare(t) PROVE NInv'
  BY <1>2 DEF EnterBare
<1>3. ASSUME NEW t \in Thread, EnterLock(t) PROVE NInv'
  BY <1>3 DEF EnterLock, CanLock, Times
<1>4. ASSUME NEW t \in Thread, EnterFlag(t) PROVE NInv'
  BY <1>4 DEF EnterFlag
<1>5. ASSUME NEW t \in Thread, Exit(t) PROVE NInv'
  BY <1>5 DEF Exit, OwnerAfterExit
<1>6. ASSUME NEW t \in Thread, Sleep(t) PROVE NInv'
  BY <1>6 DEF Sleep
<1>7. ASSUME NEW t \in Thread, Wake(t) PROVE NInv'
  BY <1>7 DEF Wake
<1>8. ASSUME NEW t \in Thread, StartThread(t) PROVE NInv'
  BY <1>8 DEF StartThread
<1>9. ASSUME NEW t \in Thread, Spawn(t) PROVE NInv'
  BY <1>9 DEF Spawn
<1>10. ASSUME NEW t \in Thread, SpawnNone(t) PROVE NInv'
  BY <1>10 DEF SpawnNone
<1>11. ASSUME NEW t \in Thread, RunVM(t) PROVE NInv'
  BY <1>11 DEF RunVM
<1>12. ASSUME NEW t \in Thread, WorkerEnd(t) PROVE NInv'
  BY <1>12 DEF WorkerEnd
<1>13. ASSUME NEW t \in Thread, SendStart(t) PROVE NInv'
  BY <1>13 DEF SendStart, Home
<1>14. ASSUME NEW t \in Thread, SendWait(t) PROVE NInv'
  BY <1>14 DEF SendWait
<1>15. ASSUME NEW t \in Thread, SendPush(t) PROVE NInv'
  <2>0. pc[t] = "push" /\ UNCHANGED <<is_first_lock, owner, events>>
    BY <1>15 DEF SendPush
  <2>1. \A u \in Thread :
          \/ pc'[u] = pc[u]
          \/ u = t /\ pc'[u] = "exit"
          \/ u \in EventThread /\ pc[u] = "unborn" /\ pc'[u] = "born"
    <3>1. \/ \E e \in EventThread :
               pc[e] = "unborn" /\ pc' = [pc EXCEPT ![t] = "exit", ![e] = "born"]
          \/ pc' = [pc EXCEPT ![t] = "exit"]
      BY <1>15 DEF SendPush
    <3>2. DOMAIN pc = Thread
      OBVIOUS
    <3> HIDE DEF GInv, NInv, Thread
    <3> QED BY <3>1, <3>2
  <2>2. pc[Main] # "undefined"
    BY <2>0
  <2>3. CASE Sole' /\ pc'[Main] # "dead"
    <3>1. Sole /\ pc[Main] # "dead"
      BY <2>0, <2>1, <2>3
    <3>2. t \notin Native /\ is_first_lock
      BY <2>0, <2>2, <3>1
    <3> QED BY <2>0, <2>1, <2>2, <3>1, <3>2
  <2>4. CASE ~(Sole' /\ pc'[Main] # "dead")
    BY <2>0, <2>1, <2>2, <2>4
  <2> QED BY <2>3, <2>4
<1>16. ASSUME NEW t \in Thread, EventHandled(t) PROVE NInv'
  BY <1>16 DEF EventHandled
<1>17. ASSUME NEW t \in EventThread, EventLoop(t) PROVE NInv'
  BY <1>17 DEF EventLoop
<1>18. ASSUME NEW t \in EventThread, EventExit(t) PROVE NInv'
  BY <1>18 DEF EventExit
<1>19. ASSUME NEW t \in EventThread, EventPoll(t) PROVE NInv'
  BY <1>19 DEF EventPoll
<1>20. CASE VMEvent_deinit
  BY <1>20 DEF VMEvent_deinit
<1>21. CASE DeinitDestroy
  BY <1>21 DEF DeinitDestroy, ExitCall
<1>22. CASE DeinitJoin
  BY <1>22 DEF DeinitJoin
<1>23. CASE GILDeinit
  BY <1>23 DEF GILDeinit
<1>24. ASSUME NEW t \in Thread, InitCheck(t) PROVE NInv'
  BY <1>24 DEF InitCheck
<1>25. ASSUME NEW t \in Thread, InitMutex(t) PROVE NInv'
  BY <1>25 DEF InitMutex, InUse
<1>26. ASSUME NEW t \in Thread, InitDone(t) PROVE NInv'
  BY <1>26 DEF InitDone
<1>27. ASSUME NEW t \in Thread, Remake(t) PROVE NInv'
  <2>1. /\ pc[t] = "make" /\ (owner # NoThread \/ \E u \in Thread : pc[u] = "lock")
        /\ \A u \in Thread : pc'[u] = IF pc[u] \in {"dead", "gone"} THEN pc[u] ELSE "undefined"
        /\ UNCHANGED events
    BY <1>27 DEF Remake, InUse
  <2>2. CASE pc[Main] = "dead"
    BY <2>1, <2>2
  <2>3. CASE pc[Main] # "dead"
    <3>1. ~Sole
      <4>1. SUFFICES ASSUME Sole PROVE FALSE
        OBVIOUS
      <4>2. pc[Main] # "undefined" /\ \A s \in Native : pc[s] \in Waiting
        BY <2>3, <4>1
      <4>3. t = Main
        BY <2>1, <2>3, <4>2
      <4>4. ~is_first_lock
        BY <2>1, <2>3, <4>1, <4>3
      <4> QED BY <2>1, <2>3, <4>1, <4>3, <4>4
    <3>2. ~Sole'
      BY <2>1, <3>1
    <3>3. \A u \in Thread \ {Main} : pc[u] # "dead"
      BY <2>1, <2>3
    <3>4. \A u \in Thread : pc'[u] \in {"undefined", "gone"}
      BY <2>1, <2>3, <3>3
    <3> QED BY <3>2, <3>4
  <2> QED BY <2>2, <2>3
<1>28. ASSUME NEW t \in Thread, FirstLock(t) PROVE NInv'
  BY <1>28 DEF FirstLock, TakeFirstLock
<1> HIDE DEF GInv, NInv, Thread
<1> QED
  BY <1>1, <1>2, <1>3, <1>4, <1>5, <1>6, <1>7, <1>8, <1>9, <1>10, <1>11, <1>12, <1>13, <1>14, <1>15, <1>16, <1>17, <1>18, <1>19, <1>20, <1>21, <1>22, <1>23,
     <1>24, <1>25, <1>26, <1>27, <1>28
     DEF TNext, Step


(* Without arg events, so does the switch of Main from no lock to the      *)
(* mutex.                                                                  *)
LEMMA XStep == GInv /\ NInv /\ XInv /\ TNext /\ NInv' => XInv'
<1> SUFFICES ASSUME GInv, NInv, XInv, TNext, NInv', ~events', pc'[Main] # "dead" PROVE XInv'
  BY DEF XInv
<1> USE ThreadAssumption
<1>0. ~events /\ pc[Main] # "dead"
  <2> USE DEF EnterRead, EnterBare, EnterLock, EnterFlag, Exit, Sleep, Wake, StartThread,
     FirstLock, TakeFirstLock, InitCheck, InitMutex, InitDone, Remake, Spawn, SpawnNone, RunVM, WorkerEnd, SendStart, SendWait, SendPush, EventHandled,
     EventLoop, EventExit, EventPoll, VMEvent_deinit, DeinitDestroy, DeinitJoin, GILDeinit, evt
  <2>1. UNCHANGED events
    BY DEF TNext, Step
  <2> USE DEF Goto, Call, Return, ExitCall, Home, GInv, Types, Thread
  <2>2. ASSUME pc[Main] = "dead", NEW t \in Thread, Step(t) PROVE pc'[Main] = "dead"
    BY <2>2 DEF Step
  <2>3. ASSUME pc[Main] = "dead", NEW e \in EventThread, EventLoop(e) \/ EventExit(e) \/ EventPoll(e)
        PROVE pc'[Main] = "dead"
    BY <2>3
  <2>4. ASSUME pc[Main] = "dead", VMEvent_deinit \/ DeinitDestroy \/ DeinitJoin \/ GILDeinit
        PROVE FALSE
    BY <2>4
  <2> QED BY <2>1, <2>2, <2>3, <2>4 DEF TNext
<1> USE <1>0 DEF Thread, GInv, NInv, Sole, XInv, MainAlone, Types, Other, Where, Owns, Depth, Level, Waiting, MainUses, Entering,
            Making, Goto, Call, Return, gil, evt
<1>1. ASSUME NEW t \in Thread, EnterRead(t) PROVE XInv'
  BY <1>1 DEF EnterRead
<1>2. ASSUME NEW t \in Thread, EnterBare(t) PROVE XInv'
  BY <1>2 DEF EnterBare
<1>3. ASSUME NEW t \in Thread, EnterLock(t) PROVE XInv'
  BY <1>3 DEF EnterLock, CanLock, Times
<1>4. ASSUME NEW t \in Thread, EnterFlag(t) PROVE XInv'
  BY <1>4 DEF EnterFlag
<1>5. ASSUME NEW t \in Thread, Exit(t) PROVE XInv'
  BY <1>5 DEF Exit, OwnerAfterExit
<1>6. ASSUME NEW t \in Thread, Sleep(t) PROVE XInv'
  BY <1>6 DEF Sleep
<1>7. ASSUME NEW t \in Thread, Wake(t) PROVE XInv'
  BY <1>7 DEF Wake
<1>8. ASSUME NEW t \in Thread, StartThread(t) PROVE XInv'
  BY <1>8 DEF StartThread
<1>9. ASSUME NEW t \in Thread, Spawn(t) PROVE XInv'
  BY <1>9 DEF Spawn
<1>10. ASSUME NEW t \in Thread, SpawnNone(t) PROVE XInv'
  BY <1>10 DEF SpawnNone
<1>11. ASSUME NEW t \in Thread, RunVM(t) PROVE XInv'
  BY <1>11 DEF RunVM
<1>12. ASSUME NEW t \in Thread, WorkerEnd(t) PROVE XInv'
  BY <1>12 DEF WorkerEnd
<1>13. ASSUME NEW t \in Thread, SendStart(t) PROVE XInv'
  BY <1>13 DEF SendStart, Home
<1>14. ASSUME NEW t \in Thread, SendWait(t) PROVE XInv'
  BY <1>14 DEF SendWait
<1>15. ASSUME NEW t \in Thread, SendPush(t) PROVE XInv'
  BY <1>15 DEF SendPush, Home
<1>16. ASSUME NEW t \in Thread, EventHandled(t) PROVE XInv'
  BY <1>16 DEF EventHandled
<1>17. ASSUME NEW t \in EventThread, EventLoop(t) PROVE XInv'
  BY <1>17 DEF EventLoop
<1>18. ASSUME NEW t \in EventThread, EventExit(t) PROVE XInv'
  BY <1>18 DEF EventExit
<1>19. ASSUME NEW t \in EventThread, EventPoll(t) PROVE XInv'
  BY <1>19 DEF EventPoll
<1>20. CASE VMEvent_deinit
  BY <1>20 DEF VMEvent_deinit
<1>21. CASE DeinitDestroy
  BY <1>21 DEF DeinitDestroy, ExitCall
<1>22. CASE DeinitJoin
  BY <1>22 DEF DeinitJoin
<1>23. CASE GILDeinit
  BY <1>23 DEF GILDeinit
<1>24. ASSUME NEW t \in Thread, InitCheck(t) PROVE XInv'
  BY <1>24 DEF InitCheck
<1>25. ASSUME NEW t \in Thread, InitMutex(t) PROVE XInv'
  BY <1>25 DEF InitMutex, InUse
<1>26. ASSUME NEW t \in Thread, InitDone(t) PROVE XInv'
  BY <1>26 DEF InitDone
<1>27. ASSUME NEW t \in Thread, Remake(t) PROVE XInv'
  BY <1>27 DEF Remake
<1>28. ASSUME NEW t \in Thread, FirstLock(t) PROVE XInv'
  BY <1>28 DEF FirstLock, TakeFirstLock
<1> HIDE DEF XInv, GInv, Thread
<1> QED
  BY <1>1, <1>2, <1>3, <1>4, <1>5, <1>6, <1>7, <1>8, <1>9, <1>10, <1>11, <1>12, <1>13, <1>14, <1>15, <1>16, <1>17, <1>18, <1>19, <1>20, <1>21, <1>22, <1>23,
     <1>24, <1>25, <1>26, <1>27, <1>28
     DEF TNext, Step

LEMMA InvStep == GInv /\ NInv /\ XInv /\ [TNext]_tvars => GInv' /\ NInv' /\ XInv'
<1>1. GInv /\ NInv /\ XInv /\ TNext => GInv' /\ NInv' /\ XInv'
  BY GStep, NStep, XStep
<1>2. GInv /\ NInv /\ XInv /\ UNCHANGED tvars => GInv' /\ NInv' /\ XInv'
  BY DEF GInv, NInv, Sole, XInv, MainAlone, Types, Other, Where, Owns, Depth, Level, MainUses,
     tvars, gil, evt
<1> QED BY <1>1, <1>2

LEMMA InvAlways == TSpec => [](GInv /\ NInv /\ XInv)
  BY InitInv, InvStep, PTL DEF TSpec

(* For every number of threads, workers, event threads and senders own the *)
(* GIL where they touch the VM, until pika_GIL_deinit or until a sender    *)
(* makes a mutex in use again; and only in a program with native senders   *)
(* can that happen.                                                        *)
THEOREM GILIsHeld == TSpec => []GILHeld
<1>1. GInv /\ NInv => GILHeld
  <2>1. ASSUME GInv, NInv, pc[Main] \notin {"dead", "undefined"}, NEW t \in Thread \ {Main},
               pc[t] \in {"vm", "vm0", "poll", "push"}
        PROVE  owner = t
    BY <2>1 DEF GInv, Other, Owns, Depth, Level, Making
  <2>2. ASSUME NInv, pc[Main] = "undefined", NEW t \in Thread
        PROVE  pc[t] \notin {"vm", "vm0", "poll", "push"}
    BY <2>2 DEF NInv
  <2>3. ASSUME NInv, pc[Main] = "undefined" PROVE \E s \in Native : pc[s] # "gone"
    BY <2>3 DEF NInv, Sole
  <2> QED BY <2>1, <2>2, <2>3 DEF GInv, Types, GILHeld
<1> QED BY <1>1, InvAlways, PTL

(* For every number of threads, without arg events at most one executes    *)
(* bytecode, from the start of the script without a lock on.               *)
THEOREM OneVMAtATime == TSpec => []VMExclusive
<1>1. GInv /\ NInv /\ XInv => VMExclusive
  <2>0. ASSUME NInv, ~events, pc[Main] # "dead" PROVE pc[Main] # "undefined"
    BY <2>0 DEF NInv, Sole
  <2>1. SUFFICES ASSUME GInv, XInv, ~events, pc[Main] \notin {"dead", "undefined"},
                        NEW t \in Thread, NEW u \in Thread, pc[t] = "vm", pc[u] = "vm"
                 PROVE  t = u
    BY <2>0 DEF VMExclusive
  <2>2. CASE is_first_lock
    <3>1. \A v \in Thread : pc[v] = "vm" => owner = v
      BY <2>1, <2>2 DEF GInv, XInv, Other, Owns, Depth, Level, Making
    <3> QED BY <2>1, <3>1
  <2>3. CASE ~is_first_lock
    BY <2>1, <2>3 DEF XInv, MainAlone, Waiting
  <2> QED BY <2>2, <2>3
<1> QED BY <1>1, InvAlways, PTL
=============================================================================
