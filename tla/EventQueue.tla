---------------------------- MODULE EventQueue -----------------------------
(***************************************************************************)
(* The event queues of the VM (PikaVM.c): cq for events that carry an Arg, *)
(* sq for signals, two rings of PIKA_EVENT_LIST_SIZE slots, and the pickup *)
(* that runs their handlers.                                               *)
(*                                                                         *)
(* threaded: PIKA_EVENT_THREAD_ENABLE and the GIL in use. Every operation  *)
(* on cq, every pickup and _VMEvent_deinit run under the GIL (of a main    *)
(* thread that has taken it), and only the event thread picks up           *)
(* (_pikaVM_yield does not once the GIL exists), so pickups do not nest.   *)
(* Otherwise (bare metal) an interrupt pushes signals and the VM's yield   *)
(* picks up, also from inside a running handler.                           *)
(* pushSignal takes no lock: it is modelled in its single steps, which     *)
(* interleave with those of other threads, _VMEvent_deinit included, or    *)
(* are interrupted.                                                        *)
(*                                                                         *)
(* An event is a number, in sending order since its queue was emptied; a   *)
(* slot holds the event whose id, data and listener it stores.             *)
(***************************************************************************)
EXTENDS Integers, Sequences

CONSTANTS N,          \* PIKA_EVENT_LIST_SIZE
          PickupMax,  \* PIKA_EVENT_PICKUP_MAX
          Irq, Prog,  \* who sends signals: an interrupt or a thread; the program
          Builds,     \* the values of threaded: TRUE (GIL and event thread), FALSE
          MaxArg,     \* bound: arg events accepted before the first deinit
          MaxSignal,  \* bound: signals accepted before the first deinit
          LaterArg,   \* bound: the same after a deinit
          LaterSignal,
          MaxDeinit,  \* bound: calls of _VMEvent_deinit
          None

ASSUME QueueAssumption == /\ N \in Nat /\ N >= 2
                          /\ PickupMax \in Nat \ {0}
                          /\ Builds \subseteq BOOLEAN
                          /\ None \notin Nat /\ Irq # Prog

Slot   == 0 .. N - 1
Sender == {Irq, Prog}

VARIABLES
  threaded,   \* the build, fixed at start-up
  cq_head, cq_tail, cq_ev, cq_res,  \* res: the slots that hold a result
  sq_head, sq_tail, sq_ev, sq_res,
  running,    \* the handlers being run, innermost last
  argSent,    \* arg events accepted by pushEvent
  argRun,     \* arg events handed to a handler, in order
  sigSent,    \* signals accepted by pushSignal
  sigRun,     \* how many signals were handed to a handler
  push,       \* per sender, the next step of its pushSignal
  nextTail,   \* per sender, the tail it has read and will store, or 0
  overlap,    \* history: a pushSignal overlapped another one or the end of a deinit
  awaiting,   \* sendSignalAwaitResult of a thread: None or a slot of cq
  emptying,   \* _VMEvent_deinit has yet to reset the tail of sq
  deinits

cq   == <<cq_head, cq_tail, cq_ev, cq_res>>
sq   == <<sq_head, sq_tail, sq_ev, sq_res>>
hist == <<argSent, argRun, sigSent, sigRun>>
send == <<push, nextTail, overlap, awaiting>>
end  == <<emptying, deinits>>
vars == <<threaded, cq, sq, running, hist, send, end>>

NoEvents == [i \in Slot |-> None]

Init ==
  /\ threaded \in Builds
  /\ cq_head = 0 /\ cq_tail = 0 /\ cq_ev = NoEvents /\ cq_res = {}
  /\ sq_head = 0 /\ sq_tail = 0 /\ sq_ev = NoEvents /\ sq_res = {}
  /\ running = <<>>
  /\ argSent = 0 /\ argRun = <<>> /\ sigSent = 0 /\ sigRun = 0
  /\ push = [p \in Sender |-> "idle"] /\ nextTail = [p \in Sender |-> 0]
  /\ overlap = FALSE /\ awaiting = None
  /\ emptying = FALSE /\ deinits = 0

Succ(i) == (i + 1) % N

isFullNoWrap(head, tail) == tail + 1 = head
isFull(head, tail) == Succ(tail) = head
isEmpty(head, tail) == head = tail

Bound(first, later) == IF deinits = 0 THEN first ELSE later

-----------------------------------------------------------------------------
(* The stale result of the slot is freed before it is used again.          *)
FreshResKept == cq_res
FreshRes == cq_res \ {cq_tail}

(* Without threads an interrupt runs to its end, and so do a push of the   *)
(* program and a deinit, which may be interrupted, before the VM goes on.  *)
(* With threads a deinit keeps the GIL.                                    *)
CPUFree == threaded \/ \A p \in Sender : push[p] = "idle"
Free(p) == threaded \/ p = Irq \/ (push[Irq] = "idle" /\ ~emptying)
VMFree  == CPUFree /\ ~emptying

(* __eventListener_pushEvent, under the GIL. A full queue drops the event  *)
(* and changes nothing else; the send reports success all the same.        *)
PushEvent ==
  /\ threaded /\ VMFree
  /\ argSent < Bound(MaxArg, LaterArg)
  /\ ~ isFull(cq_head, cq_tail)
  /\ cq_ev' = [cq_ev EXCEPT ![cq_tail] = argSent + 1]
  /\ cq_res' = FreshRes
  /\ cq_tail' = Succ(cq_tail)
  /\ argSent' = argSent + 1
  /\ UNCHANGED <<threaded, cq_head, sq, running, argRun, sigSent, sigRun, send, end>>

-----------------------------------------------------------------------------
(* __eventListener_pushSignal, from an interrupt or a thread. A sender     *)
(* that wants the result (sendSignalAwaitResult) first notes the tail of   *)
(* cq; it waits also when the queue was full.                              *)
Pushing(p) == push[p] \in {"write", "advance", "store"}

SignalCheck(p, await) ==
  /\ Free(p) /\ push[p] = "idle" /\ (p = Prog => awaiting = None)
  /\ sigSent < Bound(MaxSignal, LaterSignal) /\ (await => p = Prog)
  /\ awaiting' = IF await THEN cq_tail ELSE awaiting
  /\ IF isFull(sq_head, sq_tail)
     THEN UNCHANGED <<push, overlap>>
     ELSE /\ push' = [push EXCEPT ![p] = "write"]
          /\ overlap' = (overlap \/ \E q \in Sender : Pushing(q))
  /\ UNCHANGED <<threaded, cq, sq, running, hist, nextTail, end>>

SignalWrite(p) ==
  /\ Free(p) /\ push[p] = "write"
  /\ sq_ev' = [sq_ev EXCEPT ![sq_tail] = sigSent + 1]
  /\ push' = [push EXCEPT ![p] = "advance"]
  /\ UNCHANGED <<threaded, cq, sq_head, sq_tail, sq_res, running, hist, nextTail, overlap,
                 awaiting, end>>

(* The tail is read, and stored later.                                     *)
SignalAdvance(p) ==
  /\ Free(p) /\ push[p] = "advance"
  /\ nextTail' = [nextTail EXCEPT ![p] = Succ(sq_tail)]
  /\ push' = [push EXCEPT ![p] = "store"]
  /\ UNCHANGED <<threaded, cq, sq, running, hist, overlap, awaiting, end>>

SignalStore(p) ==
  /\ Free(p) /\ push[p] = "store"
  /\ sq_tail' = nextTail[p]
  /\ sigSent' = sigSent + 1
  /\ push' = [push EXCEPT ![p] = IF threaded THEN "clear" ELSE "idle"]
  /\ nextTail' = [nextTail EXCEPT ![p] = 0]
  /\ UNCHANGED <<threaded, cq, sq_head, sq_ev, sq_res, running, argSent, argRun, sigRun,
                 overlap, awaiting, end>>

(* Under the GIL, the result slot of the next signal is cleared, not its   *)
(* own: the tail has already moved.                                        *)
SignalClear(p) ==
  /\ VMFree /\ push[p] = "clear"
  /\ sq_res' = sq_res \ {sq_tail}
  /\ push' = [push EXCEPT ![p] = "idle"]
  /\ UNCHANGED <<threaded, cq, sq_head, sq_tail, sq_ev, running, hist, nextTail, overlap,
                 awaiting, end>>

AwaitReturn ==
  /\ Free(Prog) /\ push[Prog] = "idle" /\ awaiting \in cq_res
  /\ awaiting' = None
  /\ UNCHANGED <<threaded, cq, sq, running, hist, push, nextTail, overlap, end>>

-----------------------------------------------------------------------------
(* event_pickup_cnt bounds the nesting of handlers.                        *)
CanPickupOnce == Len(argRun) + sigRun < PickupMax
CanPickup == IF threaded THEN running = <<>> ELSE Len(running) < PickupMax

(* __VMEvent_pickupEvent up to the call of the handler. Arg events go      *)
(* first.                                                                  *)
PickupArg ==
  /\ VMFree /\ CanPickup
  /\ ~ isEmpty(cq_head, cq_tail)
  /\ running' = Append(running, [q |-> "cq", ev |-> cq_ev[cq_head], head |-> cq_head])
  /\ argRun' = Append(argRun, cq_ev[cq_head])
  /\ cq_head' = Succ(cq_head)
  /\ UNCHANGED <<threaded, cq_tail, cq_ev, cq_res, sq, argSent, sigSent, sigRun, send, end>>

(* __eventListener_popEvent reads the slot of sq at the head of cq.        *)
SignalSlot == cq_head

PickupSignal ==
  /\ VMFree /\ CanPickup
  /\ isEmpty(cq_head, cq_tail)
  /\ ~ isEmpty(sq_head, sq_tail)
  /\ running' = Append(running, [q |-> "sq", ev |-> sq_ev[SignalSlot], head |-> sq_head])
  /\ sigRun' = sigRun + 1
  /\ sq_head' = Succ(sq_head)
  /\ UNCHANGED <<threaded, cq, sq_tail, sq_ev, sq_res, argSent, argRun, sigSent, send, end>>

Top == running[Len(running)]

(* The handler returned: its result is kept for the sender only when       *)
(* threads are in use, and freed otherwise.                                *)
HandlerDone ==
  /\ VMFree /\ running # <<>>
  /\ cq_res' = IF threaded /\ Top.q = "cq"
               THEN cq_res \cup {Top.head} ELSE cq_res
  /\ sq_res' = IF threaded /\ Top.q = "sq"
               THEN sq_res \cup {Top.head} ELSE sq_res
  /\ running' = SubSeq(running, 1, Len(running) - 1)
  /\ UNCHANGED <<threaded, cq_head, cq_tail, cq_ev, sq_head, sq_tail, sq_ev, hist, send, end>>

(* The part of _VMEvent_deinit that empties both queues; the tail of sq    *)
(* comes last. The event thread may be inside a handler that gave the GIL  *)
(* up, and senders of signals at any step of a push: one that stores its   *)
(* tail after the deinit did leaves a ring that counts emptied slots. All  *)
(* before the tail is one step: what a push writes meanwhile is discarded  *)
(* with the tail, unless the push overlaps the end of the deinit.          *)
Deinit ==
  /\ VMFree /\ deinits < MaxDeinit
  /\ cq_head' = 0 /\ cq_tail' = 0 /\ cq_ev' = NoEvents /\ cq_res' = {}
  /\ sq_head' = 0 /\ sq_ev' = NoEvents /\ sq_res' = {}
  /\ argSent' = 0 /\ argRun' = <<>>
  /\ emptying' = TRUE /\ deinits' = deinits + 1
  /\ UNCHANGED <<threaded, sq_tail, running, sigSent, sigRun, send>>

DeinitTail ==
  /\ CPUFree /\ emptying
  /\ sq_tail' = 0
  /\ sigSent' = 0 /\ sigRun' = 0
  /\ emptying' = FALSE
  /\ overlap' = \E p \in Sender : Pushing(p)
  /\ UNCHANGED <<threaded, cq, sq_head, sq_ev, sq_res, running, argSent, argRun, push, nextTail,
                 awaiting, deinits>>

Send(p) == \/ \E await \in BOOLEAN : SignalCheck(p, await)
           \/ SignalWrite(p) \/ SignalAdvance(p) \/ SignalStore(p) \/ SignalClear(p)

Next == \/ PushEvent \/ (\E p \in Sender : Send(p)) \/ AwaitReturn
        \/ PickupArg \/ PickupSignal \/ HandlerDone
        \/ Deinit \/ DeinitTail

(* A send that has begun is finished.                                      *)
Finish(p) == SignalWrite(p) \/ SignalAdvance(p) \/ SignalStore(p) \/ SignalClear(p)

(* The event thread (or the VM's yield) keeps picking up, handlers return, *)
(* and sends and deinits that have begun are finished.                     *)
Spec == Init /\ [][Next]_vars
        /\ WF_vars(PickupArg \/ PickupSignal \/ HandlerDone)
        /\ \A p \in Sender : WF_vars(Finish(p))
        /\ WF_vars(DeinitTail)

-----------------------------------------------------------------------------
(* The events a ring holds, oldest first.                                  *)
Pending(head, tail, ev) ==
  [k \in 1 .. (tail - head + N) % N |-> ev[(head + k - 1) % N]]

Numbers(n) == [k \in 1 .. n |-> k]

(* Arg events reach a handler in the order they were accepted, each        *)
(* exactly once, across wraps of the ring (pushEvent, popEvent).           *)
ArgOrder == argRun \o Pending(cq_head, cq_tail, cq_ev) = Numbers(argSent)

(* As long as no push overlaps another one or the end of a deinit, the     *)
(* ring of signals holds, in order, exactly those that were accepted and   *)
(* have had no handler call (pushSignal, popEvent), whatever pickups come  *)
(* between the steps of a push, and again after every deinit.              *)
SignalsStored ==
  ~overlap /\ ~emptying =>
    Pending(sq_head, sq_tail, sq_ev) = SubSeq(Numbers(sigSent), sigRun + 1, sigSent)

(* Storing the result of an arg event never overwrites, and so never       *)
(* leaks, an earlier result in the slot, as long as nothing was deinited   *)
(* under a running handler.                                                *)
CqResultNotLost ==
  [][(HandlerDone /\ threaded /\ Top.q = "cq" /\ deinits = 0)
       => Top.head \notin cq_res]_vars

(* Whatever waits in either queue is picked up in the end.                 *)
EventsPickedUp == []<>(isEmpty(cq_head, cq_tail) /\ isEmpty(sq_head, sq_tail))
=============================================================================
