------------------------------ MODULE ObjectGC ------------------------------
(***************************************************************************)
(* Object lifetime (PikaObj.c, dataArg.c, dataStack.c): reference counts,  *)
(* obj_GC and obj_deinit, the chain of live objects and the mark and sweep *)
(* collector that New_PikaObj triggers.                                    *)
(*                                                                         *)
(* An object's args are reduced to those that hold an object: refs[o][f].  *)
(* The Python program is a sequence of instructions that create an object, *)
(* load one onto the VM stack, store it, delete a name, call a function    *)
(* and return from it, with or without a value. Each frame has its locals  *)
(* object and its VM stack. obj_GC and obj_deinit call each other: rel is  *)
(* the object that obj_GC was called with, dying the calls of obj_deinit   *)
(* under way. Objects with a __del__ method are not modelled.              *)
(*                                                                         *)
(* The order of gcChain and that of an args list are not kept: both depend *)
(* on when what was created, and only decide what is released first. The   *)
(* model takes any order.                                                  *)
(***************************************************************************)
EXTENDS Integers, Sequences, SequencesExt, FiniteSets

CONSTANTS Obj, Main,      \* the objects, and the root object __pikaMain
          Local,          \* the objects used as locals of a call
          Name, Slots,    \* names of args, and bound: the args a program sets
          Builds,         \* values of PIKA_GC_MARK_SWEEP_ENABLE
          Threshold,      \* PIKA_GC_MARK_SWEEP_THRESHOLD
          FreeListSize,   \* dimof(freeList): 16
          RefMod,         \* refcnt is a uint8_t: 256
          MaxStack,       \* bound: objects on the stack of a frame
          None

ASSUME GCAssumption ==
  /\ IsFiniteSet(Obj) /\ IsFiniteSet(Name) /\ None \notin Obj
  /\ Main \in Obj /\ Local \subseteq Obj \ {Main}
  /\ Builds \subseteq BOOLEAN /\ Threshold \in Nat
  /\ FreeListSize \in Nat \ {0} /\ RefMod \in Nat \ {0, 1} /\ MaxStack \in Nat

VARIABLES
  MarkSweep,    \* PIKA_GC_MARK_SWEEP_ENABLE, fixed at build time
  chain,        \* the live objects: those on gcChain
  refcnt,
  root,         \* objects with OBJ_FLAG_GC_ROOT
  refs,
  frames,       \* the call stack: [locals, stack], innermost last
  objCntLastGC,
  rel,          \* the object a reference to which is being dropped, or None
  dying,        \* the objects inside obj_deinit, innermost last
  gc,           \* pikaGC_markSweep runs
  freeList,     \* what a pass of it has listed and not released yet
  task,         \* what the VM goes on with: "run" the next instruction, or
                \* "new", "push", "store", "args", "leave", "exit"
  hand, slot,   \* the object and the arg the instruction is about
  corrupt,      \* history: an object was released after or while it was freed
  returned      \* history: objects that RET flagged and nothing has unflagged

heap    == <<chain, refcnt, root, refs, corrupt, returned>>
release == <<rel, dying>>
sweep   == <<gc, freeList, objCntLastGC>>
vars == <<MarkSweep, heap, release, sweep, frames, task, hand, slot>>

NoRefs == [f \in Name |-> None]

Init ==
  /\ MarkSweep \in Builds
  /\ chain = {Main} /\ root = {Main}
  /\ refcnt = [o \in Obj |-> IF o = Main THEN 1 ELSE 0]
  /\ refs = [o \in Obj |-> NoRefs]
  /\ frames = <<[locals |-> Main, stack |-> <<>>]>>
  /\ rel = None /\ dying = <<>>
  /\ gc = FALSE /\ freeList = {} /\ objCntLastGC = 0
  /\ task = "run" /\ hand = None /\ slot = None
  /\ corrupt = FALSE /\ returned = {}

Dec(o) == (refcnt[o] - 1) % RefMod
Inc(o) == (refcnt[o] + 1) % RefMod

-----------------------------------------------------------------------------
(* obj_GC drops one reference to rel and frees it with the last one.       *)

(* obj_checkAlive: without mark and sweep there is no chain to look in.    *)
AliveAlways(o) == TRUE
checkAlive(o) == MarkSweep => o \in chain

GCSkip ==
  /\ rel # None /\ ~checkAlive(rel)
  /\ rel' = None
  /\ UNCHANGED <<MarkSweep, heap, dying, sweep, frames, task, hand, slot>>

GCDec ==
  /\ rel # None /\ checkAlive(rel)
  /\ rel' = None
  /\ refcnt' = [refcnt EXCEPT ![rel] = Dec(rel)]
  /\ dying' = IF Dec(rel) = 0 THEN Append(dying, rel) ELSE dying
  /\ corrupt' = (corrupt \/ rel \notin chain \/ (Dec(rel) = 0 /\ rel \in Range(dying)))
  /\ UNCHANGED <<MarkSweep, chain, root, refs, returned, sweep, frames, task, hand, slot>>

(* obj_deinit releases the args, then takes the object out of the chain.   *)
Freeing == rel = None /\ dying # <<>>
Dying == Last(dying)

DeinitArg(f) ==
  /\ Freeing /\ refs[Dying][f] # None
  /\ rel' = refs[Dying][f]
  /\ refs' = [refs EXCEPT ![Dying][f] = None]
  /\ UNCHANGED <<MarkSweep, chain, refcnt, root, corrupt, returned, dying, sweep, frames,
                 task, hand, slot>>

DeinitEnd ==
  /\ Freeing /\ refs[Dying] = NoRefs
  /\ chain' = chain \ {Dying} /\ root' = root \ {Dying} /\ returned' = returned \ {Dying}
  /\ refcnt' = [refcnt EXCEPT ![Dying] = 0]
  /\ dying' = Front(dying)
  /\ UNCHANGED <<MarkSweep, refs, corrupt, rel, sweep, frames, task, hand, slot>>

-----------------------------------------------------------------------------
(* pikaGC_markObj: what is reachable from the set s through args.          *)
Closed(m, r) == \A o \in m, f \in Name : r[o][f] \in m \cup {None}

MarkedFrom(s, r) ==
  LET closed == {m \in SUBSET Obj : s \subseteq m /\ Closed(m, r)}
  IN  {o \in Obj : \A m \in closed : o \in m}

(* _pikaGC_mark starts from every flagged object of the chain.             *)
Unmarked == chain \ MarkedFrom(root \cap chain, refs)

Sweeping == rel = None /\ dying = <<>> /\ gc

(* pikaGC_markSweepOnce lists at most FreeListSize unmarked objects, and   *)
(* each of them loses one reference.                                       *)
MarkSweepOnce(s) ==
  /\ Sweeping /\ freeList = {} /\ Unmarked # {}
  /\ s # {} /\ Cardinality(s) <= FreeListSize
  /\ s = Unmarked \/ Cardinality(s) = FreeListSize
  /\ freeList' = s
  /\ UNCHANGED <<MarkSweep, heap, release, gc, objCntLastGC, frames, task, hand, slot>>

SweepNext ==
  /\ Sweeping
  /\ \E o \in freeList : rel' = o /\ freeList' = freeList \ {o}
  /\ UNCHANGED <<MarkSweep, heap, dying, gc, objCntLastGC, frames, task, hand, slot>>

(* pikaGC_markSweep: until a pass finds nothing.                           *)
OnePass == Sweeping /\ freeList = {}
NothingFound == Sweeping /\ freeList = {} /\ Unmarked = {}

MarkSweepEnd ==
  /\ NothingFound
  /\ gc' = FALSE
  /\ objCntLastGC' = Cardinality(chain)
  /\ UNCHANGED <<MarkSweep, heap, release, freeList, frames, task, hand, slot>>

Collect ==
  \/ GCSkip \/ GCDec \/ DeinitEnd \/ (\E f \in Name : DeinitArg(f))
  \/ (\E s \in SUBSET Unmarked : MarkSweepOnce(s)) \/ SweepNext \/ MarkSweepEnd

-----------------------------------------------------------------------------
Top == frames[Len(frames)]

(* "add ref_cnt to keep object in stack": an object on the VM stack of a   *)
(* frame is alive.                                                         *)
StackAlive == \A i \in DOMAIN frames : Range(frames[i].stack) \subseteq chain

(* No call of obj_GC, obj_deinit or pikaGC_markSweep is under way. Once an *)
(* object on a stack is freed its memory is reused: undefined, and the     *)
(* model stops.                                                            *)
Quiet == rel = None /\ dying = <<>> /\ ~gc
Doing(t) == Quiet /\ task = t /\ StackAlive
Running == Doing("run") /\ frames # <<>>

SetStack(s) == [frames EXCEPT ![Len(frames)].stack = s]

(* The objects a path of names reaches from the current frame.             *)
Named == MarkedFrom({Top.locals, Main}, refs)

(* pikaGC_checkThreshold, at the end of New_PikaObj.                       *)
OverThreshold == MarkSweep /\ Cardinality(chain) + 1 > objCntLastGC + Threshold

(* New_PikaObj: flagged as a root and put at the head of the chain.        *)
New(o) ==
  /\ chain' = chain \cup {o} /\ root' = root \cup {o}
  /\ refcnt' = [refcnt EXCEPT ![o] = 0]
  /\ gc' = OverThreshold
  /\ UNCHANGED <<MarkSweep, refs, corrupt, returned, release, freeList, objCntLastGC, slot>>

(* A constructor call makes a new object ...                               *)
NewObj(o) ==
  /\ Running
  /\ o \in Obj \ (Local \cup {Main} \cup chain)
  /\ Len(Top.stack) < MaxStack
  /\ New(o) /\ hand' = o /\ task' = "new"
  /\ UNCHANGED frames

(* ... which gets its first reference when it is complete.                 *)
NewEnd ==
  /\ Doing("new")
  /\ refcnt' = [refcnt EXCEPT ![hand] = 1]
  /\ task' = "push"
  /\ UNCHANGED <<MarkSweep, chain, root, refs, corrupt, returned, release, sweep, frames,
                 hand, slot>>

(* The value of an instruction is pushed.                                  *)
PushHand ==
  /\ Doing("push")
  /\ frames' = SetStack(Append(Top.stack, hand))
  /\ hand' = None /\ task' = "run"
  /\ UNCHANGED <<MarkSweep, heap, release, sweep, slot>>

(* arg_copy of an arg that holds o.                                        *)
CopiedNoCount(o) == UNCHANGED refcnt
Copied(o) == refcnt' = [refcnt EXCEPT ![o] = Inc(o)]

(* REF: an arg that holds an object is copied onto the stack.              *)
LoadObj(n, f) ==
  /\ Running
  /\ n \in Named
  /\ refs[n][f] # None
  /\ Len(Top.stack) < MaxStack
  /\ Copied(refs[n][f])
  /\ frames' = SetStack(Append(Top.stack, refs[n][f]))
  /\ UNCHANGED <<MarkSweep, chain, root, refs, corrupt, returned, release, sweep, task, hand,
                 slot>>

(* _updateArg and args_removeArg release what the arg held.                *)
ReleaseOldNot(n, f) == refs' = [refs EXCEPT ![n][f] = None] /\ UNCHANGED rel
ReleaseOld(n, f) == refs' = [refs EXCEPT ![n][f] = None] /\ rel' = refs[n][f]

(* OUT ends a statement: the value is popped, the arg releases what it     *)
(* held ...                                                                *)
StoreObj(n, f) ==
  /\ Running
  /\ n \in Named /\ <<n, f>> \in Slots
  /\ Len(Top.stack) = 1
  /\ hand' = Last(Top.stack) /\ slot' = <<n, f>> /\ task' = "store"
  /\ frames' = SetStack(Front(Top.stack))
  /\ ReleaseOld(n, f)
  /\ UNCHANGED <<MarkSweep, chain, refcnt, root, corrupt, returned, dying, sweep>>

(* ... and takes the value; obj_enableGC: it is no longer a root.          *)
StoreEnd ==
  /\ Doing("store")
  /\ refs' = [refs EXCEPT ![slot[1]][slot[2]] = hand]
  /\ root' = root \ {hand} /\ returned' = returned \ {hand}
  /\ hand' = None /\ slot' = None /\ task' = "run"
  /\ UNCHANGED <<MarkSweep, chain, refcnt, corrupt, release, sweep, frames>>

(* DEL, a statement (or a store of something that is no object): what the  *)
(* arg held is released.                                                   *)
DelObj(n, f) ==
  /\ Running
  /\ n \in Named
  /\ Top.stack = <<>>
  /\ refs[n][f] # None
  /\ ReleaseOld(n, f)
  /\ UNCHANGED <<MarkSweep, chain, refcnt, root, corrupt, returned, dying, sweep, frames, task,
                 hand, slot>>

(* The last value of the stack is popped and released.                     *)
Drop ==
  /\ Top.stack # <<>>
  /\ rel' = Last(Top.stack)
  /\ frames' = SetStack(Front(Top.stack))
  /\ UNCHANGED <<MarkSweep, heap, dying, sweep, task, hand, slot>>

(* A value the statement does not use.                                     *)
DropObj == Running /\ Drop

(* RUN: new locals (the collector may run here), then the argument is      *)
(* moved from the stack of the caller into them.                           *)
Call(l, n) ==
  /\ Running
  /\ l \in Local \ chain
  /\ n <= Len(Top.stack)
  /\ New(l)
  /\ frames' = Append(frames, [locals |-> l, stack |-> <<>>])
  /\ task' = IF n = 1 THEN "args" ELSE "run"
  /\ UNCHANGED hand

LoadArg(f) ==
  /\ Doing("args") /\ <<Top.locals, f>> \in Slots
  /\ LET caller == frames[Len(frames) - 1]
     IN  /\ refs' = [refs EXCEPT ![Top.locals][f] = Last(caller.stack)]
         /\ frames' = [frames EXCEPT ![Len(frames) - 1].stack = Front(caller.stack)]
  /\ task' = "run"
  /\ UNCHANGED <<MarkSweep, chain, refcnt, root, corrupt, returned, release, sweep, hand, slot>>

(* RET takes the value off the stack and flags it, as nothing else may     *)
(* refer to it; a frame may also end without one.                          *)
ReturnObj ==
  /\ Running /\ Len(frames) > 1
  /\ Top.stack # <<>> /\ Len(frames[Len(frames) - 1].stack) < MaxStack
  /\ hand' = Last(Top.stack)
  /\ root' = root \cup {hand'} /\ returned' = returned \cup {hand'}
  /\ frames' = SetStack(Front(Top.stack))
  /\ task' = "leave"
  /\ UNCHANGED <<MarkSweep, chain, refcnt, refs, corrupt, release, sweep, slot>>

(* The last frame is that of the root object, which obj_deinit ends.       *)
Return ==
  /\ Running
  /\ task' = "leave"
  /\ UNCHANGED <<MarkSweep, heap, release, sweep, frames, hand, slot>>

(* The end of a frame: what is left on its stack is released,...           *)
LeaveDrop == Doing("leave") /\ Drop

(* ... then its locals are freed, and the caller gets the value.           *)
LeaveEnd ==
  /\ Doing("leave") /\ Top.stack = <<>>
  /\ dying' = <<Top.locals>>
  /\ frames' = Front(frames)
  /\ task' = IF Len(frames) = 1 THEN "exit" ELSE IF hand = None THEN "run" ELSE "push"
  /\ UNCHANGED <<MarkSweep, heap, rel, sweep, hand, slot>>

(* obj_deinit of the root object ends with a last mark and sweep.          *)
Exit ==
  /\ Doing("exit")
  /\ gc' = MarkSweep /\ task' = "run"
  /\ UNCHANGED <<MarkSweep, heap, release, freeList, objCntLastGC, frames, hand, slot>>

Next ==
  \/ Collect
  \/ \E o \in Obj : NewObj(o) \/ (\E n \in {0, 1} : Call(o, n))
  \/ \E n \in Obj, f \in Name : LoadObj(n, f) \/ StoreObj(n, f) \/ DelObj(n, f)
  \/ \E f \in Name : LoadArg(f)
  \/ NewEnd \/ PushHand \/ StoreEnd \/ DropObj
  \/ ReturnObj \/ Return \/ LeaveDrop \/ LeaveEnd \/ Exit

(* A C function that was called goes on.                                   *)
Spec == Init /\ [][Next]_vars /\ WF_vars(Collect \/ Exit)

-----------------------------------------------------------------------------
(* How often an object is referenced: from args, from the VM stacks, by    *)
(* the instruction under way, and by the release that is about to count it.*)
ArgHolders(r, o) == {nf \in Obj \X Name : r[nf[1]][nf[2]] = o}
StackHolders(s, o) == {ik \in (DOMAIN s) \X (1 .. MaxStack) :
                         ik[2] <= Len(s[ik[1]].stack) /\ s[ik[1]].stack[ik[2]] = o}
InHand(o) == IF hand = o /\ task # "new" THEN 1 ELSE 0
Released(o) == IF rel = o THEN 1 ELSE 0
Holders(o) == Cardinality(ArgHolders(refs, o)) + Cardinality(StackHolders(frames, o)) + InHand(o)

(* Objects that no reference keeps alive: frames own their locals, and a   *)
(* new object belongs to its constructor.                                  *)
Owned == Local \cup {Main} \cup (IF task = "new" THEN {hand} ELSE {})

(* Unless the collector is at work nothing that a live object refers to is *)
(* freed or being freed: whatever order names are bound, deleted, passed   *)
(* on and returned, and whenever the collector has run.                    *)
ArgsAlive ==
  ~gc => \A o \in chain, f \in Name : refs[o][f] \in (chain \ Range(dying)) \cup {None}

(* The count of an object is exactly the number of its holders, also       *)
(* between the steps of a release.                                         *)
RefcntExact ==
  ~gc => \A o \in chain \ (Owned \cup Range(dying)) : refcnt[o] = Holders(o) + Released(o)

(* No object is released after it was freed, or freed a second time while  *)
(* its args are being released.                                            *)
NoDoubleFree == ~corrupt

(* With reference counts alone, the default, what a VM stack or an         *)
(* instruction holds is alive, also when an inner call removes its last    *)
(* name (_stack_pushArg).                                                  *)
StackKeeps == ~MarkSweep => StackAlive /\ hand \in chain \cup {None}

(* With mark and sweep the end of the root object ends everything, cycles  *)
(* included, but for what hangs on an object that a function returned and  *)
(* nobody has stored: RET's flag keeps it.                                 *)
NothingLeaks ==
  MarkSweep /\ frames = <<>> ~> Quiet /\ chain \subseteq MarkedFrom(returned, refs)
=============================================================================
