------------------------------ MODULE VMFrames ------------------------------
(***************************************************************************)
(* Calls and errors in the VM: one C stack frame of                        *)
(* __pikaVM_runByteCodeFrameWithState per active Python function, the      *)
(* frames of a chain of calls sharing one PikaVMThread with its error      *)
(* code, try_state and try_result. Native code that calls Python, and the  *)
(* events that _pikaVM_yield picks up between instructions, run in a       *)
(* PikaVMThread of their own. VMControl has the jumps inside one frame:    *)
(* here a statement is one step, and a line does what the instructions of  *)
(* its expression may do, which is to fail, to call, or to be over.        *)
(***************************************************************************)
EXTENDS PyFunctions

CONSTANTS Raised,      \* addresses of the constructors of raised classes
          NestedTries, \* TRUE if functions with a try are called in a try
          MaxFrames    \* bound: depth of the C stack

ASSUME FramesAssumption ==
  Raised \subseteq Nat /\ NestedTries \in BOOLEAN /\ MaxFrames \in Nat \ {0}

VARIABLES
  frames,      \* PikaVMFrame's, each [body, pc, by, served]: by tells which
               \* code called it, served if it was interrupted at this pc
  threads,     \* PikaVMThread's, one per frame that native code called
  signal_ctrl  \* VM_SIGNAL_CTRL_EXIT was set

vars == <<frames, threads, signal_ctrl>>

VM_PC_EXIT == 0

(* RUN, which looks at try_result after the call; the call of __init__ and *)
(* the import of a module, which do not; native code.                      *)
Callers == {"RUN", "init", "native"}

PikaVMFrame(b, by) == [body |-> b, pc |-> 1, by |-> by, served |-> FALSE]

NewThread == [error_code |-> FALSE, try_state |-> FALSE,
              try_result |-> FALSE, try_error_code |-> FALSE]

-----------------------------------------------------------------------------
Running == frames # <<>>
Frame   == frames[Len(frames)]
Thread  == threads[Len(threads)]
Here    == Frame.body[Frame.pc]

SetTop(s, x) == [s EXCEPT ![Len(s)] = x]

(* PikaVMFrame_create: the new frame starts without an error.              *)
CreatedAnew(t) == [t EXCEPT !.error_code = FALSE, !.try_error_code = FALSE, !.try_state = FALSE]
Created(t) == [t EXCEPT !.error_code = FALSE, !.try_error_code = FALSE]

(* The loop's head: a new line starts without an error.                    *)
NewLine(t) == [t EXCEPT !.error_code = FALSE]

(* PikaVMFrame_getAddrOffsetOfRaise.                                       *)
RaiseTarget(f) ==
  LET S == {p \in f.pc + 1 .. Len(f.body) : f.body[p] \in {"ntr", "ret"}}
  IN  IF S = {} \/ f.body[Min(S)] = "ret" THEN VM_PC_EXIT ELSE Min(S)

(* What overrides the handler's jump.                                      *)
StopsNoSignal(t) == t.error_code
Stops(t) == t.error_code \/ signal_ctrl

(* try_result after a jump to next: a raise that found no except in its    *)
(* frame is left to the caller.                                            *)
TryResultSticky(t, next) == t.try_result \/ (Stops(t) /\ t.try_state /\ next = VM_PC_EXIT)
TryResult(t, next) ==
  IF Stops(t) /\ t.try_state THEN next = VM_PC_EXIT ELSE t.try_result

(* pikaVM_runInstructUnit after the handler, and the loop after it: frame  *)
(* f, on top of the frames s, executed the statement at its pc, which left *)
(* the thread as t and would go on at n.                                   *)
After(s, f, t, n) ==
  LET next == CASE ~Stops(t)                -> n
                [] Stops(t) /\ t.try_state  -> RaiseTarget(f)
                [] Stops(t) /\ ~t.try_state -> VM_PC_EXIT
      left == [t EXCEPT !.try_result     = TryResult(t, next),
                        !.try_error_code = @ \/ (t.error_code /\ t.try_state)]
  IN  /\ frames' = SetTop(s, [f EXCEPT !.pc = next, !.served = FALSE])
      /\ threads' = SetTop(threads, left)
      /\ UNCHANGED signal_ctrl

Statement(k) == Running /\ Frame.pc # VM_PC_EXIT /\ Here \in k

(* A line or a loop's test comes to its end.                               *)
Complete ==
  /\ Statement(Works)
  /\ \E n \in {Frame.pc + 1} \cup (IF Here = "loop" THEN {PastLoop(Frame.body)} ELSE {}) :
       After(frames, Frame, NewLine(Thread), n)

(* An instruction or a native method sets an error code.                   *)
Fail ==
  /\ Statement(Works)
  /\ After(frames, Frame, [Thread EXCEPT !.error_code = TRUE], Frame.pc + 1)

(* RIS: the error code is an int8_t, the address of the constructor cut to *)
(* its last byte.                                                          *)
RIS(ptr) ==
  /\ Statement({"raise"})
  /\ After(frames, Frame, [Thread EXCEPT !.error_code = (ptr % 256 # 0)], Frame.pc + 1)

Back == /\ Statement({"back"})
        /\ After(frames, Frame, NewLine(Thread), LoopOf(Frame.body))

TRY == /\ Statement({"try"})
       /\ After(frames, Frame, [NewLine(Thread) EXCEPT !.try_state = TRUE], Frame.pc + 1)

(* NTR, GER and JEZ 2: past the except clause, unless there was an error.  *)
NTRKeep == /\ Statement({"ntr"})
           /\ After(frames, Frame, NewLine(Thread),
                    IF Thread.try_error_code THEN Frame.pc + 1
                    ELSE PastHandler(Frame.body, Frame.pc))
NTR == /\ Statement({"ntr"})
       /\ After(frames, Frame, [NewLine(Thread) EXCEPT !.try_state = FALSE],
                IF Thread.try_error_code THEN Frame.pc + 1
                ELSE PastHandler(Frame.body, Frame.pc))

EXP == /\ Statement({"exp"})
       /\ After(frames, Frame, [NewLine(Thread) EXCEPT !.try_error_code = FALSE], Frame.pc + 1)

RET == /\ Statement({"ret"})
       /\ After(frames, Frame, NewLine(Thread), VM_PC_EXIT)

-----------------------------------------------------------------------------
(* The frames of thread k, the ones native code did not call sharing it    *)
(* with their caller.                                                      *)
ThreadOf(i) == Cardinality({j \in 1 .. i : frames[j].by = "native"})
FramesOf(k) == {i \in DOMAIN frames : ThreadOf(i) = k}

Trying(i) == frames[i].pc # VM_PC_EXIT /\ InTry(frames[i].body, frames[i].pc)

Admitted(b) ==
  NestedTries \/ ~HasTry(b) \/ \A i \in FramesOf(Len(threads)) : ~Trying(i)

(* A Python function is called by RUN, or as __init__ or as a module's     *)
(* code: its frame uses the caller's thread.                               *)
Call(b, by) ==
  /\ Statement(Works) /\ Len(frames) < MaxFrames /\ Admitted(b)
  /\ by # "native"
  /\ frames' = Append(frames, PikaVMFrame(b, by))
  /\ threads' = SetTop(threads, Created(Thread))
  /\ UNCHANGED signal_ctrl

(* obj_runMethodArg and pikaVM_runByteCode, from a native method or from   *)
(* the event that _pikaVM_yield picked up after an instruction.            *)
CallBack(b) ==
  /\ Running /\ Len(frames) < MaxFrames /\ ~Frame.served
  /\ frames' = Append(SetTop(frames, [Frame EXCEPT !.served = TRUE]), PikaVMFrame(b, "native"))
  /\ threads' = Append(threads, Created(NewThread))
  /\ UNCHANGED signal_ctrl

(* A frame is over. RUN takes a raise that found no except in the callee   *)
(* for an error of its own; the other callers go by the error code.        *)
Return ==
  LET rest   == Front(frames)
      caller == rest[Len(rest)]
      t      == IF Frame.by = "RUN" /\ Thread.try_result
                THEN [Thread EXCEPT !.error_code = TRUE] ELSE Thread
  IN  /\ Running /\ Frame.pc = VM_PC_EXIT
      /\ IF Frame.by = "native"
         THEN frames' = rest /\ threads' = Front(threads) /\ UNCHANGED signal_ctrl
         ELSE After(rest, caller, t, caller.pc)

(* A program starts: the first frame of all clears an old signal.          *)
Start(b) ==
  /\ ~Running
  /\ frames' = <<PikaVMFrame(b, "native")>>
  /\ threads' = <<Created(NewThread)>>
  /\ signal_ctrl' = FALSE

pika_vm_exit ==
  /\ ~signal_ctrl /\ signal_ctrl' = TRUE
  /\ UNCHANGED <<frames, threads>>

-----------------------------------------------------------------------------
Init == frames = <<>> /\ threads = <<>> /\ signal_ctrl = FALSE

VMStep ==
  \/ Complete \/ Fail \/ Back \/ TRY \/ NTR \/ EXP \/ RET \/ Return
  \/ \E ptr \in Raised : RIS(ptr)
  \/ \E b \in Bodies, by \in Callers : Call(b, by)

Next ==
  \/ VMStep \/ pika_vm_exit
  \/ \E b \in Bodies : CallBack(b) \/ Start(b)

Spec == Init /\ [][Next]_vars
FairSpec == Spec /\ WF_vars(VMStep)

-----------------------------------------------------------------------------
(* The position of frame i in its function, as PyCalls sees it.            *)
Pos(i) ==
  LET f == frames[i]
      t == threads[ThreadOf(i)]
  IN  CASE f.pc = VM_PC_EXIT /\ t.error_code  -> RAISED
        [] f.pc = VM_PC_EXIT /\ ~t.error_code -> RETURNED
        [] OTHER -> IF f.body[f.pc] # "ntr" THEN f.pc
                    ELSE IF t.try_error_code THEN f.pc + 1
                    ELSE PastHandler(f.body, f.pc)

Calls == [i \in DOMAIN frames |->
            [body |-> frames[i].body, pos |-> Pos(i), root |-> frames[i].by = "native"]]

(* An error goes to the except clause of the innermost try being executed, *)
(* whether it occurs in the try's own frame or in a function it calls, and *)
(* never to another one: runInstructUnit's choice between VM_JMP_RAISE and *)
(* VM_JMP_EXIT, the search for NTR, and RUN's look at try_result together. *)
PyErrors == INSTANCE PyCalls WITH calls <- IF signal_ctrl THEN <<>> ELSE Calls
ErrorsAreHandled == PyErrors!Spec

(* try_state, of which a thread has one for all its frames, is set exactly *)
(* while one of them executes the body of a try.                           *)
TryStateNested ==
  \A k \in DOMAIN threads :
    threads[k].try_state <=> \E i \in FramesOf(k) : Trying(i) \/
       (frames[i].pc # VM_PC_EXIT /\ frames[i].body[frames[i].pc] = "ntr")

(* try_result is set only while an error is on its way from a frame that   *)
(* is over to a caller that has a try for it: left set, it would make RUN  *)
(* fail a later call that succeeds.                                        *)
RaiseUnderWay ==
  \A k \in DOMAIN threads : threads[k].try_result =>
    /\ frames[Max(FramesOf(k))].pc = VM_PC_EXIT
    /\ \E i \in FramesOf(k) : Trying(i)

(* After pika_vm_exit no frame of the chain goes on to another line, in a  *)
(* try or not: frames only end.                                            *)
ExitUnwinds ==
  [][signal_ctrl /\ signal_ctrl' =>
       \A i \in DOMAIN frames \cap DOMAIN frames' :
         \/ frames'[i].pc \in {frames[i].pc, VM_PC_EXIT}
         \/ frames'[i].body[frames'[i].pc] = "ntr"]_vars

(* pika_vm_exit_await, which waits until there is no frame, returns.       *)
ExitEnds == signal_ctrl ~> ~Running
=============================================================================
