------------------------------- MODULE PyCalls ------------------------------
(***************************************************************************)
(* What the language promises about errors and calls: an error goes to the *)
(* except clause of the innermost try that is being executed, in the frame *)
(* where it occurs or in a caller; frames in between end. Code that the    *)
(* runtime itself calls (event handlers, methods called by native code)    *)
(* keeps its errors to itself. The detailed specification is VMFrames.     *)
(***************************************************************************)
EXTENDS PyFunctions

VARIABLE calls  \* the active calls, each [body, pos, root]; root if the
                \* runtime, not a line of the caller, made the call

Now     == calls[Len(calls)]
GoTo(s, p) == [s EXCEPT ![Len(s)].pos = p]
Begun(b, root) == [body |-> b, pos |-> 1, root |-> root]

Start == /\ calls = <<>>
         /\ \E b \in Bodies : calls' = <<Begun(b, TRUE)>>

Call == /\ calls # <<>> /\ Now.pos > 0 /\ Now.body[Now.pos] \in Works
        /\ \E b \in Bodies : calls' = Append(calls, Begun(b, FALSE))

CallBack == /\ calls # <<>>
            /\ \E b \in Bodies : calls' = Append(calls, Begun(b, TRUE))

Advance == /\ calls # <<>> /\ Now.pos > 0
           /\ \E p \in Successors(Now.body, Now.pos) : calls' = GoTo(calls, p)

Fail == /\ calls # <<>> /\ Now.pos > 0
        /\ Now.body[Now.pos] \in Works \cup {"raise"}
        /\ calls' = GoTo(calls, Handler(Now.body, Now.pos))

(* A call is over: its caller goes on with the line, or has the error.     *)
Leave ==
  LET rest   == Front(calls)
      caller == rest[Len(rest)]
  IN  /\ calls # <<>> /\ Now.pos <= 0
      /\ calls' = IF rest # <<>> /\ Now.pos = RAISED /\ ~Now.root
                  THEN GoTo(rest, Handler(caller.body, caller.pos))
                  ELSE rest

Stop == calls' = <<>>

Init == calls = <<>>
Next == Start \/ Call \/ CallBack \/ Advance \/ Fail \/ Leave \/ Stop
Spec == Init /\ [][Next]_calls
=============================================================================
