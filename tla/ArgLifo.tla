------------------------------- MODULE ArgLifo ------------------------------
(***************************************************************************)
(* What the operand stack of a frame promises: args come back in the       *)
(* reverse order of their pushes, an arg below the top can be looked at,   *)
(* and a push that finds no room stops the device and harms nothing.       *)
(***************************************************************************)
EXTENDS Naturals, Sequences

CONSTANTS Tok, NULL

VARIABLES lifo,    \* the args on the stack, the top last
          holding, \* the args the instructions have in hand
          got,     \* what a look has returned, until it was used
          stopped  \* the device was stopped by an overflow

avars == <<lifo, holding, got, stopped>>

Free(t) == t \notin holding /\ \A i \in DOMAIN lifo : lifo[i] # t

Init == lifo = <<>> /\ holding = {} /\ got = NULL /\ stopped = FALSE

Obtain == \E t \in Tok : /\ Free(t)
                         /\ holding' = holding \cup {t}
                         /\ UNCHANGED <<lifo, got, stopped>>

Discard == \E t \in holding : /\ holding' = holding \ {t}
                              /\ UNCHANGED <<lifo, got, stopped>>

Push == \E t \in holding : /\ lifo' = Append(lifo, t)
                           /\ holding' = holding \ {t}
                           /\ UNCHANGED <<got, stopped>>

Overflow == /\ holding # {}
            /\ stopped' = TRUE
            /\ UNCHANGED <<lifo, holding, got>>

Pop == /\ lifo # <<>>
       /\ holding' = holding \cup {lifo[Len(lifo)]}
       /\ lifo' = SubSeq(lifo, 1, Len(lifo) - 1)
       /\ UNCHANGED <<got, stopped>>

(* Looking at the arg i places below the top, and having used it.          *)
Look(i) == /\ got' = lifo[Len(lifo) - i]
           /\ UNCHANGED <<lifo, holding, stopped>>

Used == got' = NULL /\ UNCHANGED <<lifo, holding, stopped>>

(* At the end of a line what was not used is dropped from the top.         *)
Drop == /\ lifo # <<>>
        /\ lifo' = SubSeq(lifo, 1, Len(lifo) - 1)
        /\ UNCHANGED <<holding, got, stopped>>

Next == /\ ~stopped
        /\ \/ Obtain \/ Discard \/ Push \/ Overflow \/ Pop \/ Drop \/ Used
           \/ \E i \in 0 .. Len(lifo) - 1 : Look(i)

Spec == Init /\ [][Next]_avars
=============================================================================
