----------------------------- MODULE PyFunctions ----------------------------
(***************************************************************************)
(* Python functions as far as calls and errors are concerned: a function   *)
(* is a sequence of statements, a position is an index in it.              *)
(***************************************************************************)
EXTENDS Integers, Sequences, SequencesExt, FiniteSetsExt

CONSTANT Bodies  \* the functions

(* A line, the head of a loop and its end, a raise, a try body from "try"  *)
(* to "ntr", its except clause "exp" with "hand" for its lines, a return.  *)
Statements == {"line", "loop", "back", "raise", "try", "ntr", "exp", "hand", "ret"}
Works      == {"line", "loop", "hand"}

(* The positions of a call that is over.                                   *)
RETURNED == 0
RAISED   == -1

HasTry(b) == \E p \in DOMAIN b : b[p] = "try"

(* p is in the body of a try.                                              *)
InTry(b, p) ==
  \E j \in 1 .. p - 1 : b[j] = "try" /\ \A m \in j .. p : b[m] # "ntr"

(* Where control goes from the end of a try body that had no error.        *)
PastHandler(b, p) ==
  Min({m \in p + 1 .. Len(b) : b[m] \notin {"exp", "hand"}})

Handler(b, p) ==
  IF p > 0 /\ InTry(b, p)
  THEN Min({m \in p .. Len(b) : b[m] = "exp"})
  ELSE RAISED

LoopOf(b)    == CHOOSE p \in DOMAIN b : b[p] = "loop"
PastLoop(b)  == 1 + CHOOSE p \in DOMAIN b : b[p] = "back"
At(b, p)     == IF b[p] = "ntr" THEN PastHandler(b, p) ELSE p

Successors(b, p) ==
  CASE b[p] = "ret"   -> {RETURNED}
    [] b[p] = "raise" -> {}
    [] b[p] = "back"  -> {LoopOf(b)}
    [] b[p] = "loop"  -> {At(b, p + 1), At(b, PastLoop(b))}
    [] OTHER          -> {At(b, p + 1)}

(* The code that the parser makes of nested blocks: a "ntr" ends the body  *)
(* of a try and has an except clause behind it, which is nowhere else; a   *)
(* loop has an end, and lies in the body of a try as a whole or not at all.*)
Structured(b) ==
  /\ b \in Seq(Statements) /\ b # <<>> /\ b[Len(b)] = "ret"
  /\ \A p \in DOMAIN b :
       /\ b[p] = "ntr" => /\ p > 1 /\ (b[p - 1] = "try" \/ InTry(b, p - 1))
                          /\ b[p + 1] = "exp"
       /\ b[p] = "exp" => p > 1 /\ b[p - 1] = "ntr"
       /\ b[p] = "loop" => /\ \E e \in DOMAIN b : b[e] = "back"
                           /\ InTry(b, p) <=> InTry(b, PastLoop(b)) \/ b[PastLoop(b)] = "ntr"
       /\ b[p] = "back" => /\ \E l \in DOMAIN b : b[l] = "loop"
                           /\ InTry(b, p) <=> InTry(b, LoopOf(b))

ASSUME BodiesAssumption == \A b \in Bodies : Structured(b)
=============================================================================
