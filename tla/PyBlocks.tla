------------------------------ MODULE PyBlocks ------------------------------
(***************************************************************************)
(* What the language promises about control flow: a program is written,    *)
(* line by line, and one frame of it (the module's code or one function)   *)
(* runs its lines in the order PyStructure gives. The detailed             *)
(* specification is VMControl.                                             *)
(***************************************************************************)
EXTENDS PyStructure

CONSTANT MaxLines  \* bound: lines of a program

VARIABLES prog,  \* the program, a sequence of lines
          at,    \* the position control is at
          out    \* what its line came to, "none" while it has not run

vars == <<prog, at, out>>

Init == prog = <<>> /\ at = START /\ out = "none"

Write == /\ at = START
         /\ \E d \in 0 .. MaxLines, k \in Kinds :
              Fits(prog, d, k) /\ prog' = Append(prog, [d |-> d, k |-> k])
         /\ UNCHANGED <<at, out>>

(* The module's code is run from its first line, a function from the first *)
(* line of its body.                                                       *)
Begin == /\ at = START /\ prog # <<>>
         /\ \E e \in {0} \cup {i \in DOMAIN prog : prog[i].k = "def"} :
              at' = Enter(prog, e + 1)
         /\ UNCHANGED <<prog, out>>

Chosen == IF out = "none" THEN Outcomes(prog, at) ELSE {out}

Run == /\ at[1] > 0
       /\ \E o \in Chosen :
            \/ at' = at /\ out' = o
            \/ at' = Step(prog, at, o) /\ out' = "none"
       /\ UNCHANGED prog

Interrupt == at' = STOPPED /\ out' = "none" /\ UNCHANGED prog

Next == Write \/ Begin \/ Run \/ Interrupt

Spec == Init /\ [][Next]_vars
=============================================================================
