---- MODULE MCVMControl ----
(* The programs VMControl is checked on: each family has the constructs    *)
(* that one part of the lowering and of the jump searches is about.        *)
EXTENDS VMControl

Mix(kinds, lines) == [kinds |-> kinds, lines |-> lines]

TestsAndLoops == {"stmt", "if", "elif", "else", "while", "for", "break", "continue"}
WhileLoops    == {"stmt", "if", "else", "while", "break", "continue"}
TriesAndLoops == {"stmt", "while", "if", "try", "except"}
Functions     == {"stmt", "while", "if", "raise", "try", "except", "def", "return"}

Programs == {Mix(TestsAndLoops, 5), Mix(WhileLoops, 6),
             Mix(TriesAndLoops, 7), Mix(Functions, 6)}

(* A break or continue below a loop that is already over.                  *)
PastALoop == {Mix({"stmt", "if", "while", "break"}, 6)}
====
