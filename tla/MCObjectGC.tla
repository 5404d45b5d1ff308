----------------------------- MODULE MCObjectGC -----------------------------
(* Two objects that refer to each other and to themselves, one of them by  *)
(* two names, and one function with one parameter.                         *)
EXTENDS ObjectGC

CONSTANTS x, y, a, b, l

MCSlots == {<<Main, x>>, <<a, x>>, <<a, y>>, <<b, x>>, <<l, x>>}
=============================================================================
