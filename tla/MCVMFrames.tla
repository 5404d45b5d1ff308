---- MODULE MCVMFrames ----
(* The functions VMFrames is checked on.                                   *)
EXTENDS VMFrames

(* def f(): g()                                                            *)
Plain   == <<"line", "ret">>
(* def f(): g() / raise E                                                  *)
Raising == <<"line", "raise", "ret">>
(* def f(): g() / try: g() / except: g() / g()                             *)
Guarded == <<"line", "try", "line", "ntr", "exp", "hand", "line", "ret">>
(* def f(): while g(): try: g() / except: g()                              *)
Looping == <<"loop", "try", "line", "ntr", "exp", "hand", "back", "ret">>

Functions == {Plain, Raising, Guarded, Looping}
====
