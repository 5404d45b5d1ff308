--------------------------- MODULE MCPikaThreads ---------------------------
(* Two Python threads without arg events; with them, three threads besides *)
(* the main one: a native sender, a second event thread, or two workers.   *)
EXTENDS PikaThreads

CONSTANTS w1, w2, s1, e1, e2

MCPrograms ==
  {[events |-> FALSE, threads |-> {w1, w2}]}
    \cup {[events |-> TRUE, threads |-> T] :
             T \in {{w1, s1, e1}, {w1, e1, e2}, {w1, w2, e1}}}
=============================================================================
