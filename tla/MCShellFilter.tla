--------------------------- MODULE MCShellFilter ---------------------------
(* Messages that share a start and overlap themselves, like "###Hi Pika"   *)
(* and "###bye pika": "#h" and the case-insensitive "##b", and a visible   *)
(* one that ends like the first, "bh".                                     *)
EXTENDS ShellFilter

MCDefault == << [seq |-> <<{"#"}, {"h"}>>, visible |-> FALSE],
                [seq |-> <<{"#"}, {"#"}, {"b", "B"}>>, visible |-> FALSE],
                [seq |-> <<{"b"}, {"h"}>>, visible |-> TRUE] >>
MCNone == <<>>

(* The tables are as the theorem about the filter asks.                    *)
ASSUME MCTables == MessagesFit /\ Unambiguous
=============================================================================
