----------------------------- MODULE LineEditor -----------------------------
(***************************************************************************)
(* What the line editor of the shell promises: a line of text with a       *)
(* cursor in it, a block of lines that is being collected, and the text    *)
(* that a step hands over to be run.                                       *)
(***************************************************************************)
EXTENDS Integers, Sequences

CONSTANTS Char,   \* the characters of a line
          Blank,  \* the ones that keep a line in its block when it starts with them
          Colon,  \* the one that opens a block when it ends a line
          LF,     \* ends a line of a block
          BuffSize  \* a line has fewer than BuffSize characters

VARIABLES text, cursor, block, open,
          out     \* <<>>, or <<t>> if this step hands t over

vars == <<text, cursor, block, open, out>>

Init == text = <<>> /\ cursor = 0 /\ block = <<>> /\ open = FALSE /\ out = <<>>

Insert == \E c \in Char :
  /\ Len(text) + 1 < BuffSize
  /\ text' = [i \in 1 .. Len(text) + 1 |->
                IF i <= cursor THEN text[i]
                ELSE IF i = cursor + 1 THEN c ELSE text[i - 1]]
  /\ cursor' = cursor + 1
  /\ out' = <<>> /\ UNCHANGED <<block, open>>

Delete ==
  /\ cursor > 0
  /\ text' = [i \in 1 .. Len(text) - 1 |-> IF i < cursor THEN text[i] ELSE text[i + 1]]
  /\ cursor' = cursor - 1
  /\ out' = <<>> /\ UNCHANGED <<block, open>>

Move ==
  /\ cursor' \in {cursor - 1, cursor + 1} \cap 0 .. Len(text)
  /\ out' = <<>> /\ UNCHANGED <<text, block, open>>

(* Another line, of the history, takes the place of the text.              *)
Recall ==
  /\ text' \in Seq(Char) /\ Len(text') < BuffSize
  /\ cursor' = Len(text')
  /\ out' = <<>> /\ UNCHANGED <<block, open>>

(* The text is lost (the line is too long, or the shell starts again).     *)
Reset ==
  /\ text' = <<>> /\ cursor' = 0 /\ out' = <<>>
  /\ open' \in {open, FALSE} /\ UNCHANGED block

Line == Append(text, LF)

EnterOpening ==
  /\ ~open /\ text # <<>> /\ text[Len(text)] = Colon
  /\ block' = Line /\ open' = TRUE /\ out' = <<>>
  /\ text' = <<>> /\ cursor' = 0

EnterSingle ==
  /\ ~open /\ ~(text # <<>> /\ text[Len(text)] = Colon)
  /\ out' = <<text>> /\ UNCHANGED <<block, open>>
  /\ text' = <<>> /\ cursor' = 0

EnterInBlock ==
  /\ open /\ text # <<>> /\ text[1] \in Blank
  /\ block' = block \o Line /\ out' = <<>> /\ UNCHANGED open
  /\ text' = <<>> /\ cursor' = 0

EnterClosing ==
  /\ open /\ ~(text # <<>> /\ text[1] \in Blank)
  /\ block' = block \o Line /\ open' = FALSE /\ out' = <<block'>>
  /\ text' = <<>> /\ cursor' = 0

(* A key that has no effect: after it nothing is handed over.              *)
Idle == out' = <<>> /\ UNCHANGED <<text, cursor, block, open>>

Next == \/ Insert \/ Delete \/ Move \/ Recall \/ Reset \/ Idle
        \/ EnterOpening \/ EnterSingle \/ EnterInBlock \/ EnterClosing

Spec == Init /\ [][Next]_vars
=============================================================================
