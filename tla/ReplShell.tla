------------------------------ MODULE ReplShell -----------------------------
(***************************************************************************)
(* The line editor and the history of the shell: _inner_do_obj_runChar,    *)
(* handle_history_navigation and shHistory_* of PikaObj.c. lineBuff is the *)
(* array of the code, with what is left in it after the terminator; the    *)
(* entries of the history are strings. One action is one call.             *)
(***************************************************************************)
EXTENDS Integers, Sequences

CONSTANTS Char,      \* bytes that are typed as text; keys may be among them
          Blank,     \* ' ' and '\t'
          Colon,
          NUL, CR, LF, BS, ESC,
          Bracket,   \* 0x5b
          KEY_UP, KEY_DOWN, KEY_LEFT, KEY_RIGHT,
          BuffSize,  \* PIKA_LINE_BUFF_SIZE
          HistMax,   \* PIKA_SHELL_HISTORY_NUM
          MaxBlock   \* bound: characters of a block to which lines are added

ASSUME ShellAssumption ==
  /\ BuffSize \in Nat \ {0} /\ HistMax \in Nat \ {0} /\ MaxBlock \in Nat
  /\ Blank \subseteq Char
  /\ \A b \in {NUL, CR, LF, BS, ESC} : b \notin Char
  /\ CR # LF /\ NUL \notin {CR, LF, BS, ESC}

VARIABLES lineBuff, line_position, line_curpos,
          stat,            \* "NORMAL", "SPEC" or "FUNC": inside an escape sequence
          lastCR,          \* lastChar = '\r'
          inBlock, block,  \* the string under blockBuffName
          history,         \* the count strings of the history
          current, last_offset, cached_current,
          out,             \* <<>>, or <<s>> if the call gave s to the handler
          saved            \* history: the line that navigation put aside

line == <<lineBuff, line_position, line_curpos>>
hist == <<history, current, last_offset, cached_current, saved>>
vars == <<line, stat, lastCR, inBlock, block, hist, out>>

Keys == {KEY_UP, KEY_DOWN, KEY_LEFT, KEY_RIGHT}
Input == Char \cup Keys \cup {NUL, CR, LF, BS, ESC, Bracket}

-----------------------------------------------------------------------------
Blanked == [i \in 0 .. BuffSize - 1 |-> NUL]

(* strGetSize, and the string in the buffer.                               *)
StrLen(b) == CHOOSE n \in 0 .. BuffSize :
               /\ n < BuffSize => b[n] = NUL
               /\ \A i \in 0 .. n - 1 : b[i] # NUL
Str(b) == [i \in 1 .. StrLen(b) |-> b[i - 1]]

__clearBuff == lineBuff' = Blanked /\ line_curpos' = 0 /\ line_position' = 0

Init == /\ lineBuff = Blanked /\ line_position = 0 /\ line_curpos = 0
        /\ stat = "NORMAL" /\ lastCR = FALSE
        /\ inBlock = FALSE /\ block = <<>>
        /\ history = <<>> /\ current = -1 /\ last_offset = 0
        /\ cached_current = FALSE /\ saved = <<>>
        /\ out = <<>>

(* _do_pikaScriptShell starts the shell again, after it has ended.         *)
_obj_runChar_beforeRun ==
  /\ inBlock' = FALSE /\ stat' = "NORMAL" /\ __clearBuff
  /\ out' = <<>>
  /\ UNCHANGED <<lastCR, block, hist>>

-----------------------------------------------------------------------------
(* shHistory_add: the three things it does to the entries, in its order.   *)
DropOldest(h) == IF Len(h) = HistMax THEN Tail(h) ELSE h
KeepEmpty(h)  == h
DropEmpty(h)  == IF h # <<>> /\ h[Len(h)] = <<>> THEN [i \in 1 .. Len(h) - 1 |-> h[i]] ELSE h
Trimmed(h)    == DropEmpty(DropOldest(h))
SameAny(h, s) == \E i \in DOMAIN h : h[i] = s
Same(h, s)    == h # <<>> /\ h[Len(h)] = s

(* The history after shHistory_add of s: [entries, current, last_offset].  *)
shHistory_add(s) ==
  LET h == Trimmed(history)
  IN  IF Same(h, s)
      THEN [entries |-> h, current |-> current, last_offset |-> last_offset]
      ELSE [entries |-> Append(h, s), current |-> Len(h), last_offset |-> 0]

(* handle_history_navigation, offset -1 for up and 1 for down: the line    *)
(* goes to the history first, if it is not there yet.                      *)
Found(h, i) == i >= 0 /\ i < Len(h)

(* memcpy of the line with its terminator: the rest of the buffer stays.   *)
CopiedBare(s) == [i \in 0 .. BuffSize - 1 |-> IF i < Len(s) THEN s[i + 1] ELSE lineBuff[i]]
Copied(s) == [i \in 0 .. BuffSize - 1 |-> IF i < Len(s) THEN s[i + 1]
                                      ELSE IF i = Len(s) THEN NUL ELSE lineBuff[i]]

handle_history_navigation(offset) ==
  LET r == IF cached_current
           THEN [entries |-> history, current |-> current, last_offset |-> last_offset]
           ELSE shHistory_add(Str(lineBuff))
      i == r.current + r.last_offset + offset
  IN  /\ cached_current' = TRUE
      /\ saved' = IF cached_current THEN saved ELSE Str(lineBuff)
      /\ history' = r.entries /\ current' = r.current
      /\ \/ /\ Found(r.entries, i)
            /\ last_offset' = r.last_offset + offset
            /\ lineBuff' = Copied(r.entries[i + 1])
            /\ line_position' = Len(r.entries[i + 1])
            /\ line_curpos' = Len(r.entries[i + 1])
         \/ /\ ~Found(r.entries, i)
            /\ last_offset' = r.last_offset
            /\ UNCHANGED line

-----------------------------------------------------------------------------
(* The second half of a line end.                                          *)
IgnoreLF(c) ==
  /\ c = LF /\ lastCR
  /\ lastCR' = FALSE /\ out' = <<>>
  /\ UNCHANGED <<line, stat, inBlock, block, hist>>

EscapeKey(c) ==
  /\ c = ESC
  /\ stat' = "SPEC" /\ lastCR' = FALSE /\ out' = <<>>
  /\ UNCHANGED <<line, inBlock, block, hist>>

BracketKey(c) ==
  /\ c = Bracket /\ stat = "SPEC"
  /\ stat' = "FUNC" /\ lastCR' = FALSE /\ out' = <<>>
  /\ UNCHANGED <<line, inBlock, block, hist>>

IsFuncKey(c) == stat = "FUNC" /\ c \in Keys

LeftKey(c) ==
  /\ IsFuncKey(c) /\ c = KEY_LEFT
  /\ line_curpos' = IF line_curpos > 0 THEN line_curpos - 1 ELSE line_curpos
  /\ stat' = "NORMAL" /\ lastCR' = FALSE /\ out' = <<>>
  /\ UNCHANGED <<lineBuff, line_position, inBlock, block, hist>>

RightKey(c) ==
  /\ IsFuncKey(c) /\ c = KEY_RIGHT
  /\ line_curpos' = IF line_curpos < line_position THEN line_curpos + 1 ELSE line_curpos
  /\ stat' = "NORMAL" /\ lastCR' = FALSE /\ out' = <<>>
  /\ UNCHANGED <<lineBuff, line_position, inBlock, block, hist>>

UpDownKey(c) ==
  /\ IsFuncKey(c) /\ c \in {KEY_UP, KEY_DOWN}
  /\ handle_history_navigation(IF c = KEY_UP THEN -1 ELSE 1)
  /\ stat' = "NORMAL" /\ lastCR' = FALSE /\ out' = <<>>
  /\ UNCHANGED <<inBlock, block>>

(* Every other byte ends an escape sequence and counts for itself.         *)
Plain(c) ==
  /\ ~(c = LF /\ lastCR)
  /\ c # ESC
  /\ ~(c = Bracket /\ stat = "SPEC")
  /\ ~IsFuncKey(c)
  /\ stat' = "NORMAL"
  /\ lastCR' = (c = CR)

(* memmove of the bytes from `from` up to the end of the line by d places, *)
(* and the terminator.                                                     *)
MovedBare(from, d) ==
  [i \in 0 .. BuffSize - 1 |->
     IF i >= from + d /\ i < line_position + d THEN lineBuff[i - d] ELSE lineBuff[i]]
Moved(from, d) ==
  [i \in 0 .. BuffSize - 1 |->
     IF i = line_position + d THEN NUL
     ELSE IF i >= from + d /\ i < line_position + d THEN lineBuff[i - d] ELSE lineBuff[i]]

Backspace(c) ==
  /\ Plain(c) /\ c = BS
  /\ IF line_curpos = 0 THEN UNCHANGED line
     ELSE /\ lineBuff' = Moved(line_curpos, -1)
          /\ line_position' = line_position - 1
          /\ line_curpos' = line_curpos - 1
  /\ out' = <<>> /\ UNCHANGED <<inBlock, block, hist>>

(* The line is too long: it is lost, and the shell ends.                   *)
LineFull == line_position + 1 >= BuffSize
LineOverflow(c) ==
  /\ Plain(c) /\ c \in Char \cup {NUL} /\ LineFull
  /\ __clearBuff
  /\ out' = <<>> /\ UNCHANGED <<inBlock, block, hist>>

InsertChar(c) ==
  /\ Plain(c) /\ c \in Char /\ ~LineFull
  /\ lineBuff' = [Moved(line_curpos, 1) EXCEPT ![line_curpos] = c]
  /\ line_position' = line_position + 1
  /\ line_curpos' = line_curpos + 1
  /\ out' = <<>> /\ UNCHANGED <<inBlock, block, hist>>

SkipNul(c) ==
  /\ Plain(c) /\ c = NUL /\ ~LineFull
  /\ out' = <<>> /\ UNCHANGED <<line, inBlock, block, hist>>

(* What every end of line does to the history.                             *)
EnterHistory ==
  /\ IF lineBuff[0] # NUL
     THEN LET r == shHistory_add(Str(lineBuff))
          IN  history' = r.entries /\ current' = r.current
     ELSE UNCHANGED <<history, current>>
  /\ last_offset' = 0 /\ cached_current' = FALSE
  /\ saved' = <<>>

(* The buffer with '\n' at its end. In a full buffer the terminator falls  *)
(* behind the array, on line_position, which __clearBuff resets.           *)
Ended == Append(Str(lineBuff), LF)

StaysInBlock == lineBuff[0] \in Blank
OpensBlock == StrLen(lineBuff) # 0 /\ lineBuff[StrLen(lineBuff) - 1] = Colon

EnterInBlock(c) ==
  /\ Plain(c) /\ c \in {CR, LF} /\ inBlock /\ Len(block) <= MaxBlock
  /\ EnterHistory
  /\ block' = block \o Ended
  /\ inBlock' = StaysInBlock
  /\ out' = IF StaysInBlock THEN <<>> ELSE <<block'>>
  /\ __clearBuff

EnterOpening(c) ==
  /\ Plain(c) /\ c \in {CR, LF} /\ ~inBlock /\ OpensBlock
  /\ EnterHistory
  /\ block' = Ended /\ inBlock' = TRUE /\ out' = <<>>
  /\ __clearBuff

EnterSingle(c) ==
  /\ Plain(c) /\ c \in {CR, LF} /\ ~inBlock /\ ~OpensBlock
  /\ EnterHistory
  /\ out' = <<Str([lineBuff EXCEPT ![line_position] = NUL])>>
  /\ __clearBuff
  /\ UNCHANGED <<inBlock, block>>

Next == \/ _obj_runChar_beforeRun
        \/ \E c \in Input :
             \/ IgnoreLF(c) \/ EscapeKey(c) \/ BracketKey(c)
             \/ LeftKey(c) \/ RightKey(c) \/ UpDownKey(c)
             \/ Backspace(c) \/ LineOverflow(c) \/ InsertChar(c) \/ SkipNul(c)
             \/ EnterInBlock(c) \/ EnterOpening(c) \/ EnterSingle(c)

Spec == Init /\ [][Next]_vars

-----------------------------------------------------------------------------
TypeOK == /\ lineBuff \in [0 .. BuffSize - 1 -> Char \cup {NUL}]
          /\ line_position \in 0 .. BuffSize - 1 /\ line_curpos \in 0 .. line_position
          /\ stat \in {"NORMAL", "SPEC", "FUNC"} /\ lastCR \in BOOLEAN
          /\ inBlock \in BOOLEAN /\ block \in Seq(Char \cup {LF})
          /\ history \in Seq(Seq(Char)) /\ Len(history) <= HistMax
          /\ current \in Int /\ last_offset \in Int /\ cached_current \in BOOLEAN
          /\ saved \in Seq(Char)

(* The buffer is a C string that ends at line_position: what an earlier,   *)
(* longer line left in it is never taken for text, although recalling a    *)
(* line and editing write only one terminator each.                        *)
Terminated == /\ lineBuff[line_position] = NUL
              /\ \A i \in 0 .. line_position - 1 : lineBuff[i] # NUL

(* Every entry of the history fits into the buffer it is copied to.        *)
EntriesFit == \A i \in DOMAIN history : Len(history[i]) < BuffSize

(* The editor implements LineEditor: with the moves in the buffer it       *)
(* inserts and deletes at the cursor, and the handler gets exactly the     *)
(* line, or the lines of the block, that were edited.                      *)
Text == [i \in 1 .. line_position |-> lineBuff[i - 1]]
Editor == INSTANCE LineEditor WITH text <- Text, cursor <- line_curpos, open <- inBlock
IsEditor == Editor!Spec

(* While the user goes through the history, the line that was put aside    *)
(* can be reached again by going down, although entries were moved and     *)
(* removed when it was added.                                              *)
SavedReachable ==
  cached_current /\ last_offset # 0 =>
    \E k \in current + last_offset .. Len(history) - 1 : k >= 0 /\ history[k + 1] = saved

(* Going up from an empty line recalls the line that was entered last,     *)
(* also when the history is full and its oldest entry has to go.           *)
LastLine == IF history # <<>> /\ history[Len(history)] = <<>>
            THEN history[Len(history) - 1] ELSE history[Len(history)]
UpRecallsLast ==
  [][ ( /\ \E c \in Input : c = KEY_UP /\ UpDownKey(c)
        /\ ~cached_current /\ line_position = 0
        /\ \E i \in DOMAIN history : history[i] # <<>> )
      => Str(lineBuff') = LastLine ]_vars
=============================================================================
