----------------------------- MODULE ShellFilter ----------------------------
(***************************************************************************)
(* The message filter in front of the shell (_do_obj_runChar with          *)
(* _do_stream_filter and _do_message_filter): bytes are held in the byte   *)
(* queue while they may be the start of a message, a complete message is   *)
(* handled and dropped, or passed on as a whole if it is visible, and      *)
(* every other byte goes on to the line editor. Each call of the byte      *)
(* queue is a step of its own.                                             *)
(*                                                                         *)
(* A message is [seq, visible]: the set seq[i] are the bytes that match    *)
(* its i-th one, two for a letter of a case-insensitive message. No        *)
(* message is masked and every handler accepts its message.                *)
(***************************************************************************)
EXTENDS ByteQueue

CONSTANTS Default,   \* g_default_filter_messages, a sequence of messages
          User,      \* shell->messages, <<>> if none are registered
          MaxInput   \* bound: bytes received

Message == [seq: Seq(SUBSET Byte), visible: BOOLEAN]

(* The shell has messages of its own; one without bytes is passed over and *)
(* left out of the tables.                                                 *)
ASSUME FilterAssumption ==
  /\ Default \in Seq(Message) /\ Default # <<>> /\ User \in Seq(Message)
  /\ \A t \in {Default, User} : \A i \in DOMAIN t : t[i].seq # <<>>

VARIABLES pc,     \* "idle", "loop", "msg", "cmp", "drop", "read"
          tab,    \* the table _do_message_filter goes through
          j, k,   \* the message of it, and how many of its bytes have matched
          result, \* "fail", or "none": more bytes are needed
          n,      \* drop_count, then the bytes still to pass on
          input,  \* history: the bytes received
          fed,    \* history: the bytes given to _inner_do_obj_runChar
          torn    \* history: the editor ended the shell inside a visible message

filter == <<tab, j, k, result, n>>
fvars == <<queue, pc, filter, input, fed, torn>>

FInit == /\ buffer \in {[i \in 0 .. Size - 1 |-> CHOOSE b \in Byte : TRUE]}
         /\ head = 0 /\ tail = 0 /\ peek = 0 /\ count = 0 /\ peek_count = 0
         /\ pc = "idle" /\ tab = Default /\ j = 1 /\ k = 0 /\ result = "fail" /\ n = 0
         /\ input = <<>> /\ fed = <<>> /\ torn = FALSE

-----------------------------------------------------------------------------
(* A byte arrives.                                                         *)
_do_obj_runChar(b) ==
  /\ pc = "idle" /\ Len(input) < MaxInput
  /\ byteQueue_writeOne(b)
  /\ pc' = "loop"
  /\ input' = Append(input, b)
  /\ UNCHANGED <<filter, fed, torn>>

Drained == /\ pc = "loop" /\ peek_count = 0
           /\ pc' = "idle"
           /\ UNCHANGED <<queue, filter, input, fed, torn>>

(* _do_stream_filter begins with the table of the shell.                   *)
StreamFilter == /\ pc = "loop" /\ peek_count # 0
                /\ pc' = "msg" /\ tab' = Default /\ j' = 1 /\ result' = "fail" /\ n' = 0
                /\ UNCHANGED <<queue, k, input, fed, torn>>

(* The comparison with message j begins at the head of the queue.          *)
CompareFrom == /\ pc = "msg"
               /\ byteQueue_resetPeek
               /\ pc' = "cmp" /\ k' = 0
               /\ UNCHANGED <<tab, j, result, n, input, fed, torn>>

(* What a table that has no match makes of drop_count.                     *)
DropCountEager(r) == 1
DropCountNever(r) == 0
DropCount(r) == IF r = "fail" THEN 1 ELSE n

(* Message j does not match, with r the result so far: the next message,   *)
(* the table of the user, or the end of the filter.                        *)
NextMessage(r) ==
  IF j < Len(tab)
  THEN pc' = "msg" /\ j' = j + 1 /\ result' = r /\ UNCHANGED <<tab, n>>
  ELSE /\ n' = DropCount(r)
       /\ IF tab = Default /\ User # <<>>
          THEN pc' = "msg" /\ tab' = User /\ j' = 1 /\ result' = "fail"
          ELSE /\ pc' = IF n' = 0 THEN "idle" ELSE "read"
               /\ result' = r /\ UNCHANGED <<tab, j>>

Byte1 == tab[j].seq[k + 1]

Starve == /\ pc = "cmp" /\ PeekEmpty
          /\ NextMessage("none")
          /\ UNCHANGED <<queue, k, input, fed, torn>>

Differ == /\ pc = "cmp" /\ buffer[peek] \notin Byte1
          /\ byteQueue_peekOne
          /\ NextMessage(result)
          /\ UNCHANGED <<k, input, fed, torn>>

Agree == /\ pc = "cmp" /\ buffer[peek] \in Byte1
         /\ byteQueue_peekOne
         /\ k' = k + 1
         /\ IF k' < Len(tab[j].seq) THEN pc' = "cmp" /\ UNCHANGED n
            ELSE IF tab[j].visible
            THEN pc' = "read" /\ n' = byteQueue_getPeekedNumber'
            ELSE pc' = "drop" /\ UNCHANGED n
         /\ UNCHANGED <<tab, j, result, input, fed, torn>>

(* A complete message that is not visible; it ends the loop.               *)
Drop == /\ pc = "drop"
        /\ byteQueue_dropAllPeeked
        /\ pc' = "idle"
        /\ UNCHANGED <<filter, input, fed, torn>>

(* A byte goes to the editor, which may end the shell by it.               *)
PassOn == /\ pc = "read"
          /\ fed' = Append(fed, buffer[head])
          /\ byteQueue_readOne
          /\ n' = n - 1
          /\ \/ pc' = (IF n' = 0 THEN "loop" ELSE "read") /\ UNCHANGED torn
             \/ pc' = "idle" /\ torn' = (torn \/ n' # 0)
          /\ UNCHANGED <<tab, j, k, result, input>>

Finished == pc = "idle" /\ Len(input) = MaxInput /\ UNCHANGED fvars

FNext == \/ \E b \in Byte : _do_obj_runChar(b)
         \/ Drained \/ StreamFilter \/ CompareFrom \/ Starve \/ Differ \/ Agree
         \/ Drop \/ PassOn \/ Finished

FSpec == FInit /\ [][FNext]_fvars

-----------------------------------------------------------------------------
(* Every message fits the buffer, as those of the shell fit its            *)
(* PIKA_SHELL_FILTER_FIFO_SIZE bytes.                                      *)
MessagesFit == \A t \in {Default, User} : \A i \in DOMAIN t : Len(t[i].seq) <= Size

(* No bytes begin with two messages, so that the order of the table does   *)
(* not matter: so it is in g_default_filter_messages.                      *)
Unambiguous ==
  \A i, l \in DOMAIN Default :
    i # l => \E a \in DOMAIN Default[i].seq \cap DOMAIN Default[l].seq :
               Default[i].seq[a] \cap Default[l].seq[a] = {}

(* The reference: what the editor should get of the bytes s, read as a     *)
(* whole. A message at the front is left out or passed as a whole; a front *)
(* that may become one is held back; any other byte passes.                *)
Messages == {Default[i] : i \in DOMAIN Default} \cup {User[i] : i \in DOMAIN User}

Fits(m, s)   == \A i \in DOMAIN m.seq \cap DOMAIN s : s[i] \in m.seq[i]
IsHit(m, s)  == Len(m.seq) <= Len(s) /\ Fits(m, s)
IsHeld(m, s) == Len(m.seq) > Len(s) /\ Fits(m, s)

Hits(s)     == {m \in Messages : IsHit(m, s)}
Shortest(s) == CHOOSE m \in Hits(s) : \A o \in Hits(s) : Len(m.seq) <= Len(o.seq)
After(s, i) == SubSeq(s, i + 1, Len(s))

Passed[s \in Seq(Byte)] ==
  IF Hits(s) # {}
  THEN LET size == Len(Shortest(s).seq)
       IN  (IF Shortest(s).visible THEN SubSeq(s, 1, size) ELSE <<>>) \o Passed[After(s, size)]
  ELSE IF s = <<>> \/ \E m \in Messages : IsHeld(m, s) THEN <<>>
  ELSE <<s[1]>> \o Passed[After(s, 1)]

(* The bytes at the head of the queue that are to be passed on.            *)
decided == IF pc = "read" THEN n ELSE 0

(* What the editor has got, with what the queue still holds for it, is     *)
(* the input without its messages, whenever the editor ends the shell: the *)
(* byte-by-byte matching of _do_message_filter with its restarts loses,    *)
(* doubles and reorders nothing. (What is left of a torn message is read   *)
(* as new input.)                                                          *)
Filtered ==
  ~torn => fed \o SubSeq(Content, 1, decided) \o Passed[After(Content, decided)] = Passed[input]

(* byteQueue_writeOne never finds the queue full (pika_assert in           *)
(* _do_obj_runChar), with a buffer no longer than the longest message,     *)
(* also when the editor has left bytes in it.                              *)
RoomForByte == pc = "idle" => ~Full
=============================================================================
