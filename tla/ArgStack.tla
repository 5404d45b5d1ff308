------------------------------ MODULE ArgStack ------------------------------
(***************************************************************************)
(* The operand stack of a VM frame (dataStack.c) and the draining of it at *)
(* each new line (PikaVM.c). There are two buffers: the payload of         *)
(* stack_totle_size bytes, and the size array of a quarter of that, one    *)
(* int32_t for each entry. An arg in a register is copied into the         *)
(* payload; of an arg on the heap only the pointer is, with the size -1.   *)
(*                                                                         *)
(* An arg is a token; a byte of the payload holds the token whose copy or  *)
(* pointer it belongs to; bytes given back to the stack are forgotten, so  *)
(* that reading one again shows. rc[t] is what the arg t adds to the       *)
(* reference count of its object.                                          *)
(***************************************************************************)
EXTENDS Integers, Sequences

CONSTANTS Tok,      \* the args
          Width,    \* arg_getTotleSize of each, aligned
          Total,    \* stack_totle_size
          PtrSize,  \* sizeof(Arg* )
          CountMod, \* 2^8: solveUnusedStack counts in a uint8_t
          NULL, Junk  \* no arg, and what is read where there is none

ASSUME StackAssumption ==
  /\ Total \in Nat /\ Total >= 16
  /\ PtrSize \in Nat \ {0}
  /\ Width \in [Tok -> Nat \ {0}]
  /\ CountMod \in Nat /\ Total <= 16 * CountMod
  /\ NULL \notin Tok /\ Junk \notin Tok /\ NULL # Junk

VARIABLES size_array, sp_size,  \* the sizes, and the index of the next one
          payload, sp,          \* the bytes, and the index of the next one
          top,
          phase,   \* "run", "walk" and "seen" (stack_checkArg), "solve" (end of line), "halt"
          walk,    \* the locals of stack_checkArg
          left,    \* args solveUnusedStack has still to pop
          hand,    \* the args the instructions hold: "no", "reg", "heap"
          rc,
          got,     \* what stack_checkArg has returned, until it was used
          base     \* history: where in the payload each entry starts

buffers == <<size_array, sp_size, payload, sp, top>>
svars == <<buffers, phase, walk, left, hand, rc, got, base>>

(* The entries the size array has room for.                                *)
Cap == (Total \div 4) \div 4

NoWalk == [i |-> 1, index |-> 0, off |-> 0, size |-> 0]

StackInit ==
  /\ size_array = [i \in 0 .. Cap - 1 |-> 0] /\ sp_size = 0
  /\ payload = [b \in 0 .. Total - 1 |-> NULL] /\ sp = 0
  /\ top = 0
  /\ phase = "run" /\ walk = NoWalk /\ left = 0
  /\ hand = [t \in Tok |-> "no"] /\ rc = [t \in Tok |-> 0]
  /\ got = NULL /\ base = <<>>

(* Bytes an entry of size s takes in the payload.                          *)
Bytes(s) == IF s = -1 THEN PtrSize ELSE s

(* The arg in the n bytes from o on, as a copy or by its pointer.          *)
ReadArg(o, n) ==
  IF \E t \in Tok : \A b \in o .. o + n - 1 : b \in DOMAIN payload /\ payload[b] = t
  THEN payload[o] ELSE Junk

(* stack_spSizeFree() < sizeof(int32_t) with n sizes: the difference is    *)
(* unsigned, a negative one would look large.                              *)
SizesFullLate(n) == Total \div 4 - 4 * n < 0
SizesFull(n) == Total \div 4 - 4 * n \in 0 .. 3

Entry(i) == ReadArg(base[i], Bytes(size_array[i - 1]))
Stacked == {Entry(i) : i \in DOMAIN base}

-----------------------------------------------------------------------------
(* An instruction makes an arg, in a register or on the heap, that owns    *)
(* one reference; and gives one up (arg_deinit).                           *)
Obtain(t, form) ==
  /\ phase = "run" /\ hand[t] = "no" /\ t \notin Stacked
  /\ hand' = [hand EXCEPT ![t] = form]
  /\ rc' = [rc EXCEPT ![t] = 1]
  /\ UNCHANGED <<buffers, phase, walk, left, got, base>>

Discard(t) ==
  /\ phase = "run" /\ hand[t] # "no"
  /\ hand' = [hand EXCEPT ![t] = "no"]
  /\ rc' = [rc EXCEPT ![t] = @ - 1]
  /\ UNCHANGED <<buffers, phase, walk, left, got, base>>

(* stack_pushSize: the room is checked after the write.                    *)
PushedSize(t) == IF hand[t] = "heap" THEN -1 ELSE Width[t]
NoRoom(t) == \/ SizesFull(sp_size + 1)
             \/ Bytes(PushedSize(t)) + sp > Total

stack_pushSize(t) ==
  /\ top' = top + 1
  /\ size_array' = [size_array EXCEPT ![sp_size] = PushedSize(t)]
  /\ sp_size' = sp_size + 1

(* _stack_pushArg: the stack takes a reference; a register gives its own   *)
(* up, an arg on the heap keeps its own.                                   *)
stack_pushArg(t) ==
  /\ phase = "run" /\ hand[t] # "no" /\ ~NoRoom(t)
  /\ stack_pushSize(t)
  /\ payload' = [b \in DOMAIN payload |->
                   IF b \in sp .. sp + Bytes(PushedSize(t)) - 1 THEN t ELSE payload[b]]
  /\ sp' = sp + Bytes(PushedSize(t))
  /\ hand' = [hand EXCEPT ![t] = "no"]
  /\ rc' = IF hand[t] = "heap" THEN [rc EXCEPT ![t] = @ + 1] ELSE rc
  /\ base' = Append(base, sp)
  /\ UNCHANGED <<phase, walk, left, got>>

(* _stack_overflow_handler never returns.                                  *)
Overflow(t) ==
  /\ phase = "run" /\ hand[t] # "no" /\ NoRoom(t)
  /\ stack_pushSize(t)
  /\ rc' = [rc EXCEPT ![t] = @ + 1]
  /\ phase' = "halt"
  /\ UNCHANGED <<payload, sp, walk, left, hand, got, base>>

(* stack_popSize, stack_popPyload: the entry that is popped.               *)
TopSize == size_array[sp_size - 1]
TopArg  == ReadArg(sp - Bytes(TopSize), Bytes(TopSize))
Kept(n) == [b \in DOMAIN payload |-> IF b < n THEN payload[b] ELSE NULL]
PopEntry == /\ top' = top - 1
            /\ sp_size' = sp_size - 1
            /\ sp' = sp - Bytes(TopSize)
            /\ base' = SubSeq(base, 1, Len(base) - 1)
            /\ payload' = Kept(sp - Bytes(TopSize))
            /\ UNCHANGED size_array

(* _stack_popArg of a stack that is not empty (else it changes nothing and *)
(* returns NULL). alloc: stack_popArg_alloc, or a register too small. A    *)
(* copy takes a reference, then the stack gives its own up.                *)
stack_popArg(alloc) ==
  /\ phase = "run" /\ top # 0
  /\ PopEntry
  /\ hand' = [hand EXCEPT ![TopArg] = IF TopSize = -1 \/ alloc THEN "heap" ELSE "reg"]
  /\ rc' = IF TopSize = -1 THEN [rc EXCEPT ![TopArg] = @ - 1] ELSE rc
  /\ UNCHANGED <<phase, walk, left, got>>

-----------------------------------------------------------------------------
(* stack_checkArg: the sizes are summed up from the top down.              *)
WalkBytesWord(size) == IF size = -1 THEN 1 ELSE size
WalkBytes(size) == IF size = -1 THEN PtrSize ELSE size

CheckStart(index) == /\ phase = "run" /\ top - index > 0
                     /\ phase' = "walk"
                     /\ walk' = [i |-> 1, index |-> index, off |-> 0, size |-> 0]
                     /\ UNCHANGED <<buffers, left, hand, rc, got, base>>

CheckStep == LET size == size_array[sp_size - walk.i]
             IN  /\ phase = "walk" /\ walk.i <= walk.index + 1
                 /\ walk' = [i |-> walk.i + 1, index |-> walk.index,
                              off |-> walk.off - WalkBytes(size), size |-> size]
                 /\ UNCHANGED <<buffers, phase, left, hand, rc, got, base>>

CheckEnd == /\ phase = "walk" /\ walk.i > walk.index + 1
            /\ got' = ReadArg(sp + walk.off, Bytes(walk.size))
            /\ phase' = "seen" /\ walk' = NoWalk
            /\ UNCHANGED <<buffers, left, hand, rc, base>>

CheckUsed == /\ phase = "seen"
             /\ phase' = "run" /\ got' = NULL
             /\ UNCHANGED <<buffers, walk, left, hand, rc, base>>

-----------------------------------------------------------------------------
(* A new line, or the end of the frame: PikaVMFrame_solveUnusedStack pops  *)
(* and releases what is left, then stack_reset (or stack_deinit, whose     *)
(* loop finds nothing) starts from empty buffers.                          *)
DrainCountShort == IF top = 0 THEN 0 ELSE (top - 1) % CountMod
DrainCount == top % CountMod

NewLine == /\ phase = "run"
           /\ phase' = "solve" /\ left' = DrainCount
           /\ UNCHANGED <<buffers, walk, hand, rc, got, base>>

SolveStep == /\ phase = "solve" /\ left > 0
             /\ PopEntry
             /\ left' = left - 1
             /\ rc' = [rc EXCEPT ![TopArg] = IF TopSize = -1 THEN @ - 2 ELSE @ - 1]
             /\ UNCHANGED <<phase, walk, hand, got>>

stack_reset == /\ phase = "solve" /\ left = 0
               /\ sp' = 0 /\ sp_size' = 0 /\ top' = 0
               /\ payload' = Kept(0)
               /\ phase' = "run" /\ base' = <<>>
               /\ UNCHANGED <<size_array, walk, left, hand, rc, got>>

StackNext ==
  \/ \E t \in Tok : \/ \E form \in {"reg", "heap"} : Obtain(t, form)
                    \/ Discard(t) \/ stack_pushArg(t) \/ Overflow(t)
  \/ \E alloc \in BOOLEAN : stack_popArg(alloc)
  \/ \E index \in 0 .. Cap : CheckStart(index)
  \/ CheckStep \/ CheckEnd \/ CheckUsed \/ NewLine \/ SolveStep \/ stack_reset

StackSpec == StackInit /\ [][StackNext]_svars

-----------------------------------------------------------------------------
(* Both buffers are used within their bounds: there is room for the size   *)
(* that is written before stack_pushSize looks, whatever the two buffers'  *)
(* rates of filling, and the entries cover the payload up to sp without    *)
(* gap or overlap, each still holding one arg.                             *)
BuffersSafe ==
  /\ phase # "halt" => sp_size < Cap
  /\ sp_size <= Cap /\ sp <= Total
  /\ IF Len(base) = 0 THEN sp = 0 ELSE base[1] = 0
  /\ \A i \in DOMAIN base :
       /\ Entry(i) \in Tok
       /\ base[i] + Bytes(size_array[i - 1]) = IF i = Len(base) THEN sp ELSE base[i + 1]

(* The references an arg owns: one in hand, one as a copy on the stack,    *)
(* two as a pointer on it (its own and the stack's), none once it is gone. *)
(* A line that ends, with its counter of 8 bits, forgets none.             *)
RefsBalanced ==
  phase # "halt" =>
    \A t \in Tok :
      rc[t] = IF hand[t] # "no" THEN 1
              ELSE IF \E i \in DOMAIN base : Entry(i) = t /\ size_array[i - 1] = -1 THEN 2
              ELSE IF t \in Stacked THEN 1 ELSE 0

(* What is read out of the two buffers is what a stack would give.         *)
Listed  == [i \in 1 .. Len(base) |-> Entry(i)]
Holding == {t \in Tok : hand[t] # "no"}
Stopped == phase = "halt"
Lifo == INSTANCE ArgLifo WITH lifo <- Listed, holding <- Holding, stopped <- Stopped
IsLifo == Lifo!Spec
=============================================================================
