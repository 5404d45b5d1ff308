----------------------------- MODULE ArgRuntime -----------------------------
(***************************************************************************)
(* The operand stack with the cells of the args on it: which steps of the  *)
(* stack allocate a cell (a pop that copies), which free one (releasing an *)
(* arg, draining a line) and which only pass a pointer on. Besides, args   *)
(* on the heap grow (arg_append) or get new content (arg_setContent).      *)
(***************************************************************************)
EXTENDS ArgStack, ArgCells

CONSTANTS Extras,     \* bound: by how much an arg is extended
          Sizes,      \* bound: sizes an arg is set to
          MaxContent  \* bound: bytes of content an arg is extended to

(* Sizes are unsigned, and the size of an arg is that of its header and of *)
(* its content (arg_getTotleSize).                                         *)
ASSUME RuntimeAssumption ==
  /\ Extras \subseteq Nat /\ Sizes \subseteq Nat
  /\ \A t \in Tok : Width[t] >= ArgSize

VARIABLE cellOf  \* the cell of an arg on the heap, 0 if it has none

vars == <<svars, mem, cellOf>>

Content(t) == Width[t] - ArgSize

Init == StackInit /\ MemInit /\ cellOf = [t \in Tok |-> 0]

NewAt(t) == \E a \in Places(mem, Content(t)) :
              /\ mem' = NewCell(mem, a, Content(t))
              /\ cellOf' = [cellOf EXCEPT ![t] = a]
Release(t) == /\ mem' = FreeCell(mem, cellOf[t])
              /\ cellOf' = [cellOf EXCEPT ![t] = 0]
SameCells == UNCHANGED <<mem, cellOf>>

ObtainHeap(t) == Obtain(t, "heap") /\ NewAt(t)
ObtainReg(t)  == Obtain(t, "reg") /\ SameCells

(* arg_deinit: a register has no cell.                                     *)
DiscardHeap(t) == Discard(t) /\ hand[t] = "heap" /\ Release(t)
DiscardReg(t)  == Discard(t) /\ hand[t] = "reg" /\ SameCells

PushFrees(t) == /\ stack_pushArg(t)
                /\ mem' = IF hand[t] = "heap" THEN FreeCell(mem, cellOf[t]) ELSE mem
                /\ UNCHANGED cellOf
Push(t) == (stack_pushArg(t) \/ Overflow(t)) /\ SameCells

(* stack_popArg_alloc copies an entry of the payload into a new cell.      *)
PopCopy == stack_popArg(TRUE) /\ TopSize # -1 /\ NewAt(TopArg)
PopSame == /\ \/ stack_popArg(FALSE)
              \/ stack_popArg(TRUE) /\ TopSize = -1
           /\ SameCells

Look == /\ \/ \E index \in 0 .. Cap : CheckStart(index)
           \/ CheckStep \/ CheckEnd \/ CheckUsed \/ NewLine \/ stack_reset
        /\ SameCells

(* solveUnusedStack pops with a copy and releases the copy.                *)
SolveCopy == /\ SolveStep /\ TopSize # -1
             /\ \E a \in Places(mem, Content(TopArg)) :
                  mem' = FreeCell(NewCell(mem, a, Content(TopArg)), a)
             /\ UNCHANGED cellOf
SolveBig  == SolveStep /\ TopSize = -1 /\ Release(TopArg)

(* A new cell with the content of the old one, which is then freed.        *)
Moved(t, size) == \E a \in Places(mem, size) :
                    /\ mem' = FreeCell(NewCell(mem, a, size), cellOf[t])
                    /\ cellOf' = [cellOf EXCEPT ![t] = a]

InHeap(t) == phase = "run" /\ hand[t] = "heap"
SizeOf(t) == mem.cell[cellOf[t]].size

arg_append(t, extra) ==
  /\ InHeap(t) /\ SizeOf(t) + extra <= MaxContent
  /\ IF InPlace(mem, cellOf[t], extra)
     THEN mem' = Grown(mem, cellOf[t], extra) /\ UNCHANGED cellOf
     ELSE Moved(t, SizeOf(t) + extra)
  /\ UNCHANGED svars

(* Only a larger content moves the arg.                                    *)
arg_setContent(t, size) ==
  /\ InHeap(t) /\ SizeOf(t) < size
  /\ Moved(t, size)
  /\ UNCHANGED svars

Next == \/ \E t \in Tok : \/ ObtainHeap(t) \/ ObtainReg(t)
                          \/ DiscardHeap(t) \/ DiscardReg(t) \/ Push(t)
                          \/ \E extra \in Extras : arg_append(t, extra)
                          \/ \E size \in Sizes : arg_setContent(t, size)
        \/ PopCopy \/ PopSame \/ Look \/ SolveCopy \/ SolveBig

Spec == Init /\ [][Next]_vars

-----------------------------------------------------------------------------
OnHeap(t) == \/ hand[t] = "heap"
             \/ \E i \in DOMAIN base : Entry(i) = t /\ size_array[i - 1] = -1

(* The live cells are those of the args on the heap, in hand or pointed to *)
(* from the stack, one each: no pointer on the stack dangles while the     *)
(* cells below it are freed, cached and given out again, and no cell is    *)
(* forgotten.                                                              *)
ArgsOwnCells ==
  /\ LiveCells(mem) = {cellOf[t] : t \in {u \in Tok : OnHeap(u)}}
  /\ \A t, u \in Tok : OnHeap(t) /\ OnHeap(u) /\ t # u => cellOf[t] # cellOf[u]
=============================================================================
