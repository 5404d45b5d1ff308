-------------------------- MODULE ArgRuntimeProofs --------------------------
(***************************************************************************)
(* Proofs about the operand stack, for every buffer size and every set of  *)
(* args: both buffers stay within their bounds, every reference is         *)
(* accounted for, and what is read back is what a stack would give.        *)
(*                                                                         *)
(* The operand stack together with the cells of its args is still the      *)
(* operand stack: what the first half proves of the stack alone holds of   *)
(* the composition, wherever the allocator puts the cells.                 *)
(*                                                                         *)
(* The cells, in turn, stay apart and owned by the args on the heap. The   *)
(* invariant (MemInv, Own) says where a cell may be larger than what it is *)
(* used for: only if it came from the cache, so its allocation is one of   *)
(* the cache's sizes. That is what makes a cell from the cache large       *)
(* enough, and a block lost only when the cache is full.                   *)
(***************************************************************************)
EXTENDS ArgRuntime, Recursion, FiniteSetTheorems, TLAPS

(* Bytes, and first arg, of the i-th entry.                                *)
W(i) == Bytes(size_array[i - 1])
T(i) == payload[base[i]]
Entries == 1 .. Len(base)

Types ==
  /\ size_array \in [0 .. Cap - 1 -> Int] /\ sp_size \in Nat
  /\ payload \in [0 .. Total - 1 -> Tok \cup {NULL}] /\ sp \in 0 .. Total
  /\ top \in Nat /\ left \in Nat
  /\ phase \in {"run", "walk", "seen", "solve", "halt"}
  /\ walk \in [i : Nat, index : Nat, off : Int, size : Int]
  /\ hand \in [Tok -> {"no", "reg", "heap"}] /\ rc \in [Tok -> Int]
  /\ base \in Seq(Nat)

(* The counters agree with the number of entries.                          *)
Counts ==
  /\ Len(base) < Cap
  /\ sp_size = IF phase = "halt" THEN Len(base) + 1 ELSE Len(base)
  /\ phase # "halt" => top = Len(base)
  /\ phase = "solve" => left = Len(base)

(* The entries follow each other in the payload up to sp.                  *)
Layout ==
  /\ IF Len(base) = 0 THEN sp = 0 ELSE base[1] = 0
  /\ \A i \in Entries : /\ base[i] \in 0 .. Total - 1
                        /\ W(i) \in Nat \ {0}
                        /\ base[i] + W(i) <= sp
                        /\ base[i] + W(i) = IF i = Len(base) THEN sp ELSE base[i + 1]
  /\ \A i, j \in Entries : i < j => base[i] + W(i) <= base[j]

(* Each entry holds one arg, each arg is in one place.                     *)
Args ==
  /\ \A i \in Entries : /\ T(i) \in Tok
                        /\ \A b \in base[i] .. base[i] + W(i) - 1 : payload[b] = T(i)
                        /\ hand[T(i)] = "no"
  /\ \A i, j \in Entries : i # j => T(i) # T(j)

Refs ==
  phase # "halt" =>
    /\ \A t \in Tok : hand[t] # "no" => rc[t] = 1
    /\ \A i \in Entries : rc[T(i)] = IF size_array[i - 1] = -1 THEN 2 ELSE 1
    /\ \A t \in Tok : hand[t] = "no" /\ (\A i \in Entries : T(i) # t) => rc[t] = 0

(* stack_checkArg has come down to the entry it summed up last.            *)
Walk ==
  phase = "walk" =>
    /\ walk.i \in 1 .. walk.index + 2 /\ walk.index < Len(base)
    /\ sp + walk.off = IF walk.i = 1 THEN sp ELSE base[Len(base) - walk.i + 2]
    /\ walk.i > 1 => walk.size = size_array[Len(base) - walk.i + 1]

Inv == Types /\ Counts /\ Layout /\ Args /\ Refs /\ Walk

-----------------------------------------------------------------------------
(* Reading an entry gives the arg it holds.                                *)
LEMMA EntryIs ==
  ASSUME Types, Layout, Args, NEW i \in Entries
  PROVE  Entry(i) = T(i) /\ Entry(i) \in Tok
<1>1. /\ base[i] \in 0 .. Total - 1 /\ W(i) \in Nat \ {0} /\ base[i] + W(i) <= sp
      /\ T(i) \in Tok /\ \A b \in base[i] .. base[i] + W(i) - 1 : payload[b] = T(i)
  BY DEF Layout, Args
<1>2. sp \in 0 .. Total /\ DOMAIN payload = 0 .. Total - 1 /\ Total \in Nat
  BY StackAssumption DEF Types
<1>3. \A b \in base[i] .. base[i] + W(i) - 1 : b \in DOMAIN payload /\ payload[b] = T(i)
  BY <1>1, <1>2
<1>4. \E t \in Tok : \A b \in base[i] .. base[i] + W(i) - 1 :
                       b \in DOMAIN payload /\ payload[b] = t
  BY <1>1, <1>3
<1>5. ReadArg(base[i], W(i)) = payload[base[i]]
  BY <1>4 DEF ReadArg
<1>6. QED
  BY <1>1, <1>5 DEF Entry, W, T

(* The entry a pop reads is the last one.                                  *)
LEMMA TopIs ==
  ASSUME Inv, phase # "halt", Len(base) # 0
  PROVE  /\ Len(base) \in Entries /\ TopSize = size_array[Len(base) - 1]
         /\ sp - Bytes(TopSize) = base[Len(base)]
         /\ TopArg = T(Len(base)) /\ TopArg \in Tok
<1>1. Len(base) \in Nat /\ sp_size = Len(base)
  BY DEF Inv, Types, Counts
<1>2. Len(base) \in Entries
  BY <1>1 DEF Entries
<1>3. TopSize = size_array[Len(base) - 1]
  BY <1>1 DEF TopSize
<1>4. base[Len(base)] + W(Len(base)) = sp /\ base[Len(base)] \in Int /\ W(Len(base)) \in Int
  BY <1>2 DEF Inv, Layout
<1>5. sp - Bytes(TopSize) = base[Len(base)]
  BY <1>3, <1>4 DEF W
<1>6. TopArg = Entry(Len(base))
  BY <1>3, <1>5 DEF TopArg, Entry
<1>7. QED
  BY <1>2, <1>3, <1>5, <1>6, EntryIs DEF Inv

(* uint8_t: a count below the modulus survives it.                        *)
LEMMA ModSmall == \A n, m \in Nat : n < m => n % m = n
  OBVIOUS

(* The size array has room for an entry, and for no more of them than      *)
(* solveUnusedStack can count.                                             *)
LEMMA CapBounds == Cap \in Nat /\ Cap >= 1 /\ Cap <= CountMod /\ Total \in Nat /\ CountMod \in Nat
  BY StackAssumption DEF Cap

(* A size that leaves room for another one.                                *)
LEMMA RoomLeft == \A n \in Nat : n < Cap /\ ~SizesFull(n + 1) => n + 1 < Cap
  BY StackAssumption DEF Cap, SizesFull

-----------------------------------------------------------------------------
(* An empty stack (stack_init) has no entry and no reference.              *)
LEMMA InitInv == StackInit => Inv
<1> SUFFICES ASSUME StackInit PROVE Inv
  OBVIOUS
<1>1. Len(base) = 0 /\ base \in Seq(Nat) /\ Entries = {}
  BY DEF StackInit, Entries
<1>2. Types
  BY <1>1, CapBounds DEF Types, StackInit, NoWalk
<1>3. Counts /\ Layout /\ Args /\ Refs /\ Walk
  BY <1>1, CapBounds DEF Counts, Layout, Args, Refs, Walk, StackInit
<1>4. QED
  BY <1>2, <1>3 DEF Inv

(* What a step leaves of the entries if it leaves the buffers alone.       *)
LEMMA SameBuffers ==
  ASSUME Inv, UNCHANGED <<buffers, base>>
  PROVE  /\ Layout' /\ Entries' = Entries
         /\ \A i : T(i)' = T(i) /\ W(i)' = W(i)
  BY DEF Inv, Layout, Entries, T, W, Bytes, buffers

(* Making and releasing an arg touches no entry.                           *)
LEMMA HandSteps ==
  ASSUME Inv, NEW t \in Tok, NEW form \in {"reg", "heap"}, Obtain(t, form) \/ Discard(t)
  PROVE  Inv'
<1> USE DEF Inv
<1>1. UNCHANGED <<buffers, phase, walk, left, base>> /\ phase = "run"
  BY DEF Obtain, Discard
<1>2. Layout' /\ Entries' = Entries /\ (\A i : T(i)' = T(i) /\ W(i)' = W(i))
  BY <1>1, SameBuffers
<1>3. Types'
  BY <1>1 DEF Types, Obtain, Discard, buffers
<1>4. Counts' /\ Walk'
  BY <1>1 DEF Counts, Walk, buffers
<1>5. \A i \in Entries : T(i) \in Tok /\ T(i) # t
  <2> TAKE i \in Entries
  <2>1. Entry(i) = T(i) /\ T(i) \in Tok /\ hand[T(i)] = "no"
    BY EntryIs DEF Args
  <2>2. CASE Obtain(t, form)
    <3>1. i \in DOMAIN base
      BY DEF Entries, Types
    <3>2. QED
      BY <2>1, <2>2, <3>1 DEF Obtain, Stacked
  <2>3. CASE Discard(t)
    BY <2>1, <2>3 DEF Discard
  <2> QED
    BY <2>2, <2>3
<1>6. Args'
  <2>1. \A i \in Entries : hand'[T(i)] = hand[T(i)]
    BY <1>5 DEF Types, Obtain, Discard
  <2> QED
    BY <1>1, <1>2, <2>1 DEF Args, buffers
<1>7. Refs'
  <2>1. \A u \in Tok : u # t => hand'[u] = hand[u] /\ rc'[u] = rc[u]
    BY DEF Types, Obtain, Discard
  <2>2. \/ hand'[t] # "no" /\ rc'[t] = 1
        \/ hand'[t] = "no" /\ rc'[t] = 0
    BY <1>1 DEF Types, Refs, Obtain, Discard
  <2> QED
    BY <1>1, <1>2, <1>5, <2>1, <2>2 DEF Refs, buffers
<1> QED
  BY <1>2, <1>3, <1>4, <1>6, <1>7

(* What stack_pushArg makes of the entries: one more, the others as they   *)
(* were, since it writes behind sp.                                        *)
LEMMA PushEntries ==
  ASSUME Inv, NEW t \in Tok, stack_pushArg(t), NEW n, n = Len(base)
  PROVE  /\ base' \in Seq(Nat) /\ Len(base') = n + 1
         /\ Entries' = Entries \cup {n + 1} /\ n + 1 \notin Entries
         /\ \A i \in Entries : /\ base'[i] = base[i] /\ size_array'[i - 1] = size_array[i - 1]
                               /\ W(i)' = W(i) /\ T(i)' = T(i)
         /\ base'[n + 1] = sp /\ size_array'[n] = PushedSize(t)
         /\ W(n + 1)' = Bytes(PushedSize(t)) /\ T(n + 1)' = t
         /\ Bytes(PushedSize(t)) \in Nat \ {0} /\ sp + Bytes(PushedSize(t)) <= Total
         /\ size_array' \in [0 .. Cap - 1 -> Int] /\ n + 1 < Cap
<1> USE DEF Inv
<1>1. Len(base) \in Nat /\ base \in Seq(Nat) /\ sp \in 0 .. Total /\ Total \in Nat /\ phase = "run"
  BY CapBounds DEF Types, stack_pushArg
<1>2. base' = Append(base, sp)
  BY DEF stack_pushArg
<1>3. /\ base' \in Seq(Nat) /\ Len(base') = n + 1
      /\ \A i \in 1 .. Len(base) : base'[i] = base[i]
      /\ base'[n + 1] = sp
  BY <1>1, <1>2
<1>4. Entries' = Entries \cup {n + 1} /\ n + 1 \notin Entries
  BY <1>1, <1>3 DEF Entries
<1>5. PushedSize(t) \in Int /\ Bytes(PushedSize(t)) \in Nat \ {0}
  BY StackAssumption DEF PushedSize, Bytes, Types
<1>6. sp + Bytes(PushedSize(t)) <= Total /\ sp_size = n /\ n + 1 < Cap
  <2>1. ~SizesFull(sp_size + 1) /\ ~(Bytes(PushedSize(t)) + sp > Total)
    BY DEF stack_pushArg, NoRoom
  <2>2. sp_size = n /\ n < Cap
    BY <1>1 DEF Counts
  <2> QED
    BY <1>1, <1>5, <2>1, <2>2, RoomLeft
<1>7. size_array' = [size_array EXCEPT ![n] = PushedSize(t)]
  BY <1>6 DEF stack_pushArg, stack_pushSize
<1>8. /\ size_array' \in [0 .. Cap - 1 -> Int] /\ size_array'[n] = PushedSize(t)
      /\ \A i \in Entries : size_array'[i - 1] = size_array[i - 1]
  <2>1. size_array \in [0 .. Cap - 1 -> Int] /\ n \in 0 .. Cap - 1
    BY <1>1, <1>6, CapBounds DEF Types
  <2>2. \A i \in Entries : i - 1 \in 0 .. Cap - 1 /\ i - 1 # n
    BY <1>1, <1>6, CapBounds DEF Entries
  <2> QED
    BY <1>5, <1>7, <2>1, <2>2
<1>9. \A b \in 0 .. Total - 1 :
        payload'[b] = IF b \in sp .. sp + Bytes(PushedSize(t)) - 1 THEN t ELSE payload[b]
  BY DEF stack_pushArg, Types
<1>10. \A i \in Entries : T(i)' = T(i)
  <2> TAKE i \in Entries
  <2>1. base[i] \in 0 .. Total - 1 /\ base[i] < sp
    BY <1>1 DEF Layout
  <2>2. payload'[base[i]] = payload[base[i]]
    BY <1>1, <1>9, <2>1
  <2> QED
    BY <1>3, <2>2 DEF T, Entries
<1>11. T(n + 1)' = t
  <2>1. sp \in 0 .. Total - 1 /\ sp \in sp .. sp + Bytes(PushedSize(t)) - 1
    BY <1>1, <1>5, <1>6
  <2>2. payload'[sp] = t
    BY <1>9, <2>1
  <2> QED
    BY <1>3, <2>2 DEF T
<1>12. \A i \in Entries : W(i)' = W(i)
  BY <1>8 DEF W, Bytes
<1>13. W(n + 1)' = Bytes(PushedSize(t))
  BY <1>1, <1>3, <1>8 DEF W, Bytes
<1> QED
  BY <1>3, <1>4, <1>5, <1>6, <1>8, <1>10, <1>11, <1>12, <1>13 DEF Entries

(* stack_pushArg: the new entry lies behind the others, and the arg moves  *)
(* from the hand into it with the references it owns.                      *)
LEMMA PushInv ==
  ASSUME Inv, NEW t \in Tok, stack_pushArg(t)
  PROVE  Inv'
<1> DEFINE n == Len(base)
           w == Bytes(PushedSize(t))
<1>e. /\ base' \in Seq(Nat) /\ Len(base') = n + 1
      /\ Entries' = Entries \cup {n + 1} /\ n + 1 \notin Entries
      /\ \A i \in Entries : /\ base'[i] = base[i] /\ size_array'[i - 1] = size_array[i - 1]
                            /\ W(i)' = W(i) /\ T(i)' = T(i)
      /\ base'[n + 1] = sp /\ size_array'[n] = PushedSize(t)
      /\ w \in Nat \ {0} /\ sp + w <= Total
      /\ size_array' \in [0 .. Cap - 1 -> Int] /\ n + 1 < Cap
  BY PushEntries
<1>l. \A k : k = n + 1 => W(k)' = w /\ T(k)' = t
  BY PushEntries
<1> USE DEF Inv
<1>1. /\ n \in Nat /\ sp \in 0 .. Total /\ Total \in Nat /\ phase = "run" /\ phase' = "run"
      /\ sp' = sp + w /\ hand[t] # "no" /\ hand' = [hand EXCEPT ![t] = "no"]
      /\ payload' = [b \in DOMAIN payload |-> IF b \in sp .. sp + w - 1 THEN t ELSE payload[b]]
      /\ rc' = IF hand[t] = "heap" THEN [rc EXCEPT ![t] = @ + 1] ELSE rc
  BY CapBounds DEF Types, stack_pushArg
<1>2. Entries = 1 .. n /\ \A i \in Entries' : i \in Entries \/ i = n + 1
  BY <1>e DEF Entries
<1> HIDE DEF n, w
<1>3. Types'
  <2>1. sp_size' \in Nat /\ top' \in Nat /\ left' \in Nat /\ walk' = walk
    BY DEF stack_pushArg, stack_pushSize, Types
  <2>2. payload' \in [0 .. Total - 1 -> Tok \cup {NULL}]
    BY <1>1 DEF Types
  <2>3. sp' \in 0 .. Total
    BY <1>1, <1>e
  <2>4. hand' \in [Tok -> {"no", "reg", "heap"}] /\ rc' \in [Tok -> Int]
    BY <1>1 DEF Types
  <2> QED
    BY <1>1, <1>e, <2>1, <2>2, <2>3, <2>4 DEF Types
<1>4. Counts'
  <2>1. sp_size = n /\ top = n
    BY <1>1 DEF Counts, n
  <2>2. sp_size' = n + 1 /\ top' = n + 1
    BY <2>1 DEF stack_pushArg, stack_pushSize
  <2> QED
    BY <1>1, <1>e, <2>2 DEF Counts
<1>5. Layout'
  <2>1. \A i \in Entries : /\ base[i] \in 0 .. Total - 1 /\ W(i) \in Nat \ {0}
                           /\ base[i] + W(i) <= sp
                           /\ base[i] + W(i) = IF i = n THEN sp ELSE base[i + 1]
    BY DEF Layout, n
  <2>2. \A i \in Entries' : /\ base'[i] \in 0 .. Total - 1 /\ W(i)' \in Nat \ {0}
                            /\ base'[i] + W(i)' <= sp'
    <3> TAKE i \in Entries'
    <3>1. CASE i \in Entries
      BY <1>1, <1>e, <2>1, <3>1
    <3>2. CASE i = n + 1
      BY <1>1, <1>e, <1>l, <3>2
    <3> QED
      BY <1>2, <3>1, <3>2
  <2>3. \A i \in Entries' : base'[i] + W(i)' = IF i = n + 1 THEN sp' ELSE base'[i + 1]
    <3> TAKE i \in Entries'
    <3>1. CASE i = n + 1
      BY <1>1, <1>e, <1>l, <3>1
    <3>2. CASE i \in Entries /\ i = n
      BY <1>1, <1>2, <1>e, <2>1, <3>2
    <3>3. CASE i \in Entries /\ i # n
      <4>1. i + 1 \in Entries /\ i # n + 1
        BY <1>1, <1>2, <3>3
      <4> QED
        BY <1>e, <2>1, <3>3, <4>1
    <3> QED
      BY <1>2, <3>1, <3>2, <3>3
  <2>4. \A i, j \in Entries' : i < j => base'[i] + W(i)' <= base'[j]
    <3> SUFFICES ASSUME NEW i \in Entries', NEW j \in Entries', i < j
                 PROVE  base'[i] + W(i)' <= base'[j]
      OBVIOUS
    <3>1. i \in Entries
      BY <1>1, <1>2
    <3>2. CASE j \in Entries
      BY <1>e, <3>1, <3>2 DEF Layout
    <3>3. CASE j = n + 1
      BY <1>e, <2>1, <3>1, <3>3
    <3> QED
      BY <1>2, <3>2, <3>3
  <2>5. base'[1] = 0
    <3>1. CASE n = 0
      BY <1>1, <1>e, <3>1 DEF Layout, n
    <3>2. CASE n # 0
      BY <1>1, <1>2, <1>e, <3>2 DEF Layout, n
    <3> QED
      BY <3>1, <3>2
  <2> QED
    BY <1>1, <1>e, <2>2, <2>3, <2>4, <2>5 DEF Layout
<1>6. \A i \in Entries : T(i) \in Tok /\ T(i) # t
  BY <1>1 DEF Args
<1>7. Args'
  <2>1. \A i \in Entries' : T(i)' \in Tok /\ hand'[T(i)'] = "no"
    BY <1>1, <1>2, <1>e, <1>l, <1>6 DEF Args, Types
  <2>2. \A i, j \in Entries' : i # j => T(i)' # T(j)'
    BY <1>2, <1>e, <1>l, <1>6 DEF Args
  <2>3. \A i \in Entries' : \A b \in base'[i] .. base'[i] + W(i)' - 1 : payload'[b] = T(i)'
    <3> SUFFICES ASSUME NEW i \in Entries', NEW b \in base'[i] .. base'[i] + W(i)' - 1
                 PROVE  payload'[b] = T(i)'
      OBVIOUS
    <3>d. DOMAIN payload = 0 .. Total - 1
      BY DEF Types
    <3>1. CASE i \in Entries
      <4>1. b \in base[i] .. base[i] + W(i) - 1
        BY <1>e, <3>1
      <4>2. b \in 0 .. Total - 1 /\ b < sp
        BY <1>1, <3>1, <4>1 DEF Layout
      <4>3. payload'[b] = payload[b]
        BY <1>1, <3>d, <4>2
      <4> QED
        BY <1>e, <3>1, <4>1, <4>3 DEF Args
    <3>2. CASE i = n + 1
      <4>1. b \in sp .. sp + w - 1
        BY <1>e, <1>l, <3>2
      <4>2. b \in 0 .. Total - 1
        BY <1>1, <1>e, <4>1
      <4> QED
        BY <1>1, <1>l, <3>d, <3>2, <4>1, <4>2
    <3> QED
      BY <1>2, <3>1, <3>2
  <2> QED
    BY <2>1, <2>2, <2>3 DEF Args
<1>8. Refs'
  <2>1. \A u \in Tok : u # t => hand'[u] = hand[u] /\ rc'[u] = rc[u]
    BY <1>1 DEF Types
  <2>2. rc'[t] = IF size_array'[n] = -1 THEN 2 ELSE 1
    <3>1. rc[t] = 1
      BY <1>1 DEF Refs
    <3>2. size_array'[n] = -1 <=> hand[t] = "heap"
      BY <1>e, StackAssumption DEF PushedSize
    <3> QED
      BY <1>1, <3>1, <3>2 DEF Types
  <2>3. \A u \in Tok : hand'[u] # "no" => rc'[u] = 1
    BY <1>1, <2>1 DEF Refs, Types
  <2>4. \A i \in Entries' : rc'[T(i)'] = IF size_array'[i - 1] = -1 THEN 2 ELSE 1
    <3> TAKE i \in Entries'
    <3>1. CASE i \in Entries
      BY <1>1, <1>e, <1>6, <2>1, <3>1 DEF Refs
    <3>2. CASE i = n + 1
      <4>1. i - 1 = n
        BY <1>1, <3>2
      <4> QED
        BY <1>l, <2>2, <3>2, <4>1
    <3> QED
      BY <1>2, <3>1, <3>2
  <2>5. \A u \in Tok : hand'[u] = "no" /\ (\A i \in Entries' : T(i)' # u) => rc'[u] = 0
    <3> SUFFICES ASSUME NEW u \in Tok, hand'[u] = "no", \A i \in Entries' : T(i)' # u
                 PROVE  rc'[u] = 0
      OBVIOUS
    <3>1. u # t
      BY <1>e, <1>l
    <3>2. \A i \in Entries : T(i) # u
      BY <1>e
    <3> QED
      BY <1>1, <2>1, <3>1, <3>2 DEF Refs
  <2> QED
    BY <2>3, <2>4, <2>5 DEF Refs
<1>9. Walk'
  BY <1>1 DEF Walk
<1> QED
  BY <1>3, <1>4, <1>5, <1>7, <1>8, <1>9

(* An overflow stops the device with the entries as they were: the size it *)
(* has written belongs to none.                                            *)
LEMMA OverflowInv ==
  ASSUME Inv, NEW t \in Tok, Overflow(t)
  PROVE  Inv'
<1> USE DEF Inv
<1>1. /\ UNCHANGED <<payload, sp, walk, left, hand, base>> /\ phase = "run" /\ phase' = "halt"
      /\ rc' = [rc EXCEPT ![t] = @ + 1] /\ top' = top + 1 /\ sp_size' = sp_size + 1
      /\ size_array' = [size_array EXCEPT ![sp_size] = PushedSize(t)]
  BY DEF Overflow, stack_pushSize
<1>2. Len(base) \in Nat /\ sp_size = Len(base) /\ top = Len(base) /\ Len(base) < Cap
  BY <1>1 DEF Types, Counts
<1>3. PushedSize(t) \in Int
  BY StackAssumption DEF PushedSize, Types
<1>4. Types'
  <2>1. size_array' \in [0 .. Cap - 1 -> Int] /\ sp_size' \in Nat /\ top' \in Nat
    BY <1>1, <1>2, <1>3, CapBounds DEF Types
  <2>2. rc' \in [Tok -> Int]
    BY <1>1 DEF Types
  <2> QED
    BY <1>1, <2>1, <2>2 DEF Types
<1>5. Counts'
  BY <1>1, <1>2 DEF Counts
<1>6. Entries' = Entries /\ \A i : T(i)' = T(i)
  BY <1>1 DEF Entries, T
<1>7. \A i \in Entries : W(i)' = W(i)
  <2> TAKE i \in Entries
  <2>1. i - 1 \in 0 .. Cap - 1 /\ i - 1 # sp_size
    BY <1>2, CapBounds DEF Entries
  <2> QED
    BY <1>1, <2>1 DEF W, Bytes, Types
<1>8. Layout' /\ Args'
  BY <1>1, <1>6, <1>7 DEF Layout, Args
<1>9. Refs' /\ Walk'
  BY <1>1 DEF Refs, Walk
<1> QED
  BY <1>4, <1>5, <1>8, <1>9

-----------------------------------------------------------------------------
(* What taking the top entry off leaves: the entries below it, whose bytes *)
(* lie in front of the new sp.                                             *)
LEMMA PopEntries ==
  ASSUME Inv, phase # "halt", Len(base) # 0, PopEntry, NEW n, n = Len(base)
  PROVE  /\ base' \in Seq(Nat) /\ Len(base') = n - 1 /\ n \in Nat \ {0}
         /\ Entries' = Entries \ {n} /\ n \in Entries
         /\ sp' = base[n] /\ sp' \in 0 .. Total /\ size_array' = size_array
         /\ \A i \in Entries' : /\ i \in Entries /\ base'[i] = base[i]
                                /\ W(i)' = W(i) /\ T(i)' = T(i)
                                /\ base[i] + W(i) <= sp'
         /\ payload' \in [0 .. Total - 1 -> Tok \cup {NULL}]
         /\ \A b \in 0 .. Total - 1 : b < sp' => payload'[b] = payload[b]
<1> USE DEF Inv
<1>1. n \in Nat \ {0} /\ base \in Seq(Nat) /\ n \in Entries /\ Entries = 1 .. n
  BY DEF Types, Entries
<1>2. base' = SubSeq(base, 1, n - 1) /\ size_array' = size_array
  BY DEF PopEntry
<1>3. /\ base' \in Seq(Nat) /\ Len(base') = n - 1
      /\ \A i \in 1 .. n - 1 : base'[i] = base[i]
  BY <1>1, <1>2
<1>4. Entries' = Entries \ {n}
  BY <1>1, <1>3 DEF Entries
<1>4a. \A i \in Entries' : i \in 1 .. n - 1
  BY <1>1, <1>3 DEF Entries
<1>5. sp' = base[n] /\ payload' = Kept(base[n])
  BY TopIs DEF PopEntry
<1>6. base[n] \in 0 .. Total - 1 /\ sp' \in 0 .. Total
  BY <1>1, <1>5, CapBounds DEF Layout
<1>7. /\ payload' \in [0 .. Total - 1 -> Tok \cup {NULL}]
      /\ \A b \in 0 .. Total - 1 : b < sp' => payload'[b] = payload[b]
  BY <1>5 DEF Kept, Types
<1>8. \A i \in Entries' : /\ base[i] + W(i) <= sp' /\ base[i] \in 0 .. Total - 1
                          /\ W(i) \in Nat \ {0}
  BY <1>1, <1>4, <1>4a, <1>5 DEF Layout
<1>9. \A i \in Entries' : T(i)' = T(i)
  <2> TAKE i \in Entries'
  <2>0. base'[i] = base[i]
    BY <1>3, <1>4a
  <2>1. base[i] < sp' /\ base[i] \in 0 .. Total - 1
    BY <1>6, <1>8
  <2> QED
    BY <1>7, <2>0, <2>1 DEF T
<1>10. \A i : W(i)' = W(i)
  BY <1>2 DEF W, Bytes
<1> QED
  BY <1>1, <1>2, <1>3, <1>4, <1>4a, <1>5, <1>6, <1>7, <1>8, <1>9, <1>10

(* The layout and the args of the entries that are left, whatever a pop    *)
(* does with the arg it took off.                                          *)
LEMMA PopKeeps ==
  ASSUME Inv, phase # "halt", Len(base) # 0, PopEntry,
         \A i \in Entries' : hand'[T(i)] = hand[T(i)]
  PROVE  Layout' /\ Args'
<1> DEFINE n == Len(base)
<1>1. /\ Len(base') = n - 1 /\ n \in Nat \ {0} /\ Entries' = Entries \ {n} /\ n \in Entries
      /\ sp' = base[n] /\ sp' \in 0 .. Total
      /\ \A i \in Entries' : /\ i \in Entries /\ base'[i] = base[i]
                             /\ W(i)' = W(i) /\ T(i)' = T(i)
                             /\ base[i] + W(i) <= sp'
      /\ \A b \in 0 .. Total - 1 : b < sp' => payload'[b] = payload[b]
  BY PopEntries
<1>2. Entries = 1 .. n
  BY DEF Entries
<1> HIDE DEF n
<1> USE DEF Inv
<1>3. Layout'
  <2>0. \A i \in Entries : /\ base[i] \in 0 .. Total - 1 /\ W(i) \in Nat \ {0}
                           /\ base[i] + W(i) = IF i = n THEN sp ELSE base[i + 1]
    BY DEF Layout, n
  <2>1. IF n - 1 = 0 THEN sp' = 0 ELSE base'[1] = 0
    <3>1. base[1] = 0
      BY DEF Layout
    <3>2. CASE n = 1
      BY <1>1, <3>1, <3>2
    <3>3. CASE n # 1
      <4>1. 1 \in Entries'
        BY <1>1, <1>2, <3>3
      <4> QED
        BY <1>1, <3>1, <3>3, <4>1
    <3> QED
      BY <3>2, <3>3
  <2>2. \A i \in Entries' : /\ base'[i] \in 0 .. Total - 1 /\ W(i)' \in Nat \ {0}
                            /\ base'[i] + W(i)' <= sp'
    BY <1>1, <2>0
  <2>3. \A i \in Entries' : base'[i] + W(i)' = IF i = n - 1 THEN sp' ELSE base'[i + 1]
    <3> TAKE i \in Entries'
    <3>0. i \in Entries /\ i # n /\ base'[i] = base[i] /\ W(i)' = W(i)
      BY <1>1
    <3>1. i \in 1 .. n - 1 /\ base'[i] + W(i)' = base[i + 1]
      BY <1>1, <1>2, <2>0, <3>0
    <3>2. CASE i = n - 1
      BY <1>1, <3>1, <3>2
    <3>3. CASE i # n - 1
      <4>1. i + 1 \in Entries'
        BY <1>1, <1>2, <3>1, <3>3
      <4> QED
        BY <1>1, <3>1, <3>3, <4>1
    <3> QED
      BY <3>2, <3>3
  <2>4. \A i, j \in Entries' : i < j => base'[i] + W(i)' <= base'[j]
    BY <1>1 DEF Layout
  <2> QED
    BY <1>1, <2>1, <2>2, <2>3, <2>4 DEF Layout
<1>4. Args'
  <2>1. \A i \in Entries' : \A b \in base'[i] .. base'[i] + W(i)' - 1 : payload'[b] = T(i)'
    <3> SUFFICES ASSUME NEW i \in Entries', NEW b \in base'[i] .. base'[i] + W(i)' - 1
                 PROVE  payload'[b] = T(i)'
      OBVIOUS
    <3>1. b \in base[i] .. base[i] + W(i) - 1 /\ i \in Entries
      BY <1>1
    <3>2. b \in 0 .. Total - 1 /\ b < sp'
      BY <1>1, <3>1, CapBounds DEF Layout
    <3> QED
      BY <1>1, <3>1, <3>2 DEF Args
  <2> QED
    BY <1>1, <2>1 DEF Args
<1> QED
  BY <1>3, <1>4

(* stack_popArg and a step of solveUnusedStack: only the references of the *)
(* arg taken off change, to those it has in hand, or to none.              *)
LEMMA PopInv ==
  ASSUME Inv, (\E alloc \in BOOLEAN : stack_popArg(alloc)) \/ SolveStep
  PROVE  Inv'
<1> DEFINE n == Len(base)
           u == TopArg
<1> USE DEF Inv
<1>1. /\ PopEntry /\ phase \in {"run", "solve"} /\ UNCHANGED <<phase, walk>>
  BY DEF stack_popArg, SolveStep
<1>2. n # 0 /\ n \in Nat /\ top = n /\ sp_size = n /\ n < Cap
  BY <1>1 DEF stack_popArg, SolveStep, Counts, Types
<1>3. /\ n \in Entries /\ u = T(n) /\ u \in Tok /\ TopSize = size_array[n - 1]
  BY <1>1, <1>2, TopIs
<1>4. /\ base' \in Seq(Nat) /\ Len(base') = n - 1 /\ Entries' = Entries \ {n}
      /\ sp' \in 0 .. Total /\ size_array' = size_array
      /\ \A i \in Entries' : i \in Entries /\ T(i)' = T(i)
      /\ payload' \in [0 .. Total - 1 -> Tok \cup {NULL}]
  BY <1>1, <1>2, PopEntries
<1>5. \A i \in Entries' : T(i) \in Tok /\ T(i) # u
  BY <1>3, <1>4 DEF Args
<1>6. rc[u] = IF TopSize = -1 THEN 2 ELSE 1
  BY <1>1, <1>3 DEF Refs
<1>7. /\ hand' \in [Tok -> {"no", "reg", "heap"}] /\ rc' \in [Tok -> Int]
      /\ \A v \in Tok : v # u => hand'[v] = hand[v] /\ rc'[v] = rc[v]
      /\ \/ hand'[u] # "no" /\ rc'[u] = 1
         \/ hand'[u] = "no" /\ rc'[u] = 0
  <2>1. CASE \E alloc \in BOOLEAN : stack_popArg(alloc)
    <3>1. PICK alloc \in BOOLEAN : stack_popArg(alloc)
      BY <2>1
    <3>2. /\ hand' = [hand EXCEPT ![u] = IF TopSize = -1 \/ alloc THEN "heap" ELSE "reg"]
          /\ rc' = IF TopSize = -1 THEN [rc EXCEPT ![u] = @ - 1] ELSE rc
      BY <3>1 DEF stack_popArg
    <3> HIDE DEF u
    <3> QED
      BY <1>3, <1>6, <3>2 DEF Types
  <2>2. CASE SolveStep
    <3>1. /\ hand' = hand
          /\ rc' = [rc EXCEPT ![u] = IF TopSize = -1 THEN @ - 2 ELSE @ - 1]
      BY <2>2 DEF SolveStep
    <3>2. hand[u] = "no"
      BY <1>3 DEF Args
    <3> HIDE DEF u
    <3> QED
      BY <1>3, <1>6, <3>1, <3>2 DEF Types
  <2> QED
    BY <2>1, <2>2
<1> HIDE DEF u
<1>8. Layout' /\ Args'
  BY <1>1, <1>2, <1>5, <1>7, PopKeeps
<1> HIDE DEF n
<1>9. Types'
  <2>1. sp_size' \in Nat /\ top' \in Nat
    BY <1>1, <1>2 DEF PopEntry
  <2>2. left' \in Nat
    BY DEF stack_popArg, SolveStep, Types
  <2> QED
    BY <1>1, <1>4, <1>7, <2>1, <2>2 DEF Types
<1>10. Counts'
  <2>1. sp_size' = n - 1 /\ top' = n - 1 /\ n - 1 < Cap
    BY <1>1, <1>2, CapBounds DEF PopEntry
  <2>2. phase = "solve" => left' = n - 1
    BY DEF stack_popArg, SolveStep, Counts, n
  <2> QED
    BY <1>1, <1>4, <2>1, <2>2 DEF Counts
<1>11. Refs'
  <2>1. \A v \in Tok : hand'[v] # "no" => rc'[v] = 1
    BY <1>1, <1>7 DEF Refs
  <2>2. \A i \in Entries' : rc'[T(i)'] = IF size_array'[i - 1] = -1 THEN 2 ELSE 1
    BY <1>1, <1>4, <1>5, <1>7 DEF Refs
  <2>3. \A v \in Tok : hand'[v] = "no" /\ (\A i \in Entries' : T(i)' # v) => rc'[v] = 0
    <3> SUFFICES ASSUME NEW v \in Tok, hand'[v] = "no", \A i \in Entries' : T(i)' # v
                 PROVE  rc'[v] = 0
      OBVIOUS
    <3>1. CASE v = u
      BY <1>7, <3>1
    <3>2. CASE v # u
      <4>1. \A i \in Entries : T(i) # v
        BY <1>3, <1>4, <3>2
      <4> QED
        BY <1>1, <1>7, <3>2, <4>1 DEF Refs
    <3> QED
      BY <3>1, <3>2
  <2> QED
    BY <2>1, <2>2, <2>3 DEF Refs
<1>12. Walk'
  BY <1>1 DEF Walk
<1> QED
  BY <1>8, <1>9, <1>10, <1>11, <1>12

-----------------------------------------------------------------------------
(* The steps that leave the buffers, the hands and the references alone    *)
(* disturb only the counts and the walk.                                   *)
LEMMA QuietInv ==
  ASSUME Inv, UNCHANGED <<buffers, hand, rc, base>>, phase # "halt", phase' # "halt",
         Types', Counts', Walk'
  PROVE  Inv'
<1> USE DEF Inv
<1>1. Layout' /\ Entries' = Entries /\ (\A i : T(i)' = T(i) /\ W(i)' = W(i))
  BY SameBuffers
<1>2. Args' /\ Refs'
  BY <1>1 DEF Args, Refs, buffers
<1> QED
  BY <1>1, <1>2

(* A step of the walk, as the record it makes.                             *)
LEMMA WalkStep ==
  ASSUME NEW w \in [i : Nat, index : Nat, off : Int, size : Int], NEW d \in Int, NEW s \in Int,
         NEW v, v = [i |-> w.i + 1, index |-> w.index, off |-> w.off - d, size |-> s]
  PROVE  /\ w.i \in Nat /\ w.index \in Nat /\ w.off \in Int
         /\ v.i = w.i + 1 /\ v.index = w.index /\ v.off = w.off - d /\ v.size = s
         /\ v \in [i : Nat, index : Nat, off : Int, size : Int]
  OBVIOUS

(* stack_checkArg goes down the entries with the offsets it sums up.       *)
LEMMA CheckInv ==
  ASSUME Inv, (\E index \in 0 .. Cap : CheckStart(index)) \/ CheckStep \/ CheckEnd \/ CheckUsed
  PROVE  Inv'
<1> USE DEF Inv
<1>1. /\ UNCHANGED <<buffers, left, hand, rc, base>>
      /\ phase \in {"run", "walk", "seen"} /\ phase' \in {"run", "walk", "seen"}
  BY DEF CheckStart, CheckStep, CheckEnd, CheckUsed
<1>2. Counts'
  BY <1>1 DEF Counts, buffers
<1>3. /\ Len(base) \in Nat /\ sp_size = Len(base) /\ top = Len(base) /\ sp \in Nat
      /\ Len(base) < Cap
  BY <1>1, CapBounds DEF Counts, Types
<1>4. CASE \E index \in 0 .. Cap : CheckStart(index)
  <2>1. PICK index \in 0 .. Cap : CheckStart(index)
    BY <1>4
  <2>2. /\ walk' = [i |-> 1, index |-> index, off |-> 0, size |-> 0] /\ index \in Nat
        /\ index < Len(base) /\ phase' = "walk"
    BY <1>3, <2>1, CapBounds DEF CheckStart
  <2>3. Types'
    BY <1>1, <2>2 DEF Types, buffers
  <2>4. Walk'
    BY <1>1, <1>3, <2>2 DEF Walk, buffers
  <2> QED
    BY <1>1, <1>2, <2>3, <2>4, QuietInv
<1>5. CASE CheckStep
  <2> DEFINE k == Len(base) - walk.i + 1
             size == size_array[k - 1]
  <2>1. /\ phase = "walk" /\ phase' = "walk" /\ walk.i <= walk.index + 1
        /\ walk \in [i : Nat, index : Nat, off : Int, size : Int]
        /\ walk.i \in 1 .. walk.index + 2 /\ walk.index < Len(base)
    BY <1>5 DEF CheckStep, Walk, Types
  <2>2. k \in Entries /\ k - 1 \in 0 .. Cap - 1 /\ k = Len(base) - walk.i + 1 /\ sp_size - walk.i = k - 1
    BY <1>3, <2>1, CapBounds DEF Entries
  <2>3. size \in Int /\ W(k) = Bytes(size) /\ WalkBytes(size) = W(k) /\ W(k) \in Nat
    BY <2>2 DEF W, WalkBytes, Bytes, Types, Layout
  <2>4. walk' = [i |-> walk.i + 1, index |-> walk.index, off |-> walk.off - W(k), size |-> size]
    BY <1>5, <2>2, <2>3 DEF CheckStep
  <2>5. base[k] + W(k) = sp + walk.off /\ base[k] \in Int
    <3>1. base[k] + W(k) = IF k = Len(base) THEN sp ELSE base[k + 1]
      BY <2>2 DEF Layout
    <3>2. base[k] \in Int
      BY <2>2 DEF Layout
    <3>3. sp + walk.off = IF walk.i = 1 THEN sp ELSE base[Len(base) - walk.i + 2]
      BY <2>1 DEF Walk
    <3>4. (k = Len(base) <=> walk.i = 1) /\ k + 1 = Len(base) - walk.i + 2
      BY <1>3, <2>1
    <3> HIDE DEF k
    <3> QED
      BY <3>1, <3>2, <3>3, <3>4
  <2> HIDE DEF k, size
  <2>6. /\ walk'.i = walk.i + 1 /\ walk'.index = walk.index
        /\ walk'.off = walk.off - W(k) /\ walk'.size = size
        /\ walk' \in [i : Nat, index : Nat, off : Int, size : Int]
        /\ walk.i \in Nat /\ walk.index \in Nat /\ walk.off \in Int
    <3>1. W(k) \in Int
      BY <2>3
    <3> QED
      BY <2>1, <2>3, <2>4, <3>1, WalkStep
  <2>7. Types'
    BY <1>1, <2>1, <2>6 DEF Types, buffers
  <2>8. Walk'
    <3>a. walk'.off = walk.off - W(k) /\ walk.off \in Int /\ W(k) \in Int /\ sp \in Int
      BY <1>3, <2>3, <2>6
    <3>1. sp + walk'.off = base[k]
      BY <2>5, <3>a
    <3>b. /\ walk'.i = walk.i + 1 /\ walk'.index = walk.index
          /\ walk.i \in Nat /\ walk.index \in Nat /\ walk.i <= walk.index + 1
          /\ walk.i >= 1
      BY <2>1, <2>6
    <3>2. /\ walk'.i # 1 /\ walk'.i > 1 /\ walk'.i \in 1 .. walk'.index + 2
          /\ Len(base) - walk'.i + 2 = k /\ Len(base) - walk'.i + 1 = k - 1
      <4>1. walk'.i # 1 /\ walk'.i > 1 /\ walk'.i \in 1 .. walk'.index + 2
        BY <3>b
      <4>2. k = Len(base) - walk.i + 1
        BY DEF k
      <4> QED
        BY <1>3, <3>b, <4>1, <4>2
    <3> QED
      BY <1>1, <2>1, <2>6, <3>1, <3>2 DEF Walk, buffers, size
  <2> QED
    BY <1>1, <1>2, <2>7, <2>8, QuietInv
<1>6. CASE CheckEnd \/ CheckUsed
  <2>1. phase' # "walk" /\ (walk' = NoWalk \/ walk' = walk)
    BY <1>6 DEF CheckEnd, CheckUsed
  <2>2. Types' /\ Walk'
    BY <1>1, <2>1 DEF Types, Walk, NoWalk, buffers
  <2> QED
    BY <1>1, <1>2, <2>2, QuietInv
<1> QED
  BY <1>4, <1>5, <1>6

(* solveUnusedStack counts every entry, since there are fewer than its     *)
(* counter can hold, so that stack_reset finds none.                       *)
LEMMA LineInv ==
  ASSUME Inv, NewLine \/ stack_reset
  PROVE  Inv'
<1> USE DEF Inv
<1>1. CASE NewLine
  <2>1. /\ UNCHANGED <<buffers, walk, hand, rc, got, base>> /\ phase = "run" /\ phase' = "solve"
        /\ left' = top % CountMod
    BY <1>1 DEF NewLine, DrainCount
  <2>2. Len(base) \in Nat /\ top = Len(base) /\ top < CountMod /\ CountMod \in Nat
    BY <2>1, CapBounds DEF Types, Counts
  <2>3. left' = Len(base)
    BY <2>1, <2>2, ModSmall
  <2>4. Types' /\ Counts' /\ Walk'
    BY <2>1, <2>2, <2>3 DEF Types, Counts, Walk, buffers
  <2> QED
    BY <2>1, <2>4, QuietInv
<1>2. CASE stack_reset
  <2>1. /\ UNCHANGED <<size_array, walk, left, hand, rc>> /\ phase = "solve" /\ phase' = "run"
        /\ sp' = 0 /\ sp_size' = 0 /\ top' = 0 /\ base' = <<>> /\ left = 0 /\ payload' = Kept(0)
    BY <1>2 DEF stack_reset
  <2>2. Len(base) = 0 /\ Entries = {}
    BY <2>1 DEF Counts, Types, Entries
  <2>3. base' \in Seq(Nat) /\ Len(base') = 0 /\ Entries' = {}
    BY <2>1 DEF Entries
  <2>4. payload' \in [0 .. Total - 1 -> Tok \cup {NULL}]
    BY <2>1 DEF Kept, Types
  <2>5. Types'
    BY <2>1, <2>3, <2>4, CapBounds DEF Types
  <2>6. Counts' /\ Layout' /\ Args' /\ Walk'
    BY <2>1, <2>3, CapBounds DEF Counts, Layout, Args, Walk
  <2>7. Refs'
    BY <2>1, <2>2, <2>3 DEF Refs
  <2> QED
    BY <2>5, <2>6, <2>7
<1> QED
  BY <1>1, <1>2

(* Every step of the operand stack keeps the invariant.                    *)
LEMMA NextInv == Inv /\ [StackNext]_svars => Inv'
<1> SUFFICES ASSUME Inv, [StackNext]_svars PROVE Inv'
  OBVIOUS
<1>1. CASE \E t \in Tok : \E form \in {"reg", "heap"} : Obtain(t, form) \/ Discard(t)
  BY <1>1, HandSteps
<1>2. CASE \E t \in Tok : stack_pushArg(t)
  BY <1>2, PushInv
<1>3. CASE \E t \in Tok : Overflow(t)
  BY <1>3, OverflowInv
<1>4. CASE (\E alloc \in BOOLEAN : stack_popArg(alloc)) \/ SolveStep
  BY <1>4, PopInv
<1>5. CASE (\E index \in 0 .. Cap : CheckStart(index)) \/ CheckStep \/ CheckEnd \/ CheckUsed
  BY <1>5, CheckInv
<1>6. CASE NewLine \/ stack_reset
  BY <1>6, LineInv
<1>7. CASE UNCHANGED svars
  BY <1>7 DEF Inv, Types, Counts, Layout, Args, Refs, Walk, Entries, T, W, Bytes, svars, buffers
<1> QED
  BY <1>1, <1>2, <1>3, <1>4, <1>5, <1>6, <1>7 DEF StackNext

(* The invariant holds in every reachable state.                           *)
THEOREM StackInv == StackSpec => []Inv
  BY InitInv, NextInv, PTL DEF StackSpec

(* The size array and the payload are used within their bounds, with the   *)
(* entries side by side and each of them readable, for every size of the   *)
(* buffers and every arg (dataStack.c checks the room for a size only      *)
(* after it has written it).                                               *)
THEOREM StackBuffersSafe == StackSpec => []BuffersSafe
<1>1. Inv => BuffersSafe
  <2> SUFFICES ASSUME Inv PROVE BuffersSafe
    OBVIOUS
  <2> USE DEF Inv
  <2>1. (phase # "halt" => sp_size < Cap) /\ sp_size <= Cap /\ sp <= Total
    BY CapBounds DEF Counts, Types
  <2>2. \A i \in DOMAIN base : Entry(i) \in Tok
    BY EntryIs DEF Entries, Types
  <2>3. \A i \in DOMAIN base :
          base[i] + Bytes(size_array[i - 1]) = IF i = Len(base) THEN sp ELSE base[i + 1]
    <3>1. DOMAIN base = Entries
      BY DEF Entries, Types
    <3>2. \A i \in Entries : base[i] + W(i) = IF i = Len(base) THEN sp ELSE base[i + 1]
      BY DEF Layout
    <3> QED
      BY <3>1, <3>2 DEF W
  <2> QED
    BY <2>1, <2>2, <2>3 DEF BuffersSafe, Layout
<1> QED
  BY <1>1, StackInv, PTL

(* No reference to an arg is lost or released twice by pushes, pops and    *)
(* the end of a line, whatever the sizes: the counter of 8 bits in         *)
(* solveUnusedStack is enough for every stack the size array admits.       *)
THEOREM StackRefsBalanced == StackSpec => []RefsBalanced
<1>1. Inv => RefsBalanced
  <2> SUFFICES ASSUME Inv, phase # "halt", NEW t \in Tok
               PROVE  rc[t] = IF hand[t] # "no" THEN 1
                              ELSE IF \E i \in DOMAIN base : Entry(i) = t /\ size_array[i - 1] = -1 THEN 2
                              ELSE IF t \in Stacked THEN 1 ELSE 0
    BY DEF RefsBalanced
  <2> USE DEF Inv
  <2>1. DOMAIN base = Entries /\ \A i \in Entries : Entry(i) = T(i)
    BY EntryIs DEF Entries, Types
  <2>2. CASE hand[t] # "no"
    BY <2>2 DEF Refs
  <2>3. CASE hand[t] = "no" /\ \E i \in Entries : T(i) = t
    <3>1. PICK i \in Entries : T(i) = t
      BY <2>3
    <3>2. \A j \in Entries : T(j) = t => j = i
      BY <3>1 DEF Args
    <3>3. t \in Stacked
      BY <2>1, <3>1 DEF Stacked
    <3>4. (\E j \in DOMAIN base : Entry(j) = t /\ size_array[j - 1] = -1) <=> size_array[i - 1] = -1
      BY <2>1, <3>1, <3>2
    <3> QED
      BY <2>3, <3>1, <3>3, <3>4 DEF Refs
  <2>4. CASE hand[t] = "no" /\ \A i \in Entries : T(i) # t
    <3>1. t \notin Stacked
      BY <2>1, <2>4 DEF Stacked
    <3> QED
      BY <2>1, <2>4, <3>1 DEF Refs
  <2> QED
    BY <2>2, <2>3, <2>4
<1> QED
  BY <1>1, StackInv, PTL

-----------------------------------------------------------------------------
(* What the mapping to the abstract stack reads: the args of the entries.  *)
Lists == /\ Listed \in Seq(Tok) /\ Len(Listed) = Len(base)
         /\ \A i \in Entries : Listed[i] = T(i)

(* The invariant makes every entry readable, hence the list well formed.   *)
LEMMA InvLists == Inv => Lists
<1> SUFFICES ASSUME Inv PROVE Lists
  OBVIOUS
<1>1. Len(base) \in Nat /\ Entries = 1 .. Len(base)
  BY DEF Inv, Types, Entries
<1>2. \A i \in Entries : Entry(i) = T(i) /\ Entry(i) \in Tok
  BY EntryIs DEF Inv
<1>3. Listed = [i \in Entries |-> Entry(i)] /\ Listed \in [1 .. Len(base) -> Tok]
  BY <1>1, <1>2 DEF Listed
<1>4. Listed \in Seq(Tok) /\ Len(Listed) = Len(base)
  BY <1>1, <1>3
<1> QED
  BY <1>1, <1>2, <1>3, <1>4 DEF Lists

(* The list is the same when the entries are.                              *)
LEMMA SameList ==
  ASSUME Lists, Lists', Entries' = Entries, Len(base') = Len(base), Len(base) \in Nat,
         \A i \in Entries : T(i)' = T(i)
  PROVE  Listed' = Listed
<1>1. Listed \in Seq(Tok) /\ Listed' \in Seq(Tok) /\ Len(Listed') = Len(Listed)
  BY DEF Lists
<1>2. \A i \in 1 .. Len(Listed) : Listed'[i] = Listed[i]
  BY DEF Lists, Entries
<1> QED
  BY <1>1, <1>2

(* A push appends the arg.                                                 *)
LEMMA PushList ==
  ASSUME Inv, Lists, Lists', NEW t \in Tok, stack_pushArg(t)
  PROVE  Listed' = Append(Listed, t)
<1> DEFINE n == Len(base)
<1>1. /\ Len(base') = n + 1 /\ Entries' = Entries \cup {n + 1}
      /\ \A i \in Entries : T(i)' = T(i)
  BY PushEntries
<1>2. \A k : k = n + 1 => T(k)' = t
  BY PushEntries
<1>3. n \in Nat /\ Entries = 1 .. n
  BY DEF Inv, Types, Entries
<1>4. Listed \in Seq(Tok) /\ Listed' \in Seq(Tok) /\ Len(Listed) = n /\ Len(Listed') = n + 1
  BY <1>1 DEF Lists
<1> HIDE DEF n
<1>5. \A i \in 1 .. n : Listed'[i] = Listed[i]
  BY <1>1, <1>3 DEF Lists
<1>6. Listed'[n + 1] = t
  BY <1>1, <1>2 DEF Lists
<1> QED
  BY <1>3, <1>4, <1>5, <1>6

(* A pop takes the last arg off.                                           *)
LEMMA PopList ==
  ASSUME Inv, Lists, Lists', phase # "halt", Len(base) # 0, PopEntry
  PROVE  /\ Listed # <<>> /\ Listed[Len(Listed)] = TopArg
         /\ Listed' = SubSeq(Listed, 1, Len(Listed) - 1)
<1> DEFINE n == Len(base)
<1>1. /\ Len(base') = n - 1 /\ Entries' = Entries \ {n}
      /\ \A i \in Entries' : i \in Entries /\ T(i)' = T(i)
  BY PopEntries
<1>2. n \in Nat \ {0} /\ Entries = 1 .. n /\ TopArg = T(n)
  BY TopIs DEF Inv, Types, Entries
<1>3. Listed \in Seq(Tok) /\ Listed' \in Seq(Tok) /\ Len(Listed) = n /\ Len(Listed') = n - 1
  BY <1>1 DEF Lists
<1> HIDE DEF n
<1>4. \A i \in 1 .. n - 1 : Listed'[i] = Listed[i]
  <2> TAKE i \in 1 .. n - 1
  <2>1. i \in Entries' /\ i \in Entries
    BY <1>1, <1>2
  <2> QED
    BY <1>1, <2>1 DEF Lists
<1>5. Listed' = SubSeq(Listed, 1, n - 1)
  BY <1>2, <1>3, <1>4
<1>6. Listed[n] = TopArg /\ Listed # <<>>
  BY <1>2, <1>3 DEF Lists
<1> QED
  BY <1>3, <1>5, <1>6

(* What stack_checkArg has come down to is the entry asked for.            *)
LEMMA CheckReads ==
  ASSUME Inv, Lists, CheckEnd
  PROVE  got' = Listed[Len(Listed) - walk.index] /\ walk.index \in 0 .. Len(Listed) - 1
<1> DEFINE k == Len(base) - walk.index
<1> USE DEF Inv
<1>1. /\ phase = "walk" /\ walk.i \in 1 .. walk.index + 2 /\ walk.i > walk.index + 1
      /\ walk.index \in Nat /\ walk.index < Len(base) /\ Len(base) \in Nat
  BY DEF CheckEnd, Walk, Types
<1>2. walk.i = walk.index + 2
  BY <1>1
<1>3. /\ k \in Entries /\ Len(base) - walk.i + 2 = k /\ Len(base) - walk.i + 1 = k - 1
      /\ walk.i # 1 /\ walk.i > 1
  BY <1>1, <1>2 DEF Entries
<1> HIDE DEF k
<1>4. sp + walk.off = base[k] /\ walk.size = size_array[k - 1]
  BY <1>1, <1>3 DEF Walk
<1>5. got' = Entry(k)
  BY <1>4 DEF CheckEnd, Entry
<1>6. got' = Listed[k] /\ Len(Listed) = Len(base)
  BY <1>3, <1>5, EntryIs DEF Lists
<1> QED
  BY <1>1, <1>6 DEF k

(* A step that leaves the buffers alone leaves the list.                   *)
LEMMA QuietList ==
  ASSUME Inv, Lists, Lists', UNCHANGED <<buffers, base>>
  PROVE  Listed' = Listed
<1>1. Entries' = Entries /\ \A i : T(i)' = T(i)
  BY SameBuffers
<1>2. Len(base) \in Nat
  BY DEF Inv, Types
<1> QED
  BY <1>1, <1>2, SameList

(* Every step of the two buffers is a step of the abstract stack.          *)
LEMMA StepLifo ==
  ASSUME Inv, Lists, Lists', [StackNext]_svars
  PROVE  [Lifo!Next]_(Lifo!avars)
<1>h. hand \in [Tok -> {"no", "reg", "heap"}] /\ Len(base) \in Nat
  BY DEF Inv, Types
<1>1. ASSUME NEW t \in Tok, NEW form \in {"reg", "heap"}, Obtain(t, form) PROVE Lifo!Next
  <2>1. /\ UNCHANGED <<buffers, phase, got, base>> /\ phase = "run" /\ hand[t] = "no"
        /\ hand' = [hand EXCEPT ![t] = form] /\ t \notin Stacked
    BY <1>1 DEF Obtain
  <2>2. Listed' = Listed
    BY <2>1, QuietList
  <2>3. Holding' = Holding \cup {t} /\ t \notin Holding
    BY <1>h, <2>1 DEF Holding
  <2>4. \A i \in DOMAIN Listed : Listed[i] # t
    <3> TAKE i \in DOMAIN Listed
    <3>1. i \in 1 .. Len(base) /\ Listed[i] = Entry(i) /\ i \in DOMAIN base
      BY <1>h DEF Listed, Inv, Types
    <3> QED
      BY <2>1, <3>1 DEF Stacked
  <2>5. Lifo!Free(t)
    BY <2>3, <2>4 DEF Lifo!Free
  <2> QED
    BY <2>1, <2>2, <2>3, <2>5 DEF Lifo!Next, Lifo!Obtain, Stopped
<1>2. ASSUME NEW t \in Tok, Discard(t) PROVE Lifo!Next
  <2>1. /\ UNCHANGED <<buffers, phase, got, base>> /\ phase = "run" /\ hand[t] # "no"
        /\ hand' = [hand EXCEPT ![t] = "no"]
    BY <1>2 DEF Discard
  <2>2. Listed' = Listed
    BY <2>1, QuietList
  <2>3. Holding' = Holding \ {t} /\ t \in Holding
    BY <1>h, <2>1 DEF Holding
  <2> QED
    BY <2>1, <2>2, <2>3 DEF Lifo!Next, Lifo!Discard, Stopped
<1>3. ASSUME NEW t \in Tok, stack_pushArg(t) PROVE Lifo!Next
  <2>1. /\ UNCHANGED <<phase, got>> /\ phase = "run" /\ hand[t] # "no"
        /\ hand' = [hand EXCEPT ![t] = "no"]
    BY <1>3 DEF stack_pushArg
  <2>2. Listed' = Append(Listed, t)
    BY <1>3, PushList
  <2>3. Holding' = Holding \ {t} /\ t \in Holding
    BY <1>h, <2>1 DEF Holding
  <2> QED
    BY <2>1, <2>2, <2>3 DEF Lifo!Next, Lifo!Push, Stopped
<1>4. ASSUME NEW t \in Tok, Overflow(t) PROVE Lifo!Next
  <2>1. /\ UNCHANGED <<payload, hand, got, base>> /\ phase = "run" /\ phase' = "halt"
        /\ hand[t] # "no"
    BY <1>4 DEF Overflow
  <2>2. Entries' = Entries /\ (\A i \in Entries : T(i)' = T(i)) /\ Len(base') = Len(base)
    BY <2>1 DEF Entries, T
  <2>3. Listed' = Listed
    BY <1>h, <2>2, SameList
  <2>4. Holding' = Holding /\ Holding # {}
    BY <2>1 DEF Holding
  <2> QED
    BY <2>1, <2>3, <2>4 DEF Lifo!Next, Lifo!Overflow, Stopped
<1>5. ASSUME NEW alloc \in BOOLEAN, stack_popArg(alloc) PROVE Lifo!Next
  <2>1. /\ UNCHANGED <<phase, got>> /\ phase = "run" /\ PopEntry /\ Len(base) # 0
        /\ hand' = [hand EXCEPT ![TopArg] = IF TopSize = -1 \/ alloc THEN "heap" ELSE "reg"]
    BY <1>5 DEF stack_popArg, Inv, Counts
  <2>2. /\ Listed # <<>> /\ Listed[Len(Listed)] = TopArg
        /\ Listed' = SubSeq(Listed, 1, Len(Listed) - 1)
    BY <2>1, PopList
  <2>3. TopArg \in Tok
    BY <2>1, TopIs
  <2>4. Holding' = Holding \cup {TopArg}
    BY <1>h, <2>1, <2>3 DEF Holding
  <2> QED
    BY <2>1, <2>2, <2>4 DEF Lifo!Next, Lifo!Pop, Stopped
<1>6. ASSUME SolveStep PROVE Lifo!Next
  <2>1. UNCHANGED <<phase, got, hand>> /\ phase = "solve" /\ PopEntry /\ Len(base) # 0
    BY <1>6 DEF SolveStep, Inv, Counts
  <2>2. Listed # <<>> /\ Listed' = SubSeq(Listed, 1, Len(Listed) - 1)
    BY <2>1, PopList
  <2>3. Holding' = Holding
    BY <2>1 DEF Holding
  <2> QED
    BY <2>1, <2>2, <2>3 DEF Lifo!Next, Lifo!Drop, Stopped
<1>7. ASSUME CheckEnd PROVE Lifo!Next
  <2>1. UNCHANGED <<buffers, hand, base>> /\ phase = "walk" /\ phase' = "seen"
    BY <1>7 DEF CheckEnd
  <2>2. Listed' = Listed
    BY <2>1, QuietList
  <2>3. got' = Listed[Len(Listed) - walk.index] /\ walk.index \in 0 .. Len(Listed) - 1
    BY <1>7, CheckReads
  <2>4. Holding' = Holding
    BY <2>1 DEF Holding
  <2> QED
    BY <2>1, <2>2, <2>3, <2>4 DEF Lifo!Next, Lifo!Look, Stopped
<1>8. ASSUME CheckUsed PROVE Lifo!Next
  <2>1. UNCHANGED <<buffers, hand, base>> /\ phase = "seen" /\ phase' = "run" /\ got' = NULL
    BY <1>8 DEF CheckUsed
  <2>2. Listed' = Listed
    BY <2>1, QuietList
  <2> QED
    BY <2>1, <2>2 DEF Lifo!Next, Lifo!Used, Stopped, Holding
<1>9. ASSUME (\E index \in 0 .. Cap : CheckStart(index)) \/ CheckStep \/ NewLine \/ UNCHANGED svars
      PROVE  UNCHANGED Lifo!avars
  <2>1. UNCHANGED <<buffers, hand, base, got>> /\ Stopped' = Stopped
    BY <1>9 DEF CheckStart, CheckStep, NewLine, svars, Stopped
  <2>2. Listed' = Listed
    BY <2>1, QuietList
  <2> QED
    BY <2>1, <2>2 DEF Lifo!avars, Holding
<1>10. ASSUME stack_reset PROVE UNCHANGED Lifo!avars
  <2>1. UNCHANGED <<hand, got>> /\ Stopped' = Stopped /\ base' = <<>> /\ Len(base) = 0
    BY <1>10 DEF stack_reset, Stopped, Inv, Counts
  <2>2. Entries' = {} /\ Entries = {} /\ Len(base') = Len(base)
    BY <2>1 DEF Entries
  <2>3. Listed' = Listed
    BY <1>h, <2>2, SameList
  <2> QED
    BY <2>1, <2>3 DEF Lifo!avars, Holding
<1> QED
  BY <1>1, <1>2, <1>3, <1>4, <1>5, <1>6, <1>7, <1>8, <1>9, <1>10 DEF StackNext

(* What stack_popArg and stack_checkArg read out of the two buffers is     *)
(* what a stack of args would give, for every size of the buffers.         *)
THEOREM StackIsLifo == StackSpec => IsLifo
<1>1. StackInit => Lifo!Init
  <2> SUFFICES ASSUME StackInit PROVE Lifo!Init
    OBVIOUS
  <2>1. Listed = <<>>
    BY DEF StackInit, Listed
  <2> QED
    BY <2>1 DEF StackInit, Lifo!Init, Holding, Stopped
<1>2. StackSpec => []Lists
  BY StackInv, InvLists, PTL
<1>3. Inv /\ Lists /\ Lists' /\ [StackNext]_svars => [Lifo!Next]_(Lifo!avars)
  BY StepLifo
<1> QED
  BY <1>1, <1>2, <1>3, StackInv, PTL DEF StackSpec, IsLifo, Lifo!Spec

-----------------------------------------------------------------------------
(* The stack and the cells of its args.                                    *)

(* Growing an arg or moving it to another cell is no step of the stack;    *)
(* every other step of the composition is one.                             *)
LEMMA RuntimeStep == [Next]_vars => [StackNext]_svars
<1> SUFFICES ASSUME [Next]_vars PROVE [StackNext]_svars
  OBVIOUS
<1>1. ASSUME NEW t \in Tok, ObtainHeap(t) \/ ObtainReg(t) PROVE StackNext
  BY <1>1 DEF ObtainHeap, ObtainReg, StackNext
<1>2. ASSUME NEW t \in Tok, DiscardHeap(t) \/ DiscardReg(t) \/ Push(t) PROVE StackNext
  BY <1>2 DEF DiscardHeap, DiscardReg, Push, StackNext
<1>3. ASSUME NEW t \in Tok, NEW n, arg_append(t, n) \/ arg_setContent(t, n) PROVE UNCHANGED svars
  BY <1>3 DEF arg_append, arg_setContent
<1>4. ASSUME PopCopy \/ PopSame PROVE StackNext
  BY <1>4 DEF PopCopy, PopSame, StackNext
<1>5. ASSUME Look PROVE StackNext
  BY <1>5 DEF Look, StackNext
<1>6. ASSUME SolveCopy \/ SolveBig PROVE StackNext
  BY <1>6 DEF SolveCopy, SolveBig, StackNext
<1>7. ASSUME UNCHANGED vars PROVE UNCHANGED svars
  BY <1>7 DEF vars
<1> QED
  BY <1>1, <1>2, <1>3, <1>4, <1>5, <1>6, <1>7 DEF Next

(* The composition implements the specification of the stack.              *)
THEOREM RuntimeStack == Spec => StackSpec
<1>1. Init => StackInit
  BY DEF Init
<1> QED
  BY <1>1, RuntimeStep, PTL DEF Spec, StackSpec

(* Hence the stack keeps its bounds, balances its references and is a LIFO *)
(* while cells are allocated, cached, grown and freed under it.            *)
THEOREM RuntimeStackSafe == Spec => [](BuffersSafe /\ RefsBalanced) /\ IsLifo
  BY RuntimeStack, StackBuffersSafe, StackRefsBalanced, StackIsLifo, PTL

-----------------------------------------------------------------------------
(* The shape of the memory.                                                *)
Cells == UNION {[D -> [size : Nat, heap : Nat]] : D \in SUBSET Block}

MemType == [used : SUBSET Block, cell : Cells, cache_pool : Seq(Block), heapUsed : Int]

MemTypes(m) ==
  /\ m \in MemType
  /\ Len(m.cache_pool) <= CachePoolSize

(* Of a size the cache takes.                                              *)
InRange(c) == CacheSize <= c.heap /\ c.heap <= CacheMax

(* A cell has its blocks, room for its content, and more room than it asks *)
(* for only if it came from the cache.                                     *)
Fits(m) ==
  \A a \in DOMAIN m.cell :
    /\ Run(a, m.cell[a].heap) \subseteq m.used
    /\ Req(m.cell[a].size) <= m.cell[a].heap
    /\ Req(m.cell[a].size) < m.cell[a].heap => InRange(m.cell[a])

Apart(m) ==
  \A a, b \in DOMAIN m.cell : a # b => Run(a, m.cell[a].heap) \cap Run(b, m.cell[b].heap) = {}

(* The cache holds cells of its sizes, each once.                          *)
CacheSound(m) ==
  /\ \A i \in 1 .. Len(m.cache_pool) : /\ m.cache_pool[i] \in DOMAIN m.cell
                                       /\ InRange(m.cell[m.cache_pool[i]])
  /\ \A i, j \in 1 .. Len(m.cache_pool) : m.cache_pool[i] = m.cache_pool[j] => i = j

CellInv(m) == MemTypes(m) /\ Fits(m) /\ Apart(m) /\ CacheSound(m)

(* The heap count is what the live cells ask for.                          *)
Counted(m) == IsFiniteSet(LiveCells(m)) /\ m.heapUsed = SumFunction(Asked(m))

MemInv(m) == CellInv(m) /\ Counted(m)

-----------------------------------------------------------------------------
(* Division rounds down, and keeps the order.                              *)
LEMMA DivMono ==
  ASSUME NEW k \in Nat \ {0}, NEW x \in Nat, NEW y \in Nat, x <= y
  PROVE  x \div k \in Nat /\ x \div k <= y \div k
  OBVIOUS

LEMMA DivOne ==
  ASSUME NEW k \in Nat \ {0}, NEW x \in Nat, x >= k
  PROVE  x \div k \in Nat /\ x \div k >= 1
  OBVIOUS

(* A request covers the header and the content.                            *)
LEMMA ReqCovers == \A s \in Nat : Req(s) \in Nat /\ Req(s) >= 1 /\ ArgSize + s <= Req(s)
  BY CellAssumption DEF Req, mem_align

(* A cell has at least its first block, and a larger one has more.         *)
LEMMA RunFirst ==
  ASSUME NEW a \in Nat, NEW n \in Nat, n >= 1
  PROVE  a \in Run(a, n)
<1>1. n + Aline - 1 \in Nat /\ n + Aline - 1 >= Aline /\ Aline \in Nat \ {0}
  BY CellAssumption
<1>2. (n + Aline - 1) \div Aline \in Nat /\ (n + Aline - 1) \div Aline >= 1
  BY <1>1, DivOne
<1> QED
  BY <1>2 DEF Run

LEMMA RunMono ==
  ASSUME NEW a \in Nat, NEW n \in Nat, NEW k \in Nat, n <= k
  PROVE  Run(a, n) \subseteq Run(a, k)
<1>1. n + Aline - 1 \in Nat /\ k + Aline - 1 \in Nat /\ Aline \in Nat \ {0}
      /\ n + Aline - 1 <= k + Aline - 1
  BY CellAssumption
<1>2. /\ (n + Aline - 1) \div Aline \in Nat /\ (k + Aline - 1) \div Aline \in Nat
      /\ (n + Aline - 1) \div Aline <= (k + Aline - 1) \div Aline
  BY <1>1, DivMono
<1> QED
  BY <1>2 DEF Run

(* What the types say of one cell.                                         *)
LEMMA CellTypes ==
  ASSUME NEW m, MemTypes(m)
  PROVE  /\ DOMAIN m.cell \subseteq Block /\ DOMAIN m.cell \subseteq Nat
         /\ m.cell \in [DOMAIN m.cell -> [size : Nat, heap : Nat]]
         /\ m.cache_pool \in Seq(Block) /\ Len(m.cache_pool) \in Nat
         /\ DOMAIN m.cache_pool = 1 .. Len(m.cache_pool)
<1>1. m.cell \in Cells /\ m.cache_pool \in Seq(Block)
  BY DEF MemTypes, MemType
<1>2. PICK D \in SUBSET Block : m.cell \in [D -> [size : Nat, heap : Nat]]
  BY <1>1 DEF Cells
<1>3. DOMAIN m.cell = D
  BY <1>2
<1>4. m.cell \in [DOMAIN m.cell -> [size : Nat, heap : Nat]] /\ DOMAIN m.cell \subseteq Block
  BY <1>2, <1>3
<1>5. DOMAIN m.cell \subseteq Nat
  BY <1>4, CellAssumption
<1>6. Len(m.cache_pool) \in Nat /\ DOMAIN m.cache_pool = 1 .. Len(m.cache_pool)
  BY <1>1
<1> QED
  BY <1>1, <1>4, <1>5, <1>6

LEMMA CellsAre ==
  ASSUME NEW D \in SUBSET Block, NEW f \in [D -> [size : Nat, heap : Nat]]
  PROVE  f \in Cells
  BY DEF Cells

-----------------------------------------------------------------------------
(* A cell from the cache: only its size changes, and it leaves the cache.  *)
(* It fits, and the memory stays sound.                                    *)
LEMMA HitInv ==
  ASSUME NEW m, CellInv(m), NEW size \in Nat, CacheHit(m, size), NEW a \in Places(m, size),
         NEW k, k = NewCell(m, a, size)
  PROVE  /\ CellInv(k)
         /\ LiveCells(k) = LiveCells(m) \cup {a} /\ a \notin LiveCells(m)
         /\ Strays(k) = Strays(m) /\ InRange(k.cell[a])
         /\ Len(k.cache_pool) < CachePoolSize
         /\ k.cell[a].size = size
         /\ \A x \in LiveCells(m) : x # a /\ k.cell[x] = m.cell[x]
<1>1. PICK n : n = Len(m.cache_pool)
  OBVIOUS
<1>2. /\ k \in MemType /\ k.used = m.used /\ DOMAIN k.cell = DOMAIN m.cell
      /\ n \in Nat \ {0} /\ a = m.cache_pool[n] /\ a \in DOMAIN m.cell
      /\ \A x \in DOMAIN m.cell : x # a => k.cell[x] = m.cell[x]
      /\ k.cell[a].size = size /\ k.cell[a].heap = m.cell[a].heap
      /\ Len(k.cache_pool) = n - 1
      /\ \A i \in 1 .. n - 1 : k.cache_pool[i] = m.cache_pool[i]
  <2>0. /\ DOMAIN m.cell \subseteq Block /\ m.cell \in [DOMAIN m.cell -> [size : Nat, heap : Nat]]
        /\ m.cache_pool \in Seq(Block) /\ n \in Nat
    BY <1>1, CellTypes DEF CellInv
  <2>0a. m \in MemType
    BY DEF CellInv, MemTypes
  <2>1. m.cache_pool # <<>> /\ a = Last(m.cache_pool)
    BY DEF CacheHit, Places
  <2>2. n \in Nat \ {0} /\ a = m.cache_pool[n]
    BY <1>1, <2>0, <2>1 DEF Last
  <2>3. a \in DOMAIN m.cell
    BY <1>1, <2>2 DEF CellInv, CacheSound
  <2>4. PICK c : c = [m.cell EXCEPT ![a].size = size]
    OBVIOUS
  <2>5. PICK q : q = Front(m.cache_pool)
    OBVIOUS
  <2>6. k = [m EXCEPT !.cache_pool = q, !.cell = c, !.heapUsed = @ + Req(size)]
    BY <2>4, <2>5 DEF NewCell
  <2>7. /\ c \in [DOMAIN m.cell -> [size : Nat, heap : Nat]]
        /\ \A x \in DOMAIN m.cell : x # a => c[x] = m.cell[x]
        /\ c[a].size = size /\ c[a].heap = m.cell[a].heap
    BY <2>0, <2>3, <2>4
  <2>8. q \in Seq(Block) /\ Len(q) = n - 1 /\ \A i \in 1 .. n - 1 : q[i] = m.cache_pool[i]
    BY <1>1, <2>0, <2>2, <2>5 DEF Front
  <2>9. /\ k.used = m.used /\ k.cell = c /\ k.cache_pool = q
        /\ k \in MemType
    <3>1. c \in Cells
      BY <2>0, <2>7, CellsAre
    <3>2. PICK h \in Int : h = m.heapUsed + Req(size)
      BY <2>0a, ReqCovers DEF MemType
    <3>3. k = [m EXCEPT !.cache_pool = q, !.cell = c, !.heapUsed = h]
      BY <2>6, <3>2
    <3>4. q \in Seq(Block)
      BY <2>8
    <3> QED
      BY <2>0a, <3>1, <3>2, <3>3, <3>4 DEF MemType
  <2> QED
    BY <2>2, <2>3, <2>7, <2>8, <2>9
<1>3. \A x \in DOMAIN m.cell : k.cell[x].heap = m.cell[x].heap
  BY <1>2
<1>4. /\ DOMAIN m.cell \subseteq Nat /\ m.cell \in [DOMAIN m.cell -> [size : Nat, heap : Nat]]
      /\ n <= CachePoolSize /\ DOMAIN m.cache_pool = 1 .. n
  BY <1>1, CellTypes DEF CellInv, MemTypes
<1>5. MemTypes(k)
  BY <1>2, <1>4, CellAssumption DEF MemTypes
<1>6. DOMAIN k.cache_pool = 1 .. n - 1
  BY <1>2, <1>5, CellTypes
<1>7. Fits(k) /\ InRange(k.cell[a])
  <2>1. InRange(m.cell[a])
    BY <1>1, <1>2 DEF CellInv, CacheSound
  <2>2. InRange(k.cell[a])
    BY <1>2, <2>1 DEF InRange
  <2>3. Req(size) <= m.cell[a].heap
    <3>1. Req(size) <= CacheSize /\ CacheSize <= m.cell[a].heap
      BY <2>1 DEF CacheHit, InRange
    <3>2. Req(size) \in Nat /\ CacheSize \in Nat /\ m.cell[a].heap \in Nat
      BY <1>2, <1>4, ReqCovers, CellAssumption
    <3> QED
      BY <3>1, <3>2
  <2>4. ASSUME NEW x \in DOMAIN k.cell
        PROVE  /\ Run(x, k.cell[x].heap) \subseteq k.used
               /\ Req(k.cell[x].size) <= k.cell[x].heap
               /\ Req(k.cell[x].size) < k.cell[x].heap => InRange(k.cell[x])
    <3>1. Run(x, m.cell[x].heap) \subseteq m.used
      BY <1>2, <2>4 DEF CellInv, Fits
    <3>2. CASE x = a
      BY <1>2, <1>3, <2>2, <2>3, <3>1, <3>2
    <3>3. CASE x # a
      BY <1>2, <2>4, <3>1, <3>3 DEF CellInv, Fits
    <3> QED
      BY <3>2, <3>3
  <2> QED
    BY <2>2, <2>4 DEF Fits
<1>8. Apart(k)
  <2> SUFFICES ASSUME NEW x \in DOMAIN m.cell, NEW y \in DOMAIN m.cell, x # y
               PROVE  Run(x, k.cell[x].heap) \cap Run(y, k.cell[y].heap) = {}
    BY <1>2 DEF Apart
  <2>1. Run(x, m.cell[x].heap) \cap Run(y, m.cell[y].heap) = {}
    BY DEF CellInv, Apart
  <2> QED
    BY <1>3, <2>1
<1>9. CacheSound(k)
  <2>1. \A i \in 1 .. n - 1 : i \in 1 .. n
    BY <1>2
  <2>2. ASSUME NEW i \in 1 .. n - 1
        PROVE  k.cache_pool[i] \in DOMAIN k.cell /\ InRange(k.cell[k.cache_pool[i]])
    <3>1. i \in 1 .. n /\ k.cache_pool[i] = m.cache_pool[i]
      BY <1>2, <2>1
    <3>2. m.cache_pool[i] \in DOMAIN m.cell /\ InRange(m.cell[m.cache_pool[i]])
      BY <1>1, <3>1 DEF CellInv, CacheSound
    <3> QED
      BY <1>2, <1>3, <3>1, <3>2 DEF InRange
  <2>3. \A i, j \in 1 .. n - 1 : k.cache_pool[i] = k.cache_pool[j] => i = j
    BY <1>1, <1>2, <2>1 DEF CellInv, CacheSound
  <2> QED
    BY <1>2, <2>2, <2>3 DEF CacheSound
<1>10. Cached(k) = Cached(m) \ {a} /\ a \in Cached(m)
  <2>1. Cached(m) = {m.cache_pool[i] : i \in 1 .. n}
    BY <1>4 DEF Cached, Range
  <2>2. Cached(k) = {k.cache_pool[i] : i \in 1 .. n - 1}
    BY <1>6 DEF Cached, Range
  <2>3. Cached(k) = {m.cache_pool[i] : i \in 1 .. n - 1}
    BY <1>2, <2>2
  <2>4. \A i \in 1 .. n - 1 : i \in 1 .. n /\ i # n
    BY <1>2
  <2>5. \A i \in 1 .. n : i # n => i \in 1 .. n - 1
    BY <1>2
  <2>7. n \in 1 .. n
    BY <1>2
  <2>6. ASSUME NEW i \in 1 .. n - 1 PROVE m.cache_pool[i] # a
    <3>1. m.cache_pool[i] = m.cache_pool[n] => i = n
      BY <1>1, <2>4, <2>7 DEF CellInv, CacheSound
    <3> QED
      BY <1>2, <2>4, <3>1
  <2> QED
    BY <1>2, <2>1, <2>3, <2>4, <2>5, <2>6, <2>7
<1>11. LiveCells(k) = LiveCells(m) \cup {a} /\ a \notin LiveCells(m)
  BY <1>2, <1>10 DEF LiveCells
<1>12. Strays(k) = Strays(m)
  <2>1. {Run(x, k.cell[x].heap) : x \in DOMAIN k.cell} = {Run(x, m.cell[x].heap) : x \in DOMAIN m.cell}
    BY <1>2, <1>3
  <2> QED
    BY <1>2, <2>1 DEF Strays
<1>13. Len(k.cache_pool) < CachePoolSize
  BY <1>2, <1>4, CellAssumption
<1> QED
  BY <1>2, <1>5, <1>7, <1>8, <1>9, <1>10, <1>11, <1>12, <1>13 DEF CellInv, LiveCells

(* A cell from the pool: its blocks were free, so it is apart from the     *)
(* others, and nothing else changes.                                       *)
LEMMA FreshInv ==
  ASSUME NEW m, CellInv(m), NEW size \in Nat, ~CacheHit(m, size), NEW a \in Places(m, size),
         NEW k, k = NewCell(m, a, size)
  PROVE  /\ CellInv(k)
         /\ LiveCells(k) = LiveCells(m) \cup {a} /\ a \notin LiveCells(m)
         /\ Strays(k) \subseteq Strays(m) /\ Req(size) = k.cell[a].heap
         /\ k.cache_pool = m.cache_pool
         /\ k.cell[a].size = size
         /\ \A x \in LiveCells(m) : x # a /\ k.cell[x] = m.cell[x]
<1>1. /\ DOMAIN m.cell \subseteq Block /\ DOMAIN m.cell \subseteq Nat
      /\ m.cell \in [DOMAIN m.cell -> [size : Nat, heap : Nat]]
      /\ m.cache_pool \in Seq(Block) /\ DOMAIN m.cache_pool = 1 .. Len(m.cache_pool)
  BY CellTypes DEF CellInv
<1>2. m \in MemType
  BY DEF CellInv, MemTypes
<1>3. PICK r : r = Run(a, Req(size))
  OBVIOUS
<1>4. a \in Block /\ a \in Nat /\ r \subseteq Block /\ r \cap m.used = {}
  BY <1>3, CellAssumption DEF Places, FreeRuns
<1>5. Req(size) \in Nat /\ Req(size) >= 1
  BY ReqCovers
<1>6. a \in r
  BY <1>3, <1>4, <1>5, RunFirst
<1>7. a \notin DOMAIN m.cell
  <2> SUFFICES ASSUME a \in DOMAIN m.cell PROVE FALSE
    OBVIOUS
  <2>1. m.cell[a].heap \in Nat /\ m.cell[a].size \in Nat
    BY <1>1
  <2>2. Req(m.cell[a].size) \in Nat /\ Req(m.cell[a].size) >= 1
    BY <2>1, ReqCovers
  <2>3. Req(m.cell[a].size) <= m.cell[a].heap /\ Run(a, m.cell[a].heap) \subseteq m.used
    BY DEF CellInv, Fits
  <2>4. a \in Run(a, m.cell[a].heap)
    BY <1>4, <2>1, <2>2, <2>3, RunFirst
  <2> QED
    BY <1>4, <1>6, <2>3, <2>4
<1>8. PICK c : c = [x \in DOMAIN m.cell \cup {a} |->
                      IF x = a THEN [size |-> size, heap |-> Req(size)] ELSE m.cell[x]]
  OBVIOUS
<1>9. /\ c \in [DOMAIN m.cell \cup {a} -> [size : Nat, heap : Nat]]
      /\ DOMAIN c = DOMAIN m.cell \cup {a}
      /\ c[a].size = size /\ c[a].heap = Req(size)
      /\ \A x \in DOMAIN m.cell : x # a /\ c[x] = m.cell[x]
  BY <1>1, <1>5, <1>7, <1>8
<1>10. /\ k.used = m.used \cup r /\ k.cell = c /\ k.cache_pool = m.cache_pool
       /\ k \in MemType
  <2>1. c \in Cells
    BY <1>1, <1>4, <1>9, CellsAre
  <2>2. PICK h \in Int : h = m.heapUsed + Req(size)
    BY <1>2, <1>5 DEF MemType
  <2>3. k = [m EXCEPT !.used = @ \cup r, !.cell = c, !.heapUsed = h]
    BY <1>3, <1>8, <2>2 DEF NewCell
  <2> QED
    BY <1>2, <1>4, <2>1, <2>3 DEF MemType
<1>11. MemTypes(k)
  BY <1>10 DEF MemTypes, CellInv
<1>12. Fits(k)
  <2> SUFFICES ASSUME NEW x \in DOMAIN c
               PROVE  /\ Run(x, c[x].heap) \subseteq m.used \cup r
                      /\ Req(c[x].size) <= c[x].heap
                      /\ Req(c[x].size) < c[x].heap => InRange(c[x])
    BY <1>10 DEF Fits
  <2>1. CASE x = a
    BY <1>3, <1>5, <1>9, <2>1
  <2>2. CASE x \in DOMAIN m.cell
    BY <1>9, <2>2 DEF CellInv, Fits
  <2> QED
    BY <1>9, <2>1, <2>2
<1>13. \A x \in DOMAIN m.cell : Run(x, c[x].heap) \cap r = {}
  BY <1>4, <1>9 DEF CellInv, Fits
<1>14. Apart(k)
  <2> SUFFICES ASSUME NEW x \in DOMAIN c, NEW y \in DOMAIN c, x # y
               PROVE  Run(x, c[x].heap) \cap Run(y, c[y].heap) = {}
    BY <1>10 DEF Apart
  <2>0. Run(a, c[a].heap) = r
    BY <1>3, <1>9
  <2>1. CASE x = a
    BY <1>9, <1>13, <2>0, <2>1
  <2>2. CASE y = a
    BY <1>9, <1>13, <2>0, <2>2
  <2>3. CASE x \in DOMAIN m.cell /\ y \in DOMAIN m.cell
    <3>1. Run(x, m.cell[x].heap) \cap Run(y, m.cell[y].heap) = {}
      BY <2>3 DEF CellInv, Apart
    <3> QED
      BY <1>9, <2>3, <3>1
  <2> QED
    BY <1>9, <2>1, <2>2, <2>3
<1>15. CacheSound(k)
  BY <1>9, <1>10 DEF CellInv, CacheSound
<1>16. a \notin Cached(m)
  BY <1>1, <1>7 DEF Cached, Range, CellInv, CacheSound
<1>17. LiveCells(k) = LiveCells(m) \cup {a} /\ a \notin LiveCells(m)
  BY <1>7, <1>9, <1>10, <1>16 DEF LiveCells, Cached
<1>18. Strays(k) \subseteq Strays(m)
  <2> SUFFICES ASSUME NEW b \in Strays(k) PROVE b \in Strays(m)
    OBVIOUS
  <2>1. b \in m.used \cup r /\ \A x \in DOMAIN c : b \notin Run(x, c[x].heap)
    BY <1>10 DEF Strays
  <2>2. b \notin r
    BY <1>3, <1>9, <2>1
  <2>3. \A x \in DOMAIN m.cell : b \notin Run(x, m.cell[x].heap)
    BY <1>9, <2>1
  <2> QED
    BY <2>1, <2>2, <2>3 DEF Strays
<1> QED
  BY <1>9, <1>10, <1>11, <1>12, <1>14, <1>15, <1>17, <1>18 DEF CellInv, LiveCells

(* arg_freeContent of a cell the cache takes: it stays what it is.         *)
LEMMA KeepInv ==
  ASSUME NEW m, CellInv(m), NEW a \in LiveCells(m), Cacheable(m, a), NEW k, k = FreeCell(m, a)
  PROVE  /\ CellInv(k) /\ LiveCells(k) = LiveCells(m) \ {a}
         /\ Strays(k) = Strays(m)
         /\ \A x \in LiveCells(m) : k.cell[x] = m.cell[x]
<1>1. /\ DOMAIN m.cell \subseteq Block /\ m.cell \in [DOMAIN m.cell -> [size : Nat, heap : Nat]]
      /\ m.cache_pool \in Seq(Block) /\ DOMAIN m.cache_pool = 1 .. Len(m.cache_pool)
      /\ Len(m.cache_pool) \in Nat
  BY CellTypes DEF CellInv
<1>2. m \in MemType /\ Len(m.cache_pool) < CachePoolSize
  BY DEF CellInv, MemTypes, Cacheable
<1>3. a \in DOMAIN m.cell /\ a \in Block /\ a \notin Cached(m)
  BY <1>1 DEF LiveCells
<1>4. PICK q, n : q = Append(m.cache_pool, a) /\ n = Len(m.cache_pool)
  OBVIOUS
<1>5. /\ q \in Seq(Block) /\ n \in Nat /\ Len(q) = n + 1 /\ DOMAIN q = 1 .. n + 1 /\ q[n + 1] = a
      /\ \A i \in 1 .. n : q[i] = m.cache_pool[i]
  BY <1>1, <1>3, <1>4
<1>6. /\ k \in MemType /\ k.used = m.used /\ k.cell = m.cell /\ k.cache_pool = q
  <2>1. PICK h \in Int : h = m.heapUsed - Req(m.cell[a].size)
    <3>1. m.cell[a].size \in Nat
      BY <1>1, <1>3
    <3> QED
      BY <1>2, <3>1, ReqCovers DEF MemType
  <2>2. k = [m EXCEPT !.cache_pool = q, !.heapUsed = h]
    BY <1>4, <2>1 DEF FreeCell
  <2> QED
    BY <1>2, <1>5, <2>2 DEF MemType
<1>7. MemTypes(k)
  BY <1>2, <1>4, <1>5, <1>6, CellAssumption DEF MemTypes
<1>8. Fits(k) /\ Apart(k)
  BY <1>6 DEF CellInv, Fits, Apart
<1>9. \A i \in 1 .. n + 1 : i = n + 1 \/ i \in 1 .. n
  BY <1>5
<1>10. \A i \in 1 .. n : m.cache_pool[i] # a
  BY <1>1, <1>3, <1>4 DEF Cached, Range
<1>11. CacheSound(k)
  <2>1. InRange(m.cell[a])
    BY DEF Cacheable, InRange
  <2>2. \A i \in 1 .. n + 1 : q[i] \in DOMAIN m.cell /\ InRange(m.cell[q[i]])
    BY <1>3, <1>4, <1>5, <1>9, <2>1 DEF CellInv, CacheSound
  <2>3. \A i, j \in 1 .. n : q[i] = q[j] => i = j
    BY <1>4, <1>5 DEF CellInv, CacheSound
  <2>4. \A i, j \in 1 .. n + 1 : q[i] = q[j] => i = j
    BY <1>5, <1>9, <1>10, <2>3
  <2> QED
    BY <1>5, <1>6, <2>2, <2>4 DEF CacheSound
<1>12. Cached(k) = Cached(m) \cup {a}
  <2>1. Cached(k) = {q[i] : i \in 1 .. n + 1} /\ Cached(m) = {m.cache_pool[i] : i \in 1 .. n}
    BY <1>1, <1>4, <1>5, <1>6 DEF Cached, Range
  <2>2. n + 1 \in 1 .. n + 1 /\ \A i \in 1 .. n : i \in 1 .. n + 1
    BY <1>5
  <2> QED
    BY <1>5, <1>9, <2>1, <2>2
<1> QED
  BY <1>6, <1>7, <1>8, <1>11, <1>12 DEF CellInv, LiveCells, Strays

(* arg_freeContent of a cell that goes back to the pool: it frees blocks   *)
(* of its own, and all of them unless it was reused for less, which is     *)
(* only the case for a cell the full cache refused.                        *)
LEMMA DropInv ==
  ASSUME NEW m, CellInv(m), NEW a \in LiveCells(m), ~Cacheable(m, a), NEW k, k = FreeCell(m, a)
  PROVE  /\ CellInv(k) /\ LiveCells(k) = LiveCells(m) \ {a}
         /\ \/ Strays(k) \subseteq Strays(m)
            \/ /\ Len(m.cache_pool) = CachePoolSize /\ a \notin DOMAIN k.cell
               /\ Req(m.cell[a].size) < m.cell[a].heap
         /\ \A x \in LiveCells(m) : x # a => k.cell[x] = m.cell[x]
<1>1. /\ DOMAIN m.cell \subseteq Block /\ DOMAIN m.cell \subseteq Nat
      /\ m.cell \in [DOMAIN m.cell -> [size : Nat, heap : Nat]]
      /\ m.cache_pool \in Seq(Block) /\ DOMAIN m.cache_pool = 1 .. Len(m.cache_pool)
      /\ Len(m.cache_pool) \in Nat
  BY CellTypes DEF CellInv
<1>2. m \in MemType /\ Len(m.cache_pool) <= CachePoolSize
  BY DEF CellInv, MemTypes
<1>3. a \in DOMAIN m.cell /\ a \in Nat /\ a \notin Cached(m)
  BY <1>1 DEF LiveCells
<1>4. PICK D, c : D = DOMAIN m.cell \ {a} /\ c = [x \in D |-> m.cell[x]]
  OBVIOUS
<1>5. /\ c \in [D -> [size : Nat, heap : Nat]] /\ DOMAIN c = D /\ D \subseteq DOMAIN m.cell
      /\ \A x \in D : c[x] = m.cell[x] /\ x # a /\ x \in DOMAIN m.cell
  BY <1>1, <1>4
<1>6. PICK s, w : s = Req(m.cell[a].size) /\ w = m.cell[a].heap
  OBVIOUS
<1>7. s \in Nat /\ w \in Nat /\ s <= w
  <2>1. m.cell[a].size \in Nat /\ m.cell[a].heap \in Nat
    BY <1>1, <1>3
  <2> QED
    BY <1>3, <1>6, <2>1, ReqCovers DEF CellInv, Fits
<1>8. Run(a, s) \subseteq Run(a, w)
  BY <1>3, <1>7, RunMono
<1>9. /\ k \in MemType /\ k.used = m.used \ Run(a, s) /\ k.cell = c
      /\ k.cache_pool = m.cache_pool
  <2>1. PICK h \in Int : h = m.heapUsed - s
    BY <1>2, <1>7 DEF MemType
  <2>2. c \in Cells
    BY <1>1, <1>5, CellsAre
  <2>3. k = [m EXCEPT !.used = @ \ Run(a, s), !.cell = c, !.heapUsed = h]
    BY <1>4, <1>6, <2>1 DEF FreeCell, FreedBytes
  <2> QED
    BY <1>2, <2>2, <2>3 DEF MemType
<1>10. MemTypes(k)
  BY <1>2, <1>9 DEF MemTypes
<1>11. \A x \in D : Run(x, c[x].heap) \cap Run(a, w) = {}
  BY <1>3, <1>5, <1>6 DEF CellInv, Apart
<1>12. Fits(k)
  <2> SUFFICES ASSUME NEW x \in D
               PROVE  /\ Run(x, c[x].heap) \subseteq m.used \ Run(a, s)
                      /\ Req(c[x].size) <= c[x].heap
                      /\ Req(c[x].size) < c[x].heap => InRange(c[x])
    BY <1>5, <1>9 DEF Fits
  <2>1. /\ Run(x, m.cell[x].heap) \subseteq m.used
        /\ Req(m.cell[x].size) <= m.cell[x].heap
        /\ Req(m.cell[x].size) < m.cell[x].heap => InRange(m.cell[x])
    BY <1>5 DEF CellInv, Fits
  <2> QED
    BY <1>5, <1>8, <1>11, <2>1
<1>13. Apart(k)
  <2> SUFFICES ASSUME NEW x \in D, NEW y \in D, x # y
               PROVE  Run(x, c[x].heap) \cap Run(y, c[y].heap) = {}
    BY <1>5, <1>9 DEF Apart
  <2>1. Run(x, m.cell[x].heap) \cap Run(y, m.cell[y].heap) = {}
    BY <1>5 DEF CellInv, Apart
  <2> QED
    BY <1>5, <2>1
<1>14. CacheSound(k)
  <2>1. \A i \in 1 .. Len(m.cache_pool) : m.cache_pool[i] \in D
    BY <1>1, <1>3, <1>4 DEF CellInv, CacheSound, Cached, Range
  <2>2. \A i \in 1 .. Len(m.cache_pool) : InRange(c[m.cache_pool[i]])
    BY <1>5, <2>1 DEF CellInv, CacheSound
  <2> QED
    BY <1>5, <1>9, <2>1, <2>2 DEF CellInv, CacheSound
<1>15. LiveCells(k) = LiveCells(m) \ {a}
  BY <1>4, <1>5, <1>9 DEF LiveCells, Cached
<1>16. CASE s = w
  <2> SUFFICES ASSUME NEW b \in Strays(k) PROVE b \in Strays(m)
    BY <1>5, <1>9, <1>10, <1>12, <1>13, <1>14, <1>15 DEF CellInv, LiveCells
  <2>1. b \in m.used /\ b \notin Run(a, w) /\ \A x \in D : b \notin Run(x, c[x].heap)
    BY <1>5, <1>9, <1>16 DEF Strays
  <2>2. \A x \in DOMAIN m.cell : b \notin Run(x, m.cell[x].heap)
    BY <1>4, <1>5, <1>6, <2>1
  <2> QED
    BY <2>1, <2>2 DEF Strays
<1>17. CASE s < w
  <2>1. InRange(m.cell[a])
    BY <1>3, <1>6, <1>17 DEF CellInv, Fits
  <2>2. Len(m.cache_pool) = CachePoolSize
    BY <1>1, <1>2, <1>6, <1>7, <2>1, CellAssumption DEF Cacheable, InRange
  <2>3. a \notin DOMAIN k.cell
    BY <1>5, <1>9
  <2> QED
    BY <1>4, <1>5, <1>6, <1>9, <1>10, <1>12, <1>13, <1>14, <1>15, <1>17, <2>2, <2>3 DEF CellInv, LiveCells
<1> QED
  BY <1>7, <1>16, <1>17

(* Growing in place needs a larger allocation, so the content still fits.  *)
LEMMA GrowCells ==
  ASSUME NEW m, CellInv(m), NEW a \in LiveCells(m), NEW extra \in Nat, InPlace(m, a, extra),
         NEW k, k = Grown(m, a, extra)
  PROVE  CellInv(k) /\ LiveCells(k) = LiveCells(m) /\ Strays(k) = Strays(m)
<1>1. /\ DOMAIN m.cell \subseteq Block
      /\ m.cell \in [DOMAIN m.cell -> [size : Nat, heap : Nat]]
  BY CellTypes DEF CellInv
<1>2. m \in MemType /\ Len(m.cache_pool) <= CachePoolSize
  BY DEF CellInv, MemTypes
<1>3. a \in DOMAIN m.cell
  BY DEF LiveCells
<1>4. PICK n : n = m.cell[a].size + extra
  OBVIOUS
<1>5. m.cell[a].size \in Nat /\ m.cell[a].heap \in Nat /\ n \in Nat
  BY <1>1, <1>3, <1>4
<1>6. PICK c : c = [m.cell EXCEPT ![a].size = n]
  OBVIOUS
<1>7. /\ c \in [DOMAIN m.cell -> [size : Nat, heap : Nat]] /\ DOMAIN c = DOMAIN m.cell
      /\ \A x \in DOMAIN m.cell : x # a => c[x] = m.cell[x]
      /\ \A x \in DOMAIN m.cell : c[x].heap = m.cell[x].heap
      /\ c[a].size = n
  BY <1>1, <1>3, <1>5, <1>6
<1>8. /\ k \in MemType /\ k.used = m.used /\ k.cell = c /\ k.cache_pool = m.cache_pool
  <2>1. PICK h \in Int : h = m.heapUsed + Req(m.cell[a].size + extra) - Req(m.cell[a].size)
    <3>1. Req(m.cell[a].size + extra) \in Nat /\ Req(m.cell[a].size) \in Nat
      BY <1>4, <1>5, ReqCovers
    <3> QED
      BY <1>2, <3>1 DEF MemType
  <2>2. c \in Cells
    BY <1>1, <1>7, CellsAre
  <2>3. k = [m EXCEPT !.cell = c, !.heapUsed = h]
    BY <1>4, <1>6, <2>1 DEF Grown
  <2> QED
    BY <1>2, <2>2, <2>3 DEF MemType
<1>9. Req(n) < m.cell[a].heap /\ Req(m.cell[a].size) < m.cell[a].heap
  <2>1. m.cell[a].heap > Req(n)
    BY <1>4 DEF InPlace
  <2>2. Req(m.cell[a].size) <= Req(n)
    BY <1>4, <1>5, CellAssumption DEF Req, mem_align
  <2>3. Req(n) \in Nat /\ Req(m.cell[a].size) \in Nat
    BY <1>5, ReqCovers
  <2> QED
    BY <1>5, <2>1, <2>2, <2>3
<1>10. Fits(k)
  <2> SUFFICES ASSUME NEW x \in DOMAIN m.cell
               PROVE  /\ Run(x, c[x].heap) \subseteq m.used
                      /\ Req(c[x].size) <= c[x].heap
                      /\ Req(c[x].size) < c[x].heap => InRange(c[x])
    BY <1>7, <1>8 DEF Fits
  <2>1. /\ Run(x, m.cell[x].heap) \subseteq m.used
        /\ Req(m.cell[x].size) <= m.cell[x].heap
        /\ Req(m.cell[x].size) < m.cell[x].heap => InRange(m.cell[x])
    BY DEF CellInv, Fits
  <2>2. CASE x = a
    <3>1. InRange(m.cell[a]) /\ Req(n) <= m.cell[a].heap
      BY <1>5, <1>9, <2>1, <2>2, ReqCovers
    <3>2. InRange(c[a])
      BY <1>3, <1>7, <3>1 DEF InRange
    <3> QED
      BY <1>7, <2>1, <2>2, <3>1, <3>2
  <2>3. CASE x # a
    BY <1>7, <2>1, <2>3
  <2> QED
    BY <2>2, <2>3
<1>11. Apart(k)
  <2> SUFFICES ASSUME NEW x \in DOMAIN m.cell, NEW y \in DOMAIN m.cell, x # y
               PROVE  Run(x, c[x].heap) \cap Run(y, c[y].heap) = {}
    BY <1>7, <1>8 DEF Apart
  <2>1. Run(x, m.cell[x].heap) \cap Run(y, m.cell[y].heap) = {}
    BY DEF CellInv, Apart
  <2> QED
    BY <1>7, <2>1
<1>12. CacheSound(k)
  <2>1. \A i \in 1 .. Len(m.cache_pool) : /\ m.cache_pool[i] \in DOMAIN m.cell
                                          /\ InRange(m.cell[m.cache_pool[i]])
    BY DEF CellInv, CacheSound
  <2>2. \A x \in DOMAIN m.cell : InRange(m.cell[x]) => InRange(c[x])
    BY <1>7 DEF InRange
  <2>3. \A i \in 1 .. Len(m.cache_pool) : /\ m.cache_pool[i] \in DOMAIN c
                                          /\ InRange(c[m.cache_pool[i]])
    BY <1>7, <2>1, <2>2
  <2>4. \A i, j \in 1 .. Len(m.cache_pool) : m.cache_pool[i] = m.cache_pool[j] => i = j
    BY DEF CellInv, CacheSound
  <2> QED
    BY <1>8, <2>3, <2>4 DEF CacheSound
<1>13. Strays(k) = Strays(m)
  <2>1. {Run(x, k.cell[x].heap) : x \in DOMAIN k.cell} = {Run(x, m.cell[x].heap) : x \in DOMAIN m.cell}
    BY <1>7, <1>8
  <2> QED
    BY <1>8, <2>1 DEF Strays
<1> QED
  BY <1>2, <1>7, <1>8, <1>10, <1>11, <1>12, <1>13 DEF CellInv, MemTypes, LiveCells, Cached

-----------------------------------------------------------------------------
(* The args of H own the live cells, one each, through f.                  *)
Own(m, f, H) ==
  /\ LiveCells(m) = {f[t] : t \in H}
  /\ \A t, u \in H : t # u => f[t] # f[u]

(* What LostOnlyWhenCacheFull allows of the blocks from m to k.            *)
LostRight(m, k) ==
  \/ Strays(k) \subseteq Strays(m)
  \/ /\ Len(m.cache_pool) = CachePoolSize
     /\ \E a \in LiveCells(m) : /\ a \notin DOMAIN k.cell
                                /\ Req(m.cell[a].size) < m.cell[a].heap

(* The count of the heap follows the sum of the requests: one more live    *)
(* cell, one less, one with another size.                                  *)
LEMMA AskedNat ==
  ASSUME NEW m, CellInv(m)
  PROVE  /\ Asked(m) \in [LiveCells(m) -> Int]
         /\ \A x \in LiveCells(m) : Asked(m)[x] = Req(m.cell[x].size)
<1>1. \A x \in LiveCells(m) : m.cell[x].size \in Nat
  BY CellTypes DEF CellInv, LiveCells
<1> QED
  BY <1>1, ReqCovers DEF Asked

LEMMA CountNew ==
  ASSUME NEW m, MemInv(m), NEW k, CellInv(k), NEW a \in LiveCells(k), a \notin LiveCells(m), NEW size,
         \A x : x \in LiveCells(k) <=> x \in LiveCells(m) \/ x = a, k.cell[a].size = size,
         \A x \in LiveCells(m) : k.cell[x] = m.cell[x],
         k.heapUsed = m.heapUsed + Req(size)
  PROVE  Counted(k)
<1> DEFINE S == LiveCells(m)
           U == LiveCells(k)
           w == Asked(m)
           v == Asked(k)
<1>1. IsFiniteSet(S) /\ m.heapUsed = SumFunction(w)
  BY DEF MemInv, Counted
<1>2. /\ w \in [S -> Int] /\ \A x \in S : w[x] = Req(m.cell[x].size)
      /\ v \in [U -> Int] /\ \A x \in U : v[x] = Req(k.cell[x].size)
  BY AskedNat DEF MemInv
<1>3. \A x \in S : v[x] = w[x]
  BY <1>2
<1>4. v[a] = Req(size) /\ v[a] \in Int
  BY <1>2
<1>5. IsFiniteSet(LiveCells(k))
  <2>1. IsFiniteSet(LiveCells(m) \cup {a})
    BY <1>1, FS_AddElement
  <2>2. LiveCells(k) = LiveCells(m) \cup {a}
    OBVIOUS
  <2> QED
    BY <2>1, <2>2, Zenon
<1>6. a \notin S /\ \A x : x \in U <=> x \in S \/ x = a
  OBVIOUS
<1> HIDE DEF S, U, w, v
<1>7. SumFunction(w) \in Int /\ SumFunction(v) = SumFunction(w) + v[a]
  BY <1>1, <1>2, <1>3, <1>4, <1>6, SumAdd
<1>8. k.heapUsed = SumFunction(v)
  BY <1>1, <1>4, <1>7
<1> QED
  BY <1>5, <1>8, Zenon DEF Counted, v

LEMMA CountFree ==
  ASSUME NEW m, MemInv(m), NEW k, CellInv(k), NEW a \in LiveCells(m),
         LiveCells(k) = LiveCells(m) \ {a},
         \A x \in LiveCells(m) : x # a => k.cell[x] = m.cell[x],
         k.heapUsed = m.heapUsed - Req(m.cell[a].size)
  PROVE  Counted(k)
<1> DEFINE S == LiveCells(k)
           w == Asked(k)
           v == Asked(m)
<1>1. IsFiniteSet(LiveCells(m)) /\ m.heapUsed = SumFunction(v)
  BY DEF MemInv, Counted
<1>2. IsFiniteSet(S) /\ a \notin S /\ S \cup {a} = LiveCells(m)
  BY <1>1, FS_RemoveElement
<1>3. /\ w \in [S -> Int] /\ \A x \in S : w[x] = Req(k.cell[x].size)
      /\ v \in [LiveCells(m) -> Int] /\ \A x \in LiveCells(m) : v[x] = Req(m.cell[x].size)
  BY AskedNat DEF MemInv
<1>4. \A x \in S : v[x] = w[x]
  BY <1>3
<1>5. v[a] = Req(m.cell[a].size) /\ v[a] \in Int
  BY <1>2, <1>3
<1> HIDE DEF S, w, v
<1>6. SumFunction(w) \in Int /\ SumFunction(v) = SumFunction(w) + v[a]
  BY <1>2, <1>3, <1>4, <1>5, SumAdd
<1>7. k.heapUsed = SumFunction(w)
  BY <1>1, <1>5, <1>6
<1> QED
  BY <1>2, <1>7, Zenon DEF Counted, S, w

LEMMA CountGrow ==
  ASSUME NEW m, MemInv(m), NEW k, CellInv(k), NEW a \in LiveCells(m),
         LiveCells(k) = LiveCells(m),
         \A x \in LiveCells(m) : x # a => k.cell[x] = m.cell[x],
         k.heapUsed = m.heapUsed + Req(k.cell[a].size) - Req(m.cell[a].size)
  PROVE  Counted(k)
<1> DEFINE S == LiveCells(m)
           w == Asked(m)
           v == Asked(k)
<1>1. IsFiniteSet(S) /\ m.heapUsed = SumFunction(w)
  BY DEF MemInv, Counted
<1>2. /\ w \in [S -> Int] /\ \A x \in S : w[x] = Req(m.cell[x].size)
      /\ v \in [S -> Int] /\ \A x \in S : v[x] = Req(k.cell[x].size)
  BY AskedNat DEF MemInv
<1>3. \A x \in S \ {a} : v[x] = w[x]
  BY <1>2
<1>4. v[a] = Req(k.cell[a].size) /\ w[a] = Req(m.cell[a].size)
  BY <1>2
<1> HIDE DEF w, v
<1>6. SumFunction(v) = SumFunction(w) + v[a] - w[a]
  BY <1>1, <1>2, <1>3, SumChange
<1> QED
  BY <1>1, <1>4, <1>6 DEF Counted, v

(* Both ways to a new cell, and both ends of one.                          *)
LEMMA NewInv ==
  ASSUME NEW m, MemInv(m), NEW size \in Nat, NEW a \in Places(m, size), NEW k, k = NewCell(m, a, size)
  PROVE  /\ MemInv(k) /\ a \in Nat
         /\ LiveCells(k) = LiveCells(m) \cup {a} /\ a \notin LiveCells(m)
         /\ Strays(k) \subseteq Strays(m)
         /\ \/ k.cache_pool = m.cache_pool /\ Req(size) = k.cell[a].heap
            \/ Len(k.cache_pool) < CachePoolSize
         /\ k.cell[a].size = size
         /\ \A x \in LiveCells(m) : x # a /\ k.cell[x] = m.cell[x]
<1>0. m \in MemType
  BY DEF MemInv, CellInv, MemTypes
<1>1. CASE CacheHit(m, size)
  <2>1. /\ CellInv(k)
         /\ LiveCells(k) = LiveCells(m) \cup {a} /\ a \notin LiveCells(m)
         /\ Strays(k) = Strays(m)
         /\ Len(k.cache_pool) < CachePoolSize
         /\ k.cell[a].size = size
         /\ \A x \in LiveCells(m) : x # a /\ k.cell[x] = m.cell[x]
    BY <1>1, HitInv DEF MemInv
  <2>2. a \in Nat
    BY <2>1, CellTypes DEF CellInv, LiveCells
  <2>3. k.heapUsed = m.heapUsed + Req(size)
    BY <1>1, <1>0 DEF NewCell
  <2>4. MemInv(k)
    BY <2>1, <2>3, CountNew DEF MemInv
  <2> QED
    BY <2>1, <2>2, <2>4
<1>2. CASE ~CacheHit(m, size)
  <2>1. /\ CellInv(k)
         /\ LiveCells(k) = LiveCells(m) \cup {a} /\ a \notin LiveCells(m)
         /\ Strays(k) \subseteq Strays(m) /\ Req(size) = k.cell[a].heap
         /\ k.cache_pool = m.cache_pool
         /\ k.cell[a].size = size
         /\ \A x \in LiveCells(m) : x # a /\ k.cell[x] = m.cell[x]
    BY <1>2, FreshInv DEF MemInv
  <2>2. a \in Nat
    BY <2>1, CellTypes DEF CellInv, LiveCells
  <2>3. k.heapUsed = m.heapUsed + Req(size)
    BY <1>2, <1>0 DEF NewCell
  <2>4. MemInv(k)
    BY <2>1, <2>3, CountNew DEF MemInv
  <2> QED
    BY <2>1, <2>2, <2>4
<1> QED
  BY <1>1, <1>2

LEMMA FreeInv ==
  ASSUME NEW m, MemInv(m), NEW a \in LiveCells(m), NEW k, k = FreeCell(m, a)
  PROVE  /\ MemInv(k) /\ LiveCells(k) = LiveCells(m) \ {a}
         /\ \/ Strays(k) \subseteq Strays(m)
            \/ /\ Len(m.cache_pool) = CachePoolSize /\ a \notin DOMAIN k.cell
               /\ Req(m.cell[a].size) < m.cell[a].heap
         /\ \A x \in LiveCells(m) : x # a => k.cell[x] = m.cell[x]
<1>1. /\ CellInv(k) /\ LiveCells(k) = LiveCells(m) \ {a}
      /\ \/ Strays(k) \subseteq Strays(m)
         \/ /\ Len(m.cache_pool) = CachePoolSize /\ a \notin DOMAIN k.cell
            /\ Req(m.cell[a].size) < m.cell[a].heap
      /\ \A x \in LiveCells(m) : x # a => k.cell[x] = m.cell[x]
  <2>1. CASE Cacheable(m, a)
    BY <2>1, KeepInv DEF MemInv
  <2>2. CASE ~Cacheable(m, a)
    BY <2>2, DropInv DEF MemInv
  <2> QED
    BY <2>1, <2>2
<1>2. k.heapUsed = m.heapUsed - Req(m.cell[a].size)
  <2>1. m \in MemType
    BY DEF MemInv, CellInv, MemTypes
  <2> QED
    BY <2>1 DEF FreeCell, MemType
<1>3. Counted(k)
  BY <1>1, <1>2, CountFree DEF MemInv
<1> QED
  BY <1>1, <1>3 DEF MemInv

(* Growing in place.                                                       *)
LEMMA GrowInv ==
  ASSUME NEW m, MemInv(m), NEW a \in LiveCells(m), NEW extra \in Nat, InPlace(m, a, extra),
         NEW k, k = Grown(m, a, extra)
  PROVE  MemInv(k) /\ LiveCells(k) = LiveCells(m) /\ Strays(k) = Strays(m)
<1>1. CellInv(k) /\ LiveCells(k) = LiveCells(m) /\ Strays(k) = Strays(m)
  BY GrowCells DEF MemInv
<1>2. m \in MemType /\ a \in DOMAIN m.cell /\ m.cell \in [DOMAIN m.cell -> [size : Nat, heap : Nat]]
  BY CellTypes DEF MemInv, CellInv, MemTypes, LiveCells
<1>3. /\ k.heapUsed = m.heapUsed + Req(k.cell[a].size) - Req(m.cell[a].size)
      /\ \A x \in DOMAIN m.cell : x # a => k.cell[x] = m.cell[x]
  <2>1. k.cell = [m.cell EXCEPT ![a].size = @ + extra]
    BY <1>2 DEF Grown, MemType
  <2>2. k.cell[a].size = m.cell[a].size + extra
    BY <1>2, <2>1
  <2>3. k.heapUsed = m.heapUsed + Req(m.cell[a].size + extra) - Req(m.cell[a].size)
    BY <1>2 DEF Grown, MemType
  <2> QED
    BY <1>2, <2>1, <2>2, <2>3
<1>4. Counted(k)
  BY <1>1, <1>3, CountGrow DEF MemInv, LiveCells
<1> QED
  BY <1>1, <1>4 DEF MemInv

(* An arg gets a cell.                                                     *)
LEMMA OwnNew ==
  ASSUME NEW m, NEW f \in [Tok -> Nat], NEW H \in SUBSET Tok, MemInv(m), Own(m, f, H),
         NEW t \in Tok, t \notin H, NEW size \in Nat, NEW a \in Places(m, size),
         NEW k, k = NewCell(m, a, size), NEW g, g = [f EXCEPT ![t] = a]
  PROVE  MemInv(k) /\ g \in [Tok -> Nat] /\ Own(k, g, H \cup {t}) /\ LostRight(m, k)
<1>1. /\ MemInv(k) /\ a \in Nat
      /\ LiveCells(k) = LiveCells(m) \cup {a} /\ a \notin LiveCells(m)
      /\ Strays(k) \subseteq Strays(m)
  BY NewInv
<1>2. g \in [Tok -> Nat] /\ g[t] = a /\ \A u \in H : u # t /\ g[u] = f[u]
  BY <1>1
<1>3. \A u \in H : f[u] # a
  BY <1>1 DEF Own
<1>4. Own(k, g, H \cup {t})
  <2>1. {g[u] : u \in H \cup {t}} = {f[u] : u \in H} \cup {a}
    BY <1>2
  <2>2. \A u, v \in H \cup {t} : u # v => g[u] # g[v]
    BY <1>2, <1>3 DEF Own
  <2> QED
    BY <1>1, <2>1, <2>2 DEF Own
<1> QED
  BY <1>1, <1>2, <1>4 DEF LostRight

(* An arg releases its cell.                                               *)
LEMMA OwnFree ==
  ASSUME NEW m, NEW f \in [Tok -> Nat], NEW H \in SUBSET Tok, MemInv(m), Own(m, f, H),
         NEW t \in H, NEW k, k = FreeCell(m, f[t]), NEW g, g = [f EXCEPT ![t] = 0]
  PROVE  MemInv(k) /\ g \in [Tok -> Nat] /\ Own(k, g, H \ {t}) /\ LostRight(m, k)
<1>1. PICK a : a = f[t]
  OBVIOUS
<1>2. a \in LiveCells(m)
  BY <1>1 DEF Own
<1>3. /\ MemInv(k) /\ LiveCells(k) = LiveCells(m) \ {a}
      /\ \/ Strays(k) \subseteq Strays(m)
         \/ /\ Len(m.cache_pool) = CachePoolSize /\ a \notin DOMAIN k.cell
            /\ Req(m.cell[a].size) < m.cell[a].heap
  BY <1>1, <1>2, FreeInv
<1>4. g \in [Tok -> Nat] /\ \A u \in H \ {t} : g[u] = f[u]
  OBVIOUS
<1>5. \A u \in H \ {t} : f[u] # a
  BY <1>1 DEF Own
<1>6. Own(k, g, H \ {t})
  <2>1. {g[u] : u \in H \ {t}} = {f[u] : u \in H} \ {a}
    BY <1>1, <1>4, <1>5
  <2>2. \A u, v \in H \ {t} : u # v => g[u] # g[v]
    BY <1>4 DEF Own
  <2> QED
    BY <1>3, <2>1, <2>2 DEF Own
<1>7. LostRight(m, k)
  BY <1>2, <1>3 DEF LostRight
<1> QED
  BY <1>3, <1>4, <1>6, <1>7

(* An arg moves to a new cell. The cache, if it was full, still is when    *)
(* the old cell is freed only if the new one was not taken from it.        *)
LEMMA MoveInv ==
  ASSUME NEW m, MemInv(m), NEW b \in LiveCells(m), NEW size \in Nat, NEW a \in Places(m, size),
         NEW k, k = FreeCell(NewCell(m, a, size), b)
  PROVE  /\ MemInv(k) /\ LostRight(m, k) /\ a \in Nat /\ a \notin LiveCells(m)
         /\ LiveCells(k) = (LiveCells(m) \cup {a}) \ {b}
<1>0. PICK l : l = NewCell(m, a, size)
  OBVIOUS
<1>1. /\ MemInv(l) /\ a \in Nat
      /\ LiveCells(l) = LiveCells(m) \cup {a} /\ a \notin LiveCells(m)
      /\ Strays(l) \subseteq Strays(m)
      /\ l.cache_pool = m.cache_pool \/ Len(l.cache_pool) < CachePoolSize
      /\ \A x \in LiveCells(m) : x # a /\ l.cell[x] = m.cell[x]
  BY <1>0, NewInv
<1>2. b \in LiveCells(l) /\ b # a /\ l.cell[b] = m.cell[b]
  BY <1>1
<1>3. k = FreeCell(l, b)
  BY <1>0
<1>4. /\ MemInv(k) /\ LiveCells(k) = LiveCells(l) \ {b}
      /\ \/ Strays(k) \subseteq Strays(l)
         \/ /\ Len(l.cache_pool) = CachePoolSize /\ b \notin DOMAIN k.cell
            /\ Req(l.cell[b].size) < l.cell[b].heap
  BY <1>1, <1>2, <1>3, FreeInv
<1>5. LostRight(m, k)
  <2>1. CASE Strays(k) \subseteq Strays(l)
    BY <1>1, <2>1 DEF LostRight
  <2>2. CASE /\ Len(l.cache_pool) = CachePoolSize /\ b \notin DOMAIN k.cell
             /\ Req(l.cell[b].size) < l.cell[b].heap
    <3>1. l.cache_pool = m.cache_pool
      BY <1>1, <2>2, CellAssumption
    <3>2. Len(m.cache_pool) = CachePoolSize
      BY <2>2, <3>1
    <3>3. Req(m.cell[b].size) < m.cell[b].heap
      BY <1>2, <2>2
    <3> QED
      BY <2>2, <3>2, <3>3 DEF LostRight
  <2> QED
    BY <1>4, <2>1, <2>2
<1> QED
  BY <1>1, <1>4, <1>5

LEMMA OwnMove ==
  ASSUME NEW m, NEW f \in [Tok -> Nat], NEW H \in SUBSET Tok, Own(m, f, H), NEW t \in H,
         NEW a \in Nat, a \notin LiveCells(m),
         NEW k, LiveCells(k) = (LiveCells(m) \cup {a}) \ {f[t]},
         NEW g, g = [f EXCEPT ![t] = a]
  PROVE  g \in [Tok -> Nat] /\ Own(k, g, H)
<1>1. PICK b : b = f[t]
  OBVIOUS
<1>2. b \in LiveCells(m) /\ b # a
  BY <1>1 DEF Own
<1>3. g \in [Tok -> Nat] /\ g[t] = a /\ \A u \in H \ {t} : g[u] = f[u]
  OBVIOUS
<1>4. \A u \in H : f[u] # a
  BY DEF Own
<1>5. \A u \in H \ {t} : f[u] # b
  BY <1>1 DEF Own
<1>6. {g[u] : u \in H} = ({f[u] : u \in H} \cup {a}) \ {b}
  BY <1>1, <1>2, <1>3, <1>5
<1>7. \A u, v \in H : u # v => g[u] # g[v]
  BY <1>3, <1>4 DEF Own
<1>8. LiveCells(k) = ({f[u] : u \in H} \cup {a}) \ {b}
  BY <1>1 DEF Own
<1> QED
  BY <1>3, <1>6, <1>7, <1>8 DEF Own

(* A copy that is released at once leaves everything to the others.        *)
LEMMA OwnCopy ==
  ASSUME NEW m, NEW f \in [Tok -> Nat], NEW H \in SUBSET Tok, MemInv(m), Own(m, f, H),
         NEW size \in Nat, NEW a \in Places(m, size), NEW k, k = FreeCell(NewCell(m, a, size), a)
  PROVE  MemInv(k) /\ Own(k, f, H) /\ LostRight(m, k)
<1>0. PICK l : l = NewCell(m, a, size)
  OBVIOUS
<1>1. /\ MemInv(l) /\ a \in LiveCells(l)
      /\ LiveCells(l) = LiveCells(m) \cup {a} /\ a \notin LiveCells(m)
      /\ Strays(l) \subseteq Strays(m) /\ l.cell[a].size = size
      /\ Req(size) = l.cell[a].heap \/ Len(l.cache_pool) < CachePoolSize
  BY <1>0, NewInv
<1>2. k = FreeCell(l, a)
  BY <1>0
<1>3. /\ MemInv(k) /\ LiveCells(k) = LiveCells(l) \ {a}
      /\ \/ Strays(k) \subseteq Strays(l)
         \/ Len(l.cache_pool) = CachePoolSize /\ Req(l.cell[a].size) < l.cell[a].heap
  BY <1>1, <1>2, FreeInv
<1>4. Strays(k) \subseteq Strays(l)
  <2>1. Req(size) \in Nat /\ CachePoolSize \in Nat
    BY ReqCovers, CellAssumption
  <2> QED
    BY <1>1, <1>3, <2>1
<1> QED
  BY <1>1, <1>3, <1>4 DEF Own, LostRight

-----------------------------------------------------------------------------
(* The args on the heap, and how the steps of the stack change them.       *)
Heaped == {t \in Tok : OnHeap(t)}

LEMMA OnHeapIs ==
  ASSUME Inv, NEW t \in Tok
  PROVE  OnHeap(t) <=> \/ hand[t] = "heap"
                       \/ \E i \in Entries : T(i) = t /\ size_array[i - 1] = -1
<1>1. DOMAIN base = Entries
  BY DEF Inv, Types, Entries
<1>2. \A i \in Entries : Entry(i) = T(i)
  BY EntryIs DEF Inv
<1> QED
  BY <1>1, <1>2 DEF OnHeap

(* The same for every arg, and after a step.                               *)
LEMMA OnHeapIs2 ==
  Inv => \A t \in Tok : OnHeap(t) <=> \/ hand[t] = "heap"
                                      \/ \E i \in Entries : T(i) = t /\ size_array[i - 1] = -1
  BY OnHeapIs

LEMMA OnHeapIs3 ==
  Inv' => (\A t \in Tok : OnHeap(t) <=> \/ hand[t] = "heap"
                                        \/ \E i \in Entries : T(i) = t /\ size_array[i - 1] = -1)'
  BY OnHeapIs2, PTL

(* The steps that move nothing between the hand, the stack and the heap.   *)
LEMMA HeapStays ==
  ASSUME Inv, Inv', UNCHANGED hand, UNCHANGED <<payload, size_array, base>>
  PROVE  Heaped' = Heaped
<1>1. Entries' = Entries /\ (\A i : T(i)' = T(i)) /\ size_array' = size_array
  BY DEF Entries, T
<1> QED
  BY <1>1, OnHeapIs2, OnHeapIs3 DEF Heaped

(* An arg that is not on the stack comes into the hand, or leaves it.      *)
LEMMA HeapHand ==
  ASSUME Inv, Inv', NEW t \in Tok, NEW form \in {"no", "reg", "heap"},
         UNCHANGED <<payload, size_array, base>>,
         hand' = [hand EXCEPT ![t] = form], \A i \in Entries : T(i) # t
  PROVE  Heaped' = IF form = "heap" THEN Heaped \cup {t} ELSE Heaped \ {t}
<1>1. Entries' = Entries /\ (\A i : T(i)' = T(i)) /\ size_array' = size_array
  BY DEF Entries, T
<1>2. hand'[t] = form /\ \A u \in Tok : u # t => hand'[u] = hand[u]
  BY DEF Inv, Types
<1>3. ASSUME NEW u \in Tok PROVE u \in Heaped' <=> IF u = t THEN form = "heap" ELSE u \in Heaped
  BY <1>1, <1>2, OnHeapIs2, OnHeapIs3 DEF Heaped
<1>4. Heaped' \subseteq Tok /\ Heaped \subseteq Tok
  BY DEF Heaped
<1> QED
  BY <1>3, <1>4

(* An arg that is made, and one that is released.                          *)
LEMMA HeapObtain ==
  ASSUME Inv, Inv', NEW t \in Tok, NEW form \in {"reg", "heap"}, Obtain(t, form)
  PROVE  t \notin Heaped /\ Heaped' = IF form = "heap" THEN Heaped \cup {t} ELSE Heaped
<1>1. hand[t] = "no" /\ t \notin Stacked /\ UNCHANGED <<payload, size_array, base>>
      /\ hand' = [hand EXCEPT ![t] = form]
  BY DEF Obtain, buffers
<1>2. \A i \in Entries : T(i) # t
  <2>1. DOMAIN base = Entries
    BY DEF Inv, Types, Entries
  <2>2. \A i \in Entries : Entry(i) = T(i)
    BY EntryIs DEF Inv
  <2> QED
    BY <1>1, <2>1, <2>2 DEF Stacked
<1>3. t \notin Heaped
  BY <1>1, <1>2, OnHeapIs DEF Heaped
<1> QED
  BY <1>1, <1>2, <1>3, HeapHand

LEMMA HeapDiscard ==
  ASSUME Inv, Inv', NEW t \in Tok, Discard(t)
  PROVE  (hand[t] = "heap" <=> t \in Heaped) /\ Heaped' = Heaped \ {t}
<1>1. hand[t] # "no" /\ UNCHANGED <<payload, size_array, base>> /\ hand' = [hand EXCEPT ![t] = "no"]
  BY DEF Discard, buffers
<1>2. \A i \in Entries : T(i) # t
  BY <1>1 DEF Inv, Args
<1>3. hand[t] = "heap" <=> t \in Heaped
  BY <1>2, OnHeapIs DEF Heaped
<1> QED
  BY <1>1, <1>2, <1>3, HeapHand

(* Pushing an arg on the heap pushes its pointer.                          *)
LEMMA HeapPush ==
  ASSUME Inv, Inv', NEW t \in Tok, stack_pushArg(t)
  PROVE  Heaped' = Heaped
<1>0. PICK n : n = Len(base)
  OBVIOUS
<1>1. /\ Entries' = Entries \cup {n + 1} /\ n + 1 \notin Entries
      /\ \A i \in Entries : size_array'[i - 1] = size_array[i - 1] /\ T(i)' = T(i)
      /\ size_array'[n] = PushedSize(t) /\ T(n + 1)' = t
  BY <1>0, PushEntries
<1>2. hand[t] \in {"reg", "heap"} /\ hand'[t] = "no" /\ \A u \in Tok : u # t => hand'[u] = hand[u]
  BY DEF Inv, Types, stack_pushArg
<1>3. \A i \in Entries : T(i) # t
  BY <1>2 DEF Inv, Args
<1>4. size_array'[n] = -1 <=> hand[t] = "heap"
  BY <1>1, StackAssumption DEF PushedSize
<1>5. n + 1 - 1 = n /\ n \in Nat
  BY <1>0 DEF Inv, Types
<1>6. ASSUME NEW u \in Tok, u # t PROVE u \in Heaped' <=> u \in Heaped
  <2>1. (\E i \in Entries' : T(i)' = u /\ size_array'[i - 1] = -1)
          <=> \E i \in Entries : T(i) = u /\ size_array[i - 1] = -1
    BY <1>1, <1>6
  <2> QED
    BY <1>2, <1>6, <2>1, OnHeapIs2, OnHeapIs3 DEF Heaped
<1>7. t \in Heaped' <=> t \in Heaped
  <2>1. t \in Heaped <=> hand[t] = "heap"
    BY <1>3, OnHeapIs2 DEF Heaped
  <2>2. (\E i \in Entries' : T(i)' = t /\ size_array'[i - 1] = -1) <=> hand[t] = "heap"
    BY <1>1, <1>3, <1>4, <1>5
  <2>3. t \in Heaped' <=> hand[t] = "heap"
    BY <1>2, <2>2, OnHeapIs3 DEF Heaped
  <2> QED
    BY <2>1, <2>3
<1>8. Heaped' \subseteq Tok /\ Heaped \subseteq Tok
  BY DEF Heaped
<1> QED
  BY <1>6, <1>7, <1>8

(* The overflow handler is called with the size written behind the entries. *)
LEMMA HeapOverflow ==
  ASSUME Inv, Inv', NEW t \in Tok, Overflow(t)
  PROVE  Heaped' = Heaped
<1>1. /\ UNCHANGED <<payload, hand, base>> /\ phase # "halt"
      /\ size_array' = [size_array EXCEPT ![sp_size] = PushedSize(t)]
  BY DEF Overflow, stack_pushSize
<1>2. Entries' = Entries /\ \A i : T(i)' = T(i)
  BY <1>1 DEF Entries, T
<1>3. \A i \in Entries : size_array'[i - 1] = size_array[i - 1]
  <2>1. sp_size = Len(base) /\ Len(base) \in Nat /\ size_array \in [0 .. Cap - 1 -> Int] /\ Len(base) < Cap
    BY <1>1 DEF Inv, Types, Counts
  <2>2. \A i \in Entries : i - 1 \in 0 .. Cap - 1 /\ i - 1 # sp_size
    BY <2>1, CapBounds DEF Entries
  <2> QED
    BY <1>1, <2>1, <2>2
<1>4. ASSUME NEW u \in Tok PROVE u \in Heaped' <=> u \in Heaped
  <2>1. (\E i \in Entries' : T(i)' = u /\ size_array'[i - 1] = -1)
          <=> \E i \in Entries : T(i) = u /\ size_array[i - 1] = -1
    BY <1>2, <1>3
  <2> QED
    BY <1>1, <2>1, OnHeapIs2, OnHeapIs3 DEF Heaped
<1>5. Heaped' \subseteq Tok /\ Heaped \subseteq Tok
  BY DEF Heaped
<1> QED
  BY <1>4, <1>5

(* Popping an entry: the others stay, the arg taken off is on the heap     *)
(* after it if it is there in hand.                                        *)
LEMMA HeapPop ==
  ASSUME Inv, Inv', phase # "halt", Len(base) # 0, PopEntry,
         \A u \in Tok : u # TopArg => hand'[u] = hand[u]
  PROVE  /\ TopArg \in Tok /\ (TopSize = -1 <=> TopArg \in Heaped)
         /\ Heaped' = IF hand'[TopArg] = "heap" THEN Heaped \cup {TopArg} ELSE Heaped \ {TopArg}
<1>0. PICK n, t : n = Len(base) /\ t = TopArg
  OBVIOUS
<1>1. /\ Entries' = Entries \ {n} /\ n \in Entries /\ size_array' = size_array
      /\ \A i \in Entries' : i \in Entries /\ T(i)' = T(i)
  BY <1>0, PopEntries
<1>2. t = T(n) /\ t \in Tok /\ TopSize = size_array[n - 1]
  BY <1>0, TopIs
<1>3. hand[t] = "no" /\ \A i \in Entries : i # n => T(i) # t
  BY <1>1, <1>2 DEF Inv, Args
<1>4. TopSize = -1 <=> t \in Heaped
  BY <1>1, <1>2, <1>3, OnHeapIs2 DEF Heaped
<1>5. ASSUME NEW u \in Tok, u # t PROVE u \in Heaped' <=> u \in Heaped
  <2>1. (\E i \in Entries' : T(i)' = u /\ size_array'[i - 1] = -1)
          <=> \E i \in Entries : T(i) = u /\ size_array[i - 1] = -1
    BY <1>1, <1>2, <1>5
  <2> QED
    BY <1>0, <1>5, <2>1, OnHeapIs2, OnHeapIs3 DEF Heaped
<1>6. t \in Heaped' <=> hand'[t] = "heap"
  <2>1. \A i \in Entries' : T(i)' # t
    BY <1>1, <1>3
  <2> QED
    BY <1>2, <2>1, OnHeapIs3 DEF Heaped
<1>7. Heaped' \subseteq Tok /\ Heaped \subseteq Tok
  BY DEF Heaped
<1> QED
  BY <1>0, <1>2, <1>4, <1>5, <1>6, <1>7

(* A drained stack has no entries to forget.                               *)
LEMMA HeapReset ==
  ASSUME Inv, Inv', stack_reset
  PROVE  Heaped' = Heaped
<1>1. Len(base) = 0 /\ base' = <<>> /\ hand' = hand
  BY DEF Inv, Counts, stack_reset
<1>2. Entries = {} /\ Entries' = {}
  BY <1>1 DEF Entries
<1> QED
  BY <1>1, <1>2, OnHeapIs2, OnHeapIs3 DEF Heaped

-----------------------------------------------------------------------------
RuntimeInv == /\ Inv /\ MemInv(mem) /\ cellOf \in [Tok -> Nat]
              /\ Own(mem, cellOf, Heaped)

(* Sizes are those of contents.                                            *)
LEMMA ContentNat == \A t \in Tok : Content(t) \in Nat
<1> TAKE t \in Tok
<1>1. Width[t] \in Nat /\ ArgSize \in Nat /\ Width[t] >= ArgSize
  BY StackAssumption, CellAssumption, RuntimeAssumption
<1> QED
  BY <1>1 DEF Content

LEMMA RuntimeInit == Init => RuntimeInv
<1> SUFFICES ASSUME Init PROVE RuntimeInv
  OBVIOUS
<1>1. Inv
  BY InitInv DEF Init
<1>2. mem = [used |-> {}, cell |-> <<>>, cache_pool |-> <<>>, heapUsed |-> 0]
  BY DEF Init, MemInit
<1>3. DOMAIN mem.cell = {} /\ Len(mem.cache_pool) = 0 /\ 1 .. Len(mem.cache_pool) = {}
  BY <1>2
<1>4. mem \in MemType
  <2>1. <<>> \in [{} -> [size : Nat, heap : Nat]]
    OBVIOUS
  <2>2. <<>> \in Cells
    BY <2>1, CellsAre
  <2> QED
    BY <1>2, <2>2 DEF MemType
<1>5. MemInv(mem)
  <2>1. CellInv(mem)
    BY <1>3, <1>4, CellAssumption DEF CellInv, MemTypes, Fits, Apart, CacheSound
  <2>2. LiveCells(mem) = {} /\ IsFiniteSet(LiveCells(mem))
    BY <1>3, FS_EmptySet DEF LiveCells
  <2>3. Asked(mem) \in [{} -> Int]
    BY <2>1, <2>2, AskedNat
  <2>4. SumFunction(Asked(mem)) = 0
    BY <2>3, SumEmpty
  <2> QED
    BY <1>2, <2>1, <2>2, <2>4 DEF MemInv, Counted
<1>6. Heaped = {}
  <2>1. base = <<>> /\ hand = [t \in Tok |-> "no"]
    BY DEF Init, StackInit
  <2>2. Entries = {}
    BY <2>1 DEF Entries
  <2> QED
    BY <1>1, <2>1, <2>2, OnHeapIs2 DEF Heaped
<1>7. Own(mem, cellOf, Heaped)
  BY <1>3, <1>6 DEF Own, LiveCells
<1> QED
  BY <1>1, <1>5, <1>7 DEF Init, RuntimeInv

(* Every step keeps the args the owners of the live cells, and loses only  *)
(* the blocks it may.                                                      *)
LEMMA RuntimeNext ==
  ASSUME RuntimeInv, [Next]_vars
  PROVE  RuntimeInv' /\ LostRight(mem, mem')
<1>1. Inv'
  BY RuntimeStep, NextInv DEF RuntimeInv
<1>2. /\ Inv /\ MemInv(mem) /\ cellOf \in [Tok -> Nat] /\ Own(mem, cellOf, Heaped)
      /\ Heaped \subseteq Tok
  BY DEF RuntimeInv, Heaped
<1>3. SUFFICES MemInv(mem') /\ cellOf' \in [Tok -> Nat] /\ Own(mem', cellOf', Heaped') /\ LostRight(mem, mem')
  BY <1>1 DEF RuntimeInv
<1>4. ASSUME SameCells \/ UNCHANGED <<mem, cellOf>>, Heaped' = Heaped
      PROVE  MemInv(mem') /\ cellOf' \in [Tok -> Nat] /\ Own(mem', cellOf', Heaped') /\ LostRight(mem, mem')
  BY <1>2, <1>4 DEF SameCells, LostRight
<1>5. ASSUME NEW t \in Tok, t \notin Heaped, NewAt(t), Heaped' = Heaped \cup {t}
      PROVE  MemInv(mem') /\ cellOf' \in [Tok -> Nat] /\ Own(mem', cellOf', Heaped') /\ LostRight(mem, mem')
  <2>1. PICK a \in Places(mem, Content(t)) : /\ mem' = NewCell(mem, a, Content(t))
                                             /\ cellOf' = [cellOf EXCEPT ![t] = a]
    BY <1>5 DEF NewAt
  <2>2. MemInv(mem') /\ cellOf' \in [Tok -> Nat] /\ Own(mem', cellOf', Heaped \cup {t}) /\ LostRight(mem, mem')
    BY <1>2, <1>5, <2>1, ContentNat, OwnNew
  <2> QED
    BY <1>5, <2>2
<1>6. ASSUME NEW t \in Heaped, Release(t), Heaped' = Heaped \ {t}
      PROVE  MemInv(mem') /\ cellOf' \in [Tok -> Nat] /\ Own(mem', cellOf', Heaped') /\ LostRight(mem, mem')
  <2>1. MemInv(mem') /\ cellOf' \in [Tok -> Nat] /\ Own(mem', cellOf', Heaped \ {t}) /\ LostRight(mem, mem')
    BY <1>2, <1>6, OwnFree DEF Release
  <2> QED
    BY <1>6, <2>1
<1>7. ASSUME NEW t \in Heaped, NEW size \in Nat, Moved(t, size), Heaped' = Heaped
      PROVE  MemInv(mem') /\ cellOf' \in [Tok -> Nat] /\ Own(mem', cellOf', Heaped') /\ LostRight(mem, mem')
  <2>1. PICK a \in Places(mem, size) : /\ mem' = FreeCell(NewCell(mem, a, size), cellOf[t])
                                       /\ cellOf' = [cellOf EXCEPT ![t] = a]
    BY <1>7 DEF Moved
  <2>2. cellOf[t] \in LiveCells(mem)
    BY <1>2, <1>7 DEF Own
  <2>3. /\ MemInv(mem') /\ LostRight(mem, mem') /\ a \in Nat /\ a \notin LiveCells(mem)
        /\ LiveCells(mem') = (LiveCells(mem) \cup {a}) \ {cellOf[t]}
    BY <1>2, <1>7, <2>1, <2>2, MoveInv
  <2>4. cellOf' \in [Tok -> Nat] /\ Own(mem', cellOf', Heaped)
    BY <1>2, <1>7, <2>1, <2>3, OwnMove
  <2> QED
    BY <1>7, <2>3, <2>4
<1>8. ASSUME NEW t \in Tok, InHeap(t), UNCHANGED svars
      PROVE  /\ t \in Heaped /\ Heaped' = Heaped /\ cellOf[t] \in LiveCells(mem) /\ SizeOf(t) \in Nat
  <2>1. t \in Heaped /\ Heaped' = Heaped
    BY <1>1, <1>2, <1>8, HeapStays, OnHeapIs2 DEF InHeap, Heaped, svars, buffers
  <2>2. cellOf[t] \in LiveCells(mem)
    BY <1>2, <2>1 DEF Own
  <2>3. SizeOf(t) \in Nat
    BY <1>2, <2>2, CellTypes DEF SizeOf, LiveCells, MemInv, CellInv
  <2> QED
    BY <2>1, <2>2, <2>3
<1>11. ASSUME NEW t \in Tok, ObtainHeap(t) PROVE /\ t \notin Heaped /\ NewAt(t) /\ Heaped' = Heaped \cup {t}
  BY <1>1, <1>2, <1>11, HeapObtain DEF ObtainHeap
<1>12. ASSUME NEW t \in Tok, ObtainReg(t) PROVE SameCells /\ Heaped' = Heaped
  BY <1>1, <1>2, <1>12, HeapObtain DEF ObtainReg
<1>13. ASSUME NEW t \in Tok, DiscardHeap(t) PROVE t \in Heaped /\ Release(t) /\ Heaped' = Heaped \ {t}
  BY <1>1, <1>2, <1>13, HeapDiscard DEF DiscardHeap
<1>14. ASSUME NEW t \in Tok, DiscardReg(t) PROVE SameCells /\ Heaped' = Heaped
  <2>1. t \notin Heaped /\ Heaped' = Heaped \ {t} /\ SameCells
    BY <1>1, <1>2, <1>14, HeapDiscard DEF DiscardReg
  <2> QED
    BY <2>1
<1>15. ASSUME NEW t \in Tok, Push(t) PROVE SameCells /\ Heaped' = Heaped
  BY <1>1, <1>2, <1>15, HeapPush, HeapOverflow DEF Push
<1>16. ASSUME NEW t \in Tok, NEW extra \in Extras, arg_append(t, extra)
       PROVE  MemInv(mem') /\ cellOf' \in [Tok -> Nat] /\ Own(mem', cellOf', Heaped') /\ LostRight(mem, mem')
  <2>1. /\ t \in Heaped /\ Heaped' = Heaped /\ cellOf[t] \in LiveCells(mem) /\ SizeOf(t) \in Nat
        /\ extra \in Nat
    BY <1>8, <1>16, RuntimeAssumption DEF arg_append
  <2>2. CASE InPlace(mem, cellOf[t], extra)
    <3>1. mem' = Grown(mem, cellOf[t], extra) /\ cellOf' = cellOf
      BY <1>16, <2>2 DEF arg_append
    <3>2. MemInv(mem') /\ LiveCells(mem') = LiveCells(mem) /\ Strays(mem') = Strays(mem)
      BY <1>2, <2>1, <2>2, <3>1, GrowInv
    <3> QED
      BY <1>2, <2>1, <3>1, <3>2 DEF Own, LostRight
  <2>3. CASE ~InPlace(mem, cellOf[t], extra)
    <3>1. PICK n : n = SizeOf(t) + extra
      OBVIOUS
    <3>2. n \in Nat
      BY <2>1, <3>1
    <3>3. Moved(t, n)
      BY <1>16, <2>3, <3>1 DEF arg_append
    <3> QED
      BY <1>7, <2>1, <3>2, <3>3
  <2> QED
    BY <2>2, <2>3
<1>17. ASSUME NEW t \in Tok, NEW size \in Sizes, arg_setContent(t, size)
       PROVE  t \in Heaped /\ size \in Nat /\ Moved(t, size) /\ Heaped' = Heaped
  BY <1>8, <1>17, RuntimeAssumption DEF arg_setContent
<1>18. ASSUME \/ \E alloc \in BOOLEAN : stack_popArg(alloc)
              \/ SolveStep
       PROVE  /\ TopArg \in Tok /\ (TopSize = -1 <=> TopArg \in Heaped)
              /\ Heaped' = IF hand'[TopArg] = "heap" THEN Heaped \cup {TopArg} ELSE Heaped \ {TopArg}
  <2>1. phase # "halt" /\ Len(base) # 0 /\ PopEntry
    BY <1>2, <1>18 DEF stack_popArg, SolveStep, Inv, Counts, Types
  <2>2. \A u \in Tok : u # TopArg => hand'[u] = hand[u]
    BY <1>2, <1>18 DEF stack_popArg, SolveStep, Inv, Types
  <2> QED
    BY <1>1, <1>2, <2>1, <2>2, HeapPop
<1>19. ASSUME PopCopy PROVE TopArg \in Tok /\ TopArg \notin Heaped /\ NewAt(TopArg) /\ Heaped' = Heaped \cup {TopArg}
  <2>1. stack_popArg(TRUE) /\ TopSize # -1 /\ NewAt(TopArg)
    BY <1>19 DEF PopCopy
  <2>2. TopArg \in Tok /\ hand' = [hand EXCEPT ![TopArg] = "heap"] /\ hand \in [Tok -> {"no", "reg", "heap"}]
    BY <1>2, <1>18, <2>1 DEF stack_popArg, Inv, Types
  <2>3. hand'[TopArg] = "heap"
    BY <2>2
  <2> QED
    BY <1>18, <2>1, <2>3
<1>20. ASSUME PopSame PROVE SameCells /\ Heaped' = Heaped
  <2>1. SameCells /\ \E alloc \in BOOLEAN : stack_popArg(alloc)
    BY <1>20 DEF PopSame
  <2>2. /\ TopArg \in Tok /\ (TopSize = -1 <=> TopArg \in Heaped)
        /\ Heaped' = IF hand'[TopArg] = "heap" THEN Heaped \cup {TopArg} ELSE Heaped \ {TopArg}
    BY <1>18, <2>1
  <2>3. hand'[TopArg] = IF TopSize = -1 THEN "heap" ELSE "reg"
    BY <1>2, <1>20, <2>2 DEF PopSame, stack_popArg, Inv, Types
  <2> QED
    BY <2>1, <2>2, <2>3
<1>21. ASSUME Look PROVE SameCells /\ Heaped' = Heaped
  <2>1. SameCells
    BY <1>21 DEF Look
  <2>2. CASE stack_reset
    BY <1>1, <1>2, <2>1, <2>2, HeapReset
  <2>3. CASE ~stack_reset
    <3>1. UNCHANGED hand /\ UNCHANGED <<payload, size_array, base>>
      BY <1>21, <2>3 DEF Look, CheckStart, CheckStep, CheckEnd, CheckUsed, NewLine, buffers
    <3> QED
      BY <1>1, <1>2, <2>1, <3>1, HeapStays
  <2> QED
    BY <2>2, <2>3
<1>22. ASSUME SolveStep PROVE TopArg \in Tok /\ Heaped' = Heaped \ {TopArg}
                              /\ (TopSize = -1 <=> TopArg \in Heaped)
  <2>1. /\ TopArg \in Tok /\ (TopSize = -1 <=> TopArg \in Heaped)
        /\ Heaped' = IF hand'[TopArg] = "heap" THEN Heaped \cup {TopArg} ELSE Heaped \ {TopArg}
    BY <1>18, <1>22
  <2>2. hand'[TopArg] = "no"
    <3>1. phase # "halt" /\ Len(base) # 0 /\ hand' = hand
      BY <1>2, <1>22 DEF SolveStep, Inv, Counts, Types
    <3>2. Len(base) \in Entries /\ TopArg = T(Len(base))
      BY <1>2, <3>1, TopIs
    <3> QED
      BY <1>2, <3>1, <3>2 DEF Inv, Args
  <2> QED
    BY <2>1, <2>2
<1>23. ASSUME SolveCopy
       PROVE  MemInv(mem') /\ cellOf' \in [Tok -> Nat] /\ Own(mem', cellOf', Heaped') /\ LostRight(mem, mem')
  <2>1. TopArg \in Tok /\ Heaped' = Heaped /\ cellOf' = cellOf
    BY <1>22, <1>23 DEF SolveCopy
  <2>2. PICK a \in Places(mem, Content(TopArg)) :
          mem' = FreeCell(NewCell(mem, a, Content(TopArg)), a)
    BY <1>23 DEF SolveCopy
  <2>3. MemInv(mem') /\ Own(mem', cellOf, Heaped) /\ LostRight(mem, mem')
    BY <1>2, <2>1, <2>2, ContentNat, OwnCopy
  <2> QED
    BY <1>2, <2>1, <2>3
<1>24. ASSUME SolveBig PROVE TopArg \in Heaped /\ Release(TopArg) /\ Heaped' = Heaped \ {TopArg}
  BY <1>22, <1>24 DEF SolveBig
<1>25. ASSUME UNCHANGED vars PROVE UNCHANGED <<mem, cellOf>> /\ Heaped' = Heaped
  BY <1>1, <1>2, <1>25, HeapStays DEF vars, svars, buffers
<1>30. CASE Next
  <2>1. CASE \E t \in Tok : ObtainHeap(t)
    BY <1>5, <1>11, <2>1
  <2>2. CASE \E t \in Tok : ObtainReg(t) \/ DiscardReg(t) \/ Push(t)
    BY <1>4, <1>12, <1>14, <1>15, <2>2
  <2>3. CASE \E t \in Tok : DiscardHeap(t)
    BY <1>6, <1>13, <2>3
  <2>4. CASE \E t \in Tok : \E extra \in Extras : arg_append(t, extra)
    BY <1>16, <2>4
  <2>5. CASE \E t \in Tok : \E size \in Sizes : arg_setContent(t, size)
    BY <1>7, <1>17, <2>5
  <2>6. CASE PopCopy
    BY <1>5, <1>19, <2>6
  <2>7. CASE PopSame \/ Look
    BY <1>4, <1>20, <1>21, <2>7
  <2>8. CASE SolveCopy
    BY <1>23, <2>8
  <2>9. CASE SolveBig
    BY <1>6, <1>24, <2>9
  <2> QED
    BY <1>30, <2>1, <2>2, <2>3, <2>4, <2>5, <2>6, <2>7, <2>8, <2>9 DEF Next
<1> QED
  BY <1>4, <1>25, <1>30

(* The invariant of the stack and the cells together: the stack of         *)
(* dataStack.c keeps its own, the cells of dataArg.c are sound, and the    *)
(* args on the heap own the live ones.                                     *)
THEOREM RuntimeSound == Spec => []RuntimeInv
<1>1. RuntimeInv /\ [Next]_vars => RuntimeInv'
  BY RuntimeNext
<1> QED
  BY <1>1, RuntimeInit, PTL DEF Spec

(* The live cells are those of the args on the heap, in hand or pointed to *)
(* from the stack, one each: whatever is pushed, popped with a copy, grown *)
(* by arg_append, drained or freed, no pointer dangles and no cell is      *)
(* forgotten.                                                              *)
THEOREM RuntimeArgsOwnCells == Spec => []ArgsOwnCells
<1>1. RuntimeInv => ArgsOwnCells
  BY DEF RuntimeInv, Own, Heaped, ArgsOwnCells
<1> QED
  BY <1>1, RuntimeSound, PTL

(* Cells, live or in the cache, never share a block, all their blocks are  *)
(* marked used, and the content fits although _arg_cache_pop hands out any *)
(* cached cell and arg_freeContent frees by the size of the content.       *)
THEOREM RuntimeCellsExclusive == Spec => []CellsExclusive
<1>1. ASSUME MemInv(mem), NEW a \in DOMAIN mem.cell
      PROVE  /\ Run(a, mem.cell[a].heap) \subseteq mem.used
             /\ ArgSize + mem.cell[a].size <= mem.cell[a].heap
             /\ \A b \in DOMAIN mem.cell \ {a} :
                  Run(a, mem.cell[a].heap) \cap Run(b, mem.cell[b].heap) = {}
             /\ Cardinality({i \in DOMAIN mem.cache_pool : mem.cache_pool[i] = a}) <= 1
  <2>1. mem.cell[a].size \in Nat /\ mem.cell[a].heap \in Nat
    BY <1>1, CellTypes DEF MemInv, CellInv
  <2>2. Run(a, mem.cell[a].heap) \subseteq mem.used /\ Req(mem.cell[a].size) <= mem.cell[a].heap
    BY <1>1 DEF MemInv, CellInv, Fits
  <2>3. ArgSize + mem.cell[a].size <= mem.cell[a].heap
    <3>1. ArgSize + mem.cell[a].size <= Req(mem.cell[a].size) /\ Req(mem.cell[a].size) \in Nat
      BY <2>1, ReqCovers
    <3> QED
      BY <2>1, <2>2, <3>1, CellAssumption
  <2>4. \A b \in DOMAIN mem.cell \ {a} : Run(a, mem.cell[a].heap) \cap Run(b, mem.cell[b].heap) = {}
    BY <1>1 DEF MemInv, CellInv, Apart
  <2>5. PICK S : S = {i \in DOMAIN mem.cache_pool : mem.cache_pool[i] = a}
    OBVIOUS
  <2>6. \A i, j \in S : i = j
    BY <1>1, <2>5, CellTypes DEF MemInv, CellInv, CacheSound
  <2>7. Cardinality(S) <= 1
    <3>1. CASE S = {}
      BY <3>1, FS_EmptySet
    <3>2. CASE \E i : S = {i}
      <4>1. PICK i : S = {i}
        BY <3>2
      <4>2. Cardinality({i}) = 1
        BY FS_Singleton
      <4> QED
        BY <4>1, <4>2
    <3> QED
      BY <2>6, <3>1, <3>2
  <2> QED
    BY <2>2, <2>3, <2>4, <2>5, <2>7
<1>2. RuntimeInv => CellsExclusive
  BY <1>1 DEF RuntimeInv, CellsExclusive
<1> QED
  BY <1>2, RuntimeSound, PTL

(* The heap count of dataMemory.c (pikaMemNow) is the sum of what the live *)
(* cells asked for, through reuse from the cache, growth in place and      *)
(* moves: it is 0 again when every arg is released.                        *)
THEOREM RuntimeHeapExact == Spec => []HeapExact
<1>1. RuntimeInv => HeapExact
  BY DEF RuntimeInv, MemInv, Counted, HeapExact
<1> QED
  BY <1>1, RuntimeSound, PTL

(* Blocks leave the pool for good only when arg_freeContent frees a cell   *)
(* that was reused for a smaller content while the cache is full: growing  *)
(* in place (arg_append) and moving (arg_setContent) lose none.            *)
THEOREM RuntimeLosesBlocks == Spec => LostOnlyWhenCacheFull
<1>1. RuntimeInv /\ [Next]_vars =>
        [Strays(mem') \subseteq Strays(mem)
           \/ /\ Len(mem.cache_pool) = CachePoolSize
              /\ \E a \in LiveCells(mem) : /\ a \notin DOMAIN mem'.cell
                                           /\ Req(mem.cell[a].size) < mem.cell[a].heap]_mem
  BY RuntimeNext DEF LostRight
<1> QED
  BY <1>1, RuntimeSound, PTL DEF Spec, LostOnlyWhenCacheFull
=============================================================================
