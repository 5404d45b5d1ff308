--------------------------- MODULE VMFramesProofs ---------------------------
(***************************************************************************)
(* Proofs about calls and errors in the VM, for every set of functions and *)
(* every depth of calls. A function is as the parser makes it (Structured);*)
(* the theorems about tries are about programs that keep clear of what the *)
(* VM is known to get wrong: no try inside a try, in a function or through *)
(* a call, and no return out of a try (Disciplined).                       *)
(***************************************************************************)
EXTENDS VMFrames, FiniteSetTheorems, WellFoundedInduction, SequenceTheorems, TLAPS

-----------------------------------------------------------------------------
(* Positions in a function.                                                *)

(* A non-empty set of natural numbers has a least one...                   *)
LEMMA MinIs ==
  ASSUME NEW S \in SUBSET Nat, S # {}
  PROVE  Min(S) \in S /\ \A y \in S : Min(S) <= y
<1> DEFINE R == OpToRel(<, Nat)
<1>1. IsWellFoundedOn(R, Nat)
  BY NatLessThanWellFounded
<1>2. PICK x \in S : \A y \in S : ~(<<y, x>> \in R)
  <2> HIDE DEF R
  <2> QED
    BY <1>1, WFMin
<1>3. \A y \in S : x <= y
  <2> SUFFICES ASSUME NEW y \in S, y < x PROVE FALSE
    OBVIOUS
  <2>1. <<y, x>> \in R
    BY DEF OpToRel
  <2> QED
    BY <1>2, <2>1
<1> QED
  BY <1>3 DEF Min

(* ... and a greatest one if it has a bound.                               *)
LEMMA MaxIs ==
  ASSUME NEW S \in SUBSET Nat, S # {}, NEW m \in Nat, \A y \in S : y <= m
  PROVE  Max(S) \in S /\ \A y \in S : y <= Max(S)
<1> DEFINE T == {i \in Nat : i <= m /\ m - i \in S}
<1>1. T \in SUBSET Nat /\ T # {}
  <2>1. PICK y \in S : TRUE
    OBVIOUS
  <2>2. m - y \in T
    BY <2>1
  <2> QED
    BY <2>2
<1>2. PICK x \in T : \A y \in T : x <= y
  <2> HIDE DEF T
  <2> QED
    BY <1>1, MinIs
<1>3. \A y \in S : y <= m - x
  <2> SUFFICES ASSUME NEW y \in S PROVE y <= m - x
    OBVIOUS
  <2>1. m - y \in T
    OBVIOUS
  <2> QED
    BY <1>2, <2>1
<1> QED
  BY <1>2, <1>3 DEF Max

(* p is in the body of a try or at its end.                                *)
Guarded(b, p) == InTry(b, p) \/ b[p] = "ntr"

(* What holds of a position that is not the last.                          *)
LEMMA NextPosition ==
  ASSUME NEW b \in Bodies, NEW p \in DOMAIN b, b[p] # "ret"
  PROVE  p \in Nat /\ p + 1 \in DOMAIN b
  BY BodiesAssumption DEF Structured

(* Statements other than a try and its end do not change whether one is in *)
(* the body of a try.                                                      *)
LEMMA GuardKept ==
  ASSUME NEW b \in Bodies, NEW p \in DOMAIN b, b[p] \notin {"try", "ntr", "ret"}
  PROVE  Guarded(b, p + 1) <=> InTry(b, p)
<1>1. p \in Nat /\ p >= 1 /\ p + 1 \in DOMAIN b
  BY NextPosition, BodiesAssumption DEF Structured
<1>2. ASSUME InTry(b, p) PROVE Guarded(b, p + 1)
  BY <1>1, <1>2 DEF InTry, Guarded
<1>3. ASSUME InTry(b, p + 1) PROVE InTry(b, p)
  BY <1>1, <1>3 DEF InTry
<1>4. ASSUME b[p + 1] = "ntr" PROVE InTry(b, p)
  <2>1. (p + 1) - 1 = p
    BY <1>1
  <2>2. b[(p + 1) - 1] = "try" \/ InTry(b, (p + 1) - 1)
    BY <1>1, <1>4, BodiesAssumption, Zenon DEF Structured
  <2> QED
    BY <2>1, <2>2
<1> QED
  BY <1>2, <1>3, <1>4 DEF Guarded

(* A try is followed by its body, or by its end.                           *)
LEMMA GuardBegins ==
  ASSUME NEW b \in Bodies, NEW p \in DOMAIN b, b[p] = "try"
  PROVE  Guarded(b, p + 1)
<1>1. p \in Nat /\ p >= 1
  BY BodiesAssumption DEF Structured
<1> QED
  BY <1>1 DEF InTry, Guarded

(* Behind the end of the body there is no try, in the except clause or     *)
(* past it.                                                                *)
LEMMA GuardEnds ==
  ASSUME NEW b \in Bodies, NEW p \in DOMAIN b, b[p] = "ntr"
  PROVE  /\ b[p + 1] = "exp" /\ ~Guarded(b, p + 1)
         /\ PastHandler(b, p) \in DOMAIN b /\ PastHandler(b, p) > p
         /\ ~Guarded(b, PastHandler(b, p))
<1>1. p \in Nat /\ p >= 1 /\ p + 1 \in DOMAIN b /\ DOMAIN b = 1 .. Len(b) /\ Len(b) \in Nat
  BY NextPosition, BodiesAssumption DEF Structured
<1>2. b[p + 1] = "exp"
  BY BodiesAssumption DEF Structured
<1>3. ~InTry(b, p + 1)
  BY <1>1 DEF InTry
<1> DEFINE S == {m \in p + 1 .. Len(b) : b[m] \notin {"exp", "hand"}}
           q == PastHandler(b, p)
<1>4. q \in S /\ \A m \in S : q <= m
  <2>1. S \in SUBSET Nat
    BY <1>1
  <2>2. Len(b) \in S
    BY <1>1, <1>2, BodiesAssumption DEF Structured
  <2> QED
    BY <2>1, <2>2, MinIs DEF PastHandler
<1>5. \A m \in p + 1 .. q - 1 : b[m] \in {"exp", "hand"}
  BY <1>1, <1>4
<1>6. q \in DOMAIN b /\ q > p
  BY <1>1, <1>4
<1> HIDE DEF q
<1>7. ~InTry(b, q)
  BY <1>1, <1>5, <1>6 DEF InTry
<1>8. b[q] # "ntr"
  <2>1. q - 1 \in p .. q - 1 /\ q - 1 \in DOMAIN b
    BY <1>1, <1>6
  <2>2. b[q - 1] # "try"
    BY <1>1, <1>5, <2>1
  <2>3. ~InTry(b, q - 1)
    BY <1>1, <1>5, <1>6 DEF InTry
  <2> QED
    BY <2>2, <2>3, <1>6, BodiesAssumption DEF Structured
<1> QED
  BY <1>2, <1>3, <1>6, <1>7, <1>8 DEF Guarded, q

(* The jumps of a loop stay in the body of a try, or outside of one.       *)
LEMMA LoopKeeps ==
  ASSUME NEW b \in Bodies, NEW p \in DOMAIN b
  PROVE  /\ b[p] = "loop" => /\ PastLoop(b) \in DOMAIN b
                             /\ Guarded(b, PastLoop(b)) <=> InTry(b, p)
         /\ b[p] = "back" => /\ LoopOf(b) \in DOMAIN b /\ b[LoopOf(b)] = "loop"
                             /\ Guarded(b, LoopOf(b)) <=> InTry(b, p)
<1>1. ASSUME b[p] = "loop" PROVE PastLoop(b) \in DOMAIN b
  <2>1. PICK e \in DOMAIN b : b[e] = "back" /\ PastLoop(b) = 1 + e
    BY <1>1, BodiesAssumption DEF Structured, PastLoop
  <2> QED
    BY <2>1, NextPosition
<1>2. ASSUME b[p] = "back" PROVE LoopOf(b) \in DOMAIN b /\ b[LoopOf(b)] = "loop"
  BY <1>2, BodiesAssumption DEF Structured, LoopOf
<1> QED
  BY <1>1, <1>2, BodiesAssumption DEF Structured, Guarded

(* A function without a try has no end of one.                             *)
LEMMA NoTryNoGuard ==
  ASSUME NEW b \in Bodies, ~HasTry(b), NEW p \in DOMAIN b
  PROVE  b[p] # "ntr" /\ ~Guarded(b, p)
<1>1. DOMAIN b = 1 .. Len(b) /\ Len(b) \in Nat
  BY BodiesAssumption DEF Structured
<1>2. \A m \in DOMAIN b : ~InTry(b, m)
  BY <1>1 DEF InTry, HasTry
<1>3. \A m \in DOMAIN b : b[m] # "ntr"
  <2> SUFFICES ASSUME NEW m \in DOMAIN b, b[m] = "ntr" PROVE FALSE
    OBVIOUS
  <2>1. m > 1 /\ (b[m - 1] = "try" \/ InTry(b, m - 1))
    BY BodiesAssumption DEF Structured
  <2>2. m - 1 \in DOMAIN b
    BY <1>1, <2>1
  <2> QED
    BY <2>1, <2>2, <1>2 DEF HasTry
<1> QED
  BY <1>2, <1>3 DEF Guarded

(* A function begins outside of any try.                                   *)
LEMMA BeginsPlain ==
  ASSUME NEW b \in Bodies
  PROVE  1 \in DOMAIN b /\ b[1] # "ntr" /\ ~Guarded(b, 1)
<1>1. 1 \in DOMAIN b
  BY BodiesAssumption, EmptySeq DEF Structured
<1>2. b[1] # "ntr"
  BY <1>1, BodiesAssumption DEF Structured
<1>3. ~InTry(b, 1)
  BY DEF InTry
<1> QED
  BY <1>1, <1>2, <1>3 DEF Guarded

(* No try in a try, and no return out of one.                              *)
Disciplined == /\ \A b \in Bodies : \A p \in DOMAIN b : b[p] \in {"try", "ret"} => ~InTry(b, p)
               /\ ~NestedTries

(* What PikaVMFrame_getAddrOffsetOfRaise finds: the end of a function or   *)
(* the end of a try,...                                                    *)
LEMMA RaiseFinds ==
  ASSUME NEW f, f.body \in Bodies, f.pc \in Nat
  PROVE  \/ RaiseTarget(f) = VM_PC_EXIT
         \/ RaiseTarget(f) \in DOMAIN f.body /\ f.body[RaiseTarget(f)] = "ntr"
<1> DEFINE b == f.body
           S == {p \in f.pc + 1 .. Len(b) : b[p] \in {"ntr", "ret"}}
<1>1. DOMAIN b = 1 .. Len(b) /\ Len(b) \in Nat
  BY BodiesAssumption DEF Structured
<1>2. CASE S = {} \/ b[Min(S)] = "ret"
  BY <1>2 DEF RaiseTarget
<1>3. CASE ~(S = {} \/ b[Min(S)] = "ret")
  <2>1. RaiseTarget(f) = Min(S)
    BY <1>3 DEF RaiseTarget
  <2>2. S \in SUBSET Nat
    BY <1>1
  <2>3. Min(S) \in S
    BY <1>3, <2>2, MinIs
  <2> QED
    BY <1>1, <1>3, <2>1, <2>3
<1> QED
  BY <1>2, <1>3

(* ... in a try its end, with nothing that ends a body in between,...      *)
LEMMA RaiseCaught ==
  ASSUME Disciplined, NEW f, f.body \in Bodies, f.pc \in DOMAIN f.body,
         InTry(f.body, f.pc) \/ f.body[f.pc] = "try"
  PROVE  LET q == RaiseTarget(f)
         IN  /\ q \in DOMAIN f.body /\ q > f.pc /\ f.body[q] = "ntr"
             /\ \A m \in f.pc + 1 .. q - 1 : f.body[m] \notin {"ntr", "ret"}
<1> DEFINE b == f.body
           p == f.pc
           S == {m \in p + 1 .. Len(b) : b[m] \in {"ntr", "ret"}}
<1>1. DOMAIN b = 1 .. Len(b) /\ Len(b) \in Nat /\ p \in 1 .. Len(b)
  BY BodiesAssumption DEF Structured
<1>2. b[p] # "ret"
  BY DEF Disciplined
<1>3. S \in SUBSET Nat /\ Len(b) \in S
  BY <1>1, <1>2, BodiesAssumption DEF Structured
<1>4. Min(S) \in S /\ \A m \in S : Min(S) <= m
  BY <1>3, MinIs
<1>5. PICK q \in Nat : q = Min(S)
  BY <1>3, <1>4
<1>6. \A m \in p + 1 .. q - 1 : b[m] \notin {"ntr", "ret"}
  BY <1>1, <1>4, <1>5
<1>7. q \in p + 1 .. Len(b) /\ b[q] \in {"ntr", "ret"}
  BY <1>4, <1>5
<1>8. b[q] # "ret"
  <2> SUFFICES ASSUME b[q] = "ret" PROVE FALSE
    OBVIOUS
  <2>1. InTry(b, q)
    <3>1. CASE b[p] = "try"
      BY <1>1, <1>6, <1>7, <3>1 DEF InTry
    <3>2. CASE InTry(b, p)
      <4>1. PICK j \in 1 .. p - 1 : b[j] = "try" /\ \A m \in j .. p : b[m] # "ntr"
        BY <3>2 DEF InTry
      <4>2. \A m \in j .. q : b[m] # "ntr"
        BY <1>1, <1>6, <1>7, <4>1
      <4> QED
        BY <1>1, <1>7, <4>1, <4>2 DEF InTry
    <3> QED
      BY <3>1, <3>2
  <2> QED
    BY <2>1, <1>1, <1>7 DEF Disciplined
<1>9. RaiseTarget(f) = q
  BY <1>3, <1>5, <1>8 DEF RaiseTarget
<1> QED
  BY <1>1, <1>6, <1>7, <1>8, <1>9

(* ... and in a function without a try its end.                            *)
LEMMA RaisePasses ==
  ASSUME NEW f, f.body \in Bodies, f.pc \in Nat, ~HasTry(f.body)
  PROVE  RaiseTarget(f) = VM_PC_EXIT
  BY RaiseFinds, NoTryNoGuard

-----------------------------------------------------------------------------
(* The threads of the frames.                                              *)

LEMMA CountNat ==
  ASSUME NEW s, NEW i \in Nat
  PROVE  LET S == {j \in 1 .. i : s[j].by = "native"}
         IN  IsFiniteSet(S) /\ Cardinality(S) \in Nat
<1>1. IsFiniteSet(1 .. i)
  BY FS_Interval
<1>2. IsFiniteSet({j \in 1 .. i : s[j].by = "native"})
  BY <1>1, FS_Subset
<1> QED
  BY <1>2, FS_CardinalityType

LEMMA CountNext ==
  ASSUME NEW s, NEW i \in Nat
  PROVE  LET N(n) == Cardinality({j \in 1 .. n : s[j].by = "native"})
         IN  N(i + 1) = IF s[i + 1].by = "native" THEN N(i) + 1 ELSE N(i)
<1> DEFINE S(n) == {j \in 1 .. n : s[j].by = "native"}
<1>1. IsFiniteSet(S(i)) /\ i + 1 \notin S(i)
  BY CountNat
<1>2. CASE s[i + 1].by = "native"
  <2>1. S(i + 1) = S(i) \cup {i + 1}
    BY <1>2
  <2>2. Cardinality(S(i) \cup {i + 1}) = Cardinality(S(i)) + 1
    <3> HIDE DEF S
    <3> QED
      BY <1>1, FS_AddElement
  <2> QED
    BY <1>2, <2>1, <2>2
<1>3. CASE s[i + 1].by # "native"
  <2>1. S(i + 1) = S(i)
    BY <1>3
  <2> QED
    BY <1>3, <2>1
<1> QED
  BY <1>2, <1>3

LEMMA ThreadOfNat == ASSUME NEW i \in Nat PROVE ThreadOf(i) \in Nat
  BY CountNat DEF ThreadOf

(* A frame that native code called begins a thread, any other one is in    *)
(* the thread of its caller.                                               *)
LEMMA ThreadOfNext ==
  ASSUME NEW i \in Nat
  PROVE  ThreadOf(i + 1) = IF frames[i + 1].by = "native" THEN ThreadOf(i) + 1 ELSE ThreadOf(i)
  BY CountNext DEF ThreadOf

LEMMA ThreadOfGrows ==
  ASSUME NEW i \in Nat, NEW m \in Nat, i <= m
  PROVE  ThreadOf(i) <= ThreadOf(m)
<1>1. {j \in 1 .. i : frames[j].by = "native"} \subseteq {j \in 1 .. m : frames[j].by = "native"}
  OBVIOUS
<1> QED
  BY <1>1, CountNat, FS_Subset DEF ThreadOf

(* Hence frames of one thread are calls of one another, without native     *)
(* code in between.                                                        *)
LEMMA SameThread ==
  ASSUME NEW i \in Nat, NEW m \in Nat, i < m, ThreadOf(i) = ThreadOf(m)
  PROVE  frames[i + 1].by # "native" /\ frames[m].by # "native"
<1>1. ThreadOf(i + 1) <= ThreadOf(m) /\ ThreadOf(i) <= ThreadOf(m - 1)
  BY ThreadOfGrows
<1>2. PICK l \in Nat : m = l + 1
  <2>1. m - 1 \in Nat /\ m = (m - 1) + 1
    OBVIOUS
  <2> QED
    BY <2>1
<1>3. i <= l
  BY <1>2
<1>4. ThreadOf(i) \in Nat /\ ThreadOf(l) \in Nat /\ ThreadOf(i) <= ThreadOf(l)
  BY <1>3, ThreadOfNat, ThreadOfGrows
<1> QED
  BY <1>1, <1>2, <1>4, ThreadOfNext

(* The thread of a frame is settled by the frames below it.                *)
LEMMA ThreadOfKept ==
  ASSUME NEW i \in Nat, \A j \in 1 .. i : frames'[j].by = frames[j].by
  PROVE  ThreadOf(i)' = ThreadOf(i)
<1>1. {j \in 1 .. i : frames'[j].by = "native"} = {j \in 1 .. i : frames[j].by = "native"}
  OBVIOUS
<1> QED
  BY <1>1 DEF ThreadOf

-----------------------------------------------------------------------------
(* The inductive invariant.                                                *)
FrameType  == [body: Bodies, pc: Nat, by: Callers, served: BOOLEAN]
ThreadType == [error_code: BOOLEAN, try_state: BOOLEAN,
               try_result: BOOLEAN, try_error_code: BOOLEAN]

Types == /\ frames \in Seq(FrameType) /\ threads \in Seq(ThreadType)
         /\ \A i \in DOMAIN frames : frames[i].pc # VM_PC_EXIT => frames[i].pc \in DOMAIN frames[i].body

(* Frame i executes a line, which called the frame above.                  *)
Waiting(i) == frames[i].pc # VM_PC_EXIT /\ frames[i].body[frames[i].pc] \in Works

Linked == /\ frames # <<>> => frames[1].by = "native"
          /\ Len(threads) = ThreadOf(Len(frames))
          /\ \A k \in DOMAIN threads : FramesOf(k) # {}
          /\ \A i \in DOMAIN frames :
               i < Len(frames) /\ frames[i + 1].by # "native" => Waiting(i)

(* What is called in the body of a try has no try.                         *)
Separate == \A i, m \in DOMAIN frames :
              i < m /\ ThreadOf(i) = ThreadOf(m) /\ Trying(i) => ~HasTry(frames[m].body)

(* The last frame of its thread.                                           *)
LastOf(i) == i = Len(frames) \/ frames[i + 1].by = "native"

(* try_result is set only while the last frame has ended with an error and *)
(* a frame below it has a try.                                             *)
UnderWay == \A i \in DOMAIN frames :
             LastOf(i) /\ threads[ThreadOf(i)].try_result =>
               /\ frames[i].pc = VM_PC_EXIT
               /\ threads[ThreadOf(i)].error_code \/ signal_ctrl
               /\ threads[ThreadOf(i)].try_state

(* try_error_code is set only on the way of an error to the except clause. *)
Pending == \A i \in DOMAIN frames :
             LastOf(i) /\ threads[ThreadOf(i)].try_error_code =>
               \/ signal_ctrl
               \/ /\ frames[i].pc = VM_PC_EXIT
                  /\ threads[ThreadOf(i)].error_code /\ threads[ThreadOf(i)].try_state
               \/ /\ frames[i].pc # VM_PC_EXIT
                  /\ frames[i].body[frames[i].pc] \in {"ntr", "exp"}

Inv == Types /\ Linked /\ Separate /\ TryStateNested /\ UnderWay /\ Pending

(* The last frame of all is in the last thread, the frames of the other    *)
(* threads are below it.                                                   *)
LEMMA TopThread ==
  ASSUME Types, Linked, frames # <<>>
  PROVE  /\ Len(frames) \in DOMAIN frames /\ Len(frames) \in Nat \ {0}
         /\ ThreadOf(Len(frames)) = Len(threads)
         /\ Len(threads) \in DOMAIN threads /\ Len(threads) \in Nat \ {0}
         /\ \A i \in DOMAIN frames : ThreadOf(i) \in DOMAIN threads
<1>1. Len(frames) \in Nat \ {0} /\ DOMAIN frames = 1 .. Len(frames) /\ DOMAIN threads = 1 .. Len(threads)
  BY EmptySeq DEF Types
<1>2. ThreadOf(Len(frames)) = Len(threads) /\ Len(threads) \in Nat
  BY DEF Linked, Types
<1>3. ThreadOf(0) \in Nat /\ ThreadOf(0 + 1) = ThreadOf(0) + 1
  <2>1. frames[0 + 1].by = "native"
    BY DEF Linked
  <2> QED
    BY <2>1, ThreadOfNat, ThreadOfNext
<1>4. \A i \in 1 .. Len(frames) : ThreadOf(i) \in 1 .. Len(threads)
  <2> SUFFICES ASSUME NEW i \in 1 .. Len(frames) PROVE ThreadOf(i) \in 1 .. Len(threads)
    OBVIOUS
  <2>1. i \in Nat /\ 1 \in Nat /\ 1 <= i /\ i <= Len(frames) /\ Len(frames) \in Nat /\ 0 + 1 = 1
    BY <1>1
  <2>2. ThreadOf(1) <= ThreadOf(i) /\ ThreadOf(i) <= ThreadOf(Len(frames)) /\ ThreadOf(i) \in Nat
    BY <2>1, ThreadOfGrows, ThreadOfNat
  <2> QED
    BY <2>1, <2>2, <1>2, <1>3
<1> QED
  BY <1>1, <1>2, <1>4

-----------------------------------------------------------------------------
(* A step of the VM: frame m, on top of the frames that are left, goes to  *)
(* q, with the thread as After leaves it.                                  *)
Goes(m, q, t) ==
  /\ frames' \in Seq(FrameType) /\ Len(frames') = m
  /\ \A i \in 1 .. m : frames'[i].body = frames[i].body /\ frames'[i].by = frames[i].by
  /\ \A i \in 1 .. m - 1 : frames'[i].pc = frames[i].pc
  /\ frames'[m].pc = q
  /\ threads' \in Seq(ThreadType) /\ Len(threads') = Len(threads)
  /\ \A k \in 1 .. Len(threads) - 1 : threads'[k] = threads[k]
  /\ threads'[Len(threads)] = [t EXCEPT !.try_result     = TryResult(t, q),
                                        !.try_error_code = @ \/ (t.error_code /\ t.try_state)]
  /\ signal_ctrl' = signal_ctrl

(* Where pikaVM_runInstructUnit sends a frame.                             *)
Jump(f, t, n, q) == /\ ~Stops(t) => q = n
                    /\ Stops(t) /\ t.try_state => q = RaiseTarget(f)
                    /\ Stops(t) /\ ~t.try_state => q = VM_PC_EXIT

LEMMA AfterGoes ==
  ASSUME Types, threads # <<>>, NEW s \in Seq(FrameType), NEW m \in Nat \ {0},
         Len(s) = m, \A i \in 1 .. m : s[i] = frames[i],
         NEW t \in ThreadType, NEW n \in Nat, After(s, frames[m], t, n)
  PROVE  \E q \in Nat : /\ Jump(frames[m], t, n, q) /\ Goes(m, q, t)
                        /\ frames'[m].served = FALSE
                        /\ q # n => q \in {VM_PC_EXIT} \cup DOMAIN frames[m].body
<1> DEFINE f == frames[m]
           q == CASE ~Stops(t)                -> n
                  [] Stops(t) /\ t.try_state  -> RaiseTarget(f)
                  [] Stops(t) /\ ~t.try_state -> VM_PC_EXIT
<1>1. s[m] = f /\ f \in FrameType
  OBVIOUS
<1>2. Jump(f, t, n, q)
  BY DEF Jump
<1>3. q \in Nat /\ (q # n => q \in {VM_PC_EXIT} \cup DOMAIN f.body)
  <2>1. DOMAIN f.body \subseteq Nat /\ f.body \in Bodies /\ f.pc \in Nat
    BY <1>1, BodiesAssumption DEF Structured, FrameType
  <2>2. RaiseTarget(f) \in {VM_PC_EXIT} \cup DOMAIN f.body
    BY <2>1, RaiseFinds
  <2>3. q \in {n, VM_PC_EXIT, RaiseTarget(f)}
    OBVIOUS
  <2> QED
    BY <2>1, <2>2, <2>3 DEF VM_PC_EXIT
<1> DEFINE u == [t EXCEPT !.try_result     = TryResult(t, q),
                          !.try_error_code = @ \/ (t.error_code /\ t.try_state)]
           g == [f EXCEPT !.pc = q, !.served = FALSE]
<1>4. frames' = [s EXCEPT ![Len(s)] = g] /\ threads' = [threads EXCEPT ![Len(threads)] = u] /\ UNCHANGED signal_ctrl
  BY DEF After, SetTop
<1>5. u \in ThreadType
  BY DEF ThreadType, TryResult
<1> HIDE DEF q, u
<1>6. g \in FrameType /\ g.body = f.body /\ g.by = f.by /\ g.pc = q /\ g.served = FALSE
  BY <1>1, <1>3 DEF FrameType
<1> HIDE DEF g
<1>7. /\ frames' \in Seq(FrameType) /\ Len(frames') = m
      /\ \A i \in 1 .. m - 1 : frames'[i] = frames[i]
      /\ frames'[m] = g
  BY <1>4, <1>6
<1>8. Len(threads) \in Nat \ {0}
  BY EmptySeq DEF Types
<1>9. /\ threads' \in Seq(ThreadType) /\ Len(threads') = Len(threads)
      /\ \A k \in 1 .. Len(threads) - 1 : threads'[k] = threads[k]
      /\ threads'[Len(threads)] = u
  BY <1>4, <1>5, <1>8 DEF Types
<1>10. Goes(m, q, t)
  BY <1>4, <1>6, <1>7, <1>9 DEF Goes, u
<1> QED
  BY <1>2, <1>3, <1>6, <1>7, <1>10

(* A frame below m in its thread is in a try.                              *)
Below(m) == \E i \in 1 .. m - 1 : ThreadOf(i) = Len(threads) /\ Trying(i)

(* What a step has to ensure for the invariant: that the try state tells   *)
(* the truth at q, and where try_result and try_error_code may be set.     *)
LEMMA GoesInv ==
  ASSUME Inv, NEW m \in DOMAIN frames,
         \/ m = Len(frames)
         \/ /\ m = Len(frames) - 1
            /\ frames[Len(frames)].by # "native" /\ frames[Len(frames)].pc = VM_PC_EXIT,
         NEW t \in ThreadType, NEW q \in Nat, Goes(m, q, t),
         q # VM_PC_EXIT => q \in DOMAIN frames[m].body,
         t.try_state <=> (q # VM_PC_EXIT /\ Guarded(frames[m].body, q)) \/ Below(m),
         TryResult(t, q) => q = VM_PC_EXIT /\ Stops(t) /\ t.try_state,
         t.try_error_code \/ (t.error_code /\ t.try_state) =>
           \/ signal_ctrl
           \/ q = VM_PC_EXIT /\ t.error_code /\ t.try_state
           \/ q # VM_PC_EXIT /\ frames[m].body[q] \in {"ntr", "exp"}
  PROVE  Inv' /\ ThreadOf(m) = Len(threads)
<1> DEFINE L == Len(threads)
           u == threads'[L]
<1>1. /\ DOMAIN frames = 1 .. Len(frames) /\ Len(frames) \in Nat /\ m \in 1 .. Len(frames)
      /\ DOMAIN frames' = 1 .. m /\ Len(frames') = m
      /\ DOMAIN threads = 1 .. L /\ DOMAIN threads' = 1 .. L /\ Len(threads') = L
  BY DEF Inv, Types, Goes
<1>2. /\ L \in Nat \ {0} /\ ThreadOf(Len(frames)) = L
      /\ \A i \in 1 .. Len(frames) : ThreadOf(i) \in 1 .. L
  BY <1>1, TopThread, EmptySeq DEF Inv
<1>3. ThreadOf(m) = L
  <2>1. CASE m = Len(frames)
    BY <2>1, <1>2
  <2>2. CASE m # Len(frames)
    <3>1. m \in Nat /\ Len(frames) = m + 1 /\ frames[m + 1].by # "native"
      BY <2>2, <1>1
    <3>2. ThreadOf(m + 1) = ThreadOf(m)
      BY <3>1, ThreadOfNext
    <3> QED
      BY <1>2, <3>1, <3>2
  <2> QED
    BY <2>1, <2>2
<1>4. \A i \in 1 .. m : ThreadOf(i)' = ThreadOf(i)
  <2> SUFFICES ASSUME NEW i \in 1 .. m PROVE ThreadOf(i)' = ThreadOf(i)
    OBVIOUS
  <2>1. i \in Nat /\ \A j \in 1 .. i : frames'[j].by = frames[j].by
    BY <1>1 DEF Goes
  <2> QED
    BY <2>1, ThreadOfKept
<1>5. \A i \in 1 .. m - 1 : (Trying(i)' <=> Trying(i)) /\ (Waiting(i)' <=> Waiting(i))
  BY <1>1 DEF Goes, Trying, Waiting
<1>6. \A i \in 1 .. m - 1 : ThreadOf(i) = L => Waiting(i)
  <2> SUFFICES ASSUME NEW i \in 1 .. m - 1, ThreadOf(i) = L PROVE Waiting(i)
    OBVIOUS
  <2>1. frames[i + 1].by # "native"
    BY <1>1, <1>3, SameThread
  <2> QED
    BY <1>1, <2>1 DEF Inv, Linked
<1>7. \A i \in 1 .. m - 1 : frames[i + 1].by = "native" => ThreadOf(i) < L
  <2> SUFFICES ASSUME NEW i \in 1 .. m - 1, frames[i + 1].by = "native" PROVE ThreadOf(i) < L
    OBVIOUS
  <2>1. i \in Nat /\ i + 1 \in 1 .. Len(frames)
    BY <1>1
  <2>2. ThreadOf(i + 1) = ThreadOf(i) + 1 /\ ThreadOf(i) \in Nat
    BY <2>1, ThreadOfNext, ThreadOfNat
  <2>3. ThreadOf(i + 1) \in 1 .. L
    BY <2>1, <1>2
  <2> QED
    BY <2>2, <2>3, <1>2
<1>8. u \in ThreadType /\ u.try_state = t.try_state /\ u.error_code = t.error_code
      /\ u.try_result = TryResult(t, q)
      /\ u.try_error_code = (t.try_error_code \/ (t.error_code /\ t.try_state))
  BY <1>2 DEF Goes, ThreadType
<1>9. Types'
  <2>1. \A i \in 1 .. m : frames'[i].pc # VM_PC_EXIT => frames'[i].pc \in DOMAIN frames'[i].body
    <3> SUFFICES ASSUME NEW i \in 1 .. m
                 PROVE  frames'[i].pc # VM_PC_EXIT => frames'[i].pc \in DOMAIN frames'[i].body
      OBVIOUS
    <3>1. CASE i = m
      BY <3>1, <1>1 DEF Goes
    <3>2. CASE i # m
      <4>1. i \in 1 .. m - 1 /\ i \in DOMAIN frames
        BY <3>2, <1>1
      <4> QED
        BY <4>1 DEF Goes, Inv, Types
    <3> QED
      BY <3>1, <3>2
  <2> QED
    BY <1>1, <2>1 DEF Goes, Types
<1>10. Linked'
  <2>1. frames' # <<>> => frames'[1].by = "native"
    BY <1>1 DEF Goes, Inv, Linked
  <2>2. Len(threads)' = ThreadOf(Len(frames))'
    <3>1. ThreadOf(Len(frames))' = ThreadOf(m)'
      BY <1>1 DEF ThreadOf
    <3> QED
      BY <3>1, <1>1, <1>3, <1>4
  <2>3. \A k \in DOMAIN threads' : FramesOf(k)' # {}
    <3> SUFFICES ASSUME NEW k \in 1 .. L PROVE \E i \in 1 .. m : ThreadOf(i)' = k
      BY <1>1 DEF FramesOf
    <3>1. PICK i \in 1 .. Len(frames) : ThreadOf(i) = k
      BY <1>1 DEF FramesOf, Inv, Linked
    <3>2. CASE i \in 1 .. m
      BY <3>1, <3>2, <1>4
    <3>3. CASE i \notin 1 .. m
      BY <3>1, <3>3, <1>1, <1>2, <1>3, <1>4
    <3> QED
      BY <3>2, <3>3
  <2>4. ASSUME NEW i \in 1 .. m, i < m, frames'[i + 1].by # "native" PROVE Waiting(i)'
    BY <2>4, <1>1, <1>5 DEF Goes, Inv, Linked
  <2> QED
    BY <1>1, <2>1, <2>2, <2>3, <2>4 DEF Linked
<1>11. Separate'
  <2> SUFFICES ASSUME NEW i \in 1 .. m, NEW l \in 1 .. m,
                      i < l, ThreadOf(i)' = ThreadOf(l)', Trying(i)'
               PROVE  ~HasTry(frames'[l].body)
    BY <1>1 DEF Separate
  <2>1. Trying(i) /\ ThreadOf(i) = ThreadOf(l)
    BY <1>1, <1>4, <1>5
  <2> QED
    BY <2>1, <1>1 DEF Goes, Inv, Separate
<1>12. TryStateNested'
  <2> SUFFICES ASSUME NEW k \in 1 .. L
               PROVE  threads'[k].try_state <=>
                        \E i \in FramesOf(k)' : Trying(i)' \/
                          (frames'[i].pc # VM_PC_EXIT /\ frames'[i].body[frames'[i].pc] = "ntr")
    BY <1>1 DEF TryStateNested
  <2>1. CASE k # L
    <3>1. threads'[k] = threads[k]
      BY <2>1, <1>2 DEF Goes
    <3>2. FramesOf(k)' = FramesOf(k) /\ FramesOf(k) \subseteq 1 .. m - 1
      BY <2>1, <1>1, <1>2, <1>3, <1>4 DEF FramesOf
    <3>3. \A i \in 1 .. m - 1 : frames'[i].pc = frames[i].pc /\ frames'[i].body = frames[i].body
      BY <1>1 DEF Goes
    <3> QED
      BY <3>1, <3>2, <3>3, <1>1, <1>5 DEF Inv, TryStateNested
  <2>2. CASE k = L
    <3>1. FramesOf(k)' = {i \in 1 .. m : ThreadOf(i) = L}
      BY <2>2, <1>1, <1>4 DEF FramesOf
    <3>2. \A i \in 1 .. m - 1 : ThreadOf(i) = L =>
            frames'[i].pc # VM_PC_EXIT /\ frames'[i].body[frames'[i].pc] # "ntr"
      <4>1. \A i \in 1 .. m - 1 : frames'[i].pc = frames[i].pc /\ frames'[i].body = frames[i].body
        BY <1>1 DEF Goes
      <4> QED
        BY <4>1, <1>6 DEF Waiting, Works
    <3>3. (Trying(m)' \/ (frames'[m].pc # VM_PC_EXIT /\ frames'[m].body[frames'[m].pc] = "ntr"))
            <=> (q # VM_PC_EXIT /\ Guarded(frames[m].body, q))
      BY <1>1 DEF Goes, Trying, Guarded
    <3>4. Below(m) <=> \E i \in 1 .. m - 1 : ThreadOf(i) = L /\ Trying(i)'
      BY <1>5 DEF Below
    <3>5. threads'[k].try_state <=> (q # VM_PC_EXIT /\ Guarded(frames[m].body, q)) \/ Below(m)
      BY <2>2, <1>8
    <3>6. \A i \in 1 .. m : i \in 1 .. m - 1 \/ i = m
      BY <1>1
    <3> QED
      BY <3>1, <3>2, <3>3, <3>4, <3>5, <3>6, <1>1, <1>3
  <2> QED
    BY <2>1, <2>2
<1>13. \A i \in 1 .. m : LastOf(i)' =>
         \/ i = m
         \/ /\ i # m /\ LastOf(i) /\ ThreadOf(i)' = ThreadOf(i)
            /\ threads'[ThreadOf(i)] = threads[ThreadOf(i)]
            /\ frames'[i].pc = frames[i].pc /\ frames'[i].body = frames[i].body
  <2> SUFFICES ASSUME NEW i \in 1 .. m - 1, LastOf(i)'
               PROVE  /\ LastOf(i) /\ threads'[ThreadOf(i)] = threads[ThreadOf(i)]
                      /\ frames'[i].pc = frames[i].pc /\ frames'[i].body = frames[i].body
    BY <1>1, <1>4
  <2>1. frames[i + 1].by = "native"
    BY <1>1 DEF LastOf, Goes
  <2>2. ThreadOf(i) \in 1 .. L - 1
    BY <1>1, <1>2, <1>7, <2>1
  <2> QED
    BY <2>1, <2>2, <1>1 DEF LastOf, Goes
<1>14. threads'[ThreadOf(m)'] = u /\ frames'[m].pc = q /\ frames'[m].body = frames[m].body /\ signal_ctrl' = signal_ctrl
  BY <1>1, <1>3, <1>4 DEF Goes
<1>15. UnderWay'
  <2> SUFFICES ASSUME NEW i \in 1 .. m, LastOf(i)', threads'[ThreadOf(i)'].try_result
               PROVE  /\ frames'[i].pc = VM_PC_EXIT
                      /\ threads'[ThreadOf(i)'].error_code \/ signal_ctrl'
                      /\ threads'[ThreadOf(i)'].try_state
    BY <1>1 DEF UnderWay
  <2>1. CASE i = m
    BY <2>1, <1>8, <1>14 DEF Stops
  <2>2. CASE i # m
    BY <2>2, <1>1, <1>13, <1>14 DEF Inv, UnderWay
  <2> QED
    BY <2>1, <2>2
<1>16. Pending'
  <2> SUFFICES ASSUME NEW i \in 1 .. m, LastOf(i)', threads'[ThreadOf(i)'].try_error_code
               PROVE  \/ signal_ctrl'
                      \/ /\ frames'[i].pc = VM_PC_EXIT
                         /\ threads'[ThreadOf(i)'].error_code /\ threads'[ThreadOf(i)'].try_state
                      \/ /\ frames'[i].pc # VM_PC_EXIT
                         /\ frames'[i].body[frames'[i].pc] \in {"ntr", "exp"}
    BY <1>1 DEF Pending
  <2>1. CASE i = m
    BY <2>1, <1>8, <1>14
  <2>2. CASE i # m
    BY <2>2, <1>1, <1>13, <1>14 DEF Inv, Pending
  <2> QED
    BY <2>1, <2>2
<1> QED
  BY <1>3, <1>9, <1>10, <1>11, <1>12, <1>15, <1>16 DEF Inv

(* What the invariant says of the frame at the top, or of its caller when  *)
(* it is over.                                                             *)
LEMMA TopState ==
  ASSUME Inv, NEW m \in DOMAIN frames,
         \/ m = Len(frames)
         \/ /\ m = Len(frames) - 1
            /\ frames[Len(frames)].by # "native" /\ frames[Len(frames)].pc = VM_PC_EXIT
  PROVE  /\ Thread.try_state <=>
              (frames[m].pc # VM_PC_EXIT /\ Guarded(frames[m].body, frames[m].pc)) \/ Below(m)
         /\ Below(m) => ~HasTry(frames[m].body)
<1> DEFINE L == Len(threads)
<1>1. /\ DOMAIN frames = 1 .. Len(frames) /\ Len(frames) \in Nat /\ m \in 1 .. Len(frames)
      /\ DOMAIN threads = 1 .. L
  BY DEF Inv, Types
<1>2. L \in 1 .. L /\ ThreadOf(Len(frames)) = L
  BY <1>1, TopThread, EmptySeq DEF Inv
<1>3. ThreadOf(m) = L
  <2>1. CASE m = Len(frames)
    BY <2>1, <1>2
  <2>2. CASE m # Len(frames)
    <3>1. m \in Nat /\ Len(frames) = m + 1 /\ frames[m + 1].by # "native"
      BY <2>2, <1>1
    <3>2. ThreadOf(m + 1) = ThreadOf(m)
      BY <3>1, ThreadOfNext
    <3> QED
      BY <1>2, <3>1, <3>2
  <2> QED
    BY <2>1, <2>2
<1>4. \A i \in 1 .. m - 1 : ThreadOf(i) = L => Waiting(i)
  <2> SUFFICES ASSUME NEW i \in 1 .. m - 1, ThreadOf(i) = L PROVE Waiting(i)
    OBVIOUS
  <2>1. frames[i + 1].by # "native"
    BY <1>1, <1>3, SameThread
  <2> QED
    BY <1>1, <2>1 DEF Inv, Linked
<1>5. threads[L].try_state <=> \E i \in FramesOf(L) : Trying(i) \/
         (frames[i].pc # VM_PC_EXIT /\ frames[i].body[frames[i].pc] = "ntr")
  BY <1>1, <1>2 DEF Inv, TryStateNested
<1>6. FramesOf(L) = {i \in 1 .. Len(frames) : ThreadOf(i) = L}
  BY <1>1 DEF FramesOf
<1>7. \A i \in 1 .. m - 1 : ThreadOf(i) = L =>
        frames[i].pc # VM_PC_EXIT /\ frames[i].body[frames[i].pc] # "ntr"
  BY <1>4 DEF Waiting, Works
<1>8. \A i \in 1 .. Len(frames) : \/ i \in 1 .. m - 1 \/ i = m
                                  \/ frames[i].pc = VM_PC_EXIT
  BY <1>1
<1>9. (Trying(m) \/ (frames[m].pc # VM_PC_EXIT /\ frames[m].body[frames[m].pc] = "ntr"))
        <=> (frames[m].pc # VM_PC_EXIT /\ Guarded(frames[m].body, frames[m].pc))
  BY DEF Trying, Guarded
<1>10. \A i : frames[i].pc = VM_PC_EXIT => ~Trying(i)
  BY DEF Trying
<1>11. threads[L].try_state <=>
              (frames[m].pc # VM_PC_EXIT /\ Guarded(frames[m].body, frames[m].pc)) \/ Below(m)
  BY <1>1, <1>3, <1>5, <1>6, <1>7, <1>8, <1>9, <1>10 DEF Below
<1>12. Below(m) => ~HasTry(frames[m].body)
  BY <1>1, <1>3 DEF Below, Inv, Separate
<1> QED
  BY <1>11, <1>12 DEF Thread

(* Statements other than TRY and NTR, and the return to a caller: an error *)
(* goes to the end of the try if the frame is in one, and else out of the  *)
(* frame, whose function then has no try that could be taken for it.       *)
LEMMA OrdinaryStep ==
  ASSUME Disciplined, Inv, NEW m \in DOMAIN frames,
         \/ m = Len(frames)
         \/ /\ m = Len(frames) - 1
            /\ frames[Len(frames)].by # "native" /\ frames[Len(frames)].pc = VM_PC_EXIT,
         frames[m].pc # VM_PC_EXIT, frames[m].body[frames[m].pc] \notin {"try", "ntr"},
         NEW t \in ThreadType, t.try_state = Thread.try_state,
         NEW n \in Nat, NEW q \in Nat, Jump(frames[m], t, n, q), Goes(m, q, t),
         ~Stops(t) => /\ n # VM_PC_EXIT => n \in DOMAIN frames[m].body
                      /\ (n # VM_PC_EXIT /\ Guarded(frames[m].body, n))
                           <=> InTry(frames[m].body, frames[m].pc),
         t.try_result => Stops(t) /\ t.try_state,
         t.try_error_code => signal_ctrl \/ (t.error_code /\ t.try_state)
  PROVE  Inv' /\ ThreadOf(m) = Len(threads)
<1> DEFINE f == frames[m]
           b == f.body
<1>1. f \in FrameType /\ b \in Bodies /\ f.pc \in DOMAIN b /\ f.pc \in Nat /\ f.pc > 0
  <2>1. f \in FrameType /\ f.pc \in DOMAIN b
    BY DEF Inv, Types
  <2> QED
    BY <2>1 DEF FrameType, VM_PC_EXIT
<1>2. Guarded(b, f.pc) <=> InTry(b, f.pc)
  BY DEF Guarded
<1>3. /\ t.try_state <=> InTry(b, f.pc) \/ Below(m)
      /\ Below(m) => ~HasTry(b)
  BY <1>2, TopState
<1>4. \/ RaiseTarget(f) = VM_PC_EXIT
      \/ RaiseTarget(f) \in DOMAIN b /\ b[RaiseTarget(f)] = "ntr"
  BY <1>1, RaiseFinds
<1>5. InTry(b, f.pc) => RaiseTarget(f) # VM_PC_EXIT
  <2> SUFFICES ASSUME InTry(b, f.pc) PROVE RaiseTarget(f) # VM_PC_EXIT
    OBVIOUS
  <2>1. RaiseTarget(f) > f.pc
    BY <1>1, RaiseCaught
  <2> QED
    BY <2>1, <1>1 DEF VM_PC_EXIT
<1>6. Below(m) => RaiseTarget(f) = VM_PC_EXIT /\ ~InTry(b, f.pc)
  <2> SUFFICES ASSUME Below(m) PROVE RaiseTarget(f) = VM_PC_EXIT /\ ~InTry(b, f.pc)
    OBVIOUS
  <2> QED
    BY <1>1, <1>2, <1>3, RaisePasses, NoTryNoGuard
<1>7. q # VM_PC_EXIT => q \in DOMAIN b
  BY <1>4 DEF Jump
<1>8. t.try_state <=> (q # VM_PC_EXIT /\ Guarded(b, q)) \/ Below(m)
  <2>1. CASE ~Stops(t)
    BY <2>1, <1>3 DEF Jump
  <2>2. CASE Stops(t) /\ t.try_state
    BY <2>2, <1>3, <1>4, <1>5, <1>6 DEF Jump, Guarded
  <2>3. CASE Stops(t) /\ ~t.try_state
    BY <2>3, <1>3 DEF Jump
  <2> QED
    BY <2>1, <2>2, <2>3
<1>9. TryResult(t, q) => q = VM_PC_EXIT /\ Stops(t) /\ t.try_state
  BY DEF TryResult
<1>10. t.try_error_code \/ (t.error_code /\ t.try_state) =>
           \/ signal_ctrl
           \/ q = VM_PC_EXIT /\ t.error_code /\ t.try_state
           \/ q # VM_PC_EXIT /\ b[q] \in {"ntr", "exp"}
  BY <1>4 DEF Jump, Stops
<1> HIDE DEF f, b
<1> QED
  BY <1>7, <1>8, <1>9, <1>10, GoesInv DEF f, b

-----------------------------------------------------------------------------
(* The statements.                                                         *)

LEMMA AtStatement ==
  ASSUME Inv, Running, Frame.pc # VM_PC_EXIT
  PROVE  /\ Len(frames) \in DOMAIN frames /\ Len(frames) \in Nat \ {0} /\ Frame = frames[Len(frames)]
         /\ Frame \in FrameType /\ Frame.body \in Bodies /\ Frame.pc \in DOMAIN Frame.body
         /\ Frame.pc \in Nat /\ DOMAIN Frame.body \subseteq Nat
         /\ threads # <<>> /\ Thread \in ThreadType /\ ~Thread.try_result
         /\ Thread.try_error_code => signal_ctrl \/ Here \in {"ntr", "exp"}
<1>1. /\ Len(frames) \in DOMAIN frames /\ Len(frames) \in Nat \ {0}
      /\ ThreadOf(Len(frames)) = Len(threads) /\ Len(threads) \in DOMAIN threads
  BY TopThread DEF Inv, Running
<1>2. Frame \in FrameType /\ Frame.pc \in DOMAIN Frame.body
  BY <1>1 DEF Inv, Types, Frame
<1>3. Frame.body \in Bodies /\ Frame.pc \in Nat /\ DOMAIN Frame.body \subseteq Nat
  BY <1>2, BodiesAssumption DEF FrameType, Structured
<1>4. threads # <<>> /\ Thread \in ThreadType
  BY <1>1 DEF Inv, Types, Thread
<1>5. LastOf(Len(frames)) /\ Thread = threads[ThreadOf(Len(frames))]
  BY <1>1 DEF LastOf, Thread
<1>6. ~Thread.try_result
  BY <1>1, <1>5 DEF Inv, UnderWay, Frame
<1>7. Thread.try_error_code => signal_ctrl \/ Here \in {"ntr", "exp"}
  BY <1>1, <1>5 DEF Inv, Pending, Frame, Here
<1> QED
  BY <1>1, <1>2, <1>3, <1>4, <1>6, <1>7 DEF Frame

(* Where the frame at the top is after a statement.                        *)
LEMMA StatementGoes ==
  ASSUME Inv, Running, Frame.pc # VM_PC_EXIT,
         NEW t \in ThreadType, NEW n \in Nat, After(frames, Frame, t, n)
  PROVE  \E q \in Nat : /\ Jump(Frame, t, n, q) /\ Goes(Len(frames), q, t)
                        /\ q # n => q \in {VM_PC_EXIT} \cup DOMAIN Frame.body
<1>1. frames \in Seq(FrameType)
  BY DEF Inv, Types
<1> QED
  BY <1>1, AtStatement, AfterGoes DEF Inv

LEMMA OrdinaryStatement ==
  ASSUME Disciplined, Inv, Running, Frame.pc # VM_PC_EXIT, Here \notin {"try", "ntr"},
         NEW t \in ThreadType, t.try_state = Thread.try_state, t.try_result = Thread.try_result,
         t.try_error_code => Thread.try_error_code /\ Here # "exp",
         NEW n \in Nat, After(frames, Frame, t, n),
         n # VM_PC_EXIT => n \in DOMAIN Frame.body,
         (n # VM_PC_EXIT /\ Guarded(Frame.body, n)) <=> InTry(Frame.body, Frame.pc)
  PROVE  Inv'
<1>1. PICK q \in Nat : Jump(Frame, t, n, q) /\ Goes(Len(frames), q, t)
  BY StatementGoes
<1>2. Len(frames) \in DOMAIN frames /\ Frame = frames[Len(frames)] /\ ~t.try_result
  BY AtStatement
<1>3. t.try_error_code => signal_ctrl
  BY AtStatement
<1> QED
  BY <1>1, <1>2, <1>3, OrdinaryStep DEF Here

LEMMA ThreadForms ==
  ASSUME NEW t \in ThreadType, NEW e \in BOOLEAN
  PROVE  /\ NewLine(t) \in ThreadType /\ NewLine(t).error_code = FALSE
         /\ NewLine(t).try_state = t.try_state /\ NewLine(t).try_result = t.try_result
         /\ NewLine(t).try_error_code = t.try_error_code
         /\ [t EXCEPT !.error_code = e] \in ThreadType
         /\ [t EXCEPT !.error_code = e].error_code = e
         /\ [t EXCEPT !.error_code = e].try_state = t.try_state
         /\ [t EXCEPT !.error_code = e].try_result = t.try_result
         /\ [t EXCEPT !.error_code = e].try_error_code = t.try_error_code
  BY DEF ThreadType, NewLine

LEMMA CompleteInv == Disciplined /\ Inv /\ Complete => Inv'
<1> SUFFICES ASSUME Disciplined, Inv, Complete PROVE Inv'
  OBVIOUS
<1>1. Running /\ Frame.pc # VM_PC_EXIT /\ Here \in Works
  BY DEF Complete, Statement
<1>2. Here \notin {"try", "ntr", "ret", "exp"}
  BY <1>1 DEF Works
<1>3. PICK n : /\ n = Frame.pc + 1 \/ (Here = "loop" /\ n = PastLoop(Frame.body))
               /\ After(frames, Frame, NewLine(Thread), n)
  BY DEF Complete
<1>4. n \in DOMAIN Frame.body /\ (Guarded(Frame.body, n) <=> InTry(Frame.body, Frame.pc))
  <2>1. CASE n = Frame.pc + 1
    BY <1>1, <1>2, <2>1, AtStatement, NextPosition, GuardKept DEF Here
  <2>2. CASE Here = "loop" /\ n = PastLoop(Frame.body)
    BY <1>1, <2>2, AtStatement, LoopKeeps DEF Here
  <2> QED
    BY <1>3, <2>1, <2>2
<1>5. n \in Nat /\ n # VM_PC_EXIT
  BY <1>1, <1>4, AtStatement, BodiesAssumption DEF Structured, VM_PC_EXIT
<1>6. NewLine(Thread) \in ThreadType /\ NewLine(Thread).try_state = Thread.try_state
      /\ NewLine(Thread).try_result = Thread.try_result
      /\ NewLine(Thread).try_error_code = Thread.try_error_code
  BY <1>1, AtStatement, ThreadForms
<1> QED
  BY <1>1, <1>2, <1>3, <1>4, <1>5, <1>6, OrdinaryStatement

(* The statement behind one that is no try and no end of one.              *)
LEMMA NextOne ==
  ASSUME Inv, Running, Frame.pc # VM_PC_EXIT, Here \notin {"try", "ntr", "ret"}
  PROVE  /\ Frame.pc + 1 \in Nat /\ Frame.pc + 1 \in DOMAIN Frame.body /\ Frame.pc + 1 # VM_PC_EXIT
         /\ Guarded(Frame.body, Frame.pc + 1) <=> InTry(Frame.body, Frame.pc)
<1>1. Frame.pc + 1 \in DOMAIN Frame.body /\ Frame.pc \in Nat
  BY AtStatement, NextPosition DEF Here
<1>2. Guarded(Frame.body, Frame.pc + 1) <=> InTry(Frame.body, Frame.pc)
  BY AtStatement, GuardKept DEF Here
<1> QED
  BY <1>1, <1>2 DEF VM_PC_EXIT

(* An error that is set in a statement, or not.                            *)
LEMMA FailInv ==
  ASSUME Disciplined, Inv, NEW e \in BOOLEAN, Statement(Works \cup {"raise"}),
         After(frames, Frame, [Thread EXCEPT !.error_code = e], Frame.pc + 1)
  PROVE  Inv'
<1>1. Running /\ Frame.pc # VM_PC_EXIT /\ Here \notin {"try", "ntr", "ret", "exp"}
  BY DEF Statement, Works
<1> DEFINE t == [Thread EXCEPT !.error_code = e]
<1>2. t \in ThreadType /\ t.try_state = Thread.try_state /\ t.try_result = Thread.try_result
      /\ t.try_error_code = Thread.try_error_code
  BY <1>1, AtStatement, ThreadForms
<1> HIDE DEF t
<1>3. After(frames, Frame, t, Frame.pc + 1)
  BY DEF t
<1> QED
  BY <1>1, <1>2, <1>3, NextOne, OrdinaryStatement

LEMMA BackInv == Disciplined /\ Inv /\ Back => Inv'
<1> SUFFICES ASSUME Disciplined, Inv, Back PROVE Inv'
  OBVIOUS
<1>1. Running /\ Frame.pc # VM_PC_EXIT /\ Here = "back"
  BY DEF Back, Statement
<1>2. After(frames, Frame, NewLine(Thread), LoopOf(Frame.body))
  BY DEF Back
<1>3. LoopOf(Frame.body) \in DOMAIN Frame.body
      /\ (Guarded(Frame.body, LoopOf(Frame.body)) <=> InTry(Frame.body, Frame.pc))
  BY <1>1, AtStatement, LoopKeeps DEF Here
<1>4. LoopOf(Frame.body) \in Nat /\ LoopOf(Frame.body) # VM_PC_EXIT
  BY <1>1, <1>3, AtStatement, BodiesAssumption DEF Structured, VM_PC_EXIT
<1>5. NewLine(Thread) \in ThreadType /\ NewLine(Thread).try_state = Thread.try_state
      /\ NewLine(Thread).try_result = Thread.try_result
      /\ NewLine(Thread).try_error_code = Thread.try_error_code
  BY <1>1, AtStatement, ThreadForms
<1> QED
  BY <1>1, <1>2, <1>3, <1>4, <1>5, OrdinaryStatement

LEMMA RetInv == Disciplined /\ Inv /\ RET => Inv'
<1> SUFFICES ASSUME Disciplined, Inv, RET PROVE Inv'
  OBVIOUS
<1>1. Running /\ Frame.pc # VM_PC_EXIT /\ Here = "ret"
  BY DEF RET, Statement
<1>2. After(frames, Frame, NewLine(Thread), VM_PC_EXIT)
  BY DEF RET
<1>3. ~InTry(Frame.body, Frame.pc)
  BY <1>1, AtStatement DEF Here, Disciplined
<1>4. NewLine(Thread) \in ThreadType /\ NewLine(Thread).try_state = Thread.try_state
      /\ NewLine(Thread).try_result = Thread.try_result
      /\ NewLine(Thread).try_error_code = Thread.try_error_code
  BY <1>1, AtStatement, ThreadForms
<1>5. VM_PC_EXIT \in Nat
  BY DEF VM_PC_EXIT
<1> QED
  BY <1>1, <1>2, <1>3, <1>4, <1>5, OrdinaryStatement

LEMMA ExpInv == Disciplined /\ Inv /\ EXP => Inv'
<1> SUFFICES ASSUME Disciplined, Inv, EXP PROVE Inv'
  OBVIOUS
<1>1. Running /\ Frame.pc # VM_PC_EXIT /\ Here = "exp"
  BY DEF EXP, Statement
<1> DEFINE t == [NewLine(Thread) EXCEPT !.try_error_code = FALSE]
<1>2. t \in ThreadType /\ t.try_state = Thread.try_state /\ t.try_result = Thread.try_result
      /\ ~t.try_error_code
  BY <1>1, AtStatement DEF ThreadType, NewLine
<1> HIDE DEF t
<1>3. After(frames, Frame, t, Frame.pc + 1)
  BY DEF EXP, t
<1> QED
  BY <1>1, <1>2, <1>3, NextOne, OrdinaryStatement

LEMMA TryInv == Disciplined /\ Inv /\ TRY => Inv'
<1> SUFFICES ASSUME Disciplined, Inv, TRY PROVE Inv'
  OBVIOUS
<1>1. Running /\ Frame.pc # VM_PC_EXIT /\ Here = "try"
  BY DEF TRY, Statement
<1> DEFINE t == [NewLine(Thread) EXCEPT !.try_state = TRUE]
           b == Frame.body
           m == Len(frames)
<1>2. t \in ThreadType /\ t.try_state /\ ~t.error_code /\ ~t.try_result
      /\ t.try_error_code = Thread.try_error_code
  BY <1>1, AtStatement DEF ThreadType, NewLine
<1> HIDE DEF t
<1>3. After(frames, Frame, t, Frame.pc + 1)
  BY DEF TRY, t
<1>4. b \in Bodies /\ Frame.pc \in DOMAIN b /\ Frame.pc \in Nat /\ m \in DOMAIN frames /\ Frame = frames[m]
      /\ (t.try_error_code => signal_ctrl)
  BY <1>1, <1>2, AtStatement
<1>5. Frame.pc + 1 \in DOMAIN b /\ Guarded(b, Frame.pc + 1)
  BY <1>1, <1>4, NextPosition, GuardBegins DEF Here
<1>6. RaiseTarget(Frame) \in DOMAIN b /\ RaiseTarget(Frame) > Frame.pc /\ Guarded(b, RaiseTarget(Frame))
  BY <1>1, <1>4, RaiseCaught DEF Here, Guarded
<1>7. PICK q \in Nat : Jump(Frame, t, Frame.pc + 1, q) /\ Goes(m, q, t)
  BY <1>1, <1>2, <1>3, <1>4, StatementGoes
<1>8. q \in DOMAIN b /\ q # VM_PC_EXIT /\ Guarded(b, q)
  BY <1>2, <1>4, <1>5, <1>6, <1>7 DEF Jump, VM_PC_EXIT
<1>9. ~TryResult(t, q)
  BY <1>2, <1>8 DEF TryResult
<1> HIDE DEF m
<1> QED
  BY <1>2, <1>4, <1>7, <1>8, <1>9, GoesInv DEF m

LEMMA NtrInv == Disciplined /\ Inv /\ NTR => Inv'
<1> SUFFICES ASSUME Disciplined, Inv, NTR PROVE Inv'
  OBVIOUS
<1>1. Running /\ Frame.pc # VM_PC_EXIT /\ Here = "ntr"
  BY DEF NTR, Statement
<1> DEFINE t == [NewLine(Thread) EXCEPT !.try_state = FALSE]
           b == Frame.body
           m == Len(frames)
           n == IF Thread.try_error_code THEN Frame.pc + 1 ELSE PastHandler(b, Frame.pc)
<1>2. t \in ThreadType /\ ~t.try_state /\ ~t.error_code /\ ~t.try_result
      /\ t.try_error_code = Thread.try_error_code
  BY <1>1, AtStatement DEF ThreadType, NewLine
<1> HIDE DEF t
<1>3. After(frames, Frame, t, n)
  BY DEF NTR, t
<1>4. b \in Bodies /\ Frame.pc \in DOMAIN b /\ Frame.pc \in Nat /\ DOMAIN b \subseteq Nat
      /\ m \in DOMAIN frames /\ Frame = frames[m]
  BY <1>1, AtStatement
<1>5. n \in DOMAIN b /\ n \in Nat /\ n # VM_PC_EXIT /\ ~Guarded(b, n)
      /\ (t.try_error_code => b[n] = "exp")
  <2>1. CASE Thread.try_error_code
    BY <1>1, <1>2, <1>4, <2>1, NextPosition, GuardEnds DEF Here, VM_PC_EXIT
  <2>2. CASE ~Thread.try_error_code
    BY <1>1, <1>2, <1>4, <2>2, GuardEnds DEF Here, VM_PC_EXIT
  <2> QED
    BY <2>1, <2>2
<1> HIDE DEF n
<1>6. ~Below(m)
  BY <1>1, <1>4, TopState, NoTryNoGuard DEF Here
<1>7. PICK q \in Nat : Jump(Frame, t, n, q) /\ Goes(m, q, t)
  BY <1>1, <1>2, <1>3, <1>5, StatementGoes
<1>8. (q # VM_PC_EXIT => q = n) /\ (~signal_ctrl => q = n)
  BY <1>2, <1>7 DEF Jump, Stops
<1>9. ~TryResult(t, q)
  BY <1>2 DEF TryResult
<1> HIDE DEF m
<1> QED
  BY <1>2, <1>4, <1>5, <1>6, <1>7, <1>8, <1>9, GoesInv DEF m

-----------------------------------------------------------------------------
(* Frames that end, and frames that begin.                                 *)

(* The frame below the last one.                                           *)
LEMMA FrontIs ==
  ASSUME NEW S, NEW s \in Seq(S), s # <<>>
  PROVE  /\ Front(s) \in Seq(S) /\ Len(Front(s)) = Len(s) - 1 /\ Len(s) \in Nat \ {0}
         /\ \A i \in 1 .. Len(s) - 1 : Front(s)[i] = s[i]
<1>1. Len(s) \in Nat \ {0}
  BY EmptySeq
<1>2. PICK l \in Nat : l = Len(s) - 1
  BY <1>1
<1>3. 1 \in Int /\ l \in Int /\ \A i \in 1 .. l : s[i] \in S
  BY <1>1, <1>2
<1>4. /\ SubSeq(s, 1, l) \in Seq(S) /\ Len(SubSeq(s, 1, l)) = IF 1 <= l THEN l - 1 + 1 ELSE 0
      /\ \A i \in 1 .. l - 1 + 1 : SubSeq(s, 1, l)[i] = s[1 + i - 1]
  BY <1>3, SubSeqProperties
<1>5. /\ l - 1 + 1 = l /\ \A i \in 1 .. l : 1 + i - 1 = i
      /\ (IF 1 <= l THEN l - 1 + 1 ELSE 0) = l
  BY <1>2
<1> QED
  BY <1>1, <1>2, <1>4, <1>5 DEF Front

(* The thread as the caller finds it.                                      *)
Returned == IF Frame.by = "RUN" /\ Thread.try_result
            THEN [Thread EXCEPT !.error_code = TRUE] ELSE Thread

(* A frame that native code did not call is over: where its caller goes.   *)
LEMMA ReturnGoes ==
  ASSUME Inv, Return, Frame.by # "native"
  PROVE  LET m == Len(frames) - 1
         IN  /\ m \in DOMAIN frames /\ m \in Nat \ {0} /\ m + 1 = Len(frames)
             /\ Waiting(m) /\ frames[m].pc \in DOMAIN frames[m].body /\ frames[m].pc \in Nat
             /\ Frame.pc = VM_PC_EXIT /\ Frame = frames[Len(frames)]
             /\ Thread \in ThreadType
             /\ Returned \in ThreadType /\ Returned.try_state = Thread.try_state
             /\ Returned.try_result => Stops(Returned) /\ Returned.try_state
             /\ Returned.try_error_code => signal_ctrl \/ (Returned.error_code /\ Returned.try_state)
             /\ ~signal_ctrl => Returned.error_code = Thread.error_code
             /\ \E q \in Nat : Jump(frames[m], Returned, frames[m].pc, q) /\ Goes(m, q, Returned)
<1> DEFINE m == Len(frames) - 1
<1>1. Running /\ Frame.pc = VM_PC_EXIT
  BY DEF Return
<1>2. frames \in Seq(FrameType) /\ frames # <<>> /\ threads \in Seq(ThreadType)
  BY <1>1 DEF Running, Inv, Types
<1>3. /\ Len(frames) \in DOMAIN frames /\ Len(frames) \in Nat \ {0} /\ DOMAIN frames = 1 .. Len(frames)
      /\ ThreadOf(Len(frames)) = Len(threads) /\ Len(threads) \in DOMAIN threads
  BY <1>2, TopThread DEF Inv
<1>4. Len(frames) # 1
  BY <1>2 DEF Inv, Linked, Frame
<1>5. m \in Nat \ {0} /\ m \in DOMAIN frames /\ m < Len(frames) /\ m + 1 = Len(frames)
  BY <1>3, <1>4
<1>6. Waiting(m)
  BY <1>5 DEF Inv, Linked, Frame
<1>7. frames[m] \in FrameType /\ frames[m].pc \in DOMAIN frames[m].body /\ frames[m].pc \in Nat
  <2>1. frames[m] \in FrameType
    BY <1>2, <1>5
  <2>2. frames[m].pc \in DOMAIN frames[m].body
    BY <1>5, <1>6 DEF Inv, Types, Waiting
  <2> QED
    BY <2>1, <2>2 DEF FrameType
<1>8. threads # <<>> /\ Thread \in ThreadType /\ LastOf(Len(frames)) /\ Thread = threads[ThreadOf(Len(frames))]
  BY <1>2, <1>3 DEF Thread, LastOf
<1>9. /\ Thread.try_result => (Thread.error_code \/ signal_ctrl) /\ Thread.try_state
      /\ Thread.try_error_code => signal_ctrl \/ (Thread.error_code /\ Thread.try_state)
  BY <1>1, <1>3, <1>8 DEF Inv, UnderWay, Pending, Frame
<1>10. /\ Returned \in ThreadType /\ Returned.try_state = Thread.try_state
       /\ Returned.try_result = Thread.try_result
       /\ Returned.try_error_code = Thread.try_error_code
       /\ (Thread.error_code => Returned.error_code)
       /\ Returned.error_code = Thread.error_code \/ (Returned.error_code /\ Thread.try_result)
  BY <1>8, ThreadForms DEF Returned
<1>11. Returned.error_code \in BOOLEAN /\ Thread.error_code \in BOOLEAN
  BY <1>8, <1>10 DEF ThreadType
<1>12. ~signal_ctrl => Returned.error_code = Thread.error_code
  BY <1>9, <1>10, <1>11
<1>13. Front(frames) \in Seq(FrameType) /\ Len(Front(frames)) = m
       /\ \A i \in 1 .. m : Front(frames)[i] = frames[i]
  BY <1>2, FrontIs
<1>14. After(Front(frames), frames[m], Returned, frames[m].pc)
  <2>1. Front(frames)[Len(Front(frames))] = frames[m]
    BY <1>5, <1>13
  <2> QED
    BY <2>1 DEF Return, Returned
<1>15. \E q \in Nat : Jump(frames[m], Returned, frames[m].pc, q) /\ Goes(m, q, Returned)
  BY <1>5, <1>7, <1>8, <1>10, <1>13, <1>14, AfterGoes DEF Inv
<1> QED
  BY <1>1, <1>3, <1>5, <1>6, <1>7, <1>8, <1>9, <1>10, <1>12, <1>15 DEF Frame, Stops

LEMMA ReturnInv == Disciplined /\ Inv /\ Return /\ Frame.by # "native" => Inv'
<1> SUFFICES ASSUME Disciplined, Inv, Return, Frame.by # "native" PROVE Inv'
  OBVIOUS
<1> DEFINE m == Len(frames) - 1
<1>1. PICK q \in Nat : Jump(frames[m], Returned, frames[m].pc, q) /\ Goes(m, q, Returned)
  BY ReturnGoes
<1>2. /\ m \in DOMAIN frames /\ frames[m].pc # VM_PC_EXIT
      /\ frames[m].body[frames[m].pc] \notin {"try", "ntr"}
      /\ frames[Len(frames)].by # "native" /\ frames[Len(frames)].pc = VM_PC_EXIT
  BY ReturnGoes DEF Waiting, Works
<1>3. Guarded(frames[m].body, frames[m].pc) <=> InTry(frames[m].body, frames[m].pc)
  BY <1>2 DEF Guarded
<1>4. /\ Returned \in ThreadType /\ Returned.try_state = Thread.try_state
      /\ Returned.try_result => Stops(Returned) /\ Returned.try_state
      /\ Returned.try_error_code => signal_ctrl \/ (Returned.error_code /\ Returned.try_state)
      /\ frames[m].pc \in DOMAIN frames[m].body /\ frames[m].pc \in Nat
  BY ReturnGoes
<1> HIDE DEF m
<1>5. m = Len(frames) - 1
  BY DEF m
<1> QED
  BY <1>1, <1>2, <1>3, <1>4, <1>5, OrdinaryStep

(* The frame of a call from native code is over, and its thread with it.   *)
LEMMA NativeReturnIs ==
  ASSUME Inv, Return, Frame.by = "native"
  PROVE  LET m == Len(frames) - 1
         IN  /\ m \in Nat /\ m + 1 = Len(frames) /\ Frame.pc = VM_PC_EXIT
             /\ frames' \in Seq(FrameType) /\ Len(frames') = m
             /\ \A i \in 1 .. m : frames'[i] = frames[i]
             /\ threads' \in Seq(ThreadType) /\ Len(threads') = Len(threads) - 1 /\ Len(threads') \in Nat
             /\ \A k \in 1 .. Len(threads') : threads'[k] = threads[k]
             /\ ThreadOf(m) = Len(threads')
             /\ signal_ctrl' = signal_ctrl
             /\ \A i \in 1 .. m : ThreadOf(i) \in 1 .. Len(threads')
             /\ \A i \in 0 .. m : ThreadOf(i)' = ThreadOf(i)
<1> DEFINE m == Len(frames) - 1
<1>1. frames \in Seq(FrameType) /\ frames # <<>> /\ threads \in Seq(ThreadType) /\ Frame.pc = VM_PC_EXIT
  BY DEF Inv, Types, Return, Running
<1>2. /\ Len(frames) \in Nat \ {0} /\ ThreadOf(Len(frames)) = Len(threads)
      /\ Len(threads) \in DOMAIN threads /\ Len(threads) \in Nat \ {0}
  BY <1>1, TopThread DEF Inv
<1>3. m \in Nat /\ m + 1 = Len(frames) /\ Len(threads) - 1 \in Nat
  BY <1>2
<1>4. frames' = Front(frames) /\ threads' = Front(threads) /\ signal_ctrl' = signal_ctrl
  BY DEF Return
<1>5. /\ frames' \in Seq(FrameType) /\ Len(frames') = m
      /\ \A i \in 1 .. m : frames'[i] = frames[i]
  BY <1>1, <1>4, FrontIs
<1>6. /\ threads' \in Seq(ThreadType) /\ Len(threads') = Len(threads) - 1
      /\ \A k \in 1 .. Len(threads') : threads'[k] = threads[k]
  <2>1. threads # <<>>
    BY <1>2
  <2> QED
    BY <1>1, <1>4, <2>1, FrontIs
<1>7. ThreadOf(m) = Len(threads')
  <2>1. ThreadOf(m + 1) = ThreadOf(m) + 1 /\ ThreadOf(m) \in Nat
    BY <1>3, ThreadOfNext, ThreadOfNat DEF Frame
  <2> QED
    BY <2>1, <1>2, <1>3, <1>6
<1>8. \A i \in 1 .. m : ThreadOf(i) \in 1 .. Len(threads')
  <2> SUFFICES ASSUME NEW i \in 1 .. m PROVE ThreadOf(i) \in 1 .. Len(threads')
    OBVIOUS
  <2>1. i \in Nat /\ i <= m /\ i \in DOMAIN frames
    BY <1>1, <1>3
  <2>2. ThreadOf(i) <= ThreadOf(m)
    BY <1>3, <2>1, ThreadOfGrows
  <2>3. ThreadOf(i) \in DOMAIN threads /\ DOMAIN threads = 1 .. Len(threads)
    BY <1>1, <2>1, TopThread DEF Inv
  <2> QED
    BY <2>2, <2>3, <1>6, <1>7
<1>9. \A i \in 0 .. m : ThreadOf(i)' = ThreadOf(i)
  <2> SUFFICES ASSUME NEW i \in 0 .. m PROVE ThreadOf(i)' = ThreadOf(i)
    OBVIOUS
  <2>1. i \in Nat /\ \A j \in 1 .. i : frames'[j].by = frames[j].by
    BY <1>3, <1>5
  <2> QED
    BY <2>1, ThreadOfKept
<1> QED
  BY <1>1, <1>3, <1>4, <1>5, <1>6, <1>7, <1>8, <1>9

LEMMA NativeReturnInv == Inv /\ Return /\ Frame.by = "native" => Inv'
<1> SUFFICES ASSUME Inv, Return, Frame.by = "native" PROVE Inv'
  OBVIOUS
<1>1. PICK m \in Nat, L \in Nat :
        /\ m + 1 = Len(frames) /\ frames' \in Seq(FrameType) /\ Len(frames') = m
        /\ \A i \in 1 .. m : frames'[i] = frames[i]
        /\ threads' \in Seq(ThreadType) /\ Len(threads') = L /\ L + 1 = Len(threads)
        /\ \A k \in 1 .. L : threads'[k] = threads[k]
        /\ ThreadOf(m) = L /\ signal_ctrl' = signal_ctrl
        /\ \A i \in 1 .. m : ThreadOf(i) \in 1 .. L
        /\ \A i \in 0 .. m : ThreadOf(i)' = ThreadOf(i)
  <2> DEFINE mm == Len(frames) - 1
             LL == Len(threads')
  <2>1. /\ mm \in Nat /\ mm + 1 = Len(frames) /\ Len(threads) - 1 \in Nat
        /\ frames' \in Seq(FrameType) /\ Len(frames') = mm
        /\ \A i \in 1 .. mm : frames'[i] = frames[i]
        /\ threads' \in Seq(ThreadType) /\ LL \in Nat /\ LL = Len(threads) - 1 /\ LL + 1 = Len(threads)
        /\ \A k \in 1 .. LL : threads'[k] = threads[k]
        /\ ThreadOf(mm) = LL /\ signal_ctrl' = signal_ctrl
        /\ \A i \in 1 .. mm : ThreadOf(i) \in 1 .. LL
        /\ \A i \in 0 .. mm : ThreadOf(i)' = ThreadOf(i)
    BY NativeReturnIs DEF Inv, Types
  <2> QED
    BY <2>1
<1>2. /\ DOMAIN frames = 1 .. m + 1 /\ DOMAIN frames' = 1 .. m
      /\ DOMAIN threads = 1 .. L + 1 /\ DOMAIN threads' = 1 .. L
      /\ ThreadOf(Len(frames)) = Len(threads)
  BY <1>1 DEF Inv, Types, Linked
<1>3. \A i \in 1 .. m : (Trying(i)' <=> Trying(i)) /\ (Waiting(i)' <=> Waiting(i))
  BY <1>1 DEF Trying, Waiting
<1>4. \A i \in 1 .. m : LastOf(i)' => LastOf(i)
  <2> SUFFICES ASSUME NEW i \in 1 .. m, LastOf(i)' PROVE LastOf(i)
    OBVIOUS
  <2>1. CASE i = m
    BY <2>1, <1>1 DEF LastOf, Frame
  <2>2. CASE i # m
    BY <2>2, <1>1 DEF LastOf
  <2> QED
    BY <2>1, <2>2
<1>5. Types'
  BY <1>1, <1>2 DEF Inv, Types
<1>6. Linked'
  <2>1. frames' # <<>> => frames'[1].by = "native"
    BY <1>1, <1>2 DEF Inv, Linked
  <2>2. Len(threads)' = ThreadOf(Len(frames))'
    <3>1. ThreadOf(Len(frames))' = ThreadOf(m)'
      BY <1>1 DEF ThreadOf
    <3>2. m \in 0 .. m
      BY <1>1
    <3> QED
      BY <3>1, <3>2, <1>1
  <2>3. \A k \in DOMAIN threads' : FramesOf(k)' # {}
    <3> SUFFICES ASSUME NEW k \in 1 .. L PROVE \E i \in 1 .. m : ThreadOf(i)' = k
      BY <1>2 DEF FramesOf
    <3>0. k \in DOMAIN threads
      BY <1>1, <1>2
    <3>1. PICK i \in 1 .. m + 1 : ThreadOf(i) = k
      BY <3>0, <1>2 DEF FramesOf, Inv, Linked
    <3>2. i # m + 1
      BY <3>1, <1>1, <1>2
    <3> QED
      BY <3>1, <3>2, <1>1
  <2>4. ASSUME NEW i \in 1 .. m, i < m, frames'[i + 1].by # "native" PROVE Waiting(i)'
    BY <2>4, <1>1, <1>2, <1>3 DEF Inv, Linked
  <2> QED
    BY <1>1, <1>2, <2>1, <2>2, <2>3, <2>4 DEF Linked
<1>7. Separate'
  BY <1>1, <1>2, <1>3 DEF Inv, Separate
<1>8. TryStateNested'
  <2> SUFFICES ASSUME NEW k \in 1 .. L
               PROVE  threads'[k].try_state <=>
                        \E i \in FramesOf(k)' : Trying(i)' \/
                          (frames'[i].pc # VM_PC_EXIT /\ frames'[i].body[frames'[i].pc] = "ntr")
    BY <1>2 DEF TryStateNested
  <2>1. FramesOf(k)' = FramesOf(k) /\ FramesOf(k) \subseteq 1 .. m
    BY <1>1, <1>2 DEF FramesOf
  <2>2. k \in DOMAIN threads /\ threads'[k] = threads[k]
    BY <1>1, <1>2
  <2>3. \A i \in FramesOf(k) : frames'[i] = frames[i] /\ (Trying(i)' <=> Trying(i))
    BY <2>1, <1>1, <1>3
  <2> QED
    BY <2>1, <2>2, <2>3 DEF Inv, TryStateNested
<1>9. UnderWay'
  BY <1>1, <1>2, <1>4 DEF Inv, UnderWay
<1>10. Pending'
  BY <1>1, <1>2, <1>4 DEF Inv, Pending
<1> QED
  BY <1>5, <1>6, <1>7, <1>8, <1>9, <1>10 DEF Inv

(* A frame b begins on top of the m frames there are.                      *)
Pushed(m, b, by) ==
  /\ frames' \in Seq(FrameType) /\ Len(frames') = m + 1
  /\ \A i \in 1 .. m : /\ frames'[i].body = frames[i].body /\ frames'[i].pc = frames[i].pc
                       /\ frames'[i].by = frames[i].by
  /\ frames'[m + 1].body = b /\ frames'[m + 1].pc = 1 /\ frames'[m + 1].by = by

LEMMA PushedKeeps ==
  ASSUME Inv, NEW m \in Nat, m = Len(frames), NEW b \in Bodies, NEW by, Pushed(m, b, by)
  PROVE  /\ DOMAIN frames = 1 .. m /\ DOMAIN frames' = 1 .. m + 1
         /\ \A i \in 0 .. m : ThreadOf(i)' = ThreadOf(i)
         /\ ThreadOf(m + 1)' = IF by = "native" THEN ThreadOf(m) + 1 ELSE ThreadOf(m)
         /\ \A i \in 1 .. m : (Trying(i)' <=> Trying(i)) /\ (Waiting(i)' <=> Waiting(i))
         /\ ~Trying(m + 1)' /\ frames'[m + 1].body[frames'[m + 1].pc] # "ntr"
         /\ \A i \in 1 .. m + 1 : frames'[i].pc # VM_PC_EXIT => frames'[i].pc \in DOMAIN frames'[i].body
<1>1. DOMAIN frames = 1 .. m /\ DOMAIN frames' = 1 .. m + 1
  BY DEF Inv, Types, Pushed
<1>2. \A i \in 0 .. m : ThreadOf(i)' = ThreadOf(i)
  <2> SUFFICES ASSUME NEW i \in 0 .. m PROVE ThreadOf(i)' = ThreadOf(i)
    OBVIOUS
  <2>1. i \in Nat /\ \A j \in 1 .. i : frames'[j].by = frames[j].by
    BY DEF Pushed
  <2> QED
    BY <2>1, ThreadOfKept
<1>3. ThreadOf(m + 1)' = IF by = "native" THEN ThreadOf(m) + 1 ELSE ThreadOf(m)
  <2>1. ThreadOf(m + 1)' = IF frames'[m + 1].by = "native" THEN ThreadOf(m)' + 1 ELSE ThreadOf(m)'
    BY CountNext DEF ThreadOf
  <2>2. ThreadOf(m)' = ThreadOf(m)
    BY <1>2
  <2> QED
    BY <2>1, <2>2 DEF Pushed
<1>4. \A i \in 1 .. m : (Trying(i)' <=> Trying(i)) /\ (Waiting(i)' <=> Waiting(i))
  BY DEF Pushed, Trying, Waiting
<1>5. 1 \in DOMAIN b /\ b[1] # "ntr" /\ ~InTry(b, 1)
  BY BeginsPlain DEF Guarded
<1>6. ~Trying(m + 1)' /\ frames'[m + 1].body[frames'[m + 1].pc] # "ntr"
  BY <1>5 DEF Pushed, Trying
<1>7. \A i \in 1 .. m + 1 : frames'[i].pc # VM_PC_EXIT => frames'[i].pc \in DOMAIN frames'[i].body
  <2> SUFFICES ASSUME NEW i \in 1 .. m + 1
               PROVE  frames'[i].pc # VM_PC_EXIT => frames'[i].pc \in DOMAIN frames'[i].body
    OBVIOUS
  <2>1. CASE i = m + 1
    BY <2>1, <1>5 DEF Pushed
  <2>2. CASE i # m + 1
    <3>1. i \in 1 .. m /\ i \in DOMAIN frames
      BY <2>2, <1>1
    <3> QED
      BY <3>1 DEF Pushed, Inv, Types
  <2> QED
    BY <2>1, <2>2
<1> QED
  BY <1>1, <1>2, <1>3, <1>4, <1>6, <1>7 DEF Inv

(* A call from native code, which has a thread of its own.                 *)
LEMMA NewThreadInv ==
  ASSUME Inv, NEW m \in Nat, m = Len(frames), NEW L \in Nat, L = Len(threads),
         NEW b \in Bodies, Pushed(m, b, "native"),
         threads' \in Seq(ThreadType), Len(threads') = L + 1,
         \A k \in 1 .. L : threads'[k] = threads[k],
         threads'[L + 1] = NewThread,
         m = 0 \/ signal_ctrl' = signal_ctrl
  PROVE  Inv'
<1>1. /\ DOMAIN frames = 1 .. m /\ DOMAIN frames' = 1 .. m + 1 /\ Len(frames') = m + 1
      /\ DOMAIN threads = 1 .. L /\ DOMAIN threads' = 1 .. L + 1
      /\ ThreadOf(m) = L /\ ThreadOf(m + 1)' = L + 1
  <2>1. ThreadOf(m) = L /\ DOMAIN threads = 1 .. L /\ DOMAIN threads' = 1 .. L + 1
    BY DEF Inv, Types, Linked
  <2>2. ThreadOf(m + 1)' = ThreadOf(m) + 1 /\ DOMAIN frames = 1 .. m /\ DOMAIN frames' = 1 .. m + 1
    BY PushedKeeps
  <2>3. Len(frames') = m + 1
    BY DEF Pushed
  <2> QED
    BY <2>1, <2>2, <2>3
<1>2. \A i \in 1 .. m : ThreadOf(i)' = ThreadOf(i) /\ ThreadOf(i) \in 1 .. L
  <2> SUFFICES ASSUME NEW i \in 1 .. m PROVE ThreadOf(i)' = ThreadOf(i) /\ ThreadOf(i) \in 1 .. L
    OBVIOUS
  <2>1. i \in 0 .. m /\ i \in DOMAIN frames /\ frames # <<>>
    BY <1>1
  <2> QED
    BY <2>1, <1>1, PushedKeeps, TopThread DEF Inv
<1>3. \A i \in 1 .. m : (Trying(i)' <=> Trying(i)) /\ (Waiting(i)' <=> Waiting(i))
  BY PushedKeeps
<1>4. \A i \in 1 .. m : /\ frames'[i].body = frames[i].body /\ frames'[i].pc = frames[i].pc
                        /\ frames'[i].by = frames[i].by
  BY DEF Pushed
<1>5. \A i \in 1 .. m + 1 : i = m + 1 \/ i \in 1 .. m
  OBVIOUS
<1>6. \A i \in 1 .. m : LastOf(i)' => LastOf(i)
  <2> SUFFICES ASSUME NEW i \in 1 .. m, LastOf(i)' PROVE LastOf(i)
    OBVIOUS
  <2>1. CASE i = m
    BY <2>1 DEF LastOf
  <2>2. CASE i # m
    <3>1. i + 1 \in 1 .. m /\ i # Len(frames')
      BY <2>2, <1>1
    <3> QED
      BY <3>1, <1>4 DEF LastOf
  <2> QED
    BY <2>1, <2>2
<1>7. /\ ~threads'[L + 1].try_state /\ ~threads'[L + 1].try_result
      /\ ~threads'[L + 1].try_error_code
  BY DEF NewThread
<1>8. Types'
  BY <1>1, PushedKeeps DEF Types, Pushed
<1>9. Linked'
  <2>1. frames'[1].by = "native"
    <3>1. CASE m = 0
      BY <3>1 DEF Pushed
    <3>2. CASE m # 0
      BY <3>2, <1>1, <1>4 DEF Inv, Linked
    <3> QED
      BY <3>1, <3>2
  <2>2. Len(threads)' = ThreadOf(Len(frames))'
    <3>1. ThreadOf(Len(frames))' = ThreadOf(m + 1)'
      BY <1>1 DEF ThreadOf
    <3> QED
      BY <3>1, <1>1
  <2>3. \A k \in DOMAIN threads' : FramesOf(k)' # {}
    <3> SUFFICES ASSUME NEW k \in 1 .. L + 1 PROVE \E i \in 1 .. m + 1 : ThreadOf(i)' = k
      BY <1>1 DEF FramesOf
    <3>1. CASE k = L + 1
      BY <3>1, <1>1
    <3>2. CASE k # L + 1
      <4>1. k \in DOMAIN threads
        BY <3>2, <1>1
      <4>2. PICK i \in 1 .. m : ThreadOf(i) = k
        BY <4>1, <1>1 DEF FramesOf, Inv, Linked
      <4> QED
        BY <4>2, <1>2
    <3> QED
      BY <3>1, <3>2
  <2>4. ASSUME NEW i \in 1 .. m + 1, i < m + 1, frames'[i + 1].by # "native" PROVE Waiting(i)'
    <3>1. i # m
      BY <2>4 DEF Pushed
    <3>2. i \in 1 .. m /\ i + 1 \in 1 .. m
      BY <3>1, <2>4
    <3> QED
      BY <3>2, <2>4, <1>1, <1>3, <1>4 DEF Inv, Linked
  <2> QED
    BY <1>1, <2>1, <2>2, <2>3, <2>4 DEF Linked
<1>10. Separate'
  <2> SUFFICES ASSUME NEW i \in 1 .. m + 1, NEW l \in 1 .. m + 1,
                      i < l, ThreadOf(i)' = ThreadOf(l)', Trying(i)'
               PROVE  ~HasTry(frames'[l].body)
    BY <1>1 DEF Separate
  <2>1. l # m + 1
    BY <1>1, <1>2
  <2>2. i \in 1 .. m /\ l \in 1 .. m
    BY <2>1
  <2> QED
    BY <2>2, <1>1, <1>2, <1>3, <1>4 DEF Inv, Separate
<1>11. TryStateNested'
  <2> SUFFICES ASSUME NEW k \in 1 .. L + 1
               PROVE  threads'[k].try_state <=>
                        \E i \in FramesOf(k)' : Trying(i)' \/
                          (frames'[i].pc # VM_PC_EXIT /\ frames'[i].body[frames'[i].pc] = "ntr")
    BY <1>1 DEF TryStateNested
  <2>1. CASE k = L + 1
    <3>1. FramesOf(k)' = {m + 1}
      BY <2>1, <1>1, <1>2, <1>5 DEF FramesOf
    <3> QED
      BY <2>1, <3>1, <1>7, PushedKeeps
  <2>2. CASE k # L + 1
    <3>1. FramesOf(k)' = FramesOf(k) /\ FramesOf(k) \subseteq 1 .. m
      BY <2>2, <1>1, <1>2, <1>5 DEF FramesOf
    <3>2. k \in DOMAIN threads /\ threads'[k] = threads[k]
      BY <2>2, <1>1
    <3> QED
      BY <3>1, <3>2, <1>3, <1>4 DEF Inv, TryStateNested
  <2> QED
    BY <2>1, <2>2
<1>12. ASSUME NEW i \in 1 .. m + 1, LastOf(i)',
              threads'[ThreadOf(i)'].try_result \/ threads'[ThreadOf(i)'].try_error_code
       PROVE  /\ i \in DOMAIN frames /\ LastOf(i) /\ ThreadOf(i)' = ThreadOf(i)
              /\ threads'[ThreadOf(i)] = threads[ThreadOf(i)] /\ signal_ctrl' = signal_ctrl
              /\ frames'[i].pc = frames[i].pc /\ frames'[i].body = frames[i].body
  <2>1. i # m + 1
    BY <1>1, <1>7, <1>12
  <2>2. i \in 1 .. m /\ m # 0
    BY <2>1
  <2> QED
    BY <2>2, <1>1, <1>2, <1>4, <1>6, <1>12
<1>13. UnderWay'
  BY <1>1, <1>12 DEF Inv, UnderWay
<1>14. Pending'
  BY <1>1, <1>12 DEF Inv, Pending
<1> QED
  BY <1>8, <1>9, <1>10, <1>11, <1>13, <1>14 DEF Inv

LEMMA CallBackIs ==
  ASSUME Inv, NEW b \in Bodies, CallBack(b) \/ Start(b)
  PROVE  /\ Pushed(Len(frames), b, "native")
         /\ threads' = Append(threads, NewThread) /\ NewThread \in ThreadType
         /\ frames = <<>> \/ signal_ctrl' = signal_ctrl
<1>1. Created(NewThread) = NewThread /\ NewThread \in ThreadType
  <2>1. NewThread \in ThreadType
    BY DEF NewThread, ThreadType
  <2>2. Created(NewThread) \in ThreadType
    BY <2>1 DEF Created, ThreadType
  <2>3. /\ Created(NewThread).error_code = NewThread.error_code
        /\ Created(NewThread).try_state = NewThread.try_state
        /\ Created(NewThread).try_result = NewThread.try_result
        /\ Created(NewThread).try_error_code = NewThread.try_error_code
    BY DEF Created, NewThread
  <2>4. \A x, y \in ThreadType :
          /\ x.error_code = y.error_code /\ x.try_state = y.try_state
          /\ x.try_result = y.try_result /\ x.try_error_code = y.try_error_code
          => x = y
    BY DEF ThreadType
  <2> QED
    BY <2>1, <2>2, <2>3, <2>4
<1>2. PikaVMFrame(b, "native") \in FrameType
  BY DEF PikaVMFrame, FrameType, Callers
<1>3. PikaVMFrame(b, "native").body = b /\ PikaVMFrame(b, "native").pc = 1
      /\ PikaVMFrame(b, "native").by = "native"
  BY DEF PikaVMFrame
<1>4. frames \in Seq(FrameType) /\ threads \in Seq(ThreadType)
  BY DEF Inv, Types
<1>5. CASE CallBack(b)
  <2> DEFINE g == [Frame EXCEPT !.served = TRUE]
             m == Len(frames)
  <2>1. m \in Nat \ {0} /\ Frame = frames[m] /\ Frame \in FrameType
    BY <1>4, <1>5, EmptySeq DEF CallBack, Running, Frame
  <2>2. g \in FrameType /\ g.body = Frame.body /\ g.pc = Frame.pc /\ g.by = Frame.by
    BY <2>1 DEF FrameType
  <2> HIDE DEF g
  <2>3. frames' = Append([frames EXCEPT ![m] = g], PikaVMFrame(b, "native"))
    BY <1>5 DEF CallBack, SetTop, g
  <2> DEFINE s == [frames EXCEPT ![m] = g]
             f == PikaVMFrame(b, "native")
  <2>4. frames' = Append(s, f) /\ f \in FrameType /\ s \in Seq(FrameType) /\ Len(s) = m /\ s[m] = g /\ \A i \in 1 .. m : i # m => s[i] = frames[i]
    BY <1>2, <1>4, <2>1, <2>2, <2>3
  <2> HIDE DEF s, f
  <2>5. frames' \in Seq(FrameType) /\ Len(frames') = m + 1 /\ frames'[m + 1] = f
        /\ \A i \in 1 .. m : frames'[i] = s[i]
    BY <2>1, <2>4
  <2>6. Pushed(m, b, "native")
    BY <1>3, <2>1, <2>2, <2>4, <2>5 DEF Pushed, f
  <2> QED
    BY <1>1, <1>5, <2>6 DEF CallBack
<1>6. CASE Start(b)
  <2>1. frames = <<>> /\ Len(frames) = 0
    BY <1>6 DEF Start, Running
  <2>2. Len(threads) = 0
    BY <2>1, FS_EmptySet DEF Inv, Linked, ThreadOf
  <2>3. threads = <<>>
    BY <1>4, <2>2
  <2>4. frames' = <<PikaVMFrame(b, "native")>> /\ threads' = <<NewThread>>
    BY <1>1, <1>6 DEF Start
  <2>5. frames' \in Seq(FrameType) /\ Len(frames') = 1 /\ frames'[1] = PikaVMFrame(b, "native")
    BY <1>2, <2>4
  <2>6. Pushed(0, b, "native")
    BY <1>3, <2>5 DEF Pushed
  <2>7. threads' = Append(threads, NewThread)
    BY <2>3, <2>4
  <2> QED
    BY <1>1, <2>1, <2>6, <2>7
<1> QED
  BY <1>5, <1>6

LEMMA CallBackInv ==
  ASSUME Inv, NEW b \in Bodies, CallBack(b) \/ Start(b)
  PROVE  Inv'
<1>1. PICK m \in Nat, L \in Nat : m = Len(frames) /\ L = Len(threads)
  BY DEF Inv, Types
<1>2. Pushed(m, b, "native") /\ threads' = Append(threads, NewThread) /\ NewThread \in ThreadType
      /\ (m = 0 \/ signal_ctrl' = signal_ctrl)
  BY <1>1, CallBackIs
<1>3. /\ threads' \in Seq(ThreadType) /\ Len(threads') = L + 1
      /\ \A k \in 1 .. L : threads'[k] = threads[k]
      /\ threads'[L + 1] = NewThread
  BY <1>1, <1>2 DEF Inv, Types
<1> QED
  BY <1>1, <1>2, <1>3, NewThreadInv

(* A call in a line: the frame is in the thread of its caller.             *)
LEMMA CallIs ==
  ASSUME Inv, NEW b \in Bodies, NEW by \in Callers, Call(b, by)
  PROVE  /\ Running /\ Frame.pc # VM_PC_EXIT /\ Here \in Works /\ by # "native"
         /\ Pushed(Len(frames), b, by)
         /\ threads' \in Seq(ThreadType) /\ Len(threads') = Len(threads)
         /\ \A k \in 1 .. Len(threads) - 1 : threads'[k] = threads[k]
         /\ LET u == threads'[Len(threads)]
            IN  /\ u.try_state = Thread.try_state /\ ~u.try_result
                /\ ~u.try_error_code /\ ~u.error_code
         /\ signal_ctrl' = signal_ctrl
<1>1. Running /\ Frame.pc # VM_PC_EXIT /\ Here \in Works /\ by # "native" /\ signal_ctrl' = signal_ctrl
  BY DEF Call, Statement
<1>2. PikaVMFrame(b, by) \in FrameType
  BY DEF PikaVMFrame, FrameType
<1>3. frames \in Seq(FrameType) /\ threads \in Seq(ThreadType) /\ frames' = Append(frames, PikaVMFrame(b, by))
      /\ threads' = [threads EXCEPT ![Len(threads)] = Created(Thread)]
  BY DEF Inv, Types, Call, SetTop
<1>4. frames' \in Seq(FrameType) /\ Len(frames') = Len(frames) + 1 /\ frames'[Len(frames) + 1] = PikaVMFrame(b, by)
      /\ \A i \in 1 .. Len(frames) : frames'[i] = frames[i]
  BY <1>2, <1>3
<1>5. Pushed(Len(frames), b, by)
  BY <1>4 DEF Pushed, PikaVMFrame
<1>6. Thread \in ThreadType /\ ~Thread.try_result /\ threads # <<>>
  BY <1>1, AtStatement
<1> DEFINE u == Created(Thread)
<1>7. u \in ThreadType /\ u.try_state = Thread.try_state /\ ~u.try_result
      /\ ~u.try_error_code /\ ~u.error_code
  BY <1>6 DEF ThreadType, Created
<1> HIDE DEF u
<1>8. Len(threads) \in Nat \ {0}
  BY <1>3, <1>6, EmptySeq
<1>9. threads' \in Seq(ThreadType) /\ Len(threads') = Len(threads) /\ threads'[Len(threads)] = u
      /\ \A k \in 1 .. Len(threads) - 1 : threads'[k] = threads[k]
  BY <1>3, <1>7, <1>8 DEF u
<1> QED
  BY <1>1, <1>5, <1>7, <1>9

LEMMA CallInv ==
  ASSUME Disciplined, Inv, NEW b \in Bodies, NEW by \in Callers, Call(b, by)
  PROVE  Inv'
<1>1. PICK m \in Nat, L \in Nat : m = Len(frames) /\ L = Len(threads)
  BY DEF Inv, Types
<1> DEFINE u == threads'[L]
<1>2. /\ Running /\ Frame.pc # VM_PC_EXIT /\ Here \in Works /\ by # "native"
      /\ Pushed(m, b, by)
      /\ threads' \in Seq(ThreadType) /\ Len(threads') = L
      /\ \A k \in 1 .. L - 1 : threads'[k] = threads[k]
      /\ u.try_state = threads[L].try_state /\ ~u.try_result /\ ~u.try_error_code /\ ~u.error_code
      /\ signal_ctrl' = signal_ctrl
  BY <1>1, CallIs DEF Thread
<1>3. /\ DOMAIN frames = 1 .. m /\ DOMAIN frames' = 1 .. m + 1 /\ Len(frames') = m + 1
      /\ DOMAIN threads = 1 .. L /\ DOMAIN threads' = 1 .. L
      /\ ThreadOf(m) = L /\ ThreadOf(m + 1)' = L /\ m > 0 /\ L > 0
  <2>1. ThreadOf(m) = L /\ DOMAIN threads = 1 .. L /\ DOMAIN threads' = 1 .. L
    BY <1>1, <1>2 DEF Inv, Types, Linked
  <2>2. ThreadOf(m + 1)' = ThreadOf(m) /\ DOMAIN frames = 1 .. m /\ DOMAIN frames' = 1 .. m + 1
    BY <1>1, <1>2, PushedKeeps
  <2>3. Len(frames') = m + 1
    BY <1>2 DEF Pushed
  <2>4. m > 0 /\ L > 0
    BY <1>1, <1>2, TopThread DEF Inv, Running
  <2> QED
    BY <2>1, <2>2, <2>3, <2>4
<1>4. \A i \in 1 .. m : ThreadOf(i)' = ThreadOf(i) /\ ThreadOf(i) \in 1 .. L
  <2> SUFFICES ASSUME NEW i \in 1 .. m PROVE ThreadOf(i)' = ThreadOf(i) /\ ThreadOf(i) \in 1 .. L
    OBVIOUS
  <2>1. i \in 0 .. m /\ i \in DOMAIN frames
    BY <1>3
  <2> QED
    BY <2>1, <1>1, <1>2, <1>3, PushedKeeps, TopThread DEF Inv, Running
<1>5. \A i \in 1 .. m : (Trying(i)' <=> Trying(i)) /\ (Waiting(i)' <=> Waiting(i))
  BY <1>1, <1>2, PushedKeeps
<1>6. \A i \in 1 .. m : /\ frames'[i].body = frames[i].body /\ frames'[i].pc = frames[i].pc
                        /\ frames'[i].by = frames[i].by
  BY <1>2 DEF Pushed
<1>7. \A i \in 1 .. m + 1 : i = m + 1 \/ i \in 1 .. m
  OBVIOUS
<1>8. Waiting(m)
  BY <1>1, <1>2 DEF Waiting, Here, Frame
<1>9. Types'
  BY <1>1, <1>2, <1>3, PushedKeeps DEF Types, Pushed
<1>10. Linked'
  <2>1. frames'[1].by = "native"
    BY <1>3, <1>6 DEF Inv, Linked
  <2>2. Len(threads)' = ThreadOf(Len(frames))'
    <3>1. ThreadOf(Len(frames))' = ThreadOf(m + 1)'
      BY <1>3 DEF ThreadOf
    <3> QED
      BY <3>1, <1>2, <1>3
  <2>3. \A k \in DOMAIN threads' : FramesOf(k)' # {}
    <3> SUFFICES ASSUME NEW k \in 1 .. L PROVE \E i \in 1 .. m + 1 : ThreadOf(i)' = k
      BY <1>3 DEF FramesOf
    <3>1. PICK i \in 1 .. m : ThreadOf(i) = k
      BY <1>3 DEF FramesOf, Inv, Linked
    <3> QED
      BY <3>1, <1>4
  <2>4. ASSUME NEW i \in 1 .. m + 1, i < m + 1, frames'[i + 1].by # "native" PROVE Waiting(i)'
    <3>1. CASE i = m
      BY <3>1, <1>3, <1>5, <1>8
    <3>2. CASE i # m
      <4>1. i \in 1 .. m /\ i + 1 \in 1 .. m
        BY <3>2, <2>4
      <4> QED
        BY <4>1, <2>4, <1>1, <1>3, <1>5, <1>6 DEF Inv, Linked
    <3> QED
      BY <3>1, <3>2
  <2> QED
    BY <1>3, <2>1, <2>2, <2>3, <2>4 DEF Linked
<1>11. Separate'
  <2> SUFFICES ASSUME NEW i \in 1 .. m + 1, NEW l \in 1 .. m + 1,
                      i < l, ThreadOf(i)' = ThreadOf(l)', Trying(i)'
               PROVE  ~HasTry(frames'[l].body)
    BY <1>3 DEF Separate
  <2>1. i \in 1 .. m
    OBVIOUS
  <2>2. CASE l = m + 1
    <3>1. i \in FramesOf(Len(threads)) /\ Trying(i)
      BY <2>1, <2>2, <1>1, <1>3, <1>4, <1>5 DEF FramesOf
    <3>2. ~HasTry(b)
      BY <3>1 DEF Call, Admitted, Disciplined
    <3> QED
      BY <3>2, <2>2, <1>2 DEF Pushed
  <2>3. CASE l # m + 1
    <3>1. l \in 1 .. m
      BY <2>3
    <3> QED
      BY <2>1, <3>1, <1>3, <1>4, <1>5, <1>6 DEF Inv, Separate
  <2> QED
    BY <2>2, <2>3
<1>12. TryStateNested'
  <2> SUFFICES ASSUME NEW k \in 1 .. L
               PROVE  threads'[k].try_state <=>
                        \E i \in FramesOf(k)' : Trying(i)' \/
                          (frames'[i].pc # VM_PC_EXIT /\ frames'[i].body[frames'[i].pc] = "ntr")
    BY <1>3 DEF TryStateNested
  <2>1. k \in DOMAIN threads /\ threads'[k].try_state = threads[k].try_state
    BY <1>2, <1>3
  <2>2. FramesOf(k) \subseteq FramesOf(k)' /\ FramesOf(k)' \subseteq FramesOf(k) \cup {m + 1}
        /\ FramesOf(k) \subseteq 1 .. m
    BY <1>3, <1>4, <1>7 DEF FramesOf
  <2>3. ~Trying(m + 1)' /\ frames'[m + 1].body[frames'[m + 1].pc] # "ntr"
    BY <1>1, <1>2, PushedKeeps
  <2> QED
    BY <2>1, <2>2, <2>3, <1>5, <1>6 DEF Inv, TryStateNested
<1>13. ASSUME NEW i \in 1 .. m + 1, LastOf(i)',
              threads'[ThreadOf(i)'].try_result \/ threads'[ThreadOf(i)'].try_error_code
       PROVE  /\ i \in DOMAIN frames /\ LastOf(i) /\ ThreadOf(i)' = ThreadOf(i)
              /\ threads'[ThreadOf(i)] = threads[ThreadOf(i)]
              /\ frames'[i].pc = frames[i].pc /\ frames'[i].body = frames[i].body
  <2>1. i # m + 1
    BY <1>2, <1>3, <1>13
  <2>2. i # m
    BY <2>1, <1>2, <1>3, <1>13 DEF LastOf, Pushed
  <2>3. i \in 1 .. m /\ i + 1 \in 1 .. m /\ i # Len(frames')
    BY <2>1, <2>2, <1>3
  <2>4. frames[i + 1].by = "native"
    BY <2>3, <1>6, <1>13 DEF LastOf
  <2>5. ThreadOf(i) + 1 = ThreadOf(i + 1)
    BY <2>3, <2>4, ThreadOfNext
  <2>6. ThreadOf(i) \in 1 .. L - 1
    BY <2>3, <2>5, <1>4
  <2> QED
    BY <2>3, <2>4, <2>6, <1>2, <1>3, <1>4, <1>6 DEF LastOf
<1>14. UnderWay'
  BY <1>2, <1>3, <1>13 DEF Inv, UnderWay
<1>15. Pending'
  BY <1>2, <1>3, <1>13 DEF Inv, Pending
<1> QED
  BY <1>9, <1>10, <1>11, <1>12, <1>14, <1>15 DEF Inv

-----------------------------------------------------------------------------
(* The invariant, and what the theorems say.                               *)

(* The invariant speaks of the frames and the threads; the signal it only  *)
(* allows to be set.                                                       *)
LEMMA ExitInv ==
  ASSUME Inv, frames' = frames, threads' = threads, signal_ctrl' \/ signal_ctrl' = signal_ctrl
  PROVE  Inv'
<1>1. \A i : ThreadOf(i)' = ThreadOf(i)
  BY DEF ThreadOf
<1>2. \A i : (Trying(i)' <=> Trying(i)) /\ (Waiting(i)' <=> Waiting(i)) /\ (LastOf(i)' <=> LastOf(i))
  BY DEF Trying, Waiting, LastOf
<1>3. \A k : FramesOf(k)' = FramesOf(k)
  BY <1>1 DEF FramesOf
<1>4. Types' /\ Linked' /\ Separate'
  <2>1. ThreadOf(Len(frames))' = ThreadOf(Len(frames))
    BY DEF ThreadOf
  <2> QED
    BY <1>1, <1>2, <1>3, <2>1 DEF Inv, Types, Linked, Separate
<1>5. TryStateNested'
  BY <1>2, <1>3 DEF Inv, TryStateNested
<1>6. UnderWay'
  BY <1>1, <1>2 DEF Inv, UnderWay
<1>7. Pending'
  BY <1>1, <1>2 DEF Inv, Pending
<1> QED
  BY <1>4, <1>5, <1>6, <1>7 DEF Inv

LEMMA InitInv == Init => Inv
<1> SUFFICES ASSUME Init PROVE Inv
  OBVIOUS
<1>1. frames = <<>> /\ threads = <<>> /\ Len(frames) = 0 /\ DOMAIN frames = {} /\ DOMAIN threads = {}
  BY DEF Init
<1>2. ThreadOf(0) = 0
  <2>1. {j \in 1 .. 0 : frames[j].by = "native"} = {}
    OBVIOUS
  <2> QED
    BY <2>1, FS_EmptySet DEF ThreadOf
<1>3. Types
  BY <1>1 DEF Types
<1>4. Linked
  BY <1>1, <1>2 DEF Linked
<1> QED
  BY <1>1, <1>3, <1>4 DEF Inv, Separate, TryStateNested, UnderWay, Pending

LEMMA NextInv == Disciplined /\ Inv /\ [Next]_vars => Inv'
<1> SUFFICES ASSUME Disciplined, Inv, [Next]_vars PROVE Inv'
  OBVIOUS
<1>1. CASE Complete
  BY <1>1, CompleteInv
<1>2. CASE Fail
  <2>1. Statement(Works \cup {"raise"})
    BY <1>2 DEF Fail, Statement
  <2> QED
    BY <1>2, <2>1, FailInv DEF Fail
<1>3. CASE Back
  BY <1>3, BackInv
<1>4. CASE TRY
  BY <1>4, TryInv
<1>5. CASE NTR
  BY <1>5, NtrInv
<1>6. CASE EXP
  BY <1>6, ExpInv
<1>7. CASE RET
  BY <1>7, RetInv
<1>8. CASE Return
  BY <1>8, ReturnInv, NativeReturnInv
<1>9. ASSUME NEW ptr \in Raised, RIS(ptr) PROVE Inv'
  <2>1. Statement(Works \cup {"raise"})
    BY <1>9 DEF RIS, Statement
  <2>2. (ptr % 256 # 0) \in BOOLEAN
    OBVIOUS
  <2> QED
    BY <1>9, <2>1, <2>2, FailInv DEF RIS
<1>10. ASSUME NEW b \in Bodies, NEW by \in Callers, Call(b, by) PROVE Inv'
  BY <1>10, CallInv
<1>11. ASSUME NEW b \in Bodies, CallBack(b) \/ Start(b) PROVE Inv'
  BY <1>11, CallBackInv
<1>12. CASE pika_vm_exit
  BY <1>12, ExitInv DEF pika_vm_exit
<1>13. CASE UNCHANGED vars
  BY <1>13, ExitInv DEF vars
<1> QED
  BY <1>1, <1>2, <1>3, <1>4, <1>5, <1>6, <1>7, <1>8, <1>9, <1>10, <1>11, <1>12, <1>13
  DEF Next, VMStep

(* try_state tells the truth about the frames of its thread, although      *)
(* every TRY, NTR, error and return of every frame writes it or leaves it  *)
(* as it is without looking at the others.                                 *)
THEOREM TryStateTellsTries ==
  ASSUME Disciplined
  PROVE  Spec => []TryStateNested
<1>1. Init => Inv
  BY InitInv
<1>2. Inv /\ [Next]_vars => Inv'
  BY NextInv
<1>3. Inv => TryStateNested
  BY DEF Inv
<1> QED
  BY <1>1, <1>2, <1>3, PTL DEF Spec

(* The frame that the invariants call the last one of its thread.          *)
LEMMA LastFrame ==
  ASSUME Types, Linked, NEW k \in DOMAIN threads
  PROVE  LET x == Max(FramesOf(k))
         IN  x \in FramesOf(k) /\ x \in Nat /\ LastOf(x) /\ \A i \in FramesOf(k) : i <= x
<1>1. FramesOf(k) # {} /\ FramesOf(k) \subseteq DOMAIN frames /\ DOMAIN frames = 1 .. Len(frames)
      /\ Len(frames) \in Nat
  BY DEF Linked, Types, FramesOf
<1>2. FramesOf(k) \in SUBSET Nat /\ \A y \in FramesOf(k) : y <= Len(frames)
  BY <1>1
<1>3. PICK x \in Nat : x = Max(FramesOf(k)) /\ x \in FramesOf(k) /\ \A y \in FramesOf(k) : y <= x
  BY <1>1, <1>2, MaxIs
<1>4. ThreadOf(x) = k /\ x \in 1 .. Len(frames)
  BY <1>1, <1>3 DEF FramesOf
<1>5. LastOf(x)
  <2> SUFFICES ASSUME x # Len(frames), frames[x + 1].by # "native" PROVE FALSE
    BY DEF LastOf
  <2>1. x + 1 \in DOMAIN frames /\ ThreadOf(x + 1) = k
    <3>1. ThreadOf(x + 1) = ThreadOf(x)
      BY ThreadOfNext
    <3>2. PICK L \in Nat : L = Len(frames)
      BY <1>1
    <3>3. x \in 1 .. L /\ x # L
      BY <1>4, <3>2
    <3>4. x + 1 \in 1 .. L
      BY <3>3
    <3> QED
      BY <1>1, <1>4, <3>1, <3>2, <3>4, Zenon
  <2>2. x + 1 \in FramesOf(k)
    BY <2>1 DEF FramesOf
  <2> QED
    BY <1>3, <2>2
<1> QED
  BY <1>3, <1>5

(* An error that RUN is to pass on is one that a try waits for: try_result *)
(* is set only between the end of the frame that raised and the return to  *)
(* a caller with a try.                                                    *)
THEOREM RaisesAreAwaited ==
  ASSUME Disciplined
  PROVE  Spec => []RaiseUnderWay
<1>1. Init => Inv
  BY InitInv
<1>2. Inv /\ [Next]_vars => Inv'
  BY NextInv
<1>3. Inv => RaiseUnderWay
  <2> SUFFICES ASSUME Inv, NEW k \in DOMAIN threads, threads[k].try_result
               PROVE  /\ frames[Max(FramesOf(k))].pc = VM_PC_EXIT
                      /\ \E i \in FramesOf(k) : Trying(i)
    BY DEF RaiseUnderWay
  <2>1. PICK x \in Nat : /\ x = Max(FramesOf(k)) /\ x \in FramesOf(k) /\ LastOf(x)
                         /\ \A i \in FramesOf(k) : i <= x
    BY LastFrame DEF Inv
  <2>2. x \in DOMAIN frames /\ ThreadOf(x) = k
    BY <2>1 DEF FramesOf
  <2>3. frames[x].pc = VM_PC_EXIT /\ threads[k].try_state
    BY <2>1, <2>2 DEF Inv, UnderWay
  <2>4. PICK i \in FramesOf(k) :
          Trying(i) \/ (frames[i].pc # VM_PC_EXIT /\ frames[i].body[frames[i].pc] = "ntr")
    BY <2>3 DEF Inv, TryStateNested
  <2>5. i \in DOMAIN frames /\ i \in Nat /\ ThreadOf(i) = ThreadOf(x) /\ DOMAIN frames = 1 .. Len(frames)
    BY <2>2, <2>4 DEF FramesOf, Inv, Types
  <2>6. Trying(i)
    <3> SUFFICES ASSUME ~Trying(i) PROVE FALSE
      OBVIOUS
    <3>1. i < x
      BY <2>1, <2>3, <2>4, <2>5
    <3>2. frames[i + 1].by # "native" /\ i < Len(frames)
      BY <3>1, <2>2, <2>5, SameThread
    <3>3. Waiting(i)
      BY <3>2, <2>5 DEF Inv, Linked
    <3> QED
      BY <3>3, <2>4 DEF Waiting, Works
  <2> QED
    BY <2>1, <2>3, <2>6
<1> QED
  BY <1>1, <1>2, <1>3, PTL DEF Spec

-----------------------------------------------------------------------------
(* Exit: what holds of the frames of any program, disciplined or not.      *)
Positions(s) ==
  /\ s \in Seq(FrameType)
  /\ s # <<>> => s[1].by = "native"
  /\ \A i \in DOMAIN s : s[i].pc # VM_PC_EXIT => s[i].pc \in DOMAIN s[i].body

(* Frame m is the last one that is left, and has gone to q.                *)
Moves(s, m, q) ==
  /\ frames' \in Seq(FrameType) /\ Len(frames') = m
  /\ \A i \in 1 .. m - 1 : frames'[i] = s[i]
  /\ frames'[m].body = s[m].body /\ frames'[m].by = s[m].by /\ frames'[m].pc = q

(* After a signal a statement leads to the end of the frame or of a try.   *)
LEMMA AfterMoves ==
  ASSUME NEW s \in Seq(FrameType), NEW m \in Nat \ {0}, Len(s) = m,
         NEW t, NEW n \in {VM_PC_EXIT} \cup DOMAIN s[m].body, After(s, s[m], t, n)
  PROVE  \E q \in {VM_PC_EXIT} \cup DOMAIN s[m].body :
           /\ Moves(s, m, q) /\ signal_ctrl' = signal_ctrl
           /\ signal_ctrl => q = VM_PC_EXIT \/ s[m].body[q] = "ntr"
<1> DEFINE f == s[m]
           q == CASE ~Stops(t)                -> n
                  [] Stops(t) /\ t.try_state  -> RaiseTarget(f)
                  [] Stops(t) /\ ~t.try_state -> VM_PC_EXIT
           g == [f EXCEPT !.pc = q, !.served = FALSE]
<1>1. f \in FrameType /\ f.body \in Bodies /\ f.pc \in Nat
  <2>1. f \in FrameType
    OBVIOUS
  <2> QED
    BY <2>1 DEF FrameType
<1>2. DOMAIN f.body \subseteq Nat
  BY <1>1, BodiesAssumption DEF Structured
<1>3. \/ RaiseTarget(f) = VM_PC_EXIT
      \/ RaiseTarget(f) \in DOMAIN f.body /\ f.body[RaiseTarget(f)] = "ntr"
  BY <1>1, RaiseFinds
<1>4. q \in {VM_PC_EXIT} \cup DOMAIN f.body /\ q \in Nat
  <2>1. q \in {n, VM_PC_EXIT, RaiseTarget(f)}
    OBVIOUS
  <2> QED
    BY <1>2, <1>3, <2>1 DEF VM_PC_EXIT
<1>5. signal_ctrl => q = VM_PC_EXIT \/ f.body[q] = "ntr"
  BY <1>3 DEF Stops
<1>6. frames' = [s EXCEPT ![Len(s)] = g] /\ UNCHANGED signal_ctrl
  BY DEF After, SetTop
<1> HIDE DEF q
<1>7. g \in FrameType /\ g.body = f.body /\ g.by = f.by /\ g.pc = q
  BY <1>1, <1>4 DEF FrameType
<1> HIDE DEF g, f
<1>8. frames' \in Seq(FrameType) /\ Len(frames') = m /\ frames'[m] = g
      /\ \A i \in 1 .. m - 1 : frames'[i] = s[i]
  BY <1>6, <1>7
<1>9. Moves(s, m, q)
  BY <1>7, <1>8 DEF Moves, f
<1> QED
  BY <1>4, <1>5, <1>6, <1>9 DEF f

(* The positions in the functions stay in them.                            *)
LEMMA MovesPositions ==
  ASSUME NEW s, Positions(s), NEW m \in Nat \ {0}, Len(s) = m,
         NEW q \in {VM_PC_EXIT} \cup DOMAIN s[m].body, Moves(s, m, q)
  PROVE  Positions(frames)'
<1>1. s \in Seq(FrameType) /\ DOMAIN s = 1 .. m /\ DOMAIN frames' = 1 .. m
  BY DEF Positions, Moves
<1>2. \A i \in 1 .. m : i = m \/ i \in 1 .. m - 1
  OBVIOUS
<1>3. \A i \in 1 .. m : /\ frames'[i].by = s[i].by
                        /\ frames'[i].pc # VM_PC_EXIT => frames'[i].pc \in DOMAIN frames'[i].body
  BY <1>1, <1>2 DEF Moves, Positions
<1>4. frames'[1].by = "native"
  BY <1>1, <1>3, EmptySeq DEF Positions
<1> QED
  BY <1>1, <1>3, <1>4 DEF Positions, Moves

(* Every statement goes somewhere in its function.                         *)
LEMMA StatementMoves ==
  ASSUME Positions(frames), Running, Frame.pc # VM_PC_EXIT,
         Complete \/ Fail \/ Back \/ TRY \/ NTR \/ EXP \/ RET \/ \E ptr \in Raised : RIS(ptr)
  PROVE  /\ Len(frames) \in Nat \ {0}
         /\ \E t : \E n \in {VM_PC_EXIT} \cup DOMAIN Frame.body : After(frames, Frame, t, n)
<1>1. frames \in Seq(FrameType) /\ Len(frames) \in Nat \ {0}
  BY EmptySeq DEF Positions, Running
<1>2. Frame \in FrameType /\ Frame.pc \in DOMAIN Frame.body
  BY <1>1 DEF Frame, Positions
<1>3. Frame.body \in Bodies
  BY <1>2 DEF FrameType
<1> DEFINE P == {VM_PC_EXIT} \cup DOMAIN Frame.body
<1>4. Here # "ret" => Frame.pc + 1 \in P
  BY <1>2, <1>3, NextPosition DEF Here
<1>5. CASE Complete
  <2>1. PICK n : /\ n = Frame.pc + 1 \/ (Here = "loop" /\ n = PastLoop(Frame.body))
                 /\ After(frames, Frame, NewLine(Thread), n)
    BY <1>5 DEF Complete
  <2>2. Here # "ret"
    BY <1>5 DEF Complete, Statement, Works
  <2>3. n \in P
    BY <1>2, <1>3, <1>4, <2>1, <2>2, LoopKeeps DEF Here
  <2> QED
    BY <1>1, <2>1, <2>3
<1>6. CASE Fail
  <2>1. Here # "ret"
    BY <1>6 DEF Fail, Statement, Works
  <2> QED
    BY <1>1, <1>4, <1>6, <2>1 DEF Fail
<1>7. CASE Back
  <2>1. LoopOf(Frame.body) \in P
    BY <1>2, <1>3, <1>7, LoopKeeps DEF Back, Statement, Here
  <2> QED
    BY <1>1, <1>7, <2>1 DEF Back
<1>8. CASE TRY
  BY <1>1, <1>4, <1>8 DEF TRY, Statement
<1>9. CASE NTR
  <2>1. Here = "ntr" /\ After(frames, Frame, [NewLine(Thread) EXCEPT !.try_state = FALSE],
                              IF Thread.try_error_code THEN Frame.pc + 1
                              ELSE PastHandler(Frame.body, Frame.pc))
    BY <1>9 DEF NTR, Statement
  <2>2. PastHandler(Frame.body, Frame.pc) \in P
    BY <1>2, <1>3, <2>1, GuardEnds DEF Here
  <2>3. (IF Thread.try_error_code THEN Frame.pc + 1 ELSE PastHandler(Frame.body, Frame.pc)) \in P
    BY <1>4, <2>1, <2>2
  <2> QED
    BY <1>1, <2>1, <2>3
<1>10. CASE EXP
  BY <1>1, <1>4, <1>10 DEF EXP, Statement
<1>11. CASE RET
  BY <1>1, <1>11 DEF RET
<1>12. ASSUME NEW ptr \in Raised, RIS(ptr)
       PROVE  \E t : \E n \in P : After(frames, Frame, t, n)
  BY <1>4, <1>12 DEF RIS, Statement
<1> QED
  BY <1>1, <1>5, <1>6, <1>7, <1>8, <1>9, <1>10, <1>11, <1>12

(* What a step may do to a frame once there is a signal.                   *)
OnlyEnds ==
  signal_ctrl /\ signal_ctrl' =>
    \A i \in DOMAIN frames \cap DOMAIN frames' :
      \/ frames'[i].pc \in {frames[i].pc, VM_PC_EXIT}
      \/ frames'[i].body[frames'[i].pc] = "ntr"

(* A step that executes a statement of the last frame that is left.        *)
LEMMA AfterEnds ==
  ASSUME NEW s, Positions(s), NEW m \in Nat \ {0}, Len(s) = m, \A i \in 1 .. m : s[i] = frames[i],
         NEW t, NEW n \in {VM_PC_EXIT} \cup DOMAIN s[m].body, After(s, s[m], t, n)
  PROVE  Positions(frames)' /\ OnlyEnds
<1>1. s \in Seq(FrameType)
  BY DEF Positions
<1>2. PICK q \in {VM_PC_EXIT} \cup DOMAIN s[m].body :
        /\ Moves(s, m, q) /\ signal_ctrl' = signal_ctrl
        /\ signal_ctrl => q = VM_PC_EXIT \/ s[m].body[q] = "ntr"
  BY <1>1, AfterMoves
<1>3. Positions(frames)'
  BY <1>2, MovesPositions
<1>4. OnlyEnds
  <2> SUFFICES ASSUME signal_ctrl, NEW i \in 1 .. m
               PROVE  \/ frames'[i].pc \in {frames[i].pc, VM_PC_EXIT}
                      \/ frames'[i].body[frames'[i].pc] = "ntr"
    <3>1. DOMAIN frames' = 1 .. m
      BY <1>2 DEF Moves
    <3> QED
      BY <3>1 DEF OnlyEnds
  <2>1. CASE i = m
    BY <1>2, <2>1 DEF Moves
  <2>2. CASE i # m
    BY <1>2, <2>2 DEF Moves
  <2> QED
    BY <2>1, <2>2
<1> QED
  BY <1>3, <1>4

(* The frames that are left when one of them ends.                         *)
LEMMA FrontPositions ==
  ASSUME Positions(frames), Running
  PROVE  LET s == Front(frames)
         IN  /\ Positions(s) /\ Len(frames) \in Nat \ {0} /\ Len(s) = Len(frames) - 1
             /\ DOMAIN s \subseteq DOMAIN frames
             /\ \A i \in 1 .. Len(s) : s[i] = frames[i]
<1> DEFINE s == Front(frames)
<1>1. frames \in Seq(FrameType) /\ frames # <<>>
  BY DEF Positions, Running
<1>2. /\ s \in Seq(FrameType) /\ Len(s) = Len(frames) - 1 /\ Len(frames) \in Nat \ {0}
      /\ \A i \in 1 .. Len(frames) - 1 : s[i] = frames[i]
  BY <1>1, FrontIs
<1> HIDE DEF s
<1>3. DOMAIN s = 1 .. Len(frames) - 1 /\ DOMAIN frames = 1 .. Len(frames)
  BY <1>1, <1>2
<1>4. \A i \in DOMAIN s : i \in DOMAIN frames /\ s[i] = frames[i]
  BY <1>2, <1>3
<1>5. s # <<>> => s[1].by = "native"
  <2> SUFFICES ASSUME s # <<>> PROVE s[1].by = "native"
    OBVIOUS
  <2>1. 1 \in DOMAIN s
    BY <1>2, EmptySeq
  <2> QED
    BY <1>1, <1>4, <2>1 DEF Positions
<1>6. Positions(s)
  BY <1>2, <1>4, <1>5 DEF Positions
<1> QED
  BY <1>2, <1>3, <1>4, <1>6 DEF s

LEMMA ReturnEnds ==
  ASSUME Positions(frames), Return
  PROVE  Positions(frames)' /\ OnlyEnds
<1> DEFINE s == Front(frames)
<1>1. /\ Running /\ Positions(s) /\ Len(frames) \in Nat \ {0} /\ Len(s) = Len(frames) - 1
      /\ DOMAIN s \subseteq DOMAIN frames
      /\ \A i \in 1 .. Len(s) : s[i] = frames[i]
  BY FrontPositions DEF Return
<1>2. CASE Frame.by = "native"
  <2>1. frames' = s
    BY <1>2 DEF Return
  <2>2. DOMAIN s = 1 .. Len(s)
    BY <1>1 DEF Positions
  <2>3. OnlyEnds
    BY <1>1, <2>1, <2>2 DEF OnlyEnds
  <2> QED
    BY <1>1, <2>1, <2>3 DEF Positions
<1>3. CASE Frame.by # "native"
  <2>1. Len(frames) # 1
    BY <1>1, <1>3 DEF Positions, Running, Frame
  <2>2. PICK m \in Nat \ {0} : m = Len(s)
    BY <1>1, <2>1
  <2>3. PICK t : After(s, s[m], t, s[m].pc)
    BY <1>3, <2>2 DEF Return
  <2>4. s[m].pc \in {VM_PC_EXIT} \cup DOMAIN s[m].body
    <3>1. m \in DOMAIN s
      BY <1>1, <2>2 DEF Positions
    <3> QED
      BY <3>1, <1>1 DEF Positions
  <2> HIDE DEF s
  <2> QED
    BY <1>1, <2>2, <2>3, <2>4, AfterEnds
<1> QED
  BY <1>2, <1>3

(* A frame is added.                                                       *)
LEMMA PushEnds ==
  ASSUME Positions(frames), NEW b \in Bodies, NEW by \in Callers, NEW s \in Seq(FrameType),
         Len(s) = Len(frames),
         \A i \in 1 .. Len(frames) : /\ s[i].body = frames[i].body /\ s[i].pc = frames[i].pc
                                     /\ s[i].by = frames[i].by,
         frames = <<>> => by = "native", frames' = Append(s, PikaVMFrame(b, by))
  PROVE  Positions(frames)' /\ OnlyEnds
<1> DEFINE g == PikaVMFrame(b, by)
<1>1. g \in FrameType /\ g.pc = 1 /\ g.body = b /\ g.by = by
  BY DEF PikaVMFrame, FrameType
<1> HIDE DEF g
<1>2. PICK m \in Nat : m = Len(frames) /\ DOMAIN frames = 1 .. m
  BY DEF Positions
<1>3. /\ frames' \in Seq(FrameType) /\ Len(frames') = m + 1 /\ DOMAIN frames' = 1 .. m + 1
      /\ frames'[m + 1] = g /\ \A i \in 1 .. m : frames'[i] = s[i]
  BY <1>1, <1>2 DEF g
<1>4. \A i \in 1 .. m : /\ frames'[i].body = frames[i].body /\ frames'[i].pc = frames[i].pc
                        /\ frames'[i].by = frames[i].by
  BY <1>2, <1>3
<1>5. \A i \in 1 .. m + 1 : i = m + 1 \/ i \in 1 .. m
  BY <1>2
<1>6. g.pc \in DOMAIN g.body
  BY <1>1, BeginsPlain
<1>7. \A i \in 1 .. m + 1 : frames'[i].pc # VM_PC_EXIT => frames'[i].pc \in DOMAIN frames'[i].body
  BY <1>2, <1>3, <1>4, <1>5, <1>6 DEF Positions
<1>8. frames'[1].by = "native"
  <2>1. CASE m = 0
    <3>1. frames = <<>>
      BY <1>2, <2>1, EmptySeq DEF Positions
    <3> QED
      BY <2>1, <3>1, <1>1, <1>3
  <2>2. CASE m # 0
    <3>1. frames # <<>> /\ 1 \in 1 .. m
      BY <1>2, <2>2
    <3> QED
      BY <3>1, <1>4 DEF Positions
  <2> QED
    BY <2>1, <2>2
<1>9. Positions(frames)'
  BY <1>3, <1>7, <1>8 DEF Positions
<1>10. OnlyEnds
  BY <1>2, <1>4 DEF OnlyEnds
<1> QED
  BY <1>9, <1>10

LEMMA NextEnds == Positions(frames) /\ [Next]_vars => Positions(frames)' /\ OnlyEnds
<1> SUFFICES ASSUME Positions(frames), [Next]_vars PROVE Positions(frames)' /\ OnlyEnds
  OBVIOUS
<1>1. frames \in Seq(FrameType) /\ Len(frames) \in Nat /\ DOMAIN frames = 1 .. Len(frames)
  BY DEF Positions
<1>2. CASE Complete \/ Fail \/ Back \/ TRY \/ NTR \/ EXP \/ RET \/ \E ptr \in Raised : RIS(ptr)
  <2>1. Running /\ Frame.pc # VM_PC_EXIT
    BY <1>2 DEF Complete, Fail, Back, TRY, NTR, EXP, RET, RIS, Statement
  <2>2. PICK t : \E n \in {VM_PC_EXIT} \cup DOMAIN Frame.body : After(frames, Frame, t, n)
    BY <1>2, <2>1, StatementMoves
  <2>3. Len(frames) \in Nat \ {0}
    BY <1>2, <2>1, StatementMoves
  <2> QED
    BY <2>2, <2>3, AfterEnds DEF Frame
<1>3. CASE Return
  BY <1>3, ReturnEnds
<1>4. ASSUME NEW b \in Bodies, NEW by \in Callers, Call(b, by) PROVE Positions(frames)' /\ OnlyEnds
  <2>1. frames # <<>> /\ frames' = Append(frames, PikaVMFrame(b, by))
    BY <1>4 DEF Call, Statement, Running
  <2> QED
    BY <1>1, <2>1, PushEnds
<1>5. ASSUME NEW b \in Bodies, CallBack(b) PROVE Positions(frames)' /\ OnlyEnds
  <2> DEFINE g == [Frame EXCEPT !.served = TRUE]
             s == [frames EXCEPT ![Len(frames)] = g]
  <2>1. Len(frames) \in Nat \ {0} /\ Frame = frames[Len(frames)]
    BY <1>1, <1>5, EmptySeq DEF CallBack, Running, Frame
  <2>2. Frame \in FrameType
    BY <1>1, <2>1
  <2>3. g \in FrameType /\ g.body = Frame.body /\ g.pc = Frame.pc /\ g.by = Frame.by
    BY <2>2 DEF FrameType
  <2>4. frames' = Append(s, PikaVMFrame(b, "native"))
    BY <1>5 DEF CallBack, SetTop
  <2> HIDE DEF g
  <2>5. s \in Seq(FrameType) /\ Len(s) = Len(frames) /\ s[Len(frames)] = g
        /\ \A i \in 1 .. Len(frames) : i # Len(frames) => s[i] = frames[i]
    BY <1>1, <2>1, <2>3
  <2> HIDE DEF s
  <2>6. \A i \in 1 .. Len(frames) : /\ s[i].body = frames[i].body /\ s[i].pc = frames[i].pc
                                    /\ s[i].by = frames[i].by
    BY <2>1, <2>3, <2>5
  <2>7. "native" \in Callers
    BY DEF Callers
  <2> QED
    BY <2>4, <2>5, <2>6, <2>7, PushEnds
<1>6. ASSUME NEW b \in Bodies, Start(b) PROVE Positions(frames)' /\ OnlyEnds
  <2>1. frames = <<>> /\ frames' = Append(frames, PikaVMFrame(b, "native"))
    BY <1>6 DEF Start, Running
  <2>2. "native" \in Callers
    BY DEF Callers
  <2> QED
    BY <1>1, <2>1, <2>2, PushEnds
<1>7. CASE frames' = frames
  BY <1>7 DEF Positions, OnlyEnds
<1> QED
  BY <1>2, <1>3, <1>4, <1>5, <1>6, <1>7 DEF Next, VMStep, pika_vm_exit, vars

(* After pika_vm_exit no frame goes on: whatever the program is, and       *)
(* wherever its tries are, a step leaves a frame where it is, ends it or   *)
(* sends it to the end of a try, from which it only ends.                  *)
THEOREM ExitOnlyUnwinds == Spec => ExitUnwinds
<1>1. Init => Positions(frames)
  BY DEF Init, Positions
<1>2. Positions(frames) /\ [Next]_vars => Positions(frames)'
  BY NextEnds
<1>3. Positions(frames) /\ [Next]_vars =>
        [signal_ctrl /\ signal_ctrl' =>
           \A i \in DOMAIN frames \cap DOMAIN frames' :
             \/ frames'[i].pc \in {frames[i].pc, VM_PC_EXIT}
             \/ frames'[i].body[frames'[i].pc] = "ntr"]_vars
  BY NextEnds DEF OnlyEnds
<1> QED
  BY <1>1, <1>2, <1>3, PTL DEF Spec, ExitUnwinds

-----------------------------------------------------------------------------
(* The refinement: the calls that PyCalls sees.                            *)
CallType == [body: Bodies, pos: Int, root: BOOLEAN]

PosOf(f, t) ==
  CASE f.pc = VM_PC_EXIT /\ t.error_code  -> RAISED
    [] f.pc = VM_PC_EXIT /\ ~t.error_code -> RETURNED
    [] OTHER -> IF f.body[f.pc] # "ntr" THEN f.pc
                ELSE IF t.try_error_code THEN f.pc + 1
                ELSE PastHandler(f.body, f.pc)

(* The call that frame f in thread t is.                                   *)
Seen(f, t) == [body |-> f.body, pos |-> PosOf(f, t), root |-> f.by = "native"]

LEMMA PosIs ==
  ASSUME NEW f, NEW t
  PROVE  /\ f.pc = VM_PC_EXIT /\ t.error_code => PosOf(f, t) = RAISED
         /\ f.pc = VM_PC_EXIT /\ ~t.error_code => PosOf(f, t) = RETURNED
         /\ f.pc # VM_PC_EXIT /\ f.body[f.pc] # "ntr" => PosOf(f, t) = f.pc
         /\ f.pc # VM_PC_EXIT /\ f.body[f.pc] = "ntr" /\ t.try_error_code => PosOf(f, t) = f.pc + 1
         /\ f.pc # VM_PC_EXIT /\ f.body[f.pc] = "ntr" /\ ~t.try_error_code
              => PosOf(f, t) = PastHandler(f.body, f.pc)
  BY DEF PosOf

LEMMA SeenType ==
  ASSUME NEW f \in FrameType, NEW t \in ThreadType, f.pc # VM_PC_EXIT => f.pc \in DOMAIN f.body
  PROVE  /\ Seen(f, t) \in CallType
         /\ Seen(f, t).body = f.body /\ Seen(f, t).pos = PosOf(f, t)
         /\ Seen(f, t).root = (f.by = "native")
<1>1. f.body \in Bodies /\ f.pc \in Nat /\ DOMAIN f.body \subseteq Nat
  <2>1. f.body \in Bodies /\ f.pc \in Nat
    BY DEF FrameType
  <2> QED
    BY <2>1, BodiesAssumption DEF Structured
<1>2. PosOf(f, t) \in Int
  <2>1. CASE f.pc = VM_PC_EXIT
    BY <2>1, PosIs DEF RAISED, RETURNED
  <2>2. CASE f.pc # VM_PC_EXIT /\ f.body[f.pc] # "ntr"
    BY <1>1, <2>2, PosIs
  <2>3. CASE f.pc # VM_PC_EXIT /\ f.body[f.pc] = "ntr"
    <3>1. PastHandler(f.body, f.pc) \in DOMAIN f.body
      BY <1>1, <2>3, GuardEnds
    <3> QED
      BY <1>1, <2>3, <3>1, PosIs
  <2> QED
    BY <2>1, <2>2, <2>3
<1> QED
  BY <1>1, <1>2 DEF Seen, CallType

LEMMA CallsAre == Inv => /\ Calls \in Seq(CallType) /\ Len(Calls) = Len(frames)
                         /\ DOMAIN frames = 1 .. Len(frames)
                         /\ \A i \in DOMAIN frames : Calls[i] = Seen(frames[i], threads[ThreadOf(i)])
<1> SUFFICES ASSUME Inv
             PROVE  /\ Calls \in Seq(CallType) /\ Len(Calls) = Len(frames)
                    /\ DOMAIN frames = 1 .. Len(frames)
                    /\ \A i \in DOMAIN frames : Calls[i] = Seen(frames[i], threads[ThreadOf(i)])
  OBVIOUS
<1>1. frames \in Seq(FrameType) /\ threads \in Seq(ThreadType)
  BY DEF Inv, Types
<1>2. PICK m \in Nat : m = Len(frames) /\ DOMAIN frames = 1 .. m
  BY <1>1
<1>3. Calls = [i \in 1 .. m |-> Seen(frames[i], threads[ThreadOf(i)])]
  BY <1>2 DEF Calls, Seen, Pos, PosOf
<1>4. \A i \in 1 .. m : Seen(frames[i], threads[ThreadOf(i)]) \in CallType
  <2> SUFFICES ASSUME NEW i \in 1 .. m PROVE Seen(frames[i], threads[ThreadOf(i)]) \in CallType
    OBVIOUS
  <2>1. i \in DOMAIN frames /\ frames # <<>>
    BY <1>2
  <2>2. ThreadOf(i) \in DOMAIN threads
    BY <2>1, TopThread DEF Inv
  <2>3. frames[i] \in FrameType /\ threads[ThreadOf(i)] \in ThreadType
    BY <1>1, <2>1, <2>2
  <2>4. frames[i].pc # VM_PC_EXIT => frames[i].pc \in DOMAIN frames[i].body
    BY <2>1 DEF Inv, Types
  <2> QED
    BY <2>3, <2>4, SeenType
<1>5. Calls \in [1 .. m -> CallType]
  BY <1>3, <1>4
<1>6. Calls \in Seq(CallType) /\ Len(Calls) = m
  BY <1>5
<1> QED
  BY <1>2, <1>3, <1>6

LEMMA CallsThen == Inv' => (/\ Calls \in Seq(CallType) /\ Len(Calls) = Len(frames)
                            /\ DOMAIN frames = 1 .. Len(frames)
                            /\ \A i \in DOMAIN frames : Calls[i] = Seen(frames[i], threads[ThreadOf(i)]))'
  BY CallsAre, PTL

(* Sequences of calls that differ in one place.                            *)
LEMMA SameSequence ==
  ASSUME NEW c \in Seq(CallType), NEW d \in Seq(CallType), NEW m \in Nat, Len(c) = m
  PROVE  /\ Len(d) = m /\ (\A i \in 1 .. m : d[i] = c[i]) => d = c
         /\ \A p \in Int : m > 0 /\ Len(d) = m /\ (\A i \in 1 .. m - 1 : d[i] = c[i])
              /\ d[m].body = c[m].body /\ d[m].root = c[m].root /\ d[m].pos = p
              => d = [c EXCEPT ![Len(c)].pos = p]
         /\ \A x \in CallType : Len(d) = m + 1 /\ (\A i \in 1 .. m : d[i] = c[i]) /\ d[m + 1] = x
              => d = Append(c, x)
<1>1. ASSUME Len(d) = m, \A i \in 1 .. m : d[i] = c[i] PROVE d = c
  BY <1>1, SeqEqual
<1>2. ASSUME NEW p \in Int, m > 0, Len(d) = m, \A i \in 1 .. m - 1 : d[i] = c[i],
             d[m].body = c[m].body, d[m].root = c[m].root, d[m].pos = p
      PROVE  d = [c EXCEPT ![Len(c)].pos = p]
  <2>1. c[m] \in CallType /\ d[m] \in CallType
    BY <1>2
  <2>2. d[m] = [c[m] EXCEPT !.pos = p]
    BY <1>2, <2>1 DEF CallType
  <2> DEFINE e == [c EXCEPT ![m] = d[m]]
  <2>3. e \in Seq(CallType) /\ Len(e) = m /\ e[m] = d[m] /\ \A i \in 1 .. m - 1 : e[i] = c[i]
    BY <1>2, <2>1
  <2>4. \A i \in 1 .. m : d[i] = e[i]
    BY <1>2, <2>3
  <2> HIDE DEF e
  <2>5. d = e
    BY <1>2, <2>3, <2>4, SeqEqual
  <2> QED
    BY <2>2, <2>5 DEF e
<1>3. ASSUME NEW x \in CallType, Len(d) = m + 1, \A i \in 1 .. m : d[i] = c[i], d[m + 1] = x
      PROVE  d = Append(c, x)
  <2> DEFINE e == Append(c, x)
  <2>1. e \in Seq(CallType) /\ Len(e) = m + 1 /\ e[m + 1] = x /\ \A i \in 1 .. m : e[i] = c[i]
    BY AppendProperties
  <2>2. \A i \in 1 .. m + 1 : i = m + 1 \/ i \in 1 .. m
    OBVIOUS
  <2> HIDE DEF e
  <2>3. \A i \in 1 .. m + 1 : d[i] = e[i]
    BY <1>3, <2>1, <2>2
  <2> QED
    BY <1>3, <2>1, <2>3, SeqEqual DEF e
<1> QED
  BY <1>1, <1>2, <1>3

(* A step of a frame: the calls below it stay, its own one moves.          *)
LEMMA GoesCalls ==
  ASSUME Inv, Inv', NEW m \in DOMAIN frames,
         \/ m = Len(frames)
         \/ /\ m = Len(frames) - 1
            /\ frames[Len(frames)].by # "native" /\ frames[Len(frames)].pc = VM_PC_EXIT,
         NEW t, NEW q, Goes(m, q, t), ThreadOf(m) = Len(threads)
  PROVE  /\ Calls \in Seq(CallType) /\ Calls' \in Seq(CallType)
         /\ m \in Nat \ {0} /\ Len(Calls) = Len(frames) /\ Len(Calls') = m
         /\ \A i \in 1 .. m - 1 : Calls'[i] = Calls[i]
         /\ Calls'[m].body = Calls[m].body /\ Calls'[m].root = Calls[m].root
         /\ Calls'[m].pos = PosOf(frames'[m], threads'[Len(threads)])
         /\ Calls[m].body = frames[m].body /\ Calls[m].pos = PosOf(frames[m], Thread)
         /\ Calls[m].root = (frames[m].by = "native")
<1> DEFINE L == Len(threads)
<1>1. /\ DOMAIN frames = 1 .. Len(frames) /\ Len(frames) \in Nat /\ m \in 1 .. Len(frames)
      /\ frames' \in Seq(FrameType) /\ DOMAIN frames' = 1 .. m /\ Len(frames') = m
      /\ Calls \in Seq(CallType) /\ Calls' \in Seq(CallType)
      /\ Len(Calls) = Len(frames) /\ Len(Calls') = m
  <2>1. frames \in Seq(FrameType) /\ frames' \in Seq(FrameType) /\ Len(frames') = m
    BY DEF Inv, Types, Goes
  <2>2. DOMAIN frames = 1 .. Len(frames) /\ Len(frames) \in Nat /\ m \in 1 .. Len(frames)
        /\ DOMAIN frames' = 1 .. m
    BY <2>1
  <2> QED
    BY <2>1, <2>2, CallsAre, CallsThen
<1>2. /\ L \in Nat \ {0} /\ DOMAIN threads = 1 .. L
      /\ \A i \in 1 .. Len(frames) : ThreadOf(i) \in 1 .. L
  <2>1. frames # <<>> /\ threads \in Seq(ThreadType)
    BY <1>1 DEF Inv, Types
  <2> QED
    BY <1>1, <2>1, TopThread DEF Inv
<1>3. \A i \in 1 .. m : ThreadOf(i)' = ThreadOf(i)
  <2> SUFFICES ASSUME NEW i \in 1 .. m PROVE ThreadOf(i)' = ThreadOf(i)
    OBVIOUS
  <2>1. i \in Nat /\ \A j \in 1 .. i : frames'[j].by = frames[j].by
    BY <1>1 DEF Goes
  <2> QED
    BY <2>1, ThreadOfKept
<1>4. ASSUME NEW i \in 1 .. m - 1
      PROVE  Seen(frames'[i], threads'[ThreadOf(i)]) = Seen(frames[i], threads[ThreadOf(i)])
  <2>1. /\ frames'[i].pc = frames[i].pc /\ frames'[i].body = frames[i].body
        /\ frames'[i].by = frames[i].by
    BY <1>1 DEF Goes
  <2>2. CASE ThreadOf(i) # L
    <3>1. threads'[ThreadOf(i)] = threads[ThreadOf(i)]
      BY <1>1, <1>2, <2>2 DEF Goes
    <3> QED
      BY <2>1, <3>1 DEF Seen, PosOf
  <2>3. CASE ThreadOf(i) = L
    <3>1. frames[i + 1].by # "native" /\ i < Len(frames) /\ i \in DOMAIN frames
      BY <1>1, <2>3, SameThread
    <3>2. frames[i].pc # VM_PC_EXIT /\ frames[i].body[frames[i].pc] # "ntr"
      BY <3>1 DEF Inv, Linked, Waiting, Works
    <3>3. PosOf(frames'[i], threads'[L]) = frames[i].pc /\ PosOf(frames[i], threads[L]) = frames[i].pc
      BY <2>1, <3>2, PosIs
    <3> QED
      BY <2>1, <2>3, <3>3 DEF Seen
  <2> QED
    BY <2>2, <2>3
<1>5. \A i \in 1 .. m : Calls'[i] = Seen(frames'[i], threads'[ThreadOf(i)])
  <2> SUFFICES ASSUME NEW i \in 1 .. m PROVE Calls'[i] = Seen(frames'[i], threads'[ThreadOf(i)])
    OBVIOUS
  <2>1. Calls'[i] = Seen(frames'[i], threads'[ThreadOf(i)'])
    BY <1>1, CallsThen
  <2> QED
    BY <2>1, <1>3
<1>6. \A i \in 1 .. m : Calls[i] = Seen(frames[i], threads[ThreadOf(i)])
  BY <1>1, CallsAre
<1>7. \A i \in 1 .. m - 1 : Calls'[i] = Calls[i]
  BY <1>1, <1>4, <1>5, <1>6
<1>8. Calls'[m] = Seen(frames'[m], threads'[L]) /\ Calls[m] = Seen(frames[m], Thread)
  BY <1>1, <1>5, <1>6 DEF Thread
<1>9. frames'[m].body = frames[m].body /\ frames'[m].by = frames[m].by
  BY <1>1 DEF Goes
<1> QED
  BY <1>1, <1>7, <1>8, <1>9 DEF Seen

(* The definitions of PyFunctions, as PyCalls has them.                    *)
LEMMA SameFunctions ==
  ASSUME NEW b, NEW p
  PROVE  /\ PyErrors!Successors(b, p) = Successors(b, p)
         /\ PyErrors!Handler(b, p) = Handler(b, p)
         /\ PyErrors!Works = Works /\ PyErrors!RAISED = RAISED /\ PyErrors!Front(b) = Front(b)
<1>1. \A l : PyErrors!PastHandler(b, l) = PastHandler(b, l)
  BY DEF PyErrors!PastHandler, PastHandler, PyErrors!Min, Min
<1>2. \A l : PyErrors!At(b, l) = At(b, l)
  BY <1>1 DEF PyErrors!At, At
<1>3. PyErrors!PastLoop(b) = PastLoop(b) /\ PyErrors!LoopOf(b) = LoopOf(b)
  BY DEF PyErrors!PastLoop, PastLoop, PyErrors!LoopOf, LoopOf
<1>4. PyErrors!Successors(b, p) = Successors(b, p)
  BY <1>2, <1>3 DEF PyErrors!Successors, Successors, PyErrors!RETURNED, RETURNED
<1>5. PyErrors!InTry(b, p) <=> InTry(b, p)
  BY DEF PyErrors!InTry, InTry
<1>6. PyErrors!Handler(b, p) = Handler(b, p)
  BY <1>5 DEF PyErrors!Handler, Handler, PyErrors!RAISED, RAISED, PyErrors!Min, Min
<1> QED
  BY <1>4, <1>6 DEF PyErrors!Works, Works, PyErrors!RAISED, RAISED, PyErrors!Front, Front

(* The actions of PyCalls.                                                 *)
LEMMA IsAdvance ==
  ASSUME ~signal_ctrl, ~signal_ctrl', Calls # <<>>,
         NEW b, NEW p, b = Calls[Len(Calls)].body, p = Calls[Len(Calls)].pos, p > 0,
         NEW n \in Successors(b, p), Calls' = [Calls EXCEPT ![Len(Calls)].pos = n]
  PROVE  PyErrors!Next
  BY SameFunctions DEF PyErrors!Next, PyErrors!Advance, PyErrors!Now, PyErrors!GoTo

LEMMA IsFail ==
  ASSUME ~signal_ctrl, ~signal_ctrl', Calls # <<>>,
         NEW b, NEW p, b = Calls[Len(Calls)].body, p = Calls[Len(Calls)].pos, p > 0,
         b[p] \in Works \cup {"raise"},
         Calls' = [Calls EXCEPT ![Len(Calls)].pos = Handler(b, p)]
  PROVE  PyErrors!Next
  BY SameFunctions DEF PyErrors!Next, PyErrors!Fail, PyErrors!Now, PyErrors!GoTo

LEMMA IsCall ==
  ASSUME ~signal_ctrl, ~signal_ctrl', Calls # <<>>,
         NEW b, NEW p, b = Calls[Len(Calls)].body, p = Calls[Len(Calls)].pos, p > 0, b[p] \in Works,
         NEW g \in Bodies, Calls' = Append(Calls, [body |-> g, pos |-> 1, root |-> FALSE])
  PROVE  PyErrors!Next
  BY SameFunctions DEF PyErrors!Next, PyErrors!Call, PyErrors!Now, PyErrors!Begun

LEMMA IsCallBack ==
  ASSUME ~signal_ctrl, ~signal_ctrl', Calls # <<>>,
         NEW g \in Bodies, Calls' = Append(Calls, [body |-> g, pos |-> 1, root |-> TRUE])
  PROVE  PyErrors!Next
  BY DEF PyErrors!Next, PyErrors!CallBack, PyErrors!Begun

LEMMA IsLeave ==
  ASSUME ~signal_ctrl, ~signal_ctrl', Calls # <<>>, Calls[Len(Calls)].pos <= 0,
         NEW s, s = Front(Calls),
         LET r == s[Len(s)]
             x == Calls[Len(Calls)]
         IN  Calls' = IF s # <<>> /\ x.pos = RAISED /\ ~x.root
                      THEN [s EXCEPT ![Len(s)].pos = Handler(r.body, r.pos)] ELSE s
  PROVE  PyErrors!Next
<1> DEFINE c == IF signal_ctrl THEN <<>> ELSE Calls
           r == s[Len(s)]
<1>1. c = Calls /\ c' = Calls'
  OBVIOUS
<1>2. PyErrors!Now = Calls[Len(Calls)]
  BY DEF PyErrors!Now
<1>3. PyErrors!Front(c) = s /\ PyErrors!Handler(r.body, r.pos) = Handler(r.body, r.pos)
      /\ PyErrors!RAISED = RAISED
  BY <1>1, SameFunctions
<1>4. PyErrors!GoTo(s, Handler(r.body, r.pos)) = [s EXCEPT ![Len(s)].pos = Handler(r.body, r.pos)]
  BY DEF PyErrors!GoTo
<1> HIDE DEF c
<1>5. c # <<>> /\ PyErrors!Now.pos <= 0
      /\ c' = IF s # <<>> /\ PyErrors!Now.pos = PyErrors!RAISED /\ ~PyErrors!Now.root
              THEN PyErrors!GoTo(s, PyErrors!Handler(r.body, r.pos)) ELSE s
  BY <1>1, <1>2, <1>3, <1>4
<1>6. PyErrors!Leave
  BY <1>3, <1>5 DEF PyErrors!Leave, c
<1> QED
  BY <1>6 DEF PyErrors!Next

(* A statement moves the last call to the position that it leads to.       *)
LEMMA StepCalls ==
  ASSUME Inv, Inv', ~signal_ctrl, Running, Frame.pc # VM_PC_EXIT,
         NEW t \in ThreadType, NEW n \in Nat, After(frames, Frame, t, n)
  PROVE  /\ ~signal_ctrl' /\ Calls # <<>> /\ Calls \in Seq(CallType)
         /\ Calls[Len(Calls)].body = Frame.body /\ Calls[Len(Calls)].pos = PosOf(Frame, Thread)
         /\ \E q, f, u :
              /\ q \in Nat /\ Jump(Frame, t, n, q) /\ f.body = Frame.body /\ f.pc = q
              /\ (u.error_code <=> t.error_code)
              /\ (u.try_error_code <=> t.try_error_code \/ (t.error_code /\ t.try_state))
              /\ PosOf(f, u) \in Int
              /\ Calls' = [Calls EXCEPT ![Len(Calls)].pos = PosOf(f, u)]
              /\ PosOf(f, u) = PosOf(Frame, Thread) => Calls' = Calls
<1>1. PICK m \in Nat \ {0} : m = Len(frames) /\ m \in DOMAIN frames /\ Frame = frames[m]
  BY AtStatement
<1>2. PICK q \in Nat : Jump(Frame, t, n, q) /\ Goes(m, q, t)
  BY <1>1, StatementGoes
<1>3. ThreadOf(m) = Len(threads) /\ Len(threads) \in Nat \ {0} /\ DOMAIN threads = 1 .. Len(threads)
  <2>1. threads \in Seq(ThreadType)
    BY DEF Inv, Types
  <2> QED
    BY <1>1, <2>1, TopThread DEF Inv, Running
<1> DEFINE f == frames'[m]
           u == threads'[Len(threads)]
<1>4. f.body = Frame.body /\ f.pc = q /\ signal_ctrl' = signal_ctrl
  BY <1>1, <1>2 DEF Goes
<1>5. (u.error_code <=> t.error_code) /\ (u.try_error_code <=> t.try_error_code \/ (t.error_code /\ t.try_state))
  BY <1>2 DEF Goes, ThreadType
<1>6. /\ Calls \in Seq(CallType) /\ Calls' \in Seq(CallType) /\ Len(Calls) = m /\ Len(Calls') = m
      /\ \A i \in 1 .. m - 1 : Calls'[i] = Calls[i]
      /\ Calls'[m].body = Calls[m].body /\ Calls'[m].root = Calls[m].root
      /\ Calls'[m].pos = PosOf(f, u)
      /\ Calls[m].body = Frame.body /\ Calls[m].pos = PosOf(Frame, Thread)
  <2>1. m \in DOMAIN frames /\ m = Len(frames) /\ Goes(m, q, t) /\ ThreadOf(m) = Len(threads)
    BY <1>1, <1>2, <1>3
  <2> QED
    BY <1>1, <2>1, GoesCalls
<1> HIDE DEF f, u
<1>7. Calls # <<>> /\ Calls[m] \in CallType /\ Calls'[m] \in CallType
  BY <1>6
<1>8. PosOf(f, u) \in Int
  BY <1>6, <1>7 DEF CallType
<1>9. Calls' = [Calls EXCEPT ![Len(Calls)].pos = PosOf(f, u)]
  <2>1. m \in Nat /\ m > 0
    OBVIOUS
  <2> QED
    BY <2>1, <1>6, <1>8, SameSequence
<1>10. ASSUME PosOf(f, u) = PosOf(Frame, Thread) PROVE Calls' = Calls
  <2>1. Calls'[m] = Calls[m]
    BY <1>6, <1>7, <1>10 DEF CallType
  <2>2. \A i \in 1 .. m : i = m \/ i \in 1 .. m - 1
    OBVIOUS
  <2>3. \A i \in 1 .. m : Calls'[i] = Calls[i]
    BY <1>6, <2>1, <2>2
  <2>4. m \in Nat
    OBVIOUS
  <2> QED
    BY <1>6, <2>3, <2>4, SameSequence
<1> QED
  BY <1>2, <1>4, <1>5, <1>6, <1>7, <1>8, <1>9, <1>10

(* The except clause that PyCalls names is behind the end of the try.      *)
LEMMA HandlerIs ==
  ASSUME NEW b \in Bodies, NEW p \in DOMAIN b, InTry(b, p), b[p] \notin {"exp", "ntr"},
         NEW q \in DOMAIN b, q > p, b[q] = "ntr",
         \A l \in p + 1 .. q - 1 : b[l] # "ntr"
  PROVE  Handler(b, p) = q + 1
<1>1. DOMAIN b = 1 .. Len(b) /\ Len(b) \in Nat /\ p \in Nat /\ q \in Nat /\ p > 0
  BY BodiesAssumption DEF Structured
<1>2. q + 1 \in DOMAIN b /\ b[q + 1] = "exp"
  BY NextPosition, GuardEnds
<1> DEFINE S == {l \in p .. Len(b) : b[l] = "exp"}
<1>3. q + 1 \in S /\ S \in SUBSET Nat
  BY <1>1, <1>2
<1>4. \A l \in S : l >= q + 1
  <2> SUFFICES ASSUME NEW l \in S, l <= q PROVE FALSE
    BY <1>1
  <2>1. l \in DOMAIN b /\ b[l] = "exp" /\ l # p /\ l \in Nat /\ l >= p
    BY <1>1
  <2>2. b[l - 1] = "ntr"
    BY <2>1, BodiesAssumption DEF Structured
  <2>3. l - 1 = p \/ l - 1 \in p + 1 .. q - 1
    BY <1>1, <2>1
  <2> QED
    BY <2>2, <2>3
<1>5. Min(S) \in S /\ \A l \in S : Min(S) <= l
  BY <1>3, MinIs
<1>6. Min(S) = q + 1
  <2>1. Min(S) <= q + 1 /\ Min(S) >= q + 1 /\ Min(S) \in Nat
    BY <1>3, <1>4, <1>5
  <2> QED
    BY <1>1, <2>1
<1> QED
  BY <1>1, <1>6 DEF Handler

(* An error goes to the except clause of the try that the frame is in, and *)
(* out of the frame if it is in none.                                      *)
LEMMA ErrorIsHandled ==
  ASSUME Disciplined, Inv, NEW m \in DOMAIN frames,
         \/ m = Len(frames)
         \/ /\ m = Len(frames) - 1
            /\ frames[Len(frames)].by # "native" /\ frames[Len(frames)].pc = VM_PC_EXIT,
         frames[m].pc # VM_PC_EXIT, frames[m].body[frames[m].pc] \in Works \cup {"raise"},
         NEW t \in ThreadType, t.try_state = Thread.try_state, t.error_code,
         NEW n, NEW q, Jump(frames[m], t, n, q),
         NEW f, f.body = frames[m].body, f.pc = q,
         NEW u, (u.error_code <=> t.error_code),
         (u.try_error_code <=> t.try_error_code \/ (t.error_code /\ t.try_state))
  PROVE  PosOf(f, u) = Handler(frames[m].body, frames[m].pc)
<1> DEFINE b == frames[m].body
           p == frames[m].pc
<1>1. b \in Bodies /\ p \in DOMAIN b /\ p \in Nat /\ p > 0 /\ b[p] \notin {"exp", "ntr"}
  <2>1. frames[m] \in FrameType /\ p \in DOMAIN b
    BY DEF Inv, Types
  <2>2. p \in Nat /\ b \in Bodies
    BY <2>1 DEF FrameType
  <2> QED
    BY <2>1, <2>2 DEF VM_PC_EXIT, Works
<1>2. /\ t.try_state <=> InTry(b, p) \/ Below(m)
      /\ Below(m) => ~HasTry(b)
  BY <1>1, TopState DEF Guarded
<1>3. CASE InTry(b, p)
  <2>1. PICK r \in DOMAIN b : /\ r = RaiseTarget(frames[m]) /\ r > p /\ b[r] = "ntr"
                              /\ \A l \in p + 1 .. r - 1 : b[l] \notin {"ntr", "ret"}
    BY <1>1, <1>3, RaiseCaught
  <2>2. q = r
    BY <1>2, <1>3, <2>1 DEF Jump, Stops
  <2>3. r # VM_PC_EXIT
    BY <1>1, <2>1 DEF VM_PC_EXIT
  <2>4. PosOf(f, u) = r + 1
    <3>1. u.try_error_code
      BY <1>2, <1>3
    <3>2. f.pc = r /\ f.pc # VM_PC_EXIT /\ f.body[f.pc] = "ntr"
      BY <2>1, <2>2, <2>3
    <3> QED
      BY <3>1, <3>2, PosIs
  <2> QED
    BY <1>1, <1>3, <2>1, <2>4, HandlerIs
<1>4. CASE ~InTry(b, p)
  <2>1. q = VM_PC_EXIT
    BY <1>1, <1>2, <1>4, RaisePasses DEF Jump, Stops
  <2> QED
    BY <1>4, <2>1, PosIs DEF Handler
<1> QED
  BY <1>3, <1>4

(* A statement without an error.                                           *)
LEMMA AdvanceRefines ==
  ASSUME Inv, Inv', ~signal_ctrl, Running, Frame.pc # VM_PC_EXIT, Here # "ntr",
         NEW t \in ThreadType, ~t.error_code, ~t.try_error_code,
         NEW n \in Nat, After(frames, Frame, t, n),
         n = VM_PC_EXIT => RETURNED \in Successors(Frame.body, Frame.pc),
         n # VM_PC_EXIT => At(Frame.body, n) \in Successors(Frame.body, Frame.pc)
  PROVE  PyErrors!Next
<1>1. /\ ~signal_ctrl' /\ Calls # <<>> /\ Calls \in Seq(CallType)
      /\ Calls[Len(Calls)].body = Frame.body /\ Calls[Len(Calls)].pos = PosOf(Frame, Thread)
  BY StepCalls
<1>2. PICK q, f, u :
        /\ q \in Nat /\ Jump(Frame, t, n, q) /\ f.body = Frame.body /\ f.pc = q
        /\ (u.error_code <=> t.error_code)
        /\ (u.try_error_code <=> t.try_error_code \/ (t.error_code /\ t.try_state))
        /\ Calls' = [Calls EXCEPT ![Len(Calls)].pos = PosOf(f, u)]
  BY StepCalls
<1>3. ~u.error_code /\ ~u.try_error_code /\ q = n
  BY <1>2 DEF Jump, Stops
<1>4. PosOf(Frame, Thread) = Frame.pc
  BY PosIs DEF Here
<1>5. Frame.pc > 0
  BY AtStatement DEF VM_PC_EXIT
<1>6. PosOf(f, u) \in Successors(Frame.body, Frame.pc)
  <2>1. CASE n = VM_PC_EXIT
    BY <1>2, <1>3, <2>1, PosIs
  <2>2. CASE n # VM_PC_EXIT
    <3>1. PosOf(f, u) = At(Frame.body, n)
      BY <1>2, <1>3, <2>2, PosIs DEF At
    <3> QED
      BY <2>2, <3>1
  <2> QED
    BY <2>1, <2>2
<1> QED
  BY <1>1, <1>2, <1>4, <1>5, <1>6, IsAdvance

(* A statement that fails.                                                 *)
LEMMA FailRefines ==
  ASSUME Disciplined, Inv, Inv', ~signal_ctrl, Running, Frame.pc # VM_PC_EXIT,
         Here \in Works \cup {"raise"},
         NEW t \in ThreadType, t.error_code, t.try_state = Thread.try_state,
         NEW n \in Nat, After(frames, Frame, t, n)
  PROVE  PyErrors!Next
<1>1. /\ Frame.pc \in Nat /\ Frame.pc > 0 /\ Here # "ntr"
      /\ Len(frames) \in DOMAIN frames /\ Frame = frames[Len(frames)]
  BY AtStatement DEF VM_PC_EXIT, Works
<1>2. /\ ~signal_ctrl' /\ Calls # <<>> /\ Calls \in Seq(CallType)
      /\ Calls[Len(Calls)].body = Frame.body /\ Calls[Len(Calls)].pos = PosOf(Frame, Thread)
  BY StepCalls
<1>3. PICK q, f, u :
        /\ q \in Nat /\ Jump(Frame, t, n, q) /\ f.body = Frame.body /\ f.pc = q
        /\ (u.error_code <=> t.error_code)
        /\ (u.try_error_code <=> t.try_error_code \/ (t.error_code /\ t.try_state))
        /\ Calls' = [Calls EXCEPT ![Len(Calls)].pos = PosOf(f, u)]
  BY StepCalls
<1>4. PosOf(Frame, Thread) = Frame.pc
  BY <1>1, PosIs DEF Here
<1>5. PosOf(f, u) = Handler(Frame.body, Frame.pc)
  <2>1. PICK m \in DOMAIN frames : m = Len(frames) /\ Frame = frames[m]
    BY <1>1
  <2>2. frames[m].pc # VM_PC_EXIT /\ frames[m].body[frames[m].pc] \in Works \cup {"raise"}
    BY <2>1 DEF Here
  <2>3. Jump(frames[m], t, n, q) /\ f.body = frames[m].body
    BY <1>3, <2>1
  <2>4. PosOf(f, u) = Handler(frames[m].body, frames[m].pc)
    BY <1>3, <2>1, <2>2, <2>3, ErrorIsHandled
  <2> QED
    BY <2>1, <2>4
<1>6. Frame.body[Frame.pc] \in Works \cup {"raise"}
  BY DEF Here
<1> QED
  BY <1>1, <1>2, <1>3, <1>4, <1>5, <1>6, IsFail

LEMMA CompleteRefines == Inv /\ Inv' /\ ~signal_ctrl /\ Complete => PyErrors!Next
<1> SUFFICES ASSUME Inv, Inv', ~signal_ctrl, Complete PROVE PyErrors!Next
  OBVIOUS
<1>1. Running /\ Frame.pc # VM_PC_EXIT /\ Here \in Works
  BY DEF Complete, Statement
<1>2. Here \notin {"try", "ntr", "ret", "exp", "raise", "back"}
  BY <1>1 DEF Works
<1>3. PICK n : /\ n = Frame.pc + 1 \/ (Here = "loop" /\ n = PastLoop(Frame.body))
               /\ After(frames, Frame, NewLine(Thread), n)
  BY DEF Complete
<1>4. /\ Frame.body \in Bodies /\ Frame.pc \in DOMAIN Frame.body /\ DOMAIN Frame.body \subseteq Nat
      /\ 0 \notin DOMAIN Frame.body
      /\ Thread \in ThreadType /\ ~Thread.try_error_code
  <2>1. /\ Frame.body \in Bodies /\ Frame.pc \in DOMAIN Frame.body /\ DOMAIN Frame.body \subseteq Nat
        /\ Thread \in ThreadType /\ ~Thread.try_error_code
    BY <1>1, <1>2, AtStatement
  <2> QED
    BY <2>1, BodiesAssumption DEF Structured
<1>5. n \in DOMAIN Frame.body
  <2>1. CASE n = Frame.pc + 1
    BY <1>2, <1>4, <2>1, NextPosition DEF Here
  <2>2. CASE Here = "loop" /\ n = PastLoop(Frame.body)
    BY <1>4, <2>2, LoopKeeps DEF Here
  <2> QED
    BY <1>3, <2>1, <2>2
<1>6. n \in Nat /\ n # VM_PC_EXIT
  BY <1>4, <1>5 DEF VM_PC_EXIT
<1>7. NewLine(Thread) \in ThreadType /\ ~NewLine(Thread).error_code /\ ~NewLine(Thread).try_error_code
  BY <1>4, ThreadForms
<1>8. At(Frame.body, n) \in Successors(Frame.body, Frame.pc)
  BY <1>2, <1>3 DEF Successors, Here
<1> QED
  BY <1>1, <1>2, <1>3, <1>6, <1>7, <1>8, AdvanceRefines

LEMMA BackRefines == Inv /\ Inv' /\ ~signal_ctrl /\ Back => PyErrors!Next
<1> SUFFICES ASSUME Inv, Inv', ~signal_ctrl, Back PROVE PyErrors!Next
  OBVIOUS
<1>1. Running /\ Frame.pc # VM_PC_EXIT /\ Here = "back"
      /\ After(frames, Frame, NewLine(Thread), LoopOf(Frame.body))
  BY DEF Back, Statement
<1>2. /\ Frame.body \in Bodies /\ Frame.pc \in DOMAIN Frame.body
      /\ Thread \in ThreadType /\ ~Thread.try_error_code
  BY <1>1, AtStatement
<1>3. LoopOf(Frame.body) \in DOMAIN Frame.body /\ Frame.body[LoopOf(Frame.body)] = "loop"
  BY <1>1, <1>2, LoopKeeps DEF Here
<1>4. LoopOf(Frame.body) \in Nat /\ LoopOf(Frame.body) # VM_PC_EXIT
  BY <1>2, <1>3, BodiesAssumption DEF Structured, VM_PC_EXIT
<1>5. NewLine(Thread) \in ThreadType /\ ~NewLine(Thread).error_code /\ ~NewLine(Thread).try_error_code
  BY <1>2, ThreadForms
<1>6. At(Frame.body, LoopOf(Frame.body)) \in Successors(Frame.body, Frame.pc)
  BY <1>1, <1>3 DEF Successors, Here, At
<1> QED
  BY <1>1, <1>4, <1>5, <1>6, AdvanceRefines

LEMMA TryRefines == Inv /\ Inv' /\ ~signal_ctrl /\ (TRY \/ EXP) => PyErrors!Next
<1> SUFFICES ASSUME Inv, Inv', ~signal_ctrl, TRY \/ EXP PROVE PyErrors!Next
  OBVIOUS
<1>1. Running /\ Frame.pc # VM_PC_EXIT /\ Here \in {"try", "exp"}
  BY DEF TRY, EXP, Statement
<1>2. /\ Frame.body \in Bodies /\ Frame.pc \in DOMAIN Frame.body /\ Thread \in ThreadType
      /\ Here = "try" => ~Thread.try_error_code
  BY <1>1, AtStatement
<1>3. Frame.pc + 1 \in Nat /\ Frame.pc + 1 # VM_PC_EXIT
  BY <1>1, AtStatement DEF VM_PC_EXIT
<1>4. PICK t \in ThreadType : ~t.error_code /\ ~t.try_error_code /\ After(frames, Frame, t, Frame.pc + 1)
  <2>1. CASE TRY
    <3> DEFINE t == [NewLine(Thread) EXCEPT !.try_state = TRUE]
    <3>1. t \in ThreadType /\ ~t.error_code /\ t.try_error_code = Thread.try_error_code
      BY <1>2 DEF ThreadType, NewLine
    <3>2. Here = "try" /\ After(frames, Frame, t, Frame.pc + 1)
      BY <2>1 DEF TRY, Statement
    <3> QED
      BY <1>2, <3>1, <3>2
  <2>2. CASE EXP
    <3> DEFINE t == [NewLine(Thread) EXCEPT !.try_error_code = FALSE]
    <3>1. t \in ThreadType /\ ~t.error_code /\ ~t.try_error_code
      BY <1>2 DEF ThreadType, NewLine
    <3>2. After(frames, Frame, t, Frame.pc + 1)
      BY <2>2 DEF EXP
    <3> QED
      BY <3>1, <3>2
  <2> QED
    BY <2>1, <2>2
<1>5. At(Frame.body, Frame.pc + 1) \in Successors(Frame.body, Frame.pc)
  BY <1>1 DEF Successors, Here
<1> QED
  BY <1>1, <1>3, <1>4, <1>5, AdvanceRefines

LEMMA RetRefines == Inv /\ Inv' /\ ~signal_ctrl /\ RET => PyErrors!Next
<1> SUFFICES ASSUME Inv, Inv', ~signal_ctrl, RET PROVE PyErrors!Next
  OBVIOUS
<1>1. Running /\ Frame.pc # VM_PC_EXIT /\ Here = "ret"
      /\ After(frames, Frame, NewLine(Thread), VM_PC_EXIT)
  BY DEF RET, Statement
<1>2. Thread \in ThreadType /\ ~Thread.try_error_code
  BY <1>1, AtStatement
<1>3. NewLine(Thread) \in ThreadType /\ ~NewLine(Thread).error_code /\ ~NewLine(Thread).try_error_code
  BY <1>2, ThreadForms
<1>4. RETURNED \in Successors(Frame.body, Frame.pc) /\ VM_PC_EXIT \in Nat
  BY <1>1 DEF Successors, Here, VM_PC_EXIT
<1> QED
  BY <1>1, <1>3, <1>4, AdvanceRefines

(* The end of a try is not a position of its own in Python.                *)
LEMMA NtrRefines == Inv /\ Inv' /\ ~signal_ctrl /\ NTR => Calls' = Calls /\ ~signal_ctrl'
<1> SUFFICES ASSUME Inv, Inv', ~signal_ctrl, NTR PROVE Calls' = Calls /\ ~signal_ctrl'
  OBVIOUS
<1>1. Running /\ Frame.pc # VM_PC_EXIT /\ Here = "ntr"
  BY DEF NTR, Statement
<1>2. /\ Frame.body \in Bodies /\ Frame.pc \in DOMAIN Frame.body /\ DOMAIN Frame.body \subseteq Nat
      /\ Frame.pc \in Nat /\ Thread \in ThreadType
  BY <1>1, AtStatement
<1> DEFINE t == [NewLine(Thread) EXCEPT !.try_state = FALSE]
           n == IF Thread.try_error_code THEN Frame.pc + 1 ELSE PastHandler(Frame.body, Frame.pc)
<1>3. t \in ThreadType /\ ~t.error_code
  BY <1>2 DEF ThreadType, NewLine
<1>4. After(frames, Frame, t, n)
  BY DEF NTR
<1>5. n = PosOf(Frame, Thread)
  BY <1>1, PosIs DEF Here
<1>6. n \in DOMAIN Frame.body /\ n \in Nat /\ n # VM_PC_EXIT /\ Frame.body[n] # "ntr"
  <2>1. CASE Thread.try_error_code
    BY <1>1, <1>2, <2>1, NextPosition, GuardEnds DEF Here, VM_PC_EXIT, Guarded
  <2>2. CASE ~Thread.try_error_code
    BY <1>1, <1>2, <2>2, GuardEnds DEF Here, VM_PC_EXIT, Guarded
  <2> QED
    BY <2>1, <2>2
<1> HIDE DEF t, n
<1>7. PICK q, f, u :
        /\ q \in Nat /\ Jump(Frame, t, n, q) /\ f.body = Frame.body /\ f.pc = q
        /\ PosOf(f, u) = PosOf(Frame, Thread) => Calls' = Calls
  BY <1>1, <1>3, <1>4, <1>6, StepCalls
<1>8. q = n
  BY <1>3, <1>7 DEF Jump, Stops
<1>9. PosOf(f, u) = n
  BY <1>6, <1>7, <1>8, PosIs
<1>10. ~signal_ctrl'
  BY <1>1, <1>3, <1>4, <1>6, StepCalls
<1> QED
  BY <1>5, <1>7, <1>9, <1>10

(* A call that is over.                                                    *)
LEMMA OverIs ==
  ASSUME NEW f, NEW t, f.pc = VM_PC_EXIT
  PROVE  /\ t.error_code => Seen(f, t).pos = RAISED
         /\ ~t.error_code => Seen(f, t).pos = RETURNED
         /\ Seen(f, t).pos <= 0 /\ Seen(f, t).root = (f.by = "native")
<1>1. Seen(f, t).pos = PosOf(f, t) /\ Seen(f, t).root = (f.by = "native")
  BY DEF Seen
<1>2. /\ t.error_code => PosOf(f, t) = RAISED
      /\ ~t.error_code => PosOf(f, t) = RETURNED
  BY PosIs
<1>3. PosOf(f, t) <= 0
  BY <1>2 DEF RAISED, RETURNED
<1> QED
  BY <1>1, <1>2, <1>3

LEMMA SameCall ==
  ASSUME NEW x \in CallType, NEW y \in CallType, x.body = y.body, x.pos = y.pos, x.root = y.root
  PROVE  x = y
  BY DEF CallType

(* A frame ends and its caller goes on or has the error.                   *)
LEMMA ReturnRefines ==
  ASSUME Disciplined, Inv, Inv', ~signal_ctrl, Return, Frame.by # "native"
  PROVE  PyErrors!Next
<1>1. PICK m \in DOMAIN frames : m = Len(frames) - 1 /\ m \in Nat \ {0} /\ m + 1 = Len(frames)
  BY ReturnGoes
<1>2. /\ Waiting(m) /\ frames[m].pc \in Nat /\ Frame.pc = VM_PC_EXIT /\ Frame = frames[Len(frames)]
      /\ Thread \in ThreadType /\ Returned \in ThreadType /\ Returned.try_state = Thread.try_state
      /\ Returned.error_code = Thread.error_code
  BY <1>1, ReturnGoes
<1>3. PICK q \in Nat : Jump(frames[m], Returned, frames[m].pc, q) /\ Goes(m, q, Returned)
  BY <1>1, ReturnGoes
<1>4. ThreadOf(m) = Len(threads) /\ ThreadOf(m + 1) = Len(threads)
  <2>1. ThreadOf(m + 1) = ThreadOf(m)
    BY <1>1, <1>2, ThreadOfNext
  <2>2. ThreadOf(m + 1) = Len(threads)
    BY <1>1 DEF Inv, Linked
  <2> QED
    BY <2>1, <2>2
<1> DEFINE L == Len(threads)
           f == frames'[m]
           u == threads'[L]
           s == Front(Calls)
           x == Calls[Len(Calls)]
<1>5. f.body = frames[m].body /\ f.pc = q /\ ~signal_ctrl'
      /\ (u.error_code <=> Returned.error_code)
      /\ (u.try_error_code <=> Returned.try_error_code \/ (Returned.error_code /\ Returned.try_state))
  BY <1>1, <1>2, <1>3 DEF Goes, ThreadType
<1>6. /\ frames[Len(frames)].by # "native" /\ frames[Len(frames)].pc = VM_PC_EXIT
      /\ m = Len(frames) - 1
  BY <1>1, <1>2
<1>7. /\ Calls \in Seq(CallType) /\ Calls' \in Seq(CallType) /\ Len(Calls) = m + 1 /\ Len(Calls') = m
      /\ \A i \in 1 .. m - 1 : Calls'[i] = Calls[i]
      /\ Calls'[m].body = Calls[m].body /\ Calls'[m].root = Calls[m].root
      /\ Calls'[m].pos = PosOf(f, u)
      /\ Calls[m].body = frames[m].body /\ Calls[m].pos = PosOf(frames[m], Thread)
  BY <1>1, <1>3, <1>4, <1>6, GoesCalls
<1>8. x = Seen(Frame, Thread)
  <2>1. m + 1 \in DOMAIN frames
    BY <1>1, CallsAre
  <2>2. Calls[m + 1] = Seen(frames[m + 1], threads[ThreadOf(m + 1)])
    BY <2>1, CallsAre
  <2> QED
    BY <2>2, <1>1, <1>2, <1>4, <1>7 DEF Thread
<1>9. /\ Thread.error_code => x.pos = RAISED
      /\ ~Thread.error_code => x.pos = RETURNED
      /\ x.pos <= 0 /\ ~x.root
  <2> HIDE DEF x
  <2>1. PICK g, t : g = Frame /\ t = Thread /\ x = Seen(g, t) /\ g.pc = VM_PC_EXIT /\ g.by # "native"
    BY <1>2, <1>8
  <2>2. /\ t.error_code => x.pos = RAISED
        /\ ~t.error_code => x.pos = RETURNED
        /\ x.pos <= 0 /\ x.root = (g.by = "native")
    BY <2>1, OverIs
  <2> QED
    BY <2>1, <2>2
<1>10. s \in Seq(CallType) /\ Len(s) = m /\ s # <<>> /\ Calls # <<>> /\ \A i \in 1 .. m : s[i] = Calls[i]
  <2>1. Calls # <<>>
    BY <1>1, <1>7
  <2>2. s \in Seq(CallType) /\ Len(s) = Len(Calls) - 1
        /\ \A i \in 1 .. Len(Calls) - 1 : s[i] = Calls[i]
    BY <1>7, <2>1, FrontIs
  <2>3. Len(Calls) - 1 = m
    BY <1>1, <1>7
  <2> QED
    BY <1>1, <2>1, <2>2, <2>3
<1>11. frames[m].pc # VM_PC_EXIT /\ frames[m].body[frames[m].pc] \in Works
       /\ frames[m].body[frames[m].pc] # "ntr"
  BY <1>2 DEF Waiting, Works
<1>12. PosOf(frames[m], Thread) = frames[m].pc
  BY <1>11, PosIs
<1> HIDE DEF f, u, s, x
<1>13. /\ m \in Nat /\ m > 0 /\ s[m].body = frames[m].body /\ s[m].pos = frames[m].pc
       /\ s[m].root = Calls[m].root /\ \A i \in 1 .. m - 1 : Calls'[i] = s[i]
  BY <1>1, <1>7, <1>10, <1>12
<1>14. PosOf(f, u) \in Int /\ Calls'[m] \in CallType /\ s[m] \in CallType
  <2>1. Calls'[m] \in CallType /\ s[m] \in CallType
    BY <1>1, <1>7, <1>10
  <2> QED
    BY <2>1, <1>7 DEF CallType
<1>15. CASE Thread.error_code
  <2>1. PosOf(f, u) = Handler(frames[m].body, frames[m].pc)
    <3>1. PICK t, n, g, v : t \in ThreadType /\ t = Returned /\ n = frames[m].pc /\ g = f /\ v = u
      BY <1>2
    <3>2. /\ t \in ThreadType
          /\ t.try_state = Thread.try_state /\ t.error_code /\ Jump(frames[m], t, n, q)
          /\ g.body = frames[m].body /\ g.pc = q
          /\ (v.error_code <=> t.error_code)
          /\ (v.try_error_code <=> t.try_error_code \/ (t.error_code /\ t.try_state))
          /\ frames[m].body[frames[m].pc] \in Works \cup {"raise"}
      BY <1>2, <1>3, <1>5, <1>11, <1>15, <3>1
    <3>3. PosOf(g, v) = Handler(frames[m].body, frames[m].pc)
      BY <1>6, <1>11, <3>2, ErrorIsHandled
    <3> QED
      BY <3>1, <3>3
  <2>2. Calls' = [s EXCEPT ![Len(s)].pos = Handler(s[m].body, s[m].pos)]
    BY <1>7, <1>10, <1>13, <1>14, <2>1, SameSequence
  <2>3. Calls' = IF s # <<>> /\ x.pos = RAISED /\ ~x.root
                 THEN [s EXCEPT ![Len(s)].pos = Handler(s[Len(s)].body, s[Len(s)].pos)] ELSE s
    BY <1>9, <1>10, <1>15, <2>2
  <2> QED
    BY <1>5, <1>9, <1>10, <2>3, IsLeave DEF s, x
<1>16. CASE ~Thread.error_code
  <2>1. q = frames[m].pc
    BY <1>2, <1>3, <1>16 DEF Jump, Stops
  <2>2. PosOf(f, u) = frames[m].pc
    BY <1>5, <1>11, <2>1, PosIs
  <2>3. Calls'[m] = s[m]
    <3>1. /\ Calls'[m].body = s[m].body /\ Calls'[m].pos = s[m].pos
          /\ Calls'[m].root = s[m].root
      BY <1>7, <1>13, <2>2
    <3> QED
      BY <1>14, <3>1, SameCall
  <2>4. \A i \in 1 .. m : i = m \/ i \in 1 .. m - 1
    BY <1>13
  <2>5. \A i \in 1 .. m : Calls'[i] = s[i]
    BY <1>13, <2>3, <2>4
  <2>6. Calls' = s
    BY <1>7, <1>10, <1>13, <2>5, SameSequence
  <2>7. Calls' = IF s # <<>> /\ x.pos = RAISED /\ ~x.root
                 THEN [s EXCEPT ![Len(s)].pos = Handler(s[Len(s)].body, s[Len(s)].pos)] ELSE s
    BY <1>9, <1>16, <2>6 DEF RAISED, RETURNED
  <2> QED
    BY <1>5, <1>9, <1>10, <2>7, IsLeave DEF s, x
<1> QED
  BY <1>15, <1>16

(* The frame of a call from native code ends: the error stays with it.     *)
LEMMA NativeReturnRefines ==
  ASSUME Inv, Inv', ~signal_ctrl, Return, Frame.by = "native"
  PROVE  PyErrors!Next
<1>1. PICK m \in Nat : m = Len(frames) - 1 /\ m + 1 = Len(frames)
  BY NativeReturnIs
<1>2. /\ Frame.pc = VM_PC_EXIT /\ Len(frames') = m /\ ~signal_ctrl'
      /\ \A i \in 1 .. m : frames'[i] = frames[i]
      /\ \A k \in 1 .. Len(threads') : threads'[k] = threads[k]
      /\ \A i \in 1 .. m : ThreadOf(i) \in 1 .. Len(threads')
      /\ \A i \in 0 .. m : ThreadOf(i)' = ThreadOf(i)
  BY <1>1, NativeReturnIs
<1>3. /\ Calls \in Seq(CallType) /\ Calls' \in Seq(CallType) /\ Len(Calls) = m + 1 /\ Len(Calls') = m
      /\ DOMAIN frames = 1 .. m + 1 /\ DOMAIN frames' = 1 .. m
  BY <1>1, <1>2, CallsAre, CallsThen
<1>4. \A i \in 1 .. m : Calls'[i] = Calls[i]
  <2> SUFFICES ASSUME NEW i \in 1 .. m PROVE Calls'[i] = Calls[i]
    OBVIOUS
  <2>1. Calls'[i] = Seen(frames'[i], threads'[ThreadOf(i)'])
    BY <1>3, CallsThen
  <2>2. Calls[i] = Seen(frames[i], threads[ThreadOf(i)])
    BY <1>3, CallsAre
  <2>3. frames'[i] = frames[i] /\ ThreadOf(i)' = ThreadOf(i) /\ threads'[ThreadOf(i)] = threads[ThreadOf(i)]
    BY <1>2
  <2> QED
    BY <2>1, <2>2, <2>3
<1> DEFINE s == Front(Calls)
           x == Calls[Len(Calls)]
<1>5. s \in Seq(CallType) /\ Len(s) = m /\ Calls # <<>> /\ \A i \in 1 .. m : s[i] = Calls[i]
  <2>1. Calls # <<>>
    BY <1>1, <1>3
  <2> QED
    BY <1>1, <1>3, <2>1, FrontIs
<1>6. x = Seen(Frame, threads[ThreadOf(m + 1)])
  BY <1>1, <1>3, CallsAre DEF Frame
<1>7. x.root /\ x.pos <= 0
  BY <1>2, <1>6, OverIs
<1> HIDE DEF s, x
<1>8. Calls' = s
  BY <1>3, <1>4, <1>5, SameSequence
<1>9. Calls' = IF s # <<>> /\ x.pos = RAISED /\ ~x.root
               THEN [s EXCEPT ![Len(s)].pos = Handler(s[Len(s)].body, s[Len(s)].pos)] ELSE s
  BY <1>7, <1>8
<1> QED
  BY <1>2, <1>5, <1>7, <1>9, IsLeave DEF s, x

(* A frame begins: the others are where they were.                         *)
LEMMA PushCalls ==
  ASSUME Inv, Inv', NEW m \in Nat, m = Len(frames), NEW b \in Bodies, NEW by, Pushed(m, b, by),
         \A i \in 1 .. m : threads'[ThreadOf(i)] = threads[ThreadOf(i)] \/ Waiting(i)
  PROVE  /\ Calls \in Seq(CallType) /\ Len(Calls) = m
         /\ \A i \in 1 .. m : Calls[i] = Seen(frames[i], threads[ThreadOf(i)])
         /\ Calls' = Append(Calls, [body |-> b, pos |-> 1, root |-> by = "native"])
<1>1. /\ DOMAIN frames = 1 .. m /\ DOMAIN frames' = 1 .. m + 1
      /\ \A i \in 0 .. m : ThreadOf(i)' = ThreadOf(i)
  BY PushedKeeps
<1>2. /\ Calls \in Seq(CallType) /\ Calls' \in Seq(CallType) /\ Len(Calls) = m /\ Len(Calls') = m + 1
      /\ \A i \in 1 .. m : Calls[i] = Seen(frames[i], threads[ThreadOf(i)])
  <2>1. Len(frames') = m + 1
    BY DEF Pushed
  <2> QED
    BY <1>1, <2>1, CallsAre, CallsThen
<1>3. ASSUME NEW i \in 1 .. m PROVE Calls'[i] = Calls[i]
  <2>1. Calls'[i] = Seen(frames'[i], threads'[ThreadOf(i)])
    <3>1. i \in DOMAIN frames' /\ ThreadOf(i)' = ThreadOf(i)
      BY <1>1
    <3>2. Calls'[i] = Seen(frames'[i], threads'[ThreadOf(i)'])
      BY <3>1, CallsThen
    <3> QED
      BY <3>1, <3>2
  <2>2. Calls[i] = Seen(frames[i], threads[ThreadOf(i)])
    BY <1>2
  <2>3. frames'[i].body = frames[i].body /\ frames'[i].pc = frames[i].pc /\ frames'[i].by = frames[i].by
    BY DEF Pushed
  <2>4. PosOf(frames'[i], threads'[ThreadOf(i)]) = PosOf(frames[i], threads[ThreadOf(i)])
    <3>1. CASE threads'[ThreadOf(i)] = threads[ThreadOf(i)]
      BY <2>3, <3>1 DEF PosOf
    <3>2. CASE Waiting(i)
      <4>1. frames[i].pc # VM_PC_EXIT /\ frames[i].body[frames[i].pc] # "ntr"
        BY <3>2 DEF Waiting, Works
      <4>2. PosOf(frames[i], threads[ThreadOf(i)]) = frames[i].pc
        BY <4>1, PosIs
      <4>3. frames'[i].pc # VM_PC_EXIT /\ frames'[i].body[frames'[i].pc] # "ntr"
        BY <2>3, <4>1
      <4>4. PosOf(frames'[i], threads'[ThreadOf(i)]) = frames'[i].pc
        BY <4>3, PosIs
      <4> QED
        BY <2>3, <4>2, <4>4
    <3> QED
      BY <3>1, <3>2
  <2> QED
    BY <2>1, <2>2, <2>3, <2>4 DEF Seen
<1> DEFINE x == [body |-> b, pos |-> 1, root |-> by = "native"]
<1>4. Calls'[m + 1] = x
  <2>1. m + 1 \in DOMAIN frames'
    BY <1>1
  <2>2. PICK g, t : g = frames'[m + 1] /\ Calls'[m + 1] = Seen(g, t)
    BY <2>1, CallsThen
  <2>3. g.body = b /\ g.pc = 1 /\ g.by = by
    BY <2>2 DEF Pushed
  <2>4. b[1] # "ntr"
    BY BeginsPlain
  <2>5. PosOf(g, t) = 1
    BY <2>3, <2>4, PosIs DEF VM_PC_EXIT
  <2> QED
    BY <2>2, <2>3, <2>5 DEF Seen
<1>5. x \in CallType
  BY DEF CallType
<1> HIDE DEF x
<1>6. Calls' = Append(Calls, x)
  BY <1>2, <1>3, <1>4, <1>5, SameSequence
<1> QED
  BY <1>2, <1>6 DEF x

LEMMA CallRefines ==
  ASSUME Inv, Inv', ~signal_ctrl, NEW b \in Bodies, NEW by \in Callers, Call(b, by)
  PROVE  PyErrors!Next
<1>1. PICK m \in Nat, L \in Nat : m = Len(frames) /\ L = Len(threads)
  BY DEF Inv, Types
<1>2. /\ Running /\ Frame.pc # VM_PC_EXIT /\ Here \in Works /\ by # "native"
      /\ Pushed(m, b, by) /\ ~signal_ctrl'
      /\ \A k \in 1 .. L - 1 : threads'[k] = threads[k]
  BY <1>1, CallIs
<1>3. /\ m \in DOMAIN frames /\ DOMAIN frames = 1 .. m /\ ThreadOf(m) = L /\ L > 0
      /\ \A i \in 1 .. m : ThreadOf(i) \in 1 .. L
  <2>1. frames \in Seq(FrameType) /\ threads \in Seq(ThreadType)
    BY DEF Inv, Types
  <2> QED
    BY <1>1, <1>2, <2>1, TopThread DEF Inv, Running
<1>4. Waiting(m)
  BY <1>1, <1>2 DEF Waiting, Here, Frame
<1>5. ASSUME NEW i \in 1 .. m PROVE threads'[ThreadOf(i)] = threads[ThreadOf(i)] \/ Waiting(i)
  <2>1. CASE ThreadOf(i) # L
    BY <1>2, <1>3, <2>1
  <2>2. CASE ThreadOf(i) = L /\ i # m
    <3>1. i < m /\ i \in Nat
      BY <2>2
    <3>2. frames[i + 1].by # "native"
      BY <1>3, <2>2, <3>1, SameThread
    <3> QED
      BY <1>1, <1>3, <3>1, <3>2 DEF Inv, Linked
  <2> QED
    BY <2>1, <2>2, <1>4
<1>6. /\ Calls \in Seq(CallType) /\ Len(Calls) = m
      /\ Calls[m] = Seen(frames[m], threads[L])
      /\ Calls' = Append(Calls, [body |-> b, pos |-> 1, root |-> by = "native"])
  BY <1>1, <1>2, <1>3, <1>5, PushCalls
<1>7. Calls[m].body = frames[m].body /\ Calls[m].pos = frames[m].pc
  <2>1. PosOf(frames[m], threads[L]) = frames[m].pc
    BY <1>4, PosIs DEF Waiting, Works
  <2> QED
    BY <1>6, <2>1 DEF Seen
<1>8. frames[m].pc > 0 /\ frames[m].body[frames[m].pc] \in Works
  <2>1. frames[m] \in FrameType
    BY <1>3 DEF Inv, Types
  <2>2. frames[m].pc \in Nat
    BY <2>1 DEF FrameType
  <2> QED
    BY <1>4, <2>2 DEF Waiting, VM_PC_EXIT
<1>9. Calls # <<>> /\ (by = "native") = FALSE
  BY <1>2, <1>3, <1>6
<1>10. Calls' = Append(Calls, [body |-> b, pos |-> 1, root |-> FALSE])
  BY <1>6, <1>9
<1> QED
  BY <1>2, <1>6, <1>7, <1>8, <1>9, <1>10, IsCall

LEMMA CallBackRefines ==
  ASSUME Inv, Inv', ~signal_ctrl, NEW b \in Bodies, CallBack(b)
  PROVE  PyErrors!Next
<1>1. PICK m \in Nat, L \in Nat : m = Len(frames) /\ L = Len(threads)
  BY DEF Inv, Types
<1>2. /\ frames # <<>> /\ Pushed(m, b, "native") /\ ~signal_ctrl'
      /\ threads' = Append(threads, NewThread) /\ NewThread \in ThreadType
  BY <1>1, CallBackIs DEF CallBack, Running
<1>3. DOMAIN frames = 1 .. m /\ m > 0 /\ \A i \in 1 .. m : ThreadOf(i) \in 1 .. L
  <2>1. frames \in Seq(FrameType) /\ threads \in Seq(ThreadType)
    BY DEF Inv, Types
  <2> QED
    BY <1>1, <1>2, <2>1, TopThread DEF Inv
<1>4. \A k \in 1 .. L : threads'[k] = threads[k]
  BY <1>1, <1>2 DEF Inv, Types
<1>5. /\ Calls \in Seq(CallType) /\ Len(Calls) = m
      /\ Calls' = Append(Calls, [body |-> b, pos |-> 1, root |-> "native" = "native"])
  BY <1>1, <1>2, <1>3, <1>4, PushCalls
<1>6. Calls # <<>> /\ ("native" = "native") = TRUE
  BY <1>3, <1>5
<1>7. Calls' = Append(Calls, [body |-> b, pos |-> 1, root |-> TRUE])
  BY <1>5, <1>6, Zenon
<1> QED
  BY <1>2, <1>6, <1>7, IsCallBack

LEMMA StartRefines ==
  ASSUME Inv, Inv', NEW b \in Bodies, Start(b)
  PROVE  PyErrors!Next
<1>1. frames = <<>> /\ Len(frames) = 0 /\ ~signal_ctrl'
  BY DEF Start, Running
<1>2. PICK m \in Nat : m = 0
  OBVIOUS
<1>3. Pushed(m, b, "native") /\ m = Len(frames)
  BY <1>1, <1>2, CallBackIs
<1>4. /\ Calls \in Seq(CallType) /\ Len(Calls) = 0
      /\ Calls' = Append(Calls, [body |-> b, pos |-> 1, root |-> "native" = "native"])
  BY <1>2, <1>3, PushCalls
<1>5. Calls = <<>>
  BY <1>4, EmptySeq
<1>6. Calls' = <<[body |-> b, pos |-> 1, root |-> TRUE]>>
  <2> DEFINE x == [body |-> b, pos |-> 1, root |-> TRUE]
  <2>1. ("native" = "native") = TRUE
    OBVIOUS
  <2>2. Calls' = Append(Calls, x)
    BY <1>4, <2>1, Zenon
  <2> HIDE DEF x
  <2>3. Calls' = <<x>>
    BY <1>5, <2>2
  <2> QED
    BY <2>3 DEF x
<1> QED
  BY <1>1, <1>5, <1>6 DEF PyErrors!Next, PyErrors!Start, PyErrors!Begun

(* Errors and calls are those of the language: for every disciplined       *)
(* program whose classes have constructors at addresses that do not end in *)
(* a zero byte, the VM with its one error code and one try_state for all   *)
(* the frames of a thread takes each error to the except clause that       *)
(* Python would, or out of the program.                                    *)
THEOREM VMImplementsPython ==
  ASSUME Disciplined, \A ptr \in Raised : ptr % 256 # 0
  PROVE  Spec => ErrorsAreHandled
<1> DEFINE c == IF signal_ctrl THEN <<>> ELSE Calls
<1>1. Init => Inv
  BY InitInv
<1>2. Inv /\ [Next]_vars => Inv'
  BY NextInv
<1>3. Init => PyErrors!Init
  <2>1. Init => Calls = <<>>
    BY DEF Init, Calls
  <2> QED
    BY <2>1 DEF PyErrors!Init, Init
<1>4. Inv /\ Inv' /\ [Next]_vars => [PyErrors!Next]_c
  <2> SUFFICES ASSUME Inv, Inv', [Next]_vars PROVE PyErrors!Next \/ c' = c
    OBVIOUS
  <2>1. CASE UNCHANGED vars
    BY <2>1 DEF vars, Calls, Pos, ThreadOf
  <2>2. CASE pika_vm_exit
    BY <2>2 DEF pika_vm_exit, PyErrors!Next, PyErrors!Stop
  <2>3. ASSUME NEW b \in Bodies, Start(b) PROVE PyErrors!Next
    BY <2>3, StartRefines
  <2>4. CASE signal_ctrl /\ (VMStep \/ \E b \in Bodies : CallBack(b))
    <3>1. signal_ctrl'
      BY <2>4 DEF VMStep, Complete, Fail, Back, TRY, NTR, EXP, RET, RIS, Return, Call, CallBack, After
    <3> QED
      BY <2>4, <3>1
  <2>5. CASE ~signal_ctrl /\ VMStep
    <3>1. CASE Complete
      BY <2>5, <3>1, CompleteRefines
    <3>2. CASE Fail
      <4>1. /\ Running /\ Frame.pc # VM_PC_EXIT /\ Here \in Works
            /\ After(frames, Frame, [Thread EXCEPT !.error_code = TRUE], Frame.pc + 1)
        BY <3>2 DEF Fail, Statement
      <4>2. Thread \in ThreadType /\ Frame.pc + 1 \in Nat
        BY <4>1, AtStatement
      <4>3. PICK t \in ThreadType : /\ t = [Thread EXCEPT !.error_code = TRUE]
                                    /\ t.error_code = TRUE /\ t.try_state = Thread.try_state
        BY <4>2, ThreadForms
      <4> QED
        BY <2>5, <4>1, <4>2, <4>3, FailRefines
    <3>3. CASE Back
      BY <2>5, <3>3, BackRefines
    <3>4. CASE TRY \/ EXP
      BY <2>5, <3>4, TryRefines
    <3>5. CASE NTR
      BY <2>5, <3>5, NtrRefines
    <3>6. CASE RET
      BY <2>5, <3>6, RetRefines
    <3>7. CASE Return
      BY <2>5, <3>7, ReturnRefines, NativeReturnRefines
    <3>8. ASSUME NEW ptr \in Raised, RIS(ptr) PROVE PyErrors!Next
      <4>1. /\ Running /\ Frame.pc # VM_PC_EXIT /\ Here = "raise"
            /\ After(frames, Frame, [Thread EXCEPT !.error_code = (ptr % 256 # 0)], Frame.pc + 1)
        BY <3>8 DEF RIS, Statement
      <4>2. Thread \in ThreadType /\ Frame.pc + 1 \in Nat /\ (ptr % 256 # 0) = TRUE
        BY <4>1, AtStatement
      <4>3. PICK t \in ThreadType : /\ t = [Thread EXCEPT !.error_code = (ptr % 256 # 0)]
                                    /\ t.error_code = TRUE /\ t.try_state = Thread.try_state
        BY <4>2, ThreadForms
      <4> QED
        BY <2>5, <4>1, <4>2, <4>3, FailRefines
    <3>9. ASSUME NEW b \in Bodies, NEW by \in Callers, Call(b, by) PROVE PyErrors!Next
      BY <2>5, <3>9, CallRefines
    <3> QED
      BY <2>5, <3>1, <3>2, <3>3, <3>4, <3>5, <3>6, <3>7, <3>8, <3>9 DEF VMStep
  <2>6. ASSUME ~signal_ctrl, NEW b \in Bodies, CallBack(b) PROVE PyErrors!Next
    BY <2>6, CallBackRefines
  <2> QED
    BY <2>1, <2>2, <2>3, <2>4, <2>5, <2>6 DEF Next
<1> QED
  BY <1>1, <1>2, <1>3, <1>4, PTL DEF Spec, ErrorsAreHandled, PyErrors!Spec
=============================================================================
