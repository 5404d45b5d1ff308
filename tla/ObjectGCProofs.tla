--------------------------- MODULE ObjectGCProofs ---------------------------
(***************************************************************************)
(* Proofs about object lifetime, for every set of objects and names and    *)
(* both builds, as long as no object has more references than the uint8_t  *)
(* refcnt can count (FewHolders).                                          *)
(***************************************************************************)
EXTENDS ObjectGC, FiniteSetTheorems, SequenceTheorems, TLAPS

(* References to an object, that under release included, stay countable.   *)
Total(o) == Holders(o) + Released(o)
FewHolders == \A o \in Obj : Total(o) < RefMod

-----------------------------------------------------------------------------
(* The inductive invariant.                                                *)
Ordinary == Obj \ (Local \cup {Main})
Frame == [locals : Local \cup {Main}, stack : Seq(Ordinary)]
Tasks == {"run", "new", "push", "store", "args", "leave", "exit"}

Types ==
  /\ MarkSweep \in BOOLEAN /\ gc \in BOOLEAN /\ corrupt \in BOOLEAN
  /\ chain \in SUBSET Obj /\ root \in SUBSET chain /\ returned \in SUBSET root
  /\ refcnt \in [Obj -> 0 .. RefMod - 1]
  /\ refs \in [Obj -> [Name -> Ordinary \cup {None}]]
  /\ frames \in Seq(Frame) /\ \A i \in DOMAIN frames : Len(frames[i].stack) <= MaxStack
  /\ rel \in Ordinary \cup {None} /\ hand \in Ordinary \cup {None}
  /\ dying \in Seq(Obj) /\ freeList \in SUBSET Ordinary /\ task \in Tasks

(* What the instruction under way has prepared.                            *)
Prepared ==
  /\ task \in {"new", "push", "store"} => hand # None
  /\ task \in {"run", "args", "exit"} => hand = None
  /\ task \in {"new", "push", "store", "args", "leave"} => frames # <<>>
  /\ task = "exit" => frames = <<>>
  /\ task \in {"new", "push"} => Len(Top.stack) < MaxStack
  /\ task = "leave" /\ hand # None =>
       Len(frames) > 1 /\ Len(frames[Len(frames) - 1].stack) < MaxStack
  /\ task = "args" => /\ Len(frames) > 1 /\ frames[Len(frames) - 1].stack # <<>>
                      /\ \A f \in Name : refs[Top.locals][f] = None
  /\ task = "store" => /\ slot \in Obj \X Name /\ slot[1] \in Named
                       /\ refs[slot[1]][slot[2]] = None
  /\ gc => MarkSweep /\ task \in {"run", "new", "args"}
  /\ freeList # {} => gc

(* Frames own their locals, which are flagged, and nobody else's are alive.*)
LocalsOwned ==
  /\ frames # <<>> => frames[1].locals = Main
  /\ \A i, j \in DOMAIN frames : frames[i].locals = frames[j].locals => i = j
  /\ \A i \in DOMAIN frames : frames[i].locals \in root \ Range(dying)
  /\ \A o \in chain \cap (Local \cup {Main}) :
       o \in Range(dying) \/ \E i \in DOMAIN frames : frames[i].locals = o

(* The objects that are not being freed; and those of them whose counts    *)
(* are exact: all, or what is marked while the collector takes references  *)
(* from the others.                                                        *)
Alive == chain \ Range(dying)
Sound == IF gc THEN MarkedFrom(root \ Range(dying), refs) ELSE Alive

(* Freed objects have no args, and an object is freed once.                *)
Freed ==
  /\ \A o \in Obj \ chain, f \in Name : refs[o][f] = None
  /\ \A i \in DOMAIN dying : dying[i] \in chain
  /\ \A i, j \in DOMAIN dying : dying[i] = dying[j] => i = j

Counts ==
  /\ \A o \in Sound \ Owned : refcnt[o] = Total(o)
  /\ \A o \in Alive \ Owned : refcnt[o] # 0
  /\ \A o \in Range(dying) \cap Ordinary : refcnt[o] = 0 \/ refcnt[o] > Total(o)
  /\ task = "new" => hand \in root /\ Total(hand) = 0

Reached ==
  /\ Sound \subseteq Alive
  /\ ~gc => \A o \in Obj, f \in Name : refs[o][f] \in Alive \cup {None}
  /\ ~gc => rel \in Alive \cup {None}
  /\ hand \in Sound \cup {None}
  /\ ~gc /\ (~MarkSweep \/ rel # None \/ dying # <<>>) =>
       \A i \in DOMAIN frames : Range(frames[i].stack) \subseteq Alive
  /\ freeList \cap Sound = {}

Inv == /\ Types /\ Prepared /\ LocalsOwned /\ Freed /\ Counts /\ Reached /\ ~corrupt

(* A flagged object that was not returned is referred to by locals only.   *)
Fresh == \A o \in Obj, f \in Name :
           refs[o][f] # None => refs[o][f] \notin root \ returned \/ o \in Local

(* Once the root object is gone the collector runs until nothing is found. *)
Over ==
  MarkSweep /\ frames = <<>> /\ task = "run" /\ ~gc => rel = None /\ dying = <<>> /\ Unmarked = {}

-----------------------------------------------------------------------------
(* What can be reached.                                                    *)
LEMMA MarkedIs ==
  ASSUME NEW s \in SUBSET Obj, NEW r \in [Obj -> [Name -> Obj \cup {None}]]
  PROVE  /\ s \subseteq MarkedFrom(s, r) /\ MarkedFrom(s, r) \subseteq Obj
         /\ Closed(MarkedFrom(s, r), r)
         /\ \A m \in SUBSET Obj : s \subseteq m /\ Closed(m, r) => MarkedFrom(s, r) \subseteq m
<1>1. MarkedFrom(s, r) \subseteq Obj /\ s \subseteq MarkedFrom(s, r)
  BY DEF MarkedFrom
<1>2. \A m \in SUBSET Obj : s \subseteq m /\ Closed(m, r) => MarkedFrom(s, r) \subseteq m
  BY DEF MarkedFrom
<1>3. Closed(MarkedFrom(s, r), r)
  <2> SUFFICES ASSUME NEW o \in MarkedFrom(s, r), NEW f \in Name, r[o][f] # None
               PROVE  r[o][f] \in MarkedFrom(s, r)
    BY DEF Closed
  <2>1. r[o][f] \in Obj
    BY <1>1
  <2>2. ASSUME NEW m \in SUBSET Obj, s \subseteq m, Closed(m, r) PROVE r[o][f] \in m
    BY <2>2, <1>2 DEF Closed
  <2> QED BY <2>1, <2>2 DEF MarkedFrom
<1> QED BY <1>1, <1>2, <1>3

(* Fewer roots and fewer references reach less.                            *)
LEMMA MarkedLess ==
  ASSUME NEW s \in SUBSET Obj, NEW t \in SUBSET s,
         NEW r \in [Obj -> [Name -> Obj \cup {None}]],
         NEW q \in [Obj -> [Name -> Obj \cup {None}]],
         \A o \in Obj, f \in Name : q[o][f] \in {r[o][f], None}
  PROVE  MarkedFrom(t, q) \subseteq MarkedFrom(s, r)
<1> DEFINE m == MarkedFrom(s, r)
<1>1. m \in SUBSET Obj /\ t \subseteq m /\ Closed(m, r)
  BY MarkedIs
<1> HIDE DEF m
<1>2. Closed(m, q)
  BY <1>1 DEF Closed
<1>3. MarkedFrom(t, q) \subseteq m
  BY <1>1, <1>2, MarkedIs
<1> QED BY <1>3 DEF m

(* What an object that is not reached refers to does not matter, nor does  *)
(* an arg of the object whose reaching is in question.                     *)
LEMMA MarkedSame ==
  ASSUME NEW s \in SUBSET Obj, NEW r \in [Obj -> [Name -> Obj \cup {None}]],
         NEW q \in [Obj -> [Name -> Obj \cup {None}]], NEW n \in MarkedFrom(s, r),
         NEW d \in Obj, \A o \in Obj \ {d} : q[o] = r[o],
         d \notin MarkedFrom(s, r) \/ d = n
  PROVE  n \in MarkedFrom(s, q)
<1>1. n \in Obj
  BY MarkedIs
<1>2. ASSUME NEW m \in SUBSET Obj, s \subseteq m, Closed(m, q), n \notin m PROVE FALSE
  <2> DEFINE k == m \cap MarkedFrom(s, r)
  <2>1. k \in SUBSET Obj /\ s \subseteq k /\ d \notin k
    BY <1>2, MarkedIs
  <2>2. Closed(k, r)
    <3> SUFFICES ASSUME NEW o \in k, NEW f \in Name PROVE r[o][f] \in k \cup {None}
      BY DEF Closed
    <3>1. o # d /\ o \in Obj /\ q[o][f] = r[o][f]
      BY <2>1
    <3>2. q[o][f] \in m \cup {None}
      BY <1>2 DEF Closed
    <3>3. r[o][f] \in MarkedFrom(s, r) \cup {None}
      BY MarkedIs DEF Closed
    <3> QED BY <3>1, <3>2, <3>3
  <2> HIDE DEF k
  <2>3. MarkedFrom(s, r) \subseteq k
    BY <2>1, <2>2, MarkedIs
  <2> QED BY <1>2, <2>3 DEF k
<1> QED BY <1>1, <1>2 DEF MarkedFrom

(* An object that is no root and that nobody refers to is not reached.     *)
LEMMA NotMarked ==
  ASSUME NEW s \in SUBSET Obj, NEW r \in [Obj -> [Name -> Obj \cup {None}]],
         NEW d \in Obj \ s, \A o \in Obj, f \in Name : r[o][f] # d
  PROVE  d \notin MarkedFrom(s, r)
<1> DEFINE m == Obj \ {d}
<1>1. Closed(m, r) /\ m \in SUBSET Obj /\ s \subseteq m /\ d \notin m
  BY DEF Closed
<1> HIDE DEF m
<1>2. MarkedFrom(s, r) \subseteq m
  BY <1>1, MarkedIs
<1> QED BY <1>1, <1>2

-----------------------------------------------------------------------------
(* Counting holders.                                                       *)
LEMMA ArgHoldersFinite ==
  ASSUME NEW r, NEW o
  PROVE  IsFiniteSet(ArgHolders(r, o)) /\ Cardinality(ArgHolders(r, o)) \in Nat
<1>1. IsFiniteSet(Obj \X Name)
  BY GCAssumption, FS_Product
<1>2. ArgHolders(r, o) \in SUBSET (Obj \X Name)
  BY DEF ArgHolders
<1> QED BY <1>1, <1>2, FS_Subset, FS_CardinalityType

(* An arg gets another value.                                              *)
ArgsMap == [Obj -> [Name -> Obj \cup {None}]]
OtherArg(r, q, n, f, v) ==
  /\ r \in ArgsMap /\ q \in ArgsMap /\ n \in Obj /\ f \in Name /\ v \in Obj \cup {None}
  /\ \A m \in Obj, g \in Name : q[m][g] = IF m = n /\ g = f THEN v ELSE r[m][g]

LEMMA ArgOther ==
  ASSUME NEW r \in ArgsMap, NEW n \in Obj, NEW f \in Name, NEW v \in Obj \cup {None}
  PROVE  OtherArg(r, [r EXCEPT ![n][f] = v], n, f, v)
BY DEF ArgsMap, OtherArg

LEMMA ArgSet ==
  ASSUME NEW r, NEW q, NEW n, NEW f, NEW v \in Obj, OtherArg(r, q, n, f, v),
         r[n][f] = None, NEW o \in Obj
  PROVE  Cardinality(ArgHolders(q, o)) =
           Cardinality(ArgHolders(r, o)) + (IF o = v THEN 1 ELSE 0)
<1>1. /\ \A m \in Obj, g \in Name : q[m][g] = IF m = n /\ g = f THEN v ELSE r[m][g]
      /\ n \in Obj /\ f \in Name
  BY DEF OtherArg
<1>2. CASE o = v
  <2>1. ArgHolders(q, o) = ArgHolders(r, o) \cup {<<n, f>>} /\ <<n, f>> \notin ArgHolders(r, o)
    BY <1>1, <1>2, GCAssumption DEF ArgHolders
  <2> QED BY <1>2, <2>1, ArgHoldersFinite, FS_AddElement
<1>3. CASE o # v
  <2>1. ArgHolders(q, o) = ArgHolders(r, o)
    BY <1>1, <1>3, GCAssumption DEF ArgHolders
  <2> QED BY <1>3, <2>1, ArgHoldersFinite
<1> QED BY <1>2, <1>3

LEMMA ArgClear ==
  ASSUME NEW r, NEW q, NEW n, NEW f, OtherArg(r, q, n, f, None), NEW o \in Obj
  PROVE  Cardinality(ArgHolders(r, o)) =
           Cardinality(ArgHolders(q, o)) + (IF o = r[n][f] THEN 1 ELSE 0)
<1>1. /\ \A m \in Obj, g \in Name : q[m][g] = IF m = n /\ g = f THEN None ELSE r[m][g]
      /\ n \in Obj /\ f \in Name /\ r \in ArgsMap /\ q \in ArgsMap
  BY DEF OtherArg
<1>2. PICK v \in Obj \cup {None} : v = r[n][f]
  BY <1>1 DEF ArgsMap
<1>3. CASE v = None
  <2>1. ArgHolders(q, o) = ArgHolders(r, o)
    <3>1. \A m \in Obj, g \in Name : q[m][g] = r[m][g]
      BY <1>1, <1>2, <1>3
    <3> QED BY <3>1 DEF ArgHolders
  <2> QED BY <1>2, <1>3, <2>1, ArgHoldersFinite, GCAssumption
<1>4. CASE v # None
  <2>1. v \in Obj /\ OtherArg(q, r, n, f, v) /\ q[n][f] = None
    BY <1>1, <1>2, <1>4 DEF OtherArg
  <2>2. Cardinality(ArgHolders(r, o)) = Cardinality(ArgHolders(q, o)) + (IF o = v THEN 1 ELSE 0)
    BY <2>1, ArgSet
  <2> QED BY <1>2, <2>2
<1> QED BY <1>3, <1>4

LEMMA FrontIs ==
  ASSUME NEW S, NEW w \in Seq(S), w # <<>>
  PROVE  /\ Front(w) \in Seq(S) /\ Len(Front(w)) = Len(w) - 1 /\ Len(w) \in Nat \ {0}
         /\ \A i \in 1 .. Len(w) - 1 : Front(w)[i] = w[i]
         /\ Last(w) \in S /\ Last(w) = w[Len(w)] /\ Append(Front(w), Last(w)) = w
<1>1. Len(w) \in Nat \ {0} /\ \A i \in 1 .. Len(w) : w[i] \in S
  BY EmptySeq, LenProperties, ElementOfSeq
<1>2. PICK l \in Nat : l = Len(w) - 1
  BY <1>1
<1>3. 1 \in Int /\ l \in Int /\ \A i \in 1 .. l : w[i] \in S
  BY <1>1, <1>2
<1>4. /\ SubSeq(w, 1, l) \in Seq(S) /\ Len(SubSeq(w, 1, l)) = IF 1 <= l THEN l - 1 + 1 ELSE 0
      /\ \A i \in 1 .. l - 1 + 1 : SubSeq(w, 1, l)[i] = w[1 + i - 1]
  BY <1>3, SubSeqProperties
<1>5. /\ l - 1 + 1 = l /\ \A i \in 1 .. l : 1 + i - 1 = i
      /\ (IF 1 <= l THEN l - 1 + 1 ELSE 0) = l
  BY <1>2
<1>6. PICK u \in Seq(S) : /\ u = Front(w) /\ Len(u) = Len(w) - 1
                           /\ \A i \in 1 .. Len(w) - 1 : u[i] = w[i]
  BY <1>1, <1>2, <1>4, <1>5 DEF Front
<1>7. Last(w) \in S /\ Last(w) = w[Len(w)]
  BY <1>1 DEF Last
<1>8. Append(u, Last(w)) = w
  <2>1. /\ Append(u, Last(w)) \in Seq(S) /\ Len(Append(u, Last(w))) = Len(w)
        /\ \A i \in 1 .. Len(w) : Append(u, Last(w))[i] = w[i]
    BY <1>1, <1>6, <1>7
  <2> QED BY <2>1, SeqEqual
<1> QED BY <1>1, <1>6, <1>7, <1>8

AFrame == [locals : Obj, stack : Seq(Obj)]
FrameSeq == {s \in Seq(AFrame) : \A i \in DOMAIN s : Len(s[i].stack) <= MaxStack}

LEMMA FrameSeqIs ==
  ASSUME NEW s \in FrameSeq
  PROVE  /\ MaxStack \in Nat /\ s \in Seq(AFrame)
         /\ Len(s) \in Nat /\ DOMAIN s = 1 .. Len(s)
         /\ \A i \in DOMAIN s : /\ s[i] \in AFrame /\ s[i].stack \in Seq(Obj)
                                /\ Len(s[i].stack) \in Nat /\ Len(s[i].stack) <= MaxStack
<1>1. MaxStack \in Nat /\ s \in Seq(AFrame) /\ \A i \in DOMAIN s : Len(s[i].stack) <= MaxStack
  BY GCAssumption DEF FrameSeq
<1>2. Len(s) \in Nat /\ DOMAIN s = 1 .. Len(s) /\ \A i \in DOMAIN s : s[i] \in AFrame
  BY <1>1
<1>3. \A i \in DOMAIN s : s[i].stack \in Seq(Obj)
  BY <1>2 DEF AFrame
<1> QED BY <1>1, <1>2, <1>3

(* A frame gets another stack.                                             *)
Other(s, t, i, w) ==
  /\ s \in FrameSeq /\ t \in FrameSeq /\ Len(t) = Len(s) /\ i \in DOMAIN s
  /\ t[i].stack = w /\ t[i].locals = s[i].locals
  /\ \A j \in DOMAIN s : j # i => t[j] = s[j]

LEMMA FrameSet ==
  ASSUME NEW s \in FrameSeq, NEW i \in DOMAIN s, NEW w \in Seq(Obj), Len(w) <= MaxStack
  PROVE  Other(s, [s EXCEPT ![i].stack = w], i, w)
<1>1. s \in Seq(AFrame) /\ s[i] \in AFrame /\ \A j \in DOMAIN s : Len(s[j].stack) <= MaxStack
  BY FrameSeqIs
<1>2. PICK g \in AFrame : g = [s[i] EXCEPT !.stack = w] /\ g.stack = w /\ g.locals = s[i].locals
  <2>1. [s[i] EXCEPT !.stack = w] \in AFrame
    BY <1>1 DEF AFrame
  <2>2. [s[i] EXCEPT !.stack = w].stack = w /\ [s[i] EXCEPT !.stack = w].locals = s[i].locals
    BY <1>1 DEF AFrame
  <2> QED BY <2>1, <2>2
<1>3. PICK t : t = [s EXCEPT ![i] = g]
  OBVIOUS
<1>4. /\ t \in Seq(AFrame) /\ DOMAIN t = DOMAIN s /\ Len(t) = Len(s) /\ t[i] = g
      /\ \A j \in DOMAIN s : j # i => t[j] = s[j]
  BY <1>1, <1>3
<1>5. t \in FrameSeq
  BY <1>1, <1>2, <1>4 DEF FrameSeq
<1>6. Other(s, t, i, w)
  BY <1>2, <1>4, <1>5 DEF Other
<1>7. [s EXCEPT ![i].stack = w] = t
  BY <1>2, <1>3
<1> QED BY <1>6, <1>7

LEMMA StackHoldersFinite ==
  ASSUME NEW s \in FrameSeq, NEW o
  PROVE  IsFiniteSet(StackHolders(s, o)) /\ Cardinality(StackHolders(s, o)) \in Nat
<1>1. DOMAIN s = 1 .. Len(s) /\ Len(s) \in Nat
  BY DEF FrameSeq
<1>2. IsFiniteSet((DOMAIN s) \X (1 .. MaxStack))
  <2>1. IsFiniteSet(DOMAIN s)
    BY <1>1, FS_Interval
  <2>2. IsFiniteSet(1 .. MaxStack)
    BY GCAssumption, FS_Interval
  <2> QED BY <2>1, <2>2, FS_Product
<1>3. StackHolders(s, o) \in SUBSET ((DOMAIN s) \X (1 .. MaxStack))
  BY DEF StackHolders
<1> QED BY <1>2, <1>3, FS_Subset, FS_CardinalityType

LEMMA StackPush ==
  ASSUME NEW s, NEW t, NEW i, NEW v \in Obj, Other(s, t, i, Append(s[i].stack, v)),
         Len(s[i].stack) < MaxStack, NEW o \in Obj
  PROVE  Cardinality(StackHolders(t, o)) =
           Cardinality(StackHolders(s, o)) + (IF o = v THEN 1 ELSE 0)
<1>1. /\ s \in FrameSeq /\ DOMAIN t = DOMAIN s /\ MaxStack \in Nat /\ s[i].stack \in Seq(Obj)
      /\ \A j \in DOMAIN s : Len(s[j].stack) \in Nat
      /\ i \in DOMAIN s /\ t[i].stack = Append(s[i].stack, v)
      /\ \A j \in DOMAIN s : j # i => t[j] = s[j]
  BY FrameSeqIs DEF Other
<1>3. PICK n \in Nat : n = Len(s[i].stack) /\ n < MaxStack
  BY <1>1
<1>4. /\ Len(t[i].stack) = n + 1 /\ t[i].stack[n + 1] = v
      /\ \A k \in 1 .. n : t[i].stack[k] = s[i].stack[k]
  BY <1>1, <1>3
<1>6. CASE o = v
  <2>1. StackHolders(t, o) = StackHolders(s, o) \cup {<<i, n + 1>>}
    <3>1. ASSUME NEW j \in DOMAIN s, NEW k \in 1 .. MaxStack
          PROVE  (k <= Len(t[j].stack) /\ t[j].stack[k] = o) <=>
                   (k <= Len(s[j].stack) /\ s[j].stack[k] = o) \/ (j = i /\ k = n + 1)
      BY <1>1, <1>3, <1>4, <1>6
    <3>2. n + 1 \in 1 .. MaxStack
      BY <1>1, <1>3
    <3> QED BY <3>1, <3>2, <1>1 DEF StackHolders
  <2>2. <<i, n + 1>> \notin StackHolders(s, o)
    BY <1>3 DEF StackHolders
  <2>3. IsFiniteSet(StackHolders(s, o)) /\ Cardinality(StackHolders(s, o)) \in Nat
    BY <1>1, StackHoldersFinite
  <2>4. Cardinality(StackHolders(t, o)) = Cardinality(StackHolders(s, o)) + 1
    BY <2>1, <2>2, <2>3, FS_AddElement
  <2> QED BY <1>6, <2>4
<1>7. CASE o # v
  <2>1. StackHolders(t, o) = StackHolders(s, o)
    <3>1. ASSUME NEW j \in DOMAIN s, NEW k \in 1 .. MaxStack
          PROVE  (k <= Len(t[j].stack) /\ t[j].stack[k] = o) <=>
                   (k <= Len(s[j].stack) /\ s[j].stack[k] = o)
      <4>1. CASE j # i
        BY <1>1, <4>1
      <4>2. CASE j = i
        BY <1>3, <1>4, <1>7, <4>2
      <4> QED BY <4>1, <4>2
    <3> QED BY <3>1, <1>1 DEF StackHolders
  <2> QED BY <1>1, <1>7, <2>1, StackHoldersFinite
<1> QED BY <1>6, <1>7

LEMMA StackPop ==
  ASSUME NEW s, NEW t, NEW i, Other(s, t, i, Front(s[i].stack)), s[i].stack # <<>>,
         NEW o \in Obj
  PROVE  Cardinality(StackHolders(s, o)) =
           Cardinality(StackHolders(t, o)) + (IF o = Last(s[i].stack) THEN 1 ELSE 0)
<1>1. s \in FrameSeq /\ t \in FrameSeq /\ i \in DOMAIN s /\ Len(t) = Len(s)
  BY DEF Other
<1>2. PICK u \in Seq(Obj) : u = s[i].stack /\ u # <<>> /\ Len(u) <= MaxStack
  BY <1>1, FrameSeqIs
<1>3. PICK v \in Obj : v = Last(u) /\ Append(Front(u), v) = u /\ Len(Front(u)) = Len(u) - 1
  BY <1>2, FrontIs
<1>4. t[i].stack = Front(u) /\ MaxStack \in Nat /\ Len(u) \in Nat
  BY <1>1, <1>2, FrameSeqIs DEF Other
<1>5. Len(t[i].stack) < MaxStack /\ u = Append(t[i].stack, v)
  BY <1>2, <1>3, <1>4
<1>6. DOMAIN s = 1 .. Len(s) /\ DOMAIN t = 1 .. Len(t)
  BY <1>1, FrameSeqIs
<1>7. Other(t, s, i, Append(t[i].stack, v))
  BY <1>1, <1>2, <1>5, <1>6 DEF Other
<1>8. Cardinality(StackHolders(s, o)) =
        Cardinality(StackHolders(t, o)) + (IF o = v THEN 1 ELSE 0)
  BY <1>5, <1>7, StackPush
<1> QED BY <1>2, <1>3, <1>8

(* A frame with an empty stack holds nothing.                              *)
LEMMA StackSame ==
  ASSUME NEW s \in FrameSeq, NEW t \in FrameSeq, Len(s) <= Len(t),
         \A i \in DOMAIN s : t[i] = s[i], \A i \in Len(s) + 1 .. Len(t) : t[i].stack = <<>>,
         NEW o \in Obj
  PROVE  Cardinality(StackHolders(t, o)) = Cardinality(StackHolders(s, o))
<1>1. /\ DOMAIN s = 1 .. Len(s) /\ DOMAIN t = 1 .. Len(t) /\ Len(s) \in Nat /\ Len(t) \in Nat
  BY DEF FrameSeq
<1>2. StackHolders(t, o) = StackHolders(s, o)
  BY <1>1 DEF StackHolders
<1> QED BY <1>2

-----------------------------------------------------------------------------
(* What the types say of the frames.                                       *)
LEMMA FramesCount ==
  ASSUME NEW s \in Seq(Frame), \A i \in DOMAIN s : Len(s[i].stack) <= MaxStack
  PROVE  /\ s \in FrameSeq
         /\ \A o \in Obj : Cardinality(StackHolders(s, o)) \in Nat
<1>1. Frame \subseteq AFrame
  <2>1. Seq(Ordinary) \subseteq Seq(Obj)
    BY SeqMonotonic DEF Ordinary
  <2> QED BY <2>1, GCAssumption DEF Frame, AFrame
<1>2. s \in FrameSeq
  BY <1>1, SeqMonotonic DEF FrameSeq
<1> QED BY <1>2, StackHoldersFinite

LEMMA FramesAre ==
  ASSUME Types
  PROVE  /\ frames \in FrameSeq /\ frames \in Seq(Frame)
         /\ Len(frames) \in Nat /\ DOMAIN frames = 1 .. Len(frames)
         /\ frames # <<>> => Len(frames) \in DOMAIN frames /\ 1 \in DOMAIN frames
         /\ MaxStack \in Nat /\ RefMod \in Nat \ {0, 1} /\ None \notin Obj /\ Main \in Obj
         /\ Local \subseteq Obj \ {Main}
         /\ \A i \in DOMAIN frames :
              /\ frames[i] \in Frame /\ frames[i].locals \in Local \cup {Main}
              /\ frames[i].stack \in Seq(Ordinary) /\ Len(frames[i].stack) \in Nat
              /\ Len(frames[i].stack) <= MaxStack
              /\ frames[i].stack \in Seq(Obj)
<1>2. frames \in Seq(Frame) /\ \A i \in DOMAIN frames : Len(frames[i].stack) <= MaxStack
  BY DEF Types
<1>3. frames \in FrameSeq
  BY <1>2, FramesCount
<1>4. Len(frames) \in Nat /\ DOMAIN frames = 1 .. Len(frames)
  BY <1>2
<1>5. frames # <<>> => Len(frames) \in DOMAIN frames /\ 1 \in DOMAIN frames
  BY <1>2, <1>4, EmptySeq
<1>6. \A i \in DOMAIN frames :
        /\ frames[i] \in Frame /\ frames[i].locals \in Local \cup {Main}
        /\ frames[i].stack \in Seq(Ordinary) /\ Len(frames[i].stack) \in Nat
  <2> SUFFICES ASSUME NEW i \in DOMAIN frames
               PROVE  /\ frames[i] \in Frame /\ frames[i].locals \in Local \cup {Main}
                      /\ frames[i].stack \in Seq(Ordinary) /\ Len(frames[i].stack) \in Nat
    OBVIOUS
  <2>1. frames[i] \in Frame
    BY <1>2, <1>4
  <2>2. frames[i].locals \in Local \cup {Main} /\ frames[i].stack \in Seq(Ordinary)
    BY <2>1 DEF Frame
  <2> QED BY <2>1, <2>2
<1>7. \A i \in DOMAIN frames : frames[i].stack \in Seq(Obj)
  BY <1>3, FrameSeqIs
<1> QED BY <1>2, <1>3, <1>4, <1>5, <1>6, <1>7, GCAssumption

(* Instructions change the stack of one frame.                             *)
Restacked(t, i, w) ==
  /\ Other(frames, t, i, w) /\ t \in Seq(Frame)
  /\ DOMAIN t = DOMAIN frames /\ Len(t) = Len(frames)
  /\ \A j \in DOMAIN t : Len(t[j].stack) <= MaxStack /\ t[j].locals = frames[j].locals

LEMMA FramesSet ==
  ASSUME Types, NEW i \in DOMAIN frames, NEW w \in Seq(Ordinary), Len(w) <= MaxStack
  PROVE  Restacked([frames EXCEPT ![i].stack = w], i, w)
<1>0. PICK t : t = [frames EXCEPT ![i].stack = w]
  OBVIOUS
<1>1. w \in Seq(Obj) /\ frames \in FrameSeq /\ i \in DOMAIN frames
  BY FramesAre, SeqMonotonic DEF Ordinary
<1>2. Other(frames, t, i, w)
  BY <1>0, <1>1, FrameSet
<1>3. t \in Seq(Frame)
  <2>1. [frames[i] EXCEPT !.stack = w] \in Frame
    BY FramesAre DEF Frame
  <2> QED BY <1>0, <2>1, FramesAre
<1>4. DOMAIN t = DOMAIN frames /\ Len(t) = Len(frames)
  BY <1>2, FrameSeqIs DEF Other
<1>5. \A j \in DOMAIN t : Len(t[j].stack) <= MaxStack /\ t[j].locals = frames[j].locals
  BY <1>2, <1>4, FramesAre DEF Other
<1> QED BY <1>0, <1>2, <1>3, <1>4, <1>5 DEF Restacked

(* Nobody holds an object that is counted as held by nobody.               *)
Unheld(o) ==
  /\ \A n \in Obj, f \in Name : refs[n][f] # o
  /\ \A i \in DOMAIN frames : o \notin Range(frames[i].stack)
  /\ hand # o \/ task = "new"

LEMMA TotalZero ==
  ASSUME Types, NEW o \in Obj
  PROVE  /\ Total(o) \in Nat /\ (Total(o) = 0 <=> Unheld(o) /\ rel # o)
         /\ Holders(o) \in Nat /\ (Holders(o) = 0 <=> Unheld(o))
         /\ Total(o) = Holders(o) + (IF rel = o THEN 1 ELSE 0)
<1>1. PICK a \in Nat : a = Cardinality(ArgHolders(refs, o))
  BY ArgHoldersFinite
<1>2. PICK b \in Nat : b = Cardinality(StackHolders(frames, o))
  BY StackHoldersFinite, FramesAre
<1>3. PICK c \in {0, 1} : c = InHand(o)
  BY DEF InHand
<1>4. PICK d \in {0, 1} : d = Released(o)
  BY DEF Released
<1>5. Total(o) = a + b + c + d /\ Holders(o) = a + b + c
  BY <1>1, <1>2, <1>3, <1>4 DEF Total, Holders
<1>6. a = 0 <=> \A n \in Obj, f \in Name : refs[n][f] # o
  <2>1. a = 0 <=> ArgHolders(refs, o) = {}
    BY <1>1, ArgHoldersFinite, FS_EmptySet
  <2>2. ASSUME NEW n \in Obj, NEW f \in Name
        PROVE  <<n, f>> \in ArgHolders(refs, o) <=> refs[n][f] = o
    BY DEF ArgHolders
  <2>3. \A x \in ArgHolders(refs, o) : \E n \in Obj, f \in Name : x = <<n, f>>
    BY DEF ArgHolders
  <2>4. ASSUME ArgHolders(refs, o) = {}, NEW n \in Obj, NEW f \in Name PROVE refs[n][f] # o
    BY <2>2, <2>4
  <2>5. ASSUME ArgHolders(refs, o) # {} PROVE \E n \in Obj, f \in Name : refs[n][f] = o
    <3>1. PICK x : x \in ArgHolders(refs, o)
      BY <2>5
    <3>2. PICK n \in Obj, f \in Name : x = <<n, f>>
      BY <2>3, <3>1
    <3> QED BY <2>2, <3>1, <3>2
  <2> QED BY <2>1, <2>4, <2>5
<1>7. b = 0 <=> \A i \in DOMAIN frames : o \notin Range(frames[i].stack)
  <2>1. b = 0 <=> StackHolders(frames, o) = {}
    BY <1>2, StackHoldersFinite, FramesAre, FS_EmptySet
  <2>2. StackHolders(frames, o) = {} <=>
          \A i \in DOMAIN frames, k \in 1 .. MaxStack :
            ~(k <= Len(frames[i].stack) /\ frames[i].stack[k] = o)
    <3>1. ASSUME NEW i \in DOMAIN frames, NEW k \in 1 .. MaxStack
          PROVE  <<i, k>> \in StackHolders(frames, o) <=>
                   k <= Len(frames[i].stack) /\ frames[i].stack[k] = o
      BY DEF StackHolders
    <3>2. \A x \in StackHolders(frames, o) :
            \E i \in DOMAIN frames, k \in 1 .. MaxStack : x = <<i, k>>
      BY DEF StackHolders
    <3>3. ASSUME StackHolders(frames, o) = {}, NEW i \in DOMAIN frames, NEW k \in 1 .. MaxStack
          PROVE  ~(k <= Len(frames[i].stack) /\ frames[i].stack[k] = o)
      BY <3>1, <3>3
    <3>4. ASSUME StackHolders(frames, o) # {}
          PROVE  \E i \in DOMAIN frames, k \in 1 .. MaxStack :
                   k <= Len(frames[i].stack) /\ frames[i].stack[k] = o
      <4>1. PICK x : x \in StackHolders(frames, o)
        BY <3>4
      <4>2. PICK i \in DOMAIN frames, k \in 1 .. MaxStack : x = <<i, k>>
        BY <3>2, <4>1
      <4> QED BY <3>1, <4>1, <4>2
    <3> QED BY <3>3, <3>4
  <2>3. ASSUME NEW i \in DOMAIN frames
        PROVE  o \in Range(frames[i].stack) <=>
                 \E k \in 1 .. MaxStack : k <= Len(frames[i].stack) /\ frames[i].stack[k] = o
    <3>1. PICK w \in Seq(Obj) : w = frames[i].stack /\ Len(w) <= MaxStack
      BY FramesAre
    <3>2. Range(w) = {w[k] : k \in 1 .. Len(w)} /\ Len(w) \in Nat /\ MaxStack \in Nat
      BY <3>1, FramesAre DEF Range
    <3>3. o \in Range(w) <=> \E k \in 1 .. MaxStack : k <= Len(w) /\ w[k] = o
      BY <3>1, <3>2
    <3> QED BY <3>1, <3>3
  <2> QED BY <2>1, <2>2, <2>3
<1>8. c = 0 <=> (hand # o \/ task = "new")
  BY <1>3 DEF InHand
<1>9. d = IF rel = o THEN 1 ELSE 0
  BY <1>4 DEF Released
<1> QED BY <1>5, <1>6, <1>7, <1>8, <1>9 DEF Unheld

(* While the collector does not run the arg of a live object is alive.     *)
LEMMA NamedAlive ==
  ASSUME Inv, ~gc, frames # <<>>
  PROVE  Named \subseteq Alive /\ Alive \subseteq Obj /\ Top.locals \in Alive /\ Main \in Alive
<1>1. Closed(Alive, refs) /\ Alive \in SUBSET Obj
  BY DEF Inv, Types, Reached, Closed, Alive
<1>2. Top.locals \in Alive /\ Main \in Alive
  BY FramesAre DEF Inv, Types, LocalsOwned, Alive, Top
<1>3. refs \in [Obj -> [Name -> Obj \cup {None}]] /\ {Top.locals, Main} \in SUBSET Obj
  BY <1>1, <1>2 DEF Inv, Types, Ordinary
<1> QED BY <1>1, <1>2, <1>3, MarkedIs DEF Named

LEMMA RefsAre ==
  ASSUME Types
  PROVE  /\ refs \in [Obj -> [Name -> Obj \cup {None}]] /\ refs \in ArgsMap
         /\ root \in SUBSET Obj
  BY DEF Types, Ordinary, ArgsMap

(* What an empty list of dying objects means.                              *)
LEMMA NobodyDies ==
  ASSUME Types, dying = <<>>
  PROVE  Range(dying) = {} /\ Alive = chain /\ root \ Range(dying) = root
<1>1. Range(dying) = {}
  BY DEF Range
<1> QED BY <1>1 DEF Alive

-----------------------------------------------------------------------------
(* The steps of obj_GC and obj_deinit.                                     *)
LEMMA HoldersSame ==
  ASSUME UNCHANGED <<refs, frames, hand, task>>, NEW o
  PROVE  Holders(o)' = Holders(o)
BY DEF Holders, InHand

LEMMA TotalShift ==
  ASSUME Types, UNCHANGED <<refs, frames, hand, task>>, NEW o \in Obj
  PROVE  /\ Total(o) \in Nat
         /\ Total(o)' = Total(o) - (IF rel = o THEN 1 ELSE 0) + (IF rel' = o THEN 1 ELSE 0)
<1>1. PICK h \in Nat : h = Holders(o) /\ h = Holders(o)'
  BY HoldersSame, TotalZero
<1>2. Total(o) = h + (IF rel = o THEN 1 ELSE 0)
  BY <1>1, TotalZero
<1>3. Total(o)' = h + (IF rel' = o THEN 1 ELSE 0)
  BY <1>1 DEF Total, Released
<1> QED BY <1>1, <1>2, <1>3

LEMMA GCSkipKeeps ==
  ASSUME Inv, GCSkip
  PROVE  Inv'
<1>1. gc /\ rel \notin chain /\ rel \in Obj /\ rel' = None
  BY DEF Inv, Types, Reached, GCSkip, checkAlive, Alive, Ordinary
<1>2. UNCHANGED <<chain, root, returned, refcnt, refs, corrupt, MarkSweep, dying, gc, freeList,
                  objCntLastGC, frames, task, hand, slot>>
  BY DEF GCSkip, heap, sweep
<1>3. \A o \in Obj : o # rel => Total(o)' = Total(o)
  BY <1>1, <1>2, TotalShift, GCAssumption DEF Inv
<1>4. Types' /\ Prepared' /\ LocalsOwned' /\ Freed' /\ ~corrupt'
  BY <1>1, <1>2 DEF Inv, Types, Prepared, LocalsOwned, Freed, Top, Named
<1>5. Sound' = Sound /\ Alive' = Alive /\ Owned' = Owned
  BY <1>2 DEF Sound, Alive, Owned
<1>6. Reached'
  BY <1>1, <1>2, <1>5 DEF Inv, Reached
<1>7. Counts'
  <2>1. \A o \in Sound \cup Range(dying) : o \in chain /\ o \in Obj
    BY DEF Inv, Reached, Alive, Types, Freed, Range
  <2>2. task = "new" => hand \in chain /\ hand \in Obj
    BY <2>1, GCAssumption DEF Inv, Reached, Prepared
  <2>3. \A o \in (Sound \cup Range(dying)) : Total(o)' = Total(o)
    BY <1>1, <1>3, <2>1
  <2>4. task = "new" => Total(hand)' = Total(hand)
    BY <1>1, <1>2, <1>3, <2>2
  <2> QED BY <1>2, <1>5, <2>3, <2>4 DEF Inv, Counts
<1> QED BY <1>4, <1>6, <1>7 DEF Inv

(* An object that loses its last reference is not reached any more.        *)
LEMMA GCDecKeeps ==
  ASSUME Inv, FewHolders, GCDec
  PROVE  Inv'
<1>1. PICK v \in Ordinary : v = rel
  BY DEF Inv, Types, GCDec
<1>0. v \in Obj /\ rel' = None /\ v # None /\ v \in chain /\ (~gc => v \in Alive)
  <2>1. v \in Obj /\ rel' = None /\ v # None /\ (MarkSweep => v \in chain)
    BY <1>1, GCAssumption DEF GCDec, checkAlive, Ordinary
  <2>2. (gc => MarkSweep) /\ (~gc => v \in Alive)
    BY <1>1, <2>1 DEF Inv, Prepared, Reached
  <2> QED BY <2>1, <2>2 DEF Alive
<1>2. /\ UNCHANGED <<chain, root, returned, refs, MarkSweep, gc, freeList, objCntLastGC, frames,
                     task, hand, slot>>
      /\ refcnt' = [refcnt EXCEPT ![v] = Dec(v)]
      /\ dying' = IF Dec(v) = 0 THEN Append(dying, v) ELSE dying
      /\ corrupt' = (corrupt \/ v \notin chain \/ (Dec(v) = 0 /\ v \in Range(dying)))
  BY <1>1 DEF GCDec, sweep
<1>3. PICK t \in Nat : t = Total(v) /\ t < RefMod /\ t # 0
  BY <1>1, <1>0, TotalZero DEF Inv, FewHolders
<1>4. \A o \in Obj : o # v => Total(o)' = Total(o)
  BY <1>1, <1>0, <1>2, TotalShift, GCAssumption DEF Inv
<1>5. Total(v)' = t - 1
  BY <1>1, <1>0, <1>2, <1>3, TotalShift, GCAssumption DEF Inv
<1>6. task = "new" => hand # v /\ hand \in Alive /\ hand \in Obj
  BY <1>3, GCAssumption DEF Inv, Counts, Reached, Prepared, Alive, Types
<1>7. v \notin Owned /\ Owned' = Owned
  BY <1>1, <1>0, <1>2, <1>6 DEF Owned, Ordinary
<1>8. PICK c \in 0 .. RefMod - 1 : c = refcnt[v]
  BY <1>1, <1>0 DEF Inv, Types
<1>9. Dec(v) = (IF c = 0 THEN RefMod - 1 ELSE c - 1) /\ RefMod \in Nat \ {0, 1}
  <2>1. RefMod \in Nat \ {0, 1}
    BY GCAssumption
  <2>2. c = 0 => (c - 1) % RefMod = RefMod - 1
    BY <2>1
  <2>3. c # 0 => (c - 1) % RefMod = c - 1
    BY <2>1
  <2> QED BY <1>8, <2>1, <2>2, <2>3 DEF Dec
<1>10. v \in Range(dying) => Dec(v) # 0 /\ Dec(v) > t - 1
  BY <1>1, <1>0, <1>3, <1>8, <1>9 DEF Inv, Counts
<1>11. v \in Alive => Dec(v) = c - 1
  BY <1>7, <1>8, <1>9 DEF Inv, Counts
<1>12. v \in Sound => c = t
  BY <1>3, <1>7, <1>8 DEF Inv, Counts
<1>13. ~corrupt'
  BY <1>0, <1>2, <1>10 DEF Inv
<1>14. /\ refcnt'[v] = Dec(v) /\ \A o \in Obj : o # v => refcnt'[o] = refcnt[o]
       /\ refcnt' \in [Obj -> 0 .. RefMod - 1]
  <2>1. Dec(v) \in 0 .. RefMod - 1
    BY <1>8, <1>9
  <2> QED BY <1>1, <1>0, <1>2, <2>1 DEF Inv, Types
<1>15. CASE Dec(v) # 0
  <2>1. UNCHANGED dying /\ Alive' = Alive /\ Sound' = Sound
    BY <1>2, <1>15 DEF Alive, Sound
  <2>2. Types' /\ Prepared' /\ LocalsOwned' /\ Freed' /\ ~corrupt'
    BY <1>1, <1>0, <1>2, <1>13, <1>14, <2>1
    DEF Inv, Types, Prepared, LocalsOwned, Freed, Top, Named
  <2>3. Reached'
    BY <1>1, <1>0, <1>2, <2>1 DEF Inv, Reached
  <2>4. \A o \in Sound' \ Owned' : refcnt'[o] = Total(o)'
    <3>1. \A o \in Sound : o \in Obj
      BY DEF Inv, Types, Reached, Alive
    <3>2. v \in Sound => Dec(v) = t - 1
      BY <1>11, <1>12 DEF Inv, Reached
    <3> QED BY <1>4, <1>5, <1>7, <1>14, <2>1, <3>1, <3>2 DEF Inv, Counts
  <2>5. \A o \in Alive' \ Owned' : refcnt'[o] # 0
    BY <1>7, <1>14, <1>15, <2>1 DEF Inv, Counts, Alive, Types
  <2>6. \A o \in Range(dying)' \cap Ordinary : refcnt'[o] = 0 \/ refcnt'[o] > Total(o)'
    BY <1>4, <1>5, <1>10, <1>14, <2>1 DEF Inv, Counts, Ordinary
  <2>7. task' = "new" => hand' \in root' /\ Total(hand)' = 0
    BY <1>2, <1>4, <1>6 DEF Inv, Counts
  <2> QED BY <2>2, <2>3, <2>4, <2>5, <2>6, <2>7 DEF Inv, Counts
<1>16. CASE Dec(v) = 0
  <2>1. v \in Alive /\ c = 1
    BY <1>1, <1>0, <1>8, <1>9, <1>10, <1>16 DEF Alive
  <2>2. dying' = Append(dying, v) /\ dying \in Seq(Obj)
    BY <1>2, <1>16 DEF Inv, Types
  <2>3. Range(dying)' = Range(dying) \cup {v}
    <3>1. Len(dying') = Len(dying) + 1 /\ DOMAIN dying' = 1 .. Len(dying) + 1 /\ Len(dying) \in Nat
      BY <1>1, <1>0, <2>2
    <3>2. DOMAIN dying = 1 .. Len(dying) /\ dying'[Len(dying) + 1] = v
          /\ \A i \in 1 .. Len(dying) : dying'[i] = dying[i]
      BY <1>1, <1>0, <2>2
    <3> QED BY <3>1, <3>2 DEF Range
  <2>4. Alive' = Alive \ {v}
    BY <1>2, <2>3 DEF Alive
  <2>5. v \in Sound => t = 1
    BY <1>12, <2>1
  <2>6. /\ v \in Sound => Unheld(v)
        /\ ~gc => Unheld(v)
    <3>1. t = 1 => Unheld(v)
      <4>1. /\ Total(v) = Holders(v) + (IF rel = v THEN 1 ELSE 0) /\ Holders(v) \in Nat
            /\ Holders(v) = 0 <=> Unheld(v)
        BY <1>0, TotalZero DEF Inv
      <4> QED BY <1>1, <1>3, <4>1
    <3>2. ~gc => v \in Sound
      BY <2>1 DEF Sound
    <3> QED BY <2>5, <3>1, <3>2
  <2>7. Sound' \subseteq Sound \ {v}
    <3>1. CASE ~gc
      BY <1>2, <2>4, <3>1 DEF Sound
    <3>2. CASE gc
      <4>1. PICK s \in SUBSET Obj : s = root \ Range(dying)
        BY RefsAre DEF Inv
      <4>2. root' \ Range(dying)' = s \ {v} /\ refs' = refs
        BY <1>2, <2>3, <4>1
      <4>3. Sound = MarkedFrom(s, refs) /\ Sound' = MarkedFrom(s \ {v}, refs)
        BY <1>2, <3>2, <4>1, <4>2 DEF Sound
      <4>4. Sound' \subseteq Sound
        BY <4>1, <4>3, RefsAre, MarkedLess DEF Inv
      <4>5. v \in Sound => v \notin Sound'
        <5>1. v \in Sound => \A o \in Obj, f \in Name : refs[o][f] # v
          BY <2>6 DEF Unheld
        <5>2. v \in Obj \ (s \ {v}) /\ s \ {v} \in SUBSET Obj
          BY <1>1, <1>0, <4>1
        <5> QED BY <5>1, <5>2, <4>3, RefsAre, NotMarked DEF Inv
      <4> QED BY <4>4, <4>5
    <3> QED BY <3>1, <3>2
  <2>8. Types' /\ Prepared' /\ ~corrupt'
    BY <1>1, <1>0, <1>2, <1>13, <1>14, <2>2 DEF Inv, Types, Prepared, Top, Named
  <2>9. LocalsOwned'
    <3>1. \A i \in DOMAIN frames : frames[i].locals # v
      BY <1>1, <1>0, FramesAre DEF Inv, Ordinary
    <3>2. \A i \in DOMAIN frames' : frames'[i].locals \in root' \ Range(dying)'
      BY <1>2, <2>3, <3>1 DEF Inv, LocalsOwned
    <3> QED BY <1>2, <2>3, <3>2 DEF Inv, LocalsOwned
  <2>10. Freed'
    <3>1. Len(dying') = Len(dying) + 1 /\ Len(dying) \in Nat
          /\ DOMAIN dying' = 1 .. Len(dying) + 1 /\ DOMAIN dying = 1 .. Len(dying)
      BY <1>1, <1>0, <2>2
    <3>2. dying'[Len(dying) + 1] = v /\ \A i \in 1 .. Len(dying) : dying'[i] = dying[i]
      BY <1>1, <1>0, <2>2
    <3>3. \A i \in DOMAIN dying : dying[i] # v
      BY <2>1 DEF Alive, Range
    <3>4. \A i \in DOMAIN dying' : dying'[i] \in chain'
      BY <1>1, <1>0, <1>2, <3>1, <3>2 DEF Inv, Freed
    <3>5. \A i, j \in DOMAIN dying' : dying'[i] = dying'[j] => i = j
      BY <3>1, <3>2, <3>3 DEF Inv, Freed
    <3> QED BY <1>2, <3>4, <3>5 DEF Inv, Freed
  <2>11. hand' \in Sound' \cup {None}
    <3>1. CASE ~gc
      <4>1. task # "new" => hand # v
        BY <2>6, <3>1 DEF Unheld
      <4>2. hand # v
        BY <1>6, <4>1
      <4> QED BY <1>2, <2>4, <3>1, <4>2 DEF Inv, Reached, Sound
    <3>2. CASE gc /\ hand # None
      <4>1. task = "new" /\ hand # v /\ hand \in Alive /\ hand \in root
        BY <1>6, <3>2 DEF Inv, Prepared, Counts
      <4>2. root' \ Range(dying)' \in SUBSET Obj /\ hand \in root' \ Range(dying)'
        BY <1>2, <2>3, <4>1, RefsAre DEF Inv, Alive
      <4>3. Sound' = MarkedFrom(root' \ Range(dying)', refs)
        BY <1>2, <3>2 DEF Sound
      <4> QED BY <1>2, <4>2, <4>3, RefsAre, MarkedIs DEF Inv
    <3>3. CASE hand = None
      BY <1>2, <3>3
    <3> QED BY <3>1, <3>2, <3>3
  <2>12. Reached'
    <3>1. Sound' \subseteq Alive'
      BY <2>4, <2>7 DEF Inv, Reached
    <3>2. ~gc => \A o \in Obj, f \in Name : refs[o][f] # v
      BY <2>6 DEF Unheld
    <3>3. ~gc => \A i \in DOMAIN frames : v \notin Range(frames[i].stack)
      BY <2>6 DEF Unheld
    <3>4. ~gc' => \A o \in Obj, f \in Name : refs'[o][f] \in Alive' \cup {None}
      BY <1>2, <2>4, <3>2 DEF Inv, Reached
    <3>5. ~gc' => \A i \in DOMAIN frames' : Range(frames'[i].stack) \subseteq Alive'
      BY <1>1, <1>0, <1>2, <2>4, <3>3 DEF Inv, Reached
    <3>6. freeList' \cap Sound' = {}
      BY <1>2, <2>7 DEF Inv, Reached
    <3> QED BY <1>1, <1>0, <2>11, <3>1, <3>4, <3>5, <3>6 DEF Reached
  <2>13. Counts'
    <3>1. \A o \in Sound' \ Owned' : refcnt'[o] = Total(o)'
      <4>1. \A o \in Sound : o \in Obj
        BY DEF Inv, Types, Reached, Alive
      <4> QED BY <1>4, <1>7, <1>14, <2>7, <4>1 DEF Inv, Counts
    <3>2. \A o \in Alive' \ Owned' : refcnt'[o] # 0
      BY <1>7, <1>14, <2>4 DEF Inv, Counts, Alive, Types
    <3>3. \A o \in Range(dying)' \cap Ordinary : refcnt'[o] = 0 \/ refcnt'[o] > Total(o)'
      BY <1>4, <1>14, <1>16, <2>1, <2>3 DEF Inv, Counts, Ordinary
    <3>4. task' = "new" => hand' \in root' /\ Total(hand)' = 0
      BY <1>2, <1>4, <1>6 DEF Inv, Counts
    <3> QED BY <3>1, <3>2, <3>3, <3>4 DEF Counts
  <2> QED BY <2>8, <2>9, <2>10, <2>12, <2>13 DEF Inv
<1> QED BY <1>15, <1>16

(* An arg of a dying object is handed over to obj_GC.                      *)
LEMMA LastOf ==
  ASSUME NEW S, NEW w \in Seq(S), w # <<>>
  PROVE  /\ Last(w) \in Range(w) /\ Last(w) \in S /\ Last(w) = w[Len(w)] /\ Len(w) \in DOMAIN w
         /\ Range(w) = Range(Front(w)) \cup {Last(w)}
         /\ Range(Front(w)) \subseteq Range(w)
         /\ (\A i, j \in DOMAIN w : w[i] = w[j] => i = j) => Last(w) \notin Range(Front(w))
<1>1. PICK u \in Seq(S) : /\ u = Front(w) /\ Len(u) = Len(w) - 1 /\ Len(w) \in Nat \ {0}
                          /\ \A i \in 1 .. Len(w) - 1 : u[i] = w[i]
  BY FrontIs
<1>2. Last(w) = w[Len(w)] /\ Last(w) \in S
  BY FrontIs
<1>3. DOMAIN w = 1 .. Len(w) /\ DOMAIN u = 1 .. Len(w) - 1
  BY <1>1
<1>4. Range(w) = {w[i] : i \in 1 .. Len(w)} /\ Range(u) = {w[i] : i \in 1 .. Len(w) - 1}
  BY <1>1, <1>3 DEF Range
<1>5. Range(w) = Range(u) \cup {w[Len(w)]}
  BY <1>1, <1>4
<1>6. (\A i, j \in DOMAIN w : w[i] = w[j] => i = j) => w[Len(w)] \notin Range(u)
  BY <1>1, <1>3, <1>4
<1> QED BY <1>1, <1>2, <1>3, <1>5, <1>6

(* An arg is taken away, and what it held is released.                     *)
LEMMA TotalTaken ==
  ASSUME Types, NEW n \in Obj, NEW f \in Name, rel = None,
         refs' = [refs EXCEPT ![n][f] = None], rel' = refs[n][f],
         UNCHANGED <<frames, hand, task>>, NEW o \in Obj
  PROVE  Total(o)' = Total(o)
<1>1. PICK v \in Obj \cup {None} : v = refs[n][f]
  BY RefsAre
<1>2. PICK q : q = refs'
  OBVIOUS
<1>3. Cardinality(ArgHolders(refs, o)) =
        Cardinality(ArgHolders(q, o)) + (IF o = v THEN 1 ELSE 0)
  <2>1. OtherArg(refs, q, n, f, None)
    BY <1>2, RefsAre, ArgOther
  <2>2. Cardinality(ArgHolders(refs, o)) =
          Cardinality(ArgHolders(q, o)) + (IF o = refs[n][f] THEN 1 ELSE 0)
    BY <2>1, ArgClear
  <2> QED BY <1>1, <2>2
<1>4. PICK c \in Nat : c = Cardinality(ArgHolders(q, o))
  BY ArgHoldersFinite
<1>5. PICK h \in Nat : h = Cardinality(StackHolders(frames, o)) + InHand(o)
  BY StackHoldersFinite, FramesAre DEF InHand
<1>6. PICK k \in Nat : k = Cardinality(StackHolders(frames, o))
  BY StackHoldersFinite, FramesAre
<1>7. InHand(o)' = InHand(o) /\ InHand(o) \in Nat
  BY DEF InHand
<1>8. Total(o) = c + (IF o = v THEN 1 ELSE 0) + k + InHand(o)
  BY <1>3, <1>4, <1>6, <1>7, GCAssumption DEF Total, Holders, Released
<1>9. Total(o)' = c + k + InHand(o) + (IF o = v THEN 1 ELSE 0)
  BY <1>1, <1>2, <1>4, <1>6, <1>7 DEF Total, Holders, Released
<1> QED BY <1>4, <1>6, <1>7, <1>8, <1>9

LEMMA DeinitArgKeeps ==
  ASSUME Inv, NEW f \in Name, DeinitArg(f)
  PROVE  Inv'
<1>1. PICK d \in Obj : d = Dying /\ d \in Range(dying) /\ d \notin Alive
  <2>1. dying \in Seq(Obj) /\ dying # <<>>
    BY DEF Inv, Types, DeinitArg, Freeing
  <2> QED BY <2>1, LastOf DEF Alive, Dying
<1>2. /\ UNCHANGED <<MarkSweep, chain, refcnt, root, corrupt, returned, dying, gc, freeList,
                     objCntLastGC, frames, task, hand, slot>>
      /\ refs' = [refs EXCEPT ![d][f] = None] /\ rel' = refs[d][f] /\ refs[d][f] # None
      /\ rel = None
  BY <1>1 DEF DeinitArg, Freeing, sweep
<1>3. \A o \in Obj : Total(o)' = Total(o)
  BY <1>1, <1>2, TotalTaken DEF Inv
<1>4. /\ refs' \in [Obj -> [Name -> Ordinary \cup {None}]]
      /\ refs' \in [Obj -> [Name -> Obj \cup {None}]]
      /\ \A o \in Obj, g \in Name : refs'[o][g] \in {refs[o][g], None}
      /\ \A o \in Obj \ {d} : refs'[o] = refs[o]
      /\ rel' \in Ordinary /\ rel' \in Obj
  BY <1>1, <1>2 DEF Inv, Types, Ordinary
<1>5. Alive' = Alive /\ Owned' = Owned
  BY <1>2 DEF Alive, Owned
<1>6. Sound' \subseteq Sound
  <2>1. gc => MarkedFrom(root \ Range(dying), refs') \subseteq MarkedFrom(root \ Range(dying), refs)
    BY <1>4, RefsAre, MarkedLess DEF Inv
  <2> QED BY <1>2, <1>5, <2>1 DEF Sound
<1>7. Types' /\ LocalsOwned' /\ Freed' /\ ~corrupt'
  BY <1>2, <1>4 DEF Inv, Types, LocalsOwned, Freed
<1>8. Prepared'
  <2>1. ASSUME task = "store" PROVE slot[1] \in Named'
    <3>1. ~gc /\ frames # <<>> /\ slot[1] \in Named
      BY <2>1 DEF Inv, Prepared
    <3>2. PICK s \in SUBSET Obj : s = {Top.locals, Main}
      BY <3>1, NamedAlive DEF Alive
    <3>3. PICK n \in MarkedFrom(s, refs) : n = slot[1]
      BY <3>1, <3>2 DEF Named
    <3>4. d \notin MarkedFrom(s, refs)
      BY <1>1, <3>1, <3>2, NamedAlive DEF Named
    <3>5. n \in MarkedFrom(s, refs')
      BY <1>1, <1>4, <3>4, RefsAre, MarkedSame DEF Inv
    <3>6. Named' = MarkedFrom(s, refs')
      BY <1>2, <3>2 DEF Named, Top
    <3> QED BY <3>3, <3>5, <3>6
  <2>2. task = "store" => refs'[slot[1]][slot[2]] = None
    BY <1>4 DEF Inv, Prepared
  <2>3. task = "args" => \A g \in Name : refs'[Top.locals][g] = None
    <3>1. task = "args" => Top.locals \in Obj
      BY FramesAre DEF Inv, Top, Prepared
    <3> QED BY <1>4, <3>1 DEF Inv, Prepared
  <2> QED BY <1>2, <2>1, <2>2, <2>3 DEF Inv, Prepared, Top
<1>9. hand' \in Sound' \cup {None}
  <2>1. CASE ~gc
    <3>1. Sound = Alive /\ Sound' = Alive
      BY <1>2, <1>5, <2>1 DEF Sound
    <3> QED BY <1>2, <3>1 DEF Inv, Reached
  <2>2. CASE gc /\ hand # None
    <3>1. hand \in root \ Range(dying)
      BY <2>2 DEF Inv, Prepared, Reached, Counts, Alive
    <3>2. Sound' = MarkedFrom(root \ Range(dying), refs')
      BY <1>2, <2>2 DEF Sound
    <3>3. PICK m \in SUBSET Obj : m = root \ Range(dying)
      BY RefsAre DEF Inv
    <3>4. m \subseteq MarkedFrom(m, refs')
      BY <1>4, MarkedIs
    <3> QED BY <1>2, <3>1, <3>2, <3>3, <3>4
  <2>3. CASE hand = None
    BY <1>2, <2>3
  <2> QED BY <2>1, <2>2, <2>3
<1>10. Reached'
  <2>1. ~gc => rel' \in Alive
    BY <1>1, <1>2 DEF Inv, Reached
  <2>2. ~gc => \A o \in Obj, g \in Name : refs'[o][g] \in Alive \cup {None}
    BY <1>4 DEF Inv, Reached
  <2>3. dying # <<>>
    BY DEF DeinitArg, Freeing
  <2>4. ~gc => \A i \in DOMAIN frames : Range(frames[i].stack) \subseteq Alive
    BY <2>3 DEF Inv, Reached
  <2>5. Sound' \subseteq Alive' /\ freeList' \cap Sound' = {}
    BY <1>2, <1>5, <1>6 DEF Inv, Reached
  <2> QED BY <1>2, <1>5, <1>9, <2>1, <2>2, <2>4, <2>5 DEF Reached
<1>11. Counts'
  <2>1. \A o \in Sound : o \in Obj
    BY DEF Inv, Types, Reached, Alive
  <2>2. task = "new" => hand \in Obj
    BY <2>1 DEF Inv, Reached, Prepared
  <2>3. \A o \in Sound' \ Owned' : refcnt'[o] = Total(o)'
    BY <1>2, <1>3, <1>5, <1>6, <2>1 DEF Inv, Counts
  <2>4. \A o \in Range(dying)' \cap Ordinary : refcnt'[o] = 0 \/ refcnt'[o] > Total(o)'
    BY <1>2, <1>3 DEF Inv, Counts, Ordinary
  <2> QED BY <1>2, <1>3, <1>5, <2>2, <2>3, <2>4 DEF Inv, Counts
<1> QED BY <1>7, <1>8, <1>10, <1>11 DEF Inv

LEMMA DeinitEndKeeps ==
  ASSUME Inv, DeinitEnd
  PROVE  Inv'
<1>1. PICK d \in Obj : d = Dying /\ d \in Range(dying) /\ d \notin Alive /\ d \in chain
  <2>1. dying \in Seq(Obj) /\ dying # <<>>
    BY DEF Inv, Types, DeinitEnd, Freeing
  <2> QED BY <2>1, LastOf DEF Inv, Freed, Alive, Dying
<1>2. /\ UNCHANGED <<MarkSweep, refs, corrupt, rel, gc, freeList, objCntLastGC, frames, task,
                     hand, slot>>
      /\ chain' = chain \ {d} /\ root' = root \ {d} /\ returned' = returned \ {d}
      /\ refcnt' = [refcnt EXCEPT ![d] = 0]
      /\ dying' = Front(dying) /\ \A f \in Name : refs[d][f] = None
      /\ dying # <<>> /\ dying \in Seq(Obj)
  BY <1>1 DEF DeinitEnd, Freeing, sweep, NoRefs, Inv, Types
<1>3. \A o \in Obj : Total(o)' = Total(o)
  BY <1>2, TotalShift DEF Inv
<1>4. /\ dying' \in Seq(Obj) /\ Range(dying) = Range(dying)' \cup {d} /\ d \notin Range(dying)'
  <2>1. Last(dying) = d
    BY <1>1 DEF Dying
  <2> QED BY <1>2, <2>1, LastOf, FrontIs DEF Inv, Freed
<1>5. Alive' = Alive /\ root' \ Range(dying)' = root \ Range(dying)
  BY <1>2, <1>4 DEF Alive
<1>6. Sound' = Sound /\ Owned' = Owned
  BY <1>2, <1>5 DEF Sound, Owned
<1>7. Types' /\ Prepared' /\ ~corrupt'
  <2>1. refcnt' \in [Obj -> 0 .. RefMod - 1]
    BY <1>2, GCAssumption DEF Inv, Types
  <2>2. root' \in SUBSET chain' /\ returned' \in SUBSET root' /\ chain' \in SUBSET Obj
    BY <1>2 DEF Inv, Types
  <2> QED BY <1>2, <1>4, <2>1, <2>2 DEF Inv, Types, Prepared, Top, Named
<1>8. LocalsOwned'
  <2>1. \A o \in chain' \cap (Local \cup {Main}) :
          o \in Range(dying)' \/ \E i \in DOMAIN frames : frames[i].locals = o
    BY <1>2, <1>4 DEF Inv, LocalsOwned
  <2> QED BY <1>2, <1>5, <2>1 DEF Inv, LocalsOwned
<1>9. Freed'
  <2>1. Len(dying') = Len(dying) - 1 /\ Len(dying) \in Nat /\ DOMAIN dying' = 1 .. Len(dying) - 1
        /\ DOMAIN dying = 1 .. Len(dying) /\ \A i \in 1 .. Len(dying) - 1 : dying'[i] = dying[i]
    BY <1>2, <1>4, FrontIs
  <2>2. \A i \in DOMAIN dying' : dying'[i] \in Range(dying)'
    BY DEF Range
  <2>3. \A i \in DOMAIN dying' : dying'[i] \in chain'
    BY <1>2, <1>4, <2>1, <2>2 DEF Inv, Freed
  <2>4. \A o \in Obj \ chain', f \in Name : refs'[o][f] = None
    BY <1>2 DEF Inv, Freed
  <2>5. \A i, j \in DOMAIN dying' : dying'[i] = dying'[j] => i = j
    BY <2>1 DEF Inv, Freed
  <2> QED BY <2>3, <2>4, <2>5 DEF Freed
<1>10. Reached'
  BY <1>2, <1>5, <1>6 DEF Inv, Reached
<1>11. Counts'
  <2>1. d \notin Sound /\ \A o \in Sound \cup Alive : o \in Obj /\ refcnt'[o] = refcnt[o]
    BY <1>1, <1>2 DEF Inv, Reached, Alive, Types
  <2>2. \A o \in Range(dying)' \cap Ordinary : refcnt'[o] = refcnt[o] /\ o \in Range(dying)
    BY <1>2, <1>4 DEF Inv, Types, Ordinary
  <2>3. task = "new" => hand \in root' /\ hand \in Obj
    <3>1. task = "new" => hand \in Alive
      BY GCAssumption DEF Inv, Reached, Prepared
    <3> QED BY <1>1, <1>2, <3>1 DEF Inv, Counts, Alive, Types
  <2>4. \A o \in Sound' \ Owned' : refcnt'[o] = Total(o)'
    BY <1>3, <1>6, <2>1 DEF Inv, Counts
  <2>5. \A o \in Range(dying)' \cap Ordinary : refcnt'[o] = 0 \/ refcnt'[o] > Total(o)'
    BY <1>3, <2>2 DEF Inv, Counts, Ordinary
  <2>6. task' = "new" => hand' \in root' /\ Total(hand)' = 0
    BY <1>2, <1>3, <2>3 DEF Inv, Counts
  <2>7. \A o \in Alive' \ Owned' : refcnt'[o] # 0
    BY <1>5, <1>6, <2>1 DEF Inv, Counts
  <2> QED BY <2>4, <2>5, <2>6, <2>7 DEF Counts
<1> QED BY <1>7, <1>8, <1>9, <1>10, <1>11 DEF Inv

-----------------------------------------------------------------------------
(* The passes of the collector.                                            *)
LEMMA UnmarkedIs ==
  ASSUME Inv, gc, dying = <<>>
  PROVE  /\ Unmarked = chain \ Sound /\ Unmarked \subseteq Ordinary /\ Alive = chain
         /\ Sound = MarkedFrom(root, refs) /\ Sound \subseteq Obj
<1>1. Alive = chain /\ root \ Range(dying) = root /\ root \cap chain = root
  BY NobodyDies DEF Inv, Types
<1>2. Sound = MarkedFrom(root, refs) /\ Unmarked = chain \ Sound
  BY <1>1 DEF Sound, Unmarked
<1>3. root \subseteq Sound /\ Sound \subseteq Obj
  BY <1>2, RefsAre, MarkedIs DEF Inv
<1>4. chain \cap (Local \cup {Main}) \subseteq root
  BY NobodyDies DEF Inv, LocalsOwned
<1> QED BY <1>1, <1>2, <1>3, <1>4 DEF Ordinary, Inv, Types

LEMMA MarkSweepOnceKeeps ==
  ASSUME Inv, NEW s \in SUBSET Unmarked, MarkSweepOnce(s)
  PROVE  Inv'
<1>1. /\ UNCHANGED <<MarkSweep, chain, refcnt, root, refs, corrupt, returned, rel, dying, gc,
                     objCntLastGC, frames, task, hand, slot>>
      /\ gc /\ dying = <<>> /\ freeList' = s
  BY DEF MarkSweepOnce, Sweeping, heap, release
<1>2. s \subseteq Ordinary /\ s \cap Sound = {}
  BY <1>1, UnmarkedIs
<1>3. Sound' = Sound /\ Alive' = Alive /\ Owned' = Owned
  BY <1>1 DEF Sound, Alive, Owned
<1>4. \A o \in Obj : Total(o)' = Total(o)
  BY <1>1, TotalShift DEF Inv
<1>5. Types' /\ Prepared' /\ LocalsOwned' /\ Freed' /\ ~corrupt'
  BY <1>1, <1>2 DEF Inv, Types, Prepared, LocalsOwned, Freed, Top, Named
<1>6. Reached'
  BY <1>1, <1>2, <1>3 DEF Inv, Reached
<1>7. Counts'
  <2>1. \A o \in Sound : o \in Obj
    BY DEF Inv, Types, Reached, Alive
  <2>2. task = "new" => hand \in Obj
    BY <2>1 DEF Inv, Reached, Prepared
  <2> QED BY <1>1, <1>3, <1>4, <2>1, <2>2 DEF Inv, Counts, Ordinary
<1> QED BY <1>5, <1>6, <1>7 DEF Inv

LEMMA SweepNextKeeps ==
  ASSUME Inv, SweepNext
  PROVE  Inv'
<1>1. PICK v \in Ordinary : v \in freeList /\ rel' = v /\ freeList' = freeList \ {v}
  BY DEF SweepNext, Inv, Types
<1>2. /\ UNCHANGED <<MarkSweep, chain, refcnt, root, refs, corrupt, returned, dying, gc,
                     objCntLastGC, frames, task, hand, slot>>
      /\ gc /\ dying = <<>> /\ rel = None
  BY DEF SweepNext, Sweeping, heap
<1>3. Sound' = Sound /\ Alive' = Alive /\ Owned' = Owned /\ v \notin Sound
  BY <1>1, <1>2 DEF Sound, Alive, Owned, Inv, Reached
<1>4. \A o \in Obj : o # v => Total(o)' = Total(o)
  BY <1>1, <1>2, TotalShift, GCAssumption DEF Inv
<1>5. Types' /\ Prepared' /\ LocalsOwned' /\ Freed' /\ ~corrupt'
  BY <1>1, <1>2 DEF Inv, Types, Prepared, LocalsOwned, Freed, Top, Named
<1>6. Reached'
  BY <1>1, <1>2, <1>3 DEF Inv, Reached
<1>7. Counts'
  <2>1. \A o \in Sound : o \in Obj /\ o # v
    BY <1>3 DEF Inv, Types, Reached, Alive
  <2>2. task = "new" => hand \in Obj /\ hand # v
    BY <2>1 DEF Inv, Reached, Prepared
  <2>3. Range(dying)' = {}
    BY <1>2, NobodyDies DEF Inv
  <2> QED BY <1>2, <1>3, <1>4, <2>1, <2>2, <2>3 DEF Inv, Counts
<1> QED BY <1>5, <1>6, <1>7 DEF Inv

LEMMA MarkSweepEndKeeps ==
  ASSUME Inv, MarkSweepEnd
  PROVE  Inv'
<1>1. /\ UNCHANGED <<MarkSweep, chain, refcnt, root, refs, corrupt, returned, rel, dying, freeList,
                     frames, task, hand, slot>>
      /\ gc /\ dying = <<>> /\ rel = None /\ freeList = {} /\ Unmarked = {} /\ gc' = FALSE
      /\ MarkSweep
  BY DEF MarkSweepEnd, NothingFound, Sweeping, heap, release, Inv, Prepared
<1>2. Alive = chain /\ Sound = chain
  BY <1>1, UnmarkedIs DEF Inv, Reached
<1>3. Sound' = Sound /\ Alive' = Alive /\ Owned' = Owned
  BY <1>1, <1>2 DEF Sound, Alive, Owned
<1>4. \A o \in Obj : Total(o)' = Total(o)
  BY <1>1, TotalShift DEF Inv
<1>5. Types' /\ Prepared' /\ LocalsOwned' /\ Freed' /\ ~corrupt'
  <2>1. Types'
    BY <1>1 DEF Inv, Types
  <2>2. Prepared'
    BY <1>1 DEF Inv, Prepared, Top, Named
  <2> QED BY <1>1, <2>1, <2>2 DEF Inv, LocalsOwned, Freed
<1>6. Reached'
  <2>1. Closed(chain, refs)
    BY <1>1, <1>2, UnmarkedIs, RefsAre, MarkedIs DEF Inv
  <2>2. \A o \in Obj, f \in Name : refs[o][f] \in chain \cup {None}
    BY <2>1 DEF Closed, Inv, Freed
  <2> QED BY <1>1, <1>2, <1>3, <2>2 DEF Inv, Reached
<1>7. Counts'
  <2>1. \A o \in Sound : o \in Obj
    BY DEF Inv, Types, Reached, Alive
  <2>2. task = "new" => hand \in Obj
    BY <2>1 DEF Inv, Reached, Prepared
  <2> QED BY <1>1, <1>3, <1>4, <2>1, <2>2 DEF Inv, Counts, Ordinary
<1> QED BY <1>5, <1>6, <1>7 DEF Inv

(* A collection may begin: what the roots reach is alive.                  *)
LEMMA RootsReach ==
  ASSUME NEW c \in SUBSET Obj, NEW s \in SUBSET c, NEW r \in [Obj -> [Name -> Obj \cup {None}]],
         \A o \in c, f \in Name : r[o][f] \in c \cup {None}
  PROVE  MarkedFrom(s, r) \subseteq c
<1>1. Closed(c, r)
  BY DEF Closed
<1> QED BY <1>1, MarkedIs

LEMMA ExitKeeps ==
  ASSUME Inv, Exit
  PROVE  Inv'
<1>1. /\ UNCHANGED <<MarkSweep, chain, refcnt, root, refs, corrupt, returned, rel, dying, freeList,
                     objCntLastGC, frames, hand, slot>>
      /\ ~gc /\ dying = <<>> /\ rel = None /\ task = "exit" /\ task' = "run" /\ gc' = MarkSweep
      /\ frames = <<>> /\ hand = None
  BY DEF Exit, Doing, Quiet, heap, release, Inv, Prepared
<1>2. Alive = chain /\ Sound = chain /\ root \ Range(dying) = root
  BY <1>1, NobodyDies DEF Inv, Sound
<1>3. Alive' = Alive /\ Owned' = Owned
  BY <1>1 DEF Alive, Owned
<1>4. Sound' \subseteq Sound
  <2>1. Sound' = IF gc' THEN MarkedFrom(root, refs) ELSE chain
    BY <1>1, <1>2, <1>3 DEF Sound
  <2>2. MarkedFrom(root, refs) \subseteq chain
    BY <1>1, <1>2, RefsAre, RootsReach DEF Inv, Reached, Types
  <2> QED BY <1>2, <2>1, <2>2
<1>5. \A o \in Obj : Total(o)' = Total(o)
  <2>1. \A o \in Obj : Holders(o)' = Holders(o)
    BY <1>1 DEF Holders, InHand
  <2> QED BY <1>1, <2>1 DEF Total, Released
<1>6. Types' /\ Prepared' /\ LocalsOwned' /\ Freed' /\ ~corrupt'
  BY <1>1 DEF Inv, Types, Prepared, LocalsOwned, Freed, Tasks
<1>7. Reached'
  BY <1>1, <1>2, <1>3, <1>4 DEF Inv, Reached, Prepared
<1>8. Counts'
  <2>1. \A o \in Sound : o \in Obj
    BY DEF Inv, Types, Reached, Alive
  <2> QED BY <1>1, <1>3, <1>4, <1>5, <2>1 DEF Inv, Counts, Ordinary
<1> QED BY <1>6, <1>7, <1>8 DEF Inv

LEMMA NewEndKeeps ==
  ASSUME Inv, NewEnd
  PROVE  Inv'
<1>1. /\ UNCHANGED <<MarkSweep, chain, root, refs, corrupt, returned, rel, dying, freeList, gc,
                     objCntLastGC, frames, hand, slot>>
      /\ ~gc /\ dying = <<>> /\ rel = None /\ task = "new" /\ task' = "push"
      /\ refcnt' = [refcnt EXCEPT ![hand] = 1]
  BY DEF NewEnd, Doing, Quiet, release, sweep
<1>2. PICK v \in Obj : v = hand /\ v \in Alive
  BY <1>1 DEF Inv, Reached, Prepared, Sound, Alive, Types
<1>3. Alive' = Alive /\ Sound = Alive /\ Sound' = Alive /\ Owned' = Local \cup {Main}
      /\ Owned = Local \cup {Main, v}
  BY <1>1, <1>2 DEF Alive, Sound, Owned
<1>4. \A o \in Obj : Total(o)' = Total(o) + (IF o = v THEN 1 ELSE 0)
  <2> SUFFICES ASSUME NEW o \in Obj PROVE Total(o)' = Total(o) + (IF o = v THEN 1 ELSE 0)
    OBVIOUS
  <2>1. PICK a \in Nat : a = Cardinality(ArgHolders(refs, o))
    BY ArgHoldersFinite
  <2>2. PICK b \in Nat : b = Cardinality(StackHolders(frames, o))
    BY StackHoldersFinite, FramesAre DEF Inv
  <2>3. Total(o) = a + b
    BY <1>1, <2>1, <2>2, GCAssumption DEF Total, Holders, InHand, Released
  <2>4. Total(o)' = a + b + (IF o = v THEN 1 ELSE 0)
    BY <1>1, <1>2, <2>1, <2>2, GCAssumption DEF Total, Holders, InHand, Released
  <2> QED BY <2>3, <2>4
<1>5. Total(v) = 0 /\ refcnt'[v] = 1 /\ \A o \in Obj : o # v => refcnt'[o] = refcnt[o]
  BY <1>1, <1>2 DEF Inv, Counts, Types
<1>6. Types' /\ Prepared' /\ LocalsOwned' /\ Freed' /\ ~corrupt'
  <2>1. refcnt' \in [Obj -> 0 .. RefMod - 1]
    <3>1. 1 \in 0 .. RefMod - 1
      BY GCAssumption
    <3> QED BY <1>1, <3>1 DEF Inv, Types
  <2> QED BY <1>1, <2>1 DEF Inv, Types, Prepared, LocalsOwned, Freed, Tasks, Top
<1>7. Reached'
  BY <1>1, <1>3 DEF Inv, Reached
<1>8. Counts'
  <2>1. Range(dying)' = {}
    BY <1>1, NobodyDies DEF Inv
  <2>2. \A o \in Alive : o \in Obj /\ Total(o) \in Nat
    BY TotalZero DEF Inv, Types, Alive
  <2> QED BY <1>1, <1>2, <1>3, <1>4, <1>5, <2>1, <2>2 DEF Inv, Counts
<1> QED BY <1>6, <1>7, <1>8 DEF Inv

-----------------------------------------------------------------------------
(* The steps of the program, which it takes when nothing is being released.*)
LEMMA Calm ==
  ASSUME Inv, Quiet, StackAlive
  PROVE  /\ rel = None /\ dying = <<>> /\ ~gc /\ freeList = {} /\ Range(dying) = {}
         /\ Alive = chain /\ Sound = chain /\ chain \subseteq Obj
         /\ \A o \in Obj, f \in Name : refs[o][f] \in chain \cup {None}
         /\ hand \in chain \cup {None} /\ ~corrupt
         /\ \A i \in DOMAIN frames : Range(frames[i].stack) \subseteq chain
         /\ \A o \in chain \ Owned : refcnt[o] = Total(o) /\ refcnt[o] # 0
<1>1. rel = None /\ dying = <<>> /\ ~gc
  BY DEF Quiet
<1>2. Range(dying) = {} /\ Alive = chain /\ Sound = chain
  BY <1>1, NobodyDies DEF Inv, Sound
<1> QED BY <1>1, <1>2 DEF Inv, Types, Prepared, Reached, Counts, StackAlive

LEMMA StillCalm ==
  ASSUME Types', Prepared', LocalsOwned', ~gc', dying' = <<>>, freeList' = {}, ~corrupt',
         \A o \in Obj \ chain', f \in Name : refs'[o][f] = None,
         \A o \in Obj, f \in Name : refs'[o][f] \in chain' \cup {None},
         rel' \in chain' \cup {None}, hand' \in chain' \cup {None},
         \A i \in DOMAIN frames' : Range(frames'[i].stack) \subseteq chain',
         task' # "new",
         \A o \in chain' \ (Local \cup {Main}) : refcnt'[o] = Total(o)' /\ refcnt'[o] # 0
  PROVE  Inv'
<1>1. Range(dying)' = {}
  BY DEF Range
<1>2. Alive' = chain' /\ Sound' = chain' /\ Owned' = Local \cup {Main}
  BY <1>1 DEF Alive, Sound, Owned
<1>3. Freed'
  BY DEF Freed
<1>4. Counts'
  BY <1>1, <1>2 DEF Counts
<1>5. Reached'
  BY <1>2 DEF Reached
<1> QED BY <1>3, <1>4, <1>5 DEF Inv

(* What an object's count is made of.                                      *)
LEMMA TotalIs ==
  ASSUME Types, NEW o \in Obj
  PROVE  /\ Cardinality(ArgHolders(refs, o)) \in Nat
         /\ Cardinality(StackHolders(frames, o)) \in Nat
         /\ Total(o) \in Nat
         /\ Total(o) = Cardinality(ArgHolders(refs, o)) + Cardinality(StackHolders(frames, o))
                       + (IF hand = o /\ task # "new" THEN 1 ELSE 0) + (IF rel = o THEN 1 ELSE 0)
         /\ \A s \in Seq(Frame) : (\A i \in DOMAIN s : Len(s[i].stack) <= MaxStack) =>
              Cardinality(StackHolders(s, o)) \in Nat
         /\ Cardinality(ArgHolders(refs', o)) \in Nat
         /\ Total(o)' = Cardinality(ArgHolders(refs', o)) + Cardinality(StackHolders(frames', o))
                        + (IF hand' = o /\ task' # "new" THEN 1 ELSE 0)
                        + (IF rel' = o THEN 1 ELSE 0)
<1>1. /\ Cardinality(ArgHolders(refs, o)) \in Nat /\ Cardinality(ArgHolders(refs', o)) \in Nat
      /\ Cardinality(StackHolders(frames, o)) \in Nat
  BY ArgHoldersFinite, StackHoldersFinite, FramesAre
<1>2. \A s \in Seq(Frame) : (\A i \in DOMAIN s : Len(s[i].stack) <= MaxStack) =>
        Cardinality(StackHolders(s, o)) \in Nat
  BY FramesCount
<1>3. Total(o) = Cardinality(ArgHolders(refs, o)) + Cardinality(StackHolders(frames, o))
                 + (IF hand = o /\ task # "new" THEN 1 ELSE 0) + (IF rel = o THEN 1 ELSE 0)
  BY DEF Total, Holders, InHand, Released
<1>4. Total(o)' = Cardinality(ArgHolders(refs', o)) + Cardinality(StackHolders(frames', o))
                  + (IF hand' = o /\ task' # "new" THEN 1 ELSE 0) + (IF rel' = o THEN 1 ELSE 0)
  BY DEF Total, Holders, InHand, Released
<1> QED BY <1>1, <1>2, <1>3, <1>4, TotalZero

Pushed(v) ==
  /\ frames' \in Seq(Frame) /\ DOMAIN frames' = DOMAIN frames /\ Len(frames') = Len(frames)
  /\ \A i \in DOMAIN frames :
       /\ Len(frames'[i].stack) <= MaxStack /\ frames'[i].locals = frames[i].locals
       /\ Range(frames'[i].stack) \subseteq Range(frames[i].stack) \cup {v}
  /\ \A o \in Obj : Cardinality(StackHolders(frames', o)) =
       Cardinality(StackHolders(frames, o)) + (IF o = v THEN 1 ELSE 0)

LEMMA PushFrames ==
  ASSUME Types, frames # <<>>, NEW v \in Ordinary, Len(Top.stack) < MaxStack,
         frames' = SetStack(Append(Top.stack, v))
  PROVE  Pushed(v)
<1>1. PICK i \in DOMAIN frames : i = Len(frames)
  BY FramesAre
<1>2. PICK u \in Seq(Ordinary) : u = frames[i].stack /\ u = Top.stack /\ Len(u) < MaxStack
  BY <1>1, FramesAre DEF Top
<1>3. PICK w \in Seq(Ordinary) : w = Append(u, v) /\ Len(w) <= MaxStack /\ Len(w) = Len(u) + 1
  <2>1. Append(u, v) \in Seq(Ordinary) /\ Len(Append(u, v)) = Len(u) + 1 /\ Len(u) \in Nat
    BY <1>2
  <2>2. MaxStack \in Nat
    BY FramesAre
  <2>3. Len(Append(u, v)) <= MaxStack
    BY <1>2, <2>1, <2>2
  <2> QED BY <2>1, <2>3
<1>4. frames' = [frames EXCEPT ![i].stack = w]
  BY <1>1, <1>2, <1>3 DEF SetStack
<1>5. /\ Other(frames, frames', i, w) /\ frames' \in Seq(Frame)
      /\ DOMAIN frames' = DOMAIN frames /\ Len(frames') = Len(frames)
      /\ \A j \in DOMAIN frames' : Len(frames'[j].stack) <= MaxStack
                                   /\ frames'[j].locals = frames[j].locals
  <2>1. Restacked(frames', i, w)
    BY <1>3, <1>4, FramesSet, Zenon
  <2> QED BY <2>1 DEF Restacked
<1>6. v \in Obj /\ Other(frames, frames', i, Append(frames[i].stack, v))
      /\ Len(frames[i].stack) < MaxStack
  BY <1>2, <1>3, <1>5 DEF Ordinary
<1>7. \A o \in Obj : Cardinality(StackHolders(frames', o)) =
        Cardinality(StackHolders(frames, o)) + (IF o = v THEN 1 ELSE 0)
  BY <1>6, StackPush
<1>8. ASSUME NEW j \in DOMAIN frames
      PROVE  Range(frames'[j].stack) \subseteq Range(frames[j].stack) \cup {v}
  <2>1. CASE j # i
    BY <1>5, <2>1 DEF Other
  <2>2. CASE j = i
    <3>1. frames'[j].stack = w /\ frames[j].stack = u
      BY <1>2, <1>5, <2>2 DEF Other
    <3>2. Range(w) \subseteq Range(u) \cup {v}
      BY <1>2, <1>3 DEF Range
    <3> QED BY <3>1, <3>2
  <2> QED BY <2>1, <2>2
<1> QED BY <1>5, <1>7, <1>8 DEF Pushed

Popped(i) ==
  /\ frames' \in Seq(Frame) /\ DOMAIN frames' = DOMAIN frames /\ Len(frames') = Len(frames)
  /\ Last(frames[i].stack) \in Ordinary /\ Last(frames[i].stack) \in Range(frames[i].stack)
  /\ Len(frames'[i].stack) < MaxStack
  /\ \A j \in DOMAIN frames :
       /\ Len(frames'[j].stack) <= MaxStack /\ frames'[j].locals = frames[j].locals
       /\ Range(frames'[j].stack) \subseteq Range(frames[j].stack)
       /\ j # i => frames'[j] = frames[j]
  /\ \A o \in Obj : Cardinality(StackHolders(frames, o)) =
       Cardinality(StackHolders(frames', o)) + (IF o = Last(frames[i].stack) THEN 1 ELSE 0)

LEMMA PopFrames ==
  ASSUME Types, NEW i \in DOMAIN frames, frames[i].stack # <<>>,
         frames' = [frames EXCEPT ![i].stack = Front(frames[i].stack)]
  PROVE  Popped(i)
<1>1. PICK u \in Seq(Ordinary) : u = frames[i].stack /\ Len(u) <= MaxStack /\ u # <<>>
  BY FramesAre
<1>2. PICK w \in Seq(Ordinary) : w = Front(u) /\ Len(w) = Len(u) - 1 /\ Len(u) \in Nat
  BY <1>1, FrontIs
<1>3. Last(u) \in Ordinary /\ Last(u) \in Range(u) /\ Range(w) \subseteq Range(u)
  BY <1>1, <1>2, LastOf
<1>4. frames' = [frames EXCEPT ![i].stack = w] /\ Len(w) <= MaxStack /\ Len(w) < MaxStack
  BY <1>1, <1>2, FramesAre
<1>5. /\ Other(frames, frames', i, w) /\ frames' \in Seq(Frame)
      /\ DOMAIN frames' = DOMAIN frames /\ Len(frames') = Len(frames)
      /\ \A j \in DOMAIN frames' : Len(frames'[j].stack) <= MaxStack
                                   /\ frames'[j].locals = frames[j].locals
  <2>1. Restacked(frames', i, w)
    BY <1>4, FramesSet, Zenon
  <2> QED BY <2>1 DEF Restacked
<1>6. Other(frames, frames', i, Front(frames[i].stack)) /\ frames'[i].stack = w
      /\ \A j \in DOMAIN frames : j # i => frames'[j] = frames[j]
  BY <1>1, <1>2, <1>5 DEF Other
<1>7. \A o \in Obj : Cardinality(StackHolders(frames, o)) =
        Cardinality(StackHolders(frames', o)) + (IF o = Last(frames[i].stack) THEN 1 ELSE 0)
  BY <1>6, StackPop
<1>8. \A j \in DOMAIN frames : Range(frames'[j].stack) \subseteq Range(frames[j].stack)
  BY <1>1, <1>3, <1>6
<1> QED BY <1>1, <1>3, <1>4, <1>5, <1>6, <1>7, <1>8 DEF Popped

(* Frames keep their locals.                                               *)
LEMMA LocalsSame ==
  ASSUME LocalsOwned, DOMAIN frames' = DOMAIN frames, frames # <<>>, 1 \in DOMAIN frames,
         \A i \in DOMAIN frames : frames'[i].locals = frames[i].locals,
         \A i \in DOMAIN frames : frames[i].locals \in root => frames[i].locals \in root',
         chain' = chain, dying' = dying
  PROVE  LocalsOwned'
BY DEF LocalsOwned

LEMMA PushHandKeeps ==
  ASSUME Inv, PushHand
  PROVE  Inv'
<1>1. /\ UNCHANGED <<MarkSweep, chain, refcnt, root, refs, corrupt, returned, rel, dying, freeList,
                     gc, objCntLastGC, slot>>
      /\ Quiet /\ StackAlive /\ task = "push" /\ task' = "run" /\ hand' = None
      /\ frames' = SetStack(Append(Top.stack, hand)) /\ frames # <<>>
      /\ Len(Top.stack) < MaxStack
  BY DEF PushHand, Doing, heap, release, sweep, Inv, Prepared
<1>2. PICK v \in Ordinary : v = hand /\ v \in chain /\ v \in Obj
  BY <1>1, Calm DEF Inv, Types, Prepared
<1>3. Pushed(v)
  BY <1>1, <1>2, PushFrames, Zenon DEF Inv
<1>4. \A o \in Obj : Total(o)' = Total(o)
  <2> SUFFICES ASSUME NEW o \in Obj PROVE Total(o)' = Total(o)
    OBVIOUS
  <2>1. PICK a \in Nat : a = Cardinality(ArgHolders(refs, o)) /\ a = Cardinality(ArgHolders(refs', o))
    BY <1>1, TotalIs DEF Inv
  <2>2. PICK b \in Nat : b = Cardinality(StackHolders(frames, o))
                        /\ Cardinality(StackHolders(frames', o)) = b + (IF o = v THEN 1 ELSE 0)
    BY <1>3, TotalIs DEF Inv, Pushed
  <2>3. o # None
    BY GCAssumption
  <2> QED BY <1>1, <1>2, <2>1, <2>2, <2>3, TotalIs DEF Inv
<1>5. Types' /\ Prepared' /\ LocalsOwned'
  <2>1. Types'
    BY <1>1, <1>3 DEF Inv, Types, Tasks, Pushed
  <2>2. Prepared'
    BY <1>1, Calm DEF Prepared
  <2>3. LocalsOwned'
    BY <1>1, <1>3, FramesAre, LocalsSame DEF Inv, Pushed
  <2> QED BY <2>1, <2>2, <2>3
<1>6. \A i \in DOMAIN frames' : Range(frames'[i].stack) \subseteq chain'
  BY <1>1, <1>2, <1>3, Calm DEF Pushed
<1>7. \A o \in chain' \ (Local \cup {Main}) : refcnt'[o] = Total(o)' /\ refcnt'[o] # 0
  BY <1>1, <1>4, Calm DEF Owned
<1> QED BY <1>1, <1>5, <1>6, <1>7, Calm, StillCalm DEF Inv, Freed

(* A copy is counted: the count does not wrap, as there are few holders.   *)
LEMMA LoadObjKeeps ==
  ASSUME Inv, FewHolders', NEW n \in Obj, NEW f \in Name, LoadObj(n, f)
  PROVE  Inv'
<1>1. PICK v \in Ordinary : v = refs[n][f] /\ v \in Obj
  BY DEF LoadObj, Inv, Types, Ordinary
<1>2. /\ UNCHANGED <<MarkSweep, chain, root, refs, corrupt, returned, rel, dying, freeList,
                     gc, objCntLastGC, task, hand, slot>>
      /\ Quiet /\ StackAlive /\ task = "run" /\ hand = None
      /\ refcnt' = [refcnt EXCEPT ![v] = Inc(v)]
      /\ frames' = SetStack(Append(Top.stack, v)) /\ frames # <<>>
      /\ Len(Top.stack) < MaxStack
  BY <1>1 DEF LoadObj, Running, Doing, Copied, release, sweep, Inv, Prepared
<1>3. v \in chain /\ v \notin Owned /\ refcnt[v] = Total(v) /\ Total(v) \in Nat
  <2>1. v \in chain /\ v \notin Owned
    BY <1>1, <1>2, Calm, GCAssumption DEF Ordinary, Owned
  <2> QED BY <1>1, <1>2, <2>1, Calm, TotalZero DEF Inv
<1>4. Pushed(v)
  BY <1>1, <1>2, PushFrames, Zenon DEF Inv
<1>5. \A o \in Obj : Total(o)' = Total(o) + (IF o = v THEN 1 ELSE 0)
  <2> SUFFICES ASSUME NEW o \in Obj PROVE Total(o)' = Total(o) + (IF o = v THEN 1 ELSE 0)
    OBVIOUS
  <2>1. PICK a \in Nat : a = Cardinality(ArgHolders(refs, o)) /\ a = Cardinality(ArgHolders(refs', o))
    BY <1>2, TotalIs DEF Inv
  <2>2. PICK b \in Nat : b = Cardinality(StackHolders(frames, o))
                        /\ Cardinality(StackHolders(frames', o)) = b + (IF o = v THEN 1 ELSE 0)
    BY <1>4, TotalIs DEF Inv, Pushed
  <2>3. o # None
    BY GCAssumption
  <2> QED BY <1>1, <1>2, <2>1, <2>2, <2>3, TotalIs DEF Inv
<1>6. Inc(v) = Total(v) + 1 /\ Inc(v) \in 1 .. RefMod - 1
  <2>1. Total(v) + 1 < RefMod
    BY <1>1, <1>5 DEF FewHolders
  <2> QED BY <1>3, <2>1, GCAssumption DEF Inc
<1>7. Types' /\ Prepared' /\ LocalsOwned'
  <2>1. refcnt' \in [Obj -> 0 .. RefMod - 1]
    BY <1>1, <1>2, <1>6 DEF Inv, Types
  <2>2. Types'
    BY <1>2, <1>4, <2>1 DEF Inv, Types, Tasks, Pushed
  <2>3. Prepared'
    BY <1>2, Calm DEF Prepared
  <2>4. LocalsOwned'
    BY <1>2, <1>4, FramesAre, LocalsSame DEF Inv, Pushed
  <2> QED BY <2>2, <2>3, <2>4
<1>8. \A i \in DOMAIN frames' : Range(frames'[i].stack) \subseteq chain'
  BY <1>2, <1>3, <1>4, Calm DEF Pushed
<1>9. \A o \in chain' \ (Local \cup {Main}) : refcnt'[o] = Total(o)' /\ refcnt'[o] # 0
  <2>1. refcnt'[v] = Total(v)' /\ refcnt'[v] # 0
    BY <1>1, <1>2, <1>3, <1>5, <1>6 DEF Inv, Types
  <2>2. \A o \in chain \ Owned : o # v => refcnt'[o] = refcnt[o] /\ Total(o)' = Total(o)
    BY <1>2, <1>5, Calm, TotalZero DEF Inv, Types
  <2> QED BY <1>2, <2>1, <2>2, Calm DEF Owned
<1> QED BY <1>2, <1>7, <1>8, <1>9, Calm, StillCalm DEF Inv, Freed

(* What is taken out of an arg leaves the rest as it was.                  *)
Taken(n, f, v) ==
  /\ refs' \in [Obj -> [Name -> Ordinary \cup {None}]] /\ refs' \in ArgsMap
  /\ OtherArg(refs, refs', n, f, v)
  /\ \A o \in Obj, g \in Name : refs'[o][g] = IF o = n /\ g = f THEN v ELSE refs[o][g]
  /\ \A o \in Obj \ {n} : refs'[o] = refs[o]

LEMMA RefsTaken ==
  ASSUME Types, NEW n \in Obj, NEW f \in Name, NEW v \in Ordinary \cup {None},
         refs' = [refs EXCEPT ![n][f] = v]
  PROVE  Taken(n, f, v)
<1>1. refs \in [Obj -> [Name -> Ordinary \cup {None}]] /\ refs \in ArgsMap
  BY RefsAre DEF Types
<1>2. v \in Obj \cup {None}
  BY DEF Ordinary
<1>3. OtherArg(refs, refs', n, f, v)
  BY <1>1, <1>2, ArgOther
<1>4. refs' \in [Obj -> [Name -> Ordinary \cup {None}]]
  BY <1>1
<1> QED BY <1>1, <1>3, <1>4 DEF OtherArg, Taken

LEMMA StoreObjKeeps ==
  ASSUME Inv, NEW n \in Obj, NEW f \in Name, StoreObj(n, f)
  PROVE  Inv'
<1>1. /\ UNCHANGED <<MarkSweep, chain, refcnt, root, corrupt, returned, dying, freeList, gc,
                     objCntLastGC>>
      /\ Quiet /\ StackAlive /\ task = "run" /\ hand = None /\ frames # <<>> /\ task' = "store"
      /\ n \in Named /\ slot' = <<n, f>> /\ hand' = Last(Top.stack) /\ Len(Top.stack) = 1
      /\ frames' = SetStack(Front(Top.stack))
      /\ refs' = [refs EXCEPT ![n][f] = None] /\ rel' = refs[n][f]
  BY DEF StoreObj, Running, Doing, ReleaseOld, sweep, Inv, Prepared
<1>2. PICK i \in DOMAIN frames : i = Len(frames) /\ frames[i].stack # <<>>
                                 /\ frames' = [frames EXCEPT ![i].stack = Front(frames[i].stack)]
                                 /\ Top = frames[i]
  <2>1. Len(frames) \in DOMAIN frames
    BY <1>1, FramesAre DEF Inv
  <2>2. Top.stack # <<>>
    BY <1>1
  <2> QED BY <1>1, <2>1, <2>2 DEF SetStack, Top
<1>3. Popped(i)
  BY <1>2, PopFrames, Zenon DEF Inv
<1>4. PICK v \in Ordinary : v = hand' /\ v = Last(frames[i].stack) /\ v \in chain /\ v \in Obj
  BY <1>1, <1>2, <1>3, Calm DEF Popped
<1>5. PICK w \in Ordinary \cup {None} : w = refs[n][f] /\ w \in chain \cup {None}
  BY <1>1, Calm DEF Inv, Types
<1>6. Taken(n, f, None)
  BY <1>1, RefsTaken, Zenon DEF Inv
<1>7. \A o \in Obj : Total(o)' = Total(o)
  <2> SUFFICES ASSUME NEW o \in Obj PROVE Total(o)' = Total(o)
    OBVIOUS
  <2>1. PICK a \in Nat : /\ a = Cardinality(ArgHolders(refs', o))
                         /\ Cardinality(ArgHolders(refs, o)) = a + (IF o = w THEN 1 ELSE 0)
    BY <1>5, <1>6, ArgClear, ArgHoldersFinite DEF Taken
  <2>2. PICK b \in Nat : /\ b = Cardinality(StackHolders(frames', o))
                         /\ Cardinality(StackHolders(frames, o)) = b + (IF o = v THEN 1 ELSE 0)
    BY <1>3, <1>4, TotalIs DEF Inv, Popped
  <2>3. rel = None /\ o # None
    BY <1>1, Calm, GCAssumption
  <2>4. Total(o) = a + (IF o = w THEN 1 ELSE 0) + (b + (IF o = v THEN 1 ELSE 0))
    BY <1>1, <2>1, <2>2, <2>3, TotalIs DEF Inv
  <2>5. Total(o)' = a + b + (IF o = v THEN 1 ELSE 0) + (IF o = w THEN 1 ELSE 0)
    BY <1>1, <1>4, <1>5, <2>1, <2>2, TotalIs DEF Inv
  <2> QED BY <2>4, <2>5
<1>8. Types' /\ LocalsOwned'
  <2>1. Types'
    BY <1>1, <1>3, <1>4, <1>5, <1>6 DEF Inv, Types, Tasks, Popped, Taken
  <2>2. LocalsOwned'
    BY <1>1, <1>2, <1>3, FramesAre, LocalsSame DEF Inv, Popped
  <2> QED BY <2>1, <2>2
<1>9. Prepared'
  <2>1. PICK s \in SUBSET Obj : s = {Top.locals, Main}
    BY <1>2, FramesAre DEF Inv
  <2>2. PICK m \in MarkedFrom(s, refs) : m = n
    BY <1>1, <2>1 DEF Named
  <2>3. m \in MarkedFrom(s, refs')
    <3>1. refs' \in [Obj -> [Name -> Obj \cup {None}]]
      BY <1>6 DEF ArgsMap, Taken
    <3>2. m \in Obj /\ \A o \in Obj \ {m} : refs'[o] = refs[o]
      BY <1>6, <2>2 DEF Taken
    <3> QED BY <3>1, <3>2, RefsAre, MarkedSame DEF Inv
  <2>4. Top'.locals = Top.locals
    BY <1>2, <1>3 DEF Top, Popped
  <2>5. n \in Named'
    BY <2>1, <2>2, <2>3, <2>4 DEF Named
  <2>6. slot'[1] = n /\ slot'[2] = f /\ slot' \in Obj \X Name
    BY <1>1
  <2>7. hand' # None /\ frames' # <<>>
    BY <1>2, <1>3, <1>4, GCAssumption DEF Popped
  <2> QED BY <1>1, <1>6, <2>5, <2>6, <2>7, Calm DEF Prepared, Taken
<1>10. \A o \in chain' \ (Local \cup {Main}) : refcnt'[o] = Total(o)' /\ refcnt'[o] # 0
  BY <1>1, <1>7, Calm DEF Owned
<1>11. \A j \in DOMAIN frames' : Range(frames'[j].stack) \subseteq chain'
  BY <1>1, <1>3, Calm DEF Popped
<1>12. /\ \A o \in Obj \ chain', g \in Name : refs'[o][g] = None
       /\ \A o \in Obj, g \in Name : refs'[o][g] \in chain' \cup {None}
  BY <1>1, <1>6, Calm DEF Inv, Freed, Taken
<1> QED BY <1>1, <1>4, <1>5, <1>8, <1>9, <1>10, <1>11, <1>12, Calm, StillCalm

(* The arg that takes the value is one of a live object, and is empty.     *)
LEMMA StoreEndKeeps ==
  ASSUME Inv, StoreEnd
  PROVE  Inv'
<1>1. PICK n \in Obj, f \in Name : slot[1] = n /\ slot[2] = f /\ n \in Named /\ refs[n][f] = None
  BY DEF StoreEnd, Doing, Inv, Prepared
<1>2. /\ UNCHANGED <<MarkSweep, chain, refcnt, corrupt, rel, dying, freeList, gc, objCntLastGC,
                     frames>>
      /\ Quiet /\ StackAlive /\ task = "store" /\ task' = "run" /\ hand' = None
      /\ frames # <<>> /\ hand # None
      /\ root' = root \ {hand} /\ returned' = returned \ {hand}
      /\ refs' = [refs EXCEPT ![n][f] = hand]
  BY <1>1 DEF StoreEnd, Doing, release, sweep, Inv, Prepared
<1>3. PICK v \in Ordinary : v = hand /\ v \in chain /\ v \in Obj
  BY <1>2, Calm DEF Inv, Types
<1>4. n \in chain
  BY <1>1, <1>2, Calm, NamedAlive
<1>5. Taken(n, f, v)
  <2>1. refs' = [refs EXCEPT ![n][f] = v]
    BY <1>2, <1>3
  <2> QED BY <2>1, RefsTaken, Zenon DEF Inv
<1>6. \A o \in Obj : Total(o)' = Total(o)
  <2> SUFFICES ASSUME NEW o \in Obj PROVE Total(o)' = Total(o)
    OBVIOUS
  <2>1. PICK a \in Nat : /\ a = Cardinality(ArgHolders(refs, o))
                         /\ Cardinality(ArgHolders(refs', o)) = a + (IF o = v THEN 1 ELSE 0)
    BY <1>1, <1>3, <1>5, ArgSet, ArgHoldersFinite DEF Taken
  <2>2. PICK b \in Nat : /\ b = Cardinality(StackHolders(frames, o))
                         /\ b = Cardinality(StackHolders(frames', o))
    BY <1>2, TotalIs DEF Inv
  <2>3. rel = None /\ o # None
    BY <1>2, Calm, GCAssumption
  <2>4. Total(o) = a + b + (IF o = v THEN 1 ELSE 0)
    BY <1>2, <1>3, <2>1, <2>2, <2>3, TotalIs DEF Inv
  <2>5. Total(o)' = a + (IF o = v THEN 1 ELSE 0) + b
    <3>1. hand' # o /\ rel' # o
      BY <1>2, <2>3
    <3> QED BY <2>1, <2>2, <3>1, TotalIs DEF Inv
  <2> QED BY <2>4, <2>5
<1>7. Types'
  <2>1. root' \in SUBSET chain' /\ returned' \in SUBSET root'
    BY <1>2 DEF Inv, Types
  <2> QED BY <1>2, <1>5, <2>1 DEF Inv, Types, Tasks, Taken
<1>8. Prepared'
  BY <1>2, Calm DEF Prepared
<1>9. LocalsOwned'
  <2>1. \A i \in DOMAIN frames : frames[i].locals # hand
    BY <1>3, FramesAre DEF Inv, Ordinary
  <2> QED BY <1>2, <2>1, FramesAre, LocalsSame DEF Inv
<1>10. \A o \in chain' \ (Local \cup {Main}) : refcnt'[o] = Total(o)' /\ refcnt'[o] # 0
  BY <1>2, <1>6, Calm DEF Owned
<1>11. /\ \A o \in Obj \ chain', g \in Name : refs'[o][g] = None
       /\ \A o \in Obj, g \in Name : refs'[o][g] \in chain' \cup {None}
  BY <1>2, <1>3, <1>4, <1>5, Calm DEF Inv, Freed, Taken
<1>12. \A i \in DOMAIN frames' : Range(frames'[i].stack) \subseteq chain'
  BY <1>2, Calm
<1> QED BY <1>2, <1>7, <1>8, <1>9, <1>10, <1>11, <1>12, Calm, StillCalm

LEMMA DelObjKeeps ==
  ASSUME Inv, NEW n \in Obj, NEW f \in Name, DelObj(n, f)
  PROVE  Inv'
<1>1. /\ UNCHANGED <<MarkSweep, chain, refcnt, root, corrupt, returned, dying, freeList, gc,
                     objCntLastGC, frames, task, hand, slot>>
      /\ Quiet /\ StackAlive /\ task = "run" /\ hand = None /\ frames # <<>>
      /\ refs' = [refs EXCEPT ![n][f] = None] /\ rel' = refs[n][f]
  BY DEF DelObj, Running, Doing, ReleaseOld, sweep, Inv, Prepared
<1>2. Taken(n, f, None)
  BY <1>1, RefsTaken, Zenon DEF Inv
<1>3. rel' \in Ordinary \cup {None} /\ rel' \in chain \cup {None}
  BY <1>1, Calm DEF Inv, Types
<1>4. \A o \in Obj : Total(o)' = Total(o)
  BY <1>1, Calm, TotalTaken DEF Inv
<1>5. Types' /\ Prepared' /\ LocalsOwned'
  <2>1. Types'
    BY <1>1, <1>2, <1>3 DEF Inv, Types, Taken
  <2>2. Prepared'
    BY <1>1, Calm DEF Prepared
  <2>3. LocalsOwned'
    BY <1>1, FramesAre, LocalsSame DEF Inv
  <2> QED BY <2>1, <2>2, <2>3
<1>6. \A o \in chain' \ (Local \cup {Main}) : refcnt'[o] = Total(o)' /\ refcnt'[o] # 0
  BY <1>1, <1>4, Calm DEF Owned
<1>7. /\ \A o \in Obj \ chain', g \in Name : refs'[o][g] = None
      /\ \A o \in Obj, g \in Name : refs'[o][g] \in chain' \cup {None}
  BY <1>1, <1>2, Calm DEF Inv, Freed, Taken
<1>8. \A i \in DOMAIN frames' : Range(frames'[i].stack) \subseteq chain'
  BY <1>1, Calm
<1> QED BY <1>1, <1>3, <1>5, <1>6, <1>7, <1>8, Calm, StillCalm

(* A value on the stack is released, by a statement or by the end of its   *)
(* frame.                                                                  *)
LEMMA TopPopped ==
  ASSUME Types, frames # <<>>, Top.stack # <<>>, frames' = SetStack(Front(Top.stack))
  PROVE  \E i \in DOMAIN frames : Popped(i) /\ i = Len(frames) /\ Top = frames[i]
<1>1. PICK i \in DOMAIN frames : i = Len(frames) /\ Top = frames[i]
  BY FramesAre DEF Top
<1>2. frames[i].stack # <<>> /\ frames' = [frames EXCEPT ![i].stack = Front(frames[i].stack)]
  BY <1>1 DEF SetStack
<1>3. Popped(i)
  BY <1>2, PopFrames, Zenon
<1> QED BY <1>1, <1>3

LEMMA DropKeeps ==
  ASSUME Inv, Drop, Quiet, StackAlive, task \in {"run", "leave"}, frames # <<>>
  PROVE  Inv'
<1>1. /\ UNCHANGED <<MarkSweep, chain, refcnt, root, refs, corrupt, returned, dying, freeList, gc,
                     objCntLastGC, task, hand, slot>>
      /\ rel' = Last(Top.stack) /\ frames' = SetStack(Front(Top.stack)) /\ Top.stack # <<>>
  BY DEF Drop, heap, sweep
<1>2. PICK i \in DOMAIN frames : Popped(i) /\ i = Len(frames) /\ Top = frames[i]
  BY <1>1, TopPopped DEF Inv
<1>3. PICK v \in Ordinary : v = rel' /\ v = Last(frames[i].stack) /\ v \in chain /\ v \in Obj
  BY <1>1, <1>2, Calm DEF Popped
<1>4. \A o \in Obj : Total(o)' = Total(o)
  <2> SUFFICES ASSUME NEW o \in Obj PROVE Total(o)' = Total(o)
    OBVIOUS
  <2>1. PICK a \in Nat : a = Cardinality(ArgHolders(refs, o)) /\ a = Cardinality(ArgHolders(refs', o))
    BY <1>1, TotalIs DEF Inv
  <2>2. PICK b \in Nat : /\ b = Cardinality(StackHolders(frames', o))
                         /\ Cardinality(StackHolders(frames, o)) = b + (IF o = v THEN 1 ELSE 0)
    BY <1>2, <1>3, TotalIs DEF Inv, Popped
  <2>3. rel = None /\ o # None
    BY Calm, GCAssumption
  <2>4. PICK c \in {0, 1} : c = IF hand = o THEN 1 ELSE 0
    OBVIOUS
  <2>5. Total(o) = a + (b + (IF o = v THEN 1 ELSE 0)) + c
    <3>1. rel # o /\ c = IF hand = o /\ task # "new" THEN 1 ELSE 0
      BY <2>3, <2>4
    <3>2. Total(o) = a + Cardinality(StackHolders(frames, o))
                     + (IF hand = o /\ task # "new" THEN 1 ELSE 0) + (IF rel = o THEN 1 ELSE 0)
      BY <2>1, TotalIs DEF Inv
    <3> QED BY <2>2, <3>1, <3>2
  <2>6. Total(o)' = a + b + c + (IF o = v THEN 1 ELSE 0)
    BY <1>1, <1>3, <2>1, <2>2, <2>4, TotalIs DEF Inv
  <2> QED BY <2>5, <2>6
<1>5. Types'
  BY <1>1, <1>2, <1>3 DEF Inv, Types, Popped
<1>6. Prepared'
  <2>1. frames' # <<>>
    BY <1>2 DEF Popped
  <2>2. task = "leave" /\ hand # None =>
          /\ Len(frames') > 1
          /\ frames'[Len(frames') - 1] = frames[Len(frames) - 1]
          /\ Len(frames[Len(frames) - 1].stack) < MaxStack
    <3>1. task = "leave" /\ hand # None => Len(frames) > 1 /\ Len(frames) - 1 \in DOMAIN frames
      BY FramesAre DEF Inv, Prepared
    <3> QED BY <1>2, <3>1, FramesAre DEF Inv, Prepared, Popped
  <2> QED BY <1>1, <2>1, <2>2, Calm DEF Inv, Prepared
<1>7. LocalsOwned'
  BY <1>1, <1>2, FramesAre, LocalsSame DEF Inv, Popped
<1>8. \A o \in chain' \ (Local \cup {Main}) : refcnt'[o] = Total(o)' /\ refcnt'[o] # 0
  BY <1>1, <1>4, Calm DEF Owned
<1>9. \A j \in DOMAIN frames' : Range(frames'[j].stack) \subseteq chain'
  BY <1>1, <1>2, Calm DEF Popped
<1> QED BY <1>1, <1>3, <1>5, <1>6, <1>7, <1>8, <1>9, Calm, StillCalm DEF Inv, Freed

LEMMA ReturnObjKeeps ==
  ASSUME Inv, ReturnObj
  PROVE  Inv'
<1>1. /\ UNCHANGED <<MarkSweep, chain, refcnt, refs, corrupt, rel, dying, freeList, gc,
                     objCntLastGC, slot>>
      /\ Quiet /\ StackAlive /\ task = "run" /\ hand = None /\ frames # <<>> /\ task' = "leave"
      /\ Len(frames) > 1 /\ Len(frames[Len(frames) - 1].stack) < MaxStack
      /\ hand' = Last(Top.stack) /\ frames' = SetStack(Front(Top.stack)) /\ Top.stack # <<>>
      /\ root' = root \cup {hand'} /\ returned' = returned \cup {hand'}
  BY DEF ReturnObj, Running, Doing, release, sweep, Inv, Prepared
<1>2. PICK i \in DOMAIN frames : Popped(i) /\ i = Len(frames) /\ Top = frames[i]
  BY <1>1, TopPopped DEF Inv
<1>3. PICK v \in Ordinary : v = hand' /\ v = Last(frames[i].stack) /\ v \in chain /\ v \in Obj
  BY <1>1, <1>2, Calm DEF Popped
<1>4. \A o \in Obj : Total(o)' = Total(o)
  <2> SUFFICES ASSUME NEW o \in Obj PROVE Total(o)' = Total(o)
    OBVIOUS
  <2>1. PICK a \in Nat : a = Cardinality(ArgHolders(refs, o)) /\ a = Cardinality(ArgHolders(refs', o))
    BY <1>1, TotalIs DEF Inv
  <2>2. PICK b \in Nat : /\ b = Cardinality(StackHolders(frames', o))
                         /\ Cardinality(StackHolders(frames, o)) = b + (IF o = v THEN 1 ELSE 0)
    BY <1>2, <1>3, TotalIs DEF Inv, Popped
  <2>3. rel = None /\ o # None
    BY <1>1, Calm, GCAssumption
  <2>4. Total(o) = a + (b + (IF o = v THEN 1 ELSE 0))
    BY <1>1, <2>1, <2>2, <2>3, TotalIs DEF Inv
  <2>5. Total(o)' = a + b + (IF o = v THEN 1 ELSE 0)
    BY <1>1, <1>3, <2>1, <2>2, <2>3, TotalIs DEF Inv
  <2> QED BY <2>4, <2>5
<1>5. Types'
  <2>1. root' \in SUBSET chain' /\ returned' \in SUBSET root'
    BY <1>1, <1>3 DEF Inv, Types
  <2> QED BY <1>1, <1>2, <1>3, <2>1 DEF Inv, Types, Popped, Tasks
<1>6. Prepared'
  <2>1. frames' # <<>>
    BY <1>2 DEF Popped
  <2>2. Len(frames') > 1 /\ frames'[Len(frames') - 1] = frames[Len(frames) - 1]
    <3>1. PICK j \in DOMAIN frames : j = Len(frames) - 1 /\ j # i
      BY <1>1, <1>2, FramesAre DEF Inv
    <3>2. frames'[j] = frames[j] /\ Len(frames') = Len(frames)
      BY <1>2, <3>1 DEF Popped
    <3> QED BY <1>1, <3>1, <3>2
  <2> QED BY <1>1, <2>1, <2>2, Calm DEF Prepared
<1>7. LocalsOwned'
  BY <1>1, <1>2, FramesAre, LocalsSame DEF Inv, Popped
<1>8. \A o \in chain' \ (Local \cup {Main}) : refcnt'[o] = Total(o)' /\ refcnt'[o] # 0
  BY <1>1, <1>4, Calm DEF Owned
<1>9. \A j \in DOMAIN frames' : Range(frames'[j].stack) \subseteq chain'
  BY <1>1, <1>2, Calm DEF Popped
<1> QED BY <1>1, <1>3, <1>5, <1>6, <1>7, <1>8, <1>9, Calm, StillCalm DEF Inv, Freed

LEMMA ReturnKeeps ==
  ASSUME Inv, Return
  PROVE  Inv'
<1>1. /\ UNCHANGED <<MarkSweep, chain, refcnt, root, refs, corrupt, returned, rel, dying, freeList,
                     gc, objCntLastGC, frames, hand, slot>>
      /\ Quiet /\ StackAlive /\ task = "run" /\ hand = None /\ frames # <<>> /\ task' = "leave"
  BY DEF Return, Running, Doing, heap, release, sweep, Inv, Prepared
<1>2. \A o \in Obj : Total(o)' = Total(o)
  <2>1. \A o \in Obj : Holders(o)' = Holders(o)
    BY <1>1 DEF Holders, InHand
  <2> QED BY <1>1, <2>1 DEF Total, Released
<1>3. Types' /\ Prepared' /\ LocalsOwned'
  <2>1. Types'
    BY <1>1 DEF Inv, Types, Tasks
  <2>2. Prepared'
    BY <1>1, Calm DEF Prepared
  <2> QED BY <1>1, <2>1, <2>2 DEF Inv, LocalsOwned
<1>4. \A o \in chain' \ (Local \cup {Main}) : refcnt'[o] = Total(o)' /\ refcnt'[o] # 0
  BY <1>1, <1>2, Calm DEF Owned
<1>5. \A i \in DOMAIN frames' : Range(frames'[i].stack) \subseteq chain'
  BY <1>1, Calm
<1> QED BY <1>1, <1>3, <1>4, <1>5, Calm, StillCalm DEF Inv, Freed

(* An argument moves from the stack of the caller into new locals.         *)
LEMMA LoadArgKeeps ==
  ASSUME Inv, NEW f \in Name, LoadArg(f)
  PROVE  Inv'
<1>1. /\ UNCHANGED <<MarkSweep, chain, refcnt, root, corrupt, returned, rel, dying, freeList, gc,
                     objCntLastGC, hand, slot>>
      /\ Quiet /\ StackAlive /\ task = "args" /\ hand = None /\ task' = "run"
      /\ Len(frames) > 1 /\ frames[Len(frames) - 1].stack # <<>> /\ frames # <<>>
      /\ frames' = [frames EXCEPT ![Len(frames) - 1].stack = Front(frames[Len(frames) - 1].stack)]
      /\ refs' = [refs EXCEPT ![Top.locals][f] = Last(frames[Len(frames) - 1].stack)]
      /\ refs[Top.locals][f] = None
  BY DEF LoadArg, Doing, release, sweep, Inv, Prepared
<1>2. PICK i \in DOMAIN frames : i = Len(frames) - 1
  BY <1>1, FramesAre DEF Inv
<1>3. Popped(i)
  <2>1. frames' = [frames EXCEPT ![i].stack = Front(frames[i].stack)] /\ frames[i].stack # <<>>
    BY <1>1, <1>2
  <2> QED BY <2>1, PopFrames, Zenon DEF Inv
<1>4. PICK v \in Ordinary : v = Last(frames[i].stack) /\ v \in chain /\ v \in Obj
  BY <1>1, <1>3, Calm DEF Popped
<1>5. PICK n \in Obj : n = Top.locals /\ n \in chain
  BY <1>1, Calm, NamedAlive
<1>6. Taken(n, f, v)
  <2>1. refs' = [refs EXCEPT ![n][f] = v]
    BY <1>1, <1>2, <1>4, <1>5
  <2> QED BY <2>1, RefsTaken, Zenon DEF Inv
<1>7. \A o \in Obj : Total(o)' = Total(o)
  <2> SUFFICES ASSUME NEW o \in Obj PROVE Total(o)' = Total(o)
    OBVIOUS
  <2>1. PICK a \in Nat : /\ a = Cardinality(ArgHolders(refs, o))
                         /\ Cardinality(ArgHolders(refs', o)) = a + (IF o = v THEN 1 ELSE 0)
    BY <1>1, <1>4, <1>5, <1>6, ArgSet, ArgHoldersFinite DEF Taken
  <2>2. PICK b \in Nat : /\ b = Cardinality(StackHolders(frames', o))
                         /\ Cardinality(StackHolders(frames, o)) = b + (IF o = v THEN 1 ELSE 0)
    BY <1>3, <1>4, TotalIs DEF Inv, Popped
  <2>3. rel # o /\ hand # o /\ rel' # o /\ hand' # o
    BY <1>1, Calm, GCAssumption
  <2>4. Total(o) = a + (b + (IF o = v THEN 1 ELSE 0))
    BY <2>1, <2>2, <2>3, TotalIs DEF Inv
  <2>5. Total(o)' = a + (IF o = v THEN 1 ELSE 0) + b
    BY <2>1, <2>2, <2>3, TotalIs DEF Inv
  <2> QED BY <2>4, <2>5
<1>8. Types' /\ Prepared' /\ LocalsOwned'
  <2>1. Types'
    BY <1>1, <1>3, <1>6 DEF Inv, Types, Popped, Taken, Tasks
  <2>2. Prepared'
    BY <1>1, Calm DEF Prepared
  <2>3. LocalsOwned'
    BY <1>1, <1>3, FramesAre, LocalsSame DEF Inv, Popped
  <2> QED BY <2>1, <2>2, <2>3
<1>9. \A o \in chain' \ (Local \cup {Main}) : refcnt'[o] = Total(o)' /\ refcnt'[o] # 0
  BY <1>1, <1>7, Calm DEF Owned
<1>10. \A j \in DOMAIN frames' : Range(frames'[j].stack) \subseteq chain'
  BY <1>1, <1>3, Calm DEF Popped
<1>11. /\ \A o \in Obj \ chain', g \in Name : refs'[o][g] = None
       /\ \A o \in Obj, g \in Name : refs'[o][g] \in chain' \cup {None}
  BY <1>1, <1>4, <1>5, <1>6, Calm DEF Inv, Freed, Taken
<1> QED BY <1>1, <1>8, <1>9, <1>10, <1>11, Calm, StillCalm

(* A new object: nobody refers to it, and a collection may begin.          *)
Born(o) ==
  /\ Alive' = chain \cup {o} /\ Sound' \subseteq Alive' /\ o \in Sound'
  /\ Range(dying)' = {}
  /\ hand = None => Total(o) = 0
  /\ gc' \in BOOLEAN /\ (gc' => MarkSweep)
  /\ refcnt' \in [Obj -> 0 .. RefMod - 1]
  /\ \A n \in Obj : n # o => refcnt'[n] = refcnt[n]

LEMMA NewIs ==
  ASSUME Inv, Quiet, StackAlive, NEW o \in Obj, o \notin chain, New(o)
  PROVE  Born(o)
<1>1. /\ UNCHANGED <<MarkSweep, refs, corrupt, returned, rel, dying, freeList, objCntLastGC, slot>>
      /\ chain' = chain \cup {o} /\ root' = root \cup {o} /\ gc' = OverThreshold
      /\ refcnt' = [refcnt EXCEPT ![o] = 0]
  BY DEF New, release
<1>2. dying' = <<>> /\ Range(dying)' = {} /\ Alive' = chain \cup {o} /\ root' \ Range(dying)' = root'
  BY <1>1, Calm DEF Alive
<1>3. MarkedFrom(root', refs) \subseteq chain \cup {o}
  <2>1. chain \cup {o} \in SUBSET Obj /\ root' \in SUBSET (chain \cup {o})
        /\ \A n \in chain \cup {o}, f \in Name : refs[n][f] \in chain \cup {o} \cup {None}
    BY <1>1, Calm DEF Inv, Types
  <2> QED BY <2>1, RefsAre, RootsReach DEF Inv
<1>4. o \in MarkedFrom(root', refs)
  <2>1. o \in root' /\ root' \in SUBSET Obj
    BY <1>1, Calm DEF Inv, Types
  <2> QED BY <2>1, RefsAre, MarkedIs DEF Inv
<1>5. Sound' = IF gc' THEN MarkedFrom(root', refs) ELSE chain \cup {o}
  BY <1>1, <1>2 DEF Sound
<1>6. hand = None => Total(o) = 0
  <2>1. hand = None => Unheld(o) /\ rel # o
    BY Calm, GCAssumption DEF Unheld
  <2> QED BY <2>1, TotalZero, GCAssumption DEF Inv
<1>7. refcnt' \in [Obj -> 0 .. RefMod - 1] /\ \A n \in Obj : n # o => refcnt'[n] = refcnt[n]
  <2>1. 0 \in 0 .. RefMod - 1
    BY GCAssumption
  <2> QED BY <1>1, <2>1 DEF Inv, Types
<1>8. gc' \in BOOLEAN /\ (gc' => MarkSweep)
  BY <1>1 DEF OverThreshold, Inv, Types
<1> QED BY <1>2, <1>3, <1>4, <1>5, <1>6, <1>7, <1>8 DEF Born

LEMMA NewObjKeeps ==
  ASSUME Inv, NEW o \in Obj, NewObj(o)
  PROVE  Inv'
<1>1. /\ UNCHANGED <<MarkSweep, refs, corrupt, returned, rel, dying, freeList, objCntLastGC, slot,
                     frames>>
      /\ Quiet /\ StackAlive /\ task = "run" /\ hand = None /\ frames # <<>>
      /\ o \in Ordinary /\ o \in Obj \ chain /\ New(o) /\ Len(Top.stack) < MaxStack
      /\ chain' = chain \cup {o} /\ root' = root \cup {o} /\ hand' = o /\ task' = "new"
  BY DEF NewObj, New, Running, Doing, release, Inv, Prepared, Ordinary
<1>2. /\ Alive' = chain \cup {o} /\ Sound' \subseteq Alive' /\ o \in Sound'
      /\ Range(dying)' = {} /\ Total(o) = 0 /\ gc' \in BOOLEAN /\ (gc' => MarkSweep)
      /\ refcnt' \in [Obj -> 0 .. RefMod - 1]
      /\ \A n \in Obj : n # o => refcnt'[n] = refcnt[n]
  <2>1. Born(o)
    BY <1>1, NewIs
  <2> QED BY <1>1, <2>1 DEF Born
<1>3. \A n \in Obj : Total(n)' = Total(n)
  <2>1. \A n \in Obj : Holders(n)' = Holders(n)
    BY <1>1, GCAssumption DEF Holders, InHand
  <2> QED BY <1>1, <2>1 DEF Total, Released
<1>4. Types'
  <2>1. root' \in SUBSET chain' /\ returned' \in SUBSET root' /\ chain' \in SUBSET Obj
    BY <1>1 DEF Inv, Types
  <2> QED BY <1>1, <1>2, <2>1 DEF Inv, Types, Tasks
<1>5. Prepared'
  BY <1>1, <1>2, Calm, GCAssumption DEF Prepared, Top
<1>6. LocalsOwned'
  BY <1>1, <1>2 DEF Inv, LocalsOwned, Ordinary
<1>7. Freed'
  BY <1>1, Calm DEF Inv, Freed
<1>8. Owned' = Local \cup {Main, o} /\ Owned = Local \cup {Main}
  BY <1>1 DEF Owned
<1>9. Counts'
  <2>1. \A n \in Alive' \ Owned' : refcnt'[n] = Total(n)' /\ refcnt'[n] # 0
    BY <1>1, <1>2, <1>3, <1>8, Calm
  <2>2. task' = "new" => hand' \in root' /\ Total(hand)' = 0
    BY <1>1, <1>2, <1>3
  <2> QED BY <1>2, <2>1, <2>2 DEF Counts
<1>10. Reached'
  BY <1>1, <1>2, Calm DEF Reached
<1> QED BY <1>1, <1>4, <1>5, <1>6, <1>7, <1>9, <1>10 DEF Inv

(* A call: the new locals are those of one frame only.                     *)
LEMMA CallKeeps ==
  ASSUME Inv, NEW l \in Obj, NEW n \in {0, 1}, Call(l, n)
  PROVE  Inv'
<1>1. /\ UNCHANGED <<MarkSweep, refs, corrupt, returned, rel, dying, freeList, objCntLastGC, slot,
                     hand>>
      /\ Quiet /\ StackAlive /\ task = "run" /\ hand = None /\ frames # <<>>
      /\ l \in Local /\ l \in Obj \ chain /\ New(l)
      /\ chain' = chain \cup {l} /\ root' = root \cup {l}
      /\ task' = (IF n = 1 THEN "args" ELSE "run") /\ n <= Len(Top.stack)
      /\ frames' = Append(frames, [locals |-> l, stack |-> <<>>])
  BY DEF Call, New, Running, Doing, release, Inv, Prepared
<1>2. /\ Alive' = chain \cup {l} /\ Sound' \subseteq Alive'
      /\ Range(dying)' = {} /\ gc' \in BOOLEAN /\ (gc' => MarkSweep)
      /\ refcnt' \in [Obj -> 0 .. RefMod - 1]
      /\ \A m \in Obj : m # l => refcnt'[m] = refcnt[m]
  <2>1. Born(l)
    BY <1>1, NewIs
  <2> QED BY <2>1 DEF Born
<1>3. PICK g \in Frame : g = [locals |-> l, stack |-> <<>>] /\ g.locals = l /\ g.stack = <<>>
                         /\ Len(g.stack) = 0
  <2>1. <<>> \in Seq(Ordinary) /\ Len(<<>>) = 0
    BY EmptySeq
  <2>2. [locals |-> l, stack |-> <<>>] \in Frame
    BY <1>1, <2>1 DEF Frame
  <2> QED BY <2>1, <2>2
<1>4. PICK k \in Nat : k = Len(frames) /\ k # 0 /\ DOMAIN frames = 1 .. k
  <2>1. Len(frames) \in Nat /\ DOMAIN frames = 1 .. Len(frames) /\ Len(frames) \in DOMAIN frames
    BY <1>1, FramesAre DEF Inv
  <2>2. Len(frames) # 0
    BY <2>1
  <2> QED BY <2>1, <2>2, Zenon
<1>5. /\ frames' \in Seq(Frame) /\ Len(frames') = k + 1 /\ DOMAIN frames' = 1 .. k + 1
      /\ frames'[k + 1] = g /\ \A i \in 1 .. k : frames'[i] = frames[i]
  <2>1. frames \in Seq(Frame) /\ frames' = Append(frames, g)
    BY <1>1, <1>3, FramesAre DEF Inv
  <2> QED BY <1>4, <2>1
<1>6. \A i \in 1 .. k + 1 : Len(frames'[i].stack) <= MaxStack
  <2>1. \A i \in 1 .. k : Len(frames[i].stack) <= MaxStack
    BY <1>4, FramesAre DEF Inv
  <2>2. Len(frames'[k + 1].stack) <= MaxStack
    BY <1>3, <1>5, GCAssumption
  <2> QED BY <1>4, <1>5, <2>1, <2>2
<1>7. \A o \in Obj : Total(o)' = Total(o)
  <2> SUFFICES ASSUME NEW o \in Obj PROVE Total(o)' = Total(o)
    OBVIOUS
  <2>1. frames' \in FrameSeq /\ frames \in FrameSeq
    BY <1>5, <1>6, FramesAre, FramesCount DEF Inv
  <2>2. Cardinality(StackHolders(frames', o)) = Cardinality(StackHolders(frames, o))
    <3>1. \A i \in Len(frames) + 1 .. Len(frames') : frames'[i].stack = <<>>
      BY <1>3, <1>4, <1>5
    <3>2. (\A i \in DOMAIN frames : frames'[i] = frames[i]) /\ Len(frames) <= Len(frames')
      BY <1>4, <1>5
    <3> QED BY <2>1, <3>1, <3>2, StackSame
  <2>3. Holders(o)' = Holders(o)
    BY <1>1, <2>2, GCAssumption DEF Holders, InHand
  <2> QED BY <1>1, <2>3 DEF Total, Released
<1>8. Types'
  <2>1. root' \in SUBSET chain' /\ returned' \in SUBSET root' /\ chain' \in SUBSET Obj
    BY <1>1 DEF Inv, Types
  <2> QED BY <1>1, <1>2, <1>5, <1>6, <2>1 DEF Inv, Types, Tasks
<1>9. Prepared'
  <2>1. \A f \in Name : refs[l][f] = None
    BY <1>1 DEF Inv, Freed
  <2>2. task' = "args" => frames[k].stack # <<>>
    <3>1. n = 1 => Len(frames[k].stack) # 0 /\ frames[k].stack \in Seq(Obj)
      BY <1>1, <1>4, FramesAre DEF Top, Inv
    <3> QED BY <1>1, <3>1
  <2>3. task' = "args" =>
          /\ Len(frames') > 1 /\ frames'[Len(frames') - 1].stack # <<>>
          /\ \A f \in Name : refs'[Top'.locals][f] = None
    BY <1>1, <1>3, <1>4, <1>5, <2>1, <2>2 DEF Top
  <2>4. frames' # <<>>
    BY <1>5
  <2> QED BY <1>1, <1>2, <2>3, <2>4, Calm DEF Prepared
<1>10. LocalsOwned'
  <2>1. \A i \in 1 .. k : frames'[i].locals = frames[i].locals /\ frames'[i].locals # l
    BY <1>1, <1>4, <1>5 DEF Inv, LocalsOwned, Types
  <2>2. \A i, j \in 1 .. k + 1 : frames'[i].locals = frames'[j].locals => i = j
    BY <1>3, <1>4, <1>5, <2>1 DEF Inv, LocalsOwned
  <2>3. \A i \in 1 .. k + 1 : frames'[i].locals \in root'
    BY <1>1, <1>3, <1>4, <1>5 DEF Inv, LocalsOwned
  <2>4. frames'[1].locals = Main
    BY <1>1, <1>4, <2>1 DEF Inv, LocalsOwned
  <2>5. \A o \in chain' \cap (Local \cup {Main}) : \E i \in 1 .. k + 1 : frames'[i].locals = o
    <3>1. k + 1 \in 1 .. k + 1 /\ 1 .. k \subseteq 1 .. k + 1
      BY <1>4
    <3>2. \A o \in chain \cap (Local \cup {Main}) : \E i \in 1 .. k : frames[i].locals = o
      BY <1>1, <1>4, Calm DEF Inv, LocalsOwned
    <3> QED BY <1>1, <1>3, <1>5, <2>1, <3>1, <3>2
  <2> QED BY <1>2, <1>5, <2>2, <2>3, <2>4, <2>5 DEF LocalsOwned
<1>11. Freed'
  BY <1>1, Calm DEF Inv, Freed
<1>12. Owned' = Local \cup {Main} /\ Owned = Local \cup {Main} /\ task' # "new"
  BY <1>1 DEF Owned
<1>13. Counts'
  <2>1. \A m \in Alive' \ Owned' : refcnt'[m] = Total(m)' /\ refcnt'[m] # 0
    BY <1>1, <1>2, <1>7, <1>12, Calm
  <2> QED BY <1>2, <1>12, <2>1 DEF Counts
<1>14. Reached'
  <2>1. \A i \in 1 .. k + 1 : Range(frames'[i].stack) \subseteq chain'
    <3>1. Range(g.stack) = {}
      BY <1>3 DEF Range
    <3>2. \A i \in 1 .. k : Range(frames'[i].stack) \subseteq chain'
      BY <1>1, <1>4, <1>5, Calm
    <3> QED BY <1>4, <1>5, <3>1, <3>2
  <2> QED BY <1>1, <1>2, <1>5, <2>1, Calm DEF Reached
<1> QED BY <1>1, <1>8, <1>9, <1>10, <1>11, <1>13, <1>14 DEF Inv

(* The end of a frame: its locals are freed, and nobody refers to them.    *)
LEMMA LeaveEndKeeps ==
  ASSUME Inv, LeaveEnd
  PROVE  Inv'
<1>1. /\ UNCHANGED <<MarkSweep, chain, refcnt, root, refs, corrupt, returned, rel, freeList, gc,
                     objCntLastGC, slot, hand>>
      /\ Quiet /\ StackAlive /\ task = "leave" /\ frames # <<>> /\ Top.stack = <<>>
      /\ dying' = <<Top.locals>> /\ frames' = Front(frames)
      /\ task' = IF Len(frames) = 1 THEN "exit" ELSE IF hand = None THEN "run" ELSE "push"
  BY DEF LeaveEnd, Doing, heap, sweep, Inv, Prepared
<1>2. PICK k \in Nat : Len(frames) = k + 1 /\ DOMAIN frames = 1 .. k + 1
  <2>1. Len(frames) \in Nat \ {0} /\ DOMAIN frames = 1 .. Len(frames)
    BY <1>1, FramesAre DEF Inv
  <2>2. Len(frames) - 1 \in Nat /\ Len(frames) = Len(frames) - 1 + 1
    BY <2>1
  <2> QED BY <2>1, <2>2
<1>3. /\ frames' \in Seq(Frame) /\ Len(frames') = k /\ DOMAIN frames' = 1 .. k
      /\ \A i \in 1 .. k : frames'[i] = frames[i]
  <2>1. frames \in Seq(Frame) /\ frames # <<>>
    BY <1>1, FramesAre DEF Inv
  <2>2. /\ Front(frames) \in Seq(Frame) /\ Len(Front(frames)) = Len(frames) - 1
        /\ \A i \in 1 .. Len(frames) - 1 : Front(frames)[i] = frames[i]
    BY <2>1, FrontIs
  <2> QED BY <1>1, <1>2, <2>2
<1>4. PICK l \in Local \cup {Main} : l = Top.locals /\ l = frames[k + 1].locals /\ l \in Obj
                                     /\ frames[k + 1].stack = <<>> /\ l \in root /\ l \in chain
  BY <1>1, <1>2, FramesAre DEF Inv, Top, LocalsOwned, Types
<1>5. dying' \in Seq(Obj) /\ Len(dying') = 1 /\ dying'[1] = l /\ Range(dying)' = {l}
      /\ DOMAIN dying' = 1 .. 1
  <2>1. dying' = <<l>>
    BY <1>1, <1>4
  <2> QED BY <1>4, <2>1 DEF Range
<1>6. Alive' = chain \ {l} /\ Sound' = Alive' /\ ~gc' /\ l \notin Ordinary
  BY <1>1, <1>4, <1>5, Calm DEF Alive, Sound, Ordinary
<1>7. \A o \in Obj : Total(o)' = Total(o)
  <2> SUFFICES ASSUME NEW o \in Obj PROVE Total(o)' = Total(o)
    OBVIOUS
  <2>1. frames' \in FrameSeq /\ frames \in FrameSeq
    <3>1. \A i \in DOMAIN frames' : Len(frames'[i].stack) <= MaxStack
      BY <1>2, <1>3, FramesAre DEF Inv
    <3> QED BY <1>3, <3>1, FramesAre, FramesCount DEF Inv
  <2>2. Cardinality(StackHolders(frames, o)) = Cardinality(StackHolders(frames', o))
    <3>1. \A i \in Len(frames') + 1 .. Len(frames) : frames[i].stack = <<>>
      BY <1>2, <1>3, <1>4
    <3>2. (\A i \in DOMAIN frames' : frames[i] = frames'[i]) /\ Len(frames') <= Len(frames)
      BY <1>2, <1>3
    <3> QED BY <2>1, <3>1, <3>2, StackSame
  <2>3. Holders(o)' = Holders(o)
    BY <1>1, <2>2, GCAssumption DEF Holders, InHand
  <2> QED BY <1>1, <2>3 DEF Total, Released
<1>8. Types'
  <2>1. \A i \in DOMAIN frames' : Len(frames'[i].stack) <= MaxStack
    BY <1>2, <1>3, FramesAre DEF Inv
  <2> QED BY <1>1, <1>3, <1>5, <2>1 DEF Inv, Types, Tasks
<1>9. Prepared'
  <2>1. k = 0 => frames' = <<>> /\ hand = None
    BY <1>1, <1>2, <1>3 DEF Inv, Prepared
  <2>2. k # 0 => frames' # <<>>
    BY <1>3
  <2>3. k # 0 /\ hand # None => Len(Top'.stack) < MaxStack
    <3>1. k # 0 => Top' = frames[k]
      BY <1>3 DEF Top
    <3> QED BY <1>1, <1>2, <3>1 DEF Inv, Prepared
  <2> QED BY <1>1, <1>2, <2>1, <2>2, <2>3, Calm DEF Prepared
<1>10. LocalsOwned'
  <2>1. \A i \in 1 .. k : frames'[i].locals = frames[i].locals /\ frames'[i].locals # l
    BY <1>2, <1>3, <1>4 DEF Inv, LocalsOwned
  <2>2. \A i \in 1 .. k : frames'[i].locals \in root' \ Range(dying)'
    BY <1>1, <1>2, <1>5, <2>1 DEF Inv, LocalsOwned
  <2>3. \A i, j \in 1 .. k : frames'[i].locals = frames'[j].locals => i = j
    BY <1>2, <2>1 DEF Inv, LocalsOwned
  <2>4. frames' # <<>> => frames'[1].locals = Main
    <3>1. frames' # <<>> => 1 \in 1 .. k
      BY <1>3, EmptySeq
    <3> QED BY <1>1, <1>3, <3>1 DEF Inv, LocalsOwned
  <2>5. \A o \in chain' \cap (Local \cup {Main}) :
          o \in Range(dying)' \/ \E i \in 1 .. k : frames'[i].locals = o
    <3>1. \A o \in chain \cap (Local \cup {Main}) : \E i \in 1 .. k + 1 : frames[i].locals = o
      BY <1>1, <1>2, Calm DEF Inv, LocalsOwned
    <3>2. \A i \in 1 .. k + 1 : i \in 1 .. k \/ i = k + 1
      BY <1>2
    <3> QED BY <1>1, <1>3, <1>4, <1>5, <3>1, <3>2
  <2> QED BY <1>3, <2>2, <2>3, <2>4, <2>5 DEF LocalsOwned
<1>11. Freed'
  BY <1>1, <1>4, <1>5 DEF Inv, Freed
<1>12. Owned' = Local \cup {Main} /\ Owned = Local \cup {Main} /\ task' # "new"
  BY <1>1 DEF Owned
<1>13. Counts'
  <2>1. \A m \in Alive' \ Owned' : refcnt'[m] = Total(m)' /\ refcnt'[m] # 0
    BY <1>1, <1>6, <1>7, <1>12, Calm
  <2>2. Range(dying)' \cap Ordinary = {}
    BY <1>5, <1>6
  <2> QED BY <1>6, <1>12, <2>1, <2>2 DEF Counts
<1>14. Reached'
  <2>1. \A o \in Obj, f \in Name : refs[o][f] \in (chain \ {l}) \cup {None}
    BY <1>1, <1>6, Calm, GCAssumption DEF Inv, Types
  <2>2. \A i \in 1 .. k : Range(frames'[i].stack) \subseteq chain \ {l}
    <3>1. \A i \in 1 .. k : Range(frames[i].stack) \subseteq Ordinary
      <4> SUFFICES ASSUME NEW i \in 1 .. k PROVE Range(frames[i].stack) \subseteq Ordinary
        OBVIOUS
      <4>1. PICK w \in Seq(Ordinary) : w = frames[i].stack
        BY <1>2, FramesAre DEF Inv
      <4>2. Range(w) \subseteq Ordinary
        BY DEF Range
      <4> QED BY <4>1, <4>2
    <3> QED BY <1>1, <1>2, <1>3, <1>6, <3>1, Calm
  <2>3. hand \in (chain \ {l}) \cup {None}
    BY <1>1, <1>6, Calm DEF Inv, Types
  <2> QED BY <1>1, <1>3, <1>6, <2>1, <2>2, <2>3, Calm DEF Reached
<1> QED BY <1>1, <1>8, <1>9, <1>10, <1>11, <1>13, <1>14 DEF Inv

-----------------------------------------------------------------------------
LEMMA InvInit == Init => Inv
<1> SUFFICES ASSUME Init PROVE Inv
  OBVIOUS
<1>1. /\ MarkSweep \in BOOLEAN /\ chain = {Main} /\ root = {Main} /\ returned = {} /\ ~gc
      /\ gc = FALSE /\ corrupt = FALSE
      /\ rel = None /\ dying = <<>> /\ freeList = {} /\ task = "run" /\ hand = None /\ ~corrupt
      /\ \A o \in Obj, f \in Name : refs[o][f] = None
      /\ refs \in [Obj -> [Name -> Ordinary \cup {None}]]
  BY GCAssumption DEF Init, NoRefs
<1>2. refcnt \in [Obj -> 0 .. RefMod - 1]
  <2>1. 0 \in 0 .. RefMod - 1 /\ 1 \in 0 .. RefMod - 1
    BY GCAssumption
  <2> QED BY <2>1 DEF Init
<1>3. PICK g \in Frame : frames = <<g>> /\ g.locals = Main /\ g.stack = <<>>
  <2>1. [locals |-> Main, stack |-> <<>>] \in Frame
    BY EmptySeq DEF Frame
  <2> QED BY <2>1 DEF Init
<1>4. /\ frames \in Seq(Frame) /\ frames # <<>> /\ DOMAIN frames = 1 .. 1
      /\ frames[1].locals = Main /\ frames[1].stack = <<>> /\ Len(frames[1].stack) <= MaxStack
  BY <1>3, GCAssumption
<1>5. \A i \in DOMAIN frames : i = 1
  BY <1>4
<1>6. Range(dying) = {} /\ Alive = {Main} /\ Sound = {Main} /\ Owned = Local \cup {Main}
  BY <1>1 DEF Range, Alive, Sound, Owned
<1>7. Types
  <2>1. /\ frames \in Seq(Frame) /\ \A i \in DOMAIN frames : Len(frames[i].stack) <= MaxStack
    BY <1>4, <1>5
  <2>2. dying \in Seq(Obj)
    BY <1>1, EmptySeq
  <2>3. chain \in SUBSET Obj /\ root \in SUBSET chain /\ returned \in SUBSET root
    BY <1>1, GCAssumption
  <2> QED BY <1>1, <1>2, <2>1, <2>2, <2>3 DEF Types, Tasks
<1>8. Prepared
  BY <1>1 DEF Prepared
<1>9. LocalsOwned
  BY <1>1, <1>4, <1>5, <1>6, GCAssumption DEF LocalsOwned
<1>10. Freed
  BY <1>1 DEF Freed
<1>11. Counts
  BY <1>1, <1>6 DEF Counts
<1>12. Reached
  <2>1. \A i \in DOMAIN frames : Range(frames[i].stack) = {}
    BY <1>4, <1>5 DEF Range
  <2> QED BY <1>1, <1>6, <2>1 DEF Reached
<1> QED BY <1>1, <1>7, <1>8, <1>9, <1>10, <1>11, <1>12 DEF Inv

LEMMA InvNext == Inv /\ FewHolders /\ FewHolders' /\ [Next]_vars => Inv'
<1> SUFFICES ASSUME Inv, FewHolders, FewHolders', [Next]_vars PROVE Inv'
  OBVIOUS
<1>1. CASE Collect
  <2>1. CASE GCSkip
    BY <2>1, GCSkipKeeps
  <2>2. CASE GCDec
    BY <2>2, GCDecKeeps
  <2>3. CASE DeinitEnd
    BY <2>3, DeinitEndKeeps
  <2>4. CASE \E f \in Name : DeinitArg(f)
    BY <2>4, DeinitArgKeeps
  <2>5. CASE \E s \in SUBSET Unmarked : MarkSweepOnce(s)
    BY <2>5, MarkSweepOnceKeeps
  <2>6. CASE SweepNext
    BY <2>6, SweepNextKeeps
  <2>7. CASE MarkSweepEnd
    BY <2>7, MarkSweepEndKeeps
  <2> QED BY <1>1, <2>1, <2>2, <2>3, <2>4, <2>5, <2>6, <2>7 DEF Collect
<1>2. CASE \E o \in Obj : NewObj(o) \/ (\E n \in {0, 1} : Call(o, n))
  BY <1>2, NewObjKeeps, CallKeeps
<1>3. CASE \E n \in Obj, f \in Name : LoadObj(n, f) \/ StoreObj(n, f) \/ DelObj(n, f)
  BY <1>3, LoadObjKeeps, StoreObjKeeps, DelObjKeeps
<1>4. CASE \E f \in Name : LoadArg(f)
  BY <1>4, LoadArgKeeps
<1>5. CASE NewEnd \/ PushHand \/ StoreEnd
  BY <1>5, NewEndKeeps, PushHandKeeps, StoreEndKeeps
<1>6. CASE DropObj \/ LeaveDrop
  <2>1. Drop /\ Quiet /\ StackAlive /\ task \in {"run", "leave"} /\ frames # <<>>
    BY <1>6 DEF DropObj, LeaveDrop, Running, Doing, Inv, Prepared
  <2> QED BY <2>1, DropKeeps
<1>7. CASE ReturnObj \/ Return \/ LeaveEnd \/ Exit
  BY <1>7, ReturnObjKeeps, ReturnKeeps, LeaveEndKeeps, ExitKeeps
<1>8. CASE UNCHANGED vars
  <2>1. UNCHANGED <<MarkSweep, chain, refcnt, root, refs, corrupt, returned, rel, dying, gc,
                    freeList, objCntLastGC, frames, task, hand, slot>>
    BY <1>8 DEF vars, heap, release, sweep
  <2>2. Sound' = Sound /\ Alive' = Alive /\ Owned' = Owned
    BY <2>1 DEF Sound, Alive, Owned
  <2>3. \A o : Total(o)' = Total(o)
    BY <2>1 DEF Total, Holders, InHand, Released
  <2>4. Counts' /\ Reached'
    BY <2>1, <2>2, <2>3 DEF Inv, Counts, Reached
  <2>5. Types' /\ Prepared' /\ LocalsOwned' /\ Freed' /\ ~corrupt'
    BY <2>1 DEF Inv, Types, Prepared, LocalsOwned, Freed, Named, Top
  <2> QED BY <2>4, <2>5 DEF Inv
<1> QED BY <1>1, <1>2, <1>3, <1>4, <1>5, <1>6, <1>7, <1>8 DEF Next

LEMMA InvAlways == Spec /\ []FewHolders => []Inv
<1>1. Init => Inv
  BY InvInit
<1>2. Inv /\ FewHolders /\ FewHolders' /\ [Next]_vars => Inv'
  BY InvNext
<1> QED BY <1>1, <1>2, PTL DEF Spec

LEMMA InvMeans == Inv => ArgsAlive /\ RefcntExact /\ NoDoubleFree /\ StackKeeps
<1> SUFFICES ASSUME Inv PROVE ArgsAlive /\ RefcntExact /\ NoDoubleFree /\ StackKeeps
  OBVIOUS
<1>1. ArgsAlive
  BY DEF Inv, Types, Reached, Alive, ArgsAlive
<1>2. RefcntExact
  <2>1. ~gc => Sound = chain \ Range(dying)
    BY DEF Sound, Alive
  <2> QED BY <2>1 DEF Inv, Counts, RefcntExact, Total
<1>3. StackKeeps
  <2>1. ~MarkSweep => ~gc
    BY DEF Inv, Prepared
  <2> QED BY <2>1 DEF Inv, Reached, StackKeeps, StackAlive, Sound, Alive
<1> QED BY <1>1, <1>2, <1>3 DEF Inv, NoDoubleFree

(* Whatever the program binds, deletes, passes on and returns, and         *)
(* whenever the collector runs, no live object is left with an arg whose   *)
(* object was freed by obj_deinit (PikaObj.c).                             *)
THEOREM ArgsStayAlive == Spec /\ []FewHolders => []ArgsAlive
BY InvAlways, InvMeans, PTL

(* The refcnt of every object is the number of its holders, between any    *)
(* two steps of a release too.                                             *)
THEOREM CountsAreExact == Spec /\ []FewHolders => []RefcntExact
BY InvAlways, InvMeans, PTL

(* obj_GC never releases freed memory, nor enters obj_deinit twice for the *)
(* same object: not for cycles, not in the collector, not at shutdown.     *)
THEOREM FreedOnce == Spec /\ []FewHolders => []NoDoubleFree
BY InvAlways, InvMeans, PTL

(* With reference counts alone the values on VM stacks stay alive.         *)
THEOREM StacksStayAlive == Spec /\ []FewHolders => []StackKeeps
BY InvAlways, InvMeans, PTL

-----------------------------------------------------------------------------
(* Shutdown with mark and sweep.                                           *)
LEMMA FreshInit == Init => Fresh /\ Over
BY DEF Init, NoRefs, Fresh, Over

LEMMA FreshNext == Inv /\ Fresh /\ [Next]_vars => Fresh'
<1> SUFFICES ASSUME Inv, Fresh, [Next]_vars,
                    NEW o \in Obj, NEW f \in Name, refs'[o][f] # None, o \notin Local
             PROVE  refs'[o][f] \notin root' \ returned'
  BY DEF Fresh
<1>1. ASSUME refs'[o][f] = refs[o][f], root' \ returned' \subseteq root \ returned
      PROVE  refs'[o][f] \notin root' \ returned'
  BY <1>1 DEF Fresh
<1>2. ASSUME refs'[o][f] = refs[o][f], NEW n \in Obj \ chain, ~gc, root' = root \cup {n},
             returned' = returned
      PROVE  refs'[o][f] \notin root' \ returned'
  <2>1. refs[o][f] # n
    BY <1>2, GCAssumption DEF Inv, Reached, Alive
  <2> QED BY <1>2, <2>1 DEF Fresh
<1>3. CASE UNCHANGED <<refs, root, returned>>
  BY <1>1, <1>3
<1>4. CASE \E g \in Name : DeinitArg(g)
  <2>1. PICK g \in Name : DeinitArg(g)
    BY <1>4
  <2>2. refs' = [refs EXCEPT ![Dying][g] = None] /\ UNCHANGED <<root, returned>>
    BY <2>1 DEF DeinitArg
  <2>3. refs'[o][f] = refs[o][f]
    BY <2>2, RefsAre DEF Inv
  <2> QED BY <1>1, <2>2, <2>3
<1>5. CASE DeinitEnd
  BY <1>1, <1>5 DEF DeinitEnd
<1>6. CASE \E n \in Obj : NewObj(n)
  <2>1. PICK n \in Obj : NewObj(n)
    BY <1>6
  <2> QED BY <1>2, <2>1 DEF NewObj, New, Running, Doing, Quiet
<1>7. CASE \E n \in Obj, k \in {0, 1} : Call(n, k)
  <2>1. PICK n \in Obj, k \in {0, 1} : Call(n, k)
    BY <1>7
  <2> QED BY <1>2, <2>1 DEF Call, New, Running, Doing, Quiet
<1>8. CASE \E n \in Obj, g \in Name : StoreObj(n, g) \/ DelObj(n, g)
  <2>1. PICK n \in Obj, g \in Name : StoreObj(n, g) \/ DelObj(n, g)
    BY <1>8
  <2>2. refs' = [refs EXCEPT ![n][g] = None] /\ UNCHANGED <<root, returned>>
    BY <2>1 DEF StoreObj, DelObj, ReleaseOld
  <2>3. refs'[o][f] = refs[o][f]
    BY <2>2, RefsAre DEF Inv
  <2> QED BY <1>1, <2>2, <2>3
<1>9. CASE StoreEnd
  <2>1. refs' = [refs EXCEPT ![slot[1]][slot[2]] = hand] /\ root' = root \ {hand}
        /\ returned' = returned \ {hand} /\ hand # None
    BY <1>9 DEF StoreEnd, Doing, Inv, Prepared
  <2>2. refs'[o][f] \in {refs[o][f], hand}
    BY <2>1, RefsAre DEF Inv
  <2> QED BY <2>1, <2>2 DEF Fresh
<1>10. CASE \E g \in Name : LoadArg(g)
  <2>1. PICK g \in Name : LoadArg(g)
    BY <1>10
  <2>2. /\ refs' = [refs EXCEPT ![Top.locals][g] = Last(frames[Len(frames) - 1].stack)]
        /\ UNCHANGED <<root, returned>> /\ Len(frames) > 1
    BY <2>1 DEF LoadArg, Doing, Inv, Prepared
  <2>3. Top.locals \in Local
    <3>1. 1 \in DOMAIN frames /\ Len(frames) \in DOMAIN frames /\ frames # <<>> /\ Len(frames) # 1
      BY <2>2, FramesAre DEF Inv
    <3> QED BY <3>1, FramesAre DEF Inv, LocalsOwned, Top
  <2>4. refs'[o][f] = refs[o][f]
    BY <2>2, <2>3, RefsAre DEF Inv
  <2> QED BY <1>1, <2>2, <2>4
<1>11. CASE ReturnObj
  <2>1. UNCHANGED refs /\ root' \ returned' \subseteq root \ returned
    BY <1>11 DEF ReturnObj
  <2> QED BY <1>1, <2>1
<1>12. CASE GCSkip \/ GCDec \/ (\E s \in SUBSET Unmarked : MarkSweepOnce(s)) \/ SweepNext
            \/ MarkSweepEnd \/ Exit
  BY <1>3, <1>12 DEF GCSkip, GCDec, MarkSweepOnce, SweepNext, MarkSweepEnd, Exit, heap
<1>13. CASE NewEnd \/ PushHand \/ DropObj \/ LeaveDrop \/ Return \/ LeaveEnd
  BY <1>3, <1>13 DEF NewEnd, PushHand, DropObj, LeaveDrop, Drop, Return, LeaveEnd, heap
<1>14. CASE \E n \in Obj, g \in Name : LoadObj(n, g)
  BY <1>3, <1>14 DEF LoadObj
<1>15. CASE UNCHANGED vars
  BY <1>3, <1>15 DEF vars, heap
<1> QED BY <1>4, <1>5, <1>6, <1>7, <1>8, <1>9, <1>10, <1>11, <1>12, <1>13, <1>14, <1>15
        DEF Next, Collect

(* The call stack only empties when a frame ends.                          *)
LEMMA OverNext == Inv /\ Inv' /\ Over /\ [Next]_vars => Over'
<1> SUFFICES ASSUME Inv, Inv', Over, [Next]_vars,
                    MarkSweep', frames' = <<>>, task' = "run", ~gc'
             PROVE  rel' = None /\ dying' = <<>> /\ Unmarked' = {}
  BY DEF Over
<1>1. CASE Exit
  BY <1>1 DEF Exit
<1>2. CASE LeaveEnd
  <2>1. frames # <<>> /\ frames \in Seq(Frame)
    BY <1>2, FramesAre DEF LeaveEnd, Doing, Inv, Prepared
  <2>2. Len(Front(frames)) = Len(frames) - 1 /\ Len(frames) \in Nat
    BY <2>1, FrontIs
  <2>3. Len(frames) = 1
    BY <1>2, <2>2 DEF LeaveEnd
  <2> QED BY <1>2, <2>3 DEF LeaveEnd
<1>3. CASE Collect
  <2>1. UNCHANGED <<MarkSweep, frames, task>> /\ (gc' = gc \/ MarkSweepEnd)
    BY <1>3 DEF Collect, GCSkip, GCDec, DeinitArg, DeinitEnd, MarkSweepOnce, SweepNext, MarkSweepEnd,
       heap, release, sweep
  <2>2. CASE MarkSweepEnd
    <3>1. UNCHANGED <<chain, root, refs, rel, dying>> /\ Unmarked = {} /\ rel = None /\ dying = <<>>
      BY <2>2 DEF MarkSweepEnd, NothingFound, Sweeping, heap, release
    <3> QED BY <3>1 DEF Unmarked
  <2>3. CASE ~MarkSweepEnd
    <3>1. rel = None /\ dying = <<>> /\ ~gc
      BY <2>1, <2>3 DEF Over
    <3> QED BY <1>3, <2>3, <3>1 DEF Collect, GCSkip, GCDec, DeinitArg, DeinitEnd, Freeing, MarkSweepOnce,
            SweepNext, Sweeping
  <2> QED BY <2>2, <2>3
<1>4. CASE UNCHANGED vars
  BY <1>4 DEF vars, heap, release, sweep, Over, Unmarked
<1>5. ASSUME frames # <<>>, DOMAIN frames' = DOMAIN frames PROVE FALSE
  <2>1. 1 \in DOMAIN frames
    BY <1>5, FramesAre DEF Inv
  <2> QED BY <1>5, <2>1
<1>6. CASE \E o \in Obj : NewObj(o)
  BY <1>5, <1>6 DEF NewObj, Running
<1>7. CASE NewEnd \/ StoreEnd
  BY <1>5, <1>7 DEF NewEnd, StoreEnd, Doing, Inv, Prepared
<1>8. CASE \E n \in Obj, f \in Name : DelObj(n, f)
  BY <1>5, <1>8 DEF DelObj, Running
<1>9. CASE Return
  BY <1>9 DEF Return
<1>10. CASE ReturnObj
  BY <1>10 DEF ReturnObj
<1>11. ASSUME frames # <<>>, NEW s, frames' = SetStack(s) PROVE FALSE
  <2>1. DOMAIN frames' = DOMAIN frames
    BY <1>11 DEF SetStack
  <2> QED BY <1>5, <1>11, <2>1
<1>12. CASE \E n \in Obj, f \in Name : LoadObj(n, f) \/ StoreObj(n, f)
  BY <1>11, <1>12 DEF LoadObj, StoreObj, Running
<1>13. CASE PushHand
  BY <1>11, <1>13 DEF PushHand, Doing, Inv, Prepared
<1>14. CASE DropObj
  BY <1>11, <1>14 DEF DropObj, Running, Drop
<1>15. CASE LeaveDrop
  BY <1>11, <1>15 DEF LeaveDrop, Drop, Doing, Inv, Prepared
<1>16. CASE \E f \in Name : LoadArg(f)
  <2>1. frames # <<>> /\ DOMAIN frames' = DOMAIN frames
    BY <1>16 DEF LoadArg, Doing, Inv, Prepared
  <2> QED BY <1>5, <2>1
<1>17. CASE \E o \in Obj, n \in {0, 1} : Call(o, n)
  <2>1. PICK g \in Frame : frames' = Append(frames, g)
    BY <1>17, EmptySeq DEF Call, Frame
  <2>2. frames \in Seq(Frame)
    BY FramesAre DEF Inv
  <2>3. Append(frames, g) # <<>>
    BY <2>2, AppendProperties
  <2> QED BY <2>1, <2>3
<1> QED BY <1>1, <1>2, <1>3, <1>4, <1>6, <1>7, <1>8, <1>9, <1>10, <1>12, <1>13, <1>14, <1>15, <1>16,
           <1>17 DEF Next

Shutdown == MarkSweep /\ frames = <<>> /\ task = "run" /\ Quiet

(* What hangs on no returned object is gone: a flagged object that was     *)
(* never stored would have a holder, and only locals could be that.        *)
LEMMA ShutdownMeans == Inv /\ Fresh /\ Over /\ Shutdown => chain \subseteq MarkedFrom(returned, refs)
<1> SUFFICES ASSUME Inv, Fresh, Over, Shutdown PROVE chain \subseteq MarkedFrom(returned, refs)
  OBVIOUS
<1>1. /\ MarkSweep /\ frames = <<>> /\ task = "run" /\ ~gc /\ rel = None /\ dying = <<>>
      /\ Unmarked = {} /\ hand = None
  BY DEF Shutdown, Quiet, Over, Inv, Prepared
<1>2. StackAlive
  BY <1>1 DEF StackAlive
<1>3. chain \cap (Local \cup {Main}) = {}
  BY <1>1, <1>2, Calm DEF Inv, LocalsOwned, Quiet
<1>4. ASSUME NEW o \in root, o \notin returned PROVE FALSE
  <2>1. o \in chain /\ o \in Obj
    BY DEF Inv, Types
  <2>2. o \notin Owned
    BY <1>1, <1>3, <2>1 DEF Owned
  <2>3. refcnt[o] = Total(o) /\ refcnt[o] # 0
    BY <1>1, <1>2, <2>1, <2>2, Calm DEF Quiet
  <2>4. ~Unheld(o)
    BY <1>1, <2>1, <2>3, TotalZero, GCAssumption DEF Inv
  <2>5. PICK n \in Obj, f \in Name : refs[n][f] = o
    BY <1>1, <2>1, <2>4, GCAssumption DEF Unheld
  <2>6. n \in chain /\ o # None
    BY <2>1, <2>5, GCAssumption DEF Inv, Freed
  <2>7. n \notin Local
    BY <1>3, <2>6
  <2> QED BY <1>4, <2>5, <2>6, <2>7 DEF Fresh
<1>5. root \cap chain = returned
  BY <1>4 DEF Inv, Types
<1> QED BY <1>1, <1>5 DEF Unmarked

(* With mark and sweep, when the root object is gone and its collections   *)
(* have ended, nothing is left, cycles included, but for what hangs on an  *)
(* object that RET has flagged and nobody has stored.                      *)
THEOREM ShutdownFrees ==
  Spec /\ []FewHolders => [](Shutdown => chain \subseteq MarkedFrom(returned, refs))
<1>1. Init => Fresh /\ Over
  BY FreshInit
<1>2. Inv /\ Inv' /\ Fresh /\ Over /\ [Next]_vars => Fresh' /\ Over'
  BY FreshNext, OverNext
<1>3. Inv /\ Fresh /\ Over => (Shutdown => chain \subseteq MarkedFrom(returned, refs))
  BY ShutdownMeans
<1> QED BY <1>1, <1>2, <1>3, InvAlways, PTL DEF Spec
=============================================================================
