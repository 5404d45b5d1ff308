--------------------------- MODULE VMControlProofs --------------------------
(***************************************************************************)
(* Proofs about the control flow of the VM, for every program of every     *)
(* depth. As the bytecode grows line by line, the end of every loop has    *)
(* its head before it (Backs), and a DEF its function after it (Defined).  *)
(* So the searches of the VM, which walk over instructions in both         *)
(* directions, end inside of the bytecode, and the end of a try, to which  *)
(* an exit goes, is an instruction of no source line.                      *)
(***************************************************************************)
EXTENDS VMControl, Recursion, SequenceTheorems, TLAPS

(* The instructions of the bytecode: the one that ends a try belongs to no *)
(* source line, and only the end of a loop jumps back.                     *)
Instruction ==
  {x \in [ins : {"EVAL", "JEZ", "NEL", "JMP", "BRK", "CTN", "RET", "DEL", "DEF", "RIS",
                 "TRY", "NTR", "GER", "EXP"},
          val : Int, bd : Int, nl : BOOLEAN, src : Nat \X Nat] :
     /\ x.ins = "NTR" => x.src = NoLine
     /\ x.ins \in {"JEZ", "NEL"} => x.val \in {1, 2}
     /\ x.ins = "JMP" => x.val \in {-1, 1}}

(* Those that a line of depth d is lowered to, and those that the ends of  *)
(* blocks of up to depth b are.                                            *)
OfLine(i, d) == {x \in Instruction : /\ x.bd = d /\ x.src \in {NoLine, <<i, 0>>, <<i, 1>>}
                                     /\ x.ins = "JMP" => x.val = 1}
OfEnds(b) == {x \in Instruction : x.src = NoLine /\ (x.ins = "JMP" => x.bd \in 0 .. b - 1)}

-----------------------------------------------------------------------------
(* The least and the greatest of a set of positions.                       *)
LEMMA MinIs ==
  ASSUME NEW S \in SUBSET Nat, S # {}
  PROVE  Min(S) \in S /\ \A x \in S : Min(S) <= x
BY NatLeast DEF Min

LEMMA MaxIs ==
  ASSUME NEW m \in Nat, NEW S \in SUBSET (1 .. m), S # {}
  PROVE  Max(S) \in S
<1> DEFINE R == {m - x : x \in S}
<1>0. \A x \in S : x \in Nat /\ m - x \in Nat
  OBVIOUS
<1>1. R \in SUBSET Nat /\ R # {}
  BY <1>0
<1>2. PICK r \in R : \A y \in R : r <= y
  BY <1>1, NatLeast
<1>3. PICK x \in S : r = m - x
  BY <1>2
<1>4. ASSUME NEW y \in S PROVE y <= x
  <2>1. m - x <= m - y
    BY <1>2, <1>3
  <2> QED
    BY <1>0, <2>1
<1> QED
  BY <1>4 DEF Max

(* A sequence of A is one of any B that has A's elements.                  *)
LEMMA SeqWider ==
  ASSUME NEW A, NEW B, A \subseteq B, NEW s \in Seq(A) PROVE s \in Seq(B)
OBVIOUS

LEMMA EndsWider ==
  /\ \A b \in Nat : OfEnds(b) \subseteq OfEnds(b + 1)
  /\ \A b : OfEnds(b) \subseteq Instruction
  /\ \A i, d : OfLine(i, d) \subseteq Instruction
BY DEF OfEnds, OfLine

-----------------------------------------------------------------------------
(* The lowering of a line, and of the ends of the blocks before it.        *)
LEMMA ExitBlockIs ==
  ASSUME NEW k, NEW b \in Nat PROVE ExitBlock(k, b) \in Seq(OfEnds(b + 1))
<1> DEFINE U == OfEnds(b + 1)
<1>1. /\ Ins("JMP", -1, b, TRUE, NoLine) \in U /\ Ins("DEL", 0, b, TRUE, NoLine) \in U
      /\ Ins("NTR", 0, b, TRUE, NoLine) \in U /\ Ins("GER", 0, b, FALSE, NoLine) \in U
      /\ Ins("JEZ", 2, b, FALSE, NoLine) \in U /\ Ins("RET", 0, b + 1, TRUE, NoLine) \in U
  BY DEF OfEnds, Instruction, Ins, NoLine
<1> DEFINE jmp == Ins("JMP", -1, b, TRUE, NoLine)
           del == Ins("DEL", 0, b, TRUE, NoLine)
           ntr == Ins("NTR", 0, b, TRUE, NoLine)
           ger == Ins("GER", 0, b, FALSE, NoLine)
           jez == Ins("JEZ", 2, b, FALSE, NoLine)
           ret == Ins("RET", 0, b + 1, TRUE, NoLine)
<1>2. ExitBlock(k, b) \in {<<jmp>>, <<jmp, del>>, <<ntr, ger, jez>>, <<ret>>, <<>>}
  BY DEF ExitBlock
<1>3. /\ jmp \in U /\ del \in U /\ ntr \in U /\ ger \in U /\ jez \in U /\ ret \in U
  BY <1>1
<1> HIDE DEF jmp, del, ntr, ger, jez, ret
<1>4. /\ <<jmp>> \in Seq(U) /\ <<jmp, del>> \in Seq(U) /\ <<ntr, ger, jez>> \in Seq(U)
      /\ <<ret>> \in Seq(U) /\ <<>> \in Seq(U)
  BY <1>3
<1> QED
  BY <1>2, <1>4

LEMMA LineCodeIs ==
  ASSUME NEW i \in Nat, NEW d \in Int, NEW k
  PROVE  /\ LineCode(i, d, k) \in Seq(OfLine(i, d))
         /\ LineCode(i, d, k) # <<>> /\ LineCode(i, d, k)[1].nl
         /\ k = "def" => LineCode(i, d, k)[1].src = <<i, 0>>
<1> DEFINE I(name, val, nl)  == Ins(name, val, d, nl, NoLine)
           A(name, val, nl) == Ins(name, val, d, nl, <<i, 0>>)
           evalTest == A("EVAL", 2, TRUE)
           evalElif == A("EVAL", 2, FALSE)
           evalFor  == Ins("EVAL", 2, d, TRUE, <<i, 1>>)
           eval     == A("EVAL", 1, TRUE)
           jez1 == I("JEZ", 1, FALSE)
           jez2 == I("JEZ", 2, FALSE)
           nel  == I("NEL", 1, TRUE)
           try  == I("TRY", 0, TRUE)
           exp  == I("EXP", 0, TRUE)
           def  == A("DEF", 0, TRUE)
           jmp  == I("JMP", 1, FALSE)
           brk  == A("BRK", 0, TRUE)
           ctn  == A("CTN", 0, TRUE)
           ris  == A("RIS", 0, TRUE)
           ret  == I("RET", 0, FALSE)
           All == {<<evalTest, jez1>>, <<nel, evalElif, jez1>>, <<nel>>, <<evalTest, jez2>>,
                   <<eval, evalFor, jez2>>, <<try>>, <<exp>>, <<def, jmp>>, <<brk>>, <<ctn>>,
                   <<ris>>, <<eval, ret>>, <<eval>>}
<1>1. LineCode(i, d, k) \in All
  BY DEF LineCode
<1>2. /\ evalTest \in OfLine(i, d) /\ evalElif \in OfLine(i, d) /\ evalFor \in OfLine(i, d) /\ eval \in OfLine(i, d)
      /\ jez1 \in OfLine(i, d) /\ jez2 \in OfLine(i, d) /\ nel \in OfLine(i, d) /\ try \in OfLine(i, d) /\ exp \in OfLine(i, d)
      /\ def \in OfLine(i, d) /\ jmp \in OfLine(i, d) /\ brk \in OfLine(i, d) /\ ctn \in OfLine(i, d) /\ ris \in OfLine(i, d)
      /\ ret \in OfLine(i, d)
  BY DEF OfLine, Instruction, Ins, NoLine
<1>4. /\ evalTest.nl /\ nel.nl /\ eval.nl /\ try.nl /\ exp.nl /\ def.nl /\ brk.nl /\ ctn.nl /\ ris.nl
      /\ def.src = <<i, 0>>
  BY DEF Ins
<1>5. k = "def" => LineCode(i, d, k) = <<def, jmp>>
  BY DEF LineCode
<1> HIDE DEF evalTest, evalElif, evalFor, eval, jez1, jez2, nel, try, exp, def, jmp, brk, ctn, ris, ret
<1>3. /\ <<evalTest, jez1>> \in Seq(OfLine(i, d)) /\ <<nel, evalElif, jez1>> \in Seq(OfLine(i, d))
      /\ <<nel>> \in Seq(OfLine(i, d)) /\ <<evalTest, jez2>> \in Seq(OfLine(i, d))
      /\ <<eval, evalFor, jez2>> \in Seq(OfLine(i, d)) /\ <<try>> \in Seq(OfLine(i, d))
      /\ <<exp>> \in Seq(OfLine(i, d)) /\ <<def, jmp>> \in Seq(OfLine(i, d)) /\ <<brk>> \in Seq(OfLine(i, d))
      /\ <<ctn>> \in Seq(OfLine(i, d)) /\ <<ris>> \in Seq(OfLine(i, d)) /\ <<eval, ret>> \in Seq(OfLine(i, d))
      /\ <<eval>> \in Seq(OfLine(i, d))
  BY <1>2
<1>6. LineCode(i, d, k) \in Seq(OfLine(i, d))
  BY <1>1, <1>3, Zenon
<1>7. \A s \in All : s # <<>> /\ s[1].nl
  BY <1>4
<1>8. <<def, jmp>>[1].src = <<i, 0>>
  BY <1>4
<1> HIDE DEF All
<1> QED
  BY <1>1, <1>5, <1>6, <1>7, <1>8

(* The blocks that a line leaves are left by such instructions.            *)
LEMMA ExitBlocksIs ==
  ASSUME NEW s \in Seq(Kinds), NEW d \in Nat PROVE ExitBlocks(s, d) \in Seq(OfEnds(Len(s)))
<1> DEFINE V == Seq(Instruction)
           More == {b \in Nat : b > d}
           rank == [b \in Nat |-> b]
           next == [b \in More |-> b - 1]
           base == [b \in Nat |-> <<>>]
           op == [bv \in More \X V |-> ExitBlock(s[bv[1]], bv[1] - 1) \o bv[2]]
           Body(g, b) == IF b <= d THEN <<>> ELSE ExitBlock(s[b], b - 1) \o g[b - 1]
           h == CHOOSE g : g = [b \in Nat |-> Body(g, b)]
<1>1. Ranked(Nat, rank, More, next)
  BY DEF Ranked
<1>2. base \in [Nat -> V]
  BY EmptySeq
<1>3. op \in [More \X V -> V]
  <2>1. \A b \in More, v \in V : ExitBlock(s[b], b - 1) \o v \in V
    <3> SUFFICES ASSUME NEW b \in More, NEW v \in V PROVE ExitBlock(s[b], b - 1) \o v \in V
      OBVIOUS
    <3> DEFINE e == ExitBlock(s[b], b - 1)
    <3>1. e \in V
      <4>1. e \in Seq(OfEnds(b - 1 + 1))
        BY ExitBlockIs
      <4> QED
        BY <4>1, EndsWider, SeqWider
    <3> HIDE DEF e
    <3>2. e \o v \in V
      BY <3>1, ConcatProperties
    <3> QED
      BY <3>2 DEF e
  <2> QED
    BY <2>1
<1>4. \E f \in [Nat -> V] : Solves(f, Nat, More, next, base, op)
  <2> HIDE DEF V, More, rank, next, base, op
  <2> QED
    BY <1>1, <1>2, <1>3, Recursive
<1>5. PICK f \in [Nat -> V] : \A b \in Nat :
        f[b] = IF b \in More THEN op[<<b, f[next[b]]>>] ELSE base[b]
  BY <1>4 DEF Solves
<1>6. ASSUME NEW b \in Nat PROVE f[b] = Body(f, b)
  <2>1. CASE b \in More
    <3>1. b - 1 \in Nat /\ next[b] = b - 1 /\ f[b - 1] \in V
      BY <2>1
    <3>2. op[<<b, f[b - 1]>>] = ExitBlock(s[b], b - 1) \o f[b - 1]
      BY <2>1, <3>1
    <3>3. ~(b <= d)
      BY <2>1
    <3> HIDE DEF op, next, V
    <3> QED
      BY <1>5, <2>1, <3>1, <3>2, <3>3
  <2>2. CASE b \notin More
    <3>1. b <= d
      BY <2>2
    <3>2. f[b] = <<>>
      BY <1>5, <2>2
    <3> QED
      BY <3>1, <3>2
  <2> QED
    BY <2>1, <2>2
<1>7. f = [b \in Nat |-> Body(f, b)]
  BY <1>6
<1>8. h = [b \in Nat |-> Body(h, b)]
  BY <1>7
<1>9. ExitBlocks(s, d) = h[Len(s)]
  BY DEF ExitBlocks
<1> HIDE DEF h
<1>10. \A b \in Nat : h[b] = Body(h, b)
  BY <1>8
<1> DEFINE T == {b \in Nat : h[b] \in Seq(OfEnds(b))}
<1>11. 0 \in T
  <2>1. h[0] = Body(h, 0) /\ 0 <= d
    BY <1>10
  <2>2. h[0] = <<>>
    BY <2>1
  <2> QED
    BY <2>2, EmptySeq
<1>12. ASSUME NEW b \in Nat, b \in T PROVE b + 1 \in T
  <2>1. PICK a \in Nat : a = b + 1 /\ a - 1 = b
    OBVIOUS
  <2>2. h[a] = Body(h, a)
    BY <1>10
  <2>3. h[a] = <<>> \/ h[a] = ExitBlock(s[a], b) \o h[b]
    BY <2>1, <2>2
  <2>4. ExitBlock(s[a], b) \o h[b] \in Seq(OfEnds(b + 1))
    <3> DEFINE e == ExitBlock(s[a], b)
               v == h[b]
    <3>1. e \in Seq(OfEnds(b + 1)) /\ v \in Seq(OfEnds(b + 1))
      <4>1. e \in Seq(OfEnds(b + 1)) /\ v \in Seq(OfEnds(b))
        BY <1>12, ExitBlockIs
      <4>2. OfEnds(b) \subseteq OfEnds(b + 1)
        BY EndsWider
      <4> HIDE DEF e, v
      <4> QED
        BY <4>1, <4>2, SeqWider
    <3> HIDE DEF e, v
    <3>2. e \o v \in Seq(OfEnds(b + 1))
      BY <3>1, ConcatProperties
    <3> QED
      BY <3>2 DEF e, v
  <2>5. h[a] \in Seq(OfEnds(b + 1))
    BY <2>3, <2>4, EmptySeq, Zenon
  <2> QED
    BY <2>1, <2>5
<1> HIDE DEF T
<1>13. \A b \in Nat : b \in T
  BY <1>11, <1>12, NatInduct
<1>14. Len(s) \in Nat
  OBVIOUS
<1> QED
  BY <1>9, <1>13, <1>14 DEF T

-----------------------------------------------------------------------------
(* Every jump back has a line of its depth before it, the head of its      *)
(* loop.                                                                   *)
Backs(c) ==
  \A q \in DOMAIN c : c[q].ins = "JMP" /\ c[q].val = -1 =>
    \E j \in 1 .. q - 1 : c[j].nl /\ c[j].bd = c[q].bd

(* The stack has the blocks that are open after the last line, and the     *)
(* lines that opened them are in the bytecode.                             *)
Line == [d : Nat, k : Kinds]
Open(p) == IF p = <<>> THEN 0
           ELSE p[Len(p)].d + (IF p[Len(p)].k \in Openers THEN 1 ELSE 0)
Opened(m, c) == \A b \in 1 .. m : \E j \in DOMAIN c : c[j].nl /\ c[j].bd = b - 1

(* The instructions of a line name it, and after the DEF of a function     *)
(* comes its body.                                                         *)
Defined(p, c) ==
  /\ p # <<>> => c # <<>>
  /\ \A q \in DOMAIN c : c[q].src[1] \in 0 .. Len(p)
  /\ \A i \in DOMAIN p : p[i].k = "def" => \E q \in DOMAIN c : c[q].src = <<i, 0>>
  /\ \A q \in DOMAIN c, i \in DOMAIN p :
       p[i].k = "def" /\ c[q].src = <<i, 0>> =>
         /\ c[q].bd = p[i].d
         /\ i < Len(p) => \E j \in q + 1 .. Len(c) : c[j].nl /\ c[j].bd = c[q].bd + 1

Types == /\ code \in Seq(Instruction) /\ prog \in Seq(Line) /\ stack \in Seq(Kinds)
         /\ pc \in {VM_PC_EXIT, VM_PC_WILD} \cup 0 .. Len(code)

VInv == /\ Types /\ Backs(code)
        /\ pc = 0 => Len(stack) = Open(prog) /\ Opened(Len(stack), code) /\ Defined(prog, code)

-----------------------------------------------------------------------------
(* What is appended changes nothing before it.                             *)
LEMMA Appended ==
  ASSUME NEW c \in Seq(Instruction), NEW U, U \subseteq Instruction, NEW e \in Seq(U)
  PROVE  /\ c \o e \in Seq(Instruction) /\ Len(c \o e) = Len(c) + Len(e)
         /\ DOMAIN (c \o e) = 1 .. Len(c) + Len(e) /\ DOMAIN c = 1 .. Len(c)
         /\ Len(c) \in Nat /\ Len(e) \in Nat
         /\ \A q \in 1 .. Len(c) : (c \o e)[q] = c[q]
         /\ \A q \in 1 .. Len(c) + Len(e) :
              q \in 1 .. Len(c) \/ (q - Len(c) \in 1 .. Len(e) /\ (c \o e)[q] \in U
                                     /\ (c \o e)[q] = e[q - Len(c)])
<1>1. e \in Seq(Instruction)
  BY SeqWider
<1>2. /\ c \o e \in Seq(Instruction) /\ Len(c \o e) = Len(c) + Len(e)
      /\ \A q \in 1 .. Len(c) + Len(e) : (c \o e)[q] = IF q <= Len(c) THEN c[q] ELSE e[q - Len(c)]
  BY <1>1, ConcatProperties
<1>3. Len(c) \in Nat /\ Len(e) \in Nat /\ \A q \in 1 .. Len(e) : e[q] \in U
  OBVIOUS
<1>4. ASSUME NEW q \in 1 .. Len(c) + Len(e), q \notin 1 .. Len(c)
      PROVE  q - Len(c) \in 1 .. Len(e) /\ (c \o e)[q] \in U /\ (c \o e)[q] = e[q - Len(c)]
  <2>1. q - Len(c) \in 1 .. Len(e) /\ ~(q <= Len(c))
    BY <1>3, <1>4
  <2> QED
    BY <1>2, <1>3, <2>1
<1>5. DOMAIN (c \o e) = 1 .. Len(c) + Len(e)
  <2> DEFINE u == c \o e
  <2>1. u \in Seq(Instruction) /\ Len(u) = Len(c) + Len(e)
    BY <1>2
  <2> HIDE DEF u
  <2>2. DOMAIN u = 1 .. Len(c) + Len(e)
    BY <2>1
  <2> QED
    BY <2>2 DEF u
<1> QED
  BY <1>2, <1>3, <1>4, <1>5

LEMMA BacksEnds ==
  ASSUME NEW c \in Seq(Instruction), NEW m \in Nat, Backs(c), Opened(m, c), NEW e \in Seq(OfEnds(m))
  PROVE  Backs(c \o e)
<1> DEFINE u == c \o e
<1>1. /\ DOMAIN u = 1 .. Len(c) + Len(e) /\ DOMAIN c = 1 .. Len(c) /\ Len(c) \in Nat
      /\ \A q \in 1 .. Len(c) : u[q] = c[q]
      /\ \A q \in 1 .. Len(c) + Len(e) : q \in 1 .. Len(c) \/ (q - Len(c) \in 1 .. Len(e) /\ u[q] \in OfEnds(m))
  BY Appended, EndsWider
<1> HIDE DEF u
<1>2. ASSUME NEW q \in DOMAIN u, u[q].ins = "JMP", u[q].val = -1
      PROVE  \E j \in 1 .. q - 1 : u[j].nl /\ u[j].bd = u[q].bd
  <2>1. CASE q \in 1 .. Len(c)
    <3>1. PICK j \in 1 .. q - 1 : c[j].nl /\ c[j].bd = c[q].bd
      BY <1>1, <1>2, <2>1 DEF Backs
    <3>2. u[j] = c[j] /\ u[q] = c[q]
      BY <1>1, <2>1
    <3> QED
      BY <3>1, <3>2
  <2>2. CASE q \notin 1 .. Len(c)
    <3>1. u[q] \in OfEnds(m) /\ q - Len(c) \in 1 .. Len(e)
      BY <1>1, <2>2
    <3>2. u[q].bd \in 0 .. m - 1
      BY <1>2, <3>1 DEF OfEnds
    <3>3. PICK b \in 1 .. m : b - 1 = u[q].bd
      BY <3>2
    <3>4. PICK j \in DOMAIN c : c[j].nl /\ c[j].bd = b - 1
      BY DEF Opened
    <3>5. j \in 1 .. q - 1 /\ u[j] = c[j]
      BY <1>1, <3>1, <3>4
    <3> QED
      BY <3>3, <3>4, <3>5
  <2> QED
    BY <2>1, <2>2
<1>3. Backs(u)
  BY <1>2 DEF Backs
<1> QED
  BY <1>3 DEF u

LEMMA BacksLine ==
  ASSUME NEW c \in Seq(Instruction), Backs(c), NEW i, NEW d, NEW e \in Seq(OfLine(i, d))
  PROVE  Backs(c \o e)
<1> DEFINE u == c \o e
<1>1. /\ DOMAIN u = 1 .. Len(c) + Len(e) /\ DOMAIN c = 1 .. Len(c) /\ Len(c) \in Nat
      /\ \A q \in 1 .. Len(c) : u[q] = c[q]
      /\ \A q \in 1 .. Len(c) + Len(e) : q \in 1 .. Len(c) \/ u[q] \in OfLine(i, d)
  BY Appended, EndsWider
<1> HIDE DEF u
<1>2. ASSUME NEW q \in DOMAIN u, u[q].ins = "JMP", u[q].val = -1
      PROVE  \E j \in 1 .. q - 1 : u[j].nl /\ u[j].bd = u[q].bd
  <2>1. q \in 1 .. Len(c)
    BY <1>1, <1>2 DEF OfLine
  <2>2. PICK j \in 1 .. q - 1 : c[j].nl /\ c[j].bd = c[q].bd
    BY <1>1, <1>2, <2>1 DEF Backs
  <2>3. u[j] = c[j] /\ u[q] = c[q]
    BY <1>1, <2>1
  <2> QED
    BY <2>2, <2>3
<1>3. Backs(u)
  BY <1>2 DEF Backs
<1> QED
  BY <1>3 DEF u

LEMMA OpenedOn ==
  ASSUME NEW c \in Seq(Instruction), NEW m, Opened(m, c), NEW e \in Seq(Instruction)
  PROVE  Opened(m, c \o e)
<1> DEFINE u == c \o e
<1>1. /\ DOMAIN u = 1 .. Len(c) + Len(e) /\ DOMAIN c = 1 .. Len(c) /\ Len(c) \in Nat /\ Len(e) \in Nat
      /\ \A q \in 1 .. Len(c) : u[q] = c[q]
  BY Appended
<1> HIDE DEF u
<1>2. Opened(m, u)
  <2> SUFFICES ASSUME NEW b \in 1 .. m PROVE \E j \in DOMAIN u : u[j].nl /\ u[j].bd = b - 1
    BY DEF Opened
  <2>1. PICK j \in DOMAIN c : c[j].nl /\ c[j].bd = b - 1
    BY DEF Opened
  <2> QED
    BY <1>1, <2>1
<1> QED
  BY <1>2 DEF u

LEMMA DefinedEnds ==
  ASSUME NEW p \in Seq(Line), NEW c \in Seq(Instruction), Defined(p, c), NEW m,
         NEW e \in Seq(OfEnds(m))
  PROVE  /\ Defined(p, c \o e)
         /\ \A q \in DOMAIN (c \o e), i \in DOMAIN p : (c \o e)[q].src = <<i, 0>> => q \in DOMAIN c
<1> DEFINE u == c \o e
<1>1. /\ u \in Seq(Instruction) /\ Len(u) = Len(c) + Len(e)
      /\ DOMAIN u = 1 .. Len(c) + Len(e) /\ DOMAIN c = 1 .. Len(c) /\ Len(c) \in Nat /\ Len(e) \in Nat
      /\ \A q \in 1 .. Len(c) : u[q] = c[q]
      /\ \A q \in 1 .. Len(c) + Len(e) : q \in 1 .. Len(c) \/ u[q] \in OfEnds(m)
  BY Appended, EndsWider
<1> HIDE DEF u
<1>2. DOMAIN p = 1 .. Len(p) /\ Len(p) \in Nat
  OBVIOUS
<1>3. \A q \in DOMAIN u : q \in DOMAIN c \/ u[q].src = <<0, 0>>
  BY <1>1 DEF OfEnds, NoLine
<1>4. \A q \in DOMAIN u, i \in DOMAIN p : u[q].src = <<i, 0>> => q \in DOMAIN c
  BY <1>2, <1>3
<1>5. p # <<>> => u # <<>>
  <2>1. p # <<>> => Len(c) > 0
    BY EmptySeq DEF Defined
  <2>2. Len(u) > 0 => u # <<>>
    OBVIOUS
  <2> QED
    BY <1>1, <2>1, <2>2
<1>6. \A q \in DOMAIN u : u[q].src[1] \in 0 .. Len(p)
  BY <1>1, <1>2, <1>3 DEF Defined
<1>7. \A i \in DOMAIN p : p[i].k = "def" => \E q \in DOMAIN u : u[q].src = <<i, 0>>
  <2> SUFFICES ASSUME NEW i \in DOMAIN p, p[i].k = "def" PROVE \E q \in DOMAIN u : u[q].src = <<i, 0>>
    OBVIOUS
  <2>1. PICK q \in DOMAIN c : c[q].src = <<i, 0>>
    BY DEF Defined
  <2>2. u[q] = c[q] /\ q \in DOMAIN u
    BY <1>1
  <2> QED
    BY <2>1, <2>2
<1>8. ASSUME NEW q \in DOMAIN u, NEW i \in DOMAIN p, p[i].k = "def", u[q].src = <<i, 0>>
      PROVE  /\ u[q].bd = p[i].d
             /\ i < Len(p) => \E j \in q + 1 .. Len(u) : u[j].nl /\ u[j].bd = u[q].bd + 1
  <2>1. q \in DOMAIN c /\ u[q] = c[q]
    BY <1>1, <1>4, <1>8
  <2>2. c[q].bd = p[i].d /\ (i < Len(p) => \E j \in q + 1 .. Len(c) : c[j].nl /\ c[j].bd = c[q].bd + 1)
    BY <1>8, <2>1 DEF Defined
  <2>3. \A j \in q + 1 .. Len(c) : j \in q + 1 .. Len(u) /\ u[j] = c[j]
    BY <1>1, <2>1
  <2> QED
    BY <2>1, <2>2, <2>3
<1>9. Defined(p, u)
  BY <1>5, <1>6, <1>7, <1>8 DEF Defined
<1> QED
  BY <1>4, <1>9 DEF u

LEMMA DefinedLine ==
  ASSUME NEW p \in Seq(Line), NEW c \in Seq(Instruction), Defined(p, c),
         NEW l \in Line, NEW e \in Seq(OfLine(Len(p) + 1, l.d)),
         e # <<>>, e[1].nl, l.k = "def" => e[1].src = <<Len(p) + 1, 0>>,
         p # <<>> /\ p[Len(p)].k = "def" => l.d = p[Len(p)].d + 1
  PROVE  Defined(Append(p, l), c \o e)
<1> DEFINE u == c \o e
           r == Append(p, l)
<1>1. /\ u \in Seq(Instruction) /\ Len(u) = Len(c) + Len(e)
      /\ DOMAIN u = 1 .. Len(c) + Len(e) /\ DOMAIN c = 1 .. Len(c) /\ Len(c) \in Nat /\ Len(e) \in Nat
      /\ \A q \in 1 .. Len(c) : u[q] = c[q]
      /\ \A q \in 1 .. Len(c) + Len(e) :
           q \in 1 .. Len(c) \/ (q - Len(c) \in 1 .. Len(e) /\ u[q] \in OfLine(Len(p) + 1, l.d)
                                   /\ u[q] = e[q - Len(c)])
  <2>1. OfLine(Len(p) + 1, l.d) \subseteq Instruction
    BY EndsWider
  <2> QED
    BY <2>1, Appended
<1>2. /\ DOMAIN p = 1 .. Len(p) /\ Len(p) \in Nat /\ r \in Seq(Line) /\ Len(r) = Len(p) + 1
      /\ DOMAIN r = 1 .. Len(p) + 1 /\ r[Len(p) + 1] = l /\ \A i \in 1 .. Len(p) : r[i] = p[i]
  BY AppendProperties
<1> HIDE DEF u, r
<1>3. Len(e) >= 1
  BY <1>1, EmptySeq
<1>4. \A q \in DOMAIN u : \/ q \in DOMAIN c
                          \/ /\ u[q].src \in {<<0, 0>>, <<Len(p) + 1, 0>>, <<Len(p) + 1, 1>>}
                             /\ u[q].bd = l.d
  BY <1>1 DEF OfLine, NoLine
<1>5. PICK a \in DOMAIN u : a = Len(c) + 1 /\ u[a] = e[1] /\ u[a].bd = l.d
  <2>1. Len(c) + 1 \in 1 .. Len(c) + Len(e) /\ Len(c) + 1 \notin 1 .. Len(c) /\ Len(c) + 1 - Len(c) = 1
    BY <1>1, <1>3
  <2> QED
    BY <1>1, <1>4, <2>1
<1>6. r # <<>> => u # <<>>
  <2>1. Len(u) > 0 => u # <<>>
    OBVIOUS
  <2> QED
    BY <1>1, <1>3, <2>1
<1>7. \A q \in DOMAIN u : u[q].src[1] \in 0 .. Len(r)
  <2>1. \A q \in DOMAIN c : u[q].src[1] \in 0 .. Len(p)
    BY <1>1 DEF Defined
  <2> QED
    BY <1>2, <1>4, <2>1
<1>8. \A i \in DOMAIN r : r[i].k = "def" => \E q \in DOMAIN u : u[q].src = <<i, 0>>
  <2> SUFFICES ASSUME NEW i \in DOMAIN r, r[i].k = "def" PROVE \E q \in DOMAIN u : u[q].src = <<i, 0>>
    OBVIOUS
  <2>1. CASE i \in DOMAIN p
    <3>1. PICK q \in DOMAIN c : c[q].src = <<i, 0>>
      BY <1>2, <2>1 DEF Defined
    <3>2. u[q] = c[q] /\ q \in DOMAIN u
      BY <1>1
    <3> QED
      BY <3>1, <3>2
  <2>2. CASE i \notin DOMAIN p
    <3>1. i = Len(p) + 1
      BY <1>2, <2>2
    <3> QED
      BY <1>2, <1>5, <3>1
  <2> QED
    BY <2>1, <2>2
<1>9. ASSUME NEW q \in DOMAIN u, NEW i \in DOMAIN r, r[i].k = "def", u[q].src = <<i, 0>>
      PROVE  /\ u[q].bd = r[i].d
             /\ i < Len(r) => \E j \in q + 1 .. Len(u) : u[j].nl /\ u[j].bd = u[q].bd + 1
  <2>1. CASE q \in DOMAIN c
    <3>1. u[q] = c[q] /\ i \in 1 .. Len(p)
      <4>1. c[q].src[1] \in 0 .. Len(p) /\ u[q] = c[q]
        BY <1>1, <2>1 DEF Defined
      <4>2. c[q].src[1] = i
        BY <1>9, <4>1
      <4> QED
        BY <1>2, <4>1, <4>2
    <3>2. p[i].k = "def" /\ r[i] = p[i]
      BY <1>2, <1>9, <3>1
    <3>3. c[q].bd = p[i].d /\ (i < Len(p) => \E j \in q + 1 .. Len(c) : c[j].nl /\ c[j].bd = c[q].bd + 1)
      BY <1>2, <1>9, <2>1, <3>1, <3>2 DEF Defined
    <3>4. CASE i < Len(p)
      <4>1. PICK j \in q + 1 .. Len(c) : c[j].nl /\ c[j].bd = c[q].bd + 1
        BY <3>3, <3>4
      <4>2. j \in q + 1 .. Len(u) /\ u[j] = c[j]
        BY <1>1, <2>1
      <4> QED
        BY <3>1, <3>2, <3>3, <4>1, <4>2
    <3>5. CASE i = Len(p)
      <4>1. p # <<>>
        BY <1>2, <3>1, EmptySeq
      <4>2. l.d = p[i].d + 1
        BY <3>2, <3>5, <4>1
      <4>3. a \in q + 1 .. Len(u) /\ u[a].nl /\ u[a].bd = u[q].bd + 1
        BY <1>1, <1>5, <2>1, <3>1, <3>3, <4>2
      <4> QED
        BY <3>1, <3>2, <3>3, <4>3
    <3> QED
      BY <1>2, <3>1, <3>4, <3>5
  <2>2. CASE q \notin DOMAIN c
    <3>1. u[q].src \in {<<0, 0>>, <<Len(p) + 1, 0>>, <<Len(p) + 1, 1>>} /\ u[q].bd = l.d
      BY <1>4, <2>2
    <3>2. i = Len(p) + 1
      BY <1>2, <1>9, <3>1
    <3> QED
      BY <1>2, <3>1, <3>2
  <2> QED
    BY <2>1, <2>2
<1>10. Defined(r, u)
  BY <1>6, <1>7, <1>8, <1>9 DEF Defined
<1> QED
  BY <1>10 DEF u, r

-----------------------------------------------------------------------------
(* A line leaves the blocks that are deeper and may open one.              *)
LEMMA StackedIs ==
  ASSUME NEW s \in Seq(Kinds), NEW d \in 0 .. Len(s), NEW k \in Kinds
  PROVE  /\ Stacked(s, d, k) \in Seq(Kinds)
         /\ Len(Stacked(s, d, k)) = d + (IF k \in Openers THEN 1 ELSE 0)
<1> DEFINE kept == IF d < Len(s) THEN SubSeq(s, 1, d) ELSE s
<1>1. kept \in Seq(Kinds) /\ Len(kept) = d
  <2>1. CASE d < Len(s)
    <3>1. Len(s) \in Nat /\ d \in Int /\ \A a \in 1 .. d : s[a] \in Kinds
      OBVIOUS
    <3>2. SubSeq(s, 1, d) \in Seq(Kinds) /\ Len(SubSeq(s, 1, d)) = IF 1 <= d THEN d - 1 + 1 ELSE 0
      BY <3>1, SubSeqProperties
    <3> QED
      BY <2>1, <3>1, <3>2
  <2>2. CASE ~(d < Len(s))
    BY <2>2
  <2> QED
    BY <2>1, <2>2
<1>2. Stacked(s, d, k) = IF k \in Openers THEN Append(kept, k) ELSE kept
  BY DEF Stacked
<1> HIDE DEF kept
<1>3. Append(kept, k) \in Seq(Kinds) /\ Len(Append(kept, k)) = d + 1
  BY <1>1, AppendProperties
<1> QED
  BY <1>1, <1>2, <1>3

(* parser_lines2Target keeps the layout of the bytecode.                   *)
LEMMA ParseInv ==
  ASSUME VInv, NEW d \in 0 .. MaxDepth, NEW k \in UsedKinds, ParseLine(d, k)
  PROVE  VInv'
<1> DEFINE l == [d |-> d, k |-> k]
           r == Append(prog, l)
           e == ExitBlocks(stack, d)
           w == LineCode(Len(r), d, k)
<1>1. k \in Kinds /\ d \in Nat /\ l \in Line /\ l.d = d /\ l.k = k
  BY ControlAssumption DEF UsedKinds, Line
<1>2. /\ pc = 0 /\ pc' = 0 /\ prog' = r /\ Fits(prog, d, k)
      /\ code' = code \o e \o w /\ stack' = Stacked(stack, d, k)
  BY DEF ParseLine, frame
<1>3. /\ code \in Seq(Instruction) /\ prog \in Seq(Line) /\ stack \in Seq(Kinds) /\ Backs(code)
      /\ Len(stack) = Open(prog) /\ Opened(Len(stack), code) /\ Defined(prog, code)
  BY <1>2 DEF VInv, Types
<1>4. /\ r \in Seq(Line) /\ Len(r) = Len(prog) + 1 /\ r[Len(r)] = l /\ r # <<>>
      /\ Len(prog) \in Nat /\ Len(stack) \in Nat
  <2>1. r \in Seq(Line) /\ Len(r) = Len(prog) + 1 /\ r[Len(prog) + 1] = l /\ Len(prog) \in Nat
    BY <1>1, <1>3, AppendProperties
  <2>2. Len(r) # 0
    BY <2>1
  <2> HIDE DEF r
  <2> QED
    BY <1>3, <2>1, <2>2, EmptySeq
<1>5. d <= Len(stack) /\ (prog # <<>> /\ prog[Len(prog)].k \in Openers => d = prog[Len(prog)].d + 1)
  <2>1. CASE prog = <<>>
    BY <1>2, <1>4, <2>1 DEF Fits
  <2>2. CASE prog # <<>>
    <3>1. prog[Len(prog)] \in Line
      BY <1>3, <1>4, <2>2, EmptySeq
    <3>2. IF prog[Len(prog)].k \in Openers THEN d = prog[Len(prog)].d + 1 ELSE d <= prog[Len(prog)].d
      BY <1>2, <2>2 DEF Fits
    <3>3. prog[Len(prog)].d \in Nat
      BY <3>1 DEF Line
    <3> QED
      BY <1>1, <1>3, <2>2, <3>2, <3>3 DEF Open
  <2> QED
    BY <2>1, <2>2
<1>6. e \in Seq(OfEnds(Len(stack)))
  BY <1>1, <1>3, ExitBlocksIs
<1>7. w \in Seq(OfLine(Len(prog) + 1, d)) /\ w # <<>> /\ w[1].nl
      /\ (k = "def" => w[1].src = <<Len(prog) + 1, 0>>)
  <2> DEFINE m == Len(r)
  <2>1. m \in Nat /\ m = Len(prog) + 1
    BY <1>4
  <2> HIDE DEF m
  <2>2. /\ LineCode(m, d, k) \in Seq(OfLine(m, d)) /\ LineCode(m, d, k) # <<>> /\ LineCode(m, d, k)[1].nl
        /\ (k = "def" => LineCode(m, d, k)[1].src = <<m, 0>>)
    BY <1>1, <2>1, LineCodeIs
  <2> QED
    BY <2>1, <2>2 DEF m
<1> HIDE DEF l, r, e, w
<1> DEFINE c == code \o e
<1>8. c \in Seq(Instruction) /\ Backs(c) /\ Opened(Len(stack), c) /\ Defined(prog, c)
  <2>1. e \in Seq(Instruction)
    BY <1>6, EndsWider, SeqWider
  <2>2. c \in Seq(Instruction)
    BY <1>3, <2>1, ConcatProperties
  <2>3. Backs(c)
    BY <1>3, <1>4, <1>6, BacksEnds
  <2>4. Opened(Len(stack), c)
    BY <1>3, <2>1, OpenedOn
  <2>5. Defined(prog, c)
    BY <1>3, <1>6, DefinedEnds
  <2> QED
    BY <2>2, <2>3, <2>4, <2>5
<1> HIDE DEF c
<1>9. code' = c \o w
  BY <1>2 DEF c
<1>10. OfLine(Len(prog) + 1, d) \subseteq Instruction
  BY EndsWider
<1>11. code' \in Seq(Instruction)
  BY <1>7, <1>8, <1>9, <1>10, Appended
<1>12. Backs(code')
  BY <1>7, <1>8, <1>9, BacksLine
<1>13. Defined(r, code')
  <2>1. prog # <<>> /\ prog[Len(prog)].k = "def" => l.d = prog[Len(prog)].d + 1
    BY <1>1, <1>5 DEF Openers
  <2>2. w \in Seq(OfLine(Len(prog) + 1, l.d)) /\ (l.k = "def" => w[1].src = <<Len(prog) + 1, 0>>)
    BY <1>1, <1>7
  <2>3. Defined(Append(prog, l), c \o w)
    BY <1>1, <1>3, <1>7, <1>8, <2>1, <2>2, DefinedLine
  <2> QED
    BY <1>9, <2>3 DEF r
<1>14. /\ stack' \in Seq(Kinds) /\ Len(stack') = d + (IF k \in Openers THEN 1 ELSE 0)
  <2>1. d \in 0 .. Len(stack)
    BY <1>1, <1>4, <1>5
  <2> QED
    BY <1>1, <1>2, <1>3, <2>1, StackedIs
<1>15. Len(stack') = Open(r)
  <2>1. \A m \in Line : r[Len(r)] = m => Open(r) = m.d + (IF m.k \in Openers THEN 1 ELSE 0)
    BY <1>4 DEF Open
  <2>2. Open(r) = l.d + (IF l.k \in Openers THEN 1 ELSE 0)
    BY <1>1, <1>4, <2>1
  <2> QED
    BY <1>1, <1>14, <2>2
<1>16. Opened(Len(stack'), code')
  <2>1. w \in Seq(Instruction)
    BY <1>7, <1>10, SeqWider
  <2>2. Opened(Len(stack), code')
    BY <1>8, <1>9, <2>1, OpenedOn
  <2>3. \E j \in DOMAIN code' : code'[j].nl /\ code'[j].bd = d
    <3> DEFINE u == c \o w
    <3>1. /\ DOMAIN u = 1 .. Len(c) + Len(w) /\ Len(c) \in Nat /\ Len(w) \in Nat
          /\ \A q \in 1 .. Len(c) + Len(w) :
               q \in 1 .. Len(c) \/ (q - Len(c) \in 1 .. Len(w) /\ u[q] \in OfLine(Len(prog) + 1, d)
                                       /\ u[q] = w[q - Len(c)])
      BY <1>7, <1>8, <1>10, Appended
    <3> HIDE DEF u
    <3>2. Len(w) >= 1
      BY <1>7, <3>1, EmptySeq
    <3>3. Len(c) + 1 \in 1 .. Len(c) + Len(w) /\ Len(c) + 1 \notin 1 .. Len(c) /\ Len(c) + 1 - Len(c) = 1
      BY <3>1, <3>2
    <3>4. u[Len(c) + 1] = w[1] /\ u[Len(c) + 1].bd = d
      BY <3>1, <3>3 DEF OfLine
    <3>5. \E j \in DOMAIN u : u[j].nl /\ u[j].bd = d
      BY <1>7, <3>1, <3>3, <3>4
    <3> QED
      BY <1>9, <3>5 DEF u
  <2> SUFFICES ASSUME NEW b \in 1 .. Len(stack') PROVE \E j \in DOMAIN code' : code'[j].nl /\ code'[j].bd = b - 1
    BY DEF Opened
  <2>4. b \in 1 .. Len(stack) \/ b - 1 = d
    BY <1>1, <1>4, <1>5, <1>14
  <2> QED
    BY <2>2, <2>3, <2>4 DEF Opened
<1>17. Types'
  <2>1. prog' \in Seq(Line) /\ pc' \in 0 .. Len(code')
    <3>1. Len(code') \in Nat
      BY <1>11
    <3> QED
      BY <1>2, <1>4, <3>1
  <2> QED
    BY <1>11, <1>14, <2>1 DEF Types
<1> QED
  BY <1>2, <1>12, <1>13, <1>15, <1>16, <1>17 DEF VInv

(* The frame starts inside of the bytecode, and a function at its body.    *)
LEMMA StartInv ==
  ASSUME VInv, NEW e \in {0} \cup {i \in DOMAIN prog : prog[i].k = "def"}, Start(e)
  PROVE  VInv'
<1> DEFINE x == ExitBlocks(stack, 0)
           c == code \o x
           q == IF e = 0 THEN 1 ELSE BodyOf(c, e)
<1>1. /\ pc = 0 /\ Complete(prog) /\ code' = c /\ stack' = <<>> /\ pc' = q /\ prog' = prog
  BY DEF Start
<1>2. /\ code \in Seq(Instruction) /\ prog \in Seq(Line) /\ stack \in Seq(Kinds) /\ Backs(code)
      /\ Opened(Len(stack), code) /\ Defined(prog, code) /\ Len(stack) \in Nat
      /\ Len(prog) \in Nat /\ DOMAIN prog = 1 .. Len(prog)
  BY <1>1 DEF VInv, Types
<1>3. x \in Seq(OfEnds(Len(stack)))
  BY <1>2, ExitBlocksIs
<1> HIDE DEF x
<1>4. /\ c \in Seq(Instruction) /\ Backs(c) /\ Defined(prog, c)
      /\ \A a \in DOMAIN c, i \in DOMAIN prog : c[a].src = <<i, 0>> => a \in DOMAIN code
  <2>1. OfEnds(Len(stack)) \subseteq Instruction
    BY EndsWider
  <2>2. c \in Seq(Instruction)
    BY <1>2, <1>3, <2>1, Appended
  <2>3. Backs(c)
    BY <1>2, <1>3, BacksEnds
  <2>4. Defined(prog, c) /\ \A a \in DOMAIN c, i \in DOMAIN prog : c[a].src = <<i, 0>> => a \in DOMAIN code
    BY <1>2, <1>3, DefinedEnds
  <2> QED
    BY <2>2, <2>3, <2>4
<1> HIDE DEF c
<1>5. prog # <<>> /\ prog[Len(prog)].k \notin Openers
  <2>1. prog # <<>> /\ Owed(prog) = 0
    BY <1>1 DEF Complete
  <2> DEFINE n == Len(prog)
             open == {j \in Ancestors(prog, n) \cup {n} : prog[j].k = "try"}
  <2>2. IsFiniteSet(open) /\ Cardinality(open) \in Nat
    <3>1. open \in SUBSET (1 .. n)
      BY <1>2, <2>1, EmptySeq DEF Ancestors
    <3>2. IsFiniteSet(1 .. n)
      BY <1>2, FS_Interval
    <3>3. IsFiniteSet(open)
      BY <3>1, <3>2, FS_Subset
    <3> QED
      BY <3>3, FS_CardinalityType
  <2>3. Owed(prog) = (IF prog[n].k \in Openers THEN 1 ELSE 0) + 2 * Cardinality(open)
    BY DEF Owed
  <2> HIDE DEF open
  <2>4. PICK card \in Nat : card = Cardinality(open)
    BY <2>2
  <2>5. (IF prog[n].k \in Openers THEN 1 ELSE 0) + 2 * card = 0
    BY <2>1, <2>3, <2>4
  <2> QED
    BY <2>1, <2>5
<1>6. q \in 1 .. Len(c)
  <2>1. CASE e = 0
    <3>1. c # <<>>
      BY <1>4, <1>5 DEF Defined
    <3> QED
      BY <1>4, <2>1, <3>1, EmptySeq
  <2>2. CASE e # 0
    <3>1. e \in DOMAIN prog /\ prog[e].k = "def"
      BY <2>2
    <3> DEFINE def == CHOOSE j \in DOMAIN c : c[j].src = <<e, 0>>
               B == {j \in def + 1 .. Len(c) : c[j].nl /\ c[j].bd = c[def].bd + 1}
    <3>2. \E j \in DOMAIN c : c[j].src = <<e, 0>>
      BY <1>4, <3>1 DEF Defined
    <3>3. def \in DOMAIN c /\ c[def].src = <<e, 0>>
      BY <3>2
    <3>4. e < Len(prog)
      <4>1. e # Len(prog)
        BY <1>5, <3>1 DEF Openers
      <4> QED
        BY <1>2, <3>1, <4>1
    <3>5. BodyOf(c, e) = Min(B)
      BY DEF BodyOf
    <3>6. DOMAIN c = 1 .. Len(c) /\ Len(c) \in Nat
      BY <1>4
    <3> HIDE DEF def
    <3>7. B # {}
      BY <1>4, <3>1, <3>3, <3>4 DEF Defined
    <3>8. B \in SUBSET Nat /\ B \subseteq 1 .. Len(c)
      BY <3>3, <3>6
    <3> HIDE DEF B
    <3>9. Min(B) \in B
      BY <3>7, <3>8, MinIs
    <3> QED
      BY <2>2, <3>5, <3>8, <3>9
  <2> QED
    BY <2>1, <2>2
<1> HIDE DEF q
<1>7. Types' /\ pc' # 0
  <2>1. pc' \in 1 .. Len(code') /\ Len(code') \in Nat
    BY <1>1, <1>4, <1>6
  <2>2. stack' \in Seq(Kinds)
    BY <1>1
  <2> QED
    BY <1>1, <1>2, <1>4, <2>1, <2>2 DEF Types
<1>8. Backs(code')
  BY <1>1, <1>4
<1> QED
  BY <1>7, <1>8 DEF VInv

-----------------------------------------------------------------------------
(* The jumps that the handler of the instruction at q asks for.            *)
Jumps(q) == {VM_JMP_EXIT, VM_JMP_BREAK, VM_JMP_CONTINUE, VM_JMP_RAISE, 0, 1, 2}
              \cup {a \in {-1} : code[q].ins = "JMP" /\ code[q].val = -1}

(* PikaVMFrame_getAddrOffsetOfRaise finds the end of a try, or none.       *)
LEMMA RaiseIs ==
  ASSUME Types, NEW q \in 1 .. Len(code)
  PROVE  \/ RaiseTarget(q) = VM_PC_EXIT
         \/ RaiseTarget(q) \in 1 .. Len(code) /\ code[RaiseTarget(q)].src = NoLine
<1> DEFINE S == {j \in q + 1 .. Len(code) : code[j].ins \in {"NTR", "RET"}}
<1>1. RaiseTarget(q) = IF S = {} \/ code[Min(S)].ins = "RET" THEN VM_PC_EXIT ELSE Min(S)
  BY DEF RaiseTarget
<1>2. S \in SUBSET Nat /\ S \subseteq 1 .. Len(code) /\ \A j \in S : code[j] \in Instruction
  BY DEF Types
<1>3. \A j \in S : code[j].ins \in {"NTR", "RET"}
  OBVIOUS
<1> HIDE DEF S
<1>4. ASSUME S # {} PROVE Min(S) \in S
  BY <1>2, <1>4, MinIs
<1>5. ASSUME S # {}, code[Min(S)].ins # "RET" PROVE Min(S) \in 1 .. Len(code) /\ code[Min(S)].src = NoLine
  BY <1>2, <1>3, <1>4, <1>5 DEF Instruction
<1> QED
  BY <1>1, <1>5

(* Every search for a target stays inside of the bytecode, but that of a   *)
(* break or continue without a loop end after it.                          *)
LEMMA TargetIs ==
  ASSUME Types, Backs(code), NEW q \in 1 .. Len(code), NEW jmp \in Jumps(q)
  PROVE  InArray(Target(q, jmp)) \in {VM_PC_EXIT, VM_PC_WILD} \cup 1 .. Len(code)
<1>0. Len(code) \in Nat /\ DOMAIN code = 1 .. Len(code)
  BY DEF Types
<1> USE DEF VM_PC_EXIT, VM_PC_WILD
<1>1. \A a \in {VM_PC_EXIT, VM_PC_WILD} \cup 1 .. Len(code) + 1 :
        InArray(a) \in {VM_PC_EXIT, VM_PC_WILD} \cup 1 .. Len(code)
  BY <1>0 DEF InArray
<1> SUFFICES Target(q, jmp) \in {VM_PC_EXIT, VM_PC_WILD} \cup 1 .. Len(code) + 1
  BY <1>1
<1> USE DEF VM_JMP_EXIT, VM_JMP_BREAK, VM_JMP_CONTINUE, VM_JMP_RAISE
<1>2. CASE jmp = VM_JMP_EXIT
  BY <1>2 DEF Target
<1>3. LoopEnd(q) = VM_PC_WILD \/ LoopEnd(q) \in 1 .. Len(code)
  <2> DEFINE E == {j \in q + 1 .. Len(code) : /\ code[j].ins = "JMP" /\ code[j].val = -1
                                              /\ code[j].bd = code[LoopHead(q)].bd}
  <2>1. LoopEnd(q) = IF E = {} THEN VM_PC_WILD ELSE Min(E)
    BY DEF LoopEnd
  <2>2. E \in SUBSET Nat /\ E \subseteq 1 .. Len(code)
    BY <1>0
  <2> HIDE DEF E
  <2>3. E # {} => Min(E) \in E
    BY <2>2, MinIs
  <2> QED
    BY <2>1, <2>2, <2>3
<1>4. CASE jmp = VM_JMP_BREAK
  BY <1>0, <1>3, <1>4 DEF Target
<1>5. CASE jmp = VM_JMP_CONTINUE
  BY <1>0, <1>3, <1>5 DEF Target
<1>6. CASE jmp = VM_JMP_RAISE
  BY <1>0, <1>6, RaiseIs DEF Target
<1>7. CASE jmp = 0
  BY <1>0, <1>7 DEF Target
<1>8. CASE jmp \in {1, 2}
  <2> DEFINE L == {j \in q + 1 .. Len(code) : code[j].nl /\ code[j].bd <= code[q].bd}
             R == {j \in L : Cardinality({m \in L : m <= j}) >= jmp}
  <2>1. Target(q, jmp) = IF R = {} THEN Len(code) + 1 ELSE Min(R)
    BY <1>8 DEF Target, Jump
  <2>2. R \in SUBSET Nat /\ R \subseteq 1 .. Len(code)
    BY <1>0
  <2> HIDE DEF R
  <2>3. R # {} => Min(R) \in 1 .. Len(code)
    BY <2>2, MinIs
  <2>4. CASE R = {}
    BY <1>0, <2>1, <2>4
  <2>5. CASE R # {}
    BY <1>0, <2>1, <2>3, <2>5
  <2> QED
    BY <2>4, <2>5
<1>9. CASE jmp = -1
  <2> DEFINE B == {j \in 1 .. q - 1 : code[j].nl /\ code[j].bd = code[q].bd}
  <2>1. Target(q, jmp) = Max(B)
    BY <1>9 DEF Target, Jump
  <2>2. code[q].ins = "JMP" /\ code[q].val = -1
    BY <1>9 DEF Jumps
  <2>3. B # {}
    BY <1>0, <2>2 DEF Backs
  <2>4. q - 1 \in Nat /\ B \in SUBSET (1 .. q - 1) /\ B \subseteq 1 .. Len(code)
    BY <1>0
  <2> DEFINE m == q - 1
  <2>5. m \in Nat /\ B \in SUBSET (1 .. m)
    BY <2>4
  <2> HIDE DEF B, m
  <2>6. Max(B) \in B
    BY <2>3, <2>5, MaxIs
  <2>7. Max(B) \in 1 .. Len(code)
    BY <2>4, <2>6
  <2> QED
    BY <1>0, <2>1, <2>7
<1> QED
  BY <1>2, <1>4, <1>5, <1>6, <1>7, <1>8, <1>9 DEF Jumps

-----------------------------------------------------------------------------
(* What an instruction does: it jumps as its handler asks, or to the       *)
(* except, or ends the frame; the last two if pika_vm_exit was called.     *)
Goes(jmp) ==
  /\ pc' = InArray(Target(pc, jmp))
  /\ signal_ctrl => jmp \in {VM_JMP_RAISE, VM_JMP_EXIT}
  /\ signal_ctrl /\ pc' = VM_PC_EXIT => at' = STOPPED
  /\ pc' \notin {VM_PC_EXIT, VM_PC_WILD} /\ LineAt(pc') = NoLine => at' = at
  /\ UNCHANGED <<prog, stack, code, signal_ctrl>>

(* Where the frame goes, by the jump and the error of the handler.         *)
Lands(jmp, err, try) == InArray(Target(pc, Override(jmp, err, try)))
Position(q, err) ==
  CASE q = VM_PC_EXIT -> Ended(pc, err)
    [] q = VM_PC_WILD -> NoLine
    [] OTHER -> IF LineAt(q) = NoLine THEN at ELSE LineAt(q)

LEMMA FinishIs ==
  ASSUME NEW jmp \in Jumps(pc), NEW err \in BOOLEAN, NEW try,
         pc' = Lands(jmp, err, try), at' = Position(Lands(jmp, err, try), err),
         UNCHANGED <<prog, stack, code, signal_ctrl>>
  PROVE  \E j \in Jumps(pc) : Goes(j)
<1> DEFINE j == Override(jmp, err, try)
           q == Lands(jmp, err, try)
<1>1. /\ j \in {VM_JMP_RAISE, VM_JMP_EXIT, jmp}
      /\ signal_ctrl => j \in {VM_JMP_RAISE, VM_JMP_EXIT}
  BY DEF Override
<1>2. j \in Jumps(pc)
  BY <1>1 DEF Jumps
<1>3. q = InArray(Target(pc, j))
  BY DEF Lands
<1> HIDE DEF j, q
<1>4. pc' = q /\ at' = Position(q, err)
  BY DEF q
<1>5. signal_ctrl /\ pc' = VM_PC_EXIT => at' = STOPPED
  BY <1>4 DEF Position, Ended, VM_PC_EXIT, VM_PC_WILD
<1>6. pc' \notin {VM_PC_EXIT, VM_PC_WILD} /\ LineAt(q) = NoLine => at' = at
  BY <1>4 DEF Position
<1>7. Goes(j)
  BY <1>1, <1>3, <1>4, <1>5, <1>6 DEF Goes, LineAt
<1> QED
  BY <1>2, <1>7

LEMMA StepIs ==
  ASSUME Types, VMStep
  PROVE  pc \in 1 .. Len(code) /\ \E j \in Jumps(pc) : Goes(j)
<1>1. pc \in 1 .. Len(code) /\ code[pc] \in Instruction
  <2>1. pc > 0
    BY DEF VMStep, EVAL, JEZ, NEL, JMP, BRK, CTN, RET, DEL, DEF_, RIS, TRY, NTR, GER, EXP, At
  <2>2. pc \in 1 .. Len(code)
    BY <2>1 DEF Types, VM_PC_EXIT, VM_PC_WILD
  <2> QED
    BY <2>2 DEF Types
<1>2. /\ VM_JMP_EXIT \in Jumps(pc) /\ VM_JMP_BREAK \in Jumps(pc) /\ VM_JMP_CONTINUE \in Jumps(pc)
      /\ 0 \in Jumps(pc)
  BY DEF Jumps
<1> DEFINE Some == \E j \in Jumps(pc) : Goes(j)
           Rest == UNCHANGED <<prog, stack, code, signal_ctrl>>
<1>3. ASSUME NEW jmp \in Jumps(pc), NEW err \in BOOLEAN, NEW try,
             pc' = Lands(jmp, err, try), at' = Position(Lands(jmp, err, try), err), Rest
      PROVE  Some
  BY <1>3, FinishIs
<1> SUFFICES Some
  BY <1>1
<1> HIDE DEF Some
<1>4. ASSUME NEW o \in {"ok", "true", "false", "error"}, EVAL(o) PROVE Some
  <2>1. PICK e \in BOOLEAN : e = (o = "error")
    OBVIOUS
  <2>2. pc' = Lands(0, e, try_state) /\ at' = Position(Lands(0, e, try_state), e) /\ Rest
    BY <1>4, <2>1 DEF EVAL, Finish, Lands, Position
  <2> QED
    BY <1>2, <1>3, <2>2
<1>5. CASE JEZ
  <2> DEFINE jmp == IF top THEN 0 ELSE code[pc].val
  <2>1. jmp \in Jumps(pc)
    BY <1>1, <1>5 DEF JEZ, At, Instruction, Jumps
  <2>2. /\ pc' = Lands(jmp, FALSE, try_state) /\ at' = Position(Lands(jmp, FALSE, try_state), FALSE)
        /\ Rest
    BY <1>5 DEF JEZ, Keep, Finish, Lands, Position
  <2> HIDE DEF jmp
  <2> QED
    BY <1>3, <2>1, <2>2
<1>6. CASE NEL
  <2> DEFINE jmp == IF ireg[code[pc].bd] THEN 0 ELSE code[pc].val
  <2>1. jmp \in Jumps(pc)
    BY <1>1, <1>6 DEF NEL, At, Instruction, Jumps
  <2>2. /\ pc' = Lands(jmp, FALSE, try_state) /\ at' = Position(Lands(jmp, FALSE, try_state), FALSE)
        /\ Rest
    BY <1>6 DEF NEL, Keep, Finish, Lands, Position
  <2> HIDE DEF jmp
  <2> QED
    BY <1>3, <2>1, <2>2
<1>7. CASE JMP
  <2> DEFINE jmp == code[pc].val
  <2>1. jmp \in Jumps(pc)
    BY <1>1, <1>7 DEF JMP, At, Instruction, Jumps
  <2>2. /\ pc' = Lands(jmp, FALSE, try_state) /\ at' = Position(Lands(jmp, FALSE, try_state), FALSE)
        /\ Rest
    BY <1>7 DEF JMP, Keep, Finish, Lands, Position
  <2> HIDE DEF jmp
  <2> QED
    BY <1>3, <2>1, <2>2
<1>8. CASE BRK \/ CTN \/ RET \/ DEL \/ DEF_ \/ GER
  <2>1. PICK jmp \in {VM_JMP_BREAK, VM_JMP_CONTINUE, VM_JMP_EXIT, 0} :
          /\ pc' = Lands(jmp, FALSE, try_state) /\ at' = Position(Lands(jmp, FALSE, try_state), FALSE)
          /\ Rest
    BY <1>8 DEF BRK, CTN, RET, DEL, DEF_, GER, Keep, Finish, Lands, Position
  <2> QED
    BY <1>2, <1>3, <2>1
<1>9. CASE RIS
  <2>1. /\ pc' = Lands(0, TRUE, try_state) /\ at' = Position(Lands(0, TRUE, try_state), TRUE)
        /\ Rest
    BY <1>9 DEF RIS, Finish, Lands, Position
  <2> QED
    BY <1>2, <1>3, <2>1
<1>10. CASE TRY \/ NTR \/ EXP
  <2>1. PICK try \in {TRUE, FALSE, try_state} :
          /\ pc' = Lands(0, FALSE, try) /\ at' = Position(Lands(0, FALSE, try), FALSE)
          /\ Rest
    BY <1>10 DEF TRY, NTR, EXP, Finish, Lands, Position
  <2> QED
    BY <1>2, <1>3, <2>1
<1> QED
  BY <1>4, <1>5, <1>6, <1>7, <1>8, <1>9, <1>10 DEF VMStep

-----------------------------------------------------------------------------
(* The layout of the bytecode holds at every step ...                      *)
LEMMA InitVInv == Init => VInv
<1> SUFFICES ASSUME Init PROVE VInv
  OBVIOUS
<1>1. code = <<>> /\ prog = <<>> /\ stack = <<>> /\ pc = 0
  BY DEF Init
<1>2. Types
  BY <1>1 DEF Types
<1>3. Backs(code) /\ Len(stack) = Open(prog) /\ Opened(Len(stack), code) /\ Defined(prog, code)
  BY <1>1 DEF Backs, Open, Opened, Defined
<1> QED
  BY <1>2, <1>3 DEF VInv

LEMMA VMStepInv ==
  ASSUME VInv, VMStep
  PROVE  VInv' /\ (signal_ctrl => at' \in {at, STOPPED})
<1>0. Types /\ Backs(code)
  BY DEF VInv
<1>1. pc \in 1 .. Len(code)
  BY <1>0, StepIs
<1>2. PICK j \in Jumps(pc) : Goes(j)
  BY <1>0, StepIs
<1>3. pc' \in {VM_PC_EXIT, VM_PC_WILD} \cup 1 .. Len(code) /\ code' = code /\ prog' = prog /\ stack' = stack
  BY <1>0, <1>1, <1>2, TargetIs DEF Goes
<1>4. Types' /\ pc' # 0
  BY <1>0, <1>3 DEF Types, VM_PC_EXIT, VM_PC_WILD
<1>5. VInv'
  <2>1. Backs(code')
    BY <1>0, <1>3
  <2> QED
    BY <1>4, <2>1 DEF VInv
<1>6. ASSUME signal_ctrl PROVE at' \in {at, STOPPED}
  <2>1. CASE j = VM_JMP_EXIT
    <3>1. pc' = VM_PC_EXIT
      <4>1. Target(pc, j) = VM_PC_EXIT
        BY <2>1 DEF Target, VM_JMP_EXIT, VM_JMP_BREAK, VM_JMP_CONTINUE, VM_JMP_RAISE
      <4>2. Len(code) \in Nat
        BY <1>0 DEF Types
      <4>3. InArray(VM_PC_EXIT) = VM_PC_EXIT
        BY <4>2 DEF InArray, VM_PC_EXIT
      <4>4. pc' = InArray(Target(pc, j))
        BY <1>2 DEF Goes
      <4> QED
        BY <4>1, <4>3, <4>4
    <3> QED
      BY <1>2, <1>6, <3>1 DEF Goes
  <2>2. CASE j = VM_JMP_RAISE
    <3>1. Target(pc, j) = RaiseTarget(pc)
      BY <2>2 DEF Target, VM_JMP_EXIT, VM_JMP_BREAK, VM_JMP_CONTINUE, VM_JMP_RAISE
    <3>2. CASE RaiseTarget(pc) = VM_PC_EXIT
      <4>1. pc' = VM_PC_EXIT
        BY <1>0, <1>2, <3>1, <3>2 DEF Goes, InArray, Types, VM_PC_EXIT
      <4> QED
        BY <1>2, <1>6, <4>1 DEF Goes
    <3>3. CASE RaiseTarget(pc) \in 1 .. Len(code) /\ code[RaiseTarget(pc)].src = NoLine
      <4>1. pc' = RaiseTarget(pc)
        BY <1>0, <1>2, <3>1, <3>3 DEF Goes, InArray, Types
      <4>2. pc' \notin {VM_PC_EXIT, VM_PC_WILD} /\ pc' \in DOMAIN code /\ code[pc'].src = NoLine
        BY <1>0, <3>3, <4>1 DEF Types, VM_PC_EXIT, VM_PC_WILD
      <4>3. LineAt(pc') = NoLine
        BY <4>2 DEF LineAt
      <4> QED
        BY <1>2, <4>2, <4>3 DEF Goes
    <3> QED
      BY <1>0, <1>1, <3>2, <3>3, RaiseIs
  <2> QED
    BY <1>2, <1>6, <2>1, <2>2 DEF Goes
<1> QED
  BY <1>5, <1>6

LEMMA NextVInv ==
  ASSUME VInv, [Next]_vars
  PROVE  VInv' /\ (signal_ctrl /\ pc > 0 => at' \in {at, STOPPED})
<1>1. ASSUME NEW d \in 0 .. MaxDepth, NEW k \in UsedKinds, ParseLine(d, k)
      PROVE  VInv' /\ at' = at
  BY <1>1, ParseInv DEF ParseLine
<1>2. ASSUME NEW e \in {0} \cup {i \in DOMAIN prog : prog[i].k = "def"}, Start(e)
      PROVE  VInv' /\ pc = 0
  BY <1>2, StartInv DEF Start
<1>3. CASE VMStep
  BY <1>3, VMStepInv
<1>4. CASE pika_vm_exit \/ Done \/ UNCHANGED vars
  <2>1. UNCHANGED <<prog, at, stack, code, pc>>
    BY <1>4 DEF pika_vm_exit, Done, vars, frame
  <2> QED
    BY <2>1 DEF VInv, Types
<1> QED
  BY <1>1, <1>2, <1>3, <1>4 DEF Next, Parse, Begin

(* The program counter of a frame is at an instruction, before the run, or *)
(* a sign that the frame is over.                                          *)
PcInCode == pc \in {VM_PC_EXIT, VM_PC_WILD} \cup 0 .. Len(code)

(* Every search of PikaVMFrame_getAddrOffset... for the target of a jump,  *)
(* an error or an exit ends inside of the bytecode, but that of a break    *)
(* for the end of its loop (VM_PC_WILD).                                   *)
THEOREM SearchesStayInside == Spec => []PcInCode
<1>1. VInv => PcInCode
  BY DEF VInv, Types, PcInCode
<1>2. VInv /\ [Next]_vars => VInv'
  BY NextVInv
<1> QED
  BY <1>1, <1>2, InitVInv, PTL DEF Spec

(* Once pika_vm_exit is called no source line starts any more: every       *)
(* instruction then goes to the end of the try it is in, which belongs to  *)
(* no line, or ends the frame, whatever the program and wherever in it the *)
(* signal comes.                                                           *)
THEOREM ExitStops == Spec => StopsPromptly
<1>1. VInv /\ [Next]_vars => VInv'
  BY NextVInv
<1>2. VInv /\ [Next]_vars => [signal_ctrl /\ pc > 0 => at' \in {at, STOPPED}]_vars
  BY NextVInv
<1> QED
  BY <1>1, <1>2, InitVInv, PTL DEF Spec, StopsPromptly
=============================================================================
