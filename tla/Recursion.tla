------------------------------ MODULE Recursion -----------------------------
(***************************************************************************)
(* Induction and recursion as first-order facts. The library states them   *)
(* for operators; here the induction is over a set of numbers, and a       *)
(* recursive definition is given by functions, so that the proofs about    *)
(* sums, strings and bytecode can cite them.                               *)
(***************************************************************************)
EXTENDS Functions, Integers, FiniteSetTheorems, WellFoundedInduction, TLAPS

(* Every non-empty set of numbers has a least element.                     *)
LEMMA NatLeast ==
  ASSUME NEW T \in SUBSET Nat, T # {}
  PROVE  \E n \in T : \A m \in T : n <= m
<1> DEFINE Less == {mn \in Nat \X Nat : mn[1] < mn[2]}
<1>1. IsWellFoundedOn(Less, Nat)
  BY NatLessThanWellFounded DEF OpToRel
<1> HIDE DEF Less
<1>2. PICK n \in T : \A m \in T : <<m, n>> \notin Less
  BY <1>1, WFMin
<1>3. \A m \in T : ~(m < n)
  BY <1>2 DEF Less
<1> QED
  BY <1>3

(* Induction: a set of numbers with 0 and all successors has all numbers.  *)
LEMMA NatInduct ==
  ASSUME NEW T, 0 \in T, \A n \in Nat : n \in T => n + 1 \in T
  PROVE  \A n \in Nat : n \in T
<1> SUFFICES ASSUME Nat \ T # {} PROVE FALSE
  OBVIOUS
<1>1. PICK n \in Nat \ T : \A m \in Nat \ T : n <= m
  BY NatLeast
<1>2. n - 1 \in Nat /\ n - 1 \in T
  BY <1>1
<1> QED
  BY <1>2

(* f is defined by recursion on D: f[x] comes from f[next[x]] where More,  *)
(* and next goes down in rank.                                             *)
Solves(f, D, More, next, base, op) ==
  \A x \in D : f[x] = IF x \in More THEN op[<<x, f[next[x]]>>] ELSE base[x]
Ranked(D, rank, More, next) ==
  /\ rank \in [D -> Nat] /\ More \in SUBSET D /\ next \in [More -> D]
  /\ \A x \in More : rank[next[x]] < rank[x]

(* A definition by recursion has a solution.                               *)
LEMMA Recursive ==
  ASSUME NEW D, NEW V, NEW rank, NEW More, NEW next, NEW base, NEW op,
         Ranked(D, rank, More, next), base \in [D -> V], op \in [More \X V -> V]
  PROVE  \E f \in [D -> V] : Solves(f, D, More, next, base, op)
<1> DEFINE Body(f, x) == IF x \in More THEN op[<<x, f[next[x]]>>] ELSE base[x]
           Sol(n) == {f \in [D -> V] : \A x \in D : rank[x] < n => f[x] = Body(f, x)}
<1> USE DEF Ranked
<1>0. /\ \A x \in D : rank[x] \in Nat /\ base[x] \in V
      /\ \A x \in More : next[x] \in D /\ x \in D
      /\ \A x \in More, v \in V : op[<<x, v>>] \in V
  OBVIOUS
<1>1. \A n \in Nat : Sol(n) # {}
  <2> DEFINE T == {n \in Nat : Sol(n) # {}}
  <2>1. 0 \in T
    <3>1. \A x \in D : ~(rank[x] < 0)
      BY <1>0
    <3>2. base \in Sol(0)
      BY <3>1
    <3> HIDE DEF Sol
    <3> QED BY <3>2
  <2>2. ASSUME NEW n \in Nat, n \in T PROVE n + 1 \in T
    <3>1. PICK f \in Sol(n) : TRUE
      BY <2>2
    <3> DEFINE g == [x \in D |-> Body(f, x)]
    <3>2. g \in [D -> V]
      BY <1>0, <3>1
    <3>3. ASSUME NEW x \in D, rank[x] < n + 1 PROVE g[x] = Body(g, x)
      <4>1. CASE x \in More
        <5>1. next[x] \in D /\ rank[next[x]] < n
          BY <1>0, <3>3, <4>1
        <5>2. g[next[x]] = f[next[x]]
          BY <3>1, <5>1
        <5> QED BY <4>1, <5>1, <5>2
      <4>2. CASE x \notin More
        BY <4>2
      <4> QED BY <4>1, <4>2
    <3>4. g \in Sol(n + 1)
      <4> HIDE DEF g
      <4> QED BY <3>2, <3>3
    <3> HIDE DEF Sol
    <3> QED BY <3>4
  <2> HIDE DEF T
  <2>3. \A n \in Nat : n \in T
    BY <2>1, <2>2, NatInduct
  <2> QED BY <2>3 DEF T
<1>2. ASSUME NEW m \in Nat, NEW n \in Nat, NEW f \in Sol(m), NEW g \in Sol(n),
             NEW z \in D, rank[z] < m, rank[z] < n
      PROVE  f[z] = g[z]
  <2> DEFINE Bad == {x \in D : rank[x] < m /\ rank[x] < n /\ f[x] # g[x]}
             R == {rank[x] : x \in Bad}
  <2> SUFFICES ASSUME Bad # {} PROVE FALSE
    BY <1>2
  <2>1. \A x \in Bad : /\ x \in D /\ rank[x] < m /\ rank[x] < n
                        /\ f[x] = Body(f, x) /\ g[x] = Body(g, x)
    BY <1>2
  <2>2. R \in SUBSET Nat /\ R # {}
    <3>1. PICK b \in Bad : TRUE
      OBVIOUS
    <3>2. \A x \in Bad : rank[x] \in Nat
      BY <1>0, <2>1
    <3> HIDE DEF Bad
    <3> QED BY <3>1, <3>2
  <2>3. PICK k \in R : \A r \in R : k <= r
    BY <2>2, NatLeast
  <2>4. PICK x \in Bad : \A y \in Bad : rank[x] <= rank[y]
    BY <2>3
  <2>5. x \in More
    BY <2>1, <2>4
  <2>6. /\ next[x] \in D /\ rank[next[x]] \in Nat /\ rank[x] \in Nat
        /\ rank[next[x]] < rank[x] /\ rank[x] < m /\ rank[x] < n
    BY <1>0, <2>1, <2>4, <2>5
  <2>7. next[x] \notin Bad
    <3> HIDE DEF Bad
    <3> QED BY <2>4, <2>6
  <2>8. f[next[x]] = g[next[x]]
    BY <2>6, <2>7
  <2> QED BY <2>1, <2>4, <2>5, <2>8
<1>3. PICK A \in [Nat -> [D -> V]] : \A n \in Nat : A[n] \in Sol(n)
  <2>1. \A n \in Nat : Sol(n) \subseteq [D -> V]
    OBVIOUS
  <2> DEFINE A == [n \in Nat |-> CHOOSE f \in Sol(n) : TRUE]
  <2> HIDE DEF Sol
  <2>2. A \in [Nat -> [D -> V]] /\ \A n \in Nat : A[n] \in Sol(n)
    BY <1>1, <2>1
  <2> QED BY <2>2
<1> DEFINE F == [x \in D |-> A[rank[x] + 1][x]]
<1>4. F \in [D -> V]
  BY <1>0
<1>5. ASSUME NEW x \in D PROVE F[x] = Body(F, x)
  <2> DEFINE n == rank[x] + 1
             y == next[x]
  <2>1. n \in Nat /\ rank[x] < n
    BY <1>0
  <2>2. A[n] \in Sol(n)
    BY <1>3, <2>1
  <2>3. F[x] = Body(A[n], x)
    BY <2>1, <2>2
  <2>4. ASSUME x \in More PROVE F[y] = A[n][y]
    <3>1. y \in D /\ rank[y] \in Nat /\ rank[y] < n /\ rank[y] < rank[y] + 1
      BY <1>0, <2>4
    <3>2. rank[y] + 1 \in Nat
      BY <3>1
    <3>3. A[rank[y] + 1] \in Sol(rank[y] + 1)
      BY <1>3, <3>2
    <3>4. A[rank[y] + 1][y] = A[n][y]
      <4> HIDE DEF Sol, n, y
      <4> QED BY <1>2, <2>1, <2>2, <3>1, <3>2, <3>3
    <3> QED BY <3>1, <3>4
  <2> HIDE DEF F
  <2> QED BY <2>3, <2>4
<1> HIDE DEF F
<1> QED BY <1>4, <1>5 DEF Solves

-----------------------------------------------------------------------------
(* Induction over the subsets of a finite set: one that has every set with *)
(* all smaller ones has them all.                                          *)
LEMMA SetInduct ==
  ASSUME NEW S, IsFiniteSet(S), NEW T,
         \A s \in SUBSET S : (\A t \in SUBSET s : t # s => t \in T) => s \in T
  PROVE  \A s \in SUBSET S : s \in T
<1> DEFINE Bad == {s \in SUBSET S : s \notin T}
           R == {Cardinality(s) : s \in Bad}
<1> SUFFICES ASSUME Bad # {} PROVE FALSE
  OBVIOUS
<1>1. \A s \in SUBSET S : IsFiniteSet(s) /\ Cardinality(s) \in Nat
  BY FS_Subset, FS_CardinalityType
<1>2. R \in SUBSET Nat /\ R # {}
  BY <1>1
<1>3. PICK n \in R : \A r \in R : n <= r
  BY <1>2, NatLeast
<1>4. PICK s \in Bad : \A t \in Bad : Cardinality(s) <= Cardinality(t)
  BY <1>3
<1>5. ASSUME NEW t \in SUBSET s, t # s PROVE t \in T
  <2>1. Cardinality(t) < Cardinality(s)
    BY <1>1, <1>5, FS_Subset
  <2> QED BY <1>1, <1>4, <2>1
<1> QED BY <1>5

(* Sums over finite sets (SumFunction).                                    *)
One(s) == CHOOSE x \in s : TRUE

(* it is the partial sums of w that SumFunction goes through.              *)
Sums(w, it) ==
  \A s \in SUBSET DOMAIN w :
    it[s] = IF s = {} THEN 0 ELSE w[One(s)] + it[s \ {One(s)}]

LEMMA SumIs ==
  ASSUME NEW S, IsFiniteSet(S), NEW w \in [S -> Int]
  PROVE  \E it \in [SUBSET S -> Int] : Sums(w, it) /\ SumFunction(w) = it[S]
<1> DEFINE D == SUBSET S
           More == D \ {{}}
           rank == [s \in D |-> Cardinality(s)]
           next == [s \in More |-> s \ {One(s)}]
           base == [s \in D |-> 0]
           op == [sv \in More \X Int |-> w[One(sv[1])] + sv[2]]
           it == CHOOSE g : g = [s \in SUBSET S |-> IF s = {} THEN 0
                                                    ELSE w[CHOOSE x \in s : TRUE]
                                                         + g[s \ {CHOOSE x \in s : TRUE}]]
<1> HIDE DEF it
<1>1. \A s \in D : IsFiniteSet(s) /\ Cardinality(s) \in Nat
  BY FS_Subset, FS_CardinalityType
<1>2. \A s \in More : One(s) \in s /\ One(s) \in S /\ w[One(s)] \in Int
  BY DEF One
<1>3. \A s \in More : Cardinality(s \ {One(s)}) < Cardinality(s)
  <2> SUFFICES ASSUME NEW s \in More PROVE Cardinality(s \ {One(s)}) < Cardinality(s)
    OBVIOUS
  <2>1. Cardinality(s \ {One(s)}) = Cardinality(s) - 1
    BY <1>1, <1>2, FS_RemoveElement
  <2> QED BY <1>1, <2>1
<1>4. \E f \in [D -> Int] : Solves(f, D, More, next, base, op)
  <2>1. Ranked(D, rank, More, next) /\ base \in [D -> Int]
    BY <1>1, <1>3 DEF Ranked
  <2>2. op \in [More \X Int -> Int]
    BY <1>2
  <2> HIDE DEF D, More, rank, next, base, op
  <2> QED BY <2>1, <2>2, Recursive
<1>5. PICK f \in [D -> Int] : \A s \in D :
         f[s] = IF s \in More THEN op[<<s, f[next[s]]>>] ELSE base[s]
  BY <1>4 DEF Solves
<1>6. \A s \in D : f[s] = IF s = {} THEN 0 ELSE w[One(s)] + f[s \ {One(s)}]
  <2> SUFFICES ASSUME NEW s \in D
               PROVE  f[s] = IF s = {} THEN 0 ELSE w[One(s)] + f[s \ {One(s)}]
    OBVIOUS
  <2>1. CASE s = {}
    BY <1>5, <2>1
  <2>2. CASE s # {}
    <3>1. s \in More /\ next[s] = s \ {One(s)} /\ f[s \ {One(s)}] \in Int
      BY <2>2
    <3>2. op[<<s, f[s \ {One(s)}]>>] = w[One(s)] + f[s \ {One(s)}]
      BY <3>1
    <3> HIDE DEF op, next, base, More
    <3> QED BY <1>5, <2>2, <3>1, <3>2
  <2> QED BY <2>1, <2>2
<1>7. f = [s \in SUBSET S |-> IF s = {} THEN 0 ELSE w[CHOOSE x \in s : TRUE]
                                                     + f[s \ {CHOOSE x \in s : TRUE}]]
  BY <1>6 DEF One
<1>8. it = [s \in SUBSET S |-> IF s = {} THEN 0 ELSE w[CHOOSE x \in s : TRUE]
                                                      + it[s \ {CHOOSE x \in s : TRUE}]]
  BY <1>7 DEF it
<1>9. SumFunction(w) = it[S]
  <2>1. DOMAIN w = S
    OBVIOUS
  <2>2. SumFunction(w) = SumFunctionOnSet(w, S)
    BY <2>1 DEF SumFunction
  <2> QED BY <2>2 DEF SumFunctionOnSet, FoldFunctionOnSet, MapThenFoldSet, it
<1>10. Sums(w, it)
  BY <1>8 DEF Sums, One
<1>11. it \in [D -> Int]
  <2>1. \A s \in D : it[s] \in Int
    <3> DEFINE T == {s \in D : it[s] \in Int}
    <3>1. ASSUME NEW s \in D, \A t \in SUBSET s : t # s => t \in T PROVE s \in T
      <4>0. it[s] = IF s = {} THEN 0 ELSE w[One(s)] + it[s \ {One(s)}]
        BY <1>8 DEF One
      <4>1. CASE s = {}
        BY <4>0, <4>1
      <4>2. CASE s # {}
        <5>1. w[One(s)] \in Int /\ s \ {One(s)} \in T
          BY <1>2, <3>1, <4>2
        <5> QED BY <4>0, <4>2, <5>1
      <4> QED BY <4>1, <4>2
    <3> HIDE DEF T
    <3>2. \A s \in SUBSET S : s \in T
      BY <3>1, SetInduct
    <3> QED BY <3>2 DEF T
  <2> QED BY <1>8, <2>1
<1> QED BY <1>9, <1>10, <1>11

(* The sum over the empty set, and of partial sums with any first member.  *)
LEMMA SumEmpty ==
  ASSUME NEW w \in [{} -> Int]
  PROVE  SumFunction(w) = 0
<1>1. PICK it \in [SUBSET {} -> Int] : Sums(w, it) /\ SumFunction(w) = it[{}]
  BY SumIs, FS_EmptySet
<1>2. DOMAIN w = {}
  OBVIOUS
<1> QED BY <1>1, <1>2 DEF Sums

LEMMA PartialSums ==
  ASSUME NEW S, IsFiniteSet(S), NEW w \in [S -> Int]
  PROVE  \E it \in [SUBSET S -> Int] :
           /\ Sums(w, it) /\ SumFunction(w) = it[S]
           /\ \A a \in S : it[S] = w[a] + it[S \ {a}]
<1>1. PICK it \in [SUBSET S -> Int] : Sums(w, it) /\ SumFunction(w) = it[S]
  BY SumIs
<1> DEFINE T == {s \in SUBSET S : \A b \in s : it[s] = w[b] + it[s \ {b}]}
<1>2. ASSUME NEW s \in SUBSET S, \A t \in SUBSET s : t # s => t \in T PROVE s \in T
  <2> SUFFICES ASSUME NEW b \in s PROVE it[s] = w[b] + it[s \ {b}]
    OBVIOUS
  <2> DEFINE c == One(s)
  <2>1. c \in s
    BY DEF One
  <2> HIDE DEF c
  <2>2. it[s] = w[c] + it[s \ {c}]
    <3>1. DOMAIN w = S
      OBVIOUS
    <3> QED BY <1>1, <3>1 DEF Sums, c
  <2>3. CASE b = c
    BY <2>2, <2>3
  <2>4. CASE b # c
    <3> DEFINE r == (s \ {c}) \ {b}
    <3>1. s \ {c} \in T /\ s \ {b} \in T /\ b \in s \ {c} /\ c \in s \ {b}
      BY <1>2, <2>1, <2>4
    <3>2. (s \ {b}) \ {c} = r /\ r \in SUBSET S
      OBVIOUS
    <3>3. it[s \ {c}] = w[b] + it[r]
      BY <3>1
    <3>4. it[s \ {b}] = w[c] + it[r]
      BY <3>1, <3>2
    <3>5. w[b] \in Int /\ w[c] \in Int /\ it[r] \in Int
      BY <2>1, <3>2
    <3> HIDE DEF r
    <3> QED BY <2>2, <3>3, <3>4, <3>5
  <2> QED BY <2>3, <2>4
<1> HIDE DEF T
<1>3. \A s \in SUBSET S : s \in T
  BY <1>2, SetInduct
<1> QED BY <1>1, <1>3 DEF T

(* One more member adds its value to the sum.                              *)
LEMMA SumAdd ==
  ASSUME NEW S, IsFiniteSet(S), NEW a, a \notin S,
         NEW U, \A x : x \in U <=> x \in S \/ x = a,
         NEW w \in [S -> Int], NEW v \in [U -> Int],
         \A x \in S : v[x] = w[x]
  PROVE  SumFunction(w) \in Int /\ SumFunction(v) = SumFunction(w) + v[a]
<1>1. IsFiniteSet(U)
  <2>1. IsFiniteSet(S \cup {a})
    BY FS_AddElement
  <2>2. U = S \cup {a}
    OBVIOUS
  <2> QED BY <2>1, <2>2, Zenon
<1>2. PICK i \in [SUBSET S -> Int] : Sums(w, i) /\ SumFunction(w) = i[S]
  BY SumIs
<1>3. PICK j \in [SUBSET U -> Int] :
        /\ Sums(v, j) /\ SumFunction(v) = j[U]
        /\ \A x \in U : j[U] = v[x] + j[U \ {x}]
  BY <1>1, PartialSums
<1> DEFINE T == {s \in SUBSET S : i[s] = j[s]}
<1>4. ASSUME NEW s \in SUBSET S, \A t \in SUBSET s : t # s => t \in T PROVE s \in T
  <2>1. DOMAIN w = S /\ DOMAIN v = U
    OBVIOUS
  <2>2. /\ i[s] = IF s = {} THEN 0 ELSE w[One(s)] + i[s \ {One(s)}]
        /\ j[s] = IF s = {} THEN 0 ELSE v[One(s)] + j[s \ {One(s)}]
    BY <1>2, <1>3, <2>1 DEF Sums
  <2>3. CASE s = {}
    BY <2>2, <2>3
  <2>4. CASE s # {}
    <3>1. One(s) \in s
      BY <2>4 DEF One
    <3>2. s \ {One(s)} \in T
      BY <1>4, <3>1
    <3> QED BY <2>2, <2>4, <3>1, <3>2
  <2> QED BY <2>3, <2>4
<1> HIDE DEF T
<1>5. \A s \in SUBSET S : s \in T
  BY <1>4, SetInduct
<1>6. i[S] = j[S]
  BY <1>5 DEF T
<1>7. j[U] = v[a] + j[S]
  <2>1. U \ {a} = S /\ a \in U
    OBVIOUS
  <2>2. j[U \ {a}] = j[S]
    BY <2>1, Zenon
  <2> QED BY <1>3, <2>1, <2>2
<1>8. v[a] \in Int /\ i[S] \in Int
  OBVIOUS
<1>9. SumFunction(w) = i[S] /\ SumFunction(v) = j[U]
  BY <1>2, <1>3
<1> QED BY <1>6, <1>7, <1>8, <1>9

(* Changing the value of one member changes the sum by the difference.     *)
LEMMA SumChange ==
  ASSUME NEW S, IsFiniteSet(S), NEW a \in S,
         NEW w \in [S -> Int], NEW v \in [S -> Int],
         \A x \in S \ {a} : v[x] = w[x]
  PROVE  SumFunction(w) \in Int /\ SumFunction(v) = SumFunction(w) + v[a] - w[a]
<1> DEFINE R == S \ {a}
           u == [x \in R |-> w[x]]
<1>1. IsFiniteSet(R) /\ a \notin R /\ R \cup {a} = S
  BY FS_RemoveElement
<1>2. u \in [R -> Int] /\ \A x \in R : u[x] = w[x] /\ u[x] = v[x]
  OBVIOUS
<1>3. w[a] \in Int /\ v[a] \in Int
  OBVIOUS
<1> HIDE DEF R, u
<1>4. SumFunction(u) \in Int /\ SumFunction(w) = SumFunction(u) + w[a]
  BY <1>1, <1>2, <1>3, SumAdd
<1>5. SumFunction(v) = SumFunction(u) + v[a]
  BY <1>1, <1>2, <1>3, SumAdd
<1> QED BY <1>3, <1>4, <1>5
=============================================================================
