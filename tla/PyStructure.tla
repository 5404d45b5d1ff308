----------------------------- MODULE PyStructure ----------------------------
(***************************************************************************)
(* Python's block structure, as a function of the text of a program and of *)
(* nothing else: which lines a line is inside of, what follows it, and to  *)
(* which line control goes when it comes to a plain value, true, false or  *)
(* an error. Specification PyBlocks runs programs by it.                   *)
(*                                                                         *)
(* A line is [d, k]: its block depth and its kind. A position is <<i, 0>>, *)
(* "line i is about to run", or <<i, 1>>, "the for of line i is about to   *)
(* take its next item". else, try and except run nothing themselves and    *)
(* are never positions.                                                    *)
(***************************************************************************)
EXTENDS Integers, Sequences, FiniteSetsExt

Openers == {"if", "elif", "else", "while", "for", "try", "except", "def"}
Clauses == {"elif", "else", "except"}
Loops   == {"while", "for"}
Silent  == {"else", "try", "except"}
Tests   == {"if", "elif", "while"}
Kinds   == Openers \cup {"stmt", "break", "continue", "return", "raise"}

START    == <<-1, 0>>
END      == <<-2, 0>>  \* ran past the last line
RETURNED == <<-3, 0>>
UNCAUGHT == <<-4, 0>>  \* an error that no except caught
STOPPED  == <<-5, 0>>  \* ended by pika_vm_exit

Ancestors(p, i) ==  \* the lines whose bodies line i is in
  {j \in 1 .. i - 1 : \A m \in j + 1 .. i : p[m].d > p[j].d}

Innermost(S) == IF S = {} THEN 0 ELSE Max(S)

(* The loop, and the function, that line i belongs to.                     *)
Def(p, i)  == Innermost({j \in Ancestors(p, i) : p[j].k = "def"})
Loop(p, i) == Innermost({j \in Ancestors(p, i) : j > Def(p, i) /\ p[j].k \in Loops})
Try(p, i)  == Innermost({j \in Ancestors(p, i) : j > Def(p, i) /\ p[j].k = "try"})

(* The first line after line i that is not in its body, or 0.              *)
Follower(p, i) ==
  LET F == {j \in i + 1 .. Len(p) : p[j].d <= p[i].d}
  IN  IF F = {} THEN 0 ELSE Min(F)

(* The clause (elif, else, except) that continues line i, or 0.            *)
Clause(p, i) ==
  LET f == Follower(p, i)
  IN  IF f # 0 /\ p[f].d = p[i].d /\ p[f].k \in Clauses THEN f ELSE 0

(* The statement after the one of line i in the same block, or 0.          *)
Sibling(p, i) ==
  LET S == {j \in i + 1 .. Len(p) :
              /\ p[j].d = p[i].d /\ p[j].k \notin Clauses
              /\ \A m \in i + 1 .. j : p[m].d >= p[i].d}
  IN  IF S = {} THEN 0 ELSE Min(S)

(* Running line i, where else, try and except lead into their bodies.      *)
Enter(p, i) == <<Min({j \in i .. Len(p) : p[j].k \notin Silent}), 0>>

LoopTest(p, l) == <<l, IF p[l].k = "for" THEN 1 ELSE 0>>

(* Where control goes when the statement of line i is over: to the next    *)
(* one of its block, else out of the innermost enclosing block that has    *)
(* something left to do.                                                   *)
Leave(p, i) ==
  LET outs == {a \in Ancestors(p, i) \cup {i} :
                 \/ Sibling(p, a) # 0
                 \/ a # i /\ p[a].k \in Loops \cup {"def"}}
      a    == Innermost(outs)
  IN  CASE a = 0                         -> END
        [] a # 0 /\ a # i /\ p[a].k \in Loops -> LoopTest(p, a)
        [] a # 0 /\ a # i /\ p[a].k = "def"   -> RETURNED
        [] OTHER                         -> Enter(p, Sibling(p, a))

Outcomes(p, at) ==
  LET k == p[at[1]].k
  IN  CASE k \in Tests \/ at[2] = 1           -> {"true", "false", "error"}
        [] k = "raise"                        -> {"error"}
        [] k \in {"break", "continue", "def"} -> {"ok"}
        [] OTHER                              -> {"ok", "error"}

(* The position after at, when its line came to o.                         *)
Step(p, at, o) ==
  LET i == at[1]
      k == p[i].k
  IN  CASE o = "error"    -> IF Try(p, i) = 0 THEN UNCAUGHT
                             ELSE Enter(p, Clause(p, Try(p, i)))
        [] o = "true"     -> Enter(p, i + 1)
        [] o = "false"    -> IF Clause(p, i) = 0 THEN Leave(p, i)
                             ELSE Enter(p, Clause(p, i))
        [] o = "ok" /\ k = "for"      -> <<i, 1>>
        [] o = "ok" /\ k = "break"    -> Leave(p, Loop(p, i))
        [] o = "ok" /\ k = "continue" -> LoopTest(p, Loop(p, i))
        [] o = "ok" /\ k = "return"   -> RETURNED
        [] OTHER                      -> Leave(p, i)

(* The grammar, line by line: what may be written after p.                 *)
Fits(p, d, k) ==
  IF p = <<>> THEN d = 0 /\ k \notin Clauses
  ELSE LET n      == Len(p)
           head   == Max({j \in 1 .. n : p[j].d <= d})
           closed == {j \in Ancestors(p, n) : p[j].d >= d}
       IN  IF p[n].k \in Openers
           THEN d = p[n].d + 1 /\ k \notin Clauses
           ELSE /\ d <= p[n].d
                /\ k = "elif"   => p[head].k \in {"if", "elif"}
                /\ k = "else"   => p[head].k \in {"if", "elif", "while", "for"}
                /\ k = "except" => p[head].k = "try"
                /\ \A j \in closed : p[j].k = "try" => k = "except" /\ j = head

(* break and continue belong to a loop, return to a function; functions    *)
(* are defined at the top level.                                           *)
InPlace(p, i) ==
  /\ p[i].k \in {"break", "continue"} => Loop(p, i) # 0
  /\ p[i].k = "return" => Def(p, i) # 0
  /\ p[i].k = "def" => p[i].d = 0

(* The lines that p still lacks: a body, and the except of every open try. *)
Owed(p) ==
  LET n == Len(p)
      open == {j \in Ancestors(p, n) \cup {n} : p[j].k = "try"}
  IN  (IF p[n].k \in Openers THEN 1 ELSE 0) + 2 * Cardinality(open)

Complete(p) == p # <<>> /\ Owed(p) = 0
=============================================================================
