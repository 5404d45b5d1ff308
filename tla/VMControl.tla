------------------------------ MODULE VMControl -----------------------------
(***************************************************************************)
(* How pikascript runs blocks: parser_line2Ast and AST_genAsm_top lower an *)
(* indented program, line by line, to bytecode in which every instruction  *)
(* carries its block depth and a new-line mark and jumps count lines; the  *)
(* VM (pikaVM_runInstructUnit and the loop around it) executes one frame   *)
(* of it, and finds the targets of jumps, break, continue and errors by    *)
(* searching the bytecode.                                                 *)
(*                                                                         *)
(* The instructions of an expression are one EVAL, which comes to a value, *)
(* true, false or an error, unpredictably; a call inside it is one of      *)
(* these outcomes. at and out are history: the source position the frame   *)
(* is at and what its line came to, for the comparison with PyBlocks.      *)
(***************************************************************************)
EXTENDS PyStructure

CONSTANTS Families,    \* bound: the programs, as sets [kinds, lines] of all
                       \* those made of these kinds, of at most so many lines
          MaxDepth,    \* bound: block depth of a line
          Admit        \* constructs that programs may contain, see Admitted

ASSUME ControlAssumption ==
  /\ Families \subseteq [kinds : SUBSET Kinds, lines : Nat] /\ Families # {}
  /\ MaxDepth \in Nat
  /\ Admit \subseteq {"loopBeforeBreak", "nestedTry", "breakFromTry", "returnFromTry"}

MaxLines  == Max({F.lines : F \in Families})
UsedKinds == UNION {F.kinds : F \in Families}

VARIABLES
  prog,         \* the lines parsed so far
  at, out,      \* history: position, and what its line came to
  stack,        \* blockState->stack: the kinds of the open blocks
  code,         \* instruct_array
  pc,           \* 0 before the run, VM_PC_EXIT after it
  top,          \* truth of the value on top of the frame's stack
  ireg,         \* per block depth: the last test of that depth was false
  error_code, try_state, try_error_code, try_result,  \* PikaVMThread
  signal_ctrl   \* VM_SIGNAL_CTRL_EXIT was set

frame  == <<pc, top, ireg>>
thread == <<error_code, try_state, try_error_code, try_result>>
vars   == <<prog, at, out, stack, code, frame, thread, signal_ctrl>>

VM_PC_EXIT == -1
VM_PC_WILD == -2  \* a search left the bytecode array

VM_JMP_EXIT     == -999
VM_JMP_BREAK    == -998
VM_JMP_CONTINUE == -997
VM_JMP_RAISE    == -996

NoLine == <<0, 0>>  \* instructions that no source line asked for

-----------------------------------------------------------------------------
(* Lowering.                                                               *)
Ins(name, val, bd, nl, src) ==
  [ins |-> name, val |-> val, bd |-> bd, nl |-> nl, src |-> src]

(* What leaving a block of kind k at depth b appends: loops jump back, try *)
(* fetches the error and skips its except, a function returns.             *)
ExitBlockNoRet(k, b) ==
  CASE k = "while" -> <<Ins("JMP", -1, b, TRUE, NoLine)>>
    [] k = "try"   -> <<Ins("NTR", 0, b, TRUE, NoLine), Ins("GER", 0, b, FALSE, NoLine),
                        Ins("JEZ", 2, b, FALSE, NoLine)>>
    [] OTHER       -> <<>>
ExitBlock(k, b) ==
  CASE k = "while" -> <<Ins("JMP", -1, b, TRUE, NoLine)>>
    [] k = "for"   -> <<Ins("JMP", -1, b, TRUE, NoLine), Ins("DEL", 0, b, TRUE, NoLine)>>
    [] k = "try"   -> <<Ins("NTR", 0, b, TRUE, NoLine), Ins("GER", 0, b, FALSE, NoLine),
                        Ins("JEZ", 2, b, FALSE, NoLine)>>
    [] k = "def"   -> <<Ins("RET", 0, b + 1, TRUE, NoLine)>>
    [] OTHER       -> <<>>

(* The exitBlock queue: blocks deeper than the new line, innermost first.  *)
ExitBlocks(s, d) ==
  LET f[b \in Nat] == IF b <= d THEN <<>>
                      ELSE ExitBlock(s[b], b - 1) \o f[b - 1]
  IN  f[Len(s)]

LineCode(i, d, k) ==
  LET I(name, val, nl)    == Ins(name, val, d, nl, NoLine)
      At(name, val, nl)   == Ins(name, val, d, nl, <<i, 0>>)
  IN  CASE k = "if"       -> <<At("EVAL", 2, TRUE), I("JEZ", 1, FALSE)>>
        [] k = "elif"     -> <<I("NEL", 1, TRUE), At("EVAL", 2, FALSE), I("JEZ", 1, FALSE)>>
        [] k = "else"     -> <<I("NEL", 1, TRUE)>>
        [] k = "while"    -> <<At("EVAL", 2, TRUE), I("JEZ", 2, FALSE)>>
        [] k = "for"      -> <<At("EVAL", 1, TRUE),
                               Ins("EVAL", 2, d, TRUE, <<i, 1>>), I("JEZ", 2, FALSE)>>
        [] k = "try"      -> <<I("TRY", 0, TRUE)>>
        [] k = "except"   -> <<I("EXP", 0, TRUE)>>
        [] k = "def"      -> <<At("DEF", 0, TRUE), I("JMP", 1, FALSE)>>
        [] k = "break"    -> <<At("BRK", 0, TRUE)>>
        [] k = "continue" -> <<At("CTN", 0, TRUE)>>
        [] k = "raise"    -> <<At("RIS", 0, TRUE)>>
        [] k = "return"   -> <<At("EVAL", 1, TRUE), I("RET", 0, FALSE)>>
        [] OTHER          -> <<At("EVAL", 1, TRUE)>>

(* The block stack after a line at depth d of kind k.                      *)
Stacked(s, d, k) ==
  LET kept == IF d < Len(s) THEN SubSeq(s, 1, d) ELSE s
  IN  IF k \in Openers THEN Append(kept, k) ELSE kept

(* The constructs that only some runs write: the code does not give them   *)
(* Python's meaning.                                                       *)
Admitted(p, i) ==
  LET exits == p[i].k \in {"break", "continue"}
  IN  /\ "loopBeforeBreak" \in Admit \/ ~exits
           \/ \A j \in Loop(p, i) + 1 .. i - 1 : p[j].k \in Loops => p[j].d >= p[i].d
      /\ "nestedTry" \in Admit \/ p[i].k # "try" \/ Try(p, i) = 0
      /\ "breakFromTry" \in Admit \/ ~exits \/ Try(p, i) <= Loop(p, i)
      /\ "returnFromTry" \in Admit \/ p[i].k # "return" \/ Try(p, i) = 0

(* parser_lines2Target takes the next line.                                *)
ParseLine(d, k) ==
  LET p == Append(prog, [d |-> d, k |-> k])
  IN  /\ pc = 0
      /\ \E F \in Families : /\ {p[i].k : i \in DOMAIN p} \subseteq F.kinds
                            /\ Len(p) + Owed(p) <= F.lines
      /\ Fits(prog, d, k) /\ InPlace(p, Len(p)) /\ Admitted(p, Len(p))
      /\ d = MaxDepth => k \notin Openers
      /\ prog' = p
      /\ code' = code \o ExitBlocks(stack, d) \o LineCode(Len(p), d, k)
      /\ stack' = Stacked(stack, d, k)
      /\ UNCHANGED <<at, out, frame, thread, signal_ctrl>>

(* The void line that parser_lines2Target adds closes the open blocks; the *)
(* frame starts at the first instruction, or at the body of a function, to *)
(* which DEF made its method point.                                        *)
BodyOf(c, i) ==
  LET def == CHOOSE j \in DOMAIN c : c[j].src = <<i, 0>>
  IN  Min({j \in def + 1 .. Len(c) : c[j].nl /\ c[j].bd = c[def].bd + 1})

Reached(c, q) == IF c[q].src = NoLine THEN START ELSE c[q].src

Start(e) ==
  LET c == code \o ExitBlocks(stack, 0)
      q == IF e = 0 THEN 1 ELSE BodyOf(c, e)
  IN  /\ pc = 0 /\ Complete(prog)
      /\ code' = c /\ stack' = <<>>
      /\ pc' = q /\ at' = Reached(c, q)
      /\ UNCHANGED <<prog, out, top, ireg, thread, signal_ctrl>>

-----------------------------------------------------------------------------
(* Searching the bytecode for a target.                                    *)
(* PikaVMFrame_getAddrOffsetFromJmp: forward over n lines that are not     *)
(* deeper, or back to the last line of the same depth.                     *)
Jump(q, n) ==
  IF n > 0
  THEN LET L == {j \in q + 1 .. Len(code) : code[j].nl /\ code[j].bd <= code[q].bd}
           R == {j \in L : Cardinality({m \in L : m <= j}) >= n}
       IN  IF R = {} THEN Len(code) + 1 ELSE Min(R)
  ELSE Max({j \in 1 .. q - 1 : code[j].nl /\ code[j].bd = code[q].bd})

(* PikaVMFrame_getAddrOffsetOfJmpBack: the depth of the loop is that of    *)
(* the nearest JEZ 2 above that is less deep and not the end of a try; the *)
(* loop's end is the first JMP -1 below at that depth.                     *)
LoopHeadAny(q) ==
  Max({j \in 2 .. q - 1 : /\ code[j].ins = "JEZ" /\ code[j].val = 2
                          /\ code[j - 1].ins # "GER"})
LoopHead(q) ==
  Max({j \in 2 .. q - 1 : /\ code[j].ins = "JEZ" /\ code[j].val = 2
                          /\ code[j - 1].ins # "GER"
                          /\ code[j].bd < code[q].bd})

LoopEnd(q) ==
  LET E == {j \in q + 1 .. Len(code) : /\ code[j].ins = "JMP" /\ code[j].val = -1
                                       /\ code[j].bd = code[LoopHead(q)].bd}
  IN  IF E = {} THEN VM_PC_WILD ELSE Min(E)

(* PikaVMFrame_getAddrOffsetOfRaise: the first NTR below, unless a RET is  *)
(* met before it.                                                          *)
RaiseTarget(q) ==
  LET S == {j \in q + 1 .. Len(code) : code[j].ins \in {"NTR", "RET"}}
  IN  IF S = {} \/ code[Min(S)].ins = "RET" THEN VM_PC_EXIT ELSE Min(S)

Target(q, jmp) ==
  CASE jmp = VM_JMP_EXIT     -> VM_PC_EXIT
    [] jmp = VM_JMP_BREAK    -> IF LoopEnd(q) = VM_PC_WILD THEN VM_PC_WILD ELSE LoopEnd(q) + 1
    [] jmp = VM_JMP_CONTINUE -> LoopEnd(q)
    [] jmp = VM_JMP_RAISE    -> RaiseTarget(q)
    [] jmp = 0               -> q + 1
    [] OTHER                 -> Jump(q, jmp)

(* An error, or a pika_vm_exit, overrides the handler's jump.              *)
OverrideNoSignal(jmp, err, try) ==
  IF err THEN IF try THEN VM_JMP_RAISE ELSE VM_JMP_EXIT ELSE jmp
Override(jmp, err, try) ==
  IF err \/ signal_ctrl THEN IF try THEN VM_JMP_RAISE ELSE VM_JMP_EXIT ELSE jmp

InArray(q) == IF q > Len(code) THEN VM_PC_EXIT ELSE q

(* The source line whose first instruction is at q.                        *)
LineAt(q) == IF q \in DOMAIN code THEN code[q].src ELSE NoLine

(* Where the frame ended, in terms of the source.                          *)
Ended(q, err) == CASE signal_ctrl                  -> STOPPED
                   [] ~signal_ctrl /\ err          -> UNCAUGHT
                   [] ~signal_ctrl /\ ~err
                      /\ code[q].ins = "RET"       -> RETURNED
                   [] OTHER                        -> END

(* What pikaVM_runInstructUnit and the loop around it do after a handler:  *)
(* jmp, err, try and tec are the handler's jump, error and try state, o is *)
(* what a source line came to by it.                                       *)
Finish(jmp, err, try, tec, o) ==
  LET j       == Override(jmp, err, try)
      pc_next == InArray(Target(pc, j))
      now     == IF o = "none" THEN out ELSE o
  IN  /\ pc' = pc_next
      /\ error_code' = err
      /\ try_state' = try
      /\ try_error_code' = (tec \/ (err /\ try))
      /\ try_result' = IF j = VM_JMP_RAISE THEN pc_next = VM_PC_EXIT ELSE try_result
      /\ at' = CASE pc_next = VM_PC_EXIT -> Ended(pc, err)
                 [] pc_next = VM_PC_WILD -> NoLine
                 [] OTHER -> IF LineAt(pc_next) = NoLine THEN at ELSE LineAt(pc_next)
      /\ out' = IF pc_next > 0 /\ LineAt(pc_next) = NoLine THEN now ELSE "none"
      /\ UNCHANGED <<prog, stack, code, signal_ctrl>>

Keep(jmp, o) == Finish(jmp, FALSE, try_state, try_error_code, o)

At(name) == pc > 0 /\ code[pc].ins = name

(* The expression of a line: it comes to a value, or sets an error code.   *)
EVAL(o) ==
  /\ At("EVAL")
  /\ o \in IF code[pc].val = 2 THEN {"true", "false", "error"} ELSE {"ok", "error"}
  /\ top' = (o # "false")
  /\ Finish(0, o = "error", try_state, try_error_code, o)
  /\ UNCHANGED ireg

JEZ == /\ At("JEZ")
       /\ ireg' = [ireg EXCEPT ![code[pc].bd] = ~top]
       /\ Keep(IF top THEN 0 ELSE code[pc].val, "none")
       /\ UNCHANGED top

NEL == /\ At("NEL")
       /\ Keep(IF ireg[code[pc].bd] THEN 0 ELSE code[pc].val, "none")
       /\ UNCHANGED <<top, ireg>>

JMP == At("JMP") /\ Keep(code[pc].val, "none") /\ UNCHANGED <<top, ireg>>

BRK == At("BRK") /\ Keep(VM_JMP_BREAK, "ok") /\ UNCHANGED <<top, ireg>>
CTN == At("CTN") /\ Keep(VM_JMP_CONTINUE, "ok") /\ UNCHANGED <<top, ireg>>
RET == At("RET") /\ Keep(VM_JMP_EXIT, "ok") /\ UNCHANGED <<top, ireg>>
DEL == At("DEL") /\ Keep(0, "none") /\ UNCHANGED <<top, ireg>>
DEF_ == At("DEF") /\ Keep(0, "ok") /\ UNCHANGED <<top, ireg>>

RIS == /\ At("RIS")
       /\ Finish(0, TRUE, try_state, try_error_code, "error")
       /\ UNCHANGED <<top, ireg>>

TRY == /\ At("TRY")
       /\ Finish(0, FALSE, TRUE, try_error_code, "none")
       /\ UNCHANGED <<top, ireg>>

NTR == /\ At("NTR")
       /\ Finish(0, FALSE, FALSE, try_error_code, "none")
       /\ UNCHANGED <<top, ireg>>

GER == /\ At("GER")
       /\ top' = try_error_code
       /\ Keep(0, "none")
       /\ UNCHANGED ireg

EXP == /\ At("EXP")
       /\ Finish(0, FALSE, try_state, FALSE, "none")
       /\ UNCHANGED <<top, ireg>>

(* pika_vm_exit, called from another thread or by an event callback.       *)
pika_vm_exit ==
  /\ pc > 0 /\ ~signal_ctrl
  /\ signal_ctrl' = TRUE
  /\ UNCHANGED <<prog, at, out, stack, code, frame, thread>>

Done == pc \in {VM_PC_EXIT, VM_PC_WILD} /\ UNCHANGED vars

-----------------------------------------------------------------------------
Init ==
  /\ prog = <<>> /\ at = START /\ out = "none"
  /\ stack = <<>> /\ code = <<>>
  /\ pc = 0 /\ top = FALSE
  /\ ireg = [b \in 0 .. MaxDepth |-> FALSE]
  /\ error_code = FALSE /\ try_state = FALSE
  /\ try_error_code = FALSE /\ try_result = FALSE
  /\ signal_ctrl = FALSE

Parse == \E d \in 0 .. MaxDepth, k \in UsedKinds : ParseLine(d, k)

Begin == \E e \in {0} \cup {i \in DOMAIN prog : prog[i].k = "def"} : Start(e)

VMStep == \/ \E o \in {"ok", "true", "false", "error"} : EVAL(o)
          \/ JEZ \/ NEL \/ JMP \/ BRK \/ CTN \/ RET \/ DEL \/ DEF_
          \/ RIS \/ TRY \/ NTR \/ GER \/ EXP

Next == Parse \/ Begin \/ VMStep \/ pika_vm_exit \/ Done

Spec == Init /\ [][Next]_vars
FairSpec == Spec /\ WF_vars(VMStep)

-----------------------------------------------------------------------------
(* The bytecode runs the source lines in Python's order: README.md's table *)
(* of supported control flow, and AST_genAsm_top, the jump searches of     *)
(* PikaVMFrame and the registers ireg and try_state taken together.        *)
Py == INSTANCE PyBlocks
PySpec == Py!Spec

(* Once pika_vm_exit is called no further source line starts, be the frame *)
(* in a try, in an except or in the middle of a loop.                      *)
StopsPromptly == [][signal_ctrl /\ pc > 0 => at' \in {at, STOPPED}]_vars
=============================================================================
