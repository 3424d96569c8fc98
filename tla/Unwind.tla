------------------------------- MODULE Unwind -------------------------------
(***************************************************************************)
(* libunwind, as the library builds it: DWARF expressions, rows of call    *)
(* frame instructions, the step to the caller, and how the description of  *)
(* a function is found and read.                                           *)
(***************************************************************************)
EXTENDS Integers, Sequences, FiniteSetsExt, SequencesExt, Samples

-----------------------------------------------------------------------------
(***************************************************************************)
(* evaluateExpression of thirdparty/libunwind/src/DwarfInstructions.hpp:   *)
(* the stack machine whose programs say where a frame or a saved register  *)
(* is.                                                                     *)
(*                                                                         *)
(* A program is a sequence of operations [op, reg, n]; p is an index into  *)
(* it, so a jump counts operations instead of bytes.  A word has           *)
(* MachineBits bits and a byte ByteBits.                                   *)
(***************************************************************************)

CONSTANTS
  MachineBits,     \* bits of pint_t
  ByteBits,        \* bits of a byte of the machine
  LeafConsts       \* constants of the expressions that are sampled

MachineWords == 0..(2 ^ MachineBits - 1)
ToWord(n) == n % 2 ^ MachineBits
AsSigned(w, bits) == IF w >= 2 ^ (bits - 1) THEN w - 2 ^ bits ELSE w
SignedWord(w) == AsSigned(w, MachineBits)

Op(op, reg, n) == [op |-> op, reg |-> reg, n |-> n]

AbsOf(n) == IF n < 0 THEN -n ELSE n

(* C's division cuts towards zero, and the remainder has the sign of the   *)
(* dividend.                                                               *)
CutDiv(a, b) == LET q == AbsOf(a) \div AbsOf(b) IN IF (a < 0) = (b < 0) THEN q ELSE -q
CutMod(a, b) == a - b * CutDiv(a, b)

OnesOf(w) == {i \in 0..(MachineBits - 1) : (w \div 2 ^ i) % 2 = 1}
FromOnes(S) == FoldSet(LAMBDA i, acc : 2 ^ i + acc, 0, S)

-----------------------------------------------------------------------------
(* A stack is a sequence, its top at the end. *)
Under(s, k) == s[Len(s) - k]                  \* sp[-k]
Pushed(s, w) == Append(s, ToWord(w))
Dropped1(s) == Front(s)

(* The constants: of 1, 2, 4 or 8 bytes, signed or not, and the ones       *)
(* written as LEB128.                                                      *)
ConstantOf(o) ==
  CASE o.op = "const1s" -> AsSigned(o.n, ByteBits)
    [] o.op = "const2s" -> AsSigned(o.n, 2 * ByteBits)
    [] OTHER -> o.n                           \* addr, const1u, const2u, constu, consts

(* dup, drop, over, pick, swap and rot. *)
Shuffled(s, o) ==
  CASE o.op = "dup"  -> Pushed(s, Under(s, 0))
    [] o.op = "drop" -> Dropped1(s)
    [] o.op = "over" -> Pushed(s, Under(s, 1))
    [] o.op = "pick" -> Pushed(s, Under(s, o.n))
    [] o.op = "swap" -> [s EXCEPT ![Len(s)] = Under(s, 1), ![Len(s) - 1] = Under(s, 0)]
    [] o.op = "rot"  -> [s EXCEPT ![Len(s)] = Under(s, 1), ![Len(s) - 1] = Under(s, 2),
                                  ![Len(s) - 2] = Under(s, 0)]

Shuffles == {"dup", "drop", "over", "pick", "swap", "rot"}

(* The operations on the top word. *)
OnTop(o, w) ==
  CASE o.op = "abs" -> AbsOf(SignedWord(w))
    [] o.op = "neg" -> 0 - w
    [] o.op = "not" -> -1 - SignedWord(w)
    [] o.op = "plus_uconst" -> w + o.n

Unaries == {"abs", "neg", "not", "plus_uconst"}

(* The operations on two words: w is under top.  Multiplication, division  *)
(* and the remainder are signed; shifts are by less than the word.         *)
OnTwo(o, w, top) ==
  CASE o.op = "and"   -> FromOnes(OnesOf(w) \cap OnesOf(top))
    [] o.op = "or"    -> FromOnes(OnesOf(w) \cup OnesOf(top))
    [] o.op = "xor"   -> FromOnes((OnesOf(w) \cup OnesOf(top)) \ (OnesOf(w) \cap OnesOf(top)))
    [] o.op = "div"   -> CutDiv(SignedWord(w), SignedWord(top))
    [] o.op = "mod"   -> CutMod(SignedWord(w), SignedWord(top))
    [] o.op = "mul"   -> SignedWord(w) * SignedWord(top)
    [] o.op = "minus" -> w - top
    [] o.op = "plus"  -> w + top
    [] o.op = "shl"   -> w * 2 ^ top
    [] o.op = "shr"   -> w \div 2 ^ top
    [] o.op = "shra"  -> SignedWord(w) \div 2 ^ top

Arithmetic == {"and", "or", "xor", "div", "mod", "mul", "minus", "plus", "shl", "shr", "shra"}

(* The comparisons are of unsigned words. *)
Compared(o, w, top) ==
  LET holds == CASE o.op = "eq" -> w = top  [] o.op = "ne" -> w # top
                 [] o.op = "ge" -> w >= top [] o.op = "gt" -> w > top
                 [] o.op = "le" -> w <= top [] o.op = "lt" -> w < top
  IN IF holds THEN 1 ELSE 0

Comparisons == {"eq", "ne", "ge", "gt", "le", "lt"}

(* Where skip and bra go: from behind their operand. *)
JumpTarget(s, o, p) ==
  IF o.op = "skip" \/ Last(s) # 0 THEN p + 1 + o.n ELSE p + 1

(* The literals, reg and breg. *)
RegisterTerm(o, regs) ==
  CASE o.op = "lit"  -> o.n
    [] o.op = "reg"  -> regs[o.reg]
    [] o.op = "breg" -> SignedWord(regs[o.reg]) + o.n

(* mem holds a word at each address; a byte is the low part of a word. *)
DerefSized(mem, address, o) ==
  IF o.op = "deref_size" THEN mem[address] % 2 ^ (o.n * ByteBits) ELSE mem[address]

(* The program from p on; -1 stands for _LIBUNWIND_ABORT. *)
RECURSIVE EvaluateFrom(_, _, _, _, _)
EvaluateFrom(e, regs, mem, s, p) ==
  LET o == e[p]
      go(t) == EvaluateFrom(e, regs, mem, t, p + 1)
  IN IF p > Len(e) THEN Last(s)
     ELSE CASE o.op \in Shuffles -> go(Shuffled(s, o))
            [] o.op \in Unaries -> go(Pushed(Front(s), OnTop(o, Last(s))))
            [] o.op \in Arithmetic ->
                 go(Pushed(Front(Front(s)), OnTwo(o, Under(s, 1), Last(s))))
            [] o.op \in Comparisons ->
                 go(Pushed(Front(Front(s)), Compared(o, Under(s, 1), Last(s))))
            [] o.op \in {"deref", "deref_size"} ->
                 go(Pushed(Front(s), DerefSized(mem, Last(s), o)))
            [] o.op = "xderef" -> go(Pushed(Front(Front(s)), mem[Last(s)]))
            [] o.op \in {"skip", "bra"} ->
                 EvaluateFrom(e, regs, mem, IF o.op = "bra" THEN Front(s) ELSE s,
                              JumpTarget(s, o, p))
            [] o.op \in {"lit", "reg", "breg"} -> go(Pushed(s, RegisterTerm(o, regs)))
            [] o.op \in {"addr", "const1u", "const1s", "const2u", "const2s", "constu",
                         "consts"} -> go(Pushed(s, ConstantOf(o)))
            [] OTHER -> -1

(* The stack starts with one word: the CFA, or 0 when the CFA is computed. *)
evaluateExpression(e, regs, mem, initialStackValue) ==
  EvaluateFrom(e, regs, mem, <<initialStackValue>>, 1)

-----------------------------------------------------------------------------
(* A term and the program a compiler makes of it.  `way' is how the        *)
(* operands come to be in order, and d the words already on the stack.     *)
Leaf(o) == [kind |-> "leaf", o |-> o]
Term1(o, a) == [kind |-> "unary", o |-> o, a |-> a]
Term2(o, a, b, way) == [kind |-> "binary", o |-> o, a |-> a, b |-> b, way |-> way]
Choice(c, a, b) == [kind |-> "choice", c |-> c, a |-> a, b |-> b]
TheCFA == [kind |-> "cfa"]

RECURSIVE Compiled(_, _)
Compiled(t, d) ==
  CASE t.kind = "leaf" -> <<t.o>>
    [] t.kind = "cfa" -> <<IF d = 1 THEN Op("dup", 0, 0)
                           ELSE IF d = 2 THEN Op("over", 0, 0) ELSE Op("pick", 0, d - 1)>>
    [] t.kind = "unary" -> Append(Compiled(t.a, d), t.o)
    [] t.kind = "binary" /\ t.way = "plain" ->
         Append(Compiled(t.a, d) \o Compiled(t.b, d + 1), t.o)
    [] t.kind = "binary" /\ t.way = "swap" ->
         Compiled(t.b, d) \o Compiled(t.a, d + 1) \o <<Op("swap", 0, 0), t.o>>
    [] t.kind = "binary" /\ t.way = "rot" ->
         Compiled(t.b, d) \o <<Op("lit", 0, 1)>> \o Compiled(t.a, d + 2)
         \o <<Op("rot", 0, 0), Op("drop", 0, 0), t.o>>
    [] t.kind = "choice" ->
         LET then == Compiled(t.a, d)
             else == Compiled(t.b, d)
         IN Compiled(t.c, d) \o <<Op("bra", 0, Len(else) + 1)>> \o else
            \o <<Op("skip", 0, Len(then))>> \o then

(* What the term means, in signed integers. *)
RECURSIVE TermValue(_, _, _, _)
TermValue(t, regs, mem, cfa) ==
  LET a == TermValue(t.a, regs, mem, cfa)
      b == TermValue(t.b, regs, mem, cfa)
      name == t.o.op
      wrap(n) == SignedWord(ToWord(n))
      bits(n) == OnesOf(ToWord(n))
  IN CASE t.kind = "cfa" -> SignedWord(cfa)
       [] t.kind = "choice" -> IF TermValue(t.c, regs, mem, cfa) = 0 THEN b ELSE a
       [] t.kind = "leaf" -> (CASE name \in {"reg", "breg"} -> wrap(regs[t.o.reg] + t.o.n)
                                [] name = "const1s" -> AsSigned(t.o.n, ByteBits)
                                [] name = "const2s" -> AsSigned(t.o.n, 2 * ByteBits)
                                [] OTHER -> t.o.n)
       [] t.kind = "unary" -> (CASE name = "abs" -> wrap(AbsOf(a))
                                 [] name = "neg" -> wrap(-a)
                                 [] name = "not" -> wrap(-1 - a)
                                 [] name = "plus_uconst" -> wrap(a + t.o.n)
                                 [] name = "deref" -> SignedWord(mem[ToWord(a)])
                                 [] name = "deref_size" -> mem[ToWord(a)] % 2 ^ ByteBits)
       [] t.kind = "binary" -> (CASE name = "plus" -> wrap(a + b)
                                  [] name = "minus" -> wrap(a - b)
                                  [] name = "mul" -> wrap(a * b)
                                  [] name = "div" -> wrap(CutDiv(a, b))
                                  [] name = "mod" -> CutMod(a, b)
                                  [] name = "and" -> wrap(FromOnes({i \in bits(a) : i \in bits(b)}))
                                  [] name = "or" -> wrap(-1 - FromOnes(bits(-1 - a) \cap bits(-1 - b)))
                                  [] name = "xor" -> wrap(FromOnes({i \in 0..MachineBits - 1 :
                                                       (i \in bits(a)) # (i \in bits(b))}))
                                  [] name = "shl" -> wrap(a * 2 ^ b)
                                  [] name = "shra" -> a \div 2 ^ b
                                  [] name = "shr" -> wrap(ToWord(a) \div 2 ^ b)
                                  [] name = "eq" -> IF a = b THEN 1 ELSE 0
                                  [] name = "ne" -> IF a = b THEN 0 ELSE 1
                                  [] name = "ge" -> IF a >= b THEN 1 ELSE 0
                                  [] name = "gt" -> IF a > b THEN 1 ELSE 0
                                  [] name = "le" -> IF a > b THEN 0 ELSE 1
                                  [] name = "lt" -> IF a >= b THEN 0 ELSE 1)

(* The machine the terms are evaluated on. *)
TermRegs == [r \in 0..2 |-> <<2, 2 ^ (MachineBits - 1) + 1, 3>>[r + 1]]
TermMemory == [a \in MachineWords |-> ToWord(5 * a + 3)]
TermCFA == 2 ^ MachineBits - 2

Leaves ==
  {Leaf(Op(op, 0, n)) : op \in {"constu", "const1s", "const2s"}, n \in LeafConsts}
  \cup {Leaf(Op("const2s", 0, 2 ^ (2 * ByteBits) - 4)), Leaf(Op("reg", 1, 0)),
        Leaf(Op("breg", 2, -4)), TheCFA}
SmallTerms ==
  Leaves \cup {Term1(Op(op, 0, 1), a) : op \in Unaries \cup {"deref", "deref_size"}, a \in Leaves}
Naturals1 == {Leaf(Op("constu", 0, n)) : n \in LeafConsts} \cup {Leaf(Op("breg", 2, -2))}
Tests == {Term2(Op(op, 0, 0), a, b, "plain") : op \in Comparisons, a, b \in Naturals1}

ExpressionInit ==
  \E t \in {Term2(Op(op, 0, 0), a, b, "plain") : op \in Arithmetic \ {"shl", "shr", "shra"},
                                                  a \in SmallTerms, b \in Leaves}
          \cup {Term2(Op(op, 0, 0), a, b, w) : op \in {"minus", "div", "mod"},
                                               a, b \in Leaves, w \in {"swap", "rot"}}
          \cup {Term2(Op(op, 0, 0), a, b, "plain") : op \in {"shl", "shr", "shra"},
                                                     a \in SmallTerms, b \in Naturals1}
          \cup {Choice(c, a, b) : c \in Tests, a, b \in Leaves} :
    /\ t.kind = "binary" /\ t.o.op \in {"div", "mod"}
         => TermValue(t.b, TermRegs, TermMemory, TermCFA) # 0
    /\ sample = [of |-> "expression", term |-> t]

(* The program of a term leaves the term's value on the stack: operands in *)
(* the order they were pushed, whatever brought them there, and a choice   *)
(* through bra and skip takes the right branch.  Comparisons are only of   *)
(* words that are the same signed and unsigned.                            *)
ExpressionsEvaluate ==
  sample.of = "expression" =>
    LET t == sample.term
    IN evaluateExpression(Compiled(t, 1), TermRegs, TermMemory, TermCFA)
         = ToWord(TermValue(t, TermRegs, TermMemory, TermCFA))

-----------------------------------------------------------------------------
(***************************************************************************)
(* The unwinder's call frame information:                                  *)
(* CFI_Parser::parseFDEInstructions of                                     *)
(* thirdparty/libunwind/src/DwarfParser.hpp runs the instructions of a     *)
(* function's CIE and FDE up to an address, and stepWithDwarf of           *)
(* DwarfInstructions.hpp computes the registers of the caller from it.     *)
(*                                                                         *)
(* An instruction is [op, reg, n]; a machine instruction has length 1 and  *)
(* a word of memory takes one address.  An expression is known by its      *)
(* address, an index of FrameExpressions.                                  *)
(***************************************************************************)

CONSTANTS
  MaxFrameReg,       \* kMaxRegisterNumber
  MaxFrameCode,      \* bound: the machine instructions of a function
  MaxFrameInstrs     \* bound: the instructions of an FDE, run on their own

FrameRegs == 0..MaxFrameReg
FPReg == 1           \* frame pointer
SavedReg == 2        \* another register that a function preserves
SPReg == 3
RAReg == 4           \* column of the return address
SignReg == 5         \* UNW_AARCH64_RA_SIGN_STATE
VectorReg == 6       \* a float register on aarch64, not a valid one on x86

(* CFA - k for k up to 8, and SP + k *)
FrameExpressions ==
  [k \in 1..19 |-> IF k < 10 THEN <<Op("lit", 0, k), Op("minus", 0, 0)>>
                   ELSE <<Op("breg", SPReg, k - 10)>>]

-----------------------------------------------------------------------------
Unsaved == [location |-> "Unused", initialStateSaved |-> FALSE, value |-> 0]

(* Of a PrologInfo(kLazy): anything. *)
Uninitialised == [location |-> "anything", initialStateSaved |-> FALSE, value |-> 0]

PrologInfo ==
  [cfaRegister |-> 0, cfaRegisterOffset |-> 0, cfaExpression |-> 0, spExtraArgSize |-> 0,
   savedRegisters |-> [r \in FrameRegs |-> Unsaved]]

checkSaveRegister(s, reg) ==
  IF s.results.savedRegisters[reg].initialStateSaved THEN s
  ELSE [s EXCEPT !.initialState[reg] = s.results.savedRegisters[reg],
                 !.results.savedRegisters[reg].initialStateSaved = TRUE]

setRegister(s, reg, location, value) ==
  [checkSaveRegister(s, reg) EXCEPT !.results.savedRegisters[reg].location = location,
                                    !.results.savedRegisters[reg].value = value]

setRegisterLocation(s, reg, location) ==
  [checkSaveRegister(s, reg) EXCEPT !.results.savedRegisters[reg].location = location]

setRegisterValue(s, reg, value) ==
  [checkSaveRegister(s, reg) EXCEPT !.results.savedRegisters[reg].value = value]

restoreRegisterToInitialState(s, reg) ==
  IF s.results.savedRegisters[reg].initialStateSaved
  THEN [s EXCEPT !.results.savedRegisters[reg] = s.initialState[reg]]
  ELSE s

-----------------------------------------------------------------------------
(* The instructions. *)
Malformed(s) == [s EXCEPT !.ok = FALSE]

SetLocation(s, i, cie) == [s EXCEPT !.codeOffset = i.n]

AdvanceLocation(s, i, cie) == [s EXCEPT !.codeOffset = @ + i.n * cie.codeAlignFactor]

OffsetExtended(s, i, cie) == setRegister(s, i.reg, "InCFA", i.n * cie.dataAlignFactor)

RestoreExtended(s, i, cie) == restoreRegisterToInitialState(s, i.reg)

UndefinedOrSame(s, i, cie) ==
  setRegisterLocation(s, i.reg, IF i.op = "undefined" THEN "Undefined" ELSE "Unused")

InOtherRegister(s, i, cie) == setRegister(s, i.reg, "InRegister", i.n)

RememberState(s, i, cie) == [s EXCEPT !.rememberStack = <<s.results>> \o @]

ForgetRegisters(s, i, cie) ==      \* mutant: the rules come back, the CFA does not
  IF s.rememberStack = <<>> THEN Malformed(s)
  ELSE [s EXCEPT !.results.savedRegisters = Head(s.rememberStack).savedRegisters,
                 !.rememberStack = Tail(@)]

RestoreState(s, i, cie) ==
  IF s.rememberStack = <<>> THEN Malformed(s)
  ELSE [s EXCEPT !.results = Head(s.rememberStack), !.rememberStack = Tail(@)]

DefCfa(s, i, cie) ==
  [s EXCEPT !.results.cfaRegister = IF i.op = "def_cfa_offset" THEN @ ELSE i.reg,
            !.results.cfaRegisterOffset = IF i.op = "def_cfa_register" THEN @ ELSE i.n]

(* cfaExpression is never cleared: a later def_cfa hides it. *)
DefCfaExpression(s, i, cie) ==
  [s EXCEPT !.results.cfaRegister = 0, !.results.cfaExpression = i.n]

AtExpression(s, i, cie) == setRegister(s, i.reg, "AtExpression", i.n)

OffsetExtendedSf(s, i, cie) == setRegister(s, i.reg, "InCFA", i.n * cie.dataAlignFactor)

DefCfaSf(s, i, cie) ==
  [s EXCEPT !.results.cfaRegister = IF i.op = "def_cfa_offset_sf" THEN @ ELSE i.reg,
            !.results.cfaRegisterOffset = i.n * cie.dataAlignFactor]

ValOffset(s, i, cie) == setRegister(s, i.reg, "OffsetFromCFA", i.n * cie.dataAlignFactor)

ValExpression(s, i, cie) == setRegister(s, i.reg, "IsExpression", i.n)

ArgsSize(s, i, cie) == [s EXCEPT !.results.spExtraArgSize = i.n]

NegativeOffset(s, i, cie) == setRegister(s, i.reg, "InCFA", -(i.n * cie.dataAlignFactor))

NegateRaState(s, i, cie) ==
  IF ~cie.signs THEN Malformed(s)
  ELSE setRegisterValue(s, SignReg, 1 - s.results.savedRegisters[SignReg].value)

(* The instructions with an operand in the opcode. *)
PackedInstruction(s, i, cie) ==
  CASE i.op = "offset"  -> setRegister(s, i.reg, "InCFA", i.n * cie.dataAlignFactor)
    [] i.op = "advance_loc" -> AdvanceLocation(s, i, cie)
    [] i.op = "restore" -> restoreRegisterToInitialState(s, i.reg)
    [] OTHER -> Malformed(s)

OutOfRange(i) == i.reg > MaxFrameReg \/ (i.op = "register" /\ i.n > MaxFrameReg)

ParseInstruction(s, i, cie) ==
  CASE OutOfRange(i)                    -> Malformed(s)
    [] i.op = "nop"                     -> s
    [] i.op = "set_loc"                 -> SetLocation(s, i, cie)
    [] i.op = "advance_loc1"            -> AdvanceLocation(s, i, cie)
    [] i.op = "offset_extended"         -> OffsetExtended(s, i, cie)
    [] i.op = "restore_extended"        -> RestoreExtended(s, i, cie)
    [] i.op \in {"undefined", "same_value"} -> UndefinedOrSame(s, i, cie)
    [] i.op = "register"                -> InOtherRegister(s, i, cie)
    [] i.op = "remember_state"          -> RememberState(s, i, cie)
    [] i.op = "restore_state"           -> RestoreState(s, i, cie)
    [] i.op \in {"def_cfa", "def_cfa_register", "def_cfa_offset"} -> DefCfa(s, i, cie)
    [] i.op = "def_cfa_expression"      -> DefCfaExpression(s, i, cie)
    [] i.op = "expression"              -> AtExpression(s, i, cie)
    [] i.op = "offset_extended_sf"      -> OffsetExtendedSf(s, i, cie)
    [] i.op \in {"def_cfa_sf", "def_cfa_offset_sf"} -> DefCfaSf(s, i, cie)
    [] i.op \in {"val_offset", "val_offset_sf"}     -> ValOffset(s, i, cie)
    [] i.op = "val_expression"          -> ValExpression(s, i, cie)
    [] i.op = "args_size"               -> ArgsSize(s, i, cie)
    [] i.op = "negative_offset_extended" -> NegativeOffset(s, i, cie)
    [] i.op = "negate_ra_state"         -> NegateRaState(s, i, cie)
    [] OTHER                            -> PackedInstruction(s, i, cie)

StillBefore(codeOffset, pcoffset) == codeOffset < pcoffset

RECURSIVE RunInstructions(_, _, _, _, _)
RunInstructions(s, cie, instrs, p, pcoffset) ==
  IF ~s.ok \/ p > Len(instrs) \/ ~StillBefore(s.codeOffset, pcoffset) THEN s
  ELSE RunInstructions(ParseInstruction(s, instrs[p], cie), cie, instrs, p + 1, pcoffset)

(* The CIE's instructions to the end, then the FDE's up to the address.    *)
(* What is remembered stays, initialState does not.                        *)
parseFDEInstructions(fde, cie, upToPC) ==
  LET fresh(s) == [s EXCEPT !.codeOffset = 0, !.initialState = [r \in FrameRegs |-> Uninitialised]]
      start == [results |-> PrologInfo, initialState |-> [r \in FrameRegs |-> Uninitialised],
                rememberStack |-> <<>>, codeOffset |-> 0, ok |-> TRUE]
      common == RunInstructions(start, cie, cie.instructions, 1, 2 ^ MachineBits)
  IN RunInstructions(fresh(common), cie, fde.instructions, 1, upToPC - fde.pcStart)

-----------------------------------------------------------------------------
(* A machine: r holds the registers with DWARF numbers, ip the address of  *)
(* the next instruction.  -1 stands for an abort.                          *)
getCFA(prolog, regs, mem) ==
  IF prolog.cfaRegister # 0
    THEN ToWord(regs.r[prolog.cfaRegister] + prolog.cfaRegisterOffset)
  ELSE evaluateExpression(FrameExpressions[prolog.cfaExpression], regs.r, mem, 0)

getSavedRegister(saved, regs, mem, cfa) ==
  CASE saved.location = "InCFA" -> mem[ToWord(cfa + saved.value)]
    [] saved.location = "AtExpression" ->
         mem[evaluateExpression(FrameExpressions[saved.value], regs.r, mem, cfa)]
    [] saved.location = "IsExpression" ->
         evaluateExpression(FrameExpressions[saved.value], regs.r, mem, cfa)
    [] saved.location = "InRegister" -> regs.r[saved.value]
    [] saved.location = "Undefined" -> 0
    [] OTHER -> -1                         \* OffsetFromCFA is not supported

getSavedFloatRegister(saved, regs, mem, cfa) ==
  CASE saved.location = "InCFA" -> mem[ToWord(cfa + saved.value)]
    [] saved.location = "AtExpression" ->
         mem[evaluateExpression(FrameExpressions[saved.value], regs.r, mem, cfa)]
    [] saved.location = "InRegister" -> regs.r[saved.value]
    [] saved.location = "Undefined" -> 0
    [] OTHER -> -1

getRA_SIGN_STATE(prolog, regs, mem, cfa) ==
  LET saved == prolog.savedRegisters[SignReg]
  IN (IF saved.location = "Unused" THEN saved.value
      ELSE getSavedRegister(saved, regs, mem, cfa)) % 2

(* paciasp and autia1716: a pointer signed with a modifier. *)
SignPointer(a, modifier) == ToWord(a + 5 * modifier + 1)
AuthPointer(a, modifier) == ToWord(a - 5 * modifier - 1)

SetIP(regs, cie, a) ==
  IF cie.signs THEN [regs EXCEPT !.ip = a]
  ELSE [regs EXCEPT !.ip = a, !.r[RAReg] = a]     \* the column is the program counter

WithSP(regs, cfa) == [regs EXCEPT !.r[SPReg] = cfa]

(* The registers that are restored: all the saved ones, but the return     *)
(* address is kept apart; every value is computed from the old registers.  *)
NewRegisters(prolog, cie, regs, mem, cfa) ==
  LET saved == prolog.savedRegisters
      start == WithSP(regs, cfa)
  IN [start EXCEPT !.r = [r \in FrameRegs |->
        CASE saved[r].location = "Unused" \/ r = cie.returnAddressRegister -> start.r[r]
          [] r = VectorReg -> getSavedFloatRegister(saved[r], regs, mem, cfa)
          [] OTHER -> getSavedRegister(saved[r], regs, mem, cfa)]]

(* What is wrong with the rule of a register, and of the first that has    *)
(* something wrong.                                                        *)
RuleTrouble(saved, r, cie) ==
  CASE saved.location = "Unused" -> "none"
    [] r = VectorReg /\ ~cie.signs -> "EBADREG"
    [] saved.location = "OffsetFromCFA" -> "abort"
    [] r = VectorReg /\ saved.location = "IsExpression" -> "abort"
    [] OTHER -> "none"

FirstTrouble(prolog, cie) ==
  LET bad == {r \in FrameRegs : RuleTrouble(prolog.savedRegisters[r], r, cie) # "none"}
  IN IF bad = {} THEN "success" ELSE RuleTrouble(prolog.savedRegisters[Min(bad)], Min(bad), cie)

ReturnAddress(prolog, cie, regs, mem, cfa) ==
  LET saved == prolog.savedRegisters[cie.returnAddressRegister]
      ra == IF saved.location # "Unused" THEN getSavedRegister(saved, regs, mem, cfa)
            ELSE regs.r[cie.returnAddressRegister]
  IN IF cie.signs /\ getRA_SIGN_STATE(prolog, regs, mem, cfa) = 1 /\ ra # 0
     THEN AuthPointer(ra, cfa) ELSE ra

stepWithDwarf(pc, fde, cie, regs, mem) ==
  LET parsed == parseFDEInstructions(fde, cie, pc)
      prolog == parsed.results
      cfa == getCFA(prolog, regs, mem)
      new == NewRegisters(prolog, cie, regs, mem, cfa)
      trouble == FirstTrouble(prolog, cie)
  IN IF ~parsed.ok THEN [result |-> "EBADFRAME", regs |-> regs]
     ELSE IF trouble # "success" THEN [result |-> trouble, regs |-> regs]
     ELSE [result |-> "success",
           regs |-> SetIP(new, cie, ReturnAddress(prolog, cie, regs, mem, cfa))]

-----------------------------------------------------------------------------
(* What the rules are by the standard, without running the instructions:   *)
(* those between a remember_state and its restore_state have no effect,    *)
(* and of the others the last one about a register counts.                 *)
Executed(fde, upToPC) ==
  LET instrs == fde.instructions
      offset(k) == FoldLeft(LAMBDA acc, i : IF i.op = "advance_loc" THEN acc + i.n ELSE acc, 0,
                            SubSeq(instrs, 1, k))
      reached == {k \in 0..Len(instrs) : \A j \in 0..(k - 1) : offset(j) < upToPC - fde.pcStart}
  IN SubSeq(instrs, 1, Max(reached))

Depth(instrs, j, k) ==     \* of remember_state in j..k
  FoldLeft(LAMBDA acc, i : acc + (CASE i.op = "remember_state" -> 1
                                    [] i.op = "restore_state" -> -1 [] OTHER -> 0),
           0, SubSeq(instrs, j, k))

Balanced(instrs) == \A k \in 1..Len(instrs) : Depth(instrs, 1, k) >= 0

Hidden(instrs, k) ==       \* instruction k is between a pair
  \E a \in 1..k, b \in k..Len(instrs) :
    /\ instrs[a].op = "remember_state" /\ instrs[b].op = "restore_state"
    /\ Depth(instrs, a, b) = 0 /\ \A j \in a..(b - 1) : Depth(instrs, a, j) > 0

LastAbout(instrs, Is(_)) ==
  LET about == {k \in 1..Len(instrs) : Is(instrs[k]) /\ ~Hidden(instrs, k)}
  IN IF about = {} THEN 0 ELSE Max(about)

RuleOps == {"offset", "restore", "undefined", "same_value", "register", "expression"}
RuleOf(i, initial, cie) ==
  CASE i.op = "restore" -> initial
    [] i.op = "undefined" -> [location |-> "Undefined", value |-> initial.value]
    [] i.op = "same_value" -> [location |-> "Unused", value |-> initial.value]
    [] i.op = "offset" -> [location |-> "InCFA", value |-> i.n * cie.dataAlignFactor]
    [] i.op = "register" -> [location |-> "InRegister", value |-> i.n]
    [] i.op = "expression" -> [location |-> "AtExpression", value |-> i.n]

CoreAlphabet ==
  {Op("advance_loc", 0, 1), Op("remember_state", 0, 0), Op("restore_state", 0, 0),
   Op("def_cfa_offset", 0, 2), Op("offset", SavedReg, 2), Op("restore", SavedReg, 0),
   Op("register", SavedReg, 0)}
Alphabet ==
  CoreAlphabet \cup {Op("def_cfa_register", FPReg, 0), Op("undefined", SavedReg, 0),
                     Op("offset", RAReg, 3)}

EntryCIE(signs) ==
  [codeAlignFactor |-> 1, dataAlignFactor |-> -1, returnAddressRegister |-> RAReg, signs |-> signs,
   instructions |-> IF signs THEN <<Op("def_cfa", SPReg, 0)>>
                    ELSE <<Op("def_cfa", SPReg, 1), Op("offset", RAReg, 1)>>]

RowInit ==
  \E n \in 0..MaxFrameInstrs :
    \E instrs \in [1..n -> IF n = MaxFrameInstrs THEN CoreAlphabet ELSE Alphabet], pc \in 11..12 :
      /\ Balanced(instrs)
      /\ sample = [of |-> "row", fde |-> [pcStart |-> 10, instructions |-> instrs], pc |-> pc]

(* The row of an address is the standard's: for each register the rule of  *)
(* the last instruction about it before the address, restore being the     *)
(* CIE's rule, and nothing of what a restore_state undoes.  A restore of a *)
(* register that the CIE gives a rule is left out: initialState is a new   *)
(* object for the FDE's instructions, and what it holds for this register  *)
(* was never written.                                                      *)
RowsAsStandard ==
  sample.of = "row" =>
    LET cie == EntryCIE(FALSE)
        out == parseFDEInstructions(sample.fde, cie, sample.pc)
        done == Executed(sample.fde, sample.pc)
        about(r) == LastAbout(done, LAMBDA i : i.op \in RuleOps /\ i.reg = r)
        offset == LastAbout(done, LAMBDA i : i.op = "def_cfa_offset")
        base == LastAbout(done, LAMBDA i : i.op = "def_cfa_register")
        initial(r) == IF r = RAReg THEN [location |-> "InCFA", value |-> -1]
                      ELSE [location |-> "Unused", value |-> 0]
    IN /\ out.ok
       /\ out.results.cfaRegister = IF base = 0 THEN SPReg ELSE done[base].reg
       /\ out.results.cfaRegisterOffset = IF offset = 0 THEN 1 ELSE done[offset].n
       /\ \A r \in FrameRegs :
            LET saved == out.results.savedRegisters[r]
                rule == IF about(r) = 0 THEN initial(r) ELSE RuleOf(done[about(r)], initial(r), cie)
            IN /\ saved.location = rule.location
               /\ rule.location \notin {"Unused", "Undefined"} => saved.value = rule.value

-----------------------------------------------------------------------------
(* A function, run on the machine: each instruction, and what a compiler   *)
(* notes for the unwinder behind it.  c says what the compiler knows:      *)
(* depth, the words pushed since the CFA, the base of the CFA, and where   *)
(* each register was saved, 0 for nowhere.                                 *)
CompilerStart(signs) ==
  [depth |-> IF signs THEN 0 ELSE 1, base |-> SPReg, saved |-> [r \in FrameRegs |-> 0],
   left |-> FALSE, noted |-> <<>>]

Styles == {"plain", "signed", "expression"}

NoteCfa(depth, style) ==
  CASE style = "plain" -> <<Op("def_cfa_offset", 0, depth)>>
    [] style = "signed" -> <<Op("def_cfa_offset_sf", 0, -depth)>>
    [] style = "expression" -> <<Op("def_cfa_expression", 0, 10 + depth)>>
NoteSaved(r, depth, style) ==
  CASE style = "plain" -> <<Op("offset", r, depth)>>
    [] style = "signed" -> <<Op("offset_extended_sf", r, depth)>>
    [] style = "expression" -> <<Op("expression", r, depth)>>

(* m.op in push (reg), frame, grow, spoil (reg), stash, sign, leave, ret *)
Possible(c, m, signs, style) ==
  /\ c.left <=> m.op = "ret"
  /\ CASE m.op = "push"  -> c.saved[m.reg] = 0 /\ (m.reg = RAReg => signs)
       [] m.op = "stash" -> c.saved[SavedReg] = 0
       [] m.op = "frame" -> c.saved[FPReg] > 0 /\ c.base = SPReg /\ style # "expression"
       [] m.op = "spoil" -> c.saved[m.reg] # 0 /\ c.base # m.reg
       [] m.op = "sign"  -> signs /\ c = CompilerStart(TRUE)
       [] m.op = "leave" -> ~\E k \in 1..Len(c.noted) : c.noted[k].op \in {"remember_state", "negate_ra_state"}
       [] OTHER -> TRUE

Noted(c, m, signs, style) ==
  LET deeper == [c EXCEPT !.depth = @ + 1]
      cfa == IF c.base = SPReg THEN NoteCfa(c.depth + 1, style) ELSE <<>>
      entry == IF signs THEN 0 ELSE 1
      note(d, ops) == [d EXCEPT !.noted = @ \o <<Op("advance_loc", 0, 1)>> \o ops]
      restores == SetToSeq({Op("restore", r, 0) : r \in {q \in FrameRegs : c.saved[q] # 0}})
  IN CASE m.op = "push"  -> note([deeper EXCEPT !.saved[m.reg] = c.depth + 1],
                                 cfa \o NoteSaved(m.reg, c.depth + 1, style))
       [] m.op = "grow"  -> note(deeper, cfa)
       [] m.op = "frame" -> note([c EXCEPT !.base = FPReg], <<Op("def_cfa_register", FPReg, 0)>>)
       [] m.op = "spoil" -> note(c, <<>>)
       [] m.op = "stash" -> note([c EXCEPT !.saved[SavedReg] = -1], <<Op("register", SavedReg, 0)>>)
       [] m.op = "sign"  -> note(c, <<Op("negate_ra_state", 0, 0)>>)
       [] m.op = "leave" -> note([c EXCEPT !.left = TRUE],
                                 <<Op("remember_state", 0, 0), Op("def_cfa", SPReg, entry)>> \o restores)
       [] m.op = "ret"   -> note([c EXCEPT !.left = FALSE], <<Op("restore_state", 0, 0)>>)

(* The machine.  The CFA of the function is FrameTop. *)
FrameTop == 2 ^ MachineBits - 4
CallerRegs == [r \in FrameRegs |-> IF r = SPReg THEN FrameTop ELSE 3 + r]
CallerIP == 5

Entered(signs) ==
  IF signs
  THEN [regs |-> [r |-> [CallerRegs EXCEPT ![RAReg] = CallerIP], ip |-> 0],
        mem |-> [a \in MachineWords |-> 0]]
  ELSE [regs |-> [r |-> [CallerRegs EXCEPT ![SPReg] = FrameTop - 1], ip |-> 0],
        mem |-> [a \in MachineWords |-> IF a = FrameTop - 1 THEN CallerIP ELSE 0]]

Run1(h, m, c, signs) ==
  LET sp == h.regs.r[SPReg]
      kept(r) == CASE c.saved[r] > 0 -> h.mem[FrameTop - c.saved[r]]
                   [] c.saved[r] < 0 -> h.regs.r[0]
                   [] OTHER -> h.regs.r[r]
  IN CASE m.op = "push"  -> [regs |-> [h.regs EXCEPT !.r[SPReg] = sp - 1],
                             mem |-> [h.mem EXCEPT ![sp - 1] = h.regs.r[m.reg]]]
       [] m.op = "grow"  -> [h EXCEPT !.regs.r[SPReg] = sp - 1]
       [] m.op = "frame" -> [h EXCEPT !.regs.r[FPReg] = sp]
       [] m.op = "spoil" -> [h EXCEPT !.regs.r[m.reg] = 0]
       [] m.op = "stash" -> [h EXCEPT !.regs.r[0] = h.regs.r[SavedReg]]
       [] m.op = "sign"  -> [h EXCEPT !.regs.r[RAReg] = SignPointer(@, sp)]
       [] m.op = "leave" -> [h EXCEPT !.regs.r = [r \in FrameRegs |->
                                IF r = SPReg THEN Entered(signs).regs.r[SPReg] ELSE kept(r)]]

MachineOps ==
  {Op("push", r, 0) : r \in {FPReg, SavedReg, RAReg}}
  \cup {Op("spoil", r, 0) : r \in {FPReg, SavedReg, RAReg}}
  \cup {Op(op, 0, 0) : op \in {"frame", "grow", "stash", "sign", "leave", "ret"}}

(* The ways to have run n instructions; behind a ret the machine came      *)
(* there by a jump over leave and ret.                                     *)
RECURSIVE Histories(_, _, _)
Histories(n, signs, style) ==
  IF n = 0 THEN {[c |-> CompilerStart(signs), h |-> Entered(signs), before |-> Entered(signs)]}
  ELSE UNION {{[c |-> Noted(x.c, m, signs, style),
                h |-> IF m.op = "ret" THEN x.before ELSE Run1(x.h, m, x.c, signs),
                before |-> IF m.op = "leave" THEN x.h ELSE x.before] :
                 m \in {q \in MachineOps : Possible(x.c, q, signs, style)}} :
              x \in Histories(n - 1, signs, style)}

FrameInit ==
  \E n \in 0..MaxFrameCode, signs \in BOOLEAN, style \in Styles :
    \E x \in Histories(n, signs, style) :
      sample = [of |-> "frame", signs |-> signs, length |-> n, h |-> x.h, noted |-> x.c.noted]

(* Wherever a function is when it calls another one, the step from its     *)
(* frame gives the registers its caller had when it called it: the stack   *)
(* pointer, the address it returns to, the registers a function preserves. *)
FrameRecovered ==
  sample.of = "frame" =>
    LET start == 10
        after == <<Op("advance_loc", 0, 1), Op("undefined", RAReg, 0), Op("def_cfa", 0, 7)>>
        fde == [pcStart |-> start, instructions |-> sample.noted \o after]
        out == stepWithDwarf(start + sample.length + 1, fde, EntryCIE(sample.signs),
                             sample.h.regs, sample.h.mem)
    IN /\ out.result = "success"
       /\ out.regs.ip = CallerIP
       /\ \A r \in {FPReg, SavedReg, SPReg} : out.regs.r[r] = CallerRegs[r]

-----------------------------------------------------------------------------
(***************************************************************************)
(* How the unwinder finds the FDE of an address: the readers of            *)
(* thirdparty/libunwind/src/AddressSpace.hpp, CFI_Parser's parseCIE,       *)
(* decodeFDE and findFDE (DwarfParser.hpp), the search in .eh_frame_hdr    *)
(* (EHHeaderParser.hpp) and getInfoFromDwarfSection (UnwindCursor.hpp).    *)
(*                                                                         *)
(* An image is a function from addresses to bytes of ByteBits bits.  A     *)
(* section .eh_frame is a sequence of entries, and an address in it the    *)
(* index of an entry.                                                      *)
(***************************************************************************)

CONSTANTS
  MaxLeb,         \* bound: bytes of a LEB128 number
  ImageSize,      \* addresses of an image
  MaxFDEs,        \* bound: FDEs of a section
  MaxCodeSize     \* bound: addresses of code

-----------------------------------------------------------------------------
(* LEB128: groups of ByteBits - 1 bits, the high bit of a byte says that   *)
(* another one follows.  -1 is an abort.                                   *)
GroupBits == ByteBits - 1
MoreFollow(b) == b >= 2 ^ GroupBits
LebGroup(b) == b % 2 ^ GroupBits

RECURSIVE UnsignedLeb(_, _, _, _)
UnsignedLeb(s, p, bit, result) ==
  IF p > Len(s) \/ bit >= MachineBits \/ LebGroup(s[p]) * 2 ^ bit >= 2 ^ MachineBits
    THEN [value |-> -1, next |-> p]
  ELSE LET sum == result + LebGroup(s[p]) * 2 ^ bit
       IN IF MoreFollow(s[p]) THEN UnsignedLeb(s, p + 1, bit + GroupBits, sum)
          ELSE [value |-> sum, next |-> p + 1]

getULEB128(s) == UnsignedLeb(s, 1, 0, 0)

LastGroupNegative(g) == g >= 2 ^ (GroupBits - 1)

(* The sign is the highest bit of the last group; too large numbers wrap. *)
RECURSIVE SignedLeb(_, _, _, _)
SignedLeb(s, p, bit, result) ==
  IF p > Len(s) THEN [aborts |-> TRUE]
  ELSE LET sum == result + LebGroup(s[p]) * 2 ^ bit
           top == bit + GroupBits
           negative == LastGroupNegative(LebGroup(s[p]))
       IN IF MoreFollow(s[p]) THEN SignedLeb(s, p + 1, top, sum)
          ELSE [aborts |-> FALSE, next |-> p + 1,
                value |-> SignedWord(ToWord(IF negative /\ top < MachineBits THEN sum - 2 ^ top ELSE sum))]

getSLEB128(s) == SignedLeb(s, 1, 0, 0)

LebInit ==
  \E n \in 0..MaxLeb : \E s \in [1..n -> 0..(2 ^ ByteBits - 1)] : sample = [of |-> "leb", bytes |-> s]

(* A LEB128 number is the sum of its groups up to the first byte that does *)
(* not continue.  A reader never goes past the end; the unsigned one gives *)
(* up on a number that does not fit a word.                                *)
LebReads ==
  sample.of = "leb" =>
    LET s == sample.bytes
        ends == {k \in 1..Len(s) : ~MoreFollow(s[k])}
        last == Min(ends)
        sum == FoldLeft(+, 0, [k \in 1..last |-> LebGroup(s[k]) * 2 ^ (GroupBits * (k - 1))])
        u == getULEB128(s)
        g == getSLEB128(s)
    IN IF ends = {} THEN u.value = -1 /\ g.aborts
       ELSE /\ u.value = IF GroupBits * (last - 1) < MachineBits /\ sum < 2 ^ MachineBits THEN sum ELSE -1
            /\ u.value # -1 => u.next = last + 1
            /\ g.next = last + 1
            /\ GroupBits * last <= MachineBits => g.value = AsSigned(sum, GroupBits * last)

-----------------------------------------------------------------------------
(* Encoded pointers: [format, relative, indirect]. *)
WordBytes == (MachineBits + ByteBits - 1) \div ByteBits
SizeOf(format) == IF format \in {"udata2", "sdata2"} THEN 2 ELSE WordBytes

ReadBytes(image, a, n) ==
  FoldLeft(+, 0, [k \in 1..n |-> image[a + k - 1] * 2 ^ (ByteBits * (k - 1))])

BytesFrom(image, a) == [k \in 1..(ImageSize - a) |-> image[a + k - 1]]

EncodedValue(image, a, format) ==
  CASE format \in {"ptr", "udata8", "sdata8"} ->
         [value |-> ReadBytes(image, a, WordBytes), next |-> a + WordBytes]
    [] format = "udata2" -> [value |-> ReadBytes(image, a, 2), next |-> a + 2]
    [] format = "sdata2" ->
         [value |-> ToWord(AsSigned(ReadBytes(image, a, 2), 2 * ByteBits)), next |-> a + 2]
    [] format = "uleb128" -> LET u == getULEB128(BytesFrom(image, a))
                             IN [value |-> u.value, next |-> a + u.next - 1]
    [] format = "sleb128" -> LET g == getSLEB128(BytesFrom(image, a))
                             IN [value |-> ToWord(g.value), next |-> a + g.next - 1]

Relocated(value, a, next, enc, base) ==
  CASE enc.relative = "absptr" -> value
    [] enc.relative = "pcrel" -> value + a
    [] enc.relative = "datarel" -> value + base

getEncodedP(image, a, enc, datarelBase) ==
  LET read == EncodedValue(image, a, enc.format)
      result == ToWord(Relocated(read.value, a, read.next, enc, datarelBase))
  IN IF enc.relative = "datarel" /\ datarelBase = 0 THEN [aborts |-> TRUE]
     ELSE [aborts |-> FALSE, next |-> read.next,
           value |-> IF enc.indirect THEN ReadBytes(image, result, WordBytes) ELSE result]

(* What a linker writes for a pointer. *)
RECURSIVE AsLeb(_, _)
AsLeb(n, signed) ==
  LET rest == n \div 2 ^ GroupBits
      group == n % 2 ^ GroupBits
      last == IF signed THEN \/ rest = 0 /\ group < 2 ^ (GroupBits - 1)
                             \/ rest = -1 /\ group >= 2 ^ (GroupBits - 1)
              ELSE rest = 0
  IN IF last THEN <<group>> ELSE <<group + 2 ^ GroupBits>> \o AsLeb(rest, signed)

AsBytes(n, count) == [k \in 1..count |-> (n \div 2 ^ (ByteBits * (k - 1))) % 2 ^ ByteBits]

EncodedBytes(v, format) ==
  CASE format = "uleb128" -> AsLeb(ToWord(v), FALSE)
    [] format = "sleb128" -> AsLeb(SignedWord(ToWord(v)), TRUE)
    [] OTHER -> AsBytes(ToWord(v), SizeOf(format))

FitsFormat(v, format) ==
  CASE format = "udata2" -> ToWord(v) < 2 ^ (2 * ByteBits)
    [] format = "sdata2" -> LET n == SignedWord(ToWord(v))
                            IN n >= -(2 ^ (2 * ByteBits - 1)) /\ n < 2 ^ (2 * ByteBits - 1)
    [] OTHER -> TRUE

PointerAt == 3
SlotAt == ImageSize - WordBytes
DataBase == 7

PointerInit ==
  \E format \in {"ptr", "uleb128", "sleb128", "udata2", "sdata2", "udata8", "sdata8"},
     relative \in {"absptr", "pcrel", "datarel"}, indirect \in BOOLEAN, target \in MachineWords :
    sample = [of |-> "pointer", target |-> target,
              enc |-> [format |-> format, relative |-> relative, indirect |-> indirect]]

(* A pointer written in any encoding is read back, and the reader stops    *)
(* right behind it.                                                        *)
PointersReadBack ==
  sample.of = "pointer" =>
    LET enc == sample.enc
        aim == IF enc.indirect THEN SlotAt ELSE sample.target
        v == aim - (CASE enc.relative = "absptr" -> 0 [] enc.relative = "pcrel" -> PointerAt
                      [] enc.relative = "datarel" -> DataBase)
        bytes == EncodedBytes(v, enc.format)
        slot == AsBytes(sample.target, WordBytes)
        image == [a \in 0..(ImageSize - 1) |->
                    CASE a - PointerAt + 1 \in DOMAIN bytes -> bytes[a - PointerAt + 1]
                      [] a >= SlotAt -> slot[a - SlotAt + 1]
                      [] OTHER -> 2 ^ ByteBits - 1]
        out == getEncodedP(image, PointerAt, enc, DataBase)
    IN FitsFormat(v, enc.format) =>
         ~out.aborts /\ out.value = sample.target /\ out.next = PointerAt + Len(bytes)

-----------------------------------------------------------------------------
(* A CIE: its augmentation is a string of letters; data holds what the     *)
(* letters announce, in their order, then the instructions begin.          *)
NoCieInfo ==
  [pointerEncoding |-> "ptr", lsdaEncoding |-> "omit", personality |-> 0, isSignalFrame |-> FALSE,
   fdesHaveAugmentationData |-> FALSE, addressesSignedWithBKey |-> FALSE, mteTaggedFrame |-> FALSE,
   p |-> 1]

AugmentationLetter(info, letter, data) ==
  CASE letter = "z" -> [info EXCEPT !.fdesHaveAugmentationData = TRUE]
    [] letter = "P" -> [info EXCEPT !.personality = data[info.p + 1], !.p = @ + 2]
    [] letter = "L" -> [info EXCEPT !.lsdaEncoding = data[info.p], !.p = @ + 1]
    [] letter = "R" -> [info EXCEPT !.pointerEncoding = data[info.p], !.p = @ + 1]
    [] letter = "S" -> [info EXCEPT !.isSignalFrame = TRUE]
    [] letter = "B" -> [info EXCEPT !.addressesSignedWithBKey = TRUE]
    [] letter = "G" -> [info EXCEPT !.mteTaggedFrame = TRUE]
    [] OTHER -> info

parseCIE(cie) ==
  LET augmented == cie.augmentation # <<>> /\ Head(cie.augmentation) = "z"
      info == FoldLeft(LAMBDA acc, letter : AugmentationLetter(acc, letter, cie.data),
                       NoCieInfo, IF augmented THEN cie.augmentation ELSE <<>>)
  IN IF cie.id # 0 \/ cie.version \notin {1, 3} THEN [error |-> TRUE]
     ELSE [error |-> FALSE, info |-> info]

CieInit ==
  \E letters \in SetToSeqs({"P", "L", "R", "S"}) \cup SetToSeqs({"P", "L", "R", "B"})
                 \cup SetToSeqs({"L", "R", "S", "G"}), front \in {<<"z">>, <<>>},
     id \in {0, 1}, version \in 1..4 :
    sample = [of |-> "cie", cie |-> [id |-> id, version |-> version, augmentation |-> front \o letters,
                data |-> FlattenSeq([k \in 1..Len(letters) |->
                           CASE letters[k] = "P" -> <<"penc", "personality">>
                             [] letters[k] = "L" -> <<"lenc">>
                             [] letters[k] = "R" -> <<"renc">> [] OTHER -> <<>>])]]

(* Whatever the order of the letters, what each announces is read from its *)
(* own place, and the instructions begin behind all of it; without a z     *)
(* nothing is announced.                                                   *)
CiesRead ==
  sample.of = "cie" =>
    LET cie == sample.cie
        out == parseCIE(cie)
        has(letter) == letter \in ToSet(cie.augmentation)
        z == has("z")
    IN /\ out.error <=> cie.id # 0 \/ cie.version \in {2, 4}
       /\ ~out.error =>
            /\ out.info.p = IF z THEN Len(cie.data) + 1 ELSE 1
            /\ z /\ has("P") => out.info.personality = "personality"
            /\ z /\ has("L") <=> out.info.lsdaEncoding = "lenc"
            /\ z /\ has("R") <=> out.info.pointerEncoding = "renc"
            /\ z /\ has("S") <=> out.info.isSignalFrame
            /\ z /\ has("B") <=> out.info.addressesSignedWithBKey
            /\ z /\ has("G") <=> out.info.mteTaggedFrame

-----------------------------------------------------------------------------
(* A section: [kind |-> "cie", good], [kind |-> "fde", cie, from, range] and *)
(* [kind |-> "end"].                                                         *)
FdeInfo(section, i) ==
  [found |-> TRUE, start |-> i, pcStart |-> section[i].from,
   pcEnd |-> section[i].from + section[i].range]
NoFde == [found |-> FALSE]

CieAt(section, i) == i \in DOMAIN section /\ section[i].kind = "cie" /\ section[i].good

decodeFDE(section, i) ==
  IF section[i].kind = "fde" /\ CieAt(section, section[i].cie) THEN FdeInfo(section, i) ELSE NoFde

(* The scan from the hint on, or from the start.  An FDE whose CIE is not  *)
(* in the section or malformed is passed over.  The addresses it takes to  *)
(* be of an FDE are those behind the first, up to the one behind the last. *)
RECURSIVE ScanSection(_, _, _)
ScanSection(section, pc, p) ==
  LET entry == section[p]
  IN IF p > Len(section) \/ entry.kind = "end" THEN NoFde
     ELSE IF /\ entry.kind = "fde" /\ CieAt(section, entry.cie)
             /\ entry.from < pc /\ pc <= entry.from + entry.range
       THEN FdeInfo(section, p)
     ELSE ScanSection(section, pc, p + 1)

findFDE(section, pc, hint) == ScanSection(section, pc, IF hint # 0 THEN hint ELSE 1)

(* The table of .eh_frame_hdr: the first address and the FDE of each       *)
(* function, by address.  The entry that the search ends at, from 0.       *)
LaterHalf(low, len) == [low |-> low + (len \div 2), len |-> len - (len \div 2)]

RECURSIVE SearchTable(_, _, _, _)
SearchTable(table, pc, low, len) ==
  LET mid == low + (len \div 2)
      start == table[mid + 1].start
      later == LaterHalf(low, len)
  IN IF len <= 1 THEN low
     ELSE IF start = pc THEN mid
     ELSE IF start < pc THEN SearchTable(table, pc, later.low, later.len)
     ELSE SearchTable(table, pc, low, len \div 2)

decodeTableEntry(section, table, k) == decodeFDE(section, table[k + 1].fde)

findIndexed(section, table, pc) ==
  IF table = <<>> THEN NoFde
  ELSE LET fde == decodeTableEntry(section, table, SearchTable(table, pc, 0, Len(table)))
       IN IF fde.found /\ pc >= fde.pcStart /\ pc < fde.pcEnd THEN fde ELSE NoFde

(* The cache of FDEs: the first entry of the group (0 for all) with pc. *)
cacheFind(cache, mh, pc) ==
  LET hits == {k \in 1..Len(cache) :
                 (mh = cache[k].mh \/ mh = 0) /\ cache[k].ip_start <= pc /\ pc < cache[k].ip_end}
  IN IF hits = {} THEN 0 ELSE cache[Min(hits)].fde

(* The index, then the cache, then the whole section; `cached' says that   *)
(* the result is to be added to the cache.                                 *)
getInfoFromDwarfSection(pc, object, cache) ==
  LET indexed == IF object.hasIndex THEN findIndexed(object.section, object.table, pc) ELSE NoFde
      hint == cacheFind(cache, object.base, pc)
      hinted == IF hint # 0 THEN findFDE(object.section, pc, hint) ELSE NoFde
      found == CASE indexed.found -> indexed
                 [] hinted.found -> hinted
                 [] OTHER -> findFDE(object.section, pc, 0)
  IN [fde |-> found,
      cached |-> found.found /\ ~object.hasIndex /\ (indexed.found \/ ~hinted.found)]

(* The functions of an object: gaps and sizes; shuffled says that the      *)
(* section has them in the opposite order, with an FDE that cannot be read *)
(* in front.                                                               *)
FunctionStart(shape, k) ==
  2 + FoldLeft(LAMBDA acc, f : acc + f.gap + f.size, 0, SubSeq(shape, 1, k - 1)) + shape[k].gap

ObjectOf(shape, shuffled, hasIndex) ==
  LET n == Len(shape)
      cie == [kind |-> "cie", good |-> TRUE]
      bad == [kind |-> "fde", cie |-> 0, from |-> 0, range |-> MaxCodeSize]
      fde(k) == [kind |-> "fde", cie |-> 1, from |-> FunctionStart(shape, k), range |-> shape[k].size]
      place(k) == IF shuffled THEN 2 + n - k + 1 ELSE k + 1
  IN [base |-> 1, hasIndex |-> hasIndex,
      section |-> <<cie>> \o (IF shuffled THEN <<bad>> ELSE <<>>)
                  \o [k \in 1..n |-> fde(IF shuffled THEN n + 1 - k ELSE k)] \o <<[kind |-> "end"]>>,
      table |-> [k \in 1..n |-> [start |-> FunctionStart(shape, k), fde |-> place(k)]]]

IndexInit ==
  \E n \in 0..MaxFDEs :
    \E shape \in [1..n -> [gap : {0, 2}, size : {1, 3}]], shuffled, hasIndex \in BOOLEAN,
       pc \in 1..MaxCodeSize :
      sample = [of |-> "index", object |-> ObjectOf(shape, shuffled, hasIndex), pc |-> pc]

(* The FDE found for an address is the one of the function it is in, and   *)
(* none is found for an address outside all functions.  Without the index  *)
(* this is so only inside functions: an address that begins one or is      *)
(* behind one is taken for the function before it.  Found once more in the *)
(* cache it is the same.                                                   *)
FindsTheFunction ==
  sample.of = "index" =>
    LET object == sample.object
        pc == sample.pc
        fdes == {k \in DOMAIN object.section :
                   object.section[k].kind = "fde" /\ object.section[k].cie = 1}
        from(k) == object.section[k].from
        to(k) == object.section[k].from + object.section[k].range
        cover == {k \in fdes : from(k) <= pc /\ pc < to(k)}
        edge == \E k \in fdes : pc = to(k) \/ (~object.hasIndex /\ pc = from(k))
        out == getInfoFromDwarfSection(pc, object, <<>>)
        cache == <<[mh |-> object.base, ip_start |-> out.fde.pcStart, ip_end |-> out.fde.pcEnd,
                    fde |-> out.fde.start]>>
    IN /\ (object.hasIndex /\ cover # {}) \/ ~edge =>
            IF cover = {} THEN ~out.fde.found
            ELSE out.fde.found /\ {out.fde.start} = cover
       /\ out.cached => getInfoFromDwarfSection(pc, object, cache).fde = out.fde

(* From any address of any function the unwinder finds its description,    *)
(* reads it as written, and steps to the registers of its caller.          *)
FramesRecovered ==
  /\ ExpressionsEvaluate /\ RowsAsStandard /\ FrameRecovered /\ LebReads
  /\ PointersReadBack /\ CiesRead /\ FindsTheFunction
=============================================================================
