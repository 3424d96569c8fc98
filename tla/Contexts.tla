------------------------------ MODULE Contexts ------------------------------
(***************************************************************************)
(* Saving the registers of a caller and going back to them: setjmp and     *)
(* longjmp, getcontext, setcontext and makecontext, and the two ends of an *)
(* unwinding, __unw_getcontext and jumpto, on x86_64, i386 and aarch64.    *)
(* The assembly is run on a machine: registers, memory by byte address,    *)
(* the address that runs next and the signal mask of the thread.           *)
(***************************************************************************)
EXTENDS Integers, Sequences, SequencesExt, FiniteSetsExt, TLC, Samples

Arches == {"x86_64", "i386", "aarch64"}

Numbered(letter, from, to) == [k \in 1..(to - from + 1) |-> letter \o ToString(from + k - 1)]
RegSeq ==
  [x86_64 |-> <<"rax", "rbx", "rcx", "rdx", "rdi", "rsi", "rbp", "rsp">> \o Numbered("r", 8, 15),
   i386 |-> <<"eax", "ebx", "ecx", "edx", "edi", "esi", "ebp", "esp", "fs">>,
   aarch64 |-> Numbered("x", 0, 30) \o <<"sp">> \o Numbered("d", 0, 31)]
Registers == [arch \in Arches |-> ToSet(RegSeq[arch])]
CalleeSaved ==
  [x86_64 |-> {"rbx", "rbp", "r12", "r13", "r14", "r15"},
   i386 |-> {"ebx", "edi", "esi", "ebp"},
   aarch64 |-> ToSet(Numbered("x", 19, 29)) \cup ToSet(Numbered("d", 8, 15))]
SPOf == [x86_64 |-> "rsp", i386 |-> "esp", aarch64 |-> "sp"]
ResultOf == [x86_64 |-> "rax", i386 |-> "eax", aarch64 |-> "x0"]
WordOf == [x86_64 |-> 8, i386 |-> 4, aarch64 |-> 8]

-----------------------------------------------------------------------------
(* The machine. *)
RowOffsets(rs, o, size) == [reg \in ToSet(rs) |-> o + size * ((CHOOSE k \in DOMAIN rs : rs[k] = reg) - 1)]
Sts(rs, p, o, size) == <<[op |-> "stores", p |-> p, at |-> RowOffsets(rs, o, size)]>>  \* the registers rs in a row
Lds(rs, p, o, size) == <<[op |-> "loads", p |-> p, at |-> RowOffsets(rs, o, size)]>>
St(r, p, o) == Sts(<<r>>, p, o, 0)[1]                            \* mov %r, o(%p)
Ld(p, o, r) == Lds(<<r>>, p, o, 0)[1]                            \* mov o(%p), %r
StConst(c, p, o) == [op |-> "storeconst", r |-> c, p |-> p, n |-> o]
AddTo(c, p, o) == [op |-> "addto", r |-> c, p |-> p, n |-> o]    \* add $c, o(%p)
Lea(p, o, r) == [op |-> "plus", r |-> r, p |-> p, n |-> o]       \* lea o(%p), %r
Copy(p, r) == Lea(p, 0, r)
Const(c, r) == [op |-> "const", r |-> r, n |-> c]
OneIfZero(p, r) == [op |-> "oneifzero", r |-> r, p |-> p]
Push(r) == [op |-> "push", r |-> r]
PushFrom(p, o) == [op |-> "pushfrom", p |-> p, n |-> o]
Pop(r) == [op |-> "pop", r |-> r]
Ret == [op |-> "ret"]
Jump(r) == [op |-> "jump", r |-> r]
JumpTo(p, o) == [op |-> "jumpto", p |-> p, n |-> o]

Junk == -1           \* memory that nothing was stored to
ReadAt(mem, a) == IF a \in DOMAIN mem THEN mem[a] ELSE Junk
WriteAt(mem, a, v) == (a :> v) @@ mem

Exec(m, i) ==
  LET sp == SPOf[m.arch]
      w == WordOf[m.arch]
      at == m.r[i.p] + i.n
      pushed(v) == [m EXCEPT !.r[sp] = @ - w, !.mem = WriteAt(m.mem, m.r[sp] - w, v)]
      top == ReadAt(m.mem, m.r[sp])
  IN CASE i.op = "stores" ->
            LET a(reg) == m.r[i.p] + i.at[reg]
                stored == {a(reg) : reg \in DOMAIN i.at}
            IN [m EXCEPT !.mem = [b \in stored |-> m.r[CHOOSE reg \in DOMAIN i.at : a(reg) = b]] @@ m.mem]
       [] i.op = "loads" ->
            [m EXCEPT !.r = [reg \in DOMAIN m.r |-> IF reg \in DOMAIN i.at THEN ReadAt(m.mem, m.r[i.p] + i.at[reg])
                                                    ELSE m.r[reg]]]
       [] i.op = "storeconst" -> [m EXCEPT !.mem = WriteAt(m.mem, at, i.r)]
       [] i.op = "addto" -> [m EXCEPT !.mem = WriteAt(m.mem, at, ReadAt(m.mem, at) + i.r)]
       [] i.op = "plus" -> [m EXCEPT !.r[i.r] = at]
       [] i.op = "const" -> [m EXCEPT !.r[i.r] = i.n]
       [] i.op = "oneifzero" -> [m EXCEPT !.r[i.r] = IF m.r[i.p] = 0 THEN 1 ELSE m.r[i.p]]
       [] i.op = "push" -> pushed(m.r[i.r])
       [] i.op = "pushfrom" -> pushed(ReadAt(m.mem, at))
       [] i.op = "pop" -> [[m EXCEPT !.r[sp] = @ + w] EXCEPT !.r[i.r] = top]
       [] i.op = "ret" -> IF m.arch = "aarch64" THEN [m EXCEPT !.ip = m.r["x30"]]
                          ELSE [m EXCEPT !.ip = top, !.r[sp] = @ + w]
       [] i.op = "jump" -> [m EXCEPT !.ip = m.r[i.r]]
       [] i.op = "jumpto" -> [m EXCEPT !.ip = ReadAt(m.mem, at)]

Execute(m, program) == FoldLeft(Exec, m, program)

(* A call, by the calling convention of each machine. *)
ArgRegs ==
  [x86_64 |-> <<"rdi", "rsi", "rdx", "rcx", "r8", "r9">>,
   i386 |-> <<>>,
   aarch64 |-> Numbered("x", 0, 7)]
ArgumentOf(m, k) ==
  LET regs == ArgRegs[m.arch]
      w == WordOf[m.arch]
      behind == IF m.arch = "aarch64" THEN 0 ELSE w      \* the return address is below
  IN IF k <= Len(regs) THEN m.r[regs[k]]
     ELSE ReadAt(m.mem, m.r[SPOf[m.arch]] + behind + w * (k - 1 - Len(regs)))
CallSite == 77
CallTwo(m, a, b, from) ==
  CASE m.arch = "x86_64" -> Execute([m EXCEPT !.r["rdi"] = a, !.r["rsi"] = b],
                                    <<[op |-> "const", r |-> "rax", n |-> from], Push("rax")>>)
    [] m.arch = "i386" -> Execute(m, <<Const(b, "eax"), Push("eax"), Const(a, "eax"), Push("eax"),
                                       Const(from, "eax"), Push("eax")>>)
    [] m.arch = "aarch64" -> [m EXCEPT !.r["x0"] = a, !.r["x1"] = b, !.r["x30"] = from]

-----------------------------------------------------------------------------
(* setjmp and longjmp.  rdx, edx or x2 says whether the signal mask may be *)
(* saved too.                                                              *)
SaveJump ==
  [x86_64 |->
         Sts(<<"rbx", "rbp", "r12", "r13", "r14", "r15">>, "rdi", 0, 8)
         \o <<Lea("rsp", 8, "rax"), St("rax", "rdi", 48), Ld("rsp", 0, "rcx"), St("rcx", "rdi", 56)>>,
   i386 |->
         <<Ld("esp", 4, "eax")>> \o Sts(<<"ebx", "edi", "esi", "ebp">>, "eax", 0, 4)
         \o <<Lea("esp", 4, "edi"), St("edi", "eax", 16), Ld("esp", 0, "ecx"), St("ecx", "eax", 20)>>,
   aarch64 |->
         Sts(Numbered("x", 19, 30), "x0", 0, 8) \o <<Copy("sp", "x1"), St("x1", "x0", 96)>>
         \o Sts(Numbered("d", 8, 15), "x0", 112, 8)]

ReturnZero == [arch \in Arches |-> <<Const(0, ResultOf[arch]), Ret>>]
FlagOf == [x86_64 |-> "rdx", i386 |-> "edx", aarch64 |-> "x2"]

__sigsetjmp(m) ==
  Execute(IF ArgumentOf(m, 2) # 0 THEN [m EXCEPT !.saved = TRUE, !.sigset = m.mask]
          ELSE [m EXCEPT !.saved = FALSE],
          ReturnZero[m.arch])

__setjmp(m) ==
  LET s == Execute(m, SaveJump[m.arch])
  IN IF s.r[FlagOf[m.arch]] # 0 THEN __sigsetjmp(s) ELSE Execute(s, ReturnZero[m.arch])

setjmp(m) == __setjmp([m EXCEPT !.r[FlagOf[m.arch]] = 0])
sigsetjmp(m) == __setjmp([m EXCEPT !.r[FlagOf[m.arch]] = 1])

LongJump ==
  [x86_64 |->
         Lds(<<"rbx", "rbp", "r12", "r13", "r14", "r15", "rsp">>, "rdi", 0, 8)
         \o <<OneIfZero("rsi", "rax"), JumpTo("rdi", 56)>>,
   i386 |->
         <<Ld("esp", 4, "ecx")>> \o Lds(<<"ebx", "edi", "esi", "ebp">>, "ecx", 0, 4)
         \o <<Ld("esp", 8, "eax"), Ld("ecx", 16, "esp"), OneIfZero("eax", "eax"), JumpTo("ecx", 20)>>,
   aarch64 |->
         Lds(Numbered("x", 19, 30), "x0", 0, 8) \o <<Ld("x0", 96, "x1"), Copy("x1", "sp")>>
         \o Lds(Numbered("d", 8, 15), "x0", 112, 8) \o <<OneIfZero("x1", "x0"), Jump("x30")>>]

longjmp(m) == Execute(m, LongJump[m.arch])

siglongjmp(m) ==
  longjmp(CallTwo(IF m.saved THEN [m EXCEPT !.mask = m.sigset] ELSE m,
                  ArgumentOf(m, 1), ArgumentOf(m, 2), CallSite + 1))

(* A caller whose registers all differ, and what it has become some calls  *)
(* deeper: other registers, other words below, another signal mask.  Its   *)
(* jmp_buf is not initialised: the flag in it may be anything.             *)
StackAt == 2000
EnvAt == 10000
IndexOf(arch, reg) == CHOOSE k \in DOMAIN RegSeq[arch] : RegSeq[arch][k] = reg
CallerWith(arch, flag) ==
  [arch |-> arch, r |-> [reg \in Registers[arch] |-> IF reg = SPOf[arch] THEN StackAt
                                                     ELSE 100 + IndexOf(arch, reg)],
   mem |-> <<>>, ip |-> CallSite, mask |-> "first", sigset |-> "none", saved |-> flag]
Caller(arch) == CallerWith(arch, FALSE)
Deeper(m) ==
  [m EXCEPT !.r = [reg \in Registers[m.arch] |-> IF reg = SPOf[m.arch] THEN StackAt - 160
                                                 ELSE 300 + IndexOf(m.arch, reg)],
            !.mask = "second", !.ip = 78,
            !.mem = [a \in {StackAt - 4 * j : j \in 1..30} |-> 999] @@ @]

(* Back at the call site: the address behind the call, the stack pointer   *)
(* of the first return and the registers that a call preserves.            *)
SameCallee(arch, m, n, but) == \A reg \in CalleeSaved[arch] \ but : m.r[reg] = n.r[reg]
LandsAt(m, first) == m.ip = CallSite /\ m.r[SPOf[m.arch]] = first.r[SPOf[m.arch]]

JumpInit ==
  sample \in [of : {"jump"}, arch : Arches, mask : {0, 1}, val : {0, 1, 5},
              save : {"setjmp", "sigsetjmp"}, back : {"longjmp", "siglongjmp"},
              flag : BOOLEAN]

FirstReturn(x) ==
  LET call == CallTwo(CallerWith(x.arch, x.flag), EnvAt, x.mask, CallSite)
  IN IF x.save = "setjmp" THEN setjmp(call) ELSE sigsetjmp(call)
SecondReturn(x) ==
  LET call == CallTwo(Deeper(FirstReturn(x)), EnvAt, x.val, CallSite + 1)
  IN IF x.back = "longjmp" THEN longjmp(call) ELSE siglongjmp(call)

(* setjmp returns 0 to its caller, and longjmp makes it return again: to   *)
(* the same place, on the same stack, with the registers that a function   *)
(* preserves as they were at the call.  On i386 the first return has lost  *)
(* edi, which carries the stack pointer to the buffer.                     *)
SetjmpReturnsTwice ==
  sample.of = "jump" =>
    LET first == FirstReturn(sample)
        second == SecondReturn(sample)
        start == Caller(sample.arch)
    IN /\ first.ip = CallSite /\ first.r[ResultOf[sample.arch]] = 0
       /\ SameCallee(sample.arch, first, start, IF sample.arch = "i386" THEN {"edi"} ELSE {})
       /\ LandsAt(second, first)
       /\ SameCallee(sample.arch, second, start, {})

(* The second return is the value given to longjmp, or 1 for 0. *)
ValueArrives(x) == SecondReturn(x).r[ResultOf[x.arch]] = IF x.val = 0 THEN 1 ELSE x.val

(* longjmp(env, val): the second return is val, or 1 for 0, on both x86.   *)
(* On aarch64 val is overwritten before it is used.                        *)
X86ValueArrives == sample.of = "jump" /\ sample.arch # "aarch64" => ValueArrives(sample)

(* "void longjmp(jmp_buf env, int val)": the second return is val, or 1    *)
(* for 0, on every machine.                                                *)
LongjmpDeliversValue == sample.of = "jump" => ValueArrives(sample)

(* The signal mask goes back with the registers exactly when sigsetjmp was *)
(* asked to save it and siglongjmp jumps, and is left alone otherwise.  On *)
(* aarch64 sigsetjmp saves it always: the question is overwritten by the   *)
(* stack pointer.  setjmp says nothing of a mask in the buffer, which      *)
(* siglongjmp then takes for saved or not as it happens.                   *)
MaskDecided(x) ==
  IF x.save = "setjmp" THEN x.back = "siglongjmp" => ~x.flag
                       ELSE x.arch = "aarch64" => x.mask = 1
MaskAsAsked ==
  sample.of = "jump" /\ MaskDecided(sample) =>
    LET asked == sample.save = "sigsetjmp" /\ sample.mask = 1 /\ sample.back = "siglongjmp"
    IN  SecondReturn(sample).mask = IF asked THEN "first" ELSE "second"

-----------------------------------------------------------------------------
(* getcontext and setcontext: a register is at a multiple of the word in   *)
(* uc_mcontext.                                                            *)
McontextAt == [x86_64 |-> 40, i386 |-> 20, aarch64 |-> 176]
GregSeq ==
  [x86_64 |-> <<"r8", "r9", "r10", "r11", "r12", "r13", "r14", "r15", "rdi", "rsi", "rbp",
                            "rbx", "rdx", "rax", "rcx", "rsp", "rip">>,
   i386 |-> <<"gs", "fs", "es", "ds", "edi", "esi", "ebp", "esp", "ebx", "edx", "ecx",
                          "eax", "trapno", "err", "eip">>,
   aarch64 |-> Numbered("x", 0, 30)]
RegOffset(arch, reg) ==
  McontextAt[arch] + WordOf[arch] * ((CHOOSE k \in DOMAIN GregSeq[arch] : GregSeq[arch][k] = reg) - 1)
GregOffsets(arch, regs) == [reg \in ToSet(regs) |-> RegOffset(arch, reg)]
StGregs(arch, regs, p) == <<[op |-> "stores", p |-> p, at |-> GregOffsets(arch, regs)]>>
LdGregs(arch, regs, p) == <<[op |-> "loads", p |-> p, at |-> GregOffsets(arch, regs)]>>

X64Gregs == Numbered("r", 8, 15) \o <<"rsi", "rbp", "rbx", "rdx", "rax", "rcx">>
ArmSP == 176 + 256
ArmPC == 176 + 264
ArmState == 176 + 272
ArmFP == 176 + 288

GetContext ==
  [x86_64 |->
         StGregs("x86_64", X64Gregs, "rdi")
         \o <<Lea("rsp", 8, "rcx"), St("rcx", "rdi", RegOffset("x86_64", "rsp")),
              Ld("rsp", 0, "rcx"), St("rcx", "rdi", RegOffset("x86_64", "rip"))>>
         \o ReturnZero["x86_64"],
   i386 |->
         <<Ld("esp", 4, "eax")>> \o StGregs("i386", <<"edi", "esi", "ebp", "ebx", "edx", "ecx">>, "eax")
         \o <<StConst(0, "eax", RegOffset("i386", "eax")),
              Lea("esp", 4, "ecx"), St("ecx", "eax", RegOffset("i386", "esp")),
              Ld("esp", 0, "ecx"), St("ecx", "eax", RegOffset("i386", "eip")),
              Copy("fs", "ecx"), St("ecx", "eax", RegOffset("i386", "fs"))>>
         \o ReturnZero["i386"],
   aarch64 |->
         <<StConst(0, "x0", RegOffset("aarch64", "x0"))>> \o StGregs("aarch64", <<"x2", "x3">>, "x0")
         \o <<St("x30", "x0", ArmPC), Copy("sp", "x2"), St("x2", "x0", ArmSP), StConst(0, "x0", ArmState),
              Lea("x0", ArmFP, "x2")>>
         \o Sts(Numbered("d", 8, 15), "x2", 144, 16)
         \o <<Copy("x0", "x2"), Const(0, "x0")>>
         \o StGregs("aarch64", <<"x0", "x1">> \o Numbered("x", 4, 30), "x2") \o <<Ret>>]

SetContext ==
  [x86_64 |->
         LdGregs("x86_64", X64Gregs \o <<"rsp">>, "rdi")
         \o <<PushFrom("rdi", RegOffset("x86_64", "rip")), Ld("rdi", RegOffset("x86_64", "rdi"), "rdi")>>
         \o ReturnZero["x86_64"],
   i386 |->
         <<Ld("esp", 4, "eax"), Ld("eax", RegOffset("i386", "fs"), "ecx"), Copy("ecx", "fs"),
           Ld("eax", RegOffset("i386", "eip"), "ecx"), Ld("eax", RegOffset("i386", "esp"), "esp"), Push("ecx")>>
         \o LdGregs("i386", <<"edi", "esi", "ebp", "ebx", "edx", "ecx", "eax">>, "eax") \o <<Ret>>,
   aarch64 |->
         LdGregs("aarch64", Numbered("x", 18, 30), "x0")
         \o <<Ld("x0", ArmSP, "x2"), Copy("x2", "sp"), Lea("x0", ArmFP, "x2")>>
         \o Lds(Numbered("d", 8, 15), "x2", 144, 16)
         \o <<Ld("x0", ArmPC, "x16")>> \o LdGregs("aarch64", Numbered("x", 2, 7), "x0")
         \o LdGregs("aarch64", <<"x0", "x1">>, "x0") \o <<Jump("x16")>>]

getcontext(m) == Execute(m, GetContext[m.arch])
setcontext(m) == Execute(m, SetContext[m.arch])

(* makecontext: what it stores, by address.  sp, the context at ctx and    *)
(* uc_link are addresses; regs[i] of aarch64 is behind fault_address.      *)
Trampoline == 88
AlignDown(a) == (a \div 16) * 16

LinkWords(n) == (IF n > 6 THEN n - 6 ELSE 0) + 1

MakeX64(ctx, func, args, top, link) ==
  LET n == Len(args)
      sp == AlignDown(top - 8 * LinkWords(n)) - 8
      greg(reg, v) == ctx + RegOffset("x86_64", reg) :> v
      place(i) == IF i <= 6 THEN ctx + RegOffset("x86_64", ArgRegs["x86_64"][i]) ELSE sp + 8 * (i - 6)
  IN [a \in {place(i) : i \in 1..n} |-> args[CHOOSE i \in 1..n : place(i) = a]]
     @@ greg("rsp", sp) @@ greg("rbx", sp + 8 * LinkWords(n)) @@ greg("rip", func)
     @@ (sp + 8 * LinkWords(n) :> link) @@ (sp :> Trampoline)

MakeI386(ctx, func, args, top, link) ==
  LET n == Len(args)
      sp == AlignDown(top - 4 * LinkWords(n)) - 8
      greg(reg, v) == ctx + RegOffset("i386", reg) :> v
  IN (sp + 4 * (n + 1) :> link) @@ [a \in {sp + 4 * i : i \in 1..n} |-> args[(a - sp) \div 4]]
     @@ (sp :> Trampoline) @@ greg("esp", sp) @@ greg("ebx", n) @@ greg("eip", func)

MakeArm64(ctx, func, args, top, link) ==
  LET n == Len(args)
      sp == AlignDown(top - 8 * (IF n < 8 THEN 0 ELSE n - 8))
      regs(i) == ctx + 176 + 8 + 8 * i
      place(i) == IF i <= 8 THEN regs(i - 1) ELSE sp + 8 * (i - 9)
  IN [a \in {place(i) : i \in 1..n} |-> args[CHOOSE i \in 1..n : place(i) = a]]
     @@ (regs(30) :> Trampoline) @@ (regs(19) :> link)
     @@ (ctx + ArmPC :> func) @@ (ctx + ArmSP :> sp)

makecontext(arch, ctx, func, args, top, link) ==
  CASE arch = "x86_64" -> MakeX64(ctx, func, args, top, link)
    [] arch = "i386" -> MakeI386(ctx, func, args, top, link)
    [] arch = "aarch64" -> MakeArm64(ctx, func, args, top, link)

(* Where the function returns to: it finds uc_link and goes on there.  It  *)
(* is a compiled function: it may have a frame on the stack when its       *)
(* assembly runs and, if its call of setcontext goes through the procedure *)
(* linkage table, the address of the global offset table in i386's ebx.    *)
GotAt == 60000
trampoline(m, frame, got) ==
  LET sp == SPOf[m.arch]
      e == [m EXCEPT !.r = [reg \in DOMAIN m.r |->
              IF reg = sp THEN m.r[reg] - frame
              ELSE IF reg = "ebx" /\ got THEN GotAt ELSE m.r[reg]]]
      link == CASE e.arch = "x86_64" -> ReadAt(e.mem, e.r["rbx"])
                [] e.arch = "i386" -> ReadAt(e.mem, e.r["esp"] + 4 * e.r["ebx"])
                [] e.arch = "aarch64" -> e.r["x19"]
  IN setcontext(CallTwo(e, link, 0, CallSite + 2))

(* A function that returns: it has changed the registers it may change. *)
Returning(m) ==
  Execute([m EXCEPT !.r = [reg \in Registers[m.arch] |->
             IF reg \in CalleeSaved[m.arch] \cup {SPOf[m.arch], "x30", "fs"} THEN @[reg] ELSE 600]],
          <<Ret>>)

LinkAt == 20000          \* the context that is resumed when the function returns
StartAt == 30000
FuncAt == 99
Bottom == 5000           \* ss_sp

ContextInit ==
  \/ sample \in [of : {"context"}, arch : Arches]
  \/ \E arch \in Arches, n \in 0..10, top \in {5400, 5404, 5408, 5412},
        frame \in {0, 16}, got \in BOOLEAN :
       /\ top % WordOf[arch] = 0
       /\ sample = [of |-> "start", arch |-> arch, n |-> n, top |-> top,
                    frame |-> frame, got |-> got]

Captured(arch) == getcontext(CallTwo(Caller(arch), LinkAt, 0, CallSite))

(* setcontext makes getcontext return 0 a second time, with the stack and  *)
(* the registers that a function preserves as they were.                   *)
ContextResumes ==
  sample.of = "context" =>
    LET first == Captured(sample.arch)
        second == setcontext(CallTwo(Deeper(first), LinkAt, 0, CallSite + 1))
    IN /\ first.ip = CallSite /\ first.r[ResultOf[sample.arch]] = 0
       /\ SameCallee(sample.arch, first, Caller(sample.arch), {})
       /\ LandsAt(second, first) /\ second.r[ResultOf[sample.arch]] = 0
       /\ SameCallee(sample.arch, second, Caller(sample.arch), {})

(* The start of a context made for func(args), what was stored for it, and *)
(* the state after func has returned.                                      *)
Started(x) ==
  LET first == Captured(x.arch)
      other == getcontext(CallTwo([Deeper(first) EXCEPT !.ip = 79], StartAt, 0, CallSite + 3))
      args == [k \in 1..x.n |-> 700 + k]
      stores == makecontext(x.arch, StartAt, FuncAt, args, x.top, LinkAt)
      start == setcontext(CallTwo([other EXCEPT !.mem = stores @@ @], StartAt, 0, CallSite + 1))
  IN [first |-> first, args |-> args, stores |-> stores, start |-> start, end |-> Returning(start)]

LinkInReach(x) == x.arch = "i386" => x.frame = 0 /\ ~x.got
StartedRight(x, s) ==
  LET sp == s.start.r[SPOf[x.arch]]
      onStack == {a \in DOMAIN s.stores : a < StartAt}
  IN /\ s.start.ip = FuncAt
     /\ \A k \in 1..x.n : ArgumentOf(s.start, k) = s.args[k]
     /\ sp > Bottom /\ sp <= x.top
     /\ \A a \in onStack : Bottom <= a /\ a + WordOf[x.arch] <= x.top
     /\ x.arch # "i386" => sp % 16 = IF x.arch = "x86_64" THEN 8 ELSE 0
     /\ s.end.ip = Trampoline
     /\ LinkInReach(x) => LET back == trampoline(s.end, x.frame, x.got)
                          IN LandsAt(back, s.first) /\ SameCallee(x.arch, back, s.first, {})
StartsRight(x) == StartedRight(x, Started(x))

(* A context from makecontext starts the function with its arguments, on   *)
(* its own stack and nowhere outside it, aligned as the calling convention *)
(* has it, and goes on with uc_link when the function returns.  i386       *)
(* leaves room for one argument on any stack, for four on an aligned one,  *)
(* aligns as x86_64 does, and finds uc_link only if its trampoline is      *)
(* compiled to no frame and leaves ebx alone.                              *)
RoomForArguments(x) == x.arch = "i386" => x.n <= IF x.top % 16 = 0 THEN 4 ELSE 1
ContextStarts ==
  sample.of = "start" /\ sample.arch # "aarch64" /\ RoomForArguments(sample) => StartsRight(sample)

(* The same on aarch64: makecontext stores the arguments, uc_link and the  *)
(* return address where setcontext loads them from.                        *)
ArmContextStarts == sample.of = "start" /\ sample.arch = "aarch64" => StartsRight(sample)

-----------------------------------------------------------------------------
(* __unw_getcontext and jumpto: the words of Registers_x86_64,             *)
(* Registers_x86 and Registers_arm64, with the instruction pointer.        *)
UnwFields ==
  [x86_64 |-> <<"rax", "rbx", "rcx", "rdx", "rdi", "rsi", "rbp", "rsp">>
                          \o Numbered("r", 8, 15) \o <<"ip">>,
   i386 |-> <<"eax", "ebx", "ecx", "edx", "edi", "esi", "ebp", "esp", "ss", "eflags", "ip">>,
   aarch64 |-> Numbered("x", 0, 30) \o <<"sp", "ip">>]
FieldAt(arch, field) ==
  IF arch = "aarch64" /\ field \in ToSet(Numbered("d", 0, 31))
  THEN 272 + 8 * ((CHOOSE k \in 1..32 : Numbered("d", 0, 31)[k] = field) - 1)
  ELSE WordOf[arch] * ((CHOOSE k \in DOMAIN UnwFields[arch] : UnwFields[arch][k] = field) - 1)

UnwGetContext ==
  [x86_64 |->
         Sts(<<"rax", "rbx", "rcx", "rdx", "rdi", "rsi", "rbp", "rsp">>, "rdi", 0, 8)
         \o <<AddTo(8, "rdi", 56)>> \o Sts(Numbered("r", 8, 15), "rdi", 64, 8)
         \o <<Ld("rsp", 0, "rsi"), St("rsi", "rdi", 128)>> \o ReturnZero["x86_64"],
   i386 |->
         <<Push("eax"), Ld("esp", 8, "eax")>>
         \o Sts(<<"ebx", "ecx", "edx", "edi", "esi", "ebp">>, "eax", 4, 4)
         \o <<Lea("esp", 8, "edx"), St("edx", "eax", 28), Ld("esp", 4, "edx"), St("edx", "eax", 40),
              Ld("esp", 0, "edx"), St("edx", "eax", 0), Pop("eax")>> \o ReturnZero["i386"],
   aarch64 |->
         Sts(Numbered("x", 0, 30), "x0", 0, 8)
         \o <<Copy("sp", "x1"), St("x1", "x0", 248), St("x30", "x0", 256)>>
         \o Sts(Numbered("d", 0, 31), "x0", 272, 8) \o ReturnZero["aarch64"]]

UnwJumpTo ==
  [x86_64 |->
         <<Ld("rdi", 56, "rax"), Lea("rax", -16, "rax"), St("rax", "rdi", 56),
           Ld("rdi", 32, "rbx"), St("rbx", "rax", 0), Ld("rdi", 128, "rbx"), St("rbx", "rax", 8)>>
         \o Lds(<<"rax", "rbx", "rcx", "rdx">>, "rdi", 0, 8) \o Lds(<<"rsi", "rbp">>, "rdi", 40, 8)
         \o Lds(Numbered("r", 8, 15), "rdi", 64, 8)
         \o <<Ld("rdi", 56, "rsp"), Pop("rdi"), Pop("rcx"), Jump("rcx")>>,
   i386 |->
         <<Ld("esp", 4, "eax"), Ld("eax", 28, "edx"), Lea("edx", -8, "edx"), St("edx", "eax", 28),
           Ld("eax", 0, "ebx"), St("ebx", "edx", 0), Ld("eax", 40, "ebx"), St("ebx", "edx", 4)>>
         \o Lds(<<"ebx", "ecx", "edx", "edi", "esi", "ebp", "esp">>, "eax", 4, 4)
         \o <<Pop("eax"), Pop("ecx"), Jump("ecx")>>,
   aarch64 |->
         Lds(Numbered("x", 2, 15), "x0", 16, 8) \o Lds(Numbered("x", 18, 29), "x0", 144, 8)
         \o <<Ld("x0", 256, "x30")>> \o Lds(Numbered("d", 0, 31), "x0", 272, 8)
         \o <<Ld("x0", 248, "x16")>> \o Lds(<<"x0", "x1">>, "x0", 0, 8) \o <<Copy("x16", "sp"), Jump("x30")>>]

__unw_getcontext(m) == Execute(m, UnwGetContext[m.arch])
jumpto(m) == Execute(m, UnwJumpTo[m.arch])

(* The registers by their DWARF number, -1 and -2 for the instruction and  *)
(* the stack pointer.  getRegister and setRegister have a field for each.  *)
ValidNumbers ==
  [x86_64 |-> -2..16,
   i386 |-> -2..7,
   aarch64 |-> (-2..32) \cup (64..95)]

FieldOfNumber(arch, n) ==
  IF n = -1 THEN "ip" ELSE IF n = -2 THEN SPOf[arch]
  ELSE CASE arch = "i386" -> <<"eax", "ecx", "edx", "ebx", "esp", "ebp", "esi", "edi">>[n + 1]
         [] arch = "x86_64" -> (<<"rax", "rdx", "rcx", "rbx", "rsi", "rdi", "rbp", "rsp">>
                                \o Numbered("r", 8, 15) \o <<"ip">>)[n + 1]
         [] arch = "aarch64" -> IF n >= 64 THEN Numbered("d", 0, 31)[n - 63]
                                ELSE UnwFields[arch][n + 1]

getRegister(m, ctx, n) == ReadAt(m.mem, ctx + FieldAt(m.arch, FieldOfNumber(m.arch, n)))
setRegisterAt(m, ctx, n, v) ==
  [m EXCEPT !.mem = WriteAt(m.mem, ctx + FieldAt(m.arch, FieldOfNumber(m.arch, n)), v)]

(* The same numbers, by the processor supplements of the ABI. *)
AbiRegister(arch, n) ==
  CASE arch = "x86_64" -> (CASE n \in 8..15 -> Numbered("r", 8, 15)[n - 7]
                            [] n = 16 \/ n = -1 -> "ip" [] n = 7 \/ n = -2 -> "rsp"
                            [] n = 0 -> "rax" [] n = 1 -> "rdx" [] n = 2 -> "rcx" [] n = 3 -> "rbx"
                            [] n = 4 -> "rsi" [] n = 5 -> "rdi" [] n = 6 -> "rbp")
    [] arch = "i386" -> (CASE n = 0 -> "eax" [] n = 1 -> "ecx" [] n = 2 -> "edx" [] n = 3 -> "ebx"
                          [] n \in {4, -2} -> "esp" [] n = 5 -> "ebp" [] n = 6 -> "esi"
                          [] n = 7 -> "edi" [] n = -1 -> "ip")
    [] arch = "aarch64" -> (CASE n \in 0..30 -> Numbered("x", 0, 30)[n + 1]
                             [] n \in {31, -2} -> "sp" [] n \in {32, -1} -> "ip"
                             [] n \in 64..95 -> Numbered("d", 0, 31)[n - 63])
(* jumpto needs registers of its own, that no landing pad expects. *)
Clobbered ==
  [x86_64 |-> {"rcx"}, i386 |-> {"ecx", "fs"}, aarch64 |-> {"x16", "x17", "x30"}]

RegistersInit ==
  \E arch \in Arches : \E n \in ValidNumbers[arch] : sample = [of |-> "registers", arch |-> arch, n |-> n]

(* What the assembly saves, the Registers class finds under each number,   *)
(* and what it sets there is in that register when the unwinder jumps:     *)
(* nothing else has changed since __unw_getcontext was called.             *)
RegistersAgree ==
  sample.of = "registers" =>
    LET arch == sample.arch
        n == sample.n
        start == CallTwo(Caller(arch), EnvAt, 0, CallSite)
        got == __unw_getcontext(start)
        value(m, reg) == IF reg = "ip" THEN m.ip ELSE m.r[reg]
        (* at the call site, after the call has been left *)
        there(reg) == CASE reg = "ip" -> CallSite
                        [] reg = SPOf[arch] -> got.r[reg]
                        [] OTHER -> start.r[reg]
        set == setRegisterAt(Deeper(got), EnvAt, n, 4444)
        landed == jumpto(CallTwo(set, EnvAt, 0, CallSite + 1))
    IN /\ got.ip = CallSite /\ got.r[ResultOf[arch]] = 0
       /\ SameCallee(arch, got, start, {})
       /\ getRegister(got, EnvAt, n) = there(AbiRegister(arch, n))
       /\ \A reg \in (Registers[arch] \cup {"ip"}) \ Clobbered[arch] :
            value(landed, reg) = IF reg = AbiRegister(arch, n) THEN 4444 ELSE there(reg)

(* Jumps and contexts bring back what a function preserves, and deliver    *)
(* the value, the mask and the arguments they were given, on the machines  *)
(* where the code does; the unwinder's registers are those saved.          *)
ContextsKept ==
  /\ SetjmpReturnsTwice /\ X86ValueArrives /\ MaskAsAsked /\ ContextResumes
  /\ ContextStarts /\ RegistersAgree

(* Every jump and every context, on each machine, by itself. *)
ContextsSpec == (JumpInit \/ ContextInit) /\ [][UNCHANGED sample]_sample
=============================================================================
