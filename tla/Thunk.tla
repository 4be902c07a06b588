------------------------------- MODULE Thunk --------------------------------
(***************************************************************************)
(* The thunks of the ABI conversion library.  Transformed i386 code calls  *)
(* a library function with its arguments in the i386 frame; abigen emits   *)
(* for each function a thunk that finds them there, converts them, calls   *)
(* the function by the x86-64 convention, and converts back what the       *)
(* function wrote through pointers.  The thunk may also be entered through *)
(* dyld_stub_binder, the first time the function is called; then it finds  *)
(* the caller's stack pointer in __dyld_stub_binder_flag.                  *)
(*                                                                         *)
(* The generator is a set of operators whose values are instructions; the  *)
(* specification picks a function type and runs the thunk on a machine of  *)
(* registers and bytes.  A byte is <<origin, number, part>>, so that it    *)
(* tells where it came from: "m" for what was in the memory at an address, *)
(* "p" for the bytes of a known number or address, "c" for what the callee *)
(* wrote, "x" for what it left behind; part 1 is a byte of sign bits.      *)
(***************************************************************************)
EXTENDS AbiTypes, FiniteSets, TLC
LOCAL INSTANCE SequencesExt

CONSTANTS
  Signatures,   (* function types: sequences of the types of parameters    *)
  Entries       (* values of the stack pointer at the call                 *)

ASSUME EntriesAssumption == \A e \in Entries : e \in Nat /\ e % 4 = 0

VARIABLES
  sig, entry,   (* the function's type, the stack pointer it is called at  *)
  code, pc,     (* the instructions, the next one; 0 when it has returned  *)
  regs, mem,    (* registers; the bytes of memory written since the call   *)
  flag,         (* __dyld_stub_binder_flag                                 *)
  called        (* registers and memory at the call of the function        *)

vars == <<sig, entry, code, pc, regs, mem, flag, called>>

-----------------------------------------------------------------------------
(* Locations and instructions.                                             *)

Reg(r) == [kind |-> "REG", base |-> r, index |-> 0]
Xmm(i) == [kind |-> "SSE", base |-> "xmm" \o ToString(i), index |-> 0]
MemAt(r, i) == [kind |-> "MEM", base |-> r, index |-> i]
Plus(loc, n) == [loc EXCEPT !.index = @ + n]
OnStack(loc) == loc.kind = "MEM" /\ loc.base = "rsp"
Pushed(loc) == IF OnStack(loc) THEN Plus(loc, 8) ELSE loc

Op(o, r) == [op |-> o, reg |-> r]
Push(r) == Op("push", r)
Pop(r) == Op("pop", r)
AddTo(r, n) == [op |-> "add", reg |-> r, n |-> n]
Lea(r, loc) == [op |-> "lea", reg |-> r, loc |-> loc]
Mov(dst, to, src, from) == [op |-> "mov", dst |-> dst, to |-> to, src |-> src, from |-> from]

-----------------------------------------------------------------------------
(* conversion: c has the direction and data, the index of the space that   *)
(* is left for what pointers point to.                                     *)

PushSse == <<AddTo("rsp", -8), Mov(MemAt("rsp", 0), 8, Xmm(0), 8)>>
PopSse == <<Mov(Xmm(0), 8, MemAt("rsp", 0), 8), AddTo("rsp", 8)>>

(* A number is moved with its sign; the upper half of one without sign is  *)
(* zero in a register, and as it was in memory.                            *)
MoveInt(c, kind, src, dst) ==
  LET from == Width(kind, c.from)
      to == Width(kind, c.to)
      wider == from < to /\ Signed(kind)
  IN IF dst.kind = "MEM" /\ wider
       THEN <<Mov(src, to, src, from), Mov(dst, to, src, to)>>
       ELSE IF wider THEN <<Mov(dst, to, src, from)>>
            ELSE LET least == IF from < to THEN from ELSE to
                 IN <<Mov(dst, least, src, least)>>

ConvertInt(c, kind, src, dst) ==
  IF src.kind = "MEM" /\ dst.kind = "MEM"
    THEN <<Push("rax")>> \o MoveInt(c, kind, Pushed(src), Reg("rax"))
           \o MoveInt(c, kind, Reg("rax"), Pushed(dst)) \o <<Pop("rax")>>
    ELSE MoveInt(c, kind, src, dst)

(* convert_real uses the locations it was given, not the ones it pushed.   *)
ConvertReal(c, kind, src, dst) ==
  LET from == Width(kind, c.from)
      to == Width(kind, c.to)
  IN IF src.kind = "MEM" /\ dst.kind = "MEM"
       THEN PushSse \o <<Mov(Xmm(0), to, src, from), Mov(dst, to, Xmm(0), from)>> \o PopSse
       ELSE <<Mov(dst, to, src, from)>>

Ignored(t) == t.kind \in {"void", "char"}   (* ignore.structs *)

RECURSIVE Convert(_, _, _, _)

(* One pass over an array: the body is emitted once and data moves once.   *)
ConvertArray(c, t, src, dst) ==
  LET at(loc) == Pushed(Pushed(Pushed(loc)))
      body == Convert([c EXCEPT !.data = @ + 24], t.elem, MemAt("rsi", 0), MemAt("rdi", 0))
      step == <<AddTo("rdi", SizeOf(t.elem, "x86_64")), AddTo("rsi", SizeOf(t.elem, "i386"))>>
  IN [code |-> <<Push("rcx"), Push("rdi"), Push("rsi"), [op |-> "imm", reg |-> "rcx", n |-> t.len],
                 Lea("rdi", at(dst)), Lea("rsi", at(src))>> \o body.code \o step
               \o <<[op |-> "loop", back |-> Len(body.code) + Len(step)],
                    Pop("rsi"), Pop("rdi"), Pop("rcx")>>,
      data |-> body.data - 24]

ConvertRecord(c, t, src, dst) ==
  LET aligned(loc, f, arch) == [loc EXCEPT !.index = AlignUp(@, FieldAlign(AlignOf(f, arch), arch))]
      upto[n \in 0..Len(t.fields)] ==
        IF n = 0 THEN [code |-> <<>>, data |-> c.data, src |-> src, dst |-> dst]
        ELSE LET s == upto[n - 1]
                 f == t.fields[n]
                 from == aligned(s.src, f, c.from)
                 to == aligned(s.dst, f, c.to)
                 conv == Convert([c EXCEPT !.data = s.data], f, from, to)
             IN [code |-> s.code \o conv.code, data |-> conv.data,
                 src |-> Plus(from, SizeOf(f, c.from)), dst |-> Plus(to, SizeOf(f, c.to))]
      all == upto[Len(t.fields)]
  IN [code |-> all.code, data |-> all.data]

(* On the way in the pointee is converted into new data, of which r11 has  *)
(* the address; on the way out, from that data to where the pointer that   *)
(* the caller passed points.                                               *)
DataIn(c, t) == AlignUp(c.data + 8, AlignOf(t, c.to))
DataOutUnaligned(c, t) == c.data + 16   \* mutant
DataOut(c, t) == AlignUp(c.data + 16, AlignOf(t, c.from))

ConvertPointer(c, t, src, dst) ==
  LET one == DataIn(c, t)
      inside == Convert([c EXCEPT !.data = one + SizeOf(t, c.to) + 8], t, MemAt("r12", 0), MemAt("r11", 0))
      two == DataOut(c, t)
      outside == Convert([c EXCEPT !.data = two + SizeOf(t, c.from)], t, MemAt("r12", 0), MemAt("r11", 0))
  IN CASE Ignored(t) -> [code |-> ConvertInt(c, "pointer", src, dst), data |-> c.data]
       [] ~Ignored(t) /\ c.allocate ->
            [code |-> <<Push("r11"), Lea("r11", MemAt("rsp", one))>>
                      \o ConvertInt(c, "pointer", Reg("r11"), Pushed(dst)) \o <<Push("r12")>>
                      \o ConvertInt(c, "pointer", Pushed(Pushed(src)), Reg("r12"))
                      \o inside.code \o <<Pop("r12"), Pop("r11")>>,
             data |-> inside.data - 16]
       [] ~Ignored(t) /\ ~c.allocate ->
            [code |-> <<Push("r12"), Push("r11"), Lea("r12", MemAt("rsp", two))>>
                      \o ConvertInt(c, "pointer", Pushed(Pushed(dst)), Reg("r11"))
                      \o outside.code \o <<Pop("r11"), Pop("r12")>>,
             data |-> outside.data - 16]

Convert(c, t, src, dst) ==
  CASE t.kind = "pointer" -> ConvertPointer(c, t.to, src, dst)
    [] t.kind = "array"   -> ConvertArray(c, t, src, dst)
    [] t.kind = "record"  -> ConvertRecord(c, t, src, dst)
    [] t.kind \in Integral \ {"pointer"} -> [code |-> ConvertInt(c, t.kind, src, dst), data |-> c.data]
    [] t.kind \in RealKinds -> [code |-> ConvertReal(c, t.kind, src, dst), data |-> c.data]
-----------------------------------------------------------------------------
(* ABIConversion: the thunk.                                               *)

ArgRegs == <<"rdi", "rsi", "rdx", "rcx", "r8", "r9">>
MaxXmmArgs == 8

IsReal(t) == t.kind \in RealKinds
CountReals(ts) == Len(SelectSeq(ts, IsReal))

(* Arguments of each kind go to registers until there are no more.         *)
InRegister(i) ==
  LET reals == CountReals(SubSeq(sig, 1, i - 1))
  IN IF IsReal(sig[i]) THEN reals < MaxXmmArgs ELSE i - 1 - reals < Len(ArgRegs)

RegisterOf(i) ==
  LET reals == CountReals(SubSeq(sig, 1, i - 1))
  IN IF IsReal(sig[i]) THEN Xmm(reals) ELSE Reg(ArgRegs[i - reals])

StackSlot(t) == AlignUp(SizeOf(t, "x86_64"), 8)
StackArgsSize ==
  AlignUp(FoldLeft(LAMBDA n, i : IF InRegister(i) THEN n ELSE n + StackSlot(sig[i]),
                   0, [i \in DOMAIN sig |-> i]), 16)

(* The sizes of what pointers point to, without the space that alignment   *)
(* takes: the result of align_up is not used.                              *)
StackDataSize ==
  AlignUp(FoldLeft(LAMBDA n, t : IF t.kind = "pointer" THEN n + SizeOf(t.to, "x86_64") ELSE n,
                   0, sig), 16)

ArgSlot(t) == AlignUp(SizeOf(t, "i386"), 4)

(* The conversions of all arguments, to the function's convention or back. *)
(* load is where the next argument is in the i386 frame, after the saved   *)
(* rbp and the return address of four bytes; stack, where the next one     *)
(* goes in memory.                                                         *)
FirstArg == MemAt("rbp", 12)
Conversions(allocate) ==
  LET c(data) == [allocate |-> allocate, data |-> data,
                  from |-> IF allocate THEN "i386" ELSE "x86_64",
                  to |-> IF allocate THEN "x86_64" ELSE "i386"]
      upto[i \in 0..Len(sig)] ==
        IF i = 0 THEN [code |-> <<>>, data |-> StackArgsSize, load |-> FirstArg, stack |-> MemAt("rsp", 0)]
        ELSE LET s == upto[i - 1]
                 arg == IF InRegister(i) THEN RegisterOf(i) ELSE s.stack
                 conv == Convert(c(s.data), sig[i], IF allocate THEN s.load ELSE arg,
                                 IF allocate THEN arg ELSE s.load)
             IN [code |-> s.code \o conv.code, data |-> conv.data,
                 load |-> Plus(s.load, ArgSlot(sig[i])),
                 stack |-> IF InRegister(i) THEN s.stack ELSE Plus(s.stack, StackSlot(sig[i]))]
  IN upto[Len(sig)]

(* __dyld_stub_binder, between the pushes of the stub helper and dyld.     *)
StubHelper == <<Push("rax"), Push("rax")>>   (* two immediates of eight bytes *)
StubBinder ==
  <<Lea("r11", MemAt("rsp", 0)), Op("saveflag", "rsp"), Op("align", "rsp"), AddTo("rsp", -8),
    [op |-> "pushmem", loc |-> MemAt("r11", 8)], [op |-> "pushmem", loc |-> MemAt("r11", 0)],
    Op("dyld", "rsp")>>

FixStackKeepingFlag == <<[op |-> "ifflag", skip |-> 2], Op("loadflag", "rsp"), AddTo("rsp", 16)>>   \* mutant
FixStack ==
  <<[op |-> "ifflag", skip |-> 3], Op("loadflag", "rsp"), AddTo("rsp", 16), Op("clearflag", "rsp")>>

Prologue ==
  FixStack \o <<Push("rbp"), Lea("rbp", MemAt("rsp", 0)), Push("rdi"), Push("rsi"), Op("align", "rsp"),
                AddTo("rsp", -(StackDataSize + StackArgsSize))>>

Epilogue ==
  <<Lea("rsp", MemAt("rbp", -16)), Pop("rsi"), Pop("rdi"), Lea("rsp", MemAt("rbp", 0)), Pop("rbp"),
    Op("ret", "r11")>>

ThunkCode == Prologue \o Conversions(TRUE).code \o <<Op("call", "rsp")>> \o Conversions(FALSE).code \o Epilogue

-----------------------------------------------------------------------------
(* The processor.                                                          *)

Registers == {"rax", "rbx", "rcx", "rdx", "rdi", "rsi", "rbp", "rsp", "r8", "r9", "r10", "r11", "r12"}
XmmRegisters == {"xmm" \o ToString(i) : i \in 0..7}
CalleeSaved == {"rbx", "rbp", "rsp", "r12"}

Zero == <<"0", 0, 0>>
Num(n) == [j \in 1..8 |-> IF j <= 4 THEN <<"p", n, j>> ELSE Zero]
IsNum(v) == v[1][1] = "p" /\ v = Num(v[1][2])
Wild == -1000
Value(v) == IF IsNum(v) THEN v[1][2] ELSE Wild
Address(loc) == Value(regs[loc.base]) + loc.index

ByteAt(m, a) == IF a \in DOMAIN m THEN m[a] ELSE <<"m", a, 0>>
BytesAt(m, a, n) == [j \in 1..n |-> ByteAt(m, a + j - 1)]
Store(m, a, v) == [b \in a..(a + Len(v) - 1) |-> v[b - a + 1]] @@ m

SignOf(byte) == <<byte[1], byte[2], 1>>
Extend(v, n) == [j \in 1..n |-> IF j <= Len(v) THEN v[j] ELSE SignOf(v[Len(v)])]
(* Of a register, four bytes clear the others and fewer keep them; a move  *)
(* to an SSE register clears them.                                         *)
Merge(r, v) ==
  [j \in 1..8 |-> IF j <= Len(v) THEN v[j]
                  ELSE IF Len(v) = 4 \/ r \in XmmRegisters THEN Zero ELSE regs[r][j]]

Here == code[pc]
At(op) == pc > 0 /\ Here.op = op
Goto(n) == pc' = n /\ UNCHANGED <<sig, entry, code>>
Set(r, v) == regs' = [regs EXCEPT ![r] = v]
Sp == Value(regs["rsp"])

ExecPush ==
  /\ At("push") /\ Goto(pc + 1)
  /\ Set("rsp", Num(Sp - 8)) /\ mem' = Store(mem, Sp - 8, regs[Here.reg])
  /\ UNCHANGED <<flag, called>>

ExecPushMem ==
  /\ At("pushmem") /\ Goto(pc + 1)
  /\ Set("rsp", Num(Sp - 8)) /\ mem' = Store(mem, Sp - 8, BytesAt(mem, Address(Here.loc), 8))
  /\ UNCHANGED <<flag, called>>

ExecPop ==
  /\ At("pop") /\ Goto(pc + 1)
  /\ regs' = [regs EXCEPT !["rsp"] = Num(Sp + 8), ![Here.reg] = BytesAt(mem, Sp, 8)]
  /\ UNCHANGED <<mem, flag, called>>

ExecMov ==
  /\ At("mov") /\ Goto(pc + 1)
  /\ LET read == IF Here.src.kind = "MEM" THEN BytesAt(mem, Address(Here.src), Here.from)
                 ELSE SubSeq(regs[Here.src.base], 1, Here.from)
         v == Extend(read, Here.to)
     IN IF Here.dst.kind = "MEM" THEN mem' = Store(mem, Address(Here.dst), v) /\ UNCHANGED regs
        ELSE Set(Here.dst.base, Merge(Here.dst.base, v)) /\ UNCHANGED mem
  /\ UNCHANGED <<flag, called>>

ExecArith ==
  /\ \E op \in {"add", "lea", "imm", "align"} : At(op)
  /\ Goto(pc + 1)
  /\ Set(Here.reg, Num(CASE Here.op = "add"   -> Value(regs[Here.reg]) + Here.n
                         [] Here.op = "lea"   -> Address(Here.loc)
                         [] Here.op = "imm"   -> Here.n
                         [] Here.op = "align" -> (Value(regs[Here.reg]) \div 16) * 16))
  /\ UNCHANGED <<mem, flag, called>>

(* dec ecx and jnz.                                                        *)
ExecLoop ==
  /\ At("loop") /\ Set("rcx", Num(Value(regs["rcx"]) - 1))
  /\ Goto(IF Value(regs["rcx"]) = 1 THEN pc + 1 ELSE pc - Here.back)
  /\ UNCHANGED <<mem, flag, called>>

ExecFlag ==
  \/ /\ At("ifflag") /\ Goto(IF flag = 0 THEN pc + Here.skip + 1 ELSE pc + 1)
     /\ UNCHANGED <<regs, mem, flag, called>>
  \/ /\ At("saveflag") /\ Goto(pc + 1) /\ flag' = Sp
     /\ UNCHANGED <<regs, mem, called>>
  \/ /\ At("loadflag") /\ Goto(pc + 1) /\ Set("rsp", Num(flag))
     /\ UNCHANGED <<mem, flag, called>>
  \/ /\ At("clearflag") /\ Goto(pc + 1) /\ flag' = 0
     /\ UNCHANGED <<regs, mem, called>>

(* dyld's own binder takes its two arguments off the stack, looks the      *)
(* symbol up and jumps to it; it preserves the registers of arguments.     *)
DyldBind ==
  /\ At("dyld") /\ Goto(pc + 1)
  /\ regs' = [regs EXCEPT !["rsp"] = Num(Sp + 16), !["r11"] = [j \in 1..8 |-> <<"x", 11, j>>]]
  /\ UNCHANGED <<mem, flag, called>>

ExecRet ==
  /\ At("ret") /\ Goto(0)
  /\ regs' = [regs EXCEPT !["r11"] = Merge("r11", BytesAt(mem, Sp, 4)), !["rsp"] = Num(Sp + 4)]
  /\ UNCHANGED <<mem, flag, called>>

-----------------------------------------------------------------------------
(* Both conventions, and the layout of types in them.                      *)

RECURSIVE TrueSize(_, _), TrueAlign(_, _)
TrueAlign(t, a) ==
  LET whole == CASE t.kind = "array" -> TrueAlign(t.elem, a)
                 [] t.kind = "record" -> FoldLeft(LAMBDA n, f : Larger(TrueAlign(f, a), n), 1, t.fields)
                 [] OTHER -> Width(t.kind, a)
  IN IF a = "i386" /\ whole = 8 THEN 4 ELSE whole
TrueSize(t, a) ==
  LET Behind(n, f) == AlignUp(n, TrueAlign(f, a)) + TrueSize(f, a) IN
  CASE t.kind = "array"  -> t.len * TrueSize(t.elem, a)
    [] t.kind = "record" -> AlignUp(FoldLeft(Behind, 0, t.fields), TrueAlign(t, a))
    [] OTHER             -> Width(t.kind, a)

(* The numbers in a value of type t at an address, in order.               *)
RECURSIVE Leaves(_, _, _)
Leaves(t, a, at) ==
  CASE t.kind = "array" ->
         FlattenSeq([k \in 1..t.len |-> Leaves(t.elem, a, at + (k - 1) * TrueSize(t.elem, a))])
    [] t.kind = "record" ->
         FoldLeft(LAMBDA s, f : LET here == AlignUp(s.next, TrueAlign(f, a))
                                IN [next |-> here + TrueSize(f, a), leaves |-> s.leaves \o Leaves(f, a, here)],
                  [next |-> at, leaves |-> <<>>], t.fields).leaves
    [] OTHER -> <<[kind |-> t.kind, at |-> at]>>

Frame(i) ==
  entry + 4 + FoldLeft(LAMBDA n, t : n + AlignUp(TrueSize(t, "i386"), 4), 0, SubSeq(sig, 1, i - 1))
Pointee(i) == entry + 400 + 80 * i
Pointers == {i \in DOMAIN sig : sig[i].kind = "pointer" /\ ~Ignored(sig[i].to)}
Before(i, real) == Cardinality({k \in 1..(i - 1) : IsReal(sig[k]) = real})
PassedInRegister(i) == Before(i, IsReal(sig[i])) < IF IsReal(sig[i]) THEN 8 ELSE 6
(* What a state of registers and memory at the call passes as argument i;  *)
(* the address it passes, of which the lower half is looked at in memory.  *)
Passed(at, i) ==
  IF ~PassedInRegister(i)
    THEN LET before == Cardinality({k \in 1..(i - 1) : ~PassedInRegister(k)})
         IN BytesAt(at.mem, Value(at.regs["rsp"]) + 8 * before, 8)
    ELSE at.regs[IF IsReal(sig[i]) THEN "xmm" \o ToString(Before(i, TRUE))
                 ELSE <<"rdi", "rsi", "rdx", "rcx", "r8", "r9">>[Before(i, FALSE) + 1]]
PassedPointer(at, i) ==
  LET v == Passed(at, i)
      upper == IF PassedInRegister(i) THEN SubSeq(v, 5, 8) ELSE [j \in 1..4 |-> Zero]
  IN Value(SubSeq(v, 1, 4) \o upper)

-----------------------------------------------------------------------------
(* What the callee may do, and the specification.                          *)

NotCalled == [regs |-> <<>>, mem |-> <<>>, left |-> <<>>]

Init ==
  /\ sig \in Signatures /\ entry \in Entries
  /\ code = StubHelper \o StubBinder \o ThunkCode
  /\ pc \in {1, Len(StubHelper \o StubBinder) + 1}
  /\ regs = [r \in Registers \cup XmmRegisters |->
               IF r = "rsp" THEN Num(entry) ELSE [j \in 1..8 |-> <<r, 0, j>>]]
  /\ mem = [b \in UNION {Frame(i)..(Frame(i) + 3) : i \in Pointers} |->
              LET i == CHOOSE k \in Pointers : b \in Frame(k)..(Frame(k) + 3)
              IN Num(Pointee(i))[b - Frame(i) + 1]]
  /\ flag = 0 /\ called = NotCalled

(* The function may write to what its pointers point to, may use its stack *)
(* arguments and the stack below as its own, and keeps no register but the *)
(* callee-saved ones.                                                      *)
CallFunction ==
  /\ At("call") /\ Goto(pc + 1)
  /\ regs' = [r \in DOMAIN regs |->
                IF r \in CalleeSaved THEN regs[r] ELSE [j \in 1..8 |-> <<"x", 0, j>>]]
  /\ LET now == [regs |-> regs, mem |-> mem]
         copy(i) == PassedPointer(now, i)..(PassedPointer(now, i) + TrueSize(sig[i].to, "x86_64") - 1)
         own == (Sp - 40)..(Sp + StackArgsSize - 1)
     IN \E written \in SUBSET Pointers :
          LET left == [b \in UNION {copy(i) : i \in written} |-> <<"c", b, 0>>]
                      @@ [b \in own |-> <<"x", b, 0>>] @@ mem
          IN mem' = left /\ called' = [regs |-> regs, mem |-> mem, left |-> left]
  /\ UNCHANGED flag

Next == ExecPush \/ ExecPushMem \/ ExecPop \/ ExecMov \/ ExecArith \/ ExecLoop \/ ExecFlag
        \/ DyldBind \/ ExecRet \/ CallFunction
Spec == Init /\ [][Next]_vars

-----------------------------------------------------------------------------
(* What is checked.                                                        *)

(* The space that the pointees were given holds them: the thunk of three   *)
(* pointers to short, long and short would need 18 bytes and has 16.       *)
Fits == LET end == StackArgsSize + StackDataSize
        IN Conversions(TRUE).data <= end /\ Conversions(FALSE).data <= end

Widened(kind, v, w, upper) ==
  LET n == Len(v) IN
  /\ SubSeq(w, 1, n) = v
  /\ Signed(kind) => SubSeq(w, n + 1, Len(w)) = [j \in 1..(Len(w) - n) |-> SignOf(v[n])]
  /\ (upper /\ ~Signed(kind)) => SubSeq(w, n + 1, Len(w)) = [j \in 1..(Len(w) - n) |-> Zero]

(* The function finds every argument where its convention has it, with the *)
(* value the caller passed, and behind every pointer a copy of what the    *)
(* caller's points to, laid out for x86-64.  Of numbers without sign that  *)
(* are passed in memory the thunk only writes the lower half.              *)
ArgumentsArrive ==
  called # NotCalled => \A i \in DOMAIN sig :
    LET v32(l) == BytesAt(called.mem, l.at, Width(l.kind, "i386"))
        v64(l) == BytesAt(called.mem, l.at, Width(l.kind, "x86_64"))
        l32 == Leaves(sig[i].to, "i386", Pointee(i))
        l64 == Leaves(sig[i].to, "x86_64", PassedPointer(called, i))
    IN /\ Value(called.regs["rsp"]) % 16 = 0
       /\ IF i \in Pointers
            THEN \A k \in DOMAIN l32 : Widened(l32[k].kind, v32(l32[k]), v64(l64[k]), FALSE)
            ELSE Widened(sig[i].kind, v32([kind |-> sig[i].kind, at |-> Frame(i)]),
                         SubSeq(Passed(called, i), 1, Width(sig[i].kind, "x86_64")), PassedInRegister(i))

(* When the thunk has returned, the caller finds behind its pointers what  *)
(* the function left behind the pointers it was given, as far as the       *)
(* narrower numbers hold it.                                               *)
ResultsReturn ==
  (pc = 0 /\ Fits) => \A i \in Pointers :
    LET l32 == Leaves(sig[i].to, "i386", Pointee(i))
        l64 == Leaves(sig[i].to, "x86_64", PassedPointer(called, i))
    IN \A k \in DOMAIN l32 :
         LET w == Width(l32[k].kind, "i386")
         IN BytesAt(mem, l32[k].at, w) = BytesAt(called.left, l64[k].at, w)

(* The thunk returns to its caller with the return address popped and the  *)
(* arguments still there, the registers that i386 code keeps, and nothing  *)
(* of the caller's memory changed but arguments and pointees, whether it   *)
(* was entered directly or by way of the binder.                           *)
CallerPreserved ==
  (pc = 0 /\ Fits) =>
    /\ Sp = entry + 4 /\ flag = 0
    /\ \A r \in {"rbx", "rbp", "rdi", "rsi", "r12"} : regs[r] = [j \in 1..8 |-> <<r, 0, j>>]
    /\ SubSeq(regs["r11"], 1, 4) = [j \in 1..4 |-> <<"m", entry + j - 1, 0>>]
    /\ \A b \in DOMAIN mem : b >= entry =>
         \/ \E i \in DOMAIN sig : b \in Frame(i)..(Frame(i) + AlignUp(TrueSize(sig[i], "i386"), 4) - 1)
         \/ \E i \in Pointers : b \in Pointee(i)..(Pointee(i) + TrueSize(sig[i].to, "i386") - 1)
         \/ mem[b] = <<"m", b, 0>>
=============================================================================
