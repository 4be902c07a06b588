----------------------------- MODULE Transform -----------------------------
(***************************************************************************)
(* macho-tool transform: an i386 archive becomes an x86-64 archive, blob by *)
(* blob.  A blob may become several, and every pointer to it has to be     *)
(* turned into one to the first of them, whether it is asked for before or *)
(* after the blob is transformed; TransformEnv's resolver sees to that.    *)
(* What replaces an i386 instruction has to do what it did: the stack      *)
(* keeps its words of four bytes, and no flag changes that did not change. *)
(*                                                                         *)
(* After the transformation the two programs run in turn: the old one to   *)
(* the next instruction of __text or __symbol_stub, then the new one.      *)
(*                                                                         *)
(* An address is a value of its own, so that a word tells what it points   *)
(* to: <<"at", n>> for blob n of a program, <<"sp", k>> for a place in the *)
(* stack, in units of two bytes, <<"num", n>> for a number.                *)
(***************************************************************************)
EXTENDS ResolverOps, Integers, Sequences

CONSTANTS
  Programs,   \* i386 archives: their blobs and lazy bind nodes
  Numbers,    \* numbers are taken modulo this
  Stack       \* the size of the stack, in units of two bytes

(* What a blob points to, and what a node is about, is a blob of the same  *)
(* archive, and a stub helper has its bind node; parsing has seen to it.   *)
OldBlob == [op : STRING, reg : STRING, base : STRING, n : Nat, at : Nat, sect : STRING]
OldBind == [blob : Nat, function : Nat]
ASSUME ProgramsAssumption ==
  \A p \in Programs :
    /\ p.blobs \in Seq(OldBlob) /\ p.binds \in Seq(OldBind)
    /\ \A o \in DOMAIN p.blobs :
         /\ p.blobs[o].at \in 0..Len(p.blobs)
         /\ p.blobs[o].op = "helper" => p.blobs[o].n \in DOMAIN p.binds
    /\ \A k \in DOMAIN p.binds : p.binds[k].blob \in DOMAIN p.blobs
ASSUME NullAssumption == Null \notin Nat

VARIABLES
  old,     (* the i386 archive: [blobs, binds]                             *)
  new,     (* the blobs of the x86-64 archive                              *)
  cursor,  (* the blob to transform next                                   *)
  res,     (* TransformEnv::resolver                                       *)
  turn,    (* "transform", "failed", or which of the programs runs         *)
  m32, m64 (* the two machines                                             *)

vars == <<old, new, cursor, res, turn, m32, m64>>

-----------------------------------------------------------------------------
(* Transformation.  A blob has an operation, a register, a base register   *)
(* for [base + n words], a number, and disp: the blob it points to, named  *)
(* in the old archive, or counted from here in the new one.  In the new    *)
(* one, from is the blob it was made of.                                   *)

Nowhere == <<"none", 0>>
Key(o) == <<"blob", o>>
Ahead(d) == <<"ahead", d>>

Op(op) == [op |-> op, reg |-> "none", base |-> "none", n |-> 0, disp |-> Nowhere]
PushAx == [Op("push16") EXCEPT !.reg = "eax"]
Store(r) == [Op("store") EXCEPT !.reg = r, !.base = "esp"]
StoreImm(n) == [Op("storei") EXCEPT !.n = n, !.base = "esp"]
Load(r) == [Op("load") EXCEPT !.reg = r, !.base = "esp"]
LeaRip(r, disp) == [Op("lea") EXCEPT !.reg = r, !.disp = disp]
LeaSp == Op("leasp")
Jmp(disp) == [Op("jmp") EXCEPT !.disp = disp]

PushR32(r) == <<PushAx, PushAx, Store(r)>>
PushImm(n) == <<PushAx, PushAx, StoreImm(n)>>
PopR32Adding(r) == <<Load(r), [Op("addsp") EXCEPT !.n = 1]>>   \* mutant: changes flags
PopR32(r) == <<Load(r), LeaSp>>

(* The return address is that of a placeholder behind the jump.            *)
CallOp(jmp) == <<LeaRip("r11", Ahead(5))>> \o PushR32("r11") \o <<jmp, Op("placeholder")>>

Disp(b) == IF b.at = 0 THEN Nowhere ELSE Key(b.at)

(* The copy of a blob by its constructor for the opposite bits.            *)
Copy(b) ==
  [op |-> b.op, reg |-> b.reg, base |-> b.base, n |-> b.n, disp |-> Disp(b)]

(* Instruction::Transform, by iform.                                       *)
Transformed(b) ==
  CASE b.op = "pusha" -> <<LeaRip("r11", Disp(b)), [Op("push64") EXCEPT !.reg = "r11"]>>
    [] b.op = "mova" -> <<LeaRip(b.reg, Disp(b))>>
    [] b.op = "jmpa" -> <<[Op("jmprip") EXCEPT !.disp = Disp(b)]>>
    [] b.op = "push" -> PushR32(b.reg)
    [] b.op = "pop" -> PopR32(b.reg)
    [] b.op = "callr" -> CallOp([Op("jmpr") EXCEPT !.reg = b.reg])
    [] b.op = "call" -> CallOp(Jmp(Disp(b)))
    [] b.op = "ret" -> PopR32("r11") \o <<[Op("jmpr") EXCEPT !.reg = "r11"]>>
    [] b.op = "pushm" -> <<[Load("r11") EXCEPT !.base = b.base, !.n = b.n]>> \o PushR32("r11")
    [] b.op = "pushi" -> PushImm(b.n)
    [] OTHER -> <<Copy(b)>>

(* An immediate of an instruction that is the address of a blob.  Some of  *)
(* these instructions are refused, and so is a call through memory: its    *)
(* byte is asserted to be that of a jump.                                  *)
HasPointee(b) == b.op \in {"pusha", "mova", "jmpa", "loada"}
Throws(b) ==
  \/ b.op \in {"loada", "callm"}
  \/ b.op \in {"pusha", "jmpa"} /\ b.sect \notin {"stub", "helper"}

(* What Section does when it has the new blobs: who asked for the old one  *)
(* gets the first of them.                                                 *)
FrontLast(list) == Len(list)   \* mutant: the last
FrontOf(list) == 1

(* A blob of the new archive, with the blob it was made of.                *)
MadeOf(b, o) == [op |-> b.op, reg |-> b.reg, base |-> b.base, n |-> b.n, disp |-> b.disp, from |-> o]
Points(b) == b.disp[1] = "blob"

(* The pointer that the blobs made of one ask for: they have one at most.  *)
Asked(list, r) ==
  IF \E k \in DOMAIN list : Points(list[k])
  THEN LET k == CHOOSE x \in DOMAIN list : Points(list[x])
       IN Ask(r, list[k].disp, <<Len(new) + k, "disp">>)
  ELSE r
Bindee(b, r) ==
  IF b.op = "helper" THEN Ask(r, <<"node", b.n>>, <<Len(new) + 1, "bindee">>) ELSE r
Dummy(b, r) == IF HasPointee(b) THEN Add(r, <<"imm", cursor>>, Null) ELSE r

TransformBlob ==
  /\ turn = "transform" /\ cursor <= Len(old.blobs)
  /\ LET b == old.blobs[cursor]
         list == Transformed(b)
     IN /\ ~Throws(b)
        /\ new' = new \o [k \in DOMAIN list |-> MadeOf(list[k], cursor)]
        /\ res' = Add(Dummy(b, Bindee(b, Asked(list, res))), Key(cursor), Len(new) + FrontOf(list))
  /\ cursor' = cursor + 1
  /\ UNCHANGED <<old, turn, m32, m64>>

TransformThrows ==
  /\ turn = "transform" /\ cursor <= Len(old.blobs) /\ Throws(old.blobs[cursor])
  /\ turn' = "failed"
  /\ UNCHANGED <<old, new, cursor, res, m32, m64>>

(* The rebase nodes of the old archive: a blob each, or the immediate of   *)
(* an instruction.                                                         *)
Absolute(b) == b.op \in {"word", "lazy"}
Rebased == {o \in DOMAIN old.blobs : /\ Absolute(old.blobs[o]) \/ HasPointee(old.blobs[o])
                                     /\ old.blobs[o].at # 0}
RebaseKey(o) == IF HasPointee(old.blobs[o]) THEN <<"imm", o>> ELSE Key(o)

(* The constructor of DyldInfo for the opposite bits, when all sections    *)
(* are done: the rebase nodes, one after the other, then the bind nodes.   *)
Transforming == turn = "transform" /\ cursor > Len(old.blobs)
Rebound(o) == <<o, "rebase">> \in DOMAIN res.pointer
Bound(k) == <<k, "bind">> \in DOMAIN res.pointer

TransformRebase(o) ==
  /\ Transforming /\ o \in Rebased
  /\ \A x \in Rebased : Rebound(x) <=> x < o
  /\ res' = Ask(res, RebaseKey(o), <<o, "rebase">>)
  /\ UNCHANGED <<old, new, cursor, turn, m32, m64>>

TransformBind(k) ==
  /\ Transforming /\ k \in DOMAIN old.binds
  /\ \A o \in Rebased : Rebound(o)
  /\ \A x \in DOMAIN old.binds : Bound(x) <=> x < k
  /\ res' = Ask(Add(res, <<"node", k>>, k), Key(old.binds[k].blob), <<k, "bind">>)
  /\ UNCHANGED <<old, new, cursor, turn, m32, m64>>

-----------------------------------------------------------------------------
(* The machines.  Half-word k of the stack is <<value, 0>> or <<value, 1>>, *)
(* the lower or upper half of a value; mem has the words of data blobs.    *)

Num(n) == <<"num", n % Numbers>>
At(n) == <<"at", n>>
Junk == <<"junk", 0>>

(* Placeholders take no room: an address is that of what follows them.     *)
Place(blobs, n) ==
  CHOOSE k \in n..Len(blobs) :
    blobs[k].op # "placeholder" /\ \A j \in n..(k - 1) : blobs[j].op = "placeholder"

WordAt(m, k) ==
  IF k \in 0..(Stack - 2) /\ m.stk[k][1] = m.stk[k + 1][1] /\ m.stk[k][2] = 0 /\ m.stk[k + 1][2] = 1
  THEN m.stk[k][1] ELSE Junk
PutHalf(stk, k, v, part) == IF k \in DOMAIN stk THEN [stk EXCEPT ![k] = <<v, part>>] ELSE stk
PutWord(stk, k, v) == PutHalf(PutHalf(stk, k, v, 0), k + 1, v, 1)

Sp(m) == m.reg["esp"][2]
Read(m, v, n) ==
  CASE v[1] = "sp" -> WordAt(m, v[2] + 2 * n)
    [] v[1] = "at" /\ v[2] + n \in DOMAIN m.mem -> m.mem[v[2] + n]
    [] OTHER -> Junk
(* Eight bytes: the upper half of a code address is zero.                  *)
ReadWide(m, v, n) ==
  IF \/ v[1] = "at" /\ v[2] + n \in DOMAIN m.mem /\ new[v[2] + n].op \in {"lazy", "nonlazy"}
     \/ Read(m, v, n + 1) = Num(0)
  THEN Read(m, v, n) ELSE Junk

Set(m, r, v) == [m EXCEPT !.reg[r] = v]
Goto(m, v) == [m EXCEPT !.pc = v]
Move(m, k) == Set(m, "esp", <<"sp", Sp(m) + k>>)
Push(m, v) == [Move(m, -2) EXCEPT !.stk = PutWord(@, Sp(m) - 2, v)]
PushWide(m, v) == [Move(m, -4) EXCEPT !.stk = PutWord(PutWord(@, Sp(m) - 2, Num(0)), Sp(m) - 4, v)]
Write(m, v, n, x) ==
  CASE v[1] = "sp" -> [m EXCEPT !.stk = PutWord(@, v[2] + 2 * n, x)]
    [] v[1] = "at" /\ v[2] + n \in DOMAIN m.mem -> [m EXCEPT !.mem[v[2] + n] = x]
    [] OTHER -> Goto(m, Junk)
Count(m, r, d) ==
  LET v == IF m.reg[r][1] = "num" THEN Num(m.reg[r][2] + d) ELSE Junk
  IN [Set(m, r, v) EXCEPT !.zf = (v = Num(0))]

(* What both processors do; to is where b points to.                       *)
ExecAlike(m, b, to) ==
  CASE b.op = "movi" -> Set(m, b.reg, Num(b.n))
    [] b.op = "load" -> Set(m, b.reg, Read(m, m.reg[b.base], b.n))
    [] b.op = "store" -> Write(m, m.reg[b.base], b.n, m.reg[b.reg])
    [] b.op = "inc" -> Count(m, b.reg, 1)
    [] b.op = "dec" -> Count(m, b.reg, -1)
    [] b.op = "addsp" -> [Move(m, 2 * b.n) EXCEPT !.zf = FALSE]
    [] b.op = "jmp" -> Goto(m, At(to))
    [] b.op = "jz" -> IF m.zf THEN Goto(m, At(to)) ELSE m
    [] OTHER -> Goto(m, Junk)

(* m goes on behind the instruction, if it does not go elsewhere.          *)
Exec32(m, b, to) ==
  CASE b.op = "push" -> Push(m, m.reg[b.reg])
    [] b.op = "pushi" -> Push(m, Num(b.n))
    [] b.op = "pusha" -> Push(m, At(to))
    [] b.op = "pushm" -> Push(m, Read(m, m.reg[b.base], b.n))
    [] b.op = "pop" -> Set(Move(m, 2), b.reg, WordAt(m, Sp(m)))
    [] b.op = "mova" -> Set(m, b.reg, At(to))
    [] b.op = "call" -> Goto(Push(m, m.pc), At(to))
    [] b.op = "callr" -> Goto(Push(m, m.pc), m.reg[b.reg])
    [] b.op = "jmpm" -> Goto(m, Read(m, m.reg[b.base], b.n))
    [] b.op = "jmpa" -> Goto(m, Read(m, At(to), 0))
    [] b.op = "ret" -> Goto(Move(m, 2), WordAt(m, Sp(m)))
    [] b.op = "helper" -> Goto(Push(m, Num(b.n)), At(to))
    [] OTHER -> ExecAlike(m, b, to)

Exec64(m, b, to) ==
  CASE b.op = "push16" -> [Move(m, -1) EXCEPT !.stk = PutHalf(@, Sp(m) - 1, m.reg[b.reg], 0)]
    [] b.op = "push64" -> PushWide(m, m.reg[b.reg])
    [] b.op = "storei" -> Write(m, m.reg[b.base], 0, Num(b.n))
    [] b.op = "leasp" -> Move(m, 2)
    [] b.op = "lea" -> Set(m, b.reg, At(to))
    [] b.op = "jmpr" -> Goto(m, m.reg[b.reg])
    [] b.op = "jmpm" -> Goto(m, ReadWide(m, m.reg[b.base], b.n))
    [] b.op = "jmprip" -> Goto(m, ReadWide(m, At(to), 0))
    [] b.op = "helper" -> Goto(PushWide(m, Num(b.n)), At(to))
    [] OTHER -> ExecAlike(m, b, to)

(* dyld: takes what the stub helper has pushed, binds the lazy pointer and *)
(* goes to the function, which a function of the program stands for.       *)
Bind(m, k, n, pointer, function) ==
  IF n[1] = "num" /\ n[2] \in DOMAIN old.binds
  THEN [Move(m, k) EXCEPT !.mem[pointer[n[2]]] = At(function[n[2]]), !.pc = At(function[n[2]])]
  ELSE Goto(m, Junk)

FirstOf(o) == CHOOSE n \in DOMAIN new : new[n].from = o /\ \A k \in 1..(n - 1) : new[k].from # o
Pointee(n) ==
  IF new[n].disp[1] = "ahead" THEN n + new[n].disp[2] ELSE res.pointer[<<n, "disp">>]

(* The place an address of the old program has in one of the two.          *)
In32(o) == Place(old.blobs, o)
In64(o) == Place(new, FirstOf(o))

IsData(b) == b.op \in {"word", "lazy", "nonlazy"}
Start(blobs, first, to) ==
  [pc |-> At(first), zf |-> FALSE,
   reg |-> [r \in {"eax", "ecx", "esp", "r11"} |-> IF r = "esp" THEN <<"sp", Stack - 4>> ELSE Num(1)],
   stk |-> [k \in 0..(Stack - 1) |-> <<IF k < Stack - 4 THEN Num(1) ELSE <<"exit", 0>>, k % 2>>],
   mem |-> [n \in {k \in DOMAIN blobs : IsData(blobs[k])} |->
              IF blobs[n].op = "nonlazy" THEN <<"binder", 0>>
              ELSE IF to[n] # 0 THEN At(Place(blobs, to[n])) ELSE Num(blobs[n].n)]]

Off == [pc |-> Junk]
Init ==
  /\ old \in Programs
  /\ new = <<>> /\ cursor = 1 /\ res = NewResolver(FALSE)
  /\ turn = "transform" /\ m32 = Off /\ m64 = Off

(* Both archives are built, and the programs can run.                      *)
StartBoth ==
  /\ Transforming
  /\ (\A o \in Rebased : Rebound(o)) /\ \A k \in DOMAIN old.binds : Bound(k)
  /\ turn' = "old"
  /\ m32' = Start(old.blobs, In32(1), [n \in DOMAIN old.blobs |-> old.blobs[n].at])
  /\ m64' = Start(new, In64(1), [n \in DOMAIN new |-> IF new[n].disp = Nowhere THEN 0 ELSE Pointee(n)])
  /\ UNCHANGED <<old, new, cursor, res>>

(* The programs take turns at the instructions of these sections.  In the  *)
(* stub helpers one pushes words of four bytes, the other of eight.        *)
Compared == {"text", "stub"}
Waits32(pc) ==
  \/ pc[1] = "exit"
  \/ pc[1] = "at" /\ old.blobs[pc[2]].sect \in Compared
Waits64(pc) ==
  \/ pc[1] \notin {"at", "binder"}
  \/ pc[1] = "at" /\ old.blobs[new[pc[2]].from].sect \in Compared /\ pc[2] = FirstOf(new[pc[2]].from)
  \/ pc[1] = "at" /\ IsData(new[pc[2]])

(* What compilers and linkers make: data behind code, the stack pointer in *)
(* no operand but as a base register, and stub helpers that push a number  *)
(* and go on to the one header, which pushes an address and goes to dyld.  *)
General == {"eax", "ecx"}
HelperHeader(blobs, h) ==
  LET j == Place(blobs, h + 1) IN
  /\ blobs[h].op = "pusha" /\ blobs[h].sect \notin Compared
  /\ blobs[j].op = "jmpa" /\ blobs[j].sect \notin Compared
  /\ blobs[Place(blobs, blobs[j].at)].op = "nonlazy"
AsCompiled(blobs, b) ==
  /\ b.op \in {"jmp", "jz", "call", "mova", "pusha", "jmpa", "helper"} => b.at # 0
  /\ b.op \in {"movi", "load", "store", "inc", "dec", "push", "pop", "mova", "callr"} =>
       b.reg \in General
  /\ b.op \in {"load", "store", "pushm"} => b.base \in General \cup {"esp"}
  /\ b.op = "jmpm" => b.base \in General
  /\ b.op = "pusha" => b.sect # "stub"
  /\ b.op = "jmpa" => blobs[Place(blobs, b.at)].op \in {"lazy", "nonlazy"}
  /\ b.op = "helper" => b.sect \notin Compared /\ HelperHeader(blobs, Place(blobs, b.at))
ASSUME CompiledAssumption ==
  \A p \in Programs :
    /\ p.blobs # <<>> /\ IsData(p.blobs[Len(p.blobs)])
    /\ \A o, x \in DOMAIN p.blobs :
         o < x /\ IsData(p.blobs[o]) => IsData(p.blobs[x]) \/ p.blobs[x].op = "placeholder"
    /\ p.blobs[Place(p.blobs, 1)].sect \in Compared
    /\ \A o \in DOMAIN p.blobs : AsCompiled(p.blobs, p.blobs[o])
    /\ \A k \in DOMAIN p.binds :
         /\ p.blobs[p.binds[k].blob].op = "lazy"
         /\ p.binds[k].function \in DOMAIN p.blobs
         /\ p.blobs[Place(p.blobs, p.binds[k].function)].sect \in Compared
ASSUME StackAssumption == Stack \in Nat /\ Stack >= 16

(* The i386 program does nothing undefined, and does not fill its stack.   *)
Sound(m) ==
  /\ \/ m.pc[1] \in {"exit", "binder"}
     \/ m.pc[1] = "at" /\ ~IsData(old.blobs[m.pc[2]])
  /\ m.reg["eax"] # Junk /\ m.reg["ecx"] # Junk
  /\ Sp(m) \in 16..Stack

(* What such a program does at an instruction: it reads and writes data    *)
(* through pointers, but not the pointer to the binder, jumps through a    *)
(* word with zero behind it or a pointer that is relocated, and goes to an *)
(* instruction or a stub, or from a stub to its helper.                    *)
Proper(p, w) ==
  LET b == old.blobs[p.pc[2]]
      v == p.reg[b.base]
      k == v[2] + b.n
  IN b.sect \in Compared =>
       /\ b.op \in {"load", "store", "pushm", "jmpm"} /\ v[1] = "at" => {v[2], k} \subseteq DOMAIN p.mem
       /\ b.op = "store" /\ v[1] = "at" => old.blobs[k].op # "nonlazy"
       /\ b.op = "jmpm" /\ v[1] = "at" =>
            old.blobs[k].op \in {"lazy", "nonlazy"} \/ Read(p, v, b.n + 1) = Num(0)
       /\ \/ w.pc[1] = "exit"
          \/ w.pc[1] = "at" /\ \/ old.blobs[w.pc[2]].sect \in Compared
                               \/ old.blobs[w.pc[2]].op = "helper"

Ran32(m) ==
  /\ Sound(m)
  /\ m32' = m
  /\ turn' = IF Waits32(m.pc) THEN "new" ELSE "old"
  /\ UNCHANGED <<old, new, cursor, res, m64>>

Run32 ==
  /\ turn = "old" /\ m32.pc[1] = "at"
  /\ LET n == m32.pc[2]  b == old.blobs[n]
     IN Ran32(Exec32(Goto(m32, At(In32(n + 1))), b, In32(b.at)))

Bind32 ==
  /\ turn = "old" /\ m32.pc[1] = "binder"
  /\ Ran32(Bind(m32, 4, WordAt(m32, Sp(m32) + 2),
                [k \in DOMAIN old.binds |-> old.binds[k].blob],
                [k \in DOMAIN old.binds |-> In32(old.binds[k].function)]))

Ran64(m) ==
  /\ m64' = m
  /\ turn' = IF Waits64(m.pc) THEN "old" ELSE "new"
  /\ UNCHANGED <<old, new, cursor, res, m32>>

(* What a stub helper pushes, Emit takes from its bind node.               *)
Run64 ==
  /\ turn = "new" /\ m64.pc[1] = "at"
  /\ LET n == m64.pc[2]
         b == IF new[n].op = "helper"
              THEN [new[n] EXCEPT !.n = res.pointer[<<n, "bindee">>]] ELSE new[n]
     IN Ran64(Exec64(Goto(m64, At(Place(new, n + 1))), b, Place(new, Pointee(n))))

Bind64 ==
  /\ turn = "new" /\ m64.pc[1] = "binder"
  /\ Ran64(Bind(m64, 8, WordAt(m64, Sp(m64) + 4),
                [k \in DOMAIN old.binds |-> res.pointer[<<k, "bind">>]],
                [k \in DOMAIN old.binds |-> In64(old.binds[k].function)]))

Next ==
  \/ TransformBlob \/ TransformThrows
  \/ \E o \in DOMAIN old.blobs : TransformRebase(o)
  \/ \E k \in DOMAIN old.binds : TransformBind(k)
  \/ StartBoth
  \/ Run32 \/ Bind32 \/ Run64 \/ Bind64

Spec == Init /\ [][Next]_vars

(* The assumption of the theorem about SameEffect: every instruction of   *)
(* the old program is used in that way.                                    *)
Ordinary == Run32 => Proper(m32, m32')

-----------------------------------------------------------------------------
Running == turn \in {"old", "new"}

(* No pointer of the new archive is left unbound, and each leads to the    *)
(* first of the blobs made of what it led to: not past the return address  *)
(* or the operand that comes first.  A rebase node remains for every word  *)
(* that holds an absolute address, and for nothing else.                   *)
PointersToFirst ==
  Running =>
    /\ DOMAIN res.todo = {}
    /\ \A n \in DOMAIN new : new[n].disp[1] = "blob" =>
         res.pointer[<<n, "disp">>] = FirstOf(new[n].disp[2])
    /\ \A k \in DOMAIN old.binds : res.pointer[<<k, "bind">>] = FirstOf(old.binds[k].blob)
    /\ \A n \in DOMAIN new : new[n].op = "helper" => res.pointer[<<n, "bindee">>] = new[n].n
    /\ {res.pointer[<<o, "rebase">>] : o \in Rebased} \ {Null} =
         {n \in DOMAIN new : Absolute(new[n]) /\ new[n].disp # Nowhere}

Same(v32, v64) == v64 = IF v32[1] = "at" THEN At(In64(v32[2])) ELSE v32

(* Instruction for instruction the new program does what the old one did:  *)
(* registers, zero flag, the words on the stack and those in memory agree, *)
(* also when functions are called, directly, through pointers or through   *)
(* stubs that are bound at the first call.                                 *)
SameEffect ==
  turn = "old" /\ Waits32(m32.pc) =>
    /\ Same(m32.pc, m64.pc)
    /\ m32.zf = m64.zf
    /\ \A r \in {"eax", "ecx", "esp"} : Same(m32.reg[r], m64.reg[r])
    /\ \A k \in Sp(m32)..(Stack - 2) : k % 2 = 0 => Same(WordAt(m32, k), WordAt(m64, k))
    /\ \A o \in DOMAIN m32.mem : Same(m32.mem[o], m64.mem[FirstOf(o)])

=============================================================================
