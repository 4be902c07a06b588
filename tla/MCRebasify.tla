----------------------------- MODULE MCRebasify -----------------------------
(* Functions as a compiler writes them: a thunk, a few instructions, a     *)
(* return; and a second function behind it.  Taken are those in which each *)
(* base register holds one thing wherever its instruction is reached, and  *)
(* in which the thunk's address is spilled to one slot.                    *)
EXTENDS Rebasify, TLC

I(iform, iclass, reg0, reg1, base, disp, target) ==
  [iform |-> iform, iclass |-> iclass, reg0 |-> reg0, reg1 |-> reg1,
   base |-> base, disp |-> disp, target |-> target]
Call0 == I("call_0", "call", None, None, None, 0, 0)
Pop(r) == I("pop", "pop", r, None, None, 0, 0)
CallF == I("call", "call", None, None, None, 0, 0)
RetF == I("ret", "ret", None, None, None, 0, 0)
Jcc(t) == I("jcc", "jcc", None, None, None, 0, t)
Jmp(t) == I("jmp", "jmp", None, None, None, 0, t)
Store(r, b, d) == I("store", "mov", r, None, b, d, 0)
Load(r, b, d) == I("load", "mov", r, None, b, d, 0)
Mov(r, q) == I("mov_rr", "mov", r, q, None, 0, 0)
Lea(r, b, d) == I("lea", "lea", r, None, b, d, 0)
Add(r, q) == I("add", "add", r, q, None, 0, 0)
Xor(r, q) == I("xor", "xor", r, q, None, 0, 0)
Movzx(r, b) == I("movzx", "movzx", r, None, b, 0, 0)

(* What the machine may come to in program f, in every path.               *)
After1(f, i, m) ==
  LET o == f[i]
      next == (IF o.iclass \in {"jmp", "ret"} THEN {} ELSE {i + 1})
              \cup (IF o.target = 0 THEN {} ELSE {o.target}) IN
  {<<y, Effect(o, o.disp, m, i + 1)>> : y \in next \cap DOMAIN f}
RECURSIVE Closure(_, _)
Closure(f, S) ==
  LET T == S \cup UNION {After1(f, z[1], z[2]) : z \in S} IN
  IF T = S THEN S ELSE Closure(f, T)
EntriesOf(f) == {1} \cup {i \in 2..Len(f) : f[i - 1].iclass = "ret"}
Reached(f) == Closure(f, {<<i, NewMachine>> : i \in EntriesOf(f)})

WellFormed(f) ==
  LET R == Reached(f) IN
  /\ \A i \in DOMAIN f : \A r \in {f[i].base, f[i].reg1} \ {None, "ebp"} :
       f[i].iform # "mov_rr" => Cardinality({z[2].regs[r] : z \in {y \in R : y[1] = i}}) <= 1
  /\ \A z \in R : Cardinality({d \in {0, 4} : z[2].slots[d] # Junk}) <= 1

Body(n) ==
  {Load("eax", "ebx", 20), Load("ecx", "ecx", 21), Load("ebx", "ebp", 4), Load("ecx", "ebp", 4),
   Store("ebx", "ebp", 4), Store("eax", "ebp", 4), Store("ecx", "ebp", 0),
   Mov("ecx", "ebx"), Mov("ebx", "eax"), Lea("ecx", "ebx", 22),
   Add("eax", "ebx"), Xor("ebx", "ebx"), CallF}
  \cup {Jcc(t) : t \in {3, 5, n}} \cup {Jmp(t) : t \in {3, n}}
Longer ==
  {Load("eax", "ebx", 20), Load("ecx", "ecx", 21), Store("ebx", "ebp", 4), Load("ecx", "ebp", 4),
   CallF, Jcc(3), Jcc(5)}

Prologue == <<Call0, Pop("ebx")>>
Second == <<Xor("eax", "eax"), Call0, Pop("ecx"), Load("eax", "ecx", 23), RetF>>
Functions ==
  {Prologue \o b \o <<RetF>> : b \in [1..3 -> Body(6)] \cup [1..4 -> Longer]}
  \cup {Prologue \o b \o e \o Second :
          b \in [1..2 -> Body(6)],
          e \in {<<Pop("ebx"), RetF>>, <<Pop("ebx"), Jmp(7)>>, <<Load("eax", "ebx", 20), Jmp(0)>>}}

(* A pop that comes late, a DyldInfo that is missing, data that has no     *)
(* blob, and a thunk in ebp.                                               *)
Ends ==
  {[insts |-> <<Call0, Xor("ecx", "ecx"), Pop("ebx"), RetF>>, dyldinfo |-> TRUE],
   [insts |-> Prologue \o <<Load("eax", "ebx", 20), RetF>>, dyldinfo |-> FALSE],
   [insts |-> Prologue \o <<Load("eax", "ebx", 50), RetF>>, dyldinfo |-> TRUE],
   [insts |-> Prologue \o <<Mov("ebp", "ebx"), CallF, RetF>>, dyldinfo |-> TRUE]}
MCPrograms ==
  {[insts |-> f, dyldinfo |-> TRUE] : f \in {g \in Functions : WellFormed(g)}} \cup Ends

(* Registers that hold the thunk are written to by other instructions.     *)
MCOverwriting ==
  {[insts |-> <<Call0, Pop("eax")>> \o b \o <<RetF>>, dyldinfo |-> TRUE] :
     b \in [1..2 -> {Movzx("eax", "ecx"), Load("ecx", "eax", 20), Mov("eax", "ecx")}]}

MCData == 20..40
=============================================================================
