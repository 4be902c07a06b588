---------------------------- MODULE MCTransform ----------------------------
(* Programs of three instructions and a return, with a function to call, a *)
(* stub for a function that is bound lazily, its helper, and data.         *)
EXTENDS Transform

Blob(op) == [op |-> op, reg |-> "none", base |-> "none", n |-> 0, at |-> 0, sect |-> "text"]
In(sect, b) == [b EXCEPT !.sect = sect]
R(op, r) == [Blob(op) EXCEPT !.reg = r]
N(op, n) == [Blob(op) EXCEPT !.n = n]
To(op, at) == [Blob(op) EXCEPT !.at = at]
Mem(op, r, base, n) == [Blob(op) EXCEPT !.reg = r, !.base = base, !.n = n]
Mova(r, at) == [Blob("mova") EXCEPT !.reg = r, !.at = at]

(* The blobs behind the three instructions, and their positions.           *)
End == 4  Function == 6  Stub == 10  Header == 12  Helper == 14
Binder == 16  Pointer == 17  Counter == 19  Lazy == 21

Rest ==
  <<Blob("placeholder"), Blob("ret"),
    Blob("placeholder"), Mem("load", "eax", "esp", 1), R("inc", "eax"), Blob("ret"),
    In("stub", Blob("placeholder")), In("stub", To("jmpa", Lazy)),
    In("helper", To("pusha", Counter)), In("helper", To("jmpa", Binder)),
    In("helper", Blob("placeholder")), In("helper", [To("helper", Header) EXCEPT !.n = 1]),
    In("data", Blob("nonlazy")), In("data", To("word", Function)), In("data", N("word", 0)),
    In("data", N("word", 2)), In("data", Blob("placeholder")), In("data", To("lazy", Helper))>>

Setting ==
  {R("push", "eax"), R("dec", "eax"), Mova("eax", Function), Mova("ecx", Pointer), Mova("ecx", Counter),
   To("call", Stub), [Blob("movi") EXCEPT !.reg = "eax", !.n = 3]}
Using ==
  {R("push", "ecx"), N("pushi", 2), R("pop", "ecx"), R("pop", "eax"), R("inc", "eax"),
   Mem("load", "eax", "ecx", 0), Mem("store", "eax", "ecx", 0), Mem("pushm", "none", "ecx", 0),
   R("callr", "eax"), Mem("jmpm", "none", "ecx", 0), To("call", Function), To("call", End),
   To("jz", End), To("jmp", End), N("addsp", 1)}
Refused ==
  {To("loada", Counter), To("pusha", Counter), To("jmpa", Lazy), Mem("callm", "none", "ecx", 0)}

MCPrograms ==
  {[blobs |-> <<a, b, c>> \o Rest, binds |-> <<[blob |-> Lazy, function |-> Function]>>] :
     a \in Setting, b \in Setting \cup Using, c \in Setting \cup Using \cup Refused}
=============================================================================
