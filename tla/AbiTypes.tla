------------------------------ MODULE AbiTypes ------------------------------
(***************************************************************************)
(* What the generator of thunks knows of C types: their sizes and          *)
(* alignments in the two architectures.  A type is a record with a kind; a *)
(* pointer has the type it points to, an array its element and length, a   *)
(* record its fields.                                                      *)
(***************************************************************************)
EXTENDS Integers, Sequences
LOCAL INSTANCE SequencesExt

Archs == {"i386", "x86_64"}
Integral == {"char", "short", "int", "long", "llong", "uint", "ulong", "pointer"}
RealKinds == {"float", "double"}

AlignUp(n, align) == ((n + align - 1) \div align) * align

Width(kind, a) ==
  CASE kind \in {"void"}                     -> 0
    [] kind \in {"char"}                     -> 1
    [] kind \in {"short"}                    -> 2
    [] kind \in {"int", "uint", "float"}     -> 4
    [] kind \in {"long", "ulong", "pointer"} -> IF a = "i386" THEN 4 ELSE 8
    [] kind \in {"llong", "double"}          -> 8

Signed(kind) == kind \notin {"uint", "ulong", "pointer"}

(* alignof_record and align_field count eight bytes on i386 as four;       *)
(* alignof_type does not.                                                  *)
FieldAlignUncapped(align, a) == align   \* mutant
FieldAlign(align, a) == IF align = 8 /\ a = "i386" THEN 4 ELSE align

(* sizeof_type and alignof_type in one, as a record.                       *)
RECURSIVE TypeInfo(_, _)

Larger(m, n) == IF m > n THEN m ELSE n

StructInfo(t, a) ==
  LET upto[n \in 0..Len(t.fields)] ==
        IF n = 0 THEN [size |-> 0, align |-> 1]
        ELSE LET f == TypeInfo(t.fields[n], a)
             IN [size |-> AlignUp(upto[n - 1].size, f.align) + f.size,
                 align |-> Larger(upto[n - 1].align, FieldAlign(f.align, a))]
      all == upto[Len(t.fields)]
  IN IF t.packed THEN [size |-> 0, align |-> 1]
     ELSE [size |-> AlignUp(all.size, all.align), align |-> all.align]

ArrayInfo(t, a) ==
  LET elem == TypeInfo(t.elem, a) IN [size |-> elem.size * t.len, align |-> elem.align]

TypeInfo(t, a) ==
  CASE t.kind = "array"  -> ArrayInfo(t, a)
    [] t.kind = "record" -> StructInfo(t, a)
    [] t.kind = "void"   -> [size |-> 0, align |-> 1]
    [] OTHER             -> [size |-> Width(t.kind, a), align |-> Width(t.kind, a)]

SizeOf(t, a) == TypeInfo(t, a).size
AlignOf(t, a) == TypeInfo(t, a).align
=============================================================================
