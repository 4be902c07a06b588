----------------------------- MODULE MCArchives -----------------------------
(* Small archives for TLC: every combination of an optional __PAGEZERO, a  *)
(* __TEXT with none to two sections, a __DATA or none, a load command of   *)
(* another kind before or between them, and link-edit tables whose opcodes *)
(* point into either segment or are inactive.                              *)
EXTENDS Sequences, Integers

B(size, wide, active) == [size |-> size, wide |-> wide, active |-> active]
S(align, blobs, nreloc) == [align |-> align, blobs |-> blobs, nreloc |-> nreloc]
L(kind, size, sects, tables) ==
  [kind |-> kind, size |-> size, sects |-> sects, tables |-> tables]
N(target, active) == [target |-> target, fixed |-> 1, active |-> active]
T(kind, nodes) == [kind |-> kind, nodes |-> nodes]

NoTarget == <<0, 0, 0>>
Inst == B(3, 3, TRUE)       \* an instruction
Short == B(2, 5, TRUE)      \* a branch that Build widens
Place == B(0, 0, TRUE)      \* a placeholder
Dead == B(1, 1, FALSE)      \* a deactivated blob

TextSects ==
  {<<>>, <<S(1, <<Inst, Place, Short>>, 0)>>,
   <<S(2, <<Short, Dead, Inst>>, 1), S(4, <<Place, Inst>>, 0)>>}
DataSects ==
  {<<S(4, <<Inst, Dead, Inst>>, 0)>>, <<S(1, <<Short>>, 2), S(2, <<Inst>>, 1)>>}

(* The blob each opcode is about: the last one of the first section with   *)
(* one, which lies furthest from the start of its segment.                 *)
Target(a) ==
  LET xs == {x \in DOMAIN a : a[x].sects # <<>>}
      x == CHOOSE x \in xs : \A y \in xs : y <= x
  IN IF xs = {} THEN NoTarget ELSE <<x, 1, Len(a[x].sects[1].blobs)>>

Heads == {<<>>, <<L("PAGEZERO", 0, <<>>, <<>>)>>,
          <<L("dylib", 3, <<>>, <<>>), L("PAGEZERO", 0, <<>>, <<>>)>>}
Mids == {<<>>, <<L("other", 1, <<>>, <<>>)>>}
Bodies ==
  {h \o <<L("TEXT", 0, t, <<>>)>> \o m : h \in Heads, t \in TextSects, m \in Mids}
    \cup
  {h \o <<L("TEXT", 0, t, <<>>)>> \o m \o <<L("DATA", 0, d, <<>>)>> :
     h \in Heads, t \in TextSects, d \in DataSects, m \in Mids}

Tables(g) ==
  {<<>>,
   <<T("opcodes", <<N(g, TRUE), N(g, TRUE)>>), T("lazy", <<N(g, TRUE), N(g, FALSE), N(g, TRUE)>>)>>,
   <<T("opcodes", <<N(g, FALSE)>>), T("lazy", <<N(g, TRUE), N(g, TRUE)>>),
     T("data", <<N(NoTarget, TRUE)>>)>>}

MCArchives ==
  UNION {{b \o <<L("LINKEDIT", 0, <<>>, t), L("dylib", 2, <<>>, <<>>)>> :
            t \in Tables(Target(b))} : b \in Bodies}

=============================================================================
