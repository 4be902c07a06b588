------------------------------ MODULE MCOpcodes ------------------------------
(* Tables as a linker compresses them: a bind table sets its registers and *)
(* goes on with up to three opcodes; a lazy table has up to three groups;  *)
(* each ends in DONE and a byte of padding.  A trie has up to four nodes.  *)
EXTENDS ExportTrie

O(op, imm, operands, a, b) == [op |-> op, imm |-> imm, operands |-> operands, a |-> a, b |-> b]
Simple(op, imm) == O(op, imm, <<>>, imm, 0)
WithUleb(op, imm, n) == O(op, imm, UlebEncode[n], n, 0)
Symbol(s) == O("SET_SYMBOL_TRAILING_FLAGS_IMM", 1, <<s, 0>>, s, 0)
Scaled(op, imm) == O(op, imm, <<>>, imm * PtrSize, 0)
Times(op, n, skip) == O(op, 0, UlebEncode[n] \o UlebEncode[skip], n, skip)
Place(seg, off) == WithUleb("SET_SEGMENT_AND_OFFSET_ULEB", seg, off)
Bound == O("DO_BIND", 0, <<>>, 0, 0)
End == <<Simple("DONE", 0), Simple("DONE", 0)>>

UpTo(n, S) == UNION {[1..m -> S] : m \in 0..n}

BindHead == <<Simple("SET_DYLIB_ORDINAL_IMM", 1), Symbol(1), Simple("SET_TYPE_IMM", 1), Place(1, 4)>>
BindOps ==
  {Bound, Symbol(2), Simple("SET_DYLIB_ORDINAL_IMM", 2), WithUleb("SET_ADDEND_SLEB", 0, 3),
   Place(0, 9), WithUleb("ADD_ADDR_ULEB", 0, Word - 8), WithUleb("DO_BIND_ADD_ADDR_ULEB", 0, 4),
   Scaled("DO_BIND_ADD_ADDR_IMM_SCALED", 2), Times("DO_BIND_ULEB_TIMES_SKIPPING_ULEB", 2, 0)}
BindTables ==
  {[kind |-> "bind", ops |-> BindHead \o t \o End] : t \in UpTo(3, BindOps)}
  \cup {[kind |-> "bind", ops |-> BindHead \o <<o, Bound>> \o End] :
          o \in {WithUleb("SET_DYLIB_ORDINAL_ULEB", 0, 9), Simple("SET_DYLIB_SPECIAL_IMM", 2),
                 Place(3, 0)}}

Group(seg, off, dylib, sym) ==
  <<Place(seg, off), Simple("SET_DYLIB_ORDINAL_IMM", dylib), Symbol(sym), Bound, Simple("DONE", 0)>>
Groups == {Group(1, 0, 1, 1), Group(1, 12, 2, 2), Group(0, 4, 1, 3)}
LazyTables ==
  {[kind |-> "lazy", ops |-> t] : t \in
     {x \o y \o z \o End : x \in Groups, y \in Groups \cup {<<>>}, z \in Groups \cup {<<>>}}}
  \cup {[kind |-> "lazy", ops |-> Group(1, 0, 1, 1) \o <<WithUleb("ADD_ADDR_ULEB", 0, 4)>>]}

RebaseHead == <<Simple("SET_TYPE_IMM", 1), Place(1, 0)>>
RebaseOps ==
  {Simple("DO_REBASE_IMM_TIMES", 2), Times("DO_REBASE_ULEB_TIMES_SKIPPING_ULEB", 2, 4),
   WithUleb("DO_REBASE_ULEB_TIMES", 0, 3), WithUleb("DO_REBASE_ADD_ADDR_ULEB", 0, Word - 4),
   Scaled("ADD_ADDR_IMM_SCALED", 1), WithUleb("ADD_ADDR_ULEB", 0, 9), Place(0, 9)}
RebaseTables ==
  {[kind |-> "rebase", ops |-> RebaseHead \o t \o End] : t \in UpTo(3, RebaseOps)}

(* Exports of all kinds; the size of a reexport with a name of three takes *)
(* two digits as it is counted and one as it is.                           *)
Regular(flags, value) == [flags |-> flags, value |-> value]
Reexport(name) == [flags |-> 2, libordinal |-> 1, name |-> name]
Exports ==
  {Regular(0, Null), Regular(0, <<1, 9>>), Regular(1, <<0, 1>>), Reexport(<<1>>),
   Reexport(<<1, 2, 1>>), [flags |-> 4, stuboff |-> 9, resolveroff |-> 1]}
Node(export, edges) == [export |-> export, edges |-> edges]
Edge(label, to) == [label |-> label, to |-> to]
Trie(ops, exports) == [kind |-> "export", ops |-> ops, exports |-> exports]
Map(a, x, b, y, c, z) ==
  [n \in {a, b, c} |-> IF n = a THEN x ELSE IF n = b THEN y ELSE z]
Tries ==
  {Trie(<<>>, <<>>)}
  \cup UNION {{
    (* three names that begin differently, nodes in another order *)
    Trie(<<Node(Null, <<Edge(<<1>>, 3), Edge(<<2, 1>>, 2), Edge(<<3>>, 4)>>),
           Node(<<y>>, <<>>), Node(<<x>>, <<>>), Node(<<z>>, <<>>)>>,
         Map(<<1>>, x, <<2, 1>>, y, <<3>>, z)),
    (* a name that two others begin with *)
    Trie(<<Node(Null, <<Edge(<<1, 2>>, 2)>>), Node(<<x>>, <<Edge(<<1>>, 3), Edge(<<2, 2>>, 4)>>),
           Node(<<y>>, <<>>), Node(<<z>>, <<>>)>>,
         Map(<<1, 2>>, x, <<1, 2, 1>>, y, <<1, 2, 2, 2>>, z))}
    : x \in Exports, y \in Exports, z \in Exports}

MCTables == BindTables \cup LazyTables \cup RebaseTables \cup Tries
MCSkipping ==
  {[kind |-> "bind",
    ops |-> BindHead \o <<Times("DO_BIND_ULEB_TIMES_SKIPPING_ULEB", n, skip)>> \o t \o End] :
     n \in 1..3, skip \in {0, 4}, t \in UpTo(1, BindOps)}

(* Two segments, before and after the edit, and room between them.         *)
At(a, b) == [s \in {0, 1} |-> IF s = 0 THEN a ELSE b]
MCPlaces == {At(40, 64), At(24, 56)}
=============================================================================
