----------------------------- MODULE ExportTrie -----------------------------
(***************************************************************************)
(* The export trie, the fourth table of LC_DYLD_INFO.  A linker's edges    *)
(* have several characters, the nodes lie anywhere, and numbers are as     *)
(* short as they can be; the parser makes a node of every character, and   *)
(* Emit writes those again, in the order of a hash table, with room for    *)
(* the longest offset in every edge.  ParseNode and EmitNode call          *)
(* themselves: frames has their locals, and a call is part of the step of  *)
(* the loop that makes it.                                                 *)
(*                                                                         *)
(* A name is a sequence of characters, which are bytes but zero.  A value  *)
(* of an export is the blob at an offset of the file, as in Opcodes.       *)
(***************************************************************************)
EXTENDS Opcodes
LOCAL INSTANCE SequencesExt
LOCAL INSTANCE FiniteSetsExt

VARIABLES
  trie,     (* ExportTrie: the names of its nodes, and the exports of some *)
  frames,   (* ParseNode, EmitNode: their calls                            *)
  sent      (* the trie that was written                                   *)

trieVars == <<trie, frames, sent>>
opcodeVars == <<regs, nodes, active, index, k, written>>

NoTrie == [names |-> {}, exports |-> <<>>]
EmptyTrie == [names |-> {<<>>}, exports |-> <<>>]

(* EXPORT_SYMBOL_FLAGS_REEXPORT, _STUB_AND_RESOLVER, of several bits.      *)
IsReexport(flags) == (flags \div 2) % 2 = 1
IsStub(flags) == (flags \div 4) % 2 = 1

Offset(blob) == IF blob = Null THEN 0 ELSE origins[blob[1]] + blob[2]
ExportBytes(e) ==
  UlebEncode[e.flags] \o
  (IF IsReexport(e.flags) THEN UlebEncode[e.libordinal] \o e.name \o <<0>>
   ELSE IF IsStub(e.flags) THEN UlebEncode[e.stuboff] \o UlebEncode[e.resolveroff]
   ELSE UlebEncode[Offset(e.value)])

(* The linker: nodes one behind the other, offsets of two digits.          *)
TwoDigits(n) == <<LebBase + (n % LebBase), n \div LebBase>>
LinkedInfo(n) == IF n.export = Null THEN <<>> ELSE ExportBytes(n.export[1])
LinkedSize(n) ==
  FoldLeft(LAMBDA s, e : s + Len(e.label) + 3, 1 + Len(LinkedInfo(n)), n.edges)
  + Len(UlebEncode[Len(LinkedInfo(n))])
LinkedAt(x) == FoldLeft(LAMBDA s, n : s + LinkedSize(n), 0, SubSeq(table.ops, 1, x - 1))
LinkedNode(n) ==
  UlebEncode[Len(LinkedInfo(n))] \o LinkedInfo(n) \o <<Len(n.edges)>>
  \o FlattenSeq([x \in DOMAIN n.edges |->
                   n.edges[x].label \o <<0>> \o TwoDigits(LinkedAt(n.edges[x].to))])

TrieInit ==
  /\ table \in Tables /\ ~Program
  /\ stage = "parse"
  /\ origins \in Places
  /\ bytes = FlattenSeq([x \in DOMAIN table.ops |-> LinkedNode(table.ops[x])])
  /\ at = 0 /\ regs = NoRegs
  /\ nodes = <<>> /\ active = {} /\ index = <<>> /\ k = 1 /\ written = <<>>

DyldInfoInit ==
  /\ Init \/ TrieInit
  /\ trie = NoTrie /\ frames = <<>> /\ sent = NoTrie

-----------------------------------------------------------------------------
(* Parse.                                                                  *)

Uleb(p) == UlebDecode(Digits(p))
After(p) == p + Len(Digits(p))
String(p) == SubSeq(bytes, p + 1, Min({x \in (p + 1)..Len(bytes) : bytes[x] = 0}) - 1)

ParseExport(p) ==
  LET flags == Uleb(p)
      q == After(p)
  IN IF IsReexport(flags) THEN [flags |-> flags, libordinal |-> Uleb(q), name |-> String(After(q))]
     ELSE IF IsStub(flags) THEN [flags |-> flags, stuboff |-> Uleb(q), resolveroff |-> Uleb(After(q))]
     ELSE [flags |-> flags, value |-> IF Uleb(q) > 0 THEN Home(Uleb(q)) ELSE Null]

(* A call for the node at p: its export, and the nodes on the way to it.   *)
EdgesAt(p) == After(p) + Uleb(p)
ParseCall(name, p) == [name |-> name, at |-> EdgesAt(p) + 1, left |-> bytes[EdgesAt(p) + 1]]
WithNode(name, p) ==
  [names |-> trie.names \cup Prefixes(name),
   exports |-> IF Uleb(p) = 0 THEN trie.exports
               ELSE [x \in DOMAIN trie.exports \cup {name} |->
                       IF x = name THEN ParseExport(After(p)) ELSE trie.exports[x]]]

ParseRoot ==
  /\ ~Program /\ stage = "parse" /\ trie = NoTrie
  /\ IF bytes = <<>> THEN trie' = EmptyTrie /\ UNCHANGED frames
     ELSE trie' = WithNode(<<>>, 0) /\ frames' = <<ParseCall(<<>>, 0)>>
  /\ UNCHANGED <<opcodeVars, table, stage, origins, bytes, at, sent>>

ChildFirst(name, label) == name \o <<label[1]>>   \* mutant
Child(name, label) == name \o label   (* a node for every character        *)

ParseEdge ==
  /\ ~Program /\ stage = "parse" /\ frames # <<>> /\ Last(frames).left > 0
  /\ LET f == Last(frames)
         label == String(f.at)
         q == f.at + Len(label) + 1
     IN /\ frames' = Front(frames)
                     \o <<[f EXCEPT !.at = After(q), !.left = @ - 1],
                          ParseCall(Child(f.name, label), Uleb(q))>>
        /\ trie' = WithNode(Child(f.name, label), Uleb(q))
  /\ UNCHANGED <<opcodeVars, table, stage, origins, bytes, at, sent>>

ParseReturn ==
  /\ ~Program /\ stage = "parse" /\ frames # <<>> /\ Last(frames).left = 0
  /\ frames' = Front(frames)
  /\ UNCHANGED <<opcodeVars, table, stage, origins, bytes, at, trie, sent>>

TrieRead == ~Program /\ stage = "parse" /\ frames = <<>> /\ trie # NoTrie

-----------------------------------------------------------------------------
(* Build and Emit.                                                         *)

Children(name) ==
  {n \in trie.names : Len(n) = Len(name) + 1 /\ SubSeq(n, 1, Len(name)) = name}

(* The most an export may take.                                            *)
ExportSize(e) ==
  Len(UlebEncode[e.flags]) +
  (IF IsReexport(e.flags) THEN LebBytes + Len(e.name) + 1
   ELSE IF IsStub(e.flags) THEN 2 * LebBytes ELSE LebBytes)

InfoSize(name) == IF name \in DOMAIN trie.exports THEN ExportSize(trie.exports[name]) ELSE 0
EdgeSize == 2 + LebBytes
NodeSizeNoCount(name) ==   \* mutant
  InfoSize(name) + Len(UlebEncode[InfoSize(name)]) + EdgeSize * Cardinality(Children(name))
TrieNodeSize(name) ==
  InfoSize(name) + Len(UlebEncode[InfoSize(name)]) + 1 + EdgeSize * Cardinality(Children(name))
TrieSize == MapThenSumSet(TrieNodeSize, trie.names)

(* The segments have new places.                                           *)
BuildTrie ==
  /\ TrieRead /\ sent = NoTrie
  /\ origins' \in Places
  /\ bytes' = [x \in 1..AlignUp(TrieSize) |-> 0]
  /\ stage' = "emit"
  /\ UNCHANGED <<opcodeVars, table, at, trieVars>>

(* The size of the export precedes it: it is written with the most it may  *)
(* take and, if it takes less, once more.                                  *)
InfoOf(name) == IF name \in DOMAIN trie.exports THEN ExportBytes(trie.exports[name]) ELSE <<>>
EmitInfo(s, name, p) ==
  Overlay(Overlay(s, p, UlebEncode[InfoSize(name)] \o InfoOf(name)),
          p, UlebEncode[Len(InfoOf(name))] \o InfoOf(name))
EmitHead(s, name, p) ==
  Overlay(EmitInfo(s, name, p), p + Len(UlebEncode[Len(InfoOf(name))] \o InfoOf(name)),
          <<Cardinality(Children(name))>>)
EmitCall(name, p) ==
  LET q == p + Len(UlebEncode[Len(InfoOf(name))] \o InfoOf(name)) + 1 IN
  [name |-> name, at |-> q, past |-> q + EdgeSize * Cardinality(Children(name)),
   left |-> Children(name)]

EmitRoot ==
  /\ ~Program /\ stage = "emit" /\ frames = <<>>
  /\ bytes' = EmitHead(bytes, <<>>, 0)
  /\ frames' = <<EmitCall(<<>>, 0)>>
  /\ UNCHANGED <<opcodeVars, table, stage, origins, at, trie, sent>>

EmitEdge ==
  /\ ~Program /\ stage = "emit" /\ frames # <<>>
  /\ LET f == Last(frames)
         edge(c) == <<Last(c), 0>> \o UlebEncode[f.past]
     IN \E c \in f.left :
          /\ bytes' = EmitHead(Overlay(bytes, f.at, edge(c)), c, f.past)
          /\ frames' = Front(frames) \o <<[f EXCEPT !.at = @ + Len(edge(c)), !.left = @ \ {c}],
                                          EmitCall(c, f.past)>>
  /\ UNCHANGED <<opcodeVars, table, stage, origins, at, trie, sent>>

EmitReturn ==
  /\ ~Program /\ stage = "emit" /\ frames # <<>> /\ Last(frames).left = {}
  /\ LET callers == Front(frames) IN
     IF callers = <<>> THEN frames' = <<>> /\ stage' = "emitted"
     ELSE /\ frames' = [callers EXCEPT ![Len(callers)].past = Last(frames).past]
          /\ UNCHANGED stage
  /\ UNCHANGED <<opcodeVars, table, origins, bytes, at, trie, sent>>

RereadTrie ==
  /\ ~Program /\ stage = "emitted"
  /\ sent' = trie /\ trie' = NoTrie /\ stage' = "parse"
  /\ UNCHANGED <<opcodeVars, table, origins, bytes, at, frames>>

TrieNext ==
  \/ ParseRoot \/ ParseEdge \/ ParseReturn \/ BuildTrie
  \/ EmitRoot \/ EmitEdge \/ EmitReturn \/ RereadTrie

DyldInfoNext ==
  \/ Program /\ Next /\ UNCHANGED trieVars
  \/ TrieNext
DyldInfoSpec == DyldInfoInit /\ [][DyldInfoNext]_<<vars, trieVars>>

-----------------------------------------------------------------------------
(* The exports by name are those of the linker, and after they were        *)
(* written and read again the same, the values where their blobs are now:  *)
(* edges split into characters, several orders of the children, offsets    *)
(* that are known only when the child is reached, and sizes that precede   *)
(* what they are the size of.                                              *)
ExportsKept ==
  TrieRead => trie.exports = IF sent = NoTrie THEN table.exports ELSE sent.exports

(* What Emit writes lies within the bytes that size counted for it; behind *)
(* them is the table that LINKEDIT has next.                               *)
ExportsFit ==
  ~Program /\ stage \in {"emit", "emitted"} => Len(bytes) = AlignUp(TrieSize)

=============================================================================
