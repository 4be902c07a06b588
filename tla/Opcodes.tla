------------------------------- MODULE Opcodes -------------------------------
(***************************************************************************)
(* The bind, lazy bind and rebase tables: programs for a machine of dyld   *)
(* with a few registers, each of whose steps binds or rebases pointers.    *)
(* A table is read into nodes (the constructors of BindInfo and            *)
(* RebaseInfo), some of which are deactivated by the tools or refer to no  *)
(* blob; the others are numbered and sized (Build, size) and written again *)
(* (Emit), one way for every node, while linkers use whichever opcodes are *)
(* short.  Here a linker's table is read, written and read again.          *)
(*                                                                         *)
(* A byte of a table is an opcode times ImmLimit plus an immediate, a      *)
(* digit of a LEB128 number, or a symbol, which stands for its name and is *)
(* followed by a zero byte.  Machine words are numbers modulo Word.        *)
(***************************************************************************)
EXTENDS Integers, Sequences, FiniteSets
LOCAL INSTANCE SequencesExt

CONSTANTS
  ImmLimit,   (* 16: four bits of a byte are an immediate                  *)
  LebBase,    (* 128: seven bits of a byte are a digit                     *)
  LebBytes,   (* 10: the digits of a word                                  *)
  Word,       (* 2^64                                                      *)
  PtrSize,    (* sizeof(ptr_t)                                             *)
  Align,      (* align_bytes<bits>                                         *)
  Places,     (* where the segments may start: their addresses, by index   *)
  Extent,     (* size of the segments                                      *)
  Tables      (* the linker's tables: kind and opcodes                     *)

ASSUME SizesAssumption ==
  {ImmLimit, LebBase, LebBytes, Word, PtrSize, Align, Extent} \subseteq Nat \ {0}

(* The numbers of the opcodes, from mach-o/loader.h.                       *)
BindCodes ==
  [DONE |-> 0, SET_DYLIB_ORDINAL_IMM |-> 1, SET_DYLIB_ORDINAL_ULEB |-> 2,
   SET_DYLIB_SPECIAL_IMM |-> 3, SET_SYMBOL_TRAILING_FLAGS_IMM |-> 4, SET_TYPE_IMM |-> 5,
   SET_ADDEND_SLEB |-> 6, SET_SEGMENT_AND_OFFSET_ULEB |-> 7, ADD_ADDR_ULEB |-> 8,
   DO_BIND |-> 9, DO_BIND_ADD_ADDR_ULEB |-> 10, DO_BIND_ADD_ADDR_IMM_SCALED |-> 11,
   DO_BIND_ULEB_TIMES_SKIPPING_ULEB |-> 12]
RebaseCodes ==
  [DONE |-> 0, SET_TYPE_IMM |-> 1, SET_SEGMENT_AND_OFFSET_ULEB |-> 2, ADD_ADDR_ULEB |-> 3,
   ADD_ADDR_IMM_SCALED |-> 4, DO_REBASE_IMM_TIMES |-> 5, DO_REBASE_ULEB_TIMES |-> 6,
   DO_REBASE_ADD_ADDR_ULEB |-> 7, DO_REBASE_ULEB_TIMES_SKIPPING_ULEB |-> 8]
Codes(kind) == IF kind = "rebase" THEN RebaseCodes ELSE BindCodes
Byte(kind, op, imm) == Codes(kind)[op] * ImmLimit + imm

(* uleb128_encode, uleb128_decode, and the encoder of addends, which       *)
(* writes each digit that another one follows one place too late.          *)
UlebEncode[n \in Nat] ==
  IF n < LebBase THEN <<n>> ELSE <<LebBase + (n % LebBase)>> \o UlebEncode[n \div LebBase]
UlebDecode(digits) == FoldRight(LAMBDA d, n : (d % LebBase) + LebBase * n, digits, 0) % Word
SlebEncode[n \in Int] ==
  LET data == n % LebBase
      rest == n \div LebBase IN
  IF rest \in {0, -1} /\ (data >= LebBase \div 2) = (rest = -1) THEN <<data>>
  ELSE <<LebBase + (rest % LebBase)>> \o SlebEncode[rest]

AlignUp(n) == ((n + Align - 1) \div Align) * Align
Overlay(s, p, new) ==   (* copy new to s at p *)
  [x \in 1..Max({Len(s), p + Len(new)}) |->
     IF x - p \in DOMAIN new THEN new[x - p] ELSE IF x \in DOMAIN s THEN s[x] ELSE 0]

Null == <<>>
NoRegs == [vmaddr |-> 0, type |-> 0, dylib |-> 0, sym |-> 0, flags |-> 0, addend |-> 0, index |-> 0]

-----------------------------------------------------------------------------
VARIABLES
  table,     (* the linker's table that is read                            *)
  stage,
  origins,   (* addresses of the segments                                  *)
  bytes,     (* the table in the file that is read or written              *)
  at,        (* next byte; in the build, the size so far                   *)
  regs,      (* locals of the parsing constructors                         *)
  nodes,     (* bindees, rebasees                                          *)
  active,    (* the nodes that are written                                 *)
  index,     (* BindNode::index, as built                                  *)
  k,         (* next node to build or write                                *)
  written    (* the nodes that the written table was made of               *)

vars == <<table, stage, origins, bytes, at, regs, nodes, active, index, k, written>>

kind == table.kind

(* The export trie is no program: module ExportTrie reads and writes it.   *)
Program == kind # "export"

(* One opcode of a linker, with its immediate and its operands in bytes.   *)
Assemble(o) == <<Byte(kind, o.op, o.imm)>> \o o.operands

Init ==
  /\ table \in Tables /\ Program
  /\ stage = "parse"
  /\ origins \in Places
  /\ bytes = FlattenSeq([x \in DOMAIN table.ops |-> Assemble(table.ops[x])])
  /\ at = 0 /\ regs = NoRegs
  /\ nodes = <<>> /\ active = {} /\ index = <<>> /\ k = 1 /\ written = <<>>

-----------------------------------------------------------------------------
(* The constructors: one iteration of their loops for each opcode.         *)

Imm == bytes[at + 1] % ImmLimit
Opcode(op) ==
  /\ stage = "parse" /\ at < Len(bytes)
  /\ op \in DOMAIN Codes(kind) /\ bytes[at + 1] \div ImmLimit = Codes(kind)[op]
Bind(op) == kind \in {"bind", "lazy"} /\ Opcode(op)
NonLazy(op) == kind = "bind" /\ Opcode(op)
Rebase(op) == kind = "rebase" /\ Opcode(op)

(* The digits of the LEB128 number at offset p.                            *)
Digits(p) ==
  SubSeq(bytes, p + 1, Min({x \in (p + 1)..Len(bytes) : bytes[x] < LebBase}))
Uleb1 == UlebDecode(Digits(at + 1))
After1 == at + 1 + Len(Digits(at + 1))
Uleb2 == UlebDecode(Digits(After1))
After2 == After1 + Len(Digits(After1))

(* The blob at an address, known by its segment and its place in it.       *)
HomeInclusive(a) ==   \* mutant
  LET S == {s \in DOMAIN origins : a \in origins[s]..(origins[s] + Extent)} IN
  IF S = {} THEN Null ELSE LET s == Min(S) IN <<s, a - origins[s]>>
Home(a) ==
  LET S == {s \in DOMAIN origins : a \in origins[s]..(origins[s] + Extent - 1)} IN
  IF S = {} THEN Null ELSE LET s == Min(S) IN <<s, a - origins[s]>>

(* do_bind pushes no node for address 0 or while no symbol is set.         *)
NodeAt(r, a, ix) ==
  [blob |-> Home(a), type |-> r.type, dylib |-> r.dylib, sym |-> r.sym,
   flags |-> r.flags, addend |-> r.addend, index |-> ix]
Pushed(r, a) == kind = "rebase" \/ (a # 0 /\ r.sym # 0)
Run(n, stride) == [x \in 1..n |-> (regs.vmaddr + (x - 1) * stride) % Word]

(* Nodes for n addresses a stride apart, and the address left behind.      *)
DoTimes(n, stride, add, ix) ==
  LET pushed == SelectSeq(Run(n, stride), LAMBDA a : Pushed(regs, a)) IN
  /\ nodes' = nodes \o [x \in DOMAIN pushed |-> NodeAt(regs, pushed[x], ix)]
  /\ regs' = [regs EXCEPT !.vmaddr = (@ + n * stride + add) % Word]
Set(r) == regs' = r /\ UNCHANGED nodes

unread == <<table, stage, origins, bytes, active, index, k, written>>

(* The symbol and the address outlive DONE.                                *)
DoneKeepingIndex == [regs EXCEPT !.dylib = 0, !.addend = 0, !.flags = 0, !.type = 0]   \* mutant
DoneReg == [regs EXCEPT !.dylib = 0, !.addend = 0, !.flags = 0, !.type = 0, !.index = at + 1]
DONE ==
  \/ Bind("DONE") /\ Set(DoneReg) /\ at' = at + 1 /\ UNCHANGED unread
  \/ /\ Rebase("DONE") /\ at' = Len(bytes)   (* returns *)
     /\ UNCHANGED <<unread, regs, nodes>>
SET_DYLIB_ORDINAL_IMM ==
  Bind("SET_DYLIB_ORDINAL_IMM") /\ Set([regs EXCEPT !.dylib = Imm]) /\ at' = at + 1 /\ UNCHANGED unread
SET_DYLIB_ORDINAL_ULEB ==   (* the number is read, the immediate is used *)
  Bind("SET_DYLIB_ORDINAL_ULEB") /\ Set([regs EXCEPT !.dylib = Imm]) /\ at' = After1 /\ UNCHANGED unread
SET_SYMBOL_TRAILING_FLAGS_IMM ==
  /\ Bind("SET_SYMBOL_TRAILING_FLAGS_IMM")
  /\ Set([regs EXCEPT !.flags = Imm, !.sym = bytes[at + 2]])
  /\ at' = at + 3 /\ UNCHANGED unread
SET_TYPE_IMM ==
  Opcode("SET_TYPE_IMM") /\ Set([regs EXCEPT !.type = Imm]) /\ at' = at + 1 /\ UNCHANGED unread
SET_ADDEND_SLEB ==   (* addend is a size_t: leb128_decode takes it for a ULEB *)
  NonLazy("SET_ADDEND_SLEB") /\ Set([regs EXCEPT !.addend = Uleb1]) /\ at' = After1 /\ UNCHANGED unread
SET_SEGMENT_AND_OFFSET_ULEB ==
  /\ Opcode("SET_SEGMENT_AND_OFFSET_ULEB") /\ Imm \in DOMAIN origins
  /\ Set([regs EXCEPT !.vmaddr = (Uleb1 + origins[Imm]) % Word])
  /\ at' = After1 /\ UNCHANGED unread
ADD_ADDR_ULEB ==
  /\ NonLazy("ADD_ADDR_ULEB") \/ Rebase("ADD_ADDR_ULEB")
  /\ Set([regs EXCEPT !.vmaddr = (@ + Uleb1) % Word]) /\ at' = After1 /\ UNCHANGED unread
DO_BIND ==
  Bind("DO_BIND") /\ DoTimes(1, PtrSize, 0, regs.index) /\ at' = at + 1 /\ UNCHANGED unread
DO_BIND_ADD_ADDR_ULEB ==
  /\ NonLazy("DO_BIND_ADD_ADDR_ULEB") /\ DoTimes(1, PtrSize, Uleb1, regs.index)
  /\ at' = After1 /\ UNCHANGED unread
DO_BIND_ADD_ADDR_IMM_SCALED ==
  /\ NonLazy("DO_BIND_ADD_ADDR_IMM_SCALED") /\ DoTimes(1, PtrSize, Imm * PtrSize, regs.index)
  /\ at' = at + 1 /\ UNCHANGED unread
DO_BIND_ULEB_TIMES_SKIPPING_ULEB ==   (* uleb2 is passed for index, and skipping is 0 *)
  /\ NonLazy("DO_BIND_ULEB_TIMES_SKIPPING_ULEB") /\ DoTimes(Uleb1, PtrSize, 0, Uleb2)
  /\ at' = After2 /\ UNCHANGED unread
ADD_ADDR_IMM_SCALED ==
  /\ Rebase("ADD_ADDR_IMM_SCALED") /\ Set([regs EXCEPT !.vmaddr = (@ + Imm * PtrSize) % Word])
  /\ at' = at + 1 /\ UNCHANGED unread
DO_REBASE_IMM_TIMES ==
  Rebase("DO_REBASE_IMM_TIMES") /\ DoTimes(Imm, PtrSize, 0, 0) /\ at' = at + 1 /\ UNCHANGED unread
DO_REBASE_ULEB_TIMES ==
  Rebase("DO_REBASE_ULEB_TIMES") /\ DoTimes(Uleb1, PtrSize, 0, 0) /\ at' = After1 /\ UNCHANGED unread
DO_REBASE_ADD_ADDR_ULEB ==
  Rebase("DO_REBASE_ADD_ADDR_ULEB") /\ DoTimes(1, PtrSize, Uleb1, 0) /\ at' = After1 /\ UNCHANGED unread
DO_REBASE_ULEB_TIMES_SKIPPING_ULEB ==
  /\ Rebase("DO_REBASE_ULEB_TIMES_SKIPPING_ULEB") /\ DoTimes(Uleb1, PtrSize + Uleb2, 0, 0)
  /\ at' = After2 /\ UNCHANGED unread

(* What a constructor throws at: opcodes it does not support, or not in a  *)
(* lazy table, and segments that do not exist.                             *)
NotLazy == {"SET_ADDEND_SLEB", "ADD_ADDR_ULEB", "DO_BIND_ADD_ADDR_ULEB",
            "DO_BIND_ADD_ADDR_IMM_SCALED", "DO_BIND_ULEB_TIMES_SKIPPING_ULEB"}
Throw ==
  /\ \/ Bind("SET_DYLIB_SPECIAL_IMM")
     \/ kind = "lazy" /\ \E op \in NotLazy : Opcode(op)
     \/ Opcode("SET_SEGMENT_AND_OFFSET_ULEB") /\ Imm \notin DOMAIN origins
  /\ stage' = "error"
  /\ UNCHANGED <<table, origins, bytes, at, regs, nodes, active, index, k, written>>

Parse ==
  \/ DONE \/ SET_DYLIB_ORDINAL_IMM \/ SET_DYLIB_ORDINAL_ULEB
  \/ SET_SYMBOL_TRAILING_FLAGS_IMM \/ SET_TYPE_IMM \/ SET_ADDEND_SLEB
  \/ SET_SEGMENT_AND_OFFSET_ULEB \/ ADD_ADDR_ULEB
  \/ DO_BIND \/ DO_BIND_ADD_ADDR_ULEB \/ DO_BIND_ADD_ADDR_IMM_SCALED
  \/ DO_BIND_ULEB_TIMES_SKIPPING_ULEB
  \/ ADD_ADDR_IMM_SCALED \/ DO_REBASE_IMM_TIMES \/ DO_REBASE_ULEB_TIMES
  \/ DO_REBASE_ADD_ADDR_ULEB \/ DO_REBASE_ULEB_TIMES_SKIPPING_ULEB
  \/ Throw

-----------------------------------------------------------------------------
(* Between reading and writing, blobs are deactivated and segments move.   *)
Parsed ==
  /\ stage = "parse" /\ at = Len(bytes) /\ written = <<>>
  /\ active' \in SUBSET {x \in DOMAIN nodes : nodes[x].blob # Null}
  /\ stage' = "build" /\ at' = 0 /\ k' = 1
  /\ UNCHANGED <<table, origins, bytes, regs, nodes, index, written>>

(* The bytes of a node, as Emit writes them, and as size counts them.      *)
NodeBytesFull(n) ==   \* mutant
  LET place == UlebEncode[n.blob[2]] IN
  IF kind = "rebase"
  THEN <<Byte(kind, "SET_TYPE_IMM", n.type), Byte(kind, "SET_SEGMENT_AND_OFFSET_ULEB", n.blob[1])>>
       \o place \o <<Byte(kind, "DO_REBASE_IMM_TIMES", 1)>>
  ELSE <<Byte(kind, "SET_DYLIB_ORDINAL_IMM", n.dylib), Byte(kind, "SET_TYPE_IMM", n.type),
         Byte(kind, "SET_ADDEND_SLEB", 0)>> \o SlebEncode[n.addend]
       \o <<Byte(kind, "SET_SEGMENT_AND_OFFSET_ULEB", n.blob[1])>> \o place
       \o <<Byte(kind, "SET_SYMBOL_TRAILING_FLAGS_IMM", n.flags), n.sym, 0, Byte(kind, "DO_BIND", 0)>>
NodeBytes(n) ==
  LET place == UlebEncode[n.blob[2]] IN
  CASE kind = "rebase" ->
         <<Byte(kind, "SET_TYPE_IMM", n.type), Byte(kind, "SET_SEGMENT_AND_OFFSET_ULEB", n.blob[1])>>
         \o place \o <<Byte(kind, "DO_REBASE_IMM_TIMES", 1)>>
    [] kind = "bind" ->
         <<Byte(kind, "SET_DYLIB_ORDINAL_IMM", n.dylib), Byte(kind, "SET_TYPE_IMM", n.type),
           Byte(kind, "SET_ADDEND_SLEB", 0)>> \o SlebEncode[n.addend]
         \o <<Byte(kind, "SET_SEGMENT_AND_OFFSET_ULEB", n.blob[1])>> \o place
         \o <<Byte(kind, "SET_SYMBOL_TRAILING_FLAGS_IMM", n.flags), n.sym, 0, Byte(kind, "DO_BIND", 0)>>
    [] OTHER ->
         <<Byte(kind, "SET_SEGMENT_AND_OFFSET_ULEB", n.blob[1])>> \o place
         \o <<Byte(kind, "SET_DYLIB_ORDINAL_IMM", n.dylib),
              Byte(kind, "SET_SYMBOL_TRAILING_FLAGS_IMM", n.flags), n.sym, 0,
              Byte(kind, "DO_BIND", 0), Byte(kind, "DONE", 0)>>
NodeSizeNoDone(n) ==   \* mutant
  LET place == Len(UlebEncode[n.blob[2]]) IN
  CASE kind = "rebase" -> 3 + place
    [] kind = "bind" -> 1 + 1 + (1 + Len(SlebEncode[n.addend])) + (1 + place) + (1 + 2) + 1
    [] OTHER -> (1 + place) + 1 + (1 + 2) + 1
NodeSize(n) ==
  LET place == Len(UlebEncode[n.blob[2]]) IN
  CASE kind = "rebase" -> 3 + place
    [] kind = "bind" -> 1 + 1 + (1 + Len(SlebEncode[n.addend])) + (1 + place) + (1 + 2) + 1
    [] OTHER -> (1 + place) + 1 + (1 + 2) + 1 + 1
SizeOf(x) == IF x \in active THEN NodeSize(nodes[x]) ELSE 0

(* size() and, for lazy nodes, Build: the index is the size before.        *)
BuildNode ==
  /\ stage = "build" /\ k <= Len(nodes)
  /\ index' = Append(index, IF kind = "lazy" THEN at ELSE 0)
  /\ at' = at + SizeOf(k)
  /\ k' = k + 1
  /\ UNCHANGED <<table, stage, origins, bytes, regs, nodes, active, written>>

TableSize(n) == AlignUp(IF n > 0 THEN n + 1 ELSE 0)
Allocate ==
  /\ stage = "build" /\ k > Len(nodes)
  /\ bytes' = [x \in 1..TableSize(at) |-> 0]
  /\ stage' = "emit" /\ at' = 0 /\ k' = 1
  /\ UNCHANGED <<table, origins, regs, nodes, active, index, written>>

EmitNode ==
  /\ stage = "emit" /\ k <= Len(nodes)
  /\ bytes' = IF k \in active THEN Overlay(bytes, at, NodeBytes(nodes[k])) ELSE bytes
  /\ at' = at + SizeOf(k)
  /\ k' = k + 1
  /\ UNCHANGED <<table, stage, origins, regs, nodes, active, index, written>>

(* The closing byte, if there are nodes: it lies behind the table, whose   *)
(* size is zero, if none of them is active.                                *)
EmitDone ==
  /\ stage = "emit" /\ k > Len(nodes)
  /\ bytes' = IF nodes = <<>> THEN bytes ELSE Overlay(bytes, at, <<Byte(kind, "DONE", 0)>>)
  /\ stage' = "emitted"
  /\ UNCHANGED <<table, origins, at, regs, nodes, active, index, k, written>>

(* The file that was written is read, by dyld or by the next command.      *)
Reread ==
  /\ stage = "emitted" /\ active # {}
  /\ written' = [x \in 1..Cardinality(active) |->
                   LET y == CHOOSE y \in active : Cardinality({z \in active : z <= y}) = x IN
                   [nodes[y] EXCEPT !.index = index[y]]]
  /\ origins' \in Places
  /\ stage' = "parse" /\ at' = 0 /\ regs' = NoRegs /\ nodes' = <<>>
  /\ UNCHANGED <<table, bytes, active, index, k>>

Next == Parse \/ Parsed \/ BuildNode \/ Allocate \/ EmitNode \/ EmitDone \/ Reread
Spec == Init /\ [][Next]_vars

-----------------------------------------------------------------------------
Stages == {"parse", "build", "emit", "emitted", "error"}
IsNode(n) ==
  /\ n.blob \in {Null} \cup ((DOMAIN origins) \X (0..(Extent - 1)))
  /\ {n.type, n.dylib, n.flags} \subseteq 0..(ImmLimit - 1)
  /\ {n.addend, n.sym, n.index} \subseteq 0..(Word - 1)

TypeOK ==
  /\ stage \in Stages /\ origins \in Places
  /\ at \in Nat /\ k \in Nat
  /\ regs.vmaddr \in 0..(Word - 1)
  /\ \A x \in DOMAIN nodes : IsNode(nodes[x])
  /\ \A x \in DOMAIN written : IsNode(written[x])
  /\ stage # "parse" => active \subseteq DOMAIN nodes

(* The loops of the constructors end when they meet the end of the table   *)
(* exactly: no opcode, number or padding leads them past it, or to a byte  *)
(* that is no opcode, in tables they read as in tables Emit wrote.         *)
EndIsMet ==
  /\ stage = "parse" => at <= Len(bytes)
  /\ Program /\ stage = "parse" /\ at < Len(bytes) =>
       \E op \in DOMAIN Codes(kind) : Codes(kind)[op] = bytes[at + 1] \div ImmLimit
  /\ written # <<>> => stage # "error"

(* What dyld makes of a linker's table.  A lazy table is entered behind    *)
(* each DONE with fresh registers, the others are read up to DONE.         *)
DyldStart == [regs |-> NoRegs, pos |-> 0, done |-> FALSE, nodes |-> <<>>]
DyldStep(s, o) ==
  LET r == s.regs
      pos == s.pos + Len(Assemble(o))
      with(t) == [s EXCEPT !.pos = pos, !.regs = t]
      do(n, stride, add) ==
        [s EXCEPT !.pos = pos, !.regs.vmaddr = (@ + n * stride + add) % Word,
                  !.nodes = @ \o [x \in 1..n |->
                                    NodeAt(r, (r.vmaddr + (x - 1) * stride) % Word, r.index)]]
  IN CASE s.done -> s
       [] o.op = "DONE" /\ kind # "lazy" -> [s EXCEPT !.done = TRUE]
       [] o.op = "DONE" /\ kind = "lazy" -> with([NoRegs EXCEPT !.index = pos])
       [] o.op \in {"SET_DYLIB_ORDINAL_IMM", "SET_DYLIB_ORDINAL_ULEB"} -> with([r EXCEPT !.dylib = o.a])
       [] o.op = "SET_SYMBOL_TRAILING_FLAGS_IMM" -> with([r EXCEPT !.flags = o.imm, !.sym = o.a])
       [] o.op = "SET_TYPE_IMM" -> with([r EXCEPT !.type = o.imm])
       [] o.op = "SET_ADDEND_SLEB" -> with([r EXCEPT !.addend = o.a])
       [] o.op = "SET_SEGMENT_AND_OFFSET_ULEB" -> with([r EXCEPT !.vmaddr = origins[o.imm] + o.a])
       [] o.op \in {"ADD_ADDR_ULEB", "ADD_ADDR_IMM_SCALED"} -> do(0, 0, o.a)
       [] o.op \in {"DO_BIND", "DO_BIND_ADD_ADDR_ULEB", "DO_BIND_ADD_ADDR_IMM_SCALED",
                    "DO_REBASE_ADD_ADDR_ULEB"} -> do(1, PtrSize, o.a)
       [] OTHER -> do(o.a, PtrSize + o.b, 0)
Dyld(ops) == FoldLeft(DyldStep, DyldStart, ops).nodes

Uses(op) == \E x \in DOMAIN table.ops : table.ops[x].op = op
FirstRead == Program /\ stage = "parse" /\ at = Len(bytes) /\ written = <<>>

(* The constructors make of a linker's table the binds and rebases dyld    *)
(* makes of it, address, registers and lazy index, though their registers  *)
(* live longer than dyld's.  Left out are the opcodes they misread: an     *)
(* ordinal beyond four bits, and skipped words in a run of binds.          *)
ReadAsLinked ==
  /\ FirstRead /\ ~Uses("SET_DYLIB_ORDINAL_ULEB")
  /\ \A x \in DOMAIN table.ops :
       table.ops[x].op = "DO_BIND_ULEB_TIMES_SKIPPING_ULEB" => table.ops[x].b = 0
  => nodes = Dyld(table.ops)

(* The same with skipped words: "std::size_t do_bind_times(std::size_t     *)
(* count, ... uint32_t index, ptr_t skipping = 0)" is given a count and a  *)
(* skip by the opcode, and the run of binds leaves out the skipped words.  *)
SkipsAsLinked ==
  FirstRead /\ ~Uses("SET_DYLIB_ORDINAL_ULEB") =>
    LET linked == Dyld(table.ops) IN
    Len(nodes) = Len(linked) /\ \A x \in DOMAIN nodes : nodes[x].blob = linked[x].blob

(* What Emit writes of the active nodes reads back as those nodes, each at *)
(* the index it was given, which its stub helper pushes: the opcodes, the  *)
(* numbers in them, their counted sizes, the inactive nodes between and    *)
(* the registers that carry over from node to node.                        *)
ReadsBack ==
  stage = "parse" /\ at = Len(bytes) /\ written # <<>> => nodes = written

=============================================================================
