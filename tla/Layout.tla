------------------------------- MODULE Layout -------------------------------
(***************************************************************************)
(* The build pass: Archive::Build walks the load commands twice, once to   *)
(* give segments, sections and dylibs their numbers and once to give every *)
(* section blob, relocation table and link-edit table its place.  A place  *)
(* is a Location, a file offset and a virtual address, and BuildEnv::loc   *)
(* carries the next free one.  Blob allocation moves both halves, the      *)
(* header and the link-edit tables move the offset only, and the segment   *)
(* boundaries align both: whether the two halves keep in step is what the  *)
(* invariants below are about.  Rebase and bind opcodes depend on it: they *)
(* are sized from offsets and written from addresses.                      *)
(*                                                                         *)
(* Every loop of the code is an action here, one step per iteration, with  *)
(* the indices i (load command), j (section or table), k (blob or node).   *)
(***************************************************************************)
EXTENDS Integers, Sequences, FiniteSets

CONSTANTS
  PageSize,     (* PAGESIZE                                                *)
  PtrSize,      (* align_bytes<bits>, the alignment of link-edit tables    *)
  VMStart,      (* vmaddr_start<bits>                                      *)
  HeaderSize,   (* sizeof(mach_header_t<bits>)                             *)
  SegCmdSize,   (* sizeof(segment_command_t<bits>)                         *)
  SectCmdSize,  (* sizeof(section_t<bits>)                                 *)
  RelocSize,    (* RelocationInfo<bits>::size()                            *)
  MaxSect,      (* MAX_SECT, the largest section number                    *)
  Aligns,       (* the alignments 1 << sect.align that occur               *)
  LebBase,      (* 128: a LEB128 byte carries seven bits                   *)
  LebMax,       (* 10: the bytes of the longest 64-bit LEB128              *)
  Archives      (* the parsed (or transformed) archives to build           *)

Blob == [size : Nat, wide : Nat, active : BOOLEAN]
Sect == [align : Aligns, blobs : Seq(Blob), nreloc : Nat]
NoBlob == <<0, 0, 0>>
Node == [target : Nat \X Nat \X Nat, fixed : Nat, active : BOOLEAN]
Table == [kind : {"opcodes", "lazy", "data"}, nodes : Seq(Node)]
SegmentKinds == {"PAGEZERO", "TEXT", "DATA", "LINKEDIT"}
LoadCommand == [kind : SegmentKinds \cup {"dylib", "other"},
                size : Nat, sects : Seq(Sect), tables : Seq(Table)]

ASSUME SizesAssumption ==
  /\ PageSize \in Nat \ {0} /\ PtrSize \in Nat \ {0}
  /\ VMStart \in Nat /\ VMStart % PageSize = 0
  /\ {HeaderSize, SegCmdSize, SectCmdSize, RelocSize, MaxSect} \subseteq Nat
  /\ LebBase \in Nat \ {0, 1} /\ LebMax \in Nat \ {0}

(* The loader maps whole pages, so an offset and an address can only agree *)
(* modulo PageSize: no section may ask for more than page alignment.       *)
ASSUME AlignsAssumption ==
  \A a \in Aligns : a \in Nat \ {0} /\ \E m \in 1..PageSize : PageSize = a * m

IsSegment(lc) == lc.kind \in SegmentKinds

(* What the link editor produces and the tools keep: __PAGEZERO before     *)
(* every segment, __TEXT before every other one, __LINKEDIT after all of   *)
(* them, without sections and alone with link-edit tables, one of them at  *)
(* most the lazy one of LC_DYLD_INFO, whose opcodes take a byte at least   *)
(* and are about blobs of the segments before it.                          *)
WellFormed(a) ==
  /\ \A x, y \in DOMAIN a : x < y /\ IsSegment(a[x]) /\ IsSegment(a[y]) =>
       /\ a[y].kind # "PAGEZERO"
       /\ a[y].kind = "TEXT" => a[x].kind = "PAGEZERO"
       /\ a[x].kind # "LINKEDIT"
  /\ \A x \in DOMAIN a :
       /\ a[x].kind \notin {"TEXT", "DATA"} => a[x].sects = <<>>
       /\ a[x].kind # "LINKEDIT" => a[x].tables = <<>>
       /\ \A t, u \in DOMAIN a[x].tables :
            a[x].tables[t].kind = "lazy" /\ a[x].tables[u].kind = "lazy" => t = u
       /\ \A t \in DOMAIN a[x].tables : \A n \in DOMAIN a[x].tables[t].nodes :
            LET g == a[x].tables[t].nodes[n].target IN
            /\ a[x].tables[t].kind # "data" => a[x].tables[t].nodes[n].fixed > 0
            /\ \/ g = NoBlob
               \/ /\ g[1] \in 1..(x - 1) /\ g[2] \in DOMAIN a[g[1]].sects
                  /\ g[3] \in DOMAIN a[g[1]].sects[g[2]].blobs

ASSUME ArchivesAssumption ==
  /\ Archives \subseteq Seq(LoadCommand)
  /\ \A a \in Archives : WellFormed(a)

CmdSize(lc) ==
  IF IsSegment(lc) THEN SegCmdSize + Len(lc.sects) * SectCmdSize ELSE lc.size

AlignUp(x, a) == ((x + a - 1) \div a) * a
AlignDown(x, a) == (x \div a) * a

(* leb128_size: one byte, and one more for each power of the base reached. *)
LebLen(n) == 1 + Cardinality({e \in 1..(LebMax - 1) : n >= LebBase^e})

(* The size of a blob once Instruction::Build has turned a branch with an  *)
(* 8-bit displacement into one with a 32-bit displacement.                 *)
BuiltSizeShort(b) == IF b.active THEN b.size ELSE 0   \* mutant
BuiltSize(b) == IF b.active THEN b.wide ELSE 0

-----------------------------------------------------------------------------
VARIABLES
  archive,   (* load_commands                                              *)
  stage,     (* the loop that runs                                         *)
  i, j, k,   (* its indices                                                *)
  loc,       (* BuildEnv::loc                                              *)
  cmdsize,   (* header.sizeofcmds                                          *)
  ids,       (* BuildEnv's counters                                        *)
  segId,     (* Segment::id, by load command                               *)
  sectId,    (* number of sections numbered before each segment's          *)
  dylibId,   (* DylibCommand::id, by load command                          *)
  seg,       (* segment_command of each load command                       *)
  start,     (* loc() of the section that is being built                   *)
  sect,      (* the sections built: place, size, relocation table          *)
  blob,      (* the blobs built: place and size                            *)
  acc,       (* size so far of the link-edit table that is being sized     *)
  table,     (* the link-edit tables allocated                             *)
  index      (* BindNode::index of the lazy bind nodes                     *)

vars == <<archive, stage, i, j, k, loc, cmdsize, ids, segId, sectId, dylibId,
          seg, start, sect, blob, acc, table, index>>

LC == archive[i]
Segments == {s \in DOMAIN archive : IsSegment(archive[s])}
Location == [offset : Nat, vmaddr : Nat]
Advance(l, n) == [offset |-> l.offset + n, vmaddr |-> l.vmaddr + n]
AlignOffsetOnly(l, a) == [l EXCEPT !.offset = AlignUp(@, a)]   \* mutant
Align(l, a) == [offset |-> AlignUp(l.offset, a), vmaddr |-> AlignUp(l.vmaddr, a)]

(* BuildEnv's counters: dylibs count from one, segments from zero, and a   *)
(* section is numbered one above the sections counted before it.           *)
FirstIdsFromZero == [segment |-> 0, section |-> 0, dylib |-> 0, lazy |-> 0]   \* mutant
FirstIds == [segment |-> 0, section |-> 0, dylib |-> 1, lazy |-> 0]
TooManySectionsLate(n) == n > MaxSect + 1   \* mutant
TooManySections(n) == n > MaxSect

(* __TEXT starts on the page of the file the current offset is in.         *)
TextOffsetUp == AlignUp(loc.offset, PageSize)   \* mutant
TextOffset == AlignDown(loc.offset, PageSize)

(* Where a segment ends, and the sizes that makes.                         *)
SegmentEndOffsetOnly == [loc EXCEPT !.offset = AlignUp(@, PageSize)]   \* mutant
SegmentEnd == Align(loc, PageSize)
FileSizeAbsolute(s, end) == end   \* mutant
FileSize(s, end) == end - seg[s].fileoff

Init ==
  /\ archive \in Archives
  /\ stage = "count" /\ i = 1 /\ j = 0 /\ k = 0
  /\ loc = [offset |-> HeaderSize, vmaddr |-> VMStart]
  /\ cmdsize = 0
  /\ ids = FirstIds
  /\ segId = [x \in DOMAIN archive |-> 0]
  /\ sectId = [x \in DOMAIN archive |-> 0]
  /\ dylibId = [x \in DOMAIN archive |-> 0]
  /\ seg = [x \in DOMAIN archive |->
              [fileoff |-> 0, filesize |-> 0, vmaddr |-> 0, vmsize |-> 0]]
  /\ start = [offset |-> 0, vmaddr |-> 0]
  /\ sect = {} /\ blob = {} /\ acc = 0 /\ table = {} /\ index = {}

-----------------------------------------------------------------------------
(* header.sizeofcmds += lc->size(), then env.allocate(header.sizeofcmds)   *)
CountCommand ==
  /\ stage = "count" /\ i <= Len(archive)
  /\ cmdsize' = cmdsize + CmdSize(LC)
  /\ i' = i + 1
  /\ UNCHANGED <<archive, stage, j, k, loc, ids, segId, sectId, dylibId, seg,
                 start, sect, blob, acc, table, index>>

AllocateCommands ==
  /\ stage = "count" /\ i > Len(archive)
  /\ loc' = [loc EXCEPT !.offset = @ + cmdsize]
  /\ stage' = "ids" /\ i' = 1
  /\ UNCHANGED <<archive, j, k, cmdsize, ids, segId, sectId, dylibId, seg,
                 start, sect, blob, acc, table, index>>

-----------------------------------------------------------------------------
(* The first pass: AssignID of every load command.                         *)
AssignSegmentID ==
  /\ stage = "ids" /\ i <= Len(archive) /\ IsSegment(LC)
  /\ LET n == ids.section + Len(LC.sects) IN
       IF TooManySections(n)   (* section_counter throws "too many sections" *)
       THEN /\ stage' = "error"
            /\ UNCHANGED <<i, ids, segId, sectId>>
       ELSE /\ ids' = [ids EXCEPT !.segment = @ + 1, !.section = n]
            /\ segId' = [segId EXCEPT ![i] = ids.segment]
            /\ sectId' = [sectId EXCEPT ![i] = ids.section]
            /\ i' = i + 1
            /\ UNCHANGED stage
  /\ UNCHANGED <<archive, j, k, loc, cmdsize, dylibId, seg, start, sect, blob,
                 acc, table, index>>

AssignDylibID ==
  /\ stage = "ids" /\ i <= Len(archive) /\ LC.kind = "dylib"
  /\ ids' = [ids EXCEPT !.dylib = @ + 1]
  /\ dylibId' = [dylibId EXCEPT ![i] = ids.dylib]
  /\ i' = i + 1
  /\ UNCHANGED <<archive, stage, j, k, loc, cmdsize, segId, sectId, seg, start,
                 sect, blob, acc, table, index>>

AssignNoID ==
  /\ stage = "ids" /\ i <= Len(archive) /\ LC.kind = "other"
  /\ i' = i + 1
  /\ UNCHANGED <<archive, stage, j, k, loc, cmdsize, ids, segId, sectId,
                 dylibId, seg, start, sect, blob, acc, table, index>>

IDsAssigned ==
  /\ stage = "ids" /\ i > Len(archive)
  /\ stage' = "lc" /\ i' = 1
  /\ UNCHANGED <<archive, j, k, loc, cmdsize, ids, segId, sectId, dylibId, seg,
                 start, sect, blob, acc, table, index>>

-----------------------------------------------------------------------------
(* The second pass: Build of every load command.                           *)
BuildOther ==
  /\ stage = "lc" /\ i <= Len(archive) /\ ~IsSegment(LC)
  /\ i' = i + 1
  /\ UNCHANGED <<archive, stage, j, k, loc, cmdsize, ids, segId, sectId,
                 dylibId, seg, start, sect, blob, acc, table, index>>

BuildPagezero ==
  /\ stage = "lc" /\ i <= Len(archive) /\ LC.kind = "PAGEZERO"
  /\ seg' = [seg EXCEPT ![i] = [fileoff |-> 0, filesize |-> 0,
                                vmaddr |-> 0, vmsize |-> loc.vmaddr]]
  /\ i' = i + 1
  /\ UNCHANGED <<archive, stage, j, k, loc, cmdsize, ids, segId, sectId,
                 dylibId, start, sect, blob, acc, table, index>>

(* __TEXT maps the header and the load commands too: it starts at the page *)
(* below the current offset, and its first section keeps the page offset.  *)
BeginText ==
  /\ stage = "lc" /\ i <= Len(archive) /\ LC.kind = "TEXT"
  /\ LET vm == AlignUp(loc.vmaddr, PageSize) IN
       /\ seg' = [seg EXCEPT ![i].fileoff = TextOffset,
                             ![i].vmaddr = vm]
       /\ loc' = [loc EXCEPT !.vmaddr = vm + (loc.offset % PageSize)]
  /\ stage' = "sect" /\ j' = 1
  /\ UNCHANGED <<archive, i, k, cmdsize, ids, segId, sectId, dylibId, start,
                 sect, blob, acc, table, index>>

BeginSegment ==
  /\ stage = "lc" /\ i <= Len(archive) /\ LC.kind = "DATA"
  /\ loc' = Align(loc, PageSize)
  /\ seg' = [seg EXCEPT ![i].fileoff = loc'.offset, ![i].vmaddr = loc'.vmaddr]
  /\ stage' = "sect" /\ j' = 1
  /\ UNCHANGED <<archive, i, k, cmdsize, ids, segId, sectId, dylibId, start,
                 sect, blob, acc, table, index>>

BeginSection ==
  /\ stage = "sect" /\ j <= Len(LC.sects)
  /\ loc' = Align(loc, LC.sects[j].align)
  /\ start' = loc'
  /\ stage' = "blob" /\ k' = 1
  /\ UNCHANGED <<archive, i, j, cmdsize, ids, segId, sectId, dylibId, seg,
                 sect, blob, acc, table, index>>

PlaceBlob ==
  /\ stage = "blob" /\ k <= Len(LC.sects[j].blobs)
  /\ LET n == BuiltSize(LC.sects[j].blobs[k]) IN
       /\ blob' = blob \cup {[at |-> <<i, j, k>>, loc |-> loc, size |-> n]}
       /\ loc' = Advance(loc, n)
  /\ k' = k + 1
  /\ UNCHANGED <<archive, stage, i, j, cmdsize, ids, segId, sectId, dylibId,
                 seg, start, sect, acc, table, index>>

EndSection ==
  /\ stage = "blob" /\ k > Len(LC.sects[j].blobs)
  /\ sect' = sect \cup {[at |-> <<i, j>>, loc |-> start,
                         size |-> loc.offset - start.offset,
                         reloff |-> loc.offset, nreloc |-> LC.sects[j].nreloc]}
  /\ loc' = Advance(loc, LC.sects[j].nreloc * RelocSize)
  /\ stage' = "sect" /\ j' = j + 1
  /\ UNCHANGED <<archive, i, k, cmdsize, ids, segId, sectId, dylibId, seg,
                 start, blob, acc, table, index>>

EndSegment ==
  /\ stage = "sect" /\ j > Len(LC.sects)
  /\ loc' = SegmentEnd
  /\ seg' = [seg EXCEPT
               ![i].filesize = FileSize(i, loc'.offset),
               ![i].vmsize = AlignUp(loc'.vmaddr - seg[i].vmaddr, PageSize)]
  /\ stage' = "lc" /\ i' = i + 1
  /\ UNCHANGED <<archive, j, k, cmdsize, ids, segId, sectId, dylibId, start,
                 sect, blob, acc, table, index>>

-----------------------------------------------------------------------------
(* Segment_LINKEDIT::Build: the tables are sized and allocated in turn.    *)
BeginLinkedit ==
  /\ stage = "lc" /\ i <= Len(archive) /\ LC.kind = "LINKEDIT"
  /\ loc' = Align(loc, PageSize)
  /\ seg' = [seg EXCEPT ![i].fileoff = loc'.offset, ![i].vmaddr = loc'.vmaddr]
  /\ stage' = "table" /\ j' = 1 /\ k' = 1 /\ acc' = 0
  /\ UNCHANGED <<archive, i, cmdsize, ids, segId, sectId, dylibId, start, sect,
                 blob, table, index>>

(* Where the blob an opcode is about sits in its segment: by file offset   *)
(* for size(), by address for Emit().                                      *)
Placed(target) == CHOOSE b \in blob : b.at = target
FileDistanceAbsolute(b) == b.loc.offset   \* mutant
FileDistance(b) == b.loc.offset - seg[b.at[1]].fileoff
AddrDistance(b) == b.loc.vmaddr - seg[b.at[1]].vmaddr

NodeSize(n) ==
  CASE ~n.active -> 0
    [] n.active /\ n.target = NoBlob -> n.fixed
    [] OTHER -> n.fixed + LebLen(FileDistance(Placed(n.target)))

SizeNode ==
  /\ stage = "table" /\ j <= Len(LC.tables) /\ k <= Len(LC.tables[j].nodes)
  /\ acc' = acc + NodeSize(LC.tables[j].nodes[k])
  /\ k' = k + 1
  /\ UNCHANGED <<archive, stage, i, j, loc, cmdsize, ids, segId, sectId,
                 dylibId, seg, start, sect, blob, table, index>>

(* An opcode stream that is not empty ends in a DONE byte, and is padded.  *)
TableSizeNoDone(t, n) == IF t.kind = "data" THEN n ELSE AlignUp(n, PtrSize)   \* mutant
TableSize(t, n) ==
  IF t.kind = "data" THEN n
  ELSE AlignUp(IF n > 0 THEN n + 1 ELSE 0, PtrSize)

AllocateTable ==
  /\ stage = "table" /\ j <= Len(LC.tables) /\ k > Len(LC.tables[j].nodes)
  /\ LET n == TableSize(LC.tables[j], acc) IN
       /\ table' = table \cup {[at |-> <<i, j>>, off |-> loc.offset, size |-> n]}
       /\ loc' = [loc EXCEPT !.offset = @ + n]
  /\ stage' = "index" /\ k' = 1 /\ acc' = 0
  /\ UNCHANGED <<archive, i, j, cmdsize, ids, segId, sectId, dylibId, seg,
                 start, sect, blob, index>>

(* lazy_bind->Build: a lazy node's index is the size of those before it.   *)
IndexNode ==
  /\ stage = "index" /\ LC.tables[j].kind = "lazy"
  /\ k <= Len(LC.tables[j].nodes)
  /\ index' = index \cup {[at |-> <<i, j, k>>, index |-> ids.lazy]}
  /\ ids' = [ids EXCEPT !.lazy = @ + NodeSize(LC.tables[j].nodes[k])]
  /\ k' = k + 1
  /\ UNCHANGED <<archive, stage, i, j, loc, cmdsize, segId, sectId, dylibId,
                 seg, start, sect, blob, acc, table>>

TableDone ==
  /\ stage = "index"
  /\ LC.tables[j].kind = "lazy" => k > Len(LC.tables[j].nodes)
  /\ stage' = "table" /\ j' = j + 1 /\ k' = 1
  /\ UNCHANGED <<archive, i, loc, cmdsize, ids, segId, sectId, dylibId, seg,
                 start, sect, blob, acc, table, index>>

(* The segment's addresses are not allocated: env.loc.vmaddr stays at its  *)
(* start, so another segment after this one would be mapped over it.       *)
EndLinkedit ==
  /\ stage = "table" /\ j > Len(LC.tables)
  /\ loc' = [loc EXCEPT !.vmaddr = AlignUp(@, PageSize)]
  /\ seg' = [seg EXCEPT
               ![i].filesize = FileSize(i, loc.offset),
               ![i].vmsize = AlignUp(FileSize(i, loc.offset), PageSize)]
  /\ stage' = "lc" /\ i' = i + 1
  /\ UNCHANGED <<archive, j, k, cmdsize, ids, segId, sectId, dylibId, start,
                 sect, blob, acc, table, index>>

BuildDone ==
  /\ stage = "lc" /\ i > Len(archive)
  /\ stage' = "built"
  /\ UNCHANGED <<archive, i, j, k, loc, cmdsize, ids, segId, sectId, dylibId,
                 seg, start, sect, blob, acc, table, index>>

Next ==
  \/ CountCommand \/ AllocateCommands
  \/ AssignSegmentID \/ AssignDylibID \/ AssignNoID \/ IDsAssigned
  \/ BuildOther \/ BuildPagezero \/ BeginText \/ BeginSegment
  \/ BeginSection \/ PlaceBlob \/ EndSection \/ EndSegment
  \/ BeginLinkedit \/ SizeNode \/ AllocateTable \/ IndexNode \/ TableDone
  \/ EndLinkedit \/ BuildDone

Spec == Init /\ [][Next]_vars

-----------------------------------------------------------------------------
(* The stages of the build, and those of the emit pass (module Emission).  *)
Stages == {"count", "ids", "lc", "sect", "blob", "table", "index", "built", "error",
           "emit", "esect", "eblob", "enode", "emitted"}

Counters == [segment : Nat, section : 0..MaxSect, dylib : Nat, lazy : Nat]
SegmentExtent == [fileoff : Nat, filesize : Int, vmaddr : Nat, vmsize : Int]
PlacedSect == [at : Nat \X Nat, loc : Location, size : Int, reloff : Nat, nreloc : Nat]
PlacedBlob == [at : Nat \X Nat \X Nat, loc : Location, size : Nat]
PlacedTable == [at : Nat \X Nat, off : Nat, size : Nat]
LazyIndex == [at : Nat \X Nat \X Nat, index : Nat]

TypeOK ==
  /\ archive \in Archives
  /\ stage \in Stages
  /\ i \in Nat /\ j \in Nat /\ k \in Nat
  /\ loc \in Location /\ cmdsize \in Nat
  /\ ids \in Counters
  /\ segId \in [DOMAIN archive -> Nat]
  /\ sectId \in [DOMAIN archive -> 0..MaxSect]
  /\ dylibId \in [DOMAIN archive -> Nat]
  /\ seg \in [DOMAIN archive -> SegmentExtent]
  /\ start \in Location
  /\ sect \subseteq PlacedSect
  /\ blob \subseteq PlacedBlob
  /\ acc \in Nat
  /\ table \subseteq PlacedTable
  /\ index \subseteq LazyIndex

(* A blob, and a section, is as far from the start of its segment in the   *)
(* file as it is in memory.  Rebase and bind opcodes are sized from the    *)
(* first distance and written from the second (RebaseNode and BindNode,    *)
(* size() and Emit()), and the loader maps the file on the assumption that *)
(* they are equal; five different rules move the halves of BuildEnv::loc.  *)
InStep ==
  /\ \A b \in blob : FileDistance(b) = AddrDistance(b) /\ FileDistance(b) >= 0
  /\ \A s \in sect : FileDistance(s) = AddrDistance(s) /\ s.size >= 0

(* Segment::Build asserts that every segment but __LINKEDIT starts on a    *)
(* page of memory: whatever was built before has left the address there.   *)
PageAligned ==
  stage = "lc" => loc.vmaddr % PageSize = 0

Built(s) ==
  /\ s \in Segments /\ stage \notin {"count", "ids", "error"}
  /\ stage \in {"lc", "sect", "blob", "table", "index"} => i > s

(* No two segments share a byte of the file or an address: __PAGEZERO ends *)
(* where the first segment starts, __TEXT takes the header with it, and    *)
(* each following segment starts on the page after.  And a segment maps    *)
(* what was put in it: its sections, relocations and tables lie inside its *)
(* part of the file, and its part of the file inside its part of memory.   *)
SegmentsHold ==
  \A s \in Segments : Built(s) =>
    LET end == seg[s].fileoff + seg[s].filesize IN
    /\ \A t \in Segments : Built(t) /\ s < t =>
         seg[s].vmaddr + seg[s].vmsize <= seg[t].vmaddr /\ end <= seg[t].fileoff
    /\ seg[s].filesize <= seg[s].vmsize
    /\ \A c \in sect : c.at[1] = s =>
         seg[s].fileoff <= c.loc.offset /\ c.reloff + c.nreloc * RelocSize <= end
    /\ \A t \in table : t.at[1] = s => seg[s].fileoff <= t.off /\ t.off + t.size <= end

(* The numbers that opcodes and symbols carry: dyld and the parser look a  *)
(* segment up by its rank among the segments (Archive::segment(index)) and *)
(* a section by its rank, from 1, among all sections (section(n) takes     *)
(* sections().at(n - 1)), and a two-level symbol names the dylibs in load  *)
(* order from 1.  The ranks are those of the archive being built, not of   *)
(* the one that was parsed.                                                *)
NumbersAreRanks ==
  stage \notin {"count", "ids", "error"} =>
    \A x \in DOMAIN archive :
      LET before(P(_)) == {y \in 1..(x - 1) : P(archive[y])} IN
      /\ IsSegment(archive[x]) =>
           /\ segId[x] = Cardinality(before(IsSegment))
           /\ sectId[x] = Cardinality(UNION {{<<y, z>> : z \in DOMAIN archive[y].sects} :
                                             y \in before(IsSegment)})
      /\ archive[x].kind = "dylib" =>
           dylibId[x] = 1 + Cardinality(before(LAMBDA lc : lc.kind = "dylib"))

=============================================================================
