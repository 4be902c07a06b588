------------------------------ MODULE Emission ------------------------------
(***************************************************************************)
(* The emit pass: Archive::Emit writes the archive that Layout has built.  *)
(* It does not follow the places the build pass recorded: the commands are *)
(* written one after another, a section's blobs one after another from the *)
(* section's offset, and the opcodes of a table one after another from the *)
(* table's offset.  The places recorded in the build are what every        *)
(* pointer, branch and opcode refers to, so the two passes must agree.     *)
(***************************************************************************)
EXTENDS Layout

VARIABLES
  pos,      (* offset of the next load command or section command          *)
  cur,      (* offset of the next blob, relocation or opcode               *)
  written   (* what was written: byte range and origin, in order           *)

evars == <<pos, cur, written>>

EInit == Init /\ pos = 0 /\ cur = 0 /\ written = <<>>

Write(lo, n, what, at) == Append(written, [lo |-> lo, hi |-> lo + n, what |-> what, at |-> at])

BuildStep == Next /\ UNCHANGED evars

EmitHeader ==
  /\ stage = "built"
  /\ written' = Write(0, HeaderSize, "header", <<0>>)
  /\ pos' = HeaderSize
  /\ stage' = "emit" /\ i' = 1
  /\ UNCHANGED <<archive, j, k, loc, cmdsize, ids, segId, sectId, dylibId, seg,
                 start, sect, blob, acc, table, index, cur>>

EmitCommand ==
  /\ stage = "emit" /\ i <= Len(archive) /\ ~IsSegment(LC)
  /\ written' = Write(pos, CmdSize(LC), "command", <<i>>)
  /\ pos' = pos + CmdSize(LC)
  /\ i' = i + 1
  /\ UNCHANGED <<archive, stage, j, k, loc, cmdsize, ids, segId, sectId,
                 dylibId, seg, start, sect, blob, acc, table, index, cur>>

EmitSegment ==
  /\ stage = "emit" /\ i <= Len(archive) /\ IsSegment(LC)
  /\ written' = Write(pos, SegCmdSize, "command", <<i>>)
  /\ pos' = pos + SegCmdSize
  /\ stage' = "esect" /\ j' = 1
  /\ UNCHANGED <<archive, i, k, loc, cmdsize, ids, segId, sectId, dylibId, seg,
                 start, sect, blob, acc, table, index, cur>>

EmitSection ==
  /\ stage = "esect" /\ j <= Len(LC.sects)
  /\ written' = Write(pos, SectCmdSize, "command", <<i, j>>)
  /\ pos' = pos + SectCmdSize
  /\ cur' = (CHOOSE s \in sect : s.at = <<i, j>>).loc.offset
  /\ stage' = "eblob" /\ k' = 1
  /\ UNCHANGED <<archive, i, j, loc, cmdsize, ids, segId, sectId, dylibId, seg,
                 start, sect, blob, acc, table, index>>

(* Only active blobs are written, at the size they have after the build.   *)
EmitBlobNoSkip ==   \* mutant
  /\ stage = "eblob" /\ k <= Len(LC.sects[j].blobs) /\ LC.sects[j].blobs[k].active
  /\ written' = Write(cur, LC.sects[j].blobs[k].wide, "blob", <<i, j, k>>)
  /\ cur' = cur + LC.sects[j].blobs[k].wide /\ k' = k + 1
  /\ UNCHANGED <<archive, stage, i, j, loc, cmdsize, ids, segId, sectId,
                 dylibId, seg, start, sect, blob, acc, table, index, pos>>
EmitBlob ==
  /\ stage = "eblob" /\ k <= Len(LC.sects[j].blobs)
  /\ LET b == LC.sects[j].blobs[k] IN
       IF b.active
       THEN /\ written' = Write(cur, b.wide, "blob", <<i, j, k>>)
            /\ cur' = cur + b.wide
       ELSE UNCHANGED <<written, cur>>
  /\ k' = k + 1
  /\ UNCHANGED <<archive, stage, i, j, loc, cmdsize, ids, segId, sectId,
                 dylibId, seg, start, sect, blob, acc, table, index, pos>>

EmitRelocations ==
  /\ stage = "eblob" /\ k > Len(LC.sects[j].blobs)
  /\ LET n == LC.sects[j].nreloc * RelocSize IN
       /\ written' = Write(cur, n, "relocs", <<i, j>>)
       /\ cur' = cur + n
  /\ stage' = "esect" /\ j' = j + 1
  /\ UNCHANGED <<archive, i, k, loc, cmdsize, ids, segId, sectId, dylibId, seg,
                 start, sect, blob, acc, table, index, pos>>

(* The tables are written by the commands that own them, at the offsets    *)
(* the build of __LINKEDIT gave them.                                      *)
EmitTable ==
  /\ stage = "esect" /\ j > Len(LC.sects) /\ j <= Len(LC.tables)
  /\ cur' = (CHOOSE t \in table : t.at = <<i, j>>).off
  /\ stage' = "enode" /\ k' = 1
  /\ UNCHANGED <<archive, i, j, loc, cmdsize, ids, segId, sectId, dylibId, seg,
                 start, sect, blob, acc, table, index, pos, written>>

(* The bytes Emit writes for an opcode, against the size() it advances by. *)
NodeBytes(n) ==
  CASE ~n.active -> 0
    [] n.active /\ n.target = NoBlob -> n.fixed
    [] OTHER -> n.fixed + LebLen(AddrDistance(Placed(n.target)))

EmitNode ==
  /\ stage = "enode" /\ k <= Len(LC.tables[j].nodes)
  /\ LET n == LC.tables[j].nodes[k] IN
       /\ written' = IF n.active THEN Write(cur, NodeBytes(n), "node", <<i, j, k>>)
                     ELSE written
       /\ cur' = cur + NodeSize(n)
  /\ k' = k + 1
  /\ UNCHANGED <<archive, stage, i, j, loc, cmdsize, ids, segId, sectId,
                 dylibId, seg, start, sect, blob, acc, table, index, pos>>

(* The DONE byte is written when there are nodes, active or not.           *)
EndTable ==
  /\ stage = "enode" /\ k > Len(LC.tables[j].nodes)
  /\ written' = IF LC.tables[j].kind # "data" /\ LC.tables[j].nodes # <<>>
                THEN Write(cur, 1, "done", <<i, j>>) ELSE written
  /\ stage' = "esect" /\ j' = j + 1
  /\ UNCHANGED <<archive, i, k, loc, cmdsize, ids, segId, sectId, dylibId, seg,
                 start, sect, blob, acc, table, index, pos, cur>>

EndSegmentEmit ==
  /\ stage = "esect" /\ j > Len(LC.sects) /\ j > Len(LC.tables)
  /\ stage' = "emit" /\ i' = i + 1
  /\ UNCHANGED <<archive, j, k, loc, cmdsize, ids, segId, sectId, dylibId, seg,
                 start, sect, blob, acc, table, index, pos, cur, written>>

EmitDone ==
  /\ stage = "emit" /\ i > Len(archive)
  /\ stage' = "emitted"
  /\ UNCHANGED <<archive, i, j, k, loc, cmdsize, ids, segId, sectId, dylibId,
                 seg, start, sect, blob, acc, table, index, pos, cur, written>>

ENext ==
  \/ BuildStep
  \/ EmitHeader \/ EmitCommand \/ EmitSegment \/ EmitSection \/ EmitBlob
  \/ EmitRelocations \/ EmitTable \/ EmitNode \/ EndTable \/ EndSegmentEmit
  \/ EmitDone

(* One thread runs the two passes and nothing in them waits.               *)
ESpec == EInit /\ [][ENext]_<<vars, evars>> /\ WF_<<vars, evars>>(ENext)

-----------------------------------------------------------------------------
Writes(what) == {written[x] : x \in {y \in DOMAIN written : written[y].what = what}}

(* Where the loader will find a byte written at offset o by segment s.     *)
LoadedAt(s, o) == seg[s].vmaddr + (o - seg[s].fileoff)

(* What every branch, pointer and opcode relies on: a blob is loaded at    *)
(* the address the build gave it, and a relocation table stands where the  *)
(* section command says.  The two passes count the bytes separately.       *)
LoadedWhereAddressed ==
  /\ \A w \in Writes("blob") :
       LoadedAt(w.at[1], w.lo) = Placed(w.at).loc.vmaddr
  /\ \A w \in Writes("relocs") :
       \E s \in sect : s.at = w.at /\ s.reloff = w.lo

(* An opcode is written at the size it was counted with, inside its table, *)
(* and the number a stub helper pushes for a lazy symbol is the offset of  *)
(* that symbol's opcodes in the lazy table.                                *)
OpcodesWhereCounted ==
  \A w \in Writes("node") :
    \E t \in table :
      /\ t.at = <<w.at[1], w.at[2]>>
      /\ t.off <= w.lo /\ w.hi <= t.off + t.size
      /\ LET n == archive[w.at[1]].tables[w.at[2]].nodes[w.at[3]] IN
           w.hi - w.lo = NodeSize(n)
      /\ \A x \in index : x.at = w.at => x.index = w.lo - t.off

(* Two writes never touch the same byte, with one exception the code has:  *)
(* a table whose nodes are all inactive has size zero and still gets its   *)
(* DONE byte, which falls on the first byte of what follows.  That byte is *)
(* written later, so it is not lost.                                       *)
NothingLost ==
  \A x, y \in DOMAIN written :
    LET a == written[x]  b == written[y] IN
    x < y /\ a.lo < b.hi /\ b.lo < a.hi =>
      /\ a.what = "done"
      /\ \A n \in DOMAIN archive[a.at[1]].tables[a.at[2]].nodes :
           ~archive[a.at[1]].tables[a.at[2]].nodes[n].active

(* Every blob, relocation and opcode is written inside the part of the     *)
(* file its segment maps, and the header and the commands, which are as    *)
(* long as sizeofcmds says, below every section.  And the name of a dylib  *)
(* or of the dynamic linker is written by memcpy, for which the image is   *)
(* told of one byte only (DylibCommand::Emit): the file has to be long     *)
(* enough already.  Such a command, after a segment with contents, relies  *)
(* on those contents lying behind all load commands.                       *)
WrittenIsMapped ==
  /\ \A w \in Writes("blob") \cup Writes("relocs") \cup Writes("node") :
       LET s == seg[w.at[1]] IN
       s.fileoff <= w.lo /\ w.hi <= s.fileoff + s.filesize
  /\ stage = "emitted" =>
       \A w \in Writes("command") :
         /\ w.hi <= HeaderSize + cmdsize
         /\ \A c \in sect : w.hi <= c.loc.offset
  /\ \A x \in DOMAIN written :
       LET before == {written[y] : y \in 1..(x - 1)} IN
       /\ written[x].what = "command" /\ ~IsSegment(archive[written[x].at[1]])
       /\ \E w \in before : w.what = "blob" /\ w.lo < w.hi
       => \E w \in before : written[x].hi <= w.hi

(* The passes come to an end, and then every active blob has been written. *)
EventuallyEmitted ==
  <>(\/ stage = "error"
     \/ /\ stage = "emitted"
        /\ \A x \in DOMAIN archive : \A y \in DOMAIN archive[x].sects :
             \A z \in DOMAIN archive[x].sects[y].blobs :
               archive[x].sects[y].blobs[z].active =>
                 \E w \in Writes("blob") : w.at = <<x, y, z>>)

=============================================================================
