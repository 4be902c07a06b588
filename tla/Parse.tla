-------------------------------- MODULE Parse --------------------------------
(***************************************************************************)
(* The parse of a Mach-O file into an Archive: Archive(img, offset).       *)
(*                                                                         *)
(* The load commands are constructed in file order, and what they say      *)
(* about the contents of sections - binds, rebases, symbols, exports, data *)
(* in code - comes before or after the sections it is about, which are     *)
(* cut into blobs only by Parse1.  Two lazy resolvers, by address and by   *)
(* file offset, and a map of placeholders by address carry the references  *)
(* over.  A placeholder is a blob of size zero that a reference holds on   *)
(* to; Parse2 puts it in front of the blob at its address, the constructor *)
(* puts those left at the ends of sections and gives up if any remain.     *)
(*                                                                         *)
(* A blob is known by its address and its kind, a placeholder by its       *)
(* address: the map has one per address.  Zero stands for address 0 and    *)
(* for a null segment or section.                                          *)
(***************************************************************************)
EXTENDS Integers, Sequences, FiniteSets, ResolverOps

CONSTANT Binaries   (* the files to parse *)

(* What the parser of a section makes of the bytes at one place: a byte of *)
(* data, a zero byte, a lazy symbol pointer, a branch (or an access        *)
(* relative to the instruction pointer), a push or mov of an immediate, an *)
(* access to an absolute address.  An immediate is a blob of its own, the  *)
(* last byte of its instruction.                                           *)
Kinds == {"data", "zero", "pointer", "branch", "push", "absolute"}
Decoded == [kind : Kinds, size : Nat \ {0}, value : Nat]
HasImmediate(d) == d.kind \in {"push", "absolute"}
AsData == [kind |-> "data", size |-> 1, value |-> 0]

Section == [offset : Nat, addr : Nat, code : BOOLEAN, bytes : Seq(Decoded)]
Ops == {"hold", "export", "bind", "rebase", "dice", "dylib", "reloc"}
Call == [op : Ops, at : Nat, n : Nat]
Command == [fileoff : Nat, filesize : Nat, sects : Seq(Section),
            calls : Seq(Call), entryoff : Nat]

(* The constructor of a dylib command names one library; a relocation      *)
(* entry counts from the start of its section, in memory and in the file.  *)
OneDylib(lc) ==
  \A x, y \in DOMAIN lc.calls : lc.calls[x].op = "dylib" /\ lc.calls[y].op = "dylib" => x = y
RelocInSection(lc) ==
  \A x \in DOMAIN lc.calls : lc.calls[x].op = "reloc" =>
    \E y \in DOMAIN lc.sects :
      lc.calls[x].at - lc.sects[y].addr = lc.calls[x].n - lc.sects[y].offset

ASSUME BinariesAssumption ==
  /\ Binaries \subseteq Seq(Command)
  /\ \A b \in Binaries : \A x \in DOMAIN b : OneDylib(b[x]) /\ RelocInSection(b[x])

(* What a resolver finds: the kind and the address of a blob.              *)
Names == Kinds \cup {"immediate", "reloc"}
ASSUME NullAssumption == Null \notin Names \X Nat

VARIABLES
  binary,        (* the image                                              *)
  stage,         (* the loop that runs                                     *)
  i, j, c,       (* command, section, constructor call                     *)
  it,            (* bytes of the section parsed, or content_it             *)
  vmaddr,        (* ParseEnv::vmaddr_resolver                              *)
  offset,        (* ParseEnv::offset_resolver                              *)
  dylib,         (* ParseEnv::dylib_resolver                               *)
  dice,          (* ParseEnv::data_in_code                                 *)
  placeholders,  (* addresses of ParseEnv::placeholders                    *)
  owner,         (* segment and section of every placeholder made          *)
  immediate,     (* value and pointee of every Immediate, by its address   *)
  content,       (* Section::content                                       *)
  again          (* the second do_resolve                                  *)

vars == <<binary, stage, i, j, c, it, vmaddr, offset, dylib, dice,
          placeholders, owner, immediate, content, again>>

held == <<placeholders, owner>>
resolvers == <<vmaddr, offset, dylib>>
built == <<immediate, content>>

LC == binary[i]
Sect == LC.sects[j]
Size(s) == Len(s.bytes)
Sections == UNION {{<<x, y>> : y \in DOMAIN binary[x].sects} : x \in DOMAIN binary}
At(s) == binary[s[1]].sects[s[2]]
First(S) == CHOOSE x \in S : \A y \in S : x <= y

NewParse(b) ==
  /\ binary = b
  /\ stage = "construct" /\ i = 1 /\ j = 1 /\ c = 1 /\ it = 0
  /\ vmaddr = NewResolver(TRUE) /\ offset = NewResolver(TRUE)
  /\ dylib = NewResolver(FALSE)
  /\ dice = {} /\ placeholders = {} /\ owner = NoEntries /\ immediate = NoEntries
  /\ content = [s \in Sections |-> <<>>]
  /\ again = FALSE

Init == \E b \in Binaries : NewParse(b)

(* add_placeholder: none for a null address, one per address.  The blob    *)
(* constructor gives it env.current_segment and env.current_section.       *)
Hold(a, seg, sec) ==
  /\ placeholders' = IF a = 0 THEN placeholders ELSE placeholders \cup {a}
  /\ owner' = IF a = 0 \/ a \in DOMAIN owner THEN owner ELSE Put(owner, a, <<seg, sec>>)

(* Archive::offset_to_vmaddr: the first segment that has the offset in its *)
(* part of the file, and in it the first section that has it.              *)
Has(start, size, x) == start <= x /\ x < start + size
SegmentOf(o) ==
  {x \in DOMAIN binary : binary[x].sects # <<>> /\ Has(binary[x].fileoff, binary[x].filesize, o)}
SectionOf(o) ==
  IF SegmentOf(o) = {} THEN {}
  ELSE LET x == First(SegmentOf(o)) IN
       {y \in DOMAIN binary[x].sects : Has(At(<<x, y>>).offset, Size(At(<<x, y>>)), o)}
ToVmaddr(o) == LET s == At(<<First(SegmentOf(o)), First(SectionOf(o))>>) IN o - s.offset + s.addr

-----------------------------------------------------------------------------
(* The constructors of the load commands, one call at a time.              *)
Calling(op) ==
  /\ stage = "construct" /\ i <= Len(binary) /\ c <= Len(LC.calls) /\ LC.calls[c].op = op
Arg == LC.calls[c]

(* Nlist and FunctionStarts                                                *)
CallHold ==
  /\ Calling("hold") /\ Hold(Arg.at, 0, 0)
  /\ c' = c + 1
  /\ UNCHANGED <<binary, stage, i, j, it, resolvers, dice, built, again>>

(* RegularExportNode: the trie holds offsets, zero for the header.         *)
CallExport ==
  /\ Calling("export")
  /\ IF Arg.at = 0 THEN UNCHANGED <<stage, held>>
     ELSE IF SectionOf(Arg.at) = {}
     THEN stage' = "error" /\ UNCHANGED held
     ELSE Hold(ToVmaddr(Arg.at), 0, 0) /\ UNCHANGED stage
  /\ c' = c + 1
  /\ UNCHANGED <<binary, i, j, it, resolvers, dice, built, again>>

(* BindNode: the pointer to patch by address, the dylib by ordinal.        *)
CallBind ==
  /\ Calling("bind")
  /\ vmaddr' = Ask(vmaddr, Arg.at, <<i, c>>)
  /\ dylib' = Ask(dylib, Arg.n, <<i, c>>)
  /\ c' = c + 1
  /\ UNCHANGED <<binary, stage, i, j, it, offset, dice, held, built, again>>

(* RebaseNode: no section is parsed yet, so its callback waits.            *)
CallRebase ==
  /\ Calling("rebase")
  /\ vmaddr' = Ask(vmaddr, Arg.at, <<i, c>>)
  /\ c' = c + 1
  /\ UNCHANGED <<binary, stage, i, j, it, offset, dylib, dice, held, built, again>>

(* DataInCodeEntry: the blobs at its two ends, and the region itself.      *)
CallDice ==
  /\ Calling("dice")
  /\ offset' = Ask(Ask(offset, Arg.at, <<i, c, "start">>), Arg.at + Arg.n, <<i, c, "end">>)
  /\ dice' = dice \cup Arg.at..(Arg.at + Arg.n - 1)
  /\ c' = c + 1
  /\ UNCHANGED <<binary, stage, i, j, it, vmaddr, dylib, held, built, again>>

(* DylibCommand: CountResolver numbers them from one.                      *)
CallDylib ==
  /\ Calling("dylib")
  /\ dylib' = Add(dylib, Cardinality(DOMAIN dylib.found) + 1, i)
  /\ c' = c + 1
  /\ UNCHANGED <<binary, stage, i, j, it, vmaddr, offset, dice, held, built, again>>

(* RelocationInfo: the bytes to relocate are a blob before Parse1.         *)
CallReloc ==
  /\ Calling("reloc")
  /\ vmaddr' = Add(vmaddr, Arg.at, <<"reloc", Arg.at>>)
  /\ offset' = Add(offset, Arg.n, <<"reloc", Arg.at>>)
  /\ c' = c + 1
  /\ UNCHANGED <<binary, stage, i, j, it, dylib, dice, held, built, again>>

NextCommand ==
  /\ stage = "construct" /\ i <= Len(binary) /\ c > Len(LC.calls)
  /\ i' = i + 1 /\ c' = 1
  /\ UNCHANGED <<binary, stage, j, it, resolvers, dice, held, built, again>>

Constructed ==
  /\ stage = "construct" /\ i > Len(binary)
  /\ stage' = "parse1" /\ i' = 1
  /\ UNCHANGED <<binary, j, c, it, resolvers, dice, held, built, again>>

-----------------------------------------------------------------------------
(* Parse1: the sections are cut into blobs.                                *)
Here == [offset |-> Sect.offset + it, vmaddr |-> Sect.addr + it]
Decode == IF Sect.code /\ Here.offset \in dice THEN AsData ELSE Sect.bytes[it + 1]

(* A branch whose displacement is relocated leaves it to the relocation.   *)
Relocated(d) ==
  LET a == Here.vmaddr + d.size - 1 IN a \in DOMAIN vmaddr.found /\ vmaddr.found[a][1] = "reloc"

(* The blobs one parser call registers: the one it returns and the         *)
(* immediate inside it.                                                    *)
ImmAt(d) == d.size - 1
NewBlobs(d) ==
  {<<0, <<d.kind, Here.vmaddr>>>>} \cup
  (IF HasImmediate(d) THEN {<<ImmAt(d), <<"immediate", Here.vmaddr + ImmAt(d)>>>>} ELSE {})
AddBlobs(r, at, d) ==
  LET self == Add(r, at, <<d.kind, Here.vmaddr>>) IN
  IF HasImmediate(d) THEN Add(self, at + ImmAt(d), <<"immediate", Here.vmaddr + ImmAt(d)>>)
  ELSE self

Parsing == stage = "parse1" /\ i <= Len(binary) /\ j <= Len(LC.sects)

ParseBlob ==
  /\ Parsing /\ it < Size(Sect)
  /\ LET d == Decode
         self == AddBlobs(vmaddr, Here.vmaddr, d) IN
     IF \E b \in NewBlobs(d) : \/ Clash(vmaddr, Here.vmaddr + b[1], b[2])
                               \/ Clash(offset, Here.offset + b[1], b[2])
     THEN stage' = "clash"   (* Resolver::add asserts *)
          /\ UNCHANGED <<it, vmaddr, offset, held, built>>
     ELSE
       /\ offset' = AddBlobs(offset, Here.offset, d)
       /\ vmaddr' = IF d.kind = "pointer" THEN Ask(self, d.value, <<i, j, Here.vmaddr>>)
                    ELSE self
       /\ IF d.kind = "branch" /\ ~Relocated(d) THEN Hold(d.value, i, j) ELSE UNCHANGED held
       (* is_pointer: the address that is looked up is the immediate's own *)
       /\ immediate' =
            IF HasImmediate(d)
            THEN Put(immediate, Here.vmaddr + ImmAt(d),
                     [value |-> d.value,
                      pointee |-> IF d.kind = "absolute"
                                  THEN <<"immediate", Here.vmaddr + ImmAt(d)>> ELSE Null])
            ELSE immediate
       /\ content' = [content EXCEPT ![<<i, j>>] =
                        Append(@, [addr |-> Here.vmaddr, kind |-> d.kind])]
       /\ it' = it + d.size
       /\ UNCHANGED stage
  /\ UNCHANGED <<binary, i, j, c, dylib, dice, again>>

EndSection ==
  /\ Parsing /\ it = Size(Sect)
  /\ j' = j + 1 /\ it' = 0
  /\ UNCHANGED <<binary, stage, i, c, resolvers, dice, held, built, again>>

(* EntryPoint::Parse1, and the end of every other Parse1.                  *)
EndParse1 ==
  /\ stage = "parse1" /\ i <= Len(binary) /\ j > Len(LC.sects)
  /\ IF LC.entryoff = 0 THEN UNCHANGED <<stage, held>>
     ELSE IF SectionOf(LC.entryoff) = {}
     THEN stage' = "error" /\ UNCHANGED held
     ELSE Hold(ToVmaddr(LC.entryoff), 0, 0) /\ UNCHANGED stage
  /\ i' = i + 1 /\ j' = 1
  /\ UNCHANGED <<binary, c, it, resolvers, dice, built, again>>

Parsed1 ==
  /\ stage = "parse1" /\ i > Len(binary)
  /\ stage' = "resolve"
  /\ UNCHANGED <<binary, i, j, c, it, resolvers, dice, held, built, again>>

-----------------------------------------------------------------------------
(* do_resolve: the offsets, then the addresses, in key order.  The         *)
(* callback of a rebase node turns the immediate it found into a pointer;  *)
(* data bytes have no pointee and stay as they are.                        *)
DrainOffset ==
  /\ stage = "resolve" /\ DOMAIN offset.todo # {}
  /\ offset' = DrainEntry(offset, First(DOMAIN offset.todo))
  /\ UNCHANGED <<binary, stage, i, j, c, it, vmaddr, dylib, dice, held, built, again>>

IsRebase(p) == Len(p) = 2 /\ binary[p[1]].calls[p[2]].op = "rebase"
CallbackOnce(a, v) ==   \* mutant
  /\ immediate' = IF immediate[a].pointee # Null \/ v = 0 THEN immediate
                  ELSE [immediate EXCEPT ![a].pointee = <<"placeholder", v>>]
  /\ Hold(v, 0, 0)
Callback(a, v) ==
  /\ immediate' = [immediate EXCEPT ![a].pointee = IF v = 0 THEN Null ELSE <<"placeholder", v>>]
  /\ Hold(v, 0, 0)

DrainVmaddr ==
  /\ stage = "resolve" /\ DOMAIN offset.todo = {} /\ DOMAIN vmaddr.todo # {}
  /\ LET key == First(DOMAIN vmaddr.todo) IN
       /\ vmaddr' = DrainEntry(vmaddr, key)
       /\ IF /\ key \in DOMAIN vmaddr.found /\ vmaddr.found[key][1] = "immediate"
             /\ \E p \in Waiting(vmaddr, key) : IsRebase(p)
          THEN Callback(key, immediate[key].value)
          ELSE UNCHANGED <<immediate, held>>
  /\ UNCHANGED <<binary, stage, i, j, c, it, offset, dylib, dice, content, again>>

Resolved ==
  /\ stage = "resolve" /\ DOMAIN offset.todo = {} /\ DOMAIN vmaddr.todo = {}
  /\ stage' = IF again THEN "parsed" ELSE "place"
  /\ i' = 1 /\ j' = 1 /\ it' = 1
  /\ UNCHANGED <<binary, c, resolvers, dice, held, built, again>>

-----------------------------------------------------------------------------
(* Parse2: each section takes the placeholders at its addresses, in order. *)
InSection == {p \in placeholders : Has(Sect.addr, Size(Sect), p)}
InsertAfter(s, n, e) == SubSeq(s, 1, n) \o <<e>> \o SubSeq(s, n + 1, Len(s))   \* mutant
InsertAt(s, n, e) == SubSeq(s, 1, n - 1) \o <<e>> \o SubSeq(s, n, Len(s))
Placeholder(p) == [addr |-> p, kind |-> "placeholder"]

(* lower_bound(content_it, content.end(), p): the first blob from here on  *)
(* whose address is not below p; Len + 1 is content.end().                 *)
LowerBound(s, from, p) ==
  First({n \in from..Len(s) : s[n].addr >= p} \cup {Len(s) + 1})

Placing == stage = "place" /\ i <= Len(binary) /\ j <= Len(LC.sects)

Place ==
  /\ Placing /\ InSection # {}
  /\ LET p == First(InSection)
         s == content[<<i, j>>]
         n == LowerBound(s, it, p) IN
     IF n > Len(s) THEN stage' = "error" /\ UNCHANGED <<it, held, content>>
     ELSE IF s[n].addr # p   (* the assertion that they are equal *)
     THEN stage' = "misplaced" /\ UNCHANGED <<it, held, content>>
     ELSE /\ content' = [content EXCEPT ![<<i, j>>] = InsertAt(s, n, Placeholder(p))]
          /\ owner' = [owner EXCEPT ![p] = <<i, j>>]
          /\ placeholders' = placeholders \ {p}
          /\ it' = n + 1   (* content_it stays on the blob *)
          /\ UNCHANGED stage
  /\ UNCHANGED <<binary, i, j, c, resolvers, dice, immediate, again>>

SectionPlaced ==
  /\ Placing /\ InSection = {}
  /\ j' = j + 1 /\ it' = 1
  /\ UNCHANGED <<binary, stage, i, c, resolvers, dice, held, built, again>>

CommandPlaced ==
  /\ stage = "place" /\ i <= Len(binary) /\ j > Len(LC.sects)
  /\ i' = i + 1 /\ j' = 1
  /\ UNCHANGED <<binary, stage, c, it, resolvers, dice, held, built, again>>

AllPlaced ==
  /\ stage = "place" /\ i > Len(binary)
  /\ stage' = "trail" /\ i' = 1
  /\ UNCHANGED <<binary, j, c, it, resolvers, dice, held, built, again>>

(* "remaining placeholder should go at end of sections": the constructor   *)
(* leaves their segment and section as they were made.                     *)
Trail ==
  /\ stage = "trail" /\ i <= Len(binary)
  /\ IF j > Len(LC.sects) THEN i' = i + 1 /\ j' = 1 /\ UNCHANGED <<placeholders, content>>
     ELSE LET end == Sect.addr + Size(Sect) IN
       /\ content' = IF end \in placeholders
                     THEN [content EXCEPT ![<<i, j>>] = Append(@, Placeholder(end))]
                     ELSE content
       /\ placeholders' = placeholders \ {end}
       /\ j' = j + 1 /\ UNCHANGED i
  /\ UNCHANGED <<binary, stage, c, it, resolvers, dice, owner, immediate, again>>

Finish ==
  /\ stage = "trail" /\ i > Len(binary)
  /\ IF placeholders # {}   (* "not all placeholders could be placed" *)
     THEN stage' = "error" /\ UNCHANGED again
     ELSE stage' = "resolve" /\ again' = TRUE
  /\ UNCHANGED <<binary, i, j, c, it, resolvers, dice, held, built>>

-----------------------------------------------------------------------------
Next ==
  \/ CallHold \/ CallExport \/ CallBind \/ CallRebase \/ CallDice \/ CallDylib \/ CallReloc
  \/ NextCommand \/ Constructed
  \/ ParseBlob \/ EndSection \/ EndParse1 \/ Parsed1
  \/ DrainOffset \/ DrainVmaddr \/ Resolved
  \/ Place \/ SectionPlaced \/ CommandPlaced \/ AllPlaced \/ Trail \/ Finish

(* One thread that waits for nothing runs until it stops.                  *)
Spec == Init /\ [][Next]_vars /\ WF_vars(Next)

-----------------------------------------------------------------------------
Done == {"parsed", "error", "clash", "misplaced"}

(* The list of a section is in address order whenever it is searched: the  *)
(* binary search of Parse2 (std::lower_bound) and every later find_blob    *)
(* rely on it, while placeholders go into the middle of it.                *)
Sorted ==
  \A s \in Sections : \A m, n \in DOMAIN content[s] :
    m < n => /\ content[s][m].addr <= content[s][n].addr
             /\ content[s][m].addr = content[s][n].addr => content[s][m].kind = "placeholder"

Starts(s) == {content[s][n].addr : n \in {m \in DOMAIN content[s] :
                                            content[s][m].kind # "placeholder"}}
Positions(p) ==
  UNION {{<<s, n>> : n \in {m \in DOMAIN content[s] : content[s][m] = Placeholder(p)}} :
         s \in Sections}

(* In an archive that parsed, every placeholder that a symbol, an export,  *)
(* a branch, a rebased immediate or the entry point holds is in exactly    *)
(* one section list, in front of the blob at its address or, if no blob    *)
(* starts there, last in a section that ends there.  If it is lost, the    *)
(* reference keeps the address of the old file; in the wrong place, it     *)
(* moves with the wrong code.  The lists are sorted all the time, and a    *)
(* placeholder in front of a blob has that blob's section for its own; one *)
(* at the end of a section keeps the section of whoever asked for it.      *)
Placed ==
  /\ Sorted
  /\ stage = "parsed" => \A p \in DOMAIN owner :
      /\ Cardinality(Positions(p)) = 1
      /\ \A s \in Sections : \A n \in DOMAIN content[s] : <<s, n>> \in Positions(p) =>
           IF n = Len(content[s])
           THEN /\ p = At(s).addr + Size(At(s))
                /\ \A t \in Sections : p \notin Starts(t)
           ELSE content[s][n + 1].addr = p /\ owner[p] = s

(* In an archive that parsed, a pointer that asked for an address or an    *)
(* offset was bound to the blob that starts there, and is null only if     *)
(* none does: no request was made, or answered, at the wrong time.  The    *)
(* file is read in an order in which most requests come before the blobs.  *)
(* A bind names the dylib of its ordinal, though dylib commands follow the *)
(* bind opcodes in the file.                                               *)
BoundToStart ==
  stage = "parsed" =>
    /\ DOMAIN vmaddr.todo = {} /\ DOMAIN offset.todo = {}
    /\ \A x \in DOMAIN binary : \A k \in DOMAIN binary[x].calls :
         LET call == binary[x].calls[k]
             named == {y \in DOMAIN binary : \E m \in DOMAIN binary[y].calls :
                                               binary[y].calls[m].op = "dylib"} IN
         /\ call.op = "bind" /\ call.n \in 1..Cardinality(named) =>
              /\ dylib.pointer[<<x, k>>] \in named
              /\ Cardinality({y \in named : y <= dylib.pointer[<<x, k>>]}) = call.n
         /\ call.op \in {"bind", "rebase"} =>
              /\ (vmaddr.pointer[<<x, k>>] # Null) <=> (call.at \in DOMAIN vmaddr.found)
              /\ vmaddr.pointer[<<x, k>>] # Null => vmaddr.pointer[<<x, k>>][2] = call.at
         /\ call.op = "dice" =>
              LET first == offset.pointer[<<x, k, "start">>]
                  last == offset.pointer[<<x, k, "end">>] IN
              /\ (first # Null) <=> (call.at \in DOMAIN offset.found)
              /\ (last # Null) <=> (call.at + call.n \in DOMAIN offset.found)
              /\ first # Null => \E s \in Sections :
                   first[2] - At(s).addr = call.at - At(s).offset

(* An immediate that a rebase node names points to the placeholder at its  *)
(* value, whatever the constructor of the immediate took it for.           *)
RebasedPoints ==
  stage = "parsed" => \A x \in DOMAIN binary : \A k \in DOMAIN binary[x].calls :
    LET call == binary[x].calls[k]
        target == vmaddr.pointer[<<x, k>>] IN
    call.op = "rebase" /\ target # Null /\ target[1] = "immediate" =>
      LET imm == immediate[call.at] IN
      IF imm.value = 0 THEN imm.pointee = Null
      ELSE imm.pointee = <<"placeholder", imm.value>> /\ Positions(imm.value) # {}

(* The assertion of Resolver::add: no key is given to two blobs.           *)
NoClash == stage # "clash"

(* The parse ends: do_resolve erases what it visits, found or not, and the *)
(* sections use up the placeholders.                                       *)
Ends == <>(stage \in Done)

=============================================================================
