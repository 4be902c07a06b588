------------------------------- MODULE Edits -------------------------------
(***************************************************************************)
(* The commands of macho-tool that edit an executable: modify, convert,    *)
(* noop and tweak.  A file knows segments, sections, libraries and         *)
(* strings by number.  Parsing turns the numbers into pointers, the edits  *)
(* work on those, and Build and Emit number the objects again as they then *)
(* stand.  The indirect symbol table keeps its numbers throughout.         *)
(***************************************************************************)
EXTENDS Lists

CONSTANTS
  Files,       \* the executables to start from
  Header,      \* the name __mh_execute_header
  Dylibs,      \* names of libraries that edits may use
  Suffix,      \* what strip-bind cuts out of names
  Rebinds,     \* pairs of a symbol and what to bind instead
  Droppable,   \* names of symbols that may be removed
  Removable,   \* names of segments that may be removed
  MaxCommands, \* bound on the load-command numbers that are asked for
  MaxRuns,     \* bound on the number of commands that are run
  MaxEdits     \* bound on the edits of all commands

VARIABLES
  file,    (* the file, in numbers                                         *)
  arch,    (* the Archive of the running command, in pointers, or NoArch   *)
  command, (* the command that runs                                        *)
  runs, edits,
  first    (* the file before the first command, for the properties        *)

vars == <<file, arch, command, runs, edits, first>>

NoArch == [closed |-> TRUE]
Kinds == <<"LOCAL", "EXT", "UNDEF">>

(* A section is known by its segment and its place there.                  *)
NoSect == <<0, 0>>

IsSegment(c) == c.cmd = "SEGMENT"
IsDylib(c) == c.cmd \in {"LOAD_DYLIB", "ID_DYLIB"}
Has(cmds, cmd) == \E k \in DOMAIN cmds : cmds[k].cmd = cmd

(* subcommands: those of a type, in the order of the load commands.        *)
OfTypes(cmds, types) == {k \in DOMAIN cmds : cmds[k].cmd \in types}
Segments(cmds) == Pick(cmds, OfTypes(cmds, {"SEGMENT"}))
LoadDylibs(cmds) == Pick(cmds, OfTypes(cmds, {"LOAD_DYLIB"}))

(* The sections of all segments, segment by segment.                       *)
Places(cmds) ==
  UNION {{<<k, n>> : n \in DOMAIN cmds[k].sects} : k \in OfTypes(cmds, {"SEGMENT"})}
UpTo(cmds, p) == {q \in Places(cmds) : q[1] < p[1] \/ (q[1] = p[1] /\ q[2] <= p[2])}
SectionAt(cmds, n) == CHOOSE p \in Places(cmds) : Cardinality(UpTo(cmds, p)) = n

(* The multiset of symbols: by kind, and as inserted within one kind.      *)
OfKind(syms, kind) == Pick(syms, {k \in DOMAIN syms : syms[k].kind = kind})
LaterFirst(syms, kind) ==
  LET s == OfKind(syms, kind) IN [k \in DOMAIN s |-> s[Len(s) + 1 - k]]
ByKindUnstable(syms) ==   \* mutant: before its equals
  LaterFirst(syms, Kinds[1]) \o LaterFirst(syms, Kinds[2]) \o LaterFirst(syms, Kinds[3])
ByKind(syms) == OfKind(syms, Kinds[1]) \o OfKind(syms, Kinds[2]) \o OfKind(syms, Kinds[3])

-----------------------------------------------------------------------------
(* The files that the commands are meant for: what a link editor writes.   *)
Name == Seq(STRING)
Types ==
  {"SEGMENT", "DYLD_INFO", "SYMTAB", "DYSYMTAB", "LOAD_DYLINKER", "UUID", "BUILD_VERSION",
   "SOURCE_VERSION", "MAIN", "LOAD_DYLIB", "ID_DYLIB", "DATA_IN_CODE", "FUNCTION_STARTS",
   "CODE_SIGNATURE"}
HeaderFlags == {"PIE", "NO_REEXPORTED_DYLIBS"}
File ==
  [cmds : Seq([cmd : Types, name : STRING, sects : Seq(STRING)]),
   binds : Seq([seg : Nat, off : Nat, ord : Nat, sym : Name, lazy : BOOLEAN]),
   syms : Seq([strx : Nat, kind : {"LOCAL", "EXT", "UNDEF"}, sect : Nat]),
   strs : Seq(Name), counts : [1..3 -> Nat], indirect : Seq(Nat),
   type : {"EXECUTE", "DYLIB"}, flags : SUBSET HeaderFlags]

(* Segments are known by their names, and so are libraries; there is one   *)
(* loader and one entry point.  Nothing is bound in the segments that are  *)
(* removed, and no section is in them.                                     *)
Once(cmds, S) == \A x, y \in S : cmds[x].name = cmds[y].name => x = y
Gone(c) == c.name \in Removable \cup {"PAGEZERO"}
Apart(cmds) ==
  /\ Once(cmds, OfTypes(cmds, {"SEGMENT"}))
  /\ Once(cmds, OfTypes(cmds, {"LOAD_DYLIB", "ID_DYLIB"}))
  /\ \A type \in {"LOAD_DYLINKER", "MAIN"} : \A x, y \in OfTypes(cmds, {type}) : x = y
  /\ \A k \in OfTypes(cmds, {"SEGMENT"}) : Gone(cmds[k]) => cmds[k].sects = <<>>

(* Every number has an object, and no place is bound twice.                *)
Numbered(f) ==
  /\ \A k \in DOMAIN f.binds :
       /\ f.binds[k].seg + 1 \in DOMAIN Segments(f.cmds)
       /\ ~Gone(Segments(f.cmds)[f.binds[k].seg + 1])
       /\ f.binds[k].ord \in DOMAIN LoadDylibs(f.cmds)
  /\ \A j, k \in DOMAIN f.binds :
       /\ f.binds[j].seg = f.binds[k].seg /\ f.binds[j].off = f.binds[k].off
       /\ f.binds[j].lazy = f.binds[k].lazy
       => j = k
  /\ \A k \in DOMAIN f.syms :
       /\ f.syms[k].strx \in DOMAIN f.strs
       /\ f.syms[k].sect \in 0..Cardinality(Places(f.cmds))

(* Local, defined and undefined symbols, as LC_DYSYMTAB counts them.       *)
Sorted(f) ==
  \A k \in DOMAIN f.syms :
    LET n == f.counts IN
    f.syms[k].kind = Kinds[IF k <= n[1] THEN 1 ELSE IF k <= n[1] + n[2] THEN 2 ELSE 3]

ASSUME FilesAssumption ==
  /\ Files \subseteq File
  /\ \A f \in Files :
       /\ Apart(f.cmds) /\ Numbered(f) /\ Sorted(f)
       /\ \A k \in DOMAIN f.indirect : f.indirect[k] \in DOMAIN f.syms
ASSUME NamesAssumption ==
  /\ Dylibs \subseteq STRING /\ Removable \subseteq STRING
  /\ \A r \in Rebinds : r[2] \in Name
ASSUME BoundsAssumption == MaxRuns \in Nat /\ MaxEdits \in Nat

-----------------------------------------------------------------------------
(* Parsing: the position of a command in the file names the object.        *)
Parse(f) ==
  LET cmds == [k \in DOMAIN f.cmds |->
                 [id |-> k, cmd |-> f.cmds[k].cmd, name |-> f.cmds[k].name, sects |-> f.cmds[k].sects]]
  IN [cmds |-> cmds,
      next |-> Len(cmds) + 1,
      binds |-> [k \in DOMAIN f.binds |->
        [seg |-> Segments(cmds)[f.binds[k].seg + 1].id, off |-> f.binds[k].off,
         dylib |-> LoadDylibs(cmds)[f.binds[k].ord].id,
         sym |-> f.binds[k].sym, lazy |-> f.binds[k].lazy]],
      syms |-> ByKind([k \in DOMAIN f.syms |->
        [name |-> f.strs[f.syms[k].strx], kind |-> f.syms[k].kind,
         sect |-> IF f.syms[k].sect = 0 THEN NoSect ELSE SectionAt(cmds, f.syms[k].sect)]]),
      strs |-> f.strs, counts |-> f.counts, indirect |-> f.indirect,
      type |-> f.type, flags |-> f.flags]

(* AssignID: a counter for segments from 0, one for libraries from 1, and  *)
(* one for sections from 1, each as far as the object stands in its list.  *)
Position(cmds, x) == CHOOSE k \in DOMAIN cmds : cmds[k].id = x
Number(cmds, x, types) == Rank(OfTypes(cmds, types), Position(cmds, x))
SegmentId(cmds, x) == Number(cmds, x, {"SEGMENT"}) - 1
DylibIdOfAll(cmds, x) ==   \* mutant: LC_ID_DYLIB counts too
  Number(cmds, x, {"LOAD_DYLIB", "ID_DYLIB"})
DylibId(cmds, x) == Number(cmds, x, {"LOAD_DYLIB"})
SectionId(cmds, s) ==
  IF s = NoSect THEN 0 ELSE Cardinality(UpTo(cmds, <<Position(cmds, s[1]), s[2]>>))

(* Dysymtab::Build_LINKEDIT counts the symbols of each kind.               *)
CountsAsRead(a) == a.counts   \* mutant
Counts(a) == [k \in 1..3 |-> Len(OfKind(a.syms, Kinds[k]))]

(* Build and Emit.                                                         *)
Written(a) ==
  [cmds |-> [k \in DOMAIN a.cmds |->
               [cmd |-> a.cmds[k].cmd, name |-> a.cmds[k].name, sects |-> a.cmds[k].sects]],
   binds |-> [k \in DOMAIN a.binds |->
     [seg |-> SegmentId(a.cmds, a.binds[k].seg), off |-> a.binds[k].off,
      ord |-> DylibId(a.cmds, a.binds[k].dylib),
      sym |-> a.binds[k].sym, lazy |-> a.binds[k].lazy]],
   syms |-> [k \in DOMAIN a.syms |->
     [strx |-> CHOOSE x \in DOMAIN a.strs : a.strs[x] = a.syms[k].name,
      kind |-> a.syms[k].kind, sect |-> SectionId(a.cmds, a.syms[k].sect)]],
   strs |-> a.strs, counts |-> Counts(a), indirect |-> a.indirect,
   type |-> a.type, flags |-> a.flags]

-----------------------------------------------------------------------------
Init ==
  /\ file \in Files
  /\ first = file
  /\ arch = NoArch /\ command = "none"
  /\ runs = 0 /\ edits = 0

Open(c) ==
  /\ command = "none" /\ runs < MaxRuns
  /\ arch' = Parse(file)
  /\ command' = c
  /\ runs' = runs + 1
  /\ UNCHANGED <<file, edits, first>>

(* work(): when all operations are done, Build and Emit.                   *)
Save ==
  /\ command \in {"modify", "converted"}
  /\ file' = Written(arch)
  /\ arch' = NoArch /\ command' = "none"
  /\ UNCHANGED <<runs, edits, first>>

(* An exception leaves work(): nothing is written.                         *)
Throw ==
  /\ arch' = NoArch /\ command' = "none"
  /\ UNCHANGED <<file, runs, first>>

Modify == command = "modify" /\ edits < MaxEdits /\ edits' = edits + 1

Change(a) ==
  /\ arch' = a
  /\ UNCHANGED <<file, command, runs, first>>

NewCommand(cmd, name) == [id |-> arch.next, cmd |-> cmd, name |-> name, sects |-> <<>>]
Unused(name) == \A k \in DOMAIN arch.cmds : arch.cmds[k].name # name

InsertLoadDylib(name) ==
  /\ Modify /\ Unused(name)
  /\ Change([arch EXCEPT !.cmds = Append(@, NewCommand("LOAD_DYLIB", name)), !.next = @ + 1])

(* load_commands.at(lc): the number counts all load commands from 0.       *)
UpdateLoadDylib(lc, name) ==
  /\ Modify /\ Unused(name)
  /\ lc + 1 \in DOMAIN arch.cmds /\ IsDylib(arch.cmds[lc + 1])
  /\ Change([arch EXCEPT !.cmds[lc + 1].name = name])

UpdateNoDylib(lc) ==
  /\ Modify
  /\ ~(lc + 1 \in DOMAIN arch.cmds /\ IsDylib(arch.cmds[lc + 1]))
  /\ Throw

(* BindInfo::find: the first node of the symbol, in one of the two tables. *)
Matches(sym, lazy) == {k \in DOMAIN arch.binds : arch.binds[k].sym = sym /\ arch.binds[k].lazy = lazy}
FirstMatch(sym, lazy) == Nth(Matches(sym, lazy), 1)

(* The ordinal is what translate said of the library's name.               *)
UpdateBind(old, new, lazy, ord) ==
  /\ Modify /\ Has(arch.cmds, "DYLD_INFO") /\ Matches(old, lazy) # {}
  /\ ord \in DOMAIN LoadDylibs(arch.cmds)
  /\ LET k == FirstMatch(old, lazy) IN
       Change([arch EXCEPT !.binds[k].dylib = LoadDylibs(arch.cmds)[ord].id, !.binds[k].sym = new])

UpdateNoBind(old, lazy) ==
  /\ Modify
  /\ ~Has(arch.cmds, "DYLD_INFO") \/ Matches(old, lazy) = {}
  /\ Throw

(* std::string::find and erase: the first occurrence, wherever it stands.  *)
Cut(name) ==
  LET at == {k \in DOMAIN name : name[k] = Suffix} IN
  IF at = {} THEN name ELSE Pick(name, DOMAIN name \ {Nth(at, 1)})

CutOff(b) == [b EXCEPT !.sym = Cut(@)]

StripBind ==
  /\ Modify /\ Has(arch.cmds, "DYLD_INFO")
  /\ Change([arch EXCEPT !.binds = [k \in DOMAIN @ |-> CutOff(@[k])]])

StripNoInfo == Modify /\ ~Has(arch.cmds, "DYLD_INFO") /\ Throw

(* Symtab::remove goes on from an iterator it has erased.  With one symbol *)
(* of the name the loop ends well or the program crashes.  The string goes *)
(* too, so that the strings behind it move.                                *)
Removed(a, name) ==
  [a EXCEPT !.syms = Pick(@, {k \in DOMAIN @ : @[k].name # name}),
            !.strs = Pick(@, {k \in DOMAIN @ : @[k] # name})]
Named(name) == {k \in DOMAIN arch.syms : arch.syms[k].name = name}

DeleteSymbol(name) ==
  /\ Modify /\ Has(arch.cmds, "SYMTAB")
  /\ \/ Change(Removed(arch, name))
     \/ Named(name) # {} /\ Throw

DeleteNoSymtab == Modify /\ ~Has(arch.cmds, "SYMTAB") /\ Throw

(* The first segment of the name; a warning if there is none.              *)
DeleteSegment(name) ==
  /\ Modify
  /\ LET at == {k \in DOMAIN arch.cmds : IsSegment(arch.cmds[k]) /\ arch.cmds[k].name = name} IN
       Change(IF at = {} THEN arch
              ELSE [arch EXCEPT !.cmds = Pick(@, DOMAIN @ \ {Nth(at, 1)})])

-----------------------------------------------------------------------------
(* A loop that erases and then advances does not look at the command after *)
(* one that it has removed.  (Erasing the last, it would pass the end.)    *)
Erase(cmds, matching) ==
  LET gone[k \in DOMAIN cmds] == k \in matching /\ (k = 1 \/ ~gone[k - 1])
  IN Pick(cmds, {k \in DOMAIN cmds : ~gone[k]})

RemoveCommands(cmds, cmd) == Erase(cmds, OfTypes(cmds, {cmd}))
RemoveOnePass(cmds) ==   \* mutant: one loop for both commands
  Erase(cmds, OfTypes(cmds, {"LOAD_DYLINKER", "MAIN"}))
RemoveIrrelevant(cmds) == RemoveCommands(RemoveCommands(cmds, "LOAD_DYLINKER"), "MAIN")
Pagezero(cmds) == {k \in DOMAIN cmds : IsSegment(cmds[k]) /\ cmds[k].name = "PAGEZERO"}
RemovePagezero(cmds) == Erase(cmds, Pagezero(cmds))

(* archive_EXECUTE_to_DYLIB.  LC_ID_DYLIB is the last command, so that no  *)
(* loop erases the last one.                                               *)
ConvertToDylib(name) ==
  /\ command = "convert" /\ Unused(name) /\ edits < MaxEdits /\ edits' = edits + 1
  /\ Has(arch.cmds, "SYMTAB")
  /\ \/ /\ arch' = [Removed(arch, Header) EXCEPT
              !.type = "DYLIB",
              !.cmds = RemoveIrrelevant(RemovePagezero(Append(@, NewCommand("ID_DYLIB", name)))),
              !.next = @ + 1,
              !.flags = (@ \cup {"NO_REEXPORTED_DYLIBS"}) \ {"PIE"}]
        /\ command' = "converted"
        /\ UNCHANGED <<file, runs, first>>
     \/ Named(Header) # {} /\ Throw

ConvertNoSymtab ==
  /\ command = "convert" /\ ~Has(arch.cmds, "SYMTAB")
  /\ UNCHANGED edits
  /\ Throw

(* tweak sets flags in the mapped file itself.                             *)
Tweak(flag, on) ==
  /\ command = "none" /\ runs < MaxRuns /\ runs' = runs + 1
  /\ file' = [file EXCEPT !.flags = IF on THEN @ \cup {flag} ELSE @ \ {flag}]
  /\ UNCHANGED <<arch, command, edits, first>>

Next ==
  \/ \E c \in {"modify", "convert"} : Open(c)
  \/ Save
  \/ \E n \in Dylibs : InsertLoadDylib(n) \/ ConvertToDylib(n)
  \/ \E n \in Dylibs, lc \in 0..MaxCommands : UpdateLoadDylib(lc, n)
  \/ \E lc \in 0..MaxCommands : UpdateNoDylib(lc)
  \/ \E r \in Rebinds, lazy \in BOOLEAN :
       UpdateNoBind(r[1], lazy) \/ \E ord \in 1..MaxCommands : UpdateBind(r[1], r[2], lazy, ord)
  \/ StripBind \/ StripNoInfo
  \/ \E n \in Droppable : DeleteSymbol(n)
  \/ DeleteNoSymtab
  \/ \E n \in Removable : DeleteSegment(n)
  \/ ConvertNoSymtab
  \/ \E f \in {"PIE"}, on \in BOOLEAN : Tweak(f, on)

Spec == Init /\ [][Next]_vars

-----------------------------------------------------------------------------
(* The meaning of a file and of an archive in memory.                      *)
BoundInFile(f, k) ==
  LET b == f.binds[k] IN
  [seg |-> Segments(f.cmds)[b.seg + 1].name, off |-> b.off,
   dylib |-> LoadDylibs(f.cmds)[b.ord].name, sym |-> b.sym, lazy |-> b.lazy]
SymbolInFile(f, k) ==
  LET s == f.syms[k]   p == SectionAt(f.cmds, s.sect) IN
  [name |-> f.strs[s.strx], kind |-> s.kind,
   sect |-> IF s.sect = 0 THEN <<>> ELSE <<f.cmds[p[1]].name, f.cmds[p[1]].sects[p[2]]>>]
CommandNames(cmds) == [k \in DOMAIN cmds |-> [cmd |-> cmds[k].cmd, name |-> cmds[k].name]]
MeaningOfFile(f) ==
  [cmds |-> CommandNames(f.cmds),
   binds |-> {BoundInFile(f, k) : k \in DOMAIN f.binds},
   syms |-> {SymbolInFile(f, k) : k \in DOMAIN f.syms},
   type |-> f.type, flags |-> f.flags]

Command(cmds, x) == cmds[Position(cmds, x)]
BoundInArch(cmds, b) ==
  [seg |-> Command(cmds, b.seg).name, off |-> b.off,
   dylib |-> Command(cmds, b.dylib).name, sym |-> b.sym, lazy |-> b.lazy]
SymbolInArch(cmds, s) ==
  LET c == Command(cmds, s.sect[1]) IN
  [name |-> s.name, kind |-> s.kind,
   sect |-> IF s.sect = NoSect THEN <<>> ELSE <<c.name, c.sects[s.sect[2]]>>]
MeaningOfArch(a) ==
  [cmds |-> CommandNames(a.cmds),
   binds |-> {BoundInArch(a.cmds, a.binds[k]) : k \in DOMAIN a.binds},
   syms |-> {SymbolInArch(a.cmds, a.syms[k]) : k \in DOMAIN a.syms},
   type |-> a.type, flags |-> a.flags]

B == INSTANCE Binary WITH
  Executables <- {MeaningOfFile(f) : f \in Files},
  Parts <- {Suffix}, Symbols <- Droppable \cup {r[2] : r \in Rebinds}, Flags <- {"PIE"},
  committed <- MeaningOfFile(file),
  draft <- IF command = "none" THEN NoArch ELSE MeaningOfArch(arch)

(* Every command does to the named meaning of the file exactly what it is  *)
(* asked for, however many commands edit the file one after another and    *)
(* number it again: a bind stays on its library when others are inserted   *)
(* or LC_ID_DYLIB comes in, a symbol in its section when __PAGEZERO goes.  *)
Implements == B!Spec

(* LC_DYSYMTAB says which range of the symbol table is local, defined and  *)
(* undefined; after any edits the symbols of each range are of its kind.   *)
Partition == Sorted(file)

(* An indirect symbol is a position in the symbol table, which Emit writes *)
(* as it was read.  It stays right only while no symbol before it goes:    *)
(* parsing and writing a file alone must not reorder symbols of a kind.    *)
NameAt(f, k) == f.strs[f.syms[k].strx]
Names(f) == {NameAt(f, k) : k \in DOMAIN f.syms}
IndirectFollows ==
  \A k \in DOMAIN file.indirect :
    (\A r \in 1..first.indirect[k] : NameAt(first, r) \in Names(file)) =>
      NameAt(file, file.indirect[k]) = NameAt(first, first.indirect[k])

(* Every number in a file has an object, and a command its archive.        *)
TypeOK ==
  /\ file \in File /\ Numbered(file)
  /\ (arch = NoArch) = (command = "none")
  /\ runs \in 0..MaxRuns /\ edits \in 0..MaxEdits
=============================================================================
