# A TLA+ verification of 86x64

86x64 takes a 32-bit (i386) Mach-O executable apart, turns every structure and
instruction of it into the 64-bit form, and writes a 64-bit executable again.
This directory holds TLA+ models of the parts of that program where order,
failure and arithmetic meet, TLC configurations that check them on small
instances, and proofs, checked by TLAPS, that hold for every instance.

`PROJECT.json` lists the components, runs, mutants, hazards and theorems and
maps each definition to the lines of source it stands for.

    tlc -config MCEmission.cfg MCEmission.tla  # a model-checking run
    tlapm EmissionProofs.tla                   # a proof

## The system

One process, one thread: `macho-tool` maps an input file, parses it into an
object graph, edits or transforms the graph, *builds* it (gives everything a
number and a place) and *emits* it into an output file that grows under the
writer. The driver script `86x64.sh` runs `macho-tool` a dozen times, with an
assembler and the linker between. The result runs with a small runtime: a stub
binder, ABI thunks and an interposed allocator, and there threads do exist.

| Component | State | Operations | Hard behaviour |
|---|---|---|---|
| Resolvers (`resolve.hh`, `parse.hh`, `transform.hh`) | `found`: key to object; `todo`: key to waiting pointers and callbacks | `add`, `resolve`, `do_resolve` | pointers asked for before or after their object exists; callbacks that add new objects during a drain |
| Archive parse (`archive.cc`, `segment.cc`, `section.cc`, `section_blob.cc`) | load commands, blobs of each section, placeholders, six resolvers | constructor: load commands, Parse1, drain, Parse2, trailing placeholders, drain | which of two drains answers what; placeholders inserted in a list that is searched at the same time |
| Build (`Archive::Build`, `build.cc`, `segment.cc`, `section.cc`) | the location (offset, address), counters for segments, sections, dylibs and lazy binds | AssignID and Build of every command, section, blob and table | the two halves of the location are moved by different rules |
| Emit (`Archive::Emit`) | the offset that is written next | Emit of every command, section, blob and opcode table | counts again what Build has counted, and does not read it |
| Bind, rebase and LEB128 (`dyldinfo.cc`, `rebase_info.cc`, `leb.c`) | list of nodes; registers of the opcode machine | decode, size, encode | registers that carry over; four-bit fields; inactive nodes |
| Export trie (`export_info.cc`, `trie.hh`) | trie of symbols | decode, size, encode | sizes that depend on the offsets they determine |
| Symbol tables (`symtab.cc`) | symbols, strings, indirect symbols | parse, remove, rename, build | indices into a list that is edited |
| Load commands (`lc.cc`, `macho.cc`) | one structure each | parse, build, emit, transform | raw copies into the image |
| Image (`image.cc`) | file, mapping, sizes | construct, `at`/`copy`/`memset`, `grow`, `resize`, destruct | three sizes kept in step over five system calls that can fail |
| Transform (`transform.cc`, `instruction.cc`) | map from old to new objects | Transform of every object | one old blob becomes several; who pointed to it gets the first |
| Instructions (`instruction.cc`, `stub_helper.cc`, `xed-util.cc`) | decoded instruction, immediate, displacement, target | parse, build, emit, transform | widened branches; addresses patched at emit |
| Fat archives (`fat.cc`) | list of archives | build, emit | offset and size from one variable |
| Rebasify (`rebasify.cc`) | worklist of addresses and register states | abstract interpretation, rewriting | termination; the list that is rewritten is walked |
| macho-tool commands | archive, image | modify, convert, translate, tweak, rebasify, print | lists erased while walked |
| ABI generator, printf conversion (`abiconv`) | types, register and stack cursors | layout, assembly text | alignment, register exhaustion |
| Runtime thunks (`*.asm`, `interpose.c`) | saved stack pointer, allocation cursor | bind a stub, allocate | global variables without locks |
| Driver (`86x64.sh`) | intermediate files | a dozen steps | steps whose failure is not tested |

The interactions: load commands and blobs call the resolvers while they are
constructed (`ParseEnv`, `TransformEnv`) and hand over the address of a member
that is to be set later; a callback of a resolver may create placeholders, which
call the resolvers again. Build numbers what Emit, the bind opcodes, the symbol
table and the stub helpers use as raw ordinals. Everything is written through
the image.

What makes each part correct:

- resolvers: no pointer is lost, none is bound twice or to the wrong object;
- parse: every pointer that can be bound is bound, to the object at its address
  as it will be laid out; section lists stay in address order; the parse ends;
- build: offset and address in step, segments disjoint, contents inside them,
  numbers equal to ranks;
- emit: every byte where Build said it would be, none overwritten;
- image: an array of bytes, whatever fails;
- opcode streams: what is written reads back as the same binds;
- edits: indices into lists stay right, or are recomputed;
- rebasify and printf conversion: they end, and what they compute covers every
  path;
- runtime: two threads, or a nested call, do not overwrite each other's state;
- driver: no step uses the result of a step that failed.

## Modules

    ResolverOps <--+-- Resolver <--- ResolverProofs
                   |       (Resolver implements Binding)
                   +-- Parse <------ ParseProofs ------+
                   |                                   +--> ResolverOpsProofs
                   +-- Transform <-- TransformProofs --+         |
                   +---------------------------------------------+

    Layout <--- Emission <--- EmissionProofs     Image <--- ImageProofs
                                                    (Image implements ByteArray)
    Lists <--+-- Edits <--- EditsProofs
             +-- Binary                          Rebasify <--- RebasifyProofs
                 (Edits implements Binary)
                                                 Opcodes <--- ExportTrie
                                                 AbiTypes <--- Thunk

An arrow leads to the module that is extended. `Binding`, `ByteArray` and `Binary`
are abstract specifications; the modules that implement them are shown to, by a
refinement mapping, in a run. `MCResolver`, `MCParse`, `MCEmission`, `MCImage`,
`MCOpcodes`, `MCRebasify`, `MCEdits`, `MCTransform` and `MCThunk` give the
constants values; `MCArchives` has the archives of `MCEmission`.

### Resolver, ResolverOps, Binding

`ResolverOps` has the resolver's maps as a record and `add`, `resolve` and
`do_resolve` as operators on it, so that `Resolver` (one resolver with arbitrary
callers), `Parse` (the resolvers of `ParseEnv`) and `Transform` (the one of
`TransformEnv`) share them. `resolve` stores nothing in a pointer that has to wait;
it is null because the constructor that hands it in has made it so (`Created`), and
`Ask` is the two of them together. `Resolver` covers
the lazy resolver and the eager one; `BeginDrain`, `DrainKey` and `EndDrain` are
one call of `do_resolve`, an iteration at a time, so that callbacks' `add` and
`resolve` come in between. `Binding` is what callers rely on: a pointer is free,
bound to the object of its key, or given up; a bound one stays as it is.

### Parse

The constructor of `Archive` from a file. The *file* is an initial state: a
sequence of kinds for the bytes of a text section, a data and a zero-filled
section, and one of a few combinations of commands that refer to addresses. An
*address* is a file offset plus ten; the zero-filled section has offset 0, as in
real files. The stages follow the constructor: the load commands (each of the
`Call...` operators is the constructor of one kind of command or node and what
it asks of `ParseEnv`), `ParseBlob` for Section::Parse1, `DrainOffset` and
`DrainVmaddr` for `do_resolve`, `Place` for Section::Parse2, `Trail` for the
placeholders left over, and a second drain. An instruction is its size, whether
it has a displacement or an immediate, and what that refers to; decoding belongs
to the xed library. An assertion that fails takes the model to the stage
`clash`, an exception to `error` and a placeholder in the middle of a blob to
`misplaced`. `immediate` has the value and the pointee of each `Immediate`, which
is what the callback of a rebase node reads and sets. The constructor of
`LazySymbolPointer` alone leaves its pointer as the memory was
(`section_blob.hh:97`); null stands for that, and no property reads it.

`BinariesAssumption` says what a file is: a list of commands, of which each names one
library at most (`OneDylib`: the constructor of a dylib command adds itself once), and
relocation entries that count from their section's start (`RelocInSection`: the
constructor adds `r_address` to both halves of the section's location).
`NullAssumption` keeps a null pointer apart from an object.

### Layout

The build pass: every loop of `Archive::Build` and of the Build functions it
calls, with an action for one iteration. `loc` is `BuildEnv::loc`. A blob is its
size before and after Build widens a branch, and whether it is active; an
opcode node is the blob it is about, its fixed bytes and whether it is active.
Link-edit tables belong to separate load commands in the code and to the
LINKEDIT command here, in the order in which they are allocated; a stub helper
is its two instructions. The archive is built at offset 0, as all callers do.
`EndLinkedit` keeps what the code does: the address is not advanced.

Two assumptions are named. `WellFormed` is what the link editor gives: load
commands in their order, one lazy bind table at most (an archive has one
LC_DYLD_INFO), opcodes of a byte or more that refer to blobs of segments before
`__LINKEDIT`. `AlignsAssumption`: a section's alignment divides the page size. The code
enforces neither; without the second, `InStep` is false.

### Emission

Emit after Build: `pos` is the offset of the next load command and `cur` that of
the next blob or opcode, the local variables with which the Emit functions
count. `written` is the list of byte ranges written, with what each is for.

### Image, ByteArray

The growing file: the sizes of the file, of the mapping and the one that is
reported, the mapping, the descriptor, and the bytes stored. Each system call is
an action, with the assignments between it and the next; `CallFails` is a system
call that fails (the fields stay as the statements before it have left them),
`Killed` the end of the process at any point. `Destroy` and `DestroyUncut` are
the destructor with an ftruncate that works or does not; after an exception that
nobody catches it depends on the compiler whether it runs, so both are possible.
`RawCopy` is the memcpy of a name through a pointer to its first byte: it relies
on the file being long enough already, which `WrittenIsMapped` of `Emission`
checks of the callers. `ByteArray` is the abstraction: bytes stored and a length, of which
nothing is lost until the result is cut to the length.

### Opcodes

The bind, lazy bind and rebase tables. Such a table is a program for a machine
of dyld with a few registers; linkers write whichever opcodes are short, the
Emit functions write each node in one way. The behaviour goes around: a linker's
table (a `CONSTANT`) is read, an action for each opcode; some nodes are
deactivated and the segments move; the table is sized, numbered, allocated and
written; and what was written is read again. A byte is an opcode and an
immediate, a LEB128 digit, or a symbol that stands for a name. `Dyld` is what
dyld makes of a linker's table; it is written from the meaning of the opcodes in
`mach-o/loader.h` and is not code of this repository.

### ExportTrie

The fourth table of LC_DYLD_INFO, as an extension of `Opcodes`: `DyldInfoSpec`
picks a table of any of the four kinds and, for a trie, goes through the same
circle of parse, build, emit and parse. `trie` is the set of the nodes' names
with their exports; `frames` has the calls of `ParseNode` and `EmitNode`, which
call themselves, one entry for each, so that a step is one iteration of the loop
over a node's edges. The order of a hash table's elements is not determined:
`EmitEdge` takes any child that is left. The size of an export precedes it:
`EmitInfo` writes it twice, as the code does.

### Rebasify

The analysis that finds where position-independent i386 code computes addresses,
and the instructions it inserts there. `states` is the worklist and `visited`
the states in which each address was met; an action is one iteration of
`handle_insts`, with the rule of `handle_inst` or `handle_inst_thunk` that
applies, in the code's order of precedence. `content` is the list that is walked
and inserted into at the same time; a position in it is an element, as an
iterator of a list is. An instruction is what `decode_info` keeps of it.
`ProgramsAssumption` says of a program that its section is not empty and that a
branch leads into the section or has the target 0.

When the worklist is empty the program is run by a small i386 processor (it is
external: registers, two frame slots, the top of the stack): the instructions as
they were read in `old`, the rewritten content in `new`, side by side. So what
the analysis claims is compared to what the code does, and not to the analysis.

### Edits, Binary, Lists

The commands that edit a file and write it again: modify with its operations,
convert, noop (a modify without operations) and tweak. `file` knows everything
by number, as a Mach-O file does: segments and libraries by rank, sections by
rank among all, symbols by position, strings by position. `Lists` has what both
modules need for that: the rank of a position among those of a kind (`Rank`), the
position of a rank (`Nth`) and the list of what stands at some positions (`Pick`);
the counters of `BuildEnv`, which go up by one from object to object, give ranks.
`Parse` makes pointers
(here, identities) of the numbers and `Written` makes numbers again, which is what
the constructor of `Archive`, `AssignID`, Build and Emit do to them. Each operation
is an action on the archive in memory; an exception is `Throw`. Erasing is
modelled as it is coded, with the loop that skips the element after an erased one
(`Erase`). `Binary` is what a user expects: commands, binds and symbols known by
name, on which each operation does one thing. The refinement maps a file to its
meaning, and the archive of a running command to the draft.

`FilesAssumption` says which files the commands are meant for. Names tell segments
apart, and libraries; there is at most one `LC_LOAD_DYLINKER` and one `LC_MAIN` (of
two in a row, convert would skip one); nothing is in the segments that are removed
(`Apart`). Every number in the file has an object, and no place is bound twice in
one table (`Numbered`). The symbols are sorted by kind and counted, as
`LC_DYSYMTAB` requires (`Sorted`).

### Transform

`macho-tool transform`: an i386 archive becomes an x86-64 one, blob by blob.
`TransformBlob` is an iteration of the constructor of `Section` for the opposite
bits; `Transformed` has the rules of `Instruction::Transform`. Pointers are resolved
by an eager resolver (`ResolverOps`), with the keys that the code uses: blobs,
bind nodes, immediates. The constructor of `DyldInfo` comes last: an iteration over
the rebase nodes is `TransformRebase`, one over the lazy bind nodes `TransformBind`.
`StartBoth` is the end of the command: both archives are built.
`ProgramsAssumption` says what parsing has made sure of: references name blobs and
nodes of the same archive. `TransformThrows` ends a transformation that the code
refuses: by an exception, or, for a call through memory, by an assertion (Findings).

Then both programs run, in turn, on two small machines (external: registers, a
stack of half-words, words of data, a zero flag, dyld's binder): the old one to
the next instruction of `__text` or `__symbol_stub`, the new one to what that
instruction became. An address is a value of its own, and two addresses are the
same if they name the same blob of the old archive. `Sound` stops a comparison where
the old program does something undefined or has filled its stack.

`CompiledAssumption` says what compilers and linkers make of a program, as far as a
proof about running it needs: data lies behind code, `__text` and the stubs go on to
what has a place, the stack pointer is an operand only as a base register, a stub
jumps through a pointer, a helper goes to the one header, which jumps to the binder.
`StackAssumption` gives the stack room for a helper's pushes. `Proper` is what an
instruction of such a program does when it runs: a base register that holds an address
holds one of data, the pointer to the binder is not overwritten, a jump through
memory reads a relocated pointer or a word with zero behind it, and control goes to
an instruction, a stub or, from a stub, to its helper.

### AbiTypes, Thunk

The ABI conversion library. `AbiTypes` has the sizes and alignments that the
generator computes of C types. In `Thunk`, the generator is a set of operators
whose values are instructions: `Convert` and what it uses are the classes of
`typeconv.cc`, `Conversions`, `Prologue` and `Epilogue` those of `abigen.cc`. The
specification picks a function type and an entry (directly, or through the stub
helper and `dyld_stub_binder`) and executes the thunk on a machine of
registers and bytes, an action for each kind of instruction. Each byte carries
its origin, so that a property can say whose byte arrived where. The function
that is called (`CallFunction`) writes behind any of its pointers, spoils what
the convention lets it spoil, and returns. `TrueSize`, `TrueAlign`, `Leaves`,
`Passed` are both calling conventions; they are written from the conventions
and not from this code.

## Runs

| Run | States | Property | What it shows |
|---|---|---|---|
| resolver | 7,417 | `Accounted` | a pointer is bound, waits under its own key, or was given up by a `do_resolve` that did not know the key |
| | | `Prompt` | an eager resolver has bound each pointer whose object was added |
| | | `Implements` | it implements `Binding` |
| parse | 11,316 | `Placed` | a finished parse has put every placeholder in one section list, before the blob at its address, and the lists are in address order |
| | | `BoundToStart` | a pointer is bound if, and only if, a blob was registered at its address, and then to that blob |
| | | `RebasedPoints` | a rebased word points at a placeholder of its value, not at itself |
| | | `Ends` | the parse ends: finished, or at an error, an assertion or a misplaced placeholder |
| parse_zerofill | | `NoClash` | *violated*: see Findings |
| emission | 9,090 | `InStep` | a blob is as far from its segment's start in the file as in memory |
| | | `PageAligned` | the assertion at the head of `Segment::Build` |
| | | `SegmentsHold` | segments do not overlap and hold what was put in them |
| | | `NumbersAreRanks` | segment, section and dylib numbers are those that dyld counts |
| | | `LoadedWhereAddressed` | a blob is loaded where its pointers point |
| | | `OpcodesWhereCounted` | opcodes have the size they were counted with, and a stub helper's number is the place of its opcodes |
| | | `NothingLost` | no byte is written twice, but for a DONE byte of a table without active nodes, which the next write covers |
| | | `WrittenIsMapped` | writes are inside the segment; raw copies are inside the file |
| | | `EventuallyEmitted` | both passes end, and all active blobs are written |
| image | 115,408 | `NoFault` | no store outside the mapping or past the end of the file |
| | | `Implements` | it implements `ByteArray` whatever fails |
| opcodes | 294,076 | `EndIsMet` | the constructors meet the end of the table exactly, of a linker's and of one that Emit wrote, padding included |
| | | `ReadAsLinked` | they make of a linker's table what dyld makes of it |
| | | `ReadsBack` | what Emit writes of the active nodes reads back as those nodes, at the indices that the stub helpers push |
| | | `ExportsKept` | the trie's exports are the linker's, and after Emit and another parse the same, at the blobs' new places |
| | | `ExportsFit` | the trie does not outgrow the bytes counted for it |
| opcodes_skipping | | `SkipsAsLinked` | *violated*: see Findings |
| edits | 12,989 | `Partition` | the ranges that LC_DYSYMTAB gives for local, defined and undefined symbols have symbols of that kind |
| | | `IndirectFollows` | an indirect symbol keeps its name while no symbol before it is removed |
| | | `Implements` | each command does to the named content of the file what it was asked for, and nothing when it fails |
| transform | 141,795 | `PointersToFirst` | no pointer of the new archive is unbound, and each leads to the first of the blobs that the old one became; stub helpers have their bind nodes, and rebase nodes are kept for the words with an address and no others |
| | | `SameEffect` | instruction for instruction the new program does what the old one did |
| rebasify | 191,045 | `NothingSkipped` | every instruction has been looked at when the worklist is empty |
| | | `SameOperands` | on every path, an instruction works on the addresses it worked on before the rewriting |
| | | `Terminates` | the worklist becomes empty, or rebasify aborts or throws |
| rebasify_destroyed | | `DestroyedIsForgotten` | *violated*: see Findings |
| thunk | 49,294 | `ArgumentsArrive` | the function finds each argument where its convention has it, with the caller's value, and behind a pointer a converted copy |
| | | `ResultsReturn` | what it writes behind pointers is back behind the caller's |
| | | `CallerPreserved` | stack, return address, saved registers and the rest of the memory are the caller's, entered directly or through the binder |

Where other modules rely on a state's shape there is a type invariant besides
(`TypeOK`). Each property of a passing run has a mutant: a definition changed the
way a bug would change it, written next to the original and marked `mutant`, that
violates the property.

### Bounds

- resolver: two keys, two objects, three pointers, lazy and eager. Two pointers
  can wait under one key while a third waits under the other; two keys are
  needed for a mixed drain.
- parse: a text section of four bytes, a data section of two, a zero-filled one
  of one, eight combinations of referring commands. That suffices for an
  instruction of two bytes after one of one byte, references to a start, to the
  middle of a blob, to the end of a section and to nowhere, and for placeholders
  that a callback makes. 322 files parse to the end; the others stop at an error.
- emission: pages of 8 bytes, pointers of 4, header of 3, commands of
  1 to 3 bytes, at most 3 sections, alignments 1, 2, 4 and 8, LEB128 digits to
  the base 4. Alignments up to a page occur, segments of more than a page,
  LEB128 numbers of more than a byte, a fourth section, inactive blobs and nodes,
  widened branches, and empty segments.
- opcodes: immediates below 4, LEB128 digits to the base 8, words modulo 128,
  pointers of 4 bytes, two segments of 16 bytes in two placements. A bind table
  has a head that sets its registers and up to three opcodes, a lazy table up to
  three groups, a rebase table a head and up to three opcodes. That suffices for
  registers that carry over between two opcodes, addresses that wrap around,
  addresses outside every segment, offsets of two digits, indices after an
  inactive node, and each opcode. Not included: more segments or dylibs than
  four bits can name (Emit writes the number into the immediate unchecked),
  addends of more than one digit (`leb.c:122`), and, in `ReadAsLinked`,
  `SET_DYLIB_ORDINAL_ULEB`, whose number the code reads and does not use
  (`dyldinfo.cc:90-94`).
- export trie, in the same run: names of up to four characters of three, a node
  with three children or a chain with a fork, in an order of the file that is
  not the trie's, exports of all kinds at each place, 432 tries and the empty one.
  A counted size of two digits and a written one of one digit occurs, which moves
  what follows; names that others begin with; each order of the children.
- edits: four executables (with and without `__PAGEZERO`, LC_DYLD_INFO and
  LC_SYMTAB; the two commands that convert removes side by side and apart), two
  commands in a row of any kind, three edits in all. Taken are edits that the
  driver makes: a segment that is deleted has nothing that refers to it, ordinals
  given to update are those of libraries there are, a symbol that is removed
  occurs once.
- transform: 4,004 programs: two instructions that set something up, or one, then
  others of 22 and four that are refused, a function, a lazily bound stub,
  its helper and data of each kind; numbers modulo 4, 16 words of stack. It
  suffices for calls direct, through a register, through the stub before and after
  it is bound, for jumps through memory, for pointers to data and code in either
  order, flags that live across a push, pop or call, and tail jumps. A program is
  compared as long as the i386 one does nothing undefined.
- thunk: functions of one or two parameters of 13 types, five integers or seven
  doubles before them, so that both kinds of registers run out, three pointers;
  pointees are numbers, structures with padding that differs between the two
  architectures, nested ones and one with an array. Every subset of the pointees
  is written by the function. The stack pointer at the call is 12 modulo 16, as
  i386 compilers leave it after pushing the return address.
- rebasify: a thunk and three instructions of eighteen, or four of seven,
  then a return; or two, an epilogue with a return, a tail jump or an indirect
  jump, and a second function: 9,000 programs with loops, branches over
  instructions and into them, copies, a spill and its loss, reloads, calls.
  Taken are the programs of compilers (`WellFormed`): a base register holds one
  thing wherever an instruction is reached, and the thunk's address is spilled
  to one slot; in them a followed register is overwritten by mov, lea, xor or a
  call. The analysis is wrong for others: two spills or two thunks on a path
  (there is one slot and one address for all registers), a live register stored
  to memory other than the frame (the source counts as destroyed), an
  instruction between the call and the pop (the address is taken to be the
  pop's). Three more programs lead to the missing DyldInfo, the exception and
  the abort.
- image: pages of 4 bytes, accesses at 0, 3 and 9 of none to two bytes, files of
  0 and 5 bytes. The file is doubled twice, cut between the two and grown without
  a new mapping. Two byte values tell a lost byte from an old one.

The build, emit, parse and transform passes and the thunk are deterministic; the
choice is in the input. The resolver, the image and the commands have callers
that may do anything in any order.

Deadlock is not an error in these runs: a parse, a build, a table, a program and
an image come to an end, and the bounded sets of objects and edits are used up.

### Fairness

`Ends` and `EventuallyEmitted` assume weak fairness of the whole next-state
relation, `Terminates` of the analysis's. One thread runs these passes, and they
take no lock and wait for nothing, so that a step that is possible is taken. No
other property needs it.

### Findings

- Two zero-filled sections, both with file offset 0, register their blobs under
  the same offsets, and the assertion in `Resolver::add` fails
  (`resolve.hh:42`, `section_blob.cc:29`). Run `parse_zerofill`.
- `BIND_OPCODE_DO_BIND_ULEB_TIMES_SKIPPING_ULEB` passes the number of bytes to
  skip for `do_bind_times`'s parameter `index` and leaves `skipping` at its
  default, zero (`dyldinfo.cc:141`), so that the binds after the first are at
  other addresses than the linker's. Run `opcodes_skipping`.
- `rebasify.cc:380-397`, "check if eax is destroyed", knows of MOV, XOR and LEA
  only: a register that movzx, add or pop overwrites is still taken to hold the
  thunk's address, and its next use is rewritten. Run `rebasify_destroyed`.
- `instruction.cc:363` asserts of a call through memory, `ff /2`, that two bits of its
  second byte are those of `/4`, which is the jump it is about to be made: the
  assertion fails for each such call, and the transformation aborts. The build
  does not define NDEBUG. In `Transform` the operation is `callm`, one of those that
  `Throws` refuses; no run is about it, since one call shows it.

## Proofs

Each theorem is about the specification a run checks, for all constants that
satisfy the named assumptions. `EmissionProofs` is first about `Layout`'s `Spec`, the
build pass alone, then about `ESpec`, the build pass followed by the emit pass, which
is what the run `emission` checks, and carries the theorems about Build over to it
(those whose names end in `InBoth`). `ResolverOpsProofs` has lemmas only,
about `add`, `resolve` and an iteration of `do_resolve`, eager and lazy, for any
number of pointers and callers; `TransformProofs` and `ParseProofs` rest on them.

| Module | Theorems | Inductive invariant |
|---|---|---|
| `EmissionProofs`, Build | `TypeCorrect`, `OffsetsInStep`, `SegmentsStartOnPages`, `SegmentsHoldTheirOwn`, `NumbersAreTheRanks` | `IInv`: inside a segment `loc` and the section's start are in step with the segment's start, which is on a page in the file and in memory; every placed blob and section belongs to a segment already begun, whose start no later step changes; the address is on a page between commands. `HInv`: `loc` is behind every segment built, what a segment has placed so far ends at `loc`. `RInv`: each counter is the number of things of its kind before the loops' indices. `PInv`: every section, blob and table whose turn has come is in one place, the blobs of a section one after another, a table as long as the opcodes counted, the load commands as long as `sizeofcmds` |
| `EmissionProofs`, Build and Emit | `BlobsAreWhereAddressed`, `OpcodesAreWhereCounted`, `NoWriteIsLost`, `WritesAreMapped` | `EInv`: while Emit runs, what Build has placed stays, the cursor is where Build put what is next, and everything written was placed there and ends before the cursor |
| `RebasifyProofs` | `TypeCorrect`, `EveryInstructionIsVisited` | `Inv`: the list has every instruction once, behind its placeholder and the movs inserted for it, addresses rising (`Listing`); an address that follows a visited one was visited or is on the worklist (`Covered`) |
| `TransformProofs` | `TransformedPointersToFirst`, `TransformedSameEffect` | `TInv`: for some function from pointers to the keys they were asked with, a pointer is bound to what was found for its key or waits for it (`Serves`); the keys are what the new blobs and nodes say (`Linked`); what was found for a blob is the place from which those made of it follow one another (`Made`). `BInv`: where the blobs made of each begin, one after the other. `SInv`, while the programs run: the machines agree when both wait (`Agree`), or the new one gets to where they agree (`Arrives`), or the old one gets in a few steps to where the new one can follow (`Late`) |
| `ParseProofs` | `PlaceholdersPlaced`, `PointersBoundToStart`, `RebasedImmediatesPoint` | `Inv`, six parts: `TInv` types; `CInv` the lists are sorted and within their sections, and each placeholder made is in the map or where it has to stand in one list; `VInv`, `OInv` for some function from pointers to the keys they were asked with, each waits in the lazy resolver by address or offset, is bound to what was found for its key, or was given up; `DInv` a dylib's number is its rank; `RInv` a rebase that does not wait has called back |
| `EditsProofs` | `EditsTypes`, `SymbolsPartitioned`, `IndirectsFollow`, `EditsImplement` | `Inv`, of the file (`FInv`) and of the running command's archive (`AInv`): names keep segments and libraries apart, every number has an object, every pointer of a bind or a symbol an object that is still in the archive, symbols are sorted and named by strings there are; and the symbols left are the first file's, in its order (`Follows`) |
| `ResolverProofs` | `TypeCorrect`, `NoPointerLost`, `EagerIsPrompt`, `ResolverImplements` | a pointer waits under at most one key, its own, and only while it is not bound; a known key of an eager resolver has no waiters |
| `ImageProofs` | `TypeCorrect`, `StoresDoNotFault`, `ImageImplements` | which of the three sizes agree at each stage: the file has at least the reported size except while `extend` is due, and the mapping at least the reported size except until it is mapped again |

`InStep` alone is not inductive: it says nothing of `loc`, from which the next
blob takes its place. The strengthened invariant says how `loc` relates to the
current segment's start, and at the end of a segment that both are on a page,
which gives `PageAligned`. `AlignsAssumption` enters where a section is aligned: rounding
up two numbers that differ by a multiple of the page size to a divisor of the
page size adds the same to both.

`SegmentsHold` speaks of segments that are built, and the next one starts at
`loc`: the invariant says that all of them end there or before (`Between`). There are two
exceptions, which the proof has to name. `__PAGEZERO` takes no bytes of the file, so
that `__TEXT` may start on the page below the place reached. `__LINKEDIT` leaves
the address at its own start, and nothing overlaps only because no segment
follows it.

Build and Emit each count bytes, and the emit pass reads nothing of what the
first has counted but the addresses of opcodes' targets. That their counts agree
is what the second half of `EmissionProofs` is about. Both sum the sizes of blobs,
commands and opcodes. A recursive sum is out of the provers' reach, so that `PInv` and
`EInv` have
partial sums: a function whose value at n is its value at n - 1 and the n-th size,
which exists because every step of the loop extends it by one. `Follows` says where
the next blob begins, so that the emit pass's cursor, which starts at the section's
offset, meets each blob. Opcodes are sized by file offset and written by address:
they are as long as counted because `InStep` holds for the blob that they name
and its segment was laid out before `__LINKEDIT`. `NothingLost` follows from the order of
what is written: commands below every section, sections in file order, tables behind them.

Two conjuncts of `WellFormed` were found by these proofs. With a second lazy table
the numbers of one table's symbols would run on in the other, and an opcode of no
bytes would begin where the next one does, so that a lazy symbol's number would not
tell which. No file has either.

`NothingSkipped` of `Rebasify` is about the end of the analysis, and the invariant
is about the way there. `Covered` needs to know what `After` gives, and that needs
`Listing`, which each insertion has to preserve: behind an instruction is something at
the next address, behind a placeholder or a mov something at the same one. At the
end, with nobody on the way, the least address that was not visited would follow a
visited one. `TypeOK` needs that whoever follows a register has met a pop, and that
the address which is added behind it is the pop's (`Good`).

`PointersToFirst` speaks of the end of the transformation, and the keys are
forgotten by then: the resolver has thrown away the lists of those who waited. The
invariant keeps them, as the function that `Serves` and `Linked` share. The lemmas
`AskServes` and `AddServes` say that `resolve` extends this function by one
pointer and that `add` leaves it alone, whether the key is known or not; they hold
of any eager resolver. `Shape` says of all rules of `Instruction::Transform` that at
most one of the new instructions points, and to what the old one pointed to. At the
end every key has been found, so that nobody waits. `NullAssumption` keeps the
null that an immediate leaves behind apart from a blob.

`SameEffect` is proved of `Spec /\ [][Ordinary]_vars`: each instruction of `__text` and
of the stubs that the old program runs is `Proper`. Without that it is false: a jump
through `[ecx]` is copied and reads eight bytes where the old program read four, and code read as
data is not what it was. TLC finds `[][Ordinary]_vars` true of all programs of the run
`transform`, on each of its 141,795 states, so that the theorem covers what the run
compares. The proof runs the two programs side by side. `Agree` is `SameEffect` made
inductive: all half-words from the stack pointer up and not only the words, in pairs of
values that are the old and the new address of the same blob (`SameValue`), and the
pointer to the binder untouched. Per instruction, `FollowsAll` says that the new
program gets to a machine that agrees with the old one's next, in at most five steps
(`Reaches`) none of which stops at a place that is compared (`NotYet`); the lemmas
`Follows...` are one rule of `Instruction::Transform` each, and rest on where the
blobs of the list are (`BlockIs`), on what is behind and ahead of them
(`PlaceBehind`, `AheadIs`), and on what two pushes of `ax` and a store leave on the
stack, which is what a push of four bytes leaves (`PushInHalves`). A stub helper
agrees with nothing until the binder has run: one program has pushed two words of four
bytes, the other two of eight, and `HelperLate` follows both, four steps and five, to
where the binder takes them off again and writes the same pointer (`BindsAlike`).
Who is ahead changes from step to step. `Arrives` and `Late` say of each what is left
to do, so that every step of the one whose turn it is takes one off.

The properties of `Parse` speak of an archive that has parsed, at which time the
commands that made the references are long done. As for `Transform`, the
invariant keeps what the resolvers forget, but its resolvers are lazy: a pointer whose
key has been found may still wait, until a drain has met the key, and a drain gives up
those whose key it does not know. `Awaits` says which of the three holds of each, and
whether giving up is possible yet. The lists are the other half. `Place` inserts into
the list that it searches; that the list stays sorted (`Sorted`, `Within`) and that a
placeholder stands before the blob at its address and nothing else (`StandsAt`) is
kept by an insertion behind it, before it and into another section. `Swept` says which
sections have no more placeholders to wait for. The two halves meet in the callback
of a rebase node, which runs inside a drain and makes a placeholder: it is one
more in the map of `CInv`, before the sweep that places it. In the second drain the map
is empty and stays so, because after the first nobody waits for an address any more
(`VInv`); so no placeholder is left at the end.

`Implements` of `Edits` compares two ways to know a thing, by number in the file and
by identity in memory, with its name, and each step of the proof is about one of
three facts. What `Parse` makes of a number, `Written` numbers again in the same way,
so that both keep the meaning: the rank of the n-th of a kind is n (`Rank` and `Nth`
are inverse, proved by the pigeonhole principle and not by induction, so that no list
has to be walked). An edit leaves the identities of what it does not touch, and the
invariant says that those it removes are not pointed to. And names tell apart what
identities tell apart (`Apart`), without which renaming one library by its place
and all binds of it by name were not the same; edits preserve it because a new
name must be unused. `IndirectFollows` looks back to the first file. Every command
keeps the order of its symbols, since the stable sort by kind finds them sorted, and
an index is right as long as what stood before it is still there.

`NoFault` alone says nothing of the state from which the next access comes. The
invariant adds that a ready image has a file as long as it reports and a mapping
at least that long, and what each call in `resize` leaves to the next.

The refinements are proved by the same invariants, step by step: each action of
`Resolver` is one of `Binding` or leaves it alone, each action of `Image` one of
`ByteArray` or a stutter, each action of `Edits` one of `Binary` or a stutter.

Induction over data: the library's induction theorems take an operator as a
parameter, which none of the installed provers can instantiate. What can be used is
that a non-empty set of numbers has a least element (`LeastNatural` in
`RebasifyProofs`), with the set of counterexamples for it; that the sequence which
`FlattenSeq` makes of a program lists its instructions (`InitListing`) is proved so.

Only model-checked:

- the three liveness properties, `Ends`, `EventuallyEmitted` and `Terminates`: the
  prover does not reason about fairness and ENABLED;
- `SameOperands` of `Rebasify`, which compares two runs of a program that the
  analysis saw once, and holds of the programs of compilers that the run lists;
- `Opcodes` and `ExportTrie`: what a table reads back as is defined by folds over the
  bytes of LEB128 numbers and over nodes, so that a proof is an induction over data;
- `AbiTypes` and `Thunk` declare recursive operators, since types are trees.

## Where the properties stop

Each model takes the inputs for which the program is meant. What is outside, and
what the code does there:

- *parse*: a placeholder at the end of a section keeps the segment and section of
  whoever asked for it, or null (`archive.cc:53`), though `section_blob.hh:18-19`
  calls them the containing ones.
- *opcodes*: `SET_DYLIB_ORDINAL_IMM` and segment numbers are or-ed into four bits
  unchecked (`dyldinfo.cc:297`); addends are encoded by a signed encoder that
  misplaces its digits (`leb.c:122`) and decoded unsigned. Some encoders run
  inside `assert` (`leb.hh`), so that a build with NDEBUG writes nothing there.
- *export trie*: offsets of stubs and resolvers are written as they were read
  though the code has moved (`export_info.cc:229`); values are taken for file
  offsets, while dyld takes them relative to the image, which is the same as long
  as `__TEXT` is mapped from offset 0.
- *edits*: removing a symbol that occurs twice increments an erased iterator
  (`symtab.cc:240-244`); an ordinal out of range is undefined behaviour
  (`modify-update.cc:176`); convert's removal of an external symbol leaves the
  indirect indices of undefined ones behind by one (`IndirectFollows` excludes it);
  the base address that convert sets (`convert.cc:99`) is not in the file, and the
  next command starts from the default again; a command that throws leaves an
  empty output file.
- *transform*: `push esp` and `pop esp` store or load after the stack pointer has
  moved; every call through memory aborts (`instruction.cc:363`); jumps through
  memory are copied and read eight bytes of a table of four-byte words, which is
  right where the upper word happens to be zero (`ReadWide`); `leave`, `ret n` and
  `pop` to memory are copied unchanged; `loop` and `jecxz` cannot be widened and
  abort at Build; a push of an address outside of stubs and helpers throws.
  `macho-tool transform -m 64` falls through to an exception
  (`macho-tool/transform.cc:17-20`).
- *rebasify*: see Bounds.
- *thunk*: steps over arrays and sizes of structures differ from the compilers'
  where an i386 structure has members of eight bytes or is packed
  (`typeconv.cc:264-265`, `495-513`); a real number that is moved from memory to
  memory uses operands that the push has moved (`137-146`); a pointer behind a
  pointer overwrites r11 (`313-320`); unsigned numbers and pointers that widen in
  memory leave the upper half as it was (`115-121`); the rounded size that
  `align_up` returns is dropped (`abigen.cc:121`), so that the pointees of mixed
  alignment do not fit (`Fits`); return values are not converted; two pointers to
  one object become two copies; structures by value abort the generator.

## Not modelled

- Formats of load commands and of x86 instructions: structures that are copied,
  and xed's decoder and encoder. Printing and option parsing. The text of
  assembly that `abiconv` prints, its tables of system calls (a list of names with a
  number each), and `modify`'s insertion and deletion of single instructions and of the
  start address.
- `printf-conv.cc`: a table of strings decides. The prefix `h` is tried before `hh`
  and `l` before `ll`, so that `%hhd` and `%lld` throw; `%%` calls a null pointer;
  `asprintf` converts one argument too many before the format. Each shows on a
  single format.
- Fat archives: no step of the driver has one. `Fat::Build` takes the exponent
  `align` for the alignment and computes each size with its sign reversed
  (`fat.cc:59-62`).
- The wrappers in assembly and `interpose.c`: `getopt.asm` and `exec.asm` return
  without undoing `add rsp, 4`; threads share `__dyld_stub_binder_flag`, so that two
  that bind at the same time, or a callback that binds, take each other's stack
  (`Thunk` has one thread and calls one function); `map_base` is read and advanced
  without a lock. What a second thread gets is the kernel's choice: a property
  would state what the code does not promise.
- The driver: a fixed sequence; `86x64.sh:99` and `116` do not test the step before.

## Plan

Modelled: every component that has state to get wrong, in the order in which
the result depends on it: resolvers, build and emit, parse, image, opcodes,
rebasify, the edits, the transformation, the thunks, the export trie.

Proved: what the runs check of resolvers, build, emit, image, parse and the edits,
apart from liveness; of the transformation both that the archive is well linked and
that the program it makes does what the old one did; of rebasify what does not compare
two runs.

What a continuation would add, in order of weight:

1. `SameOperands` of `Rebasify`, from a definition of the programs compilers make, as
   `SameEffect` has one.
2. `EndIsMet` and the type invariant of `Opcodes`.
