------------------------------ MODULE Binary ------------------------------
(***************************************************************************)
(* What a user of macho-tool takes an executable for: its load commands,   *)
(* the symbols it binds and where, the symbols it defines, all known by    *)
(* their names.  A command reads it, makes the edits it was asked for and  *)
(* writes it, or fails and has changed nothing.  Edits shows that the      *)
(* program, which numbers everything anew on each pass, does just that.    *)
(***************************************************************************)
EXTENDS Lists

CONSTANTS
  Executables, \* what the file may be at first
  Header,      \* the name of the symbol for the header of an executable
  Dylibs,      \* names of libraries
  Parts,       \* what may be cut out of names
  Symbols,     \* names of symbols that edits speak of
  Removable,   \* names of segments that edits may remove
  Flags        \* flags of the header

VARIABLES
  committed,   (* the file                                                 *)
  draft        (* the file as a running command has edited it, or Closed   *)

vars == <<committed, draft>>

Closed == [closed |-> TRUE]

(* The parts that an executable has and a dynamic library has not.         *)
OfExecutable(c) ==
  \/ c.cmd = "SEGMENT" /\ c.name = "PAGEZERO"
  \/ c.cmd \in {"LOAD_DYLINKER", "MAIN"}

(* A suffix is cut out of a name once, where it comes first.               *)
Cut(name, part) ==
  LET Others(k) == {x \in DOMAIN name : x # k}
  IN IF \E k \in DOMAIN name : name[k] = part
     THEN Pick(name, Others(CHOOSE k \in DOMAIN name :
                              name[k] = part /\ \A y \in 1..(k - 1) : name[y] # part))
     ELSE name

Open ==
  /\ draft = Closed
  /\ draft' = committed
  /\ UNCHANGED committed

Save ==
  /\ draft # Closed
  /\ committed' = draft
  /\ draft' = Closed

Fail ==
  /\ draft' = Closed
  /\ UNCHANGED committed

LoadDylib(name) ==
  draft' = [draft EXCEPT !.cmds = Append(@, [cmd |-> "LOAD_DYLIB", name |-> name])]

RenameDylib(k, name) ==
  /\ draft' = [draft EXCEPT
                 !.cmds[k].name = name,
                 !.binds = {IF b.dylib = draft.cmds[k].name THEN [b EXCEPT !.dylib = name] ELSE b
                              : b \in @}]

(* One bind of the old symbol is changed, to a symbol of another library.  *)
Rebind(b, dylib, sym) ==
  draft' = [draft EXCEPT !.binds = (@ \ {b}) \cup {[b EXCEPT !.dylib = dylib, !.sym = sym]}]

Strip(part) ==
  draft' = [draft EXCEPT !.binds = {[b EXCEPT !.sym = Cut(b.sym, part)] : b \in @}]

DropSymbol(name) == draft' = [draft EXCEPT !.syms = {s \in @ : s.name # name}]

DropSegment(name) ==
  draft' = [draft EXCEPT !.cmds =
    Pick(@, {k \in DOMAIN @ : ~ (@[k].cmd = "SEGMENT" /\ @[k].name = name)})]

(* An executable becomes a library that others can link with.              *)
BecomeDylib(name) ==
  draft' = [draft EXCEPT
    !.type = "DYLIB",
    !.flags = (@ \cup {"NO_REEXPORTED_DYLIBS"}) \ {"PIE"},
    !.cmds = Append(Pick(@, {k \in DOMAIN @ : ~OfExecutable(@[k])}),
                    [cmd |-> "ID_DYLIB", name |-> name]),
    !.syms = {s \in @ : s.name # Header}]

Edit ==
  /\ draft # Closed
  /\ \/ \E n \in Dylibs : LoadDylib(n) \/ BecomeDylib(n)
     \/ \E n \in Dylibs : \E k \in DOMAIN draft.cmds :
          draft.cmds[k].cmd \in {"LOAD_DYLIB", "ID_DYLIB"} /\ RenameDylib(k, n)
     \/ \E b \in draft.binds, s \in Symbols : \E k \in DOMAIN draft.cmds :
          draft.cmds[k].cmd = "LOAD_DYLIB" /\ Rebind(b, draft.cmds[k].name, s)
     \/ \E p \in Parts : Strip(p)
     \/ \E s \in Symbols : DropSymbol(s)
     \/ \E s \in Removable : DropSegment(s)
  /\ UNCHANGED committed

(* The header's flags are set where they stand, without a draft.           *)
SetFlag(f, on) ==
  /\ draft = Closed
  /\ committed' = [committed EXCEPT !.flags = IF on THEN @ \cup {f} ELSE @ \ {f}]
  /\ UNCHANGED draft

Init == committed \in Executables /\ draft = Closed

Next == Open \/ Save \/ Fail \/ Edit \/ \E f \in Flags, on \in BOOLEAN : SetFlag(f, on)

Spec == Init /\ [][Next]_vars
=============================================================================
