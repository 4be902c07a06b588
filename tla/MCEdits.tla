------------------------------ MODULE MCEdits ------------------------------
(* Executables with and without __PAGEZERO, with one or two libraries,     *)
(* with the two commands that convert removes side by side or apart, with  *)
(* and without LC_DYLD_INFO and LC_SYMTAB.                                 *)
EXTENDS Edits

Cmd(cmd) == [cmd |-> cmd, name |-> "", sects |-> <<>>]
Seg(name, sects) == [cmd |-> "SEGMENT", name |-> name, sects |-> sects]
Lib(name) == [cmd |-> "LOAD_DYLIB", name |-> name, sects |-> <<>>]

MCHeader == <<"header">>
Fopen == <<"fopen", "$UNIX2003">>

Commands(h, l, t, info, symtab) ==
  h \o <<Seg("TEXT", <<"text", "stubs">>), Seg("DATA", <<"data">>), Seg("LINKEDIT", <<>>)>>
    \o info \o symtab \o t \o l

Strings == <<<<"">>, <<"main">>, MCHeader, <<"static">>, Fopen, <<"sin">>>>
Symbol(strx, kind, sect) == [strx |-> strx, kind |-> kind, sect |-> sect]
Symbols ==
  <<Symbol(4, "LOCAL", 3), Symbol(3, "EXT", 1), Symbol(2, "EXT", 1),
    Symbol(5, "UNDEF", 0), Symbol(6, "UNDEF", 0)>>

BindOf(data, ord, off, sym, lazy) == [seg |-> data, off |-> off, ord |-> ord, sym |-> sym, lazy |-> lazy]

Executable(h, l, t, info, symtab) ==
  [cmds |-> Commands(h, l, t, info, symtab),
   binds |-> IF info = <<>> THEN <<>>
             ELSE <<BindOf(Len(h) + 1, Len(l), 0, Fopen, TRUE), BindOf(Len(h) + 1, 1, 4, <<"sin">>, TRUE),
                    BindOf(Len(h) + 1, Len(l), 8, Fopen, FALSE)>>,
   syms |-> IF symtab = <<>> THEN <<>> ELSE Symbols,
   strs |-> IF symtab = <<>> THEN <<>> ELSE Strings,
   counts |-> IF symtab = <<>> THEN <<0, 0, 0>> ELSE <<1, 2, 2>>,
   indirect |-> IF symtab = <<>> THEN <<>> ELSE <<4, 5, 3, 4>>,
   type |-> "EXECUTE", flags |-> {"PIE"}]

Info == <<Cmd("DYLD_INFO")>>
Symtabs == <<Cmd("SYMTAB"), Cmd("DYSYMTAB")>>

Two == <<Lib("libm"), Lib("libSystem")>>
MCFiles ==
  {Executable(<<Seg("PAGEZERO", <<>>)>>, Two, <<Cmd("LOAD_DYLINKER"), Cmd("MAIN")>>, Info, Symtabs),
   Executable(<<>>, Two, <<Cmd("LOAD_DYLINKER"), Cmd("UUID"), Cmd("MAIN")>>, Info, Symtabs),
   Executable(<<>>, <<Lib("libSystem")>>, <<Cmd("MAIN")>>, <<>>, Symtabs),
   Executable(<<>>, <<Lib("libSystem")>>, <<Cmd("MAIN")>>, Info, <<>>)}

MCRebinds == {<<<<"fopen">>, <<"__fopen">>>>, <<<<"sin">>, <<"__sin">>>>}
MCDroppable == {MCHeader, <<"static">>, <<"main">>}
=============================================================================
