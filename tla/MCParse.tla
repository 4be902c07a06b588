------------------------------- MODULE MCParse -------------------------------
(* Files with a text section of four bytes, a data section of two and a    *)
(* zero-filled one, ten addresses above their offsets.                     *)
EXTENDS Parse

D(kind, size, value) == [kind |-> kind, size |-> size, value |-> value]
Bytes(sects, calls, off, size, entry) ==
  [fileoff |-> off, filesize |-> size, sects |-> sects, calls |-> calls, entryoff |-> entry]
Links(calls) == Bytes(<<>>, calls, 0, 0, 0)
C(op, at, n) == [op |-> op, at |-> at, n |-> n]

Text(target, kind, value) ==
  [offset |-> 2, addr |-> 12, code |-> TRUE,
   bytes |-> <<D("branch", 2, target), D("data", 1, 0), D(kind, 2, value), D("data", 1, 0)>>]
Data(target) ==
  [offset |-> 6, addr |-> 18, code |-> FALSE,
   bytes |-> <<D("pointer", 2, target), D("data", 1, 0)>>]
Bss == [offset |-> 0, addr |-> 20, code |-> FALSE, bytes |-> <<D("zero", 1, 0)>>]

File(text, data, links, entry) ==
  << Bytes(<<text>>, <<>>, 0, 6, 0), Bytes(<<data, Bss>>, <<>>, 6, 2, 0), Links(links),
     Bytes(<<>>, <<>>, 0, 0, entry), Links(<<C("dylib", 0, 0)>>), Links(<<C("dylib", 0, 0)>>) >>

LinkSets ==
  { <<C("hold", 16, 0), C("hold", 18, 0), C("rebase", 15, 0)>>,
    <<C("bind", 18, 2), C("bind", 13, 1), C("hold", 21, 0), C("rebase", 15, 0)>>,
    <<C("dice", 4, 2), C("export", 2, 0), C("rebase", 18, 0), C("hold", 20, 0)>>,
    <<C("dice", 2, 2), C("export", 0, 0), C("hold", 0, 0), C("hold", 14, 0), C("hold", 12, 0)>>,
    <<C("hold", 13, 0)>>, <<C("hold", 30, 0)>>, <<C("export", 9, 0)>>,
    <<C("bind", 20, 1), C("rebase", 20, 0), C("rebase", 15, 0), C("hold", 12, 0)>> }

MCBinaries ==
  {File(Text(target, kind, value), Data(pointer), links, entry) :
     target \in {12, 14, 16, 21}, kind \in {"push", "absolute"}, value \in {0, 20},
     pointer \in {14}, links \in LinkSets, entry \in {0, 4}}
  \cup {[File(Text(14, "push", 0), Data(12), <<>>, 0) EXCEPT
           ![1].calls = <<C("reloc", 13, 3)>>, ![2].calls = reloc] :
        reloc \in {<<>>, <<C("reloc", 18, 6)>>}}

(* Two zero-filled sections, as __bss and __common: the link editor gives  *)
(* neither a file offset.                                                  *)
Common == [offset |-> 0, addr |-> 21, code |-> FALSE, bytes |-> <<D("zero", 1, 0)>>]
ZeroFilled ==
  {[File(Text(14, "push", value), Data(14), links, 4) EXCEPT ![2].sects = <<Data(14), Bss, Common>>] :
     value \in {0, 20}, links \in LinkSets}
=============================================================================
