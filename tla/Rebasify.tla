------------------------------ MODULE Rebasify ------------------------------
(***************************************************************************)
(* The rebasify command.  i386 code finds its data by a call to the next   *)
(* instruction, which pops its own address into a register (a thunk), and  *)
(* by displacements from there.  Those displacements will not survive the  *)
(* transformation, so that rebasify follows the register from instruction  *)
(* to instruction, through copies and a slot of the frame, and inserts     *)
(* before each use a mov of the target's absolute address, which is in the *)
(* rebase table.  The paths to follow are a worklist; an address is not    *)
(* visited twice in the same state.                                        *)
(*                                                                         *)
(* When the worklist is empty the program is run: the instructions that    *)
(* were read and the content that was rewritten, side by side.             *)
(*                                                                         *)
(* An instruction is what decode_info keeps of it, of length one; its      *)
(* address is its number.  The element of the content at instruction i is  *)
(* i, the placeholder for branches to it is -i, and inserted instructions  *)
(* have the numbers after the last.                                        *)
(***************************************************************************)
EXTENDS Integers, Sequences, FiniteSets, SequencesExt

CONSTANTS
  Programs,   (* text sections and whether the archive has a DyldInfo      *)
  Data        (* addresses outside the text section that have a blob       *)

ASSUME DataAssumption == Data \subseteq Nat

(* decode_info: the operation, the registers it names, the displacement,   *)
(* and the place in the section that a branch leads to, or 0.              *)
Instruction ==
  [iform : STRING, iclass : STRING, reg0 : STRING, reg1 : STRING,
   base : STRING, disp : Int, target : Nat]

ASSUME ProgramsAssumption ==
  \A p \in Programs :
    /\ p.dyldinfo \in BOOLEAN
    /\ p.insts \in Seq(Instruction) \ {<<>>}
    /\ \A i \in DOMAIN p.insts : p.insts[i].target \in 0..Len(p.insts)

None == "none"   (* XED_REG_INVALID *)
NoFrame == -1    (* std::nullopt *)

VARIABLES
  program,    (* what was read: insts, dyldinfo                            *)
  stage,      (* analyse, abort, throw, done, run                          *)
  content,    (* Section::content                                          *)
  states,     (* the worklist                                              *)
  visited,    (* visited_vmaddrs: the states in which addresses were met   *)
  movs,       (* the instructions inserted                                 *)
  patched,    (* instructions whose displacement was set to 0              *)
  rebasees,   (* the movs that were added to the rebase table              *)
  pc,         (* when run: an element of the content                       *)
  old, new    (* the machine running what was read, what was written       *)

analysis == <<content, states, visited, movs, patched, rebasees>>
vars == <<program, stage, analysis, pc, old, new>>

insts == program.insts
Size == Len(insts)

(* Branches' targets have placeholders; a branch that leaves the section   *)
(* or is not to a fixed address has the target 0.                          *)
Targets == {insts[i].target : i \in 1..Size} \ {0}
InitialContent ==
  FlattenSeq([i \in 1..Size |-> IF i \in Targets THEN <<-i, i>> ELSE <<i>>])

End == 0   (* content.end() *)
IndexOf(e) == CHOOSE x \in DOMAIN content : content[x] = e
After(e) == IF IndexOf(e) = Len(content) THEN End ELSE content[IndexOf(e) + 1]
IsMov(e) == e > Size
Addr(e) == IF IsMov(e) THEN movs[e - Size].addr ELSE IF e < 0 THEN -e ELSE e
MovInst(r) == [iform |-> "mov_imm", iclass |-> "mov", reg0 |-> r, reg1 |-> None,
               base |-> None, disp |-> 0, target |-> 0]
Decode(e) == IF IsMov(e) THEN MovInst(movs[e - Size].reg) ELSE insts[e]

(* The state of an analysis: 0 at first, 1 after a call to the next        *)
(* instruction, 2 after the pop; the address that was popped; the          *)
(* registers that hold it, and the slot of the frame.                      *)
NoThunk == [state |-> 0, vmaddr |-> 0, live |-> {}, frame |-> NoFrame]
ResetKeepingFrame(s) == [NoThunk EXCEPT !.frame = s.frame]   \* mutant
Reset(s) == NoThunk

Machine == [regs : [{"eax", "ebx", "ecx"} -> Int], slots : [{0, 4} -> Int], top : Int]
Junk == 0
NewMachine ==
  [regs |-> [r \in {"eax", "ebx", "ecx"} |-> Junk], slots |-> [d \in {0, 4} |-> Junk], top |-> Junk]

Init ==
  /\ program \in Programs
  /\ stage = "analyse"
  /\ content = InitialContent
  /\ states = <<[s |-> NoThunk, at |-> content[1]]>>
  /\ visited = [a \in 1..Size |-> {}]
  /\ movs = <<>> /\ patched = {} /\ rebasees = <<>>
  /\ pc = End /\ old = NewMachine /\ new = NewMachine

-----------------------------------------------------------------------------
(* handle_insts: one iteration of its loop.                                *)

rest == Tail(states)
Current == Head(states)
SeenIfLive(w) == w.s.live # {} /\ w.s \in visited[Addr(w.at)]   \* mutant
Seen(w) == w.s \in visited[Addr(w.at)]
Working == stage = "analyse" /\ states # <<>>

(* The end of the section, or an address visited in this state.            *)
Drop ==
  /\ Working /\ (Current.at = End \/ (Current.at # End /\ Seen(Current)))
  /\ states' = rest
  /\ UNCHANGED <<program, stage, content, visited, movs, patched, rebasees, pc, old, new>>

PassPlaceholder ==
  /\ Working /\ Current.at < 0 /\ ~Seen(Current)
  /\ states' = <<[Current EXCEPT !.at = After(Current.at)]>> \o rest
  /\ UNCHANGED <<program, stage, content, visited, movs, patched, rebasees, pc, old, new>>

Visit ==
  /\ Working /\ Current.at > 0 /\ ~Seen(Current)
  /\ visited' = [visited EXCEPT ![Addr(Current.at)] = @ \cup {Current.s}]

x == Decode(Current.at)
Jumped == [Current EXCEPT !.at = IF x.target = 0 THEN End ELSE -x.target]
Passed(s) == [s |-> s, at |-> After(Current.at)]

(* Both ways of a conditional branch, first the one without it.            *)
Branch ==
  /\ Visit /\ x.iclass = "jcc"
  /\ states' = <<Passed(Current.s), Jumped>> \o rest
  /\ UNCHANGED <<program, stage, content, movs, patched, rebasees, pc, old, new>>

(* What follows a jump is visited last, "in case it's not reachable".      *)
AfterJumpTarget == <<Jumped>> \o rest   \* mutant
AfterJump == <<Jumped>> \o rest \o <<Passed(Current.s)>>
Jump ==
  /\ Visit /\ x.iclass = "jmp"
  /\ states' = AfterJump
  /\ UNCHANGED <<program, stage, content, movs, patched, rebasees, pc, old, new>>

-----------------------------------------------------------------------------
(* handle_inst: an instruction moves the state on.                         *)

Inst == Visit /\ x.iclass \notin {"jcc", "jmp"}
Thunk == Inst /\ x.iform # "call_0" /\ Current.s.state = 2
Continue(s) ==
  /\ states' = <<Passed(s)>> \o rest
  /\ UNCHANGED <<program, stage, content, movs, patched, rebasees, pc, old, new>>
Live == Current.s.live

SeeCall == Inst /\ x.iform = "call_0" /\ Continue([Current.s EXCEPT !.state = 1])
Idle ==
  /\ Inst /\ x.iform # "call_0"
  /\ Current.s.state = 0 \/ (Current.s.state = 1 /\ x.iform # "pop")
  /\ Continue(Current.s)
SeePop ==
  /\ Inst /\ Current.s.state = 1 /\ x.iform = "pop"
  /\ Continue([Current.s EXCEPT !.state = 2, !.live = @ \cup {x.reg0}, !.vmaddr = Addr(Current.at)])

Clobbered == {"eax", "ecx", "edx"}
Preserved == {"ebx", "edi", "esi"}
SurvivingEcx(live) == live \ {"eax", "edx"}   \* mutant
Surviving(live) == live \ Clobbered
Call ==
  /\ Thunk /\ x.iclass = "call" /\ Live \subseteq Clobbered \cup Preserved
  /\ Continue([Current.s EXCEPT !.live = Surviving(@)])
Abort ==
  /\ Thunk /\ x.iclass = "call" /\ ~(Live \subseteq Clobbered \cup Preserved)
  /\ stage' = "abort"
  /\ UNCHANGED <<program, content, states, movs, patched, rebasees, pc, old, new>>

(* The slot of the frame, and copies.                                      *)
Inline == Thunk /\ x.iclass # "call"
ToFrame == x.iform = "store" /\ x.base = "ebp"
FrameHit == x.base = "ebp" /\ Current.s.frame # NoFrame /\ x.disp = Current.s.frame
IsFrameStore == ToFrame /\ x.reg0 \in Live
IsFrameLoss == ToFrame /\ x.reg0 \notin Live /\ FrameHit
IsFrameLoad == x.iform = "load" /\ FrameHit
IsAlias == x.iform = "mov_rr" /\ x.reg1 \in Live

FrameStore == Inline /\ IsFrameStore /\ Continue([Current.s EXCEPT !.frame = x.disp])
FrameLoss == Inline /\ IsFrameLoss /\ Continue([Current.s EXCEPT !.frame = NoFrame])
FrameLoad == Inline /\ IsFrameLoad /\ Continue([Current.s EXCEPT !.live = @ \cup {x.reg0}])
Alias == Inline /\ IsAlias /\ Continue([Current.s EXCEPT !.live = @ \cup {x.reg0}])

(* handle_inst_thunk                                                       *)
Other == Inline /\ ~IsFrameStore /\ ~IsFrameLoss /\ ~IsFrameLoad /\ ~IsAlias
IsXorSelf == x.iclass = "xor" /\ x.reg0 = x.reg1 /\ x.reg0 \in Live
XorSelf == Other /\ IsXorSelf /\ Continue([Current.s EXCEPT !.live = @ \ {x.reg0}])
Ret == Other /\ x.iclass = "ret" /\ Continue(Reset(Current.s))
Plain == Other /\ ~IsXorSelf /\ x.iclass # "ret"

Destroyed == IF x.iclass \in {"mov", "xor", "lea"} THEN Live \ {x.reg0} ELSE Live
UsedReg == IF x.base \in Live THEN x.base ELSE x.reg1
Uses == {x.base, x.reg1} \cap Live # {}
Target == Current.s.vmaddr + (IF x.base \in Live THEN x.disp ELSE 0)
HasBlob(a) == a \in Data \cup (1..Size)

Unused == Plain /\ ~Uses /\ Continue([Current.s EXCEPT !.live = Destroyed])

(* A use: the mov goes before the instruction, whose displacement is       *)
(* patched; without a DyldInfo the function returns there.                 *)
Use ==
  /\ Plain /\ Uses /\ HasBlob(Target)
  /\ movs' = Append(movs, [reg |-> UsedReg, value |-> Target, addr |-> Addr(Current.at)])
  /\ content' = InsertAt(content, IndexOf(Current.at), Size + Len(movs'))
  /\ patched' = IF x.base = UsedReg THEN patched \cup {Current.at} ELSE patched
  /\ rebasees' = IF program.dyldinfo THEN Append(rebasees, Len(movs')) ELSE rebasees
  /\ states' = <<Passed(IF program.dyldinfo THEN [Current.s EXCEPT !.live = Destroyed] ELSE Current.s)>>
               \o rest
  /\ UNCHANGED <<program, stage, pc, old, new>>

(* find_blob throws, and nobody catches it.                                *)
Throw ==
  /\ Plain /\ Uses /\ ~HasBlob(Target)
  /\ stage' = "throw"
  /\ UNCHANGED <<program, content, states, movs, patched, rebasees, pc, old, new>>

Analyse ==
  \/ Drop \/ PassPlaceholder \/ Branch \/ Jump \/ SeeCall \/ Idle \/ SeePop
  \/ Call \/ Abort \/ FrameStore \/ FrameLoss \/ FrameLoad \/ Alias
  \/ XorSelf \/ Ret \/ Unused \/ Use \/ Throw

(* Build and Emit follow.                                                  *)
Finish ==
  /\ stage = "analyse" /\ states = <<>>
  /\ stage' = "done"
  /\ UNCHANGED <<program, analysis, pc, old, new>>

-----------------------------------------------------------------------------
(* What the processor does.  A value is an address, or Junk for what is    *)
(* read from memory or computed otherwise; code that was rewritten is not  *)
(* where it was.                                                           *)
Moved == -1
Offset(v, d) == IF v \in {Junk, Moved} THEN v ELSE v + d
Value(m, r) == IF r \in DOMAIN m.regs THEN m.regs[r] ELSE Junk
Slot(m, d) == IF d \in DOMAIN m.slots THEN m.slots[d] ELSE Junk
Writing(m, r, v) ==
  [m EXCEPT !.regs = [q \in DOMAIN m.regs |-> IF q = r THEN v ELSE m.regs[q]]]
CallerSaved == {"eax", "ecx", "edx"}
Effect(i, disp, m, return) ==
  CASE i.iform = "call_0" -> [m EXCEPT !.top = return]
    [] i.iform = "pop" -> [Writing(m, i.reg0, m.top) EXCEPT !.top = Junk]
    [] i.iclass = "call" /\ i.iform # "call_0" ->
         [m EXCEPT !.regs = [q \in DOMAIN m.regs |-> IF q \in CallerSaved THEN Junk ELSE m.regs[q]]]
    [] i.iform = "store" /\ i.base = "ebp" -> [m EXCEPT !.slots[disp] = Value(m, i.reg0)]
    [] i.iform = "load" /\ i.base = "ebp" -> Writing(m, i.reg0, Slot(m, disp))
    [] i.iform = "mov_rr" -> Writing(m, i.reg0, Value(m, i.reg1))
    [] i.iclass = "lea" -> Writing(m, i.reg0, Offset(Value(m, i.base), disp))
    [] (i.iform = "load" /\ i.base # "ebp") \/ i.iclass \in {"movzx", "xor", "add"} ->
         Writing(m, i.reg0, Junk)
    [] OTHER -> m

(* It enters the section at its start or behind a return.                  *)
Entries == {1} \cup {i \in 2..Size : insts[i - 1].iclass = "ret"}
FirstAt(i) == content[CHOOSE y \in DOMAIN content :
                       Addr(content[y]) = i /\ \A z \in 1..(y - 1) : Addr(content[z]) # i]
Enter ==
  /\ stage = "done"
  /\ \E i \in Entries : pc' = FirstAt(i)
  /\ stage' = "run"
  /\ UNCHANGED <<program, analysis, old, new>>

RunMov ==
  /\ stage = "run" /\ IsMov(pc)
  /\ new' = Writing(new, movs[pc - Size].reg, movs[pc - Size].value)
  /\ pc' = After(pc)
  /\ UNCHANGED <<program, stage, analysis, old>>

Runs == stage = "run" /\ pc # End /\ ~IsMov(pc)
Step ==
  LET i == insts[pc] IN
  /\ Runs /\ pc > 0
  /\ old' = Effect(i, i.disp, old, pc + 1)
  /\ new' = Effect(i, IF pc \in patched THEN 0 ELSE i.disp, new, Moved)
  /\ \/ i.iclass \notin {"jmp", "ret"} /\ pc' = After(pc)
     \/ i.iclass \in {"jmp", "jcc"} /\ pc' = IF i.target = 0 THEN End ELSE -i.target
     \/ i.iclass = "ret" /\ pc' = End
  /\ UNCHANGED <<program, stage, analysis>>
StepPlaceholder ==
  /\ Runs /\ pc < 0
  /\ pc' = After(pc)
  /\ UNCHANGED <<program, stage, analysis, old, new>>

Next == Analyse \/ Finish \/ Enter \/ RunMov \/ Step \/ StepPlaceholder
Spec == Init /\ [][Next]_vars /\ WF_vars(Analyse \/ Finish)

-----------------------------------------------------------------------------
IsState(s) ==
  /\ s.state \in 0..2 /\ s.vmaddr \in 0..Size
  /\ s.state = 0 => s = NoThunk
  /\ s.live # {} => insts[s.vmaddr].iform = "pop"
TypeOK ==
  /\ stage \in {"analyse", "abort", "throw", "done", "run"}
  /\ \A y \in DOMAIN states :
       /\ IsState(states[y].s)
       /\ states[y].at \in {End} \cup {content[z] : z \in DOMAIN content}
  /\ \A a \in 1..Size : \A s \in visited[a] : IsState(s)
  /\ patched \subseteq 1..(Size + Len(movs))
  /\ old \in Machine /\ new \in Machine

(* The loop ends: no state of the analysis is met twice at an address, the *)
(* instructions inserted while it runs included.                           *)
Terminates == <>(stage # "analyse")

(* "add next instruction to be processed last in case it's not reachable   *)
(* thru static analysis": when the worklist is empty, every instruction of *)
(* the section has been looked at, whatever was inserted in between.       *)
NothingSkipped ==
  stage = "done" => \A a \in 1..Size : visited[a] # {}

(* Wherever the program gets, an instruction that was rewritten works on   *)
(* the addresses that it worked on before: a thunk's register is followed  *)
(* on every path, copy and spill, and nothing else is rewritten.           *)
Operands(m, i, disp) == <<Offset(Value(m, i.base), disp), Value(m, i.reg1)>>
IsUse(i) == i.iform # "mov_rr" /\ ~(i.iclass = "xor" /\ i.reg0 = i.reg1)
SameOperands ==
  Runs /\ pc > 0 /\ IsUse(insts[pc]) =>
    LET i == insts[pc] IN
    Operands(old, i, i.disp) = Operands(new, i, IF pc \in patched THEN 0 ELSE i.disp)

(* "check if eax is destroyed": an instruction that uses a register that   *)
(* holds something else than the thunk's address is not rewritten.         *)
DestroyedIsForgotten ==
  Runs /\ pc > 0 /\ Value(old, insts[pc].base) = Junk => pc \notin patched
=============================================================================
