----------------------------- MODULE ParseProofs -----------------------------
(***************************************************************************)
(* Theorems about Parse, for every file: the three properties of an        *)
(* archive that parsed.                                                    *)
(*                                                                         *)
(* Each speaks of the end and rests on what holds on the way there:        *)
(*   TInv  the types of the state;                                         *)
(*   CInv  the lists: sorted, every item within its section, and every     *)
(*         placeholder made either still in the map or in one list, where  *)
(*         it has to stand; which sections are parsed or swept so far;     *)
(*   VInv  the resolver by address: for some A, the address each pointer   *)
(*         was asked with, a pointer waits for it or is bound to what was  *)
(*         found for it, or do_resolve gave it up (Awaits); what was found *)
(*         is a blob that is there;                                        *)
(*   OInv  the same of the resolver by file offset, whose blobs lie at the *)
(*         addresses that a section gives their offsets;                   *)
(*   DInv  the dylibs found, numbered by their rank among the commands;    *)
(*   RInv  a rebase whose pointer does not wait any more has called back.  *)
(* A callback makes a placeholder while resolvers are drained, so RInv     *)
(* needs CInv: the sweep over the lists that follows places it.            *)
(***************************************************************************)
EXTENDS Parse, ResolverOpsProofs, FiniteSetTheorems, WellFoundedInduction

-----------------------------------------------------------------------------
(* The file that is parsed.                                                *)

(* Every non-empty set of natural numbers has a first element.             *)
LEMMA FirstIsLeast ==
  ASSUME NEW T, T \subseteq Nat, T # {}
  PROVE  First(T) \in T /\ \A y \in T : First(T) <= y
<1>. DEFINE Less == {xy \in Nat \X Nat : xy[1] < xy[2]}
<1>1. IsWellFoundedOn(Less, Nat)
  BY NatLessThanWellFounded DEF OpToRel
<1>2. PICK m \in T : \A y \in T : ~ (<<y, m>> \in Less)
  <2>. HIDE DEF Less
  <2>. QED BY <1>1, WFMin
<1>3. ASSUME NEW y \in T PROVE m <= y
  <2>1. ~ (y < m)
    <3>1. SUFFICES ASSUME y < m PROVE <<y, m>> \in Less
      BY <1>2
    <3>2. QED BY <3>1, y \in Nat, m \in Nat
  <2>2. QED BY <2>1, y \in Nat, m \in Nat
<1>4. QED BY <1>3 DEF First

End(s) == At(s).addr + Size(At(s))

LEMMA CommandTypes ==
  ASSUME binary \in Binaries
  PROVE  /\ Len(binary) \in Nat /\ DOMAIN binary = 1..Len(binary)
         /\ \A x \in DOMAIN binary : binary[x] \in Command
         /\ \A x \in DOMAIN binary : OneDylib(binary[x]) /\ RelocInSection(binary[x])
<1>1. binary \in Seq(Command)
  BY BinariesAssumption
<1>2. QED
  BY <1>1, BinariesAssumption

LEMMA CallTypes ==
  ASSUME binary \in Binaries, NEW x \in DOMAIN binary
  PROVE  /\ binary[x].entryoff \in Nat
         /\ Len(binary[x].calls) \in Nat /\ DOMAIN binary[x].calls = 1..Len(binary[x].calls)
         /\ \A k \in DOMAIN binary[x].calls : binary[x].calls[k] \in Call
         /\ \A k \in DOMAIN binary[x].calls :
              /\ binary[x].calls[k].at \in Nat /\ binary[x].calls[k].n \in Nat
              /\ binary[x].calls[k].op \in Ops
<1>1. binary[x] \in Command
  BY CommandTypes
<1>2. binary[x].calls \in Seq(Call) /\ binary[x].entryoff \in Nat
  BY <1>1 DEF Command
<1>3. /\ Len(binary[x].calls) \in Nat /\ DOMAIN binary[x].calls = 1..Len(binary[x].calls)
      /\ \A k \in DOMAIN binary[x].calls : binary[x].calls[k] \in Call
  BY <1>2
<1>4. QED
  BY <1>2, <1>3 DEF Call

LEMMA SectTypes ==
  ASSUME binary \in Binaries, NEW x \in DOMAIN binary
  PROVE  /\ Len(binary[x].sects) \in Nat /\ DOMAIN binary[x].sects = 1..Len(binary[x].sects)
         /\ \A y \in DOMAIN binary[x].sects : binary[x].sects[y] \in Section
<1>1. binary[x] \in Command
  BY CommandTypes
<1>2. binary[x].sects \in Seq(Section)
  BY <1>1 DEF Command
<1>3. QED
  BY <1>2

LEMMA SectionTypes ==
  ASSUME binary \in Binaries, NEW s \in Sections
  PROVE  /\ s = <<s[1], s[2]>> /\ s[1] \in DOMAIN binary /\ s[2] \in DOMAIN binary[s[1]].sects
         /\ s[1] \in Nat \ {0} /\ s[2] \in Nat \ {0}
         /\ At(s).addr \in Nat /\ At(s).offset \in Nat /\ Size(At(s)) \in Nat /\ End(s) \in Nat
         /\ \A n \in 1..Size(At(s)) : At(s).bytes[n] \in Decoded
<1>1. PICK x \in DOMAIN binary : \E y \in DOMAIN binary[x].sects : s = <<x, y>>
  BY DEF Sections
<1>2. PICK y \in DOMAIN binary[x].sects : s = <<x, y>>
  BY <1>1
<1>3. At(s) = binary[x].sects[y] /\ s[1] = x /\ s[2] = y
  BY <1>2 DEF At
<1>4. binary[x].sects[y] \in Section
  BY SectTypes
<1>5. x \in Nat \ {0} /\ y \in Nat \ {0}
  BY CommandTypes, SectTypes
<1>6. At(s).addr \in Nat /\ At(s).offset \in Nat /\ At(s).bytes \in Seq(Decoded)
  BY <1>3, <1>4 DEF Section
<1>7. Size(At(s)) \in Nat /\ \A n \in 1..Size(At(s)) : At(s).bytes[n] \in Decoded
  BY <1>6 DEF Size
<1>8. End(s) \in Nat
  BY <1>6, <1>7 DEF End
<1>9. QED
  BY <1>2, <1>3, <1>5, <1>6, <1>7, <1>8

LEMMA InSections ==
  ASSUME NEW x \in DOMAIN binary, NEW y \in DOMAIN binary[x].sects
  PROVE  <<x, y>> \in Sections /\ At(<<x, y>>) = binary[x].sects[y]
BY DEF Sections, At

(* The section that has an offset gives it an address.                     *)
LEMMA ToVmaddrType ==
  ASSUME binary \in Binaries, NEW o \in Nat, SectionOf(o) # {}
  PROVE  ToVmaddr(o) \in Nat
<1>1. SegmentOf(o) # {} /\ SegmentOf(o) \subseteq DOMAIN binary
  BY DEF SectionOf, SegmentOf
<1>2. PICK x : x = First(SegmentOf(o))
  OBVIOUS
<1>3. DOMAIN binary \subseteq Nat
  BY CommandTypes
<1>4. x \in DOMAIN binary
  BY <1>1, <1>2, <1>3, FirstIsLeast
<1>5. SectionOf(o) = {y \in DOMAIN binary[x].sects :
                        Has(At(<<x, y>>).offset, Size(At(<<x, y>>)), o)}
  BY <1>1, <1>2 DEF SectionOf
<1>6. PICK y : y = First(SectionOf(o))
  OBVIOUS
<1>7. SectionOf(o) \subseteq Nat
  BY <1>4, <1>5, SectTypes
<1>8. y \in SectionOf(o)
  BY <1>6, <1>7, FirstIsLeast
<1>9. y \in DOMAIN binary[x].sects /\ Has(At(<<x, y>>).offset, Size(At(<<x, y>>)), o)
  BY <1>5, <1>8
<1>10. <<x, y>> \in Sections
  BY <1>4, <1>9, InSections
<1>11. At(<<x, y>>).addr \in Nat /\ At(<<x, y>>).offset \in Nat
  BY <1>10, SectionTypes
<1>12. ToVmaddr(o) = o - At(<<x, y>>).offset + At(<<x, y>>).addr
  BY <1>2, <1>6 DEF ToVmaddr
<1>13. At(<<x, y>>).offset <= o
  BY <1>9 DEF Has
<1>14. QED
  BY <1>11, <1>12, <1>13

-----------------------------------------------------------------------------
(* Types.                                                                  *)
Item == [addr : Nat, kind : Kinds \cup {"placeholder"}]

Immediate(m) == m = [value |-> m.value, pointee |-> m.pointee] /\ m.value \in Nat

TInv ==
  /\ binary \in Binaries
  /\ i \in Nat \ {0} /\ j \in Nat \ {0} /\ c \in Nat \ {0} /\ it \in Nat
  /\ stage = "place" => it # 0
  /\ placeholders \subseteq DOMAIN owner /\ DOMAIN owner \subseteq Nat
  /\ content \in [Sections -> Seq(Item)]
  /\ \A a \in DOMAIN immediate : Immediate(immediate[a])

(* An immediate that an address was resolved to has been parsed.           *)
Known == \A a \in DOMAIN vmaddr.found :
           vmaddr.found[a][1] = "immediate" => a \in DOMAIN immediate

LEMMA CallingTypes ==
  ASSUME TInv, NEW op, Calling(op)
  PROVE  /\ i \in DOMAIN binary /\ c \in DOMAIN LC.calls
         /\ Arg = binary[i].calls[c] /\ Arg.op = op
         /\ Arg.at \in Nat /\ Arg.n \in Nat
<1>1. i \in DOMAIN binary
  BY CommandTypes DEF TInv, Calling
<1>2. c \in DOMAIN LC.calls
  BY <1>1, CallTypes DEF TInv, Calling, LC
<1>3. QED
  BY <1>1, <1>2, CallTypes DEF TInv, Calling, LC, Arg

LEMMA HoldTypes ==
  ASSUME TInv, NEW a \in Nat, NEW x, NEW y, Hold(a, x, y)
  PROVE  /\ placeholders' \subseteq DOMAIN owner' /\ DOMAIN owner' \subseteq Nat
         /\ DOMAIN owner \subseteq DOMAIN owner'
         /\ \A p \in DOMAIN owner : owner'[p] = owner[p]
         /\ DOMAIN owner' = DOMAIN owner \cup ({a} \ {0})
         /\ placeholders' = placeholders \cup ({a} \ {0})
<1>1. CASE a = 0 \/ a \in DOMAIN owner
  BY <1>1 DEF TInv, Hold
<1>2. CASE a # 0 /\ a \notin DOMAIN owner
  <2>1. owner' = Put(owner, a, <<x, y>>) /\ placeholders' = placeholders \cup {a}
    BY <1>2 DEF Hold
  <2>2. DOMAIN owner' = DOMAIN owner \cup {a} /\ \A p \in DOMAIN owner : owner'[p] = owner[p]
    BY <1>2, <2>1 DEF Put
  <2>3. QED
    BY <1>2, <2>1, <2>2 DEF TInv
<1>3. QED
  BY <1>1, <1>2

(* The section that is parsed or filled.                                   *)
LEMMA SectFacts ==
  ASSUME TInv, i <= Len(binary), j <= Len(LC.sects)
  PROVE  /\ i \in DOMAIN binary /\ j \in DOMAIN binary[i].sects
         /\ <<i, j>> \in Sections /\ Sect = At(<<i, j>>)
         /\ content[<<i, j>>] \in Seq(Item)
         /\ Sect.addr \in Nat /\ Sect.offset \in Nat /\ Size(Sect) \in Nat
         /\ End(<<i, j>>) = Sect.addr + Size(Sect) /\ End(<<i, j>>) \in Nat
<1>1. i \in DOMAIN binary
  BY CommandTypes DEF TInv
<1>2. j \in DOMAIN binary[i].sects
  BY <1>1, SectTypes DEF TInv, LC
<1>3. <<i, j>> \in Sections /\ Sect = At(<<i, j>>)
  BY <1>1, <1>2, InSections DEF Sect, LC
<1>4. QED
  BY <1>1, <1>2, <1>3, SectionTypes DEF TInv, End

(* What one call of a parser makes of the bytes at the current place.      *)
LEMMA DecodeTypes ==
  ASSUME TInv, Parsing, it < Size(Sect)
  PROVE  /\ Decode \in Decoded
         /\ Decode.kind \in Kinds /\ Decode.size \in Nat \ {0} /\ Decode.value \in Nat
         /\ ImmAt(Decode) \in Nat
         /\ Here.vmaddr = Sect.addr + it /\ Here.offset = Sect.offset + it
<1>1. /\ <<i, j>> \in Sections /\ Sect = At(<<i, j>>) /\ Size(Sect) \in Nat
      /\ Sect.addr \in Nat /\ Sect.offset \in Nat
  BY SectFacts DEF Parsing
<1>2. it + 1 \in 1..Size(Sect)
  BY <1>1 DEF TInv
<1>3. Sect.bytes[it + 1] \in Decoded
  BY <1>1, <1>2, SectionTypes DEF TInv
<1>4. AsData \in Decoded
  BY DEF AsData, Decoded, Kinds
<1>5. Decode \in Decoded
  BY <1>3, <1>4 DEF Decode
<1>6. Decode.kind \in Kinds /\ Decode.size \in Nat \ {0} /\ Decode.value \in Nat
  BY <1>5 DEF Decoded
<1>7. QED
  BY <1>1, <1>5, <1>6 DEF Here, ImmAt

LEMMA TInit ==
  Init => TInv
<1>. SUFFICES ASSUME NEW b \in Binaries, NewParse(b) PROVE TInv
  BY DEF Init
<1>1. binary \in Binaries /\ i = 1 /\ j = 1 /\ c = 1 /\ it = 0
  BY DEF NewParse
<1>2. DOMAIN owner = {} /\ placeholders = {} /\ DOMAIN immediate = {}
  BY DEF NewParse, NoEntries
<1>3. content \in [Sections -> Seq(Item)]
  BY DEF NewParse
<1>4. stage = "construct"
  BY DEF NewParse
<1>5. QED
  BY <1>1, <1>2, <1>3, <1>4 DEF TInv

(* A blob put into the list of a section at place n.                       *)
LEMMA Inserted ==
  ASSUME NEW s \in Seq(Item), NEW n \in 1..Len(s), NEW e \in Item
  PROVE  /\ InsertAt(s, n, e) \in Seq(Item)
         /\ Len(InsertAt(s, n, e)) = Len(s) + 1
         /\ \A m \in 1..(n - 1) : InsertAt(s, n, e)[m] = s[m]
         /\ InsertAt(s, n, e)[n] = e
         /\ \A m \in (n + 1)..(Len(s) + 1) : InsertAt(s, n, e)[m] = s[m - 1]
<1>1. PICK a : a = SubSeq(s, 1, n - 1)
  OBVIOUS
<1>2. PICK b : b = SubSeq(s, n, Len(s))
  OBVIOUS
<1>3. a \in Seq(Item) /\ Len(a) = n - 1 /\ \A m \in 1..(n - 1) : a[m] = s[m]
  BY <1>1
<1>4. b \in Seq(Item) /\ Len(b) = Len(s) - n + 1 /\ \A m \in 1..Len(b) : b[m] = s[n + m - 1]
  BY <1>2
<1>5. PICK d : d = a \o <<e>>
  OBVIOUS
<1>6. d \in Seq(Item) /\ Len(d) = n /\ d[n] = e /\ \A m \in 1..(n - 1) : d[m] = s[m]
  BY <1>3, <1>5
<1>7. PICK r : r = d \o b
  OBVIOUS
<1>8. /\ r \in Seq(Item) /\ Len(r) = Len(s) + 1
      /\ \A m \in 1..n : r[m] = d[m]
      /\ \A m \in (n + 1)..(Len(s) + 1) : r[m] = b[m - n]
  <2>1. /\ r \in Seq(Item) /\ Len(r) = Len(d) + Len(b)
        /\ \A m \in 1..(Len(d) + Len(b)) : r[m] = IF m <= Len(d) THEN d[m] ELSE b[m - Len(d)]
    BY <1>4, <1>6, <1>7
  <2>2. n \in Nat /\ Len(s) \in Nat /\ Len(d) = n /\ Len(b) = Len(s) - n + 1
    BY <1>4, <1>6
  <2>3. Len(d) + Len(b) = Len(s) + 1
    BY <2>2
  <2>4. QED
    BY <2>1, <2>2, <2>3
<1>9. ASSUME NEW m \in (n + 1)..(Len(s) + 1) PROVE r[m] = s[m - 1]
  <2>0. Len(s) \in Nat /\ n \in Nat
    OBVIOUS
  <2>1. m - n \in 1..Len(b) /\ n + (m - n) - 1 = m - 1
    BY <1>4, <2>0
  <2>2. b[m - n] = s[n + (m - n) - 1]
    BY <1>4, <2>1
  <2>3. QED
    BY <1>8, <2>1, <2>2
<1>10. r = InsertAt(s, n, e)
  BY <1>1, <1>2, <1>5, <1>7 DEF InsertAt
<1>11. QED
  BY <1>6, <1>8, <1>9, <1>10

(* The place that the search of Parse2 finds.                              *)
LEMMA Bounded ==
  ASSUME TInv, Placing, NEW p, NEW n, n = LowerBound(content[<<i, j>>], it, p),
         ~ (n > Len(content[<<i, j>>]))
  PROVE  n \in 1..Len(content[<<i, j>>])
<1>1. content[<<i, j>>] \in Seq(Item)
  BY SectFacts DEF Placing
<1>2. PICK s : s = content[<<i, j>>]
  OBVIOUS
<1>3. Len(s) \in Nat /\ it \in Nat \ {0}
  BY <1>1, <1>2 DEF TInv, Placing
<1>4. PICK T : T = {m \in it..Len(s) : s[m].addr >= p} \cup {Len(s) + 1}
  OBVIOUS
<1>5. T \subseteq Nat /\ T # {} /\ \A m \in T : m >= 1
  BY <1>3, <1>4
<1>6. n = First(T)
  BY <1>2, <1>4 DEF LowerBound
<1>7. n \in T
  BY <1>5, <1>6, FirstIsLeast
<1>8. n \in Nat /\ n >= 1
  BY <1>5, <1>7
<1>9. n <= Len(s)
  BY <1>2, <1>3, <1>8
<1>10. QED
  BY <1>2, <1>3, <1>8, <1>9

LEMMA TStep ==
  ASSUME TInv, Known, [Next]_vars
  PROVE  TInv'
<1>0. /\ binary \in Binaries
      /\ i \in Nat \ {0} /\ j \in Nat \ {0} /\ c \in Nat \ {0} /\ it \in Nat
      /\ stage = "place" => it # 0
      /\ placeholders \subseteq DOMAIN owner /\ DOMAIN owner \subseteq Nat
      /\ content \in [Sections -> Seq(Item)]
      /\ \A a \in DOMAIN immediate : Immediate(immediate[a])
  BY DEF TInv
<1>1. CASE UNCHANGED vars
  BY <1>0, <1>1 DEF TInv, vars, Sections, At
<1>2. CASE CallHold
  <2>1. Hold(Arg.at, 0, 0) /\ Arg.at \in Nat
    BY <1>2, CallingTypes DEF CallHold
  <2>2. placeholders' \subseteq DOMAIN owner' /\ DOMAIN owner' \subseteq Nat
    BY <2>1, HoldTypes
  <2>3. QED
    BY <1>0, <1>2, <2>2 DEF TInv, CallHold, resolvers, built, Sections, Calling
<1>3. CASE CallExport
  <2>1. /\ Arg.at \in Nat /\ stage = "construct"
        /\ UNCHANGED <<binary, i, j, it, built>> /\ c' = c + 1
        /\ stage' # "place"
    BY <1>3, CallingTypes DEF CallExport, Calling
  <2>2. \/ UNCHANGED held
        \/ SectionOf(Arg.at) # {} /\ Hold(ToVmaddr(Arg.at), 0, 0)
    BY <1>3 DEF CallExport
  <2>3. placeholders' \subseteq DOMAIN owner' /\ DOMAIN owner' \subseteq Nat
    BY <1>0, <2>1, <2>2, HoldTypes, ToVmaddrType DEF held
  <2>4. QED
    BY <1>0, <2>1, <2>3 DEF TInv, built, Sections
<1>4. CASE CallBind \/ CallRebase \/ CallDice \/ CallDylib \/ CallReloc
  <2>1. UNCHANGED <<binary, stage, i, j, it, held, built>> /\ c' = c + 1
    BY <1>4 DEF CallBind, CallRebase, CallDice, CallDylib, CallReloc
  <2>2. QED
    BY <1>0, <2>1 DEF TInv, held, built, Sections
<1>5. CASE NextCommand \/ Constructed \/ EndSection \/ Parsed1
  <2>1. /\ UNCHANGED <<binary, held, built>> /\ stage' # "place"
        /\ \/ i' = i + 1 /\ c' = 1 /\ UNCHANGED <<j, it>>
           \/ i' = 1 /\ UNCHANGED <<j, c, it>>
           \/ j' = j + 1 /\ it' = 0 /\ UNCHANGED <<i, c>>
           \/ UNCHANGED <<i, j, c, it>>
    BY <1>5 DEF NextCommand, Constructed, EndSection, Parsing, Parsed1
  <2>2. QED
    BY <1>0, <2>1 DEF TInv, held, built, Sections
<1>6. CASE ParseBlob
  <2>1. Parsing /\ it < Size(Sect) /\ UNCHANGED <<binary, i, j, c>> /\ stage = "parse1"
    BY <1>6 DEF ParseBlob, Parsing
  <2>2. PICK d : d = Decode
    OBVIOUS
  <2>3. /\ d.kind \in Kinds /\ d.size \in Nat \ {0} /\ d.value \in Nat
        /\ Here.vmaddr = Sect.addr + it
    BY <2>1, <2>2, DecodeTypes
  <2>4. /\ <<i, j>> \in Sections /\ content[<<i, j>>] \in Seq(Item) /\ Sect.addr \in Nat
    BY <2>1, SectFacts DEF Parsing
  <2>5. CASE UNCHANGED <<it, held, built>> /\ stage' # "place"
    BY <1>0, <2>1, <2>5 DEF TInv, held, built, Sections
  <2>6. CASE ~ (UNCHANGED <<it, held, built>> /\ stage' # "place")
    <3>1. /\ it' = it + d.size /\ UNCHANGED stage
          /\ Hold(d.value, i, j) \/ UNCHANGED held
          /\ content' = [content EXCEPT ![<<i, j>>] =
                           Append(@, [addr |-> Here.vmaddr, kind |-> d.kind])]
          /\ \/ immediate' = immediate
             \/ \E a, x : immediate' = Put(immediate, a, [value |-> d.value, pointee |-> x])
      BY <1>6, <2>1, <2>2, <2>6 DEF ParseBlob
    <3>2. placeholders' \subseteq DOMAIN owner' /\ DOMAIN owner' \subseteq Nat
      BY <1>0, <2>3, <3>1, HoldTypes DEF held
    <3>3. [addr |-> Here.vmaddr, kind |-> d.kind] \in Item
      BY <1>0, <2>3, <2>4 DEF Item
    <3>4. content' \in [Sections -> Seq(Item)]
      BY <1>0, <2>4, <3>1, <3>3
    <3>5. \A a \in DOMAIN immediate' : Immediate(immediate'[a])
      <4>1. CASE immediate' = immediate
        BY <1>0, <4>1
      <4>2. CASE \E a, x : immediate' = Put(immediate, a, [value |-> d.value, pointee |-> x])
        <5>1. PICK a, x : immediate' = Put(immediate, a, [value |-> d.value, pointee |-> x])
          BY <4>2
        <5>2. PICK m : m = [value |-> d.value, pointee |-> x]
          OBVIOUS
        <5>3. Immediate(m)
          BY <2>3, <5>2 DEF Immediate
        <5>4. \A y \in DOMAIN immediate' : \/ immediate'[y] = m
                                       \/ (y \in DOMAIN immediate /\ immediate'[y] = immediate[y])
          BY <5>1, <5>2 DEF Put
        <5>5. QED
          BY <1>0, <5>3, <5>4
      <4>3. QED
        BY <3>1, <4>1, <4>2
    <3>6. QED
      BY <1>0, <2>1, <2>3, <3>1, <3>2, <3>4, <3>5 DEF TInv, Sections
  <2>7. QED
    BY <2>5, <2>6
<1>7. CASE EndParse1
  <2>1. /\ UNCHANGED <<binary, c, it, built>> /\ i' = i + 1 /\ j' = 1
        /\ stage = "parse1" /\ i <= Len(binary) /\ stage' # "place"
    BY <1>7 DEF EndParse1
  <2>2. i \in DOMAIN binary
    BY <1>0, <2>1, CommandTypes
  <2>3. LC.entryoff \in Nat
    BY <1>0, <2>2, CallTypes DEF LC
  <2>4. \/ UNCHANGED held
        \/ SectionOf(LC.entryoff) # {} /\ Hold(ToVmaddr(LC.entryoff), 0, 0)
    BY <1>7 DEF EndParse1
  <2>5. placeholders' \subseteq DOMAIN owner' /\ DOMAIN owner' \subseteq Nat
    BY <1>0, <2>3, <2>4, HoldTypes, ToVmaddrType DEF held
  <2>6. QED
    BY <1>0, <2>1, <2>5 DEF TInv, built, Sections
<1>8. CASE DrainOffset
  BY <1>0, <1>8 DEF TInv, DrainOffset, held, built, Sections
<1>9. CASE DrainVmaddr
  <2>1. UNCHANGED <<binary, stage, i, j, c, it, content>> /\ stage = "resolve"
    BY <1>9 DEF DrainVmaddr
  <2>2. PICK key : key = First(DOMAIN vmaddr.todo)
    OBVIOUS
  <2>3. CASE UNCHANGED <<immediate, held>>
    BY <1>0, <2>1, <2>3 DEF TInv, held, Sections
  <2>4. CASE ~ UNCHANGED <<immediate, held>>
    <3>1. /\ key \in DOMAIN vmaddr.found /\ vmaddr.found[key][1] = "immediate"
          /\ Callback(key, immediate[key].value)
      BY <1>9, <2>2, <2>4 DEF DrainVmaddr
    <3>2. key \in DOMAIN immediate
      BY <3>1 DEF Known
    <3>3. PICK v : v = immediate[key].value
      OBVIOUS
    <3>4. PICK m : m = IF v = 0 THEN Null ELSE <<"placeholder", v>>
      OBVIOUS
    <3>5. v \in Nat
      BY <1>0, <3>2, <3>3 DEF Immediate
    <3>6. Hold(v, 0, 0) /\ immediate' = [immediate EXCEPT ![key].pointee = m]
      BY <3>1, <3>3, <3>4 DEF Callback
    <3>7. placeholders' \subseteq DOMAIN owner' /\ DOMAIN owner' \subseteq Nat
      BY <3>5, <3>6, HoldTypes
    <3>8. /\ DOMAIN immediate' = DOMAIN immediate
          /\ \A a \in DOMAIN immediate : a # key => immediate'[a] = immediate[a]
          /\ immediate'[key] = [immediate[key] EXCEPT !.pointee = m]
      BY <3>2, <3>6
    <3>9. immediate'[key] = [value |-> v, pointee |-> m]
      BY <1>0, <3>2, <3>3, <3>8 DEF Immediate
    <3>10. PICK n : n = [value |-> v, pointee |-> m]
      OBVIOUS
    <3>11. Immediate(n)
      BY <3>5, <3>10 DEF Immediate
    <3>12. \A a \in DOMAIN immediate' : Immediate(immediate'[a])
      BY <1>0, <3>8, <3>9, <3>10, <3>11
    <3>13. QED
      BY <1>0, <2>1, <3>7, <3>12 DEF TInv, Sections
  <2>5. QED
    BY <2>3, <2>4
<1>10. CASE Resolved \/ SectionPlaced \/ CommandPlaced \/ AllPlaced
  <2>1. /\ UNCHANGED <<binary, c, held, built>>
        /\ \/ i' = 1 /\ j' = 1 /\ it' = 1
           \/ j' = j + 1 /\ it' = 1 /\ UNCHANGED i
           \/ i' = i + 1 /\ j' = 1 /\ UNCHANGED <<stage, it>>
           \/ i' = 1 /\ stage' # "place" /\ UNCHANGED <<j, it>>
    BY <1>10 DEF Resolved, SectionPlaced, CommandPlaced, AllPlaced
  <2>2. QED
    BY <1>0, <2>1 DEF TInv, held, built, Sections
<1>11. CASE Place
  <2>1. /\ UNCHANGED <<binary, i, j, c, immediate>> /\ Placing
    BY <1>11 DEF Place
  <2>2. CASE UNCHANGED <<it, held, content>> /\ stage' # "place"
    BY <1>0, <2>1, <2>2 DEF TInv, held, Sections
  <2>3. CASE ~ (UNCHANGED <<it, held, content>> /\ stage' # "place")
    <3>1. PICK p, s, n : /\ p = First(InSection) /\ s = content[<<i, j>>]
                         /\ n = LowerBound(s, it, p)
      OBVIOUS
    <3>2. /\ ~ (n > Len(s)) /\ s[n].addr = p
          /\ content' = [content EXCEPT ![<<i, j>>] = InsertAt(s, n, Placeholder(p))]
          /\ owner' = [owner EXCEPT ![p] = <<i, j>>]
          /\ placeholders' = placeholders \ {p} /\ it' = n + 1
      BY <1>11, <2>3, <3>1 DEF Place, held
    <3>3. <<i, j>> \in Sections /\ s \in Seq(Item)
      BY <2>1, <3>1, SectFacts DEF Placing
    <3>4. n \in 1..Len(s)
      BY <2>1, <3>1, <3>2, Bounded
    <3>5. s[n] \in Item
      BY <3>3, <3>4
    <3>6. Placeholder(p) \in Item
      BY <3>2, <3>5 DEF Item, Placeholder
    <3>7. InsertAt(s, n, Placeholder(p)) \in Seq(Item)
      BY <3>3, <3>4, <3>6, Inserted
    <3>8. content' \in [Sections -> Seq(Item)]
      BY <1>0, <3>2, <3>3, <3>7
    <3>9. DOMAIN owner' = DOMAIN owner /\ placeholders' \subseteq DOMAIN owner'
      BY <1>0, <3>2
    <3>10. it' \in Nat /\ it' # 0
      BY <3>2, <3>4
    <3>11. QED
      BY <1>0, <2>1, <3>8, <3>9, <3>10 DEF TInv, Sections
  <2>4. QED
    BY <2>2, <2>3
<1>12. CASE Trail
  <2>1. /\ UNCHANGED <<binary, stage, c, it, owner, immediate>> /\ stage = "trail"
        /\ placeholders' \subseteq placeholders
        /\ i' \in Nat \ {0} /\ j' \in Nat \ {0}
    BY <1>0, <1>12 DEF Trail
  <2>2. CASE UNCHANGED content
    BY <1>0, <2>1, <2>2 DEF TInv, Sections
  <2>3. CASE ~ UNCHANGED content
    <3>1. PICK e : e = Sect.addr + Size(Sect)
      OBVIOUS
    <3>2. /\ i <= Len(binary) /\ ~ (j > Len(LC.sects))
          /\ content' = [content EXCEPT ![<<i, j>>] = Append(@, Placeholder(e))]
      BY <1>12, <2>3, <3>1 DEF Trail
    <3>3. j <= Len(LC.sects)
      <4>1. i \in DOMAIN binary
        BY <1>0, <3>2, CommandTypes
      <4>2. Len(LC.sects) \in Nat
        BY <1>0, <4>1, SectTypes DEF LC
      <4>3. QED
        BY <1>0, <3>2, <4>2
    <3>4. <<i, j>> \in Sections /\ content[<<i, j>>] \in Seq(Item) /\ e \in Nat
      BY <3>1, <3>2, <3>3, SectFacts
    <3>5. Placeholder(e) \in Item
      BY <3>4 DEF Placeholder, Item
    <3>6. content' \in [Sections -> Seq(Item)]
      BY <1>0, <3>2, <3>4, <3>5
    <3>7. QED
      BY <1>0, <2>1, <3>6 DEF TInv, Sections
  <2>4. QED
    BY <2>2, <2>3
<1>13. CASE Finish
  BY <1>0, <1>13 DEF TInv, Finish, held, built, Sections
<1>14. QED
  BY <1>1, <1>2, <1>3, <1>4, <1>5, <1>6, <1>7, <1>8, <1>9, <1>10, <1>11, <1>12, <1>13 DEF Next

-----------------------------------------------------------------------------
(* What the steps that change the lists do.                                *)

Failed == {"error", "clash", "misplaced"}
Early == {"construct", "parse1"}

LEMMA ParseBlobEffect ==
  ASSUME TInv, ParseBlob
  PROVE  /\ Parsing /\ it < Size(Sect) /\ stage = "parse1"
         /\ UNCHANGED <<binary, i, j, c, dylib, dice, again>>
         /\ \/ stage' = "clash" /\ UNCHANGED <<it, vmaddr, offset, held, built>>
            \/ /\ UNCHANGED stage /\ it' = it + Decode.size
               /\ UNCHANGED held \/ Hold(Decode.value, i, j)
               /\ content' = [content EXCEPT ![<<i, j>>] =
                                Append(@, [addr |-> Here.vmaddr, kind |-> Decode.kind])]
<1>1. /\ Parsing /\ it < Size(Sect) /\ stage = "parse1"
      /\ UNCHANGED <<binary, i, j, c, dylib, dice, again>>
  BY DEF ParseBlob, Parsing
<1>2. CASE stage' = "clash" /\ UNCHANGED <<it, vmaddr, offset, held, built>>
  BY <1>1, <1>2
<1>3. CASE ~ (stage' = "clash" /\ UNCHANGED <<it, vmaddr, offset, held, built>>)
  <2>1. PICK d : d = Decode
    OBVIOUS
  <2>2. /\ UNCHANGED stage /\ it' = it + d.size
        /\ UNCHANGED held \/ Hold(d.value, i, j)
        /\ content' = [content EXCEPT ![<<i, j>>] =
                         Append(@, [addr |-> Here.vmaddr, kind |-> d.kind])]
    BY <1>3, <2>1 DEF ParseBlob
  <2>3. QED
    BY <1>1, <2>1, <2>2
<1>4. QED
  BY <1>2, <1>3

(* Placeholder p goes into the section that is filled, in front of blob n. *)
PutInFront(p, n) ==
  /\ p \in placeholders /\ Has(Sect.addr, Size(Sect), p)
  /\ n \in 1..Len(content[<<i, j>>]) /\ content[<<i, j>>][n].addr = p
  /\ content' = [content EXCEPT ![<<i, j>>] = InsertAt(content[<<i, j>>], n, Placeholder(p))]
  /\ owner' = [owner EXCEPT ![p] = <<i, j>>]
  /\ placeholders' = placeholders \ {p}

LEMMA PlaceEffect ==
  ASSUME TInv, Place
  PROVE  /\ Placing /\ stage = "place"
         /\ UNCHANGED <<binary, i, j, c, resolvers, dice, immediate, again>>
         /\ \/ stage' \in {"error", "misplaced"} /\ UNCHANGED <<it, held, content>>
            \/ UNCHANGED stage /\ \E p, n : PutInFront(p, n)
<1>1. /\ Placing /\ stage = "place" /\ InSection # {}
      /\ UNCHANGED <<binary, i, j, c, resolvers, dice, immediate, again>>
  BY DEF Place, Placing
<1>2. PICK p, s, n : /\ p = First(InSection) /\ s = content[<<i, j>>]
                     /\ n = LowerBound(s, it, p)
  OBVIOUS
<1>3. CASE n > Len(s) \/ s[n].addr # p
  BY <1>1, <1>2, <1>3 DEF Place
<1>4. CASE ~ (n > Len(s)) /\ s[n].addr = p
  <2>1. /\ content' = [content EXCEPT ![<<i, j>>] = InsertAt(s, n, Placeholder(p))]
        /\ owner' = [owner EXCEPT ![p] = <<i, j>>]
        /\ placeholders' = placeholders \ {p} /\ UNCHANGED stage
    BY <1>2, <1>4 DEF Place
  <2>2. n \in 1..Len(s)
    BY <1>1, <1>2, <1>4, Bounded
  <2>3. InSection \subseteq Nat
    BY DEF InSection, TInv
  <2>4. p \in InSection
    BY <1>1, <1>2, <2>3, FirstIsLeast
  <2>5. PutInFront(p, n)
    BY <1>2, <1>4, <2>1, <2>2, <2>4 DEF PutInFront, InSection
  <2>6. QED
    BY <1>1, <2>1, <2>5
<1>5. QED
  BY <1>3, <1>4

(* A placeholder at the end of a section becomes the last of its list.     *)
PutAtEnd ==
  /\ content' = IF End(<<i, j>>) \in placeholders
                THEN [content EXCEPT ![<<i, j>>] =
                        Append(content[<<i, j>>], Placeholder(End(<<i, j>>)))]
                ELSE content
  /\ placeholders' = placeholders \ {End(<<i, j>>)}

LEMMA TrailEffect ==
  ASSUME TInv, Trail
  PROVE  /\ stage = "trail" /\ i \in DOMAIN binary
         /\ UNCHANGED <<binary, stage, c, it, resolvers, dice, owner, immediate, again>>
         /\ \/ i' = i + 1 /\ j' = 1 /\ UNCHANGED <<placeholders, content>>
            \/ <<i, j>> \in Sections /\ j' = j + 1 /\ UNCHANGED i /\ PutAtEnd
<1>1. /\ stage = "trail" /\ i <= Len(binary)
      /\ UNCHANGED <<binary, stage, c, it, resolvers, dice, owner, immediate, again>>
  BY DEF Trail
<1>2. i \in DOMAIN binary
  BY <1>1, CommandTypes DEF TInv
<1>3. CASE j > Len(LC.sects)
  BY <1>1, <1>2, <1>3 DEF Trail
<1>4. CASE ~ (j > Len(LC.sects))
  <2>1. Len(LC.sects) \in Nat
    BY <1>2, SectTypes DEF LC, TInv
  <2>2. j <= Len(LC.sects)
    BY <1>4, <2>1 DEF TInv
  <2>3. <<i, j>> \in Sections /\ End(<<i, j>>) = Sect.addr + Size(Sect)
    BY <1>1, <2>2, SectFacts
  <2>4. /\ j' = j + 1 /\ UNCHANGED i
        /\ content' = IF Sect.addr + Size(Sect) \in placeholders
                      THEN [content EXCEPT ![<<i, j>>] =
                              Append(@, Placeholder(Sect.addr + Size(Sect)))]
                      ELSE content
        /\ placeholders' = placeholders \ {Sect.addr + Size(Sect)}
    BY <1>4 DEF Trail
  <2>5. PutAtEnd
    BY <2>3, <2>4 DEF PutAtEnd
  <2>6. QED
    BY <1>1, <1>2, <2>3, <2>4, <2>5
<1>5. QED
  BY <1>3, <1>4

-----------------------------------------------------------------------------
(* The lists of the sections.                                              *)

InOrder(l) ==
  \A m, n \in DOMAIN l :
    m < n => /\ l[m].addr <= l[n].addr
             /\ l[m].addr = l[n].addr => l[m].kind = "placeholder"
Sorts(f) == \A s \in Sections : InOrder(f[s])

(* What is in a list lies in its section, and only a placeholder lies at   *)
(* its end.                                                                *)
Inside(s, l) ==
  \A n \in DOMAIN l : /\ At(s).addr <= l[n].addr /\ l[n].addr <= End(s)
                      /\ l[n].kind # "placeholder" => l[n].addr < End(s)
Within(f) == \A s \in Sections : Inside(s, f[s])

(* A placeholder that is in a list has been taken out of the map.          *)
Used(f, o, pl) ==
  \A s \in Sections : \A n \in DOMAIN f[s] :
    f[s][n].kind = "placeholder" => f[s][n].addr \in DOMAIN o \ pl

(* A placeholder taken out of the map is where Placed wants it.            *)
NoStart(f, p) ==
  \A t \in Sections : \A m \in DOMAIN f[t] : f[t][m].kind # "placeholder" => f[t][m].addr # p
Rests(f, o, p, s, n) ==
  IF n = Len(f[s]) THEN p = End(s) /\ NoStart(f, p)
  ELSE f[s][n + 1].addr = p /\ o[p] = s
Only(f, p, s, n) ==
  \A t \in Sections : \A m \in DOMAIN f[t] : f[t][m] = Placeholder(p) => t = s /\ m = n
StandsAt(f, o, p, s, n) ==
  /\ s \in Sections /\ n \in DOMAIN f[s] /\ f[s][n] = Placeholder(p)
  /\ Only(f, p, s, n) /\ Rests(f, o, p, s, n)
Stand(f, o, pl) == \A p \in DOMAIN o \ pl : \E s, n : StandsAt(f, o, p, s, n)

Lists(f, o, pl) == Sorts(f) /\ Within(f) /\ Used(f, o, pl) /\ Stand(f, o, pl)

(* The file stays what it is, so the lists are told of in the same words.  *)
LEMMA SameFile ==
  ASSUME binary' = binary
  PROVE  /\ Sections' = Sections
         /\ Lists(content, owner, placeholders)' <=> Lists(content', owner', placeholders')
<1>1. Sections' = Sections
  BY DEF Sections
<1>2. Sorts(content)' <=> Sorts(content')
  BY <1>1 DEF Sorts, InOrder
<1>3. Within(content)' <=> Within(content')
  BY <1>1 DEF Within, Inside, At, End, Size
<1>4. Used(content, owner, placeholders)' <=> Used(content', owner', placeholders')
  BY <1>1 DEF Used
<1>5. Stand(content, owner, placeholders)' <=> Stand(content', owner', placeholders')
  BY <1>1 DEF Stand, StandsAt, Only, Rests, NoStart, Placeholder, At, End, Size
<1>6. QED
  BY <1>1, <1>2, <1>3, <1>4, <1>5 DEF Lists

(* While no placeholder has been put into a list, one more changes nothing.*)
LEMMA NonePut ==
  ASSUME NEW f, NEW o, NEW r, Lists(f, o, DOMAIN o)
  PROVE  /\ Lists(f, r, DOMAIN r)
         /\ \A s \in Sections : \A n \in DOMAIN f[s] : f[s][n].kind # "placeholder"
<1>1. \A s \in Sections : \A n \in DOMAIN f[s] : f[s][n].kind # "placeholder"
  BY DEF Lists, Used
<1>2. Used(f, r, DOMAIN r) /\ Stand(f, r, DOMAIN r)
  BY <1>1 DEF Used, Stand
<1>3. QED
  BY <1>1, <1>2 DEF Lists

(* Parse1 appends blobs in the order of their addresses.                   *)
LEMMA AppendedLists ==
  ASSUME TInv, Lists(content, owner, DOMAIN owner), NEW w \in Sections, NEW a \in Nat,
         NEW kind \in Kinds, At(w).addr <= a, a < End(w),
         \A n \in DOMAIN content[w] : content[w][n].addr < a,
         content' = [content EXCEPT ![w] = Append(@, [addr |-> a, kind |-> kind])],
         NEW r
  PROVE  Lists(content', r, DOMAIN r)
<1>1. PICK l : l = content[w]
  OBVIOUS
<1>2. PICK e : e = [addr |-> a, kind |-> kind]
  OBVIOUS
<1>3. e.addr = a /\ e.kind # "placeholder" /\ e \in Item
  BY <1>2 DEF Kinds, Item
<1>4. l \in Seq(Item)
  BY <1>1 DEF TInv
<1>5. PICK k : k = Append(l, e)
  OBVIOUS
<1>6. /\ DOMAIN k = 1..(Len(l) + 1) /\ k[Len(l) + 1] = e /\ Len(l) \in Nat
      /\ DOMAIN l = 1..Len(l) /\ \A n \in 1..Len(l) : k[n] = l[n]
  BY <1>3, <1>4, <1>5
<1>7. content'[w] = k /\ \A s \in Sections : s # w => content'[s] = content[s]
  BY <1>1, <1>2, <1>5 DEF TInv
<1>8. InOrder(l) /\ Inside(w, l)
  BY <1>1 DEF Lists, Sorts, Within
<1>9. \A n \in 1..Len(l) : l[n].addr < a /\ l[n].addr \in Nat
  <2>1. \A n \in 1..Len(l) : l[n] \in Item
    BY <1>4
  <2>2. QED
    BY <1>1, <1>6, <2>1 DEF Item
<1>10. InOrder(k)
  <2>1. SUFFICES ASSUME NEW m \in DOMAIN k, NEW n \in DOMAIN k, m < n
                 PROVE  /\ k[m].addr <= k[n].addr
                        /\ k[m].addr = k[n].addr => k[m].kind = "placeholder"
    BY DEF InOrder
  <2>2. CASE n = Len(l) + 1
    <3>1. m \in 1..Len(l)
      BY <1>6, <2>1, <2>2
    <3>2. k[m] = l[m] /\ k[n] = e
      BY <1>6, <2>2, <3>1
    <3>3. l[m].addr < a /\ l[m].addr \in Nat
      BY <1>9, <3>1
    <3>4. QED
      BY <1>3, <3>2, <3>3
  <2>3. CASE n # Len(l) + 1
    <3>1. m \in 1..Len(l) /\ n \in 1..Len(l)
      BY <1>6, <2>1, <2>3
    <3>2. k[m] = l[m] /\ k[n] = l[n]
      BY <1>6, <3>1
    <3>3. QED
      BY <1>6, <1>8, <2>1, <3>1, <3>2 DEF InOrder
  <2>4. QED
    BY <2>2, <2>3
<1>11. Inside(w, k)
  <2>1. End(w) \in Nat
    BY SectionTypes DEF TInv
  <2>2. SUFFICES ASSUME NEW n \in DOMAIN k
                 PROVE  /\ At(w).addr <= k[n].addr /\ k[n].addr <= End(w)
                        /\ k[n].kind # "placeholder" => k[n].addr < End(w)
    BY DEF Inside
  <2>3. CASE n = Len(l) + 1
    BY <1>3, <1>6, <2>1, <2>3
  <2>4. CASE n # Len(l) + 1
    <3>1. n \in DOMAIN l /\ k[n] = l[n]
      BY <1>6, <2>4
    <3>2. QED
      BY <1>8, <3>1 DEF Inside
  <2>5. QED
    BY <2>3, <2>4
<1>12. Sorts(content')
  BY <1>7, <1>10 DEF Lists, Sorts
<1>13. Within(content')
  BY <1>7, <1>11 DEF Lists, Within
<1>14. \A s \in Sections : \A n \in DOMAIN content'[s] : content'[s][n].kind # "placeholder"
  <2>1. \A n \in DOMAIN k : k[n].kind # "placeholder"
    BY <1>1, <1>3, <1>6, NonePut
  <2>2. QED
    BY <1>7, <2>1, NonePut
<1>15. Used(content', r, DOMAIN r) /\ Stand(content', r, DOMAIN r)
  BY <1>14 DEF Used, Stand
<1>16. QED
  BY <1>12, <1>13, <1>15 DEF Lists

(* A placeholder put in front of the blob at its address.                  *)
LEMMA InsertedInOrder ==
  ASSUME NEW l \in Seq(Item), InOrder(l), NEW n \in 1..Len(l), NEW p \in Nat, l[n].addr = p
  PROVE  InOrder(InsertAt(l, n, Placeholder(p)))
<1>1. PICK e : e = Placeholder(p)
  OBVIOUS
<1>2. e \in Item /\ e.addr = p /\ e.kind = "placeholder"
  BY <1>1 DEF Placeholder, Item
<1>3. PICK k : k = InsertAt(l, n, e)
  OBVIOUS
<1>4. /\ k \in Seq(Item) /\ Len(k) = Len(l) + 1 /\ k[n] = e /\ Len(l) \in Nat /\ n \in Nat
      /\ \A m \in 1..(n - 1) : k[m] = l[m]
      /\ \A m \in (n + 1)..(Len(l) + 1) : k[m] = l[m - 1]
      /\ DOMAIN k = 1..(Len(l) + 1) /\ DOMAIN l = 1..Len(l)
  BY <1>2, <1>3, Inserted
<1>5. SUFFICES ASSUME NEW m \in 1..(Len(l) + 1), NEW q \in 1..(Len(l) + 1), m < q
               PROVE  /\ k[m].addr <= k[q].addr
                      /\ k[m].addr = k[q].addr => k[m].kind = "placeholder"
  BY <1>1, <1>3, <1>4 DEF InOrder
<1>6. \A x, y \in 1..Len(l) :
        x < y => /\ l[x].addr <= l[y].addr
                 /\ l[x].addr = l[y].addr => l[x].kind = "placeholder"
  BY <1>4 DEF InOrder
<1>7. \A x \in 1..Len(l) : l[x].addr \in Nat
  <2>1. \A x \in 1..Len(l) : l[x] \in Item
    BY <1>4
  <2>2. QED
    BY <2>1 DEF Item
<1>8. CASE q < n
  <2>1. m \in 1..Len(l) /\ q \in 1..Len(l) /\ k[m] = l[m] /\ k[q] = l[q]
    BY <1>4, <1>5, <1>8
  <2>2. QED
    BY <1>5, <1>6, <2>1
<1>9. CASE q = n
  <2>1. m \in 1..Len(l) /\ k[m] = l[m] /\ k[q] = e /\ m < n
    BY <1>4, <1>5, <1>9
  <2>2. QED
    BY <1>2, <1>6, <2>1
<1>10. CASE n < q /\ m < n
  <2>1. m \in 1..Len(l) /\ q - 1 \in 1..Len(l) /\ k[m] = l[m] /\ k[q] = l[q - 1] /\ m < q - 1
    BY <1>4, <1>5, <1>10
  <2>2. QED
    BY <1>6, <2>1
<1>11. CASE m = n
  <2>1. q - 1 \in 1..Len(l) /\ k[m] = e /\ k[q] = l[q - 1] /\ n <= q - 1
    BY <1>4, <1>5, <1>11
  <2>2. p <= l[q - 1].addr
    BY <1>6, <1>7, <2>1
  <2>3. QED
    BY <1>2, <2>1, <2>2
<1>12. CASE n < m
  <2>1. /\ m - 1 \in 1..Len(l) /\ q - 1 \in 1..Len(l) /\ m - 1 < q - 1
        /\ k[m] = l[m - 1] /\ k[q] = l[q - 1]
    BY <1>4, <1>5, <1>12
  <2>2. QED
    BY <1>6, <2>1
<1>13. QED
  BY <1>4, <1>5, <1>8, <1>9, <1>10, <1>11, <1>12

(* Where blob m of a list is when a blob is put in front of blob n.        *)
Shift(m, n) == IF m < n THEN m ELSE m + 1

LEMMA InsertedLists ==
  ASSUME TInv, Lists(content, owner, placeholders), NEW p, NEW n,
         <<i, j>> \in Sections, Sect = At(<<i, j>>), PutInFront(p, n)
  PROVE  Lists(content', owner', placeholders')
<1>1. PICK w : w = <<i, j>>
  OBVIOUS
<1>2. PICK l : l = content[w]
  OBVIOUS
<1>3. PICK e : e = Placeholder(p)
  OBVIOUS
<1>4. PICK k : k = InsertAt(l, n, e)
  OBVIOUS
<1>5. /\ w \in Sections /\ p \in placeholders /\ Has(At(w).addr, Size(At(w)), p)
      /\ n \in 1..Len(l) /\ l[n].addr = p
      /\ content' = [content EXCEPT ![w] = k]
      /\ owner' = [owner EXCEPT ![p] = w] /\ placeholders' = placeholders \ {p}
  BY <1>1, <1>2, <1>3, <1>4 DEF PutInFront
<1>6. l \in Seq(Item) /\ p \in Nat
  BY <1>2, <1>5 DEF TInv
<1>7. e \in Item /\ e.addr = p /\ e.kind = "placeholder"
  BY <1>3, <1>6 DEF Placeholder, Item
<1>8. /\ k \in Seq(Item) /\ Len(k) = Len(l) + 1 /\ k[n] = e /\ Len(l) \in Nat /\ n \in Nat
      /\ \A m \in 1..(n - 1) : k[m] = l[m]
      /\ \A m \in (n + 1)..(Len(l) + 1) : k[m] = l[m - 1]
      /\ DOMAIN k = 1..(Len(l) + 1) /\ DOMAIN l = 1..Len(l)
  BY <1>4, <1>5, <1>6, <1>7, Inserted
<1>9. content'[w] = k /\ \A s \in Sections : s # w => content'[s] = content[s]
  BY <1>5 DEF TInv
<1>10. ASSUME NEW m \in DOMAIN l
       PROVE  Shift(m, n) \in DOMAIN k /\ k[Shift(m, n)] = l[m] /\ Shift(m, n) # n
  <2>1. CASE m < n
    BY <1>8, <2>1 DEF Shift
  <2>2. CASE ~ (m < n)
    <3>1. m + 1 \in (n + 1)..(Len(l) + 1) /\ (m + 1) - 1 = m
      BY <1>8, <2>2
    <3>2. k[m + 1] = l[m]
      BY <1>8, <3>1
    <3>3. QED
      BY <1>8, <2>2, <3>1, <3>2 DEF Shift
  <2>3. QED
    BY <2>1, <2>2
<1>11. ASSUME NEW m \in DOMAIN k, m # n
       PROVE  \E q \in DOMAIN l : m = Shift(q, n) /\ k[m] = l[q]
  <2>1. CASE m < n
    BY <1>5, <1>8, <2>1 DEF Shift
  <2>2. CASE ~ (m < n)
    <3>1. m \in (n + 1)..(Len(l) + 1) /\ m - 1 \in DOMAIN l /\ ~ (m - 1 < n)
      BY <1>5, <1>8, <1>11, <2>2
    <3>2. m = Shift(m - 1, n)
      BY <1>8, <3>1 DEF Shift
    <3>3. QED
      BY <1>8, <3>1, <3>2
  <2>3. QED
    BY <2>1, <2>2
<1>12. ASSUME NEW s \in Sections, NEW m \in DOMAIN content'[s]
       PROVE  \/ s = w /\ m = n /\ content'[s][m] = e
              \/ s = w /\ \E q \in DOMAIN content[s] :
                            m = Shift(q, n) /\ content'[s][m] = content[s][q]
              \/ s # w /\ m \in DOMAIN content[s] /\ content'[s][m] = content[s][m]
  <2>1. CASE s = w /\ m = n
    BY <1>8, <1>9, <2>1
  <2>2. CASE s = w /\ m # n
    BY <1>2, <1>9, <1>11, <2>2
  <2>3. CASE s # w
    BY <1>9, <2>3
  <2>4. QED
    BY <2>1, <2>2, <2>3
<1>13. ASSUME NEW s \in Sections, NEW m \in DOMAIN content'[s]
       PROVE  \/ content'[s][m] = e /\ s = w
              \/ \E q \in DOMAIN content[s] : content'[s][m] = content[s][q]
  BY <1>12
<1>14. Sorts(content')
  <2>1. InOrder(k)
    BY <1>2, <1>3, <1>4, <1>5, <1>6, InsertedInOrder DEF Lists, Sorts
  <2>2. QED
    BY <1>9, <2>1 DEF Lists, Sorts
<1>15. Within(content')
  <2>1. At(w).addr <= p /\ p <= End(w)
    <3>1. At(w).addr \in Nat /\ Size(At(w)) \in Nat
      BY <1>5, SectionTypes DEF TInv
    <3>2. QED
      BY <1>5, <1>6, <3>1 DEF Has, End
  <2>2. SUFFICES ASSUME NEW s \in Sections, NEW m \in DOMAIN content'[s]
                 PROVE  /\ At(s).addr <= content'[s][m].addr /\ content'[s][m].addr <= End(s)
                        /\ content'[s][m].kind # "placeholder" => content'[s][m].addr < End(s)
    BY DEF Within, Inside
  <2>3. CASE content'[s][m] = e /\ s = w
    BY <1>7, <2>1, <2>3
  <2>4. CASE \E q \in DOMAIN content[s] : content'[s][m] = content[s][q]
    BY <2>4 DEF Lists, Within, Inside
  <2>5. QED
    BY <1>13, <2>3, <2>4
<1>16. DOMAIN owner' = DOMAIN owner /\ p \in DOMAIN owner
  BY <1>5 DEF TInv
<1>17. Used(content', owner', placeholders')
  <2>1. SUFFICES ASSUME NEW s \in Sections, NEW m \in DOMAIN content'[s],
                        content'[s][m].kind = "placeholder"
                 PROVE  content'[s][m].addr \in DOMAIN owner' \ placeholders'
    BY DEF Used
  <2>2. CASE content'[s][m] = e
    BY <1>5, <1>7, <1>16, <2>2
  <2>3. CASE \E q \in DOMAIN content[s] : content'[s][m] = content[s][q]
    BY <1>5, <1>16, <2>1, <2>3 DEF Lists, Used
  <2>4. QED
    BY <1>13, <2>2, <2>3
<1>18. ASSUME NEW q, NEW s \in Sections, NEW m \in DOMAIN content[s], content[s][m] = Placeholder(q)
       PROVE  q # p
  <2>1. content[s][m].kind = "placeholder" /\ content[s][m].addr = q
    BY <1>18 DEF Placeholder
  <2>2. QED
    BY <1>5, <2>1 DEF Lists, Used
<1>19. Stand(content', owner', placeholders')
  <2>1. \E s, m : StandsAt(content', owner', p, s, m)
    <3>1. w \in Sections /\ n \in DOMAIN content'[w] /\ content'[w][n] = Placeholder(p)
      BY <1>3, <1>5, <1>8, <1>9
    <3>2. Only(content', p, w, n)
      BY <1>12, <1>18 DEF Only
    <3>3. n + 1 \in (n + 1)..(Len(l) + 1) /\ (n + 1) - 1 = n /\ n # Len(k)
      BY <1>5, <1>8
    <3>4. k[n + 1] = l[n]
      BY <1>8, <3>3
    <3>5. Rests(content', owner', p, w, n)
      BY <1>5, <1>9, <1>16, <3>3, <3>4 DEF Rests
    <3>6. QED
      BY <3>1, <3>2, <3>5 DEF StandsAt
  <2>2. ASSUME NEW q \in DOMAIN owner \ placeholders
        PROVE  \E s, m : StandsAt(content', owner', q, s, m)
    <3>1. PICK s, m : StandsAt(content, owner, q, s, m)
      BY DEF Lists, Stand
    <3>2. s \in Sections /\ m \in DOMAIN content[s] /\ content[s][m] = Placeholder(q)
      BY <3>1 DEF StandsAt
    <3>3. q # p /\ owner'[q] = owner[q]
      BY <1>5, <3>2, <1>18
    <3>4. e # Placeholder(q)
      BY <1>3, <3>3 DEF Placeholder
    <3>5. NoStart(content, q) => NoStart(content', q)
      <4>1. SUFFICES ASSUME NoStart(content, q), NEW t \in Sections, NEW x \in DOMAIN content'[t],
                            content'[t][x].kind # "placeholder"
                     PROVE  content'[t][x].addr # q
        BY DEF NoStart
      <4>2. QED
        BY <1>7, <1>13, <4>1 DEF NoStart
    <3>6. PICK m2 : m2 = IF s = w THEN Shift(m, n) ELSE m
      OBVIOUS
    <3>7. m2 \in DOMAIN content'[s] /\ content'[s][m2] = Placeholder(q)
      BY <1>2, <1>9, <1>10, <3>2, <3>6
    <3>8. Only(content', q, s, m2)
      <4>1. SUFFICES ASSUME NEW t \in Sections, NEW x \in DOMAIN content'[t],
                            content'[t][x] = Placeholder(q)
                     PROVE  t = s /\ x = m2
        BY DEF Only
      <4>2. Only(content, q, s, m)
        BY <3>1 DEF StandsAt
      <4>3. QED
        BY <1>12, <3>4, <3>6, <4>1, <4>2 DEF Only
    <3>9. Rests(content, owner, q, s, m)
      BY <3>1 DEF StandsAt
    <3>10. Rests(content', owner', q, s, m2)
      <4>1. CASE s # w
        BY <1>9, <3>2, <3>3, <3>5, <3>6, <3>9, <4>1 DEF Rests
      <4>2. CASE s = w /\ m = Len(l)
        <5>1. m2 = Len(k)
          BY <1>5, <1>8, <3>6, <4>2 DEF Shift
        <5>2. q = End(s) /\ NoStart(content, q)
          BY <1>2, <3>9, <4>2 DEF Rests
        <5>3. QED
          BY <1>9, <3>5, <4>2, <5>1, <5>2 DEF Rests
      <4>3. CASE s = w /\ m # Len(l)
        <5>1. l[m + 1].addr = q /\ owner[q] = s
          BY <1>2, <3>9, <4>3 DEF Rests
        <5>2. m \in DOMAIN l /\ m + 1 \in DOMAIN l /\ m + 1 # n
          BY <1>2, <1>5, <1>8, <3>2, <3>3, <4>3, <5>1
        <5>3. m2 + 1 = Shift(m + 1, n) /\ m2 # Len(k)
          BY <1>8, <3>6, <4>3, <5>2 DEF Shift
        <5>4. k[m2 + 1] = l[m + 1]
          BY <1>10, <5>2, <5>3
        <5>5. QED
          BY <1>9, <3>3, <4>3, <5>1, <5>3, <5>4 DEF Rests
      <4>4. QED
        BY <4>1, <4>2, <4>3
    <3>11. QED
      BY <3>2, <3>7, <3>8, <3>10 DEF StandsAt
  <2>3. DOMAIN owner' \ placeholders' = (DOMAIN owner \ placeholders) \cup {p}
    BY <1>5, <1>16
  <2>4. QED
    BY <2>1, <2>2, <2>3 DEF Stand
<1>20. QED
  BY <1>14, <1>15, <1>17, <1>19 DEF Lists

(* No blob starts at a placeholder that is left to the end of a section.   *)
LEMMA LeftOver ==
  ASSUME TInv, NEW f, Within(f), f \in [Sections -> Seq(Item)], NEW p,
         \A s \in Sections : ~ Has(At(s).addr, Size(At(s)), p)
  PROVE  NoStart(f, p)
<1>1. SUFFICES ASSUME NEW s \in Sections, NEW n \in DOMAIN f[s], f[s][n].kind # "placeholder",
                      f[s][n].addr = p
               PROVE  FALSE
  BY DEF NoStart
<1>2. At(s).addr <= p /\ p < End(s)
  BY <1>1 DEF Within, Inside
<1>3. QED
  BY <1>2 DEF Has, End

(* A placeholder put at the end of its section.                            *)
LEMMA TrailedLists ==
  ASSUME TInv, Lists(content, owner, placeholders), <<i, j>> \in Sections,
         owner' = owner, PutAtEnd,
         \A s \in Sections : \A p \in placeholders : ~ Has(At(s).addr, Size(At(s)), p)
  PROVE  Lists(content', owner', placeholders')
<1>1. PICK w, p : w = <<i, j>> /\ p = End(<<i, j>>)
  OBVIOUS
<1>2. CASE p \notin placeholders
  <2>1. content' = content /\ placeholders' = placeholders
    BY <1>1, <1>2 DEF PutAtEnd
  <2>2. QED
    BY <2>1
<1>3. CASE p \in placeholders
  <2>1. PICK l, e : l = content[w] /\ e = Placeholder(p)
    OBVIOUS
  <2>2. PICK k : k = Append(l, e)
    OBVIOUS
  <2>3. /\ content' = [content EXCEPT ![w] = k] /\ placeholders' = placeholders \ {p}
        /\ w \in Sections /\ p = End(w)
    BY <1>1, <1>3, <2>1, <2>2 DEF PutAtEnd
  <2>4. p \in Nat /\ At(w).addr \in Nat /\ Size(At(w)) \in Nat
    BY <2>3, SectionTypes DEF TInv
  <2>5. e \in Item /\ e.addr = p /\ e.kind = "placeholder" /\ l \in Seq(Item)
    BY <2>1, <2>3, <2>4 DEF Placeholder, Item, TInv
  <2>6. /\ DOMAIN k = 1..(Len(l) + 1) /\ k[Len(l) + 1] = e /\ Len(l) \in Nat
        /\ DOMAIN l = 1..Len(l) /\ \A n \in 1..Len(l) : k[n] = l[n]
        /\ Len(k) = Len(l) + 1
    BY <2>2, <2>5
  <2>7. content'[w] = k /\ \A s \in Sections : s # w => content'[s] = content[s]
    BY <2>3 DEF TInv
  <2>8. InOrder(l) /\ Inside(w, l)
    BY <2>1, <2>3 DEF Lists, Sorts, Within
  <2>9. \A n \in 1..Len(l) : l[n].addr <= p /\ (l[n].kind # "placeholder" => l[n].addr < p)
    BY <2>3, <2>6, <2>8 DEF Inside
  <2>10. \A n \in 1..Len(l) : l[n].addr \in Nat
    <3>1. \A n \in 1..Len(l) : l[n] \in Item
      BY <2>5
    <3>2. QED
      BY <3>1 DEF Item
  <2>11. InOrder(k)
    <3>1. SUFFICES ASSUME NEW m \in DOMAIN k, NEW n \in DOMAIN k, m < n
                   PROVE  /\ k[m].addr <= k[n].addr
                          /\ k[m].addr = k[n].addr => k[m].kind = "placeholder"
      BY DEF InOrder
    <3>2. m \in 1..Len(l) /\ k[m] = l[m]
      BY <2>6, <3>1
    <3>3. CASE n = Len(l) + 1
      BY <2>4, <2>5, <2>6, <2>9, <2>10, <3>2, <3>3
    <3>4. CASE n # Len(l) + 1
      <4>1. n \in 1..Len(l) /\ k[n] = l[n]
        BY <2>6, <3>1, <3>4
      <4>2. QED
        BY <2>6, <2>8, <3>1, <3>2, <4>1 DEF InOrder
    <3>5. QED
      BY <3>3, <3>4
  <2>12. Inside(w, k)
    <3>1. SUFFICES ASSUME NEW n \in DOMAIN k
                   PROVE  /\ At(w).addr <= k[n].addr /\ k[n].addr <= End(w)
                          /\ k[n].kind # "placeholder" => k[n].addr < End(w)
      BY DEF Inside
    <3>2. CASE n = Len(l) + 1
      BY <2>3, <2>4, <2>5, <2>6, <3>2 DEF End
    <3>3. CASE n # Len(l) + 1
      <4>1. n \in DOMAIN l /\ k[n] = l[n]
        BY <2>6, <3>3
      <4>2. QED
        BY <2>8, <4>1 DEF Inside
    <3>4. QED
      BY <3>2, <3>3
  <2>13. ASSUME NEW s \in Sections, NEW m \in DOMAIN content'[s]
         PROVE  \/ s = w /\ m = Len(k) /\ content'[s][m] = e
                \/ m \in DOMAIN content[s] /\ content'[s][m] = content[s][m]
    <3>1. CASE s = w
      BY <2>1, <2>6, <2>7, <3>1
    <3>2. CASE s # w
      BY <2>7, <3>2
    <3>3. QED
      BY <3>1, <3>2
  <2>14. p \in DOMAIN owner
    BY <1>3 DEF TInv
  <2>15. Used(content', owner', placeholders')
    <3>1. SUFFICES ASSUME NEW s \in Sections, NEW m \in DOMAIN content'[s],
                          content'[s][m].kind = "placeholder"
                   PROVE  content'[s][m].addr \in DOMAIN owner' \ placeholders'
      BY DEF Used
    <3>2. CASE content'[s][m] = e
      BY <2>3, <2>5, <2>14, <3>2
    <3>3. CASE m \in DOMAIN content[s] /\ content'[s][m] = content[s][m]
      BY <2>3, <3>1, <3>3 DEF Lists, Used
    <3>4. QED
      BY <2>13, <3>2, <3>3
  <2>16. ASSUME NEW q, NEW s \in Sections, NEW m \in DOMAIN content[s],
                content[s][m] = Placeholder(q)
         PROVE  q # p
    <3>1. content[s][m].kind = "placeholder" /\ content[s][m].addr = q
      BY <2>16 DEF Placeholder
    <3>2. QED
      BY <1>3, <3>1 DEF Lists, Used
  <2>17. ASSUME NEW q, NoStart(content, q) PROVE NoStart(content', q)
    <3>1. SUFFICES ASSUME NEW t \in Sections, NEW x \in DOMAIN content'[t],
                          content'[t][x].kind # "placeholder"
                   PROVE  content'[t][x].addr # q
      BY DEF NoStart
    <3>2. QED
      BY <2>5, <2>13, <2>17, <3>1 DEF NoStart
  <2>18. \E s, m : StandsAt(content', owner', p, s, m)
    <3>1. /\ w \in Sections /\ Len(k) \in DOMAIN content'[w] /\ content'[w][Len(k)] = Placeholder(p)
          /\ Len(k) = Len(content'[w])
      BY <2>1, <2>3, <2>6, <2>7
    <3>2. Only(content', p, w, Len(k))
      BY <2>13, <2>16 DEF Only
    <3>3. NoStart(content', p)
      BY <1>3, <2>17, LeftOver DEF Lists, TInv
    <3>4. Rests(content', owner', p, w, Len(k))
      BY <2>3, <3>1, <3>3 DEF Rests
    <3>5. QED
      BY <3>1, <3>2, <3>4 DEF StandsAt
  <2>19. ASSUME NEW q \in DOMAIN owner \ placeholders
         PROVE  \E s, m : StandsAt(content', owner', q, s, m)
    <3>1. PICK s, m : StandsAt(content, owner, q, s, m)
      BY DEF Lists, Stand
    <3>2. /\ s \in Sections /\ m \in DOMAIN content[s] /\ content[s][m] = Placeholder(q)
          /\ Only(content, q, s, m) /\ Rests(content, owner, q, s, m)
      BY <3>1 DEF StandsAt
    <3>3. q # p /\ e # Placeholder(q)
      BY <2>1, <2>16, <3>2 DEF Placeholder
    <3>4. m \in DOMAIN content'[s] /\ content'[s][m] = Placeholder(q)
      BY <2>1, <2>6, <2>7, <3>2
    <3>5. Only(content', q, s, m)
      BY <2>13, <3>2, <3>3 DEF Only
    <3>6. Rests(content', owner', q, s, m)
      <4>1. CASE s # w
        BY <2>7, <2>17, <3>2, <4>1 DEF Rests
      <4>2. CASE s = w /\ m = Len(l)
        BY <2>1, <2>3, <3>2, <3>3, <4>2 DEF Rests
      <4>3. CASE s = w /\ m # Len(l)
        <5>1. l[m + 1].addr = q /\ owner[q] = s
          BY <2>1, <3>2, <4>3 DEF Rests
        <5>2. m + 1 \in 1..Len(l) /\ m # Len(k)
          BY <2>1, <2>6, <3>2, <4>3
        <5>3. k[m + 1] = l[m + 1]
          BY <2>6, <5>2
        <5>4. QED
          BY <2>7, <4>3, <5>1, <5>2, <5>3 DEF Rests
      <4>4. QED
        BY <4>1, <4>2, <4>3
    <3>7. QED
      BY <3>2, <3>4, <3>5, <3>6 DEF StandsAt
  <2>20. DOMAIN owner' \ placeholders' = (DOMAIN owner \ placeholders) \cup {p}
    BY <2>3, <2>14
  <2>21. Stand(content', owner', placeholders')
    BY <2>18, <2>19, <2>20 DEF Stand
  <2>22. Sorts(content') /\ Within(content')
    BY <2>7, <2>11, <2>12 DEF Lists, Sorts, Within
  <2>23. QED
    BY <2>15, <2>21, <2>22 DEF Lists
<1>4. QED
  BY <1>2, <1>3

-----------------------------------------------------------------------------
(* The placeholders not placed yet.                                        *)

Ahead(s) == s[1] > i \/ (s[1] = i /\ s[2] > j)
Behind(s) == s[1] < i \/ (s[1] = i /\ s[2] < j)
Free(s) == \A p \in placeholders : ~ Has(At(s).addr, Size(At(s)), p)

Unplaced == stage \in Early \/ (stage = "resolve" /\ ~ again) => placeholders = DOMAIN owner
Unparsed ==
  /\ stage = "construct" => \A s \in Sections : content[s] = <<>>
  /\ stage = "parse1" => \A s \in Sections :
       /\ Ahead(s) => content[s] = <<>>
       /\ s = <<i, j>> => \A n \in DOMAIN content[s] : content[s][n].addr < At(s).addr + it
Swept ==
  /\ stage = "place" => \A s \in Sections : Behind(s) => Free(s)
  /\ stage = "trail" => \A s \in Sections : Free(s)
Over ==
  /\ again \in BOOLEAN
  /\ again => stage \in {"resolve", "parsed"} /\ placeholders = {}
  /\ stage = "parsed" => again

CInv == Lists(content, owner, placeholders) /\ Unplaced /\ Unparsed /\ Swept /\ Over

LEMMA DrainVmaddrEffect ==
  ASSUME TInv, Known, DrainVmaddr
  PROVE  /\ stage = "resolve" /\ DOMAIN vmaddr.todo # {}
         /\ UNCHANGED <<binary, stage, i, j, c, it, offset, dylib, dice, content, again>>
         /\ \E key : /\ key = First(DOMAIN vmaddr.todo) /\ vmaddr' = DrainEntry(vmaddr, key)
                     /\ IF /\ key \in DOMAIN vmaddr.found /\ vmaddr.found[key][1] = "immediate"
                           /\ \E p \in Waiting(vmaddr, key) : IsRebase(p)
                        THEN /\ key \in DOMAIN immediate /\ immediate[key].value \in Nat
                             /\ Callback(key, immediate[key].value)
                        ELSE UNCHANGED <<immediate, held>>
<1>1. PICK key : key = First(DOMAIN vmaddr.todo)
  OBVIOUS
<1>2. /\ stage = "resolve" /\ DOMAIN vmaddr.todo # {}
      /\ UNCHANGED <<binary, stage, i, j, c, it, offset, dylib, dice, content, again>>
      /\ vmaddr' = DrainEntry(vmaddr, key)
      /\ IF /\ key \in DOMAIN vmaddr.found /\ vmaddr.found[key][1] = "immediate"
            /\ \E p \in Waiting(vmaddr, key) : IsRebase(p)
         THEN Callback(key, immediate[key].value)
         ELSE UNCHANGED <<immediate, held>>
  BY <1>1 DEF DrainVmaddr
<1>3. ASSUME key \in DOMAIN vmaddr.found, vmaddr.found[key][1] = "immediate"
      PROVE  key \in DOMAIN immediate /\ immediate[key].value \in Nat
  <2>1. key \in DOMAIN immediate
    BY <1>3 DEF Known
  <2>2. QED
    BY <2>1 DEF TInv, Immediate
<1>4. QED
  BY <1>1, <1>2, <1>3

LEMMA HeldLists ==
  ASSUME TInv, Lists(content, owner, placeholders), placeholders = DOMAIN owner,
         content' = content,
         UNCHANGED held \/ (\E a \in Nat : \E x, y : Hold(a, x, y))
  PROVE  Lists(content', owner', placeholders') /\ placeholders' = DOMAIN owner'
<1>1. placeholders' = DOMAIN owner'
  <2>1. CASE UNCHANGED held
    BY <2>1 DEF held
  <2>2. CASE \E a \in Nat : \E x, y : Hold(a, x, y)
    BY <2>2, HoldTypes
  <2>3. QED
    BY <2>1, <2>2
<1>2. Lists(content, owner', DOMAIN owner')
  BY NonePut
<1>3. QED
  BY <1>1, <1>2

LEMMA CInit ==
  Init => CInv
<1>. SUFFICES ASSUME NEW b \in Binaries, NewParse(b) PROVE CInv
  BY DEF Init
<1>1. /\ stage = "construct" /\ again = FALSE /\ content = [s \in Sections |-> <<>>]
      /\ owner = NoEntries /\ placeholders = {}
  BY DEF NewParse
<1>2. DOMAIN owner = {}
  BY <1>1 DEF NoEntries
<1>3. \A s \in Sections : content[s] = <<>> /\ DOMAIN content[s] = {}
  BY <1>1
<1>4. Lists(content, owner, placeholders)
  BY <1>1, <1>2, <1>3 DEF Lists, Sorts, InOrder, Within, Inside, Used, Stand
<1>5. QED
  BY <1>1, <1>2, <1>3, <1>4 DEF CInv, Unplaced, Unparsed, Swept, Over

(* A step of the constructors or of Parse1 that leaves the lists alone.    *)
LEMMA EarlyStep ==
  ASSUME TInv, CInv, binary' = binary, stage \in Early,
         content' = content, again' = again,
         UNCHANGED held \/ (\E a \in Nat : \E x, y : Hold(a, x, y)),
         stage' \in Early \cup Failed \cup {"resolve"},
         Unparsed'
  PROVE  CInv'
<1>1. placeholders = DOMAIN owner /\ Lists(content, owner, placeholders) /\ again = FALSE
  BY DEF CInv, Unplaced, Over, Early
<1>2. Lists(content', owner', placeholders') /\ placeholders' = DOMAIN owner'
  BY <1>1, HeldLists
<1>3. Lists(content, owner, placeholders)'
  BY <1>2, SameFile
<1>4. Unplaced' /\ Swept' /\ Over'
  BY <1>1, <1>2 DEF Unplaced, Swept, Over, Early, Failed
<1>5. QED
  BY <1>3, <1>4 DEF CInv

(* The second do_resolve has no address to resolve.                        *)
Quiet == again => DOMAIN vmaddr.todo = {}

LEMMA UnparsedStep ==
  ASSUME TInv, Unparsed, binary' = binary, content' = content,
         \/ stage' \notin Early
         \/ stage = "construct" /\ stage' \in Early
         \/ stage = "parse1" /\ stage' = "parse1" /\ UNCHANGED <<i, j, it>>
  PROVE  Unparsed'
<1>1. Sections' = Sections
  BY DEF Sections
<1>2. CASE stage' \notin Early
  BY <1>2 DEF Unparsed, Early
<1>3. CASE stage = "construct"
  <2>1. \A s \in Sections : content[s] = <<>> /\ DOMAIN content[s] = {}
    BY <1>3 DEF Unparsed
  <2>2. QED
    BY <1>1, <2>1 DEF Unparsed
<1>4. CASE stage = "parse1" /\ stage' = "parse1" /\ UNCHANGED <<i, j, it>>
  BY <1>1, <1>4 DEF Unparsed, Ahead, At
<1>5. QED
  BY <1>2, <1>3, <1>4

LEMMA CEarly ==
  ASSUME TInv, CInv,
         \/ CallHold \/ CallExport \/ CallBind \/ CallRebase \/ CallDice \/ CallDylib \/ CallReloc
         \/ NextCommand \/ Constructed \/ EndSection \/ EndParse1 \/ Parsed1
  PROVE  CInv'
<1>1. Unparsed
  BY DEF CInv
<1>2. CASE CallHold
  <2>1. Hold(Arg.at, 0, 0) /\ Arg.at \in Nat
    BY <1>2, CallingTypes DEF CallHold
  <2>2. /\ UNCHANGED <<binary, stage, i, j, it, content, again>> /\ stage = "construct"
    BY <1>2 DEF CallHold, Calling, built
  <2>3. Unparsed'
    BY <1>1, <2>2, UnparsedStep DEF Early
  <2>4. QED
    BY <2>1, <2>2, <2>3, EarlyStep DEF Early
<1>3. CASE CallExport
  <2>1. /\ Arg.at \in Nat /\ stage = "construct" /\ stage' \in {"construct", "error"}
        /\ UNCHANGED <<binary, content, again>>
    BY <1>3, CallingTypes DEF CallExport, Calling, built
  <2>2. \/ UNCHANGED held
        \/ SectionOf(Arg.at) # {} /\ Hold(ToVmaddr(Arg.at), 0, 0)
    BY <1>3 DEF CallExport
  <2>3. UNCHANGED held \/ (\E a \in Nat : \E x, y : Hold(a, x, y))
    BY <2>1, <2>2, ToVmaddrType DEF TInv
  <2>4. Unparsed'
    BY <1>1, <2>1, UnparsedStep DEF Early
  <2>5. QED
    BY <2>1, <2>3, <2>4, EarlyStep DEF Early, Failed
<1>4. CASE CallBind \/ CallRebase \/ CallDice \/ CallDylib \/ CallReloc
  <2>1. UNCHANGED <<binary, stage, content, held, again>> /\ stage = "construct"
    BY <1>4 DEF CallBind, CallRebase, CallDice, CallDylib, CallReloc, Calling, built
  <2>2. Unparsed'
    BY <1>1, <2>1, UnparsedStep DEF Early
  <2>3. QED
    BY <2>1, <2>2, EarlyStep DEF Early
<1>5. CASE NextCommand \/ Constructed
  <2>1. /\ UNCHANGED <<binary, content, held, again>> /\ stage = "construct"
        /\ stage' \in Early
    BY <1>5 DEF NextCommand, Constructed, built, Early
  <2>2. Unparsed'
    BY <1>1, <2>1, UnparsedStep
  <2>3. QED
    BY <2>1, <2>2, EarlyStep DEF Early
<1>6. CASE EndSection
  <2>1. /\ UNCHANGED <<binary, stage, i, content, held, again>> /\ stage = "parse1"
        /\ j' = j + 1 /\ it' = 0
    BY <1>6 DEF EndSection, Parsing, built
  <2>2. Sections' = Sections
    BY <2>1 DEF Sections
  <2>3. ASSUME NEW s \in Sections, s[1] > i \/ (s[1] = i /\ s[2] > j)
        PROVE  content[s] = <<>> /\ DOMAIN content[s] = {}
    BY <1>1, <2>1, <2>3 DEF Unparsed, Ahead
  <2>4. ASSUME NEW s \in Sections
        PROVE  /\ s[1] > i \/ (s[1] = i /\ s[2] > j + 1) => content[s] = <<>>
               /\ s = <<i, j + 1>> => DOMAIN content[s] = {}
    <3>1. s[1] \in Nat /\ s[2] \in Nat /\ j \in Nat
      BY SectionTypes DEF TInv
    <3>2. QED
      BY <2>3, <3>1
  <2>5. Unparsed'
    BY <2>1, <2>2, <2>4 DEF Unparsed, Ahead
  <2>6. QED
    BY <2>1, <2>5, EarlyStep DEF Early
<1>7. CASE EndParse1
  <2>1. /\ UNCHANGED <<binary, content, again>> /\ stage = "parse1"
        /\ stage' \in {"parse1", "error"} /\ i' = i + 1 /\ j' = 1 /\ it' = it
        /\ i <= Len(binary) /\ j > Len(LC.sects)
    BY <1>7 DEF EndParse1, built
  <2>2. i \in DOMAIN binary
    BY <2>1, CommandTypes DEF TInv
  <2>3. LC.entryoff \in Nat
    BY <2>2, CallTypes DEF LC, TInv
  <2>4. \/ UNCHANGED held
        \/ SectionOf(LC.entryoff) # {} /\ Hold(ToVmaddr(LC.entryoff), 0, 0)
    BY <1>7 DEF EndParse1
  <2>5. UNCHANGED held \/ (\E a \in Nat : \E x, y : Hold(a, x, y))
    BY <2>3, <2>4, ToVmaddrType DEF TInv
  <2>6. Sections' = Sections
    BY <2>1 DEF Sections
  <2>7. ASSUME NEW s \in Sections, s[1] > i
        PROVE  content[s] = <<>> /\ DOMAIN content[s] = {}
    BY <1>1, <2>1, <2>7 DEF Unparsed, Ahead
  <2>8. ASSUME NEW s \in Sections
        PROVE  /\ s[1] > i + 1 \/ (s[1] = i + 1 /\ s[2] > 1) => content[s] = <<>>
               /\ s = <<i + 1, 1>> => DOMAIN content[s] = {}
    <3>1. s[1] \in Nat /\ i \in Nat
      BY SectionTypes DEF TInv
    <3>2. QED
      BY <2>7, <3>1
  <2>9. Unparsed'
    BY <2>1, <2>6, <2>8 DEF Unparsed, Ahead
  <2>10. QED
    BY <2>1, <2>5, <2>9, EarlyStep DEF Early, Failed
<1>8. CASE Parsed1
  <2>1. UNCHANGED <<binary, content, held, again>> /\ stage = "parse1" /\ stage' = "resolve"
    BY <1>8 DEF Parsed1, built
  <2>2. Unparsed'
    BY <1>1, <2>1, UnparsedStep DEF Early
  <2>3. QED
    BY <2>1, <2>2, EarlyStep DEF Early
<1>9. QED
  BY <1>2, <1>3, <1>4, <1>5, <1>6, <1>7, <1>8

LEMMA CParseBlob ==
  ASSUME TInv, CInv, ParseBlob
  PROVE  CInv'
<1>1. /\ Parsing /\ it < Size(Sect) /\ stage = "parse1"
      /\ UNCHANGED <<binary, i, j, c, dylib, dice, again>>
  BY ParseBlobEffect
<1>2. CASE stage' = "clash" /\ UNCHANGED <<it, vmaddr, offset, held, built>>
  <2>1. Unparsed'
    BY <1>2 DEF Unparsed
  <2>2. QED
    BY <1>1, <1>2, <2>1, EarlyStep DEF Early, Failed, built
<1>3. CASE ~ (stage' = "clash" /\ UNCHANGED <<it, vmaddr, offset, held, built>>)
  <2>1. PICK d, a, w : d = Decode /\ a = Here.vmaddr /\ w = <<i, j>>
    OBVIOUS
  <2>2. /\ UNCHANGED stage /\ it' = it + d.size
        /\ UNCHANGED held \/ Hold(d.value, i, j)
        /\ content' = [content EXCEPT ![w] = Append(@, [addr |-> a, kind |-> d.kind])]
    BY <1>3, <2>1, ParseBlobEffect
  <2>3. /\ w \in Sections /\ Sect = At(w) /\ At(w).addr \in Nat /\ Size(At(w)) \in Nat
        /\ content[w] \in Seq(Item) /\ End(w) = At(w).addr + Size(At(w)) /\ it \in Nat
    BY <1>1, <2>1, SectFacts DEF Parsing, TInv
  <2>4. /\ d.kind \in Kinds /\ d.size \in Nat \ {0} /\ d.value \in Nat /\ a = At(w).addr + it
    BY <1>1, <2>1, <2>3, DecodeTypes
  <2>5. a \in Nat /\ At(w).addr <= a /\ a < End(w) /\ a < At(w).addr + it'
    <3>1. PICK x, z, q : x = At(w).addr /\ z = Size(At(w)) /\ q = d.size
      OBVIOUS
    <3>2. x \in Nat /\ z \in Nat /\ q \in Nat \ {0} /\ it \in Nat /\ a = x + it /\ End(w) = x + z
      BY <2>3, <2>4, <3>1
    <3>3. it < z /\ it' = it + q
      BY <1>1, <2>2, <2>3, <3>1
    <3>4. a \in Nat /\ x <= a /\ a < End(w) /\ a < x + it'
      BY <3>2, <3>3
    <3>5. QED
      BY <3>1, <3>4
  <2>6. placeholders = DOMAIN owner /\ Lists(content, owner, placeholders) /\ again = FALSE
    BY <1>1 DEF CInv, Unplaced, Over, Early
  <2>7. \A n \in DOMAIN content[w] : content[w][n].addr < At(w).addr + it
    BY <1>1, <2>1, <2>3 DEF CInv, Unparsed
  <2>8. Lists(content', owner', DOMAIN owner')
    <3>1. Lists(content, owner, DOMAIN owner)
      BY <2>6
    <3>2. \A n \in DOMAIN content[w] : content[w][n].addr < a
      BY <2>4, <2>7
    <3>3. PICK kind : kind = d.kind
      OBVIOUS
    <3>4. content' = [content EXCEPT ![w] = Append(@, [addr |-> a, kind |-> kind])]
      BY <2>2, <3>3
    <3>5. kind \in Kinds
      BY <2>4, <3>3
    <3>6. QED
      BY <2>3, <2>5, <3>1, <3>2, <3>4, <3>5, AppendedLists
  <2>9. placeholders' = DOMAIN owner'
    BY <2>2, <2>4, <2>6, HoldTypes DEF held
  <2>10. Lists(content, owner, placeholders)'
    BY <1>1, <2>8, <2>9, SameFile
  <2>11. Unparsed'
    <3>1. Sections' = Sections
      BY <1>1 DEF Sections
    <3>2. PICK k : k = Append(content[w], [addr |-> a, kind |-> d.kind])
      OBVIOUS
    <3>3. content'[w] = k /\ \A s \in Sections : s # w => content'[s] = content[s]
      BY <2>2, <2>3, <3>2 DEF TInv
    <3>4. \A n \in DOMAIN k : k[n].addr < At(w).addr + it'
      <4>1. [addr |-> a, kind |-> d.kind] \in Item
        BY <2>4, <2>5 DEF Item
      <4>2. PICK e : e = [addr |-> a, kind |-> d.kind]
        OBVIOUS
      <4>3. \A n \in DOMAIN k : \/ k[n] = e
                                \/ n \in DOMAIN content[w] /\ k[n] = content[w][n]
        BY <2>3, <3>2, <4>1, <4>2
      <4>4. \A n \in DOMAIN content[w] : content[w][n].addr \in Nat
        <5>1. \A n \in DOMAIN content[w] : content[w][n] \in Item
          BY <2>3
        <5>2. QED
          BY <5>1 DEF Item
      <4>5. e.addr = a
        BY <4>2
      <4>6. QED
        <5>1. At(w).addr + it \in Nat /\ At(w).addr + it' \in Nat /\ At(w).addr + it <= At(w).addr + it'
          <6>1. PICK x, y, q : x = At(w).addr /\ y = it' /\ q = d.size
            OBVIOUS
          <6>2. x \in Nat /\ it \in Nat /\ q \in Nat \ {0} /\ y = it + q
            BY <2>2, <2>3, <2>4, <6>1
          <6>3. x + it \in Nat /\ x + y \in Nat /\ x + it <= x + y
            BY <6>2
          <6>4. QED
            BY <6>1, <6>3
        <5>2. \A n \in DOMAIN content[w] : content[w][n].addr < At(w).addr + it'
          BY <2>7, <4>4, <5>1
        <5>3. QED
          BY <2>5, <4>3, <4>5, <5>2
    <3>5. ASSUME NEW s \in Sections, Ahead(s) PROVE content'[s] = <<>>
      <4>1. content[s] = <<>>
        BY <1>1, <3>5 DEF CInv, Unparsed
      <4>2. s # w
        BY <2>1, <3>5 DEF Ahead, TInv
      <4>3. QED
        BY <3>3, <4>1, <4>2
    <3>6. QED
      BY <1>1, <2>1, <2>2, <3>1, <3>3, <3>4, <3>5 DEF Unparsed, Ahead, At
  <2>12. Unplaced' /\ Swept' /\ Over'
    BY <1>1, <2>2, <2>6, <2>9 DEF Unplaced, Swept, Over, Early
  <2>13. QED
    BY <2>10, <2>11, <2>12 DEF CInv
<1>4. QED
  BY <1>2, <1>3

(* The lists, the placeholders and the file stay what they are.            *)
LEMMA SameLists ==
  ASSUME TInv, CInv, UNCHANGED <<binary, held, content, again>>, stage \notin Early,
         stage' \notin Early, Swept', Unplaced', Over'
  PROVE  CInv'
<1>1. Lists(content', owner', placeholders')
  BY DEF CInv, held
<1>2. Lists(content, owner, placeholders)'
  BY <1>1, SameFile
<1>3. Unparsed'
  BY DEF Unparsed, Early
<1>4. QED
  BY <1>2, <1>3 DEF CInv

LEMMA CResolve ==
  ASSUME TInv, CInv, Known, Quiet, DrainOffset \/ DrainVmaddr \/ Resolved
  PROVE  CInv'
<1>1. CASE DrainOffset
  <2>1. UNCHANGED <<binary, stage, held, content, again>> /\ stage = "resolve"
    BY <1>1 DEF DrainOffset, built
  <2>2. Swept' /\ Unplaced' /\ Over'
    BY <2>1 DEF CInv, Swept, Unplaced, Over, Early, held
  <2>3. QED
    BY <2>1, <2>2, SameLists DEF Early
<1>2. CASE DrainVmaddr
  <2>1. /\ stage = "resolve" /\ DOMAIN vmaddr.todo # {}
        /\ UNCHANGED <<binary, stage, content, again>>
    BY <1>2, DrainVmaddrEffect
  <2>2. UNCHANGED held \/ (\E a \in Nat : \E x, y : Hold(a, x, y))
    BY <1>2, DrainVmaddrEffect DEF Callback
  <2>3. again = FALSE /\ placeholders = DOMAIN owner /\ Lists(content, owner, placeholders)
    BY <2>1 DEF Quiet, CInv, Over, Unplaced
  <2>4. Lists(content', owner', placeholders') /\ placeholders' = DOMAIN owner'
    BY <2>1, <2>2, <2>3, HeldLists
  <2>5. Lists(content, owner, placeholders)'
    BY <2>1, <2>4, SameFile
  <2>6. Swept' /\ Unplaced' /\ Over' /\ Unparsed'
    BY <2>1, <2>3, <2>4 DEF Swept, Unplaced, Over, Unparsed
  <2>7. QED
    BY <2>5, <2>6 DEF CInv
<1>3. CASE Resolved
  <2>1. /\ UNCHANGED <<binary, held, content, again>> /\ stage = "resolve"
        /\ stage' = IF again THEN "parsed" ELSE "place"
        /\ i' = 1 /\ j' = 1
    BY <1>3 DEF Resolved, built
  <2>2. Sections' = Sections
    BY <2>1 DEF Sections
  <2>3. \A s \in Sections : ~ (s[1] < 1) /\ ~ (s[2] < 1)
    BY SectionTypes DEF TInv
  <2>4. Swept'
    BY <2>1, <2>2, <2>3 DEF Swept, Behind
  <2>5. Unplaced' /\ Over'
    BY <2>1 DEF CInv, Unplaced, Over, Early, held
  <2>6. QED
    BY <2>1, <2>4, <2>5, SameLists DEF Early
<1>4. QED
  BY <1>1, <1>2, <1>3

LEMMA CSweep ==
  ASSUME TInv, CInv, SectionPlaced \/ CommandPlaced \/ AllPlaced \/ Finish
  PROVE  CInv'
<1>1. CASE SectionPlaced
  <2>1. /\ UNCHANGED <<binary, stage, i, held, content, again>> /\ stage = "place"
        /\ j' = j + 1 /\ InSection = {} /\ Placing
    BY <1>1 DEF SectionPlaced, Placing, built
  <2>2. Sections' = Sections
    BY <2>1 DEF Sections
  <2>3. <<i, j>> \in Sections /\ Sect = At(<<i, j>>)
    BY <2>1, SectFacts DEF Placing
  <2>4. Free(<<i, j>>)
    BY <2>1, <2>3 DEF Free, InSection
  <2>5. ASSUME NEW s \in Sections, s[1] < i \/ (s[1] = i /\ s[2] < j + 1)
        PROVE  Free(s)
    <3>1. s = <<s[1], s[2]>> /\ s[1] \in Nat /\ s[2] \in Nat /\ j \in Nat
      BY SectionTypes DEF TInv
    <3>2. CASE s[2] = j /\ s[1] = i
      BY <2>4, <3>1, <3>2
    <3>3. CASE ~ (s[2] = j /\ s[1] = i)
      <4>1. Behind(s)
        BY <2>5, <3>1, <3>3 DEF Behind
      <4>2. QED
        BY <2>1, <4>1 DEF CInv, Swept
    <3>4. QED
      BY <3>2, <3>3
  <2>6. Swept'
    BY <2>1, <2>2, <2>5 DEF Swept, Behind, Free, At, Size, held
  <2>7. Unplaced' /\ Over'
    BY <2>1 DEF CInv, Unplaced, Over, Early, held
  <2>8. QED
    BY <2>1, <2>6, <2>7, SameLists DEF Early
<1>2. CASE CommandPlaced
  <2>1. /\ UNCHANGED <<binary, stage, held, content, again>> /\ stage = "place"
        /\ i' = i + 1 /\ j' = 1 /\ i <= Len(binary) /\ j > Len(LC.sects)
    BY <1>2 DEF CommandPlaced, built
  <2>2. Sections' = Sections
    BY <2>1 DEF Sections
  <2>3. ASSUME NEW s \in Sections, s[1] < i + 1 \/ (s[1] = i + 1 /\ s[2] < 1)
        PROVE  Free(s)
    <3>1. /\ s = <<s[1], s[2]>> /\ s[1] \in Nat /\ s[2] \in Nat \ {0} /\ j \in Nat /\ i \in Nat
          /\ s[1] \in DOMAIN binary /\ s[2] \in DOMAIN binary[s[1]].sects
      BY SectionTypes DEF TInv
    <3>2. s[1] = i => s[2] < j
      <4>1. SUFFICES ASSUME s[1] = i PROVE s[2] < j
        OBVIOUS
      <4>2. s[2] \in 1..Len(LC.sects) /\ Len(LC.sects) \in Nat
        BY <3>1, <4>1, SectTypes DEF LC, TInv
      <4>3. QED
        BY <2>1, <3>1, <4>2
    <3>3. Behind(s)
      BY <2>3, <3>1, <3>2 DEF Behind
    <3>4. QED
      BY <2>1, <3>3 DEF CInv, Swept
  <2>4. Swept'
    BY <2>1, <2>2, <2>3 DEF Swept, Behind, Free, At, Size, held
  <2>5. Unplaced' /\ Over'
    BY <2>1 DEF CInv, Unplaced, Over, Early, held
  <2>6. QED
    BY <2>1, <2>4, <2>5, SameLists DEF Early
<1>3. CASE AllPlaced
  <2>1. /\ UNCHANGED <<binary, held, content, again>> /\ stage = "place" /\ stage' = "trail"
        /\ i > Len(binary)
    BY <1>3 DEF AllPlaced, built
  <2>2. Sections' = Sections
    BY <2>1 DEF Sections
  <2>3. ASSUME NEW s \in Sections PROVE Free(s)
    <3>1. s[1] \in 1..Len(binary) /\ Len(binary) \in Nat /\ i \in Nat
      BY SectionTypes, CommandTypes DEF TInv
    <3>2. Behind(s)
      BY <2>1, <3>1 DEF Behind
    <3>3. QED
      BY <2>1, <3>2 DEF CInv, Swept
  <2>4. Swept'
    BY <2>1, <2>2, <2>3 DEF Swept, Free, At, Size, held
  <2>5. Unplaced' /\ Over'
    BY <2>1 DEF CInv, Unplaced, Over, Early, held
  <2>6. QED
    BY <2>1, <2>4, <2>5, SameLists DEF Early
<1>4. CASE Finish
  <2>1. /\ UNCHANGED <<binary, content, held>> /\ stage = "trail"
        /\ \/ stage' = "error" /\ UNCHANGED again
           \/ placeholders = {} /\ stage' = "resolve" /\ again' = TRUE
    BY <1>4 DEF Finish, built
  <2>2. Lists(content', owner', placeholders')
    BY <2>1 DEF CInv, held
  <2>3. Lists(content, owner, placeholders)'
    BY <2>1, <2>2, SameFile
  <2>4. again = FALSE
    BY <2>1 DEF CInv, Over
  <2>5. CASE stage' = "error" /\ UNCHANGED again
    BY <2>3, <2>4, <2>5 DEF CInv, Unplaced, Unparsed, Swept, Over, Early
  <2>6. CASE placeholders = {} /\ stage' = "resolve" /\ again' = TRUE
    <3>1. placeholders' = {}
      BY <2>1, <2>6 DEF held
    <3>2. QED
      BY <2>3, <2>6, <3>1 DEF CInv, Unplaced, Unparsed, Swept, Over, Early
  <2>7. QED
    BY <2>1, <2>5, <2>6
<1>5. QED
  BY <1>1, <1>2, <1>3, <1>4

LEMMA CPlace ==
  ASSUME TInv, CInv, Place \/ Trail
  PROVE  CInv'
<1>1. CASE Place
  <2>1. /\ Placing /\ stage = "place" /\ UNCHANGED <<binary, i, j, again>>
        /\ \/ stage' \in {"error", "misplaced"} /\ UNCHANGED <<held, content>>
           \/ UNCHANGED stage /\ \E p, n : PutInFront(p, n)
    BY <1>1, PlaceEffect
  <2>2. CASE stage' \in {"error", "misplaced"} /\ UNCHANGED <<held, content>>
    <3>1. Swept' /\ Unplaced' /\ Over'
      BY <2>1, <2>2 DEF CInv, Swept, Unplaced, Over, Early
    <3>2. QED
      BY <2>1, <2>2, <3>1, SameLists DEF Early
  <2>3. CASE UNCHANGED stage /\ \E p, n : PutInFront(p, n)
    <3>1. PICK p, n : PutInFront(p, n)
      BY <2>3
    <3>2. <<i, j>> \in Sections /\ Sect = At(<<i, j>>)
      BY <2>1, SectFacts DEF Placing
    <3>3. Lists(content', owner', placeholders')
      BY <3>1, <3>2, InsertedLists DEF CInv
    <3>4. Lists(content, owner, placeholders)'
      BY <2>1, <3>3, SameFile
    <3>5. placeholders' \subseteq placeholders
      BY <3>1 DEF PutInFront
    <3>6. Sections' = Sections
      BY <2>1 DEF Sections
    <3>7. Swept'
      BY <2>1, <2>3, <3>5, <3>6 DEF CInv, Swept, Behind, Free, At, Size
    <3>8. Unplaced' /\ Unparsed' /\ Over'
      BY <2>1, <2>3 DEF CInv, Unplaced, Unparsed, Over, Early
    <3>9. QED
      BY <3>4, <3>7, <3>8 DEF CInv
  <2>4. QED
    BY <2>1, <2>2, <2>3
<1>2. CASE Trail
  <2>1. /\ stage = "trail" /\ UNCHANGED <<binary, stage, owner, again>>
        /\ \/ UNCHANGED <<placeholders, content>>
           \/ <<i, j>> \in Sections /\ PutAtEnd
    BY <1>2, TrailEffect
  <2>2. Lists(content', owner', placeholders') /\ placeholders' \subseteq placeholders
    <3>1. CASE UNCHANGED <<placeholders, content>>
      BY <2>1, <3>1 DEF CInv
    <3>2. CASE <<i, j>> \in Sections /\ PutAtEnd
      <4>1. \A s \in Sections : \A p \in placeholders : ~ Has(At(s).addr, Size(At(s)), p)
        BY <2>1 DEF CInv, Swept, Free
      <4>2. QED
        BY <2>1, <3>2, <4>1, TrailedLists DEF CInv, PutAtEnd
    <3>3. QED
      BY <2>1, <3>1, <3>2
  <2>3. Lists(content, owner, placeholders)'
    BY <2>1, <2>2, SameFile
  <2>4. Sections' = Sections
    BY <2>1 DEF Sections
  <2>5. Swept'
    BY <2>1, <2>2, <2>4 DEF CInv, Swept, Free, At, Size
  <2>6. Unplaced' /\ Unparsed' /\ Over'
    BY <2>1 DEF CInv, Unplaced, Unparsed, Over, Early
  <2>7. QED
    BY <2>3, <2>5, <2>6 DEF CInv
<1>3. QED
  BY <1>1, <1>2

LEMMA CStep ==
  ASSUME TInv, CInv, Known, Quiet, [Next]_vars
  PROVE  CInv'
<1>1. CASE UNCHANGED vars
  <2>1. /\ UNCHANGED <<binary, stage, i, j, it, content, owner, placeholders, again>>
    BY <1>1 DEF vars
  <2>2. Lists(content', owner', placeholders')
    BY <2>1 DEF CInv
  <2>3. Lists(content, owner, placeholders)' /\ Sections' = Sections
    BY <2>1, <2>2, SameFile
  <2>4. Unplaced' /\ Unparsed' /\ Swept' /\ Over'
    BY <2>1, <2>3 DEF CInv, Unplaced, Unparsed, Ahead, At, Swept, Behind, Free, Size, Over
  <2>5. QED
    BY <2>3, <2>4 DEF CInv
<1>2. QED
  BY <1>1, CEarly, CParseBlob, CResolve, CSweep, CPlace DEF Next

-----------------------------------------------------------------------------
(* The calls of the constructors that were made, the places Parse1 passed. *)

Calls == UNION {{<<x, k>> : k \in DOMAIN binary[x].calls} : x \in DOMAIN binary}
Ran == {p \in Calls : stage # "construct" \/ p[1] < i \/ (p[1] = i /\ p[2] < c)}
Seen ==
  {q \in Nat \X Nat \X Nat :
     \/ stage \notin Early
     \/ /\ stage = "parse1"
        /\ \/ q[1] < i
           \/ q[1] = i /\ (q[2] < j \/ (q[2] = j /\ q[3] < At(<<q[1], q[2]>>).addr + it))}

CallOf(b, p) == b[p[1]].calls[p[2]]

LEMMA CallFacts ==
  ASSUME binary \in Binaries, NEW p \in Calls
  PROVE  /\ p = <<p[1], p[2]>> /\ p[1] \in DOMAIN binary /\ p[2] \in DOMAIN binary[p[1]].calls
         /\ p[1] \in Nat \ {0} /\ p[2] \in Nat \ {0} /\ p[1] <= Len(binary)
         /\ p[2] <= Len(binary[p[1]].calls)
         /\ CallOf(binary, p) \in Call
         /\ CallOf(binary, p).at \in Nat /\ CallOf(binary, p).n \in Nat
<1>1. PICK x \in DOMAIN binary : \E k \in DOMAIN binary[x].calls : p = <<x, k>>
  BY DEF Calls
<1>2. PICK k \in DOMAIN binary[x].calls : p = <<x, k>>
  BY <1>1
<1>3. p[1] = x /\ p[2] = k /\ CallOf(binary, p) = binary[x].calls[k]
  BY <1>2 DEF CallOf
<1>4. x \in 1..Len(binary) /\ Len(binary) \in Nat
  BY CommandTypes
<1>5. k \in 1..Len(binary[x].calls) /\ Len(binary[x].calls) \in Nat
  BY CallTypes
<1>6. binary[x].calls[k] \in Call /\ binary[x].calls[k].at \in Nat /\ binary[x].calls[k].n \in Nat
  BY CallTypes
<1>7. QED
  BY <1>2, <1>3, <1>4, <1>5, <1>6

LEMMA RanCall ==
  ASSUME TInv, NEW op, Calling(op), UNCHANGED <<binary, stage, i>>, c' = c + 1
  PROVE  /\ Ran' = Ran \cup {<<i, c>>}
         /\ <<i, c>> \in Calls /\ <<i, c>> \notin Ran
         /\ CallOf(binary, <<i, c>>) = Arg /\ Arg.op = op
<1>1. /\ i \in DOMAIN binary /\ c \in DOMAIN binary[i].calls /\ stage = "construct"
      /\ Arg = binary[i].calls[c] /\ Arg.op = op
  BY CallingTypes DEF LC, Calling
<1>2. <<i, c>> \in Calls
  BY <1>1 DEF Calls
<1>3. <<i, c>> \notin Ran
  BY <1>1 DEF Ran, TInv
<1>4. Calls' = Calls
  BY DEF Calls
<1>5. ASSUME NEW p \in Calls
      PROVE  (p[1] < i \/ (p[1] = i /\ p[2] < c + 1)) <=> (p \in Ran \/ p = <<i, c>>)
  <2>1. p = <<p[1], p[2]>> /\ p[1] \in Nat /\ p[2] \in Nat
    BY CallFacts DEF TInv
  <2>2. i \in Nat /\ c \in Nat
    BY DEF TInv
  <2>3. QED
    BY <1>1, <2>1, <2>2 DEF Ran
<1>6. Ran' = {p \in Calls : p[1] < i \/ (p[1] = i /\ p[2] < c + 1)}
  BY <1>1, <1>4 DEF Ran
<1>7. Ran \subseteq Calls
  BY DEF Ran
<1>8. QED
  BY <1>1, <1>2, <1>3, <1>5, <1>6, <1>7 DEF CallOf

LEMMA RanNone ==
  ASSUME binary \in Binaries, stage = "construct", i = 1, c = 1
  PROVE  Ran = {}
<1>1. \A p \in Calls : ~ (p[1] < 1) /\ ~ (p[2] < 1)
  BY CallFacts
<1>2. QED
  BY <1>1 DEF Ran

LEMMA RanSame ==
  ASSUME TInv, UNCHANGED binary,
         \/ UNCHANGED <<stage, i, c>>
         \/ stage # "construct" /\ stage' # "construct"
         \/ NextCommand \/ Constructed
  PROVE  Ran' = Ran
<1>1. Calls' = Calls
  BY DEF Calls
<1>2. CASE UNCHANGED <<stage, i, c>>
  BY <1>1, <1>2 DEF Ran
<1>3. CASE stage # "construct" /\ stage' # "construct"
  BY <1>1, <1>3 DEF Ran
<1>4. CASE NextCommand
  <2>1. /\ stage = "construct" /\ stage' = stage /\ i' = i + 1 /\ c' = 1
        /\ i <= Len(binary) /\ c > Len(LC.calls)
    BY <1>4 DEF NextCommand
  <2>2. ASSUME NEW p \in Calls
        PROVE  (p[1] < i + 1 \/ (p[1] = i + 1 /\ p[2] < 1)) <=> (p[1] < i \/ (p[1] = i /\ p[2] < c))
    <3>1. p[1] \in Nat /\ p[2] \in Nat \ {0} /\ p[1] \in DOMAIN binary
          /\ p[2] <= Len(binary[p[1]].calls)
      BY CallFacts DEF TInv
    <3>2. i \in Nat /\ c \in Nat
      BY DEF TInv
    <3>3. p[1] = i => p[2] < c
      <4>1. SUFFICES ASSUME p[1] = i PROVE p[2] < c
        OBVIOUS
      <4>2. Len(LC.calls) \in Nat /\ p[2] <= Len(LC.calls)
        BY <3>1, <4>1, CallTypes DEF LC, TInv
      <4>3. QED
        BY <2>1, <3>1, <3>2, <4>2
    <3>4. QED
      BY <3>1, <3>2, <3>3
  <2>3. QED
    BY <1>1, <2>1, <2>2 DEF Ran
<1>5. CASE Constructed
  <2>1. stage = "construct" /\ i > Len(binary) /\ stage' = "parse1"
    BY <1>5 DEF Constructed
  <2>2. ASSUME NEW p \in Calls PROVE p[1] < i
    <3>1. p[1] \in Nat /\ p[1] <= Len(binary)
      BY CallFacts DEF TInv
    <3>2. Len(binary) \in Nat /\ i \in Nat
      BY CommandTypes DEF TInv
    <3>3. QED
      BY <2>1, <3>1, <3>2
  <2>3. QED
    BY <1>1, <2>1, <2>2 DEF Ran
<1>6. QED
  BY <1>2, <1>3, <1>4, <1>5

LEMMA SeenGrows ==
  ASSUME TInv, UNCHANGED binary,
         \/ stage = "construct"
         \/ stage' \notin Early
         \/ UNCHANGED <<stage, i, j, it>>
         \/ Parsing /\ stage' = "parse1" /\ UNCHANGED <<i, j>> /\ it' \in Nat /\ it <= it'
         \/ EndSection \/ EndParse1
  PROVE  Seen \subseteq Seen'
<1>1. CASE stage = "construct" \/ stage' \notin Early
  BY <1>1 DEF Seen, Early
<1>2. CASE UNCHANGED <<stage, i, j, it>>
  BY <1>2 DEF Seen, At
<1>3. CASE Parsing /\ stage' = "parse1" /\ UNCHANGED <<i, j>> /\ it' \in Nat /\ it <= it'
  <2>0. stage = "parse1" /\ At(<<i, j>>).addr \in Nat /\ it \in Nat /\ i \in Nat /\ j \in Nat
    BY <1>3, SectFacts DEF Parsing, TInv
  <2>1. ASSUME NEW q \in Seen PROVE q \in Seen'
    <3>1. q \in Nat \X Nat \X Nat
      BY DEF Seen
    <3>2. CASE q[1] = i /\ q[2] = j
      <4>1. q[3] < At(<<i, j>>).addr + it
        BY <2>0, <3>2 DEF Seen, Early
      <4>2. q[3] < At(<<i, j>>).addr + it'
        BY <1>3, <2>0, <3>1, <4>1
      <4>3. QED
        BY <1>3, <3>1, <3>2, <4>2 DEF Seen, At
    <3>3. CASE ~ (q[1] = i /\ q[2] = j)
      BY <1>3, <2>0, <3>1, <3>3 DEF Seen, Early
    <3>4. QED
      BY <3>2, <3>3
  <2>2. QED
    BY <2>1
<1>4. CASE EndSection
  <2>1. stage = "parse1" /\ stage' = "parse1" /\ i' = i /\ j' = j + 1 /\ i \in Nat /\ j \in Nat
    BY <1>4 DEF EndSection, Parsing, TInv
  <2>2. ASSUME NEW q \in Seen PROVE q \in Seen'
    <3>1. q \in Nat \X Nat \X Nat
      BY DEF Seen
    <3>2. q[1] < i \/ (q[1] = i /\ q[2] < j + 1)
      BY <2>1, <3>1 DEF Seen, Early
    <3>3. QED
      BY <2>1, <3>1, <3>2 DEF Seen
  <2>3. QED
    BY <2>2
<1>5. CASE EndParse1
  <2>1. stage = "parse1" /\ stage' \in {"parse1", "error"} /\ i' = i + 1 /\ i \in Nat
    BY <1>5 DEF EndParse1, TInv
  <2>2. ASSUME NEW q \in Seen PROVE q \in Seen'
    <3>1. q \in Nat \X Nat \X Nat
      BY DEF Seen
    <3>2. q[1] < i + 1
      BY <2>1, <3>1 DEF Seen, Early
    <3>3. QED
      BY <2>1, <3>1, <3>2 DEF Seen, Early
  <2>3. QED
    BY <2>2
<1>6. QED
  BY <1>1, <1>2, <1>3, <1>4, <1>5

CallStep == \/ CallHold \/ CallExport \/ CallBind \/ CallRebase
            \/ CallDice \/ CallDylib \/ CallReloc

(* What was called stays called and what was passed stays passed.          *)
Onward ==
  /\ binary' = binary /\ stage \notin Failed
  /\ stage \notin Early => stage' \notin Early
  /\ stage' = "construct" => stage = "construct"
  /\ stage' \notin Failed => Ran \subseteq Ran' /\ Seen \subseteq Seen'

LEMMA OnwardCall ==
  ASSUME TInv, CallStep
  PROVE  /\ Onward /\ stage = "construct"
         /\ stage' \notin Failed =>
              /\ Ran' = Ran \cup {<<i, c>>} /\ <<i, c>> \in Calls /\ <<i, c>> \notin Ran
              /\ CallOf(binary, <<i, c>>) = Arg
<1>1. /\ stage = "construct" /\ UNCHANGED <<binary, i>> /\ c' = c + 1
      /\ stage' \notin Failed => UNCHANGED stage
  BY DEF CallStep, CallHold, CallExport, CallBind, CallRebase, CallDice, CallDylib, CallReloc,
     Calling, Failed
<1>2. \E op : Calling(op)
  BY DEF CallStep, CallHold, CallExport, CallBind, CallRebase, CallDice, CallDylib, CallReloc
<1>3. Seen \subseteq Seen'
  BY <1>1, SeenGrows
<1>4. stage' \notin Failed =>
        /\ Ran' = Ran \cup {<<i, c>>} /\ <<i, c>> \in Calls /\ <<i, c>> \notin Ran
        /\ CallOf(binary, <<i, c>>) = Arg
  BY <1>1, <1>2, RanCall
<1>5. QED
  BY <1>1, <1>3, <1>4 DEF Onward, Early, Failed

LEMMA OnwardEarly ==
  ASSUME TInv, NextCommand \/ Constructed \/ ParseBlob \/ EndSection \/ EndParse1 \/ Parsed1
  PROVE  /\ Onward /\ stage \in Early
         /\ stage' \notin Failed => Ran' = Ran
<1>1. CASE NextCommand \/ Constructed
  <2>1. binary' = binary /\ stage = "construct"
    BY <1>1 DEF NextCommand, Constructed
  <2>2. Ran' = Ran /\ Seen \subseteq Seen'
    BY <1>1, <2>1, RanSame, SeenGrows
  <2>3. QED
    BY <2>1, <2>2 DEF Onward, Early, Failed
<1>2. CASE EndSection \/ EndParse1 \/ Parsed1
  <2>1. binary' = binary /\ stage = "parse1" /\ stage' # "construct"
    BY <1>2 DEF EndSection, Parsing, EndParse1, Parsed1
  <2>2. Ran' = Ran
    BY <2>1, RanSame
  <2>3. Parsed1 => stage' \notin Early
    BY DEF Parsed1, Early
  <2>4. Seen \subseteq Seen'
    BY <1>2, <2>1, <2>3, SeenGrows
  <2>5. QED
    BY <2>1, <2>2, <2>4 DEF Onward, Early, Failed
<1>3. CASE ParseBlob
  <2>1. /\ Parsing /\ it < Size(Sect) /\ stage = "parse1" /\ UNCHANGED <<binary, i, j, c>>
        /\ stage' = "clash" \/ (UNCHANGED stage /\ it' = it + Decode.size)
    BY <1>3, ParseBlobEffect
  <2>2. Ran' = Ran
    BY <2>1, RanSame
  <2>3. CASE stage' = "clash"
    BY <2>1, <2>2, <2>3 DEF Onward, Early, Failed
  <2>4. CASE UNCHANGED stage /\ it' = it + Decode.size
    <3>1. Decode.size \in Nat /\ it \in Nat
      BY <2>1, DecodeTypes DEF TInv
    <3>2. it' \in Nat /\ it <= it'
      BY <2>4, <3>1
    <3>3. Seen \subseteq Seen'
      BY <2>1, <2>4, <3>2, SeenGrows
    <3>4. QED
      BY <2>1, <2>2, <2>4, <3>3 DEF Onward, Early, Failed
  <2>5. QED
    BY <2>1, <2>3, <2>4
<1>4. QED
  BY <1>1, <1>2, <1>3

LateStep == \/ DrainOffset \/ DrainVmaddr \/ Resolved
            \/ Place \/ SectionPlaced \/ CommandPlaced \/ AllPlaced \/ Trail \/ Finish

LEMMA OnwardLate ==
  ASSUME TInv, Known, LateStep
  PROVE  /\ Onward /\ Ran' = Ran /\ stage \notin Early /\ stage' \notin Early
<1>1. /\ binary' = binary /\ stage \in {"resolve", "place", "trail"}
      /\ stage' \notin Early
  <2>1. CASE DrainOffset \/ DrainVmaddr \/ Resolved
    BY <2>1 DEF DrainOffset, DrainVmaddr, Resolved, Early
  <2>2. CASE Place
    <3>1. binary' = binary /\ stage = "place" /\ (stage' \in {"error", "misplaced"} \/ UNCHANGED stage)
      BY <2>2, PlaceEffect
    <3>2. QED
      BY <3>1 DEF Early
  <2>3. CASE SectionPlaced \/ CommandPlaced \/ AllPlaced \/ Finish
    BY <2>3 DEF SectionPlaced, CommandPlaced, AllPlaced, Finish, Placing, Early
  <2>4. CASE Trail
    BY <2>4, TrailEffect DEF Early
  <2>5. QED
    BY <2>1, <2>2, <2>3, <2>4 DEF LateStep
<1>2. Ran' = Ran
  BY <1>1, RanSame DEF Early
<1>3. Seen \subseteq Seen'
  BY <1>1, SeenGrows
<1>4. QED
  BY <1>1, <1>2, <1>3 DEF Onward, Early, Failed

-----------------------------------------------------------------------------
(* The resolver by address.                                                *)

(* A is the address each pointer was asked with, R are the calls made.     *)
Asked(b, A, R, S) ==
  /\ DOMAIN A \subseteq R \cup S
  /\ \A p \in R : CallOf(b, p).op \in {"bind", "rebase"} =>
                    p \in DOMAIN A /\ A[p] = CallOf(b, p).at

VBound == \E A : /\ Asked(binary, A, Ran, Seen)
                 /\ IF stage \in Early THEN Awaits(vmaddr, A, FALSE) ELSE Awaits(vmaddr, A, TRUE)

(* What was found for an address is a blob that is there.                  *)
There(f) == \A a \in DOMAIN f : a \in Nat /\ f[a][1] \in Names /\ f[a] = <<f[a][1], a>>

VInv ==
  /\ stage \notin Failed => VBound
  /\ There(vmaddr.found) /\ Known
  /\ stage = "construct" => \A a \in DOMAIN vmaddr.found : vmaddr.found[a][1] = "reloc"
  /\ stage \in {"place", "trail", "parsed"} \/ again => DOMAIN vmaddr.todo = {}

LEMMA AskedMore ==
  ASSUME NEW b, NEW A, NEW R, NEW S, NEW r, NEW T, Asked(b, A, R, S),
         R \subseteq r, S \subseteq T,
         \A p \in r : p \in R \/ CallOf(b, p).op \notin {"bind", "rebase"}
  PROVE  Asked(b, A, r, T)
BY DEF Asked

(* A step that does not touch the resolver.                                *)
LEMMA VSame ==
  ASSUME VInv, Onward, vmaddr' = vmaddr, DOMAIN immediate \subseteq DOMAIN immediate',
         stage' \notin Failed =>
           \A p \in Ran' : p \in Ran \/ CallOf(binary, p).op \notin {"bind", "rebase"},
         stage' \in {"place", "trail", "parsed"} \/ again' => DOMAIN vmaddr.todo = {}
  PROVE  VInv'
<1>1. ASSUME stage' \notin Failed PROVE VBound'
  <2>1. PICK A : /\ Asked(binary, A, Ran, Seen)
                 /\ IF stage \in Early THEN Awaits(vmaddr, A, FALSE) ELSE Awaits(vmaddr, A, TRUE)
    BY DEF VInv, Onward, VBound
  <2>2. Asked(binary, A, Ran', Seen')
    BY <1>1, <2>1, AskedMore DEF Onward
  <2>3. IF stage' \in Early THEN Awaits(vmaddr, A, FALSE) ELSE Awaits(vmaddr, A, TRUE)
    BY <2>1, BeginAwaits DEF Onward
  <2>4. QED
    BY <2>2, <2>3 DEF VBound, Onward
<1>2. Known'
  BY DEF VInv, Known
<1>3. QED
  BY <1>1, <1>2 DEF VInv, Onward

LEMMA VAsk ==
  ASSUME TInv, CInv, VInv, CallBind \/ CallRebase
  PROVE  /\ VInv' /\ StillWaits(vmaddr, vmaddr') /\ vmaddr'.found = vmaddr.found
         /\ Arg.at \notin DOMAIN vmaddr.found => Waits(vmaddr', Arg.at, <<i, c>>)
<1>1. /\ vmaddr' = Ask(vmaddr, Arg.at, <<i, c>>) /\ stage = "construct"
      /\ UNCHANGED <<stage, immediate, again>> /\ CallStep
  BY DEF CallBind, CallRebase, Calling, built, CallStep
<1>2. /\ Onward /\ Ran' = Ran \cup {<<i, c>>} /\ <<i, c>> \notin Ran
      /\ CallOf(binary, <<i, c>>) = Arg
  BY <1>1, OnwardCall DEF Failed
<1>3. Seen = {}
  BY <1>1 DEF Seen, Early
<1>4. PICK A : Asked(binary, A, Ran, Seen) /\ Awaits(vmaddr, A, FALSE)
  BY <1>1 DEF VInv, VBound, Early, Failed
<1>5. PICK B, p : B = Put(A, p, Arg.at) /\ p = <<i, c>>
  OBVIOUS
<1>6. p \notin DOMAIN A
  BY <1>2, <1>3, <1>4, <1>5 DEF Asked
<1>7. /\ Awaits(vmaddr', B, FALSE) /\ vmaddr'.found = vmaddr.found
      /\ StillWaits(vmaddr, vmaddr')
      /\ Arg.at \notin DOMAIN vmaddr.found => Waits(vmaddr', Arg.at, p)
  <2>1. PICK x : x = Arg.at
    OBVIOUS
  <2>2. /\ Awaits(Ask(vmaddr, x, p), Put(A, p, x), FALSE)
        /\ Ask(vmaddr, x, p).found = vmaddr.found
        /\ StillWaits(vmaddr, Ask(vmaddr, x, p))
        /\ x \notin DOMAIN vmaddr.found => Waits(Ask(vmaddr, x, p), x, p)
    BY <1>4, <1>6, AskAwaits
  <2>3. Ask(vmaddr, x, p) = vmaddr' /\ B = Put(A, p, x)
    BY <1>1, <1>5, <2>1
  <2>4. QED
    BY <2>1, <2>2, <2>3
<1>8. DOMAIN B = DOMAIN A \cup {p} /\ B[p] = Arg.at /\ \A q \in DOMAIN A : q # p => B[q] = A[q]
  BY <1>5 DEF Put
<1>9. Asked(binary, B, Ran', Seen')
  <2>1. DOMAIN B \subseteq Ran' \cup Seen'
    BY <1>2, <1>3, <1>4, <1>5, <1>8 DEF Asked
  <2>2. ASSUME NEW q \in Ran', CallOf(binary, q).op \in {"bind", "rebase"}
        PROVE  q \in DOMAIN B /\ B[q] = CallOf(binary, q).at
    <3>1. CASE q = p
      BY <1>2, <1>5, <1>8, <3>1
    <3>2. CASE q # p
      BY <1>2, <1>4, <1>5, <1>8, <2>2, <3>2 DEF Asked
    <3>3. QED
      BY <3>1, <3>2
  <2>3. QED
    BY <2>1, <2>2 DEF Asked
<1>10. VBound'
  BY <1>1, <1>2, <1>7, <1>9 DEF VBound, Early, Onward
<1>11. Known' /\ There(vmaddr'.found)
  BY <1>1, <1>7 DEF VInv, Known
<1>12. again' = FALSE
  BY <1>1 DEF CInv, Over
<1>13. \A a \in DOMAIN vmaddr'.found : vmaddr'.found[a][1] = "reloc"
  BY <1>1, <1>7 DEF VInv
<1>14. VInv'
  BY <1>1, <1>10, <1>11, <1>12, <1>13 DEF VInv
<1>15. QED
  BY <1>5, <1>7, <1>14

(* What one blob adds to a resolver.                                       *)
Kept(f, g) == \A x \in DOMAIN f : x \in DOMAIN g /\ g[x] = f[x]

LEMMA FoundOne ==
  ASSUME NEW f, NEW g, NEW key, NEW v, Found(f, g, key, v)
  PROVE  /\ Kept(f, g)
         /\ \A x \in DOMAIN g : \/ x \in DOMAIN f /\ g[x] = f[x]
                                \/ x = key /\ g[x] = v
BY DEF Found, Kept

BlobsFound(f, g, at, d, a) ==
  /\ Kept(f, g)
  /\ \A x \in DOMAIN g :
       \/ x \in DOMAIN f /\ g[x] = f[x]
       \/ x = at /\ g[x] = <<d.kind, a>>
       \/ /\ HasImmediate(d) /\ x = at + ImmAt(d)
          /\ g[x] = <<"immediate", a + ImmAt(d)>>

LEMMA BlobsAwait ==
  ASSUME NEW r, NEW A, NEW at, NEW d, NEW s, Awaits(r, A, FALSE), s = AddBlobs(r, at, d)
  PROVE  /\ Awaits(s, A, FALSE) /\ s.todo = r.todo
         /\ BlobsFound(r.found, s.found, at, d, Here.vmaddr)
<1>1. PICK v, w : v = <<d.kind, Here.vmaddr>> /\ w = <<"immediate", Here.vmaddr + ImmAt(d)>>
  OBVIOUS
<1>2. PICK q : q = Add(r, at, v)
  OBVIOUS
<1>3. /\ Awaits(q, A, FALSE) /\ Found(r.found, q.found, at, v) /\ q.todo = r.todo
  BY <1>2, AddAwaits
<1>4. /\ Kept(r.found, q.found)
      /\ \A x \in DOMAIN q.found : \/ x \in DOMAIN r.found /\ q.found[x] = r.found[x]
                                   \/ x = at /\ q.found[x] = v
  BY <1>3, FoundOne
<1>5. CASE ~ HasImmediate(d)
  <2>1. s = q
    BY <1>1, <1>2, <1>5 DEF AddBlobs
  <2>2. QED
    BY <1>1, <1>3, <1>4, <2>1 DEF BlobsFound
<1>6. CASE HasImmediate(d)
  <2>1. PICK y : y = at + ImmAt(d)
    OBVIOUS
  <2>2. s = Add(q, y, w)
    BY <1>1, <1>2, <1>6, <2>1 DEF AddBlobs
  <2>3. /\ Awaits(s, A, FALSE) /\ Found(q.found, s.found, y, w) /\ s.todo = q.todo
    <3>1. Awaits(q, A, FALSE)
      BY <1>3
    <3>2. /\ Awaits(Add(q, y, w), A, FALSE) /\ Found(q.found, Add(q, y, w).found, y, w)
          /\ Add(q, y, w).todo = q.todo
      BY <3>1, AddAwaits
    <3>3. QED
      BY <2>2, <3>2
  <2>4. /\ Kept(q.found, s.found)
        /\ \A x \in DOMAIN s.found : \/ x \in DOMAIN q.found /\ s.found[x] = q.found[x]
                                     \/ x = y /\ s.found[x] = w
    BY <2>3, FoundOne
  <2>5. Kept(r.found, s.found)
    BY <1>4, <2>4 DEF Kept
  <2>6. ASSUME NEW x \in DOMAIN s.found
        PROVE  \/ x \in DOMAIN r.found /\ s.found[x] = r.found[x]
               \/ x = at /\ s.found[x] = v
               \/ x = y /\ s.found[x] = w
    BY <1>4, <2>4
  <2>7. QED
    BY <1>1, <1>3, <1>6, <2>1, <2>3, <2>5, <2>6 DEF BlobsFound
<1>7. QED
  BY <1>5, <1>6

LEMMA VReloc ==
  ASSUME TInv, CInv, VInv, CallReloc
  PROVE  VInv' /\ vmaddr'.todo = vmaddr.todo /\ Kept(vmaddr.found, vmaddr'.found)
<1>1. /\ vmaddr' = Add(vmaddr, Arg.at, <<"reloc", Arg.at>>) /\ stage = "construct"
      /\ UNCHANGED <<stage, immediate, again>> /\ CallStep /\ Calling("reloc")
  BY DEF CallReloc, Calling, built, CallStep
<1>2. /\ Onward /\ Ran' = Ran \cup {<<i, c>>} /\ CallOf(binary, <<i, c>>) = Arg
  BY <1>1, OnwardCall DEF Failed
<1>3. Arg.op = "reloc" /\ Arg.at \in Nat
  BY <1>1, CallingTypes
<1>4. PICK A : Asked(binary, A, Ran, Seen) /\ Awaits(vmaddr, A, FALSE)
  BY <1>1 DEF VInv, VBound, Early, Failed
<1>5. PICK v, x : v = <<"reloc", Arg.at>> /\ x = Arg.at
  OBVIOUS
<1>6. /\ Awaits(vmaddr', A, FALSE) /\ vmaddr'.todo = vmaddr.todo
      /\ Found(vmaddr.found, vmaddr'.found, x, v)
  <2>1. PICK s : s = Add(vmaddr, x, v)
    OBVIOUS
  <2>2. Awaits(s, A, FALSE) /\ s.todo = vmaddr.todo /\ Found(vmaddr.found, s.found, x, v)
    BY <1>4, <2>1, AddAwaits
  <2>3. s = vmaddr'
    BY <1>1, <1>5, <2>1
  <2>4. QED
    BY <2>2, <2>3
<1>7. /\ Kept(vmaddr.found, vmaddr'.found)
      /\ \A a \in DOMAIN vmaddr'.found :
           \/ a \in DOMAIN vmaddr.found /\ vmaddr'.found[a] = vmaddr.found[a]
           \/ a = x /\ vmaddr'.found[a] = v
  BY <1>6, FoundOne
<1>8. Asked(binary, A, Ran', Seen')
  <2>1. Seen \subseteq Seen' /\ Ran \subseteq Ran'
    BY <1>1, <1>2 DEF Onward, Failed
  <2>2. \A p \in Ran' : p \in Ran \/ CallOf(binary, p).op \notin {"bind", "rebase"}
    BY <1>2, <1>3
  <2>3. QED
    BY <1>4, <2>1, <2>2, AskedMore
<1>9. VBound'
  BY <1>1, <1>2, <1>6, <1>8 DEF VBound, Early, Onward
<1>10. v[1] = "reloc" /\ v[1] \in Names /\ v = <<v[1], x>> /\ v[1] # "immediate" /\ x \in Nat
  BY <1>3, <1>5 DEF Names
<1>11. There(vmaddr'.found)
  BY <1>7, <1>10 DEF VInv, There
<1>12. Known'
  BY <1>1, <1>7, <1>10 DEF VInv, Known
<1>13. again' = FALSE
  BY <1>1 DEF CInv, Over
<1>14. \A a \in DOMAIN vmaddr'.found : vmaddr'.found[a][1] = "reloc"
  BY <1>1, <1>7, <1>10 DEF VInv
<1>15. QED
  BY <1>1, <1>6, <1>7, <1>9, <1>11, <1>12, <1>13, <1>14 DEF VInv

(* What a blob that does not clash changes in the resolvers.               *)
LEMMA BlobEffect ==
  ASSUME ParseBlob, ~ (stage' = "clash" /\ UNCHANGED <<it, vmaddr, offset, held, built>>)
  PROVE  /\ UNCHANGED stage
         /\ offset' = AddBlobs(offset, Here.offset, Decode)
         /\ vmaddr' = IF Decode.kind = "pointer"
                      THEN Ask(AddBlobs(vmaddr, Here.vmaddr, Decode), Decode.value,
                                   <<i, j, Here.vmaddr>>)
                      ELSE AddBlobs(vmaddr, Here.vmaddr, Decode)
         /\ DOMAIN immediate' = DOMAIN immediate \cup
              (IF HasImmediate(Decode) THEN {Here.vmaddr + ImmAt(Decode)} ELSE {})
<1>1. PICK d : d = Decode
  OBVIOUS
<1>2. /\ UNCHANGED stage
      /\ offset' = AddBlobs(offset, Here.offset, d)
      /\ vmaddr' = IF d.kind = "pointer"
                   THEN Ask(AddBlobs(vmaddr, Here.vmaddr, d), d.value, <<i, j, Here.vmaddr>>)
                   ELSE AddBlobs(vmaddr, Here.vmaddr, d)
      /\ immediate' =
           IF HasImmediate(d)
           THEN Put(immediate, Here.vmaddr + ImmAt(d),
                    [value |-> d.value,
                     pointee |-> IF d.kind = "absolute"
                                 THEN <<"immediate", Here.vmaddr + ImmAt(d)>> ELSE Null])
           ELSE immediate
  BY <1>1 DEF ParseBlob
<1>3. DOMAIN immediate' = DOMAIN immediate \cup
        (IF HasImmediate(d) THEN {Here.vmaddr + ImmAt(d)} ELSE {})
  BY <1>2 DEF Put
<1>4. QED
  BY <1>1, <1>2, <1>3

LEMMA VParse ==
  ASSUME TInv, CInv, VInv, ParseBlob
  PROVE  /\ VInv' /\ Kept(vmaddr.found, vmaddr'.found)
         /\ StillWaits(vmaddr, vmaddr')
<1>1. /\ Parsing /\ it < Size(Sect) /\ stage = "parse1" /\ UNCHANGED <<binary, i, j, again>>
  BY ParseBlobEffect
<1>2. Onward /\ (stage' \notin Failed => Ran' = Ran)
  BY OnwardEarly
<1>3. again' = FALSE
  BY <1>1 DEF CInv, Over
<1>4. CASE stage' = "clash" /\ UNCHANGED <<it, vmaddr, offset, held, built>>
  <2>1. VInv'
    BY <1>2, <1>3, <1>4, VSame DEF built, Failed
  <2>2. QED
    BY <1>4, <2>1 DEF Kept, StillWaits
<1>5. CASE ~ (stage' = "clash" /\ UNCHANGED <<it, vmaddr, offset, held, built>>)
  <2>1. PICK d, a, p : d = Decode /\ a = Here.vmaddr /\ p = <<i, j, Here.vmaddr>>
    OBVIOUS
  <2>2. PICK s : s = AddBlobs(vmaddr, a, d)
    OBVIOUS
  <2>3. /\ UNCHANGED stage
        /\ vmaddr' = IF d.kind = "pointer" THEN Ask(s, d.value, p) ELSE s
        /\ DOMAIN immediate' = DOMAIN immediate \cup
             (IF HasImmediate(d) THEN {a + ImmAt(d)} ELSE {})
    BY <1>5, <2>1, <2>2, BlobEffect
  <2>4. /\ d.kind \in Kinds /\ d.size \in Nat \ {0} /\ d.value \in Nat /\ ImmAt(d) \in Nat
        /\ a = Sect.addr + it
    BY <1>1, <2>1, DecodeTypes
  <2>5. /\ <<i, j>> \in Sections /\ Sect = At(<<i, j>>) /\ Sect.addr \in Nat
        /\ it \in Nat /\ i \in Nat /\ j \in Nat
    BY <1>1, SectFacts DEF Parsing, TInv
  <2>6. a \in Nat /\ a + ImmAt(d) \in Nat
    BY <2>4, <2>5
  <2>7. PICK A : Asked(binary, A, Ran, Seen) /\ Awaits(vmaddr, A, FALSE)
    BY <1>1 DEF VInv, VBound, Early, Failed
  <2>8. /\ Awaits(s, A, FALSE) /\ s.todo = vmaddr.todo /\ Kept(vmaddr.found, s.found)
        /\ \A x \in DOMAIN s.found :
             \/ x \in DOMAIN vmaddr.found /\ s.found[x] = vmaddr.found[x]
             \/ x = a /\ s.found[x] = <<d.kind, a>>
             \/ /\ HasImmediate(d) /\ x = a + ImmAt(d)
                /\ s.found[x] = <<"immediate", a + ImmAt(d)>>
    <3>1. Awaits(vmaddr, A, FALSE)
      BY <2>7
    <3>2. /\ Awaits(s, A, FALSE) /\ s.todo = vmaddr.todo
          /\ BlobsFound(vmaddr.found, s.found, a, d, Here.vmaddr)
      BY <2>2, <3>1, BlobsAwait
    <3>3. BlobsFound(vmaddr.found, s.found, a, d, a)
      BY <2>1, <3>2
    <3>4. QED
      BY <3>2, <3>3 DEF BlobsFound
  <2>9. There(s.found)
    <3>1. SUFFICES ASSUME NEW x \in DOMAIN s.found
                   PROVE  /\ x \in Nat /\ s.found[x][1] \in Names
                          /\ s.found[x] = <<s.found[x][1], x>>
      BY DEF There
    <3>2. CASE x \in DOMAIN vmaddr.found /\ s.found[x] = vmaddr.found[x]
      BY <3>2 DEF VInv, There
    <3>3. CASE x = a /\ s.found[x] = <<d.kind, a>>
      BY <2>4, <2>6, <3>3 DEF Names
    <3>4. CASE x = a + ImmAt(d) /\ s.found[x] = <<"immediate", a + ImmAt(d)>>
      BY <2>6, <3>4 DEF Names
    <3>5. QED
      BY <2>8, <3>2, <3>3, <3>4
  <2>10. ASSUME NEW x \in DOMAIN s.found, s.found[x][1] = "immediate"
         PROVE  x \in DOMAIN immediate'
    <3>1. CASE x \in DOMAIN vmaddr.found /\ s.found[x] = vmaddr.found[x]
      BY <2>3, <2>10, <3>1 DEF VInv, Known
    <3>2. CASE x = a /\ s.found[x] = <<d.kind, a>>
      BY <2>4, <2>10, <3>2 DEF Kinds
    <3>3. CASE HasImmediate(d) /\ x = a + ImmAt(d)
      BY <2>3, <3>3
    <3>4. QED
      BY <2>8, <3>1, <3>2, <3>3
  <2>11. Ran' = Ran /\ Seen \subseteq Seen'
    BY <1>1, <1>2, <2>3 DEF Onward, Failed
  <2>12. \E B : Asked(binary, B, Ran', Seen') /\ Awaits(vmaddr', B, FALSE)
    <3>1. CASE d.kind # "pointer"
      <4>1. Asked(binary, A, Ran', Seen')
        BY <2>7, <2>11 DEF Asked
      <4>2. QED
        BY <2>3, <2>8, <3>1, <4>1
    <3>2. CASE d.kind = "pointer"
      <4>1. p \notin DOMAIN A
        <5>1. p \notin Seen
          BY <1>1, <2>1, <2>4, <2>5, <2>6 DEF Seen, Early
        <5>2. p \notin Ran
          <6>1. Len(p) = 3
            BY <2>1
          <6>2. \A q \in Ran : Len(q) = 2
            BY CallFacts DEF Ran, TInv
          <6>3. QED
            BY <6>1, <6>2
        <5>3. QED
          BY <2>7, <5>1, <5>2 DEF Asked
      <4>2. PICK x, B : x = d.value /\ B = Put(A, p, x)
        OBVIOUS
      <4>3. Awaits(Ask(s, x, p), Put(A, p, x), FALSE)
        BY <2>8, <4>1, AskAwaits
      <4>4. Awaits(vmaddr', B, FALSE)
        BY <2>3, <3>2, <4>2, <4>3
      <4>5. DOMAIN B = DOMAIN A \cup {p} /\ \A q \in DOMAIN A : q # p => B[q] = A[q]
        BY <4>2 DEF Put
      <4>6. p \in Seen'
        <5>1. it' = it + d.size
          BY <1>5, <2>1, ParseBlobEffect
        <5>2. At(<<i, j>>).addr = Sect.addr /\ a < Sect.addr + it'
          BY <2>4, <2>5, <5>1
        <5>3. p \in Nat \X Nat \X Nat /\ p[1] = i /\ p[2] = j /\ p[3] = a
          BY <2>1, <2>5, <2>6
        <5>4. QED
          BY <1>1, <2>3, <5>2, <5>3 DEF Seen, At
      <4>7. Asked(binary, B, Ran', Seen')
        BY <2>7, <2>11, <4>1, <4>5, <4>6 DEF Asked
      <4>8. QED
        BY <4>4, <4>7
    <3>3. QED
      BY <3>1, <3>2
  <2>13. vmaddr'.found = s.found /\ StillWaits(vmaddr, vmaddr')
    <3>1. CASE d.kind # "pointer"
      BY <2>3, <2>8, <3>1 DEF StillWaits
    <3>2. CASE d.kind = "pointer"
      <4>1. vmaddr' = Ask(s, d.value, p)
        BY <2>3, <3>2
      <4>2. CASE d.value \in DOMAIN s.found
        <5>1. Asks(s, d.value, p, vmaddr')
          BY <4>1, AskFields
        <5>2. vmaddr'.found = s.found /\ vmaddr'.todo = s.todo
          BY <4>2, <5>1 DEF Asks
        <5>3. QED
          BY <2>8, <5>2 DEF StillWaits
      <4>3. CASE d.value \notin DOMAIN s.found
        <5>0. Asks(s, d.value, p, vmaddr')
          BY <4>1, AskFields
        <5>1. /\ vmaddr'.found = s.found
              /\ vmaddr'.todo = Put(s.todo, d.value, Waiting(s, d.value) \cup {p})
          BY <4>3, <5>0 DEF Asks
        <5>2. StillWaits(s, vmaddr')
          BY <5>1 DEF StillWaits, Put, Waiting
        <5>3. QED
          BY <2>8, <5>1, <5>2 DEF StillWaits
      <4>4. QED
        BY <4>2, <4>3
    <3>3. QED
      BY <3>1, <3>2
  <2>14. VBound'
    BY <1>1, <1>2, <2>3, <2>12 DEF VBound, Early, Onward
  <2>15. Known' /\ There(vmaddr'.found)
    BY <2>9, <2>10, <2>13 DEF Known
  <2>16. VInv'
    BY <1>1, <1>3, <2>3, <2>14, <2>15 DEF VInv
  <2>17. QED
    BY <2>8, <2>13, <2>16
<1>6. QED
  BY <1>4, <1>5

LEMMA VDrain ==
  ASSUME TInv, CInv, VInv, DrainVmaddr
  PROVE  VInv'
<1>1. PICK key : /\ vmaddr' = DrainEntry(vmaddr, key)
                 /\ \/ UNCHANGED <<immediate, held>>
                    \/ Callback(key, immediate[key].value)
  BY DrainVmaddrEffect DEF VInv
<1>2. /\ stage = "resolve" /\ DOMAIN vmaddr.todo # {} /\ UNCHANGED <<binary, stage, again>>
  BY DrainVmaddrEffect DEF VInv
<1>3. again = FALSE
  BY <1>2 DEF VInv, CInv, Over
<1>4. Onward /\ Ran' = Ran
  BY OnwardLate DEF LateStep, VInv
<1>5. PICK A : Asked(binary, A, Ran, Seen) /\ Awaits(vmaddr, A, TRUE)
  BY <1>2 DEF VInv, VBound, Early, Failed
<1>6. Awaits(DrainEntry(vmaddr, key), A, TRUE) /\ DrainEntry(vmaddr, key).found = vmaddr.found
  BY <1>5, DrainAwaits
<1>7. Awaits(vmaddr', A, TRUE) /\ vmaddr'.found = vmaddr.found
  BY <1>1, <1>6
<1>8. Asked(binary, A, Ran', Seen')
  BY <1>2, <1>4, <1>5 DEF Asked, Onward, Failed
<1>9. VBound'
  BY <1>2, <1>7, <1>8 DEF VBound, Early
<1>10. DOMAIN immediate' = DOMAIN immediate
  BY <1>1 DEF Callback
<1>11. Known' /\ There(vmaddr'.found)
  BY <1>7, <1>10 DEF VInv, Known
<1>12. QED
  BY <1>2, <1>3, <1>9, <1>11 DEF VInv

LEMMA VStep ==
  ASSUME TInv, CInv, VInv, [Next]_vars
  PROVE  VInv'
<1>1. CASE UNCHANGED vars
  <2>1. UNCHANGED <<binary, stage, i, j, c, it, vmaddr, immediate, again>>
    BY <1>1 DEF vars
  <2>2. Ran' = Ran /\ Seen \subseteq Seen'
    BY <2>1, RanSame, SeenGrows
  <2>3. CASE stage \in Failed
    BY <2>1, <2>3 DEF VInv, Known, Failed
  <2>4. CASE stage \notin Failed
    <3>1. Onward
      BY <2>1, <2>2, <2>4 DEF Onward
    <3>2. QED
      BY <2>1, <2>2, <3>1, VSame DEF VInv
  <2>5. QED
    BY <2>3, <2>4
<1>2. CASE CallBind \/ CallRebase
  BY <1>2, VAsk
<1>3. CASE CallReloc
  BY <1>3, VReloc
<1>4. CASE ParseBlob
  BY <1>4, VParse
<1>5. CASE DrainVmaddr
  BY <1>5, VDrain
<1>6. CASE CallHold \/ CallExport \/ CallDice \/ CallDylib
  <2>1. /\ UNCHANGED <<vmaddr, immediate, again>> /\ CallStep /\ stage = "construct"
        /\ stage' \notin {"place", "trail", "parsed"}
    BY <1>6 DEF CallHold, CallExport, CallDice, CallDylib, Calling, built, resolvers, CallStep
  <2>2. Arg.op \in {"hold", "export", "dice", "dylib"}
    BY <1>6 DEF CallHold, CallExport, CallDice, CallDylib, Calling, Arg
  <2>3. /\ Onward
        /\ stage' \notin Failed =>
             /\ Ran' = Ran \cup {<<i, c>>} /\ CallOf(binary, <<i, c>>) = Arg
    BY <2>1, OnwardCall
  <2>4. again' = FALSE
    BY <2>1 DEF CInv, Over
  <2>5. ASSUME stage' \notin Failed, NEW p \in Ran'
        PROVE  p \in Ran \/ CallOf(binary, p).op \notin {"bind", "rebase"}
    BY <2>2, <2>3, <2>5
  <2>6. QED
    BY <2>1, <2>3, <2>4, <2>5, VSame
<1>7. CASE NextCommand \/ Constructed \/ EndSection \/ EndParse1 \/ Parsed1
  <2>1. /\ UNCHANGED <<vmaddr, immediate, again>>
        /\ stage' \notin {"place", "trail", "parsed"}
    BY <1>7 DEF NextCommand, Constructed, EndSection, EndParse1, Parsed1, Parsing, built, resolvers
  <2>2. /\ Onward /\ stage \in Early /\ (stage' \notin Failed => Ran' = Ran)
    BY <1>7, OnwardEarly
  <2>3. again' = FALSE
    BY <2>1, <2>2 DEF CInv, Over, Early
  <2>4. QED
    BY <2>1, <2>2, <2>3, VSame
<1>8. CASE LateStep /\ ~ DrainVmaddr
  <2>1. /\ UNCHANGED <<vmaddr, immediate>>
        /\ stage' \in {"place", "trail", "parsed"} \/ again' => DOMAIN vmaddr.todo = {}
    <3>1. CASE DrainOffset \/ Resolved \/ SectionPlaced \/ CommandPlaced \/ AllPlaced \/ Finish
      BY <3>1 DEF DrainOffset, Resolved, SectionPlaced, CommandPlaced, AllPlaced, Finish,
         Placing, built, resolvers, VInv
    <3>2. CASE Place
      BY <3>2, PlaceEffect DEF resolvers, VInv
    <3>3. CASE Trail
      BY <3>3, TrailEffect DEF resolvers, VInv
    <3>4. QED
      BY <1>8, <3>1, <3>2, <3>3 DEF LateStep
  <2>2. Onward /\ Ran' = Ran
    BY <1>8, OnwardLate DEF VInv
  <2>3. QED
    BY <2>1, <2>2, VSame
<1>9. QED
  BY <1>1, <1>2, <1>3, <1>4, <1>5, <1>6, <1>7, <1>8 DEF Next, LateStep

LEMMA VInit ==
  Init => VInv
<1>. SUFFICES ASSUME NEW b \in Binaries, NewParse(b) PROVE VInv
  BY DEF Init
<1>1. /\ stage = "construct" /\ again = FALSE /\ vmaddr = NewResolver(TRUE)
      /\ i = 1 /\ c = 1 /\ binary \in Binaries
  BY DEF NewParse
<1>2. /\ DOMAIN vmaddr.found = {} /\ DOMAIN vmaddr.todo = {} /\ DOMAIN vmaddr.pointer = {}
      /\ vmaddr.lazy = TRUE
  BY <1>1 DEF NewResolver, NoEntries
<1>3. Ran = {}
  BY <1>1, RanNone
<1>4. DOMAIN NoEntries = {}
  BY DEF NoEntries
<1>5. Awaits(vmaddr, NoEntries, FALSE) /\ Asked(binary, NoEntries, Ran, Seen)
  BY <1>2, <1>3, <1>4 DEF Awaits, Asked
<1>6. VBound
  BY <1>1, <1>5 DEF VBound, Early
<1>7. QED
  BY <1>1, <1>2, <1>6 DEF VInv, There, Known

-----------------------------------------------------------------------------
(* The resolver by file offset.                                            *)

OAsked(b, A, R) ==
  /\ \A q \in DOMAIN A : \E p \in R : q = <<p[1], p[2], "start">> \/ q = <<p[1], p[2], "end">>
  /\ \A p \in R : CallOf(b, p).op = "dice" =>
       /\ <<p[1], p[2], "start">> \in DOMAIN A
       /\ A[<<p[1], p[2], "start">>] = CallOf(b, p).at
       /\ <<p[1], p[2], "end">> \in DOMAIN A
       /\ A[<<p[1], p[2], "end">>] = CallOf(b, p).at + CallOf(b, p).n

OBound == \E A : /\ OAsked(binary, A, Ran)
                 /\ IF stage \in Early THEN Awaits(offset, A, FALSE) ELSE Awaits(offset, A, TRUE)

(* What was found for an offset lies at the address that a section gives   *)
(* that offset.                                                            *)
SameDistance(b, o, a) ==
  \E x \in DOMAIN b : \E y \in DOMAIN b[x].sects :
    a - b[x].sects[y].addr = o - b[x].sects[y].offset
Mapped(b, o, v) ==
  v = <<v[1], v[2]>> /\ v[1] \in Names /\ v[2] \in Nat /\ SameDistance(b, o, v[2])
OThere(b, f) == \A o \in DOMAIN f : Mapped(b, o, f[o])

OInv ==
  /\ stage \notin Failed => OBound
  /\ OThere(binary, offset.found)
  /\ stage = "parsed" => DOMAIN offset.todo = {}

LEMMA OSame ==
  ASSUME OInv, Onward, offset' = offset,
         stage' \notin Failed => \A p \in Ran' : p \in Ran \/ CallOf(binary, p).op # "dice",
         stage' = "parsed" => DOMAIN offset.todo = {}
  PROVE  OInv'
<1>1. ASSUME stage' \notin Failed PROVE OBound'
  <2>1. PICK A : /\ OAsked(binary, A, Ran)
                 /\ IF stage \in Early THEN Awaits(offset, A, FALSE) ELSE Awaits(offset, A, TRUE)
    BY DEF OInv, Onward, OBound
  <2>2. Ran \subseteq Ran'
    BY <1>1 DEF Onward
  <2>3. OAsked(binary, A, Ran')
    <3>1. \A q \in DOMAIN A : \E p \in Ran' : q = <<p[1], p[2], "start">> \/ q = <<p[1], p[2], "end">>
      BY <2>1, <2>2 DEF OAsked
    <3>2. \A p \in Ran' : CallOf(binary, p).op = "dice" => p \in Ran
      BY <1>1
    <3>3. QED
      BY <2>1, <3>1, <3>2 DEF OAsked
  <2>4. IF stage' \in Early THEN Awaits(offset, A, FALSE) ELSE Awaits(offset, A, TRUE)
    BY <2>1, BeginAwaits DEF Onward
  <2>5. QED
    BY <2>3, <2>4 DEF OBound, Onward
<1>2. QED
  BY <1>1 DEF OInv, Onward

LEMMA ODice ==
  ASSUME TInv, OInv, CallDice
  PROVE  OInv'
<1>1. /\ offset' = Ask(Ask(offset, Arg.at, <<i, c, "start">>), Arg.at + Arg.n, <<i, c, "end">>)
      /\ stage = "construct" /\ UNCHANGED stage /\ CallStep
  BY DEF CallDice, Calling, CallStep
<1>2. /\ Onward /\ Ran' = Ran \cup {<<i, c>>} /\ <<i, c>> \notin Ran
      /\ CallOf(binary, <<i, c>>) = Arg
  BY <1>1, OnwardCall DEF Failed
<1>3. PICK A : OAsked(binary, A, Ran) /\ Awaits(offset, A, FALSE)
  BY <1>1 DEF OInv, OBound, Early, Failed
<1>4. PICK p, q, x, y : p = <<i, c, "start">> /\ q = <<i, c, "end">> /\ x = Arg.at /\ y = Arg.at + Arg.n
  OBVIOUS
<1>5. ASSUME NEW z \in Ran
      PROVE  /\ z = <<z[1], z[2]>>
             /\ <<z[1], z[2], "start">> \notin {p, q} /\ <<z[1], z[2], "end">> \notin {p, q}
  <2>1. z = <<z[1], z[2]>>
    BY CallFacts DEF Ran, TInv
  <2>2. ~ (z[1] = i /\ z[2] = c)
    BY <1>2, <2>1
  <2>3. QED
    BY <1>4, <2>1, <2>2
<1>6. p \notin DOMAIN A /\ q \notin DOMAIN A /\ p # q
  <2>1. p \notin DOMAIN A
    BY <1>3, <1>5 DEF OAsked
  <2>2. q \notin DOMAIN A
    BY <1>3, <1>5 DEF OAsked
  <2>3. p # q
    BY <1>4
  <2>4. QED
    BY <2>1, <2>2, <2>3
<1>7. PICK r, B : r = Ask(offset, x, p) /\ B = Put(A, p, x)
  OBVIOUS
<1>8. Awaits(r, B, FALSE) /\ r.found = offset.found
  <2>1. /\ Awaits(Ask(offset, x, p), Put(A, p, x), FALSE)
        /\ Ask(offset, x, p).found = offset.found
    BY <1>3, <1>6, AskAwaits
  <2>2. QED
    BY <1>7, <2>1
<1>9. DOMAIN B = DOMAIN A \cup {p} /\ B[p] = x /\ \A z \in DOMAIN A : z # p => B[z] = A[z]
  BY <1>7 DEF Put
<1>10. PICK s, D : s = Ask(r, y, q) /\ D = Put(B, q, y)
  OBVIOUS
<1>11. Awaits(s, D, FALSE) /\ s.found = r.found
  <2>1. q \notin DOMAIN B /\ Awaits(r, B, FALSE)
    BY <1>6, <1>8, <1>9
  <2>2. /\ Awaits(Ask(r, y, q), Put(B, q, y), FALSE)
        /\ Ask(r, y, q).found = r.found
    BY <2>1, AskAwaits
  <2>3. QED
    BY <1>10, <2>2
<1>12. DOMAIN D = DOMAIN B \cup {q} /\ D[q] = y /\ \A z \in DOMAIN B : z # q => D[z] = B[z]
  BY <1>10 DEF Put
<1>13. offset' = s
  BY <1>1, <1>4, <1>7, <1>10
<1>14. DOMAIN D = DOMAIN A \cup {p, q} /\ D[p] = x /\ D[q] = y
       /\ \A z \in DOMAIN A : D[z] = A[z]
  BY <1>6, <1>9, <1>12
<1>15. OAsked(binary, D, Ran')
  <2>1. \A z \in DOMAIN D : \E w \in Ran' : z = <<w[1], w[2], "start">> \/ z = <<w[1], w[2], "end">>
    <3>1. \A z \in DOMAIN A : \E w \in Ran' : z = <<w[1], w[2], "start">> \/ z = <<w[1], w[2], "end">>
      BY <1>2, <1>3 DEF OAsked
    <3>2. <<i, c>> \in Ran' /\ <<i, c>>[1] = i /\ <<i, c>>[2] = c
      BY <1>2
    <3>3. QED
      BY <1>4, <1>14, <3>1, <3>2
  <2>2. ASSUME NEW w \in Ran', CallOf(binary, w).op = "dice"
        PROVE  /\ <<w[1], w[2], "start">> \in DOMAIN D
               /\ D[<<w[1], w[2], "start">>] = CallOf(binary, w).at
               /\ <<w[1], w[2], "end">> \in DOMAIN D
               /\ D[<<w[1], w[2], "end">>] = CallOf(binary, w).at + CallOf(binary, w).n
    <3>1. CASE w \in Ran
      <4>1. /\ <<w[1], w[2], "start">> \in DOMAIN A
            /\ A[<<w[1], w[2], "start">>] = CallOf(binary, w).at
            /\ <<w[1], w[2], "end">> \in DOMAIN A
            /\ A[<<w[1], w[2], "end">>] = CallOf(binary, w).at + CallOf(binary, w).n
        BY <1>3, <2>2, <3>1 DEF OAsked
      <4>2. QED
        BY <1>14, <4>1
    <3>2. CASE w = <<i, c>>
      <4>1. w[1] = i /\ w[2] = c /\ CallOf(binary, w) = Arg
        BY <1>2, <3>2
      <4>2. QED
        BY <1>4, <1>14, <4>1
    <3>3. QED
      BY <1>2, <3>1, <3>2
  <2>3. QED
    BY <2>1, <2>2 DEF OAsked
<1>16. OBound'
  BY <1>1, <1>2, <1>11, <1>13, <1>15 DEF OBound, Early, Onward
<1>17. offset'.found = offset.found
  BY <1>8, <1>11, <1>13
<1>18. QED
  BY <1>1, <1>2, <1>16, <1>17 DEF OInv, Onward

LEMMA OReloc ==
  ASSUME TInv, OInv, CallReloc
  PROVE  OInv'
<1>1. /\ offset' = Add(offset, Arg.n, <<"reloc", Arg.at>>) /\ stage = "construct"
      /\ UNCHANGED stage /\ CallStep /\ Calling("reloc")
  BY DEF CallReloc, Calling, CallStep
<1>2. /\ Onward /\ Ran' = Ran \cup {<<i, c>>} /\ CallOf(binary, <<i, c>>) = Arg
  BY <1>1, OnwardCall DEF Failed
<1>3. /\ Arg.op = "reloc" /\ Arg.at \in Nat /\ i \in DOMAIN binary /\ c \in DOMAIN binary[i].calls
      /\ Arg = binary[i].calls[c]
  BY <1>1, CallingTypes DEF LC
<1>4. PICK A : OAsked(binary, A, Ran) /\ Awaits(offset, A, FALSE)
  BY <1>1 DEF OInv, OBound, Early, Failed
<1>5. PICK v, x : v = <<"reloc", Arg.at>> /\ x = Arg.n
  OBVIOUS
<1>6. Awaits(offset', A, FALSE) /\ Found(offset.found, offset'.found, x, v)
  <2>1. Awaits(Add(offset, x, v), A, FALSE) /\ Found(offset.found, Add(offset, x, v).found, x, v)
    BY <1>4, AddAwaits
  <2>2. QED
    BY <1>1, <1>5, <2>1
<1>7. \A o \in DOMAIN offset'.found :
        \/ o \in DOMAIN offset.found /\ offset'.found[o] = offset.found[o]
        \/ o = x /\ offset'.found[o] = v
  BY <1>6, FoundOne
<1>8. Mapped(binary, x, v)
  <2>1. RelocInSection(binary[i])
    BY <1>3, CommandTypes DEF TInv
  <2>2. SameDistance(binary, x, Arg.at)
    BY <1>3, <1>5, <2>1 DEF RelocInSection, SameDistance
  <2>3. QED
    BY <1>3, <1>5, <2>2 DEF Mapped, Names
<1>9. OThere(binary, offset'.found)
  BY <1>7, <1>8 DEF OInv, OThere
<1>10. OAsked(binary, A, Ran')
  <2>1. \A q \in DOMAIN A : \E p \in Ran' : q = <<p[1], p[2], "start">> \/ q = <<p[1], p[2], "end">>
    BY <1>2, <1>4 DEF OAsked
  <2>2. \A p \in Ran' : CallOf(binary, p).op = "dice" => p \in Ran
    BY <1>2, <1>3
  <2>3. QED
    BY <1>4, <2>1, <2>2 DEF OAsked
<1>11. OBound'
  BY <1>1, <1>2, <1>6, <1>10 DEF OBound, Early, Onward
<1>12. QED
  BY <1>1, <1>2, <1>9, <1>11 DEF OInv, Onward

LEMMA OParse ==
  ASSUME TInv, OInv, ParseBlob
  PROVE  OInv'
<1>1. /\ Parsing /\ it < Size(Sect) /\ stage = "parse1" /\ UNCHANGED <<binary, i, j>>
  BY ParseBlobEffect
<1>2. Onward /\ (stage' \notin Failed => Ran' = Ran)
  BY OnwardEarly
<1>3. CASE stage' = "clash" /\ UNCHANGED <<it, vmaddr, offset, held, built>>
  BY <1>2, <1>3, OSame DEF Failed
<1>4. CASE ~ (stage' = "clash" /\ UNCHANGED <<it, vmaddr, offset, held, built>>)
  <2>1. PICK d, a, o : d = Decode /\ a = Here.vmaddr /\ o = Here.offset
    OBVIOUS
  <2>2. UNCHANGED stage /\ offset' = AddBlobs(offset, o, d)
    BY <1>4, <2>1, BlobEffect
  <2>3. /\ d.kind \in Kinds /\ d.size \in Nat \ {0} /\ ImmAt(d) \in Nat
        /\ a = Sect.addr + it /\ o = Sect.offset + it
    BY <1>1, <2>1, DecodeTypes
  <2>4. /\ i \in DOMAIN binary /\ j \in DOMAIN binary[i].sects
        /\ <<i, j>> \in Sections /\ Sect = At(<<i, j>>) /\ Sect.addr \in Nat /\ Sect.offset \in Nat
        /\ it \in Nat
    BY <1>1, SectFacts DEF Parsing, TInv
  <2>5. Sect = binary[i].sects[j]
    BY <2>4 DEF At
  <2>6. PICK A : OAsked(binary, A, Ran) /\ Awaits(offset, A, FALSE)
    BY <1>1 DEF OInv, OBound, Early, Failed
  <2>7. Awaits(offset, A, FALSE)
    BY <2>6
  <2>8. /\ Awaits(AddBlobs(offset, o, d), A, FALSE)
        /\ BlobsFound(offset.found, AddBlobs(offset, o, d).found, o, d, Here.vmaddr)
    BY <2>7, BlobsAwait
  <2>9. Awaits(offset', A, FALSE) /\ BlobsFound(offset.found, offset'.found, o, d, a)
    BY <2>1, <2>2, <2>8
  <2>10. ASSUME NEW n \in Nat PROVE SameDistance(binary, o + n, a + n) /\ a + n \in Nat
    <3>1. (a + n) - binary[i].sects[j].addr = (o + n) - binary[i].sects[j].offset
      BY <2>3, <2>4, <2>5
    <3>2. QED
      BY <2>3, <2>4, <3>1 DEF SameDistance
  <2>11. SameDistance(binary, o, a) /\ a \in Nat /\ o \in Nat
    <3>1. a - binary[i].sects[j].addr = o - binary[i].sects[j].offset
      BY <2>3, <2>4, <2>5
    <3>2. QED
      BY <2>3, <2>4, <3>1 DEF SameDistance
  <2>12. Mapped(binary, o, <<d.kind, a>>)
    BY <2>3, <2>11 DEF Mapped, Names
  <2>13. Mapped(binary, o + ImmAt(d), <<"immediate", a + ImmAt(d)>>)
    BY <2>3, <2>10 DEF Mapped, Names
  <2>14. OThere(binary, offset'.found)
    BY <2>9, <2>12, <2>13 DEF OInv, OThere, BlobsFound
  <2>15. OAsked(binary, A, Ran')
    BY <1>1, <1>2, <2>2, <2>6 DEF Failed
  <2>16. OBound'
    BY <1>1, <1>2, <2>2, <2>9, <2>15 DEF OBound, Early, Onward
  <2>17. QED
    BY <1>1, <1>2, <2>2, <2>14, <2>16 DEF OInv, Onward
<1>5. QED
  BY <1>3, <1>4

LEMMA ODrain ==
  ASSUME TInv, OInv, Known, DrainOffset
  PROVE  OInv'
<1>1. PICK key : offset' = DrainEntry(offset, key)
  BY DEF DrainOffset
<1>2. stage = "resolve" /\ UNCHANGED <<binary, stage>>
  BY DEF DrainOffset
<1>3. Ran' = Ran
  BY OnwardLate DEF LateStep
<1>4. PICK A : OAsked(binary, A, Ran) /\ Awaits(offset, A, TRUE)
  BY <1>2 DEF OInv, OBound, Early, Failed
<1>5. Awaits(offset, A, TRUE)
  BY <1>4
<1>6. Awaits(DrainEntry(offset, key), A, TRUE) /\ DrainEntry(offset, key).found = offset.found
  BY <1>5, DrainAwaits
<1>7. Awaits(offset', A, TRUE) /\ offset'.found = offset.found
  BY <1>1, <1>6
<1>8. OBound'
  BY <1>2, <1>3, <1>4, <1>7 DEF OBound, Early
<1>9. QED
  BY <1>2, <1>7, <1>8 DEF OInv

LEMMA OStep ==
  ASSUME TInv, CInv, VInv, OInv, [Next]_vars
  PROVE  OInv'
<1>1. CASE UNCHANGED vars
  <2>1. UNCHANGED <<binary, stage, i, j, c, it, offset>>
    BY <1>1 DEF vars
  <2>2. Ran' = Ran /\ Seen \subseteq Seen'
    BY <2>1, RanSame, SeenGrows
  <2>3. CASE stage \in Failed
    BY <2>1, <2>3 DEF OInv, Failed
  <2>4. CASE stage \notin Failed
    <3>1. Onward
      BY <2>1, <2>2, <2>4 DEF Onward
    <3>2. QED
      BY <2>1, <2>2, <3>1, OSame DEF OInv
  <2>5. QED
    BY <2>3, <2>4
<1>2. CASE CallDice
  BY <1>2, ODice
<1>3. CASE CallReloc
  BY <1>3, OReloc
<1>4. CASE ParseBlob
  BY <1>4, OParse
<1>5. CASE DrainOffset
  BY <1>5, ODrain DEF VInv
<1>6. CASE CallHold \/ CallExport \/ CallBind \/ CallRebase \/ CallDylib
  <2>1. /\ offset' = offset /\ CallStep /\ stage' # "parsed"
    BY <1>6 DEF CallHold, CallExport, CallBind, CallRebase, CallDylib, Calling, resolvers, CallStep
  <2>2. Arg.op \in {"hold", "export", "bind", "rebase", "dylib"}
    BY <1>6 DEF CallHold, CallExport, CallBind, CallRebase, CallDylib, Calling, Arg
  <2>3. /\ Onward
        /\ stage' \notin Failed =>
             /\ Ran' = Ran \cup {<<i, c>>} /\ CallOf(binary, <<i, c>>) = Arg
    BY <2>1, OnwardCall
  <2>4. ASSUME stage' \notin Failed, NEW p \in Ran'
        PROVE  p \in Ran \/ CallOf(binary, p).op # "dice"
    BY <2>2, <2>3, <2>4
  <2>5. QED
    BY <2>1, <2>3, <2>4, OSame
<1>7. CASE NextCommand \/ Constructed \/ EndSection \/ EndParse1 \/ Parsed1
  <2>1. offset' = offset /\ stage' # "parsed"
    BY <1>7 DEF NextCommand, Constructed, EndSection, EndParse1, Parsed1, Parsing, resolvers
  <2>2. Onward /\ (stage' \notin Failed => Ran' = Ran)
    BY <1>7, OnwardEarly
  <2>3. QED
    BY <2>1, <2>2, OSame
<1>8. CASE LateStep /\ ~ DrainOffset
  <2>1. offset' = offset /\ (stage' = "parsed" => DOMAIN offset.todo = {})
    <3>1. CASE DrainVmaddr \/ Resolved \/ SectionPlaced \/ CommandPlaced \/ AllPlaced \/ Finish
      BY <3>1 DEF DrainVmaddr, Resolved, SectionPlaced, CommandPlaced, AllPlaced, Finish,
         Placing, resolvers
    <3>2. CASE Place
      BY <3>2, PlaceEffect DEF resolvers
    <3>3. CASE Trail
      BY <3>3, TrailEffect DEF resolvers
    <3>4. QED
      BY <1>8, <3>1, <3>2, <3>3 DEF LateStep
  <2>2. Onward /\ Ran' = Ran
    BY <1>8, OnwardLate DEF VInv
  <2>3. QED
    BY <2>1, <2>2, OSame
<1>9. QED
  BY <1>1, <1>2, <1>3, <1>4, <1>5, <1>6, <1>7, <1>8 DEF Next, LateStep

LEMMA OInit ==
  Init => OInv
<1>. SUFFICES ASSUME NEW b \in Binaries, NewParse(b) PROVE OInv
  BY DEF Init
<1>1. /\ stage = "construct" /\ offset = NewResolver(TRUE)
      /\ i = 1 /\ c = 1 /\ binary \in Binaries
  BY DEF NewParse
<1>2. /\ DOMAIN offset.found = {} /\ DOMAIN offset.todo = {} /\ DOMAIN offset.pointer = {}
      /\ offset.lazy = TRUE
  BY <1>1 DEF NewResolver, NoEntries
<1>3. Ran = {}
  BY <1>1, RanNone
<1>4. DOMAIN NoEntries = {}
  BY DEF NoEntries
<1>5. Awaits(offset, NoEntries, FALSE) /\ OAsked(binary, NoEntries, Ran)
  BY <1>2, <1>3, <1>4 DEF Awaits, OAsked
<1>6. OBound
  BY <1>1, <1>5 DEF OBound, Early
<1>7. QED
  BY <1>1, <1>2, <1>6 DEF OInv, OThere

-----------------------------------------------------------------------------
(* The resolver of the dylibs.                                             *)

(* The commands, of those whose calls R were made, that are dylibs.        *)
Named(b, R) == {y \in DOMAIN b : \E p \in R : p[1] = y /\ CallOf(b, p).op = "dylib"}

(* Each is found under its rank among them.                                *)
Numbered(f, N) ==
  /\ DOMAIN f = 1..Cardinality(N)
  /\ \A n \in DOMAIN f : f[n] \in N /\ Cardinality({y \in N : y <= f[n]}) = n

DAsked(b, A, R) ==
  /\ DOMAIN A \subseteq R
  /\ \A p \in R : CallOf(b, p).op = "bind" => p \in DOMAIN A /\ A[p] = CallOf(b, p).n
DBound == \E A : DAsked(binary, A, Ran) /\ Serves(dylib, A)

DInv == stage \notin Failed => DBound /\ Numbered(dylib.found, Named(binary, Ran))

LEMMA NamedFinite ==
  ASSUME binary \in Binaries, NEW R
  PROVE  /\ Named(binary, R) \subseteq Nat /\ IsFiniteSet(Named(binary, R))
         /\ Cardinality(Named(binary, R)) \in Nat
<1>1. Named(binary, R) \subseteq 1..Len(binary) /\ Len(binary) \in Nat
  BY CommandTypes DEF Named
<1>2. IsFiniteSet(1..Len(binary))
  BY <1>1, FS_Interval
<1>3. IsFiniteSet(Named(binary, R))
  BY <1>1, <1>2, FS_Subset
<1>4. QED
  BY <1>1, <1>3, FS_CardinalityType

(* The next number goes to the one that comes last.                        *)
LEMMA NumberedMore ==
  ASSUME NEW f, NEW g, NEW N \in SUBSET Nat, NEW x \in Nat, IsFiniteSet(N), Numbered(f, N),
         \A y \in N : y < x, Found(f, g, Cardinality(N) + 1, x)
  PROVE  Numbered(g, N \cup {x})
<1>1. PICK K : K = Cardinality(N)
  OBVIOUS
<1>2. K \in Nat
  BY <1>1, FS_CardinalityType
<1>3. x \notin N
  OBVIOUS
<1>4. Cardinality(N \cup {x}) = K + 1
  BY <1>1, <1>3, FS_AddElement
<1>5. DOMAIN f = 1..K /\ K + 1 \notin DOMAIN f
  BY <1>1, <1>2 DEF Numbered
<1>6. /\ DOMAIN g = DOMAIN f \cup {K + 1} /\ g[K + 1] = x
      /\ \A n \in DOMAIN f : g[n] = f[n]
  BY <1>1, <1>5 DEF Found
<1>7. DOMAIN g = 1..(K + 1)
  BY <1>2, <1>5, <1>6
<1>8. ASSUME NEW n \in DOMAIN g
      PROVE  /\ g[n] \in N \cup {x}
             /\ Cardinality({y \in N \cup {x} : y <= g[n]}) = n
  <2>1. CASE n = K + 1
    <3>1. {y \in N \cup {x} : y <= x} = N \cup {x}
      <4>1. \A y \in N \cup {x} : y <= x
        OBVIOUS
      <4>2. QED
        BY <4>1
    <3>2. QED
      BY <1>4, <1>6, <2>1, <3>1
  <2>2. CASE n # K + 1
    <3>1. n \in DOMAIN f /\ g[n] = f[n] /\ f[n] \in N /\ Cardinality({y \in N : y <= f[n]}) = n
      BY <1>6, <2>2 DEF Numbered
    <3>2. f[n] < x /\ f[n] \in Nat
      BY <3>1
    <3>3. {y \in N \cup {x} : y <= f[n]} = {y \in N : y <= f[n]}
      BY <3>2
    <3>4. QED
      BY <3>1, <3>3
  <2>3. QED
    BY <2>1, <2>2
<1>9. QED
  BY <1>4, <1>7, <1>8 DEF Numbered

LEMMA DSame ==
  ASSUME DInv, Onward, dylib' = dylib,
         stage' \notin Failed =>
           \A p \in Ran' : p \in Ran \/ CallOf(binary, p).op \notin {"bind", "dylib"}
  PROVE  DInv'
<1>. SUFFICES ASSUME stage' \notin Failed
              PROVE  DBound' /\ Numbered(dylib'.found, Named(binary', Ran'))
  BY DEF DInv
<1>1. PICK A : DAsked(binary, A, Ran) /\ Serves(dylib, A)
  BY DEF DInv, DBound, Onward
<1>2. Ran \subseteq Ran' /\ binary' = binary
  BY DEF Onward
<1>3. DAsked(binary, A, Ran')
  BY <1>1, <1>2 DEF DAsked
<1>4. Named(binary, Ran') = Named(binary, Ran)
  <2>1. \A p \in Ran' : CallOf(binary, p).op = "dylib" => p \in Ran
    OBVIOUS
  <2>2. QED
    BY <1>2, <2>1 DEF Named
<1>5. DBound'
  BY <1>1, <1>2, <1>3 DEF DBound
<1>6. QED
  BY <1>2, <1>4, <1>5 DEF DInv, Onward

LEMMA DBind ==
  ASSUME TInv, DInv, CallBind
  PROVE  DInv'
<1>1. /\ dylib' = Ask(dylib, Arg.n, <<i, c>>) /\ stage = "construct"
      /\ UNCHANGED <<binary, stage>> /\ CallStep /\ Calling("bind")
  BY DEF CallBind, Calling, CallStep
<1>2. /\ Ran' = Ran \cup {<<i, c>>} /\ <<i, c>> \notin Ran
      /\ CallOf(binary, <<i, c>>) = Arg /\ Arg.op = "bind"
  BY <1>1, OnwardCall DEF Failed, Calling, Arg
<1>3. PICK A : DAsked(binary, A, Ran) /\ Serves(dylib, A)
  BY <1>1 DEF DInv, DBound, Failed
<1>4. PICK p, x : p = <<i, c>> /\ x = Arg.n
  OBVIOUS
<1>5. p \notin DOMAIN A
  BY <1>2, <1>3, <1>4 DEF DAsked
<1>6. PICK B : B = Put(A, p, x)
  OBVIOUS
<1>7. Serves(dylib', B) /\ dylib'.found = dylib.found
  <2>1. Serves(dylib, A)
    BY <1>3
  <2>2. Serves(Ask(dylib, x, p), Put(A, p, x)) /\ Ask(dylib, x, p).found = dylib.found
    BY <1>5, <2>1, AskServes
  <2>3. QED
    BY <1>1, <1>4, <1>6, <2>2
<1>8. DOMAIN B = DOMAIN A \cup {p} /\ B[p] = x /\ \A q \in DOMAIN A : q # p => B[q] = A[q]
  BY <1>6 DEF Put
<1>9. DAsked(binary, B, Ran')
  <2>1. DOMAIN B \subseteq Ran'
    BY <1>2, <1>3, <1>4, <1>8 DEF DAsked
  <2>2. ASSUME NEW q \in Ran', CallOf(binary, q).op = "bind"
        PROVE  q \in DOMAIN B /\ B[q] = CallOf(binary, q).n
    <3>1. CASE q = p
      BY <1>2, <1>4, <1>8, <3>1
    <3>2. CASE q # p
      BY <1>2, <1>3, <1>4, <1>8, <2>2, <3>2 DEF DAsked
    <3>3. QED
      BY <3>1, <3>2
  <2>3. QED
    BY <2>1, <2>2 DEF DAsked
<1>10. Named(binary, Ran') = Named(binary, Ran)
  <2>1. \A q \in Ran' : CallOf(binary, q).op = "dylib" => q \in Ran
    BY <1>2
  <2>2. QED
    BY <1>2, <2>1 DEF Named
<1>11. DBound'
  BY <1>1, <1>7, <1>9 DEF DBound
<1>12. Numbered(dylib.found, Named(binary, Ran))
  BY <1>1 DEF DInv, Failed
<1>13. QED
  BY <1>1, <1>7, <1>10, <1>11, <1>12 DEF DInv

LEMMA DDylib ==
  ASSUME TInv, DInv, CallDylib
  PROVE  DInv'
<1>1. /\ dylib' = Add(dylib, Cardinality(DOMAIN dylib.found) + 1, i) /\ stage = "construct"
      /\ UNCHANGED <<binary, stage>> /\ CallStep /\ Calling("dylib")
  BY DEF CallDylib, Calling, CallStep
<1>2. /\ Ran' = Ran \cup {<<i, c>>} /\ <<i, c>> \notin Ran
      /\ CallOf(binary, <<i, c>>) = Arg /\ Arg.op = "dylib"
  BY <1>1, OnwardCall DEF Failed, Calling, Arg
<1>3. /\ i \in DOMAIN binary /\ c \in DOMAIN binary[i].calls /\ Arg = binary[i].calls[c]
      /\ i \in Nat
  BY <1>1, CallingTypes DEF LC, TInv
<1>4. PICK A : DAsked(binary, A, Ran) /\ Serves(dylib, A)
  BY <1>1 DEF DInv, DBound, Failed
<1>5. PICK N : N = Named(binary, Ran)
  OBVIOUS
<1>6. Numbered(dylib.found, N)
  BY <1>1, <1>5 DEF DInv, Failed
<1>7. N \subseteq Nat /\ IsFiniteSet(N) /\ Cardinality(N) \in Nat
  BY <1>5, NamedFinite DEF TInv
<1>8. Cardinality(DOMAIN dylib.found) = Cardinality(N)
  <2>1. DOMAIN dylib.found = 1..Cardinality(N)
    BY <1>6 DEF Numbered
  <2>2. QED
    BY <1>7, <2>1, FS_Interval
<1>9. \A y \in N : y < i
  <2>1. SUFFICES ASSUME NEW p \in Ran, CallOf(binary, p).op = "dylib"
                 PROVE  p[1] < i
    BY <1>5 DEF Named
  <2>2. /\ p = <<p[1], p[2]>> /\ p[1] \in Nat /\ p[1] \in DOMAIN binary
        /\ p[2] \in DOMAIN binary[p[1]].calls
    BY CallFacts DEF Ran, TInv
  <2>3. p[1] < i \/ p[1] = i
    BY <1>1 DEF Ran
  <2>4. p[1] # i
    <3>1. OneDylib(binary[i])
      BY <1>3, CommandTypes DEF TInv
    <3>2. SUFFICES ASSUME p[1] = i PROVE FALSE
      OBVIOUS
    <3>3. p[2] = c
      BY <1>2, <1>3, <2>1, <2>2, <3>1, <3>2 DEF OneDylib, CallOf
    <3>4. QED
      BY <1>2, <2>2, <3>2, <3>3
  <2>5. QED
    BY <2>3, <2>4
<1>10. PICK key : key = Cardinality(N) + 1
  OBVIOUS
<1>11. Serves(dylib', A) /\ Found(dylib.found, dylib'.found, key, i)
  <2>1. Serves(dylib, A)
    BY <1>4
  <2>2. Serves(Add(dylib, key, i), A) /\ Found(dylib.found, Add(dylib, key, i).found, key, i)
    BY <2>1, AddServes
  <2>3. QED
    BY <1>1, <1>8, <1>10, <2>2
<1>12. Numbered(dylib'.found, N \cup {i})
  BY <1>3, <1>6, <1>7, <1>9, <1>10, <1>11, NumberedMore
<1>13. Named(binary, Ran') = N \cup {i}
  <2>1. <<i, c>> \in Ran' /\ <<i, c>>[1] = i
    BY <1>2
  <2>2. \A p \in Ran' : p \in Ran \/ p[1] = i
    BY <1>2
  <2>3. \A y \in DOMAIN binary :
          (\E p \in Ran' : p[1] = y /\ CallOf(binary, p).op = "dylib") <=>
          (\E p \in Ran : p[1] = y /\ CallOf(binary, p).op = "dylib") \/ y = i
    BY <1>2, <2>1, <2>2
  <2>4. QED
    BY <1>3, <1>5, <2>3 DEF Named
<1>14. DAsked(binary, A, Ran')
  <2>1. \A q \in Ran' : CallOf(binary, q).op = "bind" => q \in Ran
    BY <1>2
  <2>2. QED
    BY <1>2, <1>4, <2>1 DEF DAsked
<1>15. DBound'
  BY <1>1, <1>11, <1>14 DEF DBound
<1>16. QED
  BY <1>1, <1>12, <1>13, <1>15 DEF DInv

LEMMA DStep ==
  ASSUME TInv, VInv, DInv, [Next]_vars
  PROVE  DInv'
<1>1. CASE UNCHANGED vars
  <2>1. UNCHANGED <<binary, stage, i, j, c, it, dylib>>
    BY <1>1 DEF vars
  <2>2. Ran' = Ran /\ Seen \subseteq Seen'
    BY <2>1, RanSame, SeenGrows
  <2>3. CASE stage \in Failed
    BY <2>1, <2>3 DEF DInv
  <2>4. CASE stage \notin Failed
    <3>1. Onward
      BY <2>1, <2>2, <2>4 DEF Onward
    <3>2. QED
      BY <2>1, <2>2, <3>1, DSame
  <2>5. QED
    BY <2>3, <2>4
<1>2. CASE CallBind
  BY <1>2, DBind
<1>3. CASE CallDylib
  BY <1>3, DDylib
<1>4. CASE CallHold \/ CallExport \/ CallRebase \/ CallDice \/ CallReloc
  <2>1. dylib' = dylib /\ CallStep
    BY <1>4 DEF CallHold, CallExport, CallRebase, CallDice, CallReloc, resolvers, CallStep
  <2>2. Arg.op \in {"hold", "export", "rebase", "dice", "reloc"}
    BY <1>4 DEF CallHold, CallExport, CallRebase, CallDice, CallReloc, Calling, Arg
  <2>3. /\ Onward
        /\ stage' \notin Failed =>
             /\ Ran' = Ran \cup {<<i, c>>} /\ CallOf(binary, <<i, c>>) = Arg
    BY <2>1, OnwardCall
  <2>4. ASSUME stage' \notin Failed, NEW p \in Ran'
        PROVE  p \in Ran \/ CallOf(binary, p).op \notin {"bind", "dylib"}
    BY <2>2, <2>3, <2>4
  <2>5. QED
    BY <2>1, <2>3, <2>4, DSame
<1>5. CASE NextCommand \/ Constructed \/ ParseBlob \/ EndSection \/ EndParse1 \/ Parsed1
  <2>1. dylib' = dylib
    BY <1>5, ParseBlobEffect DEF NextCommand, Constructed, EndSection, EndParse1, Parsed1, resolvers
  <2>2. Onward /\ (stage' \notin Failed => Ran' = Ran)
    BY <1>5, OnwardEarly
  <2>3. QED
    BY <2>1, <2>2, DSame
<1>6. CASE LateStep
  <2>1. dylib' = dylib
    <3>1. CASE DrainOffset \/ DrainVmaddr \/ Resolved \/ SectionPlaced \/ CommandPlaced
               \/ AllPlaced \/ Finish
      BY <3>1 DEF DrainOffset, DrainVmaddr, Resolved, SectionPlaced, CommandPlaced, AllPlaced,
         Finish, resolvers
    <3>2. CASE Place
      BY <3>2, PlaceEffect DEF resolvers
    <3>3. CASE Trail
      BY <3>3, TrailEffect DEF resolvers
    <3>4. QED
      BY <1>6, <3>1, <3>2, <3>3 DEF LateStep
  <2>2. Onward /\ Ran' = Ran
    BY <1>6, OnwardLate DEF VInv
  <2>3. QED
    BY <2>1, <2>2, DSame
<1>7. QED
  BY <1>1, <1>2, <1>3, <1>4, <1>5, <1>6 DEF Next, LateStep

LEMMA DInit ==
  Init => DInv
<1>. SUFFICES ASSUME NEW b \in Binaries, NewParse(b) PROVE DInv
  BY DEF Init
<1>1. /\ stage = "construct" /\ dylib = NewResolver(FALSE)
      /\ i = 1 /\ c = 1 /\ binary \in Binaries
  BY DEF NewParse
<1>2. /\ DOMAIN dylib.found = {} /\ DOMAIN dylib.todo = {} /\ DOMAIN dylib.pointer = {}
      /\ dylib.lazy = FALSE
  BY <1>1 DEF NewResolver, NoEntries
<1>3. Ran = {}
  BY <1>1, RanNone
<1>4. DOMAIN NoEntries = {}
  BY DEF NoEntries
<1>5. Serves(dylib, NoEntries) /\ DAsked(binary, NoEntries, Ran)
  BY <1>2, <1>3, <1>4 DEF Serves, DAsked
<1>6. Named(binary, Ran) = {}
  BY <1>3 DEF Named
<1>7. Numbered(dylib.found, {})
  BY <1>2, FS_EmptySet DEF Numbered
<1>8. QED
  BY <1>5, <1>6, <1>7 DEF DInv, DBound

-----------------------------------------------------------------------------
(* The immediates that rebase nodes name.                                  *)

(* An immediate found for address a points to the placeholder at its       *)
(* value, and there is one.                                                *)
Pointed(f, m, O, a) ==
  a \in DOMAIN f /\ f[a][1] = "immediate" =>
    IF m[a].value = 0 THEN m[a].pointee = Null
    ELSE m[a].pointee = <<"placeholder", m[a].value>> /\ m[a].value \in O

(* A rebase that no longer waits found bytes to relocate, before there was *)
(* an immediate, or has been called back.                                  *)
Served(p) ==
  LET a == CallOf(binary, p).at IN
  IF stage \in Early THEN a \in DOMAIN vmaddr.found /\ vmaddr.found[a][1] = "reloc"
  ELSE Pointed(vmaddr.found, immediate, DOMAIN owner, a)

RInv ==
  stage \notin Failed => \A p \in Ran : CallOf(binary, p).op = "rebase" =>
    Waits(vmaddr, CallOf(binary, p).at, p) \/ Served(p)

LEMMA RSame ==
  ASSUME RInv, Onward, StillWaits(vmaddr, vmaddr'), Kept(vmaddr.found, vmaddr'.found),
         stage \notin Early => /\ vmaddr'.found = vmaddr.found /\ immediate' = immediate
                               /\ DOMAIN owner \subseteq DOMAIN owner',
         stage' \notin Failed =>
           \A p \in Ran' : p \in Ran \/ CallOf(binary, p).op # "rebase"
  PROVE  RInv'
<1>. SUFFICES ASSUME stage' \notin Failed, NEW p \in Ran', CallOf(binary', p).op = "rebase"
              PROVE  Waits(vmaddr', CallOf(binary', p).at, p) \/ Served(p)'
  BY DEF RInv
<1>1. binary' = binary /\ p \in Ran
  BY DEF Onward
<1>2. PICK a : a = CallOf(binary, p).at
  OBVIOUS
<1>3. Waits(vmaddr, a, p) \/ Served(p)
  BY <1>1, <1>2 DEF RInv, Onward
<1>4. CASE Waits(vmaddr, a, p)
  BY <1>1, <1>2, <1>4 DEF Waits, StillWaits
<1>5. CASE Served(p) /\ stage \in Early
  <2>1. a \in DOMAIN vmaddr.found /\ vmaddr.found[a][1] = "reloc"
    BY <1>2, <1>5 DEF Served
  <2>2. a \in DOMAIN vmaddr'.found /\ vmaddr'.found[a][1] = "reloc"
    BY <2>1 DEF Kept
  <2>3. Pointed(vmaddr'.found, immediate', DOMAIN owner', a)
    BY <2>2 DEF Pointed
  <2>4. QED
    BY <1>1, <1>2, <2>2, <2>3 DEF Served
<1>6. CASE Served(p) /\ stage \notin Early
  <2>1. stage' \notin Early
    BY <1>6 DEF Onward
  <2>2. Pointed(vmaddr.found, immediate, DOMAIN owner, a)
    BY <1>2, <1>6 DEF Served
  <2>3. Pointed(vmaddr'.found, immediate', DOMAIN owner', a)
    BY <1>6, <2>2 DEF Pointed
  <2>4. QED
    BY <1>1, <1>2, <2>1, <2>3 DEF Served
<1>7. QED
  BY <1>3, <1>4, <1>5, <1>6

LEMMA RRebase ==
  ASSUME TInv, CInv, VInv, RInv, CallRebase
  PROVE  RInv'
<1>1. /\ StillWaits(vmaddr, vmaddr') /\ vmaddr'.found = vmaddr.found
      /\ Arg.at \notin DOMAIN vmaddr.found => Waits(vmaddr', Arg.at, <<i, c>>)
  BY VAsk
<1>2. stage = "construct" /\ UNCHANGED <<binary, stage>> /\ CallStep
  BY DEF CallRebase, Calling, CallStep
<1>3. Ran' = Ran \cup {<<i, c>>} /\ CallOf(binary, <<i, c>>) = Arg
  BY <1>2, OnwardCall DEF Failed
<1>4. ASSUME NEW p \in Ran', CallOf(binary, p).op = "rebase"
      PROVE  Waits(vmaddr', CallOf(binary, p).at, p) \/ Served(p)'
  <2>1. CASE p \in Ran
    <3>1. Waits(vmaddr, CallOf(binary, p).at, p) \/ Served(p)
      BY <1>2, <1>4, <2>1 DEF RInv, Failed
    <3>2. Waits(vmaddr, CallOf(binary, p).at, p) => Waits(vmaddr', CallOf(binary, p).at, p)
      BY <1>1 DEF Waits, StillWaits
    <3>3. Served(p) => Served(p)'
      BY <1>1, <1>2 DEF Served, Early
    <3>4. QED
      BY <3>1, <3>2, <3>3
  <2>2. CASE p = <<i, c>>
    <3>1. CallOf(binary, p) = Arg
      BY <1>3, <2>2
    <3>2. CASE Arg.at \notin DOMAIN vmaddr.found
      BY <1>1, <2>2, <3>1, <3>2
    <3>3. CASE Arg.at \in DOMAIN vmaddr.found
      <4>1. vmaddr.found[Arg.at][1] = "reloc"
        BY <1>2, <3>3 DEF VInv
      <4>2. CallOf(binary', p) = Arg
        BY <1>2, <3>1
      <4>3. QED
        BY <1>1, <1>2, <3>1, <3>3, <4>1 DEF Served, Early
    <3>4. QED
      BY <3>2, <3>3
  <2>3. QED
    BY <1>3, <2>1, <2>2
<1>5. QED
  BY <1>2, <1>4 DEF RInv

LEMMA RDrain ==
  ASSUME TInv, CInv, VInv, RInv, DrainVmaddr
  PROVE  RInv'
<1>1. PICK key : /\ key = First(DOMAIN vmaddr.todo) /\ vmaddr' = DrainEntry(vmaddr, key)
                 /\ IF /\ key \in DOMAIN vmaddr.found /\ vmaddr.found[key][1] = "immediate"
                       /\ \E p \in Waiting(vmaddr, key) : IsRebase(p)
                    THEN /\ key \in DOMAIN immediate /\ immediate[key].value \in Nat
                         /\ Callback(key, immediate[key].value)
                    ELSE UNCHANGED <<immediate, held>>
  BY DrainVmaddrEffect DEF VInv
<1>2. stage = "resolve" /\ UNCHANGED <<binary, stage>>
  BY DrainVmaddrEffect DEF VInv
<1>3. Ran' = Ran
  BY OnwardLate DEF LateStep, VInv
<1>4. /\ vmaddr'.found = vmaddr.found /\ vmaddr'.todo = Without(vmaddr.todo, key)
  BY <1>1 DEF DrainEntry
<1>5. /\ DOMAIN vmaddr'.todo = DOMAIN vmaddr.todo \ {key}
      /\ \A x \in DOMAIN vmaddr'.todo : vmaddr'.todo[x] = vmaddr.todo[x]
  BY <1>4 DEF Without
<1>6. CASE /\ key \in DOMAIN vmaddr.found /\ vmaddr.found[key][1] = "immediate"
           /\ \E p \in Waiting(vmaddr, key) : IsRebase(p)
  <2>1. PICK v, m : v = immediate[key].value /\ m = immediate[key]
    OBVIOUS
  <2>2. /\ key \in DOMAIN immediate /\ v \in Nat /\ Hold(v, 0, 0)
        /\ immediate' = [immediate EXCEPT ![key].pointee = IF v = 0 THEN Null ELSE <<"placeholder", v>>]
    BY <1>1, <1>6, <2>1 DEF Callback
  <2>3. Immediate(immediate[key])
    BY <2>2 DEF TInv
  <2>4. /\ immediate'[key].value = v
        /\ immediate'[key].pointee = IF v = 0 THEN Null ELSE <<"placeholder", v>>
        /\ \A a \in DOMAIN immediate : a # key => immediate'[a] = immediate[a]
    BY <2>1, <2>2, <2>3 DEF Immediate
  <2>5. DOMAIN owner \subseteq DOMAIN owner' /\ (v # 0 => v \in DOMAIN owner')
    BY <2>2 DEF Hold, Put
  <2>6. Pointed(vmaddr'.found, immediate', DOMAIN owner', key)
    BY <2>4, <2>5 DEF Pointed
  <2>7. ASSUME NEW a, Pointed(vmaddr.found, immediate, DOMAIN owner, a)
        PROVE  Pointed(vmaddr'.found, immediate', DOMAIN owner', a)
    <3>1. CASE a = key
      BY <2>6, <3>1
    <3>2. CASE a # key /\ a \in DOMAIN vmaddr.found /\ vmaddr.found[a][1] = "immediate"
      <4>1. a \in DOMAIN immediate
        BY <3>2 DEF VInv, Known
      <4>2. immediate'[a] = immediate[a]
        BY <2>4, <3>2, <4>1
      <4>3. QED
        BY <1>4, <2>5, <2>7, <4>2 DEF Pointed
    <3>3. CASE ~ (a \in DOMAIN vmaddr.found /\ vmaddr.found[a][1] = "immediate")
      BY <1>4, <3>3 DEF Pointed
    <3>4. QED
      BY <3>1, <3>2, <3>3
  <2>8. ASSUME NEW p \in Ran, CallOf(binary, p).op = "rebase"
        PROVE  Waits(vmaddr', CallOf(binary, p).at, p) \/ Served(p)'
    <3>1. PICK a : a = CallOf(binary, p).at
      OBVIOUS
    <3>2. Waits(vmaddr, a, p) \/ Pointed(vmaddr.found, immediate, DOMAIN owner, a)
      BY <1>2, <2>8, <3>1 DEF RInv, Served, Early, Failed
    <3>3. Waits(vmaddr', a, p) \/ Pointed(vmaddr'.found, immediate', DOMAIN owner', a)
      <4>1. CASE Pointed(vmaddr.found, immediate, DOMAIN owner, a)
        BY <2>7, <4>1
      <4>2. CASE Waits(vmaddr, a, p) /\ a # key
        BY <1>5, <4>2 DEF Waits
      <4>3. CASE a = key
        BY <2>6, <4>3
      <4>4. QED
        BY <3>2, <4>1, <4>2, <4>3
    <3>4. QED
      BY <1>2, <3>1, <3>3 DEF Served, Early
  <2>9. QED
    BY <1>2, <1>3, <2>8 DEF RInv
<1>7. CASE ~ (/\ key \in DOMAIN vmaddr.found /\ vmaddr.found[key][1] = "immediate"
              /\ \E p \in Waiting(vmaddr, key) : IsRebase(p))
  <2>1. immediate' = immediate /\ owner' = owner
    BY <1>1, <1>7 DEF held
  <2>2. ASSUME NEW p \in Ran, CallOf(binary, p).op = "rebase"
        PROVE  Waits(vmaddr', CallOf(binary, p).at, p) \/ Served(p)'
    <3>1. PICK a : a = CallOf(binary, p).at
      OBVIOUS
    <3>2. Waits(vmaddr, a, p) \/ Pointed(vmaddr.found, immediate, DOMAIN owner, a)
      BY <1>2, <2>2, <3>1 DEF RInv, Served, Early, Failed
    <3>3. Waits(vmaddr', a, p) \/ Pointed(vmaddr'.found, immediate', DOMAIN owner', a)
      <4>1. CASE Pointed(vmaddr.found, immediate, DOMAIN owner, a)
        BY <1>4, <2>1, <4>1
      <4>2. CASE Waits(vmaddr, a, p) /\ a # key
        BY <1>5, <4>2 DEF Waits
      <4>3. CASE Waits(vmaddr, a, p) /\ a = key
        <5>1. p \in Waiting(vmaddr, key)
          BY <4>3 DEF Waits, Waiting
        <5>2. IsRebase(p)
          <6>1. p = <<p[1], p[2]>>
            BY CallFacts DEF Ran, TInv
          <6>2. Len(p) = 2
            BY <6>1
          <6>3. QED
            BY <2>2, <6>2 DEF IsRebase, CallOf
        <5>3. QED
          BY <1>4, <1>7, <4>3, <5>1, <5>2 DEF Pointed
      <4>4. QED
        BY <3>2, <4>1, <4>2, <4>3
    <3>4. QED
      BY <1>2, <3>1, <3>3 DEF Served, Early
  <2>3. QED
    BY <1>2, <1>3, <2>2 DEF RInv
<1>8. QED
  BY <1>6, <1>7

LEMMA RStep ==
  ASSUME TInv, CInv, VInv, RInv, [Next]_vars
  PROVE  RInv'
<1>1. vmaddr' = vmaddr => StillWaits(vmaddr, vmaddr') /\ Kept(vmaddr.found, vmaddr'.found)
  BY DEF StillWaits, Kept
<1>2. CASE UNCHANGED vars
  <2>1. UNCHANGED <<binary, stage, i, j, c, it, vmaddr, immediate, owner>>
    BY <1>2 DEF vars
  <2>2. Ran' = Ran /\ Seen \subseteq Seen'
    BY <2>1, RanSame, SeenGrows
  <2>3. CASE stage \in Failed
    BY <2>1, <2>3 DEF RInv
  <2>4. CASE stage \notin Failed
    <3>1. Onward
      BY <2>1, <2>2, <2>4 DEF Onward
    <3>2. QED
      BY <1>1, <2>1, <2>2, <3>1, RSame
  <2>5. QED
    BY <2>3, <2>4
<1>3. CASE CallRebase
  BY <1>3, RRebase
<1>4. CASE DrainVmaddr
  BY <1>4, RDrain
<1>5. CASE CallHold \/ CallExport \/ CallBind \/ CallDice \/ CallDylib \/ CallReloc
  <2>1. CallStep /\ (vmaddr' = vmaddr \/ CallBind \/ CallReloc)
    BY <1>5 DEF CallHold, CallExport, CallDice, CallDylib, resolvers, CallStep
  <2>2. Arg.op \in {"hold", "export", "bind", "dice", "dylib", "reloc"}
    BY <1>5 DEF CallHold, CallExport, CallBind, CallDice, CallDylib, CallReloc, Calling, Arg
  <2>3. /\ Onward /\ stage \in Early
        /\ stage' \notin Failed =>
             /\ Ran' = Ran \cup {<<i, c>>} /\ CallOf(binary, <<i, c>>) = Arg
    BY <2>1, OnwardCall DEF Early
  <2>4. StillWaits(vmaddr, vmaddr') /\ Kept(vmaddr.found, vmaddr'.found)
    <3>1. CASE CallBind
      BY <3>1, VAsk DEF Kept
    <3>2. CASE CallReloc
      BY <3>2, VReloc DEF StillWaits
    <3>3. QED
      BY <1>1, <2>1, <3>1, <3>2
  <2>5. ASSUME stage' \notin Failed, NEW p \in Ran'
        PROVE  p \in Ran \/ CallOf(binary, p).op # "rebase"
    BY <2>2, <2>3, <2>5
  <2>6. QED
    BY <2>3, <2>4, <2>5, RSame
<1>6. CASE NextCommand \/ Constructed \/ ParseBlob \/ EndSection \/ EndParse1 \/ Parsed1
  <2>1. StillWaits(vmaddr, vmaddr') /\ Kept(vmaddr.found, vmaddr'.found)
    <3>1. CASE ParseBlob
      BY <3>1, VParse
    <3>2. CASE NextCommand \/ Constructed \/ EndSection \/ EndParse1 \/ Parsed1
      BY <1>1, <3>2 DEF NextCommand, Constructed, EndSection, EndParse1, Parsed1, resolvers
    <3>3. QED
      BY <1>6, <3>1, <3>2
  <2>2. Onward /\ stage \in Early /\ (stage' \notin Failed => Ran' = Ran)
    BY <1>6, OnwardEarly
  <2>3. QED
    BY <2>1, <2>2, RSame
<1>7. CASE LateStep /\ ~ DrainVmaddr
  <2>1. vmaddr' = vmaddr /\ immediate' = immediate /\ DOMAIN owner \subseteq DOMAIN owner'
    <3>1. CASE DrainOffset \/ Resolved \/ SectionPlaced \/ CommandPlaced \/ AllPlaced \/ Finish
      BY <3>1 DEF DrainOffset, Resolved, SectionPlaced, CommandPlaced, AllPlaced,
         Finish, resolvers, built, held
    <3>2. CASE Place
      BY <3>2, PlaceEffect DEF resolvers, held, PutInFront
    <3>3. CASE Trail
      BY <3>3, TrailEffect DEF resolvers
    <3>4. QED
      BY <1>7, <3>1, <3>2, <3>3 DEF LateStep
  <2>2. Onward /\ Ran' = Ran
    BY <1>7, OnwardLate DEF VInv
  <2>3. QED
    BY <1>1, <2>1, <2>2, RSame
<1>8. QED
  BY <1>2, <1>3, <1>4, <1>5, <1>6, <1>7 DEF Next, LateStep

LEMMA RInit ==
  Init => RInv
<1>. SUFFICES ASSUME NEW b \in Binaries, NewParse(b) PROVE RInv
  BY DEF Init
<1>1. stage = "construct" /\ i = 1 /\ c = 1 /\ binary \in Binaries
  BY DEF NewParse
<1>2. Ran = {}
  BY <1>1, RanNone
<1>3. QED
  BY <1>2 DEF RInv

-----------------------------------------------------------------------------
(* The invariant and what it implies.                                      *)

Inv == TInv /\ CInv /\ VInv /\ OInv /\ DInv /\ RInv

LEMMA InitInv ==
  Init => Inv
BY TInit, CInit, VInit, OInit, DInit, RInit DEF Inv

LEMMA NextInv ==
  Inv /\ [Next]_vars => Inv'
<1>. SUFFICES ASSUME Inv, [Next]_vars PROVE Inv'
  OBVIOUS
<1>1. TInv /\ CInv /\ VInv /\ OInv /\ DInv /\ RInv /\ Known /\ Quiet
  BY DEF Inv, VInv, Quiet
<1>2. TInv' /\ CInv'
  BY <1>1, TStep, CStep
<1>3. VInv' /\ OInv'
  BY <1>1, VStep, OStep
<1>4. DInv' /\ RInv'
  BY <1>1, DStep, RStep
<1>5. QED
  BY <1>2, <1>3, <1>4 DEF Inv

(* Where the placeholder for an address is, once all are in lists.         *)
LEMMA Position ==
  ASSUME CInv, stage = "parsed", NEW p \in DOMAIN owner
  PROVE  \E s, n : StandsAt(content, owner, p, s, n) /\ Positions(p) = {<<s, n>>}
<1>1. placeholders = {} /\ Stand(content, owner, placeholders)
  BY DEF CInv, Over, Lists
<1>2. PICK s, n : StandsAt(content, owner, p, s, n)
  BY <1>1 DEF Stand
<1>3. /\ s \in Sections /\ n \in DOMAIN content[s] /\ content[s][n] = Placeholder(p)
      /\ \A t \in Sections : \A m \in DOMAIN content[t] :
           content[t][m] = Placeholder(p) => t = s /\ m = n
  BY <1>2 DEF StandsAt, Only
<1>4. ASSUME NEW q PROVE q \in Positions(p) <=> q = <<s, n>>
  <2>1. q \in Positions(p) <=>
          \E t \in Sections : \E m \in DOMAIN content[t] :
            content[t][m] = Placeholder(p) /\ q = <<t, m>>
    BY DEF Positions
  <2>2. QED
    BY <1>3, <2>1
<1>5. Positions(p) = {<<s, n>>}
  BY <1>4
<1>6. QED
  BY <1>2, <1>5

LEMMA InvPlaced ==
  TInv /\ CInv => Placed
<1>. SUFFICES ASSUME TInv, CInv PROVE Placed
  OBVIOUS
<1>1. Sorted
  BY DEF CInv, Lists, Sorts, InOrder, Sorted
<1>2. ASSUME stage = "parsed", NEW p \in DOMAIN owner
      PROVE  /\ Cardinality(Positions(p)) = 1
             /\ \A s \in Sections : \A n \in DOMAIN content[s] : <<s, n>> \in Positions(p) =>
                  IF n = Len(content[s])
                  THEN /\ p = At(s).addr + Size(At(s))
                       /\ \A t \in Sections : p \notin Starts(t)
                  ELSE content[s][n + 1].addr = p /\ owner[p] = s
  <2>1. PICK s, n : StandsAt(content, owner, p, s, n) /\ Positions(p) = {<<s, n>>}
    BY <1>2, Position
  <2>2. Cardinality(Positions(p)) = 1
    BY <2>1, FS_Singleton
  <2>3. IF n = Len(content[s])
        THEN /\ p = At(s).addr + Size(At(s))
             /\ \A t \in Sections : p \notin Starts(t)
        ELSE content[s][n + 1].addr = p /\ owner[p] = s
    <3>1. Rests(content, owner, p, s, n)
      BY <2>1 DEF StandsAt
    <3>2. CASE n = Len(content[s])
      <4>1. p = End(s) /\ NoStart(content, p)
        BY <3>1, <3>2 DEF Rests
      <4>2. ASSUME NEW t \in Sections PROVE p \notin Starts(t)
        BY <4>1 DEF NoStart, Starts
      <4>3. QED
        BY <3>2, <4>1, <4>2 DEF End
    <3>3. CASE n # Len(content[s])
      BY <3>1, <3>3 DEF Rests
    <3>4. QED
      BY <3>2, <3>3
  <2>4. ASSUME NEW t \in Sections, NEW m \in DOMAIN content[t], <<t, m>> \in Positions(p)
        PROVE  t = s /\ m = n
    BY <2>1, <2>4
  <2>5. QED
    BY <2>2, <2>3, <2>4
<1>3. QED
  BY <1>1, <1>2 DEF Placed

(* Whoever was not left waiting has what was found for its key.            *)
LEMMA AllAnswered ==
  ASSUME NEW r, NEW A, NEW p, Awaits(r, A, TRUE), DOMAIN r.todo = {}, p \in DOMAIN A
  PROVE  r.pointer[p] = IF A[p] \in DOMAIN r.found THEN r.found[A[p]] ELSE Null
BY DEF Awaits, Answered, Waits

LEMMA NotNull ==
  ASSUME NEW k \in Names, NEW a \in Nat
  PROVE  <<k, a>> # Null
<1>1. <<k, a>> \in Names \X Nat
  OBVIOUS
<1>2. QED
  BY <1>1, NullAssumption

(* What a pointer that asked for an address is bound to.                   *)
LEMMA BoundThere ==
  ASSUME VInv, stage = "parsed", NEW p \in Ran, CallOf(binary, p).op \in {"bind", "rebase"}
  PROVE  LET a == CallOf(binary, p).at IN
         /\ (vmaddr.pointer[p] # Null) <=> (a \in DOMAIN vmaddr.found)
         /\ vmaddr.pointer[p] # Null => /\ vmaddr.pointer[p][2] = a
                                        /\ vmaddr.pointer[p] = vmaddr.found[a]
<1>1. PICK a : a = CallOf(binary, p).at
  OBVIOUS
<1>2. PICK A : Asked(binary, A, Ran, Seen) /\ Awaits(vmaddr, A, TRUE)
  BY DEF VInv, VBound, Failed, Early
<1>3. p \in DOMAIN A /\ A[p] = a
  BY <1>1, <1>2 DEF Asked
<1>4. vmaddr.pointer[p] = IF a \in DOMAIN vmaddr.found THEN vmaddr.found[a] ELSE Null
  <2>1. DOMAIN vmaddr.todo = {}
    BY DEF VInv
  <2>2. QED
    BY <1>2, <1>3, <2>1, AllAnswered
<1>5. ASSUME a \in DOMAIN vmaddr.found
      PROVE  vmaddr.found[a] # Null /\ vmaddr.found[a][2] = a
  <2>1. a \in Nat /\ vmaddr.found[a][1] \in Names /\ vmaddr.found[a] = <<vmaddr.found[a][1], a>>
    BY <1>5 DEF VInv, There
  <2>2. QED
    BY <2>1, NotNull
<1>6. QED
  BY <1>1, <1>4, <1>5

(* What a pointer that asked for an offset is bound to.                    *)
LEMMA BoundMapped ==
  ASSUME OInv, NEW A, NEW q, NEW o, Awaits(offset, A, TRUE), stage = "parsed",
         q \in DOMAIN A, A[q] = o
  PROVE  /\ (offset.pointer[q] # Null) <=> (o \in DOMAIN offset.found)
         /\ offset.pointer[q] # Null => SameDistance(binary, o, offset.pointer[q][2])
<1>1. offset.pointer[q] = IF o \in DOMAIN offset.found THEN offset.found[o] ELSE Null
  <2>1. DOMAIN offset.todo = {}
    BY DEF OInv
  <2>2. QED
    BY <2>1, AllAnswered
<1>2. ASSUME o \in DOMAIN offset.found
      PROVE  offset.found[o] # Null /\ SameDistance(binary, o, offset.found[o][2])
  <2>1. Mapped(binary, o, offset.found[o])
    BY <1>2 DEF OInv, OThere
  <2>2. /\ offset.found[o] = <<offset.found[o][1], offset.found[o][2]>>
        /\ offset.found[o][1] \in Names /\ offset.found[o][2] \in Nat
    BY <2>1 DEF Mapped
  <2>3. offset.found[o] # Null
    BY <2>2, NotNull
  <2>4. QED
    BY <2>1, <2>3 DEF Mapped
<1>3. QED
  BY <1>1, <1>2

LEMMA AllRan ==
  ASSUME stage = "parsed", NEW x \in DOMAIN binary, NEW k \in DOMAIN binary[x].calls
  PROVE  <<x, k>> \in Ran /\ CallOf(binary, <<x, k>>) = binary[x].calls[k]
<1>1. <<x, k>> \in Calls
  BY DEF Calls
<1>2. QED
  BY <1>1 DEF Ran, CallOf

LEMMA InvBoundToStart ==
  TInv /\ VInv /\ OInv /\ DInv => BoundToStart
<1>. SUFFICES ASSUME TInv, VInv, OInv, DInv, stage = "parsed",
                     NEW x \in DOMAIN binary, NEW k \in DOMAIN binary[x].calls
     PROVE
       LET call == binary[x].calls[k]
           named == {y \in DOMAIN binary : \E m \in DOMAIN binary[y].calls :
                                             binary[y].calls[m].op = "dylib"} IN
       /\ call.op = "bind" /\ call.n \in 1..Cardinality(named) =>
            /\ dylib.pointer[<<x, k>>] \in named
            /\ Cardinality({y \in named : y <= dylib.pointer[<<x, k>>]}) = call.n
       /\ call.op \in {"bind", "rebase"} =>
            /\ (vmaddr.pointer[<<x, k>>] # Null) <=> (call.at \in DOMAIN vmaddr.found)
            /\ vmaddr.pointer[<<x, k>>] # Null => vmaddr.pointer[<<x, k>>][2] = call.at
       /\ call.op = "dice" =>
            LET first == offset.pointer[<<x, k, "start">>]
                last == offset.pointer[<<x, k, "end">>] IN
            /\ (first # Null) <=> (call.at \in DOMAIN offset.found)
            /\ (last # Null) <=> (call.at + call.n \in DOMAIN offset.found)
            /\ first # Null => \E s \in Sections :
                 first[2] - At(s).addr = call.at - At(s).offset
  BY DEF BoundToStart, VInv, OInv
<1>1. PICK call, p : call = binary[x].calls[k] /\ p = <<x, k>>
  OBVIOUS
<1>2. p \in Ran /\ CallOf(binary, p) = call
  BY <1>1, AllRan
<1>3. PICK named : named = {y \in DOMAIN binary : \E m \in DOMAIN binary[y].calls :
                                                   binary[y].calls[m].op = "dylib"}
  OBVIOUS
<1>4. named = Named(binary, Ran)
  <2>1. ASSUME NEW y \in DOMAIN binary
        PROVE  (\E m \in DOMAIN binary[y].calls : binary[y].calls[m].op = "dylib") <=>
               (\E q \in Ran : q[1] = y /\ CallOf(binary, q).op = "dylib")
    <3>1. ASSUME NEW m \in DOMAIN binary[y].calls
          PROVE  <<y, m>> \in Ran /\ <<y, m>>[1] = y
                 /\ CallOf(binary, <<y, m>>) = binary[y].calls[m]
      BY AllRan
    <3>2. ASSUME NEW q \in Ran, q[1] = y
          PROVE  q[2] \in DOMAIN binary[y].calls /\ CallOf(binary, q) = binary[y].calls[q[2]]
      BY <3>2, CallFacts DEF Ran, TInv, CallOf
    <3>3. QED
      BY <3>1, <3>2
  <2>2. QED
    BY <1>3, <2>1 DEF Named
<1>5. ASSUME call.op = "bind", call.n \in 1..Cardinality(named)
      PROVE  /\ dylib.pointer[p] \in named
             /\ Cardinality({y \in named : y <= dylib.pointer[p]}) = call.n
  <2>1. PICK A : DAsked(binary, A, Ran) /\ Serves(dylib, A)
    BY DEF DInv, DBound, Failed
  <2>2. p \in DOMAIN A /\ A[p] = call.n
    BY <1>2, <1>5, <2>1 DEF DAsked
  <2>3. Numbered(dylib.found, named)
    BY <1>4 DEF DInv, Failed
  <2>4. call.n \in DOMAIN dylib.found
    BY <1>5, <2>3 DEF Numbered
  <2>5. dylib.pointer[p] = dylib.found[call.n]
    BY <2>1, <2>2, <2>4 DEF Serves
  <2>6. QED
    BY <2>3, <2>4, <2>5 DEF Numbered
<1>6. ASSUME call.op \in {"bind", "rebase"}
      PROVE  /\ (vmaddr.pointer[p] # Null) <=> (call.at \in DOMAIN vmaddr.found)
             /\ vmaddr.pointer[p] # Null => vmaddr.pointer[p][2] = call.at
  BY <1>2, <1>6, BoundThere
<1>7. ASSUME call.op = "dice"
      PROVE  /\ (offset.pointer[<<x, k, "start">>] # Null) <=> (call.at \in DOMAIN offset.found)
             /\ (offset.pointer[<<x, k, "end">>] # Null) <=>
                  (call.at + call.n \in DOMAIN offset.found)
             /\ offset.pointer[<<x, k, "start">>] # Null => \E s \in Sections :
                  offset.pointer[<<x, k, "start">>][2] - At(s).addr = call.at - At(s).offset
  <2>1. PICK A : OAsked(binary, A, Ran) /\ Awaits(offset, A, TRUE)
    BY DEF OInv, OBound, Failed, Early
  <2>2. p[1] = x /\ p[2] = k
    BY <1>1
  <2>3. PICK u, v : u = <<x, k, "start">> /\ v = <<x, k, "end">>
    OBVIOUS
  <2>4. /\ u \in DOMAIN A /\ A[u] = call.at
        /\ v \in DOMAIN A /\ A[v] = call.at + call.n
    BY <1>2, <1>7, <2>1, <2>2, <2>3 DEF OAsked
  <2>5. Awaits(offset, A, TRUE)
    BY <2>1
  <2>6. /\ (offset.pointer[u] # Null) <=> (call.at \in DOMAIN offset.found)
        /\ offset.pointer[u] # Null => SameDistance(binary, call.at, offset.pointer[u][2])
    BY <2>4, <2>5, BoundMapped
  <2>7. (offset.pointer[v] # Null) <=> (call.at + call.n \in DOMAIN offset.found)
    BY <2>4, <2>5, BoundMapped
  <2>8. ASSUME NEW a, NEW o, SameDistance(binary, o, a)
        PROVE  \E s \in Sections : a - At(s).addr = o - At(s).offset
    <3>1. PICK y \in DOMAIN binary : \E z \in DOMAIN binary[y].sects :
            a - binary[y].sects[z].addr = o - binary[y].sects[z].offset
      BY <2>8 DEF SameDistance
    <3>2. PICK z \in DOMAIN binary[y].sects :
            a - binary[y].sects[z].addr = o - binary[y].sects[z].offset
      BY <3>1
    <3>3. <<y, z>> \in Sections /\ At(<<y, z>>) = binary[y].sects[z]
      BY InSections
    <3>4. QED
      BY <3>2, <3>3
  <2>9. QED
    BY <2>3, <2>6, <2>7, <2>8
<1>8. QED
  BY <1>1, <1>3, <1>5, <1>6, <1>7

LEMMA InvRebasedPoints ==
  TInv /\ CInv /\ VInv /\ RInv => RebasedPoints
<1>. SUFFICES ASSUME TInv, CInv, VInv, RInv, stage = "parsed",
                     NEW x \in DOMAIN binary, NEW k \in DOMAIN binary[x].calls,
                     binary[x].calls[k].op = "rebase", vmaddr.pointer[<<x, k>>] # Null,
                     vmaddr.pointer[<<x, k>>][1] = "immediate"
     PROVE  LET imm == immediate[binary[x].calls[k].at] IN
            IF imm.value = 0 THEN imm.pointee = Null
            ELSE imm.pointee = <<"placeholder", imm.value>> /\ Positions(imm.value) # {}
  BY DEF RebasedPoints
<1>1. PICK p, a : p = <<x, k>> /\ a = binary[x].calls[k].at
  OBVIOUS
<1>2. p \in Ran /\ CallOf(binary, p).at = a /\ CallOf(binary, p).op = "rebase"
  BY <1>1, AllRan
<1>3. a \in DOMAIN vmaddr.found /\ vmaddr.found[a][1] = "immediate"
  BY <1>1, <1>2, BoundThere
<1>4. DOMAIN vmaddr.todo = {}
  BY DEF VInv
<1>5. Pointed(vmaddr.found, immediate, DOMAIN owner, a)
  BY <1>2, <1>4 DEF RInv, Served, Waits, Failed, Early
<1>6. PICK m : m = immediate[a]
  OBVIOUS
<1>7. IF m.value = 0 THEN m.pointee = Null
      ELSE m.pointee = <<"placeholder", m.value>> /\ m.value \in DOMAIN owner
  BY <1>3, <1>5, <1>6 DEF Pointed
<1>8. m.value \in DOMAIN owner => Positions(m.value) # {}
  BY Position
<1>9. QED
  BY <1>1, <1>6, <1>7, <1>8

(* Every placeholder of an archive that parsed is in one list, in front of *)
(* the blob at its address and with that blob's section for its own, or at *)
(* the end of a section at an address where no blob starts; the lists are  *)
(* sorted all along: for every file, whatever order Archive::Archive meets *)
(* the references in.                                                      *)
THEOREM PlaceholdersPlaced == Spec => []Placed
<1>1. Spec => []Inv
  BY InitInv, NextInv, PTL DEF Spec
<1>2. Inv => Placed
  BY InvPlaced DEF Inv
<1>3. QED
  BY <1>1, <1>2, PTL

(* Every bind, rebase and data-in-code entry of an archive that parsed is  *)
(* bound to the blob found for its address or offset, or to none if there  *)
(* is none, and a bind names the dylib of its ordinal: for every file with *)
(* one library to a dylib command.                                         *)
THEOREM PointersBoundToStart == Spec => []BoundToStart
<1>1. Spec => []Inv
  BY InitInv, NextInv, PTL DEF Spec
<1>2. Inv => BoundToStart
  BY InvBoundToStart DEF Inv
<1>3. QED
  BY <1>1, <1>2, PTL

(* An immediate that a rebase node names points to the placeholder at its  *)
(* value, which is in a list, once the archive has parsed: the callback of *)
(* RebaseNode has run, whatever was resolved before it.                    *)
THEOREM RebasedImmediatesPoint == Spec => []RebasedPoints
<1>1. Spec => []Inv
  BY InitInv, NextInv, PTL DEF Spec
<1>2. Inv => RebasedPoints
  BY InvRebasedPoints DEF Inv
<1>3. QED
  BY <1>1, <1>2, PTL

=============================================================================
