---------------------------- MODULE EmissionProofs ----------------------------
(***************************************************************************)
(* Proofs about the build pass and the emit pass, for every archive and    *)
(* every page size, command size and alignment that the assumptions of     *)
(* Layout allow.  First the build pass alone, which is the specification   *)
(* Spec of Layout: the sizes it computes, the segments it lays out one     *)
(* after another, with the ranks of segments, sections and dylibs, and the *)
(* places it leaves to the emit pass for every section, blob and table.    *)
(* Then both passes, the specification ESpec of Emission: the emit pass    *)
(* writes what the build pass has placed, where the build pass has placed  *)
(* it, and loses nothing.                                                  *)
(***************************************************************************)
EXTENDS Emission, FiniteSetTheorems, TLAPS

-----------------------------------------------------------------------------
(* Arithmetic of align_up and align_down.                                  *)

Multiple(x, a) == \E q \in Int : x = a * q

(* Euclidean division, as the provers know it.                             *)
LEMMA DivisionFacts ==
  ASSUME NEW y \in Int, NEW a \in Nat \ {0}
  PROVE  /\ y \div a \in Int /\ y = a * (y \div a) + (y % a)
         /\ y % a \in 0..(a - 1)
OBVIOUS

(* A quotient is determined by a remainder below the divisor.              *)
LEMMA DivisionUnique ==
  ASSUME NEW y \in Int, NEW a \in Nat \ {0}, NEW q \in Int,
         NEW r \in 0..(a - 1), y = a * q + r
  PROVE  y \div a = q
OBVIOUS

(* align_up returns the least multiple that is not below its argument.     *)
LEMMA AlignUpFacts ==
  ASSUME NEW x \in Nat, NEW a \in Nat \ {0}
  PROVE  /\ AlignUp(x, a) \in Nat
         /\ x <= AlignUp(x, a) /\ AlignUp(x, a) < x + a
         /\ Multiple(AlignUp(x, a), a)
<1> DEFINE y == x + a - 1
           q == y \div a
<1>0. y \in Int
  OBVIOUS
<1>1. q \in Int /\ y = a * q + (y % a) /\ y % a \in 0..(a - 1)
  <2> HIDE DEF y
  <2> QED BY <1>0, DivisionFacts
<1>2. AlignUp(x, a) = q * a
  BY DEF AlignUp
<1>3. q * a = a * q /\ a * q \in Int
  BY <1>1
<1>4. x <= a * q /\ a * q < x + a
  BY <1>0, <1>1, <1>3
<1>5. Multiple(AlignUp(x, a), a)
  BY <1>1, <1>2, <1>3 DEF Multiple
<1>6. QED
  BY <1>2, <1>3, <1>4, <1>5

LEMMA AlignUpInt ==
  ASSUME NEW x \in Int, NEW a \in Nat \ {0} PROVE AlignUp(x, a) \in Int
<1> DEFINE y == x + a - 1
<1>1. y \in Int
  OBVIOUS
<1>2. y \div a \in Int
  <2> HIDE DEF y
  <2> QED BY <1>1, DivisionFacts
<1>3. QED
  BY <1>2 DEF AlignUp

(* Moving the argument by a multiple moves the result by as much.          *)
LEMMA AlignUpShift ==
  ASSUME NEW x \in Nat, NEW z \in Nat, NEW a \in Nat \ {0}, Multiple(z - x, a)
  PROVE  AlignUp(z, a) - AlignUp(x, a) = z - x
<1>1. PICK c \in Int : z - x = a * c
  BY DEF Multiple
<1> DEFINE y == x + a - 1
           q == y \div a
           r == y % a
<1>0. y \in Int
  OBVIOUS
<1>2. q \in Int /\ r \in 0..(a - 1) /\ y = a * q + r
  <2> HIDE DEF y
  <2> QED BY <1>0, DivisionFacts
<1>3. z + a - 1 = a * (q + c) + r
  BY <1>1, <1>2
<1>4. (z + a - 1) \div a = q + c
  <2> HIDE DEF y, q, r
  <2>1. q + c \in Int /\ z + a - 1 \in Int
    BY <1>2
  <2>2. QED
    BY <1>2, <1>3, <2>1, DivisionUnique
<1>5. AlignUp(z, a) = (q + c) * a /\ AlignUp(x, a) = q * a
  BY <1>4 DEF AlignUp
<1>6. (q + c) * a - q * a = a * c
  BY <1>2
<1>7. QED
  BY <1>1, <1>5, <1>6

(* align_down and the remainder split a number.                            *)
LEMMA AlignDownFacts ==
  ASSUME NEW x \in Nat, NEW a \in Nat \ {0}
  PROVE  /\ AlignDown(x, a) \in Nat
         /\ x % a \in Nat
         /\ x - AlignDown(x, a) = x % a
         /\ Multiple(AlignDown(x, a), a)
<1> DEFINE q == x \div a
<1>1. q \in Int /\ x = a * q + (x % a) /\ x % a \in 0..(a - 1)
  BY DivisionFacts
<1>2. AlignDown(x, a) = q * a /\ q * a = a * q /\ a * q \in Int
  BY <1>1 DEF AlignDown
<1>3. q >= 0
  BY <1>1
<1>4. Multiple(AlignDown(x, a), a)
  BY <1>1, <1>2 DEF Multiple
<1>5. QED
  BY <1>1, <1>2, <1>3, <1>4

(* A multiple of the page size is a multiple of every section alignment.   *)
LEMMA PageMultiple ==
  ASSUME NEW x \in Int, Multiple(x, PageSize), NEW a \in Aligns
  PROVE  Multiple(x, a)
<1>1. PICK q \in Int : x = PageSize * q
  BY DEF Multiple
<1>2. a \in Nat \ {0}
  BY AlignsAssumption
<1>3. PICK m \in 1..PageSize : PageSize = a * m
  BY AlignsAssumption
<1>4. m \in Int
  BY SizesAssumption
<1>5. x = a * (m * q) /\ m * q \in Int
  BY <1>1, <1>2, <1>3, <1>4
<1>6. QED
  BY <1>5 DEF Multiple

(* The difference of two multiples is one.                                 *)
LEMMA MultipleDifference ==
  ASSUME NEW x \in Int, NEW y \in Int, NEW a \in Nat \ {0},
         Multiple(x, a), Multiple(y, a)
  PROVE  Multiple(x - y, a)
<1>1. PICK p \in Int : x = a * p
  BY DEF Multiple
<1>2. PICK q \in Int : y = a * q
  BY DEF Multiple
<1>3. x - y = a * (p - q) /\ p - q \in Int
  BY <1>1, <1>2
<1>4. QED
  BY <1>3 DEF Multiple

(* The multiples of a are the numbers with remainder zero.                 *)
LEMMA MultipleRemainder ==
  ASSUME NEW x \in Int, NEW a \in Nat \ {0}
  PROVE  Multiple(x, a) <=> x % a = 0
<1>1. ASSUME Multiple(x, a) PROVE x % a = 0
  <2>1. PICK q \in Int : x = a * q
    BY <1>1 DEF Multiple
  <2>2. x = a * (x \div a) + (x % a) /\ x % a \in 0..(a - 1) /\ x \div a \in Int
    BY DivisionFacts
  <2>3. x \div a = q
    <3>1. x = a * q + 0 /\ 0 \in 0..(a - 1)
      BY <2>1
    <3>2. QED
      BY <3>1, DivisionUnique
  <2>4. QED
    BY <2>1, <2>2, <2>3
<1>2. ASSUME x % a = 0 PROVE Multiple(x, a)
  <2>1. x = a * (x \div a) + (x % a) /\ x \div a \in Int
    BY DivisionFacts
  <2>2. x = a * (x \div a)
    BY <1>2, <2>1
  <2>3. QED
    BY <2>1, <2>2 DEF Multiple
<1>3. QED
  BY <1>1, <1>2

-----------------------------------------------------------------------------
(* Types.  The indices point into the archive while a loop runs.           *)

Cursor ==
  /\ stage \in {"count", "ids", "lc"} => i >= 1
  /\ stage \in {"sect", "blob", "table", "index"} => i \in DOMAIN archive /\ j >= 1
  /\ stage = "blob" => j \in DOMAIN LC.sects /\ k >= 1
  /\ stage \in {"table", "index"} => k >= 1
  /\ stage = "index" => j \in DOMAIN LC.tables

Typed == TypeOK /\ Cursor

LEMMA LebLenType == ASSUME NEW n PROVE LebLen(n) \in Nat
<1> DEFINE P(e) == n >= LebBase^e
           S == {e \in 1..(LebMax - 1) : P(e)}
<1> HIDE DEF P
<1>1. LebMax - 1 \in Int
  BY SizesAssumption
<1>2. IsFiniteSet(1..(LebMax - 1))
  BY <1>1, FS_Interval
<1>3. S \subseteq 1..(LebMax - 1)
  OBVIOUS
<1>4. IsFiniteSet(S)
  <2> HIDE DEF S
  <2> QED BY <1>2, <1>3, FS_Subset
<1>5. Cardinality(S) \in Nat
  <2> HIDE DEF S
  <2> QED BY <1>4, FS_CardinalityType
<1>6. LebLen(n) = 1 + Cardinality(S)
  BY DEF LebLen, P
<1>7. QED
  BY <1>5, <1>6

(* What the assumption on the archives says of the parts of one.           *)
LEMMA SeqFacts ==
  ASSUME NEW E, NEW q \in Seq(E)
  PROVE  Len(q) \in Nat /\ DOMAIN q = 1..Len(q) /\ \A z \in DOMAIN q : q[z] \in E
OBVIOUS

LEMMA Commands ==
  ASSUME archive \in Archives
  PROVE  /\ Len(archive) \in Nat /\ DOMAIN archive = 1..Len(archive)
         /\ \A x \in DOMAIN archive : archive[x] \in LoadCommand
BY ArchivesAssumption, SeqFacts

LEMMA CommandParts ==
  ASSUME NEW lc \in LoadCommand
  PROVE  /\ lc.kind \in SegmentKinds \cup {"dylib", "other"} /\ lc.size \in Nat
         /\ Len(lc.sects) \in Nat /\ DOMAIN lc.sects = 1..Len(lc.sects)
         /\ \A y \in DOMAIN lc.sects : lc.sects[y] \in Sect
         /\ Len(lc.tables) \in Nat /\ DOMAIN lc.tables = 1..Len(lc.tables)
         /\ \A y \in DOMAIN lc.tables : lc.tables[y] \in Table
<1>1. /\ lc.kind \in SegmentKinds \cup {"dylib", "other"} /\ lc.size \in Nat
      /\ lc.sects \in Seq(Sect) /\ lc.tables \in Seq(Table)
  BY DEF LoadCommand
<1>2. QED
  BY <1>1, SeqFacts

LEMMA SectParts ==
  ASSUME NEW c \in Sect
  PROVE  /\ c.align \in Aligns /\ c.align \in Nat \ {0} /\ c.nreloc \in Nat
         /\ Len(c.blobs) \in Nat /\ DOMAIN c.blobs = 1..Len(c.blobs)
         /\ \A z \in DOMAIN c.blobs : c.blobs[z] \in Blob
<1>1. c.align \in Aligns /\ c.nreloc \in Nat /\ c.blobs \in Seq(Blob)
  BY DEF Sect
<1>2. QED
  BY <1>1, SeqFacts, AlignsAssumption

LEMMA TableParts ==
  ASSUME NEW t \in Table
  PROVE  /\ Len(t.nodes) \in Nat /\ DOMAIN t.nodes = 1..Len(t.nodes)
         /\ \A z \in DOMAIN t.nodes : t.nodes[z] \in Node
<1>1. t.nodes \in Seq(Node)
  BY DEF Table
<1>2. QED
  BY <1>1, SeqFacts

LEMMA CmdSizeType == ASSUME NEW lc \in LoadCommand PROVE CmdSize(lc) \in Nat
<1>1. lc.size \in Nat /\ Len(lc.sects) \in Nat
  BY CommandParts
<1>2. SegCmdSize \in Nat /\ SectCmdSize \in Nat
  BY SizesAssumption
<1>3. Len(lc.sects) * SectCmdSize \in Nat
  BY <1>1, <1>2
<1>4. QED
  BY <1>1, <1>2, <1>3 DEF CmdSize

LEMMA BuiltSizeType == ASSUME NEW b \in Blob PROVE BuiltSize(b) \in Nat
BY DEF Blob, BuiltSize

LEMMA NodeSizeType == ASSUME NEW n \in Node PROVE NodeSize(n) \in Nat
<1>1. n.fixed \in Nat
  BY DEF Node
<1>2. LebLen(FileDistance(Placed(n.target))) \in Nat
  BY LebLenType
<1>3. QED
  BY <1>1, <1>2 DEF NodeSize

LEMMA TableSizeType ==
  ASSUME NEW t, NEW n \in Nat PROVE TableSize(t, n) \in Nat
<1>1. PtrSize \in Nat \ {0}
  BY SizesAssumption
<1>2. \A x \in Nat : AlignUp(x, PtrSize) \in Nat
  BY <1>1, AlignUpFacts
<1>3. (IF n > 0 THEN n + 1 ELSE 0) \in Nat
  OBVIOUS
<1>4. QED
  BY <1>2, <1>3 DEF TableSize

LEMMA AlignType ==
  ASSUME NEW l \in Location, NEW a \in Nat \ {0} PROVE Align(l, a) \in Location
BY AlignUpFacts DEF Align, Location

LEMMA AdvanceType ==
  ASSUME NEW l \in Location, NEW n \in Nat PROVE Advance(l, n) \in Location
BY DEF Advance, Location

-----------------------------------------------------------------------------
LEMMA InitTyped == Init => Typed
<1> SUFFICES ASSUME Init PROVE Typed
  OBVIOUS
<1>1. Len(archive) \in Nat /\ DOMAIN archive = 1..Len(archive)
  BY Commands DEF Init
<1>2. HeaderSize \in Nat /\ VMStart \in Nat /\ MaxSect \in Nat
  BY SizesAssumption
<1>3. loc \in Location /\ start \in Location
  BY <1>2 DEF Init, Location
<1>4. ids \in Counters
  BY <1>2 DEF Init, FirstIds, Counters
<1>5. seg \in [DOMAIN archive -> SegmentExtent]
  BY DEF Init, SegmentExtent
<1>6. QED
  BY <1>1, <1>2, <1>3, <1>4, <1>5 DEF Init, Typed, TypeOK, Cursor, Stages

(* The command, section, blob, table and node a loop has reached.          *)
LEMMA Reached ==
  ASSUME Typed
  PROVE  /\ stage \in {"count", "ids", "lc"} /\ i <= Len(archive) =>
              i \in DOMAIN archive
         /\ i \in DOMAIN archive => LC \in LoadCommand
         /\ stage = "sect" /\ j <= Len(LC.sects) => LC.sects[j] \in Sect /\ j \in DOMAIN LC.sects
         /\ stage = "blob" =>
              /\ LC.sects[j] \in Sect
              /\ k <= Len(LC.sects[j].blobs) => LC.sects[j].blobs[k] \in Blob
         /\ stage = "table" /\ j <= Len(LC.tables) =>
              /\ LC.tables[j] \in Table /\ j \in DOMAIN LC.tables
              /\ k <= Len(LC.tables[j].nodes) => LC.tables[j].nodes[k] \in Node
         /\ stage = "index" /\ k <= Len(LC.tables[j].nodes) =>
              LC.tables[j].nodes[k] \in Node
<1> USE DEF Typed, TypeOK, Cursor
<1>1. /\ Len(archive) \in Nat /\ DOMAIN archive = 1..Len(archive)
      /\ \A x \in DOMAIN archive : archive[x] \in LoadCommand
  BY Commands
<1>2. i \in DOMAIN archive => LC \in LoadCommand
  BY <1>1 DEF LC
<1>3. stage \in {"sect", "blob", "table", "index"} => LC \in LoadCommand
  BY <1>2
<1>4. ASSUME stage = "sect", j <= Len(LC.sects) PROVE LC.sects[j] \in Sect /\ j \in DOMAIN LC.sects
  BY <1>3, <1>4, CommandParts
<1>5. ASSUME stage = "blob" PROVE LC.sects[j] \in Sect
  BY <1>3, <1>5, CommandParts
<1>6. ASSUME stage = "blob", k <= Len(LC.sects[j].blobs) PROVE LC.sects[j].blobs[k] \in Blob
  BY <1>5, <1>6, SectParts
<1>7. ASSUME stage = "table", j <= Len(LC.tables) PROVE LC.tables[j] \in Table /\ j \in DOMAIN LC.tables
  BY <1>3, <1>7, CommandParts
<1>8. ASSUME stage = "table", j <= Len(LC.tables), k <= Len(LC.tables[j].nodes)
      PROVE LC.tables[j].nodes[k] \in Node
  BY <1>7, <1>8, TableParts
<1>9. ASSUME stage = "index", k <= Len(LC.tables[j].nodes) PROVE LC.tables[j].nodes[k] \in Node
  <2>1. LC.tables[j] \in Table
    BY <1>3, <1>9, CommandParts
  <2>2. QED
    BY <1>9, <2>1, TableParts
<1>10. QED
  BY <1>1, <1>2, <1>4, <1>5, <1>6, <1>7, <1>8, <1>9

(* The updates the actions make keep the shape of what they update.        *)
LEMMA LocationUpdates ==
  ASSUME NEW l \in Location, NEW n \in Nat
  PROVE  /\ [l EXCEPT !.offset = n] \in Location
         /\ [l EXCEPT !.vmaddr = n] \in Location
BY DEF Location

LEMMA LocationFields ==
  ASSUME NEW l \in Location PROVE l.offset \in Nat /\ l.vmaddr \in Nat
BY DEF Location

LEMMA CountersUpdates ==
  ASSUME NEW c \in Counters, NEW m \in Nat
  PROVE  /\ \A n \in 0..MaxSect : [c EXCEPT !.segment = m, !.section = n] \in Counters
         /\ [c EXCEPT !.dylib = m] \in Counters
         /\ [c EXCEPT !.lazy = m] \in Counters
BY DEF Counters

LEMMA CountersFields ==
  ASSUME NEW c \in Counters
  PROVE  /\ c.segment \in Nat /\ c.section \in 0..MaxSect
         /\ c.dylib \in Nat /\ c.lazy \in Nat
BY DEF Counters

LEMMA ExtentFields ==
  ASSUME NEW D, NEW f \in [D -> SegmentExtent], NEW x \in D
  PROVE  f[x].fileoff \in Nat /\ f[x].vmaddr \in Nat
BY DEF SegmentExtent

LEMMA NextTyped == Typed /\ [Next]_vars => Typed'
<1> SUFFICES ASSUME Typed, [Next]_vars PROVE Typed'
  OBVIOUS
<1>a. /\ loc \in Location /\ start \in Location /\ ids \in Counters
      /\ seg \in [DOMAIN archive -> SegmentExtent]
      /\ cmdsize \in Nat /\ acc \in Nat /\ i \in Nat /\ j \in Nat /\ k \in Nat
      /\ segId \in [DOMAIN archive -> Nat] /\ dylibId \in [DOMAIN archive -> Nat]
      /\ sectId \in [DOMAIN archive -> 0..MaxSect]
      /\ PageSize \in Nat \ {0} /\ MaxSect \in Nat /\ RelocSize \in Nat
  BY SizesAssumption DEF Typed, TypeOK
<1>b. /\ loc.offset \in Nat /\ loc.vmaddr \in Nat
      /\ start.offset \in Nat /\ start.vmaddr \in Nat
  BY <1>a, LocationFields
<1>c. /\ ids.segment \in Nat /\ ids.section \in 0..MaxSect
      /\ ids.dylib \in Nat /\ ids.lazy \in Nat
  BY <1>a, CountersFields
<1>1. CASE UNCHANGED vars
  BY <1>1 DEF vars, Typed, TypeOK, Cursor, LC
<1>2. CASE CountCommand
  <2>1. cmdsize' \in Nat
    BY <1>2, <1>a, Reached, CmdSizeType DEF CountCommand
  <2>2. QED
    BY <1>2, <2>1 DEF CountCommand, Typed, TypeOK, Cursor, LC
<1>3. CASE AllocateCommands
  <2>1. loc' \in Location
    <3>1. loc.offset + cmdsize \in Nat
      BY <1>a, <1>b
    <3>2. QED
      BY <1>3, <1>a, <3>1, LocationUpdates DEF AllocateCommands
  <2>2. QED
    BY <1>3, <2>1 DEF AllocateCommands, Typed, TypeOK, Cursor, LC, Stages
<1>4. CASE AssignSegmentID
  <2> DEFINE n == ids.section + Len(LC.sects)
  <2>1. i \in DOMAIN archive /\ Len(LC.sects) \in Nat
    BY <1>4, Reached, CommandParts DEF AssignSegmentID
  <2>4. CASE TooManySections(n)
    BY <1>4, <2>4 DEF AssignSegmentID, Typed, TypeOK, Cursor, LC, Stages
  <2>5. CASE ~TooManySections(n)
    <3>1. n \in 0..MaxSect /\ ids.segment + 1 \in Nat
      BY <2>1, <1>a, <1>c, <2>5, SMTT(20) DEF TooManySections
    <3>2. ids' = [ids EXCEPT !.segment = ids.segment + 1, !.section = n]
      BY <1>4, <2>5 DEF AssignSegmentID
    <3>3. ids' \in Counters
      BY <1>a, <3>1, <3>2, CountersUpdates
    <3>4. segId' \in [DOMAIN archive -> Nat] /\ sectId' \in [DOMAIN archive -> 0..MaxSect]
      BY <1>4, <1>a, <1>c, <2>1, <2>5 DEF AssignSegmentID
    <3>5. i' = i + 1 /\ UNCHANGED stage
      BY <1>4, <2>5 DEF AssignSegmentID
    <3>6. TypeOK'
      BY <1>4, <3>3, <3>4, <3>5 DEF AssignSegmentID, Typed, TypeOK
    <3>7. Cursor'
      BY <1>4, <3>5 DEF AssignSegmentID, Typed, TypeOK, Cursor
    <3>8. QED
      BY <3>6, <3>7 DEF Typed
  <2>6. QED
    BY <2>4, <2>5
<1>5. CASE AssignDylibID
  <2>1. ids' \in Counters
    <3>1. ids.dylib + 1 \in Nat
      BY <1>c
    <3>2. QED
      BY <1>5, <1>a, <3>1, CountersUpdates DEF AssignDylibID
  <2>2. dylibId' \in [DOMAIN archive -> Nat]
    BY <1>5, <1>a, <1>c DEF AssignDylibID
  <2>3. QED
    BY <1>5, <2>1, <2>2, SMTT(20) DEF AssignDylibID, Typed, TypeOK, Cursor, LC
<1>6. CASE AssignNoID
  BY <1>6 DEF AssignNoID, Typed, TypeOK, Cursor, LC
<1>7. CASE IDsAssigned
  BY <1>7 DEF IDsAssigned, Typed, TypeOK, Cursor, LC, Stages
<1>8. CASE BuildOther
  BY <1>8 DEF BuildOther, Typed, TypeOK, Cursor, LC
<1>9. CASE BuildPagezero
  <2>1. [fileoff |-> 0, filesize |-> 0, vmaddr |-> 0, vmsize |-> loc.vmaddr] \in SegmentExtent
    BY <1>b DEF SegmentExtent
  <2>2. seg' \in [DOMAIN archive -> SegmentExtent]
    BY <1>9, <1>a, <2>1 DEF BuildPagezero
  <2>3. QED
    BY <1>9, <2>2 DEF BuildPagezero, Typed, TypeOK, Cursor, LC
<1>10. CASE BeginText
  <2>1. i \in DOMAIN archive
    BY <1>10, Reached DEF BeginText
  <2>2. /\ TextOffset \in Nat /\ AlignUp(loc.vmaddr, PageSize) \in Nat
        /\ AlignUp(loc.vmaddr, PageSize) + (loc.offset % PageSize) \in Nat
    <3>1. TextOffset \in Nat /\ loc.offset % PageSize \in Nat
      BY <1>a, <1>b, AlignDownFacts DEF TextOffset
    <3>2. AlignUp(loc.vmaddr, PageSize) \in Nat
      BY <1>a, <1>b, AlignUpFacts
    <3>3. QED
      BY <3>1, <3>2
  <2>3. loc' \in Location
    BY <1>10, <1>a, <2>2, LocationUpdates DEF BeginText
  <2>4. seg' \in [DOMAIN archive -> SegmentExtent]
    <3>1. [seg EXCEPT ![i].fileoff = TextOffset, ![i].vmaddr = AlignUp(loc.vmaddr, PageSize)]
            \in [DOMAIN archive -> SegmentExtent]
      BY <1>a, <2>1, <2>2 DEF SegmentExtent
    <3>2. QED
      BY <1>10, <3>1 DEF BeginText
  <2>5. QED
    BY <1>10, <2>1, <2>3, <2>4 DEF BeginText, Typed, TypeOK, Cursor, LC, Stages
<1>11. CASE BeginSegment
  <2>1. i \in DOMAIN archive
    BY <1>11, Reached DEF BeginSegment
  <2>2. loc' \in Location
    BY <1>11, <1>a, AlignType DEF BeginSegment
  <2>3. loc'.offset \in Nat /\ loc'.vmaddr \in Nat
    BY <2>2, LocationFields
  <2>4. seg' \in [DOMAIN archive -> SegmentExtent]
    <3>1. [seg EXCEPT ![i].fileoff = loc'.offset, ![i].vmaddr = loc'.vmaddr]
            \in [DOMAIN archive -> SegmentExtent]
      BY <1>a, <2>1, <2>3 DEF SegmentExtent
    <3>2. QED
      BY <1>11, <3>1 DEF BeginSegment
  <2>5. QED
    BY <1>11, <2>1, <2>2, <2>4 DEF BeginSegment, Typed, TypeOK, Cursor, LC, Stages
<1>12. CASE BeginSection
  <2>1. LC.sects[j] \in Sect /\ j \in DOMAIN LC.sects
    BY <1>12, Reached DEF BeginSection
  <2>2. loc' \in Location /\ start' \in Location
    BY <1>12, <1>a, <2>1, SectParts, AlignType DEF BeginSection
  <2>3. QED
    BY <1>12, <2>1, <2>2 DEF BeginSection, Typed, TypeOK, Cursor, LC, Stages
<1>13. CASE PlaceBlob
  <2> DEFINE n == BuiltSize(LC.sects[j].blobs[k])
  <2>1. n \in Nat
    BY <1>13, Reached, BuiltSizeType DEF PlaceBlob
  <2>2. loc' \in Location
    BY <1>13, <1>a, <2>1, AdvanceType DEF PlaceBlob
  <2>3. [at |-> <<i, j, k>>, loc |-> loc, size |-> n] \in PlacedBlob
    BY <1>a, <2>1 DEF PlacedBlob
  <2>4. blob' \subseteq PlacedBlob
    BY <1>13, <2>3 DEF PlaceBlob, Typed, TypeOK
  <2>5. QED
    BY <1>13, <2>2, <2>4 DEF PlaceBlob, Typed, TypeOK, Cursor, LC
<1>14. CASE EndSection
  <2>1. LC.sects[j].nreloc \in Nat
    BY <1>14, Reached, SectParts DEF EndSection
  <2>2. LC.sects[j].nreloc * RelocSize \in Nat
    BY <1>a, <2>1
  <2>3. loc' \in Location
    BY <1>14, <1>a, <2>2, AdvanceType DEF EndSection
  <2>4. [at |-> <<i, j>>, loc |-> start, size |-> loc.offset - start.offset,
         reloff |-> loc.offset, nreloc |-> LC.sects[j].nreloc] \in PlacedSect
    BY <1>a, <1>b, <2>1 DEF PlacedSect
  <2>5. sect' \subseteq PlacedSect
    BY <1>14, <2>4 DEF EndSection, Typed, TypeOK
  <2>6. QED
    BY <1>14, <2>3, <2>5 DEF EndSection, Typed, TypeOK, Cursor, LC, Stages
<1>15. CASE EndSegment
  <2>1. i \in DOMAIN archive
    BY <1>15 DEF EndSegment, Typed, Cursor
  <2>2. loc' \in Location /\ loc'.offset \in Nat /\ loc'.vmaddr \in Nat
    BY <1>15, <1>a, AlignType, LocationFields DEF EndSegment, SegmentEnd
  <2>3. seg[i].fileoff \in Nat /\ seg[i].vmaddr \in Nat
    BY <1>a, <2>1, ExtentFields
  <2>4. /\ FileSize(i, loc'.offset) \in Int
        /\ AlignUp(loc'.vmaddr - seg[i].vmaddr, PageSize) \in Int
    <3>1. loc'.vmaddr - seg[i].vmaddr \in Int
      BY <2>2, <2>3
    <3>2. QED
      BY <1>a, <2>2, <2>3, <3>1, AlignUpInt DEF FileSize
  <2>5. seg' \in [DOMAIN archive -> SegmentExtent]
    <3>1. [seg EXCEPT ![i].filesize = FileSize(i, loc'.offset),
                      ![i].vmsize = AlignUp(loc'.vmaddr - seg[i].vmaddr, PageSize)]
            \in [DOMAIN archive -> SegmentExtent]
      BY <1>a, <2>1, <2>4 DEF SegmentExtent
    <3>2. QED
      BY <1>15, <3>1 DEF EndSegment
  <2>6. QED
    BY <1>15, <2>2, <2>5, SMTT(20) DEF EndSegment, Typed, TypeOK, Cursor, LC, Stages
<1>16. CASE BeginLinkedit
  <2>1. i \in DOMAIN archive
    BY <1>16, Reached DEF BeginLinkedit
  <2>2. loc' \in Location /\ loc'.offset \in Nat /\ loc'.vmaddr \in Nat
    BY <1>16, <1>a, AlignType, LocationFields DEF BeginLinkedit
  <2>3. seg' \in [DOMAIN archive -> SegmentExtent]
    <3>1. [seg EXCEPT ![i].fileoff = loc'.offset, ![i].vmaddr = loc'.vmaddr]
            \in [DOMAIN archive -> SegmentExtent]
      BY <1>a, <2>1, <2>2 DEF SegmentExtent
    <3>2. QED
      BY <1>16, <3>1 DEF BeginLinkedit
  <2>4. QED
    BY <1>16, <2>1, <2>2, <2>3, SMTT(20) DEF BeginLinkedit, Typed, TypeOK, Cursor, LC, Stages
<1>17. CASE SizeNode
  <2>1. acc' \in Nat
    BY <1>17, <1>a, Reached, NodeSizeType DEF SizeNode
  <2>2. QED
    BY <1>17, <2>1 DEF SizeNode, Typed, TypeOK, Cursor, LC
<1>18. CASE AllocateTable
  <2> DEFINE n == TableSize(LC.tables[j], acc)
  <2>1. n \in Nat /\ j \in DOMAIN LC.tables
    BY <1>18, <1>a, Reached, TableSizeType DEF AllocateTable
  <2>2. loc' \in Location
    <3>1. loc.offset + n \in Nat
      BY <1>b, <2>1
    <3>2. QED
      BY <1>18, <1>a, <3>1, LocationUpdates DEF AllocateTable
  <2>3. [at |-> <<i, j>>, off |-> loc.offset, size |-> n] \in PlacedTable
    BY <1>a, <1>b, <2>1 DEF PlacedTable
  <2>4. table' \subseteq PlacedTable
    BY <1>18, <2>3 DEF AllocateTable, Typed, TypeOK
  <2>5. QED
    BY <1>18, <2>1, <2>2, <2>4 DEF AllocateTable, Typed, TypeOK, Cursor, LC, Stages
<1>19. CASE IndexNode
  <2>1. NodeSize(LC.tables[j].nodes[k]) \in Nat 
    BY <1>19, <1>a, Reached, NodeSizeType DEF IndexNode
  <2>2. ids' \in Counters
    <3>1. ids.lazy + NodeSize(LC.tables[j].nodes[k]) \in Nat
      BY <1>c, <2>1
    <3>2. QED
      BY <1>19, <1>a, <3>1, CountersUpdates DEF IndexNode
  <2>3. [at |-> <<i, j, k>>, index |-> ids.lazy] \in LazyIndex
    BY <1>a, <1>c DEF LazyIndex
  <2>4. index' \subseteq LazyIndex
    BY <1>19, <2>3 DEF IndexNode, Typed, TypeOK
  <2>5. QED
    BY <1>19, <2>2, <2>4 DEF IndexNode, Typed, TypeOK, Cursor, LC
<1>20. CASE TableDone
  BY <1>20 DEF TableDone, Typed, TypeOK, Cursor, LC, Stages
<1>21. CASE EndLinkedit
  <2>1. i \in DOMAIN archive
    BY <1>21 DEF EndLinkedit, Typed, Cursor
  <2>2. seg[i].fileoff \in Nat /\ AlignUp(loc.vmaddr, PageSize) \in Nat
    BY <1>a, <1>b, <2>1, ExtentFields, AlignUpFacts
  <2>3. FileSize(i, loc.offset) \in Int /\ AlignUp(FileSize(i, loc.offset), PageSize) \in Int
    <3>1. FileSize(i, loc.offset) \in Int
      BY <1>b, <2>2 DEF FileSize
    <3>2. QED
      BY <1>a, <3>1, AlignUpInt
  <2>4. seg' \in [DOMAIN archive -> SegmentExtent]
    <3>1. [seg EXCEPT ![i].filesize = FileSize(i, loc.offset),
                      ![i].vmsize = AlignUp(FileSize(i, loc.offset), PageSize)]
            \in [DOMAIN archive -> SegmentExtent]
      BY <1>a, <2>1, <2>3 DEF SegmentExtent
    <3>2. QED
      BY <1>21, <3>1 DEF EndLinkedit
  <2>5. loc' \in Location
    BY <1>21, <1>a, <2>2, LocationUpdates DEF EndLinkedit
  <2>6. QED
    BY <1>21, <2>4, <2>5 DEF EndLinkedit, Typed, TypeOK, Cursor, LC, Stages
<1>22. CASE BuildDone
  BY <1>22 DEF BuildDone, Typed, TypeOK, Cursor, LC, Stages
<1>23. QED
  BY <1>1, <1>2, <1>3, <1>4, <1>5, <1>6, <1>7, <1>8, <1>9, <1>10, <1>11, <1>12,
     <1>13, <1>14, <1>15, <1>16, <1>17, <1>18, <1>19, <1>20, <1>21, <1>22 DEF Next

(* Every variable keeps its type, and no section is numbered above         *)
(* MAX_SECT: section_counter throws before it wraps round.                 *)
THEOREM TypeCorrect == Spec => []TypeOK
<1>1. Typed => TypeOK
  BY DEF Typed
<1>2. QED
  BY InitTyped, NextTyped, <1>1, PTL DEF Spec

-----------------------------------------------------------------------------
(* Offsets and addresses in step.  InStep is not inductive: it says nothing *)
(* of the place the build has reached, from which the next blob gets its    *)
(* own.  That place keeps in step as long as the segment starts on a page   *)
(* in the file and in memory (so that every alignment moves both halves by  *)
(* the same amount) and as long as no segment that already has blobs is     *)
(* given another start.                                                     *)

InStepAt(s, l) ==
  /\ seg[s].fileoff <= l.offset
  /\ l.offset - seg[s].fileoff = l.vmaddr - seg[s].vmaddr

(* The build has passed or is in segment s.                                *)
Begun(s) ==
  /\ s \in DOMAIN archive
  /\ stage \notin {"count", "ids", "error"}
  /\ s < i \/ (s = i /\ stage \in {"sect", "blob"})

CurrentInStep ==
  stage \in {"sect", "blob"} =>
    /\ InStepAt(i, loc)
    /\ seg[i].fileoff % PageSize = 0 /\ seg[i].vmaddr % PageSize = 0

StartInStep ==
  stage = "blob" => InStepAt(i, start) /\ start.offset <= loc.offset

BlobsInStep == \A b \in blob : Begun(b.at[1]) /\ InStepAt(b.at[1], b.loc)

SectsInStep ==
  \A c \in sect : Begun(c.at[1]) /\ InStepAt(c.at[1], c.loc) /\ c.size >= 0

AddressAligned == stage \in {"count", "ids", "lc"} => loc.vmaddr % PageSize = 0

IInv == /\ Typed /\ CurrentInStep /\ StartInStep /\ BlobsInStep /\ SectsInStep
        /\ AddressAligned

(* Align keeps a place in step with a segment that starts on a page.       *)
LEMMA AlignInStep ==
  ASSUME NEW f \in Nat, NEW v \in Nat, f % PageSize = 0, v % PageSize = 0,
         NEW l \in Location, f <= l.offset, l.offset - f = l.vmaddr - v,
         NEW a \in Aligns
  PROVE  /\ l.offset <= Align(l, a).offset
         /\ Align(l, a).offset - f = Align(l, a).vmaddr - v
<1>1. PageSize \in Nat \ {0} /\ a \in Nat \ {0} /\ l.offset \in Nat /\ l.vmaddr \in Nat
  BY SizesAssumption, AlignsAssumption, LocationFields
<1>2. Multiple(f, PageSize) /\ Multiple(v, PageSize)
  BY <1>1, MultipleRemainder
<1>3. f - v \in Int /\ Multiple(f - v, PageSize)
  BY <1>1, <1>2, MultipleDifference
<1>4. Multiple(f - v, a)
  BY <1>3, PageMultiple
<1>5. l.offset - l.vmaddr = f - v
  BY <1>1
<1>6. Multiple(l.offset - l.vmaddr, a)
  BY <1>4, <1>5
<1>7. AlignUp(l.offset, a) - AlignUp(l.vmaddr, a) = l.offset - l.vmaddr
  BY <1>1, <1>6, AlignUpShift
<1>8. /\ AlignUp(l.offset, a) \in Nat /\ l.offset <= AlignUp(l.offset, a)
      /\ AlignUp(l.vmaddr, a) \in Nat
  BY <1>1, AlignUpFacts
<1>9. /\ Align(l, a).offset = AlignUp(l.offset, a)
      /\ Align(l, a).vmaddr = AlignUp(l.vmaddr, a)
  BY DEF Align
<1>10. AlignUp(l.offset, a) - f = AlignUp(l.vmaddr, a) - v
  <2> DEFINE A == AlignUp(l.offset, a)
             B == AlignUp(l.vmaddr, a)
             o == l.offset
             w == l.vmaddr
  <2>1. A \in Int /\ B \in Int /\ o \in Int /\ w \in Int
    BY <1>1, <1>8
  <2>2. A - B = o - w /\ o - w = f - v
    BY <1>5, <1>7
  <2>3. A - f = B - v
    <3> HIDE DEF A, B, o, w
    <3> QED BY <2>1, <2>2
  <2>4. QED
    BY <2>3
<1>11. QED
  BY <1>8, <1>9, <1>10

(* The result of align_up has remainder zero.                              *)
LEMMA AlignUpRemainder ==
  ASSUME NEW x \in Nat PROVE AlignUp(x, PageSize) % PageSize = 0
<1>1. PageSize \in Nat \ {0}
  BY SizesAssumption
<1>2. AlignUp(x, PageSize) \in Nat /\ Multiple(AlignUp(x, PageSize), PageSize)
  BY <1>1, AlignUpFacts
<1>3. QED
  BY <1>1, <1>2, MultipleRemainder

(* Nothing that has been placed is disturbed by a step that keeps its      *)
(* segment begun and at its start.                                         *)
LEMMA PlacedStays ==
  ASSUME BlobsInStep, SectsInStep,
         \A s : Begun(s) => /\ Begun(s)'
                            /\ seg'[s].fileoff = seg[s].fileoff
                            /\ seg'[s].vmaddr = seg[s].vmaddr
  PROVE  /\ \A b \in blob : Begun(b.at[1])' /\ InStepAt(b.at[1], b.loc)'
         /\ \A c \in sect : Begun(c.at[1])' /\ InStepAt(c.at[1], c.loc)' /\ c.size >= 0
<1>1. ASSUME NEW s, NEW l, Begun(s), InStepAt(s, l)
      PROVE  Begun(s)' /\ seg'[s].fileoff <= l.offset
             /\ l.offset - seg'[s].fileoff = l.vmaddr - seg'[s].vmaddr
  BY <1>1 DEF InStepAt
<1>2. QED
  BY <1>1 DEF BlobsInStep, SectsInStep, InStepAt

LEMMA QuietStep ==
  ASSUME BlobsInStep, SectsInStep, UNCHANGED <<blob, sect>>,
         \A s : Begun(s) => /\ Begun(s)'
                            /\ seg'[s].fileoff = seg[s].fileoff
                            /\ seg'[s].vmaddr = seg[s].vmaddr
  PROVE  BlobsInStep' /\ SectsInStep'
<1>1. /\ \A b \in blob : Begun(b.at[1])' /\ InStepAt(b.at[1], b.loc)'
      /\ \A c \in sect : Begun(c.at[1])' /\ InStepAt(c.at[1], c.loc)' /\ c.size >= 0
  BY PlacedStays
<1>2. QED
  BY <1>1 DEF BlobsInStep, SectsInStep

LEMMA InitIInv == Init => IInv
<1> SUFFICES ASSUME Init PROVE IInv
  OBVIOUS
<1>1. Typed
  BY InitTyped
<1>2. loc.vmaddr % PageSize = 0
  BY SizesAssumption DEF Init
<1>3. QED
  BY <1>1, <1>2 DEF Init, IInv, CurrentInStep, StartInStep, BlobsInStep, SectsInStep,
                    AddressAligned

LEMMA NextIInv == IInv /\ [Next]_vars => IInv'
<1> SUFFICES ASSUME IInv, [Next]_vars PROVE IInv'
  OBVIOUS
<1>a. /\ Typed /\ Typed'
      /\ loc \in Location /\ loc' \in Location /\ start \in Location
      /\ seg \in [DOMAIN archive -> SegmentExtent] /\ i \in Nat
      /\ PageSize \in Nat \ {0}
  BY NextTyped, SizesAssumption DEF IInv, Typed, TypeOK
<1>b. BlobsInStep /\ SectsInStep
  BY DEF IInv
<1>c. /\ loc.offset \in Nat /\ loc.vmaddr \in Nat
      /\ start.offset \in Nat /\ start.vmaddr \in Nat
      /\ loc'.offset \in Nat /\ loc'.vmaddr \in Nat
  BY <1>a, LocationFields
<1>d. CurrentInStep /\ StartInStep /\ AddressAligned
  BY DEF IInv
<1>1. CASE UNCHANGED vars
  <2>1. \A s : Begun(s) => /\ Begun(s)'
                           /\ seg'[s].fileoff = seg[s].fileoff
                           /\ seg'[s].vmaddr = seg[s].vmaddr
    BY <1>1 DEF vars, Begun
  <2>2. BlobsInStep' /\ SectsInStep'
    BY <1>1, <1>b, <2>1, QuietStep DEF vars
  <2>3. CurrentInStep' /\ StartInStep' /\ AddressAligned'
    BY <1>1, <1>d DEF vars, CurrentInStep, StartInStep, AddressAligned, InStepAt
  <2>4. QED
    BY <1>a, <2>2, <2>3 DEF IInv
<1>2. CASE CountCommand
  <2>1. \A s : Begun(s) => /\ Begun(s)'
                           /\ seg'[s].fileoff = seg[s].fileoff
                           /\ seg'[s].vmaddr = seg[s].vmaddr
    BY <1>2, <1>a DEF CountCommand, Begun
  <2>2. BlobsInStep' /\ SectsInStep'
    BY <1>2, <1>b, <2>1, QuietStep DEF CountCommand
  <2>3. CurrentInStep' /\ StartInStep' /\ AddressAligned'
    BY <1>2, <1>d DEF CountCommand, CurrentInStep, StartInStep, AddressAligned
  <2>4. QED
    BY <1>a, <2>2, <2>3 DEF IInv
<1>3. CASE AllocateCommands
  <2>1. \A s : Begun(s) => /\ Begun(s)'
                           /\ seg'[s].fileoff = seg[s].fileoff
                           /\ seg'[s].vmaddr = seg[s].vmaddr
    BY <1>3, <1>a DEF AllocateCommands, Begun
  <2>2. BlobsInStep' /\ SectsInStep'
    BY <1>3, <1>b, <2>1, QuietStep DEF AllocateCommands
  <2>3. CurrentInStep' /\ StartInStep' /\ AddressAligned'
    BY <1>3, <1>d DEF AllocateCommands, CurrentInStep, StartInStep, AddressAligned
  <2>4. QED
    BY <1>a, <2>2, <2>3 DEF IInv
<1>4. CASE AssignSegmentID
  <2>1. \A s : Begun(s) => /\ Begun(s)'
                           /\ seg'[s].fileoff = seg[s].fileoff
                           /\ seg'[s].vmaddr = seg[s].vmaddr
    BY <1>4, <1>a DEF AssignSegmentID, Begun
  <2>2. BlobsInStep' /\ SectsInStep'
    BY <1>4, <1>b, <2>1, QuietStep DEF AssignSegmentID
  <2>3. CurrentInStep' /\ StartInStep' /\ AddressAligned'
    BY <1>4, <1>d DEF AssignSegmentID, CurrentInStep, StartInStep, AddressAligned
  <2>4. QED
    BY <1>a, <2>2, <2>3 DEF IInv
<1>5. CASE AssignDylibID
  <2>1. \A s : Begun(s) => /\ Begun(s)'
                           /\ seg'[s].fileoff = seg[s].fileoff
                           /\ seg'[s].vmaddr = seg[s].vmaddr
    BY <1>5, <1>a DEF AssignDylibID, Begun
  <2>2. BlobsInStep' /\ SectsInStep'
    BY <1>5, <1>b, <2>1, QuietStep DEF AssignDylibID
  <2>3. CurrentInStep' /\ StartInStep' /\ AddressAligned'
    BY <1>5, <1>d DEF AssignDylibID, CurrentInStep, StartInStep, AddressAligned
  <2>4. QED
    BY <1>a, <2>2, <2>3 DEF IInv
<1>6. CASE AssignNoID
  <2>1. \A s : Begun(s) => /\ Begun(s)'
                           /\ seg'[s].fileoff = seg[s].fileoff
                           /\ seg'[s].vmaddr = seg[s].vmaddr
    BY <1>6, <1>a DEF AssignNoID, Begun
  <2>2. BlobsInStep' /\ SectsInStep'
    BY <1>6, <1>b, <2>1, QuietStep DEF AssignNoID
  <2>3. CurrentInStep' /\ StartInStep' /\ AddressAligned'
    BY <1>6, <1>d DEF AssignNoID, CurrentInStep, StartInStep, AddressAligned
  <2>4. QED
    BY <1>a, <2>2, <2>3 DEF IInv
<1>7. CASE IDsAssigned
  <2>1. \A s : Begun(s) => /\ Begun(s)'
                           /\ seg'[s].fileoff = seg[s].fileoff
                           /\ seg'[s].vmaddr = seg[s].vmaddr
    BY <1>7, <1>a DEF IDsAssigned, Begun
  <2>2. BlobsInStep' /\ SectsInStep'
    BY <1>7, <1>b, <2>1, QuietStep DEF IDsAssigned
  <2>3. CurrentInStep' /\ StartInStep' /\ AddressAligned'
    BY <1>7, <1>d DEF IDsAssigned, CurrentInStep, StartInStep, AddressAligned
  <2>4. QED
    BY <1>a, <2>2, <2>3 DEF IInv
<1>8. CASE BuildOther
  <2>1. \A s : Begun(s) => /\ Begun(s)'
                           /\ seg'[s].fileoff = seg[s].fileoff
                           /\ seg'[s].vmaddr = seg[s].vmaddr
    BY <1>8, <1>a DEF BuildOther, Begun
  <2>2. BlobsInStep' /\ SectsInStep'
    BY <1>8, <1>b, <2>1, QuietStep DEF BuildOther
  <2>3. CurrentInStep' /\ StartInStep' /\ AddressAligned'
    BY <1>8, <1>d DEF BuildOther, CurrentInStep, StartInStep, AddressAligned
  <2>4. QED
    BY <1>a, <2>2, <2>3 DEF IInv
<1>9. CASE BuildPagezero
  <2>1. \A s : Begun(s) => /\ Begun(s)'
                           /\ seg'[s].fileoff = seg[s].fileoff
                           /\ seg'[s].vmaddr = seg[s].vmaddr
    BY <1>9, <1>a DEF BuildPagezero, Begun
  <2>2. BlobsInStep' /\ SectsInStep'
    BY <1>9, <1>b, <2>1, QuietStep DEF BuildPagezero
  <2>3. CurrentInStep' /\ StartInStep' /\ AddressAligned'
    BY <1>9, <1>d DEF BuildPagezero, CurrentInStep, StartInStep, AddressAligned
  <2>4. QED
    BY <1>a, <2>2, <2>3 DEF IInv
<1>10. CASE BeginText
  <2> DEFINE vm == AlignUp(loc.vmaddr, PageSize)
  <2>1. \A s : Begun(s) => /\ Begun(s)'
                           /\ seg'[s].fileoff = seg[s].fileoff
                           /\ seg'[s].vmaddr = seg[s].vmaddr
    BY <1>10, <1>a DEF BeginText, Begun
  <2>2. BlobsInStep' /\ SectsInStep'
    BY <1>10, <1>b, <2>1, QuietStep DEF BeginText
  <2>3. i \in DOMAIN archive
    BY <1>10, <1>a, Reached DEF BeginText
  <2>4. /\ seg'[i].fileoff = TextOffset /\ seg'[i].vmaddr = vm
        /\ loc'.offset = loc.offset /\ loc'.vmaddr = vm + (loc.offset % PageSize)
    <3>1. loc' = [loc EXCEPT !.vmaddr = vm + (loc.offset % PageSize)]
      BY <1>10 DEF BeginText
    <3>2. loc'.offset = loc.offset /\ loc'.vmaddr = vm + (loc.offset % PageSize)
      BY <1>a, <3>1 DEF Location
    <3>3. seg'[i].fileoff = TextOffset /\ seg'[i].vmaddr = vm
      BY <1>10, <1>a, <2>3 DEF BeginText, SegmentExtent
    <3>4. QED
      BY <3>2, <3>3
  <2>5. /\ TextOffset \in Nat /\ loc.offset % PageSize \in Nat
        /\ loc.offset - TextOffset = loc.offset % PageSize
        /\ Multiple(TextOffset, PageSize)
    BY <1>a, <1>c, AlignDownFacts DEF TextOffset
  <2>6. TextOffset % PageSize = 0
    BY <1>a, <2>5, MultipleRemainder
  <2>7. vm \in Nat /\ vm % PageSize = 0
    BY <1>a, <1>c, AlignUpFacts, AlignUpRemainder
  <2>8. InStepAt(i, loc)'
    <3>1. TextOffset <= loc.offset
      BY <1>c, <2>5
    <3>2. loc'.vmaddr - vm = loc.offset % PageSize
      <4> DEFINE r == loc.offset % PageSize
      <4>1. loc'.vmaddr = vm + r /\ r \in Nat /\ vm \in Nat
        BY <2>4, <2>5, <2>7
      <4>2. loc'.vmaddr - vm = r
        <5> HIDE DEF r, vm
        <5> QED BY <4>1
      <4>3. QED
        BY <4>2
    <3>3. i' = i
      BY <1>10 DEF BeginText
    <3>4. seg'[i'].fileoff = TextOffset /\ seg'[i'].vmaddr = vm
      BY <2>4, <3>3
    <3>5. seg'[i'].fileoff <= loc'.offset
      BY <2>4, <3>1, <3>4
    <3>6. loc'.offset - seg'[i'].fileoff = loc'.vmaddr - seg'[i'].vmaddr
      <4>1. loc'.offset - TextOffset = loc'.vmaddr - vm
        BY <2>4, <2>5, <3>2
      <4>2. QED
        BY <3>4, <4>1
    <3>7. QED
      BY <3>5, <3>6 DEF InStepAt
  <2>9. CurrentInStep'
    BY <1>10, <2>4, <2>6, <2>7, <2>8 DEF BeginText, CurrentInStep
  <2>10. StartInStep' /\ AddressAligned'
    BY <1>10 DEF BeginText, StartInStep, AddressAligned
  <2>11. QED
    BY <1>a, <2>2, <2>9, <2>10 DEF IInv
<1>11. CASE BeginSegment
  <2>1. \A s : Begun(s) => /\ Begun(s)'
                           /\ seg'[s].fileoff = seg[s].fileoff
                           /\ seg'[s].vmaddr = seg[s].vmaddr
    BY <1>11, <1>a DEF BeginSegment, Begun
  <2>2. BlobsInStep' /\ SectsInStep'
    BY <1>11, <1>b, <2>1, QuietStep DEF BeginSegment
  <2>3. i \in DOMAIN archive
    BY <1>11, <1>a, Reached DEF BeginSegment
  <2>4. seg'[i].fileoff = loc'.offset /\ seg'[i].vmaddr = loc'.vmaddr
    BY <1>11, <1>a, <2>3 DEF BeginSegment, SegmentExtent
  <2>5. /\ loc'.offset = AlignUp(loc.offset, PageSize)
        /\ loc'.vmaddr = AlignUp(loc.vmaddr, PageSize)
    BY <1>11 DEF BeginSegment, Align
  <2>6. loc'.offset % PageSize = 0 /\ loc'.vmaddr % PageSize = 0
    BY <1>c, <2>5, AlignUpRemainder
  <2>7. InStepAt(i, loc)'
    BY <1>11, <1>c, <2>4 DEF BeginSegment, InStepAt
  <2>8. CurrentInStep'
    BY <1>11, <2>4, <2>6, <2>7 DEF BeginSegment, CurrentInStep
  <2>9. StartInStep' /\ AddressAligned'
    BY <1>11 DEF BeginSegment, StartInStep, AddressAligned
  <2>10. QED
    BY <1>a, <2>2, <2>8, <2>9 DEF IInv
<1>12. CASE BeginSection
  <2> DEFINE a == LC.sects[j].align
  <2>1. \A s : Begun(s) => /\ Begun(s)'
                           /\ seg'[s].fileoff = seg[s].fileoff
                           /\ seg'[s].vmaddr = seg[s].vmaddr
    BY <1>12, <1>a DEF BeginSection, Begun
  <2>2. BlobsInStep' /\ SectsInStep'
    BY <1>12, <1>b, <2>1, QuietStep DEF BeginSection
  <2>3. i \in DOMAIN archive /\ a \in Aligns
    BY <1>12, <1>a, Reached, SectParts DEF BeginSection, Typed, Cursor
  <2>4. seg[i].fileoff \in Nat /\ seg[i].vmaddr \in Nat
    BY <1>a, <2>3, ExtentFields
  <2>5. /\ seg[i].fileoff % PageSize = 0 /\ seg[i].vmaddr % PageSize = 0
        /\ seg[i].fileoff <= loc.offset
        /\ loc.offset - seg[i].fileoff = loc.vmaddr - seg[i].vmaddr
    BY <1>12, <1>d DEF BeginSection, CurrentInStep, InStepAt
  <2>6. loc' = Align(loc, a) /\ start' = loc' /\ UNCHANGED <<i, seg>>
    BY <1>12 DEF BeginSection
  <2>7. /\ loc.offset <= loc'.offset
        /\ loc'.offset - seg[i].fileoff = loc'.vmaddr - seg[i].vmaddr
    BY <1>a, <2>3, <2>4, <2>5, <2>6, AlignInStep
  <2>8. seg[i].fileoff <= loc'.offset
    BY <1>c, <2>4, <2>5, <2>7
  <2>9. CurrentInStep' /\ StartInStep' /\ AddressAligned'
    BY <1>12, <1>c, <2>5, <2>6, <2>7, <2>8
       DEF BeginSection, CurrentInStep, StartInStep, InStepAt, AddressAligned
  <2>10. QED
    BY <1>a, <2>2, <2>9 DEF IInv
<1>13. CASE PlaceBlob
  <2> DEFINE n == BuiltSize(LC.sects[j].blobs[k])
             new == [at |-> <<i, j, k>>, loc |-> loc, size |-> n]
  <2>1. \A s : Begun(s) => /\ Begun(s)'
                           /\ seg'[s].fileoff = seg[s].fileoff
                           /\ seg'[s].vmaddr = seg[s].vmaddr
    BY <1>13, <1>a DEF PlaceBlob, Begun
  <2>2. n \in Nat /\ i \in DOMAIN archive
    BY <1>13, <1>a, Reached, BuiltSizeType DEF PlaceBlob, Typed, Cursor
  <2>3. /\ loc'.offset = loc.offset + n /\ loc'.vmaddr = loc.vmaddr + n
        /\ UNCHANGED <<i, seg, stage, start, sect, archive>> /\ blob' = blob \cup {new}
        /\ stage = "blob"
    BY <1>13 DEF PlaceBlob, Advance
  <2>4. InStepAt(i, loc) /\ InStepAt(i, start) /\ start.offset <= loc.offset
    BY <1>d, <2>3 DEF CurrentInStep, StartInStep
  <2>5. seg[i].fileoff \in Nat /\ seg[i].vmaddr \in Nat
    BY <1>a, <2>2, ExtentFields
  <2>6. InStepAt(i, loc)'
    BY <1>c, <2>2, <2>3, <2>4, <2>5 DEF InStepAt
  <2>7. CurrentInStep'
    BY <1>d, <2>3, <2>6 DEF CurrentInStep
  <2>8. StartInStep'
    BY <1>c, <2>2, <2>3, <2>4 DEF StartInStep, InStepAt
  <2>9. AddressAligned'
    BY <2>3 DEF AddressAligned
  <2>10. ASSUME NEW b, b = new PROVE Begun(b.at[1])' /\ InStepAt(b.at[1], b.loc)'
    <3>1. b.at[1] = i /\ b.loc = loc
      BY <2>10
    <3>2. Begun(i)' /\ InStepAt(i, loc)
      BY <2>2, <2>3, <2>4 DEF Begun
    <3> HIDE DEF new, n
    <3>3. QED
      BY <2>3, <3>1, <3>2 DEF InStepAt, Begun
  <2>11. BlobsInStep' /\ SectsInStep'
    <3>1. /\ \A b \in blob : Begun(b.at[1])' /\ InStepAt(b.at[1], b.loc)'
          /\ \A c \in sect : Begun(c.at[1])' /\ InStepAt(c.at[1], c.loc)' /\ c.size >= 0
      BY <1>b, <2>1, PlacedStays
    <3>2. BlobsInStep'
      <4> HIDE DEF new
      <4> QED BY <2>3, <2>10, <3>1 DEF BlobsInStep
    <3>3. QED
      BY <2>3, <3>1, <3>2 DEF SectsInStep
  <2>12. QED
    BY <1>a, <2>7, <2>8, <2>9, <2>11 DEF IInv
<1>14. CASE EndSection
  <2> DEFINE n == LC.sects[j].nreloc * RelocSize
             new == [at |-> <<i, j>>, loc |-> start, size |-> loc.offset - start.offset,
                     reloff |-> loc.offset, nreloc |-> LC.sects[j].nreloc]
  <2>1. \A s : Begun(s) => /\ Begun(s)'
                           /\ seg'[s].fileoff = seg[s].fileoff
                           /\ seg'[s].vmaddr = seg[s].vmaddr
    BY <1>14, <1>a DEF EndSection, Begun
  <2>2. n \in Nat /\ i \in DOMAIN archive
    <3>1. LC.sects[j].nreloc \in Nat /\ RelocSize \in Nat
      BY <1>14, <1>a, Reached, SectParts, SizesAssumption DEF EndSection
    <3>2. QED
      BY <1>14, <1>a, <3>1 DEF EndSection, Typed, Cursor
  <2>3. /\ loc' = Advance(loc, n)
        /\ UNCHANGED <<i, seg, blob, archive>> /\ sect' = sect \cup {new}
        /\ stage = "blob" /\ stage' = "sect"
    BY <1>14 DEF EndSection
  <2>4. InStepAt(i, loc) /\ InStepAt(i, start) /\ start.offset <= loc.offset
    BY <1>d, <2>3 DEF CurrentInStep, StartInStep
  <2>5. seg[i].fileoff \in Nat /\ seg[i].vmaddr \in Nat
    BY <1>a, <2>2, ExtentFields
  <2>6. InStepAt(i, loc)'
    <3>1. loc'.offset = loc.offset + n /\ loc'.vmaddr = loc.vmaddr + n
      BY <2>3 DEF Advance
    <3> HIDE DEF n
    <3>2. QED
      BY <1>c, <2>2, <2>3, <2>4, <2>5, <3>1 DEF InStepAt
  <2>7. CurrentInStep' /\ StartInStep' /\ AddressAligned'
    BY <1>d, <2>3, <2>6 DEF CurrentInStep, StartInStep, AddressAligned
  <2>8. ASSUME NEW c, c = new
        PROVE  Begun(c.at[1])' /\ InStepAt(c.at[1], c.loc)' /\ c.size >= 0
    <3>1. c.at[1] = i /\ c.loc = start /\ c.size = loc.offset - start.offset
      BY <2>8
    <3>2. Begun(i)' /\ InStepAt(i, start)
      BY <2>2, <2>3, <2>4 DEF Begun
    <3> HIDE DEF new, n
    <3>3. QED
      BY <1>c, <2>3, <2>4, <3>1, <3>2 DEF InStepAt, Begun
  <2>9. BlobsInStep' /\ SectsInStep'
    <3>1. /\ \A b \in blob : Begun(b.at[1])' /\ InStepAt(b.at[1], b.loc)'
          /\ \A c \in sect : Begun(c.at[1])' /\ InStepAt(c.at[1], c.loc)' /\ c.size >= 0
      BY <1>b, <2>1, PlacedStays
    <3>2. SectsInStep'
      <4> HIDE DEF new
      <4> QED BY <2>3, <2>8, <3>1 DEF SectsInStep
    <3>3. QED
      BY <2>3, <3>1, <3>2 DEF BlobsInStep
  <2>10. QED
    BY <1>a, <2>7, <2>9 DEF IInv
<1>15. CASE EndSegment
  <2>0. i \in DOMAIN archive
    BY <1>15, <1>a DEF EndSegment, Typed, Cursor
  <2>1. \A s : Begun(s) => /\ Begun(s)'
                           /\ seg'[s].fileoff = seg[s].fileoff
                           /\ seg'[s].vmaddr = seg[s].vmaddr
    <3>1. \A s : Begun(s) => Begun(s)' /\ s \in DOMAIN archive
      BY <1>15, <1>a, Commands, SMTT(20) DEF EndSegment, Begun, Typed, TypeOK
    <3>2. PICK p, q : seg' = [seg EXCEPT ![i].filesize = p, ![i].vmsize = q]
      BY <1>15 DEF EndSegment
    <3>3. \A s \in DOMAIN archive : seg'[s].fileoff = seg[s].fileoff
                                   /\ seg'[s].vmaddr = seg[s].vmaddr
      BY <1>a, <2>0, <3>2 DEF SegmentExtent
    <3>4. QED
      BY <3>1, <3>3
  <2>2. BlobsInStep' /\ SectsInStep'
    BY <1>15, <1>b, <2>1, QuietStep DEF EndSegment
  <2>3. loc'.vmaddr % PageSize = 0
    <3>1. loc'.vmaddr = AlignUp(loc.vmaddr, PageSize)
      BY <1>15 DEF EndSegment, SegmentEnd, Align
    <3>2. QED
      BY <1>c, <3>1, AlignUpRemainder
  <2>4. CurrentInStep' /\ StartInStep' /\ AddressAligned'
    BY <1>15, <2>3 DEF EndSegment, CurrentInStep, StartInStep, AddressAligned
  <2>5. QED
    BY <1>a, <2>2, <2>4 DEF IInv
<1>16. CASE BeginLinkedit
  <2>1. \A s : Begun(s) => /\ Begun(s)'
                           /\ seg'[s].fileoff = seg[s].fileoff
                           /\ seg'[s].vmaddr = seg[s].vmaddr
    BY <1>16, <1>a DEF BeginLinkedit, Begun
  <2>2. BlobsInStep' /\ SectsInStep'
    BY <1>16, <1>b, <2>1, QuietStep DEF BeginLinkedit
  <2>3. CurrentInStep' /\ StartInStep' /\ AddressAligned'
    BY <1>16, <1>d DEF BeginLinkedit, CurrentInStep, StartInStep, AddressAligned
  <2>4. QED
    BY <1>a, <2>2, <2>3 DEF IInv
<1>17. CASE SizeNode
  <2>1. \A s : Begun(s) => /\ Begun(s)'
                           /\ seg'[s].fileoff = seg[s].fileoff
                           /\ seg'[s].vmaddr = seg[s].vmaddr
    BY <1>17, <1>a DEF SizeNode, Begun
  <2>2. BlobsInStep' /\ SectsInStep'
    BY <1>17, <1>b, <2>1, QuietStep DEF SizeNode
  <2>3. CurrentInStep' /\ StartInStep' /\ AddressAligned'
    BY <1>17, <1>d DEF SizeNode, CurrentInStep, StartInStep, AddressAligned
  <2>4. QED
    BY <1>a, <2>2, <2>3 DEF IInv
<1>18. CASE AllocateTable
  <2>1. \A s : Begun(s) => /\ Begun(s)'
                           /\ seg'[s].fileoff = seg[s].fileoff
                           /\ seg'[s].vmaddr = seg[s].vmaddr
    BY <1>18, <1>a DEF AllocateTable, Begun
  <2>2. BlobsInStep' /\ SectsInStep'
    BY <1>18, <1>b, <2>1, QuietStep DEF AllocateTable
  <2>3. CurrentInStep' /\ StartInStep' /\ AddressAligned'
    BY <1>18, <1>d DEF AllocateTable, CurrentInStep, StartInStep, AddressAligned
  <2>4. QED
    BY <1>a, <2>2, <2>3 DEF IInv
<1>19. CASE IndexNode
  <2>1. \A s : Begun(s) => /\ Begun(s)'
                           /\ seg'[s].fileoff = seg[s].fileoff
                           /\ seg'[s].vmaddr = seg[s].vmaddr
    BY <1>19, <1>a DEF IndexNode, Begun
  <2>2. BlobsInStep' /\ SectsInStep'
    BY <1>19, <1>b, <2>1, QuietStep DEF IndexNode
  <2>3. CurrentInStep' /\ StartInStep' /\ AddressAligned'
    BY <1>19, <1>d DEF IndexNode, CurrentInStep, StartInStep, AddressAligned
  <2>4. QED
    BY <1>a, <2>2, <2>3 DEF IInv
<1>20. CASE TableDone
  <2>1. \A s : Begun(s) => /\ Begun(s)'
                           /\ seg'[s].fileoff = seg[s].fileoff
                           /\ seg'[s].vmaddr = seg[s].vmaddr
    BY <1>20, <1>a DEF TableDone, Begun
  <2>2. BlobsInStep' /\ SectsInStep'
    BY <1>20, <1>b, <2>1, QuietStep DEF TableDone
  <2>3. CurrentInStep' /\ StartInStep' /\ AddressAligned'
    BY <1>20, <1>d DEF TableDone, CurrentInStep, StartInStep, AddressAligned
  <2>4. QED
    BY <1>a, <2>2, <2>3 DEF IInv
<1>21. CASE EndLinkedit
  <2>0. i \in DOMAIN archive
    BY <1>21, <1>a DEF EndLinkedit, Typed, Cursor
  <2>1. \A s : Begun(s) => /\ Begun(s)'
                           /\ seg'[s].fileoff = seg[s].fileoff
                           /\ seg'[s].vmaddr = seg[s].vmaddr
    <3>1. \A s : Begun(s) => Begun(s)' /\ s \in DOMAIN archive
      BY <1>21, <1>a, Commands DEF EndLinkedit, Begun, Typed, TypeOK
    <3>2. PICK p, q : seg' = [seg EXCEPT ![i].filesize = p, ![i].vmsize = q]
      BY <1>21 DEF EndLinkedit
    <3>3. \A s \in DOMAIN archive : seg'[s].fileoff = seg[s].fileoff
                                   /\ seg'[s].vmaddr = seg[s].vmaddr
      BY <1>a, <2>0, <3>2 DEF SegmentExtent
    <3>4. QED
      BY <3>1, <3>3
  <2>2. BlobsInStep' /\ SectsInStep'
    BY <1>21, <1>b, <2>1, QuietStep DEF EndLinkedit
  <2>3. loc'.vmaddr % PageSize = 0
    <3>1. loc' = [loc EXCEPT !.vmaddr = AlignUp(loc.vmaddr, PageSize)]
      BY <1>21 DEF EndLinkedit
    <3>2. loc'.vmaddr = AlignUp(loc.vmaddr, PageSize)
      BY <1>a, <3>1 DEF Location
    <3>3. QED
      BY <1>c, <3>2, AlignUpRemainder
  <2>4. CurrentInStep' /\ StartInStep' /\ AddressAligned'
    BY <1>21, <2>3 DEF EndLinkedit, CurrentInStep, StartInStep, AddressAligned
  <2>5. QED
    BY <1>a, <2>2, <2>4 DEF IInv
<1>22. CASE BuildDone
  <2>1. \A s : Begun(s) => /\ Begun(s)'
                           /\ seg'[s].fileoff = seg[s].fileoff
                           /\ seg'[s].vmaddr = seg[s].vmaddr
    BY <1>22, <1>a DEF BuildDone, Begun
  <2>2. BlobsInStep' /\ SectsInStep'
    BY <1>22, <1>b, <2>1, QuietStep DEF BuildDone
  <2>3. CurrentInStep' /\ StartInStep' /\ AddressAligned'
    BY <1>22, <1>d DEF BuildDone, CurrentInStep, StartInStep, AddressAligned
  <2>4. QED
    BY <1>a, <2>2, <2>3 DEF IInv
<1>23. QED
  BY <1>1, <1>2, <1>3, <1>4, <1>5, <1>6, <1>7, <1>8, <1>9, <1>10, <1>11, <1>12,
     <1>13, <1>14, <1>15, <1>16, <1>17, <1>18, <1>19, <1>20, <1>21, <1>22 DEF Next

LEMMA Invariance == Spec => []IInv
<1>1. QED
  BY InitIInv, NextIInv, PTL DEF Spec

(* What the inductive invariant says of the places themselves.             *)
LEMMA InStepFromIInv == IInv => InStep
<1> SUFFICES ASSUME IInv PROVE InStep
  OBVIOUS
<1>1. ASSUME NEW b \in blob
      PROVE  FileDistance(b) = AddrDistance(b) /\ FileDistance(b) >= 0
  <2>1. Begun(b.at[1]) /\ InStepAt(b.at[1], b.loc)
    BY DEF IInv, BlobsInStep
  <2>2. b.loc.offset \in Nat
    BY LocationFields DEF IInv, Typed, TypeOK, PlacedBlob
  <2>3. seg[b.at[1]].fileoff \in Nat
    BY <2>1, ExtentFields DEF IInv, Typed, TypeOK, Begun
  <2>4. QED
    BY <2>1, <2>2, <2>3 DEF InStepAt, FileDistance, AddrDistance
<1>2. ASSUME NEW c \in sect
      PROVE  FileDistance(c) = AddrDistance(c) /\ c.size >= 0
  BY DEF IInv, SectsInStep, InStepAt, FileDistance, AddrDistance
<1>3. QED
  BY <1>1, <1>2 DEF InStep

(* Every blob and every section lies as far from the start of its segment  *)
(* in the file as in memory, whatever the archive: a rebase or bind opcode *)
(* is written at the size it was counted with, and the loader finds every  *)
(* byte at the address that the build gave it.                             *)
THEOREM OffsetsInStep == Spec => []InStep
<1>1. QED
  BY Invariance, InStepFromIInv, PTL

(* Segment::Build's assertion that the address it starts from is the start *)
(* of a page never fails: whatever was built before has left it there.     *)
THEOREM SegmentsStartOnPages == Spec => []PageAligned
<1>1. IInv => PageAligned
  BY DEF IInv, AddressAligned, PageAligned
<1>2. QED
  BY Invariance, <1>1, PTL


-----------------------------------------------------------------------------
(* Segments one after another.  SegmentsHold speaks of the segments that   *)
(* have been built; the next one starts from the place the build has       *)
(* reached, so that place has to lie behind all of them.  __LINKEDIT is    *)
(* the exception (EndLinkedit leaves the address at its start), and only   *)
(* because no segment follows it; __PAGEZERO ends at file offset zero,     *)
(* which is what lets __TEXT start on the page below the place reached.    *)

(* Segment s ends at or before offset o and address v.                     *)
Clear(s, o, v) == /\ seg[s].vmaddr + seg[s].vmsize <= v
                  /\ seg[s].fileoff + seg[s].filesize <= o

Between ==
  stage = "lc" =>
    \A s \in Segments : s < i =>
      /\ archive[s].kind # "LINKEDIT" => Clear(s, loc.offset, loc.vmaddr)
      /\ archive[s].kind = "PAGEZERO" => Clear(s, 0, loc.vmaddr)

Inside ==
  stage \in {"sect", "blob", "table", "index"} =>
    /\ LC.kind \in IF stage \in {"sect", "blob"} THEN {"TEXT", "DATA"} ELSE {"LINKEDIT"}
    /\ seg[i].fileoff <= loc.offset
    /\ stage \in {"table", "index"} => seg[i].vmaddr <= loc.vmaddr
    /\ \A s \in Segments : s < i =>
         /\ Clear(s, seg[i].fileoff, seg[i].vmaddr)
         /\ archive[s].kind = "PAGEZERO" => Clear(s, 0, seg[i].vmaddr)

(* What the segment that is being built has been given so far.             *)
SectsBelow ==
  \A c \in sect : stage \in {"sect", "blob"} /\ c.at[1] = i =>
    c.reloff + c.nreloc * RelocSize <= loc.offset

TableBegun(s) ==
  /\ stage \notin {"count", "ids", "error"}
  /\ s < i \/ (s = i /\ stage \in {"table", "index"})

TablesBelow ==
  \A t \in table :
    /\ TableBegun(t.at[1])
    /\ stage \in {"table", "index"} /\ t.at[1] = i =>
         seg[i].fileoff <= t.off /\ t.off + t.size <= loc.offset

HInv == /\ IInv /\ SegmentsHold /\ Between /\ Inside /\ SectsBelow /\ TablesBelow

-----------------------------------------------------------------------------
(* Ranks.                                                                  *)
SegmentsBelow(x) == {y \in 1..(x - 1) : IsSegment(archive[y])}
SectionsBelow(x) == UNION {{<<y, z>> : z \in DOMAIN archive[y].sects} : y \in SegmentsBelow(x)}
DylibsBelow(x) == {y \in 1..(x - 1) : archive[y].kind = "dylib"}

Ranked(x) ==
  /\ IsSegment(archive[x]) => /\ segId[x] = Cardinality(SegmentsBelow(x))
                              /\ sectId[x] = Cardinality(SectionsBelow(x))
  /\ archive[x].kind = "dylib" => dylibId[x] = 1 + Cardinality(DylibsBelow(x))

(* Each counter is the number of things counted before command i, and the  *)
(* commands before i have their ranks.                                     *)
CountersCount ==
  /\ stage = "count" => ids = FirstIds
  /\ stage = "ids" =>
       /\ ids.segment = Cardinality(SegmentsBelow(i)) /\ IsFiniteSet(SegmentsBelow(i))
       /\ ids.section = Cardinality(SectionsBelow(i)) /\ IsFiniteSet(SectionsBelow(i))
       /\ ids.dylib = 1 + Cardinality(DylibsBelow(i)) /\ IsFiniteSet(DylibsBelow(i))

RanksSoFar ==
  \A x \in DOMAIN archive :
    stage \notin {"count", "error"} /\ (stage = "ids" => x < i) => Ranked(x)

RInv == Typed /\ CountersCount /\ RanksSoFar

(* The numbers of a built archive are its ranks, once every command has.   *)
LEMMA RanksAreRanks ==
  ASSUME \A x \in DOMAIN archive : Ranked(x)
  PROVE  NumbersAreRanks
<1> SUFFICES ASSUME NEW x \in DOMAIN archive
             PROVE  LET before(P(_)) == {y \in 1..(x - 1) : P(archive[y])} IN
                    /\ IsSegment(archive[x]) =>
                         /\ segId[x] = Cardinality(before(IsSegment))
                         /\ sectId[x] = Cardinality(UNION {{<<y, z>> : z \in DOMAIN archive[y].sects} :
                                                           y \in before(IsSegment)})
                    /\ archive[x].kind = "dylib" =>
                         dylibId[x] = 1 + Cardinality(before(LAMBDA lc : lc.kind = "dylib"))
  BY DEF NumbersAreRanks
<1>1. Ranked(x)
  OBVIOUS
<1>2. QED
  BY <1>1 DEF Ranked, SegmentsBelow, SectionsBelow, DylibsBelow

(* Nothing is counted before the first command; after command x, what it   *)
(* is has been counted too.                                                *)
LEMMA NothingBelowFirst ==
  /\ IsFiniteSet(SegmentsBelow(1)) /\ Cardinality(SegmentsBelow(1)) = 0
  /\ IsFiniteSet(SectionsBelow(1)) /\ Cardinality(SectionsBelow(1)) = 0
  /\ IsFiniteSet(DylibsBelow(1)) /\ Cardinality(DylibsBelow(1)) = 0
<1>1. SegmentsBelow(1) = {} /\ DylibsBelow(1) = {}
  BY DEF SegmentsBelow, DylibsBelow
<1>2. SectionsBelow(1) = {}
  BY <1>1 DEF SectionsBelow
<1>3. QED
  BY <1>1, <1>2, FS_EmptySet

LEMMA BelowNext ==
  ASSUME NEW x \in Nat \ {0}
  PROVE  /\ SegmentsBelow(x + 1) =
              IF IsSegment(archive[x]) THEN SegmentsBelow(x) \cup {x} ELSE SegmentsBelow(x)
         /\ DylibsBelow(x + 1) =
              IF archive[x].kind = "dylib" THEN DylibsBelow(x) \cup {x} ELSE DylibsBelow(x)
         /\ SectionsBelow(x + 1) =
              IF IsSegment(archive[x])
              THEN SectionsBelow(x) \cup ({x} \X DOMAIN archive[x].sects) ELSE SectionsBelow(x)
         /\ x \notin SegmentsBelow(x) /\ x \notin DylibsBelow(x)
         /\ SectionsBelow(x) \cap ({x} \X DOMAIN archive[x].sects) = {}
<1>1. 1..(x + 1 - 1) = (1..(x - 1)) \cup {x} /\ x \notin 1..(x - 1)
  OBVIOUS
<1>2. SegmentsBelow(x + 1) =
        IF IsSegment(archive[x]) THEN SegmentsBelow(x) \cup {x} ELSE SegmentsBelow(x)
  BY <1>1 DEF SegmentsBelow
<1>3. DylibsBelow(x + 1) =
        IF archive[x].kind = "dylib" THEN DylibsBelow(x) \cup {x} ELSE DylibsBelow(x)
  BY <1>1 DEF DylibsBelow
<1>4. x \notin SegmentsBelow(x) /\ x \notin DylibsBelow(x)
  BY <1>1 DEF SegmentsBelow, DylibsBelow
<1>5. SectionsBelow(x + 1) =
        IF IsSegment(archive[x])
        THEN SectionsBelow(x) \cup ({x} \X DOMAIN archive[x].sects) ELSE SectionsBelow(x)
  <2>1. CASE IsSegment(archive[x])
    <3>1. SegmentsBelow(x + 1) = SegmentsBelow(x) \cup {x}
      BY <1>2, <2>1
    <3>2. {<<x, z>> : z \in DOMAIN archive[x].sects} = {x} \X DOMAIN archive[x].sects
      OBVIOUS
    <3>3. SectionsBelow(x + 1) =
            SectionsBelow(x) \cup {<<x, z>> : z \in DOMAIN archive[x].sects}
      BY <3>1 DEF SectionsBelow
    <3>4. QED
      BY <2>1, <3>2, <3>3
  <2>2. CASE ~IsSegment(archive[x])
    BY <1>2, <2>2 DEF SectionsBelow
  <2>3. QED
    BY <2>1, <2>2
<1>6. SectionsBelow(x) \cap ({x} \X DOMAIN archive[x].sects) = {}
  BY <1>4 DEF SectionsBelow
<1>7. QED
  BY <1>2, <1>3, <1>4, <1>5, <1>6

(* One more segment with n sections, or one more dylib, to count.          *)
LEMMA CountSegment ==
  ASSUME NEW x \in Nat \ {0}, NEW n \in Nat, DOMAIN archive[x].sects = 1..n,
         IsSegment(archive[x]), IsFiniteSet(SegmentsBelow(x)), IsFiniteSet(SectionsBelow(x))
  PROVE  /\ IsFiniteSet(SegmentsBelow(x + 1)) /\ IsFiniteSet(SectionsBelow(x + 1))
         /\ Cardinality(SegmentsBelow(x + 1)) = Cardinality(SegmentsBelow(x)) + 1
         /\ Cardinality(SectionsBelow(x + 1)) = Cardinality(SectionsBelow(x)) + n
<1> DEFINE A == {x}
           B == 1..n
           T == A \X B
<1>1. IsFiniteSet(T) /\ Cardinality(T) = n
  <2>1. IsFiniteSet(B) /\ Cardinality(B) = n
    BY FS_Interval
  <2>2. IsFiniteSet(A) /\ Cardinality(A) = 1
    BY FS_Singleton
  <2> HIDE DEF A, B
  <2>3. IsFiniteSet(A \X B) /\ Cardinality(A \X B) = Cardinality(A) * Cardinality(B)
    BY <2>1, <2>2, FS_Product
  <2>4. QED
    BY <2>1, <2>2, <2>3
<1>2. IsFiniteSet(SectionsBelow(x) \cup T)
      /\ Cardinality(SectionsBelow(x) \cup T) = Cardinality(SectionsBelow(x)) + n
  <2>1. SectionsBelow(x) \cap T = {} /\ Cardinality({}) = 0
    BY BelowNext, FS_EmptySet
  <2>2. Cardinality(SectionsBelow(x)) \in Nat
    BY FS_CardinalityType
  <2> HIDE DEF T
  <2>3. PICK C : C = SectionsBelow(x)
    OBVIOUS
  <2>4. IsFiniteSet(C) /\ C \cap T = {} /\ Cardinality(C) \in Nat
    BY <2>1, <2>2, <2>3
  <2>5. /\ IsFiniteSet(C \cup T)
        /\ Cardinality(C \cup T) = Cardinality(C) + Cardinality(T) - Cardinality(C \cap T)
    BY <1>1, <2>4, FS_Union
  <2>6. Cardinality(C \cup T) = Cardinality(C) + n
    <3>1. Cardinality(C \cap T) = 0
      BY <2>1, <2>4
    <3>2. Cardinality(T) = n /\ Cardinality(C) \in Nat
      BY <1>1, <2>4
    <3>3. QED
      BY <2>5, <3>1, <3>2
  <2>7. QED
    BY <2>3, <2>5, <2>6
<1>3. SectionsBelow(x + 1) = SectionsBelow(x) \cup T
  BY BelowNext
<1>4. SegmentsBelow(x + 1) = SegmentsBelow(x) \cup {x} /\ x \notin SegmentsBelow(x)
  BY BelowNext
<1>5. /\ IsFiniteSet(SegmentsBelow(x + 1))
      /\ Cardinality(SegmentsBelow(x + 1)) = Cardinality(SegmentsBelow(x)) + 1
  BY <1>4, FS_AddElement
<1>6. QED
  BY <1>2, <1>3, <1>5

LEMMA CountDylib ==
  ASSUME NEW x \in Nat \ {0}, archive[x].kind = "dylib", IsFiniteSet(DylibsBelow(x))
  PROVE  /\ IsFiniteSet(DylibsBelow(x + 1))
         /\ Cardinality(DylibsBelow(x + 1)) = Cardinality(DylibsBelow(x)) + 1
<1>1. DylibsBelow(x + 1) = DylibsBelow(x) \cup {x} /\ x \notin DylibsBelow(x)
  BY BelowNext
<1>2. QED
  BY <1>1, FS_AddElement

LEMMA InitRInv == Init => RInv
<1>1. Init => Typed /\ stage = "count" /\ ids = FirstIds
  BY InitTyped DEF Init
<1>2. QED
  BY <1>1 DEF RInv, CountersCount, RanksSoFar

LEMMA NextRInv == RInv /\ [Next]_vars => RInv'
<1> SUFFICES ASSUME RInv, [Next]_vars PROVE RInv'
  OBVIOUS
<1>a. /\ Typed /\ Typed' /\ CountersCount /\ RanksSoFar
      /\ ids \in Counters /\ i \in Nat
      /\ segId \in [DOMAIN archive -> Nat] /\ dylibId \in [DOMAIN archive -> Nat]
      /\ sectId \in [DOMAIN archive -> 0..MaxSect]
  BY NextTyped DEF RInv, Typed, TypeOK
<1>b. /\ ids.segment \in Nat /\ ids.section \in 0..MaxSect
      /\ ids.dylib \in Nat /\ ids.lazy \in Nat
  BY <1>a, CountersFields
<1>c. archive' = archive
  BY DEF Next, vars, CountCommand, AllocateCommands, AssignSegmentID, AssignDylibID,
     AssignNoID, IDsAssigned, BuildOther, BuildPagezero, BeginText, BeginSegment,
     BeginSection, PlaceBlob, EndSection, EndSegment, BeginLinkedit, SizeNode,
     AllocateTable, IndexNode, TableDone, EndLinkedit, BuildDone
<1>d. \A x : /\ SegmentsBelow(x)' = SegmentsBelow(x) /\ SectionsBelow(x)' = SectionsBelow(x)
             /\ DylibsBelow(x)' = DylibsBelow(x)
  BY <1>c DEF SegmentsBelow, SectionsBelow, DylibsBelow
<1>e. /\ Len(archive) \in Nat /\ DOMAIN archive = 1..Len(archive)
      /\ \A x \in DOMAIN archive : archive[x] \in LoadCommand
  BY <1>a, Commands DEF Typed, TypeOK
<1>1. CASE /\ UNCHANGED <<segId, sectId, dylibId>> /\ stage' = "count" /\ stage = "count"
           /\ UNCHANGED ids
  BY <1>1, <1>a DEF RInv, CountersCount, RanksSoFar
<1>2. CASE AllocateCommands
  <2>1. CountersCount'
    <3>1. /\ stage' = "ids" /\ i' = 1 /\ ids' = FirstIds
      BY <1>2, <1>a DEF AllocateCommands, CountersCount
    <3>2. QED
      BY <1>d, <3>1, NothingBelowFirst DEF CountersCount, FirstIds
  <2>2. RanksSoFar'
    BY <1>2, <1>c, <1>e DEF AllocateCommands, RanksSoFar
  <2>3. QED
    BY <1>a, <2>1, <2>2 DEF RInv
<1>3. CASE AssignSegmentID
  <2> DEFINE n == Len(LC.sects)
  <2>1. CASE TooManySections(ids.section + n)
    BY <1>3, <1>a, <2>1 DEF AssignSegmentID, RInv, CountersCount, RanksSoFar
  <2>2. CASE ~TooManySections(ids.section + n)
    <3>1. /\ i \in DOMAIN archive /\ n \in Nat /\ DOMAIN LC.sects = 1..n
          /\ IsSegment(LC) /\ LC = archive[i] /\ LC.kind # "dylib" /\ i \in Nat \ {0}
      BY <1>3, <1>a, <1>e, Reached, CommandParts
         DEF AssignSegmentID, IsSegment, SegmentKinds, LC
    <3>2. /\ stage = "ids" /\ stage' = "ids" /\ i' = i + 1 /\ dylibId' = dylibId
          /\ ids' = [ids EXCEPT !.segment = ids.segment + 1, !.section = ids.section + n]
          /\ segId' = [segId EXCEPT ![i] = ids.segment]
          /\ sectId' = [sectId EXCEPT ![i] = ids.section]
      BY <1>3, <2>2 DEF AssignSegmentID
    <3>3. /\ ids'.segment = ids.segment + 1 /\ ids'.section = ids.section + n
          /\ ids'.dylib = ids.dylib
      <4> HIDE DEF n
      <4> QED BY <1>a, <3>2 DEF Counters
    <3>4. /\ ids.segment = Cardinality(SegmentsBelow(i)) /\ IsFiniteSet(SegmentsBelow(i))
          /\ ids.section = Cardinality(SectionsBelow(i)) /\ IsFiniteSet(SectionsBelow(i))
          /\ ids.dylib = 1 + Cardinality(DylibsBelow(i)) /\ IsFiniteSet(DylibsBelow(i))
      BY <1>a, <3>2 DEF CountersCount
    <3>5. CountersCount'
      <4>1. DylibsBelow(i + 1) = DylibsBelow(i)
        BY <3>1, BelowNext
      <4>2. /\ IsFiniteSet(SegmentsBelow(i + 1)) /\ IsFiniteSet(SectionsBelow(i + 1))
            /\ Cardinality(SegmentsBelow(i + 1)) = ids'.segment
            /\ Cardinality(SectionsBelow(i + 1)) = ids'.section
        BY <3>1, <3>3, <3>4, CountSegment
      <4>3. QED
        BY <1>d, <3>2, <3>3, <3>4, <4>1, <4>2 DEF CountersCount
    <3>6. RanksSoFar'
      <4> SUFFICES ASSUME NEW x \in DOMAIN archive, x < i + 1 PROVE Ranked(x)'
        BY <1>c, <3>2 DEF RanksSoFar
      <4>1. CASE x = i
        BY <1>a, <1>c, <1>d, <3>1, <3>2, <3>4, <4>1 DEF Ranked, IsSegment
      <4>2. CASE x # i
        <5>1. Ranked(x)
          BY <1>a, <1>e, <3>1, <3>2, <4>2 DEF RanksSoFar
        <5>2. segId'[x] = segId[x] /\ sectId'[x] = sectId[x]
          BY <1>a, <3>2, <4>2
        <5>3. QED
          BY <1>c, <1>d, <3>2, <5>1, <5>2 DEF Ranked
      <4>3. QED
        BY <4>1, <4>2
    <3>7. QED
      BY <1>a, <3>5, <3>6 DEF RInv
  <2>3. QED
    BY <2>1, <2>2
<1>4. CASE AssignDylibID
  <2>1. /\ i \in DOMAIN archive /\ archive[i].kind = "dylib" /\ i \in Nat \ {0}
        /\ ~IsSegment(archive[i])
    BY <1>4, <1>a, <1>e, Reached DEF AssignDylibID, IsSegment, SegmentKinds, LC
  <2>2. /\ stage = "ids" /\ stage' = "ids" /\ i' = i + 1 /\ UNCHANGED <<segId, sectId>>
        /\ ids' = [ids EXCEPT !.dylib = ids.dylib + 1]
        /\ dylibId' = [dylibId EXCEPT ![i] = ids.dylib]
    BY <1>4 DEF AssignDylibID
  <2>3. /\ ids'.segment = ids.segment /\ ids'.section = ids.section
        /\ ids'.dylib = ids.dylib + 1
    BY <1>a, <2>2 DEF Counters
  <2>4. /\ ids.segment = Cardinality(SegmentsBelow(i)) /\ IsFiniteSet(SegmentsBelow(i))
        /\ ids.section = Cardinality(SectionsBelow(i)) /\ IsFiniteSet(SectionsBelow(i))
        /\ ids.dylib = 1 + Cardinality(DylibsBelow(i)) /\ IsFiniteSet(DylibsBelow(i))
    BY <1>a, <2>2 DEF CountersCount
  <2>5. CountersCount'
    <3>1. SegmentsBelow(i + 1) = SegmentsBelow(i) /\ SectionsBelow(i + 1) = SectionsBelow(i)
      BY <2>1, BelowNext
    <3>2. /\ IsFiniteSet(DylibsBelow(i + 1)) /\ ids'.dylib = 1 + Cardinality(DylibsBelow(i + 1))
      <4>1. Cardinality(DylibsBelow(i)) \in Nat
        BY <2>4, FS_CardinalityType
      <4>2. QED
        BY <2>1, <2>3, <2>4, <4>1, CountDylib
    <3>3. QED
      BY <1>d, <2>2, <2>3, <2>4, <3>1, <3>2 DEF CountersCount
  <2>6. RanksSoFar'
    <3> SUFFICES ASSUME NEW x \in DOMAIN archive, x < i + 1 PROVE Ranked(x)'
      BY <1>c, <2>2 DEF RanksSoFar
    <3>1. CASE x = i
      BY <1>a, <1>c, <1>d, <2>1, <2>2, <2>4, <3>1 DEF Ranked
    <3>2. CASE x # i
      <4>1. Ranked(x)
        BY <1>a, <1>e, <2>1, <2>2, <3>2 DEF RanksSoFar
      <4>2. dylibId'[x] = dylibId[x]
        BY <1>a, <2>2, <3>2
      <4>3. QED
        BY <1>c, <1>d, <2>2, <4>1, <4>2 DEF Ranked
    <3>3. QED
      BY <3>1, <3>2
  <2>7. QED
    BY <1>a, <2>5, <2>6 DEF RInv
<1>5. CASE AssignNoID
  <2>1. /\ i \in DOMAIN archive /\ archive[i].kind = "other" /\ i \in Nat \ {0}
        /\ ~IsSegment(archive[i])
    BY <1>5, <1>a, <1>e, Reached DEF AssignNoID, IsSegment, SegmentKinds, LC
  <2>2. /\ stage = "ids" /\ stage' = "ids" /\ i' = i + 1
        /\ UNCHANGED <<ids, segId, sectId, dylibId>>
    BY <1>5 DEF AssignNoID
  <2>3. /\ SegmentsBelow(i + 1) = SegmentsBelow(i) /\ SectionsBelow(i + 1) = SectionsBelow(i)
        /\ DylibsBelow(i + 1) = DylibsBelow(i)
    BY <2>1, BelowNext
  <2>4. CountersCount'
    BY <1>a, <1>d, <2>2, <2>3 DEF CountersCount
  <2>5. RanksSoFar'
    <3> SUFFICES ASSUME NEW x \in DOMAIN archive, x < i + 1 PROVE Ranked(x)'
      BY <1>c, <2>2 DEF RanksSoFar
    <3>1. CASE x = i
      BY <1>c, <2>1, <3>1 DEF Ranked
    <3>2. CASE x # i
      <4>1. Ranked(x)
        BY <1>a, <1>e, <2>1, <2>2, <3>2 DEF RanksSoFar
      <4>2. QED
        BY <1>c, <1>d, <2>2, <4>1 DEF Ranked
    <3>3. QED
      BY <3>1, <3>2
  <2>6. QED
    BY <1>a, <2>4, <2>5 DEF RInv
<1>6. CASE IDsAssigned
  <2>1. \A x \in DOMAIN archive : Ranked(x)
    BY <1>6, <1>a, <1>e DEF IDsAssigned, RanksSoFar
  <2>2. RanksSoFar'
    BY <1>6, <1>c, <1>d, <2>1 DEF IDsAssigned, RanksSoFar, Ranked
  <2>3. QED
    BY <1>6, <1>a, <2>2 DEF IDsAssigned, RInv, CountersCount
<1>7. CASE /\ UNCHANGED <<segId, sectId, dylibId>>
           /\ stage \notin {"count", "ids"} /\ stage' \notin {"count", "ids"}
           /\ stage' = "error" <=> stage = "error"
  <2>1. RanksSoFar'
    BY <1>7, <1>a, <1>c, <1>d DEF RanksSoFar, Ranked
  <2>2. QED
    BY <1>7, <1>a, <2>1 DEF RInv, CountersCount
<1>8. CASE UNCHANGED vars
  <2>1. RanksSoFar' /\ CountersCount'
    BY <1>8, <1>a, <1>c, <1>d DEF vars, RanksSoFar, Ranked, CountersCount
  <2>2. QED
    BY <1>a, <2>1 DEF RInv
<1>9. QED
  BY <1>1, <1>2, <1>3, <1>4, <1>5, <1>6, <1>7, <1>8
     DEF Next, CountCommand, BuildOther, BuildPagezero, BeginText, BeginSegment,
     BeginSection, PlaceBlob, EndSection, EndSegment, BeginLinkedit, SizeNode,
     AllocateTable, IndexNode, TableDone, EndLinkedit, BuildDone

LEMMA RanksInvariance == Spec => []RInv
BY InitRInv, NextRInv, PTL DEF Spec

LEMMA RanksFromRInv == RInv => NumbersAreRanks
<1> SUFFICES ASSUME RInv PROVE NumbersAreRanks
  OBVIOUS
<1>1. CASE stage \in {"count", "ids", "error"}
  BY <1>1 DEF NumbersAreRanks
<1>2. CASE stage \notin {"count", "ids", "error"}
  BY <1>2, RanksAreRanks DEF RInv, RanksSoFar
<1>3. QED
  BY <1>1, <1>2

(* Once the first pass is over, every segment carries the number of the    *)
(* segments before it, the first of its sections the number of sections    *)
(* before those, and every dylib its rank from one: the numbers by which   *)
(* opcodes, section(n) and two-level symbols find them again.              *)
THEOREM NumbersAreTheRanks == Spec => []NumbersAreRanks
BY RanksInvariance, RanksFromRInv, PTL

-----------------------------------------------------------------------------
(* The steps of SegmentsHold.                                              *)

(* Segment s lies where it should among the segments built so far, and     *)
(* holds its sections and tables.                                          *)
HoldsOne(s) ==
  /\ seg[s].filesize <= seg[s].vmsize
  /\ \A c \in sect : c.at[1] = s =>
       /\ seg[s].fileoff <= c.loc.offset
       /\ c.reloff + c.nreloc * RelocSize <= seg[s].fileoff + seg[s].filesize
  /\ \A t \in table : t.at[1] = s =>
       /\ seg[s].fileoff <= t.off
       /\ t.off + t.size <= seg[s].fileoff + seg[s].filesize

LEMMA HoldParts ==
  SegmentsHold <=>
    /\ \A s, t \in Segments : Built(s) /\ Built(t) /\ s < t =>
         Clear(s, seg[t].fileoff, seg[t].vmaddr)
    /\ \A s \in Segments : Built(s) => HoldsOne(s)
BY DEF SegmentsHold, Clear, HoldsOne

(* A step that builds no segment, and changes nothing but the one (n) that *)
(* is being built.                                                         *)
LEMMA HoldStays ==
  ASSUME SegmentsHold, UNCHANGED archive, NEW n,
         \A s \in Segments : Built(s)' => Built(s) /\ s # n,
         \A s \in Segments : s # n => seg'[s] = seg[s],
         \A c \in sect' : c \in sect \/ c.at[1] = n,
         \A t \in table' : t \in table \/ t.at[1] = n
  PROVE  SegmentsHold'
<1>1. Segments' = Segments
  BY DEF Segments
<1>2. ASSUME NEW s \in Segments, Built(s)' PROVE HoldsOne(s)'
  <2>1. HoldsOne(s) /\ s # n /\ seg'[s] = seg[s]
    BY <1>2, HoldParts
  <2>2. /\ \A c \in sect' : c.at[1] = s => c \in sect
        /\ \A t \in table' : t.at[1] = s => t \in table
    BY <2>1
  <2>3. QED
    BY <2>1, <2>2 DEF HoldsOne
<1>3. ASSUME NEW s \in Segments, NEW t \in Segments, Built(s)', Built(t)', s < t
      PROVE  Clear(s, seg[t].fileoff, seg[t].vmaddr)'
  <2>1. /\ Clear(s, seg[t].fileoff, seg[t].vmaddr)
        /\ seg'[s] = seg[s] /\ seg'[t] = seg[t]
    BY <1>3, HoldParts
  <2>2. QED
    BY <2>1 DEF Clear
<1>4. QED
  BY <1>1, <1>2, <1>3 DEF SegmentsHold, Clear, HoldsOne

(* A step that completes segment n, behind all the others.                 *)
LEMMA HoldExtends ==
  ASSUME SegmentsHold, UNCHANGED <<archive, sect, table>>, NEW n \in Nat,
         \A s \in Segments : s \in Nat /\ (Built(s)' => Built(s) \/ s = n),
         \A s \in Segments : Built(s) => s < n,
         \A s \in DOMAIN archive : s # n => seg'[s] = seg[s],
         \A s \in Segments : s < n => Clear(s, seg'[n].fileoff, seg'[n].vmaddr),
         HoldsOne(n)'
  PROVE  SegmentsHold'
<1>1. Segments' = Segments /\ Segments \subseteq DOMAIN archive
  BY DEF Segments
<1>2. ASSUME NEW s \in Segments, Built(s), HoldsOne(s) PROVE HoldsOne(s)'
  <2>1. s # n /\ seg'[s] = seg[s] /\ sect' = sect /\ table' = table
    BY <1>1, <1>2
  <2>2. QED
    BY <1>2, <2>1 DEF HoldsOne
<1>3. ASSUME NEW s \in Segments, Built(s)' PROVE HoldsOne(s)'
  <2>1. CASE s = n
    BY <2>1
  <2>2. CASE s # n
    BY <1>2, <1>3, <2>2, HoldParts
  <2>3. QED
    BY <2>1, <2>2
<1>4. ASSUME NEW s \in Segments, NEW t \in Segments, Built(s)', Built(t)', s < t
      PROVE  Clear(s, seg[t].fileoff, seg[t].vmaddr)'
  <2>1. s # n /\ Built(s) /\ s < n
    BY <1>4
  <2>2. seg'[s] = seg[s]
    BY <1>1, <2>1
  <2>3. CASE t = n
    BY <2>1, <2>2, <2>3 DEF Clear
  <2>4. CASE t # n
    <3>1. Built(t) /\ seg'[t] = seg[t]
      BY <1>1, <1>4, <2>4
    <3>2. Clear(s, seg[t].fileoff, seg[t].vmaddr)
      BY <1>4, <2>1, <3>1, HoldParts
    <3>3. QED
      BY <2>2, <3>1, <3>2 DEF Clear
  <2>5. QED
    BY <2>3, <2>4
<1>5. QED
  BY <1>1, <1>3, <1>4 DEF SegmentsHold, Clear, HoldsOne

LEMMA InitHInv == Init => HInv
<1> SUFFICES ASSUME Init PROVE HInv
  OBVIOUS
<1>1. IInv /\ stage = "count" /\ sect = {} /\ table = {}
  BY InitIInv DEF Init
<1>2. SegmentsHold
  BY <1>1 DEF SegmentsHold, Built
<1>3. QED
  BY <1>1, <1>2 DEF HInv, Between, Inside, SectsBelow, TablesBelow

(* The fields of what has been placed.                                     *)
LEMMA PlacedFields ==
  ASSUME Typed
  PROVE  /\ \A c \in sect : /\ c.at[1] \in Nat /\ c.loc.offset \in Nat
                            /\ c.reloff \in Nat /\ c.nreloc \in Nat
                            /\ c.nreloc * RelocSize \in Nat
         /\ \A t \in table : t.at[1] \in Nat /\ t.off \in Nat /\ t.size \in Nat
         /\ \A s \in DOMAIN archive :
              /\ s \in Nat \ {0} /\ seg[s].fileoff \in Nat /\ seg[s].vmaddr \in Nat
              /\ seg[s].filesize \in Int /\ seg[s].vmsize \in Int
<1>1. RelocSize \in Nat
  BY SizesAssumption
<1>2. ASSUME NEW c \in sect
      PROVE  /\ c.at[1] \in Nat /\ c.loc.offset \in Nat
             /\ c.reloff \in Nat /\ c.nreloc \in Nat /\ c.nreloc * RelocSize \in Nat
  <2>1. c \in PlacedSect
    BY DEF Typed, TypeOK
  <2>2. c.at \in Nat \X Nat /\ c.loc \in Location /\ c.reloff \in Nat /\ c.nreloc \in Nat
    BY <2>1 DEF PlacedSect
  <2>3. QED
    BY <1>1, <2>2, LocationFields
<1>3. ASSUME NEW t \in table PROVE t.at[1] \in Nat /\ t.off \in Nat /\ t.size \in Nat
  BY DEF Typed, TypeOK, PlacedTable
<1>4. ASSUME NEW s \in DOMAIN archive
      PROVE  /\ s \in Nat \ {0} /\ seg[s].fileoff \in Nat /\ seg[s].vmaddr \in Nat
             /\ seg[s].filesize \in Int /\ seg[s].vmsize \in Int
  <2>1. s \in Nat \ {0}
    BY Commands DEF Typed, TypeOK
  <2>2. seg[s] \in SegmentExtent
    BY DEF Typed, TypeOK
  <2>3. QED
    BY <2>1, <2>2 DEF SegmentExtent
<1>5. QED
  BY <1>2, <1>3, <1>4

(* The order of segments in a well-formed archive.                         *)
LEMMA SegmentOrder ==
  ASSUME archive \in Archives, NEW x \in Segments, NEW y \in Segments, x < y
  PROVE  /\ archive[y].kind # "PAGEZERO"
         /\ archive[y].kind = "TEXT" => archive[x].kind = "PAGEZERO"
         /\ archive[x].kind # "LINKEDIT"
BY ArchivesAssumption DEF WellFormed, Segments

(* align_up leaves a multiple alone.                                       *)
LEMMA AlignUpMultiple ==
  ASSUME NEW x \in Int, NEW a \in Nat \ {0}, Multiple(x, a)
  PROVE  AlignUp(x, a) = x
<1>1. PICK q \in Int : x = a * q
  BY DEF Multiple
<1>2. x + a - 1 = a * q + (a - 1) /\ a - 1 \in 0..(a - 1) /\ x + a - 1 \in Int
  BY <1>1
<1>3. (x + a - 1) \div a = q
  BY <1>2, DivisionUnique
<1>4. q * a = a * q
  BY <1>1
<1>5. QED
  BY <1>1, <1>3, <1>4 DEF AlignUp

(* A segment that starts on a page of the file and of memory, and whose    *)
(* last place is in step, is as long in memory as in the file when both    *)
(* ends are moved to the next page.                                        *)
LEMMA EndOnPages ==
  ASSUME NEW f \in Nat, NEW v \in Nat, f % PageSize = 0, v % PageSize = 0,
         NEW l \in Location, f <= l.offset, l.offset - f = l.vmaddr - v
  PROVE  /\ Align(l, PageSize).offset \in Nat /\ Align(l, PageSize).vmaddr \in Nat
         /\ l.offset <= Align(l, PageSize).offset
         /\ Align(l, PageSize).offset - f = Align(l, PageSize).vmaddr - v
         /\ AlignUp(Align(l, PageSize).vmaddr - v, PageSize) = Align(l, PageSize).vmaddr - v
<1> DEFINE p == PageSize
           A == AlignUp(l.offset, p)
           B == AlignUp(l.vmaddr, p)
<1>1. p \in Nat \ {0} /\ l.offset \in Nat /\ l.vmaddr \in Nat
  BY SizesAssumption, LocationFields
<1>2. /\ A \in Nat /\ l.offset <= A /\ Multiple(A, p)
      /\ B \in Nat /\ Multiple(B, p)
  BY <1>1, AlignUpFacts
<1>3. Multiple(f, p) /\ Multiple(v, p)
  BY <1>1, MultipleRemainder
<1>4. Multiple(f - v, p) /\ Multiple(B - v, p)
  BY <1>1, <1>2, <1>3, MultipleDifference
<1>5. l.offset - l.vmaddr = f - v
  <2>1. f \in Int /\ v \in Int /\ l.offset \in Int /\ l.vmaddr \in Int
    BY <1>1
  <2> HIDE DEF A, B, p
  <2>2. QED
    BY <2>1
<1>6. A - B = l.offset - l.vmaddr
  BY <1>1, <1>4, <1>5, AlignUpShift
<1>7. AlignUp(B - v, p) = B - v
  <2>1. B - v \in Int
    BY <1>2
  <2>2. QED
    BY <1>1, <1>4, <2>1, AlignUpMultiple
<1>8. A - f = B - v
  <2> HIDE DEF A, B
  <2> QED BY <1>1, <1>2, <1>5, <1>6
<1>9. QED
  BY <1>2, <1>7, <1>8 DEF Align

LEMMA NextHInv == HInv /\ [Next]_vars => HInv'
<1> SUFFICES ASSUME HInv, [Next]_vars PROVE HInv'
  OBVIOUS
<1>a. /\ IInv /\ IInv' /\ Typed /\ Typed' /\ SegmentsHold /\ Between /\ Inside
      /\ SectsBelow /\ TablesBelow /\ CurrentInStep /\ SectsInStep /\ AddressAligned
  BY NextIInv DEF HInv, IInv
<1>b. /\ loc \in Location /\ loc' \in Location /\ start \in Location /\ i \in Nat
      /\ seg \in [DOMAIN archive -> SegmentExtent] /\ archive \in Archives
      /\ PageSize \in Nat \ {0} /\ cmdsize \in Nat
  BY <1>a, SizesAssumption DEF Typed, TypeOK
<1>c. /\ loc.offset \in Nat /\ loc.vmaddr \in Nat
      /\ start.offset \in Nat /\ start.vmaddr \in Nat
      /\ loc'.offset \in Nat /\ loc'.vmaddr \in Nat
  BY <1>b, LocationFields
<1>d. \A s \in Segments : /\ s \in DOMAIN archive /\ s \in Nat \ {0}
                          /\ seg[s].fileoff \in Nat /\ seg[s].vmaddr \in Nat
                          /\ seg[s].filesize \in Int /\ seg[s].vmsize \in Int
  BY <1>a, PlacedFields DEF Segments
<1>e. /\ \A c \in sect : Begun(c.at[1]) /\ c.at[1] \in Nat /\ c.reloff \in Nat
                         /\ c.nreloc * RelocSize \in Nat
      /\ \A t \in table : /\ TableBegun(t.at[1]) /\ t.at[1] \in Nat
                          /\ t.off \in Nat /\ t.size \in Nat
  BY <1>a, PlacedFields DEF SectsInStep, TablesBelow
<1>1. CASE /\ stage \in {"count", "ids"}
           /\ stage' \in {"count", "ids", "error"} \/ (stage' = "lc" /\ i' = 1)
           /\ UNCHANGED <<archive, seg, sect, table>>
  <2>1. \A s \in Segments : ~Built(s)'
    BY <1>1, <1>d DEF Built
  <2>2. SegmentsHold'
    BY <1>1, <1>a, <2>1, HoldStays
  <2>3. table' = {}
    BY <1>1, <1>a DEF TablesBelow, TableBegun
  <2>4. Between' /\ Inside' /\ SectsBelow' /\ TablesBelow'
    BY <1>1, <1>d, <2>3 DEF Between, Inside, SectsBelow, TablesBelow, Segments
  <2>5. QED
    BY <1>a, <2>2, <2>4 DEF HInv
<1>2. CASE BuildOther
  <2>1. /\ stage = "lc" /\ stage' = "lc" /\ i' = i + 1 /\ i \notin Segments
        /\ UNCHANGED <<archive, seg, sect, table, loc>>
    BY <1>2 DEF BuildOther, Segments, LC
  <2>2. \A s \in Segments : s < i + 1 => s < i
    BY <1>b, <1>d, <2>1
  <2>3. \A s \in Segments : Built(s)' => Built(s)
    BY <2>1, <2>2 DEF Built
  <2>4. SegmentsHold'
    BY <1>a, <1>d, <2>1, <2>3, HoldStays
  <2>5. Between'
    BY <1>a, <2>1, <2>2 DEF Between, Clear, Segments
  <2>6. Inside' /\ SectsBelow' /\ TablesBelow'
    BY <1>b, <1>e, <2>1 DEF Inside, SectsBelow, TablesBelow, TableBegun
  <2>7. QED
    BY <1>a, <2>4, <2>5, <2>6 DEF HInv
<1>3. CASE BuildPagezero
  <2>1. /\ stage = "lc" /\ stage' = "lc" /\ i' = i + 1 /\ archive[i].kind = "PAGEZERO"
        /\ seg' = [seg EXCEPT ![i] = [fileoff |-> 0, filesize |-> 0,
                                     vmaddr |-> 0, vmsize |-> loc.vmaddr]]
        /\ UNCHANGED <<archive, sect, table, loc>>
    BY <1>3 DEF BuildPagezero, LC
  <2>2. i \in Segments /\ i \in DOMAIN archive
    BY <1>3, <1>a, <2>1, Reached DEF BuildPagezero, Segments, IsSegment, SegmentKinds
  <2>3. \A s \in Segments : ~(s < i)
    BY <1>b, <2>1, <2>2, SegmentOrder
  <2>4. /\ seg'[i].fileoff = 0 /\ seg'[i].filesize = 0
        /\ seg'[i].vmaddr = 0 /\ seg'[i].vmsize = loc.vmaddr
        /\ \A s \in DOMAIN archive : s # i => seg'[s] = seg[s]
    BY <1>b, <2>1, <2>2
  <2>5. \A s \in Segments : s < i + 1 => s = i
    BY <1>b, <1>d, <2>3
  <2>6. SegmentsHold'
    <3>1. \A c \in sect : c.at[1] # i
      BY <1>b, <1>e, <2>1 DEF Begun
    <3>2. \A t \in table : t.at[1] # i
      BY <1>b, <1>e, <2>1 DEF TableBegun
    <3>3. ASSUME NEW n \in Nat, n = i PROVE HoldsOne(n)'
      BY <1>c, <2>1, <2>4, <3>1, <3>2, <3>3 DEF HoldsOne
    <3>4. \A s \in Segments : s \in Nat /\ (Built(s)' => s = i) /\ ~Built(s)
      BY <1>d, <2>1, <2>3, <2>5 DEF Built
    <3>5. PICK n \in Nat : n = i
      BY <1>b
    <3>6. HoldsOne(n)'
      BY <3>3, <3>5
    <3>7. QED
      BY <1>a, <2>1, <2>3, <2>4, <3>4, <3>5, <3>6, HoldExtends
  <2>7. Between'
    BY <1>c, <2>1, <2>4, <2>5 DEF Between, Clear, Segments
  <2>8. Inside' /\ SectsBelow' /\ TablesBelow'
    BY <1>b, <1>e, <2>1 DEF Inside, SectsBelow, TablesBelow, TableBegun
  <2>9. QED
    BY <1>a, <2>6, <2>7, <2>8 DEF HInv
<1>4. CASE BeginText \/ BeginSegment \/ BeginLinkedit
  <2>1. /\ stage = "lc" /\ stage' \in {"sect", "table"} /\ i' = i
        /\ IsSegment(archive[i]) /\ i \in DOMAIN archive
        /\ archive[i].kind \in IF stage' = "sect" THEN {"TEXT", "DATA"} ELSE {"LINKEDIT"}
        /\ UNCHANGED <<archive, sect, table>>
    BY <1>4, <1>a, Reached
       DEF BeginText, BeginSegment, BeginLinkedit, IsSegment, SegmentKinds, LC
  <2>2. i \in Segments
    BY <2>1 DEF Segments
  <2>3. \A s \in DOMAIN archive : s # i => seg'[s] = seg[s]
    BY <1>4, <1>b DEF BeginText, BeginSegment, BeginLinkedit
  <2>4. \A s \in Segments : s < i =>
           /\ Clear(s, seg'[i].fileoff, seg'[i].vmaddr)
           /\ archive[s].kind = "PAGEZERO" => Clear(s, 0, seg'[i].vmaddr)
    <3> SUFFICES ASSUME NEW s \in Segments, s < i
                 PROVE  /\ Clear(s, seg'[i].fileoff, seg'[i].vmaddr)
                        /\ archive[s].kind = "PAGEZERO" => Clear(s, 0, seg'[i].vmaddr)
      OBVIOUS
    <3>1. archive[s].kind # "LINKEDIT"
      BY <1>b, <2>2, SegmentOrder
    <3>2. /\ Clear(s, loc.offset, loc.vmaddr)
          /\ archive[s].kind = "PAGEZERO" => Clear(s, 0, loc.vmaddr)
      BY <1>a, <2>1, <3>1 DEF Between
    <3>3. CASE BeginText
      <4>1. archive[s].kind = "PAGEZERO"
        BY <1>b, <2>2, <3>3, SegmentOrder DEF BeginText, LC
      <4>2. /\ seg'[i].fileoff = TextOffset /\ seg'[i].vmaddr = AlignUp(loc.vmaddr, PageSize)
        BY <1>b, <2>1, <3>3 DEF BeginText, SegmentExtent
      <4>3. /\ TextOffset \in Nat /\ AlignUp(loc.vmaddr, PageSize) \in Nat
            /\ loc.vmaddr <= AlignUp(loc.vmaddr, PageSize)
        BY <1>b, <1>c, AlignUpFacts, AlignDownFacts DEF TextOffset
      <4>4. QED
        BY <1>c, <1>d, <3>2, <4>1, <4>2, <4>3 DEF Clear
    <3>4. CASE BeginSegment \/ BeginLinkedit
      <4>1. /\ seg'[i].fileoff = AlignUp(loc.offset, PageSize)
            /\ seg'[i].vmaddr = AlignUp(loc.vmaddr, PageSize)
        BY <1>b, <2>1, <3>4 DEF BeginSegment, BeginLinkedit, SegmentExtent, Align
      <4>2. /\ AlignUp(loc.offset, PageSize) \in Nat /\ AlignUp(loc.vmaddr, PageSize) \in Nat
            /\ loc.offset <= AlignUp(loc.offset, PageSize)
            /\ loc.vmaddr <= AlignUp(loc.vmaddr, PageSize)
        BY <1>b, <1>c, AlignUpFacts
      <4>3. QED
        BY <1>c, <1>d, <3>2, <4>1, <4>2 DEF Clear
    <3>5. QED
      BY <1>4, <3>3, <3>4
  <2>5. seg'[i].fileoff <= loc'.offset
    <3>1. CASE BeginText
      <4>1. seg'[i].fileoff = TextOffset /\ loc'.offset = loc.offset
        BY <1>b, <2>1, <3>1 DEF BeginText, SegmentExtent, Location
      <4>2. TextOffset \in Nat /\ TextOffset <= loc.offset
        BY <1>b, <1>c, AlignDownFacts DEF TextOffset
      <4>3. QED
        BY <4>1, <4>2
    <3>2. CASE BeginSegment \/ BeginLinkedit
      <4>1. seg'[i].fileoff = loc'.offset
        BY <1>b, <2>1, <3>2 DEF BeginSegment, BeginLinkedit, SegmentExtent
      <4>2. QED
        BY <1>c, <4>1
    <3>3. QED
      BY <1>4, <3>1, <3>2
  <2>6. stage' = "table" => seg'[i].vmaddr <= loc'.vmaddr
    <3>1. stage' = "table" => seg'[i].vmaddr = loc'.vmaddr
      BY <1>4, <1>b, <2>1 DEF BeginText, BeginSegment, BeginLinkedit, SegmentExtent
    <3>2. QED
      BY <1>c, <3>1
  <2>7. SegmentsHold'
    <3>1. \A s \in Segments : Built(s)' => Built(s) /\ s # i
      BY <1>b, <1>d, <2>1 DEF Built
    <3>2. \A s \in Segments : s # i => seg'[s] = seg[s]
      BY <1>d, <2>3
    <3>3. QED
      BY <1>a, <2>1, <3>1, <3>2, HoldStays
  <2>8. Inside'
    <3>1. \A s \in Segments : s < i => seg'[s] = seg[s]
      BY <1>b, <1>d, <2>3
    <3>2. QED
      BY <2>6, <2>1, <2>4, <2>5, <3>1 DEF Inside, Clear, LC, Segments
  <2>9. TablesBelow' /\ SectsBelow' /\ Between'
    BY <1>b, <1>e, <2>1 DEF TablesBelow, SectsBelow, Between, TableBegun, Begun
  <2>10. QED
    BY <1>a, <2>7, <2>8, <2>9 DEF HInv
<1>5. CASE BeginSection \/ PlaceBlob
  <2>1. /\ stage \in {"sect", "blob"} /\ stage' = "blob" /\ i' = i /\ i \in DOMAIN archive
        /\ UNCHANGED <<archive, seg, sect, table>>
    BY <1>5, <1>a DEF BeginSection, PlaceBlob, Typed, Cursor
  <2>2. loc.offset <= loc'.offset
    <3>1. CASE BeginSection
      <4>1. LC.sects[j].align \in Nat \ {0}
        BY <1>a, <3>1, Reached, SectParts DEF BeginSection
      <4>2. loc'.offset = AlignUp(loc.offset, LC.sects[j].align)
        BY <3>1 DEF BeginSection, Align
      <4>3. QED
        BY <1>c, <4>1, <4>2, AlignUpFacts
    <3>2. CASE PlaceBlob
      <4>1. PICK n \in Nat : loc'.offset = loc.offset + n
        BY <1>a, <3>2, Reached, BuiltSizeType DEF PlaceBlob, Advance
      <4>2. QED
        BY <1>c, <4>1
    <3>3. QED
      BY <1>5, <3>1, <3>2
  <2>3. SegmentsHold'
    <3>1. \A s \in Segments : Built(s)' => Built(s) /\ s # i
      BY <1>b, <1>d, <2>1 DEF Built
    <3>2. QED
      BY <1>a, <2>1, <3>1, HoldStays
  <2>4. Inside'
    <3>1. seg[i].fileoff \in Nat
      BY <1>b, <2>1, ExtentFields
    <3>2. QED
      BY <1>a, <1>c, <2>1, <2>2, <3>1 DEF Inside, Clear, LC, Segments
  <2>5. SectsBelow'
    BY <1>a, <1>c, <1>e, <2>1, <2>2 DEF SectsBelow
  <2>6. TablesBelow' /\ Between'
    BY <1>e, <2>1 DEF TablesBelow, TableBegun, Between
  <2>7. QED
    BY <1>a, <2>3, <2>4, <2>5, <2>6 DEF HInv
<1>6. CASE EndSection
  <2> DEFINE n == LC.sects[j].nreloc
             new == [at |-> <<i, j>>, loc |-> start, size |-> loc.offset - start.offset,
                     reloff |-> loc.offset, nreloc |-> n]
  <2>1. /\ stage = "blob" /\ stage' = "sect" /\ i' = i /\ i \in DOMAIN archive
        /\ UNCHANGED <<archive, seg, table>> /\ sect' = sect \cup {new}
        /\ loc'.offset = loc.offset + n * RelocSize
    BY <1>6, <1>a DEF EndSection, Advance, Typed, Cursor
  <2>2. n * RelocSize \in Nat
    <3>1. n \in Nat /\ RelocSize \in Nat
      BY <1>6, <1>a, Reached, SectParts, SizesAssumption DEF EndSection
    <3>2. QED
      BY <3>1
  <2>3. new.at[1] = i /\ new.reloff + new.nreloc * RelocSize = loc'.offset
    BY <2>1
  <2> HIDE DEF new
  <2>4. SegmentsHold'
    <3>1. \A s \in Segments : Built(s)' => Built(s) /\ s # i
      BY <1>b, <1>d, <2>1 DEF Built
    <3>2. \A c \in sect' : c \in sect \/ c.at[1] = i
      BY <2>1, <2>3
    <3>3. QED
      BY <1>a, <2>1, <3>1, <3>2, HoldStays
  <2>5. loc.offset <= loc'.offset
    BY <1>c, <2>1, <2>2
  <2>6. Inside'
    <3>1. seg[i].fileoff \in Nat
      BY <1>b, <2>1, ExtentFields
    <3>2. QED
      BY <1>a, <1>c, <2>1, <2>5, <3>1 DEF Inside, Clear, LC, Segments
  <2>7. SectsBelow'
    <3>1. ASSUME NEW c \in sect', c.at[1] = i PROVE c.reloff + c.nreloc * RelocSize <= loc'.offset
      <4>1. CASE c \in sect
        BY <1>a, <1>c, <1>e, <2>1, <2>5, <3>1, <4>1 DEF SectsBelow
      <4>2. CASE c = new
        BY <1>c, <2>3, <4>2
      <4>3. QED
        BY <2>1, <4>1, <4>2
    <3>2. QED
      BY <2>1, <3>1 DEF SectsBelow
  <2>8. TablesBelow' /\ Between'
    BY <1>e, <2>1 DEF TablesBelow, TableBegun, Between
  <2>9. QED
    BY <1>a, <2>4, <2>6, <2>7, <2>8 DEF HInv
<1>7. CASE EndSegment
  <2> DEFINE f == seg[i].fileoff
             v == seg[i].vmaddr
             o == AlignUp(loc.offset, PageSize)
             w == AlignUp(loc.vmaddr, PageSize)
  <2>1. /\ stage = "sect" /\ stage' = "lc" /\ i' = i + 1 /\ i \in DOMAIN archive
        /\ UNCHANGED <<archive, sect, table>>
        /\ loc' = [offset |-> o, vmaddr |-> w]
        /\ seg' = [seg EXCEPT ![i].filesize = loc'.offset - f,
                             ![i].vmsize = AlignUp(loc'.vmaddr - v, PageSize)]
    BY <1>7, <1>a DEF EndSegment, SegmentEnd, Align, FileSize, Typed, Cursor
  <2>2. LC.kind \in {"TEXT", "DATA"} /\ i \in Segments
    BY <1>a, <2>1 DEF Inside, LC, Segments, IsSegment, SegmentKinds
  <2>3. /\ f \in Nat /\ v \in Nat /\ f % PageSize = 0 /\ v % PageSize = 0
        /\ f <= loc.offset /\ loc.offset - f = loc.vmaddr - v
    BY <1>a, <1>b, <2>1, ExtentFields DEF CurrentInStep, InStepAt
  <2>4. /\ o \in Nat /\ w \in Nat /\ loc.offset <= o /\ o - f = w - v
        /\ AlignUp(w - v, PageSize) = w - v
    <3>1. o = Align(loc, PageSize).offset /\ w = Align(loc, PageSize).vmaddr
      BY DEF Align
    <3> HIDE DEF f, v, o, w
    <3>2. QED
      BY <1>b, <2>3, <3>1, EndOnPages
  <2>5. /\ seg'[i].fileoff = f /\ seg'[i].vmaddr = v
        /\ seg'[i].filesize = o - f /\ seg'[i].vmsize = w - v
        /\ \A s \in DOMAIN archive : s # i => seg'[s] = seg[s]
    <3>1. seg' = [seg EXCEPT ![i].filesize = o - f, ![i].vmsize = w - v]
      BY <2>1, <2>4
    <3>2. seg[i] \in SegmentExtent
      BY <1>b, <2>1
    <3> HIDE DEF o, w
    <3>3. QED
      BY <1>b, <2>1, <3>1, <3>2 DEF SegmentExtent
  <2>6. \A s \in Segments : s < i =>
           Clear(s, f, v) /\ (archive[s].kind = "PAGEZERO" => Clear(s, 0, v))
    BY <1>a, <2>1 DEF Inside
  <2> HIDE DEF f, v, o, w
  <2>7. SegmentsHold'
    <3>1. ASSUME NEW n \in Nat, n = i PROVE HoldsOne(n)'
      <4>1. \A t \in table : t.at[1] # i
        BY <1>b, <1>e, <2>1 DEF TableBegun
      <4>2. ASSUME NEW c \in sect, c.at[1] = i
            PROVE  f <= c.loc.offset /\ c.reloff + c.nreloc * RelocSize <= o
        <5>1. f <= c.loc.offset
          BY <1>a, <4>2 DEF SectsInStep, InStepAt, f
        <5>2. c.reloff + c.nreloc * RelocSize <= loc.offset
          BY <1>a, <2>1, <4>2 DEF SectsBelow
        <5>3. QED
          BY <1>c, <1>e, <2>4, <5>1, <5>2
      <4>3. f + (o - f) = o
        BY <2>3, <2>4
      <4>4. /\ seg'[n].filesize <= seg'[n].vmsize
            /\ seg'[n].fileoff = f /\ seg'[n].fileoff + seg'[n].filesize = o
        <5>1. o - f <= w - v
          BY <2>3, <2>4
        <5>2. QED
          BY <2>5, <3>1, <4>3, <5>1
      <4>5. QED
        BY <2>1, <3>1, <4>1, <4>2, <4>4 DEF HoldsOne
    <3>2. PICK n \in Nat : n = i
      BY <1>b
    <3>3. HoldsOne(n)'
      BY <3>1, <3>2
    <3>4. \A s \in Segments : s \in Nat /\ (Built(s)' => Built(s) \/ s = n)
      BY <1>b, <1>d, <2>1, <3>2 DEF Built
    <3>5. \A s \in Segments : Built(s) => s < n
      BY <2>1, <3>2 DEF Built
    <3>6. QED
      BY <1>a, <2>1, <2>5, <2>6, <3>2, <3>3, <3>4, <3>5, HoldExtends
  <2>8. Between'
    <3> SUFFICES ASSUME NEW s \in Segments, s < i + 1
                 PROVE  /\ Clear(s, loc.offset, loc.vmaddr)'
                        /\ archive[s].kind = "PAGEZERO" => Clear(s, 0, loc.vmaddr)'
      BY <2>1 DEF Between, Segments
    <3>1. loc'.offset = o /\ loc'.vmaddr = w
      BY <2>1
    <3>2. CASE s = i
      <4>1. archive[s].kind # "PAGEZERO"
        BY <2>2, <3>2 DEF LC
      <4>2. seg'[s].vmaddr + seg'[s].vmsize <= w /\ seg'[s].fileoff + seg'[s].filesize <= o
        BY <2>3, <2>4, <2>5, <3>2
      <4>3. QED
        BY <3>1, <4>1, <4>2 DEF Clear
    <3>3. CASE s # i
      <4>1. s < i /\ seg'[s] = seg[s]
        BY <1>b, <1>d, <2>5, <3>3
      <4>2. Clear(s, f, v)
        BY <2>6, <4>1
      <4>3. /\ seg[s].vmaddr + seg[s].vmsize <= w
            /\ seg[s].fileoff + seg[s].filesize <= o
        <5>1. /\ seg[s].vmaddr + seg[s].vmsize <= v /\ seg[s].fileoff + seg[s].filesize <= f
          BY <4>2 DEF Clear
        <5>2. v <= w /\ f <= o
          BY <1>c, <2>3, <2>4
        <5>3. QED
          BY <1>d, <2>3, <2>4, <5>1, <5>2
      <4>4. archive[s].kind = "PAGEZERO" => seg[s].fileoff + seg[s].filesize <= 0
        BY <2>6, <4>1 DEF Clear
      <4>5. QED
        BY <3>1, <4>1, <4>3, <4>4 DEF Clear
    <3>4. QED
      BY <3>2, <3>3
  <2>9. Inside' /\ SectsBelow' /\ TablesBelow'
    BY <1>b, <1>e, <2>1 DEF Inside, SectsBelow, TablesBelow, TableBegun
  <2>10. QED
    BY <1>a, <2>7, <2>8, <2>9 DEF HInv
<1>8. CASE SizeNode \/ IndexNode \/ TableDone
  <2>1. /\ stage \in {"table", "index"} /\ stage' \in {"table", "index"} /\ i' = i
        /\ UNCHANGED <<archive, seg, sect, table, loc>>
    BY <1>8 DEF SizeNode, IndexNode, TableDone
  <2>2. SegmentsHold'
    <3>1. \A s \in Segments : Built(s)' => Built(s) /\ s # i
      BY <1>b, <1>d, <2>1 DEF Built
    <3>2. QED
      BY <1>a, <2>1, <3>1, HoldStays
  <2>3. Inside' /\ SectsBelow' /\ TablesBelow' /\ Between'
    BY <1>a, <2>1 DEF Inside, Clear, LC, Segments, SectsBelow, TablesBelow, TableBegun, Between
  <2>4. QED
    BY <1>a, <2>2, <2>3 DEF HInv
<1>9. CASE AllocateTable
  <2> DEFINE n == TableSize(LC.tables[j], acc)
             new == [at |-> <<i, j>>, off |-> loc.offset, size |-> n]
  <2>1. /\ stage = "table" /\ stage' = "index" /\ i' = i /\ i \in DOMAIN archive
        /\ UNCHANGED <<archive, seg, sect>> /\ table' = table \cup {new}
        /\ loc' = [loc EXCEPT !.offset = @ + n]
    BY <1>9, <1>a DEF AllocateTable, Typed, Cursor
  <2>2. n \in Nat
    BY <1>a, TableSizeType DEF Typed, TypeOK
  <2>3. new.at[1] = i /\ new.off = loc.offset /\ new.size = n
    OBVIOUS
  <2> HIDE DEF n, new
  <2>4. loc'.offset = loc.offset + n /\ loc.offset <= loc'.offset
    BY <1>b, <1>c, <2>1, <2>2 DEF Location
  <2>5. seg[i].fileoff \in Nat /\ seg[i].fileoff <= loc.offset
    BY <1>a, <1>b, <2>1, ExtentFields DEF Inside
  <2>6. SegmentsHold'
    <3>1. \A s \in Segments : Built(s)' => Built(s) /\ s # i
      BY <1>b, <1>d, <2>1 DEF Built
    <3>2. \A t \in table' : t \in table \/ t.at[1] = i
      BY <2>1, <2>3
    <3>3. QED
      BY <1>a, <2>1, <3>1, <3>2, HoldStays
  <2>7. Inside'
    <3>1. loc'.vmaddr = loc.vmaddr
      BY <1>b, <2>1 DEF Location
    <3>2. QED
      BY <1>a, <1>c, <2>1, <2>4, <2>5, <3>1 DEF Inside, Clear, LC, Segments
  <2>8. TablesBelow'
    <3> SUFFICES ASSUME NEW t \in table'
                 PROVE  /\ TableBegun(t.at[1])'
                        /\ t.at[1] = i => seg[i].fileoff <= t.off /\ t.off + t.size <= loc'.offset
      BY <2>1 DEF TablesBelow
    <3>1. CASE t \in table
      BY <1>a, <1>c, <1>e, <2>1, <2>4, <3>1 DEF TablesBelow, TableBegun
    <3>2. CASE t = new
      BY <1>c, <2>1, <2>2, <2>3, <2>4, <2>5, <3>2 DEF TableBegun
    <3>3. QED
      BY <2>1, <3>1, <3>2
  <2>9. SectsBelow' /\ Between'
    BY <2>1 DEF SectsBelow, Between
  <2>10. QED
    BY <1>a, <2>6, <2>7, <2>8, <2>9 DEF HInv
<1>10. CASE EndLinkedit
  <2> DEFINE f == seg[i].fileoff
             v == seg[i].vmaddr
             m == AlignUp(loc.offset - f, PageSize)
  <2>1. /\ stage = "table" /\ stage' = "lc" /\ i' = i + 1 /\ i \in DOMAIN archive
        /\ UNCHANGED <<archive, sect, table>>
        /\ loc' = [loc EXCEPT !.vmaddr = AlignUp(loc.vmaddr, PageSize)]
        /\ seg' = [seg EXCEPT ![i].filesize = loc.offset - f, ![i].vmsize = m]
    BY <1>10, <1>a DEF EndLinkedit, FileSize, Typed, Cursor
  <2>2. archive[i].kind = "LINKEDIT" /\ i \in Segments
    BY <1>a, <2>1 DEF Inside, LC, Segments, IsSegment, SegmentKinds
  <2>3. f \in Nat /\ v \in Nat /\ f <= loc.offset /\ loc.offset - f \in Nat
    BY <1>a, <1>b, <1>c, <2>1, ExtentFields DEF Inside
  <2>4. m \in Nat /\ loc.offset - f <= m
    BY <1>b, <2>3, AlignUpFacts
  <2>5. /\ seg'[i].fileoff = f /\ seg'[i].vmaddr = v
        /\ seg'[i].filesize = loc.offset - f /\ seg'[i].vmsize = m
        /\ \A s \in DOMAIN archive : s # i => seg'[s] = seg[s]
    <3>1. seg[i] \in SegmentExtent
      BY <1>b, <2>1
    <3> HIDE DEF m
    <3>2. QED
      BY <1>b, <2>1, <3>1 DEF SegmentExtent
  <2>6. \A s \in Segments : s < i =>
           Clear(s, f, v) /\ (archive[s].kind = "PAGEZERO" => Clear(s, 0, v))
    BY <1>a, <2>1 DEF Inside
  <2>7. loc'.offset = loc.offset /\ loc'.vmaddr = AlignUp(loc.vmaddr, PageSize)
    BY <1>b, <2>1 DEF Location
  <2> HIDE DEF f, v, m
  <2>8. SegmentsHold'
    <3>1. ASSUME NEW n \in Nat, n = i PROVE HoldsOne(n)'
      <4>1. \A c \in sect : c.at[1] # i
        BY <1>b, <1>e, <2>1 DEF Begun
      <4>2. ASSUME NEW t \in table, t.at[1] = i
            PROVE  f <= t.off /\ t.off + t.size <= loc.offset
        BY <1>a, <2>1, <4>2 DEF TablesBelow, f
      <4>3. f + (loc.offset - f) = loc.offset
        BY <1>c, <2>3
      <4>4. /\ seg'[n].filesize <= seg'[n].vmsize
            /\ seg'[n].fileoff = f /\ seg'[n].fileoff + seg'[n].filesize = loc.offset
        BY <2>4, <2>5, <3>1, <4>3
      <4>5. QED
        BY <2>1, <3>1, <4>1, <4>2, <4>4 DEF HoldsOne
    <3>2. PICK n \in Nat : n = i
      BY <1>b
    <3>3. HoldsOne(n)'
      BY <3>1, <3>2
    <3>4. \A s \in Segments : s \in Nat /\ (Built(s)' => Built(s) \/ s = n)
      BY <1>b, <1>d, <2>1, <3>2 DEF Built
    <3>5. \A s \in Segments : Built(s) => s < n
      BY <2>1, <3>2 DEF Built
    <3>6. QED
      BY <1>a, <2>1, <2>5, <2>6, <3>2, <3>3, <3>4, <3>5, HoldExtends
  <2>9. Between'
    <3> SUFFICES ASSUME NEW s \in Segments, s < i + 1, archive[s].kind # "LINKEDIT"
                 PROVE  /\ Clear(s, loc.offset, loc.vmaddr)'
                        /\ archive[s].kind = "PAGEZERO" => Clear(s, 0, loc.vmaddr)'
      BY <2>1, <2>2 DEF Between, Segments
    <3>1. s < i /\ seg'[s] = seg[s]
      <4>1. s # i
        BY <2>2
      <4>2. s \in Nat /\ i \in Nat
        BY <1>b, <1>d
      <4>3. seg'[s] = seg[s]
        BY <1>b, <2>5, <4>1 DEF Segments
      <4>4. QED
        BY <4>1, <4>2, <4>3
    <3>2. Clear(s, f, v) /\ (archive[s].kind = "PAGEZERO" => Clear(s, 0, v))
      BY <2>6, <3>1
    <3>3. f <= loc'.offset /\ v <= loc'.vmaddr
      <4>1. v <= loc.vmaddr
        BY <1>a, <2>1 DEF Inside, v
      <4>2. loc.vmaddr <= AlignUp(loc.vmaddr, PageSize) /\ AlignUp(loc.vmaddr, PageSize) \in Nat
        BY <1>b, <1>c, AlignUpFacts
      <4>3. QED
        BY <1>c, <2>3, <2>7, <4>1, <4>2
    <3>4. QED
      BY <1>c, <1>d, <2>3, <3>1, <3>2, <3>3 DEF Clear
  <2>10. Inside' /\ SectsBelow' /\ TablesBelow'
    BY <1>b, <1>e, <2>1 DEF Inside, SectsBelow, TablesBelow, TableBegun
  <2>11. QED
    BY <1>a, <2>8, <2>9, <2>10 DEF HInv
<1>11. CASE BuildDone
  <2>1. /\ stage = "lc" /\ stage' = "built" /\ i' = i /\ i > Len(archive)
        /\ UNCHANGED <<archive, seg, sect, table>>
    BY <1>11 DEF BuildDone
  <2>2. \A s \in Segments : s < i
    BY <1>b, <1>d, <2>1, Commands
  <2>3. SegmentsHold'
    <3>1. \A s \in Segments : Built(s)' => Built(s) /\ s # i
      BY <1>b, <1>d, <2>1, <2>2 DEF Built
    <3>2. QED
      BY <1>a, <2>1, <3>1, HoldStays
  <2>4. Inside' /\ SectsBelow' /\ TablesBelow' /\ Between'
    BY <1>e, <2>1 DEF Inside, SectsBelow, TablesBelow, TableBegun, Between
  <2>5. QED
    BY <1>a, <2>3, <2>4 DEF HInv
<1>12. CASE UNCHANGED vars
  <2>1. SegmentsHold'
    <3>1. \A s \in Segments : Built(s)' => Built(s) /\ s # 0
      BY <1>12, <1>d DEF vars, Built, Segments
    <3>2. QED
      BY <1>12, <1>a, <3>1, HoldStays DEF vars
  <2>2. Inside' /\ SectsBelow' /\ TablesBelow' /\ Between'
    BY <1>12, <1>a DEF vars, Inside, Clear, LC, Segments, SectsBelow, TablesBelow, TableBegun, Between
  <2>3. QED
    BY <1>a, <2>1, <2>2 DEF HInv
<1>13. QED
  <2>1. CASE \/ CountCommand \/ AllocateCommands
             \/ AssignSegmentID \/ AssignDylibID \/ AssignNoID \/ IDsAssigned
    BY <1>1, <2>1 DEF CountCommand, AllocateCommands, AssignSegmentID, AssignDylibID,
       AssignNoID, IDsAssigned
  <2>2. QED
    BY <1>2, <1>3, <1>4, <1>5, <1>6, <1>7, <1>8, <1>9, <1>10, <1>11, <1>12, <2>1 DEF Next

LEMMA HoldInvariance == Spec => []HInv
BY InitHInv, NextHInv, PTL DEF Spec

(* Whatever the archive, no two segments that have been built share a byte *)
(* of the file or an address, and each holds, within its part of the file  *)
(* and of memory, the sections, relocations and tables it was given.       *)
THEOREM SegmentsHoldTheirOwn == Spec => []SegmentsHold
<1>1. HInv => SegmentsHold
  BY DEF HInv
<1>2. QED
  BY HoldInvariance, <1>1, PTL

-----------------------------------------------------------------------------
(* What the build pass leaves behind for the emit pass: every section,     *)
(* blob and table of the archive in one place and one only, the blobs of a *)
(* section one after another, the tables as long as the opcodes that were  *)
(* counted, and the load commands as long as sizeofcmds.  Recursive sums   *)
(* are out of the provers' reach; a partial sum is a function that every   *)
(* step of the loop extends.                                               *)

Building == stage \in {"lc", "sect", "blob", "table", "index"}

(* Section y of command x, or its blob z, has been built.                  *)
SectIn(x, y) ==
  \/ stage = "built"
  \/ Building /\ (x < i \/ (x = i /\ stage \in {"sect", "blob"} /\ y < j))
BlobIn(x, y, z) == SectIn(x, y) \/ (stage = "blob" /\ x = i /\ y = j /\ z < k)

Slot(x, y) == x \in DOMAIN archive /\ y \in DOMAIN archive[x].sects

Known == /\ \A b \in blob : Slot(b.at[1], b.at[2]) /\ BlobIn(b.at[1], b.at[2], b.at[3])
         /\ \A c \in sect : Slot(c.at[1], c.at[2]) /\ SectIn(c.at[1], c.at[2])
Once == /\ \A b, c \in blob : b.at = c.at => b = c
        /\ \A c, d \in sect : c.at = d.at => c = d
There == \A x, y : Slot(x, y) /\ SectIn(x, y) => \E c \in sect : c.at = <<x, y>>

(* Blob z of a section that starts at offset o belongs at offset v.        *)
Follows(x, y, z, o, v) ==
  IF z = 1 THEN v = o
  ELSE \E b \in blob : b.at = <<x, y, z - 1>> /\ v = b.loc.offset + b.size

(* The first n blobs of a section fill the file from offset o to offset e. *)
Run(x, y, n, o, e) ==
  /\ o <= e /\ Follows(x, y, n + 1, o, e)
  /\ \A z \in 1..n : \E b \in blob :
       /\ b.at = <<x, y, z>> /\ b.size = BuiltSize(archive[x].sects[y].blobs[z])
       /\ Follows(x, y, z, o, b.loc.offset)
       /\ o <= b.loc.offset /\ b.loc.offset + b.size <= e

LaidOut ==
  \A c \in sect :
    LET s == archive[c.at[1]].sects[c.at[2]] IN
    c.nreloc = s.nreloc /\ Run(c.at[1], c.at[2], Len(s.blobs), c.loc.offset, c.reloff)
Running ==
  stage = "blob" => k <= Len(LC.sects[j].blobs) + 1 /\ Run(i, j, k - 1, start.offset, loc.offset)

SectEnd(c) == c.reloff + c.nreloc * RelocSize
InOrder == \A c, d \in sect : c.at[1] = d.at[1] /\ c.at[2] < d.at[2] => SectEnd(c) <= d.loc.offset
StartBehind == stage = "blob" => \A c \in sect : c.at[1] = i => SectEnd(c) <= start.offset

(* Nothing is placed over the load commands.                               *)
AboveCommands ==
  LET low == HeaderSize + cmdsize IN
  /\ stage = "count" => loc.offset = HeaderSize
  /\ stage = "ids" \/ Building => low <= loc.offset
  /\ stage = "blob" => low <= start.offset
  /\ \A c \in sect : low <= c.loc.offset
  /\ \A t \in table : low <= t.off

(* f[z] is the sum of the first z elements of s.                           *)
PartialSums(s, n, f) ==
  /\ f \in [0..n -> Nat] /\ f[0] = 0
  /\ \A z \in 1..n : f[z] = f[z - 1] + s[z] /\ f[z] <= f[n]

(* sizeofcmds counts every load command.                                   *)
CmdSizes == [x \in DOMAIN archive |-> CmdSize(archive[x])]
CommandsCounted ==
  /\ stage = "count" =>
       i <= Len(archive) + 1 /\ \E f : PartialSums(CmdSizes, i - 1, f) /\ cmdsize = f[i - 1]
  /\ stage # "count" =>
       \E f : PartialSums(CmdSizes, Len(archive), f) /\ cmdsize = f[Len(archive)]

(* Table y of command x, and whether it has been allocated.                *)
TabSlot(x, y) == x \in DOMAIN archive /\ y \in DOMAIN archive[x].tables
TabIn(x, y) ==
  \/ stage = "built"
  \/ Building /\ \/ x < i
                 \/ x = i /\ ((stage = "table" /\ y < j) \/ (stage = "index" /\ y <= j))

TablesKnown == \A t \in table : TabSlot(t.at[1], t.at[2]) /\ TabIn(t.at[1], t.at[2])
TablesOnce == \A t, u \in table : t.at = u.at => t = u
TablesThere == \A x, y : TabSlot(x, y) /\ TabIn(x, y) => \E t \in table : t.at = <<x, y>>
TablesInOrder == \A t, u \in table : t.at[1] = u.at[1] /\ t.at[2] < u.at[2] => t.off + t.size <= u.off
IndexKnown == \A e \in index : \E t \in table : t.at = <<e.at[1], e.at[2]>>

(* A table is as long as the sizes of its nodes say, and the index of a    *)
(* lazy node is the size of those before it.                               *)
Sizes(x, y) == LET nodes == archive[x].tables[y].nodes IN [z \in DOMAIN nodes |-> NodeSize(nodes[z])]
Counted(t, f) ==
  LET tab == archive[t.at[1]].tables[t.at[2]]
      n == Len(tab.nodes)
  IN /\ PartialSums(Sizes(t.at[1], t.at[2]), n, f) /\ t.size = TableSize(tab, f[n])
     /\ \A e \in index : e.at[1] = t.at[1] /\ e.at[2] = t.at[2] =>
          e.at[3] \in 1..n /\ e.index = f[e.at[3] - 1]
Indexing(t, f) ==
  LET tab == archive[t.at[1]].tables[t.at[2]] IN
  stage = "index" /\ t.at = <<i, j>> /\ tab.kind = "lazy" =>
    k <= Len(tab.nodes) + 1 /\ ids.lazy = f[k - 1]
TablesCounted == \A t \in table : \E f : Counted(t, f) /\ Indexing(t, f)

Counting ==
  /\ stage = "table" /\ j <= Len(LC.tables) =>
       /\ k <= Len(LC.tables[j].nodes) + 1
       /\ \E f : PartialSums(Sizes(i, j), k - 1, f) /\ acc = f[k - 1]
  /\ stage = "index" => acc = 0
NoLazyYet ==
  (\A t \in table : archive[t.at[1]].tables[t.at[2]].kind # "lazy") => ids.lazy = 0

TablesPlaced == /\ TablesKnown /\ TablesOnce /\ TablesThere /\ TablesInOrder /\ IndexKnown
                /\ TablesCounted /\ NoLazyYet

SectionsPlaced == /\ Known /\ Once /\ There /\ LaidOut /\ Running /\ InOrder /\ StartBehind

PInv == /\ HInv /\ RInv /\ SectionsPlaced /\ CommandsCounted /\ AboveCommands
        /\ TablesPlaced /\ Counting

-----------------------------------------------------------------------------
(* Sections and blobs.                                                     *)

LEMMA PairParts ==
  ASSUME NEW p \in Nat \X Nat PROVE p[1] \in Nat /\ p[2] \in Nat /\ p = <<p[1], p[2]>>
OBVIOUS

LEMMA TripleParts ==
  ASSUME NEW p \in Nat \X Nat \X Nat
  PROVE  p[1] \in Nat /\ p[2] \in Nat /\ p[3] \in Nat /\ p = <<p[1], p[2], p[3]>>
OBVIOUS

(* A section that is asked about has a positive number.                    *)
LEMMA SlotParts ==
  ASSUME archive \in Archives, NEW x, NEW y, Slot(x, y)
  PROVE  /\ x \in Nat \ {0} /\ x <= Len(archive) /\ archive[x] \in LoadCommand
         /\ y \in Nat \ {0} /\ y <= Len(archive[x].sects)
         /\ archive[x].sects[y] \in Sect
         /\ archive[x].kind \in {"TEXT", "DATA"}
<1>1. /\ x \in DOMAIN archive /\ y \in DOMAIN archive[x].sects
      /\ Len(archive) \in Nat /\ DOMAIN archive = 1..Len(archive) /\ archive[x] \in LoadCommand
  BY Commands DEF Slot
<1>2. /\ Len(archive[x].sects) \in Nat /\ DOMAIN archive[x].sects = 1..Len(archive[x].sects)
      /\ archive[x].sects[y] \in Sect
  BY <1>1, CommandParts
<1>3. archive[x].sects # <<>>
  BY <1>1
<1>4. archive[x].kind \in {"TEXT", "DATA"}
  BY <1>1, <1>3, ArchivesAssumption DEF WellFormed
<1>5. QED
  BY <1>1, <1>2, <1>4

(* A run stays what it was when blobs are added.                           *)
LEMMA RunStays ==
  ASSUME UNCHANGED archive, blob \subseteq blob',
         NEW x, NEW y, NEW n, NEW o, NEW e, Run(x, y, n, o, e)
  PROVE  Run(x, y, n, o, e)'
<1>1. \A z, v : Follows(x, y, z, o, v) => Follows(x, y, z, o, v)'
  BY DEF Follows
<1>2. QED
  BY <1>1 DEF Run

(* The next blob makes the run longer.                                     *)
LEMMA RunExtends ==
  ASSUME UNCHANGED archive, NEW b, blob' = blob \cup {b}, NEW x, NEW y, NEW n \in Nat,
         NEW o \in Nat, NEW e \in Nat, Run(x, y, n, o, e),
         \A c \in blob : c.loc.offset \in Nat /\ c.size \in Nat,
         b.at = <<x, y, n + 1>>, b.loc.offset = e, b.size \in Nat,
         b.size = BuiltSize(archive[x].sects[y].blobs[n + 1])
  PROVE  Run(x, y, n + 1, o, e + b.size)'
<1>1. Run(x, y, n, o, e)'
  BY RunStays
<1>2. o <= e /\ o <= e + b.size /\ e <= e + b.size
  BY DEF Run
<1>3. Follows(x, y, n + 1 + 1, o, e + b.size)'
  <2>1. n + 1 + 1 # 1 /\ n + 1 + 1 - 1 = n + 1
    OBVIOUS
  <2>2. QED
    BY <2>1 DEF Follows
<1>4. ASSUME NEW z \in 1..(n + 1)
      PROVE  \E c \in blob' :
               /\ c.at = <<x, y, z>> /\ c.size = BuiltSize(archive'[x].sects[y].blobs[z])
               /\ Follows(x, y, z, o, c.loc.offset)'
               /\ o <= c.loc.offset /\ c.loc.offset + c.size <= e + b.size
  <2>1. CASE z = n + 1
    <3>1. Follows(x, y, n + 1, o, e)'
      BY <1>1 DEF Run
    <3>2. QED
      BY <1>2, <2>1, <3>1
  <2>2. CASE z # n + 1
    <3>1. z \in 1..n
      BY <2>2
    <3>2. PICK c \in blob :
            /\ c.at = <<x, y, z>> /\ c.size = BuiltSize(archive[x].sects[y].blobs[z])
            /\ Follows(x, y, z, o, c.loc.offset)
            /\ o <= c.loc.offset /\ c.loc.offset + c.size <= e
      BY <3>1 DEF Run
    <3>3. Follows(x, y, z, o, c.loc.offset)'
      BY <3>2 DEF Follows
    <3>4. c.loc.offset + c.size <= e + b.size
      BY <3>2
    <3>5. QED
      BY <3>2, <3>3, <3>4
  <2>3. QED
    BY <2>1, <2>2
<1>5. QED
  BY <1>2, <1>3, <1>4 DEF Run

(* A step that neither places anything nor passes a section.               *)
LEMMA SectionsStay ==
  ASSUME SectionsPlaced, UNCHANGED <<archive, sect, blob>>, stage # "blob", stage' # "blob",
         \A x, y : Slot(x, y) => (SectIn(x, y)' <=> SectIn(x, y))
  PROVE  SectionsPlaced'
<1>1. \A x, y : Slot(x, y)' <=> Slot(x, y)
  BY DEF Slot
<1>2. Known'
  BY <1>1 DEF SectionsPlaced, Known, BlobIn
<1>3. Once' /\ InOrder'
  BY DEF SectionsPlaced, Once, InOrder, SectEnd
<1>4. There'
  BY <1>1 DEF SectionsPlaced, There
<1>5. LaidOut'
  BY RunStays DEF SectionsPlaced, LaidOut
<1>6. Running' /\ StartBehind'
  BY DEF Running, StartBehind
<1>7. QED
  BY <1>2, <1>3, <1>4, <1>5, <1>6 DEF SectionsPlaced

LEMMA InitPlaced == Init => SectionsPlaced
<1>1. ASSUME Init PROVE stage = "count" /\ sect = {} /\ blob = {}
  BY <1>1 DEF Init
<1>2. QED
  BY <1>1 DEF SectionsPlaced, Known, Once, There, LaidOut, Running, InOrder, StartBehind,
     SectIn, Building

LEMMA NextPlaced == HInv /\ SectionsPlaced /\ [Next]_vars => SectionsPlaced'
<1> SUFFICES ASSUME HInv, SectionsPlaced, [Next]_vars PROVE SectionsPlaced'
  OBVIOUS
<1>a. /\ Typed /\ Typed' /\ StartInStep /\ SectsBelow /\ Inside
      /\ Known /\ Once /\ There /\ LaidOut /\ Running /\ InOrder /\ StartBehind
  BY NextIInv DEF HInv, IInv, SectionsPlaced
<1>b. /\ loc \in Location /\ loc' \in Location /\ start \in Location /\ archive \in Archives
      /\ i \in Nat /\ j \in Nat /\ k \in Nat /\ Len(archive) \in Nat
      /\ stage \in {"sect", "blob", "table", "index"} =>
           i \in DOMAIN archive /\ Len(LC.sects) \in Nat /\ j >= 1
  BY <1>a, Commands, Reached, CommandParts DEF Typed, TypeOK, Cursor
<1>c. loc.offset \in Nat /\ start.offset \in Nat /\ loc'.offset \in Nat
  BY <1>b, LocationFields
<1>d. \A x, y : Slot(x, y) => /\ x \in Nat \ {0} /\ x <= Len(archive)
                              /\ y \in Nat \ {0} /\ y <= Len(archive[x].sects)
                              /\ archive[x].kind \in {"TEXT", "DATA"}
  BY <1>b, SlotParts
<1>1. CASE /\ stage \in {"count", "ids"}
           /\ stage' \in {"count", "ids", "error"} \/ (stage' = "lc" /\ i' = 1)
           /\ UNCHANGED <<archive, sect, blob>>
  <2>1. \A x, y : Slot(x, y) => ~SectIn(x, y) /\ ~SectIn(x, y)'
    BY <1>1, <1>d DEF SectIn, Building
  <2>2. QED
    BY <1>1, <2>1, SectionsStay
<1>2. CASE BuildOther \/ BuildPagezero \/ EndLinkedit
  <2>1. /\ stage \in {"lc", "table"} /\ stage' = "lc" /\ i' = i + 1
        /\ UNCHANGED <<archive, sect, blob>> /\ archive[i].kind \notin {"TEXT", "DATA"}
    BY <1>2, <1>a DEF BuildOther, BuildPagezero, EndLinkedit, Inside, IsSegment, SegmentKinds, LC
  <2>2. \A x, y : Slot(x, y) => x # i /\ (x < i + 1 <=> x < i)
    BY <1>b, <1>d, <2>1
  <2>3. \A x, y : Slot(x, y) => (SectIn(x, y)' <=> SectIn(x, y))
    BY <2>1, <2>2 DEF SectIn, Building
  <2>4. QED
    BY <2>1, <2>3, SectionsStay
<1>3. CASE BeginText \/ BeginSegment \/ BeginLinkedit
  <2>1. /\ stage = "lc" /\ stage' \in {"sect", "table"} /\ i' = i /\ j' = 1
        /\ UNCHANGED <<archive, sect, blob>>
    BY <1>3 DEF BeginText, BeginSegment, BeginLinkedit
  <2>2. \A x, y : Slot(x, y) => ~(y < 1)
    BY <1>d
  <2>3. \A x, y : Slot(x, y) => (SectIn(x, y)' <=> SectIn(x, y))
    BY <2>1, <2>2 DEF SectIn, Building
  <2>4. QED
    BY <2>1, <2>3, SectionsStay
<1>4. CASE EndSegment
  <2>1. /\ stage = "sect" /\ stage' = "lc" /\ i' = i + 1 /\ j > Len(archive[i].sects)
        /\ UNCHANGED <<archive, sect, blob>>
    BY <1>4 DEF EndSegment, LC
  <2>2. \A x, y : Slot(x, y) => (x < i + 1 <=> x < i \/ (x = i /\ y < j))
    BY <1>b, <1>d, <2>1 DEF LC
  <2>3. \A x, y : Slot(x, y) => (SectIn(x, y)' <=> SectIn(x, y))
    BY <2>1, <2>2 DEF SectIn, Building
  <2>4. QED
    BY <2>1, <2>3, SectionsStay
<1>5. CASE SizeNode \/ AllocateTable \/ IndexNode \/ TableDone
  <2>1. /\ stage \in {"table", "index"} /\ stage' \in {"table", "index"} /\ i' = i
        /\ UNCHANGED <<archive, sect, blob>>
    BY <1>5 DEF SizeNode, AllocateTable, IndexNode, TableDone
  <2>2. \A x, y : Slot(x, y) => (SectIn(x, y)' <=> SectIn(x, y))
    BY <2>1 DEF SectIn, Building
  <2>3. QED
    BY <2>1, <2>2, SectionsStay
<1>6. CASE BuildDone
  <2>1. /\ stage = "lc" /\ stage' = "built" /\ i > Len(archive) /\ UNCHANGED <<archive, sect, blob>>
    BY <1>6 DEF BuildDone
  <2>2. \A x, y : Slot(x, y) => x < i
    BY <1>b, <1>d, <2>1
  <2>3. \A x, y : Slot(x, y) => (SectIn(x, y)' <=> SectIn(x, y))
    BY <2>1, <2>2 DEF SectIn, Building
  <2>4. QED
    BY <2>1, <2>3, SectionsStay
<1>7. CASE UNCHANGED vars
  <2>1. /\ UNCHANGED <<archive, stage, sect, blob, i, j, k, start, loc>>
        /\ \A x, y : (Slot(x, y)' <=> Slot(x, y)) /\ (SectIn(x, y)' <=> SectIn(x, y))
    BY <1>7 DEF vars, Slot, SectIn, Building
  <2>2. Known' /\ Once' /\ There' /\ InOrder' /\ StartBehind'
    BY <1>a, <2>1 DEF Known, Once, There, InOrder, StartBehind, SectEnd, BlobIn
  <2>3. LaidOut'
    BY <1>a, <2>1, RunStays DEF LaidOut
  <2>4. Running'
    <3>1. LC' = LC
      BY <2>1 DEF LC
    <3>2. SUFFICES ASSUME stage = "blob" PROVE (k <= Len(LC.sects[j].blobs) + 1)'
                                              /\ Run(i, j, k - 1, start.offset, loc.offset)'
      BY <2>1 DEF Running
    <3>3. k <= Len(LC.sects[j].blobs) + 1 /\ Run(i, j, k - 1, start.offset, loc.offset)
      BY <1>a, <3>2 DEF Running
    <3>4. Run(i, j, k - 1, start.offset, loc.offset)'
      BY <2>1, <3>3 DEF Run, Follows
    <3>5. QED
      BY <2>1, <3>1, <3>3, <3>4
  <2>5. QED
    BY <2>2, <2>3, <2>4 DEF SectionsPlaced
<1>8. CASE BeginSection
  <2>1. /\ stage = "sect" /\ stage' = "blob" /\ i' = i /\ j' = j /\ k' = 1
        /\ UNCHANGED <<archive, sect, blob>> /\ start' = loc'
    BY <1>8 DEF BeginSection
  <2>2. \A x, y : /\ Slot(x, y)' <=> Slot(x, y)
                  /\ SectIn(x, y)' <=> SectIn(x, y)
    BY <2>1 DEF Slot, SectIn, Building
  <2>3. Known' /\ Once' /\ There' /\ InOrder'
    <3>1. Known'
      BY <1>a, <2>1, <2>2 DEF Known, BlobIn
    <3>2. Once'
      BY <1>a, <2>1 DEF Once
    <3>3. There'
      BY <1>a, <2>1, <2>2 DEF There
    <3>4. InOrder'
      BY <1>a, <2>1 DEF InOrder, SectEnd
    <3>5. QED
      BY <3>1, <3>2, <3>3, <3>4
  <2>4. LaidOut'
    BY <1>a, <2>1, RunStays DEF LaidOut
  <2>5. Running'
    <3>1. Len(LC.sects[j].blobs) \in Nat
      BY <1>8, <1>a, Reached, SectParts DEF BeginSection
    <3>2. k' <= Len(LC.sects[j].blobs)' + 1
      <4>1. LC' = LC
        BY <2>1 DEF LC
      <4>2. 1 <= Len(LC.sects[j].blobs) + 1
        BY <3>1
      <4>3. QED
        BY <2>1, <4>1, <4>2
    <3>3. loc'.offset \in Nat
      BY <1>c
    <3>4. PICK o : o = loc'.offset
      OBVIOUS
    <3>5. Run(i, j, 0, o, o)'
      <4>1. 0 + 1 = 1 /\ 1..0 = {} /\ o <= o
        BY <3>3, <3>4
      <4>2. QED
        BY <4>1 DEF Run, Follows
    <3>6. (k - 1)' = 0
      BY <2>1
    <3>7. start.offset' = o /\ loc.offset' = o
      BY <2>1, <3>4
    <3>8. Run(i, j, k - 1, start.offset, loc.offset)'
      BY <3>5, <3>6, <3>7
    <3>9. QED
      BY <3>2, <3>8 DEF Running
  <2>6. StartBehind'
    <3>1. loc.offset <= loc'.offset
      <4>1. LC.sects[j].align \in Nat \ {0}
        BY <1>8, <1>a, Reached, SectParts DEF BeginSection
      <4>2. loc'.offset = AlignUp(loc.offset, LC.sects[j].align)
        BY <1>8 DEF BeginSection, Align
      <4>3. QED
        BY <1>c, <4>1, <4>2, AlignUpFacts
    <3>2. ASSUME NEW c \in sect, c.at[1] = i PROVE SectEnd(c) <= loc'.offset
      <4>1. SectEnd(c) <= loc.offset
        BY <1>a, <2>1, <3>2 DEF SectsBelow, SectEnd
      <4>2. SectEnd(c) \in Nat
        BY <1>a, PlacedFields DEF SectEnd
      <4>3. QED
        BY <1>c, <3>1, <4>1, <4>2
    <3>3. QED
      BY <2>1, <3>2 DEF StartBehind, SectEnd
  <2>7. QED
    BY <2>3, <2>4, <2>5, <2>6 DEF SectionsPlaced
<1>9. CASE PlaceBlob
  <2> DEFINE n == BuiltSize(LC.sects[j].blobs[k])
  <2>0. PICK new : new = [at |-> <<i, j, k>>, loc |-> loc, size |-> n]
    OBVIOUS
  <2>1. /\ stage = "blob" /\ stage' = "blob" /\ i' = i /\ j' = j /\ k' = k + 1
        /\ UNCHANGED <<archive, sect, start>> /\ blob' = blob \cup {new}
        /\ loc'.offset = loc.offset + n /\ k <= Len(LC.sects[j].blobs)
    BY <1>9, <2>0 DEF PlaceBlob, Advance
  <2>2. /\ n \in Nat /\ Slot(i, j) /\ k >= 1 /\ Len(LC.sects[j].blobs) \in Nat
    BY <1>9, <1>a, <2>1, Reached, SectParts, BuiltSizeType
       DEF PlaceBlob, Slot, Typed, Cursor, LC
  <2>3. new.at = <<i, j, k>> /\ new.loc.offset = loc.offset /\ new.size = n
    BY <2>0
  <2>4. \A x, y : /\ Slot(x, y)' <=> Slot(x, y)
                  /\ SectIn(x, y)' <=> SectIn(x, y)
                  /\ \A z : BlobIn(x, y, z) /\ z \in Nat => BlobIn(x, y, z)'
    BY <1>b, <2>1 DEF Slot, SectIn, Building, BlobIn
  <2>5. \A b \in blob : b.at \in Nat \X Nat \X Nat
    BY <1>a DEF Typed, TypeOK, PlacedBlob
  <2>6. Known'
    <3>1. \A x, y, z : x = i /\ y = j /\ z = k => BlobIn(x, y, z)'
      BY <1>b, <2>1 DEF BlobIn
    <3>2. \A b \in blob : b.at[3] \in Nat
      BY <2>5
    <3>3. ASSUME NEW b \in blob'
          PROVE  Slot(b.at[1], b.at[2])' /\ BlobIn(b.at[1], b.at[2], b.at[3])'
      <4>1. CASE b \in blob
        BY <1>a, <2>4, <3>2, <4>1 DEF Known
      <4>2. CASE b = new
        <5>1. b.at[1] = i /\ b.at[2] = j /\ b.at[3] = k
          BY <2>3, <4>2
        <5>2. QED
          BY <2>2, <2>4, <3>1, <5>1
      <4>3. QED
        BY <2>1, <4>1, <4>2
    <3>4. QED
      BY <1>a, <2>1, <2>4, <3>3 DEF Known
  <2>7. Once'
    <3>1. ASSUME NEW b \in blob PROVE b.at # <<i, j, k>>
      <4>1. b.at = <<i, j, k>> => b.at[1] = i /\ b.at[2] = j /\ b.at[3] = k
        OBVIOUS
      <4>2. ~BlobIn(i, j, k)
        BY <1>b, <2>1 DEF BlobIn, SectIn, Building
      <4>3. BlobIn(b.at[1], b.at[2], b.at[3])
        BY <1>a DEF Known
      <4>4. QED
        BY <4>1, <4>2, <4>3
    <3>2. QED
      BY <1>a, <2>1, <2>3, <3>1 DEF Once
  <2>8. There' /\ InOrder' /\ StartBehind'
    BY <1>a, <2>1, <2>4 DEF There, InOrder, StartBehind, SectEnd
  <2>9. LaidOut'
    BY <1>a, <2>1, RunStays DEF LaidOut
  <2>10. Running'
    <3>1. Run(i, j, k - 1, start.offset, loc.offset)
      BY <1>a, <2>1 DEF Running
    <3>2. k - 1 \in Nat /\ k - 1 + 1 = k /\ k + 1 - 1 = k
      BY <1>b, <2>2
    <3>3. \A b \in blob : b.loc.offset \in Nat /\ b.size \in Nat
      BY <1>a, LocationFields DEF Typed, TypeOK, PlacedBlob
    <3>4. PICK x, y, m : x = i /\ y = j /\ m = k - 1 /\ m \in Nat
      BY <3>2
    <3>5. PICK o \in Nat, e \in Nat : o = start.offset /\ e = loc.offset
      BY <1>c
    <3>6. Run(x, y, m + 1, o, e + new.size)'
      <4>1. Run(x, y, m, o, e)
        BY <3>1, <3>4, <3>5
      <4>2. /\ new.at = <<x, y, m + 1>> /\ new.size \in Nat /\ new.loc.offset = e
            /\ new.size = BuiltSize(archive[x].sects[y].blobs[m + 1])
        BY <2>2, <2>3, <3>2, <3>4, <3>5 DEF LC
      <4>3. QED
        BY <2>1, <3>3, <3>4, <4>1, <4>2, RunExtends
    <3>7. /\ x = i' /\ y = j' /\ m + 1 = k' - 1 /\ o = start'.offset
          /\ e + new.size = loc'.offset
      BY <2>1, <2>3, <3>2, <3>4, <3>5
    <3>8. k' <= Len(LC.sects[j].blobs)' + 1
      BY <1>b, <2>1, <2>2 DEF LC
    <3>9. \A z, v : Follows(x, y, z, o, v)' <=> Follows(i, j, z, start.offset, v)'
      BY <3>7 DEF Follows
    <3>10. Run(i, j, k - 1, start.offset, loc.offset)'
      BY <3>6, <3>7, <3>9 DEF Run
    <3>11. QED
      BY <3>8, <3>10 DEF Running
  <2>11. QED
    BY <2>6, <2>7, <2>8, <2>9, <2>10 DEF SectionsPlaced
<1>10. CASE EndSection
  <2>0. PICK new : new = [at |-> <<i, j>>, loc |-> start, size |-> loc.offset - start.offset,
                          reloff |-> loc.offset, nreloc |-> LC.sects[j].nreloc]
    OBVIOUS
  <2>1. /\ stage = "blob" /\ stage' = "sect" /\ i' = i /\ j' = j + 1
        /\ UNCHANGED <<archive, blob>> /\ sect' = sect \cup {new}
        /\ k > Len(LC.sects[j].blobs)
    BY <1>10, <2>0 DEF EndSection
  <2>2. Slot(i, j) /\ Len(LC.sects[j].blobs) \in Nat
    BY <1>10, <1>a, <2>1, Reached, SectParts DEF EndSection, Slot, Typed, Cursor, LC
  <2>3. /\ new.at = <<i, j>> /\ new.at[1] = i /\ new.at[2] = j
        /\ new.loc = start /\ new.reloff = loc.offset /\ new.nreloc = archive[i].sects[j].nreloc
    BY <2>0 DEF LC
  <2>4. /\ k = Len(LC.sects[j].blobs) + 1
        /\ Run(i, j, Len(archive[i].sects[j].blobs), start.offset, loc.offset)
    <3>1. k = Len(LC.sects[j].blobs) + 1
      BY <1>a, <1>b, <2>1, <2>2 DEF Running
    <3>2. k - 1 = Len(archive[i].sects[j].blobs)
      BY <2>2, <3>1 DEF LC
    <3>3. QED
      BY <1>a, <2>1, <3>1, <3>2 DEF Running
  <2>5. \A x, y : /\ Slot(x, y)' <=> Slot(x, y)
                  /\ Slot(x, y) => (SectIn(x, y)' <=> SectIn(x, y) \/ (x = i /\ y = j))
    <3>1. \A x, y : Slot(x, y)' <=> Slot(x, y)
      BY <2>1 DEF Slot
    <3>2. \A x, y : Slot(x, y) => (y < j + 1 <=> y < j \/ y = j)
      BY <1>b, <1>d
    <3>3. QED
      BY <2>1, <3>1, <3>2 DEF SectIn, Building
  <2>6. \A c \in sect : /\ Slot(c.at[1], c.at[2]) /\ SectIn(c.at[1], c.at[2])
                        /\ c.at[1] = i => c.at[2] < j
    BY <1>a, <1>b, <2>1 DEF Known, SectIn, Building
  <2>7. Known'
    <3>1. \A b \in blob : Slot(b.at[1], b.at[2])' /\ SectIn(b.at[1], b.at[2])'
      BY <1>a, <2>1, <2>5 DEF Known, BlobIn
    <3>2. \A c \in sect : Slot(c.at[1], c.at[2])' /\ SectIn(c.at[1], c.at[2])'
      BY <2>5, <2>6
    <3>3. Slot(new.at[1], new.at[2])' /\ SectIn(new.at[1], new.at[2])'
      BY <2>2, <2>3, <2>5
    <3>4. QED
      BY <2>1, <3>1, <3>2, <3>3 DEF Known, BlobIn
  <2>8. Once'
    <3>1. ASSUME NEW c \in sect, c.at = new.at PROVE FALSE
      <4>1. c.at[1] = i /\ c.at[2] = j
        BY <2>3, <3>1
      <4>2. QED
        BY <1>b, <2>6, <4>1
    <3>2. QED
      BY <1>a, <2>1, <3>1 DEF Once
  <2>9. There'
    BY <1>a, <2>1, <2>3, <2>5 DEF There
  <2>10. LaidOut'
    <3>1. ASSUME NEW c \in sect'
          PROVE  /\ c.nreloc = archive[c.at[1]].sects[c.at[2]].nreloc
                 /\ Run(c.at[1], c.at[2], Len(archive[c.at[1]].sects[c.at[2]].blobs),
                        c.loc.offset, c.reloff)
      BY <1>a, <2>1, <2>3, <2>4, <3>1 DEF LaidOut
    <3>2. QED
      BY <2>1, <3>1, RunStays DEF LaidOut
  <2>11. InOrder'
    <3> SUFFICES ASSUME NEW c \in sect', NEW d \in sect', c.at[1] = d.at[1], c.at[2] < d.at[2]
                 PROVE  SectEnd(c) <= d.loc.offset
      BY DEF InOrder, SectEnd
    <3>1. CASE c \in sect /\ d \in sect
      BY <1>a, <3>1 DEF InOrder
    <3>2. CASE c \in sect /\ d = new
      BY <1>a, <2>1, <2>3, <3>2 DEF StartBehind
    <3>3. CASE c = new
      <4>1. d # new
        BY <1>b, <2>3, <3>3
      <4>2. d \in sect /\ d.at[1] = i /\ j < d.at[2] /\ d.at[2] \in Nat
        BY <1>d, <2>1, <2>3, <2>6, <3>3, <4>1
      <4>3. QED
        BY <1>b, <2>6, <4>2
    <3>4. QED
      BY <2>1, <3>1, <3>2, <3>3
  <2>12. Running' /\ StartBehind'
    BY <2>1 DEF Running, StartBehind
  <2>13. QED
    BY <2>7, <2>8, <2>9, <2>10, <2>11, <2>12 DEF SectionsPlaced
<1>11. QED
  <2>1. CASE \/ CountCommand \/ AllocateCommands
             \/ AssignSegmentID \/ AssignDylibID \/ AssignNoID \/ IDsAssigned
    BY <1>1, <2>1 DEF CountCommand, AllocateCommands, AssignSegmentID, AssignDylibID,
       AssignNoID, IDsAssigned
  <2>2. QED
    BY <1>2, <1>3, <1>4, <1>5, <1>6, <1>7, <1>8, <1>9, <1>10, <2>1 DEF Next

-----------------------------------------------------------------------------
(* The load commands, and what is placed behind them.                      *)

(* One more element to sum.                                                *)
LEMMA ExtendSums ==
  ASSUME NEW s, NEW n \in Nat, NEW f, PartialSums(s, n, f), s[n + 1] \in Nat
  PROVE  \E g : /\ PartialSums(s, n + 1, g) /\ g[n + 1] = f[n] + s[n + 1]
                /\ \A z \in 0..n : g[z] = f[z]
<1> DEFINE g == [z \in 0..(n + 1) |-> IF z = n + 1 THEN f[n] + s[n + 1] ELSE f[z]]
<1>1. f \in [0..n -> Nat] /\ f[n] \in Nat /\ f[0] = 0
  BY DEF PartialSums
<1>2. g[n + 1] = f[n] + s[n + 1] /\ \A z \in 0..n : g[z] = f[z]
  OBVIOUS
<1>3. g \in [0..(n + 1) -> Nat]
  BY <1>1
<1> HIDE DEF g
<1>4. g[0] = 0
  BY <1>1, <1>2
<1>5. ASSUME NEW z \in 1..(n + 1) PROVE g[z] = g[z - 1] + s[z] /\ g[z] <= g[n + 1]
  <2>1. CASE z = n + 1
    BY <1>1, <1>2, <2>1
  <2>2. CASE z # n + 1
    <3>1. z \in 1..n /\ z \in 0..n /\ z - 1 \in 0..n
      BY <2>2
    <3>2. f[z] = f[z - 1] + s[z] /\ f[z] <= f[n] /\ f[z] \in Nat
      BY <1>1, <3>1 DEF PartialSums
    <3>3. QED
      BY <1>1, <1>2, <3>1, <3>2
  <2>3. QED
    BY <2>1, <2>2
<1>6. QED
  BY <1>2, <1>3, <1>4, <1>5 DEF PartialSums

LEMMA NoSums == \A s : PartialSums(s, 0, [z \in 0..0 |-> 0])
BY DEF PartialSums

LEMMA InitCounted == Init => CommandsCounted
<1> SUFFICES ASSUME Init PROVE CommandsCounted
  OBVIOUS
<1>1. stage = "count" /\ i = 1 /\ cmdsize = 0 /\ Len(archive) \in Nat
  BY Commands DEF Init
<1>2. PartialSums(CmdSizes, i - 1, [z \in 0..0 |-> 0]) /\ cmdsize = [z \in 0..0 |-> 0][i - 1]
  BY <1>1, NoSums
<1>3. QED
  BY <1>1, <1>2 DEF CommandsCounted

LEMMA NextCounted == Typed /\ CommandsCounted /\ [Next]_vars => CommandsCounted'
<1> SUFFICES ASSUME Typed, CommandsCounted, [Next]_vars PROVE CommandsCounted'
  OBVIOUS
<1>a. /\ i \in Nat /\ archive \in Archives /\ Len(archive) \in Nat
      /\ stage = "count" => i >= 1
  BY Commands DEF Typed, TypeOK, Cursor
<1>1. CASE CountCommand
  <2>1. /\ stage = "count" /\ stage' = "count" /\ i <= Len(archive) /\ i' = i + 1
        /\ UNCHANGED archive /\ cmdsize' = cmdsize + CmdSize(LC)
    BY <1>1 DEF CountCommand
  <2>2. PICK f : PartialSums(CmdSizes, i - 1, f) /\ cmdsize = f[i - 1]
    BY <2>1 DEF CommandsCounted
  <2>3. PICK n \in Nat : n = i - 1
    BY <1>a, <2>1
  <2>4. CmdSizes[n + 1] = CmdSize(LC) /\ CmdSizes[n + 1] \in Nat
    <3>1. n + 1 = i /\ i \in DOMAIN archive /\ LC \in LoadCommand
      BY <1>a, <2>1, <2>3, Reached
    <3>2. QED
      BY <3>1, CmdSizeType DEF CmdSizes, LC
  <2>5. PICK g : PartialSums(CmdSizes, n + 1, g) /\ g[n + 1] = f[n] + CmdSizes[n + 1]
    BY <2>2, <2>3, <2>4, ExtendSums
  <2>6. n + 1 = i' - 1 /\ i' <= Len(archive) + 1 /\ cmdsize' = g[i' - 1]
    BY <1>a, <2>1, <2>2, <2>3, <2>4, <2>5
  <2>7. CmdSizes' = CmdSizes
    BY <2>1 DEF CmdSizes
  <2>8. QED
    BY <2>1, <2>5, <2>6, <2>7 DEF CommandsCounted
<1>2. CASE AllocateCommands
  <2>1. /\ stage = "count" /\ stage' = "ids" /\ i > Len(archive)
        /\ UNCHANGED <<archive, cmdsize>>
    BY <1>2 DEF AllocateCommands
  <2>2. i - 1 = Len(archive)
    BY <1>a, <2>1 DEF CommandsCounted
  <2>3. CmdSizes' = CmdSizes
    BY <2>1 DEF CmdSizes
  <2>4. QED
    BY <2>1, <2>2, <2>3 DEF CommandsCounted
<1>3. CASE /\ UNCHANGED <<archive, cmdsize>>
           /\ (stage # "count" /\ stage' # "count") \/ UNCHANGED <<stage, i>>
  <2>1. CmdSizes' = CmdSizes
    BY <1>3 DEF CmdSizes
  <2>2. QED
    BY <1>3, <2>1 DEF CommandsCounted
<1>4. QED
  BY <1>1, <1>2, <1>3
     DEF Next, vars, AssignSegmentID, AssignDylibID,
     AssignNoID, IDsAssigned, BuildOther, BuildPagezero, BeginText, BeginSegment,
     BeginSection, PlaceBlob, EndSection, EndSegment, BeginLinkedit, SizeNode,
     AllocateTable, IndexNode, TableDone, EndLinkedit, BuildDone

(* While segments are built the offset never moves back.                   *)
LEMMA OffsetForward ==
  ASSUME Typed, Typed', [Next]_vars, stage \notin {"count", "error", "built"}
  PROVE  loc.offset <= loc'.offset
<1>a. /\ loc \in Location /\ loc' \in Location /\ acc \in Nat
      /\ PageSize \in Nat \ {0} /\ RelocSize \in Nat
  BY SizesAssumption DEF Typed, TypeOK
<1>b. loc.offset \in Nat /\ loc'.offset \in Nat
  BY <1>a, LocationFields
<1>1. CASE UNCHANGED loc
  BY <1>1, <1>b
<1>2. CASE BeginText \/ EndLinkedit
  BY <1>2, <1>a, <1>b DEF BeginText, EndLinkedit, Location
<1>3. CASE BeginSegment \/ BeginLinkedit \/ EndSegment
  <2>1. loc'.offset = AlignUp(loc.offset, PageSize)
    BY <1>3 DEF BeginSegment, BeginLinkedit, EndSegment, SegmentEnd, Align
  <2>2. QED
    BY <1>a, <1>b, <2>1, AlignUpFacts
<1>4. CASE BeginSection
  <2>1. LC.sects[j].align \in Nat \ {0}
    BY <1>4, Reached, SectParts DEF BeginSection
  <2>2. loc'.offset = AlignUp(loc.offset, LC.sects[j].align)
    BY <1>4 DEF BeginSection, Align
  <2>3. QED
    BY <1>b, <2>1, <2>2, AlignUpFacts
<1>5. CASE PlaceBlob
  <2>1. PICK n \in Nat : loc'.offset = loc.offset + n
    BY <1>5, Reached, BuiltSizeType DEF PlaceBlob, Advance
  <2>2. QED
    BY <1>b, <2>1
<1>6. CASE EndSection
  <2>1. LC.sects[j].nreloc \in Nat
    BY <1>6, Reached, SectParts DEF EndSection
  <2>2. PICK n \in Nat : loc'.offset = loc.offset + n
    BY <1>6, <1>a, <2>1 DEF EndSection, Advance
  <2>3. QED
    BY <1>b, <2>2
<1>7. CASE AllocateTable
  <2>1. PICK n \in Nat : loc' = [loc EXCEPT !.offset = @ + n]
    BY <1>7, <1>a, TableSizeType DEF AllocateTable
  <2>2. QED
    BY <1>a, <1>b, <2>1 DEF Location
<1>8. QED
  BY <1>1, <1>2, <1>3, <1>4, <1>5, <1>6, <1>7
     DEF Next, vars, CountCommand, AllocateCommands, AssignSegmentID, AssignDylibID,
     AssignNoID, IDsAssigned, BuildOther, BuildPagezero, SizeNode, IndexNode, TableDone,
     BuildDone

LEMMA InitAbove == Init => AboveCommands
BY DEF Init, AboveCommands, Building

LEMMA NextAbove == HInv /\ Known /\ AboveCommands /\ [Next]_vars => AboveCommands'
<1> SUFFICES ASSUME HInv, Known, AboveCommands, [Next]_vars PROVE AboveCommands'
  OBVIOUS
<1>a. Typed /\ Typed' /\ TablesBelow
  BY NextIInv DEF HInv, IInv
<1>b. /\ loc \in Location /\ loc' \in Location /\ start \in Location /\ cmdsize \in Nat
      /\ HeaderSize \in Nat
  BY <1>a, SizesAssumption DEF Typed, TypeOK
<1>c. loc.offset \in Nat /\ loc'.offset \in Nat /\ start.offset \in Nat
  BY <1>b, LocationFields
<1> DEFINE low == HeaderSize + cmdsize
<1>1. CASE CountCommand \/ AllocateCommands
  <2>1. /\ stage = "count" /\ sect' = {} /\ table' = {}
        /\ stage' = "count" => UNCHANGED loc
        /\ stage' # "count" => stage' = "ids" /\ loc'.offset = loc.offset + cmdsize
                               /\ UNCHANGED cmdsize
    BY <1>1, <1>a, <1>b
       DEF CountCommand, AllocateCommands, Known, SectIn, Building, TablesBelow, TableBegun, Location
  <2>2. QED
    BY <1>b, <1>c, <2>1 DEF AboveCommands, Building
<1>2. CASE UNCHANGED vars
  BY <1>2 DEF vars, AboveCommands, Building
<1>3. CASE /\ stage \notin {"count", "error", "built"} /\ UNCHANGED cmdsize
           /\ stage' # "count"
           /\ stage = "ids" \/ Building
           /\ stage' = "blob" => start' = loc' \/ (start' = start /\ stage = "blob")
           /\ \A c \in sect' : c \in sect \/ (c.loc = start /\ stage = "blob")
           /\ \A t \in table' : t \in table \/ t.off = loc.offset
  <2>1. loc.offset <= loc'.offset
    BY <1>3, <1>a, OffsetForward
  <2>2. low <= loc.offset /\ low <= loc'.offset /\ low \in Nat /\ low' = low
    BY <1>3, <1>b, <1>c, <2>1 DEF AboveCommands
  <2>3. stage' = "blob" => low <= start'.offset
    BY <1>3, <2>2 DEF AboveCommands
  <2>4. \A c \in sect' : low <= c.loc.offset
    BY <1>3 DEF AboveCommands
  <2>5. \A t \in table' : low <= t.off
    BY <1>3, <2>2 DEF AboveCommands
  <2> HIDE DEF low
  <2>6. QED
    BY <1>3, <2>2, <2>3, <2>4, <2>5 DEF AboveCommands, low
<1>4. QED
  <2>1. CASE \/ AssignSegmentID \/ AssignDylibID \/ AssignNoID \/ IDsAssigned
             \/ BuildOther \/ BuildPagezero \/ BeginText \/ BeginSegment \/ BeginLinkedit
             \/ EndSegment \/ SizeNode \/ IndexNode \/ TableDone \/ EndLinkedit \/ BuildDone
    BY <1>3, <2>1
       DEF AssignSegmentID, AssignDylibID, AssignNoID, IDsAssigned, BuildOther, BuildPagezero,
       BeginText, BeginSegment, BeginLinkedit, EndSegment, SizeNode, IndexNode, TableDone,
       EndLinkedit, BuildDone, Building
  <2>2. CASE BeginSection \/ PlaceBlob \/ EndSection \/ AllocateTable
    BY <1>3, <2>2 DEF BeginSection, PlaceBlob, EndSection, AllocateTable, Building
  <2>3. QED
    BY <1>1, <1>2, <2>1, <2>2 DEF Next

-----------------------------------------------------------------------------
(* Link-edit tables.                                                       *)

LEMMA TabSlotParts ==
  ASSUME archive \in Archives, NEW x, NEW y, TabSlot(x, y)
  PROVE  /\ x \in Nat \ {0} /\ x <= Len(archive) /\ archive[x] \in LoadCommand
         /\ archive[x].kind = "LINKEDIT" /\ x \in Segments
         /\ y \in Nat \ {0} /\ y <= Len(archive[x].tables)
         /\ archive[x].tables[y] \in Table
<1>1. /\ x \in DOMAIN archive /\ y \in DOMAIN archive[x].tables
      /\ Len(archive) \in Nat /\ DOMAIN archive = 1..Len(archive) /\ archive[x] \in LoadCommand
  BY Commands DEF TabSlot
<1>2. /\ Len(archive[x].tables) \in Nat /\ DOMAIN archive[x].tables = 1..Len(archive[x].tables)
      /\ archive[x].tables[y] \in Table
  BY <1>1, CommandParts
<1>3. archive[x].tables # <<>>
  BY <1>1
<1>4. archive[x].kind = "LINKEDIT"
  BY <1>1, <1>3, ArchivesAssumption DEF WellFormed
<1>5. x \in Segments
  BY <1>1, <1>4 DEF Segments, IsSegment, SegmentKinds
<1>6. QED
  BY <1>1, <1>2, <1>4, <1>5

(* No segment is built after __LINKEDIT, so there are no tables as long as *)
(* another segment is.                                                     *)
LEMMA NoTablesYet ==
  ASSUME archive \in Archives, TablesKnown, TablesBelow, i \in Nat, i \in Segments,
         stage \notin {"table", "index"}
  PROVE  table = {} /\ \A x, y : TabSlot(x, y) => ~(x < i)
<1>1. ASSUME NEW x, NEW y, TabSlot(x, y) PROVE ~(x < i)
  BY <1>1, TabSlotParts, SegmentOrder
<1>2. ASSUME NEW t \in table PROVE FALSE
  <2>1. TabSlot(t.at[1], t.at[2]) /\ t.at[1] < i
    BY DEF TablesKnown, TablesBelow, TableBegun
  <2>2. QED
    BY <1>1, <2>1
<1>3. QED
  BY <1>1, <1>2

(* The blob that a node is about has been placed once the section has.     *)
LEMMA TargetPlaced ==
  ASSUME archive \in Archives, LaidOut, NEW g \in Nat \X Nat \X Nat,
         Slot(g[1], g[2]), g[3] \in DOMAIN archive[g[1]].sects[g[2]].blobs,
         \E c \in sect : c.at = <<g[1], g[2]>>
  PROVE  Placed(g) \in blob /\ Placed(g).at = g
<1>1. PICK c \in sect : c.at = <<g[1], g[2]>>
  OBVIOUS
<1>2. DOMAIN archive[g[1]].sects[g[2]].blobs = 1..Len(archive[g[1]].sects[g[2]].blobs)
  BY SlotParts, SectParts
<1>3. c.at[1] = g[1] /\ c.at[2] = g[2]
  BY <1>1
<1>4. Run(g[1], g[2], Len(archive[g[1]].sects[g[2]].blobs), c.loc.offset, c.reloff)
  BY <1>3 DEF LaidOut
<1>5. \E b \in blob : b.at = <<g[1], g[2], g[3]>>
  BY <1>2, <1>4 DEF Run
<1>6. g = <<g[1], g[2], g[3]>>
  BY TripleParts
<1>7. QED
  BY <1>5, <1>6 DEF Placed

(* A node of a table of command x is about a blob of a section before it.  *)
LEMMA TargetSlot ==
  ASSUME archive \in Archives, NEW x, NEW y, TabSlot(x, y),
         NEW z \in DOMAIN archive[x].tables[y].nodes,
         archive[x].tables[y].nodes[z].target # NoBlob
  PROVE  LET g == archive[x].tables[y].nodes[z].target IN
         /\ g \in Nat \X Nat \X Nat /\ Slot(g[1], g[2]) /\ g[1] < x
         /\ g[3] \in DOMAIN archive[g[1]].sects[g[2]].blobs
<1> DEFINE g == archive[x].tables[y].nodes[z].target
<1>1. /\ x \in Nat \ {0} /\ x <= Len(archive) /\ Len(archive) \in Nat
      /\ DOMAIN archive = 1..Len(archive)
  BY TabSlotParts, Commands
<1>2. g \in Nat \X Nat \X Nat
  <2>1. archive[x].tables[y].nodes[z] \in Node
    BY TabSlotParts, TableParts
  <2>2. QED
    BY <2>1 DEF Node
<1>3. /\ g[1] \in 1..(x - 1) /\ g[2] \in DOMAIN archive[g[1]].sects
      /\ g[3] \in DOMAIN archive[g[1]].sects[g[2]].blobs
  <2>1. WellFormed(archive) /\ x \in DOMAIN archive /\ y \in DOMAIN archive[x].tables
    BY ArchivesAssumption DEF TabSlot
  <2>2. QED
    BY <2>1 DEF WellFormed
<1>4. g[1] < x /\ g[1] \in DOMAIN archive
  <2>1. g[1] \in 1..(x - 1)
    BY <1>3
  <2> HIDE DEF g
  <2>2. QED
    BY <1>1, <2>1
<1>5. QED
  BY <1>2, <1>3, <1>4 DEF Slot

(* The sizes of a table that has been passed do not change any more.       *)
LEMMA SizesStay ==
  ASSUME archive \in Archives, There, LaidOut, Known, UNCHANGED <<archive, blob>>,
         \A x \in DOMAIN archive : seg'[x].fileoff = seg[x].fileoff,
         NEW x, NEW y, TabSlot(x, y), \A v, w : Slot(v, w) /\ v < x => SectIn(v, w)
  PROVE  Sizes(x, y)' = Sizes(x, y)
<1> DEFINE nodes == archive[x].tables[y].nodes
<1>1. \A g : Placed(g)' = Placed(g)
  BY DEF Placed
<1>2. ASSUME NEW z \in DOMAIN nodes PROVE NodeSize(nodes[z])' = NodeSize(nodes[z])
  <2>1. CASE nodes[z].target = NoBlob
    BY <2>1 DEF NodeSize
  <2>2. CASE nodes[z].target # NoBlob
    <3>1. PICK g : g = nodes[z].target
      OBVIOUS
    <3>2. /\ g \in Nat \X Nat \X Nat /\ Slot(g[1], g[2]) /\ g[1] < x
          /\ g[3] \in DOMAIN archive[g[1]].sects[g[2]].blobs
      BY <2>2, <3>1, TargetSlot
    <3>3. Placed(g) \in blob
      <4>1. \E c \in sect : c.at = <<g[1], g[2]>>
        BY <3>2 DEF There
      <4>2. QED
        BY <3>2, <4>1, TargetPlaced
    <3>4. Placed(g).at[1] \in DOMAIN archive
      BY <3>3 DEF Known, Slot
    <3>5. FileDistance(Placed(g))' = FileDistance(Placed(g))
      BY <1>1, <3>4 DEF FileDistance
    <3>6. QED
      BY <3>1, <3>5 DEF NodeSize
  <2>3. QED
    BY <2>1, <2>2
<1>3. QED
  BY <1>2 DEF Sizes

LEMMA SizesSame ==
  ASSUME UNCHANGED <<archive, seg, blob>> PROVE \A x, y : Sizes(x, y)' = Sizes(x, y)
BY DEF Sizes, NodeSize, FileDistance, Placed

(* A step that neither allocates a table nor passes one.                   *)
LEMMA TablesStay ==
  ASSUME TablesPlaced, UNCHANGED <<archive, table, index>>, ids'.lazy = ids.lazy,
         stage' # "index",
         \A x, y : TabSlot(x, y) => (TabIn(x, y)' <=> TabIn(x, y)),
         \A t \in table : Sizes(t.at[1], t.at[2])' = Sizes(t.at[1], t.at[2])
  PROVE  TablesPlaced'
<1>1. \A x, y : TabSlot(x, y)' <=> TabSlot(x, y)
  BY DEF TabSlot
<1>2. TablesKnown' /\ TablesThere'
  BY <1>1 DEF TablesPlaced, TablesKnown, TablesThere
<1>3. TablesOnce' /\ TablesInOrder' /\ IndexKnown' /\ NoLazyYet'
  <2>1. TablesOnce'
    BY DEF TablesPlaced, TablesOnce
  <2>2. TablesInOrder'
    BY DEF TablesPlaced, TablesInOrder
  <2>3. IndexKnown'
    BY DEF TablesPlaced, IndexKnown
  <2>4. NoLazyYet'
    BY DEF TablesPlaced, NoLazyYet
  <2>5. QED
    BY <2>1, <2>2, <2>3, <2>4
<1>4. TablesCounted'
  <2> SUFFICES ASSUME NEW t \in table PROVE \E f : (Counted(t, f) /\ Indexing(t, f))'
    BY DEF TablesCounted
  <2>1. PICK f : Counted(t, f) /\ Indexing(t, f)
    BY DEF TablesPlaced, TablesCounted
  <2>2. Counted(t, f)'
    BY <2>1 DEF Counted
  <2>3. Indexing(t, f)'
    BY DEF Indexing
  <2>4. QED
    BY <2>2, <2>3
<1>5. QED
  BY <1>2, <1>3, <1>4 DEF TablesPlaced

LEMMA InitTables == Init => TablesPlaced /\ Counting
<1> SUFFICES ASSUME Init PROVE TablesPlaced /\ Counting
  OBVIOUS
<1>1. stage = "count" /\ table = {} /\ index = {} /\ ids.lazy = 0
  BY DEF Init, FirstIds
<1>2. QED
  BY <1>1 DEF TablesPlaced, TablesKnown, TablesOnce, TablesThere, TablesInOrder, IndexKnown,
     TablesCounted, NoLazyYet, Counting, TabIn, Building

LEMMA NextTables ==
  HInv /\ SectionsPlaced /\ TablesPlaced /\ Counting /\ [Next]_vars
    => TablesPlaced' /\ Counting'
<1> SUFFICES ASSUME HInv, SectionsPlaced, TablesPlaced, Counting, [Next]_vars
             PROVE  TablesPlaced' /\ Counting'
  OBVIOUS
<1>a. /\ Typed /\ Typed' /\ Inside /\ TablesBelow /\ Known /\ There /\ LaidOut
      /\ TablesKnown /\ TablesOnce /\ TablesThere /\ TablesInOrder /\ IndexKnown
      /\ TablesCounted /\ NoLazyYet
  BY NextIInv DEF HInv, IInv, SectionsPlaced, TablesPlaced
<1>b. /\ archive \in Archives /\ i \in Nat /\ j \in Nat /\ k \in Nat /\ acc \in Nat
      /\ loc \in Location /\ ids \in Counters /\ Len(archive) \in Nat
      /\ DOMAIN archive = 1..Len(archive)
      /\ table \subseteq PlacedTable /\ index \subseteq LazyIndex
      /\ seg \in [DOMAIN archive -> SegmentExtent]
      /\ stage \in {"sect", "blob", "table", "index"} =>
           /\ i \in DOMAIN archive /\ j >= 1
           /\ Len(LC.tables) \in Nat /\ DOMAIN LC.tables = 1..Len(LC.tables)
  BY <1>a, Commands, Reached, CommandParts DEF Typed, TypeOK, Cursor
<1>c. \A x, y : TabSlot(x, y) => /\ x \in Nat \ {0} /\ x <= Len(archive) /\ x \in Segments
                                 /\ y \in Nat \ {0} /\ y <= Len(archive[x].tables)
                                 /\ archive[x].kind = "LINKEDIT"
  BY <1>b, TabSlotParts
<1>d. ids.lazy \in Nat /\ loc.offset \in Nat
  BY <1>b, CountersFields, LocationFields
<1>e. stage \in {"sect", "blob"} => i \in Segments
  BY <1>a, <1>b DEF Inside, LC, Segments, IsSegment, SegmentKinds
<1>1. CASE /\ stage \in {"count", "ids"}
           /\ stage' \in {"count", "ids", "error"} \/ (stage' = "lc" /\ i' = 1)
           /\ UNCHANGED <<archive, table, index>> /\ ids'.lazy = ids.lazy
  <2>1. \A x, y : TabSlot(x, y) => ~TabIn(x, y) /\ ~TabIn(x, y)'
    BY <1>1, <1>c DEF TabIn, Building
  <2>2. table = {}
    BY <1>a, <2>1 DEF TablesKnown
  <2>3. TablesPlaced'
    BY <1>1, <2>1, <2>2, TablesStay
  <2>4. QED
    BY <1>1, <2>3 DEF Counting
<1>2. CASE BuildOther
  <2>1. /\ stage = "lc" /\ stage' = "lc" /\ i' = i + 1 /\ i \notin Segments
        /\ UNCHANGED <<archive, table, index, ids, seg, blob>>
    BY <1>2 DEF BuildOther, Segments, LC
  <2>2. \A x, y : TabSlot(x, y) => (x < i + 1 <=> x < i)
    BY <1>b, <1>c, <2>1
  <2>3. \A x, y : TabSlot(x, y) => (TabIn(x, y)' <=> TabIn(x, y))
    BY <2>1, <2>2 DEF TabIn, Building
  <2>4. \A x, y : Sizes(x, y)' = Sizes(x, y)
    BY <2>1, SizesSame
  <2>5. TablesPlaced'
    BY <2>1, <2>3, <2>4, TablesStay
  <2>6. QED
    BY <2>1, <2>5 DEF Counting
<1>3. CASE BuildPagezero \/ EndSegment
  <2>1. /\ stage \in {"lc", "sect"} /\ stage' = "lc" /\ i' = i + 1
        /\ UNCHANGED <<archive, table, index, ids>>
    BY <1>3 DEF BuildPagezero, EndSegment
  <2>2. i \in Segments /\ archive[i].kind # "LINKEDIT"
    BY <1>3, <1>a, <1>b, Reached
       DEF BuildPagezero, EndSegment, Inside, LC, Segments, IsSegment, SegmentKinds
  <2>3. table = {} /\ \A x, y : TabSlot(x, y) => ~(x < i)
    BY <1>a, <1>b, <2>1, <2>2, NoTablesYet
  <2>4. \A x, y : TabSlot(x, y) => ~(x < i + 1)
    BY <1>b, <1>c, <2>2, <2>3
  <2>5. \A x, y : TabSlot(x, y) => (TabIn(x, y)' <=> TabIn(x, y))
    BY <2>1, <2>3, <2>4 DEF TabIn, Building
  <2>6. TablesPlaced'
    BY <2>1, <2>3, <2>5, TablesStay
  <2>7. QED
    BY <2>1, <2>6 DEF Counting
<1>4. CASE \/ BeginText \/ BeginSegment \/ BeginLinkedit
           \/ BeginSection \/ PlaceBlob \/ EndSection
  <2>1. /\ stage \in {"lc", "sect", "blob"} /\ i' = i
        /\ stage' \in {"sect", "blob"} \/ (stage' = "table" /\ stage = "lc" /\ j' = 1 /\ k' = 1 /\ acc' = 0)
        /\ UNCHANGED <<archive, table, index, ids>>
    BY <1>4 DEF BeginText, BeginSegment, BeginLinkedit, BeginSection, PlaceBlob, EndSection
  <2>2. i \in Segments
    BY <1>4, <1>a, <1>b, <1>e, Reached
       DEF BeginText, BeginSegment, BeginLinkedit, BeginSection, PlaceBlob, EndSection,
       LC, Segments, IsSegment, SegmentKinds
  <2>3. table = {} /\ \A x, y : TabSlot(x, y) => ~(x < i)
    BY <1>a, <1>b, <2>1, <2>2, NoTablesYet
  <2>4. \A x, y : TabSlot(x, y) => ~(y < 1)
    BY <1>c
  <2>5. \A x, y : TabSlot(x, y) => (TabIn(x, y)' <=> TabIn(x, y))
    BY <2>1, <2>3, <2>4 DEF TabIn, Building
  <2>6. TablesPlaced'
    BY <2>1, <2>3, <2>5, TablesStay
  <2>7. Counting'
    <3>1. CASE stage' # "table"
      BY <2>1, <3>1 DEF Counting
    <3>2. CASE stage' = "table"
      <4>1. j' = 1 /\ k' = 1 /\ acc' = 0 /\ LC' = LC /\ LC = archive[i] /\ i \in DOMAIN archive
        BY <2>1, <2>2, <3>2 DEF LC, Segments
      <4>2. j' <= Len(LC.tables) => Len(LC.tables[j'].nodes) \in Nat
        <5>1. LC \in LoadCommand
          BY <1>b, <4>1, Commands
        <5>2. QED
          BY <4>1, <5>1, CommandParts, TableParts
      <4>3. PartialSums(Sizes(i, j), k - 1, [z \in 0..0 |-> 0])' /\ [z \in 0..0 |-> 0][k' - 1] = 0
        BY <4>1, NoSums
      <4>4. QED
        BY <3>2, <4>1, <4>2, <4>3 DEF Counting
    <3>3. QED
      BY <3>1, <3>2
  <2>8. QED
    BY <2>6, <2>7
<1>5. CASE SizeNode
  <2>1. /\ stage = "table" /\ stage' = "table" /\ i' = i /\ j' = j /\ k' = k + 1
        /\ UNCHANGED <<archive, table, index, ids, seg, blob>>
        /\ j <= Len(LC.tables) /\ k <= Len(LC.tables[j].nodes)
        /\ acc' = acc + NodeSize(LC.tables[j].nodes[k])
    BY <1>5 DEF SizeNode
  <2>2. \A x, y : /\ TabIn(x, y)' <=> TabIn(x, y)
                  /\ Sizes(x, y)' = Sizes(x, y)
    <3>1. \A x, y : TabIn(x, y)' <=> TabIn(x, y)
      BY <2>1 DEF TabIn, Building
    <3>2. \A x, y : Sizes(x, y)' = Sizes(x, y)
      BY <2>1, SizesSame
    <3>3. QED
      BY <3>1, <3>2
  <2>3. TablesPlaced'
    BY <2>1, <2>2, TablesStay
  <2>4. Counting'
    <3>1. PICK f : PartialSums(Sizes(i, j), k - 1, f) /\ acc = f[k - 1]
      BY <2>1 DEF Counting
    <3>2. /\ k >= 1 /\ Len(LC.tables[j].nodes) \in Nat
          /\ DOMAIN LC.tables[j].nodes = 1..Len(LC.tables[j].nodes)
          /\ NodeSize(LC.tables[j].nodes[k]) \in Nat
      BY <1>a, <2>1, Reached, TableParts, NodeSizeType DEF Typed, Cursor
    <3>3. PICK n \in Nat : n = k - 1
      BY <1>b, <3>2
    <3>4. Sizes(i, j)[n + 1] = NodeSize(LC.tables[j].nodes[k])
      BY <1>b, <2>1, <3>2, <3>3, SMTT(20) DEF Sizes, LC
    <3>5. PICK g : PartialSums(Sizes(i, j), n + 1, g) /\ g[n + 1] = f[n] + Sizes(i, j)[n + 1]
      BY <3>1, <3>2, <3>3, <3>4, ExtendSums
    <3>6. n + 1 = k' - 1 /\ acc' = g[k' - 1] /\ k' <= Len(LC.tables[j].nodes) + 1
      BY <1>b, <2>1, <3>1, <3>2, <3>3, <3>4, <3>5
    <3>7. PartialSums(Sizes(i, j), k - 1, g)'
      <4>1. PICK x, y : x = i /\ y = j
        OBVIOUS
      <4>2. Sizes(x, y)' = Sizes(i, j) /\ x = i' /\ y = j'
        BY <2>1, <2>2, <4>1
      <4>3. QED
        BY <3>5, <3>6, <4>2 DEF Sizes
    <3>8. QED
      BY <2>1, <3>6, <3>7 DEF Counting, LC
  <2>5. QED
    BY <2>3, <2>4
<1>6. CASE AllocateTable
  <2> DEFINE n == TableSize(LC.tables[j], acc)
  <2>0. PICK new : new = [at |-> <<i, j>>, off |-> loc.offset, size |-> n]
    OBVIOUS
  <2>1. /\ stage = "table" /\ stage' = "index" /\ i' = i /\ j' = j /\ k' = 1 /\ acc' = 0
        /\ UNCHANGED <<archive, index, ids, seg, blob>> /\ table' = table \cup {new}
        /\ j <= Len(LC.tables) /\ k > Len(LC.tables[j].nodes)
    BY <1>6, <2>0 DEF AllocateTable
  <2>2. /\ new.at = <<i, j>> /\ new.at[1] = i /\ new.at[2] = j
        /\ new.off = loc.offset /\ new.size = n
    BY <2>0
  <2>3. TabSlot(i, j) /\ Len(LC.tables[j].nodes) \in Nat
    BY <1>a, <1>b, <2>1, Reached, TableParts DEF TabSlot, LC
  <2>4. \A x, y : /\ TabSlot(x, y)' <=> TabSlot(x, y)
                  /\ TabSlot(x, y) => (TabIn(x, y)' <=> TabIn(x, y) \/ (x = i /\ y = j))
                  /\ Sizes(x, y)' = Sizes(x, y)
    <3>1. \A x, y : TabSlot(x, y) => (y <= j <=> y < j \/ y = j)
      BY <1>b, <1>c
    <3>2. \A x, y : Sizes(x, y)' = Sizes(x, y)
      BY <2>1, SizesSame
    <3>3. QED
      BY <2>1, <3>1, <3>2 DEF TabSlot, TabIn, Building
  <2>5. \A t \in table : /\ TabSlot(t.at[1], t.at[2]) /\ TabIn(t.at[1], t.at[2])
                         /\ t.at[1] = i => t.at[2] < j
    BY <1>a, <1>b, <2>1 DEF TablesKnown, TabIn, Building
  <2>6. \A t \in table : t.at # <<i, j>>
    <3>1. ASSUME NEW t \in table, t.at = <<i, j>> PROVE FALSE
      <4>1. t.at[1] = i /\ t.at[2] = j
        BY <3>1
      <4>2. QED
        BY <1>b, <2>5, <4>1
    <3>2. QED
      BY <3>1
  <2>7. TablesKnown' /\ TablesThere' /\ TablesOnce'
    <3>1. \A t \in table : TabSlot(t.at[1], t.at[2])' /\ TabIn(t.at[1], t.at[2])'
      BY <2>4, <2>5
    <3>2. TabSlot(new.at[1], new.at[2])' /\ TabIn(new.at[1], new.at[2])'
      BY <2>2, <2>3, <2>4
    <3>3. TablesThere'
      BY <1>a, <2>1, <2>2, <2>4 DEF TablesThere
    <3>4. QED
      BY <1>a, <2>1, <2>2, <2>6, <3>1, <3>2, <3>3 DEF TablesKnown, TablesOnce
  <2>8. TablesInOrder'
    <3> SUFFICES ASSUME NEW t \in table', NEW u \in table', t.at[1] = u.at[1], t.at[2] < u.at[2]
                 PROVE  t.off + t.size <= u.off
      BY DEF TablesInOrder
    <3>1. CASE t \in table /\ u \in table
      BY <1>a, <3>1 DEF TablesInOrder
    <3>2. CASE t \in table /\ u = new
      BY <1>a, <2>1, <2>2, <3>2 DEF TablesBelow
    <3>3. CASE t = new
      <4>1. u # new
        BY <1>b, <2>2, <3>3
      <4>2. u \in table /\ u.at[1] = i /\ j < u.at[2] /\ u.at[2] \in Nat
        BY <1>c, <2>1, <2>2, <2>5, <3>3, <4>1
      <4>3. QED
        BY <1>b, <2>5, <4>2
    <3>4. QED
      BY <2>1, <3>1, <3>2, <3>3
  <2>9. IndexKnown'
    BY <1>a, <2>1 DEF IndexKnown
  <2>10. TablesCounted'
    <3> SUFFICES ASSUME NEW t \in table' PROVE \E f : Counted(t, f)' /\ Indexing(t, f)'
      BY DEF TablesCounted
    <3>1. CASE t \in table
      <4>1. PICK f : Counted(t, f)
        BY <1>a, <3>1 DEF TablesCounted
      <4>2. Counted(t, f)'
        BY <2>1, <2>4, <4>1 DEF Counted
      <4>3. Indexing(t, f)'
        BY <2>1, <2>6, <3>1 DEF Indexing
      <4>4. QED
        BY <4>2, <4>3
    <3>2. CASE t = new
      <4>1. t.at = <<i, j>> /\ t.at[1] = i /\ t.at[2] = j /\ t.size = n
        BY <2>2, <3>2
      <4>2. PICK f : PartialSums(Sizes(i, j), k - 1, f) /\ acc = f[k - 1]
        BY <2>1 DEF Counting
      <4>3. k - 1 = Len(LC.tables[j].nodes)
        BY <1>b, <2>1, <2>3 DEF Counting
      <4>4. \A e \in index : ~(e.at[1] = i /\ e.at[2] = j)
        BY <1>a, <2>6 DEF IndexKnown
      <4>5. Counted(t, f)'
        <5>1. Sizes(t.at[1], t.at[2])' = Sizes(i, j)
          BY <2>4, <4>1
        <5>2. archive'[t.at[1]].tables[t.at[2]] = LC.tables[j]
          BY <2>1, <4>1 DEF LC
        <5>3. QED
          BY <2>1, <4>1, <4>2, <4>3, <4>4, <5>1, <5>2 DEF Counted
      <4>6. Indexing(t, f)'
        <5>1. CASE LC.tables[j].kind = "lazy"
          <6>1. ASSUME NEW u \in table PROVE archive[u.at[1]].tables[u.at[2]].kind # "lazy"
            <7>1. TabSlot(u.at[1], u.at[2]) /\ TabSlot(i, j)
              BY <2>3, <2>5
            <7>2. u.at[1] = i
              BY <1>b, <1>c, <7>1, SegmentOrder
            <7>3. u.at[2] # j
              BY <1>b, <1>c, <2>5, <7>1, <7>2
            <7>4. /\ i \in DOMAIN archive /\ j \in DOMAIN archive[i].tables
                  /\ u.at[2] \in DOMAIN archive[i].tables /\ archive[i].tables[j].kind = "lazy"
              BY <5>1, <7>1, <7>2 DEF TabSlot, LC
            <7>5. WellFormed(archive)
              BY <1>b, ArchivesAssumption
            <7>6. archive[i].tables[u.at[2]].kind = "lazy" => u.at[2] = j
              BY <7>4, <7>5 DEF WellFormed
            <7>7. QED
              BY <7>2, <7>3, <7>6
          <6>2. ids.lazy = 0
            BY <1>a, <6>1 DEF NoLazyYet
          <6>3. f[0] = 0
            BY <4>2 DEF PartialSums
          <6>4. k' - 1 = 0 /\ k' <= Len(archive'[t.at[1]].tables[t.at[2]].nodes) + 1 /\ ids'.lazy = 0
            <7>1. archive'[t.at[1]].tables[t.at[2]] = LC.tables[j]
              BY <2>1, <4>1 DEF LC
            <7>2. QED
              BY <2>1, <2>3, <6>2, <7>1
          <6>5. QED
            BY <6>3, <6>4 DEF Indexing
        <5>2. CASE LC.tables[j].kind # "lazy"
          BY <2>1, <4>1, <5>2 DEF Indexing, LC
        <5>3. QED
          BY <5>1, <5>2
      <4>7. QED
        BY <4>5, <4>6
    <3>3. QED
      BY <2>1, <3>1, <3>2
  <2>11. NoLazyYet'
    BY <1>a, <2>1 DEF NoLazyYet
  <2>12. Counting'
    BY <2>1 DEF Counting
  <2>13. QED
    BY <2>7, <2>8, <2>9, <2>10, <2>11, <2>12 DEF TablesPlaced
<1>7. CASE IndexNode
  <2>0. PICK new : new = [at |-> <<i, j, k>>, index |-> ids.lazy]
    OBVIOUS
  <2>1. /\ stage = "index" /\ stage' = "index" /\ i' = i /\ j' = j /\ k' = k + 1
        /\ UNCHANGED <<archive, table, seg, blob, acc>> /\ index' = index \cup {new}
        /\ LC.tables[j].kind = "lazy" /\ k <= Len(LC.tables[j].nodes)
        /\ ids' = [ids EXCEPT !.lazy = @ + NodeSize(LC.tables[j].nodes[k])]
    BY <1>7, <2>0 DEF IndexNode
  <2>2. /\ new.at[1] = i /\ new.at[2] = j /\ new.at[3] = k /\ new.index = ids.lazy
    BY <2>0
  <2>3. /\ TabSlot(i, j) /\ k >= 1 /\ Len(LC.tables[j].nodes) \in Nat
        /\ DOMAIN LC.tables[j].nodes = 1..Len(LC.tables[j].nodes)
        /\ NodeSize(LC.tables[j].nodes[k]) \in Nat
    <3>1. i \in DOMAIN archive /\ j \in DOMAIN LC.tables /\ k >= 1 /\ LC \in LoadCommand
      BY <1>a, <1>b, <2>1, Reached DEF Typed, Cursor
    <3>2. QED
      BY <1>a, <2>1, <3>1, Reached, CommandParts, TableParts, NodeSizeType DEF TabSlot, LC
  <2>4. ids'.lazy = ids.lazy + NodeSize(LC.tables[j].nodes[k])
    BY <1>b, <2>1 DEF Counters
  <2>5. \A x, y : /\ TabSlot(x, y)' <=> TabSlot(x, y)
                  /\ TabIn(x, y)' <=> TabIn(x, y)
                  /\ Sizes(x, y)' = Sizes(x, y)
    <3>1. \A x, y : (TabSlot(x, y)' <=> TabSlot(x, y)) /\ (TabIn(x, y)' <=> TabIn(x, y))
      BY <2>1 DEF TabSlot, TabIn, Building
    <3>2. \A x, y : Sizes(x, y)' = Sizes(x, y)
      BY <2>1, SizesSame
    <3>3. QED
      BY <3>1, <3>2
  <2>6. TablesKnown' /\ TablesThere' /\ TablesOnce' /\ TablesInOrder'
    BY <1>a, <2>1, <2>5 DEF TablesKnown, TablesThere, TablesOnce, TablesInOrder
  <2>7. PICK u \in table : u.at = <<i, j>>
    <3>1. TabIn(i, j)
      BY <1>b, <2>1 DEF TabIn, Building
    <3>2. QED
      BY <1>a, <2>3, <3>1 DEF TablesThere
  <2>8. IndexKnown'
    BY <1>a, <2>1, <2>2, <2>7 DEF IndexKnown
  <2>9. TablesCounted'
    <3> SUFFICES ASSUME NEW t \in table PROVE \E f : Counted(t, f)' /\ Indexing(t, f)'
      BY <2>1 DEF TablesCounted
    <3>1. PICK f : Counted(t, f) /\ Indexing(t, f)
      BY <1>a DEF TablesCounted
    <3>2. CASE t.at # <<i, j>>
      <4>1. Indexing(t, f)'
        BY <2>1, <3>2 DEF Indexing
      <4>2. ~(new.at[1] = t.at[1] /\ new.at[2] = t.at[2])
        <5>1. t.at = <<t.at[1], t.at[2]>>
          BY <1>b, PairParts DEF PlacedTable
        <5>2. QED
          BY <2>2, <3>2, <5>1
      <4>3. Counted(t, f)'
        BY <2>1, <2>5, <3>1, <4>2 DEF Counted
      <4>4. QED
        BY <4>1, <4>3
    <3>3. CASE t.at = <<i, j>>
      <4>1. t.at[1] = i /\ t.at[2] = j /\ archive[t.at[1]].tables[t.at[2]] = LC.tables[j]
        BY <3>3 DEF LC
      <4>2. ids.lazy = f[k - 1]
        BY <2>1, <3>1, <3>3, <4>1 DEF Indexing
      <4>3. k \in 1..Len(LC.tables[j].nodes)
        BY <1>b, <2>1, <2>3
      <4>4. f[k] = f[k - 1] + NodeSize(LC.tables[j].nodes[k])
        <5>1. Sizes(i, j)[k] = NodeSize(LC.tables[j].nodes[k])
          BY <2>3, <4>3 DEF Sizes, LC
        <5>2. PartialSums(Sizes(i, j), Len(LC.tables[j].nodes), f)
          BY <3>1, <4>1 DEF Counted
        <5>3. QED
          BY <4>3, <5>1, <5>2 DEF PartialSums
      <4>5. Counted(t, f)'
        <5>1. Sizes(t.at[1], t.at[2])' = Sizes(t.at[1], t.at[2])
          BY <2>5
        <5>2. archive' = archive
          BY <2>1
        <5>3. ASSUME NEW e \in index', e.at[1] = t.at[1], e.at[2] = t.at[2]
              PROVE  e.at[3] \in 1..Len(LC.tables[j].nodes) /\ e.index = f[e.at[3] - 1]
          BY <2>1, <2>2, <3>1, <4>1, <4>2, <4>3, <5>3 DEF Counted
        <5>4. QED
          BY <3>1, <4>1, <5>1, <5>2, <5>3 DEF Counted
      <4>6. Indexing(t, f)'
        <5>1. k' <= Len(archive'[t.at[1]].tables[t.at[2]].nodes) + 1
          BY <1>b, <2>1, <2>3, <4>1
        <5>2. k' - 1 = k
          BY <1>b, <2>1
        <5>3. ids'.lazy = f[k' - 1]
          BY <2>4, <4>2, <4>4, <5>2
        <5>4. QED
          BY <5>1, <5>3 DEF Indexing
      <4>7. QED
        BY <4>5, <4>6
    <3>4. QED
      BY <3>2, <3>3
  <2>10. NoLazyYet'
    <3>1. u.at[1] = i /\ u.at[2] = j /\ archive[u.at[1]].tables[u.at[2]].kind = "lazy"
      BY <2>1, <2>7 DEF LC
    <3>2. QED
      BY <2>1, <2>7, <3>1 DEF NoLazyYet
  <2>11. Counting'
    BY <2>1 DEF Counting
  <2>12. QED
    BY <2>6, <2>8, <2>9, <2>10, <2>11 DEF TablesPlaced
<1>8. CASE TableDone
  <2>1. /\ stage = "index" /\ stage' = "table" /\ i' = i /\ j' = j + 1 /\ k' = 1 /\ acc' = acc
        /\ UNCHANGED <<archive, table, index, ids, seg, blob>>
    BY <1>8 DEF TableDone
  <2>2. \A x, y : TabSlot(x, y) => (y < j + 1 <=> y <= j)
    BY <1>b, <1>c
  <2>3. \A x, y : /\ TabSlot(x, y) => (TabIn(x, y)' <=> TabIn(x, y))
                  /\ Sizes(x, y)' = Sizes(x, y)
    BY SizesSame, <2>1, <2>2 DEF TabIn, Building
  <2>4. TablesPlaced'
    BY <2>1, <2>3, TablesStay
  <2>5. Counting'
    <3>1. acc' = 0 /\ j' \in Nat \ {0}
      BY <1>b, <2>1 DEF Counting
    <3>2. j' <= Len(LC.tables) => Len(LC.tables[j'].nodes) \in Nat
      <4>1. LC \in LoadCommand
        BY <1>b, <2>1, Commands DEF LC
      <4>2. QED
        BY <1>b, <2>1, <3>1, <4>1, CommandParts, TableParts
    <3>3. PartialSums(Sizes(i, j), k - 1, [z \in 0..0 |-> 0])' /\ [z \in 0..0 |-> 0][k' - 1] = 0
      BY <2>1, NoSums
    <3>4. QED
      BY <2>1, <3>1, <3>2, <3>3, SMTT(20) DEF Counting, LC
  <2>6. QED
    BY <2>4, <2>5
<1>9. CASE EndLinkedit
  <2>1. /\ stage = "table" /\ stage' = "lc" /\ i' = i + 1 /\ j > Len(archive[i].tables)
        /\ UNCHANGED <<archive, table, index, ids, blob>>
    BY <1>9 DEF EndLinkedit, LC
  <2>2. \A x, y : TabSlot(x, y) => (x < i + 1 <=> x < i \/ (x = i /\ y < j))
    BY <1>b, <1>c, <2>1 DEF LC
  <2>3. \A x, y : TabSlot(x, y) => (TabIn(x, y)' <=> TabIn(x, y))
    BY <2>1, <2>2 DEF TabIn, Building
  <2>4. \A x \in DOMAIN archive : seg'[x].fileoff = seg[x].fileoff
    <3>1. PICK a, b : seg' = [seg EXCEPT ![i].filesize = a, ![i].vmsize = b]
      BY <1>9 DEF EndLinkedit
    <3>2. QED
      BY <1>b, <3>1 DEF SegmentExtent
  <2>5. ASSUME NEW t \in table PROVE Sizes(t.at[1], t.at[2])' = Sizes(t.at[1], t.at[2])
    <3>1. TabSlot(t.at[1], t.at[2]) /\ TabIn(t.at[1], t.at[2])
      BY <1>a DEF TablesKnown
    <3>2. t.at[1] <= i /\ t.at[1] \in Nat
      BY <1>b, <1>c, <2>1, <3>1 DEF TabIn, Building
    <3>3. \A v, w : Slot(v, w) /\ v < t.at[1] => SectIn(v, w)
      <4>1. \A v, w : Slot(v, w) /\ v < t.at[1] => v < i
        BY <1>b, <3>2, SlotParts
      <4>2. QED
        BY <2>1, <4>1 DEF SectIn, Building
    <3>4. QED
      BY <1>a, <1>b, <2>1, <2>4, <3>1, <3>3, SizesStay
  <2>6. TablesPlaced'
    BY <2>1, <2>3, <2>5, TablesStay
  <2>7. QED
    BY <2>1, <2>6 DEF Counting
<1>10. CASE BuildDone
  <2>1. /\ stage = "lc" /\ stage' = "built" /\ i > Len(archive)
        /\ UNCHANGED <<archive, table, index, ids, seg, blob>>
    BY <1>10 DEF BuildDone
  <2>2. \A x, y : TabSlot(x, y) => x < i
    BY <1>b, <1>c, <2>1
  <2>3. \A x, y : /\ TabSlot(x, y) => (TabIn(x, y)' <=> TabIn(x, y))
                  /\ Sizes(x, y)' = Sizes(x, y)
    BY SizesSame, <2>1, <2>2 DEF TabIn, Building
  <2>4. TablesPlaced'
    BY <2>1, <2>3, TablesStay
  <2>5. QED
    BY <2>1, <2>4 DEF Counting
<1>11. CASE UNCHANGED vars
  <2>1. /\ UNCHANGED <<archive, stage, i, j, k, table, index, ids, acc>>
        /\ \A x, y : /\ TabSlot(x, y)' <=> TabSlot(x, y)
                     /\ TabIn(x, y)' <=> TabIn(x, y)
                     /\ Sizes(x, y)' = Sizes(x, y)
    BY <1>11, SizesSame DEF vars, TabSlot, TabIn, Building
  <2>2. TablesKnown' /\ TablesThere' /\ TablesOnce' /\ TablesInOrder' /\ IndexKnown' /\ NoLazyYet'
    BY <1>a, <2>1
       DEF TablesKnown, TablesThere, TablesOnce, TablesInOrder, IndexKnown, NoLazyYet
  <2>3. TablesCounted'
    <3>1. ASSUME NEW t \in table, NEW f, Counted(t, f), Indexing(t, f)
          PROVE  Counted(t, f)' /\ Indexing(t, f)'
      <4>1. Counted(t, f)'
        BY <2>1, <3>1 DEF Counted
      <4>2. Indexing(t, f)'
        BY <2>1, <3>1 DEF Indexing
      <4>3. QED
        BY <4>1, <4>2
    <3>2. QED
      BY <1>a, <2>1, <3>1 DEF TablesCounted
  <2>4. Counting'
    <3>1. \A f : PartialSums(Sizes(i, j), k - 1, f)' <=> PartialSums(Sizes(i, j), k - 1, f)
      BY <1>11 DEF vars, Sizes, NodeSize, FileDistance, Placed, PartialSums
    <3>2. QED
      BY <2>1, <3>1 DEF Counting, LC
  <2>5. QED
    BY <2>2, <2>3, <2>4 DEF TablesPlaced
<1>12. QED
  <2>1. CASE \/ CountCommand \/ AllocateCommands
             \/ AssignSegmentID \/ AssignDylibID \/ AssignNoID \/ IDsAssigned
    <3>1. ids'.lazy = ids.lazy
      BY <1>b, <2>1 DEF CountCommand, AllocateCommands, AssignSegmentID, AssignDylibID,
         AssignNoID, IDsAssigned, Counters
    <3>2. QED
      BY <1>1, <2>1, <3>1 DEF CountCommand, AllocateCommands, AssignSegmentID, AssignDylibID,
         AssignNoID, IDsAssigned
  <2>2. QED
    BY <1>2, <1>3, <1>4, <1>5, <1>6, <1>7, <1>8, <1>9, <1>10, <1>11, <2>1 DEF Next

LEMMA InitPInv == Init => PInv
BY InitHInv, InitRInv, InitPlaced, InitCounted, InitAbove, InitTables DEF PInv

LEMMA NextPInv == PInv /\ [Next]_vars => PInv'
<1> SUFFICES ASSUME PInv, [Next]_vars PROVE PInv'
  OBVIOUS
<1>1. /\ HInv /\ RInv /\ SectionsPlaced /\ CommandsCounted /\ AboveCommands
      /\ TablesPlaced /\ Counting /\ Typed /\ Known
  BY DEF PInv, HInv, IInv, SectionsPlaced
<1>2. QED
  BY <1>1, NextHInv, NextRInv, NextPlaced, NextCounted, NextAbove, NextTables DEF PInv

LEMMA PlacementInvariance == Spec => []PInv
BY InitPInv, NextPInv, PTL DEF Spec

-----------------------------------------------------------------------------
(* The emit pass.                                                          *)

EmitStages == {"emit", "esect", "eblob", "enode", "emitted"}

(* What the build pass leaves behind; the emit pass changes none of it.    *)
SectPlaced(x, y) == \E c \in sect : c.at = <<x, y>>
TabPlaced(x, y) == \E t \in table : t.at = <<x, y>>
EndOfCommands == HeaderSize + cmdsize

AllSectsPlaced == \A x, y : Slot(x, y) => SectPlaced(x, y)
AllTablesPlaced == \A x, y : TabSlot(x, y) => TabPlaced(x, y)
AllKnown == /\ \A b \in blob : Slot(b.at[1], b.at[2])
            /\ \A c \in sect : Slot(c.at[1], c.at[2])
            /\ \A t \in table : TabSlot(t.at[1], t.at[2])
AllCounted == \A t \in table : \E f : Counted(t, f)
CommandsFit == \E f : PartialSums(CmdSizes, Len(archive), f) /\ cmdsize = f[Len(archive)]
Above == /\ \A c \in sect : EndOfCommands <= c.loc.offset
         /\ \A t \in table : EndOfCommands <= t.off
AllHold == /\ \A s, t \in Segments : s < t => Clear(s, seg[t].fileoff, seg[t].vmaddr)
           /\ \A s \in Segments : HoldsOne(s)
AllRanked == \A x \in DOMAIN archive : Ranked(x)

Laid ==
  /\ TypeOK /\ InStep /\ AllHold /\ AllRanked
  /\ AllSectsPlaced /\ AllTablesPlaced /\ AllKnown /\ Once /\ LaidOut /\ InOrder
  /\ TablesOnce /\ TablesInOrder /\ AllCounted
  /\ CommandsFit /\ Above

-----------------------------------------------------------------------------
(* The cursors of the emit pass.                                           *)

(* Sections of command i whose section commands have been written.         *)
SectCmdsDone == IF LC.sects = <<>> THEN 0 ELSE IF stage = "eblob" THEN j ELSE j - 1

AtCommand ==
  \E f : /\ PartialSums(CmdSizes, Len(archive), f) /\ cmdsize = f[Len(archive)]
         /\ stage = "emit" => i \in 1..(Len(archive) + 1) /\ pos = HeaderSize + f[i - 1]
         /\ stage \in {"esect", "eblob", "enode"} =>
              /\ i \in Segments /\ j \in Nat \ {0} /\ SectCmdsDone \in 0..Len(LC.sects)
              /\ pos = HeaderSize + f[i - 1] + SegCmdSize + SectCmdsDone * SectCmdSize
 
AtBlob ==
  stage = "eblob" =>
    /\ Slot(i, j) /\ k \in 1..(Len(LC.sects[j].blobs) + 1)
    /\ \E c \in sect : /\ c.at = <<i, j>> /\ c.loc.offset <= cur
                       /\ Follows(i, j, k, c.loc.offset, cur)

AtNode ==
  stage = "enode" =>
    /\ TabSlot(i, j) /\ k \in 1..(Len(LC.tables[j].nodes) + 1)
    /\ \E t \in table : \E f : t.at = <<i, j>> /\ Counted(t, f) /\ cur = t.off + f[k - 1]

-----------------------------------------------------------------------------
(* What has been written.                                                  *)

(* A table without an active node, whose DONE byte lies outside it.        *)
Lone(w) == /\ w.what = "done"
           /\ \A n \in DOMAIN archive[w.at[1]].tables[w.at[2]].nodes :
                ~archive[w.at[1]].tables[w.at[2]].nodes[n].active

InSection(w) ==
  \E c \in sect : /\ c.at = <<w.at[1], w.at[2]>>
                  /\ c.loc.offset <= w.lo /\ w.hi <= SectEnd(c)
InTable(w) ==
  \E t \in table : /\ t.at = <<w.at[1], w.at[2]>> /\ t.off <= w.lo
                   /\ w.hi <= t.off + t.size \/ Lone(w)

Recorded(w) ==
  /\ w.lo \in Nat /\ w.hi \in Nat /\ w.lo <= w.hi
  /\ w.what \in {"header", "command", "blob", "relocs", "node", "done"}
  /\ w.what \in {"header", "command"} => w.hi <= EndOfCommands
  /\ w.what \in {"blob", "relocs"} => InSection(w)
  /\ w.what \in {"node", "done"} => InTable(w)
  /\ w.what = "blob" => LoadedAt(w.at[1], w.lo) = Placed(w.at).loc.vmaddr
  /\ w.what = "relocs" => \E s \in sect : s.at = w.at /\ s.reloff = w.lo
  /\ w.what = "node" =>
       \E t \in table :
         /\ t.at = <<w.at[1], w.at[2]>>
         /\ t.off <= w.lo /\ w.hi <= t.off + t.size
         /\ LET n == archive[w.at[1]].tables[w.at[2]].nodes[w.at[3]] IN
              w.hi - w.lo = NodeSize(n)
         /\ \A x \in index : x.at = w.at => x.index = w.lo - t.off

(* Commands are written below pos, everything else behind the commands, in *)
(* the order of command and section or table, and below cur in the present *)
(* one.                                                                    *)
Passed(w) ==
  /\ w.what \in {"header", "command"} => w.hi <= pos
  /\ w.what \notin {"header", "command"} =>
       /\ stage # "emitted" => w.at[1] <= i
       /\ stage = "emit" => w.at[1] < i
       /\ w.at[1] = i /\ stage \in {"esect", "eblob", "enode"} =>
            \/ w.at[2] < j
            \/ w.at[2] = j /\ stage \in {"eblob", "enode"} /\ (w.hi <= cur \/ Lone(w))

AllWritten == \A x \in DOMAIN written : Recorded(written[x]) /\ Passed(written[x])

EmitInv == /\ Laid /\ AtCommand /\ AtBlob /\ AtNode
           /\ (\E S : written \in Seq(S)) /\ AllWritten /\ NothingLost

EInv == /\ pos \in Nat /\ cur \in Nat
        /\ stage \notin EmitStages => PInv /\ written = <<>>
        /\ stage \in EmitStages => EmitInv

-----------------------------------------------------------------------------
(* What the build pass has left behind.                                    *)

LEMMA LaidAtEnd == ASSUME PInv, stage = "built" PROVE Laid
<1>1. /\ HInv /\ RInv /\ SectionsPlaced /\ CommandsCounted /\ AboveCommands /\ TablesPlaced
      /\ IInv /\ Typed /\ TypeOK /\ SegmentsHold /\ RanksSoFar
      /\ archive \in Archives /\ seg \in [DOMAIN archive -> SegmentExtent]
  BY DEF PInv, HInv, IInv, RInv, Typed, TypeOK
<1>2. InStep
  BY <1>1, InStepFromIInv
<1>3. AllHold
  BY <1>1, HoldParts DEF AllHold, Built
<1>4. AllRanked
  BY <1>1 DEF RanksSoFar, AllRanked
<1>5. AllSectsPlaced
  BY <1>1 DEF SectionsPlaced, There, SectIn, AllSectsPlaced, SectPlaced
<1>6. AllTablesPlaced
  BY <1>1 DEF TablesPlaced, TablesThere, TabIn, AllTablesPlaced, TabPlaced
<1>7. AllKnown
  BY <1>1 DEF SectionsPlaced, Known, TablesPlaced, TablesKnown, AllKnown
<1>8. Once /\ LaidOut /\ InOrder /\ TablesOnce /\ TablesInOrder
  BY <1>1 DEF SectionsPlaced, TablesPlaced
<1>9. AllCounted
  BY <1>1 DEF TablesPlaced, TablesCounted, AllCounted
<1>10. CommandsFit
  BY <1>1 DEF CommandsCounted, CommandsFit
<1>11. Above
  BY <1>1 DEF AboveCommands, Above, EndOfCommands
<1>12. QED
  BY <1>1, <1>2, <1>3, <1>4, <1>5, <1>6, <1>7, <1>8, <1>9, <1>10, <1>11 DEF Laid

places == <<archive, loc, cmdsize, ids, segId, sectId, dylibId, seg, start, sect, blob, acc,
            table, index>>

LEMMA CountedStays ==
  ASSUME UNCHANGED <<archive, seg, blob, index>>
  PROVE  \A t, f : Counted(t, f) => Counted(t, f)'
<1>1. \A x, y : Sizes(x, y)' = Sizes(x, y)
  BY SizesSame
<1>2. QED
  BY <1>1 DEF Counted

LEMMA LaidStays ==
  ASSUME Laid, UNCHANGED places, stage' \in Stages, i' \in Nat, j' \in Nat, k' \in Nat
  PROVE  Laid'
<1>1. TypeOK' /\ InStep'
  BY DEF Laid, places, TypeOK, InStep, FileDistance, AddrDistance
<1>2. AllHold'
  <2>1. Segments' = Segments
    BY DEF places, Segments
  <2>2. \A s : HoldsOne(s) => HoldsOne(s)'
    BY DEF places, HoldsOne
  <2>3. \A s, t : Clear(s, seg[t].fileoff, seg[t].vmaddr)' <=> Clear(s, seg[t].fileoff, seg[t].vmaddr)
    BY DEF places, Clear
  <2>4. QED
    BY <2>1, <2>2, <2>3 DEF Laid, AllHold
<1>3. AllRanked'
  <2>1. UNCHANGED <<archive, segId, sectId, dylibId>>
    BY DEF places
  <2>2. \A x : SegmentsBelow(x)' = SegmentsBelow(x) /\ DylibsBelow(x)' = DylibsBelow(x)
    BY <2>1 DEF SegmentsBelow, DylibsBelow
  <2>3. \A x : SectionsBelow(x)' = SectionsBelow(x)
    BY <2>1, <2>2 DEF SectionsBelow
  <2>4. QED
    BY <2>1, <2>2, <2>3 DEF Laid, AllRanked, Ranked
<1>4. AllSectsPlaced' /\ AllTablesPlaced' /\ AllKnown'
  BY DEF Laid, places, AllSectsPlaced, AllTablesPlaced, AllKnown, SectPlaced, TabPlaced, Slot, TabSlot
<1>5. Once' /\ InOrder' /\ TablesOnce' /\ TablesInOrder'
  BY DEF Laid, places, Once, InOrder, SectEnd, TablesOnce, TablesInOrder
<1>6. LaidOut'
  <2>1. UNCHANGED <<archive, blob, sect>>
    BY DEF places
  <2>2. QED
    BY <2>1, RunStays DEF Laid, LaidOut
<1>7. AllCounted'
  BY CountedStays DEF Laid, AllCounted, places
<1>8. CommandsFit' /\ Above'
  BY DEF Laid, places, CommandsFit, CmdSizes, Above, EndOfCommands
<1>9. QED
  BY <1>1, <1>2, <1>3, <1>4, <1>5, <1>6, <1>7, <1>8 DEF Laid

-----------------------------------------------------------------------------
(* Where things stand in the file.                                         *)

LEMMA LaidFields ==
  ASSUME Laid
  PROVE  /\ \A c \in sect : /\ c.at \in Nat \X Nat /\ c.loc.offset \in Nat /\ c.loc.vmaddr \in Nat
                            /\ c.reloff \in Nat /\ c.nreloc \in Nat
                            /\ SectEnd(c) \in Nat /\ c.loc.offset <= c.reloff /\ c.reloff <= SectEnd(c)
         /\ \A t \in table : t.at \in Nat \X Nat /\ t.off \in Nat /\ t.size \in Nat
         /\ \A b \in blob : /\ b.at \in Nat \X Nat \X Nat /\ b.size \in Nat
                            /\ b.loc.offset \in Nat /\ b.loc.vmaddr \in Nat
         /\ \A s \in DOMAIN archive :
              /\ s \in Nat \ {0} /\ seg[s].fileoff \in Nat /\ seg[s].vmaddr \in Nat
              /\ seg[s].filesize \in Int /\ seg[s].vmsize \in Int
         /\ HeaderSize \in Nat /\ SegCmdSize \in Nat /\ SectCmdSize \in Nat /\ RelocSize \in Nat
         /\ cmdsize \in Nat /\ i \in Nat /\ j \in Nat /\ k \in Nat /\ archive \in Archives
<1>1. /\ sect \subseteq PlacedSect /\ blob \subseteq PlacedBlob /\ table \subseteq PlacedTable
      /\ seg \in [DOMAIN archive -> SegmentExtent] /\ archive \in Archives
      /\ cmdsize \in Nat /\ i \in Nat /\ j \in Nat /\ k \in Nat
  BY DEF Laid, TypeOK
<1>2. HeaderSize \in Nat /\ SegCmdSize \in Nat /\ SectCmdSize \in Nat /\ RelocSize \in Nat
  BY SizesAssumption
<1>3. ASSUME NEW c \in sect
      PROVE  /\ c.at \in Nat \X Nat /\ c.loc.offset \in Nat /\ c.loc.vmaddr \in Nat
             /\ c.reloff \in Nat /\ c.nreloc \in Nat
             /\ SectEnd(c) \in Nat /\ c.loc.offset <= c.reloff /\ c.reloff <= SectEnd(c)
  <2>1. /\ c.at \in Nat \X Nat /\ c.loc \in Location /\ c.reloff \in Nat /\ c.nreloc \in Nat
    BY <1>1 DEF PlacedSect
  <2>2. c.nreloc * RelocSize \in Nat
    BY <1>2, <2>1
  <2>3. c.loc.offset <= c.reloff
    BY DEF Laid, LaidOut, Run
  <2>4. QED
    BY <2>1, <2>2, <2>3, LocationFields DEF SectEnd
<1>4. \A t \in table : t.at \in Nat \X Nat /\ t.off \in Nat /\ t.size \in Nat
  BY <1>1 DEF PlacedTable
<1>5. ASSUME NEW b \in blob
      PROVE  /\ b.at \in Nat \X Nat \X Nat /\ b.size \in Nat
             /\ b.loc.offset \in Nat /\ b.loc.vmaddr \in Nat
  <2>1. b.at \in Nat \X Nat \X Nat /\ b.size \in Nat /\ b.loc \in Location
    BY <1>1 DEF PlacedBlob
  <2>2. QED
    BY <2>1, LocationFields
<1>6. ASSUME NEW s \in DOMAIN archive
      PROVE  /\ s \in Nat \ {0} /\ seg[s].fileoff \in Nat /\ seg[s].vmaddr \in Nat
             /\ seg[s].filesize \in Int /\ seg[s].vmsize \in Int
  <2>1. seg[s] \in SegmentExtent
    BY <1>1
  <2>2. s \in Nat \ {0}
    BY <1>1, Commands
  <2>3. QED
    BY <2>1, <2>2 DEF SegmentExtent
<1>7. QED
  BY <1>1, <1>2, <1>3, <1>4, <1>5, <1>6

(* A section lies in its segment, and so does a table.                     *)
LEMMA InSegment ==
  ASSUME Laid
  PROVE  /\ \A c \in sect : /\ c.at[1] \in Segments /\ archive[c.at[1]].kind \in {"TEXT", "DATA"}
                            /\ seg[c.at[1]].fileoff <= c.loc.offset
                            /\ SectEnd(c) <= seg[c.at[1]].fileoff + seg[c.at[1]].filesize
         /\ \A t \in table : /\ t.at[1] \in Segments /\ archive[t.at[1]].kind = "LINKEDIT"
                             /\ seg[t.at[1]].fileoff <= t.off
                             /\ t.off + t.size <= seg[t.at[1]].fileoff + seg[t.at[1]].filesize
<1>1. AllKnown /\ AllHold /\ archive \in Archives
  BY LaidFields DEF Laid
<1>2. ASSUME NEW c \in sect
      PROVE  /\ c.at[1] \in Segments /\ archive[c.at[1]].kind \in {"TEXT", "DATA"}
             /\ seg[c.at[1]].fileoff <= c.loc.offset
             /\ SectEnd(c) <= seg[c.at[1]].fileoff + seg[c.at[1]].filesize
  <2>1. Slot(c.at[1], c.at[2])
    BY <1>1 DEF AllKnown
  <2>2. archive[c.at[1]].kind \in {"TEXT", "DATA"}
    BY <1>1, <2>1, SlotParts
  <2>3. c.at[1] \in Segments
    BY <2>1, <2>2 DEF Slot, Segments, IsSegment, SegmentKinds
  <2>4. HoldsOne(c.at[1])
    BY <1>1, <2>3 DEF AllHold
  <2>5. QED
    BY <2>2, <2>3, <2>4 DEF HoldsOne, SectEnd
<1>3. ASSUME NEW t \in table
      PROVE  /\ t.at[1] \in Segments /\ archive[t.at[1]].kind = "LINKEDIT"
             /\ seg[t.at[1]].fileoff <= t.off
             /\ t.off + t.size <= seg[t.at[1]].fileoff + seg[t.at[1]].filesize
  <2>1. TabSlot(t.at[1], t.at[2])
    BY <1>1 DEF AllKnown
  <2>2. t.at[1] \in Segments /\ archive[t.at[1]].kind = "LINKEDIT"
    BY <1>1, <2>1, TabSlotParts
  <2>3. HoldsOne(t.at[1])
    BY <1>1, <2>2 DEF AllHold
  <2>4. QED
    BY <2>2, <2>3 DEF HoldsOne
<1>4. QED
  BY <1>2, <1>3

(* Sections follow one another in the order of the load commands, and the  *)
(* tables come after all sections.                                         *)
LEMMA InFileOrder ==
  ASSUME Laid
  PROVE  /\ \A c, d \in sect :
              c.at[1] < d.at[1] \/ (c.at[1] = d.at[1] /\ c.at[2] < d.at[2]) =>
                SectEnd(c) <= d.loc.offset
         /\ \A c \in sect, t \in table : SectEnd(c) <= t.off
         /\ \A t, u \in table : t.at[1] = u.at[1]
<1>a. archive \in Archives /\ AllHold /\ InOrder /\ \A s \in Segments : s \in DOMAIN archive
  BY LaidFields DEF Laid, Segments
<1>b. ASSUME NEW x \in Segments, NEW y \in Segments, x < y
      PROVE  seg[x].fileoff + seg[x].filesize <= seg[y].fileoff
  BY <1>a, <1>b DEF AllHold, Clear
<1>1. ASSUME NEW c \in sect, NEW d \in sect,
             c.at[1] < d.at[1] \/ (c.at[1] = d.at[1] /\ c.at[2] < d.at[2])
      PROVE  SectEnd(c) <= d.loc.offset
  <2>1. CASE c.at[1] < d.at[1]
    <3>1. /\ c.at[1] \in Segments /\ d.at[1] \in Segments
          /\ SectEnd(c) <= seg[c.at[1]].fileoff + seg[c.at[1]].filesize
          /\ seg[d.at[1]].fileoff <= d.loc.offset
      BY InSegment
    <3>2. seg[c.at[1]].fileoff + seg[c.at[1]].filesize <= seg[d.at[1]].fileoff
      BY <1>b, <2>1, <3>1
    <3>3. /\ SectEnd(c) \in Nat /\ d.loc.offset \in Nat /\ seg[d.at[1]].fileoff \in Nat
          /\ seg[c.at[1]].fileoff \in Nat /\ seg[c.at[1]].filesize \in Int
      BY <1>a, <3>1, LaidFields
    <3>4. QED
      BY <3>1, <3>2, <3>3
  <2>2. CASE c.at[1] = d.at[1] /\ c.at[2] < d.at[2]
    BY <1>a, <2>2 DEF InOrder
  <2>3. QED
    BY <1>1, <2>1, <2>2
<1>2. ASSUME NEW c \in sect, NEW t \in table PROVE SectEnd(c) <= t.off
  <2>1. /\ c.at[1] \in Segments /\ t.at[1] \in Segments
        /\ archive[c.at[1]].kind \in {"TEXT", "DATA"} /\ archive[t.at[1]].kind = "LINKEDIT"
        /\ SectEnd(c) <= seg[c.at[1]].fileoff + seg[c.at[1]].filesize
        /\ seg[t.at[1]].fileoff <= t.off
    BY InSegment
  <2>2. c.at[1] \in Nat /\ t.at[1] \in Nat /\ c.at[1] # t.at[1] /\ ~(t.at[1] < c.at[1])
    BY <1>a, <2>1, SegmentOrder, LaidFields
  <2>3. c.at[1] < t.at[1]
    BY <2>2
  <2>4. seg[c.at[1]].fileoff + seg[c.at[1]].filesize <= seg[t.at[1]].fileoff
    BY <1>b, <2>1, <2>3
  <2>5. /\ SectEnd(c) \in Nat /\ t.off \in Nat /\ seg[t.at[1]].fileoff \in Nat
        /\ seg[c.at[1]].fileoff \in Nat /\ seg[c.at[1]].filesize \in Int
    BY <1>a, <2>1, LaidFields
  <2>6. QED
    BY <2>1, <2>4, <2>5
<1>3. ASSUME NEW t \in table, NEW u \in table PROVE t.at[1] = u.at[1]
  <2>1. /\ t.at[1] \in Segments /\ u.at[1] \in Segments
        /\ archive[t.at[1]].kind = "LINKEDIT" /\ archive[u.at[1]].kind = "LINKEDIT"
    BY InSegment
  <2>2. ~(t.at[1] < u.at[1]) /\ ~(u.at[1] < t.at[1])
    BY <1>a, <2>1, SegmentOrder
  <2>3. t.at[1] \in Nat /\ u.at[1] \in Nat
    BY <1>a, <2>1, LaidFields
  <2>4. QED
    BY <2>2, <2>3
<1>4. QED
  BY <1>1, <1>2, <1>3

-----------------------------------------------------------------------------
(* What has been written stays true, and a write that falls behind every   *)
(* earlier one loses nothing.                                              *)

LEMMA RecordedStays ==
  ASSUME UNCHANGED places
  PROVE  \A a : (Recorded(a)' <=> Recorded(a)) /\ (Lone(a)' <=> Lone(a))
<1>1. UNCHANGED <<archive, seg, sect, blob, table, index, cmdsize>>
  BY DEF places
<1>2. \A a : Lone(a)' <=> Lone(a)
  BY <1>1 DEF Lone
<1>3. \A a : InSection(a)' <=> InSection(a)
  BY <1>1 DEF InSection, SectEnd
<1>4. \A a : InTable(a)' <=> InTable(a)
  BY <1>1, <1>2 DEF InTable
<1>5. /\ \A x, y : LoadedAt(x, y)' = LoadedAt(x, y)
      /\ \A x : Placed(x)' = Placed(x)
      /\ EndOfCommands' = EndOfCommands
  BY <1>1 DEF LoadedAt, Placed, EndOfCommands
<1>6. \A n : NodeSize(n)' = NodeSize(n)
  BY <1>1, <1>5 DEF NodeSize, FileDistance
<1>7. ASSUME NEW a PROVE Recorded(a)' <=> Recorded(a)
  <2>1. LoadedAt(a.at[1], a.lo)' = LoadedAt(a.at[1], a.lo) /\ Placed(a.at)' = Placed(a.at)
    BY <1>5
  <2>2. QED
    BY <1>1, <1>2, <1>3, <1>4, <1>5, <1>6, <2>1 DEF Recorded
<1>8. QED
  BY <1>2, <1>7

(* What is not a header or a command knows the section or table it is in.  *)
LEMMA RecordedAt ==
  ASSUME Laid, NEW a, Recorded(a), a.what \notin {"header", "command"}
  PROVE  a.at[1] \in Nat /\ a.at[2] \in Nat
<1>1. a.what \in {"blob", "relocs"} \/ a.what \in {"node", "done"}
  BY DEF Recorded
<1>2. CASE a.what \in {"blob", "relocs"}
  <2>1. PICK c \in sect : c.at = <<a.at[1], a.at[2]>>
    BY <1>2 DEF Recorded, InSection
  <2>2. c.at \in Nat \X Nat
    BY LaidFields
  <2>3. c.at[1] \in Nat /\ c.at[2] \in Nat /\ c.at[1] = a.at[1] /\ c.at[2] = a.at[2]
    BY <2>1, <2>2, PairParts
  <2>4. QED
    BY <2>3
<1>3. CASE a.what \in {"node", "done"}
  <2>1. PICK c \in table : c.at = <<a.at[1], a.at[2]>>
    BY <1>3 DEF Recorded, InTable
  <2>2. c.at \in Nat \X Nat
    BY LaidFields
  <2>3. c.at[1] \in Nat /\ c.at[2] \in Nat /\ c.at[1] = a.at[1] /\ c.at[2] = a.at[2]
    BY <2>1, <2>2, PairParts
  <2>4. QED
    BY <2>3
<1>4. QED
  BY <1>1, <1>2, <1>3

LEMMA EmitQuiet ==
  ASSUME UNCHANGED places, UNCHANGED written, \E S : written \in Seq(S), AllWritten, NothingLost,
         \A a : Recorded(a) /\ Passed(a) => Passed(a)'
  PROVE  (\E S : written' \in Seq(S)) /\ AllWritten' /\ NothingLost'
<1>1. \A a : Recorded(a)' <=> Recorded(a)
  BY RecordedStays
<1>2. AllWritten'
  BY <1>1 DEF AllWritten
<1>3. NothingLost'
  BY DEF NothingLost, places
<1>4. QED
  BY <1>2, <1>3

(* NothingLost holds when a write over an earlier one is over a lone one.  *)
LEMMA LostOnlyLone ==
  ASSUME archive' = archive,
         \A x, y \in DOMAIN written' :
           x < y /\ written'[x].lo < written'[y].hi /\ written'[y].lo < written'[x].hi
             => Lone(written'[x])
  PROVE  NothingLost'
<1> SUFFICES ASSUME NEW x \in DOMAIN written', NEW y \in DOMAIN written', x < y,
                    written'[x].lo < written'[y].hi, written'[y].lo < written'[x].hi
             PROVE  /\ written'[x].what = "done"
                    /\ \A n \in DOMAIN archive'[written'[x].at[1]].tables[written'[x].at[2]].nodes :
                         ~archive'[written'[x].at[1]].tables[written'[x].at[2]].nodes[n].active
  BY Zenon DEF NothingLost
<1>1. Lone(written'[x])
  OBVIOUS
<1>2. QED
  BY <1>1, Zenon DEF Lone

LEMMA EmitWrite ==
  ASSUME UNCHANGED places, NEW w, written' = Append(written, w), \E S : written \in Seq(S),
         AllWritten, NothingLost, Recorded(w), Passed(w)',
         \A a : Recorded(a) /\ Passed(a) =>
           Passed(a)' /\ (a.hi <= w.lo \/ w.hi <= a.lo \/ Lone(a))
  PROVE  (\E S : written' \in Seq(S)) /\ AllWritten' /\ NothingLost'
<1>a. PICK S : written \in Seq(S)
  OBVIOUS
<1>b. PICK n \in Nat : n = Len(written)
  BY <1>a
<1> DEFINE T == S \cup {w}
<1>1. written \in Seq(T) /\ written' \in Seq(T)
  <2>1. written \in Seq(T)
    BY <1>a
  <2>2. w \in T
    OBVIOUS
  <2> HIDE DEF T
  <2>3. QED
    BY <2>1, <2>2
<1>2. /\ DOMAIN written = 1..n /\ DOMAIN written' = 1..(n + 1)
      /\ written'[n + 1] = w /\ \A x \in 1..n : written'[x] = written[x]
  <2> HIDE DEF T
  <2>1. QED
    BY <1>1, <1>b
<1>3. \A a : Recorded(a)' <=> Recorded(a)
  BY RecordedStays
<1>4. \A x \in 1..n : Recorded(written[x]) /\ Passed(written[x])
  BY <1>2 DEF AllWritten
<1>5. ASSUME NEW x \in DOMAIN written' PROVE Recorded(written[x])' /\ Passed(written[x])'
  <2>1. PICK y : y = x
    OBVIOUS
  <2>2. PICK a : a = written'[y]
    OBVIOUS
  <2>3. Recorded(a)' /\ Passed(a)'
    <3>1. CASE y \in 1..n
      BY <1>2, <1>3, <1>4, <2>2, <3>1
    <3>2. CASE y = n + 1
      BY <1>2, <1>3, <2>2, <3>2
    <3>3. QED
      BY <1>2, <2>1, <3>1, <3>2
  <2>4. QED
    BY <2>1, <2>2, <2>3
<1>6. AllWritten'
  BY <1>5 DEF AllWritten
<1>7. NothingLost'
  <2> SUFFICES ASSUME NEW x \in DOMAIN written', NEW y \in DOMAIN written', x < y,
                      written'[x].lo < written'[y].hi, written'[y].lo < written'[x].hi
               PROVE  Lone(written'[x])
    BY LostOnlyLone DEF places
  <2>1. x \in 1..n
    BY <1>2
  <2>2. CASE y \in 1..n
    BY <1>2, <2>1, <2>2 DEF NothingLost, Lone
  <2>3. CASE y = n + 1
    <3>1. PICK a : a = written[x]
      OBVIOUS
    <3>2. Recorded(a) /\ (a.hi <= w.lo \/ w.hi <= a.lo \/ Lone(a))
      BY <1>4, <2>1, <3>1
    <3>3. a.hi \in Nat /\ a.lo \in Nat /\ w.lo \in Nat /\ w.hi \in Nat
      BY <3>2 DEF Recorded
    <3>4. a.lo < w.hi /\ w.lo < a.hi
      BY <1>2, <2>1, <2>3, <3>1
    <3>5. Lone(a)
      BY <3>2, <3>3, <3>4
    <3>6. QED
      BY <1>2, <2>1, <3>1, <3>5
  <2>4. QED
    BY <1>2, <2>2, <2>3
<1>8. QED
  BY <1>1, <1>6, <1>7

-----------------------------------------------------------------------------
(* The cursors are behind everything that has been written.                *)

LEMMA BehindCommands ==
  ASSUME Laid, NEW a, Recorded(a), Passed(a)
  PROVE  a.hi <= pos \/ EndOfCommands <= a.lo
<1>1. CASE a.what \in {"header", "command"}
  BY <1>1 DEF Passed
<1>2. CASE a.what \in {"blob", "relocs"}
  <2>1. PICK c \in sect : c.loc.offset <= a.lo
    BY <1>2 DEF Recorded, InSection
  <2>2. EndOfCommands <= c.loc.offset /\ c.loc.offset \in Nat /\ a.lo \in Nat /\ EndOfCommands \in Nat
    BY LaidFields DEF Laid, Above, Recorded, EndOfCommands
  <2>3. QED
    BY <2>1, <2>2
<1>3. CASE a.what \in {"node", "done"}
  <2>1. PICK t \in table : t.off <= a.lo
    BY <1>3 DEF Recorded, InTable
  <2>2. EndOfCommands <= t.off /\ t.off \in Nat /\ a.lo \in Nat /\ EndOfCommands \in Nat
    BY LaidFields DEF Laid, Above, Recorded, EndOfCommands
  <2>3. QED
    BY <2>1, <2>2
<1>4. QED
  BY <1>1, <1>2, <1>3 DEF Recorded

LEMMA BehindSection ==
  ASSUME Laid, stage = "eblob", cur \in Nat, NEW c \in sect, c.at = <<i, j>>, c.loc.offset <= cur,
         NEW a, Recorded(a), Passed(a)
  PROVE  a.hi <= cur \/ SectEnd(c) <= a.lo
<1>a. /\ c.loc.offset \in Nat /\ SectEnd(c) \in Nat /\ a.lo \in Nat /\ a.hi \in Nat
      /\ EndOfCommands \in Nat /\ EndOfCommands <= c.loc.offset /\ i \in Nat /\ j \in Nat
  BY LaidFields DEF Laid, Above, Recorded, EndOfCommands
<1>1. CASE a.what \in {"header", "command"}
  BY <1>1, <1>a DEF Recorded
<1>2. CASE a.what \in {"blob", "relocs"}
  <2>1. PICK d \in sect : d.at = <<a.at[1], a.at[2]>> /\ a.hi <= SectEnd(d)
    BY <1>2 DEF Recorded, InSection
  <2>2. a.at[1] \in Nat /\ a.at[2] \in Nat /\ SectEnd(d) \in Nat
    BY <1>2, RecordedAt, LaidFields
  <2>3. d.at[1] = a.at[1] /\ d.at[2] = a.at[2] /\ c.at[1] = i /\ c.at[2] = j
    BY <2>1
  <2>4. \/ a.at[1] < i \/ (a.at[1] = i /\ a.at[2] < j)
        \/ a.hi <= cur
    BY <1>2, <1>a, <2>2, SMTT(20) DEF Passed, Lone
  <2>5. CASE a.at[1] < i \/ (a.at[1] = i /\ a.at[2] < j)
    <3>1. SectEnd(d) <= c.loc.offset
      BY <2>3, <2>5, InFileOrder
    <3>2. QED
      BY <1>a, <2>1, <2>2, <3>1
  <2>6. QED
    BY <2>4, <2>5
<1>3. CASE a.what \in {"node", "done"}
  <2>1. PICK t \in table : t.off <= a.lo
    BY <1>3 DEF Recorded, InTable
  <2>2. SectEnd(c) <= t.off /\ t.off \in Nat
    BY InFileOrder, LaidFields
  <2>3. QED
    BY <1>a, <2>1, <2>2
<1>4. QED
  BY <1>1, <1>2, <1>3 DEF Recorded

LEMMA BehindTable ==
  ASSUME Laid, stage = "enode", cur \in Nat, NEW t \in table, t.at = <<i, j>>, t.off <= cur,
         NEW a, Recorded(a), Passed(a)
  PROVE  a.hi <= cur \/ Lone(a)
<1>a. /\ t.off \in Nat /\ t.size \in Nat /\ a.lo \in Nat /\ a.hi \in Nat
      /\ EndOfCommands \in Nat /\ EndOfCommands <= t.off /\ i \in Nat /\ j \in Nat
  BY LaidFields DEF Laid, Above, Recorded, EndOfCommands
<1>1. CASE a.what \in {"header", "command"}
  BY <1>1, <1>a DEF Recorded
<1>2. CASE a.what \in {"blob", "relocs"}
  <2>1. PICK d \in sect : a.hi <= SectEnd(d)
    BY <1>2 DEF Recorded, InSection
  <2>2. SectEnd(d) <= t.off /\ SectEnd(d) \in Nat
    BY InFileOrder, LaidFields
  <2>3. QED
    BY <1>a, <2>1, <2>2
<1>3. CASE a.what \in {"node", "done"} /\ ~Lone(a)
  <2>1. PICK u \in table : u.at = <<a.at[1], a.at[2]>> /\ a.hi <= u.off + u.size
    BY <1>3 DEF Recorded, InTable
  <2>2. a.at[1] \in Nat /\ a.at[2] \in Nat /\ u.off \in Nat /\ u.size \in Nat
    BY <1>3, RecordedAt, LaidFields
  <2>3. u.at[1] = a.at[1] /\ u.at[2] = a.at[2] /\ t.at[1] = i /\ t.at[2] = j
    BY <2>1
  <2>4. u.at[1] = t.at[1]
    BY InFileOrder
  <2>5. a.at[2] < j \/ a.hi <= cur
    BY <1>3, <1>a, <2>2, <2>3, <2>4 DEF Passed
  <2>6. CASE a.at[2] < j
    <3>1. u.off + u.size <= t.off
      BY <2>3, <2>4, <2>6 DEF Laid, TablesInOrder
    <3>2. QED
      BY <1>a, <2>1, <2>2, <3>1
  <2>7. QED
    BY <2>5, <2>6
<1>4. QED
  BY <1>1, <1>2, <1>3 DEF Recorded

(* The load commands are no longer than the build has counted them.        *)
LEMMA CommandsBelowEnd ==
  ASSUME Laid, NEW f, PartialSums(CmdSizes, Len(archive), f), cmdsize = f[Len(archive)],
         NEW x \in DOMAIN archive
  PROVE  /\ f[x - 1] \in Nat /\ f[x] \in Nat /\ f[x] = f[x - 1] + CmdSize(archive[x])
         /\ HeaderSize + f[x - 1] + CmdSize(archive[x]) <= EndOfCommands
<1>1. /\ archive \in Archives /\ Len(archive) \in Nat /\ DOMAIN archive = 1..Len(archive)
      /\ HeaderSize \in Nat
  BY LaidFields, Commands
<1>2. x \in 1..Len(archive) /\ x - 1 \in 0..Len(archive) /\ x \in 0..Len(archive)
      /\ Len(archive) \in 0..Len(archive)
  BY <1>1
<1>3. /\ f \in [0..Len(archive) -> Nat]
      /\ f[x] = f[x - 1] + CmdSizes[x] /\ f[x] <= f[Len(archive)]
  BY <1>2 DEF PartialSums
<1>4. f[x] \in Nat /\ f[x - 1] \in Nat /\ f[Len(archive)] \in Nat
  BY <1>2, <1>3
<1>5. CmdSizes[x] = CmdSize(archive[x])
  BY DEF CmdSizes
<1>6. CmdSize(archive[x]) \in Nat
  BY <1>1, Commands, CmdSizeType
<1>7. QED
  BY <1>1, <1>3, <1>4, <1>5, <1>6 DEF EndOfCommands

(* The offset of a blob, and that of the next one, is unique.              *)
LEMMA FollowsOnce ==
  ASSUME Once, NEW x, NEW y, NEW z, NEW o, NEW u, NEW v,
         Follows(x, y, z, o, u), Follows(x, y, z, o, v)
  PROVE  u = v
BY DEF Once, Follows

(* A table with its DONE byte is as long as it says.                       *)
LEMMA TableSizeHolds ==
  ASSUME NEW t, NEW n \in Nat
  PROVE  /\ n <= TableSize(t, n)
         /\ t.kind # "data" /\ n > 0 => n + 1 <= TableSize(t, n)
<1>1. PtrSize \in Nat \ {0}
  BY SizesAssumption
<1>2. CASE t.kind = "data"
  BY <1>2 DEF TableSize
<1>3. CASE t.kind # "data" /\ n > 0
  <2>1. TableSize(t, n) = AlignUp(n + 1, PtrSize)
    BY <1>3 DEF TableSize
  <2>2. n + 1 \in Nat
    OBVIOUS
  <2>3. n + 1 <= AlignUp(n + 1, PtrSize) /\ AlignUp(n + 1, PtrSize) \in Nat
    BY <1>1, <2>2, AlignUpFacts
  <2>4. QED
    BY <2>1, <2>3
<1>4. CASE t.kind # "data" /\ n = 0
  BY <1>4, TableSizeType
<1>5. QED
  BY <1>2, <1>3, <1>4

-----------------------------------------------------------------------------
(* The steps of the emit pass.                                             *)

Cursors == pos \in Nat /\ cur \in Nat

LEMMA WriteFields ==
  ASSUME Laid, NEW a, Recorded(a)
  PROVE  /\ a.lo \in Nat /\ a.hi \in Nat /\ a.lo <= a.hi
         /\ a.what \notin {"header", "command"} => a.at[1] \in Nat /\ a.at[2] \in Nat
BY RecordedAt DEF Recorded

(* The header and the commands only have to end below the commands' end.   *)
LEMMA CommandRecorded ==
  ASSUME NEW w, w.lo \in Nat, w.hi \in Nat, w.lo <= w.hi,
         w.what = "header" \/ w.what = "command", w.hi <= EndOfCommands
  PROVE  Recorded(w)
<1>1. /\ w.what # "blob" /\ w.what # "relocs" /\ w.what # "node" /\ w.what # "done"
      /\ w.what \in {"header", "command", "blob", "relocs", "node", "done"}
  OBVIOUS
<1>2. w.what \notin {"blob", "relocs"} /\ w.what \notin {"node", "done"}
  BY <1>1
<1>3. QED
  BY <1>1, <1>2, Zenon DEF Recorded

LEMMA SumsStay ==
  ASSUME UNCHANGED archive
  PROVE  \A f : PartialSums(CmdSizes, Len(archive), f)' <=> PartialSums(CmdSizes, Len(archive), f)
<1>1. CmdSizes' = CmdSizes
  BY DEF CmdSizes
<1>2. QED
  BY <1>1 DEF PartialSums

LEMMA HeaderStep == ASSUME Laid, written = <<>>, Cursors, EmitHeader PROVE EmitInv' /\ Cursors'
<1>a. /\ stage = "built" /\ stage' = "emit" /\ i' = 1 /\ pos' = HeaderSize /\ cur' = cur
      /\ UNCHANGED places /\ j' = j /\ k' = k /\ j \in Nat /\ k \in Nat
      /\ HeaderSize \in Nat /\ cmdsize \in Nat /\ archive \in Archives
      /\ written' = <<[lo |-> 0, hi |-> 0 + HeaderSize, what |-> "header", at |-> <<0>>]>>
  BY LaidFields DEF EmitHeader, places, Write
<1>1. Laid'
  BY <1>a, LaidStays DEF Stages
<1>2. Cursors'
  BY <1>a DEF Cursors
<1>3. AtCommand'
  <2>1. PICK f : PartialSums(CmdSizes, Len(archive), f) /\ cmdsize = f[Len(archive)]
    BY DEF Laid, CommandsFit
  <2>2. f[0] = 0
    BY <2>1 DEF PartialSums
  <2>3. PartialSums(CmdSizes, Len(archive), f)' /\ UNCHANGED <<archive, cmdsize>>
    BY <1>a, <2>1, SumsStay DEF places
  <2>4. 1 \in 1..(Len(archive) + 1)
    BY <1>a, Commands
  <2>5. HeaderSize = HeaderSize + f[1 - 1]
    BY <1>a, <2>2
  <2>6. QED
    BY <1>a, <2>1, <2>3, <2>4, <2>5 DEF AtCommand
<1>4. AtBlob' /\ AtNode'
  BY <1>a DEF AtBlob, AtNode
<1>5. PICK w : w = [lo |-> 0, hi |-> 0 + HeaderSize, what |-> "header", at |-> <<0>>]
  OBVIOUS
<1>7. Recorded(w)
  <2>1. w.lo = 0 /\ w.hi = HeaderSize /\ w.what = "header"
    BY <1>a, <1>5
  <2>2. HeaderSize <= EndOfCommands
    BY <1>a DEF EndOfCommands
  <2>3. QED
    BY <1>a, <2>1, <2>2, CommandRecorded
<1>8. Passed(w)'
  BY <1>a, <1>5 DEF Passed
<1>9. AllWritten' /\ NothingLost' /\ \E S : written' \in Seq(S)
  <2>0. written' = <<w>>
    BY <1>a, <1>5
  <2>1. /\ written' \in Seq({w})
        /\ DOMAIN written' = {1} /\ written'[1] = w
    BY <2>0
  <2>2. Recorded(w)'
    BY <1>a, <1>7, RecordedStays
  <2>3. Recorded(written[1])' /\ Passed(written[1])'
    BY <1>8, <2>1, <2>2
  <2>4. AllWritten'
    BY <2>1, <2>3 DEF AllWritten
  <2>5. \A x, y \in DOMAIN written' : ~(x < y)
    BY <2>1
  <2>6. NothingLost'
    BY <2>5 DEF NothingLost
  <2>7. QED
    BY <2>1, <2>4, <2>6
<1>10. QED
  BY <1>1, <1>2, <1>3, <1>4, <1>9 DEF EmitInv

LEMMA CommandStep == ASSUME EmitInv, Cursors, EmitCommand PROVE EmitInv' /\ Cursors'
<1>a. /\ stage = "emit" /\ stage' = "emit" /\ i' = i + 1 /\ pos' = pos + CmdSize(LC) /\ cur' = cur
      /\ UNCHANGED places /\ j' = j /\ k' = k /\ i <= Len(archive)
      /\ written' = Append(written, [lo |-> pos, hi |-> pos + CmdSize(LC), what |-> "command", at |-> <<i>>])
  BY DEF EmitCommand, places, Write
<1>b. /\ Laid /\ AtCommand /\ (\E S : written \in Seq(S)) /\ AllWritten /\ NothingLost
      /\ pos \in Nat /\ cur \in Nat
  BY DEF EmitInv, Cursors
<1>c. /\ i \in Nat /\ j \in Nat /\ k \in Nat /\ archive \in Archives /\ HeaderSize \in Nat
      /\ EndOfCommands \in Nat
  BY <1>b, LaidFields DEF EndOfCommands
<1>1. PICK f : /\ PartialSums(CmdSizes, Len(archive), f) /\ cmdsize = f[Len(archive)]
               /\ i \in 1..(Len(archive) + 1) /\ pos = HeaderSize + f[i - 1]
  BY <1>a, <1>b DEF AtCommand
<1>2. Len(archive) \in Nat /\ i \in DOMAIN archive /\ i + 1 \in 1..(Len(archive) + 1)
  BY <1>a, <1>c, <1>1, Commands
<1>3. /\ f[i - 1] \in Nat /\ f[i] \in Nat /\ f[i] = f[i - 1] + CmdSize(LC) /\ CmdSize(LC) \in Nat
      /\ HeaderSize + f[i - 1] + CmdSize(LC) <= EndOfCommands
  BY <1>b, <1>c, <1>1, <1>2, CommandsBelowEnd, Commands, CmdSizeType DEF LC
<1>4. Laid'
  BY <1>a, <1>b, <1>c, LaidStays DEF Stages
<1>5. Cursors'
  BY <1>a, <1>b, <1>3 DEF Cursors
<1>6. AtCommand'
  <2>1. PartialSums(CmdSizes, Len(archive), f)' /\ UNCHANGED <<archive, cmdsize>>
    BY <1>a, <1>1, SumsStay DEF places
  <2>2. i + 1 - 1 = i /\ pos + CmdSize(LC) = HeaderSize + f[i]
    BY <1>1, <1>3, <1>c
  <2>3. QED
    BY <1>a, <1>1, <1>2, <2>1, <2>2 DEF AtCommand
<1>7. AtBlob' /\ AtNode'
  BY <1>a DEF AtBlob, AtNode
<1>8. PICK w : w = [lo |-> pos, hi |-> pos + CmdSize(LC), what |-> "command", at |-> <<i>>]
  OBVIOUS
<1>9. Recorded(w)
  <2>1. w.lo = pos /\ w.hi = pos + CmdSize(LC) /\ w.what = "command"
    BY <1>8
  <2>2. /\ pos + CmdSize(LC) \in Nat /\ pos <= pos + CmdSize(LC)
        /\ pos + CmdSize(LC) <= EndOfCommands
    <3>1. PICK h : h = HeaderSize + f[i - 1]
      OBVIOUS
    <3>2. h = pos /\ h + CmdSize(LC) <= EndOfCommands
      BY <1>1, <1>3, <3>1
    <3>3. PICK c \in Nat : c = CmdSize(LC)
      BY <1>3
    <3>4. pos \in Nat /\ pos + c <= EndOfCommands
      BY <1>b, <3>2, <3>3
    <3>5. pos + c \in Nat /\ pos <= pos + c
      BY <3>4
    <3>6. QED
      BY <3>3, <3>4, <3>5
  <2>3. QED
    BY <1>b, <2>1, <2>2, CommandRecorded
<1>10. Passed(w)'
  BY <1>a, <1>b, <1>3, <1>8 DEF Passed
<1>11. ASSUME NEW a, Recorded(a), Passed(a)
       PROVE  Passed(a)' /\ (a.hi <= w.lo \/ w.hi <= a.lo \/ Lone(a))
  <2>1. a.lo \in Nat /\ a.hi \in Nat /\ (a.what \notin {"header", "command"} => a.at[1] \in Nat)
    BY <1>b, <1>11, WriteFields
  <2>2. a.hi <= pos \/ EndOfCommands <= a.lo
    BY <1>b, <1>11, BehindCommands
  <2>3. w.lo = pos /\ w.hi <= EndOfCommands /\ w.hi \in Nat
    BY <1>8, <1>9 DEF Recorded
  <2>4. a.hi <= w.lo \/ w.hi <= a.lo
    <3>1. pos \in Nat /\ EndOfCommands \in Nat
      BY <1>b, <1>c
    <3>2. QED
      BY <2>1, <2>2, <2>3, <3>1
  <2>5. a.what \in {"header", "command"} => a.hi <= pos'
    BY <1>a, <1>b, <1>3, <1>11, <2>1 DEF Passed
  <2>6. a.what \notin {"header", "command"} => a.at[1] < i' /\ a.at[1] <= i'
    BY <1>a, <1>c, <1>11, <2>1 DEF Passed
  <2>7. QED
    BY <1>a, <2>4, <2>5, <2>6 DEF Passed
<1>12. (\E S : written' \in Seq(S)) /\ AllWritten' /\ NothingLost'
  BY <1>a, <1>b, <1>8, <1>9, <1>10, <1>11, EmitWrite
<1>13. QED
  BY <1>4, <1>5, <1>6, <1>7, <1>12 DEF EmitInv

LEMMA SegmentStep == ASSUME EmitInv, Cursors, EmitSegment PROVE EmitInv' /\ Cursors'
<1>a. /\ stage = "emit" /\ stage' = "esect" /\ i' = i /\ j' = 1 /\ k' = k
      /\ pos' = pos + SegCmdSize /\ cur' = cur /\ i <= Len(archive) /\ IsSegment(LC)
      /\ UNCHANGED places /\ UNCHANGED archive
      /\ written' = Append(written, [lo |-> pos, hi |-> pos + SegCmdSize, what |-> "command", at |-> <<i>>])
  BY DEF EmitSegment, places, Write
<1>b. /\ Laid /\ AtCommand /\ (\E S : written \in Seq(S)) /\ AllWritten /\ NothingLost
      /\ pos \in Nat /\ cur \in Nat
  BY DEF EmitInv, Cursors
<1>c. /\ i \in Nat /\ j \in Nat /\ k \in Nat /\ archive \in Archives /\ HeaderSize \in Nat
      /\ EndOfCommands \in Nat /\ SegCmdSize \in Nat /\ SectCmdSize \in Nat
  BY <1>b, LaidFields DEF EndOfCommands
<1>1. PICK f : /\ PartialSums(CmdSizes, Len(archive), f) /\ cmdsize = f[Len(archive)]
               /\ i \in 1..(Len(archive) + 1) /\ pos = HeaderSize + f[i - 1]
  BY <1>a, <1>b DEF AtCommand
<1>2. Len(archive) \in Nat /\ i \in DOMAIN archive
  BY <1>a, <1>c, <1>1, Commands
<1>3. /\ f[i - 1] \in Nat /\ CmdSize(LC) \in Nat /\ LC \in LoadCommand
      /\ HeaderSize + f[i - 1] + CmdSize(LC) <= EndOfCommands
  BY <1>b, <1>c, <1>1, <1>2, CommandsBelowEnd, Commands, CmdSizeType DEF LC
<1>4. Len(LC.sects) \in Nat /\ SegCmdSize <= CmdSize(LC) /\ pos + SegCmdSize <= EndOfCommands
  <2>1. Len(LC.sects) \in Nat
    BY <1>3, CommandParts
  <2>2. CmdSize(LC) = SegCmdSize + Len(LC.sects) * SectCmdSize
    BY <1>a DEF CmdSize
  <2>3. PICK p \in Nat : p = Len(LC.sects) * SectCmdSize
    BY <1>c, <2>1
  <2>4. SegCmdSize <= CmdSize(LC)
    BY <1>c, <2>2, <2>3
  <2>5. PICK h : h = HeaderSize + f[i - 1]
    OBVIOUS
  <2>6. h = pos /\ h + CmdSize(LC) <= EndOfCommands
    BY <1>1, <1>3, <2>5
  <2>7. PICK m \in Nat : m = CmdSize(LC)
    BY <1>3
  <2>8. pos + m <= EndOfCommands /\ SegCmdSize <= m /\ pos \in Nat
    BY <1>b, <2>4, <2>6, <2>7
  <2>9. QED
    BY <1>c, <2>1, <2>4, <2>8
<1>5. Laid'
  BY <1>a, <1>b, <1>c, LaidStays DEF Stages
<1>6. Cursors'
  BY <1>a, <1>b, <1>c DEF Cursors
<1>7. AtCommand'
  <2>1. PartialSums(CmdSizes, Len(archive), f)' /\ UNCHANGED <<archive, cmdsize>>
    BY <1>a, <1>1, SumsStay DEF places
  <2>2. i \in Segments /\ Segments' = Segments /\ LC' = LC
    BY <1>a, <1>2 DEF Segments, LC
  <2>3. SectCmdsDone' = 0
    BY <1>a, <2>2 DEF SectCmdsDone
  <2>4. pos + SegCmdSize = HeaderSize + f[i - 1] + SegCmdSize + 0 * SectCmdSize /\ 0 \in 0..Len(LC.sects)
    BY <1>b, <1>c, <1>1, <1>3, <1>4
  <2>5. QED
    BY <1>a, <1>1, <2>1, <2>2, <2>3, <2>4 DEF AtCommand
<1>8. AtBlob' /\ AtNode'
  BY <1>a DEF AtBlob, AtNode
<1>9. PICK w : w = [lo |-> pos, hi |-> pos + SegCmdSize, what |-> "command", at |-> <<i>>]
  OBVIOUS
<1>10. Recorded(w)
  <2>1. w.lo = pos /\ w.hi = pos + SegCmdSize /\ w.what = "command"
    BY <1>9
  <2>2. /\ pos \in Nat /\ pos + SegCmdSize \in Nat /\ pos <= pos + SegCmdSize
        /\ pos + SegCmdSize <= EndOfCommands
    BY <1>b, <1>c, <1>4
  <2>3. QED
    BY <2>1, <2>2, CommandRecorded
<1>11. Passed(w)'
  BY <1>a, <1>b, <1>c, <1>9 DEF Passed
<1>12. ASSUME NEW a, Recorded(a), Passed(a)
       PROVE  Passed(a)' /\ (a.hi <= w.lo \/ w.hi <= a.lo \/ Lone(a))
  <2>1. a.lo \in Nat /\ a.hi \in Nat /\ (a.what \notin {"header", "command"} => a.at[1] \in Nat)
    BY <1>b, <1>12, WriteFields
  <2>2. a.hi <= pos \/ EndOfCommands <= a.lo
    BY <1>b, <1>12, BehindCommands
  <2>3. w.lo = pos /\ w.hi <= EndOfCommands /\ w.hi \in Nat
    BY <1>b, <1>c, <1>4, <1>9
  <2>4. a.hi <= w.lo \/ w.hi <= a.lo
    BY <1>b, <1>c, <2>1, <2>2, <2>3
  <2>5. a.what \in {"header", "command"} => a.hi <= pos'
    BY <1>a, <1>b, <1>c, <1>12, <2>1 DEF Passed
  <2>6. a.what \notin {"header", "command"} => a.at[1] <= i' /\ a.at[1] # i'
    BY <1>a, <1>c, <1>12, <2>1 DEF Passed
  <2>7. QED
    BY <1>a, <2>4, <2>5, <2>6 DEF Passed
<1>13. (\E S : written' \in Seq(S)) /\ AllWritten' /\ NothingLost'
  BY <1>a, <1>b, <1>9, <1>10, <1>11, <1>12, EmitWrite
<1>14. QED
  BY <1>5, <1>6, <1>7, <1>8, <1>13 DEF EmitInv

(* The section command goes behind those of the sections before it, and    *)
(* the blobs start where the section is.                                   *)
LEMMA SectionStep == ASSUME EmitInv, Cursors, EmitSection PROVE EmitInv' /\ Cursors'
<1>a. /\ stage = "esect" /\ stage' = "eblob" /\ i' = i /\ j' = j /\ k' = 1
      /\ pos' = pos + SectCmdSize /\ j <= Len(LC.sects)
      /\ cur' = (CHOOSE s \in sect : s.at = <<i, j>>).loc.offset
      /\ UNCHANGED places /\ UNCHANGED <<archive, sect, blob>>
      /\ written' = Append(written, [lo |-> pos, hi |-> pos + SectCmdSize, what |-> "command", at |-> <<i, j>>])
  BY DEF EmitSection, places, Write
<1>b. /\ Laid /\ AtCommand /\ (\E S : written \in Seq(S)) /\ AllWritten /\ NothingLost
      /\ pos \in Nat /\ cur \in Nat
  BY DEF EmitInv, Cursors
<1>c. /\ i \in Nat /\ j \in Nat /\ k \in Nat /\ archive \in Archives /\ HeaderSize \in Nat
      /\ EndOfCommands \in Nat /\ SegCmdSize \in Nat /\ SectCmdSize \in Nat
  BY <1>b, LaidFields DEF EndOfCommands
<1>1. PICK f : /\ PartialSums(CmdSizes, Len(archive), f) /\ cmdsize = f[Len(archive)]
               /\ i \in Segments /\ j \in Nat \ {0} /\ SectCmdsDone \in 0..Len(LC.sects)
               /\ pos = HeaderSize + f[i - 1] + SegCmdSize + SectCmdsDone * SectCmdSize
  BY <1>a, <1>b DEF AtCommand
<1>2. i \in DOMAIN archive /\ IsSegment(LC) /\ LC \in LoadCommand
  BY <1>c, <1>1, Commands DEF Segments, LC
<1>3. /\ f[i - 1] \in Nat /\ HeaderSize + f[i - 1] + CmdSize(LC) <= EndOfCommands
      /\ CmdSize(LC) = SegCmdSize + Len(LC.sects) * SectCmdSize
  BY <1>b, <1>c, <1>1, <1>2, CommandsBelowEnd DEF CmdSize, LC
<1>4. /\ Len(LC.sects) \in Nat /\ SectCmdsDone = j - 1 /\ j \in 1..Len(LC.sects)
      /\ DOMAIN LC.sects = 1..Len(LC.sects) /\ LC.sects[j] \in Sect
  <2>1. Len(LC.sects) \in Nat /\ DOMAIN LC.sects = 1..Len(LC.sects)
    BY <1>2, CommandParts
  <2>2. SectCmdsDone \in {0, j - 1} /\ (LC.sects # <<>> => SectCmdsDone = j - 1)
    BY <1>a DEF SectCmdsDone
  <2>3. LC.sects # <<>>
    BY <1>a, <1>1, <2>1
  <2>4. j \in 1..Len(LC.sects)
    BY <1>a, <1>c, <1>1, <2>1, <2>2, <2>3
  <2>5. QED
    BY <1>2, <2>1, <2>2, <2>3, <2>4, CommandParts
<1>5. pos + SectCmdSize <= EndOfCommands
  <2>1. (j - 1) * SectCmdSize + SectCmdSize <= Len(LC.sects) * SectCmdSize
    <3>1. j * SectCmdSize <= Len(LC.sects) * SectCmdSize
      BY <1>c, <1>4
    <3>2. (j - 1) * SectCmdSize + SectCmdSize = j * SectCmdSize
      BY <1>c
    <3>3. QED
      BY <3>1, <3>2
  <2>2. PICK p \in Int : p = (j - 1) * SectCmdSize
    BY <1>c
  <2>3. PICK q \in Int : q = Len(LC.sects) * SectCmdSize
    BY <1>c, <1>4
  <2>4. /\ pos = HeaderSize + f[i - 1] + SegCmdSize + p /\ p + SectCmdSize <= q
        /\ CmdSize(LC) = SegCmdSize + q
        /\ f[i - 1] \in Nat /\ HeaderSize + f[i - 1] + CmdSize(LC) <= EndOfCommands
    BY <1>1, <1>3, <1>4, <2>1, <2>2, <2>3
  <2>5. QED
    BY <1>c, <2>4
<1>6. PICK c \in sect : c.at = <<i, j>> /\ cur' = c.loc.offset /\ c.loc.offset \in Nat
  <2>1. Slot(i, j)
    BY <1>2, <1>4 DEF Slot, LC
  <2>2. \E c \in sect : c.at = <<i, j>>
    BY <1>b, <2>1 DEF Laid, AllSectsPlaced, SectPlaced
  <2>3. QED
    BY <1>a, <1>b, <2>2, LaidFields
<1>7. Laid'
  BY <1>a, <1>b, <1>c, LaidStays DEF Stages
<1>8. Cursors'
  BY <1>a, <1>b, <1>c, <1>6 DEF Cursors
<1>9. AtCommand'
  <2>1. PartialSums(CmdSizes, Len(archive), f)' /\ UNCHANGED <<archive, cmdsize>>
    BY <1>a, <1>1, SumsStay DEF places
  <2>2. Segments' = Segments /\ LC' = LC
    BY <1>a DEF Segments, LC
  <2>3. SectCmdsDone' = j
    BY <1>a, <1>4, <2>2 DEF SectCmdsDone
  <2>4. pos + SectCmdSize = HeaderSize + f[i - 1] + SegCmdSize + j * SectCmdSize
    <3>1. PICK p \in Int : p = (j - 1) * SectCmdSize
      BY <1>c
    <3>2. PICK q \in Int : q = j * SectCmdSize
      BY <1>c
    <3>3. p + SectCmdSize = q /\ p \in Int /\ q \in Int
      BY <1>c, <3>1, <3>2
    <3>4. PICK x \in Int : x = HeaderSize + f[i - 1] + SegCmdSize
      BY <1>c, <1>3
    <3>5. pos = x + p
      BY <1>1, <1>4, <3>1, <3>4
    <3>6. pos + SectCmdSize = x + q
      BY <1>c, <3>3, <3>5
    <3>7. QED
      BY <3>2, <3>4, <3>6
  <2>5. QED
    BY <1>a, <1>1, <1>4, <2>1, <2>2, <2>3, <2>4 DEF AtCommand
<1>10. AtBlob'
  <2>1. Slot(i, j)' /\ LC' = LC /\ 1 \in 1..(Len(LC.sects[j].blobs) + 1)
    BY <1>a, <1>2, <1>4, SectParts DEF Slot, LC
  <2>2. Follows(i, j, k, c.loc.offset, cur)'
    BY <1>a, <1>6 DEF Follows
  <2>3. c.at = <<i', j'>> /\ c \in sect' /\ c.loc.offset <= cur'
    BY <1>a, <1>6
  <2>4. QED
    BY <1>a, <2>1, <2>2, <2>3 DEF AtBlob
<1>11. AtNode'
  BY <1>a DEF AtNode
<1>12. PICK w : w = [lo |-> pos, hi |-> pos + SectCmdSize, what |-> "command", at |-> <<i, j>>]
  OBVIOUS
<1>13. Recorded(w)
  <2>1. w.lo = pos /\ w.hi = pos + SectCmdSize /\ w.what = "command"
    BY <1>12
  <2>2. /\ pos \in Nat /\ pos + SectCmdSize \in Nat /\ pos <= pos + SectCmdSize
        /\ pos + SectCmdSize <= EndOfCommands
    BY <1>b, <1>c, <1>5
  <2>3. QED
    BY <2>1, <2>2, CommandRecorded
<1>14. Passed(w)'
  BY <1>a, <1>b, <1>c, <1>12 DEF Passed
<1>15. ASSUME NEW a, Recorded(a), Passed(a)
       PROVE  Passed(a)' /\ (a.hi <= w.lo \/ w.hi <= a.lo \/ Lone(a))
  <2>1. a.lo \in Nat /\ a.hi \in Nat /\ (a.what \notin {"header", "command"} => a.at[1] \in Nat)
    BY <1>b, <1>15, WriteFields
  <2>2. a.hi <= pos \/ EndOfCommands <= a.lo
    BY <1>b, <1>15, BehindCommands
  <2>3. w.lo = pos /\ w.hi <= EndOfCommands /\ w.hi \in Nat
    BY <1>b, <1>c, <1>5, <1>12
  <2>4. a.hi <= w.lo \/ w.hi <= a.lo
    BY <1>b, <1>c, <2>1, <2>2, <2>3
  <2>5. a.what \in {"header", "command"} => a.hi <= pos'
    BY <1>a, <1>b, <1>c, <1>15, <2>1 DEF Passed
  <2>6. a.what \notin {"header", "command"} => a.at[1] <= i' /\ (a.at[1] = i' => a.at[2] < j')
    BY <1>a, <1>c, <1>15, <2>1 DEF Passed
  <2>7. QED
    BY <1>a, <2>4, <2>5, <2>6 DEF Passed
<1>16. (\E S : written' \in Seq(S)) /\ AllWritten' /\ NothingLost'
  BY <1>a, <1>b, <1>12, <1>13, <1>14, <1>15, EmitWrite
<1>17. QED
  BY <1>7, <1>8, <1>9, <1>10, <1>11, <1>16 DEF EmitInv

(* A step that writes no command leaves their cursor where it is.          *)
LEMMA AtCommandStays ==
  ASSUME AtCommand, UNCHANGED <<archive, cmdsize, i, pos>>, j' \in Nat \ {0},
         stage \in {"esect", "eblob", "enode"}, stage' \in {"esect", "eblob", "enode"},
         SectCmdsDone' = SectCmdsDone
  PROVE  AtCommand'
<1>1. PICK f : /\ PartialSums(CmdSizes, Len(archive), f) /\ cmdsize = f[Len(archive)]
               /\ i \in Segments /\ SectCmdsDone \in 0..Len(LC.sects)
               /\ pos = HeaderSize + f[i - 1] + SegCmdSize + SectCmdsDone * SectCmdSize
  BY DEF AtCommand
<1>2. PartialSums(CmdSizes, Len(archive), f)'
  BY <1>1, SumsStay
<1>3. Segments' = Segments /\ LC' = LC
  BY DEF Segments, LC
<1>4. QED
  BY <1>1, <1>2, <1>3 DEF AtCommand

(* The blob about to be written is the one that the build has placed at    *)
(* the cursor.                                                             *)
LEMMA BlobAtCursor ==
  ASSUME Laid, Cursors, AtBlob, stage = "eblob", k <= Len(LC.sects[j].blobs)
  PROVE  \E c \in sect, b \in blob :
           /\ c.at = <<i, j>> /\ b.at = <<i, j, k>> /\ b.loc.offset = cur
           /\ b.size = BuiltSize(LC.sects[j].blobs[k])
           /\ c.loc.offset <= cur /\ cur + b.size <= SectEnd(c)
           /\ Follows(i, j, k + 1, c.loc.offset, cur + b.size)
<1>1. PICK c \in sect : /\ c.at = <<i, j>> /\ c.loc.offset <= cur
                        /\ Follows(i, j, k, c.loc.offset, cur)
  BY DEF AtBlob
<1>2. Slot(i, j) /\ k \in 1..(Len(LC.sects[j].blobs) + 1) /\ Len(LC.sects[j].blobs) \in Nat
  BY LaidFields, SlotParts, SectParts DEF AtBlob, LC
<1>3. k \in 1..Len(LC.sects[j].blobs) /\ c.at[1] = i /\ c.at[2] = j
  BY <1>1, <1>2
<1>4. Run(i, j, Len(LC.sects[j].blobs), c.loc.offset, c.reloff)
  <2>1. Run(c.at[1], c.at[2], Len(archive[c.at[1]].sects[c.at[2]].blobs), c.loc.offset, c.reloff)
    BY DEF Laid, LaidOut
  <2>2. QED
    BY <1>3, <2>1 DEF LC
<1>5. PICK b \in blob : /\ b.at = <<i, j, k>> /\ b.size = BuiltSize(LC.sects[j].blobs[k])
                        /\ Follows(i, j, k, c.loc.offset, b.loc.offset)
                        /\ b.loc.offset + b.size <= c.reloff
  BY <1>3, <1>4 DEF Run, LC
<1>6. b.loc.offset = cur
  BY <1>1, <1>5, FollowsOnce DEF Laid
<1>7. Follows(i, j, k + 1, c.loc.offset, cur + b.size)
  <2>1. PICK m \in Nat : m = k + 1 /\ m # 1 /\ m - 1 = k
    BY <1>3
  <2>2. b.at = <<i, j, m - 1>>
    BY <1>5, <2>1
  <2>3. cur + b.size = b.loc.offset + b.size
    BY <1>6
  <2>4. Follows(i, j, m, c.loc.offset, cur + b.size)
    BY <2>1, <2>2, <2>3 DEF Follows
  <2>5. QED
    BY <2>1, <2>4
<1>8. cur + b.size <= SectEnd(c)
  <2>1. /\ c.reloff <= SectEnd(c) /\ c.reloff \in Nat /\ SectEnd(c) \in Nat /\ b.size \in Nat
        /\ cur \in Nat
    BY LaidFields DEF Cursors
  <2>2. QED
    BY <1>5, <1>6, <2>1
<1>9. QED
  BY <1>1, <1>5, <1>6, <1>7, <1>8

LEMMA BlobStep == ASSUME EmitInv, Cursors, EmitBlob PROVE EmitInv' /\ Cursors'
<1>a. /\ stage = "eblob" /\ stage' = "eblob" /\ i' = i /\ j' = j /\ k' = k + 1
      /\ pos' = pos /\ k <= Len(LC.sects[j].blobs)
      /\ UNCHANGED places /\ UNCHANGED <<archive, sect, blob, cmdsize>>
  BY DEF EmitBlob, places
<1>b. /\ Laid /\ AtCommand /\ AtBlob /\ (\E S : written \in Seq(S)) /\ AllWritten /\ NothingLost
      /\ pos \in Nat /\ cur \in Nat
  BY DEF EmitInv, Cursors
<1>c. i \in Nat /\ j \in Nat /\ k \in Nat /\ archive \in Archives
  BY <1>b, LaidFields
<1>1. PICK c \in sect, b \in blob :
        /\ c.at = <<i, j>> /\ b.at = <<i, j, k>> /\ b.loc.offset = cur
        /\ b.size = BuiltSize(LC.sects[j].blobs[k])
        /\ c.loc.offset <= cur /\ cur + b.size <= SectEnd(c)
        /\ Follows(i, j, k + 1, c.loc.offset, cur + b.size)
  BY <1>a, <1>b, BlobAtCursor DEF Cursors
<1>2. /\ c.loc.offset \in Nat /\ SectEnd(c) \in Nat /\ b.size \in Nat /\ b.loc.vmaddr \in Nat
  BY <1>b, LaidFields
<1>3. /\ Slot(i, j) /\ k \in 1..(Len(LC.sects[j].blobs) + 1) /\ Len(LC.sects[j].blobs) \in Nat
      /\ j \in Nat \ {0} /\ i \in DOMAIN archive
  BY <1>a, <1>b, <1>c, SlotParts, SectParts DEF AtBlob, LC, Slot
<1>4. cur' = cur + b.size
  <2>1. CASE LC.sects[j].blobs[k].active
    BY <1>1, <2>1 DEF EmitBlob, BuiltSize
  <2>2. CASE ~LC.sects[j].blobs[k].active
    BY <1>b, <1>1, <2>2 DEF EmitBlob, BuiltSize
  <2>3. QED
    BY <2>1, <2>2
<1>5. Laid'
  BY <1>a, <1>b, <1>c, LaidStays DEF Stages
<1>6. Cursors'
  BY <1>a, <1>b, <1>2, <1>4 DEF Cursors
<1>7. AtCommand'
  <2>1. SectCmdsDone' = SectCmdsDone
    BY <1>a DEF SectCmdsDone, LC
  <2>2. QED
    BY <1>a, <1>b, <1>3, <2>1, AtCommandStays
<1>8. AtBlob'
  <2>1. Slot(i, j)' /\ LC' = LC /\ k + 1 \in 1..(Len(LC.sects[j].blobs) + 1)
    BY <1>a, <1>3 DEF Slot, LC
  <2>2. Follows(i, j, k, c.loc.offset, cur)'
    BY <1>a, <1>1, <1>4 DEF Follows
  <2>3. c.at = <<i', j'>> /\ c \in sect' /\ c.loc.offset <= cur'
    BY <1>a, <1>b, <1>1, <1>2, <1>4
  <2>4. QED
    BY <1>a, <2>1, <2>2, <2>3 DEF AtBlob
<1>9. AtNode'
  BY <1>a DEF AtNode
<1>10. ASSUME NEW a, Recorded(a), Passed(a) PROVE Passed(a)'
  <2>1. a.lo \in Nat /\ a.hi \in Nat /\ (a.what \notin {"header", "command"} => a.at[1] \in Nat)
    BY <1>b, <1>10, WriteFields
  <2>2. a.hi <= cur => a.hi <= cur'
    BY <1>b, <1>2, <1>4, <2>1
  <2>3. Lone(a) => Lone(a)'
    BY <1>a, RecordedStays
  <2>4. QED
    BY <1>a, <1>10, <2>2, <2>3 DEF Passed
<1>11. (\E S : written' \in Seq(S)) /\ AllWritten' /\ NothingLost'
  <2>1. CASE ~LC.sects[j].blobs[k].active
    <3>1. UNCHANGED written
      BY <2>1 DEF EmitBlob
    <3>2. QED
      BY <1>a, <1>b, <1>10, <3>1, EmitQuiet
  <2>2. CASE LC.sects[j].blobs[k].active
    <3>1. LC.sects[j].blobs[k].wide = b.size
      BY <1>1, <2>2 DEF BuiltSize
    <3>2. PICK w : w = [lo |-> cur, hi |-> cur + b.size, what |-> "blob", at |-> <<i, j, k>>]
      OBVIOUS
    <3>3. written' = Append(written, w)
      BY <2>2, <3>1, <3>2 DEF EmitBlob, Write
    <3>4. LoadedAt(i, cur) = b.loc.vmaddr
      <4>1. FileDistance(b) = AddrDistance(b)
        BY <1>b DEF Laid, InStep
      <4>2. b.loc.offset - seg[i].fileoff = b.loc.vmaddr - seg[i].vmaddr
        BY <1>1, <4>1 DEF FileDistance, AddrDistance
      <4>3. seg[i].fileoff \in Nat /\ seg[i].vmaddr \in Nat
        BY <1>b, <1>3, LaidFields
      <4>4. QED
        BY <1>b, <1>1, <1>2, <4>2, <4>3 DEF LoadedAt
    <3>5. Placed(<<i, j, k>>) = b
      BY <1>b, <1>1 DEF Laid, Once, Placed
    <3>6. InSection(w)
      BY <1>1, <3>2 DEF InSection
    <3>7. Recorded(w)
      BY <1>b, <1>2, <3>2, <3>4, <3>5, <3>6 DEF Recorded
    <3>8. Passed(w)'
      BY <1>a, <1>b, <1>c, <1>2, <1>4, <3>2 DEF Passed
    <3>9. ASSUME NEW a, Recorded(a), Passed(a)
          PROVE  Passed(a)' /\ (a.hi <= w.lo \/ w.hi <= a.lo \/ Lone(a))
      <4>1. a.lo \in Nat /\ a.hi \in Nat
        BY <1>b, <3>9, WriteFields
      <4>2. a.hi <= cur \/ SectEnd(c) <= a.lo
        BY <1>a, <1>b, <1>1, <3>9, BehindSection
      <4>3. w.lo = cur /\ w.hi = cur + b.size
        BY <3>2
      <4>4. a.hi <= w.lo \/ w.hi <= a.lo
        BY <1>b, <1>1, <1>2, <4>1, <4>2, <4>3
      <4>5. QED
        BY <1>10, <3>9, <4>4
    <3>10. QED
      BY <1>a, <1>b, <3>3, <3>7, <3>8, <3>9, EmitWrite
  <2>3. QED
    BY <2>1, <2>2
<1>12. QED
  BY <1>5, <1>6, <1>7, <1>8, <1>9, <1>11 DEF EmitInv

(* The relocations follow the last blob, where the build has put them.     *)
LEMMA RelocationsStep == ASSUME EmitInv, Cursors, EmitRelocations PROVE EmitInv' /\ Cursors'
<1>a. /\ stage = "eblob" /\ stage' = "esect" /\ i' = i /\ j' = j + 1 /\ k' = k
      /\ pos' = pos /\ k > Len(LC.sects[j].blobs)
      /\ cur' = cur + LC.sects[j].nreloc * RelocSize
      /\ UNCHANGED places /\ UNCHANGED <<archive, sect, blob, cmdsize>>
      /\ written' = Append(written, [lo |-> cur, hi |-> cur + LC.sects[j].nreloc * RelocSize,
                                     what |-> "relocs", at |-> <<i, j>>])
  BY DEF EmitRelocations, places, Write
<1>b. /\ Laid /\ AtCommand /\ AtBlob /\ (\E S : written \in Seq(S)) /\ AllWritten /\ NothingLost
      /\ pos \in Nat /\ cur \in Nat
  BY DEF EmitInv, Cursors
<1>c. i \in Nat /\ j \in Nat /\ k \in Nat /\ archive \in Archives /\ RelocSize \in Nat
  BY <1>b, LaidFields
<1>1. PICK c \in sect : /\ c.at = <<i, j>> /\ c.loc.offset <= cur
                        /\ Follows(i, j, k, c.loc.offset, cur)
  BY <1>a, <1>b DEF AtBlob
<1>2. /\ Slot(i, j) /\ k \in 1..(Len(LC.sects[j].blobs) + 1) /\ Len(LC.sects[j].blobs) \in Nat
      /\ j \in Nat \ {0} /\ Len(LC.sects) \in Nat /\ j <= Len(LC.sects)
  <2>1. Slot(i, j) /\ k \in 1..(Len(LC.sects[j].blobs) + 1)
    BY <1>a, <1>b DEF AtBlob
  <2>2. LC \in LoadCommand /\ j \in Nat \ {0} /\ j <= Len(LC.sects) /\ LC.sects[j] \in Sect
    BY <1>c, <2>1, SlotParts DEF LC
  <2>3. QED
    BY <2>1, <2>2, CommandParts, SectParts
<1>3. k = Len(LC.sects[j].blobs) + 1 /\ c.at[1] = i /\ c.at[2] = j
  <2>1. PICK n \in Nat : n = Len(LC.sects[j].blobs)
    BY <1>2
  <2>2. k \in 1..(n + 1) /\ k > n
    BY <1>a, <1>2, <2>1
  <2>3. k = n + 1
    BY <1>c, <2>2
  <2>4. QED
    BY <1>1, <2>1, <2>3
<1>4. /\ c.nreloc = LC.sects[j].nreloc
      /\ Run(i, j, Len(LC.sects[j].blobs), c.loc.offset, c.reloff)
  <2>1. /\ c.nreloc = archive[c.at[1]].sects[c.at[2]].nreloc
        /\ Run(c.at[1], c.at[2], Len(archive[c.at[1]].sects[c.at[2]].blobs), c.loc.offset, c.reloff)
    BY <1>b DEF Laid, LaidOut
  <2>2. QED
    BY <1>3, <2>1 DEF LC
<1>5. cur = c.reloff
  <2>1. Follows(i, j, k, c.loc.offset, c.reloff)
    BY <1>3, <1>4 DEF Run
  <2>2. QED
    BY <1>b, <1>1, <2>1, FollowsOnce DEF Laid
<1>6. PICK n \in Nat : n = LC.sects[j].nreloc * RelocSize
  <2>1. c.nreloc \in Nat
    BY <1>b, LaidFields
  <2>2. QED
    BY <1>c, <1>4, <2>1
<1>7. /\ cur' = cur + n /\ SectEnd(c) = cur + n
      /\ c.loc.offset \in Nat
  BY <1>a, <1>b, <1>4, <1>5, <1>6, LaidFields DEF SectEnd
<1>8. Laid'
  BY <1>a, <1>b, <1>c, LaidStays DEF Stages
<1>9. Cursors'
  BY <1>a, <1>b, <1>6, <1>7 DEF Cursors
<1>10. AtCommand'
  <2>1. LC.sects # <<>> /\ LC' = LC /\ j + 1 - 1 = j
    BY <1>a, <1>c, <1>2 DEF LC
  <2>2. SectCmdsDone' = SectCmdsDone
    <3>1. j' - 1 = j /\ stage = "eblob" /\ stage' # "eblob"
      BY <1>a, <1>c
    <3>2. SectCmdsDone = j /\ SectCmdsDone' = j' - 1
      BY <2>1, <3>1 DEF SectCmdsDone
    <3>3. QED
      BY <3>1, <3>2
  <2>3. QED
    BY <1>a, <1>b, <1>c, <2>2, AtCommandStays
<1>11. AtBlob' /\ AtNode'
  BY <1>a DEF AtBlob, AtNode
<1>12. PICK w : w = [lo |-> cur, hi |-> cur + n, what |-> "relocs", at |-> <<i, j>>]
  OBVIOUS
<1>13. Recorded(w)
  <2>1. InSection(w)
    BY <1>b, <1>1, <1>6, <1>7, <1>12 DEF InSection
  <2>2. QED
    BY <1>b, <1>1, <1>5, <1>6, <1>12, <2>1 DEF Recorded
<1>14. Passed(w)'
  BY <1>a, <1>c, <1>12 DEF Passed
<1>15. ASSUME NEW a, Recorded(a), Passed(a)
       PROVE  Passed(a)' /\ (a.hi <= w.lo \/ w.hi <= a.lo \/ Lone(a))
  <2>1. /\ a.lo \in Nat /\ a.hi \in Nat
        /\ a.what \notin {"header", "command"} => a.at[1] \in Nat /\ a.at[2] \in Nat
    BY <1>b, <1>15, WriteFields
  <2>2. a.hi <= cur \/ SectEnd(c) <= a.lo
    BY <1>a, <1>b, <1>1, <1>15, BehindSection
  <2>3. a.hi <= w.lo \/ w.hi <= a.lo
    BY <1>7, <1>12, <2>2
  <2>4. a.what \notin {"header", "command"} => a.at[1] <= i /\ (a.at[1] = i => a.at[2] < j + 1)
    BY <1>a, <1>c, <1>15, <2>1 DEF Passed
  <2>5. Passed(a)'
    BY <1>a, <1>15, <2>4 DEF Passed
  <2>6. QED
    BY <2>3, <2>5
<1>16. (\E S : written' \in Seq(S)) /\ AllWritten' /\ NothingLost'
  <2>1. written' = Append(written, w)
    BY <1>a, <1>6, <1>12
  <2>2. QED
    BY <1>a, <1>b, <1>13, <1>14, <1>15, <2>1, EmitWrite
<1>17. QED
  BY <1>8, <1>9, <1>10, <1>11, <1>16 DEF EmitInv

LEMMA TableStep == ASSUME EmitInv, Cursors, EmitTable PROVE EmitInv' /\ Cursors'
<1>a. /\ stage = "esect" /\ stage' = "enode" /\ i' = i /\ j' = j /\ k' = 1
      /\ pos' = pos /\ j <= Len(LC.tables)
      /\ cur' = (CHOOSE t \in table : t.at = <<i, j>>).off
      /\ UNCHANGED places /\ UNCHANGED <<archive, seg, blob, index, table, cmdsize>>
      /\ UNCHANGED written
  BY DEF EmitTable, places
<1>b. /\ Laid /\ AtCommand /\ (\E S : written \in Seq(S)) /\ AllWritten /\ NothingLost
      /\ pos \in Nat /\ cur \in Nat
  BY DEF EmitInv, Cursors
<1>c. i \in Nat /\ j \in Nat /\ k \in Nat /\ archive \in Archives
  BY <1>b, LaidFields
<1>1. i \in Segments /\ j \in Nat \ {0}
  BY <1>a, <1>b DEF AtCommand
<1>2. i \in DOMAIN archive /\ LC \in LoadCommand
  BY <1>c, <1>1, Commands DEF Segments, LC
<1>3. /\ Len(LC.tables) \in Nat /\ DOMAIN LC.tables = 1..Len(LC.tables) /\ j \in DOMAIN LC.tables
      /\ LC.tables[j] \in Table
  <2>1. Len(LC.tables) \in Nat /\ DOMAIN LC.tables = 1..Len(LC.tables)
    BY <1>2, CommandParts
  <2>2. j \in DOMAIN LC.tables
    BY <1>a, <1>1, <2>1
  <2>3. QED
    BY <1>2, <2>1, <2>2, CommandParts
<1>4. TabSlot(i, j)
  BY <1>2, <1>3 DEF TabSlot, LC
<1>5. LC.sects = <<>>
  <2>1. archive[i].kind = "LINKEDIT" /\ WellFormed(archive)
    BY <1>c, <1>4, TabSlotParts, ArchivesAssumption
  <2>2. QED
    BY <1>2, <2>1 DEF WellFormed, LC
<1>6. PICK t \in table : t.at = <<i, j>> /\ cur' = t.off /\ t.off \in Nat
  <2>1. \E t \in table : t.at = <<i, j>>
    BY <1>b, <1>4 DEF Laid, AllTablesPlaced, TabPlaced
  <2>2. QED
    BY <1>a, <1>b, <2>1, LaidFields
<1>7. PICK f : Counted(t, f)
  BY <1>b DEF Laid, AllCounted
<1>8. f[0] = 0
  BY <1>7 DEF Counted, PartialSums
<1>9. Laid'
  BY <1>a, <1>b, <1>c, LaidStays DEF Stages
<1>10. Cursors'
  BY <1>a, <1>b, <1>6 DEF Cursors
<1>11. AtCommand'
  <2>1. SectCmdsDone' = SectCmdsDone
    <3>1. LC' = LC
      BY <1>a DEF LC
    <3>2. LC.sects = <<>> /\ LC'.sects = <<>>
      BY <1>5, <3>1
    <3>3. SectCmdsDone = 0 /\ SectCmdsDone' = 0
      BY <3>2, Zenon DEF SectCmdsDone
    <3>4. QED
      BY <3>3
  <2>2. QED
    BY <1>a, <1>b, <1>1, <2>1, AtCommandStays
<1>12. AtBlob'
  BY <1>a DEF AtBlob
<1>13. AtNode'
  <2>1. Counted(t, f)'
    BY <1>a, <1>7, CountedStays
  <2>2. TabSlot(i, j)' /\ LC' = LC /\ 1 \in 1..(Len(LC.tables[j].nodes) + 1)
    BY <1>a, <1>3, <1>4, TableParts DEF TabSlot, LC
  <2>3. t \in table' /\ t.at = <<i', j'>> /\ cur' = t.off + f[1 - 1]
    BY <1>a, <1>6, <1>8
  <2>4. QED
    BY <1>a, <2>1, <2>2, <2>3 DEF AtNode
<1>14. ASSUME NEW a, Recorded(a), Passed(a) PROVE Passed(a)'
  BY <1>a, <1>14 DEF Passed
<1>15. (\E S : written' \in Seq(S)) /\ AllWritten' /\ NothingLost'
  BY <1>a, <1>b, <1>14, EmitQuiet
<1>16. QED
  BY <1>9, <1>10, <1>11, <1>12, <1>13, <1>15 DEF EmitInv

(* An opcode is written with as many bytes as it was counted with: the     *)
(* distance in memory is the distance in the file.                         *)
LEMMA BytesAreSize ==
  ASSUME Laid, NEW x, NEW y, TabSlot(x, y), NEW z \in DOMAIN archive[x].tables[y].nodes
  PROVE  LET n == archive[x].tables[y].nodes[z] IN
         /\ n \in Node /\ NodeSize(n) \in Nat
         /\ (IF n.active THEN NodeBytes(n) ELSE 0) = NodeSize(n)
<1>1. archive \in Archives
  BY LaidFields
<1>2. PICK n : n = archive[x].tables[y].nodes[z]
  OBVIOUS
<1>3. n \in Node /\ NodeSize(n) \in Nat
  BY <1>1, <1>2, TabSlotParts, TableParts, NodeSizeType
<1>4. CASE n.active /\ n.target # NoBlob
  <2>1. PICK g : g = n.target
    OBVIOUS
  <2>2. /\ g \in Nat \X Nat \X Nat /\ Slot(g[1], g[2])
        /\ g[3] \in DOMAIN archive[g[1]].sects[g[2]].blobs
    BY <1>1, <1>2, <1>4, <2>1, TargetSlot
  <2>3. \E c \in sect : c.at = <<g[1], g[2]>>
    BY <2>2 DEF Laid, AllSectsPlaced, SectPlaced
  <2>4. Placed(g) \in blob
    BY <1>1, <2>2, <2>3, TargetPlaced DEF Laid
  <2>5. FileDistance(Placed(g)) = AddrDistance(Placed(g))
    BY <2>4 DEF Laid, InStep
  <2>6. QED
    BY <1>2, <1>3, <1>4, <2>1, <2>5 DEF NodeSize, NodeBytes
<1>5. CASE ~n.active \/ n.target = NoBlob
  BY <1>2, <1>3, <1>5 DEF NodeSize, NodeBytes, Node
<1>6. QED
  BY <1>4, <1>5

LEMMA NodeStep == ASSUME EmitInv, Cursors, EmitNode PROVE EmitInv' /\ Cursors'
<1>a. /\ stage = "enode" /\ stage' = "enode" /\ i' = i /\ j' = j /\ k' = k + 1
      /\ pos' = pos /\ k <= Len(LC.tables[j].nodes)
      /\ cur' = cur + NodeSize(LC.tables[j].nodes[k])
      /\ UNCHANGED places /\ UNCHANGED <<archive, seg, blob, index, table, cmdsize>>
  BY DEF EmitNode, places
<1>b. /\ Laid /\ AtCommand /\ AtNode /\ (\E S : written \in Seq(S)) /\ AllWritten /\ NothingLost
      /\ pos \in Nat /\ cur \in Nat
  BY DEF EmitInv, Cursors
<1>c. i \in Nat /\ j \in Nat /\ k \in Nat /\ archive \in Archives
  BY <1>b, LaidFields
<1>0. PICK t \in table : \E f : t.at = <<i, j>> /\ Counted(t, f) /\ cur = t.off + f[k - 1]
  BY <1>a, <1>b DEF AtNode
<1>1. PICK f : t.at = <<i, j>> /\ Counted(t, f) /\ cur = t.off + f[k - 1]
  BY <1>0
<1>2. /\ TabSlot(i, j) /\ k \in Nat \ {0} /\ j \in Nat \ {0} /\ LC.tables[j] \in Table
  BY <1>a, <1>b, <1>c, TabSlotParts DEF AtNode, LC
<1>3. PICK n \in Nat : n = Len(LC.tables[j].nodes) /\ DOMAIN LC.tables[j].nodes = 1..n
  BY <1>2, TableParts
<1>4. k \in 1..n /\ k - 1 \in 0..n /\ k \in 0..n /\ n \in 0..n
  BY <1>a, <1>2, <1>3
<1>5. PICK node : node = LC.tables[j].nodes[k]
  OBVIOUS
<1>6. /\ NodeSize(node) \in Nat
      /\ (IF node.active THEN NodeBytes(node) ELSE 0) = NodeSize(node)
  BY <1>b, <1>2, <1>3, <1>4, <1>5, BytesAreSize DEF LC
<1>7. /\ PartialSums(Sizes(i, j), n, f) /\ t.size = TableSize(LC.tables[j], f[n])
      /\ \A e \in index : e.at[1] = i /\ e.at[2] = j => e.index = f[e.at[3] - 1]
  BY <1>1, <1>3 DEF Counted, LC
<1>8. /\ f[k - 1] \in Nat /\ f[k] \in Nat /\ f[n] \in Nat
      /\ f[k] = f[k - 1] + NodeSize(node) /\ f[k] <= f[n]
  <2>1. Sizes(i, j)[k] = NodeSize(node)
    BY <1>3, <1>4, <1>5 DEF Sizes, LC
  <2>2. QED
    BY <1>4, <1>7, <2>1 DEF PartialSums
<1>9. t.off \in Nat /\ t.size \in Nat /\ f[n] <= t.size
  BY <1>b, <1>7, <1>8, LaidFields, TableSizeHolds
<1>10. cur' = cur + NodeSize(node) /\ cur' = t.off + f[k]
  BY <1>a, <1>b, <1>1, <1>5, <1>6, <1>8, <1>9, SMTT(20)
<1>11. Laid'
  BY <1>a, <1>b, <1>c, LaidStays DEF Stages
<1>12. Cursors'
  BY <1>a, <1>b, <1>6, <1>10 DEF Cursors
<1>13. AtCommand'
  <2>1. LC' = LC
    BY <1>a DEF LC
  <2>2. SectCmdsDone' = SectCmdsDone
    BY <1>a, <2>1 DEF SectCmdsDone
  <2>3. QED
    BY <1>a, <1>b, <1>2, <2>2, AtCommandStays
<1>14. AtBlob'
  BY <1>a DEF AtBlob
<1>15. AtNode'
  <2>1. Counted(t, f)'
    BY <1>a, <1>1, CountedStays
  <2>2. TabSlot(i, j)' /\ LC' = LC
    BY <1>a, <1>2 DEF TabSlot, LC
  <2>3. k' \in 1..(n + 1) /\ k' - 1 = k
    BY <1>a, <1>4
  <2>4. t \in table' /\ t.at = <<i', j'>> /\ cur' = t.off + f[k' - 1]
    BY <1>a, <1>1, <1>10, <2>3
  <2>5. QED
    BY <1>a, <1>3, <2>1, <2>2, <2>3, <2>4 DEF AtNode
<1>16. ASSUME NEW a, Recorded(a), Passed(a) PROVE Passed(a)'
  <2>1. a.hi \in Nat
    BY <1>b, <1>16, WriteFields
  <2>2. a.hi <= cur => a.hi <= cur'
    BY <1>b, <1>6, <1>10, <2>1
  <2>3. Lone(a) => Lone(a)'
    BY <1>a, RecordedStays
  <2>4. QED
    BY <1>a, <1>16, <2>2, <2>3 DEF Passed
<1>17. (\E S : written' \in Seq(S)) /\ AllWritten' /\ NothingLost'
  <2>1. CASE ~node.active
    <3>1. UNCHANGED written
      BY <1>5, <2>1 DEF EmitNode
    <3>2. QED
      BY <1>a, <1>b, <1>16, <3>1, EmitQuiet
  <2>2. CASE node.active
    <3>1. PICK w : w = [lo |-> cur, hi |-> cur + NodeSize(node), what |-> "node", at |-> <<i, j, k>>]
      OBVIOUS
    <3>2. written' = Append(written, w)
      BY <1>5, <1>6, <2>2, <3>1 DEF EmitNode, Write
    <3>3. /\ w.what = "node" /\ w.at = <<i, j, k>> /\ w.lo = cur /\ w.hi = cur + NodeSize(node)
          /\ w.at[1] = i /\ w.at[2] = j /\ w.at[3] = k
      BY <3>1
    <3>4. t.off <= w.lo /\ w.hi <= t.off + t.size /\ w.hi - w.lo = NodeSize(node)
      <4>1. PICK x \in Nat, y \in Nat, z \in Nat : x = f[k - 1] /\ y = f[n] /\ z = NodeSize(node)
        BY <1>6, <1>8
      <4>2. /\ cur = t.off + x /\ x + z <= y /\ y <= t.size /\ w.lo = cur /\ w.hi = cur + z
            /\ t.off \in Nat /\ t.size \in Nat
        BY <1>1, <1>8, <1>9, <3>3, <4>1
      <4>3. cur \in Nat
        BY <1>b
      <4>4. w.hi - w.lo = z
        BY <4>2, <4>3
      <4>5. t.off <= w.lo /\ w.hi <= t.off + t.size
        BY <4>2, <4>3
      <4>6. QED
        BY <4>1, <4>4, <4>5
    <3>5. ASSUME NEW e \in index, e.at = w.at PROVE e.index = w.lo - t.off
      <4>1. e.at[1] = i /\ e.at[2] = j /\ e.at[3] = k
        BY <3>3, <3>5
      <4>2. e.index = f[k - 1]
        BY <1>7, <4>1
      <4>3. QED
        BY <1>1, <1>8, <1>9, <3>3, <4>2
    <3>6. InTable(w)
      BY <1>1, <3>3, <3>4 DEF InTable
    <3>7. w.lo \in Nat /\ w.hi \in Nat /\ w.lo <= w.hi
      BY <1>b, <1>6, <3>3
    <3>8. archive[w.at[1]].tables[w.at[2]].nodes[w.at[3]] = node
      BY <1>5, <3>3 DEF LC
    <3>9. Recorded(w)
      <4>1. t.at = <<w.at[1], w.at[2]>>
        BY <1>1, <3>3
      <4>2. QED
        BY <3>3, <3>4, <3>5, <3>6, <3>7, <3>8, <4>1 DEF Recorded
    <3>10. Passed(w)'
      BY <1>a, <1>c, <1>10, <3>3, <3>7 DEF Passed
    <3>11. ASSUME NEW a, Recorded(a), Passed(a)
           PROVE  Passed(a)' /\ (a.hi <= w.lo \/ w.hi <= a.lo \/ Lone(a))
      <4>1. t.off <= cur
        BY <3>3, <3>4
      <4>2. a.hi <= cur \/ Lone(a)
        BY <1>a, <1>b, <1>1, <3>11, <4>1, BehindTable
      <4>3. QED
        BY <1>16, <3>3, <3>11, <4>2
    <3>12. QED
      BY <1>a, <1>b, <3>2, <3>9, <3>10, <3>11, EmitWrite
  <2>3. QED
    BY <2>1, <2>2
<1>18. QED
  BY <1>11, <1>12, <1>13, <1>14, <1>15, <1>17 DEF EmitInv

(* The DONE byte falls into its table, unless the table has no bytes.      *)
LEMMA EndTableStep == ASSUME EmitInv, Cursors, EndTable PROVE EmitInv' /\ Cursors'
<1>a. /\ stage = "enode" /\ stage' = "esect" /\ i' = i /\ j' = j + 1 /\ k' = k
      /\ pos' = pos /\ cur' = cur /\ k > Len(LC.tables[j].nodes)
      /\ UNCHANGED places /\ UNCHANGED <<archive, cmdsize>>
      /\ written' = IF LC.tables[j].kind # "data" /\ LC.tables[j].nodes # <<>>
                    THEN Append(written, [lo |-> cur, hi |-> cur + 1, what |-> "done", at |-> <<i, j>>])
                    ELSE written
  BY DEF EndTable, places, Write
<1>b. /\ Laid /\ AtCommand /\ AtNode /\ (\E S : written \in Seq(S)) /\ AllWritten /\ NothingLost
      /\ pos \in Nat /\ cur \in Nat
  BY DEF EmitInv, Cursors
<1>c. i \in Nat /\ j \in Nat /\ k \in Nat /\ archive \in Archives
  BY <1>b, LaidFields
<1>0. PICK t \in table : \E f : t.at = <<i, j>> /\ Counted(t, f) /\ cur = t.off + f[k - 1]
  BY <1>a, <1>b DEF AtNode
<1>1. PICK f : t.at = <<i, j>> /\ Counted(t, f) /\ cur = t.off + f[k - 1]
  BY <1>0
<1>2. /\ TabSlot(i, j) /\ j \in Nat \ {0} /\ LC.tables[j] \in Table /\ LC.kind = "LINKEDIT"
      /\ WellFormed(archive) /\ i \in DOMAIN archive /\ j \in DOMAIN LC.tables
  BY <1>a, <1>b, <1>c, TabSlotParts, ArchivesAssumption DEF AtNode, LC, TabSlot
<1>3. PICK n \in Nat : n = Len(LC.tables[j].nodes) /\ DOMAIN LC.tables[j].nodes = 1..n
  BY <1>2, TableParts
<1>4. k - 1 = n
  <2>1. k \in 1..(n + 1) /\ k > n
    BY <1>a, <1>b, <1>3 DEF AtNode
  <2>2. QED
    BY <1>c, <2>1
<1>5. PartialSums(Sizes(i, j), n, f) /\ t.size = TableSize(LC.tables[j], f[n])
  BY <1>1, <1>3 DEF Counted, LC
<1>6. f[n] \in Nat /\ cur = t.off + f[n] /\ t.off \in Nat /\ t.size \in Nat
  <2>1. n \in 0..n /\ f \in [0..n -> Nat]
    BY <1>5 DEF PartialSums
  <2>2. cur = t.off + f[n]
    BY <1>1, <1>4
  <2>3. QED
    BY <1>b, <2>1, <2>2, LaidFields
<1>7. LC.sects = <<>> /\ LC' = LC
  BY <1>a, <1>2 DEF WellFormed, LC
<1>8. Laid'
  BY <1>a, <1>b, <1>c, LaidStays DEF Stages
<1>9. Cursors'
  BY <1>a, <1>b DEF Cursors
<1>10. AtCommand'
  <2>1. LC.sects = <<>> /\ LC'.sects = <<>>
    BY <1>7
  <2>2. SectCmdsDone = 0 /\ SectCmdsDone' = 0
    BY <2>1, Zenon DEF SectCmdsDone
  <2>3. j' \in Nat \ {0}
    BY <1>a, <1>c
  <2>4. QED
    BY <1>a, <1>b, <2>2, <2>3, AtCommandStays
<1>11. AtBlob' /\ AtNode'
  BY <1>a DEF AtBlob, AtNode
<1>12. ASSUME NEW a, Recorded(a), Passed(a) PROVE Passed(a)'
  <2>1. a.what \notin {"header", "command"} => a.at[1] \in Nat /\ a.at[2] \in Nat
    BY <1>b, <1>12, WriteFields
  <2>2. a.what \notin {"header", "command"} => a.at[1] <= i /\ (a.at[1] = i => a.at[2] < j + 1)
    BY <1>a, <1>c, <1>12, <2>1 DEF Passed
  <2>3. QED
    BY <1>a, <1>12, <2>2 DEF Passed
<1>13. (\E S : written' \in Seq(S)) /\ AllWritten' /\ NothingLost'
  <2>1. CASE ~(LC.tables[j].kind # "data" /\ LC.tables[j].nodes # <<>>)
    <3>1. UNCHANGED written
      BY <1>a, <2>1
    <3>2. QED
      BY <1>a, <1>b, <1>12, <3>1, EmitQuiet
  <2>2. CASE LC.tables[j].kind # "data" /\ LC.tables[j].nodes # <<>>
    <3>1. PICK w : w = [lo |-> cur, hi |-> cur + 1, what |-> "done", at |-> <<i, j>>]
      OBVIOUS
    <3>2. written' = Append(written, w)
      BY <1>a, <2>2, <3>1
    <3>3. /\ w.what = "done" /\ w.at = <<i, j>> /\ w.lo = cur /\ w.hi = cur + 1
          /\ w.at[1] = i /\ w.at[2] = j
      BY <3>1
    <3>4. f[n] > 0 => w.hi <= t.off + t.size
      BY <1>5, <1>6, <2>2, <3>3, TableSizeHolds
    <3>5. f[n] = 0 => Lone(w)
      <4> SUFFICES ASSUME f[n] = 0, NEW z \in 1..n, LC.tables[j].nodes[z].active PROVE FALSE
        BY <1>3, <3>3 DEF Lone, LC
      <4>1. PICK node : node = LC.tables[j].nodes[z]
        OBVIOUS
      <4>2. node.fixed > 0 /\ node \in Node /\ node.fixed \in Nat
        <5>1. node.fixed > 0
          BY <1>2, <1>3, <2>2, <4>1 DEF WellFormed, LC
        <5>2. node \in Node
          BY <1>2, <1>3, <4>1, TableParts
        <5>3. QED
          BY <5>1, <5>2 DEF Node
      <4>3. NodeSize(node) > 0
        <5>1. LebLen(FileDistance(Placed(node.target))) \in Nat
          BY LebLenType
        <5>2. QED
          BY <4>1, <4>2, <5>1 DEF NodeSize
      <4>4. Sizes(i, j)[z] = NodeSize(node)
        BY <1>3, <4>1 DEF Sizes, LC
      <4>5. f[z] = f[z - 1] + Sizes(i, j)[z] /\ f[z] <= f[n] /\ f[z - 1] \in Nat /\ f[z] \in Nat
        BY <1>5 DEF PartialSums
      <4>6. NodeSize(node) \in Nat
        BY <4>2, NodeSizeType
      <4>7. QED
        BY <4>3, <4>4, <4>5, <4>6
    <3>6. InTable(w)
      <4>1. t.at = <<w.at[1], w.at[2]>> /\ t.off <= w.lo
        BY <1>1, <1>6, <3>3
      <4>2. w.hi <= t.off + t.size \/ Lone(w)
        BY <1>6, <3>4, <3>5
      <4>3. QED
        BY <4>1, <4>2 DEF InTable
    <3>7. Recorded(w)
      BY <1>b, <3>3, <3>6 DEF Recorded
    <3>8. Passed(w)'
      BY <1>a, <1>c, <3>3 DEF Passed
    <3>9. ASSUME NEW a, Recorded(a), Passed(a)
          PROVE  Passed(a)' /\ (a.hi <= w.lo \/ w.hi <= a.lo \/ Lone(a))
      <4>1. t.off <= cur
        BY <1>6
      <4>2. a.hi <= cur \/ Lone(a)
        BY <1>a, <1>b, <1>1, <3>9, <4>1, BehindTable
      <4>3. QED
        BY <1>12, <3>3, <3>9, <4>2
    <3>10. QED
      BY <1>a, <1>b, <3>2, <3>7, <3>8, <3>9, EmitWrite
  <2>3. QED
    BY <2>1, <2>2
<1>14. QED
  BY <1>8, <1>9, <1>10, <1>11, <1>13 DEF EmitInv

LEMMA EndSegmentStep == ASSUME EmitInv, Cursors, EndSegmentEmit PROVE EmitInv' /\ Cursors'
<1>a. /\ stage = "esect" /\ stage' = "emit" /\ i' = i + 1 /\ j' = j /\ k' = k
      /\ pos' = pos /\ cur' = cur /\ j > Len(LC.sects)
      /\ UNCHANGED places /\ UNCHANGED <<archive, cmdsize>> /\ UNCHANGED written
  BY DEF EndSegmentEmit, places
<1>b. /\ Laid /\ AtCommand /\ (\E S : written \in Seq(S)) /\ AllWritten /\ NothingLost
      /\ pos \in Nat /\ cur \in Nat
  BY DEF EmitInv, Cursors
<1>c. /\ i \in Nat /\ j \in Nat /\ k \in Nat /\ archive \in Archives /\ HeaderSize \in Nat
      /\ SegCmdSize \in Nat /\ SectCmdSize \in Nat
  BY <1>b, LaidFields
<1>1. PICK f : /\ PartialSums(CmdSizes, Len(archive), f) /\ cmdsize = f[Len(archive)]
               /\ i \in Segments /\ SectCmdsDone \in 0..Len(LC.sects)
               /\ pos = HeaderSize + f[i - 1] + SegCmdSize + SectCmdsDone * SectCmdSize
  BY <1>a, <1>b DEF AtCommand
<1>2. /\ i \in DOMAIN archive /\ IsSegment(LC) /\ LC \in LoadCommand
      /\ Len(archive) \in Nat /\ i + 1 \in 1..(Len(archive) + 1)
  BY <1>c, <1>1, Commands DEF Segments, LC
<1>3. SectCmdsDone = Len(LC.sects)
  <2>1. Len(LC.sects) \in Nat
    BY <1>2, CommandParts
  <2>2. CASE LC.sects = <<>>
    BY <1>1, <2>2 DEF SectCmdsDone
  <2>3. CASE LC.sects # <<>>
    <3>1. SectCmdsDone = j - 1
      BY <1>a, <2>3 DEF SectCmdsDone
    <3>2. QED
      BY <1>a, <1>c, <1>1, <2>1, <3>1
  <2>4. QED
    BY <2>2, <2>3
<1>4. pos = HeaderSize + f[i]
  <2>1. /\ f[i - 1] \in Nat /\ f[i] = f[i - 1] + CmdSize(LC)
        /\ CmdSize(LC) = SegCmdSize + Len(LC.sects) * SectCmdSize
    BY <1>b, <1>1, <1>2, CommandsBelowEnd DEF LC, CmdSize
  <2>2. PICK p \in Int : p = Len(LC.sects) * SectCmdSize
    <3>1. Len(LC.sects) \in Nat
      BY <1>2, CommandParts
    <3>2. QED
      BY <1>c, <3>1
  <2>3. PICK x \in Nat : x = f[i - 1]
    BY <2>1
  <2>4. pos = HeaderSize + x + SegCmdSize + p /\ f[i] = x + (SegCmdSize + p)
    BY <1>1, <1>3, <2>1, <2>2, <2>3
  <2>5. QED
    BY <1>c, <2>4
<1>5. Laid'
  BY <1>a, <1>b, <1>c, LaidStays DEF Stages
<1>6. Cursors'
  BY <1>a, <1>b DEF Cursors
<1>7. AtCommand'
  <2>1. PartialSums(CmdSizes, Len(archive), f)'
    BY <1>a, <1>1, SumsStay
  <2>2. i + 1 - 1 = i
    BY <1>c
  <2>3. QED
    BY <1>a, <1>1, <1>2, <1>4, <2>1, <2>2 DEF AtCommand
<1>8. AtBlob' /\ AtNode'
  BY <1>a DEF AtBlob, AtNode
<1>9. ASSUME NEW a, Recorded(a), Passed(a) PROVE Passed(a)'
  <2>1. a.what \notin {"header", "command"} => a.at[1] \in Nat
    BY <1>b, <1>9, WriteFields
  <2>2. a.what \notin {"header", "command"} => a.at[1] <= i + 1 /\ a.at[1] < i + 1
    BY <1>a, <1>c, <1>9, <2>1 DEF Passed
  <2>3. QED
    BY <1>a, <1>9, <2>2 DEF Passed
<1>10. (\E S : written' \in Seq(S)) /\ AllWritten' /\ NothingLost'
  BY <1>a, <1>b, <1>9, EmitQuiet
<1>11. QED
  BY <1>5, <1>6, <1>7, <1>8, <1>10 DEF EmitInv

LEMMA DoneStep == ASSUME EmitInv, Cursors, EmitDone PROVE EmitInv' /\ Cursors'
<1>a. /\ stage = "emit" /\ stage' = "emitted" /\ i' = i /\ j' = j /\ k' = k
      /\ pos' = pos /\ cur' = cur
      /\ UNCHANGED places /\ UNCHANGED <<archive, cmdsize>> /\ UNCHANGED written
  BY DEF EmitDone, places
<1>b. /\ Laid /\ AtCommand /\ (\E S : written \in Seq(S)) /\ AllWritten /\ NothingLost
      /\ pos \in Nat /\ cur \in Nat
  BY DEF EmitInv, Cursors
<1>c. i \in Nat /\ j \in Nat /\ k \in Nat
  BY <1>b, LaidFields
<1>1. Laid'
  BY <1>a, <1>b, <1>c, LaidStays DEF Stages
<1>2. Cursors'
  BY <1>a, <1>b DEF Cursors
<1>3. AtCommand'
  <2>1. PICK f : PartialSums(CmdSizes, Len(archive), f) /\ cmdsize = f[Len(archive)]
    BY <1>b DEF AtCommand
  <2>2. PartialSums(CmdSizes, Len(archive), f)'
    BY <1>a, <2>1, SumsStay
  <2>3. QED
    BY <1>a, <2>1, <2>2 DEF AtCommand
<1>4. AtBlob' /\ AtNode'
  BY <1>a DEF AtBlob, AtNode
<1>5. \A a : Passed(a) => Passed(a)'
  BY <1>a DEF Passed
<1>6. (\E S : written' \in Seq(S)) /\ AllWritten' /\ NothingLost'
  BY <1>a, <1>b, <1>5, EmitQuiet
<1>7. QED
  BY <1>1, <1>2, <1>3, <1>4, <1>6 DEF EmitInv

-----------------------------------------------------------------------------
(* The two passes together.                                                *)

(* The build takes no step once the emit pass has begun, and never begins  *)
(* it.                                                                     *)
LEMMA BuildStages == Next => stage \notin EmitStages /\ stage' \notin EmitStages
<1>1. CASE \/ CountCommand \/ AllocateCommands \/ AssignSegmentID \/ AssignDylibID
           \/ AssignNoID \/ IDsAssigned
  BY <1>1 DEF CountCommand, AllocateCommands, AssignSegmentID, AssignDylibID, AssignNoID,
     IDsAssigned, EmitStages
<1>2. CASE \/ BuildOther \/ BuildPagezero \/ BeginText \/ BeginSegment \/ BeginSection
           \/ PlaceBlob \/ EndSection \/ EndSegment
  BY <1>2 DEF BuildOther, BuildPagezero, BeginText, BeginSegment, BeginSection, PlaceBlob,
     EndSection, EndSegment, EmitStages
<1>3. CASE \/ BeginLinkedit \/ SizeNode \/ AllocateTable \/ IndexNode \/ TableDone
           \/ EndLinkedit \/ BuildDone
  BY <1>3 DEF BeginLinkedit, SizeNode, AllocateTable, IndexNode, TableDone, EndLinkedit,
     BuildDone, EmitStages
<1>4. QED
  BY <1>1, <1>2, <1>3 DEF Next

LEMMA InitEInv == EInit => EInv
<1>1. ASSUME EInit PROVE stage = "count" /\ PInv /\ written = <<>> /\ pos = 0 /\ cur = 0
  BY <1>1, InitPInv DEF EInit, Init
<1>2. QED
  BY <1>1 DEF EInv, EmitStages

LEMMA EmitStutters == ASSUME EmitInv, Cursors, UNCHANGED <<vars, evars>> PROVE EmitInv' /\ Cursors'
<1>a. /\ UNCHANGED <<stage, i, j, k, pos, cur, written>> /\ UNCHANGED places
      /\ UNCHANGED <<archive, sect, blob, table, index, seg, cmdsize>>
  BY DEF vars, evars, places
<1>b. /\ Laid /\ AtCommand /\ AtBlob /\ AtNode /\ (\E S : written \in Seq(S)) /\ AllWritten
      /\ NothingLost /\ pos \in Nat /\ cur \in Nat
  BY DEF EmitInv, Cursors
<1>c. i \in Nat /\ j \in Nat /\ k \in Nat /\ stage \in Stages
  BY <1>b, LaidFields DEF Laid, TypeOK
<1>1. Laid'
  BY <1>a, <1>b, <1>c, LaidStays
<1>2. Cursors'
  BY <1>a, <1>b DEF Cursors
<1>3. AtCommand'
  <2>1. \A f : PartialSums(CmdSizes, Len(archive), f)' <=> PartialSums(CmdSizes, Len(archive), f)
    BY <1>a, SumsStay
  <2>2. LC' = LC /\ Segments' = Segments
    BY <1>a DEF LC, Segments
  <2>3. SectCmdsDone' = SectCmdsDone
    BY <1>a, <2>2 DEF SectCmdsDone
  <2>4. QED
    BY <1>a, <1>b, <2>1, <2>2, <2>3 DEF AtCommand
<1>4. AtBlob'
  BY <1>a, <1>b DEF AtBlob, Follows, Slot, LC
<1>5. AtNode'
  <2>1. \A t, f : Counted(t, f) => Counted(t, f)'
    BY <1>a, CountedStays
  <2>2. LC' = LC /\ (TabSlot(i, j)' <=> TabSlot(i, j))
    BY <1>a DEF LC, TabSlot
  <2>3. QED
    BY <1>a, <1>b, <2>1, <2>2 DEF AtNode
<1>6. \A a : Passed(a) => Passed(a)'
  <2>1. \A a : Lone(a) => Lone(a)'
    BY <1>a, RecordedStays
  <2>2. QED
    BY <1>a, <2>1 DEF Passed
<1>7. (\E S : written' \in Seq(S)) /\ AllWritten' /\ NothingLost'
  BY <1>a, <1>b, <1>6, EmitQuiet
<1>8. QED
  BY <1>1, <1>2, <1>3, <1>4, <1>5, <1>7 DEF EmitInv

LEMMA NextEInv == EInv /\ [ENext]_<<vars, evars>> => EInv'
<1> SUFFICES ASSUME EInv, [ENext]_<<vars, evars>> PROVE EInv'
  OBVIOUS
<1>a. Cursors
  BY DEF EInv, Cursors
<1>b. \/ stage \notin EmitStages /\ PInv /\ written = <<>>
      \/ stage \in EmitStages /\ EmitInv
  BY DEF EInv
<1>c. ASSUME EmitInv', Cursors', stage' \in EmitStages PROVE EInv'
  BY <1>c DEF EInv, Cursors
<1>1. CASE BuildStep
  <2>1. stage \notin EmitStages /\ stage' \notin EmitStages /\ UNCHANGED evars /\ Next
    BY <1>1, BuildStages DEF BuildStep
  <2>2. PInv'
    BY <1>b, <2>1, NextPInv
  <2>3. QED
    BY <1>a, <1>b, <2>1, <2>2 DEF EInv, Cursors, evars
<1>2. CASE EmitHeader
  <2>1. stage = "built" /\ stage' \in EmitStages
    BY <1>2 DEF EmitHeader, EmitStages
  <2>2. PInv /\ written = <<>>
    BY <1>b, <2>1 DEF EmitStages
  <2>3. Laid
    BY <2>1, <2>2, LaidAtEnd
  <2>4. QED
    BY <1>2, <1>a, <1>c, <2>1, <2>2, <2>3, HeaderStep
<1>3. CASE \/ EmitCommand \/ EmitSegment \/ EmitSection \/ EmitBlob \/ EmitRelocations
           \/ EmitTable \/ EmitNode \/ EndTable \/ EndSegmentEmit \/ EmitDone
  <2>1. stage \in EmitStages /\ stage' \in EmitStages
    BY <1>3 DEF EmitCommand, EmitSegment, EmitSection, EmitBlob, EmitRelocations, EmitTable,
       EmitNode, EndTable, EndSegmentEmit, EmitDone, EmitStages
  <2>2. EmitInv
    BY <1>b, <2>1
  <2>3. EmitInv' /\ Cursors'
    BY <1>3, <1>a, <2>2, CommandStep, SegmentStep, SectionStep, BlobStep, RelocationsStep,
       TableStep, NodeStep, EndTableStep, EndSegmentStep, DoneStep
  <2>4. QED
    BY <1>c, <2>1, <2>3
<1>4. CASE UNCHANGED <<vars, evars>>
  <2>1. UNCHANGED vars /\ UNCHANGED <<pos, cur, written, stage>>
    BY <1>4 DEF vars, evars
  <2>2. CASE stage \in EmitStages
    BY <1>4, <1>a, <1>b, <1>c, <2>1, <2>2, EmitStutters
  <2>3. CASE stage \notin EmitStages
    <3>1. PInv'
      BY <1>b, <2>1, <2>3, NextPInv
    <3>2. QED
      BY <1>a, <1>b, <2>1, <2>3, <3>1 DEF EInv, Cursors
  <2>4. QED
    BY <2>2, <2>3
<1>5. QED
  BY <1>1, <1>2, <1>3, <1>4 DEF ENext

LEMMA EmissionInvariance == ESpec => []EInv
BY InitEInv, NextEInv, PTL DEF ESpec

-----------------------------------------------------------------------------
(* What the build pass has established holds while the archive is written. *)

LEMMA BuildKept ==
  ASSUME EInv PROVE TypeOK /\ InStep /\ PageAligned /\ SegmentsHold /\ NumbersAreRanks
<1>1. CASE stage \notin EmitStages
  <2>1. IInv /\ HInv /\ RInv
    BY <1>1 DEF EInv, PInv, HInv
  <2>2. TypeOK /\ PageAligned /\ SegmentsHold
    BY <2>1 DEF IInv, Typed, AddressAligned, PageAligned, HInv
  <2>3. QED
    BY <2>1, <2>2, InStepFromIInv, RanksFromRInv
<1>2. CASE stage \in EmitStages
  <2>1. TypeOK /\ InStep /\ AllHold /\ AllRanked
    BY <1>2 DEF EInv, EmitInv, Laid
  <2>2. PageAligned
    BY <1>2 DEF PageAligned, EmitStages
  <2>3. SegmentsHold
    BY <2>1, HoldParts DEF AllHold
  <2>4. NumbersAreRanks
    BY <2>1, RanksAreRanks DEF AllRanked
  <2>5. QED
    BY <2>1, <2>2, <2>3, <2>4
<1>3. QED
  BY <1>1, <1>2

LEMMA WrittenRecorded ==
  ASSUME EInv, NEW x \in DOMAIN written PROVE Laid /\ Recorded(written[x])
<1>1. CASE stage \notin EmitStages
  BY <1>1 DEF EInv
<1>2. CASE stage \in EmitStages
  BY <1>2 DEF EInv, EmitInv, AllWritten
<1>3. QED
  BY <1>1, <1>2

(* Every variable has its type in every state of the two passes, whatever  *)
(* the archive.                                                            *)
THEOREM TypeCorrectInBoth == ESpec => []TypeOK
BY EmissionInvariance, BuildKept, PTL

(* Blobs and sections are as far from the start of their segment in the    *)
(* file as in memory, from when they are placed until the file is written. *)
THEOREM OffsetsInStepInBoth == ESpec => []InStep
BY EmissionInvariance, BuildKept, PTL

(* Segment::Build's assertion holds with the emit pass behind it as well.  *)
THEOREM SegmentsStartOnPagesInBoth == ESpec => []PageAligned
BY EmissionInvariance, BuildKept, PTL

(* No two segments share a byte or an address, and each holds its own,     *)
(* until the file is written.                                              *)
THEOREM SegmentsHoldInBoth == ESpec => []SegmentsHold
BY EmissionInvariance, BuildKept, PTL

(* The numbers that are written into the file are ranks.                   *)
THEOREM NumbersAreRanksInBoth == ESpec => []NumbersAreRanks
BY EmissionInvariance, BuildKept, PTL

(* Every blob is loaded at the address the build pass gave it, and every   *)
(* relocation table is written where its section command says.             *)
THEOREM BlobsAreWhereAddressed == ESpec => []LoadedWhereAddressed
<1>1. EInv => LoadedWhereAddressed
  <2> SUFFICES ASSUME EInv PROVE LoadedWhereAddressed
    OBVIOUS
  <2>1. ASSUME NEW w \in Writes("blob") PROVE LoadedAt(w.at[1], w.lo) = Placed(w.at).loc.vmaddr
    <3>1. PICK x \in DOMAIN written : w = written[x] /\ written[x].what = "blob"
      BY DEF Writes
    <3>2. Recorded(written[x])
      BY WrittenRecorded
    <3>3. QED
      BY <3>1, <3>2 DEF Recorded
  <2>2. ASSUME NEW w \in Writes("relocs") PROVE \E s \in sect : s.at = w.at /\ s.reloff = w.lo
    <3>1. PICK x \in DOMAIN written : w = written[x] /\ written[x].what = "relocs"
      BY DEF Writes
    <3>2. Recorded(written[x])
      BY WrittenRecorded
    <3>3. QED
      BY <3>1, <3>2 DEF Recorded
  <2>3. QED
    BY <2>1, <2>2 DEF LoadedWhereAddressed
<1>2. QED
  BY EmissionInvariance, <1>1, PTL

(* Every opcode is written with the size it was counted with, inside its   *)
(* table, and a stub helper's number is where its symbol's opcodes begin.  *)
THEOREM OpcodesAreWhereCounted == ESpec => []OpcodesWhereCounted
<1>1. EInv => OpcodesWhereCounted
  <2> SUFFICES ASSUME EInv, NEW w \in Writes("node")
               PROVE  \E t \in table :
                        /\ t.at = <<w.at[1], w.at[2]>>
                        /\ t.off <= w.lo /\ w.hi <= t.off + t.size
                        /\ LET n == archive[w.at[1]].tables[w.at[2]].nodes[w.at[3]] IN
                             w.hi - w.lo = NodeSize(n)
                        /\ \A x \in index : x.at = w.at => x.index = w.lo - t.off
    BY DEF OpcodesWhereCounted
  <2>1. PICK x \in DOMAIN written : w = written[x] /\ written[x].what = "node"
    BY DEF Writes
  <2>2. Recorded(written[x])
    BY WrittenRecorded
  <2>3. QED
    BY <2>1, <2>2 DEF Recorded
<1>2. QED
  BY EmissionInvariance, <1>1, PTL

(* No byte that is written is written over, but for the DONE byte of a     *)
(* table without an active node.                                           *)
THEOREM NoWriteIsLost == ESpec => []NothingLost
<1>1. EInv => NothingLost
  <2> SUFFICES ASSUME EInv PROVE NothingLost
    OBVIOUS
  <2>1. CASE stage \notin EmitStages
    BY <2>1, SMTT(20) DEF EInv, NothingLost
  <2>2. CASE stage \in EmitStages
    BY <2>2 DEF EInv, EmitInv
  <2>3. QED
    BY <2>1, <2>2
<1>2. QED
  BY EmissionInvariance, <1>1, PTL

(* Every blob, relocation and opcode is written into the part of the file  *)
(* that its segment maps, the load commands below every section, and no    *)
(* command ends behind a blob that has been written before it.             *)
THEOREM WritesAreMapped == ESpec => []WrittenIsMapped
<1>1. EInv => WrittenIsMapped
  <2> SUFFICES ASSUME EInv PROVE WrittenIsMapped
    OBVIOUS
  <2>1. ASSUME NEW w \in Writes("blob") \cup Writes("relocs") \cup Writes("node")
        PROVE  /\ seg[w.at[1]].fileoff <= w.lo
               /\ w.hi <= seg[w.at[1]].fileoff + seg[w.at[1]].filesize
    <3>1. /\ w.what \in {"blob", "relocs", "node"}
          /\ \E x \in DOMAIN written : w = written[x]
      BY DEF Writes
    <3>2. Laid /\ Recorded(w)
      BY <3>1, WrittenRecorded
    <3>3. w.lo \in Nat /\ w.hi \in Nat
      BY <3>2 DEF Recorded
    <3>4. CASE w.what \in {"blob", "relocs"}
      <4>1. PICK c \in sect : /\ c.at = <<w.at[1], w.at[2]>>
                              /\ c.loc.offset <= w.lo /\ w.hi <= SectEnd(c)
        BY <3>2, <3>4 DEF Recorded, InSection
      <4>2. /\ c.at[1] = w.at[1] /\ c.at[1] \in Segments
            /\ seg[c.at[1]].fileoff <= c.loc.offset
            /\ SectEnd(c) <= seg[c.at[1]].fileoff + seg[c.at[1]].filesize
        BY <3>2, <4>1, InSegment
      <4>3. /\ c.loc.offset \in Nat /\ SectEnd(c) \in Nat /\ seg[c.at[1]].fileoff \in Nat
            /\ seg[c.at[1]].filesize \in Int
        BY <3>2, <4>2, LaidFields DEF Segments
      <4>4. QED
        BY <3>3, <4>1, <4>2, <4>3
    <3>5. CASE w.what = "node"
      <4>1. PICK t \in table : /\ t.at = <<w.at[1], w.at[2]>>
                               /\ t.off <= w.lo /\ w.hi <= t.off + t.size
        BY <3>2, <3>5 DEF Recorded
      <4>2. /\ t.at[1] = w.at[1] /\ t.at[1] \in Segments
            /\ seg[t.at[1]].fileoff <= t.off
            /\ t.off + t.size <= seg[t.at[1]].fileoff + seg[t.at[1]].filesize
        BY <3>2, <4>1, InSegment
      <4>3. /\ t.off \in Nat /\ t.size \in Nat /\ seg[t.at[1]].fileoff \in Nat
            /\ seg[t.at[1]].filesize \in Int
        BY <3>2, <4>2, LaidFields DEF Segments
      <4>4. QED
        BY <3>3, <4>1, <4>2, <4>3
    <3>6. QED
      BY <3>1, <3>4, <3>5
  <2>2. ASSUME NEW x \in DOMAIN written, written[x].what = "command", NEW c \in sect
        PROVE  written[x].hi <= HeaderSize + cmdsize /\ written[x].hi <= c.loc.offset
    <3>1. Laid /\ Recorded(written[x])
      BY WrittenRecorded
    <3>2. written[x].hi <= EndOfCommands /\ written[x].hi \in Nat
      BY <2>2, <3>1 DEF Recorded
    <3>3. EndOfCommands <= c.loc.offset /\ c.loc.offset \in Nat /\ EndOfCommands \in Nat
      BY <3>1, LaidFields DEF Laid, Above, EndOfCommands
    <3>4. QED
      BY <3>2, <3>3 DEF EndOfCommands
  <2>3. ASSUME NEW x \in DOMAIN written, written[x].what = "command"
        PROVE  written[x].hi <= HeaderSize + cmdsize
    BY <2>3, WrittenRecorded DEF Recorded, EndOfCommands
  <2>4. ASSUME NEW x \in DOMAIN written, written[x].what = "command",
               NEW w \in {written[y] : y \in 1..(x - 1)}, w.what = "blob", w.lo < w.hi
        PROVE  written[x].hi <= w.hi
    <3>1. PICK y \in 1..(x - 1) : w = written[y]
      OBVIOUS
    <3>2. y \in DOMAIN written
      <4>1. CASE stage \notin EmitStages
        BY <4>1 DEF EInv
      <4>2. CASE stage \in EmitStages
        <5>1. PICK S : written \in Seq(S)
          BY <4>2 DEF EInv, EmitInv
        <5>2. QED
          BY <5>1
      <4>3. QED
        BY <4>1, <4>2
    <3>3. Laid /\ Recorded(w)
      BY <3>1, <3>2, WrittenRecorded
    <3>4. PICK c \in sect : c.loc.offset <= w.lo
      BY <2>4, <3>3 DEF Recorded, InSection
    <3>5. written[x].hi <= c.loc.offset
      BY <2>2, <2>4
    <3>6. written[x].hi \in Nat /\ w.lo \in Nat /\ w.hi \in Nat /\ c.loc.offset \in Nat
      BY <3>3, WrittenRecorded, LaidFields DEF Recorded
    <3>7. QED
      BY <2>4, <3>4, <3>5, <3>6
  <2>5. stage = "emitted" =>
          \A w \in Writes("command") :
            w.hi <= HeaderSize + cmdsize /\ \A c \in sect : w.hi <= c.loc.offset
    BY <2>2, <2>3 DEF Writes
  <2>6. \A x \in DOMAIN written :
          LET before == {written[y] : y \in 1..(x - 1)} IN
          /\ written[x].what = "command" /\ ~IsSegment(archive[written[x].at[1]])
          /\ \E w \in before : w.what = "blob" /\ w.lo < w.hi
          => \E w \in before : written[x].hi <= w.hi
    BY <2>4
  <2>7. QED
    BY <2>1, <2>5, <2>6 DEF WrittenIsMapped
<1>2. QED
  BY EmissionInvariance, <1>1, PTL

=============================================================================
