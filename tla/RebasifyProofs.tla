---------------------------- MODULE RebasifyProofs ----------------------------
(***************************************************************************)
(* Proofs about the rebasify analysis: its state stays well formed, and an *)
(* analysis that ends has looked at every instruction.                     *)
(*                                                                         *)
(* Both rest on what the list that is walked looks like while it grows.    *)
(* It lists the instructions in order, each behind its placeholder and the *)
(* movs inserted for it (Listing).  So what follows an instruction is at   *)
(* the next address, and what follows anything else is at the same one;    *)
(* and whoever takes an item off the worklist leaves one for the address   *)
(* that follows, or that address was visited (Covered).                    *)
(***************************************************************************)
EXTENDS Rebasify, TLAPS, WellFoundedInduction

-----------------------------------------------------------------------------
(* Facts about numbers, sequences and the library's FlattenSeq.            *)

(* Every non-empty set of natural numbers has a least element.             *)
LEMMA LeastNatural ==
  ASSUME NEW T, T \subseteq Nat, T # {}
  PROVE  \E m \in T : \A k \in T : m <= k
<1>. DEFINE Less == {ij \in Nat \X Nat : ij[1] < ij[2]}
<1>1. IsWellFoundedOn(Less, Nat)
  BY NatLessThanWellFounded DEF OpToRel
<1>2. PICK m \in T : \A k \in T : ~ (<<k, m>> \in Less)
  <2>. HIDE DEF Less
  <2>. QED BY <1>1, WFMin
<1>3. ASSUME NEW k \in T, k < m PROVE FALSE
  <2>1. <<k, m>> \in Less BY <1>3, k \in Nat, m \in Nat
  <2>. QED BY <2>1, <1>2
<1>. QED BY <1>3

(* FlattenSeq appends one sequence after the other; f has the results.     *)
Flattening(s, m, f) == f = [i \in 1..m |-> IF i = 1 THEN s[i] ELSE f[i - 1] \o s[i]]

LEMMA Flattened ==
  ASSUME NEW s, NEW n \in Nat \ {0}, Len(s) = n
  PROVE  \E f : Flattening(s, n, f) /\ FlattenSeq(s) = f[n]
<1>. DEFINE Without == {m \in Nat \ {0} : ~ \E f : Flattening(s, m, f)}
<1>1. \E f : Flattening(s, 1, f)
  <2>1. PICK f : f = [i \in 1..1 |-> s[1]] OBVIOUS
  <2>2. f = [i \in 1..1 |-> IF i = 1 THEN s[i] ELSE f[i - 1] \o s[i]] BY <2>1
  <2>. QED BY <2>2 DEF Flattening
<1>2. ASSUME NEW m \in Nat \ {0}, NEW f, Flattening(s, m, f)
      PROVE  \E g : Flattening(s, m + 1, g)
  <2>1. PICK g : g = [i \in 1..(m + 1) |-> IF i <= m THEN f[i] ELSE f[m] \o s[m + 1]]
    OBVIOUS
  <2>2. \A i \in 1..m : f[i] = IF i = 1 THEN s[i] ELSE f[i - 1] \o s[i]
    BY <1>2 DEF Flattening
  <2>3. \A i \in 1..(m + 1) : g[i] = IF i = 1 THEN s[i] ELSE g[i - 1] \o s[i]
    <3>. SUFFICES ASSUME NEW i \in 1..(m + 1)
                  PROVE  g[i] = IF i = 1 THEN s[i] ELSE g[i - 1] \o s[i]
      OBVIOUS
    <3>1. CASE i = 1
      BY <2>1, <2>2, <3>1
    <3>2. CASE i # 1
      <4>1. g[i - 1] = f[i - 1] BY <2>1, <3>2
      <4>2. CASE i <= m
        <5>1. i \in 1..m /\ g[i] = f[i] BY <2>1, <4>2
        <5>. QED BY <2>2, <3>2, <4>1, <5>1
      <4>3. CASE i = m + 1 BY <2>1, <4>1, <4>3, m + 1 - 1 = m
      <4>. QED BY <4>2, <4>3
    <3>. QED BY <3>1, <3>2
  <2>4. g = [i \in 1..(m + 1) |-> IF i = 1 THEN s[i] ELSE g[i - 1] \o s[i]]
    BY <2>1, <2>3
  <2>. QED BY <2>4 DEF Flattening
<1>3. ASSUME NEW m \in Without, \A k \in Without : m <= k PROVE FALSE
  <2>1. m \in Nat /\ m # 1 /\ m # 0 BY <1>1
  <2>2. m - 1 \in Nat \ {0} BY <2>1
  <2>3. m - 1 \notin Without BY <1>3, <2>1
  <2>4. PICK f : Flattening(s, m - 1, f) BY <2>2, <2>3
  <2>5. \E g : Flattening(s, (m - 1) + 1, g) BY <2>2, <2>4, <1>2
  <2>6. (m - 1) + 1 = m BY <2>1
  <2>. QED BY <2>5, <2>6, m \in Without
<1>4. Without \subseteq Nat OBVIOUS
<1>5. Without = {}
  <2>. HIDE DEF Without
  <2>. QED BY <1>3, <1>4, LeastNatural
<1>6. \E f : Flattening(s, n, f)
  BY <1>5
<1>7. PICK F : F = CHOOSE f : f = [i \in 1..n |-> IF i = 1 THEN s[i] ELSE f[i - 1] \o s[i]]
  OBVIOUS
<1>8. Flattening(s, n, F)
  BY <1>6, <1>7 DEF Flattening
<1>9. FlattenSeq(s) = F[n]
  BY <1>7 DEF FlattenSeq
<1>. QED BY <1>8, <1>9

(* Appending an element to a sequence, elementwise.                        *)
LEMMA Appended ==
  ASSUME NEW S, NEW c \in Seq(S), NEW e \in S
  PROVE  /\ c \o <<e>> \in Seq(S) /\ Len(c \o <<e>>) = Len(c) + 1
         /\ \A p \in 1..Len(c) : (c \o <<e>>)[p] = c[p]
         /\ (c \o <<e>>)[Len(c) + 1] = e
OBVIOUS

LEMMA Concatenated ==
  ASSUME NEW S, NEW c \in Seq(S), NEW d \in Seq(S)
  PROVE  /\ c \o d \in Seq(S) /\ Len(c \o d) = Len(c) + Len(d)
         /\ \A p \in 1..Len(c) : (c \o d)[p] = c[p]
         /\ \A p \in 1..Len(d) : (c \o d)[Len(c) + p] = d[p]
OBVIOUS

(* Inserting an element moves those from its place on one place further.   *)
LEMMA Inserted ==
  ASSUME NEW c \in Seq(Int), NEW at \in 1..Len(c), NEW e \in Int
  PROVE  /\ InsertAt(c, at, e) \in Seq(Int)
         /\ Len(InsertAt(c, at, e)) = Len(c) + 1
         /\ \A p \in 1..(Len(c) + 1) :
              InsertAt(c, at, e)[p] = IF p < at THEN c[p] ELSE IF p = at THEN e ELSE c[p - 1]
<1>1. PICK n \in Nat : n = Len(c)
  OBVIOUS
<1>2. PICK a : a = SubSeq(c, 1, at - 1)
  OBVIOUS
<1>3. PICK b : b = SubSeq(c, at, n)
  OBVIOUS
<1>4. at \in 1..n
  BY <1>1
<1>5. a \in Seq(Int) /\ Len(a) = at - 1 /\ \A p \in 1..(at - 1) : a[p] = c[p]
  BY <1>1, <1>2
<1>6. /\ b \in Seq(Int) /\ Len(b) = n - at + 1
      /\ \A p \in 1..(n - at + 1) : b[p] = c[at + p - 1]
  BY <1>1, <1>3
<1>7. PICK h : h = a \o <<e>>
  OBVIOUS
<1>8. /\ h \in Seq(Int) /\ Len(h) = at /\ h[at] = e
      /\ \A p \in 1..(at - 1) : h[p] = c[p]
  <2>1. /\ h \in Seq(Int) /\ Len(h) = Len(a) + 1
        /\ \A p \in 1..Len(a) : h[p] = a[p]
        /\ h[Len(a) + 1] = e
    <3>1. a \in Seq(Int) BY <1>5
    <3>. QED BY <3>1, <1>7, Appended
  <2>2. Len(a) = at - 1 /\ Len(a) + 1 = at
    BY <1>4, <1>5
  <2>. QED BY <1>5, <2>1, <2>2
<1>9. PICK g : g = h \o b
  OBVIOUS
<1>10. /\ g \in Seq(Int) /\ Len(g) = Len(h) + Len(b)
       /\ \A p \in 1..Len(h) : g[p] = h[p]
       /\ \A p \in 1..Len(b) : g[Len(h) + p] = b[p]
  <2>1. h \in Seq(Int) /\ b \in Seq(Int) BY <1>6, <1>8
  <2>. QED BY <2>1, <1>9, Concatenated
<1>11. Len(g) = n + 1
  BY <1>4, <1>6, <1>8, <1>10
<1>12. \A p \in 1..at : g[p] = h[p]
  BY <1>8, <1>10
<1>13. \A p \in 1..Len(b) : g[at + p] = b[p]
  BY <1>8, <1>10
<1>14. ASSUME NEW p \in 1..(n + 1)
       PROVE  g[p] = IF p < at THEN c[p] ELSE IF p = at THEN e ELSE c[p - 1]
  <2>1. CASE p < at
    <3>1. p \in 1..at /\ p \in 1..(at - 1) BY <1>4, <2>1
    <3>2. g[p] = c[p] BY <1>8, <1>12, <3>1
    <3>. QED BY <2>1, <3>2
  <2>2. CASE p = at
    <3>1. at \in 1..at BY <1>4
    <3>. QED BY <1>8, <1>12, <2>2, <3>1
  <2>3. CASE p > at
    <3>1. PICK k : k = p - at OBVIOUS
    <3>2. k \in 1..(n - at + 1) /\ at + k = p /\ at + k - 1 = p - 1 BY <1>4, <2>3, <3>1
    <3>3. k \in 1..Len(b) BY <1>6, <3>2
    <3>4. g[p] = b[k] BY <1>13, <3>2, <3>3
    <3>5. b[k] = c[p - 1] BY <1>6, <3>2
    <3>6. ~(p < at) /\ p # at BY <1>4, <2>3
    <3>. QED BY <3>4, <3>5, <3>6
  <2>. QED BY <1>4, <2>1, <2>2, <2>3
<1>15. g = InsertAt(c, at, e)
  BY <1>1, <1>2, <1>3, <1>7, <1>9 DEF InsertAt
<1>. QED BY <1>1, <1>10, <1>11, <1>14, <1>15

(* The items of a worklist.                                                *)
Items(ss) == {ss[y] : y \in DOMAIN ss}

LEMMA ItemsOfParts ==
  ASSUME NEW S, NEW ss \in Seq(S), ss # <<>>
  PROVE  /\ Head(ss) \in S /\ Tail(ss) \in Seq(S)
         /\ Items(ss) = {Head(ss)} \cup Items(Tail(ss))
<1>1. /\ Head(ss) = ss[1] /\ Len(Tail(ss)) = Len(ss) - 1 /\ Tail(ss) \in Seq(S)
      /\ \A y \in 1..(Len(ss) - 1) : Tail(ss)[y] = ss[y + 1]
      /\ Len(ss) \in Nat /\ Len(ss) >= 1
  OBVIOUS
<1>2. ASSUME NEW w \in Items(ss) PROVE w = Head(ss) \/ w \in Items(Tail(ss))
  <2>1. PICK y \in 1..Len(ss) : w = ss[y] BY DEF Items
  <2>2. CASE y = 1 BY <1>1, <2>1, <2>2
  <2>3. CASE y # 1
    <3>1. y - 1 \in 1..(Len(ss) - 1) /\ (y - 1) + 1 = y BY <2>3, <1>1
    <3>2. Tail(ss)[y - 1] = w /\ y - 1 \in DOMAIN Tail(ss) BY <1>1, <2>1, <3>1
    <3>. QED BY <3>2 DEF Items
  <2>. QED BY <2>2, <2>3
<1>3. Head(ss) \in Items(ss) /\ Items(Tail(ss)) \subseteq Items(ss)
  BY <1>1 DEF Items
<1>. QED BY <1>1, <1>2, <1>3

LEMMA ItemsInFront ==
  ASSUME NEW S, NEW w \in S, NEW ss \in Seq(S)
  PROVE  <<w>> \o ss \in Seq(S) /\ Items(<<w>> \o ss) = {w} \cup Items(ss)
<1>1. PICK t : t = <<w>> \o ss OBVIOUS
<1>2. /\ t \in Seq(S) /\ Len(t) = Len(ss) + 1 /\ t[1] = w
      /\ \A y \in 1..Len(ss) : t[y + 1] = ss[y]
  BY <1>1
<1>3. t # <<>> /\ Head(t) = w /\ Tail(t) = ss
  BY <1>1
<1>. QED BY <1>1, <1>2, <1>3, ItemsOfParts

LEMMA ItemsBehind ==
  ASSUME NEW S, NEW w \in S, NEW ss \in Seq(S)
  PROVE  ss \o <<w>> \in Seq(S) /\ Items(ss \o <<w>>) = {w} \cup Items(ss)
<1>1. PICK t : t = ss \o <<w>> OBVIOUS
<1>2. /\ t \in Seq(S) /\ Len(t) = Len(ss) + 1 /\ t[Len(ss) + 1] = w
      /\ \A y \in 1..Len(ss) : t[y] = ss[y]
  BY <1>1, Appended
<1>3. ASSUME NEW y \in 1..(Len(ss) + 1) PROVE t[y] = w \/ \E z \in 1..Len(ss) : t[y] = ss[z]
  BY <1>2
<1>4. Items(t) \subseteq {w} \cup Items(ss)
  BY <1>2, <1>3 DEF Items
<1>5. w \in Items(t)
  <2>1. Len(ss) + 1 \in DOMAIN t BY <1>2
  <2>. QED BY <1>2, <2>1 DEF Items
<1>6. Items(ss) \subseteq Items(t)
  <2>1. \A y \in DOMAIN ss : y \in 1..Len(ss) /\ y \in DOMAIN t BY <1>2
  <2>. QED BY <1>2, <2>1 DEF Items
<1>. QED BY <1>1, <1>2, <1>4, <1>5, <1>6

-----------------------------------------------------------------------------
(* The list that is walked, of the first k instructions: its elements are  *)
(* instructions, placeholders of targets and movs, none twice; addresses   *)
(* do not fall, and they rise behind an instruction.                       *)
Element(e, k) ==
  \/ e \in 1..k
  \/ e \in (Size + 1)..(Size + Len(movs))
  \/ e < 0 /\ -e \in Targets /\ -e <= k

Ordered(c) ==
  \A p, q \in 1..Len(c) : p < q =>
    /\ c[p] # c[q]
    /\ Addr(c[p]) <= Addr(c[q])
    /\ c[p] \in 1..Size => Addr(c[p]) < Addr(c[q])

Listing(c, k) ==
  /\ c \in Seq(Int)
  /\ \A p \in 1..Len(c) : Element(c[p], k)
  /\ \A a \in 1..k : \E p \in 1..Len(c) : c[p] = a
  /\ \A t \in Targets : t <= k => \E p \in 1..Len(c) : c[p] = -t
  /\ Ordered(c)

Holds(e) == \E p \in 1..Len(content) : content[p] = e

MovRec == [reg : STRING, value : Int, addr : 1..Size]
State == [state : 0..2, vmaddr : 0..Size, live : SUBSET STRING, frame : Int]
Item == [s : State, at : Int]

(* In state 2, and while a register is followed, there was a pop.          *)
Good(s) ==
  /\ s.state = 0 => s = NoThunk
  /\ s.state = 2 \/ s.live # {} => insts[s.vmaddr].iform = "pop"

(* An address has been visited, or somebody is on the way to it.           *)
Awaited(a) ==
  \/ visited[a] # {}
  \/ \E w \in Items(states) : w.at # End /\ Addr(w.at) = a
Covered ==
  /\ Awaited(1)
  /\ \A a \in 1..Size : a + 1 \in 1..Size /\ visited[a] # {} => Awaited(a + 1)

Shaped ==
  /\ program \in Programs
  /\ stage \in {"analyse", "abort", "throw", "done", "run"}
  /\ movs \in Seq(MovRec)
  /\ Listing(content, Size)
Worked ==
  /\ states \in Seq(Item)
  /\ \A w \in Items(states) : Good(w.s) /\ (w.at = End \/ Holds(w.at))
  /\ visited \in [1..Size -> SUBSET State]
  /\ \A a \in 1..Size : \A s \in visited[a] : Good(s)
  /\ \A m \in 1..Len(movs) : visited[movs[m].addr] # {}
  /\ patched \subseteq 1..(Size + Len(movs))
Ran ==
  /\ pc = End \/ Holds(pc)
  /\ old \in Machine /\ new \in Machine

Inv ==
  /\ Shaped /\ Worked /\ Ran
  /\ stage \in {"analyse", "done"} => Covered
  /\ stage = "done" => states = <<>>

-----------------------------------------------------------------------------
(* What the assumption says of the program that is analysed.               *)
LEMMA ProgramFacts ==
  ASSUME program \in Programs
  PROVE  /\ insts \in Seq(Instruction) /\ Size \in Nat \ {0} /\ DOMAIN insts = 1..Size
         /\ \A i \in 1..Size : insts[i] \in Instruction /\ insts[i].target \in 0..Size
         /\ Targets \subseteq 1..Size
         /\ program.dyldinfo \in BOOLEAN
<1>1. /\ program.dyldinfo \in BOOLEAN /\ insts \in Seq(Instruction) /\ insts # <<>>
      /\ \A i \in DOMAIN insts : insts[i].target \in 0..Len(insts)
  BY ProgramsAssumption DEF insts
<1>2. Size \in Nat \ {0} /\ DOMAIN insts = 1..Size
  <2>. HIDE DEF insts
  <2>1. PICK n \in Seq(Instruction) : n = insts BY <1>1
  <2>. QED BY <1>1, <2>1 DEF Size
<1>3. \A i \in 1..Size : insts[i] \in Instruction /\ insts[i].target \in 0..Size
  BY <1>1, <1>2 DEF Size
<1>. QED BY <1>1, <1>2, <1>3 DEF Targets

(* The addresses of the elements of a listing.                             *)
LEMMA AddrFacts ==
  ASSUME Size \in Nat \ {0}, Targets \subseteq 1..Size, movs \in Seq(MovRec),
         NEW k \in 0..Size, NEW e \in Int, Element(e, k)
  PROVE  /\ e # 0 /\ Addr(e) \in 1..Size
         /\ e \in 1..Size => Addr(e) = e /\ ~IsMov(e)
         /\ e < 0 => Addr(e) = -e /\ ~IsMov(e)
         /\ e > Size => Addr(e) = movs[e - Size].addr /\ e - Size \in 1..Len(movs) /\ IsMov(e)
<1>1. CASE e \in 1..Size
  BY <1>1 DEF Addr, IsMov
<1>2. CASE e < 0
  BY <1>2 DEF Addr, IsMov, Element
<1>3. CASE e > Size
  <2>1. e - Size \in 1..Len(movs) BY <1>3 DEF Element
  <2>2. movs[e - Size] \in MovRec BY <2>1
  <2>3. movs[e - Size].addr \in 1..Size BY <2>2 DEF MovRec
  <2>. QED BY <1>3, <2>1, <2>3 DEF Addr, IsMov
<1>. QED BY <1>1, <1>2, <1>3 DEF Element

(* An element has one index.                                               *)
LEMMA Indices ==
  ASSUME Listing(content, Size), NEW p \in 1..Len(content)
  PROVE  IndexOf(content[p]) = p
<1>1. DOMAIN content = 1..Len(content)
  BY DEF Listing
<1>2. \A q \in 1..Len(content) : content[q] = content[p] => q = p
  BY DEF Listing, Ordered
<1>. QED BY <1>1, <1>2 DEF IndexOf

(* What comes behind an element of the content: behind an instruction the  *)
(* next address or the end, behind anything else the same address.         *)
LEMMA Followers ==
  ASSUME Size \in Nat \ {0}, Targets \subseteq 1..Size, movs \in Seq(MovRec),
         Listing(content, Size), NEW e \in Int, Holds(e)
  PROVE  /\ After(e) = End \/ Holds(After(e))
         /\ e \in 1..Size /\ e + 1 \in 1..Size =>
              Holds(After(e)) /\ Addr(After(e)) = e + 1
         /\ e \notin 1..Size => Holds(After(e)) /\ Addr(After(e)) = Addr(e)
<1>1. PICK p \in 1..Len(content) : content[p] = e
  BY DEF Holds
<1>2. DOMAIN content = 1..Len(content) /\ Len(content) \in Nat
  BY DEF Listing
<1>2n. PICK n \in Nat : n = Len(content)
  BY <1>2
<1>3. IndexOf(e) = p
  BY <1>1, Indices
<1>4. /\ p = Len(content) => After(e) = End
      /\ p # Len(content) => p + 1 \in 1..Len(content) /\ After(e) = content[p + 1]
  <2>1. After(e) = IF p = Len(content) THEN End ELSE content[p + 1]
    BY <1>3 DEF After
  <2>2. p # n => p + 1 \in 1..n
    BY <1>2n
  <2>. QED BY <1>2n, <2>1, <2>2
<1>5. After(e) = End \/ Holds(After(e))
  BY <1>4 DEF Holds
<1>6. \A q \in 1..Len(content) : content[q] \in Int /\ Element(content[q], Size)
  BY DEF Listing
<1>7. \A q \in 1..Len(content) :
        /\ content[q] # 0 /\ Addr(content[q]) \in 1..Size
        /\ content[q] \in 1..Size => Addr(content[q]) = content[q]
  BY <1>6, AddrFacts
<1>8. ASSUME NEW q \in 1..Len(content), p < q
      PROVE  /\ Addr(content[p]) <= Addr(content[q])
             /\ content[p] \in 1..Size => Addr(content[p]) < Addr(content[q])
  BY <1>8 DEF Listing, Ordered
<1>9. ASSUME e \in 1..Size, e + 1 \in 1..Size
      PROVE  Holds(After(e)) /\ Addr(After(e)) = e + 1
  <2>1. PICK q \in 1..Len(content) : content[q] = e + 1
    BY <1>9 DEF Listing
  <2>2. Addr(content[q]) = e + 1 /\ Addr(content[p]) = e
    BY <1>1, <1>7, <1>9, <2>1
  <2>3. ~(q < p)
    BY <1>7, <1>9, <2>1, <2>2 DEF Listing, Ordered
  <2>4. p < q
    BY <1>1, <1>9, <2>1, <2>3
  <2>5. p + 1 \in 1..Len(content) /\ After(e) = content[p + 1] /\ p < p + 1
    <3>1. p # n /\ p < p + 1 BY <1>2n, <2>4
    <3>. QED BY <1>2n, <1>4, <3>1
  <2>6. e < Addr(content[p + 1])
    BY <1>1, <1>8, <1>9, <2>2, <2>5
  <2>7. Addr(content[p + 1]) <= e + 1
    <3>1. CASE q = p + 1
      BY <1>9, <2>2, <3>1
    <3>2. CASE p + 1 < q
      BY <2>2, <2>5, <3>2 DEF Listing, Ordered
    <3>. QED BY <2>4, <3>1, <3>2
  <2>8. Addr(content[p + 1]) \in 1..Size
    BY <1>7, <2>5
  <2>. QED BY <1>9, <2>5, <2>6, <2>7, <2>8 DEF Holds
<1>10. ASSUME e \notin 1..Size
       PROVE  Holds(After(e)) /\ Addr(After(e)) = Addr(e)
  <2>. DEFINE a == Addr(e)
  <2>1. a \in 1..Size /\ a = Addr(content[p])
    BY <1>1, <1>7
  <2>. HIDE DEF a
  <2>2. PICK q \in 1..Len(content) : content[q] = a
    BY <2>1 DEF Listing
  <2>3. Addr(content[q]) = a
    BY <1>7, <2>1, <2>2
  <2>4. q # p
    BY <1>1, <1>10, <2>1, <2>2
  <2>5. ~(q < p)
    BY <2>1, <2>2, <2>3 DEF Listing, Ordered
  <2>6. p < q
    BY <2>4, <2>5
  <2>7. p + 1 \in 1..Len(content) /\ After(e) = content[p + 1] /\ p < p + 1
    <3>1. p # n /\ p < p + 1 BY <1>2n, <2>6
    <3>. QED BY <1>2n, <1>4, <3>1
  <2>8. a <= Addr(content[p + 1])
    BY <1>8, <2>1, <2>7
  <2>9. Addr(content[p + 1]) <= a
    <3>1. CASE q = p + 1
      BY <2>1, <2>3, <3>1
    <3>2. CASE p + 1 < q
      BY <2>3, <2>7, <3>2 DEF Listing, Ordered
    <3>. QED BY <2>6, <3>1, <3>2
  <2>10. Addr(content[p + 1]) \in 1..Size
    BY <1>7, <2>7
  <2>11. Addr(content[p + 1]) = a
    BY <2>1, <2>8, <2>9, <2>10
  <2>. QED BY <2>7, <2>11 DEF Holds, a
<1>. QED BY <1>5, <1>9, <1>10

(* An element at a new address extends a list in order.                    *)
LEMMA OrderGrows ==
  ASSUME NEW c \in Seq(Int), NEW e \in Int, Ordered(c),
         \A p \in 1..Len(c) : /\ c[p] # e /\ Addr(c[p]) <= Addr(e)
                              /\ c[p] \in 1..Size => Addr(c[p]) < Addr(e)
  PROVE  Ordered(c \o <<e>>)
<1>1. PICK d : d = c \o <<e>> OBVIOUS
<1>2. PICK n \in Nat : n = Len(c) OBVIOUS
<1>3. Len(d) = n + 1 /\ d[n + 1] = e /\ \A p \in 1..n : d[p] = c[p]
  BY <1>1, <1>2, Appended
<1>4. ASSUME NEW p \in 1..(n + 1), NEW q \in 1..(n + 1), p < q
      PROVE  /\ d[p] # d[q] /\ Addr(d[p]) <= Addr(d[q])
             /\ d[p] \in 1..Size => Addr(d[p]) < Addr(d[q])
  <2>1. p \in 1..n /\ d[p] = c[p] BY <1>3, <1>4
  <2>2. CASE q = n + 1 BY <1>2, <1>3, <2>1, <2>2
  <2>3. CASE q \in 1..n
    <3>1. d[q] = c[q] BY <1>3, <2>3
    <3>. QED BY <1>2, <1>4, <2>1, <2>3, <3>1 DEF Ordered
  <2>. QED BY <2>2, <2>3
<1>. QED BY <1>1, <1>3, <1>4 DEF Ordered

(* InitialContent lists the instructions.                                  *)
LEMMA ListingGrows ==
  ASSUME Size \in Nat \ {0}, Targets \subseteq 1..Size, movs = <<>>,
         NEW k \in Nat, k + 1 <= Size, NEW c, Listing(c, k)
  PROVE  Listing(c \o (IF k + 1 \in Targets THEN <<-(k + 1), k + 1>> ELSE <<k + 1>>), k + 1)
<1>. DEFINE i == k + 1
<1>a. i \in 1..Size /\ k < i /\ -i < 0
  OBVIOUS
<1>. HIDE DEF i
<1>1. movs \in Seq(MovRec) /\ Len(movs) = 0
  OBVIOUS
<1>2. c \in Seq(Int) /\ Len(c) \in Nat
  BY DEF Listing
<1>3. \A p \in 1..Len(c) : c[p] \in Int /\ Element(c[p], k)
  BY <1>2 DEF Listing
<1>4. \A e \in Int : Element(e, k) => Element(e, i) /\ e # i /\ e # -i
  BY <1>a, <1>1 DEF Element
<1>5. ASSUME NEW e \in Int, Element(e, k) PROVE Addr(e) \in 1..k
  <2>1. e \in 1..k \/ (e < 0 /\ -e \in 1..k) BY <1>1, <1>5 DEF Element
  <2>. QED BY <1>a, <2>1 DEF Addr, IsMov
<1>6. Addr(i) = i /\ Addr(-i) = i /\ -i \notin 1..Size
  BY <1>a DEF Addr, IsMov
<1>7. ASSUME NEW d \in Seq(Int), Ordered(d),
             \A p \in 1..Len(d) : Element(d[p], i),
             \A p \in 1..Len(c) : \E q \in 1..Len(d) : d[q] = c[p],
             \A p \in 1..Len(d) : d[p] # i /\ Addr(d[p]) <= i
                                  /\ (d[p] \in 1..Size => Addr(d[p]) < i),
             i \in Targets => \E q \in 1..Len(d) : d[q] = -i
      PROVE  Listing(d \o <<i>>, i)
  <2>1. PICK g : g = d \o <<i>> OBVIOUS
  <2>2. PICK n \in Nat : n = Len(d) OBVIOUS
  <2>3. g \in Seq(Int) /\ Len(g) = n + 1 /\ g[n + 1] = i /\ \A p \in 1..n : g[p] = d[p]
    BY <1>a, <2>1, <2>2, Appended
  <2>4. \A p \in 1..Len(g) : Element(g[p], i)
    <3>. SUFFICES ASSUME NEW p \in 1..(n + 1) PROVE Element(g[p], i)
      BY <2>3
    <3>1. CASE p \in 1..n BY <1>7, <2>2, <2>3, <3>1
    <3>2. CASE p = n + 1 BY <1>a, <2>3, <3>2 DEF Element
    <3>. QED BY <3>1, <3>2
  <2>5. \A e : (\E q \in 1..Len(d) : d[q] = e) => \E q \in 1..Len(g) : g[q] = e
    BY <2>2, <2>3
  <2>6. \A a \in 1..i : \E p \in 1..Len(g) : g[p] = a
    <3>. SUFFICES ASSUME NEW a \in 1..i PROVE \E p \in 1..Len(g) : g[p] = a
      OBVIOUS
    <3>1. CASE a \in 1..k
      <4>1. PICK p \in 1..Len(c) : c[p] = a BY <3>1 DEF Listing
      <4>. QED BY <1>7, <2>5, <4>1
    <3>2. CASE a = i BY <2>3, <3>2
    <3>. QED BY <3>1, <3>2 DEF i
  <2>7. \A t \in Targets : t <= i => \E p \in 1..Len(g) : g[p] = -t
    <3>. SUFFICES ASSUME NEW t \in Targets, t <= i PROVE \E p \in 1..Len(g) : g[p] = -t
      OBVIOUS
    <3>1. CASE t <= k
      <4>1. PICK p \in 1..Len(c) : c[p] = -t BY <3>1 DEF Listing
      <4>. QED BY <1>7, <2>5, <4>1
    <3>2. CASE t = i BY <1>7, <2>5, <3>2
    <3>. QED BY <3>1, <3>2 DEF i
  <2>8. Ordered(g)
    BY <1>a, <1>6, <1>7, <2>1, OrderGrows
  <2>. QED BY <2>1, <2>3, <2>4, <2>6, <2>7, <2>8 DEF Listing
<1>8. Ordered(c)
  BY DEF Listing
<1>9. \A p \in 1..Len(c) : /\ Element(c[p], i) /\ c[p] # i /\ c[p] # -i
                           /\ Addr(c[p]) < i /\ Addr(c[p]) <= i
  <2>. SUFFICES ASSUME NEW p \in 1..Len(c)
                PROVE  /\ Element(c[p], i) /\ c[p] # i /\ c[p] # -i
                       /\ Addr(c[p]) < i /\ Addr(c[p]) <= i
    OBVIOUS
  <2>1. Addr(c[p]) \in 1..k BY <1>3, <1>5
  <2>. QED BY <1>a, <1>3, <1>4, <2>1
<1>10. CASE i \notin Targets
  <2>1. Listing(c \o <<i>>, i)
    BY <1>2, <1>7, <1>8, <1>9, <1>10
  <2>. QED BY <1>10, <2>1 DEF i
<1>11. CASE i \in Targets
  <2>1. PICK d : d = c \o <<-i>> OBVIOUS
  <2>2. PICK n \in Nat : n = Len(c) BY <1>2
  <2>3. d \in Seq(Int) /\ Len(d) = n + 1 /\ d[n + 1] = -i /\ \A p \in 1..n : d[p] = c[p]
    BY <1>a, <1>2, <2>1, <2>2, Appended
  <2>4. Ordered(d)
    BY <1>a, <1>2, <1>6, <1>8, <1>9, <2>1, OrderGrows
  <2>5. ASSUME NEW p \in 1..(n + 1)
        PROVE  /\ Element(d[p], i) /\ d[p] # i /\ Addr(d[p]) <= i
               /\ d[p] \in 1..Size => Addr(d[p]) < i
    <3>1. CASE p \in 1..n BY <1>9, <2>2, <2>3, <3>1
    <3>2. CASE p = n + 1 
      <4>1. -(-i) = i /\ i <= i /\ -i # i BY <1>a
      <4>. QED BY <1>a, <1>6, <1>11, <2>3, <3>2, <4>1 DEF Element
    <3>. QED BY <3>1, <3>2
  <2>6. \A p \in 1..Len(c) : \E q \in 1..Len(d) : d[q] = c[p]
    BY <2>2, <2>3
  <2>7. \E q \in 1..Len(d) : d[q] = -i
    BY <2>3
  <2>8. Listing(d \o <<i>>, i)
    BY <1>7, <2>3, <2>4, <2>5, <2>6, <2>7
  <2>9. d \o <<i>> = c \o <<-i, i>>
    BY <1>a, <1>2, <2>1
  <2>. QED BY <1>11, <2>8, <2>9 DEF i
<1>. QED BY <1>10, <1>11

LEMMA InitListing ==
  ASSUME Size \in Nat \ {0}, Targets \subseteq 1..Size, movs = <<>>
  PROVE  Listing(InitialContent, Size)
<1>1. PICK s : s = [i \in 1..Size |-> IF i \in Targets THEN <<-i, i>> ELSE <<i>>]
  OBVIOUS
<1>2. PICK n \in Nat \ {0} : n = Size
  OBVIOUS
<1>3. Len(s) = n
  BY <1>1, <1>2
<1>4. PICK f : Flattening(s, n, f) /\ FlattenSeq(s) = f[n]
  BY <1>3, Flattened
<1>5. \A i \in 1..n : f[i] = IF i = 1 THEN s[i] ELSE f[i - 1] \o s[i]
  BY <1>4 DEF Flattening
<1>6. Listing(<<>>, 0)
  BY DEF Listing, Ordered
<1>7. Listing(f[1], 1)
  <2>1. f[1] = s[1] /\ s[1] \in Seq(Int)
    BY <1>1, <1>2, <1>5
  <2>2. f[1] = <<>> \o (IF 0 + 1 \in Targets THEN <<-(0 + 1), 0 + 1>> ELSE <<0 + 1>>)
    BY <1>1, <1>2, <2>1
  <2>3. 0 \in Nat /\ 0 + 1 <= Size
    OBVIOUS
  <2>4. Listing(f[1], 0 + 1)
    BY <1>6, <2>2, <2>3, ListingGrows
  <2>. QED BY <2>4
<1>8. ASSUME NEW m \in 1..n, m + 1 <= n, Listing(f[m], m) PROVE Listing(f[m + 1], m + 1)
  <2>1. m + 1 \in 1..n /\ m + 1 # 1 /\ (m + 1) - 1 = m
    BY <1>8
  <2>2. f[m + 1] = f[m] \o s[m + 1]
    BY <1>5, <2>1
  <2>3. s[m + 1] = IF m + 1 \in Targets THEN <<-(m + 1), m + 1>> ELSE <<m + 1>>
    BY <1>1, <1>2, <2>1
  <2>4. m \in Nat /\ m + 1 <= Size
    BY <1>2, <1>8
  <2>. QED BY <1>8, <2>2, <2>3, <2>4, ListingGrows
<1>. DEFINE Fails == {m \in 1..n : ~Listing(f[m], m)}
<1>9. ASSUME NEW m \in Fails, \A k \in Fails : m <= k PROVE FALSE
  <2>1. m \in 1..n /\ m # 1 BY <1>7
  <2>2. m - 1 \in 1..n /\ (m - 1) + 1 = m /\ ~(m <= m - 1) BY <2>1
  <2>3. Listing(f[m - 1], m - 1) BY <1>9, <2>2
  <2>4. Listing(f[(m - 1) + 1], (m - 1) + 1) BY <1>8, <2>1, <2>2, <2>3
  <2>. QED BY <2>2, <2>4
<1>10. Fails \subseteq Nat OBVIOUS
<1>11. Fails = {}
  <2>. HIDE DEF Fails
  <2>. QED BY <1>9, <1>10, LeastNatural
<1>12. Listing(f[n], n)
  BY <1>11
<1>. QED BY <1>1, <1>2, <1>4, <1>12 DEF InitialContent

-----------------------------------------------------------------------------
(* The analysis starts with the whole section to do.                       *)
LEMMA StateFacts ==
  ASSUME Size \in Nat \ {0}
  PROVE  NoThunk \in State /\ Good(NoThunk)
BY DEF NoThunk, State, Good, NoFrame

LEMMA InitInv ==
  ASSUME Init
  PROVE  Inv
<1>a. /\ program \in Programs /\ stage = "analyse" /\ content = InitialContent
      /\ states = <<[s |-> NoThunk, at |-> content[1]]>>
      /\ visited = [a \in 1..Size |-> {}]
      /\ movs = <<>> /\ patched = {} /\ pc = End /\ old = NewMachine /\ new = NewMachine
  BY DEF Init
<1>b. Size \in Nat \ {0} /\ Targets \subseteq 1..Size
  BY <1>a, ProgramFacts
<1>1. Listing(content, Size)
  BY <1>a, <1>b, InitListing
<1>2. movs \in Seq(MovRec) /\ Len(movs) = 0
  BY <1>a
<1>3. Shaped
  BY <1>a, <1>1, <1>2 DEF Shaped
<1>4. 1 \in 1..Len(content) /\ content[1] \in Int /\ Element(content[1], Size)
  <2>1. PICK p \in 1..Len(content) : content[p] = 1
    BY <1>b, <1>1 DEF Listing
  <2>2. Len(content) \in Nat /\ \A q \in 1..Len(content) : content[q] \in Int
    BY <1>1 DEF Listing
  <2>3. 1 \in 1..Len(content)
    BY <2>1, <2>2
  <2>. QED BY <1>1, <2>2, <2>3 DEF Listing
<1>5. Holds(content[1])
  BY <1>4 DEF Holds
<1>6. content[1] # 0 /\ Addr(content[1]) = 1
  <2>1. \A q \in 1..Len(content) :
          content[q] \in Int /\ content[q] # 0 /\ Addr(content[q]) \in 1..Size
          /\ (content[q] \in 1..Size => Addr(content[q]) = content[q])
    <3>1. \A q \in 1..Len(content) : content[q] \in Int /\ Element(content[q], Size)
      BY <1>1 DEF Listing
    <3>. QED BY <1>b, <1>2, <3>1, AddrFacts
  <2>2. PICK p \in 1..Len(content) : content[p] = 1
    BY <1>b, <1>1 DEF Listing
  <2>3. Addr(content[p]) = 1
    BY <1>b, <2>1, <2>2
  <2>4. Len(content) \in Nat
    BY <1>1 DEF Listing
  <2>5. Addr(content[1]) <= 1
    <3>1. CASE p = 1 BY <2>3, <3>1
    <3>2. CASE 1 < p BY <1>1, <1>4, <2>3, <3>2 DEF Listing, Ordered
    <3>. QED BY <2>4, <3>1, <3>2
  <2>. QED BY <1>4, <2>1, <2>5
<1>7. PICK w : w = [s |-> NoThunk, at |-> content[1]]
  OBVIOUS
<1>8. w \in Item /\ states = <<w>> /\ Good(w.s) /\ w.at = content[1]
  BY <1>a, <1>b, <1>4, <1>7, StateFacts DEF Item
<1>9. states \in Seq(Item) /\ Items(states) = {w}
  BY <1>8 DEF Items
<1>10. visited \in [1..Size -> SUBSET State] /\ \A a \in 1..Size : visited[a] = {}
  BY <1>a
<1>11. Worked
  BY <1>a, <1>2, <1>5, <1>8, <1>9, <1>10 DEF Worked
<1>12. Ran
  BY <1>a DEF Ran, NewMachine, Machine, Junk
<1>13. Covered
  <2>1. Awaited(1)
    BY <1>6, <1>8, <1>9 DEF Awaited, End
  <2>. QED BY <1>10, <2>1 DEF Covered
<1>14. stage = "analyse" /\ stage # "done"
  BY <1>a
<1>. QED BY <1>3, <1>11, <1>12, <1>13, <1>14 DEF Inv

-----------------------------------------------------------------------------
(* Nothing but the program is needed to know its instructions.             *)
LEMMA SameProgram ==
  ASSUME program' = program
  PROVE  insts' = insts /\ Size' = Size /\ Targets' = Targets
BY DEF insts, Size, Targets

LEMMA SameList ==
  ASSUME UNCHANGED <<program, content, movs>>
  PROVE  /\ \A e : Addr(e)' = Addr(e) /\ (Holds(e)' <=> Holds(e))
         /\ Listing(content, Size) => Listing(content, Size)'
BY SameProgram DEF Addr, IsMov, Holds, Listing, Ordered, Element

(* The item that is taken, and the element it is at.                       *)
LEMMA Taken ==
  ASSUME Inv, Working
  PROVE  /\ stage = "analyse"
         /\ Size \in Nat \ {0} /\ Targets \subseteq 1..Size
         /\ Current \in Item /\ rest \in Seq(Item)
         /\ Items(states) = {Current} \cup Items(rest)
         /\ Good(Current.s) /\ (Current.at = End \/ Holds(Current.at))
         /\ \A w \in Items(rest) : Good(w.s) /\ (w.at = End \/ Holds(w.at))
<1>1. stage = "analyse" /\ states # <<>> /\ states \in Seq(Item)
  BY DEF Working, Inv, Worked
<1>2. Current \in Item /\ rest \in Seq(Item) /\ Items(states) = {Current} \cup Items(rest)
  BY <1>1, ItemsOfParts DEF Current, rest
<1>3. \A w \in Items(states) : Good(w.s) /\ (w.at = End \/ Holds(w.at))
  BY DEF Inv, Worked
<1>4. Size \in Nat \ {0} /\ Targets \subseteq 1..Size
  BY ProgramFacts DEF Inv, Shaped
<1>. QED BY <1>1, <1>2, <1>3, <1>4

LEMMA HeldFacts ==
  ASSUME Inv, NEW e, Holds(e)
  PROVE  /\ e \in Int /\ e # End /\ Element(e, Size) /\ Addr(e) \in 1..Size
         /\ e \in 1..Size => Addr(e) = e /\ ~IsMov(e)
         /\ e < 0 => ~IsMov(e)
         /\ e > Size => Addr(e) = movs[e - Size].addr /\ e - Size \in 1..Len(movs) /\ IsMov(e)
         /\ e > 0 => e \in 1..(Size + Len(movs))
         /\ After(e) = End \/ Holds(After(e))
         /\ e \in 1..Size /\ e + 1 \in 1..Size =>
              Holds(After(e)) /\ Addr(After(e)) = e + 1
         /\ e \notin 1..Size => Holds(After(e)) /\ Addr(After(e)) = Addr(e)
<1>1. /\ Size \in Nat \ {0} /\ Targets \subseteq 1..Size /\ movs \in Seq(MovRec)
      /\ Listing(content, Size)
  BY ProgramFacts DEF Inv, Shaped
<1>2. e \in Int /\ Element(e, Size)
  BY <1>1 DEF Holds, Listing
<1>3. Size \in 0..Size /\ Len(movs) \in Nat
  BY <1>1
<1>4. e > 0 => e \in 1..(Size + Len(movs))
  BY <1>1, <1>2, <1>3 DEF Element
<1>5. /\ e # End /\ Addr(e) \in 1..Size
      /\ e \in 1..Size => Addr(e) = e /\ ~IsMov(e)
      /\ e < 0 => ~IsMov(e)
      /\ e > Size => Addr(e) = movs[e - Size].addr /\ e - Size \in 1..Len(movs) /\ IsMov(e)
  BY <1>1, <1>2, <1>3, AddrFacts DEF End
<1>. QED BY <1>1, <1>2, <1>4, <1>5, Followers

(* A step of the analysis: what is in the list stays there, whoever waited *)
(* was visited or still waits, and the next address is waited for.         *)
LEMMA AnalysisStep ==
  ASSUME Inv, stage = "analyse", Shaped',
         UNCHANGED <<program, stage, pc, old, new>>,
         \A e : Holds(e) => Holds(e)' /\ Addr(e)' = Addr(e),
         patched' \subseteq 1..(Size + Len(movs')),
         \A m \in 1..Len(movs') : visited'[movs'[m].addr] # {},
         states' \in Seq(Item),
         \A w \in Items(states') : Good(w.s) /\ (w.at = End \/ Holds(w.at)),
         visited' \in [1..Size -> SUBSET State],
         \A a \in 1..Size : visited[a] \subseteq visited'[a],
         \A a \in 1..Size : \A s \in visited'[a] : Good(s),
         \A w \in Items(states) : w.at # End =>
           \/ visited'[Addr(w.at)] # {}
           \/ \E v \in Items(states') : v.at # End /\ Addr(v.at) = Addr(w.at),
         \A a \in 1..Size : a + 1 \in 1..Size /\ visited[a] = {} /\ visited'[a] # {} =>
           \E v \in Items(states') : v.at # End /\ Addr(v.at) = a + 1
  PROVE  Inv'
<1>1. insts' = insts /\ Size' = Size
  BY SameProgram
<1>2. State' = State /\ Item' = Item /\ \A s : Good(s)' <=> Good(s)
  BY <1>1 DEF State, Item, Good
<1>3. \A w \in Items(states') : Good(w.s)' /\ (w.at = End \/ Holds(w.at)')
  BY <1>2
<1>4. Worked'
  BY <1>1, <1>2, <1>3 DEF Worked
<1>5. Ran'
  BY DEF Inv, Ran
<1>6. ASSUME NEW a \in 1..Size,
             \E v \in Items(states') : v.at # End /\ Addr(v.at) = a
      PROVE  Awaited(a)'
  <2>1. PICK v \in Items(states') : v.at # End /\ Addr(v.at) = a
    BY <1>6
  <2>2. Addr(v.at)' = a
    BY <2>1
  <2>. QED BY <2>1, <2>2 DEF Awaited
<1>7. ASSUME NEW a \in 1..Size, Awaited(a)
      PROVE  Awaited(a)'
  <2>1. CASE visited'[a] # {}
    BY <2>1 DEF Awaited
  <2>2. CASE visited'[a] = {}
    <3>1. visited[a] = {} BY <2>2
    <3>2. PICK w \in Items(states) : w.at # End /\ Addr(w.at) = a BY <1>7, <3>1 DEF Awaited
    <3>3. \E v \in Items(states') : v.at # End /\ Addr(v.at) = a BY <2>2, <3>2
    <3>. QED BY <1>6, <3>3
  <2>. QED BY <2>1, <2>2
<1>8. ASSUME NEW a \in 1..Size, a + 1 \in 1..Size, visited'[a] # {}
      PROVE  Awaited(a + 1)'
  <2>1. CASE visited[a] # {}
    <3>1. Awaited(a + 1) BY <1>8, <2>1 DEF Inv, Covered
    <3>. QED BY <1>7, <1>8, <3>1
  <2>2. CASE visited[a] = {}
    <3>1. \E v \in Items(states') : v.at # End /\ Addr(v.at) = a + 1 BY <1>8, <2>2
    <3>. QED BY <1>6, <1>8, <3>1
  <2>. QED BY <2>1, <2>2
<1>9. Covered'
  <2>1. Awaited(1) /\ 1 \in 1..Size
    BY ProgramFacts DEF Inv, Covered, Shaped
  <2>2. Awaited(1)'
    BY <1>7, <2>1
  <2>. QED BY <1>1, <1>8, <2>2 DEF Covered
<1>. QED BY <1>4, <1>5, <1>9 DEF Inv

(* One that leaves the list as it is.                                      *)
LEMMA QuietStep ==
  ASSUME Inv, stage = "analyse",
         UNCHANGED <<program, stage, content, movs, patched, pc, old, new>>,
         states' \in Seq(Item),
         \A w \in Items(states') : Good(w.s) /\ (w.at = End \/ Holds(w.at)),
         visited' \in [1..Size -> SUBSET State],
         \A a \in 1..Size : visited[a] \subseteq visited'[a],
         \A a \in 1..Size : \A s \in visited'[a] : Good(s),
         \A w \in Items(states) : w.at # End =>
           \/ visited'[Addr(w.at)] # {}
           \/ \E v \in Items(states') : v.at # End /\ Addr(v.at) = Addr(w.at),
         \A a \in 1..Size : a + 1 \in 1..Size /\ visited[a] = {} /\ visited'[a] # {} =>
           \E v \in Items(states') : v.at # End /\ Addr(v.at) = a + 1
  PROVE  Inv'
<1>1. /\ Size' = Size
      /\ \A e : Addr(e)' = Addr(e) /\ (Holds(e)' <=> Holds(e))
      /\ Listing(content, Size)'
  BY SameProgram, SameList DEF Inv, Shaped
<1>2. MovRec' = MovRec
  BY <1>1 DEF MovRec
<1>3. Shaped'
  BY <1>1, <1>2 DEF Inv, Shaped
<1>4. ASSUME NEW m \in 1..Len(movs) PROVE visited'[movs[m].addr] # {}
  <2>1. movs[m] \in MovRec BY DEF Inv, Shaped
  <2>2. movs[m].addr \in 1..Size BY <2>1 DEF MovRec
  <2>. QED BY <2>2 DEF Inv, Worked
<1>5. patched' \subseteq 1..(Size + Len(movs'))
  BY DEF Inv, Worked
<1>6. \A m \in 1..Len(movs') : visited'[movs'[m].addr] # {}
  BY <1>4
<1>7. \A e : Holds(e) => Holds(e)' /\ Addr(e)' = Addr(e)
  BY <1>1
<1>. QED BY <1>3, <1>5, <1>6, <1>7, AnalysisStep

LEMMA DropStep ==
  ASSUME Inv, Drop
  PROVE  Inv'
<1>a. /\ Working /\ (Current.at = End \/ Current.s \in visited[Addr(Current.at)])
      /\ states' = rest
      /\ UNCHANGED <<program, stage, content, visited, movs, patched, pc, old, new>>
  BY DEF Drop, Seen
<1>b. /\ stage = "analyse" /\ rest \in Seq(Item) /\ Items(states) = {Current} \cup Items(rest)
      /\ \A w \in Items(rest) : Good(w.s) /\ (w.at = End \/ Holds(w.at))
  BY <1>a, Taken
<1>c. visited \in [1..Size -> SUBSET State] /\ \A a \in 1..Size : \A s \in visited[a] : Good(s)
  BY DEF Inv, Worked
<1>. QED BY <1>a, <1>b, <1>c, QuietStep

LEMMA PassPlaceholderStep ==
  ASSUME Inv, PassPlaceholder
  PROVE  Inv'
<1>a. /\ Working /\ Current.at < 0
      /\ states' = <<[Current EXCEPT !.at = After(Current.at)]>> \o rest
      /\ UNCHANGED <<program, stage, content, visited, movs, patched, pc, old, new>>
  BY DEF PassPlaceholder
<1>b. /\ stage = "analyse" /\ Current \in Item /\ rest \in Seq(Item)
      /\ Items(states) = {Current} \cup Items(rest)
      /\ Good(Current.s) /\ (Current.at = End \/ Holds(Current.at))
      /\ \A w \in Items(rest) : Good(w.s) /\ (w.at = End \/ Holds(w.at))
      /\ Size \in Nat
  BY <1>a, Taken
<1>c. visited \in [1..Size -> SUBSET State] /\ \A a \in 1..Size : \A s \in visited[a] : Good(s)
  BY DEF Inv, Worked
<1>1. Holds(Current.at) /\ Current.at \notin 1..Size
  BY <1>a, <1>b DEF End
<1>2. Holds(After(Current.at)) /\ Addr(After(Current.at)) = Addr(Current.at)
  BY <1>1, HeldFacts
<1>3. After(Current.at) \in Int /\ After(Current.at) # End
  BY <1>2, HeldFacts
<1>4. PICK v : v = [Current EXCEPT !.at = After(Current.at)]
  OBVIOUS
<1>5. v \in Item /\ v.s = Current.s /\ v.at = After(Current.at)
  BY <1>b, <1>3, <1>4 DEF Item
<1>6. states' \in Seq(Item) /\ Items(states') = {v} \cup Items(rest)
  BY <1>a, <1>b, <1>4, <1>5, ItemsInFront
<1>. QED BY <1>a, <1>b, <1>c, <1>2, <1>3, <1>5, <1>6, QuietStep

-----------------------------------------------------------------------------
(* Visiting an element: it is an instruction, its own or an inserted one.  *)
LEMMA Visited ==
  ASSUME Inv, Visit
  PROVE  /\ Working /\ stage = "analyse" /\ Holds(Current.at)
         /\ Current.at \in 1..(Size + Len(movs)) /\ Addr(Current.at) \in 1..Size
         /\ Size \in Nat \ {0} /\ Targets \subseteq 1..Size
         /\ Current \in Item /\ Current.s \in State /\ Good(Current.s)
         /\ rest \in Seq(Item) /\ Items(states) = {Current} \cup Items(rest)
         /\ \A w \in Items(rest) : Good(w.s) /\ (w.at = End \/ Holds(w.at))
         /\ x.reg0 \in STRING /\ x.disp \in Int /\ x.target \in 0..Size
         /\ Current.at > Size => x.iclass = "mov" /\ x.iform = "mov_imm"
         /\ Current.at <= Size => x = insts[Current.at] /\ Addr(Current.at) = Current.at
<1>1. Working /\ Current.at > 0
  BY DEF Visit
<1>2. /\ stage = "analyse" /\ Size \in Nat \ {0} /\ Targets \subseteq 1..Size
      /\ Current \in Item /\ rest \in Seq(Item)
      /\ Items(states) = {Current} \cup Items(rest)
      /\ Good(Current.s) /\ (Current.at = End \/ Holds(Current.at))
      /\ \A w \in Items(rest) : Good(w.s) /\ (w.at = End \/ Holds(w.at))
  BY <1>1, Taken
<1>3. Current.s \in State /\ Current.at \in Int /\ Holds(Current.at)
  BY <1>1, <1>2 DEF Item, End
<1>4. /\ Current.at \in 1..(Size + Len(movs)) /\ Addr(Current.at) \in 1..Size
      /\ Current.at \in 1..Size => Addr(Current.at) = Current.at /\ ~IsMov(Current.at)
      /\ Current.at > Size => Current.at - Size \in 1..Len(movs) /\ IsMov(Current.at)
  BY <1>1, <1>3, HeldFacts
<1>5. CASE Current.at > Size
  <2>1. movs[Current.at - Size] \in MovRec
    BY <1>4, <1>5 DEF Inv, Shaped
  <2>2. x = MovInst(movs[Current.at - Size].reg)
    BY <1>4, <1>5 DEF x, Decode
  <2>3. movs[Current.at - Size].reg \in STRING
    BY <2>1 DEF MovRec
  <2>4. /\ x.reg0 \in STRING /\ x.disp \in Int /\ x.target = 0
        /\ x.iclass = "mov" /\ x.iform = "mov_imm"
    <3>1. PICK r \in STRING : r = movs[Current.at - Size].reg BY <2>3
    <3>2. x = MovInst(r) BY <2>2, <3>1
    <3>3. 0 \in Int
      OBVIOUS
    <3>. QED BY <3>1, <3>2, <3>3 DEF MovInst
  <2>5. ~(Current.at <= Size) /\ 0 \in 0..Size
    BY <1>2, <1>3, <1>5
  <2>. QED BY <1>1, <1>2, <1>3, <1>4, <1>5, <2>4, <2>5
<1>6. CASE Current.at <= Size
  <2>1. Current.at \in 1..Size
    BY <1>1, <1>2, <1>3, <1>6
  <2>2. x = insts[Current.at]
    BY <1>4, <2>1 DEF x, Decode
  <2>3. insts[Current.at] \in Instruction /\ insts[Current.at].target \in 0..Size
    BY <2>1, ProgramFacts DEF Inv, Shaped
  <2>4. x.reg0 \in STRING /\ x.disp \in Int
    BY <2>2, <2>3 DEF Instruction
  <2>. QED BY <1>1, <1>2, <1>3, <1>4, <1>6, <2>1, <2>2, <2>3, <2>4
<1>. QED BY <1>2, <1>3, <1>5, <1>6

LEMMA VisitedMore ==
  ASSUME Inv, Visit
  PROVE  /\ visited' \in [1..Size -> SUBSET State]
         /\ \A a \in 1..Size : visited[a] \subseteq visited'[a]
         /\ \A a \in 1..Size : \A s \in visited'[a] : Good(s)
         /\ visited'[Addr(Current.at)] # {}
         /\ \A a \in 1..Size : visited[a] = {} /\ visited'[a] # {} =>
              a = Addr(Current.at) /\ Current.at = a
<1>1. /\ Addr(Current.at) \in 1..Size /\ Current.s \in State /\ Good(Current.s)
      /\ Holds(Current.at) /\ Current.at \in 1..(Size + Len(movs)) /\ Size \in Nat
  BY Visited
<1>2. visited' = [visited EXCEPT ![Addr(Current.at)] = @ \cup {Current.s}]
  BY DEF Visit
<1>3. visited \in [1..Size -> SUBSET State] /\ \A a \in 1..Size : \A s \in visited[a] : Good(s)
  BY DEF Inv, Worked
<1>4. \A a \in 1..Size :
        visited'[a] = IF a = Addr(Current.at) THEN visited[a] \cup {Current.s} ELSE visited[a]
  BY <1>2, <1>3
<1>5. \A a \in 1..Size : visited[a] = {} /\ visited'[a] # {} => a = Addr(Current.at)
  BY <1>4
<1>6. visited[Addr(Current.at)] = {} => Current.at = Addr(Current.at)
  <2>1. CASE Current.at > Size
    <3>1. Current.at - Size \in 1..Len(movs) /\ Addr(Current.at) = movs[Current.at - Size].addr
      BY <1>1, <2>1, HeldFacts
    <3>. QED BY <3>1 DEF Inv, Worked
  <2>2. CASE ~(Current.at > Size)
    <3>1. Current.at \in 1..Size BY <1>1, <2>2
    <3>. QED BY <1>1, <3>1, HeldFacts
  <2>. QED BY <2>1, <2>2
<1>7. visited' \in [1..Size -> SUBSET State]
  BY <1>1, <1>2, <1>3
<1>8. \A a \in 1..Size : \A s \in visited'[a] : Good(s)
  BY <1>1, <1>3, <1>4
<1>. QED BY <1>1, <1>4, <1>5, <1>6, <1>7, <1>8

(* The address behind the element: that of the next instruction.           *)
LEMMA PassedFacts ==
  ASSUME Inv, Visit, NEW s \in State, Good(s)
  PROVE  /\ Passed(s) \in Item /\ Passed(s).s = s /\ Passed(s).at = After(Current.at)
         /\ Passed(s).at = End \/ Holds(Passed(s).at)
         /\ \A a \in 1..Size : a + 1 \in 1..Size /\ visited[a] = {} /\ visited'[a] # {} =>
              Passed(s).at # End /\ Addr(Passed(s).at) = a + 1
<1>1. Holds(Current.at)
  BY Visited
<1>2. After(Current.at) = End \/ Holds(After(Current.at))
  BY <1>1, HeldFacts
<1>3. After(Current.at) \in Int
  BY <1>2, HeldFacts DEF End
<1>4. Passed(s) \in Item /\ Passed(s).s = s /\ Passed(s).at = After(Current.at)
  BY <1>3 DEF Passed, Item
<1>5. ASSUME NEW a \in 1..Size, a + 1 \in 1..Size, visited[a] = {}, visited'[a] # {}
      PROVE  After(Current.at) # End /\ Addr(After(Current.at)) = a + 1
  <2>1. Current.at = a
    BY <1>5, VisitedMore
  <2>2. Holds(After(a)) /\ Addr(After(a)) = a + 1
    BY <1>1, <1>5, <2>1, HeldFacts
  <2>. QED BY <2>1, <2>2, HeldFacts
<1>. QED BY <1>2, <1>4, <1>5

(* Any step that visits an element, goes on behind it and maybe elsewhere. *)
LEMMA VisitStep ==
  ASSUME Inv, Visit, NEW s \in State, Good(s),
         UNCHANGED <<program, stage, content, movs, patched, pc, old, new>>,
         states' \in Seq(Item),
         NEW W, Items(states') = {Passed(s)} \cup Items(rest) \cup W,
         \A w \in W : Good(w.s) /\ (w.at = End \/ Holds(w.at))
  PROVE  Inv'
<1>1. /\ stage = "analyse" /\ Items(states) = {Current} \cup Items(rest)
      /\ \A w \in Items(rest) : Good(w.s) /\ (w.at = End \/ Holds(w.at))
  BY Visited
<1>2. /\ visited' \in [1..Size -> SUBSET State]
      /\ \A a \in 1..Size : visited[a] \subseteq visited'[a]
      /\ \A a \in 1..Size : \A t \in visited'[a] : Good(t)
      /\ visited'[Addr(Current.at)] # {}
  BY VisitedMore
<1>3. /\ Passed(s).s = s /\ (Passed(s).at = End \/ Holds(Passed(s).at))
      /\ \A a \in 1..Size : a + 1 \in 1..Size /\ visited[a] = {} /\ visited'[a] # {} =>
           Passed(s).at # End /\ Addr(Passed(s).at) = a + 1
  BY PassedFacts
<1>4. \A w \in Items(states') : Good(w.s) /\ (w.at = End \/ Holds(w.at))
  BY <1>1, <1>3
<1>5. \A w \in Items(states) : w.at # End =>
        \/ visited'[Addr(w.at)] # {}
        \/ \E v \in Items(states') : v.at # End /\ Addr(v.at) = Addr(w.at)
  BY <1>1, <1>2
<1>6. \A a \in 1..Size : a + 1 \in 1..Size /\ visited[a] = {} /\ visited'[a] # {} =>
        \E v \in Items(states') : v.at # End /\ Addr(v.at) = a + 1
  BY <1>3
<1>. QED BY <1>1, <1>2, <1>4, <1>5, <1>6, QuietStep

LEMMA JumpedFacts ==
  ASSUME Inv, Visit
  PROVE  /\ Jumped \in Item /\ Good(Jumped.s) /\ (Jumped.at = End \/ Holds(Jumped.at))
<1>1. /\ Current \in Item /\ Good(Current.s) /\ x.target \in 0..Size
      /\ Size \in Nat \ {0} /\ Targets \subseteq 1..Size
      /\ Holds(Current.at)
      /\ Current.at > Size => x.iclass = "mov" /\ x.iform = "mov_imm"
      /\ Current.at <= Size => x = insts[Current.at] /\ Addr(Current.at) = Current.at
      /\ Current.at \in 1..(Size + Len(movs))
  BY Visited
<1>2. /\ Jumped.s = Current.s /\ Jumped.at = (IF x.target = 0 THEN End ELSE -x.target)
      /\ Jumped \in Item
  BY <1>1 DEF Jumped, Item, End
<1>3. ASSUME x.target # 0 PROVE Holds(-x.target)
  <2>1. Current.at <= Size
    <3>1. CASE Current.at > Size
      <4>1. Current.at - Size \in 1..Len(movs) /\ IsMov(Current.at)
        BY <1>1, <3>1, HeldFacts
      <4>2. x = MovInst(movs[Current.at - Size].reg)
        BY <4>1 DEF x, Decode
      <4>. QED BY <1>3, <4>2 DEF MovInst
    <3>. QED BY <1>1, <3>1
  <2>2. Current.at \in 1..Size /\ x = insts[Current.at]
    BY <1>1, <2>1
  <2>3. x.target \in Targets /\ x.target <= Size
    BY <1>1, <1>3, <2>2 DEF Targets
  <2>4. Listing(content, Size)
    BY DEF Inv, Shaped
  <2>. QED BY <2>3, <2>4 DEF Listing, Holds
<1>. QED BY <1>1, <1>2, <1>3

LEMMA BranchStep ==
  ASSUME Inv, Branch
  PROVE  Inv'
<1>a. /\ Visit /\ states' = <<Passed(Current.s), Jumped>> \o rest
      /\ UNCHANGED <<program, stage, content, movs, patched, pc, old, new>>
  BY DEF Branch
<1>b. Current.s \in State /\ Good(Current.s) /\ rest \in Seq(Item)
  BY <1>a, Visited
<1>c. Passed(Current.s) \in Item
  BY <1>a, <1>b, PassedFacts
<1>d. Jumped \in Item /\ Good(Jumped.s) /\ (Jumped.at = End \/ Holds(Jumped.at))
  BY <1>a, JumpedFacts
<1>1. PICK r : r = <<Jumped>> \o rest OBVIOUS
<1>2. r \in Seq(Item) /\ Items(r) = {Jumped} \cup Items(rest)
  BY <1>b, <1>d, <1>1, ItemsInFront
<1>3. <<Passed(Current.s)>> \o r \in Seq(Item)
      /\ Items(<<Passed(Current.s)>> \o r) = {Passed(Current.s)} \cup Items(r)
  BY <1>c, <1>2, ItemsInFront
<1>4. states' = <<Passed(Current.s)>> \o r
  BY <1>a, <1>b, <1>c, <1>d, <1>1
<1>5. states' \in Seq(Item) /\ Items(states') = {Passed(Current.s)} \cup Items(rest) \cup {Jumped}
  BY <1>2, <1>3, <1>4
<1>. QED BY <1>a, <1>b, <1>d, <1>5, VisitStep

LEMMA JumpStep ==
  ASSUME Inv, Jump
  PROVE  Inv'
<1>a. /\ Visit /\ states' = <<Jumped>> \o rest \o <<Passed(Current.s)>>
      /\ UNCHANGED <<program, stage, content, movs, patched, pc, old, new>>
  BY DEF Jump, AfterJump
<1>b. Current.s \in State /\ Good(Current.s) /\ rest \in Seq(Item)
  BY <1>a, Visited
<1>c. Passed(Current.s) \in Item
  BY <1>a, <1>b, PassedFacts
<1>d. Jumped \in Item /\ Good(Jumped.s) /\ (Jumped.at = End \/ Holds(Jumped.at))
  BY <1>a, JumpedFacts
<1>1. PICK r : r = <<Jumped>> \o rest OBVIOUS
<1>2. r \in Seq(Item) /\ Items(r) = {Jumped} \cup Items(rest)
  BY <1>b, <1>d, <1>1, ItemsInFront
<1>3. states' \in Seq(Item) /\ Items(states') = {Passed(Current.s)} \cup Items(r)
  <2>1. states' = r \o <<Passed(Current.s)>>
    BY <1>a, <1>1
  <2>. QED BY <1>c, <1>2, <2>1, ItemsBehind
<1>5. Items(states') = {Passed(Current.s)} \cup Items(rest) \cup {Jumped}
  BY <1>2, <1>3
<1>. QED BY <1>a, <1>b, <1>d, <1>3, <1>5, VisitStep

(* handle_inst moves the state on; the new one has only to be good.        *)
LEMMA ContinueStep ==
  ASSUME Inv, Visit, NEW s \in State, Good(s), Continue(s)
  PROVE  Inv'
<1>a. /\ states' = <<Passed(s)>> \o rest
      /\ UNCHANGED <<program, stage, content, movs, patched, pc, old, new>>
  BY DEF Continue
<1>b. rest \in Seq(Item) /\ Passed(s) \in Item
  BY Visited, PassedFacts
<1>1. PICK W : W = {} OBVIOUS
<1>2. states' \in Seq(Item) /\ Items(states') = {Passed(s)} \cup Items(rest) \cup W
  BY <1>a, <1>b, <1>1, ItemsInFront
<1>. QED BY <1>a, <1>1, <1>2, VisitStep

-----------------------------------------------------------------------------
(* handle_inst and handle_inst_thunk, rule by rule: the states of the      *)
(* analysis stay good.                                                     *)
LEMMA SeeingStep ==
  ASSUME Inv, SeeCall \/ Idle \/ SeePop
  PROVE  Inv'
<1>1. Visit
  BY DEF SeeCall, Idle, SeePop, Inst
<1>2. /\ Current.s \in State /\ Good(Current.s) /\ Current.at \in 1..(Size + Len(movs))
      /\ Size \in Nat \ {0} /\ x.reg0 \in STRING
      /\ Current.at > Size => x.iform = "mov_imm"
      /\ Current.at <= Size => x = insts[Current.at] /\ Addr(Current.at) = Current.at
      /\ Addr(Current.at) \in 1..Size
  BY <1>1, Visited
<1>3. PICK s : s = Current.s
  OBVIOUS
<1>4. /\ s \in State /\ s.state \in 0..2 /\ s.vmaddr \in 0..Size /\ s.live \subseteq STRING
      /\ s.frame \in Int
  BY <1>2, <1>3 DEF State
<1>5. CASE SeeCall
  <2>1. PICK t : t = [s EXCEPT !.state = 1]
    OBVIOUS
  <2>2. t \in State /\ t.state = 1 /\ t.live = s.live /\ t.vmaddr = s.vmaddr
    BY <1>3, <1>4, <2>1 DEF State
  <2>3. Good(t)
    BY <1>2, <1>3, <2>2 DEF Good
  <2>4. Continue(t)
    BY <1>3, <1>5, <2>1 DEF SeeCall
  <2>. QED BY <1>1, <2>2, <2>3, <2>4, ContinueStep
<1>6. CASE Idle
  BY <1>1, <1>2, <1>6, ContinueStep DEF Idle
<1>7. CASE SeePop
  <2>1. PICK t : t = [s EXCEPT !.state = 2, !.live = @ \cup {x.reg0}, !.vmaddr = Addr(Current.at)]
    OBVIOUS
  <2>2. x.reg0 \in STRING
    BY <1>2
  <2>3. t \in State /\ t.state = 2 /\ t.vmaddr = Addr(Current.at)
    <3>1. PICK a : a = Addr(Current.at) OBVIOUS
    <3>2. PICK L : L = s.live \cup {x.reg0} OBVIOUS
    <3>3. a \in 0..Size /\ L \in SUBSET STRING /\ 2 \in 0..2 BY <1>2, <1>4, <2>2, <3>1, <3>2
    <3>4. t = [state |-> 2, vmaddr |-> a, live |-> L, frame |-> s.frame]
      <4>1. s = [state |-> s.state, vmaddr |-> s.vmaddr, live |-> s.live, frame |-> s.frame]
        BY <1>4 DEF State
      <4>. QED BY <2>1, <3>1, <3>2, <4>1
    <3>. QED BY <1>4, <3>1, <3>3, <3>4 DEF State
  <2>4. x.iform = "pop"
    BY <1>7 DEF SeePop
  <2>5. insts[Addr(Current.at)].iform = "pop"
    <3>1. ~(Current.at > Size) BY <1>2, <2>4
    <3>. QED BY <1>2, <2>4, <3>1
  <2>6. Good(t)
    BY <2>3, <2>5 DEF Good
  <2>7. Continue(t)
    BY <1>3, <1>7, <2>1 DEF SeePop
  <2>. QED BY <1>1, <2>3, <2>6, <2>7, ContinueStep
<1>. QED BY <1>5, <1>6, <1>7

(* In state 2 registers may come to hold the thunk's address, or lose it.  *)
LEMMA FollowingStep ==
  ASSUME Inv,
         Call \/ FrameStore \/ FrameLoss \/ FrameLoad \/ Alias \/ XorSelf \/ Ret \/ Unused
  PROVE  Inv'
<1>1. Visit /\ Current.s.state = 2
  BY DEF Call, FrameStore, FrameLoss, FrameLoad, Alias, XorSelf, Ret, Unused, Plain, Other,
         Inline, Thunk, Inst
<1>2. Current.s \in State /\ Good(Current.s) /\ Size \in Nat \ {0}
  BY <1>1, Visited
<1>3. x.reg0 \in STRING /\ x.disp \in Int
  BY <1>1, Visited
<1>4. PICK s : s = Current.s
  OBVIOUS
<1>5. /\ s \in State /\ s.state = 2 /\ s.vmaddr \in 0..Size /\ s.live \subseteq STRING
      /\ s.frame \in Int /\ insts[s.vmaddr].iform = "pop"
  BY <1>1, <1>2, <1>4 DEF State, Good
<1>6. ASSUME NEW L \in SUBSET STRING, Continue([s EXCEPT !.live = L])
      PROVE  Inv'
  <2>1. PICK t : t = [s EXCEPT !.live = L]
    OBVIOUS
  <2>2. t \in State /\ t.state = 2 /\ t.vmaddr = s.vmaddr
    BY <1>5, <2>1 DEF State
  <2>3. Good(t)
    BY <1>5, <2>2 DEF Good
  <2>. QED BY <1>1, <1>6, <2>1, <2>2, <2>3, ContinueStep
<1>7. ASSUME NEW f \in Int, Continue([s EXCEPT !.frame = f])
      PROVE  Inv'
  <2>1. PICK t : t = [s EXCEPT !.frame = f]
    OBVIOUS
  <2>2. t \in State /\ t.state = 2 /\ t.vmaddr = s.vmaddr
    BY <1>5, <2>1 DEF State
  <2>3. Good(t)
    BY <1>5, <2>2 DEF Good
  <2>. QED BY <1>1, <1>7, <2>1, <2>2, <2>3, ContinueStep
<1>8. Live = s.live
  BY <1>4 DEF Live
<1>9. CASE Call
  <2>1. Continue([s EXCEPT !.live = Surviving(s.live)])
    BY <1>4, <1>9 DEF Call
  <2>2. Surviving(s.live) \in SUBSET STRING
    BY <1>5 DEF Surviving
  <2>. QED BY <1>6, <2>1, <2>2
<1>10. CASE FrameStore
  <2>1. Continue([s EXCEPT !.frame = x.disp])
    BY <1>4, <1>10 DEF FrameStore
  <2>. QED BY <1>3, <1>7, <2>1
<1>11. CASE FrameLoss
  <2>1. Continue([s EXCEPT !.frame = NoFrame]) /\ NoFrame \in Int
    BY <1>4, <1>11 DEF FrameLoss, NoFrame
  <2>. QED BY <1>7, <2>1
<1>12. CASE FrameLoad \/ Alias
  <2>1. Continue([s EXCEPT !.live = s.live \cup {x.reg0}])
    BY <1>4, <1>12 DEF FrameLoad, Alias
  <2>2. s.live \cup {x.reg0} \in SUBSET STRING
    BY <1>3, <1>5
  <2>. QED BY <1>6, <2>1, <2>2
<1>13. CASE XorSelf
  <2>1. Continue([s EXCEPT !.live = s.live \ {x.reg0}])
    BY <1>4, <1>13 DEF XorSelf
  <2>2. s.live \ {x.reg0} \in SUBSET STRING
    BY <1>5
  <2>. QED BY <1>6, <2>1, <2>2
<1>14. CASE Ret
  <2>1. Continue(NoThunk)
    BY <1>14 DEF Ret, Reset
  <2>. QED BY <1>1, <1>2, <2>1, StateFacts, ContinueStep
<1>15. CASE Unused
  <2>1. Continue([s EXCEPT !.live = Destroyed])
    BY <1>4, <1>15 DEF Unused
  <2>2. Destroyed \in SUBSET STRING
    BY <1>5, <1>8 DEF Destroyed
  <2>. QED BY <1>6, <2>1, <2>2
<1>. QED BY <1>9, <1>10, <1>11, <1>12, <1>13, <1>14, <1>15

(* The analysis that gives up, and the one that is done.                   *)
LEMMA StopStep ==
  ASSUME Inv, Abort \/ Throw
  PROVE  Inv'
<1>a. /\ Visit /\ stage' \in {"abort", "throw"}
      /\ UNCHANGED <<program, content, states, movs, patched, pc, old, new>>
  BY DEF Abort, Throw, Thunk, Plain, Other, Inline, Inst
<1>1. /\ visited' \in [1..Size -> SUBSET State]
      /\ \A a \in 1..Size : visited[a] \subseteq visited'[a]
      /\ \A a \in 1..Size : \A s \in visited'[a] : Good(s)
  BY <1>a, VisitedMore
<1>2. /\ insts' = insts /\ Size' = Size /\ Targets' = Targets
      /\ \A e : Addr(e)' = Addr(e) /\ (Holds(e)' <=> Holds(e))
      /\ Listing(content, Size)'
  BY <1>a, SameProgram, SameList DEF Inv, Shaped
<1>3. State' = State /\ Item' = Item /\ MovRec' = MovRec /\ \A s : Good(s)' <=> Good(s)
  BY <1>2 DEF State, Item, MovRec, Good
<1>4. Shaped'
  BY <1>a, <1>2, <1>3 DEF Inv, Shaped
<1>5. ASSUME NEW m \in 1..Len(movs) PROVE visited'[movs[m].addr] # {}
  <2>1. movs[m] \in MovRec BY DEF Inv, Shaped
  <2>2. movs[m].addr \in 1..Size BY <2>1 DEF MovRec
  <2>. QED BY <1>1, <2>2 DEF Inv, Worked
<1>6. Worked'
  BY <1>a, <1>1, <1>2, <1>3, <1>5 DEF Inv, Worked
<1>7. Ran'
  BY <1>a, <1>2 DEF Inv, Ran
<1>. QED BY <1>a, <1>4, <1>6, <1>7 DEF Inv

LEMMA FinishStep ==
  ASSUME Inv, Finish
  PROVE  Inv'
<1>a. /\ stage = "analyse" /\ stage' = "done" /\ states = <<>>
      /\ UNCHANGED <<program, content, states, visited, movs, patched, pc, old, new>>
  BY DEF Finish, analysis
<1>1. /\ insts' = insts /\ Size' = Size /\ Targets' = Targets
      /\ \A e : Addr(e)' = Addr(e) /\ (Holds(e)' <=> Holds(e))
      /\ Listing(content, Size)'
  BY <1>a, SameProgram, SameList DEF Inv, Shaped
<1>2. State' = State /\ Item' = Item /\ MovRec' = MovRec /\ \A s : Good(s)' <=> Good(s)
  BY <1>1 DEF State, Item, MovRec, Good
<1>3. Shaped'
  BY <1>a, <1>1, <1>2 DEF Inv, Shaped
<1>4. Worked'
  BY <1>a, <1>1, <1>2 DEF Inv, Worked
<1>5. Ran'
  BY <1>a, <1>1 DEF Inv, Ran
<1>6. \A a : Awaited(a) <=> Awaited(a)'
  BY <1>a, <1>1 DEF Awaited
<1>7. Covered'
  BY <1>a, <1>1, <1>6 DEF Inv, Covered
<1>. QED BY <1>a, <1>3, <1>4, <1>5, <1>7 DEF Inv

-----------------------------------------------------------------------------
(* A mov is inserted before the element at which it is: it has its address *)
(* from there, and what was in the list keeps its own.                     *)
LEMMA MovInserted ==
  ASSUME Inv, NEW e, Holds(e), NEW m \in MovRec, m.addr = Addr(e),
         program' = program, movs' = Append(movs, m),
         content' = InsertAt(content, IndexOf(e), Size + Len(movs'))
  PROVE  /\ movs' \in Seq(MovRec) /\ Len(movs') = Len(movs) + 1
         /\ movs'[Len(movs) + 1] = m /\ \A i \in 1..Len(movs) : movs'[i] = movs[i]
         /\ \A f : Holds(f) => Holds(f)' /\ Addr(f)' = Addr(f)
         /\ Listing(content, Size)'
<1>a. /\ Size \in Nat \ {0} /\ Targets \subseteq 1..Size /\ movs \in Seq(MovRec)
      /\ Listing(content, Size)
  BY ProgramFacts DEF Inv, Shaped
<1>b. insts' = insts /\ Size' = Size /\ Targets' = Targets
  BY SameProgram
<1>c. content \in Seq(Int) /\ Ordered(content)
  BY <1>a DEF Listing
<1>1. PICK l \in Nat : l = Len(movs)
  BY <1>a
<1>2. /\ movs' \in Seq(MovRec) /\ Len(movs') = l + 1
      /\ movs'[l + 1] = m /\ \A i \in 1..l : movs'[i] = movs[i]
  BY <1>a, <1>1
<1>3. PICK d : d = content
  OBVIOUS
<1>3a. PICK n \in Nat : n = Len(d)
  BY <1>c, <1>3
<1>4. PICK p \in 1..n : d[p] = e
  BY <1>3, <1>3a DEF Holds
<1>5. IndexOf(e) = p
  BY <1>a, <1>3, <1>3a, <1>4, Indices
<1>6. PICK z \in Int : z = Size + (l + 1)
  BY <1>a
<1>7. PICK c : c = content' /\ c = InsertAt(d, p, z)
  BY <1>2, <1>3, <1>5, <1>6
<1>8. /\ c \in Seq(Int) /\ Len(c) = n + 1
      /\ \A q \in 1..(n + 1) :
           c[q] = IF q < p THEN d[q] ELSE IF q = p THEN z ELSE d[q - 1]
  <2>1. p \in 1..Len(d) /\ d \in Seq(Int) BY <1>c, <1>3, <1>3a
  <2>2. /\ InsertAt(d, p, z) \in Seq(Int) /\ Len(InsertAt(d, p, z)) = Len(d) + 1
        /\ \A q \in 1..(Len(d) + 1) :
             InsertAt(d, p, z)[q] = IF q < p THEN d[q] ELSE IF q = p THEN z ELSE d[q - 1]
    BY <2>1, Inserted
  <2>. QED BY <1>3a, <1>7, <2>2
<1>9. ASSUME NEW q \in 1..n
      PROVE  /\ d[q] \in Int /\ Element(d[q], Size) /\ d[q] # z
             /\ Addr(d[q])' = Addr(d[q]) /\ Addr(d[q]) \in 1..Size
  <2>1. PICK f : f = d[q] OBVIOUS
  <2>2. f \in Int /\ Element(f, Size)
    BY <1>a, <1>3, <1>3a, <2>1 DEF Listing
  <2>3. f # z
    BY <1>a, <1>1, <1>6, <2>2 DEF Element
  <2>4. Addr(f) \in 1..Size /\ (f > Size => f - Size \in 1..l)
    <3>1. Size \in 0..Size BY <1>a
    <3>. QED BY <1>a, <1>1, <2>2, <3>1, AddrFacts
  <2>5. Addr(f)' = Addr(f)
    <3>1. CASE f > Size
      <4>1. movs'[f - Size] = movs[f - Size]
        BY <1>2, <2>4, <3>1
      <4>. QED BY <1>b, <4>1 DEF Addr, IsMov
    <3>2. CASE ~(f > Size)
      BY <1>b, <3>2 DEF Addr, IsMov
    <3>. QED BY <3>1, <3>2
  <2>. QED BY <2>1, <2>2, <2>3, <2>4, <2>5
<1>10. z > Size /\ Addr(z)' = Addr(e) /\ z \notin 1..Size
  <2>1. z > Size /\ z - Size = l + 1 /\ z \notin 1..Size
    BY <1>a, <1>6
  <2>2. Addr(z)' = movs'[l + 1].addr
    BY <1>b, <2>1 DEF Addr, IsMov
  <2>. QED BY <1>2, <2>1, <2>2
<1>11. ASSUME NEW q \in 1..n PROVE \E r \in 1..(n + 1) : c[r] = d[q]
  <2>1. CASE q < p
    <3>1. q \in 1..(n + 1) BY <2>1
    <3>. QED BY <1>8, <2>1, <3>1
  <2>2. CASE ~(q < p)
    <3>1. q + 1 \in 1..(n + 1) /\ ~(q + 1 < p) /\ q + 1 # p /\ (q + 1) - 1 = q BY <2>2
    <3>2. c[q + 1] = d[q] BY <1>8, <3>1
    <3>. QED BY <3>1, <3>2
  <2>. QED BY <2>1, <2>2
<1>12. ASSUME NEW f, Holds(f) PROVE Holds(f)' /\ Addr(f)' = Addr(f)
  <2>1. PICK q \in 1..n : d[q] = f BY <1>3, <1>3a, <1>12 DEF Holds
  <2>2. PICK r \in 1..(n + 1) : c[r] = f BY <1>11, <2>1
  <2>3. Addr(f)' = Addr(f) BY <1>9, <2>1
  <2>. QED BY <1>7, <1>8, <2>2, <2>3 DEF Holds
<1>13. ASSUME NEW f \in Int, Element(f, Size) PROVE Element(f, Size)'
  <2>1. CASE f \in (Size + 1)..(Size + Len(movs))
    <3>1. f \in (Size + 1)..(Size + (l + 1)) BY <1>a, <1>1, <2>1
    <3>. QED BY <1>b, <1>2, <3>1 DEF Element
  <2>2. CASE f \notin (Size + 1)..(Size + Len(movs))
    BY <1>b, <1>13, <2>2 DEF Element
  <2>. QED BY <2>1, <2>2
<1>14. Element(z, Size)'
  <2>1. z \in (Size + 1)..(Size + (l + 1)) BY <1>a, <1>6
  <2>. QED BY <1>b, <1>2, <2>1 DEF Element
<1>15. ASSUME NEW q \in 1..(n + 1) PROVE Element(c[q], Size)'
  <2>1. CASE q < p
    <3>1. q \in 1..n /\ c[q] = d[q] BY <1>8, <2>1
    <3>2. Element(d[q], Size)' BY <1>9, <1>13, <3>1
    <3>. QED BY <3>1, <3>2
  <2>2. CASE q = p
    <3>1. c[q] = z BY <1>8, <2>2
    <3>. QED BY <1>14, <3>1
  <2>3. CASE q > p
    <3>1. q - 1 \in 1..n /\ ~(q < p) /\ q # p BY <2>3
    <3>2. c[q] = d[q - 1] BY <1>8, <3>1
    <3>3. Element(d[q - 1], Size)' BY <1>9, <1>13, <3>1
    <3>. QED BY <3>2, <3>3
  <2>. QED BY <2>1, <2>2, <2>3
<1>16. ASSUME NEW q \in 1..n, NEW r \in 1..n, q < r
       PROVE  /\ d[q] # d[r] /\ Addr(d[q]) <= Addr(d[r])
              /\ d[q] \in 1..Size => Addr(d[q]) < Addr(d[r])
  BY <1>c, <1>3, <1>3a, <1>16 DEF Ordered
<1>17. ASSUME NEW q \in 1..(n + 1), NEW r \in 1..(n + 1), q < r
       PROVE  /\ c[q] # c[r] /\ Addr(c[q])' <= Addr(c[r])'
              /\ c[q] \in 1..Size => Addr(c[q])' < Addr(c[r])'
  <2>1. CASE q = p
    <3>1. r - 1 \in 1..n /\ r - 1 >= p /\ ~(r < p) /\ r # p BY <1>17, <2>1
    <3>2. c[q] = z /\ c[r] = d[r - 1] BY <1>8, <2>1, <3>1
    <3>3. Addr(e) <= Addr(d[r - 1])
      <4>1. CASE r - 1 = p
        <5>1. d[r - 1] = e BY <1>4, <4>1
        <5>2. Addr(d[r - 1]) \in 1..Size BY <1>9, <3>1
        <5>. QED BY <1>a, <5>1, <5>2
      <4>2. CASE r - 1 # p
        <5>1. p < r - 1 BY <3>1, <4>2
        <5>. QED BY <1>4, <1>16, <3>1, <5>1
      <4>. QED BY <4>1, <4>2
    <3>4. d[r - 1] # z /\ Addr(d[r - 1])' = Addr(d[r - 1])
      BY <1>9, <3>1
    <3>. QED BY <1>10, <3>2, <3>3, <3>4
  <2>2. CASE r = p
    <3>1. q \in 1..n /\ q < p BY <1>17, <2>2
    <3>2. c[r] = z /\ c[q] = d[q] BY <1>8, <2>2, <3>1
    <3>3. d[q] # z /\ Addr(d[q])' = Addr(d[q])
      BY <1>9, <3>1
    <3>4. /\ Addr(d[q]) <= Addr(e)
          /\ d[q] \in 1..Size => Addr(d[q]) < Addr(e)
      BY <1>4, <1>16, <3>1
    <3>. QED BY <1>10, <3>2, <3>3, <3>4
  <2>3. CASE q # p /\ r # p
    <3>1. PICK i \in 1..n : i = IF q < p THEN q ELSE q - 1 BY <1>17, <2>3
    <3>2. PICK j \in 1..n : j = IF r < p THEN r ELSE r - 1 BY <1>17, <2>3
    <3>3. i < j BY <1>17, <2>3, <3>1, <3>2
    <3>4. c[q] = d[i] /\ c[r] = d[j] BY <1>8, <2>3, <3>1, <3>2
    <3>5. Addr(d[i])' = Addr(d[i]) /\ Addr(d[j])' = Addr(d[j]) BY <1>9
    <3>6. /\ d[i] # d[j] /\ Addr(d[i]) <= Addr(d[j])
          /\ d[i] \in 1..Size => Addr(d[i]) < Addr(d[j])
      BY <1>16, <3>3
    <3>. QED BY <3>4, <3>5, <3>6
  <2>. QED BY <2>1, <2>2, <2>3
<1>18. Ordered(c)'
  BY <1>b, <1>8, <1>17 DEF Ordered
<1>19. ASSUME NEW f, NEW q \in 1..Len(content), content[q] = f
       PROVE  \E r \in 1..Len(c) : c[r] = f
  <2>1. \E r \in 1..(n + 1) : c[r] = f BY <1>3, <1>3a, <1>11, <1>19
  <2>. QED BY <1>8, <2>1
<1>20. Listing(content, Size)'
  <2>1. \A a \in 1..Size : \E q \in 1..Len(c) : c[q] = a
    BY <1>a, <1>19 DEF Listing
  <2>2. \A t \in Targets : t <= Size => \E q \in 1..Len(c) : c[q] = -t
    BY <1>a, <1>19 DEF Listing
  <2>3. \A q \in 1..Len(c) : Element(c[q], Size)'
    BY <1>8, <1>15
  <2>4. Listing(c, Size)'
    BY <1>b, <1>8, <1>18, <2>1, <2>2, <2>3 DEF Listing
  <2>. QED BY <1>7, <2>4
<1>. QED BY <1>1, <1>2, <1>12, <1>20

LEMMA UseStep ==
  ASSUME Inv, Use
  PROVE  Inv'
<1>. DEFINE s == IF program.dyldinfo THEN [Current.s EXCEPT !.live = Destroyed] ELSE Current.s
<1>a. /\ Visit /\ Current.s.state = 2 /\ Uses
      /\ movs' = Append(movs, [reg |-> UsedReg, value |-> Target, addr |-> Addr(Current.at)])
      /\ content' = InsertAt(content, IndexOf(Current.at), Size + Len(movs'))
      /\ patched' \subseteq patched \cup {Current.at}
      /\ states' = <<Passed(s)>> \o rest
      /\ UNCHANGED <<program, stage, pc, old, new>>
  BY DEF Use, Plain, Other, Inline, Thunk, Inst
<1>b. /\ stage = "analyse" /\ Current.s \in State /\ Good(Current.s)
      /\ Holds(Current.at) /\ Current.at \in 1..(Size + Len(movs)) /\ Addr(Current.at) \in 1..Size
      /\ Size \in Nat \ {0} /\ x.disp \in Int /\ x.reg0 \in STRING
      /\ rest \in Seq(Item) /\ Items(states) = {Current} \cup Items(rest)
      /\ \A w \in Items(rest) : Good(w.s) /\ (w.at = End \/ Holds(w.at))
  BY <1>a, Visited
<1>c. /\ Current.s.live \subseteq STRING /\ Current.s.vmaddr \in 0..Size /\ Current.s.frame \in Int
      /\ Current.s.state \in 0..2
  BY <1>b DEF State
<1>1. PICK m : m = [reg |-> UsedReg, value |-> Target, addr |-> Addr(Current.at)]
  OBVIOUS
<1>2. m \in MovRec /\ m.addr = Addr(Current.at)
  <2>1. UsedReg \in STRING
    BY <1>a, <1>c DEF UsedReg, Uses, Live
  <2>2. Target \in Int
    BY <1>b, <1>c DEF Target
  <2>. QED BY <1>b, <1>1, <2>1, <2>2 DEF MovRec
<1>3. movs' = Append(movs, m)
  BY <1>a, <1>1
<1>4. /\ movs' \in Seq(MovRec) /\ Len(movs') = Len(movs) + 1
      /\ movs'[Len(movs) + 1] = m /\ \A i \in 1..Len(movs) : movs'[i] = movs[i]
      /\ \A f : Holds(f) => Holds(f)' /\ Addr(f)' = Addr(f)
      /\ Listing(content, Size)'
  BY <1>a, <1>b, <1>2, <1>3, MovInserted
<1>5. Size' = Size /\ MovRec' = MovRec /\ insts' = insts
  BY <1>a, SameProgram DEF MovRec
<1>6. Shaped'
  BY <1>a, <1>4, <1>5 DEF Inv, Shaped
<1>7. PICK l \in Nat : l = Len(movs)
  <2>1. movs \in Seq(MovRec) BY DEF Inv, Shaped
  <2>. QED BY <2>1
<1>8. s \in State /\ s.state = 2 /\ s.vmaddr = Current.s.vmaddr
  <2>1. CASE program.dyldinfo
    <3>1. PICK t : t = Current.s OBVIOUS
    <3>2. PICK L : L = Destroyed OBVIOUS
    <3>3. L \in SUBSET STRING BY <1>c, <3>2 DEF Destroyed, Live
    <3>4. s = [t EXCEPT !.live = L] BY <2>1, <3>1, <3>2
    <3>5. t \in State /\ t.state = 2 BY <1>a, <1>b, <3>1
    <3>. HIDE DEF s
    <3>. QED BY <3>1, <3>3, <3>4, <3>5 DEF State
  <2>2. CASE ~program.dyldinfo
    BY <1>a, <1>b, <2>2
  <2>. QED BY <2>1, <2>2
<1>. HIDE DEF s
<1>9. Good(s)
  BY <1>a, <1>b, <1>8 DEF Good
<1>10. /\ visited' \in [1..Size -> SUBSET State]
       /\ \A a \in 1..Size : visited[a] \subseteq visited'[a]
       /\ \A a \in 1..Size : \A t \in visited'[a] : Good(t)
       /\ visited'[Addr(Current.at)] # {}
  BY <1>a, VisitedMore
<1>11. /\ Passed(s) \in Item /\ Passed(s).s = s /\ (Passed(s).at = End \/ Holds(Passed(s).at))
       /\ \A a \in 1..Size : a + 1 \in 1..Size /\ visited[a] = {} /\ visited'[a] # {} =>
            Passed(s).at # End /\ Addr(Passed(s).at) = a + 1
  BY <1>a, <1>8, <1>9, PassedFacts
<1>12. states' \in Seq(Item) /\ Items(states') = {Passed(s)} \cup Items(rest)
  BY <1>a, <1>b, <1>11, ItemsInFront
<1>13. \A w \in Items(states') : Good(w.s) /\ (w.at = End \/ Holds(w.at))
  BY <1>b, <1>9, <1>11, <1>12
<1>14. patched' \subseteq 1..(Size + Len(movs'))
  <2>1. patched \subseteq 1..(Size + l)
    BY <1>7 DEF Inv, Worked
  <2>2. \A i \in 1..(Size + l) : i \in 1..(Size + (l + 1))
    BY <1>b
  <2>. QED BY <1>a, <1>b, <1>4, <1>7, <2>1, <2>2
<1>15. ASSUME NEW i \in 1..Len(movs') PROVE visited'[movs'[i].addr] # {}
  <2>1. CASE i = l + 1
    BY <1>2, <1>4, <1>7, <1>10, <2>1
  <2>2. CASE i # l + 1
    <3>1. i \in 1..l BY <1>4, <1>7, <2>2
    <3>2. movs'[i] = movs[i] /\ movs[i] \in MovRec /\ visited[movs[i].addr] # {}
      BY <1>4, <1>7, <3>1 DEF Inv, Shaped, Worked
    <3>3. movs[i].addr \in 1..Size BY <3>2 DEF MovRec
    <3>. QED BY <1>10, <3>2, <3>3
  <2>. QED BY <2>1, <2>2
<1>16. \A w \in Items(states) : w.at # End =>
         \/ visited'[Addr(w.at)] # {}
         \/ \E v \in Items(states') : v.at # End /\ Addr(v.at) = Addr(w.at)
  BY <1>b, <1>10, <1>12
<1>17. \A a \in 1..Size : a + 1 \in 1..Size /\ visited[a] = {} /\ visited'[a] # {} =>
         \E v \in Items(states') : v.at # End /\ Addr(v.at) = a + 1
  BY <1>11, <1>12
<1>18. \A f : Holds(f) => Holds(f)' /\ Addr(f)' = Addr(f)
  BY <1>4
<1>. QED BY <1>a, <1>b, <1>6, <1>10, <1>12, <1>13, <1>14, <1>15, <1>16, <1>17, <1>18, AnalysisStep

-----------------------------------------------------------------------------
(* The program runs: it stays in the list, on machines.                    *)
LEMMA RunningStep ==
  ASSUME Inv, stage' = "run", old' \in Machine, new' \in Machine,
         pc' = End \/ Holds(pc'), UNCHANGED <<program, analysis>>
  PROVE  Inv'
<1>a. UNCHANGED <<program, content, states, visited, movs, patched>>
  BY DEF analysis
<1>b. PICK c : c = pc'
  OBVIOUS
<1>1. /\ insts' = insts /\ Size' = Size /\ Targets' = Targets
      /\ \A e : Addr(e)' = Addr(e) /\ (Holds(e)' <=> Holds(e))
      /\ Listing(content, Size)'
  BY <1>a, SameProgram, SameList DEF Inv, Shaped
<1>2. State' = State /\ Item' = Item /\ MovRec' = MovRec /\ \A s : Good(s)' <=> Good(s)
  BY <1>1 DEF State, Item, MovRec, Good
<1>3. Shaped'
  BY <1>a, <1>1, <1>2 DEF Inv, Shaped
<1>4. Worked'
  BY <1>a, <1>1, <1>2 DEF Inv, Worked
<1>5. c = End \/ Holds(c)'
  BY <1>1, <1>b
<1>6. Ran'
  BY <1>b, <1>5 DEF Ran
<1>. QED BY <1>3, <1>4, <1>6 DEF Inv

LEMMA EnterStep ==
  ASSUME Inv, Enter
  PROVE  Inv'
<1>a. /\ stage' = "run" /\ UNCHANGED <<program, analysis, old, new>>
      /\ \E i \in Entries : pc' = FirstAt(i)
  BY DEF Enter
<1>b. /\ Size \in Nat \ {0} /\ Targets \subseteq 1..Size /\ movs \in Seq(MovRec)
      /\ Listing(content, Size)
  BY ProgramFacts DEF Inv, Shaped
<1>1. PICK i \in 1..Size : pc' = FirstAt(i)
  BY <1>a, <1>b DEF Entries
<1>2. PICK n \in Nat : n = Len(content) /\ DOMAIN content = 1..n
  BY <1>b DEF Listing
<1>3. PICK T : T = {y \in 1..n : Addr(content[y]) = i}
  OBVIOUS
<1>4. T \subseteq Nat /\ T # {}
  <2>1. PICK p \in 1..n : content[p] = i
    BY <1>b, <1>2 DEF Listing
  <2>2. i \in Int /\ Element(i, Size) /\ Size \in 0..Size
    BY <1>b DEF Element
  <2>3. Addr(i) = i
    BY <1>b, <2>2, AddrFacts
  <2>. QED BY <1>3, <2>1, <2>3
<1>5. PICK y \in T : \A k \in T : y <= k
  BY <1>4, LeastNatural
<1>6. y \in DOMAIN content /\ Addr(content[y]) = i
  BY <1>2, <1>3, <1>5
<1>7. \A z \in 1..(y - 1) : Addr(content[z]) # i
  <2>. SUFFICES ASSUME NEW z \in 1..(y - 1), Addr(content[z]) = i PROVE FALSE
    OBVIOUS
  <2>1. y \in 1..n BY <1>3, <1>5
  <2>2. z \in 1..n /\ ~(y <= z) BY <2>1
  <2>. QED BY <1>3, <1>5, <2>2
<1>8. PICK w \in DOMAIN content : FirstAt(i) = content[w]
  BY <1>6, <1>7 DEF FirstAt
<1>9. pc' = content[w]
  BY <1>1, <1>8
<1>10. Holds(pc')
  BY <1>2, <1>8, <1>9 DEF Holds
<1>11. old' \in Machine /\ new' \in Machine
  BY <1>a DEF Inv, Ran
<1>. QED BY <1>a, <1>10, <1>11, RunningStep

(* The values of the machine are numbers.                                  *)
LEMMA MachineFacts ==
  ASSUME NEW m \in Machine
  PROVE  /\ \A r : Value(m, r) \in Int
         /\ \A d : Slot(m, d) \in Int
         /\ m.top \in Int
         /\ \A r : \A v \in Int : Writing(m, r, v) \in Machine /\ Writing(m, r, v).top = m.top
<1>1. /\ m.regs \in [{"eax", "ebx", "ecx"} -> Int] /\ m.slots \in [{0, 4} -> Int] /\ m.top \in Int
  BY DEF Machine
<1>2. ASSUME NEW r, NEW v \in Int
      PROVE  Writing(m, r, v) \in Machine /\ Writing(m, r, v).top = m.top
  <2>1. PICK g : g = [q \in DOMAIN m.regs |-> IF q = r THEN v ELSE m.regs[q]]
    OBVIOUS
  <2>2. g \in [{"eax", "ebx", "ecx"} -> Int]
    BY <1>1, <2>1
  <2>3. Writing(m, r, v) = [m EXCEPT !.regs = g]
    BY <2>1 DEF Writing
  <2>. QED BY <2>2, <2>3 DEF Machine
<1>. QED BY <1>1, <1>2 DEF Value, Slot, Junk

LEMMA EffectOnMachine ==
  ASSUME NEW i \in Instruction, NEW disp \in Int, NEW m \in Machine, NEW return \in Int
  PROVE  Effect(i, disp, m, return) \in Machine
<1>1. /\ m.regs \in [{"eax", "ebx", "ecx"} -> Int] /\ m.slots \in [{0, 4} -> Int] /\ m.top \in Int
  BY DEF Machine
<1>2. /\ \A r : Value(m, r) \in Int
      /\ \A d : Slot(m, d) \in Int
      /\ \A r : \A v \in Int : Writing(m, r, v) \in Machine
  BY MachineFacts
<1>3. [m EXCEPT !.top = return] \in Machine
  BY DEF Machine
<1>4. \A w \in Machine : [w EXCEPT !.top = Junk] \in Machine
  BY DEF Machine, Junk
<1>5. [m EXCEPT !.regs = [q \in DOMAIN m.regs |-> IF q \in CallerSaved THEN Junk ELSE m.regs[q]]]
        \in Machine
  <2>1. PICK g : g = [q \in DOMAIN m.regs |-> IF q \in CallerSaved THEN Junk ELSE m.regs[q]]
    OBVIOUS
  <2>2. g \in [{"eax", "ebx", "ecx"} -> Int]
    BY <1>1, <2>1 DEF Junk
  <2>3. [m EXCEPT !.regs = g] \in Machine
    BY <2>2 DEF Machine
  <2>. QED BY <2>1, <2>3
<1>6. ASSUME NEW v \in Int PROVE [m EXCEPT !.slots[disp] = v] \in Machine
  <2>1. PICK g : g = [m.slots EXCEPT ![disp] = v]
    OBVIOUS
  <2>2. g \in [{0, 4} -> Int]
    BY <1>1, <2>1
  <2>3. [m EXCEPT !.slots = g] \in Machine
    BY <2>2 DEF Machine
  <2>. QED BY <2>1, <2>3
<1>7. \A v \in Int : Offset(v, disp) \in Int
  BY DEF Offset, Moved, Junk
<1>8. Junk \in Int /\ m.top \in Int
  BY <1>1 DEF Junk
<1>. QED BY <1>2, <1>3, <1>4, <1>5, <1>6, <1>7, <1>8 DEF Effect

LEMMA RunMovStep ==
  ASSUME Inv, RunMov
  PROVE  Inv'
<1>a. /\ stage' = "run" /\ IsMov(pc) /\ UNCHANGED <<program, analysis, old>>
      /\ new' = Writing(new, movs[pc - Size].reg, movs[pc - Size].value)
      /\ pc' = After(pc)
  BY DEF RunMov
<1>b. /\ Size \in Nat \ {0} /\ movs \in Seq(MovRec)
      /\ old \in Machine /\ new \in Machine /\ (pc = End \/ Holds(pc))
  BY ProgramFacts DEF Inv, Shaped, Ran
<1>1. pc > Size /\ Holds(pc)
  BY <1>a, <1>b DEF IsMov, End
<1>2. pc - Size \in 1..Len(movs) /\ (After(pc) = End \/ Holds(After(pc)))
  BY <1>1, HeldFacts
<1>3. movs[pc - Size].value \in Int
  <2>1. movs[pc - Size] \in MovRec
    BY <1>b, <1>2
  <2>. QED BY <2>1 DEF MovRec
<1>4. new' \in Machine
  BY <1>a, <1>b, <1>3, MachineFacts
<1>5. pc' = End \/ Holds(pc')
  BY <1>a, <1>2
<1>. QED BY <1>a, <1>b, <1>4, <1>5, RunningStep

LEMMA StepStep ==
  ASSUME Inv, Step
  PROVE  Inv'
<1>. DEFINE i == insts[pc]
<1>a. /\ stage = "run" /\ pc # End /\ ~IsMov(pc) /\ pc > 0
      /\ old' = Effect(i, i.disp, old, pc + 1)
      /\ new' = Effect(i, IF pc \in patched THEN 0 ELSE i.disp, new, Moved)
      /\ pc' \in {After(pc), End, -i.target}
      /\ i.target = 0 => pc' \in {After(pc), End}
      /\ UNCHANGED <<program, stage, analysis>>
  BY DEF Step, Runs
<1>b. /\ Size \in Nat \ {0} /\ Targets \subseteq 1..Size /\ Listing(content, Size)
      /\ \A j \in 1..Size : insts[j] \in Instruction /\ insts[j].target \in 0..Size
      /\ old \in Machine /\ new \in Machine /\ (pc = End \/ Holds(pc))
  BY ProgramFacts DEF Inv, Shaped, Ran
<1>1. Holds(pc) /\ pc \in Int /\ (After(pc) = End \/ Holds(After(pc)))
  <2>1. Holds(pc) BY <1>a, <1>b
  <2>. QED BY <2>1, HeldFacts
<1>2. pc \in 1..Size
  BY <1>a, <1>b, <1>1 DEF IsMov
<1>3. i \in Instruction /\ i.target \in 0..Size
  BY <1>b, <1>2
<1>4. i.disp \in Int
  BY <1>3 DEF Instruction
<1>5. i.target # 0 => Holds(-i.target)
  <2>. SUFFICES ASSUME i.target # 0 PROVE Holds(-i.target)
    OBVIOUS
  <2>1. i.target \in Targets /\ i.target <= Size
    BY <1>2, <1>3 DEF Targets
  <2>. QED BY <1>b, <2>1 DEF Listing, Holds
<1>. HIDE DEF i
<1>6. pc + 1 \in Int /\ Moved \in Int /\ (IF pc \in patched THEN 0 ELSE i.disp) \in Int
  BY <1>1, <1>4 DEF Moved
<1>7. old' \in Machine
  BY <1>a, <1>b, <1>3, <1>4, <1>6, EffectOnMachine
<1>8. new' \in Machine
  <2>1. PICK d \in Int : d = IF pc \in patched THEN 0 ELSE i.disp BY <1>6
  <2>2. new' = Effect(i, d, new, Moved) BY <1>a, <2>1
  <2>. QED BY <1>b, <1>3, <1>6, <2>2, EffectOnMachine
<1>9. pc' = End \/ Holds(pc')
  BY <1>a, <1>1, <1>5
<1>. QED BY <1>a, <1>7, <1>8, <1>9, RunningStep

LEMMA StepPlaceholderStep ==
  ASSUME Inv, StepPlaceholder
  PROVE  Inv'
<1>a. /\ stage' = "run" /\ pc < 0 /\ pc # End /\ pc' = After(pc)
      /\ UNCHANGED <<program, analysis, old, new>>
  BY DEF StepPlaceholder, Runs
<1>b. old \in Machine /\ new \in Machine /\ (pc = End \/ Holds(pc))
  BY DEF Inv, Ran
<1>1. After(pc) = End \/ Holds(After(pc))
  <2>1. Holds(pc) BY <1>a, <1>b
  <2>. QED BY <2>1, HeldFacts
<1>2. pc' = End \/ Holds(pc')
  BY <1>a, <1>1
<1>. QED BY <1>a, <1>b, <1>2, RunningStep

-----------------------------------------------------------------------------
LEMMA StutterStep ==
  ASSUME Inv, UNCHANGED vars
  PROVE  Inv'
<1>a. UNCHANGED <<program, stage, content, states, visited, movs, patched, pc, old, new>>
  BY DEF vars, analysis
<1>1. /\ insts' = insts /\ Size' = Size /\ Targets' = Targets
      /\ \A e : Addr(e)' = Addr(e) /\ (Holds(e)' <=> Holds(e))
      /\ Listing(content, Size)'
  BY <1>a, SameProgram, SameList DEF Inv, Shaped
<1>2. State' = State /\ Item' = Item /\ MovRec' = MovRec /\ \A s : Good(s)' <=> Good(s)
  BY <1>1 DEF State, Item, MovRec, Good
<1>3. Shaped'
  BY <1>a, <1>1, <1>2 DEF Inv, Shaped
<1>4. Worked'
  BY <1>a, <1>1, <1>2 DEF Inv, Worked
<1>5. Ran'
  BY <1>a, <1>1 DEF Inv, Ran
<1>6. \A a : Awaited(a) <=> Awaited(a)'
  BY <1>a, <1>1 DEF Awaited
<1>7. stage \in {"analyse", "done"} => Covered'
  BY <1>a, <1>1, <1>6 DEF Inv, Covered
<1>8. stage' = "done" => states' = <<>>
  BY <1>a DEF Inv
<1>. QED BY <1>a, <1>3, <1>4, <1>5, <1>7, <1>8 DEF Inv

LEMMA NextInv ==
  ASSUME Inv, [Next]_vars
  PROVE  Inv'
<1>1. CASE Analyse
  <2>1. CASE SeeCall \/ Idle \/ SeePop
    BY <2>1, SeeingStep
  <2>2. CASE Call \/ FrameStore \/ FrameLoss \/ FrameLoad \/ Alias \/ XorSelf \/ Ret \/ Unused
    BY <2>2, FollowingStep
  <2>. QED
    BY <1>1, <2>1, <2>2, DropStep, PassPlaceholderStep, BranchStep, JumpStep, StopStep, UseStep
       DEF Analyse
<1>2. CASE Enter \/ RunMov \/ Step \/ StepPlaceholder
  BY <1>2, EnterStep, RunMovStep, StepStep, StepPlaceholderStep
<1>. QED BY <1>1, <1>2, FinishStep, StutterStep DEF Next

LEMMA Invariant == Spec => []Inv
<1>1. Init => Inv
  BY InitInv
<1>2. Inv /\ [Next]_vars => Inv'
  BY NextInv
<1>. QED BY <1>1, <1>2, PTL DEF Spec

(* handle_insts and handle_inst keep what they work on well formed: what   *)
(* is analysed or noted is a state of the analysis, whoever follows a      *)
(* register has popped it, and the worklist leads into the list.           *)
THEOREM TypeCorrect == Spec => []TypeOK
<1>1. ASSUME Inv PROVE TypeOK
  <2>1. ASSUME NEW s \in State, Good(s) PROVE IsState(s)
    <3>1. s.state \in 0..2 /\ s.vmaddr \in 0..Size BY DEF State
    <3>. QED BY <2>1, <3>1 DEF Good, IsState
  <2>2. ASSUME NEW y \in DOMAIN states
        PROVE  /\ IsState(states[y].s)
               /\ states[y].at \in {End} \cup {content[z] : z \in DOMAIN content}
    <3>1. states \in Seq(Item) /\ content \in Seq(Int)
      BY <1>1 DEF Inv, Worked, Shaped, Listing
    <3>2. states[y] \in Item /\ states[y] \in Items(states)
      BY <3>1 DEF Items
    <3>3. /\ states[y].s \in State /\ Good(states[y].s)
          /\ states[y].at = End \/ Holds(states[y].at)
      BY <1>1, <3>2 DEF Item, Inv, Worked
    <3>4. DOMAIN content = 1..Len(content)
      BY <3>1
    <3>. QED BY <2>1, <3>3, <3>4 DEF Holds
  <2>3. ASSUME NEW a \in 1..Size, NEW s \in visited[a] PROVE IsState(s)
    <3>1. s \in State /\ Good(s) BY <1>1 DEF Inv, Worked
    <3>. QED BY <2>1, <3>1
  <2>. QED BY <1>1, <2>2, <2>3 DEF TypeOK, Inv, Shaped, Worked, Ran
<1>. QED BY <1>1, Invariant, PTL

(* "add next instruction to be processed last in case it's not reachable   *)
(* thru static analysis": in every program, an analysis that ends has      *)
(* looked at every instruction, whatever it inserted in between.           *)
THEOREM EveryInstructionIsVisited == Spec => []NothingSkipped
<1>1. ASSUME Inv PROVE NothingSkipped
  <2>. SUFFICES ASSUME stage = "done" PROVE \A a \in 1..Size : visited[a] # {}
    BY DEF NothingSkipped
  <2>1. Covered /\ states = <<>> /\ Size \in Nat \ {0}
    BY <1>1, ProgramFacts DEF Inv, Shaped
  <2>2. \A a : Awaited(a) <=> visited[a] # {}
    BY <2>1 DEF Awaited, Items
  <2>3. PICK T : T = {a \in 1..Size : visited[a] = {}}
    OBVIOUS
  <2>4. ASSUME NEW a \in T, \A b \in T : a <= b PROVE FALSE
    <3>1. a \in 1..Size /\ visited[a] = {} /\ a # 1
      BY <2>1, <2>2, <2>3 DEF Covered
    <3>2. a - 1 \in 1..Size /\ (a - 1) + 1 = a /\ ~(a <= a - 1)
      BY <2>1, <3>1
    <3>3. visited[a - 1] # {}
      BY <2>3, <2>4, <3>2
    <3>. QED BY <2>1, <2>2, <3>1, <3>2, <3>3 DEF Covered
  <2>5. T \subseteq Nat
    BY <2>3
  <2>6. T = {}
    BY <2>4, <2>5, LeastNatural
  <2>. QED BY <2>3, <2>6
<1>. QED BY <1>1, Invariant, PTL
===============================================================================
