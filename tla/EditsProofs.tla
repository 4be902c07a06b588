----------------------------- MODULE EditsProofs -----------------------------
(***************************************************************************)
(* The commands of macho-tool edit what a user takes the file for, and     *)
(* each number they write leads to the object it stands for: proofs about  *)
(* module Edits.  Parsing and writing keep the named meaning of a file;    *)
(* every edit of the archive in memory changes it as Binary says.          *)
(***************************************************************************)
EXTENDS Edits, FiniteSetTheorems, TLAPS

-----------------------------------------------------------------------------
(* Counting.                                                               *)

(* U[x] are those up to x, of which x is the last.                         *)
Ordered(S, U) ==
  /\ \A x \in S : U[x] \subseteq S /\ x \in U[x]
  /\ \A x, y \in S : x # y =>
       (U[x] \subseteq U[y] /\ y \notin U[x]) \/ (U[y] \subseteq U[x] /\ x \notin U[y])

(* Each has a number of its own.                                           *)
Numbers(S, U) ==
  /\ \A x \in S : Cardinality(U[x]) \in 1..Cardinality(S)
  /\ \A x, y \in S : Cardinality(U[x]) = Cardinality(U[y]) => x = y
  /\ \A x, y \in S : U[x] \subseteq U[y] => Cardinality(U[x]) <= Cardinality(U[y])
  /\ \A n \in 1..Cardinality(S) : \E x \in S : Cardinality(U[x]) = n

LEMMA Counted ==
  ASSUME NEW S, IsFiniteSet(S), NEW U, Ordered(S, U)
  PROVE  Numbers(S, U)
<1>. /\ \A x \in S : U[x] \subseteq S /\ x \in U[x]
     /\ \A x, y \in S : x # y =>
       (U[x] \subseteq U[y] /\ y \notin U[x]) \/ (U[y] \subseteq U[x] /\ x \notin U[y])
  BY DEF Ordered
<1>1. Cardinality(S) \in Nat
  BY FS_CardinalityType
<1>2. ASSUME NEW x \in S
      PROVE  /\ IsFiniteSet(U[x]) /\ Cardinality(U[x]) \in 1..Cardinality(S)
  <2>1. IsFiniteSet(U[x]) /\ Cardinality(U[x]) <= Cardinality(S)
    BY FS_Subset
  <2>2. Cardinality(U[x]) \in Nat /\ Cardinality(U[x]) # 0
    BY <2>1, FS_CardinalityType, FS_EmptySet
  <2>3. QED
    BY <1>1, <2>1, <2>2
<1>3. ASSUME NEW x \in S, NEW y \in S, U[x] \subseteq U[y]
      PROVE  /\ Cardinality(U[x]) <= Cardinality(U[y])
             /\ Cardinality(U[y]) = Cardinality(U[x]) => U[x] = U[y]
  BY <1>2, <1>3, FS_Subset
<1>4. ASSUME NEW x \in S, NEW y \in S, Cardinality(U[x]) = Cardinality(U[y]), x # y
      PROVE  FALSE
  BY <1>3, <1>4
<1>5. PICK f : f = [x \in S |-> Cardinality(U[x])]
  OBVIOUS
<1>6. IsFiniteSet(1..Cardinality(S)) /\ Cardinality(1..Cardinality(S)) = Cardinality(S)
  BY <1>1, FS_Interval
<1>7. ASSUME NEW n \in 1..Cardinality(S), \A x \in S : f[x] # n
      PROVE  FALSE
  <2>1. PICK T : T = (1..Cardinality(S)) \ {n}
    OBVIOUS
  <2>2. IsFiniteSet(T) /\ Cardinality(T) = Cardinality(S) - 1
    BY <1>6, <2>1, FS_RemoveElement
  <2>3. f \in [S -> T]
    BY <1>2, <1>5, <1>7, <2>1
  <2>4. Cardinality(T) < Cardinality(S)
    BY <1>1, <2>2
  <2>5. \E x, y \in S : x # y /\ f[x] = f[y]
    BY <2>2, <2>3, <2>4, FS_PigeonHole
  <2>6. QED
    BY <1>4, <1>5, <2>5
<1>8. \A n \in 1..Cardinality(S) : \E x \in S : Cardinality(U[x]) = n
  BY <1>5, <1>7
<1>9. QED
  BY <1>2, <1>3, <1>4, <1>8 DEF Numbers

(* Positions in a list, by their order.                                    *)
LEMMA Ranks ==
  ASSUME NEW N \in Nat, NEW S \in SUBSET (1..N)
  PROVE  /\ IsFiniteSet(S) /\ Cardinality(S) \in 0..N
         /\ \A k \in S : Rank(S, k) \in 1..Cardinality(S) /\ Nth(S, Rank(S, k)) = k
         /\ \A n \in 1..Cardinality(S) : Nth(S, n) \in S /\ Rank(S, Nth(S, n)) = n
         /\ \A k, m \in S : k < m => Rank(S, k) < Rank(S, m)
         /\ \A n, p \in 1..Cardinality(S) : n < p => Nth(S, n) < Nth(S, p)
<1>1. IsFiniteSet(S) /\ Cardinality(S) \in 0..N
  <2>1. IsFiniteSet(1..N) /\ Cardinality(1..N) = N
    BY FS_Interval
  <2>2. IsFiniteSet(S) /\ Cardinality(S) <= N
    BY <2>1, FS_Subset
  <2>3. QED
    BY <2>2, FS_CardinalityType
<1>2. PICK U : U = [x \in S |-> {m \in S : m <= x}]
  OBVIOUS
<1>3. \A x \in S : U[x] \subseteq S /\ x \in U[x]
  BY <1>2
<1>4. \A x, y \in S : x # y => (U[x] \subseteq U[y] /\ y \notin U[x])
                               \/ (U[y] \subseteq U[x] /\ x \notin U[y])
  <2>1. ASSUME NEW x \in S, NEW y \in S, x < y PROVE U[x] \subseteq U[y] /\ y \notin U[x]
    <3>1. U[x] = {m \in S : m <= x} /\ U[y] = {m \in S : m <= y}
      BY <1>2
    <3>2. x \in 1..N /\ y \in 1..N /\ \A m \in S : m \in 1..N
      OBVIOUS
    <3>3. (\A m \in S : m <= x => m <= y) /\ ~ (y <= x)
      BY <2>1, <3>2
    <3>4. QED
      BY <3>1, <3>3
  <2>2. \A x, y \in S : x # y => x < y \/ y < x
    OBVIOUS
  <2>3. QED
    BY <2>1, <2>2
<1>5. /\ \A x \in S : Cardinality(U[x]) \in 1..Cardinality(S)
      /\ \A x, y \in S : Cardinality(U[x]) = Cardinality(U[y]) => x = y
      /\ \A x, y \in S : U[x] \subseteq U[y] => Cardinality(U[x]) <= Cardinality(U[y])
      /\ \A n \in 1..Cardinality(S) : \E x \in S : Cardinality(U[x]) = n
  <2>1. Ordered(S, U)
    BY <1>3, <1>4 DEF Ordered
  <2>2. IsFiniteSet(S)
    BY <1>1
  <2>3. Numbers(S, U)
    BY <2>1, <2>2, Counted
  <2>4. QED
    BY <2>3 DEF Numbers
<1>6. \A k \in S : Rank(S, k) = Cardinality(U[k])
  BY <1>2 DEF Rank
<1>7. \A k \in S : Rank(S, k) \in 1..Cardinality(S)
  BY <1>5, <1>6
<1>8. \A k, m \in S : Rank(S, k) = Rank(S, m) => k = m
  BY <1>5, <1>6
<1>9. \A n \in 1..Cardinality(S) : \E x \in S : Rank(S, x) = n
  BY <1>5, <1>6
<1>10. \A n \in 1..Cardinality(S) : Nth(S, n) \in S /\ Rank(S, Nth(S, n)) = n
  BY <1>9 DEF Nth
<1>11. \A k \in S : Nth(S, Rank(S, k)) = k
  BY <1>7, <1>8, <1>10
<1>12. ASSUME NEW k \in S, NEW m \in S, k < m PROVE Rank(S, k) < Rank(S, m)
  <2>1. U[k] \subseteq U[m]
    <3>1. U[k] = {x \in S : x <= k} /\ U[m] = {x \in S : x <= m}
      BY <1>2
    <3>2. k \in 1..N /\ m \in 1..N /\ \A x \in S : x \in 1..N
      OBVIOUS
    <3>3. \A x \in S : x <= k => x <= m
      BY <1>12, <3>2
    <3>4. QED
      BY <3>1, <3>3
  <2>2. Rank(S, k) <= Rank(S, m)
    BY <1>5, <1>6, <2>1
  <2>3. Rank(S, k) # Rank(S, m)
    BY <1>8, <1>12
  <2>4. Rank(S, k) \in Int /\ Rank(S, m) \in Int
    BY <1>1, <1>7
  <2>5. QED
    BY <2>2, <2>3, <2>4
<1>13. ASSUME NEW n \in 1..Cardinality(S), NEW p \in 1..Cardinality(S), n < p
       PROVE  Nth(S, n) < Nth(S, p)
  <2>1. PICK k \in S, m \in S : k = Nth(S, n) /\ m = Nth(S, p) /\ Rank(S, k) = n /\ Rank(S, m) = p
    BY <1>10
  <2>2. k # m
    BY <1>13, <2>1
  <2>3. ~ (m < k)
    BY <1>12, <1>13, <2>1
  <2>4. QED
    BY <2>1, <2>2, <2>3
<1>14. QED
  BY <1>1, <1>7, <1>10, <1>11, <1>12, <1>13

(* As long as nothing is left out, a position is its own number.           *)
LEMMA Prefix ==
  ASSUME NEW N \in Nat, NEW S \in SUBSET (1..N), NEW n \in 0..N, 1..n \subseteq S
  PROVE  n <= Cardinality(S) /\ \A r \in 1..n : Rank(S, r) = r /\ Nth(S, r) = r
<1>1. ASSUME NEW r \in 1..n PROVE Rank(S, r) = r /\ Nth(S, r) = r /\ r <= Cardinality(S)
  <2>1. {m \in S : m <= r} = 1..r
    <3>1. \A m \in S : m \in 1..N
      OBVIOUS
    <3>2. \A m \in 1..N : m \in S /\ m <= r <=> m \in 1..r
      OBVIOUS
    <3>3. 1..r \subseteq 1..N
      OBVIOUS
    <3>4. QED
      BY <3>1, <3>2, <3>3
  <2>2. Cardinality(1..r) = r
    BY FS_Interval
  <2>3. Rank(S, r) = r
    BY <2>1, <2>2 DEF Rank
  <2>4. r \in S
    OBVIOUS
  <2>5. Nth(S, Rank(S, r)) = r /\ Rank(S, r) \in 1..Cardinality(S)
    BY <2>4, Ranks
  <2>6. QED
    BY <2>3, <2>5, Ranks
<1>2. n = 0 \/ n \in 1..n
  OBVIOUS
<1>3. Cardinality(S) \in Nat
  BY Ranks
<1>4. QED
  BY <1>1, <1>2, <1>3

LEMMA Foremost ==
  ASSUME NEW N \in Nat, NEW S \in SUBSET (1..N), S # {}
  PROVE  Nth(S, 1) \in S /\ \A k \in S : Nth(S, 1) <= k
<1>1. 1 \in 1..Cardinality(S)
  <2>1. IsFiniteSet(S) /\ Cardinality(S) \in Nat
    BY Ranks
  <2>2. Cardinality(S) # 0
    BY <2>1, FS_EmptySet
  <2>3. QED
    BY <2>1, <2>2
<1>2. PICK f \in S : f = Nth(S, 1) /\ Rank(S, f) = 1
  BY <1>1, Ranks
<1>3. ASSUME NEW k \in S PROVE f <= k
  <2>1. ~ (k < f)
    <3>1. Rank(S, k) \in 1..Cardinality(S) /\ Cardinality(S) \in Nat
      BY Ranks
    <3>2. k < f => Rank(S, k) < Rank(S, f)
      BY Ranks
    <3>3. QED
      BY <1>2, <3>1, <3>2
  <2>2. QED
    BY <2>1
<1>4. QED
  BY <1>2, <1>3

LEMMA Picked ==
  ASSUME NEW T, NEW s \in Seq(T), NEW S \in SUBSET (DOMAIN s)
  PROVE  /\ Pick(s, S) \in Seq(T) /\ Len(Pick(s, S)) = Cardinality(S)
         /\ Cardinality(S) \in Nat /\ DOMAIN Pick(s, S) = 1..Cardinality(S)
         /\ \A n \in DOMAIN Pick(s, S) :
              Nth(S, n) \in S /\ Pick(s, S)[n] = s[Nth(S, n)] /\ Rank(S, Nth(S, n)) = n
         /\ \A k \in S : Rank(S, k) \in DOMAIN Pick(s, S) /\ Pick(s, S)[Rank(S, k)] = s[k]
<1>1. PICK N \in Nat : N = Len(s) /\ DOMAIN s = 1..N
  OBVIOUS
<1>2. /\ Cardinality(S) \in Nat
      /\ \A k \in S : Rank(S, k) \in 1..Cardinality(S) /\ Nth(S, Rank(S, k)) = k
      /\ \A n \in 1..Cardinality(S) : Nth(S, n) \in S /\ Rank(S, Nth(S, n)) = n
  BY <1>1, Ranks
<1>3. PICK p : p = Pick(s, S)
  OBVIOUS
<1>4. p = [n \in 1..Cardinality(S) |-> s[Nth(S, n)]]
  BY <1>3 DEF Pick
<1>5. p \in [1..Cardinality(S) -> T]
  BY <1>1, <1>2, <1>4
<1>6. p \in Seq(T) /\ Len(p) = Cardinality(S)
  BY <1>2, <1>5
<1>7. QED
  BY <1>2, <1>3, <1>4, <1>6

(* A set of positions without gaps, from the first.                        *)
LEMMA Initial ==
  ASSUME NEW N \in Nat, NEW S \in SUBSET (1..N), \A x \in S : 1..x \subseteq S
  PROVE  S = 1..Cardinality(S)
<1>1. IsFiniteSet(S) /\ Cardinality(S) \in 0..N
  BY Ranks
<1>2. ASSUME NEW k \in S PROVE k \in 1..Cardinality(S)
  <2>1. 1..k \subseteq S /\ k \in 0..N
    OBVIOUS
  <2>2. k <= Cardinality(S)
    BY <2>1, Prefix
  <2>3. QED
    BY <1>1, <2>2
<1>3. PICK T : T = 1..Cardinality(S)
  OBVIOUS
<1>4. IsFiniteSet(T) /\ Cardinality(T) = Cardinality(S)
  BY <1>1, <1>3, FS_Interval
<1>5. S \subseteq T
  BY <1>2, <1>3
<1>6. S = T
  BY <1>4, <1>5, FS_Subset
<1>7. QED
  BY <1>3, <1>6

(* A set of positions without gaps, from any.                              *)
LEMMA Stretch ==
  ASSUME NEW a \in Nat, NEW n \in Nat
  PROVE  /\ Cardinality((a + 1)..(a + n)) = n
         /\ \A k \in 1..n : Nth((a + 1)..(a + n), k) = a + k
<1>1. PICK S : S = (a + 1)..(a + n)
  OBVIOUS
<1>2. Cardinality(S) = n
  BY <1>1, FS_Interval
<1>3. S \in SUBSET (1..(a + n)) /\ a + n \in Nat
  BY <1>1
<1>4. ASSUME NEW k \in 1..n PROVE Nth(S, k) = a + k
  <2>1. {m \in S : m <= a + k} = (a + 1)..(a + k)
    <3>1. \A m \in Int : m \in S /\ m <= a + k <=> m \in (a + 1)..(a + k)
      BY <1>1
    <3>2. S \subseteq Int /\ (a + 1)..(a + k) \subseteq Int
      BY <1>1
    <3>3. QED
      BY <3>1, <3>2
  <2>2. Cardinality((a + 1)..(a + k)) = k
    BY FS_Interval
  <2>3. Rank(S, a + k) = k
    BY <2>1, <2>2 DEF Rank
  <2>4. a + k \in S
    BY <1>1
  <2>5. Nth(S, Rank(S, a + k)) = a + k
    BY <1>3, <2>4, Ranks
  <2>6. QED
    BY <2>3, <2>5
<1>5. QED
  BY <1>1, <1>2, <1>4

-----------------------------------------------------------------------------
(* Symbols by kind.                                                        *)

Kind == {"LOCAL", "EXT", "UNDEF"}
Are(syms, kind) == {k \in DOMAIN syms : syms[k].kind = kind}
InOrder(syms) ==
  \A x, y \in DOMAIN syms : x < y =>
    /\ syms[x].kind = "EXT" => syms[y].kind # "LOCAL"
    /\ syms[x].kind = "UNDEF" => syms[y].kind = "UNDEF"

SymbolList(syms) == (\E T : syms \in Seq(T)) /\ \A k \in DOMAIN syms : syms[k].kind \in Kind

LEMMA KindRanges ==
  ASSUME NEW syms, SymbolList(syms), InOrder(syms), NEW n1, NEW n2, NEW n3,
         n1 = Cardinality(Are(syms, "LOCAL")), n2 = Cardinality(Are(syms, "EXT")),
         n3 = Cardinality(Are(syms, "UNDEF"))
  PROVE  /\ n1 \in Nat /\ n2 \in Nat /\ n3 \in Nat /\ Len(syms) = n1 + n2 + n3
         /\ Are(syms, "LOCAL") = 1..n1 /\ Are(syms, "EXT") = (n1 + 1)..(n1 + n2)
         /\ Are(syms, "UNDEF") = (n1 + n2 + 1)..(n1 + n2 + n3)
<1>1. PICK N \in Nat : N = Len(syms) /\ DOMAIN syms = 1..N
  BY DEF SymbolList
<1>2. PICK L, E, U : L = Are(syms, "LOCAL") /\ E = Are(syms, "EXT") /\ U = Are(syms, "UNDEF")
  OBVIOUS
<1>3. L \in SUBSET (1..N) /\ E \in SUBSET (1..N) /\ U \in SUBSET (1..N)
  BY <1>1, <1>2 DEF Are
<1>4. L \cap E = {} /\ (L \cup E) \cap U = {} /\ (L \cup E) \cup U = 1..N
  BY <1>1, <1>2 DEF Are, SymbolList, Kind
<1>5. n1 \in Nat /\ n2 \in Nat /\ n3 \in Nat /\ IsFiniteSet(L) /\ IsFiniteSet(E) /\ IsFiniteSet(U)
  BY <1>2, <1>3, Ranks
<1>6. L = 1..n1
  <2>1. ASSUME NEW x \in L, NEW y \in 1..x PROVE y \in L
    <3>1. x \in 1..N /\ y \in 1..N /\ (y < x \/ y = x)
      BY <1>3
    <3>2. syms[x].kind = "LOCAL"
      BY <1>2 DEF Are
    <3>3. y < x => syms[y].kind # "EXT" /\ syms[y].kind # "UNDEF"
      BY <1>1, <3>1, <3>2 DEF InOrder
    <3>4. syms[y].kind \in Kind
      BY <1>1, <3>1 DEF SymbolList
    <3>5. syms[y].kind = "LOCAL"
      BY <3>1, <3>2, <3>3, <3>4 DEF Kind
    <3>6. QED
      BY <1>1, <1>2, <3>1, <3>5 DEF Are
  <2>2. \A x \in L : 1..x \subseteq L
    BY <2>1
  <2>3. QED
    BY <1>2, <1>3, <2>2, Initial
<1>7. Cardinality(L \cup E) = n1 + n2 /\ IsFiniteSet(L \cup E)
  <2>1. Cardinality(L \cup E) = Cardinality(L) + Cardinality(E) - Cardinality(L \cap E)
    BY <1>5, FS_Union
  <2>2. Cardinality(L \cap E) = 0
    BY <1>4, FS_EmptySet
  <2>3. QED
    BY <1>2, <1>5, <2>1, <2>2, FS_Union
<1>8. L \cup E = 1..(n1 + n2)
  <2>1. ASSUME NEW x \in L \cup E, NEW y \in 1..x PROVE y \in L \cup E
    <3>1. x \in 1..N /\ y \in 1..N /\ (y < x \/ y = x)
      BY <1>3
    <3>2. y \in U => y = x
      BY <1>1, <1>2, <1>4, <3>1 DEF Are, InOrder
    <3>3. QED
      BY <1>4, <3>1, <3>2
  <2>2. PICK T : T = L \cup E
    OBVIOUS
  <2>3. T \in SUBSET (1..N) /\ \A x \in T : 1..x \subseteq T
    BY <1>3, <2>1, <2>2
  <2>4. T = 1..Cardinality(T)
    BY <2>3, Initial
  <2>5. QED
    BY <1>7, <2>2, <2>4
<1>9. N = n1 + n2 + n3
  <2>1. PICK T : T = L \cup E
    OBVIOUS
  <2>2. Cardinality(T \cup U) = Cardinality(T) + Cardinality(U) - Cardinality(T \cap U)
    BY <1>5, <1>7, <2>1, FS_Union
  <2>3. Cardinality(T \cap U) = 0
    BY <1>4, <2>1, FS_EmptySet
  <2>4. Cardinality(1..N) = N
    BY FS_Interval
  <2>5. T \cup U = 1..N
    BY <1>4, <2>1
  <2>6. Cardinality(T) = n1 + n2 /\ Cardinality(U) = n3
    BY <1>2, <1>7, <2>1
  <2>7. N = n1 + n2 + n3 - 0
    BY <2>2, <2>3, <2>4, <2>5, <2>6
  <2>8. QED
    BY <1>5, <2>7
<1>10. E = (n1 + 1)..(n1 + n2)
  <2>1. \A x : x \in E <=> x \in 1..(n1 + n2) /\ x \notin 1..n1
    BY <1>4, <1>6, <1>8
  <2>2. \A x \in Int : x \in 1..(n1 + n2) /\ x \notin 1..n1 <=> x \in (n1 + 1)..(n1 + n2)
    BY <1>5
  <2>3. E \subseteq Int /\ (n1 + 1)..(n1 + n2) \subseteq Int
    BY <1>3, <1>5
  <2>4. QED
    BY <2>1, <2>2, <2>3
<1>11. U = (n1 + n2 + 1)..(n1 + n2 + n3)
  <2>1. \A x : x \in U <=> x \in 1..N /\ x \notin 1..(n1 + n2)
    BY <1>4, <1>8
  <2>2. \A x \in Int : x \in 1..N /\ x \notin 1..(n1 + n2) <=> x \in (n1 + n2 + 1)..(n1 + n2 + n3)
    BY <1>5, <1>9
  <2>3. U \subseteq Int /\ (n1 + n2 + 1)..(n1 + n2 + n3) \subseteq Int
    BY <1>3, <1>5
  <2>4. QED
    BY <2>1, <2>2, <2>3
<1>12. QED
  BY <1>1, <1>2, <1>5, <1>6, <1>9, <1>10, <1>11

Joins(T, s, t, w) ==
  /\ w \in Seq(T) /\ Len(w) = Len(s) + Len(t)
  /\ \A k \in 1..Len(s) : w[k] = s[k]
  /\ \A k \in 1..Len(t) : w[Len(s) + k] = t[k]

LEMMA Joined ==
  ASSUME NEW T, NEW s \in Seq(T), NEW t \in Seq(T)
  PROVE  Joins(T, s, t, s \o t)
  BY DEF Joins

Reads(T, s, a, n, p) ==
  p \in Seq(T) /\ Len(p) = n /\ \A k \in 1..n : p[k] = s[a + k]

LEMMA Range3 ==
  ASSUME NEW a \in Nat, NEW n \in Nat, NEW T, NEW s \in Seq(T), a + n <= Len(s),
         NEW S, S = (a + 1)..(a + n)
  PROVE  Reads(T, s, a, n, Pick(s, S))
<1>1. S \in SUBSET (DOMAIN s)
  OBVIOUS
<1>2. Cardinality(S) = n /\ \A k \in 1..n : Nth(S, k) = a + k
  BY Stretch
<1>3. Pick(s, S) \in Seq(T) /\ Len(Pick(s, S)) = Cardinality(S) /\ DOMAIN Pick(s, S) = 1..Cardinality(S)
      /\ \A m \in DOMAIN Pick(s, S) : Pick(s, S)[m] = s[Nth(S, m)]
  BY <1>1, Picked
<1>4. QED
  BY <1>2, <1>3 DEF Reads

(* Symbols that are in order are not moved by sorting them.                *)
LEMMA KindsSame ==
  ASSUME NEW syms, SymbolList(syms), InOrder(syms)
  PROVE  ByKind(syms) = syms
<1>1. PICK T : syms \in Seq(T)
  BY DEF SymbolList
<1>2. PICK n1, n2, n3 :
        /\ n1 = Cardinality(Are(syms, "LOCAL")) /\ n2 = Cardinality(Are(syms, "EXT"))
        /\ n3 = Cardinality(Are(syms, "UNDEF"))
  OBVIOUS
<1>3. /\ n1 \in Nat /\ n2 \in Nat /\ n3 \in Nat /\ Len(syms) = n1 + n2 + n3
      /\ Are(syms, "LOCAL") = 1..n1 /\ Are(syms, "EXT") = (n1 + 1)..(n1 + n2)
      /\ Are(syms, "UNDEF") = (n1 + n2 + 1)..(n1 + n2 + n3)
  BY <1>2, KindRanges
<1>4. PICK l, e, u : /\ l = Pick(syms, Are(syms, "LOCAL")) /\ e = Pick(syms, Are(syms, "EXT"))
                     /\ u = Pick(syms, Are(syms, "UNDEF"))
  OBVIOUS
<1>5. l \in Seq(T) /\ Len(l) = n1 /\ \A k \in 1..n1 : l[k] = syms[k]
  <2>1. Are(syms, "LOCAL") = (0 + 1)..(0 + n1)
    BY <1>3
  <2>2. 0 + n1 <= Len(syms)
    BY <1>3
  <2>3. Reads(T, syms, 0, n1, Pick(syms, Are(syms, "LOCAL")))
    BY <1>1, <1>3, <2>1, <2>2, Range3
  <2>4. QED
    BY <1>3, <1>4, <2>3 DEF Reads
<1>6. e \in Seq(T) /\ Len(e) = n2 /\ \A k \in 1..n2 : e[k] = syms[n1 + k]
  <2>1. n1 + n2 <= Len(syms) /\ Are(syms, "EXT") = (n1 + 1)..(n1 + n2)
    BY <1>3
  <2>2. Reads(T, syms, n1, n2, Pick(syms, Are(syms, "EXT")))
    BY <1>1, <1>3, <2>1, Range3
  <2>3. QED
    BY <1>4, <2>2 DEF Reads
<1>7. u \in Seq(T) /\ Len(u) = n3 /\ \A k \in 1..n3 : u[k] = syms[n1 + n2 + k]
  <2>1. PICK m \in Nat : m = n1 + n2
    BY <1>3
  <2>2. m + n3 <= Len(syms) /\ Are(syms, "UNDEF") = (m + 1)..(m + n3)
    BY <1>3, <2>1
  <2>3. Reads(T, syms, m, n3, Pick(syms, Are(syms, "UNDEF")))
    BY <1>1, <1>3, <2>1, <2>2, Range3
  <2>4. QED
    BY <1>4, <2>1, <2>3 DEF Reads
<1>8. ByKind(syms) = (l \o e) \o u
  <2>1. ByKind(syms) = l \o e \o u
    BY <1>4 DEF ByKind, OfKind, Kinds, Are
  <2>2. QED
    BY <1>5, <1>6, <1>7, <2>1
<1>9. PICK le : le = l \o e
  OBVIOUS
<1>10. le \in Seq(T) /\ Len(le) = n1 + n2 /\ \A k \in 1..(n1 + n2) : le[k] = syms[k]
  <2>1. /\ le \in Seq(T) /\ Len(le) = Len(l) + Len(e) /\ (\A k \in 1..Len(l) : le[k] = l[k])
        /\ \A k \in 1..Len(e) : le[Len(l) + k] = e[k]
    <3>1. Joins(T, l, e, le)
      BY <1>5, <1>6, <1>9, Joined
    <3>2. QED
      BY <3>1 DEF Joins
  <2>2. ASSUME NEW k \in 1..(n1 + n2) PROVE le[k] = syms[k]
    <3>1. CASE k <= n1
      <4>1. k \in 1..n1
        BY <1>3, <3>1
      <4>2. QED
        BY <1>5, <2>1, <4>1
    <3>2. CASE k > n1
      <4>1. PICK d : d = k - n1
        OBVIOUS
      <4>2. d \in 1..n2 /\ n1 + d = k
        BY <1>3, <3>2, <4>1
      <4>3. le[n1 + d] = e[d] /\ e[d] = syms[n1 + d]
        BY <1>5, <1>6, <2>1, <4>2
      <4>4. QED
        BY <4>2, <4>3
    <3>3. QED
      BY <1>3, <3>1, <3>2
  <2>3. QED
    BY <1>5, <1>6, <2>1, <2>2
<1>11. PICK w : w = le \o u
  OBVIOUS
<1>12. /\ w \in Seq(T) /\ Len(w) = Len(le) + Len(u) /\ (\A k \in 1..Len(le) : w[k] = le[k])
       /\ \A k \in 1..Len(u) : w[Len(le) + k] = u[k]
  <2>1. Joins(T, le, u, w)
    BY <1>7, <1>10, <1>11, Joined
  <2>2. QED
    BY <2>1 DEF Joins
<1>13. Len(w) = Len(syms) /\ \A k \in 1..Len(syms) : w[k] = syms[k]
  <2>1. ASSUME NEW k \in 1..Len(syms) PROVE w[k] = syms[k]
    <3>1. CASE k <= n1 + n2
      <4>1. k \in 1..(n1 + n2)
        BY <1>3, <3>1
      <4>2. QED
        BY <1>10, <1>12, <4>1
    <3>2. CASE k > n1 + n2
      <4>1. PICK d : d = k - (n1 + n2)
        OBVIOUS
      <4>2. d \in 1..n3 /\ n1 + n2 + d = k
        BY <1>3, <3>2, <4>1
      <4>3. w[n1 + n2 + d] = u[d] /\ u[d] = syms[n1 + n2 + d]
        BY <1>7, <1>10, <1>12, <4>2
      <4>4. QED
        BY <4>2, <4>3
    <3>3. QED
      BY <1>3, <3>1, <3>2
  <2>2. QED
    BY <1>3, <1>7, <1>10, <1>12, <2>1
<1>14. w = syms
  BY <1>1, <1>12, <1>13
<1>15. QED
  BY <1>8, <1>9, <1>11, <1>14

(* Counting the kinds of symbols in order gives the ranges of a file.      *)
Ranges(syms, counts) ==
  \A k \in DOMAIN syms :
    syms[k].kind = Kinds[IF k <= counts[1] THEN 1 ELSE IF k <= counts[1] + counts[2] THEN 2 ELSE 3]

LEMMA RangesOrder ==
  ASSUME NEW T, NEW syms \in Seq(T), NEW counts \in [1..3 -> Nat], Ranges(syms, counts)
  PROVE  SymbolList(syms) /\ InOrder(syms)
<1>1. Kinds[1] = "LOCAL" /\ Kinds[2] = "EXT" /\ Kinds[3] = "UNDEF"
  BY DEF Kinds
<1>2. PICK n1 \in Nat, n2 \in Nat : n1 = counts[1] /\ n2 = counts[2]
  OBVIOUS
<1>3. \A k \in DOMAIN syms : /\ k <= n1 => syms[k].kind = "LOCAL"
                             /\ ~ (k <= n1) /\ k <= n1 + n2 => syms[k].kind = "EXT"
                             /\ ~ (k <= n1) /\ ~ (k <= n1 + n2) => syms[k].kind = "UNDEF"
  BY <1>1, <1>2 DEF Ranges
<1>4. SymbolList(syms)
  BY <1>3 DEF SymbolList, Kind
<1>5. ASSUME NEW x \in DOMAIN syms, NEW y \in DOMAIN syms, x < y
      PROVE  /\ syms[x].kind = "EXT" => syms[y].kind # "LOCAL"
             /\ syms[x].kind = "UNDEF" => syms[y].kind = "UNDEF"
  <2>1. x \in Nat /\ y \in Nat
    OBVIOUS
  <2>2. y <= n1 => x <= n1
    BY <1>5, <2>1
  <2>3. y <= n1 + n2 => x <= n1 + n2
    BY <1>5, <2>1
  <2>4. x <= n1 => x <= n1 + n2
    BY <2>1
  <2>5. QED
    BY <1>3, <2>2, <2>3, <2>4
<1>6. QED
  BY <1>4, <1>5 DEF InOrder

LEMMA OrderRanges ==
  ASSUME NEW syms, SymbolList(syms), InOrder(syms), NEW counts,
         counts = [k \in 1..3 |-> Len(OfKind(syms, Kinds[k]))]
  PROVE  Ranges(syms, counts) /\ counts \in [1..3 -> Nat]
<1>1. Kinds[1] = "LOCAL" /\ Kinds[2] = "EXT" /\ Kinds[3] = "UNDEF"
  BY DEF Kinds
<1>2. PICK T : syms \in Seq(T)
  BY DEF SymbolList
<1>3. PICK n1, n2, n3 :
        /\ n1 = Cardinality(Are(syms, "LOCAL")) /\ n2 = Cardinality(Are(syms, "EXT"))
        /\ n3 = Cardinality(Are(syms, "UNDEF"))
  OBVIOUS
<1>4. /\ n1 \in Nat /\ n2 \in Nat /\ n3 \in Nat /\ Len(syms) = n1 + n2 + n3
      /\ Are(syms, "LOCAL") = 1..n1 /\ Are(syms, "EXT") = (n1 + 1)..(n1 + n2)
      /\ Are(syms, "UNDEF") = (n1 + n2 + 1)..(n1 + n2 + n3)
  BY <1>3, KindRanges
<1>5. \A kind : Are(syms, kind) \in SUBSET (DOMAIN syms) /\ OfKind(syms, kind) = Pick(syms, Are(syms, kind))
  BY DEF Are, OfKind
<1>6. ASSUME NEW kind PROVE Len(OfKind(syms, kind)) = Cardinality(Are(syms, kind))
  BY <1>2, <1>5, Picked
<1>7. counts[1] = n1 /\ counts[2] = n2 /\ counts[3] = n3
  BY <1>1, <1>3, <1>6
<1>8. counts \in [1..3 -> Nat]
  <2>1. \A k \in 1..3 : k = 1 \/ k = 2 \/ k = 3
    OBVIOUS
  <2>2. \A k \in 1..3 : counts[k] \in Nat
    BY <1>4, <1>7, <2>1
  <2>3. QED
    BY <2>2
<1>9. ASSUME NEW k \in DOMAIN syms
      PROVE  syms[k].kind = Kinds[IF k <= counts[1] THEN 1 ELSE IF k <= counts[1] + counts[2] THEN 2 ELSE 3]
  <2>1. k \in 1..(n1 + n2 + n3)
    BY <1>2, <1>4
  <2>2. CASE k <= n1
    <3>1. k \in Are(syms, "LOCAL")
      BY <1>4, <2>1, <2>2
    <3>2. QED
      BY <1>1, <1>7, <2>2, <3>1 DEF Are
  <2>3. CASE ~ (k <= n1) /\ k <= n1 + n2
    <3>1. k \in Are(syms, "EXT")
      BY <1>4, <2>1, <2>3
    <3>2. QED
      BY <1>1, <1>7, <2>3, <3>1 DEF Are
  <2>4. CASE ~ (k <= n1) /\ ~ (k <= n1 + n2)
    <3>1. k \in Are(syms, "UNDEF")
      BY <1>4, <2>1, <2>4
    <3>2. QED
      BY <1>1, <1>7, <2>4, <3>1 DEF Are
  <2>5. QED
    BY <2>2, <2>3, <2>4
<1>10. QED
  BY <1>8, <1>9 DEF Ranges

(* Those that stay of symbols in order are in order.                       *)
LEMMA OrderKept ==
  ASSUME NEW syms, SymbolList(syms), InOrder(syms), NEW S \in SUBSET (DOMAIN syms)
  PROVE  SymbolList(Pick(syms, S)) /\ InOrder(Pick(syms, S))
<1>1. PICK T : syms \in Seq(T)
  BY DEF SymbolList
<1>2. PICK p : p = Pick(syms, S)
  OBVIOUS
<1>3. /\ p \in Seq(T) /\ DOMAIN p = 1..Cardinality(S)
      /\ \A n \in DOMAIN p : Nth(S, n) \in S /\ p[n] = syms[Nth(S, n)]
  BY <1>1, <1>2, Picked
<1>4. \A n, m \in 1..Cardinality(S) : n < m => Nth(S, n) < Nth(S, m)
  <2>1. PICK N \in Nat : DOMAIN syms = 1..N
    BY <1>1
  <2>2. QED
    BY <2>1, Ranks
<1>5. SymbolList(p)
  BY <1>3 DEF SymbolList
<1>6. InOrder(p)
  BY <1>3, <1>4 DEF InOrder
<1>7. QED
  BY <1>2, <1>5, <1>6

-----------------------------------------------------------------------------
(* Lists that something is appended to or taken out of.                    *)

LEMMA PickAll ==
  ASSUME NEW T, NEW s \in Seq(T)
  PROVE  Pick(s, DOMAIN s) = s
<1>1. PICK n \in Nat : n = Len(s) /\ DOMAIN s = (0 + 1)..(0 + n)
  OBVIOUS
<1>2. Reads(T, s, 0, n, Pick(s, DOMAIN s))
  BY <1>1, Range3
<1>3. PICK p : p = Pick(s, DOMAIN s)
  OBVIOUS
<1>4. p \in Seq(T) /\ Len(p) = Len(s) /\ \A k \in 1..Len(s) : p[k] = s[k]
  BY <1>1, <1>2, <1>3 DEF Reads
<1>5. p = s
  BY <1>4
<1>6. QED
  BY <1>3, <1>5

Grows(s, S, e) == Pick(Append(s, e), S \cup {Len(s) + 1}) = Append(Pick(s, S), e)

LEMMA PickAppend ==
  ASSUME NEW T, NEW s \in Seq(T), NEW S \in SUBSET (DOMAIN s), NEW e \in T
  PROVE  Grows(s, S, e)
<1>1. PICK N \in Nat : N = Len(s) /\ DOMAIN s = 1..N
  OBVIOUS
<1>2. PICK t, V : t = Append(s, e) /\ V = S \cup {N + 1}
  OBVIOUS
<1>3. t \in Seq(T) /\ DOMAIN t = 1..(N + 1) /\ t[N + 1] = e /\ \A k \in 1..N : t[k] = s[k]
  BY <1>1, <1>2
<1>4. S \in SUBSET (1..N) /\ V \in SUBSET (1..(N + 1)) /\ N + 1 \in Nat
  BY <1>1, <1>2
<1>5. PICK c \in Nat : c = Cardinality(S) /\ IsFiniteSet(S)
  BY <1>4, Ranks
<1>6. Cardinality(V) = c + 1
  <2>1. N + 1 \notin S
    BY <1>4
  <2>2. QED
    BY <1>2, <1>5, <2>1, FS_AddElement
<1>7. ASSUME NEW k \in S PROVE Rank(V, k) = Rank(S, k)
  <2>1. {m \in V : m <= k} = {m \in S : m <= k}
    <3>1. k \in 1..N
      BY <1>4
    <3>2. ~ (N + 1 <= k)
      BY <3>1
    <3>3. QED
      BY <1>2, <3>2
  <2>2. QED
    BY <2>1 DEF Rank
<1>8. Rank(V, N + 1) = c + 1
  <2>1. {m \in V : m <= N + 1} = V
    <3>1. \A m \in V : m \in 1..(N + 1)
      BY <1>4
    <3>2. \A m \in V : m <= N + 1
      BY <3>1
    <3>3. QED
      BY <3>2
  <2>2. QED
    BY <1>6, <2>1 DEF Rank
<1>9. Nth(V, c + 1) = N + 1
  <2>1. N + 1 \in V
    BY <1>2
  <2>2. Nth(V, Rank(V, N + 1)) = N + 1
    BY <1>4, <2>1, Ranks
  <2>3. QED
    BY <1>8, <2>2
<1>10. ASSUME NEW n \in 1..c PROVE Nth(V, n) = Nth(S, n) /\ Nth(S, n) \in S
  <2>1. PICK k : k = Nth(S, n)
    OBVIOUS
  <2>2. k \in S /\ Rank(S, k) = n
    BY <1>4, <1>5, <2>1, Ranks
  <2>3. k \in V /\ Rank(V, k) = n
    BY <1>2, <1>7, <2>2
  <2>4. Nth(V, Rank(V, k)) = k
    BY <1>4, <2>3, Ranks
  <2>5. QED
    BY <2>1, <2>2, <2>3, <2>4
<1>11. PICK p, q, r : p = Pick(t, V) /\ q = Pick(s, S) /\ r = Append(q, e)
  OBVIOUS
<1>12. /\ p \in Seq(T) /\ Len(p) = c + 1
       /\ \A n \in 1..(c + 1) : p[n] = t[Nth(V, n)]
  <2>1. V \in SUBSET (DOMAIN t)
    BY <1>3, <1>4
  <2>2. /\ p \in Seq(T) /\ Len(p) = Cardinality(V) /\ DOMAIN p = 1..Cardinality(V)
        /\ \A n \in DOMAIN p : p[n] = t[Nth(V, n)]
    BY <1>3, <1>11, <2>1, Picked
  <2>3. QED
    BY <1>6, <2>2
<1>13. /\ q \in Seq(T) /\ Len(q) = c
       /\ \A n \in 1..c : q[n] = s[Nth(S, n)]
  BY <1>1, <1>4, <1>5, <1>11, Picked
<1>14. r \in Seq(T) /\ Len(r) = c + 1 /\ r[c + 1] = e /\ \A n \in 1..c : r[n] = q[n]
  BY <1>11, <1>13
<1>15. \A n \in 1..c : p[n] = r[n]
  <2>1. ASSUME NEW n \in 1..c PROVE p[n] = r[n]
    <3>1. Nth(V, n) = Nth(S, n) /\ Nth(S, n) \in 1..N
      BY <1>4, <1>10
    <3>2. n \in 1..(c + 1)
      OBVIOUS
    <3>3. p[n] = s[Nth(S, n)]
      BY <1>3, <1>12, <3>1, <3>2
    <3>4. QED
      BY <1>13, <1>14, <3>3
  <2>2. QED
    BY <2>1
<1>16. p[c + 1] = r[c + 1]
  BY <1>3, <1>9, <1>12, <1>14
<1>17. \A n \in 1..(c + 1) : n \in 1..c \/ n = c + 1
  OBVIOUS
<1>18. p = r
  BY <1>12, <1>14, <1>15, <1>16, <1>17
<1>19. QED
  BY <1>1, <1>2, <1>11, <1>18 DEF Grows

LEMMA PickPick ==
  ASSUME NEW T, NEW s \in Seq(T), NEW S \in SUBSET (DOMAIN s),
         NEW R \in SUBSET (DOMAIN Pick(s, S)), NEW V, V = {k \in S : Rank(S, k) \in R}
  PROVE  Pick(Pick(s, S), R) = Pick(s, V)
<1>1. PICK N \in Nat : N = Len(s) /\ DOMAIN s = 1..N
  OBVIOUS
<1>2. PICK c \in Nat : c = Cardinality(S)
  BY <1>1, Ranks
<1>3. PICK q : q = Pick(s, S)
  OBVIOUS
<1>4. q \in Seq(T) /\ DOMAIN q = 1..c /\ \A n \in 1..c : q[n] = s[Nth(S, n)]
  BY <1>2, <1>3, Picked
<1>5. S \in SUBSET (1..N) /\ V \in SUBSET (1..N) /\ R \in SUBSET (1..c)
  BY <1>1, <1>3, <1>4
<1>6. /\ \A k \in S : Rank(S, k) \in 1..c /\ Nth(S, Rank(S, k)) = k
      /\ \A n \in 1..c : Nth(S, n) \in S /\ Rank(S, Nth(S, n)) = n
      /\ \A k, m \in S : k < m => Rank(S, k) < Rank(S, m)
  BY <1>2, <1>5, Ranks
<1>7. \A k, m \in S : k <= m <=> Rank(S, k) <= Rank(S, m)
  <2>1. ASSUME NEW k \in S, NEW m \in S PROVE k <= m <=> Rank(S, k) <= Rank(S, m)
    <3>1. k \in 1..N /\ m \in 1..N /\ Rank(S, k) \in 1..c /\ Rank(S, m) \in 1..c
      BY <1>5, <1>6
    <3>2. (k < m => Rank(S, k) < Rank(S, m)) /\ (m < k => Rank(S, m) < Rank(S, k))
      BY <1>6
    <3>3. k < m \/ k = m \/ m < k
      BY <3>1
    <3>4. QED
      BY <3>1, <3>2, <3>3
  <2>2. QED
    BY <2>1
<1>8. ASSUME NEW X \in SUBSET V, NEW Y \in SUBSET R,
             \A k \in V : k \in X <=> Rank(S, k) \in Y
      PROVE  Cardinality(X) = Cardinality(Y)
  <2>1. IsFiniteSet(X) /\ IsFiniteSet(Y) /\ Cardinality(X) \in Nat /\ Cardinality(Y) \in Nat
    <3>1. X \in SUBSET (1..N) /\ Y \in SUBSET (1..c)
      BY <1>5
    <3>2. IsFiniteSet(X) /\ Cardinality(X) \in 0..N
      BY <3>1, Ranks
    <3>3. IsFiniteSet(Y) /\ Cardinality(Y) \in 0..c
      BY <3>1, Ranks
    <3>4. QED
      BY <3>2, <3>3
  <2>2. PICK f : f = [k \in X |-> Rank(S, k)]
    OBVIOUS
  <2>3. f \in [X -> Y] /\ \A x, y \in X : f[x] = f[y] => x = y
    BY <1>5, <1>6, <1>8, <2>2
  <2>4. Cardinality(X) <= Cardinality(Y)
    BY <2>1, <2>3, FS_PigeonHole
  <2>5. PICK g : g = [n \in Y |-> Nth(S, n)]
    OBVIOUS
  <2>6. g \in [Y -> X] /\ \A x, y \in Y : g[x] = g[y] => x = y
    BY <1>5, <1>6, <1>8, <2>5
  <2>7. Cardinality(Y) <= Cardinality(X)
    BY <2>1, <2>6, FS_PigeonHole
  <2>8. QED
    BY <2>1, <2>4, <2>7
<1>9. Cardinality(V) = Cardinality(R)
  BY <1>8
<1>10. ASSUME NEW k \in V PROVE Rank(V, k) = Rank(R, Rank(S, k))
  <2>1. PICK X, Y : X = {m \in V : m <= k} /\ Y = {n \in R : n <= Rank(S, k)}
    OBVIOUS
  <2>2. \A m \in V : m \in X <=> Rank(S, m) \in Y
    BY <1>7, <2>1
  <2>3. X \in SUBSET V /\ Y \in SUBSET R
    BY <2>1
  <2>4. Cardinality(X) = Cardinality(Y)
    BY <1>8, <2>2, <2>3
  <2>5. QED
    BY <2>1, <2>4 DEF Rank
<1>11. PICK d \in Nat : d = Cardinality(R)
  BY <1>5, Ranks
<1>12. ASSUME NEW n \in 1..d
       PROVE  Nth(R, n) \in 1..c /\ Nth(V, n) = Nth(S, Nth(R, n))
  <2>1. PICK r : r = Nth(R, n)
    OBVIOUS
  <2>2. r \in R /\ Rank(R, r) = n
    BY <1>5, <1>11, <2>1, Ranks
  <2>3. PICK k : k = Nth(S, r)
    OBVIOUS
  <2>4. r \in 1..c /\ k \in S /\ Rank(S, k) = r
    BY <1>5, <1>6, <2>2, <2>3
  <2>5. k \in V /\ Rank(V, k) = n
    BY <1>10, <2>2, <2>4
  <2>6. Nth(V, Rank(V, k)) = k
    BY <1>5, <2>5, Ranks
  <2>7. QED
    BY <2>1, <2>3, <2>4, <2>5, <2>6
<1>13. PICK p, t : p = Pick(q, R) /\ t = Pick(s, V)
  OBVIOUS
<1>14. p \in Seq(T) /\ Len(p) = d /\ \A n \in 1..d : p[n] = q[Nth(R, n)]
  <2>1. R \in SUBSET (DOMAIN q)
    BY <1>4, <1>5
  <2>2. QED
    BY <1>4, <1>11, <1>13, <2>1, Picked
<1>15. t \in Seq(T) /\ Len(t) = d /\ \A n \in 1..d : t[n] = s[Nth(V, n)]
  <2>1. V \in SUBSET (DOMAIN s)
    BY <1>1, <1>5
  <2>2. /\ Pick(s, V) \in Seq(T) /\ Len(Pick(s, V)) = Cardinality(V)
        /\ DOMAIN Pick(s, V) = 1..Cardinality(V)
        /\ \A n \in DOMAIN Pick(s, V) : Pick(s, V)[n] = s[Nth(V, n)]
    BY <2>1, Picked
  <2>3. QED
    BY <1>9, <1>11, <1>13, <2>2
<1>16. \A n \in 1..d : p[n] = t[n]
  BY <1>4, <1>12, <1>14, <1>15
<1>17. p = t
  BY <1>14, <1>15, <1>16
<1>18. QED
  BY <1>3, <1>13, <1>17

-----------------------------------------------------------------------------
(* Load commands and their sections.                                       *)

LEMMA Images ==
  ASSUME NEW S, IsFiniteSet(S), NEW f, NEW T, T = {f[x] : x \in S}
  PROVE  IsFiniteSet(T)
<1>1. PICK g : g = [x \in S |-> f[x]]
  OBVIOUS
<1>2. g \in Surjection(S, T)
  BY <1>1 DEF Surjection
<1>3. QED
  BY <1>2, FS_Surjection

WithSections(cmds) ==
  /\ \E T : cmds \in Seq(T)
  /\ \A k \in DOMAIN cmds : cmds[k].sects \in Seq(STRING)

LEMMA PlacesAre ==
  ASSUME NEW cmds, WithSections(cmds)
  PROVE  /\ IsFiniteSet(Places(cmds))
         /\ \A p \in Places(cmds) :
              /\ p[1] \in DOMAIN cmds /\ p[2] \in DOMAIN cmds[p[1]].sects /\ p = <<p[1], p[2]>>
              /\ cmds[p[1]].cmd = "SEGMENT" /\ p[1] \in Nat /\ p[2] \in Nat
         /\ \A k \in DOMAIN cmds : \A n \in DOMAIN cmds[k].sects :
              cmds[k].cmd = "SEGMENT" => <<k, n>> \in Places(cmds)
<1>1. PICK N \in Nat : DOMAIN cmds = 1..N
  BY DEF WithSections
<1>2. PICK S : S = OfTypes(cmds, {"SEGMENT"})
  OBVIOUS
<1>3. S \in SUBSET (1..N) /\ \A k \in DOMAIN cmds : k \in S <=> cmds[k].cmd = "SEGMENT"
  BY <1>1, <1>2 DEF OfTypes
<1>4. PICK f : f = [k \in S |-> {<<k, n>> : n \in DOMAIN cmds[k].sects}]
  OBVIOUS
<1>5. Places(cmds) = UNION {f[k] : k \in S}
  <2>1. {{<<k, n>> : n \in DOMAIN cmds[k].sects} : k \in S} = {f[k] : k \in S}
    BY <1>4
  <2>2. QED
    BY <1>2, <2>1 DEF Places
<1>6. \A p : p \in Places(cmds) <=> \E k \in S : \E n \in DOMAIN cmds[k].sects : p = <<k, n>>
  BY <1>4, <1>5
<1>7. ASSUME NEW k \in S PROVE IsFiniteSet(f[k])
  <2>1. PICK M \in Nat : DOMAIN cmds[k].sects = 1..M
    BY <1>1, <1>3 DEF WithSections
  <2>2. PICK g : g = [n \in 1..M |-> <<k, n>>]
    OBVIOUS
  <2>3. f[k] = {g[n] : n \in 1..M}
    BY <1>4, <2>1, <2>2
  <2>4. IsFiniteSet(1..M)
    BY FS_Interval
  <2>5. QED
    BY <2>3, <2>4, Images
<1>8. IsFiniteSet(Places(cmds))
  <2>1. IsFiniteSet(S)
    BY <1>3, Ranks
  <2>2. PICK X : X = {f[k] : k \in S}
    OBVIOUS
  <2>3. IsFiniteSet(X) /\ \A x \in X : IsFiniteSet(x)
    BY <1>7, <2>1, <2>2, Images
  <2>4. QED
    BY <1>5, <2>2, <2>3, FS_UNION
<1>9. ASSUME NEW p \in Places(cmds)
      PROVE  /\ p[1] \in DOMAIN cmds /\ p[2] \in DOMAIN cmds[p[1]].sects /\ p = <<p[1], p[2]>>
             /\ cmds[p[1]].cmd = "SEGMENT" /\ p[1] \in Nat /\ p[2] \in Nat
  <2>1. PICK k \in S : \E n \in DOMAIN cmds[k].sects : p = <<k, n>>
    BY <1>6
  <2> PICK n \in DOMAIN cmds[k].sects : p = <<k, n>>
    BY <2>1
  <2>2. p[1] = k /\ p[2] = n /\ k \in DOMAIN cmds
    BY <1>1, <1>3
  <2>3. k \in Nat /\ n \in Nat
    <3>1. cmds[k].sects \in Seq(STRING)
      BY <2>2 DEF WithSections
    <3>2. QED
      BY <1>3, <3>1
  <2>4. QED
    BY <1>3, <2>1, <2>2, <2>3
<1>10. QED
  BY <1>3, <1>6, <1>8, <1>9

(* Each section has a number, counted over all segments.                   *)
LEMMA SectionNumbers ==
  ASSUME NEW cmds, WithSections(cmds)
  PROVE  /\ Cardinality(Places(cmds)) \in Nat
         /\ \A p \in Places(cmds) :
              /\ Cardinality(UpTo(cmds, p)) \in 1..Cardinality(Places(cmds))
              /\ SectionAt(cmds, Cardinality(UpTo(cmds, p))) = p
         /\ \A n \in 1..Cardinality(Places(cmds)) :
              SectionAt(cmds, n) \in Places(cmds) /\ Cardinality(UpTo(cmds, SectionAt(cmds, n))) = n
<1>1. PICK P : P = Places(cmds)
  OBVIOUS
<1>2. IsFiniteSet(P) /\ \A p \in P : p = <<p[1], p[2]>> /\ p[1] \in Nat /\ p[2] \in Nat
  BY <1>1, PlacesAre
<1>3. PICK U : U = [p \in P |-> UpTo(cmds, p)]
  OBVIOUS
<1>4. \A p \in P : U[p] = {q \in P : q[1] < p[1] \/ (q[1] = p[1] /\ q[2] <= p[2])}
  BY <1>1, <1>3 DEF UpTo
<1>5. ASSUME NEW x \in P PROVE U[x] \subseteq P /\ x \in U[x]
  BY <1>2, <1>4
<1>6. ASSUME NEW x \in P, NEW y \in P, x # y
      PROVE  (U[x] \subseteq U[y] /\ y \notin U[x]) \/ (U[y] \subseteq U[x] /\ x \notin U[y])
  <2>1. ASSUME NEW v \in P, NEW w \in P, v[1] < w[1] \/ (v[1] = w[1] /\ v[2] < w[2])
        PROVE  U[v] \subseteq U[w] /\ w \notin U[v]
    <3>1. /\ U[v] = {q \in P : q[1] < v[1] \/ (q[1] = v[1] /\ q[2] <= v[2])}
          /\ U[w] = {q \in P : q[1] < w[1] \/ (q[1] = w[1] /\ q[2] <= w[2])}
      BY <1>4
    <3>2. v[1] \in Nat /\ v[2] \in Nat /\ w[1] \in Nat /\ w[2] \in Nat
      BY <1>2
    <3>3. ASSUME NEW q \in U[v] PROVE q \in U[w]
      <4>1. q \in P /\ q[1] \in Nat /\ q[2] \in Nat /\ (q[1] < v[1] \/ (q[1] = v[1] /\ q[2] <= v[2]))
        BY <1>2, <3>1
      <4>2. q[1] < w[1] \/ (q[1] = w[1] /\ q[2] <= w[2])
        BY <2>1, <3>2, <4>1
      <4>3. QED
        BY <3>1, <4>1, <4>2
    <3>4. ~ (w[1] < v[1] \/ (w[1] = v[1] /\ w[2] <= v[2]))
      BY <2>1, <3>2
    <3>5. QED
      BY <3>1, <3>3, <3>4
  <2>2. \/ x[1] < y[1] \/ (x[1] = y[1] /\ x[2] < y[2])
        \/ y[1] < x[1] \/ (y[1] = x[1] /\ y[2] < x[2])
    <3>1. x[1] \in Nat /\ x[2] \in Nat /\ y[1] \in Nat /\ y[2] \in Nat
      BY <1>2
    <3>2. x[1] # y[1] \/ x[2] # y[2]
      BY <1>2, <1>6
    <3>3. QED
      BY <3>1, <3>2
  <2>3. QED
    BY <2>1, <2>2
<1>7. Numbers(P, U)
  <2>1. Ordered(P, U)
    BY <1>5, <1>6 DEF Ordered
  <2>2. QED
    BY <1>2, <2>1, Counted
<1>8. /\ \A x \in P : Cardinality(U[x]) \in 1..Cardinality(P)
      /\ \A x, y \in P : Cardinality(U[x]) = Cardinality(U[y]) => x = y
      /\ \A n \in 1..Cardinality(P) : \E x \in P : Cardinality(U[x]) = n
  BY <1>7 DEF Numbers
<1>9. \A n : SectionAt(cmds, n) = CHOOSE p \in P : Cardinality(UpTo(cmds, p)) = n
  BY <1>1 DEF SectionAt
<1>10. ASSUME NEW n \in 1..Cardinality(P)
       PROVE  SectionAt(cmds, n) \in P /\ Cardinality(UpTo(cmds, SectionAt(cmds, n))) = n
  <2>1. \E p \in P : Cardinality(UpTo(cmds, p)) = n
    BY <1>3, <1>8
  <2>2. QED
    BY <1>9, <2>1
<1>11. ASSUME NEW p \in P
       PROVE  /\ Cardinality(UpTo(cmds, p)) \in 1..Cardinality(P)
              /\ SectionAt(cmds, Cardinality(UpTo(cmds, p))) = p
  <2>1. PICK n : n = Cardinality(UpTo(cmds, p))
    OBVIOUS
  <2>2. n \in 1..Cardinality(P) /\ n = Cardinality(U[p])
    BY <1>3, <1>8, <2>1
  <2>3. PICK q \in P : q = SectionAt(cmds, n) /\ Cardinality(UpTo(cmds, q)) = n
    BY <1>10, <2>2
  <2>4. q = p
    BY <1>3, <1>8, <2>2, <2>3
  <2>5. QED
    BY <2>1, <2>2, <2>3, <2>4
<1>12. Cardinality(P) \in Nat
  BY <1>2, FS_CardinalityType
<1>13. QED
  BY <1>1, <1>10, <1>11, <1>12

(* What is said of commands by their types, names and sections alone.      *)
Alike(cmds, other) ==
  /\ DOMAIN cmds = DOMAIN other
  /\ \A k \in DOMAIN cmds : /\ cmds[k].cmd = other[k].cmd /\ cmds[k].name = other[k].name
                            /\ cmds[k].sects = other[k].sects

LEMMA AlikeSame ==
  ASSUME NEW cmds, NEW other, Alike(cmds, other)
  PROVE  /\ \A types : OfTypes(cmds, types) = OfTypes(other, types)
         /\ Places(cmds) = Places(other)
         /\ \A p : UpTo(cmds, p) = UpTo(other, p)
         /\ \A n : SectionAt(cmds, n) = SectionAt(other, n)
         /\ Apart(cmds) = Apart(other)
<1>1. /\ DOMAIN cmds = DOMAIN other
      /\ \A k \in DOMAIN cmds : /\ cmds[k].cmd = other[k].cmd /\ cmds[k].name = other[k].name
                                /\ cmds[k].sects = other[k].sects
  BY DEF Alike
<1>2. ASSUME NEW types PROVE OfTypes(cmds, types) = OfTypes(other, types)
  BY <1>1 DEF OfTypes
<1>3. PICK S : S = OfTypes(cmds, {"SEGMENT"}) /\ S = OfTypes(other, {"SEGMENT"})
  BY <1>2
<1>4. \A k \in S : k \in DOMAIN cmds /\ cmds[k].sects = other[k].sects
  BY <1>1, <1>3 DEF OfTypes
<1>5. Places(cmds) = Places(other)
  <2>1. \A k \in S : {<<k, n>> : n \in DOMAIN cmds[k].sects} = {<<k, n>> : n \in DOMAIN other[k].sects}
    BY <1>4
  <2>2. {{<<k, n>> : n \in DOMAIN cmds[k].sects} : k \in S}
        = {{<<k, n>> : n \in DOMAIN other[k].sects} : k \in S}
    BY <2>1
  <2>3. QED
    BY <1>3, <2>2 DEF Places
<1>6. \A p : UpTo(cmds, p) = UpTo(other, p)
  BY <1>5 DEF UpTo
<1>7. \A n : SectionAt(cmds, n) = SectionAt(other, n)
  BY <1>5, <1>6 DEF SectionAt
<1>8. Apart(cmds) = Apart(other)
  <2>1. \A types, x : x \in OfTypes(cmds, types) => x \in DOMAIN cmds
    BY DEF OfTypes
  <2>2. \A types : Once(cmds, OfTypes(cmds, types)) = Once(other, OfTypes(other, types))
    BY <1>1, <1>2, <2>1 DEF Once
  <2>3. \A k \in OfTypes(cmds, {"SEGMENT"}) : Gone(cmds[k]) = Gone(other[k]) /\ cmds[k].sects = other[k].sects
    BY <1>1, <2>1 DEF Gone
  <2>4. QED
    BY <1>2, <2>2, <2>3 DEF Apart
<1>9. QED
  BY <1>2, <1>5, <1>6, <1>7, <1>8

-----------------------------------------------------------------------------
(* The inductive invariant, of the file and of an archive in memory.       *)

Archive ==
  [cmds : Seq([id : Nat, cmd : Types, name : STRING, sects : Seq(STRING)]), next : Nat,
   binds : Seq([seg : Nat, off : Nat, dylib : Nat, sym : Name, lazy : BOOLEAN]),
   syms : Seq([name : Name, kind : Kind, sect : Nat \X Nat]),
   strs : Seq(Name), counts : [1..3 -> Nat], indirect : Seq(Nat),
   type : {"EXECUTE", "DYLIB"}, flags : SUBSET HeaderFlags]

(* No object is there twice, and a new one gets an identity of its own.    *)
Objects(cmds, next) ==
  /\ 0 < next
  /\ \A k \in DOMAIN cmds : 0 < cmds[k].id /\ cmds[k].id < next
  /\ \A j, k \in DOMAIN cmds : cmds[j].id = cmds[k].id => j = k
  /\ Apart(cmds)

(* What is bound, and the libraries to bind to, are among the commands.    *)
Bindings(cmds, binds) ==
  /\ \A k \in DOMAIN binds :
       /\ \E m \in DOMAIN cmds :
            cmds[m].id = binds[k].seg /\ cmds[m].cmd = "SEGMENT" /\ ~Gone(cmds[m])
       /\ \E m \in DOMAIN cmds : cmds[m].id = binds[k].dylib /\ cmds[m].cmd = "LOAD_DYLIB"
  /\ \A j, k \in DOMAIN binds :
       binds[j].seg = binds[k].seg /\ binds[j].off = binds[k].off /\ binds[j].lazy = binds[k].lazy
       => j = k

(* Symbols have their strings and sections, and stand in order of kind.    *)
Described(cmds, syms, strs) ==
  /\ \A k \in DOMAIN syms :
       /\ \E x \in DOMAIN strs : strs[x] = syms[k].name
       /\ \/ syms[k].sect = NoSect
          \/ \E m \in DOMAIN cmds :
               /\ cmds[m].id = syms[k].sect[1] /\ cmds[m].cmd = "SEGMENT"
               /\ syms[k].sect[2] \in DOMAIN cmds[m].sects
  /\ InOrder(syms)

AInv(a) ==
  /\ a \in Archive /\ Objects(a.cmds, a.next)
  /\ Bindings(a.cmds, a.binds) /\ Described(a.cmds, a.syms, a.strs)

FInv(f) == f \in File /\ Apart(f.cmds) /\ Numbered(f) /\ Sorted(f)

(* The same names, in the same order.                                      *)
SameNames(f, a) ==
  /\ DOMAIN a.syms = DOMAIN f.syms /\ a.indirect = f.indirect
  /\ \A k \in DOMAIN f.syms : a.syms[k].name = NameAt(f, k)

LEMMA Elements ==
  ASSUME NEW T, NEW s \in Seq(T)
  PROVE  \A k \in DOMAIN s : s[k] \in T
  OBVIOUS

LEMMA Length ==
  ASSUME NEW T, NEW s \in Seq(T)
  PROVE  \E N \in Nat : DOMAIN s = 1..N /\ Len(s) = N
  OBVIOUS

LEMMA Listed ==
  ASSUME NEW T, NEW N \in Nat, NEW s, s = [k \in 1..N |-> s[k]], \A k \in 1..N : s[k] \in T
  PROVE  s \in Seq(T) /\ Len(s) = N
<1>1. s \in [1..N -> T]
  OBVIOUS
<1>2. QED
  BY <1>1

LEMMA PositionIs ==
  ASSUME NEW cmds, NEW next, Objects(cmds, next), NEW k \in DOMAIN cmds
  PROVE  Position(cmds, cmds[k].id) = k
<1>1. \A j \in DOMAIN cmds : cmds[j].id = cmds[k].id => j = k
  BY DEF Objects
<1>2. QED
  BY <1>1 DEF Position

(* A number counts the commands of some types, and leads back.             *)
LEMMA Numbering ==
  ASSUME NEW T, NEW cmds \in Seq(T), NEW next, Objects(cmds, next), NEW types,
         NEW k \in OfTypes(cmds, types), NEW n, n = Number(cmds, cmds[k].id, types)
  PROVE  /\ n \in DOMAIN Pick(cmds, OfTypes(cmds, types)) /\ n \in Nat /\ n > 0
         /\ Nth(OfTypes(cmds, types), n) = k
         /\ Pick(cmds, OfTypes(cmds, types))[n] = cmds[k]
<1>1. PICK S : S = OfTypes(cmds, types)
  OBVIOUS
<1>2. S \in SUBSET (DOMAIN cmds) /\ k \in S
  BY <1>1 DEF OfTypes
<1>3. n = Rank(S, k)
  <2>1. Position(cmds, cmds[k].id) = k
    BY <1>2, PositionIs
  <2>2. QED
    BY <1>1, <2>1 DEF Number
<1>4. PICK N \in Nat : DOMAIN cmds = 1..N
  OBVIOUS
<1>5. Nth(S, Rank(S, k)) = k /\ Rank(S, k) \in 1..Cardinality(S) /\ Cardinality(S) \in Nat
  BY <1>2, <1>4, Ranks
<1>6. Rank(S, k) \in DOMAIN Pick(cmds, S) /\ Pick(cmds, S)[Rank(S, k)] = cmds[k]
  BY <1>2, Picked
<1>7. QED
  BY <1>1, <1>3, <1>5, <1>6

(* The elements of a list of some types, by number.                        *)
LEMMA OfNumber ==
  ASSUME NEW T, NEW cmds \in Seq(T), NEW types, NEW n \in DOMAIN Pick(cmds, OfTypes(cmds, types))
  PROVE  /\ Nth(OfTypes(cmds, types), n) \in DOMAIN cmds
         /\ Nth(OfTypes(cmds, types), n) \in OfTypes(cmds, types)
         /\ Pick(cmds, OfTypes(cmds, types))[n] = cmds[Nth(OfTypes(cmds, types), n)]
         /\ cmds[Nth(OfTypes(cmds, types), n)].cmd \in types
         /\ Rank(OfTypes(cmds, types), Nth(OfTypes(cmds, types), n)) = n
<1>1. PICK S : S = OfTypes(cmds, types)
  OBVIOUS
<1>2. S \in SUBSET (DOMAIN cmds) /\ \A k \in S : cmds[k].cmd \in types
  BY <1>1 DEF OfTypes
<1>3. /\ Nth(S, n) \in S /\ Pick(cmds, S)[n] = cmds[Nth(S, n)] /\ Rank(S, Nth(S, n)) = n
  BY <1>1, <1>2, Picked
<1>4. QED
  BY <1>1, <1>2, <1>3

LEMMA ParseCommands ==
  ASSUME NEW f, FInv(f), NEW a, a = Parse(f)
  PROVE  /\ a.cmds \in Seq([id : Nat, cmd : Types, name : STRING, sects : Seq(STRING)])
         /\ DOMAIN a.cmds = DOMAIN f.cmds
         /\ \A k \in DOMAIN f.cmds : a.cmds[k].id = k
         /\ Alike(a.cmds, f.cmds) /\ a.next \in Nat /\ Objects(a.cmds, a.next)
         /\ \A k \in DOMAIN f.cmds : Position(a.cmds, k) = k
<1>1. f.cmds \in Seq([cmd : Types, name : STRING, sects : Seq(STRING)])
  BY DEF FInv, File
<1>2. PICK N \in Nat : N = Len(f.cmds) /\ DOMAIN f.cmds = 1..N
  BY <1>1
<1>3. PICK cmds : cmds = [k \in 1..N |->
        [id |-> k, cmd |-> f.cmds[k].cmd, name |-> f.cmds[k].name, sects |-> f.cmds[k].sects]]
  OBVIOUS
<1>4. a.cmds = cmds /\ a.next = Len(cmds) + 1
  BY <1>2, <1>3 DEF Parse
<1>5. \A k \in 1..N : f.cmds[k] \in [cmd : Types, name : STRING, sects : Seq(STRING)]
  BY <1>1, <1>2, Elements
<1>6. \A k \in 1..N : cmds[k] \in [id : Nat, cmd : Types, name : STRING, sects : Seq(STRING)]
  BY <1>3, <1>5
<1>7. cmds \in Seq([id : Nat, cmd : Types, name : STRING, sects : Seq(STRING)]) /\ Len(cmds) = N
  <2>1. cmds = [k \in 1..N |-> cmds[k]]
    BY <1>3
  <2>2. PICK T : T = [id : Nat, cmd : Types, name : STRING, sects : Seq(STRING)]
    OBVIOUS
  <2>3. \A k \in 1..N : cmds[k] \in T
    BY <1>6, <2>2
  <2>4. cmds \in Seq(T) /\ Len(cmds) = N
    BY <2>1, <2>3, Listed
  <2>5. QED
    BY <2>2, <2>4
<1>8. DOMAIN cmds = 1..N /\ \A k \in 1..N : cmds[k].id = k
  BY <1>3
<1>9. Alike(cmds, f.cmds)
  BY <1>2, <1>3 DEF Alike
<1>10. Objects(cmds, N + 1)
  <2>1. Apart(f.cmds)
    BY DEF FInv
  <2>2. Apart(cmds)
    BY <1>9, <2>1, AlikeSame
  <2>3. QED
    BY <1>8, <2>2 DEF Objects
<1>11. \A k \in 1..N : Position(cmds, k) = k
  <2>1. ASSUME NEW k \in 1..N PROVE Position(cmds, k) = k
    BY <1>8, <1>10, PositionIs
  <2>2. QED
    BY <2>1
<1>12. QED
  BY <1>2, <1>4, <1>7, <1>8, <1>9, <1>10, <1>11

LEMMA ParseBinds ==
  ASSUME NEW f, FInv(f), NEW a, a = Parse(f)
  PROVE  /\ a.binds \in Seq([seg : Nat, off : Nat, dylib : Nat, sym : Name, lazy : BOOLEAN])
         /\ Bindings(a.cmds, a.binds) /\ DOMAIN a.binds = DOMAIN f.binds
         /\ \A k \in DOMAIN f.binds :
              BoundInArch(a.cmds, a.binds[k]) = BoundInFile(f, k)
<1>1. PICK cmds : cmds = a.cmds
  OBVIOUS
<1>2. /\ cmds \in Seq([id : Nat, cmd : Types, name : STRING, sects : Seq(STRING)])
      /\ DOMAIN cmds = DOMAIN f.cmds /\ (\A k \in DOMAIN f.cmds : cmds[k].id = k)
      /\ Alike(cmds, f.cmds) /\ Objects(cmds, a.next)
      /\ \A k \in DOMAIN f.cmds : Position(cmds, k) = k
  BY <1>1, ParseCommands
<1>3. f.cmds \in Seq([cmd : Types, name : STRING, sects : Seq(STRING)])
  BY DEF FInv, File
<1>4. PICK binds : binds = [k \in DOMAIN f.binds |->
        [seg |-> Segments(cmds)[f.binds[k].seg + 1].id, off |-> f.binds[k].off,
         dylib |-> LoadDylibs(cmds)[f.binds[k].ord].id,
         sym |-> f.binds[k].sym, lazy |-> f.binds[k].lazy]]
  OBVIOUS
<1>5. a.binds = binds
  BY <1>1, <1>4 DEF Parse
<1>6. \A k \in DOMAIN f.binds :
        /\ f.binds[k].seg \in Nat /\ f.binds[k].off \in Nat /\ f.binds[k].ord \in Nat
        /\ f.binds[k].sym \in Name /\ f.binds[k].lazy \in BOOLEAN
  <2>1. f.binds \in Seq([seg : Nat, off : Nat, ord : Nat, sym : Name, lazy : BOOLEAN])
    BY DEF FInv, File
  <2>2. \A k \in DOMAIN f.binds : f.binds[k] \in [seg : Nat, off : Nat, ord : Nat, sym : Name, lazy : BOOLEAN]
    BY <2>1, Elements
  <2>3. QED
    BY <2>2
<1>7. PICK S, D : S = OfTypes(cmds, {"SEGMENT"}) /\ D = OfTypes(cmds, {"LOAD_DYLIB"})
  OBVIOUS
<1>8. S = OfTypes(f.cmds, {"SEGMENT"}) /\ D = OfTypes(f.cmds, {"LOAD_DYLIB"})
  BY <1>2, <1>7, AlikeSame
<1>9. S \in SUBSET (DOMAIN cmds) /\ D \in SUBSET (DOMAIN cmds)
  BY <1>7 DEF OfTypes
<1>10. /\ Segments(cmds) = Pick(cmds, S) /\ Segments(f.cmds) = Pick(f.cmds, S)
       /\ LoadDylibs(cmds) = Pick(cmds, D) /\ LoadDylibs(f.cmds) = Pick(f.cmds, D)
  BY <1>7, <1>8 DEF Segments, LoadDylibs
<1>11. /\ DOMAIN Pick(cmds, S) = DOMAIN Pick(f.cmds, S)
       /\ DOMAIN Pick(cmds, D) = DOMAIN Pick(f.cmds, D)
  <2>1. S \in SUBSET (DOMAIN f.cmds) /\ D \in SUBSET (DOMAIN f.cmds)
    BY <1>2, <1>9
  <2>2. DOMAIN Pick(cmds, S) = 1..Cardinality(S) /\ DOMAIN Pick(cmds, D) = 1..Cardinality(D)
    BY <1>2, <1>9, Picked
  <2>3. DOMAIN Pick(f.cmds, S) = 1..Cardinality(S) /\ DOMAIN Pick(f.cmds, D) = 1..Cardinality(D)
    BY <1>3, <2>1, Picked
  <2>4. QED
    BY <2>2, <2>3
<1>12. ASSUME NEW k \in DOMAIN f.binds
       PROVE  /\ Nth(S, f.binds[k].seg + 1) \in DOMAIN cmds
              /\ binds[k].seg = Nth(S, f.binds[k].seg + 1)
              /\ cmds[binds[k].seg].cmd = "SEGMENT" /\ ~Gone(cmds[binds[k].seg])
              /\ cmds[binds[k].seg].name = Segments(f.cmds)[f.binds[k].seg + 1].name
              /\ Rank(S, binds[k].seg) = f.binds[k].seg + 1
  <2>1. PICK n : n = f.binds[k].seg + 1
    OBVIOUS
  <2>2. n \in DOMAIN Segments(f.cmds) /\ ~Gone(Segments(f.cmds)[n])
    BY <2>1 DEF FInv, Numbered
  <2>3. n \in DOMAIN Pick(cmds, S)
    BY <1>10, <1>11, <2>2
  <2>4. PICK m : m = Nth(S, n)
    OBVIOUS
  <2>5. m \in DOMAIN cmds /\ Pick(cmds, S)[n] = cmds[m] /\ cmds[m].cmd \in {"SEGMENT"} /\ Rank(S, m) = n
    BY <1>2, <1>7, <2>3, <2>4, OfNumber
  <2>6. Pick(f.cmds, S)[n] = f.cmds[m]
    BY <1>3, <1>8, <1>10, <2>2, <2>4, OfNumber
  <2>7. cmds[m].name = f.cmds[m].name /\ cmds[m].id = m
    BY <1>2, <2>5 DEF Alike
  <2>8. binds[k].seg = m
    BY <1>4, <1>10, <2>1, <2>5, <2>7
  <2>9. ~Gone(cmds[m])
    BY <1>10, <2>2, <2>6, <2>7 DEF Gone
  <2>10. QED
    BY <1>10, <2>1, <2>4, <2>5, <2>6, <2>7, <2>8, <2>9
<1>13. ASSUME NEW k \in DOMAIN f.binds
       PROVE  /\ binds[k].dylib \in DOMAIN cmds /\ cmds[binds[k].dylib].cmd = "LOAD_DYLIB"
              /\ cmds[binds[k].dylib].name = LoadDylibs(f.cmds)[f.binds[k].ord].name
  <2>1. PICK n : n = f.binds[k].ord
    OBVIOUS
  <2>2. n \in DOMAIN LoadDylibs(f.cmds)
    BY <2>1 DEF FInv, Numbered
  <2>3. n \in DOMAIN Pick(cmds, D)
    BY <1>10, <1>11, <2>2
  <2>4. PICK m : m = Nth(D, n)
    OBVIOUS
  <2>5. m \in DOMAIN cmds /\ Pick(cmds, D)[n] = cmds[m] /\ cmds[m].cmd \in {"LOAD_DYLIB"}
    BY <1>2, <1>7, <2>3, <2>4, OfNumber
  <2>6. Pick(f.cmds, D)[n] = f.cmds[m]
    BY <1>3, <1>8, <1>10, <2>2, <2>4, OfNumber
  <2>7. cmds[m].name = f.cmds[m].name /\ cmds[m].id = m
    BY <1>2, <2>5 DEF Alike
  <2>8. binds[k].dylib = m
    BY <1>4, <1>10, <2>1, <2>5, <2>7
  <2>9. QED
    BY <1>10, <2>1, <2>5, <2>6, <2>7, <2>8
<1>14. \A k \in DOMAIN f.binds :
         binds[k].off = f.binds[k].off /\ binds[k].sym = f.binds[k].sym /\ binds[k].lazy = f.binds[k].lazy
  BY <1>4
<1>15. DOMAIN binds = DOMAIN f.binds
  BY <1>4
<1>16. binds \in Seq([seg : Nat, off : Nat, dylib : Nat, sym : Name, lazy : BOOLEAN])
  <2>1. f.binds \in Seq([seg : Nat, off : Nat, ord : Nat, sym : Name, lazy : BOOLEAN])
    BY DEF FInv, File
  <2>2. PICK M \in Nat : DOMAIN f.binds = 1..M
    BY <2>1
  <2>3. \A x \in DOMAIN cmds : x \in Nat
    BY <1>2
  <2>4. ASSUME NEW k \in 1..M
        PROVE  binds[k] \in [seg : Nat, off : Nat, dylib : Nat, sym : Name, lazy : BOOLEAN]
    <3>1. k \in DOMAIN f.binds
      BY <2>2
    <3>2. binds[k].seg \in Nat /\ binds[k].dylib \in Nat
      BY <1>12, <1>13, <2>3, <3>1
    <3>3. PICK seg, dylib : binds[k] =
            [seg |-> seg, off |-> f.binds[k].off, dylib |-> dylib,
             sym |-> f.binds[k].sym, lazy |-> f.binds[k].lazy]
      BY <1>4, <3>1
    <3>4. seg \in Nat /\ dylib \in Nat
      BY <3>2, <3>3
    <3>5. QED
      BY <1>6, <3>1, <3>3, <3>4
  <2>5. binds = [k \in 1..M |-> binds[k]]
    BY <1>4, <2>2
  <2>6. PICK R : R = [seg : Nat, off : Nat, dylib : Nat, sym : Name, lazy : BOOLEAN]
    OBVIOUS
  <2>7. \A k \in 1..M : binds[k] \in R
    BY <2>4, <2>6
  <2>8. binds \in Seq(R)
    BY <2>5, <2>7, Listed
  <2>9. QED
    BY <2>6, <2>8
<1>17. Bindings(cmds, binds)
  <2>1. ASSUME NEW k \in DOMAIN binds
        PROVE  /\ \E m \in DOMAIN cmds :
                    cmds[m].id = binds[k].seg /\ cmds[m].cmd = "SEGMENT" /\ ~Gone(cmds[m])
               /\ \E m \in DOMAIN cmds : cmds[m].id = binds[k].dylib /\ cmds[m].cmd = "LOAD_DYLIB"
    <3>1. \A m \in DOMAIN cmds : cmds[m].id = m
      BY <1>2
    <3>2. k \in DOMAIN f.binds
      BY <1>15
    <3>3. PICK x, y : x = binds[k].seg /\ y = binds[k].dylib
      OBVIOUS
    <3>4. x \in DOMAIN cmds /\ cmds[x].cmd = "SEGMENT" /\ ~Gone(cmds[x]) /\ cmds[x].id = x
      BY <1>12, <3>1, <3>2, <3>3
    <3>5. y \in DOMAIN cmds /\ cmds[y].cmd = "LOAD_DYLIB" /\ cmds[y].id = y
      BY <1>13, <3>1, <3>2, <3>3
    <3>6. QED
      BY <3>3, <3>4, <3>5
  <2>2. ASSUME NEW j \in DOMAIN binds, NEW k \in DOMAIN binds,
               binds[j].seg = binds[k].seg, binds[j].off = binds[k].off, binds[j].lazy = binds[k].lazy
        PROVE  j = k
    <3>1. f.binds[j].seg + 1 = f.binds[k].seg + 1
      BY <1>12, <1>15, <2>2
    <3>2. f.binds[j].seg = f.binds[k].seg
      BY <1>6, <1>15, <3>1
    <3>3. f.binds[j].off = f.binds[k].off /\ f.binds[j].lazy = f.binds[k].lazy
      BY <1>14, <1>15, <2>2
    <3>4. QED
      BY <1>15, <3>2, <3>3 DEF FInv, Numbered
  <2>3. QED
    BY <2>1, <2>2 DEF Bindings
<1>18. ASSUME NEW k \in DOMAIN f.binds
       PROVE  BoundInArch(cmds, binds[k]) = BoundInFile(f, k)
  <2>1. /\ Command(cmds, binds[k].seg).name = Segments(f.cmds)[f.binds[k].seg + 1].name
        /\ Command(cmds, binds[k].dylib).name = LoadDylibs(f.cmds)[f.binds[k].ord].name
    BY <1>2, <1>12, <1>13 DEF Command
  <2>2. QED
    BY <1>14, <2>1 DEF BoundInArch, BoundInFile
<1>19. QED
  BY <1>1, <1>5, <1>15, <1>16, <1>17, <1>18

LEMMA ParseSymbols ==
  ASSUME NEW f, FInv(f), NEW a, a = Parse(f)
  PROVE  /\ a.syms \in Seq([name : Name, kind : Kind, sect : Nat \X Nat])
         /\ Described(a.cmds, a.syms, a.strs) /\ SameNames(f, a)
         /\ \A k \in DOMAIN f.syms :
              SymbolInArch(a.cmds, a.syms[k]) = SymbolInFile(f, k)
<1>1. PICK cmds : cmds = a.cmds
  OBVIOUS
<1>2. /\ cmds \in Seq([id : Nat, cmd : Types, name : STRING, sects : Seq(STRING)])
      /\ DOMAIN cmds = DOMAIN f.cmds /\ (\A k \in DOMAIN f.cmds : cmds[k].id = k)
      /\ Alike(cmds, f.cmds) /\ Objects(cmds, a.next)
      /\ \A k \in DOMAIN f.cmds : Position(cmds, k) = k
  BY <1>1, ParseCommands
<1>3. /\ f.syms \in Seq([strx : Nat, kind : {"LOCAL", "EXT", "UNDEF"}, sect : Nat])
      /\ f.strs \in Seq(Name) /\ f.counts \in [1..3 -> Nat]
  BY DEF FInv, File
<1>4. \A k \in DOMAIN f.syms :
        /\ f.syms[k].strx \in DOMAIN f.strs /\ f.strs[f.syms[k].strx] \in Name
        /\ f.syms[k].kind \in Kind /\ f.syms[k].sect \in 0..Cardinality(Places(f.cmds))
  <2>1. \A k \in DOMAIN f.syms : f.syms[k] \in [strx : Nat, kind : {"LOCAL", "EXT", "UNDEF"}, sect : Nat]
    BY <1>3, Elements
  <2>2. \A k \in DOMAIN f.syms :
          f.syms[k].strx \in DOMAIN f.strs /\ f.syms[k].sect \in 0..Cardinality(Places(f.cmds))
    BY DEF FInv, Numbered
  <2>3. \A x \in DOMAIN f.strs : f.strs[x] \in Name
    BY <1>3, Elements
  <2>4. QED
    BY <2>1, <2>2, <2>3 DEF Kind
<1>5. PICK N \in Nat : DOMAIN f.syms = 1..N
  BY <1>3, Length
<1>6. PICK syms : syms = [k \in 1..N |->
        [name |-> f.strs[f.syms[k].strx], kind |-> f.syms[k].kind,
         sect |-> IF f.syms[k].sect = 0 THEN NoSect ELSE SectionAt(cmds, f.syms[k].sect)]]
  OBVIOUS
<1>7. a.syms = ByKind(syms) /\ a.strs = f.strs /\ a.indirect = f.indirect
  BY <1>1, <1>5, <1>6 DEF Parse
<1>8. /\ Places(cmds) = Places(f.cmds)
      /\ \A n : SectionAt(cmds, n) = SectionAt(f.cmds, n)
  BY <1>2, AlikeSame
<1>9. WithSections(cmds)
  <2>1. \A k \in DOMAIN cmds : cmds[k] \in [id : Nat, cmd : Types, name : STRING, sects : Seq(STRING)]
    BY <1>2, Elements
  <2>2. \A k \in DOMAIN cmds : cmds[k].sects \in Seq(STRING)
    BY <2>1
  <2>3. QED
    BY <1>2, <2>2 DEF WithSections
<1>10. ASSUME NEW k \in 1..N, f.syms[k].sect # 0
       PROVE  /\ SectionAt(cmds, f.syms[k].sect) \in Nat \X Nat
              /\ SectionAt(cmds, f.syms[k].sect)[1] \in DOMAIN cmds
              /\ cmds[SectionAt(cmds, f.syms[k].sect)[1]].cmd = "SEGMENT"
              /\ SectionAt(cmds, f.syms[k].sect)[2] \in DOMAIN cmds[SectionAt(cmds, f.syms[k].sect)[1]].sects
              /\ SectionAt(cmds, f.syms[k].sect) # NoSect
  <2>1. PICK p : p = SectionAt(cmds, f.syms[k].sect)
    OBVIOUS
  <2>2. f.syms[k].sect \in 1..Cardinality(Places(cmds))
    <3>1. Cardinality(Places(cmds)) \in Nat
      BY <1>9, SectionNumbers
    <3>2. f.syms[k].sect \in 0..Cardinality(Places(cmds))
      BY <1>4, <1>5, <1>8
    <3>3. QED
      BY <1>10, <3>1, <3>2
  <2>3. p \in Places(cmds)
    BY <1>9, <2>1, <2>2, SectionNumbers
  <2>4. /\ p[1] \in DOMAIN cmds /\ p[2] \in DOMAIN cmds[p[1]].sects /\ p = <<p[1], p[2]>>
        /\ cmds[p[1]].cmd = "SEGMENT" /\ p[1] \in Nat /\ p[2] \in Nat
    BY <1>9, <2>3, PlacesAre
  <2>5. p[1] # 0
    BY <1>2, <2>4
  <2>6. p # NoSect
    BY <2>4, <2>5 DEF NoSect
  <2>7. p \in Nat \X Nat
    BY <2>4
  <2>8. QED
    BY <2>1, <2>4, <2>6, <2>7
<1>11. ASSUME NEW k \in 1..N
       PROVE  /\ syms[k] \in [name : Name, kind : Kind, sect : Nat \X Nat]
              /\ syms[k].name = f.strs[f.syms[k].strx] /\ syms[k].kind = f.syms[k].kind
              /\ f.syms[k].sect = 0 => syms[k].sect = NoSect
              /\ f.syms[k].sect # 0 => syms[k].sect = SectionAt(cmds, f.syms[k].sect)
  <2>1. PICK sect : /\ sect = IF f.syms[k].sect = 0 THEN NoSect ELSE SectionAt(cmds, f.syms[k].sect)
                    /\ syms[k] = [name |-> f.strs[f.syms[k].strx], kind |-> f.syms[k].kind, sect |-> sect]
    BY <1>6
  <2>2. sect \in Nat \X Nat
    BY <1>10, <2>1 DEF NoSect
  <2>3. QED
    BY <1>4, <1>5, <2>1, <2>2
<1>12. PICK T : T = [name : Name, kind : Kind, sect : Nat \X Nat]
  OBVIOUS
<1>13. syms \in Seq(T) /\ DOMAIN syms = 1..N
  <2>1. syms = [k \in 1..N |-> syms[k]]
    BY <1>6
  <2>2. \A k \in 1..N : syms[k] \in T
    BY <1>11, <1>12
  <2>3. syms \in Seq(T) /\ Len(syms) = N
    BY <2>1, <2>2, Listed
  <2>4. DOMAIN syms = 1..N
    BY <1>6
  <2>5. QED
    BY <2>3, <2>4
<1>14. SymbolList(syms) /\ InOrder(syms)
  <2>1. Ranges(f.syms, f.counts)
    BY DEF FInv, Sorted, Ranges
  <2>2. Ranges(syms, f.counts)
    <3>1. \A k \in 1..N : syms[k].kind = f.syms[k].kind
      BY <1>11
    <3>2. DOMAIN syms = 1..N
      BY <1>13
    <3>3. QED
      BY <1>5, <2>1, <3>1, <3>2 DEF Ranges
  <2>3. QED
    BY <1>3, <1>13, <2>2, RangesOrder
<1>15. a.syms = syms
  BY <1>7, <1>14, KindsSame
<1>16. Described(cmds, syms, f.strs)
  <2>1. ASSUME NEW k \in DOMAIN syms
        PROVE  /\ \E x \in DOMAIN f.strs : f.strs[x] = syms[k].name
               /\ \/ syms[k].sect = NoSect
                  \/ \E m \in DOMAIN cmds :
                       /\ cmds[m].id = syms[k].sect[1] /\ cmds[m].cmd = "SEGMENT"
                       /\ syms[k].sect[2] \in DOMAIN cmds[m].sects
    <3>1. k \in 1..N
      BY <1>13
    <3>2. \E x \in DOMAIN f.strs : f.strs[x] = syms[k].name
      <4>1. PICK x : x = f.syms[k].strx
        OBVIOUS
      <4>2. x \in DOMAIN f.strs
        BY <1>4, <1>5, <3>1, <4>1
      <4>3. syms[k].name = f.strs[x]
        BY <1>11, <3>1, <4>1
      <4>4. QED
        BY <4>2, <4>3
    <3>3. CASE f.syms[k].sect = 0
      BY <1>11, <3>1, <3>2, <3>3
    <3>4. CASE f.syms[k].sect # 0
      <4>1. PICK q : q = syms[k].sect
        OBVIOUS
      <4>2. q = SectionAt(cmds, f.syms[k].sect)
        BY <1>11, <3>1, <3>4, <4>1
      <4>3. q[1] \in DOMAIN cmds /\ cmds[q[1]].cmd = "SEGMENT" /\ q[2] \in DOMAIN cmds[q[1]].sects
        BY <1>10, <3>1, <3>4, <4>2
      <4>4. cmds[q[1]].id = q[1]
        BY <1>2, <4>3
      <4>5. QED
        BY <3>2, <4>1, <4>3, <4>4
    <3>5. QED
      BY <3>3, <3>4
  <2>2. QED
    BY <1>14, <2>1 DEF Described
<1>17. SameNames(f, a)
  BY <1>5, <1>7, <1>11, <1>13, <1>15 DEF SameNames, NameAt
<1>18. ASSUME NEW k \in DOMAIN f.syms
       PROVE  SymbolInArch(cmds, syms[k]) = SymbolInFile(f, k)
  <2>1. k \in 1..N /\ syms[k].name = f.strs[f.syms[k].strx] /\ syms[k].kind = f.syms[k].kind
    BY <1>5, <1>11
  <2>2. CASE f.syms[k].sect = 0
    <3>1. syms[k].sect = NoSect
      BY <1>11, <2>1, <2>2
    <3>2. QED
      BY <2>1, <2>2, <3>1 DEF SymbolInArch, SymbolInFile
  <2>3. CASE f.syms[k].sect # 0
    <3>1. PICK p : p = SectionAt(f.cmds, f.syms[k].sect)
      OBVIOUS
    <3>2. syms[k].sect = p /\ p[1] \in DOMAIN cmds /\ p # NoSect
      BY <1>8, <1>10, <1>11, <2>1, <2>3, <3>1
    <3>3. Command(cmds, p[1]) = cmds[p[1]]
      BY <1>2, <3>2 DEF Command
    <3>4. cmds[p[1]].name = f.cmds[p[1]].name /\ cmds[p[1]].sects = f.cmds[p[1]].sects
      BY <1>2, <3>2 DEF Alike
    <3>5. QED
      BY <2>1, <2>3, <3>1, <3>2, <3>3, <3>4 DEF SymbolInArch, SymbolInFile
  <2>4. QED
    BY <2>2, <2>3
<1>19. QED
  BY <1>1, <1>7, <1>12, <1>13, <1>15, <1>16, <1>17, <1>18

LEMMA Parsing ==
  ASSUME NEW f, FInv(f), NEW a, a = Parse(f)
  PROVE  AInv(a) /\ MeaningOfArch(a) = MeaningOfFile(f) /\ SameNames(f, a)
<1>1. /\ a.cmds \in Seq([id : Nat, cmd : Types, name : STRING, sects : Seq(STRING)])
      /\ Alike(a.cmds, f.cmds) /\ a.next \in Nat /\ Objects(a.cmds, a.next)
  BY ParseCommands
<1>2. /\ a.binds \in Seq([seg : Nat, off : Nat, dylib : Nat, sym : Name, lazy : BOOLEAN])
      /\ Bindings(a.cmds, a.binds) /\ DOMAIN a.binds = DOMAIN f.binds
      /\ \A k \in DOMAIN f.binds : BoundInArch(a.cmds, a.binds[k]) = BoundInFile(f, k)
  BY ParseBinds
<1>3. /\ a.syms \in Seq([name : Name, kind : Kind, sect : Nat \X Nat])
      /\ Described(a.cmds, a.syms, a.strs) /\ SameNames(f, a)
      /\ \A k \in DOMAIN f.syms : SymbolInArch(a.cmds, a.syms[k]) = SymbolInFile(f, k)
  BY ParseSymbols
<1>4. a \in Archive
  <2>1. /\ f.strs \in Seq(Name) /\ f.counts \in [1..3 -> Nat] /\ f.indirect \in Seq(Nat)
        /\ f.type \in {"EXECUTE", "DYLIB"} /\ f.flags \in SUBSET HeaderFlags
    BY DEF FInv, File
  <2>2. PICK cmds, next, binds, syms :
          a = [cmds |-> cmds, next |-> next, binds |-> binds, syms |-> syms, strs |-> f.strs,
               counts |-> f.counts, indirect |-> f.indirect, type |-> f.type, flags |-> f.flags]
    BY DEF Parse
  <2>3. cmds = a.cmds /\ next = a.next /\ binds = a.binds /\ syms = a.syms
    BY <2>2
  <2>4. PICK C, R, S : /\ C = Seq([id : Nat, cmd : Types, name : STRING, sects : Seq(STRING)])
                       /\ R = Seq([seg : Nat, off : Nat, dylib : Nat, sym : Name, lazy : BOOLEAN])
                       /\ S = Seq([name : Name, kind : Kind, sect : Nat \X Nat])
    OBVIOUS
  <2>5. cmds \in C /\ next \in Nat /\ binds \in R /\ syms \in S
    BY <1>1, <1>2, <1>3, <2>3, <2>4
  <2>6. Archive = [cmds : C, next : Nat, binds : R, syms : S, strs : Seq(Name), counts : [1..3 -> Nat],
                   indirect : Seq(Nat), type : {"EXECUTE", "DYLIB"}, flags : SUBSET HeaderFlags]
    BY <2>4 DEF Archive
  <2>7. QED
    BY <2>1, <2>2, <2>5, <2>6
<1>5. AInv(a)
  BY <1>1, <1>2, <1>3, <1>4 DEF AInv
<1>6. CommandNames(a.cmds) = CommandNames(f.cmds)
  BY <1>1 DEF Alike, CommandNames
<1>7. {BoundInArch(a.cmds, a.binds[k]) : k \in DOMAIN a.binds} = {BoundInFile(f, k) : k \in DOMAIN f.binds}
  BY <1>2
<1>8. {SymbolInArch(a.cmds, a.syms[k]) : k \in DOMAIN a.syms} = {SymbolInFile(f, k) : k \in DOMAIN f.syms}
  BY <1>3 DEF SameNames
<1>9. a.type = f.type /\ a.flags = f.flags
  BY DEF Parse
<1>10. MeaningOfArch(a) = MeaningOfFile(f)
  BY <1>6, <1>7, <1>8, <1>9 DEF MeaningOfArch, MeaningOfFile
<1>11. QED
  BY <1>3, <1>5, <1>10

LEMMA Typed ==
  ASSUME NEW a, AInv(a)
  PROVE  /\ a.cmds \in Seq([id : Nat, cmd : Types, name : STRING, sects : Seq(STRING)])
         /\ a.next \in Nat
         /\ a.binds \in Seq([seg : Nat, off : Nat, dylib : Nat, sym : Name, lazy : BOOLEAN])
         /\ a.syms \in Seq([name : Name, kind : Kind, sect : Nat \X Nat])
         /\ a.strs \in Seq(Name) /\ a.counts \in [1..3 -> Nat] /\ a.indirect \in Seq(Nat)
         /\ a.type \in {"EXECUTE", "DYLIB"} /\ a.flags \in SUBSET HeaderFlags
  BY DEF AInv, Archive

LEMMA WriteCommands ==
  ASSUME NEW a, AInv(a), NEW f, f = Written(a)
  PROVE  /\ f.cmds \in Seq([cmd : Types, name : STRING, sects : Seq(STRING)])
         /\ Alike(a.cmds, f.cmds) /\ DOMAIN f.cmds = DOMAIN a.cmds
<1>1. PICK C : C = [id : Nat, cmd : Types, name : STRING, sects : Seq(STRING)]
  OBVIOUS
<1>2. PICK D : D = [cmd : Types, name : STRING, sects : Seq(STRING)]
  OBVIOUS
<1>3. a.cmds \in Seq(C)
  BY <1>1, Typed
<1>4. PICK N \in Nat : DOMAIN a.cmds = 1..N
  BY <1>3, Length
<1>5. PICK cmds : cmds = [k \in 1..N |->
        [cmd |-> a.cmds[k].cmd, name |-> a.cmds[k].name, sects |-> a.cmds[k].sects]]
  OBVIOUS
<1>6. f.cmds = cmds
  BY <1>4, <1>5 DEF Written
<1>7. \A k \in 1..N : a.cmds[k] \in C
  BY <1>3, <1>4, Elements
<1>8. \A k \in 1..N : cmds[k] \in D
  BY <1>1, <1>2, <1>5, <1>7
<1>9. cmds \in Seq(D)
  <2>1. cmds = [k \in 1..N |-> cmds[k]]
    BY <1>5
  <2>2. QED
    BY <1>8, <2>1, Listed
<1>10. DOMAIN cmds = 1..N
  BY <1>5
<1>11. Alike(a.cmds, cmds)
  BY <1>4, <1>5, <1>10 DEF Alike
<1>12. QED
  BY <1>2, <1>4, <1>6, <1>9, <1>10, <1>11

(* The number that an object gets leads back to it when the file is read.  *)
LEMMA WrittenNumber ==
  ASSUME NEW a, AInv(a), NEW f, f = Written(a), NEW types, NEW m \in DOMAIN a.cmds,
         a.cmds[m].cmd \in types, NEW n, n = Number(a.cmds, a.cmds[m].id, types)
  PROVE  /\ n \in Nat /\ n > 0 /\ n \in DOMAIN Pick(f.cmds, OfTypes(f.cmds, types))
         /\ Pick(f.cmds, OfTypes(f.cmds, types))[n] = f.cmds[m]
         /\ Nth(OfTypes(a.cmds, types), n) = m
<1>1. PICK C : C = [id : Nat, cmd : Types, name : STRING, sects : Seq(STRING)]
  OBVIOUS
<1>2. PICK D : D = [cmd : Types, name : STRING, sects : Seq(STRING)]
  OBVIOUS
<1>3. a.cmds \in Seq(C) /\ Objects(a.cmds, a.next)
  BY <1>1, Typed DEF AInv
<1>4. f.cmds \in Seq(D) /\ Alike(a.cmds, f.cmds) /\ DOMAIN f.cmds = DOMAIN a.cmds
  BY <1>2, WriteCommands
<1>5. PICK S : S = OfTypes(a.cmds, types)
  OBVIOUS
<1>6. S = OfTypes(f.cmds, types)
  BY <1>4, <1>5, AlikeSame
<1>7. m \in S /\ S \in SUBSET (DOMAIN a.cmds)
  BY <1>5 DEF OfTypes
<1>8. n \in DOMAIN Pick(a.cmds, S) /\ n \in Nat /\ n > 0 /\ Nth(S, n) = m
  BY <1>3, <1>5, <1>7, Numbering
<1>9. DOMAIN Pick(a.cmds, S) = 1..Cardinality(S)
  BY <1>3, <1>7, Picked
<1>10. /\ DOMAIN Pick(f.cmds, S) = 1..Cardinality(S)
       /\ \A x \in DOMAIN Pick(f.cmds, S) : Pick(f.cmds, S)[x] = f.cmds[Nth(S, x)]
  <2>1. S \in SUBSET (DOMAIN f.cmds)
    BY <1>4, <1>7
  <2>2. QED
    BY <1>4, <2>1, Picked
<1>11. QED
  BY <1>5, <1>6, <1>8, <1>9, <1>10

BindsWritten(a, f) ==
  /\ f.binds \in Seq([seg : Nat, off : Nat, ord : Nat, sym : Name, lazy : BOOLEAN])
  /\ DOMAIN f.binds = DOMAIN a.binds
  /\ \A k \in DOMAIN f.binds :
       /\ f.binds[k].seg + 1 \in DOMAIN Segments(f.cmds)
       /\ ~Gone(Segments(f.cmds)[f.binds[k].seg + 1])
       /\ f.binds[k].ord \in DOMAIN LoadDylibs(f.cmds)
       /\ BoundInFile(f, k) = BoundInArch(a.cmds, a.binds[k])
  /\ \A j, k \in DOMAIN f.binds :
       /\ f.binds[j].seg = f.binds[k].seg /\ f.binds[j].off = f.binds[k].off
       /\ f.binds[j].lazy = f.binds[k].lazy
       => j = k

LEMMA WriteBinds ==
  ASSUME NEW a, AInv(a), NEW f, f = Written(a)
  PROVE  BindsWritten(a, f)
<1>1. PICK R : R = [seg : Nat, off : Nat, dylib : Nat, sym : Name, lazy : BOOLEAN]
  OBVIOUS
<1>2. PICK Q : Q = [seg : Nat, off : Nat, ord : Nat, sym : Name, lazy : BOOLEAN]
  OBVIOUS
<1>3. a.binds \in Seq(R)
  BY <1>1, Typed
<1>4. PICK M \in Nat : DOMAIN a.binds = 1..M
  BY <1>3, Length
<1>5. \A k \in 1..M : a.binds[k] \in R
  BY <1>3, <1>4, Elements
<1>6. PICK binds : binds = [k \in 1..M |->
        [seg |-> SegmentId(a.cmds, a.binds[k].seg), off |-> a.binds[k].off,
         ord |-> DylibId(a.cmds, a.binds[k].dylib),
         sym |-> a.binds[k].sym, lazy |-> a.binds[k].lazy]]
  OBVIOUS
<1>7. f.binds = binds /\ DOMAIN binds = 1..M
  BY <1>4, <1>6 DEF Written
<1>8. Alike(a.cmds, f.cmds) /\ Objects(a.cmds, a.next)
  BY WriteCommands DEF AInv
<1>9. ASSUME NEW k \in 1..M
      PROVE  /\ binds[k] \in Q
             /\ binds[k].seg + 1 \in DOMAIN Segments(f.cmds)
             /\ ~Gone(Segments(f.cmds)[binds[k].seg + 1])
             /\ a.cmds[Nth(OfTypes(a.cmds, {"SEGMENT"}), binds[k].seg + 1)].id = a.binds[k].seg
             /\ binds[k].ord \in DOMAIN LoadDylibs(f.cmds)
             /\ BoundInFile(f, k) = BoundInArch(a.cmds, a.binds[k])
  <2>1. PICK m \in DOMAIN a.cmds :
          a.cmds[m].id = a.binds[k].seg /\ a.cmds[m].cmd = "SEGMENT" /\ ~Gone(a.cmds[m])
    BY <1>4 DEF AInv, Bindings
  <2>2. PICK l \in DOMAIN a.cmds : a.cmds[l].id = a.binds[k].dylib /\ a.cmds[l].cmd = "LOAD_DYLIB"
    BY <1>4 DEF AInv, Bindings
  <2>3. PICK n : n = Number(a.cmds, a.cmds[m].id, {"SEGMENT"})
    OBVIOUS
  <2>4. PICK x : x = Number(a.cmds, a.cmds[l].id, {"LOAD_DYLIB"})
    OBVIOUS
  <2>5. /\ n \in Nat /\ n > 0 /\ n \in DOMAIN Pick(f.cmds, OfTypes(f.cmds, {"SEGMENT"}))
        /\ Pick(f.cmds, OfTypes(f.cmds, {"SEGMENT"}))[n] = f.cmds[m]
        /\ Nth(OfTypes(a.cmds, {"SEGMENT"}), n) = m
    BY <2>1, <2>3, WrittenNumber
  <2>6. /\ x \in Nat /\ x > 0 /\ x \in DOMAIN Pick(f.cmds, OfTypes(f.cmds, {"LOAD_DYLIB"}))
        /\ Pick(f.cmds, OfTypes(f.cmds, {"LOAD_DYLIB"}))[x] = f.cmds[l]
    BY <2>2, <2>4, WrittenNumber
  <2>7. binds[k] = [seg |-> n - 1, off |-> a.binds[k].off, ord |-> x,
                    sym |-> a.binds[k].sym, lazy |-> a.binds[k].lazy]
    BY <1>6, <2>1, <2>2, <2>3, <2>4 DEF SegmentId, DylibId
  <2>8. binds[k].seg + 1 = n /\ n - 1 \in Nat /\ binds[k].ord = x
    BY <2>5, <2>7
  <2>9. binds[k] \in Q
    BY <1>1, <1>2, <1>5, <2>6, <2>7, <2>8
  <2>10. Segments(f.cmds)[n] = f.cmds[m] /\ n \in DOMAIN Segments(f.cmds)
    BY <2>5 DEF Segments
  <2>11. LoadDylibs(f.cmds)[x] = f.cmds[l] /\ x \in DOMAIN LoadDylibs(f.cmds)
    BY <2>6 DEF LoadDylibs
  <2>12. f.cmds[m].name = a.cmds[m].name /\ f.cmds[l].name = a.cmds[l].name
    BY <1>8 DEF Alike
  <2>13. ~Gone(Segments(f.cmds)[n])
    BY <2>1, <2>10, <2>12 DEF Gone
  <2>14. Command(a.cmds, a.binds[k].seg) = a.cmds[m] /\ Command(a.cmds, a.binds[k].dylib) = a.cmds[l]
    <3>1. Position(a.cmds, a.cmds[m].id) = m /\ Position(a.cmds, a.cmds[l].id) = l
      BY <1>8, PositionIs
    <3>2. QED
      BY <2>1, <2>2, <3>1 DEF Command
  <2>15. BoundInFile(f, k) = BoundInArch(a.cmds, a.binds[k])
    <3>1. /\ f.binds[k].off = a.binds[k].off /\ f.binds[k].sym = a.binds[k].sym
          /\ f.binds[k].lazy = a.binds[k].lazy /\ f.binds[k].seg + 1 = n /\ f.binds[k].ord = x
      BY <1>7, <2>7, <2>8
    <3>2. QED
      BY <2>10, <2>11, <2>12, <2>14, <3>1 DEF BoundInFile, BoundInArch
  <2>16. QED
    BY <2>1, <2>5, <2>8, <2>9, <2>10, <2>11, <2>13, <2>15
<1>10. binds \in Seq(Q)
  <2>1. binds = [k \in 1..M |-> binds[k]]
    BY <1>6
  <2>2. \A k \in 1..M : binds[k] \in Q
    BY <1>9
  <2>3. QED
    BY <2>1, <2>2, Listed
<1>11. ASSUME NEW j \in 1..M, NEW k \in 1..M,
              binds[j].seg = binds[k].seg, binds[j].off = binds[k].off, binds[j].lazy = binds[k].lazy
       PROVE  j = k
  <2>1. a.binds[j].seg = a.binds[k].seg
    BY <1>9, <1>11
  <2>2. a.binds[j].off = a.binds[k].off /\ a.binds[j].lazy = a.binds[k].lazy
    BY <1>6, <1>11
  <2>3. QED
    BY <1>4, <2>1, <2>2 DEF AInv, Bindings
<1>12. QED
  BY <1>2, <1>4, <1>7, <1>9, <1>10, <1>11 DEF BindsWritten

LEMMA WriteSymbols ==
  ASSUME NEW a, AInv(a), NEW f, f = Written(a)
  PROVE  /\ f.syms \in Seq([strx : Nat, kind : {"LOCAL", "EXT", "UNDEF"}, sect : Nat])
         /\ SameNames(f, a) /\ f.strs = a.strs
         /\ \A k \in DOMAIN f.syms :
              /\ f.syms[k].strx \in DOMAIN f.strs
              /\ f.syms[k].sect \in 0..Cardinality(Places(f.cmds))
              /\ SymbolInFile(f, k) = SymbolInArch(a.cmds, a.syms[k])
         /\ Sorted(f) /\ f.counts \in [1..3 -> Nat]
<1>1. PICK R : R = [name : Name, kind : Kind, sect : Nat \X Nat]
  OBVIOUS
<1>2. PICK Q : Q = [strx : Nat, kind : {"LOCAL", "EXT", "UNDEF"}, sect : Nat]
  OBVIOUS
<1>3. a.syms \in Seq(R) /\ a.strs \in Seq(Name)
  BY <1>1, Typed
<1>4. PICK M \in Nat : DOMAIN a.syms = 1..M
  BY <1>3, Length
<1>5. \A k \in 1..M : a.syms[k] \in R
  BY <1>3, <1>4, Elements
<1>6. PICK syms : syms = [k \in 1..M |->
        [strx |-> CHOOSE x \in DOMAIN a.strs : a.strs[x] = a.syms[k].name,
         kind |-> a.syms[k].kind, sect |-> SectionId(a.cmds, a.syms[k].sect)]]
  OBVIOUS
<1>7. f.syms = syms /\ DOMAIN syms = 1..M /\ f.strs = a.strs /\ f.indirect = a.indirect
  BY <1>4, <1>6 DEF Written
<1>8. Alike(a.cmds, f.cmds) /\ Objects(a.cmds, a.next) /\ WithSections(a.cmds)
  <2>1. PICK C : C = [id : Nat, cmd : Types, name : STRING, sects : Seq(STRING)]
    OBVIOUS
  <2>2. a.cmds \in Seq(C)
    BY <2>1, Typed
  <2>3. \A k \in DOMAIN a.cmds : a.cmds[k] \in C
    BY <2>2, Elements
  <2>4. WithSections(a.cmds)
    BY <2>1, <2>2, <2>3 DEF WithSections
  <2>5. QED
    BY <2>4, WriteCommands DEF AInv
<1>9. /\ Places(a.cmds) = Places(f.cmds)
      /\ \A n : SectionAt(a.cmds, n) = SectionAt(f.cmds, n)
  BY <1>8, AlikeSame
<1>10. ASSUME NEW k \in 1..M
       PROVE  /\ syms[k].strx \in DOMAIN a.strs /\ a.strs[syms[k].strx] = a.syms[k].name
              /\ syms[k].kind = a.syms[k].kind /\ syms[k].kind \in Kind
              /\ syms[k].sect \in 0..Cardinality(Places(a.cmds))
              /\ syms[k].sect = SectionId(a.cmds, a.syms[k].sect)
              /\ SymbolInFile(f, k) = SymbolInArch(a.cmds, a.syms[k])
              /\ syms[k] \in Q
  <2>1. PICK strx, sect :
          /\ syms[k] = [strx |-> strx, kind |-> a.syms[k].kind, sect |-> sect]
          /\ strx = CHOOSE x \in DOMAIN a.strs : a.strs[x] = a.syms[k].name
          /\ sect = SectionId(a.cmds, a.syms[k].sect)
    BY <1>6
  <2>2. syms[k].strx = strx /\ syms[k].kind = a.syms[k].kind /\ syms[k].sect = sect
    BY <2>1
  <2>3. \E x \in DOMAIN a.strs : a.strs[x] = a.syms[k].name
    BY <1>4 DEF AInv, Described
  <2>4. strx \in DOMAIN a.strs /\ a.strs[strx] = a.syms[k].name
    BY <2>1, <2>3
  <2>5. a.syms[k].kind \in Kind
    BY <1>1, <1>5
  <2>6. Cardinality(Places(a.cmds)) \in Nat
    BY <1>8, SectionNumbers
  <2>7. /\ sect \in 0..Cardinality(Places(a.cmds))
        /\ SymbolInFile(f, k) = SymbolInArch(a.cmds, a.syms[k])
    <3>1. CASE a.syms[k].sect = NoSect
      <4>1. sect = 0
        BY <2>1, <3>1 DEF SectionId
      <4>2. QED
        BY <1>7, <2>2, <2>4, <2>6, <3>1, <4>1 DEF SymbolInFile, SymbolInArch
    <3>2. CASE a.syms[k].sect # NoSect
      <4>1. PICK s : s = a.syms[k].sect
        OBVIOUS
      <4>2. PICK m \in DOMAIN a.cmds :
              a.cmds[m].id = s[1] /\ a.cmds[m].cmd = "SEGMENT" /\ s[2] \in DOMAIN a.cmds[m].sects
        BY <1>4, <3>2, <4>1 DEF AInv, Described
      <4>3. Position(a.cmds, s[1]) = m
        BY <1>8, <4>2, PositionIs
      <4>4. PICK p : p = <<m, s[2]>>
        OBVIOUS
      <4>5. sect = Cardinality(UpTo(a.cmds, p))
        BY <2>1, <3>2, <4>1, <4>3, <4>4 DEF SectionId
      <4>6. p \in Places(a.cmds)
        BY <1>8, <4>2, <4>4, PlacesAre
      <4>7. sect \in 1..Cardinality(Places(a.cmds)) /\ SectionAt(a.cmds, sect) = p
        BY <1>8, <4>5, <4>6, SectionNumbers
      <4>8. sect \in 0..Cardinality(Places(a.cmds)) /\ sect # 0 /\ SectionAt(f.cmds, sect) = p
        BY <1>9, <2>6, <4>7
      <4>9. f.cmds[m].name = a.cmds[m].name /\ f.cmds[m].sects = a.cmds[m].sects
        BY <1>8 DEF Alike
      <4>10. Command(a.cmds, s[1]) = a.cmds[m]
        BY <4>3 DEF Command
      <4>11. p[1] = m /\ p[2] = s[2]
        BY <4>4
      <4>12. SymbolInFile(f, k) = SymbolInArch(a.cmds, a.syms[k])
        BY <1>7, <2>2, <2>4, <3>2, <4>1, <4>8, <4>9, <4>10, <4>11 DEF SymbolInFile, SymbolInArch
      <4>13. QED
        BY <4>8, <4>12
    <3>3. QED
      BY <3>1, <3>2
  <2>8. syms[k] \in Q
    <3>1. strx \in Nat
      BY <1>3, <2>4
    <3>2. sect \in Nat
      BY <2>6, <2>7
    <3>3. QED
      BY <1>2, <2>1, <2>5, <3>1, <3>2 DEF Kind
  <2>9. QED
    BY <2>1, <2>2, <2>4, <2>5, <2>7, <2>8
<1>11. syms \in Seq(Q)
  <2>1. syms = [k \in 1..M |-> syms[k]]
    BY <1>6
  <2>2. \A k \in 1..M : syms[k] \in Q
    BY <1>10
  <2>3. QED
    BY <2>1, <2>2, Listed
<1>12. SameNames(f, a)
  BY <1>4, <1>7, <1>10 DEF SameNames, NameAt
<1>13. Sorted(f) /\ f.counts \in [1..3 -> Nat]
  <2>1. \A k \in 1..M : a.syms[k].kind \in Kind
    BY <1>10
  <2>2. SymbolList(a.syms) /\ InOrder(a.syms)
    BY <1>3, <1>4, <2>1 DEF SymbolList, AInv, Described
  <2>3. PICK counts : counts = [k \in 1..3 |-> Len(OfKind(a.syms, Kinds[k]))]
    OBVIOUS
  <2>4. Ranges(a.syms, counts) /\ counts \in [1..3 -> Nat]
    BY <2>2, <2>3, OrderRanges
  <2>5. f.counts = counts
    BY <2>3 DEF Written, Counts
  <2>6. \A k \in 1..M : syms[k].kind = a.syms[k].kind
    BY <1>10
  <2>7. Ranges(syms, counts)
    BY <1>4, <1>7, <2>4, <2>6 DEF Ranges
  <2>8. QED
    BY <1>7, <2>4, <2>5, <2>7 DEF Sorted, Ranges
<1>14. QED
  BY <1>2, <1>7, <1>9, <1>10, <1>11, <1>12, <1>13

LEMMA Writing ==
  ASSUME NEW a, AInv(a), NEW f, f = Written(a)
  PROVE  FInv(f) /\ MeaningOfFile(f) = MeaningOfArch(a) /\ SameNames(f, a)
<1>1. /\ f.cmds \in Seq([cmd : Types, name : STRING, sects : Seq(STRING)])
      /\ Alike(a.cmds, f.cmds) /\ DOMAIN f.cmds = DOMAIN a.cmds
  BY WriteCommands
<1>2. /\ f.binds \in Seq([seg : Nat, off : Nat, ord : Nat, sym : Name, lazy : BOOLEAN])
      /\ DOMAIN f.binds = DOMAIN a.binds
      /\ \A k \in DOMAIN f.binds :
           /\ f.binds[k].seg + 1 \in DOMAIN Segments(f.cmds)
           /\ ~Gone(Segments(f.cmds)[f.binds[k].seg + 1])
           /\ f.binds[k].ord \in DOMAIN LoadDylibs(f.cmds)
           /\ BoundInFile(f, k) = BoundInArch(a.cmds, a.binds[k])
      /\ \A j, k \in DOMAIN f.binds :
           /\ f.binds[j].seg = f.binds[k].seg /\ f.binds[j].off = f.binds[k].off
           /\ f.binds[j].lazy = f.binds[k].lazy
           => j = k
  <2>1. BindsWritten(a, f)
    BY WriteBinds
  <2>2. QED
    BY <2>1 DEF BindsWritten
<1>3. /\ f.syms \in Seq([strx : Nat, kind : {"LOCAL", "EXT", "UNDEF"}, sect : Nat])
      /\ SameNames(f, a) /\ f.strs = a.strs
      /\ \A k \in DOMAIN f.syms :
           /\ f.syms[k].strx \in DOMAIN f.strs
           /\ f.syms[k].sect \in 0..Cardinality(Places(f.cmds))
           /\ SymbolInFile(f, k) = SymbolInArch(a.cmds, a.syms[k])
      /\ Sorted(f) /\ f.counts \in [1..3 -> Nat]
  BY WriteSymbols
<1>4. f \in File
  <2>1. a.strs \in Seq(Name) /\ a.indirect \in Seq(Nat) /\ a.type \in {"EXECUTE", "DYLIB"} /\ a.flags \in SUBSET HeaderFlags
    BY Typed
  <2>2. PICK cmds, binds, syms, counts :
          f = [cmds |-> cmds, binds |-> binds, syms |-> syms, strs |-> a.strs,
               counts |-> counts, indirect |-> a.indirect, type |-> a.type, flags |-> a.flags]
    BY DEF Written
  <2>3. cmds = f.cmds /\ binds = f.binds /\ syms = f.syms /\ counts = f.counts
    BY <2>2
  <2>4. PICK C, R, S : /\ C = Seq([cmd : Types, name : STRING, sects : Seq(STRING)])
                       /\ R = Seq([seg : Nat, off : Nat, ord : Nat, sym : Name, lazy : BOOLEAN])
                       /\ S = Seq([strx : Nat, kind : {"LOCAL", "EXT", "UNDEF"}, sect : Nat])
    OBVIOUS
  <2>5. cmds \in C /\ binds \in R /\ syms \in S /\ counts \in [1..3 -> Nat]
    BY <1>1, <1>2, <1>3, <2>3, <2>4
  <2>6. File = [cmds : C, binds : R, syms : S, strs : Seq(Name), counts : [1..3 -> Nat],
                indirect : Seq(Nat), type : {"EXECUTE", "DYLIB"}, flags : SUBSET HeaderFlags]
    BY <2>4 DEF File
  <2>7. QED
    BY <2>1, <2>2, <2>5, <2>6
<1>5. Apart(f.cmds)
  BY <1>1, AlikeSame DEF AInv, Objects
<1>6. Numbered(f)
  BY <1>2, <1>3 DEF Numbered
<1>7. CommandNames(a.cmds) = CommandNames(f.cmds)
  BY <1>1 DEF Alike, CommandNames
<1>8. {BoundInArch(a.cmds, a.binds[k]) : k \in DOMAIN a.binds} = {BoundInFile(f, k) : k \in DOMAIN f.binds}
  BY <1>2
<1>9. {SymbolInArch(a.cmds, a.syms[k]) : k \in DOMAIN a.syms} = {SymbolInFile(f, k) : k \in DOMAIN f.syms}
  BY <1>3 DEF SameNames
<1>10. a.type = f.type /\ a.flags = f.flags
  BY DEF Written
<1>11. MeaningOfFile(f) = MeaningOfArch(a)
  BY <1>7, <1>8, <1>9, <1>10 DEF MeaningOfArch, MeaningOfFile
<1>12. QED
  BY <1>3, <1>4, <1>5, <1>6, <1>11 DEF FInv

-----------------------------------------------------------------------------
(* The edits of an archive.                                                *)

Commands == Seq([id : Nat, cmd : Types, name : STRING, sects : Seq(STRING)])

(* What binds and symbols speak of is still there.                         *)
Kept(cmds, new) ==
  \A m \in DOMAIN cmds :
    (cmds[m].cmd = "SEGMENT" /\ ~Gone(cmds[m])) \/ cmds[m].cmd = "LOAD_DYLIB"
    => \E p \in DOMAIN new : new[p] = cmds[m]

LEMMA CommandIs ==
  ASSUME NEW cmds, NEW next, Objects(cmds, next), NEW m \in DOMAIN cmds, NEW x, x = cmds[m].id
  PROVE  Command(cmds, x) = cmds[m]
<1>1. Position(cmds, cmds[m].id) = m
  BY PositionIs
<1>2. QED
  BY <1>1 DEF Command

LEMMA KeptBinds ==
  ASSUME NEW cmds, NEW next, Objects(cmds, next), NEW new, NEW then, Objects(new, then),
         Kept(cmds, new), NEW binds, Bindings(cmds, binds)
  PROVE  /\ Bindings(new, binds)
         /\ \A k \in DOMAIN binds : BoundInArch(new, binds[k]) = BoundInArch(cmds, binds[k])
<1>1. ASSUME NEW k \in DOMAIN binds
      PROVE  /\ \E m \in DOMAIN new : new[m].id = binds[k].seg /\ new[m].cmd = "SEGMENT" /\ ~Gone(new[m])
             /\ \E m \in DOMAIN new : new[m].id = binds[k].dylib /\ new[m].cmd = "LOAD_DYLIB"
             /\ BoundInArch(new, binds[k]) = BoundInArch(cmds, binds[k])
  <2>1. PICK m \in DOMAIN cmds :
          cmds[m].id = binds[k].seg /\ cmds[m].cmd = "SEGMENT" /\ ~Gone(cmds[m])
    BY DEF Bindings
  <2>2. PICK l \in DOMAIN cmds : cmds[l].id = binds[k].dylib /\ cmds[l].cmd = "LOAD_DYLIB"
    BY DEF Bindings
  <2>3. PICK p \in DOMAIN new : new[p] = cmds[m]
    BY <2>1 DEF Kept
  <2>4. PICK q \in DOMAIN new : new[q] = cmds[l]
    BY <2>2 DEF Kept
  <2>5. Command(cmds, binds[k].seg) = cmds[m] /\ Command(cmds, binds[k].dylib) = cmds[l]
    BY <2>1, <2>2, CommandIs
  <2>6. binds[k].seg = new[p].id /\ binds[k].dylib = new[q].id
    BY <2>1, <2>2, <2>3, <2>4
  <2>7. Command(new, binds[k].seg) = new[p] /\ Command(new, binds[k].dylib) = new[q]
    BY <2>6, CommandIs
  <2>8. BoundInArch(new, binds[k]) = BoundInArch(cmds, binds[k])
    BY <2>3, <2>4, <2>5, <2>7 DEF BoundInArch
  <2>9. QED
    BY <2>1, <2>2, <2>3, <2>4, <2>8
<1>2. QED
  BY <1>1 DEF Bindings

LEMMA KeptSymbols ==
  ASSUME NEW cmds, NEW next, Objects(cmds, next), NEW new, NEW then, Objects(new, then),
         Kept(cmds, new), NEW syms, NEW strs, Described(cmds, syms, strs)
  PROVE  /\ Described(new, syms, strs)
         /\ \A k \in DOMAIN syms : SymbolInArch(new, syms[k]) = SymbolInArch(cmds, syms[k])
<1>1. ASSUME NEW k \in DOMAIN syms
      PROVE  /\ \/ syms[k].sect = NoSect
                \/ \E m \in DOMAIN new :
                     /\ new[m].id = syms[k].sect[1] /\ new[m].cmd = "SEGMENT"
                     /\ syms[k].sect[2] \in DOMAIN new[m].sects
             /\ SymbolInArch(new, syms[k]) = SymbolInArch(cmds, syms[k])
  <2>1. CASE syms[k].sect = NoSect
    BY <2>1 DEF SymbolInArch
  <2>2. CASE syms[k].sect # NoSect
    <3>1. PICK m \in DOMAIN cmds :
            /\ cmds[m].id = syms[k].sect[1] /\ cmds[m].cmd = "SEGMENT"
            /\ syms[k].sect[2] \in DOMAIN cmds[m].sects
      BY <2>2 DEF Described
    <3>2. ~Gone(cmds[m])
      <4>1. m \in OfTypes(cmds, {"SEGMENT"})
        BY <3>1 DEF OfTypes
      <4>2. Gone(cmds[m]) => cmds[m].sects = <<>>
        BY <4>1 DEF Objects, Apart
      <4>3. DOMAIN <<>> = {}
        OBVIOUS
      <4>4. QED
        BY <3>1, <4>2, <4>3
    <3>3. PICK p \in DOMAIN new : new[p] = cmds[m]
      BY <3>1, <3>2 DEF Kept
    <3>4. syms[k].sect[1] = new[p].id
      BY <3>1, <3>3
    <3>5. Command(cmds, syms[k].sect[1]) = cmds[m]
      BY <3>1, CommandIs
    <3>6. Command(new, syms[k].sect[1]) = new[p]
      BY <3>4, CommandIs
    <3>7. SymbolInArch(new, syms[k]) = SymbolInArch(cmds, syms[k])
      BY <3>3, <3>5, <3>6 DEF SymbolInArch
    <3>8. QED
      BY <3>1, <3>3, <3>7
  <2>3. QED
    BY <2>1, <2>2
<1>2. QED
  BY <1>1 DEF Described

(* Other commands, of which those that matter are the same.                *)
IsWithCommands(a, cmds, next, b) == b = [a EXCEPT !.cmds = cmds, !.next = next]
HasCommands(a, cmds, b) ==
  /\ AInv(b) /\ b.syms = a.syms /\ b.indirect = a.indirect
  /\ MeaningOfArch(b) = [MeaningOfArch(a) EXCEPT !.cmds = CommandNames(cmds)]

LEMMA WithCommands ==
  ASSUME NEW a, AInv(a), NEW cmds \in Commands, NEW next \in Nat, Objects(cmds, next),
         Kept(a.cmds, cmds), NEW b, IsWithCommands(a, cmds, next, b)
  PROVE  HasCommands(a, cmds, b)
<1>1. b = [a EXCEPT !.cmds = cmds, !.next = next]
  BY DEF IsWithCommands
<1>2. /\ b.cmds = cmds /\ b.next = next /\ b.binds = a.binds /\ b.syms = a.syms /\ b.strs = a.strs
      /\ b.type = a.type /\ b.flags = a.flags /\ b.indirect = a.indirect /\ b \in Archive
  <2>1. a \in Archive
    BY DEF AInv
  <2>2. PICK C, R, S : /\ C = Seq([id : Nat, cmd : Types, name : STRING, sects : Seq(STRING)])
                       /\ R = Seq([seg : Nat, off : Nat, dylib : Nat, sym : Name, lazy : BOOLEAN])
                       /\ S = Seq([name : Name, kind : Kind, sect : Nat \X Nat])
    OBVIOUS
  <2>3. Archive = [cmds : C, next : Nat, binds : R, syms : S, strs : Seq(Name), counts : [1..3 -> Nat],
                   indirect : Seq(Nat), type : {"EXECUTE", "DYLIB"}, flags : SUBSET HeaderFlags]
    BY <2>2 DEF Archive
  <2>4. cmds \in C
    BY <2>2 DEF Commands
  <2>5. QED
    BY <1>1, <2>1, <2>3, <2>4
<1>3. Objects(a.cmds, a.next) /\ Bindings(a.cmds, a.binds) /\ Described(a.cmds, a.syms, a.strs)
  BY DEF AInv
<1>4. /\ Bindings(cmds, a.binds)
      /\ \A k \in DOMAIN a.binds : BoundInArch(cmds, a.binds[k]) = BoundInArch(a.cmds, a.binds[k])
  BY <1>3, KeptBinds
<1>5. /\ Described(cmds, a.syms, a.strs)
      /\ \A k \in DOMAIN a.syms : SymbolInArch(cmds, a.syms[k]) = SymbolInArch(a.cmds, a.syms[k])
  BY <1>3, KeptSymbols
<1>6. AInv(b)
  BY <1>2, <1>4, <1>5 DEF AInv
<1>7. {BoundInArch(b.cmds, b.binds[k]) : k \in DOMAIN b.binds}
      = {BoundInArch(a.cmds, a.binds[k]) : k \in DOMAIN a.binds}
  BY <1>2, <1>4
<1>8. {SymbolInArch(b.cmds, b.syms[k]) : k \in DOMAIN b.syms}
      = {SymbolInArch(a.cmds, a.syms[k]) : k \in DOMAIN a.syms}
  BY <1>2, <1>5
<1>9. MeaningOfArch(b) = [MeaningOfArch(a) EXCEPT !.cmds = CommandNames(cmds)]
  <2>1. PICK X : X = {BoundInArch(a.cmds, a.binds[k]) : k \in DOMAIN a.binds}
    OBVIOUS
  <2>2. PICK Y : Y = {SymbolInArch(a.cmds, a.syms[k]) : k \in DOMAIN a.syms}
    OBVIOUS
  <2>3. MeaningOfArch(a) = [cmds |-> CommandNames(a.cmds), binds |-> X, syms |-> Y,
                            type |-> a.type, flags |-> a.flags]
    BY <2>1, <2>2 DEF MeaningOfArch
  <2>4. MeaningOfArch(b) = [cmds |-> CommandNames(b.cmds), binds |-> X, syms |-> Y,
                            type |-> b.type, flags |-> b.flags]
    BY <1>7, <1>8, <2>1, <2>2 DEF MeaningOfArch
  <2>5. QED
    BY <1>2, <2>3, <2>4
<1>10. QED
  BY <1>2, <1>6, <1>9 DEF HasCommands

LEMMA CommandType ==
  ASSUME NEW cmds \in Commands
  PROVE  /\ \E N \in Nat : DOMAIN cmds = 1..N /\ Len(cmds) = N
         /\ \A k \in DOMAIN cmds : /\ cmds[k].id \in Nat /\ cmds[k].cmd \in Types
                                   /\ cmds[k].name \in STRING /\ cmds[k].sects \in Seq(STRING)
<1>1. PICK C : C = [id : Nat, cmd : Types, name : STRING, sects : Seq(STRING)]
  OBVIOUS
<1>2. cmds \in Seq(C)
  BY <1>1 DEF Commands
<1>3. \A k \in DOMAIN cmds : cmds[k] \in C
  BY <1>2, Elements
<1>4. \E N \in Nat : DOMAIN cmds = 1..N /\ Len(cmds) = N
  BY <1>2, Length
<1>5. QED
  BY <1>1, <1>3, <1>4

(* One command more, of a library that has a name of its own.              *)
OneMore(cmds, next, cmd, name, new) ==
  /\ new \in Commands /\ Objects(new, next + 1) /\ Kept(cmds, new)
  /\ CommandNames(new) = Append(CommandNames(cmds), [cmd |-> cmd, name |-> name])

LEMMA Appended ==
  ASSUME NEW cmds \in Commands, NEW next \in Nat, Objects(cmds, next),
         NEW cmd \in {"LOAD_DYLIB", "ID_DYLIB"}, NEW name \in STRING,
         \A k \in DOMAIN cmds : cmds[k].name # name,
         NEW e, e = [id |-> next, cmd |-> cmd, name |-> name, sects |-> <<>>],
         NEW new, new = Append(cmds, e)
  PROVE  OneMore(cmds, next, cmd, name, new)
<1>1. PICK N \in Nat : DOMAIN cmds = 1..N /\ Len(cmds) = N
  BY CommandType
<1>2. PICK C : C = [id : Nat, cmd : Types, name : STRING, sects : Seq(STRING)]
  OBVIOUS
<1>3. cmds \in Seq(C)
  BY <1>2 DEF Commands
<1>4. e \in C
  <2>1. <<>> \in Seq(STRING) /\ cmd \in Types
    BY DEF Types
  <2>2. QED
    BY <1>2, <2>1
<1>5. /\ new \in Seq(C) /\ Len(new) = N + 1 /\ DOMAIN new = 1..(N + 1)
      /\ new[N + 1] = e /\ \A k \in 1..N : new[k] = cmds[k]
  BY <1>1, <1>3, <1>4
<1>6. \A k \in DOMAIN new : k \in 1..N \/ k = N + 1
  BY <1>5
<1>7. /\ \A k \in 1..N : cmds[k].id \in Nat /\ 0 < cmds[k].id /\ cmds[k].id < next
      /\ \A j, k \in 1..N : cmds[j].id = cmds[k].id => j = k
      /\ Apart(cmds)
  BY <1>1, CommandType DEF Objects
<1>8. e.id = next /\ e.cmd = cmd /\ e.name = name /\ e.sects = <<>>
  OBVIOUS
<1>9. ASSUME NEW types
      PROVE  \A x : x \in OfTypes(new, types) <=> x \in OfTypes(cmds, types) \/ (x = N + 1 /\ cmd \in types)
  <2>1. \A x : x \in OfTypes(new, types) <=> x \in 1..(N + 1) /\ new[x].cmd \in types
    BY <1>5 DEF OfTypes
  <2>2. \A x : x \in OfTypes(cmds, types) <=> x \in 1..N /\ cmds[x].cmd \in types
    BY <1>1 DEF OfTypes
  <2>3. \A x : x \in 1..(N + 1) <=> x \in 1..N \/ x = N + 1
    OBVIOUS
  <2>4. N + 1 \notin 1..N
    OBVIOUS
  <2>5. QED
    BY <1>5, <1>8, <2>1, <2>2, <2>3, <2>4
<1>10. \A types : \A x \in OfTypes(cmds, types) : x \in 1..N /\ new[x] = cmds[x]
  BY <1>1, <1>5 DEF OfTypes
<1>11. ASSUME NEW types, Once(cmds, OfTypes(cmds, types))
       PROVE  Once(new, OfTypes(new, types))
  <2>1. ASSUME NEW x \in OfTypes(new, types), NEW y \in OfTypes(new, types), new[x].name = new[y].name
        PROVE  x = y
    <3>1. \A z \in 1..N : new[z].name # new[N + 1].name
      BY <1>1, <1>5, <1>8
    <3>2. CASE x \in OfTypes(cmds, types) /\ y \in OfTypes(cmds, types)
      BY <1>10, <1>11, <2>1, <3>2 DEF Once
    <3>3. CASE x \in OfTypes(cmds, types) /\ y = N + 1
      BY <1>10, <2>1, <3>1, <3>3
    <3>4. CASE x = N + 1 /\ y \in OfTypes(cmds, types)
      BY <1>10, <2>1, <3>1, <3>4
    <3>5. QED
      BY <1>9, <3>2, <3>3, <3>4
  <2>2. QED
    BY <2>1 DEF Once
<1>12. Apart(new)
  <2>1. /\ Once(new, OfTypes(new, {"SEGMENT"}))
        /\ Once(new, OfTypes(new, {"LOAD_DYLIB", "ID_DYLIB"}))
    BY <1>7, <1>11 DEF Apart
  <2>2. ASSUME NEW type \in {"LOAD_DYLINKER", "MAIN"} PROVE \A x, y \in OfTypes(new, {type}) : x = y
    <3>1. cmd \notin {type}
      OBVIOUS
    <3>2. \A x : x \in OfTypes(new, {type}) <=> x \in OfTypes(cmds, {type})
      BY <1>9, <3>1
    <3>3. QED
      BY <1>7, <3>2 DEF Apart
  <2>3. ASSUME NEW k \in OfTypes(new, {"SEGMENT"}), Gone(new[k]) PROVE new[k].sects = <<>>
    <3>1. k \in OfTypes(cmds, {"SEGMENT"})
      BY <1>9
    <3>2. new[k] = cmds[k]
      BY <1>10, <3>1
    <3>3. QED
      BY <1>7, <2>3, <3>1, <3>2 DEF Apart
  <2>4. QED
    BY <2>1, <2>2, <2>3 DEF Apart
<1>13. Objects(new, next + 1)
  <2>1. ASSUME NEW k \in DOMAIN new PROVE 0 < new[k].id /\ new[k].id < next + 1
    <3>1. CASE k \in 1..N
      BY <1>5, <1>7, <3>1
    <3>2. CASE k = N + 1
      <4>1. 0 < next
        BY DEF Objects
      <4>2. QED
        BY <1>5, <1>8, <3>2, <4>1
    <3>3. QED
      BY <1>6, <3>1, <3>2
  <2>2. ASSUME NEW j \in DOMAIN new, NEW k \in DOMAIN new, new[j].id = new[k].id PROVE j = k
    <3>1. \A z \in 1..N : new[z].id = cmds[z].id /\ new[z].id # next
      BY <1>5, <1>7
    <3>2. new[N + 1].id = next
      BY <1>5, <1>8
    <3>3. QED
      BY <1>6, <1>7, <2>2, <3>1, <3>2
  <2>3. QED
    BY <1>12, <2>1, <2>2 DEF Objects
<1>14. Kept(cmds, new)
  BY <1>1, <1>5 DEF Kept
<1>15. CommandNames(new) = Append(CommandNames(cmds), [cmd |-> cmd, name |-> name])
  <2>1. PICK m : m = CommandNames(cmds)
    OBVIOUS
  <2>2. m = [k \in 1..N |-> [cmd |-> cmds[k].cmd, name |-> cmds[k].name]]
    BY <1>1, <2>1 DEF CommandNames
  <2>3. PICK D : D = [cmd : Types, name : STRING]
    OBVIOUS
  <2>4. \A k \in 1..N : m[k] \in D
    BY <1>1, <2>2, <2>3, CommandType
  <2>5. m \in Seq(D) /\ Len(m) = N
    <3>1. m = [k \in 1..N |-> m[k]]
      BY <2>2
    <3>2. QED
      BY <2>4, <3>1, Listed
  <2>6. PICK d \in D : d = [cmd |-> cmd, name |-> name]
    <3>1. cmd \in Types
      BY DEF Types
    <3>2. QED
      BY <2>3, <3>1
  <2>7. PICK p : p = Append(m, d)
    OBVIOUS
  <2>8. p \in Seq(D) /\ Len(p) = N + 1 /\ p[N + 1] = d /\ \A k \in 1..N : p[k] = m[k]
    BY <2>5, <2>6, <2>7
  <2>9. PICK q : q = CommandNames(new)
    OBVIOUS
  <2>10. q = [k \in 1..(N + 1) |-> [cmd |-> new[k].cmd, name |-> new[k].name]]
    BY <1>5, <2>9 DEF CommandNames
  <2>11. ASSUME NEW k \in 1..(N + 1) PROVE q[k] = p[k]
    <3>1. CASE k \in 1..N
      BY <1>5, <2>2, <2>8, <2>10, <3>1
    <3>2. CASE k = N + 1
      BY <1>5, <1>8, <2>6, <2>8, <2>10, <3>2
    <3>3. QED
      BY <3>1, <3>2
  <2>12. p = [k \in 1..(N + 1) |-> p[k]]
    BY <2>8
  <2>13. p = q
    BY <2>10, <2>11, <2>12
  <2>14. QED
    BY <2>1, <2>6, <2>7, <2>9, <2>13
<1>16. QED
  BY <1>2, <1>5, <1>12, <1>13, <1>14, <1>15 DEF Commands, OneMore

(* Some of the commands.                                                   *)
LEMMA Remaining ==
  ASSUME NEW cmds \in Commands, NEW next, Objects(cmds, next), NEW S \in SUBSET (DOMAIN cmds),
         NEW new, new = Pick(cmds, S)
  PROVE  /\ new \in Commands /\ Objects(new, next)
         /\ CommandNames(new) = Pick(CommandNames(cmds), S)
         /\ \A k \in S : \E p \in DOMAIN new : new[p] = cmds[k]
         /\ \A p \in DOMAIN new : \E k \in S : new[p] = cmds[k]
<1>1. PICK N \in Nat : DOMAIN cmds = 1..N /\ Len(cmds) = N
  BY CommandType
<1>2. PICK C : C = [id : Nat, cmd : Types, name : STRING, sects : Seq(STRING)]
  OBVIOUS
<1>3. cmds \in Seq(C)
  BY <1>2 DEF Commands
<1>4. /\ new \in Seq(C) /\ DOMAIN new = 1..Cardinality(S) /\ Cardinality(S) \in Nat
      /\ \A n \in DOMAIN new : Nth(S, n) \in S /\ new[n] = cmds[Nth(S, n)] /\ Rank(S, Nth(S, n)) = n
      /\ \A k \in S : Rank(S, k) \in DOMAIN new /\ new[Rank(S, k)] = cmds[k]
  BY <1>3, Picked
<1>5. \A x, y \in DOMAIN new : Nth(S, x) = Nth(S, y) => x = y
  BY <1>4
<1>6. /\ \A k \in DOMAIN cmds : 0 < cmds[k].id /\ cmds[k].id < next
      /\ \A j, k \in DOMAIN cmds : cmds[j].id = cmds[k].id => j = k
      /\ Apart(cmds)
  BY DEF Objects
<1>7. \A types : \A x \in OfTypes(new, types) :
        x \in DOMAIN new /\ Nth(S, x) \in OfTypes(cmds, types) /\ new[x] = cmds[Nth(S, x)]
  BY <1>4 DEF OfTypes
<1>8. Apart(new)
  <2>1. ASSUME NEW types, Once(cmds, OfTypes(cmds, types))
        PROVE  Once(new, OfTypes(new, types))
    BY <1>5, <1>7, <2>1 DEF Once
  <2>2. /\ Once(new, OfTypes(new, {"SEGMENT"}))
        /\ Once(new, OfTypes(new, {"LOAD_DYLIB", "ID_DYLIB"}))
    BY <1>6, <2>1 DEF Apart
  <2>3. ASSUME NEW type \in {"LOAD_DYLINKER", "MAIN"} PROVE \A x, y \in OfTypes(new, {type}) : x = y
    <3>1. \A x, y \in OfTypes(cmds, {type}) : x = y
      BY <1>6 DEF Apart
    <3>2. QED
      BY <1>5, <1>7, <3>1
  <2>4. ASSUME NEW k \in OfTypes(new, {"SEGMENT"}), Gone(new[k]) PROVE new[k].sects = <<>>
    BY <1>6, <1>7, <2>4 DEF Apart
  <2>5. QED
    BY <2>2, <2>3, <2>4 DEF Apart
<1>9. Objects(new, next)
  <2>1. 0 < next
    BY DEF Objects
  <2>2. QED
    BY <1>4, <1>5, <1>6, <1>8, <2>1 DEF Objects
<1>10. CommandNames(new) = Pick(CommandNames(cmds), S)
  <2>1. PICK m : m = CommandNames(cmds)
    OBVIOUS
  <2>2. m = [k \in 1..N |-> [cmd |-> cmds[k].cmd, name |-> cmds[k].name]]
    BY <1>1, <2>1 DEF CommandNames
  <2>3. PICK p : p = Pick(m, S)
    OBVIOUS
  <2>4. p = [n \in 1..Cardinality(S) |-> m[Nth(S, n)]]
    BY <2>3 DEF Pick
  <2>5. PICK q : q = CommandNames(new)
    OBVIOUS
  <2>6. q = [n \in 1..Cardinality(S) |-> [cmd |-> new[n].cmd, name |-> new[n].name]]
    BY <1>4, <2>5 DEF CommandNames
  <2>7. \A n \in 1..Cardinality(S) : p[n] = q[n]
    BY <1>1, <1>4, <2>2, <2>4, <2>6
  <2>8. p = q
    BY <2>4, <2>6, <2>7
  <2>9. QED
    BY <2>1, <2>3, <2>5, <2>8
<1>11. QED
  BY <1>2, <1>4, <1>9, <1>10 DEF Commands

(* Commands that nothing speaks of can go.                                 *)
Idle(c) == (c.cmd = "SEGMENT" /\ Gone(c)) \/ c.cmd \in {"LOAD_DYLINKER", "MAIN"}

LEMMA RemainingKept ==
  ASSUME NEW cmds \in Commands, NEW next, Objects(cmds, next), NEW S \in SUBSET (DOMAIN cmds),
         \A k \in DOMAIN cmds : k \notin S => Idle(cmds[k]),
         NEW new, new = Pick(cmds, S)
  PROVE  Kept(cmds, new)
<1>1. \A k \in S : \E p \in DOMAIN new : new[p] = cmds[k]
  BY Remaining
<1>2. QED
  BY <1>1 DEF Kept, Idle

Bound == [seg : Nat, off : Nat, dylib : Nat, sym : Name, lazy : BOOLEAN]
Entry == [name : Name, kind : Kind, sect : Nat \X Nat]

(* Other binds.                                                            *)
IsWithBinds(a, binds, b) == b = [a EXCEPT !.binds = binds]
HasBinds(a, binds, b) ==
  /\ AInv(b)
  /\ MeaningOfArch(b) = [MeaningOfArch(a) EXCEPT
       !.binds = {BoundInArch(a.cmds, binds[k]) : k \in DOMAIN binds}]

LEMMA WithBinds ==
  ASSUME NEW a, AInv(a), NEW binds \in Seq(Bound), Bindings(a.cmds, binds),
         NEW b, IsWithBinds(a, binds, b)
  PROVE  HasBinds(a, binds, b)
<1>1. b = [a EXCEPT !.binds = binds]
  BY DEF IsWithBinds
<1>2. /\ b.cmds = a.cmds /\ b.next = a.next /\ b.binds = binds /\ b.syms = a.syms /\ b.strs = a.strs
      /\ b.type = a.type /\ b.flags = a.flags /\ b \in Archive
  <2>1. a \in Archive
    BY DEF AInv
  <2>2. PICK C, R, S : /\ C = Seq([id : Nat, cmd : Types, name : STRING, sects : Seq(STRING)])
                       /\ R = Seq(Bound)
                       /\ S = Seq([name : Name, kind : Kind, sect : Nat \X Nat])
    OBVIOUS
  <2>3. Archive = [cmds : C, next : Nat, binds : R, syms : S, strs : Seq(Name), counts : [1..3 -> Nat],
                   indirect : Seq(Nat), type : {"EXECUTE", "DYLIB"}, flags : SUBSET HeaderFlags]
    BY <2>2 DEF Archive, Bound
  <2>4. binds \in R
    BY <2>2
  <2>5. QED
    BY <1>1, <2>1, <2>3, <2>4
<1>3. AInv(b)
  BY <1>2 DEF AInv
<1>4. PICK X : X = {BoundInArch(a.cmds, a.binds[k]) : k \in DOMAIN a.binds}
  OBVIOUS
<1>5. PICK Y : Y = {SymbolInArch(a.cmds, a.syms[k]) : k \in DOMAIN a.syms}
  OBVIOUS
<1>6. PICK Z : Z = {BoundInArch(a.cmds, binds[k]) : k \in DOMAIN binds}
  OBVIOUS
<1>7. MeaningOfArch(a) = [cmds |-> CommandNames(a.cmds), binds |-> X, syms |-> Y,
                          type |-> a.type, flags |-> a.flags]
  BY <1>4, <1>5 DEF MeaningOfArch
<1>8. MeaningOfArch(b) = [cmds |-> CommandNames(b.cmds), binds |-> Z, syms |-> Y,
                          type |-> b.type, flags |-> b.flags]
  BY <1>2, <1>5, <1>6 DEF MeaningOfArch
<1>9. MeaningOfArch(b) = [MeaningOfArch(a) EXCEPT !.binds = Z]
  BY <1>2, <1>7, <1>8
<1>10. QED
  BY <1>3, <1>6, <1>9 DEF HasBinds

(* Other symbols, strings, type and flags.                                 *)
IsWithSymbols(a, syms, strs, type, flags, b) ==
  b = [a EXCEPT !.syms = syms, !.strs = strs, !.type = type, !.flags = flags]
HasSymbols(a, syms, type, flags, b) ==
  /\ AInv(b) /\ b.syms = syms /\ b.indirect = a.indirect
  /\ MeaningOfArch(b) =
       [cmds |-> MeaningOfArch(a).cmds, binds |-> MeaningOfArch(a).binds,
        syms |-> {SymbolInArch(a.cmds, syms[k]) : k \in DOMAIN syms},
        type |-> type, flags |-> flags]

LEMMA WithSymbols ==
  ASSUME NEW a, AInv(a), NEW syms \in Seq(Entry), NEW strs \in Seq(Name),
         Described(a.cmds, syms, strs),
         NEW type \in {"EXECUTE", "DYLIB"}, NEW flags \in SUBSET HeaderFlags,
         NEW b, IsWithSymbols(a, syms, strs, type, flags, b)
  PROVE  HasSymbols(a, syms, type, flags, b)
<1>1. b = [a EXCEPT !.syms = syms, !.strs = strs, !.type = type, !.flags = flags]
  BY DEF IsWithSymbols
<1>2. /\ b.cmds = a.cmds /\ b.next = a.next /\ b.binds = a.binds /\ b.syms = syms /\ b.strs = strs
      /\ b.type = type /\ b.flags = flags /\ b.indirect = a.indirect /\ b \in Archive
  <2>1. a \in Archive
    BY DEF AInv
  <2>2. PICK C, R, S : /\ C = Seq([id : Nat, cmd : Types, name : STRING, sects : Seq(STRING)])
                       /\ R = Seq([seg : Nat, off : Nat, dylib : Nat, sym : Name, lazy : BOOLEAN])
                       /\ S = Seq(Entry)
    OBVIOUS
  <2>3. Archive = [cmds : C, next : Nat, binds : R, syms : S, strs : Seq(Name), counts : [1..3 -> Nat],
                   indirect : Seq(Nat), type : {"EXECUTE", "DYLIB"}, flags : SUBSET HeaderFlags]
    BY <2>2 DEF Archive, Entry
  <2>4. syms \in S
    BY <2>2
  <2>5. QED
    BY <1>1, <2>1, <2>3, <2>4
<1>3. AInv(b)
  BY <1>2 DEF AInv
<1>4. PICK X : X = {BoundInArch(a.cmds, a.binds[k]) : k \in DOMAIN a.binds}
  OBVIOUS
<1>5. PICK Y : Y = {SymbolInArch(a.cmds, a.syms[k]) : k \in DOMAIN a.syms}
  OBVIOUS
<1>6. PICK Z : Z = {SymbolInArch(a.cmds, syms[k]) : k \in DOMAIN syms}
  OBVIOUS
<1>7. MeaningOfArch(a) = [cmds |-> CommandNames(a.cmds), binds |-> X, syms |-> Y,
                          type |-> a.type, flags |-> a.flags]
  BY <1>4, <1>5 DEF MeaningOfArch
<1>8. MeaningOfArch(b) = [cmds |-> CommandNames(b.cmds), binds |-> X, syms |-> Z,
                          type |-> b.type, flags |-> b.flags]
  BY <1>2, <1>4, <1>6 DEF MeaningOfArch
<1>9. MeaningOfArch(b) = [cmds |-> MeaningOfArch(a).cmds, binds |-> MeaningOfArch(a).binds,
                          syms |-> Z, type |-> type, flags |-> flags]
  BY <1>2, <1>7, <1>8
<1>10. QED
  BY <1>2, <1>3, <1>6, <1>9 DEF HasSymbols

LEMMA BindType ==
  ASSUME NEW a, AInv(a)
  PROVE  /\ a.cmds \in Commands /\ a.next \in Nat /\ Objects(a.cmds, a.next)
         /\ a.binds \in Seq(Bound) /\ Bindings(a.cmds, a.binds)
         /\ a.syms \in Seq(Entry) /\ Described(a.cmds, a.syms, a.strs)
         /\ \E M \in Nat : DOMAIN a.binds = 1..M /\ Len(a.binds) = M
         /\ \A k \in DOMAIN a.binds : a.binds[k] \in Bound
<1>1. a.binds \in Seq(Bound) /\ a.syms \in Seq(Entry) /\ a.cmds \in Commands
  BY Typed DEF Bound, Entry, Commands
<1>2. QED
  BY <1>1, Elements, Length, Typed DEF AInv

(* One library gets a new name.                                            *)
NewName(cmds, k, name, new) ==
  /\ new \in Commands /\ DOMAIN new = DOMAIN cmds
  /\ \A j \in DOMAIN cmds :
       /\ new[j].id = cmds[j].id /\ new[j].cmd = cmds[j].cmd /\ new[j].sects = cmds[j].sects
       /\ new[j].name = IF j = k THEN name ELSE cmds[j].name

LEMMA Relabelled ==
  ASSUME NEW cmds \in Commands, NEW k \in DOMAIN cmds, NEW name \in STRING
  PROVE  NewName(cmds, k, name, [cmds EXCEPT ![k].name = name])
<1>1. PICK N \in Nat : DOMAIN cmds = 1..N /\ Len(cmds) = N
  BY CommandType
<1>2. PICK C : C = [id : Nat, cmd : Types, name : STRING, sects : Seq(STRING)]
  OBVIOUS
<1>3. cmds \in Seq(C)
  BY <1>2 DEF Commands
<1>4. \A j \in DOMAIN cmds : cmds[j] \in C
  BY <1>3, Elements
<1>5. PICK r : r = [cmds[k] EXCEPT !.name = name]
  OBVIOUS
<1>6. PICK new : new = [cmds EXCEPT ![k] = r]
  OBVIOUS
<1>7. DOMAIN new = 1..N /\ new = [j \in 1..N |-> new[j]]
  BY <1>1, <1>6
<1>8. r \in C /\ r.id = cmds[k].id /\ r.cmd = cmds[k].cmd /\ r.sects = cmds[k].sects /\ r.name = name
  <2>1. PICK c \in C : c = cmds[k]
    BY <1>4
  <2>2. r = [c EXCEPT !.name = name]
    BY <1>5, <2>1
  <2>3. QED
    BY <1>2, <2>1, <2>2
<1>9. \A j \in 1..N : new[j] = IF j = k THEN r ELSE cmds[j]
  BY <1>1, <1>6
<1>10. new \in Seq(C)
  <2>1. \A j \in 1..N : new[j] \in C
    BY <1>1, <1>4, <1>8, <1>9
  <2>2. QED
    BY <1>7, <2>1, Listed
<1>11. NewName(cmds, k, name, new)
  BY <1>1, <1>2, <1>7, <1>8, <1>9, <1>10 DEF NewName, Commands
<1>12. new = [cmds EXCEPT ![k].name = name]
  BY <1>5, <1>6
<1>13. QED
  BY <1>11, <1>12

LEMMA Renamed ==
  ASSUME NEW cmds \in Commands, NEW next, Objects(cmds, next), NEW k \in DOMAIN cmds, IsDylib(cmds[k]),
         NEW name \in STRING, \A j \in DOMAIN cmds : cmds[j].name # name,
         NEW new, NewName(cmds, k, name, new)
  PROVE  Objects(new, next) /\ CommandNames(new) = [CommandNames(cmds) EXCEPT ![k].name = name]
<1>1. PICK N \in Nat : DOMAIN cmds = 1..N /\ Len(cmds) = N
  BY CommandType
<1>2. DOMAIN new = 1..N
  BY <1>1 DEF NewName
<1>3. ASSUME NEW j \in DOMAIN cmds
      PROVE  /\ new[j].id = cmds[j].id /\ new[j].cmd = cmds[j].cmd /\ new[j].sects = cmds[j].sects
             /\ new[j].name = IF j = k THEN name ELSE cmds[j].name
  BY DEF NewName
<1>4. \A types : OfTypes(new, types) = OfTypes(cmds, types)
  BY <1>1, <1>2, <1>3 DEF OfTypes
<1>5. \A types : \A x \in OfTypes(cmds, types) : x \in DOMAIN cmds /\ cmds[x].cmd \in types
  BY DEF OfTypes
<1>6. cmds[k].cmd # "SEGMENT"
  BY DEF IsDylib
<1>7. Apart(cmds) /\ \A x, y \in DOMAIN cmds : cmds[x].id = cmds[y].id => x = y
  BY DEF Objects
<1>8. Apart(new)
  <2>1. Once(new, OfTypes(new, {"SEGMENT"}))
    <3>1. \A x \in OfTypes(cmds, {"SEGMENT"}) : new[x].name = cmds[x].name
      BY <1>3, <1>5, <1>6
    <3>2. QED
      BY <1>4, <1>7, <3>1 DEF Apart, Once
  <2>2. Once(new, OfTypes(new, {"LOAD_DYLIB", "ID_DYLIB"}))
    <3>1. PICK S : S = OfTypes(cmds, {"LOAD_DYLIB", "ID_DYLIB"})
      OBVIOUS
    <3>2. ASSUME NEW x \in S, NEW y \in S, new[x].name = new[y].name PROVE x = y
      <4>1. x \in DOMAIN cmds /\ y \in DOMAIN cmds
        BY <1>5, <3>1
      <4>2. cmds[x].name # name /\ cmds[y].name # name
        BY <4>1
      <4>3. (cmds[x].name = cmds[y].name) => x = y
        BY <1>7, <3>1 DEF Apart, Once
      <4>4. QED
        BY <1>3, <3>2, <4>1, <4>2, <4>3
    <3>3. QED
      BY <1>4, <3>1, <3>2 DEF Once
  <2>3. ASSUME NEW type \in {"LOAD_DYLINKER", "MAIN"} PROVE \A x, y \in OfTypes(new, {type}) : x = y
    BY <1>4, <1>7 DEF Apart
  <2>4. ASSUME NEW j \in OfTypes(new, {"SEGMENT"}), Gone(new[j]) PROVE new[j].sects = <<>>
    <3>1. j \in OfTypes(cmds, {"SEGMENT"}) /\ j \in DOMAIN cmds /\ j # k
      <4>1. j \in OfTypes(cmds, {"SEGMENT"})
        BY <1>4
      <4>2. j \in DOMAIN cmds /\ cmds[j].cmd \in {"SEGMENT"}
        BY <1>5, <4>1
      <4>3. QED
        BY <1>6, <4>1, <4>2
    <3>2. new[j].name = cmds[j].name /\ new[j].sects = cmds[j].sects
      BY <1>3, <3>1
    <3>3. Gone(cmds[j])
      BY <2>4, <3>2 DEF Gone
    <3>4. QED
      BY <1>7, <3>1, <3>2, <3>3 DEF Apart
  <2>5. QED
    BY <2>1, <2>2, <2>3, <2>4 DEF Apart
<1>9. Objects(new, next)
  BY <1>1, <1>2, <1>3, <1>8 DEF Objects
<1>10. CommandNames(new) = [CommandNames(cmds) EXCEPT ![k].name = name]
  <2>1. PICK m : m = CommandNames(cmds)
    OBVIOUS
  <2>2. m = [j \in 1..N |-> [cmd |-> cmds[j].cmd, name |-> cmds[j].name]]
    BY <1>1, <2>1 DEF CommandNames
  <2>3. PICK q : q = CommandNames(new)
    OBVIOUS
  <2>4. q = [j \in 1..N |-> [cmd |-> new[j].cmd, name |-> new[j].name]]
    BY <1>2, <2>3 DEF CommandNames
  <2>5. PICK p : p = [m EXCEPT ![k].name = name]
    OBVIOUS
  <2>6. ASSUME NEW j \in 1..N PROVE p[j] = q[j]
    <3>1. CASE j = k
      <4>1. p[k] = [m[k] EXCEPT !.name = name]
        BY <1>1, <2>2, <2>5
      <4>2. m[k] = [cmd |-> cmds[k].cmd, name |-> cmds[k].name]
        BY <1>1, <2>2
      <4>3. p[k] = [cmd |-> cmds[k].cmd, name |-> name]
        BY <4>1, <4>2
      <4>4. q[k] = [cmd |-> cmds[k].cmd, name |-> name]
        BY <1>1, <1>3, <2>4
      <4>5. QED
        BY <3>1, <4>3, <4>4
    <3>2. CASE j # k
      BY <1>1, <1>3, <2>2, <2>4, <2>5, <3>2
    <3>3. QED
      BY <3>1, <3>2
  <2>7. p = [j \in 1..N |-> p[j]]
    BY <2>2, <2>5
  <2>8. p = q
    BY <2>4, <2>6, <2>7
  <2>9. QED
    BY <2>1, <2>3, <2>5, <2>8
<1>11. QED
  BY <1>9, <1>10

(* Symbols and what indirect symbols refer to are untouched.               *)
SameSymbols(a, b) == b.syms = a.syms /\ b.indirect = a.indirect

IsExtended(a, e, b) == b = [a EXCEPT !.cmds = Append(@, e), !.next = @ + 1]
HasMore(a, cmd, name, b) ==
  /\ AInv(b) /\ SameSymbols(a, b)
  /\ MeaningOfArch(b) = [MeaningOfArch(a) EXCEPT !.cmds = Append(@, [cmd |-> cmd, name |-> name])]

LEMMA InsertsDylib ==
  ASSUME NEW a, AInv(a), NEW cmd \in {"LOAD_DYLIB", "ID_DYLIB"}, NEW name \in STRING,
         \A k \in DOMAIN a.cmds : a.cmds[k].name # name,
         NEW e, e = [id |-> a.next, cmd |-> cmd, name |-> name, sects |-> <<>>],
         NEW b, IsExtended(a, e, b)
  PROVE  HasMore(a, cmd, name, b)
<1>1. PICK cmds, next : cmds = Append(a.cmds, e) /\ next = a.next + 1
  OBVIOUS
<1>2. a.cmds \in Commands /\ a.next \in Nat /\ Objects(a.cmds, a.next) /\ next \in Nat
  BY <1>1, BindType
<1>3. /\ cmds \in Commands /\ Objects(cmds, next) /\ Kept(a.cmds, cmds)
      /\ CommandNames(cmds) = Append(CommandNames(a.cmds), [cmd |-> cmd, name |-> name])
  <2>1. OneMore(a.cmds, a.next, cmd, name, cmds)
    BY <1>1, <1>2, Appended
  <2>2. QED
    BY <1>1, <2>1 DEF OneMore
<1>4. IsWithCommands(a, cmds, next, b)
  BY <1>1 DEF IsWithCommands, IsExtended
<1>5. HasCommands(a, cmds, b)
  BY <1>2, <1>3, <1>4, WithCommands
<1>6. MeaningOfArch(a).cmds = CommandNames(a.cmds)
  BY DEF MeaningOfArch
<1>7. PICK M : M = MeaningOfArch(a)
  OBVIOUS
<1>8. MeaningOfArch(b) = [M EXCEPT !.cmds = Append(M.cmds, [cmd |-> cmd, name |-> name])]
  BY <1>3, <1>5, <1>6, <1>7 DEF HasCommands
<1>9. QED
  BY <1>5, <1>7, <1>8 DEF HasCommands, SameSymbols, HasMore

LEMMA RemovesCommands ==
  ASSUME NEW a, AInv(a), NEW S \in SUBSET (DOMAIN a.cmds),
         \A k \in DOMAIN a.cmds : k \notin S => Idle(a.cmds[k]),
         NEW b, b = [a EXCEPT !.cmds = Pick(a.cmds, S)]
  PROVE  /\ AInv(b) /\ SameSymbols(a, b)
         /\ MeaningOfArch(b) = [MeaningOfArch(a) EXCEPT !.cmds = Pick(CommandNames(a.cmds), S)]
<1>1. PICK cmds : cmds = Pick(a.cmds, S)
  OBVIOUS
<1>2. a.cmds \in Commands /\ a.next \in Nat /\ Objects(a.cmds, a.next) /\ a \in Archive
  BY BindType DEF AInv
<1>3. /\ cmds \in Commands /\ Objects(cmds, a.next)
      /\ CommandNames(cmds) = Pick(CommandNames(a.cmds), S)
  BY <1>1, <1>2, Remaining
<1>4. Kept(a.cmds, cmds)
  BY <1>1, <1>2, RemainingKept
<1>5. IsWithCommands(a, cmds, a.next, b)
  <2>1. b = [a EXCEPT !.cmds = cmds]
    BY <1>1
  <2>2. PICK c : c = [a EXCEPT !.cmds = cmds, !.next = a.next]
    OBVIOUS
  <2>3. b = c
    BY <1>2, <2>1, <2>2 DEF Archive
  <2>4. QED
    BY <2>2, <2>3 DEF IsWithCommands
<1>6. HasCommands(a, cmds, b)
  BY <1>2, <1>3, <1>4, <1>5, WithCommands
<1>7. QED
  BY <1>3, <1>6 DEF HasCommands, SameSymbols

(* A bind follows a library that is renamed.                               *)
ToLibrary(x, old, name) == IF x.dylib = old THEN [x EXCEPT !.dylib = name] ELSE x

IsRenamed(a, k, name, b) == b = [a EXCEPT !.cmds[k].name = name]
HasRenamed(a, k, name, b) ==
  /\ AInv(b) /\ SameSymbols(a, b)
  /\ MeaningOfArch(b) =
       [MeaningOfArch(a) EXCEPT
          !.cmds[k].name = name,
          !.binds = {IF x.dylib = MeaningOfArch(a).cmds[k].name THEN [x EXCEPT !.dylib = name] ELSE x
                       : x \in @}]

LEMMA RenamesDylib ==
  ASSUME NEW a, AInv(a), NEW k \in DOMAIN a.cmds, IsDylib(a.cmds[k]),
         NEW name \in STRING, \A j \in DOMAIN a.cmds : a.cmds[j].name # name,
         NEW b, IsRenamed(a, k, name, b)
  PROVE  HasRenamed(a, k, name, b)
<1>1. PICK cmds : cmds = [a.cmds EXCEPT ![k].name = name]
  OBVIOUS
<1>2. a.cmds \in Commands /\ a.next \in Nat /\ Objects(a.cmds, a.next) /\ a \in Archive
  BY BindType DEF AInv
<1>3. NewName(a.cmds, k, name, cmds)
  BY <1>1, <1>2, Relabelled
<1>4. /\ cmds \in Commands /\ DOMAIN cmds = DOMAIN a.cmds
      /\ \A j \in DOMAIN a.cmds :
           /\ cmds[j].id = a.cmds[j].id /\ cmds[j].cmd = a.cmds[j].cmd /\ cmds[j].sects = a.cmds[j].sects
           /\ cmds[j].name = IF j = k THEN name ELSE a.cmds[j].name
  BY <1>3 DEF NewName
<1>5. Objects(cmds, a.next) /\ CommandNames(cmds) = [CommandNames(a.cmds) EXCEPT ![k].name = name]
  BY <1>2, <1>3, Renamed
<1>6. a.cmds[k].cmd \in {"LOAD_DYLIB", "ID_DYLIB"}
  BY DEF IsDylib
<1>7. Bindings(a.cmds, a.binds) /\ Described(a.cmds, a.syms, a.strs)
  BY DEF AInv
<1>8. ASSUME NEW j \in DOMAIN a.binds
      PROVE  /\ \E m \in DOMAIN cmds : cmds[m].id = a.binds[j].seg /\ cmds[m].cmd = "SEGMENT" /\ ~Gone(cmds[m])
             /\ \E m \in DOMAIN cmds : cmds[m].id = a.binds[j].dylib /\ cmds[m].cmd = "LOAD_DYLIB"
             /\ BoundInArch(cmds, a.binds[j]) = ToLibrary(BoundInArch(a.cmds, a.binds[j]), a.cmds[k].name, name)
  <2>1. PICK m \in DOMAIN a.cmds :
          a.cmds[m].id = a.binds[j].seg /\ a.cmds[m].cmd = "SEGMENT" /\ ~Gone(a.cmds[m])
    BY <1>7 DEF Bindings
  <2>2. PICK l \in DOMAIN a.cmds : a.cmds[l].id = a.binds[j].dylib /\ a.cmds[l].cmd = "LOAD_DYLIB"
    BY <1>7 DEF Bindings
  <2>3. m # k /\ cmds[m].name = a.cmds[m].name
    BY <1>4, <1>6, <2>1
  <2>4. m \in DOMAIN cmds /\ l \in DOMAIN cmds /\ cmds[m].id = a.binds[j].seg /\ cmds[l].id = a.binds[j].dylib
        /\ cmds[m].cmd = "SEGMENT" /\ cmds[l].cmd = "LOAD_DYLIB"
    BY <1>4, <2>1, <2>2
  <2>5. ~Gone(cmds[m])
    BY <2>1, <2>3 DEF Gone
  <2>6. Command(a.cmds, a.binds[j].seg) = a.cmds[m] /\ Command(a.cmds, a.binds[j].dylib) = a.cmds[l]
    BY <1>2, <2>1, <2>2, CommandIs
  <2>7. Command(cmds, a.binds[j].seg) = cmds[m] /\ Command(cmds, a.binds[j].dylib) = cmds[l]
    BY <1>5, <2>4, CommandIs
  <2>8. a.cmds[l].name = a.cmds[k].name <=> l = k
    <3>1. Once(a.cmds, OfTypes(a.cmds, {"LOAD_DYLIB", "ID_DYLIB"}))
      BY <1>2 DEF Objects, Apart
    <3>2. /\ l \in OfTypes(a.cmds, {"LOAD_DYLIB", "ID_DYLIB"})
          /\ k \in OfTypes(a.cmds, {"LOAD_DYLIB", "ID_DYLIB"})
      BY <1>6, <2>2 DEF OfTypes
    <3>3. QED
      BY <3>1, <3>2 DEF Once
  <2>9. PICK x : x = BoundInArch(a.cmds, a.binds[j])
    OBVIOUS
  <2>10. x = [seg |-> a.cmds[m].name, off |-> a.binds[j].off, dylib |-> a.cmds[l].name,
              sym |-> a.binds[j].sym, lazy |-> a.binds[j].lazy]
    BY <2>6, <2>9 DEF BoundInArch
  <2>11. BoundInArch(cmds, a.binds[j]) =
           [seg |-> a.cmds[m].name, off |-> a.binds[j].off, dylib |-> cmds[l].name,
            sym |-> a.binds[j].sym, lazy |-> a.binds[j].lazy]
    BY <2>3, <2>7 DEF BoundInArch
  <2>12. x.dylib = a.cmds[k].name => cmds[l].name = name
    BY <1>4, <2>8, <2>10
  <2>13. x.dylib # a.cmds[k].name => cmds[l].name = a.cmds[l].name
    BY <1>4, <2>8, <2>10
  <2>14. BoundInArch(cmds, a.binds[j]) = IF x.dylib = a.cmds[k].name THEN [x EXCEPT !.dylib = name] ELSE x
    BY <2>10, <2>11, <2>12, <2>13
  <2>15. QED
    BY <2>4, <2>5, <2>9, <2>14 DEF ToLibrary
<1>9. Bindings(cmds, a.binds)
  BY <1>7, <1>8 DEF Bindings
<1>10. ASSUME NEW j \in DOMAIN a.syms
       PROVE  /\ \/ a.syms[j].sect = NoSect
                 \/ \E m \in DOMAIN cmds :
                      /\ cmds[m].id = a.syms[j].sect[1] /\ cmds[m].cmd = "SEGMENT"
                      /\ a.syms[j].sect[2] \in DOMAIN cmds[m].sects
              /\ SymbolInArch(cmds, a.syms[j]) = SymbolInArch(a.cmds, a.syms[j])
  <2>1. CASE a.syms[j].sect = NoSect
    BY <2>1 DEF SymbolInArch
  <2>2. CASE a.syms[j].sect # NoSect
    <3>1. PICK m \in DOMAIN a.cmds :
            /\ a.cmds[m].id = a.syms[j].sect[1] /\ a.cmds[m].cmd = "SEGMENT"
            /\ a.syms[j].sect[2] \in DOMAIN a.cmds[m].sects
      BY <1>7, <2>2 DEF Described
    <3>2. m # k /\ m \in DOMAIN cmds /\ cmds[m].id = a.syms[j].sect[1] /\ cmds[m].cmd = "SEGMENT"
          /\ cmds[m].name = a.cmds[m].name /\ cmds[m].sects = a.cmds[m].sects
      BY <1>4, <1>6, <3>1
    <3>3. Command(a.cmds, a.syms[j].sect[1]) = a.cmds[m]
      BY <1>2, <3>1, CommandIs
    <3>4. Command(cmds, a.syms[j].sect[1]) = cmds[m]
      BY <1>5, <3>2, CommandIs
    <3>5. SymbolInArch(cmds, a.syms[j]) = SymbolInArch(a.cmds, a.syms[j])
      BY <3>2, <3>3, <3>4 DEF SymbolInArch
    <3>6. QED
      BY <3>1, <3>2, <3>5
  <2>3. QED
    BY <2>1, <2>2
<1>11. Described(cmds, a.syms, a.strs)
  BY <1>7, <1>10 DEF Described
<1>12. /\ b.cmds = cmds /\ b.next = a.next /\ b.binds = a.binds /\ b.syms = a.syms /\ b.strs = a.strs
       /\ b.type = a.type /\ b.flags = a.flags /\ b.indirect = a.indirect /\ b \in Archive
  <2>1. PICK R, S : /\ R = Seq([seg : Nat, off : Nat, dylib : Nat, sym : Name, lazy : BOOLEAN])
                    /\ S = Seq([name : Name, kind : Kind, sect : Nat \X Nat])
    OBVIOUS
  <2>2. Archive = [cmds : Commands, next : Nat, binds : R, syms : S, strs : Seq(Name), counts : [1..3 -> Nat],
                   indirect : Seq(Nat), type : {"EXECUTE", "DYLIB"}, flags : SUBSET HeaderFlags]
    BY <2>1 DEF Archive, Commands
  <2>3. b = [a EXCEPT !.cmds = cmds]
    BY <1>1 DEF IsRenamed
  <2>4. QED
    BY <1>2, <1>4, <2>2, <2>3
<1>13. AInv(b)
  BY <1>5, <1>9, <1>11, <1>12 DEF AInv
<1>14. PICK X : X = {BoundInArch(a.cmds, a.binds[j]) : j \in DOMAIN a.binds}
  OBVIOUS
<1>15. PICK Z : Z = {ToLibrary(x, a.cmds[k].name, name) : x \in X}
  OBVIOUS
<1>16. {BoundInArch(cmds, a.binds[j]) : j \in DOMAIN a.binds} = Z
  <2>1. \A j \in DOMAIN a.binds : BoundInArch(a.cmds, a.binds[j]) \in X
    BY <1>14
  <2>2. \A x \in X : \E j \in DOMAIN a.binds : x = BoundInArch(a.cmds, a.binds[j])
    BY <1>14
  <2>3. QED
    BY <1>8, <1>15, <2>1, <2>2
<1>17. PICK Y : Y = {SymbolInArch(a.cmds, a.syms[j]) : j \in DOMAIN a.syms}
  OBVIOUS
<1>18. {SymbolInArch(cmds, a.syms[j]) : j \in DOMAIN a.syms} = Y
  BY <1>10, <1>17
<1>19. MeaningOfArch(a) = [cmds |-> CommandNames(a.cmds), binds |-> X, syms |-> Y,
                           type |-> a.type, flags |-> a.flags]
  BY <1>14, <1>17 DEF MeaningOfArch
<1>20. MeaningOfArch(b) = [cmds |-> CommandNames(cmds), binds |-> Z, syms |-> Y,
                           type |-> a.type, flags |-> a.flags]
  BY <1>12, <1>16, <1>18 DEF MeaningOfArch
<1>21. CommandNames(a.cmds)[k].name = a.cmds[k].name
  BY DEF CommandNames
<1>22. PICK c : c = [CommandNames(a.cmds) EXCEPT ![k].name = name]
  OBVIOUS
<1>23. MeaningOfArch(b) =
         [MeaningOfArch(a) EXCEPT
            !.cmds[k].name = name,
            !.binds = {IF x.dylib = MeaningOfArch(a).cmds[k].name THEN [x EXCEPT !.dylib = name] ELSE x
                         : x \in @}]
  <2>1. PICK M : M = MeaningOfArch(a)
    OBVIOUS
  <2>2. M.cmds = CommandNames(a.cmds) /\ M.binds = X /\ M.cmds[k].name = a.cmds[k].name
    BY <1>19, <1>21, <2>1
  <2>3. {IF x.dylib = M.cmds[k].name THEN [x EXCEPT !.dylib = name] ELSE x : x \in M.binds} = Z
    BY <1>15, <2>2 DEF ToLibrary
  <2>4. PICK L : L = [M EXCEPT !.cmds[k].name = name, !.binds = Z]
    OBVIOUS
  <2>5. L = [cmds |-> c, binds |-> Z, syms |-> Y, type |-> a.type, flags |-> a.flags]
    <3>1. PICK c0, t, g : c0 = CommandNames(a.cmds) /\ t = a.type /\ g = a.flags
      OBVIOUS
    <3>2. M = [cmds |-> c0, binds |-> X, syms |-> Y, type |-> t, flags |-> g]
      BY <1>19, <2>1, <3>1
    <3>3. L = [cmds |-> [c0 EXCEPT ![k].name = name], binds |-> Z, syms |-> Y, type |-> t, flags |-> g]
      BY <2>4, <3>2
    <3>4. QED
      BY <1>22, <3>1, <3>3
  <2>6. MeaningOfArch(b) = L
    BY <1>5, <1>20, <1>22, <2>5
  <2>7. L = [M EXCEPT !.cmds[k].name = name,
                      !.binds = {IF x.dylib = M.cmds[k].name THEN [x EXCEPT !.dylib = name] ELSE x : x \in @}]
    BY <2>3, <2>4
  <2>8. QED
    BY <2>1, <2>6, <2>7
<1>24. QED
  BY <1>12, <1>13, <1>23 DEF SameSymbols, HasRenamed

-----------------------------------------------------------------------------
(* A place is bound once, and so is its name.                              *)
LEMMA BoundOnce ==
  ASSUME NEW a, AInv(a), NEW j \in DOMAIN a.binds, NEW k \in DOMAIN a.binds,
         BoundInArch(a.cmds, a.binds[j]) = BoundInArch(a.cmds, a.binds[k])
  PROVE  j = k
<1>1. Objects(a.cmds, a.next) /\ Bindings(a.cmds, a.binds)
  BY DEF AInv
<1>2. PICK m \in DOMAIN a.cmds : a.cmds[m].id = a.binds[j].seg /\ a.cmds[m].cmd = "SEGMENT"
  BY <1>1 DEF Bindings
<1>3. PICK l \in DOMAIN a.cmds : a.cmds[l].id = a.binds[k].seg /\ a.cmds[l].cmd = "SEGMENT"
  BY <1>1 DEF Bindings
<1>4. Command(a.cmds, a.binds[j].seg) = a.cmds[m] /\ Command(a.cmds, a.binds[k].seg) = a.cmds[l]
  BY <1>1, <1>2, <1>3, CommandIs
<1>5. /\ a.cmds[m].name = a.cmds[l].name /\ a.binds[j].off = a.binds[k].off
      /\ a.binds[j].lazy = a.binds[k].lazy
  BY <1>4 DEF BoundInArch
<1>6. m = l
  <2>1. Once(a.cmds, OfTypes(a.cmds, {"SEGMENT"}))
    BY <1>1 DEF Objects, Apart
  <2>2. m \in OfTypes(a.cmds, {"SEGMENT"}) /\ l \in OfTypes(a.cmds, {"SEGMENT"})
    BY <1>2, <1>3 DEF OfTypes
  <2>3. QED
    BY <1>5, <2>1, <2>2 DEF Once
<1>7. QED
  BY <1>1, <1>2, <1>3, <1>5, <1>6 DEF Bindings

(* One bind goes to another symbol of another library.                     *)
IsRebound(a, k, dylib, sym, b) ==
  b = [a EXCEPT !.binds = [a.binds EXCEPT ![k] = [a.binds[k] EXCEPT !.dylib = dylib, !.sym = sym]]]

Elsewhere(x, dylib, sym) == [x EXCEPT !.dylib = dylib, !.sym = sym]

IsBoundTo(a, k, dylib, sym, b) == b = [a EXCEPT !.binds[k].dylib = dylib, !.binds[k].sym = sym]

LEMMA NestedRebound ==
  ASSUME NEW a \in Archive, NEW k \in DOMAIN a.binds, NEW dylib, NEW sym,
         NEW b, IsBoundTo(a, k, dylib, sym, b)
  PROVE  IsRebound(a, k, dylib, sym, b)
<1>1. b = [a EXCEPT !.binds[k].dylib = dylib, !.binds[k].sym = sym]
  BY DEF IsBoundTo
<1>2. PICK r : r = a.binds[k]
  OBVIOUS
<1>3. PICK e, d : e = [r EXCEPT !.dylib = dylib, !.sym = sym] /\ d = [r EXCEPT !.dylib = dylib]
  OBVIOUS
<1>4. e = [d EXCEPT !.sym = sym]
  BY <1>3
<1>5. PICK binds, before : binds = [a.binds EXCEPT ![k] = e] /\ before = [a.binds EXCEPT ![k] = d]
  OBVIOUS
<1>6. before[k] = d /\ [before EXCEPT ![k] = e] = binds
  BY <1>5
<1>7. PICK c : c = [a EXCEPT !.binds = before]
  OBVIOUS
<1>8. c = [a EXCEPT !.binds[k].dylib = dylib]
  BY <1>2, <1>3, <1>5, <1>7
<1>9. b = [c EXCEPT !.binds[k].sym = sym]
  BY <1>1, <1>8
<1>10. c.binds = before
  BY <1>7 DEF Archive
<1>11. b = [c EXCEPT !.binds = binds]
  BY <1>4, <1>6, <1>9, <1>10
<1>12. b = [a EXCEPT !.binds = binds]
  BY <1>7, <1>11 DEF Archive
<1>13. QED
  BY <1>2, <1>3, <1>5, <1>12 DEF IsRebound

LEMMA IsElsewhere ==
  ASSUME NEW p, NEW o, NEW q, NEW s, NEW l, NEW dylib, NEW sym,
         NEW x, x = [seg |-> p, off |-> o, dylib |-> q, sym |-> s, lazy |-> l]
  PROVE  Elsewhere(x, dylib, sym) = [seg |-> p, off |-> o, dylib |-> dylib, sym |-> sym, lazy |-> l]
<1>1. PICK y : y = [x EXCEPT !.dylib = dylib, !.sym = sym]
  OBVIOUS
<1>2. y = [seg |-> p, off |-> o, dylib |-> dylib, sym |-> sym, lazy |-> l]
  BY <1>1, Zenon
<1>3. QED
  BY <1>1, <1>2 DEF Elsewhere

LEMMA BindsElsewhere ==
  ASSUME NEW a, AInv(a), NEW k \in DOMAIN a.binds,
         NEW m \in DOMAIN a.cmds, a.cmds[m].cmd = "LOAD_DYLIB", NEW sym \in Name,
         NEW b, IsRebound(a, k, a.cmds[m].id, sym, b),
         NEW x, x = BoundInArch(a.cmds, a.binds[k])
  PROVE  /\ AInv(b) /\ SameSymbols(a, b) /\ x \in MeaningOfArch(a).binds
         /\ MeaningOfArch(b) =
              [MeaningOfArch(a) EXCEPT
                 !.binds = (@ \ {x}) \cup {Elsewhere(x, a.cmds[m].name, sym)}]
<1>1. PICK e : e = [a.binds[k] EXCEPT !.dylib = a.cmds[m].id, !.sym = sym]
  OBVIOUS
<1>2. /\ a.cmds \in Commands /\ Objects(a.cmds, a.next) /\ Bindings(a.cmds, a.binds)
      /\ a.binds \in Seq(Bound) /\ a.binds[k] \in Bound
  BY BindType
<1>3. a.cmds[m].id \in Nat
  BY <1>2, CommandType
<1>4. /\ e \in Bound /\ e.seg = a.binds[k].seg /\ e.off = a.binds[k].off
      /\ e.lazy = a.binds[k].lazy /\ e.dylib = a.cmds[m].id /\ e.sym = sym
  <2>1. PICK r, d : r = a.binds[k] /\ d = a.cmds[m].id
    OBVIOUS
  <2>2. r \in [seg : Nat, off : Nat, dylib : Nat, sym : Name, lazy : BOOLEAN] /\ d \in Nat
    BY <1>2, <1>3, <2>1 DEF Bound
  <2>3. e = [r EXCEPT !.dylib = d, !.sym = sym]
    BY <1>1, <2>1
  <2>4. e = [seg |-> r.seg, off |-> r.off, dylib |-> d, sym |-> sym, lazy |-> r.lazy]
    BY <2>2, <2>3
  <2>5. QED
    BY <2>1, <2>2, <2>4 DEF Bound
<1>5. \E binds \in Seq(Bound) :
        /\ binds = [a.binds EXCEPT ![k] = e]
        /\ DOMAIN binds = DOMAIN a.binds /\ binds[k] = e
        /\ \A j \in DOMAIN a.binds : j # k => binds[j] = a.binds[j]
  <2>1. PICK T, s : T = Bound /\ s = a.binds
    OBVIOUS
  <2>2. s \in Seq(T) /\ k \in DOMAIN s /\ e \in T
    BY <1>2, <1>4, <2>1
  <2>3. PICK binds : binds = [s EXCEPT ![k] = e]
    OBVIOUS
  <2>4. /\ binds \in Seq(T) /\ DOMAIN binds = DOMAIN s /\ binds[k] = e
        /\ \A j \in DOMAIN s : j # k => binds[j] = s[j]
    BY <2>2, <2>3
  <2>5. QED
    BY <2>1, <2>3, <2>4
<1>6. PICK binds \in Seq(Bound) :
        /\ b = [a EXCEPT !.binds = binds] /\ DOMAIN binds = DOMAIN a.binds /\ binds[k] = e
        /\ \A j \in DOMAIN a.binds : j # k => binds[j] = a.binds[j]
  BY <1>1, <1>5 DEF IsRebound
<1>7. Bindings(a.cmds, binds)
  <2>1. ASSUME NEW j \in DOMAIN a.binds
        PROVE  /\ binds[j].seg = a.binds[j].seg /\ binds[j].off = a.binds[j].off
               /\ binds[j].lazy = a.binds[j].lazy
               /\ binds[j].dylib = a.binds[j].dylib \/ binds[j].dylib = a.cmds[m].id
    BY <1>4, <1>6
  <2>2. ASSUME NEW j \in DOMAIN binds
        PROVE  /\ \E l \in DOMAIN a.cmds :
                    a.cmds[l].id = binds[j].seg /\ a.cmds[l].cmd = "SEGMENT" /\ ~Gone(a.cmds[l])
               /\ \E l \in DOMAIN a.cmds : a.cmds[l].id = binds[j].dylib /\ a.cmds[l].cmd = "LOAD_DYLIB"
    <3>1. /\ \E l \in DOMAIN a.cmds :
               a.cmds[l].id = a.binds[j].seg /\ a.cmds[l].cmd = "SEGMENT" /\ ~Gone(a.cmds[l])
          /\ \E l \in DOMAIN a.cmds : a.cmds[l].id = a.binds[j].dylib /\ a.cmds[l].cmd = "LOAD_DYLIB"
      BY <1>2, <1>6 DEF Bindings
    <3>2. QED
      BY <1>6, <2>1, <3>1
  <2>3. \A i, j \in DOMAIN binds :
          binds[i].seg = binds[j].seg /\ binds[i].off = binds[j].off /\ binds[i].lazy = binds[j].lazy
          => i = j
    BY <1>2, <1>6, <2>1 DEF Bindings
  <2>4. QED
    BY <2>2, <2>3 DEF Bindings
<1>8. PICK Z : Z = {BoundInArch(a.cmds, binds[j]) : j \in DOMAIN binds}
  OBVIOUS
<1>9. AInv(b) /\ MeaningOfArch(b) = [MeaningOfArch(a) EXCEPT !.binds = Z]
  <2>1. IsWithBinds(a, binds, b)
    BY <1>6 DEF IsWithBinds
  <2>2. HasBinds(a, binds, b)
    BY <1>7, <1>6, <2>1, WithBinds
  <2>3. QED
    BY <1>8, <2>2 DEF HasBinds
<1>10. PICK X : X = {BoundInArch(a.cmds, a.binds[j]) : j \in DOMAIN a.binds}
  OBVIOUS
<1>11. MeaningOfArch(a).binds = X
  BY <1>10 DEF MeaningOfArch
<1>12. PICK y : y = Elsewhere(x, a.cmds[m].name, sym)
  OBVIOUS
<1>13. BoundInArch(a.cmds, e) = y
  <2>1. Command(a.cmds, a.cmds[m].id) = a.cmds[m]
    BY <1>2, CommandIs
  <2>2. PICK p, q, o, s, l, n :
          /\ p = Command(a.cmds, a.binds[k].seg).name /\ q = Command(a.cmds, a.binds[k].dylib).name
          /\ o = a.binds[k].off /\ s = a.binds[k].sym /\ l = a.binds[k].lazy /\ n = a.cmds[m].name
    OBVIOUS
  <2>3. x = [seg |-> p, off |-> o, dylib |-> q, sym |-> s, lazy |-> l]
    BY <2>2 DEF BoundInArch
  <2>4. BoundInArch(a.cmds, e) = [seg |-> p, off |-> o, dylib |-> n, sym |-> sym, lazy |-> l]
    BY <1>4, <2>1, <2>2 DEF BoundInArch
  <2>5. y = [seg |-> p, off |-> o, dylib |-> n, sym |-> sym, lazy |-> l]
    BY <1>12, <2>2, <2>3, IsElsewhere
  <2>6. QED
    BY <2>4, <2>5
<1>14. Z = (X \ {x}) \cup {y}
  <2>1. ASSUME NEW j \in DOMAIN a.binds, j # k
        PROVE  BoundInArch(a.cmds, a.binds[j]) # x
    BY <2>1, BoundOnce
  <2>2. \A j \in DOMAIN a.binds : j # k => BoundInArch(a.cmds, binds[j]) = BoundInArch(a.cmds, a.binds[j])
    BY <1>6
  <2>3. BoundInArch(a.cmds, binds[k]) = y
    BY <1>13, <1>6
  <2>4. \A z : z \in Z <=> \E j \in DOMAIN a.binds : z = BoundInArch(a.cmds, binds[j])
    BY <1>8, <1>6
  <2>5. \A z : z \in X <=> \E j \in DOMAIN a.binds : z = BoundInArch(a.cmds, a.binds[j])
    BY <1>10
  <2>6. \A z : z \in Z <=> (z \in X /\ z # x) \/ z = y
    BY <2>1, <2>2, <2>3, <2>4, <2>5
  <2>7. QED
    BY <2>6
<1>15. x \in X
  BY <1>10
<1>16. MeaningOfArch(b) =
         [MeaningOfArch(a) EXCEPT
            !.binds = (@ \ {x}) \cup {Elsewhere(x, a.cmds[m].name, sym)}]
  BY <1>9, <1>11, <1>12, <1>14
<1>17. QED
  <2>1. a \in Archive
    BY DEF AInv
  <2>2. SameSymbols(a, b)
    BY <1>6, <2>1 DEF SameSymbols, Archive
  <2>3. QED
    BY <1>9, <1>11, <1>15, <1>16, <2>2

-----------------------------------------------------------------------------
(* Names of which a suffix is cut.                                         *)
LEMMA PickSame == \A s, S : B!Pick(s, S) = Pick(s, S)
<1>1. ASSUME NEW S, NEW k PROVE B!Rank(S, k) = Rank(S, k)
  BY DEF Rank, B!Rank, Cardinality, B!Cardinality
<1>2. ASSUME NEW S, NEW n PROVE B!Nth(S, n) = Nth(S, n)
  BY <1>1 DEF Nth, B!Nth
<1>3. ASSUME NEW s, NEW S PROVE B!Pick(s, S) = Pick(s, S)
  BY <1>2 DEF Pick, B!Pick, Cardinality, B!Cardinality
<1>4. QED
  BY <1>3

LEMMA CutSame ==
  ASSUME NEW name \in Name
  PROVE  Cut(name) = B!Cut(name, Suffix) /\ Cut(name) \in Name
<1>1. PICK at : at = {k \in DOMAIN name : name[k] = Suffix}
  OBVIOUS
<1>2. \E N \in Nat : DOMAIN name = 1..N /\ Len(name) = N
  BY DEF Name
<1>3. CASE at = {}
  <2>1. Cut(name) = name
    BY <1>1, <1>3 DEF Cut
  <2>2. B!Cut(name, Suffix) = name
    BY <1>1, <1>3 DEF B!Cut
  <2>3. QED
    BY <2>1, <2>2
<1>4. CASE at # {}
  <2>1. PICK f : f = Nth(at, 1)
    OBVIOUS
  <2>2. f \in at /\ \A k \in at : f <= k
    BY <1>1, <1>2, <1>4, <2>1, Foremost
  <2>3. PICK g : g = CHOOSE k \in DOMAIN name :
                       name[k] = Suffix /\ \A y \in 1..(k - 1) : name[y] # Suffix
    OBVIOUS
  <2>4. \E k \in DOMAIN name : name[k] = Suffix /\ \A y \in 1..(k - 1) : name[y] # Suffix
    BY <1>1, <1>2, <2>2
  <2>5. g \in DOMAIN name /\ name[g] = Suffix /\ \A y \in 1..(g - 1) : name[y] # Suffix
    BY <2>3, <2>4
  <2>6. f = g
    BY <1>1, <1>2, <2>2, <2>5
  <2>7. Cut(name) = Pick(name, DOMAIN name \ {f})
    BY <1>1, <1>4, <2>1 DEF Cut
  <2>8. \E k \in DOMAIN name : name[k] = Suffix
    BY <1>1, <1>4
  <2>9. B!Cut(name, Suffix) = B!Pick(name, {x \in DOMAIN name : x # g})
    BY <2>3, <2>8 DEF B!Cut
  <2>10. {x \in DOMAIN name : x # g} = DOMAIN name \ {f}
    BY <2>6
  <2>11. Pick(name, DOMAIN name \ {f}) \in Name
    BY Picked DEF Name
  <2>12. QED
    BY <2>7, <2>9, <2>10, <2>11, PickSame
<1>5. QED
  BY <1>3, <1>4

Shorter(x) == [x EXCEPT !.sym = B!Cut(x.sym, Suffix)]
IsStripped(a, b) == b = [a EXCEPT !.binds = [k \in DOMAIN a.binds |-> CutOff(a.binds[k])]]

LEMMA CutsOff ==
  ASSUME NEW r \in Bound
  PROVE  /\ CutOff(r) \in Bound /\ CutOff(r).seg = r.seg /\ CutOff(r).off = r.off
         /\ CutOff(r).dylib = r.dylib /\ CutOff(r).lazy = r.lazy /\ CutOff(r).sym = Cut(r.sym)
<1>1. Cut(r.sym) \in Name
  BY CutSame DEF Bound
<1>2. PICK c : c = Cut(r.sym)
  OBVIOUS
<1>3. PICK e : e = [r EXCEPT !.sym = c]
  OBVIOUS
<1>4. r \in [seg : Nat, off : Nat, dylib : Nat, sym : Name, lazy : BOOLEAN] /\ c \in Name
  BY <1>1, <1>2 DEF Bound
<1>5. e = [seg |-> r.seg, off |-> r.off, dylib |-> r.dylib, sym |-> c, lazy |-> r.lazy]
  BY <1>3, <1>4
<1>6. CutOff(r) = e
  BY <1>2, <1>3 DEF CutOff
<1>7. QED
  BY <1>2, <1>4, <1>5, <1>6 DEF Bound

LEMMA StripsBinds ==
  ASSUME NEW a, AInv(a), NEW b, IsStripped(a, b)
  PROVE  /\ AInv(b) /\ SameSymbols(a, b)
         /\ MeaningOfArch(b) = [MeaningOfArch(a) EXCEPT !.binds = {Shorter(x) : x \in @}]
<1>1. PICK binds : binds = [k \in DOMAIN a.binds |-> CutOff(a.binds[k])]
  OBVIOUS
<1>2. /\ Bindings(a.cmds, a.binds) /\ \A k \in DOMAIN a.binds : a.binds[k] \in Bound
  BY BindType
<1>3. PICK N \in Nat : DOMAIN a.binds = 1..N
  BY BindType
<1>4. DOMAIN binds = DOMAIN a.binds /\ \A k \in DOMAIN a.binds : binds[k] = CutOff(a.binds[k])
  BY <1>1
<1>5. binds \in Seq(Bound)
  <2>1. \A k \in 1..N : binds[k] \in Bound
    BY <1>2, <1>3, <1>4, CutsOff
  <2>2. binds = [k \in 1..N |-> binds[k]]
    BY <1>1, <1>3
  <2>3. QED
    BY <2>1, <2>2, Listed
<1>6. \A k \in DOMAIN a.binds :
        /\ binds[k].seg = a.binds[k].seg /\ binds[k].off = a.binds[k].off
        /\ binds[k].lazy = a.binds[k].lazy /\ binds[k].dylib = a.binds[k].dylib
        /\ binds[k].sym = Cut(a.binds[k].sym)
  BY <1>2, <1>4, CutsOff
<1>7. Bindings(a.cmds, binds)
  BY <1>2, <1>4, <1>6 DEF Bindings
<1>8. PICK Z : Z = {BoundInArch(a.cmds, binds[j]) : j \in DOMAIN binds}
  OBVIOUS
<1>9. AInv(b) /\ MeaningOfArch(b) = [MeaningOfArch(a) EXCEPT !.binds = Z]
  <2>1. IsWithBinds(a, binds, b)
    BY <1>1 DEF IsWithBinds, IsStripped
  <2>2. HasBinds(a, binds, b)
    BY <1>5, <1>7, <2>1, WithBinds
  <2>3. QED
    BY <1>8, <2>2 DEF HasBinds
<1>10. PICK X : X = {BoundInArch(a.cmds, a.binds[j]) : j \in DOMAIN a.binds}
  OBVIOUS
<1>11. MeaningOfArch(a).binds = X
  BY <1>10 DEF MeaningOfArch
<1>12. ASSUME NEW k \in DOMAIN a.binds
       PROVE  BoundInArch(a.cmds, binds[k]) = Shorter(BoundInArch(a.cmds, a.binds[k]))
  <2>1. PICK p, q, o, s, l :
          /\ p = Command(a.cmds, a.binds[k].seg).name /\ q = Command(a.cmds, a.binds[k].dylib).name
          /\ o = a.binds[k].off /\ s = a.binds[k].sym /\ l = a.binds[k].lazy
    OBVIOUS
  <2>2. PICK x : x = BoundInArch(a.cmds, a.binds[k])
    OBVIOUS
  <2>3. x = [seg |-> p, off |-> o, dylib |-> q, sym |-> s, lazy |-> l]
    BY <2>1, <2>2 DEF BoundInArch
  <2>4. BoundInArch(a.cmds, binds[k]) = [seg |-> p, off |-> o, dylib |-> q, sym |-> Cut(s), lazy |-> l]
    BY <1>6, <2>1 DEF BoundInArch
  <2>5. Cut(s) = B!Cut(s, Suffix)
    <3>1. s \in Name
      BY <1>2, <2>1 DEF Bound
    <3>2. QED
      BY <3>1, CutSame
  <2>6. PICK c : c = B!Cut(s, Suffix)
    OBVIOUS
  <2>7. PICK y : y = [x EXCEPT !.sym = c]
    OBVIOUS
  <2>8. y = [seg |-> p, off |-> o, dylib |-> q, sym |-> c, lazy |-> l]
    BY <2>3, <2>7
  <2>9. Shorter(x) = y
    BY <2>3, <2>6, <2>7 DEF Shorter
  <2>10. QED
    BY <2>2, <2>4, <2>5, <2>6, <2>8, <2>9
<1>13. Z = {Shorter(x) : x \in X}
  <2>1. \A z : z \in Z <=> \E j \in DOMAIN a.binds : z = Shorter(BoundInArch(a.cmds, a.binds[j]))
    BY <1>4, <1>8, <1>12
  <2>2. \A x : x \in X <=> \E j \in DOMAIN a.binds : x = BoundInArch(a.cmds, a.binds[j])
    BY <1>10
  <2>3. PICK W : W = {Shorter(x) : x \in X}
    OBVIOUS
  <2>4. \A z : z \in W <=> \E x \in X : z = Shorter(x)
    BY <2>3
  <2>5. \A z : z \in Z <=> z \in W
    BY <2>1, <2>2, <2>4
  <2>6. QED
    BY <2>3, <2>5
<1>14. QED
  <2>1. a \in Archive
    BY DEF AInv
  <2>2. SameSymbols(a, b)
    BY <1>1, <2>1 DEF SameSymbols, Archive, IsStripped
  <2>3. QED
    BY <1>9, <1>11, <1>13, <2>2

-----------------------------------------------------------------------------
(* A symbol goes, with its string.                                         *)
Others(syms, name) == Pick(syms, {k \in DOMAIN syms : syms[k].name # name})
OtherStrings(strs, name) == Pick(strs, {k \in DOMAIN strs : strs[k] # name})
Without(a, name, syms, strs) ==
  /\ syms \in Seq(Entry) /\ strs \in Seq(Name) /\ Described(a.cmds, syms, strs)
  /\ {SymbolInArch(a.cmds, syms[k]) : k \in DOMAIN syms} = {s \in MeaningOfArch(a).syms : s.name # name}

LEMMA WithoutSymbol ==
  ASSUME NEW a, AInv(a), NEW name,
         NEW syms, syms = Others(a.syms, name), NEW strs, strs = OtherStrings(a.strs, name)
  PROVE  Without(a, name, syms, strs)
<1>1. a.syms \in Seq(Entry) /\ a.strs \in Seq(Name) /\ Described(a.cmds, a.syms, a.strs)
  BY BindType, Typed
<1>2. PICK S, T : /\ S = {k \in DOMAIN a.syms : a.syms[k].name # name}
                  /\ T = {k \in DOMAIN a.strs : a.strs[k] # name}
  OBVIOUS
<1>3. S \in SUBSET (DOMAIN a.syms) /\ T \in SUBSET (DOMAIN a.strs)
  BY <1>2
<1>4. syms = Pick(a.syms, S) /\ strs = Pick(a.strs, T)
  BY <1>2 DEF Others, OtherStrings
<1>5. /\ syms \in Seq(Entry)
      /\ \A n \in DOMAIN syms : Nth(S, n) \in S /\ syms[n] = a.syms[Nth(S, n)]
      /\ \A k \in S : Rank(S, k) \in DOMAIN syms /\ syms[Rank(S, k)] = a.syms[k]
  BY <1>1, <1>3, <1>4, Picked
<1>6. /\ strs \in Seq(Name)
      /\ \A k \in T : Rank(T, k) \in DOMAIN strs /\ strs[Rank(T, k)] = a.strs[k]
  BY <1>1, <1>3, <1>4, Picked
<1>7. InOrder(syms)
  <2>1. SymbolList(a.syms)
    <3>1. \A k \in DOMAIN a.syms : a.syms[k] \in Entry
      BY <1>1, Elements
    <3>2. \A k \in DOMAIN a.syms : a.syms[k].kind \in Kind
      BY <3>1 DEF Entry
    <3>3. QED
      BY <1>1, <3>2 DEF SymbolList
  <2>2. InOrder(a.syms)
    BY <1>1 DEF Described
  <2>3. QED
    BY <1>3, <1>4, <2>1, <2>2, OrderKept
<1>8. Described(a.cmds, syms, strs)
  <2>1. ASSUME NEW n \in DOMAIN syms
        PROVE  /\ \E x \in DOMAIN strs : strs[x] = syms[n].name
               /\ \/ syms[n].sect = NoSect
                  \/ \E m \in DOMAIN a.cmds :
                       /\ a.cmds[m].id = syms[n].sect[1] /\ a.cmds[m].cmd = "SEGMENT"
                       /\ syms[n].sect[2] \in DOMAIN a.cmds[m].sects
    <3>1. PICK k \in S : syms[n] = a.syms[k]
      BY <1>5
    <3>2. k \in DOMAIN a.syms /\ a.syms[k].name # name
      BY <1>2
    <3>3. PICK x \in DOMAIN a.strs : a.strs[x] = a.syms[k].name
      BY <1>1, <3>2 DEF Described
    <3>4. x \in T
      BY <1>2, <3>2, <3>3
    <3>5. \E y \in DOMAIN strs : strs[y] = syms[n].name
      BY <1>6, <3>1, <3>3, <3>4
    <3>6. \/ a.syms[k].sect = NoSect
          \/ \E m \in DOMAIN a.cmds :
               /\ a.cmds[m].id = a.syms[k].sect[1] /\ a.cmds[m].cmd = "SEGMENT"
               /\ a.syms[k].sect[2] \in DOMAIN a.cmds[m].sects
      BY <1>1, <3>2 DEF Described
    <3>7. QED
      BY <3>1, <3>5, <3>6
  <2>2. QED
    BY <1>7, <2>1 DEF Described
<1>9. PICK X : X = {SymbolInArch(a.cmds, syms[k]) : k \in DOMAIN syms}
  OBVIOUS
<1>10. PICK Y : Y = {SymbolInArch(a.cmds, a.syms[k]) : k \in DOMAIN a.syms}
  OBVIOUS
<1>11. MeaningOfArch(a).syms = Y
  BY <1>10 DEF MeaningOfArch
<1>12. \A k \in DOMAIN a.syms : SymbolInArch(a.cmds, a.syms[k]).name = a.syms[k].name
  BY DEF SymbolInArch
<1>13. X = {s \in Y : s.name # name}
  <2>1. ASSUME NEW z \in X PROVE z \in Y /\ z.name # name
    <3>1. PICK n \in DOMAIN syms : z = SymbolInArch(a.cmds, syms[n])
      BY <1>9
    <3>2. PICK k \in S : syms[n] = a.syms[k]
      BY <1>5
    <3>3. k \in DOMAIN a.syms /\ a.syms[k].name # name
      BY <1>2
    <3>4. QED
      BY <1>10, <1>12, <3>1, <3>2, <3>3
  <2>2. ASSUME NEW z \in Y, z.name # name PROVE z \in X
    <3>1. PICK k \in DOMAIN a.syms : z = SymbolInArch(a.cmds, a.syms[k])
      BY <1>10
    <3>2. k \in S
      BY <1>2, <1>12, <2>2, <3>1
    <3>3. QED
      BY <1>5, <1>9, <3>1, <3>2
  <2>3. QED
    BY <2>1, <2>2
<1>14. QED
  BY <1>5, <1>6, <1>8, <1>9, <1>11, <1>13 DEF Without

LEMMA DropsSymbol ==
  ASSUME NEW a, AInv(a), NEW name, NEW b, b = Removed(a, name)
  PROVE  /\ AInv(b) /\ b.syms = Others(a.syms, name) /\ b.indirect = a.indirect
         /\ MeaningOfArch(b) = [MeaningOfArch(a) EXCEPT !.syms = {s \in @ : s.name # name}]
<1>1. PICK syms, strs : syms = Others(a.syms, name) /\ strs = OtherStrings(a.strs, name)
  OBVIOUS
<1>2. Without(a, name, syms, strs)
  BY <1>1, WithoutSymbol
<1>3. a \in Archive /\ a.type \in {"EXECUTE", "DYLIB"} /\ a.flags \in SUBSET HeaderFlags
  BY Typed DEF AInv
<1>4. PICK type, flags : type = a.type /\ flags = a.flags
  OBVIOUS
<1>5. b = [a EXCEPT !.syms = syms, !.strs = strs, !.type = type, !.flags = flags]
  <2>1. b = [a EXCEPT !.syms = syms, !.strs = strs]
    BY <1>1 DEF Removed, Others, OtherStrings
  <2>2. PICK c : c = [a EXCEPT !.syms = syms, !.strs = strs, !.type = type, !.flags = flags]
    OBVIOUS
  <2>3. b = c
    BY <1>3, <1>4, <2>1, <2>2 DEF Archive
  <2>4. QED
    BY <2>2, <2>3
<1>6. HasSymbols(a, syms, type, flags, b)
  <2>1. syms \in Seq(Entry) /\ strs \in Seq(Name) /\ Described(a.cmds, syms, strs)
    BY <1>2 DEF Without
  <2>2. IsWithSymbols(a, syms, strs, type, flags, b)
    BY <1>5 DEF IsWithSymbols
  <2>3. QED
    BY <1>3, <1>4, <2>1, <2>2, WithSymbols
<1>7. PICK X, Y : X = {BoundInArch(a.cmds, a.binds[k]) : k \in DOMAIN a.binds}
                  /\ Y = {SymbolInArch(a.cmds, a.syms[k]) : k \in DOMAIN a.syms}
  OBVIOUS
<1>8. PICK c : c = CommandNames(a.cmds)
  OBVIOUS
<1>9. PICK M : M = MeaningOfArch(a)
  OBVIOUS
<1>10. M = [cmds |-> c, binds |-> X, syms |-> Y, type |-> type, flags |-> flags]
  BY <1>4, <1>7, <1>8, <1>9 DEF MeaningOfArch
<1>11. PICK Z : Z = {s \in Y : s.name # name}
  OBVIOUS
<1>12. PICK L : L = [M EXCEPT !.syms = Z]
  OBVIOUS
<1>13. L = [cmds |-> c, binds |-> X, syms |-> Z, type |-> type, flags |-> flags]
  BY <1>10, <1>12
<1>14. M.cmds = c /\ M.binds = X /\ M.syms = Y
  BY <1>10
<1>15. {SymbolInArch(a.cmds, syms[k]) : k \in DOMAIN syms} = Z
  BY <1>2, <1>9, <1>11, <1>14 DEF Without
<1>16. MeaningOfArch(b) = L
  BY <1>6, <1>9, <1>13, <1>14, <1>15 DEF HasSymbols
<1>17. MeaningOfArch(b) = [MeaningOfArch(a) EXCEPT !.syms = {s \in @ : s.name # name}]
  BY <1>9, <1>11, <1>12, <1>14, <1>16
<1>18. QED
  BY <1>1, <1>6, <1>17 DEF HasSymbols

-----------------------------------------------------------------------------
(* Commands go.                                                            *)
WithoutFirst(a, at, b) == b = [a EXCEPT !.cmds = Pick(a.cmds, DOMAIN a.cmds \ {Nth(at, 1)})]
HasDropped(a, name, b) ==
  /\ AInv(b) /\ SameSymbols(a, b)
  /\ MeaningOfArch(b) = [MeaningOfArch(a) EXCEPT
       !.cmds = Pick(@, {k \in DOMAIN @ : ~ (@[k].cmd = "SEGMENT" /\ @[k].name = name)})]

LEMMA DropsSegment ==
  ASSUME NEW a, AInv(a), NEW name \in Removable,
         NEW at, at = {k \in DOMAIN a.cmds : IsSegment(a.cmds[k]) /\ a.cmds[k].name = name}, at # {},
         NEW b, WithoutFirst(a, at, b)
  PROVE  HasDropped(a, name, b)
<1>1. a.cmds \in Commands /\ Objects(a.cmds, a.next)
  BY BindType
<1>2. PICK f : f = Nth(at, 1)
  OBVIOUS
<1>3. f \in at
  <2>1. PICK N \in Nat : DOMAIN a.cmds = 1..N
    BY <1>1, CommandType
  <2>2. at \in SUBSET (1..N)
    BY <2>1
  <2>3. QED
    BY <1>2, <2>1, <2>2, Foremost
<1>4. \A k \in at : k = f
  <2>1. Once(a.cmds, OfTypes(a.cmds, {"SEGMENT"}))
    BY <1>1 DEF Objects, Apart
  <2>2. \A k \in at : k \in OfTypes(a.cmds, {"SEGMENT"}) /\ a.cmds[k].name = name
    BY DEF OfTypes, IsSegment
  <2>3. QED
    BY <1>3, <2>1, <2>2 DEF Once
<1>5. PICK S : S = DOMAIN a.cmds \ {f}
  OBVIOUS
<1>6. \A k \in DOMAIN a.cmds : k \notin S => Idle(a.cmds[k])
  BY <1>3, <1>5 DEF Idle, IsSegment, Gone
<1>7. /\ AInv(b) /\ SameSymbols(a, b)
      /\ MeaningOfArch(b) = [MeaningOfArch(a) EXCEPT !.cmds = Pick(CommandNames(a.cmds), S)]
  <2>1. S \in SUBSET (DOMAIN a.cmds)
    BY <1>5
  <2>2. b = [a EXCEPT !.cmds = Pick(a.cmds, S)]
    BY <1>2, <1>5 DEF WithoutFirst
  <2>3. QED
    BY <1>6, <2>1, <2>2, RemovesCommands
<1>8. PICK c : c = CommandNames(a.cmds)
  OBVIOUS
<1>9. MeaningOfArch(a).cmds = c
  BY <1>8 DEF MeaningOfArch
<1>10. S = {k \in DOMAIN c : ~ (c[k].cmd = "SEGMENT" /\ c[k].name = name)}
  <2>1. DOMAIN c = DOMAIN a.cmds
        /\ \A k \in DOMAIN c : c[k].cmd = a.cmds[k].cmd /\ c[k].name = a.cmds[k].name
    BY <1>8 DEF CommandNames
  <2>2. \A k \in DOMAIN a.cmds : k \in at <=> a.cmds[k].cmd = "SEGMENT" /\ a.cmds[k].name = name
    BY DEF IsSegment
  <2>3. \A k \in DOMAIN a.cmds : k \in at <=> k = f
    BY <1>3, <1>4
  <2>4. QED
    BY <1>5, <2>1, <2>2, <2>3
<1>11. QED
  BY <1>7, <1>8, <1>9, <1>10 DEF HasDropped

(* The loop that erases and advances finds a command that is there alone.  *)
LEMMA ErasesAlone ==
  ASSUME NEW N \in Nat, NEW cmds, DOMAIN cmds = 1..N, NEW M \in SUBSET (DOMAIN cmds),
         \A x, y \in M : x = y
  PROVE  Erase(cmds, M) = Pick(cmds, DOMAIN cmds \ M)
<1> DEFINE Turn(g) == [k \in DOMAIN cmds |-> k \in M /\ (k = 1 \/ ~g[k - 1])]
<1>1. PICK w : w = [k \in DOMAIN cmds |-> k \in M]
  OBVIOUS
<1>2. \A k \in DOMAIN cmds : k # 1 => k - 1 \in DOMAIN cmds /\ (k \in M => k - 1 \notin M)
  OBVIOUS
<1>3. \A k \in DOMAIN cmds : (k \in M) <=> (k \in M /\ (k = 1 \/ ~w[k - 1]))
  BY <1>1, <1>2
<1>4. w = Turn(w)
  <2>1. PICK v : v = Turn(w)
    OBVIOUS
  <2>2. \A k \in DOMAIN cmds : v[k] = (k \in M /\ (k = 1 \/ ~w[k - 1]))
    BY <2>1
  <2>3. \A k \in DOMAIN cmds : v[k] = (k \in M)
    <3>1. ASSUME NEW k \in DOMAIN cmds
          PROVE  (k \in M /\ (k = 1 \/ ~w[k - 1])) = (k \in M)
      BY <1>3
    <3>2. QED
      BY <2>2, <3>1, Zenon
  <2>4. v = [k \in DOMAIN cmds |-> v[k]]
    BY <2>1
  <2>5. v = w
    BY <1>1, <2>3, <2>4, Zenon
  <2>6. QED
    BY <2>1, <2>5
<1>5. PICK g : g = CHOOSE f : f = Turn(f)
  OBVIOUS
<1>6. g = Turn(g)
  BY <1>4, <1>5
<1>7. \A k \in DOMAIN cmds : g[k] <=> (k \in M /\ (k = 1 \/ ~g[k - 1]))
  BY <1>6
<1>8. \A k \in DOMAIN cmds : g[k] <=> k \in M
  BY <1>2, <1>7
<1>9. {k \in DOMAIN cmds : ~g[k]} = DOMAIN cmds \ M
  BY <1>8
<1>10. Erase(cmds, M) = Pick(cmds, {k \in DOMAIN cmds : ~g[k]})
  BY <1>5 DEF Erase
<1>11. QED
  BY <1>9, <1>10

(* A list without some elements.                                           *)
Less(s, E) == Pick(s, {k \in DOMAIN s : s[k] \notin E})

LEMMA LessTwice ==
  ASSUME NEW T, NEW s \in Seq(T), NEW E, NEW F
  PROVE  Less(Less(s, E), F) = Less(s, E \cup F)
<1>1. PICK S : S = {k \in DOMAIN s : s[k] \notin E}
  OBVIOUS
<1>2. PICK p : p = Pick(s, S)
  OBVIOUS
<1>3. PICK R : R = {n \in DOMAIN p : p[n] \notin F}
  OBVIOUS
<1>4. PICK V : V = {k \in DOMAIN s : s[k] \notin E \cup F}
  OBVIOUS
<1>5. S \in SUBSET (DOMAIN s) /\ R \in SUBSET (DOMAIN p)
  BY <1>1, <1>3
<1>6. \A k \in S : Rank(S, k) \in DOMAIN p /\ p[Rank(S, k)] = s[k]
  BY <1>2, <1>5, Picked
<1>7. V = {k \in S : Rank(S, k) \in R}
  BY <1>1, <1>3, <1>4, <1>6
<1>8. Pick(p, R) = Pick(s, V)
  BY <1>2, <1>5, <1>7, PickPick
<1>9. QED
  BY <1>1, <1>2, <1>3, <1>4, <1>8 DEF Less

LEMMA LessOfMore ==
  ASSUME NEW T, NEW s \in Seq(T), NEW e \in T, NEW E, e \notin E
  PROVE  Less(Append(s, e), E) = Append(Less(s, E), e)
<1>1. PICK S : S = {k \in DOMAIN s : s[k] \notin E}
  OBVIOUS
<1>2. {k \in DOMAIN Append(s, e) : Append(s, e)[k] \notin E} = S \cup {Len(s) + 1}
  BY <1>1
<1>3. S \in SUBSET (DOMAIN s)
  BY <1>1
<1>4. Pick(Append(s, e), S \cup {Len(s) + 1}) = Append(Pick(s, S), e)
  <2>1. Grows(s, S, e)
    BY <1>3, PickAppend
  <2>2. QED
    BY <2>1 DEF Grows
<1>5. Less(s, E) = Pick(s, S)
  BY <1>1 DEF Less
<1>6. PICK t : t = Append(s, e)
  OBVIOUS
<1>7. Less(t, E) = Pick(t, S \cup {Len(s) + 1})
  BY <1>2, <1>6 DEF Less
<1>8. QED
  BY <1>4, <1>5, <1>6, <1>7

-----------------------------------------------------------------------------
(* An executable becomes a library.                                        *)
IsErased(a, M, b) == b = [a EXCEPT !.cmds = Erase(a.cmds, M)]
HasLess(a, E, b) ==
  /\ AInv(b) /\ SameSymbols(a, b)
  /\ MeaningOfArch(b) = [MeaningOfArch(a) EXCEPT !.cmds = Less(@, E)]
Description(c) == [cmd |-> c.cmd, name |-> c.name]

LEMMA ErasesCommand ==
  ASSUME NEW a, AInv(a), NEW M \in SUBSET (DOMAIN a.cmds), \A x, y \in M : x = y,
         \A k \in M : Idle(a.cmds[k]),
         NEW E, \A k \in DOMAIN a.cmds : k \in M <=> Description(a.cmds[k]) \in E,
         NEW b, IsErased(a, M, b)
  PROVE  HasLess(a, E, b)
<1>1. PICK N \in Nat : DOMAIN a.cmds = 1..N
  BY BindType, CommandType
<1>2. PICK S : S = DOMAIN a.cmds \ M
  OBVIOUS
<1>3. Erase(a.cmds, M) = Pick(a.cmds, S)
  BY <1>1, <1>2, ErasesAlone
<1>4. /\ AInv(b) /\ SameSymbols(a, b)
      /\ MeaningOfArch(b) = [MeaningOfArch(a) EXCEPT !.cmds = Pick(CommandNames(a.cmds), S)]
  <2>1. b = [a EXCEPT !.cmds = Pick(a.cmds, S)]
    BY <1>3 DEF IsErased
  <2>2. S \in SUBSET (DOMAIN a.cmds) /\ \A k \in DOMAIN a.cmds : k \notin S => Idle(a.cmds[k])
    BY <1>2
  <2>3. QED
    BY <2>1, <2>2, RemovesCommands
<1>5. PICK c : c = CommandNames(a.cmds)
  OBVIOUS
<1>6. MeaningOfArch(a).cmds = c
  BY <1>5 DEF MeaningOfArch
<1>7. S = {k \in DOMAIN c : c[k] \notin E}
  <2>1. DOMAIN c = DOMAIN a.cmds /\ \A k \in DOMAIN c : c[k] = Description(a.cmds[k])
    BY <1>5 DEF CommandNames, Description
  <2>2. QED
    BY <1>2, <2>1
<1>8. Pick(c, S) = Less(c, E)
  BY <1>7 DEF Less
<1>9. QED
  BY <1>4, <1>5, <1>6, <1>8 DEF HasLess

CommandName == [cmd : Types, name : STRING]
PagezeroName == {c \in CommandName : c.cmd = "SEGMENT" /\ c.name = "PAGEZERO"}
OfCommand(cmd) == {c \in CommandName : c.cmd = cmd}

LEMMA Descriptions ==
  ASSUME NEW a, AInv(a)
  PROVE  /\ CommandNames(a.cmds) \in Seq(CommandName)
         /\ \A k \in DOMAIN a.cmds :
              /\ Description(a.cmds[k]) \in CommandName
              /\ Description(a.cmds[k]).cmd = a.cmds[k].cmd /\ Description(a.cmds[k]).name = a.cmds[k].name
<1>1. a.cmds \in Commands
  BY BindType
<1>2. PICK N \in Nat : DOMAIN a.cmds = 1..N
  BY <1>1, CommandType
<1>3. \A k \in DOMAIN a.cmds : a.cmds[k].cmd \in Types /\ a.cmds[k].name \in STRING
  BY <1>1, CommandType
<1>4. \A k \in DOMAIN a.cmds :
        /\ Description(a.cmds[k]) \in CommandName
        /\ Description(a.cmds[k]).cmd = a.cmds[k].cmd /\ Description(a.cmds[k]).name = a.cmds[k].name
  BY <1>3 DEF Description, CommandName
<1>5. PICK c : c = CommandNames(a.cmds)
  OBVIOUS
<1>6. c = [k \in 1..N |-> Description(a.cmds[k])]
  BY <1>2, <1>5 DEF CommandNames, Description
<1>7. \A k \in 1..N : c[k] \in CommandName
  BY <1>2, <1>4, <1>6
<1>8. c = [k \in 1..N |-> c[k]]
  BY <1>6
<1>9. c \in Seq(CommandName)
  BY <1>7, <1>8, Listed
<1>10. QED
  BY <1>4, <1>5, <1>9

LEMMA ErasesPagezero ==
  ASSUME NEW a, AInv(a), NEW b, IsErased(a, Pagezero(a.cmds), b)
  PROVE  HasLess(a, PagezeroName, b)
<1>1. PICK M : M = Pagezero(a.cmds)
  OBVIOUS
<1>2. \A k : k \in M <=> k \in DOMAIN a.cmds /\ a.cmds[k].cmd = "SEGMENT" /\ a.cmds[k].name = "PAGEZERO"
  BY <1>1 DEF Pagezero, IsSegment
<1>3. \A x, y \in M : x = y
  <2>1. Once(a.cmds, OfTypes(a.cmds, {"SEGMENT"}))
    BY DEF AInv, Objects, Apart
  <2>2. \A k \in M : k \in OfTypes(a.cmds, {"SEGMENT"}) /\ a.cmds[k].name = "PAGEZERO"
    BY <1>2 DEF OfTypes
  <2>3. QED
    BY <2>1, <2>2 DEF Once
<1>4. \A k \in M : Idle(a.cmds[k])
  BY <1>2 DEF Idle, Gone
<1>5. \A k \in DOMAIN a.cmds : k \in M <=> Description(a.cmds[k]) \in PagezeroName
  BY <1>2, Descriptions DEF PagezeroName
<1>6. M \in SUBSET (DOMAIN a.cmds)
  BY <1>2
<1>7. QED
  BY <1>1, <1>3, <1>4, <1>5, <1>6, ErasesCommand

LEMMA ErasesOfCommand ==
  ASSUME NEW a, AInv(a), NEW cmd \in {"LOAD_DYLINKER", "MAIN"},
         NEW b, IsErased(a, OfTypes(a.cmds, {cmd}), b)
  PROVE  HasLess(a, OfCommand(cmd), b)
<1>1. PICK M : M = OfTypes(a.cmds, {cmd})
  OBVIOUS
<1>2. \A k : k \in M <=> k \in DOMAIN a.cmds /\ a.cmds[k].cmd = cmd
  BY <1>1 DEF OfTypes
<1>3. \A x, y \in M : x = y
  BY <1>1 DEF AInv, Objects, Apart
<1>4. \A k \in M : Idle(a.cmds[k])
  BY <1>2 DEF Idle
<1>5. \A k \in DOMAIN a.cmds : k \in M <=> Description(a.cmds[k]) \in OfCommand(cmd)
  BY <1>2, Descriptions DEF OfCommand
<1>6. M \in SUBSET (DOMAIN a.cmds)
  BY <1>2
<1>7. QED
  BY <1>1, <1>3, <1>4, <1>5, <1>6, ErasesCommand

IsConverted(a, e, b) ==
  b = [Removed(a, Header) EXCEPT
         !.type = "DYLIB",
         !.cmds = RemoveIrrelevant(RemovePagezero(Append(@, e))),
         !.next = @ + 1,
         !.flags = (@ \cup {"NO_REEXPORTED_DYLIBS"}) \ {"PIE"}]
OfExecutableOnly == PagezeroName \cup OfCommand("LOAD_DYLINKER") \cup OfCommand("MAIN")
IsDylibOf(a, name, b) ==
  /\ AInv(b) /\ b.syms = Others(a.syms, Header) /\ b.indirect = a.indirect
  /\ MeaningOfArch(b) =
       [cmds |-> Append(Less(MeaningOfArch(a).cmds, OfExecutableOnly), [cmd |-> "ID_DYLIB", name |-> name]),
        binds |-> MeaningOfArch(a).binds,
        syms |-> {s \in MeaningOfArch(a).syms : s.name # Header},
        type |-> "DYLIB",
        flags |-> (MeaningOfArch(a).flags \cup {"NO_REEXPORTED_DYLIBS"}) \ {"PIE"}]

(* What the steps before the symbols leave of the archive and its meaning. *)
LEMMA CommandsOfDylib ==
  ASSUME NEW a, AInv(a), NEW name \in STRING, \A k \in DOMAIN a.cmds : a.cmds[k].name # name,
         NEW e, e = [id |-> a.next, cmd |-> "ID_DYLIB", name |-> name, sects |-> <<>>],
         NEW c, c = RemoveIrrelevant(RemovePagezero(Append(a.cmds, e))),
         NEW b, b = [a EXCEPT !.cmds = c, !.next = @ + 1]
  PROVE  /\ AInv(b) /\ SameSymbols(a, b)
         /\ MeaningOfArch(b) = [MeaningOfArch(a) EXCEPT
              !.cmds = Append(Less(@, OfExecutableOnly), [cmd |-> "ID_DYLIB", name |-> name])]
<1>1. PICK c1 : c1 = Append(a.cmds, e)
  OBVIOUS
<1>2. PICK c2 : c2 = Erase(c1, Pagezero(c1))
  OBVIOUS
<1>3. PICK c3 : c3 = Erase(c2, OfTypes(c2, {"LOAD_DYLINKER"}))
  OBVIOUS
<1>4. c = Erase(c3, OfTypes(c3, {"MAIN"}))
  BY <1>1, <1>2, <1>3 DEF RemoveIrrelevant, RemoveCommands, RemovePagezero
<1>5. PICK n : n = a.next + 1
  OBVIOUS
<1>6. PICK a1 : a1 = [a EXCEPT !.cmds = c1, !.next = n]
  OBVIOUS
<1>7. PICK a2 : a2 = [a1 EXCEPT !.cmds = c2]
  OBVIOUS
<1>8. PICK a3 : a3 = [a2 EXCEPT !.cmds = c3]
  OBVIOUS
<1>9. PICK a4 : a4 = [a3 EXCEPT !.cmds = c]
  OBVIOUS
<1>10. a \in Archive
  BY DEF AInv
<1>11. a1.cmds = c1 /\ a2.cmds = c2 /\ a3.cmds = c3
  BY <1>6, <1>7, <1>8, <1>10 DEF Archive
<1>12. a4 = b
  BY <1>5, <1>6, <1>7, <1>8, <1>9, <1>10 DEF Archive
<1>13. PICK N : N = MeaningOfArch(a)
  OBVIOUS
<1>14. PICK d : d = [cmd |-> "ID_DYLIB", name |-> name]
  OBVIOUS
<1>15. /\ AInv(a1) /\ SameSymbols(a, a1)
       /\ MeaningOfArch(a1) = [N EXCEPT !.cmds = Append(N.cmds, d)]
  <2>1. IsExtended(a, e, a1)
    BY <1>1, <1>5, <1>6 DEF IsExtended
  <2>2. HasMore(a, "ID_DYLIB", name, a1)
    BY <2>1, InsertsDylib
  <2>3. QED
    BY <1>13, <1>14, <2>2 DEF HasMore
<1>16. HasLess(a1, PagezeroName, a2)
  <2>1. IsErased(a1, Pagezero(a1.cmds), a2)
    BY <1>2, <1>7, <1>11 DEF IsErased
  <2>2. QED
    BY <1>15, <2>1, ErasesPagezero
<1>17. HasLess(a2, OfCommand("LOAD_DYLINKER"), a3)
  <2>1. IsErased(a2, OfTypes(a2.cmds, {"LOAD_DYLINKER"}), a3)
    BY <1>3, <1>8, <1>11 DEF IsErased
  <2>2. AInv(a2)
    BY <1>16 DEF HasLess
  <2>3. QED
    BY <2>1, <2>2, ErasesOfCommand
<1>18. HasLess(a3, OfCommand("MAIN"), a4)
  <2>1. IsErased(a3, OfTypes(a3.cmds, {"MAIN"}), a4)
    BY <1>4, <1>9, <1>11 DEF IsErased
  <2>2. AInv(a3)
    BY <1>17 DEF HasLess
  <2>3. QED
    BY <2>1, <2>2, ErasesOfCommand
<1>19. AInv(b) /\ SameSymbols(a, b)
  BY <1>12, <1>15, <1>16, <1>17, <1>18 DEF HasLess, SameSymbols
<1>20. N.cmds \in Seq(CommandName) /\ DOMAIN N = {"cmds", "binds", "syms", "type", "flags"}
  BY <1>13, Descriptions DEF MeaningOfArch
<1>21. PICK l, l1, l2, l3, l4 :
         /\ l = N.cmds /\ l1 = Append(l, d) /\ l2 = Less(l1, PagezeroName)
         /\ l3 = Less(l2, OfCommand("LOAD_DYLINKER")) /\ l4 = Less(l3, OfCommand("MAIN"))
  OBVIOUS
<1>22. MeaningOfArch(a1) = [N EXCEPT !.cmds = l1]
  BY <1>15, <1>21
<1>23. MeaningOfArch(a2) = [N EXCEPT !.cmds = l2]
  BY <1>16, <1>20, <1>21, <1>22 DEF HasLess
<1>24. MeaningOfArch(a3) = [N EXCEPT !.cmds = l3]
  BY <1>17, <1>20, <1>21, <1>23 DEF HasLess
<1>25. MeaningOfArch(b) = [N EXCEPT !.cmds = l4]
  BY <1>12, <1>18, <1>20, <1>21, <1>24 DEF HasLess
<1>26. l4 = Append(Less(l, OfExecutableOnly), d)
  <2>1. l \in Seq(CommandName) /\ d \in CommandName /\ d.cmd = "ID_DYLIB"
    BY <1>14, <1>20, <1>21 DEF CommandName, Types
  <2>2. l1 \in Seq(CommandName)
    BY <1>21, <2>1
  <2>3. \A E, F : Less(Less(l1, E), F) = Less(l1, E \cup F)
    BY <2>2, LessTwice
  <2>4. l3 = Less(l1, PagezeroName \cup OfCommand("LOAD_DYLINKER"))
    BY <1>21, <2>3
  <2>5. l4 = Less(l1, OfExecutableOnly)
    BY <1>21, <2>4, <2>3 DEF OfExecutableOnly
  <2>6. d \notin OfExecutableOnly
    BY <2>1 DEF OfExecutableOnly, PagezeroName, OfCommand
  <2>7. QED
    BY <1>21, <2>1, <2>5, <2>6, LessOfMore
<1>27. QED
  BY <1>13, <1>14, <1>19, <1>21, <1>25, <1>26

LEMMA BecomesDylib ==
  ASSUME NEW a, AInv(a), NEW name \in STRING, \A k \in DOMAIN a.cmds : a.cmds[k].name # name,
         NEW e, e = [id |-> a.next, cmd |-> "ID_DYLIB", name |-> name, sects |-> <<>>],
         NEW b, IsConverted(a, e, b)
  PROVE  IsDylibOf(a, name, b)
<1>1. PICK c, n : c = RemoveIrrelevant(RemovePagezero(Append(a.cmds, e))) /\ n = a.next + 1
  OBVIOUS
<1>2. PICK z : z = [a EXCEPT !.cmds = c, !.next = n]
  OBVIOUS
<1>3. PICK d : d = [cmd |-> "ID_DYLIB", name |-> name]
  OBVIOUS
<1>4. PICK l : l = Append(Less(MeaningOfArch(a).cmds, OfExecutableOnly), d)
  OBVIOUS
<1>5. /\ AInv(z) /\ SameSymbols(a, z)
      /\ MeaningOfArch(z) = [MeaningOfArch(a) EXCEPT !.cmds = l]
  <2>1. z = [a EXCEPT !.cmds = c, !.next = @ + 1]
    BY <1>1, <1>2
  <2>2. /\ AInv(z) /\ SameSymbols(a, z)
        /\ MeaningOfArch(z) = [MeaningOfArch(a) EXCEPT
              !.cmds = Append(Less(@, OfExecutableOnly), [cmd |-> "ID_DYLIB", name |-> name])]
    BY <1>1, <2>1, CommandsOfDylib
  <2>3. QED
    BY <1>3, <1>4, <2>2
<1>6. a \in Archive /\ a.flags \in SUBSET HeaderFlags
  BY Typed DEF AInv
<1>7. PICK syms, strs : syms = Others(a.syms, Header) /\ strs = OtherStrings(a.strs, Header)
  OBVIOUS
<1>8. PICK flags : flags = (a.flags \cup {"NO_REEXPORTED_DYLIBS"}) \ {"PIE"}
  OBVIOUS
<1>9. IsWithSymbols(z, syms, strs, "DYLIB", flags, b)
  <2>1. PICK r : r = [a EXCEPT !.syms = syms, !.strs = strs]
    OBVIOUS
  <2>2. r = Removed(a, Header)
    BY <1>7, <2>1 DEF Removed, Others, OtherStrings
  <2>3. r.cmds = a.cmds /\ r.next = a.next /\ r.flags = a.flags
    BY <1>6, <2>1 DEF Archive
  <2>4. b = [r EXCEPT !.type = "DYLIB", !.cmds = c, !.next = n, !.flags = flags]
    BY <1>1, <1>8, <2>2, <2>3 DEF IsConverted
  <2>5. PICK y : y = [z EXCEPT !.syms = syms, !.strs = strs, !.type = "DYLIB", !.flags = flags]
    OBVIOUS
  <2>6. y = b
    BY <1>2, <1>6, <2>1, <2>4, <2>5 DEF Archive
  <2>7. QED
    BY <2>5, <2>6 DEF IsWithSymbols
<1>10. z.syms = a.syms /\ z.indirect = a.indirect /\ z.strs = a.strs
  BY <1>2, <1>6 DEF Archive
<1>11. Without(z, Header, syms, strs)
  BY <1>5, <1>7, <1>10, WithoutSymbol
<1>12. flags \in SUBSET HeaderFlags
  BY <1>6, <1>8 DEF HeaderFlags
<1>13. HasSymbols(z, syms, "DYLIB", flags, b)
  <2>1. syms \in Seq(Entry) /\ strs \in Seq(Name) /\ Described(z.cmds, syms, strs)
    BY <1>11 DEF Without
  <2>2. QED
    BY <1>5, <1>9, <1>12, <2>1, WithSymbols
<1>14. PICK M, N : M = MeaningOfArch(a) /\ N = MeaningOfArch(z)
  OBVIOUS
<1>15. N.cmds = l /\ N.binds = M.binds /\ N.syms = M.syms /\ M.flags = a.flags
  BY <1>5, <1>14 DEF MeaningOfArch
<1>16. MeaningOfArch(b) =
         [cmds |-> l, binds |-> M.binds, syms |-> {s \in M.syms : s.name # Header},
          type |-> "DYLIB", flags |-> flags]
  BY <1>11, <1>13, <1>14, <1>15 DEF HasSymbols, Without
<1>17. QED
  BY <1>3, <1>4, <1>7, <1>8, <1>10, <1>13, <1>14, <1>15, <1>16 DEF HasSymbols, IsDylibOf

-----------------------------------------------------------------------------
(* The names of symbols in their order.  Those before which none has gone  *)
(* stand where they stood.                                                 *)
NamesOf(syms) == [k \in DOMAIN syms |-> syms[k].name]
NamesIn(f) == [k \in DOMAIN f.syms |-> NameAt(f, k)]
Occurs(name, names) == \E k \in DOMAIN names : names[k] = name
Follows(order, names) ==
  \A n \in DOMAIN order :
    (\A r \in 1..n : Occurs(order[r], names)) =>
      \A r \in 1..n : r \in DOMAIN names /\ names[r] = order[r]

LEMMA FollowsOthers ==
  ASSUME NEW M \in Nat, NEW order, DOMAIN order = 1..M,
         NEW syms \in Seq(Entry), Follows(order, NamesOf(syms)), NEW name
  PROVE  Follows(order, NamesOf(Others(syms, name)))
<1>1. PICK S : S = {k \in DOMAIN syms : syms[k].name # name}
  OBVIOUS
<1>2. PICK t : t = Pick(syms, S)
  OBVIOUS
<1>3. PICK N \in Nat : DOMAIN syms = 1..N
  BY Length
<1>4. S \in SUBSET (1..N) /\ S \in SUBSET (DOMAIN syms)
  BY <1>1, <1>3
<1>5. /\ DOMAIN t = 1..Cardinality(S)
      /\ \A n \in DOMAIN t : Nth(S, n) \in S /\ t[n] = syms[Nth(S, n)]
  BY <1>2, <1>4, Picked
<1>6. PICK p, q : p = NamesOf(syms) /\ q = NamesOf(t)
  OBVIOUS
<1>7. /\ DOMAIN p = DOMAIN syms /\ \A k \in DOMAIN syms : p[k] = syms[k].name
      /\ DOMAIN q = DOMAIN t /\ \A k \in DOMAIN t : q[k] = t[k].name
  BY <1>6 DEF NamesOf
<1>8. ASSUME NEW n \in DOMAIN order, \A r \in 1..n : Occurs(order[r], q)
      PROVE  \A r \in 1..n : r \in DOMAIN q /\ q[r] = order[r]
  <2>1. \A r \in 1..n : Occurs(order[r], p) /\ order[r] # name
    <3>1. ASSUME NEW r \in 1..n PROVE Occurs(order[r], p) /\ order[r] # name
      <4>1. PICK k \in DOMAIN t : t[k].name = order[r]
        BY <1>7, <1>8 DEF Occurs
      <4>2. Nth(S, k) \in DOMAIN syms /\ syms[Nth(S, k)].name = order[r] /\ order[r] # name
        BY <1>1, <1>5, <4>1
      <4>3. QED
        BY <1>7, <4>2 DEF Occurs
    <3>2. QED
      BY <3>1
  <2>2. \A r \in 1..n : r \in DOMAIN p /\ p[r] = order[r]
    BY <1>6, <2>1 DEF Follows
  <2>3. \A r \in 1..n : r \in S
    BY <1>1, <1>7, <2>1, <2>2
  <2>4. n \in 0..N
    <3>1. n \in Nat /\ n \in 1..n
      OBVIOUS
    <3>2. QED
      BY <1>3, <1>7, <2>2, <3>1
  <2>5. n <= Cardinality(S) /\ \A r \in 1..n : Nth(S, r) = r
    <3>1. 1..n \subseteq S
      BY <2>3
    <3>2. S \in SUBSET (1..N)
      BY <1>4
    <3>3. QED
      BY <2>4, <3>1, <3>2, Prefix
  <2>6. Cardinality(S) \in Nat
    <3>1. S \in SUBSET (1..N)
      BY <1>4
    <3>2. Cardinality(S) \in 0..N
      BY <3>1, Ranks
    <3>3. QED
      BY <3>2
  <2>7. ASSUME NEW r \in 1..n PROVE r \in DOMAIN q /\ q[r] = order[r]
    <3>1. r \in DOMAIN t
      BY <1>5, <2>4, <2>5, <2>6
    <3>2. t[r] = syms[r]
      BY <1>5, <2>5, <3>1
    <3>3. QED
      BY <1>7, <2>2, <3>1, <3>2
  <2>8. QED
    BY <2>7
<1>9. Follows(order, q)
  BY <1>8 DEF Follows
<1>10. Others(syms, name) = t
  BY <1>1, <1>2 DEF Others
<1>11. QED
  BY <1>6, <1>9, <1>10

LEMMA SameOrder ==
  ASSUME NEW f, NEW a, SameNames(f, a)
  PROVE  NamesOf(a.syms) = NamesIn(f)
BY DEF SameNames, NamesOf, NamesIn

-----------------------------------------------------------------------------
(* The inductive invariant.                                                *)
Running == {"modify", "convert", "converted"}
FileInv == FInv(file) /\ file.indirect = first.indirect /\ Follows(NamesIn(first), NamesIn(file))
ArchInv ==
  /\ AInv(arch) /\ arch.indirect = first.indirect
  /\ Follows(NamesIn(first), NamesOf(arch.syms))
Inv ==
  /\ first \in Files /\ FileInv
  /\ command \in Running \cup {"none"}
  /\ IF command = "none" THEN arch = NoArch ELSE ArchInv
  /\ runs \in 0..MaxRuns /\ edits \in 0..MaxEdits

-----------------------------------------------------------------------------
(* What the steps do.                                                      *)
SymbolsKept == arch'.syms = arch.syms \/ \E name : arch'.syms = Others(arch.syms, name)
Edited ==
  /\ file' = file /\ first' = first /\ runs' = runs /\ edits' \in 0..MaxEdits
  /\ command \in Running /\ command' \in Running
  /\ AInv(arch') /\ arch'.indirect = arch.indirect /\ SymbolsKept

LEMMA NotClosed ==
  ASSUME NEW a
  PROVE  /\ MeaningOfArch(a) # NoArch /\ MeaningOfArch(a) # B!Closed
         /\ (a \in Archive => a # NoArch)
<1>1. PICK M : M = MeaningOfArch(a)
  OBVIOUS
<1>2. "cmds" \in DOMAIN M
  BY <1>1 DEF MeaningOfArch
<1>3. "cmds" \notin DOMAIN NoArch /\ B!Closed = NoArch
  BY DEF NoArch, B!Closed
<1>4. a \in Archive => "cmds" \in DOMAIN a
  BY DEF Archive
<1>5. QED
  BY <1>1, <1>2, <1>3, <1>4

LEMMA Orders ==
  ASSUME NEW f, FInv(f)
  PROVE  \E M \in Nat : DOMAIN NamesIn(f) = 1..M
<1>1. \E T : f.syms \in Seq(T)
  <2>1. PICK T : T = [strx : Nat, kind : {"LOCAL", "EXT", "UNDEF"}, sect : Nat]
    OBVIOUS
  <2>2. f.syms \in Seq(T)
    BY <2>1 DEF FInv, File
  <2>3. QED
    BY <2>2
<1>2. PICK M \in Nat : DOMAIN f.syms = 1..M
  BY <1>1, Length
<1>3. QED
  BY <1>2 DEF NamesIn

LEMMA FirstIs ==
  ASSUME first \in Files
  PROVE  FInv(first) /\ \A k \in DOMAIN first.indirect : first.indirect[k] \in DOMAIN first.syms
BY FilesAssumption DEF FInv

LEMMA EditedInv ==
  ASSUME Inv, Edited
  PROVE  Inv'
<1>1. ArchInv /\ command' # "none" /\ first \in Files
  BY DEF Inv, Edited, Running
<1>2. PICK M \in Nat : DOMAIN NamesIn(first) = 1..M
  BY <1>1, FirstIs, Orders
<1>3. Follows(NamesIn(first), NamesOf(arch'.syms))
  <2>1. CASE arch'.syms = arch.syms
    BY <1>1, <2>1 DEF ArchInv
  <2>2. ASSUME NEW name, arch'.syms = Others(arch.syms, name)
        PROVE  Follows(NamesIn(first), NamesOf(arch'.syms))
    <3>1. arch.syms \in Seq(Entry) /\ Follows(NamesIn(first), NamesOf(arch.syms))
      BY <1>1, BindType DEF ArchInv
    <3>2. QED
      BY <1>2, <2>2, <3>1, FollowsOthers
  <2>3. QED
    BY <2>1, <2>2 DEF Edited, SymbolsKept
<1>4. ArchInv'
  BY <1>1, <1>3 DEF ArchInv, Edited
<1>5. QED
  BY <1>1, <1>4 DEF Inv, Edited, FileInv

(* What holds when an edit begins.                                         *)
LEMMA Modifying ==
  ASSUME Inv, Modify
  PROVE  /\ command = "modify" /\ command \in Running /\ AInv(arch) /\ edits' \in 0..MaxEdits
<1>1. command = "modify" /\ edits' = edits + 1 /\ edits < MaxEdits /\ edits \in 0..MaxEdits
  BY DEF Inv, Modify
<1>2. AInv(arch)
  BY <1>1 DEF Inv, ArchInv
<1>3. edits' \in 0..MaxEdits
  BY <1>1, BoundsAssumption
<1>4. QED
  BY <1>1, <1>2, <1>3 DEF Running

(* The draft, before an edit and after it.                                 *)
Drafts(M, N) ==
  /\ M = IF command = "none" THEN NoArch ELSE MeaningOfArch(arch)
  /\ N = IF command' = "none" THEN NoArch ELSE MeaningOfArch(arch')
  /\ M # B!Closed

LEMMA HasDrafts ==
  ASSUME command \in Running, command' \in Running
  PROVE  Drafts(MeaningOfArch(arch), MeaningOfArch(arch'))
BY NotClosed DEF Drafts, Running

LEMMA InsertStep ==
  ASSUME Inv, NEW n \in Dylibs, InsertLoadDylib(n)
  PROVE  Edited /\ B!Next
<1>1. Modify /\ Unused(n) /\ arch' = [arch EXCEPT !.cmds = Append(@, NewCommand("LOAD_DYLIB", n)), !.next = @ + 1]
      /\ file' = file /\ command' = command /\ runs' = runs /\ first' = first
  BY DEF InsertLoadDylib, Change
<1>2. command = "modify" /\ command \in Running /\ AInv(arch) /\ edits' \in 0..MaxEdits
  BY <1>1, Modifying
<1>3. PICK e : e = [id |-> arch.next, cmd |-> "LOAD_DYLIB", name |-> n, sects |-> <<>>]
  OBVIOUS
<1>4. IsExtended(arch, e, arch')
  BY <1>1, <1>3 DEF IsExtended, NewCommand
<1>5. HasMore(arch, "LOAD_DYLIB", n, arch')
  <2>1. n \in STRING /\ \A k \in DOMAIN arch.cmds : arch.cmds[k].name # n
    BY <1>1, NamesAssumption DEF Unused
  <2>2. QED
    BY <1>2, <1>3, <1>4, <2>1, InsertsDylib
<1>6. Edited
  BY <1>1, <1>2, <1>5 DEF Edited, HasMore, SameSymbols, SymbolsKept
<1>7. PICK M, N : M = MeaningOfArch(arch) /\ N = MeaningOfArch(arch')
  OBVIOUS
<1>8. Drafts(M, N)
  BY <1>1, <1>2, <1>7, HasDrafts
<1>9. N = [M EXCEPT !.cmds = Append(@, [cmd |-> "LOAD_DYLIB", name |-> n])]
  BY <1>5, <1>7 DEF HasMore
<1>10. B!LoadDylib(n)
  BY <1>8, <1>9 DEF B!LoadDylib, Drafts
<1>11. B!Edit
  BY <1>1, <1>8, <1>10 DEF B!Edit, Drafts
<1>12. QED
  BY <1>6, <1>11 DEF B!Next

LEMMA RenameStep ==
  ASSUME Inv, NEW n \in Dylibs, NEW lc \in 0..MaxCommands, UpdateLoadDylib(lc, n)
  PROVE  Edited /\ B!Next
<1>1. PICK k : k = lc + 1
  OBVIOUS
<1>2. /\ Modify /\ Unused(n) /\ k \in DOMAIN arch.cmds /\ IsDylib(arch.cmds[k])
      /\ arch' = [arch EXCEPT !.cmds[k].name = n]
      /\ file' = file /\ command' = command /\ runs' = runs /\ first' = first
  BY <1>1 DEF UpdateLoadDylib, Change
<1>3. command = "modify" /\ command \in Running /\ AInv(arch) /\ edits' \in 0..MaxEdits
  BY <1>2, Modifying
<1>4. n \in STRING /\ \A j \in DOMAIN arch.cmds : arch.cmds[j].name # n
  BY <1>2, NamesAssumption DEF Unused
<1>5. HasRenamed(arch, k, n, arch')
  <2>1. IsRenamed(arch, k, n, arch')
    BY <1>2 DEF IsRenamed
  <2>2. QED
    BY <1>2, <1>3, <1>4, <2>1, RenamesDylib
<1>6. Edited
  BY <1>2, <1>3, <1>5 DEF Edited, HasRenamed, SameSymbols, SymbolsKept
<1>7. PICK M, N : M = MeaningOfArch(arch) /\ N = MeaningOfArch(arch')
  OBVIOUS
<1>8. Drafts(M, N)
  BY <1>2, <1>3, <1>7, HasDrafts
<1>9. N = [M EXCEPT !.cmds[k].name = n,
                    !.binds = {IF x.dylib = M.cmds[k].name THEN [x EXCEPT !.dylib = n] ELSE x : x \in @}]
  BY <1>5, <1>7 DEF HasRenamed
<1>10. B!RenameDylib(k, n)
  BY <1>8, <1>9 DEF B!RenameDylib, Drafts
<1>11. k \in DOMAIN M.cmds /\ M.cmds[k].cmd \in {"LOAD_DYLIB", "ID_DYLIB"}
  BY <1>2, <1>7 DEF MeaningOfArch, CommandNames, IsDylib
<1>12. B!Edit
  BY <1>2, <1>8, <1>10, <1>11 DEF B!Edit, Drafts
<1>13. QED
  BY <1>6, <1>12 DEF B!Next

LEMMA RebindStep ==
  ASSUME Inv, NEW r \in Rebinds, NEW lazy \in BOOLEAN, NEW ord \in 1..MaxCommands,
         UpdateBind(r[1], r[2], lazy, ord)
  PROVE  Edited /\ B!Next
<1>1. PICK k, s : k = FirstMatch(r[1], lazy) /\ s = r[2]
  OBVIOUS
<1>2. /\ Modify /\ Matches(r[1], lazy) # {} /\ ord \in DOMAIN LoadDylibs(arch.cmds)
      /\ arch' = [arch EXCEPT !.binds[k].dylib = LoadDylibs(arch.cmds)[ord].id, !.binds[k].sym = s]
      /\ file' = file /\ command' = command /\ runs' = runs /\ first' = first
  BY <1>1 DEF UpdateBind, Change
<1>3. command = "modify" /\ command \in Running /\ AInv(arch) /\ edits' \in 0..MaxEdits
  BY <1>2, Modifying
<1>4. arch.cmds \in Commands /\ arch.binds \in Seq(Bound) /\ arch \in Archive
  BY <1>3, BindType DEF AInv
<1>5. k \in DOMAIN arch.binds
  <2>1. PICK N \in Nat : DOMAIN arch.binds = 1..N
    BY <1>4, Length
  <2>2. PICK S : S = Matches(r[1], lazy)
    OBVIOUS
  <2>3. S \in SUBSET (1..N)
    BY <2>1, <2>2 DEF Matches
  <2>4. k = Nth(S, 1)
    BY <1>1, <2>2 DEF FirstMatch
  <2>5. QED
    BY <1>2, <2>1, <2>2, <2>3, <2>4, Foremost
<1>6. PICK m \in DOMAIN arch.cmds : arch.cmds[m].cmd = "LOAD_DYLIB" /\ LoadDylibs(arch.cmds)[ord] = arch.cmds[m]
  <2>1. PICK T : T = OfTypes(arch.cmds, {"LOAD_DYLIB"})
    OBVIOUS
  <2>2. PICK p : p = Pick(arch.cmds, T)
    OBVIOUS
  <2>3. ord \in DOMAIN p /\ p[ord] = LoadDylibs(arch.cmds)[ord]
    BY <1>2, <2>1, <2>2 DEF LoadDylibs
  <2>4. T \in SUBSET (DOMAIN arch.cmds) /\ \A m \in T : arch.cmds[m].cmd = "LOAD_DYLIB"
    BY <2>1 DEF OfTypes
  <2>5. \A n \in DOMAIN p : Nth(T, n) \in T /\ p[n] = arch.cmds[Nth(T, n)]
    <3>1. PICK C : C = [id : Nat, cmd : Types, name : STRING, sects : Seq(STRING)]
      OBVIOUS
    <3>2. arch.cmds \in Seq(C)
      BY <1>4, <3>1 DEF Commands
    <3>3. QED
      BY <2>2, <2>4, <3>2, Picked
  <2>6. QED
    BY <2>3, <2>4, <2>5
<1>7. IsRebound(arch, k, arch.cmds[m].id, s, arch')
  <2>1. PICK d : d = arch.cmds[m].id
    OBVIOUS
  <2>2. IsBoundTo(arch, k, d, s, arch')
    BY <1>2, <1>6, <2>1 DEF IsBoundTo
  <2>3. QED
    BY <1>4, <1>5, <2>1, <2>2, NestedRebound
<1>8. PICK x : x = BoundInArch(arch.cmds, arch.binds[k])
  OBVIOUS
<1>9. PICK M, N : M = MeaningOfArch(arch) /\ N = MeaningOfArch(arch')
  OBVIOUS
<1>10. /\ AInv(arch') /\ SameSymbols(arch, arch') /\ x \in M.binds
       /\ N = [M EXCEPT !.binds = (@ \ {x}) \cup {Elsewhere(x, arch.cmds[m].name, s)}]
  <2>1. s \in Name
    BY <1>1, NamesAssumption
  <2>2. QED
    BY <1>3, <1>5, <1>6, <1>7, <1>8, <1>9, <2>1, BindsElsewhere
<1>11. Edited
  BY <1>2, <1>3, <1>10 DEF Edited, SameSymbols, SymbolsKept
<1>12. Drafts(M, N)
  BY <1>2, <1>3, <1>9, HasDrafts
<1>13. m \in DOMAIN M.cmds /\ M.cmds[m].cmd = "LOAD_DYLIB" /\ M.cmds[m].name = arch.cmds[m].name
  BY <1>6, <1>9 DEF MeaningOfArch, CommandNames
<1>14. B!Rebind(x, M.cmds[m].name, s)
  BY <1>10, <1>12, <1>13 DEF B!Rebind, Drafts, Elsewhere
<1>15. s \in Droppable \cup {q[2] : q \in Rebinds}
  BY <1>1
<1>16. B!Edit
  BY <1>2, <1>10, <1>12, <1>13, <1>14, <1>15 DEF B!Edit, Drafts
<1>17. QED
  BY <1>11, <1>16 DEF B!Next

LEMMA StripStep ==
  ASSUME Inv, StripBind
  PROVE  Edited /\ B!Next
<1>1. /\ Modify
      /\ arch' = [arch EXCEPT !.binds = [k \in DOMAIN @ |-> CutOff(@[k])]]
      /\ file' = file /\ command' = command /\ runs' = runs /\ first' = first
  BY DEF StripBind, Change
<1>2. command = "modify" /\ command \in Running /\ AInv(arch) /\ edits' \in 0..MaxEdits
  BY <1>1, Modifying
<1>3. IsStripped(arch, arch')
  <2>1. PICK u : u = [k \in DOMAIN arch.binds |-> CutOff(arch.binds[k])]
    OBVIOUS
  <2>2. arch' = [arch EXCEPT !.binds = u]
    BY <1>1, <2>1
  <2>3. QED
    BY <2>1, <2>2 DEF IsStripped
<1>4. PICK M, N : M = MeaningOfArch(arch) /\ N = MeaningOfArch(arch')
  OBVIOUS
<1>5. /\ AInv(arch') /\ SameSymbols(arch, arch') /\ N = [M EXCEPT !.binds = {Shorter(x) : x \in @}]
  BY <1>2, <1>3, <1>4, StripsBinds
<1>6. Edited
  BY <1>1, <1>2, <1>5 DEF Edited, SameSymbols, SymbolsKept
<1>7. Drafts(M, N)
  BY <1>1, <1>2, <1>4, HasDrafts
<1>8. B!Strip(Suffix)
  BY <1>5, <1>7 DEF B!Strip, Drafts, Shorter
<1>9. B!Edit
  BY <1>1, <1>7, <1>8 DEF B!Edit, Drafts
<1>10. QED
  BY <1>6, <1>9 DEF B!Next

LEMMA RemoveStep ==
  ASSUME Inv, NEW n \in Droppable, Modify, Change(Removed(arch, n))
  PROVE  Edited /\ B!Next
<1>1. /\ arch' = Removed(arch, n)
      /\ file' = file /\ command' = command /\ runs' = runs /\ first' = first
  BY DEF Change
<1>2. command = "modify" /\ command \in Running /\ AInv(arch) /\ edits' \in 0..MaxEdits
  BY Modifying
<1>3. PICK M, N : M = MeaningOfArch(arch) /\ N = MeaningOfArch(arch')
  OBVIOUS
<1>4. /\ AInv(arch') /\ arch'.syms = Others(arch.syms, n) /\ arch'.indirect = arch.indirect
      /\ N = [M EXCEPT !.syms = {s \in @ : s.name # n}]
  BY <1>1, <1>2, <1>3, DropsSymbol
<1>5. Edited
  BY <1>1, <1>2, <1>4 DEF Edited, SymbolsKept
<1>6. Drafts(M, N)
  BY <1>1, <1>2, <1>3, HasDrafts
<1>7. B!DropSymbol(n)
  BY <1>4, <1>6 DEF B!DropSymbol, Drafts
<1>8. B!Edit
  BY <1>1, <1>6, <1>7 DEF B!Edit, Drafts
<1>9. QED
  BY <1>5, <1>8 DEF B!Next

LEMMA SegmentStep ==
  ASSUME Inv, NEW n \in Removable, DeleteSegment(n)
  PROVE  Edited /\ (B!Next \/ UNCHANGED B!vars)
<1>1. PICK at : at = {k \in DOMAIN arch.cmds : IsSegment(arch.cmds[k]) /\ arch.cmds[k].name = n}
  OBVIOUS
<1>2. /\ Modify
      /\ arch' = IF at = {} THEN arch ELSE [arch EXCEPT !.cmds = Pick(@, DOMAIN @ \ {Nth(at, 1)})]
      /\ file' = file /\ command' = command /\ runs' = runs /\ first' = first
  BY <1>1 DEF DeleteSegment, Change
<1>3. command = "modify" /\ command \in Running /\ AInv(arch) /\ edits' \in 0..MaxEdits
  BY <1>2, Modifying
<1>4. CASE at = {}
  <2>1. arch' = arch
    BY <1>2, <1>4
  <2>2. Edited
    BY <1>2, <1>3, <2>1 DEF Edited, SymbolsKept
  <2>3. UNCHANGED B!vars
    BY <1>2, <2>1 DEF B!vars
  <2>4. QED
    BY <2>2, <2>3
<1>5. CASE at # {}
  <2>1. WithoutFirst(arch, at, arch')
    BY <1>2, <1>5 DEF WithoutFirst
  <2>2. PICK M, N : M = MeaningOfArch(arch) /\ N = MeaningOfArch(arch')
    OBVIOUS
  <2>3. /\ AInv(arch') /\ SameSymbols(arch, arch')
        /\ N = [M EXCEPT !.cmds = Pick(@, {k \in DOMAIN @ : ~ (@[k].cmd = "SEGMENT" /\ @[k].name = n)})]
    <3>1. HasDropped(arch, n, arch')
      BY <1>1, <1>3, <1>5, <2>1, DropsSegment
    <3>2. QED
      BY <2>2, <3>1 DEF HasDropped
  <2>4. Edited
    BY <1>2, <1>3, <2>3 DEF Edited, SameSymbols, SymbolsKept
  <2>5. Drafts(M, N)
    BY <1>2, <1>3, <2>2, HasDrafts
  <2>6. B!DropSegment(n)
    BY <2>3, <2>5, PickSame DEF B!DropSegment, Drafts
  <2>7. B!Edit
    BY <1>2, <2>5, <2>6 DEF B!Edit, Drafts
  <2>8. QED
    BY <2>4, <2>7 DEF B!Next
<1>6. QED
  BY <1>4, <1>5

LEMMA ConvertStep ==
  ASSUME Inv, NEW n \in Dylibs, command = "convert", Unused(n), edits < MaxEdits, edits' = edits + 1,
         arch' = [Removed(arch, Header) EXCEPT
              !.type = "DYLIB",
              !.cmds = RemoveIrrelevant(RemovePagezero(Append(@, NewCommand("ID_DYLIB", n)))),
              !.next = @ + 1,
              !.flags = (@ \cup {"NO_REEXPORTED_DYLIBS"}) \ {"PIE"}],
         command' = "converted", file' = file, runs' = runs, first' = first
  PROVE  Edited /\ B!Next
<1>1. command \in Running /\ command' \in Running
  BY DEF Running
<1>2. AInv(arch) /\ edits' \in 0..MaxEdits
  BY BoundsAssumption DEF Inv, ArchInv
<1>3. PICK e : e = [id |-> arch.next, cmd |-> "ID_DYLIB", name |-> n, sects |-> <<>>]
  OBVIOUS
<1>4. IsConverted(arch, e, arch')
  BY <1>3 DEF IsConverted, NewCommand
<1>5. IsDylibOf(arch, n, arch')
  <2>1. n \in STRING /\ \A k \in DOMAIN arch.cmds : arch.cmds[k].name # n
    BY NamesAssumption DEF Unused
  <2>2. QED
    BY <1>2, <1>3, <1>4, <2>1, BecomesDylib
<1>6. Edited
  BY <1>1, <1>2, <1>5 DEF Edited, IsDylibOf, SymbolsKept
<1>7. PICK M, N : M = MeaningOfArch(arch) /\ N = MeaningOfArch(arch')
  OBVIOUS
<1>8. Drafts(M, N)
  BY <1>1, <1>7, HasDrafts
<1>9. PICK c, b, s, t, f : M = [cmds |-> c, binds |-> b, syms |-> s, type |-> t, flags |-> f]
  BY <1>7 DEF MeaningOfArch
<1>10. M.cmds = c /\ M.binds = b /\ M.syms = s /\ M.flags = f
  BY <1>9
<1>11. PICK C, S, F, d :
         /\ d = [cmd |-> "ID_DYLIB", name |-> n] /\ C = Append(Less(c, OfExecutableOnly), d)
         /\ S = {x \in s : x.name # Header} /\ F = (f \cup {"NO_REEXPORTED_DYLIBS"}) \ {"PIE"}
  OBVIOUS
<1>12. N = [cmds |-> C, binds |-> b, syms |-> S, type |-> "DYLIB", flags |-> F]
  BY <1>5, <1>7, <1>10, <1>11 DEF IsDylibOf
<1>13. PICK L : L = [M EXCEPT !.type = "DYLIB", !.flags = F, !.cmds = C, !.syms = S]
  OBVIOUS
<1>14. L = [cmds |-> C, binds |-> b, syms |-> S, type |-> "DYLIB", flags |-> F]
  BY <1>9, <1>13, Zenon
<1>15. Less(c, OfExecutableOnly) = B!Pick(c, {k \in DOMAIN c : ~B!OfExecutable(c[k])})
  <2>1. c \in Seq(CommandName)
    <3>1. c = CommandNames(arch.cmds)
      BY <1>7, <1>10 DEF MeaningOfArch
    <3>2. QED
      BY <1>2, <3>1, Descriptions
  <2>2. \A k \in DOMAIN c : c[k] \in CommandName
    BY <2>1, Elements
  <2>3. \A k \in DOMAIN c : c[k] \notin OfExecutableOnly <=> ~B!OfExecutable(c[k])
    BY <2>2 DEF OfExecutableOnly, PagezeroName, OfCommand, B!OfExecutable
  <2>4. {k \in DOMAIN c : c[k] \notin OfExecutableOnly} = {k \in DOMAIN c : ~B!OfExecutable(c[k])}
    BY <2>3
  <2>5. QED
    BY <2>4, PickSame DEF Less
<1>16. L = [M EXCEPT !.type = "DYLIB",
                     !.flags = (@ \cup {"NO_REEXPORTED_DYLIBS"}) \ {"PIE"},
                     !.cmds = Append(B!Pick(@, {k \in DOMAIN @ : ~B!OfExecutable(@[k])}),
                                     [cmd |-> "ID_DYLIB", name |-> n]),
                     !.syms = {x \in @ : x.name # Header}]
  <2>1. PICK K : K = [M EXCEPT !.type = "DYLIB",
                               !.flags = (M.flags \cup {"NO_REEXPORTED_DYLIBS"}) \ {"PIE"},
                               !.cmds = Append(B!Pick(M.cmds, {k \in DOMAIN M.cmds : ~B!OfExecutable(M.cmds[k])}),
                                               [cmd |-> "ID_DYLIB", name |-> n]),
                               !.syms = {x \in M.syms : x.name # Header}]
    OBVIOUS
  <2>2. K = L
    BY <1>10, <1>11, <1>13, <1>15, <2>1
  <2>3. QED
    BY <2>1, <2>2
<1>17. B!BecomeDylib(n)
  <2>1. N = [M EXCEPT !.type = "DYLIB",
                      !.flags = (@ \cup {"NO_REEXPORTED_DYLIBS"}) \ {"PIE"},
                      !.cmds = Append(B!Pick(@, {k \in DOMAIN @ : ~B!OfExecutable(@[k])}),
                                      [cmd |-> "ID_DYLIB", name |-> n]),
                      !.syms = {x \in @ : x.name # Header}]
    BY <1>12, <1>14, <1>16
  <2>2. QED
    BY <1>8, <2>1 DEF B!BecomeDylib, Drafts
<1>18. B!Edit
  BY <1>8, <1>17 DEF B!Edit, Drafts
<1>19. QED
  BY <1>6, <1>18 DEF B!Next

LEMMA ThrowStep ==
  ASSUME Inv, Throw, edits' \in 0..MaxEdits
  PROVE  Inv' /\ B!Next
<1>1. arch' = NoArch /\ command' = "none" /\ file' = file /\ runs' = runs /\ first' = first
  BY DEF Throw
<1>2. Inv'
  BY <1>1 DEF Inv, FileInv
<1>3. B!Fail
  BY <1>1 DEF B!Fail, B!Closed, NoArch
<1>4. QED
  BY <1>2, <1>3 DEF B!Next

LEMMA OpenStep ==
  ASSUME Inv, NEW c \in {"modify", "convert"}, Open(c)
  PROVE  Inv' /\ B!Next
<1>1. /\ command = "none" /\ command' = c /\ arch' = Parse(file) /\ runs' = runs + 1 /\ runs < MaxRuns
      /\ file' = file /\ edits' = edits /\ first' = first
  BY DEF Open
<1>2. FInv(file) /\ file.indirect = first.indirect /\ Follows(NamesIn(first), NamesIn(file))
  BY DEF Inv, FileInv
<1>3. AInv(arch') /\ MeaningOfArch(arch') = MeaningOfFile(file) /\ SameNames(file, arch')
  BY <1>1, <1>2, Parsing
<1>4. ArchInv'
  <2>1. NamesOf(arch'.syms) = NamesIn(file)
    BY <1>3, SameOrder
  <2>2. arch'.indirect = first.indirect
    BY <1>2, <1>3 DEF SameNames
  <2>3. QED
    BY <1>1, <1>2, <1>3, <2>1, <2>2 DEF ArchInv
<1>5. runs' \in 0..MaxRuns
  BY <1>1, BoundsAssumption DEF Inv
<1>6. Inv'
  BY <1>1, <1>4, <1>5 DEF Inv, FileInv, Running
<1>7. B!Open
  BY <1>1, <1>3 DEF B!Open, B!Closed, NoArch
<1>8. QED
  BY <1>6, <1>7 DEF B!Next

LEMMA SaveStep ==
  ASSUME Inv, Save
  PROVE  Inv' /\ B!Next
<1>1. /\ command \in {"modify", "converted"} /\ command' = "none" /\ arch' = NoArch /\ file' = Written(arch)
      /\ runs' = runs /\ edits' = edits /\ first' = first
  BY DEF Save
<1>2. AInv(arch) /\ arch.indirect = first.indirect /\ Follows(NamesIn(first), NamesOf(arch.syms))
  BY <1>1 DEF Inv, ArchInv
<1>3. FInv(file') /\ MeaningOfFile(file') = MeaningOfArch(arch) /\ SameNames(file', arch)
  BY <1>1, <1>2, Writing
<1>4. FileInv'
  <2>1. NamesOf(arch.syms) = NamesIn(file')
    BY <1>3, SameOrder
  <2>2. file'.indirect = first.indirect
    BY <1>2, <1>3 DEF SameNames
  <2>3. QED
    BY <1>1, <1>2, <1>3, <2>1, <2>2 DEF FileInv
<1>5. Inv'
  BY <1>1, <1>4 DEF Inv
<1>6. MeaningOfArch(arch) # B!Closed
  BY NotClosed
<1>7. B!Save
  BY <1>1, <1>3, <1>6 DEF B!Save, B!Closed, NoArch
<1>8. QED
  BY <1>5, <1>7 DEF B!Next

(* Flags are set in the file.                                              *)
IsFlagged(f, flags, g) == g = [f EXCEPT !.flags = flags]
HasFlags(f, flags, g) ==
  /\ FInv(g) /\ NamesIn(g) = NamesIn(f) /\ g.indirect = f.indirect
  /\ MeaningOfFile(g) = [MeaningOfFile(f) EXCEPT !.flags = flags]

LEMMA SetsFlags ==
  ASSUME NEW f, FInv(f), NEW flags \in SUBSET HeaderFlags, NEW g, IsFlagged(f, flags, g)
  PROVE  HasFlags(f, flags, g)
<1>1. /\ g.cmds = f.cmds /\ g.binds = f.binds /\ g.syms = f.syms /\ g.strs = f.strs /\ g.counts = f.counts
      /\ g.indirect = f.indirect /\ g.type = f.type /\ g.flags = flags /\ g \in File
  <2>1. f \in File
    BY DEF FInv
  <2>2. PICK C, R, S : /\ C = Seq([cmd : Types, name : STRING, sects : Seq(STRING)])
                       /\ R = Seq([seg : Nat, off : Nat, ord : Nat, sym : Name, lazy : BOOLEAN])
                       /\ S = Seq([strx : Nat, kind : {"LOCAL", "EXT", "UNDEF"}, sect : Nat])
    OBVIOUS
  <2>3. File = [cmds : C, binds : R, syms : S, strs : Seq(Name), counts : [1..3 -> Nat], indirect : Seq(Nat),
                type : {"EXECUTE", "DYLIB"}, flags : SUBSET HeaderFlags]
    BY <2>2 DEF File
  <2>4. QED
    BY <2>1, <2>3 DEF IsFlagged
<1>2. FInv(g)
  BY <1>1 DEF FInv, Numbered, Sorted
<1>3. /\ \A k : BoundInFile(g, k) = BoundInFile(f, k)
      /\ \A k : SymbolInFile(g, k) = SymbolInFile(f, k)
      /\ \A k : NameAt(g, k) = NameAt(f, k)
  BY <1>1 DEF BoundInFile, SymbolInFile, NameAt
<1>4. NamesIn(g) = NamesIn(f)
  BY <1>1, <1>3 DEF NamesIn
<1>5. PICK X, Y : X = {BoundInFile(f, k) : k \in DOMAIN f.binds} /\ Y = {SymbolInFile(f, k) : k \in DOMAIN f.syms}
  OBVIOUS
<1>6. {BoundInFile(g, k) : k \in DOMAIN g.binds} = X /\ {SymbolInFile(g, k) : k \in DOMAIN g.syms} = Y
  BY <1>1, <1>3, <1>5
<1>7. PICK M, c, t : M = MeaningOfFile(f) /\ c = CommandNames(f.cmds) /\ t = f.type
  OBVIOUS
<1>8. M = [cmds |-> c, binds |-> X, syms |-> Y, type |-> t, flags |-> f.flags]
  BY <1>5, <1>7 DEF MeaningOfFile
<1>9. MeaningOfFile(g) = [cmds |-> c, binds |-> X, syms |-> Y, type |-> t, flags |-> flags]
  BY <1>1, <1>6, <1>7 DEF MeaningOfFile
<1>10. MeaningOfFile(g) = [M EXCEPT !.flags = flags]
  BY <1>8, <1>9
<1>11. QED
  BY <1>1, <1>2, <1>4, <1>7, <1>10 DEF HasFlags

LEMMA TweakStep ==
  ASSUME Inv, NEW flag \in {"PIE"}, NEW on \in BOOLEAN, Tweak(flag, on)
  PROVE  Inv' /\ B!Next
<1>1. PICK flags : flags = IF on THEN file.flags \cup {flag} ELSE file.flags \ {flag}
  OBVIOUS
<1>2. /\ command = "none" /\ runs < MaxRuns /\ runs' = runs + 1
      /\ file' = [file EXCEPT !.flags = flags]
      /\ arch' = arch /\ command' = command /\ edits' = edits /\ first' = first
  BY <1>1 DEF Tweak
<1>3. FInv(file) /\ file.indirect = first.indirect /\ Follows(NamesIn(first), NamesIn(file))
  BY DEF Inv, FileInv
<1>4. flags \in SUBSET HeaderFlags
  BY <1>1, <1>3 DEF FInv, File, HeaderFlags
<1>5. HasFlags(file, flags, file')
  <2>1. IsFlagged(file, flags, file')
    BY <1>2 DEF IsFlagged
  <2>2. QED
    BY <1>3, <1>4, <2>1, SetsFlags
<1>6. runs' \in 0..MaxRuns
  BY <1>2, BoundsAssumption DEF Inv
<1>7. Inv'
  BY <1>2, <1>3, <1>5, <1>6 DEF Inv, FileInv, HasFlags
<1>8. PICK M, N : M = MeaningOfFile(file) /\ N = MeaningOfFile(file')
  OBVIOUS
<1>9. M.flags = file.flags
  BY <1>8 DEF MeaningOfFile
<1>10. N = [M EXCEPT !.flags = IF on THEN @ \cup {flag} ELSE @ \ {flag}]
  BY <1>1, <1>5, <1>8, <1>9 DEF HasFlags
<1>11. B!SetFlag(flag, on)
  BY <1>2, <1>8, <1>10 DEF B!SetFlag, B!Closed, NoArch
<1>12. QED
  BY <1>7, <1>11 DEF B!Next

-----------------------------------------------------------------------------
LEMMA InitInv ==
  ASSUME Init
  PROVE  Inv /\ B!Init
<1>1. /\ file \in Files /\ first = file /\ arch = NoArch /\ command = "none" /\ runs = 0 /\ edits = 0
  BY DEF Init
<1>2. FInv(file)
  BY <1>1, FilesAssumption DEF FInv
<1>3. Follows(NamesIn(first), NamesIn(file))
  <2>1. PICK M \in Nat : DOMAIN NamesIn(file) = 1..M
    BY <1>2, Orders
  <2>2. QED
    BY <1>1, <2>1 DEF Follows
<1>4. Inv
  BY <1>1, <1>2, <1>3, BoundsAssumption DEF Inv, FileInv
<1>5. B!Init
  BY <1>1 DEF B!Init, B!Closed, NoArch
<1>6. QED
  BY <1>4, <1>5

LEMMA Steps ==
  ASSUME Inv, [Next]_vars
  PROVE  Inv' /\ [B!Next]_(B!vars)
<1>1. CASE UNCHANGED vars
  <2>1. Inv'
    BY <1>1 DEF Inv, FileInv, ArchInv, vars
  <2>2. UNCHANGED B!vars
    BY <1>1 DEF vars, B!vars
  <2>3. QED
    BY <2>1, <2>2
<1>2. ASSUME NEW c \in {"modify", "convert"}, Open(c) PROVE Inv' /\ B!Next
  BY <1>2, OpenStep
<1>3. CASE Save
  BY <1>3, SaveStep
<1>4. ASSUME NEW n \in Dylibs, InsertLoadDylib(n) PROVE Inv' /\ B!Next
  BY <1>4, InsertStep, EditedInv
<1>5. ASSUME NEW n \in Dylibs, ConvertToDylib(n) PROVE Inv' /\ B!Next
  <2>1. command = "convert" /\ Unused(n) /\ edits < MaxEdits /\ edits' = edits + 1
    BY <1>5 DEF ConvertToDylib
  <2>2. CASE Throw
    <3>1. edits' \in 0..MaxEdits
      BY <2>1, BoundsAssumption DEF Inv
    <3>2. QED
      BY <2>2, <3>1, ThrowStep
  <2>3. CASE /\ arch' = [Removed(arch, Header) EXCEPT
                  !.type = "DYLIB",
                  !.cmds = RemoveIrrelevant(RemovePagezero(Append(@, NewCommand("ID_DYLIB", n)))),
                  !.next = @ + 1,
                  !.flags = (@ \cup {"NO_REEXPORTED_DYLIBS"}) \ {"PIE"}]
             /\ command' = "converted" /\ file' = file /\ runs' = runs /\ first' = first
    <3>1. Edited /\ B!Next
      BY <2>1, <2>3, ConvertStep
    <3>2. QED
      BY <3>1, EditedInv
  <2>4. QED
    BY <1>5, <2>2, <2>3 DEF ConvertToDylib
<1>6. ASSUME NEW n \in Dylibs, NEW lc \in 0..MaxCommands, UpdateLoadDylib(lc, n) PROVE Inv' /\ B!Next
  BY <1>6, RenameStep, EditedInv
<1>7. ASSUME NEW lc \in 0..MaxCommands, UpdateNoDylib(lc) PROVE Inv' /\ B!Next
  BY <1>7, Modifying, ThrowStep DEF UpdateNoDylib
<1>8. ASSUME NEW r \in Rebinds, NEW lazy \in BOOLEAN, UpdateNoBind(r[1], lazy) PROVE Inv' /\ B!Next
  BY <1>8, Modifying, ThrowStep DEF UpdateNoBind
<1>9. ASSUME NEW r \in Rebinds, NEW lazy \in BOOLEAN, NEW ord \in 1..MaxCommands,
             UpdateBind(r[1], r[2], lazy, ord)
      PROVE  Inv' /\ B!Next
  BY <1>9, RebindStep, EditedInv
<1>10. CASE StripBind
  BY <1>10, StripStep, EditedInv
<1>11. CASE StripNoInfo
  BY <1>11, Modifying, ThrowStep DEF StripNoInfo
<1>12. ASSUME NEW n \in Droppable, DeleteSymbol(n) PROVE Inv' /\ B!Next
  <2>1. Modify
    BY <1>12 DEF DeleteSymbol
  <2>2. CASE Change(Removed(arch, n))
    BY <2>1, <2>2, RemoveStep, EditedInv
  <2>3. CASE Throw
    BY <2>1, <2>3, Modifying, ThrowStep
  <2>4. QED
    BY <1>12, <2>2, <2>3 DEF DeleteSymbol
<1>13. CASE DeleteNoSymtab
  BY <1>13, Modifying, ThrowStep DEF DeleteNoSymtab
<1>14. ASSUME NEW n \in Removable, DeleteSegment(n) PROVE Inv' /\ (B!Next \/ UNCHANGED B!vars)
  BY <1>14, SegmentStep, EditedInv
<1>15. CASE ConvertNoSymtab
  <2>1. edits' \in 0..MaxEdits
    BY <1>15 DEF ConvertNoSymtab, Inv
  <2>2. QED
    BY <1>15, <2>1, ThrowStep DEF ConvertNoSymtab
<1>16. ASSUME NEW f \in {"PIE"}, NEW on \in BOOLEAN, Tweak(f, on) PROVE Inv' /\ B!Next
  BY <1>16, TweakStep
<1>17. QED
  BY <1>1, <1>2, <1>3, <1>4, <1>5, <1>6, <1>7, <1>8, <1>9, <1>10, <1>11, <1>12, <1>13, <1>14, <1>15, <1>16
     DEF Next

(* The invariant from which all the properties follow: the file and the   *)
(* running command's archive name what they speak of, whatever the edits.  *)
THEOREM Invariance == Spec => []Inv
<1>1. Init => Inv
  BY InitInv
<1>2. Inv /\ [Next]_vars => Inv'
  BY Steps
<1>3. QED
  BY <1>1, <1>2, PTL DEF Spec

(* Every number in a file has an object, and a command its archive.        *)
THEOREM EditsTypes == Spec => []TypeOK
<1>1. Inv => TypeOK
  <2> SUFFICES ASSUME Inv PROVE TypeOK
    OBVIOUS
  <2>1. file \in File /\ Numbered(file)
    BY DEF Inv, FileInv, FInv
  <2>2. (arch = NoArch) = (command = "none")
    <3>1. CASE command = "none"
      BY <3>1 DEF Inv
    <3>2. CASE command # "none"
      <4>1. arch \in Archive
        BY <3>2 DEF Inv, ArchInv, AInv
      <4>2. QED
        BY <3>2, <4>1, NotClosed
    <3>3. QED
      BY <3>1, <3>2
  <2>3. QED
    BY <2>1, <2>2 DEF TypeOK, Inv
<1>2. QED
  BY <1>1, Invariance, PTL

(* After any edits LC_DYSYMTAB counts the symbols of each kind rightly.    *)
THEOREM SymbolsPartitioned == Spec => []Partition
<1>1. Inv => Partition
  BY DEF Inv, FileInv, FInv, Partition
<1>2. QED
  BY <1>1, Invariance, PTL

(* Indirect symbols keep naming the symbol that they named, as long as no  *)
(* symbol that stands before it has been removed.                          *)
THEOREM IndirectsFollow == Spec => []IndirectFollows
<1>1. Inv => IndirectFollows
  <2> SUFFICES ASSUME Inv, NEW k \in DOMAIN file.indirect,
                      \A r \in 1..first.indirect[k] : NameAt(first, r) \in Names(file)
               PROVE  NameAt(file, file.indirect[k]) = NameAt(first, first.indirect[k])
    BY DEF IndirectFollows
  <2>1. first \in Files /\ file.indirect = first.indirect /\ Follows(NamesIn(first), NamesIn(file))
    BY DEF Inv, FileInv
  <2>2. PICK n : n = first.indirect[k]
    OBVIOUS
  <2>3. n \in DOMAIN first.syms
    BY <2>1, <2>2, FirstIs
  <2>4. PICK M \in Nat : DOMAIN first.syms = 1..M
    BY <2>1, FirstIs, Orders DEF NamesIn
  <2>5. PICK o, p : o = NamesIn(first) /\ p = NamesIn(file)
    OBVIOUS
  <2>6. /\ DOMAIN o = DOMAIN first.syms /\ \A r \in DOMAIN o : o[r] = NameAt(first, r)
        /\ DOMAIN p = DOMAIN file.syms /\ \A r \in DOMAIN p : p[r] = NameAt(file, r)
    BY <2>5 DEF NamesIn
  <2>7. \A r \in 1..n : Occurs(o[r], p)
    <3>1. ASSUME NEW r \in 1..n PROVE Occurs(o[r], p)
      <4>1. r \in DOMAIN o
        BY <2>3, <2>4, <2>6
      <4>2. PICK j \in DOMAIN file.syms : NameAt(file, j) = NameAt(first, r)
        BY <2>2 DEF Names
      <4>3. QED
        BY <2>6, <4>1, <4>2 DEF Occurs
    <3>2. QED
      BY <3>1
  <2>8. n \in DOMAIN p /\ p[n] = o[n]
    <3>1. \A r \in 1..n : r \in DOMAIN p /\ p[r] = o[r]
      BY <2>1, <2>3, <2>5, <2>6, <2>7 DEF Follows
    <3>2. n \in 1..n
      BY <2>3, <2>4
    <3>3. QED
      BY <3>1, <3>2
  <2>9. QED
    BY <2>1, <2>2, <2>3, <2>6, <2>8
<1>2. QED
  BY <1>1, Invariance, PTL

(* The commands edit what a user takes the file for: see module Binary.    *)
THEOREM EditsImplement == Spec => Implements
<1>1. Init => B!Init
  BY InitInv
<1>2. Inv /\ [Next]_vars => [B!Next]_(B!vars)
  BY Steps
<1>3. QED
  BY <1>1, <1>2, Invariance, PTL DEF Spec, Implements, B!Spec
=============================================================================
