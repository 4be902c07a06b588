-------------------------- MODULE TransformProofs --------------------------
(***************************************************************************)
(* Theorems about Transform: PointersToFirst and SameEffect hold for every *)
(* program, with any number of blobs and nodes.                            *)
(*                                                                         *)
(* The invariant follows the resolver and the new archive side by side.    *)
(* For some A, the key each pointer was asked with, a pointer is bound to  *)
(* what was found for its key or waits for it (Serves).  A is what the new *)
(* blobs and nodes say (Linked), and what was found for a blob is the      *)
(* first of the blobs made of it, which lie one behind the other (Made).   *)
(*                                                                         *)
(* For SameEffect the programs are run side by side.  Agree relates two    *)
(* machines that are compared; Step32 and Step64 are what each does next.  *)
(* FollowsAll: the new program gets in at most five steps to where it      *)
(* agrees with the old one after its step, for every instruction.  A stub  *)
(* helper pushes words of four bytes in one and of eight in the other, so  *)
(* the programs agree again only after the binder (HelperLate).  The       *)
(* invariant is what is left to do for the one whose turn it is: Late for  *)
(* the old program, Arrives for the new one.                               *)
(***************************************************************************)
EXTENDS Transform, ResolverOpsProofs, SequenceTheorems, WellFoundedInduction

-----------------------------------------------------------------------------
(* What a blob becomes.                                                    *)

Special == {"word", "lazy", "helper"}

(* Blobs of which at most one points, namely to what key says.             *)
Pointing(list, key) ==
  /\ (\E S : list \in Seq(S)) /\ 1 \in DOMAIN list
  /\ \A k \in DOMAIN list : list[k].op \notin Special /\ (Points(list[k]) => list[k].disp = key)
  /\ \A x, y \in DOMAIN list : Points(list[x]) /\ Points(list[y]) => x = y
Plain(list) ==
  /\ (\E S : list \in Seq(S)) /\ 1 \in DOMAIN list
  /\ \A k \in DOMAIN list : list[k].op \notin Special /\ ~Points(list[k])

LEMMA Joined ==
  ASSUME NEW a, NEW b, \E S : a \in Seq(S), \E S : b \in Seq(S)
  PROVE  /\ \E S : a \o b \in Seq(S)
         /\ 1 \in DOMAIN a => 1 \in DOMAIN (a \o b)
         /\ Len(a) \in Nat /\ Len(b) \in Nat /\ Len(a \o b) = Len(a) + Len(b)
         /\ \A k \in DOMAIN (a \o b) :
              \/ k \in DOMAIN a /\ (a \o b)[k] = a[k]
              \/ k - Len(a) \in DOMAIN b /\ (a \o b)[k] = b[k - Len(a)]
         /\ \A k \in DOMAIN a : k \in DOMAIN (a \o b) /\ (a \o b)[k] = a[k]
         /\ \A k \in DOMAIN b : Len(a) + k \in DOMAIN (a \o b) /\ (a \o b)[Len(a) + k] = b[k]
<1>1. PICK S : a \in Seq(S)
  OBVIOUS
<1>2. PICK T : b \in Seq(T)
  OBVIOUS
<1>3. PICK W : W = S \cup T
  OBVIOUS
<1>4. a \in Seq(W) /\ b \in Seq(W)
  BY <1>1, <1>2, <1>3
<1>5. PICK m \in Nat : m = Len(a) /\ DOMAIN a = 1..m
  BY <1>4
<1>6. PICK n \in Nat : n = Len(b) /\ DOMAIN b = 1..n
  BY <1>4
<1>7. PICK c : c = a \o b
  OBVIOUS
<1>8. /\ c \in Seq(W) /\ Len(c) = m + n /\ DOMAIN c = 1..(m + n)
      /\ \A k \in 1..(m + n) : c[k] = IF k <= m THEN a[k] ELSE b[k - m]
  BY <1>4, <1>5, <1>6, <1>7
<1>9. ASSUME NEW k \in DOMAIN c
      PROVE  \/ k \in DOMAIN a /\ c[k] = a[k]
             \/ k - m \in DOMAIN b /\ c[k] = b[k - m]
  <2>1. CASE k <= m
    BY <1>5, <1>8, <2>1
  <2>2. CASE ~(k <= m)
    <3>1. k - m \in 1..n
      BY <1>8, <2>2
    <3>2. QED
      BY <1>6, <1>8, <2>2, <3>1
  <2>3. QED
    BY <2>1, <2>2
<1>10. \A k \in DOMAIN a : k \in DOMAIN c /\ c[k] = a[k]
  BY <1>5, <1>8
<1>11. ASSUME NEW k \in DOMAIN b PROVE m + k \in DOMAIN c /\ c[m + k] = b[k]
  <2>1. k \in 1..n
    BY <1>6
  <2>2. PICK x \in Int : x = m + k
    BY <2>1
  <2>3. x \in 1..(m + n) /\ ~(x <= m) /\ x - m = k
    BY <2>1, <2>2
  <2>4. QED
    BY <1>8, <2>2, <2>3
<1>12. QED
  BY <1>5, <1>6, <1>7, <1>8, <1>9, <1>10, <1>11

LEMMA PlainJoined ==
  ASSUME NEW a, NEW b, Plain(a), Plain(b)
  PROVE  Plain(a \o b)
<1>1. PICK c : c = a \o b
  OBVIOUS
<1>2. /\ (\E S : c \in Seq(S)) /\ 1 \in DOMAIN c
      /\ \A k \in DOMAIN c : \/ k \in DOMAIN a /\ c[k] = a[k]
                             \/ k - Len(a) \in DOMAIN b /\ c[k] = b[k - Len(a)]
  BY <1>1, Joined DEF Plain
<1>3. Plain(c)
  BY <1>2 DEF Plain
<1>4. QED
  BY <1>1, <1>3

LEMMA PointingJoined ==
  ASSUME NEW a, NEW b, NEW key, Plain(a), Pointing(b, key)
  PROVE  Pointing(a \o b, key)
<1>1. PICK c : c = a \o b
  OBVIOUS
<1>2. /\ (\E S : c \in Seq(S)) /\ 1 \in DOMAIN c
      /\ Len(a) \in Nat
      /\ \A k \in DOMAIN c : \/ k \in DOMAIN a /\ c[k] = a[k]
                             \/ k - Len(a) \in DOMAIN b /\ c[k] = b[k - Len(a)]
  <2>1. /\ (\E S : a \in Seq(S)) /\ (\E S : b \in Seq(S)) /\ 1 \in DOMAIN a
    BY DEF Plain, Pointing
  <2>2. QED
    BY <1>1, <2>1, Joined
<1>3. \A k \in DOMAIN c : c[k].op \notin Special /\ (Points(c[k]) => c[k].disp = key)
  BY <1>2 DEF Plain, Pointing
<1>4. ASSUME NEW x \in DOMAIN c, NEW y \in DOMAIN c, Points(c[x]), Points(c[y])
      PROVE  x = y
  <2>1. /\ x - Len(a) \in DOMAIN b /\ c[x] = b[x - Len(a)]
        /\ y - Len(a) \in DOMAIN b /\ c[y] = b[y - Len(a)]
    BY <1>2, <1>4 DEF Plain
  <2>2. x - Len(a) = y - Len(a)
    BY <1>4, <2>1 DEF Pointing
  <2>3. x \in Int /\ y \in Int
    BY <1>2
  <2>4. QED
    BY <1>2, <2>2, <2>3
<1>5. Pointing(c, key)
  BY <1>2, <1>3, <1>4 DEF Pointing
<1>6. QED
  BY <1>1, <1>5

LEMMA One ==
  ASSUME NEW e
  PROVE  /\ \E S : <<e>> \in Seq(S)
         /\ Len(<<e>>) = 1 /\ DOMAIN <<e>> = {1} /\ <<e>>[1] = e
         /\ e.op \notin Special /\ ~Points(e) => Plain(<<e>>)
         /\ \A key : e.op \notin Special /\ (Points(e) => e.disp = key) => Pointing(<<e>>, key)
<1>1. PICK l : l = <<e>>
  OBVIOUS
<1>2. l \in Seq({e}) /\ Len(l) = 1 /\ DOMAIN l = {1} /\ l[1] = e
  BY <1>1
<1>3. e.op \notin Special /\ ~Points(e) => Plain(l)
  BY <1>2 DEF Plain
<1>4. \A key : e.op \notin Special /\ (Points(e) => e.disp = key) => Pointing(l, key)
  BY <1>2 DEF Pointing
<1>5. QED
  BY <1>1, <1>2, <1>3, <1>4

(* The instructions that replace others, before and behind the one that    *)
(* points.                                                                 *)
LEMMA OpFields ==
  ASSUME NEW op, op \notin Special
  PROVE  /\ Op(op).op = op /\ Op(op).disp = Nowhere /\ ~Points(Op(op))
         /\ Op(op) = [op |-> op, reg |-> "none", base |-> "none", n |-> 0, disp |-> Nowhere]
BY DEF Op, Nowhere, Points

LEMMA Sequences ==
  /\ \A r : Plain(PushR32(r)) /\ Plain(PopR32(r))
  /\ \A n : Plain(PushImm(n))
  /\ \A e, key : e.op \notin Special /\ (Points(e) => e.disp = key) => Pointing(CallOp(e), key)
<1>1. PushAx.op \notin Special /\ ~Points(PushAx)
  BY DEF PushAx, Op, Nowhere, Points, Special
<1>2. \A r : Store(r).op \notin Special /\ ~Points(Store(r))
  BY DEF Store, Op, Nowhere, Points, Special
<1>3. \A n : StoreImm(n).op \notin Special /\ ~Points(StoreImm(n))
  BY DEF StoreImm, Op, Nowhere, Points, Special
<1>4. \A r : Load(r).op \notin Special /\ ~Points(Load(r))
  BY DEF Load, Op, Nowhere, Points, Special
<1>5. LeaSp.op \notin Special /\ ~Points(LeaSp)
  BY DEF LeaSp, Op, Nowhere, Points, Special
<1>6. ASSUME NEW x, NEW y, NEW z, {x.op, y.op, z.op} \cap Special = {},
             ~Points(x), ~Points(y), ~Points(z)
      PROVE  Plain(<<x, y, z>>)
  <2>1. PICK l : l = <<x, y, z>>
    OBVIOUS
  <2>2. l \in Seq({x, y, z}) /\ DOMAIN l = {1, 2, 3} /\ l[1] = x /\ l[2] = y /\ l[3] = z
    BY <2>1
  <2>3. Plain(l)
    BY <1>6, <2>2 DEF Plain
  <2>4. QED
    BY <2>1, <2>3
<1>7. ASSUME NEW x, NEW y, {x.op, y.op} \cap Special = {}, ~Points(x), ~Points(y)
      PROVE  Plain(<<x, y>>)
  <2>1. PICK l : l = <<x, y>>
    OBVIOUS
  <2>2. l \in Seq({x, y}) /\ DOMAIN l = {1, 2} /\ l[1] = x /\ l[2] = y
    BY <2>1
  <2>3. Plain(l)
    BY <1>7, <2>2 DEF Plain
  <2>4. QED
    BY <2>1, <2>3
<1>8. \A r : Plain(PushR32(r))
  BY <1>1, <1>2, <1>6 DEF PushR32
<1>9. \A r : Plain(PopR32(r))
  BY <1>4, <1>5, <1>7 DEF PopR32
<1>10. \A n : Plain(PushImm(n))
  BY <1>1, <1>3, <1>6 DEF PushImm
<1>11. ASSUME NEW e, NEW key, e.op \notin Special, Points(e) => e.disp = key
       PROVE  Pointing(CallOp(e), key)
  <2>1. PICK x : x = LeaRip("r11", Ahead(5))
    OBVIOUS
  <2>2. x.op \notin Special /\ ~Points(x)
    <3>1. x.op = "lea" /\ x.disp = Ahead(5)
      BY <2>1 DEF LeaRip, Op
    <3>2. QED
      BY <3>1 DEF Ahead, Points, Special
  <2>3. PICK y : y = Op("placeholder")
    OBVIOUS
  <2>4. y.op \notin Special /\ ~Points(y)
    BY <2>3 DEF Op, Nowhere, Points, Special
  <2>5. PICK l : l = <<e, y>>
    OBVIOUS
  <2>6. l \in Seq({e, y}) /\ DOMAIN l = {1, 2} /\ l[1] = e /\ l[2] = y
    BY <2>5
  <2>7. Pointing(l, key)
    BY <1>11, <2>4, <2>6 DEF Pointing
  <2>8. Plain(<<x>> \o PushR32("r11"))
    BY <1>8, <2>2, One, PlainJoined
  <2>9. Pointing((<<x>> \o PushR32("r11")) \o l, key)
    BY <2>7, <2>8, PointingJoined
  <2>10. QED
    BY <2>1, <2>3, <2>5, <2>9 DEF CallOp
<1>12. QED
  BY <1>8, <1>9, <1>10, <1>11

Replaced == {"pusha", "mova", "jmpa", "push", "pop", "callr", "call", "ret", "pushm", "pushi"}

(* A blob is copied, or replaced by blobs of which at most one points, and *)
(* to what it pointed to.                                                  *)
LEMMA Shape ==
  ASSUME NEW b
  PROVE  IF b.op \in Replaced THEN Pointing(Transformed(b), Disp(b))
         ELSE Transformed(b) = <<Copy(b)>>
<1>1. PICK d : d = Disp(b)
  OBVIOUS
<1>2. \A l : Plain(l) => Pointing(l, d)
  BY DEF Plain, Pointing
<1>3. \A r : LeaRip(r, d).op \notin Special /\ LeaRip(r, d).disp = d
  BY DEF LeaRip, Op, Special
<1>4. CASE b.op = "pusha"
  <2>1. PICK x : x = LeaRip("r11", d)
    OBVIOUS
  <2>2. PICK y : y = [Op("push64") EXCEPT !.reg = "r11"]
    OBVIOUS
  <2>3. y.op \notin Special /\ ~Points(y)
    BY <2>2 DEF Op, Nowhere, Points, Special
  <2>4. PICK l : l = <<x, y>>
    OBVIOUS
  <2>5. l \in Seq({x, y}) /\ DOMAIN l = {1, 2} /\ l[1] = x /\ l[2] = y
    BY <2>4
  <2>6. Pointing(l, d)
    BY <1>3, <2>1, <2>3, <2>5 DEF Pointing
  <2>7. Transformed(b) = l
    BY <1>1, <1>4, <2>1, <2>2, <2>4 DEF Transformed
  <2>8. QED
    BY <1>1, <1>4, <2>6, <2>7 DEF Replaced
<1>5. CASE b.op = "mova"
  <2>1. Transformed(b) = <<LeaRip(b.reg, d)>>
    BY <1>1, <1>5 DEF Transformed
  <2>2. QED
    BY <1>1, <1>3, <1>5, <2>1, One DEF Replaced
<1>6. CASE b.op = "jmpa"
  <2>1. PICK x : x = [Op("jmprip") EXCEPT !.disp = d]
    OBVIOUS
  <2>2. x.op \notin Special /\ x.disp = d
    BY <2>1 DEF Op, Special
  <2>3. Transformed(b) = <<x>>
    BY <1>1, <1>6, <2>1 DEF Transformed
  <2>4. QED
    BY <1>1, <1>6, <2>2, <2>3, One DEF Replaced
<1>7. CASE b.op = "push"
  <2>1. Transformed(b) = PushR32(b.reg)
    BY <1>7 DEF Transformed
  <2>2. QED
    BY <1>1, <1>2, <1>7, <2>1, Sequences DEF Replaced
<1>8. CASE b.op = "pop"
  <2>1. Transformed(b) = PopR32(b.reg)
    BY <1>8 DEF Transformed
  <2>2. QED
    BY <1>1, <1>2, <1>8, <2>1, Sequences DEF Replaced
<1>9. CASE b.op = "callr"
  <2>1. PICK x : x = [Op("jmpr") EXCEPT !.reg = b.reg]
    OBVIOUS
  <2>2. x.op \notin Special /\ ~Points(x)
    BY <2>1 DEF Op, Nowhere, Points, Special
  <2>3. Transformed(b) = CallOp(x)
    BY <1>9, <2>1 DEF Transformed
  <2>4. QED
    BY <1>1, <1>9, <2>2, <2>3, Sequences DEF Replaced
<1>10. CASE b.op = "call"
  <2>1. PICK x : x = Jmp(d)
    OBVIOUS
  <2>2. x.op \notin Special /\ x.disp = d
    BY <2>1 DEF Jmp, Op, Special
  <2>3. Transformed(b) = CallOp(x)
    BY <1>1, <1>10, <2>1 DEF Transformed
  <2>4. QED
    BY <1>1, <1>10, <2>2, <2>3, Sequences DEF Replaced
<1>11. CASE b.op = "ret"
  <2>1. PICK x : x = [Op("jmpr") EXCEPT !.reg = "r11"]
    OBVIOUS
  <2>2. x.op \notin Special /\ ~Points(x)
    BY <2>1 DEF Op, Nowhere, Points, Special
  <2>3. Plain(PopR32("r11") \o <<x>>)
    BY <2>2, One, Sequences, PlainJoined
  <2>4. Transformed(b) = PopR32("r11") \o <<x>>
    BY <1>11, <2>1 DEF Transformed
  <2>5. QED
    BY <1>1, <1>2, <1>11, <2>3, <2>4 DEF Replaced
<1>12. CASE b.op = "pushm"
  <2>1. PICK x : x = [Load("r11") EXCEPT !.base = b.base, !.n = b.n]
    OBVIOUS
  <2>2. x.op \notin Special /\ ~Points(x)
    BY <2>1 DEF Load, Op, Nowhere, Points, Special
  <2>3. Plain(<<x>> \o PushR32("r11"))
    BY <2>2, One, Sequences, PlainJoined
  <2>4. Transformed(b) = <<x>> \o PushR32("r11")
    BY <1>12, <2>1 DEF Transformed
  <2>5. QED
    BY <1>1, <1>2, <1>12, <2>3, <2>4 DEF Replaced
<1>13. CASE b.op = "pushi"
  <2>1. Transformed(b) = PushImm(b.n)
    BY <1>13 DEF Transformed
  <2>2. QED
    BY <1>1, <1>2, <1>13, <2>1, Sequences DEF Replaced
<1>14. CASE b.op \notin Replaced
  BY <1>14 DEF Replaced, Transformed
<1>15. QED
  BY <1>4, <1>5, <1>6, <1>7, <1>8, <1>9, <1>10, <1>11, <1>12, <1>13, <1>14 DEF Replaced

-----------------------------------------------------------------------------
(* The invariant.                                                          *)

Keys == {Key(o) : o \in DOMAIN old.blobs} \cup {<<"node", k>> : k \in DOMAIN old.binds}
        \cup {<<"imm", o>> : o \in {x \in DOMAIN old.blobs : HasPointee(old.blobs[x])}}

(* What the pointers have been asked with.                                 *)
Linked(A) ==
  /\ \A p \in DOMAIN A : A[p] \in Keys
  /\ \A n : <<n, "disp">> \in DOMAIN A \/ <<n, "bindee">> \in DOMAIN A => n \in DOMAIN new
  /\ \A n \in DOMAIN new :
       Points(new[n]) => <<n, "disp">> \in DOMAIN A /\ A[<<n, "disp">>] = new[n].disp
  /\ \A n \in DOMAIN new :
       new[n].op = "helper" =>
         <<n, "bindee">> \in DOMAIN A /\ A[<<n, "bindee">>] = <<"node", new[n].n>>
  /\ \A o \in Rebased : <<o, "rebase">> \in DOMAIN A => A[<<o, "rebase">>] = RebaseKey(o)
  /\ \A k \in DOMAIN old.binds :
       <<k, "bind">> \in DOMAIN A => A[<<k, "bind">>] = Key(old.binds[k].blob)

(* What has been found.                                                    *)
Known ==
  /\ \A o \in 1..(cursor - 1) :
       /\ Key(o) \in DOMAIN res.found
       /\ HasPointee(old.blobs[o]) =>
            <<"imm", o>> \in DOMAIN res.found /\ res.found[<<"imm", o>>] = Null
  /\ \A o \in Nat : cursor <= o => {Key(o), <<"imm", o>>} \cap DOMAIN res.found = {}
  /\ \A k : <<"node", k>> \in DOMAIN res.found => res.found[<<"node", k>>] = k
  /\ \A k \in DOMAIN old.binds : Bound(k) => <<"node", k>> \in DOMAIN res.found

(* The blobs made of one lie one behind the other, from the one found.     *)
MadeFrom(n) ==
  LET o == new[n].from
      x == n - res.found[Key(o)] + 1
  IN /\ o \in 1..(cursor - 1) /\ x \in DOMAIN Transformed(old.blobs[o])
     /\ new[n] = MadeOf(Transformed(old.blobs[o])[x], o)
Made ==
  /\ \A o \in 1..(cursor - 1) :
       /\ res.found[Key(o)] \in DOMAIN new
       /\ new[res.found[Key(o)]].from = o
  /\ \A n \in DOMAIN new : MadeFrom(n)

Done == /\ cursor = Len(old.blobs) + 1
        /\ (\A o \in Rebased : Rebound(o)) /\ \A k \in DOMAIN old.binds : Bound(k)

TInv == /\ old \in Programs /\ cursor \in 1..(Len(old.blobs) + 1) /\ (\E S : new \in Seq(S))
        /\ (\E A : Serves(res, A) /\ Linked(A)) /\ Known /\ Made
        /\ Running => Done

-----------------------------------------------------------------------------
(* Facts about the programs and the blobs made of theirs.                  *)

LEMMA OldParts ==
  ASSUME old \in Programs
  PROVE  /\ Len(old.blobs) \in Nat /\ DOMAIN old.blobs = 1..Len(old.blobs)
         /\ Len(old.binds) \in Nat /\ DOMAIN old.binds = 1..Len(old.binds)
         /\ \A o \in DOMAIN old.blobs :
              /\ old.blobs[o].at # 0 => old.blobs[o].at \in DOMAIN old.blobs
              /\ old.blobs[o].op = "helper" => old.blobs[o].n \in DOMAIN old.binds
         /\ \A k \in DOMAIN old.binds : old.binds[k].blob \in DOMAIN old.blobs
<1>1. /\ old.blobs \in Seq(OldBlob) /\ old.binds \in Seq(OldBind)
      /\ \A o \in DOMAIN old.blobs :
           /\ old.blobs[o].at \in 0..Len(old.blobs)
           /\ old.blobs[o].op = "helper" => old.blobs[o].n \in DOMAIN old.binds
      /\ \A k \in DOMAIN old.binds : old.binds[k].blob \in DOMAIN old.blobs
  BY ProgramsAssumption
<1>2. /\ Len(old.blobs) \in Nat /\ DOMAIN old.blobs = 1..Len(old.blobs)
      /\ Len(old.binds) \in Nat /\ DOMAIN old.binds = 1..Len(old.binds)
  BY <1>1
<1>3. ASSUME NEW o \in DOMAIN old.blobs, old.blobs[o].at # 0
      PROVE  old.blobs[o].at \in DOMAIN old.blobs
  <2>1. old.blobs[o].at \in 0..Len(old.blobs)
    BY <1>1
  <2>2. QED
    BY <1>2, <1>3, <2>1
<1>4. QED
  BY <1>1, <1>2, <1>3

(* The blobs made of b.                                                    *)
Listed(b, list) ==
  /\ (\E S : list \in Seq(S)) /\ 1 \in DOMAIN list
  /\ Len(list) \in Nat /\ DOMAIN list = 1..Len(list)
  /\ \A x \in DOMAIN list : Points(list[x]) => list[x].disp \in Keys
  /\ \A x, y \in DOMAIN list : Points(list[x]) /\ Points(list[y]) => x = y
  /\ b.op \notin Replaced => Len(list) = 1 /\ list[1] = Copy(b)
  /\ \A x \in DOMAIN list : list[x].op \in Special => list[x].op = b.op
  /\ b.op \in Special => b.op \notin Replaced

LEMMA ListParts ==
  ASSUME old \in Programs, NEW o \in DOMAIN old.blobs
  PROVE  Listed(old.blobs[o], Transformed(old.blobs[o]))
<1>0. PICK list : list = Transformed(old.blobs[o])
  OBVIOUS
<1>1. PICK b : b = old.blobs[o]
  OBVIOUS
<1>2. \A d : d = Disp(b) /\ d[1] = "blob" => d \in Keys
  <2>1. CASE b.at = 0
    BY <2>1 DEF Disp, Nowhere
  <2>2. CASE b.at # 0
    <3>1. b.at \in DOMAIN old.blobs /\ Disp(b) = Key(b.at)
      BY <1>1, <2>2, OldParts DEF Disp
    <3>2. QED
      BY <3>1 DEF Keys
  <2>3. QED
    BY <2>1, <2>2
<1>3. ASSUME b.op \in Replaced PROVE Listed(b, list)
  <2>1. Pointing(list, Disp(b))
    BY <1>0, <1>1, <1>3, Shape
  <2>2. PICK S : list \in Seq(S)
    BY <2>1 DEF Pointing
  <2>3. Len(list) \in Nat /\ DOMAIN list = 1..Len(list)
    BY <2>2
  <2>4. \A x \in DOMAIN list : Points(list[x]) => list[x].disp \in Keys
    <3> SUFFICES ASSUME NEW x \in DOMAIN list, Points(list[x]) PROVE list[x].disp \in Keys
      OBVIOUS
    <3>1. PICK d : d = list[x].disp
      OBVIOUS
    <3>2. d = Disp(b) /\ d[1] = "blob"
      BY <2>1, <3>1 DEF Pointing, Points
    <3>3. QED
      BY <1>2, <3>1, <3>2
  <2>5. /\ \A x, y \in DOMAIN list : Points(list[x]) /\ Points(list[y]) => x = y
        /\ \A x \in DOMAIN list : list[x].op \notin Special
        /\ 1 \in DOMAIN list
    BY <2>1 DEF Pointing
  <2>6. b.op \notin Special
    BY <1>3 DEF Replaced, Special
  <2>7. QED
    BY <1>3, <2>2, <2>3, <2>4, <2>5, <2>6 DEF Listed
<1>4. ASSUME b.op \notin Replaced PROVE Listed(b, list)
  <2>1. list = <<Copy(b)>>
    BY <1>0, <1>1, <1>4, Shape
  <2>2. PICK e : e = Copy(b)
    OBVIOUS
  <2>3. /\ list \in Seq({e}) /\ Len(list) = 1 /\ DOMAIN list = 1..1 /\ DOMAIN list = {1}
        /\ list[1] = e
    BY <2>1, <2>2
  <2>4. e.op = b.op /\ e.disp = Disp(b)
    BY <2>2 DEF Copy
  <2>5. Points(e) => e.disp \in Keys
    BY <1>2, <2>4 DEF Points
  <2>6. QED
    BY <1>4, <2>2, <2>3, <2>4, <2>5 DEF Listed
<1>5. QED
  BY <1>0, <1>1, <1>3, <1>4

-----------------------------------------------------------------------------
(* The steps.                                                              *)

LEMMA InitTInv == Init => TInv
<1> SUFFICES ASSUME Init PROVE TInv
  OBVIOUS
<1>a. /\ old \in Programs /\ new = <<>> /\ cursor = 1 /\ res = NewResolver(FALSE)
      /\ turn = "transform"
  BY DEF Init
<1>b. /\ res.lazy = FALSE /\ DOMAIN res.found = {} /\ DOMAIN res.todo = {}
      /\ DOMAIN res.pointer = {}
  BY <1>a DEF NewResolver, NoEntries
<1>1. Serves(res, NoEntries)
  BY <1>b DEF Serves, NoEntries
<1>2. DOMAIN new = {} /\ new \in Seq({})
  BY <1>a
<1>3. Linked(NoEntries)
  <2>1. DOMAIN NoEntries = {}
    BY DEF NoEntries
  <2>2. QED
    BY <1>2, <2>1 DEF Linked
<1>4. 1..(cursor - 1) = {}
  BY <1>a
<1>5. Known
  BY <1>b, <1>4 DEF Known, Bound
<1>6. Made
  BY <1>2, <1>4 DEF Made
<1>7. cursor \in 1..(Len(old.blobs) + 1)
  BY <1>a, OldParts
<1>8. ~Running
  BY <1>a DEF Running
<1>9. QED
  BY <1>a, <1>1, <1>2, <1>3, <1>5, <1>6, <1>7, <1>8 DEF TInv

(* Steps of the machines, and those that end the transformation.           *)
LEMMA StaysTInv ==
  ASSUME TInv, UNCHANGED <<old, new, cursor, res>>, Running' => Done
  PROVE  TInv'
<1>1. \A A : Linked(A)' <=> Linked(A)
  BY DEF Linked, Keys, Rebased, RebaseKey
<1>2. Known' /\ Made'
  BY DEF TInv, Known, Made, MadeFrom, Bound
<1>3. Done => Done'
  BY DEF Done, Rebased, Rebound, Bound
<1>4. \E A : Serves(res', A) /\ Linked(A)'
  BY <1>1 DEF TInv
<1>5. QED
  BY <1>2, <1>3, <1>4 DEF TInv

LEMMA RebaseStep ==
  ASSUME TInv, NEW o \in DOMAIN old.blobs, TransformRebase(o)
  PROVE  TInv'
<1>a. /\ Transforming /\ o \in Rebased /\ ~Rebound(o)
      /\ res' = Ask(res, RebaseKey(o), <<o, "rebase">>)
      /\ UNCHANGED <<old, new, cursor>> /\ turn' = turn
  <2>1. o \in Int /\ ~(o < o)
    BY OldParts DEF TInv
  <2>2. QED
    BY <2>1 DEF TransformRebase
<1>1. PICK A : Serves(res, A) /\ Linked(A)
  BY DEF TInv
<1>2. PICK p : p = <<o, "rebase">>
  OBVIOUS
<1>3. PICK B : B = Put(A, p, RebaseKey(o))
  OBVIOUS
<1>4. p \notin DOMAIN A
  BY <1>a, <1>1, <1>2 DEF Serves, Rebound
<1>5. Serves(res', B) /\ res'.found = res.found
  BY <1>a, <1>1, <1>2, <1>3, <1>4, AskServes
<1>6. DOMAIN B = DOMAIN A \cup {p} /\ B[p] = RebaseKey(o) /\ \A q \in DOMAIN A : B[q] = A[q]
  BY <1>3, <1>4 DEF Put
<1>7. RebaseKey(o) \in Keys
  BY <1>a DEF RebaseKey, Keys, Rebased
<1>8. \A n : p # <<n, "disp">> /\ p # <<n, "bindee">> /\ p # <<n, "bind">>
  BY <1>2
<1>9. Linked(B)
  <2>1. /\ \A q \in DOMAIN B : B[q] \in Keys
        /\ \A n : <<n, "disp">> \in DOMAIN B \/ <<n, "bindee">> \in DOMAIN B => n \in DOMAIN new
        /\ \A n \in DOMAIN new :
             Points(new[n]) => <<n, "disp">> \in DOMAIN B /\ B[<<n, "disp">>] = new[n].disp
        /\ \A n \in DOMAIN new :
             new[n].op = "helper" =>
               <<n, "bindee">> \in DOMAIN B /\ B[<<n, "bindee">>] = <<"node", new[n].n>>
    BY <1>1, <1>6, <1>7, <1>8 DEF Linked
  <2>2. \A x \in Rebased : <<x, "rebase">> \in DOMAIN B => B[<<x, "rebase">>] = RebaseKey(x)
    <3> SUFFICES ASSUME NEW x \in Rebased, <<x, "rebase">> \in DOMAIN B
                 PROVE  B[<<x, "rebase">>] = RebaseKey(x)
      OBVIOUS
    <3>1. CASE x = o
      BY <1>2, <1>6, <3>1
    <3>2. CASE x # o
      BY <1>1, <1>2, <1>6, <3>2 DEF Linked
    <3>3. QED
      BY <3>1, <3>2
  <2>3. \A k \in DOMAIN old.binds :
          <<k, "bind">> \in DOMAIN B => B[<<k, "bind">>] = Key(old.binds[k].blob)
    BY <1>1, <1>6, <1>8 DEF Linked
  <2>4. QED
    BY <2>1, <2>2, <2>3 DEF Linked
<1>10. Linked(B)'
  BY <1>a, <1>9 DEF Linked, Keys, Rebased, RebaseKey
<1>11. \A k : Bound(k)' <=> Bound(k)
  BY <1>1, <1>5, <1>6, <1>8 DEF Bound, Serves
<1>12. Known'
  BY <1>a, <1>5, <1>11 DEF TInv, Known
<1>13. Made'
  BY <1>a, <1>5 DEF TInv, Made, MadeFrom
<1>14. ~Running'
  BY <1>a DEF Transforming, Running
<1>15. QED
  BY <1>a, <1>5, <1>10, <1>12, <1>13, <1>14 DEF TInv

LEMMA BindStep ==
  ASSUME TInv, NEW k \in DOMAIN old.binds, TransformBind(k)
  PROVE  TInv'
<1>1. PICK A : Serves(res, A) /\ Linked(A)
  BY DEF TInv
<1>2. PICK p : p = <<k, "bind">>
  OBVIOUS
<1>3. PICK key : key = Key(old.binds[k].blob)
  OBVIOUS
<1>4. PICK r : r = Add(res, <<"node", k>>, k)
  OBVIOUS
<1>a. /\ Transforming /\ ~Bound(k) /\ res' = Ask(r, key, p)
      /\ UNCHANGED <<old, new, cursor>> /\ turn' = turn
  <2>1. k \in Int /\ ~(k < k)
    BY OldParts DEF TInv
  <2>2. QED
    BY <1>2, <1>3, <1>4, <2>1 DEF TransformBind
<1>5. Serves(r, A) /\ Found(res.found, r.found, <<"node", k>>, k)
  BY <1>1, <1>4, AddServes
<1>6. PICK B : B = Put(A, p, key)
  OBVIOUS
<1>7. p \notin DOMAIN A
  BY <1>a, <1>1, <1>2 DEF Serves, Bound
<1>8. Serves(res', B) /\ res'.found = r.found
  BY <1>a, <1>5, <1>6, <1>7, AskServes
<1>9. DOMAIN B = DOMAIN A \cup {p} /\ B[p] = key /\ \A q \in DOMAIN A : B[q] = A[q]
  BY <1>6, <1>7 DEF Put
<1>10. key \in Keys
  BY <1>3, OldParts DEF Keys, TInv
<1>11. \A n : p # <<n, "disp">> /\ p # <<n, "bindee">> /\ p # <<n, "rebase">>
  BY <1>2
<1>12. Linked(B)
  <2>1. /\ \A q \in DOMAIN B : B[q] \in Keys
        /\ \A n : <<n, "disp">> \in DOMAIN B \/ <<n, "bindee">> \in DOMAIN B => n \in DOMAIN new
        /\ \A n \in DOMAIN new :
             Points(new[n]) => <<n, "disp">> \in DOMAIN B /\ B[<<n, "disp">>] = new[n].disp
        /\ \A n \in DOMAIN new :
             new[n].op = "helper" =>
               <<n, "bindee">> \in DOMAIN B /\ B[<<n, "bindee">>] = <<"node", new[n].n>>
    BY <1>1, <1>9, <1>10, <1>11 DEF Linked
  <2>2. \A o \in Rebased : <<o, "rebase">> \in DOMAIN B => B[<<o, "rebase">>] = RebaseKey(o)
    BY <1>1, <1>9, <1>11 DEF Linked
  <2>3. \A x \in DOMAIN old.binds :
          <<x, "bind">> \in DOMAIN B => B[<<x, "bind">>] = Key(old.binds[x].blob)
    <3> SUFFICES ASSUME NEW x \in DOMAIN old.binds, <<x, "bind">> \in DOMAIN B
                 PROVE  B[<<x, "bind">>] = Key(old.binds[x].blob)
      OBVIOUS
    <3>1. CASE x = k
      BY <1>2, <1>3, <1>9, <3>1
    <3>2. CASE x # k
      BY <1>1, <1>2, <1>9, <3>2 DEF Linked
    <3>3. QED
      BY <3>1, <3>2
  <2>4. QED
    BY <2>1, <2>2, <2>3 DEF Linked
<1>13. Linked(B)'
  BY <1>a, <1>12 DEF Linked, Keys, Rebased, RebaseKey
<1>14. \A x : x # k => (Bound(x)' <=> Bound(x))
  BY <1>1, <1>2, <1>8, <1>9 DEF Bound, Serves
<1>15. /\ DOMAIN res'.found = DOMAIN res.found \cup {<<"node", k>>}
       /\ \A x \in DOMAIN res.found : res'.found[x] = res.found[x]
       /\ <<"node", k>> \notin DOMAIN res.found => res'.found[<<"node", k>>] = k
  BY <1>5, <1>8 DEF Found
<1>16. \A o : Key(o) # <<"node", k>> /\ <<"imm", o>> # <<"node", k>>
  BY DEF Key
<1>17. Known'
  <2>1. \A o \in 1..(cursor - 1) :
          /\ Key(o) \in DOMAIN res'.found
          /\ HasPointee(old.blobs[o]) =>
               <<"imm", o>> \in DOMAIN res'.found /\ res'.found[<<"imm", o>>] = Null
    BY <1>15 DEF TInv, Known
  <2>2. \A o \in Nat : cursor <= o => {Key(o), <<"imm", o>>} \cap DOMAIN res'.found = {}
    BY <1>15, <1>16 DEF TInv, Known
  <2>3. \A x : <<"node", x>> \in DOMAIN res'.found => res'.found[<<"node", x>>] = x
    <3> SUFFICES ASSUME NEW x, <<"node", x>> \in DOMAIN res'.found
                 PROVE  res'.found[<<"node", x>>] = x
      OBVIOUS
    <3>1. CASE <<"node", x>> \in DOMAIN res.found
      BY <1>15, <3>1 DEF TInv, Known
    <3>2. CASE <<"node", x>> \notin DOMAIN res.found
      BY <1>15, <3>2
    <3>3. QED
      BY <3>1, <3>2
  <2>4. \A x \in DOMAIN old.binds : Bound(x)' => <<"node", x>> \in DOMAIN res'.found
    BY <1>14, <1>15 DEF TInv, Known
  <2>5. QED
    BY <1>a, <2>1, <2>2, <2>3, <2>4 DEF Known
<1>18. Made'
  <2>1. \A o \in 1..(cursor - 1) : res'.found[Key(o)] = res.found[Key(o)]
    BY <1>15 DEF TInv, Known
  <2>2. QED
    BY <1>a, <2>1 DEF TInv, Made, MadeFrom
<1>19. ~Running'
  BY <1>a DEF Transforming, Running
<1>20. QED
  BY <1>a, <1>8, <1>13, <1>17, <1>18, <1>19 DEF TInv

(* One blob asks, by at most one of those made of it, and asks for the     *)
(* first time: A becomes B, and then C.                                    *)
AsksOnce(A, list, N) ==
  /\ \A x, y \in DOMAIN list : Points(list[x]) /\ Points(list[y]) => x = y
  /\ \A x \in DOMAIN list : <<N + x, "disp">> \notin DOMAIN A
AskedFor(A, B, list, N) ==
  /\ DOMAIN A \subseteq DOMAIN B /\ \A q \in DOMAIN A : B[q] = A[q]
  /\ \A q \in DOMAIN B \ DOMAIN A :
       \E x \in DOMAIN list : Points(list[x]) /\ q = <<N + x, "disp">> /\ B[q] = list[x].disp
  /\ \A x \in DOMAIN list :
       Points(list[x]) => <<N + x, "disp">> \in DOMAIN B /\ B[<<N + x, "disp">>] = list[x].disp
BindeeFor(B, C, b, N) ==
  /\ DOMAIN C = IF b.op = "helper" THEN DOMAIN B \cup {<<N + 1, "bindee">>} ELSE DOMAIN B
  /\ \A q \in DOMAIN B : C[q] = B[q]
  /\ b.op = "helper" => C[<<N + 1, "bindee">>] = <<"node", b.n>>
DummyFor(f, g, b) ==
  /\ \A x \in DOMAIN f : g[x] = f[x]
  /\ DOMAIN g = IF HasPointee(b) THEN DOMAIN f \cup {<<"imm", cursor>>} ELSE DOMAIN f
  /\ HasPointee(b) => g[<<"imm", cursor>>] = Null

LEMMA AskedServes ==
  ASSUME NEW r, NEW A, NEW list, NEW N, NEW s, Serves(r, A),
         N = Len(new), s = Asked(list, r), AsksOnce(A, list, N)
  PROVE  /\ s.found = r.found
         /\ \E B : Serves(s, B) /\ AskedFor(A, B, list, N)
<1>1. CASE \E x \in DOMAIN list : Points(list[x])
  <2>1. PICK x : x = CHOOSE y \in DOMAIN list : Points(list[y])
    OBVIOUS
  <2>2. x \in DOMAIN list /\ Points(list[x])
    BY <1>1, <2>1
  <2>3. PICK p : p = <<N + x, "disp">>
    OBVIOUS
  <2>4. PICK key : key = list[x].disp
    OBVIOUS
  <2>5. s = Ask(r, key, p)
    BY <1>1, <2>1, <2>3, <2>4 DEF Asked
  <2>6. PICK B : B = Put(A, p, key)
    OBVIOUS
  <2>7. p \notin DOMAIN A
    BY <2>2, <2>3 DEF AsksOnce
  <2>8. Serves(Ask(r, key, p), B) /\ Ask(r, key, p).found = r.found
    BY <2>6, <2>7, AskServes
  <2>9. DOMAIN B = DOMAIN A \cup {p} /\ B[p] = key /\ \A q \in DOMAIN A : B[q] = A[q]
    BY <2>6, <2>7 DEF Put
  <2>10. \A y \in DOMAIN list : Points(list[y]) => y = x
    BY <2>2 DEF AsksOnce
  <2>11. AskedFor(A, B, list, N)
    BY <2>2, <2>3, <2>4, <2>9, <2>10 DEF AskedFor
  <2>12. QED
    BY <2>5, <2>8, <2>11
<1>2. CASE ~\E x \in DOMAIN list : Points(list[x])
  <2>1. s = r
    BY <1>2 DEF Asked
  <2>2. AskedFor(A, A, list, N)
    BY <1>2 DEF AskedFor
  <2>3. QED
    BY <2>1, <2>2
<1>3. QED
  BY <1>1, <1>2

LEMMA BindeeServes ==
  ASSUME NEW r, NEW A, NEW b, NEW N, NEW s, Serves(r, A),
         N = Len(new), s = Bindee(b, r), <<N + 1, "bindee">> \notin DOMAIN A
  PROVE  /\ s.found = r.found
         /\ \E C : Serves(s, C) /\ BindeeFor(A, C, b, N)
<1>1. CASE b.op = "helper"
  <2>1. PICK p : p = <<N + 1, "bindee">>
    OBVIOUS
  <2>2. PICK key : key = <<"node", b.n>>
    OBVIOUS
  <2>3. PICK B : B = Put(A, p, key)
    OBVIOUS
  <2>4. s = Ask(r, key, p)
    BY <1>1, <2>1, <2>2 DEF Bindee
  <2>5. Serves(Ask(r, key, p), B) /\ Ask(r, key, p).found = r.found
    BY <2>1, <2>3, AskServes
  <2>6. DOMAIN B = DOMAIN A \cup {p} /\ B[p] = key /\ \A q \in DOMAIN A : B[q] = A[q]
    BY <2>1, <2>3 DEF Put
  <2>7. BindeeFor(A, B, b, N)
    BY <1>1, <2>1, <2>2, <2>6 DEF BindeeFor
  <2>8. QED
    BY <2>4, <2>5, <2>7
<1>2. CASE b.op # "helper"
  <2>1. s = r
    BY <1>2 DEF Bindee
  <2>2. BindeeFor(A, A, b, N)
    BY <1>2 DEF BindeeFor
  <2>3. QED
    BY <2>1, <2>2
<1>3. QED
  BY <1>1, <1>2

LEMMA DummyServes ==
  ASSUME NEW r, NEW A, NEW b, NEW s, Serves(r, A), s = Dummy(b, r),
         <<"imm", cursor>> \notin DOMAIN r.found
  PROVE  Serves(s, A) /\ DummyFor(r.found, s.found, b)
<1>1. CASE HasPointee(b)
  <2>1. s = Add(r, <<"imm", cursor>>, Null)
    BY <1>1 DEF Dummy
  <2>3. Serves(s, A) /\ Found(r.found, s.found, <<"imm", cursor>>, Null)
    BY <2>1, AddServes
  <2>4. QED
    BY <1>1, <2>3 DEF Found, DummyFor
<1>2. CASE ~HasPointee(b)
  <2>1. s = r
    BY <1>2 DEF Dummy
  <2>2. QED
    BY <1>2, <2>1 DEF DummyFor
<1>3. QED
  BY <1>1, <1>2

LEMMA BlobStep == ASSUME TInv, TransformBlob PROVE TInv'
<1>1. PICK b : b = old.blobs[cursor]
  OBVIOUS
<1>2. PICK list : list = Transformed(b)
  OBVIOUS
<1>3. PICK made : made = [x \in DOMAIN list |-> MadeOf(list[x], cursor)]
  OBVIOUS
<1>4. PICK r1 : r1 = Asked(list, res)
  OBVIOUS
<1>5. PICK r2 : r2 = Bindee(b, r1)
  OBVIOUS
<1>6. PICK r3 : r3 = Dummy(b, r2)
  OBVIOUS
<1>a. /\ turn = "transform" /\ turn' = turn /\ old' = old /\ cursor' = cursor + 1
      /\ cursor <= Len(old.blobs) /\ new' = new \o made
      /\ res' = Add(r3, Key(cursor), Len(new) + 1)
  BY <1>1, <1>2, <1>3, <1>4, <1>5, <1>6 DEF TransformBlob, FrontOf
<1>b. /\ old \in Programs /\ cursor \in 1..(Len(old.blobs) + 1) /\ (\E S : new \in Seq(S))
      /\ Known /\ Made
  BY DEF TInv
<1>c. /\ Len(old.blobs) \in Nat /\ DOMAIN old.blobs = 1..Len(old.blobs)
      /\ cursor \in Nat \ {0} /\ cursor \in DOMAIN old.blobs
      /\ cursor + 1 \in 1..(Len(old.blobs) + 1)
  BY <1>a, <1>b, OldParts
<1>d. \A o : o \in 1..(cursor' - 1) <=> o \in 1..(cursor - 1) \/ o = cursor
  BY <1>a, <1>c
<1>e. cursor \notin 1..(cursor - 1)
  BY <1>c
<1>7. /\ (\E S : list \in Seq(S)) /\ 1 \in DOMAIN list
      /\ Len(list) \in Nat /\ DOMAIN list = 1..Len(list)
      /\ \A x \in DOMAIN list : Points(list[x]) => list[x].disp \in Keys
      /\ \A x, y \in DOMAIN list : Points(list[x]) /\ Points(list[y]) => x = y
      /\ b.op \notin Replaced => Len(list) = 1 /\ list[1] = Copy(b)
      /\ \A x \in DOMAIN list : list[x].op \in Special => list[x].op = b.op
      /\ b.op \in Special => b.op \notin Replaced
  <2>1. Listed(old.blobs[cursor], Transformed(old.blobs[cursor]))
    BY <1>b, <1>c, ListParts
  <2>2. Listed(b, list)
    BY <1>1, <1>2, <2>1
  <2>3. QED
    BY <2>2 DEF Listed
<1>8. PICK N \in Nat : N = Len(new) /\ DOMAIN new = 1..N
  BY <1>b
<1>9. /\ \E S : made \in Seq(S)
      /\ DOMAIN made = DOMAIN list /\ \A x \in DOMAIN list : made[x] = MadeOf(list[x], cursor)
  <2>1. PICK T : T = {MadeOf(list[x], cursor) : x \in DOMAIN list}
    OBVIOUS
  <2>2. made \in [1..Len(list) -> T]
    BY <1>3, <1>7, <2>1
  <2>3. made \in Seq(T)
    BY <1>7, <2>2
  <2>4. QED
    BY <1>3, <2>3
<1>10. /\ \E S : new' \in Seq(S)
       /\ \A n \in DOMAIN new' :
            \/ n \in DOMAIN new /\ new'[n] = new[n]
            \/ n - N \in DOMAIN list /\ new'[n] = made[n - N]
       /\ \A n \in DOMAIN new : n \in DOMAIN new' /\ new'[n] = new[n]
       /\ \A x \in DOMAIN list : N + x \in DOMAIN new' /\ new'[N + x] = made[x]
  <2>1. PICK c : c = new \o made
    OBVIOUS
  <2>2. /\ \E S : c \in Seq(S)
        /\ \A n \in DOMAIN c : \/ n \in DOMAIN new /\ c[n] = new[n]
                               \/ n - N \in DOMAIN made /\ c[n] = made[n - N]
        /\ \A n \in DOMAIN new : n \in DOMAIN c /\ c[n] = new[n]
        /\ \A x \in DOMAIN made : N + x \in DOMAIN c /\ c[N + x] = made[x]
    BY <1>8, <1>9, <1>b, <2>1, Joined
  <2>3. QED
    BY <1>9, <1>a, <2>1, <2>2
<1>11. \A n \in DOMAIN new' : n \in Int
  BY <1>10
<1>12. PICK A : Serves(res, A) /\ Linked(A)
  BY DEF TInv
<1>13. r1.found = res.found /\ \E B : Serves(r1, B) /\ AskedFor(A, B, list, N)
  <2>1. \A x \in DOMAIN list : N + x \notin DOMAIN new
    BY <1>7, <1>8
  <2>2. \A x \in DOMAIN list : <<N + x, "disp">> \notin DOMAIN A
    BY <1>12, <2>1 DEF Linked
  <2>3. \A x, y \in DOMAIN list : Points(list[x]) /\ Points(list[y]) => x = y
    BY <1>7
  <2>4. AsksOnce(A, list, N)
    BY <2>2, <2>3 DEF AsksOnce
  <2>5. N = Len(new) /\ Serves(res, A)
    BY <1>8, <1>12
  <2>6. QED
    BY <1>4, <2>4, <2>5, AskedServes
<1>14. PICK B : Serves(r1, B) /\ AskedFor(A, B, list, N)
  BY <1>13
<1>15. <<N + 1, "bindee">> \notin DOMAIN B
  <2>1. N + 1 \notin DOMAIN new
    BY <1>8
  <2>2. <<N + 1, "bindee">> \notin DOMAIN A
    BY <1>12, <2>1 DEF Linked
  <2>3. \A x : <<N + 1, "bindee">> # <<N + x, "disp">>
    OBVIOUS
  <2>4. QED
    BY <1>14, <2>2, <2>3 DEF AskedFor
<1>16. r2.found = res.found /\ \E C : Serves(r2, C) /\ BindeeFor(B, C, b, N)
  <2>1. r2.found = r1.found /\ \E C : Serves(r2, C) /\ BindeeFor(B, C, b, N)
    BY <1>5, <1>8, <1>14, <1>15, BindeeServes
  <2>2. QED
    BY <1>13, <2>1
<1>17. PICK C : Serves(r2, C) /\ BindeeFor(B, C, b, N)
  BY <1>16
<1>18. \A o \in Nat : cursor <= o => Key(o) \notin DOMAIN res.found /\ <<"imm", o>> \notin DOMAIN res.found
  BY <1>b DEF Known
<1>19. /\ Serves(r3, C)
       /\ \A x \in DOMAIN res.found : r3.found[x] = res.found[x]
       /\ DOMAIN r3.found = IF HasPointee(b) THEN DOMAIN res.found \cup {<<"imm", cursor>>}
                            ELSE DOMAIN res.found
       /\ HasPointee(b) => r3.found[<<"imm", cursor>>] = Null
  <2>1. <<"imm", cursor>> \notin DOMAIN r2.found
    BY <1>16, <1>18, <1>c
  <2>2. Serves(r3, C) /\ DummyFor(r2.found, r3.found, b)
    BY <1>6, <1>17, <2>1, DummyServes
  <2>3. r2.found = res.found
    BY <1>16
  <2>4. QED
    BY <2>2, <2>3 DEF DummyFor
<1>20. Serves(res', C) /\ Found(r3.found, res'.found, Key(cursor), N + 1)
  BY <1>8, <1>19, <1>a, AddServes
<1>21. \A o, x : Key(o) # <<"imm", x>> /\ <<"node", o>> # <<"imm", x>> /\ <<"node", o>> # Key(x)
  BY DEF Key
<1>22. /\ DOMAIN res'.found = DOMAIN r3.found \cup {Key(cursor)}
       /\ res'.found[Key(cursor)] = N + 1
       /\ \A x \in DOMAIN r3.found : res'.found[x] = r3.found[x]
  <2>1. Key(cursor) \notin DOMAIN r3.found
    BY <1>18, <1>19, <1>21, <1>c
  <2>2. QED
    BY <1>20, <2>1 DEF Found
<1>23. \A x \in DOMAIN res.found : x \in DOMAIN res'.found /\ res'.found[x] = res.found[x]
  BY <1>19, <1>22
<1>24. \A q \in DOMAIN C : \/ q \in DOMAIN A /\ C[q] = A[q]
                           \/ \E x \in DOMAIN list : /\ Points(list[x]) /\ q = <<N + x, "disp">>
                                                     /\ C[q] = list[x].disp
                           \/ b.op = "helper" /\ q = <<N + 1, "bindee">> /\ C[q] = <<"node", b.n>>
  BY <1>14, <1>17 DEF AskedFor, BindeeFor
<1>25. \A q \in DOMAIN A : q \in DOMAIN C /\ C[q] = A[q]
  BY <1>14, <1>17 DEF AskedFor, BindeeFor
<1>26. Linked(C)'
  <2>1. \A q \in DOMAIN C : C[q] \in Keys
    <3>1. b.op = "helper" => <<"node", b.n>> \in Keys
      BY <1>1, <1>b, <1>c, OldParts DEF Keys
    <3>2. QED
      BY <1>7, <1>12, <1>24, <3>1 DEF Linked
  <2>2. \A n : <<n, "disp">> \in DOMAIN C \/ <<n, "bindee">> \in DOMAIN C => n \in DOMAIN new'
    <3> SUFFICES ASSUME NEW n, NEW q \in DOMAIN C, q = <<n, "disp">> \/ q = <<n, "bindee">>
                 PROVE  n \in DOMAIN new'
      OBVIOUS
    <3>1. CASE q \in DOMAIN A
      BY <1>10, <1>12, <3>1 DEF Linked
    <3>2. CASE \E x \in DOMAIN list : q = <<N + x, "disp">>
      BY <1>10, <3>2
    <3>3. CASE q = <<N + 1, "bindee">>
      BY <1>7, <1>10, <3>3
    <3>4. QED
      BY <1>24, <3>1, <3>2, <3>3
  <2>3. ASSUME NEW n \in DOMAIN new', Points(new'[n])
        PROVE  <<n, "disp">> \in DOMAIN C /\ C[<<n, "disp">>] = new'[n].disp
    <3>1. CASE n \in DOMAIN new /\ new'[n] = new[n]
      BY <1>12, <1>25, <2>3, <3>1 DEF Linked
    <3>2. CASE n - N \in DOMAIN list /\ new'[n] = made[n - N]
      <4>1. PICK x \in DOMAIN list : x = n - N
        BY <3>2
      <4>2. n = N + x
        BY <1>11, <4>1
      <4>3. new'[n].disp = list[x].disp
        BY <1>9, <3>2, <4>1 DEF MadeOf
      <4>4. Points(list[x])
        BY <2>3, <4>3 DEF Points
      <4>5. QED
        BY <1>14, <1>17, <4>2, <4>3, <4>4 DEF AskedFor, BindeeFor
    <3>3. QED
      BY <1>10, <3>1, <3>2
  <2>4. ASSUME NEW n \in DOMAIN new', new'[n].op = "helper"
        PROVE  <<n, "bindee">> \in DOMAIN C /\ C[<<n, "bindee">>] = <<"node", new'[n].n>>
    <3>1. CASE n \in DOMAIN new /\ new'[n] = new[n]
      BY <1>12, <1>25, <2>4, <3>1 DEF Linked
    <3>2. CASE n - N \in DOMAIN list /\ new'[n] = made[n - N]
      <4>1. PICK x \in DOMAIN list : x = n - N
        BY <3>2
      <4>2. n = N + x
        BY <1>11, <4>1
      <4>3. new'[n].op = list[x].op /\ new'[n].n = list[x].n
        BY <1>9, <3>2, <4>1 DEF MadeOf
      <4>4. b.op = "helper" /\ Len(list) = 1 /\ list[1] = Copy(b)
        BY <1>7, <2>4, <4>3 DEF Special
      <4>5. x = 1 /\ list[x].n = b.n
        BY <1>7, <4>4 DEF Copy
      <4>6. QED
        BY <1>17, <4>2, <4>3, <4>4, <4>5 DEF BindeeFor
    <3>3. QED
      BY <1>10, <3>1, <3>2
  <2>5. \A k : /\ <<k, "rebase">> \in DOMAIN C => <<k, "rebase">> \in DOMAIN A
               /\ <<k, "bind">> \in DOMAIN C => <<k, "bind">> \in DOMAIN A
    <3>1. \A k, x : /\ <<k, "rebase">> # <<x, "disp">> /\ <<k, "rebase">> # <<x, "bindee">>
                    /\ <<k, "bind">> # <<x, "disp">> /\ <<k, "bind">> # <<x, "bindee">>
      OBVIOUS
    <3>2. QED
      BY <1>24, <3>1
  <2>6. /\ \A o \in Rebased : <<o, "rebase">> \in DOMAIN C => C[<<o, "rebase">>] = RebaseKey(o)
        /\ \A k \in DOMAIN old.binds :
             <<k, "bind">> \in DOMAIN C => C[<<k, "bind">>] = Key(old.binds[k].blob)
    BY <1>12, <1>25, <2>5 DEF Linked
  <2>7. Keys' = Keys /\ Rebased' = Rebased /\ \A o : RebaseKey(o)' = RebaseKey(o)
    BY <1>a DEF Keys, Rebased, RebaseKey
  <2>8. QED
    BY <1>a, <2>1, <2>2, <2>3, <2>4, <2>6, <2>7 DEF Linked
<1>27. \A k : Bound(k)' <=> Bound(k)
  <2>1. \A k, x : <<k, "bind">> # <<x, "disp">> /\ <<k, "bind">> # <<x, "bindee">>
    OBVIOUS
  <2>2. \A k : <<k, "bind">> \in DOMAIN C <=> <<k, "bind">> \in DOMAIN A
    BY <1>24, <1>25, <2>1
  <2>3. QED
    BY <1>12, <1>20, <2>2 DEF Bound, Serves
<1>28. Known'
  <2>1. ASSUME NEW o \in 1..(cursor' - 1)
        PROVE  /\ Key(o) \in DOMAIN res'.found
               /\ HasPointee(old.blobs[o]) =>
                    <<"imm", o>> \in DOMAIN res'.found /\ res'.found[<<"imm", o>>] = Null
    <3>1. CASE o \in 1..(cursor - 1)
      BY <1>23, <1>b, <3>1 DEF Known
    <3>2. CASE o = cursor
      BY <1>1, <1>19, <1>22, <3>2
    <3>3. QED
      BY <1>d, <3>1, <3>2
  <2>2. ASSUME NEW o \in Nat, cursor + 1 <= o
        PROVE  Key(o) \notin DOMAIN res'.found /\ <<"imm", o>> \notin DOMAIN res'.found
    <3>1. o # cursor /\ cursor <= o
      BY <1>c, <2>2
    <3>2. Key(o) # Key(cursor) /\ <<"imm", o>> # <<"imm", cursor>>
      BY <3>1 DEF Key
    <3>3. Key(o) \notin DOMAIN r3.found /\ <<"imm", o>> \notin DOMAIN r3.found
      BY <1>18, <1>19, <1>21, <3>1, <3>2
    <3>4. QED
      BY <1>21, <1>22, <3>2, <3>3
  <2>3. \A k : <<"node", k>> \in DOMAIN res'.found => <<"node", k>> \in DOMAIN res.found
    BY <1>19, <1>21, <1>22
  <2>4. \A k : <<"node", k>> \in DOMAIN res'.found => res'.found[<<"node", k>>] = k
    BY <1>23, <1>b, <2>3 DEF Known
  <2>5. \A k \in DOMAIN old.binds : Bound(k)' => <<"node", k>> \in DOMAIN res'.found
    BY <1>23, <1>27, <1>b DEF Known
  <2>6. \A o \in Nat : cursor + 1 <= o => {Key(o), <<"imm", o>>} \cap DOMAIN res'.found = {}
    BY <2>2
  <2>7. QED
    BY <1>a, <2>1, <2>4, <2>5, <2>6 DEF Known
<1>29. Made'
  <2>1. ASSUME NEW o \in 1..(cursor' - 1)
        PROVE  res'.found[Key(o)] \in DOMAIN new' /\ new'[res'.found[Key(o)]].from = o
    <3>1. CASE o \in 1..(cursor - 1)
      <4>1. res'.found[Key(o)] = res.found[Key(o)]
        BY <1>23, <1>b, <3>1 DEF Known
      <4>2. QED
        BY <1>10, <1>b, <3>1, <4>1 DEF Made
    <3>2. CASE o = cursor
      <4>1. res'.found[Key(o)] = N + 1
        BY <1>22, <3>2
      <4>2. N + 1 \in DOMAIN new' /\ new'[N + 1] = made[1]
        BY <1>7, <1>10
      <4>3. made[1].from = cursor
        BY <1>7, <1>9 DEF MadeOf
      <4>4. QED
        BY <3>2, <4>1, <4>2, <4>3
    <3>3. QED
      BY <1>d, <3>1, <3>2
  <2>2. ASSUME NEW n \in DOMAIN new' PROVE MadeFrom(n)'
    <3>a. PICK o : o = new'[n].from
      OBVIOUS
    <3>b. PICK x : x = n - res'.found[Key(o)] + 1
      OBVIOUS
    <3>c. \/ n \in DOMAIN new /\ new'[n] = new[n]
          \/ n - N \in DOMAIN list /\ new'[n] = made[n - N]
      BY <1>10
    <3>1. ASSUME n \in DOMAIN new, new'[n] = new[n]
          PROVE  /\ o \in 1..(cursor' - 1) /\ x \in DOMAIN Transformed(old.blobs[o])
                 /\ new'[n] = MadeOf(Transformed(old.blobs[o])[x], o)
      <4>1. o \in 1..(cursor - 1)
        BY <1>b, <3>a, <3>1 DEF Made, MadeFrom
      <4>2. res'.found[Key(o)] = res.found[Key(o)]
        BY <1>23, <1>b, <4>1 DEF Known
      <4>3. QED
        BY <1>b, <1>d, <3>a, <3>b, <3>1, <4>1, <4>2 DEF Made, MadeFrom
    <3>2. ASSUME n - N \in DOMAIN list, new'[n] = made[n - N]
          PROVE  /\ o \in 1..(cursor' - 1) /\ x \in DOMAIN Transformed(old.blobs[o])
                 /\ new'[n] = MadeOf(Transformed(old.blobs[o])[x], o)
      <4>1. PICK y \in DOMAIN list : y = n - N
        BY <3>2
      <4>2. new'[n] = MadeOf(list[y], cursor)
        BY <1>9, <3>2, <4>1
      <4>3. o = cursor
        BY <3>a, <4>2 DEF MadeOf
      <4>4. x = n - (N + 1) + 1
        BY <1>22, <3>b, <4>3
      <4>5. x = y
        BY <1>11, <4>1, <4>4
      <4>6. QED
        BY <1>1, <1>2, <1>d, <4>1, <4>2, <4>3, <4>5
    <3>3. /\ o \in 1..(cursor' - 1) /\ x \in DOMAIN Transformed(old.blobs[o])
          /\ new'[n] = MadeOf(Transformed(old.blobs[o])[x], o)
      BY <3>c, <3>1, <3>2
    <3>4. QED
      BY <1>a, <3>a, <3>b, <3>3 DEF MadeFrom
  <2>3. QED
    BY <1>a, <2>1, <2>2 DEF Made
<1>30. ~Running'
  BY <1>a DEF Running
<1>31. QED
  BY <1>10, <1>20, <1>26, <1>28, <1>29, <1>30, <1>a, <1>b, <1>c DEF TInv

LEMMA NextTInv == TInv /\ [Next]_vars => TInv'
<1> SUFFICES ASSUME TInv, [Next]_vars PROVE TInv'
  OBVIOUS
<1>1. CASE TransformBlob
  BY <1>1, BlobStep
<1>2. CASE TransformThrows
  <2>1. UNCHANGED <<old, new, cursor, res>> /\ ~Running'
    BY <1>2 DEF TransformThrows, Running
  <2>2. QED
    BY <2>1, StaysTInv
<1>3. CASE \E o \in DOMAIN old.blobs : TransformRebase(o)
  BY <1>3, RebaseStep
<1>4. CASE \E k \in DOMAIN old.binds : TransformBind(k)
  BY <1>4, BindStep
<1>5. CASE StartBoth
  <2>1. UNCHANGED <<old, new, cursor, res>>
    BY <1>5 DEF StartBoth
  <2>2. Len(old.blobs) \in Nat /\ cursor \in 1..(Len(old.blobs) + 1) /\ cursor > Len(old.blobs)
    BY <1>5, OldParts DEF StartBoth, Transforming, TInv
  <2>3. cursor = Len(old.blobs) + 1
    BY <2>2
  <2>4. Done
    BY <1>5, <2>3 DEF StartBoth, Done
  <2>5. QED
    BY <2>1, <2>4, StaysTInv
<1>6. CASE Run32 \/ Bind32 \/ Run64 \/ Bind64
  <2>1. UNCHANGED <<old, new, cursor, res>> /\ Running
    BY <1>6 DEF Run32, Bind32, Run64, Bind64, Ran32, Ran64, Running
  <2>2. Done
    BY <2>1 DEF TInv
  <2>3. QED
    BY <2>1, <2>2, StaysTInv
<1>7. CASE UNCHANGED vars
  <2>1. UNCHANGED <<old, new, cursor, res>> /\ turn' = turn
    BY <1>7 DEF vars
  <2>2. Running' => Done
    BY <2>1 DEF Running, TInv
  <2>3. QED
    BY <2>1, <2>2, StaysTInv
<1>8. QED
  BY <1>1, <1>2, <1>3, <1>4, <1>5, <1>6, <1>7 DEF Next

-----------------------------------------------------------------------------
(* What the invariant says when both programs can run.                     *)

(* What was found for a blob is the first of those made of it: the others  *)
(* follow it.                                                              *)
LEMMA FoundIsFirst ==
  ASSUME TInv, NEW o \in 1..(cursor - 1)
  PROVE  FirstOf(o) = res.found[Key(o)]
<1>1. PICK f : f = res.found[Key(o)]
  OBVIOUS
<1>2. PICK m \in Nat : DOMAIN new = 1..m
  BY DEF TInv
<1>3. f \in 1..m /\ new[f].from = o
  BY <1>1, <1>2 DEF TInv, Made
<1>4. ASSUME NEW n \in 1..m, new[n].from = o PROVE f <= n
  <2>1. PICK d : d = n - f + 1
    OBVIOUS
  <2>2. d \in DOMAIN Transformed(old.blobs[o]) /\ o \in DOMAIN old.blobs
    <3>1. MadeFrom(n)
      BY <1>2 DEF TInv, Made
    <3>2. d \in DOMAIN Transformed(old.blobs[o])
      BY <1>1, <1>4, <2>1, <3>1 DEF MadeFrom
    <3>3. Len(old.blobs) \in Nat /\ DOMAIN old.blobs = 1..Len(old.blobs)
          /\ cursor \in 1..(Len(old.blobs) + 1)
      BY OldParts DEF TInv
    <3>4. QED
      BY <3>2, <3>3
  <2>3. d \in Nat \ {0}
    <3>1. Listed(old.blobs[o], Transformed(old.blobs[o]))
      BY <2>2, ListParts DEF TInv
    <3>2. QED
      BY <2>2, <3>1 DEF Listed
  <2>4. QED
    BY <1>3, <2>1, <2>3
<1>5. \A k \in 1..(f - 1) : new[k].from # o
  <2> SUFFICES ASSUME NEW k \in 1..(f - 1), new[k].from = o PROVE FALSE
    OBVIOUS
  <2>1. k \in 1..m /\ ~(f <= k)
    BY <1>2, <1>3
  <2>2. QED
    BY <1>4, <2>1
<1>6. \A n \in DOMAIN new :
        new[n].from = o /\ (\A k \in 1..(n - 1) : new[k].from # o) <=> n = f
  <2> SUFFICES ASSUME NEW n \in 1..m
               PROVE  new[n].from = o /\ (\A k \in 1..(n - 1) : new[k].from # o) <=> n = f
    BY <1>2
  <2>1. CASE n = f
    BY <1>3, <1>5, <2>1
  <2>2. CASE n # f /\ new[n].from = o
    <3>1. f \in 1..(n - 1)
      BY <1>3, <1>4, <2>2
    <3>2. QED
      BY <1>3, <2>2, <3>1
  <2>3. QED
    BY <2>1, <2>2
<1>7. f \in DOMAIN new
  BY <1>2, <1>3
<1>8. FirstOf(o) = f
  BY <1>6, <1>7 DEF FirstOf
<1>9. QED
  BY <1>1, <1>8

LEMMA AllFound ==
  ASSUME TInv, Running
  PROVE  /\ 1..(cursor - 1) = DOMAIN old.blobs
         /\ Keys \subseteq DOMAIN res.found
<1>1. Done
  BY DEF TInv
<1>2. 1..(cursor - 1) = DOMAIN old.blobs
  BY <1>1, OldParts DEF TInv, Done
<1>3. Known
  BY DEF TInv
<1>4. \A o \in DOMAIN old.blobs : Key(o) \in DOMAIN res.found
  BY <1>2, <1>3 DEF Known
<1>5. \A o \in DOMAIN old.blobs : HasPointee(old.blobs[o]) => <<"imm", o>> \in DOMAIN res.found
  BY <1>2, <1>3 DEF Known
<1>6. \A k \in DOMAIN old.binds : <<"node", k>> \in DOMAIN res.found
  BY <1>1, <1>3 DEF Known, Done
<1>7. QED
  BY <1>2, <1>4, <1>5, <1>6 DEF Keys

(* A blob that holds an absolute address is the copy of one, which is what *)
(* was found for that one.                                                 *)
LEMMA CopyOf ==
  ASSUME TInv, NEW n \in DOMAIN new, NEW o, NEW b, o = new[n].from, b = old.blobs[o],
         b.op \in Special \/ new[n].op \in Special
  PROVE  /\ o \in 1..(cursor - 1) /\ n = res.found[Key(o)]
         /\ new[n].op = b.op /\ new[n].disp = Disp(b)
<1>1. PICK list : list = Transformed(b)
  OBVIOUS
<1>2. PICK x : x = n - res.found[Key(o)] + 1
  OBVIOUS
<1>3. o \in 1..(cursor - 1) /\ x \in DOMAIN list /\ new[n] = MadeOf(list[x], o)
  BY <1>1, <1>2 DEF TInv, Made, MadeFrom
<1>4. o \in DOMAIN old.blobs
  BY <1>3, OldParts DEF TInv
<1>5. Listed(b, list)
  BY <1>1, <1>4, ListParts DEF TInv
<1>6. new[n].op = list[x].op /\ new[n].disp = list[x].disp
  BY <1>3 DEF MadeOf
<1>7. b.op \notin Replaced
  BY <1>3, <1>5, <1>6 DEF Listed
<1>8. DOMAIN list = 1..1 /\ list[1] = Copy(b)
  BY <1>5, <1>7 DEF Listed
<1>9. x = 1
  BY <1>3, <1>8
<1>10. new[n].op = b.op /\ new[n].disp = Disp(b)
  BY <1>6, <1>8, <1>9 DEF Copy
<1>11. PICK f \in Int : f = res.found[Key(o)]
  BY <1>3 DEF TInv, Made
<1>12. n \in Int
  BY DEF TInv
<1>13. n = f
  BY <1>2, <1>9, <1>11, <1>12
<1>14. QED
  BY <1>3, <1>10, <1>11, <1>13

LEMMA TInvImplies == TInv => PointersToFirst
<1> SUFFICES ASSUME TInv, Running
             PROVE  /\ DOMAIN res.todo = {}
                    /\ \A n \in DOMAIN new : new[n].disp[1] = "blob" =>
                         res.pointer[<<n, "disp">>] = FirstOf(new[n].disp[2])
                    /\ \A k \in DOMAIN old.binds :
                         res.pointer[<<k, "bind">>] = FirstOf(old.binds[k].blob)
                    /\ \A n \in DOMAIN new :
                         new[n].op = "helper" => res.pointer[<<n, "bindee">>] = new[n].n
                    /\ {res.pointer[<<o, "rebase">>] : o \in Rebased} \ {Null} =
                         {n \in DOMAIN new : Absolute(new[n]) /\ new[n].disp # Nowhere}
  BY DEF PointersToFirst
<1>1. PICK A : Serves(res, A) /\ Linked(A)
  BY DEF TInv
<1>2. 1..(cursor - 1) = DOMAIN old.blobs /\ Keys \subseteq DOMAIN res.found
  BY AllFound
<1>3. \A o \in DOMAIN old.blobs : FirstOf(o) = res.found[Key(o)]
  BY <1>2, FoundIsFirst
<1>4. Done /\ Known /\ Made
  BY DEF TInv
<1>5. \A p \in DOMAIN A : A[p] \in DOMAIN res.found /\ res.pointer[p] = res.found[A[p]]
  BY <1>1, <1>2 DEF Serves, Linked
<1>6. DOMAIN res.todo = {}
  <2> SUFFICES ASSUME NEW x \in DOMAIN res.todo PROVE FALSE
    OBVIOUS
  <2>1. PICK p \in res.todo[x] : p \in DOMAIN A /\ A[p] = x
    BY <1>1 DEF Serves
  <2>2. x \notin DOMAIN res.found
    BY <1>1 DEF Serves
  <2>3. QED
    BY <1>5, <2>1, <2>2
<1>7. ASSUME NEW n \in DOMAIN new, new[n].disp[1] = "blob"
      PROVE  res.pointer[<<n, "disp">>] = FirstOf(new[n].disp[2])
  <2>1. PICK d : d = new[n].disp
    OBVIOUS
  <2>2. <<n, "disp">> \in DOMAIN A /\ A[<<n, "disp">>] = d
    BY <1>1, <1>7, <2>1 DEF Linked, Points
  <2>3. d \in Keys /\ d[1] = "blob"
    BY <1>1, <1>7, <2>1, <2>2 DEF Linked
  <2>4. PICK o \in DOMAIN old.blobs : d = Key(o)
    BY <2>3 DEF Keys
  <2>5. d[2] = o
    BY <2>4 DEF Key
  <2>6. res.pointer[<<n, "disp">>] = res.found[d]
    BY <1>5, <2>2
  <2>7. QED
    BY <1>3, <2>1, <2>4, <2>5, <2>6
<1>8. ASSUME NEW k \in DOMAIN old.binds
      PROVE  res.pointer[<<k, "bind">>] = FirstOf(old.binds[k].blob)
  <2>1. <<k, "bind">> \in DOMAIN A
    BY <1>1, <1>4 DEF Done, Bound, Serves
  <2>2. A[<<k, "bind">>] = Key(old.binds[k].blob)
    BY <1>1, <2>1 DEF Linked
  <2>3. old.binds[k].blob \in DOMAIN old.blobs
    BY OldParts DEF TInv
  <2>4. QED
    BY <1>3, <1>5, <2>1, <2>2, <2>3
<1>9. ASSUME NEW n \in DOMAIN new, new[n].op = "helper"
      PROVE  res.pointer[<<n, "bindee">>] = new[n].n
  <2>1. <<n, "bindee">> \in DOMAIN A /\ A[<<n, "bindee">>] = <<"node", new[n].n>>
    BY <1>1, <1>9 DEF Linked
  <2>2. /\ <<"node", new[n].n>> \in DOMAIN res.found
        /\ res.pointer[<<n, "bindee">>] = res.found[<<"node", new[n].n>>]
    BY <1>5, <2>1
  <2>3. QED
    BY <1>4, <2>2 DEF Known
<1>10. ASSUME NEW o \in Rebased
       PROVE  res.pointer[<<o, "rebase">>] = res.found[RebaseKey(o)]
  <2>1. <<o, "rebase">> \in DOMAIN A
    BY <1>1, <1>4 DEF Done, Rebound, Serves
  <2>2. QED
    BY <1>1, <1>5, <2>1 DEF Linked
<1>11. ASSUME NEW o \in Rebased, res.pointer[<<o, "rebase">>] # Null
       PROVE  /\ res.pointer[<<o, "rebase">>] \in DOMAIN new
              /\ Absolute(new[res.pointer[<<o, "rebase">>]])
              /\ new[res.pointer[<<o, "rebase">>]].disp # Nowhere
  <2>1. PICK b : b = old.blobs[o]
    OBVIOUS
  <2>2. o \in DOMAIN old.blobs /\ b.at # 0 /\ (Absolute(b) \/ HasPointee(b))
    BY <2>1 DEF Rebased
  <2>3. ~HasPointee(b)
    <3> SUFFICES ASSUME HasPointee(b) PROVE FALSE
      OBVIOUS
    <3>1. res.found[<<"imm", o>>] = Null
      BY <1>2, <1>4, <2>1, <2>2 DEF Known
    <3>2. QED
      BY <1>10, <1>11, <2>1, <3>1 DEF RebaseKey
  <2>4. PICK v : v = res.found[Key(o)]
    OBVIOUS
  <2>5. res.pointer[<<o, "rebase">>] = v
    BY <1>10, <2>1, <2>3, <2>4 DEF RebaseKey
  <2>6. v \in DOMAIN new /\ new[v].from = o
    BY <1>2, <1>4, <2>2, <2>4 DEF Made
  <2>7. Absolute(b) /\ b.op \in Special
    BY <2>2, <2>3 DEF Absolute, Special
  <2>8. new[v].op = b.op /\ new[v].disp = Disp(b)
    BY <2>1, <2>6, <2>7, CopyOf
  <2>9. Disp(b) # Nowhere
    BY <2>2 DEF Disp, Key, Nowhere
  <2>10. Absolute(new[v])
    BY <2>7, <2>8 DEF Absolute
  <2>11. QED
    BY <2>5, <2>6, <2>8, <2>9, <2>10
<1>12. ASSUME NEW n \in DOMAIN new, Absolute(new[n]), new[n].disp # Nowhere
       PROVE  /\ n # Null
              /\ \E o \in Rebased : n = res.pointer[<<o, "rebase">>]
  <2>1. PICK o : o = new[n].from
    OBVIOUS
  <2>2. PICK b : b = old.blobs[o]
    OBVIOUS
  <2>3. new[n].op \in Special
    BY <1>12 DEF Absolute, Special
  <2>4. /\ o \in 1..(cursor - 1) /\ n = res.found[Key(o)]
        /\ new[n].op = b.op /\ new[n].disp = Disp(b)
    BY <2>1, <2>2, <2>3, CopyOf
  <2>5. b.at # 0
    BY <1>12, <2>4 DEF Disp
  <2>6. Absolute(b) /\ ~HasPointee(b)
    BY <1>12, <2>4 DEF Absolute, HasPointee
  <2>7. o \in Rebased
    BY <1>2, <2>2, <2>4, <2>5, <2>6 DEF Rebased
  <2>8. RebaseKey(o) = Key(o)
    BY <2>2, <2>6 DEF RebaseKey
  <2>9. n = res.pointer[<<o, "rebase">>]
    BY <1>10, <2>4, <2>7, <2>8
  <2>10. n # Null
    BY NullAssumption DEF TInv
  <2>11. QED
    BY <2>7, <2>9, <2>10
<1>13. {res.pointer[<<o, "rebase">>] : o \in Rebased} \ {Null} =
         {n \in DOMAIN new : Absolute(new[n]) /\ new[n].disp # Nowhere}
  BY <1>11, <1>12
<1>14. QED
  BY <1>6, <1>7, <1>8, <1>9, <1>13

(* When the programs run, no pointer of the new archive is unbound, and    *)
(* each is the one to the first of the blobs made of what it led to; the   *)
(* stub helpers have their bind nodes, and the rebase nodes are the words  *)
(* with an absolute address: for archives of any size, whatever order      *)
(* their blobs point to one another in.                                    *)
THEOREM TransformedPointersToFirst == Spec => []PointersToFirst
<1>1. Spec => []TInv
  BY InitTInv, NextTInv, PTL DEF Spec
<1>2. QED
  BY <1>1, TInvImplies, PTL

-----------------------------------------------------------------------------
(* The blobs made of one lie where those made of the one before end: those *)
(* made of o begin at F[o].                                                *)

Size(o) == Len(Transformed(old.blobs[o]))
Single(a, b) == \A c \in a..(b - 1) : Size(c) = 1
MadeAt(o, f) ==
  \A x \in DOMAIN Transformed(old.blobs[o]) :
    f + x - 1 \in DOMAIN new /\ new[f + x - 1] = MadeOf(Transformed(old.blobs[o])[x], o)
Blocks(F) ==
  /\ F \in [1..cursor -> Nat \ {0}]
  /\ F[1] = 1 /\ F[cursor] = Len(new) + 1
  /\ \A o \in 1..(cursor - 1) : MadeAt(o, F[o])
  /\ \A a \in 1..(cursor - 1), b \in 1..cursor : a < b => F[a] + Size(a) <= F[b]
  /\ \A a \in 1..(cursor - 1) : F[a + 1] = F[a] + Size(a)
  /\ \A a, b \in 1..cursor : a < b /\ Single(a, b) => F[b] = F[a] + (b - a)
  /\ \A n \in DOMAIN new : new[n].from \in 1..(cursor - 1) /\ F[new[n].from] <= n
BInv ==
  /\ \E F : Blocks(F)
  /\ \A o \in 1..(cursor - 1) : ~Throws(old.blobs[o])

LEMMA InitBInv == Init => BInv
<1> SUFFICES ASSUME Init PROVE BInv
  OBVIOUS
<1>1. new = <<>> /\ cursor = 1 /\ Len(new) = 0 /\ DOMAIN new = {}
  BY DEF Init
<1>2. PICK F : F = [o \in 1..cursor |-> 1]
  OBVIOUS
<1>3. 1..cursor = {1} /\ 1..(cursor - 1) = {}
  BY <1>1
<1>4. Blocks(F)
  BY <1>1, <1>2, <1>3 DEF Blocks
<1>5. QED
  BY <1>3, <1>4 DEF BInv

LEMMA StaysBInv ==
  ASSUME BInv, UNCHANGED <<old, new, cursor>>
  PROVE  BInv'
<1>1. PICK F : Blocks(F)
  BY DEF BInv
<1>2. Blocks(F)'
  BY <1>1 DEF Blocks, Single, Size, MadeAt
<1>3. QED
  BY <1>2 DEF BInv

(* What the step that transforms a blob adds.                              *)
Grown(N, list, c) ==
  /\ N \in Nat /\ Len(new) = N /\ DOMAIN new = 1..N /\ Len(new') = N + Len(list)
  /\ \A n \in DOMAIN new : n \in DOMAIN new' /\ new'[n] = new[n]
  /\ \A x \in DOMAIN list : N + x \in DOMAIN new' /\ new'[N + x] = MadeOf(list[x], c)
  /\ \A n \in DOMAIN new' :
       \/ n \in DOMAIN new
       \/ N < n /\ n - N \in DOMAIN list /\ new'[n] = MadeOf(list[n - N], c)

LEMMA BlobGrows ==
  ASSUME TInv, TransformBlob
  PROVE  Grown(Len(new), Transformed(old.blobs[cursor]), cursor)
<1>1. PICK list : list = Transformed(old.blobs[cursor])
  OBVIOUS
<1>2. PICK made : made = [x \in DOMAIN list |-> MadeOf(list[x], cursor)]
  OBVIOUS
<1>3. /\ cursor <= Len(old.blobs) /\ new' = new \o made
      /\ old \in Programs /\ cursor \in 1..(Len(old.blobs) + 1) /\ (\E S : new \in Seq(S))
  BY <1>1, <1>2 DEF TransformBlob, TInv
<1>4. cursor \in DOMAIN old.blobs
  <2>1. Len(old.blobs) \in Nat /\ DOMAIN old.blobs = 1..Len(old.blobs)
    BY <1>3, OldParts
  <2>2. QED
    BY <1>3, <2>1
<1>5. Len(list) \in Nat /\ DOMAIN list = 1..Len(list)
  <2>1. old \in Programs
    BY <1>3
  <2>2. Listed(old.blobs[cursor], Transformed(old.blobs[cursor]))
    BY <1>4, <2>1, ListParts
  <2>3. Listed(old.blobs[cursor], list)
    BY <1>1, <2>2
  <2>4. QED
    BY <2>3 DEF Listed
<1>6. /\ \E S : made \in Seq(S)
      /\ DOMAIN made = DOMAIN list /\ \A x \in DOMAIN list : made[x] = MadeOf(list[x], cursor)
      /\ Len(made) = Len(list)
  <2>1. PICK T : T = {MadeOf(list[x], cursor) : x \in DOMAIN list}
    OBVIOUS
  <2>2. made \in [1..Len(list) -> T]
    BY <1>2, <1>5, <2>1
  <2>3. made \in Seq(T)
    BY <1>5, <2>2
  <2>4. QED
    BY <1>2, <1>5, <2>3
<1>7. PICK N \in Nat : N = Len(new) /\ DOMAIN new = 1..N
  BY <1>3
<1>8. PICK c : c = new \o made
  OBVIOUS
<1>9. /\ Len(c) = N + Len(made)
      /\ \A n \in DOMAIN c : \/ n \in DOMAIN new /\ c[n] = new[n]
                             \/ n - N \in DOMAIN made /\ c[n] = made[n - N]
      /\ \A n \in DOMAIN new : n \in DOMAIN c /\ c[n] = new[n]
      /\ \A x \in DOMAIN made : N + x \in DOMAIN c /\ c[N + x] = made[x]
      /\ \E S : c \in Seq(S)
  <2>1. (\E S : new \in Seq(S)) /\ \E S : made \in Seq(S)
    BY <1>3, <1>6
  <2>2. /\ Len(new \o made) = Len(new) + Len(made)
        /\ \A n \in DOMAIN (new \o made) :
             \/ n \in DOMAIN new /\ (new \o made)[n] = new[n]
             \/ n - Len(new) \in DOMAIN made /\ (new \o made)[n] = made[n - Len(new)]
        /\ \A n \in DOMAIN new : n \in DOMAIN (new \o made) /\ (new \o made)[n] = new[n]
        /\ \A x \in DOMAIN made :
             Len(new) + x \in DOMAIN (new \o made) /\ (new \o made)[Len(new) + x] = made[x]
        /\ \E S : new \o made \in Seq(S)
    BY <2>1, Joined
  <2>3. QED
    BY <1>7, <1>8, <2>2
<1>10. \A n \in DOMAIN c : n \in Int
  BY <1>9
<1>11. \A n \in DOMAIN c : n - N \in DOMAIN list => N < n
  BY <1>5, <1>10
<1>12. QED
  BY <1>1, <1>3, <1>5, <1>6, <1>7, <1>8, <1>9, <1>11 DEF Grown

LEMMA BlobStepBInv == ASSUME TInv, BInv, TransformBlob PROVE BInv'
<1>1. PICK F : Blocks(F)
  BY DEF BInv
<1>2. PICK list : list = Transformed(old.blobs[cursor])
  OBVIOUS
<1>3. PICK N : N = Len(new)
  OBVIOUS
<1>4. Grown(N, list, cursor)
  BY <1>2, <1>3, BlobGrows
<1>5. /\ cursor \in Nat \ {0} /\ cursor' = cursor + 1 /\ old' = old
      /\ ~Throws(old.blobs[cursor]) /\ cursor \in DOMAIN old.blobs
  <2>1. Len(old.blobs) \in Nat /\ DOMAIN old.blobs = 1..Len(old.blobs)
    BY OldParts DEF TInv
  <2>2. QED
    BY <2>1 DEF TransformBlob, TInv
<1>6. \A o : Size(o)' = Size(o)
  BY <1>5 DEF Size
<1>7. Size(cursor) = Len(list) /\ Len(list) \in Nat \ {0} /\ DOMAIN list = 1..Len(list)
  <2>1. Listed(old.blobs[cursor], list)
    BY <1>2, <1>5, ListParts DEF TInv
  <2>2. QED
    BY <1>2, <2>1 DEF Listed, Size
<1>8. PICK L \in Nat \ {0} : L = Len(list)
  BY <1>7
<1>9. PICK G : G = [o \in 1..(cursor + 1) |-> IF o <= cursor THEN F[o] ELSE N + 1 + L]
  OBVIOUS
<1>10. /\ N \in Nat /\ F \in [1..cursor -> Nat \ {0}] /\ F[1] = 1 /\ F[cursor] = N + 1
  BY <1>1, <1>3, <1>4 DEF Blocks, Grown
<1>11. /\ G \in [1..(cursor + 1) -> Nat \ {0}] /\ G[cursor + 1] = N + 1 + L
       /\ \A o \in 1..cursor : G[o] = F[o]
  BY <1>5, <1>9, <1>10
<1>12. /\ \A n \in DOMAIN new : n \in DOMAIN new' /\ new'[n] = new[n]
       /\ \A x \in DOMAIN list : N + x \in DOMAIN new' /\ new'[N + x] = MadeOf(list[x], cursor)
       /\ \A n \in DOMAIN new' :
            \/ n \in DOMAIN new
            \/ N < n /\ new'[n].from = cursor /\ n \in Int
       /\ Len(new') = N + L
  <2>1. \A n : new'[n] = MadeOf(list[n - N], cursor) => new'[n].from = cursor
    BY DEF MadeOf
  <2>2. (\E S : new' \in Seq(S)) 
    BY BlobStep DEF TInv
  <2>3. \A n \in DOMAIN new' : n \in Int
    BY <2>2
  <2>4. QED
    BY <1>4, <1>8, <2>1, <2>3 DEF Grown
<1>13. \A o \in 1..cursor : MadeAt(o, G[o])'
  <2> SUFFICES ASSUME NEW o \in 1..cursor PROVE MadeAt(o, G[o])'
    OBVIOUS
  <2>1. CASE o # cursor
    <3>1. o \in 1..(cursor - 1) /\ G[o] = F[o]
      BY <1>5, <1>11, <2>1
    <3>2. MadeAt(o, F[o])
      BY <1>1, <3>1 DEF Blocks
    <3>3. QED
      BY <1>5, <1>12, <3>1, <3>2 DEF MadeAt
  <2>2. CASE o = cursor
    <3>1. G[o] = N + 1
      BY <1>5, <1>10, <1>11, <2>2
    <3>2. \A x \in DOMAIN list : G[o] + x - 1 = N + x
      BY <1>7, <1>10, <3>1
    <3>3. QED
      BY <1>2, <1>5, <1>12, <2>2, <3>2 DEF MadeAt
  <2>3. QED
    BY <2>1, <2>2
<1>14. \A a \in 1..cursor, b \in 1..(cursor + 1) : a < b => G[a] + Size(a) <= G[b]
  <2> SUFFICES ASSUME NEW a \in 1..cursor, NEW b \in 1..(cursor + 1), a < b
               PROVE  G[a] + Size(a) <= G[b]
    OBVIOUS
  <2>1. CASE b <= cursor
    <3>1. a \in 1..(cursor - 1) /\ b \in 1..cursor
      BY <1>5, <2>1
    <3>2. F[a] + Size(a) <= F[b]
      BY <1>1, <3>1 DEF Blocks
    <3>3. QED
      BY <1>11, <3>1, <3>2
  <2>2. CASE b = cursor + 1 /\ a = cursor
    BY <1>5, <1>7, <1>8, <1>10, <1>11, <2>2
  <2>3. CASE b = cursor + 1 /\ a # cursor
    <3>1. a \in 1..(cursor - 1) /\ cursor \in 1..cursor /\ a < cursor
      BY <1>5, <2>3
    <3>2. F[a] + Size(a) <= F[cursor]
      BY <1>1, <3>1 DEF Blocks
    <3>3. Size(a) \in Nat
      <4>1. a \in DOMAIN old.blobs
        BY <1>5, <3>1, OldParts DEF TInv
      <4>2. Listed(old.blobs[a], Transformed(old.blobs[a]))
        BY <4>1, ListParts DEF TInv
      <4>3. QED
        BY <4>2 DEF Listed, Size
    <3>4. PICK f \in Nat : f = F[a]
      BY <1>10, <3>1
    <3>5. QED
      BY <1>8, <1>10, <1>11, <2>3, <3>2, <3>3, <3>4
  <2>4. QED
    BY <1>5, <2>1, <2>2, <2>3
<1>15. \A a \in 1..cursor : G[a + 1] = G[a] + Size(a)
  <2> SUFFICES ASSUME NEW a \in 1..cursor PROVE G[a + 1] = G[a] + Size(a)
    OBVIOUS
  <2>1. CASE a = cursor
    BY <1>5, <1>7, <1>8, <1>10, <1>11, <2>1
  <2>2. CASE a # cursor
    <3>1. a \in 1..(cursor - 1) /\ a + 1 \in 1..cursor
      BY <1>5, <2>2
    <3>2. F[a + 1] = F[a] + Size(a)
      BY <1>1, <3>1 DEF Blocks
    <3>3. QED
      BY <1>11, <3>1, <3>2
  <2>3. QED
    BY <2>1, <2>2
<1>16. \A a, b \in 1..(cursor + 1) : a < b /\ Single(a, b) => G[b] = G[a] + (b - a)
  <2> SUFFICES ASSUME NEW a \in 1..(cursor + 1), NEW b \in 1..(cursor + 1), a < b, Single(a, b)
               PROVE  G[b] = G[a] + (b - a)
    OBVIOUS
  <2>1. CASE b <= cursor
    <3>1. a \in 1..cursor /\ b \in 1..cursor
      BY <1>5, <2>1
    <3>2. F[b] = F[a] + (b - a)
      BY <1>1, <3>1 DEF Blocks
    <3>3. QED
      BY <1>11, <3>1, <3>2
  <2>2. CASE b = cursor + 1
    <3>1. Size(cursor) = 1 /\ a \in 1..cursor
      BY <1>5, <2>2 DEF Single
    <3>2. F[cursor] = F[a] + (cursor - a)
      <4>1. CASE a = cursor
        <5>1. F[a] \in Nat
          BY <1>10, <3>1
        <5>2. QED
          BY <1>5, <4>1, <5>1
      <4>2. CASE a # cursor
        <5>1. a < cursor /\ cursor \in 1..cursor
          BY <1>5, <3>1, <4>2
        <5>2. Single(a, cursor)
          BY <1>5, <2>2, <3>1 DEF Single
        <5>3. QED
          BY <1>1, <3>1, <5>1, <5>2 DEF Blocks
      <4>3. QED
        BY <4>1, <4>2
    <3>3. PICK f \in Nat : f = F[a]
      BY <1>10, <3>1
    <3>4. QED
      BY <1>5, <1>7, <1>8, <1>10, <1>11, <2>2, <3>1, <3>2, <3>3
  <2>3. QED
    BY <1>5, <2>1, <2>2
<1>17. \A n \in DOMAIN new' : new'[n].from \in 1..cursor /\ G[new'[n].from] <= n
  <2> SUFFICES ASSUME NEW n \in DOMAIN new'
               PROVE  new'[n].from \in 1..cursor /\ G[new'[n].from] <= n
    OBVIOUS
  <2>1. CASE n \in DOMAIN new
    <3>1. new'[n] = new[n] /\ new[n].from \in 1..(cursor - 1) /\ F[new[n].from] <= n
      BY <1>1, <1>12, <2>1 DEF Blocks
    <3>2. PICK a : a = new[n].from
      OBVIOUS
    <3>3. a \in 1..cursor
      BY <1>5, <3>1, <3>2
    <3>4. QED
      BY <1>11, <3>1, <3>2, <3>3
  <2>2. CASE n \notin DOMAIN new
    BY <1>5, <1>10, <1>11, <1>12, <2>2
  <2>3. QED
    BY <2>1, <2>2
<1>18. Blocks(G)'
  <2>1. 1..(cursor' - 1) = 1..cursor /\ cursor' = cursor + 1
    BY <1>5
  <2>2. G[1] = 1 /\ G[cursor'] = Len(new') + 1
    BY <1>5, <1>8, <1>10, <1>11, <1>12
  <2>3. \A a, b : Single(a, b)' <=> Single(a, b)
    BY <1>6 DEF Single
  <2>4. QED
    BY <1>6, <1>11, <1>13, <1>14, <1>15, <1>16, <1>17, <2>1, <2>2, <2>3 DEF Blocks
<1>19. \A o \in 1..(cursor' - 1) : ~Throws(old.blobs[o])'
  BY <1>5 DEF BInv, Throws
<1>20. QED
  BY <1>5, <1>18, <1>19 DEF BInv

LEMMA NextBInv == TInv /\ BInv /\ [Next]_vars => BInv'
<1> SUFFICES ASSUME TInv, BInv, [Next]_vars PROVE BInv'
  OBVIOUS
<1>1. TransformBlob \/ UNCHANGED <<old, new, cursor>>
  BY DEF Next, vars, TransformThrows, TransformRebase, TransformBind, StartBoth, Run32, Ran32,
         Bind32, Run64, Ran64, Bind64
<1>2. QED
  BY <1>1, BlobStepBInv, StaysBInv

-----------------------------------------------------------------------------
(* What replaces an instruction does what it did.                          *)

Registers == {"eax", "ecx", "esp", "r11"}
Mapping(s) == s = [x \in DOMAIN s |-> s[x]]
Machine(m) ==
  /\ m = [pc |-> m.pc, zf |-> m.zf, reg |-> m.reg, stk |-> m.stk, mem |-> m.mem]
  /\ m.reg = [r \in Registers |-> m.reg[r]] /\ Mapping(m.stk)
  /\ m.reg["esp"] = <<"sp", Sp(m)>> /\ Sp(m) \in Int

(* w is m in all but the instruction pointer pc and the registers reg.     *)
Becomes(m, w, pc, reg, stk) ==
  w = [pc |-> pc, zf |-> m.zf, reg |-> reg, stk |-> stk, mem |-> m.mem]
Over(m, r, v) == [m.reg EXCEPT ![r] = v]
Down(m, k) == Over(m, "esp", <<"sp", Sp(m) - k>>)

LEMMA GotoIs ==
  ASSUME NEW m, Machine(m), NEW p
  PROVE  Machine(Goto(m, p)) /\ Becomes(m, Goto(m, p), p, m.reg, m.stk) /\ Sp(Goto(m, p)) = Sp(m)
<1>1. PICK w : w = [pc |-> p, zf |-> m.zf, reg |-> m.reg, stk |-> m.stk, mem |-> m.mem]
  OBVIOUS
<1>2. Goto(m, p) = w
  BY <1>1 DEF Goto, Machine
<1>3. Sp(w) = Sp(m) /\ Machine(w) /\ Becomes(m, w, p, m.reg, m.stk)
  BY <1>1 DEF Machine, Becomes, Sp
<1>4. QED
  BY <1>2, <1>3

LEMMA SetIs ==
  ASSUME NEW m, Machine(m), NEW r \in Registers, NEW v,
         r = "esp" => v = <<"sp", v[2]>> /\ v[2] \in Int
  PROVE  /\ Machine(Set(m, r, v)) /\ Becomes(m, Set(m, r, v), m.pc, Over(m, r, v), m.stk)
         /\ Sp(Set(m, r, v)) = IF r = "esp" THEN v[2] ELSE Sp(m)
<1>1. PICK w : w = [pc |-> m.pc, zf |-> m.zf, reg |-> Over(m, r, v), stk |-> m.stk, mem |-> m.mem]
  OBVIOUS
<1>2. Set(m, r, v) = w
  BY <1>1 DEF Set, Over, Machine
<1>3. /\ w.reg = [x \in Registers |-> w.reg[x]]
      /\ w.reg["esp"] = IF r = "esp" THEN v ELSE m.reg["esp"]
  BY <1>1 DEF Over, Machine, Registers
<1>4. Sp(w) = IF r = "esp" THEN v[2] ELSE Sp(m)
  BY <1>3 DEF Sp
<1>5. Machine(w) /\ Becomes(m, w, m.pc, Over(m, r, v), m.stk)
  BY <1>1, <1>3, <1>4 DEF Machine, Becomes
<1>6. QED
  BY <1>2, <1>4, <1>5

LEMMA MoveIs ==
  ASSUME NEW m, Machine(m), NEW k \in Int
  PROVE  /\ Machine(Move(m, k)) /\ Sp(Move(m, k)) = Sp(m) + k
         /\ Becomes(m, Move(m, k), m.pc, Down(m, -k), m.stk)
<1>1. PICK v : v = <<"sp", Sp(m) + k>>
  OBVIOUS
<1>2. v[2] = Sp(m) + k /\ v = <<"sp", v[2]>> /\ v[2] \in Int /\ Sp(m) - (-k) = Sp(m) + k
  BY <1>1 DEF Machine
<1>3. Move(m, k) = Set(m, "esp", v) /\ Down(m, -k) = Over(m, "esp", v)
  BY <1>1, <1>2 DEF Move, Down
<1>4. "esp" \in Registers
  BY DEF Registers
<1>5. /\ Machine(Set(m, "esp", v)) /\ Becomes(m, Set(m, "esp", v), m.pc, Over(m, "esp", v), m.stk)
      /\ Sp(Set(m, "esp", v)) = v[2]
  BY <1>2, <1>4, SetIs
<1>6. QED
  BY <1>2, <1>3, <1>5

LEMMA StkIs ==
  ASSUME NEW m, Machine(m), NEW s, Mapping(s)
  PROVE  /\ Machine([m EXCEPT !.stk = s]) /\ Sp([m EXCEPT !.stk = s]) = Sp(m)
         /\ Becomes(m, [m EXCEPT !.stk = s], m.pc, m.reg, s)
<1>1. PICK w : w = [pc |-> m.pc, zf |-> m.zf, reg |-> m.reg, stk |-> s, mem |-> m.mem]
  OBVIOUS
<1>2. [m EXCEPT !.stk = s] = w
  BY <1>1 DEF Machine
<1>3. Sp(w) = Sp(m) /\ Machine(w) /\ Becomes(m, w, m.pc, m.reg, s)
  BY <1>1 DEF Machine, Becomes, Sp
<1>4. QED
  BY <1>2, <1>3

LEMMA HalfIs ==
  ASSUME NEW s, Mapping(s), NEW k, NEW v, NEW part
  PROVE  /\ PutHalf(s, k, v, part) = [x \in DOMAIN s |-> IF x = k THEN <<v, part>> ELSE s[x]]
         /\ Mapping(PutHalf(s, k, v, part))
<1>1. PICK t : t = [x \in DOMAIN s |-> IF x = k THEN <<v, part>> ELSE s[x]]
  OBVIOUS
<1>2. PutHalf(s, k, v, part) = t
  BY <1>1 DEF PutHalf, Mapping
<1>3. Mapping(t)
  BY <1>1 DEF Mapping
<1>4. QED
  BY <1>1, <1>2, <1>3

LEMMA WordIs ==
  ASSUME NEW s, Mapping(s), NEW k \in Int, NEW v
  PROVE  /\ PutWord(s, k, v) = [x \in DOMAIN s |-> IF x = k + 1 THEN <<v, 1>>
                                                   ELSE IF x = k THEN <<v, 0>> ELSE s[x]]
         /\ Mapping(PutWord(s, k, v))
<1>1. PICK q : q = PutHalf(s, k, v, 0)
  OBVIOUS
<1>2. q = [x \in DOMAIN s |-> IF x = k THEN <<v, 0>> ELSE s[x]] /\ Mapping(q)
  BY <1>1, HalfIs
<1>3. PICK t : t = PutHalf(q, k + 1, v, 1)
  OBVIOUS
<1>4. t = [x \in DOMAIN q |-> IF x = k + 1 THEN <<v, 1>> ELSE q[x]] /\ Mapping(t)
  BY <1>2, <1>3, HalfIs
<1>5. PutWord(s, k, v) = t
  BY <1>1, <1>3 DEF PutWord
<1>6. t = [x \in DOMAIN s |-> IF x = k + 1 THEN <<v, 1>> ELSE IF x = k THEN <<v, 0>> ELSE s[x]]
  BY <1>2, <1>4
<1>7. QED
  BY <1>4, <1>5, <1>6

(* Two pushes of half a word and a store make a push of a word.            *)
LEMMA WordOverHalves ==
  ASSUME NEW s, Mapping(s), NEW k \in Int, NEW v, NEW e
  PROVE  PutWord(PutHalf(PutHalf(s, k - 1, e, 0), k - 2, e, 0), k - 2, v) = PutWord(s, k - 2, v)
<1>1. PICK q : q = PutHalf(s, k - 1, e, 0)
  OBVIOUS
<1>2. q = [x \in DOMAIN s |-> IF x = k - 1 THEN <<e, 0>> ELSE s[x]] /\ Mapping(q)
  BY <1>1, HalfIs
<1>3. PICK u : u = PutHalf(q, k - 2, e, 0)
  OBVIOUS
<1>4. u = [x \in DOMAIN q |-> IF x = k - 2 THEN <<e, 0>> ELSE q[x]] /\ Mapping(u)
  BY <1>2, <1>3, HalfIs
<1>5. PICK n \in Int : n = k - 2 /\ k - 1 = n + 1
  OBVIOUS
<1>6. PutWord(u, n, v) = [x \in DOMAIN u |-> IF x = n + 1 THEN <<v, 1>>
                                             ELSE IF x = n THEN <<v, 0>> ELSE u[x]]
  BY <1>4, WordIs
<1>7. PutWord(s, n, v) = [x \in DOMAIN s |-> IF x = n + 1 THEN <<v, 1>>
                                             ELSE IF x = n THEN <<v, 0>> ELSE s[x]]
  BY WordIs
<1>8. PutWord(u, n, v) = PutWord(s, n, v)
  BY <1>2, <1>4, <1>5, <1>6, <1>7
<1>9. QED
  BY <1>1, <1>3, <1>5, <1>8

LEMMA PushIs ==
  ASSUME NEW m, Machine(m), NEW v
  PROVE  /\ Machine(Push(m, v)) /\ Sp(Push(m, v)) = Sp(m) - 2
         /\ Becomes(m, Push(m, v), m.pc, Down(m, 2), PutWord(m.stk, Sp(m) - 2, v))
<1>1. PICK w : w = Move(m, -2)
  OBVIOUS
<1>2. PICK k \in Int : k = Sp(m) - 2 /\ Sp(m) + (-2) = k
  BY DEF Machine
<1>3. Machine(w) /\ Sp(w) = k /\ Becomes(m, w, m.pc, Down(m, 2), m.stk)
  BY <1>1, <1>2, MoveIs
<1>4. PICK s : s = PutWord(m.stk, k, v)
  OBVIOUS
<1>5. Mapping(s) 
  <2>1. Mapping(m.stk)
    BY DEF Machine
  <2>2. QED
    BY <1>2, <1>4, <2>1, WordIs
<1>6. Push(m, v) = [w EXCEPT !.stk = s]
  <2>1. w.stk = m.stk
    BY <1>3 DEF Becomes
  <2>2. QED
    BY <1>1, <1>2, <1>4, <2>1 DEF Push
<1>7. PICK u : u = [w EXCEPT !.stk = s]
  OBVIOUS
<1>8. Machine(u) /\ Sp(u) = Sp(w) /\ Becomes(w, u, w.pc, w.reg, s)
  BY <1>3, <1>5, <1>7, StkIs
<1>9. Becomes(m, u, m.pc, Down(m, 2), s)
  BY <1>3, <1>8 DEF Becomes
<1>10. QED
  BY <1>2, <1>3, <1>4, <1>6, <1>7, <1>8, <1>9

(* A push of eight bytes, of which the upper four are zero.                *)
LEMMA PushWideIs ==
  ASSUME NEW m, Machine(m), NEW v
  PROVE  /\ Machine(PushWide(m, v)) /\ Sp(PushWide(m, v)) = Sp(m) - 4
         /\ Becomes(m, PushWide(m, v), m.pc, Down(m, 4),
                    PutWord(PutWord(m.stk, Sp(m) - 2, Num(0)), Sp(m) - 4, v))
<1>1. PICK w : w = Move(m, -4)
  OBVIOUS
<1>2. PICK k \in Int : k = Sp(m) - 4 /\ Sp(m) + (-4) = k
  BY DEF Machine
<1>3. Machine(w) /\ Sp(w) = k /\ Becomes(m, w, m.pc, Down(m, 4), m.stk)
  BY <1>1, <1>2, MoveIs
<1>4. PICK t : t = PutWord(m.stk, Sp(m) - 2, Num(0))
  OBVIOUS
<1>5. Mapping(t)
  <2>1. Mapping(m.stk) /\ Sp(m) - 2 \in Int
    BY DEF Machine
  <2>2. QED
    BY <1>4, <2>1, WordIs
<1>6. PICK s : s = PutWord(t, k, v)
  OBVIOUS
<1>7. Mapping(s)
  BY <1>2, <1>5, <1>6, WordIs
<1>8. PushWide(m, v) = [w EXCEPT !.stk = s]
  <2>1. w.stk = m.stk
    BY <1>3 DEF Becomes
  <2>2. QED
    BY <1>1, <1>2, <1>4, <1>6, <2>1 DEF PushWide
<1>9. PICK u : u = [w EXCEPT !.stk = s]
  OBVIOUS
<1>10. Machine(u) /\ Sp(u) = Sp(w) /\ Becomes(w, u, w.pc, w.reg, s)
  BY <1>3, <1>7, <1>9, StkIs
<1>11. Becomes(m, u, m.pc, Down(m, 4), s)
  BY <1>3, <1>10 DEF Becomes
<1>12. QED
  BY <1>2, <1>3, <1>4, <1>6, <1>8, <1>9, <1>10, <1>11

(* The push of half a word, of the lower half of eax.                      *)
PushHalf(m) == [Move(m, -1) EXCEPT !.stk = PutHalf(@, Sp(m) - 1, m.reg["eax"], 0)]

LEMMA PushHalfIs ==
  ASSUME NEW m, Machine(m)
  PROVE  /\ Machine(PushHalf(m)) /\ Sp(PushHalf(m)) = Sp(m) - 1
         /\ Becomes(m, PushHalf(m), m.pc, Down(m, 1),
                    PutHalf(m.stk, Sp(m) - 1, m.reg["eax"], 0))
<1>1. PICK w : w = Move(m, -1)
  OBVIOUS
<1>2. PICK k \in Int : k = Sp(m) - 1 /\ Sp(m) + (-1) = k
  BY DEF Machine
<1>3. Machine(w) /\ Sp(w) = k /\ Becomes(m, w, m.pc, Down(m, 1), m.stk)
  BY <1>1, <1>2, MoveIs
<1>4. PICK s : s = PutHalf(m.stk, k, m.reg["eax"], 0)
  OBVIOUS
<1>5. Mapping(s)
  <2>1. Mapping(m.stk)
    BY DEF Machine
  <2>2. QED
    BY <1>4, <2>1, HalfIs
<1>6. PushHalf(m) = [w EXCEPT !.stk = s]
  <2>1. w.stk = m.stk
    BY <1>3 DEF Becomes
  <2>2. QED
    BY <1>1, <1>2, <1>4, <2>1 DEF PushHalf
<1>7. PICK u : u = [w EXCEPT !.stk = s]
  OBVIOUS
<1>8. Machine(u) /\ Sp(u) = Sp(w) /\ Becomes(w, u, w.pc, w.reg, s)
  BY <1>3, <1>5, <1>7, StkIs
<1>9. Becomes(m, u, m.pc, Down(m, 1), s)
  BY <1>3, <1>8 DEF Becomes
<1>10. QED
  BY <1>2, <1>3, <1>4, <1>6, <1>7, <1>8, <1>9

(* What replaces a push does what it did: a flag does not change.          *)
Halves(m, a, b, c, v, w1, w2) ==
  /\ Write(Goto(w2, c), Goto(w2, c).reg["esp"], 0, v) = Goto(Push(m, v), c)
  /\ \A r : r \in Registers /\ r # "esp" => Goto(w2, c).reg[r] = m.reg[r]
  /\ w1.pc = a /\ w2.pc = b /\ Machine(Goto(w2, c))

LEMMA PushInHalves ==
  ASSUME NEW m, Machine(m), NEW a, NEW b, NEW c, NEW v, NEW w1, NEW w2,
         w1 = PushHalf(Goto(m, a)), w2 = PushHalf(Goto(w1, b))
  PROVE  Halves(m, a, b, c, v, w1, w2)
<1>1. PICK x \in Int : x = Sp(m)
  BY DEF Machine
<1>2. PICK g : g = Goto(m, a)
  OBVIOUS
<1>3. Machine(g) /\ Becomes(m, g, a, m.reg, m.stk) /\ Sp(g) = x
  BY <1>1, <1>2, GotoIs
<1>4. PICK t1 : t1 = PutHalf(m.stk, x - 1, m.reg["eax"], 0)
  OBVIOUS
<1>5. /\ Machine(w1) /\ Sp(w1) = x - 1
      /\ Becomes(m, w1, a, Down(m, 1), t1)
  <2>1. /\ Machine(w1) /\ Sp(w1) = Sp(g) - 1
        /\ Becomes(g, w1, g.pc, Down(g, 1), PutHalf(g.stk, Sp(g) - 1, g.reg["eax"], 0))
    BY <1>2, <1>3, PushHalfIs
  <2>2. g.pc = a /\ g.zf = m.zf /\ g.reg = m.reg /\ g.stk = m.stk /\ g.mem = m.mem
    BY <1>3 DEF Becomes
  <2>3. Down(g, 1) = Down(m, 1)
    BY <1>1, <1>3, <2>2 DEF Down, Over
  <2>4. QED
    BY <1>3, <1>4, <2>1, <2>2, <2>3 DEF Becomes
<1>6. PICK h : h = Goto(w1, b)
  OBVIOUS
<1>7. Machine(h) /\ Becomes(w1, h, b, w1.reg, w1.stk) /\ Sp(h) = x - 1
  BY <1>5, <1>6, GotoIs
<1>8. /\ w1.pc = a /\ w1.zf = m.zf /\ w1.reg = Down(m, 1) /\ w1.stk = t1 /\ w1.mem = m.mem
  BY <1>5 DEF Becomes
<1>9. /\ h.pc = b /\ h.zf = m.zf /\ h.reg = Down(m, 1) /\ h.stk = t1 /\ h.mem = m.mem
  BY <1>7, <1>8 DEF Becomes
<1>10. m.reg = [r \in Registers |-> m.reg[r]] /\ "eax" \in Registers /\ "eax" # "esp"
       /\ "esp" \in Registers
  BY DEF Machine, Registers
<1>11. h.reg["eax"] = m.reg["eax"]
  BY <1>9, <1>10 DEF Down, Over
<1>12. PICK t2 : t2 = PutHalf(t1, x - 2, m.reg["eax"], 0)
  OBVIOUS
<1>13. Machine(w2) /\ Sp(w2) = x - 2 /\ Becomes(m, w2, b, Down(m, 2), t2)
  <2>1. /\ Machine(w2) /\ Sp(w2) = Sp(h) - 1
        /\ Becomes(h, w2, h.pc, Down(h, 1), PutHalf(h.stk, Sp(h) - 1, h.reg["eax"], 0))
    BY <1>6, <1>7, PushHalfIs
  <2>2. Sp(h) - 1 = x - 2 /\ x - 1 - 1 = x - 2
    BY <1>1, <1>7
  <2>3. Down(h, 1) = Down(m, 2)
    BY <1>1, <1>9, <1>10, <2>2 DEF Down, Over
  <2>4. QED
    BY <1>9, <1>11, <1>12, <2>1, <2>2, <2>3 DEF Becomes
<1>14. PICK i : i = Goto(w2, c)
  OBVIOUS
<1>15. Machine(i) /\ Becomes(w2, i, c, w2.reg, w2.stk) /\ Sp(i) = x - 2
  BY <1>13, <1>14, GotoIs
<1>16. w2.pc = b /\ w2.zf = m.zf /\ w2.reg = Down(m, 2) /\ w2.stk = t2 /\ w2.mem = m.mem
  BY <1>13 DEF Becomes
<1>17. i.pc = c /\ i.zf = m.zf /\ i.reg = Down(m, 2) /\ i.stk = t2 /\ i.mem = m.mem
  BY <1>15, <1>16 DEF Becomes
<1>18. i.reg["esp"] = <<"sp", x - 2>>
  BY <1>15 DEF Machine
<1>19. PICK t3 : t3 = PutWord(m.stk, x - 2, v)
  OBVIOUS
<1>20. PutWord(t2, x - 2, v) = t3
  <2>1. Mapping(m.stk)
    BY DEF Machine
  <2>2. QED
    BY <1>1, <1>4, <1>12, <1>19, <2>1, WordOverHalves
<1>21. Mapping(t3)
  <2>1. Mapping(m.stk) /\ x - 2 \in Int
    BY <1>1 DEF Machine
  <2>2. QED
    BY <1>19, <2>1, WordIs
<1>22. Write(i, i.reg["esp"], 0, v) = [i EXCEPT !.stk = t3]
  <2>1. PICK e : e = i.reg["esp"]
    OBVIOUS
  <2>2. e[1] = "sp" /\ e[2] + 2 * 0 = x - 2
    BY <1>1, <1>18, <2>1
  <2>3. QED
    BY <1>17, <1>20, <2>1, <2>2 DEF Write
<1>23. PICK u : u = [i EXCEPT !.stk = t3]
  OBVIOUS
<1>24. Becomes(m, u, c, Down(m, 2), t3)
  <2>1. Becomes(i, u, i.pc, i.reg, t3)
    BY <1>15, <1>21, <1>23, StkIs
  <2>2. QED
    BY <1>17, <2>1 DEF Becomes
<1>25. PICK p : p = Push(m, v)
  OBVIOUS
<1>26. Machine(p) /\ Becomes(m, p, m.pc, Down(m, 2), t3)
  BY <1>1, <1>19, <1>25, PushIs
<1>27. Becomes(p, Goto(p, c), c, p.reg, p.stk)
  BY <1>26, GotoIs
<1>28. Goto(p, c) = u
  BY <1>24, <1>26, <1>27 DEF Becomes
<1>29. \A r : r \in Registers /\ r # "esp" => i.reg[r] = m.reg[r]
  BY <1>10, <1>17 DEF Down, Over
<1>30. QED
  BY <1>8, <1>14, <1>15, <1>16, <1>22, <1>23, <1>25, <1>28, <1>29 DEF Halves

-----------------------------------------------------------------------------
(* The two archives, when the programs run.                                *)

Built == TInv /\ BInv /\ Running

Six(l, a, b, c, d, e, f) ==
  DOMAIN l = 1..6 /\ Len(l) = 6 /\ l[1] = a /\ l[2] = b /\ l[3] = c /\ l[4] = d /\ l[5] = e /\ l[6] = f

LEMMA JoinedSix ==
  ASSUME NEW a, NEW b, NEW c, NEW d, NEW e, NEW f
  PROVE  Six(<<a>> \o <<b, c, d>> \o <<e, f>>, a, b, c, d, e, f)
<1>1. PICK S : S = {a, b, c, d, e, f}
  OBVIOUS
<1>2. PICK x, y, z : x = <<a>> /\ y = <<b, c, d>> /\ z = <<e, f>>
  OBVIOUS
<1>3. x \in Seq(S) /\ y \in Seq(S) /\ z \in Seq(S)
  BY <1>1, <1>2
<1>4. /\ Len(x) = 1 /\ DOMAIN x = {1} /\ x[1] = a
      /\ Len(y) = 3 /\ DOMAIN y = {1, 2, 3} /\ y[1] = b /\ y[2] = c /\ y[3] = d
      /\ Len(z) = 2 /\ DOMAIN z = {1, 2} /\ z[1] = e /\ z[2] = f
  BY <1>2
<1>5. PICK u : u = x \o y
  OBVIOUS
<1>6. /\ u \in Seq(S) /\ Len(u) = Len(x) + Len(y) /\ DOMAIN u = 1..Len(u)
      /\ \A k \in DOMAIN x : u[k] = x[k]
      /\ \A k \in DOMAIN y : u[Len(x) + k] = y[k]
  BY <1>3, <1>5, Joined
<1>7. Len(u) = 4 /\ u[1] = a /\ u[2] = b /\ u[3] = c /\ u[4] = d /\ DOMAIN u = {1, 2, 3, 4}
  BY <1>4, <1>6
<1>8. PICK l : l = u \o z
  OBVIOUS
<1>9. /\ l \in Seq(S) /\ Len(l) = Len(u) + Len(z) /\ DOMAIN l = 1..Len(l)
      /\ \A k \in DOMAIN u : l[k] = u[k]
      /\ \A k \in DOMAIN z : l[Len(u) + k] = z[k]
  <2>1. u \in Seq(S) /\ z \in Seq(S)
    BY <1>3, <1>6
  <2>2. QED
    BY <2>1, <1>8, Joined
<1>10. /\ Len(l) = 6 /\ DOMAIN l = 1..6
       /\ l[1] = a /\ l[2] = b /\ l[3] = c /\ l[4] = d /\ l[5] = e /\ l[6] = f
  BY <1>4, <1>7, <1>9
<1>11. QED
  BY <1>2, <1>5, <1>8, <1>10 DEF Six

(* The blobs made of each.                                                 *)
Three(l, a, b, c) == DOMAIN l = 1..3 /\ Len(l) = 3 /\ l[1] = a /\ l[2] = b /\ l[3] = c
Lists(b, l) ==
  /\ b.op = "pusha" => l = <<LeaRip("r11", Disp(b)), [Op("push64") EXCEPT !.reg = "r11"]>>
  /\ b.op = "mova" => l = <<LeaRip(b.reg, Disp(b))>>
  /\ b.op = "jmpa" => l = <<[Op("jmprip") EXCEPT !.disp = Disp(b)]>>
  /\ b.op = "push" => l = PushR32(b.reg)
  /\ b.op = "pop" => l = PopR32(b.reg)
  /\ b.op = "callr" => l = CallOp([Op("jmpr") EXCEPT !.reg = b.reg])
  /\ b.op = "call" => l = CallOp(Jmp(Disp(b)))
  /\ b.op = "ret" => l = PopR32("r11") \o <<[Op("jmpr") EXCEPT !.reg = "r11"]>>
  /\ b.op = "pushm" => l = <<[Load("r11") EXCEPT !.base = b.base, !.n = b.n]>> \o PushR32("r11")
  /\ b.op = "pushi" => l = PushImm(b.n)
  /\ b.op \notin Replaced => l = <<Copy(b)>>

LEMMA ListsAll == ASSUME NEW b PROVE Lists(b, Transformed(b))
<1>1. PICK l : l = Transformed(b)
  OBVIOUS
<1>2. CASE b.op \in Replaced
  <2>1. CASE b.op = "pusha"
    BY <1>1, <1>2, <2>1 DEF Lists, Transformed
  <2>2. CASE b.op = "mova"
    BY <1>1, <1>2, <2>2 DEF Lists, Transformed
  <2>3. CASE b.op = "jmpa"
    BY <1>1, <1>2, <2>3 DEF Lists, Transformed
  <2>4. CASE b.op = "push"
    BY <1>1, <1>2, <2>4 DEF Lists, Transformed
  <2>5. CASE b.op = "pop"
    BY <1>1, <1>2, <2>5 DEF Lists, Transformed
  <2>6. CASE b.op = "callr"
    BY <1>1, <1>2, <2>6 DEF Lists, Transformed
  <2>7. CASE b.op = "call"
    BY <1>1, <1>2, <2>7 DEF Lists, Transformed
  <2>8. CASE b.op = "ret"
    BY <1>1, <1>2, <2>8 DEF Lists, Transformed
  <2>9. CASE b.op = "pushm"
    BY <1>1, <1>2, <2>9 DEF Lists, Transformed
  <2>10. CASE b.op = "pushi"
    BY <1>1, <1>2, <2>10 DEF Lists, Transformed
  <2>11. QED
    BY <1>2, <2>1, <2>2, <2>3, <2>4, <2>5, <2>6, <2>7, <2>8, <2>9, <2>10 DEF Replaced
<1>3. CASE b.op \notin Replaced
  <2>1. Transformed(b) = <<Copy(b)>>
    BY <1>3, Shape
  <2>2. /\ b.op # "pusha" /\ b.op # "mova" /\ b.op # "jmpa" /\ b.op # "push" /\ b.op # "pop"
        /\ b.op # "callr" /\ b.op # "call" /\ b.op # "ret" /\ b.op # "pushm"
        /\ b.op # "pushi"
    BY <1>3 DEF Replaced
  <2>3. QED
    BY <2>1, <2>2 DEF Lists
<1>4. QED
  BY <1>2, <1>3

(* What the operations of a blob made of another are.                      *)
Ops ==
  /\ PushAx.op = "push16" /\ PushAx.reg = "eax" /\ PushAx.disp = Nowhere
  /\ \A r : Store(r).op = "store" /\ Store(r).reg = r /\ Store(r).base = "esp" /\ Store(r).n = 0
            /\ Store(r).disp = Nowhere
  /\ \A n : StoreImm(n).op = "storei" /\ StoreImm(n).n = n /\ StoreImm(n).base = "esp"
            /\ StoreImm(n).disp = Nowhere
  /\ \A r : Load(r).op = "load" /\ Load(r).reg = r /\ Load(r).base = "esp" /\ Load(r).n = 0
            /\ Load(r).disp = Nowhere
  /\ \A r, d : LeaRip(r, d).op = "lea" /\ LeaRip(r, d).reg = r /\ LeaRip(r, d).disp = d
  /\ LeaSp.op = "leasp" /\ LeaSp.disp = Nowhere
  /\ \A d : Jmp(d).op = "jmp" /\ Jmp(d).disp = d
  /\ \A op : Op(op).op = op
LEMMA OpsAll == Ops
<1>1. PushAx.op = "push16" /\ PushAx.reg = "eax" /\ PushAx.disp = Nowhere
  BY DEF PushAx, Op
<1>2. \A r : Store(r).op = "store" /\ Store(r).reg = r /\ Store(r).base = "esp" /\ Store(r).n = 0
             /\ Store(r).disp = Nowhere
  BY DEF Store, Op
<1>3. \A n : StoreImm(n).op = "storei" /\ StoreImm(n).n = n /\ StoreImm(n).base = "esp"
             /\ StoreImm(n).disp = Nowhere
  BY DEF StoreImm, Op
<1>4. \A r : Load(r).op = "load" /\ Load(r).reg = r /\ Load(r).base = "esp" /\ Load(r).n = 0
             /\ Load(r).disp = Nowhere
  BY DEF Load, Op
<1>5. \A r, d : LeaRip(r, d).op = "lea" /\ LeaRip(r, d).reg = r /\ LeaRip(r, d).disp = d
  BY DEF LeaRip, Op
<1>6. LeaSp.op = "leasp" /\ LeaSp.disp = Nowhere
  BY DEF LeaSp, Op
<1>7. \A d : Jmp(d).op = "jmp" /\ Jmp(d).disp = d
  BY DEF Jmp, Op
<1>8. \A op : Op(op).op = op
  BY DEF Op
<1>9. QED
  BY <1>1, <1>2, <1>3, <1>4, <1>5, <1>6, <1>7, <1>8 DEF Ops

-----------------------------------------------------------------------------
(* Every non-empty set of natural numbers has a least element.             *)
LEMMA LeastNatural ==
  ASSUME NEW T, T \subseteq Nat, T # {}
  PROVE  \E m \in T : \A k \in T : m <= k
<1>. DEFINE Less == {ij \in Nat \X Nat : ij[1] < ij[2]}
<1>1. IsWellFoundedOn(Less, Nat)
  BY NatLessThanWellFounded DEF OpToRel
<1>2. PICK m \in T : \A k \in T : ~ (<<k, m>> \in Less)
  <2>. HIDE DEF Less
  <2>. QED BY <1>1, WFMin
<1>3. ASSUME NEW k \in T, k < m PROVE FALSE
  <2>1. <<k, m>> \in Less BY <1>3, k \in Nat, m \in Nat
  <2>. QED BY <2>1, <1>2
<1>. QED BY <1>3

(* An address is that of the next blob that is not a placeholder.          *)
Leads(blobs, n, k) ==
  /\ k \in n..Len(blobs) /\ blobs[k].op # "placeholder"
  /\ \A j \in n..(k - 1) : blobs[j].op = "placeholder"

LEMMA PlaceIs ==
  ASSUME NEW blobs, NEW n \in Int, Len(blobs) \in Nat, NEW k, Leads(blobs, n, k)
  PROVE  Place(blobs, n) = k
<1>1. k \in Int
  BY DEF Leads
<1>2. ASSUME NEW x \in n..Len(blobs), blobs[x].op # "placeholder",
             \A j \in n..(x - 1) : blobs[j].op = "placeholder"
      PROVE  x = k
  <2>1. ~(x < k)
    BY <1>1, <1>2 DEF Leads
  <2>2. ~(k < x)
    BY <1>1, <1>2 DEF Leads
  <2>3. QED
    BY <1>1, <1>2, <2>1, <2>2
<1>3. QED
  BY <1>2 DEF Place, Leads

OldLength == Len(old.blobs)

LEMMA BuiltParts ==
  ASSUME Built
  PROVE  /\ old \in Programs /\ OldLength \in Nat \ {0} /\ DOMAIN old.blobs = 1..OldLength
         /\ cursor = OldLength + 1 /\ cursor - 1 = OldLength /\ Len(new) \in Nat
         /\ DOMAIN new = 1..Len(new)
         /\ IsData(old.blobs[OldLength])
<1>1. old \in Programs /\ (\E S : new \in Seq(S)) /\ cursor = Len(old.blobs) + 1
  BY DEF Built, TInv, Done
<1>2. Len(old.blobs) \in Nat /\ DOMAIN old.blobs = 1..Len(old.blobs)
  BY <1>1, OldParts
<1>3. old.blobs \in Seq(OldBlob) /\ old.blobs # <<>> /\ IsData(old.blobs[Len(old.blobs)])
  BY <1>1, ProgramsAssumption, CompiledAssumption
<1>4. Len(old.blobs) # 0
  BY <1>3
<1>5. QED
  BY <1>1, <1>2, <1>3, <1>4 DEF OldLength

(* Where the first of the blobs made of o is.                              *)
LEMMA FirstIs ==
  ASSUME Built
  PROVE  \E F : Blocks(F) /\ \A o \in DOMAIN old.blobs : FirstOf(o) = F[o]
<1>1. PICK F : Blocks(F)
  BY DEF Built, BInv
<1>2. ASSUME NEW o \in DOMAIN old.blobs PROVE FirstOf(o) = F[o]
  <2>1. o \in 1..(cursor - 1)
    BY BuiltParts
  <2>2. PICK list : list = Transformed(old.blobs[o])
    OBVIOUS
  <2>3. 1 \in DOMAIN list
    <3>1. Listed(old.blobs[o], list)
      BY <2>2, ListParts DEF Built, TInv
    <3>2. QED
      BY <3>1 DEF Listed
  <2>4. MadeAt(o, F[o])
    BY <1>1, <2>1 DEF Blocks
  <2>5. PICK f \in Nat \ {0} : f = F[o] /\ f + 1 - 1 = f
    <3>1. F[o] \in Nat \ {0}
      BY <1>1, <2>1, BuiltParts DEF Blocks
    <3>2. QED
      BY <3>1
  <2>6. f \in DOMAIN new /\ new[f] = MadeOf(list[1], o)
    BY <2>2, <2>3, <2>4, <2>5 DEF MadeAt
  <2>7. new[f].from = o
    BY <2>6 DEF MadeOf
  <2>8. \A n \in DOMAIN new : new[n].from = o => f <= n
    BY <1>1, <2>5 DEF Blocks
  <2>9. DOMAIN new = 1..Len(new) /\ Len(new) \in Nat
    BY BuiltParts
  <2>10. \A k \in 1..(f - 1) : new[k].from # o
    <3> SUFFICES ASSUME NEW k \in 1..(f - 1), new[k].from = o PROVE FALSE
      OBVIOUS
    <3>1. k \in DOMAIN new /\ ~(f <= k)
      BY <2>5, <2>6, <2>9
    <3>2. QED
      BY <2>8, <3>1
  <2>11. \A n \in DOMAIN new :
           new[n].from = o /\ (\A k \in 1..(n - 1) : new[k].from # o) <=> n = f
    <3> SUFFICES ASSUME NEW n \in DOMAIN new, new[n].from = o,
                        \A k \in 1..(n - 1) : new[k].from # o
                 PROVE  n = f
      BY <2>7, <2>10
    <3>1. f <= n /\ n \in Int
      BY <2>8, <2>9
    <3>2. ~(f < n)
      BY <2>5, <2>7, <2>9, <3>1
    <3>3. QED
      BY <2>5, <3>1, <3>2
  <2>12. QED
    BY <2>5, <2>6, <2>11 DEF FirstOf
<1>3. QED
  BY <1>1, <1>2

BlockOf(o, f, list) ==
  /\ f \in Nat \ {0} /\ Listed(old.blobs[o], list) /\ Lists(old.blobs[o], list)
  /\ \A x \in DOMAIN list : f + x - 1 \in DOMAIN new /\ new[f + x - 1] = MadeOf(list[x], o)
  /\ f + Len(list) = IF o < OldLength THEN FirstOf(o + 1) ELSE Len(new) + 1

LEMMA BlockIs ==
  ASSUME Built, NEW o \in DOMAIN old.blobs
  PROVE  BlockOf(o, FirstOf(o), Transformed(old.blobs[o]))
<1>1. PICK F : Blocks(F) /\ \A a \in DOMAIN old.blobs : FirstOf(a) = F[a]
  BY FirstIs
<1>2. PICK list : list = Transformed(old.blobs[o])
  OBVIOUS
<1>3. o \in 1..(cursor - 1) /\ o \in 1..cursor /\ o \in Int
      /\ (o < OldLength => o + 1 \in DOMAIN old.blobs) /\ (~(o < OldLength) => o + 1 = cursor)
  BY BuiltParts
<1>4. F[o] \in Nat \ {0} /\ MadeAt(o, F[o]) /\ F[o + 1] = F[o] + Size(o) /\ F[cursor] = Len(new) + 1
  BY <1>1, <1>3 DEF Blocks
<1>5. Listed(old.blobs[o], list) /\ Lists(old.blobs[o], list)
  BY <1>2, ListParts, ListsAll DEF Built, TInv
<1>6. \A x \in DOMAIN list : F[o] + x - 1 \in DOMAIN new /\ new[F[o] + x - 1] = MadeOf(list[x], o)
  BY <1>2, <1>4 DEF MadeAt
<1>7. F[o] + Len(list) = IF o < OldLength THEN FirstOf(o + 1) ELSE Len(new) + 1
  <2>1. Size(o) = Len(list)
    BY <1>2 DEF Size
  <2>2. CASE o < OldLength
    <3>1. FirstOf(o + 1) = F[o + 1]
      BY <1>1, <1>3, <2>2
    <3>2. QED
      BY <1>4, <2>1, <2>2, <3>1
  <2>3. CASE ~(o < OldLength)
    BY <1>3, <1>4, <2>1, <2>3
  <2>4. QED
    BY <2>2, <2>3
<1>8. QED
  BY <1>1, <1>2, <1>4, <1>5, <1>6, <1>7 DEF BlockOf

LEMMA Apart ==
  ASSUME Built, NEW a \in DOMAIN old.blobs, NEW b \in DOMAIN old.blobs, a < b
  PROVE  FirstOf(a) < FirstOf(b)
<1>1. PICK F : Blocks(F) /\ \A o \in DOMAIN old.blobs : FirstOf(o) = F[o]
  BY FirstIs
<1>2. a \in 1..(cursor - 1) /\ b \in 1..cursor
  BY BuiltParts
<1>3. F[a] + Size(a) <= F[b] /\ F[a] \in Nat /\ F[b] \in Nat
  <2>1. F[a] + Size(a) <= F[b]
    BY <1>1, <1>2 DEF Blocks
  <2>2. F \in [1..cursor -> Nat \ {0}] /\ a \in 1..cursor
    BY <1>1, BuiltParts DEF Blocks
  <2>3. QED
    BY <1>2, <2>1, <2>2
<1>4. Size(a) \in Nat \ {0}
  <2>1. Listed(old.blobs[a], Transformed(old.blobs[a]))
    BY ListParts DEF Built, TInv
  <2>2. QED
    BY <2>1 DEF Listed, Size
<1>5. QED
  BY <1>1, <1>3, <1>4

LEMMA Distinct ==
  ASSUME Built, NEW a \in DOMAIN old.blobs, NEW b \in DOMAIN old.blobs, FirstOf(a) = FirstOf(b)
  PROVE  a = b
<1>1. a \in Int /\ b \in Int
  BY BuiltParts
<1>2. FirstOf(a) \in Int /\ FirstOf(b) \in Int
  BY BlockIs DEF BlockOf
<1>3. ~(a < b) /\ ~(b < a)
  BY <1>2, Apart
<1>4. QED
  BY <1>1, <1>3

LEMMA InRow ==
  ASSUME Built, NEW a \in DOMAIN old.blobs, NEW b \in DOMAIN old.blobs, a < b,
         \A c \in a..(b - 1) : old.blobs[c].op \notin Replaced
  PROVE  FirstOf(b) = FirstOf(a) + (b - a)
<1>1. PICK F : Blocks(F) /\ \A o \in DOMAIN old.blobs : FirstOf(o) = F[o]
  BY FirstIs
<1>2. a \in 1..cursor /\ b \in 1..cursor
  BY BuiltParts
<1>3. \A c \in a..(b - 1) : c \in DOMAIN old.blobs
  BY BuiltParts
<1>4. Single(a, b)
  <2> SUFFICES ASSUME NEW c \in a..(b - 1) PROVE Size(c) = 1
    BY DEF Single
  <2>1. Listed(old.blobs[c], Transformed(old.blobs[c]))
    BY <1>3, ListParts DEF Built, TInv
  <2>2. QED
    BY <2>1 DEF Listed, Size
<1>5. F[b] = F[a] + (b - a)
  BY <1>1, <1>2, <1>4 DEF Blocks
<1>6. QED
  BY <1>1, <1>5

LEMMA In32Is ==
  ASSUME Built, NEW o \in DOMAIN old.blobs
  PROVE  /\ Leads(old.blobs, o, In32(o)) /\ In32(o) \in DOMAIN old.blobs /\ In32(o) \in Int
         /\ old.blobs[In32(o)].op # "placeholder"
         /\ old.blobs[o].op # "placeholder" => In32(o) = o
<1>1. OldLength \in Nat \ {0} /\ DOMAIN old.blobs = 1..OldLength /\ IsData(old.blobs[OldLength])
      /\ OldLength = Len(old.blobs)
  BY BuiltParts DEF OldLength
<1>2. PICK T : T = {k \in o..OldLength : old.blobs[k].op # "placeholder"}
  OBVIOUS
<1>3. T \subseteq Nat /\ OldLength \in T
  BY <1>1, <1>2 DEF IsData
<1>4. PICK k \in T : \A x \in T : k <= x
  BY <1>3, LeastNatural
<1>5. Leads(old.blobs, o, k)
  <2>1. k \in o..OldLength /\ old.blobs[k].op # "placeholder"
    BY <1>2
  <2>2. ASSUME NEW j \in o..(k - 1), old.blobs[j].op # "placeholder" PROVE FALSE
    <3>1. j \in T /\ ~(k <= j)
      BY <1>1, <1>2, <2>1, <2>2
    <3>2. QED
      BY <1>4, <3>1
  <2>3. QED
    BY <1>1, <2>1, <2>2 DEF Leads
<1>6. In32(o) = k
  BY <1>1, <1>5, PlaceIs DEF In32
<1>7. k \in DOMAIN old.blobs /\ k \in Int
  BY <1>1, <1>2
<1>8. old.blobs[o].op # "placeholder" => k = o
  <2>1. o \in o..OldLength
    BY <1>1
  <2>2. old.blobs[o].op # "placeholder" => k <= o
    BY <1>2, <1>4, <2>1
  <2>3. QED
    BY <1>1, <1>2, <2>2
<1>9. QED
  BY <1>2, <1>5, <1>6, <1>7, <1>8

(* The first of the blobs made of one takes room if that one does.         *)
LEMMA FirstTakesRoom ==
  ASSUME NEW b, NEW l, Lists(b, l), Listed(b, l), b.op # "placeholder"
  PROVE  l[1].op # "placeholder"
<1>1. CASE b.op \notin Replaced
  BY <1>1 DEF Lists, Copy
<1>2. CASE b.op \in {"callr", "call"}
  <2>1. PICK e : l = CallOp(e)
    BY <1>2 DEF Lists
  <2>2. l[1] = LeaRip("r11", Ahead(5))
    BY <2>1, JoinedSix DEF CallOp, PushR32, Six
  <2>3. QED
    BY <2>2, OpsAll DEF Ops
<1>3. CASE b.op = "ret"
  <2>1. PopR32("r11") = <<Load("r11"), LeaSp>>
    BY DEF PopR32
  <2>2. PICK x, y, z : x = Load("r11") /\ y = LeaSp /\ z = [Op("jmpr") EXCEPT !.reg = "r11"]
    OBVIOUS
  <2>3. l = <<x, y>> \o <<z>>
    BY <1>3, <2>1, <2>2 DEF Lists
  <2>4. <<x, y>> \in Seq({x, y, z}) /\ <<z>> \in Seq({x, y, z}) /\ 1 \in DOMAIN <<x, y>>
    OBVIOUS
  <2>5. l[1] = x
    <3>1. (<<x, y>> \o <<z>>)[1] = <<x, y>>[1]
      BY <2>4, Joined
    <3>2. QED
      BY <2>3, <3>1
  <2>6. QED
    BY <2>2, <2>5, OpsAll DEF Ops
<1>4. CASE b.op = "pushm"
  <2>1. PICK x, y : x = [Load("r11") EXCEPT !.base = b.base, !.n = b.n] /\ y = PushR32("r11")
    OBVIOUS
  <2>2. l = <<x>> \o y
    BY <1>4, <2>1 DEF Lists
  <2>3. (\E S : <<x>> \in Seq(S)) /\ (\E S : y \in Seq(S)) /\ 1 \in DOMAIN <<x>> /\ <<x>>[1] = x
    <3>1. \E S : y \in Seq(S)
      BY <2>1, Sequences DEF Plain
    <3>2. QED
      BY <3>1, One
  <2>4. (<<x>> \o y)[1] = x
    BY <2>3, Joined
  <2>5. x.op = "load"
    BY <2>1 DEF Load, Op
  <2>6. QED
    BY <2>2, <2>4, <2>5
<1>5. CASE b.op \in {"pusha", "mova"}
  BY <1>5, OpsAll DEF Lists, Ops
<1>6. CASE b.op = "jmpa"
  BY <1>6 DEF Lists, Op
<1>7. CASE b.op \in {"push", "pushi"}
  BY <1>7, OpsAll DEF Lists, Ops, PushR32, PushImm
<1>8. CASE b.op = "pop"
  BY <1>8, OpsAll DEF Lists, Ops, PopR32
<1>9. QED
  BY <1>1, <1>2, <1>3, <1>4, <1>5, <1>6, <1>7, <1>8 DEF Replaced

LEMMA In64Is ==
  ASSUME Built, NEW o \in DOMAIN old.blobs
  PROVE  /\ In64(o) = FirstOf(In32(o)) /\ Leads(new, FirstOf(o), In64(o))
         /\ In64(o) \in DOMAIN new
<1>1. PICK k : k = In32(o)
  OBVIOUS
<1>2. /\ Leads(old.blobs, o, k) /\ k \in DOMAIN old.blobs /\ k \in Int
      /\ old.blobs[k].op # "placeholder" /\ o \in Int /\ o <= k
      /\ \A j \in o..(k - 1) : old.blobs[j].op = "placeholder"
  BY <1>1, In32Is, BuiltParts DEF Leads
<1>3. \A j \in o..k : j \in DOMAIN old.blobs
  BY <1>2, BuiltParts
<1>4. PICK f \in Nat \ {0} : f = FirstOf(o)
  BY BlockIs DEF BlockOf
<1>5. \A j \in o..k : FirstOf(j) = f + (j - o)
  <2> SUFFICES ASSUME NEW j \in o..k PROVE FirstOf(j) = f + (j - o)
    OBVIOUS
  <2>1. CASE j = o
    BY <1>2, <1>4, <2>1
  <2>2. CASE j # o
    <3>1. o < j /\ j \in DOMAIN old.blobs
      BY <1>2, <1>3, <2>2
    <3>2. \A c \in o..(j - 1) : old.blobs[c].op \notin Replaced
      BY <1>2 DEF Replaced
    <3>3. QED
      BY <1>4, <3>1, <3>2, InRow
  <2>3. QED
    BY <2>1, <2>2
<1>6. PICK g \in Int : g = f + (k - o) /\ FirstOf(k) = g
  BY <1>2, <1>5
<1>7. \A j \in o..k : FirstOf(j) \in DOMAIN new /\ new[FirstOf(j)] = MadeOf(Transformed(old.blobs[j])[1], j)
  <2> SUFFICES ASSUME NEW j \in o..k
               PROVE  FirstOf(j) \in DOMAIN new
                      /\ new[FirstOf(j)] = MadeOf(Transformed(old.blobs[j])[1], j)
    OBVIOUS
  <2>1. BlockOf(j, FirstOf(j), Transformed(old.blobs[j]))
    BY <1>3, BlockIs
  <2>2. 1 \in DOMAIN Transformed(old.blobs[j]) /\ FirstOf(j) + 1 - 1 = FirstOf(j)
    BY <2>1 DEF BlockOf, Listed
  <2>3. QED
    BY <2>1, <2>2 DEF BlockOf
<1>8. new[g].op # "placeholder" /\ g \in DOMAIN new
  <2>1. k \in o..k
    BY <1>2
  <2>2. Transformed(old.blobs[k])[1].op # "placeholder"
    BY <1>2, BlockIs, FirstTakesRoom DEF BlockOf
  <2>3. PICK e : e = Transformed(old.blobs[k])[1]
    OBVIOUS
  <2>4. g \in DOMAIN new /\ new[g] = MadeOf(e, k)
    BY <1>6, <1>7, <2>1, <2>3
  <2>5. QED
    BY <2>2, <2>3, <2>4 DEF MadeOf
<1>9. \A j \in f..(g - 1) : new[j].op = "placeholder"
  <2> SUFFICES ASSUME NEW j \in f..(g - 1) PROVE new[j].op = "placeholder"
    OBVIOUS
  <2>1. PICK a \in o..(k - 1) : j = f + (a - o) /\ a \in o..k
    <3>1. o + (j - f) \in o..(k - 1) /\ j = f + ((o + (j - f)) - o) /\ o + (j - f) \in o..k
      BY <1>2, <1>6
    <3>2. QED
      BY <3>1
  <2>2. j = FirstOf(a) /\ new[j] = MadeOf(Transformed(old.blobs[a])[1], a)
    BY <1>5, <1>7, <2>1
  <2>3. old.blobs[a].op = "placeholder" /\ old.blobs[a].op \notin Replaced
    BY <1>2, <2>1 DEF Replaced
  <2>4. Transformed(old.blobs[a])[1] = Copy(old.blobs[a])
    BY <1>3, <2>1, <2>3, BlockIs DEF BlockOf, Listed
  <2>5. QED
    BY <2>2, <2>3, <2>4 DEF MadeOf, Copy
<1>10. Leads(new, f, g)
  <2>1. g \in f..Len(new)
    <3>1. DOMAIN new = 1..Len(new) /\ Len(new) \in Nat
      BY BuiltParts
    <3>2. f <= g
      BY <1>2, <1>6
    <3>3. QED
      BY <1>6, <1>8, <3>1, <3>2
  <2>2. QED
    BY <1>8, <1>9, <2>1 DEF Leads
<1>11. Place(new, f) = g
  BY <1>10, PlaceIs, BuiltParts
<1>12. QED
  BY <1>1, <1>4, <1>6, <1>8, <1>10, <1>11 DEF In64

LEMMA PlaceWithin ==
  ASSUME Built, NEW o \in DOMAIN old.blobs, NEW f, NEW list,
         f = FirstOf(o), list = Transformed(old.blobs[o]),
         NEW x \in DOMAIN list, list[x].op # "placeholder"
  PROVE  Place(new, f + x - 1) = f + x - 1
<1>1. BlockOf(o, f, list)
  BY BlockIs
<1>2. PICK i : i = f + x - 1
  OBVIOUS
<1>3. i \in DOMAIN new /\ new[i] = MadeOf(list[x], o)
  BY <1>1, <1>2 DEF BlockOf
<1>4. new[i].op # "placeholder"
  BY <1>3 DEF MadeOf
<1>5. i \in Int /\ i \in i..Len(new) /\ i..(i - 1) = {} /\ Len(new) \in Nat
  BY <1>3, BuiltParts
<1>6. Leads(new, i, i)
  BY <1>4, <1>5 DEF Leads
<1>7. QED
  BY <1>2, <1>5, <1>6, PlaceIs

LEMMA Through ==
  ASSUME Built, NEW o \in DOMAIN old.blobs
  PROVE  /\ In64(In32(o)) = In64(o) /\ In64(In32(o)) = FirstOf(In32(o))
         /\ Place(new, FirstOf(o)) = In64(o)
<1>1. /\ In32(o) \in DOMAIN old.blobs /\ old.blobs[In32(o)].op # "placeholder"
  BY In32Is
<1>2. In32(In32(o)) = In32(o)
  BY <1>1, In32Is
<1>3. In64(o) = FirstOf(In32(o)) /\ In64(In32(o)) = FirstOf(In32(In32(o)))
  BY <1>1, In64Is
<1>4. QED
  BY <1>2, <1>3 DEF In64

(* Behind the blobs made of one are those made of the next.                *)
LEMMA PlaceBehind ==
  ASSUME Built, NEW o \in DOMAIN old.blobs, o < OldLength, NEW f, NEW list,
         f = FirstOf(o), list = Transformed(old.blobs[o])
  PROVE  /\ o + 1 \in DOMAIN old.blobs /\ f + Len(list) = FirstOf(o + 1)
         /\ Place(new, f + Len(list)) = In64(o + 1)
         /\ list[Len(list)].op = "placeholder" => Place(new, f + Len(list) - 1) = In64(o + 1)
<1>1. BlockOf(o, f, list)
  BY BlockIs
<1>2. o + 1 \in DOMAIN old.blobs
  BY BuiltParts
<1>3. f + Len(list) = FirstOf(o + 1)
  BY <1>1 DEF BlockOf
<1>4. Place(new, f + Len(list)) = In64(o + 1)
  BY <1>2, <1>3, Through
<1>5. ASSUME list[Len(list)].op = "placeholder"
      PROVE  Place(new, f + Len(list) - 1) = In64(o + 1)
  <2>1. PICK L \in Nat \ {0} : L = Len(list) /\ DOMAIN list = 1..L
    BY <1>1 DEF BlockOf, Listed
  <2>2. PICK k : k = In64(o + 1)
    OBVIOUS
  <2>3. PICK i \in Int : i = f + L - 1 /\ i + 1 = f + L
    BY <1>1 DEF BlockOf
  <2>4. i \in DOMAIN new /\ new[i] = MadeOf(list[L], o)
    BY <1>1, <2>1, <2>3 DEF BlockOf
  <2>5. new[i].op = "placeholder"
    BY <1>5, <2>1, <2>4 DEF MadeOf
  <2>6. Leads(new, i + 1, k)
    BY <1>2, <1>3, <2>1, <2>2, <2>3, In64Is
  <2>7. Leads(new, i, k)
    <3>1. k \in (i + 1)..Len(new) /\ Len(new) \in Nat
      BY <2>6, BuiltParts DEF Leads
    <3>2. k \in i..Len(new)
      BY <3>1
    <3>3. \A j \in i..(k - 1) : j = i \/ j \in (i + 1)..(k - 1)
      BY <3>1
    <3>4. QED
      BY <2>5, <2>6, <3>2, <3>3 DEF Leads
  <2>8. QED
    BY <2>1, <2>2, <2>3, <2>7, PlaceIs, BuiltParts
<1>6. QED
  BY <1>2, <1>3, <1>4, <1>5

LEMMA PointeeIs ==
  ASSUME Built, NEW o \in DOMAIN old.blobs, NEW i \in DOMAIN new,
         old.blobs[o].at # 0, new[i].disp = Disp(old.blobs[o])
  PROVE  /\ old.blobs[o].at \in DOMAIN old.blobs
         /\ Pointee(i) = FirstOf(old.blobs[o].at) /\ Place(new, Pointee(i)) = In64(old.blobs[o].at)
<1>1. PICK a : a = old.blobs[o].at
  OBVIOUS
<1>2. a \in DOMAIN old.blobs
  BY <1>1, BuiltParts, OldParts
<1>3. new[i].disp = <<"blob", a>>
  BY <1>1 DEF Disp, Key
<1>4. res.pointer[<<i, "disp">>] = FirstOf(a)
  BY <1>3, TInvImplies DEF Built, PointersToFirst
<1>5. Pointee(i) = FirstOf(a)
  BY <1>3, <1>4 DEF Pointee
<1>6. QED
  BY <1>1, <1>2, <1>5, Through

LEMMA AheadIs ==
  ASSUME NEW i \in DOMAIN new, new[i].disp = Ahead(5)
  PROVE  Pointee(i) = i + 5
BY DEF Pointee, Ahead

-----------------------------------------------------------------------------
(* What the new program does at a blob made of o.                          *)

Next64(m) ==
  LET n == m.pc[2]
      b == IF new[n].op = "helper"
           THEN [new[n] EXCEPT !.n = res.pointer[<<n, "bindee">>]] ELSE new[n]
  IN Exec64(Goto(m, At(Place(new, n + 1))), b, Place(new, Pointee(n)))
Step64(m) ==
  IF m.pc[1] = "at" THEN Next64(m)
  ELSE Bind(m, 8, WordAt(m, Sp(m) + 4),
            [k \in DOMAIN old.binds |-> res.pointer[<<k, "bind">>]],
            [k \in DOMAIN old.binds |-> In64(old.binds[k].function)])
Step32(m) ==
  IF m.pc[1] = "at"
  THEN Exec32(Goto(m, At(In32(m.pc[2] + 1))), old.blobs[m.pc[2]], In32(old.blobs[m.pc[2]].at))
  ELSE Bind(m, 4, WordAt(m, Sp(m) + 2),
            [k \in DOMAIN old.binds |-> old.binds[k].blob],
            [k \in DOMAIN old.binds |-> In32(old.binds[k].function)])

Common == {"movi", "load", "store", "inc", "dec", "addsp", "jmp", "jz"}
Does64(m, e, to, w) ==
  /\ e.op = "push16" => w = [Move(m, -1) EXCEPT !.stk = PutHalf(@, Sp(m) - 1, m.reg[e.reg], 0)]
  /\ e.op = "push64" => w = PushWide(m, m.reg[e.reg])
  /\ e.op = "storei" => w = Write(m, m.reg[e.base], 0, Num(e.n))
  /\ e.op = "leasp" => w = Move(m, 2)
  /\ e.op = "lea" => w = Set(m, e.reg, At(to))
  /\ e.op = "jmpr" => w = Goto(m, m.reg[e.reg])
  /\ e.op = "jmpm" => w = Goto(m, ReadWide(m, m.reg[e.base], e.n))
  /\ e.op = "jmprip" => w = Goto(m, ReadWide(m, At(to), 0))
  /\ e.op = "helper" => w = Goto(PushWide(m, Num(e.n)), At(to))
  /\ e.op \in Common => w = ExecAlike(m, e, to)
  /\ e.op = "load" => w = Set(m, e.reg, Read(m, m.reg[e.base], e.n))
  /\ e.op = "store" => w = Write(m, m.reg[e.base], e.n, m.reg[e.reg])
  /\ e.op = "jmp" => w = Goto(m, At(to))

LEMMA DoesAll64 == ASSUME NEW m, NEW e, NEW to PROVE Does64(m, e, to, Exec64(m, e, to))
<1>1. PICK w : w = Exec64(m, e, to)
  OBVIOUS
<1>2. e.op = "push16" => w = [Move(m, -1) EXCEPT !.stk = PutHalf(@, Sp(m) - 1, m.reg[e.reg], 0)]
  BY <1>1 DEF Exec64
<1>3. e.op = "push64" => w = PushWide(m, m.reg[e.reg])
  BY <1>1 DEF Exec64
<1>4. e.op = "storei" => w = Write(m, m.reg[e.base], 0, Num(e.n))
  BY <1>1 DEF Exec64
<1>5. e.op = "leasp" => w = Move(m, 2)
  BY <1>1 DEF Exec64
<1>6. e.op = "lea" => w = Set(m, e.reg, At(to))
  BY <1>1 DEF Exec64
<1>7. e.op = "jmpr" => w = Goto(m, m.reg[e.reg])
  BY <1>1 DEF Exec64
<1>8. e.op = "jmpm" => w = Goto(m, ReadWide(m, m.reg[e.base], e.n))
  BY <1>1 DEF Exec64
<1>9. e.op = "jmprip" => w = Goto(m, ReadWide(m, At(to), 0))
  BY <1>1 DEF Exec64
<1>10. e.op = "helper" => w = Goto(PushWide(m, Num(e.n)), At(to))
  BY <1>1 DEF Exec64
<1>11. e.op \in Common => w = ExecAlike(m, e, to)
  BY <1>1 DEF Exec64, Common
<1>12. e.op = "load" => w = Set(m, e.reg, Read(m, m.reg[e.base], e.n))
  BY <1>11 DEF ExecAlike, Common
<1>13. e.op = "store" => w = Write(m, m.reg[e.base], e.n, m.reg[e.reg])
  BY <1>11 DEF ExecAlike, Common
<1>14. e.op = "jmp" => w = Goto(m, At(to))
  BY <1>11 DEF ExecAlike, Common
<1>15. QED
  BY <1>1, <1>2, <1>3, <1>4, <1>5, <1>6, <1>7, <1>8, <1>9, <1>10, <1>11, <1>12, <1>13, <1>14
  DEF Does64

LEMMA ExecMade ==
  ASSUME NEW m, NEW e, NEW o, NEW to
  PROVE  Exec64(m, MadeOf(e, o), to) = Exec64(m, e, to)
<1>1. PICK b : b = MadeOf(e, o)
  OBVIOUS
<1>2. b.op = e.op /\ b.reg = e.reg /\ b.base = e.base /\ b.n = e.n
  BY <1>1 DEF MadeOf
<1>3. ExecAlike(m, b, to) = ExecAlike(m, e, to)
  BY <1>2 DEF ExecAlike
<1>4. Exec64(m, b, to) = Exec64(m, e, to)
  BY <1>2, <1>3 DEF Exec64
<1>5. QED
  BY <1>1, <1>4

LEMMA StepWithin ==
  ASSUME Built, NEW o \in DOMAIN old.blobs, NEW f, NEW list,
         f = FirstOf(o), list = Transformed(old.blobs[o]),
         NEW x \in DOMAIN list, list[x].op # "helper", NEW m, m.pc = At(f + x - 1)
  PROVE  /\ f + x - 1 \in DOMAIN new /\ new[f + x - 1].disp = list[x].disp
         /\ Does64(Goto(m, At(Place(new, f + x))), list[x], Place(new, Pointee(f + x - 1)), Step64(m))
<1>1. BlockOf(o, f, list)
  BY BlockIs
<1>2. PICK i : i = f + x - 1
  OBVIOUS
<1>3. i \in DOMAIN new /\ new[i] = MadeOf(list[x], o)
  BY <1>1, <1>2 DEF BlockOf
<1>4. new[i].op = list[x].op /\ new[i].disp = list[x].disp
  BY <1>3 DEF MadeOf
<1>5. i + 1 = f + x
  <2>1. f \in Int /\ x \in Int
    BY <1>1 DEF BlockOf, Listed
  <2>2. QED
    BY <1>2, <2>1
<1>6. m.pc[1] = "at" /\ m.pc[2] = i
  BY <1>2 DEF At
<1>7. PICK g, to : g = Goto(m, At(Place(new, f + x))) /\ to = Place(new, Pointee(i))
  OBVIOUS
<1>8. Step64(m) = Exec64(g, new[i], to)
  BY <1>4, <1>5, <1>6, <1>7 DEF Step64, Next64
<1>9. Exec64(g, new[i], to) = Exec64(g, list[x], to)
  BY <1>3, ExecMade
<1>10. Does64(g, list[x], to, Step64(m))
  BY <1>8, <1>9, DoesAll64
<1>11. QED
  BY <1>2, <1>3, <1>4, <1>7, <1>10

(* In the middle of what was made of one, nothing is compared.             *)
LEMMA NotYet ==
  ASSUME Built, NEW o \in DOMAIN old.blobs, NEW f, NEW list,
         f = FirstOf(o), list = Transformed(old.blobs[o]),
         NEW x \in DOMAIN list, x # 1, ~IsData(list[x])
  PROVE  ~Waits64(At(f + x - 1))
<1>1. BlockOf(o, f, list)
  BY BlockIs
<1>2. PICK i : i = f + x - 1
  OBVIOUS
<1>3. i \in DOMAIN new /\ new[i] = MadeOf(list[x], o)
  BY <1>1, <1>2 DEF BlockOf
<1>4. new[i].op = list[x].op /\ new[i].from = o
  BY <1>3 DEF MadeOf
<1>5. i # f
  <2>1. f \in Int /\ x \in Int
    BY <1>1 DEF BlockOf, Listed
  <2>2. QED
    BY <1>2, <2>1
<1>6. ~IsData(new[i])
  BY <1>4 DEF IsData
<1>7. At(i)[1] = "at" /\ At(i)[2] = i
  BY DEF At
<1>8. QED
  BY <1>2, <1>4, <1>5, <1>6, <1>7 DEF Waits64

-----------------------------------------------------------------------------
(* Agreement of two machines in what an i386 program can see.  A value is  *)
(* never the stack pointer.                                                *)

Turned(v) == IF v[1] = "at" THEN At(In64(v[2])) ELSE v
Value(v) ==
  /\ v[1] # "sp"
  /\ v[1] = "at" => v = At(v[2]) /\ v[2] \in DOMAIN old.blobs /\ old.blobs[v[2]].op # "placeholder"
SameValue(v, w) == Value(v) /\ w = Turned(v)
SameHalf(h, i) == h = <<h[1], h[2]>> /\ Value(h[1]) /\ i = <<Turned(h[1]), h[2]>>

Data == {o \in DOMAIN old.blobs : IsData(old.blobs[o])}
SameStack(p, q) ==
  /\ DOMAIN p.stk = 0..(Stack - 1) /\ DOMAIN q.stk = 0..(Stack - 1)
  /\ \A k \in DOMAIN p.stk : Sp(p) <= k => SameHalf(p.stk[k], q.stk[k])
SameMemory(p, q) ==
  /\ DOMAIN p.mem = Data
  /\ \A o \in Data : FirstOf(o) \in DOMAIN q.mem /\ SameValue(p.mem[o], q.mem[FirstOf(o)])
  /\ \A o \in Data : old.blobs[o].op = "nonlazy" => p.mem[o] = <<"binder", 0>>
Alike(p, q) ==
  /\ Machine(p) /\ Machine(q) /\ Sp(q) = Sp(p) /\ q.zf = p.zf
  /\ \A r \in General : SameValue(p.reg[r], q.reg[r])
  /\ SameStack(p, q) /\ SameMemory(p, q)

LEMMA Values ==
  /\ \A n : Value(Num(n)) /\ Turned(Num(n)) = Num(n)
  /\ Value(Junk) /\ Turned(Junk) = Junk
  /\ Value(<<"binder", 0>>) /\ Turned(<<"binder", 0>>) = <<"binder", 0>>
  /\ Value(<<"exit", 0>>) /\ Turned(<<"exit", 0>>) = <<"exit", 0>>
  /\ \A n : Turned(At(n)) = At(In64(n))
  /\ \A n \in DOMAIN old.blobs : old.blobs[n].op # "placeholder" => Value(At(n))
BY DEF Value, Turned, Num, Junk, At

LEMMA TurnedOnce ==
  ASSUME Built, NEW v, NEW w, Value(v), Value(w), Turned(v) = Turned(w)
  PROVE  v = w
<1>1. CASE v[1] = "at" /\ w[1] = "at"
  <2>1. PICK a, b : a = v[2] /\ b = w[2]
    OBVIOUS
  <2>2. /\ v = At(a) /\ w = At(b) /\ a \in DOMAIN old.blobs /\ b \in DOMAIN old.blobs
        /\ old.blobs[a].op # "placeholder" /\ old.blobs[b].op # "placeholder"
    BY <1>1, <2>1 DEF Value
  <2>3. In64(a) = FirstOf(a) /\ In64(b) = FirstOf(b)
    BY <2>2, In32Is, In64Is
  <2>4. At(In64(a)) = At(In64(b))
    BY <1>1, <2>1 DEF Turned
  <2>5. FirstOf(a) = FirstOf(b)
    BY <2>3, <2>4 DEF At
  <2>6. QED
    BY <2>2, <2>5, Distinct
<1>2. CASE v[1] # "at" \/ w[1] # "at"
  <2>1. \A n : At(n)[1] = "at"
    BY DEF At
  <2>2. QED
    BY <1>2, <2>1 DEF Turned
<1>3. QED
  BY <1>1, <1>2

LEMMA AlikeGoto ==
  ASSUME NEW p, NEW q, Alike(p, q), NEW a, NEW b
  PROVE  Alike(Goto(p, a), Goto(q, b)) /\ Goto(p, a).pc = a /\ Goto(q, b).pc = b
<1>1. PICK w, u : w = Goto(p, a) /\ u = Goto(q, b)
  OBVIOUS
<1>2. /\ Machine(w) /\ Becomes(p, w, a, p.reg, p.stk) /\ Sp(w) = Sp(p)
      /\ Machine(u) /\ Becomes(q, u, b, q.reg, q.stk) /\ Sp(u) = Sp(q)
  BY <1>1, GotoIs DEF Alike
<1>3. /\ w.zf = p.zf /\ w.reg = p.reg /\ w.stk = p.stk /\ w.mem = p.mem /\ w.pc = a
      /\ u.zf = q.zf /\ u.reg = q.reg /\ u.stk = q.stk /\ u.mem = q.mem /\ u.pc = b
  BY <1>2 DEF Becomes
<1>4. QED
  BY <1>1, <1>2, <1>3 DEF Alike, SameStack, SameMemory

LEMMA AlikeSet ==
  ASSUME NEW p, NEW q, Alike(p, q), NEW r \in General, NEW v, NEW x, SameValue(v, x)
  PROVE  Alike(Set(p, r, v), Set(q, r, x))
<1>1. PICK w, u : w = Set(p, r, v) /\ u = Set(q, r, x)
  OBVIOUS
<1>2. r \in Registers /\ r # "esp"
  BY DEF General, Registers
<1>3. Machine(p) /\ Machine(q)
  BY DEF Alike
<1>4. /\ Machine(w) /\ Becomes(p, w, p.pc, Over(p, r, v), p.stk) /\ Sp(w) = Sp(p)
      /\ Machine(u) /\ Becomes(q, u, q.pc, Over(q, r, x), q.stk) /\ Sp(u) = Sp(q)
  BY <1>1, <1>2, <1>3, SetIs
<1>5. /\ w.zf = p.zf /\ w.reg = Over(p, r, v) /\ w.stk = p.stk /\ w.mem = p.mem
      /\ u.zf = q.zf /\ u.reg = Over(q, r, x) /\ u.stk = q.stk /\ u.mem = q.mem
  BY <1>4 DEF Becomes
<1>6. /\ p.reg = [y \in Registers |-> p.reg[y]] /\ q.reg = [y \in Registers |-> q.reg[y]]
  BY <1>3 DEF Machine
<1>7. \A y \in General : SameValue(w.reg[y], u.reg[y])
  <2>1. \A y \in General : /\ y \in Registers
                           /\ w.reg[y] = IF y = r THEN v ELSE p.reg[y]
                           /\ u.reg[y] = IF y = r THEN x ELSE q.reg[y]
    BY <1>5, <1>6 DEF Over, General, Registers
  <2>2. QED
    BY <2>1 DEF Alike
<1>8. QED
  BY <1>1, <1>4, <1>5, <1>7 DEF Alike, SameStack, SameMemory

(* The new program uses a register of its own.                             *)
LEMMA AlikeOwn ==
  ASSUME NEW p, NEW q, Alike(p, q), NEW x
  PROVE  Alike(p, Set(q, "r11", x)) /\ Set(q, "r11", x).reg["r11"] = x
<1>1. PICK u : u = Set(q, "r11", x)
  OBVIOUS
<1>2. "r11" \in Registers /\ "r11" # "esp"
  BY DEF Registers
<1>3. Machine(q) /\ q.reg = [y \in Registers |-> q.reg[y]]
  BY DEF Alike, Machine
<1>4. Machine(u) /\ Becomes(q, u, q.pc, Over(q, "r11", x), q.stk) /\ Sp(u) = Sp(q)
  BY <1>1, <1>2, <1>3, SetIs
<1>5. u.zf = q.zf /\ u.reg = Over(q, "r11", x) /\ u.stk = q.stk /\ u.mem = q.mem
  BY <1>4 DEF Becomes
<1>6. \A y \in General : u.reg[y] = q.reg[y]
  BY <1>3, <1>5 DEF Over, General, Registers
<1>7. u.reg["r11"] = x
  BY <1>2, <1>3, <1>5 DEF Over
<1>8. QED
  BY <1>1, <1>4, <1>5, <1>6, <1>7 DEF Alike, SameStack, SameMemory

LEMMA AlikeMove ==
  ASSUME NEW p, NEW q, Alike(p, q), NEW k \in Nat
  PROVE  Alike(Move(p, k), Move(q, k)) /\ Sp(Move(p, k)) = Sp(p) + k
<1>1. PICK w, u : w = Move(p, k) /\ u = Move(q, k)
  OBVIOUS
<1>2. Machine(p) /\ Machine(q) /\ Sp(p) \in Int /\ k \in Int
  BY DEF Alike, Machine
<1>3. /\ Machine(w) /\ Becomes(p, w, p.pc, Down(p, -k), p.stk) /\ Sp(w) = Sp(p) + k
      /\ Machine(u) /\ Becomes(q, u, q.pc, Down(q, -k), q.stk) /\ Sp(u) = Sp(q) + k
  BY <1>1, <1>2, MoveIs
<1>4. /\ w.zf = p.zf /\ w.reg = Down(p, -k) /\ w.stk = p.stk /\ w.mem = p.mem
      /\ u.zf = q.zf /\ u.reg = Down(q, -k) /\ u.stk = q.stk /\ u.mem = q.mem
  BY <1>3 DEF Becomes
<1>5. /\ p.reg = [y \in Registers |-> p.reg[y]] /\ q.reg = [y \in Registers |-> q.reg[y]]
  BY <1>2 DEF Machine
<1>6. \A y \in General : w.reg[y] = p.reg[y] /\ u.reg[y] = q.reg[y]
  BY <1>4, <1>5 DEF Down, Over, General, Registers
<1>7. SameStack(w, u)
  <2>1. \A n \in 0..(Stack - 1) : Sp(w) <= n => Sp(p) <= n
    BY <1>2, <1>3
  <2>2. QED
    BY <1>4, <2>1 DEF Alike, SameStack
<1>8. QED
  BY <1>1, <1>3, <1>4, <1>6, <1>7 DEF Alike, SameMemory

(* A word that is put on both stacks.                                      *)
SameFrom(s, t, lo) ==
  /\ DOMAIN s = 0..(Stack - 1) /\ DOMAIN t = 0..(Stack - 1) /\ Mapping(s) /\ Mapping(t)
  /\ \A n \in DOMAIN s : lo <= n => SameHalf(s[n], t[n])

LEMMA SamePut ==
  ASSUME NEW s, NEW t, NEW k \in Int, NEW v, NEW x, SameValue(v, x), NEW lo \in Int, NEW low \in Int,
         SameFrom(s, t, lo),
         \A n \in Int : low <= n => lo <= n \/ n = k \/ n = k + 1
  PROVE  SameFrom(PutWord(s, k, v), PutWord(t, k, x), low)
<1>1. PICK a, b : a = PutWord(s, k, v) /\ b = PutWord(t, k, x)
  OBVIOUS
<1>2. /\ DOMAIN s = 0..(Stack - 1) /\ DOMAIN t = 0..(Stack - 1) /\ Mapping(s) /\ Mapping(t)
      /\ \A n \in DOMAIN s : lo <= n => SameHalf(s[n], t[n])
  BY DEF SameFrom
<1>3. /\ a = [n \in DOMAIN s |-> IF n = k + 1 THEN <<v, 1>> ELSE IF n = k THEN <<v, 0>> ELSE s[n]]
      /\ Mapping(a)
  <2>1. Mapping(s)
    BY <1>2
  <2>2. /\ PutWord(s, k, v) = [n \in DOMAIN s |-> IF n = k + 1 THEN <<v, 1>>
                                                  ELSE IF n = k THEN <<v, 0>> ELSE s[n]]
        /\ Mapping(PutWord(s, k, v))
    BY <2>1, WordIs
  <2>3. QED
    BY <1>1, <2>2
<1>4. /\ b = [n \in DOMAIN t |-> IF n = k + 1 THEN <<x, 1>> ELSE IF n = k THEN <<x, 0>> ELSE t[n]]
      /\ Mapping(b)
  <2>1. Mapping(t)
    BY <1>2
  <2>2. /\ PutWord(t, k, x) = [n \in DOMAIN t |-> IF n = k + 1 THEN <<x, 1>>
                                                  ELSE IF n = k THEN <<x, 0>> ELSE t[n]]
        /\ Mapping(PutWord(t, k, x))
    BY <2>1, WordIs
  <2>3. QED
    BY <1>1, <2>2
<1>5. SameHalf(<<v, 0>>, <<x, 0>>) /\ SameHalf(<<v, 1>>, <<x, 1>>)
  BY DEF SameValue, SameHalf
<1>6. ASSUME NEW n \in DOMAIN a, low <= n PROVE SameHalf(a[n], b[n])
  <2>1. n \in DOMAIN s /\ n \in DOMAIN t /\ n \in Int
    BY <1>2, <1>3
  <2>2. CASE n = k + 1
    BY <1>3, <1>4, <1>5, <2>1, <2>2
  <2>3. CASE n # k + 1 /\ n = k
    <3>1. a[n] = <<v, 0>> /\ b[n] = <<x, 0>>
      BY <1>3, <1>4, <2>1, <2>3
    <3>2. QED
      BY <1>5, <3>1
  <2>4. CASE n # k + 1 /\ n # k
    <3>1. lo <= n
      BY <1>6, <2>1, <2>4
    <3>2. a[n] = s[n] /\ b[n] = t[n]
      BY <1>3, <1>4, <2>1, <2>4
    <3>3. QED
      BY <1>2, <2>1, <3>1, <3>2
  <2>5. QED
    BY <2>2, <2>3, <2>4
<1>7. DOMAIN a = 0..(Stack - 1) /\ DOMAIN b = 0..(Stack - 1)
  BY <1>2, <1>3, <1>4
<1>8. SameFrom(a, b, low)
  BY <1>3, <1>4, <1>6, <1>7 DEF SameFrom
<1>9. QED
  BY <1>1, <1>8

LEMMA AlikePush ==
  ASSUME NEW p, NEW q, Alike(p, q), NEW v, NEW x, SameValue(v, x)
  PROVE  Alike(Push(p, v), Push(q, x)) /\ Sp(Push(p, v)) = Sp(p) - 2
<1>1. PICK w, u : w = Push(p, v) /\ u = Push(q, x)
  OBVIOUS
<1>2. Machine(p) /\ Machine(q) /\ Sp(p) \in Int
  BY DEF Alike, Machine
<1>3. PICK k \in Int : k = Sp(p) - 2 /\ k = Sp(q) - 2
  BY <1>2 DEF Alike
<1>4. PICK a, b : a = PutWord(p.stk, k, v) /\ b = PutWord(q.stk, k, x)
  OBVIOUS
<1>5. /\ Machine(w) /\ Becomes(p, w, p.pc, Down(p, 2), a) /\ Sp(w) = k
      /\ Machine(u) /\ Becomes(q, u, q.pc, Down(q, 2), b) /\ Sp(u) = k
  BY <1>1, <1>2, <1>3, <1>4, PushIs
<1>6. /\ w.zf = p.zf /\ w.reg = Down(p, 2) /\ w.stk = a /\ w.mem = p.mem
      /\ u.zf = q.zf /\ u.reg = Down(q, 2) /\ u.stk = b /\ u.mem = q.mem
  BY <1>5 DEF Becomes
<1>7. /\ p.reg = [y \in Registers |-> p.reg[y]] /\ q.reg = [y \in Registers |-> q.reg[y]]
      /\ Mapping(p.stk) /\ Mapping(q.stk)
  BY <1>2 DEF Machine
<1>8. \A y \in General : w.reg[y] = p.reg[y] /\ u.reg[y] = q.reg[y]
  BY <1>6, <1>7 DEF Down, Over, General, Registers
<1>9. \A n \in Int : k <= n => Sp(p) <= n \/ n = k \/ n = k + 1
  BY <1>2, <1>3
<1>10. SameStack(w, u)
  <2>1. /\ DOMAIN p.stk = 0..(Stack - 1) /\ DOMAIN q.stk = 0..(Stack - 1)
        /\ \A n \in DOMAIN p.stk : Sp(p) <= n => SameHalf(p.stk[n], q.stk[n])
    BY DEF Alike, SameStack
  <2>2. SameFrom(p.stk, q.stk, Sp(p))
    BY <1>7, <2>1 DEF SameFrom
  <2>3. SameFrom(a, b, k)
    BY <1>2, <1>4, <1>9, <2>2, SamePut
  <2>4. QED
    BY <1>5, <1>6, <2>3 DEF SameStack, SameFrom
<1>11. QED
  BY <1>1, <1>3, <1>5, <1>6, <1>8, <1>10 DEF Alike, SameMemory

(* A store to the stack, not below the stack pointer.                      *)
LEMMA AlikePut ==
  ASSUME NEW p, NEW q, Alike(p, q), NEW k \in Int, Sp(p) <= k, NEW v, NEW x, SameValue(v, x)
  PROVE  Alike([p EXCEPT !.stk = PutWord(@, k, v)], [q EXCEPT !.stk = PutWord(@, k, x)])
<1>1. Machine(p) /\ Machine(q) /\ Sp(p) \in Int
  BY DEF Alike, Machine
<1>2. PICK a, b : a = PutWord(p.stk, k, v) /\ b = PutWord(q.stk, k, x)
  OBVIOUS
<1>3. /\ Mapping(p.stk) /\ Mapping(q.stk)
  BY <1>1 DEF Machine
<1>4. /\ DOMAIN a = 0..(Stack - 1) /\ DOMAIN b = 0..(Stack - 1)
      /\ Mapping(a) /\ Mapping(b)
      /\ \A n \in DOMAIN a : Sp(p) <= n => SameHalf(a[n], b[n])
  <2>1. /\ DOMAIN p.stk = 0..(Stack - 1) /\ DOMAIN q.stk = 0..(Stack - 1)
        /\ \A n \in DOMAIN p.stk : Sp(p) <= n => SameHalf(p.stk[n], q.stk[n])
    BY DEF Alike, SameStack
  <2>2. \A n \in Int : Sp(p) <= n => Sp(p) <= n \/ n = k \/ n = k + 1
    OBVIOUS
  <2>3. SameFrom(p.stk, q.stk, Sp(p))
    BY <1>3, <2>1 DEF SameFrom
  <2>4. SameFrom(a, b, Sp(p))
    BY <1>1, <1>2, <2>2, <2>3, SamePut
  <2>5. QED
    BY <2>4 DEF SameFrom
<1>5. PICK w, u : w = [p EXCEPT !.stk = a] /\ u = [q EXCEPT !.stk = b]
  OBVIOUS
<1>6. /\ Machine(w) /\ Sp(w) = Sp(p) /\ Becomes(p, w, p.pc, p.reg, a)
      /\ Machine(u) /\ Sp(u) = Sp(q) /\ Becomes(q, u, q.pc, q.reg, b)
  BY <1>1, <1>4, <1>5, StkIs
<1>7. /\ w.zf = p.zf /\ w.reg = p.reg /\ w.stk = a /\ w.mem = p.mem
      /\ u.zf = q.zf /\ u.reg = q.reg /\ u.stk = b /\ u.mem = q.mem
  BY <1>6 DEF Becomes
<1>8. SameStack(w, u)
  BY <1>4, <1>6, <1>7 DEF SameStack
<1>9. Alike(w, u)
  BY <1>6, <1>7, <1>8 DEF Alike, SameMemory
<1>10. w = [p EXCEPT !.stk = PutWord(@, k, v)] /\ u = [q EXCEPT !.stk = PutWord(@, k, x)]
  BY <1>2, <1>5
<1>11. QED
  BY <1>9, <1>10

LEMMA FieldIs ==
  ASSUME NEW m, Machine(m), NEW z
  PROVE  /\ Machine([m EXCEPT !.zf = z]) /\ Sp([m EXCEPT !.zf = z]) = Sp(m)
         /\ [m EXCEPT !.zf = z] = [pc |-> m.pc, zf |-> z, reg |-> m.reg, stk |-> m.stk, mem |-> m.mem]
         /\ Machine([m EXCEPT !.mem = z]) /\ Sp([m EXCEPT !.mem = z]) = Sp(m)
         /\ [m EXCEPT !.mem = z] = [pc |-> m.pc, zf |-> m.zf, reg |-> m.reg, stk |-> m.stk, mem |-> z]
<1>1. PICK w : w = [pc |-> m.pc, zf |-> z, reg |-> m.reg, stk |-> m.stk, mem |-> m.mem]
  OBVIOUS
<1>2. [m EXCEPT !.zf = z] = w
  BY <1>1 DEF Machine
<1>3. Machine(w) /\ Sp(w) = Sp(m)
  BY <1>1 DEF Machine, Sp
<1>4. PICK u : u = [pc |-> m.pc, zf |-> m.zf, reg |-> m.reg, stk |-> m.stk, mem |-> z]
  OBVIOUS
<1>5. [m EXCEPT !.mem = z] = u
  BY <1>4 DEF Machine
<1>6. Machine(u) /\ Sp(u) = Sp(m)
  BY <1>4 DEF Machine, Sp
<1>7. QED
  BY <1>1, <1>2, <1>3, <1>4, <1>5, <1>6

LEMMA AlikeFlag ==
  ASSUME NEW p, NEW q, Alike(p, q), NEW z
  PROVE  Alike([p EXCEPT !.zf = z], [q EXCEPT !.zf = z])
<1>1. PICK w, u : w = [p EXCEPT !.zf = z] /\ u = [q EXCEPT !.zf = z]
  OBVIOUS
<1>2. /\ Machine(w) /\ Machine(u) /\ Sp(w) = Sp(p) /\ Sp(u) = Sp(q)
      /\ w = [pc |-> p.pc, zf |-> z, reg |-> p.reg, stk |-> p.stk, mem |-> p.mem]
      /\ u = [pc |-> q.pc, zf |-> z, reg |-> q.reg, stk |-> q.stk, mem |-> q.mem]
  BY <1>1, FieldIs DEF Alike
<1>3. /\ w.zf = z /\ w.reg = p.reg /\ w.stk = p.stk /\ w.mem = p.mem
      /\ u.zf = z /\ u.reg = q.reg /\ u.stk = q.stk /\ u.mem = q.mem
  BY <1>2
<1>4. QED
  BY <1>1, <1>2, <1>3 DEF Alike, SameStack, SameMemory

(* A store to a word of data.                                              *)
LEMMA AlikeStore ==
  ASSUME Built, NEW p, NEW q, Alike(p, q), NEW o \in Data, old.blobs[o].op # "nonlazy",
         NEW v, NEW x, SameValue(v, x)
  PROVE  Alike([p EXCEPT !.mem[o] = v], [q EXCEPT !.mem[FirstOf(o)] = x])
<1>1. PICK f : f = FirstOf(o)
  OBVIOUS
<1>2. PICK a, b : a = [p.mem EXCEPT ![o] = v] /\ b = [q.mem EXCEPT ![f] = x]
  OBVIOUS
<1>3. PICK w, u : w = [p EXCEPT !.mem = a] /\ u = [q EXCEPT !.mem = b]
  OBVIOUS
<1>4. /\ Machine(w) /\ Machine(u) /\ Sp(w) = Sp(p) /\ Sp(u) = Sp(q)
      /\ w = [pc |-> p.pc, zf |-> p.zf, reg |-> p.reg, stk |-> p.stk, mem |-> a]
      /\ u = [pc |-> q.pc, zf |-> q.zf, reg |-> q.reg, stk |-> q.stk, mem |-> b]
  BY <1>3, FieldIs DEF Alike
<1>5. /\ w.zf = p.zf /\ w.reg = p.reg /\ w.stk = p.stk /\ w.mem = a
      /\ u.zf = q.zf /\ u.reg = q.reg /\ u.stk = q.stk /\ u.mem = b
  BY <1>4
<1>6. SameMemory(w, u)
  <2>1. DOMAIN p.mem = Data /\ o \in Data /\ DOMAIN a = Data /\ f \in DOMAIN q.mem
        /\ DOMAIN b = DOMAIN q.mem
    BY <1>1, <1>2 DEF Alike, SameMemory
  <2>2. ASSUME NEW y \in Data
        PROVE  /\ FirstOf(y) \in DOMAIN b /\ SameValue(a[y], b[FirstOf(y)])
               /\ old.blobs[y].op = "nonlazy" => a[y] = <<"binder", 0>>
    <3>1. /\ FirstOf(y) \in DOMAIN q.mem /\ SameValue(p.mem[y], q.mem[FirstOf(y)])
          /\ old.blobs[y].op = "nonlazy" => p.mem[y] = <<"binder", 0>>
      BY DEF Alike, SameMemory
    <3>2. CASE y = o
      <4>1. a[y] = v /\ b[FirstOf(y)] = x
        BY <1>1, <1>2, <2>1, <3>2
      <4>2. QED
        BY <2>1, <3>1, <3>2, <4>1
    <3>3. CASE y # o
      <4>1. y \in DOMAIN old.blobs /\ o \in DOMAIN old.blobs
        BY DEF Data
      <4>2. FirstOf(y) # f
        BY <1>1, <3>3, <4>1, Distinct
      <4>3. a[y] = p.mem[y] /\ b[FirstOf(y)] = q.mem[FirstOf(y)]
        BY <1>2, <2>1, <3>1, <3>3, <4>2
      <4>4. QED
        BY <2>1, <3>1, <4>3
    <3>4. QED
      BY <3>2, <3>3
  <2>3. QED
    BY <1>5, <2>1, <2>2 DEF SameMemory
<1>7. Alike(w, u)
  BY <1>4, <1>5, <1>6 DEF Alike, SameStack
<1>8. w = [p EXCEPT !.mem[o] = v] /\ u = [q EXCEPT !.mem[f] = x]
  BY <1>2, <1>3
<1>9. QED
  BY <1>1, <1>7, <1>8

LEMMA AlikeWord ==
  ASSUME Built, NEW p, NEW q, Alike(p, q), NEW k \in Int, Sp(p) <= k
  PROVE  SameValue(WordAt(p, k), WordAt(q, k))
<1>1. CASE k \in 0..(Stack - 2)
  <2>1. k \in 0..(Stack - 1) /\ k + 1 \in 0..(Stack - 1) /\ Sp(p) <= k + 1
    BY <1>1, StackAssumption DEF Alike, Machine
  <2>2. PICK h, i, s, t : h = p.stk[k] /\ i = q.stk[k] /\ s = p.stk[k + 1] /\ t = q.stk[k + 1]
    OBVIOUS
  <2>3. SameHalf(h, i) /\ SameHalf(s, t)
    BY <2>1, <2>2 DEF Alike, SameStack
  <2>4. /\ Value(h[1]) /\ i[1] = Turned(h[1]) /\ i[2] = h[2]
        /\ Value(s[1]) /\ t[1] = Turned(s[1]) /\ t[2] = s[2]
    BY <2>3 DEF SameHalf
  <2>5. h[1] = s[1] <=> i[1] = t[1]
    BY <2>4, TurnedOnce
  <2>6. WordAt(p, k) = IF h[1] = s[1] /\ h[2] = 0 /\ s[2] = 1 THEN h[1] ELSE Junk
    BY <1>1, <2>2 DEF WordAt
  <2>7. WordAt(q, k) = IF i[1] = t[1] /\ i[2] = 0 /\ t[2] = 1 THEN i[1] ELSE Junk
    BY <1>1, <2>2 DEF WordAt
  <2>8. QED
    BY <2>4, <2>5, <2>6, <2>7, Values DEF SameValue
<1>2. CASE k \notin 0..(Stack - 2)
  <2>1. WordAt(p, k) = Junk /\ WordAt(q, k) = Junk
    BY <1>2 DEF WordAt
  <2>2. QED
    BY <2>1, Values DEF SameValue
<1>3. QED
  BY <1>1, <1>2

(* Both machines are at the same place, too.                               *)
Agree(p, q) == Alike(p, q) /\ SameValue(p.pc, q.pc)

LEMMA AgreeGoto ==
  ASSUME NEW p, NEW q, Alike(p, q), NEW v, NEW x, SameValue(v, x)
  PROVE  Agree(Goto(p, v), Goto(q, x))
BY AlikeGoto DEF Agree

LEMMA PcKept ==
  ASSUME NEW m, Machine(m)
  PROVE  /\ \A r \in Registers : r # "esp" => \A v : Set(m, r, v).pc = m.pc
         /\ \A k \in Int : Move(m, k).pc = m.pc
         /\ \A v : Push(m, v).pc = m.pc
         /\ \A v : [m EXCEPT !.stk = v].pc = m.pc
         /\ \A v : [m EXCEPT !.mem = v].pc = m.pc
         /\ \A v : [m EXCEPT !.zf = v].pc = m.pc
<1>1. m = [pc |-> m.pc, zf |-> m.zf, reg |-> m.reg, stk |-> m.stk, mem |-> m.mem]
  BY DEF Machine
<1>2. ASSUME NEW r \in Registers, r # "esp", NEW v PROVE Set(m, r, v).pc = m.pc
  <2>1. Becomes(m, Set(m, r, v), m.pc, Over(m, r, v), m.stk)
    BY <1>2, SetIs
  <2>2. QED
    BY <2>1 DEF Becomes
<1>3. ASSUME NEW k \in Int PROVE Move(m, k).pc = m.pc
  BY MoveIs DEF Becomes
<1>4. ASSUME NEW v PROVE Push(m, v).pc = m.pc
  <2>1. Becomes(m, Push(m, v), m.pc, Down(m, 2), PutWord(m.stk, Sp(m) - 2, v))
    BY PushIs
  <2>2. QED
    BY <2>1 DEF Becomes
<1>5. \A v : [m EXCEPT !.stk = v].pc = m.pc
  BY <1>1
<1>6. \A v : [m EXCEPT !.mem = v].pc = m.pc
  BY <1>1
<1>7. \A v : [m EXCEPT !.zf = v].pc = m.pc
  BY <1>1
<1>8. QED
  BY <1>2, <1>3, <1>4, <1>5, <1>6, <1>7

LEMMA AgreeSet ==
  ASSUME NEW p, NEW q, Agree(p, q), NEW r \in General, NEW v, NEW x, SameValue(v, x)
  PROVE  Agree(Set(p, r, v), Set(q, r, x))
<1>1. r \in Registers /\ r # "esp"
  BY DEF General, Registers
<1>2. Set(p, r, v).pc = p.pc /\ Set(q, r, x).pc = q.pc
  BY <1>1, PcKept DEF Agree, Alike
<1>3. Alike(Set(p, r, v), Set(q, r, x))
  BY AlikeSet DEF Agree
<1>4. QED
  BY <1>2, <1>3 DEF Agree

LEMMA AgreeFlag ==
  ASSUME NEW p, NEW q, Agree(p, q), NEW z
  PROVE  Agree([p EXCEPT !.zf = z], [q EXCEPT !.zf = z])
<1>1. [p EXCEPT !.zf = z].pc = p.pc /\ [q EXCEPT !.zf = z].pc = q.pc
  BY PcKept DEF Agree, Alike
<1>2. QED
  BY <1>1, AlikeFlag DEF Agree

LEMMA AgreeMove ==
  ASSUME NEW p, NEW q, Agree(p, q), NEW k \in Nat
  PROVE  Agree(Move(p, k), Move(q, k))
<1>1. Move(p, k).pc = p.pc /\ Move(q, k).pc = q.pc
  BY PcKept, k \in Int DEF Agree, Alike
<1>2. QED
  BY <1>1, AlikeMove DEF Agree

(* Words of data lie in the new archive as they did in the old one.        *)
LEMMA DataRow ==
  ASSUME Built, NEW o \in Data, NEW n \in Nat, o + n \in Data
  PROVE  /\ In64(o) = FirstOf(o) /\ FirstOf(o + n) = FirstOf(o) + n
         /\ new[FirstOf(o)].op = old.blobs[o].op
<1>1. o \in DOMAIN old.blobs /\ o + n \in DOMAIN old.blobs /\ IsData(old.blobs[o]) /\ o \in Int
  BY BuiltParts DEF Data
<1>2. old.blobs[o].op # "placeholder" /\ old.blobs[o].op \notin Replaced
  BY <1>1 DEF IsData, Replaced
<1>3. In64(o) = FirstOf(o)
  BY <1>1, <1>2, In32Is, In64Is
<1>4. FirstOf(o + n) = FirstOf(o) + n
  <2>1. CASE n = 0
    <3>1. FirstOf(o) \in Int
      BY <1>1, BlockIs DEF BlockOf
    <3>2. o + n = o /\ FirstOf(o) + n = FirstOf(o)
      BY <1>1, <2>1, <3>1
    <3>3. QED
      BY <3>2
  <2>2. CASE n # 0
    <3>1. o < o + n /\ (o + n) - o = n
      BY <1>1, <2>2
    <3>2. ASSUME NEW c \in o..((o + n) - 1) PROVE old.blobs[c].op \notin Replaced
      <4>1. c = o \/ o < c
        BY <1>1
      <4>2. c \in DOMAIN old.blobs
        BY <1>1, BuiltParts
      <4>3. IsData(old.blobs[c]) \/ old.blobs[c].op = "placeholder"
        BY <1>1, <4>1, <4>2, BuiltParts, CompiledAssumption
      <4>4. QED
        BY <4>3 DEF IsData, Replaced
    <3>3. FirstOf(o + n) = FirstOf(o) + ((o + n) - o)
      BY <1>1, <3>1, <3>2, InRow
    <3>4. QED
      BY <3>1, <3>3
  <2>3. QED
    BY <2>1, <2>2
<1>5. new[FirstOf(o)].op = old.blobs[o].op
  <2>1. PICK f, list : f = FirstOf(o) /\ list = Transformed(old.blobs[o])
    OBVIOUS
  <2>2. BlockOf(o, f, list)
    BY <1>1, <2>1, BlockIs
  <2>3. 1 \in DOMAIN list /\ list[1] = Copy(old.blobs[o]) /\ f + 1 - 1 = f
    BY <1>2, <2>2 DEF BlockOf, Listed
  <2>4. new[f] = MadeOf(Copy(old.blobs[o]), o)
    BY <2>2, <2>3 DEF BlockOf
  <2>5. QED
    BY <2>1, <2>4 DEF MadeOf, Copy
<1>6. QED
  BY <1>3, <1>4, <1>5

(* An address of code or data in a base register is one of data.           *)
InData(v, n) == v[1] = "at" => v[2] \in Data /\ v[2] + n \in Data

LEMMA SpRegister ==
  ASSUME NEW p, NEW q, Alike(p, q)
  PROVE  p.reg["esp"] = <<"sp", Sp(p)>> /\ q.reg["esp"] = <<"sp", Sp(p)>> /\ Sp(p) \in Int
BY DEF Alike, Machine

LEMMA AlikeRead ==
  ASSUME Built, NEW p, NEW q, Alike(p, q), NEW base \in General \cup {"esp"}, NEW n \in Nat,
         InData(p.reg[base], n)
  PROVE  SameValue(Read(p, p.reg[base], n), Read(q, q.reg[base], n))
<1>1. PICK v, x : v = p.reg[base] /\ x = q.reg[base]
  OBVIOUS
<1>2. CASE base = "esp"
  <2>1. v[1] = "sp" /\ x[1] = "sp" /\ v[2] = Sp(p) /\ x[2] = Sp(p) /\ Sp(p) \in Int
    BY <1>1, <1>2, SpRegister
  <2>2. Sp(p) + 2 * n \in Int /\ Sp(p) <= Sp(p) + 2 * n
    BY <2>1
  <2>3. Read(p, v, n) = WordAt(p, Sp(p) + 2 * n) /\ Read(q, x, n) = WordAt(q, Sp(p) + 2 * n)
    BY <2>1 DEF Read
  <2>4. QED
    BY <1>1, <2>2, <2>3, AlikeWord
<1>3. CASE base \in General
  <2>1. SameValue(v, x)
    BY <1>1, <1>3 DEF Alike
  <2>2. CASE v[1] = "at"
    <3>1. PICK o : o = v[2]
      OBVIOUS
    <3>2. o \in Data /\ o + n \in Data /\ x = At(In64(o))
      BY <1>1, <2>1, <2>2, <3>1 DEF InData, SameValue, Turned
    <3>3. x[1] = "at" /\ x[2] = FirstOf(o) /\ FirstOf(o + n) = FirstOf(o) + n
      BY <3>2, DataRow DEF At
    <3>4. /\ DOMAIN p.mem = Data /\ FirstOf(o + n) \in DOMAIN q.mem
          /\ SameValue(p.mem[o + n], q.mem[FirstOf(o + n)])
      BY <3>2 DEF Alike, SameMemory
    <3>5. Read(p, v, n) = p.mem[o + n]
      BY <2>2, <3>1, <3>2, <3>4 DEF Read
    <3>6. Read(q, x, n) = q.mem[FirstOf(o + n)]
      BY <3>3, <3>4 DEF Read
    <3>7. QED
      BY <1>1, <3>4, <3>5, <3>6
  <2>3. CASE v[1] # "at"
    <3>1. x = v /\ v[1] # "sp"
      BY <2>1, <2>3 DEF SameValue, Turned, Value
    <3>2. Read(p, v, n) = Junk /\ Read(q, x, n) = Junk
      BY <2>3, <3>1 DEF Read
    <3>3. QED
      BY <1>1, <3>2, Values DEF SameValue
  <2>4. QED
    BY <2>2, <2>3
<1>4. QED
  BY <1>2, <1>3

LEMMA AgreeWrite ==
  ASSUME Built, NEW p, NEW q, Agree(p, q), NEW base \in General \cup {"esp"}, NEW n \in Nat,
         InData(p.reg[base], n),
         p.reg[base][1] = "at" => old.blobs[p.reg[base][2] + n].op # "nonlazy",
         NEW v, NEW x, SameValue(v, x), Write(p, p.reg[base], n, v).pc # Junk
  PROVE  Agree(Write(p, p.reg[base], n, v), Write(q, q.reg[base], n, x))
<1>1. PICK c, d : c = p.reg[base] /\ d = q.reg[base]
  OBVIOUS
<1>2. Alike(p, q) /\ Machine(p) /\ Machine(q)
  BY DEF Agree, Alike
<1>3. CASE base = "esp"
  <2>1. c[1] = "sp" /\ d[1] = "sp" /\ c[2] = Sp(p) /\ d[2] = Sp(p) /\ Sp(p) \in Int
    BY <1>1, <1>2, <1>3, SpRegister
  <2>2. PICK k \in Int : k = Sp(p) + 2 * n /\ Sp(p) <= k
    BY <2>1
  <2>3. /\ Write(p, c, n, v) = [p EXCEPT !.stk = PutWord(@, k, v)]
        /\ Write(q, d, n, x) = [q EXCEPT !.stk = PutWord(@, k, x)]
    BY <2>1, <2>2 DEF Write
  <2>4. Alike([p EXCEPT !.stk = PutWord(@, k, v)], [q EXCEPT !.stk = PutWord(@, k, x)])
    BY <1>2, <2>2, AlikePut
  <2>5. /\ [p EXCEPT !.stk = PutWord(@, k, v)].pc = p.pc
        /\ [q EXCEPT !.stk = PutWord(@, k, x)].pc = q.pc
    BY <1>2, PcKept
  <2>6. QED
    BY <1>1, <2>3, <2>4, <2>5 DEF Agree
<1>4. CASE base \in General
  <2>1. SameValue(c, d)
    BY <1>1, <1>2, <1>4 DEF Alike
  <2>2. CASE c[1] = "at"
    <3>1. PICK o : o = c[2]
      OBVIOUS
    <3>2. o \in Data /\ o + n \in Data /\ d = At(In64(o)) /\ old.blobs[o + n].op # "nonlazy"
      BY <1>1, <2>1, <2>2, <3>1 DEF InData, SameValue, Turned
    <3>3. d[1] = "at" /\ d[2] = FirstOf(o) /\ FirstOf(o + n) = FirstOf(o) + n
      BY <3>2, DataRow DEF At
    <3>4. PICK w : w = o + n
      OBVIOUS
    <3>5. w \in Data /\ DOMAIN p.mem = Data /\ FirstOf(w) \in DOMAIN q.mem
      BY <1>2, <3>2, <3>4 DEF Alike, SameMemory
    <3>6. Write(p, c, n, v) = [p EXCEPT !.mem[w] = v]
      BY <2>2, <3>1, <3>4, <3>5 DEF Write
    <3>7. Write(q, d, n, x) = [q EXCEPT !.mem[FirstOf(w)] = x]
      BY <3>3, <3>4, <3>5 DEF Write
    <3>8. Alike([p EXCEPT !.mem[w] = v], [q EXCEPT !.mem[FirstOf(w)] = x])
      BY <1>2, <3>2, <3>4, <3>5, AlikeStore
    <3>9. [p EXCEPT !.mem[w] = v].pc = p.pc /\ [q EXCEPT !.mem[FirstOf(w)] = x].pc = q.pc
      BY <1>2, PcKept
    <3>10. QED
      BY <1>1, <3>6, <3>7, <3>8, <3>9 DEF Agree
  <2>3. CASE c[1] # "at"
    <3>1. c[1] # "sp"
      BY <2>1 DEF SameValue, Value
    <3>2. Write(p, c, n, v) = Goto(p, Junk)
      BY <2>3, <3>1 DEF Write
    <3>3. Goto(p, Junk).pc = Junk
      BY <1>2, GotoIs DEF Becomes
    <3>4. QED
      BY <1>1, <3>2, <3>3
  <2>4. QED
    BY <2>2, <2>3
<1>5. QED
  BY <1>3, <1>4

LEMMA AgreeCount ==
  ASSUME NEW p, NEW q, Agree(p, q), NEW r \in General, NEW d
  PROVE  Agree(Count(p, r, d), Count(q, r, d))
<1>1. PICK a, b : a = p.reg[r] /\ b = q.reg[r]
  OBVIOUS
<1>2. SameValue(a, b)
  BY <1>1 DEF Agree, Alike
<1>3. a[1] = "num" <=> b[1] = "num"
  BY <1>2 DEF SameValue, Turned, At
<1>4. a[1] = "num" => b = a
  BY <1>2 DEF SameValue, Turned
<1>5. PICK v : v = IF a[1] = "num" THEN Num(a[2] + d) ELSE Junk
  OBVIOUS
<1>6. v = IF b[1] = "num" THEN Num(b[2] + d) ELSE Junk
  BY <1>3, <1>4, <1>5
<1>7. SameValue(v, v)
  BY <1>5, Values DEF SameValue
<1>8. Agree(Set(p, r, v), Set(q, r, v))
  BY <1>7, AgreeSet
<1>9. Agree([Set(p, r, v) EXCEPT !.zf = (v = Num(0))], [Set(q, r, v) EXCEPT !.zf = (v = Num(0))])
  BY <1>8, AgreeFlag
<1>10. Count(p, r, d) = [Set(p, r, v) EXCEPT !.zf = (v = Num(0))]
  BY <1>1, <1>5 DEF Count
<1>11. Count(q, r, d) = [Set(q, r, v) EXCEPT !.zf = (v = Num(0))]
  BY <1>1, <1>6 DEF Count
<1>12. QED
  BY <1>9, <1>10, <1>11

(* What the instruction b may do of the old program at p.                  *)
Usable(p, b) ==
  /\ b.n \in Nat
  /\ b.op \in {"movi", "load", "store", "inc", "dec", "push", "pop", "mova", "callr"} =>
       b.reg \in General
  /\ b.op \in {"load", "store", "pushm"} => b.base \in General \cup {"esp"}
  /\ b.op = "jmpm" => b.base \in General
  /\ b.op \in {"load", "store", "pushm", "jmpm"} => InData(p.reg[b.base], b.n)
  /\ b.op = "store" /\ p.reg[b.base][1] = "at" =>
       old.blobs[p.reg[b.base][2] + b.n].op # "nonlazy"
  /\ b.op = "jmpm" /\ p.reg[b.base][1] = "at" =>
       \/ old.blobs[p.reg[b.base][2] + b.n].op \in {"lazy", "nonlazy"}
       \/ Read(p, p.reg[b.base], b.n + 1) = Num(0)

LEMMA AgreeCommon ==
  ASSUME Built, NEW p, NEW q, Agree(p, q), NEW b, Usable(p, b), b.op \in Common,
         NEW to, NEW x, b.op \in {"jmp", "jz"} => SameValue(At(to), At(x)),
         ExecAlike(p, b, to).pc # Junk
  PROVE  Agree(ExecAlike(p, b, to), ExecAlike(q, Copy(b), x))
<1>1. PICK c : c = Copy(b)
  OBVIOUS
<1>2. c.op = b.op /\ c.reg = b.reg /\ c.base = b.base /\ c.n = b.n
  BY <1>1 DEF Copy
<1>3. Alike(p, q) /\ q.zf = p.zf
  BY DEF Agree, Alike
<1>4. CASE b.op = "movi"
  <2>1. ExecAlike(p, b, to) = Set(p, b.reg, Num(b.n)) /\ ExecAlike(q, c, x) = Set(q, b.reg, Num(b.n))
    BY <1>2, <1>4 DEF ExecAlike
  <2>2. b.reg \in General /\ SameValue(Num(b.n), Num(b.n))
    BY <1>4, Values DEF Usable, SameValue
  <2>3. QED
    BY <1>1, <2>1, <2>2, AgreeSet
<1>5. CASE b.op = "load"
  <2>1. /\ ExecAlike(p, b, to) = Set(p, b.reg, Read(p, p.reg[b.base], b.n))
        /\ ExecAlike(q, c, x) = Set(q, b.reg, Read(q, q.reg[b.base], b.n))
    BY <1>2, <1>5 DEF ExecAlike
  <2>2. b.reg \in General /\ b.base \in General \cup {"esp"} /\ b.n \in Nat /\ InData(p.reg[b.base], b.n)
    BY <1>5 DEF Usable
  <2>3. SameValue(Read(p, p.reg[b.base], b.n), Read(q, q.reg[b.base], b.n))
    BY <1>3, <2>2, AlikeRead
  <2>4. QED
    BY <1>1, <2>1, <2>2, <2>3, AgreeSet
<1>6. CASE b.op = "store"
  <2>1. /\ ExecAlike(p, b, to) = Write(p, p.reg[b.base], b.n, p.reg[b.reg])
        /\ ExecAlike(q, c, x) = Write(q, q.reg[b.base], b.n, q.reg[b.reg])
    BY <1>2, <1>6 DEF ExecAlike
  <2>2. /\ b.reg \in General /\ b.base \in General \cup {"esp"} /\ b.n \in Nat
        /\ InData(p.reg[b.base], b.n)
        /\ p.reg[b.base][1] = "at" => old.blobs[p.reg[b.base][2] + b.n].op # "nonlazy"
    BY <1>6 DEF Usable
  <2>3. SameValue(p.reg[b.reg], q.reg[b.reg])
    BY <1>3, <2>2 DEF Alike
  <2>4. Write(p, p.reg[b.base], b.n, p.reg[b.reg]).pc # Junk
    BY <2>1
  <2>5. QED
    BY <1>1, <2>1, <2>2, <2>3, <2>4, AgreeWrite
<1>7. CASE b.op = "inc"
  <2>1. ExecAlike(p, b, to) = Count(p, b.reg, 1) /\ ExecAlike(q, c, x) = Count(q, b.reg, 1)
    BY <1>2, <1>7 DEF ExecAlike
  <2>2. b.reg \in General
    BY <1>7 DEF Usable
  <2>3. QED
    BY <1>1, <2>1, <2>2, AgreeCount
<1>8. CASE b.op = "dec"
  <2>1. ExecAlike(p, b, to) = Count(p, b.reg, -1) /\ ExecAlike(q, c, x) = Count(q, b.reg, -1)
    BY <1>2, <1>8 DEF ExecAlike
  <2>2. b.reg \in General
    BY <1>8 DEF Usable
  <2>3. QED
    BY <1>1, <2>1, <2>2, AgreeCount
<1>9. CASE b.op = "addsp"
  <2>1. PICK k : k = 2 * b.n
    OBVIOUS
  <2>2. k \in Nat
    BY <2>1 DEF Usable
  <2>3. /\ ExecAlike(p, b, to) = [Move(p, k) EXCEPT !.zf = FALSE]
        /\ ExecAlike(q, c, x) = [Move(q, k) EXCEPT !.zf = FALSE]
    BY <1>2, <1>9, <2>1 DEF ExecAlike
  <2>4. QED
    <3>1. Agree(Move(p, k), Move(q, k))
      BY <2>2, AgreeMove
    <3>2. Agree([Move(p, k) EXCEPT !.zf = FALSE], [Move(q, k) EXCEPT !.zf = FALSE])
      BY <3>1, AgreeFlag
    <3>3. QED
      BY <1>1, <2>3, <3>2
<1>10. CASE b.op = "jmp"
  <2>1. ExecAlike(p, b, to) = Goto(p, At(to)) /\ ExecAlike(q, c, x) = Goto(q, At(x))
    BY <1>2, <1>10 DEF ExecAlike
  <2>2. QED
    BY <1>1, <1>3, <1>10, <2>1, AgreeGoto
<1>11. CASE b.op = "jz"
  <2>1. /\ ExecAlike(p, b, to) = IF p.zf THEN Goto(p, At(to)) ELSE p
        /\ ExecAlike(q, c, x) = IF p.zf THEN Goto(q, At(x)) ELSE q
    BY <1>2, <1>3, <1>11 DEF ExecAlike
  <2>2. Agree(Goto(p, At(to)), Goto(q, At(x)))
    BY <1>3, <1>11, AgreeGoto
  <2>3. QED
    BY <1>1, <2>1, <2>2
<1>12. QED
  BY <1>4, <1>5, <1>6, <1>7, <1>8, <1>9, <1>10, <1>11 DEF Common

-----------------------------------------------------------------------------
(* The new program gets from m to s, with nothing compared in between.     *)
Reach1(m, s) == s = Step64(m)
Reach2(m, s) == ~Waits64(Step64(m).pc) /\ Reach1(Step64(m), s)
Reach3(m, s) == ~Waits64(Step64(m).pc) /\ Reach2(Step64(m), s)
Reach4(m, s) == ~Waits64(Step64(m).pc) /\ Reach3(Step64(m), s)
Reach5(m, s) == ~Waits64(Step64(m).pc) /\ Reach4(Step64(m), s)
Reaches(m, s) == Reach1(m, s) \/ Reach2(m, s) \/ Reach3(m, s) \/ Reach4(m, s) \/ Reach5(m, s)

(* p is at the instruction b = blob o of the old program, q at the first   *)
(* of the blobs made of it, list, from f on.                               *)
Meet(p, q, o, b, f, list) ==
  /\ Built /\ Agree(p, q) /\ o \in DOMAIN old.blobs /\ b = old.blobs[o]
  /\ f = FirstOf(o) /\ list = Transformed(b)
  /\ p.pc = At(o) /\ b.op # "placeholder" /\ ~IsData(b) /\ Usable(p, b)
  /\ b.op \in {"jmp", "jz", "call", "mova", "pusha", "jmpa", "helper"} => b.at # 0

(* Behind an instruction comes another, and what it points to is there.    *)
Beside(p, q, o, b, f, list) ==
  /\ BlockOf(o, f, list) /\ Lists(b, list) /\ Listed(b, list) /\ f \in Nat \ {0}
  /\ q.pc = At(f) /\ Alike(p, q) /\ Machine(p) /\ Machine(q)
  /\ SameValue(At(In32(o + 1)), At(In64(o + 1)))
  /\ Place(new, f + Len(list)) = In64(o + 1)
  /\ list[Len(list)].op = "placeholder" => Place(new, f + Len(list) - 1) = In64(o + 1)
  /\ b.at # 0 => SameValue(At(In32(b.at)), At(In64(b.at)))

LEMMA Besides ==
  ASSUME NEW p, NEW q, NEW o, NEW b, NEW f, NEW list, Meet(p, q, o, b, f, list)
  PROVE  Beside(p, q, o, b, f, list)
<1>1. /\ Built /\ Agree(p, q) /\ o \in DOMAIN old.blobs /\ b = old.blobs[o]
      /\ f = FirstOf(o) /\ list = Transformed(b)
      /\ p.pc = At(o) /\ b.op # "placeholder" /\ ~IsData(b)
  BY DEF Meet
<1>2. BlockOf(o, f, list)
  BY <1>1, BlockIs
<1>3. o < OldLength
  <2>1. o \in 1..OldLength /\ OldLength \in Nat /\ o # OldLength
    BY <1>1, BuiltParts
  <2>2. QED
    BY <2>1
<1>4. /\ o + 1 \in DOMAIN old.blobs
      /\ Place(new, f + Len(list)) = In64(o + 1)
      /\ list[Len(list)].op = "placeholder" => Place(new, f + Len(list) - 1) = In64(o + 1)
  BY <1>1, <1>3, PlaceBehind
<1>5. ASSUME NEW a \in DOMAIN old.blobs PROVE SameValue(At(In32(a)), At(In64(a)))
  <2>1. In32(a) \in DOMAIN old.blobs /\ old.blobs[In32(a)].op # "placeholder"
    BY <1>1, In32Is
  <2>2. In64(In32(a)) = In64(a)
    BY <1>1, Through
  <2>3. QED
    BY <2>1, <2>2, Values DEF SameValue
<1>6. b.at # 0 => b.at \in DOMAIN old.blobs
  BY <1>1, BuiltParts, OldParts
<1>7. q.pc = At(f)
  <2>1. In32(o) = o /\ In64(o) = FirstOf(In32(o))
    BY <1>1, In32Is, In64Is
  <2>2. q.pc = Turned(At(o))
    BY <1>1 DEF Agree, SameValue
  <2>3. QED
    BY <1>1, <2>1, <2>2, Values
<1>8. Lists(b, list) /\ Listed(b, list) /\ f \in Nat \ {0}
  BY <1>1, <1>2 DEF BlockOf
<1>9. Alike(p, q) /\ Machine(p) /\ Machine(q)
  BY <1>1 DEF Agree, Alike
<1>10. QED
  BY <1>2, <1>4, <1>5, <1>6, <1>7, <1>8, <1>9 DEF Beside

(* What the new program does at the blob x of the list.                    *)
StepAt(b, f, list, x, e, m, w) ==
  /\ Does64(Goto(m, At(Place(new, f + x))), e, Place(new, Pointee(f + x - 1)), w)
  /\ e.disp = Disp(b) /\ b.at # 0 => Place(new, Pointee(f + x - 1)) = In64(b.at)
  /\ e.disp = Ahead(5) => Place(new, Pointee(f + x - 1)) = Place(new, f + x - 1 + 5)
  /\ x + 1 \in DOMAIN list /\ list[x + 1].op # "placeholder" => Place(new, f + x) = f + x
  /\ x # 1 /\ ~IsData(e) => ~Waits64(At(f + x - 1))

LEMMA StepIn ==
  ASSUME NEW p, NEW q, NEW o, NEW b, NEW f, NEW list, Meet(p, q, o, b, f, list),
         NEW x \in DOMAIN list, list[x].op # "helper", NEW m, m.pc = At(f + x - 1)
  PROVE  StepAt(b, f, list, x, list[x], m, Step64(m))
<1>1. /\ Built /\ o \in DOMAIN old.blobs /\ b = old.blobs[o]
      /\ f = FirstOf(o) /\ list = Transformed(old.blobs[o])
  BY DEF Meet
<1>2. /\ f + x - 1 \in DOMAIN new /\ new[f + x - 1].disp = list[x].disp
      /\ Does64(Goto(m, At(Place(new, f + x))), list[x], Place(new, Pointee(f + x - 1)), Step64(m))
  BY <1>1, StepWithin
<1>3. list[x].disp = Disp(b) /\ b.at # 0 => Place(new, Pointee(f + x - 1)) = In64(b.at)
  BY <1>1, <1>2, PointeeIs
<1>4. list[x].disp = Ahead(5) => Place(new, Pointee(f + x - 1)) = Place(new, f + x - 1 + 5)
  BY <1>2, AheadIs
<1>5. x + 1 \in DOMAIN list /\ list[x + 1].op # "placeholder" => Place(new, f + x) = f + x
  <2>1. x \in Int /\ f \in Int
    BY <1>1, BlockIs DEF BlockOf, Listed
  <2>2. f + (x + 1) - 1 = f + x
    BY <2>1
  <2>3. x + 1 \in DOMAIN list /\ list[x + 1].op # "placeholder" =>
          Place(new, f + (x + 1) - 1) = f + (x + 1) - 1
    BY <1>1, PlaceWithin
  <2>4. QED
    BY <2>2, <2>3
<1>6. x # 1 /\ ~IsData(list[x]) => ~Waits64(At(f + x - 1))
  BY <1>1, NotYet
<1>7. QED
  BY <1>2, <1>3, <1>4, <1>5, <1>6 DEF StepAt

-----------------------------------------------------------------------------
(* What the old program does at an instruction.                            *)
Does32(m, b, to, w) ==
  /\ b.op = "push" => w = Push(m, m.reg[b.reg])
  /\ b.op = "pushi" => w = Push(m, Num(b.n))
  /\ b.op = "pusha" => w = Push(m, At(to))
  /\ b.op = "pushm" => w = Push(m, Read(m, m.reg[b.base], b.n))
  /\ b.op = "pop" => w = Set(Move(m, 2), b.reg, WordAt(m, Sp(m)))
  /\ b.op = "mova" => w = Set(m, b.reg, At(to))
  /\ b.op = "call" => w = Goto(Push(m, m.pc), At(to))
  /\ b.op = "callr" => w = Goto(Push(m, m.pc), m.reg[b.reg])
  /\ b.op = "jmpm" => w = Goto(m, Read(m, m.reg[b.base], b.n))
  /\ b.op = "jmpa" => w = Goto(m, Read(m, At(to), 0))
  /\ b.op = "ret" => w = Goto(Move(m, 2), WordAt(m, Sp(m)))
  /\ b.op = "helper" => w = Goto(Push(m, Num(b.n)), At(to))
  /\ b.op \in Common => w = ExecAlike(m, b, to)
  /\ b.op \notin Common \cup {"push", "pushi", "pusha", "pushm", "pop", "mova", "call", "callr",
                              "jmpm", "jmpa", "ret", "helper"} => w = Goto(m, Junk)

LEMMA DoesAll32 == ASSUME NEW m, NEW b, NEW to PROVE Does32(m, b, to, Exec32(m, b, to))
<1>1. PICK w : w = Exec32(m, b, to)
  OBVIOUS
<1>2. b.op \in Common => w = ExecAlike(m, b, to)
  BY <1>1 DEF Exec32, Common
<1>3. b.op \notin Common \cup {"push", "pushi", "pusha", "pushm", "pop", "mova", "call", "callr",
                              "jmpm", "jmpa", "ret", "helper"} => w = Goto(m, Junk)
  BY <1>1 DEF Exec32, ExecAlike, Common
<1>4. /\ b.op = "push" => w = Push(m, m.reg[b.reg])
      /\ b.op = "pushi" => w = Push(m, Num(b.n))
      /\ b.op = "pusha" => w = Push(m, At(to))
      /\ b.op = "pushm" => w = Push(m, Read(m, m.reg[b.base], b.n))
      /\ b.op = "pop" => w = Set(Move(m, 2), b.reg, WordAt(m, Sp(m)))
      /\ b.op = "mova" => w = Set(m, b.reg, At(to))
  BY <1>1 DEF Exec32
<1>5. /\ b.op = "call" => w = Goto(Push(m, m.pc), At(to))
      /\ b.op = "callr" => w = Goto(Push(m, m.pc), m.reg[b.reg])
      /\ b.op = "jmpm" => w = Goto(m, Read(m, m.reg[b.base], b.n))
      /\ b.op = "jmpa" => w = Goto(m, Read(m, At(to), 0))
      /\ b.op = "ret" => w = Goto(Move(m, 2), WordAt(m, Sp(m)))
      /\ b.op = "helper" => w = Goto(Push(m, Num(b.n)), At(to))
  BY <1>1 DEF Exec32
<1>6. QED
  BY <1>1, <1>2, <1>3, <1>4, <1>5 DEF Does32

(* Where a machine goes does not change what else it does.                 *)
LEMMA GotoKeeps ==
  ASSUME NEW m, Machine(m), NEW a
  PROVE  /\ Goto(m, a).reg = m.reg /\ Goto(m, a).stk = m.stk /\ Goto(m, a).mem = m.mem
         /\ Goto(m, a).zf = m.zf /\ Goto(m, a).pc = a
         /\ \A k : WordAt(Goto(m, a), k) = WordAt(m, k)
         /\ \A v, n : Read(Goto(m, a), v, n) = Read(m, v, n)
         /\ \A v, n : ReadWide(Goto(m, a), v, n) = ReadWide(m, v, n)
         /\ \A c : Goto(Goto(m, a), c) = Goto(m, c)
         /\ \A v : Push(Goto(m, a), v) = Goto(Push(m, v), a)
<1>1. PICK w : w = Goto(m, a)
  OBVIOUS
<1>2. Machine(w) /\ Becomes(m, w, a, m.reg, m.stk) /\ Sp(w) = Sp(m)
  BY <1>1, GotoIs
<1>3. w.reg = m.reg /\ w.stk = m.stk /\ w.mem = m.mem /\ w.pc = a /\ w.zf = m.zf
  BY <1>2 DEF Becomes
<1>4. \A k : WordAt(w, k) = WordAt(m, k)
  BY <1>3 DEF WordAt
<1>5. \A v, n : Read(w, v, n) = Read(m, v, n)
  BY <1>3, <1>4 DEF Read
<1>6. \A v, n : ReadWide(w, v, n) = ReadWide(m, v, n)
  BY <1>3, <1>5 DEF ReadWide
<1>7. ASSUME NEW c PROVE Goto(w, c) = Goto(m, c)
  <2>1. Becomes(w, Goto(w, c), c, w.reg, w.stk)
    BY <1>2, GotoIs
  <2>2. Becomes(m, Goto(m, c), c, m.reg, m.stk)
    BY GotoIs
  <2>3. QED
    BY <1>3, <2>1, <2>2 DEF Becomes
<1>8. ASSUME NEW v PROVE Push(w, v) = Goto(Push(m, v), a)
  <2>1. Becomes(w, Push(w, v), w.pc, Down(w, 2), PutWord(w.stk, Sp(w) - 2, v))
    BY <1>2, PushIs
  <2>2. PICK u : u = Push(m, v)
    OBVIOUS
  <2>3. Machine(u) /\ Becomes(m, u, m.pc, Down(m, 2), PutWord(m.stk, Sp(m) - 2, v))
    BY <2>2, PushIs
  <2>4. Becomes(u, Goto(u, a), a, u.reg, u.stk)
    BY <2>3, GotoIs
  <2>5. Down(w, 2) = Down(m, 2)
    BY <1>2, <1>3 DEF Down, Over
  <2>6. QED
    BY <1>2, <1>3, <2>1, <2>2, <2>3, <2>4, <2>5 DEF Becomes
<1>9. QED
  BY <1>1, <1>3, <1>4, <1>5, <1>6, <1>7, <1>8

LEMMA UsableGoto ==
  ASSUME NEW p, Machine(p), NEW b, Usable(p, b), NEW a
  PROVE  Usable(Goto(p, a), b)
<1>1. Goto(p, a).reg = p.reg /\ \A v, n : Read(Goto(p, a), v, n) = Read(p, v, n)
  BY GotoKeeps
<1>2. QED
  BY <1>1 DEF Usable

-----------------------------------------------------------------------------
(* Three blobs that make a push.                                           *)
Stores(m, e, v) ==
  \/ \E n : e = StoreImm(n) /\ v = Num(n)
  \/ \E r \in Registers : r # "esp" /\ e = Store(r) /\ v = m.reg[r]

LEMMA PushSteps ==
  ASSUME NEW p, NEW q, NEW o, NEW b, NEW f, NEW list, Meet(p, q, o, b, f, list), f \in Int,
         NEW x \in Nat \ {0}, NEW y, NEW z, y = x + 1, z = x + 2,
         x \in DOMAIN list, y \in DOMAIN list, z \in DOMAIN list,
         list[x] = PushAx, list[y] = PushAx, NEW e, list[z] = e,
         NEW m, Machine(m), m.pc = At(f + x - 1), NEW v, Stores(m, e, v)
  PROVE  Reach3(m, Goto(Push(m, v), At(Place(new, f + z))))
<1>1. PICK w1 : w1 = Step64(m)
  OBVIOUS
<1>2. PICK w2 : w2 = Step64(w1)
  OBVIOUS
<1>3. PICK a, c, d : a = At(Place(new, f + x)) /\ c = At(Place(new, f + y))
                     /\ d = At(Place(new, f + z))
  OBVIOUS
<1>4. /\ e.op \in {"store", "storei"} /\ e.base = "esp"
      /\ PushAx.op = "push16" /\ PushAx.reg = "eax"
  BY OpsAll DEF Stores, Ops
<1>5. /\ x + 1 \in DOMAIN list /\ list[x + 1].op # "placeholder"
      /\ y + 1 \in DOMAIN list /\ list[y + 1].op # "placeholder"
  <2>1. x + 1 = y /\ y + 1 = z
    OBVIOUS
  <2>2. QED
    BY <1>4, <2>1
<1>6. f + y - 1 = f + x /\ f + z - 1 = f + y /\ y # 1 /\ z # 1
  OBVIOUS
<1>7. a = At(f + x) /\ w1 = PushHalf(Goto(m, a))
  <2>1. StepAt(b, f, list, x, PushAx, m, w1)
    BY <1>1, <1>4, StepIn
  <2>2. Place(new, f + x) = f + x
    BY <1>5, <2>1 DEF StepAt
  <2>3. w1 = [Move(Goto(m, a), -1) EXCEPT !.stk =
                PutHalf(@, Sp(Goto(m, a)) - 1, Goto(m, a).reg["eax"], 0)]
    BY <1>3, <1>4, <2>1 DEF StepAt, Does64
  <2>4. QED
    BY <1>3, <2>2, <2>3 DEF PushHalf
<1>8. w1 = PushHalf(Goto(m, a))
  BY <1>7
<1>9. PICK u : u = PushHalf(Goto(w1, c))
  OBVIOUS
<1>10. Halves(m, a, c, d, v, w1, u)
  BY <1>8, <1>9, PushInHalves
<1>11. w1.pc = At(f + y - 1)
  BY <1>6, <1>7, <1>10 DEF Halves
<1>12. c = At(f + y) /\ w2 = u /\ ~Waits64(w1.pc)
  <2>1. StepAt(b, f, list, y, PushAx, w1, w2)
    BY <1>2, <1>4, <1>11, StepIn
  <2>2. Place(new, f + y) = f + y
    BY <1>5, <2>1 DEF StepAt
  <2>3. w2 = [Move(Goto(w1, c), -1) EXCEPT !.stk =
                PutHalf(@, Sp(Goto(w1, c)) - 1, Goto(w1, c).reg["eax"], 0)]
    BY <1>3, <1>4, <2>1 DEF StepAt, Does64
  <2>4. ~Waits64(w1.pc)
    BY <1>4, <1>6, <1>11, <2>1 DEF StepAt, IsData
  <2>5. QED
    BY <1>3, <1>9, <2>2, <2>3, <2>4 DEF PushHalf
<1>13. w2.pc = At(f + z - 1)
  BY <1>6, <1>10, <1>12 DEF Halves
<1>14. Step64(w2) = Goto(Push(m, v), d) /\ ~Waits64(w2.pc)
  <2>1. StepAt(b, f, list, z, e, w2, Step64(w2))
    BY <1>4, <1>13, StepIn
  <2>2. ~Waits64(w2.pc)
    BY <1>4, <1>6, <1>13, <2>1 DEF StepAt, IsData
  <2>3. Does64(Goto(w2, d), e, Place(new, Pointee(f + z - 1)), Step64(w2))
    BY <1>3, <2>1 DEF StepAt
  <2>4. Step64(w2) = Write(Goto(w2, d), Goto(w2, d).reg["esp"], 0, v)
    <3>1. CASE \E n : e = StoreImm(n) /\ v = Num(n)
      <4>1. PICK n : e = StoreImm(n) /\ v = Num(n)
        BY <3>1
      <4>2. e.op = "storei" /\ e.base = "esp" /\ e.n = n
        BY <4>1, OpsAll DEF Ops
      <4>3. QED
        BY <2>3, <4>1, <4>2 DEF Does64
    <3>2. CASE \E r \in Registers : r # "esp" /\ e = Store(r) /\ v = m.reg[r]
      <4>1. PICK r \in Registers : r # "esp" /\ e = Store(r) /\ v = m.reg[r]
        BY <3>2
      <4>2. e.op = "store" /\ e.base = "esp" /\ e.n = 0 /\ e.reg = r
        BY <4>1, OpsAll DEF Ops
      <4>3. Goto(w2, d).reg[r] = m.reg[r]
        BY <1>10, <1>12, <4>1 DEF Halves
      <4>4. QED
        BY <2>3, <4>1, <4>2, <4>3 DEF Does64
    <3>3. QED
      BY <3>1, <3>2 DEF Stores
  <2>5. QED
    BY <1>10, <1>12, <2>2, <2>4 DEF Halves
<1>15. Reach3(m, Goto(Push(m, v), d))
  BY <1>1, <1>2, <1>12, <1>14 DEF Reach1, Reach2, Reach3
<1>16. QED
  BY <1>3, <1>15

-----------------------------------------------------------------------------
(* One instruction of the old program, and the blobs made of it.           *)
Follows(w, m) == \E s : Reaches(m, s) /\ Agree(w, s)
Effect(p, o, b) == Exec32(Goto(p, At(In32(o + 1))), b, In32(b.at))

(* Where both machines go on.                                              *)
Both(p, q, o, b, f, list) ==
  /\ Built /\ Agree(p, q) /\ Alike(p, q) /\ Machine(p) /\ Machine(q) /\ Usable(p, b)
  /\ f \in Int /\ q.pc = At(f) /\ Lists(b, list) /\ Listed(b, list) /\ 1 \in DOMAIN list
  /\ SameValue(At(In32(o + 1)), At(In64(o + 1)))
  /\ Place(new, f + Len(list)) = In64(o + 1)
  /\ list[Len(list)].op = "placeholder" => Place(new, f + Len(list) - 1) = In64(o + 1)
  /\ b.at # 0 => SameValue(At(In32(b.at)), At(In64(b.at)))
  /\ Does32(Goto(p, At(In32(o + 1))), b, In32(b.at), Effect(p, o, b))

LEMMA Meets ==
  ASSUME NEW p, NEW q, NEW o, NEW b, NEW f, NEW list, Meet(p, q, o, b, f, list)
  PROVE  Both(p, q, o, b, f, list)
<1>1. Beside(p, q, o, b, f, list)
  BY Besides
<1>2. Does32(Goto(p, At(In32(o + 1))), b, In32(b.at), Effect(p, o, b))
  BY DoesAll32 DEF Effect
<1>3. QED
  BY <1>1, <1>2 DEF Beside, Meet, Listed, Both

LEMMA Begins ==
  ASSUME NEW p, NEW q, NEW o, NEW b, NEW f, NEW list, Meet(p, q, o, b, f, list),
         NEW e, list[1] = e, e.op # "helper"
  PROVE  StepAt(b, f, list, 1, e, q, Step64(q))
<1>0. Both(p, q, o, b, f, list)
  BY Meets
<1>1. q.pc = At(f) /\ f \in Int /\ 1 \in DOMAIN list
  BY <1>0 DEF Both
<1>2. q.pc = At(f + 1 - 1)
  BY <1>1
<1>3. QED
  BY <1>1, <1>2, StepIn

LEMMA FollowsCommon ==
  ASSUME NEW p, NEW q, NEW o, NEW b, NEW f, NEW list, Meet(p, q, o, b, f, list),
         b.op \in Common, Effect(p, o, b).pc # Junk
  PROVE  Follows(Effect(p, o, b), q)
<1>0. Both(p, q, o, b, f, list)
  BY Meets
<1>1. PICK w, v, x : w = Effect(p, o, b) /\ v = At(In32(o + 1)) /\ x = At(In64(o + 1))
  OBVIOUS
<1>2. PICK g, h : g = Goto(p, v) /\ h = Goto(q, x)
  OBVIOUS
<1>3. b.op \notin Replaced /\ b.op # "helper"
  BY DEF Common, Replaced
<1>4. list = <<Copy(b)>>
  BY <1>3, <1>0 DEF Lists, Both
<1>5. Len(list) = 1 /\ list[1] = Copy(b)
  BY <1>4
<1>6. Copy(b).op = b.op /\ Copy(b).disp = Disp(b)
  BY DEF Copy
<1>7. StepAt(b, f, list, 1, Copy(b), q, Step64(q))
  BY <1>3, <1>5, <1>6, Begins
<1>8. Place(new, f + 1) = In64(o + 1)
  BY <1>5, <1>0 DEF Both
<1>9. PICK to : to = Place(new, Pointee(f + 1 - 1))
  OBVIOUS
<1>10. Step64(q) = ExecAlike(h, Copy(b), to) /\ (b.at # 0 => to = In64(b.at))
  BY <1>1, <1>2, <1>6, <1>7, <1>8, <1>9 DEF StepAt, Does64
<1>11. w = ExecAlike(g, b, In32(b.at))
  BY <1>1, <1>2, <1>0 DEF Does32, Both
<1>12. Agree(g, h)
  BY <1>1, <1>2, <1>0, AgreeGoto DEF Both
<1>13. Usable(g, b)
  BY <1>2, <1>0, UsableGoto DEF Both
<1>14. b.op \in {"jmp", "jz"} => SameValue(At(In32(b.at)), At(to))
  BY <1>10, <1>0 DEF Meet, Both
<1>15. Built /\ ExecAlike(g, b, In32(b.at)).pc # Junk
  BY <1>1, <1>11, <1>0 DEF Both
<1>16. Agree(ExecAlike(g, b, In32(b.at)), ExecAlike(h, Copy(b), to))
  BY <1>12, <1>13, <1>14, <1>15, AgreeCommon
<1>17. QED
  BY <1>1, <1>10, <1>11, <1>16 DEF Follows, Reaches, Reach1

(* A push of what is the same for both.                                    *)
LEMMA AgreePush ==
  ASSUME NEW p, NEW q, Alike(p, q), NEW v, NEW x, SameValue(v, x), NEW a, NEW c, SameValue(a, c)
  PROVE  Agree(Push(Goto(p, a), v), Goto(Push(q, x), c))
<1>1. Push(Goto(p, a), v) = Goto(Push(p, v), a)
  BY GotoKeeps DEF Alike
<1>2. PICK g, h : g = Push(p, v) /\ h = Push(q, x)
  OBVIOUS
<1>3. Alike(g, h)
  BY <1>2, AlikePush
<1>4. Agree(Goto(g, a), Goto(h, c))
  BY <1>3, AgreeGoto
<1>5. QED
  BY <1>1, <1>2, <1>4

LEMMA FollowsPush ==
  ASSUME NEW p, NEW q, NEW o, NEW b, NEW f, NEW list, Meet(p, q, o, b, f, list), b.op \in {"push", "pushi"}
  PROVE  Follows(Effect(p, o, b), q)
<1>0. Both(p, q, o, b, f, list)
  BY Meets
<1>1. PICK w, a, c : w = Effect(p, o, b) /\ a = At(In32(o + 1)) /\ c = At(In64(o + 1))
  OBVIOUS
<1>2. PICK e, v, x : /\ e = IF b.op = "push" THEN Store(b.reg) ELSE StoreImm(b.n)
                     /\ v = IF b.op = "push" THEN p.reg[b.reg] ELSE Num(b.n)
                     /\ x = IF b.op = "push" THEN q.reg[b.reg] ELSE Num(b.n)
  OBVIOUS
<1>3. list = <<PushAx, PushAx, e>>
  BY <1>2, <1>0 DEF Lists, PushR32, PushImm, Both
<1>4. Len(list) = 3 /\ DOMAIN list = 1..3 /\ list[1] = PushAx /\ list[2] = PushAx /\ list[3] = e
  BY <1>3
<1>5. b.op = "push" => b.reg \in General
  BY <1>0 DEF Usable, Both
<1>6. SameValue(v, x)
  BY <1>2, <1>5, <1>0, Values DEF Alike, SameValue, Both
<1>7. Stores(q, e, x)
  BY <1>2, <1>5 DEF Stores, General, Registers
<1>8. f \in Int /\ Machine(q) /\ Alike(p, q) /\ q.pc = At(f + 1 - 1)
  BY <1>0 DEF Both
<1>9. 1 \in DOMAIN list /\ 2 \in DOMAIN list /\ 3 \in DOMAIN list
  BY <1>4
<1>10. PICK l1, l2, l3 \in Nat \ {0} : l1 = 1 /\ l2 = 2 /\ l3 = 3
  OBVIOUS
<1>11. l2 = l1 + 1 /\ l3 = l1 + 2 /\ list[l1] = PushAx /\ list[l2] = PushAx /\ list[l3] = e
       /\ l1 \in DOMAIN list /\ l2 \in DOMAIN list /\ l3 \in DOMAIN list /\ q.pc = At(f + l1 - 1)
  BY <1>4, <1>8, <1>9, <1>10
<1>12. Reach3(q, Goto(Push(q, x), At(Place(new, f + l3))))
  BY <1>7, <1>8, <1>11, PushSteps
<1>13. At(Place(new, f + l3)) = c
  BY <1>1, <1>4, <1>10, <1>0 DEF Both
<1>14. w = Push(Goto(p, a), v)
  <2>1. Goto(p, a).reg = p.reg
    BY <1>0, GotoKeeps DEF Both
  <2>2. Does32(Goto(p, a), b, In32(b.at), w)
    BY <1>1, <1>0 DEF Both
  <2>3. QED
    BY <1>2, <2>1, <2>2 DEF Does32
<1>15. SameValue(a, c)
  BY <1>1, <1>0 DEF Both
<1>16. Agree(Push(Goto(p, a), v), Goto(Push(q, x), c))
  BY <1>6, <1>8, <1>15, AgreePush
<1>17. QED
  BY <1>1, <1>12, <1>13, <1>14, <1>16 DEF Follows, Reaches

LEMMA FollowsMova ==
  ASSUME NEW p, NEW q, NEW o, NEW b, NEW f, NEW list, Meet(p, q, o, b, f, list), b.op = "mova"
  PROVE  Follows(Effect(p, o, b), q)
<1>0. Both(p, q, o, b, f, list)
  BY Meets
<1>1. PICK w, a, c, e : /\ w = Effect(p, o, b) /\ a = At(In32(o + 1)) /\ c = At(In64(o + 1))
                        /\ e = LeaRip(b.reg, Disp(b))
  OBVIOUS
<1>2. list = <<e>>
  BY <1>1, <1>0 DEF Lists, Both
<1>3. Len(list) = 1 /\ list[1] = e
  BY <1>2
<1>4. e.op = "lea" /\ e.reg = b.reg /\ e.disp = Disp(b)
  BY <1>1, OpsAll DEF Ops
<1>5. StepAt(b, f, list, 1, e, q, Step64(q))
  BY <1>3, <1>4, Begins
<1>6. Place(new, f + 1) = In64(o + 1)
  BY <1>3, <1>0 DEF Both
<1>7. Place(new, Pointee(f + 1 - 1)) = In64(b.at)
  BY <1>4, <1>5 DEF StepAt, Meet
<1>8. Step64(q) = Set(Goto(q, c), b.reg, At(In64(b.at)))
  BY <1>1, <1>4, <1>5, <1>6, <1>7 DEF StepAt, Does64
<1>9. w = Set(Goto(p, a), b.reg, At(In32(b.at)))
  BY <1>1, <1>0 DEF Does32, Both
<1>10. Agree(Goto(p, a), Goto(q, c))
  BY <1>1, <1>0, AgreeGoto DEF Both
<1>11. b.reg \in General /\ SameValue(At(In32(b.at)), At(In64(b.at)))
  BY <1>0 DEF Usable, Meet, Both
<1>12. Agree(Set(Goto(p, a), b.reg, At(In32(b.at))), Set(Goto(q, c), b.reg, At(In64(b.at))))
  BY <1>10, <1>11, AgreeSet
<1>13. QED
  BY <1>1, <1>8, <1>9, <1>12 DEF Follows, Reaches, Reach1

LEMMA JoinedFour ==
  ASSUME NEW a, NEW b, NEW c, NEW d
  PROVE  /\ DOMAIN (<<a>> \o <<b, c, d>>) = 1..4 /\ Len(<<a>> \o <<b, c, d>>) = 4
         /\ (<<a>> \o <<b, c, d>>)[1] = a /\ (<<a>> \o <<b, c, d>>)[2] = b
         /\ (<<a>> \o <<b, c, d>>)[3] = c /\ (<<a>> \o <<b, c, d>>)[4] = d
OBVIOUS

LEMMA JoinedThree ==
  ASSUME NEW a, NEW b, NEW c
  PROVE  Three(<<a, b>> \o <<c>>, a, b, c)
BY DEF Three

(* An instruction that leaves a value in r11, for what follows it.         *)
LEMMA Keeping ==
  ASSUME NEW p, NEW q, Alike(p, q), NEW a, NEW x
  PROVE  LET m == Set(Goto(q, a), "r11", x) IN
           Alike(p, m) /\ Machine(m) /\ m.reg["r11"] = x /\ m.pc = a
<1>1. PICK g : g = Goto(q, a)
  OBVIOUS
<1>2. Alike(Goto(p, p.pc), g) /\ g.pc = a
  BY <1>1, AlikeGoto
<1>3. Goto(p, p.pc) = p
  <2>1. Machine(p) /\ Becomes(p, Goto(p, p.pc), p.pc, p.reg, p.stk)
    BY GotoIs DEF Alike
  <2>2. QED
    BY <2>1 DEF Becomes, Machine
<1>4. PICK m : m = Set(g, "r11", x)
  OBVIOUS
<1>5. Alike(p, g)
  BY <1>2, <1>3
<1>6. Alike(p, m) /\ m.reg["r11"] = x
  BY <1>4, <1>5, AlikeOwn
<1>7. m.pc = a
  <2>1. Machine(g) /\ "r11" \in Registers /\ "r11" # "esp"
    BY <1>5 DEF Alike, Registers
  <2>2. Set(g, "r11", x).pc = g.pc
    BY <2>1, PcKept
  <2>3. QED
    BY <1>2, <1>4, <2>2
<1>8. Machine(m)
  BY <1>6 DEF Alike
<1>9. QED
  BY <1>1, <1>4, <1>6, <1>7, <1>8

LEMMA FollowsPushm ==
  ASSUME NEW p, NEW q, NEW o, NEW b, NEW f, NEW list, Meet(p, q, o, b, f, list), b.op = "pushm"
  PROVE  Follows(Effect(p, o, b), q)
<1>0. Both(p, q, o, b, f, list)
  BY Meets
<1>1. PICK w, a, c : /\ w = Effect(p, o, b) /\ a = At(In32(o + 1)) /\ c = At(In64(o + 1))
  OBVIOUS
<1>2. PICK i, e : i = [Load("r11") EXCEPT !.base = b.base, !.n = b.n] /\ e = Store("r11")
  OBVIOUS
<1>3. list = <<i>> \o <<PushAx, PushAx, e>>
  BY <1>0, <1>2 DEF Both, Lists, PushR32
<1>4. /\ DOMAIN list = 1..4 /\ Len(list) = 4 /\ list[1] = i /\ list[2] = PushAx
      /\ list[3] = PushAx /\ list[4] = e
  BY <1>3, JoinedFour
<1>5. i.op = "load" /\ i.reg = "r11" /\ i.base = b.base /\ i.n = b.n
  BY <1>2 DEF Load, Op
<1>6. PICK m, t : m = Step64(q) /\ t = At(Place(new, f + 1))
  OBVIOUS
<1>7. StepAt(b, f, list, 1, i, q, m)
  BY <1>4, <1>5, <1>6, Begins
<1>8. PICK v, x : v = Read(p, p.reg[b.base], b.n) /\ x = Read(q, q.reg[b.base], b.n)
  OBVIOUS
<1>9. b.base \in General \cup {"esp"} /\ b.n \in Nat /\ InData(p.reg[b.base], b.n)
  BY <1>0 DEF Both, Usable
<1>10. SameValue(v, x)
  BY <1>0, <1>8, <1>9, AlikeRead DEF Both
<1>11. m = Set(Goto(q, t), "r11", x)
  <2>1. Goto(q, t).reg = q.reg /\ Read(Goto(q, t), q.reg[b.base], b.n) = x
    BY <1>0, <1>8, GotoKeeps DEF Both
  <2>2. m = Set(Goto(q, t), "r11", Read(Goto(q, t), Goto(q, t).reg[b.base], b.n))
    BY <1>5, <1>6, <1>7 DEF StepAt, Does64
  <2>3. QED
    BY <2>1, <2>2
<1>12. Alike(p, m) /\ Machine(m) /\ m.reg["r11"] = x /\ m.pc = t
  BY <1>0, <1>11, Keeping DEF Both
<1>13. PICK l1, l2, l3 \in Nat \ {0} : l1 = 2 /\ l2 = 3 /\ l3 = 4
  OBVIOUS
<1>14. l2 = l1 + 1 /\ l3 = l1 + 2 /\ list[l1] = PushAx /\ list[l2] = PushAx /\ list[l3] = e
       /\ l1 \in DOMAIN list /\ l2 \in DOMAIN list /\ l3 \in DOMAIN list
  BY <1>4, <1>13
<1>15. t = At(f + 1)
  <2>1. 1 + 1 \in DOMAIN list /\ list[1 + 1].op # "placeholder"
    BY <1>4, OpsAll DEF Ops
  <2>2. QED
    BY <1>6, <1>7, <2>1 DEF StepAt
<1>16. m.pc = At(f + l1 - 1) /\ f \in Int
  <2>1. f \in Int
    BY <1>0 DEF Both
  <2>2. f + l1 - 1 = f + 1
    BY <1>13, <2>1
  <2>3. QED
    BY <1>12, <1>15, <2>1, <2>2
<1>17. Stores(m, e, x)
  BY <1>2, <1>12 DEF Stores, Registers
<1>18. Reach3(m, Goto(Push(m, x), At(Place(new, f + l3))))
  BY <1>12, <1>14, <1>16, <1>17, PushSteps
<1>19. ~Waits64(m.pc)
  <2>1. StepAt(b, f, list, l1, PushAx, m, Step64(m)) /\ l1 # 1
    BY <1>13, <1>14, <1>16, OpsAll, StepIn DEF Ops
  <2>2. QED
    BY <1>16, <2>1, OpsAll DEF StepAt, IsData, Ops
<1>20. At(Place(new, f + l3)) = c
  BY <1>0, <1>1, <1>4, <1>13 DEF Both
<1>21. w = Push(Goto(p, a), v)
  <2>1. Goto(p, a).reg = p.reg /\ Read(Goto(p, a), p.reg[b.base], b.n) = v
    BY <1>0, <1>8, GotoKeeps DEF Both
  <2>2. Does32(Goto(p, a), b, In32(b.at), w)
    BY <1>0, <1>1 DEF Both
  <2>3. QED
    BY <2>1, <2>2 DEF Does32
<1>22. SameValue(a, c)
  BY <1>0, <1>1 DEF Both
<1>23. Agree(Push(Goto(p, a), v), Goto(Push(m, x), c))
  BY <1>10, <1>12, <1>22, AgreePush
<1>24. Reach4(q, Goto(Push(m, x), c))
  BY <1>6, <1>18, <1>19, <1>20 DEF Reach4
<1>25. QED
  BY <1>1, <1>21, <1>23, <1>24 DEF Follows, Reaches

(* A word of data of both programs.                                        *)
LEMMA ReadAt ==
  ASSUME Built, NEW p, NEW q, Alike(p, q), NEW o \in Data, NEW n \in Nat, o + n \in Data
  PROVE  /\ Read(p, At(o), n) = p.mem[o + n]
         /\ Read(q, At(In64(o)), n) = q.mem[FirstOf(o) + n]
         /\ SameValue(Read(p, At(o), n), Read(q, At(In64(o)), n))
         /\ FirstOf(o) + n \in DOMAIN q.mem /\ In64(o) = FirstOf(o)
         /\ new[FirstOf(o) + n].op = old.blobs[o + n].op
<1>1. In64(o) = FirstOf(o) /\ FirstOf(o + n) = FirstOf(o) + n
  BY DataRow
<1>2. new[FirstOf(o + n)].op = old.blobs[o + n].op
  <2>1. PICK c \in Data : c = o + n
    OBVIOUS
  <2>2. c + 0 = c
    BY <2>1, BuiltParts DEF Data
  <2>3. c + 0 \in Data /\ 0 \in Nat
    BY <2>2
  <2>4. new[FirstOf(c)].op = old.blobs[c].op
    BY <2>3, DataRow
  <2>5. QED
    BY <2>1, <2>4
<1>3. /\ DOMAIN p.mem = Data /\ FirstOf(o + n) \in DOMAIN q.mem
      /\ SameValue(p.mem[o + n], q.mem[FirstOf(o + n)])
  BY DEF Alike, SameMemory
<1>4. Read(p, At(o), n) = p.mem[o + n]
  BY <1>3 DEF Read, At
<1>5. Read(q, At(In64(o)), n) = q.mem[FirstOf(o) + n]
  BY <1>1, <1>3 DEF Read, At
<1>6. QED
  BY <1>1, <1>2, <1>3, <1>4, <1>5

LEMMA ReadLazy ==
  ASSUME Built, NEW p, NEW q, Alike(p, q), NEW o \in Data, NEW n \in Nat, o + n \in Data,
         old.blobs[o + n].op \in {"lazy", "nonlazy"}
  PROVE  SameValue(Read(p, At(o), n), ReadWide(q, At(In64(o)), n))
<1>1. /\ SameValue(Read(p, At(o), n), Read(q, At(In64(o)), n))
      /\ FirstOf(o) + n \in DOMAIN q.mem /\ In64(o) = FirstOf(o)
      /\ new[FirstOf(o) + n].op = old.blobs[o + n].op
  BY ReadAt
<1>2. ReadWide(q, At(In64(o)), n) = Read(q, At(In64(o)), n)
  BY <1>1 DEF ReadWide, At
<1>3. QED
  BY <1>1, <1>2

(* A register that points to eight bytes, of which the upper are zero.     *)
LEMMA ReadBoth ==
  ASSUME Built, NEW p, NEW q, Alike(p, q), NEW r \in General, NEW n \in Nat,
         InData(p.reg[r], n), p.reg[r][1] = "at",
         \/ old.blobs[p.reg[r][2] + n].op \in {"lazy", "nonlazy"}
         \/ Read(p, p.reg[r], n + 1) = Num(0)
  PROVE  SameValue(Read(p, p.reg[r], n), ReadWide(q, q.reg[r], n))
<1>1. PICK v, x, o : v = p.reg[r] /\ x = q.reg[r] /\ o = v[2]
  OBVIOUS
<1>2. SameValue(v, x)
  BY <1>1 DEF Alike
<1>3. v = At(o) /\ x = At(In64(o)) /\ o \in Data /\ o + n \in Data
  BY <1>1, <1>2 DEF SameValue, Value, Turned, InData
<1>4. CASE old.blobs[o + n].op \in {"lazy", "nonlazy"}
  BY <1>1, <1>3, <1>4, ReadLazy
<1>5. CASE Read(p, v, n + 1) = Num(0)
  <2>1. PICK k \in Nat : k = n + 1
    OBVIOUS
  <2>2. DOMAIN p.mem = Data
    BY DEF Alike, SameMemory
  <2>3. o + k \in Data
    BY <1>3, <1>5, <2>1, <2>2 DEF Read, At, Num, Junk
  <2>4. SameValue(Read(p, At(o), k), Read(q, At(In64(o)), k))
    BY <1>3, <2>3, ReadAt
  <2>5. Read(q, x, n + 1) = Num(0)
    BY <1>3, <1>5, <2>1, <2>4, Values DEF SameValue
  <2>6. ReadWide(q, x, n) = Read(q, x, n)
    BY <2>5 DEF ReadWide
  <2>7. SameValue(Read(p, At(o), n), Read(q, At(In64(o)), n))
    BY <1>3, ReadAt
  <2>8. QED
    BY <1>1, <1>3, <2>6, <2>7
<1>6. QED
  BY <1>1, <1>4, <1>5

LEMMA ReachOn ==
  ASSUME NEW m, NEW g, ~Waits64(g.pc)
  PROVE  /\ Reach1(m, g) => Reach2(m, Step64(g))
         /\ Reach2(m, g) => Reach3(m, Step64(g))
         /\ Reach3(m, g) => Reach4(m, Step64(g))
         /\ Reach4(m, g) => Reach5(m, Step64(g))
BY DEF Reach1, Reach2, Reach3, Reach4, Reach5

LEMMA FollowsJmpa ==
  ASSUME NEW p, NEW q, NEW o, NEW b, NEW f, NEW list, Meet(p, q, o, b, f, list), b.op = "jmpa"
  PROVE  Follows(Effect(p, o, b), q)
<1>0. Both(p, q, o, b, f, list)
  BY Meets
<1>1. PICK w, a, c, e : /\ w = Effect(p, o, b) /\ a = At(In32(o + 1)) /\ c = At(In64(o + 1))
                        /\ e = [Op("jmprip") EXCEPT !.disp = Disp(b)]
  OBVIOUS
<1>2. list = <<e>>
  BY <1>0, <1>1 DEF Both, Lists
<1>3. Len(list) = 1 /\ list[1] = e
  BY <1>2
<1>4. e.op = "jmprip" /\ e.disp = Disp(b)
  BY <1>1 DEF Op
<1>5. StepAt(b, f, list, 1, e, q, Step64(q))
  BY <1>3, <1>4, Begins
<1>6. Place(new, f + 1) = In64(o + 1)
  BY <1>0, <1>3 DEF Both
<1>7. b.at # 0
  BY DEF Meet
<1>8. Place(new, Pointee(f + 1 - 1)) = In64(b.at)
  BY <1>4, <1>5, <1>7 DEF StepAt
<1>9. PICK y : y = In32(b.at)
  OBVIOUS
<1>10. y \in Data /\ old.blobs[y].op \in {"lazy", "nonlazy"} /\ In64(y) = In64(b.at)
  <2>1. Built /\ o \in DOMAIN old.blobs /\ b = old.blobs[o]
    BY DEF Meet
  <2>2. b.at \in DOMAIN old.blobs
    BY <1>7, <2>1, BuiltParts, OldParts
  <2>3. y \in DOMAIN old.blobs
    BY <1>9, <2>1, <2>2, In32Is
  <2>4. AsCompiled(old.blobs, b)
    BY <2>1, BuiltParts, CompiledAssumption
  <2>5. old.blobs[y].op \in {"lazy", "nonlazy"}
    BY <1>9, <2>4 DEF AsCompiled, In32
  <2>6. In64(y) = In64(b.at)
    BY <1>9, <2>1, <2>2, Through
  <2>7. QED
    BY <2>3, <2>5, <2>6 DEF Data, IsData
<1>11. y + 0 = y
  <2>1. Built
    BY DEF Meet
  <2>2. QED
    BY <1>10, <2>1, BuiltParts DEF Data
<1>12. SameValue(Read(p, At(y), 0), ReadWide(q, At(In64(y)), 0))
  <2>1. Built /\ Alike(p, q) /\ 0 \in Nat /\ y + 0 \in Data /\ old.blobs[y + 0].op \in {"lazy", "nonlazy"}
    BY <1>0, <1>10, <1>11 DEF Both
  <2>2. QED
    BY <1>10, <2>1, ReadLazy
<1>13. PICK v, x : v = Read(p, At(y), 0) /\ x = ReadWide(q, At(In64(y)), 0)
  OBVIOUS
<1>14. Step64(q) = Goto(q, x)
  <2>1. Step64(q) = Goto(Goto(q, c), ReadWide(Goto(q, c), At(In64(b.at)), 0))
    BY <1>1, <1>4, <1>5, <1>6, <1>8 DEF StepAt, Does64
  <2>2. Machine(q)
    BY <1>0 DEF Both
  <2>3. QED
    BY <1>10, <1>13, <2>1, <2>2, GotoKeeps
<1>15. w = Goto(p, v)
  <2>1. w = Goto(Goto(p, a), Read(Goto(p, a), At(y), 0))
    BY <1>0, <1>1, <1>9 DEF Both, Does32
  <2>2. Machine(p)
    BY <1>0 DEF Both
  <2>3. QED
    BY <1>13, <2>1, <2>2, GotoKeeps
<1>16. Agree(Goto(p, v), Goto(q, x))
  BY <1>0, <1>12, <1>13, AgreeGoto DEF Both
<1>17. QED
  BY <1>1, <1>14, <1>15, <1>16 DEF Follows, Reaches, Reach1

(* A jump through a register is copied, and reads eight bytes.             *)
LEMMA FollowsJmpm ==
  ASSUME NEW p, NEW q, NEW o, NEW b, NEW f, NEW list, Meet(p, q, o, b, f, list), b.op = "jmpm",
         Effect(p, o, b).pc # Junk
  PROVE  Follows(Effect(p, o, b), q)
<1>0. Both(p, q, o, b, f, list)
  BY Meets
<1>1. PICK w, a, c, e : /\ w = Effect(p, o, b) /\ a = At(In32(o + 1)) /\ c = At(In64(o + 1))
                        /\ e = Copy(b)
  OBVIOUS
<1>2. b.op \notin Replaced /\ b.op # "helper"
  BY DEF Replaced
<1>3. list = <<e>>
  BY <1>0, <1>1, <1>2 DEF Both, Lists
<1>4. Len(list) = 1 /\ list[1] = e
  BY <1>3
<1>5. e.op = "jmpm" /\ e.base = b.base /\ e.n = b.n /\ e.disp = Disp(b)
  BY <1>1 DEF Copy
<1>6. StepAt(b, f, list, 1, e, q, Step64(q))
  BY <1>4, <1>5, Begins
<1>7. Place(new, f + 1) = In64(o + 1)
  BY <1>0, <1>4 DEF Both
<1>8. PICK r, n : r = b.base /\ n = b.n
  OBVIOUS
<1>9. PICK v, x : v = Read(p, p.reg[r], n) /\ x = ReadWide(q, q.reg[r], n)
  OBVIOUS
<1>10. Machine(p) /\ Machine(q) /\ Alike(p, q) /\ Built /\ Usable(p, b)
  BY <1>0 DEF Both
<1>11. w = Goto(p, v)
  <2>1. w = Goto(Goto(p, a), Read(Goto(p, a), Goto(p, a).reg[r], n))
    BY <1>0, <1>1, <1>8 DEF Both, Does32
  <2>2. QED
    BY <1>9, <1>10, <2>1, GotoKeeps
<1>12. Step64(q) = Goto(q, x)
  <2>1. Step64(q) = Goto(Goto(q, c), ReadWide(Goto(q, c), Goto(q, c).reg[r], n))
    BY <1>1, <1>5, <1>6, <1>7, <1>8 DEF StepAt, Does64
  <2>2. QED
    BY <1>9, <1>10, <2>1, GotoKeeps
<1>13. SameValue(v, x)
  <2>1. r \in General /\ n \in Nat /\ InData(p.reg[r], n)
    BY <1>8, <1>10 DEF Usable
  <2>2. p.reg[r][1] # "sp"
    BY <1>10, <2>1 DEF Alike, SameValue, Value
  <2>3. v # Junk
    <3>1. w.pc = v
      BY <1>10, <1>11, GotoKeeps
    <3>2. QED
      BY <1>1, <3>1
  <2>4. p.reg[r][1] = "at"
    BY <1>9, <2>2, <2>3 DEF Read
  <2>5. \/ old.blobs[p.reg[r][2] + n].op \in {"lazy", "nonlazy"}
        \/ Read(p, p.reg[r], n + 1) = Num(0)
    BY <1>8, <1>10, <2>4 DEF Usable
  <2>6. SameValue(Read(p, p.reg[r], n), ReadWide(q, q.reg[r], n))
    BY <1>10, <2>1, <2>4, <2>5, ReadBoth
  <2>7. QED
    BY <1>9, <2>6
<1>14. Agree(Goto(p, v), Goto(q, x))
  BY <1>0, <1>13, AgreeGoto DEF Both
<1>15. QED
  BY <1>1, <1>11, <1>12, <1>14 DEF Follows, Reaches, Reach1

(* A call: the return address is pushed, and the jump is to be made.       *)
Called(p, q, o, b, f, j) ==
  \E g : /\ Reach4(q, g) /\ ~Waits64(g.pc) /\ Machine(g)
         /\ Alike(Push(Goto(p, At(In32(o + 1))), At(In32(o + 1))), g)
         /\ StepAt(b, f, Transformed(b), 5, j, g, Step64(g))

LEMMA CallSteps ==
  ASSUME NEW p, NEW q, NEW o, NEW b, NEW f, NEW list, Meet(p, q, o, b, f, list),
         NEW j, list = CallOp(j), j.op \in {"jmp", "jmpr"}
  PROVE  Called(p, q, o, b, f, j)
<1>0. Both(p, q, o, b, f, list)
  BY Meets
<1>1. PICK a, c, i, e : /\ a = At(In32(o + 1)) /\ c = At(In64(o + 1))
                        /\ i = LeaRip("r11", Ahead(5)) /\ e = Store("r11")
  OBVIOUS
<1>2. PICK last : last = Op("placeholder")
  OBVIOUS
<1>3. list = <<i>> \o <<PushAx, PushAx, e>> \o <<j, last>>
  BY <1>1, <1>2 DEF CallOp, PushR32
<1>4. Six(list, i, PushAx, PushAx, e, j, last)
  BY <1>3, JoinedSix
<1>5. /\ DOMAIN list = 1..6 /\ Len(list) = 6 /\ list[1] = i /\ list[2] = PushAx
      /\ list[3] = PushAx /\ list[4] = e /\ list[5] = j /\ list[6] = last
  BY <1>4 DEF Six
<1>6. i.op = "lea" /\ i.reg = "r11" /\ i.disp = Ahead(5) /\ last.op = "placeholder"
      /\ PushAx.op = "push16"
  BY <1>1, <1>2, OpsAll DEF Ops
<1>7. PICK m, t : m = Step64(q) /\ t = At(Place(new, f + 1))
  OBVIOUS
<1>8. StepAt(b, f, list, 1, i, q, m)
  BY <1>5, <1>6, <1>7, Begins
<1>9. f \in Int
  BY <1>0 DEF Both
<1>10. At(Place(new, Pointee(f + 1 - 1))) = c
  <2>1. Place(new, Pointee(f + 1 - 1)) = Place(new, f + 1 - 1 + 5)
    BY <1>6, <1>8 DEF StepAt
  <2>2. f + 1 - 1 + 5 = f + Len(list) - 1
    BY <1>5, <1>9
  <2>3. list[Len(list)].op = "placeholder"
    BY <1>5, <1>6
  <2>4. QED
    BY <1>0, <1>1, <2>1, <2>2, <2>3 DEF Both
<1>11. m = Set(Goto(q, t), "r11", c)
  BY <1>6, <1>7, <1>8, <1>10 DEF StepAt, Does64
<1>12. Alike(p, m) /\ Machine(m) /\ m.reg["r11"] = c /\ m.pc = t
  BY <1>0, <1>11, Keeping DEF Both
<1>13. PICK l1, l2, l3, l4 \in Nat \ {0} : l1 = 2 /\ l2 = 3 /\ l3 = 4 /\ l4 = 5
  OBVIOUS
<1>14. /\ l2 = l1 + 1 /\ l3 = l1 + 2 /\ l4 = l3 + 1
       /\ list[l1] = PushAx /\ list[l2] = PushAx /\ list[l3] = e /\ list[l4] = j
       /\ l1 \in DOMAIN list /\ l2 \in DOMAIN list /\ l3 \in DOMAIN list /\ l4 \in DOMAIN list
  BY <1>5, <1>13
<1>15. t = At(f + 1)
  <2>1. 1 + 1 \in DOMAIN list /\ list[1 + 1].op # "placeholder"
    BY <1>5, <1>6
  <2>2. QED
    BY <1>7, <1>8, <2>1 DEF StepAt
<1>16. m.pc = At(f + l1 - 1)
  <2>1. f + l1 - 1 = f + 1
    BY <1>9, <1>13
  <2>2. QED
    BY <1>12, <1>15, <2>1
<1>17. Stores(m, e, c)
  BY <1>1, <1>12 DEF Stores, Registers
<1>18. PICK g : g = Goto(Push(m, c), At(Place(new, f + l3)))
  OBVIOUS
<1>19. Reach3(m, g)
  BY <1>9, <1>12, <1>14, <1>16, <1>17, <1>18, PushSteps
<1>20. ~Waits64(m.pc)
  <2>1. StepAt(b, f, list, l1, PushAx, m, Step64(m)) /\ l1 # 1
    BY <1>6, <1>13, <1>14, <1>16, StepIn
  <2>2. QED
    BY <1>6, <1>16, <2>1 DEF StepAt, IsData
<1>21. Reach4(q, g)
  BY <1>7, <1>19, <1>20 DEF Reach4
<1>22. SameValue(a, c)
  BY <1>0, <1>1 DEF Both
<1>23. PICK h : h = Push(Goto(p, a), a)
  OBVIOUS
<1>24. Agree(h, Goto(Push(m, c), c))
  BY <1>12, <1>22, <1>23, AgreePush
<1>25. Alike(h, g) /\ Machine(g) /\ g.pc = At(Place(new, f + l3))
  <2>1. PICK u, r : u = Push(m, c) /\ r = Push(p, a)
    OBVIOUS
  <2>2. Alike(r, u)
    BY <1>12, <1>22, <2>1, AlikePush
  <2>3. h = Goto(r, a)
    BY <1>0, <1>23, <2>1, GotoKeeps DEF Both
  <2>4. Alike(Goto(r, a), Goto(u, At(Place(new, f + l3))))
        /\ Goto(u, At(Place(new, f + l3))).pc = At(Place(new, f + l3))
    BY <2>2, AlikeGoto
  <2>5. Alike(h, g) /\ g.pc = At(Place(new, f + l3))
    BY <1>18, <2>1, <2>3, <2>4
  <2>6. QED
    BY <2>5 DEF Alike
<1>26. Place(new, f + l3) = f + l4 - 1
  <2>1. PICK v : v = Goto(Push(m, c), At(f + l3 - 1))
    OBVIOUS
  <2>2. v.pc = At(f + l3 - 1)
    <3>1. Machine(Push(m, c))
      BY <1>12, PushIs
    <3>2. QED
      BY <2>1, <3>1, GotoKeeps
  <2>3. list[l3].op # "helper"
    BY <1>1, <1>14, OpsAll DEF Ops
  <2>4. StepAt(b, f, list, l3, list[l3], v, Step64(v))
    BY <1>14, <2>2, <2>3, StepIn
  <2>5. l3 + 1 \in DOMAIN list /\ list[l3 + 1].op # "placeholder"
    <3>1. l3 + 1 = l4
      BY <1>14
    <3>2. QED
      BY <1>14, <3>1
  <2>6. Place(new, f + l3) = f + l3
    BY <2>4, <2>5 DEF StepAt
  <2>7. f + l3 = f + l4 - 1
    BY <1>9, <1>13
  <2>8. QED
    BY <2>6, <2>7
<1>27. StepAt(b, f, list, l4, j, g, Step64(g))
  <2>1. g.pc = At(f + l4 - 1) /\ j.op # "helper"
    BY <1>25, <1>26
  <2>2. QED
    BY <1>14, <2>1, StepIn
<1>28. ~Waits64(g.pc)
  <2>1. l4 # 1 /\ ~IsData(j)
    BY <1>13 DEF IsData
  <2>2. ~Waits64(At(f + l4 - 1))
    BY <1>27, <2>1 DEF StepAt
  <2>3. QED
    BY <1>25, <1>26, <2>2
<1>29. list = Transformed(b) /\ l4 = 5
  BY <1>13 DEF Meet
<1>30. QED
  BY <1>1, <1>21, <1>23, <1>25, <1>27, <1>28, <1>29 DEF Called

(* The registers after a call are those before.                            *)
LEMMA PushKeeps ==
  ASSUME NEW m, Machine(m), NEW a, NEW v, NEW r \in General
  PROVE  /\ Push(Goto(m, a), v).reg[r] = m.reg[r] /\ Push(Goto(m, a), v).mem = m.mem
         /\ Goto(m, a).pc = a /\ Goto(m, a).reg = m.reg /\ Machine(Goto(m, a))
<1>1. PICK g, u : g = Goto(m, a) /\ u = Push(g, v)
  OBVIOUS
<1>2. Machine(g) /\ g.reg = m.reg /\ g.mem = m.mem /\ g.pc = a
  BY <1>1, GotoIs, GotoKeeps
<1>3. Becomes(g, u, g.pc, Down(g, 2), PutWord(g.stk, Sp(g) - 2, v))
  BY <1>1, <1>2, PushIs
<1>4. u.reg = Down(g, 2) /\ u.mem = g.mem
  BY <1>3 DEF Becomes
<1>5. Down(g, 2)[r] = g.reg[r]
  <2>1. g.reg = [y \in Registers |-> g.reg[y]] /\ r \in Registers /\ r # "esp"
    BY <1>2 DEF Machine, General, Registers
  <2>2. QED
    BY <2>1 DEF Down, Over
<1>6. QED
  BY <1>1, <1>2, <1>4, <1>5

LEMMA FollowsCall ==
  ASSUME NEW p, NEW q, NEW o, NEW b, NEW f, NEW list, Meet(p, q, o, b, f, list),
         b.op \in {"call", "callr"}, Effect(p, o, b).pc # Junk
  PROVE  Follows(Effect(p, o, b), q)
<1>0. Both(p, q, o, b, f, list)
  BY Meets
<1>1. PICK j : j = IF b.op = "call" THEN Jmp(Disp(b))
                   ELSE [Op("jmpr") EXCEPT !.reg = b.reg]
  OBVIOUS
<1>2. list = CallOp(j)
  BY <1>0, <1>1 DEF Both, Lists
<1>3. /\ b.op = "call" => j.op = "jmp" /\ j.disp = Disp(b)
      /\ b.op = "callr" => j.op = "jmpr" /\ j.reg = b.reg
  BY <1>1, OpsAll DEF Ops, Op
<1>4. Called(p, q, o, b, f, j)
  BY <1>2, <1>3, CallSteps
<1>5. PICK a, h, w : /\ a = At(In32(o + 1)) /\ h = Push(Goto(p, a), a)
                     /\ w = Effect(p, o, b)
  OBVIOUS
<1>6. PICK g : /\ Reach4(q, g) /\ ~Waits64(g.pc) /\ Machine(g) /\ Alike(h, g)
               /\ StepAt(b, f, Transformed(b), 5, j, g, Step64(g))
  BY <1>4, <1>5 DEF Called
<1>7. Reach5(q, Step64(g))
  BY <1>6, ReachOn
<1>8. PICK t, to : t = At(Place(new, f + 5)) /\ to = Place(new, Pointee(f + 5 - 1))
  OBVIOUS
<1>9. Does64(Goto(g, t), j, to, Step64(g)) /\ (j.disp = Disp(b) /\ b.at # 0 => to = In64(b.at))
  BY <1>6, <1>8 DEF StepAt
<1>10. Does32(Goto(p, a), b, In32(b.at), w) /\ Built /\ Machine(p) /\ Alike(p, q) /\ Usable(p, b)
  BY <1>0, <1>5 DEF Both
<1>11. /\ Goto(p, a).pc = a /\ Goto(p, a).reg = p.reg
       /\ \A v, n : Read(Goto(p, a), v, n) = Read(p, v, n)
  BY <1>10, GotoKeeps
<1>12. \A r \in General : h.reg[r] = p.reg[r] /\ h.mem = p.mem
  BY <1>5, <1>10, PushKeeps
<1>13. \E v, x : w = Goto(h, v) /\ Step64(g) = Goto(Goto(g, t), x) /\ SameValue(v, x)
  <2>1. CASE b.op = "call"
    <3>1. w = Goto(h, At(In32(b.at)))
      BY <1>5, <1>10, <1>11, <2>1 DEF Does32
    <3>2. Step64(g) = Goto(Goto(g, t), At(to))
      BY <1>3, <1>9, <2>1 DEF Does64
    <3>3. b.at # 0
      BY <2>1 DEF Meet
    <3>4. SameValue(At(In32(b.at)), At(to))
      BY <1>0, <1>3, <1>9, <2>1, <3>3 DEF Both
    <3>5. QED
      BY <3>1, <3>2, <3>4
  <2>2. CASE b.op = "callr"
    <3>1. b.reg \in General
      BY <1>10, <2>2 DEF Usable
    <3>2. w = Goto(h, p.reg[b.reg])
      BY <1>5, <1>10, <1>11, <2>2 DEF Does32
    <3>3. Goto(g, t).reg = g.reg
      BY <1>6, GotoKeeps
    <3>4. Step64(g) = Goto(Goto(g, t), g.reg[b.reg])
      BY <1>3, <1>9, <2>2, <3>3 DEF Does64
    <3>5. SameValue(h.reg[b.reg], g.reg[b.reg])
      BY <1>6, <3>1 DEF Alike
    <3>6. QED
      BY <1>12, <3>1, <3>2, <3>4, <3>5
  <2>3. QED
    BY <2>1, <2>2
<1>14. PICK v, x : w = Goto(h, v) /\ Step64(g) = Goto(Goto(g, t), x) /\ SameValue(v, x)
  BY <1>13
<1>15. Goto(Goto(g, t), x) = Goto(g, x)
  BY <1>6, GotoKeeps
<1>16. Agree(Goto(h, v), Goto(g, x))
  BY <1>6, <1>14, AgreeGoto
<1>17. QED
  BY <1>5, <1>7, <1>14, <1>15, <1>16 DEF Follows, Reaches

LEMMA PopIs ==
  ASSUME NEW m, Machine(m), NEW r \in General, NEW a, NEW v
  PROVE  Set(Move(Goto(m, a), 2), r, v) = Move(Goto(Set(Goto(m, a), r, v), a), 2)
<1>1. PICK g, k : g = Goto(m, a) /\ k = Move(g, 2)
  OBVIOUS
<1>2. PICK h, i : h = Set(g, r, v) /\ i = Goto(h, a)
  OBVIOUS
<1>3. r \in Registers /\ r # "esp" /\ "esp" \in Registers
  BY DEF General, Registers
<1>4. Machine(g) /\ g.pc = a
  BY <1>1, GotoIs, GotoKeeps
<1>5. g.reg = [x \in Registers |-> g.reg[x]]
  BY <1>4 DEF Machine
<1>6. Machine(k) /\ Becomes(g, k, a, Down(g, -2), g.stk) /\ Sp(k) = Sp(g) + 2
  BY <1>1, <1>4, MoveIs
<1>7. Becomes(k, Set(k, r, v), k.pc, Over(k, r, v), k.stk)
  BY <1>3, <1>6, SetIs
<1>8. Machine(h) /\ Becomes(g, h, a, Over(g, r, v), g.stk) /\ Sp(h) = Sp(g)
  BY <1>2, <1>3, <1>4, SetIs
<1>9. Machine(i) /\ Becomes(h, i, a, h.reg, h.stk) /\ Sp(i) = Sp(h)
  BY <1>2, <1>8, GotoIs
<1>10. Becomes(i, Move(i, 2), i.pc, Down(i, -2), i.stk)
  BY <1>9, MoveIs
<1>11. /\ k.pc = a /\ k.zf = g.zf /\ k.reg = Down(g, -2) /\ k.stk = g.stk /\ k.mem = g.mem
       /\ i.pc = a /\ i.zf = g.zf /\ i.reg = Over(g, r, v) /\ i.stk = g.stk /\ i.mem = g.mem
  BY <1>6, <1>8, <1>9 DEF Becomes
<1>12. Over(k, r, v) = Down(i, -2)
  <2>1. Sp(i) = Sp(g)
    BY <1>8, <1>9
  <2>2. PICK e : e = <<"sp", Sp(g) - (-2)>>
    OBVIOUS
  <2>3. Over(k, r, v) = [[g.reg EXCEPT !["esp"] = e] EXCEPT ![r] = v]
    BY <1>11, <2>2 DEF Over, Down
  <2>4. Down(i, -2) = [[g.reg EXCEPT ![r] = v] EXCEPT !["esp"] = e]
    BY <1>11, <2>1, <2>2 DEF Over, Down
  <2>5. QED
    BY <1>3, <1>5, <2>3, <2>4
<1>13. Set(k, r, v) = Move(i, 2)
  BY <1>7, <1>10, <1>11, <1>12 DEF Becomes
<1>14. QED
  BY <1>1, <1>2, <1>13

(* What is on top of both stacks.                                          *)
LEMMA TopIs ==
  ASSUME Built, NEW p, NEW q, Alike(p, q)
  PROVE  SameValue(WordAt(p, Sp(p)), Read(q, q.reg["esp"], 0))
<1>1. p.reg["esp"] = <<"sp", Sp(p)>> /\ Sp(p) \in Int
  BY SpRegister
<1>2. "esp" \in General \cup {"esp"} /\ 0 \in Nat /\ InData(p.reg["esp"], 0)
  BY <1>1 DEF InData
<1>3. SameValue(Read(p, p.reg["esp"], 0), Read(q, q.reg["esp"], 0))
  BY <1>2, AlikeRead
<1>4. Read(p, p.reg["esp"], 0) = WordAt(p, Sp(p))
  <2>1. PICK e, k : e = p.reg["esp"] /\ k = Sp(p)
    OBVIOUS
  <2>2. e[1] = "sp" /\ e[2] + 2 * 0 = k
    BY <1>1, <2>1
  <2>3. Read(p, e, 0) = WordAt(p, k)
    BY <2>2 DEF Read
  <2>4. QED
    BY <2>1, <2>3
<1>5. QED
  BY <1>3, <1>4

(* A load from the top of the stack, and a step over it.                   *)
Popped(p, q, o, b, f, list, r, i, m) ==
  /\ m = Set(Goto(q, At(f + 1)), r, Read(q, q.reg["esp"], 0)) /\ m = Step64(q)
  /\ Step64(m) = Move(Goto(m, At(Place(new, f + 2))), 2)
  /\ m.pc = At(f + 1) /\ ~Waits64(m.pc) /\ Machine(m)
  /\ 3 \in DOMAIN list /\ list[3].op # "placeholder" => Place(new, f + 2) = f + 2

LEMMA PopSteps ==
  ASSUME NEW p, NEW q, NEW o, NEW b, NEW f, NEW list, Meet(p, q, o, b, f, list),
         1 \in DOMAIN list, 2 \in DOMAIN list, NEW r \in Registers, r # "esp",
         NEW i, i = list[1], list[1] = Load(r), list[2] = LeaSp
  PROVE  Popped(p, q, o, b, f, list, r, i, Step64(q))
<1>0. Both(p, q, o, b, f, list)
  BY Meets
<1>1. PICK m, t, x : /\ m = Step64(q) /\ t = At(Place(new, f + 1))
                     /\ x = Read(q, q.reg["esp"], 0)
  OBVIOUS
<1>2. i.op = "load" /\ i.reg = r /\ i.base = "esp" /\ i.n = 0 /\ LeaSp.op = "leasp"
  BY OpsAll DEF Ops
<1>3. StepAt(b, f, list, 1, i, q, m)
  BY <1>1, <1>2, Begins
<1>4. t = At(f + 1)
  <2>1. 1 + 1 \in DOMAIN list /\ list[1 + 1].op # "placeholder"
    BY <1>2
  <2>2. QED
    BY <1>1, <1>3, <2>1 DEF StepAt
<1>5. Machine(q) /\ f \in Int
  BY <1>0 DEF Both
<1>6. m = Set(Goto(q, t), r, x)
  <2>1. Goto(q, t).reg = q.reg /\ Read(Goto(q, t), q.reg["esp"], 0) = x
    BY <1>1, <1>5, GotoKeeps
  <2>2. m = Set(Goto(q, t), r, Read(Goto(q, t), Goto(q, t).reg["esp"], 0))
    BY <1>1, <1>2, <1>3 DEF StepAt, Does64
  <2>3. QED
    BY <2>1, <2>2
<1>7. m.pc = t /\ Machine(m)
  <2>1. Machine(Goto(q, t)) /\ Goto(q, t).pc = t
    BY <1>5, GotoIs, GotoKeeps
  <2>2. QED
    BY <1>6, <2>1, PcKept, SetIs
<1>8. PICK y \in Nat \ {0} : y = 2
  OBVIOUS
<1>9. y \in DOMAIN list /\ list[y] = LeaSp /\ list[y].op # "helper"
  BY <1>2, <1>8
<1>10. m.pc = At(f + y - 1)
  <2>1. f + y - 1 = f + 1
    BY <1>5, <1>8
  <2>2. QED
    BY <1>4, <1>7, <2>1
<1>11. StepAt(b, f, list, y, LeaSp, m, Step64(m))
  BY <1>9, <1>10, StepIn
<1>12. Step64(m) = Move(Goto(m, At(Place(new, f + y))), 2)
  BY <1>2, <1>11 DEF StepAt, Does64
<1>13. ~Waits64(m.pc)
  BY <1>2, <1>8, <1>10, <1>11 DEF StepAt, IsData
<1>14. 3 \in DOMAIN list /\ list[3].op # "placeholder" => Place(new, f + 2) = f + 2
  <2>1. y + 1 = 3
    BY <1>8
  <2>2. y + 1 \in DOMAIN list /\ list[y + 1].op # "placeholder" => Place(new, f + y) = f + y
    BY <1>11 DEF StepAt
  <2>3. QED
    BY <1>8, <2>1, <2>2
<1>15. QED
  BY <1>1, <1>4, <1>6, <1>7, <1>8, <1>12, <1>13, <1>14 DEF Popped

LEMMA FollowsPop ==
  ASSUME NEW p, NEW q, NEW o, NEW b, NEW f, NEW list, Meet(p, q, o, b, f, list), b.op = "pop"
  PROVE  Follows(Effect(p, o, b), q)
<1>0. Both(p, q, o, b, f, list)
  BY Meets
<1>1. PICK w, a, c, r : /\ w = Effect(p, o, b) /\ a = At(In32(o + 1)) /\ c = At(In64(o + 1))
                        /\ r = b.reg
  OBVIOUS
<1>2. r \in General /\ Machine(p) /\ Alike(p, q) /\ Built
  BY <1>0, <1>1 DEF Both, Usable
<1>3. list = <<Load(r), LeaSp>>
  BY <1>0, <1>1 DEF Both, Lists, PopR32
<1>4. Len(list) = 2 /\ DOMAIN list = 1..2 /\ list[1] = Load(r) /\ list[2] = LeaSp
  BY <1>3
<1>5. 1 \in DOMAIN list /\ 2 \in DOMAIN list
  BY <1>4
<1>6. PICK m : m = Step64(q)
  OBVIOUS
<1>7. Popped(p, q, o, b, f, list, r, list[1], m)
  <2>1. r \in Registers /\ r # "esp"
    BY <1>2 DEF General, Registers
  <2>2. QED
    BY <1>4, <1>5, <1>6, <2>1, PopSteps
<1>8. PICK v, x : v = WordAt(p, Sp(p)) /\ x = Read(q, q.reg["esp"], 0)
  OBVIOUS
<1>9. SameValue(v, x)
  BY <1>2, <1>8, TopIs
<1>10. PICK h : h = Set(Goto(p, a), r, v)
  OBVIOUS
<1>11. Alike(h, m)
  <2>1. Alike(Goto(p, a), Goto(q, At(f + 1)))
    BY <1>2, AlikeGoto
  <2>2. m = Set(Goto(q, At(f + 1)), r, x)
    BY <1>7, <1>8 DEF Popped
  <2>3. QED
    BY <1>2, <1>9, <1>10, <2>1, <2>2, AlikeSet
<1>12. Step64(m) = Move(Goto(m, c), 2)
  <2>1. Place(new, f + 2) = In64(o + 1)
    BY <1>0, <1>4 DEF Both
  <2>2. QED
    BY <1>1, <1>7, <2>1 DEF Popped
<1>13. w = Move(Goto(h, a), 2)
  <2>1. Does32(Goto(p, a), b, In32(b.at), w)
    BY <1>0, <1>1 DEF Both
  <2>2. Sp(Goto(p, a)) = Sp(p) /\ WordAt(Goto(p, a), Sp(p)) = v
    BY <1>2, <1>8, GotoIs, GotoKeeps
  <2>3. w = Set(Move(Goto(p, a), 2), r, v)
    BY <1>1, <2>1, <2>2 DEF Does32
  <2>4. QED
    BY <1>2, <1>10, <2>3, PopIs
<1>14. SameValue(a, c)
  BY <1>0, <1>1 DEF Both
<1>15. Agree(Goto(h, a), Goto(m, c))
  BY <1>11, <1>14, AgreeGoto
<1>16. Agree(Move(Goto(h, a), 2), Move(Goto(m, c), 2))
  BY <1>15, AgreeMove, 2 \in Nat
<1>17. Reach2(q, Step64(m))
  BY <1>6, <1>7 DEF Reach1, Reach2, Popped
<1>18. QED
  BY <1>1, <1>12, <1>13, <1>16, <1>17 DEF Follows, Reaches

LEMMA FollowsRet ==
  ASSUME NEW p, NEW q, NEW o, NEW b, NEW f, NEW list, Meet(p, q, o, b, f, list), b.op = "ret"
  PROVE  Follows(Effect(p, o, b), q)
<1>0. Both(p, q, o, b, f, list)
  BY Meets
<1>1. PICK w, a, j : /\ w = Effect(p, o, b) /\ a = At(In32(o + 1))
                     /\ j = [Op("jmpr") EXCEPT !.reg = "r11"]
  OBVIOUS
<1>2. Machine(p) /\ Alike(p, q) /\ Built /\ f \in Int
  BY <1>0 DEF Both
<1>3. list = <<Load("r11"), LeaSp>> \o <<j>>
  BY <1>0, <1>1 DEF Both, Lists, PopR32
<1>4. Len(list) = 3 /\ DOMAIN list = 1..3 /\ list[1] = Load("r11") /\ list[2] = LeaSp /\ list[3] = j
  BY <1>3, JoinedThree DEF Three
<1>5. 1 \in DOMAIN list /\ 2 \in DOMAIN list /\ 3 \in DOMAIN list
  BY <1>4
<1>6. j.op = "jmpr" /\ j.reg = "r11"
  BY <1>1 DEF Op
<1>7. PICK m : m = Step64(q)
  OBVIOUS
<1>8. Popped(p, q, o, b, f, list, "r11", list[1], m)
  <2>1. "r11" \in Registers /\ "r11" # "esp"
    BY DEF Registers
  <2>2. QED
    BY <1>4, <1>5, <1>7, <2>1, PopSteps
<1>9. PICK v, x : v = WordAt(p, Sp(p)) /\ x = Read(q, q.reg["esp"], 0)
  OBVIOUS
<1>10. SameValue(v, x)
  BY <1>2, <1>9, TopIs
<1>11. Alike(p, m) /\ Machine(m) /\ m.reg["r11"] = x
  <2>1. m = Set(Goto(q, At(f + 1)), "r11", x)
    BY <1>8, <1>9 DEF Popped
  <2>2. QED
    BY <1>2, <2>1, Keeping
<1>12. PICK t, g : t = At(f + 2) /\ g = Step64(m)
  OBVIOUS
<1>13. g = Move(Goto(m, t), 2)
  <2>1. Place(new, f + 2) = f + 2
    BY <1>4, <1>5, <1>6, <1>8 DEF Popped
  <2>2. QED
    BY <1>8, <1>12, <2>1 DEF Popped
<1>14. Alike(Move(Goto(p, a), 2), g)
  <2>1. Alike(Goto(p, a), Goto(m, t))
    BY <1>11, AlikeGoto
  <2>2. QED
    BY <1>13, <2>1, AlikeMove, 2 \in Nat
<1>15. g.pc = t /\ g.reg["r11"] = x /\ Machine(g)
  <2>1. PICK u : u = Goto(m, t)
    OBVIOUS
  <2>2. Machine(u) /\ u.pc = t /\ u.reg = m.reg
    BY <1>11, <2>1, GotoIs, GotoKeeps
  <2>3. Machine(g) /\ Becomes(u, g, u.pc, Down(u, -2), u.stk)
    BY <1>13, <2>1, <2>2, MoveIs, 2 \in Int
  <2>4. g.pc = t /\ g.reg = Down(u, -2)
    BY <2>2, <2>3 DEF Becomes
  <2>5. u.reg = [y \in Registers |-> u.reg[y]] /\ "r11" \in Registers /\ "r11" # "esp"
    BY <2>2 DEF Machine, Registers
  <2>6. Down(u, -2)["r11"] = u.reg["r11"]
    BY <2>5 DEF Down, Over
  <2>7. QED
    BY <1>11, <2>2, <2>3, <2>4, <2>6
<1>16. PICK y \in Nat \ {0} : y = 3
  OBVIOUS
<1>17. y \in DOMAIN list /\ list[y] = j /\ j.op # "helper" /\ g.pc = At(f + y - 1)
  <2>1. f + y - 1 = f + 2
    BY <1>2, <1>16
  <2>2. QED
    BY <1>4, <1>5, <1>6, <1>12, <1>15, <1>16, <2>1
<1>18. StepAt(b, f, list, y, j, g, Step64(g))
  BY <1>17, StepIn
<1>19. ~Waits64(g.pc)
  BY <1>6, <1>16, <1>17, <1>18 DEF StepAt, IsData
<1>20. Step64(g) = Goto(g, x)
  <2>1. PICK d : d = At(Place(new, f + y))
    OBVIOUS
  <2>2. Step64(g) = Goto(Goto(g, d), Goto(g, d).reg["r11"])
    BY <1>6, <1>18, <2>1 DEF StepAt, Does64
  <2>3. QED
    BY <1>15, <2>2, GotoKeeps
<1>21. w = Goto(Move(Goto(p, a), 2), v)
  <2>1. Does32(Goto(p, a), b, In32(b.at), w)
    BY <1>0, <1>1 DEF Both
  <2>2. Sp(Goto(p, a)) = Sp(p) /\ WordAt(Goto(p, a), Sp(p)) = v
    BY <1>2, <1>9, GotoIs, GotoKeeps
  <2>3. QED
    BY <2>1, <2>2 DEF Does32
<1>22. Agree(Goto(Move(Goto(p, a), 2), v), Goto(g, x))
  BY <1>10, <1>14, AgreeGoto
<1>23. Reach3(q, Step64(g))
  <2>1. Reach2(q, g)
    BY <1>7, <1>8, <1>12 DEF Reach1, Reach2, Popped
  <2>2. QED
    BY <1>19, <2>1, ReachOn
<1>24. QED
  BY <1>1, <1>20, <1>21, <1>22, <1>23 DEF Follows, Reaches

-----------------------------------------------------------------------------
(* An instruction of __text or __symbol_stub.                              *)
LEMMA FollowsAll ==
  ASSUME NEW p, NEW q, NEW o, NEW b, NEW f, NEW list, Meet(p, q, o, b, f, list),
         b.sect \in Compared, Effect(p, o, b).pc # Junk
  PROVE  Follows(Effect(p, o, b), q)
<1>1. b.op \notin {"helper", "pusha"}
  <2>1. Built /\ o \in DOMAIN old.blobs /\ b = old.blobs[o]
    BY DEF Meet
  <2>2. AsCompiled(old.blobs, b)
    BY <2>1, BuiltParts, CompiledAssumption
  <2>3. ~Throws(b)
    BY <2>1, BuiltParts DEF Built, BInv
  <2>4. QED
    BY <2>2, <2>3 DEF AsCompiled, Throws, Compared
<1>2. b.op \in Common \cup {"push", "pushi", "pusha", "pushm", "pop", "mova", "call", "callr",
                            "jmpm", "jmpa", "ret", "helper"}
  <2>1. SUFFICES ASSUME b.op \notin Common \cup {"push", "pushi", "pusha", "pushm", "pop", "mova",
                           "call", "callr", "jmpm", "jmpa", "ret", "helper"} PROVE FALSE
    OBVIOUS
  <2>2. Both(p, q, o, b, f, list)
    BY Meets
  <2>3. PICK g : g = Goto(p, At(In32(o + 1)))
    OBVIOUS
  <2>4. Effect(p, o, b) = Goto(g, Junk)
    BY <2>1, <2>2, <2>3 DEF Both, Does32
  <2>5. Machine(g)
    BY <2>2, <2>3, GotoIs DEF Both
  <2>6. Goto(g, Junk).pc = Junk
    BY <2>5, GotoKeeps
  <2>7. QED
    BY <2>4, <2>6
<1>3. CASE b.op \in Common
  BY <1>3, FollowsCommon
<1>4. CASE b.op \in {"push", "pushi"}
  BY <1>4, FollowsPush
<1>5. CASE b.op = "pushm"
  BY <1>5, FollowsPushm
<1>6. CASE b.op = "pop"
  BY <1>6, FollowsPop
<1>7. CASE b.op = "mova"
  BY <1>7, FollowsMova
<1>8. CASE b.op \in {"call", "callr"}
  BY <1>8, FollowsCall
<1>9. CASE b.op = "jmpa"
  BY <1>9, FollowsJmpa
<1>10. CASE b.op = "jmpm"
  BY <1>10, FollowsJmpm
<1>11. CASE b.op = "ret"
  BY <1>11, FollowsRet
<1>12. QED
  BY <1>1, <1>2, <1>3, <1>4, <1>5, <1>6, <1>7, <1>8, <1>9, <1>10, <1>11

-----------------------------------------------------------------------------
(* The new program gets from m to where it agrees with w, in two goes at   *)
(* most: to a stub helper, and from there to the function.                 *)
Arrives(w, m) ==
  \E s : /\ Reaches(m, s)
         /\ \/ Agree(w, s)
            \/ ~Waits64(s.pc) /\ \E t : Reaches(s, t) /\ Agree(w, t)

(* The old program has this many steps to go until it is compared.         *)
Late1(m, q) == Sound(Step32(m)) => Waits32(Step32(m).pc) /\ Arrives(Step32(m), q)
Late2(m, q) == Sound(Step32(m)) => ~Waits32(Step32(m).pc) /\ Late1(Step32(m), q)
Late3(m, q) == Sound(Step32(m)) => ~Waits32(Step32(m).pc) /\ Late2(Step32(m), q)
Late4(m, q) == Sound(Step32(m)) => ~Waits32(Step32(m).pc) /\ Late3(Step32(m), q)
Late(m, q) == Late1(m, q) \/ Late2(m, q) \/ Late3(m, q) \/ Late4(m, q)

(* While the programs run, the archives are what they are, and so is all   *)
(* that is said of two machines.                                           *)
Kept == UNCHANGED <<old, new, res>>

LEMMA KeptFirst == ASSUME Kept, NEW o PROVE FirstOf(o)' = FirstOf(o)
BY DEF FirstOf, Kept

LEMMA KeptPlaces ==
  ASSUME Kept, NEW o
  PROVE  In64(o)' = In64(o) /\ In32(o)' = In32(o) /\ Pointee(o)' = Pointee(o)
BY KeptFirst DEF In64, In32, Pointee, Kept

LEMMA KeptWide == ASSUME Kept, NEW m, NEW v, NEW n PROVE ReadWide(m, v, n)' = ReadWide(m, v, n)
BY DEF ReadWide, Kept

LEMMA KeptExec == ASSUME Kept, NEW m, NEW b, NEW to PROVE Exec64(m, b, to)' = Exec64(m, b, to)
BY KeptWide DEF Exec64, Kept

LEMMA KeptBind ==
  ASSUME Kept, NEW m, NEW k, NEW n, NEW p, NEW f
  PROVE  Bind(m, k, n, p, f)' = Bind(m, k, n, p, f)
BY DEF Bind, Kept

LEMMA KeptSteps == ASSUME Kept, NEW m PROVE Step64(m)' = Step64(m) /\ Step32(m)' = Step32(m)
BY KeptExec, KeptBind, KeptPlaces DEF Step64, Next64, Step32, Kept

LEMMA KeptWaits ==
  ASSUME Kept, NEW v
  PROVE  (Waits64(v)' <=> Waits64(v)) /\ (Waits32(v)' <=> Waits32(v))
BY KeptFirst DEF Waits64, Waits32, Kept

LEMMA KeptSound == ASSUME Kept, NEW m PROVE Sound(m)' <=> Sound(m)
BY DEF Sound, Kept

LEMMA KeptSame == ASSUME Kept, NEW v, NEW w PROVE SameValue(v, w)' <=> SameValue(v, w)
BY KeptPlaces DEF SameValue, Turned, Value, Kept

LEMMA KeptAlike == ASSUME Kept, NEW p, NEW q PROVE Alike(p, q)' <=> Alike(p, q)
<1>1. SameStack(p, q)' <=> SameStack(p, q)
  BY KeptPlaces DEF SameStack, SameHalf, Turned, Value, Kept
<1>2. Data' = Data
  BY DEF Data, Kept
<1>3. SameMemory(p, q)' <=> SameMemory(p, q)
  BY <1>2, KeptSame, KeptFirst DEF SameMemory, Kept
<1>4. QED
  BY <1>1, <1>3, KeptSame DEF Alike

LEMMA KeptAgree == ASSUME Kept, NEW p, NEW q PROVE Agree(p, q)' <=> Agree(p, q)
BY KeptAlike, KeptSame DEF Agree

LEMMA KeptReach1 == ASSUME Kept, NEW m, NEW s PROVE Reach1(m, s)' <=> Reach1(m, s)
BY KeptSteps DEF Reach1
LEMMA KeptReach2 == ASSUME Kept, NEW m, NEW s PROVE Reach2(m, s)' <=> Reach2(m, s)
BY KeptSteps, KeptWaits, KeptReach1 DEF Reach2
LEMMA KeptReach3 == ASSUME Kept, NEW m, NEW s PROVE Reach3(m, s)' <=> Reach3(m, s)
BY KeptSteps, KeptWaits, KeptReach2 DEF Reach3
LEMMA KeptReach4 == ASSUME Kept, NEW m, NEW s PROVE Reach4(m, s)' <=> Reach4(m, s)
BY KeptSteps, KeptWaits, KeptReach3 DEF Reach4
LEMMA KeptReach5 == ASSUME Kept, NEW m, NEW s PROVE Reach5(m, s)' <=> Reach5(m, s)
BY KeptSteps, KeptWaits, KeptReach4 DEF Reach5

LEMMA KeptReaches == ASSUME Kept, NEW m, NEW s PROVE Reaches(m, s)' <=> Reaches(m, s)
BY KeptReach1, KeptReach2, KeptReach3, KeptReach4, KeptReach5 DEF Reaches

LEMMA KeptArrives == ASSUME Kept, NEW w, NEW m PROVE Arrives(w, m)' <=> Arrives(w, m)
BY KeptReaches, KeptAgree, KeptWaits DEF Arrives

LEMMA KeptLate1 == ASSUME Kept, NEW m, NEW q PROVE Late1(m, q)' <=> Late1(m, q)
BY KeptSteps, KeptWaits, KeptSound, KeptArrives DEF Late1
LEMMA KeptLate2 == ASSUME Kept, NEW m, NEW q PROVE Late2(m, q)' <=> Late2(m, q)
BY KeptSteps, KeptWaits, KeptSound, KeptLate1 DEF Late2
LEMMA KeptLate3 == ASSUME Kept, NEW m, NEW q PROVE Late3(m, q)' <=> Late3(m, q)
BY KeptSteps, KeptWaits, KeptSound, KeptLate2 DEF Late3
LEMMA KeptLate4 == ASSUME Kept, NEW m, NEW q PROVE Late4(m, q)' <=> Late4(m, q)
BY KeptSteps, KeptWaits, KeptSound, KeptLate3 DEF Late4

LEMMA KeptLate == ASSUME Kept, NEW m, NEW q PROVE Late(m, q)' <=> Late(m, q)
BY KeptLate1, KeptLate2, KeptLate3, KeptLate4 DEF Late

-----------------------------------------------------------------------------
(* A stub helper.  w is m after k half-words have been pushed.             *)
Below(m, w, k) ==
  /\ Machine(m) /\ Machine(w) /\ w.zf = m.zf /\ w.mem = m.mem /\ Sp(w) = Sp(m) - k
  /\ \A r \in General : w.reg[r] = m.reg[r]
  /\ DOMAIN w.stk = DOMAIN m.stk
  /\ \A n \in DOMAIN m.stk \cap Int : Sp(m) <= n => w.stk[n] = m.stk[n]
WordIn(s, k, v) == k \in DOMAIN s /\ k + 1 \in DOMAIN s /\ s[k] = <<v, 0>> /\ s[k + 1] = <<v, 1>>

LEMMA BelowSelf == ASSUME NEW m, Machine(m) PROVE Below(m, m, 0)
<1>1. Sp(m) \in Int
  BY DEF Machine
<1>2. Sp(m) = Sp(m) - 0
  BY <1>1
<1>3. QED
  BY <1>2 DEF Below

LEMMA BelowGoto ==
  ASSUME NEW m, NEW w, NEW k, Below(m, w, k), NEW a
  PROVE  Below(m, Goto(w, a), k) /\ Goto(w, a).stk = w.stk /\ Goto(w, a).pc = a
<1>1. Machine(w)
  BY DEF Below
<1>2. PICK g : g = Goto(w, a)
  OBVIOUS
<1>3. Machine(g) /\ Sp(g) = Sp(w) /\ g.reg = w.reg /\ g.stk = w.stk /\ g.mem = w.mem /\ g.zf = w.zf /\ g.pc = a
  BY <1>1, <1>2, GotoIs, GotoKeeps
<1>4. QED
  BY <1>2, <1>3 DEF Below

LEMMA BelowOwn ==
  ASSUME NEW m, NEW w, NEW k, Below(m, w, k), NEW x
  PROVE  /\ Below(m, Set(w, "r11", x), k) /\ Set(w, "r11", x).stk = w.stk
         /\ Set(w, "r11", x).pc = w.pc
<1>1. Machine(w) /\ w.reg = [r \in Registers |-> w.reg[r]] /\ "r11" \in Registers /\ "r11" # "esp"
  BY DEF Below, Machine, Registers
<1>2. PICK g : g = Set(w, "r11", x)
  OBVIOUS
<1>3. Machine(g) /\ Becomes(w, g, w.pc, Over(w, "r11", x), w.stk) /\ Sp(g) = Sp(w)
  BY <1>1, <1>2, SetIs
<1>4. g.pc = w.pc /\ g.zf = w.zf /\ g.reg = Over(w, "r11", x) /\ g.stk = w.stk /\ g.mem = w.mem
  BY <1>3 DEF Becomes
<1>5. \A r \in General : g.reg[r] = w.reg[r]
  BY <1>1, <1>4 DEF Over, General, Registers
<1>6. QED
  BY <1>2, <1>3, <1>4, <1>5 DEF Below

LEMMA PutBelow ==
  ASSUME NEW s, Mapping(s), NEW k \in Int, NEW v
  PROVE  /\ Mapping(PutWord(s, k, v)) /\ DOMAIN PutWord(s, k, v) = DOMAIN s
         /\ \A n \in DOMAIN s \cap Int : k + 2 <= n => PutWord(s, k, v)[n] = s[n]
         /\ \A n \in Int : \A u : k + 2 <= n /\ WordIn(s, n, u) => WordIn(PutWord(s, k, v), n, u)
         /\ k \in DOMAIN s /\ k + 1 \in DOMAIN s => WordIn(PutWord(s, k, v), k, v)
<1>1. PICK t : t = PutWord(s, k, v)
  OBVIOUS
<1>2. /\ t = [x \in DOMAIN s |-> IF x = k + 1 THEN <<v, 1>> ELSE IF x = k THEN <<v, 0>> ELSE s[x]]
      /\ Mapping(t)
  BY <1>1, WordIs
<1>3. DOMAIN t = DOMAIN s
  BY <1>2
<1>4. \A n \in DOMAIN s : n \in Int /\ k + 2 <= n => t[n] = s[n]
  BY <1>2
<1>5. \A n \in Int : \A u : k + 2 <= n /\ WordIn(s, n, u) => WordIn(t, n, u)
  <2>1. TAKE n \in Int
  <2>7. TAKE u
  <2>2. HAVE k + 2 <= n /\ WordIn(s, n, u)
  <2>3. n + 1 \in Int /\ k + 2 <= n + 1
    BY <2>2
  <2>4. t[n] = s[n] /\ t[n + 1] = s[n + 1]
    BY <1>4, <2>2, <2>3 DEF WordIn
  <2>5. QED
    BY <1>3, <2>2, <2>4 DEF WordIn
<1>6. k \in DOMAIN s /\ k + 1 \in DOMAIN s => WordIn(t, k, v)
  <2>1. k # k + 1
    OBVIOUS
  <2>2. QED
    BY <1>2, <1>3, <2>1 DEF WordIn
<1>7. QED
  BY <1>1, <1>2, <1>3, <1>4, <1>5, <1>6

LEMMA WordThere ==
  ASSUME NEW m, NEW k \in 0..(Stack - 2), NEW v, WordIn(m.stk, k, v)
  PROVE  WordAt(m, k) = v
BY DEF WordAt, WordIn

LEMMA BelowPush ==
  ASSUME NEW m, NEW w, NEW k \in Nat, Below(m, w, k), NEW v
  PROVE  /\ Below(m, Push(w, v), k + 2) /\ Push(w, v).pc = w.pc
         /\ Push(w, v).stk = PutWord(w.stk, Sp(w) - 2, v)
<1>1. /\ Machine(w) /\ w.reg = [r \in Registers |-> w.reg[r]] /\ "esp" \in Registers
      /\ Sp(w) \in Int /\ Mapping(w.stk) /\ Sp(m) \in Int
  BY DEF Below, Machine, Registers
<1>2. PICK g, t : g = Push(w, v) /\ t = PutWord(w.stk, Sp(w) - 2, v)
  OBVIOUS
<1>3. Machine(g) /\ Sp(g) = Sp(w) - 2 /\ Becomes(w, g, w.pc, Down(w, 2), t)
  BY <1>1, <1>2, PushIs
<1>4. g.pc = w.pc /\ g.zf = w.zf /\ g.reg = Down(w, 2) /\ g.stk = t /\ g.mem = w.mem
  BY <1>3 DEF Becomes
<1>5. \A r \in General : g.reg[r] = w.reg[r]
  BY <1>1, <1>4 DEF Down, Over, General, Registers
<1>6. PICK j \in Int : j = Sp(w) - 2
  BY <1>1
<1>7. DOMAIN t = DOMAIN w.stk /\ \A n \in DOMAIN w.stk \cap Int : j + 2 <= n => t[n] = w.stk[n]
  BY <1>1, <1>2, <1>6, PutBelow
<1>8. \A n \in DOMAIN m.stk \cap Int : Sp(m) <= n => t[n] = m.stk[n]
  <2>1. j + 2 <= Sp(m)
    BY <1>1, <1>6 DEF Below
  <2>2. \A n \in Int : Sp(m) <= n => j + 2 <= n
    BY <1>1, <2>1
  <2>3. QED
    BY <1>7, <2>2 DEF Below
<1>9. Sp(g) = Sp(m) - (k + 2)
  BY <1>1, <1>3 DEF Below
<1>10. QED
  BY <1>2, <1>3, <1>4, <1>5, <1>7, <1>8, <1>9 DEF Below

LEMMA BelowWide ==
  ASSUME NEW m, NEW w, NEW k \in Nat, Below(m, w, k), NEW v
  PROVE  /\ Below(m, PushWide(w, v), k + 4) /\ PushWide(w, v).pc = w.pc
         /\ PushWide(w, v).stk = PutWord(PutWord(w.stk, Sp(w) - 2, Num(0)), Sp(w) - 4, v)
<1>1. /\ Machine(w) /\ w.reg = [r \in Registers |-> w.reg[r]] /\ "esp" \in Registers
      /\ Sp(w) \in Int /\ Mapping(w.stk) /\ Sp(m) \in Int
  BY DEF Below, Machine, Registers
<1>2. PICK g, s, t : /\ g = PushWide(w, v) /\ s = PutWord(w.stk, Sp(w) - 2, Num(0))
                     /\ t = PutWord(s, Sp(w) - 4, v)
  OBVIOUS
<1>3. Machine(g) /\ Sp(g) = Sp(w) - 4 /\ Becomes(w, g, w.pc, Down(w, 4), t)
  BY <1>1, <1>2, PushWideIs
<1>4. g.pc = w.pc /\ g.zf = w.zf /\ g.reg = Down(w, 4) /\ g.stk = t /\ g.mem = w.mem
  BY <1>3 DEF Becomes
<1>5. \A r \in General : g.reg[r] = w.reg[r]
  BY <1>1, <1>4 DEF Down, Over, General, Registers
<1>6. PICK i, j \in Int : i = Sp(w) - 2 /\ j = Sp(w) - 4
  BY <1>1
<1>7. /\ Mapping(s) /\ DOMAIN s = DOMAIN w.stk
      /\ \A n \in DOMAIN w.stk \cap Int : i + 2 <= n => s[n] = w.stk[n]
  BY <1>1, <1>2, <1>6, PutBelow
<1>8. DOMAIN t = DOMAIN s /\ \A n \in DOMAIN s \cap Int : j + 2 <= n => t[n] = s[n]
  BY <1>2, <1>6, <1>7, PutBelow
<1>9. \A n \in DOMAIN m.stk \cap Int : Sp(m) <= n => t[n] = m.stk[n]
  <2>1. i + 2 <= Sp(m) /\ j + 2 <= Sp(m)
    BY <1>1, <1>6 DEF Below
  <2>2. \A n \in Int : Sp(m) <= n => i + 2 <= n /\ j + 2 <= n
    BY <1>1, <1>6, <2>1
  <2>3. QED
    BY <1>7, <1>8, <2>2 DEF Below
<1>10. Sp(g) = Sp(m) - (k + 4)
  BY <1>1, <1>3 DEF Below
<1>11. QED
  BY <1>2, <1>3, <1>4, <1>5, <1>7, <1>8, <1>9, <1>10 DEF Below

(* What was pushed is popped.                                              *)
LEMMA AlikeBelow ==
  ASSUME NEW p, NEW q, Alike(p, q), NEW s, NEW t, NEW i \in Nat, NEW j \in Nat,
         Below(p, s, i), Below(q, t, j)
  PROVE  Alike(Move(s, i), Move(t, j))
<1>1. PICK u, z : u = Move(s, i) /\ z = Move(t, j)
  OBVIOUS
<1>2. /\ Machine(s) /\ Machine(t) /\ Sp(p) \in Int /\ Sp(q) = Sp(p)
      /\ Sp(s) = Sp(p) - i /\ Sp(t) = Sp(p) - j
      /\ s.reg = [r \in Registers |-> s.reg[r]] /\ t.reg = [r \in Registers |-> t.reg[r]]
      /\ "esp" \in Registers
  BY DEF Below, Alike, Machine, Registers
<1>3. Machine(u) /\ Sp(u) = Sp(s) + i /\ Becomes(s, u, s.pc, Down(s, -i), s.stk)
  BY <1>1, <1>2, MoveIs
<1>4. Machine(z) /\ Sp(z) = Sp(t) + j /\ Becomes(t, z, t.pc, Down(t, -j), t.stk)
  BY <1>1, <1>2, MoveIs
<1>5. /\ u.zf = s.zf /\ u.reg = Down(s, -i) /\ u.stk = s.stk /\ u.mem = s.mem
      /\ z.zf = t.zf /\ z.reg = Down(t, -j) /\ z.stk = t.stk /\ z.mem = t.mem
  BY <1>3, <1>4 DEF Becomes
<1>6. Sp(u) = Sp(p) /\ Sp(z) = Sp(u)
  BY <1>2, <1>3, <1>4
<1>7. \A r \in General : u.reg[r] = p.reg[r] /\ z.reg[r] = q.reg[r]
  BY <1>2, <1>5 DEF Down, Over, General, Registers, Below
<1>8. u.zf = p.zf /\ z.zf = q.zf /\ u.mem = p.mem /\ z.mem = q.mem
  BY <1>5 DEF Below
<1>9. SameStack(u, z)
  <2>1. DOMAIN u.stk = 0..(Stack - 1) /\ DOMAIN z.stk = 0..(Stack - 1)
    BY <1>5 DEF Below, Alike, SameStack
  <2>2. ASSUME NEW k \in DOMAIN u.stk, Sp(u) <= k PROVE SameHalf(u.stk[k], z.stk[k])
    <3>1. k \in 0..(Stack - 1) /\ k \in Int
      BY <2>1
    <3>2. k \in DOMAIN p.stk \cap Int /\ k \in DOMAIN q.stk \cap Int /\ Sp(p) <= k /\ Sp(q) <= k
      BY <1>2, <1>6, <2>2, <3>1 DEF Alike, SameStack
    <3>3. u.stk[k] = p.stk[k] /\ z.stk[k] = q.stk[k]
      BY <1>5, <3>2 DEF Below
    <3>4. QED
      BY <3>2, <3>3 DEF Alike, SameStack
  <2>3. QED
    BY <2>1, <2>2 DEF SameStack
<1>10. SameMemory(u, z)
  BY <1>8 DEF Alike, SameMemory
<1>11. QED
  BY <1>1, <1>3, <1>4, <1>6, <1>7, <1>8, <1>9, <1>10 DEF Alike

(* A stub helper h, the instructions i and j of the header it goes to, and *)
(* the pointer y to the binder.                                            *)
Chain(h, b, i, j, y) ==
  /\ h \in DOMAIN old.blobs /\ b = old.blobs[h] /\ b.op = "helper" /\ b.sect \notin Compared
  /\ b.at # 0 /\ b.at \in DOMAIN old.blobs /\ In32(b.at) = i /\ In64(b.at) = FirstOf(i)
  /\ i \in DOMAIN old.blobs /\ old.blobs[i].op = "pusha" /\ old.blobs[i].sect \notin Compared
  /\ old.blobs[i].at # 0 /\ In32(i + 1) = j /\ In64(i + 1) = FirstOf(j) /\ i < OldLength
  /\ j \in DOMAIN old.blobs /\ old.blobs[j].op = "jmpa" /\ old.blobs[j].sect \notin Compared
  /\ old.blobs[j].at # 0 /\ In32(old.blobs[j].at) = y /\ In64(old.blobs[j].at) = In64(y)
  /\ y \in Data /\ old.blobs[y].op = "nonlazy" /\ y + 0 = y

LEMMA ChainIs ==
  ASSUME Built, NEW h \in DOMAIN old.blobs, NEW b, b = old.blobs[h], b.op = "helper"
  PROVE  \E i, j, y : Chain(h, b, i, j, y)
<1>1. /\ old \in Programs /\ OldLength \in Nat \ {0} /\ DOMAIN old.blobs = 1..OldLength
      /\ IsData(old.blobs[OldLength])
  BY BuiltParts
<1>2. \A o \in DOMAIN old.blobs : AsCompiled(old.blobs, old.blobs[o])
  BY <1>1, CompiledAssumption
<1>3. \A o \in DOMAIN old.blobs : old.blobs[o].at # 0 => old.blobs[o].at \in DOMAIN old.blobs
  BY OldParts, <1>1
<1>4. b.sect \notin Compared /\ b.at # 0 /\ HelperHeader(old.blobs, In32(b.at))
  BY <1>2 DEF AsCompiled, In32
<1>5. PICK i : i = In32(b.at)
  OBVIOUS
<1>6. b.at \in DOMAIN old.blobs
  BY <1>3, <1>4
<1>7. i \in DOMAIN old.blobs /\ i \in Int /\ In64(b.at) = FirstOf(i)
  BY <1>5, <1>6, In32Is, In64Is
<1>8. PICK j : j = In32(i + 1)
  OBVIOUS
<1>9. /\ old.blobs[i].op = "pusha" /\ old.blobs[i].sect \notin Compared
      /\ old.blobs[j].op = "jmpa" /\ old.blobs[j].sect \notin Compared
      /\ old.blobs[In32(old.blobs[j].at)].op = "nonlazy"
  BY <1>4, <1>5, <1>8 DEF HelperHeader, In32
<1>10. i < OldLength
  <2>1. i # OldLength
    BY <1>1, <1>9 DEF IsData
  <2>2. QED
    BY <1>1, <1>7, <2>1
<1>11. i + 1 \in DOMAIN old.blobs
  BY <1>1, <1>7, <1>10
<1>12. j \in DOMAIN old.blobs /\ In64(i + 1) = FirstOf(j)
  BY <1>8, <1>11, In32Is, In64Is
<1>13. old.blobs[i].at # 0 /\ old.blobs[j].at # 0
  BY <1>2, <1>7, <1>9, <1>12 DEF AsCompiled
<1>14. PICK y, a : y = In32(a) /\ a = old.blobs[j].at
  OBVIOUS
<1>15. a \in DOMAIN old.blobs
  BY <1>3, <1>12, <1>13, <1>14
<1>16. y \in DOMAIN old.blobs /\ y \in Int /\ In64(y) = In64(a)
  BY <1>14, <1>15, In32Is, Through
<1>17. y \in Data /\ old.blobs[y].op = "nonlazy" /\ y + 0 = y
  BY <1>9, <1>14, <1>16 DEF Data, IsData
<1>18. Chain(h, b, i, j, y)
  BY <1>4, <1>5, <1>6, <1>7, <1>8, <1>9, <1>10, <1>12, <1>13, <1>14, <1>16, <1>17 DEF Chain
<1>19. QED
  BY <1>18

LEMMA Step32At ==
  ASSUME NEW m, NEW o, m.pc = At(o)
  PROVE  Step32(m) = Exec32(Goto(m, At(In32(o + 1))), old.blobs[o], In32(old.blobs[o].at))
BY DEF Step32, At

(* The old program: from the helper to the binder.                         *)
ToBinder32(g, b, i, j, s1, s2, s3) ==
  /\ s1.pc = At(i) /\ s2.pc = At(j) /\ s3.pc = <<"binder", 0>>
  /\ Below(g, s3, 4) /\ WordAt(s3, Sp(s3) + 2) = Num(b.n)

LEMMA Binder32 ==
  ASSUME Built, NEW h, NEW b, NEW i, NEW j, NEW y, Chain(h, b, i, j, y),
         NEW g, Machine(g), g.pc = At(h), Data \subseteq DOMAIN g.mem, g.mem[y] = <<"binder", 0>>,
         DOMAIN g.stk = 0..(Stack - 1), Sp(g) \in 16..Stack,
         NEW s1, NEW s2, NEW s3, s1 = Step32(g), s2 = Step32(s1), s3 = Step32(s2)
  PROVE  ToBinder32(g, b, i, j, s1, s2, s3)
<1>1. PICK bi, bj : bi = old.blobs[i] /\ bj = old.blobs[j]
  OBVIOUS
<1>2. b = old.blobs[h] /\ b.op = "helper" /\ bi.op = "pusha" /\ bj.op = "jmpa"
      /\ In32(b.at) = i /\ In32(i + 1) = j /\ In32(bj.at) = y
  BY <1>1 DEF Chain
<1>3. \A n : At(n)[1] = "at" /\ At(n)[2] = n
  BY DEF At
<1>4. PICK x \in Int : x = Sp(g) /\ 16 <= x /\ x <= Stack
  OBVIOUS
<1>5. Stack \in Nat
  BY StackAssumption
<1>6. Mapping(g.stk)
  BY DEF Machine
<1>7. PICK a1, a2, a3 : a1 = At(In32(h + 1)) /\ a2 = At(In32(i + 1)) /\ a3 = At(In32(j + 1))
  OBVIOUS
<1>8. PICK v1, v2 : v1 = Num(b.n) /\ v2 = At(In32(bi.at))
  OBVIOUS
<1>9. PICK t1, t2 : t1 = PutWord(g.stk, x - 2, v1) /\ t2 = PutWord(t1, x - 4, v2)
  OBVIOUS
<1>10. s1 = Goto(Push(Goto(g, a1), v1), At(i))
  <2>1. s1 = Exec32(Goto(g, a1), b, i)
    BY <1>2, <1>7, Step32At
  <2>2. Does32(Goto(g, a1), b, i, s1)
    BY <2>1, DoesAll32
  <2>3. QED
    BY <1>2, <1>8, <2>2 DEF Does32
<1>11. Below(g, s1, 2) /\ s1.stk = t1 /\ s1.pc = At(i)
  <2>1. PICK u : u = Goto(g, a1)
    OBVIOUS
  <2>2. Below(g, u, 0) /\ u.stk = g.stk
    BY <2>1, BelowSelf, BelowGoto
  <2>3. Sp(u) = x
    BY <1>4, <2>2 DEF Below
  <2>4. Below(g, Push(u, v1), 0 + 2) /\ Push(u, v1).stk = PutWord(u.stk, Sp(u) - 2, v1)
    BY <2>2, BelowPush, 0 \in Nat
  <2>5. Below(g, Push(u, v1), 2) /\ Push(u, v1).stk = t1
    BY <1>9, <2>2, <2>3, <2>4
  <2>6. QED
    BY <1>10, <2>1, <2>5, BelowGoto
<1>12. s2 = Push(Goto(s1, a2), v2)
  <2>1. s2 = Exec32(Goto(s1, a2), bi, In32(bi.at))
    BY <1>1, <1>7, <1>11, Step32At
  <2>2. Does32(Goto(s1, a2), bi, In32(bi.at), s2)
    BY <2>1, DoesAll32
  <2>3. QED
    BY <1>2, <1>8, <2>2 DEF Does32
<1>13. Below(g, s2, 4) /\ s2.stk = t2 /\ s2.pc = At(j)
  <2>1. PICK u : u = Goto(s1, a2)
    OBVIOUS
  <2>2. Below(g, u, 2) /\ u.stk = t1 /\ u.pc = At(j)
    BY <1>2, <1>7, <1>11, <2>1, BelowGoto
  <2>3. Sp(u) = x - 2
    BY <1>4, <2>2 DEF Below
  <2>7. PICK k \in Nat : k = 2 /\ k + 2 = 4
    OBVIOUS
  <2>4. /\ Below(g, Push(u, v2), k + 2) /\ Push(u, v2).stk = PutWord(u.stk, Sp(u) - 2, v2)
        /\ Push(u, v2).pc = u.pc
    BY <2>2, <2>7, BelowPush
  <2>5. Sp(u) - 2 = x - 4
    BY <1>4, <2>3
  <2>8. PutWord(u.stk, Sp(u) - 2, v2) = t2
    BY <1>9, <2>2, <2>5
  <2>9. Below(g, Push(u, v2), 4)
    BY <2>4, <2>7
  <2>6. Below(g, Push(u, v2), 4) /\ Push(u, v2).stk = t2
    BY <2>4, <2>8, <2>9
  <2>10. QED
    BY <1>12, <2>1, <2>2, <2>4, <2>6
<1>14. s3 = Goto(s2, <<"binder", 0>>)
  <2>10. s3 = Exec32(Goto(s2, a3), bj, In32(bj.at))
    BY <1>1, <1>7, <1>13, Step32At
  <2>1. s3 = Exec32(Goto(s2, a3), bj, y)
    BY <1>2, <2>10
  <2>2. Does32(Goto(s2, a3), bj, y, s3)
    BY <2>1, DoesAll32
  <2>3. s3 = Goto(Goto(s2, a3), Read(Goto(s2, a3), At(y), 0))
    BY <1>2, <2>2 DEF Does32
  <2>4. Machine(s2) /\ s2.mem = g.mem
    BY <1>13 DEF Below
  <2>5. s3 = Goto(s2, Read(s2, At(y), 0))
    BY <2>3, <2>4, GotoKeeps
  <2>6. y \in Data /\ y + 0 = y
    BY DEF Chain
  <2>7. y + 0 \in DOMAIN s2.mem /\ s2.mem[y + 0] = <<"binder", 0>>
    BY <2>4, <2>6
  <2>8. Read(s2, At(y), 0) = <<"binder", 0>>
    BY <1>3, <2>7 DEF Read
  <2>9. QED
    BY <2>5, <2>8
<1>15. Below(g, s3, 4) /\ s3.stk = t2 /\ s3.pc = <<"binder", 0>>
  BY <1>13, <1>14, BelowGoto
<1>16. WordIn(t2, x - 2, v1)
  <2>1. PICK c, d \in Int : c = x - 2 /\ d = x - 4
    BY <1>4
  <2>2. c \in DOMAIN g.stk /\ c + 1 \in DOMAIN g.stk /\ d + 2 <= c
    BY <1>4, <1>5, <2>1
  <2>3. Mapping(t1) /\ WordIn(t1, c, v1)
    BY <1>6, <1>9, <2>1, <2>2, PutBelow
  <2>4. \A n \in Int : \A u : d + 2 <= n /\ WordIn(t1, n, u) => WordIn(t2, n, u)
    BY <1>9, <2>1, <2>3, PutBelow
  <2>5. QED
    BY <2>1, <2>2, <2>3, <2>4
<1>17. WordAt(s3, Sp(s3) + 2) = v1
  <2>1. Sp(s3) + 2 = x - 2 /\ x - 2 \in 0..(Stack - 2)
    BY <1>4, <1>5, <1>15 DEF Below
  <2>2. WordAt(s3, x - 2) = v1
    BY <1>15, <1>16, <2>1, WordThere
  <2>3. QED
    BY <2>1, <2>2
<1>18. QED
  BY <1>8, <1>11, <1>13, <1>15, <1>17 DEF ToBinder32

(* The new program at the first of the blobs made of o.                    *)
AtFirst(f, list, x, m, w) ==
  /\ f \in Int /\ f + x - 1 \in DOMAIN new /\ new[f + x - 1].disp = list[x].disp
  /\ Does64(Goto(m, At(Place(new, f + x))), list[x], Place(new, Pointee(f + x - 1)), w)

LEMMA FirstStep ==
  ASSUME Built, NEW o \in DOMAIN old.blobs, NEW f, NEW list,
         f = FirstOf(o), list = Transformed(old.blobs[o]),
         1 \in DOMAIN list, list[1].op # "helper", NEW m, m.pc = At(f)
  PROVE  AtFirst(f, list, 1, m, Step64(m))
<1>1. f \in Int
  BY BlockIs DEF BlockOf
<1>2. f + 1 - 1 = f
  BY <1>1
<1>3. m.pc = At(f + 1 - 1)
  BY <1>2
<1>4. QED
  BY <1>1, <1>3, StepWithin DEF AtFirst

LEMMA FirstNotYet ==
  ASSUME Built, NEW o \in DOMAIN old.blobs, old.blobs[o].sect \notin Compared,
         NEW f, f = FirstOf(o), NEW list, list = Transformed(old.blobs[o]),
         1 \in DOMAIN list, ~IsData(list[1])
  PROVE  ~Waits64(At(f))
<1>1. BlockOf(o, f, list)
  BY BlockIs
<1>2. f \in Int
  BY <1>1 DEF BlockOf
<1>3. f + 1 - 1 = f
  BY <1>2
<1>4. new[f] = MadeOf(list[1], o)
  BY <1>1, <1>3 DEF BlockOf
<1>5. new[f].op = list[1].op /\ new[f].from = o
  BY <1>4 DEF MadeOf
<1>6. ~IsData(new[f])
  BY <1>5 DEF IsData
<1>7. At(f)[1] = "at" /\ At(f)[2] = f
  BY DEF At
<1>8. QED
  BY <1>5, <1>6, <1>7 DEF Waits64

LEMMA Helper64 ==
  ASSUME Built, NEW h, NEW b, NEW i, NEW j, NEW y, Chain(h, b, i, j, y),
         NEW r, r.pc = At(FirstOf(h))
  PROVE  /\ \E a : Step64(r) = Goto(PushWide(Goto(r, a), Num(b.n)), At(FirstOf(i)))
         /\ ~Waits64(r.pc)
<1>1. PICK f, list : f = FirstOf(h) /\ list = Transformed(b)
  OBVIOUS
<1>2. h \in DOMAIN old.blobs /\ b = old.blobs[h] /\ b.op = "helper" /\ b.sect \notin Compared /\ b.at # 0
  BY DEF Chain
<1>3. BlockOf(h, f, list)
  BY <1>1, <1>2, BlockIs
<1>4. list = <<Copy(b)>>
  BY <1>2, <1>3 DEF BlockOf, Lists, Replaced
<1>5. 1 \in DOMAIN list /\ list[1] = Copy(b)
  BY <1>4
<1>6. f \in Int
  BY <1>3 DEF BlockOf
<1>7. f + 1 - 1 = f
  BY <1>6
<1>8. f \in DOMAIN new /\ new[f] = MadeOf(Copy(b), h)
  BY <1>3, <1>5, <1>7 DEF BlockOf
<1>9. new[f].op = "helper" /\ new[f].n = b.n /\ new[f].disp = Disp(b)
  BY <1>2, <1>8 DEF MadeOf, Copy
<1>10. res.pointer[<<f, "bindee">>] = b.n
  BY <1>8, <1>9, TInvImplies DEF Built, PointersToFirst
<1>11. PICK e : e = [new[f] EXCEPT !.n = res.pointer[<<f, "bindee">>]]
  OBVIOUS
<1>12. e.op = "helper" /\ e.n = b.n
  BY <1>8, <1>9, <1>10, <1>11 DEF MadeOf
<1>13. Place(new, Pointee(f)) = FirstOf(i)
  <2>1. Place(new, Pointee(f)) = In64(b.at)
    BY <1>2, <1>8, <1>9, PointeeIs
  <2>2. QED
    BY <2>1 DEF Chain
<1>14. r.pc[1] = "at" /\ r.pc[2] = f
  BY <1>1 DEF At
<1>15. PICK a : a = At(Place(new, f + 1))
  OBVIOUS
<1>16. Step64(r) = Exec64(Goto(r, a), e, FirstOf(i))
  BY <1>9, <1>11, <1>13, <1>14, <1>15 DEF Step64, Next64
<1>17. Does64(Goto(r, a), e, FirstOf(i), Step64(r))
  BY <1>16, DoesAll64
<1>18. Step64(r) = Goto(PushWide(Goto(r, a), Num(b.n)), At(FirstOf(i)))
  BY <1>12, <1>17 DEF Does64
<1>19. ~Waits64(r.pc)
  <2>1. ~IsData(list[1])
    BY <1>2, <1>5 DEF Copy, IsData
  <2>2. QED
    BY <1>1, <1>2, <1>5, <2>1, FirstNotYet
<1>20. QED
  BY <1>18, <1>19

LEMMA Pusha64 ==
  ASSUME Built, NEW h, NEW b, NEW i, NEW j, NEW y, Chain(h, b, i, j, y),
         NEW t1, t1.pc = At(FirstOf(i)), NEW t2, t2 = Step64(t1), Machine(t1)
  PROVE  /\ \E a, x : t2 = Set(Goto(t1, a), "r11", x)
         /\ \E v : Step64(t2) = PushWide(Goto(t2, At(FirstOf(j))), v)
         /\ ~Waits64(t1.pc) /\ ~Waits64(t2.pc)
<1>1. PICK o, f, list : o = old.blobs[i] /\ f = FirstOf(i) /\ list = Transformed(o)
  OBVIOUS
<1>2. i \in DOMAIN old.blobs /\ o.op = "pusha" /\ o.sect \notin Compared /\ i < OldLength
      /\ In64(i + 1) = FirstOf(j)
  BY <1>1 DEF Chain
<1>3. BlockOf(i, f, list)
  BY <1>1, <1>2, BlockIs
<1>4. PICK e, g : e = LeaRip("r11", Disp(o)) /\ g = [Op("push64") EXCEPT !.reg = "r11"]
  OBVIOUS
<1>5. list = <<e, g>>
  BY <1>1, <1>2, <1>3, <1>4 DEF BlockOf, Lists
<1>6. Len(list) = 2 /\ 1 \in DOMAIN list /\ 2 \in DOMAIN list /\ list[1] = e /\ list[2] = g
  BY <1>5
<1>7. e.op = "lea" /\ e.reg = "r11" /\ g.op = "push64" /\ g.reg = "r11"
  BY <1>4, OpsAll DEF Ops, Op
<1>8. AtFirst(f, list, 1, t1, t2)
  BY <1>1, <1>2, <1>6, <1>7, FirstStep
<1>9. PICK a, x : a = At(Place(new, f + 1)) /\ x = At(Place(new, Pointee(f + 1 - 1)))
  OBVIOUS
<1>10. t2 = Set(Goto(t1, a), "r11", x)
  BY <1>6, <1>7, <1>8, <1>9 DEF AtFirst, Does64
<1>11. PICK l \in Nat : l = 2
  OBVIOUS
<1>12. f \in Int /\ f + l - 1 = f + 1 /\ f + l = f + Len(list) /\ l # 1
  BY <1>3, <1>6, <1>11 DEF BlockOf
<1>13. l \in DOMAIN list /\ list[l] = g /\ list[l].op \notin {"helper", "placeholder"} /\ ~IsData(list[l])
  BY <1>6, <1>7, <1>11 DEF IsData
<1>14. a = At(f + l - 1)
  <2>1. Place(new, f + l - 1) = f + l - 1
    BY <1>1, <1>2, <1>13, PlaceWithin
  <2>2. QED
    BY <1>9, <1>12, <2>1
<1>15. t2.pc = a
  <2>1. Machine(Goto(t1, a)) /\ Goto(t1, a).pc = a
    BY GotoIs, GotoKeeps
  <2>2. "r11" \in Registers /\ "r11" # "esp"
    BY DEF Registers
  <2>3. QED
    BY <1>10, <2>1, <2>2, PcKept
<1>16. Place(new, f + l) = FirstOf(j)
  <2>1. Place(new, f + Len(list)) = In64(i + 1)
    BY <1>1, <1>2, PlaceBehind
  <2>2. QED
    BY <1>2, <1>12, <2>1
<1>17. Does64(Goto(t2, At(Place(new, f + l))), list[l], Place(new, Pointee(f + l - 1)), Step64(t2))
  BY <1>1, <1>2, <1>13, <1>14, <1>15, StepWithin
<1>18. \E v : Step64(t2) = PushWide(Goto(t2, At(FirstOf(j))), v)
  BY <1>7, <1>13, <1>16, <1>17 DEF Does64
<1>19. ~Waits64(t2.pc)
  BY <1>1, <1>2, <1>12, <1>13, <1>14, <1>15, NotYet
<1>20. ~Waits64(t1.pc)
  <2>1. ~IsData(list[1])
    BY <1>6, <1>7 DEF IsData
  <2>2. QED
    BY <1>1, <1>2, <1>6, <2>1, FirstNotYet
<1>21. QED
  BY <1>10, <1>18, <1>19, <1>20

LEMMA Jmpa64 ==
  ASSUME Built, NEW h, NEW b, NEW i, NEW j, NEW y, Chain(h, b, i, j, y),
         NEW p, NEW q, Alike(p, q), NEW t3, t3.pc = At(FirstOf(j)), Machine(t3), t3.mem = q.mem
  PROVE  Step64(t3) = Goto(t3, <<"binder", 0>>) /\ ~Waits64(t3.pc)
<1>1. PICK o, f, list : o = old.blobs[j] /\ f = FirstOf(j) /\ list = Transformed(o)
  OBVIOUS
<1>2. /\ j \in DOMAIN old.blobs /\ o.op = "jmpa" /\ o.sect \notin Compared /\ o.at # 0
      /\ In64(o.at) = In64(y) /\ y \in Data /\ old.blobs[y].op = "nonlazy" /\ y + 0 = y
  BY <1>1 DEF Chain
<1>3. BlockOf(j, f, list)
  BY <1>1, <1>2, BlockIs
<1>4. PICK e : e = [Op("jmprip") EXCEPT !.disp = Disp(o)]
  OBVIOUS
<1>5. list = <<e>>
  BY <1>1, <1>2, <1>3, <1>4 DEF BlockOf, Lists
<1>6. 1 \in DOMAIN list /\ list[1] = e
  BY <1>5
<1>7. e.op = "jmprip" /\ e.disp = Disp(o)
  BY <1>4 DEF Op
<1>8. AtFirst(f, list, 1, t3, Step64(t3))
  BY <1>1, <1>2, <1>6, <1>7, FirstStep
<1>9. PICK a : a = At(Place(new, f + 1))
  OBVIOUS
<1>10. Place(new, Pointee(f + 1 - 1)) = In64(y)
  BY <1>1, <1>2, <1>6, <1>7, <1>8, PointeeIs DEF AtFirst
<1>11. Step64(t3) = Goto(t3, ReadWide(t3, At(In64(y)), 0))
  <2>1. Step64(t3) = Goto(Goto(t3, a), ReadWide(Goto(t3, a), At(In64(y)), 0))
    BY <1>6, <1>7, <1>8, <1>9, <1>10 DEF AtFirst, Does64
  <2>2. QED
    BY <2>1, GotoKeeps
<1>12. \A v, n : v[1] = "at" => Read(t3, v, n) = Read(q, v, n)
  BY DEF Read
<1>13. ReadWide(t3, At(In64(y)), 0) = ReadWide(q, At(In64(y)), 0)
  BY <1>12 DEF ReadWide, At
<1>14. ReadWide(q, At(In64(y)), 0) = <<"binder", 0>>
  <2>1. 0 \in Nat /\ y + 0 \in Data /\ old.blobs[y + 0].op \in {"lazy", "nonlazy"}
    BY <1>2
  <2>2. SameValue(Read(p, At(y), 0), ReadWide(q, At(In64(y)), 0))
    BY <1>2, <2>1, ReadLazy
  <2>3. Read(p, At(y), 0) = <<"binder", 0>>
    <3>1. y + 0 \in DOMAIN p.mem /\ p.mem[y + 0] = <<"binder", 0>>
      BY <1>2 DEF Alike, SameMemory
    <3>2. QED
      BY <3>1 DEF Read, At
  <2>4. QED
    BY <2>2, <2>3, Values DEF SameValue
<1>15. ~Waits64(t3.pc)
  <2>1. ~IsData(list[1])
    BY <1>6, <1>7 DEF IsData
  <2>2. QED
    BY <1>1, <1>2, <1>6, <2>1, FirstNotYet
<1>16. QED
  BY <1>11, <1>13, <1>14, <1>15

(* The new program: from the helper to the binder.                         *)
ToBinder64(r, b, t) ==
  /\ Reach4(r, t) /\ t.pc = <<"binder", 0>> /\ ~Waits64(t.pc)
  /\ Below(r, t, 8) /\ WordAt(t, Sp(t) + 4) = Num(b.n)

LEMMA Binder64 ==
  ASSUME Built, NEW h, NEW b, NEW i, NEW j, NEW y, Chain(h, b, i, j, y),
         NEW g, NEW r, Alike(g, r), r.pc = At(FirstOf(h)), Sp(g) \in 16..Stack
  PROVE  \E t : ToBinder64(r, b, t)
<1>1. Machine(r) /\ DOMAIN r.stk = 0..(Stack - 1) /\ Mapping(r.stk) /\ Sp(r) = Sp(g)
  BY DEF Alike, SameStack, Machine
<1>2. PICK x \in Int : x = Sp(r) /\ 16 <= x /\ x <= Stack
  BY <1>1
<1>3. Stack \in Nat
  BY StackAssumption
<1>4. PICK t1, t2, t3, t4 : /\ t1 = Step64(r) /\ t2 = Step64(t1) /\ t3 = Step64(t2)
                            /\ t4 = Step64(t3)
  OBVIOUS
<1>5. PICK a : t1 = Goto(PushWide(Goto(r, a), Num(b.n)), At(FirstOf(i)))
  BY <1>4, Helper64
<1>6. ~Waits64(r.pc)
  BY Helper64
<1>7. PICK k4, k8 \in Nat : k4 = 0 + 4 /\ k8 = k4 + 4 /\ k8 = 8
  OBVIOUS
<1>8. PICK c1, c2 : c1 = PutWord(r.stk, x - 2, Num(0)) /\ c2 = PutWord(c1, x - 4, Num(b.n))
  OBVIOUS
<1>9. Below(r, t1, k4) /\ t1.stk = c2 /\ t1.pc = At(FirstOf(i))
  <2>1. PICK u, z : u = Goto(r, a) /\ z = PushWide(u, Num(b.n))
    OBVIOUS
  <2>2. Below(r, u, 0) /\ u.stk = r.stk
    BY <1>1, <2>1, BelowSelf, BelowGoto
  <2>3. Sp(u) = x
    BY <1>2, <2>2 DEF Below
  <2>4. /\ Below(r, z, 0 + 4)
        /\ z.stk = PutWord(PutWord(u.stk, Sp(u) - 2, Num(0)), Sp(u) - 4, Num(b.n))
    BY <2>1, <2>2, BelowWide, 0 \in Nat
  <2>5. z.stk = c2
    BY <1>8, <2>2, <2>3, <2>4
  <2>6. Below(r, z, k4)
    BY <1>7, <2>4
  <2>7. QED
    BY <1>5, <2>1, <2>5, <2>6, BelowGoto
<1>10. Machine(t1)
  BY <1>9 DEF Below
<1>11. /\ \E d, e : t2 = Set(Goto(t1, d), "r11", e)
       /\ \E v : t3 = PushWide(Goto(t2, At(FirstOf(j))), v)
       /\ ~Waits64(t1.pc) /\ ~Waits64(t2.pc)
  BY <1>4, <1>9, <1>10, Pusha64
<1>12. Below(r, t2, k4) /\ t2.stk = c2
  <2>1. PICK d, e : t2 = Set(Goto(t1, d), "r11", e)
    BY <1>11
  <2>2. PICK u : u = Goto(t1, d)
    OBVIOUS
  <2>3. Below(r, u, k4) /\ u.stk = c2
    BY <1>9, <2>2, BelowGoto
  <2>4. QED
    BY <2>1, <2>2, <2>3, BelowOwn
<1>13. PICK v : t3 = PushWide(Goto(t2, At(FirstOf(j))), v)
  BY <1>11
<1>14. PICK c3, c4 : c3 = PutWord(c2, x - 6, Num(0)) /\ c4 = PutWord(c3, x - 8, v)
  OBVIOUS
<1>15. Below(r, t3, k8) /\ t3.stk = c4 /\ t3.pc = At(FirstOf(j))
  <2>1. PICK u : u = Goto(t2, At(FirstOf(j)))
    OBVIOUS
  <2>2. Below(r, u, k4) /\ u.stk = c2 /\ u.pc = At(FirstOf(j))
    BY <1>12, <2>1, BelowGoto
  <2>3. Sp(u) = x - 4
    BY <1>2, <1>7, <2>2 DEF Below
  <2>4. /\ Below(r, PushWide(u, v), k4 + 4) /\ PushWide(u, v).pc = u.pc
        /\ PushWide(u, v).stk = PutWord(PutWord(u.stk, Sp(u) - 2, Num(0)), Sp(u) - 4, v)
    BY <2>2, BelowWide
  <2>5. Sp(u) - 2 = x - 6 /\ Sp(u) - 4 = x - 8
    BY <1>2, <2>3
  <2>6. PutWord(PutWord(u.stk, Sp(u) - 2, Num(0)), Sp(u) - 4, v) = c4
    BY <1>14, <2>2, <2>5
  <2>7. Below(r, PushWide(u, v), k8)
    BY <1>7, <2>4
  <2>8. QED
    BY <1>13, <2>1, <2>2, <2>4, <2>6, <2>7
<1>16. Machine(t3) /\ t3.mem = r.mem
  BY <1>15 DEF Below
<1>17. t4 = Goto(t3, <<"binder", 0>>) /\ ~Waits64(t3.pc)
  BY <1>4, <1>15, <1>16, Jmpa64
<1>18. Below(r, t4, k8) /\ t4.stk = c4 /\ t4.pc = <<"binder", 0>>
  BY <1>15, <1>17, BelowGoto
<1>19. WordIn(c4, x - 4, Num(b.n))
  <2>1. PICK n2, n4, n6, n8 \in Int : n2 = x - 2 /\ n4 = x - 4 /\ n6 = x - 6 /\ n8 = x - 8
    BY <1>2
  <2>2. n4 \in DOMAIN r.stk /\ n4 + 1 \in DOMAIN r.stk /\ n6 + 2 <= n4 /\ n8 + 2 <= n4
    <3>1. DOMAIN r.stk = 0..(Stack - 1)
      BY <1>1
    <3>2. n4 \in 0..(Stack - 1) /\ n4 + 1 \in 0..(Stack - 1)
      BY <1>2, <1>3, <2>1
    <3>3. n6 + 2 <= n4 /\ n8 + 2 <= n4
      BY <1>2, <2>1
    <3>4. QED
      BY <3>1, <3>2, <3>3
  <2>3. Mapping(c1) /\ DOMAIN c1 = DOMAIN r.stk
    BY <1>1, <1>8, <2>1, PutBelow
  <2>4. n4 \in DOMAIN c1 /\ n4 + 1 \in DOMAIN c1
    BY <2>2, <2>3
  <2>5. Mapping(c2) /\ WordIn(c2, n4, Num(b.n))
    BY <1>8, <2>1, <2>3, <2>4, PutBelow
  <2>6. Mapping(c3) /\ \A n \in Int : \A u : n6 + 2 <= n /\ WordIn(c2, n, u) => WordIn(c3, n, u)
    BY <1>14, <2>1, <2>5, PutBelow
  <2>7. \A n \in Int : \A u : n8 + 2 <= n /\ WordIn(c3, n, u) => WordIn(c4, n, u)
    BY <1>14, <2>1, <2>6, PutBelow
  <2>8. QED
    BY <2>1, <2>2, <2>5, <2>6, <2>7
<1>20. WordAt(t4, Sp(t4) + 4) = Num(b.n)
  <2>1. Sp(t4) + 4 = x - 4 /\ x - 4 \in 0..(Stack - 2)
    BY <1>2, <1>3, <1>7, <1>18 DEF Below
  <2>2. WordAt(t4, x - 4) = Num(b.n)
    BY <1>18, <1>19, <2>1, WordThere
  <2>3. QED
    BY <2>1, <2>2
<1>21. ~Waits64(t4.pc)
  BY <1>18 DEF Waits64
<1>22. Reach4(r, t4)
  BY <1>4, <1>11, <1>17 DEF Reach1, Reach2, Reach3, Reach4
<1>23. ToBinder64(r, b, t4)
  BY <1>7, <1>18, <1>20, <1>21, <1>22 DEF ToBinder64
<1>24. QED
  BY <1>23

-----------------------------------------------------------------------------
(* The binder.                                                             *)
LEMMA BoundIs ==
  ASSUME NEW m, Machine(m), NEW o, NEW v
  PROVE  [m EXCEPT !.mem[o] = v, !.pc = v] = Goto([m EXCEPT !.mem[o] = v], v)
<1>1. m = [pc |-> m.pc, zf |-> m.zf, reg |-> m.reg, stk |-> m.stk, mem |-> m.mem]
  BY DEF Machine
<1>2. PICK pc, zf, reg, stk, mem : m = [pc |-> pc, zf |-> zf, reg |-> reg, stk |-> stk, mem |-> mem]
  BY <1>1
<1>3. PICK M : M = [mem EXCEPT ![o] = v]
  OBVIOUS
<1>4. m.mem = mem
  BY <1>2
<1>5. [m EXCEPT !.mem[o] = v, !.pc = v] = [m EXCEPT !.mem = M, !.pc = v]
  BY <1>3, <1>4
<1>6. [m EXCEPT !.mem[o] = v] = [m EXCEPT !.mem = M]
  BY <1>3, <1>4
<1>7. [m EXCEPT !.mem = M, !.pc = v] = [[m EXCEPT !.mem = M] EXCEPT !.pc = v]
  OBVIOUS
<1>8. QED
  BY <1>5, <1>6, <1>7 DEF Goto

LEMMA BindsAlike ==
  ASSUME Built, NEW g, NEW r, Alike(g, r), NEW s, NEW t, Below(g, s, 4), Below(r, t, 8),
         s.pc = <<"binder", 0>>, t.pc = <<"binder", 0>>, NEW n,
         WordAt(s, Sp(s) + 2) = Num(n), WordAt(t, Sp(t) + 4) = Num(n), Sound(Step32(s))
  PROVE  Agree(Step32(s), Step64(t)) /\ Waits32(Step32(s).pc)
<1>1. PICK F, G : /\ F = [k \in DOMAIN old.binds |-> old.binds[k].blob]
                  /\ G = [k \in DOMAIN old.binds |-> In32(old.binds[k].function)]
  OBVIOUS
<1>2. PICK H, I : /\ H = [k \in DOMAIN old.binds |-> res.pointer[<<k, "bind">>]]
                  /\ I = [k \in DOMAIN old.binds |-> In64(old.binds[k].function)]
  OBVIOUS
<1>3. Step32(s) = Bind(s, 4, Num(n), F, G)
  BY <1>1 DEF Step32
<1>4. Step64(t) = Bind(t, 8, Num(n), H, I)
  BY <1>2 DEF Step64
<1>5. PICK k : k = n % Numbers
  OBVIOUS
<1>6. Num(n)[1] = "num" /\ Num(n)[2] = k
  BY <1>5 DEF Num
<1>7. Machine(s) /\ Machine(t)
  BY DEF Below
<1>8. k \in DOMAIN old.binds
  <2> SUFFICES ASSUME k \notin DOMAIN old.binds PROVE FALSE
    OBVIOUS
  <2>1. Step32(s) = Goto(s, Junk)
    BY <1>3, <1>6 DEF Bind
  <2>2. Step32(s).pc = Junk
    BY <1>7, <2>1, GotoKeeps
  <2>3. QED
    BY <2>2 DEF Sound, Junk
<1>9. PICK u, z : u = Move(s, 4) /\ z = Move(t, 8)
  OBVIOUS
<1>10. Alike(u, z) /\ Machine(u) /\ Machine(z)
  <2>1. Alike(u, z)
    BY <1>9, AlikeBelow, 4 \in Nat, 8 \in Nat
  <2>2. QED
    BY <2>1 DEF Alike
<1>11. PICK o, e : o = old.binds[k].blob /\ e = old.binds[k].function
  OBVIOUS
<1>12. PICK v, x : v = At(In32(e)) /\ x = At(In64(e))
  OBVIOUS
<1>13. Step32(s) = Goto([u EXCEPT !.mem[o] = v], v)
  <2>1. F[k] = o /\ G[k] = In32(e)
    BY <1>1, <1>8, <1>11
  <2>2. Step32(s) = [u EXCEPT !.mem[o] = v, !.pc = v]
    BY <1>3, <1>6, <1>8, <1>9, <1>12, <2>1 DEF Bind
  <2>3. QED
    BY <1>10, <2>2, BoundIs
<1>14. Step64(t) = Goto([z EXCEPT !.mem[FirstOf(o)] = x], x)
  <2>1. res.pointer[<<k, "bind">>] = FirstOf(o)
    BY <1>8, <1>11, TInvImplies DEF Built, PointersToFirst
  <2>2. H[k] = FirstOf(o) /\ I[k] = In64(e)
    BY <1>2, <1>8, <1>11, <2>1
  <2>3. Step64(t) = [z EXCEPT !.mem[FirstOf(o)] = x, !.pc = x]
    BY <1>4, <1>6, <1>8, <1>9, <1>12, <2>2 DEF Bind
  <2>4. QED
    BY <1>10, <2>3, BoundIs
<1>15. o \in Data /\ old.blobs[o].op # "nonlazy" /\ e \in DOMAIN old.blobs
       /\ old.blobs[In32(e)].sect \in Compared
  <2>1. old \in Programs
    BY BuiltParts
  <2>2. o \in DOMAIN old.blobs
    BY <1>8, <1>11, <2>1, OldParts
  <2>3. old.blobs[o].op = "lazy" /\ e \in DOMAIN old.blobs /\ old.blobs[In32(e)].sect \in Compared
    BY <1>8, <1>11, <2>1, CompiledAssumption DEF In32
  <2>4. QED
    BY <2>2, <2>3 DEF Data, IsData
<1>16. SameValue(v, x)
  <2>1. In32(e) \in DOMAIN old.blobs /\ old.blobs[In32(e)].op # "placeholder"
    BY <1>15, In32Is
  <2>2. In64(In32(e)) = In64(e)
    BY <1>15, Through
  <2>3. QED
    BY <1>12, <2>1, <2>2, Values DEF SameValue
<1>17. Alike([u EXCEPT !.mem[o] = v], [z EXCEPT !.mem[FirstOf(o)] = x])
  BY <1>10, <1>15, <1>16, AlikeStore
<1>18. Agree(Goto([u EXCEPT !.mem[o] = v], v), Goto([z EXCEPT !.mem[FirstOf(o)] = x], x))
  BY <1>16, <1>17, AgreeGoto
<1>19. Waits32(Step32(s).pc)
  <2>1. PICK w : w = [u EXCEPT !.mem[o] = v]
    OBVIOUS
  <2>2. Machine(w)
    BY <1>17, <2>1 DEF Alike
  <2>3. Step32(s).pc = v
    BY <1>13, <2>1, <2>2, GotoKeeps
  <2>4. v[1] = "at" /\ v[2] = In32(e)
    BY <1>12 DEF At
  <2>5. QED
    BY <1>15, <2>3, <2>4 DEF Waits32
<1>20. QED
  BY <1>13, <1>14, <1>18, <1>19

LEMMA NotComparedAt ==
  ASSUME NEW n, old.blobs[n].sect \notin Compared
  PROVE  ~Waits32(At(n))
BY DEF Waits32, At

(* From a stub helper both programs get to the function, the old one after *)
(* four steps.                                                             *)
LEMMA HelperLate ==
  ASSUME Built, NEW g, NEW r, Agree(g, r), NEW h \in DOMAIN old.blobs, old.blobs[h].op = "helper",
         g.pc = At(h), Sp(g) \in 16..Stack, NEW m, Reaches(m, r)
  PROVE  Late4(g, m)
<1>1. PICK b : b = old.blobs[h]
  OBVIOUS
<1>2. PICK i, j, y : Chain(h, b, i, j, y)
  BY <1>1, ChainIs
<1>3. PICK s1, s2, s3 : s1 = Step32(g) /\ s2 = Step32(s1) /\ s3 = Step32(s2)
  OBVIOUS
<1>4. Alike(g, r) /\ SameValue(g.pc, r.pc)
  BY DEF Agree
<1>5. /\ Machine(g) /\ DOMAIN g.stk = 0..(Stack - 1) /\ Data \subseteq DOMAIN g.mem
      /\ \A o \in Data : old.blobs[o].op = "nonlazy" => g.mem[o] = <<"binder", 0>>
  BY <1>4 DEF Alike, SameStack, SameMemory
<1>6. g.mem[y] = <<"binder", 0>>
  BY <1>2, <1>5 DEF Chain
<1>7. ToBinder32(g, b, i, j, s1, s2, s3)
  BY <1>2, <1>3, <1>5, <1>6, Binder32
<1>8. ~Waits32(s1.pc) /\ ~Waits32(s2.pc) /\ ~Waits32(s3.pc)
  <2>1. old.blobs[i].sect \notin Compared /\ old.blobs[j].sect \notin Compared
    BY <1>2 DEF Chain
  <2>2. ~Waits32(<<"binder", 0>>)
    BY DEF Waits32
  <2>3. QED
    BY <1>7, <2>1, <2>2, NotComparedAt DEF ToBinder32
<1>9. r.pc = At(FirstOf(h))
  <2>1. In32(h) = h /\ In64(h) = FirstOf(In32(h))
    BY In32Is, In64Is
  <2>2. r.pc = At(In64(h))
    BY <1>4, Values DEF SameValue
  <2>3. QED
    BY <2>1, <2>2
<1>10. PICK t : ToBinder64(r, b, t)
  BY <1>2, <1>4, <1>9, Binder64
<1>11. PICK u : u = Step64(t)
  OBVIOUS
<1>12. Reaches(r, u)
  <2>1. Reach4(r, t) /\ ~Waits64(t.pc)
    BY <1>10 DEF ToBinder64
  <2>2. Reach5(r, u)
    BY <1>11, <2>1, ReachOn
  <2>3. QED
    BY <2>2 DEF Reaches
<1>13. ~Waits64(r.pc)
  BY <1>2, <1>9, Helper64
<1>14. Below(g, s3, 4) /\ s3.pc = <<"binder", 0>> /\ WordAt(s3, Sp(s3) + 2) = Num(b.n)
  BY <1>7 DEF ToBinder32
<1>15. Below(r, t, 8) /\ t.pc = <<"binder", 0>> /\ WordAt(t, Sp(t) + 4) = Num(b.n)
  BY <1>10 DEF ToBinder64
<1>16. ASSUME Sound(Step32(s3)) PROVE Waits32(Step32(s3).pc) /\ Arrives(Step32(s3), m)
  <2>1. Agree(Step32(s3), u) /\ Waits32(Step32(s3).pc)
    BY <1>4, <1>11, <1>14, <1>15, <1>16, BindsAlike
  <2>2. Arrives(Step32(s3), m)
    BY <1>12, <1>13, <2>1 DEF Arrives
  <2>3. QED
    BY <2>1, <2>2
<1>17. Late1(s3, m)
  BY <1>16 DEF Late1
<1>18. Late2(s2, m)
  BY <1>3, <1>8, <1>17 DEF Late2
<1>19. Late3(s1, m)
  BY <1>3, <1>8, <1>18 DEF Late3
<1>20. QED
  BY <1>3, <1>8, <1>19 DEF Late4

LEMMA AgreeWaits ==
  ASSUME Built, NEW p, NEW q, Agree(p, q), Waits32(p.pc)
  PROVE  Waits64(q.pc)
<1>1. Value(p.pc) /\ q.pc = Turned(p.pc)
  BY DEF Agree, SameValue
<1>2. CASE p.pc[1] = "exit"
  BY <1>1, <1>2 DEF Turned, Waits64
<1>3. CASE p.pc[1] = "at" /\ old.blobs[p.pc[2]].sect \in Compared
  <2>1. PICK o : o = p.pc[2]
    OBVIOUS
  <2>2. o \in DOMAIN old.blobs /\ old.blobs[o].op # "placeholder" /\ old.blobs[o].sect \in Compared
    BY <1>1, <1>3, <2>1 DEF Value
  <2>3. PICK f, list : f = FirstOf(o) /\ list = Transformed(old.blobs[o])
    OBVIOUS
  <2>4. q.pc = At(f)
    <3>1. q.pc = At(In64(o))
      BY <1>1, <1>3, <2>1 DEF Turned
    <3>2. In64(o) = FirstOf(In32(o)) /\ In32(o) = o
      BY <2>2, In32Is, In64Is
    <3>3. QED
      BY <2>3, <3>1, <3>2
  <2>5. BlockOf(o, f, list)
    BY <2>2, <2>3, BlockIs
  <2>10. f \in Int /\ 1 \in DOMAIN list
    BY <2>5 DEF BlockOf, Listed
  <2>6. f + 1 - 1 = f
    BY <2>10
  <2>7. new[f].from = o
    <3>1. new[f] = MadeOf(list[1], o)
      BY <2>5, <2>6, <2>10 DEF BlockOf
    <3>2. QED
      BY <3>1 DEF MadeOf
  <2>8. q.pc[1] = "at" /\ q.pc[2] = f
    BY <2>4 DEF At
  <2>9. QED
    BY <2>2, <2>3, <2>7, <2>8 DEF Waits64
<1>4. QED
  BY <1>2, <1>3 DEF Waits32

(* After a step of the old program from where both agree.                  *)
Next32(w, q) ==
  /\ Waits32(w.pc) => Arrives(w, q)
  /\ ~Waits32(w.pc) => Late(w, q)

LEMMA NotData ==
  ASSUME NEW p, Machine(p), NEW o, p.pc = At(o), Sound(Step32(p))
  PROVE  ~IsData(old.blobs[o])
<1> SUFFICES ASSUME IsData(old.blobs[o]) PROVE FALSE
  OBVIOUS
<1>1. PICK b, a, w : b = old.blobs[o] /\ a = At(In32(o + 1)) /\ w = Step32(p)
  OBVIOUS
<1>2. w = Exec32(Goto(p, a), b, In32(b.at))
  BY <1>1, Step32At
<1>3. Does32(Goto(p, a), b, In32(b.at), w)
  BY <1>2, DoesAll32
<1>4. b.op \in {"word", "lazy", "nonlazy"}
  BY <1>1 DEF IsData
<1>5. w = Goto(Goto(p, a), Junk)
  BY <1>3, <1>4 DEF Does32, Common
<1>6. w.pc = Junk
  BY <1>5, GotoKeeps
<1>7. QED
  BY <1>1, <1>6 DEF Sound, Junk

LEMMA UsableIs ==
  ASSUME Built, NEW p, NEW q, Agree(p, q), NEW o \in DOMAIN old.blobs, p.pc = At(o),
         NEW w, Proper(p, w), NEW b, b = old.blobs[o], b.sect \in Compared
  PROVE  /\ Usable(p, b)
         /\ b.op \in {"jmp", "jz", "call", "mova", "pusha", "jmpa", "helper"} => b.at # 0
<1>1. old \in Programs
  BY BuiltParts
<1>2. AsCompiled(old.blobs, b)
  BY <1>1, CompiledAssumption
<1>3. b.n \in Nat
  <2>1. old.blobs \in Seq(OldBlob)
    BY <1>1, ProgramsAssumption
  <2>2. b \in OldBlob
    BY <2>1
  <2>3. QED
    BY <2>2 DEF OldBlob
<1>4. DOMAIN p.mem = Data
  BY DEF Agree, Alike, SameMemory
<1>5. PICK v, k : v = p.reg[b.base] /\ k = v[2] + b.n
  OBVIOUS
<1>6. p.pc[2] = o
  BY DEF At
<1>7. /\ b.op \in {"load", "store", "pushm", "jmpm"} /\ v[1] = "at" => {v[2], k} \subseteq Data
      /\ b.op = "store" /\ v[1] = "at" => old.blobs[k].op # "nonlazy"
      /\ b.op = "jmpm" /\ v[1] = "at" =>
           old.blobs[k].op \in {"lazy", "nonlazy"} \/ Read(p, v, b.n + 1) = Num(0)
  BY <1>4, <1>5, <1>6 DEF Proper
<1>8. b.op \in {"load", "store", "pushm", "jmpm"} => InData(v, b.n)
  BY <1>5, <1>7 DEF InData
<1>9. QED
  BY <1>2, <1>3, <1>5, <1>7, <1>8 DEF Usable, AsCompiled

LEMMA OldStep ==
  ASSUME Built, NEW p, NEW q, Agree(p, q), Waits32(p.pc), p.pc[1] = "at",
         NEW w, w = Step32(p), Sound(w), Proper(p, w)
  PROVE  Next32(w, q)
<1>1. PICK o, b : o = p.pc[2] /\ b = old.blobs[o]
  OBVIOUS
<1>2. p.pc = At(o) /\ o \in DOMAIN old.blobs /\ b.op # "placeholder"
  BY <1>1 DEF Agree, SameValue, Value
<1>3. b.sect \in Compared
  BY <1>1 DEF Waits32
<1>4. PICK f, list : f = FirstOf(o) /\ list = Transformed(b)
  OBVIOUS
<1>5. Machine(p)
  BY DEF Agree, Alike
<1>6. ~IsData(b)
  BY <1>1, <1>2, <1>5, NotData
<1>7. /\ Usable(p, b)
      /\ b.op \in {"jmp", "jz", "call", "mova", "pusha", "jmpa", "helper"} => b.at # 0
  BY <1>1, <1>2, <1>3, UsableIs
<1>8. Meet(p, q, o, b, f, list)
  BY <1>1, <1>2, <1>4, <1>6, <1>7 DEF Meet
<1>9. w = Effect(p, o, b)
  BY <1>1, <1>2, Step32At DEF Effect
<1>10. w.pc # Junk
  BY DEF Sound, Junk
<1>11. PICK s : Reaches(q, s) /\ Agree(w, s)
  BY <1>3, <1>8, <1>9, <1>10, FollowsAll DEF Follows
<1>12. CASE Waits32(w.pc)
  BY <1>11, <1>12 DEF Next32, Arrives
<1>13. CASE ~Waits32(w.pc)
  <2>1. \/ w.pc[1] = "exit"
        \/ w.pc[1] = "at" /\ \/ old.blobs[w.pc[2]].sect \in Compared
                             \/ old.blobs[w.pc[2]].op = "helper"
    BY <1>1, <1>3 DEF Proper
  <2>2. PICK h : h = w.pc[2]
    OBVIOUS
  <2>3. w.pc[1] = "at" /\ old.blobs[h].op = "helper"
    BY <1>13, <2>1, <2>2 DEF Waits32
  <2>4. w.pc = At(h) /\ h \in DOMAIN old.blobs
    BY <1>11, <2>2, <2>3 DEF Agree, SameValue, Value
  <2>5. Sp(w) \in 16..Stack
    BY DEF Sound
  <2>6. Late4(w, q)
    BY <1>11, <2>3, <2>4, <2>5, HelperLate
  <2>7. QED
    BY <1>13, <2>6 DEF Next32, Late
<1>14. QED
  BY <1>12, <1>13

LEMMA LateStep ==
  ASSUME NEW p, NEW q, Late(p, q), NEW w, w = Step32(p), Sound(w)
  PROVE  Next32(w, q)
BY DEF Late, Late1, Late2, Late3, Late4, Next32

LEMMA ReachFurther ==
  ASSUME NEW m, NEW s, Reaches(m, s), NEW t, t = Step64(m)
  PROVE  s = t \/ (~Waits64(t.pc) /\ Reaches(t, s))
<1>1. CASE Reach1(m, s)
  BY <1>1 DEF Reach1
<1>2. CASE Reach2(m, s)
  BY <1>2 DEF Reach2, Reaches
<1>3. CASE Reach3(m, s)
  BY <1>3 DEF Reach3, Reaches
<1>4. CASE Reach4(m, s)
  BY <1>4 DEF Reach4, Reaches
<1>5. CASE Reach5(m, s)
  BY <1>5 DEF Reach5, Reaches
<1>6. QED
  BY <1>1, <1>2, <1>3, <1>4, <1>5 DEF Reaches

LEMMA NewStep ==
  ASSUME Built, NEW w, NEW m, Waits32(w.pc), Arrives(w, m), NEW t, t = Step64(m)
  PROVE  /\ Waits64(t.pc) => Agree(w, t)
         /\ ~Waits64(t.pc) => Arrives(w, t)
<1>1. PICK s : /\ Reaches(m, s)
               /\ \/ Agree(w, s)
                  \/ ~Waits64(s.pc) /\ \E u : Reaches(s, u) /\ Agree(w, u)
  BY DEF Arrives
<1>2. s = t \/ (~Waits64(t.pc) /\ Reaches(t, s))
  BY <1>1, ReachFurther
<1>3. CASE s = t
  <2>1. CASE Agree(w, s)
    BY <1>3, <2>1, AgreeWaits
  <2>2. CASE ~Waits64(s.pc) /\ \E u : Reaches(s, u) /\ Agree(w, u)
    BY <1>3, <2>2 DEF Arrives
  <2>3. QED
    BY <1>1, <2>1, <2>2
<1>4. CASE ~Waits64(t.pc) /\ Reaches(t, s)
  BY <1>1, <1>4 DEF Arrives
<1>5. QED
  BY <1>2, <1>3, <1>4

-----------------------------------------------------------------------------
(* The two machines at the start.                                          *)
Start32 == Start(old.blobs, In32(1), [n \in DOMAIN old.blobs |-> old.blobs[n].at])
Start64 ==
  Start(new, In64(1), [n \in DOMAIN new |-> IF new[n].disp = Nowhere THEN 0 ELSE Pointee(n)])

Memory(blobs, to) ==
  [n \in {k \in DOMAIN blobs : IsData(blobs[k])} |->
     IF blobs[n].op = "nonlazy" THEN <<"binder", 0>>
     ELSE IF to[n] # 0 THEN At(Place(blobs, to[n])) ELSE Num(blobs[n].n)]

Started(m, blobs, first, to) ==
  /\ Machine(m) /\ Sp(m) = Stack - 4 /\ m.pc = At(first) /\ m.zf = FALSE
  /\ \A r \in General : m.reg[r] = Num(1)
  /\ m.stk = [k \in 0..(Stack - 1) |-> <<IF k < Stack - 4 THEN Num(1) ELSE <<"exit", 0>>, k % 2>>]
  /\ m.mem = Memory(blobs, to)

LEMMA StartIs ==
  ASSUME NEW blobs, NEW first, NEW to
  PROVE  Started(Start(blobs, first, to), blobs, first, to)
<1> DEFINE m == Start(blobs, first, to)
<1>1. PICK reg : reg = [r \in {"eax", "ecx", "esp", "r11"} |->
                          IF r = "esp" THEN <<"sp", Stack - 4>> ELSE Num(1)]
  OBVIOUS
<1>2. PICK stk : stk = [k \in 0..(Stack - 1) |->
                          <<IF k < Stack - 4 THEN Num(1) ELSE <<"exit", 0>>, k % 2>>]
  OBVIOUS
<1>3. m = [pc |-> At(first), zf |-> FALSE, reg |-> reg, stk |-> stk, mem |-> Memory(blobs, to)]
  BY <1>1, <1>2 DEF Start, Memory
<1>4. PICK pc, mem : pc = At(first) /\ mem = Memory(blobs, to)
  OBVIOUS
<1>5. m = [pc |-> pc, zf |-> FALSE, reg |-> reg, stk |-> stk, mem |-> mem]
  BY <1>3, <1>4
<1>6. m.pc = pc /\ m.zf = FALSE /\ m.reg = reg /\ m.stk = stk /\ m.mem = mem
  BY <1>5
<1>7. m = [pc |-> m.pc, zf |-> m.zf, reg |-> m.reg, stk |-> m.stk, mem |-> m.mem]
  BY <1>5, <1>6
<1>8. reg = [r \in Registers |-> reg[r]]
  BY <1>1 DEF Registers
<1>9. reg["esp"] = <<"sp", Stack - 4>> /\ Stack - 4 \in Int
  BY <1>1, StackAssumption
<1>10. Sp(m) = Stack - 4
  BY <1>6, <1>9 DEF Sp
<1>11. Mapping(stk)
  BY <1>2 DEF Mapping
<1>12. Machine(m)
  BY <1>6, <1>7, <1>8, <1>9, <1>10, <1>11 DEF Machine
<1>13. \A r \in General : m.reg[r] = Num(1)
  BY <1>1, <1>6 DEF General
<1>14. QED
  BY <1>2, <1>4, <1>6, <1>10, <1>12, <1>13 DEF Started

LEMMA SameAddress ==
  ASSUME Built, NEW o \in DOMAIN old.blobs
  PROVE  SameValue(At(In32(o)), At(In64(o)))
<1>1. In32(o) \in DOMAIN old.blobs /\ old.blobs[In32(o)].op # "placeholder"
  BY In32Is
<1>2. In64(In32(o)) = In64(o)
  BY Through
<1>3. QED
  BY <1>1, <1>2, Values DEF SameValue

LEMMA DataIs ==
  ASSUME Built, NEW o \in Data
  PROVE  \E f : /\ f = FirstOf(o) /\ f \in DOMAIN new /\ new[f] = MadeOf(Copy(old.blobs[o]), o)
                /\ o \in DOMAIN old.blobs /\ IsData(old.blobs[o])
<1>1. PICK f, list : f = FirstOf(o) /\ list = Transformed(old.blobs[o])
  OBVIOUS
<1>2. o \in DOMAIN old.blobs /\ IsData(old.blobs[o])
  BY DEF Data
<1>3. BlockOf(o, f, list)
  BY <1>1, <1>2, BlockIs
<1>4. list = <<Copy(old.blobs[o])>>
  <2>1. old.blobs[o].op \notin Replaced
    BY <1>2 DEF IsData, Replaced
  <2>2. QED
    BY <1>3, <2>1 DEF BlockOf, Lists
<1>5. 1 \in DOMAIN list /\ list[1] = Copy(old.blobs[o])
  BY <1>4
<1>6. f \in Int
  BY <1>3 DEF BlockOf
<1>7. f + 1 - 1 = f
  BY <1>6
<1>8. f \in DOMAIN new /\ new[f] = MadeOf(Copy(old.blobs[o]), o)
  BY <1>3, <1>5, <1>7 DEF BlockOf
<1>9. QED
  BY <1>1, <1>2, <1>8

To32 == [n \in DOMAIN old.blobs |-> old.blobs[n].at]
To64 == [n \in DOMAIN new |-> IF new[n].disp = Nowhere THEN 0 ELSE Pointee(n)]
LEMMA BothStarted ==
  Started(Start32, old.blobs, In32(1), To32) /\ Started(Start64, new, In64(1), To64)
<1>1. Start32 = Start(old.blobs, In32(1), To32) /\ Start64 = Start(new, In64(1), To64)
  BY DEF Start32, Start64, To32, To64
<1>2. QED
  BY <1>1, StartIs

LEMMA StartMemory ==
  ASSUME Built, NEW p, NEW q, p = Start32, q = Start64
  PROVE  SameMemory(p, q)
<1>1. PICK to : to = [n \in DOMAIN old.blobs |-> old.blobs[n].at]
  OBVIOUS
<1>2. PICK go : go = [n \in DOMAIN new |-> IF new[n].disp = Nowhere THEN 0 ELSE Pointee(n)]
  OBVIOUS
<1>3. p.mem = Memory(old.blobs, to)
  BY <1>1, BothStarted DEF Started, To32
<1>4. q.mem = Memory(new, go)
  BY <1>2, BothStarted DEF Started, To64
<1>5. DOMAIN p.mem = Data
  BY <1>3 DEF Memory, Data
<1>6. ASSUME NEW o \in Data
      PROVE  /\ FirstOf(o) \in DOMAIN q.mem /\ SameValue(p.mem[o], q.mem[FirstOf(o)])
             /\ old.blobs[o].op = "nonlazy" => p.mem[o] = <<"binder", 0>>
  <2>1. PICK b : b = old.blobs[o]
    OBVIOUS
  <2>2. PICK f : /\ f = FirstOf(o) /\ f \in DOMAIN new /\ new[f] = MadeOf(Copy(b), o)
                 /\ o \in DOMAIN old.blobs /\ IsData(b)
    BY <1>6, <2>1, DataIs
  <2>3. new[f].op = b.op /\ new[f].n = b.n /\ new[f].disp = Disp(b)
    BY <2>2 DEF MadeOf, Copy
  <2>4. IsData(new[f])
    BY <2>2, <2>3 DEF IsData
  <2>5. f \in DOMAIN q.mem
    BY <1>4, <2>2, <2>4 DEF Memory
  <2>6. p.mem[o] = IF b.op = "nonlazy" THEN <<"binder", 0>>
                   ELSE IF b.at # 0 THEN At(In32(b.at)) ELSE Num(b.n)
    <3>1. to[o] = b.at
      BY <1>1, <2>1, <2>2
    <3>2. QED
      BY <1>3, <2>1, <2>2, <3>1 DEF Memory, In32
  <2>7. q.mem[f] = IF b.op = "nonlazy" THEN <<"binder", 0>>
                   ELSE IF go[f] # 0 THEN At(Place(new, go[f])) ELSE Num(b.n)
    BY <1>4, <2>2, <2>3, <2>4 DEF Memory
  <2>8. CASE b.op = "nonlazy"
    BY <2>1, <2>2, <2>5, <2>6, <2>7, <2>8, Values DEF SameValue
  <2>9. CASE b.op # "nonlazy" /\ b.at # 0
    <3>1. b.at \in DOMAIN old.blobs /\ Pointee(f) = FirstOf(b.at) /\ Place(new, Pointee(f)) = In64(b.at)
      BY <2>1, <2>2, <2>3, <2>9, PointeeIs
    <3>2. FirstOf(b.at) \in Nat \ {0}
      BY <3>1, BlockIs DEF BlockOf
    <3>3. new[f].disp # Nowhere
      BY <2>3, <2>9 DEF Disp, Key, Nowhere
    <3>4. go[f] = Pointee(f)
      BY <1>2, <2>2, <3>3
    <3>5. q.mem[f] = At(In64(b.at))
      <4>1. go[f] # 0
        BY <3>1, <3>2, <3>4
      <4>2. QED
        BY <2>7, <2>9, <3>1, <3>4, <4>1
    <3>6. SameValue(At(In32(b.at)), At(In64(b.at)))
      BY <3>1, SameAddress
    <3>7. QED
      BY <2>1, <2>2, <2>5, <2>6, <2>9, <3>5, <3>6
  <2>10. CASE b.op # "nonlazy" /\ b.at = 0
    <3>1. new[f].disp = Nowhere
      BY <2>3, <2>10 DEF Disp
    <3>2. go[f] = 0
      BY <1>2, <2>2, <3>1
    <3>3. p.mem[o] = Num(b.n) /\ q.mem[f] = Num(b.n)
      BY <2>6, <2>7, <2>10, <3>2
    <3>4. QED
      BY <2>1, <2>2, <2>5, <2>10, <3>3, Values DEF SameValue
  <2>11. QED
    BY <2>8, <2>9, <2>10
<1>7. QED
  BY <1>5, <1>6 DEF SameMemory

LEMMA StartAgree ==
  ASSUME Built, NEW p, NEW q, p = Start32, q = Start64
  PROVE  Agree(p, q) /\ Waits32(p.pc)
<1>1. /\ Machine(p) /\ Sp(p) = Stack - 4 /\ p.pc = At(In32(1)) /\ p.zf = FALSE
      /\ \A r \in General : p.reg[r] = Num(1)
      /\ p.stk = [k \in 0..(Stack - 1) |-> <<IF k < Stack - 4 THEN Num(1) ELSE <<"exit", 0>>, k % 2>>]
  BY BothStarted DEF Started
<1>2. /\ Machine(q) /\ Sp(q) = Stack - 4 /\ q.pc = At(In64(1)) /\ q.zf = FALSE
      /\ \A r \in General : q.reg[r] = Num(1)
      /\ q.stk = [k \in 0..(Stack - 1) |-> <<IF k < Stack - 4 THEN Num(1) ELSE <<"exit", 0>>, k % 2>>]
  BY BothStarted DEF Started
<1>3. \A r \in General : SameValue(p.reg[r], q.reg[r])
  BY <1>1, <1>2, Values DEF SameValue
<1>4. SameStack(p, q)
  <2>1. DOMAIN p.stk = 0..(Stack - 1) /\ DOMAIN q.stk = 0..(Stack - 1)
    BY <1>1, <1>2
  <2>2. ASSUME NEW k \in DOMAIN p.stk PROVE SameHalf(p.stk[k], q.stk[k])
    <3>1. PICK v, e : v = (IF k < Stack - 4 THEN Num(1) ELSE <<"exit", 0>>) /\ e = k % 2
      OBVIOUS
    <3>2. p.stk[k] = <<v, e>> /\ q.stk[k] = <<v, e>>
      BY <1>1, <1>2, <2>2, <3>1
    <3>3. Value(v) /\ Turned(v) = v
      BY <3>1, Values
    <3>4. QED
      BY <3>2, <3>3 DEF SameHalf
  <2>3. QED
    BY <2>1, <2>2 DEF SameStack
<1>5. Alike(p, q)
  BY <1>1, <1>2, <1>3, <1>4, StartMemory DEF Alike
<1>6. 1 \in DOMAIN old.blobs /\ old \in Programs
  BY BuiltParts
<1>7. SameValue(p.pc, q.pc)
  BY <1>1, <1>2, <1>6, SameAddress
<1>8. old.blobs[In32(1)].sect \in Compared
  BY <1>6, CompiledAssumption DEF In32
<1>9. Waits32(p.pc)
  BY <1>1, <1>8 DEF Waits32, At
<1>10. QED
  BY <1>5, <1>7, <1>9 DEF Agree

-----------------------------------------------------------------------------
(* The two machines while the programs take turns.                         *)
Sides(p, q) ==
  /\ turn = "old" /\ Waits32(p.pc) => Agree(p, q)
  /\ turn = "old" /\ ~Waits32(p.pc) => Late(p, q)
  /\ turn = "new" => Waits32(p.pc) /\ Arrives(p, q)
SInv == \E p, q : p = m32 /\ q = m64 /\ Sides(p, q)

LEMMA KeptSides ==
  ASSUME Kept, NEW p, NEW q,
         turn' = "old" /\ Waits32(p.pc) => Agree(p, q),
         turn' = "old" /\ ~Waits32(p.pc) => Late(p, q),
         turn' = "new" => Waits32(p.pc) /\ Arrives(p, q)
  PROVE  Sides(p, q)'
<1>1. PICK v : v = p.pc
  OBVIOUS
<1>2. Waits32(v)' <=> Waits32(v)
  BY KeptWaits
<1>3. (Agree(p, q)' <=> Agree(p, q)) /\ (Late(p, q)' <=> Late(p, q)) /\ (Arrives(p, q)' <=> Arrives(p, q))
  BY KeptAgree, KeptLate, KeptArrives
<1>4. QED
  BY <1>1, <1>2, <1>3 DEF Sides

LEMMA StartBuilt == Built => \E p, q : p = Start32 /\ q = Start64 /\ Agree(p, q) /\ Waits32(p.pc)
BY StartAgree

LEMMA StartBuiltNext ==
  (Built => \E p, q : p = Start32 /\ q = Start64 /\ Agree(p, q) /\ Waits32(p.pc))'
BY StartBuilt, PTL

LEMMA KeptStart == Kept => Start32' = Start32 /\ Start64' = Start64
<1> SUFFICES ASSUME Kept PROVE Start32' = Start32 /\ Start64' = Start64
  OBVIOUS
<1>1. old' = old /\ new' = new /\ res' = res
  BY DEF Kept
<1>2. In32(1)' = In32(1) /\ In64(1)' = In64(1) /\ \A n : Pointee(n)' = Pointee(n)
  BY KeptPlaces
<1>3. QED
  BY <1>1, <1>2 DEF Start32, Start64

LEMMA StartStep ==
  ASSUME StartBoth, TInv', BInv'
  PROVE  SInv'
<1>1. Kept /\ turn' = "old" /\ m32' = Start32 /\ m64' = Start64
  BY DEF StartBoth, Kept, Start32, Start64
<1>2. Built'
  BY <1>1 DEF Built, Running
<1>3. PICK p, q : p = Start32' /\ q = Start64' /\ Agree(p, q)' /\ Waits32(p.pc)'
  BY <1>2, StartBuiltNext
<1>4. p = m32' /\ q = m64'
  BY <1>1, <1>3, KeptStart
<1>5. PICK v : v = p.pc
  OBVIOUS
<1>6. Agree(p, q) /\ Waits32(p.pc)
  BY <1>1, <1>3, <1>5, KeptAgree, KeptWaits
<1>7. Sides(p, q)'
  BY <1>1, <1>6, KeptSides
<1>8. QED
  BY <1>4, <1>7 DEF SInv

LEMMA OldTurn ==
  ASSUME TInv, BInv, SInv, NEW w, w = Step32(m32), Ran32(w), turn = "old", Ordinary,
         Run32 \/ (Bind32 /\ m32.pc[1] = "binder")
  PROVE  SInv'
<1>1. Kept /\ m32' = w /\ m64' = m64 /\ Sound(w) /\ turn' = IF Waits32(w.pc) THEN "new" ELSE "old"
  BY DEF Ran32, Kept
<1>2. Built
  BY DEF Built, Running
<1>3. PICK p, q : p = m32 /\ q = m64 /\ Sides(p, q)
  BY DEF SInv
<1>4. w = Step32(p)
  BY <1>3
<1>5. ASSUME Waits32(p.pc) PROVE Next32(w, q)
  <2>1. Agree(p, q)
    BY <1>3, <1>5 DEF Sides
  <2>2. Run32 /\ p.pc[1] = "at"
    BY <1>3, <1>5 DEF Waits32, Run32
  <2>3. Proper(p, w)
    BY <1>1, <1>3, <2>2 DEF Ordinary
  <2>4. Next32(w, q)
    BY <1>1, <1>2, <1>4, <1>5, <2>1, <2>2, <2>3, OldStep
  <2>5. QED
    BY <2>4
<1>6. ASSUME ~Waits32(p.pc) PROVE Next32(w, q)
  <2>1. Late(p, q)
    BY <1>3, <1>6 DEF Sides
  <2>2. Next32(w, q)
    BY <1>1, <1>4, <2>1, LateStep
  <2>3. QED
    BY <2>2
<1>7. Next32(w, q)
  BY <1>5, <1>6
<1>8. Sides(w, q)'
  BY <1>1, <1>7, KeptSides DEF Next32
<1>9. QED
  BY <1>1, <1>3, <1>8 DEF SInv

LEMMA NewTurn ==
  ASSUME TInv, BInv, SInv, NEW t, t = Step64(m64), Ran64(t), turn = "new"
  PROVE  SInv'
<1>1. Kept /\ m64' = t /\ m32' = m32 /\ turn' = IF Waits64(t.pc) THEN "old" ELSE "new"
  BY DEF Ran64, Kept
<1>2. Built
  BY DEF Built, Running
<1>3. PICK p, q : p = m32 /\ q = m64 /\ Sides(p, q)
  BY DEF SInv
<1>4. Waits32(p.pc) /\ Arrives(p, q) /\ t = Step64(q)
  BY <1>3 DEF Sides
<1>5. /\ Waits64(t.pc) => Agree(p, t)
      /\ ~Waits64(t.pc) => Arrives(p, t)
  BY <1>2, <1>4, NewStep
<1>6. Sides(p, t)'
  BY <1>1, <1>4, <1>5, KeptSides
<1>7. QED
  BY <1>1, <1>3, <1>6 DEF SInv

LEMMA NextSInv == TInv /\ BInv /\ SInv /\ [Next]_vars /\ [Ordinary]_vars /\ TInv' /\ BInv' => SInv'
<1> SUFFICES ASSUME TInv, BInv, SInv, [Next]_vars, [Ordinary]_vars, TInv', BInv' PROVE SInv'
  OBVIOUS
<1>1. ASSUME turn' \notin {"old", "new"} PROVE SInv'
  <2>1. PICK p, q : p = m32' /\ q = m64'
    OBVIOUS
  <2>2. Sides(p, q)'
    BY <1>1 DEF Sides
  <2>3. QED
    BY <2>1, <2>2 DEF SInv
<1>2. CASE turn = "transform" /\ turn' = turn
  BY <1>1, <1>2
<1>3. CASE TransformBlob
  BY <1>2, <1>3 DEF TransformBlob
<1>4. CASE TransformThrows
  BY <1>1, <1>4 DEF TransformThrows
<1>5. CASE \E o \in DOMAIN old.blobs : TransformRebase(o)
  BY <1>2, <1>5 DEF TransformRebase, Transforming
<1>6. CASE \E k \in DOMAIN old.binds : TransformBind(k)
  BY <1>2, <1>6 DEF TransformBind, Transforming
<1>7. CASE StartBoth
  BY <1>7, StartStep
<1>8. CASE Run32 /\ Ordinary
  <2>1. PICK w : w = Step32(m32)
    OBVIOUS
  <2>2. Ran32(w) /\ turn = "old"
    BY <1>8, <2>1 DEF Run32, Step32
  <2>3. QED
    BY <1>8, <2>1, <2>2, OldTurn
<1>9. CASE Bind32 /\ Ordinary
  <2>1. PICK w : w = Step32(m32)
    OBVIOUS
  <2>2. m32.pc[1] = "binder" /\ turn = "old"
    BY <1>9 DEF Bind32
  <2>3. Ran32(w)
    BY <1>9, <2>1, <2>2 DEF Bind32, Step32
  <2>4. QED
    BY <1>9, <2>1, <2>2, <2>3, OldTurn
<1>10. CASE Run64
  <2>1. PICK t : t = Step64(m64)
    OBVIOUS
  <2>2. Ran64(t) /\ turn = "new"
    BY <1>10, <2>1 DEF Run64, Step64, Next64
  <2>3. QED
    BY <2>1, <2>2, NewTurn
<1>11. CASE Bind64
  <2>1. PICK t : t = Step64(m64)
    OBVIOUS
  <2>2. m64.pc[1] = "binder" /\ turn = "new"
    BY <1>11 DEF Bind64
  <2>3. Ran64(t)
    BY <1>11, <2>1, <2>2 DEF Bind64, Step64
  <2>4. QED
    BY <2>1, <2>2, <2>3, NewTurn
<1>12. CASE UNCHANGED vars
  <2>1. Kept /\ turn' = turn /\ m32' = m32 /\ m64' = m64
    BY <1>12 DEF vars, Kept
  <2>2. PICK p, q : p = m32 /\ q = m64 /\ Sides(p, q)
    BY DEF SInv
  <2>3. Sides(p, q)'
    BY <2>1, <2>2, KeptSides DEF Sides
  <2>4. QED
    BY <2>1, <2>2, <2>3 DEF SInv
<1>13. QED
  BY <1>3, <1>4, <1>5, <1>6, <1>7, <1>8, <1>9, <1>10, <1>11, <1>12 DEF Next

LEMMA InitSInv == Init => SInv
<1> SUFFICES ASSUME Init PROVE SInv
  OBVIOUS
<1>1. turn = "transform"
  BY DEF Init
<1>2. PICK p, q : p = m32 /\ q = m64
  OBVIOUS
<1>3. Sides(p, q)
  BY <1>1 DEF Sides
<1>4. QED
  BY <1>2, <1>3 DEF SInv

-----------------------------------------------------------------------------
LEMMA SameIs ==
  ASSUME NEW v, NEW w, SameValue(v, w)
  PROVE  Same(v, w)
BY DEF SameValue, Turned, Same

LEMMA AgreeIsSame ==
  ASSUME Built, NEW p, NEW q, p = m32, q = m64, Agree(p, q)
  PROVE  SameEffect
<1>1. Alike(p, q) /\ SameValue(p.pc, q.pc)
  BY DEF Agree
<1>2. Same(p.pc, q.pc)
  BY <1>1, SameIs
<1>3. p.zf = q.zf
  BY <1>1 DEF Alike
<1>4. ASSUME NEW r \in {"eax", "ecx", "esp"} PROVE Same(p.reg[r], q.reg[r])
  <2>1. CASE r \in General
    BY <1>1, <2>1, SameIs DEF Alike
  <2>2. CASE r = "esp"
    <3>1. p.reg["esp"] = <<"sp", Sp(p)>> /\ q.reg["esp"] = <<"sp", Sp(p)>>
      BY <1>1, SpRegister
    <3>2. QED
      BY <2>2, <3>1 DEF Same
  <2>3. QED
    BY <1>4, <2>1, <2>2 DEF General
<1>5. ASSUME NEW k \in Sp(p)..(Stack - 2) PROVE Same(WordAt(p, k), WordAt(q, k))
  <2>1. Sp(p) \in Int
    BY <1>1, SpRegister
  <2>2. k \in Int /\ Sp(p) <= k
    BY <2>1
  <2>3. SameValue(WordAt(p, k), WordAt(q, k))
    BY <1>1, <2>2, AlikeWord
  <2>4. QED
    BY <2>3, SameIs
<1>6. ASSUME NEW o \in DOMAIN p.mem PROVE Same(p.mem[o], q.mem[FirstOf(o)])
  <2>1. SameValue(p.mem[o], q.mem[FirstOf(o)])
    BY <1>1, <1>6 DEF Alike, SameMemory
  <2>2. QED
    BY <2>1, SameIs
<1>7. QED
  BY <1>2, <1>3, <1>4, <1>5, <1>6 DEF SameEffect

LEMMA SInvImplies == TInv /\ BInv /\ SInv => SameEffect
<1> SUFFICES ASSUME TInv, BInv, SInv, turn = "old", Waits32(m32.pc) PROVE SameEffect
  BY DEF SameEffect
<1>1. Built
  BY DEF Built, Running
<1>2. PICK p, q : p = m32 /\ q = m64 /\ Sides(p, q)
  BY DEF SInv
<1>3. Agree(p, q)
  BY <1>2 DEF Sides
<1>4. QED
  BY <1>1, <1>2, <1>3, AgreeIsSame

(* Unless the transformation refuses the i386 program (for one, a call     *)
(* through memory aborts it): whatever that program does, if its           *)
(* instructions are used as those of compiled programs are, the new one    *)
(* does the same.  Each time the old one has come to an instruction or a   *)
(* stub and the new one has caught up, both are at the same place with the *)
(* same registers, zero flag, stack words and memory.  This holds for      *)
(* archives of any size, any number of steps, calls, direct or through a   *)
(* register, and lazy bindings, and a stack of any depth.                  *)
THEOREM TransformedSameEffect == Spec /\ [][Ordinary]_vars => []SameEffect
<1>1. Init => TInv /\ BInv /\ SInv
  BY InitTInv, InitBInv, InitSInv
<1>2. TInv /\ BInv /\ SInv /\ [Next]_vars /\ [Ordinary]_vars => TInv' /\ BInv' /\ SInv'
  BY NextTInv, NextBInv, NextSInv
<1>3. QED
  BY <1>1, <1>2, SInvImplies, PTL DEF Spec

=============================================================================
