----------------------------- MODULE ImageProofs -----------------------------
(***************************************************************************)
(* For any page size, files, accesses and bytes: no store of an image      *)
(* faults, and the image implements ByteArray whichever system calls fail. *)
(***************************************************************************)
EXTENDS Image, TLAPS

Busy == {"extend", "unmap", "double", "remap", "store"}

(* The three sizes, by the call that comes next.                           *)
Roomy == filesize <= length /\ filesize <= mapsize
SizesInStep ==
  /\ stage = "open" => length = filesize
  /\ stage \in {"ready", "store"} => img = "mapped" /\ Roomy
  /\ stage = "extend" => img = "mapped" /\ mapsize # 0
  /\ stage \in {"unmap", "double"} => length = filesize /\ mapsize < filesize
  /\ stage = "remap" => length = mapsize /\ mapsize = filesize * 2 /\ mapsize # 0

(* What keeps every truncation from losing a byte.                         *)
StoredInside == \A o \in DOMAIN disk : o < filesize

AccessInside ==
  stage \in Busy =>
    /\ access.hi <= filesize
    /\ \E n \in Sizes : access.lo \in Offsets /\ access.hi = access.lo + n

Alive == stage \in Busy \cup {"open", "ready"} => fd = "open"
ResultWhenClosed == result # None <=> stage = "closed"

IInv == TypeOK /\ SizesInStep /\ StoredInside /\ AccessInside /\ Alive /\ ResultWhenClosed

LEMMA IInvNoFault == IInv => NoFault
BY DEF IInv, TypeOK, SizesInStep, Roomy, AccessInside, Alive, NoFault, Busy, Access

LEMMA InitIInv == Init => IInv
<1> SUFFICES ASSUME Init PROVE IInv
  OBVIOUS
<1>1. PICK v \in Byte : disk = [o \in 0..(length - 1) |-> v]
  BY DEF Init
<1>2. length \in Nat
  BY AccessAssumption DEF Init
<1>3. TypeOK
  BY <1>1, <1>2 DEF Init, TypeOK, Stages, Access
<1>4. StoredInside
  BY <1>1, <1>2 DEF Init, StoredInside
<1> QED
  BY <1>3, <1>4, NoneAssumption DEF Init, IInv, SizesInStep, AccessInside, Busy, Alive,
     ResultWhenClosed

(* A truncation behind every stored byte leaves what is stored.            *)
LEMMA TruncateKeeps ==
  ASSUME TypeOK, NEW n \in Nat, \A o \in DOMAIN disk : o < n, Truncate(n)
  PROVE  disk' = disk /\ length' = n
<1>1. {x \in DOMAIN disk : x < n} = DOMAIN disk
  OBVIOUS
<1>2. disk = [o \in DOMAIN disk |-> disk[o]]
  BY DEF TypeOK
<1> QED
  BY <1>1, <1>2 DEF Truncate

(* A store that does not fault reaches all of its bytes.                   *)
LEMMA StoreReaches ==
  ASSUME IInv, stage = "store"
  PROVE  Reached = access.lo..(access.hi - 1)
BY DEF IInv, TypeOK, SizesInStep, Roomy, AccessInside, Busy, Access, Reached

LEMMA DiskBelow ==
  ASSUME IInv, NEW n \in Nat, filesize <= n
  PROVE  /\ \A o \in DOMAIN disk : o < n
         /\ DOMAIN disk \subseteq 0..(n - 1)
BY DEF IInv, TypeOK, StoredInside

-----------------------------------------------------------------------------
LEMMA NextIInv == IInv /\ [Next]_vars => IInv'
<1> SUFFICES ASSUME IInv, [Next]_vars PROVE IInv'
  OBVIOUS
<1>t. TypeOK /\ SizesInStep /\ StoredInside /\ AccessInside /\ Alive /\ ResultWhenClosed
  BY DEF IInv
<1>u. /\ stage \in Stages /\ length \in Nat /\ filesize \in Nat /\ mapsize \in Nat
      /\ access \in Access /\ access.lo \in Nat /\ access.hi \in Nat
      /\ DOMAIN disk \subseteq 0..(length - 1) /\ disk \in [DOMAIN disk -> Byte]
  BY <1>t DEF TypeOK, Access
<1>1. CASE Construct
  <2>1. mapsize' \in Nat \ {0} /\ filesize <= mapsize'
    BY <1>1, <1>t, <1>u, PageAssumption DEF Construct, Larger, SizesInStep
  <2> QED
    BY <1>1, <2>1, <1>t, <1>u DEF Construct, IInv, TypeOK, Stages, SizesInStep, Roomy,
       StoredInside, AccessInside, Busy, Alive, ResultWhenClosed
<1>2. CASE ConstructFails
  BY <1>2, <1>t, <1>u DEF ConstructFails, IInv, TypeOK, Stages, SizesInStep, StoredInside,
     AccessInside, Busy, Alive, ResultWhenClosed
<1>3. ASSUME NEW lo \in Offsets, NEW n \in Sizes, NEW v \in Byte, Request(lo, lo + n, v)
      PROVE  IInv'
  <2>1. lo \in Nat /\ lo + n \in Nat
    BY AccessAssumption
  <2>2. /\ access' = [lo |-> lo, hi |-> lo + n, byte |-> v]
        /\ access' \in Access /\ access'.hi = lo + n /\ access'.lo = lo
    BY <1>3, <2>1 DEF Request, Access
  <2>3. /\ filesize' \in Nat /\ filesize <= filesize' /\ lo + n <= filesize'
        /\ \/ stage' = "extend"
           \/ stage' = "store" /\ filesize' = filesize
    BY <1>3, <1>u, <2>1 DEF Request, Grow
  <2>4. TypeOK'
    BY <1>3, <1>t, <1>u, <2>2, <2>3 DEF Request, TypeOK, Stages
  <2>5. SizesInStep'
    BY <1>3, <1>t, <1>u, <2>3 DEF Request, SizesInStep, Roomy, TypeOK
  <2>6. StoredInside'
    BY <1>3, <1>t, <1>u, <2>3 DEF Request, StoredInside
  <2>7. AccessInside'
    BY <2>2, <2>3 DEF AccessInside
  <2> QED
    BY <1>3, <1>t, <2>3, <2>4, <2>5, <2>6, <2>7 DEF Request, IInv, Alive, ResultWhenClosed, Busy
<1>4. ASSUME NEW lo \in Offsets, NEW n \in Sizes, NEW v \in Byte, RawCopy(lo, lo + n, v)
      PROVE  IInv'
  <2>1. lo \in Nat /\ lo + n \in Nat
    BY AccessAssumption
  <2>2. /\ access' = [lo |-> lo, hi |-> lo + n, byte |-> v]
        /\ access' \in Access /\ access'.hi = lo + n /\ access'.lo = lo
    BY <1>4, <2>1 DEF RawCopy, Access
  <2>3. stage' = "store" /\ filesize' = filesize /\ lo + n <= filesize
    BY <1>4, <1>u, <2>1 DEF RawCopy, Grow
  <2> QED
    BY <1>4, <1>t, <1>u, <2>2, <2>3 DEF RawCopy, IInv, TypeOK, Stages, SizesInStep, Roomy,
       StoredInside, AccessInside, Busy, Alive, ResultWhenClosed
<1>5. CASE Extend
  <2>1. disk' = disk /\ length' = filesize
    BY <1>5, <1>t, <1>u, TruncateKeeps DEF Extend, StoredInside
  <2>2. DOMAIN disk \subseteq 0..(filesize - 1)
    BY <1>u, DiskBelow
  <2> QED
    BY <1>5, <1>t, <1>u, <2>1, <2>2 DEF Extend, NeedsMapping, IInv, TypeOK, Stages, SizesInStep,
       Roomy, StoredInside, AccessInside, Busy, Alive, ResultWhenClosed
<1>6. CASE Unmap
  BY <1>6, <1>t, <1>u DEF Unmap, IInv, TypeOK, Stages, SizesInStep, StoredInside, AccessInside,
     Busy, Alive, ResultWhenClosed
<1>7. CASE Double
  <2>1. filesize * 2 \in Nat /\ filesize <= filesize * 2 /\ filesize # 0
    BY <1>7, <1>t, <1>u DEF Double, SizesInStep
  <2>2. disk' = disk /\ length' = filesize * 2
    BY <1>7, <1>t, <2>1, DiskBelow, TruncateKeeps DEF Double
  <2>3. DOMAIN disk \subseteq 0..(filesize * 2 - 1)
    BY <2>1, DiskBelow
  <2> QED
    BY <1>7, <1>t, <1>u, <2>1, <2>2, <2>3 DEF Double, IInv, TypeOK, Stages, SizesInStep,
       StoredInside, AccessInside, Busy, Alive, ResultWhenClosed
<1>8. CASE Remap
  BY <1>8, <1>t, <1>u DEF Remap, IInv, TypeOK, Stages, SizesInStep, Roomy, StoredInside,
     AccessInside, Busy, Alive, ResultWhenClosed
<1>9. CASE CallFails
  <2>1. img' \in {"none", "mapped", "unmapped", "null", "failed"} /\ (img' = "mapped" => img = "mapped")
    BY <1>9, <1>t DEF CallFails, TypeOK
  <2> QED
    BY <1>9, <1>t, <1>u, <2>1 DEF CallFails, IInv, TypeOK, Stages, SizesInStep, StoredInside,
       AccessInside, Busy, Alive, ResultWhenClosed
<1>10. CASE Store
  <2>1. Reached = access.lo..(access.hi - 1)
    BY <1>10, StoreReaches DEF Store
  <2>2. access.hi <= filesize /\ filesize <= length /\ access.byte \in Byte
    BY <1>10, <1>t, <1>u DEF Store, AccessInside, Busy, SizesInStep, Roomy, Access
  <2>3. DOMAIN disk' = DOMAIN disk \cup Reached /\ disk' \in [DOMAIN disk' -> Byte]
    BY <1>10, <1>u, <2>2 DEF Store
  <2>4. DOMAIN disk' \subseteq 0..(length - 1) /\ \A o \in DOMAIN disk' : o < filesize
    BY <1>t, <1>u, <2>1, <2>2, <2>3 DEF StoredInside
  <2> QED
    BY <1>10, <1>t, <1>u, <2>3, <2>4 DEF Store, IInv, TypeOK, Stages, SizesInStep, Roomy,
       StoredInside, AccessInside, Busy, Alive, ResultWhenClosed
<1>11. CASE Destroy
  <2>1. disk' = disk /\ length' = filesize
    BY <1>11, <1>t, <1>u, TruncateKeeps DEF Destroy, StoredInside
  <2>2. DOMAIN disk \subseteq 0..(filesize - 1)
    BY <1>u, DiskBelow
  <2> QED
    BY <1>11, <1>t, <1>u, <2>1, <2>2, NoneAssumption DEF Destroy, IInv, TypeOK, Stages,
       SizesInStep, StoredInside, AccessInside, Busy, Alive, ResultWhenClosed
<1>12. CASE DestroyUncut
  BY <1>12, <1>t, <1>u DEF DestroyUncut, IInv, TypeOK, Stages, SizesInStep, StoredInside,
     AccessInside, Busy, Alive, ResultWhenClosed
<1>13. CASE Killed
  BY <1>13, <1>t, <1>u DEF Killed, IInv, TypeOK, Stages, SizesInStep, StoredInside,
     AccessInside, Busy, Alive, ResultWhenClosed
<1>14. CASE UNCHANGED vars
  BY <1>14, <1>t DEF vars, IInv, TypeOK, SizesInStep, Roomy, StoredInside, AccessInside,
     Alive, ResultWhenClosed
<1> QED
  BY <1>1, <1>2, <1>3, <1>4, <1>5, <1>6, <1>7, <1>8, <1>9, <1>10, <1>11, <1>12, <1>13, <1>14
     DEF Next

THEOREM InvariantHolds == Spec => []IInv
BY InitIInv, NextIInv, PTL DEF Spec

(* The image keeps its types, for any page size, files and accesses.       *)
THEOREM TypeCorrect == Spec => []TypeOK
<1>1. IInv => TypeOK
  BY DEF IInv
<1> QED
  BY <1>1, InvariantHolds, PTL

(* No store of an image is outside its mapping or after the end of its     *)
(* file: Image::at, copy and memset never hand out memory that faults.     *)
THEOREM StoresDoNotFault == Spec => []NoFault
BY IInvNoFault, InvariantHolds, PTL

-----------------------------------------------------------------------------
LEMMA InitImplements == Init => Array!AInit
<1> SUFFICES ASSUME Init PROVE Array!AInit
  OBVIOUS
<1>1. PICK v \in Byte : disk = [o \in 0..(length - 1) |-> v]
  BY DEF Init
<1> QED
  BY <1>1, AccessAssumption DEF Init, Array!AInit

(* The array gets longer when grow does, is written by Store and closed by *)
(* a destructor that cuts the file; every other step is a stutter.         *)
LEMMA StepImplements == IInv /\ [Next]_vars => [Array!ANext]_(Array!avars)
<1> SUFFICES ASSUME IInv, Next PROVE Array!ANext \/ UNCHANGED <<disk, filesize, result>>
  BY DEF vars, Array!avars
<1>t. TypeOK /\ SizesInStep /\ StoredInside /\ AccessInside /\ ResultWhenClosed
  BY DEF IInv
<1>1. CASE Construct \/ ConstructFails \/ Unmap \/ Remap \/ CallFails \/ DestroyUncut \/ Killed
  BY <1>1 DEF Construct, ConstructFails, Unmap, Remap, CallFails, DestroyUncut, Killed
<1>2. ASSUME NEW lo \in Offsets, NEW n \in Sizes, NEW v \in Byte, Request(lo, lo + n, v)
      PROVE  Array!ANext \/ UNCHANGED <<disk, filesize, result>>
  <2>1. CASE lo + n > filesize
    <3>1. Array!ALengthen(lo + n)
      BY <1>2, <2>1 DEF Request, Grow, Array!ALengthen
    <3> QED
      BY <3>1 DEF Array!ANext
  <2>2. CASE ~(lo + n > filesize)
    BY <1>2, <2>2 DEF Request, Grow
  <2> QED
    BY <2>1, <2>2
<1>3. ASSUME NEW lo \in Offsets, NEW n \in Sizes, NEW v \in Byte, RawCopy(lo, lo + n, v)
      PROVE  UNCHANGED <<disk, filesize, result>>
  <2>1. lo \in Nat /\ lo + n \in Nat /\ filesize \in Nat
    BY <1>t, AccessAssumption DEF TypeOK
  <2> QED
    BY <1>3, <2>1 DEF RawCopy, Grow
<1>4. CASE Extend
  BY <1>4, <1>t, TruncateKeeps DEF Extend, TypeOK, StoredInside
<1>5. CASE Double
  <2>1. filesize * 2 \in Nat /\ filesize <= filesize * 2
    BY <1>t DEF TypeOK
  <2> QED
    BY <1>5, <1>t, <2>1, DiskBelow, TruncateKeeps DEF Double
<1>6. CASE Store
  <2>1. PICK n \in Sizes : access.lo \in Offsets /\ access.hi = access.lo + n
    BY <1>6, <1>t DEF Store, AccessInside, Busy
  <2>2. access.hi <= filesize /\ access.byte \in Byte /\ result = None
    BY <1>6, <1>t DEF Store, AccessInside, Busy, TypeOK, Access, ResultWhenClosed
  <2>3. disk' = Array!Overlay(disk, access.lo..(access.hi - 1), access.byte)
    BY <1>6, StoreReaches DEF Store, Array!Overlay
  <2>4. Array!AStore(access.lo, access.lo + n, access.byte)
    BY <1>6, <2>1, <2>2, <2>3 DEF Store, Array!AStore
  <2> QED
    BY <2>1, <2>2, <2>4 DEF Array!ANext
<1>7. CASE Destroy
  <2>1. disk' = disk
    BY <1>7, <1>t, TruncateKeeps DEF Destroy, TypeOK, StoredInside
  <2>2. Array!AClose
    BY <1>7, <1>t, <2>1 DEF Destroy, ResultWhenClosed, Array!AClose
  <2> QED
    BY <2>2 DEF Array!ANext
<1> QED
  BY <1>1, <1>2, <1>3, <1>4, <1>5, <1>6, <1>7 DEF Next

(* An image is an array of bytes: see module ByteArray.                    *)
THEOREM ImageImplements == Spec => Implements
BY InitImplements, StepImplements, InvariantHolds, PTL DEF Spec, Implements, Array!ASpec

=============================================================================
