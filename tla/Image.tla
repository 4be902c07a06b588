-------------------------------- MODULE Image --------------------------------
(***************************************************************************)
(* MachO::Image: a file mapped into memory that grows under the code that  *)
(* writes to it.  at<T>(index), copy and memset call grow, which makes the *)
(* file longer and, if the mapping is too short, unmaps it, doubles the    *)
(* file and maps it again; the destructor cuts the file to its length.     *)
(*                                                                         *)
(* Every system call may fail, which throws, and the process may be killed *)
(* between any two of them.  No command catches what the image throws:     *)
(* whether the destructor runs then is left to the implementation.         *)
(*                                                                         *)
(* The file is a length and the bytes stored in it; the others are zero.   *)
(***************************************************************************)
EXTENDS Naturals

CONSTANTS
  PageSize,
  Lengths,          (* lengths of the files that are opened                *)
  Offsets, Sizes,   (* of the accesses                                     *)
  Byte,
  None              (* no length, no byte                                  *)

ASSUME PageAssumption == PageSize \in Nat \ {0}
ASSUME AccessAssumption == Lengths \subseteq Nat /\ Offsets \subseteq Nat /\ Sizes \subseteq Nat
ASSUME NoneAssumption == None \notin Nat

VARIABLES
  stage,      (* the system call or access that comes next                 *)
  length,     (* of the file                                               *)
  disk,       (* bytes stored in the file                                  *)
  filesize, mapsize,
  img,        (* "mapped", or why there is no mapping at img               *)
  fd,         (* "open" or "closed"                                        *)
  access,     (* the access that grow is called for                        *)
  result      (* length of the file after a destructor that could cut it   *)

vars == <<stage, length, disk, filesize, mapsize, img, fd, access, result>>

Access == [lo : Nat, hi : Nat, byte : Byte]
Larger(x, y) == IF x > y THEN x ELSE y

(* ftruncate cuts the file or fills it up with zeros.                      *)
Truncate(n) ==
  /\ length' = n
  /\ disk' = [o \in {x \in DOMAIN disk : x < n} |-> disk[o]]

Init ==
  /\ stage = "open"
  /\ length \in Lengths
  /\ \E v \in Byte : disk = [o \in 0..(length - 1) |-> v]
  /\ filesize = length /\ mapsize = 0 /\ img = "none" /\ fd = "open"
  /\ access \in [lo : {0}, hi : {0}, byte : Byte]
  /\ result = None

-----------------------------------------------------------------------------
ConstructShort ==   \* mutant
  /\ stage = "open"
  /\ mapsize' = length
  /\ img' = "mapped" /\ stage' = "ready"
  /\ UNCHANGED <<length, disk, filesize, fd, access, result>>
Construct ==
  /\ stage = "open"
  /\ mapsize' = Larger(length, PageSize)
  /\ img' = "mapped" /\ stage' = "ready"
  /\ UNCHANGED <<length, disk, filesize, fd, access, result>>

(* fstat or mmap fails: the constructor throws, there is no object.        *)
ConstructFails ==
  /\ stage = "open"
  /\ fd' = "closed" /\ stage' = "dead"
  /\ UNCHANGED <<length, disk, filesize, mapsize, img, access, result>>

(* grow(size) on behalf of a store of the bytes from lo to hi - 1.         *)
Grow(size) ==
  IF size > filesize
  THEN filesize' = size /\ stage' = "extend"
  ELSE stage' = "store" /\ UNCHANGED filesize

(* at<T>(lo) = ..., copy and memset.                                       *)
Request(lo, hi, v) ==
  /\ stage = "ready"
  /\ access' = [lo |-> lo, hi |-> hi, byte |-> v]
  /\ Grow(hi)
  /\ UNCHANGED <<length, disk, mapsize, img, fd, result>>

(* memcpy(&at<char>(lo), ...): grow is told of one byte only.  The load    *)
(* commands that do so are written into space that a segment's contents    *)
(* have stretched the file over before: RawInFile in module Emission.      *)
RawCopy(lo, hi, v) ==
  /\ stage = "ready" /\ lo < hi /\ hi <= filesize
  /\ access' = [lo |-> lo, hi |-> hi, byte |-> v]
  /\ Grow(lo + 1)
  /\ UNCHANGED <<length, disk, mapsize, img, fd, result>>

NeedsMapping == filesize > mapsize
Extend ==
  /\ stage = "extend"
  /\ Truncate(filesize)
  /\ stage' = IF NeedsMapping THEN "unmap" ELSE "store"
  /\ UNCHANGED <<filesize, mapsize, img, fd, access, result>>

Unmap ==
  /\ stage = "unmap"
  /\ img' = "unmapped" /\ stage' = "double"
  /\ UNCHANGED <<length, disk, filesize, mapsize, fd, access, result>>

DoubleMapsize ==   \* mutant
  /\ stage = "double"
  /\ Truncate(mapsize * 2) /\ mapsize' = mapsize * 2
  /\ stage' = "remap"
  /\ UNCHANGED <<filesize, img, fd, access, result>>
Double ==
  /\ stage = "double"
  /\ Truncate(filesize * 2) /\ mapsize' = filesize * 2
  /\ stage' = "remap"
  /\ UNCHANGED <<filesize, img, fd, access, result>>

Remap ==
  /\ stage = "remap"
  /\ img' = "mapped" /\ stage' = "store"
  /\ UNCHANGED <<length, disk, filesize, mapsize, fd, access, result>>

(* A failure leaves the fields as the statements before it have set them.  *)
CallFails ==
  /\ stage \in {"extend", "unmap", "double", "remap"}
  /\ stage' = "threw"
  /\ img' = CASE stage = "unmap" -> "null" [] stage = "remap" -> "failed" [] OTHER -> img
  /\ fd' = IF stage = "remap" THEN "closed" ELSE fd
  /\ UNCHANGED <<length, disk, filesize, mapsize, access, result>>

(* Bytes after the end of the file are not part of it, though its last     *)
(* page is mapped.                                                         *)
Reached == {o \in access.lo..(access.hi - 1) : o < length /\ o < mapsize}
Store ==
  /\ stage = "store"
  /\ disk' = [o \in DOMAIN disk \cup Reached |->
                IF o \in Reached THEN access.byte ELSE disk[o]]
  /\ stage' = "ready"
  /\ UNCHANGED <<length, filesize, mapsize, img, fd, access, result>>

(* The destructor does not look at what its calls return.                  *)
DestroyLong ==   \* mutant
  /\ stage \in {"ready", "threw"} /\ fd = "open"
  /\ result' = length
  /\ img' = "unmapped" /\ fd' = "closed" /\ stage' = "closed"
  /\ UNCHANGED <<length, disk, filesize, mapsize, access>>
Destroy ==
  /\ stage \in {"ready", "threw"} /\ fd = "open"
  /\ Truncate(filesize) /\ result' = filesize
  /\ img' = "unmapped" /\ fd' = "closed" /\ stage' = "closed"
  /\ UNCHANGED <<filesize, mapsize, access>>

DestroyUncut ==
  /\ stage \in {"ready", "threw"}
  /\ img' = "unmapped" /\ fd' = "closed" /\ stage' = "uncut"
  /\ UNCHANGED <<length, disk, filesize, mapsize, access, result>>

Killed ==
  /\ stage \notin {"dead", "closed", "uncut"}
  /\ stage' = "dead" /\ fd' = "closed"
  /\ UNCHANGED <<length, disk, filesize, mapsize, img, access, result>>

Next ==
  \/ Construct \/ ConstructFails
  \/ \E lo \in Offsets, n \in Sizes, v \in Byte : Request(lo, lo + n, v) \/ RawCopy(lo, lo + n, v)
  \/ Extend \/ Unmap \/ Double \/ Remap \/ CallFails \/ Store
  \/ Destroy \/ DestroyUncut \/ Killed

Spec == Init /\ [][Next]_vars

-----------------------------------------------------------------------------
Stages == {"open", "ready", "extend", "unmap", "double", "remap", "store",
           "threw", "closed", "uncut", "dead"}

TypeOK ==
  /\ stage \in Stages
  /\ length \in Nat /\ filesize \in Nat /\ mapsize \in Nat
  /\ DOMAIN disk \subseteq 0..(length - 1) /\ disk \in [DOMAIN disk -> Byte]
  /\ img \in {"none", "mapped", "unmapped", "null", "failed"}
  /\ fd \in {"open", "closed"}
  /\ access \in Access
  /\ result \in Nat \cup {None}
  /\ img = "mapped" => mapsize # 0   (* mmap refuses an empty mapping *)

(* Every store is to mapped memory that the file backs: a store outside    *)
(* the mapping, or to a page after the end of the file, kills the process, *)
(* and one to the last page after the end of the file is lost.  grow keeps *)
(* three sizes - of the file, of the mapping and the one it reports - in   *)
(* step over two truncations, one of which makes the file shorter again.   *)
NoFault ==
  stage = "store" =>
    /\ img = "mapped" /\ fd = "open"
    /\ access.hi <= mapsize /\ access.hi <= length

(* The image is an array of bytes (module ByteArray), whatever fails: no   *)
(* truncation, remapping, failure or kill loses a byte stored before, and  *)
(* a destructor that can cut the file leaves it as long as was asked for.  *)
Array == INSTANCE ByteArray WITH content <- disk, len <- filesize, Open <- None

Implements == Array!ASpec

=============================================================================
