------------------------------ MODULE ByteArray ------------------------------
(***************************************************************************)
(* What Image promises to the code that emits an archive: an array of      *)
(* bytes that is as long as the furthest byte asked for, keeps every byte  *)
(* stored in it until that byte is stored again, and becomes a file of     *)
(* that length when it is closed.                                          *)
(***************************************************************************)
EXTENDS Naturals

CONSTANTS
  Offsets, Sizes,   (* of the accesses                                     *)
  Byte,
  Open              (* the length of a file that is not closed             *)

VARIABLES
  content,   (* bytes stored, by offset                                    *)
  len,       (* one more than the largest offset asked for                 *)
  result     (* length of the closed file                                  *)

avars == <<content, len, result>>

Overlay(f, S, v) == [o \in DOMAIN f \cup S |-> IF o \in S THEN v ELSE f[o]]

AInit == content \in [DOMAIN content -> Byte] /\ len \in Nat /\ result = Open

ALengthen(n) == n > len /\ len' = n /\ UNCHANGED <<content, result>>

(* The bytes from lo to hi - 1 are set to v.                               *)
AStore(lo, hi, v) ==
  /\ result = Open /\ hi <= len
  /\ content' = Overlay(content, lo..(hi - 1), v)
  /\ UNCHANGED <<len, result>>

AClose == result = Open /\ result' = len /\ UNCHANGED <<content, len>>

ANext ==
  \/ \E lo \in Offsets, n \in Sizes, v \in Byte : ALengthen(lo + n) \/ AStore(lo, lo + n, v)
  \/ AClose

ASpec == AInit /\ [][ANext]_avars

=============================================================================
