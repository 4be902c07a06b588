------------------------------- MODULE MCImage -------------------------------
(* A page of four bytes; accesses inside it, across its end and beyond     *)
(* twice its size, so that the file doubles twice and is cut in between.   *)
EXTENDS Image

MCOffsets == {0, 3, 9}
MCSizes == {0, 1, 2}
MCLengths == {0, 5}
=============================================================================
