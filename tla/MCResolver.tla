----------------------------- MODULE MCResolver -----------------------------
(* A resolver with two keys, two objects and three pointers: a key with    *)
(* two pointers waiting, one that is never found, and the assertion.       *)
EXTENDS Resolver
=============================================================================
