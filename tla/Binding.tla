------------------------------- MODULE Binding -------------------------------
(***************************************************************************)
(* What a resolver promises to the constructors that use it.  Objects get  *)
(* known under a key, pointers ask for a key, and now and then pointers    *)
(* are bound: each to the object of the key it asked for, once, never to   *)
(* be changed.  Nothing is said of when.                                   *)
(***************************************************************************)
CONSTANTS Keys, Objects, Pointers

VARIABLES known, asked, bound   (* functions: key to object, pointer to key, *)
                                (* pointer to object                         *)
bvars == <<known, asked, bound>>

Extend(f, x, v) == [y \in DOMAIN f \cup {x} |-> IF y = x THEN v ELSE f[y]]
Nothing == [x \in {} |-> x]

BInit == known = Nothing /\ asked = Nothing /\ bound = Nothing

Bind ==
  \E B \in SUBSET (DOMAIN asked' \ DOMAIN bound) :
    /\ \A p \in B : asked'[p] \in DOMAIN known'
    /\ bound' = [p \in DOMAIN bound \cup B |->
                   IF p \in B THEN known'[asked'[p]] ELSE bound[p]]

Learn == \E k \in Keys \ DOMAIN known, v \in Objects :
           known' = Extend(known, k, v) /\ UNCHANGED asked
Ask == \E p \in Pointers \ DOMAIN asked, k \in Keys :
         asked' = Extend(asked, p, k) /\ UNCHANGED known
Settle == UNCHANGED <<known, asked>>

BNext == (Learn \/ Ask \/ Settle) /\ Bind
BSpec == BInit /\ [][BNext]_bvars

=============================================================================
