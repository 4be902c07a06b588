----------------------------- MODULE ResolverOps -----------------------------
(***************************************************************************)
(* Resolver<T, U, lazy>: a table of the objects made so far, by key, and   *)
(* the pointers that wait for an object that is not made yet.  A resolver  *)
(* is a record of the two maps of the class and of the pointers it was     *)
(* handed, so that the modules that own one (ParseEnv has six,             *)
(* TransformEnv one) keep it in a variable of theirs.                      *)
(*                                                                         *)
(* The maps are functions on the keys they hold.  The list of the nodes    *)
(* that wait for a key is a set: its members are patched one by one with   *)
(* the same value, and what their callbacks do does not reach the resolver.*)
(***************************************************************************)
CONSTANT Null   (* a pointer that no object was stored in *)

Put(f, x, v) == [y \in DOMAIN f \cup {x} |-> IF y = x THEN v ELSE f[y]]
Without(f, x) == [y \in DOMAIN f \ {x} |-> f[y]]
NoEntries == [x \in {} |-> Null]

NewResolver(lazy) ==
  [lazy |-> lazy, found |-> NoEntries, todo |-> NoEntries, pointer |-> NoEntries]

Waiting(r, key) == IF key \in DOMAIN r.todo THEN r.todo[key] ELSE {}

PatchAll(r, key, v) ==   \* mutant
  [p \in DOMAIN r.pointer |->
     IF \E x \in DOMAIN r.todo : p \in r.todo[x] THEN v ELSE r.pointer[p]]
Patch(r, key, v) ==
  [p \in DOMAIN r.pointer |-> IF p \in Waiting(r, key) THEN v ELSE r.pointer[p]]

(* add asserts that a key is not given to a second object.                 *)
Clash(r, key, v) == key \in DOMAIN r.found /\ r.found[key] # v

(* An eager resolver serves the pointers that wait for the key; a lazy one *)
(* leaves them to do_resolve.  insert keeps an object that is there.       *)
AddNotServing(r, key, v) ==   \* mutant
  [lazy |-> r.lazy, todo |-> r.todo, pointer |-> r.pointer,
   found |-> IF key \in DOMAIN r.found THEN r.found ELSE Put(r.found, key, v)]
Add(r, key, v) ==
  [lazy |-> r.lazy,
   found |-> IF key \in DOMAIN r.found THEN r.found ELSE Put(r.found, key, v),
   todo |-> IF r.lazy THEN r.todo ELSE Without(r.todo, key),
   pointer |-> IF r.lazy THEN r.pointer ELSE Patch(r, key, v)]

(* A pointer whose object is there is bound at once; the others queue, and *)
(* what they hold is left alone.                                           *)
BindNow(r, key, p) ==
  [lazy |-> r.lazy, found |-> r.found, todo |-> r.todo,
   pointer |-> Put(r.pointer, p, r.found[key])]
QueueForgetting(r, key, p) ==   \* mutant
  [lazy |-> r.lazy, found |-> r.found, todo |-> Put(r.todo, key, {p}), pointer |-> r.pointer]
Queue(r, key, p) ==
  [lazy |-> r.lazy, found |-> r.found,
   todo |-> Put(r.todo, key, Waiting(r, key) \cup {p}), pointer |-> r.pointer]
Resolve(r, key, p) ==
  IF key \in DOMAIN r.found THEN BindNow(r, key, p) ELSE Queue(r, key, p)

(* What the constructors do that ask for an object: they set a pointer of  *)
(* theirs to null, and hand it in.                                         *)
Created(r, p) ==
  [lazy |-> r.lazy, found |-> r.found, todo |-> r.todo, pointer |-> Put(r.pointer, p, Null)]
Ask(r, key, p) == Resolve(Created(r, p), key, p)

(* One turn of the loop of do_resolve.  The entry is erased whether its    *)
(* key was found or not: a pointer whose key was not found is given up.    *)
DrainForgetting(r, key) ==   \* mutant
  [lazy |-> r.lazy, found |-> r.found, todo |-> Without(r.todo, key), pointer |-> r.pointer]
DrainInserting(r, key) ==   \* mutant: found[key], which inserts a null
  LET found == IF key \in DOMAIN r.found THEN r.found ELSE Put(r.found, key, Null)
  IN [lazy |-> r.lazy, found |-> found, todo |-> Without(r.todo, key),
      pointer |-> Patch(r, key, found[key])]
DrainKeeping(r, key) ==   \* mutant
  [lazy |-> r.lazy, found |-> r.found, todo |-> r.todo,
   pointer |-> IF key \in DOMAIN r.found THEN Patch(r, key, r.found[key])
               ELSE r.pointer]
DrainEntry(r, key) ==
  [lazy |-> r.lazy, found |-> r.found, todo |-> Without(r.todo, key),
   pointer |-> IF key \in DOMAIN r.found THEN Patch(r, key, r.found[key])
               ELSE r.pointer]

=============================================================================
