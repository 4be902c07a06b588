------------------------------ MODULE Resolver ------------------------------
(***************************************************************************)
(* A resolver and the code around it.  The code is one thread, but which   *)
(* object it makes first and which pointer it asks for first is decided by *)
(* the file that is read or by the archive that is transformed, so calls   *)
(* come in any order: that of a forward reference, that of a backward one, *)
(* and those between two do_resolve.                                       *)
(***************************************************************************)
EXTENDS ResolverOps

CONSTANTS Keys, Objects, Pointers

ASSUME NullAssumption == Null \notin Objects

VARIABLES
  resolver,   (* the maps of the class                                     *)
  draining,   (* do_resolve runs                                           *)
  aborted,    (* the assertion of add failed                               *)
  asked,      (* history: the key each pointer was handed in for           *)
  givenUp     (* history: the pointers do_resolve erased without an object *)

vars == <<resolver, draining, aborted, asked, givenUp>>

Init ==
  /\ resolver \in {NewResolver(lazy) : lazy \in BOOLEAN}
  /\ draining = FALSE /\ aborted = FALSE
  /\ asked = NoEntries /\ givenUp = {}

Idle == ~draining /\ ~aborted

AddKey(key, v) ==
  /\ Idle
  /\ IF Clash(resolver, key, v)
     THEN aborted' = TRUE /\ UNCHANGED resolver
     ELSE resolver' = Add(resolver, key, v) /\ UNCHANGED aborted
  /\ UNCHANGED <<draining, asked, givenUp>>

(* Each pointer is a field of an object and handed in by its constructor.  *)
ResolvePointer(key, p) ==
  /\ Idle /\ p \notin DOMAIN asked
  /\ resolver' = Ask(resolver, key, p)
  /\ asked' = Put(asked, p, key)
  /\ UNCHANGED <<draining, aborted, givenUp>>

BeginDrain ==
  /\ Idle /\ resolver.lazy   (* only ParseEnv's lazy resolvers are drained *)
  /\ draining' = TRUE
  /\ UNCHANGED <<resolver, aborted, asked, givenUp>>

(* A std::map goes through its keys in order, and for keys that are        *)
(* addresses of objects the order is arbitrary.                            *)
DrainKey(key) ==
  /\ draining /\ key \in DOMAIN resolver.todo
  /\ resolver' = DrainEntry(resolver, key)
  /\ givenUp' = IF key \in DOMAIN resolver.found THEN givenUp
                ELSE givenUp \cup Waiting(resolver, key)
  /\ UNCHANGED <<draining, aborted, asked>>

EndDrain ==
  /\ draining /\ DOMAIN resolver.todo = {}
  /\ draining' = FALSE
  /\ UNCHANGED <<resolver, aborted, asked, givenUp>>

Next ==
  \/ \E key \in Keys, v \in Objects : AddKey(key, v)
  \/ \E key \in Keys, p \in Pointers : ResolvePointer(key, p)
  \/ BeginDrain \/ EndDrain
  \/ \E key \in Keys : DrainKey(key)

Spec == Init /\ [][Next]_vars

-----------------------------------------------------------------------------
IsMap(f, D, R) == DOMAIN f \subseteq D /\ f \in [DOMAIN f -> R]

TypeOK ==
  /\ draining \in BOOLEAN /\ aborted \in BOOLEAN
  /\ IsMap(asked, Pointers, Keys)
  /\ givenUp \subseteq DOMAIN asked
  /\ resolver.lazy \in BOOLEAN
  /\ IsMap(resolver.found, Keys, Objects)
  /\ IsMap(resolver.todo, Keys, SUBSET DOMAIN asked)
  /\ resolver.pointer \in [DOMAIN asked -> Objects \cup {Null}]

Bound(p) == resolver.pointer[p] # Null

(* A pointer handed to a resolver is in one place: bound, or waiting under *)
(* the key it was handed in for and no other, or given up by a do_resolve  *)
(* that did not know the key.  The two maps and the callbacks are updated  *)
(* by three functions; none of them may drop a pointer or patch it twice.  *)
Accounted ==
  \A p \in DOMAIN asked :
    /\ \A key \in Keys : p \in Waiting(resolver, key) => key = asked[p]
    /\ ~Bound(p) => (p \in Waiting(resolver, asked[p]) <=> p \notin givenUp)
    /\ Bound(p) => p \notin Waiting(resolver, asked[p]) /\ p \notin givenUp

(* An eager resolver never leaves a pointer waiting for an object it has:  *)
(* whichever of the two came first, the pointer is bound as soon as both   *)
(* are there.  A transformed archive is used without any further pass over *)
(* its pointers (Archive(const Archive<opposite<b>>&, TransformEnv&)).     *)
Prompt ==
  ~resolver.lazy =>
    \A p \in DOMAIN asked : asked[p] \in DOMAIN resolver.found => Bound(p)

(* A resolver is a binding: see module Binding.                            *)
Promise == INSTANCE Binding WITH
  known <- resolver.found, asked <- asked,
  bound <- [p \in {q \in DOMAIN resolver.pointer : Bound(q)} |-> resolver.pointer[p]]

Implements == Promise!BSpec

=============================================================================
