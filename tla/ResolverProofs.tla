--------------------------- MODULE ResolverProofs ---------------------------
(***************************************************************************)
(* For any keys, objects and pointers, and calls in any order: a resolver  *)
(* keeps its types, loses no pointer, is prompt when it is eager, and      *)
(* implements Binding.                                                     *)
(***************************************************************************)
EXTENDS Resolver, ResolverOpsProofs

(* A bound pointer holds the object of its key: with Accounted, what the   *)
(* step that binds more pointers needs to know about those bound before.   *)
BoundRight ==
  \A p \in DOMAIN asked : Bound(p) =>
    asked[p] \in DOMAIN resolver.found /\ resolver.pointer[p] = resolver.found[asked[p]]

(* An eager resolver waits for no key it has: add serves them first.       *)
WaitsForUnknown ==
  ~resolver.lazy => DOMAIN resolver.todo \cap DOMAIN resolver.found = {}
NothingGivenUp == ~resolver.lazy => givenUp = {} /\ ~draining

IInv == TypeOK /\ Accounted /\ BoundRight /\ WaitsForUnknown /\ NothingGivenUp

(* Prompt needs no induction of its own: an unbound pointer waits for its  *)
(* key, and an eager resolver waits for no key it has.                     *)
LEMMA IInvPrompt == IInv => Prompt
BY DEF IInv, TypeOK, Accounted, WaitsForUnknown, NothingGivenUp, Prompt, Waiting, IsMap

LEMMA InitIInv == Init => IInv
<1> SUFFICES ASSUME Init PROVE IInv
  OBVIOUS
<1>1. PICK lazy \in BOOLEAN : resolver = NewResolver(lazy)
  BY DEF Init
<1> QED
  BY <1>1 DEF Init, NewResolver, NoEntries, IInv, TypeOK, IsMap, Accounted, BoundRight,
     WaitsForUnknown, NothingGivenUp

-----------------------------------------------------------------------------
(* What a call leaves in the fields of the resolver.                       *)
LEMMA AddFields ==
  ASSUME NEW key, NEW v
  PROVE  LET s == Add(resolver, key, v) IN
         /\ s.lazy = resolver.lazy
         /\ s.found = IF key \in DOMAIN resolver.found THEN resolver.found
                      ELSE Put(resolver.found, key, v)
         /\ s.todo = IF resolver.lazy THEN resolver.todo ELSE Without(resolver.todo, key)
         /\ s.pointer = IF resolver.lazy THEN resolver.pointer ELSE Patch(resolver, key, v)
BY DEF Add

LEMMA DrainFields ==
  ASSUME NEW key
  PROVE  LET s == DrainEntry(resolver, key) IN
         /\ s.lazy = resolver.lazy
         /\ s.found = resolver.found
         /\ s.todo = Without(resolver.todo, key)
         /\ s.pointer = IF key \in DOMAIN resolver.found
                        THEN Patch(resolver, key, resolver.found[key])
                        ELSE resolver.pointer
BY DEF DrainEntry

-----------------------------------------------------------------------------
(* The three calls keep the invariant.                                     *)
LEMMA AddKeepsIInv ==
  ASSUME IInv, NEW key \in Keys, NEW v \in Objects,
         ~Clash(resolver, key, v), ~draining, ~aborted,
         resolver' = Add(resolver, key, v),
         UNCHANGED <<draining, aborted, asked, givenUp>>
  PROVE  IInv'
<1>a. /\ resolver'.lazy = resolver.lazy
      /\ resolver'.found = IF key \in DOMAIN resolver.found THEN resolver.found
                           ELSE Put(resolver.found, key, v)
      /\ resolver'.todo = IF resolver.lazy THEN resolver.todo
                          ELSE Without(resolver.todo, key)
      /\ resolver'.pointer = IF resolver.lazy THEN resolver.pointer
                             ELSE Patch(resolver, key, v)
  BY AddFields
<1>t. TypeOK /\ Accounted /\ BoundRight /\ WaitsForUnknown /\ NothingGivenUp
  BY DEF IInv
<1>p. \A p \in DOMAIN asked :
        resolver'.pointer[p] = IF ~resolver.lazy /\ p \in Waiting(resolver, key)
                               THEN v ELSE resolver.pointer[p]
  BY <1>a, <1>t DEF TypeOK, Patch
<1>w. \A k \in Keys : Waiting(resolver, k)' = IF ~resolver.lazy /\ k = key THEN {}
                                              ELSE Waiting(resolver, k)
  BY <1>a, <1>t DEF TypeOK, Waiting, Without
<1>f. /\ DOMAIN resolver'.found = DOMAIN resolver.found \cup {key}
      /\ \A k \in DOMAIN resolver.found : resolver'.found[k] = resolver.found[k]
      /\ resolver'.found[key] = v
  BY <1>a, <1>t DEF TypeOK, IsMap, Put, Clash
<1>1. TypeOK'
  <2>1. IsMap(resolver.found, Keys, Objects)'
    BY <1>a, <1>t DEF TypeOK, IsMap, Put
  <2>2. IsMap(resolver.todo, Keys, SUBSET DOMAIN asked)'
    BY <1>a, <1>t DEF TypeOK, IsMap, Without
  <2>3. (resolver.pointer \in [DOMAIN asked -> Objects \cup {Null}])'
    BY <1>a, <1>t DEF TypeOK, IsMap, Patch
  <2> QED
    BY <1>a, <1>t, <2>1, <2>2, <2>3 DEF TypeOK, IsMap
<1>2. Accounted'
  BY <1>p, <1>w, <1>t, <1>a, NullAssumption DEF TypeOK, IsMap, Accounted, Bound
<1>3. BoundRight'
  BY <1>p, <1>f, <1>t, <1>a, NullAssumption
     DEF TypeOK, IsMap, Accounted, Bound, BoundRight, WaitsForUnknown, Waiting
<1>4. WaitsForUnknown' /\ NothingGivenUp'
  BY <1>a, <1>f, <1>t DEF TypeOK, IsMap, WaitsForUnknown, NothingGivenUp, Without
<1> QED
  BY <1>1, <1>2, <1>3, <1>4 DEF IInv

LEMMA ResolveKeepsIInv ==
  ASSUME IInv, NEW key \in Keys, NEW p \in Pointers, ResolvePointer(key, p)
  PROVE  IInv'
<1> DEFINE hit == key \in DOMAIN resolver.found
<1>0. Asks(resolver, key, p, resolver')
  <2>1. resolver' = Ask(resolver, key, p)
    BY DEF ResolvePointer
  <2>2. QED
    BY <2>1, AskFields
<1>a. /\ resolver'.lazy = resolver.lazy
      /\ resolver'.found = resolver.found
      /\ resolver'.todo = IF hit THEN resolver.todo
                          ELSE Put(resolver.todo, key, Waiting(resolver, key) \cup {p})
      /\ resolver'.pointer = Put(resolver.pointer, p, IF hit THEN resolver.found[key] ELSE Null)
  BY <1>0 DEF Asks
<1>b. /\ p \notin DOMAIN asked /\ asked' = Put(asked, p, key)
      /\ UNCHANGED <<draining, aborted, givenUp>> /\ ~draining
  BY DEF ResolvePointer, Idle
<1>t. TypeOK /\ Accounted /\ BoundRight /\ WaitsForUnknown /\ NothingGivenUp
  BY DEF IInv
<1>d. /\ DOMAIN asked' = DOMAIN asked \cup {p} /\ asked'[p] = key
      /\ \A q \in DOMAIN asked : asked'[q] = asked[q]
  BY <1>b DEF Put
<1>p. /\ resolver'.pointer[p] = IF hit THEN resolver.found[key] ELSE Null
      /\ \A q \in DOMAIN asked : resolver'.pointer[q] = resolver.pointer[q]
  BY <1>a, <1>b, <1>t DEF TypeOK, Put
<1>w. \A k \in Keys : Waiting(resolver, k)' = IF ~hit /\ k = key
                                              THEN Waiting(resolver, key) \cup {p}
                                              ELSE Waiting(resolver, k)
  BY <1>a, <1>t DEF TypeOK, IsMap, Waiting, Put
<1>q. \A k \in Keys : p \notin Waiting(resolver, k)
  BY <1>b, <1>t DEF TypeOK, IsMap, Waiting
<1>1. TypeOK'
  <2>1. IsMap(asked, Pointers, Keys)'
    BY <1>b, <1>t DEF TypeOK, IsMap, Put
  <2>2. Waiting(resolver, key) \subseteq DOMAIN asked
    BY <1>t DEF TypeOK, IsMap, Waiting
  <2>3. IsMap(resolver.todo, Keys, SUBSET DOMAIN asked)'
    BY <1>a, <1>d, <1>t, <2>2 DEF TypeOK, IsMap, Put
  <2>4. (resolver.pointer \in [DOMAIN asked -> Objects \cup {Null}])'
    BY <1>a, <1>d, <1>t DEF TypeOK, IsMap, Put
  <2> QED
    BY <1>a, <1>b, <1>d, <1>t, <2>1, <2>3, <2>4 DEF TypeOK, IsMap
<1>2. Accounted'
  <2> SUFFICES ASSUME NEW q \in DOMAIN asked'
               PROVE  /\ \A k \in Keys : q \in Waiting(resolver', k) => k = asked'[q]
                      /\ resolver'.pointer[q] = Null
                           => (q \in Waiting(resolver', asked'[q]) <=> q \notin givenUp')
                      /\ resolver'.pointer[q] # Null
                           => q \notin Waiting(resolver', asked'[q]) /\ q \notin givenUp'
    BY DEF Accounted, Bound
  <2>1. asked'[q] \in Keys /\ (q # p => q \in DOMAIN asked /\ asked[q] \in Keys)
    BY <1>d, <1>t DEF TypeOK, IsMap
  <2>2. CASE q = p
    BY <2>1, <2>2, <1>b, <1>d, <1>p, <1>w, <1>q, <1>t, NullAssumption DEF TypeOK, IsMap, Bound
  <2>3. CASE q # p
    BY <2>1, <2>3, <1>b, <1>d, <1>p, <1>w, <1>q, <1>t, NullAssumption
       DEF TypeOK, IsMap, Bound, Accounted
  <2> QED
    BY <2>2, <2>3
<1>3. BoundRight'
  BY <1>a, <1>d, <1>p, <1>t, NullAssumption DEF TypeOK, IsMap, Bound, BoundRight
<1>4. WaitsForUnknown' /\ NothingGivenUp'
  BY <1>a, <1>b, <1>t DEF TypeOK, IsMap, WaitsForUnknown, NothingGivenUp, Put
<1> QED
  BY <1>1, <1>2, <1>3, <1>4 DEF IInv

LEMMA DrainKeepsIInv ==
  ASSUME IInv, NEW key \in Keys, DrainKey(key)
  PROVE  IInv'
<1> DEFINE hit == key \in DOMAIN resolver.found
<1>a. /\ resolver'.lazy = resolver.lazy
      /\ resolver'.found = resolver.found
      /\ resolver'.todo = Without(resolver.todo, key)
      /\ resolver'.pointer = IF hit THEN Patch(resolver, key, resolver.found[key])
                             ELSE resolver.pointer
  BY DrainFields DEF DrainKey
<1>b. /\ UNCHANGED <<draining, aborted, asked>> /\ draining
      /\ givenUp' = IF hit THEN givenUp ELSE givenUp \cup Waiting(resolver, key)
  BY DEF DrainKey
<1>t. TypeOK /\ Accounted /\ BoundRight /\ WaitsForUnknown /\ NothingGivenUp
  BY DEF IInv
<1>p. \A p \in DOMAIN asked :
        resolver'.pointer[p] = IF hit /\ p \in Waiting(resolver, key)
                               THEN resolver.found[key] ELSE resolver.pointer[p]
  BY <1>a, <1>t DEF TypeOK, Patch
<1>w. \A k \in Keys : Waiting(resolver, k)' = IF k = key THEN {} ELSE Waiting(resolver, k)
  BY <1>a DEF Waiting, Without
<1>q. Waiting(resolver, key) \subseteq DOMAIN asked
  BY <1>t DEF TypeOK, IsMap, Waiting
<1>1. TypeOK'
  <2>1. IsMap(resolver.todo, Keys, SUBSET DOMAIN asked)'
    BY <1>a, <1>b, <1>t DEF TypeOK, IsMap, Without
  <2>2. (resolver.pointer \in [DOMAIN asked -> Objects \cup {Null}])'
    BY <1>a, <1>b, <1>t DEF TypeOK, IsMap, Patch
  <2> QED
    BY <1>a, <1>b, <1>t, <1>q, <2>1, <2>2 DEF TypeOK, IsMap
<1>2. Accounted'
  BY <1>a, <1>b, <1>p, <1>w, <1>t, NullAssumption DEF TypeOK, IsMap, Accounted, Bound
<1>3. BoundRight'
  BY <1>a, <1>b, <1>p, <1>t, NullAssumption
     DEF TypeOK, IsMap, Accounted, Bound, BoundRight, Waiting
<1>4. WaitsForUnknown' /\ NothingGivenUp'
  BY <1>a, <1>b, <1>t DEF TypeOK, WaitsForUnknown, NothingGivenUp
<1> QED
  BY <1>1, <1>2, <1>3, <1>4 DEF IInv

LEMMA NextIInv == IInv /\ [Next]_vars => IInv'
<1> SUFFICES ASSUME IInv, [Next]_vars PROVE IInv'
  OBVIOUS
<1>1. ASSUME NEW key \in Keys, NEW v \in Objects, AddKey(key, v) PROVE IInv'
  <2>1. CASE Clash(resolver, key, v)
    <3>1. aborted' = TRUE /\ UNCHANGED <<resolver, draining, asked, givenUp>>
      BY <1>1, <2>1 DEF AddKey
    <3> QED
      BY <3>1 DEF IInv, TypeOK, Accounted, Bound, BoundRight, WaitsForUnknown, NothingGivenUp
  <2>2. CASE ~Clash(resolver, key, v)
    BY <1>1, <2>2, AddKeepsIInv DEF AddKey, Idle
  <2> QED
    BY <2>1, <2>2
<1>2. ASSUME NEW key \in Keys, NEW p \in Pointers, ResolvePointer(key, p) PROVE IInv'
  BY <1>2, ResolveKeepsIInv
<1>3. CASE BeginDrain
  BY <1>3 DEF BeginDrain, IInv, TypeOK, Accounted, Bound, BoundRight, WaitsForUnknown,
              NothingGivenUp
<1>4. CASE EndDrain
  BY <1>4 DEF EndDrain, IInv, TypeOK, Accounted, Bound, BoundRight, WaitsForUnknown,
              NothingGivenUp
<1>5. ASSUME NEW key \in Keys, DrainKey(key) PROVE IInv'
  BY <1>5, DrainKeepsIInv
<1>6. CASE UNCHANGED vars
  BY <1>6 DEF vars, IInv, TypeOK, Accounted, Bound, BoundRight, WaitsForUnknown, NothingGivenUp
<1> QED
  BY <1>1, <1>2, <1>3, <1>4, <1>5, <1>6 DEF Next

LEMMA Invariance == Spec => []IInv
<1>1. Init => IInv
  BY InitIInv
<1>2. IInv /\ [Next]_vars => IInv'
  BY NextIInv
<1> QED
  BY <1>1, <1>2, PTL DEF Spec

-----------------------------------------------------------------------------
(* The maps of a resolver hold keys, objects and pointers that were handed *)
(* in, and it remembers every pointer that was.                            *)
THEOREM TypeCorrect == Spec => []TypeOK
<1>1. IInv => TypeOK
  BY DEF IInv
<1> QED
  BY <1>1, Invariance, PTL

(* No pointer handed to a resolver is dropped, queued under another key,   *)
(* or both bound and waiting.                                              *)
THEOREM NoPointerLost == Spec => []Accounted
<1>1. IInv => Accounted
  BY DEF IInv
<1> QED
  BY <1>1, Invariance, PTL

(* An eager resolver, as TransformEnv's, has bound every pointer whose     *)
(* object it has, in whichever order the two came.                         *)
THEOREM EagerIsPrompt == Spec => []Prompt
<1> QED
  BY IInvPrompt, Invariance, PTL

-----------------------------------------------------------------------------
(* Every step of a resolver is a step of Binding or changes nothing of it. *)
LEMMA InitImplements == Init => Promise!BInit
<1> SUFFICES ASSUME Init PROVE Promise!BInit
  OBVIOUS
<1>1. resolver.found = NoEntries /\ resolver.pointer = NoEntries /\ asked = NoEntries
  BY DEF Init, NewResolver
<1>2. NoEntries = Promise!Nothing
  BY DEF NoEntries, Promise!Nothing
<1> QED
  BY <1>1, <1>2 DEF Promise!BInit, NoEntries, Promise!Nothing

(* Pointers that got bound got the object of their key, which is BoundRight *)
(* after the step; those bound before did not change.                      *)
LEMMA BindFollows ==
  ASSUME IInv, IInv',
         \A p \in DOMAIN asked : p \in DOMAIN asked' /\ asked'[p] = asked[p],
         \A p \in DOMAIN asked : Bound(p) => resolver'.pointer[p] = resolver.pointer[p]
  PROVE  Promise!Bind
<1> DEFINE was == {q \in DOMAIN resolver.pointer : Bound(q)}
           is == {q \in DOMAIN resolver'.pointer : resolver'.pointer[q] # Null}
           B == is \ was
<1>1. DOMAIN resolver.pointer = DOMAIN asked /\ DOMAIN resolver'.pointer = DOMAIN asked'
  BY DEF IInv, TypeOK
<1>2. was \subseteq is
  BY <1>1 DEF Bound
<1>3. \A p \in is : /\ asked'[p] \in DOMAIN resolver'.found
                    /\ resolver'.pointer[p] = resolver'.found[asked'[p]]
  BY <1>1 DEF IInv, BoundRight, Bound
<1>4. B \in SUBSET (DOMAIN asked' \ DOMAIN [p \in was |-> resolver.pointer[p]])
  BY <1>1
<1>5. \A p \in was : resolver'.pointer[p] = resolver.pointer[p]
  BY <1>1
<1>6. [p \in is |-> resolver'.pointer[p]]
        = [p \in DOMAIN [q \in was |-> resolver.pointer[q]] \cup B |->
             IF p \in B THEN resolver'.found[asked'[p]]
             ELSE [q \in was |-> resolver.pointer[q]][p]]
  BY <1>2, <1>3, <1>5
<1>7. \A p \in B : asked'[p] \in DOMAIN resolver'.found
  BY <1>3
<1> HIDE DEF B
<1> QED
  BY <1>4, <1>6, <1>7 DEF Promise!Bind, Bound

LEMMA StepImplements == IInv /\ IInv' /\ [Next]_vars => [Promise!BNext]_(Promise!bvars)
<1> SUFFICES ASSUME IInv, IInv', [Next]_vars PROVE [Promise!BNext]_(Promise!bvars)
  OBVIOUS
<1>1. ASSUME NEW key \in Keys, NEW v \in Objects, AddKey(key, v)
      PROVE  [Promise!BNext]_(Promise!bvars)
  <2>1. CASE Clash(resolver, key, v)
    BY <1>1, <2>1 DEF AddKey, Promise!bvars, Bound
  <2>2. CASE ~Clash(resolver, key, v)
    <3>1. resolver' = Add(resolver, key, v) /\ UNCHANGED asked
      BY <1>1, <2>2 DEF AddKey
    <3>2. /\ resolver'.found = IF key \in DOMAIN resolver.found THEN resolver.found
                               ELSE Put(resolver.found, key, v)
          /\ resolver'.pointer = IF resolver.lazy THEN resolver.pointer
                                 ELSE Patch(resolver, key, v)
      BY <3>1, AddFields
    <3>3. \A p \in DOMAIN asked : Bound(p) => resolver'.pointer[p] = resolver.pointer[p]
      BY <3>2 DEF IInv, TypeOK, Accounted, Patch, Bound, Waiting, IsMap
    <3>4. Promise!Bind
      BY <3>1, <3>3, BindFollows
    <3>5. CASE key \in DOMAIN resolver.found
      BY <3>1, <3>2, <3>4, <3>5 DEF Promise!BNext, Promise!Settle
    <3>6. CASE key \notin DOMAIN resolver.found
      <4>1. resolver'.found = Promise!Extend(resolver.found, key, v)
        BY <3>2, <3>6 DEF Put, Promise!Extend
      <4> QED
        BY <3>1, <3>4, <3>6, <4>1 DEF Promise!BNext, Promise!Learn
    <3> QED
      BY <3>5, <3>6
  <2> QED
    BY <2>1, <2>2
<1>2. ASSUME NEW key \in Keys, NEW p \in Pointers, ResolvePointer(key, p)
      PROVE  [Promise!BNext]_(Promise!bvars)
  <2>0. /\ p \notin DOMAIN asked /\ asked' = Put(asked, p, key)
        /\ resolver' = Ask(resolver, key, p)
    BY <1>2 DEF ResolvePointer
  <2>a. Asks(resolver, key, p, resolver')
    BY <2>0, AskFields
  <2>1. /\ p \notin DOMAIN asked /\ asked' = Put(asked, p, key)
        /\ resolver'.found = resolver.found
        /\ \E v : resolver'.pointer = Put(resolver.pointer, p, v)
    BY <2>0, <2>a DEF Asks
  <2>2. \A q \in DOMAIN asked : q \in DOMAIN asked' /\ asked'[q] = asked[q]
    BY <2>1 DEF Put
  <2>3. \A q \in DOMAIN asked : resolver'.pointer[q] = resolver.pointer[q]
    BY <2>1 DEF Put, IInv, TypeOK
  <2>4. Promise!Bind
    BY <2>2, <2>3, BindFollows
  <2>5. asked' = Promise!Extend(asked, p, key)
    BY <2>1 DEF Put, Promise!Extend
  <2> QED
    BY <2>1, <2>4, <2>5 DEF Promise!BNext, Promise!Ask
<1>3. CASE BeginDrain
  BY <1>3 DEF BeginDrain, Promise!bvars, Bound
<1>4. CASE EndDrain
  BY <1>4 DEF EndDrain, Promise!bvars, Bound
<1>5. ASSUME NEW key \in Keys, DrainKey(key) PROVE [Promise!BNext]_(Promise!bvars)
  <2>1. /\ UNCHANGED asked /\ resolver'.found = resolver.found
        /\ resolver'.pointer = IF key \in DOMAIN resolver.found
                               THEN Patch(resolver, key, resolver.found[key])
                               ELSE resolver.pointer
    BY <1>5, DrainFields DEF DrainKey
  <2>2. \A p \in DOMAIN asked : Bound(p) => resolver'.pointer[p] = resolver.pointer[p]
    BY <2>1 DEF IInv, TypeOK, Accounted, Patch, Bound, Waiting, IsMap
  <2>3. Promise!Bind
    BY <2>1, <2>2, BindFollows
  <2> QED
    BY <2>1, <2>3 DEF Promise!BNext, Promise!Settle
<1>6. CASE UNCHANGED vars
  BY <1>6 DEF vars, Promise!bvars, Bound
<1> QED
  BY <1>1, <1>2, <1>3, <1>4, <1>5, <1>6 DEF Next

(* What the constructors rely on: an object never changes under its key,   *)
(* and a pointer is bound once and to the object it asked for.             *)
THEOREM ResolverImplements == Spec => Implements
<1>1. Init => Promise!BInit
  BY InitImplements
<1>2. IInv /\ IInv' /\ [Next]_vars => [Promise!BNext]_(Promise!bvars)
  BY StepImplements
<1> QED
  BY <1>1, <1>2, Invariance, PTL DEF Spec, Implements, Promise!BSpec

=============================================================================
