-------------------------- MODULE ResolverOpsProofs --------------------------
(***************************************************************************)
(* Lemmas about the operations of a resolver, for the proofs about the     *)
(* modules that own one: TransformEnv's and ParseEnv's dylib resolver are  *)
(* eager, ParseEnv's resolvers by address and by offset are lazy.          *)
(***************************************************************************)
EXTENDS ResolverOps, TLAPS

(* What asking for an object leaves in each part of a resolver.            *)
Asks(r, key, p, s) ==
  /\ s.lazy = r.lazy /\ s.found = r.found
  /\ s.todo = IF key \in DOMAIN r.found THEN r.todo
              ELSE Put(r.todo, key, Waiting(r, key) \cup {p})
  /\ s.pointer = Put(r.pointer, p, IF key \in DOMAIN r.found THEN r.found[key] ELSE Null)

LEMMA AskFields ==
  ASSUME NEW r, NEW key, NEW p
  PROVE  Asks(r, key, p, Ask(r, key, p))
<1>1. PICK m : m = Created(r, p)
  OBVIOUS
<1>2. /\ m.lazy = r.lazy /\ m.found = r.found /\ m.todo = r.todo
      /\ m.pointer = Put(r.pointer, p, Null)
  BY <1>1 DEF Created
<1>3. Waiting(m, key) = Waiting(r, key)
  BY <1>2 DEF Waiting
<1>4. \A v : Put(m.pointer, p, v) = Put(r.pointer, p, v)
  BY <1>2 DEF Put
<1>5. Ask(r, key, p) = Resolve(m, key, p)
  BY <1>1 DEF Ask
<1>6. CASE key \in DOMAIN r.found
  <2>1. Resolve(m, key, p) = BindNow(m, key, p)
    BY <1>2, <1>6 DEF Resolve
  <2>2. QED
    BY <1>2, <1>4, <1>5, <1>6, <2>1 DEF BindNow, Asks
<1>7. CASE key \notin DOMAIN r.found
  <2>1. Resolve(m, key, p) = Queue(m, key, p)
    BY <1>2, <1>7 DEF Resolve
  <2>2. QED
    BY <1>2, <1>3, <1>5, <1>7, <2>1 DEF Queue, Asks
<1>8. QED
  BY <1>6, <1>7

-----------------------------------------------------------------------------
(* An eager resolver.  A is the key each pointer was asked with: a pointer *)
(* is bound to what was found for its key, or it waits for it.             *)
Serves(r, A) ==
  /\ r.lazy = FALSE
  /\ DOMAIN r.pointer = DOMAIN A
  /\ \A p \in DOMAIN A :
       IF A[p] \in DOMAIN r.found THEN r.pointer[p] = r.found[A[p]]
       ELSE A[p] \in DOMAIN r.todo /\ p \in r.todo[A[p]]
  /\ \A x \in DOMAIN r.todo :
       /\ x \notin DOMAIN r.found
       /\ r.todo[x] # {}
       /\ \A p \in r.todo[x] : p \in DOMAIN A /\ A[p] = x

LEMMA AskServes ==
  ASSUME NEW r, NEW A, NEW key, NEW p, Serves(r, A), p \notin DOMAIN A
  PROVE  /\ Serves(Ask(r, key, p), Put(A, p, key))
         /\ Ask(r, key, p).found = r.found
<1>1. PICK B : B = Put(A, p, key)
  OBVIOUS
<1>2. DOMAIN B = DOMAIN A \cup {p} /\ B[p] = key /\ \A q \in DOMAIN A : B[q] = A[q]
  BY <1>1 DEF Put
<1>3. PICK s : s = Ask(r, key, p)
  OBVIOUS
<1>4. CASE key \in DOMAIN r.found
  <2>1. /\ s.lazy = r.lazy /\ s.found = r.found /\ s.todo = r.todo
        /\ s.pointer = Put(r.pointer, p, r.found[key])
    <3>1. Asks(r, key, p, s)
      BY <1>3, AskFields
    <3>2. QED
      BY <1>4, <3>1 DEF Asks
  <2>2. /\ DOMAIN s.pointer = DOMAIN r.pointer \cup {p} /\ s.pointer[p] = r.found[key]
        /\ \A q \in DOMAIN r.pointer : q # p => s.pointer[q] = r.pointer[q]
    BY <2>1 DEF Put
  <2>3. Serves(s, B)
    BY <1>2, <1>4, <2>1, <2>2 DEF Serves
  <2>4. QED
    BY <1>1, <1>3, <2>1, <2>3
<1>5. CASE key \notin DOMAIN r.found
  <2>1. /\ s.lazy = r.lazy /\ s.found = r.found
        /\ s.todo = Put(r.todo, key, Waiting(r, key) \cup {p})
        /\ s.pointer = Put(r.pointer, p, Null)
    <3>1. Asks(r, key, p, s)
      BY <1>3, AskFields
    <3>2. QED
      BY <1>5, <3>1 DEF Asks
  <2>2. /\ DOMAIN s.pointer = DOMAIN r.pointer \cup {p}
        /\ \A q \in DOMAIN r.pointer : q # p => s.pointer[q] = r.pointer[q]
    BY <2>1 DEF Put
  <2>3. /\ DOMAIN s.todo = DOMAIN r.todo \cup {key} /\ s.todo[key] = Waiting(r, key) \cup {p}
        /\ \A x \in DOMAIN r.todo : x # key => s.todo[x] = r.todo[x]
    BY <2>1 DEF Put
  <2>4. /\ key \in DOMAIN r.todo => s.todo[key] = r.todo[key] \cup {p}
        /\ key \notin DOMAIN r.todo => s.todo[key] = {p}
    BY <2>3 DEF Waiting
  <2>5. ASSUME NEW x \in DOMAIN s.todo
        PROVE  /\ x \notin DOMAIN s.found
               /\ s.todo[x] # {}
               /\ \A q \in s.todo[x] : q \in DOMAIN B /\ B[q] = x
    <3>1. CASE x # key
      <4>1. x \in DOMAIN r.todo /\ s.todo[x] = r.todo[x]
        BY <2>3, <3>1
      <4>2. /\ x \notin DOMAIN r.found /\ r.todo[x] # {}
            /\ \A q \in r.todo[x] : q \in DOMAIN A /\ A[q] = x
        BY <4>1 DEF Serves
      <4>3. \A q \in r.todo[x] : q \in DOMAIN B /\ B[q] = x
        BY <1>2, <4>2
      <4>4. QED
        BY <2>1, <4>1, <4>2, <4>3
    <3>2. CASE x = key /\ key \in DOMAIN r.todo
      <4>1. \A q \in r.todo[key] : q \in DOMAIN A /\ A[q] = key
        BY <3>2 DEF Serves
      <4>2. s.todo[key] = r.todo[key] \cup {p}
        BY <2>4, <3>2
      <4>3. \A q \in s.todo[key] : q \in DOMAIN B /\ B[q] = key
        BY <1>2, <4>1, <4>2
      <4>4. s.todo[key] # {} /\ key \notin DOMAIN s.found
        BY <1>5, <2>1, <4>2
      <4>5. QED
        BY <3>2, <4>3, <4>4
    <3>3. CASE x = key /\ key \notin DOMAIN r.todo
      BY <1>2, <1>5, <2>1, <2>4, <3>3
    <3>4. QED
      BY <3>1, <3>2, <3>3
  <2>6. ASSUME NEW q \in DOMAIN B
        PROVE  IF B[q] \in DOMAIN s.found THEN s.pointer[q] = s.found[B[q]]
               ELSE B[q] \in DOMAIN s.todo /\ q \in s.todo[B[q]]
    <3>1. CASE q = p
      BY <1>2, <1>5, <2>1, <2>3, <3>1
    <3>2. CASE q # p
      <4>1. q \in DOMAIN A /\ B[q] = A[q] /\ q \in DOMAIN r.pointer /\ s.pointer[q] = r.pointer[q]
        BY <1>2, <2>2, <3>2 DEF Serves
      <4>2. CASE A[q] \in DOMAIN r.found
        BY <2>1, <4>1, <4>2 DEF Serves
      <4>3. CASE A[q] \notin DOMAIN r.found
        <5>1. A[q] \in DOMAIN r.todo /\ q \in r.todo[A[q]]
          BY <4>1, <4>3 DEF Serves
        <5>2. A[q] \in DOMAIN s.todo /\ q \in s.todo[A[q]]
          BY <2>3, <2>4, <5>1
        <5>3. QED
          BY <2>1, <4>1, <4>3, <5>2
      <4>4. QED
        BY <4>2, <4>3
    <3>3. QED
      BY <3>1, <3>2
  <2>7. s.lazy = FALSE /\ DOMAIN s.pointer = DOMAIN B
    BY <1>2, <2>1, <2>2 DEF Serves
  <2>8. Serves(s, B)
    BY <2>5, <2>6, <2>7 DEF Serves
  <2>9. QED
    BY <1>1, <1>3, <2>1, <2>8
<1>6. QED
  BY <1>4, <1>5

(* What was found for the keys of a resolver when v is added for one.      *)
Found(f, g, key, v) ==
  /\ DOMAIN g = DOMAIN f \cup {key} /\ \A x \in DOMAIN f : g[x] = f[x]
  /\ key \notin DOMAIN f => g[key] = v

LEMMA AddServes ==
  ASSUME NEW r, NEW A, NEW key, NEW v, Serves(r, A)
  PROVE  Serves(Add(r, key, v), A) /\ Found(r.found, Add(r, key, v).found, key, v)
<1>1. PICK s : s = Add(r, key, v)
  OBVIOUS
<1>2. /\ s.lazy = FALSE
      /\ s.found = IF key \in DOMAIN r.found THEN r.found ELSE Put(r.found, key, v)
      /\ s.todo = Without(r.todo, key) /\ s.pointer = Patch(r, key, v)
  BY <1>1 DEF Add, Serves
<1>3. Found(r.found, s.found, key, v)
  BY <1>2 DEF Found, Put
<1>4. /\ DOMAIN s.todo = DOMAIN r.todo \ {key} /\ \A x \in DOMAIN s.todo : s.todo[x] = r.todo[x]
  BY <1>2 DEF Without
<1>5. /\ DOMAIN s.pointer = DOMAIN r.pointer
      /\ \A p \in DOMAIN r.pointer : s.pointer[p] = IF p \in Waiting(r, key) THEN v ELSE r.pointer[p]
  BY <1>2 DEF Patch
<1>6. ASSUME NEW p \in DOMAIN A
      PROVE  IF A[p] \in DOMAIN s.found THEN s.pointer[p] = s.found[A[p]]
             ELSE A[p] \in DOMAIN s.todo /\ p \in s.todo[A[p]]
  <2>0. p \in DOMAIN r.pointer
    BY DEF Serves
  <2>1. CASE A[p] \in DOMAIN r.found
    <3>1. p \notin Waiting(r, key)
      BY <2>1 DEF Serves, Waiting
    <3>2. QED
      BY <1>3, <1>5, <2>0, <2>1, <3>1 DEF Serves, Found
  <2>2. CASE A[p] \notin DOMAIN r.found /\ A[p] = key
    <3>1. p \in Waiting(r, key)
      BY <2>2 DEF Serves, Waiting
    <3>2. QED
      BY <1>3, <1>5, <2>0, <2>2, <3>1 DEF Found
  <2>3. CASE A[p] \notin DOMAIN r.found /\ A[p] # key
    <3>1. A[p] \in DOMAIN r.todo /\ p \in r.todo[A[p]]
      BY <2>3 DEF Serves
    <3>2. QED
      BY <1>3, <1>4, <2>3, <3>1 DEF Found
  <2>4. QED
    BY <2>1, <2>2, <2>3
<1>7. ASSUME NEW x \in DOMAIN s.todo
      PROVE  /\ x \notin DOMAIN s.found
             /\ s.todo[x] # {}
             /\ \A p \in s.todo[x] : p \in DOMAIN A /\ A[p] = x
  BY <1>3, <1>4 DEF Serves, Found
<1>8. DOMAIN s.pointer = DOMAIN A
  BY <1>5 DEF Serves
<1>9. Serves(s, A)
  BY <1>2, <1>6, <1>7, <1>8 DEF Serves
<1>10. QED
  BY <1>1, <1>3, <1>9

-----------------------------------------------------------------------------
(* A lazy resolver.  A pointer waits, is bound to what was found for its   *)
(* key or, once do_resolve has begun, is null because nothing was found.   *)

Waits(r, x, p) == x \in DOMAIN r.todo /\ p \in r.todo[x]

Answered(r, x, p, draining) ==
  \/ Waits(r, x, p) /\ r.pointer[p] = Null
  \/ x \in DOMAIN r.found /\ r.pointer[p] = r.found[x]
  \/ draining /\ x \notin DOMAIN r.found /\ r.pointer[p] = Null

Awaits(r, A, draining) ==
  /\ r.lazy = TRUE
  /\ DOMAIN r.pointer = DOMAIN A
  /\ \A p \in DOMAIN A : Answered(r, A[p], p, draining)
  /\ \A x \in DOMAIN r.todo : \A p \in r.todo[x] : p \in DOMAIN A /\ A[p] = x

(* Whoever waits goes on waiting.                                          *)
StillWaits(r, s) ==
  \A x \in DOMAIN r.todo : x \in DOMAIN s.todo /\ r.todo[x] \subseteq s.todo[x]

LEMMA AskAwaits ==
  ASSUME NEW r, NEW A, NEW key, NEW p, Awaits(r, A, FALSE), p \notin DOMAIN A
  PROVE  /\ Awaits(Ask(r, key, p), Put(A, p, key), FALSE)
         /\ Ask(r, key, p).found = r.found
         /\ StillWaits(r, Ask(r, key, p))
         /\ key \notin DOMAIN r.found => Waits(Ask(r, key, p), key, p)
<1>1. PICK B : B = Put(A, p, key)
  OBVIOUS
<1>2. DOMAIN B = DOMAIN A \cup {p} /\ B[p] = key /\ \A q \in DOMAIN A : B[q] = A[q]
  BY <1>1 DEF Put
<1>3. PICK s : s = Ask(r, key, p)
  OBVIOUS
<1>4. CASE key \in DOMAIN r.found
  <2>1. /\ s.lazy = r.lazy /\ s.found = r.found /\ s.todo = r.todo
        /\ s.pointer = Put(r.pointer, p, r.found[key])
    <3>1. Asks(r, key, p, s)
      BY <1>3, AskFields
    <3>2. QED
      BY <1>4, <3>1 DEF Asks
  <2>2. /\ DOMAIN s.pointer = DOMAIN r.pointer \cup {p} /\ s.pointer[p] = r.found[key]
        /\ \A q \in DOMAIN r.pointer : q # p => s.pointer[q] = r.pointer[q]
    BY <2>1 DEF Put
  <2>3. ASSUME NEW q \in DOMAIN B PROVE Answered(s, B[q], q, FALSE)
    <3>1. CASE q = p
      BY <1>2, <1>4, <2>1, <2>2, <3>1 DEF Answered
    <3>2. CASE q # p
      BY <1>2, <2>1, <2>2, <3>2 DEF Awaits, Answered, Waits
    <3>3. QED
      BY <3>1, <3>2
  <2>4. ASSUME NEW x \in DOMAIN s.todo, NEW q \in s.todo[x]
        PROVE  q \in DOMAIN B /\ B[q] = x
    <3>1. q \in DOMAIN A /\ A[q] = x
      BY <2>1 DEF Awaits
    <3>2. QED
      BY <1>2, <3>1
  <2>5. s.lazy = TRUE /\ DOMAIN s.pointer = DOMAIN B
    BY <1>2, <2>1, <2>2 DEF Awaits
  <2>6. Awaits(s, B, FALSE)
    BY <2>3, <2>4, <2>5 DEF Awaits
  <2>7. QED
    BY <1>1, <1>3, <1>4, <2>1, <2>6 DEF StillWaits
<1>5. CASE key \notin DOMAIN r.found
  <2>1. /\ s.lazy = r.lazy /\ s.found = r.found
        /\ s.todo = Put(r.todo, key, Waiting(r, key) \cup {p})
        /\ s.pointer = Put(r.pointer, p, Null)
    <3>1. Asks(r, key, p, s)
      BY <1>3, AskFields
    <3>2. QED
      BY <1>5, <3>1 DEF Asks
  <2>2. /\ DOMAIN s.pointer = DOMAIN r.pointer \cup {p} /\ s.pointer[p] = Null
        /\ \A q \in DOMAIN r.pointer : q # p => s.pointer[q] = r.pointer[q]
    BY <2>1 DEF Put
  <2>3. /\ DOMAIN s.todo = DOMAIN r.todo \cup {key} /\ s.todo[key] = Waiting(r, key) \cup {p}
        /\ \A x \in DOMAIN r.todo : x # key => s.todo[x] = r.todo[x]
    BY <2>1 DEF Put
  <2>4. /\ key \in DOMAIN r.todo => s.todo[key] = r.todo[key] \cup {p}
        /\ key \notin DOMAIN r.todo => s.todo[key] = {p}
    BY <2>3 DEF Waiting
  <2>5. StillWaits(r, s)
    BY <2>3, <2>4 DEF StillWaits
  <2>6. Waits(s, key, p)
    BY <2>3 DEF Waits
  <2>7. ASSUME NEW q \in DOMAIN B PROVE Answered(s, B[q], q, FALSE)
    <3>1. CASE q = p
      BY <1>2, <2>2, <2>6, <3>1 DEF Answered
    <3>2. CASE q # p
      <4>1. q \in DOMAIN A /\ B[q] = A[q] /\ q \in DOMAIN r.pointer /\ s.pointer[q] = r.pointer[q]
        BY <1>2, <2>2, <3>2 DEF Awaits
      <4>2. Waits(r, A[q], q) => Waits(s, A[q], q)
        BY <2>5 DEF StillWaits, Waits
      <4>3. Answered(r, A[q], q, FALSE)
        BY <4>1 DEF Awaits
      <4>4. QED
        BY <2>1, <4>1, <4>2, <4>3 DEF Answered
    <3>3. QED
      BY <3>1, <3>2
  <2>8. ASSUME NEW x \in DOMAIN s.todo, NEW q \in s.todo[x]
        PROVE  q \in DOMAIN B /\ B[q] = x
    <3>1. CASE q = p /\ x = key
      BY <1>2, <3>1
    <3>2. CASE ~ (q = p /\ x = key)
      <4>1. x \in DOMAIN r.todo /\ q \in r.todo[x]
        BY <2>3, <2>4, <3>2
      <4>2. QED
        BY <1>2, <4>1 DEF Awaits
    <3>3. QED
      BY <3>1, <3>2
  <2>9. Awaits(s, B, FALSE)
    BY <1>2, <2>1, <2>2, <2>7, <2>8 DEF Awaits
  <2>10. QED
    BY <1>1, <1>3, <2>1, <2>5, <2>6, <2>9
<1>6. QED
  BY <1>4, <1>5

LEMMA AddAwaits ==
  ASSUME NEW r, NEW A, NEW key, NEW v, Awaits(r, A, FALSE)
  PROVE  /\ Awaits(Add(r, key, v), A, FALSE)
         /\ Found(r.found, Add(r, key, v).found, key, v)
         /\ Add(r, key, v).todo = r.todo
<1>1. PICK s : s = Add(r, key, v)
  OBVIOUS
<1>2. /\ s.lazy = TRUE /\ s.todo = r.todo /\ s.pointer = r.pointer
      /\ s.found = IF key \in DOMAIN r.found THEN r.found ELSE Put(r.found, key, v)
  BY <1>1 DEF Add, Awaits
<1>3. Found(r.found, s.found, key, v)
  BY <1>2 DEF Found, Put
<1>4. ASSUME NEW p \in DOMAIN A PROVE Answered(s, A[p], p, FALSE)
  BY <1>2, <1>3 DEF Awaits, Answered, Waits, Found
<1>5. Awaits(s, A, FALSE)
  BY <1>2, <1>4 DEF Awaits
<1>6. QED
  BY <1>1, <1>2, <1>3, <1>5

LEMMA BeginAwaits ==
  ASSUME NEW r, NEW A, Awaits(r, A, FALSE)
  PROVE  Awaits(r, A, TRUE)
BY DEF Awaits, Answered

LEMMA DrainAwaits ==
  ASSUME NEW r, NEW A, NEW key, Awaits(r, A, TRUE)
  PROVE  /\ Awaits(DrainEntry(r, key), A, TRUE)
         /\ DrainEntry(r, key).found = r.found
         /\ DrainEntry(r, key).todo = Without(r.todo, key)
<1>1. PICK s : s = DrainEntry(r, key)
  OBVIOUS
<1>2. /\ s.lazy = r.lazy /\ s.found = r.found /\ s.todo = Without(r.todo, key)
      /\ s.pointer = IF key \in DOMAIN r.found THEN Patch(r, key, r.found[key]) ELSE r.pointer
  BY <1>1 DEF DrainEntry
<1>3. /\ DOMAIN s.todo = DOMAIN r.todo \ {key}
      /\ \A x \in DOMAIN s.todo : s.todo[x] = r.todo[x]
  BY <1>2 DEF Without
<1>4. /\ DOMAIN s.pointer = DOMAIN r.pointer
      /\ \A p \in DOMAIN r.pointer :
           s.pointer[p] = IF key \in DOMAIN r.found /\ p \in Waiting(r, key)
                          THEN r.found[key] ELSE r.pointer[p]
  BY <1>2 DEF Patch
<1>5. \A p : p \in Waiting(r, key) <=> Waits(r, key, p)
  BY DEF Waiting, Waits
<1>6. ASSUME NEW p \in DOMAIN A PROVE Answered(s, A[p], p, TRUE)
  <2>1. p \in DOMAIN r.pointer /\ Answered(r, A[p], p, TRUE)
    BY DEF Awaits
  <2>2. CASE p \in Waiting(r, key)
    <3>1. A[p] = key
      BY <1>5, <2>2 DEF Awaits, Waits
    <3>2. CASE key \in DOMAIN r.found
      BY <1>2, <1>4, <2>1, <2>2, <3>1, <3>2 DEF Answered
    <3>3. CASE key \notin DOMAIN r.found
      BY <1>2, <1>4, <2>1, <3>1, <3>3 DEF Answered
    <3>4. QED
      BY <3>2, <3>3
  <2>3. CASE p \notin Waiting(r, key)
    <3>1. s.pointer[p] = r.pointer[p]
      BY <1>4, <2>1, <2>3
    <3>2. Waits(r, A[p], p) => Waits(s, A[p], p)
      BY <1>3, <1>5, <2>3 DEF Waits
    <3>3. QED
      BY <1>2, <2>1, <3>1, <3>2 DEF Answered
  <2>4. QED
    BY <2>2, <2>3
<1>7. \A x \in DOMAIN s.todo : \A p \in s.todo[x] : p \in DOMAIN A /\ A[p] = x
  BY <1>3 DEF Awaits
<1>8. Awaits(s, A, TRUE)
  BY <1>2, <1>4, <1>6, <1>7 DEF Awaits
<1>9. QED
  BY <1>1, <1>2, <1>8
=============================================================================
