---------------------------- MODULE Apply_proofs ----------------------------
(* Lemmas about the steps of a call of Apply.                                *)
EXTENDS Apply, SequenceTheorems, WellFoundedInduction, TLAPS

-----------------------------------------------------------------------------
(* The elements of a sequence *)

\* k is an element of sequence q.
Among(k, q) == \E i \in 1 .. Len(q) : q[i] = k

\* How the elements follow Append and Tail, which plan and process keys.
LEMMA AmongRules ==
    ASSUME NEW S, NEW q \in Seq(S)
    PROVE  /\ \A k : ~Among(k, <<>>)
           /\ \A k : Among(k, q) => k \in S
           /\ \A k, x : x \in S => Append(q, x) \in Seq(S)
                        /\ (Among(k, Append(q, x)) <=> Among(k, q) \/ k = x)
           /\ q # <<>> => /\ Head(q) \in S /\ Tail(q) \in Seq(S) /\ Among(Head(q), q)
                          /\ \A k : Among(k, Tail(q)) => Among(k, q)
                          /\ \A k : Among(k, q) => k = Head(q) \/ Among(k, Tail(q))
                          /\ Tail(q) # q
<1>1. \A k : ~Among(k, <<>>)
  BY DEF Among
<1>2. \A k : Among(k, q) => k \in S
  BY DEF Among
<1>3. \A k, x : x \in S => Append(q, x) \in Seq(S)
                           /\ (Among(k, Append(q, x)) <=> Among(k, q) \/ k = x)
  <2> TAKE k, x
  <2> HAVE x \in S
  <2> DEFINE a == Append(q, x)
  <2>1. a \in Seq(S) /\ Len(a) = Len(q) + 1 /\ a[Len(q) + 1] = x
        /\ \A i \in 1 .. Len(q) : a[i] = q[i]
    BY AppendProperties
  <2>2. Len(q) \in Nat
    BY LenProperties
  <2> HIDE DEF a
  <2> QED BY <2>1, <2>2 DEF Among, a
<1>4. ASSUME q # <<>>
      PROVE  /\ Head(q) \in S /\ Tail(q) \in Seq(S) /\ Among(Head(q), q)
             /\ \A k : Among(k, Tail(q)) => Among(k, q)
             /\ \A k : Among(k, q) => k = Head(q) \/ Among(k, Tail(q))
             /\ Tail(q) # q
  <2> DEFINE t == Tail(q)
  <2>1. Head(q) = q[1] /\ t \in Seq(S) /\ Len(t) = Len(q) - 1 /\ Len(q) \in Nat \ {0}
        /\ \A i \in 1 .. Len(t) : t[i] = q[i + 1]
    BY <1>4
  <2> HIDE DEF t
  <2>2. Head(q) \in S /\ Among(Head(q), q)
    BY <2>1 DEF Among
  <2>3. \A k : Among(k, t) => Among(k, q)
    BY <2>1 DEF Among
  <2>4. ASSUME NEW k, Among(k, q) PROVE k = Head(q) \/ Among(k, t)
    <3>1. PICK i \in 1 .. Len(q) : q[i] = k
      BY <2>4 DEF Among
    <3>2. CASE i = 1
      BY <2>1, <3>1, <3>2
    <3>3. CASE i # 1
      <4>1. i - 1 \in 1 .. Len(t) /\ t[i - 1] = k
        BY <2>1, <3>1, <3>3
      <4> QED BY <4>1 DEF Among
    <3> QED BY <3>2, <3>3
  <2>5. t # q
    BY <2>1
  <2> QED BY <2>1, <2>2, <2>3, <2>4, <2>5 DEF t
<1> QED BY <1>1, <1>2, <1>3, <1>4

-----------------------------------------------------------------------------
(* Sorted *)

\* Induction over the numbers, for a set.
LEMMA SetInduction ==
    ASSUME NEW S, 0 \in S, \A n \in Nat : n \in S => n + 1 \in S
    PROVE  \A n \in Nat : n \in S
<1> DEFINE T == Nat \ S
<1>1. SUFFICES ASSUME T # {} PROVE FALSE
  OBVIOUS
<1>2. PICK x \in T : \A y \in T : ~(<<y, x>> \in OpToRel(<, Nat))
  BY <1>1, WFMin, NatLessThanWellFounded
<1>3. x # 0 /\ x - 1 \in Nat /\ x - 1 < x /\ x - 1 \in T
  OBVIOUS
<1>4. <<x - 1, x>> \in OpToRel(<, Nat)
  BY <1>3 DEF OpToRel
<1> QED BY <1>2, <1>3, <1>4

\* What the prefixes of the sorted order select: the function Sorted builds.
SelectsTo(S, f, n) ==
    f = [i \in 0 .. n |-> IF i = 0 THEN <<>>
                          ELSE IF KeyOrder[i] \in S THEN Append(f[i - 1], KeyOrder[i])
                          ELSE f[i - 1]]
ElementsTo(S, f, n) ==
    /\ f[n] \in Seq(S)
    /\ \A k : Among(k, f[n]) <=> \E i \in 1 .. n : KeyOrder[i] = k /\ k \in S

\* The function exists for every prefix, and its last value has the elements
\* of the prefix that are in the set.
LEMMA SelectsExists ==
    ASSUME NEW S
    PROVE  \A n \in Nat : \E f : SelectsTo(S, f, n) /\ ElementsTo(S, f, n)
<1> DEFINE T == {n \in Nat : \E f : SelectsTo(S, f, n) /\ ElementsTo(S, f, n)}
<1>1. 0 \in T
  <2> DEFINE f == [i \in 0 .. 0 |-> <<>>]
  <2>1. f = [i \in 0 .. 0 |-> IF i = 0 THEN <<>>
                              ELSE IF KeyOrder[i] \in S THEN Append(f[i - 1], KeyOrder[i])
                              ELSE f[i - 1]]
    OBVIOUS
  <2>2. f[0] = <<>>
    OBVIOUS
  <2> HIDE DEF f
  <2>3. SelectsTo(S, f, 0)
    BY <2>1 DEF SelectsTo
  <2>4. ElementsTo(S, f, 0)
    BY <2>2 DEF ElementsTo, Among
  <2> QED BY <2>3, <2>4
<1>2. ASSUME NEW n \in Nat, n \in T PROVE n + 1 \in T
  <2>1. PICK f : SelectsTo(S, f, n) /\ ElementsTo(S, f, n)
    BY <1>2
  <2> DEFINE k == KeyOrder[n + 1]
             x == IF k \in S THEN Append(f[n], k) ELSE f[n]
             g == [i \in 0 .. n + 1 |-> IF i = n + 1 THEN x ELSE f[i]]
             h == [i \in 0 .. n + 1 |-> IF i = 0 THEN <<>>
                                        ELSE IF KeyOrder[i] \in S THEN Append(g[i - 1], KeyOrder[i])
                                        ELSE g[i - 1]]
  <2>2. \A i \in 0 .. n : g[i] = f[i]
    OBVIOUS
  <2>3. g[n + 1] = x /\ g[n] = f[n]
    OBVIOUS
  <2>4. ASSUME NEW i \in 0 .. n + 1 PROVE g[i] = h[i]
    <3>1. CASE i = n + 1
      BY <2>3, <3>1
    <3>2. CASE i \in 0 .. n
      <4>1. f[i] = IF i = 0 THEN <<>>
                   ELSE IF KeyOrder[i] \in S THEN Append(f[i - 1], KeyOrder[i]) ELSE f[i - 1]
        BY <2>1, <3>2 DEF SelectsTo
      <4>2. i # 0 => i - 1 \in 0 .. n
        BY <3>2
      <4>3. g[i] = f[i] /\ (i # 0 => g[i - 1] = f[i - 1])
        BY <2>2, <3>2, <4>2
      <4> HIDE DEF g
      <4> QED BY <4>1, <4>3, <3>2
    <3> QED BY <3>1, <3>2
  <2>5. g = h
    <3>1. g = [i \in 0 .. n + 1 |-> g[i]] /\ h = [i \in 0 .. n + 1 |-> h[i]]
      OBVIOUS
    <3> HIDE DEF g, h
    <3> QED BY <2>4, <3>1
  <2>6. SelectsTo(S, g, n + 1)
    <3> HIDE DEF g
    <3> QED BY <2>5 DEF SelectsTo
  <2>7. ElementsTo(S, g, n + 1)
    <3>1. f[n] \in Seq(S) /\ \A y : Among(y, f[n]) <=> \E i \in 1 .. n : KeyOrder[i] = y /\ y \in S
      BY <2>1 DEF ElementsTo
    <3>2. x \in Seq(S) /\ \A y : Among(y, x) <=> Among(y, f[n]) \/ (y = k /\ k \in S)
      BY <3>1, AmongRules
    <3>3. \A y : (\E i \in 1 .. n + 1 : KeyOrder[i] = y /\ y \in S) <=>
                 (\E i \in 1 .. n : KeyOrder[i] = y /\ y \in S) \/ (y = k /\ k \in S)
      OBVIOUS
    <3> HIDE DEF g, x, k
    <3> QED BY <2>3, <3>1, <3>2, <3>3 DEF ElementsTo
  <2> QED BY <2>6, <2>7
<1> HIDE DEF T
<1>3. \A n \in Nat : n \in T
  BY <1>1, <1>2, SetInduction
<1> QED BY <1>3 DEF T

\* Sorted lists the keys of a set, and no others.
LEMMA SortedElements ==
    ASSUME NEW S \in SUBSET Keys
    PROVE  Sorted(S) \in Seq(S) /\ Sorted(S) \in Seq(Keys) /\ \A k : Among(k, Sorted(S)) <=> k \in S
<1> DEFINE n == Len(KeyOrder)
           F == CHOOSE f : SelectsTo(S, f, n)
<1>1. n \in Nat
  BY ApplyAssumption
<1>2. PICK f : SelectsTo(S, f, n) /\ ElementsTo(S, f, n)
  BY <1>1, SelectsExists
<1>3. SelectsTo(S, F, n)
  BY <1>2
<1>4. Sorted(S) = F[n]
  BY DEF Sorted, SelectsTo
<1> HIDE DEF F
<1>5. \A i \in 0 .. n : F[i] = f[i]
  <2> DEFINE T == {i \in Nat : i <= n => F[i] = f[i]}
  <2>1. 0 \in T
    BY <1>1, <1>2, <1>3 DEF SelectsTo
  <2>2. ASSUME NEW i \in Nat, i \in T PROVE i + 1 \in T
    <3> SUFFICES ASSUME i + 1 <= n PROVE F[i + 1] = f[i + 1]
      OBVIOUS
    <3>1. F[i] = f[i] /\ i + 1 \in 0 .. n /\ i + 1 # 0 /\ (i + 1) - 1 = i
      BY <1>1, <2>2
    <3>2. F[i + 1] = IF KeyOrder[i + 1] \in S THEN Append(F[i], KeyOrder[i + 1]) ELSE F[i]
      BY <1>3, <3>1 DEF SelectsTo
    <3>3. f[i + 1] = IF KeyOrder[i + 1] \in S THEN Append(f[i], KeyOrder[i + 1]) ELSE f[i]
      BY <1>2, <3>1 DEF SelectsTo
    <3> QED BY <3>1, <3>2, <3>3
  <2> HIDE DEF T
  <2>3. \A i \in Nat : i \in T
    BY <2>1, <2>2, SetInduction
  <2> QED BY <1>1, <2>3 DEF T
<1>6. Sorted(S) = f[n]
  BY <1>1, <1>4, <1>5
<1>7. Sorted(S) \in Seq(S) /\ \A k : Among(k, Sorted(S)) <=> \E i \in 1 .. n : KeyOrder[i] = k /\ k \in S
  BY <1>2, <1>6 DEF ElementsTo
<1>8. \A k \in S : \E i \in 1 .. n : KeyOrder[i] = k
  BY DEF Keys
<1>9. Sorted(S) \in Seq(Keys)
  BY <1>7
<1> QED BY <1>7, <1>8, <1>9

-----------------------------------------------------------------------------
(* The record of a call *)

\* The fields of record q.
Is(q, pc, objs, left, gvk, existing, create, update, delete, err) ==
    /\ q.pc = pc /\ q.objs = objs /\ q.left = left /\ q.gvk = gvk /\ q.existing = existing
    /\ q.create = create /\ q.update = update /\ q.delete = delete /\ q.err = err

\* The types of the fields of a call.
LEMMA RunFields ==
    ASSUME NEW r \in Run
    PROVE  /\ r.pc \in {"idle", "apply", "get"} /\ r.objs \in DesiredSet /\ r.left \in SUBSET GVKs
           /\ r.gvk \in GVKs \cup {None} /\ r.existing \in [Keys -> Object \cup {None}]
           /\ r.create \in Seq(Keys) /\ r.update \in Seq(Keys) /\ r.delete \in Seq(Keys)
           /\ r.err \in BOOLEAN
BY DEF Run

-----------------------------------------------------------------------------
(* What a step of a call comes to: r is the record before it, q after it *)

\* A GVK is given up, or listed and compared.
GivesUp(r, q) ==
    /\ NoPut /\ r.create = <<>> /\ r.update = <<>> /\ r.delete = <<>>
    /\ \E g \in r.left : Is(q, "apply", r.objs, r.left \ {g}, r.gvk, r.existing,
                            <<>>, <<>>, <<>>, TRUE)
Lists(s, r, q) ==
    /\ NoPut /\ r.create = <<>> /\ r.update = <<>> /\ r.delete = <<>>
    /\ \E g \in r.left :
         LET old == list(s, g)
         IN  Is(q, "apply", r.objs, r.left \ {g}, g, old, Sorted(toCreate(r.objs, g, old)),
                Sorted(toUpdate(r.objs, g, old)), Sorted(toDelete(r.objs, g, old)), r.err)
\* An object is created, or found to exist, read, and left to be updated.
Creates(s, r, q) ==
    /\ r.create # <<>> /\ server[Head(r.create)] = None
    /\ Put(Head(r.create), created(s, r.objs[Head(r.create)].data))
    /\ \E err \in {r.err, TRUE} : Is(q, "apply", r.objs, r.left, r.gvk, r.existing,
                                     Tail(r.create), r.update, r.delete, err)
Meets(r, q) ==
    /\ NoPut /\ r.create # <<>>
    /\ Is(q, "get", r.objs, r.left, r.gvk, r.existing, r.create, r.update, r.delete, r.err)
Finds(r, q) ==
    /\ NoPut /\ r.create # <<>> /\ server[Head(r.create)] # None
    /\ Is(q, "apply", r.objs, r.left, r.gvk,
          [r.existing EXCEPT ![Head(r.create)] = server[Head(r.create)]],
          Tail(r.create), Append(r.update, Head(r.create)), r.delete, r.err)
\* An object is updated: it is as it should be, replaced, or patched.
Patches(s, r) ==
    LET k == Head(r.update)
        o == r.existing[k]
        data == r.objs[k].data
    IN  ~mustReplace(o, data) /\ server[k] # None /\ Put(k, patched(s, o, data, server[k]))
Replaces(r) ==
    LET k == Head(r.update)
    IN  /\ mustReplace(r.existing[k], r.objs[k].data)
        /\ NoPut \/ (server[k] # None /\ Put(k, None))
Updates(s, r, q) ==
    /\ r.create = <<>> /\ r.update # <<>>
    /\ \E err \in BOOLEAN :
         /\ Is(q, "apply", r.objs, r.left, r.gvk, r.existing, r.create, Tail(r.update), r.delete, err)
         /\ \/ err = r.err /\ NoPut
               /\ NoPatch(s, r.existing[Head(r.update)], r.objs[Head(r.update)].data)
            \/ err = TRUE /\ Replaces(r)
            \/ err = r.err /\ Patches(s, r)
\* An object is deleted, unless its GVK must not be.
Deletes(r, q) ==
    /\ r.create = <<>> /\ r.update = <<>> /\ r.delete # <<>>
    /\ Is(q, "apply", r.objs, r.left, r.gvk, r.existing, r.create, r.update, Tail(r.delete), r.err)
    /\ \/ r.gvk \in NoDelete /\ NoPut
       \/ r.gvk \notin NoDelete /\ server[Head(r.delete)] # None /\ Put(Head(r.delete), None)
\* A call fails or is lost.
Drops(r, q) ==
    /\ NoPut
    /\ \E create, update, delete :
         /\ Is(q, "apply", r.objs, r.left, r.gvk, r.existing, create, update, delete, TRUE)
         /\ \/ create = Tail(r.create) /\ r.create # <<>> /\ update = r.update /\ delete = r.delete
            \/ create = r.create /\ update = Tail(r.update) /\ r.update # <<>> /\ delete = r.delete
            \/ create = r.create /\ update = r.update /\ delete = Tail(r.delete) /\ r.delete # <<>>

\* All of them.
Outcome(s, r, q) == \/ GivesUp(r, q) \/ Lists(s, r, q) \/ Creates(s, r, q) \/ Meets(r, q)
                    \/ Finds(r, q) \/ Updates(s, r, q) \/ Deletes(r, q) \/ Drops(r, q)
ApplyStep(s) == Work(s) \/ CallLost(s) \/ CreateAnswerLost(s)

\* The lists and the keys of a call go together.
Planned(r) ==
    /\ \A k \in Keys : Among(k, r.create) => r.objs[k] # None
    /\ \A k \in Keys : Among(k, r.update) => r.objs[k] # None /\ r.existing[k] # None
    /\ \A k \in Keys : Among(k, r.delete) =>
          r.objs[k] = None /\ r.existing[k] # None /\ k \notin NoPrune
    /\ r.pc = "get" => r.create # <<>>
\* Objects and calls have their types, and the lists of a call fit it.
Calls ==
    /\ server \in [Keys -> Object \cup {None}]
    /\ cache \in [Keys -> Object \cup {None}]
    /\ run \in [Sets -> Run]
    /\ \A s \in Sets : Planned(run[s])

\* The next GVK is one that is left.
LEMMA NextGVKsLeft == ASSUME NEW r PROVE NextGVKs(r) \subseteq r.left
BY DEF NextGVKs

\* What is listed are objects, and what is compared yields lists of keys.
LEMMA ListType ==
    ASSUME Calls, NEW s, NEW g, NEW w
    PROVE  LET old == list(s, g)
           IN  /\ old \in [Keys -> Object \cup {None}]
               /\ Sorted(toCreate(w, g, old)) \in Seq(Keys)
               /\ Sorted(toUpdate(w, g, old)) \in Seq(Keys)
               /\ Sorted(toDelete(w, g, old)) \in Seq(Keys)
<1> DEFINE old == list(s, g)
<1>1. old \in [Keys -> Object \cup {None}]
  BY DEF list, Calls
<1> HIDE DEF old
<1>2. /\ toCreate(w, g, old) \in SUBSET Keys
      /\ toUpdate(w, g, old) \in SUBSET Keys
      /\ toDelete(w, g, old) \in SUBSET Keys
  BY DEF toCreate, toUpdate, toDelete
<1>3. /\ Sorted(toCreate(w, g, old)) \in Seq(Keys)
      /\ Sorted(toUpdate(w, g, old)) \in Seq(Keys)
      /\ Sorted(toDelete(w, g, old)) \in Seq(Keys)
  BY <1>2, SortedElements
<1> QED BY <1>1, <1>3 DEF old

\* Every step of a call, a lost call included, has one of the outcomes.
LEMMA WorkOutcome ==
    ASSUME Calls, NEW s \in Sets, ApplyStep(s)
    PROVE  \E q \in Run : Becomes(s, q) /\ Outcome(s, run[s], q) /\ cache' = cache
                          /\ run[s].pc \in {"apply", "get"}
<1> DEFINE r == run[s]
<1>0. r \in Run /\ Planned(r)
  BY DEF Calls
<1>1. /\ r.objs \in DesiredSet /\ r.left \in SUBSET GVKs /\ r.gvk \in GVKs \cup {None}
      /\ r.create \in Seq(Keys) /\ r.update \in Seq(Keys) /\ r.delete \in Seq(Keys)
      /\ r.existing \in [Keys -> Object \cup {None}] /\ r.err \in BOOLEAN
  BY <1>0, RunFields
<1>2. /\ r.create # <<>> => Head(r.create) \in Keys /\ Tail(r.create) \in Seq(Keys)
      /\ r.update # <<>> => Head(r.update) \in Keys /\ Tail(r.update) \in Seq(Keys)
      /\ r.delete # <<>> => Head(r.delete) \in Keys /\ Tail(r.delete) \in Seq(Keys)
  BY <1>1
<1> HIDE DEF r
<1>3. CASE process(s)
  <2>1. /\ r.pc = "apply" /\ r.create = <<>> /\ r.update = <<>> /\ r.delete = <<>> /\ NoPut
        /\ cache' = cache
    BY <1>3 DEF process, BetweenGVKs, Busy, NoPut, r
  <2>2. PICK g \in NextGVKs(r) :
          IF g \notin Cached /\ Strict
          THEN Becomes(s, [r EXCEPT !.left = @ \ {g}, !.err = TRUE])
          ELSE LET old == list(s, g)
                   w   == r.objs
               IN  Becomes(s, [r EXCEPT !.left = @ \ {g}, !.gvk = g,
                                 !.existing = old,
                                 !.create = Sorted(toCreate(w, g, old)),
                                 !.update = Sorted(toUpdate(w, g, old)),
                                 !.delete = Sorted(toDelete(w, g, old))])
    BY <1>3 DEF process, r
  <2>3. g \in r.left /\ g \in GVKs /\ r.left \ {g} \in SUBSET GVKs
    BY <1>1, NextGVKsLeft
  <2>4. CASE g \notin Cached /\ Strict
    <3> DEFINE q == [r EXCEPT !.left = @ \ {g}, !.err = TRUE]
    <3>1. q \in Run /\ Is(q, r.pc, r.objs, r.left \ {g}, r.gvk, r.existing, r.create, r.update,
                          r.delete, TRUE)
      BY <1>0, <2>3 DEF Run, Is
    <3>2. Becomes(s, q)
      BY <2>2, <2>4
    <3> HIDE DEF q
    <3>3. GivesUp(r, q)
      BY <2>1, <2>3, <3>1 DEF GivesUp
    <3> QED BY <2>1, <3>1, <3>2, <3>3 DEF Outcome, r
  <2>5. CASE ~(g \notin Cached /\ Strict)
    <3> DEFINE old == list(s, g)
               a == Sorted(toCreate(r.objs, g, old))
               b == Sorted(toUpdate(r.objs, g, old))
               c == Sorted(toDelete(r.objs, g, old))
               q == [r EXCEPT !.left = @ \ {g}, !.gvk = g, !.existing = old, !.create = a,
                              !.update = b, !.delete = c]
    <3>1. Becomes(s, q)
      BY <2>2, <2>5
    <3>2. q \in Run /\ Is(q, r.pc, r.objs, r.left \ {g}, g, old, a, b, c, r.err)
      <4>1. /\ old \in [Keys -> Object \cup {None}]
            /\ a \in Seq(Keys) /\ b \in Seq(Keys) /\ c \in Seq(Keys)
        BY ListType
      <4> HIDE DEF a, b, c, old
      <4> QED BY <1>0, <2>3, <4>1 DEF Run, Is
    <3> HIDE DEF q
    <3>3. Lists(s, r, q)
      BY <2>1, <2>3, <3>2 DEF Lists
    <3> QED BY <2>1, <3>1, <3>2, <3>3 DEF Outcome, r
  <2> QED BY <2>4, <2>5
<1>4. CASE createF(s)
  <2>1. r.pc = "apply" /\ r.create # <<>> /\ cache' = cache
    BY <1>4 DEF createF, Creating, Busy, r
  <2> DEFINE k == Head(r.create)
             q == [r EXCEPT !.create = Tail(@)]
             m == [r EXCEPT !.pc = "get"]
  <2>2. /\ q \in Run
        /\ Is(q, r.pc, r.objs, r.left, r.gvk, r.existing, Tail(r.create), r.update, r.delete, r.err)
    BY <1>0, <1>2, <2>1 DEF Run, Is
  <2>3. /\ m \in Run
        /\ Is(m, "get", r.objs, r.left, r.gvk, r.existing, r.create, r.update, r.delete, r.err)
    BY <1>0 DEF Run, Is
  <2>4. IF server[k] = None
        THEN Put(k, created(s, q.objs[k].data)) /\ Becomes(s, q)
        ELSE NoPut /\ Becomes(s, m)
    BY <1>4 DEF createF, r
  <2> HIDE DEF q, m
  <2>5. CASE server[k] = None
    <3>1. Put(k, created(s, r.objs[k].data)) /\ Becomes(s, q)
      BY <2>2, <2>4, <2>5 DEF Is
    <3>2. Creates(s, r, q)
      BY <2>1, <2>2, <2>5, <3>1 DEF Creates
    <3> QED BY <2>1, <2>2, <3>1, <3>2 DEF Outcome, r
  <2>6. CASE server[k] # None
    <3>1. Meets(r, m)
      BY <2>1, <2>3, <2>4, <2>6 DEF Meets
    <3> QED BY <2>1, <2>3, <2>4, <2>6, <3>1 DEF Outcome, r
  <2> QED BY <2>5, <2>6
<1>5. CASE getExisting(s)
  <2>1. r.pc = "get" /\ r.create # <<>> /\ cache' = cache /\ NoPut
    BY <1>0, <1>5 DEF getExisting, Planned, NoPut, r
  <2> DEFINE k == Head(r.create)
             p == [r EXCEPT !.pc = "apply", !.create = Tail(@)]
             q == [p EXCEPT !.update = Append(@, k), !.existing[k] = server[k]]
             m == [p EXCEPT !.err = TRUE]
  <2>2. /\ p \in Run
        /\ Is(p, "apply", r.objs, r.left, r.gvk, r.existing, Tail(r.create), r.update, r.delete, r.err)
    BY <1>0, <1>2, <2>1 DEF Run, Is
  <2>3. IF server[k] # None THEN Becomes(s, q) ELSE Becomes(s, m)
    BY <1>5 DEF getExisting, r
  <2> HIDE DEF p
  <2>4. CASE server[k] # None
    <3>1. server[k] \in Object \cup {None} /\ Append(r.update, k) \in Seq(Keys)
      BY <1>1, <1>2, <2>1 DEF Calls
    <3>2. /\ q \in Run
          /\ Is(q, "apply", r.objs, r.left, r.gvk, [r.existing EXCEPT ![k] = server[k]],
                Tail(r.create), Append(r.update, k), r.delete, r.err)
      BY <2>2, <3>1 DEF Run, Is
    <3> HIDE DEF q
    <3>3. Finds(r, q)
      BY <2>1, <2>4, <3>2 DEF Finds
    <3> QED BY <2>1, <2>3, <2>4, <3>2, <3>3 DEF Outcome, r
  <2>5. CASE server[k] = None
    <3>1. /\ m \in Run
          /\ Is(m, "apply", r.objs, r.left, r.gvk, r.existing, Tail(r.create), r.update, r.delete, TRUE)
      BY <2>2 DEF Run, Is
    <3> HIDE DEF m
    <3>2. Drops(r, m)
      BY <2>1, <3>1 DEF Drops
    <3> QED BY <2>1, <2>3, <2>5, <3>1, <3>2 DEF Outcome, r
  <2> QED BY <2>4, <2>5
<1>6. CASE updateF(s)
  <2>1. r.pc = "apply" /\ r.create = <<>> /\ r.update # <<>> /\ cache' = cache
    BY <1>6 DEF updateF, Updating, Busy, r
  <2> DEFINE k == Head(r.update)
             o == r.existing[k]
             data == r.objs[k].data
             p == [r EXCEPT !.update = Tail(@)]
             m == [p EXCEPT !.err = TRUE]
  <2>2. \/ NoPatch(s, o, data) /\ NoPut /\ Becomes(s, p)
        \/ mustReplace(o, data) /\ (NoPut \/ (server[k] # None /\ Put(k, None))) /\ Becomes(s, m)
        \/ NoPut /\ Becomes(s, m)
        \/ /\ ~mustReplace(o, data) /\ server[k] # None
           /\ Put(k, patched(s, o, data, server[k])) /\ Becomes(s, p)
    <3>1. LET new == patched(s, o, data, server[k])
          IN  IF NoPatch(s, o, data)
              THEN NoPut /\ Becomes(s, p)
              ELSE IF mustReplace(o, data)
              THEN /\ IF server[k] # None THEN Put(k, None) ELSE NoPut
                   /\ Becomes(s, m)
              ELSE IF server[k] = None \/ (Guarded # None
                                           /\ new.data[Guarded] # server[k].data[Guarded])
              THEN NoPut /\ Becomes(s, m)
              ELSE Put(k, new) /\ Becomes(s, p)
      BY <1>6 DEF updateF, r
    <3> HIDE DEF k, o, data, p, m
    <3> QED BY <3>1
  <2>3. /\ p \in Run
        /\ Is(p, r.pc, r.objs, r.left, r.gvk, r.existing, r.create, Tail(r.update), r.delete, r.err)
    BY <1>0, <1>2, <2>1 DEF Run, Is
  <2> HIDE DEF p
  <2>4. /\ m \in Run
        /\ Is(m, r.pc, r.objs, r.left, r.gvk, r.existing, r.create, Tail(r.update), r.delete, TRUE)
    BY <2>3 DEF Run, Is
  <2> HIDE DEF m
  <2>5. CASE NoPatch(s, o, data) /\ NoPut /\ Becomes(s, p)
    <3>1. Updates(s, r, p)
      BY <1>1, <2>1, <2>3, <2>5 DEF Updates
    <3> QED BY <2>1, <2>3, <2>5, <3>1 DEF Outcome, r
  <2>6. CASE mustReplace(o, data) /\ (NoPut \/ (server[k] # None /\ Put(k, None))) /\ Becomes(s, m)
    <3>1. Updates(s, r, m)
      BY <2>1, <2>4, <2>6 DEF Updates, Replaces
    <3> QED BY <2>1, <2>4, <2>6, <3>1 DEF Outcome, r
  <2>7. CASE NoPut /\ Becomes(s, m)
    <3>1. Drops(r, m)
      BY <2>1, <2>4, <2>7 DEF Drops
    <3> QED BY <2>1, <2>4, <2>7, <3>1 DEF Outcome, r
  <2>8. CASE /\ ~mustReplace(o, data) /\ server[k] # None
             /\ Put(k, patched(s, o, data, server[k])) /\ Becomes(s, p)
    <3>1. Updates(s, r, p)
      BY <1>1, <2>1, <2>3, <2>8 DEF Updates, Patches
    <3> QED BY <2>1, <2>3, <2>8, <3>1 DEF Outcome, r
  <2> QED BY <2>2, <2>5, <2>6, <2>7, <2>8
<1>7. CASE deleteF(s)
  <2>1. /\ r.pc = "apply" /\ r.create = <<>> /\ r.update = <<>> /\ r.delete # <<>>
        /\ cache' = cache
    BY <1>7 DEF deleteF, Deleting, Busy, r
  <2> DEFINE k == Head(r.delete)
             p == [r EXCEPT !.delete = Tail(@)]
             m == [p EXCEPT !.err = TRUE]
  <2>2. \/ r.gvk \in NoDelete /\ NoPut /\ Becomes(s, p)
        \/ NoPut /\ Becomes(s, m)
        \/ r.gvk \notin NoDelete /\ server[k] # None /\ Put(k, None) /\ Becomes(s, p)
    BY <1>7 DEF deleteF, r
  <2>3. /\ p \in Run
        /\ Is(p, r.pc, r.objs, r.left, r.gvk, r.existing, r.create, r.update, Tail(r.delete), r.err)
    BY <1>0, <1>2, <2>1 DEF Run, Is
  <2> HIDE DEF p
  <2>4. /\ m \in Run
        /\ Is(m, r.pc, r.objs, r.left, r.gvk, r.existing, r.create, r.update, Tail(r.delete), TRUE)
    BY <2>3 DEF Run, Is
  <2> HIDE DEF m
  <2>5. CASE NoPut /\ Becomes(s, m)
    <3>1. Drops(r, m)
      BY <2>1, <2>4, <2>5 DEF Drops
    <3> QED BY <2>1, <2>4, <2>5, <3>1 DEF Outcome, r
  <2>6. CASE /\ \/ r.gvk \in NoDelete /\ NoPut
                \/ r.gvk \notin NoDelete /\ server[k] # None /\ Put(k, None)
             /\ Becomes(s, p)
    <3>1. Deletes(r, p)
      BY <2>1, <2>3, <2>6 DEF Deletes
    <3> QED BY <2>1, <2>3, <2>6, <3>1 DEF Outcome, r
  <2> QED BY <2>2, <2>5, <2>6
<1>8. CASE CreateAnswerLost(s)
  <2>1. r.pc = "apply" /\ r.create # <<>> /\ cache' = cache
    BY <1>8 DEF CreateAnswerLost, Creating, Busy, r
  <2> DEFINE k == Head(r.create)
             q == [r EXCEPT !.create = Tail(@), !.err = TRUE]
  <2>2. server[k] = None /\ Put(k, created(s, r.objs[k].data)) /\ Becomes(s, q)
    BY <1>8 DEF CreateAnswerLost, r
  <2>3. /\ q \in Run
        /\ Is(q, r.pc, r.objs, r.left, r.gvk, r.existing, Tail(r.create), r.update, r.delete, TRUE)
    BY <1>0, <1>2, <2>1 DEF Run, Is
  <2> HIDE DEF q
  <2>4. Creates(s, r, q)
    BY <2>1, <2>2, <2>3 DEF Creates
  <2> QED BY <2>1, <2>2, <2>3, <2>4 DEF Outcome, r
<1>9. CASE CallLost(s)
  <2>1. cache' = cache /\ NoPut
    BY <1>9 DEF CallLost, NoPut
  <2>2. CASE BetweenGVKs(s) /\ \E g \in NextGVKs(r) :
               Becomes(s, [r EXCEPT !.left = @ \ {g}, !.err = TRUE])
    <3>1. PICK g \in NextGVKs(r) : Becomes(s, [r EXCEPT !.left = @ \ {g}, !.err = TRUE])
      BY <2>2
    <3>2. /\ r.pc = "apply" /\ r.create = <<>> /\ r.update = <<>> /\ r.delete = <<>>
          /\ g \in r.left /\ r.left \ {g} \in SUBSET GVKs
      BY <1>1, <2>2, NextGVKsLeft DEF BetweenGVKs, Busy, r
    <3> DEFINE q == [r EXCEPT !.left = @ \ {g}, !.err = TRUE]
    <3>3. q \in Run /\ Is(q, r.pc, r.objs, r.left \ {g}, r.gvk, r.existing, r.create, r.update,
                          r.delete, TRUE)
      BY <1>0, <3>2 DEF Run, Is
    <3> HIDE DEF q
    <3>4. GivesUp(r, q)
      BY <2>1, <3>2, <3>3 DEF GivesUp
    <3>5. Becomes(s, q)
      BY <3>1 DEF q
    <3> QED BY <2>1, <3>2, <3>3, <3>4, <3>5 DEF Outcome, r
  <2>3. CASE /\ Creating(s) \/ r.pc = "get"
             /\ Becomes(s, [r EXCEPT !.pc = "apply", !.create = Tail(@), !.err = TRUE])
    <3>1. r.create # <<>> /\ r.pc \in {"apply", "get"}
      BY <1>0, <2>3 DEF Creating, Busy, Planned, r
    <3> DEFINE q == [r EXCEPT !.pc = "apply", !.create = Tail(@), !.err = TRUE]
    <3>2. /\ q \in Run
          /\ Is(q, "apply", r.objs, r.left, r.gvk, r.existing, Tail(r.create), r.update, r.delete, TRUE)
      BY <1>0, <1>2, <3>1 DEF Run, Is
    <3>3. Becomes(s, q)
      BY <2>3
    <3> HIDE DEF q
    <3>4. Drops(r, q)
      BY <2>1, <3>1, <3>2 DEF Drops
    <3> QED BY <2>1, <3>1, <3>2, <3>3, <3>4 DEF Outcome, r
  <2>4. CASE Updating(s) /\ Becomes(s, [r EXCEPT !.update = Tail(@), !.err = TRUE])
    <3>1. r.update # <<>> /\ r.pc = "apply"
      BY <2>4 DEF Updating, Busy, r
    <3> DEFINE q == [r EXCEPT !.update = Tail(@), !.err = TRUE]
    <3>2. /\ q \in Run
          /\ Is(q, r.pc, r.objs, r.left, r.gvk, r.existing, r.create, Tail(r.update), r.delete, TRUE)
      BY <1>0, <1>2, <3>1 DEF Run, Is
    <3>3. Becomes(s, q)
      BY <2>4
    <3> HIDE DEF q
    <3>4. Drops(r, q)
      BY <2>1, <3>1, <3>2 DEF Drops
    <3> QED BY <2>1, <3>1, <3>2, <3>3, <3>4 DEF Outcome, r
  <2>5. CASE Deleting(s) /\ Becomes(s, [r EXCEPT !.delete = Tail(@), !.err = TRUE])
    <3>1. r.delete # <<>> /\ r.pc = "apply"
      BY <2>5 DEF Deleting, Busy, r
    <3> DEFINE q == [r EXCEPT !.delete = Tail(@), !.err = TRUE]
    <3>2. /\ q \in Run
          /\ Is(q, r.pc, r.objs, r.left, r.gvk, r.existing, r.create, r.update, Tail(r.delete), TRUE)
      BY <1>0, <1>2, <3>1 DEF Run, Is
    <3>3. Becomes(s, q)
      BY <2>5
    <3> HIDE DEF q
    <3>4. Drops(r, q)
      BY <2>1, <3>1, <3>2 DEF Drops
    <3> QED BY <2>1, <3>1, <3>2, <3>3, <3>4 DEF Outcome, r
  <2> QED BY <1>9, <2>2, <2>3, <2>4, <2>5 DEF CallLost, r
<1> QED BY <1>3, <1>4, <1>5, <1>6, <1>7, <1>8, <1>9 DEF ApplyStep, Work

-----------------------------------------------------------------------------
(* What the operations keep *)

\* The same, and the events are objects.
ApplyOK == Calls /\ events \in [Keys -> Seq(Object \cup {None})]

\* What a call writes is an object.
LEMMA ObjectTypes ==
    ASSUME NEW s \in Sets, NEW data \in Data, NEW o \in Object, NEW target \in Object
    PROVE  created(s, data) \in Object /\ patched(s, o, data, target) \in Object
<1>1. created(s, data) \in Object
  BY DEF created, annotation, Object, Annotation
<1>2. annotation(s, data) \in Annotation
  BY DEF annotation, Annotation
<1>3. [f \in Fields |-> IF f \in changed(o, data) THEN data[f] ELSE target.data[f]] \in Data
  BY DEF Data, Object
<1>4. patched(s, o, data, target) \in Object
  BY <1>2, <1>3 DEF patched, Object
<1> QED BY <1>1, <1>4

\* A write keeps the types of the server and of the informer's events.
LEMMA PutType ==
    ASSUME NEW k \in Keys, NEW o \in Object \cup {None}, Put(k, o),
           server \in [Keys -> Object \cup {None}],
           events \in [Keys -> Seq(Object \cup {None})]
    PROVE  /\ server' \in [Keys -> Object \cup {None}]
           /\ events' \in [Keys -> Seq(Object \cup {None})]
           /\ server'[k] = o /\ \A j \in Keys : j # k => server'[j] = server[j]
BY DEF Put

\* A step keeps the plan of its call, and what the call is for.
LEMMA OutcomePlanned ==
    ASSUME Calls, NEW s \in Sets, NEW r \in Run, Planned(r), NEW q \in Run, Outcome(s, r, q)
    PROVE  Planned(q) /\ q.objs = r.objs /\ q.pc \in {"apply", "get"}
<1>1. /\ r.create \in Seq(Keys) /\ r.update \in Seq(Keys) /\ r.delete \in Seq(Keys)
      /\ r.existing \in [Keys -> Object \cup {None}]
  BY RunFields
<1>2. \A k : ~Among(k, <<>>)
  BY AmongRules, <1>1
<1>3. ASSUME NEW u \in Seq(Keys), u # <<>>
      PROVE  Head(u) \in Keys /\ Among(Head(u), u) /\ \A k : Among(k, Tail(u)) => Among(k, u)
  BY <1>3, AmongRules
<1>4. CASE GivesUp(r, q)
  BY <1>2, <1>4 DEF GivesUp, Is, Planned
<1>5. CASE Lists(s, r, q)
  <2>1. PICK g \in r.left :
         LET old == list(s, g)
         IN  Is(q, "apply", r.objs, r.left \ {g}, g, old, Sorted(toCreate(r.objs, g, old)),
                Sorted(toUpdate(r.objs, g, old)), Sorted(toDelete(r.objs, g, old)), r.err)
    BY <1>5 DEF Lists
  <2> DEFINE old == list(s, g)
             a == toCreate(r.objs, g, old)
             b == toUpdate(r.objs, g, old)
             c == toDelete(r.objs, g, old)
  <2> HIDE DEF old
  <2>2. a \in SUBSET Keys /\ b \in SUBSET Keys /\ c \in SUBSET Keys
    BY DEF toCreate, toUpdate, toDelete
  <2>3. /\ \A k \in a : r.objs[k] # None
        /\ \A k \in b : r.objs[k] # None /\ old[k] # None
        /\ \A k \in c : r.objs[k] = None /\ old[k] # None /\ k \notin NoPrune
    BY DEF toCreate, toUpdate, toDelete
  <2> HIDE DEF a, b, c
  <2>4. /\ \A k : Among(k, Sorted(a)) => k \in a
        /\ \A k : Among(k, Sorted(b)) => k \in b
        /\ \A k : Among(k, Sorted(c)) => k \in c
    BY <2>2, SortedElements
  <2>5. /\ q.objs = r.objs /\ q.existing = old /\ q.create = Sorted(a) /\ q.update = Sorted(b)
        /\ q.delete = Sorted(c) /\ q.pc = "apply"
    BY <2>1 DEF Is, old, a, b, c
  <2> QED BY <2>3, <2>4, <2>5 DEF Planned
<1>6. CASE Creates(s, r, q)
  BY <1>1, <1>3, <1>6 DEF Creates, Is, Planned
<1>7. CASE Meets(r, q)
  BY <1>7 DEF Meets, Is, Planned
<1>8. CASE Finds(r, q)
  <2> DEFINE k == Head(r.create)
  <2>1. k \in Keys /\ r.objs[k] # None /\ server[k] # None
    BY <1>1, <1>3, <1>8 DEF Finds, Planned
  <2>2. /\ q.pc = "apply" /\ q.objs = r.objs /\ q.create = Tail(r.create) /\ q.delete = r.delete
        /\ q.existing = [r.existing EXCEPT ![k] = server[k]] /\ q.update = Append(r.update, k)
    BY <1>8 DEF Finds, Is
  <2>3. \A j : Among(j, Tail(r.create)) => Among(j, r.create)
    BY <1>1, <1>3, <1>8 DEF Finds
  <2> HIDE DEF k
  <2>4. \A j : Among(j, q.update) => Among(j, r.update) \/ j = k
    BY <1>1, <2>1, <2>2, AmongRules
  <2>5. \A j \in Keys : q.existing[j] = IF j = k THEN server[k] ELSE r.existing[j]
    BY <1>1, <2>2
  <2> QED BY <2>1, <2>2, <2>3, <2>4, <2>5 DEF Planned
<1>9. CASE Updates(s, r, q)
  BY <1>1, <1>2, <1>3, <1>9 DEF Updates, Is, Planned
<1>10. CASE Deletes(r, q)
  BY <1>1, <1>2, <1>3, <1>10 DEF Deletes, Is, Planned
<1>11. CASE Drops(r, q)
  <2>1. q.pc = "apply" /\ q.objs = r.objs /\ q.existing = r.existing
    BY <1>11 DEF Drops, Is
  <2>2. /\ q.create = r.create \/ (r.create # <<>> /\ q.create = Tail(r.create))
        /\ q.update = r.update \/ (r.update # <<>> /\ q.update = Tail(r.update))
        /\ q.delete = r.delete \/ (r.delete # <<>> /\ q.delete = Tail(r.delete))
    BY <1>11 DEF Drops, Is
  <2>3. /\ \A k : Among(k, q.create) => Among(k, r.create)
        /\ \A k : Among(k, q.update) => Among(k, r.update)
        /\ \A k : Among(k, q.delete) => Among(k, r.delete)
    BY <1>1, <1>3, <2>2
  <2> QED BY <2>1, <2>3 DEF Planned
<1> QED BY <1>4, <1>5, <1>6, <1>7, <1>8, <1>9, <1>10, <1>11 DEF Outcome

\* What a step writes to the server: nothing, or the object of one key.
Writes(s, r) ==
    \/ NoPut
    \/ /\ r.create # <<>> /\ server[Head(r.create)] = None
       /\ Put(Head(r.create), created(s, r.objs[Head(r.create)].data))
    \/ r.update # <<>> /\ (Replaces(r) \/ Patches(s, r))
    \/ /\ r.delete # <<>> /\ r.gvk \notin NoDelete /\ server[Head(r.delete)] # None
       /\ Put(Head(r.delete), None)

\* A step writes in one of the known ways.
LEMMA OutcomeWrites ==
    ASSUME NEW s, NEW r, NEW q, Outcome(s, r, q)
    PROVE  Writes(s, r)
BY DEF Outcome, Writes, GivesUp, Lists, Creates, Meets, Finds, Updates, Deletes, Drops

\* A step of a call keeps the types and the plan of every call.
LEMMA StepKeeps ==
    ASSUME ApplyOK, NEW s \in Sets, ApplyStep(s)
    PROVE  /\ ApplyOK' /\ cache' = cache
           /\ run'[s].objs = run[s].objs /\ run'[s].pc # "idle" /\ run[s].pc # "idle"
           /\ \A t \in Sets : t # s => run'[t] = run[t]
           /\ Outcome(s, run[s], run'[s])
<1> DEFINE r == run[s]
<1>1. Calls /\ r \in Run /\ Planned(r) /\ server \in [Keys -> Object \cup {None}]
      /\ events \in [Keys -> Seq(Object \cup {None})] /\ run \in [Sets -> Run]
      /\ \A t \in Sets : Planned(run[t])
  BY DEF ApplyOK, Calls
<1>2. PICK q \in Run : Becomes(s, q) /\ Outcome(s, r, q) /\ cache' = cache
                       /\ r.pc \in {"apply", "get"}
  BY <1>1, WorkOutcome
<1>3. /\ run' \in [Sets -> Run] /\ run'[s] = q
      /\ \A t \in Sets : t # s => run'[t] = run[t]
  BY <1>1, <1>2 DEF Becomes
<1> HIDE DEF r
<1>4. Planned(q) /\ q.objs = r.objs /\ q.pc \in {"apply", "get"}
  BY <1>1, <1>2, OutcomePlanned
<1>5. /\ server' \in [Keys -> Object \cup {None}]
      /\ events' \in [Keys -> Seq(Object \cup {None})]
  <2>1. /\ r.create \in Seq(Keys) /\ r.update \in Seq(Keys) /\ r.delete \in Seq(Keys)
        /\ r.existing \in [Keys -> Object \cup {None}] /\ r.objs \in [Keys -> Desired \cup {None}]
    BY <1>1, RunFields DEF DesiredSet
  <2>2. Writes(s, r)
    BY <1>2, OutcomeWrites
  <2>3. CASE NoPut
    BY <1>1, <2>3 DEF NoPut
  <2>4. CASE r.create # <<>> /\ Put(Head(r.create), created(s, r.objs[Head(r.create)].data))
    <3>1. Head(r.create) \in Keys /\ r.objs[Head(r.create)] # None
      BY <1>1, <2>1, <2>4, AmongRules DEF Planned
    <3>2. r.objs[Head(r.create)].data \in Data
      BY <2>1, <3>1 DEF Desired
    <3>3. created(s, r.objs[Head(r.create)].data) \in Object
      BY <3>2 DEF created, annotation, Object, Annotation
    <3> QED BY <1>1, <2>4, <3>1, <3>3, PutType
  <2>5. CASE r.update # <<>> /\ (Replaces(r) \/ Patches(s, r))
    <3> DEFINE k == Head(r.update)
               new == patched(s, r.existing[k], r.objs[k].data, server[k])
    <3>1. k \in Keys /\ r.objs[k] # None /\ r.existing[k] # None
      BY <1>1, <2>1, <2>5, AmongRules DEF Planned
    <3>2. r.objs[k].data \in Data /\ r.existing[k] \in Object
      BY <2>1, <3>1 DEF Desired
    <3>3. CASE Replaces(r)
      BY <1>1, <3>1, <3>3, PutType DEF Replaces, NoPut
    <3>4. CASE Patches(s, r)
      <4>1. server[k] \in Object /\ Put(k, new)
        BY <1>1, <3>1, <3>4 DEF Patches
      <4>2. new \in Object
        BY <3>2, <4>1, ObjectTypes
      <4> HIDE DEF new, k
      <4> QED BY <1>1, <3>1, <4>1, <4>2, PutType
    <3> QED BY <2>5, <3>3, <3>4
  <2>6. CASE r.delete # <<>> /\ Put(Head(r.delete), None)
    <3>1. Head(r.delete) \in Keys
      BY <2>1, <2>6
    <3> QED BY <1>1, <2>6, <3>1, PutType
  <2> QED BY <2>2, <2>3, <2>4, <2>5, <2>6 DEF Writes
<1>6. \A t \in Sets : Planned(run'[t])
  BY <1>1, <1>3, <1>4
<1>7. ApplyOK'
  BY <1>1, <1>2, <1>3, <1>5, <1>6 DEF ApplyOK, Calls, Planned
<1> QED BY <1>2, <1>3, <1>4, <1>7 DEF r

\* What the set wants is of known GVKs.
LEMMA DesiredGVKsType ==
    ASSUME NEW w \in DesiredSet
    PROVE  DesiredGVKs(w) \in SUBSET GVKs
BY DEF DesiredGVKs, DesiredSet, Desired

\* The record of no call is one.
LEMMA IdleOK == Idle \in Run /\ Planned(Idle) /\ Idle.pc = "idle" /\ Empty \in DesiredSet
<1>1. Empty \in DesiredSet /\ Empty \in [Keys -> Object \cup {None}]
  BY DEF Empty, DesiredSet
<1>2. /\ Idle.pc = "idle" /\ Idle.create = <<>> /\ Idle.update = <<>> /\ Idle.delete = <<>>
  BY DEF Idle
<1>3. \A k : ~Among(k, <<>>)
  BY DEF Among
<1>4. <<>> \in Seq(Keys)
  OBVIOUS
<1>5. Idle \in Run
  BY <1>1, <1>4 DEF Idle, Run
<1> QED BY <1>1, <1>2, <1>3, <1>5 DEF Planned

\* A call's record changes, nothing else of Apply's state does.
LEMMA BecomesKeeps ==
    ASSUME ApplyOK, NEW s \in Sets, NEW q \in Run, Planned(q), Becomes(s, q),
           UNCHANGED <<server, cache, events>>
    PROVE  ApplyOK' /\ run'[s] = q /\ \A t \in Sets : t # s => run'[t] = run[t]
<1>1. /\ run \in [Sets -> Run] /\ \A t \in Sets : Planned(run[t])
      /\ server \in [Keys -> Object \cup {None}] /\ cache \in [Keys -> Object \cup {None}]
      /\ events \in [Keys -> Seq(Object \cup {None})]
  BY DEF ApplyOK, Calls
<1>2. run' \in [Sets -> Run] /\ run'[s] = q /\ \A t \in Sets : t # s => run'[t] = run[t]
  BY <1>1 DEF Becomes
<1>3. \A t \in Sets : Planned(run'[t])
  BY <1>1, <1>2
<1>4. ApplyOK'
  BY <1>1, <1>2, <1>3 DEF ApplyOK, Calls, Planned
<1> QED BY <1>2, <1>4

\* A call begins with everything to do and nothing planned.
LEMMA StartKeeps ==
    ASSUME ApplyOK, NEW s \in Sets, NEW w \in DesiredSet, Start(s, w)
    PROVE  /\ ApplyOK' /\ UNCHANGED <<server, cache, events>>
           /\ Is(run'[s], "apply", w, DesiredGVKs(w) \cup Known, None, Empty, <<>>, <<>>, <<>>, FALSE)
           /\ run[s].pc = "idle" /\ \A t \in Sets : t # s => run'[t] = run[t]
<1> DEFINE q == [Idle EXCEPT !.pc = "apply", !.objs = w, !.left = DesiredGVKs(w) \cup Known]
<1>1. DesiredGVKs(w) \cup Known \in SUBSET GVKs
  BY DesiredGVKsType, ApplyAssumption
<1>2. /\ q \in Run
      /\ Is(q, "apply", w, DesiredGVKs(w) \cup Known, Idle.gvk, Idle.existing, Idle.create,
            Idle.update, Idle.delete, Idle.err)
  <2> DEFINE a == DesiredGVKs(w) \cup Known
  <2> HIDE DEF a
  <2>1. a \in SUBSET GVKs
    BY <1>1 DEF a
  <2>2. [Idle EXCEPT !.pc = "apply", !.objs = w, !.left = a] \in Run
        /\ Is([Idle EXCEPT !.pc = "apply", !.objs = w, !.left = a], "apply", w, a, Idle.gvk,
              Idle.existing, Idle.create, Idle.update, Idle.delete, Idle.err)
    BY IdleOK, <2>1 DEF Run, Is
  <2> QED BY <2>2 DEF a
<1>3. Is(q, "apply", w, DesiredGVKs(w) \cup Known, None, Empty, <<>>, <<>>, <<>>, FALSE)
  BY <1>2 DEF Is, Idle
<1> HIDE DEF q
<1>4. Planned(q)
  BY <1>3 DEF Planned, Is, Among
<1>5. Becomes(s, q) /\ UNCHANGED <<server, cache, events>> /\ run[s].pc = "idle"
  BY DEF Start, q
<1> QED BY <1>2, <1>3, <1>4, <1>5, BecomesKeeps

\* A call ends.
LEMMA EndKeeps ==
    ASSUME ApplyOK, NEW s \in Sets, Return(s) \/ Abort(s)
    PROVE  /\ ApplyOK' /\ UNCHANGED <<server, cache, events>>
           /\ run'[s] = Idle /\ \A t \in Sets : t # s => run'[t] = run[t]
<1>1. Becomes(s, Idle) /\ UNCHANGED <<server, cache, events>>
  BY DEF Return, Abort
<1> QED BY <1>1, IdleOK, BecomesKeeps

\* The informer brings the cache forward by one version.
LEMMA DeliverKeeps ==
    ASSUME ApplyOK, NEW k \in Keys, Deliver(k)
    PROVE  ApplyOK' /\ UNCHANGED <<server, run>>
<1>1. /\ cache \in [Keys -> Object \cup {None}] /\ events \in [Keys -> Seq(Object \cup {None})]
      /\ events[k] # <<>> /\ UNCHANGED <<server, run>>
      /\ cache' = [cache EXCEPT ![k] = Head(events[k])]
      /\ events' = [events EXCEPT ![k] = Tail(@)]
  BY DEF ApplyOK, Calls, Deliver
<1>2. Head(events[k]) \in Object \cup {None} /\ Tail(events[k]) \in Seq(Object \cup {None})
  BY <1>1
<1>3. cache' \in [Keys -> Object \cup {None}] /\ events' \in [Keys -> Seq(Object \cup {None})]
  BY <1>1, <1>2
<1> QED BY <1>1, <1>3 DEF ApplyOK, Calls, Planned

\* Someone else writes.
LEMMA PutKeeps ==
    ASSUME ApplyOK, NEW k \in Keys, NEW o \in Object \cup {None}, Put(k, o), UNCHANGED <<cache, run>>
    PROVE  ApplyOK' /\ server'[k] = o /\ \A j \in Keys : j # k => server'[j] = server[j]
<1>1. /\ server \in [Keys -> Object \cup {None}] /\ events \in [Keys -> Seq(Object \cup {None})]
  BY DEF ApplyOK, Calls
<1>2. /\ server' \in [Keys -> Object \cup {None}] /\ events' \in [Keys -> Seq(Object \cup {None})]
      /\ server'[k] = o /\ \A j \in Keys : j # k => server'[j] = server[j]
  BY <1>1, PutType
<1> QED BY <1>2 DEF ApplyOK, Calls, Planned

\* At the beginning there is nothing.
LEMMA InitOK == ApplyInit => ApplyOK
<1> HAVE ApplyInit
<1>1. server = Empty /\ cache = Empty /\ events = [k \in Keys |-> <<>>] /\ run = [s \in Sets |-> Idle]
  BY DEF ApplyInit
<1>2. Empty \in [Keys -> Object \cup {None}] /\ <<>> \in Seq(Object \cup {None})
  BY DEF Empty
<1> QED BY <1>1, <1>2, IdleOK DEF ApplyOK, Calls

\* The plan is what the type invariant says of a call.
LEMMA TypesOK == ApplyOK => ApplyTypeOK
<1> HAVE ApplyOK
<1>1. /\ server \in [Keys -> Object \cup {None}] /\ cache \in [Keys -> Object \cup {None}]
      /\ events \in [Keys -> Seq(Object \cup {None})] /\ run \in [Sets -> Run]
  BY DEF ApplyOK, Calls
<1>2. ASSUME NEW s \in Sets PROVE WellFormed(run[s])
  <2> DEFINE r == run[s]
  <2>1. r \in Run /\ Planned(r)
    BY DEF ApplyOK, Calls
  <2> HIDE DEF r
  <2>2. r.create \in Seq(Keys) /\ r.update \in Seq(Keys) /\ r.delete \in Seq(Keys)
    BY <2>1, RunFields
  <2>3. /\ \A i \in 1 .. Len(r.create) : r.create[i] \in Keys /\ Among(r.create[i], r.create)
        /\ \A i \in 1 .. Len(r.update) : r.update[i] \in Keys /\ Among(r.update[i], r.update)
        /\ \A i \in 1 .. Len(r.delete) : r.delete[i] \in Keys /\ Among(r.delete[i], r.delete)
    BY <2>2 DEF Among
  <2>4. WellFormed(r)
    BY <2>1, <2>3 DEF WellFormed, Planned
  <2> QED BY <2>4 DEF r
<1> QED BY <1>1, <1>2 DEF ApplyTypeOK
=============================================================================
