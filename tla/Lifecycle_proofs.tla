-------------------------- MODULE Lifecycle_proofs --------------------------
(* Proofs of the safety properties of Lifecycle, and that it implements      *)
(* Finalization, for any number of controllers and handlers, incarnations   *)
(* and faults.                                                              *)
EXTENDS Lifecycle, SequenceTheorems, WellFoundedInduction, TLAPS

\* No finalizer is on the list twice.
Once(fs) == \A i, j \in 1..Len(fs) : fs[i] = fs[j] => i = j

\* o is the object as the API server has it or once had it: srv is the object
\* there now, ver its last resourceVersion, bn the last uid.  The
\* resourceVersion tells versions apart, and deletion is never taken back.
Copy(o, srv, ver, bn) ==
  /\ o.rv <= ver /\ o.uid <= bn
  /\ Once(o.finalizers)
  /\ srv # None /\ srv.rv = o.rv => srv = o
  /\ srv # None /\ srv.uid = o.uid /\ o.deleting => srv.deleting

\* Every object at hand is such a copy.
Copies ==
  /\ server # None => Copy(server, server, version, born)
  /\ \A c \in Controllers :
       /\ cache[c] # None => Copy(cache[c], server, version, born)
       /\ obj[c] # None => Copy(obj[c], server, version, born)

\* What a worker has found out about its object before it calls anyone
Workers ==
  \A c \in Controllers :
    /\ pc[c] = "handler" => obj[c].deleting /\ Carries(obj[c], Name(c))
    /\ pc[c] = "update" =>
         IF obj[c].deleting
         THEN Carries(obj[c], Name(c)) /\ <<obj[c].uid, Name(c)>> \in cleaned
         ELSE ~Carries(obj[c], Name(c))

\* Cleanups ran for objects that exist or did.
Cleaned == \A u \in Nat, n \in Names : <<u, n>> \in cleaned => u <= born

\* The inductive invariant.
IInv == TypeOK /\ Copies /\ Workers /\ Cleaned /\ CleanupOnlyIfDeleted

-----------------------------------------------------------------------------
(* The finalizer list *)

\* A function on 1..n is a sequence of length n.
LEMMA FunctionIsSeq ==
  ASSUME NEW S, NEW n \in Nat, NEW f \in [1..n -> S]
  PROVE  f \in Seq(S) /\ Len(f) = n
OBVIOUS

\* addFinalizer's list has the new name and all the old ones, each once.
LEMMA AddedOnce ==
  ASSUME NEW o \in Object, NEW n \in Names, ~Carries(o, n), Once(o.finalizers)
  PROVE  /\ added(o, n) \in Seq(Names)
         /\ Once(added(o, n))
         /\ \A f : Carries(o, f) => \E i \in 1..Len(added(o, n)) : added(o, n)[i] = f
<1> DEFINE fs == o.finalizers
<1>1. fs \in Seq(Names) /\ Len(fs) \in Nat
  BY DEF Object
<1>2. /\ added(o, n) \in Seq(Names) /\ Len(added(o, n)) = Len(fs) + 1
      /\ \A i \in 1..Len(fs) : added(o, n)[i] = fs[i]
      /\ added(o, n)[Len(fs) + 1] = n
  BY <1>1 DEF added
<1>3. \A i \in 1..Len(fs) : fs[i] # n
  BY DEF Carries
<1>4. Once(added(o, n))
  BY <1>1, <1>2, <1>3 DEF Once
<1>5. ASSUME NEW f, Carries(o, f)
      PROVE  \E i \in 1..Len(added(o, n)) : added(o, n)[i] = f
  BY <1>1, <1>2, <1>5 DEF Carries
<1> QED
  BY <1>2, <1>4, <1>5

\* removeFinalizer's list has lost the handler's name and nothing else.
LEMMA RemovedOne ==
  ASSUME NEW o \in Object, NEW n \in Names, Carries(o, n), Once(o.finalizers)
  PROVE  /\ removed(o, n) \in Seq(Names)
         /\ Once(removed(o, n))
         /\ \A f : f # n /\ Carries(o, f)
                     => \E i \in 1..Len(removed(o, n)) : removed(o, n)[i] = f
<1> DEFINE fs == o.finalizers
           k == CHOOSE i \in 1..Len(fs) : fs[i] = n
           rs == removed(o, n)
<1>1. fs \in Seq(Names) /\ Len(fs) \in Nat /\ \A i \in 1..Len(fs) : fs[i] \in Names
  BY ElementOfSeq DEF Object
<1>2. k \in 1..Len(fs) /\ fs[k] = n
  BY DEF Carries
<1>3. rs = [i \in 1..(Len(fs) - 1) |-> IF i < k THEN fs[i] ELSE fs[i + 1]]
  BY DEF removed
<1> HIDE DEF k
<1>4. Len(fs) - 1 \in Nat /\ \A i \in 1..(Len(fs) - 1) : rs[i] \in Names
  BY <1>1, <1>2, <1>3
<1>5. rs \in Seq(Names) /\ Len(rs) = Len(fs) - 1
  <2>1. rs \in [1..(Len(fs) - 1) -> Names]
    BY <1>3, <1>4
  <2> QED
    BY <1>4, <2>1, FunctionIsSeq
<1>6. Once(rs)
  BY <1>1, <1>2, <1>3, <1>5 DEF Once
<1>7. ASSUME NEW f, f # n, Carries(o, f)
      PROVE  \E i \in 1..Len(rs) : rs[i] = f
  <2>1. PICK j \in 1..Len(fs) : fs[j] = f
    BY <1>7 DEF Carries
  <2>2. CASE j < k
    BY <1>1, <1>2, <1>3, <1>5, <2>1, <2>2
  <2>3. CASE j > k
    <3>1. j - 1 \in 1..Len(rs) /\ ~(j - 1 < k) /\ rs[j - 1] = fs[j]
      BY <1>1, <1>2, <1>3, <1>5, <2>1, <2>3
    <3> QED
      BY <2>1, <3>1
  <2> QED
    BY <1>1, <1>2, <1>7, <2>1, <2>2, <2>3
<1> QED
  BY <1>5, <1>6, <1>7

-----------------------------------------------------------------------------
(* The loop that takes a finalizer off *)

\* Induction over the numbers, for a set.
LEMMA SetInduction ==
  ASSUME NEW S, 0 \in S, \A n \in Nat : n \in S => n + 1 \in S
  PROVE  \A n \in Nat : n \in S
<1> DEFINE T == Nat \ S
<1>1. SUFFICES ASSUME T # {} PROVE FALSE
  OBVIOUS
<1>2. PICK x \in T : \A y \in T : ~(<<y, x>> \in OpToRel(<, Nat))
  BY <1>1, WFMin, NatLessThanWellFounded
<1>3. x # 0 /\ x - 1 \in Nat /\ x - 1 < x /\ x - 1 \in T
  OBVIOUS
<1>4. <<x - 1, x>> \in OpToRel(<, Nat)
  BY <1>3 DEF OpToRel
<1> QED
  BY <1>2, <1>3, <1>4

\* One round of the loop: array a after its element k was looked at.
Round(a, k, n, name) ==
  IF a[k] # name THEN a
  ELSE [i \in 1..n |-> IF k <= i /\ i < n THEN a[i + 1] ELSE a[i]]

\* f is the array as the n rounds over fs leave it, round by round.
Rounds(f, fs, n, name) ==
  f = [k \in 0..n |-> IF k = 0 THEN fs ELSE Round(f[k - 1], k, n, name)]

\* The array with element k shifted out; its last element stays behind.
Shifted(fs, k, n) == [i \in 1..n |-> IF k <= i /\ i < n THEN fs[i + 1] ELSE fs[i]]

\* Of a list with one entry of the name, at k0, the rounds before k0 leave
\* everything, round k0 shifts, and what the later rounds read is never the
\* name again.
LEMMA RoundsShiftOnce ==
  ASSUME NEW fs \in Seq(Names), NEW name, Once(fs),
         NEW k0 \in 1..Len(fs), fs[k0] = name,
         NEW k \in 1..Len(fs),
         NEW a, a = IF k - 1 < k0 THEN fs ELSE Shifted(fs, k0, Len(fs))
  PROVE  Round(a, k, Len(fs), name) = IF k < k0 THEN fs ELSE Shifted(fs, k0, Len(fs))
<1> DEFINE n == Len(fs)
<1>1. n \in Nat
  BY LenProperties
<1>2. \A i \in 1..n : fs[i] = name => i = k0
  BY DEF Once
<1>3. CASE k < k0
  BY <1>1, <1>2, <1>3 DEF Round
<1>4. CASE k = k0
  <2>1. a = fs /\ ~(k < k0)
    BY <1>4
  <2>2. Round(fs, k0, n, name) = Shifted(fs, k0, n)
    BY DEF Round, Shifted
  <2> QED
    BY <1>4, <2>1, <2>2
<1>5. CASE k > k0
  <2>1. a = Shifted(fs, k0, n)
    BY <1>5
  <2>2. a[k] = IF k < n THEN fs[k + 1] ELSE fs[k]
    BY <1>1, <1>5, <2>1 DEF Shifted
  <2>3. a[k] # name
    BY <1>1, <1>2, <1>5, <2>2
  <2> QED
    BY <1>5, <2>1, <2>3 DEF Round
<1> QED
  BY <1>3, <1>4, <1>5

\* On a list that has the name once, removeFinalizer's loop yields the list
\* without it.
LEMMA LoopValue ==
  ASSUME NEW o \in Object, NEW name, Carries(o, name), Once(o.finalizers)
  PROVE  removeLoop(o.finalizers, name) = removed(o, name)
<1> DEFINE fs == o.finalizers
           n == Len(fs)
           k0 == CHOOSE i \in 1..Len(fs) : fs[i] = name
           g == [k \in 0..n |-> IF k < k0 THEN fs ELSE Shifted(fs, k0, n)]
           F == CHOOSE f : Rounds(f, fs, n, name)
<1>1. fs \in Seq(Names) /\ n \in Nat
  BY LenProperties DEF Object
<1>2. k0 \in 1..n /\ fs[k0] = name
  BY DEF Carries
<1>3. removed(o, name) = [i \in 1..(n - 1) |-> IF i < k0 THEN fs[i] ELSE fs[i + 1]]
  BY DEF removed
<1>4. removeLoop(fs, name) = SubSeq(F[n], 1, n - 1)
  BY DEF removeLoop, Rounds, Round
<1> HIDE DEF k0
<1>5. ASSUME NEW k \in 1..n, NEW a, a = g[k - 1]
      PROVE  Round(a, k, n, name) = g[k]
  <2>1. a = IF k - 1 < k0 THEN fs ELSE Shifted(fs, k0, n)
    BY <1>1, <1>5
  <2>2. g[k] = IF k < k0 THEN fs ELSE Shifted(fs, k0, n)
    OBVIOUS
  <2> HIDE DEF g
  <2> QED
    BY <1>1, <1>2, <2>1, <2>2, RoundsShiftOnce
<1>6. Rounds(g, fs, n, name)
  <2> DEFINE h == [k \in 0..n |-> IF k = 0 THEN fs ELSE Round(g[k - 1], k, n, name)]
  <2>1. ASSUME NEW k \in 0..n PROVE g[k] = h[k]
    <3>1. CASE k = 0
      BY <1>1, <1>2, <3>1
    <3>2. CASE k # 0
      <4>1. k \in 1..n
        BY <1>1, <3>2
      <4>2. h[k] = Round(g[k - 1], k, n, name)
        BY <3>2
      <4> HIDE DEF g, h
      <4> QED
        BY <1>5, <4>1, <4>2
    <3> QED
      BY <3>1, <3>2
  <2>2. g = [k \in 0..n |-> g[k]] /\ h = [k \in 0..n |-> h[k]]
    OBVIOUS
  <2>3. g = h
    <3> HIDE DEF g, h
    <3> QED
      BY <2>1, <2>2
  <2> HIDE DEF g
  <2> QED
    BY <2>3 DEF Rounds
<1>7. Rounds(F, fs, n, name)
  <2> HIDE DEF g
  <2> QED
    BY <1>6
<1> HIDE DEF F
<1>8. \A k \in 0..n : F[k] = g[k]
  <2> DEFINE T == {k \in Nat : k <= n => F[k] = g[k]}
  <2>1. 0 \in T
    BY <1>1, <1>2, <1>7 DEF Rounds
  <2>2. ASSUME NEW k \in Nat, k \in T PROVE k + 1 \in T
    <3> HIDE DEF g
    <3> SUFFICES ASSUME k + 1 <= n PROVE F[k + 1] = g[k + 1]
      OBVIOUS
    <3>1. k + 1 \in 0..n /\ k + 1 \in 1..n /\ k + 1 # 0 /\ (k + 1) - 1 = k /\ F[k] = g[k]
      BY <1>1, <2>2
    <3>2. F[k + 1] = Round(F[k], k + 1, n, name)
      BY <1>7, <3>1 DEF Rounds
    <3>3. Round(F[k], k + 1, n, name) = g[k + 1]
      BY <1>5, <3>1
    <3> QED
      BY <3>2, <3>3
  <2> HIDE DEF T, g
  <2>3. \A k \in Nat : k \in T
    BY <2>1, <2>2, SetInduction
  <2> QED
    BY <1>1, <2>3 DEF T
<1>9. F[n] = Shifted(fs, k0, n)
  <2>1. n \in 0..n /\ ~(n < k0)
    BY <1>1, <1>2
  <2>2. g[n] = Shifted(fs, k0, n)
    BY <2>1
  <2> HIDE DEF g
  <2> QED
    BY <1>8, <2>1, <2>2
<1>10. SubSeq(Shifted(fs, k0, n), 1, n - 1) = [i \in 1..(n - 1) |-> Shifted(fs, k0, n)[i]]
  <2>1. \A i \in 1..n : Shifted(fs, k0, n)[i] \in Names
    BY <1>1, <1>2, ElementOfSeq DEF Shifted
  <2>2. Shifted(fs, k0, n) \in [1..n -> Names]
    BY <2>1 DEF Shifted
  <2>3. Shifted(fs, k0, n) \in Seq(Names) /\ Len(Shifted(fs, k0, n)) = n
    BY <1>1, <2>2, FunctionIsSeq
  <2> QED
    BY <1>1, <1>2, <2>3
<1>11. \A i \in 1..(n - 1) : Shifted(fs, k0, n)[i] = IF i < k0 THEN fs[i] ELSE fs[i + 1]
  BY <1>1, <1>2 DEF Shifted
<1> QED
  BY <1>3, <1>4, <1>9, <1>10, <1>11

-----------------------------------------------------------------------------
(* Writes to the API server *)

\* What the API server stores is the object or nothing.
LEMMA StoredType ==
  ASSUME NEW o \in Object
  PROVE  Stored(o) \in Object \cup {None} /\ (Stored(o) # None => Stored(o) = o)
BY DEF Stored

\* A write that keeps the uid and the deletion, or makes a new uid, leaves
\* every copy a copy.
LEMMA WriteKeepsCopy ==
  ASSUME NEW srv \in Object \cup {None}, NEW ver \in Nat, NEW bn \in Nat,
         NEW o \in Object, NEW bn2 \in Nat, bn <= bn2,
         IF srv = None THEN bn < o.uid
                       ELSE o.uid = srv.uid /\ (srv.deleting => o.deleting),
         NEW x \in Object, Copy(x, srv, ver, bn)
  PROVE  Copy(x, Stored([o EXCEPT !.rv = ver + 1]), ver + 1, bn2)
<1> DEFINE w == [o EXCEPT !.rv = ver + 1]
<1>1. w \in Object /\ w.rv = ver + 1 /\ w.uid = o.uid /\ w.deleting = o.deleting
  BY DEF Object
<1>2. x.rv \in Nat /\ x.uid \in Nat /\ o.uid \in Nat
  BY DEF Object
<1>3. x.rv <= ver /\ x.uid <= bn /\ Once(x.finalizers)
  BY DEF Copy
<1>4. ASSUME Stored(w) # None PROVE Stored(w) = w
  BY <1>4 DEF Stored
<1>5. w.rv # x.rv
  BY <1>1, <1>2, <1>3
<1>6. w.uid = x.uid /\ x.deleting => w.deleting
  BY <1>1, <1>2, <1>3 DEF Copy
<1>7. x.rv <= ver + 1 /\ x.uid <= bn2
  BY <1>2, <1>3
<1> QED
  BY <1>3, <1>4, <1>5, <1>6, <1>7 DEF Copy

\* What is written is a copy.
LEMMA WriteMakesCopy ==
  ASSUME NEW ver \in Nat, NEW bn \in Nat, NEW o \in Object, o.uid <= bn,
         Once(o.finalizers)
  PROVE  LET w == [o EXCEPT !.rv = ver + 1]
         IN  w \in Object /\ Copy(w, Stored(w), ver + 1, bn)
<1> DEFINE w == [o EXCEPT !.rv = ver + 1]
<1>1. /\ w \in Object /\ w.rv = ver + 1 /\ w.uid = o.uid
      /\ w.finalizers = o.finalizers
  BY DEF Object
<1>2. Stored(w) # None => Stored(w) = w
  BY DEF Stored
<1>3. w.rv <= ver + 1
  BY <1>1
<1> QED
  BY <1>1, <1>2, <1>3 DEF Copy

-----------------------------------------------------------------------------
(* Steps that several actions share *)

WorkerType ==
  /\ queued \in [Controllers -> BOOLEAN]
  /\ pc \in [Controllers -> {"idle", "sync", "handler", "update"}]
  /\ idx \in [Controllers -> Nat]
  /\ \A c \in Controllers : idx[c] \in 1..Len(Handlers[c])
  /\ obj \in [Controllers -> Object \cup {None}]
  /\ \A c \in Controllers : obj[c] = None <=> pc[c] = "idle"
  /\ failed \in [Controllers -> BOOLEAN]

\* A controller has at least one handler, and each has a name.
LEMMA HandlersType ==
  ASSUME NEW c \in Controllers
  PROVE  Handlers[c] \in Seq(Names) /\ Len(Handlers[c]) \in Nat \ {0}
<1>1. Handlers[c] \in Seq(Names) /\ Handlers[c] # <<>>
  BY LifecycleAssumption
<1> QED
  BY <1>1, EmptySeq

\* None is not an object.
LEMMA NoneType == None \notin Object
BY LifecycleAssumption DEF Object

\* The handler a worker is at has a name.
LEMMA NameType ==
  ASSUME TypeOK, NEW c \in Controllers
  PROVE  Name(c) \in Names
BY HandlersType, ElementOfSeq DEF TypeOK, Name

\* A worker that finishes a handler goes on with the next one or is idle.
LEMMA ReturnFacts ==
  ASSUME TypeOK, NEW c \in Controllers, NEW o \in Object, NEW err \in BOOLEAN,
         Return(c, o, err)
  PROVE  /\ WorkerType'
         /\ \A d \in Controllers \ {c} :
              pc'[d] = pc[d] /\ obj'[d] = obj[d] /\ idx'[d] = idx[d]
         /\ \/ pc'[c] = "sync" /\ obj'[c] = o
            \/ pc'[c] = "idle" /\ obj'[c] = None
<1>0. Len(Handlers[c]) \in Nat \ {0} /\ idx[c] \in 1..Len(Handlers[c])
  BY HandlersType DEF TypeOK
<1>1. CASE idx[c] < Len(Handlers[c])
  <2>1. /\ pc' = [pc EXCEPT ![c] = "sync"] /\ idx' = [idx EXCEPT ![c] = @ + 1]
        /\ obj' = [obj EXCEPT ![c] = o] /\ queued' = queued
        /\ failed' = [failed EXCEPT ![c] = @ \/ err]
    BY <1>1 DEF Return
  <2>2. idx' \in [Controllers -> Nat] /\ \A d \in Controllers : idx'[d] \in 1..Len(Handlers[d])
    BY <1>0, <1>1, <2>1 DEF TypeOK
  <2>3. failed' \in [Controllers -> BOOLEAN]
    BY <2>1 DEF TypeOK
  <2>4. o # None
    BY NoneType
  <2> QED
    BY <2>1, <2>2, <2>3, <2>4 DEF TypeOK, WorkerType
<1>2. CASE ~(idx[c] < Len(Handlers[c]))
  <2>1. /\ pc' = [pc EXCEPT ![c] = "idle"] /\ idx' = [idx EXCEPT ![c] = 1]
        /\ obj' = [obj EXCEPT ![c] = None] /\ failed' = [failed EXCEPT ![c] = FALSE]
        /\ queued' = [queued EXCEPT ![c] = @ \/ failed[c] \/ err]
    BY <1>2 DEF Return, Idle
  <2>2. idx' \in [Controllers -> Nat] /\ \A d \in Controllers : idx'[d] \in 1..Len(Handlers[d])
    BY <1>0, <2>1 DEF TypeOK
  <2>3. failed' \in [Controllers -> BOOLEAN] /\ queued' \in [Controllers -> BOOLEAN]
    BY <2>1 DEF TypeOK
  <2> QED
    BY <2>1, <2>2, <2>3 DEF TypeOK, WorkerType
<1> QED
  BY <1>1, <1>2

\* A write to the API server leaves every copy a copy and makes a new one.
LEMMA WriteFacts ==
  ASSUME TypeOK, NEW o \in Object, Write(o), Once(o.finalizers),
         born' \in Nat, born <= born', o.uid <= born',
         IF server = None THEN born < o.uid
                          ELSE o.uid = server.uid /\ (server.deleting => o.deleting)
  PROVE  /\ server' \in Object \cup {None} /\ version' \in Nat
         /\ server' # None => server' = [o EXCEPT !.rv = version + 1]
         /\ \A x \in Object : Copy(x, server, version, born)
                                => Copy(x, server', version', born')
         /\ [o EXCEPT !.rv = version + 1] \in Object
         /\ Copy([o EXCEPT !.rv = version + 1], server', version', born')
<1> DEFINE w == [o EXCEPT !.rv = version + 1]
<1>1. server' = Stored(w) /\ version' = version + 1 /\ version \in Nat
      /\ born \in Nat /\ server \in Object \cup {None}
  BY DEF Write, TypeOK
<1>2. w \in Object /\ Copy(w, Stored(w), version + 1, born')
  BY <1>1, WriteMakesCopy
<1>3. \A x \in Object : Copy(x, server, version, born)
                          => Copy(x, Stored(w), version + 1, born')
  BY <1>1, WriteKeepsCopy
<1>4. version + 1 \in Nat
  BY <1>1
<1> QED
  BY <1>1, <1>2, <1>3, <1>4, StoredType

\* The updater writes the version the API server has, with the handler's own
\* finalizer put on or taken off.
LEMMA UpdateFacts ==
  ASSUME TypeOK, Copies, Workers, NEW c \in Controllers, pc[c] = "update",
         Current(obj[c])
  PROVE  /\ server = obj[c] /\ obj[c] \in Object
         /\ Written(c) \in Object
         /\ Written(c).uid = server.uid /\ Written(c).deleting = server.deleting
         /\ Once(Written(c).finalizers)
         /\ \A f : f # Name(c) /\ Carries(server, f) => Carries(Written(c), f)
         /\ Carries(server, Name(c)) => <<server.uid, Name(c)>> \in cleaned
         /\ born \in Nat /\ server.uid <= born
<1>1. obj[c] \in Object /\ obj[c] # None /\ Name(c) \in Names
  BY NameType DEF TypeOK
<1>2. Copy(obj[c], server, version, born)
  BY <1>1 DEF Copies
<1>3. server = obj[c]
  BY <1>2 DEF Copy, Current
<1>4. /\ obj[c].uid <= born /\ Once(obj[c].finalizers)
      /\ born \in Nat
  BY <1>2 DEF Copy, TypeOK
<1>5. CASE obj[c].deleting
  <2>1. Carries(obj[c], Name(c)) /\ <<obj[c].uid, Name(c)>> \in cleaned
    BY <1>5 DEF Workers
  <2>2. Written(c) = [obj[c] EXCEPT !.finalizers = removed(obj[c], Name(c))]
    BY <1>5 DEF Written
  <2>3. /\ removed(obj[c], Name(c)) \in Seq(Names)
        /\ Once(removed(obj[c], Name(c)))
        /\ \A f : f # Name(c) /\ Carries(obj[c], f)
             => \E i \in 1..Len(removed(obj[c], Name(c))) : removed(obj[c], Name(c))[i] = f
    BY <1>1, <1>4, <2>1, RemovedOne
  <2>4. /\ Written(c) \in Object /\ Written(c).finalizers = removed(obj[c], Name(c))
        /\ Written(c).uid = obj[c].uid /\ Written(c).deleting = obj[c].deleting
    BY <1>1, <2>2, <2>3 DEF Object
  <2> QED
    BY <1>1, <1>3, <1>4, <2>1, <2>3, <2>4 DEF Carries
<1>6. CASE ~obj[c].deleting
  <2>1. ~Carries(obj[c], Name(c))
    BY <1>6 DEF Workers
  <2>2. Written(c) = [obj[c] EXCEPT !.finalizers = added(obj[c], Name(c))]
    BY <1>6 DEF Written
  <2>3. /\ added(obj[c], Name(c)) \in Seq(Names)
        /\ Once(added(obj[c], Name(c)))
        /\ \A f : Carries(obj[c], f)
             => \E i \in 1..Len(added(obj[c], Name(c))) : added(obj[c], Name(c))[i] = f
    BY <1>1, <1>4, <2>1, AddedOnce
  <2>4. /\ Written(c) \in Object /\ Written(c).finalizers = added(obj[c], Name(c))
        /\ Written(c).uid = obj[c].uid /\ Written(c).deleting = obj[c].deleting
    BY <1>1, <2>2, <2>3 DEF Object
  <2> QED
    BY <1>1, <1>3, <1>4, <2>1, <2>3, <2>4 DEF Carries
<1> QED
  BY <1>5, <1>6

\* Copies remain if every object at hand is an old one or a copy already.
LEMMA CopiesKept ==
  ASSUME TypeOK, Copies,
         \A x \in Object : Copy(x, server, version, born)
                             => Copy(x, server', version', born'),
         server' # None => Copy(server', server', version', born'),
         \A c \in Controllers : cache'[c] = cache[c] \/ cache'[c] = server',
         \A c \in Controllers :
           \/ obj'[c] \in {None, obj[c], cache[c]}
           \/ Copy(obj'[c], server', version', born')
  PROVE  Copies'
<1>1. ASSUME NEW c \in Controllers
      PROVE  /\ cache[c] # None => Copy(cache[c], server', version', born')
             /\ obj[c] # None => Copy(obj[c], server', version', born')
  <2>1. cache[c] \in Object \cup {None} /\ obj[c] \in Object \cup {None}
    BY DEF TypeOK
  <2> QED
    BY <2>1 DEF Copies
<1> QED
  BY <1>1 DEF Copies

\* A cleanup of the object in the API server remains one of an object that
\* is being deleted, as long as the object's deletion is not taken back.
LEMMA DeletedKept ==
  ASSUME CleanupOnlyIfDeleted, cleaned' = cleaned,
         server' # None => /\ server # None /\ server'.uid = server.uid
                           /\ server.deleting => server'.deleting
  PROVE  CleanupOnlyIfDeleted'
BY DEF CleanupOnlyIfDeleted

-----------------------------------------------------------------------------
(* The invariant *)

\* The invariant holds before anything has happened.
LEMMA InitIInv == Init => IInv
<1> SUFFICES ASSUME Init PROVE IInv
  OBVIOUS
<1>1. TypeOK
  <2>1. ASSUME NEW c \in Controllers PROVE 1 \in 1..Len(Handlers[c])
    <3>1. Len(Handlers[c]) \in Nat \ {0}
      BY HandlersType
    <3> QED
      BY <3>1
  <2> QED
    BY <2>1 DEF TypeOK, Init
<1> QED
  BY <1>1 DEF Init, IInv, Copies, Workers, Cleaned, CleanupOnlyIfDeleted

\* The worker starts with a copy, the one in its cache.
LEMMA TakeIInv ==
  ASSUME IInv, NEW c \in Controllers, Take(c)
  PROVE  IInv'
<1> USE DEF IInv
<1>1. TypeOK'
  BY DEF TypeOK, Take, apiVars
<1>2. server' = server /\ version' = version /\ born' = born /\ cleaned' = cleaned /\ cache' = cache
  BY DEF Take, apiVars
<1>3. Copies'
  <2>1. \A d \in Controllers : obj'[d] \in {None, obj[d], cache[d]}
    BY DEF Take, TypeOK
  <2>2. server' # None => Copy(server', server', version', born')
    BY <1>2 DEF Copies
  <2> QED
    BY <1>2, <2>1, <2>2, CopiesKept
<1>4. Workers'
  BY <1>2 DEF Workers, Take, TypeOK, Name
<1> QED
  BY <1>1, <1>2, <1>3, <1>4, DeletedKept DEF Cleaned

\* A handler that returns without having called anyone, or whose call was
\* refused, keeps the invariant.
LEMMA ReturnIInv ==
  ASSUME IInv, NEW c \in Controllers, pc[c] # "idle", NEW err \in BOOLEAN,
         Return(c, obj[c], err), UNCHANGED <<apiVars, cache, cleaned, born>>,
         faults' \in Nat
  PROVE  IInv'
<1> USE DEF IInv
<1>1. /\ server' = server /\ version' = version /\ born' = born
      /\ cleaned' = cleaned /\ cache' = cache
      /\ obj[c] \in Object
  BY DEF apiVars, TypeOK
<1>2. /\ WorkerType'
      /\ \A d \in Controllers \ {c} :
           pc'[d] = pc[d] /\ obj'[d] = obj[d] /\ idx'[d] = idx[d]
      /\ \/ pc'[c] = "sync" /\ obj'[c] = obj[c]
         \/ pc'[c] = "idle" /\ obj'[c] = None
  BY <1>1, ReturnFacts
<1>3. TypeOK'
  BY <1>1, <1>2 DEF TypeOK, WorkerType
<1>4. Copies'
  <2>1. \A d \in Controllers : obj'[d] \in {None, obj[d], cache[d]}
    BY <1>2
  <2>2. server' # None => Copy(server', server', version', born')
    BY <1>1 DEF Copies
  <2> QED
    BY <1>1, <2>1, <2>2, CopiesKept
<1>5. Workers'
  BY <1>1, <1>2 DEF Workers, Name
<1> QED
  BY <1>1, <1>3, <1>4, <1>5, DeletedKept DEF Cleaned

\* sync goes on with what it found out about its object, or returns.
LEMMA SyncIInv ==
  ASSUME IInv, NEW c \in Controllers, sync(c)
  PROVE  IInv'
<1> USE DEF IInv
<1>1. /\ server' = server /\ version' = version /\ born' = born /\ cleaned' = cleaned
      /\ cache' = cache /\ faults' = faults /\ pc[c] = "sync"
      /\ obj[c] \in Object /\ obj[c].deleting \in BOOLEAN
  BY DEF sync, apiVars, TypeOK, Object
<1>2. CASE hasFinalizer(obj[c], Name(c)) = obj[c].deleting
  <2>1. /\ pc' = [pc EXCEPT ![c] = IF obj[c].deleting THEN "handler" ELSE "update"]
        /\ idx' = idx /\ obj' = obj /\ failed' = failed /\ queued' = queued
    BY <1>2 DEF sync
  <2>2. TypeOK'
    BY <1>1, <2>1 DEF TypeOK
  <2>3. Copies'
    BY <1>1, <2>1 DEF Copies
  <2>4. Workers'
    <3>1. Carries(obj[c], Name(c)) <=> obj[c].deleting
      BY <1>1, <1>2 DEF hasFinalizer, Carries
    <3> QED
      BY <1>1, <2>1, <3>1 DEF Workers, TypeOK, Name
  <2> QED
    BY <1>1, <2>2, <2>3, <2>4, DeletedKept DEF Cleaned
<1>3. CASE hasFinalizer(obj[c], Name(c)) # obj[c].deleting
  BY <1>1, <1>3, ReturnIInv DEF sync, TypeOK
<1> QED
  BY <1>2, <1>3

\* A cleanup that failed leaves everything as it was.
LEMMA HandlerErrIInv ==
  ASSUME IInv, NEW c \in Controllers, handlerErr(c)
  PROVE  IInv'
<1>1. /\ Return(c, obj[c], TRUE) /\ pc[c] # "idle" /\ faults' = faults + 1
      /\ UNCHANGED <<apiVars, cache, cleaned, born>>
  BY DEF handlerErr
<1>2. faults' \in Nat
  BY <1>1 DEF IInv, TypeOK
<1> QED
  BY <1>1, <1>2, ReturnIInv

\* The cleanup ran for an object that is being deleted, so the API server's
\* object is too if it is still the same one.
LEMMA HandlerDoneIInv ==
  ASSUME IInv, NEW c \in Controllers, handlerDone(c)
  PROVE  IInv'
<1> USE DEF IInv
<1>1. /\ pc[c] = "handler" /\ pc' = [pc EXCEPT ![c] = "update"]
      /\ cleaned' = cleaned \cup {<<obj[c].uid, Name(c)>>}
      /\ cache' = cache /\ queued' = queued /\ idx' = idx /\ failed' = failed
      /\ born' = born
  BY DEF handlerDone
<1>2. /\ obj[c] \in Object /\ Copy(obj[c], server, version, born)
      /\ obj[c].deleting /\ Carries(obj[c], Name(c)) /\ Name(c) \in Names
      /\ obj[c].uid \in Nat /\ obj[c].uid <= born /\ Once(obj[c].finalizers)
      /\ born \in Nat
  <2>1. obj[c] \in Object /\ obj[c] # None
    BY <1>1 DEF TypeOK
  <2>2. Copy(obj[c], server, version, born)
    BY <2>1 DEF Copies
  <2> QED
    BY <1>1, <2>1, <2>2, NameType DEF Workers, Object, Copy, TypeOK
<1>3. Cleaned'
  BY <1>1, <1>2 DEF Cleaned
<1>4. CASE UNCHANGED <<apiVars, obj, faults>>
  <2>1. server' = server /\ version' = version /\ obj' = obj /\ faults' = faults
    BY <1>4 DEF apiVars
  <2>2. TypeOK'
    BY <1>1, <1>2, <2>1 DEF TypeOK
  <2>3. Copies'
    BY <1>1, <2>1 DEF Copies
  <2>4. Workers'
    BY <1>1, <1>2, <2>1 DEF Workers, TypeOK, Name
  <2>5. CleanupOnlyIfDeleted'
    BY <1>1, <1>2, <2>1 DEF CleanupOnlyIfDeleted, Copy
  <2> QED
    BY <1>3, <2>2, <2>3, <2>4, <2>5
<1>5. CASE /\ Current(obj[c]) /\ faults' = faults + 1 /\ Write(obj[c])
           /\ obj' = [obj EXCEPT ![c].rv = version + 1]
  <2> DEFINE w == [obj[c] EXCEPT !.rv = version + 1]
  <2>1. server = obj[c]
    BY <1>2, <1>5 DEF Current, Copy
  <2>2. /\ server' \in Object \cup {None} /\ version' \in Nat
        /\ server' # None => server' = w
        /\ \A x \in Object : Copy(x, server, version, born)
                               => Copy(x, server', version', born')
        /\ w \in Object /\ Copy(w, server', version', born')
    <3>1. server # None
      BY <1>5 DEF Current
    <3> QED
      BY <1>1, <1>2, <1>5, <2>1, <3>1, WriteFacts
  <2>3. /\ obj'[c] = w /\ \A d \in Controllers \ {c} : obj'[d] = obj[d]
        /\ w.uid = obj[c].uid /\ w.deleting = obj[c].deleting
        /\ w.finalizers = obj[c].finalizers
        /\ w # None
    BY <1>2, <1>5, <2>2, NoneType DEF TypeOK, Object
  <2>4. TypeOK'
    <3>1. obj' \in [Controllers -> Object \cup {None}]
      BY <1>5, <2>2, <2>3 DEF TypeOK
    <3>2. cleaned' \subseteq (Nat \X Names) /\ faults' \in Nat
      BY <1>1, <1>2, <1>5 DEF TypeOK
    <3> QED
      BY <1>1, <2>2, <2>3, <3>1, <3>2 DEF TypeOK
  <2>5. Copies'
    <3>1. \A d \in Controllers : \/ obj'[d] \in {None, obj[d], cache[d]}
                                 \/ Copy(obj'[d], server', version', born')
      BY <2>2, <2>3
    <3>2. server' # None => Copy(server', server', version', born')
      BY <2>2
    <3> QED
      BY <1>1, <2>2, <3>1, <3>2, CopiesKept
  <2>6. Workers'
    <3>1. /\ pc'[c] = "update" /\ obj'[c].deleting /\ Carries(obj'[c], Name(c))
          /\ <<obj'[c].uid, Name(c)>> \in cleaned'
      BY <1>1, <1>2, <2>3 DEF TypeOK, Carries
    <3>2. \A d \in Controllers \ {c} : pc'[d] = pc[d] /\ obj'[d] = obj[d]
      BY <1>1, <2>3 DEF TypeOK
    <3> QED
      BY <1>1, <3>1, <3>2 DEF Workers, Name
  <2>7. CleanupOnlyIfDeleted'
    BY <1>2, <2>2, <2>3 DEF CleanupOnlyIfDeleted
  <2> QED
    BY <1>3, <2>4, <2>5, <2>6, <2>7
<1> QED
  BY <1>4, <1>5 DEF handlerDone

\* The updater's write, of which the handler may or may not hear, keeps the
\* invariant: o is what the next handler is given.
LEMMA WrittenIInv ==
  ASSUME IInv, NEW c \in Controllers, pc[c] = "update", Current(obj[c]),
         Write(Written(c)), NEW err \in BOOLEAN,
         NEW o \in {obj[c], [Written(c) EXCEPT !.rv = version + 1]},
         Return(c, o, err), UNCHANGED <<cache, cleaned, born>>, faults' \in Nat
  PROVE  IInv'
<1> USE DEF IInv
<1> DEFINE w == [Written(c) EXCEPT !.rv = version + 1]
<1>1. /\ server = obj[c] /\ obj[c] \in Object /\ Written(c) \in Object
      /\ Written(c).uid = server.uid /\ Written(c).deleting = server.deleting
      /\ Once(Written(c).finalizers) /\ born \in Nat /\ server.uid <= born
  BY UpdateFacts
<1>2. /\ server' \in Object \cup {None} /\ version' \in Nat
      /\ server' # None => server' = w
      /\ \A x \in Object : Copy(x, server, version, born)
                             => Copy(x, server', version', born')
      /\ w \in Object /\ Copy(w, server', version', born')
  <2>1. server # None
    BY DEF Current
  <2>2. born' \in Nat /\ born <= born' /\ Written(c).uid <= born'
    BY <1>1
  <2> QED
    BY <1>1, <2>1, <2>2, WriteFacts
<1>3. /\ WorkerType'
      /\ \A d \in Controllers \ {c} :
           pc'[d] = pc[d] /\ obj'[d] = obj[d] /\ idx'[d] = idx[d]
      /\ \/ pc'[c] = "sync" /\ obj'[c] = o
         \/ pc'[c] = "idle" /\ obj'[c] = None
  <2>1. o \in Object
    BY <1>1, <1>2
  <2> QED
    BY <2>1, ReturnFacts
<1>4. TypeOK'
  BY <1>2, <1>3 DEF TypeOK, WorkerType
<1>5. Copies'
  <2>1. \A d \in Controllers : \/ obj'[d] \in {None, obj[d], cache[d]}
                               \/ Copy(obj'[d], server', version', born')
    BY <1>2, <1>3
  <2>2. server' # None => Copy(server', server', version', born')
    BY <1>2
  <2> QED
    BY <1>2, <2>1, <2>2, CopiesKept
<1>6. Workers'
  BY <1>3 DEF Workers, Name
<1>7. CleanupOnlyIfDeleted'
  <2>1. w.uid = Written(c).uid /\ w.deleting = Written(c).deleting
    BY <1>1 DEF Object
  <2> QED
    BY <1>1, <1>2, <2>1, DeletedKept, NoneType
<1>8. Cleaned'
  BY DEF Cleaned
<1> QED
  BY <1>4, <1>5, <1>6, <1>7, <1>8

\* The updater writes the current version or writes nothing.
LEMMA UpdateIInv ==
  ASSUME IInv, NEW c \in Controllers, update(c)
  PROVE  IInv'
<1>1. faults' \in Nat /\ pc[c] = "update" /\ UNCHANGED <<cache, cleaned, born>>
  BY DEF update, IInv, TypeOK
<1>2. CASE Current(obj[c])
  BY <1>1, <1>2, WrittenIInv DEF update
<1>3. CASE ~Current(obj[c])
  BY <1>1, <1>3, ReturnIInv DEF update
<1> QED
  BY <1>2, <1>3

\* A lost call or answer is a write, or none, of which the handler does not hear.
LEMMA UpdateFailsIInv ==
  ASSUME IInv, NEW c \in Controllers, updateFails(c)
  PROVE  IInv'
<1>1. /\ faults' = faults + 1 /\ pc[c] = "update" /\ UNCHANGED <<cache, cleaned, born>>
      /\ Return(c, obj[c], TRUE)
  BY DEF updateFails
<1>2. faults' \in Nat
  BY <1>1 DEF IInv, TypeOK
<1>3. CASE UNCHANGED apiVars
  BY <1>1, <1>2, <1>3, ReturnIInv
<1>4. CASE Current(obj[c]) /\ Write(Written(c))
  BY <1>1, <1>2, <1>4, WrittenIInv
<1> QED
  BY <1>3, <1>4 DEF updateFails

\* The informer caches a copy.
LEMMA InformerIInv ==
  ASSUME IInv, NEW c \in Controllers, Informer(c)
  PROVE  IInv'
<1> USE DEF IInv
<1>1. /\ server' = server /\ version' = version /\ born' = born /\ cleaned' = cleaned
      /\ obj' = obj /\ pc' = pc /\ idx' = idx /\ failed' = failed /\ faults' = faults
      /\ cache' = [cache EXCEPT ![c] = server] /\ queued' = [queued EXCEPT ![c] = TRUE]
  BY DEF Informer, apiVars, workerVars
<1>2. TypeOK'
  BY <1>1 DEF TypeOK
<1>3. Copies'
  <2>1. server' # None => Copy(server', server', version', born')
    BY <1>1 DEF Copies
  <2>2. \A d \in Controllers : cache'[d] = cache[d] \/ cache'[d] = server'
    BY <1>1 DEF TypeOK
  <2> QED
    BY <1>1, <2>1, <2>2, CopiesKept
<1>4. Workers'
  BY <1>1 DEF Workers, Name
<1> QED
  BY <1>1, <1>2, <1>3, <1>4, DeletedKept DEF Cleaned

\* A restarted process begins with a copy and without a worker.
LEMMA CrashIInv ==
  ASSUME IInv, NEW c \in Controllers, Crash(c)
  PROVE  IInv'
<1> USE DEF IInv
<1>1. /\ server' = server /\ version' = version /\ born' = born /\ cleaned' = cleaned
      /\ faults' = faults + 1
      /\ obj' = [obj EXCEPT ![c] = None] /\ pc' = [pc EXCEPT ![c] = "idle"]
      /\ idx' = [idx EXCEPT ![c] = 1] /\ failed' = [failed EXCEPT ![c] = FALSE]
      /\ cache' = [cache EXCEPT ![c] = server]
      /\ queued' = [queued EXCEPT ![c] = server # None]
  BY DEF Crash, Idle, apiVars
<1>2. TypeOK'
  <2>1. Len(Handlers[c]) \in Nat \ {0}
    BY HandlersType
  <2>2. idx' \in [Controllers -> Nat] /\ \A d \in Controllers : idx'[d] \in 1..Len(Handlers[d])
    BY <1>1, <2>1 DEF TypeOK
  <2>3. faults' \in Nat
    BY <1>1 DEF TypeOK
  <2> QED
    BY <1>1, <2>2, <2>3 DEF TypeOK
<1>3. Copies'
  <2>1. server' # None => Copy(server', server', version', born')
    BY <1>1 DEF Copies
  <2>2. \A d \in Controllers : cache'[d] = cache[d] \/ cache'[d] = server'
    BY <1>1 DEF TypeOK
  <2>3. \A d \in Controllers : obj'[d] \in {None, obj[d], cache[d]}
    BY <1>1 DEF TypeOK
  <2> QED
    BY <1>1, <2>1, <2>2, <2>3, CopiesKept
<1>4. Workers'
  BY <1>1 DEF Workers, Name, TypeOK
<1> QED
  BY <1>1, <1>2, <1>3, <1>4, DeletedKept DEF Cleaned

\* Another client writes object o and no worker takes notice.
LEMMA ClientIInv ==
  ASSUME IInv, NEW o \in Object, Write(o), Once(o.finalizers),
         UNCHANGED <<cache, queued, workerVars, cleaned>>,
         faults' \in Nat, born' \in Nat, born <= born', o.uid <= born',
         IF server = None THEN born < o.uid
                          ELSE o.uid = server.uid /\ (server.deleting => o.deleting)
  PROVE  IInv'
<1> USE DEF IInv
<1> DEFINE w == [o EXCEPT !.rv = version + 1]
<1>1. /\ cache' = cache /\ queued' = queued /\ cleaned' = cleaned /\ pc' = pc
      /\ idx' = idx /\ obj' = obj /\ failed' = failed
  BY DEF workerVars
<1>2. /\ server' \in Object \cup {None} /\ version' \in Nat
      /\ server' # None => server' = w
      /\ \A x \in Object : Copy(x, server, version, born)
                             => Copy(x, server', version', born')
      /\ w \in Object /\ Copy(w, server', version', born')
  BY WriteFacts
<1>3. TypeOK'
  BY <1>1, <1>2 DEF TypeOK
<1>4. Copies'
  <2>1. server' # None => Copy(server', server', version', born')
    BY <1>2
  <2> QED
    BY <1>1, <1>2, <2>1, CopiesKept
<1>5. Workers'
  BY <1>1 DEF Workers, Name
<1>6. Cleaned'
  <2> SUFFICES ASSUME NEW u \in Nat, NEW n \in Names, <<u, n>> \in cleaned
               PROVE  u <= born'
    BY <1>1 DEF Cleaned
  <2>1. u <= born /\ born \in Nat
    BY DEF Cleaned, TypeOK
  <2> QED
    BY <2>1
<1>7. CleanupOnlyIfDeleted'
  <2>1. w.uid = o.uid /\ w.deleting = o.deleting /\ o.uid \in Nat /\ born \in Nat
    BY DEF Object, TypeOK
  <2>2. CASE server = None
    <3>1. \A n \in Names : <<o.uid, n>> \notin cleaned
      BY <2>1, <2>2 DEF Cleaned
    <3> QED
      BY <1>1, <1>2, <2>1, <3>1 DEF CleanupOnlyIfDeleted
  <2>3. CASE server # None
    BY <1>1, <1>2, <2>1, <2>3, DeletedKept
  <2> QED
    BY <2>2, <2>3
<1> QED
  BY <1>3, <1>4, <1>5, <1>6, <1>7

\* A new incarnation has a new uid, so no older copy is one of it.
LEMMA CreateIInv == IInv /\ Create => IInv'
<1> SUFFICES ASSUME IInv, Create PROVE IInv'
  OBVIOUS
<1> DEFINE o == [uid |-> born + 1, rv |-> version, deleting |-> FALSE, finalizers |-> <<>>]
<1>1. born \in Nat /\ version \in Nat /\ faults \in Nat
  BY DEF IInv, TypeOK
<1>2. o \in Object /\ o.uid = born + 1 /\ o.finalizers = <<>>
  BY <1>1, EmptySeq DEF Object
<1>3. Once(o.finalizers)
  BY <1>2 DEF Once
<1>4. /\ server = None /\ born' = born + 1 /\ faults' = faults
      /\ UNCHANGED <<cache, queued, workerVars, cleaned>>
      /\ Write(o)
  BY DEF Create
<1>5. born' \in Nat /\ born <= born' /\ o.uid <= born' /\ born < o.uid
  BY <1>1, <1>2, <1>4
<1> QED
  BY <1>1, <1>2, <1>3, <1>4, <1>5, ClientIInv

\* An edit makes a new version with the same finalizers.
LEMMA ModifyIInv == IInv /\ Modify => IInv'
<1> SUFFICES ASSUME IInv, Modify PROVE IInv'
  OBVIOUS
<1>1. /\ server # None /\ faults' = faults + 1 /\ born' = born /\ Write(server)
      /\ UNCHANGED <<cache, queued, workerVars, cleaned>>
  BY DEF Modify
<1>2. /\ server \in Object /\ born \in Nat /\ faults \in Nat
      /\ Copy(server, server, version, born)
  BY <1>1 DEF IInv, TypeOK, Copies
<1>3. /\ Once(server.finalizers) /\ server.uid <= born' /\ born' \in Nat
      /\ born <= born' /\ faults' \in Nat
  BY <1>1, <1>2 DEF Copy
<1> QED
  BY <1>1, <1>2, <1>3, ClientIInv

\* A deletion makes a new version and is never taken back.
LEMMA DeleteIInv == IInv /\ Delete => IInv'
<1> SUFFICES ASSUME IInv, Delete PROVE IInv'
  OBVIOUS
<1> DEFINE o == [server EXCEPT !.deleting = TRUE]
<1>1. /\ server # None /\ faults' = faults /\ born' = born /\ Write(o)
      /\ UNCHANGED <<cache, queued, workerVars, cleaned>>
  BY DEF Delete
<1>2. /\ server \in Object /\ born \in Nat /\ faults \in Nat
      /\ Copy(server, server, version, born)
  BY <1>1 DEF IInv, TypeOK, Copies
<1>3. /\ o \in Object /\ o.uid = server.uid /\ o.deleting = TRUE
      /\ o.finalizers = server.finalizers
  BY <1>2 DEF Object
<1>4. /\ Once(o.finalizers) /\ o.uid <= born' /\ born' \in Nat
      /\ born <= born' /\ faults' \in Nat
  BY <1>1, <1>2, <1>3 DEF Copy
<1> QED
  BY <1>1, <1>2, <1>3, <1>4, ClientIInv

\* Every step keeps the invariant.
LEMMA NextIInv == IInv /\ [Next]_vars => IInv'
<1> SUFFICES ASSUME IInv, [Next]_vars PROVE IInv'
  OBVIOUS
<1>1. CASE UNCHANGED vars
  BY <1>1 DEF vars, IInv, TypeOK, Copies, Workers, Cleaned, CleanupOnlyIfDeleted, Name
<1> QED
  BY <1>1, TakeIInv, SyncIInv, HandlerDoneIInv, HandlerErrIInv, UpdateIInv,
     UpdateFailsIInv, InformerIInv, CrashIInv, CreateIInv, ModifyIInv, DeleteIInv
  DEF Next

-----------------------------------------------------------------------------
(* The theorems *)

\* Every object a controller holds is one the API server has or had, and
\* no worker goes on from what it found out wrongly.
THEOREM Invariance == Spec => []IInv
BY InitIInv, NextIInv, PTL DEF Spec

\* No variable leaves its type.
THEOREM TypeCorrect == Spec => []TypeOK
BY Invariance, PTL DEF IInv

\* No handler's finalizer is ever on the object twice.
THEOREM FinalizerNeverTwice == Spec => []FinalizerOnce
<1>1. IInv => FinalizerOnce
  BY DEF IInv, Copies, Copy, Once, FinalizerOnce
<1> QED
  BY Invariance, <1>1, PTL

\* An object whose cleanup has run is being deleted.
THEOREM CleanedIsDeleting == Spec => []CleanupOnlyIfDeleted
BY Invariance, PTL DEF IInv

\* On every object a worker is about to write back, removeFinalizer's loop
\* takes the handler's own entry off and no other.
THEOREM LoopTakesOneOff == Spec => []LoopRemovesOne
<1>1. IInv => LoopRemovesOne
  <2> SUFFICES ASSUME IInv, NEW c \in Controllers, pc[c] = "update", obj[c].deleting
               PROVE  removeLoop(obj[c].finalizers, Name(c)) = removed(obj[c], Name(c))
    BY DEF LoopRemovesOne
  <2>1. obj[c] # None /\ obj[c] \in Object
    BY DEF IInv, TypeOK
  <2>2. Carries(obj[c], Name(c)) /\ Once(obj[c].finalizers)
    BY <2>1 DEF IInv, Workers, Copies, Copy
  <2> QED
    BY <2>1, <2>2, LoopValue
<1> QED
  BY Invariance, <1>1, PTL

\* What the updater's write does to the finalizers of the object.
LEMMA UpdateReleases ==
  ASSUME IInv, NEW c \in Controllers, pc[c] = "update", Current(obj[c]),
         Write(Written(c)), NEW n \in Names, server # None, Carries(server, n),
         server' = None \/ ~Carries(server', n)
  PROVE  n = Name(c) /\ <<server.uid, n>> \in cleaned
<1>1. /\ server = obj[c] /\ Written(c) \in Object
      /\ \A f : f # Name(c) /\ Carries(server, f) => Carries(Written(c), f)
      /\ Carries(server, Name(c)) => <<server.uid, Name(c)>> \in cleaned
  BY UpdateFacts DEF IInv
<1> DEFINE w == [Written(c) EXCEPT !.rv = version + 1]
<1>2. server' = Stored(w) /\ w.finalizers = Written(c).finalizers
  BY <1>1 DEF Write, Object
<1>3. ~Carries(Written(c), n)
  <2> SUFFICES ASSUME Carries(Written(c), n) PROVE FALSE
    OBVIOUS
  <2>1. Carries(w, n) /\ w.finalizers # <<>>
    BY <1>2 DEF Carries
  <2>2. Stored(w) = w
    BY <2>1 DEF Stored
  <2>3. w # None
    <3>1. version + 1 \in Nat
      BY DEF IInv, TypeOK
    <3>2. w \in Object
      BY <1>1, <3>1 DEF Object
    <3> QED
      BY <3>2, NoneType
  <2> QED
    BY <1>2, <2>1, <2>2, <2>3
<1> QED
  BY <1>1, <1>3

\* A write that leaves the list of finalizers as it is releases none.
LEMMA SameFinalizers ==
  ASSUME IInv, NEW o \in Object, Write(o), o.finalizers = server.finalizers,
         NEW n \in Names, Carries(server, n)
  PROVE  server' # None /\ Carries(server', n)
<1> DEFINE w == [o EXCEPT !.rv = version + 1]
<1>1. version + 1 \in Nat
  BY DEF IInv, TypeOK
<1>2. w \in Object /\ w.finalizers = server.finalizers /\ server' = Stored(w)
  BY <1>1 DEF Write, Object
<1>3. w.finalizers # <<>> /\ Carries(w, n) /\ w # None
  BY <1>2, NoneType DEF Carries
<1> QED
  BY <1>2, <1>3 DEF Stored

\* One step: only the updater's write releases a finalizer, its handler's own,
\* and only after the handler's cleanup.
LEMMA StepReleases ==
  ASSUME IInv, [Next]_vars, NEW n \in Names, server # None, Carries(server, n),
         server' = None \/ ~Carries(server', n)
  PROVE  /\ <<server.uid, n>> \in cleaned /\ cleaned' = cleaned
         /\ \E c \in Controllers : /\ pc[c] = "update" /\ n = Name(c)
                                   /\ update(c) \/ updateFails(c)
<1>0. server \in Object /\ server' # server
  BY DEF IInv, TypeOK
<1>1. ASSUME NEW c \in Controllers, update(c) \/ updateFails(c)
      PROVE  <<server.uid, n>> \in cleaned /\ cleaned' = cleaned
             /\ pc[c] = "update" /\ n = Name(c)
  <2>1. /\ pc[c] = "update" /\ cleaned' = cleaned
        /\ Current(obj[c]) /\ Write(Written(c))
    BY <1>0, <1>1 DEF update, updateFails, apiVars
  <2> QED
    BY <2>1, UpdateReleases
<1>2. ASSUME NEW c \in Controllers, handlerDone(c) PROVE FALSE
  <2>1. pc[c] = "handler" /\ Current(obj[c]) /\ Write(obj[c])
    BY <1>0, <1>2 DEF handlerDone, apiVars
  <2>2. obj[c] \in Object /\ Copy(obj[c], server, version, born)
    BY <2>1 DEF IInv, TypeOK, Copies
  <2>3. server = obj[c]
    BY <2>1, <2>2 DEF Copy, Current
  <2> QED
    BY <2>1, <2>2, <2>3, SameFinalizers
<1>3. ASSUME NEW c \in Controllers,
             Take(c) \/ sync(c) \/ handlerErr(c) \/ Informer(c) \/ Crash(c)
      PROVE FALSE
  BY <1>0, <1>3 DEF Take, sync, handlerErr, Informer, Crash, apiVars
<1>4. CASE Create
  BY <1>4 DEF Create
<1>5. CASE Modify
  BY <1>0, <1>5, SameFinalizers DEF Modify
<1>6. CASE Delete
  <2> DEFINE o == [server EXCEPT !.deleting = TRUE]
  <2>1. o \in Object /\ o.finalizers = server.finalizers
    BY <1>0 DEF Object
  <2> QED
    BY <1>6, <2>1, SameFinalizers DEF Delete
<1>7. CASE UNCHANGED vars
  BY <1>0, <1>7 DEF vars
<1> QED
  BY <1>1, <1>2, <1>3, <1>4, <1>5, <1>6, <1>7 DEF Next

\* A handler's finalizer is released only after its cleanup succeeded for this
\* incarnation of the object.
THEOREM ReleasedAfterCleanup == Spec => CleanupBeforeRelease
<1>1. IInv /\ [Next]_vars =>
        [\A n \in Names :
           /\ server # None /\ Carries(server, n)
           /\ server' = None \/ ~Carries(server', n)
           => <<server.uid, n>> \in cleaned']_vars
  BY StepReleases
<1> QED
  BY Invariance, <1>1, PTL DEF Spec, CleanupBeforeRelease

\* A handler that writes the object back takes no finalizer off it but its own.
THEOREM OthersFinalizersStay == Spec => OnlyOwnFinalizer
<1>1. ASSUME IInv, [Next]_vars, NEW c \in Controllers, pc[c] = "update",
             pc'[c] # "update", server # None, NEW f \in Names \ {Name(c)},
             Carries(server, f)
      PROVE  server' # None /\ Carries(server', f)
  <2> SUFFICES ASSUME server' = None \/ ~Carries(server', f) PROVE FALSE
    OBVIOUS
  <2>1. PICK d \in Controllers : f = Name(d) /\ (update(d) \/ updateFails(d))
    BY <1>1, StepReleases
  <2>2. c # d
    BY <2>1
  <2>3. pc'[c] = pc[c]
    BY <1>1, <2>1, <2>2 DEF update, updateFails, Return, Idle, IInv, TypeOK
  <2> QED
    BY <1>1, <2>3
<1>2. IInv /\ [Next]_vars =>
        [\A c \in Controllers :
           pc[c] = "update" /\ pc'[c] # "update" /\ server # None =>
             \A f \in Names \ {Name(c)} :
               Carries(server, f) => server' # None /\ Carries(server', f)]_vars
  BY <1>1
<1> QED
  BY Invariance, <1>2, PTL DEF Spec, OnlyOwnFinalizer

-----------------------------------------------------------------------------
(* Lifecycle implements Finalization *)

\* The phase and the holders of an object, as the refinement maps them.
PhaseOf(o) == IF o = None THEN "absent" ELSE IF o.deleting THEN "deleting" ELSE "live"
HeldBy(o) == {n \in Names : o # None /\ Carries(o, n)}

\* The object in the API server is the last incarnation, and one that is being
\* deleted has a finalizer left.
Settled ==
  server # None => /\ server.uid = born
                   /\ server.deleting => server.finalizers # <<>>

-----------------------------------------------------------------------------
(* Who holds an object *)

\* Nobody holds an object just when its list of finalizers is empty.
LEMMA NotHeld ==
  ASSUME NEW o \in Object
  PROVE  HeldBy(o) = {} <=> o.finalizers = <<>>
<1>1. o.finalizers \in Seq(Names) /\ o # None
  BY NoneType DEF Object
<1>2. ASSUME o.finalizers # <<>> PROVE HeldBy(o) # {}
  <2>1. 1 \in 1..Len(o.finalizers) /\ o.finalizers[1] \in Names
    BY <1>1, <1>2, EmptySeq, ElementOfSeq
  <2> QED
    BY <1>1, <2>1 DEF HeldBy, Carries
<1>3. ASSUME o.finalizers = <<>> PROVE HeldBy(o) = {}
  BY <1>3 DEF HeldBy, Carries
<1> QED
  BY <1>2, <1>3

\* addFinalizer's list makes the handler one more holder.
LEMMA AddedHolds ==
  ASSUME NEW o \in Object, NEW n \in Names, NEW p \in Object,
         p.finalizers = added(o, n)
  PROVE  HeldBy(p) = HeldBy(o) \cup {n}
<1>1. o.finalizers \in Seq(Names) /\ Len(o.finalizers) \in Nat /\ o # None /\ p # None
  BY NoneType DEF Object
<1>2. /\ Len(p.finalizers) = Len(o.finalizers) + 1
      /\ \A i \in 1..Len(o.finalizers) : p.finalizers[i] = o.finalizers[i]
      /\ p.finalizers[Len(o.finalizers) + 1] = n
  BY <1>1 DEF added
<1>3. \A f : Carries(p, f) <=> Carries(o, f) \/ f = n
  <2> TAKE f
  <2>1. Carries(o, f) => Carries(p, f)
    BY <1>1, <1>2 DEF Carries
  <2>2. Carries(p, n)
    BY <1>1, <1>2 DEF Carries
  <2>3. ASSUME Carries(p, f) PROVE Carries(o, f) \/ f = n
    <3>1. PICK i \in 1..Len(p.finalizers) : p.finalizers[i] = f
      BY <2>3 DEF Carries
    <3>2. i \in 1..Len(o.finalizers) \/ i = Len(o.finalizers) + 1
      BY <1>1, <1>2
    <3> QED
      BY <1>2, <3>1, <3>2 DEF Carries
  <2> QED
    BY <2>1, <2>2, <2>3
<1> QED
  BY <1>1, <1>3 DEF HeldBy

\* removeFinalizer's list makes it one less.
LEMMA RemovedHolds ==
  ASSUME NEW o \in Object, NEW n \in Names, Carries(o, n), Once(o.finalizers),
         NEW p \in Object, p.finalizers = removed(o, n)
  PROVE  HeldBy(p) = HeldBy(o) \ {n}
<1> DEFINE fs == o.finalizers
           k == CHOOSE i \in 1..Len(fs) : fs[i] = n
           rs == p.finalizers
<1>1. fs \in Seq(Names) /\ Len(fs) \in Nat /\ o # None /\ p # None
  BY NoneType DEF Object
<1>2. k \in 1..Len(fs) /\ fs[k] = n
  BY DEF Carries
<1>3. rs = [i \in 1..(Len(fs) - 1) |-> IF i < k THEN fs[i] ELSE fs[i + 1]]
  BY DEF removed
<1>4. Len(rs) = Len(fs) - 1
  <2>1. \A i \in 1..(Len(fs) - 1) : i \in 1..Len(fs) /\ i + 1 \in 1..Len(fs)
    BY <1>1
  <2>2. \A i \in 1..Len(fs) : fs[i] \in Names
    BY <1>1, ElementOfSeq
  <2>3. rs \in [1..(Len(fs) - 1) -> Names] /\ Len(fs) - 1 \in Nat
    <3> HIDE DEF k
    <3> QED BY <1>1, <1>2, <1>3, <2>1, <2>2
  <2> QED
    BY <2>3, FunctionIsSeq
<1> HIDE DEF k
<1>5. ASSUME NEW f, Carries(p, f) PROVE Carries(o, f) /\ f # n
  <2>1. PICK i \in 1..Len(rs) : rs[i] = f
    BY <1>5 DEF Carries
  <2>2. CASE i < k
    <3>1. i \in 1..Len(fs) /\ fs[i] = f /\ i # k
      BY <1>1, <1>2, <1>3, <1>4, <2>1, <2>2
    <3> QED
      BY <1>2, <3>1 DEF Carries, Once
  <2>3. CASE ~(i < k)
    <3>1. i + 1 \in 1..Len(fs) /\ fs[i + 1] = f /\ i + 1 # k
      BY <1>1, <1>2, <1>3, <1>4, <2>1, <2>3
    <3> QED
      BY <1>2, <3>1 DEF Carries, Once
  <2> QED
    BY <2>2, <2>3
<1>6. ASSUME NEW f, f # n, Carries(o, f) PROVE Carries(p, f)
  <2>1. \E i \in 1..Len(removed(o, n)) : removed(o, n)[i] = f
    BY <1>6, RemovedOne
  <2> QED
    BY <2>1 DEF Carries
<1> QED
  BY <1>1, <1>5, <1>6 DEF HeldBy

\* A write stores what was written, or removes an object that is being deleted
\* and that nobody holds.
LEMMA WriteStores ==
  ASSUME IInv, NEW o \in Object, Write(o)
  PROVE  /\ HeldBy(server') = HeldBy(o)
         /\ PhaseOf(server') = IF o.deleting /\ HeldBy(o) = {} THEN "absent" ELSE PhaseOf(o)
         /\ server' # None => server'.uid = o.uid
                              /\ (server'.deleting => server'.finalizers # <<>>)
<1> DEFINE w == [o EXCEPT !.rv = version + 1]
<1>1. version + 1 \in Nat
  BY DEF IInv, TypeOK
<1>2. /\ w \in Object /\ w.finalizers = o.finalizers /\ w.deleting = o.deleting
      /\ w.uid = o.uid /\ server' = Stored(w) /\ o # None /\ w # None
  BY <1>1, NoneType DEF Write, Object
<1>3. HeldBy(w) = HeldBy(o) /\ PhaseOf(w) = PhaseOf(o)
  BY <1>2 DEF HeldBy, PhaseOf, Carries
<1>4. HeldBy(o) = {} <=> o.finalizers = <<>>
  BY NotHeld
<1>5. HeldBy(None) = {} /\ PhaseOf(None) = "absent"
  BY DEF HeldBy, PhaseOf
<1>6. CASE o.deleting /\ o.finalizers = <<>>
  <2>1. server' = None
    BY <1>2, <1>6 DEF Stored
  <2> QED
    BY <1>4, <1>5, <1>6, <2>1
<1>7. CASE ~(o.deleting /\ o.finalizers = <<>>)
  <2>1. server' = w
    BY <1>2, <1>7 DEF Stored
  <2> QED
    BY <1>2, <1>3, <1>4, <1>7, <2>1
<1> QED
  BY <1>6, <1>7

-----------------------------------------------------------------------------
(* The steps *)

\* The next-state relation of Finalization under the mapping.
AbstractStep == [Final!Next]_(Final!vars)

\* What a step of Lifecycle that leaves the mapped state alone maps to.
LEMMA Stutters ==
  ASSUME PhaseOf(server') = PhaseOf(server), HeldBy(server') = HeldBy(server),
         born' = born, cleaned' = cleaned
  PROVE  AbstractStep
BY DEF AbstractStep, Final!vars, PhaseOf, HeldBy

\* A create is a Create of Finalization.
LEMMA CreateMaps ==
  ASSUME IInv, Settled, Create
  PROVE  AbstractStep /\ Settled'
<1> DEFINE o == [uid |-> born + 1, rv |-> version, deleting |-> FALSE, finalizers |-> <<>>]
<1>1. /\ server = None /\ born' = born + 1 /\ cleaned' = cleaned /\ Write(o)
  BY DEF Create
<1>2. o \in Object /\ o.uid = born + 1 /\ ~o.deleting /\ o.finalizers = <<>> /\ o # None
  <2>1. born \in Nat /\ version \in Nat
    BY DEF IInv, TypeOK
  <2>2. o \in Object /\ o.uid = born + 1 /\ ~o.deleting /\ o.finalizers = <<>>
    BY <2>1, EmptySeq DEF Object
  <2> QED
    BY <2>2, NoneType
<1> HIDE DEF o
<1>3. /\ HeldBy(server') = {} /\ PhaseOf(server') = "live"
      /\ server' # None => server'.uid = born + 1 /\ (server'.deleting => server'.finalizers # <<>>)
  BY <1>1, <1>2, NotHeld, WriteStores DEF PhaseOf
<1>4. HeldBy(server) = {} /\ PhaseOf(server) = "absent"
  BY <1>1 DEF HeldBy, PhaseOf
<1>5. Final!Create
  BY <1>1, <1>3, <1>4 DEF Final!Create, PhaseOf, HeldBy
<1> QED
  BY <1>1, <1>3, <1>5 DEF AbstractStep, Final!Next, Settled

\* A delete request is one of Finalization, which an object without a holder
\* does not survive.
LEMMA DeleteMaps ==
  ASSUME IInv, Settled, Delete
  PROVE  AbstractStep /\ Settled'
<1> DEFINE o == [server EXCEPT !.deleting = TRUE]
<1>1. /\ server # None /\ ~server.deleting /\ born' = born /\ cleaned' = cleaned /\ Write(o)
  BY DEF Delete
<1>2. server \in Object
  BY <1>1 DEF IInv, TypeOK
<1>3. o \in Object /\ o.uid = server.uid /\ o.deleting /\ o.finalizers = server.finalizers /\ o # None
  BY <1>2, NoneType DEF Object
<1>4. HeldBy(o) = HeldBy(server)
  BY <1>1, <1>3 DEF HeldBy, Carries
<1> HIDE DEF o
<1>5. /\ HeldBy(server') = HeldBy(server)
      /\ PhaseOf(server') = IF HeldBy(server) = {} THEN "absent" ELSE "deleting"
      /\ server' # None => server'.uid = server.uid /\ (server'.deleting => server'.finalizers # <<>>)
  BY <1>1, <1>3, <1>4, WriteStores DEF PhaseOf
<1>6. PhaseOf(server) = "live"
  BY <1>1 DEF PhaseOf
<1>7. Final!Delete
  BY <1>1, <1>5, <1>6 DEF Final!Delete, PhaseOf, HeldBy
<1> QED
  BY <1>1, <1>5, <1>7 DEF AbstractStep, Final!Next, Settled

\* A write of what the API server has, with nothing changed that the mapping
\* shows.
LEMMA SameWritten ==
  ASSUME IInv, Settled, server # None, Write(server)
  PROVE  /\ PhaseOf(server') = PhaseOf(server) /\ HeldBy(server') = HeldBy(server)
         /\ server' # None => server'.uid = server.uid /\ (server'.deleting => server'.finalizers # <<>>)
<1>1. server \in Object
  BY DEF IInv, TypeOK
<1>2. ~(server.deleting /\ HeldBy(server) = {})
  BY <1>1, NotHeld DEF Settled
<1> QED
  BY <1>1, <1>2, WriteStores

\* A change of the rest of the object is not seen.
LEMMA ModifyMaps ==
  ASSUME IInv, Settled, Modify
  PROVE  AbstractStep /\ Settled'
<1>1. server # None /\ Write(server) /\ born' = born /\ cleaned' = cleaned
  BY DEF Modify
<1> QED
  BY <1>1, SameWritten, Stutters DEF Settled

\* A handler's success is a Cleanup.
LEMMA HandlerDoneMaps ==
  ASSUME IInv, Settled, NEW c \in Controllers, handlerDone(c)
  PROVE  AbstractStep /\ Settled'
<1>1. /\ pc[c] = "handler" /\ born' = born
      /\ cleaned' = cleaned \cup {<<obj[c].uid, Name(c)>>}
      /\ server' = server \/ (Current(obj[c]) /\ Write(obj[c]))
  BY DEF handlerDone, apiVars
<1>2. obj[c] \in Object /\ obj[c] # None /\ Name(c) \in Names
  BY <1>1, NameType DEF IInv, TypeOK
<1>3. Copy(obj[c], server, version, born) /\ obj[c].deleting
  BY <1>1, <1>2 DEF IInv, Copies, Workers
<1>4. Current(obj[c]) => server = obj[c] /\ server # None
  BY <1>3 DEF Copy, Current
<1>5. /\ PhaseOf(server') = PhaseOf(server) /\ HeldBy(server') = HeldBy(server)
      /\ Settled'
  <2>1. CASE server' = server
    BY <1>1, <2>1 DEF Settled
  <2>2. CASE Current(obj[c]) /\ Write(obj[c])
    BY <1>1, <1>4, <2>2, SameWritten DEF Settled
  <2> QED
    BY <1>1, <2>1, <2>2
<1>6. /\ obj[c].uid \in Nat /\ born \in Nat /\ obj[c].uid <= born
  BY <1>2, <1>3 DEF Copy, Object, IInv, TypeOK
<1>7. obj[c].uid = born => PhaseOf(server) # "live"
  BY <1>3 DEF Copy, PhaseOf, Settled
<1>8. obj[c].uid \in 0..born /\ (obj[c].uid < born \/ obj[c].uid = born)
  BY <1>6
<1>9. Final!Cleanup(obj[c].uid, Name(c))
  BY <1>1, <1>5, <1>7, <1>8 DEF Final!Cleanup, PhaseOf, HeldBy
<1> QED
  BY <1>2, <1>5, <1>8, <1>9 DEF AbstractStep, Final!Next

\* The updater's write is the handler's Protect or Release.
LEMMA WrittenMaps ==
  ASSUME IInv, Settled, NEW c \in Controllers, pc[c] = "update", Current(obj[c]),
         Write(Written(c)), UNCHANGED <<cleaned, born>>
  PROVE  AbstractStep /\ Settled'
<1> DEFINE n == Name(c)
<1>1. /\ server = obj[c] /\ server \in Object /\ Written(c) \in Object
      /\ Written(c).uid = server.uid /\ Written(c).deleting = server.deleting
  BY UpdateFacts DEF IInv
<1>2. n \in Names /\ server # None /\ Written(c) # None
  BY <1>1, NameType, NoneType DEF IInv
<1>3. Once(server.finalizers)
  BY <1>2 DEF IInv, Copies, Copy
<1>4. /\ HeldBy(server') = HeldBy(Written(c))
      /\ PhaseOf(server') = IF server.deleting /\ HeldBy(server') = {} THEN "absent" ELSE PhaseOf(server)
      /\ server' # None => server'.uid = server.uid /\ (server'.deleting => server'.finalizers # <<>>)
  BY <1>1, <1>2, WriteStores DEF PhaseOf
<1>5. Settled'
  BY <1>4, <1>2 DEF Settled
<1>6. CASE server.deleting
  <2>1. Carries(server, n) /\ <<server.uid, n>> \in cleaned
    BY <1>1, <1>6 DEF IInv, Workers
  <2>2. Written(c).finalizers = removed(server, n)
    BY <1>1, <1>6 DEF Written, Object
  <2>3. HeldBy(server') = HeldBy(server) \ {n} /\ n \in HeldBy(server)
    BY <1>1, <1>2, <1>3, <1>4, <2>1, <2>2, RemovedHolds DEF HeldBy
  <2>4. PhaseOf(server) = "deleting" /\ server.uid = born
    BY <1>2, <1>6 DEF PhaseOf, Settled
  <2>5. PhaseOf(server') = IF HeldBy(server) = {n} THEN "absent" ELSE "deleting"
    BY <1>4, <1>6, <2>3, <2>4
  <2>6. Final!Release(n)
    BY <2>1, <2>3, <2>4, <2>5 DEF Final!Release, PhaseOf, HeldBy
  <2> QED
    BY <1>2, <1>5, <2>6 DEF AbstractStep, Final!Next
<1>7. CASE ~server.deleting
  <2>1. ~Carries(server, n)
    BY <1>1, <1>7 DEF IInv, Workers
  <2>2. Written(c).finalizers = added(server, n)
    BY <1>1, <1>7 DEF Written, Object
  <2>3. HeldBy(server') = HeldBy(server) \cup {n} /\ n \notin HeldBy(server)
    BY <1>1, <1>2, <1>4, <2>1, <2>2, AddedHolds DEF HeldBy
  <2>4. PhaseOf(server) = "live" /\ PhaseOf(server') = "live"
    BY <1>2, <1>4, <1>7 DEF PhaseOf
  <2>5. Final!Protect(n)
    BY <2>3, <2>4 DEF Final!Protect, PhaseOf, HeldBy
  <2> QED
    BY <1>2, <1>5, <2>5 DEF AbstractStep, Final!Next
<1> QED
  BY <1>6, <1>7

\* Every step of Lifecycle is a step of Finalization or none, and leaves the
\* API server's object settled.
LEMMA NextMaps ==
  ASSUME IInv, Settled, [Next]_vars
  PROVE  AbstractStep /\ Settled'
<1>1. ASSUME server' = server, born' = born, cleaned' = cleaned
      PROVE  AbstractStep /\ Settled'
  BY <1>1, Stutters DEF Settled
<1>2. CASE UNCHANGED vars
  BY <1>1, <1>2 DEF vars
<1>3. ASSUME NEW c \in Controllers,
             Take(c) \/ sync(c) \/ handlerErr(c) \/ Informer(c) \/ Crash(c)
      PROVE  AbstractStep /\ Settled'
  BY <1>1, <1>3 DEF Take, sync, handlerErr, Informer, Crash, apiVars
<1>4. ASSUME NEW c \in Controllers, update(c) \/ updateFails(c)
      PROVE  AbstractStep /\ Settled'
  <2>1. /\ pc[c] = "update" /\ UNCHANGED <<cleaned, born>>
        /\ server' = server \/ (Current(obj[c]) /\ Write(Written(c)))
    BY <1>4 DEF update, updateFails, apiVars
  <2> QED
    BY <1>1, <2>1, WrittenMaps
<1> QED
  BY <1>2, <1>3, <1>4, HandlerDoneMaps, CreateMaps, ModifyMaps, DeleteMaps DEF Next

\* Lifecycle, with its caches, queues, retries and faults, does to the object
\* only what Finalization promises.
THEOREM LifecycleImplements == Spec => Implements
<1>1. Init => Final!Init /\ Settled
  BY DEF Init, Final!Init, Settled
<1>2. IInv /\ Settled /\ [Next]_vars => [Final!Next]_(Final!vars) /\ Settled'
  BY NextMaps DEF AbstractStep
<1> QED
  BY Invariance, <1>1, <1>2, PTL DEF Spec, Implements, Final!Spec
=============================================================================
