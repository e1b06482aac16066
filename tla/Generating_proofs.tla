------------------------- MODULE Generating_proofs -------------------------
(***************************************************************************)
(* Types of the generating handlers, and what UniqueApplyForResourceVersion*)
(* skips, for any number of owners, specs, children, changes and faults.   *)
(***************************************************************************)
EXTENDS Generating, Apply_proofs

-----------------------------------------------------------------------------
(* Conditions and owners *)

\* What the status handler makes of the conditions are conditions.
LEMMA SetErrorType ==
    ASSUME NEW conds \in Seq(Condition), NEW err \in Errors
    PROVE  SetError(conds, Ready, "", err) \in Seq(Condition)
<1> DEFINE To(c, status, message, reason) ==
             [c EXCEPT !.status = status, !.message = message, !.reason = reason]
           new == [type |-> Ready, status |-> "Unknown", message |-> "", reason |-> ""]
           cs == findOrCreateCond(conds, Ready)
<1>1. \A c \in Condition, status \in {"True", "False", "Unknown"}, message \in Errors,
         reason \in {"", "Error"} : To(c, status, message, reason) \in Condition
  BY DEF Condition
<1>2. cs \in Seq(Condition)
  <2>1. new \in Condition
    BY DEF Condition, Errors, NoError
  <2> HIDE DEF new
  <2>2. Append(conds, new) \in Seq(Condition)
    BY <2>1
  <2> QED BY <2>2 DEF findOrCreateCond, new
<1> HIDE DEF cs
<1>3. ASSUME NEW status \in {"True", "False", "Unknown"},
             NEW message \in Errors, NEW reason \in {"", "Error"}
      PROVE  Set(conds, Ready, status, message, reason) \in Seq(Condition)
  <2>1. PICK i : i = findCond(cs, Ready)
    OBVIOUS
  <2> DEFINE x == To(cs[i], status, message, reason)
  <2>2. Set(conds, Ready, status, message, reason) = [cs EXCEPT ![i] = x]
    BY <2>1 DEF Set, cs
  <2>3. CASE i \in 1 .. Len(cs)
    <3>1. cs[i] \in Condition
      BY <1>2, <2>3, ElementOfSeq
    <3>2. x \in Condition
      BY <1>1, <3>1
    <3> HIDE DEF x
    <3>3. [cs EXCEPT ![i] = x] \in Seq(Condition)
      BY <1>2, <2>3, <3>2, ExceptSeq
    <3> QED BY <2>2, <3>3
  <2>4. CASE i \notin 1 .. Len(cs)
    <3> HIDE DEF x
    <3>1. DOMAIN cs = 1 .. Len(cs) /\ cs = [j \in 1 .. Len(cs) |-> cs[j]]
      <4>1. cs \in [1 .. Len(cs) -> Condition]
        BY <1>2, LenProperties
      <4> QED BY <4>1
    <3>2. [cs EXCEPT ![i] = x] = [j \in 1 .. Len(cs) |-> cs[j]]
      BY <2>4, <3>1
    <3> QED BY <1>2, <2>2, <3>1, <3>2
  <2> QED BY <2>3, <2>4
<1>4. "" \in Errors
  BY DEF Errors, NoError
<1> QED BY <1>3, <1>4 DEF SetError

\* The types of what the API server and the informer have of the owners.
Owners ==
    /\ owner \in [Sets -> Owner \cup {None}]
    /\ ownerCache \in [Sets -> Owner \cup {None}]
    /\ ownerEvents \in [Sets -> Seq(Owner \cup {None})]
    /\ version \in Nat

\* The versions of an owner that are about: in the API server, on their way,
\* in the cache, or in the hands of the worker.
Versions(s) == {o \in Owner : \/ o = owner[s] \/ o = ownerCache[s] \/ o = obj[s]
                              \/ Among(o, ownerEvents[s])}

\* A write of an owner makes one new version, with a new resourceVersion.
LEMMA PutOwnerKeeps ==
    ASSUME Owners, NEW s \in Sets, NEW o \in Owner \cup {None}, PutOwner(s, o),
           ownerCache' = ownerCache, obj' = obj \/ obj' = [obj EXCEPT ![s] = None],
           obj \in [Sets -> Owner \cup {None}]
    PROVE  /\ Owners' /\ version' = version + 1
           /\ \E n \in Owner \cup {None} :
                /\ n # None => o # None /\ n.rv = version + 1 /\ n.spec = o.spec
                /\ Versions(s)' \subseteq Versions(s) \cup {n}
           /\ \A t \in Sets : t # s => Versions(t)' \subseteq Versions(t)
<1> DEFINE n == IF o = None THEN None ELSE [o EXCEPT !.rv = version + 1]
<1>1. /\ owner' = [owner EXCEPT ![s] = n]
      /\ ownerEvents' = [ownerEvents EXCEPT ![s] = Append(@, n)]
      /\ version' = version + 1
  BY DEF PutOwner
<1>2. /\ owner \in [Sets -> Owner \cup {None}] /\ ownerCache \in [Sets -> Owner \cup {None}]
      /\ ownerEvents \in [Sets -> Seq(Owner \cup {None})] /\ version \in Nat
  BY DEF Owners
<1>3. n \in Owner \cup {None}
      /\ (n # None => o # None /\ n.rv = version + 1 /\ n.spec = o.spec)
  <2>1. CASE o = None
    BY <2>1
  <2>2. CASE o # None
    <3>1. o \in Owner /\ version + 1 \in Nat
      BY <1>2, <2>2
    <3>2. [o EXCEPT !.rv = version + 1] \in Owner
          /\ [o EXCEPT !.rv = version + 1].rv = version + 1
          /\ [o EXCEPT !.rv = version + 1].spec = o.spec
      BY <3>1 DEF Owner
    <3> QED BY <2>2, <3>2
  <2> QED BY <2>1, <2>2
<1> HIDE DEF n
<1>4. owner' \in [Sets -> Owner \cup {None}] /\ ownerEvents' \in [Sets -> Seq(Owner \cup {None})]
      /\ version' \in Nat
  BY <1>1, <1>2, <1>3
<1>5. Owners'
  BY <1>2, <1>4 DEF Owners
<1>6. /\ owner'[s] = n /\ ownerEvents'[s] = Append(ownerEvents[s], n)
      /\ \A t \in Sets : t # s => owner'[t] = owner[t] /\ ownerEvents'[t] = ownerEvents[t]
      /\ \A t \in Sets : obj'[t] \in {obj[t], None} /\ (t # s => obj'[t] = obj[t])
  BY <1>1, <1>2
<1>7. \A x : Among(x, Append(ownerEvents[s], n)) => Among(x, ownerEvents[s]) \/ x = n
  <2>1. ownerEvents[s] \in Seq(Owner \cup {None})
    BY <1>2
  <2> QED BY <1>3, <2>1, AmongRules
<1>8. ASSUME NEW x \in Versions(s)' PROVE x \in Versions(s) \cup {n}
  <2>1. x \in Owner /\ x # None
    BY OwnerAssumption DEF Versions
  <2>2. \/ x = owner'[s] \/ x = ownerCache[s] \/ x = obj'[s] \/ Among(x, ownerEvents'[s])
    BY DEF Versions, Among
  <2> QED BY <1>6, <1>7, <2>1, <2>2 DEF Versions
<1>9. ASSUME NEW t \in Sets, t # s, NEW x \in Versions(t)' PROVE x \in Versions(t)
  <2>1. x \in Owner
    BY DEF Versions
  <2>2. \/ x = owner'[t] \/ x = ownerCache[t] \/ x = obj'[t] \/ Among(x, ownerEvents'[t])
    BY DEF Versions, Among
  <2> QED BY <1>6, <1>9, <2>1, <2>2 DEF Versions
<1> QED BY <1>1, <1>3, <1>5, <1>8, <1>9

-----------------------------------------------------------------------------
(* The invariant *)

\* The types of what the workers have.
Workers ==
    /\ phase \in [Sets -> {"idle", "remove", "apply", "status"}]
    /\ obj \in [Sets -> Owner \cup {None}]
    /\ outcome \in [Sets -> Errors]
    /\ failed \in [Sets -> BOOLEAN]
\* A worker has an object while it handles one, and a call while Apply runs.
Linked ==
    /\ \A s \in Sets : obj[s] # None <=> phase[s] \in {"apply", "status"}
    /\ \A s \in Sets : run[s].pc # "idle" <=> phase[s] \in {"remove", "apply"}
\* The types of the other variables.
Rest ==
    /\ queued \in [Sets -> BOOLEAN]
    /\ seen \in [Sets -> Nat]
    /\ unique \in BOOLEAN
    /\ last \in [Sets -> DesiredSet]
    /\ changes \in Nat /\ faults \in Nat
\* All of these.
GeneratingOK == ApplyOK /\ Owners /\ Workers /\ Linked /\ Rest

\* The versions V of s's owner have numbers up to ver; two of one number have
\* one spec; the version sn that was applied last was of what lst says.
AgreeOn(s, V, ver, sn, lst, u) ==
    /\ \A o \in V : 0 < o.rv /\ o.rv <= ver
    /\ \A o, p \in V : o.rv = p.rv => o.spec = p.spec
    /\ u => sn <= ver /\ \A o \in V : sn = o.rv => lst = Generated[s][o.spec]
\* So it is for every owner.
AgreeInv == \A s \in Sets : AgreeOn(s, Versions(s), version, seen[s], last[s], unique)

\* While Apply runs for the handler, it applies what its object generates; when
\* it runs for Remove, no version counts as applied.
PhaseInv ==
    \A s \in Sets :
      /\ phase[s] = "apply" => run[s].objs = Generated[s][obj[s].spec]
      /\ phase[s] = "remove" /\ unique => seen[s] = 0

\* The inductive invariant.
GeneratingInv == GeneratingOK /\ AgreeInv /\ PhaseInv

\* No new version, or one with a number of its own.
LEMMA AgreeGrows ==
    ASSUME NEW s, NEW V \in SUBSET Owner, NEW W \in SUBSET Owner, NEW ver \in Nat, NEW sn \in Nat,
           NEW lst, NEW u, AgreeOn(s, V, ver, sn, lst, u)
    PROVE  /\ W \subseteq V => AgreeOn(s, W, ver, sn, lst, u) /\ AgreeOn(s, W, ver + 1, sn, lst, u)
           /\ \A n : W \subseteq V \cup {n} /\ n.rv = ver + 1 => AgreeOn(s, W, ver + 1, sn, lst, u)
<1>1. \A o \in V : o.rv \in Nat
  BY DEF Owner
<1>2. ASSUME W \subseteq V
      PROVE  AgreeOn(s, W, ver, sn, lst, u) /\ AgreeOn(s, W, ver + 1, sn, lst, u)
  BY <1>1, <1>2 DEF AgreeOn
<1>3. ASSUME NEW n, W \subseteq V \cup {n}, n.rv = ver + 1
      PROVE  AgreeOn(s, W, ver + 1, sn, lst, u)
  <2>1. \A o \in W : o \in V \/ o = n
    BY <1>3
  <2>2. \A o \in W : 0 < o.rv /\ o.rv <= ver + 1
    BY <1>1, <1>3, <2>1 DEF AgreeOn
  <2>3. \A o, p \in W : o.rv = p.rv => o.spec = p.spec
    <3> SUFFICES ASSUME NEW o \in W, NEW p \in W, o.rv = p.rv PROVE o.spec = p.spec
      OBVIOUS
    <3>1. CASE o \in V /\ p \in V
      BY <3>1 DEF AgreeOn
    <3>2. CASE o = n /\ p = n
      BY <3>2
    <3>3. \A x \in V : x.rv # ver + 1
      BY <1>1 DEF AgreeOn
    <3> QED BY <1>3, <2>1, <3>1, <3>2, <3>3
  <2>4. u => sn <= ver + 1 /\ \A o \in W : sn = o.rv => lst = Generated[s][o.spec]
    <3>1. u => sn <= ver /\ sn # ver + 1
      BY DEF AgreeOn
    <3> QED BY <1>3, <2>1, <3>1 DEF AgreeOn
  <2> QED BY <2>2, <2>3, <2>4 DEF AgreeOn
<1> QED BY <1>2, <1>3

\* Nothing applied yet, or a version applied just now.
LEMMA AgreeApplied ==
    ASSUME NEW s, NEW V \in SUBSET Owner, NEW W \in SUBSET Owner, NEW ver \in Nat, NEW sn \in Nat,
           NEW lst, NEW u, AgreeOn(s, V, ver, sn, lst, u), W \subseteq V
    PROVE  /\ \A l : AgreeOn(s, W, ver, 0, l, u)
           /\ \A o \in V : AgreeOn(s, W, ver, o.rv, Generated[s][o.spec], u)
           /\ ~u => \A m, l : AgreeOn(s, W, ver, m, l, u)
BY DEF AgreeOn, Owner

\* A worker that moves on keeps the types, and leaves the other workers alone.
LEMMA AtKeeps ==
    ASSUME Workers, NEW s \in Sets, NEW p \in {"idle", "remove", "apply", "status"},
           NEW o \in Owner \cup {None}, NEW out \in Errors, NEW err \in BOOLEAN, At(s, p, o, out, err)
    PROVE  /\ Workers' /\ phase'[s] = p /\ obj'[s] = o /\ obj' = [obj EXCEPT ![s] = o]
           /\ \A t \in Sets : t # s => phase'[t] = phase[t] /\ obj'[t] = obj[t]
BY DEF Workers, At

\* A step that leaves the owners and what is applied alone, and gives the worker
\* at most a version from the cache, keeps the versions in agreement.
LEMMA AgreeKept ==
    ASSUME GeneratingOK, AgreeInv, UNCHANGED <<version, seen, unique, last>>,
           \A t \in Sets : Versions(t)' \subseteq Versions(t)
    PROVE  AgreeInv'
<1>1. ASSUME NEW t \in Sets
      PROVE  AgreeOn(t, Versions(t)', version, seen[t], last[t], unique)
  <2>1. Versions(t) \in SUBSET Owner /\ Versions(t)' \in SUBSET Owner
    BY DEF Versions
  <2>2. PICK W \in SUBSET Owner : W = Versions(t)'
    BY <2>1
  <2>3. W \subseteq Versions(t) /\ version \in Nat /\ seen[t] \in Nat
    BY <2>2 DEF GeneratingOK, Owners, Rest
  <2>4. AgreeOn(t, Versions(t), version, seen[t], last[t], unique)
    BY DEF AgreeInv
  <2>5. AgreeOn(t, W, version, seen[t], last[t], unique)
    BY <2>1, <2>3, <2>4, AgreeGrows
  <2> QED BY <2>2, <2>5
<1> QED BY <1>1 DEF AgreeInv, AgreeOn

-----------------------------------------------------------------------------
(* The actions *)

\* An owner is written: by its user, by the last finalizer, or with a status.
LEMMA OwnerWritten ==
    ASSUME GeneratingInv, NEW s \in Sets, NEW o \in Owner \cup {None}, PutOwner(s, o),
           UNCHANGED <<applyVars, ownerCache, seen, unique, last>>,
           \/ UNCHANGED <<phase, obj, outcome, failed>>
           \/ phase[s] = "status" /\ At(s, "idle", None, NoError, FALSE),
           queued' \in [Sets -> BOOLEAN], changes' \in Nat, faults' \in Nat
    PROVE  GeneratingInv'
<1>1. ApplyOK /\ Owners /\ Workers /\ Linked /\ Rest /\ AgreeInv /\ PhaseInv
  BY DEF GeneratingInv, GeneratingOK
<1>2. /\ Workers' /\ (obj' = obj \/ obj' = [obj EXCEPT ![s] = None])
      /\ \A t \in Sets : \/ phase'[t] = phase[t] /\ obj'[t] = obj[t]
                         \/ phase[t] = "status" /\ phase'[t] = "idle" /\ obj'[t] = None
  <2>1. CASE UNCHANGED <<phase, obj, outcome, failed>>
    BY <1>1, <2>1 DEF Workers
  <2>2. CASE phase[s] = "status" /\ At(s, "idle", None, NoError, FALSE)
    <3>1. NoError \in Errors
      BY DEF Errors
    <3> QED BY <1>1, <2>2, <3>1, AtKeeps
  <2> QED BY <2>1, <2>2
<1>3. /\ Owners' /\ version' = version + 1
      /\ \E n \in Owner \cup {None} :
           /\ n # None => o # None /\ n.rv = version + 1 /\ n.spec = o.spec
           /\ Versions(s)' \subseteq Versions(s) \cup {n}
      /\ \A t \in Sets : t # s => Versions(t)' \subseteq Versions(t)
  <2>1. obj \in [Sets -> Owner \cup {None}] /\ ownerCache' = ownerCache
    BY <1>1 DEF Workers
  <2> QED BY <1>1, <1>2, <2>1, PutOwnerKeeps
<1>4. UNCHANGED <<server, cache, events, run>>
  BY DEF applyVars
<1>5. ApplyOK'
  BY <1>1, <1>4 DEF ApplyOK, Calls, Planned
<1>6. Linked'
  BY <1>1, <1>2, <1>4 DEF Linked
<1>7. Rest'
  BY <1>1 DEF Rest
<1>8. PhaseInv'
  BY <1>1, <1>2, <1>4 DEF PhaseInv
<1>9. ASSUME NEW t \in Sets
      PROVE  AgreeOn(t, Versions(t)', version + 1, seen[t], last[t], unique)
  <2>1. Versions(t) \in SUBSET Owner /\ Versions(t)' \in SUBSET Owner
    BY DEF Versions
  <2>2. PICK W \in SUBSET Owner : W = Versions(t)'
    BY <2>1
  <2>3. version \in Nat /\ seen[t] \in Nat
        /\ AgreeOn(t, Versions(t), version, seen[t], last[t], unique)
    BY <1>1 DEF Owners, Rest, AgreeInv
  <2>4. W \subseteq Versions(t) \/ \E n : W \subseteq Versions(t) \cup {n} /\ n.rv = version + 1
    <3>1. CASE t # s
      BY <1>3, <2>2, <3>1
    <3>2. CASE t = s
      <4>1. PICK n \in Owner \cup {None} :
               /\ n # None => n.rv = version + 1
               /\ W \subseteq Versions(t) \cup {n}
        BY <1>3, <2>2, <3>2
      <4>2. n = None => W \subseteq Versions(t)
        BY <4>1, OwnerAssumption
      <4> QED BY <4>1, <4>2
    <3> QED BY <3>1, <3>2
  <2>5. AgreeOn(t, W, version + 1, seen[t], last[t], unique)
    BY <2>1, <2>3, <2>4, AgreeGrows
  <2> QED BY <2>2, <2>5
<1>10. AgreeInv'
  BY <1>3, <1>9 DEF AgreeInv, AgreeOn
<1> QED BY <1>2, <1>3, <1>5, <1>6, <1>7, <1>8, <1>10 DEF GeneratingInv, GeneratingOK

\* A new version of an owner has a number of its own.
LEMMA OwnerChangeKeeps ==
    ASSUME GeneratingInv, NEW s \in Sets, OwnerChange(s) \/ Finalized(s)
    PROVE  GeneratingInv'
<1>1. owner[s] \in Owner \cup {None} /\ changes \in Nat /\ faults \in Nat /\ queued \in [Sets -> BOOLEAN]
  BY DEF GeneratingInv, GeneratingOK, Owners, Rest
<1>2. UNCHANGED <<applyVars, ownerCache, seen, unique, last>> /\ UNCHANGED <<phase, obj, outcome, failed>>
      /\ queued' \in [Sets -> BOOLEAN] /\ changes' \in Nat /\ faults' \in Nat
  BY <1>1 DEF OwnerChange, Finalized, workerVars, bounds
<1>3. \E o \in Owner \cup {None} : PutOwner(s, o)
  <2>1. CASE PutOwner(s, None)
    BY <2>1
  <2>2. CASE owner[s] = None /\ \E x \in Specs :
            PutOwner(s, [rv |-> 0, spec |-> x, deleting |-> FALSE, conds |-> <<Others>>])
    <3>1. PICK x \in Specs :
            PutOwner(s, [rv |-> 0, spec |-> x, deleting |-> FALSE, conds |-> <<Others>>])
      BY <2>2
    <3>2. Others \in Condition
      BY DEF Others, Condition, Errors, NoError
    <3>3. <<Others>> \in Seq(Condition)
      BY <3>2
    <3>4. PICK cs \in Seq(Condition) : cs = <<Others>>
      BY <3>3
    <3>5. [rv |-> 0, spec |-> x, deleting |-> FALSE, conds |-> cs] \in Owner
      BY DEF Owner
    <3> QED BY <3>1, <3>4, <3>5
  <2>3. CASE owner[s] # None /\ \E x \in Specs : PutOwner(s, [owner[s] EXCEPT !.spec = x])
    <3>1. PICK x \in Specs : PutOwner(s, [owner[s] EXCEPT !.spec = x])
      BY <2>3
    <3>2. [owner[s] EXCEPT !.spec = x] \in Owner
      BY <1>1, <2>3 DEF Owner
    <3> QED BY <3>1, <3>2
  <2>4. CASE owner[s] # None /\ PutOwner(s, [owner[s] EXCEPT !.deleting = TRUE])
    <3>1. [owner[s] EXCEPT !.deleting = TRUE] \in Owner
      BY <1>1, <2>4 DEF Owner
    <3> QED BY <2>4, <3>1
  <2> QED BY <2>1, <2>2, <2>3, <2>4 DEF OwnerChange, Finalized
<1> QED BY <1>2, <1>3, OwnerWritten

\* The owner informer takes a version on its way into the cache.
LEMMA OwnerInformerKeeps ==
    ASSUME GeneratingInv, NEW s \in Sets, OwnerInformer(s)
    PROVE  GeneratingInv'
<1>1. ApplyOK /\ Owners /\ Workers /\ Linked /\ Rest /\ AgreeInv /\ PhaseInv
  BY DEF GeneratingInv, GeneratingOK
<1>2. /\ UNCHANGED <<server, cache, events, run>> /\ UNCHANGED <<phase, obj, outcome, failed>>
      /\ UNCHANGED <<owner, version, seen, unique, last, changes, faults>>
      /\ ownerEvents[s] # <<>>
      /\ ownerCache' = [ownerCache EXCEPT ![s] = Head(ownerEvents[s])]
      /\ ownerEvents' = [ownerEvents EXCEPT ![s] = Tail(@)]
      /\ queued' = [queued EXCEPT ![s] = TRUE]
  BY DEF OwnerInformer, applyVars, workerVars, bounds
<1>3. /\ ownerEvents[s] \in Seq(Owner \cup {None}) /\ ownerCache \in [Sets -> Owner \cup {None}]
      /\ ownerEvents \in [Sets -> Seq(Owner \cup {None})]
  BY <1>1 DEF Owners
<1>4. /\ Head(ownerEvents[s]) \in Owner \cup {None} /\ Tail(ownerEvents[s]) \in Seq(Owner \cup {None})
      /\ Among(Head(ownerEvents[s]), ownerEvents[s])
      /\ \A x : Among(x, Tail(ownerEvents[s])) => Among(x, ownerEvents[s])
  BY <1>2, <1>3, AmongRules
<1>5. Owners'
  BY <1>1, <1>2, <1>3, <1>4 DEF Owners
<1>6. ASSUME NEW t \in Sets, NEW x \in Versions(t)' PROVE x \in Versions(t)
  <2>1. x \in Owner
    BY DEF Versions
  <2>2. \/ x = owner[t] \/ x = ownerCache'[t] \/ x = obj[t] \/ Among(x, ownerEvents'[t])
    BY <1>2 DEF Versions, Among
  <2>3. ownerCache'[t] = IF t = s THEN Head(ownerEvents[s]) ELSE ownerCache[t]
    BY <1>2, <1>3
  <2>4. ownerEvents'[t] = IF t = s THEN Tail(ownerEvents[s]) ELSE ownerEvents[t]
    BY <1>2, <1>3
  <2> QED BY <1>4, <2>1, <2>2, <2>3, <2>4 DEF Versions
<1>7. AgreeInv'
  BY <1>1, <1>2, <1>6, AgreeKept DEF GeneratingOK
<1>8. ApplyOK' /\ Workers' /\ Linked' /\ PhaseInv'
  BY <1>1, <1>2 DEF ApplyOK, Calls, Planned, Workers, Linked, PhaseInv
<1>9. Rest'
  BY <1>1, <1>2 DEF Rest
<1> QED BY <1>5, <1>7, <1>8, <1>9 DEF GeneratingInv, GeneratingOK

\* Versions do not depend on Apply's state or on the queue.
LEMMA VersionsOf ==
    ASSUME UNCHANGED <<owner, ownerEvents, ownerCache>>, NEW t,
           obj'[t] \in {obj[t], None, ownerCache[t]}
    PROVE  Versions(t)' \subseteq Versions(t)
<1> SUFFICES ASSUME NEW x \in Versions(t)' PROVE x \in Versions(t)
  OBVIOUS
<1>1. x \in Owner /\ x # None
  BY OwnerAssumption DEF Versions
<1>2. \/ x = owner[t] \/ x = ownerCache[t] \/ x = obj'[t] \/ Among(x, ownerEvents[t])
  BY DEF Versions, Among
<1> QED BY <1>1, <1>2 DEF Versions

\* A child's event, a child deleted by someone, and the steps of Apply.
LEMMA ApplyKeeps ==
    ASSUME GeneratingInv, ApplyOK',
           \A s \in Sets : run'[s].objs = run[s].objs /\ (run'[s].pc = "idle" <=> run[s].pc = "idle"),
           UNCHANGED <<ownerVars, ownerCache, workerVars, seen, unique, last>>,
           queued' \in [Sets -> BOOLEAN], changes' \in Nat, faults' \in Nat
    PROVE  GeneratingInv'
<1>1. ApplyOK /\ Owners /\ Workers /\ Linked /\ Rest /\ AgreeInv /\ PhaseInv
  BY DEF GeneratingInv, GeneratingOK
<1>2. /\ UNCHANGED <<owner, ownerEvents, version, ownerCache>>
      /\ UNCHANGED <<phase, obj, outcome, failed, seen, unique, last>>
  BY DEF ownerVars, workerVars
<1>3. Owners' /\ Workers'
  BY <1>1, <1>2 DEF Owners, Workers
<1>4. Linked' /\ PhaseInv'
  BY <1>1, <1>2 DEF Linked, PhaseInv
<1>5. Rest'
  BY <1>1, <1>2 DEF Rest
<1>6. AgreeInv'
  BY <1>1, <1>2, VersionsOf, AgreeKept DEF GeneratingOK
<1> QED BY <1>3, <1>4, <1>5, <1>6 DEF GeneratingInv, GeneratingOK

\* A step of Apply, or a fault, changes no version.
LEMMA ApplyStepKeeps ==
    ASSUME GeneratingInv, NEW s \in Sets, Step(s) \/ Fault(s)
    PROVE  GeneratingInv'
<1>1. ApplyOK /\ queued \in [Sets -> BOOLEAN] /\ changes \in Nat /\ faults \in Nat
  BY DEF GeneratingInv, GeneratingOK, Rest
<1>2. ApplyStep(s) /\ UNCHANGED <<ownerVars, ownerCache, queued, workerVars, seen, unique, last, changes>>
      /\ faults' \in Nat
  BY <1>1 DEF Step, Fault, ApplyStep, bounds
<1>3. ApplyOK' /\ \A t \in Sets : run'[t].objs = run[t].objs /\ (run'[t].pc = "idle" <=> run[t].pc = "idle")
  BY <1>1, <1>2, StepKeeps
<1> QED BY <1>1, <1>2, <1>3, ApplyKeeps

\* What becomes of children changes no version.
LEMMA ChildKeeps ==
    ASSUME GeneratingInv, NEW k \in Keys, Informer(k) \/ ChildDeleted(k)
    PROVE  GeneratingInv'
<1>1. ApplyOK /\ queued \in [Sets -> BOOLEAN] /\ changes \in Nat /\ faults \in Nat
  BY DEF GeneratingInv, GeneratingOK, Rest
<1>2. CASE Informer(k)
  <2>1. /\ Deliver(k) /\ UNCHANGED <<ownerVars, ownerCache, workerVars, seen, unique, last, changes, faults>>
        /\ queued' \in [Sets -> BOOLEAN]
    BY <1>1, <1>2 DEF Informer, bounds
  <2>2. ApplyOK' /\ run' = run
    BY <1>1, <2>1, DeliverKeeps
  <2> QED BY <1>1, <2>1, <2>2, ApplyKeeps
<1>3. CASE ChildDeleted(k)
  <2>1. /\ Put(k, None) /\ UNCHANGED <<cache, run>>
        /\ UNCHANGED <<ownerVars, ownerCache, queued, workerVars, seen, unique, last, changes>>
        /\ faults' \in Nat
    BY <1>1, <1>3 DEF ChildDeleted
  <2>2. ApplyOK'
    BY <1>1, <2>1, PutKeeps
  <2> QED BY <1>1, <2>1, <2>2, ApplyKeeps
<1> QED BY <1>2, <1>3

\* The same for a step that changes what counts as applied.
LEMMA AgreeMoves ==
    ASSUME GeneratingOK, AgreeInv, UNCHANGED <<version, unique>>,
           \A t \in Sets : Versions(t)' \subseteq Versions(t),
           \A t \in Sets : \/ seen'[t] = seen[t] /\ last'[t] = last[t]
                           \/ seen'[t] = 0
                           \/ ~unique
                           \/ \E o \in Versions(t) : seen'[t] = o.rv /\ last'[t] = Generated[t][o.spec]
    PROVE  AgreeInv'
<1>1. ASSUME NEW t \in Sets
      PROVE  AgreeOn(t, Versions(t)', version, seen'[t], last'[t], unique)
  <2>1. Versions(t) \in SUBSET Owner /\ Versions(t)' \in SUBSET Owner
    BY DEF Versions
  <2>2. PICK W \in SUBSET Owner : W = Versions(t)'
    BY <2>1
  <2>3. PICK sn, lst : sn = seen'[t] /\ lst = last'[t]
    OBVIOUS
  <2>4. W \subseteq Versions(t) /\ version \in Nat /\ seen[t] \in Nat
    BY <2>2 DEF GeneratingOK, Owners, Rest
  <2>5. AgreeOn(t, Versions(t), version, seen[t], last[t], unique)
    BY DEF AgreeInv
  <2>6. \/ (sn = seen[t] /\ lst = last[t]) \/ sn = 0 \/ ~unique
        \/ \E o \in Versions(t) : sn = o.rv /\ lst = Generated[t][o.spec]
    BY <2>3
  <2>7. AgreeOn(t, W, version, sn, lst, unique)
    <3>1. CASE sn = seen[t] /\ lst = last[t]
      BY <2>1, <2>4, <2>5, <3>1, AgreeGrows
    <3>2. \A l : AgreeOn(t, W, version, 0, l, unique)
      BY <2>1, <2>4, <2>5, AgreeApplied
    <3>3. \A o \in Versions(t) : AgreeOn(t, W, version, o.rv, Generated[t][o.spec], unique)
      BY <2>1, <2>4, <2>5, AgreeApplied
    <3>4. ~unique => \A m, l : AgreeOn(t, W, version, m, l, unique)
      BY <2>1, <2>4, <2>5, AgreeApplied
    <3> QED BY <2>6, <3>1, <3>2, <3>3, <3>4
  <2> QED BY <2>2, <2>3, <2>7
<1> QED BY <1>1 DEF AgreeInv, AgreeOn

\* Remove applies nothing and forgets the version applied last.
LEMMA RemoveKeeps ==
    ASSUME GeneratingInv, NEW s \in Sets, Remove(s)
    PROVE  GeneratingInv'
<1>1. ApplyOK /\ Owners /\ Workers /\ Linked /\ Rest /\ AgreeInv /\ PhaseInv
  BY DEF GeneratingInv, GeneratingOK
<1>2. /\ phase[s] = "idle" /\ queued' = [queued EXCEPT ![s] = FALSE]
      /\ UNCHANGED <<owner, ownerEvents, version, ownerCache, unique, last, changes, faults>>
      /\ seen' = [seen EXCEPT ![s] = IF unique THEN 0 ELSE @]
      /\ Start(s, Empty) /\ At(s, "remove", None, NoError, FALSE)
  BY DEF Remove, Taken, ownerVars
<1>3. /\ Workers' /\ phase'[s] = "remove" /\ obj'[s] = None
      /\ \A t \in Sets : t # s => phase'[t] = phase[t] /\ obj'[t] = obj[t]
  <2>1. NoError \in Errors
    BY DEF Errors
  <2> QED BY <1>1, <1>2, <2>1, AtKeeps
<1>4. ApplyOK' /\ run'[s].pc = "apply" /\ \A t \in Sets : t # s => run'[t] = run[t]
  BY <1>1, <1>2, IdleOK, StartKeeps DEF Is
<1>5. /\ seen \in [Sets -> Nat]
      /\ seen' \in [Sets -> Nat] /\ (unique => seen'[s] = 0) /\ (~unique => seen'[s] = seen[s])
      /\ \A t \in Sets : t # s => seen'[t] = seen[t]
  BY <1>1, <1>2 DEF Rest
<1>6. Rest'
  BY <1>1, <1>2, <1>5 DEF Rest
<1>7. Owners'
  BY <1>1, <1>2 DEF Owners
<1>8. Linked'
  BY <1>1, <1>3, <1>4 DEF Linked
<1>9. PhaseInv'
  BY <1>1, <1>2, <1>3, <1>4, <1>5 DEF PhaseInv
<1>10. \A t \in Sets : Versions(t)' \subseteq Versions(t)
  BY <1>2, <1>3, VersionsOf
<1>11. AgreeInv'
  <2>1. \A t \in Sets : (seen'[t] = seen[t] /\ last'[t] = last[t]) \/ seen'[t] = 0
    BY <1>2, <1>5
  <2> QED BY <1>1, <1>2, <1>10, <2>1, AgreeMoves DEF GeneratingOK
<1> QED BY <1>3, <1>4, <1>6, <1>7, <1>8, <1>9, <1>11 DEF GeneratingInv, GeneratingOK

\* The worker takes the object from the cache and applies what it generates,
\* or goes on to the status.
LEMMA HandleKeeps ==
    ASSUME GeneratingInv, NEW s \in Sets, Handle(s) \/ HandleErr(s)
    PROVE  GeneratingInv'
<1>1. ApplyOK /\ Owners /\ Workers /\ Linked /\ Rest /\ AgreeInv /\ PhaseInv
  BY DEF GeneratingInv, GeneratingOK
<1> DEFINE o == ownerCache[s]
<1>2. /\ phase[s] = "idle" /\ queued' = [queued EXCEPT ![s] = FALSE] /\ o # None
      /\ UNCHANGED <<owner, ownerEvents, version, ownerCache, unique, last, changes, seen>>
      /\ faults' \in {faults, faults + 1}
  BY DEF Handle, HandleErr, Taken, ownerVars
<1>3. o \in Owner
  BY <1>1, <1>2 DEF Owners
<1>4. \/ Start(s, Generated[s][o.spec]) /\ At(s, "apply", o, NoError, FALSE)
      \/ /\ UNCHANGED applyVars
         /\ \E out \in Errors, err \in BOOLEAN : At(s, "status", o, out, err)
  <2>1. NoError \in Errors
    BY DEF Errors
  <2> QED BY <2>1 DEF Handle, HandleErr
<1> HIDE DEF o
<1>5. Rest'
  BY <1>1, <1>2 DEF Rest
<1>6. Owners'
  BY <1>1, <1>2 DEF Owners
<1>7. /\ Workers' /\ ApplyOK' /\ obj'[s] = o /\ \A t \in Sets : t # s => run'[t] = run[t]
      /\ \A t \in Sets : t # s => phase'[t] = phase[t] /\ obj'[t] = obj[t]
      /\ \/ phase'[s] = "apply" /\ run'[s].pc = "apply" /\ run'[s].objs = Generated[s][o.spec]
         \/ phase'[s] = "status" /\ run'[s] = run[s]
  <2>1. CASE Start(s, Generated[s][o.spec]) /\ At(s, "apply", o, NoError, FALSE)
    <3>1. NoError \in Errors
      BY DEF Errors
    <3>2. o.spec \in Specs
      BY <1>3 DEF Owner
    <3>3. Generated[s][o.spec] \in DesiredSet
      BY <3>2, GeneratingAssumption
    <3>4. /\ Workers' /\ phase'[s] = "apply" /\ obj'[s] = o
          /\ \A t \in Sets : t # s => phase'[t] = phase[t] /\ obj'[t] = obj[t]
      BY <1>1, <1>3, <2>1, <3>1, AtKeeps
    <3>5. /\ ApplyOK' /\ run'[s].pc = "apply" /\ run'[s].objs = Generated[s][o.spec]
          /\ \A t \in Sets : t # s => run'[t] = run[t]
      BY <1>1, <2>1, <3>3, StartKeeps DEF Is
    <3> QED BY <3>4, <3>5
  <2>2. CASE UNCHANGED applyVars /\ \E out \in Errors, err \in BOOLEAN : At(s, "status", o, out, err)
    <3>1. UNCHANGED <<server, cache, events, run>>
      BY <2>2 DEF applyVars
    <3>2. ApplyOK'
      BY <1>1, <3>1 DEF ApplyOK, Calls, Planned
    <3>3. /\ Workers' /\ phase'[s] = "status" /\ obj'[s] = o
          /\ \A t \in Sets : t # s => phase'[t] = phase[t] /\ obj'[t] = obj[t]
      BY <1>1, <1>3, <2>2, AtKeeps
    <3> QED BY <3>1, <3>2, <3>3
  <2> QED BY <1>4, <2>1, <2>2
<1>8. Linked'
  BY <1>1, <1>2, <1>7 DEF Linked
<1>9. PhaseInv'
  BY <1>1, <1>2, <1>7 DEF PhaseInv
<1>10. \A t \in Sets : Versions(t)' \subseteq Versions(t)
  BY <1>2, <1>7, VersionsOf DEF o
<1>11. AgreeInv'
  BY <1>1, <1>2, <1>10, AgreeKept DEF GeneratingOK
<1> QED BY <1>5, <1>6, <1>7, <1>8, <1>9, <1>11 DEF GeneratingInv, GeneratingOK

\* Apply returns: the version counts as applied if there was no error.
LEMMA AppliedKeeps ==
    ASSUME GeneratingInv, NEW s \in Sets, Applied(s)
    PROVE  GeneratingInv'
<1>1. ApplyOK /\ Owners /\ Workers /\ Linked /\ Rest /\ AgreeInv /\ PhaseInv
  BY DEF GeneratingInv, GeneratingOK
<1> DEFINE err == run[s].err
<1>2. /\ Return(s)
      /\ UNCHANGED <<owner, ownerEvents, version, ownerCache, unique, changes, faults>>
      /\ last' = [last EXCEPT ![s] = IF unique /\ ~err THEN run[s].objs ELSE @]
  BY DEF Applied, AppliedWith, ownerVars, bounds
<1>3. run[s].pc # "idle" /\ err \in BOOLEAN /\ run[s].objs \in DesiredSet
  BY <1>1, <1>2, RunFields DEF Return, Returns, BetweenGVKs, Busy, ApplyOK, Calls
<1>4. phase[s] \in {"remove", "apply"}
  BY <1>1, <1>3 DEF Linked
<1>5. /\ ApplyOK' /\ run'[s] = Idle /\ \A t \in Sets : t # s => run'[t] = run[t]
  BY <1>1, <1>2, EndKeeps
<1>6. /\ last \in [Sets -> DesiredSet] /\ last' \in [Sets -> DesiredSet]
      /\ \A t \in Sets : last'[t] = IF t = s /\ unique /\ ~err THEN run[s].objs ELSE last[t]
  BY <1>1, <1>2, <1>3 DEF Rest
<1>7. Owners'
  BY <1>1, <1>2 DEF Owners
<1>8. CASE phase[s] = "remove"
  <2>1. At(s, "idle", None, NoError, FALSE) /\ queued' = [queued EXCEPT ![s] = @ \/ err] /\ seen' = seen
    BY <1>8 DEF Applied, AppliedWith, Done
  <2>2. NoError \in Errors
    BY DEF Errors
  <2>3. /\ Workers' /\ phase'[s] = "idle" /\ obj'[s] = None
        /\ \A t \in Sets : t # s => phase'[t] = phase[t] /\ obj'[t] = obj[t]
    BY <1>1, <2>1, <2>2, AtKeeps
  <2> HIDE DEF err
  <2>4. queued' \in [Sets -> BOOLEAN]
    BY <1>1, <1>3, <2>1 DEF Rest
  <2>5. Rest'
    BY <1>1, <1>2, <1>6, <2>1, <2>4 DEF Rest
  <2>6. Linked'
    BY <1>1, <1>5, <2>3, IdleOK DEF Linked
  <2>7. PhaseInv'
    BY <1>1, <1>2, <1>5, <2>1, <2>3 DEF PhaseInv
  <2>8. \A t \in Sets : Versions(t)' \subseteq Versions(t)
    BY <1>2, <2>3, VersionsOf
  <2>9. AgreeInv'
    <3>1. unique => seen[s] = 0
      BY <1>1, <1>8 DEF PhaseInv
    <3>2. \A t \in Sets : (seen'[t] = seen[t] /\ last'[t] = last[t]) \/ seen'[t] = 0 \/ ~unique
      BY <1>6, <2>1, <3>1
    <3> QED BY <1>1, <1>2, <2>8, <3>2, AgreeMoves DEF GeneratingOK
  <2> QED BY <1>5, <1>7, <2>3, <2>5, <2>6, <2>7, <2>9 DEF GeneratingInv, GeneratingOK
<1>9. CASE phase[s] = "apply"
  <2>1. /\ At(s, "status", obj[s], IF err THEN "failed" ELSE NoError, err)
        /\ seen' = [seen EXCEPT ![s] = IF unique /\ ~err THEN obj[s].rv ELSE @]
        /\ queued' = queued
    BY <1>9 DEF Applied, AppliedWith
  <2>2. (IF err THEN "failed" ELSE NoError) \in Errors
    BY DEF Errors
  <2>3. obj[s] \in Owner /\ obj[s] # None /\ obj[s] \in Versions(s) /\ obj[s].rv \in Nat
    BY <1>1, <1>9 DEF Linked, Workers, Versions, Owner
  <2>4. /\ Workers' /\ phase'[s] = "status" /\ obj'[s] = obj[s]
        /\ \A t \in Sets : t # s => phase'[t] = phase[t] /\ obj'[t] = obj[t]
    BY <1>1, <1>3, <2>1, <2>2, <2>3, AtKeeps
  <2> HIDE DEF err
  <2>5. /\ seen \in [Sets -> Nat] /\ seen' \in [Sets -> Nat]
        /\ \A t \in Sets : seen'[t] = IF t = s /\ unique /\ ~err THEN obj[s].rv ELSE seen[t]
    BY <1>1, <2>1, <2>3 DEF Rest
  <2>6. Rest'
    BY <1>1, <1>2, <1>6, <2>1, <2>5 DEF Rest
  <2>7. Linked'
    BY <1>1, <1>5, <2>3, <2>4, IdleOK DEF Linked
  <2>8. PhaseInv'
    BY <1>1, <1>2, <1>5, <2>4, <2>5 DEF PhaseInv
  <2>9. \A t \in Sets : Versions(t)' \subseteq Versions(t)
    BY <1>2, <2>4, VersionsOf
  <2>10. AgreeInv'
    <3>1. run[s].objs = Generated[s][obj[s].spec]
      BY <1>1, <1>9 DEF PhaseInv
    <3>2. \A t \in Sets : \/ seen'[t] = seen[t] /\ last'[t] = last[t]
                          \/ \E o \in Versions(t) : seen'[t] = o.rv /\ last'[t] = Generated[t][o.spec]
      BY <1>6, <2>3, <2>5, <3>1
    <3> QED BY <1>1, <1>2, <2>9, <3>2, AgreeMoves DEF GeneratingOK
  <2> QED BY <1>5, <1>7, <2>4, <2>6, <2>7, <2>8, <2>10 DEF GeneratingInv, GeneratingOK
<1> QED BY <1>4, <1>8, <1>9

\* The worker writes the status, or fails to, and is done.
LEMMA UpdateStatusKeeps ==
    ASSUME GeneratingInv, NEW s \in Sets, UpdateStatus(s) \/ UpdateStatusFails(s)
    PROVE  GeneratingInv'
<1>1. ApplyOK /\ Owners /\ Workers /\ Linked /\ Rest /\ AgreeInv /\ PhaseInv
  BY DEF GeneratingInv, GeneratingOK
<1>2. /\ phase[s] = "status" /\ UNCHANGED <<applyVars, ownerCache, seen, unique, last, changes>>
      /\ faults' \in {faults, faults + 1}
      /\ \E err : Done(s, err) /\ err \in {failed[s], TRUE}
  BY DEF UpdateStatus, UpdateStatusFails, UpdateStatusLost, bounds
<1>3. /\ At(s, "idle", None, NoError, FALSE) /\ queued' \in [Sets -> BOOLEAN]
      /\ changes' \in Nat /\ faults' \in Nat
  <2>1. PICK err : Done(s, err) /\ err \in {failed[s], TRUE}
    BY <1>2
  <2>2. err \in BOOLEAN
    BY <1>1, <2>1 DEF Workers
  <2>3. At(s, "idle", None, NoError, FALSE) /\ queued' = [queued EXCEPT ![s] = @ \/ err]
    BY <2>1 DEF Done
  <2>4. queued' \in [Sets -> BOOLEAN]
    BY <1>1, <2>2, <2>3 DEF Rest
  <2>5. changes' \in Nat /\ faults' \in Nat
    BY <1>1, <1>2 DEF Rest
  <2> QED BY <2>3, <2>4, <2>5
<1>4. CASE \E o \in Owner : PutOwner(s, o)
  BY <1>2, <1>3, <1>4, OwnerWritten
<1>5. CASE UNCHANGED ownerVars
  <2>1. NoError \in Errors
    BY DEF Errors
  <2>2. /\ Workers' /\ phase'[s] = "idle" /\ obj'[s] = None
        /\ \A t \in Sets : t # s => phase'[t] = phase[t] /\ obj'[t] = obj[t]
    BY <1>1, <1>3, <2>1, AtKeeps
  <2>3. UNCHANGED <<server, cache, events, run>> /\ UNCHANGED <<owner, ownerEvents, version>>
    BY <1>2, <1>5 DEF applyVars, ownerVars
  <2>4. ApplyOK'
    BY <1>1, <2>3 DEF ApplyOK, Calls, Planned
  <2>5. Owners'
    BY <1>1, <1>2, <2>3 DEF Owners
  <2>6. Rest'
    BY <1>1, <1>2, <1>3 DEF Rest
  <2>7. Linked' /\ PhaseInv'
    BY <1>1, <1>2, <2>2, <2>3 DEF Linked, PhaseInv
  <2>8. \A t \in Sets : Versions(t)' \subseteq Versions(t)
    BY <1>2, <2>2, <2>3, VersionsOf
  <2>9. AgreeInv'
    BY <1>1, <1>2, <2>3, <2>8, AgreeKept DEF GeneratingOK
  <2> QED BY <2>2, <2>4, <2>5, <2>6, <2>7, <2>9 DEF GeneratingInv, GeneratingOK
<1>6. ASSUME owner[s] # None, PutOwner(s, [owner[s] EXCEPT !.conds = newStatus(s)])
      PROVE  \E o \in Owner : PutOwner(s, o)
  <2>1. obj[s] \in Owner /\ owner[s] \in Owner /\ outcome[s] \in Errors
    BY <1>1, <1>2, <1>6 DEF Linked, Workers, Owners
  <2>2. obj[s].conds \in Seq(Condition)
    BY <2>1 DEF Owner
  <2>3. newStatus(s) \in Seq(Condition)
    BY <2>1, <2>2, SetErrorType DEF newStatus
  <2>4. [owner[s] EXCEPT !.conds = newStatus(s)] \in Owner
    <3>1. PICK cs \in Seq(Condition) : cs = newStatus(s)
      BY <2>3
    <3>2. [owner[s] EXCEPT !.conds = cs] \in Owner
      BY <2>1 DEF Owner
    <3> QED BY <3>1, <3>2
  <2> QED BY <1>6, <2>4
<1>7. UNCHANGED ownerVars \/ (owner[s] # None /\ PutOwner(s, [owner[s] EXCEPT !.conds = newStatus(s)]))
  BY DEF UpdateStatus, UpdateStatusFails, UpdateStatusLost
<1> QED BY <1>4, <1>5, <1>6, <1>7

\* A crash: what is left is what the API server has, and nothing counts as applied.
LEMMA CrashKeeps ==
    ASSUME GeneratingInv, Crash
    PROVE  GeneratingInv'
<1>1. ApplyOK /\ Owners /\ Workers /\ Linked /\ Rest /\ AgreeInv /\ PhaseInv
  BY DEF GeneratingInv, GeneratingOK
<1>2. /\ run' = [s \in Sets |-> Idle] /\ cache' = server /\ events' = [k \in Keys |-> <<>>]
      /\ ownerCache' = owner /\ ownerEvents' = [s \in Sets |-> <<>>]
      /\ phase' = [s \in Sets |-> "idle"] /\ obj' = [s \in Sets |-> None]
      /\ outcome' = [s \in Sets |-> NoError] /\ failed' = [s \in Sets |-> FALSE]
      /\ seen' = [s \in Sets |-> 0] /\ UNCHANGED <<server, owner, version, unique, last, changes>>
      /\ faults' = faults + 1
  BY DEF Crash
<1>3. queued' \in [Sets -> BOOLEAN]
  BY GeneratingAssumption DEF Crash
<1>4. ApplyOK'
  <2>1. server \in [Keys -> Object \cup {None}]
    BY <1>1 DEF ApplyOK, Calls
  <2>2. <<>> \in Seq(Object \cup {None})
    OBVIOUS
  <2>3. events' \in [Keys -> Seq(Object \cup {None})]
    BY <1>2, <2>2
  <2>4. run' \in [Sets -> Run] /\ \A s \in Sets : run'[s] = Idle
    BY <1>2, IdleOK
  <2>5. \A s \in Sets : Planned(run'[s])
    BY <2>4, IdleOK
  <2> QED BY <1>2, <2>1, <2>3, <2>4, <2>5 DEF ApplyOK, Calls, Planned
<1>5. <<>> \in Seq(Owner \cup {None}) /\ NoError \in Errors
  BY DEF Errors
<1>6. Owners'
  BY <1>1, <1>2, <1>5 DEF Owners
<1>7. Workers'
  BY <1>2, <1>5 DEF Workers
<1>8. Linked' /\ PhaseInv'
  BY <1>2, IdleOK DEF Linked, PhaseInv
<1>9. Rest'
  BY <1>1, <1>2, <1>3 DEF Rest
<1>10. ASSUME NEW t \in Sets, NEW x \in Versions(t)' PROVE x \in Versions(t)
  <2>1. x \in Owner /\ x # None
    BY OwnerAssumption DEF Versions
  <2>2. \/ x = owner'[t] \/ x = ownerCache'[t] \/ x = obj'[t] \/ Among(x, ownerEvents'[t])
    BY DEF Versions, Among
  <2>3. ~Among(x, <<>>)
    BY DEF Among
  <2>4. obj'[t] = None /\ ownerEvents'[t] = <<>> /\ owner' = owner /\ ownerCache' = owner
    BY <1>2
  <2> QED BY <2>1, <2>2, <2>3, <2>4 DEF Versions
<1>11. AgreeInv'
  BY <1>1, <1>2, <1>10, AgreeMoves DEF GeneratingOK
<1> QED BY <1>4, <1>6, <1>7, <1>8, <1>9, <1>11 DEF GeneratingInv, GeneratingOK

-----------------------------------------------------------------------------
(* The theorems *)

\* It holds at first.
LEMMA GeneratingInit == Init => GeneratingInv
<1> HAVE Init
<1>1. /\ owner = [s \in Sets |-> None] /\ ownerEvents = [s \in Sets |-> <<>>]
      /\ ownerCache = [s \in Sets |-> None] /\ version = 0
      /\ queued = [s \in Sets |-> FALSE] /\ phase = [s \in Sets |-> "idle"]
      /\ obj = [s \in Sets |-> None] /\ outcome = [s \in Sets |-> NoError]
      /\ failed = [s \in Sets |-> FALSE] /\ seen = [s \in Sets |-> 0]
      /\ unique \in BOOLEAN /\ last = [s \in Sets |-> Empty] /\ changes = 0 /\ faults = 0
      /\ run = [s \in Sets |-> Idle]
  BY DEF Init, ApplyInit
<1>2. ApplyOK
  BY InitOK DEF Init
<1>3. <<>> \in Seq(Owner \cup {None}) /\ NoError \in Errors
  BY DEF Errors
<1>4. Owners
  BY <1>1, <1>3 DEF Owners
<1>5. Workers
  BY <1>1, <1>3 DEF Workers
<1>6. Linked /\ PhaseInv
  BY <1>1, IdleOK DEF Linked, PhaseInv
<1>7. Rest
  BY <1>1, IdleOK DEF Rest
<1>8. ASSUME NEW t \in Sets PROVE Versions(t) = {}
  <2>1. \A x : ~Among(x, <<>>)
    BY DEF Among
  <2> QED BY <1>1, <2>1, OwnerAssumption DEF Versions
<1>9. AgreeInv
  BY <1>1, <1>8 DEF AgreeInv, AgreeOn
<1> QED BY <1>2, <1>4, <1>5, <1>6, <1>7, <1>9 DEF GeneratingInv, GeneratingOK

\* Every step preserves it.
LEMMA GeneratingNext == GeneratingInv /\ [Next]_vars => GeneratingInv'
<1> SUFFICES ASSUME GeneratingInv, [Next]_vars PROVE GeneratingInv'
  OBVIOUS
<1>1. CASE Next
  BY <1>1, OwnerChangeKeeps, OwnerInformerKeeps, RemoveKeeps, HandleKeeps, ApplyStepKeeps,
     AppliedKeeps, UpdateStatusKeeps, ChildKeeps, CrashKeeps DEF Next
<1>2. CASE UNCHANGED vars
  <2>1. /\ UNCHANGED <<server, cache, events, run>>
        /\ UNCHANGED <<ownerVars, ownerCache, workerVars, seen, unique, last, queued, changes, faults>>
    BY <1>2 DEF vars, applyVars, bounds
  <2>2. ApplyOK' /\ queued \in [Sets -> BOOLEAN] /\ changes \in Nat /\ faults \in Nat
    BY <2>1 DEF GeneratingInv, GeneratingOK, Rest, ApplyOK, Calls, Planned
  <2> QED BY <2>1, <2>2, ApplyKeeps
<1> QED BY <1>1, <1>2

\* Every variable has its type; a worker that is past Remove's nil check has an
\* object, and Apply runs exactly while a worker waits for it (TypeOK).
THEOREM GeneratingTyped == Spec => []TypeOK
<1>1. GeneratingInv => TypeOK
  BY TypesOK DEF GeneratingInv, GeneratingOK, Owners, Workers, Linked, Rest, TypeOK
<1> QED BY <1>1, GeneratingInit, GeneratingNext, PTL DEF Spec

\* With UniqueApplyForResourceVersion a version is skipped only if what the
\* handler generates from it is what was applied last, without an error, whatever
\* was stale, lost or in flight, deleted and created again, or crashed in between
\* (isNewResourceVersion, storeResourceVersion, the clearing in Remove).
THEOREM SkippedWasApplied == Spec => []SkipsOnlyApplied
<1>1. GeneratingInv => SkipsOnlyApplied
  <2> SUFFICES ASSUME GeneratingInv, NEW s \in Sets, ownerCache[s] # None,
                      ~isNewResourceVersion(s, ownerCache[s])
               PROVE  last[s] = Generated[s][ownerCache[s].spec]
    BY DEF SkipsOnlyApplied
  <2>1. ownerCache[s] \in Versions(s)
    BY DEF Versions, GeneratingInv, GeneratingOK, Owners
  <2>2. unique /\ seen[s] = ownerCache[s].rv
    BY DEF isNewResourceVersion, GeneratingInv, GeneratingOK, Rest
  <2>3. AgreeOn(s, Versions(s), version, seen[s], last[s], unique)
    BY DEF GeneratingInv, AgreeInv
  <2> QED BY <2>1, <2>2, <2>3 DEF AgreeOn
<1> QED BY <1>1, GeneratingInit, GeneratingNext, PTL DEF Spec
=============================================================================
