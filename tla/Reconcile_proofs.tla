-------------------------- MODULE Reconcile_proofs --------------------------
(***************************************************************************)
(* What a call of Apply deletes, what it leaves to others, and what it     *)
(* leaves behind, for any number of sets, keys, versions, changes, faults. *)
(***************************************************************************)
EXTENDS Reconcile, Apply_proofs

-----------------------------------------------------------------------------
(* The steps *)

\* A step is one of a call, its beginning or its end, a version the informer
\* sees, someone else's write, or a change of mind.
Kinds ==
    \/ \E s \in Sets : /\ ApplyStep(s) \/ Start(s, want[s]) \/ Return(s) \/ Abort(s)
                       /\ want' = want
    \/ \E k \in Keys : Deliver(k) /\ want' = want
    \/ \E k \in Keys : Foreign(k)
    \/ \E s \in Sets : Change(s)

\* Every step of the specification is of one of the kinds.
LEMMA NextKinds == Next => Kinds /\ Observed
BY DEF Next, Kinds, ApplyStep, Call, Step, Finish, Fault, Informer

\* Someone else writes an object, leaves the annotation alone and the foreign
\* field once it has a value.
LEMMA ForeignWrites ==
    ASSUME ApplyOK, NEW k \in Keys, Foreign(k)
    PROVE  /\ UNCHANGED <<cache, run, want>>
           /\ \E o \in Object \cup {None} :
                /\ Put(k, o)
                /\ o # None => o.applied = IF server[k] = None THEN None ELSE server[k].applied
                /\ o # None /\ server[k] # None /\ server[k].data[ForeignField] # None =>
                     o.data[ForeignField] = server[k].data[ForeignField]
<1>1. UNCHANGED <<cache, run, want>>
  BY DEF Foreign
<1>2. server[k] \in Object \cup {None} /\ ForeignField \in Fields /\ Values # {}
  BY ReconcileAssumption DEF ApplyOK, Calls
<1> DEFINE d == [f \in Fields |-> IF f = ForeignField THEN None ELSE CHOOSE v \in Values : TRUE]
           n == [set |-> None, applied |-> None, data |-> d]
<1>3. CASE server[k] = None /\ Put(k, n)
  <2>1. (CHOOSE v \in Values : TRUE) \in Values
    BY <1>2
  <2>2. d \in Data
    BY <2>1 DEF Data
  <2> HIDE DEF d
  <2>3. n \in Object /\ n.applied = None
    BY <2>2 DEF Object
  <2> HIDE DEF n
  <2> QED BY <1>1, <1>3, <2>3
<1>4. CASE server[k] # None /\ Put(k, None)
  BY <1>1, <1>4
<1>5. ASSUME server[k] # None,
             NEW f \in Fields, NEW v \in Values \cup {None}, Put(k, [server[k] EXCEPT !.data[f] = v]),
             f = ForeignField => server[k].data[ForeignField] = None
      PROVE  \E o \in Object \cup {None} :
                /\ Put(k, o)
                /\ o # None => o.applied = IF server[k] = None THEN None ELSE server[k].applied
                /\ o # None /\ server[k] # None /\ server[k].data[ForeignField] # None =>
                     o.data[ForeignField] = server[k].data[ForeignField]
  <2> DEFINE p == server[k]
             o == [p EXCEPT !.data[f] = v]
  <2>1. p \in Object
    BY <1>2, <1>5
  <2> HIDE DEF p
  <2>2. p.data \in Data /\ p.set \in Sets \cup {None} /\ p.applied \in Annotation \cup {None}
    BY <2>1 DEF Object
  <2>3. [p.data EXCEPT ![f] = v] \in Data
        /\ \A h \in Fields : h # f => [p.data EXCEPT ![f] = v][h] = p.data[h]
    BY <2>2 DEF Data
  <2>4. o.data = [p.data EXCEPT ![f] = v] /\ o.applied = p.applied /\ o \in Object
    BY <2>1, <2>3 DEF Object
  <2>5. Put(k, o)
    BY <1>5 DEF p
  <2> HIDE DEF o
  <2> QED BY <1>2, <1>5, <2>3, <2>4, <2>5 DEF p
<1>6. \/ server[k] = None /\ Put(k, n)
      \/ server[k] # None /\ Put(k, None)
      \/ server[k] # None /\ \E v \in Values : /\ server[k].data[ForeignField] = None
                                               /\ Put(k, [server[k] EXCEPT !.data[ForeignField] = v])
      \/ server[k] # None /\ \E f \in Fields \ {ForeignField, Guarded} :
               Put(k, [server[k] EXCEPT !.data[f] = None])
  BY DEF Foreign
<1>7. CASE server[k] # None /\ \E v \in Values : /\ server[k].data[ForeignField] = None
                                                 /\ Put(k, [server[k] EXCEPT !.data[ForeignField] = v])
  BY <1>1, <1>2, <1>5, <1>7
<1>8. CASE server[k] # None /\ \E f \in Fields \ {ForeignField, Guarded} :
               Put(k, [server[k] EXCEPT !.data[f] = None])
  BY <1>1, <1>5, <1>8
<1> QED BY <1>3, <1>4, <1>6, <1>7, <1>8

-----------------------------------------------------------------------------
(* Types *)

\* The types of the variables, and the plan of every call.
ReconcileOK ==
    /\ ApplyOK
    /\ want \in [Sets -> DesiredSet]
    /\ exact \in [Sets -> BOOLEAN]

\* The types hold at first.
LEMMA ReconcileInit == Init => ReconcileOK
<1> HAVE Init
<1>1. ApplyOK
  BY InitOK DEF Init
<1>2. want \in [Sets -> DesiredSet]
  BY IdleOK DEF Init
<1> QED BY <1>1, <1>2 DEF Init, ReconcileOK

\* Every step keeps them.
LEMMA ReconcileNext == ReconcileOK /\ [Next]_vars => ReconcileOK'
<1> SUFFICES ASSUME ReconcileOK, [Next]_vars PROVE ReconcileOK'
  OBVIOUS
<1>1. ApplyOK /\ want \in [Sets -> DesiredSet] /\ exact \in [Sets -> BOOLEAN]
  BY DEF ReconcileOK
<1>2. CASE UNCHANGED vars
  BY <1>1, <1>2 DEF ReconcileOK, ApplyOK, Calls, Planned, vars, applyVars
<1>3. CASE Next
  <2>1. Kinds /\ Observed
    BY <1>3, NextKinds
  <2>2. exact' \in [Sets -> BOOLEAN]
    BY <2>1, <1>1 DEF Observed, StillExact
  <2>3. ASSUME NEW s \in Sets, ApplyStep(s) \/ Start(s, want[s]) \/ Return(s) \/ Abort(s)
        PROVE  ApplyOK'
    <3>1. want[s] \in DesiredSet
      BY <1>1
    <3> QED BY <1>1, <2>3, <3>1, StepKeeps, StartKeeps, EndKeeps
  <2>4. ASSUME NEW k \in Keys, Deliver(k) PROVE ApplyOK'
    BY <1>1, <2>4, DeliverKeeps
  <2>5. ASSUME NEW k \in Keys, Foreign(k) PROVE ApplyOK' /\ want' = want
    BY <1>1, <2>5, ForeignWrites, PutKeeps
  <2>6. ASSUME NEW s \in Sets, Change(s) PROVE ApplyOK' /\ want' \in [Sets -> DesiredSet]
    <3>1. ApplyOK'
      BY <1>1, <2>6 DEF Change, applyVars, ApplyOK, Calls, Planned
    <3>2. PICK w \in Wants[s] : want' = [want EXCEPT ![s] = w]
      BY <2>6 DEF Change
    <3>3. w \in DesiredSet
      BY <3>2, ReconcileAssumption
    <3> QED BY <1>1, <3>1, <3>2, <3>3
  <2> QED BY <1>1, <2>1, <2>2, <2>3, <2>4, <2>5, <2>6 DEF Kinds, ReconcileOK
<1> QED BY <1>2, <1>3

\* The queue and the bounds have their types.
LEMMA BookkeepingNext ==
    ASSUME queued \in [Sets -> BOOLEAN], changes \in Nat, faults \in Nat, run \in [Sets -> Run],
           [Next]_vars
    PROVE  queued' \in [Sets -> BOOLEAN] /\ changes' \in Nat /\ faults' \in Nat
<1>1. CASE UNCHANGED vars
  BY <1>1 DEF vars
<1>2. ASSUME NEW s \in Sets, Change(s) \/ Call(s) \/ Step(s) \/ Fault(s)
      PROVE  queued' \in [Sets -> BOOLEAN] /\ changes' \in Nat /\ faults' \in Nat
  <2>1. /\ queued' = queued \/ \E b \in BOOLEAN : queued' = [queued EXCEPT ![s] = b]
        /\ changes' \in {changes, changes + 1} /\ faults' \in {faults, faults + 1}
    BY <1>2 DEF Change, Call, Step, Fault
  <2> QED BY <2>1
<1>3. ASSUME NEW s \in Sets, Finish(s)
      PROVE  queued' \in [Sets -> BOOLEAN] /\ changes' \in Nat /\ faults' \in Nat
  <2>1. run[s].err \in BOOLEAN
    BY RunFields
  <2> QED BY <1>3, <2>1 DEF Finish
<1>4. ASSUME NEW k \in Keys, Informer(k)
      PROVE  queued' \in [Sets -> BOOLEAN] /\ changes' \in Nat /\ faults' \in Nat
  BY <1>4, ReconcileAssumption DEF Informer
<1>5. ASSUME NEW k \in Keys, Foreign(k)
      PROVE  queued' \in [Sets -> BOOLEAN] /\ changes' \in Nat /\ faults' \in Nat
  BY <1>5 DEF Foreign
<1> QED BY <1>1, <1>2, <1>3, <1>4, <1>5 DEF Next

\* Every variable has its type in every state, and a call creates, updates and
\* deletes only what it wants or has found (TypeOK, with WellFormed).
THEOREM ReconcileTyped == Spec => []TypeOK
<1> DEFINE TypeInv == /\ ReconcileOK /\ queued \in [Sets -> BOOLEAN]
                      /\ changes \in Nat /\ faults \in Nat
<1>1. Init => TypeInv
  BY ReconcileInit DEF Init
<1>2. TypeInv /\ [Next]_vars => TypeInv'
  <2> SUFFICES ASSUME TypeInv, [Next]_vars PROVE TypeInv'
    OBVIOUS
  <2>1. ReconcileOK'
    BY ReconcileNext
  <2>2. run \in [Sets -> Run]
    BY DEF ReconcileOK, ApplyOK, Calls
  <2>3. queued' \in [Sets -> BOOLEAN] /\ changes' \in Nat /\ faults' \in Nat
    BY <2>2, BookkeepingNext
  <2> QED BY <2>1, <2>3
<1>3. TypeInv => TypeOK
  BY TypesOK DEF ReconcileOK, TypeOK
<1> HIDE DEF TypeInv
<1> QED BY <1>1, <1>2, <1>3, PTL DEF Spec

-----------------------------------------------------------------------------
(* What a call deletes *)

\* A step of a call that makes an object go away deletes one the call does
\* not want and may delete, or replaces one.
LEMMA DeletesOf ==
    ASSUME ApplyOK, NEW s \in Sets, ApplyStep(s), NEW k \in Keys,
           server[k] # None, server'[k] = None
    PROVE  IF run[s].objs[k] = None
           THEN run[s].gvk \notin NoDelete /\ k \notin NoPrune
           ELSE /\ run[s].existing[k] # None
                /\ mustReplace(run[s].existing[k], run[s].objs[k].data)
<1> DEFINE r == run[s]
<1>1. /\ r \in Run /\ Planned(r) /\ server \in [Keys -> Object \cup {None}]
      /\ events \in [Keys -> Seq(Object \cup {None})]
  BY DEF ApplyOK, Calls
<1>2. Writes(s, r)
  BY StepKeeps, OutcomeWrites
<1> HIDE DEF r
<1>3. /\ r.create \in Seq(Keys) /\ r.update \in Seq(Keys) /\ r.delete \in Seq(Keys)
  BY <1>1, RunFields
<1>4. ASSUME NEW j \in Keys, NEW o, Put(j, o)
      PROVE  j = k /\ o = None
  BY <1>1, <1>4 DEF Put
<1>5. CASE NoPut
  BY <1>5 DEF NoPut
<1>6. CASE r.create # <<>> /\ Put(Head(r.create), created(s, r.objs[Head(r.create)].data))
           /\ server[Head(r.create)] = None
  BY <1>3, <1>4, <1>6
<1>7. CASE r.update # <<>> /\ Replaces(r)
  <2>1. Head(r.update) \in Keys /\ r.objs[Head(r.update)] # None /\ r.existing[Head(r.update)] # None
    BY <1>1, <1>3, <1>7, AmongRules DEF Planned
  <2>2. k = Head(r.update)
    BY <1>4, <1>7, <2>1 DEF Replaces, NoPut
  <2> QED BY <1>7, <2>1, <2>2 DEF Replaces, r
<1>8. CASE r.update # <<>> /\ Patches(s, r)
  <2> DEFINE j == Head(r.update)
             new == patched(s, r.existing[j], r.objs[j].data, server[j])
  <2>1. j \in Keys /\ Put(j, new)
    BY <1>3, <1>8 DEF Patches
  <2>2. j \in Keys /\ r.objs[j] # None /\ r.existing[j] # None /\ server[j] # None
    BY <1>1, <1>3, <1>8, AmongRules DEF Planned, Patches
  <2>3. r.existing[j] \in Object /\ r.objs[j].data \in Data /\ server[j] \in Object
    BY <1>1, <2>2 DEF Run, DesiredSet, Desired
  <2>4. new \in Object
    BY <2>3, ObjectTypes
  <2> HIDE DEF new, j
  <2>5. new = None
    BY <1>4, <2>1
  <2> QED BY <2>4, <2>5, ApplyAssumption
<1>9. CASE r.delete # <<>> /\ r.gvk \notin NoDelete /\ Put(Head(r.delete), None)
  <2>1. Head(r.delete) \in Keys /\ r.objs[Head(r.delete)] = None /\ Head(r.delete) \notin NoPrune
    BY <1>1, <1>3, <1>9, AmongRules DEF Planned
  <2>2. k = Head(r.delete)
    BY <1>4, <1>9, <2>1
  <2> QED BY <1>9, <2>1, <2>2 DEF r
<1> QED BY <1>2, <1>5, <1>6, <1>7, <1>8, <1>9 DEF Writes

\* No call deletes an object it wants, except to replace one whose guarded
\* field it must change, and none of a GVK that must not be deleted or that is
\* labelled prune=false, whatever it listed, lost or met on the way
\* (filterCrossVersion, shouldPrune, delete, updateF).
THEOREM DeletesAreJustified == Spec => DeletesJustified
<1> DEFINE A == \A s \in Sets : \A k \in Keys :
                  run'[s] # run[s] /\ server[k] # None /\ server'[k] = None =>
                    IF run[s].objs[k] = None
                    THEN run[s].gvk \notin NoDelete /\ k \notin NoPrune
                    ELSE /\ run[s].existing[k] # None
                         /\ mustReplace(run[s].existing[k], run[s].objs[k].data)
<1>1. ReconcileOK /\ [Next]_vars => [A]_vars
  <2> SUFFICES ASSUME ReconcileOK, Next, NEW s \in Sets, NEW k \in Keys,
                      run'[s] # run[s], server[k] # None, server'[k] = None
               PROVE  ApplyStep(s)
    BY DeletesOf DEF ReconcileOK
  <2>1. ApplyOK /\ \A t \in Sets : want[t] \in DesiredSet
    BY DEF ReconcileOK
  <2>2. Kinds
    BY NextKinds
  <2>3. ASSUME NEW t \in Sets, Start(t, want[t]) \/ Return(t) \/ Abort(t) PROVE FALSE
    BY <2>3 DEF Start, Return, Abort
  <2>4. ASSUME NEW t \in Sets, ApplyStep(t) PROVE t = s
    BY <2>1, <2>4, StepKeeps
  <2>5. ASSUME NEW j \in Keys, Deliver(j) PROVE FALSE
    BY <2>5 DEF Deliver
  <2>6. ASSUME NEW j \in Keys, Foreign(j) PROVE FALSE
    BY <2>6 DEF Foreign
  <2>7. ASSUME NEW t \in Sets, Change(t) PROVE FALSE
    BY <2>7 DEF Change, applyVars
  <2> QED BY <2>2, <2>3, <2>4, <2>5, <2>6, <2>7 DEF Kinds
<1> HIDE DEF A
<1>2. Spec => [][A]_vars
  BY <1>1, ReconcileInit, ReconcileNext, PTL DEF Spec
<1> QED BY <1>2 DEF A, DeletesJustified

-----------------------------------------------------------------------------
(* Foreign fields *)

\* No annotation and no desired state has the foreign field.
CleanObject == {o \in Object : o.applied # None => o.applied.data[ForeignField] = None}
CleanSet == {w \in DesiredSet : \A k \in Keys : w[k] # None => w[k].data[ForeignField] = None}
\* The inductive invariant: nothing that calls see or bring has it.
CleanInv ==
    /\ server \in [Keys -> CleanObject \cup {None}]
    /\ cache \in [Keys -> CleanObject \cup {None}]
    /\ events \in [Keys -> Seq(CleanObject \cup {None})]
    /\ \A s \in Sets : /\ want[s] \in CleanSet
                       /\ run[s].objs \in CleanSet
                       /\ run[s].existing \in [Keys -> CleanObject \cup {None}]

\* Where a call has the existing objects from: a list, or the server.
LEMMA OutcomeExisting ==
    ASSUME NEW s, NEW r \in Run, NEW q, Outcome(s, r, q)
    PROVE  \/ q.existing = r.existing
           \/ \E g : q.existing = list(s, g)
           \/ \E k \in Keys : server[k] # None /\ q.existing = [r.existing EXCEPT ![k] = server[k]]
<1>1. r.create \in Seq(Keys)
  BY RunFields
<1>2. CASE Lists(s, r, q)
  <2>1. PICK g : q.existing = list(s, g)
    BY <1>2 DEF Lists, Is
  <2> QED BY <2>1
<1>3. CASE Finds(r, q)
  <2> DEFINE k == Head(r.create)
  <2>1. k \in Keys /\ server[k] # None /\ q.existing = [r.existing EXCEPT ![k] = server[k]]
    BY <1>1, <1>3 DEF Finds, Is
  <2> QED BY <2>1
<1>4. CASE ~Lists(s, r, q) /\ ~Finds(r, q)
  BY <1>4 DEF Outcome, GivesUp, Creates, Meets, Updates, Deletes, Drops, Is
<1> QED BY <1>2, <1>3, <1>4

\* The objects a call writes are clean, and a patch leaves the field alone.
LEMMA CleanWrites ==
    ASSUME NEW s \in Sets, NEW data \in Data, data[ForeignField] = None,
           NEW o \in CleanObject, NEW target \in CleanObject
    PROVE  /\ created(s, data) \in CleanObject
           /\ patched(s, o, data, target) \in CleanObject
           /\ patched(s, o, data, target).data[ForeignField] = target.data[ForeignField]
<1>1. ForeignField \in Fields
  BY ReconcileAssumption
<1>2. o \in Object /\ target \in Object /\ original(o)[ForeignField] = None
  BY <1>1 DEF CleanObject, original
<1>3. created(s, data) \in Object /\ patched(s, o, data, target) \in Object
  BY <1>2, ObjectTypes
<1>4. created(s, data).applied.data[ForeignField] = None
  BY DEF created, annotation
<1>5. annotation(s, data).data[ForeignField] = None
  BY DEF annotation
<1>6. \/ patched(s, o, data, target).applied = annotation(s, data)
      \/ patched(s, o, data, target).applied = target.applied
  BY DEF patched
<1>7. ForeignField \notin changed(o, data)
  BY <1>2 DEF changed
<1>8. patched(s, o, data, target).data[ForeignField] = target.data[ForeignField]
  BY <1>1, <1>7 DEF patched
<1> QED BY <1>3, <1>4, <1>5, <1>6, <1>8 DEF CleanObject

\* A write of such an object leaves only such objects.
LEMMA PutClean ==
    ASSUME NEW k \in Keys, NEW o \in CleanObject \cup {None}, Put(k, o),
           server \in [Keys -> CleanObject \cup {None}],
           events \in [Keys -> Seq(CleanObject \cup {None})]
    PROVE  /\ server' \in [Keys -> CleanObject \cup {None}]
           /\ events' \in [Keys -> Seq(CleanObject \cup {None})]
           /\ server'[k] = o /\ \A j \in Keys : j # k => server'[j] = server[j]
BY DEF Put

\* A step of a call keeps everything clean and the foreign field as it is.
LEMMA StepClean ==
    ASSUME ReconcileOK, CleanInv, NEW s \in Sets, ApplyStep(s), want' = want
    PROVE  /\ CleanInv'
           /\ \A k \in Keys : server[k] # None /\ server'[k] # None =>
                server'[k].data[ForeignField] = server[k].data[ForeignField]
<1> DEFINE r == run[s]
<1>1. /\ r \in Run /\ Planned(r) /\ ApplyOK /\ cache' = cache
      /\ Outcome(s, r, run'[s]) /\ run'[s].objs = r.objs
      /\ \A t \in Sets : t # s => run'[t] = run[t]
  BY StepKeeps DEF ReconcileOK, ApplyOK, Calls
<1>2. /\ server \in [Keys -> CleanObject \cup {None}]
      /\ cache \in [Keys -> CleanObject \cup {None}]
      /\ events \in [Keys -> Seq(CleanObject \cup {None})]
      /\ r.objs \in CleanSet /\ r.existing \in [Keys -> CleanObject \cup {None}]
  BY DEF CleanInv
<1> HIDE DEF r
<1>3. r.create \in Seq(Keys) /\ r.update \in Seq(Keys) /\ r.delete \in Seq(Keys)
  BY <1>1, RunFields
<1>4. ASSUME NEW k \in Keys, r.objs[k] # None
      PROVE  r.objs[k].data \in Data /\ r.objs[k].data[ForeignField] = None
  BY <1>2, <1>4 DEF CleanSet, DesiredSet, Desired
<1>5. /\ server' \in [Keys -> CleanObject \cup {None}]
      /\ events' \in [Keys -> Seq(CleanObject \cup {None})]
      /\ \A k \in Keys : server[k] # None /\ server'[k] # None =>
           server'[k].data[ForeignField] = server[k].data[ForeignField]
  <2>1. Writes(s, r)
    BY <1>1, OutcomeWrites
  <2>2. CASE NoPut
    BY <1>2, <2>2 DEF NoPut
  <2>3. CASE r.create # <<>> /\ Put(Head(r.create), created(s, r.objs[Head(r.create)].data))
             /\ server[Head(r.create)] = None
    <3> DEFINE k == Head(r.create)
               new == created(s, r.objs[k].data)
    <3>1. k \in Keys /\ r.objs[k] # None
      BY <1>1, <1>3, <2>3, AmongRules DEF Planned
    <3>2. new \in CleanObject
      <4>1. r.objs[k].data \in Data /\ r.objs[k].data[ForeignField] = None
        BY <1>4, <3>1
      <4>2. created(s, r.objs[k].data) \in Object
        BY <4>1 DEF created, annotation, Object, Annotation
      <4>3. created(s, r.objs[k].data).applied.data[ForeignField] = None
        BY <4>1 DEF created, annotation
      <4> QED BY <4>2, <4>3 DEF CleanObject
    <3>3. Put(k, new)
      BY <2>3
    <3> HIDE DEF new, k
    <3>4. server[k] = None
      BY <2>3 DEF k
    <3> QED BY <1>2, <3>1, <3>2, <3>3, <3>4, PutClean
  <2>4. CASE r.update # <<>> /\ Replaces(r)
    <3>1. Head(r.update) \in Keys
      BY <1>3, <2>4
    <3>2. NoPut \/ Put(Head(r.update), None)
      BY <2>4 DEF Replaces
    <3> QED BY <1>2, <3>1, <3>2, <2>2, PutClean
  <2>5. CASE r.update # <<>> /\ Patches(s, r)
    <3> DEFINE k == Head(r.update)
               new == patched(s, r.existing[k], r.objs[k].data, server[k])
    <3>1. k \in Keys /\ r.objs[k] # None /\ r.existing[k] # None /\ server[k] # None
      BY <1>1, <1>3, <2>5, AmongRules DEF Planned, Patches
    <3>2. /\ r.existing[k] \in CleanObject /\ server[k] \in CleanObject
          /\ r.objs[k].data \in Data /\ r.objs[k].data[ForeignField] = None
      BY <1>2, <1>4, <3>1
    <3>3. new \in CleanObject /\ new.data[ForeignField] = server[k].data[ForeignField]
      BY <3>2, CleanWrites
    <3>4. Put(k, new)
      BY <2>5 DEF Patches
    <3> HIDE DEF new, k
    <3> QED BY <1>2, <3>1, <3>3, <3>4, PutClean
  <2>6. CASE r.delete # <<>> /\ Put(Head(r.delete), None)
    <3>1. Head(r.delete) \in Keys
      BY <1>3, <2>6
    <3> QED BY <1>2, <2>6, <3>1, PutClean
  <2> QED BY <2>1, <2>2, <2>3, <2>4, <2>5, <2>6 DEF Writes
<1>6. run'[s].existing \in [Keys -> CleanObject \cup {None}]
  <2>1. \A g : list(s, g) \in [Keys -> CleanObject \cup {None}]
    BY <1>2 DEF list
  <2>2. \A k \in Keys : server[k] # None =>
           [r.existing EXCEPT ![k] = server[k]] \in [Keys -> CleanObject \cup {None}]
    BY <1>2
  <2>3. PICK q : q = run'[s]
    OBVIOUS
  <2>4. \/ q.existing = r.existing
        \/ \E g : q.existing = list(s, g)
        \/ \E k \in Keys : server[k] # None /\ q.existing = [r.existing EXCEPT ![k] = server[k]]
    BY <1>1, <2>3, OutcomeExisting
  <2> DEFINE T == [Keys -> CleanObject \cup {None}]
             E(k) == [r.existing EXCEPT ![k] = server[k]]
  <2>5. r.existing \in T /\ (\A g : list(s, g) \in T) /\ \A k \in Keys : server[k] # None => E(k) \in T
    BY <1>2, <2>1, <2>2
  <2>6. \/ q.existing = r.existing \/ (\E g : q.existing = list(s, g))
        \/ \E k \in Keys : server[k] # None /\ q.existing = E(k)
    BY <2>4
  <2>7. q.existing \in T
    <3> HIDE DEF T, E
    <3> QED BY <2>5, <2>6
  <2> QED BY <2>3, <2>7
<1>7. \A t \in Sets : /\ want'[t] \in CleanSet /\ run'[t].objs \in CleanSet
                      /\ run'[t].existing \in [Keys -> CleanObject \cup {None}]
  BY <1>1, <1>2, <1>6 DEF CleanInv
<1>8. CleanInv'
  BY <1>1, <1>2, <1>5, <1>7 DEF CleanInv
<1> QED BY <1>5, <1>8

\* It holds at first.
LEMMA CleanInit == Init => CleanInv
<1> HAVE Init
<1>1. /\ server = Empty /\ cache = Empty /\ events = [k \in Keys |-> <<>>]
      /\ run = [s \in Sets |-> Idle] /\ want \in [Sets -> {Empty}]
  BY DEF Init, ApplyInit
<1>2. Empty \in [Keys -> CleanObject \cup {None}] /\ <<>> \in Seq(CleanObject \cup {None})
      /\ Empty \in CleanSet
  BY IdleOK DEF Empty, CleanSet
<1>3. Idle.objs = Empty /\ Idle.existing = Empty
  BY DEF Idle
<1>4. /\ server \in [Keys -> CleanObject \cup {None}] /\ cache \in [Keys -> CleanObject \cup {None}]
      /\ events \in [Keys -> Seq(CleanObject \cup {None})]
  BY <1>1, <1>2
<1>5. ASSUME NEW s \in Sets PROVE run[s] = Idle /\ want[s] = Empty
  BY <1>1
<1> QED BY <1>2, <1>3, <1>4, <1>5 DEF CleanInv

\* The steps keep everything clean, and the foreign field.
LEMMA CleanNext ==
    ASSUME ReconcileOK, CleanInv, Next
    PROVE  /\ CleanInv'
           /\ \A k \in Keys : /\ server[k] # None /\ server'[k] # None
                              /\ server[k].data[ForeignField] # None
                              => server'[k].data[ForeignField] = server[k].data[ForeignField]
<1>1. ApplyOK /\ want \in [Sets -> DesiredSet]
  BY DEF ReconcileOK
<1>2. Kinds
  BY NextKinds
<1>3. ASSUME NEW s \in Sets, ApplyStep(s), want' = want
      PROVE  /\ CleanInv'
             /\ \A k \in Keys : server[k] # None /\ server'[k] # None =>
                  server'[k].data[ForeignField] = server[k].data[ForeignField]
  BY <1>3, StepClean
<1>4. ASSUME NEW s \in Sets, Start(s, want[s]) \/ Return(s) \/ Abort(s), want' = want
      PROVE  CleanInv' /\ server' = server
  <2>1. want[s] \in DesiredSet
    BY <1>1
  <2>2. /\ UNCHANGED <<server, cache, events>> /\ \A t \in Sets : t # s => run'[t] = run[t]
        /\ run'[s].objs \in {want[s], Empty} /\ run'[s].existing = Empty
    <3>1. CASE Start(s, want[s])
      BY <1>1, <2>1, <3>1, StartKeeps DEF Is
    <3>2. CASE Return(s) \/ Abort(s)
      <4>1. Idle.objs = Empty /\ Idle.existing = Empty
        BY DEF Idle
      <4> QED BY <1>1, <3>2, <4>1, EndKeeps
    <3> QED BY <1>4, <3>1, <3>2
  <2>3. Empty \in [Keys -> CleanObject \cup {None}] /\ Empty \in CleanSet
    BY IdleOK DEF Empty, CleanSet
  <2> QED BY <1>4, <2>2, <2>3 DEF CleanInv
<1>5. ASSUME NEW k \in Keys, Deliver(k), want' = want
      PROVE  CleanInv' /\ server' = server
  <2>1. /\ cache' = [cache EXCEPT ![k] = Head(events[k])]
        /\ events' = [events EXCEPT ![k] = Tail(@)]
        /\ events[k] # <<>> /\ UNCHANGED <<server, run, want>>
    BY <1>5 DEF Deliver
  <2>2. /\ cache \in [Keys -> CleanObject \cup {None}]
        /\ events \in [Keys -> Seq(CleanObject \cup {None})]
    BY DEF CleanInv
  <2>3. Head(events[k]) \in CleanObject \cup {None} /\ Tail(events[k]) \in Seq(CleanObject \cup {None})
    <3>1. events[k] \in Seq(CleanObject \cup {None})
      BY <2>2
    <3> QED BY <2>1, <3>1
  <2>4. /\ cache' \in [Keys -> CleanObject \cup {None}]
        /\ events' \in [Keys -> Seq(CleanObject \cup {None})]
    BY <2>1, <2>2, <2>3
  <2> QED BY <2>1, <2>4 DEF CleanInv
<1>6. ASSUME NEW k \in Keys, Foreign(k)
      PROVE  /\ CleanInv'
             /\ \A j \in Keys : /\ server[j] # None /\ server'[j] # None
                                /\ server[j].data[ForeignField] # None
                                => server'[j].data[ForeignField] = server[j].data[ForeignField]
  <2>1. PICK o \in Object \cup {None} :
                /\ Put(k, o)
                /\ o # None => o.applied = IF server[k] = None THEN None ELSE server[k].applied
                /\ o # None /\ server[k] # None /\ server[k].data[ForeignField] # None =>
                     o.data[ForeignField] = server[k].data[ForeignField]
    BY <1>1, <1>6, ForeignWrites
  <2>2. UNCHANGED <<cache, run, want>>
    BY <1>1, <1>6, ForeignWrites
  <2>3. o \in CleanObject \cup {None}
    BY <2>1 DEF CleanInv, CleanObject
  <2>4. /\ server' \in [Keys -> CleanObject \cup {None}]
        /\ events' \in [Keys -> Seq(CleanObject \cup {None})]
        /\ server'[k] = o /\ \A j \in Keys : j # k => server'[j] = server[j]
    BY <2>1, <2>3, PutClean DEF CleanInv
  <2> QED BY <2>1, <2>2, <2>4 DEF CleanInv
<1>7. ASSUME NEW s \in Sets, Change(s)
      PROVE  CleanInv' /\ server' = server
  <2>1. PICK w \in Wants[s] : want' = [want EXCEPT ![s] = w]
    BY <1>7 DEF Change
  <2>2. w \in CleanSet
    BY <2>1, ReconcileAssumption DEF CleanSet
  <2>3. UNCHANGED <<server, cache, events, run>>
    BY <1>7 DEF Change, applyVars
  <2>4. \A t \in Sets : want'[t] \in CleanSet
    BY <1>1, <2>1, <2>2 DEF CleanInv
  <2> QED BY <2>3, <2>4 DEF CleanInv
<1> QED BY <1>2, <1>3, <1>4, <1>5, <1>6, <1>7 DEF Kinds

\* A field that no owner ever wanted keeps the value another writer gave it
\* for as long as the object lives, whatever stale object a patch was computed
\* from (doPatch's three-way merge).
THEOREM ForeignFieldIsKept == Spec => ForeignFieldKept
<1> DEFINE A == \A k \in Keys :
                  /\ server[k] # None /\ server'[k] # None
                  /\ server[k].data[ForeignField] # None
                  => server'[k].data[ForeignField] = server[k].data[ForeignField]
<1>1. ReconcileOK /\ CleanInv /\ [Next]_vars => CleanInv' /\ [A]_vars
  <2> SUFFICES ASSUME ReconcileOK, CleanInv, [Next]_vars PROVE CleanInv' /\ [A]_vars
    OBVIOUS
  <2>1. CASE UNCHANGED vars
    BY <2>1 DEF CleanInv, vars, applyVars
  <2>2. CASE Next
    BY <2>2, CleanNext
  <2> QED BY <2>1, <2>2
<1> HIDE DEF A
<1>2. Spec => [][A]_vars
  BY <1>1, CleanInit, ReconcileInit, ReconcileNext, PTL DEF Spec
<1> QED BY <1>2 DEF A, ForeignFieldKept

-----------------------------------------------------------------------------
(* What a call leaves behind *)

\* o is in the set and has the fields of data.
Has(s, data, o) ==
    /\ o # None /\ o.set = s
    /\ \A f \in Fields : data[f] # None => o.data[f] = data[f]

\* Every wanted object is still to be dealt with or as it should be, and what
\* an update starts from is what the server holds or does no harm.
WantedOK(s, r, srv) ==
    \A k \in Keys : r.objs[k] # None =>
      /\ \/ r.objs[k].gvk \in r.left
         \/ Among(k, r.create)
         \/ Among(k, r.update)
         \/ Has(s, r.objs[k].data, srv[k])
      /\ Among(k, r.update) => r.existing[k] = srv[k] \/ Has(s, r.objs[k].data, srv[k])
\* Every other object of the set is still to be listed or deleted, or gone,
\* for each version of its kind that may be deleted.
UnwantedOK(s, r, srv) ==
    \A k \in Keys : r.objs[k] = None /\ k \notin NoPrune =>
      \A g \in (Known \cup DesiredGVKs(r.objs)) \ NoDelete : GK[g] = GK[k] =>
         \/ g \in r.left
         \/ g = r.gvk /\ Among(k, r.delete)
         \/ srv[k] = None
         \/ srv[k].set # s

\* The inductive invariant: both, for a call nobody has disturbed.
ExactInv ==
    \A s \in Sets : exact[s] /\ run[s].pc # "idle" /\ ~run[s].err =>
                      WantedOK(s, run[s], server) /\ UnwantedOK(s, run[s], server)

\* An object has the wanted fields once created, found so, or patched from the
\* state the server holds; a patch from an older state does not take them away.
LEMMA GetsFields ==
    ASSUME NEW s \in Sets, NEW data \in Data
    PROVE  /\ Has(s, data, created(s, data))
           /\ \A o, target \in Object : o = target \/ Has(s, data, target) =>
                /\ Has(s, data, patched(s, o, data, target))
                /\ NoPatch(s, o, data) => Has(s, data, target)
<1>1. None \notin Object
  BY ApplyAssumption
<1>2. Has(s, data, created(s, data))
  <2>1. created(s, data) \in Object
    BY DEF created, annotation, Object, Annotation
  <2>2. created(s, data).set = s /\ created(s, data).data = data
    BY DEF created
  <2> HIDE DEF created
  <2> QED BY <1>1, <2>1, <2>2 DEF Has
<1>3. ASSUME NEW o \in Object, NEW target \in Object, o = target \/ Has(s, data, target)
      PROVE  /\ Has(s, data, patched(s, o, data, target))
             /\ NoPatch(s, o, data) => Has(s, data, target)
  <2> DEFINE p == patched(s, o, data, target)
  <2>1. p \in Object
    BY ObjectTypes
  <2>2. p.set = s
    BY <1>3 DEF patched, Has
  <2>3. ASSUME NEW f \in Fields, data[f] # None PROVE p.data[f] = data[f]
    <3>1. p.data[f] = IF f \in changed(o, data) THEN data[f] ELSE target.data[f]
      BY DEF patched
    <3>2. f \notin changed(o, data) => target.data[f] = data[f]
      BY <1>3, <2>3 DEF changed, Has
    <3> QED BY <3>1, <3>2
  <2>4. Has(s, data, p)
    <3> HIDE DEF p
    <3> QED BY <1>1, <2>1, <2>2, <2>3 DEF Has
  <2>5. ASSUME NoPatch(s, o, data) PROVE Has(s, data, target)
    <3>1. o.set = s /\ \A f \in Fields : data[f] # None => o.data[f] = data[f]
      BY <2>5 DEF NoPatch, changed
    <3> QED BY <1>1, <1>3, <3>1 DEF Has
  <2> QED BY <2>4, <2>5
<1> QED BY <1>2, <1>3

\* An error stays.
LEMMA ErrStays ==
    ASSUME NEW s, NEW r \in Run, NEW q, Outcome(s, r, q), ~q.err
    PROVE  ~r.err
<1>1. r.err \in BOOLEAN
  BY RunFields
<1>2. CASE Updates(s, r, q)
  BY <1>1, <1>2 DEF Updates, Is
<1>3. CASE ~Updates(s, r, q)
  BY <1>1, <1>3 DEF Outcome, GivesUp, Lists, Creates, Meets, Finds, Deletes, Drops, Is
<1> QED BY <1>2, <1>3

\* A step of a call that meets no error and lists what the server holds.
LEMMA StepMatches ==
    ASSUME ApplyOK, NEW s \in Sets, NEW r \in Run, Planned(r), NEW q \in Run, Outcome(s, r, q), ~q.err,
           q.left # r.left => \A k \in Keys : cache[k] = server[k],
           WantedOK(s, r, server), UnwantedOK(s, r, server)
    PROVE  WantedOK(s, q, server') /\ UnwantedOK(s, q, server')
<1>1. /\ r.create \in Seq(Keys) /\ r.update \in Seq(Keys) /\ r.delete \in Seq(Keys)
      /\ r.existing \in [Keys -> Object \cup {None}] /\ r.objs \in DesiredSet
      /\ server \in [Keys -> Object \cup {None}]
      /\ events \in [Keys -> Seq(Object \cup {None})]
  BY RunFields DEF ApplyOK, Calls
<1>2. \A k : ~Among(k, <<>>)
  BY DEF Among
<1>3. ASSUME NEW u \in Seq(Keys), u # <<>>
      PROVE  /\ Head(u) \in Keys /\ Among(Head(u), u)
             /\ \A k : Among(k, Tail(u)) => Among(k, u)
             /\ \A k : Among(k, u) => k = Head(u) \/ Among(k, Tail(u))
  BY <1>3, AmongRules
<1>4. ASSUME NEW k \in Keys, r.objs[k] # None PROVE r.objs[k].data \in Data
  BY <1>1, <1>4 DEF DesiredSet, Desired
<1>5. ASSUME NEW k \in Keys, NEW o, Put(k, o)
      PROVE  server'[k] = o /\ \A j \in Keys : j # k => server'[j] = server[j]
  BY <1>1, <1>5 DEF Put
<1>6. NoPut => server' = server
  BY DEF NoPut
<1>7. CASE GivesUp(r, q) \/ Drops(r, q)
  BY <1>7 DEF GivesUp, Drops, Is
<1>8. CASE Lists(s, r, q)
  <2>1. PICK g \in r.left :
         LET old == list(s, g)
         IN  Is(q, "apply", r.objs, r.left \ {g}, g, old, Sorted(toCreate(r.objs, g, old)),
                Sorted(toUpdate(r.objs, g, old)), Sorted(toDelete(r.objs, g, old)), r.err)
    BY <1>8 DEF Lists
  <2> DEFINE old == list(s, g)
             a == toCreate(r.objs, g, old)
             b == toUpdate(r.objs, g, old)
             c == toDelete(r.objs, g, old)
  <2>2. /\ q.objs = r.objs /\ q.left = r.left \ {g} /\ q.gvk = g /\ q.existing = old
        /\ q.create = Sorted(a) /\ q.update = Sorted(b) /\ q.delete = Sorted(c)
        /\ server' = server
    BY <1>6, <1>8, <2>1 DEF Lists, Is
  <2>3. \A k \in Keys : cache[k] = server[k]
    BY <2>1, <2>2
  <2>4. \A k \in Keys : old[k] = IF GK[k] = GK[g] /\ server[k] # None /\ server[k].set = s
                                 THEN server[k] ELSE None
    BY <2>3 DEF list
  <2> HIDE DEF old
  <2>5. a \in SUBSET Keys /\ b \in SUBSET Keys /\ c \in SUBSET Keys
    BY DEF toCreate, toUpdate, toDelete
  <2>6. /\ \A k \in Keys : r.objs[k] # None /\ r.objs[k].gvk = g => k \in a \/ k \in b
        /\ \A k \in b : old[k] # None
        /\ \A k \in Keys : r.objs[k] = None /\ k \notin NoPrune /\ old[k] # None => k \in c
    BY DEF toCreate, toUpdate, toDelete
  <2> HIDE DEF a, b, c
  <2>7. /\ \A k : Among(k, Sorted(a)) <=> k \in a
        /\ \A k : Among(k, Sorted(b)) <=> k \in b
        /\ \A k : Among(k, Sorted(c)) <=> k \in c
    BY <2>5, SortedElements
  <2>8. r.create = <<>> /\ r.update = <<>> /\ r.delete = <<>>
    BY <1>8 DEF Lists
  <2>9. WantedOK(s, q, server)
    BY <1>2, <2>2, <2>4, <2>6, <2>7, <2>8 DEF WantedOK
  <2>10. UnwantedOK(s, q, server)
    BY <1>2, <2>2, <2>4, <2>6, <2>7, <2>8 DEF UnwantedOK
  <2> QED BY <2>2, <2>9, <2>10
<1>9. CASE Creates(s, r, q)
  <2> DEFINE k == Head(r.create)
  <2>1. /\ q.objs = r.objs /\ q.left = r.left /\ q.gvk = r.gvk /\ q.existing = r.existing
        /\ q.create = Tail(r.create) /\ q.update = r.update /\ q.delete = r.delete
        /\ r.create # <<>> /\ Put(k, created(s, r.objs[k].data))
    BY <1>9 DEF Creates, Is
  <2>2. k \in Keys /\ r.objs[k] # None /\ \A j : Among(j, r.create) => j = k \/ Among(j, q.create)
    BY <1>1, <1>3, <2>1 DEF Planned
  <2>3. /\ server'[k] = created(s, r.objs[k].data)
        /\ \A j \in Keys : j # k => server'[j] = server[j]
    BY <1>5, <2>1, <2>2
  <2>4. Has(s, r.objs[k].data, server'[k])
    BY <1>4, <2>2, <2>3, GetsFields
  <2> HIDE DEF k
  <2>5. WantedOK(s, q, server')
    BY <2>1, <2>2, <2>3, <2>4 DEF WantedOK
  <2>6. UnwantedOK(s, q, server')
    BY <2>1, <2>2, <2>3 DEF UnwantedOK
  <2> QED BY <2>5, <2>6
<1>10. CASE Meets(r, q)
  <2>1. /\ q.objs = r.objs /\ q.left = r.left /\ q.gvk = r.gvk /\ q.existing = r.existing
        /\ q.create = r.create /\ q.update = r.update /\ q.delete = r.delete
        /\ server' = server
    BY <1>6, <1>10 DEF Meets, Is
  <2> QED BY <2>1 DEF WantedOK, UnwantedOK
<1>11. CASE Finds(r, q)
  <2> DEFINE k == Head(r.create)
  <2>1. /\ q.objs = r.objs /\ q.left = r.left /\ q.gvk = r.gvk
        /\ q.existing = [r.existing EXCEPT ![k] = server[k]]
        /\ q.create = Tail(r.create) /\ q.update = Append(r.update, k) /\ q.delete = r.delete
        /\ r.create # <<>> /\ server' = server
    BY <1>6, <1>11 DEF Finds, Is
  <2>2. k \in Keys /\ \A j : Among(j, r.create) => j = k \/ Among(j, q.create)
    BY <1>1, <1>3, <2>1
  <2> HIDE DEF k
  <2>3. \A j : Among(j, q.update) <=> Among(j, r.update) \/ j = k
    BY <1>1, <2>1, <2>2, AmongRules
  <2>4. \A j \in Keys : q.existing[j] = IF j = k THEN server[k] ELSE r.existing[j]
    BY <1>1, <2>1
  <2>5. WantedOK(s, q, server)
    BY <2>1, <2>2, <2>3, <2>4 DEF WantedOK
  <2>6. UnwantedOK(s, q, server)
    BY <2>1 DEF UnwantedOK
  <2> QED BY <2>1, <2>5, <2>6
<1>12. CASE Updates(s, r, q)
  <2> DEFINE k == Head(r.update)
             data == r.objs[k].data
  <2>1. /\ q.objs = r.objs /\ q.left = r.left /\ q.gvk = r.gvk /\ q.existing = r.existing
        /\ q.create = r.create /\ q.update = Tail(r.update) /\ q.delete = r.delete
        /\ r.update # <<>>
        /\ (NoPut /\ NoPatch(s, r.existing[k], data)) \/ Patches(s, r)
    BY <1>12 DEF Updates, Is
  <2>2. k \in Keys /\ Among(k, r.update) /\ r.objs[k] # None /\ r.existing[k] \in Object
    BY <1>1, <1>3, <2>1 DEF Planned
  <2>3. /\ \A j : Among(j, q.update) => Among(j, r.update)
        /\ \A j : Among(j, r.update) => j = k \/ Among(j, q.update)
    BY <1>1, <1>3, <2>1
  <2>4. data \in Data
    BY <1>4, <2>2
  <2>5. r.existing[k] = server[k] \/ Has(s, data, server[k])
    BY <2>2 DEF WantedOK
  <2>6. server[k] \in Object
    BY <1>1, <2>2, <2>5 DEF Has
  <2>7. Has(s, data, server'[k]) /\ \A j \in Keys : j # k => server'[j] = server[j]
    <3>1. CASE NoPut /\ NoPatch(s, r.existing[k], data)
      <4>1. Has(s, data, server[k])
        <5> HIDE DEF k, data
        <5> QED BY <2>2, <2>4, <2>5, <2>6, <3>1, GetsFields
      <4> QED BY <1>6, <3>1, <4>1
    <3>2. CASE Patches(s, r)
      <4>1. Put(k, patched(s, r.existing[k], data, server[k]))
        BY <3>2 DEF Patches
      <4> HIDE DEF k, data
      <4>2. Has(s, data, patched(s, r.existing[k], data, server[k]))
        BY <2>2, <2>4, <2>5, <2>6, GetsFields
      <4> QED BY <1>5, <2>2, <4>1, <4>2
    <3> QED BY <2>1, <3>1, <3>2
  <2> HIDE DEF k
  <2>8. WantedOK(s, q, server')
    BY <2>1, <2>2, <2>3, <2>7 DEF WantedOK
  <2>9. UnwantedOK(s, q, server')
    BY <2>1, <2>2, <2>7 DEF UnwantedOK
  <2> QED BY <2>8, <2>9
<1>13. CASE Deletes(r, q)
  <2> DEFINE k == Head(r.delete)
  <2>1. /\ q.objs = r.objs /\ q.left = r.left /\ q.gvk = r.gvk /\ q.existing = r.existing
        /\ q.create = r.create /\ q.update = r.update /\ q.delete = Tail(r.delete)
        /\ r.delete # <<>>
        /\ \/ r.gvk \in NoDelete /\ NoPut
           \/ r.gvk \notin NoDelete /\ Put(k, None)
    BY <1>13 DEF Deletes, Is
  <2>2. k \in Keys /\ r.objs[k] = None /\ \A j : Among(j, r.delete) => j = k \/ Among(j, q.delete)
    BY <1>1, <1>3, <2>1 DEF Planned
  <2> HIDE DEF k
  <2>3. /\ r.gvk \in NoDelete \/ server'[k] = None
        /\ \A j \in Keys : j # k => server'[j] = server[j]
        /\ r.gvk \in NoDelete => server' = server
    BY <1>5, <1>6, <2>1, <2>2
  <2>4. WantedOK(s, q, server')
    BY <2>1, <2>2, <2>3 DEF WantedOK
  <2>5. UnwantedOK(s, q, server')
    BY <2>1, <2>2, <2>3 DEF UnwantedOK
  <2> QED BY <2>4, <2>5
<1> QED BY <1>7, <1>8, <1>9, <1>10, <1>11, <1>12, <1>13 DEF Outcome

\* Every step preserves it.
LEMMA ExactNext == ReconcileOK /\ ExactInv /\ [Next]_vars => ExactInv'
<1> SUFFICES ASSUME ReconcileOK, ExactInv, [Next]_vars,
                    NEW s \in Sets, exact'[s], run'[s].pc # "idle", ~run'[s].err
             PROVE  WantedOK(s, run'[s], server') /\ UnwantedOK(s, run'[s], server')
  BY DEF ExactInv, WantedOK, UnwantedOK
<1>1. ApplyOK /\ want[s] \in DesiredSet
  BY DEF ReconcileOK
<1>2. CASE UNCHANGED vars
  BY <1>2 DEF ExactInv, vars, applyVars
<1>3. CASE Next
  <2>1. Kinds /\ Observed
    BY <1>3, NextKinds
  <2>2. /\ exact[s]
        /\ run'[s] = run[s] => server' = server
        /\ run'[s].left # run[s].left /\ run[s].pc = "apply" => \A k \in Keys : cache[k] = server[k]
    BY <2>1 DEF Observed, StillExact
  <2>3. CASE run'[s] = run[s]
    BY <2>2, <2>3 DEF ExactInv
  <2>4. CASE run'[s] # run[s]
    <3>1. ASSUME NEW t \in Sets, ApplyStep(t) \/ Start(t, want[t]) \/ Return(t) \/ Abort(t)
          PROVE  t = s
      <4>1. want[t] \in DesiredSet
        BY DEF ReconcileOK
      <4> QED BY <1>1, <2>4, <3>1, <4>1, StepKeeps, StartKeeps, EndKeeps
    <3>2. ~(\E k \in Keys : Deliver(k)) /\ ~(\E k \in Keys : Foreign(k)) /\ ~(\E t \in Sets : Change(t))
      BY <2>4 DEF Deliver, Foreign, Change, applyVars
    <3>3. ApplyStep(s) \/ Start(s, want[s]) \/ Return(s) \/ Abort(s)
      BY <2>1, <3>1, <3>2 DEF Kinds
    <3>4. CASE Return(s) \/ Abort(s)
      BY <1>1, <3>4, EndKeeps, IdleOK
    <3>5. CASE Start(s, want[s])
      <4>1. PICK q : q = run'[s]
        OBVIOUS
      <4>2. /\ q.objs = want[s] /\ q.left = DesiredGVKs(want[s]) \cup Known
            /\ q.update = <<>>
        BY <1>1, <3>5, <4>1, StartKeeps DEF Is
      <4>3. WantedOK(s, q, server') /\ UnwantedOK(s, q, server')
        BY <4>2 DEF WantedOK, UnwantedOK, DesiredGVKs, Among
      <4> QED BY <4>1, <4>3
    <3>6. CASE ApplyStep(s)
      <4>1. PICK q : q = run'[s]
        OBVIOUS
      <4> DEFINE r == run[s]
      <4>2. /\ Outcome(s, r, q) /\ r.pc # "idle" /\ ApplyOK' /\ q \in Run
            /\ r \in Run /\ Planned(r)
        <5>1. ApplyOK' /\ Outcome(s, r, q) /\ r.pc # "idle"
          BY <1>1, <3>6, <4>1, StepKeeps
        <5>2. run'[s] \in Run
          BY <5>1 DEF ApplyOK, Calls
        <5> QED BY <1>1, <4>1, <5>1, <5>2 DEF ApplyOK, Calls
      <4>3. q.left # r.left => \A k \in Keys : cache[k] = server[k]
        <5>1. r.pc \in {"apply", "get"}
          BY <4>2, RunFields
        <5>2. q.left # r.left => r.create = <<>>
          BY <4>2 DEF Outcome, GivesUp, Lists, Creates, Meets, Finds, Updates, Deletes, Drops, Is
        <5>3. q.left # r.left => r.pc = "apply"
          BY <4>2, <5>1, <5>2 DEF Planned
        <5> QED BY <2>2, <4>1, <5>3
      <4> HIDE DEF r
      <4>4. ~q.err /\ ~r.err
        BY <4>1, <4>2, ErrStays
      <4>5. WantedOK(s, r, server) /\ UnwantedOK(s, r, server)
        BY <2>2, <4>2, <4>4 DEF ExactInv, r
      <4>6. WantedOK(s, q, server') /\ UnwantedOK(s, q, server')
        BY <1>1, <4>2, <4>3, <4>4, <4>5, StepMatches
      <4> QED BY <4>1, <4>6
    <3> QED BY <3>3, <3>4, <3>5, <3>6
  <2> QED BY <2>3, <2>4
<1> QED BY <1>2, <1>3

\* A call that no one got in the way of and that returns no error leaves the
\* API server in the desired state, whatever state the server was in and
\* whichever versions of a kind were processed (process, compareSets,
\* filterCrossVersion, createF's takeover, doPatch).
THEOREM ExactCallsMatch == Spec => []ExactCallMatches
<1>1. Init => ExactInv
  <2> HAVE Init
  <2>1. \A s \in Sets : run[s] = Idle
    BY DEF Init, ApplyInit
  <2> QED BY <2>1, IdleOK DEF ExactInv
<1>2. ReconcileOK /\ ExactInv => ExactCallMatches
  <2> SUFFICES ASSUME ReconcileOK, ExactInv, NEW s \in Sets, Returns(s), ~run[s].err, exact[s]
               PROVE  Matches(s, run[s].objs)
    BY DEF ExactCallMatches
  <2> DEFINE r == run[s]
  <2>1. /\ r.pc = "apply" /\ r.create = <<>> /\ r.update = <<>> /\ r.delete = <<>> /\ r.left = {}
    BY DEF Returns, BetweenGVKs, Busy
  <2>2. WantedOK(s, r, server) /\ UnwantedOK(s, r, server)
    BY <2>1 DEF ExactInv
  <2> HIDE DEF r
  <2>3. \A k : ~Among(k, <<>>)
    BY DEF Among
  <2>4. \A k \in Keys : r.objs[k] # None => Has(s, r.objs[k].data, server[k])
    BY <2>1, <2>2, <2>3 DEF WantedOK
  <2>5. \A k \in Keys : r.objs[k] = None /\ server[k] # None /\ server[k].set = s =>
          k \in NoPrune \/ \A g \in Known \cup DesiredGVKs(r.objs) : GK[g] = GK[k] => g \in NoDelete
    BY <2>1, <2>2, <2>3 DEF UnwantedOK
  <2>6. Matches(s, r.objs)
    BY <2>4, <2>5 DEF Matches, Has
  <2> QED BY <2>6 DEF r
<1> QED BY <1>1, <1>2, ExactNext, ReconcileInit, ReconcileNext, PTL DEF Spec
=============================================================================
