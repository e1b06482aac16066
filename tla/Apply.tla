-------------------------------- MODULE Apply --------------------------------
(***************************************************************************)
(* One call of Apply (pkg/apply): bring the objects of a set in the API    *)
(* server to a desired state.  A set is what an owner and a set ID hash    *)
(* to; every object it applies carries the hash as a label and, in an      *)
(* annotation, the state last applied.                                     *)
(*                                                                         *)
(* apply goes through the desired and the known GVKs one by one (process). *)
(* For each it lists the set's objects, from an informer cache that lags   *)
(* behind the API server or from the server itself, compares them with the *)
(* desired ones and then issues its calls one at a time: creates, updates, *)
(* deletes.  An error is recorded and the rest goes on.  Other writers act *)
(* between any two calls.                                                  *)
(*                                                                         *)
(* This module has the operations only; Reconcile and Generating call them.*)
(***************************************************************************)
EXTENDS Naturals, Sequences, FiniteSets

CONSTANTS Sets,       \* desired sets, by label hash
          KeyOrder,   \* all object keys, in sorted order
          GVKs,       \* group/version/kinds
          GK,         \* GK[g], GK[k]: the group/kind of a GVK or of a key
          Known,      \* GVKs in pruneTypes: processed although not desired
          Cached,     \* GVKs with an informer
          Strict,     \* WithStrictCaching: no informer is an error
          NoDelete,   \* GVKs of WithNoDeleteGVK (all: WithNoDelete)
          NoPrune,    \* keys whose objects are labelled prune=false
          Fields,     \* the fields of an object
          Guarded,    \* the field a reconciler guards (ErrReplace), or None
          Values,     \* values of a field
          None        \* no object, no field, no label, no annotation

Keys == {KeyOrder[i] : i \in 1..Len(KeyOrder)}
Data == [Fields -> Values \cup {None}]
Annotation == [set: Sets, data: Data]
Object == [set: Sets \cup {None}, applied: Annotation \cup {None}, data: Data]
Desired == [gvk: GVKs, data: Data]
DesiredSet == [Keys -> Desired \cup {None}]

ASSUME ApplyAssumption ==
  /\ KeyOrder \in Seq(Keys)
  /\ Known \subseteq GVKs
  /\ Guarded \in Fields \cup {None}
  /\ None \notin Values \cup Sets \cup Annotation \cup Object \cup Desired

VARIABLES server,   \* server[k]: the object in the API server, or None
          cache,    \* cache[k]: the object in the informer cache, or None
          events,   \* events[k]: versions the informer has yet to see
          run       \* run[s]: the Apply call in progress for set s

applyVars == <<server, cache, events, run>>

Empty == [k \in Keys |-> None]

\* No call in progress
Idle == [pc |-> "idle", objs |-> Empty, left |-> {}, gvk |-> None,
         existing |-> Empty, create |-> <<>>, update |-> <<>>, delete |-> <<>>,
         err |-> FALSE]

ApplyInit ==
  /\ server = Empty
  /\ cache = Empty
  /\ events = [k \in Keys |-> <<>>]
  /\ run = [s \in Sets |-> Idle]

-----------------------------------------------------------------------------
(* The API server and the informer (external) *)

\* k's object becomes o, or goes away (None).  A write that changes nothing
\* makes no new version and no event.
Put(k, o) ==
  /\ server' = [server EXCEPT ![k] = o]
  /\ events' = [events EXCEPT ![k] = IF o = server[k] THEN @ ELSE Append(@, o)]
NoPut == UNCHANGED <<server, events>>

\* The informer sees the next version of k.
Deliver(k) ==
  /\ events[k] # <<>>
  /\ cache' = [cache EXCEPT ![k] = Head(events[k])]
  /\ events' = [events EXCEPT ![k] = Tail(@)]
  /\ UNCHANGED <<server, run>>

\* relatedresource.watch: a change resolves the new object's owner, a
\* deletion that of the last state seen.
related(k) ==
  LET o == IF Head(events[k]) # None THEN Head(events[k]) ELSE cache[k]
  IN  IF o = None THEN {} ELSE {o.set} \cap Sets

-----------------------------------------------------------------------------
(* What a call computes *)

\* The keys of S in sorted order
Sorted(S) ==
  LET upTo[i \in 0..Len(KeyOrder)] ==
        IF i = 0 THEN <<>>
        ELSE IF KeyOrder[i] \in S THEN Append(upTo[i - 1], KeyOrder[i])
        ELSE upTo[i - 1]
  IN  upTo[Len(KeyOrder)]

\* apply's loop: GVKOrder puts the desired GVKs first, then the known ones
DesiredGVKs(w) == {w[k].gvk : k \in {j \in Keys : w[j] # None}}
NextGVKs(r) == IF r.left \cap DesiredGVKs(r.objs) # {}
               THEN r.left \cap DesiredGVKs(r.objs) ELSE r.left

\* list: the set's objects of g's kind, by label, cached if there is an informer
list(s, g) ==
  LET view == IF g \in Cached THEN cache ELSE server
  IN  [k \in Keys |-> IF GK[k] = GK[g] /\ view[k] # None /\ view[k].set = s
                      THEN view[k] ELSE None]

\* compareSets, shouldPrune and filterCrossVersion
toCreate(w, g, old) == {k \in Keys : w[k] # None /\ w[k].gvk = g /\ old[k] = None}
toUpdate(w, g, old) == {k \in Keys : w[k] # None /\ w[k].gvk = g /\ old[k] # None}
toDeleteThisVersion(w, g, old) ==
  {k \in Keys \ NoPrune : old[k] # None /\ ~(w[k] # None /\ w[k].gvk = g)}
toDelete(w, g, old) == {k \in Keys \ NoPrune : old[k] # None /\ w[k] = None}

\* getOriginalObject: the state in the annotation
original(o) == IF o.applied = None THEN [f \in Fields |-> None] ELSE o.applied.data

\* doPatch, field by field: what the desired state has and the object lacks
\* is set, what the original had and the desired state lacks is removed.
changedTwoWay(o, data) == {f \in Fields : data[f] # o.data[f]}
changedAgainstOriginal(o, data) == {f \in Fields : data[f] # original(o)[f]}
changed(o, data) ==
  {f \in Fields : IF data[f] # None THEN data[f] # o.data[f]
                                    ELSE original(o)[f] # None}

\* applyPatch's patch from o to data for set s, as the fields, the label and
\* the annotation it carries; NoPatch is "{}".
annotation(s, data) == [set |-> s, data |-> data]
NoPatch(s, o, data) ==
  changed(o, data) = {} /\ o.set = s /\ o.applied = annotation(s, data)
patched(s, o, data, target) ==
  [set     |-> IF o.set # s THEN s ELSE target.set,
   applied |-> IF o.applied # annotation(s, data) THEN annotation(s, data)
                                                  ELSE target.applied,
   data    |-> [f \in Fields |-> IF f \in changed(o, data) THEN data[f]
                                                           ELSE target.data[f]]]

\* The reconcilers: a change of the guarded field needs a new object.
mustReplace(o, data) ==
  /\ Guarded # None
  /\ (IF o.applied = None THEN o.data ELSE original(o))[Guarded] # data[Guarded]

-----------------------------------------------------------------------------
(* Steps of a call for set s: one per call of the API *)

Becomes(s, r) == run' = [run EXCEPT ![s] = r]
Busy(s) == run[s].pc = "apply"
Creating(s) == Busy(s) /\ run[s].create # <<>>
Updating(s) == Busy(s) /\ run[s].create = <<>> /\ run[s].update # <<>>
Deleting(s) == Busy(s) /\ run[s].create = <<>> /\ run[s].update = <<>>
                       /\ run[s].delete # <<>>
BetweenGVKs(s) == Busy(s) /\ run[s].create = <<>> /\ run[s].update = <<>>
                          /\ run[s].delete = <<>>

\* ApplyObjects, Apply: the call begins with desired state w.
Start(s, w) ==
  /\ run[s].pc = "idle"
  /\ Becomes(s, [Idle EXCEPT !.pc = "apply", !.objs = w,
                             !.left = DesiredGVKs(w) \cup Known])
  /\ UNCHANGED <<server, cache, events>>

\* process up to its first API call, for the next GVK
process(s) ==
  /\ BetweenGVKs(s)
  /\ \E g \in NextGVKs(run[s]) :
       IF g \notin Cached /\ Strict
       THEN Becomes(s, [run[s] EXCEPT !.left = @ \ {g}, !.err = TRUE])
       ELSE LET old == list(s, g)
                w   == run[s].objs
            IN  Becomes(s, [run[s] EXCEPT !.left = @ \ {g}, !.gvk = g,
                              !.existing = old,
                              !.create = Sorted(toCreate(w, g, old)),
                              !.update = Sorted(toUpdate(w, g, old)),
                              !.delete = Sorted(toDelete(w, g, old))])
  /\ UNCHANGED <<server, cache, events>>

\* prepareObjectForCreate after injectLabelsAndAnnotations
created(s, data) == [set |-> s, applied |-> annotation(s, data), data |-> data]

\* createF: an object that exists already is taken over, once read (get)
createF(s) ==
  /\ Creating(s)
  /\ LET k == Head(run[s].create)
         r == [run[s] EXCEPT !.create = Tail(@)]
     IN  IF server[k] = None
         THEN Put(k, created(s, r.objs[k].data)) /\ Becomes(s, r)
         ELSE NoPut /\ Becomes(s, [run[s] EXCEPT !.pc = "get"])
  /\ UNCHANGED cache

\* get; the object may be gone again, then createF fails
getExisting(s) ==
  /\ run[s].pc = "get"
  /\ LET k == Head(run[s].create)
         r == [run[s] EXCEPT !.pc = "apply", !.create = Tail(@)]
     IN  IF server[k] # None
         THEN Becomes(s, [r EXCEPT !.update = Append(@, k),
                                   !.existing[k] = server[k]])
         ELSE Becomes(s, [r EXCEPT !.err = TRUE])
  /\ UNCHANGED <<server, cache, events>>

\* updateF, compareObjects, applyPatch: nothing to do, a replacement, or a
\* patch, which the API server refuses for an object that is gone and for
\* a guarded field.
updateF(s) ==
  /\ Updating(s)
  /\ LET k     == Head(run[s].update)
         r     == [run[s] EXCEPT !.update = Tail(@)]
         fails == [r EXCEPT !.err = TRUE]
         o     == run[s].existing[k]
         data  == run[s].objs[k].data
         new   == patched(s, o, data, server[k])
     IN  IF NoPatch(s, o, data)
         THEN NoPut /\ Becomes(s, r)
         ELSE IF mustReplace(o, data)
         THEN /\ IF server[k] # None THEN Put(k, None) ELSE NoPut
              /\ Becomes(s, fails)
         ELSE IF server[k] = None \/ (Guarded # None
                                      /\ new.data[Guarded] # server[k].data[Guarded])
         THEN NoPut /\ Becomes(s, fails)
         ELSE Put(k, new) /\ Becomes(s, r)
  /\ UNCHANGED cache

\* deleteF, delete: by name, without a precondition
deleteF(s) ==
  /\ Deleting(s)
  /\ LET k == Head(run[s].delete)
         r == [run[s] EXCEPT !.delete = Tail(@)]
     IN  IF run[s].gvk \in NoDelete
         THEN NoPut /\ Becomes(s, r)
         ELSE IF server[k] = None
         THEN NoPut /\ Becomes(s, [r EXCEPT !.err = TRUE])
         ELSE Put(k, None) /\ Becomes(s, r)
  /\ UNCHANGED cache

\* A call of s is lost before it has an effect: a create, get, patch or delete,
\* or the discovery or list call of a GVK, which process then gives up.
CallLost(s) ==
  /\ \/ /\ BetweenGVKs(s)
        /\ \E g \in NextGVKs(run[s]) :
             Becomes(s, [run[s] EXCEPT !.left = @ \ {g}, !.err = TRUE])
     \/ /\ Creating(s) \/ run[s].pc = "get"
        /\ Becomes(s, [run[s] EXCEPT !.pc = "apply", !.create = Tail(@), !.err = TRUE])
     \/ /\ Updating(s)
        /\ Becomes(s, [run[s] EXCEPT !.update = Tail(@), !.err = TRUE])
     \/ /\ Deleting(s)
        /\ Becomes(s, [run[s] EXCEPT !.delete = Tail(@), !.err = TRUE])
  /\ UNCHANGED <<server, cache, events>>

\* The answer of a create call is lost after the object was stored.
CreateAnswerLost(s) ==
  /\ Creating(s)
  /\ LET k == Head(run[s].create)
     IN  /\ server[k] = None
         /\ Put(k, created(s, run[s].objs[k].data))
  /\ Becomes(s, [run[s] EXCEPT !.create = Tail(@), !.err = TRUE])
  /\ UNCHANGED cache

\* The process dies in the middle of the call.
Abort(s) ==
  /\ run[s].pc # "idle"
  /\ Becomes(s, Idle)
  /\ UNCHANGED <<server, cache, events>>

\* All GVKs are done: the call returns the errors it met.
Returns(s) == BetweenGVKs(s) /\ run[s].left = {}
Return(s) ==
  /\ Returns(s)
  /\ Becomes(s, Idle)
  /\ UNCHANGED <<server, cache, events>>

Work(s) == process(s) \/ createF(s) \/ getExisting(s) \/ updateF(s) \/ deleteF(s)

-----------------------------------------------------------------------------
Run == [pc: {"idle", "apply", "get"}, objs: DesiredSet, left: SUBSET GVKs,
        gvk: GVKs \cup {None}, existing: [Keys -> Object \cup {None}],
        create: Seq(Keys), update: Seq(Keys), delete: Seq(Keys), err: BOOLEAN]

\* What is to be created or updated is wanted, what is to be updated or
\* deleted was found.
WellFormed(r) ==
  /\ \A i \in 1..Len(r.create) : r.objs[r.create[i]] # None
  /\ \A i \in 1..Len(r.update) : /\ r.objs[r.update[i]] # None
                                 /\ r.existing[r.update[i]] # None
  /\ \A i \in 1..Len(r.delete) : r.existing[r.delete[i]] # None
  /\ r.pc = "get" => r.create # <<>>

ApplyTypeOK ==
  /\ server \in [Keys -> Object \cup {None}]
  /\ cache \in [Keys -> Object \cup {None}]
  /\ events \in [Keys -> Seq(Object \cup {None})]
  /\ run \in [Sets -> Run]
  /\ \A s \in Sets : WellFormed(run[s])

\* Every wanted object is there, in the set, with the wanted fields; no other
\* object of the set is left that apply would prune.
Matches(s, w) ==
  \A k \in Keys :
    IF w[k] # None
    THEN /\ server[k] # None
         /\ server[k].set = s
         /\ \A f \in Fields : w[k].data[f] # None => server[k].data[f] = w[k].data[f]
    ELSE server[k] # None /\ server[k].set = s =>
           \/ k \in NoPrune
           \/ \A g \in Known \cup DesiredGVKs(w) : GK[g] = GK[k] => g \in NoDelete
=============================================================================
