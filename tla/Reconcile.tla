------------------------------ MODULE Reconcile ------------------------------
(***************************************************************************)
(* Controllers that call Apply over and over: each set's owner changes its *)
(* mind about the desired state, a call that returned an error is repeated *)
(* by the work queue, and an event of a child object brings its owner back *)
(* into the queue (relatedresource.Watch) if children are watched.         *)
(* Calls of different sets run concurrently, those of one set do not.      *)
(***************************************************************************)
EXTENDS Apply

CONSTANTS Wants,       \* Wants[s]: the desired states of s's owner
          Watched,     \* whether child events queue the owner
          ForeignField,\* a field no owner wants; others may set it
          MaxChanges,  \* bound on changes of the desired state
          MaxFaults    \* bound on lost calls, crashes and writes by others

ASSUME ReconcileAssumption ==
  /\ Wants \in [Sets -> SUBSET DesiredSet]
  /\ Watched \in BOOLEAN
  /\ ForeignField \in Fields /\ Values # {}
  /\ \A s \in Sets : \A w \in Wants[s] : \A k \in Keys :
       w[k] # None => /\ GK[w[k].gvk] = GK[k]
                      /\ w[k].data[ForeignField] = None
  /\ MaxChanges \in Nat /\ MaxFaults \in Nat

VARIABLES want,     \* want[s]: what s's owner wants
          queued,   \* queued[s]: the owner is in the work queue
          exact,    \* history: nothing came between s's call and the server
          changes, faults

vars == <<applyVars, want, queued, exact, changes, faults>>

-----------------------------------------------------------------------------
(* The owner and its work queue *)

Change(s) ==
  /\ changes < MaxChanges
  /\ \E w \in Wants[s] \ {want[s]} : want' = [want EXCEPT ![s] = w]
  /\ queued' = [queued EXCEPT ![s] = TRUE]
  /\ changes' = changes + 1
  /\ UNCHANGED <<applyVars, faults>>

Call(s) ==
  /\ queued[s]
  /\ queued' = [queued EXCEPT ![s] = FALSE]
  /\ Start(s, want[s])
  /\ UNCHANGED <<want, changes, faults>>

Step(s) == Work(s) /\ UNCHANGED <<want, queued, changes, faults>>

\* The handler returns Apply's error, so the queue keeps the key.
Finish(s) ==
  /\ Return(s)
  /\ queued' = [queued EXCEPT ![s] = @ \/ run[s].err]
  /\ UNCHANGED <<want, changes, faults>>

\* Child events queue the owner if children are watched.
Informer(k) ==
  /\ Deliver(k)
  /\ queued' = [s \in Sets |-> queued[s] \/ (Watched /\ s \in related(k))]
  /\ UNCHANGED <<want, changes, faults>>

-----------------------------------------------------------------------------
(* Faults and other writers *)

Fault(s) ==
  /\ faults < MaxFaults
  /\ faults' = faults + 1
  /\ \/ (CallLost(s) \/ CreateAnswerLost(s)) /\ UNCHANGED queued
     \/ Abort(s) /\ queued' = [queued EXCEPT ![s] = TRUE]
  /\ UNCHANGED <<want, changes>>

\* Someone else creates or deletes an object or writes to a field of it.
Foreign(k) ==
  /\ faults < MaxFaults
  /\ faults' = faults + 1
  /\ IF server[k] = None
     THEN Put(k, [set |-> None, applied |-> None,
                  data |-> [f \in Fields |-> IF f = ForeignField THEN None
                                             ELSE CHOOSE v \in Values : TRUE]])
     ELSE \/ Put(k, None)
          \/ \E v \in Values :
               /\ server[k].data[ForeignField] = None
               /\ Put(k, [server[k] EXCEPT !.data[ForeignField] = v])
          \/ \E f \in Fields \ {ForeignField, Guarded} :
               Put(k, [server[k] EXCEPT !.data[f] = None])
  /\ UNCHANGED <<cache, run, want, queued, changes>>

-----------------------------------------------------------------------------
\* A call of s stays exact while no one else writes, none of its calls is
\* lost, and what it lists is what the server holds.
StillExact(s) ==
  IF run'[s].pc = "idle" THEN TRUE
  ELSE /\ exact[s]
       /\ faults' = faults
       /\ run'[s] = run[s] => server' = server
       /\ run'[s].left # run[s].left /\ run[s].pc = "apply" =>
            \A k \in Keys : cache[k] = server[k]

Observed == exact' = [s \in Sets |-> StillExact(s)]

Init ==
  /\ ApplyInit
  /\ want \in [Sets -> {Empty}]
  /\ queued = [s \in Sets |-> FALSE]
  /\ exact = [s \in Sets |-> TRUE]
  /\ changes = 0
  /\ faults = 0

Next ==
  \/ \E s \in Sets : /\ Change(s) \/ Call(s) \/ Step(s) \/ Finish(s) \/ Fault(s)
                     /\ Observed
  \/ \E k \in Keys : (Informer(k) \/ Foreign(k)) /\ Observed

\* Workers and the informer keep running.
Fairness ==
  /\ \A s \in Sets : WF_vars((Call(s) \/ Step(s) \/ Finish(s)) /\ Observed)
  /\ \A k \in Keys : WF_vars(Informer(k) /\ Observed)

Spec == Init /\ [][Next]_vars /\ Fairness

-----------------------------------------------------------------------------
(* Properties *)

\* Every variable has its type.
TypeOK ==
  /\ ApplyTypeOK
  /\ want \in [Sets -> DesiredSet]
  /\ queued \in [Sets -> BOOLEAN]
  /\ exact \in [Sets -> BOOLEAN]
  /\ changes \in Nat /\ faults \in Nat

\* A call that no one got in the way of and that returns no error leaves the
\* API server in the desired state: the wanted objects exist and have the
\* wanted fields, the others are gone, whatever state the server was in and
\* whichever versions of a kind were processed (process, compareSets,
\* filterCrossVersion, createF's takeover, doPatch).
ExactCallMatches ==
  \A s \in Sets :
    Returns(s) /\ ~run[s].err /\ exact[s] => Matches(s, run[s].objs)

\* No call deletes an object it wants, except to replace one whose guarded
\* field it must change, and none of a GVK that must not be deleted
\* (filterCrossVersion, delete, updateF).
DeletesJustified ==
  [][\A s \in Sets : \A k \in Keys :
       run'[s] # run[s] /\ server[k] # None /\ server'[k] = None =>
         IF run[s].objs[k] = None
         THEN run[s].gvk \notin NoDelete /\ k \notin NoPrune
         ELSE /\ run[s].existing[k] # None
              /\ mustReplace(run[s].existing[k], run[s].objs[k].data)]_vars

\* A field that no owner ever wanted keeps the value another writer gave it
\* for as long as the object lives (doPatch's three-way merge).
ForeignFieldKept ==
  [][\A k \in Keys :
       /\ server[k] # None /\ server'[k] # None
       /\ server[k].data[ForeignField] # None
       => server'[k].data[ForeignField] = server[k].data[ForeignField]]_vars

\* Stale caches, lost calls, crashes and other writers only delay: with the
\* children watched, a set that shares no key with another set ends up with
\* its wanted objects, and without the others (process, relatedresource):
\* each is created or will "be updated to match the passed desired state"
\* (README.md:295).
SharesKeys(s) ==
  \E t \in Sets \ {s} : \E w \in Wants[s], v \in Wants[t] : \E k \in Keys :
    w[k] # None /\ v[k] # None
Converges ==
  \A s \in Sets : <>[](SharesKeys(s) \/ Matches(s, want[s]))

MatchesExactly(s) ==
  /\ Matches(s, want[s])
  /\ \A k \in Keys : want[s][k] # None => server[k].data = want[s][k].data

\* README.md:295 of an applied object that exists already: it will "be updated
\* to match the passed desired state", fields that are no longer desired
\* included (doPatch).
UpdatedToMatch == \A s \in Sets : <>[]MatchesExactly(s)
=============================================================================
