----------------------------- MODULE Generating -----------------------------
(***************************************************************************)
(* Generating handlers (generated/controllers/..., here deployment.go): a  *)
(* handler turns an owner object into child objects, hands them to Apply   *)
(* and records in a condition of the owner's status how that went.  When   *)
(* the owner is gone, Remove applies the empty set under the owner's name. *)
(*                                                                         *)
(* Every set of Apply belongs to one owner object, named by the set.  The  *)
(* owner's events and, if Watched, those of its children                   *)
(* (relatedresource.Watch) put the owner's key into the work queue; one    *)
(* worker at a time handles a key: Remove first, then the status handler.  *)
(***************************************************************************)
EXTENDS Apply, Conditions

CONSTANTS Specs,      \* specs of an owner
          Generated,  \* Generated[s][x]: what the handler makes of spec x
          Watched,    \* whether child events queue the owner
          MaxChanges, \* bound on creations, edits and deletions of owners
          MaxFaults   \* bound on failed calls, crashes and deleted children

ASSUME GeneratingAssumption ==
  /\ Generated \in [Sets -> [Specs -> DesiredSet]]
  /\ Watched \in BOOLEAN
  /\ \A s \in Sets, x \in Specs, k \in Keys :
       Generated[s][x][k] # None => GK[Generated[s][x][k].gvk] = GK[k]
  /\ MaxChanges \in Nat /\ MaxFaults \in Nat

VARIABLES owner,      \* owner[s]: the owner in the API server, or None
          ownerEvents,\* versions of it the owner informer has yet to see
          ownerCache, \* ownerCache[s]: the owner in the informer cache
          version,    \* the API server's last resourceVersion of an owner
          queued,     \* queued[s]: the key is in the work queue
          phase,      \* where the worker is with the key
          obj,        \* the owner object it handles, None for one that is gone
          outcome,    \* the error its condition is about to be set from
          failed,     \* whether the handler returned an error
          seen,       \* resource version last applied, 0 for none
          unique,     \* UniqueApplyForResourceVersion
          last,       \* history, if unique: what was applied last without error
          changes, faults

ownerVars == <<owner, ownerEvents, version>>
workerVars == <<phase, obj, outcome, failed>>
bounds == <<changes, faults>>
vars == <<applyVars, ownerVars, ownerCache, queued, workerVars, seen, unique,
          last, bounds>>

Errors == {NoError, "failed"}
\* The condition of the status handler, and one of somebody else's.
Ready == "Ready"
Others == [type |-> "Progressing", status |-> "True", message |-> "", reason |-> ""]
Condition == [type: {Ready, Others.type}, status: {"True", "False", "Unknown"},
              message: Errors, reason: {"", "Error"}]
Owner == [rv: Nat, spec: Specs, deleting: BOOLEAN, conds: Seq(Condition)]

ASSUME OwnerAssumption == None \notin Owner

-----------------------------------------------------------------------------
(* The owner in the API server (external) *)

PutOwner(s, o) ==
  LET new == IF o = None THEN None ELSE [o EXCEPT !.rv = version + 1]
  IN  /\ owner' = [owner EXCEPT ![s] = new]
      /\ ownerEvents' = [ownerEvents EXCEPT ![s] = Append(@, new)]
      /\ version' = version + 1

\* Someone creates, edits or deletes the owner; finalizers of others may keep
\* it for a while.
OwnerChange(s) ==
  /\ changes < MaxChanges
  /\ changes' = changes + 1
  /\ IF owner[s] = None
     THEN \E x \in Specs :
            PutOwner(s, [rv |-> 0, spec |-> x, deleting |-> FALSE, conds |-> <<Others>>])
     ELSE /\ ~owner[s].deleting
          /\ \/ \E x \in Specs \ {owner[s].spec} : PutOwner(s, [owner[s] EXCEPT !.spec = x])
             \/ PutOwner(s, [owner[s] EXCEPT !.deleting = TRUE])
             \/ PutOwner(s, None)
  /\ UNCHANGED <<applyVars, ownerCache, queued, workerVars, seen, unique, last, faults>>

Finalized(s) ==
  /\ owner[s] # None /\ owner[s].deleting
  /\ PutOwner(s, None)
  /\ UNCHANGED <<applyVars, ownerCache, queued, workerVars, seen, unique, last, bounds>>

OwnerInformer(s) ==
  /\ ownerEvents[s] # <<>>
  /\ ownerCache' = [ownerCache EXCEPT ![s] = Head(ownerEvents[s])]
  /\ ownerEvents' = [ownerEvents EXCEPT ![s] = Tail(@)]
  /\ queued' = [queued EXCEPT ![s] = TRUE]
  /\ UNCHANGED <<applyVars, owner, version, workerVars, seen, unique, last, bounds>>

\* A child's event, by way of relatedresource.Watch
Informer(k) ==
  /\ Deliver(k)
  /\ queued' = [s \in Sets |-> queued[s] \/ (Watched /\ s \in related(k))]
  /\ UNCHANGED <<ownerVars, ownerCache, workerVars, seen, unique, last, bounds>>

-----------------------------------------------------------------------------
(* The worker *)

At(s, p, o, out, err) ==
  /\ phase' = [phase EXCEPT ![s] = p]
  /\ obj' = [obj EXCEPT ![s] = o]
  /\ outcome' = [outcome EXCEPT ![s] = out]
  /\ failed' = [failed EXCEPT ![s] = err]
Done(s, err) ==
  /\ At(s, "idle", None, NoError, FALSE)
  /\ queued' = [queued EXCEPT ![s] = @ \/ err]
Taken(s) ==
  /\ phase[s] = "idle" /\ queued[s]
  /\ queued' = [queued EXCEPT ![s] = FALSE]
  /\ UNCHANGED <<ownerVars, ownerCache, unique, last, changes>>

\* Remove: for an owner that is gone
Remove(s) ==
  /\ Taken(s) /\ ownerCache[s] = None
  /\ seen' = [seen EXCEPT ![s] = IF unique THEN 0 ELSE @]
  /\ Start(s, Empty)
  /\ At(s, "remove", None, NoError, FALSE)
  /\ UNCHANGED faults

\* isNewResourceVersion
isNewResourceVersion(s, o) == ~unique \/ seen[s] # o.rv

\* sync and Handle up to Apply: an owner being deleted and a version applied
\* already are left alone, with a condition that says so.
Handle(s) ==
  /\ Taken(s) /\ ownerCache[s] # None
  /\ LET o == ownerCache[s]
     IN  IF ~o.deleting /\ isNewResourceVersion(s, o)
         THEN /\ Start(s, Generated[s][o.spec])
              /\ At(s, "apply", o, NoError, FALSE)
         ELSE /\ At(s, "status", o, NoError, FALSE)
              /\ UNCHANGED applyVars
  /\ UNCHANGED <<seen, faults>>

\* The handler itself fails: a conflict is not shown in the condition.
HandleErr(s) ==
  /\ Taken(s) /\ ownerCache[s] # None /\ ~ownerCache[s].deleting
  /\ faults < MaxFaults
  /\ faults' = faults + 1
  /\ \E out \in Errors : At(s, "status", ownerCache[s], out, TRUE)
  /\ UNCHANGED <<applyVars, seen>>

Step(s) ==
  /\ Work(s)
  /\ UNCHANGED <<ownerVars, ownerCache, queued, workerVars, seen, unique, last, bounds>>

\* Apply returns to Remove, or to Handle, which stores the version (if unique)
\* unless there was an error.
AppliedWith(s, err, stores) ==
  /\ Return(s)
  /\ IF phase[s] = "remove"
     THEN Done(s, err) /\ UNCHANGED seen
     ELSE /\ At(s, "status", obj[s], IF err THEN "failed" ELSE NoError, err)
          /\ seen' = [seen EXCEPT ![s] = IF unique /\ stores THEN obj[s].rv ELSE @]
          /\ UNCHANGED queued
  /\ last' = [last EXCEPT ![s] = IF unique /\ ~run[s].err THEN run[s].objs ELSE @]
  /\ UNCHANGED <<ownerVars, ownerCache, unique, bounds>>
AppliedStoresAlways(s) == AppliedWith(s, run[s].err, TRUE)
AppliedDropsErr(s) == AppliedWith(s, FALSE, ~run[s].err)
Applied(s) == AppliedWith(s, run[s].err, ~run[s].err)

\* The end of sync: UpdateStatus, with the version of the object it handled,
\* if the condition changes; its error counts only if there was none before.
newStatus(s) == SetError(obj[s].conds, Ready, "", outcome[s])
UpdateStatus(s) ==
  /\ phase[s] = "status"
  /\ IF obj[s].conds = newStatus(s)
     THEN UNCHANGED ownerVars /\ Done(s, failed[s])
     ELSE IF owner[s] # None /\ owner[s].rv = obj[s].rv
     THEN PutOwner(s, [owner[s] EXCEPT !.conds = newStatus(s)]) /\ Done(s, failed[s])
     ELSE UNCHANGED ownerVars /\ Done(s, TRUE)
  /\ UNCHANGED <<applyVars, ownerCache, seen, unique, last, bounds>>

\* The call is lost.
UpdateStatusLost(s, err) ==
  /\ phase[s] = "status" /\ obj[s].conds # newStatus(s)
  /\ faults < MaxFaults
  /\ faults' = faults + 1
  /\ Done(s, err)
  /\ UNCHANGED <<applyVars, ownerVars, ownerCache, seen, unique, last, changes>>
UpdateStatusErrDropped(s) == UpdateStatusLost(s, failed[s])
UpdateStatusFails(s) == UpdateStatusLost(s, TRUE)

-----------------------------------------------------------------------------
(* Faults *)

Fault(s) ==
  /\ faults < MaxFaults
  /\ faults' = faults + 1
  /\ CallLost(s) \/ CreateAnswerLost(s)
  /\ UNCHANGED <<ownerVars, ownerCache, queued, workerVars, seen, unique, last, changes>>

\* Someone deletes a child.
ChildDeleted(k) ==
  /\ faults < MaxFaults
  /\ faults' = faults + 1
  /\ server[k] # None /\ Put(k, None)
  /\ UNCHANGED <<cache, run, ownerVars, ownerCache, queued, workerVars, seen,
                 unique, last, changes>>

\* The process dies and starts again: fresh lists, every object in them
\* queued; seen is empty.
Crash ==
  /\ faults < MaxFaults
  /\ faults' = faults + 1
  /\ run' = [s \in Sets |-> Idle]
  /\ cache' = server
  /\ events' = [k \in Keys |-> <<>>]
  /\ ownerCache' = owner
  /\ ownerEvents' = [s \in Sets |-> <<>>]
  /\ queued' = [s \in Sets |-> \/ owner[s] # None
                               \/ Watched /\ \E k \in Keys : server[k] # None /\ server[k].set = s]
  /\ phase' = [s \in Sets |-> "idle"]
  /\ obj' = [s \in Sets |-> None]
  /\ outcome' = [s \in Sets |-> NoError]
  /\ failed' = [s \in Sets |-> FALSE]
  /\ seen' = [s \in Sets |-> 0]
  /\ UNCHANGED <<server, owner, version, unique, last, changes>>

-----------------------------------------------------------------------------
Init ==
  /\ ApplyInit
  /\ owner = [s \in Sets |-> None]
  /\ ownerEvents = [s \in Sets |-> <<>>]
  /\ ownerCache = [s \in Sets |-> None]
  /\ version = 0
  /\ queued = [s \in Sets |-> FALSE]
  /\ phase = [s \in Sets |-> "idle"]
  /\ obj = [s \in Sets |-> None]
  /\ outcome = [s \in Sets |-> NoError]
  /\ failed = [s \in Sets |-> FALSE]
  /\ seen = [s \in Sets |-> 0]
  /\ unique \in BOOLEAN
  /\ last = [s \in Sets |-> Empty]
  /\ changes = 0
  /\ faults = 0

Worker(s) == Remove(s) \/ Handle(s) \/ Step(s) \/ Applied(s) \/ UpdateStatus(s)

Next ==
  \/ \E s \in Sets : \/ OwnerChange(s) \/ Finalized(s) \/ OwnerInformer(s)
                     \/ Remove(s) \/ Handle(s) \/ HandleErr(s) \/ Step(s)
                     \/ Applied(s) \/ UpdateStatus(s)
                     \/ UpdateStatusFails(s) \/ Fault(s)
  \/ \E k \in Keys : Informer(k) \/ ChildDeleted(k)
  \/ Crash

\* Workers and informers keep running.
Fairness ==
  /\ \A s \in Sets : WF_vars(Worker(s)) /\ WF_vars(OwnerInformer(s))
  /\ \A k \in Keys : WF_vars(Informer(k))

Spec == Init /\ [][Next]_vars /\ Fairness

-----------------------------------------------------------------------------
(* Properties *)

\* Every variable has its type; a worker that is past Remove's nil check has
\* an object, and Apply runs exactly while a worker waits for it.
TypeOK ==
  /\ ApplyTypeOK
  /\ owner \in [Sets -> Owner \cup {None}]
  /\ ownerCache \in [Sets -> Owner \cup {None}]
  /\ ownerEvents \in [Sets -> Seq(Owner \cup {None})]
  /\ version \in Nat
  /\ queued \in [Sets -> BOOLEAN]
  /\ phase \in [Sets -> {"idle", "remove", "apply", "status"}]
  /\ obj \in [Sets -> Owner \cup {None}]
  /\ \A s \in Sets : obj[s] # None <=> phase[s] \in {"apply", "status"}
  /\ \A s \in Sets : run[s].pc # "idle" <=> phase[s] \in {"remove", "apply"}
  /\ outcome \in [Sets -> Errors]
  /\ failed \in [Sets -> BOOLEAN]
  /\ seen \in [Sets -> Nat]
  /\ unique \in BOOLEAN
  /\ last \in [Sets -> DesiredSet]
  /\ changes \in Nat /\ faults \in Nat

\* With UniqueApplyForResourceVersion a version is skipped only if what the
\* handler generates from it is what was applied last, without an error
\* (isNewResourceVersion, storeResourceVersion, the clearing in Remove).
SkipsOnlyApplied ==
  \A s \in Sets :
    ownerCache[s] # None /\ ~isNewResourceVersion(s, ownerCache[s]) =>
      last[s] = Generated[s][ownerCache[s].spec]

\* Once its owner is gone for good, no child is left ("cascade deleting every
\* associated resource previously applied", deployment.go:141), whatever was
\* in flight, stale or lost when it went.
CascadeDelete ==
  \A s \in Sets :
    <>[](owner[s] = None => \A k \in Keys : server[k] = None \/ server[k].set # s)

\* A live owner ends up with the children its spec generates and no others.
\* Not so with UniqueApplyForResourceVersion: a version applied on a stale
\* cache is not applied again (Handle, process, relatedresource).
EventuallyGenerated ==
  \A s \in Sets :
    <>[](~unique /\ owner[s] # None /\ ~owner[s].deleting =>
           Matches(s, Generated[s][owner[s].spec]))

\* The condition of an owner ends up true, without a message: conflicts and
\* failures are retried, no error is left in it once they are over, and the
\* conditions of others stay (sync, SetError, UpdateStatus).
StatusSettles ==
  \A s \in Sets : <>[](owner[s] # None => /\ MatchesError(owner[s].conds, Ready, "", NoError)
                                          /\ Cond(owner[s].conds, Others.type) = Others)
=============================================================================
