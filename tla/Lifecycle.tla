------------------------------ MODULE Lifecycle ------------------------------
(***************************************************************************)
(* The remove handlers of pkg/generic (remove.go): a handler that wants to *)
(* be told of an object's deletion puts its finalizer on the object, runs  *)
(* its cleanup once the object is being deleted, and takes the finalizer   *)
(* off again.                                                              *)
(*                                                                         *)
(* One API object is watched by several controllers (processes).  Each has *)
(* its own informer cache, which lags behind the API server, a work queue  *)
(* that holds the object's key at most once, and one worker that runs the  *)
(* registered handlers in order.  Writes carry the resourceVersion of the  *)
(* object they were computed from, so the API server refuses stale ones.   *)
(* Objects come back under the same name: uid tells incarnations apart.    *)
(***************************************************************************)
EXTENDS Naturals, Sequences

CONSTANTS Controllers,  \* processes that watch the object
          Names,        \* names of remove handlers, one finalizer each
          Handlers,     \* Handlers[c]: the names c registered, in order
          None,         \* no object
          MaxObjects,   \* bound on incarnations of the object
          MaxFaults     \* bound on crashes, failed calls and edits by others

ASSUME LifecycleAssumption ==
  /\ Handlers \in [Controllers -> Seq(Names) \ {<<>>}]
  /\ None \notin [uid: Nat, rv: Nat, deleting: BOOLEAN,
                  finalizers: Seq(Names)]
  /\ MaxObjects \in Nat
  /\ MaxFaults \in Nat

VARIABLES server,   \* the object in the API server, or None
          version,  \* the API server's last resourceVersion
          cache,    \* cache[c]: the object in c's informer
          queued,   \* queued[c]: the key is in c's work queue
          pc,       \* where c's worker is
          idx,      \* the handler the worker of c is at
          obj,      \* the object that handler is given
          failed,   \* whether a handler of this round returned an error
          cleaned,  \* history: <<uid, name>> whose cleanup succeeded
          born,     \* incarnations so far, the last uid
          faults    \* crashes, failed calls and edits by others so far

vars == <<server, version, cache, queued, pc, idx, obj, failed, cleaned,
          born, faults>>
apiVars == <<server, version>>
workerVars == <<pc, idx, obj, failed>>

Object == [uid: Nat, rv: Nat, deleting: BOOLEAN, finalizers: Seq(Names)]

Carries(o, f) == \E i \in 1..Len(o.finalizers) : o.finalizers[i] = f

-----------------------------------------------------------------------------
(* The finalizer list *)

\* hasFinalizer
hasFinalizer(o, name) == Carries(o, name)

\* addFinalizer's new list
added(o, name) == Append(o.finalizers, name)

\* removeFinalizer's new list: append(finalizers[:k], finalizers[k+1:]...)
DropFollowing(o, name) ==
  LET k == CHOOSE i \in 1..Len(o.finalizers) : o.finalizers[i] = name
  IN  [i \in 1..(Len(o.finalizers) - 1) |->
         IF i <= k THEN o.finalizers[i] ELSE o.finalizers[i + 1]]
removed(o, name) ==
  LET k == CHOOSE i \in 1..Len(o.finalizers) : o.finalizers[i] = name
  IN  [i \in 1..(Len(o.finalizers) - 1) |->
         IF i < k THEN o.finalizers[i] ELSE o.finalizers[i + 1]]

\* The loop that computes it.  The shortened slice shares its array with the
\* list the loop ranges over, so a match shifts what the loop has yet to read:
\* for a name that occurs twice the result is not the list without the name.
removeLoop(fs, name) ==
  LET n == Len(fs)
      arr[k \in 0..n] ==
        IF k = 0 THEN fs
        ELSE IF arr[k - 1][k] # name THEN arr[k - 1]
        ELSE [i \in 1..n |-> IF k <= i /\ i < n THEN arr[k - 1][i + 1]
                                              ELSE arr[k - 1][i]]
  IN  SubSeq(arr[n], 1, n - 1)

-----------------------------------------------------------------------------
(* The API server (external): optimistic concurrency and finalizers *)

\* An object being deleted is gone once its last finalizer is.
Stored(o) == IF o.deleting /\ o.finalizers = <<>> THEN None ELSE o

\* Update succeeds on the version it was computed from only
Current(o) == server # None /\ server.rv = o.rv
Write(o) == /\ version' = version + 1
            /\ server' = Stored([o EXCEPT !.rv = version + 1])

-----------------------------------------------------------------------------
(* The worker of controller c *)

Name(c) == Handlers[c][idx[c]]

Idle(c) ==
  /\ pc' = [pc EXCEPT ![c] = "idle"]
  /\ idx' = [idx EXCEPT ![c] = 1]
  /\ obj' = [obj EXCEPT ![c] = None]
  /\ failed' = [failed EXCEPT ![c] = FALSE]

\* Handler idx[c] returns object o, which the next one is given; err: it
\* failed.  The work queue (external) takes the key back after any error.
Return(c, o, err) ==
  IF idx[c] < Len(Handlers[c])
  THEN /\ pc' = [pc EXCEPT ![c] = "sync"]
       /\ idx' = [idx EXCEPT ![c] = @ + 1]
       /\ obj' = [obj EXCEPT ![c] = o]
       /\ failed' = [failed EXCEPT ![c] = @ \/ err]
       /\ UNCHANGED queued
  ELSE /\ Idle(c)
       /\ queued' = [queued EXCEPT ![c] = @ \/ failed[c] \/ err]

\* The work queue hands the key to the worker, which looks the object up in
\* the cache; for an object that is gone sync returns at once.
TakeMissing(c) ==
  /\ pc[c] = "idle" /\ queued[c]
  /\ queued' = [queued EXCEPT ![c] = FALSE]
  /\ pc' = [pc EXCEPT ![c] = "sync"]
  /\ obj' = [obj EXCEPT ![c] = cache[c]]
  /\ UNCHANGED <<apiVars, cache, idx, failed, cleaned, born, faults>>
Take(c) ==
  /\ pc[c] = "idle" /\ queued[c]
  /\ queued' = [queued EXCEPT ![c] = FALSE]
  /\ pc' = [pc EXCEPT ![c] = IF cache[c] = None THEN "idle" ELSE "sync"]
  /\ obj' = [obj EXCEPT ![c] = cache[c]]
  /\ UNCHANGED <<apiVars, cache, idx, failed, cleaned, born, faults>>

\* sync up to its first call: add the finalizer to a live object, run the
\* cleanup of one being deleted, leave every other object alone.
syncAddsAlways(c) ==
  /\ pc[c] = "sync"
  /\ IF ~obj[c].deleting \/ hasFinalizer(obj[c], Name(c))
     THEN /\ pc' = [pc EXCEPT ![c] = IF obj[c].deleting THEN "handler" ELSE "update"]
          /\ UNCHANGED <<idx, obj, failed, queued>>
     ELSE Return(c, obj[c], FALSE)
  /\ UNCHANGED <<apiVars, cache, cleaned, born, faults>>
syncIgnoresDeletion(c) ==
  /\ pc[c] = "sync"
  /\ pc' = [pc EXCEPT ![c] = IF hasFinalizer(obj[c], Name(c)) THEN "handler" ELSE "update"]
  /\ UNCHANGED <<apiVars, cache, queued, idx, obj, failed, cleaned, born, faults>>
sync(c) ==
  /\ pc[c] = "sync"
  /\ IF hasFinalizer(obj[c], Name(c)) = obj[c].deleting
     THEN /\ pc' = [pc EXCEPT ![c] = IF obj[c].deleting THEN "handler" ELSE "update"]
          /\ UNCHANGED <<idx, obj, failed, queued>>
     ELSE Return(c, obj[c], FALSE)
  /\ UNCHANGED <<apiVars, cache, cleaned, born, faults>>

\* The registered handler succeeds: it may have updated the object itself and
\* returned the new version (external), from which the finalizer then goes.
handlerDone(c) ==
  /\ pc[c] = "handler"
  /\ \/ UNCHANGED <<apiVars, obj, faults>>
     \/ /\ Current(obj[c]) /\ faults < MaxFaults
        /\ faults' = faults + 1
        /\ Write(obj[c])
        /\ obj' = [obj EXCEPT ![c].rv = version + 1]
  /\ cleaned' = cleaned \cup {<<obj[c].uid, Name(c)>>}
  /\ pc' = [pc EXCEPT ![c] = "update"]
  /\ UNCHANGED <<cache, queued, idx, failed, born>>

\* The registered handler returns an error: the finalizer stays.
handlerErrIgnored(c) ==
  /\ pc[c] = "handler"
  /\ faults < MaxFaults
  /\ faults' = faults + 1
  /\ pc' = [pc EXCEPT ![c] = "update"]
  /\ UNCHANGED <<apiVars, cache, queued, idx, obj, failed, cleaned, born>>
handlerErrSwallowed(c) ==
  /\ pc[c] = "handler"
  /\ faults < MaxFaults
  /\ faults' = faults + 1
  /\ Return(c, obj[c], FALSE)
  /\ UNCHANGED <<apiVars, cache, cleaned, born>>
handlerErr(c) ==
  /\ pc[c] = "handler"
  /\ faults < MaxFaults
  /\ faults' = faults + 1
  /\ Return(c, obj[c], TRUE)
  /\ UNCHANGED <<apiVars, cache, cleaned, born>>

\* The updater's call at the end of addFinalizer and removeFinalizer.  A
\* refused call (Conflict, NotFound) leaves the next handler the same object.
Written(c) == [obj[c] EXCEPT !.finalizers =
                 IF obj[c].deleting THEN removed(obj[c], Name(c))
                                    ELSE added(obj[c], Name(c))]
update(c) ==
  /\ pc[c] = "update"
  /\ IF Current(obj[c])
     THEN /\ Write(Written(c))
          /\ Return(c, [Written(c) EXCEPT !.rv = version + 1], FALSE)
     ELSE /\ Return(c, obj[c], TRUE)
          /\ UNCHANGED apiVars
  /\ UNCHANGED <<cache, cleaned, born, faults>>

\* The call is lost on its way, or its answer is on the way back.
updateErrSwallowed(c) ==
  /\ pc[c] = "update"
  /\ faults < MaxFaults
  /\ faults' = faults + 1
  /\ \/ UNCHANGED apiVars
     \/ Current(obj[c]) /\ Write(Written(c))
  /\ Return(c, obj[c], FALSE)
  /\ UNCHANGED <<cache, cleaned, born>>
updateFails(c) ==
  /\ pc[c] = "update"
  /\ faults < MaxFaults
  /\ faults' = faults + 1
  /\ \/ UNCHANGED apiVars
     \/ Current(obj[c]) /\ Write(Written(c))
  /\ Return(c, obj[c], TRUE)
  /\ UNCHANGED <<cache, cleaned, born>>

\* The informer catches up and its event queues the key (external).
Informer(c) ==
  /\ cache[c] # server
  /\ cache' = [cache EXCEPT ![c] = server]
  /\ queued' = [queued EXCEPT ![c] = TRUE]
  /\ UNCHANGED <<apiVars, workerVars, cleaned, born, faults>>

\* The process dies at any point and starts again: a fresh list, every
\* object in it queued.
Crash(c) ==
  /\ faults < MaxFaults
  /\ faults' = faults + 1
  /\ cache' = [cache EXCEPT ![c] = server]
  /\ queued' = [queued EXCEPT ![c] = server # None]
  /\ Idle(c)
  /\ UNCHANGED <<apiVars, cleaned, born>>

-----------------------------------------------------------------------------
(* Other clients of the API server (external) *)

Create ==
  /\ server = None /\ born < MaxObjects
  /\ born' = born + 1
  /\ Write([uid |-> born + 1, rv |-> version, deleting |-> FALSE, finalizers |-> <<>>])
  /\ UNCHANGED <<cache, queued, workerVars, cleaned, faults>>

Modify ==
  /\ server # None /\ faults < MaxFaults
  /\ faults' = faults + 1
  /\ Write(server)
  /\ UNCHANGED <<cache, queued, workerVars, cleaned, born>>

Delete ==
  /\ server # None /\ ~server.deleting
  /\ Write([server EXCEPT !.deleting = TRUE])
  /\ UNCHANGED <<cache, queued, workerVars, cleaned, born, faults>>

-----------------------------------------------------------------------------
Init ==
  /\ server = None
  /\ version = 0
  /\ cache = [c \in Controllers |-> None]
  /\ queued = [c \in Controllers |-> FALSE]
  /\ pc = [c \in Controllers |-> "idle"]
  /\ idx = [c \in Controllers |-> 1]
  /\ obj = [c \in Controllers |-> None]
  /\ failed = [c \in Controllers |-> FALSE]
  /\ cleaned = {}
  /\ born = 0
  /\ faults = 0

Worker(c) == Take(c) \/ sync(c) \/ handlerDone(c) \/ update(c)

Next ==
  \/ \E c \in Controllers :
       \/ Take(c) \/ sync(c) \/ handlerDone(c) \/ handlerErr(c)
       \/ update(c) \/ updateFails(c) \/ Informer(c) \/ Crash(c)
  \/ Create \/ Modify \/ Delete

\* Workers and informers keep running, and a cleanup does not fail for ever.
\* Nothing makes anyone create, modify or delete the object.
Fairness == \A c \in Controllers : WF_vars(Worker(c)) /\ WF_vars(Informer(c))

Spec == Init /\ [][Next]_vars /\ Fairness

-----------------------------------------------------------------------------
(* Properties *)

\* Every variable has its type: a worker is at one of its handlers and has an
\* object in hand exactly while it runs them.
TypeOK ==
  /\ server \in Object \cup {None}
  /\ version \in Nat
  /\ cache \in [Controllers -> Object \cup {None}]
  /\ queued \in [Controllers -> BOOLEAN]
  /\ pc \in [Controllers -> {"idle", "sync", "handler", "update"}]
  /\ idx \in [Controllers -> Nat]
  /\ \A c \in Controllers : idx[c] \in 1..Len(Handlers[c])
  /\ obj \in [Controllers -> Object \cup {None}]
  /\ \A c \in Controllers : obj[c] = None <=> pc[c] = "idle"
  /\ failed \in [Controllers -> BOOLEAN]
  /\ cleaned \subseteq (Nat \X Names)
  /\ born \in Nat
  /\ faults \in Nat

\* No controller, however stale its cache, ever puts a handler's finalizer on
\* an object twice (addFinalizer): removeFinalizer's loop takes off one only.
FinalizerOnce ==
  server # None =>
    \A i, j \in 1..Len(server.finalizers) :
      /\ server.finalizers[i] = server.finalizers[j]
      /\ server.finalizers[i] \in Names
      => i = j

\* On every object a worker is about to write back, removeFinalizer's in-place
\* loop yields the list without the handler's own entry and nothing else.
LoopRemovesOne ==
  \A c \in Controllers :
    pc[c] = "update" /\ obj[c].deleting =>
      removeLoop(obj[c].finalizers, Name(c)) = removed(obj[c], Name(c))

\* A handler's finalizer leaves an object, or the object leaves the API
\* server with it, only after that handler's cleanup succeeded for this very
\* incarnation (sync runs the handler before removeFinalizer).
CleanupBeforeRelease ==
  [][\A n \in Names :
       /\ server # None /\ Carries(server, n)
       /\ server' = None \/ ~Carries(server', n)
       => <<server.uid, n>> \in cleaned']_vars

\* No cleanup runs for an object nobody asked to delete, although handlers
\* see old versions of it and of its predecessors (sync's deletionTimestamp
\* check): a cleaned object is on its way out.
CleanupOnlyIfDeleted ==
  \A n \in Names :
    server # None /\ <<server.uid, n>> \in cleaned => server.deleting

\* A handler's write changes nothing but the handler's own finalizer: those
\* of other handlers and controllers stay, although the object it
\* writes back came from a cache (addFinalizer, removeFinalizer).
OnlyOwnFinalizer ==
  [][\A c \in Controllers :
       pc[c] = "update" /\ pc'[c] # "update" /\ server # None =>
         \A f \in Names \ {Name(c)} :
           Carries(server, f) => server' # None /\ Carries(server', f)]_vars

\* An object whose deletion was requested goes away in the end: conflicts,
\* failed calls and crashes are retried (sync's errors requeue the key).
DeletionCompletes ==
  \A u \in 1..MaxObjects :
    (server # None /\ server.uid = u /\ server.deleting)
      ~> (server = None \/ server.uid # u)

\* Every registered handler gets its finalizer onto an object that lives
\* long enough (addFinalizer, retried after conflicts).
EventuallyProtected ==
  \A c \in Controllers : \A i \in DOMAIN Handlers[c] :
    (server # None)
      ~> \/ server = None \/ server.deleting
         \/ Carries(server, Handlers[c][i])

-----------------------------------------------------------------------------
(* The promise of Finalization, as the API server's object keeps it *)

Final == INSTANCE Finalization WITH
  phase <- IF server = None THEN "absent"
           ELSE IF server.deleting THEN "deleting" ELSE "live",
  held  <- {n \in Names : server # None /\ Carries(server, n)}

\* Whatever the interleaving of workers, informers, other clients and faults,
\* the object goes through the steps of Finalization and no others: remove.go's
\* sync adds finalizers to live objects only, cleans up deleted ones only,
\* and gives up its hold on an incarnation after the cleanup of that one.
Implements == Final!Spec
=============================================================================
