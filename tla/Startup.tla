------------------------------ MODULE Startup -------------------------------
(***************************************************************************)
(* The processes of a deployment from start to shutdown: each creates its  *)
(* CRDs, waits for leadership and, as leader, syncs and starts factories   *)
(* for the kinds the CRDs define.  main is external: it exits when the     *)
(* creation fails, and the process is restarted.                           *)
(***************************************************************************)
EXTENDS CRDs, Leader

CONSTANTS ProcOf,      \* Worker -> the process whose call it is
          MaxRestarts,
          MaxDisturbances \* bound: all disturbances of a behaviour together

VARIABLE restarts

vars == <<crdVars, leaderVars, restarts>>

ASSUME StartupAssumption == ProcOf \in [Worker -> Proc] /\ MaxRestarts \in Nat /\ MaxDisturbances \in Nat /\ Kinds \subseteq CRD

Workers(p) == {x \in Worker : ProcOf[x] = p}

Running(x) == [Idle EXCEPT !.pc = "list"]

Init == CRDsInit /\ LeaderInit /\ restarts = 0

\* main starts the calls: Factory.BatchCreateCRDs adds a goroutine to the wait
\* group, the function of crd.go runs in main itself.
BatchStart(p) ==
    /\ state[p] = "creating"
    /\ \E x \in Workers(p) : job[x].pc = "idle"
    /\ job' = [x \in Worker |-> IF x \in Workers(p) THEN Running(x) ELSE job[x]]
    /\ UNCHANGED <<stored, faults, leaderVars, restarts>>

Calls(x) ==
    /\ state[ProcOf[x]] = "creating"
    /\ Create(x)
    /\ UNCHANGED <<leaderVars, restarts>>

\* A call whose context is cancelled fails.
Cancelled(x) ==
    /\ state[ProcOf[x]] = "creating" /\ done[ProcOf[x]]
    /\ job[x].pc \notin {"idle", "ok", "skipped", "err"}
    /\ job' = [job EXCEPT ![x] = Failed(@)]
    /\ UNCHANGED <<stored, faults, leaderVars, restarts>>

\* BatchWait: every goroutine has ended; the error is that of the first that
\* failed.
BatchWait(p) ==
    /\ state[p] = "creating"
    /\ \A x \in Workers(p) : job[x].pc \in {"ok", "skipped", "err"}
    /\ To(p, IF \E x \in Workers(p) : job[x].pc = "err" THEN "exit1" ELSE "starting")
    /\ job' = [x \in Worker |-> IF x \in Workers(p) THEN Idle ELSE job[x]]
    /\ UNCHANGED <<stored, faults, env, sigs, done, leaderChan, funcs, synced, lease, used, restarts>>

Leads(p) ==
    /\ \/ Signal(p) \/ SetupSignalContext(p) \/ run(p) \/ Acquire(p) \/ Renew(p) \/ Release(p)
       \/ OnStoppedLeading(p) \/ OnStartedLeading(p) \/ OnLeader(p) \/ Sync(p) \/ Start(p)
       \/ \E k \in Kinds : SyncKind(p, k, crdIsReady(k))
    /\ UNCHANGED <<crdVars, restarts>>

\* The process is started again; nothing but the API server's state survives.
Restart(p) ==
    /\ Exited(p) /\ restarts < MaxRestarts /\ restarts' = restarts + 1
    /\ To(p, "creating")
    /\ sigs' = [sigs EXCEPT ![p] = 0] /\ done' = [done EXCEPT ![p] = FALSE]
    /\ leaderChan' = [leaderChan EXCEPT ![p] = FALSE]
    /\ funcs' = [funcs EXCEPT ![p] = "wait"] /\ synced' = [synced EXCEPT ![p] = {}]
    /\ env' = [env EXCEPT ![p] = Unset]
    /\ job' = [x \in Worker |-> IF x \in Workers(p) THEN Idle ELSE job[x]]
    /\ UNCHANGED <<stored, faults, lease, used>>

Passes == Tick /\ UNCHANGED <<crdVars, restarts>>

Serves(c) == Establish(c) /\ UNCHANGED <<leaderVars, restarts>>

Deletes(c) == Delete(c) /\ UNCHANGED <<leaderVars, restarts>>

Disturbances == faults + used.signals + used.skips + used.errs + restarts

Steps ==
    \/ \E p \in Proc : BatchStart(p) \/ BatchWait(p) \/ Leads(p) \/ Restart(p)
    \/ \E x \in Worker : Calls(x) \/ Cancelled(x)
    \/ \E c \in CRD : Serves(c) \/ Deletes(c)
    \/ Passes

Next == Steps /\ Disturbances' <= MaxDisturbances

\* Goroutines that can run do, the API server establishes CRDs, time passes.
\* Nothing forces a disturbance: a signal, a deletion, a failed call, a renewal
\* that comes late, or a restart.
Elector(p) ==
    /\ SetupSignalContext(p) \/ run(p) \/ Release(p) \/ OnStoppedLeading(p) \/ OnStartedLeading(p)
    /\ UNCHANGED <<crdVars, restarts>>

Functions(p) ==
    /\ \/ OnLeader(p) \/ Sync(p) \/ Start(p)
       \/ \E k \in Kinds : SyncKind(p, k, crdIsReady(k))
    /\ UNCHANGED <<crdVars, restarts, used>>

Fairness ==
    /\ \A p \in Proc :
          /\ WF_vars(BatchStart(p)) /\ WF_vars(BatchWait(p))
          /\ WF_vars(Elector(p)) /\ WF_vars(Functions(p))
          /\ SF_vars(Acquire(p) /\ UNCHANGED <<crdVars, restarts>>)
    /\ \A x \in Worker : WF_vars(Calls(x) /\ UNCHANGED faults)
    /\ \A c \in CRD : WF_vars(Serves(c))
    /\ WF_vars(Passes /\ UNCHANGED used)

Spec == Init /\ [][Next]_vars /\ Fairness

\* In the end a process leads and its controllers run, unless every process
\* has exited or a CRD is missing: nobody waits on the lease of a process that
\* is gone, and the caches the leader waits for are of CRDs it had established.
EventuallyServed ==
    <>[]( \/ \E p \in Proc : state[p] = "leading" /\ funcs[p] = "run"
          \/ \A p \in Proc : Exited(p)
          \/ \E c \in Kinds : ~Exists(c) )
=============================================================================
