------------------------------- MODULE Leader -------------------------------
(***************************************************************************)
(* Leader election (pkg/leader) and shutdown signals (pkg/signals) of the  *)
(* processes of a deployment, and what a leader runs: start.All over its   *)
(* factories (pkg/start, pkg/generic/factory.go).  The lease and the       *)
(* elector of client-go are external.  Time is counted in ticks, durations *)
(* are scaled so that their order is the code's (45s/30s/2s is 3/2/1).     *)
(***************************************************************************)
EXTENDS Integers, FiniteSets

CONSTANTS Proc,
          Hostname,   \* Proc -> its host name
          Envs,       \* Proc -> the environments it may be started with
          OrDie,      \* the processes that register with OnLeaderOrDie, not OnLeader
          Kinds,      \* the kinds their factories watch
          Nobody, Unset, Unparsable,
          MaxSignals, MaxSkips, MaxErrs

VARIABLES state,   \* Proc -> "creating", "starting", "acquire", "leading", "released", "exit0", "exit1"
          env,     \* Proc -> the environment variables, once they are read
          sigs,    \* Proc -> signals sent and not yet handled
          done,    \* Proc -> the signal context is cancelled
          leaderChan, \* Proc -> Manager.leaderChan is closed
          funcs,   \* Proc -> the function given to OnLeader
          synced,  \* Proc -> the kinds whose cache is synced
          lease,   \* the Lease object
          used     \* how often each bounded disturbance happened

leaderVars == <<state, env, sigs, done, leaderChan, funcs, synced, lease, used>>

\* What the environment variables of a process may hold: durations are numbers
\* of either sign, or not set, or not numbers at all.
Duration == {Unset, Unparsable} \cup Int
Env == [dev: BOOLEAN, lease: Duration, renew: Duration, retry: Duration]

ASSUME LeaderAssumption ==
    /\ \A p, q \in Proc : Hostname[p] = Hostname[q] => p = q
    /\ \A p \in Proc : Envs[p] \subseteq Env
    /\ Nobody \notin {Hostname[p] : p \in Proc}
    /\ MaxSignals \in Nat /\ MaxSkips \in Nat /\ MaxErrs \in Nat

Exited(p) == state[p] \in {"exit0", "exit1"}

LeaderInit ==
    /\ state = [p \in Proc |-> "creating"]
    /\ env = [p \in Proc |-> Unset]
    /\ sigs = [p \in Proc |-> 0]
    /\ done = [p \in Proc |-> FALSE]
    /\ leaderChan = [p \in Proc |-> FALSE]
    /\ funcs = [p \in Proc |-> "wait"]
    /\ synced = [p \in Proc |-> {}]
    /\ lease = [holder |-> Nobody, duration |-> 0, age |-> 0]
    /\ used = [signals |-> 0, skips |-> 0, errs |-> 0]

To(p, s) == state' = [state EXCEPT ![p] = s]

Uses1(f, max) == used[f] < max /\ used' = [used EXCEPT ![f] = @ + 1]

-----------------------------------------------------------------------------
(***************************************************************************)
(* Signals                                                                 *)
(***************************************************************************)

\* A signal, or RequestShutdown: the channel holds two, a third is dropped.
Signal(p) ==
    /\ ~Exited(p) /\ sigs[p] < 2
    /\ Uses1("signals", MaxSignals)
    /\ sigs' = [sigs EXCEPT ![p] = @ + 1]
    /\ UNCHANGED <<state, env, done, leaderChan, funcs, synced, lease>>

\* The goroutine of SetupSignalContext: the first signal cancels the context,
\* the second ends the process.
SetupSignalContext(p) ==
    /\ ~Exited(p) /\ sigs[p] > 0
    /\ sigs' = [sigs EXCEPT ![p] = @ - 1]
    /\ \/ ~done[p] /\ done' = [done EXCEPT ![p] = TRUE] /\ UNCHANGED state
       \/ done[p] /\ To(p, "exit1") /\ UNCHANGED done
    /\ UNCHANGED <<env, leaderChan, funcs, synced, lease, used>>

-----------------------------------------------------------------------------
(***************************************************************************)
(* Election                                                                *)
(***************************************************************************)

\* The durations of a process: the defaults, those of development mode, each
\* overridden by its own variable.  NoConfig when one cannot be parsed.
NoConfig == [lease |-> 0, renew |-> 0, retry |-> 0]

computeConfig(e) ==
    LET Or(v, d) == IF v = Unset THEN d ELSE v
        c == [lease |-> Or(e.lease, IF e.dev THEN 4 ELSE 3),
              renew |-> Or(e.renew, IF e.dev THEN 3 ELSE 2),
              retry |-> Or(e.retry, 1)]
    IN IF Unparsable \in {e.lease, e.renew, e.retry} THEN NoConfig ELSE c

\* leaderelection.NewLeaderElector refuses durations that are out of order.
Valid(c) == c.lease > c.renew /\ c.renew > c.retry /\ c.retry > 0

\* A bug: every process of the deployment takes the same identity.
IdentityShared(p) == Hostname[CHOOSE q \in Proc : TRUE]

\* The identity of the lock is the host name.
Identity(p) == Hostname[p]

config(p) == computeConfig(env[p])

\* Manager.Start and run, up to the elector: a configuration that cannot be
\* parsed is fatal, one the elector refuses panics.
run(p) ==
    /\ state[p] = "starting"
    /\ \E e \in Envs[p] :
          /\ env' = [env EXCEPT ![p] = e]
          /\ To(p, IF Valid(computeConfig(e)) THEN "acquire" ELSE "exit1")
    /\ UNCHANGED <<sigs, done, leaderChan, funcs, synced, lease, used>>

\* The elector takes a lease that is free, expired, or under its identity.
Acquire(p) ==
    /\ state[p] = "acquire" /\ ~done[p]
    /\ lease.holder \in {Nobody, Identity(p)} \/ lease.age >= lease.duration
    /\ lease' = [holder |-> Identity(p), duration |-> config(p).lease, age |-> 0]
    /\ To(p, "leading")
    /\ UNCHANGED <<env, sigs, done, leaderChan, funcs, synced, used>>

Renew(p) ==
    /\ state[p] = "leading" /\ ~done[p]
    /\ lease.holder = Identity(p) /\ lease.age \in 1 .. config(p).renew - 1
    /\ lease' = [lease EXCEPT !.age = 0]
    /\ UNCHANGED <<state, env, sigs, done, leaderChan, funcs, synced, used>>

\* The renew loop ends when the context is cancelled or the renew deadline has
\* passed.  ReleaseOnCancel: the lease is released, if that call succeeds,
\* before OnStoppedLeading is called and while the functions still run.
Release(p) ==
    /\ state[p] = "leading"
    /\ done[p] \/ lease.age >= config(p).renew
    /\ To(p, "released")
    /\ \/ lease' = IF lease.holder = Identity(p) THEN [lease EXCEPT !.holder = Nobody] ELSE lease
       \/ UNCHANGED lease
    /\ UNCHANGED <<env, sigs, done, leaderChan, funcs, synced, used>>

\* A bug: without a default case the callback waits for the context.
OnStoppedLeadingWaits(p) ==
    /\ state[p] = "released" \/ state[p] = "acquire"
    /\ done[p]
    /\ To(p, "exit0")
    /\ UNCHANGED <<env, sigs, done, leaderChan, funcs, synced, lease, used>>

\* The end of the elector: a candidate whose context is cancelled, or a leader
\* that has stopped.  Exit 0 when termination was requested, fatal otherwise.
OnStoppedLeading(p) ==
    /\ state[p] = "released" \/ (state[p] = "acquire" /\ done[p])
    /\ To(p, IF done[p] THEN "exit0" ELSE "exit1")
    /\ UNCHANGED <<env, sigs, done, leaderChan, funcs, synced, lease, used>>

\* Time passes.  A leader at its renew deadline stops before the next tick; it
\* fails to renew in time only MaxSkips times.
Tick ==
    /\ lease.holder # Nobody /\ lease.age < lease.duration
    /\ \A p \in Proc : state[p] = "leading" /\ lease.holder = Identity(p) =>
          lease.age < config(p).renew
    /\ lease' = [lease EXCEPT !.age = @ + 1]
    /\ IF \E p \in Proc : state[p] = "leading" THEN Uses1("skips", MaxSkips) ELSE UNCHANGED used
    /\ UNCHANGED <<state, env, sigs, done, leaderChan, funcs, synced>>

-----------------------------------------------------------------------------
(***************************************************************************)
(* What the leader runs                                                    *)
(***************************************************************************)

\* OnStartedLeading starts the callback of Manager.Start as a goroutine: it
\* stores the context and closes leaderChan.
OnStartedLeading(p) ==
    /\ state[p] \in {"leading", "released"} /\ ~leaderChan[p]
    /\ leaderChan' = [leaderChan EXCEPT ![p] = TRUE]
    /\ UNCHANGED <<state, env, sigs, done, funcs, synced, lease, used>>

Alive(p) == ~Exited(p)

\* A bug: a function that failed is not called again.
OnLeaderOnce(p) ==
    /\ Alive(p) /\ leaderChan[p] /\ funcs[p] = "wait"
    /\ funcs' = [funcs EXCEPT ![p] = "sync"]
    /\ UNCHANGED <<state, env, sigs, done, leaderChan, synced, lease, used>>

\* The functions registered with OnLeader and OnLeaderOrDie wait for the
\* channel, then call f, which is start.All.
OnLeader(p) ==
    /\ Alive(p) /\ leaderChan[p] /\ funcs[p] \in {"wait", "retry"}
    /\ funcs' = [funcs EXCEPT ![p] = "sync"]
    /\ UNCHANGED <<state, env, sigs, done, leaderChan, synced, lease, used>>

\* An error of f: OnLeader sleeps and calls f again, OnLeaderOrDie is fatal.
fails(p) ==
    IF p \in OrDie
    THEN To(p, "exit1") /\ UNCHANGED funcs
    ELSE funcs' = [funcs EXCEPT ![p] = "retry"] /\ UNCHANGED state

\* Factory.Sync: the cache of kind k is synced once the kind is served.
SyncKind(p, k, served) ==
    /\ Alive(p) /\ funcs[p] = "sync" /\ k \notin synced[p] /\ served /\ ~done[p]
    /\ synced' = [synced EXCEPT ![p] = @ \cup {k}]
    /\ UNCHANGED <<state, env, sigs, done, leaderChan, funcs, lease, used>>

\* Every Sync has ended: with an error when the context was cancelled before
\* all caches were synced.
Sync(p) ==
    /\ Alive(p) /\ funcs[p] = "sync"
    /\ \/ synced[p] = Kinds /\ funcs' = [funcs EXCEPT ![p] = "start"] /\ UNCHANGED state
       \/ synced[p] # Kinds /\ done[p] /\ fails(p)
    /\ UNCHANGED <<env, sigs, done, leaderChan, synced, lease, used>>

\* Start: Factory.Start of each factory syncs again and starts the
\* controllers; the first error ends the loop.
Start(p) ==
    /\ Alive(p) /\ funcs[p] = "start"
    /\ \/ funcs' = [funcs EXCEPT ![p] = "run"] /\ UNCHANGED <<state, used>>
       \/ Uses1("errs", MaxErrs) /\ fails(p)
    /\ UNCHANGED <<env, sigs, done, leaderChan, synced, lease>>

\* Two electors never lead at the same time, whatever environment each process
\* was started with and however a leader stops: by a signal, at its renew
\* deadline, or by a crash and a restart under the same host name.  So the
\* functions of two processes run together only once one of them has stopped.
OneLeads ==
    \A p, q \in Proc : state[p] = "leading" /\ state[q] = "leading" => p = q

Acting(p) == Alive(p) /\ leaderChan[p] /\ funcs[p] # "wait"

\* The lease is released before the process ends (ReleaseOnCancel), so the
\* functions of two processes may run at the same time; but not forever: the
\* process that stopped leading exits.
OverlapEnds ==
    (\E p, q \in Proc : p # q /\ Acting(p) /\ Acting(q)) ~>
        ~(\E p, q \in Proc : p # q /\ Acting(p) /\ Acting(q))
=============================================================================
