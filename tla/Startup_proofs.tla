--------------------------- MODULE Startup_proofs ---------------------------
(* Proofs about processes that start, lead and stop: two of them never lead  *)
(* at the same time, and a call that creates CRDs succeeds only when they    *)
(* were established; for any processes, environments, calls and bounds.      *)
EXTENDS Startup, SequenceTheorems, TLAPS

-----------------------------------------------------------------------------
(* Leadership *)

\* The types of the variables of the election.
States == {"creating", "starting", "acquire", "leading", "released", "exit0", "exit1"}
Holders == {Nobody} \cup {Hostname[p] : p \in Proc}

LeaderTypeOK ==
    /\ state \in [Proc -> States]
    /\ env \in [Proc -> Env \cup {Unset}]
    /\ lease \in [holder: Holders, duration: Int, age: Int]

\* A process in the election has durations that are in order.
Configured ==
    \A p \in Proc : state[p] \in {"acquire", "leading"} =>
        env[p] \in Env /\ Valid(config(p))

\* A process leads only under a lease of its own that it has renewed in time:
\* it stops at its renew deadline, which is before the lease expires.
LeadsInTime ==
    \A p \in Proc : state[p] = "leading" =>
        /\ lease.holder = Identity(p)
        /\ lease.duration = config(p).lease
        /\ lease.age <= config(p).renew

\* The inductive invariant of the election.
LeaderInv == LeaderTypeOK /\ Configured /\ LeadsInTime

\* The durations of a valid configuration are numbers.
LEMMA ConfigType ==
  ASSUME NEW e \in Env
  PROVE  computeConfig(e) \in [lease: Int, renew: Int, retry: Int]
BY DEF Env, Duration, computeConfig, NoConfig

\* Two processes that lead have the same lease, and so the same host name.
LEMMA InTimeIsAlone ==
  ASSUME LeaderInv
  PROVE  OneLeads
BY LeaderAssumption DEF LeaderInv, LeadsInTime, OneLeads, Identity

\* A step that leaves the lease and the environment alone and takes nobody
\* into the election changes nothing.
LEMMA LeaderUntouched ==
  ASSUME LeaderInv, UNCHANGED <<env, lease>>, state' \in [Proc -> States],
         \A p \in Proc : state'[p] \in {"acquire", "leading"} => state'[p] = state[p]
  PROVE  LeaderInv'
BY DEF LeaderInv, LeaderTypeOK, Configured, LeadsInTime, config, Valid, Identity

\* Manager.Start takes a process into the election with a valid configuration.
LEMMA RunSafe ==
  ASSUME LeaderInv, NEW p \in Proc, run(p)
  PROVE  LeaderInv'
<1>1. PICK e \in Envs[p] :
        /\ env' = [env EXCEPT ![p] = e]
        /\ To(p, IF Valid(computeConfig(e)) THEN "acquire" ELSE "exit1")
  BY DEF run
<1>2. e \in Env
  BY <1>1, LeaderAssumption
<1>3. LeaderTypeOK'
  BY <1>1, <1>2 DEF run, To, LeaderInv, LeaderTypeOK, States
<1>4. Configured'
  BY <1>1, <1>2 DEF run, To, LeaderInv, LeaderTypeOK, Configured, config, Valid
<1>5. LeadsInTime'
  BY <1>1 DEF run, To, LeaderInv, LeaderTypeOK, LeadsInTime, config, Identity
<1> QED
  BY <1>3, <1>4, <1>5 DEF LeaderInv

\* Nobody leads when the lease can be taken: a leader's lease is its own and
\* has not expired.
LEMMA AcquireSafe ==
  ASSUME LeaderInv, NEW p \in Proc, Acquire(p)
  PROVE  LeaderInv'
<1>1. /\ state[p] = "acquire" /\ env[p] \in Env /\ Valid(config(p))
      /\ config(p) \in [lease: Int, renew: Int, retry: Int]
  BY ConfigType DEF Acquire, LeaderInv, Configured, config
<1>2. ASSUME NEW q \in Proc, state[q] = "leading"
      PROVE  FALSE
  <2>1. /\ lease.holder = Identity(q) /\ lease.age <= config(q).renew
        /\ lease.duration = config(q).lease /\ config(q).renew < config(q).lease
        /\ config(q) \in [lease: Int, renew: Int, retry: Int]
    BY <1>2, ConfigType DEF LeaderInv, Configured, LeadsInTime, Valid, config
  <2>2. lease.age < lease.duration
    BY <2>1 DEF LeaderInv, LeaderTypeOK
  <2>3. q # p
    BY <1>1, <1>2
  <2>4. Identity(q) \notin {Nobody, Identity(p)}
    BY <2>3, LeaderAssumption DEF Identity
  <2> QED
    BY <2>1, <2>2, <2>4 DEF Acquire, LeaderInv, LeaderTypeOK
<1>3. /\ lease' = [holder |-> Identity(p), duration |-> config(p).lease, age |-> 0]
      /\ state' = [state EXCEPT ![p] = "leading"] /\ env' = env
  BY DEF Acquire, To
<1>4. LeaderTypeOK'
  BY <1>1, <1>3 DEF LeaderInv, LeaderTypeOK, States, Holders, Identity
<1>5. Configured'
  BY <1>1, <1>3 DEF LeaderInv, LeaderTypeOK, Configured, config, Valid
<1>6. 0 <= config(p).renew
  BY <1>1 DEF Valid
<1>7. LeadsInTime'
  BY <1>1, <1>2, <1>3, <1>6 DEF LeaderInv, LeaderTypeOK, LeadsInTime, config, Identity
<1> QED
  BY <1>4, <1>5, <1>7 DEF LeaderInv

\* A renewal sets the age of the lease back.
LEMMA RenewSafe ==
  ASSUME LeaderInv, NEW p \in Proc, Renew(p)
  PROVE  LeaderInv'
<1>1. /\ lease' = [lease EXCEPT !.age = 0] /\ UNCHANGED <<state, env>>
  BY DEF Renew
<1>2. ASSUME NEW q \in Proc, state[q] = "leading" PROVE 0 <= config(q).renew
  BY <1>2, ConfigType DEF LeaderInv, Configured, Valid, config
<1>3. LeaderTypeOK'
  BY <1>1 DEF LeaderInv, LeaderTypeOK
<1>4. Configured'
  BY <1>1 DEF LeaderInv, Configured, config, Valid
<1>5. LeadsInTime'
  BY <1>1, <1>2 DEF LeaderInv, LeaderTypeOK, LeadsInTime, config, Identity
<1> QED
  BY <1>3, <1>4, <1>5 DEF LeaderInv

\* The lease that a process gives up is no other leader's.
LEMMA ReleaseSafe ==
  ASSUME LeaderInv, NEW p \in Proc, Release(p)
  PROVE  LeaderInv'
<1>1. /\ state[p] = "leading" /\ state' = [state EXCEPT ![p] = "released"] /\ env' = env
      /\ lease' \in {lease, [lease EXCEPT !.holder = Nobody]}
  BY DEF Release, To
<1>2. \A q \in Proc : state'[q] = "leading" => q = p
  BY <1>1, InTimeIsAlone DEF OneLeads, LeaderInv, LeaderTypeOK
<1>3. \A q \in Proc : state'[q] # "leading"
  BY <1>1, <1>2 DEF LeaderInv, LeaderTypeOK
<1>4. LeaderTypeOK'
  BY <1>1 DEF LeaderInv, LeaderTypeOK, States, Holders
<1>5. Configured'
  BY <1>1, <1>3 DEF LeaderInv, LeaderTypeOK, Configured, config, Valid
<1> QED
  BY <1>3, <1>4, <1>5 DEF LeaderInv, LeadsInTime

\* Time passes a renew deadline only with the leader gone.
LEMMA TickSafe ==
  ASSUME LeaderInv, Tick
  PROVE  LeaderInv'
<1>1. lease' = [lease EXCEPT !.age = @ + 1] /\ UNCHANGED <<state, env>>
  BY DEF Tick
<1>2. LeaderTypeOK'
  BY <1>1 DEF LeaderInv, LeaderTypeOK
<1>3. Configured'
  BY <1>1 DEF LeaderInv, Configured, config, Valid
<1>4. ASSUME NEW p \in Proc, state[p] = "leading"
      PROVE  lease.age + 1 <= config(p).renew
  <2>1. env[p] \in Env /\ lease.age < config(p).renew
    BY <1>4 DEF Tick, LeaderInv, Configured, LeadsInTime
  <2> QED
    BY <2>1, ConfigType DEF config, LeaderInv, LeaderTypeOK
<1>5. LeadsInTime'
  BY <1>1, <1>4 DEF LeaderInv, LeaderTypeOK, LeadsInTime, config, Identity
<1> QED
  BY <1>2, <1>3, <1>5 DEF LeaderInv

\* Every other step of a process keeps it where it is in the election, or
\* takes it out.
LEMMA OthersSafe ==
  ASSUME LeaderInv, NEW p \in Proc,
         \/ Signal(p) \/ SetupSignalContext(p) \/ OnStoppedLeading(p)
         \/ OnStartedLeading(p) \/ OnLeader(p) \/ Sync(p) \/ Start(p)
         \/ \E k \in Kinds : SyncKind(p, k, crdIsReady(k))
  PROVE  LeaderInv'
<1>1. UNCHANGED <<env, lease>>
  BY DEF Signal, SetupSignalContext, OnStoppedLeading, OnStartedLeading, OnLeader,
         Sync, Start, SyncKind
<1>2. state' = state \/ \E s \in {"exit0", "exit1"} : state' = [state EXCEPT ![p] = s]
  BY DEF Signal, SetupSignalContext, OnStoppedLeading, OnStartedLeading, OnLeader,
         Sync, Start, SyncKind, fails, To
<1>3. /\ state' \in [Proc -> States]
      /\ \A q \in Proc : state'[q] \in {"acquire", "leading"} => state'[q] = state[q]
  BY <1>2 DEF LeaderInv, LeaderTypeOK, States
<1> QED
  BY <1>1, <1>3, LeaderUntouched

\* The lease invariant through every step of the deployment.
LEMMA LeaderStep ==
  ASSUME LeaderInv, [Next]_vars
  PROVE  LeaderInv'
<1>1. ASSUME NEW p \in Proc, BatchStart(p) \/ BatchWait(p)
      PROVE  LeaderInv'
  <2>1. UNCHANGED <<env, lease>>
    BY <1>1 DEF BatchStart, BatchWait, leaderVars
  <2>2. state' = state \/ \E s \in {"exit1", "starting"} : state' = [state EXCEPT ![p] = s]
    BY <1>1 DEF BatchStart, BatchWait, leaderVars, To
  <2>3. /\ state' \in [Proc -> States]
        /\ \A q \in Proc : state'[q] \in {"acquire", "leading"} => state'[q] = state[q]
    BY <2>2 DEF LeaderInv, LeaderTypeOK, States
  <2> QED
    BY <2>1, <2>3, LeaderUntouched
<1>2. ASSUME NEW p \in Proc, Leads(p)
      PROVE  LeaderInv'
  BY <1>2, RunSafe, AcquireSafe, RenewSafe, ReleaseSafe, OthersSafe DEF Leads
<1>3. ASSUME NEW p \in Proc, Restart(p)
      PROVE  LeaderInv'
  <2>1. /\ state' = [state EXCEPT ![p] = "creating"] /\ lease' = lease
        /\ env' = [env EXCEPT ![p] = Unset]
    BY <1>3 DEF Restart, To
  <2>2. LeaderTypeOK'
    BY <2>1 DEF LeaderInv, LeaderTypeOK, States
  <2>3. Configured' /\ LeadsInTime'
    BY <2>1 DEF LeaderInv, LeaderTypeOK, Configured, LeadsInTime, config, Valid, Identity
  <2> QED
    BY <2>2, <2>3 DEF LeaderInv
<1>4. ASSUME UNCHANGED <<state, env, lease>>
      PROVE  LeaderInv'
  BY <1>4, LeaderUntouched DEF LeaderInv, LeaderTypeOK
<1>5. ASSUME NEW x \in Worker, Calls(x) \/ Cancelled(x)
      PROVE  LeaderInv'
  BY <1>4, <1>5 DEF Calls, Cancelled, leaderVars
<1>6. ASSUME NEW c \in CRD, Serves(c) \/ Deletes(c)
      PROVE  LeaderInv'
  BY <1>4, <1>6 DEF Serves, Deletes, leaderVars
<1>7. ASSUME Passes
      PROVE  LeaderInv'
  BY <1>7, TickSafe DEF Passes
<1>8. ASSUME UNCHANGED vars
      PROVE  LeaderInv'
  BY <1>4, <1>8 DEF vars, leaderVars
<1> QED
  BY <1>1, <1>2, <1>3, <1>5, <1>6, <1>7, <1>8 DEF Next, Steps

\* It holds at first.
LEMMA LeaderInitially == Init => LeaderInv
BY DEF Init, LeaderInit, LeaderInv, LeaderTypeOK, Configured, LeadsInTime, States, Holders

\* Two electors never lead at the same time, whatever the environments, the
\* signals, the renewals that come late and the restarts (pkg/leader).
THEOREM NeverTwoLeaders == Spec => []OneLeads
<1>1. LeaderInv /\ [Next]_vars => LeaderInv'
  BY LeaderStep
<1>2. LeaderInv => OneLeads
  BY InTimeIsAlone
<1> QED
  BY LeaderInitially, <1>1, <1>2, PTL DEF Spec

-----------------------------------------------------------------------------
(* CRDs *)

\* The types of a call and of a stored definition.
PCs == {"idle", "list", "first", "ensure", "get", "relist", "wait", "ok", "skipped", "err"}
Seen == [CRD -> {"no", "current", "stale"}]
GVKs == UNION {{Key[x][c] : c \in CRD} : x \in Worker}
Job == [pc: PCs, i: Nat, seen: Seen, ready: SUBSET CRD,
        status: UNION {[D -> CRD] : D \in SUBSET GVKs}, todo: SUBSET CRD, up: SUBSET CRD]
Definition == [spec: Before \cup Worker \cup {Deleter}, established: BOOLEAN]

\* The definitions that a call of x, at j, has written.
Handled(x, j) == IF j.pc \in {"relist", "wait"} THEN DOMAIN Crds[x] ELSE 1 .. j.i - 1

\* A definition that was written and is ready now was seen to be (ready is
\* the set of CRDs that are).
Followed(x, j, ready) ==
    \A n \in Handled(x, j) : Crds[x][n] \in ready => Crds[x][n] \in j.up

\* BatchCreateCRDs of crd.go: what its second list showed and what it has
\* waited for was established.
Waited(x, j) ==
    Uses[x] = "batch" =>
        /\ j.pc # "wait" => j.ready = {}
        /\ j.pc = "wait" => \A n \in DOMAIN Crds[x] :
              n < j.i \/ Crds[x][n] \in j.ready => Crds[x][n] \in j.up

\* CreateCRDs of init.go: the map has for every definition that was written
\* the definition itself or a later one with its GVK.
Mapped(x, j) ==
    Uses[x] = "factory" =>
        \A n \in Handled(x, j) : LET g == Key[x][Crds[x][n]] IN
            /\ g \in DOMAIN j.status
            /\ \E m \in DOMAIN Crds[x] :
                  n <= m /\ Key[x][Crds[x][m]] = g /\ j.status[g] = Crds[x][m]
\* Its second wait has to do with every definition that it has not seen.
LeftToDo(x, j) ==
    Uses[x] = "factory" /\ j.pc = "wait" =>
        \A c \in Asks(x) : c \in j.up \/ c \in j.todo \/ Hidden(x, c)

\* A call that succeeded has seen every definition, but for the hidden ones.
Ended(x, j) == j.pc = "ok" => \A c \in Asks(x) : c \in j.up \/ Hidden(x, c)

\* Where a call is in its list of definitions.
At(x, j) == /\ j.i \in DOMAIN Crds[x]
            /\ j.pc \notin {"ensure", "get", "wait"} => j.i = 1
            /\ j.pc = "first" => Uses[x] = "factory"

\* All of these.
JobInv(x, j, ready) ==
    /\ At(x, j) /\ Followed(x, j, ready) /\ Waited(x, j)
    /\ Mapped(x, j) /\ LeftToDo(x, j) /\ Ended(x, j)

\* The inductive invariant of the creation of CRDs.
CRDsInv ==
    /\ stored \in [CRD -> Definition]
    /\ job \in [Worker -> Job]
    /\ \A x \in Worker : JobInv(x, job[x], getReadyCRDs)

\* A call asks for at least one definition.
LEMMA CrdsType ==
  ASSUME NEW x \in Worker
  PROVE  /\ Crds[x] \in Seq(CRD) /\ Len(Crds[x]) \in Nat \ {0}
         /\ DOMAIN Crds[x] = 1 .. Len(Crds[x])
         /\ \A n \in DOMAIN Crds[x] : Crds[x][n] \in CRD /\ Crds[x][n] \in Asks(x)
<1>1. Crds[x] \in Seq(CRD) /\ Crds[x] # <<>>
  BY CRDsAssumption
<1> QED
  BY <1>1, EmptySeq, LenProperties, ElementOfSeq DEF Asks

\* A call is what its fields are.
LEMMA SameRecord ==
  ASSUME NEW r \in Job, NEW q \in Job, r.pc = q.pc, r.i = q.i, r.seen = q.seen,
         r.ready = q.ready, r.status = q.status, r.todo = q.todo, r.up = q.up
  PROVE  r = q
BY DEF Job

\* The empty map is one of GVKs.
LEMMA NoStatus == <<>> \in UNION {[D -> CRD] : D \in SUBSET GVKs}
<1>1. <<>> \in [{} -> CRD]
  OBVIOUS
<1> QED
  BY <1>1

\* A call that ends or fails has its type.
LEMMA IdleType ==
  ASSUME NEW p \in PCs, NEW u \in SUBSET CRD
  PROVE  [Idle EXCEPT !.pc = p, !.up = u] \in Job /\ [Idle EXCEPT !.pc = p] \in Job
BY NoStatus DEF Idle, Job, Seen, PCs

\* A call that has not begun is idle.
LEMMA IdleIsIdle == Idle = [Idle EXCEPT !.pc = "idle"]
<1> DEFINE r == [Idle EXCEPT !.pc = "idle"]
<1>1. r \in Job /\ Idle \in Job
  <2>1. r \in Job
    BY IdleType DEF PCs
  <2>2. Idle \in Job
    BY NoStatus DEF Idle, Job, Seen, PCs
  <2> QED
    BY <2>1, <2>2
<1>2. /\ r.pc = Idle.pc /\ r.i = Idle.i /\ r.seen = Idle.seen /\ r.ready = Idle.ready
      /\ r.status = Idle.status /\ r.todo = Idle.todo /\ r.up = Idle.up
  BY DEF Idle
<1> HIDE DEF r
<1> QED
  BY <1>1, <1>2, SameRecord DEF r

\* A call that has not begun, or has failed, has nothing to answer for.
LEMMA FreshJob ==
  ASSUME NEW x \in Worker, NEW p \in {"idle", "list", "skipped", "err"}, NEW ready
  PROVE  [Idle EXCEPT !.pc = p] \in Job /\ JobInv(x, [Idle EXCEPT !.pc = p], ready)
<1> DEFINE j == [Idle EXCEPT !.pc = p]
<1>1. j \in Job
  BY IdleType DEF PCs
<1>2. j.pc = p /\ j.i = 1 /\ j.ready = {}
  BY DEF Idle
<1>3. Handled(x, j) = {}
  BY <1>2 DEF Handled
<1> HIDE DEF j
<1>4. JobInv(x, j, ready)
  BY <1>2, <1>3, CrdsType DEF JobInv, At, Followed, Waited, Mapped, LeftToDo, Ended
<1> QED
  BY <1>1, <1>4 DEF j

\* What was seen of the versions, and fewer CRDs that are ready, change nothing.
LEMMA SeenIsFree ==
  ASSUME NEW x \in Worker, NEW j \in Job, NEW R, NEW Q, Q \subseteq R, JobInv(x, j, R),
         NEW s \in Seen
  PROVE  [j EXCEPT !.seen = s] \in Job /\ JobInv(x, [j EXCEPT !.seen = s], Q)
<1> DEFINE k == [j EXCEPT !.seen = s]
<1>1. /\ k \in Job /\ k.pc = j.pc /\ k.i = j.i /\ k.ready = j.ready
      /\ k.status = j.status /\ k.todo = j.todo /\ k.up = j.up
  BY DEF Job
<1> HIDE DEF k
<1>2. Handled(x, k) = Handled(x, j)
  BY <1>1 DEF Handled
<1>3. JobInv(x, k, Q)
  BY <1>1, <1>2 DEF JobInv, At, Followed, Waited, Mapped, LeftToDo, Ended
<1> QED
  BY <1>1, <1>3 DEF k

\* The call of another worker, when a version it has seen is stale.
LEMMA StaleKeeps ==
  ASSUME NEW x \in Worker, NEW j \in Job, NEW R, NEW Q, Q \subseteq R, JobInv(x, j, R),
         NEW c \in CRD
  PROVE  Stale(j, c) \in Job /\ JobInv(x, Stale(j, c), Q)
<1> DEFINE s == IF j.seen[c] = "current" THEN [j.seen EXCEPT ![c] = "stale"] ELSE j.seen
<1>1. s \in Seen
  BY DEF Job, Seen
<1>2. Stale(j, c) = [j EXCEPT !.seen = s]
  BY DEF Stale, Job
<1> QED
  BY <1>1, <1>2, SeenIsFree

\* A step of the call of x that writes nothing.
LEMMA BecomesKeeps ==
  ASSUME CRDsInv, NEW x \in Worker, NEW j \in Job, JobInv(x, j, getReadyCRDs),
         Becomes(x, j), UNCHANGED stored
  PROVE  CRDsInv'
<1>1. getReadyCRDs' = getReadyCRDs
  BY DEF getReadyCRDs, crdIsReady, Exists
<1>2. \A y \in Worker : job'[y] \in Job /\ JobInv(y, job'[y], getReadyCRDs)
  BY DEF CRDsInv, Becomes
<1> QED
  BY <1>1, <1>2 DEF CRDsInv, Becomes

\* A write of c by the call of x: c is as ready as it was.
LEMMA WriteKeeps ==
  ASSUME CRDsInv, NEW x \in Worker, NEW j \in Job, JobInv(x, j, getReadyCRDs), NEW c \in CRD,
         Writes(c, Written(c, x), x, j)
  PROVE  CRDsInv'
<1>1. stored' \in [CRD -> Definition]
  BY DEF CRDsInv, Writes, Written, Definition
<1>2. getReadyCRDs' \subseteq getReadyCRDs
  <2>1. ASSUME NEW d \in CRD, crdIsReady(d)' PROVE crdIsReady(d)
    BY <2>1 DEF CRDsInv, Writes, Written, crdIsReady, Exists, Definition
  <2> QED
    BY <2>1 DEF getReadyCRDs
<1>3. [j EXCEPT !.seen[c] = "no"] = [j EXCEPT !.seen = [j.seen EXCEPT ![c] = "no"]]
  BY DEF Job
<1>4. [j.seen EXCEPT ![c] = "no"] \in Seen
  BY DEF Job, Seen
<1>5. ASSUME NEW y \in Worker
      PROVE  job'[y] \in Job /\ JobInv(y, job'[y], getReadyCRDs')
  <2>1. CASE y = x
    BY <1>2, <1>3, <1>4, <2>1, SeenIsFree DEF Writes
  <2>2. CASE y # x
    BY <1>2, <2>2, StaleKeeps DEF CRDsInv, Writes
  <2> QED
    BY <2>1, <2>2
<1> QED
  BY <1>1, <1>5 DEF CRDsInv, Writes

\* The call of x before its second list, at another place with the same i.
LEMMA MovesOn ==
  ASSUME NEW x \in Worker, NEW j \in Job, NEW R, JobInv(x, j, R),
         NEW p \in {"first", "ensure", "get"}, j.pc \in {"list", "first", "ensure", "get"},
         p = "first" => j.i = 1 /\ Uses[x] = "factory"
  PROVE  [j EXCEPT !.pc = p] \in Job /\ JobInv(x, [j EXCEPT !.pc = p], R)
<1> DEFINE k == [j EXCEPT !.pc = p]
<1>1. /\ k \in Job /\ k.pc = p /\ k.i = j.i /\ k.ready = j.ready
      /\ k.status = j.status /\ k.todo = j.todo /\ k.up = j.up
  BY DEF Job, PCs
<1> HIDE DEF k
<1>2. Handled(x, k) = Handled(x, j)
  BY <1>1 DEF Handled
<1>3. JobInv(x, k, R)
  BY <1>1, <1>2 DEF JobInv, At, Followed, Waited, Mapped, LeftToDo, Ended
<1> QED
  BY <1>1, <1>3 DEF k

\* The definition the call is at was written: it goes on with the next one, or
\* with the second list, and has taken down whether this one is established.
LEMMA EnsuredJob ==
  ASSUME CRDsInv, NEW x \in Worker, NEW j \in Job, JobInv(x, j, getReadyCRDs),
         j.pc \in {"ensure", "get"}, j.i = job[x].i, j.up = job[x].up,
         Uses[x] = "factory" =>
            /\ Key[x][Crds[x][j.i]] \in DOMAIN j.status
            /\ j.status[Key[x][Crds[x][j.i]]] = Crds[x][j.i]
  PROVE  ensured(x, j) \in Job /\ JobInv(x, ensured(x, j), getReadyCRDs)
<1> DEFINE c == Crds[x][j.i]
           k == ensured(x, j)
<1>1. /\ c = Asked(x) /\ c \in CRD /\ j.i \in 1 .. Len(Crds[x])
      /\ DOMAIN Crds[x] = 1 .. Len(Crds[x]) /\ Len(Crds[x]) \in Nat \ {0}
  BY CrdsType DEF Asked, JobInv, At
<1>2. /\ k \in Job /\ k.status = j.status /\ k.todo = j.todo /\ k.ready = j.ready
      /\ k.up = IF c \in getReadyCRDs THEN j.up \cup {c} ELSE j.up
      /\ IF j.i < Len(Crds[x]) THEN k.i = j.i + 1 /\ k.pc = "ensure"
                               ELSE k.i = 1 /\ k.pc = "relist"
  <2> DEFINE u == IF stored[c].established /\ Exists(c) THEN j.up \cup {c} ELSE j.up
             l == [j EXCEPT !.up = u]
  <2>1. u \in SUBSET CRD /\ u = IF c \in getReadyCRDs THEN j.up \cup {c} ELSE j.up
    BY <1>1 DEF Job, getReadyCRDs, crdIsReady
  <2> HIDE DEF u
  <2>2. /\ l \in Job /\ l.status = j.status /\ l.todo = j.todo /\ l.ready = j.ready
        /\ l.up = u /\ l.i = j.i
    BY <2>1 DEF Job
  <2>3. k = IF j.i < Len(Crds[x]) THEN [l EXCEPT !.i = @ + 1, !.pc = "ensure"]
            ELSE [l EXCEPT !.i = 1, !.pc = "relist"]
    BY <1>1 DEF ensured, u
  <2> HIDE DEF k, l
  <2>4. CASE j.i < Len(Crds[x])
    <3> DEFINE n == [l EXCEPT !.i = @ + 1]
    <3>1. n \in Job /\ n = [l EXCEPT !.i = j.i + 1]
      BY <2>2 DEF Job
    <3>2. k = [n EXCEPT !.pc = "ensure"]
      BY <2>3, <2>4
    <3> HIDE DEF n
    <3>3. k \in Job
      BY <3>1, <3>2 DEF Job, PCs
    <3> QED
      BY <2>1, <2>2, <2>4, <3>1, <3>2, <3>3 DEF Job
  <2>5. CASE ~(j.i < Len(Crds[x]))
    <3>1. k = [l EXCEPT !.i = 1, !.pc = "relist"]
      BY <2>3, <2>5
    <3>2. k \in Job
      BY <2>2, <3>1 DEF Job, PCs
    <3> QED
      BY <2>1, <2>2, <2>5, <3>1, <3>2 DEF Job
  <2> QED
    BY <2>4, <2>5
<1> HIDE DEF k
<1>3. Handled(x, j) = 1 .. j.i - 1 /\ Handled(x, k) = Handled(x, j) \cup {j.i}
  BY <1>1, <1>2 DEF Handled
<1>4. At(x, k)
  BY <1>1, <1>2 DEF At
<1>5. Followed(x, k, getReadyCRDs)
  BY <1>2, <1>3 DEF JobInv, Followed
<1>6. Waited(x, k) /\ LeftToDo(x, k) /\ Ended(x, k)
  BY <1>2 DEF JobInv, Waited, LeftToDo, Ended
<1>7. Mapped(x, k)
  <2>1. SUFFICES ASSUME Uses[x] = "factory", NEW n \in Handled(x, k)
                 PROVE  /\ Key[x][Crds[x][n]] \in DOMAIN k.status
                        /\ \E m \in DOMAIN Crds[x] :
                              /\ n <= m /\ Key[x][Crds[x][m]] = Key[x][Crds[x][n]]
                              /\ k.status[Key[x][Crds[x][n]]] = Crds[x][m]
    BY DEF Mapped
  <2>2. CASE n = j.i
    BY <1>1, <1>2, <2>1, <2>2
  <2>3. CASE n \in Handled(x, j)
    BY <1>2, <2>1, <2>3 DEF JobInv, Mapped
  <2> QED
    BY <1>3, <2>2, <2>3
<1> QED
  BY <1>2, <1>4, <1>5, <1>6, <1>7 DEF k, JobInv

-----------------------------------------------------------------------------
(* The function of crd.go *)

\* The first list of BatchCreateCRDs.
LEMMA ListSafe ==
  ASSUME CRDsInv, NEW x \in Worker, BatchCreateCRDs(x)
  PROVE  CRDsInv'
<1> DEFINE j == [job[x] EXCEPT !.pc = "ensure"]
<1>1. job[x] \in Job /\ JobInv(x, job[x], getReadyCRDs) /\ job[x].pc = "list"
  BY DEF CRDsInv, BatchCreateCRDs
<1>2. j \in Job /\ JobInv(x, j, getReadyCRDs)
  BY <1>1, MovesOn
<1>3. getExistingCRDs(x) \in Seen
  BY DEF getExistingCRDs, Seen
<1>4. /\ [j EXCEPT !.seen = getExistingCRDs(x)] \in Job
      /\ JobInv(x, [j EXCEPT !.seen = getExistingCRDs(x)], getReadyCRDs)
  BY <1>2, <1>3, SeenIsFree
<1>5. [j EXCEPT !.seen = getExistingCRDs(x)]
        = [job[x] EXCEPT !.pc = "ensure", !.seen = getExistingCRDs(x)]
  BY <1>1 DEF Job
<1>6. CASE Becomes(x, [job[x] EXCEPT !.pc = "ensure", !.seen = getExistingCRDs(x)])
  BY <1>4, <1>5, <1>6, BecomesKeeps DEF BatchCreateCRDs
<1>7. CASE Becomes(x, j)
  BY <1>2, <1>7, BecomesKeeps DEF BatchCreateCRDs
<1> QED
  BY <1>6, <1>7 DEF BatchCreateCRDs

\* A call may fail at any point.
LEMMA FailedSafe ==
  ASSUME CRDsInv, NEW x \in Worker, Becomes(x, Failed(job[x])), UNCHANGED stored
  PROVE  CRDsInv'
BY FreshJob, BecomesKeeps DEF Failed

\* A definition is updated or created.
LEMMA EnsureSafe ==
  ASSUME CRDsInv, NEW x \in Worker, ensureCRD(x)
  PROVE  CRDsInv'
<1>1. /\ job[x] \in Job /\ JobInv(x, job[x], getReadyCRDs) /\ job[x].pc = "ensure"
      /\ Uses[x] = "batch"
  BY DEF CRDsInv, ensureCRD
<1>2. Asked(x) \in CRD
  BY <1>1, CrdsType DEF Asked, JobInv, At
<1>3. CASE Writes(Asked(x), Written(Asked(x), x), x, ensured(x, job[x]))
  BY <1>1, <1>2, <1>3, EnsuredJob, WriteKeeps
<1>4. CASE Becomes(x, [job[x] EXCEPT !.pc = "get"]) /\ UNCHANGED stored
  BY <1>1, <1>4, MovesOn, BecomesKeeps
<1>5. CASE Becomes(x, Failed(job[x])) /\ UNCHANGED stored
  BY <1>5, FailedSafe
<1> QED
  BY <1>3, <1>4, <1>5 DEF ensureCRD

\* A create that met another is followed by a get.
LEMMA EnsureGetSafe ==
  ASSUME CRDsInv, NEW x \in Worker, ensureGet(x)
  PROVE  CRDsInv'
<1> DEFINE c == Asked(x)
           j == [job[x] EXCEPT !.pc = "ensure"]
           s == [job[x].seen EXCEPT ![c] = "current"]
<1>1. job[x] \in Job /\ JobInv(x, job[x], getReadyCRDs) /\ job[x].pc = "get"
  BY DEF CRDsInv, ensureGet
<1>2. c \in CRD /\ s \in Seen
  BY <1>1, CrdsType DEF Asked, JobInv, At, Job, Seen
<1>3. j \in Job /\ JobInv(x, j, getReadyCRDs)
  BY <1>1, MovesOn
<1>4. [j EXCEPT !.seen = s] \in Job /\ JobInv(x, [j EXCEPT !.seen = s], getReadyCRDs)
  BY <1>2, <1>3, SeenIsFree
<1>5. [j EXCEPT !.seen = s] = [job[x] EXCEPT !.pc = "ensure", !.seen[c] = "current"]
  BY <1>1 DEF Job
<1>6. CASE Exists(c)
  BY <1>4, <1>5, <1>6, BecomesKeeps DEF ensureGet
<1>7. CASE ~Exists(c)
  BY <1>7, FailedSafe DEF ensureGet
<1> QED
  BY <1>6, <1>7

\* What the second list shows to be ready was written before.
LEMMA RelistSafe ==
  ASSUME CRDsInv, NEW x \in Worker, Relist(x)
  PROVE  CRDsInv'
<1>1. /\ job[x] \in Job /\ JobInv(x, job[x], getReadyCRDs) /\ job[x].pc = "relist"
      /\ Uses[x] = "batch" /\ UNCHANGED stored
  BY DEF CRDsInv, Relist
<1>2. PICK r \in SUBSET getReadyCRDs : Becomes(x, [job[x] EXCEPT !.pc = "wait", !.ready = r])
  <2>1. CASE Becomes(x, [job[x] EXCEPT !.pc = "wait",
                !.ready = {c \in CRD : getExistingCRDs(x)[c] # "no" /\ crdIsReady(c)}])
    BY <2>1 DEF getReadyCRDs
  <2>2. CASE Becomes(x, [job[x] EXCEPT !.pc = "wait"])
    <3>1. job[x].ready = {}
      BY <1>1 DEF JobInv, Waited
    <3>2. [job[x] EXCEPT !.pc = "wait"] = [job[x] EXCEPT !.pc = "wait", !.ready = {}]
      BY <1>1, <3>1 DEF Job
    <3> QED
      BY <2>2, <3>2
  <2> QED
    BY <2>1, <2>2 DEF Relist
<1> DEFINE k == [job[x] EXCEPT !.pc = "wait", !.ready = r]
<1>3. /\ k \in Job /\ k.pc = "wait" /\ k.i = 1 /\ k.ready = r
      /\ k.status = job[x].status /\ k.todo = job[x].todo /\ k.up = job[x].up
  BY <1>1 DEF Job, PCs, JobInv, At, getReadyCRDs
<1> HIDE DEF k
<1>4. Handled(x, k) = Handled(x, job[x]) /\ Handled(x, k) = DOMAIN Crds[x]
  BY <1>1, <1>3 DEF Handled
<1>5. At(x, k) /\ Followed(x, k, getReadyCRDs) /\ Mapped(x, k) /\ LeftToDo(x, k) /\ Ended(x, k)
  BY <1>1, <1>3, <1>4 DEF JobInv, At, Followed, Mapped, LeftToDo, Ended
<1>6. Waited(x, k)
  <2>1. \A n \in DOMAIN Crds[x] : ~(n < k.i)
    BY <1>3, CrdsType
  <2> QED
    BY <1>3, <1>4, <1>5, <2>1 DEF Waited, Followed
<1> QED
  BY <1>1, <1>2, <1>3, <1>5, <1>6, BecomesKeeps DEF k, JobInv

\* The wait goes on when a definition is established.
LEMMA WaitSafe ==
  ASSUME CRDsInv, NEW x \in Worker, waitCRD(x)
  PROVE  CRDsInv'
<1> DEFINE j == job[x]
           c == Asked(x)
<1>1. /\ j \in Job /\ JobInv(x, j, getReadyCRDs) /\ j.pc = "wait"
      /\ Uses[x] = "batch" /\ UNCHANGED stored
  BY DEF CRDsInv, waitCRD
<1>2. /\ c = Crds[x][j.i] /\ c \in CRD /\ j.i \in 1 .. Len(Crds[x])
      /\ DOMAIN Crds[x] = 1 .. Len(Crds[x]) /\ Len(Crds[x]) \in Nat
      /\ Handled(x, j) = DOMAIN Crds[x]
  BY <1>1, CrdsType DEF Asked, JobInv, At, Handled
<1>3. CASE c \in j.ready \/ crdIsReady(c)
  <2>1. c \in j.up
    BY <1>1, <1>2, <1>3 DEF JobInv, Followed, Waited, getReadyCRDs
  <2>2. \A n \in 1 .. j.i : Crds[x][n] \in j.up
    BY <1>1, <1>2, <2>1 DEF JobInv, Waited
  <2>3. CASE j.i < Len(Crds[x])
    <3> DEFINE k == [j EXCEPT !.i = @ + 1]
    <3>1. /\ k \in Job /\ k.pc = "wait" /\ k.i = j.i + 1 /\ k.ready = j.ready
          /\ k.status = j.status /\ k.todo = j.todo /\ k.up = j.up
      BY <1>1 DEF Job
    <3>2. Becomes(x, k)
      BY <1>1, <1>3, <2>3 DEF waitCRD, waited, crdIsReady
    <3> HIDE DEF k
    <3>3. Handled(x, k) = Handled(x, j)
      BY <1>1, <3>1 DEF Handled
    <3>4. At(x, k) /\ Followed(x, k, getReadyCRDs) /\ Mapped(x, k) /\ LeftToDo(x, k) /\ Ended(x, k)
      BY <1>1, <1>2, <2>3, <3>1, <3>3 DEF JobInv, At, Followed, Mapped, LeftToDo, Ended
    <3>5. Waited(x, k)
      BY <1>1, <1>2, <2>2, <3>1 DEF JobInv, Waited
    <3> QED
      BY <1>1, <3>1, <3>2, <3>4, <3>5, BecomesKeeps DEF JobInv
  <2>4. CASE ~(j.i < Len(Crds[x]))
    <3> DEFINE k == Succeeded(j)
    <3>1. /\ k \in Job /\ k.pc = "ok" /\ k.i = 1 /\ k.up = j.up /\ k.ready = {}
      <4>1. j.up \in SUBSET CRD /\ "ok" \in PCs
        BY <1>1 DEF Job, PCs
      <4>2. k \in Job
        BY <4>1, IdleType DEF Succeeded
      <4> QED
        BY <4>2 DEF Succeeded, Idle
    <3>2. Becomes(x, k)
      BY <1>1, <1>3, <2>4 DEF waitCRD, waited, crdIsReady
    <3> HIDE DEF k
    <3>3. Handled(x, k) = {} /\ 1 \in DOMAIN Crds[x]
      BY <1>2, <3>1 DEF Handled
    <3>4. Ended(x, k)
      BY <1>2, <2>2, <2>4, <3>1 DEF Ended, Asks
    <3>5. JobInv(x, k, getReadyCRDs)
      BY <3>1, <3>3, <3>4 DEF JobInv, At, Followed, Waited, Mapped, LeftToDo
    <3> QED
      BY <1>1, <3>1, <3>2, <3>5, BecomesKeeps
  <2> QED
    BY <2>3, <2>4
<1>4. CASE ~(c \in j.ready \/ crdIsReady(c))
  BY <1>1, <1>4, FailedSafe DEF waitCRD
<1> QED
  BY <1>3, <1>4

-----------------------------------------------------------------------------
(* The factory of init.go *)

\* Access is checked before any definition is created.
LEMMA AccessSafe ==
  ASSUME CRDsInv, NEW x \in Worker, ensureAccess(x)
  PROVE  CRDsInv'
<1>1. /\ job[x] \in Job /\ JobInv(x, job[x], getReadyCRDs) /\ job[x].pc = "list"
      /\ UNCHANGED stored
  BY DEF CRDsInv, ensureAccess
<1>2. CASE Becomes(x, [job[x] EXCEPT !.pc = "first"])
  <2>1. job[x].i = 1 /\ Uses[x] = "factory"
    BY <1>1 DEF JobInv, At, ensureAccess
  <2> QED
    BY <1>1, <1>2, <2>1, MovesOn, BecomesKeeps
<1>3. CASE Becomes(x, [Idle EXCEPT !.pc = "skipped"])
  BY <1>1, <1>3, FreshJob, BecomesKeeps
<1>4. CASE Becomes(x, Failed(job[x]))
  BY <1>1, <1>4, FailedSafe
<1> QED
  BY <1>2, <1>3, <1>4 DEF ensureAccess

\* The first list of CreateCRDs.
LEMMA FirstSafe ==
  ASSUME CRDsInv, NEW x \in Worker, FirstReady(x)
  PROVE  CRDsInv'
<1>1. /\ job[x] \in Job /\ JobInv(x, job[x], getReadyCRDs) /\ job[x].pc = "first"
      /\ Uses[x] = "factory" /\ UNCHANGED stored
  BY DEF CRDsInv, FirstReady, JobInv, At
<1>2. CASE Becomes(x, [job[x] EXCEPT !.pc = "ensure", !.ready = getReadyCRDs])
  <2> DEFINE j == [job[x] EXCEPT !.pc = "ensure"]
             k == [job[x] EXCEPT !.pc = "ensure", !.ready = getReadyCRDs]
  <2>1. j \in Job /\ JobInv(x, j, getReadyCRDs)
    BY <1>1, MovesOn
  <2>2. getReadyCRDs \in SUBSET CRD
    BY DEF getReadyCRDs
  <2>3. k = [j EXCEPT !.ready = getReadyCRDs]
    BY <1>1 DEF Job
  <2> HIDE DEF j, k
  <2>4. /\ k \in Job /\ k.pc = j.pc /\ k.i = j.i /\ k.status = j.status
        /\ k.todo = j.todo /\ k.up = j.up /\ Uses[x] # "batch"
    BY <1>1, <2>1, <2>2, <2>3 DEF Job
  <2>5. Handled(x, k) = Handled(x, j)
    BY <2>4 DEF Handled
  <2>6. JobInv(x, k, getReadyCRDs)
    BY <2>1, <2>4, <2>5 DEF JobInv, At, Followed, Waited, Mapped, LeftToDo, Ended
  <2> QED
    BY <1>1, <1>2, <2>4, <2>6, BecomesKeeps DEF k
<1>3. CASE Becomes(x, Failed(job[x]))
  BY <1>1, <1>3, FailedSafe
<1> QED
  BY <1>2, <1>3 DEF FirstReady

\* A definition is created or patched, and then read.
LEMMA CreateSafe ==
  ASSUME CRDsInv, NEW x \in Worker, createCRD(x)
  PROVE  CRDsInv'
<1>1. job[x] \in Job /\ JobInv(x, job[x], getReadyCRDs) /\ job[x].pc = "ensure"
  BY DEF CRDsInv, createCRD
<1>2. Asked(x) \in CRD
  BY <1>1, CrdsType DEF Asked, JobInv, At
<1>3. /\ [job[x] EXCEPT !.pc = "get"] \in Job
      /\ JobInv(x, [job[x] EXCEPT !.pc = "get"], getReadyCRDs)
  BY <1>1, MovesOn
<1> QED
  BY <1>2, <1>3, BecomesKeeps, WriteKeeps DEF createCRD

\* The map gets the definition under its GVK.
LEMMA CreateGetSafe ==
  ASSUME CRDsInv, NEW x \in Worker, createGet(x)
  PROVE  CRDsInv'
<1> DEFINE c == Asked(x)
           g == Key[x][c]
           s == job[x].status
           t == [h \in DOMAIN s \cup {g} |-> IF h = g THEN c ELSE s[h]]
           j == [job[x] EXCEPT !.status = t]
<1>1. /\ job[x] \in Job /\ JobInv(x, job[x], getReadyCRDs) /\ job[x].pc = "get"
      /\ Uses[x] = "factory" /\ UNCHANGED stored
  BY DEF CRDsInv, createGet
<1>2. /\ c \in CRD /\ c = Crds[x][job[x].i] /\ job[x].i \in DOMAIN Crds[x]
      /\ DOMAIN Crds[x] = 1 .. Len(Crds[x]) /\ Len(Crds[x]) \in Nat
  BY <1>1, CrdsType DEF Asked, JobInv, At
<1>3. CASE Exists(c)
  <2>1. /\ g \in GVKs /\ DOMAIN s \in SUBSET GVKs /\ \A h \in DOMAIN s : s[h] \in CRD
    BY <1>1, <1>2 DEF Job, GVKs
  <2>2. t \in [DOMAIN s \cup {g} -> CRD] /\ DOMAIN s \cup {g} \in SUBSET GVKs
    BY <1>2, <2>1
  <2>3. /\ t \in UNION {[D -> CRD] : D \in SUBSET GVKs}
        /\ DOMAIN t = DOMAIN s \cup {g} /\ t[g] = c /\ \A h \in DOMAIN s : h # g => t[h] = s[h]
    BY <2>2
  <2>4. Becomes(x, ensured(x, j))
    BY <1>3 DEF createGet
  <2> HIDE DEF t
  <2>5. /\ j \in Job /\ j.pc = "get" /\ j.i = job[x].i /\ j.up = job[x].up
        /\ j.status = t /\ j.ready = job[x].ready /\ j.todo = job[x].todo
    BY <1>1, <2>3 DEF Job
  <2> HIDE DEF j
  <2>6. Handled(x, j) = Handled(x, job[x]) /\ Handled(x, j) = 1 .. job[x].i - 1
    BY <1>1, <2>5 DEF Handled
  <2>7. Mapped(x, j)
    <3>1. SUFFICES ASSUME NEW n \in Handled(x, j)
                   PROVE  /\ Key[x][Crds[x][n]] \in DOMAIN j.status
                          /\ \E m \in DOMAIN Crds[x] :
                                /\ n <= m /\ Key[x][Crds[x][m]] = Key[x][Crds[x][n]]
                                /\ j.status[Key[x][Crds[x][n]]] = Crds[x][m]
      BY DEF Mapped
    <3>2. CASE Key[x][Crds[x][n]] = g
      <4>1. n <= job[x].i /\ job[x].i \in DOMAIN Crds[x]
        BY <1>2, <2>6
      <4>2. g \in DOMAIN j.status /\ j.status[g] = Crds[x][job[x].i]
        BY <1>2, <2>3, <2>5
      <4> QED
        BY <1>2, <3>2, <4>1, <4>2
    <3>3. CASE Key[x][Crds[x][n]] # g
      BY <1>1, <2>3, <2>5, <2>6, <3>3 DEF JobInv, Mapped
    <3> QED
      BY <3>2, <3>3
  <2>8. JobInv(x, j, getReadyCRDs)
    BY <1>1, <2>5, <2>6, <2>7 DEF JobInv, At, Followed, Waited, LeftToDo, Ended
  <2>9. ensured(x, j) \in Job /\ JobInv(x, ensured(x, j), getReadyCRDs)
    BY <1>2, <2>3, <2>5, <2>8, EnsuredJob
  <2> QED
    BY <1>1, <2>4, <2>9, BecomesKeeps
<1>4. CASE ~Exists(c)
  BY <1>1, <1>4, FailedSafe DEF createGet
<1> QED
  BY <1>3, <1>4

\* A definition is in the map, or a later one hides it.
LEMMA KeptOrHidden ==
  ASSUME NEW x \in Worker, job[x].pc = "relist", Uses[x] = "factory", Mapped(x, job[x]),
         NEW c \in Asks(x)
  PROVE  c \in Kept(x) \/ Hidden(x, c)
<1>1. PICK n \in DOMAIN Crds[x] : Crds[x][n] = c
  BY DEF Asks
<1>2. PICK m \in DOMAIN Crds[x] :
        /\ n <= m /\ Key[x][Crds[x][m]] = Key[x][c]
        /\ Key[x][c] \in DOMAIN job[x].status /\ job[x].status[Key[x][c]] = Crds[x][m]
  BY <1>1 DEF Mapped, Handled
<1>3. CASE Crds[x][m] = c
  BY <1>2, <1>3 DEF Kept
<1>4. CASE Crds[x][m] # c
  <2>1. n < m
    BY <1>1, <1>2, <1>4, CrdsType
  <2> QED
    BY <1>1, <1>2, <1>4, <2>1 DEF Hidden
<1> QED
  BY <1>3, <1>4

\* The second list of CreateCRDs: what is ready need not be waited for.
LEMMA SecondSafe ==
  ASSUME CRDsInv, NEW x \in Worker, SecondReady(x)
  PROVE  CRDsInv'
<1>1. /\ job[x] \in Job /\ JobInv(x, job[x], getReadyCRDs) /\ job[x].pc = "relist"
      /\ Uses[x] = "factory" /\ UNCHANGED stored
  BY DEF CRDsInv, SecondReady
<1>2. CASE Becomes(x, [job[x] EXCEPT !.pc = "wait", !.todo = Kept(x) \ getReadyCRDs])
  <2> DEFINE d == Kept(x) \ getReadyCRDs
             k == [job[x] EXCEPT !.pc = "wait", !.todo = d]
  <2>1. d \in SUBSET CRD
    BY <1>1 DEF Job, Kept
  <2>2. /\ k \in Job /\ k.pc = "wait" /\ k.i = job[x].i /\ k.up = job[x].up
        /\ k.status = job[x].status /\ k.ready = job[x].ready /\ k.todo = d
    BY <1>1, <2>1 DEF Job, PCs
  <2> HIDE DEF k
  <2>3. Handled(x, k) = Handled(x, job[x]) /\ Handled(x, job[x]) = DOMAIN Crds[x]
    BY <1>1, <2>2 DEF Handled
  <2>4. At(x, k) /\ Followed(x, k, getReadyCRDs) /\ Waited(x, k) /\ Mapped(x, k) /\ Ended(x, k)
    BY <1>1, <2>2, <2>3 DEF JobInv, At, Followed, Waited, Mapped, Ended
  <2>5. ASSUME NEW c \in Asks(x)
        PROVE  c \in k.up \/ c \in k.todo \/ Hidden(x, c)
    <3>1. c \in getReadyCRDs => c \in k.up
      BY <2>3, <2>4 DEF Followed, Asks
    <3>2. c \in Kept(x) \/ Hidden(x, c)
      BY <1>1, KeptOrHidden DEF JobInv
    <3> QED
      BY <2>2, <3>1, <3>2
  <2>6. JobInv(x, k, getReadyCRDs)
    BY <2>4, <2>5 DEF JobInv, LeftToDo
  <2> QED
    BY <1>1, <1>2, <2>2, <2>6, BecomesKeeps DEF k
<1>3. CASE Becomes(x, Failed(job[x]))
  BY <1>1, <1>3, FailedSafe
<1> QED
  BY <1>2, <1>3 DEF SecondReady

\* The wait goes on when a definition of the map is established.
LEMMA FactoryWaitSafe ==
  ASSUME CRDsInv, NEW x \in Worker, FactoryWait(x)
  PROVE  CRDsInv'
<1> DEFINE j == job[x]
<1>1. /\ j \in Job /\ JobInv(x, j, getReadyCRDs) /\ j.pc = "wait"
      /\ Uses[x] = "factory" /\ UNCHANGED stored
  BY DEF CRDsInv, FactoryWait
<1>2. CASE j.todo = {} /\ Becomes(x, Succeeded(j))
  <2> DEFINE k == Succeeded(j)
  <2>1. j.up \in SUBSET CRD /\ "ok" \in PCs
    BY <1>1 DEF Job, PCs
  <2>2. k \in Job
    BY <2>1, IdleType DEF Succeeded
  <2>3. k.pc = "ok" /\ k.i = 1 /\ k.up = j.up
    BY DEF Succeeded, Idle
  <2> HIDE DEF k
  <2>4. Handled(x, k) = {} /\ 1 \in DOMAIN Crds[x]
    BY <2>3, CrdsType DEF Handled
  <2>5. Ended(x, k)
    BY <1>1, <1>2, <2>3 DEF JobInv, LeftToDo, Ended
  <2>6. JobInv(x, k, getReadyCRDs)
    BY <1>1, <2>3, <2>4, <2>5 DEF JobInv, At, Followed, Waited, Mapped, LeftToDo
  <2> QED
    BY <1>1, <1>2, <2>2, <2>6, BecomesKeeps DEF k
<1>3. ASSUME NEW c \in j.todo, crdIsReady(c), Becomes(x, [j EXCEPT !.todo = @ \ {c}])
      PROVE  CRDsInv'
  <2> DEFINE k == [j EXCEPT !.todo = @ \ {c}]
  <2>1. /\ k \in Job /\ k.pc = "wait" /\ k.i = j.i /\ k.up = j.up
        /\ k.status = j.status /\ k.ready = j.ready /\ k.todo = j.todo \ {c}
    BY <1>1 DEF Job
  <2> HIDE DEF k
  <2>2. Handled(x, k) = Handled(x, j) /\ Handled(x, j) = DOMAIN Crds[x]
    BY <1>1, <2>1 DEF Handled
  <2>3. At(x, k) /\ Followed(x, k, getReadyCRDs) /\ Waited(x, k) /\ Mapped(x, k) /\ Ended(x, k)
    BY <1>1, <2>1, <2>2 DEF JobInv, At, Followed, Waited, Mapped, Ended
  <2>4. c \in CRD
    BY <1>1 DEF Job
  <2>5. c \in Asks(x) => c \in j.up
    BY <1>1, <1>3, <2>2, <2>4 DEF JobInv, Followed, Asks, getReadyCRDs
  <2>6. JobInv(x, k, getReadyCRDs)
    BY <1>1, <2>1, <2>3, <2>5 DEF JobInv, LeftToDo
  <2> QED
    BY <1>1, <1>3, <2>1, <2>6, BecomesKeeps DEF k
<1>4. CASE Becomes(x, Failed(j))
  BY <1>1, <1>4, FailedSafe
<1> QED
  BY <1>2, <1>3, <1>4 DEF FactoryWait

-----------------------------------------------------------------------------
(* The API server, and the whole deployment *)

\* A CRD becomes ready: every call that has written it takes that down.
LEMMA EstablishSafe ==
  ASSUME CRDsInv, NEW c \in CRD, Establish(c)
  PROVE  CRDsInv'
<1>1. stored' \in [CRD -> Definition]
  BY DEF CRDsInv, Establish, Definition
<1>2. getReadyCRDs' \subseteq getReadyCRDs \cup {c}
  <2>1. ASSUME NEW d \in CRD, d # c, crdIsReady(d)' PROVE crdIsReady(d)
    BY <2>1 DEF CRDsInv, Establish, crdIsReady, Exists, Definition
  <2> QED
    BY <2>1 DEF getReadyCRDs
<1>3. ASSUME NEW x \in Worker
      PROVE  job'[x] \in Job /\ JobInv(x, job'[x], getReadyCRDs')
  <2> DEFINE j == Stale(job[x], c)
             k == [j EXCEPT !.up = @ \cup {c}]
  <2>1. j \in Job /\ JobInv(x, j, getReadyCRDs)
    BY StaleKeeps DEF CRDsInv
  <2>2. j.pc = job[x].pc /\ j.i = job[x].i
    BY DEF Stale, CRDsInv, Job
  <2>3. job'[x] = IF x \in Past(c) THEN k ELSE j
    BY DEF Establish
  <2>4. (\E n \in Handled(x, j) : Crds[x][n] = c) => x \in Past(c)
    BY <2>2 DEF Handled, Past, Asks
  <2> HIDE DEF j
  <2>5. /\ k \in Job /\ k.pc = j.pc /\ k.i = j.i /\ k.up = j.up \cup {c}
        /\ k.status = j.status /\ k.ready = j.ready /\ k.todo = j.todo
    BY <2>1 DEF Job
  <2> HIDE DEF k
  <2>6. Handled(x, k) = Handled(x, j)
    BY <2>5 DEF Handled
  <2>7. CASE x \in Past(c)
    BY <1>2, <2>1, <2>3, <2>5, <2>6, <2>7
    DEF JobInv, At, Followed, Waited, Mapped, LeftToDo, Ended
  <2>8. CASE x \notin Past(c)
    <3>1. Followed(x, j, getReadyCRDs')
      BY <1>2, <2>1, <2>4, <2>8 DEF JobInv, Followed
    <3> QED
      BY <2>1, <2>3, <2>8, <3>1 DEF JobInv
  <2> QED
    BY <2>7, <2>8
<1> QED
  BY <1>1, <1>3 DEF CRDsInv, Establish

\* Somebody deletes a definition.
LEMMA DeleteSafe ==
  ASSUME CRDsInv, NEW c \in CRD, Delete(c)
  PROVE  CRDsInv'
<1>1. stored' \in [CRD -> Definition]
  BY DEF CRDsInv, Delete, Definition
<1>2. getReadyCRDs' \subseteq getReadyCRDs
  <2>1. ASSUME NEW d \in CRD, crdIsReady(d)' PROVE crdIsReady(d)
    BY <2>1 DEF CRDsInv, Delete, crdIsReady, Exists, Definition
  <2> QED
    BY <2>1 DEF getReadyCRDs
<1>3. \A x \in Worker : job'[x] \in Job /\ JobInv(x, job'[x], getReadyCRDs')
  BY <1>2, StaleKeeps DEF CRDsInv, Delete
<1> QED
  BY <1>1, <1>3 DEF CRDsInv, Delete

\* Some calls begin anew or are given up, the others go on.
LEMMA RestartedKeeps ==
  ASSUME CRDsInv, UNCHANGED stored, NEW W, NEW p \in {"idle", "list", "skipped", "err"},
         job' = [x \in Worker |-> IF x \in W THEN [Idle EXCEPT !.pc = p] ELSE job[x]]
  PROVE  CRDsInv'
<1>1. getReadyCRDs' = getReadyCRDs
  BY DEF getReadyCRDs, crdIsReady, Exists
<1>2. \A x \in Worker : job'[x] \in Job /\ JobInv(x, job'[x], getReadyCRDs)
  BY FreshJob DEF CRDsInv
<1> QED
  BY <1>1, <1>2 DEF CRDsInv

\* Every step preserves it.
LEMMA CRDsStep ==
  ASSUME CRDsInv, [Next]_vars
  PROVE  CRDsInv'
<1>1. ASSUME NEW p \in Proc, BatchStart(p) \/ BatchWait(p) \/ Restart(p)
      PROVE  CRDsInv'
  <2> QED
    BY <1>1, IdleIsIdle, RestartedKeeps DEF BatchStart, BatchWait, Restart, Running
<1>2. ASSUME NEW x \in Worker, Create(x)
      PROVE  CRDsInv'
  <2>1. CASE CallFails(x)
    BY <2>1, FailedSafe DEF CallFails
  <2> QED
    BY <1>2, <2>1, ListSafe, EnsureSafe, EnsureGetSafe, RelistSafe, WaitSafe, AccessSafe,
       FirstSafe, CreateSafe, CreateGetSafe, SecondSafe, FactoryWaitSafe
    DEF Create
<1>3. ASSUME NEW x \in Worker, Cancelled(x)
      PROVE  CRDsInv'
  <2>1. Becomes(x, Failed(job[x])) /\ UNCHANGED stored
    BY <1>3 DEF Cancelled, Becomes, Failed
  <2> QED
    BY <2>1, FailedSafe
<1>4. ASSUME NEW c \in CRD, Serves(c) \/ Deletes(c)
      PROVE  CRDsInv'
  BY <1>4, EstablishSafe, DeleteSafe DEF Serves, Deletes
<1>5. ASSUME UNCHANGED crdVars
      PROVE  CRDsInv'
  <2>1. getReadyCRDs' = getReadyCRDs
    BY <1>5 DEF getReadyCRDs, crdIsReady, Exists, crdVars
  <2> QED
    BY <1>5, <2>1 DEF CRDsInv, crdVars
<1>6. ASSUME NEW p \in Proc, Leads(p)
      PROVE  CRDsInv'
  BY <1>5, <1>6 DEF Leads
<1> QED
  BY <1>1, <1>2, <1>3, <1>4, <1>5, <1>6 DEF Next, Steps, Calls, Passes, vars

\* It holds at first.
LEMMA CRDsInitially == Init => CRDsInv
<1> SUFFICES ASSUME Init PROVE CRDsInv
  OBVIOUS
<1>1. stored \in [CRD -> Definition]
  <2>1. \A c \in CRD : \E s \in Before : stored[c] = [spec |-> s, established |-> s # Deleter]
    BY DEF Init, CRDsInit
  <2>2. ASSUME NEW c \in CRD PROVE stored[c] \in Definition
    <3>1. PICK s \in Before : stored[c] = [spec |-> s, established |-> s # Deleter]
      BY <2>1
    <3> QED
      BY <3>1 DEF Definition
  <2> QED
    BY <2>2 DEF Init, CRDsInit
<1>2. \A x \in Worker : job[x] \in Job /\ JobInv(x, job[x], getReadyCRDs)
  BY IdleIsIdle, FreshJob DEF Init, CRDsInit
<1> QED
  BY <1>1, <1>2 DEF CRDsInv, Init, CRDsInit

\* A call that succeeds has found every CRD it was asked for established after
\* it wrote it, whoever else writes, deletes or establishes CRDs (crd.go,
\* init.go).
THEOREM SuccessMeansEstablished == Spec => []CRDsEstablished
<1>1. CRDsInv /\ [Next]_vars => CRDsInv'
  BY CRDsStep
<1>2. CRDsInv => CRDsEstablished
  BY DEF CRDsInv, JobInv, Ended, CRDsEstablished
<1> QED
  BY CRDsInitially, <1>1, <1>2, PTL DEF Spec
=============================================================================
