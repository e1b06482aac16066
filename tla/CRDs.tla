-------------------------------- MODULE CRDs --------------------------------
(***************************************************************************)
(* CustomResourceDefinitions created at start-up (pkg/crd).  A worker is   *)
(* one call: either the function BatchCreateCRDs of crd.go, or one         *)
(* goroutine of Factory.BatchCreateCRDs of init.go.  Several workers, of   *)
(* one process or of several, write the same CRDs at the same time, while  *)
(* the API server establishes CRDs (which is a write of its own) and       *)
(* somebody may delete one.  Every call to the API server is one step.     *)
(***************************************************************************)
EXTENDS Integers, Sequences, FiniteSets

CONSTANTS CRD,      \* the names of the definitions
          Worker,   \* the calls
          Crds,     \* Worker -> the definitions it is asked for, in order
          Uses,     \* Worker -> "batch" (crd.go) or "factory" (init.go)
          Selects,  \* Worker -> the workers whose objects its labelSelector matches
          Key,      \* Worker -> CRD -> the GVK of the definition as the caller wrote it
          Before,   \* whose objects may be stored when the processes start
          Deleter,  \* stands for whoever deletes a CRD
          MaxFaults \* bound: failed calls, deletions and timeouts

VARIABLES stored, \* CRD -> the object on the API server
          job,    \* Worker -> its call
          faults

crdVars == <<stored, job, faults>>

ASSUME CRDsAssumption ==
    /\ Crds \in [Worker -> Seq(CRD) \ {<<>>}]
    /\ \A x \in Worker : Uses[x] \in {"batch", "factory"}
    /\ Deleter \notin Worker /\ MaxFaults \in Nat

Exists(c) == stored[c].spec # Deleter

Idle == [pc |-> "idle", i |-> 1, seen |-> [c \in CRD |-> "no"], ready |-> {},
         status |-> <<>>, todo |-> {}, up |-> {}]

CRDsInit ==
    /\ stored \in [CRD -> {[spec |-> s, established |-> s # Deleter] : s \in Before}]
    /\ job = [x \in Worker |-> Idle]
    /\ faults = 0

Asked(x) == Crds[x][job[x].i]

Asks(x) == {Crds[x][n] : n \in DOMAIN Crds[x]}

\* A write of c by the call of x, which goes on as j.  Resource versions are
\* only ever compared with the stored one: a write makes the version that any
\* other call has seen stale.
Stale(j, c) == IF j.seen[c] = "current" THEN [j EXCEPT !.seen[c] = "stale"] ELSE j

Writes(c, r, x, j) ==
    /\ stored' = [stored EXCEPT ![c] = r]
    /\ job' = [y \in Worker |-> IF y = x THEN [j EXCEPT !.seen[c] = "no"] ELSE Stale(job[y], c)]

Fault == faults < MaxFaults /\ faults' = faults + 1

Becomes(x, j) == job' = [job EXCEPT ![x] = j]

Failed(j) == [Idle EXCEPT !.pc = "err"]

Succeeded(j) == [Idle EXCEPT !.pc = "ok", !.up = j.up]

\* The call goes on with the next definition, or with the second list.
ensured(x, j) ==
    LET k == [j EXCEPT !.up = IF stored[Asked(x)].established /\ Exists(Asked(x))
                              THEN @ \cup {Asked(x)} ELSE @]
    IN IF j.i < Len(Crds[x]) THEN [k EXCEPT !.i = @ + 1, !.pc = "ensure"]
       ELSE [k EXCEPT !.i = 1, !.pc = "relist"]

\* One write of definition c by worker x.
Written(c, x) == [spec |-> x, established |-> Exists(c) /\ stored[c].established]

-----------------------------------------------------------------------------
(***************************************************************************)
(* crd.go                                                                  *)
(***************************************************************************)

\* The map of the CRDs, with their versions, that the selector lets x see.
getExistingCRDs(x) ==
    [c \in CRD |-> IF Exists(c) /\ stored[c].spec \in Selects[x] THEN "current" ELSE "no"]

\* crdIsReady
crdIsReady(c) == Exists(c) /\ stored[c].established

BatchCreateCRDs(x) ==
    /\ job[x].pc = "list" /\ Uses[x] = "batch"
    /\ \/ /\ Becomes(x, [job[x] EXCEPT !.pc = "ensure", !.seen = getExistingCRDs(x)])
          /\ faults' = faults
       \/ /\ Fault    \* a list that fails is only logged
          /\ Becomes(x, [job[x] EXCEPT !.pc = "ensure"])
    /\ UNCHANGED stored

\* ensureCRD creates what the list did not show and updates, with the version
\* it read, what it did; the Get after AlreadyExists is ensureGet.
ensureCRD(x) ==
    /\ job[x].pc = "ensure" /\ Uses[x] = "batch"
    /\ LET c == Asked(x)
           rv == job[x].seen[c] IN
       \/ /\ IF rv = "no" THEN ~Exists(c) ELSE Exists(c) /\ rv = "current"
          /\ Writes(c, Written(c, x), x, ensured(x, job[x]))   \* Create, Update
       \/ /\ rv = "no" /\ Exists(c)                            \* AlreadyExists
          /\ Becomes(x, [job[x] EXCEPT !.pc = "get"])
          /\ UNCHANGED stored
       \/ /\ rv # "no" /\ (~Exists(c) \/ rv = "stale")         \* NotFound, Conflict
          /\ Becomes(x, Failed(job[x]))
          /\ UNCHANGED stored
    /\ UNCHANGED faults

\* The Get of ensureCRD: the update that follows uses the version it returns.
ensureGet(x) ==
    /\ job[x].pc = "get" /\ Uses[x] = "batch"
    /\ LET c == Asked(x) IN
       Becomes(x, IF Exists(c)
                  THEN [job[x] EXCEPT !.pc = "ensure", !.seen[c] = "current"]
                  ELSE Failed(job[x]))
    /\ UNCHANGED <<stored, faults>>

\* The second list of BatchCreateCRDs; when it fails every CRD is waited for.
Relist(x) ==
    /\ job[x].pc = "relist" /\ Uses[x] = "batch"
    /\ \/ /\ Becomes(x, [job[x] EXCEPT !.pc = "wait",
                            !.ready = {c \in CRD : getExistingCRDs(x)[c] # "no" /\ crdIsReady(c)}])
          /\ faults' = faults
       \/ /\ Fault
          /\ Becomes(x, [job[x] EXCEPT !.pc = "wait"])
    /\ UNCHANGED stored

waited(x) ==
    IF job[x].i < Len(Crds[x]) THEN [job[x] EXCEPT !.i = @ + 1]
    ELSE Succeeded(job[x])

\* The wait loop: one Get of waitCRD, which polls until the CRD is
\* established, is gone, or waitDuration has passed (CallFails).
waitCRD(x) ==
    /\ job[x].pc = "wait" /\ Uses[x] = "batch"
    /\ LET c == Asked(x) IN
       \/ /\ c \in job[x].ready \/ crdIsReady(c)
          /\ Becomes(x, waited(x))
          /\ faults' = faults
       \/ /\ c \notin job[x].ready /\ ~Exists(c)
          /\ Becomes(x, Failed(job[x]))
          /\ faults' = faults
    /\ UNCHANGED stored

-----------------------------------------------------------------------------
(***************************************************************************)
(* init.go                                                                 *)
(***************************************************************************)

\* CreateCRDs asks for access first: a 403 is success without any CRD
\* created, any other failure an error.
ensureAccess(x) ==
    /\ job[x].pc = "list" /\ Uses[x] = "factory"
    /\ \/ /\ Becomes(x, [job[x] EXCEPT !.pc = "first"])
          /\ faults' = faults
       \/ /\ Fault
          /\ Becomes(x, [Idle EXCEPT !.pc = "skipped"]) \/ Becomes(x, Failed(job[x]))
    /\ UNCHANGED stored

getReadyCRDs == {c \in CRD : crdIsReady(c)}

\* The first list of CreateCRDs; createCRD is given the result and ignores it.
FirstReady(x) ==
    /\ job[x].pc = "first"
    /\ \/ /\ Becomes(x, [job[x] EXCEPT !.pc = "ensure", !.ready = getReadyCRDs])
          /\ faults' = faults
       \/ /\ Fault
          /\ Becomes(x, Failed(job[x]))
    /\ UNCHANGED stored

\* createCRD: the apply creates the object, or patches one that differs.
createCRD(x) ==
    /\ job[x].pc = "ensure" /\ Uses[x] = "factory"
    /\ LET c == Asked(x) IN
       IF Exists(c) /\ stored[c].spec = x
       THEN Becomes(x, [job[x] EXCEPT !.pc = "get"]) /\ UNCHANGED stored
       ELSE Writes(c, Written(c, x), x, [job[x] EXCEPT !.pc = "get"])
    /\ UNCHANGED faults

\* The Get of createCRD, and crdStatus[crdDef.GVK] = crd: the key is the GVK
\* of the caller's definition, so of two definitions with the same key (both
\* with an Override, or both named only by their struct) the later is kept.
createGet(x) ==
    /\ job[x].pc = "get" /\ Uses[x] = "factory"
    /\ LET c == Asked(x)
           k == Key[x][c]
           s == job[x].status IN
       Becomes(x, IF Exists(c)
                  THEN ensured(x, [job[x] EXCEPT !.status =
                          [g \in DOMAIN s \cup {k} |-> IF g = k THEN c ELSE s[g]]])
                  ELSE Failed(job[x]))
    /\ UNCHANGED <<stored, faults>>

Kept(x) == {job[x].status[g] : g \in DOMAIN job[x].status}

\* A bug: the CRDs that were ready before the call wrote them count as ready.
SecondReadyStale(x) ==
    /\ job[x].pc = "relist" /\ Uses[x] = "factory"
    /\ Becomes(x, [job[x] EXCEPT !.pc = "wait", !.todo = Kept(x) \ job[x].ready])
    /\ UNCHANGED <<stored, faults>>

\* The second list: the ready CRDs of the map are done, the others are waited
\* for.
SecondReady(x) ==
    /\ job[x].pc = "relist" /\ Uses[x] = "factory"
    /\ \/ /\ Becomes(x, [job[x] EXCEPT !.pc = "wait", !.todo = Kept(x) \ getReadyCRDs])
          /\ faults' = faults
       \/ /\ Fault
          /\ Becomes(x, Failed(job[x]))
    /\ UNCHANGED stored

\* The map is walked in any order; waitCRD polls every CRD of it in turn.
FactoryWait(x) ==
    /\ job[x].pc = "wait" /\ Uses[x] = "factory"
    /\ \/ /\ job[x].todo = {}
          /\ Becomes(x, Succeeded(job[x]))
          /\ faults' = faults
       \/ \E c \in job[x].todo :
          \/ /\ crdIsReady(c)
             /\ Becomes(x, [job[x] EXCEPT !.todo = @ \ {c}])
             /\ faults' = faults
          \/ /\ ~Exists(c)
             /\ Becomes(x, Failed(job[x]))
             /\ faults' = faults
    /\ UNCHANGED stored

\* A call of the API server fails, or a wait is over before the CRD is ready:
\* the call returns the error.
CallFails(x) ==
    /\ \/ job[x].pc \in {"ensure", "get"}
       \/ job[x].pc = "wait" /\ (IF Uses[x] = "batch" THEN Asked(x) \notin job[x].ready
                                                     ELSE job[x].todo # {})
    /\ Fault
    /\ Becomes(x, Failed(job[x]))
    /\ UNCHANGED stored

\* One step of the call of worker x.
Create(x) ==
    \/ BatchCreateCRDs(x) \/ ensureCRD(x) \/ ensureGet(x) \/ Relist(x) \/ waitCRD(x)
    \/ ensureAccess(x) \/ FirstReady(x) \/ createCRD(x) \/ createGet(x) \/ SecondReady(x)
    \/ FactoryWait(x) \/ CallFails(x)

-----------------------------------------------------------------------------
(***************************************************************************)
(* The API server and other clients                                        *)
(***************************************************************************)

\* The workers that have written c in their call.
Past(c) == {x \in Worker : \/ job[x].pc \in {"relist", "wait"} /\ c \in Asks(x)
                           \/ \E n \in 1 .. job[x].i - 1 : Crds[x][n] = c}

\* The API server establishes c: a status write, which changes its version.
Establish(c) ==
    /\ Exists(c) /\ ~stored[c].established
    /\ stored' = [stored EXCEPT ![c].established = TRUE]
    /\ job' = [x \in Worker |-> IF x \in Past(c) THEN [Stale(job[x], c) EXCEPT !.up = @ \cup {c}]
                               ELSE Stale(job[x], c)]
    /\ faults' = faults

\* Somebody deletes c.
Delete(c) ==
    /\ Exists(c) /\ Fault
    /\ stored' = [stored EXCEPT ![c] = [spec |-> Deleter, established |-> FALSE]]
    /\ job' = [x \in Worker |-> Stale(job[x], c)]

\* A definition of the call of x that a later one hides in the map of CreateCRDs.
Hidden(x, c) ==
    /\ Uses[x] = "factory"
    /\ \E m, n \in DOMAIN Crds[x] :
          m < n /\ Crds[x][m] = c /\ Crds[x][n] # c /\ Key[x][Crds[x][n]] = Key[x][c]

\* A call that succeeds (BatchCreateCRDs of crd.go, CreateCRDs of init.go) has
\* found every CRD it was asked for established after the call had written it,
\* whatever the other processes, the API server and a deletion did meanwhile.
\* Excepted are the definitions whose GVK a later one of the same call shares:
\* init.go keeps one of them only and waits for no other.  A call of init.go
\* that returns no error because it may not read CRDs, "skipped", has looked
\* at none of them and promises nothing (ensureAccess).
CRDsEstablished ==
    \A x \in Worker : job[x].pc = "ok" =>
        \A c \in Asks(x) : c \in job[x].up \/ Hidden(x, c)
=============================================================================
