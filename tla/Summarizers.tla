---------------------------- MODULE Summarizers ----------------------------
(* The summarizers of pkg/summary as operators: what each one makes of an   *)
(* object, its conditions and the summary computed so far.                  *)
(*                                                                          *)
(* An object is a record.  Its API version is the pair group and version;   *)
(* numbers that may be missing are None; "removed" and "created" are the    *)
(* metadata timestamps, told apart by their distance to now; "kstatus" is   *)
(* what the external kstatus library answers for the object.  A message is  *)
(* a name, "" the empty one; Shape says how the ones that are parsed read.  *)
EXTENDS Integers, Sequences, FiniteSets

LOCAL S == INSTANCE SequencesExt
LOCAL INSTANCE TLC

CONSTANTS Shape,    \* message -> [prefix, detail, subs, is] of its text
          LowerState     \* state -> its lower case, for the states that have one

None == -1
Blank == ""
NoShape == [prefix |-> Blank, detail |-> Blank, subs |-> <<>>, is |-> {}]
ShapeOf(m) == IF m \in DOMAIN Shape THEN Shape[m] ELSE NoShape
Is(m, what) == what \in ShapeOf(m).is

NoSummary == [state |-> Blank, error |-> FALSE, transitioning |-> FALSE,
              message |-> <<>>, rels |-> <<>>, hasObserved |-> FALSE]

Say(s, m) == [s EXCEPT !.message = Append(@, m)]
SayIf(s, m) == IF m = Blank THEN s ELSE Say(s, m)
Moving(s, state) == [s EXCEPT !.state = state, !.transitioning = TRUE]
Failing(s, state) == [s EXCEPT !.state = state, !.error = TRUE]
Muted(m, what) == IF Is(m, what) THEN Blank ELSE m
Relate(s, rels) == [s EXCEPT !.rels = @ \o rels]

(***************************************************************************)
(* The tables of condition types.                                          *)
(***************************************************************************)
REASON == "%REASON%"
Each(types, state) == [t \in types |-> state]
\* The table with rows <<types, state>>.
Table(rows) == [t \in UNION {r[1] : r \in rows} |-> (CHOOSE r \in rows : t \in r[1])[2]]
StateFor(table, c) == IF table[c.type] = REASON THEN c.reason ELSE table[c.type]

\* True is fine, False an error, Unknown transitioning.
TransitioningUnknown == Table({
    <<{"AddonDeploy", "AgentDeployed", "CertsGenerated", "DockerProvisioned",
       "etcd", "NodesCreated", "Provisioned"}, "provisioning">>,
    <<{"BackingNamespaceCreated", "ConfigOK", "CreatorMadeOwner",
       "DefaultNamespaceAssigned", "DefaultNetworkPolicyCreated",
       "DefaultProjectCreated"}, "configuring">>,
    <<{"Pending", "ScalingActive", "AbleToScale"}, "pending">>,
    <<{"Active", "InitialRolesPopulated"}, "activating">>,
    <<{"Updated", "Updating"}, "updating">>,
    <<{"NodeHealthy", "NodeReady"}, REASON>>,
    <<{"Built"}, "building">>, <<{"Created"}, "creating">>, <<{"Deployed"}, "deploying">>,
    <<{"Drained"}, "draining">>, <<{"Downloaded"}, "downloading">>,
    <<{"Inactive"}, "deactivating">>, <<{"Initialized"}, "initializing">>,
    <<{"Installed"}, "installing">>, <<{"PodScheduled"}, "scheduling">>,
    <<{"Reconciled"}, "reconciling">>, <<{"Refreshed"}, "refreshed">>,
    <<{"Registered"}, "registering">>, <<{"Removed"}, "removing">>, <<{"Saved"}, "saving">>,
    <<{"Upgraded"}, "upgrading">>, <<{"Waiting"}, "waiting">>,
    <<{"RunCompleted"}, "running">>, <<{"Processed"}, "processed">>})

\* True is fine, False transitioning, Unknown an error.
TransitioningFalse == Table({
    <<{"BootstrapConfigReady", "InfrastructureReady"}, REASON>>,
    <<{"Completed"}, "activating">>, <<{"Ready"}, "unavailable">>,
    <<{"Available", "MachinesReady"}, "updating">>})

\* True is transitioning, everything else fine.
TransitioningTrue == Table({
    <<{"ScalingUp", "ScalingDown", "Deleting", "Paused"}, REASON>>,
    <<{"Reconciling"}, "reconciling">>})

\* Which status of which condition is an error for a kind.
GVKConditionErrorMapping ==
    <<"helm.cattle.io", "v1", "HelmChart">> :>
        [JobCreated |-> {}, Failed |-> {"True"}] @@
    <<Blank, "v1", "Node">> :>
        Each({"OutOfDisk", "MemoryPressure", "DiskPressure",
              "NetworkUnavailable"}, {"True"}) @@
    <<"apps", "v1", "Deployment">> :>
        [ReplicaFailure |-> {"True"}, Progressing |-> {"False"}] @@
    <<"apps", "v1", "ReplicaSet">> :> [ReplicaFailure |-> {"True"}] @@
    <<Blank, Blank, Blank>> :> [Stalled |-> {"True"}, Failed |-> {"True"}]

\* The JSON of the environment: a sequence of entries, each with its GVK,
\* <<>> if that is not in the right format, and its condition mappings.
UnmarshalJSON(entries) ==
    LET put(m, x) == (x.type :> x.status) @@ m
        conditions(e) == S!FoldLeft(put, [t \in {} |-> {}], e.mappings)
        add(m, e) == (e.gvk :> conditions(e)) @@ m
    IN  S!FoldLeft(add, [g \in {} |-> {}], entries)

\* The mapping of the environment replaces condition by condition; one that
\* does not parse changes nothing.
initializeCheckErrors(entries) ==
    LET env == UnmarshalJSON(entries)
        old(gvk) == IF gvk \in DOMAIN GVKConditionErrorMapping
                    THEN GVKConditionErrorMapping[gvk] ELSE [t \in {} |-> {}]
    IN  IF \E e \in S!Range(entries) : e.gvk = <<>> THEN GVKConditionErrorMapping
        ELSE [gvk \in DOMAIN env |-> env[gvk] @@ old(gvk)] @@ GVKConditionErrorMapping

GVK(o) == <<o.group, o.version, o.kind>>
CattleGroups == {"helm.cattle.io", "catalog.cattle.io", "operation.cattle.io",
                 "fleet.cattle.io"}

\* A group with a slash is a prefix of the API version; one without is
\* compared the wrong way round, so that any API version but it passes.
isKind(o, kind, prefixes, exact) ==
    /\ o.kind = kind
    /\ IF prefixes = {} /\ exact = {}
       THEN o.group = Blank /\ o.version = "v1"
       ELSE \/ o.group \in prefixes
            \/ \E g \in exact : ~(o.group = Blank /\ o.version = g)

isCAPI(o, kinds) == o.group = "cluster.x-k8s.io" /\ o.kind \in kinds
operationKinds == {"EncryptionKeyRotation", "ETCDSnapshotRestore",
                   "ETCDSnapshotSave", "CertificateRotation"}
isOperation(o) == o.group = "operation.cattle.io" /\ o.kind \in operationKinds

\* The first bullet of a message: its condition type and its detail, which
\* comes from the first sub-bullet when the line has none.
parseMessage(m) ==
    LET sh == ShapeOf(m)
    IN  IF m = Blank THEN [detail |-> Blank, prefix |-> Blank]
        ELSE IF sh.prefix = Blank THEN [detail |-> m, prefix |-> Blank]
        ELSE [detail |-> IF sh.detail # Blank \/ sh.subs = <<>> THEN sh.detail
                         ELSE Head(sh.subs),
              prefix |-> sh.prefix]

(***************************************************************************)
(* Conditions.                                                             *)
(***************************************************************************)
\* status.conditions, then the ones of the cattle.io/status annotation; an
\* annotation that does not parse counts as missing.
getAnnotationConditions(o) == IF o.annParses THEN o.annConds ELSE <<>>
getConditions(o) == o.conds \o getAnnotationConditions(o)

\* The last condition of a type, <<>> if there is none.
LastOf(conds, type) ==
    LET hits == SelectSeq(conds, LAMBDA c : c.type = type)
    IN  IF hits = <<>> THEN <<>> ELSE <<S!Last(hits)>>
LastIs(conds, type, status) ==
    LET c == LastOf(conds, type) IN c # <<>> /\ c[1].status = status

(***************************************************************************)
(* A pass over the conditions, which notes one after the other.            *)
(***************************************************************************)
IsError(table, c) == \/ c.reason = "Error"
                     \/ c.type \in DOMAIN table /\ c.status \in table[c.type]
NoteError(table, acc, c) ==
    IF ~IsError(table, c) THEN acc
    ELSE Say(Failing(acc, IF acc.state \in {"active", Blank} THEN "error" ELSE acc.state), c.message)

NoteUnknown(acc, c) ==
    LET state == StateFor(TransitioningUnknown, c)
    IN  IF c.type \notin DOMAIN TransitioningUnknown THEN acc
        ELSE IF c.status = "False" THEN Say(Failing(acc, state), c.message)
        ELSE IF c.status = "Unknown" /\ acc.state = Blank THEN Say(Moving(acc, state), c.message)
        ELSE acc
NoteTrue(acc, c) ==
    IF acc.state = Blank /\ c.type \in DOMAIN TransitioningTrue /\ c.status = "True"
    THEN Say(Moving(acc, StateFor(TransitioningTrue, c)), c.message) ELSE acc
\* Ready=False only counts when nothing else says more; acc is the summary and
\* what Ready=False says.
NoteFalse(acc, c) ==
    LET state == StateFor(TransitioningFalse, c)
    IN  IF acc.s.state # Blank \/ c.type \notin DOMAIN TransitioningFalse THEN acc
        ELSE IF c.type = "Ready" /\ c.status = "False"
        THEN [acc EXCEPT !.unready = <<Muted(c.message, "steps")>>]
        ELSE IF c.status = "False" THEN [acc EXCEPT !.s = Say(Moving(@, state), c.message)]
        ELSE IF c.status = "Unknown" THEN [acc EXCEPT !.s = Say(Failing(@, state), c.message)]
        ELSE acc
Note(pass, acc, c) ==
    CASE pass[1] = "errors" -> NoteError(pass[2], acc, c)
      [] pass[1] = "unknown" -> NoteUnknown(acc, c)
      [] pass[1] = "true" -> NoteTrue(acc, c)
      [] pass[1] = "false" -> NoteFalse(acc, c)
Walk(pass, s, conds) ==
    LET after[n \in 0 .. Len(conds)] == IF n = 0 THEN s ELSE Note(pass, after[n - 1], conds[n])
    IN  after[Len(conds)]

ErrorTable(mapping, o) ==
    IF GVK(o) \in DOMAIN mapping THEN mapping[GVK(o)] ELSE mapping[<<Blank, Blank, Blank>>]
checkErrors(mapping, o, conds, s) == Walk(<<"errors", ErrorTable(mapping, o)>>, s, conds)

(***************************************************************************)
(* checkTransitioning and its variants per kind.                           *)
(***************************************************************************)
\* The CAPI variants walk over the conditions once; the first of the list
\* that is Deleting=True or Paused=True ends the walk.
Stops(conds) == SelectSeq(conds, LAMBDA c : c.type \in {"Deleting", "Paused"}
                                            /\ c.status = "True")
Stopped(conds, s, deletingMsg(_)) ==
    LET c == Head(Stops(conds))
    IN  IF c.type = "Paused" THEN Moving(s, "paused")
        ELSE SayIf(Moving(s, "deleting"), deletingMsg(c.message))

checkCAPIMachineTransitioning(conds, s) ==
    LET reconciled == LastOf(conds, "Reconciled")
        ready == LastOf(conds, "Ready")
        drained(m) == IF Is(m, "drain") THEN "Draining node" ELSE m
        p == parseMessage(ready[1].message)
    IN  CASE Stops(conds) # <<>> -> Stopped(conds, s, drained)
          [] Stops(conds) = <<>> /\ reconciled # <<>> /\ reconciled[1].status # "True" ->
                SayIf(CASE reconciled[1].status = "Unknown" -> Moving(s, "reconciling")
                        [] reconciled[1].status = "False" -> Failing(s, "reconciling")
                        [] OTHER -> s,
                      reconciled[1].message)
          [] OTHER ->
                IF ready = <<>> THEN s
                ELSE CASE ready[1].status = "False" /\ p.prefix = "BootstrapConfigReady" ->
                            SayIf(Moving(s, "waitingforinfrastructure"),
                                  Muted(p.detail, "dataSecretCreated"))
                       [] ready[1].status = "False" /\ p.prefix = "InfrastructureReady" ->
                            SayIf(Moving(s, "waitingfornoderef"),
                                  Muted(Muted(p.detail, "provisioned"), "steps"))
                       [] ready[1].status = "Unknown" ->
                            SayIf(Moving(s, "reconciling"),
                                  IF p.prefix = "NodeHealthy"
                                  THEN Muted(p.detail, "providerID") ELSE p.detail)
                       [] OTHER -> s

\* Rolling out, scaling down and scaling up, by condition or by replica
\* counts; rep has the counts of the object or of the cluster's workers.
ScalesDown(conds, rep) ==
    \/ LastIs(conds, "ScalingDown", "True")
    \/ rep.spec # None /\ rep.status # None /\ rep.status > rep.spec
ScalesUp(conds, rep) ==
    \/ LastIs(conds, "ScalingUp", "True")
    \/ rep.spec # None /\ rep.ready # None /\ rep.spec > rep.ready
Counted(s, m, a, b) == IF a # None /\ b # None THEN Say(s, m) ELSE s

checkCAPIMachineSetAndDeploymentTransitioning(o, conds, s) ==
    LET rep == o.replicas
    IN  CASE Stops(conds) # <<>> -> Stopped(conds, s, LAMBDA m : m)
          [] Stops(conds) = <<>> /\ LastIs(conds, "RollingOut", "True") ->
                Counted(Moving(s, "rollingout"), "rolling out", rep.status, rep.upToDate)
          [] OTHER ->
                CASE ScalesDown(conds, rep) ->
                        Counted(Moving(s, "scalingdown"), "scaling down", rep.spec, rep.status)
                  [] ~ScalesDown(conds, rep) /\ ScalesUp(conds, rep) ->
                        Counted(Moving(s, "scalingup"), "scaling up", rep.spec, rep.ready)
                  [] OTHER -> s

checkCAPIClusterTransitioning(o, conds, s) ==
    LET rep == o.replicas
        available == LastOf(conds, "Available")
        p == parseMessage(available[1].message)
        workers(m) == IF Is(m, "machineDeployments") THEN "waiting for workers deletion" ELSE m
        waiting == [RemoteConnectionProbe |-> "establishing connection to control plane",
                    ControlPlaneAvailable |-> "Waiting for control plane to be available",
                    MachineDeployment |-> "Waiting for workers to be available"]
    IN  CASE Stops(conds) # <<>> -> Stopped(conds, s, workers)
          [] Stops(conds) = <<>> /\ LastIs(conds, "RollingOut", "True") ->
                Counted(Moving(s, "rollingout"), "rolling out", rep.status, rep.upToDate)
          [] OTHER ->
                IF ScalesDown(conds, rep)
                THEN Counted(Moving(s, "updating"), "scaling down", rep.spec, rep.status)
                ELSE IF ScalesUp(conds, rep)
                THEN Counted(Moving(s, "updating"), "scaling up", rep.spec, rep.ready)
                ELSE IF LastIs(conds, "Available", "False")
                THEN SayIf(Moving(s, "updating"),
                           IF p.prefix \in DOMAIN waiting THEN waiting[p.prefix] ELSE p.detail)
                ELSE IF LastIs(conds, "Available", "Unknown")
                THEN Say(Failing(s, "unavailable"), available[1].message)
                ELSE s

\* The first operation condition of this order that is True wins.
operationStates ==
    << [condition |-> "Failed", state |-> "failed", err |-> TRUE, moving |-> FALSE],
       [condition |-> "Canceled", state |-> "canceled", err |-> TRUE, moving |-> FALSE],
       [condition |-> "Succeeded", state |-> "succeeded", err |-> FALSE, moving |-> FALSE],
       [condition |-> "Paused", state |-> "paused", err |-> FALSE, moving |-> TRUE],
       [condition |-> "InProgress", state |-> "in-progress", err |-> FALSE, moving |-> TRUE],
       [condition |-> "Pending", state |-> "pending", err |-> FALSE, moving |-> TRUE] >>

checkOperationTransitioning(conds, s) ==
    LET holding(st) == SelectSeq(conds, LAMBDA c : c.type = st.condition /\ c.status = "True")
        winners == SelectSeq(operationStates, LAMBDA st : holding(st) # <<>>)
    IN  IF winners # <<>>
        THEN LET w == Head(winners)
             IN  SayIf([s EXCEPT !.state = w.state, !.error = @ \/ w.err,
                                 !.transitioning = @ \/ w.moving],
                       Head(holding(w)).message)
        ELSE IF conds = <<>> THEN Moving(s, "pending") ELSE s

checkGenericTransitioning(conds, s) ==
    LET moved == Walk(<<"true">>, Walk(<<"unknown">>, s, conds), conds)
        last == Walk(<<"false">>, [s |-> moved, unready |-> <<>>], conds)
    IN  IF last.s.state = Blank /\ last.unready # <<>>
        THEN Say(Moving(last.s, "unavailable"), last.unready[1])
        ELSE last.s

\* Mutant: any Deployment is taken for a CAPI one.
checkTransitioningByKind(o, conds, s) ==
    IF o.kind \in {"Deployment", "MachineDeployment"}
    THEN checkCAPIMachineSetAndDeploymentTransitioning(o, conds, s)
    ELSE checkGenericTransitioning(conds, s)
checkTransitioning(o, conds, s) ==
    CASE isCAPI(o, {"Machine"}) -> checkCAPIMachineTransitioning(conds, s)
      [] isCAPI(o, {"MachineSet", "MachineDeployment"}) ->
            checkCAPIMachineSetAndDeploymentTransitioning(o, conds, s)
      [] isCAPI(o, {"Cluster"}) -> checkCAPIClusterTransitioning(o, conds, s)
      [] isOperation(o) -> checkOperationTransitioning(conds, s)
      [] OTHER -> checkGenericTransitioning(conds, s)

(***************************************************************************)
(* The rest of the chain.                                                  *)
(***************************************************************************)
\* status.display, or else status.summary, when it is not empty; a field
\* that is missing in it is absent from the record.
checkStatusSummary(o, s) ==
    LET d == IF o.display # <<>> THEN o.display ELSE o.summary
        get(field, old) == IF field \in DOMAIN d THEN d[field] ELSE old
        told == [s EXCEPT !.state = get("state", @),
                          !.transitioning = get("transitioning", @),
                          !.error = get("error", @)]
    IN  IF "message" \in DOMAIN d THEN Say(told, d.message) ELSE told

checkActive(o, s) ==
    CASE s.state = Blank /\ o.active = "true" -> [s EXCEPT !.state = "active"]
      [] s.state = Blank /\ o.active = "false" -> [s EXCEPT !.state = "inactive"]
      [] OTHER -> s

checkPhase(o, s) ==
    CASE o.phase = "Succeeded" -> [s EXCEPT !.state = "succeeded", !.transitioning = FALSE]
      [] o.phase = "Bound" -> [s EXCEPT !.state = "bound", !.transitioning = FALSE]
      [] o.phase \notin {"Succeeded", "Bound", Blank} /\ s.state = Blank -> [s EXCEPT !.state = o.phase]
      [] OTHER -> s

\* created is "recent" for five seconds.
checkInitializing(o, conds, s) ==
    IF /\ s.state = Blank
       /\ o.hasConditions /\ conds = <<>>
       /\ o.group \in CattleGroups
       /\ o.created = "recent"
    THEN Moving(s, "initializing") ELSE s

\* removed is "old" after five minutes, "bad" when it is not a timestamp.
RemovalMessages(conds) ==
    LET told == SelectSeq(conds, LAMBDA c : /\ c.type = "Removed"
                                            /\ c.status \in {"Unknown", "False"}
                                            /\ c.message # Blank)
    IN  [i \in DOMAIN told |-> told[i].message]
checkRemoving(o, conds, s) ==
    LET finalizers == IF o.finalizers # <<>> THEN o.finalizers ELSE o.specFinalizers
        removing == [Moving(s, "removing") EXCEPT !.message = @ \o RemovalMessages(conds)]
        waiting == IF Head(finalizers) = "foregroundDeletion" THEN "object cleanup"
                   ELSE Head(finalizers)
    IN  IF o.removed = Blank THEN s
        ELSE IF finalizers = <<>> THEN removing
        ELSE [Say(removing, waiting) EXCEPT !.error = @ \/ o.removed = "old"]

checkStandard(o, s) ==
    CASE s.state # Blank \/ o.norman -> s
      [] s.state = Blank /\ ~o.norman /\ o.kstatus = "InProgress" -> Say(Moving(s, "in-progress"), o.kmessage)
      [] s.state = Blank /\ ~o.norman /\ o.kstatus = "Failed" -> Say(Failing(s, "failed"), o.kmessage)
      [] s.state = Blank /\ ~o.norman /\ o.kstatus = "Current" -> Say([s EXCEPT !.state = "active"], o.kmessage)
      [] s.state = Blank /\ ~o.norman /\ o.kstatus = "Terminating" -> Say(Moving(s, "removing"), o.kmessage)
      [] OTHER -> s

checkLoadBalancer(o, s) ==
    IF s.state \in {"active", Blank} /\ o.kind = "Service" /\ o.balancer /\ o.ingress = <<>>
    THEN Say(Moving(s, "pending"), "Load balancer is being provisioned") ELSE s

checkGeneration(o, s) ==
    IF /\ s.state = Blank /\ s.hasObserved
       /\ o.generation # None
       /\ (IF o.observed = None THEN 0 ELSE o.observed) # o.generation
    THEN Moving(s, "in-progress") ELSE s

(***************************************************************************)
(* Relationships.  A pod or pod template has its volumes, the references   *)
(* of its containers' envFrom and env, its service account, its projected  *)
(* sources and the pull secrets found beside the spec; a reference is a    *)
(* record of the kind it names and the name, Blank when it names another kind.*)
(***************************************************************************)
Rel(kind, name) == [type |-> "uses", kind |-> kind, name |-> name]
Named(refs, kind) == SelectSeq(refs, LAMBDA r : r.kind = kind /\ r.name # Blank)
\* The first reference of each name.
Firsts(refs) ==
    S!FoldLeft(LAMBDA acc, r : IF \E x \in S!Range(acc) : x.name = r.name
                             THEN acc ELSE Append(acc, r), <<>>, refs)
Uses(refs) == [i \in DOMAIN refs |-> Rel(refs[i].kind, refs[i].name)]

\* Per container first envFrom, then env.
addEnvRef(pod, kind) ==
    S!FlattenSeq([i \in DOMAIN pod.containers |->
        Named(pod.containers[i].envFrom, kind) \o Named(pod.containers[i].env, kind)])
checkPodRefs(pod, kind, s) ==
    Relate(s, Uses(Firsts(Named(pod.volumes, kind) \o addEnvRef(pod, kind))))
checkPodServiceAccount(pod, s) == Relate(s, <<Rel("ServiceAccount", pod.serviceAccount)>>)
\* Per source the secret before the config map.
checkPodProjectedVolume(pod, s) ==
    Relate(s, Uses(S!FlattenSeq([i \in DOMAIN pod.projected |->
        Named(pod.projected[i], "Secret") \o Named(pod.projected[i], "ConfigMap")])))
checkPodPullSecret(pod, s) == Relate(s, Uses(Named(pod.pullSecrets, "Secret")))

checkPodTemplate(pod, s) ==
    checkPodPullSecret(pod, checkPodProjectedVolume(pod, checkPodServiceAccount(pod,
        checkPodRefs(pod, "Secret", checkPodRefs(pod, "ConfigMap", s)))))

checkPod(o, s) ==
    IF isKind(o, "Pod", {}, {}) THEN checkPodTemplate(o.pod, s) ELSE s

HasPods(o) ==
    \/ \E k \in {"ReplicaSet", "DaemonSet", "StatefulSet", "Deployment"} :
            isKind(o, k, {"apps", "extension"}, {})
    \/ isKind(o, "Job", {"batch"}, {})
    \/ isKind(o, "Service", {}, {})

checkHasPodTemplate(o, s) ==
    IF o.template # <<>> /\ HasPods(o) THEN checkPodTemplate(o.template[1], s) ELSE s

\* A selector without matchLabels and matchExpressions is read as labels; one
\* that has them and does not convert is dropped.
checkHasPodSelector(o, s) ==
    IF o.selector = Blank \/ ~HasPods(o) \/ o.selector = "malformed" THEN s
    ELSE Relate(s, <<[type |-> IF o.kind = "Service" THEN "selects" ELSE "creates",
                      kind |-> "Pod", name |-> Blank]>>)

checkOwner(o, s) ==
    Relate(s, [i \in DOMAIN o.owners |->
        [type |-> "owner", kind |-> o.owners[i].kind, name |-> o.owners[i].name,
         controlledBy |-> o.owners[i].controller]])

\* The owner that Apply noted in the annotations, if no owner reference does.
checkApplyOwned(o, s) ==
    IF o.owners # <<>> \/ o.appliedBy = Blank THEN s
    ELSE Relate(s, <<[type |-> "applies", kind |-> o.appliedBy, name |-> "owner"]>>)

checkRelease(o, s) ==
    IF isKind(o, "App", {}, {"catalog.cattle.io"}) /\ "state" \in DOMAIN o.summary
       /\ o.summary.state = "deployed"
    THEN Relate(s, [i \in DOMAIN o.resources |->
            [type |-> "helmresource", kind |-> o.resources[i].kind, name |-> o.resources[i].name]])
    ELSE s

checkCattleReady(o, conds, s) ==
    LET unready == {i \in DOMAIN conds : /\ conds[i].type = "Ready" /\ conds[i].status = "False"
                                          /\ conds[i].message # Blank}
    IN  IF o.group \in CattleGroups /\ unready # {}
        THEN [Say(s, conds[S!Min(unready)].message) EXCEPT !.error = TRUE] ELSE s

(***************************************************************************)
(* The chains, and what is done after them.                                *)
(***************************************************************************)
Summarizers(i, mapping, o, conds, s) ==
    CASE i = 1 -> checkStatusSummary(o, s)
      [] i = 2 -> checkErrors(mapping, o, conds, s)
      [] i = 3 -> checkTransitioning(o, conds, s)
      [] i = 4 -> checkActive(o, s)
      [] i = 5 -> checkPhase(o, s)
      [] i = 6 -> checkInitializing(o, conds, s)
      [] i = 7 -> checkRemoving(o, conds, s)
      [] i = 8 -> checkStandard(o, s)
      [] i = 9 -> checkLoadBalancer(o, s)
      [] i = 10 -> checkPod(o, s)
      [] i = 11 -> checkHasPodSelector(o, s)
      [] i = 12 -> checkHasPodTemplate(o, s)
      [] i = 13 -> checkOwner(o, s)
      [] i = 14 -> checkApplyOwned(o, s)
      [] i = 15 -> checkRelease(o, s)
      [] i = 16 -> checkGeneration(o, s)
ChainLength == 16

\* The chain for one condition on its own.
ConditionSummarizers(mapping, o, c) ==
    checkCattleReady(o, <<c>>, checkRemoving(o, <<c>>,
        checkGenericTransitioning(<<c>>, checkErrors(mapping, o, <<c>>, NoSummary))))

\* Only status.conditions are rewritten, not those of the annotation.
NormalizeConditions(mapping, o) ==
    [i \in DOMAIN o.conds |->
        LET s == ConditionSummarizers(mapping, o, o.conds[i])
        IN  [error |-> s.error, transitioning |-> s.transitioning]]

dedupMessage(messages) ==
    S!FoldLeft(LAMBDA acc, m : IF m = Blank \/ m \in S!Range(acc) THEN acc ELSE Append(acc, m),
             <<>>, messages)
ToLower(state) == IF state \in DOMAIN LowerState THEN LowerState[state] ELSE state
Finished(s) ==
    [s EXCEPT !.state = IF @ = Blank THEN "active" ELSE ToLower(@), !.message = dedupMessage(@)]
=============================================================================
