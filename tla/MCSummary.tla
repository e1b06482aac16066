----------------------------- MODULE MCSummary -----------------------------
(* Families of small objects, one per group of summarizers.                 *)
EXTENDS Summary

C(t, st, r, m) == [type |-> t, status |-> st, reason |-> r, message |-> m]
NoPod == [volumes |-> <<>>, containers |-> <<>>, projected |-> <<>>,
          pullSecrets |-> <<>>, serviceAccount |-> ""]
NoReplicas == [spec |-> None, status |-> None, ready |-> None, upToDate |-> None]
Plain == [group |-> "", version |-> "v1", kind |-> "Thing", conds |-> <<>>, annParses |-> TRUE,
          annConds |-> <<>>, hasConditions |-> TRUE, display |-> <<>>, summary |-> <<>>,
          active |-> "", phase |-> "", created |-> "old", removed |-> "", finalizers |-> <<>>,
          specFinalizers |-> <<>>, norman |-> FALSE, kstatus |-> "Current", kmessage |-> "k",
          balancer |-> FALSE, ingress |-> <<>>, generation |-> None, observed |-> None,
          replicas |-> NoReplicas, pod |-> NoPod, template |-> <<>>, selector |-> "",
          owners |-> <<>>, appliedBy |-> "", resources |-> <<>>]
Kinded(g, v, k) == [Plain EXCEPT !.group = g, !.version = v, !.kind = k]
SeqUpTo(S, n) == UNION {[1..k -> S] : k \in 0..n}

Statuses == {"True", "False", "Unknown"}
MCShape == [boot |-> [prefix |-> "BootstrapConfigReady", detail |-> "secret", subs |-> <<>>, is |-> {}],
            infra |-> [prefix |-> "InfrastructureReady", detail |-> "", subs |-> <<"steps">>, is |-> {}],
            node |-> [prefix |-> "NodeHealthy", detail |-> "", subs |-> <<"provider">>, is |-> {}],
            probe |-> [prefix |-> "RemoteConnectionProbe", detail |-> "x", subs |-> <<>>, is |-> {}],
            secret |-> [prefix |-> "", detail |-> "", subs |-> <<>>, is |-> {"dataSecretCreated"}],
            steps |-> [prefix |-> "", detail |-> "", subs |-> <<>>, is |-> {"steps"}],
            provider |-> [prefix |-> "", detail |-> "", subs |-> <<>>, is |-> {"providerID"}],
            drain |-> [prefix |-> "", detail |-> "", subs |-> <<>>, is |-> {"drain"}],
            workers |-> [prefix |-> "", detail |-> "", subs |-> <<>>, is |-> {"machineDeployments"}]]
MCLowerState == [Running |-> "running", ScaleUp |-> "scaleup", Error |-> "error"]

\* Any kind without rules of its own: conditions of every table, mixed.
GenericConds ==
    {C(t, st, "", m) : t \in {"Ready", "Failed"}, st \in Statuses, m \in {"steps"}} \cup
    {C(t, st, "", "m") : t \in {"Created", "Completed"}, st \in Statuses} \cup
    {C("ScalingUp", st, r, "m") : st \in Statuses, r \in {"", "ScaleUp"}} \cup
    {C("Informed", "True", "Error", "m"), C("Progressing", "False", "", "m")}
GenericObjects ==
    {[Kinded(g[1], g[2], g[3]) EXCEPT !.conds = cs, !.phase = ph, !.removed = rm,
                                      !.finalizers = IF rm = "" THEN <<>> ELSE <<"f">>] :
        g \in {<<"apps", "v1", "Deployment">>, <<"fleet.cattle.io", "v1", "Bundle">>},
        cs \in SeqUpTo(GenericConds, 2), ph \in {"", "Running"}, rm \in {"", "old"}}

\* What the object says itself, its phase, age, generation and removal.
Displays == {<<>>, [state |-> "active"], [error |-> TRUE, message |-> "d"],
             [state |-> "Error", transitioning |-> TRUE]}
PlainObjects ==
    {[Kinded(g[1], g[2], g[3]) EXCEPT !.display = d, !.summary = su, !.active = ac, !.phase = ph,
                                      !.created = cr, !.kstatus = ks, !.norman = no, !.generation = 2,
                                      !.observed = ob] :
        g \in {<<"", "v1", "Service">>, <<"helm.cattle.io", "v1", "HelmChart">>},
        d \in Displays, su \in {<<>>, [state |-> "paused"]}, ac \in {"", "true", "false"},
        ph \in {"Bound"}, cr \in {"recent", "old"},
        ks \in {"InProgress", "Failed", "Current", "Terminating", "Unknown"}, no \in BOOLEAN, ob \in {None, 2}}
RemovedObjects ==
    {[Kinded("", "v1", "Thing") EXCEPT !.removed = rm, !.finalizers = f, !.specFinalizers = sf,
                                       !.conds = cs, !.annConds = an, !.annParses = pa] :
        rm \in {"recent", "old", "bad"}, f \in {<<>>, <<"foregroundDeletion">>}, sf \in {<<>>, <<"g">>},
        cs \in SeqUpTo({C("Removed", st, "", m) : st \in Statuses, m \in {"", "m"}}, 1),
        an \in SeqUpTo({C("Removed", "Unknown", "", "n")}, 1), pa \in BOOLEAN}

\* CAPI kinds: conditions, scaling by replicas, messages with bullets.
MachineConds == {C("Deleting", "True", "", m) : m \in {"", "drain"}} \cup {C("Paused", "True", "", "")}
    \cup {C("Reconciled", st, "", "m") : st \in Statuses \cup {""}}
    \cup {C("Ready", st, "", m) : st \in Statuses, m \in {"boot", "infra", "node", "other", ""}}
MachineObjects == {[Kinded("cluster.x-k8s.io", "v1beta2", "Machine") EXCEPT !.conds = cs, !.kstatus = ks] :
                      cs \in SeqUpTo(MachineConds, 2), ks \in {"Current", "InProgress"}}
ScaleConds == {C("Deleting", "True", "", "workers"), C("Paused", "True", "", "")}
    \cup {C(t, st, "", "m") : t \in {"RollingOut", "ScalingUp", "ScalingDown"}, st \in {"True", "False"}}
    \cup {C("Available", st, "", m) : st \in Statuses, m \in {"probe", ""}}
ReplicaCounts == {1, 2}
ScaleObjects ==
    {[Kinded("cluster.x-k8s.io", "v1beta2", k) EXCEPT !.conds = cs, !.replicas = r] :
        k \in {"MachineDeployment", "MachineSet", "Cluster"}, cs \in SeqUpTo(ScaleConds, 2),
        r \in {[spec |-> sp, status |-> st, ready |-> re, upToDate |-> st] :
                  sp \in ReplicaCounts, st \in ReplicaCounts, re \in {1}} \cup {NoReplicas}}

OperationConds == {C(t, st, "", "m") : t \in {"Failed", "Canceled", "Succeeded", "Paused", "InProgress", "Pending"}, st \in {"True", "Unknown"}}
OperationObjects == {[Kinded("operation.cattle.io", "v1", "ETCDSnapshotSave") EXCEPT !.conds = cs, !.phase = ph] :
                        cs \in SeqUpTo(OperationConds, 2), ph \in {"", "Failed", "Succeeded"}}

\* Pods, workloads, services and apps: their relationships.
Refs == {[kind |-> k, name |-> n] : k \in {"Secret", "ConfigMap"}, n \in {"a", "b"}}
PodSpecs == {[NoPod EXCEPT !.volumes = v, !.containers = <<[envFrom |-> ef, env |-> en]>>,
                           !.projected = pr, !.pullSecrets = ps] :
                v \in SeqUpTo(Refs, 1), ef \in SeqUpTo(Refs, 1), en \in SeqUpTo(Refs, 1),
                pr \in {<<>>, <<<<[kind |-> "Secret", name |-> "a"], [kind |-> "ConfigMap", name |-> "b"]>>>>},
                ps \in {<<>>, <<[kind |-> "Secret", name |-> "b"]>>}}
PodObjects == {[Kinded("", "v1", "Pod") EXCEPT !.pod = p] : p \in PodSpecs}
WorkloadObjects ==
    {[Kinded(g[1], g[2], g[3]) EXCEPT !.selector = se, !.template = te, !.owners = ow, !.appliedBy = ap,
                                      !.balancer = ba, !.summary = su, !.resources = <<[kind |-> "Pod", name |-> "a"]>>] :
        g \in {<<"apps", "v1", "Deployment">>, <<"batch", "v1", "Job">>, <<"", "v1", "Service">>,
               <<"catalog.cattle.io", "v1", "App">>, <<"", "v1", "Thing">>},
        se \in {"", "labels", "malformed"}, te \in {<<>>, <<NoPod>>},
        ow \in {<<>>, <<[kind |-> "Thing", name |-> "o", controller |-> TRUE]>>}, ap \in {"", "Thing"},
        ba \in BOOLEAN, su \in {<<>>, [state |-> "deployed"]}}

\* No mapping; one that makes a false Progressing harmless and a false Ready
\* an error; and one that does not parse.
MCEnvs == {<<[gvk |-> <<"apps", "v1", "Deployment">>,
              mappings |-> <<[type |-> "Progressing", status |-> {}],
                             [type |-> "Ready", status |-> {"False"}]>>]>>,
           <<[gvk |-> <<>>, mappings |-> <<>>]>>}
In(objects, env, attr) == {[obj |-> o, env |-> env, attr |-> attr] : o \in objects}
Deployments == {o \in GenericObjects : o.kind = "Deployment" /\ o.removed = "" /\ o.phase = ""}
MCInputs == << In(GenericObjects, <<>>, "missing"), In(PlainObjects, <<>>, "missing"),
               In(PlainObjects, <<>>, "true"), In(RemovedObjects, <<>>, "missing"),
               In(MachineObjects, <<>>, "missing"), In(ScaleObjects, <<>>, "missing"),
               In(OperationObjects, <<>>, "missing"), In(PodObjects, <<>>, "missing"),
               In(WorkloadObjects, <<>>, "missing"),
               UNION {In(Deployments, e, "missing") : e \in MCEnvs} >>
=============================================================================
