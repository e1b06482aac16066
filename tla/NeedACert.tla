----------------------------- MODULE NeedACert -----------------------------
(* pkg/needacert: a service with the secret annotation gets a TLS secret    *)
(* with a certificate for its names, and the webhook configurations and     *)
(* CRDs that call the service get that certificate as their CA bundle.      *)
(*                                                                          *)
(* The handlers of the service, webhook and CRD controllers run             *)
(* concurrently, read informer caches that lag, and share generateSecret,   *)
(* which holds a lock per service over its API calls.  Mutating and         *)
(* validating configurations have the same handler.  A certificate is a     *)
(* serial number; the secret of a service has the service's name.           *)
EXTENDS Integers, Sequences, Functions, FiniteSets

CONSTANTS Services, Webhooks, CRDs,
          Keys,         \* worker -> the keys it handles
          Calls,        \* configuration or CRD -> the services it calls, in order
          Existing,     \* service -> its number if it exists at first, else 0
          Variants,     \* contents of a service: [annotated, dns, caOnly]
          MaxDisturbances, \* changes by others, of services, secrets or time, API
                           \* calls that fail or whose answer is lost, restarts
          MaxCollects      \* secrets the garbage collector deletes

Configs == Webhooks \cup CRDs
ASSUME CallsAssumption == Calls \in [Configs -> Seq(Services)] /\ \A c \in CRDs : Len(Calls[c]) = 1
ASSUME VariantsAssumption ==
    /\ \A v \in Variants : v.annotated \in BOOLEAN /\ v.caOnly \in BOOLEAN
    /\ \E v \in Variants : v.annotated
    /\ {MaxDisturbances, MaxCollects} \subseteq Nat
\* The services that exist at first are numbered from 1.
ASSUME ExistingAssumption ==
    /\ IsFiniteSet(Services) /\ Existing \in [Services -> Nat]
    /\ \A s \in Services : Existing[s] <= Cardinality({x \in Services : Existing[x] # 0})
\* A key is handled by one worker at a time.
ASSUME KeysAssumption ==
    \A v, w \in DOMAIN Keys : v # w => Keys[v] \cap Keys[w] = {}
ASSUME DisjointKeys == Services \cap Configs = {} /\ Webhooks \cap CRDs = {}

VARIABLES
    service,      \* the services of the API server: Absent or a variant with a uid
    secret,       \* its secrets: Absent or [serial, dns, owner]
    config,       \* its configurations and CRDs: the CA bundle of each call
    cache,        \* the informers' view of the three: [service, secret, config]
    news,         \* secrets and configurations with an event on its way
    queue,        \* keys waiting in the three work queues
    timer,        \* the certificate a service's next check is scheduled for, 0 if none
    lock,         \* services whose lock is held
    work,         \* what the worker of each controller is doing
    serials,      \* certificates generated so far
    due,          \* the last certificate that is within 60 days of its end
    uids, stored,
    spent         \* disturbances and collections so far
vars == <<service, secret, config, cache, news, queue, timer, lock, work, serials, due,
          uids, stored, spent>>
server == <<service, secret, config, news, serials, uids, stored>>

Absent == [uid |-> 0]
NoSecret == [serial |-> 0]
NoBundle == [serial |-> 0, caOnly |-> FALSE]
WithUid(v, u) == [annotated |-> v.annotated, dns |-> v.dns, caOnly |-> v.caOnly, uid |-> u]
Idle == [pc |-> "idle"]
Workers == DOMAIN Keys
caBundleFor(svc, sec) == [serial |-> sec.serial, caOnly |-> svc.caOnly]
byService(s) == {c \in Configs : s \in Range(Calls[c])}
View == [service |-> service, secret |-> secret, config |-> config]

Disturb == /\ spent.disturbances < MaxDisturbances
           /\ spent' = [spent EXCEPT !.disturbances = @ + 1]

\* A controller at rest: the services that exist have their certificates.
Init ==
    /\ service = [s \in Services |-> IF Existing[s] = 0 THEN Absent
                                    ELSE WithUid(CHOOSE v \in Variants : v.annotated, Existing[s])]
    /\ secret = [s \in Services |-> IF Existing[s] = 0 THEN NoSecret
                     ELSE [serial |-> Existing[s], dns |-> service[s].dns, owner |-> Existing[s]]]
    /\ config = [c \in Configs |-> [i \in DOMAIN Calls[c] |->
                     IF \A s \in Range(Calls[c]) : Existing[s] # 0
                     THEN caBundleFor(service[Calls[c][i]], secret[Calls[c][i]]) ELSE NoBundle]]
    /\ cache = View /\ news = {} /\ queue = {}
    /\ timer = Existing /\ lock = {}
    /\ work = [w \in Workers |-> Idle]
    /\ serials = Cardinality({s \in Services : Existing[s] # 0})
    /\ uids = serials /\ due = 0
    /\ stored = {<<s, Existing[s]>> : s \in {x \in Services : Existing[x] # 0}}
    /\ spent = [disturbances |-> 0, collects |-> 0]

(***************************************************************************)
(* A worker takes a key and looks up the object in the cache; a            *)
(* configuration is walked call by call on a copy.  Work that touches      *)
(* nothing shared is part of the step before it.                           *)
(***************************************************************************)
Go(w, step) == work' = [work EXCEPT ![w] = step]
Done(w) == Go(w, Idle)

Generating(key, s, i, base, copy) ==
    [pc |-> "lock", key |-> key, svc |-> s, seen |-> cache.service[s], i |-> i,
     base |-> base, copy |-> copy, sec |-> NoSecret]

\* The handlers of configurations from call i on: calls of services without
\* the annotation are passed over, a service that is not in the cache ends
\* the handler and drops the copy, and a copy that changed is written.
Entry(key, i, base, copy) ==
    LET stops == {j \in i..Len(Calls[key]) : LET svc == cache.service[Calls[key][j]]
                                             IN  svc = Absent \/ svc.annotated}
        j == CHOOSE k \in stops : \A l \in stops : k <= l
    IN  IF stops # {}
        THEN IF cache.service[Calls[key][j]] = Absent THEN Idle
             ELSE Generating(key, Calls[key][j], j, base, copy)
        ELSE IF copy = base.bundle THEN Idle
        ELSE [pc |-> "write", key |-> key, base |-> base, copy |-> copy]

\* Mutant: the CRDs are forgotten.
OnServiceWebhooks(s) == queue \cup (byService(s) \cap Webhooks)
\* OnService queues the configurations that call the service.
OnService(s) == queue \cup byService(s)

Take(w) ==
    /\ work[w].pc = "idle"
    /\ \E key \in queue \cap Keys[w] :
          LET svc == cache.service[key]
          IN  IF key \in Configs
              THEN /\ queue' = queue \ {key}
                   /\ Go(w, Entry(key, 1, [bundle |-> cache.config[key], current |-> key \notin news],
                                  cache.config[key]))
              ELSE IF svc # Absent /\ svc.annotated
              THEN /\ queue' = queue \ {key}
                   /\ Go(w, Generating(key, key, 0, <<>>, <<>>))
              ELSE /\ queue' = (IF svc = Absent THEN queue ELSE OnService(key)) \ {key}
                   /\ UNCHANGED work
    /\ UNCHANGED <<server, cache, timer, lock, due, spent>>

(***************************************************************************)
(* generateSecret.                                                         *)
(***************************************************************************)
\* A handler that fails is queued again, except OnCRDChange, which returns
\* no error when generateSecret fails.
Failed(w) ==
    /\ lock' = lock \ {work[w].svc}
    /\ queue' = IF work[w].key \in CRDs THEN queue ELSE queue \cup {work[w].key}
    /\ Done(w)

\* Mutant: only a certificate that was just made has its check scheduled.
scheduleNew(s, sec) ==
    IF sec.serial = serials + 1 THEN [timer EXCEPT ![s] = sec.serial] ELSE timer
\* scheduleNextCertCheck; the lock is released and the handler goes on.
\* A queue keeps the earlier of two times for a key, the older certificate's.
scheduleNextCertCheck(s, sec) ==
    [timer EXCEPT ![s] = IF @ = 0 \/ sec.serial < @ THEN sec.serial ELSE @]
Generated(w, sec) ==
    LET job == work[w]
    IN  /\ timer' = scheduleNextCertCheck(job.svc, sec)
        /\ lock' = lock \ {job.svc}
        /\ IF job.key \in Services
           THEN queue' = OnService(job.svc) /\ Done(w)
           ELSE /\ Go(w, Entry(job.key, job.i + 1, job.base,
                               [job.copy EXCEPT ![job.i] = caBundleFor(job.seen, sec)]))
                /\ queue' = queue

\* updateSecret: too old, or not for the names of the service.
updateSecret(sec, svc) == sec.serial <= due \/ sec.dns # svc.dns
Check(w, sec) ==
    IF updateSecret(sec, work[w].seen)
    THEN /\ Go(w, [work[w] EXCEPT !.pc = "update", !.sec = sec])
         /\ lock' = lock \cup {work[w].svc}
         /\ UNCHANGED <<timer, queue>>
    ELSE Generated(w, sec)

Lock(w) ==
    /\ work[w].pc = "lock" /\ work[w].svc \notin lock
    /\ LET cached == cache.secret[work[w].svc]
       IN  IF cached # NoSecret THEN Check(w, cached)
           ELSE /\ Go(w, [work[w] EXCEPT !.pc = "create"])
                /\ lock' = lock \cup {work[w].svc}
                /\ UNCHANGED <<queue, timer>>
    /\ UNCHANGED <<server, cache, due, spent>>

\* createSecret: a new certificate for the names, owned by the service.
createSecret(w) == [serial |-> serials + 1, dns |-> work[w].seen.dns, owner |-> work[w].seen.uid]
Put(s, new) ==
    /\ secret' = [secret EXCEPT ![s] = new]
    /\ news' = news \cup {s}
    /\ serials' = serials + 1
    /\ stored' = stored \cup {<<s, new.serial>>}

\* Mutant: the secret that could not be created is used.
CreateUses(w) ==
    /\ work[w].pc = "create"
    /\ IF secret[work[w].svc] = NoSecret
       THEN Put(work[w].svc, createSecret(w))
       ELSE serials' = serials + 1 /\ UNCHANGED <<secret, news, stored>>
    /\ Check(w, createSecret(w))
    /\ UNCHANGED <<service, config, uids, cache, due, spent>>
\* Secrets.Create: if somebody else's secret is there, that one is read.
Create(w) ==
    /\ work[w].pc = "create"
    /\ IF secret[work[w].svc] = NoSecret
       THEN /\ Put(work[w].svc, createSecret(w))
            /\ Check(w, createSecret(w))
       ELSE /\ Go(w, [work[w] EXCEPT !.pc = "get"])
            /\ UNCHANGED <<secret, news, serials, stored, timer, lock, queue>>
    /\ UNCHANGED <<service, config, uids, cache, due, spent>>

Get(w) ==
    /\ work[w].pc = "get"
    /\ IF secret[work[w].svc] = NoSecret
       THEN Failed(w) /\ UNCHANGED timer
       ELSE Check(w, secret[work[w].svc])
    /\ UNCHANGED <<server, cache, due, spent>>

\* Secrets.Update replaces the data and keeps the owner; a conflict fails.
renewed(w) == [createSecret(w) EXCEPT !.owner = work[w].sec.owner]
Update(w) ==
    /\ work[w].pc = "update"
    /\ IF secret[work[w].svc] = work[w].sec
       THEN Put(work[w].svc, renewed(w)) /\ Generated(w, renewed(w))
       ELSE Failed(w) /\ UNCHANGED <<secret, news, serials, stored, timer>>
    /\ UNCHANGED <<service, config, uids, cache, due, spent>>

\* An API call of generateSecret fails, or an update succeeds and its answer
\* is lost.
CallFails(w) ==
    /\ work[w].pc \in {"create", "get", "update"}
    /\ Disturb
    /\ Failed(w)
    /\ \/ UNCHANGED <<secret, news, serials, stored>>
       \/ /\ work[w].pc = "update" /\ secret[work[w].svc] = work[w].sec
          /\ Put(work[w].svc, renewed(w))
    /\ UNCHANGED <<service, config, uids, cache, timer, due>>

\* The update at the end, if anything changed: a conflict or a failure queues
\* the key again, for a CRD too.
Updated(job) == [config EXCEPT ![job.key] = job.copy]
Write(w) ==
    /\ work[w].pc = "write"
    /\ LET job == work[w]
       IN  IF job.base.current
           THEN config' = Updated(job) /\ news' = news \cup {job.key} /\ queue' = queue
           ELSE queue' = queue \cup {job.key} /\ UNCHANGED <<config, news>>
    /\ Done(w)
    /\ UNCHANGED <<service, secret, serials, uids, stored, cache, timer, lock, due, spent>>

WriteFails(w) ==
    /\ work[w].pc = "write"
    /\ Disturb
    /\ \/ UNCHANGED <<config, news>>
       \/ /\ work[w].base.current
          /\ config' = Updated(work[w]) /\ news' = news \cup {work[w].key}
    /\ queue' = queue \cup {work[w].key}
    /\ Done(w)
    /\ UNCHANGED <<service, secret, serials, uids, stored, cache, timer, lock, due>>

(***************************************************************************)
(* Informers, timers, the garbage collector, other clients, restarts.      *)
(***************************************************************************)
\* resolveServiceFromSecret: the services that the cache says name a secret.
resolveServiceFromSecret(s) == IF cache.service[s] # Absent /\ cache.service[s].annotated
                               THEN {s} ELSE {}

Informer ==
    /\ \/ \E s \in Services : /\ cache.service[s] # service[s]
                               /\ cache' = [cache EXCEPT !.service[s] = service[s]]
                               /\ queue' = queue \cup {s} /\ news' = news
       \/ \E s \in news \cap Services : /\ cache' = [cache EXCEPT !.secret[s] = secret[s]]
                           /\ news' = news \ {s}
                           /\ queue' = queue \cup resolveServiceFromSecret(s)
       \/ \E c \in news \cap Configs : /\ cache' = [cache EXCEPT !.config[c] = config[c]]
                                     /\ news' = news \ {c}
                                     /\ queue' = queue \cup {c}
    /\ UNCHANGED <<service, secret, config, serials, uids, stored, timer, lock, work, due, spent>>

\* The check is scheduled for the moment the certificate becomes due.
Timer ==
    /\ \E s \in Services : /\ timer[s] \in 1..due
                           /\ timer' = [timer EXCEPT ![s] = 0]
                           /\ queue' = queue \cup {s}
    /\ UNCHANGED <<server, cache, lock, work, due, spent>>

\* The API server's garbage collector: the owner reference names a uid.
Collect ==
    /\ \E s \in Services : /\ secret[s] # NoSecret /\ secret[s].owner # service[s].uid
                           /\ secret' = [secret EXCEPT ![s] = NoSecret]
                           /\ news' = news \cup {s}
    /\ spent.collects < MaxCollects /\ spent' = [spent EXCEPT !.collects = @ + 1]
    /\ UNCHANGED <<service, config, serials, uids, stored, cache, queue, timer, lock, work,
                   due>>

Change ==
    /\ Disturb
    /\ \/ \E s \in Services, v \in Variants :
             /\ uids' = IF service[s] = Absent THEN uids + 1 ELSE uids
             /\ service' = [service EXCEPT ![s] =
                    WithUid(v, IF @ = Absent THEN uids + 1 ELSE @.uid)]
             /\ service' # service
             /\ UNCHANGED <<secret, news, due>>
       \/ \E s \in Services : /\ service[s] # Absent
                               /\ service' = [service EXCEPT ![s] = Absent]
                               /\ UNCHANGED <<secret, news, due, uids>>
       \/ \E s \in Services : /\ secret[s] # NoSecret
                               /\ secret' = [secret EXCEPT ![s] = NoSecret]
                               /\ news' = news \cup {s}
                               /\ UNCHANGED <<service, due, uids>>
       \/ due < serials /\ due' = serials /\ UNCHANGED <<service, secret, news, uids>>
    /\ UNCHANGED <<config, serials, stored, cache, queue, timer, lock, work>>

\* A new process lists everything and gets an event for every object.
Restart ==
    /\ Disturb
    /\ cache' = View /\ news' = {}
    /\ queue' = Configs \cup {s \in Services : service[s] # Absent}
    /\ timer' = [s \in Services |-> 0] /\ lock' = {} /\ work' = [w \in Workers |-> Idle]
    /\ UNCHANGED <<service, secret, config, serials, uids, stored, due>>

Step(w) == Take(w) \/ Lock(w) \/ Create(w) \/ Get(w) \/ Update(w) \/ Write(w)
Next == \/ \E w \in Workers : Step(w) \/ CallFails(w) \/ WriteFails(w)
        \/ Informer \/ Timer \/ Collect \/ Change \/ Restart
Fairness == /\ \A w \in Workers : WF_vars(Step(w))
            /\ WF_vars(Informer) /\ WF_vars(Timer) /\ WF_vars(Collect)
Spec == Init /\ [][Next]_vars /\ Fairness

(***************************************************************************)
(* Properties.                                                             *)
(***************************************************************************)
Wants(s) == service[s] # Absent /\ service[s].annotated
Certified(s) == /\ secret[s] # NoSecret /\ secret[s].dns = service[s].dns
                /\ secret[s].serial > due
Present(c) == \A s \in Range(Calls[c]) : service[s] # Absent
Trusted == \A c \in Configs : Present(c) =>
              \A i \in DOMAIN Calls[c] : Wants(Calls[c][i]) =>
                 config[c][i] = caBundleFor(service[Calls[c][i]], secret[Calls[c][i]])

\* A configuration never trusts a certificate that was not stored in the
\* secret of the service it calls: not one that lost a race to be created,
\* nor one whose update failed, nor another service's.
TrustsOnlyStored ==
    \A c \in Configs : \A i \in DOMAIN Calls[c] :
        config[c][i] # NoBundle =>
            <<Calls[c][i], config[c][i].serial>> \in stored

\* When nothing is queued, running, unseen or due, every annotated service has a
\* certificate for its names that is not due, its renewal is scheduled, and
\* every configuration whose services exist trusts it in the form the
\* service asks for - also after OnCRDChange swallowed an error, a cached
\* service or secret was stale, or the collector took a secret from under a
\* service created again.
AtRest == /\ queue = {} /\ news = {} /\ cache = View
          /\ \A w \in Workers : work[w] = Idle
          /\ \A s \in Services : timer[s] \notin 1..due
RestingIsTrusted ==
    AtRest =>
        /\ \A s \in Services : Wants(s) => Certified(s) /\ timer[s] \in 1..secret[s].serial
        /\ Trusted

\* And it does come to rest: in the end all of that holds for good.
EventuallyTrusted == <>[]((\A s \in Services : Wants(s) => Certified(s)) /\ Trusted)
=============================================================================
