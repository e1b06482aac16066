# A verification of wrangler

TLA+ modules, TLC runs and TLAPS proofs for `rancher/wrangler`. First the parts
that keep state, race with others or have to recover: the remove handlers of
`pkg/generic`, `Apply` of `pkg/apply` with the controllers that call it, the
generating handlers of `pkg/generated`, `pkg/broadcast`, `pkg/needacert`,
`pkg/crd` and `pkg/leader`. Then the packages that are libraries of functions:
the options of Apply, schemas and their mappers, OpenAPI, summaries and the
admission router.

Paths below are relative to `src/pkg` unless they start with `src/`.

## 1. The system

wrangler is a framework for Kubernetes controllers. A process watches objects
through informers, whose caches lag behind the API server; events put keys into
work queues (lasso); workers call the registered handlers of a key, and put the
key back after an error. Handlers read from the caches and write to the API
server, where other processes and people write too.

| Part | State it keeps | Operations | What makes it correct |
|---|---|---|---|
| remove handlers (`generic/remove.go`) | finalizers on the object | `sync`, `addFinalizer`, `removeFinalizer` | finalizer once; cleanup before release, for the right incarnation; others' finalizers stay; deletion completes |
| apply (`apply/*.go`) | label and annotation on each object | `Apply`, `process`, `list`, `compareSets`, create/update/delete, reconcilers | an undisturbed call reaches the desired state; nothing wanted is deleted; foreign fields stay; disturbances are made up for |
| object sets (`objectset`) | objects by GVK and key | `Add`, `GVKOrder` | order and lookup across versions |
| generating handlers (`generated/controllers/*/*/*.go`) | versions seen; a status condition | `sync`, `Handle`, `Remove` | owner gone, children gone; owner there, children there; condition ends up right; a skipped version was applied |
| related resources (`relatedresource`) | none | `watch` | events of a child reach its owner |
| broadcaster (`broadcast/generic.go`) | `running`, `subs`, channels, goroutines | `Subscribe`, `unsub`, `stream` | no panic, one stream, no silent gap, every subscription closed |
| typed controllers, caches, factory (`generic`) | registrations | CRUD, `OnChange`, `OnRemove`, `Sync`, `Start` | arguments pass through; caches synced before workers |
| leader (`leader`), signals, start | lease, `leaderChan`, signal context | `RunOrDie`, `OnLeader`, `OnLeaderOrDie`, `SetupSignalContext`, `start.All` | one elector leads; an overlap of leader functions ends; somebody serves |
| needacert | secret, caBundles, timers | `OnService`, `OnMutationWebhookChange`, `OnCRDChange`, `generateSecret` | what is trusted was stored; in the end secret, names and caBundle agree |
| crd | CRDs in the server | `BatchCreateCRDs` (two), `CreateCRDs`, the CRD builder | created or updated, then established; columns name fields that exist |
| apply's options and owners (`apply`, `objectset`) | shared maps and slices | `With...`, `FindOwner`, `PurgeOrphan`, `DryRun` | options do not leak; what is applied stays; owned objects are not purged |
| schemas, mappers, openapi, validation (`schemas`) | registry | `Import`, `AddSchema`, `ToInternal`, `FromInternal`, `ToOpenAPI` | no self-deadlock; round trips; nothing lost in the OpenAPI schema |
| summary | none | `Summarize`, `NormalizeConditions`, `Watch` | the two chains of summarizers agree; a stopped watch ends |
| condition | conditions of a status | `SetError`, `MatchesError` | a status settles, others' conditions stay |
| webhook router (`webhook`) | routes | `HandleFunc` and criteria, `ServeHTTP`, `CreatePatch` | the first matching route and nobody else admits |
| data, kv, name | none (pure) | conversions | the documented result |
| ticker, trigger | small goroutines | start and stop | nobody blocks for ever |
| controller-gen, codegen, kubeconfig, schemes, mocks | build-time or start-up only | | |

How they interact: a generating handler is a status handler whose `Handle`
calls `Apply` with the owner's children and whose `Remove` calls it with none.
`Apply` lists from the caches the controllers fill. `relatedresource.Watch`
turns a child's events into keys of its owner. Remove handlers share one object
with all other handlers and replicas. At start-up a process creates its CRDs,
waits for leadership and, as leader, syncs and starts the factories of its
controllers. The CRD builder makes CRDs of schemas, which are imported from Go
types and changed by mappers.

Hard here: stale caches nearly everywhere (an object just written is not in the
cache), writes with and without optimistic concurrency side by side (finalizer
and status updates carry a resourceVersion, Apply's patches and deletes do
not), errors in the middle of a call that goes on, crashes between two calls,
objects that come back under the same name. `PROJECT.json` lists the hazards,
each at its line.

## 2. The modules

| Module | Models | Extends |
|---|---|---|
| `Lifecycle` | one object, several controllers, their remove handlers | |
| `Finalization` | what remove handlers promise, without the machinery | |
| `Lifecycle_proofs` | theorems about `Lifecycle`, and that it implements `Finalization` | `Lifecycle` |
| `Apply` | the steps of one Apply call, API server, informer | |
| `Apply_proofs` | what each step of a call keeps | `Apply` |
| `Reconcile` | owners that call Apply over and over, faults, other writers | `Apply` |
| `Reconcile_proofs` | theorems about it | `Reconcile`, `Apply_proofs` |
| `Conditions` | conditions of a status | |
| `Generating` | generating and status handlers, owners, restarts | `Apply`, `Conditions` |
| `Generating_proofs` | theorems about it | `Generating`, `Apply_proofs` |
| `Broadcaster` | the broadcaster with its goroutines | |
| `Broadcaster_proofs` | theorems about it | `Broadcaster` |
| `NeedACert` | services, secrets, webhook configurations and CRDs | |
| `NeedACert_proofs` | theorems about it | `NeedACert` |
| `CRDs` | calls that create CRDs | |
| `Leader` | signals, leader election, what a leader runs | |
| `Startup` | processes from start to shutdown | `CRDs`, `Leader` |
| `Startup_proofs` | theorems about the creation of CRDs and the election | `Startup` |
| `DesiredSets` | values of type Apply: options, what a call computes, owners | |
| `Programs` | programs that derive and call Applies | `DesiredSets` |
| `Data`, `Mappers`, `Schemas`, `OpenAPI`, `CRDBuilder` | values, mappers, the registry, what is generated from it | in this order |
| `Summarizers`, `Summary` | each summarizer; the two chains | in this order |
| `Streams` | the goroutines of a ticker and of a summary watch | |
| `Webhook` | the admission router | |
| `Library` | a program that uses one of these packages or the broadcaster | `CRDBuilder`, `Streams`, `Broadcaster`, `Programs`, `Summary`, `Webhook` |
| `Library_proofs` | theorems about Applies, summaries and the router | `Programs`, `Summary`, `Webhook` |
| `MC*` | values of the constants for TLC | |

Definitions carry the names of the functions they model. Operators that end in
what they do wrong (`syncAddsAlways`, `changedTwoWay`, `unsubAlways`, ...) are
seeded faults: each property was seen to fail when the definition that follows
is replaced by such an operator. No specification uses them.

### Lifecycle

`server` is the object in the API server: uid, resourceVersion, whether it is
being deleted, its finalizers. Each controller has a cache, a queue of one key
and a worker, whose program counter stops before every call that leaves the
process: `sync` (the decision, `remove.go:34`), `handlerDone` and `handlerErr`
(the registered handler, `:47`), `update` and `updateFails` (the updater,
`:103` and `:118`). `Take` is the queue handing out the key with the cached
object and `sync`'s nil check. Several handlers of one controller run one after
the other on the object the previous one returned (`Return`), as lasso does;
any error brings the key back.

The informer jumps to the newest version. A worker that is handed a version
in between can do no more than one with an older snapshot: its write is refused
as stale, and a cleanup it runs is one of an object whose deletion was requested
and is never taken back.
The registered handler may have updated the object itself before it returns it
(a disjunct of `handlerDone`); it does not remove its own finalizer.

`removed` states what `removeFinalizer` is meant to compute, `removeLoop` the
loop as written, which shortens the slice it ranges over; `LoopRemovesOne`
compares them on every object that is about to be written back.

`Finalization` is the promise: an object is live or deleting, handlers hold it,
a cleanup runs for an incarnation that is not live any more, and a holder lets
go only after its cleanup. `Final` in `Lifecycle` maps the server's object to
it: the phase from `deleting`, the holders from the finalizers, the incarnation
from the uid; caches, queues, resource versions and retries are gone. Every step
of `Lifecycle` is a step of `Finalization` or a stutter (`Implements`).

### Apply

An object has a set (the hash label), the applied annotation and fields. A
version of a kind is a GVK; an object is the same under every version (`GK`).
`run[s]` is the call in progress: what is left of the GVK loop, what was listed,
and the three key lists of `process`. Each API call is a step, so other writers
act between any two. Errors are recorded in `err` and the call goes on.

The three-way merge is modelled per field: a field of the desired state that
differs from the listed object is set, a field that the annotation has and the
desired state lacks is removed. The patch is computed from the listed object
and lands on the object in the server (`patched`), with no resourceVersion. The
label and the annotation are part of it. `Guarded` stands for the field a
reconciler guards (a selector, a service's type, a job's template); the API
server refuses to change it. `list` reads the cache for a GVK with an informer
and the server otherwise. `mustReplace` compares with the annotated object, as
`applyPatch` does. Objects vanish as soon as they are deleted: finalizers of
children are not modelled.

Namespaces, owner references, dry runs, injectors and the rate limiter are in
`DesiredSets`. Left out: the truncation of long values in the annotation.

### Reconcile

`Change` is the owner's new mind, `Call`/`Step`/`Finish` the worker, `Informer`
delivers one event of a child and queues its owner if `Watched`. The resolver
is the caller's; it is taken to find the owner (for `OwnerResolver` that needs
owner references). The deletion's delay of one second is part of the informer's
step. `Foreign` creates, deletes or edits objects behind Apply's back; `Fault`
loses a call, or the answer of a create, or ends the call in the middle. After
such an end the model may go on with a cache that is older than the fresh list
of a new process; the events still to come cover the fresh list as well.

`exact[s]` is a history variable: nobody else wrote and no call was lost since
the call began, and what it listed was up to date.

### Generating

One worker per owner: `Remove` for an owner that is gone from the cache,
`Handle` for one that is there, then the steps of `Apply`, `Applied` (store
the version or not, go on to the status) and `UpdateStatus`. Two handlers are
registered for a key, `Remove` and `sync`; each returns at once in the other's
case, so one step decides between them. `unique` is the option
`UniqueApplyForResourceVersion`; both values are initial states. The
status holds conditions (`Conditions`): that of the handler, which `SetError`
adds if it is missing and sets field by field, and one of somebody else. A
conflict counts as success in it and as an error for the queue (`sync`, lines
107-111). `Crash` restarts the process:
fresh lists, every listed object queued, `seen` empty.

### Broadcaster

The mutex makes each critical section one action: `Subscribe` and `start`,
`unsub`, the loop body of `stream` (`broadcast`) and its end (`finish`). The
goroutines that unsubscribe are counters and flags (`dropping`, `watcher`),
so any number of them race. Items are numbered, which is all `NothingMissed`
needs. `NoPanic` covers both panics of the code: the close of a closed channel,
and a send to one, for `stream` sends to what is in `subs`.

### NeedACert

`service`, `secret` and `config` are the API server's objects, `cache` and
`news` what the informers have and will deliver. A worker's job stops before
each wait and call: `Take` (the three handlers up to `generateSecret`, with the
indexes `byService` and `resolveServiceFromSecret`), `Lock`, `Create`, `Get`,
`Update`, `Write`. A configuration may call several services, certified one
after the other into one copy (`Entry`). A certificate is a serial number,
`due` the serial up to which certificates are to be renewed, `timer` the check
that `scheduleNextCertCheck` has planned. `Collect` is the garbage collector,
which takes the secret of a service that is gone.

### CRDs, Leader, Startup

`stored` is each CRD with who wrote it last and whether it is established. A
call of `init.go` that may not read CRDs returns without an error and without
having looked at any (`skipped`); `CRDsEstablished` says nothing of it. A
worker is a call of `BatchCreateCRDs` of `crd.go` (list once, update with the
version listed or create, wait) or one goroutine of `Factory.BatchCreateCRDs`
of `init.go` (create all, then wait for the first and the others from a map by
GVK). A resource version is whether what a worker has read is still current.

`Leader` has signals (a second one exits), the environment variables and the
durations made of them, the elector of client-go (external: acquire, renew,
release), the callbacks, and the functions behind `leaderChan`, which sync and
start factories one kind after the other. Time is counted in ticks; the
durations keep the order they have in the code.

`Startup` composes both: a process goes from its CRDs to the election, a
failure ends it, and it may be restarted under its host name.

### DesiredSets, Programs

A desiredSet is a record, and Go's maps and arrays are cells of a memory
(`mem`), so that what one option writes can be seen through another desiredSet:
`WithInjector` appends as Go's `append` does, into the room behind a slice if
there is some. A call of Apply is one step: labels and annotations, namespaces,
owner references, injectors, the GVKs in order, the list, the filter across
versions, the plan of a dry run. The calls that `process` makes for the objects
of one GVK are for different keys and do not read one another's, so they are
taken together (`All`), each as it would be alone (`One`); the GVKs come one
after the other (`processAll`). `Programs` derives Applies from one another
(`Options`), or calls a few of them, with owners that come and go and informers
that fall behind (`Calls`).

What may be said of options and calls is narrower than it looks. Options do
share two things: the map of `WithNoDeleteGVK`, and the room behind a slice of
injectors or patches. `OptionsStay` names both, for any number of Applies:
the one item that may change is the one right behind a slice of the Apply the
option was given to. `AppliedStays` is about the
objects that `filterCrossVersion` can recognise (`Recognised`), that have the
labels after the injectors have run, and that no reconciler has taken over
(`Labels`); `CrossVersion` shows what happens to the others.

### Data, Mappers, Schemas, OpenAPI, CRDBuilder

A value is a record that tells its Go type; what Go's string functions do is
given in tables, since no property looks into a string. A mapper is a record of
its Go type and fields, its three methods are operators over all mappers. The
registry is the list of schemas and the index by ID, which share pointers; a Go
type is a table entry instead of a `reflect.Type`. A call that asks for the
lock it holds is `blocked`. `OpenAPI` has the schema of a type, the validation
of a field's value, and what the API server accepts for the same field; a CRD
is built step by step by the `With` functions.

Where the conversions of Go matter they are modelled by what they do. A
`data.Object` is not a `map[string]interface{}` to a type assertion
(`DataObject`), and `EncodeToMap` makes plain maps, lists and `json.Number` of
what it is given. `SliceToMap` stores its items as `data.Object` and asks for
maps on the way back, so `RoundTrip` goes through JSON, as a request does, for
all mappers that keep everything, and stays in memory for those without
`SliceToMap`. Numbers that may be no integers are counted in halves (`Halves`):
`ToNumber` truncates, `ToFloat` does not. The characters of a field are a string
that the validation takes one by one (`Chars`) and the CRD puts between the
brackets of a regular expression (`Class`).

`ValidImpliesProps` says that a value that passes the validation of a field is
accepted by the CRD made of it, but for four differences that the code has.
`Laxer` names them: limits hold for a given int64 only, not for a float or a
default; lengths count bytes; characters are taken as they are; any value of
type `json` passes. On the instance of `Library` no difference can be left out.

### Summarizers, Summary

Each summarizer is an operator of the object, its conditions and the summary so
far, as in the code; `SummaryNext` runs the chain one at a time, then the final
touches, then `NormalizeConditions`. The loops over the conditions are one
recursive function (`Walk`) with what a pass makes of a condition (`Note`). A
message is a name, and a table says how
those that are parsed read.

### Streams, Webhook

`Streams` has one action for each point where a goroutine waits. In `Webhook`
the routes are built call by call, so every half-built router is a state, and a
review is answered in any of them; a review that fails to decode although it
has a request finds no response to put the error in, and the call panics.

## 3. The runs

All states are explored; the bounds are constants named in the modules.
`CHECK_DEADLOCK FALSE` everywhere: a controller with nothing to do, and
nobody who wants anything, is a proper final state.

| Run | Instance | Shows |
|---|---|---|
| `Lifecycle` | two controllers (handlers a, b; and a), 2 incarnations, 1 fault | the finalizer protocol, safety and liveness, and that it implements `Finalization` |
| `Reconcile` | one set, 2 keys, 2 versions of a kind, 4 desired states, 3 changes, 1 fault; v1 is not to be deleted under, k2 not pruned | `ExactCallMatches`, `DeletesJustified`, `ForeignFieldKept`, `Converges` |
| `RemovedField` | as above, an environment that comes and goes, no faults | violation, see below |
| `StuckReplacement` | the same with a reconciler | violation, see below |
| `Generating` | one owner, two specs, a cached and a listed kind, 3 changes, 1 fault | children follow the owner; the condition settles |
| `OrphanedChild` | the same, children not watched, no faults | violation, see below |
| `NeedACert` | 2 services, a configuration that calls both, a CRD that calls one, 3 contents of a service, 2 disturbances, 1 collection | what is trusted was stored; in the end all agree |
| `Startup` | 2 processes, 2 CRDs, one call of each kind, three environments, 2 disturbances of any kind | CRDs established, one leads, overlaps end, somebody serves |
| `Library` | one program per package: 3 calls, 2 options, 2 events; a few Go types, mappers, objects, reviews each; a broadcaster with 2 subscribers, 2 connections, capacity 2, 4 items | options, applied objects, schemas, summaries, router, streams; the broadcaster does not panic, has one stream and no silent gap, and closes happen |
| `NoOwnerDelete` | the calls of `Library` | violation, see below |
| `CrossVersion` | the calls of `Library` | violation, see below |
| `AllMatches` | the routes and reviews of `Library` | violation, see below |

Why the bounds are enough for the cases meant: two incarnations give a worker
with an object of the previous one; two controllers with a common handler give
conflicts on one finalizer, two handlers in one controller give the object
passed on after a write; one fault at any point is a crash or a lost answer
between any two steps, and stale caches need no fault. Three changes of mind
reach create, replace and drop, and drop while an older call is in flight. Four
items over a capacity of two fill a buffer twice, and two connections give a
restart while goroutines of the first are pending. Two services and a
configuration of both give a write whose second half is stale; two disturbances
are a change and a failure while it is dealt with, and a collection the secret
of a service that was created again. Two processes with calls of both kinds
write each other's CRDs between any two steps; two disturbances are a missed
renewal, a signal or a failed call in one process while the other comes up or
goes down. In `Library` three calls are enough to register mappers, import a
type and import or remove another one it shares schemas with; to apply, lose
the owner and purge; to begin two routes. Two options show a leak from one
derivative to another of the same Apply.

### Fairness

Workers and informers keep running (weak fairness of each controller's worker,
each key's informer): goroutines are scheduled and watches reconnect. A retry
after an error is the same worker again. Faults, other writers, contexts,
inputs and consumers are under no fairness and bounded in number, which states
the assumption that failures end; in `Lifecycle` it includes that a cleanup
succeeds in the end. Nothing is assumed of the order of events of different
keys. In `NeedACert` the timers fire and the garbage collector runs. In
`Startup` a process acquires a lease that is free again and again (strong
fairness: the elector retries with jitter), CRDs that exist get established,
and time passes. In `Streams` a `select` that finds the context done time and
again takes that case in the end (strong fairness: Go chooses at random), and a
consumer that has not left receives.

### Where the code departs from its documentation

* `RemovedField`. `src/README.md:295` says an existing object will "be updated
  to match the passed desired state". The original of the merge comes from the
  listed, cached object (`apply/desiredset_compare.go:194`). A field added by
  the previous call and dropped by this one, before the cache has caught up, is
  in neither the cached annotation nor the cached object; the patch leaves it
  and overwrites the annotation, and no later call removes it. `Converges` does
  not count such left-over fields; `UpdatedToMatch` does.
* `StuckReplacement`, same line. A patch computed from a stale object reaches
  the object that has replaced it and brings only the annotation, of another
  value of the guarded field. The reconciler is asked about the annotation
  (`:232`), sees no difference, and the API server refuses the patch of the
  guarded field in this and every later call.
* `OrphanedChild`. `generated/controllers/apps/v1/deployment.go:141` says Remove
  is "cascade deleting every associated resource previously applied". Remove
  deletes what the cache lists. A child created just before may be missing, the
  call returns no error and nothing queues the owner again. With
  `relatedresource.Watch` on the children the child's own event does, and
  `Generating` shows `CascadeDelete` with it.

* `NoOwnerDelete`. The comment at `apply/desiredset_process.go:351` says that
  "desiredSets without owners will never return objects to delete". A set with
  a set ID and no owner is listed by its hash label in the namespaces of its
  objects, and what is no longer wanted there is deleted.
* `CrossVersion`. `process` takes from its deletions what the same call has
  applied under another version of the kind (`:262`), but knows it only by the
  namespace it was given or the default one. An object that `adjustNamespace`
  put into the owner's namespace, or that `clearNamespace` took out of one, is
  deleted by the pass over another version, and the call returns no error.
  `AppliedStays` shows that the others stay.
* `AllMatches`. `webhook/router.go:51` says that ServeHTTP "calls the Admit
  function on all matching handlers". `Router.admit` returns the answer of the
  first route that matches (`:82`); a later one whose handler would have refused
  is not asked. `AdmittedByFirst` says what does hold.

In these runs nothing fails and nobody else writes.

Seen while modelling, without a run of their own:

* `webhook`: `CreatePatch` labels a merge patch as a JSON patch. A review that
  fails to decode after its request was read makes `sendError` write into a
  response that is nil.
* `schemas`: the list of a `SliceToMap` is lost when an object is brought back
  without having been encoded. The validation lets pass what the CRD of the same
  field refuses, in the cases `Laxer` names.
* `generic/generating.go`: the option `NoOwnerReference`'s effect in
  `ConfigureApplyForObject` is to set owner references.
* `condition.MatchesError` does not treat `generic.ErrSkip` as `SetError` does.
* `summary`: the comment on deleting and paused CAPI objects speaks of absolute
  priority, the order of the checks decides.
* `PurgeOrphan` deletes the object of an owner whose version is not served any
  more, as discovery answers "not found" too.
* `objectSetHash` hashes its parts without separators; injectors run after the
  labels were set and may take them away.
* `AddSchema` with an `Embed` or `Move` mapper waits for the lock it holds;
  `Import` does not.
* `CreateCRDs` of `init.go` (`:560`) keeps what it waits for by GVK: of several
  definitions whose GVK is not set it waits for one (`Hidden`).

`Reconcile`'s own desired states avoid the first two: its replacement does not
go together with a dropped field. Within that, `Converges` covers takeovers,
replacements, lost answers and crashes. With `UniqueApplyForResourceVersion`
`EventuallyGenerated` is not claimed: an Apply that found nothing to do in a
stale cache counts as done.

## 4. The proofs

The proof modules are checked by TLAPS for every value of the constants that
satisfies the assumptions of the module, which TLC evaluates on the instance of
each run:

| Assumption | Says |
|---|---|
| `LifecycleAssumption` | each controller has a non-empty sequence of handlers |
| `BroadcasterAssumption` | the capacity of a channel is positive |
| `ApplyAssumption` | `KeyOrder` lists keys, the known GVKs are GVKs, `None` is no object |
| `ReconcileAssumption` | owners want sets of objects under a version of their kind; none names the foreign field |
| `GeneratingAssumption`, `OwnerAssumption` | the same of what handlers generate; `None` is no owner |
| `CallsAssumption`, `VariantsAssumption`, `ExistingAssumption`, `KeysAssumption`, `DisjointKeys` | configurations call services, a CRD one; services that exist at first are numbered from 1; a key is handled by one worker at a time (lasso's queue); the kinds of keys differ |
| `CRDsAssumption`, `LeaderAssumption`, `StartupAssumption` | each call asks for some CRDs; processes have different host names, durations are unset, not parsable, or integers of either sign |
| `ProgramsAssumption` | the Applies a program begins with are sound (their maps and arrays exist, a slice is no longer than its array, the map of `WithNoDeleteGVK` is no other one); keys are pairs; no part of a GVK has a separator of its string in it; lists are sequences |
| `SummaryAssumption` | the conditions of an object are a sequence; the states `succeeded` and `bound` are in lower case already |
| `WebhookAssumption` | a handler is a finite sequence of steps, a merge patch is never empty (it is at least `{}`) |

| Theorem | Property | Module |
|---|---|---|
| `TypeCorrect`, `FinalizerNeverTwice`, `CleanedIsDeleting`, `LoopTakesOneOff` | `TypeOK`, `FinalizerOnce`, `CleanupOnlyIfDeleted`, `LoopRemovesOne` | `Lifecycle_proofs` |
| `ReleasedAfterCleanup`, `OthersFinalizersStay` | `CleanupBeforeRelease`, `OnlyOwnFinalizer` (of steps) | `Lifecycle_proofs` |
| `LifecycleImplements` | `Implements` (refinement) | `Lifecycle_proofs` |
| `TypeCorrect`, `NeverPanics`, `SingleStream`, `NoSilentGap` | `BroadcasterTypeOK`, `NoPanic`, `OneStream`, `NothingMissed` | `Broadcaster_proofs` |
| `ReconcileTyped`, `ExactCallsMatch` | `TypeOK`, `ExactCallMatches` | `Reconcile_proofs` |
| `DeletesAreJustified`, `ForeignFieldIsKept` | `DeletesJustified`, `ForeignFieldKept` (of steps) | `Reconcile_proofs` |
| `GeneratingTyped`, `SkippedWasApplied` | `TypeOK`, `SkipsOnlyApplied` | `Generating_proofs` |
| `OnlyStoredTrusted`, `RestIsTrusted` | `TrustsOnlyStored`, `RestingIsTrusted` | `NeedACert_proofs` |
| `NeverTwoLeaders`, `SuccessMeansEstablished` | `OneLeads`, `CRDsEstablished` | `Startup_proofs` |
| `FirstAdmits` | `AdmittedByFirst` | `Library_proofs` |
| `OptionsAreKept` | `OptionsStay` (of steps) | `Library_proofs` |
| `AppliedObjectsStay`, `OwnedAreSpared` | `AppliedStays`, `PurgeSpares` | `Library_proofs` |
| `ChainsAgree` | `FlagsAgree` | `Library_proofs` |

The inductive invariants of `Reconcile`, `Generating`, `NeedACert`, `Startup`
and the older ones were model-checked on the instances of section 3 before they
were proved.

`Lifecycle_proofs`. None of the properties is inductive: that a stale write
cannot hurt depends on what every cache and every worker holds. The invariant
`IInv` says that each such object is a copy (`Copy`) of a version the server
has or had: its resourceVersion tells it apart, so a copy with the current
resourceVersion *is* the current object; the deletion of an incarnation is
never taken back, so a copy that is being deleted means the server's object of
the same uid is, too; no copy has a finalizer twice. `Workers` adds what a
worker knows at each program counter (the finalizer is there and the cleanup
has succeeded before a removal; the finalizer is absent before an addition),
`Cleaned` that cleanups belong to incarnations that exist or did. One lemma per
action shows `IInv` preserved. `FinalizerOnce` and `CleanupOnlyIfDeleted`
follow from it; `CleanupBeforeRelease` and `OnlyOwnFinalizer` are action
properties, proved from `IInv` and the lemma `StepReleases`: the only step that
releases a finalizer is an updater's write to the current version.

`LoopRemovesOne` needs what the loop computes for a list of any length. With
one entry of the name, at k, the rounds before k leave the array alone, round k
shifts, and no later round reads the name again (`RoundsShiftOnce`); the values
of the recursive function follow by induction (`LoopValue`). That there is one
entry only is `Once` of `IInv`.

The refinement needs two facts of the server's object that `IInv` does not have
(`Settled`): its uid is the number of incarnations created so far, and an object
that is being deleted still has a finalizer, since the API server removes one
without. With them each action of `Lifecycle` is shown to be a step of
`Finalization` under the mapping, or to change nothing it sees: a create, a
delete, a handler's success (`Cleanup`), and the updater's write of a current
copy (`Protect` or `Release`); a write with a stale copy is refused, and
everything else, caches, queues and crashes, stutters.

`Broadcaster_proofs`. `IInv` is the conjunction of the four invariants and
`Untouched`: a Subscribe that was not made, or failed, has no map entry, no
items and no close. It is needed because a new subscription starts with an
empty buffer and an open channel. One lemma per conjunct.

`Apply_proofs` reduces every step of a call to one of eight outcomes (`Outcome`:
a GVK given up or listed, an object created, met, found, updated or deleted, a
call dropped), with the one write it may make. `WorkOutcome` does this once;
`Reconcile_proofs` and `Generating_proofs` argue by outcome. `Planned` ties the
three key lists to what the call wants and has listed. `SortedElements` says
that the lists of `process` have exactly the keys that were compared.

`Reconcile_proofs`. `DeletesJustified` follows from `Planned`: what is in the
list of deletions is not wanted and not exempt. `ForeignFieldKept` needs
`CleanInv`: no annotation that a call may read, in the server, in events under
way, in the cache or in the call's own list, names the foreign field, so the
three-way merge has nothing to remove. `ExactCallMatches` needs `ExactInv`,
which for an undisturbed call without an error says of every wanted key that its
GVK is still to come, that it is in a list, or that the server has it as wanted,
and of every other key of the set that it is still to be listed or deleted, or
gone (`WantedOK`, `UnwantedOK`). The proof uses `NoPatch`: an update that sends
nothing found all fields in place.

`Generating_proofs`. A version is known by its number alone, in a map that
outlives the owner. The invariant says that numbers are never used twice
(`AgreeOn`: of all versions in the server, in events, in the cache and in the
worker's hands, two of one number have one spec), that the number stored is of
what was applied last, and that a `Remove` has cleared it before anything is
deleted (`PhaseInv`).

`NeedACert_proofs`. `StoredInv` types everything and follows a certificate from
the secret through caches and workers' copies into a configuration;
`TrustsOnlyStored` is a part of it. `RestingIsTrusted` is about what no step
may forget. `RestInv` says of each service and configuration that it is right,
or somebody is going to handle it: it is queued, in a worker's hands, in an
event under way, or its timer is due (`Active`, `Unsettled`, `Pending`).
`KeepsService` is what every step owes to a service, and the lemmas that end in
`Kept` show that it is enough for everybody who does not take part in the step.

`Startup_proofs`. `OneLeads` needs `LeadsInTime`: a leader holds the lease, with
its own duration, and its age is no more than the leader's renew deadline,
which a valid configuration has below the lease duration (`Configured`); so
nobody else can acquire before it has stopped. `CRDsEstablished` needs one
invariant per call (`JobInv`): what was written and is established has been seen
to be, what the second list showed or the wait passed was established, and the
map of `CreateCRDs` has for every definition that was written the definition or
a later one with its GVK.

`Library_proofs` has the parts of `Library` that need no recursive operator; it
extends their modules instead of `Library`. Each theorem is about the
specification of its part (`WebhookSpec`, `ProgramsSpec`, `SummarySpec`), whose
actions `Library` takes one program at a time; so are those of
`Broadcaster_proofs` (`BroadcasterSpec`).

*Webhook.* An answer was given with the routes there are (`AnswerInv`, since
building takes the answer back), so the theorem is about `admit`. By induction
over the steps of a handler (`SteppedFair`, `AdmitFair`) an answer is fair to
the steps run so far: somebody allowed it, the patch is that of the first
CreatePatch, and without an error there was one at most.

*Options.* The invariant is `Sound`: every reference of every Apply leads to a
cell of its type, every slice fits its array, and the map that
`WithNoDeleteGVK` writes into is none that is copied. `DerivesMakes` reduces the
options to four ways to write: none, a copied map, a shared map, an append
(`CopyFits`, `SharedFits`, `AppendFits`, `DiffPatchFits`); each leaves all cells
as they were but the room behind a slice of the Apply it was given to. Without
the last part of `Sound` a shared write could reach the reconcilers of another
Apply.

*Owners.* `PurgeSpares` needs that what `PurgeOrphan` reads from annotations is
what an Apply wrote there: `getGVK` is the inverse of `gvkString`
(`GVKRoundTrip`) if no part of a GVK contains a separator, and the key of an
owner is a pair whichever option set it (`AppliesKeyed`). Then `FindOwner` finds
the owner, through the informer or the client (`OwnerFound`).

*Calls.* `CallDone`, the invariant, says that the store is what `apply` leaves
of the arguments of the last call. The rest is about `apply`: an object set has
an index entry and a place in the order for each of its objects (`Indexed`), the
order of the GVKs begins as the objects were added (`OrderExtends`), and
`Spared` says that `filterCrossVersion` exempts a recognised object under every
version of its kind. `StepStays` and `StepForetold` follow one GVK, `LoopStays`
and `LoopForetold` all of them. An object in its place stays there with its
labels: whoever writes to that place has the same labels, an update that sends
nothing has found them, in the store or in an informer that is up to date, and a
replacement is an error. What is deleted was listed. If it was listed as it had
been before the call, the dry run lists it, too; otherwise the call itself has
written it, with the labels, and the filter exempts it. The plan part does not
need the informers to be up to date; the other part does.

*Summaries.* The property is about the end of the chain; `SumOk` says what k
summarizers have made of the object. A summary is `Honest` when a state comes
with a flag: as long as it is, a later summarizer that skips a summary with a
state skips one that is flagged already. An error has a condition, an overdue
removal or kstatus behind it. Each pass over the conditions flags the summary
exactly if one of them is in its table (`WalkPasses`, by induction); the types
that are in transition when false are in no other table (`TablesApart`). The
states that come without a flag (`Settled`) are not `active`.

Recursion. The induction theorems of the library have an operator as a
parameter, which the provers cannot instantiate. `SetInduction` states
induction for a set, from the least element of a set of numbers (`WFMin`), and
is enough for recursive *functions* over numbers: `Sorted`, `removeLoop`,
`Admit`, `Walk`, `NewObjectSet`, `GVKOrder` and `processAll` are such. Recursive operators are not within reach.

Only model-checked: all liveness properties, since fairness is out of the
prover's reach (`DeletionCompletes`, `EventuallyProtected`, `Converges`,
`CascadeDelete`, `EventuallyGenerated`, `StatusSettles`, `EventuallyClosed`,
`EventuallyTrusted`, `OverlapEnds`, `EventuallyServed`, `StreamsEnd`); the
properties of schemas and CRDs (`ImportComplete`, `RoundTrip`, `PropsComplete`,
`ValidImpliesProps`, `ColumnsInSchema`), whose algorithms are recursive
operators over nested types and values. All other invariants and action
properties of the runs are proved.

## 5. Not modelled, and the plan

Not modelled: the parts listed as `not_modelled` or `partly` in
`PROJECT.json`. Code generation and the generated controllers other than
Deployment's (the same template), mocks, kubeconfig and schemes, the helpers on
strings and YAML stay out: they are text, boilerplate or configuration. So do
tombstones of informers (`DeletedFinalStateUnknown`), two services that name one
secret, trigger, and the informers and listers of summaries.

Next, in this order:

1. Proofs: the safety part of `StatusSettles` (others' conditions stay).
2. An abstract specification of Apply for one set (desired, present, calls),
   with `Reconcile` as its implementation.
3. Two owners on one key; tombstones; two services with one secret.
