# TLA+ development of rt-bootstrapper

rt-bootstrapper is a Kubernetes operator in one process: an admission webhook
that adapts pods to a landscape, and two controllers that keep a pull secret and
the pods that mount a trust bundle up to date. This directory holds TLA+ modules
of its control flow, TLC configurations that check them on small instances, and
machine-checked proofs of every safety property of the passing runs.

## Inventory

| Component | State | Operations | Hard behaviour | Module |
|---|---|---|---|---|
| CTB hash holder, watcher, restarter (`internal/ctb`, `pkg/api/v1/ctb_values.go`) | hash in memory, one work item, the scan in progress | pre-compute at start, informer event, reconcile, list and delete one call at a time | webhook reads the hash while the watcher writes it; admission and storage are apart; failed scans, a pod that can never be deleted; restart; two processes in a rollout | `CTBRotation`, `Rotation` |
| Admission webhook (`internal/webhook/v1/pod_webhook.go`) | list of defaulters, fixed at the start | one request, defaulter by defaulter | the ConfigMap is read again by each defaulter; the watched bundle is the one of the start | `Admission` |
| Pod defaulters (`pod_defaulter*.go`, `webhook/k8s`) | none | five functions on a pod | existing entries of the same name, reinvocation, chained overrides | `PodFeatures` |
| Configuration (`pkg/api/v1/types.go`) | ConfigMap | validate, expand features | invalid at any time | `PodFeatures` |
| Pull secret reconciler (`internal/controller`) | queue, informer caches | full sync, one copy, one namespace | stale caches, server-side apply conflicts, missing events, one namespace failing, two processes that are one field manager | `SecretSync` |
| CA bundle callback (`webhook/certificate`, `cmd/main.go`) | none between callbacks | read file, Get, Patch, retry | callbacks run side by side, in one process and in two; the end of a process that wrote last | `CABundle` |
| Webhook server (`webhook/server`) | started flag | start, serve, stop | the first callback must end before it listens; a certificate watcher that does not start is only logged | partly, in `CABundle` |
| Start of the process (`cmd/main.go`) | what it reads at the start | exit or wire up | features and names are fixed here | `Admission`, `CTBRotation`, `SecretSync`, `CABundle` |

Interactions: the watcher writes the hash holder the webhook reads
(`CTBRotation` has both sides; `Admission` has the write as an action beside a
running request). The configuration is read by `main` once, by each defaulter,
and by each reconcile of a secret. The restarter's deletions come back as
admissions, through the owners of the pods. The controllers share nothing else.
The processes of a rolling update share the cluster only: nothing elects a leader
(`main.go:101`), so all of them admit, restart, copy and write the CA at the same
time. `CTBRotation`, `SecretSync` and `CABundle` therefore have a set of processes.

What makes each component correct: the watcher never loses a change and converges
without deleting fresh pods; a request applies what was asked for and nothing
else, under some configuration of its time; the copies follow the master and the
master is left alone; the API server can verify the certificate of every process.

## Modules

**`CTBRotation`** Variables: `bundle` is the history of the ClusterTrustBundle,
of which `seen[p]` is the version in the cache of process `p`; `holder`, `item`
(work queue) and `pass` (a running `RestartStalePods`) are the memory of a
process; `pods` and `creating` are the stored pods and those between admission
and storage. `ReconcileFound` computes the hash and begins a pass; `ListPods`,
`ListForbidden`, `DeletePod`, `DeleteNotFound`, `DeleteForbidden`, `PassFails`
are its API calls, `PassDone` its result. A name of a pod is a *slot*; a slot of
a StatefulSet is reused by the next pod, `vanished` keeps the two apart. It is
assumed that the process was started with a mapping and the feature available, as
otherwise there is no watcher. `Workload[s].answers` are the answers a Delete of a
pod can get: `DeletePod`, `DeleteForbidden` (a 403, taken for a namespace without
permissions) and `DeleteFails` (any other error, which ends the pass).

**`Rotation`** is the abstract promise of the above: the published hashes, the hash
each process holds, the hash of each pod. Its `Restart` compares and deletes in one
step, with the hash held at that moment; a pod disappears otherwise only by a
disturbance, and `Adopt` takes published hashes only. `CTBRotation` instantiates it as `Promise`
(`published` is the set of hashes of the history, `held` the holders, `pods` the hashes of the
stored pods) and has `ImplementsRotation == Promise!Spec` as a property: the cache, the queue, the
scan with its List and Delete apart, and the creation of pods with admission
and storage apart may not be noticed, except by pods whose name is reused.

**`PodFeatures`** The configuration, the three layers of opt-in and the
defaulters as operators on a pod record (`Pod`): images, variables, volumes and
mounts keep a name and a value, both `Text`. Each defaulter has two operators, what
it makes of a pod (`SetFipsMode`) and what it reports (`SetsFipsMode`), since the code
reports a change it has not made when it stamps a hash again or finds the mount of a
container (`pod_defaulters.go:140` compares a mount with a volume). **`Admission`**
extends it with the life of a request: `Begin` reads the namespace, `ToRun` are the
defaulters of the process that have not had their turn, `RunDefaulter` is one turn of
the loop with its own read of the ConfigMap, `Deny` is a read that fails, `Respond`
marks the pod. The hash of a process is that of the bundle it was started with
(`watched`), while a request mounts the bundle that the configuration names when it
is read. `worlds` in a request is a history variable: every configuration and
process state the request could have seen.

**`SecretSync`** `secrets[n]` has the data and who owns it, as server-side apply
has it: an unforced patch of a value another manager owns conflicts. `wire` holds
the kinds of events that are on their way; the predicates decide which make an
item ready. `work` is the running `Reconcile` with the namespaces it has still to
patch. All of it exists once for each process that is `up`, but not the ownership
of the data: the processes are one field manager, so they never conflict with one
another. `Start` fills the caches, `Stop` forgets everything. `delayed` is the periodic sync, `dropped` an item that met the feature off.
`fresh`, `synced` and `removed` are history variables: what the processes found when
they started, the data a full sync has last written, and the copies a user has deleted
and no patch has put right since, which `QuietIsCurrent` excepts.

**`CABundle`** `call[p][v]` is the callback of process `p` for certificate `v`:
read the CA file, Get, Patch, retry. The first runs before the process serves,
the others beside it. `Listen` is the step after which the probes succeed
(`StartedChecker`); `Serve` also has the watcher follow the files, and
`ServeUnwatched` has it fail, which the code only logs (`server.go:193-197`).
`Retire` ends a process for good while another one serves; since its callbacks end
with it, at any point, it stands for every length of a graceful shutdown. `registered`,
`overlapped` and `abandoned` are history variables: `registered[p]` is the newest CA the
configuration had when a callback of `p` was done with it (`Done`), since `p` started, and
relates what a process presents to what it has itself written or found.

`MCCTBRotation`, `MCAdmission` and `MCSecretSync` only hold definitions for the
configurations; `CABundle` and the single-process runs of `SecretSync` are
instantiated by their configurations directly.
Definitions marked *faulty* stand next to the correct ones: each is a plausible
mistake, and substituting it makes a named property fail.

## Runs

| Run | Shows | Bounds |
|---|---|---|
| `ctb_safety` | nine safety and action properties of the rotation, and that it implements `Rotation` | 2 processes that may overlap, 2 bundles (and none), 2 contents in a row, 1 failure, one pod that is renamed and one that keeps its name, a namespace without permissions |
| `ctb_live` | every covered pod ends up with the live hash | 1 process, 3 contents, 2 failures, policy Ignore, a pod the webhook misses whose deletion is refused or fails each time it is tried |
| `admission` | eight properties of a request and its reinvocation | 5 configurations (chained overrides, smaller catalog and another bundle, no mapping, no catalog, unknown feature), 3 pods, 2 changes at any point |
| `secret_sync` | six properties of the copies | one other namespace, 2 versions, 2 processes, three disturbances or, in their place, one overlap of the two (`OverlapCost`) |
| `secret_live` | every namespace follows the master | 1 process, two other namespaces, 2 versions, 1 disturbance |
| `ca_bundle` | every process registers itself before it serves and for each certificate it loads; CA and certificate end up together | 2 processes, 3 certificates, 4 attempts, 1 failure, a rolling update at any point |

Why these bounds are enough to be interesting: a lost update needs one change
while a pass, a sync or a callback for the former one runs, so two or three
versions; an overlap needs two processes, and in `secret_sync` a publication between their
two reads of the master is enough to give them caches of different age; a partial failure needs a second
namespace that does not fail. `ctb_safety` includes a crash with restart, or a failed pass,
at any point. All fairness-free runs explore the complete state space of their bounds.
Deadlock is not checked because the bounds end the changes and an idle system
has nothing to do.

Six runs state what a document or a comment says and find a counterexample:

| Run | What the code does |
|---|---|
| `ctb_name_reuse` | deletes by name after listing: a re-created StatefulSet pod with the desired hash is deleted |
| `admission_latest` | does not apply a feature that was added after the start (`01-05-building-block-view.md:66` says that defaulters are registered at startup, `01-04-solution-strategy.md:21` that no restart is needed) |
| `admission_init` | does not mount the trust bundle into init containers (`pod_defaulters.go:154-160`), which the user documentation promises twice |
| `secret_revived` | patches the master's namespace too (`secret_controller.go:96`) and re-creates a deleted master secret |
| `secret_drift` | never corrects a copy a user deleted and created anew: patches are not forced and Create events of copies are dropped |
| `ca_stale` | leaves an older CA for good when two callbacks of one process overlap |

The passing liveness properties name the corresponding exceptions: `Unforced` and
`Published` in `SecretSync`, `overlapped` and `abandoned` in `CABundle`, `Covered` and
`RestartEnabled` in `CTBRotation`. `abandoned` is needed: the slow callback of an old
process overwrites the CA of a new one that has finished, and the old process is shut down
before it loads the new certificate itself; the new one never looks again.

### Fairness

Weak fairness for the informers, for the worker of a queue and for calls that
return: controller-runtime retries watches, workers loop, calls have timeouts.
Strong fairness for the items of the secret queue: an item that fails is
retried with growing delay and lets the others pass, and the periodic item comes
back. Strong fairness for the List of each namespace: when a pod whose
deletion fails ends every pass, the namespaces after it are reached only because
the namespaces come from the informer cache, a map, in an order that differs from pass to pass;
with a fixed order `Convergence` fails. Processes are restarted by the kubelet; owners re-create their pods. Nothing
is assumed of users, of publishers, of failures or of changes of the
configuration; they are bounded, so they end.

## Proofs

Every safety property and every action property of the passing runs, and the
refinement of `Rotation`, is a theorem, for every value of the constants. The theorems
rest on the assumptions the modules name beside their constants and on nothing else: a
set is one, values that stand for an absence are no values, numbers are numbers. TLC
evaluates them in the runs.

Each proof has the same shape: an invariant that is inductive, a lemma that `Init`
implies it, a lemma with one step per action that a step preserves it, and a theorem
that draws the property from it. A property is seldom inductive itself; what had to be
added is the reason why it holds, and is what the tables name.

`CTBRotation_proofs`, for any number of processes, namespaces, pods, bundles, versions
and failures:

| Theorem | Argument |
|---|---|
| `TypeCorrect` | `TypeOK` is inductive |
| `PassMatchesHolderAlways`, `NeverUnattendedAlways`, `HolderTracksCacheAlways`, `HolderNeverEmptiedAlways` | `WatcherInv`: the type invariant and the three statements about the watcher; each needs the others, since a pass that ends may make the item wait only because the holder is as new as the cache or the item is ready |
| `HashesPublishedAlways` | first the holders, then pods and creations, which take their hash from a holder; the history `bundle` only grows |
| `VictimsStaleAlways`, `FreshPodsSparedAlways` | `VictimInv` adds that a slot holds one pod at a time, stored or being created (`OneIncarnation`), so a stored pod changes its hash only by being deleted |
| `RotationImplemented` | `RefinementInv` puts together what a step of the abstract specification needs at the moment of a Delete: the pass has the hash of the holder (`PassMatchesHolder`), a listed pod is still stale (`VictimsStale`), hashes are published (`HashesPublished`), victims are restartable and only requested pods carry a hash; then `InitRefines`, and `StepRefines` with one step per action |
| `NoHerdAlways` | the same invariant, and `StampedFromStart`: as long as there is a bundle, always the same, and nothing has failed, every running process has a hash from its start on, so no pod the webhook has seen is without one; there is one published hash then, and every pass compares with it |

`CABundle_proofs`, for any number of processes, certificates, attempts and failures:

| Theorem | Argument |
|---|---|
| `TypeCorrect` | `TypeOK` is inductive |
| `ServesRegisteredAlways` | for any number of rolling updates and watchers that do not start: `RegisteredInv` adds that a callback reads the CA after the files had the certificate it is for, so its CA is at least as new (`CallsFollow`), as files only go forward (`FilesForward`); `DoneRegisters`: a callback ends, other than with its process, only when the configuration has that CA. The theorem speaks of what a process has written or found itself; another one may replace that CA later, which is the matter of `Convergence` |
| `NoBlindOverwriteAlways` | `BaseFormer`: what a callback got has a resourceVersion that is at most the current one, and is the current configuration when they are equal, as every write increases it |

`SecretSync_proofs`, for any number of processes that run side by side, namespaces,
versions and disturbances (the run `secret_sync` has two of each):

| Theorem | Argument |
|---|---|
| `TypeCorrect` | `TypeOK` is inductive; the predicates and the queue only ever make items of the type |
| `OnlyPublishedCopied` | `DataPublished`: secrets, caches and running reconciles have data that was published, or a user's |
| `FullSyncNeverLost`, `ChangeNotAbsorbed` | `EventsInv`: what an informer has not seen of the master is on its way to it (`MasterHeard`), and a process that is down hears nothing; `SyncInv`: the full sync is queued or running, and a change seen while one runs has made the next one ready, which is what the `RequeueAfter` of the one that ends relies on |
| `MasterSafe` | `TodoOfItem`: only the full sync works on the namespace of the master, and its patch is not forced, so data the publisher owns is not replaced by other data; a publication increases the version |
| `QuietMeansCurrent` | `StaleIsOwed`: every running process owes a patch to every namespace whose copy is stale, as an event it has to see, an item, or a reconcile that works with the data of the master or has failed (`Owed`). Debts are per process: with two processes whose caches differ in age, the one that overwrites a current copy leaves an update event to all. `NamespacesHeard` does the same for namespaces |

`PodFeatures_proofs` has the lemmas on the operators, for any pod, configuration,
hash and landscape: what `Upsert` leaves at each position (`UpsertIs`, `UpsertSame`,
`UpsertElsewhere`), what each defaulter changes and leaves alone, that a defaulter
keeps a pod a pod, reports every change and touches no other feature's `Part`
(`DefaultIs`), and that a second `Upsert` finds nothing to do (`UpsertSettles`,
`BothSettle` for the two FIPS variables). `Admission_proofs` proves from them, for any pods, configurations,
changes in between and restarts:

| Theorem | Argument |
|---|---|
| `TypeCorrect` | `TypeOK` is inductive, by `DefaultIs` |
| `Unrequested`, `OptOut` | `Untouched`: a defaulter that has not had its turn finds its part as it was sent; `Justified`: what differs was asked for in one of the worlds of the request. `OptedInIsRequested` relates the expansion of the three layers with `Requested`, which does not speak of layers |
| `Applies` | `Done`: what has had its turn is applied, if every world asks for it; `DefaultApplies` when it is its turn, `AppliedLasts` through the turns of the others |
| `Marked` | `Reported`: a pod that nobody has reported is as it was sent |
| `LandscapeKnown` | `ProcessSafe`: a process that has the defaulter knows a landscape, from its start on; `Spared` |
| `HashFitsVolume` | `ProcessSafe` again: a hash in memory is of the bundle that is watched; `Stamped`: a hash comes with the volume of the configuration it was stamped under |
| `Idempotent` | `RepeatInv`: after its turn a feature is `Settled`, also when others have their turn (`SettledLasts`), and a pod on which a defaulter always reports a change (`Insists`) has the mark already; a settled pod is a fixed point (`SettledIsFixed`). Unchained overrides are needed for images only (`AlteredOnce`) |

`Applies` is restricted in two ways. It asks for the mount of the trust bundle in containers
that are not init containers, as the code does; `admission_init` states what the documents
promise. And it is restricted to pods with unambiguous names: the code replaces the first of
two variables of one name, so without the restriction the property fails, though not
for the pods of the run, which have no such names.

Proved beyond the runs: pods without an owner and any failure policy in `CTBRotation`;
any catalog, overrides and number of containers in `Admission`; processes in any number.

Only model-checked: `Convergence` of `CTBRotation`, `SecretSync` and `CABundle`, which
are liveness under fairness and beyond the proof system, and the counterexamples.
No proof needs an induction over data, because every defaulter handles each container on
its own and `Upsert` is not recursive; that a first entry of a name exists
(`LeastPosition`) follows from the library's theorem on strict subsets of a finite set.

## Not modelled, and why

- Decoding of JSON, names of images beyond registry and path, logging, flags,
  metrics, probes: no property depends on them.
- Leader election: off by default (`main.go:101`); without it overlapping
  processes both reconcile, which is what the models have.
- The routing of paths and the defaults of the options in the webhook server, and requests in
  flight at a shutdown: the first two are set once before the start, the third is
  `net/http`.
- The panic handler of the webhook: none of the five defaulters returns an error, so
  a refusal comes from a read (`Begin`, `Deny`).
- The rotation of a bundle that is mounted but not watched, after the name in the
  configuration has changed (`main.go:323`): `HashOfMounted` names it as its
  exception, so no property covers that case; the process has to be restarted.
- A writer that removes the CA from the webhook configuration: nothing in the code
  reacts before the next certificate.
- Manifests: the failure policy there is `Fail`; `Ignore` is checked in `ctb_live`.

Noticed and not stated as a property: an empty catalog does not restrict the features
of a namespace; chained overrides are applied again when a pod is submitted again; a
pod admitted while the hash is unknown is mounted without a hash; only the first of two
variables of the same name is replaced; a stamped pod that a user annotates `"false"`
later is restarted all the same, as `ctb_values.go:38` looks at the hash first, while
`openspec/specs/ctb-annotation-value/spec.md:62-64` has the restarter skip it regardless
of its hash.

## Plan

Done: `CTBRotation` with `Rotation`, the refinement and the proofs; `PodFeatures` and
`Admission` with the proofs; `SecretSync` with overlapping processes and the proofs;
`CABundle` with rolling updates and the proofs. Next, in this order:

1. An abstract specification of the copies, with the exceptions of server-side
   apply as its only freedom, and the proof that `SecretSync` implements it.
2. The safety half of the convergence of the CA: who still has to write it when it
   is not the right one, in the manner of `StaleIsOwed`, and the same for the hash of
   stale pods in `CTBRotation`.
