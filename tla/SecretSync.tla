---------------------------- MODULE SecretSync ----------------------------
(***************************************************************************)
(* The controller that copies the master pull secret into the namespaces   *)
(* (internal/controller).                                                  *)
(*                                                                         *)
(* The API server applies the patches of the controller under the rules of *)
(* server-side apply: a value another manager owns is not replaced unless  *)
(* the patch is forced.  The controller sees secrets and namespaces        *)
(* through informers, whose events pass two predicates before they make    *)
(* an item of its queue ready; one worker reconciles one item at a time,   *)
(* one patch after the other.  In a rolling update two processes do so at  *)
(* the same time, with caches of different age and as one field manager.   *)
(***************************************************************************)
EXTENDS Integers

CONSTANTS
    Procs,         \* manager processes that may run, together or in turn
    Namespaces,
    MasterNs,      \* the namespace of the master secret
    FirstNamespaces, \* sets of namespaces there may be at the start
    NoSecret,      \* the namespace has no secret of that name
    Foreign,       \* data a user writes into a copy
    NoWork,        \* the worker is idle
    ConfigStates,  \* of the configuration: "on": the pull secret feature is
                   \* available, "off": it is not, "broken": it cannot be read
    MaxVersions,   \* bound: versions of the master secret
    MaxFaults,     \* bound: everything else that happens to the controller
    OverlapCost    \* bound: what the start of a second process counts against MaxFaults

ASSUME NamespaceAssumption == /\ MasterNs \in Namespaces
                              /\ FirstNamespaces \subseteq SUBSET Namespaces
                              /\ \A ns \in FirstNamespaces : MasterNs \in ns
ASSUME ConfigAssumption    == ConfigStates \subseteq {"on", "off", "broken"}
ASSUME BoundAssumption     == /\ MaxVersions \in Nat \ {0}
                              /\ MaxFaults \in Nat /\ OverlapCost \in Nat

VARIABLES
    version,    \* versions of the master secret so far
    config,     \* state of the configuration
    nsUp,       \* the namespaces that exist
    secrets,    \* the secret of that name in every namespace
    up,         \* the processes that are running; of each of them:
    wire,       \* secret events on their way to its informer
    seen,       \* data of the secrets in its informer cache
    fresh,      \* secrets its informer has not seen change
    nsWire,     \* creations of namespaces on their way to its informer
    seenNs,     \* namespaces in its informer cache
    item,       \* state of every item of its queue
    work,       \* what its worker does
    synced,     \* data of its last full sync that succeeded, for the properties
    removed,    \* copies a user has deleted that were not right since, for the properties
    faults      \* disturbances so far, counted against MaxFaults

clusterVars == <<version, config, nsUp, secrets, up, wire, nsWire>>
cacheVars   == <<seen, fresh, seenNs>>
vars == <<version, config, nsUp, secrets, up, wire, seen, fresh, nsWire, seenNs, item,
          work, synced, removed, faults>>

-----------------------------------------------------------------------------
Others == Namespaces \ {MasterNs}
Data   == 1..MaxVersions \cup {Foreign}

\* Who owns the data: this controller, some other manager, or both.
Secret == [data: Data, ours: BOOLEAN, theirs: BOOLEAN]

\* reconcile.Request: the master secret, a copy of it, or a namespace.
Master == <<"master", MasterNs>>
Items  == {Master} \cup ({"copy", "namespace"} \X Others)

Work == [item: Items, data: Data, todo: SUBSET Namespaces, failed: BOOLEAN]

ASSUME AbsenceAssumption == /\ Foreign \notin Nat
                            /\ NoSecret \notin Secret \cup Data
                            /\ NoWork \notin Work

DataOf(s) == IF s = NoSecret THEN NoSecret ELSE s.data

\* Kind of the event when a secret changes from old to new.
EventKind(old, new) ==
    IF old = new THEN {}
    ELSE IF old = NoSecret THEN {"create"}
    ELSE IF new = NoSecret THEN {"delete"}
    ELSE IF old.data = new.data THEN {} ELSE {"update"}

\* The API server stores s as the secret of n.
Store(n, s) ==
    /\ secrets' = [secrets EXCEPT ![n] = s]
    /\ wire' = [p \in Procs |->
                  IF p \in up THEN [wire[p] EXCEPT ![n] = @ \cup EventKind(secrets[n], s)]
                             ELSE wire[p]]

\* The items of the queue of p become ready.
Ready(p, is) == [item EXCEPT ![p] = [i \in Items |-> IF i \in is THEN "ready" ELSE item[p][i]]]

NoEvents    == [n \in Namespaces |-> {}]
NothingSeen == [n \in Namespaces |-> NoSecret]
NoItems     == [i \in Items |-> "none"]

\* The caches are filled before the worker starts, and every namespace they hold
\* and the master secret are events.
FirstItems(ss, ups) ==
    [i \in Items |-> IF \/ i[1] = "namespace" /\ i[2] \in ups
                        \/ i = Master /\ ss[MasterNs] # NoSecret
                     THEN "ready" ELSE "none"]

Init ==
    /\ version \in {0, 1}
    /\ config \in ConfigStates
    /\ nsUp \in FirstNamespaces
    /\ secrets = [n \in Namespaces |->
                    IF n = MasterNs /\ version = 1
                    THEN [data |-> 1, ours |-> FALSE, theirs |-> TRUE] ELSE NoSecret]
    /\ up = {}
    /\ wire = [p \in Procs |-> NoEvents]
    /\ seen = [p \in Procs |-> NothingSeen]
    /\ fresh = [p \in Procs |-> Namespaces]
    /\ nsWire = [p \in Procs |-> {}]
    /\ seenNs = [p \in Procs |-> {}]
    /\ item = [p \in Procs |-> NoItems]
    /\ work = [p \in Procs |-> NoWork]
    /\ synced = [p \in Procs |-> NoSecret]
    /\ removed = {}
    /\ faults = 0

Costs(n) == faults + n <= MaxFaults /\ faults' = faults + n
Fault    == Costs(1)

(***************************************************************************)
(* Environment: who publishes the master secret, users, the cluster.       *)
(***************************************************************************)
\* Writing the data takes it over.
Publish ==
    /\ version < MaxVersions
    /\ version' = version + 1
    /\ Store(MasterNs, [data |-> version', ours |-> FALSE, theirs |-> TRUE])
    /\ UNCHANGED <<config, nsUp, up, cacheVars, nsWire, item, work, synced, removed, faults>>

DeleteMaster ==
    /\ Fault
    /\ secrets[MasterNs] # NoSecret
    /\ Store(MasterNs, NoSecret)
    /\ UNCHANGED <<version, config, nsUp, up, cacheVars, nsWire, item, work, synced, removed>>

\* A user creates or edits the secret of a namespace, or deletes it.
UserWrites(n) ==
    /\ Fault
    /\ n \in nsUp
    /\ DataOf(secrets[n]) # Foreign
    /\ Store(n, [data |-> Foreign, ours |-> FALSE, theirs |-> TRUE])
    /\ UNCHANGED <<version, config, nsUp, up, cacheVars, nsWire, item, work, synced, removed>>

UserDeletes(n) ==
    /\ Fault
    /\ secrets[n] # NoSecret
    /\ Store(n, NoSecret)
    /\ removed' = removed \cup {n}
    /\ UNCHANGED <<version, config, nsUp, up, cacheVars, nsWire, item, work, synced>>

CreateNamespace(n) ==
    /\ Fault
    /\ n \notin nsUp
    /\ nsUp' = nsUp \cup {n}
    /\ nsWire' = [p \in Procs |-> IF p \in up THEN nsWire[p] \cup {n} ELSE nsWire[p]]
    /\ UNCHANGED <<version, config, secrets, up, wire, cacheVars, item, work, synced, removed>>

DeleteNamespace(n) ==
    /\ Fault
    /\ n \in nsUp
    /\ nsUp' = nsUp \ {n}
    /\ Store(n, NoSecret)
    /\ removed' = removed \ {n}
    /\ UNCHANGED <<version, config, up, cacheVars, nsWire, item, work, synced>>

EditConfig(c) ==
    /\ Fault
    /\ c # config
    /\ config' = c
    /\ UNCHANGED <<version, nsUp, secrets, up, wire, cacheVars, nsWire, item, work, synced, removed>>

(***************************************************************************)
(* Manager processes.  A rolling update starts one while another is still  *)
(* running, and nothing elects a leader.                                   *)
(***************************************************************************)
Start(p) ==
    /\ p \notin up
    /\ IF up = {} THEN UNCHANGED faults ELSE Costs(OverlapCost)
    /\ up' = up \cup {p}
    /\ seen' = [seen EXCEPT ![p] = [n \in Namespaces |-> DataOf(secrets[n])]]
    /\ seenNs' = [seenNs EXCEPT ![p] = nsUp]
    /\ item' = [item EXCEPT ![p] = FirstItems(secrets, nsUp)]
    /\ UNCHANGED <<version, config, nsUp, secrets, wire, fresh, nsWire, work, synced, removed>>

\* It crashes, or is shut down at the end of a rolling update; all it knows is in
\* memory.
Stop(p) ==
    /\ p \in up
    /\ IF up = {p} THEN Fault ELSE UNCHANGED faults
    /\ up' = up \ {p}
    /\ wire' = [wire EXCEPT ![p] = NoEvents]
    /\ seen' = [seen EXCEPT ![p] = NothingSeen]
    /\ fresh' = [fresh EXCEPT ![p] = Namespaces]
    /\ nsWire' = [nsWire EXCEPT ![p] = {}]
    /\ seenNs' = [seenNs EXCEPT ![p] = {}]
    /\ item' = [item EXCEPT ![p] = NoItems]
    /\ work' = [work EXCEPT ![p] = NoWork]
    /\ synced' = [synced EXCEPT ![p] = NoSecret]
    /\ UNCHANGED <<version, config, nsUp, secrets, removed>>

(***************************************************************************)
(* Informers and predicates.                                               *)
(***************************************************************************)
\* Of the master secret, creation and changes of the data are accepted; of its
\* copies, changes of the data only.
AcceptedOfMaster(n) == IF n = MasterNs THEN {"create", "update"} ELSE {}   \* faulty: none of copies
Accepted(n)         == IF n = MasterNs THEN {"create", "update"} ELSE {"update"}

SeeSecret(p, n) ==
    /\ wire[p][n] # {}
    /\ seen' = [seen EXCEPT ![p][n] = DataOf(secrets[n])]
    /\ fresh' = [fresh EXCEPT ![p] = IF "update" \in wire[p][n] THEN @ \ {n}
                                     ELSE @ \cup {k \in {n} : "create" \in wire[p][n]}]
    /\ wire' = [wire EXCEPT ![p][n] = {}]
    /\ item' = IF wire[p][n] \cap Accepted(n) = {} THEN item
               ELSE Ready(p, {IF n = MasterNs THEN Master ELSE <<"copy", n>>})
    /\ UNCHANGED <<version, config, nsUp, secrets, up, nsWire, seenNs, work, synced, removed, faults>>

SeeNamespace(p, n) ==
    /\ p \in up
    /\ n \in nsWire[p] \/ (n \in seenNs[p]) # (n \in nsUp)
    /\ seenNs' = [seenNs EXCEPT ![p] = (@ \ {n}) \cup (nsUp \cap {n})]
    /\ nsWire' = [nsWire EXCEPT ![p] = @ \ {n}]
    /\ item' = IF n \in nsWire[p] THEN Ready(p, {<<"namespace", n>>}) ELSE item
    /\ UNCHANGED <<version, config, nsUp, secrets, up, wire, seen, fresh, work, synced, removed, faults>>

(***************************************************************************)
(* SecretReconciler.Reconcile.  An item is taken when it is ready, the     *)
(* master also when its SecretSyncInterval is over ("delayed").            *)
(***************************************************************************)
Takes(p, i) == work[p] = NoWork /\ item[p][i] \in {"ready", "delayed"}

\* The item is retried when the configuration or the master cannot be read.
MasterFoundAnyway(p) == TRUE                \* faulty: NotFound is not an error
MasterFound(p)       == seen[p][MasterNs] # NoSecret

ReconcileFails(p, i) ==
    /\ Takes(p, i)
    /\ config = "broken" \/ (config = "on" /\ ~MasterFound(p))
    /\ item' = [item EXCEPT ![p][i] = "ready"]
    /\ UNCHANGED <<clusterVars, cacheVars, work, synced, removed, faults>>

\* The feature is not available: done, without a requeue.
ReconcileDisabled(p, i) ==
    /\ Takes(p, i)
    /\ config = "off"
    /\ item' = [item EXCEPT ![p][i] = "dropped"]
    /\ UNCHANGED <<clusterVars, cacheVars, work, synced, removed, faults>>

\* Namespaces to patch.  The test that should leave out the master's namespace
\* compares two other names, so it is among them.
ToPatch(p, i) == IF i = Master THEN seenNs[p] ELSE {i[2]}

ReconcileStarts(p, i) ==
    /\ Takes(p, i)
    /\ config = "on"
    /\ MasterFound(p)
    /\ item' = [item EXCEPT ![p][i] = "none"]
    /\ work' = [work EXCEPT ![p] = [item |-> i, data |-> seen[p][MasterNs],
                                    todo |-> ToPatch(p, i), failed |-> FALSE]]
    /\ UNCHANGED <<clusterVars, cacheVars, synced, removed, faults>>

\* Only the patch of a single copy that was changed is forced.
AlwaysForced(i) == TRUE                     \* faulty: every patch is
Forced(i)       == i[1] = "copy"

\* All processes are one field manager and never in conflict with one another.
Conflict(p, n) == /\ secrets[n] # NoSecret
                  /\ secrets[n].theirs
                  /\ secrets[n].data # work[p].data
                  /\ ~Forced(work[p].item)

\* faulty: a value that is there is kept
PatchedOver(p, n) ==
    [data |-> IF secrets[n] = NoSecret THEN work[p].data ELSE secrets[n].data,
     ours |-> TRUE, theirs |-> FALSE]
Patched(p, n) ==
    [data |-> work[p].data, ours |-> TRUE,
     theirs |-> /\ secrets[n] # NoSecret
                /\ secrets[n].theirs
                /\ secrets[n].data = work[p].data]

PatchSucceeds(p, n) ==
    /\ work[p] # NoWork
    /\ n \in work[p].todo
    /\ n \in nsUp
    /\ ~Conflict(p, n)
    /\ Store(n, Patched(p, n))
    /\ work' = [work EXCEPT ![p].todo = @ \ {n}]
    /\ removed' = IF work[p].data = DataOf(secrets[MasterNs]) THEN removed \ {n} ELSE removed
    /\ UNCHANGED <<version, config, nsUp, up, nsWire, cacheVars, item, synced, faults>>

\* An error is collected, and the other namespaces are patched nevertheless.
RemainingNone(p, n) == {}                   \* faulty: the first error ends it
Remaining(p, n)     == work[p].todo \ {n}

PatchFails(p, n) ==
    /\ work[p] # NoWork
    /\ n \in work[p].todo
    /\ \/ n \notin nsUp /\ UNCHANGED faults
       \/ n \in nsUp /\ Conflict(p, n) /\ UNCHANGED faults
       \/ n \in nsUp /\ Fault
    /\ work' = [work EXCEPT ![p] = [@ EXCEPT !.todo = Remaining(p, n), !.failed = TRUE]]
    /\ UNCHANGED <<clusterVars, cacheVars, item, synced, removed>>

\* Success of a full sync: RequeueAfter, unless an event has made it ready.
MasterDelayed(p)   == "delayed"             \* faulty: the event waits as well
MasterForgotten(p) == item[p][Master]       \* faulty: no RequeueAfter
MasterAfter(p)     == IF item[p][Master] = "ready" THEN "ready" ELSE "delayed"

\* A full sync that did all its patches.
FullSync(p) == work[p].item = Master /\ ~work[p].failed

ReconcileDone(p) ==
    /\ work[p] # NoWork
    /\ work[p].todo = {}
    /\ work' = [work EXCEPT ![p] = NoWork]
    /\ item' = IF work[p].failed THEN Ready(p, {work[p].item})
               ELSE IF FullSync(p) THEN [item EXCEPT ![p][Master] = MasterAfter(p)]
               ELSE item
    /\ synced' = IF FullSync(p) THEN [synced EXCEPT ![p] = work[p].data] ELSE synced
    /\ UNCHANGED <<clusterVars, cacheVars, removed, faults>>

-----------------------------------------------------------------------------
Environment ==
    \/ Publish
    \/ DeleteMaster
    \/ \E n \in Others : UserWrites(n) \/ UserDeletes(n)
    \/ \E n \in Others : CreateNamespace(n) \/ DeleteNamespace(n)
    \/ \E c \in ConfigStates : EditConfig(c)
    \/ \E p \in Procs : Stop(p)

See(p, n)   == SeeSecret(p, n) \/ SeeNamespace(p, n)
Take(p, i)  == ReconcileFails(p, i) \/ ReconcileDisabled(p, i) \/ ReconcileStarts(p, i)
Continue(p) == ReconcileDone(p) \/ \E n \in Namespaces : PatchSucceeds(p, n) \/ PatchFails(p, n)

Next ==
    \/ Environment
    \/ \E p \in Procs : \/ Start(p)
                        \/ \E n \in Namespaces : See(p, n)
                        \/ \E i \in Items : Take(p, i)
                        \/ Continue(p)

Spec == Init /\ [][Next]_vars

\* The Deployment keeps a process running, informers keep up, calls return, and the
\* queue is fair to its items: an item that is retried waits longer and longer and
\* lets the others pass.
Fairness ==
    /\ WF_vars(up = {} /\ \E p \in Procs : Start(p))
    /\ \A p \in Procs :
        /\ \A n \in Namespaces : WF_vars(See(p, n))
        /\ \A i \in Items : SF_vars(Take(p, i))
        /\ WF_vars(Continue(p))

FairSpec == Spec /\ Fairness

-----------------------------------------------------------------------------
(***************************************************************************)
(* Properties.                                                             *)
(***************************************************************************)
\* Every variable has its type, and a worker works with a master secret.
TypeOK ==
    /\ version \in 0..MaxVersions
    /\ config \in ConfigStates
    /\ nsUp \subseteq Namespaces /\ MasterNs \in nsUp
    /\ secrets \in [Namespaces -> Secret \cup {NoSecret}]
    /\ up \subseteq Procs
    /\ wire \in [Procs -> [Namespaces -> SUBSET {"create", "update", "delete"}]]
    /\ seen \in [Procs -> [Namespaces -> Data \cup {NoSecret}]]
    /\ fresh \in [Procs -> SUBSET Namespaces]
    /\ nsWire \in [Procs -> SUBSET Others]
    /\ seenNs \in [Procs -> SUBSET Namespaces]
    /\ item \in [Procs -> [Items -> {"none", "ready", "delayed", "dropped"}]]
    /\ work \in [Procs -> Work \cup {NoWork}]
    /\ synced \in [Procs -> Data \cup {NoSecret}]
    /\ removed \subseteq Others
    /\ faults \in 0..MaxFaults

\* What the controller owns is what was published once: it copies neither a
\* user's data nor a secret it has not found.
CopiesPublished ==
    \A n \in Namespaces :
        secrets[n] # NoSecret /\ secrets[n].ours => secrets[n].data \in 1..version

\* The full sync is never lost: as long as the informer holds the master secret,
\* the item is in the queue or being worked on, unless it was dropped because
\* the feature was off (secret_controller.go:57-63, 123-130).
Syncing(p) == work[p] # NoWork /\ work[p].item = Master

MasterAttended ==
    \A p \in Procs : seen[p][MasterNs] # NoSecret => item[p][Master] # "none" \/ Syncing(p)

\* A change of the master secret is not absorbed by a sync that runs with the
\* former one: the next sync does not wait for the interval.
SyncCurrent ==
    \A p \in Procs :
        seen[p][MasterNs] \notin {NoSecret, synced[p]} =>
            \/ item[p][Master] \in {"ready", "dropped"}
            \/ Syncing(p) /\ work[p].data = seen[p][MasterNs]

\* The master secret, which is patched with the others, is never set back to an
\* older version from the cache while its publisher owns the data, since the patch
\* is not forced (secret_controller.go:103-105).
MasterNeverSetBack ==
    [][/\ secrets[MasterNs] # NoSecret
       /\ secrets[MasterNs].theirs
       /\ secrets'[MasterNs] # NoSecret
       => secrets'[MasterNs].data >= secrets[MasterNs].data]_vars

\* A secret of a user that was there when the processes that run first saw it.
Unforced(n) == secrets[n] # NoSecret /\ secrets[n].theirs /\ \A p \in up : n \in fresh[p]

UpToDate(n) == secrets[n] # NoSecret /\ secrets[n].data = secrets[MasterNs].data

\* There is a master secret and its publisher owns the data: it is not one the
\* controller has created itself from its cache after a deletion.
Published == secrets[MasterNs] # NoSecret /\ secrets[MasterNs].theirs

\* p has seen everything and has nothing left to do before the next periodic sync.
Quiet(p) == /\ wire[p] = NoEvents /\ nsWire[p] = {} /\ seenNs[p] = nsUp
            /\ work[p] = NoWork
            /\ \A i \in Items : item[p][i] \in {"none", "delayed"}

\* When no process has anything left to do, the copies are those of the master,
\* whichever of two processes with caches of different age wrote last: a stale copy
\* always leaves somebody with work (master_secret_predicate.go:45-63).  Only a copy
\* that a user deleted, and what was made in its place, is left to the periodic sync.
QuietIsCurrent ==
    up # {} /\ (\A p \in up : Quiet(p)) /\ Published =>
        \A n \in nsUp \ {MasterNs} :
            UpToDate(n) \/ n \in removed

\* When the disturbances end with the feature available and a published master
\* secret, every namespace ends up with the data of the master, for good: whatever
\* the order of events, one namespace that fails does not keep the others from it,
\* edits and deletions are repaired.  Two exceptions: a secret a user made before
\* the process first saw it, and a full sync that was dropped because the feature
\* was off (secret_controller.go:61-63, 93-123).
Convergence ==
    <>[](config = "on" /\ Published /\ (\E p \in up : item[p][Master] # "dropped") =>
            \A n \in nsUp \ {MasterNs} : Unforced(n) \/ UpToDate(n))

(***************************************************************************)
(* What the documents and comments say and the code does not do.           *)
(***************************************************************************)
\* secret_controller.go:95 "omit master-secret": the controller leaves the master
\* secret alone, so one that was deleted comes back only by being published.
MasterNotRevived ==
    [][secrets[MasterNs] = NoSecret /\ secrets'[MasterNs] # NoSecret
         => version' = version + 1]_vars

\* docs/contributor/01-06-runtime-view.md:39: the periodic sync corrects drift, so
\* an edit of a copy is undone, whenever it was made.
DriftCorrected ==
    <>[](config = "on" /\ Published =>
            \A n \in nsUp \ {MasterNs} : UpToDate(n))
=============================================================================
