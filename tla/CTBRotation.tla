---------------------------- MODULE CTBRotation ----------------------------
(***************************************************************************)
(* ClusterTrustBundle rotation: the hash holder, the CTB watcher, the pod  *)
(* restarter (internal/ctb) and the part of the admission webhook that     *)
(* stamps the hash on pods (internal/webhook/v1/pod_defaulters.go).        *)
(*                                                                         *)
(* The API server holds one ClusterTrustBundle and the pods.  Every        *)
(* manager process keeps a hash in memory, sees the bundle through an      *)
(* informer cache that lags, lists pods namespace by namespace and deletes *)
(* the stale ones one call at a time; the owners of the deleted pods       *)
(* create new ones, which pass the webhook of some process.                *)
(***************************************************************************)
EXTENDS Integers, Sequences

CONSTANTS
    Procs,          \* manager processes that may run, together or in turn
    Namespaces,     \* the namespaces of the cluster
    Slots,          \* one per pod an owner (or a user) wants to run
    Workload,       \* what is known of the pod of each slot, see WorkloadType
    OptedInNs,      \* namespaces whose annotations or default features opt in
    Permitted,      \* namespaces with the pod-restarter RoleBinding
    FailurePolicy,  \* of the webhook configuration: "Fail" or "Ignore"
    Bundles,        \* contents the ClusterTrustBundle may have
    Gone,           \* the ClusterTrustBundle does not exist
    NoHash,         \* the empty hash / a pod without the ctb-hash annotation
    NoPod,          \* the slot holds no pod
    NoPass,         \* the watcher is not in RestartStalePods
    MaxVersions,    \* bound: versions of the ClusterTrustBundle object
    MaxFaults       \* bound: crashes, API errors and user disturbances

CTBValues == {"true", "false", "none"}

\* A policy may forbid the deletion of a pod (403), and a webhook for deletions that
\* is broken may make it fail otherwise, for good.
Answers == {"deleted", "forbidden", "failed"}

WorkloadType ==
    [ns: Namespaces,     \* namespace of the pod
     ctb: CTBValues,     \* add-cluster-trust-bundle annotation of the template
     owned: BOOLEAN,     \* has ownerReferences: the owner re-creates the pod
     stable: BOOLEAN,    \* the replacement reuses the name (StatefulSet)
     excluded: BOOLEAN,  \* the webhook's selectors leave the pod out
     answers: SUBSET Answers] \* what the API server may answer to its deletion

ASSUME WorkloadAssumption ==
    /\ Workload \in [Slots -> WorkloadType]
    /\ Permitted \subseteq Namespaces
    /\ OptedInNs \subseteq Namespaces
ASSUME BundleAssumption == Gone \notin Bundles
ASSUME PolicyAssumption == FailurePolicy \in {"Fail", "Ignore"}
ASSUME BoundAssumption == MaxVersions \in Nat \ {0} /\ MaxFaults \in Nat

VARIABLES
    bundle,     \* the contents the CTB object has had, the live one last
    up,         \* the processes that are running
    holder,     \* HashHolder.hash of each process
    seen,       \* version in each process's informer cache, 0: not synced
    item,       \* the CTB's work item in the controller's queue
    pass,       \* the restart pass each watcher is in
    pods,       \* the pods the API server stores
    creating,   \* pods admitted and not stored yet
    faults      \* disturbances so far, counted against MaxFaults

serverVars == <<bundle, pods, creating, faults>>
procVars   == <<up, holder, seen, item, pass>>
vars       == <<bundle, up, holder, seen, item, pass, pods, creating, faults>>

-----------------------------------------------------------------------------
(* SHA-256 in hexadecimal: all that matters is that it is never "" and that *)
(* different contents have different sums.                                  *)
SHA256(b) == [sha256 |-> b]
Hashes    == {SHA256(b) : b \in Bundles}

Pod == [ctb: CTBValues, hash: Hashes \cup {NoHash}, mounted: BOOLEAN]

Pass == [desired: Hashes,            \* newHash, the argument of the call
         todo: SUBSET Namespaces,    \* namespaces not listed yet
         victims: SUBSET Slots,      \* listed, stale, not deleted yet
         vanished: SUBSET Slots,     \* victims whose listed pod is gone
         nsDeleted: BOOLEAN,         \* anyDeleted of the current namespace
         anyDeleted: BOOLEAN]        \* anyDeleted of the finished ones

ASSUME AbsenceAssumption ==
    /\ NoHash \notin Hashes
    /\ NoPod \notin Pod \cup Hashes \cup {NoHash}
    /\ NoPass \notin Pass

Live      == bundle[Len(bundle)]
Cached(p) == IF seen[p] = 0 THEN Gone ELSE bundle[seen[p]]
Published == {SHA256(bundle[i]) : i \in {j \in 1..Len(bundle) : bundle[j] # Gone}}

\* CTBRestartEnabled: eligible for a restart.
RestartEnabled(pod) == pod.hash # NoHash \/ pod.ctb = "true"

\* The three opt-in layers, after the explicit opt-out.
OptedIn(s) == /\ Workload[s].ctb # "false"
              /\ Workload[s].ns \in OptedInNs \/ Workload[s].ctb = "true"

Unmodified(s) == [ctb |-> Workload[s].ctb, hash |-> NoHash, mounted |-> FALSE]

\* What the webhook makes of the pod of s when the holder holds h.
Defaulted(s, h) ==
    IF OptedIn(s) THEN [Unmodified(s) EXCEPT !.hash = h, !.mounted = TRUE]
                  ELSE Unmodified(s)

\* What restartStalePodsInNamespace keeps of a listed pod.
Listed(s) == pods[s] # NoPod /\ RestartEnabled(pods[s]) /\ Workload[s].owned

StaleAnyHash(n, desired) ==                 \* faulty: the hash is not compared
    {s \in Slots : Workload[s].ns = n /\ Listed(s)}
Stale(n, desired) ==
    {s \in Slots : Workload[s].ns = n /\ Listed(s) /\ pods[s].hash # desired}

\* The pod of s leaves the API server: every pass that has listed it holds
\* the name of a pod that is gone.
Vanish(s, passes) ==
    [p \in Procs |-> IF passes[p] # NoPass /\ s \in passes[p].victims
                     THEN [passes[p] EXCEPT !.vanished = @ \cup {s}]
                     ELSE passes[p]]

\* The name a pass holds denotes a pod: the listed one, or the one that has
\* taken over its name.
Denotes(p, s) == /\ pods[s] # NoPod
                 /\ s \in pass[p].vanished => Workload[s].stable

-----------------------------------------------------------------------------
Init ==
    /\ \E b \in Bundles \cup {Gone} : bundle = <<b>>
    /\ up = {}
    /\ holder = [p \in Procs |-> NoHash]
    /\ seen = [p \in Procs |-> 0]
    /\ item = [p \in Procs |-> "none"]
    /\ pass = [p \in Procs |-> NoPass]
    /\ pods \in [Slots -> Pod \cup {NoPod}]
    /\ \A s \in Slots : pods[s] \in {NoPod, Unmodified(s)}
    /\ creating = [s \in Slots |-> NoPod]
    /\ faults = 0

Fault == faults < MaxFaults /\ faults' = faults + 1

(***************************************************************************)
(* Environment: whoever publishes the bundle, owners, users, the cluster.  *)
(***************************************************************************)
RotateBundle(b) ==
    /\ Len(bundle) < MaxVersions
    /\ b # Live
    /\ bundle' = Append(bundle, b)
    /\ UNCHANGED <<procVars, pods, creating, faults>>

\* A node drain, a rollout or a user removes the pod.
Evict(s) ==
    /\ Fault
    /\ pods[s] # NoPod
    /\ pods' = [pods EXCEPT ![s] = NoPod]
    /\ pass' = Vanish(s, pass)
    /\ UNCHANGED <<bundle, up, holder, seen, item, creating>>

\* A user changes the annotation of the running pod.
Annotate(s, v) ==
    /\ Fault
    /\ pods[s] # NoPod
    /\ pods[s].ctb # v
    /\ pods' = [pods EXCEPT ![s].ctb = v]
    /\ UNCHANGED <<bundle, procVars, creating>>

(***************************************************************************)
(* A pod is created: the API server calls the webhook of a running         *)
(* process, which reads the hash holder, and stores the result later.      *)
(***************************************************************************)
Absent(s) == pods[s] = NoPod /\ creating[s] = NoPod

Admit(p, s) ==
    /\ p \in up
    /\ Absent(s)
    /\ ~Workload[s].excluded
    /\ creating' = [creating EXCEPT ![s] = Defaulted(s, holder[p])]
    /\ UNCHANGED <<bundle, procVars, pods, faults>>

\* The selectors leave the pod out.
AdmitExcluded(s) ==
    /\ Absent(s)
    /\ Workload[s].excluded
    /\ creating' = [creating EXCEPT ![s] = Unmodified(s)]
    /\ UNCHANGED <<bundle, procVars, pods, faults>>

\* The call fails or times out and the failure policy lets the pod pass.
AdmitUnreached(s) ==
    /\ Absent(s)
    /\ ~Workload[s].excluded
    /\ FailurePolicy = "Ignore"
    /\ \/ up = {} /\ faults' = faults
       \/ up # {} /\ Fault
    /\ creating' = [creating EXCEPT ![s] = Unmodified(s)]
    /\ UNCHANGED <<bundle, procVars, pods>>

Persist(s) ==
    /\ creating[s] # NoPod
    /\ pods' = [pods EXCEPT ![s] = creating[s]]
    /\ creating' = [creating EXCEPT ![s] = NoPod]
    /\ UNCHANGED <<bundle, procVars, faults>>

(***************************************************************************)
(* Manager process: start and crash.                                       *)
(***************************************************************************)
\* PreComputeHash, a live read.
PreComputeNothing   == NoHash           \* faulty: not called
PreComputeUnchecked == SHA256(Live)     \* faulty: hashes the object not found
PreComputeHash      == IF Live = Gone THEN NoHash ELSE SHA256(Live)

\* A failure of PreComputeHash is not fatal.
Start(p) ==
    /\ p \notin up
    /\ up' = up \cup {p}
    /\ \/ holder' = [holder EXCEPT ![p] = PreComputeHash] /\ UNCHANGED faults
       \/ Live # Gone /\ Fault /\ UNCHANGED holder
    /\ UNCHANGED <<bundle, seen, item, pass, pods, creating>>

\* Everything the process knows is in memory.
Crash(p) ==
    /\ Fault
    /\ p \in up
    /\ up' = up \ {p}
    /\ holder' = [holder EXCEPT ![p] = NoHash]
    /\ seen' = [seen EXCEPT ![p] = 0]
    /\ item' = [item EXCEPT ![p] = "none"]
    /\ pass' = [pass EXCEPT ![p] = NoPass]
    /\ UNCHANGED <<bundle, pods, creating>>

\* The informer lists the bundle once, then follows it; a reconnect may skip
\* versions.  Every change of an existing bundle, and its deletion, makes the
\* work item ready, also one that waits for its delay.
InformerSees(p, v) ==
    /\ p \in up
    /\ v \in (seen[p] + 1)..Len(bundle)
    /\ seen[p] = 0 => v = Len(bundle)
    /\ seen' = [seen EXCEPT ![p] = v]
    /\ item' = IF Cached(p) = Gone /\ bundle[v] = Gone THEN item
               ELSE [item EXCEPT ![p] = "ready"]
    /\ UNCHANGED <<bundle, up, holder, pass, pods, creating, faults>>

(***************************************************************************)
(* CTBWatcher.Reconcile.  The work item is taken when it is ready or its   *)
(* delay is over ("verify": 10 seconds, "resync": the resync interval), by *)
(* one worker, never while a pass runs.                                    *)
(***************************************************************************)
TakeItem(p) == /\ p \in up
               /\ pass[p] = NoPass
               /\ item[p] # "none"
               /\ item' = [item EXCEPT ![p] = "none"]

\* The holder after Get and ComputeAndSet; NotFound returns before it.
HolderUnchecked(p) == SHA256(Cached(p))     \* faulty: NotFound is not checked
HolderEmptied(p) ==                         \* faulty: NotFound empties it
    IF Cached(p) = Gone THEN NoHash ELSE SHA256(Cached(p))
NewHash(p) == IF Cached(p) = Gone THEN holder[p] ELSE SHA256(Cached(p))

\* The hash RestartStalePods is called with.
OldHash(p)     == holder[p]                 \* faulty: oldHash
DesiredHash(p) == NewHash(p)

\* Get answers NotFound: no error and no requeue.
ReconcileMissing(p) ==
    /\ TakeItem(p)
    /\ Cached(p) = Gone
    /\ holder' = [holder EXCEPT ![p] = NewHash(p)]
    /\ UNCHANGED <<serverVars, up, seen, pass>>

\* ComputeAndSet from the cached bundle, then RestartStalePods, whether the
\* hash has changed or not.
ReconcileFound(p) ==
    /\ TakeItem(p)
    /\ Cached(p) # Gone
    /\ holder' = [holder EXCEPT ![p] = NewHash(p)]
    /\ pass' = [pass EXCEPT ![p] =
                  [desired |-> DesiredHash(p), todo |-> Namespaces,
                   victims |-> {}, vanished |-> {},
                   nsDeleted |-> FALSE, anyDeleted |-> FALSE]]
    /\ UNCHANGED <<serverVars, up, seen>>

(***************************************************************************)
(* RestartStalePods, one API call a step.                                  *)
(***************************************************************************)
\* The previous namespace is done: its result is added and n is next.
NextNamespace(p, n, listed) ==
    /\ pass[p] # NoPass
    /\ pass[p].victims = {}
    /\ n \in pass[p].todo
    /\ pass' = [pass EXCEPT ![p] =
                  [@ EXCEPT !.todo = pass[p].todo \ {n}, !.victims = listed, !.vanished = {},
                            !.anyDeleted = pass[p].anyDeleted \/ pass[p].nsDeleted,
                            !.nsDeleted = FALSE]]
    /\ UNCHANGED <<serverVars, up, holder, seen, item>>

ListPods(p, n) ==
    /\ n \in Permitted
    /\ pass[p] # NoPass
    /\ NextNamespace(p, n, Stale(n, pass[p].desired))

\* No RoleBinding in n: logged, and on to the next namespace.
ListForbidden(p, n) ==
    /\ n \notin Permitted
    /\ NextNamespace(p, n, {})

\* Delete by namespace and name.
DeletePod(p, s) ==
    /\ pass[p] # NoPass
    /\ s \in pass[p].victims
    /\ Denotes(p, s)
    /\ "deleted" \in Workload[s].answers
    /\ pods' = [pods EXCEPT ![s] = NoPod]
    /\ pass' = [Vanish(s, pass) EXCEPT ![p] =
                  [@ EXCEPT !.victims = pass[p].victims \ {s}, !.nsDeleted = TRUE]]
    /\ UNCHANGED <<bundle, up, holder, seen, item, creating, faults>>

\* NotFound counts as deleted.
DeleteNotFound(p, s) ==
    /\ pass[p] # NoPass
    /\ s \in pass[p].victims
    /\ ~Denotes(p, s)
    /\ pass' = [pass EXCEPT ![p] = [@ EXCEPT !.victims = pass[p].victims \ {s}, !.nsDeleted = TRUE]]
    /\ UNCHANGED <<serverVars, up, holder, seen, item>>

\* A 403 to the Delete returns to RestartStalePods, which takes it for a
\* namespace without permissions: the rest of the namespace is skipped, and
\* what was deleted in it is not reported.
DeleteForbidden(p, s) ==
    /\ pass[p] # NoPass
    /\ s \in pass[p].victims
    /\ Denotes(p, s)
    /\ "forbidden" \in Workload[s].answers
    /\ pass' = [pass EXCEPT ![p] = [@ EXCEPT !.victims = {}, !.nsDeleted = FALSE]]
    /\ UNCHANGED <<serverVars, up, holder, seen, item>>

\* The work item after Reconcile: RequeueAfter 10 seconds or the resync
\* interval, unless an event has made it ready meanwhile.
ItemDelayed(p) ==                           \* faulty: the event waits as well
    IF pass[p].anyDeleted \/ pass[p].nsDeleted THEN "verify" ELSE "resync"
ItemDropped(p) == item[p]                   \* faulty: no RequeueAfter
ItemAfter(p)   == IF item[p] = "ready" THEN "ready" ELSE ItemDelayed(p)

ItemSwallowed(p)  == item[p]                \* faulty: the error is swallowed
ItemAfterError(p) == "ready"

\* Any other error of List or Delete ends the pass; the item is retried.
DeleteFails(p, s) ==
    /\ pass[p] # NoPass
    /\ s \in pass[p].victims
    /\ Denotes(p, s)
    /\ "failed" \in Workload[s].answers
    /\ pass' = [pass EXCEPT ![p] = NoPass]
    /\ item' = [item EXCEPT ![p] = ItemAfterError(p)]
    /\ UNCHANGED <<serverVars, up, holder, seen>>

\* The same once in a while: a call that fails although nothing is wrong with the pod.
PassFails(p) ==
    /\ Fault
    /\ pass[p] # NoPass
    /\ pass[p].todo # {} \/ pass[p].victims # {}
    /\ pass' = [pass EXCEPT ![p] = NoPass]
    /\ item' = [item EXCEPT ![p] = ItemAfterError(p)]
    /\ UNCHANGED <<bundle, up, holder, seen, pods, creating>>

PassDone(p) ==
    /\ pass[p] # NoPass
    /\ pass[p].todo = {}
    /\ pass[p].victims = {}
    /\ pass' = [pass EXCEPT ![p] = NoPass]
    /\ item' = [item EXCEPT ![p] = ItemAfter(p)]
    /\ UNCHANGED <<serverVars, up, holder, seen>>

-----------------------------------------------------------------------------
Environment ==
    \/ \E b \in Bundles \cup {Gone} : RotateBundle(b)
    \/ \E s \in Slots : Evict(s)
    \/ \E s \in Slots, v \in CTBValues : Annotate(s, v)
    \/ \E p \in Procs : Crash(p)

Create(s) == \/ \E p \in Procs : Admit(p, s)
             \/ AdmitExcluded(s)
             \/ AdmitUnreached(s)

Watch(p) == \E v \in 1..MaxVersions : InformerSees(p, v)

Reconcile(p) == ReconcileMissing(p) \/ ReconcileFound(p)

RestartStep(p) ==
    \/ \E n \in Namespaces : ListPods(p, n) \/ ListForbidden(p, n)
    \/ \E s \in Slots : \/ DeletePod(p, s) \/ DeleteNotFound(p, s)
                         \/ DeleteForbidden(p, s) \/ DeleteFails(p, s)
    \/ PassDone(p)

Next ==
    \/ Environment
    \/ \E s \in Slots : Create(s) \/ Persist(s)
    \/ \E p \in Procs : Start(p) \/ Watch(p) \/ Reconcile(p) \/ RestartStep(p) \/ PassFails(p)

Spec == Init /\ [][Next]_vars

\* The Deployment restarts its processes, informers keep up, the controller
\* takes its item and its calls return, owners re-create their pods.  Nothing
\* is assumed of users, of the publisher of the bundle or of failures.  The order
\* of the namespaces in a pass is that of a Go map, another one in every pass, so
\* none comes after one that ends the pass for good.
Fairness ==
    /\ \A p \in Procs : /\ WF_vars(Start(p))
                        /\ WF_vars(Watch(p))
                        /\ WF_vars(Reconcile(p))
                        /\ WF_vars(RestartStep(p))
                        /\ \A n \in Namespaces : SF_vars(ListPods(p, n))
    /\ \A s \in Slots : /\ WF_vars(Workload[s].owned /\ Create(s))
                        /\ WF_vars(Persist(s))

FairSpec == Spec /\ Fairness

-----------------------------------------------------------------------------
(***************************************************************************)
(* Properties.                                                             *)
(***************************************************************************)
\* Every variable has its type, and a process that is down has no state.
TypeOK ==
    /\ bundle \in Seq(Bundles \cup {Gone})
    /\ Len(bundle) \in 1..MaxVersions
    /\ up \in SUBSET Procs
    /\ holder \in [Procs -> Hashes \cup {NoHash}]
    /\ seen \in [Procs -> 0..Len(bundle)]
    /\ item \in [Procs -> {"none", "ready", "verify", "resync"}]
    /\ pass \in [Procs -> Pass \cup {NoPass}]
    /\ pods \in [Slots -> Pod \cup {NoPod}]
    /\ creating \in [Slots -> Pod \cup {NoPod}]
    /\ faults \in 0..MaxFaults
    /\ \A p \in Procs \ up : /\ holder[p] = NoHash
                            /\ seen[p] = 0
                            /\ item[p] = "none"
                            /\ pass[p] = NoPass

\* The hash a pass compares the pods with is the one the webhook of the same
\* process stamps while the pass runs (watcher.go:41-48): a pass never deletes
\* a pod its own process has just admitted, and none runs with the empty hash.
PassMatchesHolder ==
    \A p \in Procs : pass[p] # NoPass => pass[p].desired = holder[p]

\* Once the informer has synced and the bundle is there, the watcher always
\* has a pass running or a work item, if only to resync: no interleaving of
\* events, failed passes, deletions and re-creations of the bundle ends the
\* chain of requeues (watcher.go:35-56).
NeverUnattended ==
    \A p \in Procs : Cached(p) # Gone => item[p] # "none" \/ pass[p] # NoPass

\* The holder is as new as the informer's cache, unless the work item is ready:
\* a hash change is never absorbed by a pass that runs, or by a requeue that
\* waits for its delay.
HolderTracksCache ==
    \A p \in Procs :
        Cached(p) # Gone => item[p] = "ready" \/ holder[p] = SHA256(Cached(p))

\* Every hash in memory, on a pod or on its way to one is the hash of a
\* content the bundle has had.
HashesPublished ==
    /\ \A p \in Procs : holder[p] \in Published \cup {NoHash}
    /\ \A p \in Procs : pass[p] # NoPass => pass[p].desired \in Published
    /\ \A s \in Slots : pods[s] # NoPod => pods[s].hash \in Published \cup {NoHash}
    /\ \A s \in Slots : creating[s] # NoPod => creating[s].hash \in Published \cup {NoHash}

\* A listed pod of a generated name that is still there is as stale as when it
\* was listed: nothing but its deletion changes its hash.
VictimsStale ==
    \A p \in Procs : pass[p] # NoPass =>
        \A s \in pass[p].victims \ pass[p].vanished :
            /\ pods[s] # NoPod
            /\ pods[s].hash # pass[p].desired
            /\ Workload[s].owned

\* The restarter deletes no pod that carries the desired hash, whatever happens
\* between List and Delete, as long as names are not reused (restarter.go:71-77).
FreshPodsSpared ==
    [][\A p \in Procs, s \in Slots :
         DeletePod(p, s) /\ ~Workload[s].stable => pods[s].hash # pass[p].desired]_vars

\* As long as the bundle has not changed, the restarter deletes no pod of a
\* generated name that the webhook has stamped, also after a restart of the
\* process; and without failures it deletes none that the webhook has seen: the
\* hash computed before the manager starts (cmd/main.go:292-297) prevents a herd
\* of restarts.
NoHerd ==
    [][\A p \in Procs, s \in Slots :
         (/\ DeletePod(p, s)
          /\ ~Workload[s].stable
          /\ \A i \in 1..Len(bundle) : bundle[i] = bundle[1])
         => /\ pods[s].hash = NoHash
            /\ faults = 0 => ~pods[s].mounted]_vars

\* A process that has a hash keeps one until it stops: the deletion of the
\* bundle does not empty the holder (watcher.go:35-38), so every pod admitted
\* from then on is stamped.
HolderNeverEmptied ==
    [][\A p \in Procs : holder[p] # NoHash /\ p \in up' => holder'[p] # NoHash]_vars

\* A slot the restarter must bring up to date.
Covered(s) == /\ Workload[s].owned
              /\ ~Workload[s].excluded
              /\ Workload[s].ns \in Permitted
              /\ \A t \in Slots : Workload[t].ns = Workload[s].ns
                                   => Workload[t].answers = {"deleted"}

\* When the bundle stops changing and the disturbances end, every covered pod
\* that is eligible for a restart ends up with the hash of the live bundle, for
\* good: no rotation, crash, failed pass or late admission is missed, the restarts
\* come to an end, and a namespace whose pods cannot be deleted, or that ends every
\* pass that reaches it, does not keep the others from converging
\* (watcher.go:48-56, restarter.go:29-43, docs 01-06-runtime-view.md:65).
Convergence ==
    <>[](Live # Gone => \A s \in Slots : Covered(s) =>
            /\ pods[s] # NoPod
            /\ RestartEnabled(pods[s]) => pods[s].hash = SHA256(Live))

(***************************************************************************)
(* Refinement: of the rotation an onlooker sees the hashes of the pods and *)
(* what each process holds; passes, informers, queues and pods on their    *)
(* way are hidden.                                                         *)
(***************************************************************************)
Promise == INSTANCE Rotation WITH
    Stampable   <- {s \in Slots : OptedIn(s) /\ ~Workload[s].excluded},
    Restartable <- {s \in Slots : Workload[s].owned /\ Workload[s].ns \in Permitted},
    Reused      <- {s \in Slots : Workload[s].stable},
    published   <- Published,
    held        <- holder,
    pods        <- [s \in Slots |-> IF pods[s] = NoPod THEN NoPod ELSE pods[s].hash]

\* Listing the pods of a namespace and deleting them one by one later, next to
\* admissions, rotations and another process, looks like comparing and deleting
\* each of them at once with the hash the process holds then, and restarts only
\* pods with an owner in a namespace with permissions (watcher.go:41-48,
\* restarter.go:52-83, pod_defaulters.go:209-215).
ImplementsRotation == Promise!Spec

(***************************************************************************)
(* What the documents say and the code does not do.                        *)
(***************************************************************************)
\* openspec/specs/ctb-restart-eligibility/spec.md:27-29: a pod that carries the
\* desired hash is not deleted.  Stated for every pod, also one of a reused name.
MatchingHashSpared ==
    [][\A p \in Procs, s \in Slots :
         DeletePod(p, s) => pods[s].hash # pass[p].desired]_vars
=============================================================================
