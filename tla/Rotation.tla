----------------------------- MODULE Rotation -----------------------------
(***************************************************************************)
(* What the rotation of a ClusterTrustBundle promises about the pods of a  *)
(* cluster, without informers, queues, passes and admissions: a process    *)
(* adopts hashes of published contents, and as long as names are not       *)
(* reused it restarts a pod only by comparing and deleting at once, with   *)
(* the hash it holds at that moment.                                       *)
(***************************************************************************)
EXTENDS Integers

CONSTANTS
    Procs,        \* processes that restart pods
    Slots,        \* one per pod that is to run
    Hashes,       \* of the contents a bundle may have
    NoHash,       \* no hash
    NoPod,        \* no pod runs in the slot
    Stampable,    \* slots whose pods may carry a hash
    Restartable,  \* slots whose pods may be restarted
    Reused,       \* slots whose pods have the name of their predecessors
    MaxFaults     \* bound: disturbances

VARIABLES
    published,    \* hashes of the contents the bundle has had
    held,         \* the hash each process holds
    pods,         \* the hash of the pod of each slot
    faults        \* disturbances so far

vars == <<published, held, pods, faults>>

Init ==
    /\ published \in SUBSET Hashes
    /\ held = [p \in Procs |-> NoHash]
    /\ pods \in [Slots -> {NoHash, NoPod}]
    /\ faults = 0

Publish(h) ==
    /\ published' = published \cup {h}
    /\ UNCHANGED <<held, pods, faults>>

Adopt(p, h) ==
    /\ h \in published
    /\ held' = [held EXCEPT ![p] = h]
    /\ UNCHANGED <<published, pods, faults>>

\* A pod without a hash, or with one that was published.
Appear(s, h) ==
    /\ pods[s] = NoPod
    /\ h = NoHash \/ (h \in published /\ s \in Stampable)
    /\ pods' = [pods EXCEPT ![s] = h]
    /\ UNCHANGED <<published, held, faults>>

Restart(p, s) ==
    /\ s \in Restartable
    /\ pods[s] # NoPod
    /\ held[p] # NoHash
    /\ pods[s] # held[p] \/ s \in Reused
    /\ pods' = [pods EXCEPT ![s] = NoPod]
    /\ UNCHANGED <<published, held, faults>>

\* Nothing but a disturbance takes a pod away otherwise, or makes a process forget.
Disturb ==
    /\ faults < MaxFaults
    /\ faults' = faults + 1
    /\ UNCHANGED published
    /\ \/ UNCHANGED <<held, pods>>
       \/ \E s \in Slots : pods' = [pods EXCEPT ![s] = NoPod] /\ UNCHANGED held
       \/ \E p \in Procs : held' = [held EXCEPT ![p] = NoHash] /\ UNCHANGED pods

Next ==
    \/ \E h \in Hashes : Publish(h)
    \/ \E p \in Procs : \/ \E h \in Hashes : Adopt(p, h)
                        \/ \E s \in Slots : Restart(p, s)
    \/ \E s \in Slots, h \in Hashes \cup {NoHash} : Appear(s, h)
    \/ Disturb

Spec == Init /\ [][Next]_vars
=============================================================================
