----------------------------- MODULE CABundle -----------------------------
(***************************************************************************)
(* The certificate of the webhook server and the CA bundle of its          *)
(* MutatingWebhookConfiguration (cmd/main.go, internal/webhook/server,     *)
(* internal/webhook/certificate).                                          *)
(*                                                                         *)
(* A rotation publishes a new certificate together with the CA that        *)
(* verifies it; both reach a process through its mounted files.  The       *)
(* process calls back for each certificate it loads: the first time before *)
(* it serves, later in a goroutine of its own.  The callback reads the CA  *)
(* file once and then writes it into the configuration under optimistic    *)
(* concurrency, with retries.  A process may be shut down for good, in a   *)
(* rolling update, and one whose watcher does not start keeps serving with *)
(* the certificate it has.                                                 *)
(***************************************************************************)
EXTENDS Integers

CONSTANTS
    Procs,
    NoCall,        \* there is no callback for a certificate
    Steps,         \* attempts of retry.DefaultBackoff
    MaxVersions,   \* bound: versions of the certificate
    MaxFaults      \* bound: failures, and writes of others

ASSUME BoundAssumption == /\ Steps \in Nat \ {0}
                          /\ MaxVersions \in Nat \ {0}
                          /\ MaxFaults \in Nat

VARIABLES
    issued,     \* version of the certificate that is published
    mounted,    \* version of the files of a process
    loaded,     \* version of the certificate a process presents
    status,     \* "down", "starting", "serving" or, for good, "gone"
    watching,   \* it follows its files
    call,       \* callbacks of a process, by the certificate they are for
    hook,       \* the configuration: its CA and its resourceVersion
    registered, \* newest CA the configuration had when a callback of a process was done
                \* with it, since the process started, for the properties
    overlapped, \* a certificate was loaded while a callback ran, for the properties
    abandoned,  \* nobody is left to correct a CA, for the properties
    faults      \* failures so far, counted against MaxFaults

files  == <<issued, mounted>>
ghosts == <<registered, overlapped, abandoned>>
vars   == <<issued, mounted, loaded, status, watching, call, hook, registered, overlapped,
            abandoned, faults>>

-----------------------------------------------------------------------------
Versions == 1..MaxVersions

\* A callback has the CA it read from the file, and what it got from the API server.
Call == [stage: {"read", "get", "patch"}, ca: 0..MaxVersions, base: [ca: 0..MaxVersions, rv: Nat],
         tries: 1..Steps]

ASSUME NoCallAssumption == NoCall \notin Call

NewCallOffByOne ==                          \* faulty: one attempt too many
    [stage |-> "read", ca |-> 0, base |-> [ca |-> 0, rv |-> 0], tries |-> 0]
NewCall == [stage |-> "read", ca |-> 0, base |-> [ca |-> 0, rv |-> 0], tries |-> 1]
NoCalls == [v \in Versions |-> NoCall]
Idle(p) == call[p] = NoCalls

Init ==
    /\ issued = 1
    /\ mounted = [p \in Procs |-> 1]
    /\ loaded = [p \in Procs |-> 1]
    /\ status = [p \in Procs |-> "down"]
    /\ watching = [p \in Procs |-> FALSE]
    /\ call = [p \in Procs |-> NoCalls]
    /\ hook \in [ca : {0, 1}, rv : {0}]
    /\ registered = [p \in Procs |-> 0]
    /\ overlapped = FALSE /\ abandoned = FALSE
    /\ faults = 0

Fault == faults < MaxFaults /\ faults' = faults + 1

(***************************************************************************)
(* Environment.                                                            *)
(***************************************************************************)
Rotate ==
    /\ issued < MaxVersions
    /\ issued' = issued + 1
    /\ UNCHANGED <<mounted, loaded, status, watching, call, hook, ghosts, faults>>

\* The kubelet refreshes all files of the volume at once.
Mount(p) ==
    /\ mounted[p] # issued
    /\ mounted' = [mounted EXCEPT ![p] = issued]
    /\ UNCHANGED <<issued, loaded, status, watching, call, hook, ghosts, faults>>

\* Somebody else writes the configuration, and leaves the CA alone.
TouchHook ==
    /\ Fault
    /\ hook' = [hook EXCEPT !.rv = hook.rv + 1]
    /\ UNCHANGED <<files, loaded, status, watching, call, ghosts>>

\* The callbacks end with the process, and the next one has to register itself anew.
End(p, next) ==
    /\ status' = [status EXCEPT ![p] = next]
    /\ watching' = [watching EXCEPT ![p] = FALSE]
    /\ call' = [call EXCEPT ![p] = NoCalls]
    /\ registered' = [registered EXCEPT ![p] = 0]
    /\ UNCHANGED <<files, loaded, hook, overlapped>>

Runs(p) == status[p] \in {"starting", "serving"}

\* os.Exit, and the kubelet starts it again.
Exit(p) == End(p, "down") /\ UNCHANGED abandoned

\* It is killed, or ends itself because a callback met an error that is no conflict:
\* of the file, or of the API server.
Crash(p) == Runs(p) /\ Fault /\ Exit(p)

\* Another process presents the certificate that is published, has nothing left to do,
\* and its CA is not the one in the configuration.
LeavesBehind(p) ==
    \E q \in Procs \ {p} : /\ Runs(q) /\ Idle(q)
                          /\ loaded[q] = issued
                          /\ hook.ca # loaded[q]

\* A rolling update ends a process when another one is ready.
Retire(p) ==
    /\ Runs(p)
    /\ \E q \in Procs \ {p} : status[q] = "serving"
    /\ abandoned' = (abandoned \/ LeavesBehind(p))
    /\ End(p, "gone")
    /\ UNCHANGED faults

(***************************************************************************)
(* The server.  The watcher loads the certificate and the callback it is   *)
(* given runs at once, before the server listens.                          *)
(***************************************************************************)
StartServing(p)  == "serving"               \* faulty: the callback runs meanwhile
StartCallback(p) == "starting"

Start(p) ==
    /\ status[p] = "down"
    /\ loaded' = [loaded EXCEPT ![p] = mounted[p]]
    /\ status' = [status EXCEPT ![p] = StartCallback(p)]
    /\ call' = [call EXCEPT ![p][mounted[p]] = NewCall]
    /\ UNCHANGED <<files, watching, hook, ghosts, faults>>

\* From now on the probes succeed.
Listen(p) ==
    /\ status[p] = "starting"
    /\ Idle(p)
    /\ status' = [status EXCEPT ![p] = "serving"]
    /\ UNCHANGED <<files, loaded, call, hook, registered, overlapped>>

Serve(p) ==
    /\ Listen(p)
    /\ watching' = [watching EXCEPT ![p] = TRUE]
    /\ UNCHANGED <<abandoned, faults>>

\* The watcher cannot follow the files: that is logged, and nothing else.
ServeUnwatched(p) ==
    /\ Fault
    /\ Listen(p)
    /\ abandoned' = (abandoned \/ LeavesBehind(p))
    /\ UNCHANGED watching

\* The watcher finds another certificate and starts another goroutine.
Load(p) ==
    /\ watching[p]
    /\ loaded[p] # mounted[p]
    /\ loaded' = [loaded EXCEPT ![p] = mounted[p]]
    /\ call' = [call EXCEPT ![p][mounted[p]] = NewCall]
    /\ overlapped' = (overlapped \/ ~Idle(p))
    /\ UNCHANGED <<files, status, watching, hook, registered, abandoned, faults>>

(***************************************************************************)
(* The callback.  The CA it reads may be newer than the certificate.       *)
(***************************************************************************)
At(p, v, stage) == call[p][v] # NoCall /\ call[p][v].stage = stage
To(p, v, c)     == call' = [call EXCEPT ![p][v] = c]

\* A callback is done: the configuration has its CA, or had it before.
Done(p, v) ==
    /\ To(p, v, NoCall)
    /\ registered' = [registered EXCEPT ![p] = IF @ < hook'.ca THEN hook'.ca ELSE @]
    /\ UNCHANGED <<overlapped, abandoned>>

ReadCA(p, v) ==
    /\ At(p, v, "read")
    /\ To(p, v, [call[p][v] EXCEPT !.stage = "get", !.ca = mounted[p]])
    /\ UNCHANGED <<files, loaded, status, watching, hook, ghosts, faults>>

\* Get, and compare.
UpToDateAlways(p, v) == hook.ca # 0         \* faulty: any CA will do
UpToDate(p, v)       == hook.ca = call[p][v].ca

GetHook(p, v) ==
    /\ At(p, v, "get")
    /\ UNCHANGED <<files, loaded, status, watching, hook, faults>>
    /\ \/ UpToDate(p, v) /\ Done(p, v)
       \/ /\ ~UpToDate(p, v)
          /\ To(p, v, [call[p][v] EXCEPT !.stage = "patch", !.base = hook])
          /\ UNCHANGED ghosts

\* The patch carries the resourceVersion that was read.
NeverConflict(p, v) == FALSE                \* faulty: without resourceVersion
Conflict(p, v)      == call[p][v].base.rv # hook.rv

PatchHook(p, v) ==
    /\ At(p, v, "patch")
    /\ ~Conflict(p, v)
    /\ hook' = [ca |-> call[p][v].ca, rv |-> hook.rv + 1]
    /\ Done(p, v)
    /\ UNCHANGED <<files, loaded, status, watching, faults>>

\* RetryOnConflict: another Get, with the CA that was read before.
Retry(p, v) ==
    /\ At(p, v, "patch")
    /\ Conflict(p, v)
    /\ call[p][v].tries < Steps
    /\ To(p, v, [call[p][v] EXCEPT !.stage = "get", !.tries = call[p][v].tries + 1])
    /\ UNCHANGED <<files, loaded, status, watching, hook, ghosts, faults>>

GiveUp(p, v) ==
    /\ At(p, v, "patch")
    /\ Conflict(p, v)
    /\ call[p][v].tries = Steps
    /\ Exit(p)
    /\ UNCHANGED faults

-----------------------------------------------------------------------------
Callback(p, v) == ReadCA(p, v) \/ GetHook(p, v) \/ PatchHook(p, v) \/ Retry(p, v) \/ GiveUp(p, v)
Serving(p)     == Start(p) \/ Serve(p) \/ Load(p)
Ending(p)      == Crash(p) \/ Retire(p)

Next ==
    \/ Rotate \/ TouchHook
    \/ \E p \in Procs : Mount(p) \/ Ending(p) \/ Serving(p) \/ ServeUnwatched(p)
    \/ \E p \in Procs, v \in Versions : Callback(p, v)

Spec == Init /\ [][Next]_vars

\* The kubelet restarts the process and refreshes its files, the watcher polls the
\* files, calls of the API server return within their timeout.
Fairness ==
    \A p \in Procs :
        /\ WF_vars(Mount(p)) /\ WF_vars(Serving(p))
        /\ \A v \in Versions : WF_vars(Callback(p, v))

FairSpec == Spec /\ Fairness

-----------------------------------------------------------------------------
(***************************************************************************)
(* Properties.                                                             *)
(***************************************************************************)
\* Every variable has its type.
TypeOK ==
    /\ issued \in Versions
    /\ mounted \in [Procs -> Versions]
    /\ loaded \in [Procs -> Versions]
    /\ status \in [Procs -> {"down", "starting", "serving", "gone"}]
    /\ watching \in [Procs -> BOOLEAN]
    /\ call \in [Procs -> [Versions -> Call \cup {NoCall}]]
    /\ hook \in [ca : 0..MaxVersions, rv : Nat]
    /\ registered \in [Procs -> 0..MaxVersions]
    /\ overlapped \in BOOLEAN /\ abandoned \in BOOLEAN
    /\ faults \in 0..MaxFaults

\* Every process registers itself.  Before it accepts requests a callback of its own,
\* since its start, has put its CA into the configuration or found it there
\* (server.go:191, 220, main.go:177-198); and from then on, for the certificate it
\* presents, either such a callback still runs, or one has ended with a CA in the
\* configuration that is as new as the certificate.  (Another process may replace
\* that CA later: that it is right in the end is Convergence.)
ServesRegistered ==
    \A p \in Procs :
        /\ status[p] = "serving" => registered[p] # 0
        /\ Runs(p) => \/ call[p][loaded[p]] # NoCall
                      \/ registered[p] >= loaded[p]

\* Whatever callbacks run side by side, in one process or in two, a callback
\* replaces only the CA it has read: a write between Get and Patch is a conflict
\* (callback.go:57-69, which keeps the resourceVersion).
NoBlindOverwrite ==
    [][\A p \in Procs, v \in Versions : PatchHook(p, v) => hook.ca = call[p][v].base.ca]_vars

Verified == \A p \in Procs : status[p] = "serving" => hook.ca = loaded[p]

\* The processes that follow their files present the last certificate, and its CA is
\* the one in the configuration.
Current == \A p \in Procs : watching[p] => hook.ca = issued /\ loaded[p] = issued

\* After the last rotation the API server can verify the certificate of every process
\* that follows its files, for good, through crashes, conflicts, lagging files, the
\* start of one process and the end of another.  Two exceptions: a process loaded a
\* certificate while its callback for another one was still running; or a process that
\* had written an older CA over that of another ended, or stopped following its files,
\* before it could write the new one (main.go:195, server.go:191-201).
Convergence == <>[](overlapped \/ abandoned \/ Current)

\* docs/contributor/01-10-risks-and-technical-debt.md:10: conflicts are retried, so
\* that the CA bundle ends up consistent with the certificate.
EventuallyVerified == <>[]Verified
=============================================================================
