----------------------------- MODULE Admission -----------------------------
(***************************************************************************)
(* The admission webhook (internal/webhook/v1/pod_webhook.go) and the part *)
(* of cmd/main.go that sets it up.                                         *)
(*                                                                         *)
(* The process reads the configuration once when it starts, which fixes    *)
(* the list of its defaulters.  A request then runs the defaulters one by  *)
(* one, and each reads the ConfigMap again: the configuration, the hash    *)
(* and the annotations of the namespace may change between two of them.    *)
(***************************************************************************)
EXTENDS PodFeatures

CONSTANTS
    Configs,      \* configurations the ConfigMap may hold, also invalid ones
    Unreadable,   \* no ConfigMap, no key, or a document that is refused
    NsLayers,     \* annotations a namespace may have
    NotCached,    \* the informer has not seen the namespace yet
    Templates,    \* pods that are created
    Landscapes,   \* what --landscape may say, NoLandscape included
    Down,         \* no process runs
    Nothing,      \* no request, no reply
    Denied,       \* the reply to a request that is refused
    MaxEdits      \* bound: changes of the ConfigMap, of namespaces and of the
                  \* hash, and restarts

ASSUME ConfigAssumption ==
    /\ Unreadable \notin Configs
    /\ \A c \in Configs : /\ c.mapping \in Mapping \cup {NoMapping}
                          /\ DOMAIN c.overrides \subseteq Text
                          /\ \A r \in DOMAIN c.overrides : c.overrides[r] \in Text
ASSUME InputAssumption ==
    /\ NsLayers \subseteq Annotations /\ NotCached \notin Annotations
    /\ Templates \subseteq Pod
    /\ Landscapes \subseteq Text
ASSUME EditsAssumption == MaxEdits \in Nat

\* The bundles that configurations name.
Bundles == {c.mapping.bundle : c \in {d \in Configs : d.mapping # NoMapping}}

VARIABLES
    configMap,    \* what the API server stores
    cached,       \* annotations of each namespace in the informer cache
    process,      \* Down, or what the running process holds in memory
    request,      \* Nothing, or the pod being defaulted
    reply,        \* Nothing, Denied, or the outcome of the last request
    edits         \* changes so far, counted against MaxEdits

vars == <<configMap, cached, process, request, reply, edits>>

Process == [features: SUBSET KnownFeatureKeys,   \* AvailableFeatures at the start
            watched: Text \cup {NoMapping},      \* CTBName of the CTBWatcher, if there is one
            hash: Hash \cup {NoHash},            \* HashHolder
            landscape: Landscapes]

\* The defaulters in their fixed order; the process has those of its features.
DefaulterEntries == <<"alter-img-registry", "add-img-pull-secret",
                      "add-cluster-trust-bundle", "set-fips-mode", "set-landscape">>
Entries          == 1..5

\* readConfig: NewConfig validates at every read.
Readable(c) == c # Unreadable /\ ValidConfig(c)

\* What a request can depend on.  Requests and replies carry every world there
\* was while they ran; only the properties look at it.
World(c, proc) == [config |-> c, process |-> proc]
Worlds         == [config: Configs \cup {Unreadable}, process: Process]

Request == [orig: Pod, pod: Pod, nsAnnotations: Annotations, next: 1..6, defaulted: BOOLEAN,
            worlds: SUBSET Worlds, again: BOOLEAN]
Reply   == [orig: Pod, pod: Pod, nsAnnotations: Annotations, worlds: SUBSET Worlds, again: BOOLEAN]

ASSUME AbsenceAssumption == /\ Down \notin Process
                            /\ Nothing \notin Request
                            /\ Nothing \notin Reply /\ Denied \notin Reply

-----------------------------------------------------------------------------
Init ==
    /\ configMap \in Configs
    /\ cached \in [Namespaces -> NsLayers]
    /\ process = Down
    /\ request = Nothing
    /\ reply = Nothing
    /\ edits = 0

\* Something a running request may depend on changes.
Edit ==
    /\ edits < MaxEdits
    /\ edits' = edits + 1
    /\ request' = IF request = Nothing THEN Nothing
                  ELSE [request EXCEPT !.worlds = @ \cup {World(configMap', process')}]
    /\ UNCHANGED reply

\* Who provides the configuration writes, breaks or removes it.
EditConfig(c) ==
    /\ configMap' = c
    /\ c # configMap
    /\ UNCHANGED <<cached, process>>
    /\ Edit

\* The informer sees a change of the annotations, a new or a deleted namespace.
SeeNamespace(n, a) ==
    /\ cached' = [cached EXCEPT ![n] = a]
    /\ a # cached[n]
    /\ UNCHANGED <<configMap, process>>
    /\ Edit

\* The CTBWatcher, if there is one, computes the hash of a bundle that has changed;
\* its predicate lets only the one it is set up for pass.
FollowsAny(b) == process.watched # NoMapping    \* faulty: without the predicate
Follows(b)    == process.watched = b

UpdateHash(b, v) ==
    /\ process # Down
    /\ Follows(b)
    /\ process.hash # <<b, v>>
    /\ process' = [process EXCEPT !.hash = <<b, v>>]
    /\ UNCHANGED <<configMap, cached>>
    /\ Edit

(***************************************************************************)
(* main: an unreadable configuration, or a catalog with set-landscape and  *)
(* no --landscape, ends the process.                                       *)
(***************************************************************************)
BootsAnyway(c, landscape) == Readable(c)    \* faulty: the flag is not checked
Boots(c, landscape) ==
    /\ Readable(c)
    /\ "set-landscape" \in c.available => landscape # NoLandscape

Watched(c) ==
    IF c.mapping # NoMapping /\ "add-cluster-trust-bundle" \in c.available
    THEN c.mapping.bundle ELSE NoMapping

Boot(landscape) ==
    /\ process = Down
    /\ Boots(configMap, landscape)
    /\ \E h \in {k \in Hash : k[1] = Watched(configMap)} \cup {NoHash} :
         process' = [features |-> configMap.available, watched |-> Watched(configMap),
                     hash |-> h, landscape |-> landscape]
    /\ UNCHANGED <<configMap, cached, request, reply, edits>>

\* The process ends; its request fails.
Stop ==
    /\ process # Down
    /\ edits < MaxEdits
    /\ edits' = edits + 1
    /\ process' = Down
    /\ request' = Nothing
    /\ UNCHANGED <<configMap, cached, reply>>

(***************************************************************************)
(* podCustomDefaulter.Default.                                             *)
(***************************************************************************)
\* GetNsAnnotations: read once, from the cache; NotFound refuses the request.
Begin(p, worlds, again) ==
    /\ process # Down
    /\ request = Nothing
    /\ IF cached[p.ns] = NotCached
       THEN request' = Nothing /\ reply' = Denied
       ELSE /\ request' = [orig |-> p, pod |-> p, nsAnnotations |-> cached[p.ns],
                           next |-> 1, defaulted |-> FALSE,
                           worlds |-> worlds \cup {World(configMap, process)}, again |-> again]
            /\ reply' = Nothing
    /\ UNCHANGED <<configMap, cached, process, edits>>

Receive(p) == Begin(p, {}, FALSE)

\* The webhook is called again for a pod it has defaulted; the annotations of the
\* namespace are still the same.
Resubmit ==
    /\ reply \notin {Nothing, Denied}
    /\ ~reply.again
    /\ reply.nsAnnotations = cached[reply.pod.ns]
    /\ Begin(reply.pod, reply.worlds, TRUE)

\* The defaulters that are still to run.
ToRun   == {i \in Entries : i >= request.next /\ DefaulterEntries[i] \in process.features}
Pending == request # Nothing /\ ToRun # {}

LastModified(r, f) ==                       \* faulty: the last defaulter decides
    Modifies(f, r.pod, r.nsAnnotations, configMap, process)
Defaulted(r, f) ==
    r.defaulted \/ Modifies(f, r.pod, r.nsAnnotations, configMap, process)

\* The next defaulter, with a configuration read for it.
RunDefaulter(i) ==
    /\ Pending
    /\ i \in ToRun
    /\ \A j \in ToRun : i <= j
    /\ Readable(configMap)
    /\ LET f == DefaulterEntries[i]
       IN  request' = [request EXCEPT
             !.pod = Default(f, request.pod, request.nsAnnotations, configMap, process),
             !.defaulted = Defaulted(request, f),
             !.next = i + 1]
    /\ UNCHANGED <<configMap, cached, process, reply, edits>>

\* GetConfig fails: the request is refused, whatever was defaulted before.
Deny ==
    /\ Pending
    /\ ~Readable(configMap)
    /\ request' = Nothing
    /\ reply' = Denied
    /\ UNCHANGED <<configMap, cached, process, edits>>

Mark(r) == IF r.defaulted THEN [r.pod EXCEPT !.modified = TRUE] ELSE r.pod

Respond ==
    /\ request # Nothing
    /\ ~Pending
    /\ reply' = [orig |-> request.orig, pod |-> Mark(request),
                 nsAnnotations |-> request.nsAnnotations,
                 worlds |-> request.worlds, again |-> request.again]
    /\ request' = Nothing
    /\ UNCHANGED <<configMap, cached, process, edits>>

-----------------------------------------------------------------------------
Next ==
    \/ \E c \in Configs \cup {Unreadable} : EditConfig(c)
    \/ \E n \in Namespaces, a \in NsLayers \cup {NotCached} : SeeNamespace(n, a)
    \/ \E b \in Bundles, v \in Contents : UpdateHash(b, v)
    \/ \E landscape \in Landscapes : Boot(landscape)
    \/ Stop
    \/ \E p \in Templates : Receive(p)
    \/ Resubmit
    \/ \E i \in Entries : RunDefaulter(i)
    \/ Deny
    \/ Respond

Spec == Init /\ [][Next]_vars

-----------------------------------------------------------------------------
(***************************************************************************)
(* What a request asks for, written down without the layers of the code.   *)
(***************************************************************************)
AsksFor(a, f, c) == \/ a[f] = "true"
                    \/ a["all"] = "true" /\ a[f] = "none" /\ f \in c.available

Requested(f, r, c) ==
    /\ f = "add-cluster-trust-bundle" => r.orig.ann[f] # "false"
    /\ \/ f \in c.nsFeatures[r.orig.ns]
       \/ "all" \in c.nsFeatures[r.orig.ns] /\ f \in c.available
       \/ AsksFor(r.nsAnnotations, f, c)
       \/ AsksFor(r.orig.ann, f, c)

\* s has exactly one entry of that name, with that value.
Holds1(s, name, value) ==
    \E i \in DOMAIN s : s[i].value = value /\ Named(s, name) = {i}

\* What feature f makes of p, given the configuration and the hash.  The trust bundle
\* is mounted in the containers and not in the init containers, as the code has it
\* (pod_defaulters.go:154-160); what the documents say is BundleMountedEverywhere.
Applied(f, orig, p, c, proc) ==
    CASE f = "alter-img-registry" ->
           \A i \in DOMAIN p.containers :
             LET r == orig.containers[i].image.registry
             IN  r \in DOMAIN c.overrides => p.containers[i].image.registry = c.overrides[r]
      [] f = "add-img-pull-secret" ->
           \E i \in DOMAIN p.secrets : p.secrets[i] = PullSecretName
      [] f = "add-cluster-trust-bundle" ->
           /\ proc.hash # NoHash => p.hash = proc.hash
           /\ c.mapping # NoMapping =>
                /\ Holds1(p.volumes, c.mapping.volume, c.mapping.bundle)
                /\ \A i \in DOMAIN p.containers : ~p.containers[i].init =>
                     Holds1(p.containers[i].mounts, c.mapping.volume, c.mapping.path)
      [] f = "set-fips-mode" ->
           \A i \in DOMAIN p.containers : 
             /\ Holds1(p.containers[i].env, "KYMA_FIPS_MODE_ENABLED", "true")
             /\ Holds1(p.containers[i].env, "FIPS_MODE_ENABLED", "true")
      [] f = "set-landscape" ->
           \A i \in DOMAIN p.containers : Holds1(p.containers[i].env, "KYMA_LANDSCAPE", proc.landscape)

Answered == reply \notin {Nothing, Denied}

(***************************************************************************)
(* Properties.                                                             *)
(***************************************************************************)
\* Every variable has its type: the process runs with known features only, a request
\* needs a process, and what is made of a pod is a pod.
TypeOK ==
    /\ configMap \in Configs \cup {Unreadable}
    /\ cached \in [Namespaces -> NsLayers \cup {NotCached}]
    /\ process \in Process \cup {Down}
    /\ request \in Request \cup {Nothing}
    /\ reply \in Reply \cup {Nothing, Denied}
    /\ edits \in 0..MaxEdits
    /\ request # Nothing => process # Down

\* A pod annotated add-cluster-trust-bundle: "false" gets neither the volume nor
\* a mount nor the hash, whatever the namespace or "all" ask for and however the
\* configuration changes meanwhile (pod_defaulters.go:194-198).
OptOutRespected ==
    Answered /\ CTBExplicitOptOut(reply.orig) =>
        Part("add-cluster-trust-bundle", reply.pod)
            = Part("add-cluster-trust-bundle", reply.orig)

\* A feature changes a pod only if the process was started with it and some
\* configuration of the time of the request makes the pod opt in to it.
NothingUnrequested ==
    Answered => \A f \in KnownFeatureKeys :
        Part(f, reply.pod) # Part(f, reply.orig) =>
            \E w \in reply.worlds : /\ f \in w.process.features
                                    /\ Readable(w.config)
                                    /\ Requested(f, reply, w.config)

\* A feature the process was started with and that every configuration of the
\* time of the request makes the pod opt in to is applied as one of them says,
\* for good: no later defaulter and no other configuration undoes it.  Two exceptions:
\* where a pod has two entries of one name only the first of them is looked at, and
\* init containers do not get the mount of the trust bundle (Applied).
UniqueNames(s) == \A i, j \in DOMAIN s : s[i].name = s[j].name => i = j
Unambiguous(p) ==
    /\ UniqueNames(p.volumes)
    /\ \A i \in DOMAIN p.containers :
         UniqueNames(p.containers[i].env) /\ UniqueNames(p.containers[i].mounts)

RequestedApplied ==
    Answered /\ Unambiguous(reply.orig) => \A f \in KnownFeatureKeys :
        (\A w \in reply.worlds : /\ f \in w.process.features
                                 /\ Readable(w.config)
                                 /\ Requested(f, reply, w.config))
        => \E w \in reply.worlds :
             Applied(f, reply.orig, reply.pod, w.config, w.process)

\* A pod that differs from what was sent is marked as modified, so users can see
\* that it was (pod_webhook.go:197-211).
ChangedIsMarked ==
    Answered /\ reply.pod # reply.orig => reply.pod.modified

\* No registry is both replaced and a replacement.
Unchained(c) == \A r \in DOMAIN c.overrides :
                  c.overrides[r] \in DOMAIN c.overrides => c.overrides[c.overrides[r]] = c.overrides[r]

\* Calling the webhook again for its result changes nothing, as long as nothing
\* else changes and no registry is both replaced and a replacement.
IdempotentUnchained ==
    Answered /\ reply.again =>
        \A w \in reply.worlds :
            reply.worlds = {w} /\ Readable(w.config) /\ Unchained(w.config)
                => reply.pod = reply.orig

\* No pod is told an empty landscape that does not say so itself: not at the start
\* (main.go:285-288) and not by a configuration that adds the feature while the
\* process runs.
ToldNoLandscape(k) == \E j \in DOMAIN k.env : k.env[j] = Landscape(NoLandscape)

LandscapeNeverEmpty ==
    Answered => \A i \in DOMAIN reply.pod.containers :
        ToldNoLandscape(reply.pod.containers[i]) => ToldNoLandscape(reply.orig.containers[i])

\* The watcher follows the bundle named at the start and the defaulter mounts the one
\* the configuration names now: as long as both are one, a pod that gets a hash gets
\* the hash of the bundle it mounts (main.go:323, watcher.go:28 and 62-64).
SameBundle(w) == /\ Readable(w.config)
                 /\ w.config.mapping # NoMapping
                 /\ w.config.mapping.bundle = w.process.watched

HashOfMounted ==
    Answered /\ reply.pod.hash # reply.orig.hash /\ (\A w \in reply.worlds : SameBundle(w)) =>
        \E w \in reply.worlds :
            \E i \in DOMAIN reply.pod.volumes :
                reply.pod.volumes[i] = [name  |-> w.config.mapping.volume,
                                        value |-> reply.pod.hash[1]]

(***************************************************************************)
(* What the documents say and the code does not do.                        *)
(***************************************************************************)
\* docs/contributor/01-04-solution-strategy.md:21: no restart is needed after a
\* change of the configuration, the latest one is always used: a feature that the
\* only configuration of the time of the request offers, and that the pod asks for,
\* is applied.
LatestConfigUsed ==
    Answered => \A w \in reply.worlds, f \in KnownFeatureKeys :
        (/\ reply.worlds = {w}
         /\ Readable(w.config)
         /\ f \in w.config.available
         /\ Requested(f, reply, w.config))
        => Applied(f, reply.orig, reply.pod, w.config, w.process)

\* docs/user/01-adapt-workloads-to-landscape.md:75 and 88: the bundle is mounted into
\* every container, init containers included, of a pod that every configuration of the
\* time of the request makes opt in to it.
BundleAsked(w) == /\ "add-cluster-trust-bundle" \in w.process.features
                  /\ Readable(w.config)
                  /\ w.config.mapping # NoMapping
                  /\ Requested("add-cluster-trust-bundle", reply, w.config)

BundleMountedEverywhere ==
    Answered /\ Unambiguous(reply.orig) /\ (\A w \in reply.worlds : BundleAsked(w)) =>
        \E w \in reply.worlds :
            \A i \in DOMAIN reply.pod.containers :
                Holds1(reply.pod.containers[i].mounts, w.config.mapping.volume, w.config.mapping.path)
=============================================================================
