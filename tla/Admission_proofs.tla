-------------------------- MODULE Admission_proofs --------------------------
(***************************************************************************)
(* What the admission webhook keeps true, for every set of configurations, *)
(* namespaces, pods and landscapes and any number of changes meanwhile.    *)
(***************************************************************************)
EXTENDS Admission, PodFeatures_proofs

-----------------------------------------------------------------------------
(***************************************************************************)
(* Types.                                                                  *)
(***************************************************************************)
\* A configuration that is read is one the decoder yields.
LEMMA ReadIsDecoded ==
    ASSUME NEW c \in Configs \cup {Unreadable}, Readable(c)
    PROVE  c \in Configs /\ Decoded(c)
  BY ConfigAssumption DEF Readable, Decoded

\* What a process holds is what its defaulters look at.
LEMMA ProcessHolds ==
    ASSUME NEW proc \in Process
    PROVE  Held(proc)
  BY InputAssumption DEF Process, Held

\* The features of the defaulters.
LEMMA EntriesAreKeys ==
    /\ \A i \in Entries : DefaulterEntries[i] \in KnownFeatureKeys
    /\ \A f \in KnownFeatureKeys : \E i \in Entries : DefaulterEntries[i] = f
    /\ \A i, j \in Entries : DefaulterEntries[i] = DefaulterEntries[j] => i = j
<1>1. Entries = {1, 2, 3, 4, 5}
  BY DEF Entries
<1>2. /\ DefaulterEntries[1] = "alter-img-registry"
      /\ DefaulterEntries[2] = "add-img-pull-secret"
      /\ DefaulterEntries[3] = "add-cluster-trust-bundle"
      /\ DefaulterEntries[4] = "set-fips-mode"
      /\ DefaulterEntries[5] = "set-landscape"
  BY DEF DefaulterEntries
<1> QED BY <1>1, <1>2 DEF KnownFeatureKeys

\* The fields of a request.
LEMMA RequestFields ==
    ASSUME NEW r \in Request
    PROVE  /\ r.orig \in Pod /\ r.pod \in Pod /\ r.nsAnnotations \in Annotations
           /\ r.next \in 1..6 /\ r.defaulted \in BOOLEAN /\ r.again \in BOOLEAN
           /\ r.worlds \subseteq Worlds
  BY DEF Request

\* The mark: a pod stays what it is but for it.
LEMMA MarkIs ==
    ASSUME NEW r \in Request
    PROVE  /\ Mark(r) \in Pod
           /\ Mark(r).ns = r.pod.ns /\ Mark(r).ann = r.pod.ann
           /\ Mark(r).hash = r.pod.hash /\ Mark(r).secrets = r.pod.secrets
           /\ Mark(r).volumes = r.pod.volumes /\ Mark(r).containers = r.pod.containers
           /\ Mark(r).modified = (r.pod.modified \/ r.defaulted)
           /\ r.pod.modified => Mark(r) = r.pod
           /\ ~r.defaulted => Mark(r) = r.pod
<1>1. r.pod \in Pod /\ r.defaulted \in BOOLEAN
  BY RequestFields
<1>2. CASE r.defaulted
  <2>1. Mark(r) = [r.pod EXCEPT !.modified = TRUE]
    BY <1>2 DEF Mark
  <2> QED BY <1>1, <1>2, <2>1 DEF Pod
<1>3. CASE ~r.defaulted
  <2>1. Mark(r) = r.pod
    BY <1>3 DEF Mark
  <2> QED BY <1>1, <1>3, <2>1 DEF Pod
<1> QED BY <1>2, <1>3

\* What a change does to a request.
LEMMA EditSays ==
    ASSUME TypeOK, Edit, World(configMap', process') \in Worlds
    PROVE  /\ edits' \in 0..MaxEdits
           /\ reply' = reply
           /\ request = Nothing => request' = Nothing
           /\ request # Nothing =>
                /\ request \in Request /\ request' \in Request
                /\ request'.orig = request.orig /\ request'.pod = request.pod
                /\ request'.nsAnnotations = request.nsAnnotations
                /\ request'.next = request.next /\ request'.defaulted = request.defaulted
                /\ request'.again = request.again
                /\ request'.worlds = request.worlds \cup {World(configMap', process')}
<1>1. edits' \in 0..MaxEdits
  BY EditsAssumption DEF TypeOK, Edit
<1>2. CASE request = Nothing
  BY <1>1, <1>2 DEF Edit
<1>3. CASE request # Nothing
  <2>1. request \in Request
    BY <1>3 DEF TypeOK
  <2>2. request' = [request EXCEPT !.worlds = request.worlds \cup {World(configMap', process')}]
    BY <1>3 DEF Edit
  <2> QED BY <1>1, <1>3, <2>1, <2>2 DEF Request, Edit
<1> QED BY <1>2, <1>3

\* What EditConfig, SeeNamespace and UpdateHash do to a request.
LEMMA ChangeSays ==
    ASSUME TypeOK,
           \/ \E c \in Configs \cup {Unreadable} : EditConfig(c)
           \/ \E n \in Namespaces, a \in NsLayers \cup {NotCached} : SeeNamespace(n, a)
           \/ \E b \in Bundles, v \in Contents : UpdateHash(b, v)
    PROVE  /\ configMap' \in Configs \cup {Unreadable}
           /\ cached' \in [Namespaces -> NsLayers \cup {NotCached}]
           /\ process' \in Process \cup {Down}
           /\ process = Down <=> process' = Down
           /\ process # Down => /\ process'.features = process.features
                                /\ process'.watched = process.watched
                                /\ process'.landscape = process.landscape
           /\ process' # process => process'.hash[1] = process.watched
           /\ edits' \in 0..MaxEdits
           /\ reply' = reply
           /\ request = Nothing => request' = Nothing
           /\ request # Nothing =>
                /\ request \in Request /\ request' \in Request
                /\ request'.orig = request.orig /\ request'.pod = request.pod
                /\ request'.nsAnnotations = request.nsAnnotations
                /\ request'.next = request.next /\ request'.defaulted = request.defaulted
                /\ request'.again = request.again
                /\ request'.worlds = request.worlds \cup {World(configMap', process')}
<1>1. Edit
  BY DEF EditConfig, SeeNamespace, UpdateHash
<1>2. /\ configMap' \in Configs \cup {Unreadable}
      /\ cached' \in [Namespaces -> NsLayers \cup {NotCached}]
  BY DEF TypeOK, EditConfig, SeeNamespace, UpdateHash
<1>3. /\ process' \in Process \cup {Down}
      /\ process = Down <=> process' = Down
      /\ process # Down => /\ process'.features = process.features
                           /\ process'.watched = process.watched
                           /\ process'.landscape = process.landscape
      /\ process' # process => process'.hash[1] = process.watched
  <2>1. CASE process' = process
    BY <2>1 DEF TypeOK
  <2>2. CASE process' # process
    <3>1. PICK b \in Bundles, v \in Contents : UpdateHash(b, v)
      BY <2>2 DEF EditConfig, SeeNamespace
    <3>2. process \in Process /\ process.watched = b
      BY <3>1 DEF UpdateHash, Follows, TypeOK
    <3>3. b \in Text
      BY ConfigAssumption DEF Bundles, Mapping
    <3>4. <<b, v>> \in Hash \cup {NoHash} /\ <<b, v>>[1] = b
      BY <3>3 DEF Hash
    <3>5. process' = [process EXCEPT !.hash = <<b, v>>]
      BY <3>1 DEF UpdateHash
    <3> DEFINE h == <<b, v>>
    <3>6. process' = [process EXCEPT !.hash = h] /\ h \in Hash \cup {NoHash} /\ h[1] = b
      BY <3>4, <3>5
    <3> HIDE DEF h
    <3>7. process' \in Process /\ process'.hash = h
      BY <3>2, <3>6 DEF Process
    <3>8. process' # Down
      BY <3>7, AbsenceAssumption
    <3> QED BY <3>2, <3>6, <3>7, <3>8, AbsenceAssumption DEF Process
  <2> QED BY <2>1, <2>2
<1>4. CASE request = Nothing
  BY <1>1, <1>2, <1>3, <1>4, EditsAssumption DEF Edit, TypeOK
<1>5. CASE request # Nothing
  <2>1. process' \in Process
    BY <1>3, <1>5 DEF TypeOK
  <2>2. World(configMap', process') \in Worlds
    BY <1>2, <2>1 DEF World, Worlds
  <2> QED BY <1>1, <1>2, <1>3, <1>5, <2>2, EditSays
<1> QED BY <1>4, <1>5

\* What starts with a request, received or repeated: nothing is done yet.
LEMMA BeginSays ==
    ASSUME TypeOK, NEW p \in Pod, NEW worlds \in SUBSET Worlds, NEW again \in BOOLEAN,
           Begin(p, worlds, again)
    PROVE  /\ process \in Process /\ request = Nothing
           /\ configMap' = configMap /\ cached' = cached /\ process' = process /\ edits' = edits
           /\ \/ request' = Nothing /\ reply' = Denied
              \/ /\ reply' = Nothing
                 /\ request' \in Request
                 /\ request'.orig = p /\ request'.pod = p
                 /\ request'.nsAnnotations = cached[p.ns]
                 /\ request'.next = 1 /\ request'.defaulted = FALSE /\ request'.again = again
                 /\ request'.worlds = worlds \cup {World(configMap, process)}
<1>1. process \in Process /\ request = Nothing /\ UNCHANGED <<configMap, cached, process, edits>>
  BY DEF Begin, TypeOK
<1>2. CASE cached[p.ns] = NotCached
  BY <1>1, <1>2 DEF Begin
<1>3. CASE cached[p.ns] # NotCached
  <2>1. cached[p.ns] \in Annotations
    <3>1. p.ns \in Namespaces
      BY DEF Pod
    <3>2. cached[p.ns] \in NsLayers \cup {NotCached}
      BY <3>1 DEF TypeOK
    <3> QED BY <1>3, <3>2, InputAssumption
  <2>2. World(configMap, process) \in Worlds
    BY <1>1 DEF World, Worlds, TypeOK
  <2> DEFINE W == worlds \cup {World(configMap, process)}
  <2>3. W \in SUBSET Worlds
    BY <2>2
  <2>4. /\ request' = [orig |-> p, pod |-> p, nsAnnotations |-> cached[p.ns],
                       next |-> 1, defaulted |-> FALSE, worlds |-> W, again |-> again]
        /\ reply' = Nothing
    BY <1>3 DEF Begin
  <2> HIDE DEF W
  <2>5. request' \in Request
    BY <2>1, <2>3, <2>4 DEF Request
  <2> QED BY <1>1, <2>4, <2>5 DEF W
<1> QED BY <1>2, <1>3

\* What one defaulter does to a request.
LEMMA RunSays ==
    ASSUME TypeOK, NEW i \in Entries, RunDefaulter(i)
    PROVE  LET f == DefaulterEntries[i]
           IN  /\ process \in Process /\ Held(process)
               /\ configMap \in Configs /\ Readable(configMap) /\ Decoded(configMap)
               /\ f \in KnownFeatureKeys /\ f \in process.features
               /\ request # Nothing /\ request \in Request /\ request' \in Request
               /\ request.next <= i
               /\ \A j \in Entries : request.next <= j /\ j < i => DefaulterEntries[j] \notin process.features
               /\ request'.orig = request.orig
               /\ request'.nsAnnotations = request.nsAnnotations
               /\ request'.worlds = request.worlds /\ request'.again = request.again
               /\ request'.next = i + 1
               /\ request'.pod = Default(f, request.pod, request.nsAnnotations, configMap, process)
               /\ request'.defaulted = (\/ request.defaulted
                                        \/ Modifies(f, request.pod, request.nsAnnotations, configMap, process))
               /\ SamePod(request.pod, request'.pod)
               /\ configMap' = configMap /\ cached' = cached /\ process' = process
               /\ edits' = edits /\ reply' = reply
<1> DEFINE f == DefaulterEntries[i]
<1> DEFINE q == Default(f, request.pod, request.nsAnnotations, configMap, process)
<1> DEFINE d == Defaulted(request, f)
<1>1. /\ request # Nothing /\ request \in Request /\ process \in Process
      /\ i \in ToRun /\ \A j \in ToRun : i <= j
      /\ Readable(configMap)
      /\ UNCHANGED <<configMap, cached, process, reply, edits>>
  BY DEF RunDefaulter, Pending, TypeOK
<1>2. configMap \in Configs /\ Decoded(configMap) /\ Held(process)
  BY <1>1, ReadIsDecoded, ProcessHolds DEF TypeOK
<1>3. f \in KnownFeatureKeys
  BY EntriesAreKeys
<1>4. f \in process.features /\ request.next <= i
  BY <1>1 DEF ToRun
<1>5. \A j \in Entries : request.next <= j /\ j < i => DefaulterEntries[j] \notin process.features
  <2>1. request.next \in Int
    BY <1>1, RequestFields
  <2> QED BY <1>1, <2>1 DEF ToRun, Entries
<1>6. SamePod(request.pod, q)
  <2>1. request.pod \in Pod
    BY <1>1, RequestFields
  <2> QED BY <1>2, <1>3, <2>1, DefaultIs
<1>7. d \in BOOLEAN /\ q \in Pod /\ i + 1 \in 1..6
  <2>1. request.defaulted \in BOOLEAN
    BY <1>1, RequestFields
  <2>2. d \in BOOLEAN
    BY <2>1 DEF Defaulted
  <2> QED BY <1>6, <2>2 DEF SamePod, Entries
<1>8. request' = [request EXCEPT !.pod = q, !.defaulted = d, !.next = i + 1]
  BY DEF RunDefaulter
<1>9. d = (\/ request.defaulted
           \/ Modifies(f, request.pod, request.nsAnnotations, configMap, process))
  BY DEF Defaulted
<1> HIDE DEF q, d
<1>10. /\ request' \in Request
       /\ request'.orig = request.orig
       /\ request'.nsAnnotations = request.nsAnnotations
       /\ request'.worlds = request.worlds /\ request'.again = request.again
       /\ request'.next = i + 1 /\ request'.pod = q /\ request'.defaulted = d
  BY <1>1, <1>7, <1>8 DEF Request
<1>11. q = Default(f, request.pod, request.nsAnnotations, configMap, process)
  BY DEF q
<1> QED BY <1>1, <1>2, <1>3, <1>4, <1>5, <1>6, <1>9, <1>10, <1>11

\* What an answer is made of.
LEMMA RespondSays ==
    ASSUME TypeOK, Respond
    PROVE  /\ request # Nothing /\ request \in Request /\ process \in Process
           /\ \A j \in Entries : request.next <= j => DefaulterEntries[j] \notin process.features
           /\ reply' \in Reply /\ request' = Nothing
           /\ reply'.orig = request.orig /\ reply'.pod = Mark(request)
           /\ reply'.nsAnnotations = request.nsAnnotations
           /\ reply'.worlds = request.worlds /\ reply'.again = request.again
           /\ configMap' = configMap /\ cached' = cached /\ process' = process /\ edits' = edits
<1>1. request # Nothing /\ request \in Request /\ process \in Process /\ ToRun = {}
  BY DEF Respond, Pending, TypeOK
<1>2. \A j \in Entries : request.next <= j => DefaulterEntries[j] \notin process.features
  <2>1. request.next \in Int
    BY <1>1, RequestFields
  <2> QED BY <1>1, <2>1 DEF ToRun, Entries
<1>3. Mark(request) \in Pod
  BY <1>1, MarkIs
<1> DEFINE q == Mark(request)
<1>4. reply' = [orig |-> request.orig, pod |-> q, nsAnnotations |-> request.nsAnnotations,
                worlds |-> request.worlds, again |-> request.again]
  BY DEF Respond
<1>5. q \in Pod
  BY <1>3
<1> HIDE DEF q
<1>6. reply' \in Reply
  BY <1>1, <1>4, <1>5 DEF Request, Reply
<1> QED BY <1>1, <1>2, <1>4, <1>6 DEF q, Respond

\* What is repeated is an answer.
LEMMA ResubmitSays ==
    ASSUME TypeOK, Resubmit
    PROVE  /\ reply \in Reply /\ reply # Nothing /\ reply # Denied /\ reply.again = FALSE
           /\ reply.pod \in Pod /\ reply.worlds \in SUBSET Worlds
           /\ reply.nsAnnotations = cached[reply.pod.ns]
           /\ Begin(reply.pod, reply.worlds, TRUE)
<1>1. reply \in Reply
  BY DEF Resubmit, TypeOK
<1> QED BY <1>1 DEF Resubmit, Reply

\* A process that has started holds the catalog of the configuration, the bundle to
\* watch and the landscape.
LEMMA BootSays ==
    ASSUME TypeOK, NEW landscape \in Landscapes, Boot(landscape)
    PROVE  /\ process = Down /\ request = Nothing
           /\ configMap' = configMap /\ cached' = cached /\ request' = request
           /\ reply' = reply /\ edits' = edits
           /\ process' \in Process
           /\ process'.features = configMap.available /\ process'.landscape = landscape
           /\ process'.watched = Watched(configMap)
           /\ process'.hash # NoHash => process'.hash[1] = process'.watched
           /\ "set-landscape" \in process'.features => landscape # NoLandscape
<1>1. process = Down /\ request = Nothing /\ Boots(configMap, landscape)
      /\ UNCHANGED <<configMap, cached, request, reply, edits>>
  BY DEF Boot, TypeOK
<1>2. Readable(configMap)
  BY <1>1 DEF Boots
<1>3. configMap \in Configs /\ Decoded(configMap) /\ configMap.available \in SUBSET KnownFeatureKeys
  BY <1>2, ReadIsDecoded DEF TypeOK, Readable, ValidConfig
<1>4. Watched(configMap) \in Text \cup {NoMapping}
  BY <1>3 DEF Watched, Decoded, Mapping
<1>5. PICK h \in {k \in Hash : k[1] = Watched(configMap)} \cup {NoHash} :
        process' = [features |-> configMap.available, watched |-> Watched(configMap),
                    hash |-> h, landscape |-> landscape]
  BY DEF Boot
<1>6. process' \in Process
  BY <1>3, <1>4, <1>5 DEF Process
<1> QED BY <1>1, <1>5, <1>6 DEF Boots

\* Every variable has its type, for whatever is configured, created and changed
\* (pod_webhook.go:141-214, main.go:278-331): what the defaulters make of a pod is a
\* pod, and no request outlives its process.
THEOREM TypeCorrect == Spec => []TypeOK
<1>1. Init => TypeOK
  <2>1. Init => cached \in [Namespaces -> NsLayers \cup {NotCached}]
    BY DEF Init
  <2> QED BY <2>1, EditsAssumption DEF Init, TypeOK
<1>2. TypeOK /\ [Next]_vars => TypeOK'
  <2> SUFFICES ASSUME TypeOK, [Next]_vars
               PROVE  TypeOK'
    OBVIOUS
  <2>1. CASE \/ \E c \in Configs \cup {Unreadable} : EditConfig(c)
             \/ \E n \in Namespaces, a \in NsLayers \cup {NotCached} : SeeNamespace(n, a)
             \/ \E b \in Bundles, v \in Contents : UpdateHash(b, v)
    BY <2>1, ChangeSays DEF TypeOK
  <2>2. CASE \E landscape \in Landscapes : Boot(landscape)
    BY <2>2, BootSays DEF TypeOK
  <2>3. CASE Stop
    BY <2>3, EditsAssumption DEF Stop, TypeOK
  <2>4. CASE \E p \in Templates : Receive(p)
    <3>1. PICK p \in Templates : Begin(p, {}, FALSE)
      BY <2>4 DEF Receive
    <3>2. p \in Pod /\ {} \in SUBSET Worlds
      BY InputAssumption
    <3> QED BY <3>1, <3>2, BeginSays, AbsenceAssumption DEF TypeOK
  <2>5. CASE Resubmit
    <3>1. Begin(reply.pod, reply.worlds, TRUE) /\ reply.pod \in Pod /\ reply.worlds \in SUBSET Worlds
      BY <2>5, ResubmitSays
    <3> QED BY <3>1, BeginSays, AbsenceAssumption DEF TypeOK
  <2>6. CASE \E i \in Entries : RunDefaulter(i)
    BY <2>6, RunSays DEF TypeOK
  <2>7. CASE Deny
    BY <2>7 DEF Deny, TypeOK
  <2>8. CASE Respond
    BY <2>8, RespondSays DEF TypeOK
  <2>9. CASE UNCHANGED vars
    BY <2>9 DEF TypeOK, vars
  <2> QED BY <2>1, <2>2, <2>3, <2>4, <2>5, <2>6, <2>7, <2>8, <2>9 DEF Next
<1> QED BY <1>1, <1>2, PTL DEF Spec

-----------------------------------------------------------------------------
(***************************************************************************)
(* Features.                                                               *)
(***************************************************************************)
\* A layer of annotations, expanded, says "true" where it asks for the feature.
LEMMA ExpandedAsks ==
    ASSUME NEW a \in Annotations, NEW c, NEW f \in KnownFeatureKeys
    PROVE  ExpandAnnotationAll(c, a)[f] = "true" <=> AsksFor(a, f, c)
<1>1. f \in Keys /\ f # AnnotationAll /\ AnnotationAll = "all"
  BY DEF KnownFeatureKeys, Keys, AnnotationAll
<1>2. CASE a[AnnotationAll] # "true"
  BY <1>1, <1>2 DEF ExpandAnnotationAll, AsksFor
<1>3. CASE a[AnnotationAll] = "true"
  <2>1. ExpandAnnotationAll(c, a)[f] = CASE f = AnnotationAll -> "none"
                                         [] a[f] = "none" /\ f \in c.available -> "true"
                                         [] OTHER -> a[f]
    BY <1>1, <1>3, Zenon DEF ExpandAnnotationAll
  <2>2. CASE a[f] = "none" /\ f \in c.available
    <3>1. ExpandAnnotationAll(c, a)[f] = "true"
      BY <1>1, <2>1, <2>2, Zenon
    <3> QED BY <1>1, <1>3, <2>2, <3>1 DEF AsksFor
  <2>3. CASE ~(a[f] = "none" /\ f \in c.available)
    <3>1. ExpandAnnotationAll(c, a)[f] = a[f]
      BY <1>1, <2>1, <2>3, Zenon
    <3> QED BY <1>1, <1>3, <2>3, <3>1 DEF AsksFor
  <2> QED BY <2>2, <2>3
<1> QED BY <1>2, <1>3

\* The layers of the code and what a request asks for are the same, as long as the
\* pod has kept its annotations and its namespace.
LEMMA OptedInIsRequested ==
    ASSUME NEW f \in KnownFeatureKeys, NEW r \in Request, SamePod(r.orig, r.pod), NEW c
    PROVE  OptedIn(f, r.pod, r.nsAnnotations, c) <=> Requested(f, r, c)
<1>1. /\ r.orig \in Pod /\ r.nsAnnotations \in Annotations
      /\ r.pod.ann = r.orig.ann /\ r.pod.ns = r.orig.ns
  BY RequestFields DEF SamePod
<1>2. r.orig.ann \in Annotations
  BY <1>1 DEF Pod
<1>3. f \in Keys /\ f # AnnotationAll /\ AnnotationAll = "all"
  BY DEF KnownFeatureKeys, Keys, AnnotationAll
<1>4. NamespaceDefaultFeatures(c, r.pod.ns)[f] = "true" <=>
        \/ f \in c.nsFeatures[r.orig.ns]
        \/ "all" \in c.nsFeatures[r.orig.ns] /\ f \in c.available
  BY <1>1, <1>3 DEF NamespaceDefaultFeatures
<1>5. /\ ExpandAnnotationAll(c, r.nsAnnotations)[f] = "true" <=> AsksFor(r.nsAnnotations, f, c)
      /\ ExpandAnnotationAll(c, r.pod.ann)[f] = "true" <=> AsksFor(r.orig.ann, f, c)
  BY <1>1, <1>2, ExpandedAsks
<1>6. (\E layer \in Layers(r.pod, r.nsAnnotations, c) : layer[f] = "true") <=>
        \/ NamespaceDefaultFeatures(c, r.pod.ns)[f] = "true"
        \/ ExpandAnnotationAll(c, r.nsAnnotations)[f] = "true"
        \/ ExpandAnnotationAll(c, r.pod.ann)[f] = "true"
  BY DEF Layers
<1>7. CTBExplicitOptOut(r.pod) <=> r.orig.ann["add-cluster-trust-bundle"] = "false"
  BY <1>1 DEF CTBExplicitOptOut
<1> QED BY <1>4, <1>5, <1>6, <1>7 DEF OptedIn, Requested

\* An entry that exactly one has of its name stays so while entries of other names
\* come and go.
LEMMA Holds1Agree ==
    ASSUME NEW s, NEW t, NEW names, NEW name \in names, NEW value,
           EntriesOf(s, names) = EntriesOf(t, names)
    PROVE  Holds1(s, name, value) <=> Holds1(t, name, value)
<1>1. Named(s, name) = Named(t, name) /\ \A k \in Named(s, name) : s[k] = t[k]
  BY EntriesAgree
<1>2. Named(s, name) \subseteq DOMAIN s /\ Named(t, name) \subseteq DOMAIN t
  BY DEF Named
<1> QED BY <1>1, <1>2 DEF Holds1

\* Where no more than one has the name, one has it afterwards.
LEMMA UpsertHolds1 ==
    ASSUME NEW s \in Seq(Entry), NEW e \in Entry,
           \A i, j \in Named(s, e.name) : i = j
    PROVE  Holds1(Upsert(s, e), e.name, e.value)
<1> DEFINE u == Upsert(s, e)
<1>1. PICK k \in DOMAIN u : /\ u[k] = e
                            /\ k \in DOMAIN s => s[k].name = e.name
                            /\ \A i \in DOMAIN u : i # k => i \in DOMAIN s /\ u[i] = s[i]
                            /\ k \notin DOMAIN s => Named(s, e.name) = {}
  BY UpsertIs
<1> HIDE DEF u
<1>2. ASSUME NEW i \in Named(u, e.name), i # k
      PROVE  FALSE
  <2>1. i \in Named(s, e.name)
    BY <1>1, <1>2 DEF Named
  <2>2. k \in Named(s, e.name)
    BY <1>1, <2>1 DEF Named
  <2> QED BY <1>2, <2>1, <2>2
<1>3. Named(u, e.name) = {k}
  BY <1>1, <1>2 DEF Named
<1> QED BY <1>1, <1>3 DEF Holds1, u

\* What a feature has made of a pod lasts as long as the part of the feature does.
LEMMA AppliedLasts ==
    ASSUME NEW f \in KnownFeatureKeys, NEW orig, NEW p \in Pod, NEW q \in Pod, SamePod(p, q),
           Part(f, q) = Part(f, p), NEW c, NEW proc, Applied(f, orig, p, c, proc)
    PROVE  Applied(f, orig, q, c, proc)
<1>1. /\ DOMAIN q.containers = DOMAIN p.containers
      /\ \A i \in DOMAIN p.containers : q.containers[i].init = p.containers[i].init
  BY DEF SamePod
<1>2. CASE f = "alter-img-registry"
  <2>1. SameImages(p, q)
    BY <1>2, PartsSay
  <2> QED BY <1>1, <1>2, <2>1 DEF SameImages, Applied
<1>3. CASE f = "add-img-pull-secret"
  <2>1. q.secrets = p.secrets
    BY <1>3, PartsSay
  <2> QED BY <1>3, <2>1 DEF Applied
<1>4. CASE f = "add-cluster-trust-bundle"
  <2>1. q.volumes = p.volumes /\ q.hash = p.hash /\ SameMounts(p, q)
    BY <1>4, PartsSay
  <2> QED BY <1>1, <1>4, <2>1 DEF SameMounts, Applied
<1>5. CASE f = "set-fips-mode"
  <2>1. ASSUME NEW i \in DOMAIN p.containers, NEW name \in {"KYMA_FIPS_MODE_ENABLED", "FIPS_MODE_ENABLED"},
               Holds1(p.containers[i].env, name, "true")
        PROVE  Holds1(q.containers[i].env, name, "true")
    <3>1. EntriesOf(q.containers[i].env, {"KYMA_FIPS_MODE_ENABLED", "FIPS_MODE_ENABLED"})
            = EntriesOf(p.containers[i].env, {"KYMA_FIPS_MODE_ENABLED", "FIPS_MODE_ENABLED"})
      BY <1>5, EnvPartsSay
    <3> QED BY <2>1, <3>1, Holds1Agree
  <2>2. \A i \in DOMAIN p.containers :
          /\ Holds1(p.containers[i].env, "KYMA_FIPS_MODE_ENABLED", "true")
          /\ Holds1(p.containers[i].env, "FIPS_MODE_ENABLED", "true")
    BY <1>5 DEF Applied
  <2>3. \A i \in DOMAIN q.containers :
          /\ Holds1(q.containers[i].env, "KYMA_FIPS_MODE_ENABLED", "true")
          /\ Holds1(q.containers[i].env, "FIPS_MODE_ENABLED", "true")
    BY <1>1, <2>1, <2>2
  <2> QED BY <1>5, <2>3 DEF Applied
<1>6. CASE f = "set-landscape"
  <2>1. ASSUME NEW i \in DOMAIN p.containers
        PROVE  Holds1(q.containers[i].env, "KYMA_LANDSCAPE", proc.landscape)
    <3>1. EntriesOf(q.containers[i].env, {"KYMA_LANDSCAPE"})
            = EntriesOf(p.containers[i].env, {"KYMA_LANDSCAPE"})
      BY <1>6, EnvPartsSay
    <3>2. Holds1(p.containers[i].env, "KYMA_LANDSCAPE", proc.landscape)
      BY <1>6 DEF Applied
    <3> QED BY <3>1, <3>2, Holds1Agree
  <2> QED BY <1>1, <1>6, <2>1 DEF Applied
<1> QED BY <1>2, <1>3, <1>4, <1>5, <1>6 DEF KnownFeatureKeys

\* Two variables of other names: both are there exactly once.
LEMMA BothHold ==
    ASSUME NEW s \in Seq(Entry), NEW d \in Entry, NEW e \in Entry, d.name # e.name,
           \A i, j \in Named(s, d.name) : i = j,
           \A i, j \in Named(s, e.name) : i = j
    PROVE  /\ Holds1(Upsert(Upsert(s, d), e), d.name, d.value)
           /\ Holds1(Upsert(Upsert(s, d), e), e.name, e.value)
<1> DEFINE t == Upsert(s, d)
<1>1. t \in Seq(Entry) /\ Holds1(t, d.name, d.value)
  BY UpsertIs, UpsertHolds1
<1>2. Named(t, e.name) = Named(s, e.name)
  BY UpsertElsewhere
<1> HIDE DEF t
<1>3. EntriesOf(Upsert(t, e), {d.name}) = EntriesOf(t, {d.name})
  BY <1>1, UpsertElsewhere
<1>4. Holds1(Upsert(t, e), d.name, d.value)
  BY <1>1, <1>3, Holds1Agree
<1>5. Holds1(Upsert(t, e), e.name, e.value)
  BY <1>1, <1>2, UpsertHolds1
<1> QED BY <1>4, <1>5 DEF t

\* pod_defaulters.go, pod_defaulter_fips_mode.go, pod_defaulter_landscape.go: a defaulter
\* that finds its part as it was sent, and the pod opted in, applies the feature.
LEMMA DefaultApplies ==
    ASSUME NEW f \in KnownFeatureKeys, NEW orig \in Pod, NEW p \in Pod, SamePod(orig, p),
           Part(f, p) = Part(f, orig), Unambiguous(orig),
           NEW a, NEW c, NEW proc, Decoded(c), Held(proc), OptedIn(f, p, a, c)
    PROVE  Applied(f, orig, Default(f, p, a, c, proc), c, proc)
<1> DEFINE q == Default(f, p, a, c, proc)
<1>1. DOMAIN p.containers = DOMAIN orig.containers
  BY DEF SamePod
<1>2. CASE f = "alter-img-registry"
  <2>1. q = AlterImgRegistry(p, c)
    BY <1>2, DefaultBy
  <2> HIDE DEF q
  <2>2. /\ SamePod(p, q)
        /\ \A i \in DOMAIN p.containers :
             q.containers[i].image = AlterImage(p.containers[i].image, c.overrides)
    BY <2>1, AlterImgRegistryIs
  <2>3. SameImages(orig, p)
    BY <1>2, PartsSay
  <2>4. ASSUME NEW i \in DOMAIN q.containers,
               orig.containers[i].image.registry \in DOMAIN c.overrides
        PROVE  q.containers[i].image.registry = c.overrides[orig.containers[i].image.registry]
    <3>1. i \in DOMAIN p.containers /\ p.containers[i].image = orig.containers[i].image
      BY <1>1, <2>2, <2>3 DEF SamePod, SameImages
    <3>2. p.containers[i].image \in Image
      BY <3>1, ContainersOf
    <3>3. p.containers[i].image.registry # NoRegistry
      BY <2>4, <3>1, TextAssumption DEF Decoded
    <3> QED BY <2>2, <2>4, <3>1, <3>2, <3>3 DEF AlterImage, Image
  <2> QED BY <1>2, <2>4 DEF Applied, q
<1>3. CASE f = "add-img-pull-secret"
  <2>1. q = AddImagePullSecret(p)
    BY <1>3, DefaultBy
  <2>2. \E i \in DOMAIN q.secrets : q.secrets[i] = PullSecretName
    <3> HIDE DEF q
    <3> QED BY <2>1, AddImagePullSecretIs
  <2> QED BY <1>3, <2>2 DEF Applied
<1>4. CASE f = "add-cluster-trust-bundle"
  <2>1. q = AddClusterTrustBundle(p, c, proc.hash)
    BY <1>4, DefaultBy
  <2> HIDE DEF q
  <2>2. /\ SamePod(p, q)
        /\ proc.hash # NoHash => q.hash = proc.hash
        /\ c.mapping # NoMapping => q.volumes = Upsert(p.volumes, Volume(c.mapping))
        /\ \A i \in DOMAIN p.containers :
             c.mapping # NoMapping /\ ~p.containers[i].init =>
               q.containers[i].mounts = Upsert(p.containers[i].mounts, Mount(c.mapping))
    BY <2>1, AddClusterTrustBundleIs DEF Held
  <2>3. p.volumes = orig.volumes /\ SameMounts(orig, p)
    BY <1>4, PartsSay
  <2>4. ASSUME c.mapping # NoMapping
        PROVE  /\ Holds1(q.volumes, c.mapping.volume, c.mapping.bundle)
               /\ \A i \in DOMAIN q.containers : ~q.containers[i].init =>
                    Holds1(q.containers[i].mounts, c.mapping.volume, c.mapping.path)
    <3> DEFINE v == Volume(c.mapping)
    <3> DEFINE m == Mount(c.mapping)
    <3>1. /\ v \in Entry /\ v.name = c.mapping.volume /\ v.value = c.mapping.bundle
          /\ m \in Entry /\ m.name = c.mapping.volume /\ m.value = c.mapping.path
      BY <2>4 DEF Volume, Mount, Entry, Mapping, Decoded
    <3>2. p.volumes \in Seq(Entry) /\ UniqueNames(p.volumes)
      BY <2>3 DEF Pod, Unambiguous
    <3>3. q.volumes = Upsert(p.volumes, v)
      BY <2>2, <2>4
    <3> HIDE DEF v
    <3>4. Holds1(q.volumes, c.mapping.volume, c.mapping.bundle)
      <4>1. \A i, j \in Named(p.volumes, v.name) : i = j
        BY <3>2 DEF UniqueNames, Named
      <4>2. Holds1(Upsert(p.volumes, v), v.name, v.value)
        BY <3>1, <3>2, <4>1, UpsertHolds1
      <4> QED BY <3>1, <3>3, <4>2
    <3>5. ASSUME NEW i \in DOMAIN q.containers, ~q.containers[i].init
          PROVE  Holds1(q.containers[i].mounts, c.mapping.volume, c.mapping.path)
      <4>1. i \in DOMAIN p.containers /\ ~p.containers[i].init
        BY <2>2, <3>5 DEF SamePod
      <4>2. p.containers[i].mounts \in Seq(Entry) /\ UniqueNames(p.containers[i].mounts)
        BY <1>1, <2>3, <4>1, ContainersOf DEF Unambiguous, SameMounts
      <4>3. q.containers[i].mounts = Upsert(p.containers[i].mounts, m)
        BY <2>2, <2>4, <4>1
      <4> HIDE DEF m
      <4>4. \A k, j \in Named(p.containers[i].mounts, m.name) : k = j
        BY <4>2 DEF UniqueNames, Named
      <4>5. Holds1(Upsert(p.containers[i].mounts, m), m.name, m.value)
        BY <3>1, <4>2, <4>4, UpsertHolds1
      <4> QED BY <3>1, <4>3, <4>5
    <3> QED BY <3>4, <3>5
  <2> QED BY <1>4, <2>2, <2>4 DEF Applied, q
<1>5. CASE f = "set-fips-mode"
  <2> DEFINE names == {"KYMA_FIPS_MODE_ENABLED", "FIPS_MODE_ENABLED"}
  <2>1. q = SetFipsMode(p)
    BY <1>5, DefaultBy
  <2> HIDE DEF q
  <2>2. /\ SamePod(p, q)
        /\ \A i \in DOMAIN p.containers :
             q.containers[i].env = Upsert(Upsert(p.containers[i].env, FipsMode(1)), FipsMode(2))
    BY <2>1, SetFipsModeIs
  <2>3. ASSUME NEW i \in DOMAIN q.containers
        PROVE  /\ Holds1(q.containers[i].env, "KYMA_FIPS_MODE_ENABLED", "true")
               /\ Holds1(q.containers[i].env, "FIPS_MODE_ENABLED", "true")
    <3>1. i \in DOMAIN p.containers /\ i \in DOMAIN orig.containers
      BY <1>1, <2>2 DEF SamePod
    <3>2. p.containers[i].env \in Seq(Entry)
      BY <3>1, ContainersOf
    <3>3. EntriesOf(p.containers[i].env, names) = EntriesOf(orig.containers[i].env, names)
      BY <1>5, <3>1, EnvPartsSay
    <3>4. \A name \in names : Named(p.containers[i].env, name) = Named(orig.containers[i].env, name)
      BY <3>3, EntriesAgree
    <3>5. UniqueNames(orig.containers[i].env)
      BY <3>1 DEF Unambiguous
    <3>6. \A name \in names : \A k, j \in Named(p.containers[i].env, name) : k = j
      <4>1. \A name : \A k, j \in Named(orig.containers[i].env, name) : k = j
        BY <3>5 DEF UniqueNames, Named
      <4> QED BY <3>4, <4>1
    <3>7. /\ FipsMode(1) \in Entry /\ FipsMode(1).name = "KYMA_FIPS_MODE_ENABLED" /\ FipsMode(1).value = "true"
          /\ FipsMode(2) \in Entry /\ FipsMode(2).name = "FIPS_MODE_ENABLED" /\ FipsMode(2).value = "true"
      BY VariablesAreEntries DEF FipsMode
    <3>8. /\ Holds1(Upsert(Upsert(p.containers[i].env, FipsMode(1)), FipsMode(2)), FipsMode(1).name, FipsMode(1).value)
          /\ Holds1(Upsert(Upsert(p.containers[i].env, FipsMode(1)), FipsMode(2)), FipsMode(2).name, FipsMode(2).value)
      <4>1. /\ \A k, j \in Named(p.containers[i].env, FipsMode(1).name) : k = j
            /\ \A k, j \in Named(p.containers[i].env, FipsMode(2).name) : k = j
        BY <3>6, <3>7
      <4>2. FipsMode(1).name # FipsMode(2).name
        BY <3>7
      <4> QED BY <3>2, <3>7, <4>1, <4>2, BothHold
    <3> QED BY <2>2, <3>1, <3>7, <3>8
  <2> QED BY <1>5, <2>3 DEF Applied, q
<1>6. CASE f = "set-landscape"
  <2>1. q = SetLandscape(p, proc.landscape)
    BY <1>6, DefaultBy
  <2> HIDE DEF q
  <2>2. /\ SamePod(p, q)
        /\ \A i \in DOMAIN p.containers :
             q.containers[i].env = Upsert(p.containers[i].env, Landscape(proc.landscape))
    BY <2>1, SetLandscapeIs DEF Held
  <2>3. ASSUME NEW i \in DOMAIN q.containers
        PROVE  Holds1(q.containers[i].env, "KYMA_LANDSCAPE", proc.landscape)
    <3> DEFINE e == Landscape(proc.landscape)
    <3>1. i \in DOMAIN p.containers /\ i \in DOMAIN orig.containers
      BY <1>1, <2>2 DEF SamePod
    <3>2. p.containers[i].env \in Seq(Entry)
      BY <3>1, ContainersOf
    <3>3. EntriesOf(p.containers[i].env, {"KYMA_LANDSCAPE"}) = EntriesOf(orig.containers[i].env, {"KYMA_LANDSCAPE"})
      BY <1>6, <3>1, EnvPartsSay
    <3>4. Named(p.containers[i].env, "KYMA_LANDSCAPE") = Named(orig.containers[i].env, "KYMA_LANDSCAPE")
      BY <3>3, EntriesAgree
    <3>5. \A k, j \in Named(orig.containers[i].env, "KYMA_LANDSCAPE") : k = j
      BY <3>1 DEF Unambiguous, UniqueNames, Named
    <3>6. e \in Entry /\ e.name = "KYMA_LANDSCAPE" /\ e.value = proc.landscape
      BY VariablesAreEntries DEF Held, Landscape
    <3>7. q.containers[i].env = Upsert(p.containers[i].env, e)
      BY <2>2, <3>1
    <3> HIDE DEF e
    <3>8. Holds1(Upsert(p.containers[i].env, e), e.name, e.value)
      BY <3>2, <3>4, <3>5, <3>6, UpsertHolds1
    <3> QED BY <3>6, <3>7, <3>8
  <2> QED BY <1>6, <2>3 DEF Applied, q
<1> QED BY <1>2, <1>3, <1>4, <1>5, <1>6 DEF KnownFeatureKeys

-----------------------------------------------------------------------------
(***************************************************************************)
(* The inductive invariant.  What belongs to a feature is as it was sent   *)
(* until its defaulter has its turn, and what that one has made of it      *)
(* stays, since no other defaulter touches the part.                       *)
(***************************************************************************)
\* The hash is that of the bundle the watcher is set up for; a process that may set
\* the landscape knows one.
ProcessSafe ==
    process # Down =>
      /\ process.hash # NoHash => process.hash[1] = process.watched
      /\ "set-landscape" \in process.features => process.landscape # NoLandscape

HashKnown(w) == w.process.hash # NoHash => w.process.hash[1] = w.process.watched

\* The defaulters that have not had their turn find their part as it was sent.
Untouched(r) ==
    \A i \in Entries : r.next <= i => Part(DefaulterEntries[i], r.pod) = Part(DefaulterEntries[i], r.orig)

\* What differs was requested.
Justified(r) ==
    \A f \in KnownFeatureKeys : Part(f, r.pod) # Part(f, r.orig) =>
        \E w \in r.worlds : /\ f \in w.process.features
                            /\ Readable(w.config)
                            /\ Requested(f, r, w.config)

\* What differs was reported.
Reported(r) == ~r.defaulted => r.pod = r.orig

\* No container is told an empty landscape.
Spared(r) ==
    \A i \in DOMAIN r.pod.containers :
        ToldNoLandscape(r.pod.containers[i]) => ToldNoLandscape(r.orig.containers[i])

\* A hash comes with the volume of the configuration it was stamped with.
Stamped(r) ==
    r.pod.hash # r.orig.hash =>
        \E w \in r.worlds :
            /\ Readable(w.config)
            /\ r.pod.hash # NoHash /\ w.process.hash = r.pod.hash
            /\ w.config.mapping # NoMapping =>
                 \E i \in DOMAIN r.pod.volumes : r.pod.volumes[i] = Volume(w.config.mapping)

\* The defaulters that have had their turn have applied what every world asks for.
AskedThroughout(f, r) ==
    \A w \in r.worlds : f \in w.process.features /\ Readable(w.config) /\ Requested(f, r, w.config)
Done(r) ==
    Unambiguous(r.orig) => \A i \in Entries :
        i < r.next /\ AskedThroughout(DefaulterEntries[i], r) =>
            \E w \in r.worlds : Applied(DefaulterEntries[i], r.orig, r.pod, w.config, w.process)

RequestSafe(r) ==
    /\ SamePod(r.orig, r.pod)
    /\ \A w \in r.worlds : HashKnown(w)
    /\ Untouched(r)
    /\ Justified(r)
    /\ Reported(r)
    /\ Spared(r)
    /\ Stamped(r)
    /\ Done(r)

RequestInv == request # Nothing => World(configMap, process) \in request.worlds /\ RequestSafe(request)

\* A request that begins.
LEMMA FreshIsSafe ==
    ASSUME NEW r \in Request, r.pod = r.orig, r.next = 1, \A w \in r.worlds : HashKnown(w)
    PROVE  RequestSafe(r)
<1>1. r.orig \in Pod
  BY RequestFields
<1>2. SamePod(r.orig, r.pod)
  BY <1>1 DEF SamePod
<1>3. Untouched(r) /\ Justified(r) /\ Reported(r) /\ Spared(r) /\ Stamped(r)
  BY DEF Untouched, Justified, Reported, Spared, Stamped
<1>4. Done(r)
  BY DEF Done, Entries
<1> QED BY <1>2, <1>3, <1>4 DEF RequestSafe

\* A request that sees one more world.
LEMMA ChangeKeepsSafe ==
    ASSUME NEW r \in Request, NEW s \in Request, RequestSafe(r), NEW w, HashKnown(w),
           s.orig = r.orig, s.pod = r.pod, s.nsAnnotations = r.nsAnnotations, s.next = r.next,
           s.defaulted = r.defaulted, s.worlds = r.worlds \cup {w}
    PROVE  RequestSafe(s)
<1>1. /\ SamePod(s.orig, s.pod) /\ \A v \in s.worlds : HashKnown(v)
      /\ Untouched(s) /\ Reported(s) /\ Spared(s) /\ Stamped(s)
  BY DEF RequestSafe, Untouched, Reported, Spared, Stamped
<1>2. \A f, c : Requested(f, s, c) <=> Requested(f, r, c)
  BY DEF Requested
<1>3. Justified(s)
  BY <1>2 DEF RequestSafe, Justified
<1>4. \A f : AskedThroughout(f, s) => AskedThroughout(f, r)
  BY <1>2 DEF AskedThroughout
<1>5. Done(s)
  BY <1>4 DEF RequestSafe, Done
<1> QED BY <1>1, <1>3, <1>5 DEF RequestSafe

\* The request of the next state, in the words of this one.
LEMMA RunFrame ==
    ASSUME TypeOK, NEW i \in Entries, RunDefaulter(i), RequestInv
    PROVE  LET f == DefaulterEntries[i]
           IN  /\ request.pod \in Pod /\ request'.pod \in Pod /\ request.orig \in Pod
               /\ SamePod(request.orig, request.pod) /\ SamePod(request.pod, request'.pod)
               /\ SamePod(request.orig, request'.pod)
               /\ \A g \in KnownFeatureKeys \ {f} : Part(g, request'.pod) = Part(g, request.pod)
               /\ Part(f, request.pod) = Part(f, request.orig)
               /\ ~OptedIn(f, request.pod, request.nsAnnotations, configMap) => request'.pod = request.pod
               /\ request'.pod # request.pod => request'.defaulted
               /\ \A c : OptedIn(f, request.pod, request.nsAnnotations, c) <=> Requested(f, request, c)
               /\ \A g, c : Requested(g, request', c) <=> Requested(g, request, c)
               /\ World(configMap, process) \in request.worlds
<1> DEFINE f == DefaulterEntries[i]
<1>1. /\ request \in Request /\ request # Nothing /\ f \in KnownFeatureKeys
      /\ Decoded(configMap) /\ Held(process) /\ request.next <= i
      /\ request'.orig = request.orig /\ request'.nsAnnotations = request.nsAnnotations
      /\ request'.pod = Default(f, request.pod, request.nsAnnotations, configMap, process)
      /\ request'.defaulted = (\/ request.defaulted
                               \/ Modifies(f, request.pod, request.nsAnnotations, configMap, process))
      /\ SamePod(request.pod, request'.pod)
  BY RunSays
<1>2. request.pod \in Pod /\ request'.pod \in Pod /\ request.orig \in Pod
  BY <1>1, RequestFields DEF SamePod
<1>3. /\ SamePod(request.orig, request.pod) /\ Untouched(request)
      /\ World(configMap, process) \in request.worlds
  BY <1>1 DEF RequestInv, RequestSafe
<1>4. SamePod(request.orig, request'.pod)
  BY <1>1, <1>3 DEF SamePod
<1>5. Part(f, request.pod) = Part(f, request.orig)
  BY <1>1, <1>3 DEF Untouched
<1>6. \A c : OptedIn(f, request.pod, request.nsAnnotations, c) <=> Requested(f, request, c)
  BY <1>1, <1>3, OptedInIsRequested
<1>7. \A g, c : Requested(g, request', c) <=> Requested(g, request, c)
  BY <1>1 DEF Requested
<1> HIDE DEF f
<1>8. /\ ~Modifies(f, request.pod, request.nsAnnotations, configMap, process) => request'.pod = request.pod
      /\ ~OptedIn(f, request.pod, request.nsAnnotations, configMap) => request'.pod = request.pod
      /\ \A g \in KnownFeatureKeys \ {f} : Part(g, request'.pod) = Part(g, request.pod)
  BY <1>1, <1>2, DefaultIs
<1> QED BY <1>1, <1>2, <1>3, <1>4, <1>5, <1>6, <1>7, <1>8 DEF f

\* Untouched and Justified, of the next state.
LEMMA RunKeepsParts ==
    ASSUME TypeOK, NEW i \in Entries, RunDefaulter(i), RequestInv
    PROVE  Untouched(request)' /\ Justified(request)' /\ Reported(request)'
<1> DEFINE f == DefaulterEntries[i]
<1>1. /\ request \in Request /\ request # Nothing /\ f \in KnownFeatureKeys /\ f \in process.features
      /\ Readable(configMap) /\ request.next <= i /\ request'.next = i + 1
      /\ request'.orig = request.orig /\ request'.worlds = request.worlds
      /\ request'.defaulted = (\/ request.defaulted
                               \/ Modifies(f, request.pod, request.nsAnnotations, configMap, process))
  BY RunSays
<1>2. Untouched(request) /\ Justified(request) /\ Reported(request)
  BY <1>1 DEF RequestInv, RequestSafe
<1>3. /\ \A g \in KnownFeatureKeys \ {f} : Part(g, request'.pod) = Part(g, request.pod)
      /\ ~OptedIn(f, request.pod, request.nsAnnotations, configMap) => request'.pod = request.pod
      /\ request'.pod # request.pod => request'.defaulted
      /\ OptedIn(f, request.pod, request.nsAnnotations, configMap) <=> Requested(f, request, configMap)
      /\ \A g, c : Requested(g, request', c) <=> Requested(g, request, c)
      /\ World(configMap, process) \in request.worlds
  BY RunFrame
<1>4. Untouched(request)'
  <2>1. ASSUME NEW j \in Entries, request'.next <= j
        PROVE  Part(DefaulterEntries[j], request'.pod) = Part(DefaulterEntries[j], request'.orig)
    <3>1. j # i /\ request.next <= j
      <4>1. request.next \in Int
        BY <1>1, RequestFields
      <4> QED BY <1>1, <2>1, <4>1 DEF Entries
    <3>2. DefaulterEntries[j] \in KnownFeatureKeys \ {f}
      BY <3>1, EntriesAreKeys
    <3>3. Part(DefaulterEntries[j], request.pod) = Part(DefaulterEntries[j], request.orig)
      BY <1>2, <3>1 DEF Untouched
    <3> QED BY <1>1, <1>3, <3>2, <3>3
  <2> QED BY <2>1 DEF Untouched
<1>5. Justified(request)'
  <2>1. ASSUME NEW g \in KnownFeatureKeys, Part(g, request'.pod) # Part(g, request'.orig)
        PROVE  \E w \in request'.worlds : /\ g \in w.process.features
                                          /\ Readable(w.config)
                                          /\ Requested(g, request', w.config)
    <3>1. CASE Part(g, request.pod) # Part(g, request.orig)
      BY <1>1, <1>2, <1>3, <3>1 DEF Justified
    <3>2. CASE Part(g, request.pod) = Part(g, request.orig)
      <4>1. g = f /\ OptedIn(f, request.pod, request.nsAnnotations, configMap)
        BY <1>1, <1>3, <2>1, <3>2
      <4>2. /\ World(configMap, process).config = configMap
            /\ World(configMap, process).process = process
        BY DEF World
      <4> QED BY <1>1, <1>3, <4>1, <4>2
    <3> QED BY <3>1, <3>2
  <2> QED BY <2>1 DEF Justified
<1>6. Reported(request)'
  BY <1>1, <1>2, <1>3 DEF Reported
<1> QED BY <1>4, <1>5, <1>6

\* An empty landscape is one of the entries of the landscape.
LEMMA ToldIsEntry ==
    ASSUME NEW p \in Pod, NEW q \in Pod, SamePod(p, q), NEW i \in DOMAIN p.containers,
           Part("set-landscape", q) = Part("set-landscape", p), ToldNoLandscape(q.containers[i])
    PROVE  ToldNoLandscape(p.containers[i])
<1>1. EntriesOf(q.containers[i].env, {"KYMA_LANDSCAPE"}) = EntriesOf(p.containers[i].env, {"KYMA_LANDSCAPE"})
  BY EnvPartsSay
<1>2. PICK j \in DOMAIN q.containers[i].env : q.containers[i].env[j] = Landscape(NoLandscape)
  BY DEF ToldNoLandscape
<1>3. j \in Named(q.containers[i].env, "KYMA_LANDSCAPE")
  BY <1>2, VariablesAreEntries, TextAssumption DEF Named
<1>4. j \in Named(p.containers[i].env, "KYMA_LANDSCAPE") /\ p.containers[i].env[j] = q.containers[i].env[j]
  BY <1>1, <1>3, EntriesAgree
<1> QED BY <1>2, <1>4 DEF ToldNoLandscape, Named

\* Spared, of the next state: the landscape that is set is not empty.
LEMMA RunKeepsSpared ==
    ASSUME TypeOK, NEW i \in Entries, RunDefaulter(i), RequestInv, ProcessSafe
    PROVE  Spared(request)'
<1> DEFINE f == DefaulterEntries[i]
<1>1. /\ request # Nothing /\ f \in KnownFeatureKeys /\ f \in process.features
      /\ process \in Process /\ Held(process)
      /\ request'.orig = request.orig
      /\ request'.pod = Default(f, request.pod, request.nsAnnotations, configMap, process)
  BY RunSays
<1>2. Spared(request)
  BY <1>1 DEF RequestInv, RequestSafe
<1>3. /\ request.pod \in Pod /\ request'.pod \in Pod /\ SamePod(request.pod, request'.pod)
      /\ \A g \in KnownFeatureKeys \ {f} : Part(g, request'.pod) = Part(g, request.pod)
      /\ ~OptedIn(f, request.pod, request.nsAnnotations, configMap) => request'.pod = request.pod
  BY RunFrame
<1> HIDE DEF f
<1>4. ASSUME NEW k \in DOMAIN request.pod.containers, ToldNoLandscape(request'.pod.containers[k])
      PROVE  ToldNoLandscape(request.pod.containers[k])
  <2>1. CASE f # "set-landscape"
    <3>1. Part("set-landscape", request'.pod) = Part("set-landscape", request.pod)
      BY <1>3, <2>1 DEF KnownFeatureKeys
    <3> QED BY <1>3, <1>4, <3>1, ToldIsEntry
  <2>2. CASE f = "set-landscape" /\ OptedIn(f, request.pod, request.nsAnnotations, configMap)
    <3> DEFINE s == request.pod.containers[k].env
    <3> DEFINE e == Landscape(process.landscape)
    <3>1. request'.pod = SetLandscape(request.pod, process.landscape)
      BY <1>1, <2>2, DefaultBy
    <3>2. request'.pod.containers[k].env = Upsert(s, e)
      BY <1>1, <1>3, <3>1, SetLandscapeIs DEF Held
    <3>3. s \in Seq(Entry) /\ e \in Entry
      BY <1>1, <1>3, ContainersOf, VariablesAreEntries DEF Held
    <3>4. e # Landscape(NoLandscape)
      <4>1. process.landscape # NoLandscape
        BY <1>1, <2>2, AbsenceAssumption DEF ProcessSafe
      <4>2. e.value = process.landscape /\ Landscape(NoLandscape).value = NoLandscape
        BY DEF Landscape
      <4> QED BY <4>1, <4>2
    <3>5. PICK j \in DOMAIN Upsert(s, e) : Upsert(s, e)[j] = Landscape(NoLandscape)
      BY <1>4, <3>2 DEF ToldNoLandscape
    <3> HIDE DEF s, e
    <3>6. PICK m \in DOMAIN Upsert(s, e) :
            /\ Upsert(s, e)[m] = e
            /\ \A n \in DOMAIN Upsert(s, e) : n # m => n \in DOMAIN s /\ Upsert(s, e)[n] = s[n]
      BY <3>3, UpsertIs
    <3>7. j # m
      BY <3>4, <3>5, <3>6
    <3>8. j \in DOMAIN s /\ s[j] = Landscape(NoLandscape)
      BY <3>5, <3>6, <3>7
    <3> QED BY <3>8 DEF ToldNoLandscape, s
  <2>3. CASE ~OptedIn(f, request.pod, request.nsAnnotations, configMap)
    BY <1>3, <1>4, <2>3
  <2> QED BY <2>1, <2>2, <2>3
<1> QED BY <1>1, <1>2, <1>3, <1>4 DEF Spared, SamePod

\* Stamped, of the next state: the hash and the volume come from one configuration.
LEMMA RunKeepsStamped ==
    ASSUME TypeOK, NEW i \in Entries, RunDefaulter(i), RequestInv
    PROVE  Stamped(request)'
<1> DEFINE f == DefaulterEntries[i]
<1>1. /\ request # Nothing /\ f \in KnownFeatureKeys
      /\ Readable(configMap) /\ Decoded(configMap) /\ process \in Process /\ Held(process)
      /\ request'.orig = request.orig /\ request'.worlds = request.worlds
      /\ request'.pod = Default(f, request.pod, request.nsAnnotations, configMap, process)
  BY RunSays
<1>2. Stamped(request)
  BY <1>1 DEF RequestInv, RequestSafe
<1>3. /\ request.pod \in Pod /\ request'.pod \in Pod /\ request.orig \in Pod
      /\ SamePod(request.orig, request.pod) /\ SamePod(request.pod, request'.pod)
      /\ Part(f, request.pod) = Part(f, request.orig)
      /\ \A g \in KnownFeatureKeys \ {f} : Part(g, request'.pod) = Part(g, request.pod)
      /\ ~OptedIn(f, request.pod, request.nsAnnotations, configMap) => request'.pod = request.pod
      /\ World(configMap, process) \in request.worlds
  BY RunFrame
<1> HIDE DEF f
<1>4. CASE f # "add-cluster-trust-bundle"
  <2>1. Part("add-cluster-trust-bundle", request'.pod) = Part("add-cluster-trust-bundle", request.pod)
    BY <1>3, <1>4 DEF KnownFeatureKeys
  <2>2. request'.pod.hash = request.pod.hash /\ request'.pod.volumes = request.pod.volumes
    BY <1>3, <2>1, PartsSay
  <2> QED BY <1>1, <1>2, <2>2 DEF Stamped
<1>5. CASE ~OptedIn(f, request.pod, request.nsAnnotations, configMap)
  BY <1>1, <1>2, <1>3, <1>5 DEF Stamped
<1>6. CASE f = "add-cluster-trust-bundle" /\ OptedIn(f, request.pod, request.nsAnnotations, configMap)
  <2>1. request'.pod = AddClusterTrustBundle(request.pod, configMap, process.hash)
    BY <1>1, <1>6, DefaultBy
  <2>2. /\ request'.pod.hash = IF process.hash = NoHash THEN request.pod.hash ELSE process.hash
        /\ configMap.mapping # NoMapping =>
             request'.pod.volumes = Upsert(request.pod.volumes, Volume(configMap.mapping))
    <3>1. process.hash \in Hash \cup {NoHash}
      BY <1>1 DEF Held
    <3> QED BY <1>1, <1>3, <2>1, <3>1, AddClusterTrustBundleIs
  <2>3. request.pod.hash = request.orig.hash
    BY <1>3, <1>6, PartsSay
  <2>4. configMap.mapping # NoMapping =>
          \E k \in DOMAIN request'.pod.volumes : request'.pod.volumes[k] = Volume(configMap.mapping)
    <3>1. ASSUME configMap.mapping # NoMapping
          PROVE  \E k \in DOMAIN Upsert(request.pod.volumes, Volume(configMap.mapping)) :
                   Upsert(request.pod.volumes, Volume(configMap.mapping))[k] = Volume(configMap.mapping)
      <4> DEFINE e == Volume(configMap.mapping)
      <4> DEFINE s == request.pod.volumes
      <4>1. e \in Entry
        BY <1>1, <3>1 DEF Decoded, Volume, Entry, Mapping
      <4>2. s \in Seq(Entry)
        BY <1>3 DEF Pod
      <4> HIDE DEF e, s
      <4>3. \E k \in DOMAIN Upsert(s, e) : Upsert(s, e)[k] = e
        BY <4>1, <4>2, UpsertIs
      <4> QED BY <4>3 DEF e, s
    <3> QED BY <2>2, <3>1
  <2>5. ASSUME process.hash # NoHash
        PROVE  \E w \in request'.worlds :
                 /\ Readable(w.config)
                 /\ request'.pod.hash # NoHash /\ w.process.hash = request'.pod.hash
                 /\ w.config.mapping # NoMapping =>
                      \E k \in DOMAIN request'.pod.volumes : request'.pod.volumes[k] = Volume(w.config.mapping)
    <3>1. /\ World(configMap, process).config = configMap
          /\ World(configMap, process).process = process
      BY DEF World
    <3>2. request'.pod.hash = process.hash
      BY <2>2, <2>5
    <3>3. World(configMap, process) \in request'.worlds
      BY <1>1, <1>3
    <3> WITNESS World(configMap, process) \in request'.worlds
    <3> QED BY <1>1, <2>4, <2>5, <3>1, <3>2
  <2>6. process.hash = NoHash => request'.pod.hash = request'.orig.hash
    BY <1>1, <2>2, <2>3
  <2> QED BY <2>5, <2>6 DEF Stamped
<1> QED BY <1>4, <1>5, <1>6

\* Done, of the next state: one more has had its turn.
LEMMA RunKeepsDone ==
    ASSUME TypeOK, NEW i \in Entries, RunDefaulter(i), RequestInv
    PROVE  Done(request)'
<1> DEFINE f == DefaulterEntries[i]
<1>1. /\ request \in Request /\ request # Nothing /\ f \in KnownFeatureKeys
      /\ Readable(configMap) /\ Decoded(configMap) /\ Held(process)
      /\ request'.next = i + 1
      /\ \A j \in Entries : request.next <= j /\ j < i => DefaulterEntries[j] \notin process.features
      /\ request'.orig = request.orig /\ request'.worlds = request.worlds
      /\ request'.pod = Default(f, request.pod, request.nsAnnotations, configMap, process)
  BY RunSays
<1>2. Done(request)
  BY <1>1 DEF RequestInv, RequestSafe
<1>3. /\ request.pod \in Pod /\ request'.pod \in Pod /\ request.orig \in Pod
      /\ SamePod(request.orig, request.pod) /\ SamePod(request.pod, request'.pod)
      /\ Part(f, request.pod) = Part(f, request.orig)
      /\ \A g \in KnownFeatureKeys \ {f} : Part(g, request'.pod) = Part(g, request.pod)
      /\ OptedIn(f, request.pod, request.nsAnnotations, configMap) <=> Requested(f, request, configMap)
      /\ \A g, c : Requested(g, request', c) <=> Requested(g, request, c)
      /\ World(configMap, process) \in request.worlds
  BY RunFrame
<1>4. /\ World(configMap, process).config = configMap
      /\ World(configMap, process).process = process
  BY DEF World
<1>5. SUFFICES ASSUME Unambiguous(request.orig), NEW j \in Entries, j < i + 1,
                      AskedThroughout(DefaulterEntries[j], request)
               PROVE  \E w \in request.worlds :
                        Applied(DefaulterEntries[j], request.orig, request'.pod, w.config, w.process)
  <2>1. \A g : AskedThroughout(g, request') <=> AskedThroughout(g, request)
    BY <1>1, <1>3 DEF AskedThroughout
  <2> QED BY <1>1, <2>1 DEF Done
<1>6. /\ DefaulterEntries[j] \in process.features
      /\ Requested(DefaulterEntries[j], request, configMap)
  BY <1>3, <1>4, <1>5 DEF AskedThroughout
<1>7. CASE j = i
  <2>1. Applied(f, request.orig, request'.pod, configMap, process)
    <3>1. OptedIn(f, request.pod, request.nsAnnotations, configMap)
      BY <1>3, <1>6, <1>7
    <3> HIDE DEF f
    <3> QED BY <1>1, <1>3, <1>5, <3>1, DefaultApplies
  <2> QED BY <1>3, <1>4, <1>7, <2>1
<1>8. CASE j # i
  <2>1. j < request.next
    <3>1. request.next \in Int
      BY <1>1, RequestFields
    <3> QED BY <1>1, <1>5, <1>6, <1>8, <3>1 DEF Entries
  <2>2. PICK w \in request.worlds :
          Applied(DefaulterEntries[j], request.orig, request.pod, w.config, w.process)
    BY <1>2, <1>5, <2>1 DEF Done
  <2>3. DefaulterEntries[j] \in KnownFeatureKeys \ {f}
    BY <1>8, EntriesAreKeys
  <2>4. Part(DefaulterEntries[j], request'.pod) = Part(DefaulterEntries[j], request.pod)
    BY <1>3, <2>3
  <2>5. Applied(DefaulterEntries[j], request.orig, request'.pod, w.config, w.process)
    <3> DEFINE g == DefaulterEntries[j]
    <3> HIDE DEF f
    <3>1. /\ g \in KnownFeatureKeys /\ Part(g, request'.pod) = Part(g, request.pod)
          /\ Applied(g, request.orig, request.pod, w.config, w.process)
      BY <2>2, <2>3, <2>4
    <3> HIDE DEF g
    <3>2. Applied(g, request.orig, request'.pod, w.config, w.process)
      BY <1>3, <3>1, AppliedLasts
    <3> QED BY <3>2 DEF g
  <2> QED BY <2>5
<1> QED BY <1>7, <1>8

\* What an answer has seen is what its request has.
AnswerInv == Answered => \A w \in reply.worlds : HashKnown(w)

AdmissionInv == TypeOK /\ ProcessSafe /\ RequestInv /\ AnswerInv

\* The world of a process is one whose hash is known.
LEMMA WorldIsKnown ==
    ASSUME NEW c, NEW proc, proc.hash # NoHash => proc.hash[1] = proc.watched
    PROVE  HashKnown(World(c, proc))
  BY DEF HashKnown, World

\* A request that is received or repeated.
LEMMA BeginKeepsInv ==
    ASSUME AdmissionInv, NEW p \in Pod, NEW worlds \in SUBSET Worlds, NEW again \in BOOLEAN,
           \A w \in worlds : HashKnown(w), Begin(p, worlds, again)
    PROVE  ProcessSafe' /\ RequestInv' /\ AnswerInv'
<1>0. TypeOK
  BY DEF AdmissionInv
<1>1. /\ process \in Process /\ request = Nothing
      /\ configMap' = configMap /\ cached' = cached /\ process' = process /\ edits' = edits
      /\ \/ request' = Nothing /\ reply' = Denied
         \/ /\ reply' = Nothing
            /\ request' \in Request
            /\ request'.orig = p /\ request'.pod = p
            /\ request'.nsAnnotations = cached[p.ns]
            /\ request'.next = 1 /\ request'.defaulted = FALSE /\ request'.again = again
            /\ request'.worlds = worlds \cup {World(configMap, process)}
  BY <1>0, BeginSays, ZenonT(60)
<1>2. ProcessSafe'
  BY <1>1 DEF AdmissionInv, ProcessSafe
<1>3. HashKnown(World(configMap, process))
  BY <1>1, AbsenceAssumption, WorldIsKnown DEF AdmissionInv, ProcessSafe
<1>4. ASSUME request' # Nothing
      PROVE  World(configMap, process) \in request'.worlds /\ RequestSafe(request')
  <2>1. \A w \in request'.worlds : HashKnown(w)
    BY <1>1, <1>3, <1>4
  <2> QED BY <1>1, <1>4, <2>1, FreshIsSafe
<1>5. RequestInv'
  BY <1>1, <1>4 DEF RequestInv, RequestSafe, SamePod, HashKnown, Untouched, Justified, Reported,
     Spared, Stamped, Done, AskedThroughout, World
<1>6. AnswerInv'
  BY <1>1 DEF AnswerInv, Answered
<1> QED BY <1>2, <1>5, <1>6

\* Every step keeps the invariant: one case for the changes, one for each operation.
LEMMA StepKeepsInv ==
    ASSUME AdmissionInv, [Next]_vars
    PROVE  ProcessSafe' /\ RequestInv' /\ AnswerInv'
<1> USE DEF AdmissionInv
<1>1. CASE \/ \E c \in Configs \cup {Unreadable} : EditConfig(c)
           \/ \E n \in Namespaces, a \in NsLayers \cup {NotCached} : SeeNamespace(n, a)
           \/ \E b \in Bundles, v \in Contents : UpdateHash(b, v)
  <2>1. /\ process = Down <=> process' = Down
        /\ process # Down => /\ process'.features = process.features
                             /\ process'.watched = process.watched
                             /\ process'.landscape = process.landscape
        /\ process' # process => process'.hash[1] = process.watched
        /\ reply' = reply
    BY <1>1, ChangeSays
  <2>2. /\ request = Nothing => request' = Nothing
        /\ request # Nothing =>
             /\ request \in Request /\ request' \in Request
             /\ request'.orig = request.orig /\ request'.pod = request.pod
             /\ request'.nsAnnotations = request.nsAnnotations
             /\ request'.next = request.next /\ request'.defaulted = request.defaulted
             /\ request'.worlds = request.worlds \cup {World(configMap', process')}
    BY <1>1, ChangeSays
  <2>3. ProcessSafe'
    BY <2>1 DEF ProcessSafe
  <2>4. AnswerInv'
    BY <2>1 DEF AnswerInv, Answered
  <2>5. ASSUME request' # Nothing
        PROVE  World(configMap', process') \in request'.worlds /\ RequestSafe(request')
    <3>1. request # Nothing /\ process' # Down
      BY <2>1, <2>2, <2>5 DEF TypeOK
    <3>2. HashKnown(World(configMap', process'))
      BY <2>3, <3>1, WorldIsKnown DEF ProcessSafe
    <3>3. RequestSafe(request)
      BY <3>1 DEF RequestInv
    <3>4. RequestSafe(request')
      BY <2>2, <3>1, <3>2, <3>3, ChangeKeepsSafe
    <3> QED BY <2>2, <3>1, <3>4
  <2>6. RequestInv'
    BY <2>5 DEF RequestInv, RequestSafe, SamePod, HashKnown, Untouched, Justified, Reported,
       Spared, Stamped, Done, AskedThroughout, World
  <2> QED BY <2>3, <2>4, <2>6
<1>2. CASE \E landscape \in Landscapes : Boot(landscape)
  <2>1. PICK landscape \in Landscapes : Boot(landscape)
    BY <1>2
  <2>2. /\ request = Nothing /\ request' = request /\ reply' = reply
        /\ process'.landscape = landscape
        /\ process'.hash # NoHash => process'.hash[1] = process'.watched
        /\ "set-landscape" \in process'.features => landscape # NoLandscape
    BY <2>1, BootSays
  <2> QED BY <2>2 DEF ProcessSafe, RequestInv, AnswerInv, Answered
<1>3. CASE Stop
  BY <1>3 DEF Stop, ProcessSafe, RequestInv, AnswerInv, Answered
<1>4. CASE \E p \in Templates : Receive(p)
  <2>1. PICK p \in Templates : Begin(p, {}, FALSE)
    BY <1>4 DEF Receive
  <2>2. p \in Pod /\ {} \in SUBSET Worlds
    BY InputAssumption
  <2> QED BY <2>1, <2>2, BeginKeepsInv
<1>5. CASE Resubmit
  <2>1. /\ reply # Nothing /\ reply # Denied
        /\ reply.pod \in Pod /\ reply.worlds \in SUBSET Worlds
        /\ Begin(reply.pod, reply.worlds, TRUE)
    BY <1>5, ResubmitSays
  <2>2. \A w \in reply.worlds : HashKnown(w)
    BY <2>1 DEF AnswerInv, Answered
  <2> QED BY <2>1, <2>2, BeginKeepsInv
<1>6. CASE \E i \in Entries : RunDefaulter(i)
  <2>1. PICK i \in Entries : RunDefaulter(i)
    BY <1>6
  <2>2. /\ request # Nothing /\ configMap' = configMap /\ process' = process /\ reply' = reply
        /\ request'.orig = request.orig /\ request'.worlds = request.worlds
    BY <2>1, RunSays
  <2>3. Untouched(request)' /\ Justified(request)' /\ Reported(request)'
    BY <2>1, RunKeepsParts
  <2>4. Spared(request)' /\ Stamped(request)' /\ Done(request)'
    BY <2>1, RunKeepsSpared, RunKeepsStamped, RunKeepsDone
  <2>5. SamePod(request.orig, request.pod)'
    <3>1. SamePod(request.orig, request'.pod)
      BY <2>1, RunFrame
    <3> QED BY <2>2, <3>1 DEF SamePod
  <2>6. (\A w \in request.worlds : HashKnown(w))'
    BY <2>2 DEF RequestInv, RequestSafe, HashKnown
  <2>7. RequestInv'
    BY <2>2, <2>3, <2>4, <2>5, <2>6 DEF RequestInv, RequestSafe, World
  <2> QED BY <2>2, <2>7 DEF ProcessSafe, AnswerInv, Answered
<1>7. CASE Deny
  BY <1>7 DEF Deny, ProcessSafe, RequestInv, AnswerInv, Answered
<1>8. CASE Respond
  <2>1. /\ request # Nothing /\ request' = Nothing /\ process' = process
        /\ reply'.worlds = request.worlds
    BY <1>8, RespondSays
  <2> QED BY <2>1 DEF ProcessSafe, RequestInv, RequestSafe, AnswerInv, HashKnown
<1>9. CASE UNCHANGED vars
  <2>1. ProcessSafe' /\ AnswerInv'
    BY <1>9 DEF vars, ProcessSafe, AnswerInv, Answered
  <2>2. RequestInv'
    BY <1>9 DEF vars, RequestInv, RequestSafe, SamePod, HashKnown, Untouched, Justified, Reported,
       Spared, Stamped, Done, AskedThroughout, World
  <2> QED BY <2>1, <2>2
<1> QED BY <1>1, <1>2, <1>3, <1>4, <1>5, <1>6, <1>7, <1>8, <1>9 DEF Next

\* The invariant holds at the start and for good.
LEMMA Invariance == Spec => []AdmissionInv
<1>1. Init => ProcessSafe /\ RequestInv /\ AnswerInv
  BY DEF Init, ProcessSafe, RequestInv, AnswerInv, Answered
<1>2. AdmissionInv /\ [Next]_vars => ProcessSafe' /\ RequestInv' /\ AnswerInv'
  BY StepKeepsInv
<1> QED BY <1>1, <1>2, TypeCorrect, PTL DEF Spec, AdmissionInv

-----------------------------------------------------------------------------
(***************************************************************************)
(* The properties.  An answer is the last state of a request, marked.      *)
(***************************************************************************)
\* An answer there is was there before, or is made now.
LEMMA AnswerStep ==
    ASSUME TypeOK, [Next]_vars, Answered'
    PROVE  reply' = reply \/ Respond
<1>1. CASE \/ \E c \in Configs \cup {Unreadable} : EditConfig(c)
           \/ \E n \in Namespaces, a \in NsLayers \cup {NotCached} : SeeNamespace(n, a)
           \/ \E b \in Bundles, v \in Contents : UpdateHash(b, v)
  BY <1>1, ChangeSays
<1>2. CASE \E landscape \in Landscapes : Boot(landscape)
  BY <1>2 DEF Boot
<1>3. CASE Stop \/ Deny
  BY <1>3 DEF Stop, Deny, Answered
<1>4. CASE (\E p \in Templates : Receive(p)) \/ Resubmit
  BY <1>4 DEF Receive, Resubmit, Begin, Answered
<1>5. CASE \E i \in Entries : RunDefaulter(i)
  BY <1>5 DEF RunDefaulter
<1>6. CASE UNCHANGED vars
  BY <1>6 DEF vars
<1> QED BY <1>1, <1>2, <1>3, <1>4, <1>5, <1>6 DEF Next

\* The answer that is made, in the words of the request.
LEMMA AnswerSays ==
    ASSUME AdmissionInv, Respond
    PROVE  /\ request \in Request /\ process \in Process
           /\ RequestSafe(request) /\ World(configMap, process) \in request.worlds
           /\ request.pod \in Pod /\ reply'.pod \in Pod
           /\ reply'.orig = request.orig /\ reply'.pod = Mark(request)
           /\ reply'.worlds = request.worlds /\ reply'.again = request.again
           /\ reply'.nsAnnotations = request.nsAnnotations
           /\ reply'.pod.containers = request.pod.containers
           /\ reply'.pod.hash = request.pod.hash /\ reply'.pod.volumes = request.pod.volumes
           /\ \A f \in KnownFeatureKeys : Part(f, reply'.pod) = Part(f, request.pod)
           /\ \A f, c : Requested(f, reply', c) <=> Requested(f, request, c)
<1>1. /\ request # Nothing /\ request \in Request /\ process \in Process
      /\ reply'.orig = request.orig /\ reply'.pod = Mark(request)
      /\ reply'.worlds = request.worlds /\ reply'.again = request.again
      /\ reply'.nsAnnotations = request.nsAnnotations
  BY RespondSays DEF AdmissionInv
<1>2. RequestSafe(request) /\ World(configMap, process) \in request.worlds
  BY <1>1 DEF AdmissionInv, RequestInv
<1>3. /\ Mark(request) \in Pod
      /\ Mark(request).hash = request.pod.hash /\ Mark(request).secrets = request.pod.secrets
      /\ Mark(request).volumes = request.pod.volumes
      /\ Mark(request).containers = request.pod.containers
  BY <1>1, MarkIs
<1>4. \A f \in KnownFeatureKeys : Part(f, Mark(request)) = Part(f, request.pod)
  BY <1>3 DEF Part, EnvOf, KnownFeatureKeys
<1>5. \A f, c : Requested(f, reply', c) <=> Requested(f, request, c)
  BY <1>1 DEF Requested
<1> QED BY <1>1, <1>2, <1>3, <1>4, <1>5, RequestFields

\* Nothing is done to a pod that no configuration of its time asks for (NothingUnrequested;
\* the layers at pod_defaulters.go:37-57, the fixed order at pod_webhook.go:45-67): neither
\* by a defaulter of another feature nor by one that reads another configuration.
THEOREM Unrequested == Spec => []NothingUnrequested
<1>1. Init => NothingUnrequested
  BY DEF Init, NothingUnrequested, Answered
<1>2. AdmissionInv /\ NothingUnrequested /\ [Next]_vars => NothingUnrequested'
  <2> SUFFICES ASSUME AdmissionInv, NothingUnrequested, [Next]_vars, Answered'
               PROVE  NothingUnrequested'
    BY DEF NothingUnrequested
  <2>1. CASE reply' = reply
    BY <2>1 DEF NothingUnrequested, Answered, Requested
  <2>2. CASE Respond
    <3>1. /\ RequestSafe(request) /\ reply'.orig = request.orig /\ reply'.worlds = request.worlds
          /\ \A f \in KnownFeatureKeys : Part(f, reply'.pod) = Part(f, request.pod)
          /\ \A f, c : Requested(f, reply', c) <=> Requested(f, request, c)
      BY <2>2, AnswerSays
    <3>2. ASSUME NEW f \in KnownFeatureKeys, Part(f, reply'.pod) # Part(f, reply'.orig)
          PROVE  \E w \in reply'.worlds : /\ f \in w.process.features
                                          /\ Readable(w.config)
                                          /\ Requested(f, reply', w.config)
      BY <3>1, <3>2 DEF RequestSafe, Justified
    <3> QED BY <3>2 DEF NothingUnrequested
  <2> QED BY <2>1, <2>2, AnswerStep DEF AdmissionInv
<1> QED BY <1>1, <1>2, Invariance, PTL DEF Spec

\* A pod that opts out of the trust bundle gets none of it (OptOutRespected;
\* pod_defaulters.go:194-198), whatever else asks for it.
THEOREM OptOut == Spec => []OptOutRespected
<1>1. NothingUnrequested => OptOutRespected
  <2> SUFFICES ASSUME NothingUnrequested, Answered, CTBExplicitOptOut(reply.orig),
                      Part("add-cluster-trust-bundle", reply.pod)
                        # Part("add-cluster-trust-bundle", reply.orig)
               PROVE  FALSE
    BY DEF OptOutRespected
  <2>1. PICK w \in reply.worlds : Requested("add-cluster-trust-bundle", reply, w.config)
    BY DEF NothingUnrequested, KnownFeatureKeys
  <2> QED BY <2>1 DEF Requested, CTBExplicitOptOut
<1> QED BY <1>1, Unrequested, PTL

\* What was requested all the time is there in the answer, exactly once (RequestedApplied;
\* pod_webhook.go:180-202): later defaulters and later configurations leave it alone.
\* For pods with unambiguous names, and the trust bundle in containers that are not init
\* containers (pod_defaulters.go:154-160).
THEOREM Applies == Spec => []RequestedApplied
<1>1. Init => RequestedApplied
  BY DEF Init, RequestedApplied, Answered
<1>2. AdmissionInv /\ RequestedApplied /\ [Next]_vars => RequestedApplied'
  <2> SUFFICES ASSUME AdmissionInv, RequestedApplied, [Next]_vars, Answered'
               PROVE  RequestedApplied'
    BY DEF RequestedApplied
  <2>1. CASE reply' = reply
    BY <2>1 DEF RequestedApplied, Answered
  <2>2. CASE Respond
    <3>1. /\ RequestSafe(request) /\ request \in Request /\ World(configMap, process) \in request.worlds
          /\ request.pod \in Pod /\ reply'.pod \in Pod
          /\ reply'.orig = request.orig /\ reply'.worlds = request.worlds
          /\ reply'.pod = Mark(request)
          /\ \A f \in KnownFeatureKeys : Part(f, reply'.pod) = Part(f, request.pod)
          /\ \A f, c : Requested(f, reply', c) <=> Requested(f, request, c)
      BY <2>2, AnswerSays
    <3>2. \A j \in Entries : request.next <= j => DefaulterEntries[j] \notin process.features
      BY <2>2, RespondSays DEF AdmissionInv
    <3>3. ASSUME NEW f \in KnownFeatureKeys, Unambiguous(request.orig), AskedThroughout(f, request)
          PROVE  \E w \in request.worlds : Applied(f, request.orig, reply'.pod, w.config, w.process)
      <4>1. PICK j \in Entries : DefaulterEntries[j] = f
        BY EntriesAreKeys
      <4>2. f \in process.features
        BY <3>1, <3>3 DEF AskedThroughout, World
      <4>3. j < request.next
        <5>1. request.next \in Int
          BY <3>1, RequestFields
        <5> QED BY <3>2, <4>1, <4>2, <5>1 DEF Entries
      <4>4. PICK w \in request.worlds : Applied(f, request.orig, request.pod, w.config, w.process)
        BY <3>1, <3>3, <4>1, <4>3 DEF RequestSafe, Done
      <4>5. /\ reply'.pod.hash = request.pod.hash /\ reply'.pod.secrets = request.pod.secrets
            /\ reply'.pod.volumes = request.pod.volumes
            /\ reply'.pod.containers = request.pod.containers
        BY <3>1, MarkIs
      <4> QED BY <4>4, <4>5 DEF Applied
    <3> QED BY <3>1, <3>3 DEF RequestedApplied, AskedThroughout
  <2> QED BY <2>1, <2>2, AnswerStep DEF AdmissionInv
<1> QED BY <1>1, <1>2, Invariance, PTL DEF Spec

\* A pod that differs from what was sent says so (ChangedIsMarked; pod_webhook.go:192-211):
\* every defaulter reports what it changes, and no later one takes the report back.
THEOREM Marked == Spec => []ChangedIsMarked
<1>1. Init => ChangedIsMarked
  BY DEF Init, ChangedIsMarked, Answered
<1>2. AdmissionInv /\ ChangedIsMarked /\ [Next]_vars => ChangedIsMarked'
  <2> SUFFICES ASSUME AdmissionInv, ChangedIsMarked, [Next]_vars, Answered'
               PROVE  ChangedIsMarked'
    BY DEF ChangedIsMarked
  <2>1. CASE reply' = reply
    BY <2>1 DEF ChangedIsMarked, Answered
  <2>2. CASE Respond
    <3>1. /\ RequestSafe(request) /\ request \in Request
          /\ reply'.orig = request.orig /\ reply'.pod = Mark(request)
      BY <2>2, AnswerSays
    <3>2. CASE request.defaulted
      <4>1. Mark(request).modified = (request.pod.modified \/ request.defaulted)
        BY <3>1, MarkIs
      <4> QED BY <3>1, <3>2, <4>1 DEF ChangedIsMarked
    <3>3. CASE ~request.defaulted
      <4>1. Mark(request) = request.pod
        BY <3>1, <3>3, MarkIs
      <4> QED BY <3>1, <3>3, <4>1 DEF RequestSafe, Reported, ChangedIsMarked
    <3> QED BY <3>2, <3>3
  <2> QED BY <2>1, <2>2, AnswerStep DEF AdmissionInv
<1> QED BY <1>1, <1>2, Invariance, PTL DEF Spec

\* No container is told an empty landscape (LandscapeNeverEmpty; main.go:285-288): the
\* defaulter runs in processes only that were started with one.
THEOREM LandscapeKnown == Spec => []LandscapeNeverEmpty
<1>1. Init => LandscapeNeverEmpty
  BY DEF Init, LandscapeNeverEmpty, Answered
<1>2. AdmissionInv /\ LandscapeNeverEmpty /\ [Next]_vars => LandscapeNeverEmpty'
  <2> SUFFICES ASSUME AdmissionInv, LandscapeNeverEmpty, [Next]_vars, Answered'
               PROVE  LandscapeNeverEmpty'
    BY DEF LandscapeNeverEmpty
  <2>1. CASE reply' = reply
    BY <2>1 DEF LandscapeNeverEmpty, Answered
  <2>2. CASE Respond
    <3>1. /\ RequestSafe(request) /\ reply'.orig = request.orig
          /\ reply'.pod.containers = request.pod.containers
      BY <2>2, AnswerSays
    <3> QED BY <3>1 DEF RequestSafe, Spared, LandscapeNeverEmpty, ToldNoLandscape
  <2> QED BY <2>1, <2>2, AnswerStep DEF AdmissionInv
<1> QED BY <1>1, <1>2, Invariance, PTL DEF Spec

\* A pod that gets a hash gets that of the bundle it mounts, as long as the configuration
\* names the bundle the process watches (HashOfMounted; main.go:323, watcher.go:28).
THEOREM HashFitsVolume == Spec => []HashOfMounted
<1>1. Init => HashOfMounted
  BY DEF Init, HashOfMounted, Answered
<1>2. AdmissionInv /\ HashOfMounted /\ [Next]_vars => HashOfMounted'
  <2> SUFFICES ASSUME AdmissionInv, HashOfMounted, [Next]_vars, Answered'
               PROVE  HashOfMounted'
    BY DEF HashOfMounted
  <2>1. CASE reply' = reply
    BY <2>1 DEF HashOfMounted, Answered
  <2>2. CASE Respond
    <3>1. /\ RequestSafe(request)
          /\ reply'.orig = request.orig /\ reply'.worlds = request.worlds
          /\ reply'.pod.hash = request.pod.hash /\ reply'.pod.volumes = request.pod.volumes
      BY <2>2, AnswerSays
    <3> SUFFICES ASSUME request.pod.hash # request.orig.hash, \A w \in request.worlds : SameBundle(w)
                 PROVE  \E w \in request.worlds :
                          \E i \in DOMAIN request.pod.volumes :
                            request.pod.volumes[i] = [name  |-> w.config.mapping.volume,
                                                      value |-> request.pod.hash[1]]
      BY <3>1 DEF HashOfMounted
    <3>2. PICK w \in request.worlds :
            /\ request.pod.hash # NoHash /\ w.process.hash = request.pod.hash
            /\ w.config.mapping # NoMapping =>
                 \E i \in DOMAIN request.pod.volumes : request.pod.volumes[i] = Volume(w.config.mapping)
      BY <3>1 DEF RequestSafe, Stamped
    <3>3. /\ w.config.mapping # NoMapping
          /\ w.config.mapping.bundle = w.process.watched
      BY DEF SameBundle
    <3>4. request.pod.hash[1] = w.config.mapping.bundle
      BY <3>1, <3>2, <3>3 DEF RequestSafe, HashKnown
    <3> QED BY <3>2, <3>3, <3>4 DEF Volume
  <2> QED BY <2>1, <2>2, AnswerStep DEF AdmissionInv
<1> QED BY <1>1, <1>2, Invariance, PTL DEF Spec

-----------------------------------------------------------------------------
(***************************************************************************)
(* Calling the webhook again.                                              *)
(***************************************************************************)
\* The defaulter of f finds everything as it would make it.
Settled(f, p, c, proc) ==
    CASE f = "alter-img-registry"  -> ~AltersImgRegistry(p, c)
      [] f = "add-img-pull-secret" -> HasImagePullSecret(p)
      [] f = "add-cluster-trust-bundle" ->
           /\ proc.hash # NoHash => p.hash = proc.hash
           /\ c.mapping # NoMapping =>
                /\ ~Differs(p.volumes, Volume(c.mapping))
                /\ \A i \in DOMAIN p.containers : ~p.containers[i].init =>
                     ~Differs(p.containers[i].mounts, Mount(c.mapping))
      [] f = "set-fips-mode" -> ~SetsFipsMode(p)
      [] f = "set-landscape" -> ~SetsLandscape(p, proc.landscape)

\* What the defaulter of f reports although it changes nothing: a stamp and a mount.
Insists(f, p, c, proc) ==
    /\ f = "add-cluster-trust-bundle"
    /\ \/ proc.hash # NoHash
       \/ c.mapping # NoMapping /\ \E i \in DOMAIN p.containers : ~p.containers[i].init

\* An image is not altered twice.
LEMMA AlteredOnce ==
    ASSUME NEW image \in Image, NEW c, Decoded(c), Unchained(c)
    PROVE  AlterImage(AlterImage(image, c.overrides), c.overrides) = AlterImage(image, c.overrides)
<1> DEFINE o == c.overrides
<1>1. CASE image.registry # NoRegistry /\ image.registry \in DOMAIN o
  <2> DEFINE once == [image EXCEPT !.registry = o[image.registry]]
  <2>1. AlterImage(image, o) = once
    BY <1>1 DEF AlterImage
  <2>2. once \in Image /\ once.registry = o[image.registry]
    BY <1>1 DEF Image, Decoded
  <2>3. once.registry \in DOMAIN o => o[once.registry] = once.registry
    BY <1>1, <2>2 DEF Unchained
  <2> HIDE DEF once
  <2>4. AlterImage(once, o) = once
    BY <2>2, <2>3 DEF AlterImage, Image
  <2> QED BY <2>1, <2>4
<1>2. CASE ~(image.registry # NoRegistry /\ image.registry \in DOMAIN o)
  BY <1>2 DEF AlterImage
<1> QED BY <1>1, <1>2

\* A defaulter settles its part.
LEMMA DefaultSettles ==
    ASSUME NEW f \in KnownFeatureKeys, NEW p \in Pod, NEW a, NEW c, NEW proc,
           Decoded(c), Held(proc), Unchained(c), OptedIn(f, p, a, c)
    PROVE  Settled(f, Default(f, p, a, c, proc), c, proc)
<1> DEFINE q == Default(f, p, a, c, proc)
<1>1. CASE f = "alter-img-registry"
  <2>1. q = AlterImgRegistry(p, c)
    BY <1>1, DefaultBy
  <2> HIDE DEF q
  <2>2. /\ SamePod(p, q)
        /\ \A i \in DOMAIN p.containers :
             q.containers[i].image = AlterImage(p.containers[i].image, c.overrides)
    BY <2>1, AlterImgRegistryIs
  <2>3. ASSUME NEW i \in DOMAIN q.containers
        PROVE  AlterImage(q.containers[i].image, c.overrides) = q.containers[i].image
    <3>1. i \in DOMAIN p.containers
      BY <2>2 DEF SamePod
    <3>2. p.containers[i].image \in Image
      BY <3>1, ContainersOf
    <3> QED BY <2>2, <3>1, <3>2, AlteredOnce
  <2> QED BY <1>1, <2>3 DEF Settled, AltersImgRegistry, q
<1>2. CASE f = "add-img-pull-secret"
  <2>1. q = AddImagePullSecret(p)
    BY <1>2, DefaultBy
  <2>2. HasImagePullSecret(q)
    <3> HIDE DEF q
    <3> QED BY <2>1, AddImagePullSecretIs DEF HasImagePullSecret
  <2> QED BY <1>2, <2>2 DEF Settled
<1>3. CASE f = "add-cluster-trust-bundle"
  <2>1. q = AddClusterTrustBundle(p, c, proc.hash)
    BY <1>3, DefaultBy
  <2> HIDE DEF q
  <2>2. /\ SamePod(p, q)
        /\ proc.hash # NoHash => q.hash = proc.hash
        /\ c.mapping # NoMapping => q.volumes = Upsert(p.volumes, Volume(c.mapping))
        /\ \A i \in DOMAIN p.containers :
             c.mapping # NoMapping /\ ~p.containers[i].init =>
               q.containers[i].mounts = Upsert(p.containers[i].mounts, Mount(c.mapping))
    BY <2>1, AddClusterTrustBundleIs DEF Held
  <2>3. ASSUME c.mapping # NoMapping
        PROVE  Volume(c.mapping) \in Entry /\ Mount(c.mapping) \in Entry
    BY <2>3 DEF Volume, Mount, Entry, Mapping, Decoded
  <2>4. ASSUME c.mapping # NoMapping
        PROVE  ~Differs(q.volumes, Volume(c.mapping))
    <3>1. p.volumes \in Seq(Entry)
      BY DEF Pod
    <3>2. ~Differs(Upsert(p.volumes, Volume(c.mapping)), Volume(c.mapping))
      BY <2>3, <2>4, <3>1, UpsertSettles
    <3> QED BY <2>2, <2>4, <3>2
  <2>5. ASSUME c.mapping # NoMapping, NEW i \in DOMAIN q.containers, ~q.containers[i].init
        PROVE  ~Differs(q.containers[i].mounts, Mount(c.mapping))
    <3>1. i \in DOMAIN p.containers /\ ~p.containers[i].init
      BY <2>2, <2>5 DEF SamePod
    <3>2. p.containers[i].mounts \in Seq(Entry)
      BY <3>1, ContainersOf
    <3>3. ~Differs(Upsert(p.containers[i].mounts, Mount(c.mapping)), Mount(c.mapping))
      BY <2>3, <2>5, <3>2, UpsertSettles
    <3> QED BY <2>2, <2>5, <3>1, <3>3
  <2> QED BY <1>3, <2>2, <2>4, <2>5 DEF Settled, q
<1>4. CASE f = "set-fips-mode"
  <2>1. q = SetFipsMode(p)
    BY <1>4, DefaultBy
  <2> HIDE DEF q
  <2>2. /\ SamePod(p, q)
        /\ \A i \in DOMAIN p.containers :
             q.containers[i].env = Upsert(Upsert(p.containers[i].env, FipsMode(1)), FipsMode(2))
    BY <2>1, SetFipsModeIs
  <2>3. ASSUME NEW i \in DOMAIN q.containers
        PROVE  ~Differs(q.containers[i].env, FipsMode(1)) /\ ~Differs(q.containers[i].env, FipsMode(2))
    <3>1. i \in DOMAIN p.containers
      BY <2>2 DEF SamePod
    <3>2. p.containers[i].env \in Seq(Entry)
      BY <3>1, ContainersOf
    <3>3. FipsMode(1) \in Entry /\ FipsMode(2) \in Entry /\ FipsMode(1).name # FipsMode(2).name
      BY VariablesAreEntries
    <3> QED BY <2>2, <3>1, <3>2, <3>3, BothSettle
  <2> QED BY <1>4, <2>3 DEF Settled, SetsFipsMode, q
<1>5. CASE f = "set-landscape"
  <2>1. q = SetLandscape(p, proc.landscape)
    BY <1>5, DefaultBy
  <2> HIDE DEF q
  <2>2. /\ SamePod(p, q)
        /\ \A i \in DOMAIN p.containers :
             q.containers[i].env = Upsert(p.containers[i].env, Landscape(proc.landscape))
    BY <2>1, SetLandscapeIs DEF Held
  <2>3. ASSUME NEW i \in DOMAIN q.containers
        PROVE  ~Differs(q.containers[i].env, Landscape(proc.landscape))
    <3>1. i \in DOMAIN p.containers
      BY <2>2 DEF SamePod
    <3>2. p.containers[i].env \in Seq(Entry) /\ Landscape(proc.landscape) \in Entry
      BY <3>1, ContainersOf, VariablesAreEntries DEF Held
    <3> QED BY <2>2, <3>1, <3>2, UpsertSettles
  <2> QED BY <1>5, <2>3 DEF Settled, SetsLandscape, q
<1> QED BY <1>1, <1>2, <1>3, <1>4, <1>5 DEF KnownFeatureKeys

\* A part that is settled is left as it is, and only what insists is reported.
LEMMA SettledIsFixed ==
    ASSUME NEW f \in KnownFeatureKeys, NEW p \in Pod, NEW a, NEW c, NEW proc,
           Decoded(c), Held(proc), Settled(f, p, c, proc)
    PROVE  /\ Default(f, p, a, c, proc) = p
           /\ Modifies(f, p, a, c, proc) => Insists(f, p, c, proc)
<1> DEFINE q == Default(f, p, a, c, proc)
<1>1. CASE f # "add-cluster-trust-bundle"
  <2>1. ~Modifies(f, p, a, c, proc)
    BY <1>1 DEF Modifies, Settled, KnownFeatureKeys
  <2> QED BY <2>1, DefaultIs
<1>2. CASE f = "add-cluster-trust-bundle"
  <2>1. Modifies(f, p, a, c, proc) => Insists(f, p, c, proc)
    BY <1>2 DEF Modifies, Settled, Insists, AddsClusterTrustBundle
  <2>2. CASE ~OptedIn(f, p, a, c)
    <3>1. q = p
      BY <2>2, DefaultIs
    <3> QED BY <2>1, <3>1
  <2>3. CASE OptedIn(f, p, a, c)
    <3>1. q = AddClusterTrustBundle(p, c, proc.hash)
      BY <1>2, <2>3, DefaultBy
    <3> HIDE DEF q
    <3>2. /\ SamePod(p, q)
          /\ q.secrets = p.secrets /\ SameImages(p, q) /\ SameEnv(p, q)
          /\ q.hash = IF proc.hash = NoHash THEN p.hash ELSE proc.hash
          /\ q.volumes = IF c.mapping = NoMapping THEN p.volumes
                         ELSE Upsert(p.volumes, Volume(c.mapping))
          /\ \A i \in DOMAIN p.containers :
               q.containers[i].mounts =
                 IF c.mapping = NoMapping \/ p.containers[i].init THEN p.containers[i].mounts
                 ELSE Upsert(p.containers[i].mounts, Mount(c.mapping))
      BY <3>1, AddClusterTrustBundleIs DEF Held
    <3>3. /\ proc.hash # NoHash => p.hash = proc.hash
          /\ c.mapping # NoMapping =>
               /\ ~Differs(p.volumes, Volume(c.mapping))
               /\ \A i \in DOMAIN p.containers : ~p.containers[i].init =>
                    ~Differs(p.containers[i].mounts, Mount(c.mapping))
      BY <1>2 DEF Settled
    <3>4. c.mapping # NoMapping => Volume(c.mapping) \in Entry /\ Mount(c.mapping) \in Entry
      BY DEF Volume, Mount, Entry, Mapping, Decoded
    <3>5. q.volumes = p.volumes
      <4>1. p.volumes \in Seq(Entry)
        BY DEF Pod
      <4>2. c.mapping # NoMapping => Upsert(p.volumes, Volume(c.mapping)) = p.volumes
        BY <3>3, <3>4, <4>1, UpsertSame
      <4> QED BY <3>2, <4>2
    <3>6. SameMounts(p, q)
      <4>1. ASSUME NEW i \in DOMAIN p.containers, c.mapping # NoMapping, ~p.containers[i].init
            PROVE  Upsert(p.containers[i].mounts, Mount(c.mapping)) = p.containers[i].mounts
        <5>1. p.containers[i].mounts \in Seq(Entry)
          BY ContainersOf
        <5> QED BY <3>3, <3>4, <4>1, <5>1, UpsertSame
      <4> QED BY <3>2, <4>1 DEF SameMounts
    <3>7. q = p
      BY <3>2, <3>3, <3>5, <3>6, SameFields DEF SamePod
    <3> QED BY <2>1, <3>7 DEF q
  <2> QED BY <2>2, <2>3
<1> QED BY <1>1, <1>2

\* What insists is reported.
LEMMA InsistsIsReported ==
    ASSUME NEW f, NEW p, NEW a, NEW c, NEW proc, OptedIn(f, p, a, c), Insists(f, p, c, proc)
    PROVE  Modifies(f, p, a, c, proc)
  BY DEF Insists, Modifies, AddsClusterTrustBundle

\* Whether it insists is a matter of what no defaulter touches.
LEMMA InsistsAgree ==
    ASSUME NEW f, NEW p, NEW q, SamePod(p, q), NEW c, NEW proc
    PROVE  Insists(f, p, c, proc) <=> Insists(f, q, c, proc)
  BY DEF SamePod, Insists

\* A part stays settled as long as it stays.
LEMMA SettledLasts ==
    ASSUME NEW f \in KnownFeatureKeys, NEW p \in Pod, NEW q \in Pod, SamePod(p, q),
           Part(f, q) = Part(f, p), NEW c, NEW proc, Held(proc), Settled(f, p, c, proc)
    PROVE  Settled(f, q, c, proc)
<1>1. /\ DOMAIN q.containers = DOMAIN p.containers
      /\ \A i \in DOMAIN p.containers : q.containers[i].init = p.containers[i].init
  BY DEF SamePod
<1>2. CASE f = "alter-img-registry"
  <2>1. SameImages(p, q)
    BY <1>2, PartsSay
  <2> QED BY <1>1, <1>2, <2>1 DEF SameImages, Settled, AltersImgRegistry
<1>3. CASE f = "add-img-pull-secret"
  <2>1. q.secrets = p.secrets
    BY <1>3, PartsSay
  <2> QED BY <1>3, <2>1 DEF Settled, HasImagePullSecret
<1>4. CASE f = "add-cluster-trust-bundle"
  <2>1. q.volumes = p.volumes /\ q.hash = p.hash /\ SameMounts(p, q)
    BY <1>4, PartsSay
  <2> QED BY <1>1, <1>4, <2>1 DEF SameMounts, Settled
<1>5. CASE f = "set-fips-mode"
  <2> DEFINE names == {"KYMA_FIPS_MODE_ENABLED", "FIPS_MODE_ENABLED"}
  <2>1. ASSUME NEW i \in DOMAIN q.containers, NEW v \in {1, 2}
        PROVE  ~Differs(q.containers[i].env, FipsMode(v))
    <3>1. i \in DOMAIN p.containers
      BY <1>1
    <3>2. ~Differs(p.containers[i].env, FipsMode(v))
      BY <1>5, <3>1 DEF Settled, SetsFipsMode
    <3>3. p.containers[i].env \in Seq(Entry) /\ q.containers[i].env \in Seq(Entry)
      BY <3>1, ContainersOf
    <3>4. EntriesOf(q.containers[i].env, names) = EntriesOf(p.containers[i].env, names)
      BY <1>5, <3>1, EnvPartsSay
    <3>5. FipsMode(v).name \in names
      BY VariablesAreEntries
    <3> HIDE DEF names
    <3> QED BY <3>2, <3>3, <3>4, <3>5, DiffersAgree
  <2> QED BY <1>5, <2>1 DEF Settled, SetsFipsMode
<1>6. CASE f = "set-landscape"
  <2> DEFINE names == {"KYMA_LANDSCAPE"}
  <2>1. ASSUME NEW i \in DOMAIN q.containers
        PROVE  ~Differs(q.containers[i].env, Landscape(proc.landscape))
    <3>1. i \in DOMAIN p.containers
      BY <1>1
    <3>2. ~Differs(p.containers[i].env, Landscape(proc.landscape))
      BY <1>6, <3>1 DEF Settled, SetsLandscape
    <3>3. p.containers[i].env \in Seq(Entry) /\ q.containers[i].env \in Seq(Entry)
      BY <3>1, ContainersOf
    <3>4. EntriesOf(q.containers[i].env, names) = EntriesOf(p.containers[i].env, names)
      BY <1>6, <3>1, EnvPartsSay
    <3>5. Landscape(proc.landscape).name \in names
      BY VariablesAreEntries DEF Held
    <3> HIDE DEF names
    <3> QED BY <3>2, <3>3, <3>4, <3>5, DiffersAgree
  <2> QED BY <1>6, <2>1 DEF Settled, SetsLandscape
<1> QED BY <1>2, <1>3, <1>4, <1>5, <1>6 DEF KnownFeatureKeys

\* One world all the time, and no registry is both replaced and a replacement.
Steady(r, w) == r.worlds = {w} /\ Readable(w.config) /\ Unchained(w.config)
AskedIn(f, r, w) == f \in w.process.features /\ Requested(f, r, w.config)

\* f is settled in p, and p is reported if f insists.
Kept(f, p, w, reported) ==
    /\ Settled(f, p, w.config, w.process)
    /\ Insists(f, p, w.config, w.process) => reported

\* The first time, what has had its turn is settled.
FirstTime(r) ==
    ~r.again => \A w \in r.worlds : Steady(r, w) =>
        \A i \in Entries : i < r.next /\ AskedIn(DefaulterEntries[i], r, w)
                             => Kept(DefaulterEntries[i], r.pod, w, r.defaulted)

\* The second time all is settled from the start, and nothing changes.
SecondTime(r) ==
    r.again => \A w \in r.worlds : Steady(r, w) =>
        /\ r.pod = r.orig
        /\ r.defaulted => r.pod.modified
        /\ \A f \in KnownFeatureKeys : AskedIn(f, r, w) => Kept(f, r.pod, w, r.pod.modified)

\* The answer to the first request is settled.
AnswerKept(r) ==
    ~r.again =>
        /\ r.worlds # {} /\ r.pod.ann = r.orig.ann /\ r.pod.ns = r.orig.ns
        /\ \A w \in r.worlds : Steady(r, w) =>
             \A f \in KnownFeatureKeys : AskedIn(f, r, w) => Kept(f, r.pod, w, r.pod.modified)

RepeatInv == /\ request # Nothing => FirstTime(request) /\ SecondTime(request)
             /\ Answered => AnswerKept(reply)

\* Kept, without looking at the mark.
LEMMA KeptMarked ==
    ASSUME NEW p, NEW q, q.hash = p.hash, q.secrets = p.secrets, q.volumes = p.volumes,
           q.containers = p.containers,
           NEW f \in KnownFeatureKeys, NEW w, NEW reported, Kept(f, p, w, reported)
    PROVE  Kept(f, q, w, reported)
<1>1. Settled(f, q, w.config, w.process)
  <2>1. Settled(f, p, w.config, w.process)
    BY DEF Kept
  <2> QED BY <2>1 DEF Settled, AltersImgRegistry, HasImagePullSecret, SetsFipsMode, SetsLandscape,
             KnownFeatureKeys
<1>2. Insists(f, q, w.config, w.process) <=> Insists(f, p, w.config, w.process)
  BY DEF Insists
<1> QED BY <1>1, <1>2 DEF Kept

\* The first time, one more has had its turn.
LEMMA RunKeepsFirstTime ==
    ASSUME AdmissionInv, RepeatInv, NEW i \in Entries, RunDefaulter(i)
    PROVE  FirstTime(request')
<1> DEFINE f == DefaulterEntries[i]
<1> DEFINE w == World(configMap, process)
<1>1. /\ request \in Request /\ request # Nothing /\ f \in KnownFeatureKeys
      /\ Decoded(configMap) /\ Held(process)
      /\ request'.next = i + 1
      /\ \A j \in Entries : request.next <= j /\ j < i => DefaulterEntries[j] \notin process.features
      /\ request'.worlds = request.worlds /\ request'.again = request.again
      /\ request'.pod = Default(f, request.pod, request.nsAnnotations, configMap, process)
      /\ request'.defaulted = (\/ request.defaulted
                               \/ Modifies(f, request.pod, request.nsAnnotations, configMap, process))
  BY RunSays DEF AdmissionInv
<1>2. /\ request.pod \in Pod /\ request'.pod \in Pod /\ SamePod(request.pod, request'.pod)
      /\ \A g \in KnownFeatureKeys \ {f} : Part(g, request'.pod) = Part(g, request.pod)
      /\ OptedIn(f, request.pod, request.nsAnnotations, configMap) <=> Requested(f, request, configMap)
      /\ \A g, c : Requested(g, request', c) <=> Requested(g, request, c)
      /\ w \in request.worlds
  BY RunFrame DEF AdmissionInv
<1>3. w.config = configMap /\ w.process = process
  BY DEF World
<1>4. FirstTime(request)
  BY <1>1 DEF RepeatInv
<1> HIDE DEF w
<1>5. SUFFICES ASSUME ~request.again, Steady(request, w),
                      NEW j \in Entries, j < i + 1, AskedIn(DefaulterEntries[j], request, w)
               PROVE  Kept(DefaulterEntries[j], request'.pod, w, request'.defaulted)
  <2>1. \A v \in request'.worlds : Steady(request', v) => v = w /\ Steady(request, w)
    BY <1>1, <1>2 DEF Steady
  <2>2. \A g, v : AskedIn(g, request', v) <=> AskedIn(g, request, v)
    BY <1>2 DEF AskedIn
  <2> QED BY <1>1, <2>1, <2>2 DEF FirstTime
<1>6. CASE j = i
  <2>1. OptedIn(f, request.pod, request.nsAnnotations, configMap)
    BY <1>2, <1>3, <1>5, <1>6 DEF AskedIn
  <2> HIDE DEF f
  <2>2. Settled(f, request'.pod, configMap, process)
    BY <1>1, <1>2, <1>3, <1>5, <2>1, DefaultSettles DEF Steady
  <2>3. ASSUME Insists(f, request'.pod, configMap, process)
        PROVE  request'.defaulted
    <3>1. Insists(f, request.pod, configMap, process)
      BY <1>2, <2>3, InsistsAgree
    <3> QED BY <1>1, <2>1, <3>1, InsistsIsReported
  <2> QED BY <1>3, <1>6, <2>2, <2>3 DEF Kept, f
<1>7. CASE j # i
  <2>1. j < request.next
    <3>1. request.next \in Int
      BY <1>1, RequestFields
    <3>2. DefaulterEntries[j] \in process.features
      BY <1>3, <1>5 DEF AskedIn
    <3> QED BY <1>1, <1>5, <1>7, <3>1, <3>2 DEF Entries
  <2> DEFINE g == DefaulterEntries[j]
  <2>2. g \in KnownFeatureKeys \ {f}
    BY <1>7, EntriesAreKeys
  <2>3. Kept(g, request.pod, w, request.defaulted)
    BY <1>2, <1>4, <1>5, <2>1 DEF FirstTime
  <2> HIDE DEF f, g
  <2>4. Settled(g, request'.pod, configMap, process)
    BY <1>1, <1>2, <1>3, <2>2, <2>3, SettledLasts DEF Kept
  <2>5. Insists(g, request'.pod, configMap, process) <=> Insists(g, request.pod, configMap, process)
    BY <1>2, InsistsAgree
  <2>6. Kept(g, request'.pod, w, request'.defaulted)
    BY <1>1, <1>3, <2>3, <2>4, <2>5 DEF Kept
  <2> QED BY <2>6 DEF g
<1> QED BY <1>6, <1>7

\* The second time, the defaulter that has its turn changes nothing.
LEMMA RunKeepsSecondTime ==
    ASSUME AdmissionInv, RepeatInv, NEW i \in Entries, RunDefaulter(i)
    PROVE  SecondTime(request')
<1> DEFINE f == DefaulterEntries[i]
<1> DEFINE w == World(configMap, process)
<1>1. /\ request # Nothing /\ f \in KnownFeatureKeys /\ f \in process.features
      /\ Decoded(configMap) /\ Held(process)
      /\ request'.orig = request.orig
      /\ request'.worlds = request.worlds /\ request'.again = request.again
      /\ request'.pod = Default(f, request.pod, request.nsAnnotations, configMap, process)
      /\ request'.defaulted = (\/ request.defaulted
                               \/ Modifies(f, request.pod, request.nsAnnotations, configMap, process))
  BY RunSays DEF AdmissionInv
<1>2. /\ request.pod \in Pod
      /\ ~OptedIn(f, request.pod, request.nsAnnotations, configMap) => request'.pod = request.pod
      /\ OptedIn(f, request.pod, request.nsAnnotations, configMap) <=> Requested(f, request, configMap)
      /\ \A g, c : Requested(g, request', c) <=> Requested(g, request, c)
      /\ w \in request.worlds
  BY RunFrame DEF AdmissionInv
<1>3. w.config = configMap /\ w.process = process
  BY DEF World
<1>4. SecondTime(request)
  BY <1>1 DEF RepeatInv
<1> HIDE DEF w, f
<1>5. SUFFICES ASSUME request.again, Steady(request, w)
               PROVE  /\ request'.pod = request.orig
                      /\ request'.defaulted => request'.pod.modified
                      /\ \A g \in KnownFeatureKeys :
                           AskedIn(g, request, w) => Kept(g, request'.pod, w, request'.pod.modified)
  <2>1. \A v \in request'.worlds : Steady(request', v) => v = w /\ Steady(request, w)
    BY <1>1, <1>2 DEF Steady
  <2>2. \A g, v : AskedIn(g, request', v) <=> AskedIn(g, request, v)
    BY <1>2 DEF AskedIn
  <2> QED BY <1>1, <2>1, <2>2 DEF SecondTime
<1>6. /\ request.pod = request.orig
      /\ request.defaulted => request.pod.modified
      /\ \A g \in KnownFeatureKeys : AskedIn(g, request, w) => Kept(g, request.pod, w, request.pod.modified)
  BY <1>2, <1>4, <1>5 DEF SecondTime
<1>7. /\ request'.pod = request.pod
      /\ Modifies(f, request.pod, request.nsAnnotations, configMap, process) => request.pod.modified
  <2>1. CASE OptedIn(f, request.pod, request.nsAnnotations, configMap)
    <3>1. Kept(f, request.pod, w, request.pod.modified)
      BY <1>1, <1>2, <1>3, <1>6, <2>1 DEF AskedIn
    <3>2. Settled(f, request.pod, configMap, process)
      BY <1>3, <3>1 DEF Kept
    <3> QED BY <1>1, <1>2, <1>3, <3>1, <3>2, SettledIsFixed DEF Kept
  <2>2. CASE ~OptedIn(f, request.pod, request.nsAnnotations, configMap)
    BY <1>2, <2>2 DEF Modifies
  <2> QED BY <2>1, <2>2
<1> QED BY <1>1, <1>6, <1>7

\* A request that sees one more world, or the same again.
LEMMA ChangeKeepsTimes ==
    ASSUME NEW r, NEW s, NEW w, r.worlds # {}, FirstTime(r), SecondTime(r),
           s.orig = r.orig, s.pod = r.pod, s.nsAnnotations = r.nsAnnotations, s.next = r.next,
           s.defaulted = r.defaulted, s.again = r.again, s.worlds = r.worlds \cup {w}
    PROVE  FirstTime(s) /\ SecondTime(s)
<1>1. \A v \in s.worlds : Steady(s, v) => v \in r.worlds /\ Steady(r, v)
  BY DEF Steady
<1>2. \A f, v : AskedIn(f, s, v) <=> AskedIn(f, r, v)
  BY DEF AskedIn, Requested
<1> QED BY <1>1, <1>2 DEF FirstTime, SecondTime

\* The answer to the first request is settled, and to the second it is what was sent.
LEMMA RespondKeeps ==
    ASSUME AdmissionInv, RepeatInv, Respond
    PROVE  /\ AnswerKept(reply')
           /\ reply'.again => \A w \in reply'.worlds :
                reply'.worlds = {w} /\ Readable(w.config) /\ Unchained(w.config)
                  => reply'.pod = reply'.orig
<1> DEFINE now == World(configMap, process)
<1>1. /\ request \in Request /\ request # Nothing
      /\ \A j \in Entries : request.next <= j => DefaulterEntries[j] \notin process.features
  BY RespondSays DEF AdmissionInv
<1>2. /\ RequestSafe(request) /\ now \in request.worlds
      /\ request.pod \in Pod
      /\ reply'.orig = request.orig /\ reply'.pod = Mark(request)
      /\ reply'.worlds = request.worlds /\ reply'.again = request.again
      /\ \A f, c : Requested(f, reply', c) <=> Requested(f, request, c)
  BY AnswerSays
<1>3. /\ FirstTime(request) /\ SecondTime(request)
      /\ SamePod(request.orig, request.pod)
  BY <1>1, <1>2 DEF RepeatInv, RequestSafe
<1>4. /\ reply'.pod.ns = request.pod.ns /\ reply'.pod.ann = request.pod.ann
      /\ reply'.pod.hash = request.pod.hash /\ reply'.pod.secrets = request.pod.secrets
      /\ reply'.pod.volumes = request.pod.volumes
      /\ reply'.pod.containers = request.pod.containers
      /\ reply'.pod.modified = (request.pod.modified \/ request.defaulted)
      /\ request.pod.modified => reply'.pod = request.pod
      /\ ~request.defaulted => reply'.pod = request.pod
  BY <1>1, <1>2, MarkIs
<1>5. now.config = configMap /\ now.process = process
  BY DEF World
<1> HIDE DEF now
<1>6. \A w \in request.worlds : Steady(request, w) => w = now
  BY <1>2 DEF Steady
<1>7. \A w : Steady(reply', w) <=> Steady(request, w)
  BY <1>2 DEF Steady
<1>8. ASSUME ~request.again, Steady(request, now), NEW f \in KnownFeatureKeys, AskedIn(f, reply', now)
      PROVE  Kept(f, reply'.pod, now, reply'.pod.modified)
  <2>1. PICK j \in Entries : DefaulterEntries[j] = f
    BY EntriesAreKeys
  <2>2. j < request.next
    <3>1. request.next \in Int
      BY <1>1, RequestFields
    <3>2. f \in process.features
      BY <1>5, <1>8 DEF AskedIn
    <3> QED BY <1>1, <2>1, <3>1, <3>2 DEF Entries
  <2>3. AskedIn(f, request, now)
    BY <1>2, <1>8 DEF AskedIn
  <2>4. Kept(f, request.pod, now, request.defaulted)
    BY <1>2, <1>3, <1>8, <2>1, <2>2, <2>3 DEF FirstTime
  <2>5. Kept(f, reply'.pod, now, request.defaulted)
    BY <1>4, <2>4, KeptMarked
  <2> QED BY <1>4, <2>5 DEF Kept
<1>9. AnswerKept(reply')
  <2>1. reply'.worlds # {} /\ reply'.pod.ann = reply'.orig.ann /\ reply'.pod.ns = reply'.orig.ns
    BY <1>2, <1>3, <1>4 DEF SamePod
  <2> QED BY <1>2, <1>6, <1>7, <1>8, <2>1 DEF AnswerKept
<1>10. ASSUME request.again, NEW w \in request.worlds, Steady(request, w)
       PROVE  reply'.pod = request.orig
  BY <1>3, <1>4, <1>10 DEF SecondTime
<1> QED BY <1>2, <1>9, <1>10 DEF Steady

\* A repeated request starts with what its answer has settled.
LEMMA ResubmitKeeps ==
    ASSUME AdmissionInv, RepeatInv, Resubmit, request' # Nothing
    PROVE  FirstTime(request') /\ SecondTime(request')
<1>1. /\ reply # Nothing /\ reply # Denied /\ reply.again = FALSE
      /\ reply.pod \in Pod /\ reply.worlds \in SUBSET Worlds
      /\ reply.nsAnnotations = cached[reply.pod.ns]
      /\ Begin(reply.pod, reply.worlds, TRUE)
  BY ResubmitSays DEF AdmissionInv
<1>2. /\ request'.orig = reply.pod /\ request'.pod = reply.pod
      /\ request'.nsAnnotations = cached[reply.pod.ns]
      /\ request'.defaulted = FALSE /\ request'.again = TRUE
      /\ request'.worlds = reply.worlds \cup {World(configMap, process)}
  BY <1>1, BeginSays DEF AdmissionInv
<1>3. /\ reply.worlds # {} /\ reply.pod.ann = reply.orig.ann /\ reply.pod.ns = reply.orig.ns
      /\ \A w \in reply.worlds : Steady(reply, w) =>
           \A f \in KnownFeatureKeys : AskedIn(f, reply, w) => Kept(f, reply.pod, w, reply.pod.modified)
  BY <1>1 DEF RepeatInv, AnswerKept, Answered
<1>4. \A w \in request'.worlds : Steady(request', w) => w \in reply.worlds /\ Steady(reply, w)
  BY <1>2, <1>3 DEF Steady
<1>5. \A f, w : AskedIn(f, request', w) <=> AskedIn(f, reply, w)
  BY <1>1, <1>2, <1>3 DEF AskedIn, Requested
<1>6. SecondTime(request')
  BY <1>2, <1>3, <1>4, <1>5 DEF SecondTime
<1>7. FirstTime(request')
  BY <1>2 DEF FirstTime
<1> QED BY <1>6, <1>7

\* Every step keeps what is known of repeated requests.
LEMMA StepKeepsRepeat ==
    ASSUME AdmissionInv, RepeatInv, IdempotentUnchained, [Next]_vars
    PROVE  RepeatInv' /\ IdempotentUnchained'
<1> DEFINE Times == request' # Nothing => FirstTime(request') /\ SecondTime(request')
<1> DEFINE Answers == Answered' => /\ AnswerKept(reply')
                                   /\ reply'.again => \A w \in reply'.worlds :
                                        reply'.worlds = {w} /\ Readable(w.config) /\ Unchained(w.config)
                                          => reply'.pod = reply'.orig
<1>1. ASSUME reply' = reply
      PROVE  Answers
  BY <1>1 DEF RepeatInv, IdempotentUnchained, Answered
<1>2. ASSUME request' = request
      PROVE  Times
  BY <1>2 DEF RepeatInv
<1>3. CASE \/ \E c \in Configs \cup {Unreadable} : EditConfig(c)
           \/ \E n \in Namespaces, a \in NsLayers \cup {NotCached} : SeeNamespace(n, a)
           \/ \E b \in Bundles, v \in Contents : UpdateHash(b, v)
  <2>1. /\ reply' = reply
        /\ request = Nothing => request' = Nothing
        /\ request # Nothing =>
             /\ request'.orig = request.orig /\ request'.pod = request.pod
             /\ request'.nsAnnotations = request.nsAnnotations
             /\ request'.next = request.next /\ request'.defaulted = request.defaulted
             /\ request'.again = request.again
             /\ request'.worlds = request.worlds \cup {World(configMap', process')}
    BY <1>3, ChangeSays DEF AdmissionInv
  <2>2. ASSUME request # Nothing
        PROVE  FirstTime(request') /\ SecondTime(request')
    <3>1. /\ request.worlds # {} /\ FirstTime(request) /\ SecondTime(request)
      BY <2>2 DEF AdmissionInv, RequestInv, RepeatInv
    <3> QED BY <2>1, <2>2, <3>1, ChangeKeepsTimes
  <2>3. Times
    BY <2>1, <2>2
  <2>4. Answers
    BY <1>1, <2>1
  <2> HIDE DEF Times, Answers
  <2> QED BY <2>3, <2>4 DEF RepeatInv, IdempotentUnchained, Times, Answers
<1>4. CASE (\E landscape \in Landscapes : Boot(landscape)) \/ UNCHANGED vars
  <2>1. request' = request /\ reply' = reply
    BY <1>4 DEF Boot, vars
  <2> QED BY <1>1, <1>2, <2>1 DEF RepeatInv, IdempotentUnchained
<1>5. CASE Stop
  <2>1. request' = Nothing /\ reply' = reply
    BY <1>5 DEF Stop
  <2> QED BY <1>1, <2>1 DEF RepeatInv, IdempotentUnchained
<1>6. CASE Deny
  BY <1>6 DEF Deny, RepeatInv, IdempotentUnchained, Answered
<1>7. CASE Respond
  <2>1. request' = Nothing
    BY <1>7 DEF Respond
  <2>2. Answers
    BY <1>7, RespondKeeps
  <2> QED BY <2>1, <2>2 DEF RepeatInv, IdempotentUnchained
<1>8. CASE \E p \in Templates : Receive(p)
  <2>1. PICK p \in Templates : Begin(p, {}, FALSE)
    BY <1>8 DEF Receive
  <2>2. p \in Pod /\ {} \in SUBSET Worlds
    BY InputAssumption
  <2>3. /\ ~Answered'
        /\ request' # Nothing => request'.next = 1 /\ request'.again = FALSE
    BY <2>1, <2>2, BeginSays DEF AdmissionInv, Answered
  <2>4. Times
    BY <2>3 DEF FirstTime, SecondTime, Entries
  <2> QED BY <2>3, <2>4 DEF RepeatInv, IdempotentUnchained
<1>9. CASE Resubmit
  <2>1. ~Answered'
    BY <1>9 DEF Resubmit, Begin, Answered
  <2>2. Times
    BY <1>9, ResubmitKeeps
  <2> QED BY <2>1, <2>2 DEF RepeatInv, IdempotentUnchained
<1>10. CASE \E i \in Entries : RunDefaulter(i)
  <2>1. PICK i \in Entries : RunDefaulter(i)
    BY <1>10
  <2>2. reply' = reply
    BY <2>1 DEF RunDefaulter
  <2>3. Times
    BY <2>1, RunKeepsFirstTime, RunKeepsSecondTime
  <2> QED BY <1>1, <2>2, <2>3 DEF RepeatInv, IdempotentUnchained
<1> QED BY <1>3, <1>4, <1>5, <1>6, <1>7, <1>8, <1>9, <1>10 DEF Next

\* Calling the webhook for its own answer changes nothing (IdempotentUnchained;
\* pod_defaulters.go:60-151, pod_defaulter_fips_mode.go:60-75), as long as nothing
\* else changes: a defaulter finds its part as it has left it, and what it reports all the
\* same was reported, and marked, the first time.
THEOREM Idempotent == Spec => []IdempotentUnchained
<1>1. Init => RepeatInv /\ IdempotentUnchained
  BY DEF Init, RepeatInv, IdempotentUnchained, Answered
<1>2. AdmissionInv /\ RepeatInv /\ IdempotentUnchained /\ [Next]_vars
        => RepeatInv' /\ IdempotentUnchained'
  BY StepKeepsRepeat
<1> QED BY <1>1, <1>2, Invariance, PTL DEF Spec
=============================================================================
