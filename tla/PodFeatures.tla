---------------------------- MODULE PodFeatures ----------------------------
(***************************************************************************)
(* The configuration (pkg/api/v1/types.go), the three layers by which a    *)
(* pod opts in to a feature, and the five pod defaulters                   *)
(* (internal/webhook/v1/pod_defaulter*.go) as operators on a pod.          *)
(***************************************************************************)
EXTENDS Naturals, Sequences

CONSTANTS
    Namespaces,
    Text,             \* names, values, registries and paths
    Contents,         \* contents a ClusterTrustBundle may have, for which its hash stands
    NoRegistry,       \* of an image reference that names no registry
    NoMapping,        \* clusterTrustBundle is left out of the configuration
    NoHash,           \* the empty hash / no ctb-hash annotation
    PullSecretName,   \* --image-pull-secret-name
    NoLandscape       \* --landscape is empty

-----------------------------------------------------------------------------
(* Feature annotations.  A layer of annotations maps every key to its value, *)
(* "none" if the key is absent.                                              *)
KnownFeatureKeys == {"alter-img-registry", "add-img-pull-secret",
                     "add-cluster-trust-bundle", "set-fips-mode", "set-landscape"}
AnnotationAll == "all"
Keys          == KnownFeatureKeys \cup {AnnotationAll}
Annotations   == [Keys -> {"true", "false", "none"}]
NoAnnotations == [k \in Keys |-> "none"]

\* A trust bundle to mount, and the hash of what it contains.
Mapping == [volume: Text, bundle: Text, path: Text]
Hash    == Text \X Contents

ASSUME TextAssumption ==
    /\ {"true", "KYMA_FIPS_MODE_ENABLED", "FIPS_MODE_ENABLED", "KYMA_LANDSCAPE"} \subseteq Text
    /\ PullSecretName \in Text /\ NoLandscape \in Text
    /\ NoRegistry \notin Text
    /\ NoMapping \notin Mapping \cup Text
    /\ NoHash \notin Hash

(***************************************************************************)
(* A configuration, after decoding:                                        *)
(*   overrides   the registries to replace, a function                     *)
(*   mapping     NoMapping, or the bundle to mount                         *)
(*   available   availableFeatures, a set                                  *)
(*   nsFeatures  namespaceFeatures, a set of keys for every namespace      *)
(***************************************************************************)
\* validateFeatureAliases and validateNsFeatures; what the decoder and the
\* "required" tags refuse is not a configuration at all.
ValidNsFeatures(c) ==                       \* faulty: the catalog is not checked
    \A n \in Namespaces : c.nsFeatures[n] \subseteq c.available \cup {AnnotationAll}
ValidConfig(c) ==
    /\ c.available \subseteq KnownFeatureKeys
    /\ \A n \in Namespaces : \A f \in c.nsFeatures[n] \ {AnnotationAll} :
         /\ f \in KnownFeatureKeys
         /\ c.available # {} => f \in c.available

NamespaceDefaultFeatures(c, n) ==
    LET all == IF AnnotationAll \in c.nsFeatures[n] THEN c.available ELSE {}
    IN  [k \in Keys |-> IF k \in (c.nsFeatures[n] \ {AnnotationAll}) \cup all
                        THEN "true" ELSE "none"]

\* An explicit value is not overwritten by the expansion of "all".
ExpandOverExplicit(c, a) ==                 \* faulty: it is
    IF a[AnnotationAll] # "true" THEN a
    ELSE [k \in Keys |-> IF k \in c.available THEN "true" ELSE a[k]]
ExpandAnnotationAll(c, a) ==
    IF a[AnnotationAll] # "true" THEN a
    ELSE [k \in Keys |-> CASE k = AnnotationAll -> "none"
                           [] a[k] = "none" /\ k \in c.available -> "true"
                           [] OTHER -> a[k]]

Layers(p, nsAnnotations, c) == {NamespaceDefaultFeatures(c, p.ns),
                                ExpandAnnotationAll(c, nsAnnotations),
                                ExpandAnnotationAll(c, p.ann)}

CTBExplicitOptOut(p) == p.ann["add-cluster-trust-bundle"] = "false"

\* Some layer says "true".  Only the trust bundle has an opt-out.
OptedInAnyway(f, p, nsAnnotations, c) ==    \* faulty: the opt-out is not checked
    \E layer \in Layers(p, nsAnnotations, c) : layer[f] = "true"
OptedIn(f, p, nsAnnotations, c) ==
    /\ f = "add-cluster-trust-bundle" => ~CTBExplicitOptOut(p)
    /\ \E layer \in Layers(p, nsAnnotations, c) : layer[f] = "true"

-----------------------------------------------------------------------------
(***************************************************************************)
(* A pod, as far as the defaulters look at it: its feature annotations,    *)
(* the annotations ctb-hash and modified, imagePullSecrets, the volumes,   *)
(* and its containers, init containers first.                              *)
(***************************************************************************)
Entry     == [name: Text, value: Text]
Image     == [registry: Text \cup {NoRegistry}, path: Text]
Container == [init: BOOLEAN, image: Image, env: Seq(Entry), mounts: Seq(Entry)]
Pod       == [ns: Namespaces, ann: Annotations, hash: Hash \cup {NoHash}, modified: BOOLEAN,
              secrets: Seq(Text), volumes: Seq(Entry), containers: Seq(Container)]

\* slices.IndexFunc by name: the first entry is replaced, or the entry appended.
Named(s, name) == {i \in DOMAIN s : s[i].name = name}
UpsertLast(s, e) ==                         \* faulty: always appended
    Append(s, e)
First(s, name) == CHOOSE i \in Named(s, name) : \A j \in Named(s, name) : i <= j
Upsert(s, e) ==
    IF Named(s, e.name) = {} THEN Append(s, e) ELSE [s EXCEPT ![First(s, e.name)] = e]

\* The entry is missing or another one: an Upsert is reported.
Differs(s, e) == Named(s, e.name) = {} \/ s[First(s, e.name)] # e

ForContainers(p, Update(_)) ==
    [p EXCEPT !.containers = [i \in DOMAIN p.containers |-> Update(p.containers[i])]]

\* One lookup of the registry; an image without a registry is left alone.
AlterImage(image, overrides) ==
    IF image.registry # NoRegistry /\ image.registry \in DOMAIN overrides
    THEN [image EXCEPT !.registry = overrides[image.registry]]
    ELSE image

AlterImgRegistry(p, c) ==
    ForContainers(p, LAMBDA k : [k EXCEPT !.image = AlterImage(k.image, c.overrides)])
AltersImgRegistry(p, c) ==
    \E i \in DOMAIN p.containers :
        AlterImage(p.containers[i].image, c.overrides) # p.containers[i].image

AddImagePullSecretAgain(p) ==               \* faulty: the list is not searched
    [p EXCEPT !.secrets = Append(p.secrets, PullSecretName)]
HasImagePullSecret(p) == \E i \in DOMAIN p.secrets : p.secrets[i] = PullSecretName
AddImagePullSecret(p) ==
    IF HasImagePullSecret(p) THEN p
    ELSE [p EXCEPT !.secrets = Append(p.secrets, PullSecretName)]

\* The volume, and its mount in every container that is not an init container.
Volume(m) == [name |-> m.volume, value |-> m.bundle]
Mount(m)  == [name |-> m.volume, value |-> m.path]
MountClusterTrustBundle(p, m) ==
    [ForContainers(p, LAMBDA k :
        IF k.init THEN k ELSE [k EXCEPT !.mounts = Upsert(k.mounts, Mount(m))])
     EXCEPT !.volumes = Upsert(p.volumes, Volume(m))]

\* The hash is stamped also without a mapping.
AddClusterTrustBundle(p, c, hash) ==
    LET mounted == IF c.mapping = NoMapping THEN p ELSE MountClusterTrustBundle(p, c.mapping)
    IN  IF hash = NoHash THEN mounted ELSE [mounted EXCEPT !.hash = hash]

\* A mount is compared with the volume, so that of a container is always reported.
AddsClusterTrustBundle(p, c, hash) ==
    \/ hash # NoHash
    \/ /\ c.mapping # NoMapping
       /\ \/ Differs(p.volumes, Volume(c.mapping))
          \/ \E i \in DOMAIN p.containers : ~p.containers[i].init

FipsVariables == <<"KYMA_FIPS_MODE_ENABLED", "FIPS_MODE_ENABLED">>
FipsMode(i)   == [name |-> FipsVariables[i], value |-> "true"]
SetFipsMode(p) ==
    ForContainers(p, LAMBDA k : [k EXCEPT !.env = Upsert(Upsert(k.env, FipsMode(1)), FipsMode(2))])
SetsFipsMode(p) ==
    \E i \in DOMAIN p.containers, v \in {1, 2} : Differs(p.containers[i].env, FipsMode(v))

Landscape(value) == [name |-> "KYMA_LANDSCAPE", value |-> value]
SetLandscape(p, landscape) ==
    ForContainers(p, LAMBDA k : [k EXCEPT !.env = Upsert(k.env, Landscape(landscape))])
SetsLandscape(p, landscape) ==
    \E i \in DOMAIN p.containers : Differs(p.containers[i].env, Landscape(landscape))

-----------------------------------------------------------------------------
\* The pod after the defaulter of feature f, which looks at the layers first;
\* proc holds the hash and the landscape.
Default(f, p, nsAnnotations, c, proc) ==
    IF ~OptedIn(f, p, nsAnnotations, c) THEN p
    ELSE CASE f = "alter-img-registry"       -> AlterImgRegistry(p, c)
           [] f = "add-img-pull-secret"      -> AddImagePullSecret(p)
           [] f = "add-cluster-trust-bundle" -> AddClusterTrustBundle(p, c, proc.hash)
           [] f = "set-fips-mode"            -> SetFipsMode(p)
           [] f = "set-landscape"            -> SetLandscape(p, proc.landscape)

\* What the defaulter reports: that it has modified the pod.
Modifies(f, p, nsAnnotations, c, proc) ==
    /\ OptedIn(f, p, nsAnnotations, c)
    /\ \/ f = "alter-img-registry" /\ AltersImgRegistry(p, c)
       \/ f = "add-img-pull-secret" /\ ~HasImagePullSecret(p)
       \/ f = "add-cluster-trust-bundle" /\ AddsClusterTrustBundle(p, c, proc.hash)
       \/ f = "set-fips-mode" /\ SetsFipsMode(p)
       \/ f = "set-landscape" /\ SetsLandscape(p, proc.landscape)

-----------------------------------------------------------------------------
\* The part of a pod that belongs to a feature.
EntriesOf(s, names) == [j \in {k \in DOMAIN s : s[k].name \in names} |-> s[j]]
EnvOf(p, names)     == [i \in DOMAIN p.containers |-> EntriesOf(p.containers[i].env, names)]
Part(f, p) ==
    CASE f = "alter-img-registry"       -> [i \in DOMAIN p.containers |-> p.containers[i].image]
      [] f = "add-img-pull-secret"      -> p.secrets
      [] f = "add-cluster-trust-bundle" -> <<p.volumes, p.hash,
                                             [i \in DOMAIN p.containers |-> p.containers[i].mounts]>>
      [] f = "set-fips-mode"            -> EnvOf(p, {"KYMA_FIPS_MODE_ENABLED", "FIPS_MODE_ENABLED"})
      [] f = "set-landscape"            -> EnvOf(p, {"KYMA_LANDSCAPE"})
=============================================================================
