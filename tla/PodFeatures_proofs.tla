------------------------- MODULE PodFeatures_proofs -------------------------
(***************************************************************************)
(* What the operators of PodFeatures return, preserve and leave alone:     *)
(* entries of a list by name, the containers of a pod, the layers of the   *)
(* features, and the defaulter of each feature.                            *)
(***************************************************************************)
EXTENDS PodFeatures, FiniteSetTheorems, WellFoundedInduction, TLAPS

-----------------------------------------------------------------------------
(***************************************************************************)
(* Lists of entries.                                                       *)
(***************************************************************************)
\* A non-empty set of positions of a list has a least one.
LEMMA LeastPosition ==
    ASSUME NEW n \in Nat, NEW S \in SUBSET (1..n), S # {}
    PROVE  \E i \in S : \A j \in S : i <= j
<1> DEFINE T == {1..i : i \in S}
<1> DEFINE R == StrictSubsetOrdering(1..n)
<1>1. IsWellFoundedOn(R, SUBSET (1..n))
  <2>1. IsFiniteSet(1..n)
    BY FS_Interval, 1 \in Int, n \in Int
  <2>2. FiniteSubsetsOf(1..n) = SUBSET (1..n)
    BY <2>1, FS_FiniteSubsetsOfFinite, Zenon
  <2> QED BY <2>2, FS_StrictSubsetOrderingWellFounded, Zenon
<1>2. T \subseteq SUBSET (1..n) /\ T # {}
  <2>1. T # {}
    OBVIOUS
  <2>2. ASSUME NEW i \in S
        PROVE  1..i \subseteq 1..n
    OBVIOUS
  <2> QED BY <2>1, <2>2
<1>3. PICK x \in T : \A y \in T : <<y, x>> \notin R
  <2> HIDE DEF T, R
  <2> QED BY <1>1, <1>2, WFMin
<1>4. PICK i \in S : x = 1..i
  OBVIOUS
<1>5. ASSUME NEW j \in S, j < i
      PROVE  FALSE
  <2>1. (1..j) \in T /\ (1..j) \subseteq (1..i) /\ i \in 1..i /\ i \notin 1..j
    BY <1>5
  <2>2. <<1..j, 1..i>> \in R
    BY <2>1 DEF StrictSubsetOrdering
  <2> QED BY <1>3, <1>4, <2>1, <2>2
<1> QED BY <1>5

\* First is the least position of that name.
LEMMA FirstIs ==
    ASSUME NEW T, NEW s \in Seq(T), NEW name, Named(s, name) # {}
    PROVE  /\ First(s, name) \in Named(s, name)
           /\ \A j \in Named(s, name) : First(s, name) <= j
<1>1. Len(s) \in Nat /\ Named(s, name) \in SUBSET (1..Len(s))
  BY DEF Named
<1>2. \E i \in Named(s, name) : \A j \in Named(s, name) : i <= j
  <2> DEFINE S == Named(s, name)
  <2>1. S \in SUBSET (1..Len(s)) /\ S # {}
    BY <1>1
  <2> HIDE DEF S
  <2>2. \E i \in S : \A j \in S : i <= j
    BY <1>1, <2>1, LeastPosition
  <2> QED BY <2>2 DEF S
<1> QED BY <1>2 DEF First

\* An entry is replaced by one of its name, or the new one is appended.
LEMMA UpsertIs ==
    ASSUME NEW s \in Seq(Entry), NEW e \in Entry
    PROVE  /\ Upsert(s, e) \in Seq(Entry)
           /\ DOMAIN s \subseteq DOMAIN Upsert(s, e)
           /\ \E k \in DOMAIN Upsert(s, e) :
                /\ Upsert(s, e)[k] = e
                /\ k \in DOMAIN s => s[k].name = e.name
                /\ \A i \in DOMAIN Upsert(s, e) : i # k => i \in DOMAIN s /\ Upsert(s, e)[i] = s[i]
                /\ k \notin DOMAIN s => Named(s, e.name) = {}
                /\ ~Differs(s, e) => k \in DOMAIN s /\ s[k] = e
<1>1. CASE Named(s, e.name) = {}
  <2>1. Upsert(s, e) = Append(s, e)
    BY <1>1 DEF Upsert
  <2>2. Differs(s, e)
    BY <1>1 DEF Differs
  <2>3. Append(s, e) \in Seq(Entry) /\ DOMAIN s \subseteq DOMAIN Append(s, e)
    OBVIOUS
  <2>4. Len(s) + 1 \in DOMAIN Append(s, e) /\ Len(s) + 1 \notin DOMAIN s /\ Append(s, e)[Len(s) + 1] = e
    OBVIOUS
  <2>5. \A i \in DOMAIN Append(s, e) : i # Len(s) + 1 => i \in DOMAIN s /\ Append(s, e)[i] = s[i]
    OBVIOUS
  <2> QED BY <1>1, <2>1, <2>2, <2>3, <2>4, <2>5
<1>2. CASE Named(s, e.name) # {}
  <2> DEFINE k == First(s, e.name)
  <2>1. k \in DOMAIN s /\ s[k].name = e.name
    BY <1>2, FirstIs DEF Named
  <2>2. Upsert(s, e) = [s EXCEPT ![k] = e]
    BY <1>2 DEF Upsert
  <2>3. ~Differs(s, e) => s[k] = e
    BY <1>2 DEF Differs
  <2> HIDE DEF k
  <2>4. [s EXCEPT ![k] = e] \in Seq(Entry) /\ DOMAIN [s EXCEPT ![k] = e] = DOMAIN s
    BY <2>1
  <2>5. [s EXCEPT ![k] = e][k] = e /\ \A i \in DOMAIN s : i # k => [s EXCEPT ![k] = e][i] = s[i]
    BY <2>1
  <2> QED BY <2>1, <2>2, <2>3, <2>4, <2>5
<1> QED BY <1>1, <1>2

\* Where the entry is there already nothing changes.
LEMMA UpsertSame ==
    ASSUME NEW s \in Seq(Entry), NEW e \in Entry, ~Differs(s, e)
    PROVE  Upsert(s, e) = s
<1>1. Named(s, e.name) # {} /\ s[First(s, e.name)] = e
  BY DEF Differs
<1>2. Upsert(s, e) = [s EXCEPT ![First(s, e.name)] = e]
  BY <1>1 DEF Upsert
<1> DEFINE k == First(s, e.name)
<1>3. s[k] = e /\ Upsert(s, e) = [s EXCEPT ![k] = e]
  BY <1>1, <1>2
<1> HIDE DEF k
<1> QED BY <1>3

\* Entries of other names stay what they are and where they are.
LEMMA UpsertElsewhere ==
    ASSUME NEW s \in Seq(Entry), NEW e \in Entry
    PROVE  /\ \A name : name # e.name => Named(Upsert(s, e), name) = Named(s, name)
           /\ \A i \in DOMAIN s : s[i].name # e.name => Upsert(s, e)[i] = s[i]
           /\ \A names : e.name \notin names => EntriesOf(Upsert(s, e), names) = EntriesOf(s, names)
<1> DEFINE u == Upsert(s, e)
<1>1. PICK k \in DOMAIN u : /\ u[k] = e
                            /\ k \in DOMAIN s => s[k].name = e.name
                            /\ \A i \in DOMAIN u : i # k => i \in DOMAIN s /\ u[i] = s[i]
  BY UpsertIs
<1>2. DOMAIN s \subseteq DOMAIN u
  BY UpsertIs
<1> HIDE DEF u
<1>3. \A i \in DOMAIN s : s[i].name # e.name => u[i] = s[i]
  BY <1>1, <1>2
<1>4. ASSUME NEW name, name # e.name
      PROVE  Named(u, name) = Named(s, name)
  BY <1>1, <1>2, <1>4 DEF Named
<1>5. ASSUME NEW names, e.name \notin names
      PROVE  EntriesOf(u, names) = EntriesOf(s, names)
  <2>1. {i \in DOMAIN u : u[i].name \in names} = {i \in DOMAIN s : s[i].name \in names}
    BY <1>1, <1>2, <1>5
  <2>2. \A i \in DOMAIN s : s[i].name \in names => u[i] = s[i]
    BY <1>3, <1>5
  <2> QED BY <2>1, <2>2 DEF EntriesOf
<1> QED BY <1>3, <1>4, <1>5 DEF u

-----------------------------------------------------------------------------
(***************************************************************************)
(* Pods and their containers.                                              *)
(***************************************************************************)
\* A configuration as the decoder yields it.
Decoded(c) == /\ c.mapping \in Mapping \cup {NoMapping}
              /\ DOMAIN c.overrides \subseteq Text
              /\ \A r \in DOMAIN c.overrides : c.overrides[r] \in Text

\* What no defaulter touches.
SamePod(p, q) == /\ q \in Pod
                 /\ q.ns = p.ns /\ q.ann = p.ann /\ q.modified = p.modified
                 /\ DOMAIN q.containers = DOMAIN p.containers
                 /\ \A i \in DOMAIN p.containers : q.containers[i].init = p.containers[i].init

SameImages(p, q) == \A i \in DOMAIN p.containers : q.containers[i].image = p.containers[i].image
SameEnv(p, q)    == \A i \in DOMAIN p.containers : q.containers[i].env = p.containers[i].env
SameMounts(p, q) == \A i \in DOMAIN p.containers : q.containers[i].mounts = p.containers[i].mounts

\* The containers of a pod are containers.
LEMMA ContainersOf ==
    ASSUME NEW p \in Pod, NEW i \in DOMAIN p.containers
    PROVE  /\ p.containers[i] \in Container
           /\ p.containers[i].image \in Image
           /\ p.containers[i].env \in Seq(Entry)
           /\ p.containers[i].mounts \in Seq(Entry)
<1>1. p.containers \in Seq(Container)
  BY DEF Pod
<1>2. p.containers[i] \in Container
  BY <1>1
<1> QED BY <1>2 DEF Container

\* A pod whose containers are replaced one by one.
LEMMA ContainersReplaced ==
    ASSUME NEW p \in Pod, NEW g, g = [i \in DOMAIN p.containers |-> g[i]],
           \A i \in DOMAIN p.containers : /\ g[i] \in Container
                                          /\ g[i].init = p.containers[i].init,
           NEW q, q = [p EXCEPT !.containers = g]
    PROVE  /\ SamePod(p, q)
           /\ q.hash = p.hash /\ q.secrets = p.secrets /\ q.volumes = p.volumes
           /\ q.containers = g
<1>1. p.containers \in Seq(Container)
  BY DEF Pod
<1>2. DOMAIN g = DOMAIN p.containers
  OBVIOUS
<1>3. g \in Seq(Container)
  <2>1. Len(p.containers) \in Nat /\ DOMAIN p.containers = 1..Len(p.containers)
    BY <1>1
  <2>2. g \in [1..Len(p.containers) -> Container]
    BY <2>1
  <2> QED BY <2>1, <2>2
<1>4. q \in Pod /\ q.containers = g
  BY <1>3 DEF Pod
<1>5. /\ q.ns = p.ns /\ q.ann = p.ann /\ q.modified = p.modified
      /\ q.hash = p.hash /\ q.secrets = p.secrets /\ q.volumes = p.volumes
  BY DEF Pod
<1> QED BY <1>2, <1>4, <1>5 DEF SamePod

\* Nothing but the order of the fields makes a pod.
LEMMA SameFields ==
    ASSUME NEW p \in Pod, NEW q \in Pod, SamePod(p, q), q.hash = p.hash,
           q.secrets = p.secrets, q.volumes = p.volumes,
           SameImages(p, q), SameEnv(p, q), SameMounts(p, q)
    PROVE  q = p
<1>1. ASSUME NEW i \in DOMAIN p.containers
      PROVE  q.containers[i] = p.containers[i]
  <2>1. q.containers[i] \in Container /\ p.containers[i] \in Container
    BY ContainersOf DEF SamePod
  <2>2. /\ q.containers[i].init = p.containers[i].init
        /\ q.containers[i].image = p.containers[i].image
        /\ q.containers[i].env = p.containers[i].env
        /\ q.containers[i].mounts = p.containers[i].mounts
    BY DEF SamePod, SameImages, SameEnv, SameMounts
  <2> QED BY <2>1, <2>2 DEF Container
<1>2. q.containers \in Seq(Container) /\ p.containers \in Seq(Container)
  BY DEF Pod
<1>3. q.containers = p.containers
  BY <1>1, <1>2 DEF SamePod
<1> QED BY <1>3 DEF SamePod, Pod

\* pod_defaulters.go:60-99: the images, and nothing but the images.
LEMMA AlterImgRegistryIs ==
    ASSUME NEW p \in Pod, NEW c, Decoded(c)
    PROVE  LET q == AlterImgRegistry(p, c)
           IN  /\ SamePod(p, q)
               /\ q.hash = p.hash /\ q.secrets = p.secrets /\ q.volumes = p.volumes
               /\ SameEnv(p, q) /\ SameMounts(p, q)
               /\ \A i \in DOMAIN p.containers :
                    q.containers[i].image = AlterImage(p.containers[i].image, c.overrides)
               /\ ~AltersImgRegistry(p, c) => q = p
<1> DEFINE New(i) == [p.containers[i] EXCEPT !.image = AlterImage(p.containers[i].image, c.overrides)]
<1> DEFINE g == [i \in DOMAIN p.containers |-> New(i)]
<1> DEFINE q == AlterImgRegistry(p, c)
<1>1. q = [p EXCEPT !.containers = g]
  BY DEF AlterImgRegistry, ForContainers
<1>2. ASSUME NEW i \in DOMAIN p.containers
      PROVE  /\ g[i] \in Container
             /\ g[i].init = p.containers[i].init
             /\ g[i].env = p.containers[i].env
             /\ g[i].mounts = p.containers[i].mounts
             /\ g[i].image = AlterImage(p.containers[i].image, c.overrides)
  <2>1. p.containers[i] \in Container /\ p.containers[i].image \in Image
    BY ContainersOf
  <2>2. AlterImage(p.containers[i].image, c.overrides) \in Image
    BY <2>1 DEF AlterImage, Image, Decoded
  <2> QED BY <2>1, <2>2 DEF Container
<1>3. g = [i \in DOMAIN p.containers |-> g[i]]
  OBVIOUS
<1> HIDE DEF g, q
<1>4. /\ SamePod(p, q) /\ q.containers = g
      /\ q.hash = p.hash /\ q.secrets = p.secrets /\ q.volumes = p.volumes
  <2>1. \A i \in DOMAIN p.containers : g[i] \in Container /\ g[i].init = p.containers[i].init
    BY <1>2
  <2> QED BY <1>1, <1>3, <2>1, ContainersReplaced
<1>5. SameEnv(p, q) /\ SameMounts(p, q)
  BY <1>2, <1>4 DEF SameEnv, SameMounts
<1>6. \A i \in DOMAIN p.containers :
        q.containers[i].image = AlterImage(p.containers[i].image, c.overrides)
  BY <1>2, <1>4
<1>7. ASSUME ~AltersImgRegistry(p, c)
      PROVE  q = p
  <2>1. SameImages(p, q)
    BY <1>6, <1>7 DEF SameImages, AltersImgRegistry
  <2> QED BY <1>4, <1>5, <2>1, SameFields DEF SamePod
<1> QED BY <1>4, <1>5, <1>6, <1>7 DEF q

\* pod_defaulters.go:101-112: the list of pull secrets.
LEMMA AddImagePullSecretIs ==
    ASSUME NEW p \in Pod
    PROVE  LET q == AddImagePullSecret(p)
           IN  /\ SamePod(p, q)
               /\ q.hash = p.hash /\ q.volumes = p.volumes /\ q.containers = p.containers
               /\ \E i \in DOMAIN q.secrets : q.secrets[i] = PullSecretName
               /\ HasImagePullSecret(p) => q = p
<1> DEFINE s == Append(p.secrets, PullSecretName)
<1>1. CASE HasImagePullSecret(p)
  BY <1>1 DEF AddImagePullSecret, HasImagePullSecret, SamePod
<1>2. CASE ~HasImagePullSecret(p)
  <2>1. AddImagePullSecret(p) = [p EXCEPT !.secrets = s]
    BY <1>2 DEF AddImagePullSecret
  <2>2. s \in Seq(Text) /\ Len(p.secrets) + 1 \in DOMAIN s /\ s[Len(p.secrets) + 1] = PullSecretName
    BY TextAssumption DEF Pod
  <2> HIDE DEF s
  <2> QED BY <1>2, <2>1, <2>2 DEF SamePod, Pod
<1> QED BY <1>1, <1>2

\* pod_defaulters.go:119-192, a mapping: the volume, and its mount in every container
\* that is not an init container.
LEMMA MountIs ==
    ASSUME NEW p \in Pod, NEW m \in Mapping
    PROVE  LET q == MountClusterTrustBundle(p, m)
           IN  /\ SamePod(p, q)
               /\ q.hash = p.hash /\ q.secrets = p.secrets
               /\ SameImages(p, q) /\ SameEnv(p, q)
               /\ q.volumes = Upsert(p.volumes, Volume(m))
               /\ \A i \in DOMAIN p.containers :
                    q.containers[i].mounts = IF p.containers[i].init THEN p.containers[i].mounts
                                             ELSE Upsert(p.containers[i].mounts, Mount(m))
<1> DEFINE New(i) == IF p.containers[i].init THEN p.containers[i]
                     ELSE [p.containers[i] EXCEPT !.mounts = Upsert(p.containers[i].mounts, Mount(m))]
<1> DEFINE g == [i \in DOMAIN p.containers |-> New(i)]
<1> DEFINE h == [p EXCEPT !.containers = g]
<1> DEFINE v == Upsert(p.volumes, Volume(m))
<1> DEFINE q == MountClusterTrustBundle(p, m)
<1>1. q = [h EXCEPT !.volumes = v]
  BY DEF MountClusterTrustBundle, ForContainers
<1>2. Volume(m) \in Entry /\ Mount(m) \in Entry
  BY DEF Volume, Mount, Entry, Mapping
<1>3. ASSUME NEW i \in DOMAIN p.containers
      PROVE  /\ g[i] \in Container
             /\ g[i].init = p.containers[i].init
             /\ g[i].env = p.containers[i].env
             /\ g[i].image = p.containers[i].image
             /\ g[i].mounts = IF p.containers[i].init THEN p.containers[i].mounts
                              ELSE Upsert(p.containers[i].mounts, Mount(m))
  <2>1. p.containers[i] \in Container /\ p.containers[i].mounts \in Seq(Entry)
    BY ContainersOf
  <2>2. Upsert(p.containers[i].mounts, Mount(m)) \in Seq(Entry)
    BY <1>2, <2>1, UpsertIs
  <2> QED BY <2>1, <2>2 DEF Container
<1>4. g = [i \in DOMAIN p.containers |-> g[i]]
  OBVIOUS
<1>5. v \in Seq(Entry)
  BY <1>2, UpsertIs DEF Pod
<1>6. h = [p EXCEPT !.containers = g]
  OBVIOUS
<1>7. v = Upsert(p.volumes, Volume(m))
  OBVIOUS
<1> HIDE DEF g, h, v, q
<1>8. /\ SamePod(p, h) /\ h.containers = g
      /\ h.hash = p.hash /\ h.secrets = p.secrets /\ h.volumes = p.volumes
  <2>1. \A i \in DOMAIN p.containers : g[i] \in Container /\ g[i].init = p.containers[i].init
    BY <1>3
  <2> QED BY <1>4, <1>6, <2>1, ContainersReplaced
<1>9. /\ q \in Pod /\ q.ns = h.ns /\ q.ann = h.ann /\ q.modified = h.modified
      /\ q.containers = h.containers /\ q.hash = h.hash /\ q.secrets = h.secrets
      /\ q.volumes = v
  <2>1. h \in Pod
    BY <1>8 DEF SamePod
  <2> QED BY <1>1, <1>5, <2>1 DEF Pod
<1>10. SamePod(p, q) /\ q.hash = p.hash /\ q.secrets = p.secrets
  BY <1>8, <1>9 DEF SamePod
<1>11. SameImages(p, q) /\ SameEnv(p, q)
  BY <1>3, <1>8, <1>9 DEF SameImages, SameEnv
<1>12. \A i \in DOMAIN p.containers :
         q.containers[i].mounts = IF p.containers[i].init THEN p.containers[i].mounts
                                  ELSE Upsert(p.containers[i].mounts, Mount(m))
  BY <1>3, <1>8, <1>9
<1> QED BY <1>7, <1>9, <1>10, <1>11, <1>12 DEF q

\* pod_defaulters.go:194-217: what a mapping says is mounted, a hash is stamped.
LEMMA AddClusterTrustBundleIs ==
    ASSUME NEW p \in Pod, NEW c, Decoded(c), NEW hash \in Hash \cup {NoHash}
    PROVE  LET q == AddClusterTrustBundle(p, c, hash)
           IN  /\ SamePod(p, q)
               /\ q.secrets = p.secrets
               /\ SameImages(p, q) /\ SameEnv(p, q)
               /\ q.hash = IF hash = NoHash THEN p.hash ELSE hash
               /\ q.volumes = IF c.mapping = NoMapping THEN p.volumes
                              ELSE Upsert(p.volumes, Volume(c.mapping))
               /\ \A i \in DOMAIN p.containers :
                    q.containers[i].mounts =
                      IF c.mapping = NoMapping \/ p.containers[i].init THEN p.containers[i].mounts
                      ELSE Upsert(p.containers[i].mounts, Mount(c.mapping))
               /\ ~AddsClusterTrustBundle(p, c, hash) => q = p
<1> DEFINE m == IF c.mapping = NoMapping THEN p ELSE MountClusterTrustBundle(p, c.mapping)
<1> DEFINE q == AddClusterTrustBundle(p, c, hash)
<1>1. q = IF hash = NoHash THEN m ELSE [m EXCEPT !.hash = hash]
  BY DEF AddClusterTrustBundle
<1>2. /\ SamePod(p, m)
      /\ m.hash = p.hash /\ m.secrets = p.secrets
      /\ SameImages(p, m) /\ SameEnv(p, m)
      /\ m.volumes = IF c.mapping = NoMapping THEN p.volumes
                     ELSE Upsert(p.volumes, Volume(c.mapping))
      /\ \A i \in DOMAIN p.containers :
           m.containers[i].mounts =
             IF c.mapping = NoMapping \/ p.containers[i].init THEN p.containers[i].mounts
             ELSE Upsert(p.containers[i].mounts, Mount(c.mapping))
  <2>1. CASE c.mapping = NoMapping
    BY <2>1 DEF SamePod, SameImages, SameEnv
  <2>2. CASE c.mapping # NoMapping
    <3>1. c.mapping \in Mapping
      BY <2>2 DEF Decoded
    <3> QED BY <2>2, <3>1, MountIs
  <2> QED BY <2>1, <2>2
<1> HIDE DEF m, q
<1>3. /\ q \in Pod /\ q.ns = m.ns /\ q.ann = m.ann /\ q.modified = m.modified
      /\ q.containers = m.containers /\ q.secrets = m.secrets /\ q.volumes = m.volumes
      /\ q.hash = IF hash = NoHash THEN m.hash ELSE hash
  <2>1. m \in Pod
    BY <1>2 DEF SamePod
  <2> QED BY <1>1, <2>1 DEF Pod
<1>4. SamePod(p, q)
  BY <1>2, <1>3 DEF SamePod
<1>5. SameImages(p, q) /\ SameEnv(p, q)
  BY <1>2, <1>3 DEF SameImages, SameEnv
<1>6. ASSUME ~AddsClusterTrustBundle(p, c, hash)
      PROVE  q = p
  <2>1. hash = NoHash
    BY <1>6 DEF AddsClusterTrustBundle
  <2>2. q.volumes = p.volumes
    <3>1. CASE c.mapping = NoMapping
      BY <3>1, <1>2, <1>3
    <3>2. CASE c.mapping # NoMapping
      <4>1. c.mapping \in Mapping /\ ~Differs(p.volumes, Volume(c.mapping))
        BY <1>6, <3>2 DEF AddsClusterTrustBundle, Decoded
      <4>2. Volume(c.mapping) \in Entry /\ p.volumes \in Seq(Entry)
        BY <4>1 DEF Volume, Entry, Mapping, Pod
      <4>3. Upsert(p.volumes, Volume(c.mapping)) = p.volumes
        BY <4>1, <4>2, UpsertSame
      <4> QED BY <3>2, <4>3, <1>2, <1>3
    <3> QED BY <3>1, <3>2
  <2>3. SameMounts(p, q)
    BY <1>2, <1>3, <1>6 DEF AddsClusterTrustBundle, SameMounts
  <2> QED BY <2>1, <2>2, <2>3, <1>2, <1>3, <1>4, <1>5, SameFields DEF SamePod
<1> QED BY <1>2, <1>3, <1>4, <1>5, <1>6 DEF q

\* The variables of the two defaulters below are entries.
LEMMA VariablesAreEntries ==
    /\ FipsMode(1) \in Entry /\ FipsMode(1).name = "KYMA_FIPS_MODE_ENABLED"
    /\ FipsMode(2) \in Entry /\ FipsMode(2).name = "FIPS_MODE_ENABLED"
    /\ \A value \in Text : Landscape(value) \in Entry /\ Landscape(value).name = "KYMA_LANDSCAPE"
  BY TextAssumption DEF FipsMode, FipsVariables, Landscape, Entry

\* A pod whose environments alone are replaced.
LEMMA EnvReplaced ==
    ASSUME NEW p \in Pod, NEW e,
           \A i \in DOMAIN p.containers : e[i] \in Seq(Entry),
           NEW q, q = [p EXCEPT !.containers =
                         [i \in DOMAIN p.containers |-> [p.containers[i] EXCEPT !.env = e[i]]]]
    PROVE  /\ SamePod(p, q)
           /\ q.hash = p.hash /\ q.secrets = p.secrets /\ q.volumes = p.volumes
           /\ SameImages(p, q) /\ SameMounts(p, q)
           /\ \A i \in DOMAIN p.containers : q.containers[i].env = e[i]
           /\ (\A i \in DOMAIN p.containers : e[i] = p.containers[i].env) => q = p
<1> DEFINE g == [i \in DOMAIN p.containers |-> [p.containers[i] EXCEPT !.env = e[i]]]
<1>1. ASSUME NEW i \in DOMAIN p.containers
      PROVE  /\ g[i] \in Container
             /\ g[i].init = p.containers[i].init
             /\ g[i].image = p.containers[i].image
             /\ g[i].mounts = p.containers[i].mounts
             /\ g[i].env = e[i]
  <2>1. p.containers[i] \in Container
    BY ContainersOf
  <2> QED BY <2>1 DEF Container
<1>2. g = [i \in DOMAIN p.containers |-> g[i]] /\ q = [p EXCEPT !.containers = g]
  OBVIOUS
<1> HIDE DEF g
<1>3. /\ SamePod(p, q) /\ q.containers = g
      /\ q.hash = p.hash /\ q.secrets = p.secrets /\ q.volumes = p.volumes
  <2>1. \A i \in DOMAIN p.containers : g[i] \in Container /\ g[i].init = p.containers[i].init
    BY <1>1
  <2>2. g = [i \in DOMAIN p.containers |-> g[i]]
    BY <1>2
  <2>3. q = [p EXCEPT !.containers = g]
    BY <1>2
  <2> QED BY ONLY p \in Pod, <2>1, <2>2, <2>3, ContainersReplaced
<1>4. SameImages(p, q) /\ SameMounts(p, q)
  BY <1>1, <1>3 DEF SameImages, SameMounts
<1>5. \A i \in DOMAIN p.containers : q.containers[i].env = e[i]
  BY <1>1, <1>3
<1>6. ASSUME \A i \in DOMAIN p.containers : e[i] = p.containers[i].env
      PROVE  q = p
  <2>1. SameEnv(p, q)
    BY <1>5, <1>6 DEF SameEnv
  <2> QED BY <1>3, <1>4, <2>1, SameFields DEF SamePod
<1> QED BY <1>3, <1>4, <1>5, <1>6

\* pod_defaulter_fips_mode.go:26-89: both variables of every container.
LEMMA SetFipsModeIs ==
    ASSUME NEW p \in Pod
    PROVE  LET q == SetFipsMode(p)
           IN  /\ SamePod(p, q)
               /\ q.hash = p.hash /\ q.secrets = p.secrets /\ q.volumes = p.volumes
               /\ SameImages(p, q) /\ SameMounts(p, q)
               /\ \A i \in DOMAIN p.containers :
                    q.containers[i].env
                      = Upsert(Upsert(p.containers[i].env, FipsMode(1)), FipsMode(2))
               /\ ~SetsFipsMode(p) => q = p
<1> DEFINE e == [i \in DOMAIN p.containers |->
                   Upsert(Upsert(p.containers[i].env, FipsMode(1)), FipsMode(2))]
<1> DEFINE q == SetFipsMode(p)
<1>1. q = [p EXCEPT !.containers =
             [i \in DOMAIN p.containers |-> [p.containers[i] EXCEPT !.env = e[i]]]]
  BY DEF SetFipsMode, ForContainers
<1>2. ASSUME NEW i \in DOMAIN p.containers
      PROVE  e[i] \in Seq(Entry)
  <2>1. p.containers[i].env \in Seq(Entry)
    BY ContainersOf
  <2>2. Upsert(p.containers[i].env, FipsMode(1)) \in Seq(Entry)
    BY <2>1, VariablesAreEntries, UpsertIs
  <2> QED BY <2>2, VariablesAreEntries, UpsertIs
<1>3. ASSUME ~SetsFipsMode(p), NEW i \in DOMAIN p.containers
      PROVE  e[i] = p.containers[i].env
  <2>1. p.containers[i].env \in Seq(Entry)
    BY ContainersOf
  <2>2. ~Differs(p.containers[i].env, FipsMode(1)) /\ ~Differs(p.containers[i].env, FipsMode(2))
    BY <1>3 DEF SetsFipsMode
  <2>3. Upsert(p.containers[i].env, FipsMode(1)) = p.containers[i].env
    BY <2>1, <2>2, VariablesAreEntries, UpsertSame
  <2>4. Upsert(p.containers[i].env, FipsMode(2)) = p.containers[i].env
    BY <2>1, <2>2, VariablesAreEntries, UpsertSame
  <2> QED BY <2>3, <2>4
<1>4. \A i \in DOMAIN p.containers :
        e[i] = Upsert(Upsert(p.containers[i].env, FipsMode(1)), FipsMode(2))
  OBVIOUS
<1> HIDE DEF e, q
<1>5. /\ SamePod(p, q)
      /\ q.hash = p.hash /\ q.secrets = p.secrets /\ q.volumes = p.volumes
      /\ SameImages(p, q) /\ SameMounts(p, q)
      /\ \A i \in DOMAIN p.containers : q.containers[i].env = e[i]
      /\ (\A i \in DOMAIN p.containers : e[i] = p.containers[i].env) => q = p
  BY <1>1, <1>2, EnvReplaced
<1> QED BY <1>3, <1>4, <1>5 DEF q

\* pod_defaulter_landscape.go:17-78: one variable of every container.
LEMMA SetLandscapeIs ==
    ASSUME NEW p \in Pod, NEW landscape \in Text
    PROVE  LET q == SetLandscape(p, landscape)
           IN  /\ SamePod(p, q)
               /\ q.hash = p.hash /\ q.secrets = p.secrets /\ q.volumes = p.volumes
               /\ SameImages(p, q) /\ SameMounts(p, q)
               /\ \A i \in DOMAIN p.containers :
                    q.containers[i].env = Upsert(p.containers[i].env, Landscape(landscape))
               /\ ~SetsLandscape(p, landscape) => q = p
<1> DEFINE e == [i \in DOMAIN p.containers |-> Upsert(p.containers[i].env, Landscape(landscape))]
<1> DEFINE q == SetLandscape(p, landscape)
<1>1. q = [p EXCEPT !.containers =
             [i \in DOMAIN p.containers |-> [p.containers[i] EXCEPT !.env = e[i]]]]
  BY DEF SetLandscape, ForContainers
<1>2. ASSUME NEW i \in DOMAIN p.containers
      PROVE  /\ e[i] \in Seq(Entry)
             /\ ~SetsLandscape(p, landscape) => e[i] = p.containers[i].env
  <2>1. p.containers[i].env \in Seq(Entry) /\ Landscape(landscape) \in Entry
    BY ContainersOf, VariablesAreEntries
  <2> QED BY <2>1, UpsertIs, UpsertSame DEF SetsLandscape
<1>3. \A i \in DOMAIN p.containers : e[i] = Upsert(p.containers[i].env, Landscape(landscape))
  OBVIOUS
<1> HIDE DEF e, q
<1>4. /\ SamePod(p, q)
      /\ q.hash = p.hash /\ q.secrets = p.secrets /\ q.volumes = p.volumes
      /\ SameImages(p, q) /\ SameMounts(p, q)
      /\ \A i \in DOMAIN p.containers : q.containers[i].env = e[i]
      /\ (\A i \in DOMAIN p.containers : e[i] = p.containers[i].env) => q = p
  BY <1>1, <1>2, EnvReplaced
<1> QED BY <1>2, <1>3, <1>4 DEF q

-----------------------------------------------------------------------------
(***************************************************************************)
(* The defaulter of a feature, whichever it is.                            *)
(***************************************************************************)
\* What the process holds when a defaulter looks at it.
Held(proc) == proc.hash \in Hash \cup {NoHash} /\ proc.landscape \in Text

\* The parts of two pods agree where their fields do.
LEMMA PartsAgree ==
    ASSUME NEW p \in Pod, NEW q \in Pod, SamePod(p, q)
    PROVE  /\ SameImages(p, q) => Part("alter-img-registry", q) = Part("alter-img-registry", p)
           /\ q.secrets = p.secrets => Part("add-img-pull-secret", q) = Part("add-img-pull-secret", p)
           /\ q.volumes = p.volumes /\ q.hash = p.hash /\ SameMounts(p, q)
                => Part("add-cluster-trust-bundle", q) = Part("add-cluster-trust-bundle", p)
           /\ \A names :
                (\A i \in DOMAIN p.containers :
                   EntriesOf(q.containers[i].env, names) = EntriesOf(p.containers[i].env, names))
                => EnvOf(q, names) = EnvOf(p, names)
<1>1. DOMAIN q.containers = DOMAIN p.containers
  BY DEF SamePod
<1>2. SameImages(p, q) => [i \in DOMAIN q.containers |-> q.containers[i].image]
                            = [i \in DOMAIN p.containers |-> p.containers[i].image]
  BY <1>1 DEF SameImages
<1>3. SameMounts(p, q) => [i \in DOMAIN q.containers |-> q.containers[i].mounts]
                            = [i \in DOMAIN p.containers |-> p.containers[i].mounts]
  BY <1>1 DEF SameMounts
<1>4. ASSUME NEW names,
             \A i \in DOMAIN p.containers :
               EntriesOf(q.containers[i].env, names) = EntriesOf(p.containers[i].env, names)
      PROVE  EnvOf(q, names) = EnvOf(p, names)
  BY <1>1, <1>4 DEF EnvOf
<1>5. /\ Part("alter-img-registry", p) = [i \in DOMAIN p.containers |-> p.containers[i].image]
      /\ Part("alter-img-registry", q) = [i \in DOMAIN q.containers |-> q.containers[i].image]
  BY DEF Part
<1>6. /\ Part("add-img-pull-secret", p) = p.secrets
      /\ Part("add-img-pull-secret", q) = q.secrets
  BY DEF Part
<1>7. /\ Part("add-cluster-trust-bundle", p)
           = <<p.volumes, p.hash, [i \in DOMAIN p.containers |-> p.containers[i].mounts]>>
      /\ Part("add-cluster-trust-bundle", q)
           = <<q.volumes, q.hash, [i \in DOMAIN q.containers |-> q.containers[i].mounts]>>
  BY DEF Part
<1> QED BY <1>2, <1>3, <1>4, <1>5, <1>6, <1>7

\* The two parts that are variables.
LEMMA PartsOfEnv ==
    ASSUME NEW p
    PROVE  /\ Part("set-fips-mode", p) = EnvOf(p, {"KYMA_FIPS_MODE_ENABLED", "FIPS_MODE_ENABLED"})
           /\ Part("set-landscape", p) = EnvOf(p, {"KYMA_LANDSCAPE"})
  BY DEF Part

\* Where the environments are the same, both are.
LEMMA EnvPartsAgree ==
    ASSUME NEW p \in Pod, NEW q \in Pod, SamePod(p, q), SameEnv(p, q)
    PROVE  /\ Part("set-fips-mode", q) = Part("set-fips-mode", p)
           /\ Part("set-landscape", q) = Part("set-landscape", p)
<1>1. ASSUME NEW names
      PROVE  EnvOf(q, names) = EnvOf(p, names)
  <2>1. \A i \in DOMAIN p.containers :
          EntriesOf(q.containers[i].env, names) = EntriesOf(p.containers[i].env, names)
    BY DEF SameEnv
  <2> QED BY <2>1, PartsAgree
<1> QED BY <1>1, PartsOfEnv

\* Which operator the defaulter of a feature is.
LEMMA DefaultBy ==
    ASSUME NEW p, NEW a, NEW c, NEW proc
    PROVE  /\ \A f : ~OptedIn(f, p, a, c) => Default(f, p, a, c, proc) = p
           /\ OptedIn("alter-img-registry", p, a, c) =>
                Default("alter-img-registry", p, a, c, proc) = AlterImgRegistry(p, c)
           /\ OptedIn("add-img-pull-secret", p, a, c) =>
                Default("add-img-pull-secret", p, a, c, proc) = AddImagePullSecret(p)
           /\ OptedIn("add-cluster-trust-bundle", p, a, c) =>
                Default("add-cluster-trust-bundle", p, a, c, proc) = AddClusterTrustBundle(p, c, proc.hash)
           /\ OptedIn("set-fips-mode", p, a, c) =>
                Default("set-fips-mode", p, a, c, proc) = SetFipsMode(p)
           /\ OptedIn("set-landscape", p, a, c) =>
                Default("set-landscape", p, a, c, proc) = SetLandscape(p, proc.landscape)
  BY DEF Default

\* A defaulter leaves a pod a pod, says so if it changes it, and leaves what belongs
\* to the other features alone.
LEMMA DefaultIs ==
    ASSUME NEW f \in KnownFeatureKeys, NEW p \in Pod, NEW a, NEW c, NEW proc,
           Decoded(c), Held(proc)
    PROVE  LET q == Default(f, p, a, c, proc)
           IN  /\ SamePod(p, q)
               /\ ~Modifies(f, p, a, c, proc) => q = p
               /\ ~OptedIn(f, p, a, c) => q = p
               /\ \A g \in KnownFeatureKeys \ {f} : Part(g, q) = Part(g, p)
<1> DEFINE q == Default(f, p, a, c, proc)
<1>1. CASE ~OptedIn(f, p, a, c)
  BY <1>1, DefaultBy DEF SamePod
<1>2. CASE OptedIn(f, p, a, c) /\ f = "alter-img-registry"
  <2>1. q = AlterImgRegistry(p, c)
    BY <1>2, DefaultBy
  <2> HIDE DEF q
  <2>2. /\ SamePod(p, q)
        /\ q.hash = p.hash /\ q.secrets = p.secrets /\ q.volumes = p.volumes
        /\ SameEnv(p, q) /\ SameMounts(p, q)
        /\ ~AltersImgRegistry(p, c) => q = p
    BY <2>1, AlterImgRegistryIs
  <2>3. ~Modifies(f, p, a, c, proc) => q = p
    BY <1>2, <2>2 DEF Modifies
  <2>4. \A g \in KnownFeatureKeys \ {f} : Part(g, q) = Part(g, p)
    BY <1>2, <2>2, PartsAgree, EnvPartsAgree DEF KnownFeatureKeys, SamePod
  <2> QED BY <1>2, <2>2, <2>3, <2>4 DEF q
<1>3. CASE OptedIn(f, p, a, c) /\ f = "add-img-pull-secret"
  <2>1. q = AddImagePullSecret(p)
    BY <1>3, DefaultBy
  <2> HIDE DEF q
  <2>2. /\ SamePod(p, q)
        /\ q.hash = p.hash /\ q.volumes = p.volumes /\ q.containers = p.containers
        /\ HasImagePullSecret(p) => q = p
    BY <2>1, AddImagePullSecretIs
  <2>3. ~Modifies(f, p, a, c, proc) => q = p
    BY <1>3, <2>2 DEF Modifies
  <2>4. SameImages(p, q) /\ SameEnv(p, q) /\ SameMounts(p, q)
    BY <2>2 DEF SameImages, SameEnv, SameMounts
  <2>5. \A g \in KnownFeatureKeys \ {f} : Part(g, q) = Part(g, p)
    BY <1>3, <2>2, <2>4, PartsAgree, EnvPartsAgree DEF KnownFeatureKeys, SamePod
  <2> QED BY <1>3, <2>2, <2>3, <2>5 DEF q
<1>4. CASE OptedIn(f, p, a, c) /\ f = "add-cluster-trust-bundle"
  <2>1. q = AddClusterTrustBundle(p, c, proc.hash)
    BY <1>4, DefaultBy
  <2> HIDE DEF q
  <2>2. /\ SamePod(p, q)
        /\ q.secrets = p.secrets /\ SameImages(p, q) /\ SameEnv(p, q)
        /\ ~AddsClusterTrustBundle(p, c, proc.hash) => q = p
    BY <2>1, AddClusterTrustBundleIs DEF Held
  <2>3. ~Modifies(f, p, a, c, proc) => q = p
    BY <1>4, <2>2 DEF Modifies
  <2>4. \A g \in KnownFeatureKeys \ {f} : Part(g, q) = Part(g, p)
    BY <1>4, <2>2, PartsAgree, EnvPartsAgree DEF KnownFeatureKeys, SamePod
  <2> QED BY <1>4, <2>2, <2>3, <2>4 DEF q
<1>5. CASE OptedIn(f, p, a, c) /\ f = "set-fips-mode"
  <2>1. q = SetFipsMode(p)
    BY <1>5, DefaultBy
  <2> HIDE DEF q
  <2>2. /\ SamePod(p, q)
        /\ q.hash = p.hash /\ q.secrets = p.secrets /\ q.volumes = p.volumes
        /\ SameImages(p, q) /\ SameMounts(p, q)
        /\ \A i \in DOMAIN p.containers :
             q.containers[i].env = Upsert(Upsert(p.containers[i].env, FipsMode(1)), FipsMode(2))
        /\ ~SetsFipsMode(p) => q = p
    BY <2>1, SetFipsModeIs
  <2>3. ~Modifies(f, p, a, c, proc) => q = p
    BY <1>5, <2>2 DEF Modifies
  <2>4. Part("set-landscape", q) = Part("set-landscape", p)
    <3>1. ASSUME NEW i \in DOMAIN p.containers
          PROVE  EntriesOf(q.containers[i].env, {"KYMA_LANDSCAPE"})
                   = EntriesOf(p.containers[i].env, {"KYMA_LANDSCAPE"})
      <4> DEFINE once == Upsert(p.containers[i].env, FipsMode(1))
      <4>1. p.containers[i].env \in Seq(Entry)
        BY ContainersOf
      <4>2. once \in Seq(Entry)
        BY <4>1, VariablesAreEntries, UpsertIs
      <4>3. EntriesOf(once, {"KYMA_LANDSCAPE"}) = EntriesOf(p.containers[i].env, {"KYMA_LANDSCAPE"})
        BY <4>1, VariablesAreEntries, UpsertElsewhere
      <4>4. EntriesOf(Upsert(once, FipsMode(2)), {"KYMA_LANDSCAPE"}) = EntriesOf(once, {"KYMA_LANDSCAPE"})
        <5> HIDE DEF once
        <5> QED BY <4>2, VariablesAreEntries, UpsertElsewhere
      <4> QED BY <2>2, <4>3, <4>4
    <3> QED BY <2>2, <3>1, PartsAgree, PartsOfEnv DEF SamePod
  <2>5. \A g \in KnownFeatureKeys \ {f} : Part(g, q) = Part(g, p)
    BY <1>5, <2>2, <2>4, PartsAgree DEF KnownFeatureKeys, SamePod
  <2> QED BY <1>5, <2>2, <2>3, <2>5 DEF q
<1>6. CASE OptedIn(f, p, a, c) /\ f = "set-landscape"
  <2>1. q = SetLandscape(p, proc.landscape)
    BY <1>6, DefaultBy
  <2> HIDE DEF q
  <2>2. /\ SamePod(p, q)
        /\ q.hash = p.hash /\ q.secrets = p.secrets /\ q.volumes = p.volumes
        /\ SameImages(p, q) /\ SameMounts(p, q)
        /\ \A i \in DOMAIN p.containers :
             q.containers[i].env = Upsert(p.containers[i].env, Landscape(proc.landscape))
        /\ ~SetsLandscape(p, proc.landscape) => q = p
    BY <2>1, SetLandscapeIs DEF Held
  <2>3. ~Modifies(f, p, a, c, proc) => q = p
    BY <1>6, <2>2 DEF Modifies
  <2>4. Part("set-fips-mode", q) = Part("set-fips-mode", p)
    <3> DEFINE names == {"KYMA_FIPS_MODE_ENABLED", "FIPS_MODE_ENABLED"}
    <3>1. ASSUME NEW i \in DOMAIN p.containers
          PROVE  EntriesOf(q.containers[i].env, names) = EntriesOf(p.containers[i].env, names)
      <4>1. p.containers[i].env \in Seq(Entry) /\ Landscape(proc.landscape) \in Entry
        BY ContainersOf, VariablesAreEntries DEF Held
      <4>2. Landscape(proc.landscape).name \notin names
        BY VariablesAreEntries DEF Held
      <4> QED BY <2>2, <4>1, <4>2, UpsertElsewhere
    <3> QED BY <2>2, <3>1, PartsAgree, PartsOfEnv DEF SamePod
  <2>5. \A g \in KnownFeatureKeys \ {f} : Part(g, q) = Part(g, p)
    BY <1>6, <2>2, <2>4, PartsAgree DEF KnownFeatureKeys, SamePod
  <2> QED BY <1>6, <2>2, <2>3, <2>5 DEF q
<1> QED BY <1>1, <1>2, <1>3, <1>4, <1>5, <1>6 DEF KnownFeatureKeys

-----------------------------------------------------------------------------
(***************************************************************************)
(* The parts of a pod determine what belongs to the features.              *)
(***************************************************************************)
\* Two functions on one domain are the same only if their values are.
LEMMA EntriesAgree ==
    ASSUME NEW s, NEW t, NEW names, EntriesOf(s, names) = EntriesOf(t, names)
    PROVE  /\ \A name \in names : Named(s, name) = Named(t, name)
           /\ \A name \in names : \A k \in Named(s, name) : s[k] = t[k]
<1>1. DOMAIN EntriesOf(s, names) = {k \in DOMAIN s : s[k].name \in names}
  BY DEF EntriesOf
<1>2. DOMAIN EntriesOf(t, names) = {k \in DOMAIN t : t[k].name \in names}
  BY DEF EntriesOf
<1>3. \A k \in DOMAIN EntriesOf(s, names) : EntriesOf(s, names)[k] = s[k] /\ EntriesOf(t, names)[k] = t[k]
  BY <1>2 DEF EntriesOf
<1>4. \A k \in DOMAIN EntriesOf(s, names) : s[k] = t[k]
  BY <1>3
<1> QED BY <1>1, <1>2, <1>4 DEF Named

\* So an entry of one of these names is missing or another one in both or in neither.
LEMMA DiffersAgree ==
    ASSUME NEW s \in Seq(Entry), NEW t \in Seq(Entry), NEW names, NEW e, e.name \in names,
           EntriesOf(s, names) = EntriesOf(t, names)
    PROVE  Differs(s, e) <=> Differs(t, e)
<1>1. Named(s, e.name) = Named(t, e.name) /\ \A k \in Named(s, e.name) : s[k] = t[k]
  BY EntriesAgree
<1>2. First(s, e.name) = First(t, e.name)
  BY <1>1 DEF First
<1>3. Named(s, e.name) # {} => First(s, e.name) \in Named(s, e.name)
  BY FirstIs
<1> QED BY <1>1, <1>2, <1>3 DEF Differs

\* The converse of PartsAgree.
LEMMA PartsSay ==
    ASSUME NEW p \in Pod, NEW q \in Pod, SamePod(p, q)
    PROVE  /\ Part("alter-img-registry", q) = Part("alter-img-registry", p) => SameImages(p, q)
           /\ Part("add-img-pull-secret", q) = Part("add-img-pull-secret", p) => q.secrets = p.secrets
           /\ Part("add-cluster-trust-bundle", q) = Part("add-cluster-trust-bundle", p)
                => q.volumes = p.volumes /\ q.hash = p.hash /\ SameMounts(p, q)
           /\ \A names : EnvOf(q, names) = EnvOf(p, names) =>
                \A i \in DOMAIN p.containers :
                  EntriesOf(q.containers[i].env, names) = EntriesOf(p.containers[i].env, names)
<1>1. DOMAIN q.containers = DOMAIN p.containers
  BY DEF SamePod
<1>2. ASSUME Part("alter-img-registry", q) = Part("alter-img-registry", p),
             NEW i \in DOMAIN p.containers
      PROVE  q.containers[i].image = p.containers[i].image
  <2>1. [j \in DOMAIN q.containers |-> q.containers[j].image]
          = [j \in DOMAIN p.containers |-> p.containers[j].image]
    BY <1>2 DEF Part
  <2>2. [j \in DOMAIN q.containers |-> q.containers[j].image][i] = q.containers[i].image
    BY <1>1
  <2> QED BY <2>1, <2>2
<1>3. ASSUME Part("add-img-pull-secret", q) = Part("add-img-pull-secret", p)
      PROVE  q.secrets = p.secrets
  BY <1>3 DEF Part
<1>4. ASSUME Part("add-cluster-trust-bundle", q) = Part("add-cluster-trust-bundle", p)
      PROVE  q.volumes = p.volumes /\ q.hash = p.hash /\ SameMounts(p, q)
  <2>1. <<q.volumes, q.hash, [j \in DOMAIN q.containers |-> q.containers[j].mounts]>>
          = <<p.volumes, p.hash, [j \in DOMAIN p.containers |-> p.containers[j].mounts]>>
    BY <1>4 DEF Part
  <2>2. /\ q.volumes = p.volumes /\ q.hash = p.hash
        /\ [j \in DOMAIN q.containers |-> q.containers[j].mounts]
             = [j \in DOMAIN p.containers |-> p.containers[j].mounts]
    BY <2>1
  <2>3. ASSUME NEW i \in DOMAIN p.containers
        PROVE  q.containers[i].mounts = p.containers[i].mounts
    <3>1. [j \in DOMAIN q.containers |-> q.containers[j].mounts][i] = q.containers[i].mounts
      BY <1>1
    <3> QED BY <2>2, <3>1
  <2> QED BY <2>2, <2>3 DEF SameMounts
<1>5. ASSUME NEW names, EnvOf(q, names) = EnvOf(p, names), NEW i \in DOMAIN p.containers
      PROVE  EntriesOf(q.containers[i].env, names) = EntriesOf(p.containers[i].env, names)
  <2>1. EnvOf(q, names)[i] = EntriesOf(q.containers[i].env, names)
    BY <1>1 DEF EnvOf
  <2>2. EnvOf(p, names)[i] = EntriesOf(p.containers[i].env, names)
    BY DEF EnvOf
  <2> QED BY <1>5, <2>1, <2>2
<1> QED BY <1>2, <1>3, <1>4, <1>5 DEF SameImages

\* The same for the parts that are variables.
LEMMA EnvPartsSay ==
    ASSUME NEW p \in Pod, NEW q \in Pod, SamePod(p, q), NEW i \in DOMAIN p.containers
    PROVE  /\ Part("set-fips-mode", q) = Part("set-fips-mode", p) =>
                EntriesOf(q.containers[i].env, {"KYMA_FIPS_MODE_ENABLED", "FIPS_MODE_ENABLED"})
                  = EntriesOf(p.containers[i].env, {"KYMA_FIPS_MODE_ENABLED", "FIPS_MODE_ENABLED"})
           /\ Part("set-landscape", q) = Part("set-landscape", p) =>
                EntriesOf(q.containers[i].env, {"KYMA_LANDSCAPE"})
                  = EntriesOf(p.containers[i].env, {"KYMA_LANDSCAPE"})
  BY PartsSay, PartsOfEnv

\* An entry that has been upserted is there: the next Upsert finds it.
LEMMA UpsertSettles ==
    ASSUME NEW s \in Seq(Entry), NEW e \in Entry
    PROVE  ~Differs(Upsert(s, e), e)
<1> DEFINE u == Upsert(s, e)
<1>1. CASE Named(s, e.name) = {}
  <2>1. PICK k \in DOMAIN u : /\ u[k] = e
                              /\ k \in DOMAIN s => s[k].name = e.name
                              /\ \A i \in DOMAIN u : i # k => i \in DOMAIN s /\ u[i] = s[i]
    BY UpsertIs
  <2>2. u \in Seq(Entry)
    BY UpsertIs
  <2> HIDE DEF u
  <2>3. Named(u, e.name) = {k}
    BY <1>1, <2>1 DEF Named
  <2>4. First(u, e.name) \in Named(u, e.name)
    BY <2>2, <2>3, FirstIs
  <2> QED BY <2>1, <2>3, <2>4 DEF Differs, u
<1>2. CASE Named(s, e.name) # {}
  <2> DEFINE k == First(s, e.name)
  <2>1. k \in DOMAIN s /\ s[k].name = e.name
    BY <1>2, FirstIs DEF Named
  <2>2. u = [s EXCEPT ![k] = e]
    BY <1>2 DEF Upsert
  <2> HIDE DEF k, u
  <2>3. /\ DOMAIN u = DOMAIN s /\ u[k] = e
        /\ \A i \in DOMAIN s : i # k => u[i] = s[i]
    BY <2>1, <2>2
  <2>4. Named(u, e.name) = Named(s, e.name)
    BY <2>1, <2>3 DEF Named
  <2>5. First(u, e.name) = k
    BY <2>4 DEF First, k
  <2> QED BY <1>2, <2>3, <2>4, <2>5 DEF Differs, u
<1> QED BY <1>1, <1>2

\* Both variables of FIPS mode.
LEMMA BothSettle ==
    ASSUME NEW s \in Seq(Entry), NEW d \in Entry, NEW e \in Entry, d.name # e.name
    PROVE  LET u == Upsert(Upsert(s, d), e)
           IN  u \in Seq(Entry) /\ ~Differs(u, d) /\ ~Differs(u, e)
<1> DEFINE t == Upsert(s, d)
<1>1. t \in Seq(Entry) /\ ~Differs(t, d)
  BY UpsertIs, UpsertSettles
<1> HIDE DEF t
<1>2. Upsert(t, e) \in Seq(Entry) /\ ~Differs(Upsert(t, e), e)
  BY <1>1, UpsertIs, UpsertSettles
<1>3. EntriesOf(Upsert(t, e), {d.name}) = EntriesOf(t, {d.name})
  BY <1>1, UpsertElsewhere
<1>4. ~Differs(Upsert(t, e), d)
  <2> DEFINE v == Upsert(t, e)
  <2> DEFINE names == {d.name}
  <2>1. v \in Seq(Entry) /\ EntriesOf(v, names) = EntriesOf(t, names) /\ d.name \in names
    BY <1>2, <1>3
  <2> HIDE DEF v, names
  <2>2. Differs(v, d) <=> Differs(t, d)
    BY <1>1, <2>1, DiffersAgree
  <2> QED BY <1>1, <2>2 DEF v
<1> QED BY <1>2, <1>4 DEF t
=============================================================================
