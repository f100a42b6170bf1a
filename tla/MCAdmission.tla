---------------------------- MODULE MCAdmission ----------------------------
(* Instances of Admission for TLC. *)
EXTENDS Admission, TLC

CONSTANTS n1, n2, vol, own, path, NS2

Annotated(keys, value) == [k \in Keys |-> IF k \in keys THEN value ELSE "none"]

\* Overrides that chain: old is replaced by mirror, mirror by vault.
Chained   == "old" :> "mirror" @@ "mirror" :> "vault"
Unchained1 == "old" :> "mirror"
Bundle    == [volume |-> vol, bundle |-> "ctb", path |-> path]

\* Everything is available, n2 gets it by default.
Full == [overrides |-> Chained, mapping |-> Bundle, available |-> KnownFeatureKeys,
         nsFeatures |-> n1 :> {} @@ n2 :> {"all"}]

\* Another mapping, a smaller catalog.
Small == [overrides |-> Unchained1, mapping |-> [Bundle EXCEPT !.bundle = "ctb-2"],
          available |-> {"add-img-pull-secret", "add-cluster-trust-bundle", "set-fips-mode"},
          nsFeatures |-> n1 :> {"set-fips-mode"} @@ n2 :> {"all"}]

\* No trust bundle.
Unmapped == [Small EXCEPT !.mapping = NoMapping]

\* An empty catalog does not restrict the features of a namespace.
NoCatalog == [Full EXCEPT !.available = {}, !.nsFeatures = n1 :> {"alter-img-registry"} @@ n2 :> {}]

\* Refused: a feature nobody knows.
Unknown == [Full EXCEPT !.available = {"set-fips-mode", "unknown"}]

ConfigSet == {Full, Small, Unmapped, NoCatalog, Unknown}

Layers1 == {NoAnnotations, Annotated({"all"}, "true"), Annotated({"add-cluster-trust-bundle"}, "true")}

ContainerOf(init, registry, env, mounts) ==
    [init |-> init, image |-> [registry |-> registry, path |-> "img"], env |-> env, mounts |-> mounts]
PodOf(n, ann, secrets, volumes, containers) ==
    [ns |-> n, ann |-> ann, hash |-> NoHash, modified |-> FALSE, secrets |-> secrets,
     volumes |-> volumes, containers |-> containers]

\* Asks for nothing itself; its variables have other values.
Plain == PodOf(n1, NoAnnotations, <<>>, <<>>,
    <<ContainerOf(TRUE, NoRegistry, <<>>, <<>>),
      ContainerOf(FALSE, "old", <<[name |-> "FIPS_MODE_ENABLED", value |-> "false"],
                                [name |-> "KYMA_LANDSCAPE", value |-> "elsewhere"]>>, <<>>)>>)

\* Asks for everything but the trust bundle, in a namespace that gets everything,
\* and has a volume and a mount of its own under the name of the bundle.
OptsOut == PodOf(n2,
    [Annotated({"all"}, "true") EXCEPT !["add-cluster-trust-bundle"] = "false"],
    <<PullSecretName>>, <<[name |-> vol, value |-> own]>>,
    <<ContainerOf(FALSE, "old", <<>>, <<[name |-> vol, value |-> own]>>)>>)

\* The same volume, and everything but FIPS mode.
OwnVolume == PodOf(n1,
    [Annotated({"all"}, "true") EXCEPT !["set-fips-mode"] = "false"],
    <<"other">>, <<[name |-> "data", value |-> own], [name |-> vol, value |-> own]>>,
    <<ContainerOf(FALSE, "new", <<>>, <<[name |-> vol, value |-> own]>>)>>)

TextSet == {"old", "new", "mirror", "vault", "img", "ctb", "ctb-2", "data", "other", "true", "false",
            "elsewhere", "KYMA_FIPS_MODE_ENABLED", "FIPS_MODE_ENABLED", "KYMA_LANDSCAPE",
            PullSecretName, NoLandscape, NS2, vol, own, path}

TemplateSet == {Plain, OptsOut, OwnVolume}
=============================================================================
