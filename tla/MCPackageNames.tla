--------------------------- MODULE MCPackageNames ---------------------------
(* Small instances of PackageNames for TLC. *)
EXTENDS PackageNames

Host       == <<"ghcr", ".", "io", "/">>
HostAndPort == <<"localhost", ":", "5000", "/">>
Path       == <<"org", "/">>
Tag(n)     == <<":", "1", ".", n>>
Digest(n)  == <<"@", "sha256", ":", n>>

(* One package, by tag, by digest, bare and from several registries. *)
OnePackage ==
    {<<"oci://">> \o Host \o Path \o <<"podinfo">> \o Tag("0"),
     Host \o Path \o <<"podinfo">> \o Tag("1"),
     Host \o <<"podinfo">> \o Digest("aa"),
     HostAndPort \o <<"podinfo">>,
     HostAndPort \o Path \o <<"podinfo">> \o Digest("bb")}

(* A single name refers to no registry. *)
NoReference == {<<"podinfo">>}

OtherPackage == {Host \o Path \o <<"nginx">> \o Tag("0")}

TagAndDigest == {Host \o <<"podinfo">> \o Tag("0") \o Digest("aa")}

AllForms == OnePackage \cup NoReference \cup OtherPackage \cup TagAndDigest

MCResourceName == <<"my-package">>

DefaultNamespace == {<<>>}
AnyNamespace     == {<<>>, <<"web">>}

============================================================================
