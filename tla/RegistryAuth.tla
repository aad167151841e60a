---------------------------- MODULE RegistryAuth ----------------------------
(***************************************************************************)
(* The registry credentials of a deployment, from the secret that the spec *)
(* refers to (resolveRegistryDockerConfig and the functions below it in    *)
(* internal/controller/zarfpackage/zarfpackage.go), while users edit the   *)
(* reference, the source and the secrets.                                  *)
(*                                                                         *)
(* A payload is known by what the code tells apart: absent, empty, JSON,   *)
(* base64 of JSON, JSON of another shape, or neither.                      *)
(***************************************************************************)
EXTENDS Text

CONSTANTS
    Sources,     \* texts
    Namespaces,  \* the namespaces of secrets
    defaultRegistrySecretNamespace,
    None

Forms == {"unused", "failed", "anonymous", "json", "legacy", "login"}

(* The pattern of spec.source (zarfpackage_types.go) admits no blank and   *)
(* no slash without a name before it.                                      *)
ASSUME RegistryAuthAssumption ==
    /\ defaultRegistrySecretNamespace \in Namespaces
    /\ Sources \subseteq Texts
    /\ \A s \in Sources : ~Has(s, Blank)
    /\ \A s \in Sources :
          LET trimmed == TrimPrefix(s, "oci://")
          IN  trimmed # Empty /\ ~HasPrefix(trimmed, "/")
    /\ None \notin [form : Forms, host : Texts]

VARIABLES
    source,
    ref,      \* spec.forProvider.registrySecretRef, or None
    secrets,  \* the data of the secret of that name in each namespace, or None
    auth      \* what the deployment of this spec was given

vars == <<source, ref, secrets, auth>>

Payloads == {"absent", "empty", "json", "base64", "otherJSON", "garbage"}

(* The keys .dockerconfigjson and .dockercfg; username and password, with  *)
(* "partial" for one of the two or blanks.                                 *)
Data == [json   : Payloads \ {"otherJSON"},
         legacy : Payloads,
         login  : {"absent", "partial", "both"}]

References == {None} \cup [blank : BOOLEAN, namespace : Namespaces \cup {None}]

Auth(form, host) == [form |-> form, host |-> host]

Unused    == Auth("unused", Empty)
Failed    == Auth("failed", Empty)
Anonymous == Auth("anonymous", Empty)

----------------------------------------------------------------------------
inferWithPath(s) ==
    LET trimmed == TrimPrefix(TrimSpace(s), "oci://")
        slash   == LastIndex(trimmed, "/")
    IN  IF slash > 0 THEN Before(trimmed, slash) ELSE trimmed

inferRegistryHostFromSource(s) ==
    LET trimmed == TrimPrefix(TrimSpace(s), "oci://")
        slash   == Index(trimmed, "/")
    IN  IF slash > 0 THEN Before(trimmed, slash) ELSE trimmed

normalizeOrSkip(payload) ==
    IF payload \in {"json", "base64"} THEN Auth("json", Empty) ELSE None

(* Each of the three answers None for a secret without its form. *)
normalizeDockerConfigJSON(payload) ==
    IF payload \in {"absent", "empty"} THEN None
    ELSE IF payload \in {"json", "base64"} THEN Auth("json", Empty)
    ELSE Failed

convertLegacyDockerConfig(payload) ==
    IF payload \in {"absent", "empty"} THEN None
    ELSE IF payload \in {"json", "base64"} THEN Auth("legacy", Empty)
    ELSE Failed

dockerConfigForNoHost(login, host) ==
    IF login # "both" THEN None ELSE Auth("login", Empty)

dockerConfigFromCredentials(login, host) ==
    IF login # "both" THEN None
    ELSE IF host = Empty THEN Failed
    ELSE Auth("login", host)

(* A secret without any key gives no configuration and no error; the       *)
(* client takes a configuration of nothing for a deployment without        *)
(* credentials.                                                            *)
dockerConfigJSONFromSecret(data, host) ==
    LET json   == normalizeDockerConfigJSON(data.json)
        legacy == convertLegacyDockerConfig(data.legacy)
        login  == dockerConfigFromCredentials(data.login, host)
    IN  IF json # None THEN json
        ELSE IF legacy # None THEN legacy
        ELSE IF \A key \in DOMAIN data : data[key] = "absent" THEN Anonymous
        ELSE IF login # None THEN login
        ELSE Failed

secretNamespace ==
    IF ref.namespace = None THEN defaultRegistrySecretNamespace ELSE ref.namespace

(* The name of a reference is only compared with blanks. *)
NoReference == ref = None \/ ref.blank

resolveRegistryDockerConfig ==
    IF NoReference THEN Anonymous
    ELSE IF secrets[secretNamespace] = None THEN Failed
    ELSE dockerConfigJSONFromSecret(secrets[secretNamespace],
                                    inferRegistryHostFromSource(source))

----------------------------------------------------------------------------
Init ==
    /\ source \in Sources
    /\ ref = None
    /\ secrets = [n \in Namespaces |-> None]
    /\ auth = Unused

(* Any edit makes what the last deployment was given a thing of the past.  *)
EditSource ==
    /\ source' \in Sources
    /\ auth' = Unused
    /\ UNCHANGED <<ref, secrets>>

EditReference ==
    /\ ref' \in References
    /\ auth' = Unused
    /\ UNCHANGED <<source, secrets>>

WriteSecret(n) ==
    /\ \E data \in Data \cup {None} : secrets' = [secrets EXCEPT ![n] = data]
    /\ auth' = Unused
    /\ UNCHANGED <<source, ref>>

(* Create and Update: no deployment starts after an error. *)
Deploy ==
    /\ auth = Unused
    /\ auth' = resolveRegistryDockerConfig
    /\ UNCHANGED <<source, ref, secrets>>

Next == EditSource \/ EditReference \/ (\E n \in Namespaces : WriteSecret(n)) \/ Deploy

Spec == Init /\ [][Next]_vars

----------------------------------------------------------------------------
(* Properties. *)

TypeOK ==
    /\ source \in Sources
    /\ ref \in References
    /\ secrets \in [Namespaces -> Data \cup {None}]
    /\ auth.form \in Forms
    /\ auth.host # Empty <=> auth.form = "login"

Referenced == secrets[secretNamespace]

(* A form that is present decides, in this order, and a malformed one      *)
(* stops the deployment: none gives way to a later form or to a deployment *)
(* without credentials, and none is taken from another secret.             *)
FirstFormDecides ==
    auth # Unused /\ ~NoReference =>
        LET present(payload) == payload \notin {"absent", "empty"}
            usable(payload)  == payload \in {"json", "base64"}
            form ==
                IF Referenced = None THEN "failed"
                ELSE IF present(Referenced.json)
                THEN IF usable(Referenced.json) THEN "json" ELSE "failed"
                ELSE IF present(Referenced.legacy)
                THEN IF usable(Referenced.legacy) THEN "legacy" ELSE "failed"
                ELSE IF Referenced.login = "both" THEN "login"
                ELSE "none"
        IN  form # "none" => auth.form = form

(* A user name and a password go to the registry that the package is       *)
(* pulled from, the part of the reference before its first slash, and to   *)
(* no other.                                                               *)
LoginForOwnRegistry ==
    auth.form = "login" =>
        \E i \in DOMAIN source :
            /\ source[i] = "/"
            /\ ~Has(Before(source, i), "/")
            /\ TrimPrefix(Before(source, i), "oci://") = auth.host

(* A deployment of a spec that refers to a secret uses credentials from    *)
(* it, or does not start.                                                  *)
ReferencedSecretIsUsed == auth = Anonymous => NoReference

============================================================================
