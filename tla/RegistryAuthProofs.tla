------------------------- MODULE RegistryAuthProofs -------------------------
(***************************************************************************)
(* Which credentials a deployment is given, for every set of sources,      *)
(* namespaces and secrets.                                                 *)
(***************************************************************************)
EXTENDS RegistryAuth, TextProofs

(* What a deployment was given is what its spec and secrets give now: any  *)
(* edit makes it a thing of the past.                                      *)
AuthInv ==
    /\ source \in Sources
    /\ ref \in References
    /\ secrets \in [Namespaces -> Data \cup {None}]
    /\ auth = Unused \/ auth = resolveRegistryDockerConfig

----------------------------------------------------------------------------
(* A secret's data, form by form.                                          *)

(* A configuration is never taken for none.                                *)
LEMMA AuthIsRecord ==
    ASSUME NEW form \in Forms, NEW host \in Texts
    PROVE  /\ Auth(form, host) \in [form : Forms, host : Texts]
           /\ Auth(form, host) # None
           /\ Auth(form, host).form = form
           /\ Auth(form, host).host = host
BY RegistryAuthAssumption DEF Auth

(* What each answer of dockerConfigJSONFromSecret says of the data.        *)
LEMMA SecretForm ==
    ASSUME NEW data \in Data, NEW host \in Texts
    PROVE  LET config == dockerConfigJSONFromSecret(data, host)
           IN  \/ config = Auth("json", Empty) /\ data.json \in {"json", "base64"}
               \/ /\ config = Auth("legacy", Empty)
                  /\ data.json \in {"absent", "empty"}
                  /\ data.legacy \in {"json", "base64"}
               \/ /\ config = Auth("login", host)
                  /\ host # Empty
                  /\ data.json \in {"absent", "empty"}
                  /\ data.legacy \in {"absent", "empty"}
                  /\ data.login = "both"
               \/ /\ config = Anonymous
                  /\ data.json = "absent" /\ data.legacy = "absent"
                  /\ data.login = "absent"
               \/ /\ config = Failed
                  /\ \/ data.json \notin {"absent", "empty", "json", "base64"}
                     \/ /\ data.json \in {"absent", "empty"}
                        /\ \/ data.legacy \notin {"absent", "empty", "json", "base64"}
                           \/ /\ data.legacy \in {"absent", "empty"}
                              /\ data.login # "both" \/ host = Empty
<1>1. /\ data.json \in Payloads \ {"otherJSON"}
      /\ data.legacy \in Payloads
      /\ data.login \in {"absent", "partial", "both"}
      /\ DOMAIN data = {"json", "legacy", "login"}
  BY DEF Data
<1>2. (\A key \in DOMAIN data : data[key] = "absent") <=>
        data.json = "absent" /\ data.legacy = "absent" /\ data.login = "absent"
  BY <1>1
<1>3. /\ Auth("json", Empty) # None
      /\ Auth("legacy", Empty) # None
      /\ Auth("login", host) # None
      /\ Failed # None
  <2>1. ASSUME NEW form \in Forms, NEW h \in Texts
        PROVE  Auth(form, h) # None
    BY <2>1, AuthIsRecord
  <2>2. QED
    BY <2>1, EmptyText DEF Failed, Forms
<1> DEFINE json   == normalizeDockerConfigJSON(data.json)
           legacy == convertLegacyDockerConfig(data.legacy)
           login  == dockerConfigFromCredentials(data.login, host)
<1>4. \/ json = None /\ data.json \in {"absent", "empty"}
      \/ json = Auth("json", Empty) /\ data.json \in {"json", "base64"}
      \/ json = Failed /\ data.json \notin {"absent", "empty", "json", "base64"}
  BY DEF normalizeDockerConfigJSON
<1>5. \/ legacy = None /\ data.legacy \in {"absent", "empty"}
      \/ legacy = Auth("legacy", Empty) /\ data.legacy \in {"json", "base64"}
      \/ legacy = Failed /\ data.legacy \notin {"absent", "empty", "json", "base64"}
  BY DEF convertLegacyDockerConfig
<1>6. \/ login = None /\ data.login # "both"
      \/ login = Failed /\ data.login = "both" /\ host = Empty
      \/ login = Auth("login", host) /\ data.login = "both" /\ host # Empty
  BY DEF dockerConfigFromCredentials
<1>7. dockerConfigJSONFromSecret(data, host) =
        IF json # None THEN json
        ELSE IF legacy # None THEN legacy
        ELSE IF data.json = "absent" /\ data.legacy = "absent" /\ data.login = "absent"
        THEN Anonymous
        ELSE IF login # None THEN login
        ELSE Failed
  BY <1>2 DEF dockerConfigJSONFromSecret
<1> HIDE DEF json, legacy, login
<1>8. QED
  BY <1>3, <1>4, <1>5, <1>6, <1>7

(* The registry of a source is the part before its first slash, and its    *)
(* name is not empty: the pattern has no slash without one before it.      *)
LEMMA HostOfSource ==
    ASSUME NEW s \in Sources
    PROVE  /\ inferRegistryHostFromSource(s) \in Texts
           /\ inferRegistryHostFromSource(s) # Empty
           /\ Has(s, "/") =>
                inferRegistryHostFromSource(s)
                    = TrimPrefix(Before(s, Index(s, "/")), "oci://")
<1>1. s \in Texts /\ TrimSpace(s) = s
  BY RegistryAuthAssumption, TrimSpaceClean
<1> DEFINE u == TrimPrefix(s, "oci://")
           k == Index(u, "/")
<1>2. u \in Texts
  BY <1>1, PrefixProperty
<1>3. inferRegistryHostFromSource(s) = IF k > 0 THEN Before(u, k) ELSE u
  BY <1>1 DEF inferRegistryHostFromSource
<1>4. Before(u, k) \in Texts \/ k = 0
  <2>1. k \in 0..Len(u) /\ Len(u) \in Nat
    BY <1>2, IndexProperty DEF Texts
  <2> HIDE DEF k, u
  <2>2. CASE k \in 1..Len(u) + 1
    BY <1>2, <2>2, BeforeProperty
  <2>3. QED
    BY <2>1, <2>2
<1>5. Has(s, "/") => k > 0 /\ Before(u, k) = TrimPrefix(Before(s, Index(s, "/")), "oci://")
  BY <1>1, CutWithoutPrefix
<1>6. u # Empty /\ u[1] # "/"
  BY <1>2, PrefixProperty, RegistryAuthAssumption
<1> HIDE DEF u
<1>7. ASSUME k > 0
      PROVE  Before(u, k) # Empty
  <2>1. k \in 1..Len(u) + 1 /\ Len(u) \in Nat /\ u[k] = "/"
    BY <1>2, <1>7, IndexProperty DEF Texts
  <2> HIDE DEF k
  <2>2. Len(Before(u, k)) = k - 1 /\ k - 1 # 0
    BY <1>2, <1>6, <2>1, BeforeProperty
  <2>3. QED
    BY <2>2, EmptySeq DEF Empty
<1> HIDE DEF k
<1>8. QED
  BY <1>2, <1>3, <1>4, <1>5, <1>6, <1>7

----------------------------------------------------------------------------
(* The invariant.                                                          *)

LEMMA AuthInit == Init => AuthInv
BY DEF Init, AuthInv, References

LEMMA AuthStep == AuthInv /\ [Next]_vars => AuthInv'
<1> SUFFICES ASSUME AuthInv, [Next]_vars
             PROVE  AuthInv'
  OBVIOUS
<1> USE DEF AuthInv
<1>1. CASE EditSource
  BY <1>1 DEF EditSource, Unused, Auth
<1>2. CASE EditReference
  BY <1>2 DEF EditReference, Unused, Auth
<1>3. ASSUME NEW n \in Namespaces, WriteSecret(n)
      PROVE  AuthInv'
  BY <1>3 DEF WriteSecret, Unused, Auth
<1>4. CASE Deploy
  BY <1>4 DEF Deploy, resolveRegistryDockerConfig, NoReference, secretNamespace
<1>5. CASE UNCHANGED vars
  BY <1>5 DEF vars, resolveRegistryDockerConfig, NoReference, secretNamespace, Unused, Auth
<1>6. QED
  BY <1>1, <1>2, <1>3, <1>4, <1>5 DEF Next

LEMMA AuthInductive == Spec => []AuthInv
BY AuthInit, AuthStep, PTL DEF Spec

(* The secret that a reference names, and what a deployment gets of it.    *)
LEMMA Resolved ==
    ASSUME AuthInv
    PROVE  LET host == inferRegistryHostFromSource(source)
           IN  /\ host \in Texts
               /\ ~NoReference => secrets[secretNamespace] \in Data \cup {None}
               /\ resolveRegistryDockerConfig =
                    IF NoReference THEN Anonymous
                    ELSE IF secrets[secretNamespace] = None THEN Failed
                    ELSE dockerConfigJSONFromSecret(secrets[secretNamespace], host)
<1>1. source \in Sources /\ secrets \in [Namespaces -> Data \cup {None}]
  BY DEF AuthInv
<1>2. secretNamespace \in Namespaces \/ NoReference
  BY RegistryAuthAssumption DEF AuthInv, References, secretNamespace, NoReference
<1>3. QED
  BY <1>1, <1>2, HostOfSource DEF resolveRegistryDockerConfig

(* Only a user name and a password go to a registry that the controller    *)
(* names; a configuration brings its own.                                  *)
THEOREM TypeCorrect == Spec => []TypeOK
<1>1. AuthInv => TypeOK
  <2> SUFFICES ASSUME AuthInv
               PROVE  TypeOK
    OBVIOUS
  <2> DEFINE host == inferRegistryHostFromSource(source)
  <2> HIDE DEF host
  <2>1. /\ auth.form \in Forms
        /\ auth.host # Empty <=> auth.form = "login"
    <3>1. CASE auth = Unused \/ auth = Anonymous \/ auth = Failed
      BY <3>1 DEF Unused, Anonymous, Failed, Auth, Forms
    <3>2. ASSUME NEW data \in Data, NEW h \in Texts,
                 auth = dockerConfigJSONFromSecret(data, h)
          PROVE  <2>1!1 /\ <2>1!2
      <4>1. CASE auth = Anonymous \/ auth = Failed
        BY <3>1, <4>1
      <4>2. CASE auth = Auth("json", Empty) \/ auth = Auth("legacy", Empty)
        BY <4>2 DEF Auth, Forms
      <4>3. CASE auth = Auth("login", h) /\ h # Empty
        BY <4>3 DEF Auth, Forms
      <4>4. QED
        BY <3>2, <4>1, <4>2, <4>3, SecretForm
    <3>3. QED
      BY <3>1, <3>2, Resolved DEF AuthInv
  <2>2. QED
    BY <2>1 DEF TypeOK, AuthInv, Forms
<1>2. QED
  BY <1>1, AuthInductive, PTL

(* The first form that a secret has decides, however the secrets, the      *)
(* reference and the source were edited before the deployment.             *)
THEOREM FirstFormDecidesAlways == Spec => []FirstFormDecides
<1>1. AuthInv => FirstFormDecides
  <2> SUFFICES ASSUME AuthInv, auth # Unused, ~NoReference
               PROVE  FirstFormDecides
    BY DEF FirstFormDecides
  <2> DEFINE host == inferRegistryHostFromSource(source)
  <2>1. /\ host \in Texts
        /\ host # Empty
        /\ Referenced \in Data \cup {None}
        /\ auth = IF Referenced = None THEN Failed
                  ELSE dockerConfigJSONFromSecret(Referenced, host)
    BY Resolved, HostOfSource DEF AuthInv, Referenced
  <2> HIDE DEF host
  <2>2. CASE Referenced = None
    BY <2>1, <2>2 DEF FirstFormDecides, Failed, Auth
  <2>3. CASE Referenced # None
    <3> DEFINE data == Referenced
    <3>1. data \in Data /\ auth = dockerConfigJSONFromSecret(data, host)
      BY <2>1, <2>3
    <3> HIDE DEF data
    <3>2. \/ auth.form = "json" /\ data.json \in {"json", "base64"}
          \/ /\ auth.form = "legacy"
             /\ data.json \in {"absent", "empty"}
             /\ data.legacy \in {"json", "base64"}
          \/ /\ auth.form = "login"
             /\ data.json \in {"absent", "empty"}
             /\ data.legacy \in {"absent", "empty"}
             /\ data.login = "both"
          \/ /\ auth.form = "anonymous"
             /\ data.json = "absent"
             /\ data.legacy = "absent"
             /\ data.login = "absent"
          \/ /\ auth.form = "failed"
             /\ \/ data.json \notin {"absent", "empty", "json", "base64"}
                \/ /\ data.json \in {"absent", "empty"}
                   /\ \/ data.legacy \notin {"absent", "empty", "json", "base64"}
                      \/ /\ data.legacy \in {"absent", "empty"}
                         /\ data.login # "both"
      BY <2>1, <3>1, SecretForm DEF Auth, Anonymous, Failed
    <3>3. QED
      BY <2>3, <3>2 DEF FirstFormDecides, data
  <2>4. QED
    BY <2>2, <2>3
<1>2. QED
  BY <1>1, AuthInductive, PTL

(* A user name and a password go to the registry before the first slash of *)
(* the spec's source, whether it is written with "oci://" or without; a    *)
(* source without a slash names no registry and cannot be deployed.        *)
THEOREM LoginGoesToItsRegistry ==
    ASSUME \A s \in Sources : Has(s, "/")
    PROVE  Spec => []LoginForOwnRegistry
<1>1. AuthInv => LoginForOwnRegistry
  <2> SUFFICES ASSUME AuthInv, auth.form = "login"
               PROVE  LoginForOwnRegistry
    BY DEF LoginForOwnRegistry
  <2> DEFINE host == inferRegistryHostFromSource(source)
             i    == Index(source, "/")
  <2>1. /\ source \in Texts /\ Has(source, "/")
        /\ host \in Texts
        /\ host = TrimPrefix(Before(source, i), "oci://")
    BY HostOfSource, RegistryAuthAssumption DEF AuthInv
  <2>2. auth # Unused /\ auth # Anonymous /\ auth # Failed
    BY DEF Unused, Anonymous, Failed, Auth
  <2>3. \E data \in Data : auth = dockerConfigJSONFromSecret(data, host)
    BY <2>2, Resolved DEF AuthInv
  <2> HIDE DEF host
  <2>4. auth = Auth("login", host)
    BY <2>1, <2>2, <2>3, SecretForm DEF Auth
  <2>5. auth.host = host
    BY <2>4 DEF Auth
  <2>6. i \in DOMAIN source /\ source[i] = "/"
    BY <2>1, IndexProperty DEF Texts
  <2>7. ~Has(Before(source, i), "/")
    BY <2>1, BeforeFirst
  <2> HIDE DEF i
  <2>8. QED
    BY <2>1, <2>5, <2>6, <2>7 DEF LoginForOwnRegistry
<1>2. QED
  BY <1>1, AuthInductive, PTL

============================================================================
