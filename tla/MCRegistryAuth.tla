--------------------------- MODULE MCRegistryAuth ---------------------------
(* Small instances of RegistryAuth for TLC. *)
EXTENDS RegistryAuth

MCSources ==
    {<<"oci://", "ghcr.io", "/", "org", "/", "podinfo", ":", "1">>,
     <<"localhost", ":", "5000", "/", "podinfo">>}

============================================================================
