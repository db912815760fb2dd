------------------------- MODULE MCProcessTransport -------------------------
(* One thread installs the profile and another one a provider of its own.   *)
(* The sources are those of MCSecureTransport.                              *)
EXTENDS ProcessTransport
CONSTANTS main, plugin

MCOffered == [i \in {main, plugin} |-> IF i = main THEN "profile" ELSE "other"]

CertificateAndToken == <<"certificate", "token">>
=============================================================================
