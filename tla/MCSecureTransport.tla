-------------------------- MODULE MCSecureTransport --------------------------
(* Instances of SecureTransport for TLC. *)
EXTENDS SecureTransport

\* build_client reads the CA bundle, the certificate and the key, and then the
\* token.  The PEM sources are read back to back and parsed together, so one of
\* them stands for all.
CertificateAndToken == <<"certificate", "token">>
=============================================================================
