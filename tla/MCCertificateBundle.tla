------------------------ MODULE MCCertificateBundle ------------------------
(***************************************************************************)
(* A CA, a certificate it signed, and its key, in the order of main.go.    *)
(***************************************************************************)
EXTENDS CertificateBundle

MCFileOrder == <<"ca", "server", "server_key">>
MCKeys == {"server_key"}
=============================================================================
