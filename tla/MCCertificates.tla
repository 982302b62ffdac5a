--------------------------- MODULE MCCertificates ---------------------------
(* Small instances of Certificates for model checking. *)
EXTENDS Certificates

=============================================================================
