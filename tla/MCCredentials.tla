--------------------------- MODULE MCCredentials ---------------------------
(* Small instances of Credentials for model checking. *)
EXTENDS Credentials, TLC

Symmetric == Permutations(Caller) \cup Permutations(Cred) \cup Permutations(Name)

=============================================================================
