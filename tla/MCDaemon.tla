------------------------------ MODULE MCDaemon ------------------------------
(* The builds of the instance: two releases, and a build whose second       *)
(* migration is not the released one.                                       *)
EXTENDS Daemon

MCBuilds == {<<"m1", "m2">>, <<"m1", "m2", "m3">>, <<"m1", "x2">>}

=============================================================================
