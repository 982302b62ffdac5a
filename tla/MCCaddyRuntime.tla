--------------------------- MODULE MCCaddyRuntime ---------------------------
(* Small instances of CaddyRuntime. *)
EXTENDS CaddyRuntime, TLC

PidSymmetry == Permutations(Pid)
=============================================================================
