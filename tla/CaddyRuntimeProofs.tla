------------------------- MODULE CaddyRuntimeProofs -------------------------
(***************************************************************************)
(* Proofs about CaddyRuntime, for any set of processes and environments.   *)
(*                                                                         *)
(* The properties rest on one inductive invariant, IInv.  Its heart is     *)
(* WaiterInv: unless its channel is shared with the goroutine of an        *)
(* earlier process, the exit in it is that of the process it was made for, *)
(* so that forgetting the command after it loses nothing.                  *)
(***************************************************************************)
EXTENDS CaddyRuntime, TLAPS

\* A new manager has no process, no channel and nothing to lose.
LEMMA InitIInv == Init => IInv
  <1> SUFFICES ASSUME Init PROVE IInv
    OBVIOUS
  <1> USE PidAssumption DEF Init
  <1>1. TypeOK
    BY DEF TypeOK, ProcState
  <1>2. ChannelInv
    BY DEF ChannelInv
  <1>3. WaiterInv
    BY DEF WaiterInv
  <1>4. EnvironmentInv
    BY DEF EnvironmentInv
  <1>5. NothingOrphaned
    BY DEF NothingOrphaned, Live
  <1> QED
    BY <1>1, <1>2, <1>3, <1>4, <1>5 DEF IInv

\* Every step of Caddy, of a goroutine, of an operation and a restart of davd
\* preserve the invariant.
LEMMA NextIInv == IInv /\ [Next]_vars => IInv'
  <1> SUFFICES ASSUME IInv, [Next]_vars PROVE IInv'
    OBVIOUS
  <1> USE PidAssumption DEF IInv, ProcState, osVars, managerVars, chanVars,
                            Live, Unexited, Answers, HoldsPort
  <1>1. ASSUME NEW p \in Pid, Boots(p) PROVE IInv'
    BY <1>1 DEF Boots, TypeOK, ChannelInv, WaiterInv, EnvironmentInv, NothingOrphaned
  <1>2. ASSUME NEW p \in Pid, Exits(p) PROVE IInv'
    <2> USE <1>2 DEF Exits
    <2>1. TypeOK'
      BY DEF TypeOK
    <2>2. ChannelInv'
      BY DEF TypeOK, ChannelInv
    <2>3. WaiterInv'
      BY DEF TypeOK, ChannelInv, WaiterInv
    <2>5. EnvironmentInv'
      BY DEF TypeOK, ChannelInv, EnvironmentInv
    <2>6. NothingOrphaned'
      BY DEF TypeOK, ChannelInv, WaiterInv, NothingOrphaned
    <2> QED
      BY <2>1, <2>2, <2>3, <2>5, <2>6
  <1>3. ASSUME NEW p \in Pid, WaiterReads(p) PROVE IInv'
    <2> USE <1>3 DEF WaiterReads
    <2>1. TypeOK'
      BY DEF TypeOK
    <2>2. ChannelInv'
      BY DEF TypeOK, ChannelInv
    <2>3. WaiterInv'
      BY DEF TypeOK, ChannelInv, WaiterInv
    <2>5. EnvironmentInv'
      BY DEF TypeOK, ChannelInv, EnvironmentInv
    <2>6. NothingOrphaned'
      BY DEF TypeOK, ChannelInv, WaiterInv, NothingOrphaned
    <2> QED
      BY <2>1, <2>2, <2>3, <2>5, <2>6
  \* The exit goes to the channel of the process itself.
  <1>4. ASSUME NEW p \in Pid, WaiterSends(p) PROVE IInv'
    <2> USE <1>4 DEF WaiterSends
    <2>1. TypeOK'
      BY DEF TypeOK, ChannelInv
    <2>2. ChannelInv'
      BY DEF TypeOK, ChannelInv
    <2>3. WaiterInv'
      BY DEF TypeOK, ChannelInv, WaiterInv
    <2>5. EnvironmentInv'
      BY DEF TypeOK, ChannelInv, EnvironmentInv
    <2>6. NothingOrphaned'
      BY DEF TypeOK, ChannelInv, WaiterInv, NothingOrphaned
    <2> QED
      BY <2>1, <2>2, <2>3, <2>5, <2>6
  <1>5. ASSUME StartFails PROVE IInv'
    BY <1>5 DEF StartFails, Running, Drained, TypeOK, ChannelInv, WaiterInv, EnvironmentInv, NothingOrphaned
  \* A goroutine that has yet to read m.done will share the new channel.
  <1>6. ASSUME NEW p \in Pid, NEW env \in Env, StartExecs(p, env) PROVE IInv'
    <2> USE <1>6 DEF StartExecs, Running, Drained
    <2>1. TypeOK'
      BY DEF TypeOK
    <2>2. ChannelInv'
      BY DEF TypeOK, ChannelInv
    <2>3. WaiterInv'
      BY DEF TypeOK, ChannelInv, WaiterInv
    <2>5. EnvironmentInv'
      BY DEF TypeOK, ChannelInv, EnvironmentInv
    <2>6. NothingOrphaned'
      BY DEF TypeOK, ChannelInv, WaiterInv, NothingOrphaned
    <2> QED
      BY <2>1, <2>2, <2>3, <2>5, <2>6
  <1>7. ASSUME StartHealthy PROVE IInv'
    BY <1>7 DEF StartHealthy, TypeOK, ChannelInv, WaiterInv, EnvironmentInv, NothingOrphaned
  <1>8. ASSUME StartExited PROVE IInv'
    <2> USE <1>8 DEF StartExited
    <2>1. TypeOK'
      BY DEF TypeOK
    <2>2. ChannelInv'
      BY DEF TypeOK, ChannelInv
    <2>3. WaiterInv'
      BY DEF TypeOK, ChannelInv, WaiterInv
    <2>5. EnvironmentInv'
      BY DEF TypeOK, ChannelInv, EnvironmentInv
    <2>6. NothingOrphaned'
      BY DEF TypeOK, ChannelInv, WaiterInv, NothingOrphaned
    <2> QED
      BY <2>1, <2>2, <2>3, <2>5, <2>6
  <1>9. ASSUME StartTimeout PROVE IInv'
    BY <1>9 DEF StartTimeout, Kill, TypeOK, ChannelInv, WaiterInv, EnvironmentInv, NothingOrphaned
  <1>10. ASSUME Reload PROVE IInv'
    BY <1>10 DEF Reload, Running, Drained, TypeOK, ChannelInv, WaiterInv, EnvironmentInv, NothingOrphaned
  <1>11. ASSUME StopIdle PROVE IInv'
    <2> USE <1>11 DEF StopIdle, Running, Drained
    <2>1. TypeOK'
      BY DEF TypeOK
    <2>2. ChannelInv'
      BY DEF TypeOK, ChannelInv
    <2>3. WaiterInv'
      BY DEF TypeOK, ChannelInv, WaiterInv
    <2>5. EnvironmentInv'
      BY DEF TypeOK, ChannelInv, EnvironmentInv
    <2>6. NothingOrphaned'
      BY DEF TypeOK, ChannelInv, WaiterInv, NothingOrphaned
    <2> QED
      BY <2>1, <2>2, <2>3, <2>5, <2>6
  <1>12. ASSUME StopRefused PROVE IInv'
    BY <1>12 DEF StopRefused, Running, Drained, TypeOK, ChannelInv, WaiterInv, EnvironmentInv, NothingOrphaned
  <1>13. ASSUME NEW p \in Pid, StopAccepted(p) PROVE IInv'
    BY <1>13 DEF StopAccepted, Running, Drained, TypeOK, ChannelInv, WaiterInv, EnvironmentInv, NothingOrphaned
  <1>14. ASSUME StopDone PROVE IInv'
    <2> USE <1>14 DEF StopDone
    <2>1. TypeOK'
      BY DEF TypeOK
    <2>2. ChannelInv'
      BY DEF TypeOK, ChannelInv
    <2>3. WaiterInv'
      BY DEF TypeOK, ChannelInv, WaiterInv
    <2>5. EnvironmentInv'
      BY DEF TypeOK, ChannelInv, EnvironmentInv
    <2>6. NothingOrphaned'
      BY DEF TypeOK, ChannelInv, WaiterInv, NothingOrphaned
    <2> QED
      BY <2>1, <2>2, <2>3, <2>5, <2>6
  <1>15. ASSUME StopCanceled PROVE IInv'
    BY <1>15 DEF StopCanceled, TypeOK, ChannelInv, WaiterInv, EnvironmentInv, NothingOrphaned
  <1>16. ASSUME StopTimeout PROVE IInv'
    BY <1>16 DEF StopTimeout, Kill, TypeOK, ChannelInv, WaiterInv, EnvironmentInv, NothingOrphaned
  \* The command is forgotten only when its own exit was in the channel.
  <1>17. ASSUME StatusSnapshot PROVE IInv'
    <2> USE <1>17 DEF StatusSnapshot, Running, Drained
    <2>1. TypeOK'
      BY DEF TypeOK
    <2>2. ChannelInv'
      BY DEF TypeOK, ChannelInv
    <2>3. WaiterInv'
      BY DEF TypeOK, ChannelInv, WaiterInv
    <2>5. EnvironmentInv'
      BY DEF TypeOK, ChannelInv, EnvironmentInv
    <2>6. NothingOrphaned'
      BY DEF TypeOK, ChannelInv, WaiterInv, NothingOrphaned
    <2> QED
      BY <2>1, <2>2, <2>3, <2>5, <2>6
  <1>18. ASSUME Query PROVE IInv'
    BY <1>18 DEF Query, Running, Drained, TypeOK, ChannelInv, WaiterInv, EnvironmentInv, NothingOrphaned
  \* What is still alive becomes a stray.
  <1>19. ASSUME DaemonRestart PROVE IInv'
    <2> USE <1>19 DEF DaemonRestart
    <2>1. TypeOK'
      BY DEF TypeOK
    <2>2. ChannelInv'
      BY DEF TypeOK, ChannelInv
    <2>3. WaiterInv'
      BY DEF TypeOK, ChannelInv, WaiterInv
    <2>5. EnvironmentInv'
      BY DEF TypeOK, ChannelInv, EnvironmentInv
    <2>6. NothingOrphaned'
      BY DEF TypeOK, ChannelInv, WaiterInv, NothingOrphaned
    <2> QED
      BY <2>1, <2>2, <2>3, <2>5, <2>6
  <1>20. CASE UNCHANGED vars
    BY <1>20 DEF vars, TypeOK, ChannelInv, WaiterInv, EnvironmentInv, NothingOrphaned
  <1> QED
    BY <1>1, <1>2, <1>3, <1>4, <1>5, <1>6, <1>7, <1>8, <1>9, <1>10, <1>11, <1>12, <1>13, <1>14, <1>15, <1>16, <1>17, <1>18, <1>19, <1>20
    DEF Next, Caddy, Waiter, Operation

LEMMA AlwaysIInv == Spec => []IInv
  BY InitIInv, NextIInv, PTL DEF Spec

\* Type correctness of the manager's bookkeeping.
THEOREM TypeCorrect == Spec => []TypeOK
  <1>1. IInv => TypeOK
    BY DEF IInv
  <1> QED
    BY <1>1, AlwaysIInv, PTL

\* davd never loses a Caddy process it started, unless its channel is shared with
\* the goroutine of an earlier one (RuntimeManager.StartWithEnvironment, Stop).
THEOREM NeverOrphans == Spec => []NothingOrphaned
  <1>1. IInv => NothingOrphaned
    BY DEF IInv
  <1> QED
    BY <1>1, AlwaysIInv, PTL

\* An exit the manager receives is the exit of the process it manages, unless the
\* channel is shared (runningLocked).
THEOREM ExitsAreTruthful == Spec => []ExitTruthful
  <1>1. IInv => ExitTruthful
    BY DEF IInv, ChannelInv, WaiterInv, ExitTruthful
  <1> QED
    BY <1>1, AlwaysIInv, PTL

\* The environment that EnvironmentMatches compares with is the one the managed
\* process inherited, shared channels or not.
THEOREM EnvironmentIsTrue == Spec => []EnvironmentTrue
  <1>1. IInv => EnvironmentTrue
    BY DEF IInv, EnvironmentInv, EnvironmentTrue
  <1> QED
    BY <1>1, AlwaysIInv, PTL

=============================================================================
