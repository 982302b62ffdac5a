--------------------------- MODULE ManagedRuntime ---------------------------
(***************************************************************************)
(* What the apply pipeline can observe of the managed Caddy runtime: the   *)
(* document Caddy serves, the secret environment the process inherited,    *)
(* and the outcomes of Status, Start, Reload and Stop.  It is the caller's *)
(* view of RuntimeManager (core/internal/caddy/runtime.go); the process    *)
(* bookkeeping behind it is in module CaddyRuntime.                        *)
(*                                                                         *)
(* The outcome "returned an error" is kept apart from "had no effect":     *)
(* Reload reports an error when Caddy took the document but the startup    *)
(* file could not be written, and Stop reports an error both when Caddy    *)
(* kept running and when it had to be killed.  A load that outlives the    *)
(* five seconds of the Admin API client is still carried out by Caddy.     *)
(***************************************************************************)
EXTENDS RevisionStore

VARIABLES
    serving,      \* the document Caddy serves, NoConfig when it is down
    environment,  \* RuntimeManager.environment
    inflight,     \* documents of timed-out loads Caddy may still carry out
    adrift        \* history: an operation failed after it had handed Caddy a
                  \* document, and no later step has put Caddy right

runtimeVars == <<serving, environment, inflight, adrift>>

RuntimeTypeOK ==
    /\ serving \in Config \cup {NoConfig}
    /\ environment \in Env
    /\ inflight \in SUBSET Config
    /\ adrift \in BOOLEAN

\* A new RuntimeManager: no process.
RuntimeInit ==
    /\ serving = NoConfig
    /\ environment = NoEnv
    /\ inflight = {}
    /\ adrift = FALSE

\* StatusSnapshot.  DEGRADED is a failed health probe: of a process that is up,
\* or of one whose exit the manager has not noticed.
StatusSet ==
    IF serving = NoConfig THEN {"STOPPED", "FAILED", "DEGRADED"}
                          ELSE {"RUNNING", "DEGRADED"}

\* EnvironmentMatches is false of a process known to be down.
MatchSet(env) ==
    IF serving = NoConfig THEN {environment = env, FALSE} ELSE {environment = env}

Down ==
    /\ serving' = NoConfig
    /\ inflight' = {}
    /\ adrift' = FALSE

\* StartWithEnvironment.  A running Caddy is left as it is, whatever it serves.
\* The last disjunct is a failed start, or the nil returned by a manager that
\* has not noticed the exit of the previous process.
StartReturns(config, env, ok) ==
    \/ /\ serving # NoConfig
       /\ ok
       /\ UNCHANGED runtimeVars
    \/ /\ serving = NoConfig
       /\ ok
       /\ serving' = config
       /\ environment' = env
       /\ UNCHANGED <<inflight, adrift>>
    \/ /\ serving = NoConfig
       /\ UNCHANGED runtimeVars

\* Reload.  Caddy carries out loads one after another, so an accepted load
\* comes after every earlier one.
ReloadReturns(config, ok) ==
    \/ /\ serving # NoConfig
       /\ serving' = config
       /\ inflight' = {}
       /\ adrift' = ~ok          \* an error here: the startup file was not saved
       /\ UNCHANGED environment
    \/ /\ serving # NoConfig     \* the client gave up waiting for the answer
       /\ ~ok
       /\ inflight' = inflight \cup {config}
       /\ adrift' = TRUE
       /\ UNCHANGED <<serving, environment>>
    \/ /\ ~ok                    \* not running, invalid or rejected
       /\ UNCHANGED runtimeVars

\* Stop.  An error means a refused or cancelled shutdown, or a kill.
StopReturns(ok) ==
    \/ /\ Down
       /\ UNCHANGED environment
    \/ /\ ~ok
       /\ UNCHANGED runtimeVars

\* Caddy finishes a load whose client has gone.
LateLoad ==
    /\ \E config \in inflight :
          /\ serving' = config
          /\ inflight' = inflight \ {config}
    /\ UNCHANGED <<environment, adrift>>

\* Caddy exits on its own.
CaddyExits ==
    /\ serving # NoConfig
    /\ Down
    /\ UNCHANGED environment

=============================================================================
