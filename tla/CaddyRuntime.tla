---------------------------- MODULE CaddyRuntime ----------------------------
(***************************************************************************)
(* RuntimeManager (core/internal/caddy/runtime.go): how davd keeps track   *)
(* of the Caddy process it starts.                                         *)
(*                                                                         *)
(* Each started process has a channel of capacity one and a goroutine that *)
(* waits for the process and sends its exit to m.done.  The goroutine      *)
(* reads the field m.done without the mutex, in an order relative to Wait  *)
(* that the language leaves open, so it may read it at any time after it   *)
(* was spawned and may find the channel of a later process there.          *)
(*                                                                         *)
(* Operations hold the mutex for their whole duration.  Start and Stop     *)
(* wait inside it for a process to answer or to exit, so they are split    *)
(* in steps; the others are one step.  Which document Caddy serves is the  *)
(* subject of ManagedRuntime and is left out here.                         *)
(***************************************************************************)
EXTENDS Naturals

CONSTANTS
    Pid,     \* bound: the processes davd may ever start, and their channels
    Env,     \* secret environments
    NoEnv,   \* the environment of a manager that has started nothing
    None     \* nil command, nil channel

ASSUME PidAssumption == None \notin Pid /\ NoEnv \in Env

VARIABLES
    proc,         \* the operating system's view of each process
    penv,         \* the environment it inherited
    stray,        \* processes a dead davd left behind
    command,      \* m.command
    done,         \* m.done, named by the process it was made for
    buffered,     \* channels that hold an exit
    waiter,       \* the goroutine of each process
    target,       \* the channel it read from m.done
    lastError,    \* m.lastErrorCode # ""
    environment,  \* m.environment
    mu,           \* who holds m.mu: nobody, a Start or a Stop
    want,         \* the environment argument of the Start in progress
    shared        \* history: processes that were started while the goroutine of
                  \* an earlier one had yet to read m.done: it may find their
                  \* channel there

osVars == <<proc, penv, stray>>
managerVars == <<command, done, lastError, environment>>
chanVars == <<buffered, waiter, target>>
vars == <<proc, penv, stray, command, done, buffered, waiter, target,
          lastError, environment, mu, want, shared>>

\* "draining" has accepted POST /stop; "killed" was sent SIGKILL.
ProcState == {"unborn", "booting", "serving", "draining", "killed", "exited"}

TypeOK ==
    /\ proc \in [Pid -> ProcState]
    /\ penv \in [Pid -> Env]
    /\ stray \in SUBSET Pid
    /\ command \in Pid \cup {None}
    /\ done \in Pid \cup {None}
    /\ buffered \in SUBSET Pid
    /\ waiter \in [Pid -> {"none", "waiting", "sending", "finished"}]
    /\ target \in [Pid -> Pid \cup {None}]
    /\ lastError \in BOOLEAN
    /\ environment \in Env
    /\ mu \in {"free", "starting", "stopping"}
    /\ want \in Env
    /\ shared \in SUBSET Pid

\* A new RuntimeManager, and no process.
Init ==
    /\ proc = [p \in Pid |-> "unborn"]
    /\ penv = [p \in Pid |-> NoEnv]
    /\ stray = {}
    /\ command = None
    /\ done = None
    /\ buffered = {}
    /\ waiter = [p \in Pid |-> "none"]
    /\ target = [p \in Pid |-> None]
    /\ lastError = FALSE
    /\ environment = NoEnv
    /\ mu = "free"
    /\ want = NoEnv
    /\ shared = {}

Live(p) == proc[p] \in {"booting", "serving", "draining"}
Unexited(p) == Live(p) \/ proc[p] = "killed"
Answers(p) == proc[p] \in {"serving", "draining"}
HoldsPort(p) == proc[p] \in {"serving", "draining", "killed"}

---------------------------------------------------------------------------
(* Caddy and the goroutines that wait for it *)

\* Caddy binds the admin address and answers; only one process can.
Boots(p) ==
    /\ proc[p] = "booting"
    /\ \A q \in Pid : ~HoldsPort(q)
    /\ proc' = [proc EXCEPT ![p] = "serving"]
    /\ UNCHANGED <<penv, stray, managerVars, chanVars, mu, want, shared>>

\* By itself, because it cannot bind, after /stop or after the kill.
Exits(p) ==
    /\ Unexited(p)
    /\ proc' = [proc EXCEPT ![p] = "exited"]
    /\ UNCHANGED <<penv, stray, managerVars, chanVars, mu, want, shared>>

\* go func() { m.done <- command.Wait() }(): the read of m.done ...
WaiterReads(p) ==
    /\ waiter[p] = "waiting"
    /\ waiter' = [waiter EXCEPT ![p] = "sending"]
    /\ target' = [target EXCEPT ![p] = done]
    /\ UNCHANGED <<osVars, managerVars, buffered, mu, want, shared>>

\* Mutant: the exit is sent before the process is gone.
WaiterSendsEarly(p) ==
    /\ waiter[p] = "sending"
    /\ target[p] \notin buffered
    /\ buffered' = buffered \cup {target[p]}
    /\ waiter' = [waiter EXCEPT ![p] = "finished"]
    /\ UNCHANGED <<osVars, managerVars, target, mu, want, shared>>

\* ... and the send, once the process is gone and the channel has room.
WaiterSends(p) ==
    /\ waiter[p] = "sending"
    /\ proc[p] = "exited"
    /\ target[p] \notin buffered
    /\ buffered' = buffered \cup {target[p]}
    /\ waiter' = [waiter EXCEPT ![p] = "finished"]
    /\ UNCHANGED <<osVars, managerVars, target, mu, want, shared>>

---------------------------------------------------------------------------
(* RuntimeManager *)

\* Mutant: the exit is put back into the channel, nil or not.
Redelivered == buffered \cup {done}

\* runningLocked, which takes the exit out of the channel when there is one.
Running == command # None /\ done # None /\ done \notin buffered
Drained == IF command = None THEN buffered ELSE buffered \ {done}

Kill(p) == proc' = [proc EXCEPT ![p] = IF Live(p) THEN "killed" ELSE @]

\* StartWithEnvironment: a rejected document, an unwritable file, a failed exec.
StartFails ==
    /\ mu = "free"
    /\ ~Running
    /\ buffered' = Drained
    /\ lastError' = TRUE
    /\ UNCHANGED <<osVars, command, done, environment, waiter, target, mu, want, shared>>

\* StartWithEnvironment up to the health loop.
StartExecs(p, env) ==
    /\ mu = "free"
    /\ ~Running
    /\ proc[p] = "unborn"
    /\ proc' = [proc EXCEPT ![p] = "booting"]
    /\ penv' = [penv EXCEPT ![p] = env]
    /\ command' = p
    /\ done' = p
    /\ buffered' = Drained
    /\ waiter' = [waiter EXCEPT ![p] = "waiting"]
    /\ mu' = "starting"
    /\ want' = env
    /\ shared' = IF \E q \in Pid : waiter[q] = "waiting" THEN shared \cup {p} ELSE shared
    /\ UNCHANGED <<stray, target, lastError, environment>>

\* Mutant: the environment of the new process is not remembered.
StartHealthyForgets ==
    /\ mu = "starting"
    /\ \E q \in Pid : Answers(q)
    /\ lastError' = FALSE
    /\ mu' = "free"
    /\ UNCHANGED <<osVars, command, done, environment, chanVars, want, shared>>

\* Some process answers on the admin address.
StartHealthy ==
    /\ mu = "starting"
    /\ \E q \in Pid : Answers(q)
    /\ lastError' = FALSE
    /\ environment' = want
    /\ mu' = "free"
    /\ UNCHANGED <<osVars, command, done, chanVars, want, shared>>

StartExited ==
    /\ mu = "starting"
    /\ done \in buffered
    /\ buffered' = buffered \ {done}
    /\ command' = None
    /\ lastError' = TRUE
    /\ mu' = "free"
    /\ UNCHANGED <<osVars, done, environment, waiter, target, want, shared>>

StartTimeout ==
    /\ mu = "starting"
    /\ Kill(command)
    /\ command' = None
    /\ lastError' = TRUE
    /\ mu' = "free"
    /\ UNCHANGED <<penv, stray, done, environment, chanVars, want, shared>>

\* Reload: refused when Caddy is not running, else the Admin API answers or not.
Reload ==
    /\ mu = "free"
    /\ buffered' = Drained
    /\ \/ lastError' = TRUE
       \/ /\ Running
          /\ \E q \in Pid : Answers(q)
          /\ lastError' = FALSE
    /\ UNCHANGED <<osVars, command, done, environment, waiter, target, mu, want, shared>>

\* Stop of a runtime that is not running.  It looks into the channel once more
\* and may take the exit a second goroutine was waiting to send.
StopIdle ==
    /\ mu = "free"
    /\ ~Running
    /\ buffered' = Drained
    /\ \/ UNCHANGED waiter
       \/ \E p \in Pid :
            /\ command # None /\ waiter[p] = "sending" /\ proc[p] = "exited" /\ target[p] = done
            /\ waiter' = [waiter EXCEPT ![p] = "finished"]
    /\ command' = None
    /\ lastError' = FALSE
    /\ UNCHANGED <<osVars, done, environment, target, mu, want, shared>>

\* POST /stop fails.
StopRefused ==
    /\ mu = "free"
    /\ Running
    /\ lastError' = TRUE
    /\ UNCHANGED <<osVars, command, done, environment, chanVars, mu, want, shared>>

\* POST /stop is accepted by the process that answers.
StopAccepted(q) ==
    /\ mu = "free"
    /\ Running
    /\ Answers(q)
    /\ proc' = [proc EXCEPT ![q] = "draining"]
    /\ mu' = "stopping"
    /\ UNCHANGED <<penv, stray, managerVars, chanVars, want, shared>>

\* An exit status is no failure; another error of Wait is.
StopDone ==
    /\ mu = "stopping"
    /\ done \in buffered
    /\ buffered' = buffered \ {done}
    /\ command' = None
    /\ lastError' \in BOOLEAN
    /\ mu' = "free"
    /\ UNCHANGED <<osVars, done, environment, waiter, target, want, shared>>

\* Mutant: a cancelled stop gives the process up.
StopCanceledForgets ==
    /\ mu = "stopping"
    /\ command' = None
    /\ lastError' = TRUE
    /\ mu' = "free"
    /\ UNCHANGED <<osVars, done, environment, chanVars, want, shared>>

\* The request context ends first: the process stays the managed one.
StopCanceled ==
    /\ mu = "stopping"
    /\ lastError' = TRUE
    /\ mu' = "free"
    /\ UNCHANGED <<osVars, command, done, environment, chanVars, want, shared>>

StopTimeout ==
    /\ mu = "stopping"
    /\ Kill(command)
    /\ command' = None
    /\ lastError' = TRUE
    /\ mu' = "free"
    /\ UNCHANGED <<penv, stray, done, environment, chanVars, want, shared>>

\* StatusSnapshot forgets the command when it is not running.
StatusSnapshot ==
    /\ mu = "free"
    /\ buffered' = Drained
    /\ command' = IF Running THEN command ELSE None
    /\ UNCHANGED <<osVars, done, lastError, environment, waiter, target, mu, want, shared>>

\* EnvironmentMatches, CertificateStatus and ForceRenewCertificate ask
\* runningLocked and leave the command.
Query ==
    /\ mu = "free"
    /\ buffered' = Drained
    /\ UNCHANGED <<osVars, managerVars, waiter, target, mu, want, shared>>

\* davd dies and is started again; its Caddy may outlive it.
DaemonRestart ==
    /\ stray' = stray \cup {p \in Pid : Unexited(p)}
    /\ command' = None
    /\ done' = None
    /\ buffered' = {}
    /\ waiter' = [p \in Pid |-> "none"]
    /\ target' = [p \in Pid |-> None]
    /\ lastError' = FALSE
    /\ environment' = NoEnv
    /\ mu' = "free"
    /\ want' = NoEnv
    /\ shared' = {}
    /\ UNCHANGED <<proc, penv>>

Caddy == \E p \in Pid : Boots(p) \/ Exits(p)

Waiter == \E p \in Pid : WaiterReads(p) \/ WaiterSends(p)

Operation ==
    \/ StartFails \/ StartHealthy \/ StartExited \/ StartTimeout
    \/ \E p \in Pid, env \in Env : StartExecs(p, env)
    \/ Reload
    \/ StopIdle \/ StopRefused \/ StopDone \/ StopCanceled \/ StopTimeout
    \/ \E q \in Pid : StopAccepted(q)
    \/ StatusSnapshot
    \/ Query

Next == Caddy \/ Waiter \/ Operation \/ DaemonRestart

Spec == Init /\ [][Next]_vars

\* The waits of Start and Stop end, goroutines run, and clients that poll the
\* status keep getting the mutex in between.
FairSpec ==
    /\ Spec
    /\ WF_vars(Waiter)
    /\ WF_vars(StartTimeout)
    /\ WF_vars(StopTimeout)
    /\ SF_vars(StatusSnapshot)

---------------------------------------------------------------------------
(* Properties *)

\* davd loses no process: one that it started and that has not exited or been
\* killed is the managed command, through cancelled stops, timeouts and natural
\* exits.  Excepted is a process started while the goroutine of an earlier one
\* had yet to read m.done: that exit may be taken for its own.
NothingOrphaned ==
    \A p \in Pid : Live(p) /\ p \notin stray \cup shared => command = p

\* An exit is reported only of a process that has exited, with the same
\* exception.
ExitTruthful ==
    command \notin shared /\ command # None /\ done \in buffered => proc[command] = "exited"

\* m.environment, which decides between a reload and a restart, is the
\* environment of the managed process.
EnvironmentTrue ==
    mu = "free" /\ command # None => environment = penv[command]

---------------------------------------------------------------------------
(* The inductive invariant behind the properties *)

\* The channel in m.done is the one made for the command, and a goroutine finds
\* some channel there.
ChannelInv ==
    /\ command # None => done = command
    /\ mu # "free" => command # None
    /\ \A p \in Pid : waiter[p] = "waiting" => done # None
    /\ \A p \in Pid : waiter[p] = "sending" => target[p] # None

\* Goroutines send to the channel of their own process or to one they share,
\* and the exit in a channel that is not shared is that of its process.
WaiterInv ==
    /\ \A p \in Pid : waiter[p] = "waiting" => done = p \/ done \in shared
    /\ \A p \in Pid : waiter[p] = "sending" => target[p] = p \/ target[p] \in shared
    /\ \A p \in buffered \ shared : proc[p] = "exited"

EnvironmentInv ==
    command # None => penv[command] = IF mu = "starting" THEN want ELSE environment

IInv ==
    /\ TypeOK
    /\ ChannelInv
    /\ WaiterInv
    /\ EnvironmentInv
    /\ NothingOrphaned

---------------------------------------------------------------------------
(* What the repository says of the program, and the code does not do *)

\* docs/CADDY.md: process state is told apart from health, so that the exit of
\* the managed process ends its being the managed process.
ExitNoticed ==
    \A p \in Pid : command = p /\ proc[p] = "exited" ~> command # p

=============================================================================
