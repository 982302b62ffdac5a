---------------------------- MODULE ApplyService ----------------------------
(***************************************************************************)
(* ApplyService (core/internal/app/apply_service.go): the pipeline that    *)
(* turns the desired state in the database into the configuration of the   *)
(* managed Caddy, and the lifecycle operations that share its lock.        *)
(*                                                                         *)
(* Requests run concurrently.  Apply, Start, Restart, Restore, Stop and    *)
(* Delete take a one-slot lock without waiting; a request that finds it    *)
(* taken is answered APPLY_IN_PROGRESS and changes nothing, so only the    *)
(* requests that get the lock appear here.  Management requests that edit  *)
(* the desired state do not take the lock and may commit between any two   *)
(* steps of the pipeline.  pc[c] names the call the operation of caller c  *)
(* makes next, loc[c] holds its local variables.                           *)
(*                                                                         *)
(* Every call may fail (a database error, a cancelled request context, a   *)
(* rejected document, an unhealthy Caddy), and davd may die between any    *)
(* two steps.  Caddy is assumed to die with davd, as it does when a        *)
(* service manager stops the whole process group.                          *)
(***************************************************************************)
EXTENDS ManagedRuntime

CONSTANTS
    Callers,     \* concurrent management requests
    None         \* no lock holder

ASSUME CallerAssumption == None \notin Callers

VARIABLES
    pc,          \* the next step of each caller's operation, "idle" without one
    loc,         \* its local variables
    lock,        \* ApplyService.lock: the caller that holds it
    raced        \* history: rows changed between the snapshot of the apply that
                 \* last recorded a desired revision and the end of that apply

vars == <<storeVars, runtimeVars, pc, loc, lock, raced>>

Labels ==
    {"idle", "snapshot", "identify", "record", "decide", "shortcut", "activate",
     "swap", "fallback", "verify", "mark", "rollback", "failed",
     "restore", "commit", "unrestore", "unswap", "resume", "halt", "boot", "stop"}

Kinds == {"none", "apply", "start", "restart", "stop", "restore"}

Locals ==
    [kind    : Kinds,
     snap    : State \cup {NoSnapshot},  \* the snapshot the apply compiles
     env     : Env,                 \* secret environment it needs
     rev     : Number \cup {0},     \* the revision it activates
     created : BOOLEAN,             \* whether it created that revision
     prev    : Number \cup {0},     \* previousActive
     prevEnv : Env,                 \* previousEnvironment
     changed : BOOLEAN]             \* environmentChanged

\* Locals of a request that has read nothing yet.
Fresh(kind, n) ==
    [kind |-> kind, snap |-> NoSnapshot, env |-> NoEnv, rev |-> n,
     created |-> FALSE, prev |-> 0, prevEnv |-> NoEnv, changed |-> FALSE]

TypeOK ==
    /\ StoreTypeOK
    /\ RuntimeTypeOK
    /\ pc \in [Callers -> Labels]
    /\ loc \in [Callers -> Locals]
    /\ lock \in Callers \cup {None}
    /\ raced \in BOOLEAN

Init ==
    /\ StoreInit
    /\ RuntimeInit
    /\ pc = [c \in Callers |-> "idle"]
    /\ loc = [c \in Callers |-> Fresh("none", 0)]
    /\ lock = None
    /\ raced = FALSE

ConfigOf(n) == IF Exists(n) THEN revisions[n].config ELSE NoConfig

---------------------------------------------------------------------------
(* Steps shared by the operations *)

Goto(c, label) ==
    /\ pc' = [pc EXCEPT ![c] = label]
    /\ UNCHANGED lock

\* The deferred release of the lock, and the return.
Finish(c) ==
    /\ pc' = [pc EXCEPT ![c] = "idle"]
    /\ loc' = [loc EXCEPT ![c] = Fresh("none", 0)]
    /\ lock' = None

\* Mutant: the request goes on when the lock is taken.
AcquireUnguarded(c, kind, n, label) ==
    /\ pc[c] = "idle"
    /\ lock' = c
    /\ pc' = [pc EXCEPT ![c] = label]
    /\ loc' = [loc EXCEPT ![c] = Fresh(kind, n)]
    /\ UNCHANGED <<storeVars, runtimeVars, raced>>

\* select { case s.lock <- struct{}{}: ... default: return }
Acquire(c, kind, n, label) ==
    /\ pc[c] = "idle"
    /\ lock = None
    /\ lock' = c
    /\ pc' = [pc EXCEPT ![c] = label]
    /\ loc' = [loc EXCEPT ![c] = Fresh(kind, n)]
    /\ UNCHANGED <<storeVars, runtimeVars, raced>>

Apply(c)      == Acquire(c, "apply", 0, "snapshot")
Start(c)      == Acquire(c, "start", 0, "resume")
Restart(c)    == Acquire(c, "restart", 0, "resume")
Stop(c)       == Acquire(c, "stop", 0, "stop")
Restore(c, n) == Acquire(c, "restore", n, "restore")

\* Delete is one transaction under the lock.
DeleteRevision(n) ==
    /\ lock = None
    /\ Delete(n)
    /\ UNCHANGED <<runtimeVars, pc, loc, lock, raced>>

\* A call of a handler that returns an error before it has changed anything.
Abort(c) ==
    /\ pc[c] \in {"snapshot", "identify", "record", "resume", "restore"}
    /\ Finish(c)
    /\ UNCHANGED <<storeVars, runtimeVars, raced>>

---------------------------------------------------------------------------
(* apply *)

\* Snapshot, in one read transaction.
TakeSnapshot(c) ==
    /\ pc[c] = "snapshot"
    /\ loc' = [loc EXCEPT ![c].snap = db]
    /\ Goto(c, "identify")
    /\ UNCHANGED <<storeVars, runtimeVars, raced>>

\* Compile, Environment, Validate, FindByIdentity and Active.  The secret is
\* read now, not with the snapshot; what is read of the revisions changes only
\* under the lock.
Identify(c) ==
    /\ pc[c] = "identify"
    /\ LET found == FindByIdentity(loc[c].snap)
       IN loc' = [loc EXCEPT ![c].env = Environment(loc[c].snap.core),
                             ![c].rev = found,
                             ![c].created = (found = 0),
                             ![c].prev = active]
    /\ Goto(c, "record")
    /\ UNCHANGED <<storeVars, runtimeVars, raced>>

Record(c) ==
    /\ pc[c] = "record"
    /\ \/ /\ loc[c].created
          /\ Create(loc[c].snap)
          /\ loc' = [loc EXCEPT ![c].rev = nextNumber]
       \/ /\ ~loc[c].created
          /\ SetDesired(loc[c].rev)
          /\ UNCHANGED loc
    /\ raced' = (db # loc[c].snap)
    /\ Goto(c, "decide")
    /\ UNCHANGED runtimeVars

\* runtimeEnvironmentChanged.
Changed(env) == {env # NoEnv /\ ~m : m \in MatchSet(env)}

\* The active revision holds the same document, Caddy runs and its environment
\* is right: nothing to activate.
Decide(c) ==
    /\ pc[c] = "decide"
    /\ \E status \in StatusSet, changed \in Changed(loc[c].env) :
          IF /\ loc[c].prev # 0
             /\ ConfigOf(loc[c].prev) = ConfigOf(loc[c].rev)
             /\ status = "RUNNING"
             /\ ~changed
          THEN /\ Goto(c, "shortcut")
               /\ UNCHANGED loc
          ELSE /\ Goto(c, "activate")
               /\ loc' = [loc EXCEPT ![c].changed = changed,
                                     ![c].prevEnv = environment]
    /\ UNCHANGED <<storeVars, runtimeVars, raced>>

\* activate, when the secrets changed and Caddy answers: stop it first.
ActivateRestart(c) ==
    /\ pc[c] = "activate"
    /\ loc[c].changed
    /\ "RUNNING" \in StatusSet
    /\ \E ok \in BOOLEAN :
          /\ StopReturns(ok)
          /\ Goto(c, IF ok THEN "swap" ELSE "failed")
    /\ UNCHANGED <<storeVars, loc, raced>>

Swap(c) ==
    /\ pc[c] = "swap"
    /\ \E ok \in BOOLEAN :
          /\ StartReturns(ConfigOf(loc[c].rev), loc[c].env, ok)
          /\ Goto(c, IF ok THEN "verify"
                     ELSE IF loc[c].prev # 0 THEN "fallback" ELSE "failed")
    /\ UNCHANGED <<storeVars, loc, raced>>

\* The new process did not start: start the previous one again.
Fallback(c) ==
    /\ pc[c] = "fallback"
    /\ \E ok \in BOOLEAN : StartReturns(ConfigOf(loc[c].prev), loc[c].prevEnv, ok)
    /\ Goto(c, "failed")
    /\ UNCHANGED <<storeVars, loc, raced>>

\* activate, when no restart is needed or Caddy does not answer the first
\* probe: start a Caddy that is down, reload one that is up or DEGRADED.
ActivateInPlace(c) ==
    /\ pc[c] = "activate"
    /\ \E first \in StatusSet : ~(loc[c].changed /\ first = "RUNNING")
    /\ \E ok \in BOOLEAN, status \in StatusSet :
          /\ IF status \in {"STOPPED", "FAILED"}
             THEN StartReturns(ConfigOf(loc[c].rev), loc[c].env, ok)
             ELSE ReloadReturns(ConfigOf(loc[c].rev), ok)
          /\ Goto(c, IF ok THEN "verify" ELSE "failed")
    /\ UNCHANGED <<storeVars, loc, raced>>

\* Caddy keeps the new document when the probe after the activation fails.
Verify(c) ==
    /\ pc[c] = "verify"
    /\ \E status \in StatusSet :
          IF status = "RUNNING"
          THEN /\ Goto(c, IF loc[c].kind = "restore" THEN "commit" ELSE "mark")
               /\ UNCHANGED adrift
          ELSE /\ Goto(c, "failed")
               /\ adrift' = (serving # NoConfig)
    /\ UNCHANGED <<storeVars, serving, environment, inflight, loc, raced>>

\* MarkApplied commits and the request is answered with success.
ApplySucceeds(c) ==
    /\ pc[c] \in {"shortcut", "mark"}
    /\ MarkApplied(loc[c].rev)
    /\ Finish(c)
    /\ UNCHANGED <<runtimeVars, raced>>

\* Mutant: MarkApplied is tried again until it succeeds.
MarkAppliedRetries(c) ==
    /\ pc[c] \in {"shortcut", "mark"}
    /\ Goto(c, "verify")
    /\ UNCHANGED <<storeVars, runtimeVars, loc, raced>>

\* MarkApplied fails.  After an activation the old document is put back.
MarkAppliedFails(c) ==
    /\ \/ /\ pc[c] = "shortcut"
          /\ Goto(c, "failed")
          /\ UNCHANGED adrift
       \/ /\ pc[c] = "mark"
          /\ Goto(c, "rollback")
          /\ adrift' = (serving # NoConfig)
    /\ UNCHANGED <<storeVars, serving, environment, inflight, loc, raced>>

\* Mutant: the document of the failed revision is loaded again.
PutBackTarget(c) ==
    \E ok \in BOOLEAN :
        IF loc[c].prev # 0 THEN ReloadReturns(ConfigOf(loc[c].rev), ok)
                           ELSE StopReturns(ok)

\* Put back the previous document, or stop when there was none.  The outcome
\* is ignored.
PutBack(c) ==
    \E ok \in BOOLEAN :
        IF loc[c].prev # 0 THEN ReloadReturns(ConfigOf(loc[c].prev), ok)
                           ELSE StopReturns(ok)

Rollback(c) ==
    /\ pc[c] = "rollback"
    /\ PutBack(c)
    /\ Goto(c, "failed")
    /\ UNCHANGED <<storeVars, loc, raced>>

\* Mutant: a reused revision is marked too.
FailedAlways(c) ==
    /\ pc[c] = "failed"
    /\ MarkFailed(loc[c].rev) \/ UNCHANGED storeVars
    /\ Finish(c)
    /\ UNCHANGED <<runtimeVars, raced>>

\* MarkFailed, only of a revision this apply created; it may itself fail.
Failed(c) ==
    /\ pc[c] = "failed"
    /\ \/ /\ loc[c].created
          /\ MarkFailed(loc[c].rev)
       \/ UNCHANGED storeVars
    /\ Finish(c)
    /\ UNCHANGED <<runtimeVars, raced>>

---------------------------------------------------------------------------
(* Start, Stop and Restart *)

\* Mutant: Start and Restart always apply the desired state.
ResumeApplies(c) ==
    /\ pc[c] = "resume"
    /\ Goto(c, "snapshot")
    /\ UNCHANGED <<storeVars, runtimeVars, loc, raced>>

\* Start and Restart bring up the active revision.  Without one, or with one
\* from before state snapshots, they apply the desired state.
Resume(c) ==
    /\ pc[c] = "resume"
    /\ IF Restorable(active)
       THEN /\ loc' = [loc EXCEPT ![c].rev = active,
                                  ![c].env = Environment(revisions[active].state.core)]
            /\ Goto(c, IF loc[c].kind = "restart" THEN "halt" ELSE "boot")
       ELSE /\ Goto(c, "snapshot")
            /\ UNCHANGED loc
    /\ UNCHANGED <<storeVars, runtimeVars, raced>>

\* The Stop of a Restart.
Halt(c) ==
    /\ pc[c] = "halt"
    /\ \/ /\ StopReturns(TRUE)
          /\ Goto(c, "boot")
          /\ UNCHANGED loc
       \/ /\ StopReturns(FALSE)
          /\ Finish(c)
    /\ UNCHANGED <<storeVars, raced>>

\* activateStart; the probe that follows only decides the answer.
Boot(c) ==
    /\ pc[c] = "boot"
    /\ \E ok \in BOOLEAN : StartReturns(ConfigOf(loc[c].rev), loc[c].env, ok)
    /\ Finish(c)
    /\ UNCHANGED <<storeVars, raced>>

StopRuntime(c) ==
    /\ pc[c] = "stop"
    /\ \E ok \in BOOLEAN : StopReturns(ok)
    /\ Finish(c)
    /\ UNCHANGED <<storeVars, raced>>

---------------------------------------------------------------------------
(* Restore *)

\* Get, the checks of the stored snapshot, Environment, Validate, Active.
RestoreChecks(c) ==
    /\ pc[c] = "restore"
    /\ Restorable(loc[c].rev)
    /\ revisions[loc[c].rev].config = Compile[revisions[loc[c].rev].state.core]
    /\ LET env == Environment(revisions[loc[c].rev].state.core)
       IN \E changed \in Changed(env) :
             loc' = [loc EXCEPT ![c].env = env,
                                ![c].prev = active,
                                ![c].prevEnv = environment,
                                ![c].changed = changed]
    /\ Goto(c, "activate")
    /\ UNCHANGED <<storeVars, runtimeVars, raced>>

\* RestoreState commits: database and runtime agree again.
RestoreSucceeds(c) ==
    /\ pc[c] = "commit"
    /\ RestoreState(loc[c].rev)
    /\ raced' = FALSE
    /\ Finish(c)
    /\ UNCHANGED runtimeVars

RestoreStateFails(c) ==
    /\ pc[c] = "commit"
    /\ adrift' = (serving # NoConfig)
    /\ Goto(c, "unrestore")
    /\ UNCHANGED <<storeVars, serving, environment, inflight, loc, raced>>

\* The rollback restarts Caddy when its environment must change back.
Unrestore(c) ==
    /\ pc[c] = "unrestore"
    /\ \/ /\ loc[c].prev # 0
          /\ "RUNNING" \in StatusSet
          /\ TRUE \in Changed(loc[c].prevEnv)
          /\ \E ok \in BOOLEAN : StopReturns(ok)
          /\ Goto(c, "unswap")
          /\ UNCHANGED loc
       \/ /\ \E status \in StatusSet :
                \/ loc[c].prev = 0
                \/ status # "RUNNING"
                \/ FALSE \in Changed(loc[c].prevEnv)
          /\ PutBack(c)
          /\ Finish(c)
    /\ UNCHANGED <<storeVars, raced>>

Unswap(c) ==
    /\ pc[c] = "unswap"
    /\ \E ok \in BOOLEAN : StartReturns(ConfigOf(loc[c].prev), loc[c].prevEnv, ok)
    /\ Finish(c)
    /\ UNCHANGED <<storeVars, raced>>

---------------------------------------------------------------------------
(* The rest of the system *)

\* Labels at which the operation has a previous and a target revision.
Late == {"decide", "shortcut", "activate", "swap", "fallback", "verify", "mark",
         "rollback", "failed", "commit", "unrestore", "unswap"}

\* Some operation has chosen the revision it is about to make active.
Recorded == \E c \in Callers : pc[c] \in Late

Write(s) ==
    /\ WriteRows(s)
    /\ raced' = (raced \/ Recorded)
    /\ UNCHANGED <<runtimeVars, pc, loc, lock>>

ReplaceSecret(v) ==
    /\ PutSecret(v)
    /\ UNCHANGED <<runtimeVars, pc, loc, lock, raced>>

Runtime ==
    /\ LateLoad \/ CaddyExits
    /\ UNCHANGED <<storeVars, pc, loc, lock, raced>>

\* davd dies and is started again.
DaemonCrash ==
    /\ Down
    /\ environment' = NoEnv
    /\ pc' = [c \in Callers |-> "idle"]
    /\ loc' = [c \in Callers |-> Fresh("none", 0)]
    /\ lock' = None
    /\ UNCHANGED <<storeVars, raced>>

\* The steps of an operation that holds the lock.
Step(c) ==
    \/ Abort(c) \/ TakeSnapshot(c) \/ Identify(c) \/ Record(c) \/ Decide(c)
    \/ ActivateRestart(c) \/ Swap(c) \/ Fallback(c) \/ ActivateInPlace(c)
    \/ Verify(c) \/ ApplySucceeds(c) \/ MarkAppliedFails(c) \/ Rollback(c) \/ Failed(c)
    \/ Resume(c) \/ Halt(c) \/ Boot(c) \/ StopRuntime(c)
    \/ RestoreChecks(c) \/ RestoreSucceeds(c) \/ RestoreStateFails(c)
    \/ Unrestore(c) \/ Unswap(c)

Request(c) ==
    \/ Apply(c) \/ Start(c) \/ Restart(c) \/ Stop(c)
    \/ \E n \in Number : Restore(c, n)

Next ==
    \/ \E c \in Callers : Request(c) \/ Step(c)
    \/ \E n \in Number : DeleteRevision(n)
    \/ \E s \in State : Write(s)
    \/ \E v \in Secret : ReplaceSecret(v)
    \/ Runtime
    \/ DaemonCrash

Spec == Init /\ [][Next]_vars

\* A goroutine that holds the lock keeps running: the Admin API client and the
\* start and stop waits time out, and "caddy validate" and SQLite's calls are
\* assumed to return.
FairSpec == Spec /\ \A c \in Callers : WF_vars(Step(c))

---------------------------------------------------------------------------
(* Properties *)

\* Applying a state that was applied before reuses its revision: no two stored
\* revisions have the same document and the same state, however requests,
\* failures, deletions and restarts of davd interleave (FindByIdentity and
\* Create are two transactions; only the lock keeps them together).
IdentityUnique ==
    \A m, n \in Number :
        /\ Restorable(m)
        /\ Restorable(n)
        /\ revisions[m].config = revisions[n].config
        /\ revisions[m].state = revisions[n].state
        => m = n

\* The active revision is stored and recorded as applied, and the desired
\* revision is stored: neither a failed re-apply nor a deletion between two
\* steps of another operation takes that away (MarkFailed, Delete).
ActiveWasApplied ==
    /\ active # 0 => Exists(active) /\ revisions[active].apply = "APPLIED"
    /\ desired # 0 => Exists(desired)

\* When no change is flagged, and none was committed during the last apply, the
\* desired revision holds the rows of the database; DNS credentials that a
\* restore kept may come on top (Create, SetDesired, MarkApplied, RestoreState
\* and the dirty triggers).
PendingHonest ==
    ~dirty /\ ~raced /\ Restorable(desired) =>
        /\ db.core = revisions[desired].state.core
        /\ revisions[desired].state.dns \subseteq db.dns

\* Between operations Caddy serves the document of the active revision, unless
\* an operation failed after it had switched Caddy: what activate, its
\* fallback, the rollbacks and the shortcut of apply are for.
RuntimeMatchesActive ==
    lock = None /\ serving # NoConfig /\ ~adrift => serving = ActiveConfig

\* A stored revision never changes its document or its state, and a number once
\* given is never given again, not even after its revision was deleted (Create,
\* revision_sequence).
RevisionsAppendOnly ==
    [][\A n \in Number :
          /\ Exists(n) /\ Exists(n)' =>
                /\ revisions'[n].config = revisions[n].config
                /\ revisions'[n].state = revisions[n].state
          /\ ~Exists(n) /\ Exists(n)' => n = nextNumber /\ nextNumber' > n]_vars

\* Start and Restart leave the revisions and their pointers alone while there
\* is an active revision they can bring up: pending changes stay pending.
LifecycleKeepsRevisions ==
    [][\A c \in Callers :
          lock = c /\ loc[c].kind \in {"start", "restart", "stop"} /\ Restorable(active)
             => UNCHANGED <<revisions, nextNumber, desired, active>>]_vars

\* Every operation that takes the lock gives it back, so that a request refused
\* with APPLY_IN_PROGRESS succeeds when it is tried again later.
LockAlwaysReleased == \A c \in Callers : lock = c ~> lock # c

---------------------------------------------------------------------------
(* The inductive invariant behind the safety properties *)

\* Labels at which Caddy has been given the target's document.
Switched == {"verify", "mark", "commit"}

\* Exactly the lock holder is inside an operation.
LockInv == \A c \in Callers : pc[c] # "idle" <=> lock = c

\* Numbers not given out yet are free.
NumberInv == \A n \in Number : Exists(n) => n < nextNumber

\* What the locals of the operation in progress stand for.
LocalOK(c) ==
    /\ pc[c] \in {"identify", "record"} => loc[c].snap \in State
    /\ pc[c] \in {"snapshot", "identify", "record", "decide", "shortcut", "mark", "rollback"}
          => loc[c].kind # "restore"
    /\ pc[c] = "resume" => loc[c].kind \in {"start", "restart"}
    /\ pc[c] = "record" =>
          /\ loc[c].prev = active
          /\ loc[c].created => Matching(loc[c].snap) = {}
          /\ ~loc[c].created => loc[c].rev \in Matching(loc[c].snap)
    /\ pc[c] = "restore" => ~loc[c].created /\ loc[c].kind = "restore"
    /\ pc[c] \in Late =>
          /\ loc[c].prev = active
          /\ Exists(loc[c].rev)
          /\ loc[c].created => loc[c].rev # active
    /\ pc[c] \in {"halt", "boot"} => loc[c].rev = active /\ Exists(active)

\* The rows of the database are those of revision n, but for kept credentials.
Agrees(n) ==
    Restorable(n) => /\ db.core = revisions[n].state.core
                     /\ revisions[n].state.dns \subseteq db.dns

\* An apply in progress will make a revision desired that agrees with the rows,
\* unless they changed under it.
AgreeOK(c) ==
    pc[c] \in Late /\ loc[c].kind # "restore" /\ ~raced => Agrees(loc[c].rev)

\* What Caddy serves at each step of an operation, unless one failed half-way.
ServingOK(c) ==
    /\ pc[c] \in {"swap", "fallback"} => serving = NoConfig
    /\ pc[c] = "shortcut" => ConfigOf(loc[c].rev) = ActiveConfig
    /\ pc[c] # "idle" /\ serving # NoConfig /\ ~adrift =>
          serving = IF pc[c] \in Switched THEN ConfigOf(loc[c].rev) ELSE ActiveConfig

\* A Caddy that is down has no load left to finish, and one that has is adrift.
DriftInv ==
    /\ serving = NoConfig => inflight = {} /\ ~adrift
    /\ inflight # {} => adrift

StoreInv ==
    /\ StoreTypeOK
    /\ NumberInv
    /\ ActiveWasApplied
    /\ IdentityUnique
    /\ PendingHonest

IInv ==
    /\ TypeOK
    /\ LockInv
    /\ StoreInv
    /\ DriftInv
    /\ RuntimeMatchesActive
    /\ \A c \in Callers : LocalOK(c) /\ AgreeOK(c) /\ ServingOK(c)

\* Labels of the pipeline that Start and Restart enter without a revision to
\* bring up.
Applying == {"snapshot", "identify", "record"} \cup Late

\* Added for LifecycleKeepsRevisions: a Start or Restart is in the pipeline only
\* while there is no revision it could have brought up.
LifecycleInv ==
    \A c \in Callers : pc[c] # "idle" =>
        /\ loc[c].kind = "stop" => pc[c] = "stop"
        /\ loc[c].kind \in {"start", "restart"} /\ pc[c] \in Applying => ~Restorable(active)

---------------------------------------------------------------------------
(* What the repository says of the program, and the code does not do *)

\* docs/ARCHITECTURE.md: the pending state tells a user when the database
\* differs from what Caddy runs.
PendingTruthful ==
    ~Pending /\ Restorable(active) => db.core = revisions[active].state.core

\* caddy/runtime.go: a changed provider secret is turned into a restart, so a
\* successful apply leaves a running Caddy with the secret it needs.
SecretReachesCaddy ==
    [][\A c \in Callers :
          ApplySucceeds(c) /\ serving # NoConfig /\ loc[c].env # NoEnv
             => environment = loc[c].env]_vars

=============================================================================
