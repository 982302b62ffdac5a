# DavDeck: TLA+ models, checks and proofs

DavDeck manages a Caddy-based WebDAV server. The daemon `davd` keeps users,
shares, permissions and TLS settings in SQLite, compiles them to a Caddy
document and runs Caddy as a child process; `davctl` and the desktop GUI are
clients of its Management API. This directory models how the daemon decides what
Caddy runs, the requests that change it, the renewals, secrets and files around
it, and the life of the daemon itself. TLC checks the models on small instances;
TLAPS proves their safety for every instance.

## 1. Inventory

Paths are below `core/internal` unless they start with another directory.

| Component | State it keeps | Operations that change it | What makes it correct | Modules |
|---|---|---|---|---|
| Apply pipeline, `app/apply_service.go` | a one-slot lock | Apply, Start, Stop, Restart, Restore, Delete | one operation at a time; on every failure, database and Caddy agree or the disagreement is known; the lock comes back | ApplyService, ApplyContract |
| Revision repository, `storage/revision_repository.go`, migrations 0003-0010 | `config_revisions`, `revision_sequence`, `runtime_state` (desired, active, dirty) | Create, SetDesired, MarkApplied, MarkFailed, Delete, RestoreState; dirty triggers | revisions immutable and unique, numbers never reused, pointers valid, dirty truthful | RevisionStore |
| Caddy runtime manager, `caddy/runtime.go`, `admin.go`, `validator.go` | command, done channel, last error, environment, mutex; one goroutine per process | Start, Reload, Stop, Status, EnvironmentMatches | no process lost, no false exit, the remembered environment is the process's | CaddyRuntime, ManagedRuntime |
| Users, shares, permissions, settings, TLS, `app/*_service.go`, `api/*.go` | rows of the desired state | requests, most of which apply at once | a success means that Caddy serves at least this change | Access |
| Compiler, `caddy/compiler.go`, and the handlers of `caddy/caddy-webdav` | none | Compile | routes grant exactly the stored permissions | AccessCompiler |
| YAML import and export, `configfile`, `storage/config_repository.go` | none of its own | Import | merges by name, keeps ids and passwords | ConfigFile |
| Certificate renewal, `caddy/certificate_renewal.go`, `caddy/caddy-renewal` | renewals by host, on both sides of the Admin API | force, poll, cancel, time out | every record has an owner, a late step belongs to its own renewal | Certificates |
| DNS credentials and secrets, `app/dns_provider_service.go`, `storage/secret_store.go` | credentials, encrypted secrets, key file | Save, Delete, RestoreState; Environment for an apply or restore | references hold, secrets decrypt and belong to their provider | Credentials |
| Daemon lifecycle, `cmd/davd/main.go` | instance lock, token, endpoint file | start-up, shutdown | one daemon, found by its clients; nothing left behind | Daemon |
| Opening and migrations, `storage/storage.go` | `schema_migrations` | Open, RunMigrations | davd only works on its own schema | Daemon |
| Log store, `logging/store.go` | ring of records, next id | Add, Query | pages neither repeat nor skip records | LogStore |
| `davctl`, `internal/client` | none | one request; pages of the log | leads to the davd that serves | Daemon (client, pager) |
| Diagnostics, endpoints, status, platform services, GUI, caddy-dnspod | see `PROJECT.json` | | | not modelled |

Interactions. Every management request runs in its own goroutine. Requests that
edit rows commit a transaction (which raises `dirty` through a trigger) without
the apply lock, and then usually call Apply. Apply takes the lock without waiting;
a request that finds it taken is answered `APPLY_IN_PROGRESS`. Under the lock it
reads a snapshot, reads the secrets, validates with the Caddy binary, records a
revision, calls the runtime manager, probes the status and records the outcome:
some ten calls, each a transaction or a request of its own, each able to fail.
The runtime manager has its own mutex, which status requests and certificate
requests take as well, and learns of the end of a process through a channel.
Renewals run inside Caddy; davd starts, asks for and cancels them by host name and
watches the certificate file. Invocations of davd meet in the files of its data and
runtime directories and at Caddy's admin address.

Hard behaviours: edits between the steps of an apply; failures after Caddy has
been switched, and failures of the rollback; loads that Caddy finishes after the
five-second client gave up; probes that fail once; a process that ends, is killed
or is replaced while its goroutine still has to report; the late failure or answer
of a renewal that has a successor; saves of one credential in two transactions; a
request repeated after its apply failed; a davd that unwinds while the next one
starts; the death of davd between any two steps. `PROJECT.json` lists them under
`hazards` with their lines.

## 2. Modules

    RevisionStore <- ManagedRuntime <- ApplyService <- ApplyRefinement <- MCApplyService <- MCLastWorkingRuntime
                                            ^                ^   :
                            ApplyServiceProofs <- ApplyRefinementProofs
                                                                 : INSTANCE
    AccessCompiler <- ConfigFile <- Access <- MCAccess           v
                                     ^ :.....INSTANCE......> ApplyContract
                                AccessProofs
    CaddyRuntime <- MCCaddyRuntime, CaddyRuntimeProofs
    Certificates <- MCCertificates, CertificateProofs
    Credentials  <- MCCredentials, CredentialProofs
    LogStore <- Daemon <- MCDaemon, DaemonProofs

`A <- B` means that B extends A. `ApplyContract` is what the pipeline promises its
callers: `ApplyRefinement` maps ApplyService to it, and `Access` uses it in the
pipeline's place, so that requests compose with a pipeline of seven variables
instead of fifteen.

### The apply pipeline: RevisionStore

One operator per transaction of the repository; SQLite has a single connection,
so transactions are atomic. `db` is the desired state: `core` stands for the
contents of all rows a revision restores (two states are equal when their state
hashes are), `dns` for credentials that no TLS profile references, which
`RestoreState` upserts and never deletes. `Compile` is a parameter: different
`Core` values may compile to the same document. A revision holds its document,
its state (`NoSnapshot` for rows from before migration 0007) and its apply
status. Revision ids and numbers are identified, 0 is NULL. `validation_status`
is left out: the only value ever stored is VALID, because Create follows a
successful validation. `StoreInit` is a fresh database, or one that an
older release left with an active revision without a snapshot.

### ManagedRuntime

What the pipeline sees of Caddy: `serving` (the document, or none), the
environment of the process, and for every call the set of outcomes it may have,
with "returned an error" kept apart from "had no effect". `inflight` holds loads
whose client gave up. `adrift` is a history variable: some operation failed after
handing Caddy a document and nothing has put Caddy right since. A Start against a
manager that has not noticed an exit may return nil with Caddy down, which is the
last disjunct of `StartReturns`.

### ApplyService

`pc[c]` names the next call of the operation of caller `c` and `loc[c]` has its
local variables (snapshot, environment, target revision, previous revision and
environment). One action per call:

| Label | Action | Code |
|---|---|---|
| snapshot, identify, record | TakeSnapshot, Identify, Record | `apply`, 112-165 |
| decide | Decide (shortcut or activation) | 167-179 |
| activate, swap, fallback | ActivateRestart, Swap, Fallback, ActivateInPlace | `activate` |
| verify | Verify | 180-182, 481-483 |
| shortcut, mark | ApplySucceeds, MarkAppliedFails | 169-176, 193-205 |
| rollback, failed | Rollback, Failed | 183-203 |
| resume, halt, boot, stop | Resume, Halt, Boot, StopRuntime | Start, Restart, Stop |
| restore, commit, unrestore, unswap | RestoreChecks, RestoreSucceeds, RestoreStateFails, Unrestore, Unswap | Restore |

`Abort` is an error return before anything was changed. Reads that only see
what the lock protects (FindByIdentity, Active) share a step with the call next to
them; reads of what others change (the rows, the secret, the status, the
environment) have steps of their own. `Write` and `ReplaceSecret` are commits of
management requests, `Runtime` is Caddy acting by itself, `DaemonCrash` the
death and restart of davd, with which Caddy is assumed to die here (CaddyRuntime
drops that assumption). `raced` is a history variable: rows were edited during the
apply that last recorded a desired revision. The failure of `NewTimestamp`, which
needs a clock that reads the zero time, is not modelled.

### CaddyRuntime

The fields of `RuntimeManager`, the operating system's view of each process
(`booting`, `serving`, `draining`, `killed`, `exited`), the channel of each process
(`buffered`) and its goroutine. `go func() { m.done <- command.Wait() }()` reads the
field `m.done` without the mutex; the language leaves its order relative to
`Wait` open, so `WaiterReads` may happen at any time. Operations hold the mutex for
their whole duration; Start and Stop wait inside it and are split at their
`select`. `Running`/`Drained` are `runningLocked` with its side effect: it takes
the exit out of the channel. `shared` is a history variable: the processes that were
started while the goroutine of an earlier one had not yet read `m.done`, so that two
goroutines may report to one channel. `stray` are processes a dead davd left behind.

### ApplyContract and ApplyRefinement

The contract has no revisions, environments, probes or retries: `rows` (the
desired state), `past` (documents of the stored revisions), `busy`, the `target` of
the operation, the `goal` (document of the active revision), what Caddy `runs`, and
`broken` (an operation failed after it had handed Caddy a document). An operation
begins, takes the compiled rows (`Snapshot`) or a stored document (`Select`) as its
target, stores it, works on Caddy with nothing but target and goal, and commits or
gives up; without `broken`, Caddy then has the new or the old goal, or no process.
The mapping computes `target` from the lock holder's label and locals
(`TargetOf`); `broken` is `adrift`.

### AccessCompiler

Rows of the tables users, shares, share_permissions, the ports and whether TLS is on,
and `CompileRows`: for each enabled share its reading and writing routes with their
accounts, the discovery routes and the redirect. `Serve` is Caddy's routing with the
two handlers of caddy-webdav; a request is a path (compared as a whole slug), a
method, a scheme, a host and an account. The reference definition (`Granted`,
`Faithful`) speaks of permissions only, never of routes. Shares are taken in the order
of their slugs, as `Compile` sorts them; a password is its hash; certificate automation
is not part of the document here, and neither are HEAD, OPTIONS and the Depth header,
with which discovery answers without the listing or refuses.

### ConfigFile

`Export` builds a document without ids and hashes from rows; `Import` merges one
into the rows in a single transaction, with new ids for new names and a random
password (`Placeholder`) for new users. Syntax, field checks and the DNS section are
left out.

### Access

`pc[c]` is the next call of request `c`: `get` and `list` are reads, `write` its
transaction, `apply` to `end` the apply on the contract, `reread` and `repeated` the
last read before the answer. `SetEnabled`, `UpdateShare` and `SetPermission` compare
what they read with the request and answer at once when nothing changes (`NoOp`).
`UpdateShare` writes the whole row it read. TLS changes and imports end without
an apply. Restoring and deleting a revision are not among the requests here; they are
operations of ApplyService. Every call may fail; `DaemonCrash` and `CaddyExits` may come
at any time.
Two history variables carry the property: `promise[c]`, the accesses no later commit
has moved since the commit of `c`, and `settled`, those of requests answered with
success.

### Certificates

One host, two sides. davd: the record in `RuntimeManager.renewals` (`record`,
`failed`), the goroutine of each renewal (`pc`, `halted`) and a cancellation in two
halves (`canceler`). Caddy: the job of the host (`registry`), its goroutines
(`running`, also those of a registry that a reload replaced), their contexts
(`aborted`) and the certificate. Calls between the sides name the host and may be
refused, lost or answered for another renewal's job. `Reload`, `CaddyStarts`,
`CaddyStops` are RuntimeManager's with `cancelRenewalsLocked`; Caddy provisions its
modules anew on every load, so a reload makes a new registry (the comment at
`caddy-renewal/renewal.go:73-74` says that it survives). `watched` in `canceler`
tells a cancellation sent after the start of its renewal was answered.

### Credentials

`DNSProviderService.Save` is `Reads`, `ChecksSecret`, `StoresRow`, `PutsSecret`, each
interleaved with other saves, deletions, profile changes, an apply or a restore and
crashes. A secret is the provider it was entered for and the key that encrypts it. Two
providers with a single field `api_token` accept each other's secrets, which is why the
check in `Environment` does not help; the instance has two such providers. The key file
is absent, short or whole; davd stays down with a short one.

`env` is the operation that holds the apply lock. It takes a snapshot of the rows and the
profile (`ApplyBegins`) or that of a stored revision (`RestoreBegins`), reads the row of
the credential the snapshot refers to and then its secret, and ends by storing a revision
(`ApplyRecords`, which refuses two credentials of one name as
`RuntimeConfigInput.Validate` does), by `RestoresState`, or with an error.
`RestoresState` is the writer of `revision_repository.go:248-257`: it puts back name and
provider of every credential of the snapshot, brings back deleted ones, keeps the others
and leaves the secrets alone. `used` are the identifiers ever drawn, since a POST never
draws one again while a restore may bring one back.

Two history variables: `torn`, credentials of which saves overlapped or one ended between
its two transactions (also by a restore in between); `restored`, those of which a restore
put back an older row, until they are deleted or a save has stored row and secret. `calm`
in `env` says that the credential agreed with the snapshot when the operation began, was
neither torn nor restored, and has not been saved since.

### LogStore and Daemon

`LogStore` is pure: `Add` to a bounded ring, `Query` for one page before a cursor. The
loop of `Store.Query` from the newest record to the oldest is `Nth`: the k-th match it
comes to is the one with k - 1 matches after it.
`Daemon` runs several invocations of davd over one lock, database, token, endpoint
file and Caddy address. The phases of an invocation are the statements of `runDaemon`:

| Phase reached | Action | Failure | Unwinds through |
|---|---|---|---|
| locked | Locks, IsRefused | | |
| opened | Migrates (repeatedly), Opens | OpenFails, or a foreign history | releasing |
| tokened | Tokens | TokenFails | releasing |
| started | StartsCaddy (headless only) | StartCaddyFails | stopping |
| listening | Listens | ListenFails | stopping |
| writing, serving | Truncates, Serves | WriteFails (the file is untouched or empty), CloseFails (it holds the address) | stopping |
| draining | ShutdownRequested | DrainTimesOut leaves a request behind | removing, stopping, releasing, exiting, gone |
| removing | Drains; ServeFails when the listener fails | RemoveFails leaves the endpoint | stopping, releasing, exiting, gone |
| stopping | RemovesEndpoint | StopFails and StopsNothing leave Caddy behind | releasing, exiting, gone |
| releasing | StopsCaddy | | exiting, gone |

A request begins while an invocation serves and may outlive a shutdown that timed out.
To work on Caddy it enters `RuntimeManager` (`inside`: it holds the mutex), where it
starts or stops Caddy and stays as long as it likes: `caddy validate` runs without a
timeout. The deferred Stop waits for the mutex, whatever its context says. `StopsNothing`
is the Stop of a manager that has lost its process, which `CaddyRuntime` shows to be
possible after a second start, and which returns nil (`runtime.go:206-218`).
`Crashes` frees the lock and leaves files and Caddy. A `client` is a davctl that reads the
endpoint, then the token, then asks; `pager` is one that reads the log page by page while
records are added. `excused` is a history variable: what the last holder of the lock may
leave behind, Caddy or the endpoint. Builds differ in their migrations; a migration is its
checksum.

## 3. Runs

| Run | Instance | States | Shows |
|---|---|---|---|
| apply_safety | 2 callers, 2 revisions, 2 states (one with the DNS challenge), 2 documents, 2 secrets | 760,662 | the invariants and action properties of ApplyService |
| apply_liveness | 2 callers, 1 secret, fairness | 369k | LockAlwaysReleased; ApplyService implements ApplyContract |
| caddy_safety | 3 processes, 2 environments | 89,958 | process bookkeeping |
| access | 2 callers, 3 requests in a row from a small database; and every database of 2 users and 2 shares as a quiet initial state | 759,889 | AnsweredMeansServed, ImportKeeps; CompilerFaithful, RoundTrip |
| certificates | 2 renewals of one host, 2 new certificates, fairness | 181,518 | renewal records, jobs and monitors |
| credentials | 2 credentials, 2 names, 2 providers, 3 saves, 2 at a time, 1 stored revision, 2 keys | 2,875,276 | credentials, secrets, key file, environment, restore |
| daemon | 2 invocations, 3 builds, ring of 2, pages of 1, 3 records, fairness | 345,264 | endpoint, schema, token, clean-up, log pages, ShutdownEnds |
| pending_truthful, last_working_runtime, secret_reaches_caddy | 1 caller, 2 revisions, 2 secrets | | the statement of the documentation is violated by the code, see section 6 |
| exit_noticed | 2 processes, fairness | | likewise |
| retry_answered | 1 caller, 2 requests | | likewise |

Bounds. `MaxNumber = 2` revisions give a previous and a new revision, a deleted
one between them, and a legacy one followed by a new one; number reuse needs
create, create, delete. Two callers are enough because the lock admits one: a
third is idle like the second. Two states, one of them with the DNS challenge,
give document changes, environment changes and edits that are undone; credentials
that a restore keeps (`Provider`) are covered by the proof of `PendingHonest`. Three
processes give a process, its replacement and the replacement's replacement. Three
requests of two callers give a change, a concurrent one and the repetition of either;
what the compiler and the file do depends on the rows alone, so databases are
enumerated as initial states instead of reached. Two renewals give an old and a new
one; every hazard of the component is one of these two meeting. In Credentials two
saves overlap on one credential or on one name, and the second key would only be
made if the first were lost; three saves and one stored revision give the longest story
of the component: two credentials or two providers, the older of them in the revision,
and a save before or after its restore. Two invocations of davd give a predecessor (crashed,
unwinding or refused) and its successor; the third build has another second
migration. Bounded runs of Access and Daemon come to an end, and a short key file
stops davd for good, so these runs do not check deadlock; all others do. The
theorems remove the bounds. Symmetry is used only in runs without liveness.

Fairness. `ApplyService!FairSpec` has weak fairness of the steps of each
operation: every wait inside one ends (5 s Admin API client, 15 s start, 5 s stop),
and `caddy validate` and SQLite calls are assumed to return. `CaddyRuntime!FairSpec`
lets goroutines run and timeouts fire (weak fairness) and assumes that clients poll
the status again and again and get the mutex in between (strong fairness, because
other operations take it for a while). `Certificates!FairSpec` has weak fairness of
davd's own steps and strong fairness of the fifteen-minute timer, which a tick of the
same `select` may precede again and again; nothing is assumed of Caddy.
`Daemon!FairSpec` has strong fairness of the clean-up: Shutdown, and Stop once it has
the mutex, have deadlines; `os.Remove`, `database.Close` and the release of the lock are
assumed to return; Go hands its mutex to a waiter that has waited long enough, so Stop
gets one that is free again and again. Nothing is assumed of requests. That none stays
inside the manager for ever is the premise of `ShutdownEnds` itself.

## 4. What the properties say

Several properties have an exception in the form of a history variable. Each
exception is as narrow as the code allows: it names the failure or the overlap
after which the promise is really lost, and either a violation run or the
description below shows that it is.

Apply pipeline

* `IdentityUnique`: a state that was applied before is not stored twice, although
  the search and the insertion are separate transactions.
* `ActiveWasApplied`: the active revision exists and is marked applied, the
  desired one exists.
* `PendingHonest`: a clear dirty bit means that the desired revision has the rows
  of the database, unless rows were edited during the apply (`raced`). The exception
  is real: `PendingTruthful`, without it, is violated.
* `RuntimeMatchesActive`: between operations Caddy serves the active revision's
  document, unless an operation failed after switching it (`adrift`). The exception is
  real: an apply that finds Caddy with the active document and fails may leave it with
  another (`LastWorkingRuntimeKept`, violated).
* `RevisionsAppendOnly`, `LifecycleKeepsRevisions`: what a step may never do to
  stored revisions, and what Start and Restart may never do to pending changes.
* `LockAlwaysReleased`: no path of an operation keeps the lock.
* `ImplementsContract`: every step of the pipeline is one of the contract's or none.

Runtime manager

* `NothingOrphaned`, `ExitTruthful`: a live process that davd started is the managed
  one, and only an exited one is reported so, except a process in `shared`. The goroutine
  of a process reads `m.done` without the mutex (`runtime.go:111`), so the exit of an
  earlier process may be taken for that of the next one, which then runs on unmanaged.
* `EnvironmentTrue`: the remembered environment is that of the managed process, without
  exception.

That the process that answers the probe of a Start is the one it started is not stated:
a Caddy that survived a dead davd may answer, and the code cannot tell.

Requests, compiler and file

* `AnsweredMeansServed`: a change answered with success is served until a later
  commit moves it, whatever other requests, failed applies, restarts and crashes come
  in between, unless an apply failed half-way (`broken`).
* `CompilerFaithful`: the routes, as Caddy executes them, grant a request exactly
  what the permissions say, and discovery lists exactly the shares a user may read.
* `RoundTrip`, `ImportKeeps`: importing an export changes nothing, and an import
  keeps what its document does not name.

Certificates

* `OwnerAlive`, `RenewalEnds`: a record that is ISSUING has a step left that ends it,
  and it ends, even if Caddy loses the job or never answers.
* `FailedForItself`, `FinishedMeansNew`: a renewal is recorded as failed only by its
  own monitor, and finished only with a newer certificate than it started from,
  although Caddy answers for the host and not for the renewal.
* `CancelStops`: an answered cancellation leaves no job of its renewal that could
  still succeed, if the start of the renewal had been answered (`watched`).

Credentials

* `ReferencesExist`, `SecretsReadable`: no profile or secret without its credential,
  no secret without the key on disk, through every crash.
* `SecretOfProvider`, `NamesUnique`: a secret was entered for the provider of its
  credential and names are unique, unless saves overlapped or were cut off (`torn`) or a
  restore put back an older row (`restored`). Both exceptions are real. Save a credential
  for one provider, apply, save it for the other with its secret, restore: the first
  provider now has the secret of the second. Rename a credential, give its name to another
  one, restore: two have it.
* `EnvironmentOfProvider`: the secret Caddy is given was entered for the provider in the
  snapshot the document was compiled from, although row and secret are read again later,
  if the credential was `calm`.

Daemon and logs

* `EndpointNamesServer`, `TokenHonoured`: a client finds the davd that serves and is
  not refused for its token, however davds are replaced between its reads.
* `SchemaIsOwn`: a davd past Open has executed exactly its own migrations.
* `LeavesNothing`: a davd that ends by itself has left no Caddy and no endpoint of its
  own when it gives the lock back, except a Caddy that a request started after Stop, that
  Stop failed to stop or that the manager had lost, and an endpoint whose write or removal
  ended in an error. `excused` has exactly these cases; without any one of them the run
  fails.
* `ShutdownEnds`: a shutdown ends although requests never do, unless one stays inside
  the runtime manager for ever, where Stop waits for it.
* `PagesComplete`: pages taken while the ring drops records have neither repetitions
  nor gaps.

## 5. Proofs

Seven modules hold theorems. All are proved for all values of the constants, from the
named assumptions only:

* `StoreAssumption` (the states with the DNS challenge are states, `Compile` maps
  states to documents, at least one revision number, `NoConfig` is no document,
  `NoEnv` no secret), `RevisionAssumption` (the two "none" values differ from
  real ones), `CallerAssumption`, `PidAssumption`, `RenewalAssumption` and
  `CredentialAssumption` (`None` is no caller, process, renewal, credential; bounds
  are numbers; the provider types are the registry's), `DaemonAssumption` (builds are
  non-empty sequences of migrations that share their first one; `None` and the empty
  endpoint are no invocation; `MaxRecords` is a number), `RowAssumption` (`None` is no row and no secret),
  `CompilerAssumption` (slugs have a place among the sorted ones, the base path is no
  slug), `FileAssumption` (a missing section is no port or id, the password of an
  imported user has a hash), `AccessAssumption` (the requests are requests, the initial
  databases satisfy the schema),
  `LogAssumption` (capacity and page size are positive).

| Module | Theorems | Properties |
|---|---|---|
| ApplyServiceProofs | TypeCorrect, IdentitiesAreUnique, ActiveIsApplied, PendingIsHonest, RuntimeIsActive, RevisionsOnlyAppended, LifecycleIsReadOnly; OperationsAreBounded | all properties of apply_safety; the core of LockAlwaysReleased |
| ApplyRefinementProofs | PipelineKeepsContract | ImplementsContract |
| CaddyRuntimeProofs | TypeCorrect, NeverOrphans, ExitsAreTruthful, EnvironmentIsTrue | all properties of caddy_safety |
| CertificateProofs | TypeCorrect, OwnersAreAlive, FailuresAreOwn, FinishedIsNew, CancelsStop | all safety properties of certificates |
| CredentialProofs | TypeCorrect, ReferencesAlwaysExist, SecretsAlwaysReadable, SecretsOfProviders, NamesAreUnique, EnvironmentsOfProviders | all properties of credentials |
| AccessProofs | TypeCorrect, AnsweredIsServed, AlwaysFaithful, AlwaysRoundTrip, ImportsKeep; CompiledRowsFaithful, ExportImportIdentity | all properties of access; the last two for any rows the schema admits |
| DaemonProofs | TypeCorrect, EndpointsNameServers, SchemasAreOwn, TokensAreHonoured, NothingIsLeft, PagesAreComplete; CleanUpIsBounded | all safety properties of daemon; the core of ShutdownEnds |

The argument for ApplyService. No property is inductive by itself: each speaks of
the tables, or of the time between operations, and is re-established by the last
step of an operation from what its earlier steps read. `ApplyService!IInv` adds

* `LockInv`: exactly the lock holder is in an operation, so what it read of the
  revisions is still true (`Alone`);
* `LocalOK`: the previous revision is the active one, the target exists, a
  created target is not active (so MarkFailed cannot hit the active revision), and
  at `record` the search result is still right (so Create keeps identities unique);
* `AgreeOK`: the revision to be made desired agrees with the rows unless `raced`;
* `ServingOK` and `DriftInv`: at the labels in `Switched` Caddy serves the target's
  document, at the others the active one's, unless `adrift`; a Caddy that is down is
  not adrift and has no load in flight.

There is a lemma per action; `GotoIInv` and `FinishIInv` reduce each to the caller
that moves. `LifecycleKeepsRevisions` needs one more invariant, `LifecycleInv`: a
Start or Restart is inside the apply pipeline only while the active revision cannot
be brought up. `OperationsAreBounded` goes another way: `NextCalls` is the control
flow of the operations as a graph of labels, and `StepsLeft` a measure that falls along
each of its edges, so that an operation makes at most eleven calls.

The refinement uses the same invariant. A few lemmas say when a step is a given
action of the contract in terms of the mapped quantities (`IsWork`, `IsGiveUp`,
`IsCommit`, `IsStutter`); then each action of ApplyService is taken by itself.
`ServingOK`, before and after the step, gives what Caddy may serve; a Restore needs
`SnapshotInv`, that a revision's document is its compiled snapshot, so that the
restored rows compile to the new goal.

For CaddyRuntime, `IInv` says that `m.done` belongs to `m.command`, that each goroutine
targets its own channel or a shared one, that the exit in a channel that is not shared is
of a dead process, and whose environment is remembered.

For Certificates, `IInv` is `OwnerAlive` with the types, `JobInv` (an unfinished job
of the registry has its goroutine, so that a cancellation reaches somebody) and
`StartedInv` (a renewal that is recorded, halted or failed was registered).
`FinishedMeansNew` needs `NewInv`: a job is at work only after its renewal was
registered, and whatever has succeeded in the registry while a renewal watches
obtained its certificate after that renewal began. `CancelStops` needs `ContextInv`:
at most one job at work still has its context, the one in the registry.

For Credentials there are two layers. `KeyIInv`: davd serves only with the whole key
that is on disk, a key file in the making is short and no secret exists yet, and no
save outlives davd; a snapshot has the credential its profile refers to, so a restore
keeps references. On it `SaveInv` follows each save through its steps, unless its
credential is torn: it is the only save of the credential (`OneSave`), its name is
nobody else's (`NamesApart`), what it read of the provider is still true
(`TypeAgrees`), and a secret differs from its row only between the two
transactions of a save, or after a restore (`SecretAgrees`). A third layer carries this through
the two reads of `Environment`: while it is calm, the credential has the provider of the snapshot.

For Access there are facts about one database and invariants about requests.
`CompiledRowsFaithful`: Caddy takes the first route that accepts a request, and by the
places of the routes that is the reading route of the share, or the writing route when
the account is no reader or the method no read; slugs and names are unique, so accounts
and routes stand for users and shares. `ExportImportIdentity`: in the rows an export came
from, every name is found, so the merge of users, shares and permissions leaves every
table as it was. `TypeInv` says that the rows keep the guarantees of the schema through
every transaction, and that the locals of a request fit its place (a row to be written is
one that was read). `FreshInv` carries `AnsweredMeansServed`: what has been answered with
success, or will be after the reread, is served by every document Caddy may be given
next (the one it runs, the goal a restart would load, the target of the operation under
way), and the target also serves what its own request promises. It is needed because a
restart, a failed apply or a foreign apply may bring back any of these documents.

For Daemon each theorem has its invariant. `LockInv`: exactly one invocation is
between the lock and its release, so nobody truncates or removes the endpoint of the
one that serves. `SchemaInv`: the recorded migrations start with the common first one,
and are the build's once davd is past Open. `TokenInv`: tokens in memory and those a
client has read are the file's, and an endpoint implies a token file. `CleanInv`: a
Caddy or an endpoint of the invocation that holds the lock is excused or belongs to a
phase whose deferred functions are still to come, and only one that has served has a
request. `LogInv`: the ring is the newest part of the
history, numbered by place. On it, `QueryPage` says what a page is, for any capacity and
page size: the newest ids in reach of the cursor, newest first, all of them unless it
says that there are more; it rests on `NthAfter`, that the positions found map one to one
onto 0..n-1 by the number of matches after them, so that every place of a page is
taken. `PagerInv` says what a client has so far (`Paged`: decreasing ids of matches
without a gap), and that an open client continues at its last id; `PageFollows` adds a
page to it. `CleanUpIsBounded` is a measure that falls along the phases.

Only model-checked: the liveness properties (`LockAlwaysReleased`, `RenewalEnds`,
`ShutdownEnds`) and the refutation of `ExitNoticed`, because liveness under fairness
is out of the prover's reach. Of the first and the last of them the part that needs no
fairness is proved: every step of an operation, and of a davd that ends, takes it
nearer to its end, and nothing takes it back (`OperationsAreBounded`,
`CleanUpIsBounded`). A renewal has no such measure: its monitor polls as long as the
fifteen-minute timer allows.

## 6. Findings

Each is a run whose property restates a sentence of the repository and which TLC
refutes; `PROJECT.json` quotes the sentence and the line.

1. `PendingTruthful`: an edit committed while an apply is running is neither
   applied nor reported as pending, because Create, SetDesired and MarkApplied clear
   `dirty` unconditionally.
2. `LastWorkingRuntimeKept` (in `MCLastWorkingRuntime`, which adds the history of what
   Caddy served before the operation): Caddy serves the active revision and an apply
   reloads it. When the startup file cannot be written after Caddy took the document, as
   in TLC's trace, or the probe after the reload fails, the apply fails and the document
   of the failed revision stays in Caddy.
3. `SecretReachesCaddy`: one failed probe turns the restart for a changed secret
   into a reload, and the apply succeeds with the old secret.
4. `ExitNoticed`: when a query other than the status takes the exit out of the
   channel, the dead process stays the managed one for good.
5. `SuccessMeansApplied` (run retry_answered): a change whose apply failed is stored;
   repeating it finds nothing to change and is answered with success, without an
   apply, while Caddy serves the old access.

## 7. Not modelled, and the plan

Not modelled, and why:

* Endpoint discovery, diagnostics and status reports read state and change none;
  platform services and paths are system calls without a protocol; caddy-dnspod is
  an HTTP client without state; the confinement of caddy-webdav's rootfs rests on
  the operating system (`os.Root`). Decoding, headers, body limits, validation of
  names, paths, hostnames and certificate files only refuse, which every request
  may be for any reason.
* The GUI: its widgets are layout; its state controllers (polling, stale answers,
  actions in progress) are a protocol of their own and left for later.

Known limits of the models: the process bookkeeping (CaddyRuntime) and the served
document (ManagedRuntime) are separate views, joined by the outcomes of the four
calls; renewals are of one host; log ids restart with davd and a cursor of an earlier
davd is not modelled; two davds with different runtime directories that share
Caddy's admin address are not; the last recorded ACME error that `main.go:111-124`
reads back is left out.

Plan, in this order:

1. CaddyRuntime, extended by the served document, implements the outcomes of
   ManagedRuntime while no channel is shared.
2. The state controllers of the GUI.
