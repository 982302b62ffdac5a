------------------------------- MODULE Daemon -------------------------------
(***************************************************************************)
(* The life of davd (core/cmd/davd/main.go) from its instance lock to its  *)
(* deferred clean-up, several invocations of it over one set of            *)
(* directories, and a davctl that finds the running one.                   *)
(*                                                                         *)
(* The invocations share the lock, the database, the token file, the       *)
(* endpoint file and Caddy's admin address.  An endpoint is named after    *)
(* the invocation; its port may be one an earlier davd had.  They may be   *)
(* different builds of davd, which differ in the migrations they carry.    *)
(*                                                                         *)
(* Simplifications: a migration is its checksum; what a request does to    *)
(* Caddy while it is inside RuntimeManager, that is while it holds its     *)
(* mutex, is one step (CaddyRuntime has them all); one request at a time   *)
(* gets there; checks of file kinds and permissions are folded into the    *)
(* steps that may fail.                                                    *)
(***************************************************************************)
EXTENDS LogStore

CONSTANTS
    Proc,        \* bound: the invocations of davd
    Builds,      \* sequences of migrations
    None,
    MaxRecords   \* bound: records one davd logs

Empty == "empty"
Migrations == UNION {Range(b) : b \in Builds}

\* readMigrations: versions are contiguous from one; no release changed the
\* first migration, whose checksum the second one records.
ASSUME DaemonAssumption ==
    /\ \A b \in Builds : b \in Seq(Migrations) /\ Len(b) > 0
    /\ \A b, c \in Builds : b[1] = c[1]
    /\ None \notin Proc /\ Empty \notin Proc
    /\ MaxRecords \in Nat

VARIABLES
    pc,          \* where each invocation is
    mem,         \* its memory: the migrations it carries, the management token,
                 \* whether a request is in progress and is inside RuntimeManager,
                 \* whether a request started the last Caddy
    lock,        \* who holds davd.lock
    history,     \* schema_migrations
    schema,      \* the bodies executed on the database
    tokenFile,   \* management.token
    endpoint,    \* management.endpoint: absent, empty, or a port
    caddy,       \* the invocation that started the Caddy that answers, if any
    log,         \* the log store of the davd that runs
    written,     \* history: the levels of all its records
    pager,       \* the pages of the log that client has read
    client,      \* a davctl, one at a time
    excused      \* history: what the last holder of the lock may leave behind

files == <<history, schema, tokenFile>>
logs == <<log, written, pager>>
vars == <<pc, mem, lock, history, schema, tokenFile,
          endpoint, caddy, log, written, pager, client, excused>>

Idle == [step |-> "idle", port |-> None, token |-> None, answer |-> "none"]
Memory == [build : Builds, token : Proc \cup {None},
           handler : BOOLEAN, inside : BOOLEAN, restarted : BOOLEAN]
NoMemory == [build |-> <<>>, token |-> None,
             handler |-> FALSE, inside |-> FALSE, restarted |-> FALSE]
NoPager == [level |-> AnyLevel, seen |-> <<>>, next |-> 0, open |-> FALSE]

Phases == {"new", "refused", "locked", "opened", "tokened", "started",
           "listening", "writing", "serving", "draining", "removing", "stopping",
           "releasing", "exiting", "gone"}

Alive(p) == pc[p] \notin {"new", "refused", "gone"}

TypeOK ==
    /\ pc \in [Proc -> Phases]
    /\ mem \in [Proc -> Memory \cup {NoMemory}]
    /\ lock \in Proc \cup {None}
    /\ tokenFile \in Proc \cup {None}
    /\ endpoint \in Proc \cup {None, Empty}
    /\ caddy \in Proc \cup {None}
    /\ history \in Seq(Migrations) /\ schema \in Seq(Migrations)
    /\ Len(log.records) <= Capacity /\ log.next = Len(written)
    /\ written \in Seq(Level)
    /\ pager.seen \in Seq(1..MaxRecords)
    /\ client.port \in Proc \cup {None, Empty} /\ client.token \in Proc \cup {None}
    /\ excused \subseteq {"caddy", "endpoint"}

\* A fresh machine.
Init ==
    /\ pc = [p \in Proc |-> "new"]
    /\ mem = [p \in Proc |-> NoMemory]
    /\ lock = None
    /\ history = <<>> /\ schema = <<>>
    /\ tokenFile = None /\ endpoint = None
    /\ caddy = None
    /\ log = EmptyLog /\ written = <<>> /\ pager = NoPager
    /\ client = Idle
    /\ excused = {}

\* History: from here on the holder of the lock may leave it behind.
MayLeave(what) == excused' = excused \cup {what}

-----------------------------------------------------------------------------
(* Start: runDaemon up to the instance lock, then one step per resource.   *)

\* A step of p that moves it on and changes only what is not listed.
Moves(p, from, to) == pc[p] = from /\ pc' = [pc EXCEPT ![p] = to]

\* AcquireInstanceLock does not wait.  Any build may be started.
Locks(p) ==
    /\ lock = None
    /\ Moves(p, "new", "locked")
    /\ lock' = p
    /\ excused' = {}
    /\ \E b \in Builds : mem' = [mem EXCEPT ![p] = [NoMemory EXCEPT !.build = b]]
    /\ UNCHANGED <<files, endpoint, caddy, logs, client>>

IsRefused(p) ==
    /\ lock # None
    /\ Moves(p, "new", "refused")
    /\ UNCHANGED <<mem, lock, files, endpoint, caddy, logs, client, excused>>

\* Mutant: a recorded version is enough, whatever its checksum.
ValidatedByVersion(p) == Len(history) <= Len(mem[p].build)

\* validateMigrationHistory: every recorded migration is known, with its
\* checksum.  Before the second migration there is no column to compare.
Validated(p) == Len(history) >= 2 => IsPrefix(history, mem[p].build)

\* RunMigrations: the body and its record are one transaction.
Migrates(p) ==
    LET version == Len(history) + 1
    IN /\ pc[p] = "locked"
       /\ Validated(p)
       /\ version <= Len(mem[p].build)
       /\ schema' = Append(schema, mem[p].build[version])
       /\ history' = Append(history, mem[p].build[version])
       /\ UNCHANGED <<pc, mem, lock, tokenFile, endpoint, caddy, logs, client, excused>>

\* All migrations are recorded.
Opens(p) ==
    /\ Validated(p)
    /\ Len(history) >= Len(mem[p].build)
    /\ Moves(p, "locked", "opened")
    /\ UNCHANGED <<mem, lock, files, endpoint, caddy, logs, client, excused>>

\* The history is not this build's, or SQLite or the file system fails: the
\* lock is released and nothing else was acquired.
OpenFails(p) ==
    /\ Moves(p, "locked", "releasing")
    /\ UNCHANGED <<mem, lock, files, endpoint, caddy, logs, client, excused>>

\* Mutant: every start makes a new token.
TokenMissingAlways == TRUE

TokenMissing == tokenFile = None

\* LoadOrCreateToken: a new token is renamed into place.
Tokens(p) ==
    /\ Moves(p, "opened", "tokened")
    /\ tokenFile' = IF TokenMissing THEN p ELSE tokenFile
    /\ mem' = [mem EXCEPT ![p].token = tokenFile']
    /\ UNCHANGED <<lock, history, schema, endpoint, caddy, logs, client, excused>>

TokenFails(p) ==
    /\ Moves(p, "opened", "releasing")
    /\ UNCHANGED <<mem, lock, files, endpoint, caddy, logs, client, excused>>

\* ApplyService.Start, unless the GUI owns davd (--portable-owner).  A Caddy that a
\* dead davd left answers the health check in place of the one just started, which
\* finds the admin address taken and exits.
StartsCaddy(p) ==
    /\ Moves(p, "tokened", "started")
    /\ \/ caddy' = IF caddy = None THEN p ELSE caddy
       \/ UNCHANGED caddy
    /\ UNCHANGED <<mem, lock, files, endpoint, logs, client, excused>>

\* Mutant: a failed start only returns.
AfterFailureRelease == "releasing"

\* From here on the deferred functions stop the runtime.
AfterFailure == "stopping"

\* The secret key file cannot be used, or the start fails, with Caddy running
\* (the revision could not be recorded) or not.
StartCaddyFails(p) ==
    /\ Moves(p, "tokened", AfterFailure)
    /\ caddy' \in {caddy} \cup (IF caddy = None THEN {p} ELSE {})
    /\ UNCHANGED <<mem, lock, files, endpoint, logs, client, excused>>

Listens(p) ==
    /\ Moves(p, "started", "listening")
    /\ UNCHANGED <<mem, lock, files, endpoint, caddy, logs, client, excused>>

ListenFails(p) ==
    /\ Moves(p, "started", AfterFailure)
    /\ UNCHANGED <<mem, lock, files, endpoint, caddy, logs, client, excused>>

\* writeEndpoint opens the file with O_TRUNC and then writes it.
Truncates(p) ==
    /\ Moves(p, "listening", "writing")
    /\ endpoint' = Empty
    /\ UNCHANGED <<mem, lock, files, caddy, logs, client, excused>>

Serves(p) ==
    /\ Moves(p, "writing", "serving")
    /\ endpoint' = p
    /\ UNCHANGED <<mem, lock, files, caddy, logs, client, excused>>

\* The file is left as it is: its removal is not deferred yet.  It is untouched
\* before it was opened, and empty after that.
WriteFails(p) ==
    /\ \/ Moves(p, "listening", AfterFailure)
       \/ Moves(p, "writing", AfterFailure)
    /\ UNCHANGED <<mem, lock, files, endpoint, caddy, logs, client, excused>>

\* The file holds the address, or the beginning of one, when the write or Close
\* fails.  Nobody serves there.
CloseFails(p) ==
    /\ Moves(p, "writing", AfterFailure)
    /\ endpoint' = p
    /\ MayLeave("endpoint")
    /\ UNCHANGED <<mem, lock, files, caddy, logs, client>>

-----------------------------------------------------------------------------
(* The Management API while p serves.                                      *)

\* A request that reaches Caddy, an apply for instance.
RequestBegins(p) ==
    /\ pc[p] = "serving" /\ ~mem[p].handler
    /\ mem' = [mem EXCEPT ![p].handler = TRUE]
    /\ UNCHANGED <<pc, lock, files, endpoint, caddy, logs, client, excused>>

\* It waits for RuntimeManager's mutex, also after Shutdown gave up on it.  What it
\* does inside has no deadline: caddy validate runs under the request's context.
RequestEnters(p) ==
    /\ mem[p].handler /\ ~mem[p].inside /\ Alive(p)
    /\ mem' = [mem EXCEPT ![p].inside = TRUE]
    /\ UNCHANGED <<pc, lock, files, endpoint, caddy, logs, client, excused>>

RequestStarts(p) ==
    /\ mem[p].inside /\ Alive(p) /\ caddy = None
    /\ caddy' = p
    /\ mem' = [mem EXCEPT ![p].restarted = TRUE]
    /\ IF pc[p] = "releasing" THEN MayLeave("caddy") ELSE UNCHANGED excused
    /\ UNCHANGED <<pc, lock, files, endpoint, logs, client>>

RequestStops(p) ==
    /\ mem[p].inside /\ Alive(p) /\ caddy = p
    /\ caddy' = None
    /\ UNCHANGED <<pc, mem, lock, files, endpoint, logs, client, excused>>

RequestLeaves(p) ==
    /\ mem[p].inside /\ Alive(p)
    /\ mem' = [mem EXCEPT ![p].inside = FALSE]
    /\ UNCHANGED <<pc, lock, files, endpoint, caddy, logs, client, excused>>

RequestEnds(p) ==
    /\ mem[p].handler /\ ~mem[p].inside /\ Alive(p)
    /\ mem' = [mem EXCEPT ![p].handler = FALSE]
    /\ UNCHANGED <<pc, lock, files, endpoint, caddy, logs, client, excused>>

Logs(p, level) ==
    /\ pc[p] = "serving" /\ Len(written) < MaxRecords
    /\ log' = Add(log, level)
    /\ written' = Append(written, level)
    /\ UNCHANGED <<pc, mem, lock, files, endpoint, caddy, pager, client, excused>>

-----------------------------------------------------------------------------
(* Shutdown: the select of runDaemon, then its deferred functions, in      *)
(* reverse order of their registration.                                    *)

\* Nobody reads the log of p any more.
LogGoes == log' = EmptyLog /\ written' = <<>> /\ pager' = NoPager

\* A signal, or POST /api/v1/daemon/shutdown.
ShutdownRequested(p) ==
    /\ Moves(p, "serving", "draining")
    /\ LogGoes
    /\ UNCHANGED <<mem, lock, files, endpoint, caddy, client, excused>>

\* The listener fails: Serve returns, and nobody waits for requests.
ServeFails(p) ==
    /\ Moves(p, "serving", "removing")
    /\ LogGoes
    /\ UNCHANGED <<mem, lock, files, endpoint, caddy, client, excused>>

\* http.Server.Shutdown returns when the last request has ended.
Drains(p) ==
    /\ ~mem[p].handler
    /\ Moves(p, "draining", "removing")
    /\ UNCHANGED <<mem, lock, files, endpoint, caddy, logs, client, excused>>

\* Mutant: Shutdown has no deadline.
DrainTimesOutNever(p) == FALSE /\ UNCHANGED vars

\* The five seconds are over: the request goes on beside the clean-up.
DrainTimesOut(p) ==
    /\ mem[p].handler
    /\ Moves(p, "draining", "removing")
    /\ UNCHANGED <<mem, lock, files, endpoint, caddy, logs, client, excused>>

\* Mutant: the endpoint is removed after the lock was released.
RemovesEndpointLate(p) ==
    /\ \/ Moves(p, "removing", "stopping") /\ UNCHANGED endpoint
       \/ Moves(p, "exiting", "gone") /\ endpoint' = None
    /\ UNCHANGED <<mem, lock, files, caddy, logs, client, excused>>

\* removeEndpoint removes the file whatever it holds.
RemovesEndpoint(p) ==
    /\ Moves(p, "removing", "stopping")
    /\ endpoint' = None
    /\ UNCHANGED <<mem, lock, files, caddy, logs, client, excused>>

\* Its errors are not looked at.
RemoveFails(p) ==
    /\ Moves(p, "removing", "stopping")
    /\ MayLeave("endpoint")
    /\ UNCHANGED <<mem, lock, files, endpoint, caddy, logs, client>>

\* RuntimeManager.Stop, which waits for the mutex whatever its context says.
\* Without a child of its own it asks nobody, unless the child that lost its port
\* has not exited yet: then the other Caddy stops.
StopsCaddy(p) ==
    /\ ~mem[p].inside
    /\ Moves(p, "stopping", "releasing")
    /\ \/ caddy' = None
       \/ caddy # p /\ UNCHANGED caddy
    /\ UNCHANGED <<mem, lock, files, endpoint, logs, client, excused>>

\* The goroutine of an earlier start reported its exit to the channel of a later
\* one (CaddyRuntime): Stop takes the child for dead and returns nil.  Only a
\* request can have made the later start; runDaemon itself starts Caddy once.
StopsNothing(p) ==
    /\ ~mem[p].inside
    /\ caddy = p /\ mem[p].restarted
    /\ Moves(p, "stopping", "releasing")
    /\ MayLeave("caddy")
    /\ UNCHANGED <<mem, lock, files, endpoint, caddy, logs, client>>

\* Stop fails before it kills Caddy: it is not asked to stop, or the context of
\* five seconds ends before the timer of five seconds.
StopFails(p) ==
    /\ ~mem[p].inside
    /\ caddy # None
    /\ Moves(p, "stopping", "releasing")
    /\ MayLeave("caddy")
    /\ UNCHANGED <<mem, lock, files, endpoint, caddy, logs, client>>

\* The database is closed and the lock released before the process ends.
Releases(p) ==
    /\ Moves(p, "releasing", "exiting")
    /\ lock' = None
    /\ UNCHANGED <<mem, files, endpoint, caddy, logs, client, excused>>

Exits(p) ==
    /\ Moves(p, "exiting", "gone")
    /\ mem' = [mem EXCEPT ![p] = NoMemory]
    /\ UNCHANGED <<lock, files, endpoint, caddy, logs, client, excused>>

\* The process is killed: the operating system frees the lock, and the files
\* and Caddy stay.
Crashes(p) ==
    /\ Alive(p)
    /\ pc' = [pc EXCEPT ![p] = "gone"]
    /\ lock' = IF lock = p THEN None ELSE lock
    /\ mem' = [mem EXCEPT ![p] = NoMemory]
    /\ IF pc[p] = "serving" THEN LogGoes ELSE UNCHANGED logs
    /\ UNCHANGED <<files, endpoint, caddy, client, excused>>

\* A Caddy that a dead davd left is ended by hand, or dies.
CaddyDies ==
    /\ caddy # None
    /\ caddy' = None
    /\ UNCHANGED <<pc, mem, lock, files, endpoint, logs, client, excused>>

-----------------------------------------------------------------------------
(* davctl: connect reads the endpoint and then the token; one request.     *)

\* Without an endpoint (DAEMON_DISCOVERY_FAILED) nothing happens.
FindsEndpoint ==
    /\ client.step = "idle" /\ endpoint # None
    /\ client' = [Idle EXCEPT !.step = "endpoint", !.port = endpoint]
    /\ pager' = NoPager
    /\ UNCHANGED <<pc, mem, lock, files, endpoint, caddy, log, written, excused>>

\* AUTH_TOKEN_UNAVAILABLE without a token; an empty endpoint ends it as well, as
\* INVALID_LOCAL_CONFIGURATION (client.New).
FindsToken ==
    /\ client.step = "endpoint"
    /\ client' = IF tokenFile = None THEN [Idle EXCEPT !.answer = "no token"]
                 ELSE IF client.port = Empty THEN Idle
                 ELSE [client EXCEPT !.step = "token", !.token = tokenFile]
    /\ UNCHANGED <<pc, mem, lock, files, endpoint, caddy, logs, excused>>

\* Client.doBody and Server.authenticate.  The port may be closed by now, or a
\* later davd may have got the same one.
Asks ==
    /\ client.step = "token"
    /\ \/ pc[client.port] # "serving" /\ client' = Idle
       \/ \E p \in Proc :
            /\ pc[p] = "serving"
            /\ client' = IF mem[p].token = client.token THEN Idle
                         ELSE [Idle EXCEPT !.answer = "unauthorized"]
    /\ UNCHANGED <<pc, mem, lock, files, endpoint, caddy, logs, excused>>

\* GET /api/v1/logs by a davctl that got through: the first page at a level, then
\* by cursor.
Pages(p, level, cursor, seen) ==
    LET page == Query(log, cursor, level)
    IN /\ pc[p] = "serving" /\ client.step = "idle"
       /\ pager' = [level |-> level, next |-> page.next, open |-> page.more,
                    seen |-> seen \o [i \in DOMAIN page.records |-> page.records[i].id]]
       /\ UNCHANGED <<pc, mem, lock, files, endpoint, caddy,
                      log, written, client, excused>>

PagesFirst(p, level) == pager = NoPager /\ Pages(p, level, 0, <<>>)
PagesNext(p) == pager.open /\ Pages(p, pager.level, pager.next, pager.seen)

Starts(p) ==
    \/ Locks(p) \/ IsRefused(p) \/ Migrates(p) \/ Opens(p) \/ OpenFails(p)
    \/ Tokens(p) \/ TokenFails(p) \/ StartsCaddy(p) \/ StartCaddyFails(p)
    \/ Listens(p) \/ ListenFails(p) \/ Truncates(p) \/ Serves(p)
    \/ WriteFails(p) \/ CloseFails(p)

Runs(p) ==
    \/ RequestBegins(p) \/ RequestEnters(p) \/ RequestStarts(p) \/ RequestStops(p)
    \/ RequestLeaves(p) \/ RequestEnds(p)
    \/ \E level \in Level : Logs(p, level)
    \/ \E level \in {AnyLevel, "ERROR"} : PagesFirst(p, level)
    \/ PagesNext(p)

Unwinds(p) ==
    \/ Drains(p) \/ DrainTimesOut(p) \/ RemovesEndpoint(p) \/ RemoveFails(p)
    \/ StopsCaddy(p) \/ StopsNothing(p) \/ StopFails(p) \/ Releases(p) \/ Exits(p)

Next ==
    \/ \E p \in Proc :
          \/ Starts(p) \/ Runs(p)
          \/ ShutdownRequested(p) \/ ServeFails(p)
          \/ Unwinds(p)
          \/ Crashes(p)
    \/ CaddyDies
    \/ FindsEndpoint \/ FindsToken \/ Asks

Spec == Init /\ [][Next]_vars

\* Shutdown and the calls Stop makes once it has the mutex have deadlines.  That
\* os.Remove, database.Close and the release of the lock return is assumed: they
\* have none.  Go's mutex is handed to a waiter that has waited long enough, so
\* Stop gets it if it is free again and again.  Nothing is assumed of requests:
\* they may take as long as they like, inside RuntimeManager too.
Fairness == \A p \in Proc : SF_vars(Unwinds(p))

FairSpec == Spec /\ Fairness

-----------------------------------------------------------------------------
(* Properties                                                              *)

\* The endpoint file leads to the davd that serves, through crashes that leave
\* the file behind, davds that unwind while the next one starts, and the
\* unconditional removal of the file (removeEndpoint, before instanceLock's
\* Release).
EndpointNamesServer == \A p \in Proc : pc[p] = "serving" => endpoint = p

\* A davd past storage.Open works on a database on which exactly its own
\* migrations were executed, in order and once, whichever builds ran before,
\* crashed between two migrations, or were refused (RunMigrations).
SchemaIsOwn ==
    \A p \in Proc :
        pc[p] \in {"opened", "tokened", "started", "listening", "writing", "serving",
                   "draining", "removing", "stopping"}
        => schema = mem[p].build

\* davctl never fails for its token: when there is an endpoint there is a token,
\* and a davd that answers honours it, even if davds were replaced between its
\* two reads and the request (LoadOrCreateToken, connect, authenticate).
TokenHonoured == client.answer \notin {"unauthorized", "no token"}

\* A davd that ends by itself, also because its start failed, has left neither a
\* Caddy nor an endpoint of its own when it gives the lock back.  Caddy may stay
\* if a request that outlived the shutdown started it after Stop, if Stop failed,
\* or if RuntimeManager had lost a Caddy that a request started; the endpoint may
\* stay if its write ended in an error with the address in the file, or if it
\* could not be removed (the deferred functions of runDaemon).
LeavesNothing ==
    \A p \in Proc : pc[p] = "releasing" =>
        /\ caddy = p => "caddy" \in excused
        /\ endpoint = p => "endpoint" \in excused

\* Pages of one davd, taken while records are added and dropped, go from newest
\* to oldest without a repetition or a gap, and the last page is only last when
\* the ring holds no older match (Store.Add, Store.Query).
PagesComplete ==
    LET seen     == pager.seen
        Wanted(i) == Matches([id |-> i, level |-> written[i]], pager.level)
        held     == {log.records[i].id : i \in DOMAIN log.records}
        newest   == seen[1]
        oldest   == seen[Len(seen)]
    IN /\ \A i, j \in DOMAIN seen : i < j => seen[i] > seen[j]
       /\ seen # <<>> =>
            /\ \A i \in oldest..newest : Wanted(i) <=> i \in Range(seen)
            /\ ~pager.open => \A i \in held : i < oldest => ~Wanted(i)

\* A davd that was asked to shut down ends and frees its lock, even if a request
\* never ends (the deadlines of shutdownManagementAPI and of the deferred Stop),
\* unless that request stays inside RuntimeManager for ever, where Stop waits
\* for it.
ShutdownEnds ==
    \A p \in Proc : []<>~mem[p].inside => (pc[p] = "draining" ~> pc[p] = "gone")

=============================================================================
