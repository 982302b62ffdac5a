------------------------------- MODULE Access -------------------------------
(***************************************************************************)
(* The management requests that change who may use which share: users,     *)
(* shares, permissions, ports, TLS, YAML import (core/internal/api,        *)
(* core/internal/app and their repositories), on top of the apply pipeline *)
(* as ApplyContract specifies it.                                          *)
(*                                                                         *)
(* Requests run concurrently.  Each database call is a transaction of its  *)
(* own: what a handler read may have changed before it writes.  After its  *)
(* commit an access change applies the configuration before it answers; it *)
(* is answered with an error when another operation holds the apply lock   *)
(* or the apply fails, and its rows stay.  TLS changes and imports leave   *)
(* the apply to the client.  A request whose client goes away fails at its *)
(* next call.  Restoring and deleting a revision are not among the         *)
(* requests: they are operations of ApplyService.                          *)
(***************************************************************************)
EXTENDS ConfigFile

CONSTANTS
    Callers,       \* concurrent management requests
    Requests,      \* what they may ask for, a subset of Request
    InitialRows,   \* databases to start with
    NoConfig,      \* no document, no process
    MaxRequests    \* bound: requests sent in a behaviour

VARIABLES
    rows, past, busy, target, goal, runs, broken,   \* as in ApplyContract
    used,          \* ids given so far; an id is never given twice
    pc, job,       \* next call of each request, and its arguments and locals
    promise,       \* history: probes no later commit has moved since the
                   \* request's own commit
    settled,       \* history: promises of requests answered with success
    left           \* requests still to be sent

pipeline == <<past, busy, target, goal, runs, broken>>
history == <<promise, settled>>
vars == <<rows, pipeline, used, pc, job, history, left>>

\* The documents are those the compiler makes of some rows.
Contract == INSTANCE ApplyContract WITH
    Core <- Rows,
    Config <- {CompileRows(r) : r \in Rows},
    Compile <- [r \in Rows |-> CompileRows(r)]

Patch == [slug : Slug] \cup [path : Path] \cup [enabled : BOOLEAN]

Request ==
         [op : {"CreateUser"}, name : Name, hash : Hash]
    \cup [op : {"DeleteUser"}, user : UserID]
    \cup [op : {"SetEnabled"}, user : UserID, enabled : BOOLEAN]
    \cup [op : {"ChangePassword"}, user : UserID, hash : Hash]
    \cup [op : {"CreateShare"}, slug : Slug, path : Path]
    \cup [op : {"UpdateShare"}, share : ShareID, patch : Patch]
    \cup [op : {"DeleteShare"}, share : ShareID]
    \cup [op : {"SetPermission"}, share : ShareID, user : UserID, permission : Permission]
    \cup [op : {"UpdatePorts"}, port : Port]
    \cup [op : {"UpdateTLS"}, tls : BOOLEAN]
    \cup [op : {"Import"}, doc : Document]
    \cup [op : {"Apply", "Restart"}]

ASSUME AccessAssumption ==
    /\ Requests \subseteq Request
    /\ InitialRows \subseteq {r \in Rows : Consistent(r)}
    /\ MaxRequests \in Nat

\* Accesses that a commit or a document may grant.
Probe == [at : Slug, method : {"GET", "PUT"}, name : Name, hash : Hash]

\* The directory a document gives to a probe, and the one the rows grant it.
Full(p, tls) ==
    [scheme |-> IF tls THEN "https" ELSE "http", host |-> "own", at |-> p.at,
     method |-> p.method, name |-> p.name, hash |-> p.hash]
Gives(doc, p) == Serve(doc, Full(p, doc.tls)).root
Owes(r, p) ==
    LET granted == Granted(r, Full(p, r.tls))
    IN IF granted = {} THEN "none" ELSE r.shares[CHOOSE s \in granted : TRUE].path

Idle == [op |-> "none"]

Labels == {"idle", "get", "list", "write", "apply", "begun", "store", "work", "end", "reread", "repeated"}

Holding == {"begun", "store", "work", "end"}

TypeOK ==
    /\ Consistent(rows)
    /\ pc \in [Callers -> Labels]
    /\ \A c \in Callers : pc[c] = "idle" <=> job[c] = Idle
    /\ \A c, d \in Callers : pc[c] \in Holding => busy /\ (pc[d] \in Holding => c = d)
    /\ DOMAIN rows.users \cup DOMAIN rows.shares \subseteq used
    /\ promise \in [Callers -> SUBSET Probe]
    /\ settled \subseteq Probe
    /\ left \in 0..MaxRequests

Init ==
    /\ rows \in InitialRows
    /\ \/ past = {} /\ goal = NoConfig
       \/ past = {CompileRows(rows)} /\ goal = CompileRows(rows)
    /\ busy = FALSE
    /\ target = NoConfig
    /\ runs \in {NoConfig, goal}
    /\ broken = FALSE
    /\ used = DOMAIN rows.users \cup DOMAIN rows.shares
    /\ pc = [c \in Callers |-> "idle"]
    /\ job = [c \in Callers |-> Idle]
    /\ promise = [c \in Callers |-> {}]
    /\ settled = {}
    /\ left \in 0..MaxRequests

---------------------------------------------------------------------------
(* Steps shared by the handlers *)

Goto(c, label) ==
    /\ pc' = [pc EXCEPT ![c] = label]
    /\ UNCHANGED <<job, history>>

\* The answer, and the end of the request.
Return(c) ==
    /\ pc' = [pc EXCEPT ![c] = "idle"]
    /\ job' = [job EXCEPT ![c] = Idle]
    /\ promise' = [promise EXCEPT ![c] = {}]

Refused(c) == Return(c) /\ UNCHANGED settled
Succeeded(c) == Return(c) /\ settled' = settled \cup promise[c]

\* The first call of each handler.
First(op) ==
    IF op \in {"SetEnabled", "UpdateShare", "SetPermission"} THEN "get"
    ELSE IF op \in {"Apply", "Restart"} THEN "apply"
    ELSE "write"

Send(c, q) ==
    /\ pc[c] = "idle"
    /\ left > 0
    /\ left' = left - 1
    /\ pc' = [pc EXCEPT ![c] = First(q.op)]
    /\ job' = [job EXCEPT ![c] = q]
    /\ promise' = [promise EXCEPT ![c] = IF q.op = "Apply" THEN Probe ELSE {}]
    /\ UNCHANGED <<rows, pipeline, used, settled>>

\* A call fails: the row is missing or taken, the input is invalid, the apply
\* lock is taken, the database or the request's context gave an error.
Fail(c) ==
    /\ pc[c] \in {"get", "list", "write", "apply", "reread", "repeated"}
    /\ Refused(c)
    /\ UNCHANGED <<rows, pipeline, used, left>>

\* A transaction commits rows r.  What it moves is no longer promised by the
\* requests before it; the request itself promises everything from here on.
Commit(c, r, label) ==
    LET moved == {p \in Probe : Owes(rows, p) # Owes(r, p)}
    IN /\ rows' = r
       /\ used' = used \cup DOMAIN r.users \cup DOMAIN r.shares
       /\ settled' = settled \ moved
       /\ pc' = [pc EXCEPT ![c] = label]
       /\ job' = IF label = "idle" THEN [job EXCEPT ![c] = Idle] ELSE job
       /\ promise' = [d \in Callers |->
              IF d # c THEN promise[d] \ moved
              ELSE IF label = "idle" THEN {} ELSE Probe]
       /\ UNCHANGED <<pipeline, left>>

Writing(c, op) == pc[c] = "write" /\ job[c].op = op

---------------------------------------------------------------------------
(* Users *)

CreateUser(c) ==
    /\ Writing(c, "CreateUser")
    /\ UserNamed(rows, job[c].name) = NoSection
    /\ \E u \in UserID \ used :
          Commit(c, [rows EXCEPT !.users =
                        Put(@, u, [name |-> job[c].name, enabled |-> TRUE, hash |-> job[c].hash])],
                 "apply")

\* DELETE, with the cascade of share_permissions.
DeleteUser(c) ==
    /\ Writing(c, "DeleteUser")
    /\ job[c].user \in DOMAIN rows.users
    /\ Commit(c, [rows EXCEPT
                     !.users = [u \in DOMAIN @ \ {job[c].user} |-> @[u]],
                     !.acl = [k \in {k \in DOMAIN @ : k[2] # job[c].user} |-> @[k]]],
              "apply")

\* SetEnabled reads the user; the same value is a no-op, answered at once.
GetUser(c) ==
    /\ pc[c] = "get"
    /\ job[c].op = "SetEnabled"
    /\ job[c].user \in DOMAIN rows.users
    /\ rows.users[job[c].user].enabled # job[c].enabled
    /\ Goto(c, "write")
    /\ UNCHANGED <<rows, pipeline, used, left>>

SetEnabled(c) ==
    /\ Writing(c, "SetEnabled")
    /\ job[c].user \in DOMAIN rows.users
    /\ Commit(c, [rows EXCEPT !.users[job[c].user].enabled = job[c].enabled], "apply")

ChangePassword(c) ==
    /\ Writing(c, "ChangePassword")
    /\ job[c].user \in DOMAIN rows.users
    /\ Commit(c, [rows EXCEPT !.users[job[c].user].hash = job[c].hash], "apply")

---------------------------------------------------------------------------
(* Shares *)

CreateShare(c) ==
    /\ Writing(c, "CreateShare")
    /\ ShareAt(rows, job[c].slug) = NoSection
    /\ \E s \in ShareID \ used :
          Commit(c, [rows EXCEPT !.shares =
                        Put(@, s, [slug |-> job[c].slug, path |-> job[c].path, enabled |-> TRUE])],
                 "apply")

\* The row with the fields that the request names.
Patched(row, patch) ==
    [slug    |-> IF "slug" \in DOMAIN patch THEN patch.slug ELSE row.slug,
     path    |-> IF "path" \in DOMAIN patch THEN patch.path ELSE row.path,
     enabled |-> IF "enabled" \in DOMAIN patch THEN patch.enabled ELSE row.enabled]

\* Update reads the row and merges the fields of the request into it.
GetShare(c) ==
    /\ pc[c] = "get"
    /\ job[c].op = "UpdateShare"
    /\ job[c].share \in DOMAIN rows.shares
    /\ LET row == Patched(rows.shares[job[c].share], job[c].patch)
       IN /\ row # rows.shares[job[c].share]
          /\ job' = [job EXCEPT ![c] = [op |-> "UpdateShare", share |-> job[c].share, row |-> row]]
    /\ pc' = [pc EXCEPT ![c] = "write"]
    /\ UNCHANGED <<rows, pipeline, used, history, left>>

\* UPDATE writes the whole row, as it was read.
UpdateShare(c) ==
    /\ Writing(c, "UpdateShare")
    /\ job[c].share \in DOMAIN rows.shares
    /\ ShareAt(rows, job[c].row.slug) \in {NoSection, job[c].share}
    /\ Commit(c, [rows EXCEPT !.shares[job[c].share] = job[c].row], "apply")

\* Mutant: no foreign key, the permissions of the share stay.
DeleteShareRow(c) ==
    /\ Writing(c, "DeleteShare")
    /\ job[c].share \in DOMAIN rows.shares
    /\ Commit(c, [rows EXCEPT !.shares = [s \in DOMAIN @ \ {job[c].share} |-> @[s]]], "apply")

DeleteShare(c) ==
    /\ Writing(c, "DeleteShare")
    /\ job[c].share \in DOMAIN rows.shares
    /\ Commit(c, [rows EXCEPT
                     !.shares = [s \in DOMAIN @ \ {job[c].share} |-> @[s]],
                     !.acl = [k \in {k \in DOMAIN @ : k[1] # job[c].share} |-> @[k]]],
              "apply")

---------------------------------------------------------------------------
(* Permissions, settings, TLS, import *)

\* PermissionService.Set reads the share and the user, then the permissions.
GetBoth(c) ==
    /\ pc[c] = "get"
    /\ job[c].op = "SetPermission"
    /\ job[c].share \in DOMAIN rows.shares
    /\ job[c].user \in DOMAIN rows.users
    /\ Goto(c, "list")
    /\ UNCHANGED <<rows, pipeline, used, left>>

ListByShare(c) ==
    /\ pc[c] = "list"
    /\ PermissionOf(rows, job[c].share, job[c].user) # job[c].permission
    /\ Goto(c, "write")
    /\ UNCHANGED <<rows, pipeline, used, left>>

\* NONE deletes the row, if there is one; an upsert needs both parent rows.
SetPermission(c) ==
    LET key == <<job[c].share, job[c].user>>
    IN /\ Writing(c, "SetPermission")
       /\ IF job[c].permission = "NONE"
          THEN Commit(c, [rows EXCEPT !.acl = [k \in DOMAIN @ \ {key} |-> @[k]]], "apply")
          ELSE /\ job[c].share \in DOMAIN rows.shares
               /\ job[c].user \in DOMAIN rows.users
               /\ Commit(c, [rows EXCEPT !.acl = Put(@, key, job[c].permission)], "apply")

\* UpdatePorts, after the probes of the new listener ports.
UpdatePorts(c) ==
    /\ Writing(c, "UpdatePorts")
    /\ Commit(c, [rows EXCEPT !.port = job[c].port], "apply")

\* TLSService.Update and Disable do not apply.
UpdateTLS(c) ==
    /\ Writing(c, "UpdateTLS")
    /\ Commit(c, [rows EXCEPT !.tls = job[c].tls], "idle")

\* ConfigService.Import, one transaction, does not apply either.
ImportFile(c) ==
    /\ Writing(c, "Import")
    /\ Importable(rows, job[c].doc)
    /\ \E uid \in [NewNames(rows, job[c].doc) -> UserID \ used],
          sid \in [NewSlugs(rows, job[c].doc) -> ShareID \ used] :
          /\ \A m, n \in DOMAIN uid : uid[m] = uid[n] => m = n
          /\ \A g, h \in DOMAIN sid : sid[g] = sid[h] => g = h
          /\ Commit(c, Import(rows, job[c].doc, uid, sid), "idle")

\* A repeated value: nothing is written and nothing is applied.
NoOp(c) ==
    /\ \/ /\ pc[c] = "get"
          /\ job[c].op = "SetEnabled"
          /\ job[c].user \in DOMAIN rows.users
          /\ rows.users[job[c].user].enabled = job[c].enabled
       \/ /\ pc[c] = "get"
          /\ job[c].op = "UpdateShare"
          /\ job[c].share \in DOMAIN rows.shares
          /\ Patched(rows.shares[job[c].share], job[c].patch) = rows.shares[job[c].share]
       \/ /\ pc[c] = "list"
          /\ PermissionOf(rows, job[c].share, job[c].user) = job[c].permission
    /\ Goto(c, "repeated")
    /\ UNCHANGED <<rows, pipeline, used, left>>

---------------------------------------------------------------------------
(* The apply that ends a request, and the rest of the system *)

\* Mutant: a request whose rows are committed is answered with success while
\* another operation holds the lock, trusting that one to apply them.
BeginApplyOrTrust(c) ==
    \/ /\ pc[c] = "apply"
       /\ busy
       /\ Succeeded(c)
       /\ UNCHANGED <<rows, pipeline, used, left>>
    \/ /\ pc[c] = "apply"
       /\ Contract!Begin
       /\ Goto(c, IF job[c].op = "Restart" THEN "work" ELSE "begun")
       /\ UNCHANGED <<used, left>>

\* applyAfterRuntimeMutation, Apply and Restart take the lock or fail.
BeginApply(c) ==
    /\ pc[c] = "apply"
    /\ Contract!Begin
    /\ Goto(c, IF job[c].op = "Restart" THEN "work" ELSE "begun")
    /\ UNCHANGED <<used, left>>

TakeSnapshot(c) ==
    /\ pc[c] = "begun"
    /\ Contract!Snapshot
    /\ Goto(c, "store")
    /\ UNCHANGED <<used, left>>

StoreRevision(c) ==
    /\ pc[c] = "store"
    /\ Contract!Store
    /\ Goto(c, "work")
    /\ UNCHANGED <<used, left>>

Activate(c) ==
    /\ pc[c] = "work"
    /\ Contract!Work
    /\ Goto(c, "end")
    /\ UNCHANGED <<used, left>>

ApplySucceeds(c) ==
    /\ pc[c] = "end"
    /\ target # NoConfig
    /\ rows' = rows
    /\ Contract!Commit
    /\ IF job[c].op = "SetEnabled" THEN Goto(c, "reread") ELSE Succeeded(c)
    /\ UNCHANGED <<used, left>>

\* The answer, before which SetEnabled's handler reads the user once more.
Reread(c) ==
    /\ pc[c] \in {"reread", "repeated"}
    /\ job[c].op = "SetEnabled" => job[c].user \in DOMAIN rows.users
    /\ Succeeded(c)
    /\ UNCHANGED <<rows, pipeline, used, left>>

\* The apply fails, before or after it has worked on Caddy, or the Restart ends.
ApplyEnds(c) ==
    /\ pc[c] \in {"begun", "store", "end"}
    /\ Contract!GiveUp
    /\ pc[c] # "end" => UNCHANGED <<runs, broken>>
    /\ Refused(c)
    /\ UNCHANGED <<used, left>>

CaddyExits ==
    /\ runs # NoConfig
    /\ Contract!Exit
    /\ UNCHANGED <<used, pc, job, history, left>>

DaemonCrash ==
    /\ Contract!Crash
    /\ pc' = [c \in Callers |-> "idle"]
    /\ job' = [c \in Callers |-> Idle]
    /\ promise' = [c \in Callers |-> {}]
    /\ UNCHANGED <<used, settled, left>>

Step(c) ==
    \/ Fail(c) \/ NoOp(c)
    \/ CreateUser(c) \/ DeleteUser(c) \/ GetUser(c) \/ SetEnabled(c) \/ ChangePassword(c)
    \/ CreateShare(c) \/ GetShare(c) \/ UpdateShare(c) \/ DeleteShare(c)
    \/ GetBoth(c) \/ ListByShare(c) \/ SetPermission(c)
    \/ UpdatePorts(c) \/ UpdateTLS(c) \/ ImportFile(c)
    \/ BeginApply(c) \/ TakeSnapshot(c) \/ StoreRevision(c) \/ Activate(c) \/ ApplySucceeds(c) \/ Reread(c)
    \/ ApplyEnds(c)

Next ==
    \/ \E c \in Callers : (\E q \in Requests : Send(c, q)) \/ Step(c)
    \/ CaddyExits
    \/ DaemonCrash

Spec == Init /\ [][Next]_vars

---------------------------------------------------------------------------
(* Properties *)

\* Once an access change was answered with success, everything Caddy serves is at
\* least as new as that change: an access that no later commit has moved is
\* served exactly as the rows grant it, whatever other requests, failed
\* applies, restarts and crashes of davd came in between; an apply that failed
\* half-way is the exception (applyAfterRuntimeMutation, apply's lock).
AnsweredMeansServed ==
    runs # NoConfig /\ ~broken => \A p \in settled : Gives(runs, p) = Owes(rows, p)

\* Nothing is in progress and nothing was applied yet.
Quiet == goal = NoConfig /\ \A c \in Callers : pc[c] = "idle"

\* The compiled routes amount to the permissions, for every database (it
\* depends on the rows alone, so quiet states are enough; Compile).
CompilerFaithful == Quiet => Faithful(rows, CompileRows(rows))

\* Importing an export into the database it came from changes nothing: ids,
\* passwords and explicit NONE permissions included (Export, Import).
RoundTrip == Quiet => Import(rows, Export(rows), <<>>, <<>>) = rows

\* An import keeps what its document does not name: other users, shares and
\* permissions, and the id and password of every user it does name
\* (SQLiteConfigRepository.Import).
ImportKeeps ==
    [][\A c \in Callers :
          ImportFile(c) =>
             LET d == job[c].doc
             IN /\ \A u \in DOMAIN rows.users :
                      /\ u \in DOMAIN rows'.users
                      /\ rows'.users[u].hash = rows.users[u].hash
                      /\ rows.users[u].name \notin DOMAIN d.users => rows'.users[u] = rows.users[u]
                /\ \A s \in DOMAIN rows.shares :
                      /\ s \in DOMAIN rows'.shares
                      /\ rows.shares[s].slug \notin DOMAIN d.shares => rows'.shares[s] = rows.shares[s]
                /\ \A k \in DOMAIN rows.acl :
                      \/ /\ k \in DOMAIN rows'.acl
                         /\ rows'.acl[k] = rows.acl[k]
                      \/ /\ rows.shares[k[1]].slug \in DOMAIN d.shares
                         /\ rows.users[k[2]].name \in DOMAIN d.shares[rows.shares[k[1]].slug].acl]_vars

---------------------------------------------------------------------------
(* What the repository says of the program, and the code does not do *)

\* docs/adr/0007: a successful access-management response means that the runtime
\* has passed reload and health check, so a Caddy that runs serves what the rows
\* grant when a request is about to be answered with success.
SuccessMeansApplied ==
    \A c \in Callers :
        pc[c] = "repeated" /\ runs # NoConfig /\ ~broken
            => \A p \in Probe : Gives(runs, p) = Owes(rows, p)

=============================================================================
