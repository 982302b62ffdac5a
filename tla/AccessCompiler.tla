--------------------------- MODULE AccessCompiler ---------------------------
(***************************************************************************)
(* The rows of the database that decide who may use which share, the       *)
(* compiler that turns them into Caddy routes (core/internal/caddy/        *)
(* compiler.go), and what Caddy and the handlers of caddy/caddy-webdav do  *)
(* with a request.                                                         *)
(*                                                                         *)
(* Data abstraction.  A request names a share by its slug (or the base     *)
(* path), so paths are compared as a whole: the matcher paths of different *)
(* slugs are disjoint.  The list of routes is a set of routes with their   *)
(* places; a route that is left out leaves its place empty.  A password is *)
(* represented by its hash.                                                *)
(***************************************************************************)
EXTENDS Naturals

CONSTANTS
    UserID, Name, Hash,      \* user ids, normalized usernames, password hashes
    ShareID, Slug, Path,     \* share ids, slugs, directories
    Port,                    \* pairs of listener ports
    Rank                     \* the place of a slug among the sorted slugs

ASSUME CompilerAssumption ==
    /\ Rank \in [Slug -> Nat]
    /\ "base" \notin Slug     \* the base path has no slug
    /\ "none" \notin Path

Permission == {"NONE", "READ", "READ_WRITE"}
ReadMethods == {"GET", "HEAD", "OPTIONS", "PROPFIND"}
Methods == ReadMethods \cup {"PUT", "MOVE"}

User == [name : Name, enabled : BOOLEAN, hash : Hash]
Share == [slug : Slug, path : Path, enabled : BOOLEAN]

\* Functions on a subset of S, as the rows of a table are.
Table(S, T) == UNION {[D -> T] : D \in SUBSET S}

Rows ==
    [users  : Table(UserID, User),
     shares : Table(ShareID, Share),
     acl    : Table(ShareID \X UserID, Permission),
     port   : Port,
     tls    : BOOLEAN]

\* A row, or several, are inserted or replace those with their keys.
Put(table, key, row) ==
    [k \in DOMAIN table \cup {key} |-> IF k = key THEN row ELSE table[k]]
Upsert(table, new) ==
    [k \in DOMAIN table \cup DOMAIN new |-> IF k \in DOMAIN new THEN new[k] ELSE table[k]]

\* What the schema guarantees: UNIQUE names and slugs, and both foreign keys of
\* share_permissions.  Compile and Export fail on rows that break it.
Consistent(r) ==
    /\ \A u, v \in DOMAIN r.users : r.users[u].name = r.users[v].name => u = v
    /\ \A s, t \in DOMAIN r.shares : r.shares[s].slug = r.shares[t].slug => s = t
    /\ DOMAIN r.acl \subseteq (DOMAIN r.shares) \X (DOMAIN r.users)

PermissionOf(r, s, u) ==
    IF <<s, u>> \in DOMAIN r.acl THEN r.acl[<<s, u>>] ELSE "NONE"

---------------------------------------------------------------------------
(* Compile *)

\* compileAccounts: the accounts with one of the permissions on the share.
Accounts(r, s, allowed) ==
    {[name |-> r.users[u].name, hash |-> r.users[u].hash] :
        u \in {v \in DOMAIN r.users : /\ r.users[v].enabled
                                      /\ PermissionOf(r, s, v) \in allowed}}

Readers(r, s) == Accounts(r, s, {"READ", "READ_WRITE"})
Writers(r, s) == Accounts(r, s, {"READ_WRITE"})

\* Mutant: one route for every method, with every account of the share.
ShareRoutesMerged(r, s) ==
    {[place |-> 2 * Rank[r.shares[s].slug] + 1, handler |-> "webdav",
      at |-> {r.shares[s].slug}, root |-> r.shares[s].path,
      methods |-> Methods, accounts |-> Readers(r, s), entries |-> {}]}

\* permissionRoute, twice: the readers for the read methods, then the writers for
\* every method.
ShareRoutes(r, s) ==
    LET row == r.shares[s]
        Route(place, methods, accounts) ==
            [place |-> 2 * Rank[row.slug] + place, handler |-> "webdav",
             at |-> {row.slug}, root |-> row.path,
             methods |-> methods, accounts |-> accounts, entries |-> {}]
    IN {Route(1, ReadMethods, Readers(r, s)), Route(2, Methods, Writers(r, s))}

EnabledShares(r) == {s \in DOMAIN r.shares : r.shares[s].enabled}

\* The readers of the enabled shares, and the shares each of them may list.
Discoverers(r) == UNION {Readers(r, s) : s \in EnabledShares(r)}

Entries(r) ==
    {[name |-> a.name, slugs |-> {r.shares[s].slug : s \in {t \in EnabledShares(r) : a \in Readers(r, t)}}] :
        a \in Discoverers(r)}

\* discoveryRoute, at the base path, before the routes of the shares.
DiscoveryRoute(r) ==
    [place |-> 0, handler |-> "index", at |-> {"base"}, root |-> "none",
     methods |-> Methods, accounts |-> Discoverers(r), entries |-> Entries(r)]

\* The shares are sorted by slug; a route without accounts is left out.  With TLS
\* every route also matches the host name, a last route answers 404, and a
\* second server redirects plain HTTP.
CompileRows(r) ==
    LET all == {DiscoveryRoute(r)} \cup UNION {ShareRoutes(r, s) : s \in EnabledShares(r)}
    IN [routes |-> {route \in all : route.accounts # {}},
        port   |-> r.port,
        tls    |-> r.tls]

---------------------------------------------------------------------------
(* Caddy *)

\* A request: the server it reaches, the host it names, the account it uses.
HTTPRequest ==
    [scheme : {"http", "https"}, host : {"own", "other"}, at : Slug \cup {"base"},
     method : Methods, name : Name, hash : Hash]

NoAnswer == [status |-> 0, root |-> "none", list |-> {}]
Status(n) == [NoAnswer EXCEPT !.status = n]

\* The discovery handler: a read-only listing of the user's own shares.  That
\* HEAD and OPTIONS answer without the listing, and PROPFIND without it at depth
\* 0 and with 403 below depth 1, is left out: 200 is an answer that may list.
Index(route, q) ==
    LET own == {e \in route.entries : e.name = q.name}
    IN IF own = {} \/ \A e \in own : e.slugs = {} THEN Status(403)
       ELSE IF q.method \notin ReadMethods THEN Status(405)
       ELSE [NoAnswer EXCEPT !.status = 200,
                             !.list = UNION {e.slugs : e \in own}]

\* authentication, then webdav (root-confined) or the index.
Handle(route, q) ==
    IF [name |-> q.name, hash |-> q.hash] \notin route.accounts THEN Status(401)
    ELSE IF route.handler = "index" THEN Index(route, q)
    ELSE [NoAnswer EXCEPT !.status = 200, !.root = route.root]

\* The first route whose matchers accept the request handles it; all routes are
\* terminal.  Without one Caddy answers an empty 200.
Serve(doc, q) ==
    LET matching == {route \in doc.routes : q.at \in route.at /\ q.method \in route.methods}
        first == CHOOSE route \in matching : \A other \in matching : route.place <= other.place
    IN IF doc.tls # (q.scheme = "https")
       THEN IF doc.tls /\ q.host = "own" THEN Status(308) ELSE NoAnswer
       ELSE IF doc.tls /\ q.host # "own" THEN NoAnswer
       ELSE IF matching = {} THEN (IF doc.tls THEN Status(404) ELSE NoAnswer)
       ELSE Handle(first, q)

---------------------------------------------------------------------------
(* Reference definition: who may do what, read off the rows *)

\* The account is an enabled user's, with this password.
Known(r, q) ==
    {u \in DOMAIN r.users : /\ r.users[u].name = q.name
                            /\ r.users[u].hash = q.hash
                            /\ r.users[u].enabled}

Reached(r, q) == IF r.tls THEN q.scheme = "https" /\ q.host = "own" ELSE q.scheme = "http"

\* The shares whose files the request may touch.
Granted(r, q) ==
    {s \in EnabledShares(r) :
        /\ Reached(r, q)
        /\ q.at = r.shares[s].slug
        /\ \E u \in Known(r, q) :
              \/ PermissionOf(r, s, u) = "READ_WRITE"
              \/ PermissionOf(r, s, u) = "READ" /\ q.method \in ReadMethods}

\* The shares the request may list at the base path.
Listed(r, q) ==
    {s \in EnabledShares(r) :
        /\ Reached(r, q)
        /\ q.at = "base"
        /\ q.method \in ReadMethods
        /\ \E u \in Known(r, q) : PermissionOf(r, s, u) # "NONE"}

\* The compiled document gives a request the directory of a share exactly when
\* the rows grant it, and lists exactly the shares it may read: the two routes
\* of a share, the order of the routes, the account lists and the host matchers
\* together amount to the permissions (Compile, compileAccounts, discoveryRoute).
Faithful(r, doc) ==
    \A q \in HTTPRequest :
        LET answer == Serve(doc, q)
        IN /\ answer.root # "none" <=> Granted(r, q) # {}
           /\ \A s \in Granted(r, q) : answer.root = r.shares[s].path
           /\ answer.list = {r.shares[s].slug : s \in Listed(r, q)}

=============================================================================
