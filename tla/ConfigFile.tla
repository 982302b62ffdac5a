----------------------------- MODULE ConfigFile -----------------------------
(***************************************************************************)
(* The YAML interchange file (core/internal/configfile, ConfigService,     *)
(* SQLiteConfigRepository.Import): a document without ids and without      *)
(* passwords, and its merge into the database in one transaction.          *)
(*                                                                         *)
(* A document that Parse accepted is a value of Document: users, shares    *)
(* and permissions keyed by name or slug, without duplicates.  Its syntax, *)
(* size and field checks are left out.                                     *)
(***************************************************************************)
EXTENDS AccessCompiler

CONSTANTS NoSection, Placeholder

ASSUME FileAssumption ==
    /\ NoSection \notin Port \cup UserID \cup ShareID
    /\ Placeholder \in Hash       \* the hash of an unknown random password

Document ==
    [users  : Table(Name, BOOLEAN),
     shares : Table(Slug, [path : Path, enabled : BOOLEAN, acl : Table(Name, Permission)]),
     port   : Port \cup {NoSection},
     tls    : BOOLEAN]            \* whether there is a tls section

\* The id of the row with this name or slug, NoSection without one.
UserNamed(r, n) ==
    LET found == {u \in DOMAIN r.users : r.users[u].name = n}
    IN IF found = {} THEN NoSection ELSE CHOOSE u \in found : TRUE

ShareAt(r, g) ==
    LET found == {s \in DOMAIN r.shares : r.shares[s].slug = g}
    IN IF found = {} THEN NoSection ELSE CHOOSE s \in found : TRUE

\* Mutant: users are written without their enabled flag.
ExportUsersEnabled(r) == [n \in {r.users[u].name : u \in DOMAIN r.users} |-> TRUE]

ExportUsers(r) ==
    [n \in {r.users[u].name : u \in DOMAIN r.users} |-> r.users[UserNamed(r, n)].enabled]

\* The stored permissions of a share by username; absent rows stay absent.
ExportACL(r, s) ==
    [n \in {r.users[u].name : u \in {v \in DOMAIN r.users : <<s, v>> \in DOMAIN r.acl}}
        |-> r.acl[<<s, UserNamed(r, n)>>]]

Export(r) ==
    [users  |-> ExportUsers(r),
     shares |-> [g \in {r.shares[s].slug : s \in DOMAIN r.shares} |->
                    LET s == ShareAt(r, g)
                    IN [path    |-> r.shares[s].path,
                        enabled |-> r.shares[s].enabled,
                        acl     |-> ExportACL(r, s)]],
     port   |-> r.port,
     tls    |-> r.tls]

---------------------------------------------------------------------------
(* Import *)

NewNames(r, d) == {n \in DOMAIN d.users : UserNamed(r, n) = NoSection}
NewSlugs(r, d) == {g \in DOMAIN d.shares : ShareAt(r, g) = NoSection}

\* A permission names a user of the document or of the database; otherwise the
\* transaction is rolled back.
Importable(r, d) ==
    \A g \in DOMAIN d.shares : \A n \in DOMAIN d.shares[g].acl :
        n \in DOMAIN d.users \/ UserNamed(r, n) # NoSection

\* Mutant: the password of an existing user is reset as well.
MergeUsersReset(r, d, uid) ==
    LET id(n) == IF n \in NewNames(r, d) THEN uid[n] ELSE UserNamed(r, n)
    IN Upsert(r.users,
          [u \in {id(n) : n \in DOMAIN d.users} |->
              LET n == CHOOSE m \in DOMAIN d.users : id(m) = u
              IN [name |-> n, enabled |-> d.users[n], hash |-> Placeholder]])

\* Existing users keep their id and password; new ones get a placeholder.
MergeUsers(r, d, uid) ==
    LET id(n) == IF n \in NewNames(r, d) THEN uid[n] ELSE UserNamed(r, n)
    IN Upsert(r.users,
          [u \in {id(n) : n \in DOMAIN d.users} |->
              LET n == CHOOSE m \in DOMAIN d.users : id(m) = u
              IN [name    |-> n,
                  enabled |-> d.users[n],
                  hash    |-> IF u \in DOMAIN r.users THEN r.users[u].hash ELSE Placeholder]])

MergeShares(r, d, sid) ==
    LET id(g) == IF g \in NewSlugs(r, d) THEN sid[g] ELSE ShareAt(r, g)
    IN Upsert(r.shares,
          [s \in {id(g) : g \in DOMAIN d.shares} |->
              LET g == CHOOSE h \in DOMAIN d.shares : id(h) = s
              IN [slug |-> g, path |-> d.shares[g].path, enabled |-> d.shares[g].enabled]])

\* Every listed permission is inserted or updated; none is deleted.
MergeACL(merged, d) ==
    LET listed == UNION {{<<ShareAt(merged, g), UserNamed(merged, n)>> : n \in DOMAIN d.shares[g].acl} :
                            g \in DOMAIN d.shares}
    IN Upsert(merged.acl,
          [k \in listed |-> d.shares[merged.shares[k[1]].slug].acl[merged.users[k[2]].name]])

\* The rows after the transaction, given the ids of the rows it creates.
Import(r, d, uid, sid) ==
    LET merged == [r EXCEPT !.users  = MergeUsers(r, d, uid),
                            !.shares = MergeShares(r, d, sid),
                            !.port   = IF d.port = NoSection THEN @ ELSE d.port,
                            !.tls    = @ \/ d.tls]
    IN [merged EXCEPT !.acl = MergeACL(merged, d)]

=============================================================================
