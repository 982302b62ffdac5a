---------------------------- MODULE AccessProofs ----------------------------
(***************************************************************************)
(* Proofs about Access, ConfigFile and AccessCompiler, for any sets of     *)
(* users, shares, permissions, requests and databases.                     *)
(*                                                                         *)
(* The compiler and the file format come first, as facts about one         *)
(* database; then what each transaction makes of the rows; then the two    *)
(* inductive invariants: TypeInv (the rows stay consistent, and the locals *)
(* of a request fit its place), and FreshInv (every document that Caddy    *)
(* may be given serves what has been answered).                            *)
(***************************************************************************)
EXTENDS Access, TLAPS

---------------------------------------------------------------------------
(* Rows *)

LEMMA TableType ==
    ASSUME NEW S, NEW T, NEW f \in Table(S, T)
    PROVE  DOMAIN f \subseteq S /\ f \in [DOMAIN f -> T]
  BY DEF Table

LEMMA RowsType ==
    ASSUME NEW r \in Rows
    PROVE  /\ DOMAIN r.users \subseteq UserID /\ r.users \in [DOMAIN r.users -> User]
           /\ DOMAIN r.shares \subseteq ShareID /\ r.shares \in [DOMAIN r.shares -> Share]
           /\ DOMAIN r.acl \subseteq ShareID \X UserID /\ r.acl \in [DOMAIN r.acl -> Permission]
           /\ r.port \in Port /\ r.tls \in BOOLEAN
  <1>1. /\ r.users \in Table(UserID, User)
        /\ r.shares \in Table(ShareID, Share)
        /\ r.acl \in Table(ShareID \X UserID, Permission)
        /\ r.port \in Port /\ r.tls \in BOOLEAN
    BY DEF Rows
  <1> QED
    BY <1>1, TableType

LEMMA PermissionType ==
    ASSUME NEW r \in Rows, NEW s, NEW u
    PROVE  PermissionOf(r, s, u) \in Permission
  BY RowsType DEF PermissionOf, Permission

---------------------------------------------------------------------------
(* The compiler *)

\* An account of a share is that of an enabled user with the permission.
LEMMA AccountOf ==
    ASSUME NEW r, NEW s, NEW allowed, NEW name, NEW hash
    PROVE  [name |-> name, hash |-> hash] \in Accounts(r, s, allowed)
           <=> \E u \in DOMAIN r.users : /\ r.users[u].name = name
                                         /\ r.users[u].hash = hash
                                         /\ r.users[u].enabled
                                         /\ PermissionOf(r, s, u) \in allowed
  BY DEF Accounts

\* The routes of a share, one by one.
ReadRoute(r, s) ==
    [place |-> 2 * Rank[r.shares[s].slug] + 1, handler |-> "webdav",
     at |-> {r.shares[s].slug}, root |-> r.shares[s].path,
     methods |-> ReadMethods, accounts |-> Readers(r, s), entries |-> {}]
WriteRoute(r, s) ==
    [place |-> 2 * Rank[r.shares[s].slug] + 2, handler |-> "webdav",
     at |-> {r.shares[s].slug}, root |-> r.shares[s].path,
     methods |-> Methods, accounts |-> Writers(r, s), entries |-> {}]

LEMMA RoutesOfShare ==
    ASSUME NEW r, NEW s
    PROVE  ShareRoutes(r, s) = {ReadRoute(r, s), WriteRoute(r, s)}
  BY DEF ShareRoutes, ReadRoute, WriteRoute

\* The routes that accept a request.
Accepting(doc, q) == {route \in doc.routes : q.at \in route.at /\ q.method \in route.methods}

LEMMA AcceptingRoutes ==
    ASSUME NEW r, NEW q, NEW route
    PROVE  route \in Accepting(CompileRows(r), q) <=>
              /\ q.at \in route.at /\ q.method \in route.methods /\ route.accounts # {}
              /\ \/ route = DiscoveryRoute(r)
                 \/ \E s \in EnabledShares(r) : route \in {ReadRoute(r, s), WriteRoute(r, s)}
  BY RoutesOfShare DEF Accepting, CompileRows

LEMMA NoAnswerFields ==
    /\ NoAnswer.root = "none" /\ NoAnswer.list = {}
    /\ \A n : Status(n).root = "none" /\ Status(n).list = {}
  BY DEF NoAnswer, Status

\* Without an accepting route nothing is given; otherwise the first one decides.
LEMMA ServeNothing ==
    ASSUME NEW r \in Rows, NEW q \in HTTPRequest,
           ~Reached(r, q) \/ Accepting(CompileRows(r), q) = {}
    PROVE  Serve(CompileRows(r), q).root = "none" /\ Serve(CompileRows(r), q).list = {}
  <1> DEFINE doc == CompileRows(r)
  <1>1. doc.tls = r.tls /\ r.tls \in BOOLEAN
    BY RowsType DEF CompileRows
  <1> HIDE DEF doc
  <1>2. Serve(doc, q) \in {Status(308), Status(404), NoAnswer}
    BY <1>1 DEF Serve, Reached, Accepting, HTTPRequest, doc
  <1> QED
    BY <1>2, NoAnswerFields DEF doc

LEMMA ServeFirst ==
    ASSUME NEW r \in Rows, NEW q \in HTTPRequest, Reached(r, q),
           NEW first \in Accepting(CompileRows(r), q),
           first.place \in Nat,
           \A other \in Accepting(CompileRows(r), q) :
              other = first \/ (other.place \in Nat /\ other.place > first.place)
    PROVE  Serve(CompileRows(r), q) = Handle(first, q)
  <1> DEFINE doc == CompileRows(r)
  <1>1. doc.tls = r.tls /\ r.tls \in BOOLEAN
    BY RowsType DEF CompileRows
  <1> HIDE DEF doc
  <1> DEFINE m == Accepting(doc, q)
  <1>2. first = CHOOSE route \in m : \A other \in m : route.place <= other.place
    <2>1. first \in m /\ \A other \in m : first.place <= other.place
      BY DEF doc
    <2>2. ASSUME NEW x \in m, \A other \in m : x.place <= other.place PROVE x = first
      BY <2>1, <2>2 DEF doc
    <2> QED
      BY <2>1, <2>2
  <1>3. m # {}
    BY DEF doc
  <1>4. Serve(doc, q) = Handle(CHOOSE route \in m : \A other \in m : route.place <= other.place, q)
    BY <1>1, <1>3 DEF Serve, Reached, Accepting, HTTPRequest
  <1> QED
    BY <1>2, <1>4 DEF doc

\* What a request gets from the routes of a share is what the rows grant it.
LEMMA GrantedByAccount ==
    ASSUME NEW r \in Rows, NEW q \in HTTPRequest, NEW s \in EnabledShares(r),
           Reached(r, q), q.at = r.shares[s].slug
    PROVE  s \in Granted(r, q) <=>
              [name |-> q.name, hash |-> q.hash] \in
                  (IF q.method \in ReadMethods THEN Readers(r, s) ELSE Writers(r, s))
  <1>1. s \in Granted(r, q) <=>
           \E u \in DOMAIN r.users :
              /\ r.users[u].name = q.name /\ r.users[u].hash = q.hash /\ r.users[u].enabled
              /\ PermissionOf(r, s, u) \in
                    (IF q.method \in ReadMethods THEN {"READ", "READ_WRITE"} ELSE {"READ_WRITE"})
    BY DEF Granted, Known
  <1>2. CASE q.method \in ReadMethods
    BY <1>1, <1>2, AccountOf DEF Readers
  <1>3. CASE q.method \notin ReadMethods
    BY <1>1, <1>3, AccountOf DEF Writers
  <1> QED
    BY <1>2, <1>3

LEMMA WritersRead ==
    ASSUME NEW r, NEW s
    PROVE  Writers(r, s) \subseteq Readers(r, s)
  BY DEF Writers, Readers, Accounts

\* A request for a share.
LEMMA FilesFaithful ==
    ASSUME NEW r \in Rows, Consistent(r), NEW q \in HTTPRequest, Reached(r, q), q.at \in Slug
    PROVE  LET answer == Serve(CompileRows(r), q)
           IN /\ answer.root # "none" <=> Granted(r, q) # {}
              /\ \A s \in Granted(r, q) : answer.root = r.shares[s].path
              /\ answer.list = {}
  <1> DEFINE answer == Serve(CompileRows(r), q)
             known == [name |-> q.name, hash |-> q.hash]
             Here(s) == s \in EnabledShares(r) /\ r.shares[s].slug = q.at
  <1>1. \A s \in Granted(r, q) : Here(s)
    BY DEF Granted
  <1>2. ASSUME NEW route \in Accepting(CompileRows(r), q)
        PROVE  \E s : Here(s) /\ route \in {ReadRoute(r, s), WriteRoute(r, s)}
    <2>1. route # DiscoveryRoute(r)
      BY <1>2, AcceptingRoutes, CompilerAssumption DEF DiscoveryRoute
    <2>2. PICK s \in EnabledShares(r) : route \in {ReadRoute(r, s), WriteRoute(r, s)}
      BY <1>2, <2>1, AcceptingRoutes
    <2>3. route.at = {r.shares[s].slug}
      BY <2>2 DEF ReadRoute, WriteRoute
    <2> QED
      BY <1>2, <2>2, <2>3, AcceptingRoutes
  <1>3. CASE \A s : ~Here(s)
    <2>1. Granted(r, q) = {} /\ Accepting(CompileRows(r), q) = {}
      BY <1>1, <1>2, <1>3
    <2> QED
      BY <2>1, ServeNothing
  <1>4. CASE \E s : Here(s)
    <2>1. PICK s : Here(s)
      BY <1>4
    <2>2. s \in DOMAIN r.shares /\ \A t : Here(t) => t = s
      BY <2>1 DEF Consistent, EnabledShares
    <2>3. r.shares[s].path \in Path /\ r.shares[s].path # "none" /\ Rank[r.shares[s].slug] \in Nat
      BY <2>2, RowsType, CompilerAssumption DEF Share
    <2>4. s \in Granted(r, q) <=>
             known \in (IF q.method \in ReadMethods THEN Readers(r, s) ELSE Writers(r, s))
      BY <2>1, GrantedByAccount
    <2>5. Granted(r, q) \subseteq {s}
      BY <1>1, <2>2
    <2>6. Accepting(CompileRows(r), q) \subseteq {ReadRoute(r, s), WriteRoute(r, s)}
      BY <1>2, <2>2
    <2>7. /\ ReadRoute(r, s).place = 2 * Rank[r.shares[s].slug] + 1
          /\ WriteRoute(r, s).place = 2 * Rank[r.shares[s].slug] + 2
      BY DEF ReadRoute, WriteRoute
    <2>8. \* The route that decides, if there is one.
          ASSUME NEW route \in {ReadRoute(r, s), WriteRoute(r, s)}, answer = Handle(route, q),
                 known \in route.accounts <=> s \in Granted(r, q)
          PROVE  /\ answer.root # "none" <=> Granted(r, q) # {}
                 /\ \A t \in Granted(r, q) : answer.root = r.shares[t].path
                 /\ answer.list = {}
      <3>1. route.handler = "webdav" /\ route.root = r.shares[s].path
        BY DEF ReadRoute, WriteRoute
      <3>2. CASE known \in route.accounts
        <4>1. answer.root = r.shares[s].path /\ answer.list = {}
          BY <2>8, <3>1, <3>2 DEF Handle, NoAnswer
        <4> QED
          BY <2>3, <2>5, <2>8, <3>2, <4>1
      <3>3. CASE known \notin route.accounts
        <4>1. answer = Status(401)
          BY <2>8, <3>3 DEF Handle
        <4>2. Granted(r, q) = {}
          BY <2>5, <2>8, <3>3
        <4> QED
          BY <4>1, <4>2, NoAnswerFields
      <3> QED
        BY <3>2, <3>3
    <2>9. CASE q.method \in ReadMethods /\ Readers(r, s) # {}
      <3> DEFINE first == ReadRoute(r, s)
      <3>1. first.accounts = Readers(r, s) /\ first.at = {r.shares[s].slug} /\ first.methods = ReadMethods
        BY DEF ReadRoute
      <3>2. first \in Accepting(CompileRows(r), q)
        BY <2>1, <2>9, <3>1, AcceptingRoutes
      <3>3. answer = Handle(first, q)
        BY <2>3, <2>6, <2>7, <3>2, ServeFirst
      <3> QED
        BY <2>4, <2>8, <2>9, <3>1, <3>3
    <2>10. CASE q.method \notin ReadMethods /\ Writers(r, s) # {}
      <3> DEFINE first == WriteRoute(r, s)
      <3>1. first.accounts = Writers(r, s) /\ first.at = {r.shares[s].slug} /\ first.methods = Methods
        BY DEF WriteRoute
      <3>2. first \in Accepting(CompileRows(r), q)
        BY <2>1, <2>10, <3>1, AcceptingRoutes DEF HTTPRequest
      <3>3. ReadRoute(r, s) \notin Accepting(CompileRows(r), q)
        BY <2>10, AcceptingRoutes DEF ReadRoute
      <3>4. answer = Handle(first, q)
        BY <2>3, <2>6, <2>7, <3>2, <3>3, ServeFirst
      <3> QED
        BY <2>4, <2>8, <2>10, <3>1, <3>4
    <2>11. CASE (IF q.method \in ReadMethods THEN Readers(r, s) ELSE Writers(r, s)) = {}
      <3>1. Granted(r, q) = {}
        BY <2>4, <2>5, <2>11
      <3>2. ReadRoute(r, s) \notin Accepting(CompileRows(r), q)
        BY <2>11, AcceptingRoutes DEF ReadRoute
      <3>3. Writers(r, s) = {}
        BY <2>11, WritersRead
      <3>4. WriteRoute(r, s) \notin Accepting(CompileRows(r), q)
        BY <3>3, AcceptingRoutes DEF WriteRoute
      <3>5. Accepting(CompileRows(r), q) = {}
        BY <2>6, <3>2, <3>4
      <3> QED
        BY <3>1, <3>5, ServeNothing
    <2> QED
      BY <2>9, <2>10, <2>11
  <1> QED
    BY <1>3, <1>4

\* One account for each name: names are unique.
LEMMA OneAccount ==
    ASSUME NEW r, Consistent(r), NEW s, NEW t, NEW allowed,
           NEW x \in Accounts(r, s, allowed), NEW y \in Accounts(r, t, allowed), x.name = y.name
    PROVE  x = y
  BY DEF Accounts, Consistent

\* A request for the list of shares.
LEMMA ListFaithful ==
    ASSUME NEW r \in Rows, Consistent(r), NEW q \in HTTPRequest, Reached(r, q), q.at = "base"
    PROVE  LET answer == Serve(CompileRows(r), q)
           IN /\ answer.root = "none"
              /\ answer.list = {r.shares[s].slug : s \in Listed(r, q)}
  <1> DEFINE answer == Serve(CompileRows(r), q)
             known == [name |-> q.name, hash |-> q.hash]
             mine == {t \in EnabledShares(r) : known \in Readers(r, t)}
             route == DiscoveryRoute(r)
  <1>1. Listed(r, q) = IF q.method \in ReadMethods THEN mine ELSE {}
    <2>1. ASSUME NEW s \in EnabledShares(r)
          PROVE  known \in Readers(r, s) <=> \E u \in Known(r, q) : PermissionOf(r, s, u) # "NONE"
      <3>1. \A u : PermissionOf(r, s, u) # "NONE" <=> PermissionOf(r, s, u) \in {"READ", "READ_WRITE"}
        BY PermissionType DEF Permission
      <3> QED
        BY <3>1, AccountOf DEF Readers, Known
    <2> QED
      BY <2>1 DEF Listed
  <1>2. /\ route.at = {"base"} /\ route.methods = Methods /\ route.handler = "index"
        /\ route.place = 0 /\ route.accounts = Discoverers(r) /\ route.entries = Entries(r)
    BY DEF DiscoveryRoute
  <1>3. Accepting(CompileRows(r), q) \subseteq {route}
    <2>1. \A s \in EnabledShares(r) : r.shares[s].slug # "base"
      BY RowsType, CompilerAssumption DEF EnabledShares, Share
    <2> QED
      BY <2>1, AcceptingRoutes DEF ReadRoute, WriteRoute
  <1>4. known \in Discoverers(r) <=> mine # {}
    BY DEF Discoverers
  <1>5. CASE Discoverers(r) = {}
    <2>1. Accepting(CompileRows(r), q) = {}
      BY <1>2, <1>3, <1>5, AcceptingRoutes
    <2>2. Listed(r, q) = {}
      BY <1>1, <1>4, <1>5
    <2> QED
      BY <2>1, <2>2, ServeNothing
  <1>6. CASE Discoverers(r) # {}
    <2>1. route \in Accepting(CompileRows(r), q)
      BY <1>2, <1>6, AcceptingRoutes DEF HTTPRequest
    <2>2. answer = Handle(route, q)
      BY <1>2, <1>3, <2>1, ServeFirst
    <2>3. CASE known \notin Discoverers(r)
      <3>1. answer = Status(401)
        BY <1>2, <2>2, <2>3 DEF Handle
      <3>2. Listed(r, q) = {}
        BY <1>1, <1>4, <2>3
      <3> QED
        BY <3>1, <3>2, NoAnswerFields
    <2>4. CASE known \in Discoverers(r)
      <3> DEFINE own == {e \in Entries(r) : e.name = q.name}
                 slugs == {r.shares[s].slug : s \in mine}
      <3>1. \E e \in own : TRUE
        <4> DEFINE E(x) == [name |-> x.name,
                            slugs |-> {r.shares[s].slug : s \in {t \in EnabledShares(r) : x \in Readers(r, t)}}]
        <4>1. Entries(r) = {E(x) : x \in Discoverers(r)}
          BY DEF Entries
        <4>2. E(known).name = q.name
          OBVIOUS
        <4> HIDE DEF E
        <4> QED
          BY <2>4, <4>1, <4>2
      <3>2. ASSUME NEW e \in own PROVE e.slugs = slugs
        <4>1. PICK x \in Discoverers(r) :
                /\ e = [name |-> x.name,
                        slugs |-> {r.shares[s].slug : s \in {t \in EnabledShares(r) : x \in Readers(r, t)}}]
                /\ x.name = q.name
          BY <3>2 DEF Entries
        <4>2. x = known
          <5>1. PICK s \in EnabledShares(r) : x \in Readers(r, s)
            BY DEF Discoverers
          <5>2. PICK t \in EnabledShares(r) : known \in Readers(r, t)
            BY <2>4 DEF Discoverers
          <5> QED
            BY <4>1, <5>1, <5>2, OneAccount DEF Readers
        <4> QED
          BY <4>1, <4>2
      <3>3. slugs # {}
        BY <1>4, <2>4
      <3>4. UNION {e.slugs : e \in own} = slugs
        BY <3>1, <3>2
      <3>5. answer = Index(route, q)
        BY <1>2, <2>2, <2>4 DEF Handle
      <3>6. ~(own = {} \/ \A e \in own : e.slugs = {})
        BY <3>1, <3>2, <3>3
      <3>7. CASE q.method \notin ReadMethods
        <4>1. answer = Status(405)
          BY <1>2, <3>5, <3>6, <3>7 DEF Index
        <4> QED
          BY <1>1, <3>7, <4>1, NoAnswerFields
      <3>8. CASE q.method \in ReadMethods
        <4>1. answer = [NoAnswer EXCEPT !.status = 200, !.list = UNION {e.slugs : e \in own}]
          BY <1>2, <3>5, <3>6, <3>8 DEF Index
        <4>2. answer.root = "none" /\ answer.list = UNION {e.slugs : e \in own}
          BY <4>1 DEF NoAnswer
        <4> QED
          BY <1>1, <3>4, <3>8, <4>2
      <3> QED
        BY <3>7, <3>8
    <2> QED
      BY <2>3, <2>4
  <1> QED
    BY <1>5, <1>6

\* For every database the schema admits the compiled routes, in their order, with
\* their account lists and host matchers, amount to the permissions: no request
\* gets a directory or a list the rows do not grant it, and none is refused one
\* they do (Compile, compileAccounts, permissionRoute, discoveryRoute).
THEOREM CompiledRowsFaithful ==
    ASSUME NEW r \in Rows, Consistent(r)
    PROVE  Faithful(r, CompileRows(r))
  <1> SUFFICES ASSUME NEW q \in HTTPRequest
               PROVE  LET answer == Serve(CompileRows(r), q)
                      IN /\ answer.root # "none" <=> Granted(r, q) # {}
                         /\ \A s \in Granted(r, q) : answer.root = r.shares[s].path
                         /\ answer.list = {r.shares[s].slug : s \in Listed(r, q)}
    BY DEF Faithful
  <1>1. CASE ~Reached(r, q)
    <2>1. Granted(r, q) = {} /\ Listed(r, q) = {}
      BY <1>1 DEF Granted, Listed
    <2> QED
      BY <1>1, <2>1, ServeNothing
  <1>2. CASE Reached(r, q) /\ q.at \in Slug
    <2>1. Listed(r, q) = {}
      BY <1>2, CompilerAssumption DEF Listed
    <2> QED
      BY <1>2, <2>1, FilesFaithful
  <1>3. CASE Reached(r, q) /\ q.at = "base"
    <2>1. Granted(r, q) = {}
      BY <1>3, RowsType, CompilerAssumption DEF Granted, EnabledShares, Share
    <2> QED
      BY <1>3, <2>1, ListFaithful
  <1> QED
    BY <1>1, <1>2, <1>3 DEF HTTPRequest

\* For a probe: the document gives what its rows owe.
LEMMA GivesOwed ==
    ASSUME NEW r \in Rows, Consistent(r), NEW p \in Probe
    PROVE  Gives(CompileRows(r), p) = Owes(r, p)
  <1> DEFINE q == Full(p, r.tls)
             answer == Serve(CompileRows(r), q)
  <1>1. CompileRows(r).tls = r.tls
    BY DEF CompileRows
  <1>2. q \in HTTPRequest
    BY RowsType DEF Full, HTTPRequest, Probe, Methods, ReadMethods
  <1> HIDE DEF q
  <1>3. /\ answer.root # "none" <=> Granted(r, q) # {}
        /\ \A s \in Granted(r, q) : answer.root = r.shares[s].path
    BY <1>2, CompiledRowsFaithful DEF Faithful
  <1>4. Gives(CompileRows(r), p) = answer.root
    BY <1>1 DEF Gives, q
  <1>5. Owes(r, p) = IF Granted(r, q) = {} THEN "none" ELSE r.shares[CHOOSE s \in Granted(r, q) : TRUE].path
    BY DEF Owes, q
  <1> QED
    BY <1>3, <1>4, <1>5

---------------------------------------------------------------------------
(* What the transactions make of the rows *)

LEMMA PutTable ==
    ASSUME NEW S, NEW T, NEW f \in Table(S, T), NEW x \in S, NEW y \in T
    PROVE  Put(f, x, y) \in Table(S, T)
  <1>1. DOMAIN f \subseteq S /\ f \in [DOMAIN f -> T]
    BY TableType
  <1>2. Put(f, x, y) \in [DOMAIN f \cup {x} -> T]
    BY <1>1 DEF Put
  <1> QED
    BY <1>1, <1>2 DEF Table

LEMMA UpsertTable ==
    ASSUME NEW S, NEW T, NEW f \in Table(S, T), NEW new \in Table(S, T)
    PROVE  Upsert(f, new) \in Table(S, T)
  <1>1. DOMAIN f \subseteq S /\ f \in [DOMAIN f -> T]
    BY TableType
  <1>2. DOMAIN new \subseteq S /\ new \in [DOMAIN new -> T]
    BY TableType
  <1>3. Upsert(f, new) \in [DOMAIN f \cup DOMAIN new -> T]
    BY <1>1, <1>2 DEF Upsert
  <1> QED
    BY <1>1, <1>2, <1>3 DEF Table

LEMMA LessTable ==
    ASSUME NEW S, NEW T, NEW f \in Table(S, T), NEW D \in SUBSET (DOMAIN f)
    PROVE  [k \in D |-> f[k]] \in Table(S, T)
  <1>1. DOMAIN f \subseteq S /\ f \in [DOMAIN f -> T]
    BY TableType
  <1>2. [k \in D |-> f[k]] \in [D -> T]
    BY <1>1
  <1> QED
    BY <1>1, <1>2 DEF Table

\* The tables of a database.
LEMMA RowsTables ==
    ASSUME NEW r \in Rows
    PROVE  /\ r.users \in Table(UserID, User)
           /\ r.shares \in Table(ShareID, Share)
           /\ r.acl \in Table(ShareID \X UserID, Permission)
  BY DEF Rows

LEMMA NewUsers ==
    ASSUME NEW r \in Rows, NEW users \in Table(UserID, User)
    PROVE  LET new == [r EXCEPT !.users = users]
           IN /\ new \in Rows
              /\ new.users = users /\ new.shares = r.shares /\ new.acl = r.acl
  BY DEF Rows

LEMMA NewShares ==
    ASSUME NEW r \in Rows, NEW shares \in Table(ShareID, Share)
    PROVE  LET new == [r EXCEPT !.shares = shares]
           IN /\ new \in Rows
              /\ new.users = r.users /\ new.shares = shares /\ new.acl = r.acl
  BY DEF Rows

LEMMA NewACL ==
    ASSUME NEW r \in Rows, NEW acl \in Table(ShareID \X UserID, Permission)
    PROVE  LET new == [r EXCEPT !.acl = acl]
           IN /\ new \in Rows
              /\ new.users = r.users /\ new.shares = r.shares /\ new.acl = acl
  BY DEF Rows

\* A user is inserted under a name that nobody has, or replaced without a change
\* of the name.
LEMMA PutUser ==
    ASSUME NEW r \in Rows, Consistent(r), NEW u \in UserID, NEW row \in User,
           \A v \in DOMAIN r.users : r.users[v].name = row.name => v = u
    PROVE  LET new == [r EXCEPT !.users = Put(@, u, row)]
           IN new \in Rows /\ Consistent(new)
  <1> DEFINE users == Put(r.users, u, row)
             new == [r EXCEPT !.users = users]
  <1>1. /\ users \in Table(UserID, User)
        /\ DOMAIN users = DOMAIN r.users \cup {u}
        /\ \A k \in DOMAIN r.users \cup {u} : users[k] = IF k = u THEN row ELSE r.users[k]
    <2>1. r.users \in Table(UserID, User)
      BY RowsTables
    <2>2. users \in Table(UserID, User)
      BY <2>1, PutTable
    <2> QED
      BY <2>2 DEF Put
  <1> HIDE DEF users
  <1>2. new \in Rows /\ new.users = users /\ new.shares = r.shares /\ new.acl = r.acl
    BY <1>1, NewUsers
  <1> HIDE DEF new
  <1>3. Consistent(new)
    <2>1. \A x, y \in DOMAIN users : users[x].name = users[y].name => x = y
      BY <1>1 DEF Consistent
    <2> QED
      BY <1>1, <1>2, <2>1 DEF Consistent
  <1> QED
    BY <1>2, <1>3 DEF new, users

LEMMA PutShare ==
    ASSUME NEW r \in Rows, Consistent(r), NEW s \in ShareID, NEW row \in Share,
           \A t \in DOMAIN r.shares : r.shares[t].slug = row.slug => t = s
    PROVE  LET new == [r EXCEPT !.shares = Put(@, s, row)]
           IN new \in Rows /\ Consistent(new)
  <1> DEFINE shares == Put(r.shares, s, row)
             new == [r EXCEPT !.shares = shares]
  <1>1. /\ shares \in Table(ShareID, Share)
        /\ DOMAIN shares = DOMAIN r.shares \cup {s}
        /\ \A k \in DOMAIN r.shares \cup {s} : shares[k] = IF k = s THEN row ELSE r.shares[k]
    <2>1. r.shares \in Table(ShareID, Share)
      BY RowsTables
    <2>2. shares \in Table(ShareID, Share)
      BY <2>1, PutTable
    <2> QED
      BY <2>2 DEF Put
  <1> HIDE DEF shares
  <1>2. new \in Rows /\ new.users = r.users /\ new.shares = shares /\ new.acl = r.acl
    BY <1>1, NewShares
  <1> HIDE DEF new
  <1>3. Consistent(new)
    <2>1. \A x, y \in DOMAIN shares : shares[x].slug = shares[y].slug => x = y
      BY <1>1 DEF Consistent
    <2> QED
      BY <1>1, <1>2, <2>1 DEF Consistent
  <1> QED
    BY <1>2, <1>3 DEF new, shares

LEMMA PutPermission ==
    ASSUME NEW r \in Rows, Consistent(r), NEW s \in DOMAIN r.shares, NEW u \in DOMAIN r.users,
           NEW permission \in Permission
    PROVE  LET new == [r EXCEPT !.acl = Put(@, <<s, u>>, permission)]
           IN new \in Rows /\ Consistent(new)
  <1> DEFINE acl == Put(r.acl, <<s, u>>, permission)
             new == [r EXCEPT !.acl = acl]
  <1>1. <<s, u>> \in ShareID \X UserID
    BY RowsType
  <1>2. acl \in Table(ShareID \X UserID, Permission) /\ DOMAIN acl = DOMAIN r.acl \cup {<<s, u>>}
    <2>1. r.acl \in Table(ShareID \X UserID, Permission)
      BY RowsTables
    <2>2. acl \in Table(ShareID \X UserID, Permission)
      BY <1>1, <2>1, PutTable
    <2> QED
      BY <2>2 DEF Put
  <1> HIDE DEF acl
  <1>3. new \in Rows /\ new.users = r.users /\ new.shares = r.shares /\ new.acl = acl
    BY <1>2, NewACL
  <1> HIDE DEF new
  <1>4. Consistent(new)
    BY <1>2, <1>3 DEF Consistent
  <1> QED
    BY <1>3, <1>4 DEF new, acl

LEMMA DropPermission ==
    ASSUME NEW r \in Rows, Consistent(r), NEW key
    PROVE  LET new == [r EXCEPT !.acl = [k \in DOMAIN @ \ {key} |-> @[k]]]
           IN new \in Rows /\ Consistent(new)
  <1> DEFINE acl == [k \in DOMAIN r.acl \ {key} |-> r.acl[k]]
             new == [r EXCEPT !.acl = acl]
  <1>1. acl \in Table(ShareID \X UserID, Permission) /\ DOMAIN acl = DOMAIN r.acl \ {key}
    BY RowsTables, LessTable
  <1> HIDE DEF acl
  <1>2. new \in Rows /\ new.users = r.users /\ new.shares = r.shares /\ new.acl = acl
    BY <1>1, NewACL
  <1> HIDE DEF new
  <1>3. Consistent(new)
    BY <1>1, <1>2 DEF Consistent
  <1> QED
    BY <1>2, <1>3 DEF new, acl

\* The cascade of the foreign keys leaves no permission behind.
LEMMA DropUser ==
    ASSUME NEW r \in Rows, Consistent(r), NEW u
    PROVE  LET new == [r EXCEPT !.users = [v \in DOMAIN @ \ {u} |-> @[v]],
                                !.acl = [k \in {k \in DOMAIN @ : k[2] # u} |-> @[k]]]
           IN new \in Rows /\ Consistent(new)
  <1> DEFINE users == [v \in DOMAIN r.users \ {u} |-> r.users[v]]
             acl == [k \in {k \in DOMAIN r.acl : k[2] # u} |-> r.acl[k]]
             mid == [r EXCEPT !.users = users]
             new == [mid EXCEPT !.acl = acl]
  <1>1. /\ users \in Table(UserID, User) /\ DOMAIN users = DOMAIN r.users \ {u}
        /\ \A v \in DOMAIN users : users[v] = r.users[v]
    BY RowsTables, LessTable
  <1>2. /\ acl \in Table(ShareID \X UserID, Permission)
        /\ DOMAIN acl = {k \in DOMAIN r.acl : k[2] # u}
    BY RowsTables, LessTable
  <1> HIDE DEF users, acl
  <1>3. mid \in Rows /\ mid.users = users /\ mid.shares = r.shares /\ mid.acl = r.acl
    BY <1>1, NewUsers
  <1> HIDE DEF mid
  <1>4. new \in Rows /\ new.users = users /\ new.shares = r.shares /\ new.acl = acl
    BY <1>2, <1>3, NewACL
  <1>5. Consistent(new)
    <2> HIDE DEF new
    <2>1. \A k \in DOMAIN acl : k \in (DOMAIN r.shares) \X (DOMAIN users)
      BY <1>1, <1>2 DEF Consistent
    <2> QED
      BY <1>1, <1>4, <2>1 DEF Consistent
  <1>6. new = [r EXCEPT !.users = users, !.acl = acl]
    BY DEF mid, Rows
  <1> QED
    BY <1>4, <1>5, <1>6 DEF users, acl

LEMMA DropShare ==
    ASSUME NEW r \in Rows, Consistent(r), NEW s
    PROVE  LET new == [r EXCEPT !.shares = [t \in DOMAIN @ \ {s} |-> @[t]],
                                !.acl = [k \in {k \in DOMAIN @ : k[1] # s} |-> @[k]]]
           IN new \in Rows /\ Consistent(new)
  <1> DEFINE shares == [t \in DOMAIN r.shares \ {s} |-> r.shares[t]]
             acl == [k \in {k \in DOMAIN r.acl : k[1] # s} |-> r.acl[k]]
             mid == [r EXCEPT !.shares = shares]
             new == [mid EXCEPT !.acl = acl]
  <1>1. /\ shares \in Table(ShareID, Share) /\ DOMAIN shares = DOMAIN r.shares \ {s}
        /\ \A t \in DOMAIN shares : shares[t] = r.shares[t]
    BY RowsTables, LessTable
  <1>2. /\ acl \in Table(ShareID \X UserID, Permission)
        /\ DOMAIN acl = {k \in DOMAIN r.acl : k[1] # s}
    BY RowsTables, LessTable
  <1> HIDE DEF shares, acl
  <1>3. mid \in Rows /\ mid.users = r.users /\ mid.shares = shares /\ mid.acl = r.acl
    BY <1>1, NewShares
  <1> HIDE DEF mid
  <1>4. new \in Rows /\ new.users = r.users /\ new.shares = shares /\ new.acl = acl
    BY <1>2, <1>3, NewACL
  <1>5. Consistent(new)
    <2> HIDE DEF new
    <2>1. \A k \in DOMAIN acl : k \in (DOMAIN shares) \X (DOMAIN r.users)
      BY <1>1, <1>2 DEF Consistent
    <2> QED
      BY <1>1, <1>4, <2>1 DEF Consistent
  <1>6. new = [r EXCEPT !.shares = shares, !.acl = acl]
    BY DEF mid, Rows
  <1> QED
    BY <1>4, <1>5, <1>6 DEF shares, acl

---------------------------------------------------------------------------
(* Import *)

\* The row with a name or a slug is unique, and NoSection says there is none.
LEMMA NamedUser ==
    ASSUME NEW r \in Rows, Consistent(r), NEW n
    PROVE  /\ UserNamed(r, n) = NoSection <=> \A u \in DOMAIN r.users : r.users[u].name # n
           /\ \A u \in DOMAIN r.users : r.users[u].name = n => UserNamed(r, n) = u
           /\ UserNamed(r, n) # NoSection =>
                 UserNamed(r, n) \in DOMAIN r.users /\ r.users[UserNamed(r, n)].name = n
  <1> DEFINE found == {u \in DOMAIN r.users : r.users[u].name = n}
  <1>1. UserNamed(r, n) = IF found = {} THEN NoSection ELSE CHOOSE u \in found : TRUE
    BY DEF UserNamed
  <1>2. \A u, v \in found : u = v
    BY DEF Consistent
  <1>3. \A u \in found : u \in UserID /\ u # NoSection
    BY RowsType, FileAssumption
  <1>4. CASE found = {}
    BY <1>1, <1>4
  <1>5. CASE found # {}
    <2>1. UserNamed(r, n) \in found
      BY <1>1, <1>5
    <2> QED
      BY <1>2, <1>3, <2>1
  <1> QED
    BY <1>4, <1>5

LEMMA ShareWithSlug ==
    ASSUME NEW r \in Rows, Consistent(r), NEW g
    PROVE  /\ ShareAt(r, g) = NoSection <=> \A s \in DOMAIN r.shares : r.shares[s].slug # g
           /\ \A s \in DOMAIN r.shares : r.shares[s].slug = g => ShareAt(r, g) = s
           /\ ShareAt(r, g) # NoSection =>
                 ShareAt(r, g) \in DOMAIN r.shares /\ r.shares[ShareAt(r, g)].slug = g
  <1> DEFINE found == {s \in DOMAIN r.shares : r.shares[s].slug = g}
  <1>1. ShareAt(r, g) = IF found = {} THEN NoSection ELSE CHOOSE s \in found : TRUE
    BY DEF ShareAt
  <1>2. \A s, t \in found : s = t
    BY DEF Consistent
  <1>3. \A s \in found : s \in ShareID /\ s # NoSection
    BY RowsType, FileAssumption
  <1>4. CASE found = {}
    BY <1>1, <1>4
  <1>5. CASE found # {}
    <2>1. ShareAt(r, g) \in found
      BY <1>1, <1>5
    <2> QED
      BY <1>2, <1>3, <2>1
  <1> QED
    BY <1>4, <1>5

LEMMA DocumentType ==
    ASSUME NEW d \in Document
    PROVE  /\ DOMAIN d.users \subseteq Name /\ d.users \in [DOMAIN d.users -> BOOLEAN]
           /\ DOMAIN d.shares \subseteq Slug
           /\ \A g \in DOMAIN d.shares :
                 /\ d.shares[g].path \in Path /\ d.shares[g].enabled \in BOOLEAN
                 /\ \A n \in DOMAIN d.shares[g].acl : d.shares[g].acl[n] \in Permission
           /\ d.port \in Port \cup {NoSection} /\ d.tls \in BOOLEAN
  <1>1. /\ d.users \in Table(Name, BOOLEAN)
        /\ d.shares \in Table(Slug, [path : Path, enabled : BOOLEAN, acl : Table(Name, Permission)])
        /\ d.port \in Port \cup {NoSection} /\ d.tls \in BOOLEAN
    BY DEF Document
  <1>2. DOMAIN d.users \subseteq Name /\ d.users \in [DOMAIN d.users -> BOOLEAN]
    BY <1>1, TableType
  <1>3. /\ DOMAIN d.shares \subseteq Slug
        /\ d.shares \in [DOMAIN d.shares -> [path : Path, enabled : BOOLEAN, acl : Table(Name, Permission)]]
    BY <1>1, TableType
  <1>4. ASSUME NEW g \in DOMAIN d.shares
        PROVE  /\ d.shares[g].path \in Path /\ d.shares[g].enabled \in BOOLEAN
               /\ \A n \in DOMAIN d.shares[g].acl : d.shares[g].acl[n] \in Permission
    <2>1. d.shares[g] \in [path : Path, enabled : BOOLEAN, acl : Table(Name, Permission)]
      BY <1>3
    <2>2. d.shares[g].acl \in Table(Name, Permission)
      BY <2>1
    <2> QED
      BY <2>1, <2>2, TableType
  <1> QED
    BY <1>1, <1>2, <1>3, <1>4

\* Ids for the rows that an import creates.
FreshIds(r, d, uid, sid) ==
    /\ uid \in [NewNames(r, d) -> UserID \ DOMAIN r.users]
    /\ \A m, n \in NewNames(r, d) : uid[m] = uid[n] => m = n
    /\ sid \in [NewSlugs(r, d) -> ShareID \ DOMAIN r.shares]
    /\ \A g, h \in NewSlugs(r, d) : sid[g] = sid[h] => g = h

\* The users after an import.  Those that were there keep name, password and,
\* unless the file names them, everything else; the new ones have new ids.
LEMMA MergedUsers ==
    ASSUME NEW r \in Rows, Consistent(r), NEW d \in Document,
           NEW uid, NEW sid, FreshIds(r, d, uid, sid)
    PROVE  LET users == MergeUsers(r, d, uid)
           IN /\ users \in Table(UserID, User)
              /\ \A u \in DOMAIN r.users :
                    /\ u \in DOMAIN users
                    /\ users[u].name = r.users[u].name /\ users[u].hash = r.users[u].hash
                    /\ users[u].enabled = IF r.users[u].name \in DOMAIN d.users
                                          THEN d.users[r.users[u].name] ELSE r.users[u].enabled
                    /\ r.users[u].name \notin DOMAIN d.users => users[u] = r.users[u]
              /\ \A u \in DOMAIN users \ DOMAIN r.users :
                    users[u].name \in NewNames(r, d) /\ u = uid[users[u].name]
              /\ \A n \in DOMAIN d.users : \E u \in DOMAIN users : users[u].name = n
  <1>0. /\ uid \in [NewNames(r, d) -> UserID \ DOMAIN r.users]
        /\ \A m, n \in NewNames(r, d) : uid[m] = uid[n] => m = n
    BY DEF FreshIds
  <1> DEFINE id(n) == IF n \in NewNames(r, d) THEN uid[n] ELSE UserNamed(r, n)
             Of(u) == CHOOSE m \in DOMAIN d.users : id(m) = u
             Row(u) == [name    |-> Of(u),
                        enabled |-> d.users[Of(u)],
                        hash    |-> IF u \in DOMAIN r.users THEN r.users[u].hash ELSE Placeholder]
             ids == {id(n) : n \in DOMAIN d.users}
             new == [u \in ids |-> Row(u)]
             users == Upsert(r.users, new)
  <1>1. MergeUsers(r, d, uid) = users
    BY DEF MergeUsers
  <1>2. ASSUME NEW n \in DOMAIN d.users
        PROVE  /\ id(n) \in UserID
               /\ n \in NewNames(r, d) => id(n) = uid[n] /\ id(n) \notin DOMAIN r.users
               /\ n \notin NewNames(r, d) => id(n) \in DOMAIN r.users /\ r.users[id(n)].name = n
    <2>1. CASE n \in NewNames(r, d)
      BY <1>0, <2>1
    <2>2. CASE n \notin NewNames(r, d)
      BY <2>2, NamedUser, RowsType DEF NewNames
    <2> QED
      BY <2>1, <2>2
  <1> HIDE DEF id
  <1>3. \A m, n \in DOMAIN d.users : id(m) = id(n) => m = n
    BY <1>0, <1>2
  <1>4. \A u \in ids : Of(u) \in DOMAIN d.users /\ id(Of(u)) = u
    OBVIOUS
  <1>5. \A n \in DOMAIN d.users : id(n) \in ids /\ Of(id(n)) = n
    BY <1>3
  <1> HIDE DEF Of
  <1>6. ASSUME NEW u \in ids
        PROVE  Row(u) \in User
    <2>1. Of(u) \in Name /\ d.users[Of(u)] \in BOOLEAN
      BY <1>4, DocumentType
    <2>2. (IF u \in DOMAIN r.users THEN r.users[u].hash ELSE Placeholder) \in Hash
      BY RowsType, FileAssumption DEF User
    <2> QED
      BY <2>1, <2>2 DEF User
  <1>7. \A u : /\ Row(u).name = Of(u) /\ Row(u).enabled = d.users[Of(u)]
               /\ u \in DOMAIN r.users => Row(u).hash = r.users[u].hash
    OBVIOUS
  <1> HIDE DEF Row
  <1>8. ids \subseteq UserID /\ new \in [ids -> User]
    BY <1>2, <1>6
  <1>9. users \in Table(UserID, User)
    <2>1. new \in Table(UserID, User)
      BY <1>8 DEF Table
    <2> HIDE DEF new
    <2> QED
      BY <2>1, RowsTables, UpsertTable
  <1>10. /\ DOMAIN users = DOMAIN r.users \cup ids
         /\ \A u \in ids : users[u] = Row(u)
         /\ \A u \in DOMAIN r.users \ ids : users[u] = r.users[u]
    BY DEF Upsert
  <1> HIDE DEF users, ids, new
  <1>11. ASSUME NEW u \in DOMAIN r.users
         PROVE  /\ u \in DOMAIN users
                /\ users[u].name = r.users[u].name /\ users[u].hash = r.users[u].hash
                /\ users[u].enabled = IF r.users[u].name \in DOMAIN d.users
                                      THEN d.users[r.users[u].name] ELSE r.users[u].enabled
                /\ r.users[u].name \notin DOMAIN d.users => users[u] = r.users[u]
    <2>1. CASE u \in ids
      <3>1. Of(u) \in DOMAIN d.users /\ r.users[u].name = Of(u)
        BY <1>2, <1>4, <2>1
      <3> QED
        BY <1>7, <1>10, <2>1, <3>1
    <2>2. CASE u \notin ids
      <3>1. r.users[u].name \notin DOMAIN d.users
        <4>1. SUFFICES ASSUME r.users[u].name \in DOMAIN d.users PROVE FALSE
          OBVIOUS
        <4>2. r.users[u].name \notin NewNames(r, d)
          BY NamedUser DEF NewNames
        <4>3. id(r.users[u].name) = u
          BY <1>2, <4>1, <4>2 DEF Consistent
        <4> QED
          BY <1>5, <2>2, <4>1, <4>3
      <3> QED
        BY <1>10, <2>2, <3>1
    <2> QED
      BY <2>1, <2>2
  <1>12. ASSUME NEW u \in DOMAIN users \ DOMAIN r.users
         PROVE  users[u].name \in NewNames(r, d) /\ u = uid[users[u].name]
    <2>1. u \in ids
      BY <1>10
    <2>2. users[u].name = Of(u) /\ Of(u) \in DOMAIN d.users /\ id(Of(u)) = u
      BY <1>4, <1>7, <1>10, <2>1
    <2> QED
      BY <1>2, <2>2
  <1>13. ASSUME NEW n \in DOMAIN d.users PROVE \E u \in DOMAIN users : users[u].name = n
    <2>1. id(n) \in ids /\ users[id(n)].name = n
      BY <1>5, <1>7, <1>10
    <2> QED
      BY <1>10, <2>1
  <1> QED
    BY <1>1, <1>9, <1>11, <1>12, <1>13

\* The shares after an import.
LEMMA MergedShares ==
    ASSUME NEW r \in Rows, Consistent(r), NEW d \in Document,
           NEW uid, NEW sid, FreshIds(r, d, uid, sid)
    PROVE  LET shares == MergeShares(r, d, sid)
           IN /\ shares \in Table(ShareID, Share)
              /\ \A s \in DOMAIN r.shares :
                    /\ s \in DOMAIN shares
                    /\ shares[s].slug = r.shares[s].slug
                    /\ r.shares[s].slug \in DOMAIN d.shares =>
                          /\ shares[s].path = d.shares[r.shares[s].slug].path
                          /\ shares[s].enabled = d.shares[r.shares[s].slug].enabled
                    /\ r.shares[s].slug \notin DOMAIN d.shares => shares[s] = r.shares[s]
              /\ \A s \in DOMAIN shares \ DOMAIN r.shares :
                    shares[s].slug \in NewSlugs(r, d) /\ s = sid[shares[s].slug]
              /\ \A g \in DOMAIN d.shares : \E s \in DOMAIN shares : shares[s].slug = g
  <1>0. /\ sid \in [NewSlugs(r, d) -> ShareID \ DOMAIN r.shares]
        /\ \A g, h \in NewSlugs(r, d) : sid[g] = sid[h] => g = h
    BY DEF FreshIds
  <1> DEFINE id(g) == IF g \in NewSlugs(r, d) THEN sid[g] ELSE ShareAt(r, g)
             Of(s) == CHOOSE h \in DOMAIN d.shares : id(h) = s
             Row(s) == [slug |-> Of(s), path |-> d.shares[Of(s)].path, enabled |-> d.shares[Of(s)].enabled]
             ids == {id(g) : g \in DOMAIN d.shares}
             new == [s \in ids |-> Row(s)]
             shares == Upsert(r.shares, new)
  <1>1. MergeShares(r, d, sid) = shares
    BY DEF MergeShares
  <1>2. ASSUME NEW g \in DOMAIN d.shares
        PROVE  /\ id(g) \in ShareID
               /\ g \in NewSlugs(r, d) => id(g) = sid[g] /\ id(g) \notin DOMAIN r.shares
               /\ g \notin NewSlugs(r, d) => id(g) \in DOMAIN r.shares /\ r.shares[id(g)].slug = g
    <2>1. CASE g \in NewSlugs(r, d)
      BY <1>0, <2>1
    <2>2. CASE g \notin NewSlugs(r, d)
      BY <2>2, ShareWithSlug, RowsType DEF NewSlugs
    <2> QED
      BY <2>1, <2>2
  <1> HIDE DEF id
  <1>3. \A g, h \in DOMAIN d.shares : id(g) = id(h) => g = h
    BY <1>0, <1>2
  <1>4. \A s \in ids : Of(s) \in DOMAIN d.shares /\ id(Of(s)) = s
    OBVIOUS
  <1>5. \A g \in DOMAIN d.shares : id(g) \in ids /\ Of(id(g)) = g
    BY <1>3
  <1> HIDE DEF Of
  <1>6. ASSUME NEW s \in ids PROVE Row(s) \in Share
    BY <1>4, DocumentType DEF Share
  <1>7. \A s : /\ Row(s).slug = Of(s)
               /\ Row(s).path = d.shares[Of(s)].path /\ Row(s).enabled = d.shares[Of(s)].enabled
    OBVIOUS
  <1> HIDE DEF Row
  <1>8. ids \subseteq ShareID /\ new \in [ids -> Share]
    BY <1>2, <1>6
  <1>9. shares \in Table(ShareID, Share)
    <2>1. new \in Table(ShareID, Share)
      BY <1>8 DEF Table
    <2> HIDE DEF new
    <2> QED
      BY <2>1, RowsTables, UpsertTable
  <1>10. /\ DOMAIN shares = DOMAIN r.shares \cup ids
         /\ \A s \in ids : shares[s] = Row(s)
         /\ \A s \in DOMAIN r.shares \ ids : shares[s] = r.shares[s]
    BY DEF Upsert
  <1> HIDE DEF shares, ids, new
  <1>11. ASSUME NEW s \in DOMAIN r.shares
         PROVE  /\ s \in DOMAIN shares
                /\ shares[s].slug = r.shares[s].slug
                /\ r.shares[s].slug \in DOMAIN d.shares =>
                      /\ shares[s].path = d.shares[r.shares[s].slug].path
                      /\ shares[s].enabled = d.shares[r.shares[s].slug].enabled
                /\ r.shares[s].slug \notin DOMAIN d.shares => shares[s] = r.shares[s]
    <2>1. CASE s \in ids
      <3>1. Of(s) \in DOMAIN d.shares /\ r.shares[s].slug = Of(s)
        BY <1>2, <1>4, <2>1
      <3> QED
        BY <1>7, <1>10, <2>1, <3>1
    <2>2. CASE s \notin ids
      <3>1. r.shares[s].slug \notin DOMAIN d.shares
        <4>1. SUFFICES ASSUME r.shares[s].slug \in DOMAIN d.shares PROVE FALSE
          OBVIOUS
        <4>2. r.shares[s].slug \notin NewSlugs(r, d)
          BY ShareWithSlug DEF NewSlugs
        <4>3. id(r.shares[s].slug) = s
          BY <1>2, <4>1, <4>2 DEF Consistent
        <4> QED
          BY <1>5, <2>2, <4>1, <4>3
      <3> QED
        BY <1>10, <2>2, <3>1
    <2> QED
      BY <2>1, <2>2
  <1>12. ASSUME NEW s \in DOMAIN shares \ DOMAIN r.shares
         PROVE  shares[s].slug \in NewSlugs(r, d) /\ s = sid[shares[s].slug]
    <2>1. s \in ids
      BY <1>10
    <2>2. shares[s].slug = Of(s) /\ Of(s) \in DOMAIN d.shares /\ id(Of(s)) = s
      BY <1>4, <1>7, <1>10, <2>1
    <2> QED
      BY <1>2, <2>2
  <1>13. ASSUME NEW g \in DOMAIN d.shares PROVE \E s \in DOMAIN shares : shares[s].slug = g
    <2>1. id(g) \in ids /\ shares[id(g)].slug = g
      BY <1>5, <1>7, <1>10
    <2> QED
      BY <1>10, <2>1
  <1> QED
    BY <1>1, <1>9, <1>11, <1>12, <1>13

\* The database of an import before its permissions are written.
Merged(r, d, uid, sid) ==
    [r EXCEPT !.users  = MergeUsers(r, d, uid),
              !.shares = MergeShares(r, d, sid),
              !.port   = IF d.port = NoSection THEN @ ELSE d.port,
              !.tls    = @ \/ d.tls]

LEMMA ImportIs ==
    ASSUME NEW r, NEW d, NEW uid, NEW sid
    PROVE  Import(r, d, uid, sid) =
              [Merged(r, d, uid, sid) EXCEPT !.acl = MergeACL(Merged(r, d, uid, sid), d)]
  BY DEF Import, Merged

LEMMA MergedRows ==
    ASSUME NEW r \in Rows, Consistent(r), NEW d \in Document,
           NEW uid, NEW sid, FreshIds(r, d, uid, sid)
    PROVE  LET merged == Merged(r, d, uid, sid)
           IN /\ merged \in Rows /\ Consistent(merged)
              /\ merged.users = MergeUsers(r, d, uid) /\ merged.shares = MergeShares(r, d, sid)
              /\ merged.acl = r.acl
              /\ merged.port = IF d.port = NoSection THEN r.port ELSE d.port
              /\ merged.tls = (r.tls \/ d.tls)
  <1> DEFINE users == MergeUsers(r, d, uid)
             shares == MergeShares(r, d, sid)
             port == IF d.port = NoSection THEN r.port ELSE d.port
             tls == r.tls \/ d.tls
             merged == Merged(r, d, uid, sid)
  <1>1. merged = [r EXCEPT !.users = users, !.shares = shares, !.port = port, !.tls = tls]
    BY DEF Merged
  <1>2. users \in Table(UserID, User)
    BY MergedUsers
  <1>3. shares \in Table(ShareID, Share)
    BY MergedShares
  <1>4. port \in Port
    BY RowsType, DocumentType
  <1>5. tls \in BOOLEAN
    BY Zenon
  <1>6. DOMAIN r.users \subseteq DOMAIN users /\ DOMAIN r.shares \subseteq DOMAIN shares
    BY MergedUsers, MergedShares
  <1>7. \A u, v \in DOMAIN users : users[u].name = users[v].name => u = v
    <2>1. \A u \in DOMAIN r.users : users[u].name = r.users[u].name
      BY MergedUsers
    <2>2. \A u \in DOMAIN users \ DOMAIN r.users :
             users[u].name \in NewNames(r, d) /\ u = uid[users[u].name]
      BY MergedUsers
    <2>3. \A u \in DOMAIN r.users : r.users[u].name \notin NewNames(r, d)
      BY NamedUser DEF NewNames
    <2> HIDE DEF users
    <2> QED
      BY <2>1, <2>2, <2>3 DEF Consistent
  <1>8. \A s, t \in DOMAIN shares : shares[s].slug = shares[t].slug => s = t
    <2>1. \A s \in DOMAIN r.shares : shares[s].slug = r.shares[s].slug
      BY MergedShares
    <2>2. \A s \in DOMAIN shares \ DOMAIN r.shares :
             shares[s].slug \in NewSlugs(r, d) /\ s = sid[shares[s].slug]
      BY MergedShares
    <2>3. \A s \in DOMAIN r.shares : r.shares[s].slug \notin NewSlugs(r, d)
      BY ShareWithSlug DEF NewSlugs
    <2> HIDE DEF shares
    <2> QED
      BY <2>1, <2>2, <2>3 DEF Consistent
  <1> HIDE DEF users, shares, port, tls
  <1>9. /\ merged \in Rows
        /\ merged.users = users /\ merged.shares = shares /\ merged.acl = r.acl
        /\ merged.port = port /\ merged.tls = tls
    BY <1>1, <1>2, <1>3, <1>4, <1>5 DEF Rows
  <1>10. Consistent(merged)
    BY <1>6, <1>7, <1>8, <1>9 DEF Consistent
  <1> QED
    BY <1>9, <1>10 DEF users, shares, port, tls

\* The permissions that a document lists, as keys of the merged database.
ListedKeys(m, d) ==
    UNION {{<<ShareAt(m, g), UserNamed(m, n)>> : n \in DOMAIN d.shares[g].acl} : g \in DOMAIN d.shares}

\* Every share and every user that it names is there.
Resolves(m, d) ==
    \A g \in DOMAIN d.shares :
        /\ \E s \in DOMAIN m.shares : m.shares[s].slug = g
        /\ \A n \in DOMAIN d.shares[g].acl : \E u \in DOMAIN m.users : m.users[u].name = n

\* acl is the permissions of m, with those of d inserted or updated.
WithPermissions(m, d, acl) ==
    /\ acl \in Table(ShareID \X UserID, Permission)
    /\ DOMAIN acl = DOMAIN m.acl \cup ListedKeys(m, d)
    /\ \A k \in ListedKeys(m, d) :
          /\ k \in (DOMAIN m.shares) \X (DOMAIN m.users)
          /\ m.shares[k[1]].slug \in DOMAIN d.shares
          /\ m.users[k[2]].name \in DOMAIN d.shares[m.shares[k[1]].slug].acl
          /\ acl[k] = d.shares[m.shares[k[1]].slug].acl[m.users[k[2]].name]
    /\ \A k \in DOMAIN m.acl \ ListedKeys(m, d) : acl[k] = m.acl[k]

LEMMA MergedPermissions ==
    ASSUME NEW m \in Rows, Consistent(m), NEW d \in Document,
           Resolves(m, d), NEW acl, acl = MergeACL(m, d)
    PROVE  WithPermissions(m, d, acl)
  <1> DEFINE listed == ListedKeys(m, d)
             V(k) == d.shares[m.shares[k[1]].slug].acl[m.users[k[2]].name]
             new == [k \in listed |-> V(k)]
  <1>1. acl = Upsert(m.acl, new)
    BY DEF MergeACL, ListedKeys
  <1>2. ASSUME NEW k \in listed
        PROVE  /\ k \in (DOMAIN m.shares) \X (DOMAIN m.users)
               /\ m.shares[k[1]].slug \in DOMAIN d.shares
               /\ m.users[k[2]].name \in DOMAIN d.shares[m.shares[k[1]].slug].acl
    <2>1. PICK g \in DOMAIN d.shares : \E n \in DOMAIN d.shares[g].acl : k = <<ShareAt(m, g), UserNamed(m, n)>>
      BY <1>2 DEF ListedKeys
    <2>2. PICK n \in DOMAIN d.shares[g].acl : k = <<ShareAt(m, g), UserNamed(m, n)>>
      BY <2>1
    <2>3. ShareAt(m, g) \in DOMAIN m.shares /\ m.shares[ShareAt(m, g)].slug = g
      BY ShareWithSlug DEF Resolves
    <2>4. UserNamed(m, n) \in DOMAIN m.users /\ m.users[UserNamed(m, n)].name = n
      BY NamedUser DEF Resolves
    <2> QED
      BY <2>2, <2>3, <2>4
  <1>3. \A k \in listed : V(k) \in Permission
    BY <1>2, DocumentType
  <1> HIDE DEF listed, V
  <1>4. listed \subseteq ShareID \X UserID
    <2>1. DOMAIN m.shares \subseteq ShareID /\ DOMAIN m.users \subseteq UserID
      BY RowsType
    <2> QED
      BY <1>2, <2>1
  <1>5. new \in Table(ShareID \X UserID, Permission)
    BY <1>3, <1>4 DEF Table
  <1>6. /\ DOMAIN acl = DOMAIN m.acl \cup listed
        /\ \A k \in listed : acl[k] = V(k)
        /\ \A k \in DOMAIN m.acl \ listed : acl[k] = m.acl[k]
    BY <1>1 DEF Upsert
  <1> HIDE DEF new
  <1>7. acl \in Table(ShareID \X UserID, Permission)
    <2>1. Upsert(m.acl, new) \in Table(ShareID \X UserID, Permission)
      BY <1>5, RowsTables, UpsertTable
    <2> QED
      BY <1>1, <2>1
  <1> QED
    BY <1>2, <1>6, <1>7 DEF listed, V, WithPermissions

\* The rows after an import: a permission is one that was there or one of the file.
Imported(r, d, uid, sid, new) ==
    /\ new \in Rows /\ Consistent(new)
    /\ new.users = MergeUsers(r, d, uid) /\ new.shares = MergeShares(r, d, sid)
    /\ new.port = Merged(r, d, uid, sid).port /\ new.tls = Merged(r, d, uid, sid).tls
    /\ DOMAIN r.acl \subseteq DOMAIN new.acl
    /\ \A k \in DOMAIN new.acl :
          \/ k \in DOMAIN r.acl /\ new.acl[k] = r.acl[k]
          \/ /\ k \in (DOMAIN new.shares) \X (DOMAIN new.users)
             /\ new.shares[k[1]].slug \in DOMAIN d.shares
             /\ new.users[k[2]].name \in DOMAIN d.shares[new.shares[k[1]].slug].acl
             /\ new.acl[k] = d.shares[new.shares[k[1]].slug].acl[new.users[k[2]].name]

LEMMA ImportedRows ==
    ASSUME NEW r \in Rows, Consistent(r), NEW d \in Document, Importable(r, d),
           NEW uid, NEW sid, FreshIds(r, d, uid, sid)
    PROVE  Imported(r, d, uid, sid, Import(r, d, uid, sid))
  <1> DEFINE new == Import(r, d, uid, sid)
             m == Merged(r, d, uid, sid)
             acl == MergeACL(m, d)
  <1>1. /\ m \in Rows /\ Consistent(m) /\ m.acl = r.acl
        /\ m.users = MergeUsers(r, d, uid) /\ m.shares = MergeShares(r, d, sid)
    BY MergedRows
  <1>2. ASSUME NEW g \in DOMAIN d.shares
        PROVE  /\ \E s \in DOMAIN m.shares : m.shares[s].slug = g
               /\ \A n \in DOMAIN d.shares[g].acl : \E u \in DOMAIN m.users : m.users[u].name = n
    <2>1. \E s \in DOMAIN m.shares : m.shares[s].slug = g
      BY <1>1, MergedShares
    <2>2. ASSUME NEW n \in DOMAIN d.shares[g].acl PROVE \E u \in DOMAIN m.users : m.users[u].name = n
      <3>1. CASE n \in DOMAIN d.users
        BY <1>1, <3>1, MergedUsers
      <3>2. CASE UserNamed(r, n) # NoSection
        <4>1. UserNamed(r, n) \in DOMAIN r.users /\ r.users[UserNamed(r, n)].name = n
          BY <3>2, NamedUser
        <4> QED
          BY <1>1, <4>1, MergedUsers
      <3> QED
        BY <3>1, <3>2 DEF Importable
    <2> QED
      BY <2>1, <2>2
  <1>3. new = [m EXCEPT !.acl = acl]
    BY ImportIs
  <1>a. acl = MergeACL(m, d)
    OBVIOUS
  <1> HIDE DEF m, acl
  <1>4. /\ acl \in Table(ShareID \X UserID, Permission)
        /\ DOMAIN acl = DOMAIN m.acl \cup ListedKeys(m, d)
        /\ \A k \in ListedKeys(m, d) :
              /\ k \in (DOMAIN m.shares) \X (DOMAIN m.users)
              /\ m.shares[k[1]].slug \in DOMAIN d.shares
              /\ m.users[k[2]].name \in DOMAIN d.shares[m.shares[k[1]].slug].acl
              /\ acl[k] = d.shares[m.shares[k[1]].slug].acl[m.users[k[2]].name]
        /\ \A k \in DOMAIN m.acl \ ListedKeys(m, d) : acl[k] = m.acl[k]
    <2>1. Resolves(m, d)
      BY <1>2 DEF Resolves
    <2>2. WithPermissions(m, d, acl)
      BY <1>1, <1>a, <2>1, MergedPermissions
    <2> QED
      BY <2>2 DEF WithPermissions
  <1> HIDE DEF new
  <1>5. /\ new \in Rows /\ new.users = m.users /\ new.shares = m.shares /\ new.acl = acl
        /\ new.port = m.port /\ new.tls = m.tls
    BY <1>1, <1>3, <1>4 DEF Rows
  <1>6. Consistent(new)
    <2>1. DOMAIN acl \subseteq (DOMAIN m.shares) \X (DOMAIN m.users)
      BY <1>1, <1>4 DEF Consistent
    <2> QED
      BY <1>1, <1>5, <2>1 DEF Consistent
  <1>7. ASSUME NEW k \in DOMAIN acl
        PROVE  \/ k \in DOMAIN r.acl /\ acl[k] = r.acl[k]
               \/ /\ k \in (DOMAIN m.shares) \X (DOMAIN m.users)
                  /\ m.shares[k[1]].slug \in DOMAIN d.shares
                  /\ m.users[k[2]].name \in DOMAIN d.shares[m.shares[k[1]].slug].acl
                  /\ acl[k] = d.shares[m.shares[k[1]].slug].acl[m.users[k[2]].name]
    BY <1>1, <1>4
  <1>8. Imported(r, d, uid, sid, new)
    BY <1>1, <1>4, <1>5, <1>6, <1>7 DEF m, Imported
  <1> QED
    BY <1>8 DEF new

\* Equal fields make equal rows.
LEMMA SameUser ==
    ASSUME NEW x \in User, NEW y \in User, x.name = y.name, x.enabled = y.enabled, x.hash = y.hash
    PROVE  x = y
  BY DEF User

LEMMA SameShare ==
    ASSUME NEW x \in Share, NEW y \in Share, x.slug = y.slug, x.path = y.path, x.enabled = y.enabled
    PROVE  x = y
  BY DEF Share

LEMMA SameRows ==
    ASSUME NEW x \in Rows, NEW y \in Rows, x.users = y.users, x.shares = y.shares, x.acl = y.acl,
           x.port = y.port, x.tls = y.tls
    PROVE  x = y
  BY DEF Rows

LEMMA SameTable ==
    ASSUME NEW S, NEW T, NEW f \in Table(S, T), NEW g \in Table(S, T), DOMAIN f = DOMAIN g,
           \A x \in DOMAIN f : f[x] = g[x]
    PROVE  f = g
  <1>1. f \in [DOMAIN f -> T] /\ g \in [DOMAIN f -> T]
    BY TableType
  <1> QED
    BY <1>1

\* What Export writes of a database.
LEMMA Exported ==
    ASSUME NEW r \in Rows, Consistent(r)
    PROVE  LET d == Export(r)
           IN /\ DOMAIN d.users = {r.users[u].name : u \in DOMAIN r.users}
              /\ \A u \in DOMAIN r.users : d.users[r.users[u].name] = r.users[u].enabled
              /\ DOMAIN d.shares = {r.shares[s].slug : s \in DOMAIN r.shares}
              /\ \A s \in DOMAIN r.shares :
                    LET e == d.shares[r.shares[s].slug]
                    IN /\ e.path = r.shares[s].path /\ e.enabled = r.shares[s].enabled
                       /\ DOMAIN e.acl =
                             {r.users[u].name : u \in {v \in DOMAIN r.users : <<s, v>> \in DOMAIN r.acl}}
                       /\ \A u \in DOMAIN r.users :
                             <<s, u>> \in DOMAIN r.acl => e.acl[r.users[u].name] = r.acl[<<s, u>>]
              /\ d.port = r.port /\ d.tls = r.tls
              /\ d \in Document
  <1> DEFINE d == Export(r)
             slugs == {r.shares[s].slug : s \in DOMAIN r.shares}
             Entry(g) == [path    |-> r.shares[ShareAt(r, g)].path,
                          enabled |-> r.shares[ShareAt(r, g)].enabled,
                          acl     |-> ExportACL(r, ShareAt(r, g))]
  <1>1. /\ d.users = ExportUsers(r) /\ d.shares = [g \in slugs |-> Entry(g)]
        /\ d.port = r.port /\ d.tls = r.tls
    BY DEF Export
  <1>2. \A u \in DOMAIN r.users : UserNamed(r, r.users[u].name) = u
    BY NamedUser
  <1>3. \A s \in DOMAIN r.shares : ShareAt(r, r.shares[s].slug) = s
    BY ShareWithSlug
  <1>4. /\ DOMAIN ExportUsers(r) = {r.users[u].name : u \in DOMAIN r.users}
        /\ \A u \in DOMAIN r.users : ExportUsers(r)[r.users[u].name] = r.users[u].enabled
        /\ ExportUsers(r) \in Table(Name, BOOLEAN)
    <2>1. /\ DOMAIN ExportUsers(r) = {r.users[u].name : u \in DOMAIN r.users}
          /\ \A u \in DOMAIN r.users : ExportUsers(r)[r.users[u].name] = r.users[u].enabled
      BY <1>2 DEF ExportUsers
    <2>2. \A u \in DOMAIN r.users : r.users[u].name \in Name /\ r.users[u].enabled \in BOOLEAN
      BY RowsType DEF User
    <2> DEFINE names == {r.users[u].name : u \in DOMAIN r.users}
    <2>3. ExportUsers(r) \in [names -> BOOLEAN]
      BY <1>2, <2>2 DEF ExportUsers
    <2>4. names \subseteq Name
      BY <2>2
    <2> HIDE DEF names
    <2>5. ExportUsers(r) \in Table(Name, BOOLEAN)
      BY <2>3, <2>4 DEF Table
    <2> QED
      BY <2>1, <2>5
  <1>5. ASSUME NEW s \in DOMAIN r.shares
        PROVE  /\ DOMAIN ExportACL(r, s) =
                     {r.users[u].name : u \in {v \in DOMAIN r.users : <<s, v>> \in DOMAIN r.acl}}
               /\ \A u \in DOMAIN r.users :
                     <<s, u>> \in DOMAIN r.acl => ExportACL(r, s)[r.users[u].name] = r.acl[<<s, u>>]
               /\ ExportACL(r, s) \in Table(Name, Permission)
    <2> DEFINE names == {r.users[u].name : u \in {v \in DOMAIN r.users : <<s, v>> \in DOMAIN r.acl}}
    <2>1. /\ DOMAIN ExportACL(r, s) = names
          /\ \A u \in DOMAIN r.users :
                <<s, u>> \in DOMAIN r.acl => ExportACL(r, s)[r.users[u].name] = r.acl[<<s, u>>]
      BY <1>2 DEF ExportACL
    <2>2. \A u \in DOMAIN r.users :
             /\ r.users[u].name \in Name
             /\ <<s, u>> \in DOMAIN r.acl => r.acl[<<s, u>>] \in Permission
      BY RowsType DEF User
    <2>3. ExportACL(r, s) \in [names -> Permission]
      BY <1>2, <2>2 DEF ExportACL
    <2>4. names \subseteq Name
      BY <2>2
    <2> HIDE DEF names
    <2>5. ExportACL(r, s) \in Table(Name, Permission)
      BY <2>3, <2>4 DEF Table
    <2> QED
      BY <2>1, <2>5 DEF names
  <1> DEFINE T == [path : Path, enabled : BOOLEAN, acl : Table(Name, Permission)]
  <1>6. ASSUME NEW s \in DOMAIN r.shares
        PROVE  /\ d.shares[r.shares[s].slug] = [path |-> r.shares[s].path, enabled |-> r.shares[s].enabled,
                                                acl |-> ExportACL(r, s)]
               /\ d.shares[r.shares[s].slug] \in T
    <2>1. d.shares[r.shares[s].slug] = [path |-> r.shares[s].path, enabled |-> r.shares[s].enabled,
                                        acl |-> ExportACL(r, s)]
      BY <1>1, <1>3
    <2>2. r.shares[s].path \in Path /\ r.shares[s].enabled \in BOOLEAN
      BY RowsType DEF Share
    <2>3. ExportACL(r, s) \in Table(Name, Permission)
      BY <1>5
    <2> HIDE DEF d
    <2> QED
      BY <2>1, <2>2, <2>3
  <1>7. d.shares \in Table(Slug, T)
    <2>1. slugs \subseteq Slug
      BY RowsType DEF Share
    <2>2. d.shares \in [slugs -> T]
      BY <1>1, <1>6
    <2> QED
      BY <2>1, <2>2 DEF Table
  <1>8. d \in Document
    <2>1. d.port \in Port /\ d.tls \in BOOLEAN /\ d.users \in Table(Name, BOOLEAN)
      BY <1>1, <1>4, RowsType
    <2> QED
      BY <1>7, <2>1 DEF Document, Export
  <1>9. DOMAIN d.shares = slugs
    BY <1>1
  <1> HIDE DEF d
  <1>10. ASSUME NEW s \in DOMAIN r.shares
         PROVE  LET e == d.shares[r.shares[s].slug]
                IN /\ e.path = r.shares[s].path /\ e.enabled = r.shares[s].enabled
                   /\ DOMAIN e.acl =
                         {r.users[u].name : u \in {v \in DOMAIN r.users : <<s, v>> \in DOMAIN r.acl}}
                   /\ \A u \in DOMAIN r.users :
                         <<s, u>> \in DOMAIN r.acl => e.acl[r.users[u].name] = r.acl[<<s, u>>]
    <2> DEFINE e == d.shares[r.shares[s].slug]
    <2>1. e.path = r.shares[s].path /\ e.enabled = r.shares[s].enabled /\ e.acl = ExportACL(r, s)
      <3>1. e = [path |-> r.shares[s].path, enabled |-> r.shares[s].enabled, acl |-> ExportACL(r, s)]
        BY <1>6
      <3> HIDE DEF e
      <3> QED
        BY <3>1
    <2> HIDE DEF e
    <2> QED
      BY <1>5, <2>1 DEF e
  <1> QED
    BY <1>1, <1>4, <1>8, <1>9, <1>10 DEF d

\* For every database the schema admits, an export imported into the database it
\* came from changes nothing: ids, passwords, explicit NONE permissions
\* included (ConfigService.Export, SQLiteConfigRepository.Import).
THEOREM ExportImportIdentity ==
    ASSUME NEW r \in Rows, Consistent(r)
    PROVE  Import(r, Export(r), <<>>, <<>>) = r
  <1> DEFINE d == Export(r)
             none == <<>>
             new == Import(r, d, none, none)
             m == Merged(r, d, none, none)
  <1>1. /\ d \in Document /\ d.port = r.port /\ d.tls = r.tls
        /\ DOMAIN d.users = {r.users[u].name : u \in DOMAIN r.users}
        /\ \A u \in DOMAIN r.users : d.users[r.users[u].name] = r.users[u].enabled
        /\ DOMAIN d.shares = {r.shares[s].slug : s \in DOMAIN r.shares}
    BY Exported
  <1>2. ASSUME NEW s \in DOMAIN r.shares
        PROVE  LET e == d.shares[r.shares[s].slug]
               IN /\ e.path = r.shares[s].path /\ e.enabled = r.shares[s].enabled
                  /\ DOMAIN e.acl =
                        {r.users[u].name : u \in {v \in DOMAIN r.users : <<s, v>> \in DOMAIN r.acl}}
                  /\ \A u \in DOMAIN r.users :
                        <<s, u>> \in DOMAIN r.acl => e.acl[r.users[u].name] = r.acl[<<s, u>>]
    BY Exported
  <1> HIDE DEF d
  <1>3. NewNames(r, d) = {} /\ NewSlugs(r, d) = {}
    BY <1>1, NamedUser, ShareWithSlug DEF NewNames, NewSlugs
  <1>4. /\ none \in [NewNames(r, d) -> UserID \ DOMAIN r.users]
        /\ none \in [NewSlugs(r, d) -> ShareID \ DOMAIN r.shares]
    BY <1>3
  <1> HIDE DEF none
  <1>b. FreshIds(r, d, none, none)
    BY <1>3, <1>4 DEF FreshIds
  <1>5. Importable(r, d)
    <2>1. ASSUME NEW s \in DOMAIN r.shares, NEW n \in DOMAIN d.shares[r.shares[s].slug].acl
          PROVE  n \in DOMAIN d.users
      <3>1. PICK u \in DOMAIN r.users : n = r.users[u].name
        BY <1>2, <2>1
      <3> QED
        BY <1>1, <3>1
    <2> QED
      BY <1>1, <2>1 DEF Importable
  <1>6. /\ new \in Rows /\ Consistent(new)
        /\ new.users = MergeUsers(r, d, none) /\ new.shares = MergeShares(r, d, none)
        /\ new.port = m.port /\ new.tls = m.tls
        /\ DOMAIN r.acl \subseteq DOMAIN new.acl
        /\ \A k \in DOMAIN new.acl :
              \/ k \in DOMAIN r.acl /\ new.acl[k] = r.acl[k]
              \/ /\ k \in (DOMAIN new.shares) \X (DOMAIN new.users)
                 /\ new.shares[k[1]].slug \in DOMAIN d.shares
                 /\ new.users[k[2]].name \in DOMAIN d.shares[new.shares[k[1]].slug].acl
                 /\ new.acl[k] = d.shares[new.shares[k[1]].slug].acl[new.users[k[2]].name]
    <2>1. Imported(r, d, none, none, new)
      BY <1>1, <1>b, <1>5, ImportedRows
    <2> HIDE DEF new
    <2> QED
      BY <2>1 DEF Imported
  <1>7. m.port = r.port /\ m.tls = r.tls
    <2>1. /\ m.port = IF d.port = NoSection THEN r.port ELSE d.port
          /\ m.tls = (r.tls \/ d.tls)
      BY <1>1, <1>b, MergedRows
    <2> QED
      BY <1>1, <2>1, RowsType
  <1>8. new.users = r.users
    <2> DEFINE users == MergeUsers(r, d, none)
    <2>1. /\ users \in Table(UserID, User)
          /\ \A u \in DOMAIN users \ DOMAIN r.users : users[u].name \in NewNames(r, d)
          /\ \A u \in DOMAIN r.users :
                /\ u \in DOMAIN users
                /\ users[u].name = r.users[u].name /\ users[u].hash = r.users[u].hash
                /\ users[u].enabled = IF r.users[u].name \in DOMAIN d.users
                                      THEN d.users[r.users[u].name] ELSE r.users[u].enabled
      BY <1>1, <1>b, MergedUsers
    <2> HIDE DEF users
    <2>2. DOMAIN users = DOMAIN r.users
      BY <1>3, <2>1
    <2>3. ASSUME NEW u \in DOMAIN users PROVE users[u] = r.users[u]
      <3>1. users[u] \in User /\ r.users[u] \in User
        BY <2>1, <2>2, TableType, RowsType
      <3> QED
        BY <1>1, <2>1, <2>2, <3>1, SameUser
    <2>4. users = r.users
      BY <2>1, <2>2, <2>3, RowsTables, SameTable
    <2> QED
      BY <1>6, <2>4 DEF users
  <1>9. new.shares = r.shares
    <2> DEFINE shares == MergeShares(r, d, none)
    <2>1. /\ shares \in Table(ShareID, Share)
          /\ \A s \in DOMAIN shares \ DOMAIN r.shares : shares[s].slug \in NewSlugs(r, d)
          /\ \A s \in DOMAIN r.shares :
                /\ s \in DOMAIN shares
                /\ shares[s].slug = r.shares[s].slug
                /\ r.shares[s].slug \in DOMAIN d.shares =>
                      /\ shares[s].path = d.shares[r.shares[s].slug].path
                      /\ shares[s].enabled = d.shares[r.shares[s].slug].enabled
      BY <1>1, <1>b, MergedShares
    <2> HIDE DEF shares
    <2>2. DOMAIN shares = DOMAIN r.shares
      BY <1>3, <2>1
    <2>3. ASSUME NEW s \in DOMAIN shares PROVE shares[s] = r.shares[s]
      <3>1. shares[s] \in Share /\ r.shares[s] \in Share
        BY <2>1, <2>2, TableType, RowsType
      <3>2. s \in DOMAIN r.shares /\ r.shares[s].slug \in DOMAIN d.shares
        BY <1>1, <2>2
      <3>3. /\ d.shares[r.shares[s].slug].path = r.shares[s].path
            /\ d.shares[r.shares[s].slug].enabled = r.shares[s].enabled
        BY <1>2, <3>2
      <3>4. /\ shares[s].slug = r.shares[s].slug
            /\ shares[s].path = r.shares[s].path /\ shares[s].enabled = r.shares[s].enabled
        BY <2>1, <3>2, <3>3
      <3> QED
        BY <3>1, <3>4, SameShare
    <2>4. shares = r.shares
      BY <2>1, <2>2, <2>3, RowsTables, SameTable
    <2> QED
      BY <1>6, <2>4 DEF shares
  <1>10. new.acl = r.acl
    <2>1. ASSUME NEW k \in DOMAIN new.acl
          PROVE  k \in DOMAIN r.acl /\ new.acl[k] = r.acl[k]
      <3>1. SUFFICES ASSUME k \in (DOMAIN r.shares) \X (DOMAIN r.users),
                            r.users[k[2]].name \in DOMAIN d.shares[r.shares[k[1]].slug].acl,
                            new.acl[k] = d.shares[r.shares[k[1]].slug].acl[r.users[k[2]].name]
                     PROVE  k \in DOMAIN r.acl /\ new.acl[k] = r.acl[k]
        BY <1>6, <1>8, <1>9
      <3>a. k \in (DOMAIN r.shares) \X (DOMAIN r.users)
        BY <3>1
      <3>2. PICK s \in DOMAIN r.shares, u \in DOMAIN r.users : k = <<s, u>>
        BY <3>a
      <3>3. r.users[u].name \in DOMAIN d.shares[r.shares[s].slug].acl
        BY <3>1, <3>2
      <3>4. <<s, u>> \in DOMAIN r.acl
        <4> DEFINE names == {r.users[v].name : v \in {w \in DOMAIN r.users : <<s, w>> \in DOMAIN r.acl}}
        <4>a. DOMAIN d.shares[r.shares[s].slug].acl = names
          BY <1>2
        <4>b. r.users[u].name \in names
          BY <3>3, <4>a
        <4>1. PICK v \in DOMAIN r.users : r.users[v].name = r.users[u].name /\ <<s, v>> \in DOMAIN r.acl
          BY <4>b
        <4>2. v = u
          BY <4>1 DEF Consistent
        <4> QED
          BY <4>1, <4>2
      <3>5. new.acl[k] = d.shares[r.shares[s].slug].acl[r.users[u].name]
        BY <3>1, <3>2
      <3> QED
        BY <1>2, <3>2, <3>4, <3>5
    <2>2. DOMAIN new.acl = DOMAIN r.acl
      BY <1>6, <2>1
    <2>3. new.acl \in Table(ShareID \X UserID, Permission) /\ r.acl \in Table(ShareID \X UserID, Permission)
      BY <1>6, RowsTables
    <2> QED
      BY <2>1, <2>2, <2>3, SameTable
  <1> QED
    BY <1>6, <1>7, <1>8, <1>9, <1>10, SameRows DEF d, none

---------------------------------------------------------------------------
(* Requests and their locals *)

\* An UpdateShare that has read its row.
Written == [op : {"UpdateShare"}, share : ShareID, row : Share]

Jobs == Request \cup Written \cup {Idle}

JobOK(c) ==
    /\ pc[c] # "idle" => job[c] \in Request \cup Written
    /\ pc[c] \in {"get", "list"} => job[c] \in Request
    /\ pc[c] = "list" => job[c].op = "SetPermission"
    /\ pc[c] = "write" => IF job[c].op = "UpdateShare" THEN job[c] \in Written ELSE job[c] \in Request

TypeInv ==
    /\ TypeOK
    /\ rows \in Rows
    /\ job \in [Callers -> Jobs]
    /\ \A c \in Callers : JobOK(c)

LEMMA NotIdle ==
    ASSUME NEW q \in Request \cup Written
    PROVE  q # Idle
  <1>1. q.op # "none"
    BY DEF Request, Written
  <1> QED
    BY <1>1 DEF Idle

LEMMA UserRequests ==
    ASSUME NEW q \in Request
    PROVE  /\ q.op = "CreateUser" => q.name \in Name /\ q.hash \in Hash
           /\ q.op = "SetEnabled" => q.enabled \in BOOLEAN
           /\ q.op = "ChangePassword" => q.hash \in Hash
  BY DEF Request

LEMMA ShareRequests ==
    ASSUME NEW q \in Request
    PROVE  /\ q.op = "CreateShare" => q.slug \in Slug /\ q.path \in Path
           /\ q.op = "UpdateShare" => q.share \in ShareID /\ q.patch \in Patch
           /\ q.op = "SetPermission" => q.permission \in Permission
  BY DEF Request

LEMMA OtherRequests ==
    ASSUME NEW q \in Request
    PROVE  /\ q.op = "UpdatePorts" => q.port \in Port
           /\ q.op = "UpdateTLS" => q.tls \in BOOLEAN
           /\ q.op = "Import" => q.doc \in Document
  BY DEF Request

LEMMA PatchedType ==
    ASSUME NEW row \in Share, NEW patch \in Patch
    PROVE  Patched(row, patch) \in Share
  <1>1. CASE patch \in [slug : Slug]
    BY <1>1 DEF Patched, Share
  <1>2. CASE patch \in [path : Path]
    BY <1>2 DEF Patched, Share
  <1>3. CASE patch \in [enabled : BOOLEAN]
    BY <1>3 DEF Patched, Share
  <1> QED
    BY <1>1, <1>2, <1>3 DEF Patch

---------------------------------------------------------------------------
(* Every transaction writes a database the schema admits *)

Commits(c) ==
    \E r \in Rows, label \in {"apply", "idle"} : Consistent(r) /\ Commit(c, r, label)

LEMMA UserCommits ==
    ASSUME TypeInv, NEW c \in Callers,
           CreateUser(c) \/ DeleteUser(c) \/ SetEnabled(c) \/ ChangePassword(c)
    PROVE  Commits(c)
  <1>1. rows \in Rows /\ Consistent(rows) /\ DOMAIN rows.users \subseteq used
    BY DEF TypeInv, TypeOK
  <1>2. CASE CreateUser(c)
    <2>1. PICK u \in UserID \ used :
             Commit(c, [rows EXCEPT !.users =
                           Put(@, u, [name |-> job[c].name, enabled |-> TRUE, hash |-> job[c].hash])], "apply")
      BY <1>2 DEF CreateUser
    <2> DEFINE row == [name |-> job[c].name, enabled |-> TRUE, hash |-> job[c].hash]
    <2>2. job[c] \in Request /\ job[c].op = "CreateUser"
      BY <1>2 DEF CreateUser, Writing, TypeInv, JobOK
    <2>3. row \in User /\ row.name = job[c].name
      BY <2>2, UserRequests DEF User
    <2>4. \A v \in DOMAIN rows.users : rows.users[v].name # row.name
      BY <1>1, <1>2, <2>3, NamedUser DEF CreateUser
    <2> HIDE DEF row
    <2>5. LET new == [rows EXCEPT !.users = Put(@, u, row)] IN new \in Rows /\ Consistent(new)
      BY <1>1, <2>3, <2>4, PutUser
    <2> QED
      BY <2>1, <2>5 DEF Commits, row
  <1>3. CASE DeleteUser(c)
    <2> DEFINE u == job[c].user
               new == [rows EXCEPT !.users = [v \in DOMAIN @ \ {u} |-> @[v]],
                                   !.acl = [k \in {k \in DOMAIN @ : k[2] # u} |-> @[k]]]
    <2>1. Commit(c, new, "apply")
      BY <1>3 DEF DeleteUser
    <2>2. new \in Rows /\ Consistent(new)
      BY <1>1, DropUser
    <2> HIDE DEF new
    <2> QED
      BY <2>1, <2>2 DEF Commits
  <1>4. ASSUME NEW u \in DOMAIN rows.users, NEW row \in User, row.name = rows.users[u].name,
               NEW new, new = [rows EXCEPT !.users[u] = row]
        PROVE  new \in Rows /\ Consistent(new)
    <2>1. u \in UserID /\ rows.users \in [DOMAIN rows.users -> User]
      BY <1>1, RowsType
    <2>2. Put(rows.users, u, row) = [rows.users EXCEPT ![u] = row]
      BY <2>1 DEF Put
    <2>3. new = [rows EXCEPT !.users = Put(@, u, row)]
      BY <1>4, <2>2
    <2>4. \A v \in DOMAIN rows.users : rows.users[v].name = row.name => v = u
      BY <1>1, <1>4 DEF Consistent
    <2> QED
      BY <1>1, <2>1, <2>3, <2>4, PutUser
  <1>5. CASE SetEnabled(c)
    <2> DEFINE u == job[c].user
               row == [rows.users[u] EXCEPT !.enabled = job[c].enabled]
               new == [rows EXCEPT !.users[u].enabled = job[c].enabled]
    <2>1. Commit(c, new, "apply") /\ u \in DOMAIN rows.users
      BY <1>5 DEF SetEnabled
    <2>2. job[c].enabled \in BOOLEAN
      BY <1>5, UserRequests DEF SetEnabled, Writing, TypeInv, JobOK
    <2>3. row \in User /\ row.name = rows.users[u].name
      BY <1>1, <2>1, <2>2, RowsType DEF User
    <2>4. new = [rows EXCEPT !.users[u] = row]
      OBVIOUS
    <2> HIDE DEF new, row
    <2>5. new \in Rows /\ Consistent(new)
      BY <1>4, <2>1, <2>3, <2>4
    <2> QED
      BY <2>1, <2>5 DEF Commits
  <1>6. CASE ChangePassword(c)
    <2> DEFINE u == job[c].user
               row == [rows.users[u] EXCEPT !.hash = job[c].hash]
               new == [rows EXCEPT !.users[u].hash = job[c].hash]
    <2>1. Commit(c, new, "apply") /\ u \in DOMAIN rows.users
      BY <1>6 DEF ChangePassword
    <2>2. job[c].hash \in Hash
      BY <1>6, UserRequests DEF ChangePassword, Writing, TypeInv, JobOK
    <2>3. row \in User /\ row.name = rows.users[u].name
      BY <1>1, <2>1, <2>2, RowsType DEF User
    <2>4. new = [rows EXCEPT !.users[u] = row]
      OBVIOUS
    <2> HIDE DEF new, row
    <2>5. new \in Rows /\ Consistent(new)
      BY <1>4, <2>1, <2>3, <2>4
    <2> QED
      BY <2>1, <2>5 DEF Commits
  <1> QED
    BY <1>2, <1>3, <1>5, <1>6

LEMMA ShareCommits ==
    ASSUME TypeInv, NEW c \in Callers, CreateShare(c) \/ UpdateShare(c) \/ DeleteShare(c)
    PROVE  Commits(c)
  <1>1. rows \in Rows /\ Consistent(rows) /\ DOMAIN rows.shares \subseteq used
    BY DEF TypeInv, TypeOK
  <1>2. CASE CreateShare(c)
    <2>1. PICK s \in ShareID \ used :
             Commit(c, [rows EXCEPT !.shares =
                           Put(@, s, [slug |-> job[c].slug, path |-> job[c].path, enabled |-> TRUE])], "apply")
      BY <1>2 DEF CreateShare
    <2> DEFINE row == [slug |-> job[c].slug, path |-> job[c].path, enabled |-> TRUE]
    <2>2. job[c] \in Request /\ job[c].op = "CreateShare"
      BY <1>2 DEF CreateShare, Writing, TypeInv, JobOK
    <2>3. row \in Share /\ row.slug = job[c].slug
      BY <2>2, ShareRequests DEF Share
    <2>4. \A t \in DOMAIN rows.shares : rows.shares[t].slug # row.slug
      BY <1>1, <1>2, <2>3, ShareWithSlug DEF CreateShare
    <2> HIDE DEF row
    <2>5. LET new == [rows EXCEPT !.shares = Put(@, s, row)] IN new \in Rows /\ Consistent(new)
      BY <1>1, <2>3, <2>4, PutShare
    <2> QED
      BY <2>1, <2>5 DEF Commits, row
  <1>3. CASE UpdateShare(c)
    <2> DEFINE s == job[c].share
               row == job[c].row
               new == [rows EXCEPT !.shares[s] = row]
    <2>1. /\ Commit(c, new, "apply") /\ s \in DOMAIN rows.shares
          /\ ShareAt(rows, row.slug) \in {NoSection, s}
      BY <1>3 DEF UpdateShare
    <2>2. job[c] \in Written
      BY <1>3 DEF UpdateShare, Writing, TypeInv, JobOK
    <2>3. row \in Share
      BY <2>2 DEF Written
    <2> HIDE DEF s, row
    <2>4. \A t \in DOMAIN rows.shares : rows.shares[t].slug = row.slug => t = s
      BY <1>1, <2>1, ShareWithSlug
    <2>5. s \in ShareID /\ rows.shares \in [DOMAIN rows.shares -> Share]
      BY <1>1, <2>1, RowsType
    <2>6. Put(rows.shares, s, row) = [rows.shares EXCEPT ![s] = row]
      BY <2>1, <2>5 DEF Put
    <2>7. new = [rows EXCEPT !.shares = Put(@, s, row)]
      BY <2>6
    <2> HIDE DEF new
    <2>8. new \in Rows /\ Consistent(new)
      BY <1>1, <2>3, <2>4, <2>5, <2>7, PutShare
    <2> QED
      BY <2>1, <2>8 DEF Commits
  <1>4. CASE DeleteShare(c)
    <2> DEFINE s == job[c].share
               new == [rows EXCEPT !.shares = [t \in DOMAIN @ \ {s} |-> @[t]],
                                   !.acl = [k \in {k \in DOMAIN @ : k[1] # s} |-> @[k]]]
    <2>1. Commit(c, new, "apply")
      BY <1>4 DEF DeleteShare
    <2>2. new \in Rows /\ Consistent(new)
      BY <1>1, DropShare
    <2> HIDE DEF new
    <2> QED
      BY <2>1, <2>2 DEF Commits
  <1> QED
    BY <1>2, <1>3, <1>4

LEMMA SettingCommits ==
    ASSUME TypeInv, NEW c \in Callers, SetPermission(c) \/ UpdatePorts(c) \/ UpdateTLS(c)
    PROVE  Commits(c)
  <1>1. rows \in Rows /\ Consistent(rows)
    BY DEF TypeInv, TypeOK
  <1>2. CASE SetPermission(c) /\ job[c].permission = "NONE"
    <2> DEFINE key == <<job[c].share, job[c].user>>
               new == [rows EXCEPT !.acl = [k \in DOMAIN @ \ {key} |-> @[k]]]
    <2>1. Commit(c, new, "apply")
      BY <1>2 DEF SetPermission
    <2> HIDE DEF key
    <2>2. new \in Rows /\ Consistent(new)
      BY <1>1, DropPermission
    <2> HIDE DEF new
    <2> QED
      BY <2>1, <2>2 DEF Commits
  <1>3. CASE SetPermission(c) /\ job[c].permission # "NONE"
    <2> DEFINE new == [rows EXCEPT !.acl = Put(@, <<job[c].share, job[c].user>>, job[c].permission)]
    <2>1. /\ Commit(c, new, "apply")
          /\ job[c].share \in DOMAIN rows.shares /\ job[c].user \in DOMAIN rows.users
      BY <1>3 DEF SetPermission
    <2>2. job[c] \in Request /\ job[c].op = "SetPermission"
      BY <1>3 DEF SetPermission, Writing, TypeInv, JobOK
    <2>3. job[c].permission \in Permission
      BY <2>2, ShareRequests
    <2>4. new \in Rows /\ Consistent(new)
      BY <1>1, <2>1, <2>3, PutPermission
    <2> HIDE DEF new
    <2> QED
      BY <2>1, <2>4 DEF Commits
  <1>4. CASE UpdatePorts(c)
    <2> DEFINE new == [rows EXCEPT !.port = job[c].port]
    <2>1. Commit(c, new, "apply")
      BY <1>4 DEF UpdatePorts
    <2>2. job[c] \in Request /\ job[c].op = "UpdatePorts"
      BY <1>4 DEF UpdatePorts, Writing, TypeInv, JobOK
    <2>3. job[c].port \in Port
      BY <2>2, OtherRequests
    <2>4. new \in Rows /\ new.users = rows.users /\ new.shares = rows.shares /\ new.acl = rows.acl
      BY <1>1, <2>3 DEF Rows
    <2> HIDE DEF new
    <2>5. Consistent(new)
      BY <1>1, <2>4 DEF Consistent
    <2> QED
      BY <2>1, <2>4, <2>5 DEF Commits
  <1>5. CASE UpdateTLS(c)
    <2> DEFINE new == [rows EXCEPT !.tls = job[c].tls]
    <2>1. Commit(c, new, "idle")
      BY <1>5 DEF UpdateTLS
    <2>2. job[c] \in Request /\ job[c].op = "UpdateTLS"
      BY <1>5 DEF UpdateTLS, Writing, TypeInv, JobOK
    <2>3. job[c].tls \in BOOLEAN
      BY <2>2, OtherRequests
    <2>4. new \in Rows /\ new.users = rows.users /\ new.shares = rows.shares /\ new.acl = rows.acl
      BY <1>1, <2>3 DEF Rows
    <2> HIDE DEF new
    <2>5. Consistent(new)
      BY <1>1, <2>4 DEF Consistent
    <2> QED
      BY <2>1, <2>4, <2>5 DEF Commits
  <1> QED
    BY <1>2, <1>3, <1>4, <1>5

\* An import commits what Import makes of the rows, with ids never given before.
LEMMA ImportCommits ==
    ASSUME TypeInv, NEW c \in Callers, ImportFile(c)
    PROVE  /\ job[c].doc \in Document
           /\ \E uid, sid : Imported(rows, job[c].doc, uid, sid, rows') /\ FreshIds(rows, job[c].doc, uid, sid)
           /\ Commits(c)
  <1> DEFINE d == job[c].doc
  <1>1. /\ rows \in Rows /\ Consistent(rows)
        /\ DOMAIN rows.users \subseteq used /\ DOMAIN rows.shares \subseteq used
    BY DEF TypeInv, TypeOK
  <1>2. job[c] \in Request /\ job[c].op = "Import"
    BY DEF ImportFile, Writing, TypeInv, JobOK
  <1>3. d \in Document
    BY <1>2, OtherRequests
  <1>4. PICK uid \in [NewNames(rows, d) -> UserID \ used], sid \in [NewSlugs(rows, d) -> ShareID \ used] :
           /\ \A m, n \in DOMAIN uid : uid[m] = uid[n] => m = n
           /\ \A g, h \in DOMAIN sid : sid[g] = sid[h] => g = h
           /\ Commit(c, Import(rows, d, uid, sid), "idle")
    BY DEF ImportFile
  <1>5. FreshIds(rows, d, uid, sid)
    BY <1>1, <1>4 DEF FreshIds
  <1>6. Importable(rows, d)
    BY DEF ImportFile
  <1> DEFINE new == Import(rows, d, uid, sid)
  <1> HIDE DEF d
  <1>7. Imported(rows, d, uid, sid, new)
    BY <1>1, <1>3, <1>5, <1>6, ImportedRows
  <1>8. rows' = new /\ Commit(c, new, "idle")
    BY <1>4 DEF Commit
  <1> HIDE DEF new
  <1>9. Commits(c)
    BY <1>7, <1>8 DEF Imported, Commits
  <1> QED
    BY <1>3, <1>5, <1>7, <1>8, <1>9 DEF d

---------------------------------------------------------------------------
(* The type invariant *)

\* At most one request holds the lock.
Exclusive == \A c, d \in Callers : pc[c] \in Holding => busy /\ (pc[d] \in Holding => c = d)

LEMMA TypeParts ==
    TypeInv <=>
        /\ rows \in Rows /\ Consistent(rows)
        /\ DOMAIN rows.users \cup DOMAIN rows.shares \subseteq used
        /\ pc \in [Callers -> Labels] /\ job \in [Callers -> Jobs]
        /\ \A c \in Callers : (pc[c] = "idle" <=> job[c] = Idle) /\ JobOK(c)
        /\ Exclusive
        /\ promise \in [Callers -> SUBSET Probe] /\ settled \subseteq Probe
        /\ left \in 0..MaxRequests
  BY DEF TypeInv, TypeOK, Exclusive

\* A request goes on, with the rows as they are.
LEMMA GoesOn ==
    ASSUME TypeInv, NEW c \in Callers, NEW label \in Labels \ {"idle"}, NEW q \in Request \cup Written,
           pc' = [pc EXCEPT ![c] = label], job' = [job EXCEPT ![c] = q],
           rows' = rows, used' = used,
           promise' \in [Callers -> SUBSET Probe], settled' \subseteq Probe, left' \in 0..MaxRequests,
           label \in {"get", "list"} => q \in Request,
           label = "list" => q.op = "SetPermission",
           label = "write" => IF q.op = "UpdateShare" THEN q \in Written ELSE q \in Request,
           Exclusive'
    PROVE  TypeInv'
  <1>1. pc' \in [Callers -> Labels] /\ job' \in [Callers -> Jobs]
    BY TypeParts DEF Jobs
  <1>2. pc'[c] = label /\ job'[c] = q /\ \A d \in Callers \ {c} : pc'[d] = pc[d] /\ job'[d] = job[d]
    BY TypeParts
  <1>3. ASSUME NEW d \in Callers
        PROVE  (pc'[d] = "idle" <=> job'[d] = Idle) /\ JobOK(d)'
    <2>1. CASE d = c
      BY <1>2, <2>1, NotIdle DEF JobOK
    <2>2. CASE d # c
      BY <1>2, <2>2, TypeParts DEF JobOK
    <2> QED
      BY <2>1, <2>2
  <1>4. rows' \in Rows /\ Consistent(rows)' /\ DOMAIN rows'.users \cup DOMAIN rows'.shares \subseteq used'
    BY TypeParts DEF Consistent
  <1> QED
    BY <1>1, <1>3, <1>4, TypeParts DEF TypeInv, TypeOK, Exclusive

\* A request is answered.
LEMMA Answers ==
    ASSUME TypeInv, NEW c \in Callers, Return(c), rows' = rows, used' = used, left' = left,
           settled' \subseteq Probe, Exclusive'
    PROVE  TypeInv'
  <1>1. pc' \in [Callers -> Labels] /\ job' \in [Callers -> Jobs] /\ promise' \in [Callers -> SUBSET Probe]
    BY TypeParts DEF Jobs, Labels, Return
  <1>2. pc'[c] = "idle" /\ job'[c] = Idle /\ \A d \in Callers \ {c} : pc'[d] = pc[d] /\ job'[d] = job[d]
    BY TypeParts DEF Return
  <1>3. ASSUME NEW d \in Callers
        PROVE  (pc'[d] = "idle" <=> job'[d] = Idle) /\ JobOK(d)'
    <2>1. CASE d = c
      BY <1>2, <2>1 DEF JobOK
    <2>2. CASE d # c
      BY <1>2, <2>2, TypeParts DEF JobOK
    <2> QED
      BY <2>1, <2>2
  <1>4. rows' \in Rows /\ Consistent(rows)' /\ DOMAIN rows'.users \cup DOMAIN rows'.shares \subseteq used'
    BY TypeParts DEF Consistent
  <1>5. left' \in 0..MaxRequests
    BY TypeParts
  <1> QED
    BY <1>1, <1>3, <1>4, <1>5, TypeParts DEF TypeInv, TypeOK, Exclusive

\* A step of a request that neither takes nor gives back the lock.
LEMMA StillExclusive ==
    ASSUME TypeInv, NEW c \in Callers, NEW label, pc' = [pc EXCEPT ![c] = label], busy' = busy,
           label \in Holding => pc[c] \in Holding
    PROVE  Exclusive'
  <1>1. \A d \in Callers : pc'[d] = IF d = c THEN label ELSE pc[d]
    BY TypeParts
  <1> QED
    BY <1>1, TypeParts DEF Exclusive

\* A request that ends while it holds the lock was the only one.
LEMMA OthersOutside ==
    ASSUME TypeInv, NEW c \in Callers, pc[c] \in Holding, NEW label, label \notin Holding,
           pc' = [pc EXCEPT ![c] = label]
    PROVE  Exclusive'
  <1>1. \A d \in Callers : pc'[d] \notin Holding
    BY TypeParts DEF Exclusive
  <1> QED
    BY <1>1 DEF Exclusive

LEMMA CommitType ==
    ASSUME TypeInv, NEW c \in Callers, pc[c] = "write", Commits(c)
    PROVE  TypeInv'
  <1>1. PICK r \in Rows, label \in {"apply", "idle"} : Consistent(r) /\ Commit(c, r, label)
    BY DEF Commits
  <1>2. /\ rows' = r /\ busy' = busy /\ left' = left
        /\ used' = used \cup DOMAIN r.users \cup DOMAIN r.shares
        /\ pc' = [pc EXCEPT ![c] = label]
        /\ job' = IF label = "idle" THEN [job EXCEPT ![c] = Idle] ELSE job
        /\ settled' \subseteq Probe
    BY <1>1, TypeParts DEF Commit, pipeline
  <1>3. promise' \in [Callers -> SUBSET Probe]
    <2> DEFINE moved == {p \in Probe : Owes(rows, p) # Owes(r, p)}
    <2>1. promise' = [d \in Callers |->
              IF d # c THEN promise[d] \ moved ELSE IF label = "idle" THEN {} ELSE Probe]
      BY <1>1 DEF Commit
    <2> HIDE DEF moved
    <2> QED
      BY <2>1, TypeParts
  <1>4. pc' \in [Callers -> Labels] /\ job' \in [Callers -> Jobs]
    BY <1>2, TypeParts DEF Jobs, Labels
  <1>5. ASSUME NEW d \in Callers
        PROVE  (pc'[d] = "idle" <=> job'[d] = Idle) /\ JobOK(d)'
    <2>1. CASE d = c
      BY <1>2, <2>1, TypeParts DEF JobOK
    <2>2. CASE d # c
      <3>1. pc'[d] = pc[d] /\ job'[d] = job[d]
        BY <1>2, <2>2, TypeParts
      <3> QED
        BY <3>1, TypeParts DEF JobOK
    <2> QED
      BY <2>1, <2>2
  <1>6. rows' \in Rows /\ Consistent(rows)' /\ DOMAIN rows'.users \cup DOMAIN rows'.shares \subseteq used'
    BY <1>1, <1>2 DEF Consistent
  <1>7. Exclusive'
    BY <1>2, StillExclusive DEF Holding
  <1>8. left' \in 0..MaxRequests
    BY <1>2, TypeParts
  <1> QED
    BY <1>2, <1>3, <1>4, <1>5, <1>6, <1>7, <1>8, TypeParts DEF TypeInv, TypeOK, Exclusive

LEMMA SendType ==
    ASSUME TypeInv, NEW c \in Callers, NEW q \in Requests, Send(c, q)
    PROVE  TypeInv'
  <1>1. q \in Request
    BY AccessAssumption
  <1>2. /\ pc' = [pc EXCEPT ![c] = First(q.op)] /\ job' = [job EXCEPT ![c] = q]
        /\ rows' = rows /\ used' = used /\ settled' = settled /\ busy' = busy
    BY DEF Send, pipeline
  <1>3. /\ First(q.op) \in {"get", "write", "apply"}
        /\ First(q.op) = "write" => q.op # "UpdateShare"
    BY DEF First
  <1>4. left' \in 0..MaxRequests
    <2>1. left \in 0..MaxRequests /\ MaxRequests \in Nat /\ left > 0 /\ left' = left - 1
      BY AccessAssumption, TypeParts DEF Send
    <2> QED
      BY <2>1
  <1>5. promise' \in [Callers -> SUBSET Probe]
    BY TypeParts DEF Send
  <1>6. Exclusive'
    BY <1>2, <1>3, StillExclusive DEF Holding
  <1>7. settled' \subseteq Probe
    BY <1>2, TypeParts
  <1> QED
    BY <1>1, <1>2, <1>3, <1>4, <1>5, <1>6, <1>7, GoesOn DEF Labels

\* The calls that only read.
LEMMA ReadType ==
    ASSUME TypeInv, NEW c \in Callers,
           GetUser(c) \/ GetShare(c) \/ GetBoth(c) \/ ListByShare(c) \/ NoOp(c)
    PROVE  TypeInv'
  <1>1. /\ pc[c] \in {"get", "list"} /\ rows' = rows /\ used' = used /\ busy' = busy
        /\ promise' = promise /\ settled' = settled /\ left' = left
    BY DEF GetUser, GetShare, GetBoth, ListByShare, NoOp, Goto, pipeline, history
  <1>2. /\ promise' \in [Callers -> SUBSET Probe] /\ settled' \subseteq Probe /\ left' \in 0..MaxRequests
    BY <1>1, TypeParts
  <1>3. job[c] \in Request /\ job[c] \in Request \cup Written
    BY <1>1, TypeParts DEF JobOK
  <1>4. ASSUME NEW label \in {"list", "write", "repeated"}, Goto(c, label),
               label = "list" => job[c].op = "SetPermission",
               label = "write" => job[c].op # "UpdateShare"
        PROVE  TypeInv'
    <2>1. pc' = [pc EXCEPT ![c] = label] /\ job' = [job EXCEPT ![c] = job[c]]
      BY <1>4, TypeParts DEF Goto
    <2>2. Exclusive'
      BY <1>1, <2>1, StillExclusive DEF Holding
    <2> QED
      BY <1>1, <1>2, <1>3, <1>4, <2>1, <2>2, GoesOn DEF Labels
  <1>5. CASE GetUser(c)
    BY <1>4, <1>5 DEF GetUser
  <1>6. CASE GetBoth(c)
    BY <1>4, <1>6 DEF GetBoth
  <1>7. CASE ListByShare(c)
    <2>1. job[c].op = "SetPermission"
      BY <1>7, TypeParts DEF ListByShare, JobOK
    <2> QED
      BY <1>4, <1>7, <2>1 DEF ListByShare
  <1>8. CASE NoOp(c)
    BY <1>4, <1>8 DEF NoOp
  <1>9. CASE GetShare(c)
    <2> DEFINE row == Patched(rows.shares[job[c].share], job[c].patch)
               q == [op |-> "UpdateShare", share |-> job[c].share, row |-> row]
    <2>1. /\ pc' = [pc EXCEPT ![c] = "write"] /\ job' = [job EXCEPT ![c] = q]
          /\ job[c].op = "UpdateShare" /\ job[c].share \in DOMAIN rows.shares
      BY <1>9 DEF GetShare
    <2>2. job[c].share \in ShareID /\ job[c].patch \in Patch
      BY <1>3, <2>1, ShareRequests
    <2>3. rows.shares[job[c].share] \in Share
      BY <2>1, TypeParts, RowsType
    <2>4. row \in Share
      BY <2>2, <2>3, PatchedType
    <2> HIDE DEF row
    <2>5. q \in Written /\ q.op = "UpdateShare"
      BY <2>2, <2>4 DEF Written
    <2> HIDE DEF q
    <2>6. Exclusive'
      BY <1>1, <2>1, StillExclusive DEF Holding
    <2> QED
      BY <1>1, <1>2, <2>1, <2>5, <2>6, GoesOn DEF Labels
  <1> QED
    BY <1>5, <1>6, <1>7, <1>8, <1>9

\* The answers, and the end of davd.
LEMMA ReturnType ==
    ASSUME TypeInv, NEW c \in Callers, Fail(c) \/ Reread(c) \/ ApplyEnds(c)
    PROVE  TypeInv'
  <1>1. Return(c) /\ rows' = rows /\ used' = used /\ left' = left
    BY DEF Fail, Reread, ApplyEnds, Refused, Succeeded, Contract!GiveUp
  <1>2. settled' \subseteq Probe
    BY TypeParts DEF Fail, Reread, ApplyEnds, Refused, Succeeded
  <1>3. pc' = [pc EXCEPT ![c] = "idle"]
    BY <1>1 DEF Return
  <1>4. CASE ApplyEnds(c)
    <2>1. pc[c] \in Holding
      BY <1>4 DEF ApplyEnds, Holding
    <2>2. Exclusive'
      BY <1>3, <2>1, OthersOutside DEF Holding
    <2> QED
      BY <1>1, <1>2, <2>2, Answers
  <1>5. CASE Fail(c) \/ Reread(c)
    <2>1. busy' = busy
      BY <1>5 DEF Fail, Reread, pipeline
    <2>2. Exclusive'
      BY <1>3, <2>1, StillExclusive DEF Holding
    <2> QED
      BY <1>1, <1>2, <2>2, Answers
  <1> QED
    BY <1>4, <1>5

\* The steps of the apply that ends a request.
LEMMA ApplyType ==
    ASSUME TypeInv, NEW c \in Callers,
           BeginApply(c) \/ TakeSnapshot(c) \/ StoreRevision(c) \/ Activate(c) \/ ApplySucceeds(c)
    PROVE  TypeInv'
  <1>1. rows' = rows /\ used' = used /\ left' = left
    BY DEF BeginApply, TakeSnapshot, StoreRevision, Activate, ApplySucceeds,
           Contract!Begin, Contract!Snapshot, Contract!Store, Contract!Work
  <1>2. job[c] \in Request \cup Written /\ pc[c] # "idle"
    BY TypeParts DEF BeginApply, TakeSnapshot, StoreRevision, Activate, ApplySucceeds, JobOK
  <1>3. ASSUME NEW label \in Labels \ {"idle", "get", "list", "write"}, Goto(c, label), Exclusive'
        PROVE  TypeInv'
    <2>1. pc' = [pc EXCEPT ![c] = label] /\ job' = [job EXCEPT ![c] = job[c]]
      BY <1>3, TypeParts DEF Goto
    <2>2. promise' \in [Callers -> SUBSET Probe] /\ settled' \subseteq Probe /\ left' \in 0..MaxRequests
      BY <1>1, <1>3, TypeParts DEF Goto, history
    <2> QED
      BY <1>1, <1>2, <1>3, <2>1, <2>2, GoesOn
  <1>4. CASE BeginApply(c)
    <2> DEFINE label == IF job[c].op = "Restart" THEN "work" ELSE "begun"
    <2>1. ~busy /\ busy' /\ pc' = [pc EXCEPT ![c] = label] /\ Goto(c, label)
      BY <1>4 DEF BeginApply, Contract!Begin, Goto
    <2>2. label \in Labels \ {"idle", "get", "list", "write"}
      BY DEF Labels
    <2>3. Exclusive'
      <3>1. \A d \in Callers : d # c => pc'[d] \notin Holding
        BY <2>1, TypeParts DEF Exclusive
      <3> QED
        BY <2>1, <3>1 DEF Exclusive
    <2> QED
      BY <1>3, <2>1, <2>2, <2>3
  <1>5. CASE TakeSnapshot(c) \/ StoreRevision(c) \/ Activate(c)
    <2>1. PICK label \in {"store", "work", "end"} : Goto(c, label)
      BY <1>5 DEF TakeSnapshot, StoreRevision, Activate
    <2>2. pc[c] \in Holding /\ busy' = busy
      BY <1>5 DEF TakeSnapshot, StoreRevision, Activate, Holding,
                  Contract!Snapshot, Contract!Store, Contract!Work
    <2>3. Exclusive'
      BY <2>1, <2>2, StillExclusive DEF Goto
    <2> QED
      BY <1>3, <2>1, <2>3 DEF Labels
  <1>6. CASE ApplySucceeds(c)
    <2>1. pc[c] \in Holding
      BY <1>6 DEF ApplySucceeds, Holding
    <2>2. CASE Goto(c, "reread")
      <3>1. Exclusive'
        BY <2>1, <2>2, OthersOutside DEF Goto, Holding
      <3> QED
        BY <1>3, <2>2, <3>1 DEF Labels
    <2>3. CASE Succeeded(c)
      <3>1. Return(c) /\ settled' \subseteq Probe
        BY <2>3, TypeParts DEF Succeeded
      <3>2. Exclusive'
        BY <2>1, <3>1, OthersOutside DEF Return, Holding
      <3> QED
        BY <1>1, <3>1, <3>2, Answers
    <2> QED
      BY <1>6, <2>2, <2>3 DEF ApplySucceeds
  <1> QED
    BY <1>4, <1>5, <1>6

LEMMA TypeStep ==
    ASSUME TypeInv, [Next]_vars
    PROVE  TypeInv'
  <1>1. ASSUME NEW c \in Callers, Step(c)
        PROVE  TypeInv'
    <2>1. ASSUME \/ CreateUser(c) \/ DeleteUser(c) \/ SetEnabled(c) \/ ChangePassword(c)
                 \/ CreateShare(c) \/ UpdateShare(c) \/ DeleteShare(c)
                 \/ SetPermission(c) \/ UpdatePorts(c) \/ UpdateTLS(c) \/ ImportFile(c)
          PROVE  TypeInv'
      <3>1. Commits(c)
        BY <2>1, UserCommits, ShareCommits, SettingCommits, ImportCommits
      <3>2. pc[c] = "write"
        BY <2>1 DEF CreateUser, DeleteUser, SetEnabled, ChangePassword, CreateShare, UpdateShare,
                    DeleteShare, SetPermission, UpdatePorts, UpdateTLS, ImportFile, Writing
      <3> QED
        BY <3>1, <3>2, CommitType
    <2> QED
      BY <1>1, <2>1, ReadType, ReturnType, ApplyType DEF Step
  <1>2. CASE CaddyExits
    BY <1>2, TypeParts DEF CaddyExits, Contract!Exit, history, TypeInv, TypeOK, JobOK, Consistent
  <1>3. CASE DaemonCrash
    <2>1. rows' = rows /\ used' = used /\ settled' = settled /\ left' = left
      BY <1>3 DEF DaemonCrash, Contract!Crash
    <2>2. /\ pc' \in [Callers -> Labels] /\ job' \in [Callers -> Jobs] /\ promise' \in [Callers -> SUBSET Probe]
          /\ \A c \in Callers : pc'[c] = "idle" /\ job'[c] = Idle
      BY <1>3 DEF DaemonCrash, Labels, Jobs
    <2>3. Exclusive' /\ \A c \in Callers : JobOK(c)'
      BY <2>2 DEF Exclusive, JobOK, Holding
    <2>4. rows' \in Rows /\ Consistent(rows)' /\ DOMAIN rows'.users \cup DOMAIN rows'.shares \subseteq used'
      BY <2>1, TypeParts DEF Consistent
    <2>5. settled' \subseteq Probe /\ left' \in 0..MaxRequests
      BY <2>1, TypeParts
    <2> QED
      BY <2>2, <2>3, <2>4, <2>5 DEF TypeInv, TypeOK, Exclusive
  <1>4. CASE UNCHANGED vars
    BY <1>4 DEF vars, pipeline, history, TypeInv, TypeOK, JobOK, Consistent
  <1> QED
    BY <1>1, <1>2, <1>3, <1>4, SendType DEF Next

LEMMA TypeInit ==
    ASSUME Init
    PROVE  TypeInv
  <1>1. rows \in Rows /\ Consistent(rows) /\ DOMAIN rows.users \cup DOMAIN rows.shares \subseteq used
    BY AccessAssumption DEF Init
  <1>2. /\ pc \in [Callers -> Labels] /\ job \in [Callers -> Jobs] /\ promise \in [Callers -> SUBSET Probe]
        /\ \A c \in Callers : pc[c] = "idle" /\ job[c] = Idle
    BY DEF Init, Labels, Jobs
  <1>3. Exclusive /\ \A c \in Callers : JobOK(c)
    BY <1>2 DEF Exclusive, JobOK, Holding
  <1>4. settled \subseteq Probe /\ left \in 0..MaxRequests
    BY DEF Init
  <1> QED
    BY <1>1, <1>2, <1>3, <1>4, TypeParts

LEMMA TypeAlways == Spec => []TypeInv
  BY TypeInit, TypeStep, PTL DEF Spec

\* Whatever the requests interleave with, the rows keep the guarantees of the
\* schema, no id is given twice, a request that ended has no locals, and at most
\* one request holds the lock of the pipeline.
THEOREM TypeCorrect == Spec => []TypeOK
  <1>1. TypeInv => TypeOK
    BY DEF TypeInv
  <1> QED
    BY <1>1, TypeAlways, PTL

---------------------------------------------------------------------------
(* A successful answer means that the change is served *)

\* A document agrees with the rows on a probe.
Serves(r, doc, p) == doc # NoConfig => Gives(doc, p) = Owes(r, p)

\* Probes whose request was answered with success, or whose apply succeeded and
\* whose answer waits for the reread; probes of a request whose apply has chosen
\* its document.
Claimed(p) == p \in settled \/ \E c \in Callers : pc[c] = "reread" /\ p \in promise[c]
Chosen(p) == \E c \in Callers : pc[c] \in {"store", "work", "end"} /\ p \in promise[c]

\* What has been claimed is served by every document that Caddy may be given: the
\* one it runs, the active one that a restart would load, and the one that the
\* operation under way has chosen.  The latter also serves what its own request
\* promises.
FreshInv ==
    /\ ~busy => target = NoConfig
    /\ \A p \in Probe : Claimed(p) =>
          /\ Serves(rows, goal, p)
          /\ Serves(rows, target, p)
          /\ ~broken => Serves(rows, runs, p)
    /\ \A p \in Probe : Chosen(p) => Serves(rows, target, p)
    /\ \A c \in Callers : pc[c] \in {"get", "list", "repeated"} => promise[c] = {}

\* A step outside the pipeline that claims nothing new and moves nothing claimed.
LEMMA FreshOutside ==
    ASSUME FreshInv, UNCHANGED pipeline,
           \A p \in Probe : Claimed(p)' => Claimed(p) /\ Owes(rows, p)' = Owes(rows, p),
           \A p \in Probe : Chosen(p)' => Chosen(p) /\ Owes(rows, p)' = Owes(rows, p),
           \A c \in Callers : pc'[c] \in {"get", "list", "repeated"} => promise'[c] = {}
    PROVE  FreshInv'
  <1>1. busy' = busy /\ target' = target /\ goal' = goal /\ runs' = runs /\ broken' = broken
    BY DEF pipeline
  <1>2. ASSUME NEW p \in Probe, Owes(rows, p)' = Owes(rows, p), NEW doc, Serves(rows, doc, p)
        PROVE  Serves(rows', doc, p)
    BY <1>2 DEF Serves
  <1>3. \A p \in Probe : Claimed(p)' =>
           Serves(rows', goal, p) /\ Serves(rows', target, p) /\ (~broken => Serves(rows', runs, p))
    BY <1>2 DEF FreshInv
  <1>4. \A p \in Probe : Chosen(p)' => Serves(rows', target, p)
    BY <1>2 DEF FreshInv
  <1>5. ~busy => target = NoConfig
    BY DEF FreshInv
  <1> QED
    BY <1>1, <1>3, <1>4, <1>5 DEF FreshInv

\* A commit takes back every promise that it moves.
LEMMA FreshCommit ==
    ASSUME TypeInv, FreshInv, NEW c \in Callers, pc[c] = "write", Commits(c)
    PROVE  FreshInv'
  <1>1. PICK r \in Rows, label \in {"apply", "idle"} : Commit(c, r, label)
    BY DEF Commits
  <1> DEFINE moved == {p \in Probe : Owes(rows, p) # Owes(r, p)}
  <1>2. /\ rows' = r /\ UNCHANGED pipeline /\ settled' = settled \ moved
        /\ pc' = [pc EXCEPT ![c] = label]
        /\ promise' = [d \in Callers |->
              IF d # c THEN promise[d] \ moved ELSE IF label = "idle" THEN {} ELSE Probe]
    BY <1>1 DEF Commit
  <1>3. \A p \in Probe : p \notin moved => Owes(rows, p)' = Owes(rows, p)
    BY <1>2
  <1> HIDE DEF moved
  <1>4. /\ pc'[c] \in {"apply", "idle"}
        /\ \A d \in Callers : d # c => pc'[d] = pc[d] /\ promise'[d] = promise[d] \ moved
    BY <1>2, TypeParts
  <1>5. \A p : Claimed(p)' => Claimed(p) /\ p \notin moved
    BY <1>2, <1>4 DEF Claimed
  <1>6. \A p : Chosen(p)' => Chosen(p) /\ p \notin moved
    BY <1>4 DEF Chosen
  <1>7. \A d \in Callers : pc'[d] \in {"get", "list", "repeated"} => promise'[d] = {}
    BY <1>4 DEF FreshInv
  <1> QED
    BY <1>2, <1>3, <1>5, <1>6, <1>7, FreshOutside

LEMMA FreshSend ==
    ASSUME TypeInv, FreshInv, NEW c \in Callers, NEW q \in Requests, Send(c, q)
    PROVE  FreshInv'
  <1>1. /\ UNCHANGED pipeline /\ rows' = rows /\ settled' = settled
        /\ pc' = [pc EXCEPT ![c] = First(q.op)]
        /\ promise' = [promise EXCEPT ![c] = IF q.op = "Apply" THEN Probe ELSE {}]
    BY DEF Send
  <1>2. /\ First(q.op) \in {"get", "write", "apply"}
        /\ First(q.op) = "get" => q.op # "Apply"
    BY DEF First
  <1>3. /\ pc'[c] = First(q.op) /\ (q.op # "Apply" => promise'[c] = {})
        /\ \A d \in Callers : d # c => pc'[d] = pc[d] /\ promise'[d] = promise[d]
    BY <1>1, TypeParts
  <1>4. \A p : (Claimed(p)' => Claimed(p)) /\ (Chosen(p)' => Chosen(p))
    BY <1>1, <1>2, <1>3 DEF Claimed, Chosen
  <1>5. \A d \in Callers : pc'[d] \in {"get", "list", "repeated"} => promise'[d] = {}
    BY <1>2, <1>3 DEF FreshInv
  <1> QED
    BY <1>1, <1>4, <1>5, FreshOutside

LEMMA FreshRead ==
    ASSUME TypeInv, FreshInv, NEW c \in Callers,
           GetUser(c) \/ GetShare(c) \/ GetBoth(c) \/ ListByShare(c) \/ NoOp(c)
    PROVE  FreshInv'
  <1>1. /\ UNCHANGED pipeline /\ rows' = rows /\ settled' = settled /\ promise' = promise
        /\ pc[c] \in {"get", "list"}
        /\ \E label \in {"list", "write", "repeated"} : pc' = [pc EXCEPT ![c] = label]
    BY DEF GetUser, GetShare, GetBoth, ListByShare, NoOp, Goto, history
  <1>2. pc'[c] \in {"list", "write", "repeated"} /\ \A d \in Callers : d # c => pc'[d] = pc[d]
    BY <1>1, TypeParts
  <1>3. \A p : (Claimed(p)' => Claimed(p)) /\ (Chosen(p)' => Chosen(p))
    BY <1>1, <1>2 DEF Claimed, Chosen
  <1>4. \A d \in Callers : pc'[d] \in {"get", "list", "repeated"} => promise'[d] = {}
    BY <1>1, <1>2 DEF FreshInv
  <1> QED
    BY <1>1, <1>3, <1>4, FreshOutside

\* After Return, the others are as they were.
LEMMA Returned ==
    ASSUME TypeInv, NEW c \in Callers, Return(c)
    PROVE  /\ pc'[c] = "idle" /\ promise'[c] = {}
           /\ \A d \in Callers : d # c => pc'[d] = pc[d] /\ promise'[d] = promise[d]
  BY TypeParts DEF Return

LEMMA FreshAnswer ==
    ASSUME TypeInv, FreshInv, NEW c \in Callers, Fail(c) \/ Reread(c)
    PROVE  FreshInv'
  <1>1. /\ UNCHANGED pipeline /\ rows' = rows /\ Return(c)
        /\ \/ settled' = settled
           \/ pc[c] \in {"reread", "repeated"} /\ settled' = settled \cup promise[c]
    BY DEF Fail, Reread, Refused, Succeeded
  <1>2. /\ pc'[c] = "idle" /\ promise'[c] = {}
        /\ \A d \in Callers : d # c => pc'[d] = pc[d] /\ promise'[d] = promise[d]
    BY <1>1, Returned
  <1>3. \A p : p \in settled' => Claimed(p)
    BY <1>1 DEF Claimed, FreshInv
  <1>4. \A p : (Claimed(p)' => Claimed(p)) /\ (Chosen(p)' => Chosen(p))
    <2>1. \A p : Claimed(p)' => p \in settled' \/ Claimed(p)
      BY <1>2 DEF Claimed
    <2>2. \A p : Chosen(p)' => Chosen(p)
      BY <1>2 DEF Chosen
    <2> QED
      BY <1>3, <2>1, <2>2
  <1>5. \A d \in Callers : pc'[d] \in {"get", "list", "repeated"} => promise'[d] = {}
    BY <1>2 DEF FreshInv
  <1> QED
    BY <1>1, <1>4, <1>5, FreshOutside

\* A step of the pipeline, the rows as they are.
LEMMA FreshInside ==
    ASSUME FreshInv, rows' = rows,
           ~busy' => target' = NoConfig,
           \A p \in Probe : Claimed(p)' =>
              Serves(rows, goal', p) /\ Serves(rows, target', p) /\ (~broken' => Serves(rows, runs', p)),
           \A p \in Probe : Chosen(p)' => Serves(rows, target', p),
           \A c \in Callers : pc'[c] \in {"get", "list", "repeated"} => promise'[c] = {}
    PROVE  FreshInv'
  BY DEF FreshInv

LEMMA NothingServes ==
    ASSUME NEW r, NEW p
    PROVE  Serves(r, NoConfig, p)
  BY DEF Serves

\* The compiler's document serves all.
LEMMA SnapshotServes ==
    ASSUME TypeInv, NEW p \in Probe
    PROVE  Serves(rows, CompileRows(rows), p)
  BY TypeParts, GivesOwed DEF Serves

LEMMA FreshApply ==
    ASSUME TypeInv, FreshInv, NEW c \in Callers,
           BeginApply(c) \/ TakeSnapshot(c) \/ StoreRevision(c) \/ Activate(c)
    PROVE  FreshInv'
  <1>1. /\ rows' = rows /\ promise' = promise /\ settled' = settled /\ goal' = goal
        /\ \E label \in {"begun", "store", "work", "end"} : pc' = [pc EXCEPT ![c] = label]
    BY DEF BeginApply, TakeSnapshot, StoreRevision, Activate, Goto, history,
           Contract!Begin, Contract!Snapshot, Contract!Store, Contract!Work
  <1>2. /\ pc'[c] \in {"begun", "store", "work", "end"}
        /\ \A d \in Callers : d # c => pc'[d] = pc[d]
    BY <1>1, TypeParts
  <1>3. \A p : Claimed(p)' => Claimed(p)
    BY <1>1, <1>2 DEF Claimed
  <1>4. \A p : Chosen(p)' => Chosen(p) \/ p \in promise[c]
    BY <1>1, <1>2 DEF Chosen
  <1>5. \A d \in Callers : pc'[d] \in {"get", "list", "repeated"} => promise'[d] = {}
    BY <1>1, <1>2 DEF FreshInv
  <1>6. CASE BeginApply(c)
    <2>1. ~busy /\ busy' /\ target' = target /\ runs' = runs /\ broken' = broken
      BY <1>6 DEF BeginApply, Contract!Begin
    <2>2. target = NoConfig
      BY <2>1 DEF FreshInv
    <2>3. \A p : Serves(rows, target, p)
      BY <2>2, NothingServes
    <2> QED
      BY <1>1, <1>3, <1>5, <2>1, <2>3, FreshInside DEF FreshInv
  <1>7. CASE TakeSnapshot(c)
    <2>1. busy' /\ target' = CompileRows(rows) /\ runs' = runs /\ broken' = broken
      BY <1>7, TypeParts DEF TakeSnapshot, Contract!Snapshot
    <2>2. \A p \in Probe : Serves(rows, target', p)
      BY <2>1, SnapshotServes
    <2> QED
      BY <1>1, <1>3, <1>5, <2>1, <2>2, FreshInside DEF FreshInv
  <1>8. CASE StoreRevision(c)
    <2>1. pc[c] = "store" /\ busy' = busy /\ target' = target /\ runs' = runs /\ broken' = broken
      BY <1>8 DEF StoreRevision, Contract!Store
    <2>2. \A p : Chosen(p)' => Chosen(p)
      BY <1>4, <2>1 DEF Chosen
    <2> QED
      BY <1>1, <1>3, <1>5, <2>1, <2>2, FreshInside DEF FreshInv
  <1>9. CASE Activate(c)
    <2>1. /\ pc[c] = "work" /\ busy' = busy /\ target' = target
          /\ broken' \/ runs' \in {NoConfig, goal, target}
      BY <1>9 DEF Activate, Contract!Work
    <2>2. \A p : Chosen(p)' => Chosen(p)
      BY <1>4, <2>1 DEF Chosen
    <2>3. \A p \in Probe : Claimed(p)' /\ ~broken' => Serves(rows, runs', p)
      BY <1>3, <2>1, NothingServes DEF FreshInv
    <2> QED
      BY <1>1, <1>3, <1>5, <2>1, <2>2, <2>3, FreshInside DEF FreshInv
  <1> QED
    BY <1>6, <1>7, <1>8, <1>9

\* The success of an apply claims what its request promised.
LEMMA FreshSuccess ==
    ASSUME TypeInv, FreshInv, NEW c \in Callers, ApplySucceeds(c)
    PROVE  FreshInv'
  <1>1. /\ rows' = rows /\ pc[c] = "end" /\ goal' = target /\ target' = NoConfig /\ runs' = runs /\ broken' = broken
        /\ broken \/ runs \in {target, NoConfig}
    BY DEF ApplySucceeds, Contract!Commit
  <1>2. \A d \in Callers : d # c => pc'[d] = pc[d] /\ promise'[d] = promise[d]
    BY TypeParts DEF ApplySucceeds, Goto, Succeeded, Return, history
  <1>3. pc'[c] \in {"reread", "idle"} /\ promise'[c] \subseteq promise[c] /\ settled' \subseteq settled \cup promise[c]
    BY TypeParts DEF ApplySucceeds, Goto, Succeeded, Return, history
  <1>4. \A p : Claimed(p)' => Claimed(p) \/ p \in promise[c]
    BY <1>2, <1>3 DEF Claimed
  <1>5. \A p : p \in promise[c] => Chosen(p)
    BY <1>1 DEF Chosen
  <1>6. \A p \in Probe : Claimed(p)' => Serves(rows, target, p)
    BY <1>4, <1>5 DEF FreshInv
  <1>7. \A p \in Probe : Claimed(p)' /\ ~broken => Serves(rows, runs, p)
    BY <1>1, <1>6, NothingServes
  <1>8. \A d \in Callers : pc'[d] \in {"get", "list", "repeated"} => promise'[d] = {}
    BY <1>2, <1>3 DEF FreshInv
  <1>9. \A p : Serves(rows, target', p)
    BY <1>1, NothingServes
  <1> QED
    BY <1>1, <1>6, <1>7, <1>8, <1>9, FreshInside

LEMMA FreshFailure ==
    ASSUME TypeInv, FreshInv, NEW c \in Callers, ApplyEnds(c)
    PROVE  FreshInv'
  <1>1. /\ rows' = rows /\ goal' = goal /\ target' = NoConfig /\ settled' = settled /\ Return(c)
        /\ broken' \/ runs' \in {goal, NoConfig}
    BY DEF ApplyEnds, Contract!GiveUp, Refused
  <1>2. /\ pc'[c] = "idle" /\ promise'[c] = {}
        /\ \A d \in Callers : d # c => pc'[d] = pc[d] /\ promise'[d] = promise[d]
    BY <1>1, Returned
  <1>3. \A p : Claimed(p)' => Claimed(p)
    BY <1>1, <1>2 DEF Claimed
  <1>4. \A d \in Callers : pc'[d] \in {"get", "list", "repeated"} => promise'[d] = {}
    BY <1>2 DEF FreshInv
  <1>5. \A p : Serves(rows, target', p)
    BY <1>1, NothingServes
  <1>6. \A p \in Probe : Claimed(p)' /\ ~broken' => Serves(rows, runs', p)
    BY <1>1, <1>3, NothingServes DEF FreshInv
  <1> QED
    BY <1>1, <1>3, <1>4, <1>5, <1>6, FreshInside DEF FreshInv

LEMMA FreshStep ==
    ASSUME TypeInv, FreshInv, [Next]_vars
    PROVE  FreshInv'
  <1>1. ASSUME NEW c \in Callers, Step(c)
        PROVE  FreshInv'
    <2>1. ASSUME \/ CreateUser(c) \/ DeleteUser(c) \/ SetEnabled(c) \/ ChangePassword(c)
                 \/ CreateShare(c) \/ UpdateShare(c) \/ DeleteShare(c)
                 \/ SetPermission(c) \/ UpdatePorts(c) \/ UpdateTLS(c) \/ ImportFile(c)
          PROVE  FreshInv'
      <3>1. Commits(c)
        BY <2>1, UserCommits, ShareCommits, SettingCommits, ImportCommits
      <3>2. pc[c] = "write"
        BY <2>1 DEF CreateUser, DeleteUser, SetEnabled, ChangePassword, CreateShare, UpdateShare,
                    DeleteShare, SetPermission, UpdatePorts, UpdateTLS, ImportFile, Writing
      <3> QED
        BY <3>1, <3>2, FreshCommit
    <2> QED
      BY <1>1, <2>1, FreshRead, FreshAnswer, FreshApply, FreshSuccess, FreshFailure DEF Step
  <1>2. CASE CaddyExits
    <2>1. /\ rows' = rows /\ goal' = goal /\ target' = target /\ runs' = NoConfig /\ busy' = busy
          /\ pc' = pc /\ promise' = promise /\ settled' = settled
      BY <1>2 DEF CaddyExits, Contract!Exit, history
    <2>2. \A p : (Claimed(p)' <=> Claimed(p)) /\ (Chosen(p)' <=> Chosen(p))
      BY <2>1 DEF Claimed, Chosen
    <2>3. \A p : Serves(rows, runs', p)
      BY <2>1, NothingServes
    <2> QED
      BY <2>1, <2>2, <2>3, FreshInside DEF FreshInv
  <1>3. CASE DaemonCrash
    <2>1. /\ rows' = rows /\ goal' = goal /\ target' = NoConfig /\ runs' = NoConfig /\ settled' = settled
          /\ \A c \in Callers : pc'[c] = "idle"
      BY <1>3 DEF DaemonCrash, Contract!Crash
    <2>2. \A p : (Claimed(p)' => Claimed(p)) /\ ~Chosen(p)'
      BY <2>1 DEF Claimed, Chosen
    <2>3. \A p : Serves(rows, runs', p) /\ Serves(rows, target', p)
      BY <2>1, NothingServes
    <2> QED
      BY <2>1, <2>2, <2>3, FreshInside DEF FreshInv
  <1>4. CASE UNCHANGED vars
    <2>1. /\ rows' = rows /\ UNCHANGED pipeline /\ pc' = pc /\ promise' = promise /\ settled' = settled
      BY <1>4 DEF vars, history
    <2>2. \A p : (Claimed(p)' <=> Claimed(p)) /\ (Chosen(p)' <=> Chosen(p))
      BY <2>1 DEF Claimed, Chosen
    <2>3. \A d \in Callers : pc'[d] \in {"get", "list", "repeated"} => promise'[d] = {}
      BY <2>1 DEF FreshInv
    <2> QED
      BY <2>1, <2>2, <2>3, FreshOutside
  <1> QED
    BY <1>1, <1>2, <1>3, <1>4, FreshSend DEF Next

LEMMA FreshInit ==
    ASSUME Init
    PROVE  FreshInv
  <1>1. /\ target = NoConfig /\ settled = {} /\ \A c \in Callers : pc[c] = "idle"
    BY DEF Init
  <1>2. \A p : ~Claimed(p) /\ ~Chosen(p)
    BY <1>1 DEF Claimed, Chosen
  <1> QED
    BY <1>1, <1>2 DEF FreshInv

\* A change that was answered with success is served, whatever other requests,
\* failed applies, restarts and crashes came in between, until a later commit
\* moves it or an apply fails half-way (applyAfterRuntimeMutation and the lock
\* of apply): for any number of requests, users, shares and permissions.
THEOREM AnsweredIsServed == Spec => []AnsweredMeansServed
  <1>1. TypeInv /\ FreshInv => AnsweredMeansServed
    BY TypeParts DEF FreshInv, Claimed, Serves, AnsweredMeansServed
  <1>2. Init => FreshInv
    BY FreshInit
  <1>3. TypeInv /\ FreshInv /\ [Next]_vars => FreshInv'
    BY FreshStep
  <1> QED
    BY <1>1, <1>2, <1>3, TypeAlways, PTL DEF Spec

---------------------------------------------------------------------------
(* Compiler, export and import in the running system *)

\* Whatever the requests have made of the rows, the compiled routes amount to
\* the permissions (Compile, compileAccounts, discoveryRoute).
THEOREM AlwaysFaithful == Spec => []CompilerFaithful
  <1>1. TypeInv => CompilerFaithful
    BY TypeParts, CompiledRowsFaithful DEF CompilerFaithful
  <1> QED
    BY <1>1, TypeAlways, PTL

\* Whatever the requests have made of the rows, their export imported again
\* changes nothing (Export, SQLiteConfigRepository.Import).
THEOREM AlwaysRoundTrip == Spec => []RoundTrip
  <1>1. TypeInv => RoundTrip
    BY TypeParts, ExportImportIdentity DEF RoundTrip
  <1> QED
    BY <1>1, TypeAlways, PTL

\* What an import keeps.
Keeps(r, d, new) ==
    /\ \A u \in DOMAIN r.users :
          /\ u \in DOMAIN new.users
          /\ new.users[u].hash = r.users[u].hash
          /\ r.users[u].name \notin DOMAIN d.users => new.users[u] = r.users[u]
    /\ \A s \in DOMAIN r.shares :
          /\ s \in DOMAIN new.shares
          /\ r.shares[s].slug \notin DOMAIN d.shares => new.shares[s] = r.shares[s]
    /\ \A k \in DOMAIN r.acl :
          \/ /\ k \in DOMAIN new.acl
             /\ new.acl[k] = r.acl[k]
          \/ /\ r.shares[k[1]].slug \in DOMAIN d.shares
             /\ r.users[k[2]].name \in DOMAIN d.shares[r.shares[k[1]].slug].acl

LEMMA ImportedKeeps ==
    ASSUME NEW r \in Rows, Consistent(r), NEW d \in Document, NEW uid, NEW sid,
           FreshIds(r, d, uid, sid), NEW new, Imported(r, d, uid, sid, new)
    PROVE  Keeps(r, d, new)
  <1>1. /\ new.users = MergeUsers(r, d, uid) /\ new.shares = MergeShares(r, d, sid)
        /\ DOMAIN r.acl \subseteq DOMAIN new.acl
        /\ \A k \in DOMAIN new.acl :
              \/ k \in DOMAIN r.acl /\ new.acl[k] = r.acl[k]
              \/ /\ new.shares[k[1]].slug \in DOMAIN d.shares
                 /\ new.users[k[2]].name \in DOMAIN d.shares[new.shares[k[1]].slug].acl
    BY DEF Imported
  <1>2. ASSUME NEW u \in DOMAIN r.users
        PROVE  /\ u \in DOMAIN new.users
               /\ new.users[u].name = r.users[u].name /\ new.users[u].hash = r.users[u].hash
               /\ r.users[u].name \notin DOMAIN d.users => new.users[u] = r.users[u]
    BY <1>1, MergedUsers
  <1>3. ASSUME NEW s \in DOMAIN r.shares
        PROVE  /\ s \in DOMAIN new.shares
               /\ new.shares[s].slug = r.shares[s].slug
               /\ r.shares[s].slug \notin DOMAIN d.shares => new.shares[s] = r.shares[s]
    BY <1>1, MergedShares
  <1>4. ASSUME NEW k \in DOMAIN r.acl
        PROVE  \/ /\ k \in DOMAIN new.acl
                  /\ new.acl[k] = r.acl[k]
               \/ /\ r.shares[k[1]].slug \in DOMAIN d.shares
                  /\ r.users[k[2]].name \in DOMAIN d.shares[r.shares[k[1]].slug].acl
    <2>1. k[1] \in DOMAIN r.shares /\ k[2] \in DOMAIN r.users
      BY DEF Consistent
    <2>2. new.shares[k[1]].slug = r.shares[k[1]].slug /\ new.users[k[2]].name = r.users[k[2]].name
      BY <1>2, <1>3, <2>1
    <2> QED
      BY <1>1, <2>2
  <1> QED
    BY <1>2, <1>3, <1>4 DEF Keeps

\* An import keeps what its document does not name, and the id and the password
\* of every user that it does name (SQLiteConfigRepository.Import).
THEOREM ImportsKeep == Spec => ImportKeeps
  <1>1. TypeInv /\ [Next]_vars => [\A c \in Callers : ImportFile(c) => Keeps(rows, job[c].doc, rows')]_vars
    <2> SUFFICES ASSUME TypeInv, NEW c \in Callers, ImportFile(c)
                 PROVE  Keeps(rows, job[c].doc, rows')
      OBVIOUS
    <2>1. rows \in Rows /\ Consistent(rows)
      BY TypeParts
    <2>2. job[c].doc \in Document
      BY ImportCommits
    <2>3. PICK uid, sid : Imported(rows, job[c].doc, uid, sid, rows') /\ FreshIds(rows, job[c].doc, uid, sid)
      BY ImportCommits
    <2> QED
      BY <2>1, <2>2, <2>3, ImportedKeeps
  <1>2. Spec => [][\A c \in Callers : ImportFile(c) => Keeps(rows, job[c].doc, rows')]_vars
    BY <1>1, TypeAlways, PTL DEF Spec
  <1> QED
    BY <1>2 DEF ImportKeeps, Keeps

=============================================================================
