------------------------------ MODULE MCAccess ------------------------------
(* Small instances of Access. *)
EXTENDS Access, TLC

CONSTANTS u1, u2, n1, n2, h1, h2, s1, s2, a, b, dir, p80

MCRank == (a :> 0) @@ (b :> 1)

\* The database from which requests are sent: one user may write to one share.
Small ==
    {[users  |-> u1 :> [name |-> n1, enabled |-> TRUE, hash |-> h1],
      shares |-> s1 :> [slug |-> a, path |-> dir, enabled |-> TRUE],
      acl    |-> <<s1, u1>> :> "READ_WRITE",
      port   |-> p80, tls |-> FALSE]}

\* Every database of two users and two shares.
Survey ==
    UNION {[users  : [D -> User], shares : [E -> Share],
            acl : Table(E \X D, Permission), port : {p80}, tls : BOOLEAN] :
               D \in SUBSET UserID, E \in SUBSET ShareID}

SurveyRows ==
    {r \in Survey :
        /\ \A u \in DOMAIN r.users : r.users[u].name = (IF u = u1 THEN n1 ELSE n2) /\ r.users[u].hash = h1
        /\ \A s \in DOMAIN r.shares : r.shares[s].slug = (IF s = s1 THEN a ELSE b)}

MCRows == Small \cup SurveyRows

\* A file with a user unknown so far, and one who may be known.
File ==
    [users  |-> (n1 :> FALSE) @@ (n2 :> TRUE),
     shares |-> a :> [path |-> dir, enabled |-> TRUE, acl |-> (n1 :> "NONE") @@ (n2 :> "READ")],
     port   |-> NoSection,
     tls    |-> FALSE]

MCRequests ==
         [op : {"CreateUser"}, name : {n1}, hash : {h1}]
    \cup [op : {"DeleteUser"}, user : {u1}]
    \cup [op : {"SetEnabled"}, user : {u1}, enabled : BOOLEAN]
    \cup [op : {"ChangePassword"}, user : {u1}, hash : {h2}]
    \cup [op : {"CreateShare"}, slug : {a}, path : {dir}]
    \cup [op : {"UpdateShare"}, share : {s1}, patch : [slug : {b}] \cup [enabled : {FALSE}]]
    \cup [op : {"DeleteShare"}, share : {s1}]
    \cup [op : {"SetPermission"}, share : {s1}, user : {u1}, permission : {"NONE", "READ"}]
    \cup [op : {"UpdatePorts"}, port : Port]
    \cup [op : {"UpdateTLS"}, tls : {TRUE}]
    \cup [op : {"Import"}, doc : {File}]
    \cup [op : {"Apply", "Restart"}]

\* The requests that repeat a value without effect.
MCRepeatable == {q \in MCRequests : First(q.op) = "get"}

MCInit ==
    /\ Init
    /\ IF rows \in Small THEN left = MaxRequests /\ goal # NoConfig
                        ELSE left = 0 /\ goal = NoConfig

MCSpec == MCInit /\ [][Next]_vars

CallerSymmetry == Permutations(Callers)
=============================================================================
