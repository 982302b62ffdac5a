---------------------------- MODULE Credentials ----------------------------
(***************************************************************************)
(* DNS provider credentials: their public rows, their encrypted secrets,   *)
(* the key file that encrypts them, the TLS profile that refers to one,    *)
(* the environment an apply asks for, and the restore that puts back rows  *)
(* of an older revision (app/dns_provider_service.go,                      *)
(* storage/dns_provider_repository.go, storage/secret_store.go,            *)
(* storage/tls_repository.go, dnsprovider/registry.go, and Restore and     *)
(* RestoreState of app/apply_service.go, storage/revision_repository.go).  *)
(*                                                                         *)
(* DNSProviderService.Save is two reads, a check and two transactions, and *)
(* nothing excludes a second request, an apply or a restore between them.  *)
(* Deletions and changes of the TLS profile are one step: what they read   *)
(* before only refuses earlier what the foreign keys refuse anyway.        *)
(*                                                                         *)
(* Simplifications: a secret is the provider it was entered for and the    *)
(* key it is encrypted with, so two secrets for one provider are equal;    *)
(* allowed zones, and the parsing of names and fields, are left out.  Of a *)
(* revision only its snapshot of these tables is kept; deleting a revision *)
(* is left out, since one that is never restored again does nothing.       *)
(***************************************************************************)
EXTENDS Naturals, FiniteSets

CONSTANTS
    Cred,       \* identifiers of credentials
    Name,       \* names users give them
    Type,       \* providers
    Caller,     \* bound: requests that save at the same time
    None,
    MaxSaves,   \* bound: saves ever begun
    MaxKeys,    \* bound: keys ever generated
    MaxRevisions \* bound: revisions ever recorded

ASSUME CredentialAssumption ==
    /\ Type \subseteq {"cloudflare", "dnspod", "tencentcloud", "alidns"}
    /\ MaxKeys \in Nat \ {0}
    /\ MaxSaves \in Nat /\ MaxRevisions \in Nat
    /\ None \notin Cred

VARIABLES
    row,       \* dns_provider_credentials
    secret,    \* dns_provider_secrets
    tls,       \* the credential the TLS profile refers to
    keyFile,   \* the key file: absent, short, or whole with the key's number
    daemon,    \* davd: down, creating the key file, or serving with its key
    save,      \* the PUT or POST each caller has in progress
    saves,     \* saves begun so far
    used,      \* identifiers a row was ever stored under: a POST draws a new one
    revisions, \* snapshots of rows and TLS profile kept by successful applies
    env,       \* the apply or restore that holds the apply lock, with its
               \* snapshot and its Environment call; calm while the credential
               \* agreed with the snapshot when it began, was neither torn nor
               \* restored, and no save of it was in progress since
    torn,      \* history: credentials of which two saves overlapped, whose name
               \* two overlapping saves gave, of which one save ended between its
               \* two transactions, or which a restore changed during a save
    restored   \* history: credentials of which a restore put back an older row,
               \* until they are deleted or a save has stored row and secret

vars == <<row, secret, tls, keyFile, daemon, save, saves, used, revisions, env, torn, restored>>

Absent == [state |-> "absent", key |-> 0]
NoSave == [step |-> "idle"]
NoEnv == [step |-> "idle"]
Down == [state |-> "down", key |-> 0]

\* A POST has no id, and the secret may be left out of a PUT.
Request == [of : Cred \cup {None}, name : Name, type : Type, secret : BOOLEAN]
Row == [name : Name, type : Type]
Secret == [type : Type, key : 1..MaxKeys]

\* A save in progress: its request, the credential it is about, and whether that
\* was found with the same provider.
Save == [step : {"read", "checked", "stored"}, of : Cred, name : Name, type : Type,
         secret : BOOLEAN, same : BOOLEAN]

\* What an apply reads in one transaction, of these tables.
Snapshot == [rows : [Cred -> Row \cup {None}], tls : Cred \cup {None}]

\* An apply or a restore: begun, with the row Environment has read, with the
\* secret it gives.
EnvCall ==
    {NoEnv}
    \cup [step : {"begun"}, kind : {"apply", "restore"}, of : Snapshot, calm : BOOLEAN]
    \cup [step : {"read"}, kind : {"apply", "restore"}, of : Snapshot, calm : BOOLEAN,
          type : Type]
    \cup [step : {"given"}, kind : {"apply", "restore"}, of : Snapshot, calm : BOOLEAN,
          secret : Secret]

ASSUME RowAssumption == None \notin Row \cup Secret

TypeOK ==
    /\ row \in [Cred -> Row \cup {None}]
    /\ secret \in [Cred -> Secret \cup {None}]
    /\ tls \in Cred \cup {None}
    /\ keyFile \in [state : {"absent", "short", "whole"}, key : 0..MaxKeys]
    /\ daemon \in [state : {"down", "creating", "serving"}, key : 0..MaxKeys]
    /\ save \in [Caller -> Save \cup {NoSave}]
    /\ \A c \in Caller : save[c] # NoSave => daemon.state = "serving"
    /\ saves \in 0..MaxSaves
    /\ used \in SUBSET Cred
    /\ revisions \in SUBSET Snapshot
    /\ env \in EnvCall
    /\ env # NoEnv => daemon.state = "serving"
    /\ torn \in SUBSET Cred
    /\ restored \in SUBSET Cred

Init ==
    /\ row = [c \in Cred |-> None]
    /\ secret = [c \in Cred |-> None]
    /\ tls = None
    /\ keyFile = Absent
    /\ daemon = Down
    /\ save = [c \in Caller |-> NoSave]
    /\ saves = 0
    /\ used = {}
    /\ revisions = {}
    /\ env = NoEnv
    /\ torn = {}
    /\ restored = {}

Serving == daemon.state = "serving"
Exists(c) == row[c] # None

\* The fields a provider requires.  Two providers take a single "api_token", so
\* ValidateSecret cannot tell their secrets apart.
Fields(type) ==
    CASE type \in {"cloudflare", "dnspod"} -> {"api_token"}
      [] type = "tencentcloud"             -> {"secret_id", "secret_key"}
      [] type = "alidns"                   -> {"access_key_id", "access_key_secret"}

ValidSecret(type, given) == Fields(given.type) = Fields(type)

---------------------------------------------------------------------------
(* The key file, read or created when davd starts *)

\* Mutant: the file is always created, over an old one too.
KeyExistsNever == FALSE

\* The Lstat of loadOrCreateSecretKey.
KeyExists == keyFile.state # "absent"

\* Mutant: the key is never copied out of the buffer, which stays zero.
ReadsZeroKey ==
    /\ daemon = Down
    /\ KeyExists /\ keyFile.state = "whole"
    /\ daemon' = [state |-> "serving", key |-> 0]
    /\ UNCHANGED <<row, secret, tls, keyFile, save, saves, used, revisions, env, torn, restored>>

\* A whole key is used; a short one stops davd, which stays down.
ReadsKey ==
    /\ daemon = Down
    /\ KeyExists /\ keyFile.state = "whole"
    /\ daemon' = [state |-> "serving", key |-> keyFile.key]
    /\ UNCHANGED <<row, secret, tls, keyFile, save, saves, used, revisions, env, torn, restored>>

\* A new key, in a file that stays short until all of it is written.
CreatesKey ==
    /\ daemon = Down
    /\ ~KeyExists /\ keyFile.key < MaxKeys
    /\ keyFile' = [state |-> "short", key |-> keyFile.key + 1]
    /\ daemon' = [state |-> "creating", key |-> keyFile.key + 1]
    /\ UNCHANGED <<row, secret, tls, save, saves, used, revisions, env, torn, restored>>

WritesKey ==
    /\ daemon.state = "creating"
    /\ keyFile' = [keyFile EXCEPT !.state = "whole"]
    /\ daemon' = [daemon EXCEPT !.state = "serving"]
    /\ UNCHANGED <<row, secret, tls, save, saves, used, revisions, env, torn, restored>>

\* davd dies, and every request with it.
Crash ==
    /\ daemon # Down
    /\ daemon' = Down
    /\ save' = [c \in Caller |-> NoSave]
    /\ env' = NoEnv
    /\ torn' = torn \cup {save[c].of : c \in {d \in Caller : save[d].step = "stored"}}
    /\ UNCHANGED <<row, secret, tls, keyFile, saves, used, revisions, restored>>

---------------------------------------------------------------------------
(* DNSProviderService.Save *)

\* Mutant: only a new credential has its name checked.
NameTakenNew(request) ==
    request.of = None /\ \E c \in Cred : Exists(c) /\ row[c].name = request.name

\* Another credential has the name.
NameTaken(request) ==
    \E c \in Cred \ {request.of} : Exists(c) /\ row[c].name = request.name

InProgress == {c \in Caller : save[c] # NoSave}
Saving(id) == \E c \in InProgress : save[c].of = id
Naming(name) == \E c \in InProgress : save[c].name = name

\* Get and List, which also finds a name that is taken; a new credential gets
\* an identifier nobody has.
Reads(c, request) ==
    /\ Serving /\ save[c] = NoSave /\ saves < MaxSaves
    /\ request.of # None => Exists(request.of)
    /\ ~NameTaken(request)
    /\ saves' = saves + 1
    /\ \E id \in IF request.of # None THEN {request.of}
                 ELSE {d \in Cred \ used : ~Saving(d)} :
        /\ save' = [save EXCEPT ![c] =
                [step |-> "read", of |-> id, name |-> request.name, type |-> request.type,
                 secret |-> request.secret,
                 same |-> request.of # None /\ row[id].type = request.type]]
        /\ torn' = IF Saving(id) \/ Naming(request.name) THEN torn \cup {id} ELSE torn
        /\ env' = IF env # NoEnv /\ env.of.tls = id THEN [env EXCEPT !.calm = FALSE] ELSE env
    /\ UNCHANGED <<row, secret, tls, keyFile, daemon, used, revisions, restored>>

\* Mutant: a stored secret will do, whichever provider it was entered for.
SecretSuppliedAny(s) == s.secret \/ secret[s.of] # None

\* A secret may be left out when the provider is the one that was read and a
\* secret is stored.
SecretSupplied(s) == s.secret \/ (s.same /\ secret[s.of] # None)

ChecksSecret(c) ==
    /\ save[c].step = "read"
    /\ save' = [save EXCEPT ![c] =
                    IF SecretSupplied(save[c]) THEN [@ EXCEPT !.step = "checked"] ELSE NoSave]
    /\ UNCHANGED <<row, secret, tls, keyFile, daemon, saves, used, revisions, env, torn, restored>>

\* The upsert of the row, which also brings back a credential that was deleted
\* since it was read.
StoresRow(c) ==
    /\ save[c].step = "checked"
    /\ row' = [row EXCEPT ![save[c].of] = [name |-> save[c].name, type |-> save[c].type]]
    /\ save' = [save EXCEPT ![c] = IF @.secret THEN [@ EXCEPT !.step = "stored"] ELSE NoSave]
    /\ used' = used \cup {save[c].of}
    /\ UNCHANGED <<secret, tls, keyFile, daemon, saves, revisions, env, torn, restored>>

\* SecretStore.Put encrypts with the key davd has in memory.
PutsSecret(c) ==
    /\ save[c].step = "stored"
    /\ Exists(save[c].of)
    /\ secret' = [secret EXCEPT ![save[c].of] = [type |-> save[c].type, key |-> daemon.key]]
    /\ save' = [save EXCEPT ![c] = NoSave]
    /\ restored' = restored \ {save[c].of}
    /\ UNCHANGED <<row, tls, keyFile, daemon, saves, used, revisions, env, torn>>

\* A statement fails: the database, or the row the secret would belong to.
SaveFails(c) ==
    /\ save[c] # NoSave
    /\ torn' = IF save[c].step = "stored" THEN torn \cup {save[c].of} ELSE torn
    /\ save' = [save EXCEPT ![c] = NoSave]
    /\ UNCHANGED <<row, secret, tls, keyFile, daemon, saves, used, revisions, env, restored>>

---------------------------------------------------------------------------
(* Deletion and the TLS profile *)

\* Mutant: neither the count nor the foreign key refuses a credential in use.
DeletableAlways(c) == Exists(c)

Deletable(c) == Exists(c) /\ tls # c

\* The secret goes with the row.
Delete(c) ==
    /\ Serving /\ Deletable(c)
    /\ row' = [row EXCEPT ![c] = None]
    /\ secret' = [secret EXCEPT ![c] = None]
    /\ torn' = IF Saving(c) THEN torn ELSE torn \ {c}
    /\ restored' = restored \ {c}
    /\ UNCHANGED <<tls, keyFile, daemon, save, saves, used, revisions, env>>

\* TLSService.Update for a DNS challenge, and Disable.
UpdateTLS(c) ==
    /\ Serving /\ Exists(c) /\ tls # c
    /\ tls' = c
    /\ UNCHANGED <<row, secret, keyFile, daemon, save, saves, used, revisions, env, torn, restored>>

DisableTLS ==
    /\ Serving /\ tls # None
    /\ tls' = None
    /\ UNCHANGED <<row, secret, keyFile, daemon, save, saves, used, revisions, env, torn, restored>>

---------------------------------------------------------------------------
(* Apply and Restore: the snapshot, its environment, and what is stored *)

Calm(snapshot) ==
    snapshot.tls # None =>
        /\ ~Saving(snapshot.tls) /\ snapshot.tls \notin torn \cup restored
        /\ Exists(snapshot.tls)
        /\ row[snapshot.tls].type = snapshot.rows[snapshot.tls].type

Begins(kind, snapshot) ==
    /\ Serving /\ env = NoEnv
    /\ env' = [step |-> "begun", kind |-> kind, of |-> snapshot, calm |-> Calm(snapshot)]
    /\ UNCHANGED <<row, secret, tls, keyFile, daemon, save, saves, used, revisions, torn, restored>>

\* An apply reads its snapshot and compiles it.
ApplyBegins == Begins("apply", [rows |-> row, tls |-> tls])

\* A restore takes that of a stored revision.
RestoreBegins == \E snapshot \in revisions : Begins("restore", snapshot)

\* Mutant: the profile is read again.
ReferencedNow == IF tls # None THEN tls ELSE env.of.tls

\* The credential of the snapshot's TLS profile.
Referenced == env.of.tls

\* The row is read; the credential may be gone by now.
EnvironmentReads ==
    /\ env.step = "begun" /\ env.of.tls # None
    /\ env' = IF Exists(Referenced)
              THEN [step |-> "read", kind |-> env.kind, of |-> env.of, calm |-> env.calm,
                    type |-> row[Referenced].type]
              ELSE NoEnv
    /\ UNCHANGED <<row, secret, tls, keyFile, daemon, save, saves, used, revisions, torn, restored>>

\* A secret that is there, can be decrypted and has the fields of the provider.
Givable(type, given) ==
    given # None /\ given.key = daemon.key /\ ValidSecret(type, given)

\* The secret is read, and the environment or an error returned.
EnvironmentGives ==
    /\ env.step = "read"
    /\ env' = IF Givable(env.type, secret[Referenced])
              THEN [step |-> "given", kind |-> env.kind, of |-> env.of, calm |-> env.calm,
                    secret |-> secret[Referenced]]
              ELSE NoEnv
    /\ UNCHANGED <<row, secret, tls, keyFile, daemon, save, saves, used, revisions, torn, restored>>

\* Environment has answered; a profile without a provider needs none.
Ready == env.step = "given" \/ (env.step = "begun" /\ env.of.tls = None)

\* RuntimeConfigInput.Validate: an apply refuses rows that share a name.
Recordable(snapshot) ==
    \A c, d \in Cred :
        c # d /\ snapshot.rows[c] # None /\ snapshot.rows[d] # None
            => snapshot.rows[c].name # snapshot.rows[d].name

\* The apply goes through, and its snapshot is a revision's.
ApplyRecords ==
    /\ env.step # "idle" /\ Ready /\ env.kind = "apply" /\ Recordable(env.of)
    /\ Cardinality(revisions \cup {env.of}) <= MaxRevisions
    /\ revisions' = revisions \cup {env.of}
    /\ env' = NoEnv
    /\ UNCHANGED <<row, secret, tls, keyFile, daemon, save, saves, used, torn, restored>>

\* The upsert of RestoreState: rows the snapshot does not have stay.
RestoredRows(snapshot) ==
    [c \in Cred |-> IF snapshot.rows[c] # None THEN snapshot.rows[c] ELSE row[c]]

\* RestoreState puts back rows and profile in one transaction and leaves the
\* secrets alone.
RestoresState ==
    /\ env.step # "idle" /\ Ready /\ env.kind = "restore"
    /\ LET changed == {c \in Cred : RestoredRows(env.of)[c] # row[c]} IN
        /\ torn' = torn \cup {c \in changed : Saving(c)}
        /\ restored' = restored \cup changed
    /\ row' = RestoredRows(env.of)
    /\ tls' = env.of.tls
    /\ env' = NoEnv
    /\ UNCHANGED <<secret, keyFile, daemon, save, saves, used, revisions>>

\* Validation, Caddy or the database refuses; Start and Restart, which only ask
\* for the environment of a revision, end here too.
ApplyEnds ==
    /\ env # NoEnv
    /\ env' = NoEnv
    /\ UNCHANGED <<row, secret, tls, keyFile, daemon, save, saves, used, revisions, torn, restored>>

Next ==
    \/ ReadsKey \/ CreatesKey \/ WritesKey \/ Crash
    \/ \E c \in Caller :
        \/ \E request \in Request : Reads(c, request)
        \/ ChecksSecret(c) \/ StoresRow(c) \/ PutsSecret(c) \/ SaveFails(c)
    \/ \E c \in Cred : Delete(c) \/ UpdateTLS(c)
    \/ DisableTLS
    \/ ApplyBegins \/ RestoreBegins \/ EnvironmentReads \/ EnvironmentGives
    \/ ApplyRecords \/ RestoresState \/ ApplyEnds

Spec == Init /\ [][Next]_vars

---------------------------------------------------------------------------
(* Properties *)

\* The TLS profile always refers to a credential that exists, and a secret
\* always belongs to one, whatever deletions, saves, profile changes and restores
\* do to each other (API.md: a provider referenced by TLS cannot be deleted).
ReferencesExist ==
    /\ tls # None => Exists(tls)
    /\ \A c \in Cred : secret[c] # None => Exists(c)

\* Every stored secret can be decrypted with the key file as it is on disk,
\* through crashes while the file is created and afterwards.  So a key file
\* that is too short, on which davd refuses to start, never costs a secret.
SecretsReadable ==
    \A c \in Cred : secret[c] # None =>
        keyFile.state = "whole" /\ secret[c].key = keyFile.key

\* The secret of a credential was entered for its provider, with exactly these
\* exceptions: two saves of it overlapped, one was cut off between its two
\* transactions, or a restore put back an older row, which leaves the secret of
\* a later provider in place, and no save has supplied a secret since.
SecretOfProvider ==
    \A c \in Cred \ (torn \cup restored) :
        secret[c] # None /\ ~Saving(c) => secret[c].type = row[c].type

\* No two credentials have one name, which a configuration file refers to them
\* by, unless overlapping saves gave it or a restore put it back: the name is
\* looked up before the row is stored, RestoreState does not look it up, and the
\* table does not enforce it.
NamesUnique ==
    \A c, d \in Cred \ (torn \cup restored) :
        c # d /\ Exists(c) /\ Exists(d) => row[c].name # row[d].name

\* The secret Caddy is given was entered for the provider the snapshot was
\* compiled for, although row and secret are read again after the snapshot, one
\* after the other, while the profile may change and credentials are deleted.
\* Excepted are a snapshot whose credential has had another provider since (a
\* restore of it), one that was torn or restored, and a save meanwhile.
EnvironmentOfProvider ==
    env.step = "given" /\ env.calm => env.secret.type = env.of.rows[env.of.tls].type

=============================================================================
