---------------------------- MODULE RevisionStore ----------------------------
(***************************************************************************)
(* The part of davd's SQLite database that the apply pipeline works on:    *)
(* the desired state (users, shares, permissions, settings, TLS profile,   *)
(* DNS credentials and their secrets), the stored configuration revisions  *)
(* and the runtime_state row with its desired/active pointers and dirty    *)
(* bit (core/internal/storage, core/migrations).                           *)
(*                                                                         *)
(* Every operator below is one SQLite transaction.  The pool has a single  *)
(* connection, so transactions are atomic and serial.                      *)
(*                                                                         *)
(* Data abstraction.  The semantic content of the users, shares,           *)
(* permissions, settings and TLS rows is one value of Core: the state hash *)
(* leaves timestamps out, so two desired states are the same state when    *)
(* their hashes agree.  Compile maps it to the generated Caddy document;   *)
(* different Core values may compile to the same document (a disabled      *)
(* user).  DNS credentials that the TLS profile does not reference are     *)
(* kept apart in "dns", because RestoreState treats them differently.      *)
(***************************************************************************)
EXTENDS Naturals

CONSTANTS
    Core,        \* semantic contents of the rows a revision restores
    DNSCore,     \* those whose TLS profile uses the DNS challenge
    Provider,    \* DNS credentials no TLS profile references
    Secret,      \* values of the referenced credential's secret
    Config,      \* generated Caddy documents
    Compile,     \* the compiler, a function of the desired state
    MaxNumber,   \* bound: highest revision number the model creates
    NoConfig,    \* no document (nil ConfigJSON, no process)
    NoSnapshot,  \* state_snapshot_json = '' (a row from before migration 0007)
    NoRevision,  \* no row with this number
    NoEnv        \* the empty process environment override

ASSUME StoreAssumption ==
    /\ DNSCore \subseteq Core
    /\ Compile \in [Core -> Config]
    /\ MaxNumber \in Nat \ {0}
    /\ NoConfig \notin Config
    /\ NoEnv \notin Secret

Number == 1..MaxNumber
State == [core : Core, dns : SUBSET Provider]
ApplyStatus == {"NOT_APPLIED", "APPLIED", "FAILED"}
Revision == [config : Config, state : State \cup {NoSnapshot}, apply : ApplyStatus]
Env == Secret \cup {NoEnv}

ASSUME RevisionAssumption ==
    /\ NoSnapshot \notin State
    /\ NoRevision \notin Revision

VARIABLES
    db,          \* the desired state
    secret,      \* the stored secret of the referenced DNS credential
    revisions,   \* config_revisions, by revision number
    nextNumber,  \* revision_sequence.next_number
    desired,     \* runtime_state.desired_revision_id, 0 for NULL
    active,      \* runtime_state.active_revision_id, 0 for NULL
    dirty        \* runtime_state.dirty

pointers == <<desired, active, dirty>>
storeVars == <<db, secret, revisions, nextNumber, desired, active, dirty>>

StoreTypeOK ==
    /\ db \in State
    /\ secret \in Secret
    /\ revisions \in [Number -> Revision \cup {NoRevision}]
    /\ nextNumber \in Nat \ {0}
    /\ desired \in Number \cup {0}
    /\ active \in Number \cup {0}
    /\ dirty \in BOOLEAN

Exists(n) == n \in Number /\ revisions[n] # NoRevision
Restorable(n) == Exists(n) /\ revisions[n].state # NoSnapshot

\* A database created by the current migrations, or one that a release from
\* before state snapshots applied once and left with an active revision.
StoreInit ==
    /\ db \in [core : Core, dns : {{}}]
    /\ secret \in Secret
    /\ \/ /\ revisions = [n \in Number |-> NoRevision]
          /\ nextNumber = 1
          /\ desired = 0
          /\ active = 0
          /\ dirty = TRUE
       \/ /\ revisions = [n \in Number |->
                 IF n = 1
                 THEN [config |-> Compile[db.core], state |-> NoSnapshot, apply |-> "APPLIED"]
                 ELSE NoRevision]
          /\ nextNumber = 2
          /\ desired = 1
          /\ active = 1
          /\ dirty \in BOOLEAN

\* The secret environment that a desired state needs (DNSProviderService.Environment).
Environment(core) == IF core \in DNSCore THEN secret ELSE NoEnv

\* The rows FindByIdentity and its fallback for rows without state_hash accept.
Matching(s) ==
    {n \in Number : /\ Restorable(n)
                    /\ revisions[n].config = Compile[s.core]
                    /\ revisions[n].state = s}

\* ORDER BY revision_number DESC LIMIT 1; 0 when no row matches.
FindByIdentity(s) ==
    IF Matching(s) = {} THEN 0
    ELSE CHOOSE n \in Matching(s) : \A m \in Matching(s) : m <= n

ActiveConfig == IF Exists(active) THEN revisions[active].config ELSE NoConfig

\* SQLiteRevisionRepository.State: what the API reports as pending changes.
Pending == dirty \/ desired # active

\* Mutant: the number after the highest stored one, without revision_sequence.
CreateByMaximum(s) ==
    LET next == CHOOSE n \in 1..(MaxNumber + 1) :
                    /\ \A m \in Number : Exists(m) => m < n
                    /\ n = 1 \/ Exists(n - 1)
    IN /\ next \in Number
       /\ revisions' = [revisions EXCEPT ![next] =
              [config |-> Compile[s.core], state |-> s, apply |-> "NOT_APPLIED"]]
       /\ nextNumber' = next + 1
       /\ desired' = next
       /\ dirty' = FALSE
       /\ UNCHANGED <<db, secret, active>>

Create(s) ==
    /\ nextNumber \in Number
    /\ revisions' = [revisions EXCEPT ![nextNumber] =
           [config |-> Compile[s.core], state |-> s, apply |-> "NOT_APPLIED"]]
    /\ nextNumber' = nextNumber + 1
    /\ desired' = nextNumber
    /\ dirty' = FALSE
    /\ UNCHANGED <<db, secret, active>>

SetDesired(n) ==
    /\ Exists(n)
    /\ desired' = n
    /\ dirty' = FALSE
    /\ UNCHANGED <<db, secret, revisions, nextNumber, active>>

MarkApplied(n) ==
    /\ Exists(n)
    /\ revisions' = [revisions EXCEPT ![n].apply = "APPLIED"]
    /\ desired' = n
    /\ active' = n
    /\ dirty' = FALSE
    /\ UNCHANGED <<db, secret, nextNumber>>

MarkFailed(n) ==
    /\ Exists(n)
    /\ revisions' = [revisions EXCEPT ![n].apply = "FAILED"]
    /\ UNCHANGED <<db, secret, nextNumber, desired, active, dirty>>

\* Mutant: the deleted number is counted down in revision_sequence.
DeleteCountsDown(n) ==
    /\ Exists(n)
    /\ n # active
    /\ n # desired
    /\ revisions' = [revisions EXCEPT ![n] = NoRevision]
    /\ nextNumber' = n - 1
    /\ UNCHANGED <<db, secret, desired, active, dirty>>

\* Delete refuses the active and the desired revision.
Delete(n) ==
    /\ Exists(n)
    /\ n # active
    /\ n # desired
    /\ revisions' = [revisions EXCEPT ![n] = NoRevision]
    /\ UNCHANGED <<db, secret, nextNumber, desired, active, dirty>>

\* The rows of the snapshot replace the rows of the database, except that DNS
\* credentials are only inserted or updated, never deleted.
RestoreState(n) ==
    /\ Restorable(n)
    /\ db' = [core |-> revisions[n].state.core,
              dns  |-> db.dns \cup revisions[n].state.dns]
    /\ revisions' = [revisions EXCEPT ![n].apply = "APPLIED"]
    /\ desired' = n
    /\ active' = n
    /\ dirty' = FALSE
    /\ UNCHANGED <<secret, nextNumber>>

\* Mutant: no trigger on the table.
WriteRowsUnflagged(s) ==
    /\ s # db
    /\ db' = s
    /\ UNCHANGED <<secret, revisions, nextNumber, desired, active, dirty>>

\* A management request or a YAML import commits new rows; the triggers of
\* migrations 0004 to 0009 raise dirty in the same transaction.
WriteRows(s) ==
    /\ s # db
    /\ db' = s
    /\ dirty' = TRUE
    /\ UNCHANGED <<secret, revisions, nextNumber, desired, active>>

\* LocalEncryptedSecretStore.Put on the referenced credential.
PutSecret(v) ==
    /\ v # secret
    /\ secret' = v
    /\ dirty' = TRUE
    /\ UNCHANGED <<db, revisions, nextNumber, desired, active>>

=============================================================================
