-------------------------- MODULE CredentialProofs --------------------------
(***************************************************************************)
(* Proofs about Credentials, for any number of credentials, names and      *)
(* concurrent saves.                                                       *)
(***************************************************************************)
EXTENDS Credentials, TLAPS

\* What is stored, and the saves in progress: the types the argument needs.
StoredType ==
    /\ row \in [Cred -> Row \cup {None}]
    /\ secret \in [Cred -> Secret \cup {None}]
    /\ tls \in Cred \cup {None}
    /\ keyFile \in [state : {"absent", "short", "whole"}, key : 0..MaxKeys]
    /\ daemon \in [state : {"down", "creating", "serving"}, key : 0..MaxKeys]
    /\ save \in [Caller -> Save \cup {NoSave}]
    /\ saves \in 0..MaxSaves
    /\ used \in SUBSET Cred
    /\ revisions \in SUBSET Snapshot
    /\ torn \in SUBSET Cred
    /\ restored \in SUBSET Cred

\* A davd that serves has the key that is on disk, and only such a davd has
\* requests.
KeyInv ==
    /\ daemon.state = "serving" => keyFile.state = "whole" /\ daemon.key = keyFile.key
    /\ daemon.state = "creating" => keyFile.state = "short" /\ daemon.key = keyFile.key
    /\ keyFile.state # "absent" => keyFile.key > 0
    /\ \A c \in Caller : save[c] # NoSave => daemon.state = "serving"

\* A snapshot has the credential its profile refers to.
Sound(snapshot) == snapshot.tls # None => snapshot.rows[snapshot.tls] # None

\* So have the revisions and the apply or restore in progress, which only a davd
\* that serves has; once it has read a row, it is for a credential.
EnvInv ==
    /\ env \in EnvCall
    /\ env # NoEnv => daemon.state = "serving" /\ Sound(env.of)
    /\ env.step \in {"read", "given"} => env.of.tls # None
    /\ \A snapshot \in revisions : Sound(snapshot)

KeyIInv == StoredType /\ KeyInv /\ EnvInv /\ SecretsReadable /\ ReferencesExist

\* A save moves along its steps and stays about the same credential.
LEMMA SaveStep ==
    \A s \in Save :
        /\ s # NoSave
        /\ s.of \in Cred /\ s.name \in Name /\ s.type \in Type
        /\ \A step \in {"read", "checked", "stored"} :
              /\ [s EXCEPT !.step = step] \in Save
              /\ [s EXCEPT !.step = step].step = step
              /\ [s EXCEPT !.step = step].of = s.of
              /\ [s EXCEPT !.step = step].name = s.name
              /\ [s EXCEPT !.step = step].type = s.type
              /\ [s EXCEPT !.step = step].same = s.same
              /\ [s EXCEPT !.step = step].secret = s.secret
  <1>1. \A s \in Save : s # NoSave
    BY DEF Save, NoSave
  <1>2. ASSUME NEW s \in Save, NEW step \in {"read", "checked", "stored"}
        PROVE /\ [s EXCEPT !.step = step] \in Save
              /\ [s EXCEPT !.step = step].step = step
              /\ [s EXCEPT !.step = step].of = s.of
              /\ [s EXCEPT !.step = step].name = s.name
              /\ [s EXCEPT !.step = step].type = s.type
              /\ [s EXCEPT !.step = step].same = s.same
              /\ [s EXCEPT !.step = step].secret = s.secret
    BY DEF Save
  <1>3. \A s \in Save : s.of \in Cred /\ s.name \in Name /\ s.type \in Type
    BY DEF Save
  <1> QED
    BY <1>1, <1>2, <1>3

\* What a save is when it begins.
LEMMA SaveBegins ==
    ASSUME NEW c \in Caller, NEW request \in Request, StoredType, Reads(c, request)
    PROVE \E id \in Cred, same \in BOOLEAN :
            /\ save' = [save EXCEPT ![c] =
                  [step |-> "read", of |-> id, name |-> request.name, type |-> request.type,
                   secret |-> request.secret, same |-> same]]
            /\ [step |-> "read", of |-> id, name |-> request.name, type |-> request.type,
                secret |-> request.secret, same |-> same] \in Save
            /\ same => row[id].type = request.type
            /\ IF request.of # None THEN id = request.of ELSE ~Saving(id)
            /\ torn' = IF Saving(id) \/ Naming(request.name) THEN torn \cup {id} ELSE torn
            /\ env' = IF env # NoEnv /\ env.of.tls = id THEN [env EXCEPT !.calm = FALSE] ELSE env
  <1>1. PICK id \in IF request.of # None THEN {request.of}
                    ELSE {d \in Cred \ used : ~Saving(d)} :
            /\ save' = [save EXCEPT ![c] =
                [step |-> "read", of |-> id, name |-> request.name, type |-> request.type,
                 secret |-> request.secret,
                 same |-> request.of # None /\ row[id].type = request.type]]
            /\ torn' = IF Saving(id) \/ Naming(request.name) THEN torn \cup {id} ELSE torn
            /\ env' = IF env # NoEnv /\ env.of.tls = id THEN [env EXCEPT !.calm = FALSE] ELSE env
    BY DEF Reads
  <1>2. id \in Cred
    BY <1>1 DEF Request
  <1> DEFINE same == request.of # None /\ row[id].type = request.type
  <1>3. same \in BOOLEAN
    BY Zenon
  <1>4. [step |-> "read", of |-> id, name |-> request.name, type |-> request.type,
         secret |-> request.secret, same |-> same] \in Save
    <2>1. request.name \in Name /\ request.type \in Type /\ request.secret \in BOOLEAN
      BY DEF Request
    <2> HIDE DEF same
    <2> QED
      BY <1>2, <1>3, <2>1 DEF Save
  <1>5. same => row[id].type = request.type
    OBVIOUS
  <1>6. IF request.of # None THEN id = request.of ELSE ~Saving(id)
    BY <1>1
  <1>7. save' = [save EXCEPT ![c] =
                  [step |-> "read", of |-> id, name |-> request.name, type |-> request.type,
                   secret |-> request.secret, same |-> same]]
    BY <1>1
  <1> HIDE DEF same
  <1> QED
    BY <1>1, <1>2, <1>3, <1>4, <1>5, <1>6, <1>7

LEMMA ReadsType ==
    \A c \in Caller, request \in Request :
        StoredType /\ Reads(c, request)
            => save' \in [Caller -> Save \cup {NoSave}] /\ torn' \in SUBSET Cred
  <1> SUFFICES ASSUME NEW c \in Caller, NEW request \in Request, StoredType, Reads(c, request)
               PROVE save' \in [Caller -> Save \cup {NoSave}] /\ torn' \in SUBSET Cred
    OBVIOUS
  <1>1. PICK id \in Cred, same \in BOOLEAN :
          /\ save' = [save EXCEPT ![c] =
                [step |-> "read", of |-> id, name |-> request.name, type |-> request.type,
                 secret |-> request.secret, same |-> same]]
          /\ [step |-> "read", of |-> id, name |-> request.name, type |-> request.type,
              secret |-> request.secret, same |-> same] \in Save
          /\ torn' = IF Saving(id) \/ Naming(request.name) THEN torn \cup {id} ELSE torn
    BY SaveBegins, Zenon
  <1> DEFINE new == [step |-> "read", of |-> id, name |-> request.name,
                     type |-> request.type, secret |-> request.secret, same |-> same]
  <1>2. save' = [save EXCEPT ![c] = new] /\ new \in Save
    BY <1>1
  <1> HIDE DEF new
  <1> QED
    BY <1>1, <1>2 DEF StoredType

LEMMA InitKeyIInv == Init => KeyIInv
  <1> SUFFICES ASSUME Init PROVE KeyIInv
    OBVIOUS
  <1>1. StoredType /\ KeyInv /\ SecretsReadable /\ ReferencesExist
    BY CredentialAssumption, RowAssumption
    DEF Init, StoredType, KeyInv, SecretsReadable, ReferencesExist, Absent, Down
  <1>2. EnvInv
    BY DEF Init, EnvInv, EnvCall, NoEnv
  <1> QED
    BY <1>1, <1>2 DEF KeyIInv

\* What an apply or restore in progress is.
LEMMA EnvForms ==
    ASSUME NEW e \in EnvCall, e # NoEnv
    PROVE /\ e.of \in Snapshot /\ e.kind \in {"apply", "restore"} /\ e.calm \in BOOLEAN
          /\ e.step \in {"begun", "read", "given"}
          /\ e.step = "read" => e.type \in Type
          /\ e.step = "given" => e.secret \in Secret
  <1>1. CASE e \in [step : {"begun"}, kind : {"apply", "restore"}, of : Snapshot, calm : BOOLEAN]
    BY <1>1
  <1>2. CASE e \in [step : {"read"}, kind : {"apply", "restore"}, of : Snapshot, calm : BOOLEAN,
                    type : Type]
    BY <1>2
  <1>3. CASE e \in [step : {"given"}, kind : {"apply", "restore"}, of : Snapshot,
                    calm : BOOLEAN, secret : Secret]
    BY <1>3
  <1> QED
    BY <1>1, <1>2, <1>3 DEF EnvCall

\* Disturbing it changes nothing else of it.
LEMMA EnvDisturbed ==
    ASSUME NEW e \in EnvCall, e # NoEnv
    PROVE /\ [e EXCEPT !.calm = FALSE] \in EnvCall
          /\ [e EXCEPT !.calm = FALSE] # NoEnv
          /\ ~[e EXCEPT !.calm = FALSE].calm
          /\ [e EXCEPT !.calm = FALSE].of = e.of
          /\ [e EXCEPT !.calm = FALSE].step = e.step
  <1>1. CASE e \in [step : {"begun"}, kind : {"apply", "restore"}, of : Snapshot, calm : BOOLEAN]
    BY <1>1 DEF EnvCall, NoEnv
  <1>2. CASE e \in [step : {"read"}, kind : {"apply", "restore"}, of : Snapshot, calm : BOOLEAN,
                    type : Type]
    BY <1>2 DEF EnvCall, NoEnv
  <1>3. CASE e \in [step : {"given"}, kind : {"apply", "restore"}, of : Snapshot,
                    calm : BOOLEAN, secret : Secret]
    BY <1>3 DEF EnvCall, NoEnv
  <1> QED
    BY <1>1, <1>2, <1>3 DEF EnvCall

\* The snapshot an apply reads is one, and sound.
LEMMA SnapshotRead ==
    ASSUME StoredType, ReferencesExist
    PROVE [rows |-> row, tls |-> tls] \in Snapshot /\ Sound([rows |-> row, tls |-> tls])
  BY DEF StoredType, ReferencesExist, Exists, Snapshot, Sound

LEMMA BeginsEnvInv ==
    ASSUME NEW kind \in {"apply", "restore"}, NEW snapshot \in Snapshot, Sound(snapshot),
           KeyIInv, Begins(kind, snapshot)
    PROVE EnvInv'
  <1>1. Calm(snapshot) \in BOOLEAN
    BY Zenon DEF Calm
  <1> DEFINE calm == Calm(snapshot)
  <1>2. env' = [step |-> "begun", kind |-> kind, of |-> snapshot, calm |-> calm]
        /\ UNCHANGED <<daemon, revisions>> /\ daemon.state = "serving"
    BY DEF Begins, Serving
  <1>3. calm \in BOOLEAN
    BY <1>1
  <1> HIDE DEF calm
  <1>4. env' \in EnvCall
    BY <1>2, <1>3 DEF EnvCall
  <1>5. env'.of = snapshot /\ env'.step = "begun"
    BY <1>2
  <1> QED
    BY <1>2, <1>4, <1>5 DEF KeyIInv, EnvInv, Sound

\* The apply or restore in progress and the revisions through every step.
LEMMA NextEnvInv == KeyIInv /\ [Next]_vars => EnvInv'
  <1> SUFFICES ASSUME KeyIInv, [Next]_vars PROVE EnvInv'
    OBVIOUS
  <1>0. StoredType /\ EnvInv /\ ReferencesExist
    BY DEF KeyIInv
  <1>1. CASE env' = NoEnv /\ UNCHANGED revisions
    BY <1>0, <1>1 DEF EnvInv, EnvCall, NoEnv, Sound
  <1>2. CASE UNCHANGED <<env, revisions>> /\ (daemon.state = "serving" => daemon' = daemon)
    BY <1>0, <1>2 DEF EnvInv, Sound
  <1>3. ReadsKey \/ CreatesKey \/ WritesKey
          => UNCHANGED <<env, revisions>> /\ daemon.state # "serving"
    BY DEF ReadsKey, CreatesKey, WritesKey, Down
  <1>4. DisableTLS \/ UNCHANGED vars \/ (\E c \in Cred : UpdateTLS(c) \/ Delete(c))
        \/ (\E c \in Caller : ChecksSecret(c) \/ StoresRow(c) \/ PutsSecret(c) \/ SaveFails(c))
          => UNCHANGED <<env, revisions, daemon>>
    BY DEF DisableTLS, UpdateTLS, Delete, ChecksSecret, StoresRow, PutsSecret, SaveFails, vars
  <1>5. Crash \/ RestoresState \/ ApplyEnds => env' = NoEnv /\ UNCHANGED revisions
    BY DEF Crash, RestoresState, ApplyEnds
  <1>6. ASSUME NEW c \in Caller, NEW request \in Request, Reads(c, request) PROVE EnvInv'
    <2>1. PICK id \in Cred :
            env' = IF env # NoEnv /\ env.of.tls = id THEN [env EXCEPT !.calm = FALSE] ELSE env
      BY <1>0, <1>6, SaveBegins, Zenon
    <2>2. UNCHANGED <<revisions, daemon>>
      BY <1>6 DEF Reads
    <2>3. CASE env' = env
      BY <1>2, <2>2, <2>3
    <2>4. CASE env # NoEnv /\ env' = [env EXCEPT !.calm = FALSE]
      <3>1. env' \in EnvCall /\ env'.of = env.of /\ env'.step = env.step
        BY <1>0, <2>4, EnvDisturbed DEF EnvInv
      <3> QED
        BY <1>0, <2>2, <2>4, <3>1 DEF EnvInv, Sound
    <2> QED
      BY <2>1, <2>3, <2>4
  <1>7. CASE ApplyBegins
    BY <1>0, <1>7, SnapshotRead, BeginsEnvInv DEF ApplyBegins
  <1>8. CASE RestoreBegins
    <2>1. PICK snapshot \in revisions : Begins("restore", snapshot)
      BY <1>8 DEF RestoreBegins
    <2>2. snapshot \in Snapshot /\ Sound(snapshot)
      BY <1>0 DEF StoredType, EnvInv
    <2> QED
      BY <2>1, <2>2, BeginsEnvInv
  <1>9. CASE EnvironmentReads
    <2>1. UNCHANGED <<revisions, daemon>>
      BY <1>9 DEF EnvironmentReads
    <2>2. CASE env' = NoEnv
      BY <1>1, <2>1, <2>2
    <2>3. CASE env' # NoEnv
      <3>1. /\ env # NoEnv /\ env.of.tls # None /\ Exists(env.of.tls)
            /\ env' = [step |-> "read", kind |-> env.kind, of |-> env.of, calm |-> env.calm,
                       type |-> row[env.of.tls].type]
        BY <1>9, <2>3 DEF EnvironmentReads, Referenced, NoEnv
      <3>2. env.of \in Snapshot /\ env.kind \in {"apply", "restore"} /\ env.calm \in BOOLEAN
        BY <1>0, <3>1, EnvForms DEF EnvInv
      <3>3. row[env.of.tls].type \in Type
        BY <1>0, <3>1, <3>2 DEF StoredType, Exists, Row, Snapshot
      <3>4. env' \in EnvCall
        BY <3>1, <3>2, <3>3 DEF EnvCall
      <3>5. env'.of = env.of
        BY <3>1
      <3> QED
        BY <1>0, <2>1, <3>1, <3>4, <3>5 DEF EnvInv, Sound
    <2> QED
      BY <2>2, <2>3
  <1>10. CASE EnvironmentGives
    <2>1. UNCHANGED <<revisions, daemon>>
      BY <1>10 DEF EnvironmentGives
    <2>2. CASE env' = NoEnv
      BY <1>1, <2>1, <2>2
    <2>3. CASE env' # NoEnv
      <3>1. /\ env # NoEnv /\ env.step = "read" /\ secret[env.of.tls] # None
            /\ env' = [step |-> "given", kind |-> env.kind, of |-> env.of, calm |-> env.calm,
                       secret |-> secret[env.of.tls]]
        BY <1>10, <2>3 DEF EnvironmentGives, Referenced, Givable, NoEnv
      <3>2. env.of \in Snapshot /\ env.kind \in {"apply", "restore"} /\ env.calm \in BOOLEAN
        BY <1>0, <3>1, EnvForms DEF EnvInv
      <3>6. env.of.tls # None
        BY <1>0, <3>1 DEF EnvInv
      <3>3. secret[env.of.tls] \in Secret
        BY <1>0, <3>1, <3>2, <3>6 DEF StoredType, Snapshot
      <3>4. env' \in EnvCall
        BY <3>1, <3>2, <3>3 DEF EnvCall
      <3>5. env'.of = env.of
        BY <3>1
      <3> QED
        BY <1>0, <2>1, <3>1, <3>4, <3>5, <3>6 DEF EnvInv, Sound
    <2> QED
      BY <2>2, <2>3
  <1>11. CASE ApplyRecords
    <2>1. env # NoEnv /\ env' = NoEnv /\ revisions' = revisions \cup {env.of}
      BY <1>11 DEF ApplyRecords, NoEnv
    <2>2. Sound(env.of)
      BY <1>0, <2>1 DEF EnvInv
    <2> QED
      BY <1>0, <2>1, <2>2 DEF EnvInv, EnvCall, NoEnv, Sound
  <1> QED
    BY <1>1, <1>2, <1>3, <1>4, <1>5, <1>6, <1>7, <1>8, <1>9, <1>10, <1>11 DEF Next

\* Key file, rows, secrets and the profile through every step.
LEMMA NextKeyIInv == KeyIInv /\ [Next]_vars => KeyIInv'
  <1> SUFFICES ASSUME KeyIInv, [Next]_vars PROVE KeyIInv'
    OBVIOUS
  <1> DEFINE Rest == StoredType /\ KeyInv /\ SecretsReadable /\ ReferencesExist
  <1>0. EnvInv /\ Rest
    BY DEF KeyIInv
  <1> SUFFICES Rest'
    BY NextEnvInv DEF KeyIInv
  <1> USE <1>0, CredentialAssumption, RowAssumption
      DEF StoredType, KeyInv, SecretsReadable, ReferencesExist, Exists, Down
  <1>1. CASE ReadsKey
    BY <1>1 DEF ReadsKey, KeyExists
  \* Nothing is encrypted yet: a secret would need a whole file.
  <1>2. CASE CreatesKey
    BY <1>2 DEF CreatesKey, KeyExists
  <1>3. CASE WritesKey
    BY <1>3 DEF WritesKey
  <1>4. CASE Crash
    <2>1. \A c \in Caller : save[c].step = "stored" => save[c].of \in Cred
      BY DEF Save, NoSave
    <2>2. torn' \in SUBSET Cred
      BY <1>4, <2>1 DEF Crash
    <2> QED
      BY <1>4, <2>2 DEF Crash
  <1>5. ASSUME NEW c \in Caller, NEW request \in Request, Reads(c, request) PROVE Rest'
    <2>1. /\ UNCHANGED <<row, secret, tls, keyFile, daemon, used, revisions, restored>>
          /\ daemon.state = "serving" /\ saves' \in 0..MaxSaves
      BY <1>5 DEF Reads, Serving
    <2>2. save' \in [Caller -> Save \cup {NoSave}] /\ torn' \in SUBSET Cred
      BY <1>5, ReadsType
    <2> QED
      BY <2>1, <2>2
  <1>6. ASSUME NEW c \in Caller, ChecksSecret(c) PROVE Rest'
    <2>1. save[c] \in Save
      BY <1>6 DEF ChecksSecret, NoSave
    <2>2. save' \in [Caller -> Save \cup {NoSave}]
      BY <1>6, <2>1, SaveStep DEF ChecksSecret
    <2>3. daemon.state = "serving" /\ UNCHANGED <<row, secret, tls, keyFile, daemon, saves, used, revisions, torn, restored>>
      BY <1>6, <2>1, SaveStep DEF ChecksSecret
    <2> QED
      BY <2>2, <2>3
  <1>7. ASSUME NEW c \in Caller, StoresRow(c) PROVE Rest'
    <2>1. save[c] \in Save
      BY <1>7 DEF StoresRow, NoSave
    <2>2. save' \in [Caller -> Save \cup {NoSave}]
      BY <1>7, <2>1, SaveStep DEF StoresRow
    <2> DEFINE id == save[c].of
               r == [name |-> save[c].name, type |-> save[c].type]
    <2>3. r \in Row /\ id \in Cred
      BY <2>1, SaveStep DEF Row
    <2>4. /\ row' = [row EXCEPT ![id] = r] /\ used' = used \cup {id}
          /\ UNCHANGED <<secret, tls, keyFile, daemon, saves, revisions, torn, restored>>
      BY <1>7 DEF StoresRow
    <2> HIDE DEF id, r
    <2>5. row' \in [Cred -> Row \cup {None}] /\ \A d \in Cred : Exists(d) => Exists(d)'
      BY <2>3, <2>4
    <2>6. StoredType'
      BY <2>2, <2>3, <2>4, <2>5
    <2>9. save[c] # NoSave /\ daemon.state = "serving"
      BY <2>1, SaveStep
    <2>7. KeyInv' /\ SecretsReadable'
      BY <2>4, <2>9
    <2>8. ReferencesExist'
      BY <2>4, <2>5
    <2> QED
      BY <2>6, <2>7, <2>8
  <1>8. ASSUME NEW c \in Caller, PutsSecret(c) PROVE Rest'
    <2>1. save[c] \in Save /\ daemon.state = "serving"
      BY <1>8, SaveStep DEF PutsSecret, NoSave
    <2>2. [type |-> save[c].type, key |-> daemon.key] \in Secret
      <3>1. save[c].type \in Type
        BY <2>1, SaveStep
      <3>2. daemon.key \in 1..MaxKeys
        BY <2>1
      <3> QED
        BY <3>1, <3>2 DEF Secret
    <2> DEFINE id == save[c].of
               s == [type |-> save[c].type, key |-> daemon.key]
    <2>3. /\ id \in Cred /\ Exists(id) /\ secret' = [secret EXCEPT ![id] = s]
          /\ save' = [save EXCEPT ![c] = NoSave]
          /\ restored' = restored \ {id}
          /\ UNCHANGED <<row, tls, keyFile, daemon, saves, used, revisions, torn>>
      BY <1>8, <2>1, SaveStep DEF PutsSecret
    <2>4. s.key = daemon.key
      OBVIOUS
    <2> HIDE DEF id, s
    <2>5. StoredType'
      BY <2>2, <2>3 DEF s
    <2>6. KeyInv' /\ SecretsReadable'
      BY <2>1, <2>3, <2>4
    <2>7. ReferencesExist'
      BY <2>3
    <2> QED
      BY <2>5, <2>6, <2>7
  <1>9. ASSUME NEW c \in Caller, SaveFails(c) PROVE Rest'
    <2>1. save[c].of \in Cred
      BY <1>9 DEF SaveFails, Save
    <2> QED
      BY <1>9, <2>1 DEF SaveFails
  <1>10. ASSUME NEW c \in Cred, Delete(c) PROVE Rest'
    BY <1>10 DEF Delete, Deletable
  <1>11. ASSUME NEW c \in Cred, UpdateTLS(c) \/ DisableTLS PROVE Rest'
    BY <1>11 DEF UpdateTLS, DisableTLS
  <1>12. CASE DisableTLS
    BY <1>12 DEF DisableTLS
  <1>13. CASE ApplyBegins \/ RestoreBegins \/ EnvironmentReads \/ EnvironmentGives \/ ApplyEnds
    <2>1. UNCHANGED <<row, secret, tls, keyFile, daemon, save, saves, used, revisions, torn,
                      restored>>
      BY <1>13 DEF ApplyBegins, RestoreBegins, Begins, EnvironmentReads, EnvironmentGives,
         ApplyEnds
    <2> QED
      BY <2>1
  <1>15. CASE ApplyRecords
    <2>1. env \in EnvCall /\ env # NoEnv
      BY <1>15 DEF ApplyRecords, EnvInv, NoEnv
    <2>2. env.of \in Snapshot
      BY <2>1, EnvForms
    <2> QED
      BY <1>15, <2>2 DEF ApplyRecords
  \* The profile that is put back refers to a row that is put back with it.
  <1>16. CASE RestoresState
    <2>1. env \in EnvCall /\ env # NoEnv /\ Sound(env.of)
      BY <1>16 DEF RestoresState, EnvInv, NoEnv
    <2>2. env.of \in Snapshot
      BY <2>1, EnvForms
    <2> DEFINE snapshot == env.of
               changed == {c \in Cred : RestoredRows(snapshot)[c] # row[c]}
    <2>3. /\ row' = RestoredRows(snapshot) /\ tls' = snapshot.tls
          /\ torn' = torn \cup {c \in changed : Saving(c)} /\ restored' = restored \cup changed
          /\ UNCHANGED <<secret, keyFile, daemon, save, saves, used, revisions>>
      BY <1>16 DEF RestoresState
    <2>4. torn' \in SUBSET Cred /\ restored' \in SUBSET Cred
      BY <2>3
    <2> HIDE DEF changed
    <2>5. snapshot.tls \in Cred \cup {None} /\ snapshot.rows \in [Cred -> Row \cup {None}]
      BY <2>2 DEF Snapshot
    <2> HIDE DEF snapshot
    <2>6. /\ row' \in [Cred -> Row \cup {None}]
          /\ \A c \in Cred : row[c] # None \/ snapshot.rows[c] # None => row'[c] # None
      BY <2>3, <2>5 DEF RestoredRows
    <2>7. snapshot.tls # None => snapshot.rows[snapshot.tls] # None
      BY <2>1 DEF Sound, snapshot
    <2> QED
      BY <2>3, <2>4, <2>5, <2>6, <2>7
  <1>14. CASE UNCHANGED vars
    BY <1>14 DEF vars
  <1> QED
    BY <1>1, <1>2, <1>3, <1>4, <1>5, <1>6, <1>7, <1>8, <1>9, <1>10, <1>11, <1>12, <1>13,
       <1>14, <1>15, <1>16 DEF Next

LEMMA KeyIInvHolds == Spec => []KeyIInv
  BY InitKeyIInv, NextKeyIInv, PTL DEF Spec

\* The TLS profile and the secrets refer to credentials that exist, for any
\* number of concurrent saves, deletions and profile changes (the foreign keys
\* of migration 0008, SQLiteDNSProviderRepository.Delete).
THEOREM ReferencesAlwaysExist == Spec => []ReferencesExist
  BY KeyIInvHolds, PTL DEF KeyIInv

\* No crash costs a secret: every secret is encrypted with the key on disk
\* (loadOrCreateSecretKey).
THEOREM SecretsAlwaysReadable == Spec => []SecretsReadable
  BY KeyIInvHolds, PTL DEF KeyIInv

---------------------------------------------------------------------------
(* The two transactions of Save                                             *)

Active(c) == save[c] # NoSave
Stored(id) == \E c \in Caller : Active(c) /\ save[c].step = "stored" /\ save[c].of = id

\* Two saves of one credential leave it torn.
OneSave ==
    \A c, d \in Caller :
        c # d /\ Active(c) /\ Active(d) /\ save[c].of = save[d].of => save[c].of \in torn

\* A save that goes without a secret keeps the provider that is stored, and one
\* that still has a secret to store has stored its row.
TypeAgrees ==
    \A c \in Caller :
        Active(c) /\ save[c].of \notin torn =>
            /\ save[c].step \in {"read", "checked"} /\ save[c].same /\ Exists(save[c].of)
                 => row[save[c].of].type = save[c].type
            /\ save[c].step = "checked" => save[c].secret \/ save[c].same
            /\ save[c].step = "stored" /\ Exists(save[c].of)
                 => row[save[c].of].type = save[c].type /\ row[save[c].of].name = save[c].name

\* Only between the two transactions does a secret differ from its row.
SecretAgrees ==
    \A id \in Cred \ (torn \cup restored) :
        secret[id] # None /\ ~Stored(id) => secret[id].type = row[id].type

\* The name a save is about to store is nobody else's.
NamesApart ==
    /\ \A c \in Caller : Active(c) /\ save[c].of \notin torn =>
          \A d \in Cred \ (torn \cup restored) :
              d # save[c].of /\ Exists(d) => row[d].name # save[c].name
    /\ \A c, d \in Caller :
          /\ c # d /\ Active(c) /\ Active(d)
          /\ save[c].of \notin torn /\ save[d].of \notin torn
          => save[c].name # save[d].name

SaveInv == OneSave /\ TypeAgrees /\ SecretAgrees /\ NamesApart /\ NamesUnique

\* What a step does to one save: nothing, or a move along its steps.
LEMMA OtherSaves ==
    ASSUME NEW c \in Caller, StoredType
    PROVE /\ \A s : save' = [save EXCEPT ![c] = s] =>
                save'[c] = s /\ \A d \in Caller \ {c} : save'[d] = save[d]
          /\ \A d \in Caller : Active(d) => save[d] \in Save
          /\ \A d \in Caller : save[d].step # "idle" => Active(d)
  BY DEF StoredType, Active, NoSave

LEMMA InitSaveInv == Init => SaveInv
  BY DEF Init, SaveInv, OneSave, TypeAgrees, SecretAgrees, NamesApart, NamesUnique, Active,
     Exists

\* A save begins: unless it overlaps, nobody else is about its credential or its
\* name, and no other credential has the name.
LEMMA ReadsSaveInv ==
    ASSUME NEW c \in Caller, NEW request \in Request, KeyIInv, SaveInv, Reads(c, request)
    PROVE SaveInv'
  <1>0. StoredType
    BY DEF KeyIInv
  <1>1. PICK id \in Cred, same \in BOOLEAN :
          /\ save' = [save EXCEPT ![c] =
                [step |-> "read", of |-> id, name |-> request.name, type |-> request.type,
                 secret |-> request.secret, same |-> same]]
          /\ [step |-> "read", of |-> id, name |-> request.name, type |-> request.type,
              secret |-> request.secret, same |-> same] \in Save
          /\ same => row[id].type = request.type
          /\ IF request.of # None THEN id = request.of ELSE ~Saving(id)
          /\ torn' = IF Saving(id) \/ Naming(request.name) THEN torn \cup {id} ELSE torn
    BY <1>0, SaveBegins, Zenon
  <1> DEFINE new == [step |-> "read", of |-> id, name |-> request.name,
                     type |-> request.type, secret |-> request.secret, same |-> same]
  <1>2. /\ save' = [save EXCEPT ![c] = new] /\ new \in Save /\ new.step = "read"
        /\ new.of = id /\ new.name = request.name /\ new.type = request.type
    BY <1>1
  <1>3. new.same => row[id].type = request.type
    BY <1>1
  <1>4. UNCHANGED <<row, secret, restored>> /\ save[c] = NoSave
        /\ \A d \in Cred \ {id} : Exists(d) => row[d].name # request.name
    BY <1>1, CredentialAssumption DEF Reads, NameTaken, Exists
  <1> HIDE DEF new
  <1>5. save'[c] = new /\ \A d \in Caller \ {c} : save'[d] = save[d]
    BY <1>0, <1>2, OtherSaves
  <1>6. /\ torn \subseteq torn' /\ torn' \subseteq torn \cup {id}
        /\ id \notin torn' => \A d \in Caller \ {c} :
               Active(d) => save[d].of # id /\ save[d].name # request.name
    BY <1>1 DEF Saving, Naming, InProgress, Active
  <1> USE DEF SaveInv
  <1>7. OneSave'
    BY <1>2, <1>5, <1>6 DEF OneSave, Active
  <1>8. TypeAgrees'
    BY <1>2, <1>3, <1>4, <1>5, <1>6 DEF TypeAgrees, Active, Exists
  <1>9. SecretAgrees'
    <2>1. \A i \in Cred \ torn' : ~Stored(i)' => ~Stored(i)
      BY <1>4, <1>5 DEF Stored, Active
    <2> QED
      BY <1>4, <1>6, <2>1 DEF SecretAgrees
  <1>10. NamesApart'
    BY <1>2, <1>4, <1>5, <1>6 DEF NamesApart, Active, Exists
  <1>11. NamesUnique'
    BY <1>4, <1>6 DEF NamesUnique, Exists
  <1> QED
    BY <1>7, <1>8, <1>9, <1>10, <1>11

\* The secret is supplied or the provider is the stored one.
LEMMA ChecksSaveInv ==
    ASSUME NEW c \in Caller, KeyIInv, SaveInv, ChecksSecret(c) PROVE SaveInv'
  <1>0. StoredType
    BY DEF KeyIInv
  <1> DEFINE s == save[c]
             new == IF SecretSupplied(s) THEN [s EXCEPT !.step = "checked"] ELSE NoSave
  <1>1. s \in Save /\ s.step = "read" /\ Active(c) /\ UNCHANGED <<row, secret, torn, restored>>
    BY <1>0, OtherSaves DEF ChecksSecret
  <1>2. save' = [save EXCEPT ![c] = new]
    BY DEF ChecksSecret
  <1>3. new # NoSave => /\ new.step = "checked" /\ new.of = s.of /\ new.name = s.name
                        /\ new.type = s.type /\ new.same = s.same
                        /\ new.secret \/ new.same
    BY <1>1, SaveStep DEF SecretSupplied
  <1> HIDE DEF new
  <1>5. save'[c] = new /\ \A d \in Caller \ {c} : save'[d] = save[d]
    BY <1>0, <1>2, OtherSaves
  <1> USE DEF SaveInv
  <1>7. OneSave'
    BY <1>1, <1>3, <1>5 DEF OneSave, Active
  <1>8. TypeAgrees'
    BY <1>1, <1>3, <1>5 DEF TypeAgrees, Active, Exists
  <1>9. SecretAgrees'
    <2>1. \A i \in Cred \ torn' : ~Stored(i)' => ~Stored(i)
      BY <1>1, <1>5 DEF Stored, Active
    <2> QED
      BY <1>1, <2>1 DEF SecretAgrees
  <1>10. NamesApart'
    BY <1>1, <1>3, <1>5 DEF NamesApart, Active, Exists
  <1>11. NamesUnique'
    BY <1>1 DEF NamesUnique, Exists
  <1> QED
    BY <1>7, <1>8, <1>9, <1>10, <1>11

\* The row takes the name and the provider of the save.  A save without a
\* secret keeps the provider, so the secret still fits.
LEMMA StoresSaveInv ==
    ASSUME NEW c \in Caller, KeyIInv, SaveInv, StoresRow(c) PROVE SaveInv'
  <1>0. StoredType /\ ReferencesExist
    BY DEF KeyIInv
  <1> DEFINE s == save[c]
             id == s.of
             new == IF s.secret THEN [s EXCEPT !.step = "stored"] ELSE NoSave
  <1>1. s \in Save /\ s.step = "checked" /\ Active(c) /\ UNCHANGED <<secret, torn, restored>>
    BY <1>0, OtherSaves DEF StoresRow
  <1>2. save' = [save EXCEPT ![c] = new]
    BY DEF StoresRow
  <1>3. /\ new # NoSave => /\ new.step = "stored" /\ new.of = id /\ new.name = s.name
                           /\ new.type = s.type
        /\ s.secret => new # NoSave
    BY <1>1, SaveStep
  <1>4. /\ id \in Cred /\ row'[id].name = s.name /\ row'[id].type = s.type /\ row'[id] # None
        /\ \A d \in Cred \ {id} : row'[d] = row[d]
    <2>1. id \in Cred /\ [name |-> s.name, type |-> s.type] \in Row
      BY <1>1, SaveStep DEF Row
    <2> QED
      BY <1>0, <2>1, RowAssumption DEF StoresRow, StoredType
  <1> HIDE DEF new
  <1>5. save'[c] = new /\ \A d \in Caller \ {c} : save'[d] = save[d]
    BY <1>0, <1>2, OtherSaves
  <1> USE DEF SaveInv
  <1>6. id \notin torn => \A d \in Caller \ {c} : Active(d) => save[d].of # id
    BY <1>1 DEF OneSave
  <1>7. OneSave'
    BY <1>1, <1>3, <1>5 DEF OneSave, Active
  <1>8. TypeAgrees'
    <2>1. \A d \in Caller \ {c} : Active(d) /\ save[d].of \notin torn =>
             save[d].of # id /\ save[d].of \in Cred
      BY <1>0, <1>1, <1>6, OtherSaves, SaveStep
    <2> QED
      BY <1>1, <1>3, <1>4, <1>5, <2>1 DEF TypeAgrees, Active, Exists
  <1>9. SecretAgrees'
    <2> SUFFICES ASSUME NEW i \in Cred \ (torn \cup restored), secret[i] # None, ~Stored(i)'
                 PROVE secret[i].type = row'[i].type
      BY <1>1 DEF SecretAgrees
    <2>1. ~Stored(i)
      BY <1>1, <1>5 DEF Stored, Active
    <2>2. CASE i # id
      BY <1>4, <2>1, <2>2 DEF SecretAgrees
    <2>3. CASE i = id
      <3>1. ~s.secret
        BY <1>3, <1>5, <2>3 DEF Stored, Active
      <3>2. s.same
        BY <1>1, <2>3, <3>1 DEF TypeAgrees
      <3>3. Exists(id)
        BY <1>0, <2>3 DEF ReferencesExist
      <3>4. row[id].type = s.type
        BY <1>1, <2>3, <3>2, <3>3 DEF TypeAgrees
      <3> QED
        BY <1>4, <2>1, <2>3, <3>4 DEF SecretAgrees
    <2> QED
      BY <2>2, <2>3
  <1>10. NamesApart'
    <2>1. \A d \in Caller \ {c} : Active(d) /\ save[d].of \notin torn /\ id \notin torn =>
             save[d].name # s.name
      BY <1>1 DEF NamesApart
    <2> QED
      BY <1>1, <1>3, <1>4, <1>5, <2>1 DEF NamesApart, Active, Exists
  <1>11. NamesUnique'
    <2>1. id \notin torn => \A d \in Cred \ (torn \cup restored) :
              d # id /\ Exists(d) => row[d].name # s.name
      BY <1>1 DEF NamesApart
    <2> QED
      BY <1>1, <1>4, <2>1 DEF NamesUnique, Exists
  <1> QED
    BY <1>7, <1>8, <1>9, <1>10, <1>11

\* The secret that is stored is for the provider of the row.
LEMMA PutsSaveInv ==
    ASSUME NEW c \in Caller, KeyIInv, SaveInv, PutsSecret(c) PROVE SaveInv'
  <1>0. StoredType
    BY DEF KeyIInv
  <1> DEFINE id == save[c].of
  <1>1. /\ save[c] \in Save /\ save[c].step = "stored" /\ Active(c) /\ Exists(id)
        /\ UNCHANGED <<row, torn>> /\ restored' = restored \ {id}
    BY <1>0, OtherSaves DEF PutsSecret
  <1>2. id \in Cred /\ secret'[id].type = save[c].type
        /\ \A d \in Cred \ {id} : secret'[d] = secret[d]
    BY <1>0, <1>1, SaveStep DEF PutsSecret, StoredType
  <1>5. save'[c] = NoSave /\ \A d \in Caller \ {c} : save'[d] = save[d]
    BY <1>0, OtherSaves DEF PutsSecret
  <1> USE DEF SaveInv
  <1>7. OneSave'
    BY <1>1, <1>5 DEF OneSave, Active
  <1>8. TypeAgrees'
    BY <1>1, <1>5 DEF TypeAgrees, Active, Exists
  <1>9. SecretAgrees'
    <2>1. \A i \in Cred \ {id} : ~Stored(i)' => ~Stored(i)
      BY <1>5 DEF Stored, Active
    <2>2. id \notin torn => row[id].type = save[c].type
      BY <1>1 DEF TypeAgrees
    <2> QED
      BY <1>1, <1>2, <2>1, <2>2 DEF SecretAgrees
  \* The name, too, is what the save had looked up.
  <1>6. id \notin torn => row[id].name = save[c].name
    BY <1>1 DEF TypeAgrees
  <1>10. NamesApart'
    <2>1. \A d \in Caller \ {c} : Active(d) /\ save[d].of \notin torn /\ id \notin torn =>
             save[d].name # row[id].name
      BY <1>1, <1>6 DEF NamesApart
    <2> QED
      BY <1>1, <1>5, <2>1 DEF NamesApart, Active, Exists
  <1>11. NamesUnique'
    <2>1. id \notin torn => \A d \in Cred \ (torn \cup restored) :
              d # id /\ Exists(d) => row[d].name # row[id].name
      BY <1>1, <1>6 DEF NamesApart
    <2> QED
      BY <1>1, <2>1 DEF NamesUnique, Exists
  <1> QED
    BY <1>7, <1>8, <1>9, <1>10, <1>11

\* A save that fails between its transactions tears its credential.
LEMMA FailsSaveInv ==
    ASSUME NEW c \in Caller, KeyIInv, SaveInv, SaveFails(c) PROVE SaveInv'
  <1>0. StoredType
    BY DEF KeyIInv
  <1>1. /\ torn \subseteq torn' /\ (save[c].step = "stored" => save[c].of \in torn')
        /\ UNCHANGED <<row, secret, restored>>
    BY DEF SaveFails
  <1>5. save'[c] = NoSave /\ \A d \in Caller \ {c} : save'[d] = save[d]
    BY <1>0, OtherSaves DEF SaveFails
  <1> USE DEF SaveInv
  <1>7. OneSave'
    BY <1>1, <1>5 DEF OneSave, Active
  <1>8. TypeAgrees'
    BY <1>1, <1>5 DEF TypeAgrees, Active, Exists
  <1>9. SecretAgrees'
    <2>1. \A i \in Cred \ torn' : ~Stored(i)' => ~Stored(i)
      BY <1>1, <1>5 DEF Stored, Active
    <2> QED
      BY <1>1, <2>1 DEF SecretAgrees
  <1>10. NamesApart'
    BY <1>1, <1>5 DEF NamesApart, Active, Exists
  <1>11. NamesUnique'
    BY <1>1 DEF NamesUnique, Exists
  <1> QED
    BY <1>7, <1>8, <1>9, <1>10, <1>11

\* So does a crash.
LEMMA CrashSaveInv ==
    ASSUME KeyIInv, SaveInv, Crash PROVE SaveInv'
  <1>1. /\ torn \subseteq torn' /\ UNCHANGED <<row, secret, restored>>
        /\ \A i \in Cred : Stored(i) => i \in torn'
        /\ \A c \in Caller : ~Active(c)'
    BY DEF Crash, Stored, Active
  <1> USE DEF SaveInv
  <1> QED
    BY <1>1 DEF OneSave, TypeAgrees, SecretAgrees, NamesApart, NamesUnique, Exists, Stored

\* A deletion heals a credential nobody is saving.
LEMMA DeleteSaveInv ==
    ASSUME NEW c \in Cred, KeyIInv, SaveInv, Delete(c) PROVE SaveInv'
  <1>0. StoredType
    BY DEF KeyIInv
  <1>1. /\ save' = save /\ row'[c] = None /\ secret'[c] = None
        /\ \A d \in Cred \ {c} : row'[d] = row[d] /\ secret'[d] = secret[d]
        /\ \A d \in Caller : Active(d) => (save[d].of \in torn' <=> save[d].of \in torn)
        /\ \A d \in Cred \ {c} : d \in torn' <=> d \in torn
        /\ restored' = restored \ {c}
    BY <1>0 DEF Delete, StoredType, Saving, InProgress, Active
  <1>2. \A d \in Caller : Active(d) => save[d].of \in Cred
    BY <1>0, OtherSaves, SaveStep
  <1> USE DEF SaveInv
  <1>7. OneSave'
    BY <1>1 DEF OneSave, Active
  <1>8. TypeAgrees'
    BY <1>1, <1>2 DEF TypeAgrees, Active, Exists
  <1>9. SecretAgrees'
    BY <1>1 DEF SecretAgrees, Stored, Active
  <1>10. NamesApart'
    BY <1>1, <1>2 DEF NamesApart, Active, Exists
  <1>11. NamesUnique'
    BY <1>1 DEF NamesUnique, Exists
  <1> QED
    BY <1>7, <1>8, <1>9, <1>10, <1>11

\* A restore excepts every credential it changes, and tears those being saved.
LEMMA RestoresSaveInv ==
    ASSUME KeyIInv, SaveInv, RestoresState PROVE SaveInv'
  <1>0. StoredType
    BY DEF KeyIInv
  <1> DEFINE changed == {c \in Cred : RestoredRows(env.of)[c] # row[c]}
  <1>1. /\ row' = RestoredRows(env.of) /\ UNCHANGED <<secret, save>>
        /\ torn' = torn \cup {c \in changed : Saving(c)} /\ restored' = restored \cup changed
    BY DEF RestoresState
  <1>2. \A c \in Cred \ changed : row'[c] = row[c]
    BY <1>1
  <1>3. \A c \in Caller : Active(c) /\ save[c].of \in changed => save[c].of \in torn'
    BY <1>1 DEF Active, Saving, InProgress
  <1> HIDE DEF changed
  <1>4. \A c \in Caller : Active(c) => save[c].of \in Cred
    BY <1>0, OtherSaves, SaveStep
  <1>5. torn \subseteq torn' /\ restored \subseteq restored' /\ changed \subseteq restored'
    BY <1>1
  <1> USE DEF SaveInv
  <1>7. OneSave'
    BY <1>1, <1>5 DEF OneSave, Active
  <1>8. TypeAgrees'
    BY <1>1, <1>2, <1>3, <1>4, <1>5 DEF TypeAgrees, Active, Exists
  <1>9. SecretAgrees'
    BY <1>1, <1>2, <1>5 DEF SecretAgrees, Stored, Active
  <1>10. NamesApart'
    BY <1>1, <1>2, <1>5 DEF NamesApart, Active, Exists
  <1>11. NamesUnique'
    BY <1>1, <1>2, <1>5 DEF NamesUnique, Exists
  <1> QED
    BY <1>7, <1>8, <1>9, <1>10, <1>11

LEMMA NextSaveInv == KeyIInv /\ SaveInv /\ [Next]_vars => SaveInv'
  <1> SUFFICES ASSUME KeyIInv, SaveInv, [Next]_vars PROVE SaveInv'
    OBVIOUS
  <1>1. CASE UNCHANGED <<row, secret, save, torn, restored>>
    BY <1>1 DEF SaveInv, OneSave, TypeAgrees, SecretAgrees, NamesApart, NamesUnique, Active,
       Exists, Stored
  <1>2. ReadsKey \/ CreatesKey \/ WritesKey \/ DisableTLS \/ ApplyBegins \/ RestoreBegins
        \/ EnvironmentReads \/ EnvironmentGives \/ ApplyRecords \/ ApplyEnds
        \/ (\E c \in Cred : UpdateTLS(c)) \/ UNCHANGED vars
          => UNCHANGED <<row, secret, save, torn, restored>>
    BY DEF ReadsKey, CreatesKey, WritesKey, DisableTLS, ApplyBegins, RestoreBegins, Begins,
       EnvironmentReads, EnvironmentGives, ApplyRecords, ApplyEnds, UpdateTLS, vars
  <1> QED
    BY <1>1, <1>2, ReadsSaveInv, ChecksSaveInv, StoresSaveInv, PutsSaveInv, FailsSaveInv,
       CrashSaveInv, DeleteSaveInv, RestoresSaveInv DEF Next

LEMMA SaveInvHolds == Spec => []SaveInv
  BY InitSaveInv, NextSaveInv, KeyIInvHolds, PTL DEF Spec

\* The secret of a credential was entered for its provider, unless saves of it
\* overlapped, one was cut off between its transactions, or a restore put back an
\* older row since its last complete save, for any number of callers and revisions
\* (DNSProviderService.Save, RestoreState).
THEOREM SecretsOfProviders == Spec => []SecretOfProvider
  <1>1. SaveInv => SecretOfProvider
    BY DEF SaveInv, SecretAgrees, SecretOfProvider, Stored, Saving, InProgress, Active
  <1> QED
    BY <1>1, SaveInvHolds, PTL

\* No two credentials share a name unless overlapping saves gave it to one of
\* them or a restore put it back (DNSProviderService.Save's look-up of the name,
\* RestoreState).
THEOREM NamesAreUnique == Spec => []NamesUnique
  <1>1. SaveInv => NamesUnique
    BY DEF SaveInv
  <1> QED
    BY <1>1, SaveInvHolds, PTL

---------------------------------------------------------------------------
(* The environment of an apply or a restore                                 *)

\* While it is calm, its credential is neither torn, restored nor being saved,
\* and has the provider of the snapshot.
EnvAgrees ==
    env # NoEnv /\ env.calm /\ env.of.tls # None =>
        /\ env.of.tls \notin torn \cup restored /\ ~Saving(env.of.tls)
        /\ Exists(env.of.tls) => row[env.of.tls].type = env.of.rows[env.of.tls].type
        /\ env.step = "given" => env.secret.type = env.of.rows[env.of.tls].type

LEMMA EnvReads ==
    ASSUME NEW c \in Caller, NEW request \in Request, KeyIInv, EnvAgrees, Reads(c, request)
    PROVE EnvAgrees'
  <1>0. StoredType /\ env \in EnvCall
    BY DEF KeyIInv, EnvInv
  <1>1. PICK id \in Cred, same \in BOOLEAN :
          /\ save' = [save EXCEPT ![c] =
                [step |-> "read", of |-> id, name |-> request.name, type |-> request.type,
                 secret |-> request.secret, same |-> same]]
          /\ [step |-> "read", of |-> id, name |-> request.name, type |-> request.type,
              secret |-> request.secret, same |-> same] \in Save
          /\ same => row[id].type = request.type
          /\ IF request.of # None THEN id = request.of ELSE ~Saving(id)
          /\ torn' = IF Saving(id) \/ Naming(request.name) THEN torn \cup {id} ELSE torn
          /\ env' = IF env # NoEnv /\ env.of.tls = id THEN [env EXCEPT !.calm = FALSE] ELSE env
    BY <1>0, SaveBegins, Zenon
  <1>2. UNCHANGED <<row, restored>>
    BY DEF Reads
  <1>4. CASE env # NoEnv /\ env.of.tls = id
    BY <1>0, <1>1, <1>4, EnvDisturbed DEF EnvAgrees
  <1>5. CASE env = NoEnv
    BY <1>1, <1>5 DEF EnvAgrees
  <1>6. CASE env # NoEnv /\ env.of.tls # id
    <2>1. env' = env
      BY <1>1, <1>6
    <2> DEFINE new == [step |-> "read", of |-> id, name |-> request.name,
                       type |-> request.type, secret |-> request.secret, same |-> same]
    <2>2. save' = [save EXCEPT ![c] = new] /\ new.of = id
      BY <1>1
    <2> HIDE DEF new
    <2>3. save'[c].of = id /\ \A d \in Caller \ {c} : save'[d] = save[d]
      BY <1>0, <2>2, OtherSaves
    <2>4. env.of.tls \notin torn => env.of.tls \notin torn'
      BY <1>1, <1>6
    <2>5. ~Saving(env.of.tls) => ~Saving(env.of.tls)'
      BY <1>6, <2>1, <2>3 DEF Saving, InProgress
    <2> QED
      BY <1>2, <2>1, <2>4, <2>5 DEF EnvAgrees, Exists
  <1> QED
    BY <1>4, <1>5, <1>6

\* Steps of a save that is not about the credential, or has disturbed the call.
LEMMA EnvSaves ==
    ASSUME NEW c \in Caller, KeyIInv, EnvAgrees,
           ChecksSecret(c) \/ StoresRow(c) \/ PutsSecret(c) \/ SaveFails(c)
    PROVE EnvAgrees'
  <1>0. StoredType /\ env \in EnvCall
    BY DEF KeyIInv, EnvInv
  <1>1. Active(c) /\ save[c] \in Save /\ UNCHANGED env
    BY <1>0, OtherSaves DEF ChecksSecret, StoresRow, PutsSecret, SaveFails, Active
  <1> DEFINE id == save[c].of
  <1>2. id \in Cred /\ Saving(id)
    BY <1>1, SaveStep DEF Saving, InProgress, Active
  <1>3. /\ \A d \in Caller \ {c} : save'[d] = save[d]
        /\ save'[c] = NoSave \/ save'[c].of = id
    <2>1. CASE ChecksSecret(c)
      BY <1>0, <1>1, <2>1, SaveStep DEF ChecksSecret, StoredType
    <2>2. CASE StoresRow(c)
      BY <1>0, <1>1, <2>2, SaveStep DEF StoresRow, StoredType
    <2>3. CASE PutsSecret(c)
      BY <1>0, <2>3 DEF PutsSecret, StoredType
    <2>4. CASE SaveFails(c)
      BY <1>0, <2>4 DEF SaveFails, StoredType
    <2> QED
      BY <2>1, <2>2, <2>3, <2>4
  <1>4. /\ torn' \subseteq torn \cup {id} /\ restored' \subseteq restored
        /\ \A d \in Cred \ {id} : row'[d] = row[d]
    BY <1>0, <1>2 DEF ChecksSecret, StoresRow, PutsSecret, SaveFails, StoredType
  <1>6. ASSUME env # NoEnv, env.calm, env.of.tls # None PROVE EnvAgrees'
    <2>1. env.of.tls \in Cred
      BY <1>0, <1>6, EnvForms DEF Snapshot
    <2>2. env.of.tls # id /\ ~Saving(env.of.tls) /\ env.of.tls \notin torn \cup restored
      BY <1>2, <1>6 DEF EnvAgrees
    <2>3. ~Saving(env.of.tls)'
      BY <1>1, <1>3, <2>2 DEF Saving, InProgress
    <2> QED
      BY <1>1, <1>4, <1>6, <2>1, <2>2, <2>3 DEF EnvAgrees, Exists
  <1> QED
    BY <1>1, <1>6 DEF EnvAgrees

\* A call that begins calm agrees with its snapshot.
LEMMA EnvBegins ==
    ASSUME NEW kind, NEW snapshot, Begins(kind, snapshot) PROVE EnvAgrees'
  <1>1. /\ env'.calm => Calm(snapshot)
        /\ env'.of = snapshot /\ env'.step = "begun"
        /\ UNCHANGED <<row, save, torn, restored>>
    BY DEF Begins
  <1> QED
    BY <1>1 DEF EnvAgrees, Calm, Exists, Saving, InProgress

\* The row and then the secret are read of the snapshot's credential.
LEMMA EnvSteps ==
    ASSUME KeyIInv, SaveInv, EnvAgrees, EnvironmentReads \/ EnvironmentGives
    PROVE EnvAgrees'
  <1>0. StoredType /\ ReferencesExist /\ EnvInv
    BY DEF KeyIInv
  <1>1. UNCHANGED <<row, secret, save, torn, restored>>
    BY DEF EnvironmentReads, EnvironmentGives
  <1>2. CASE env' = NoEnv
    BY <1>2 DEF EnvAgrees
  <1>3. CASE EnvironmentReads /\ env' # NoEnv
    <2>1. env # NoEnv /\ env'.of = env.of /\ env'.calm = env.calm /\ env'.step = "read"
      BY <1>3 DEF EnvironmentReads, NoEnv
    <2> QED
      BY <1>1, <2>1 DEF EnvAgrees, Exists, Saving, InProgress
  <1>4. CASE EnvironmentGives /\ env' # NoEnv
    <2>1. /\ env # NoEnv /\ env.step = "read" /\ secret[env.of.tls] # None
          /\ env'.of = env.of /\ env'.calm = env.calm /\ env'.secret = secret[env.of.tls]
      BY <1>4 DEF EnvironmentGives, Referenced, Givable, NoEnv
    <2>2. env.of.tls \in Cred
      BY <1>0, <2>1, EnvForms DEF EnvInv, Snapshot
    <2>3. ASSUME env.calm
          PROVE secret[env.of.tls].type = env.of.rows[env.of.tls].type
      <3>1. env.of.tls \in Cred \ (torn \cup restored) /\ ~Saving(env.of.tls)
        BY <1>0, <2>1, <2>2, <2>3 DEF EnvAgrees, EnvInv
      <3>2. Exists(env.of.tls)
        BY <1>0, <2>1, <2>2 DEF ReferencesExist
      <3>3. row[env.of.tls].type = env.of.rows[env.of.tls].type
        BY <1>0, <2>1, <2>3, <3>2 DEF EnvAgrees, EnvInv
      <3>4. ~Stored(env.of.tls)
        BY <3>1 DEF Stored, Saving, InProgress, Active
      <3> QED
        BY <2>1, <3>1, <3>3, <3>4 DEF SaveInv, SecretAgrees
    <2> QED
      BY <1>1, <2>1, <2>3 DEF EnvAgrees, Exists, Saving, InProgress
  <1> QED
    BY <1>2, <1>3, <1>4

LEMMA NextEnv == KeyIInv /\ SaveInv /\ EnvAgrees /\ [Next]_vars => EnvAgrees'
  <1> SUFFICES ASSUME KeyIInv, SaveInv, EnvAgrees, [Next]_vars PROVE EnvAgrees'
    OBVIOUS
  <1>0. StoredType /\ env \in EnvCall
    BY DEF KeyIInv, EnvInv
  <1>1. CASE env' = NoEnv
    BY <1>1 DEF EnvAgrees
  <1>2. ASSUME NEW c \in Cred, Delete(c) PROVE EnvAgrees'
    <2>1. UNCHANGED <<env, save>> /\ torn' \subseteq torn /\ restored' \subseteq restored
      BY <1>2 DEF Delete
    <2>2. \A d \in Cred : row'[d] = row[d] \/ row'[d] = None
      BY <1>0, <1>2 DEF Delete, StoredType
    <2>3. env # NoEnv /\ env.of.tls # None => env.of.tls \in Cred
      BY <1>0, EnvForms DEF Snapshot
    <2> QED
      BY <2>1, <2>2, <2>3 DEF EnvAgrees, Exists, Saving, InProgress
  <1>3. CASE UNCHANGED <<row, save, torn, restored, env>>
    BY <1>3 DEF EnvAgrees, Exists, Saving, InProgress
  <1>4. ReadsKey \/ CreatesKey \/ WritesKey \/ DisableTLS \/ (\E c \in Cred : UpdateTLS(c))
        \/ UNCHANGED vars => UNCHANGED <<row, save, torn, restored, env>>
    BY DEF ReadsKey, CreatesKey, WritesKey, DisableTLS, UpdateTLS, vars
  <1>5. Crash \/ ApplyRecords \/ RestoresState \/ ApplyEnds => env' = NoEnv
    BY DEF Crash, ApplyRecords, RestoresState, ApplyEnds
  <1>6. ApplyBegins \/ RestoreBegins => EnvAgrees'
    BY EnvBegins DEF ApplyBegins, RestoreBegins
  <1> QED
    BY <1>1, <1>2, <1>3, <1>4, <1>5, <1>6, EnvReads, EnvSaves, EnvSteps DEF Next

LEMMA EnvHolds == Spec => []EnvAgrees
  <1>1. Init => EnvAgrees
    BY DEF Init, EnvAgrees
  <1> QED
    BY <1>1, NextEnv, KeyIInvHolds, SaveInvHolds, PTL DEF Spec

\* The rows, the key file, the requests, the revisions and the apply in progress
\* keep their types; requests only exist while davd serves.
THEOREM TypeCorrect == Spec => []TypeOK
  <1>1. KeyIInv => TypeOK
    BY DEF KeyIInv, StoredType, KeyInv, EnvInv, TypeOK
  <1> QED
    BY <1>1, KeyIInvHolds, PTL

\* The secret an apply or a restore hands to Caddy was entered for the provider
\* its snapshot was compiled for, unless the credential has had another provider
\* since the snapshot, was torn, restored or saved meanwhile, for any number of
\* saves and revisions (DNSProviderService.Environment).
THEOREM EnvironmentsOfProviders == Spec => []EnvironmentOfProvider
  <1>1. KeyIInv /\ EnvAgrees => EnvironmentOfProvider
    BY DEF KeyIInv, EnvInv, EnvAgrees, EnvironmentOfProvider, NoEnv
  <1> QED
    BY <1>1, KeyIInvHolds, EnvHolds, PTL

=============================================================================
