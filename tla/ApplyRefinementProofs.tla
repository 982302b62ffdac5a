------------------------ MODULE ApplyRefinementProofs ------------------------
(***************************************************************************)
(* ApplyService implements ApplyContract, for any number of callers,       *)
(* states, documents and revisions.                                        *)
(*                                                                         *)
(* Every action of ApplyService is one action of the contract or a         *)
(* stutter.  The lemmas of the first section state when a step is a given  *)
(* contract action, in terms of the mapped quantities; those of the second *)
(* and third take the actions of ApplyService one by one.  What Caddy      *)
(* serves before and after a step is known from IInv; that a restored      *)
(* database compiles to the restored document is SnapshotInv.              *)
(***************************************************************************)
EXTENDS ApplyRefinement, ApplyServiceProofs

USE StoreAssumption, RevisionAssumption, CallerAssumption

---------------------------------------------------------------------------
(* The mapped quantities *)

\* Steps that leave the tables alone.
LEMMA TablesKept ==
  ASSUME UNCHANGED storeVars
  PROVE  /\ UNCHANGED db
         /\ StoredDocuments' = StoredDocuments
         /\ ActiveConfig' = ActiveConfig
         /\ \A n : Exists(n)' <=> Exists(n)
         /\ \A n : ConfigOf(n)' = ConfigOf(n)
  BY DEF storeVars, StoredDocuments, ActiveConfig, Exists, ConfigOf

LEMMA StoredDocument ==
  ASSUME NEW n, Exists(n)
  PROVE  ConfigOf(n) \in StoredDocuments
  BY DEF Exists, ConfigOf, StoredDocuments

\* The operation in progress owns the target.
LEMMA Inside ==
  ASSUME IInv, NEW c \in Callers, pc[c] # "idle"
  PROVE  lock = c /\ lock # None /\ Target = TargetOf(c)
  BY Alone DEF Target

LEMMA AfterGoto ==
  ASSUME IInv, NEW c \in Callers, pc[c] # "idle", NEW label, Goto(c, label)
  PROVE  /\ (lock' # None) = (lock # None)
         /\ pc'[c] = label
         /\ Target' = TargetOf(c)'
  BY Inside, Facts DEF Goto, Target

LEMMA AfterFinish ==
  ASSUME NEW c \in Callers, Finish(c)
  PROVE  /\ (lock' # None) = FALSE
         /\ Target' = NoConfig
  BY DEF Finish, Target

---------------------------------------------------------------------------
(* When a step is an action of the contract *)

LEMMA IsWork ==
  ASSUME lock # None, (lock' # None) = (lock # None), UNCHANGED storeVars, Target' = Target,
         serving' \in {serving, NoConfig, ActiveConfig, Target}, adrift' \in BOOLEAN,
         adrift' \/ serving' \in {NoConfig, ActiveConfig, Target}
  PROVE  Contract!Work
  BY TablesKept DEF Contract!Work

LEMMA IsGiveUp ==
  ASSUME lock # None, (lock' # None) = FALSE, UNCHANGED db,
         StoredDocuments' = StoredDocuments, ActiveConfig' = ActiveConfig,
         Target' = NoConfig, serving' \in {serving, NoConfig, ActiveConfig}, adrift' \in BOOLEAN,
         adrift' \/ serving' \in {NoConfig, ActiveConfig}
  PROVE  Contract!GiveUp
  BY DEF Contract!GiveUp

LEMMA IsCommit ==
  ASSUME lock # None, (lock' # None) = FALSE, Target \in StoredDocuments,
         StoredDocuments' = StoredDocuments, ActiveConfig' = Target, Target' = NoConfig,
         adrift \/ serving \in {Target, NoConfig},
         db'.core = db.core \/ (db'.core \in Core /\ Compile[db'.core] = Target),
         UNCHANGED <<serving, adrift>>
  PROVE  Contract!Commit
  BY DEF Contract!Commit

Stutter == UNCHANGED Contract!contractVars

LEMMA IsStutter ==
  ASSUME (lock' # None) = (lock # None), UNCHANGED storeVars, Target' = Target,
         UNCHANGED <<serving, adrift>>
  PROVE  Stutter
  BY TablesKept DEF Stutter, Contract!contractVars

Implements == Contract!ContractNext \/ Stutter

\* What Caddy serves within and after an operation.
LEMMA ServesOwn ==
  ASSUME IInv
  PROVE  /\ adrift \in BOOLEAN
         /\ \A c \in Callers : pc[c] # "idle" =>
               adrift \/ serving \in {NoConfig, ActiveConfig, IF pc[c] \in Switched THEN TargetOf(c) ELSE ActiveConfig}
         /\ lock = None => adrift \/ serving \in {NoConfig, ActiveConfig}
  BY DEF IInv, ServingOK, TypeOK, RuntimeTypeOK, RuntimeMatchesActive, TargetOf, Switched, Late

---------------------------------------------------------------------------
(* The actions of the pipeline *)

\* A step within the operation that only calls Caddy.
LEMMA CaddyStep ==
  ASSUME IInv, IInv', NEW c \in Callers, pc[c] # "idle", NEW label, Goto(c, label),
         UNCHANGED storeVars, TargetOf(c)' = TargetOf(c), label # "idle",
         serving' \in {serving, NoConfig, ActiveConfig, TargetOf(c)}
  PROVE  Contract!Work
  <1>1. lock # None /\ Target = TargetOf(c)
    BY Inside
  <1>2. (lock' # None) = (lock # None) /\ pc'[c] = label /\ Target' = TargetOf(c)'
    BY AfterGoto
  <1>3. ActiveConfig' = ActiveConfig
    BY TablesKept
  <1>4. adrift' \in BOOLEAN
    BY ServesOwn DEF IInv, TypeOK, RuntimeTypeOK
  <1>5. adrift' \/ serving' \in {NoConfig, ActiveConfig, TargetOf(c)}
    BY <1>2, <1>3 DEF IInv, ServingOK, TargetOf, Switched, Late
  <1> QED
    BY <1>1, <1>2, <1>4, <1>5, IsWork

\* A step that ends the operation without success.
LEMMA EndStep ==
  ASSUME IInv, IInv', NEW c \in Callers, pc[c] # "idle", Finish(c),
         UNCHANGED db, StoredDocuments' = StoredDocuments, ActiveConfig' = ActiveConfig,
         serving' \in {serving, NoConfig, ActiveConfig}
  PROVE  Contract!GiveUp
  <1>1. lock # None
    BY Inside
  <1>2. (lock' # None) = FALSE /\ Target' = NoConfig /\ lock' = None
    BY AfterFinish DEF Finish
  <1>3. adrift' \in BOOLEAN /\ (adrift' \/ serving' \in {NoConfig, ActiveConfig})
    BY <1>2 DEF IInv, TypeOK, RuntimeTypeOK, RuntimeMatchesActive
  <1> QED
    BY <1>1, <1>2, <1>3, IsGiveUp

LEMMA AbortStep ==
  ASSUME IInv, IInv', NEW c \in Callers, Abort(c)
  PROVE  Contract!GiveUp
  <1>1. pc[c] # "idle" /\ Finish(c) /\ UNCHANGED storeVars /\ serving' = serving
    BY DEF Abort, runtimeVars
  <1> QED
    BY <1>1, TablesKept, EndStep DEF storeVars

LEMMA TakeSnapshotStep ==
  ASSUME IInv, NEW c \in Callers, TakeSnapshot(c)
  PROVE  Contract!Snapshot
  <1>1. /\ pc[c] = "snapshot" /\ Goto(c, "identify")
        /\ UNCHANGED storeVars /\ UNCHANGED <<serving, adrift>>
        /\ loc' = [loc EXCEPT ![c].snap = db]
    BY DEF TakeSnapshot, runtimeVars
  <1>2. lock # None /\ Target = NoConfig
    BY <1>1, Inside DEF TargetOf, Late
  <1>3. (lock' # None) = (lock # None) /\ pc'[c] = "identify" /\ Target' = TargetOf(c)'
    BY <1>1, AfterGoto
  <1>4. loc'[c].snap = db
    BY <1>1, Facts DEF Locals
  <1>5. Target' = Compile[db.core]
    BY <1>3, <1>4 DEF TargetOf
  <1> QED
    BY <1>1, <1>2, <1>3, <1>5, TablesKept DEF Contract!Snapshot

LEMMA IdentifyStep ==
  ASSUME IInv, NEW c \in Callers, Identify(c)
  PROVE  Stutter
  <1>1. /\ pc[c] = "identify" /\ Goto(c, "record")
        /\ UNCHANGED storeVars /\ UNCHANGED <<serving, adrift>>
    BY DEF Identify, runtimeVars
  <1>2. loc'[c].snap = loc[c].snap
    BY Facts DEF Identify, Locals
  <1>3. Target' = Target
    BY <1>1, <1>2, Inside, AfterGoto DEF TargetOf
  <1> QED
    BY <1>1, <1>3, AfterGoto, IsStutter

LEMMA RecordStep ==
  ASSUME IInv, IInv', NEW c \in Callers, Record(c)
  PROVE  Contract!Store
  <1> DEFINE s == loc[c].snap
  <1>1. /\ pc[c] = "record" /\ Goto(c, "decide")
        /\ UNCHANGED <<serving, adrift>>
    BY DEF Record, runtimeVars
  <1>2. lock # None /\ Target = Compile[s.core] /\ s \in State
    BY <1>1, Inside, Facts DEF TargetOf, LocalOK
  <1>3. (lock' # None) = (lock # None) /\ pc'[c] = "decide" /\ Target' = TargetOf(c)'
    BY <1>1, AfterGoto
  <1>4. Target # NoConfig
    BY <1>2 DEF State
  <1>5. Target' = ConfigOf(loc[c].rev)'
    BY <1>3 DEF TargetOf, Late
  <1>6. CASE loc[c].created /\ Create(s) /\ loc' = [loc EXCEPT ![c].rev = nextNumber]
    <2> DEFINE n == nextNumber
               row == [config |-> Compile[s.core], state |-> s, apply |-> "NOT_APPLIED"]
    <2>1. /\ n \in Number /\ revisions' = [revisions EXCEPT ![n] = row]
          /\ UNCHANGED <<db, active>>
      BY <1>6 DEF Create
    <2>2. loc'[c].rev = n
      BY <1>6, Facts DEF Locals
    <2>3. ~Exists(n)
      <3>1. NumberInv /\ nextNumber \in Nat
        BY Facts DEF StoreInv, StoreTypeOK
      <3> QED
        BY <3>1, <2>1 DEF NumberInv
    <2>4. row \in Revision /\ row.config = Compile[s.core]
      BY <1>2 DEF Revision, State, ApplyStatus
    <2> HIDE DEF row
    <2>5. \A m \in Number : revisions'[m] = IF m = n THEN row ELSE revisions[m]
      BY <2>1, Facts DEF StoreTypeOK
    <2>6. \A m : Exists(m)' <=> Exists(m) \/ m = n
      BY <2>1, <2>4, <2>5 DEF Exists
    <2>7. Target' = Target
      BY <1>2, <1>5, <2>1, <2>2, <2>4, <2>5, <2>6 DEF ConfigOf
    <2>8. StoredDocuments' = StoredDocuments \cup {Target}
      BY <1>2, <2>1, <2>3, <2>4, <2>5, <2>6 DEF StoredDocuments
    <2>9. ActiveConfig' = ActiveConfig
      <3>1. active # n
        BY <2>1, <2>3, Facts DEF StoreInv, ActiveWasApplied, Number
      <3>2. Exists(active)' <=> Exists(active)
        BY <2>1, <2>6, <3>1
      <3>3. Exists(active) => revisions'[active] = revisions[active]
        BY <2>5, <3>1 DEF Exists
      <3> QED
        BY <2>1, <3>2, <3>3 DEF ActiveConfig
    <2> QED
      BY <1>1, <1>2, <1>3, <1>4, <2>1, <2>7, <2>8, <2>9 DEF Contract!Store
  <1>7. CASE ~loc[c].created /\ SetDesired(loc[c].rev) /\ UNCHANGED loc
    <2>1. UNCHANGED <<db, revisions, active, loc>>
      BY <1>7 DEF SetDesired
    <2>2. Exists(loc[c].rev) /\ ConfigOf(loc[c].rev) = Target
      BY <1>1, <1>2, <1>7, Facts DEF LocalOK, Matching, Restorable, ConfigOf
    <2>3. /\ StoredDocuments' = StoredDocuments /\ ActiveConfig' = ActiveConfig
          /\ ConfigOf(loc[c].rev)' = ConfigOf(loc[c].rev)
      BY <2>1 DEF StoredDocuments, ActiveConfig, ConfigOf, Exists
    <2>4. Target \in StoredDocuments
      BY <2>2, StoredDocument
    <2> QED
      BY <1>1, <1>2, <1>3, <1>4, <1>5, <2>1, <2>2, <2>3, <2>4 DEF Contract!Store
  <1> QED
    BY <1>6, <1>7 DEF Record

\* A label within Late changes nothing about the target but what loc says.
LEMMA LateTarget ==
  ASSUME NEW c \in Callers, pc[c] \in Late, pc'[c] \in Late, UNCHANGED storeVars,
         loc'[c].rev = loc[c].rev
  PROVE  TargetOf(c)' = TargetOf(c) /\ TargetOf(c) = ConfigOf(loc[c].rev)
  BY TablesKept DEF TargetOf, Late

LEMMA DecideStep ==
  ASSUME IInv, NEW c \in Callers, Decide(c)
  PROVE  Stutter
  <1>1. /\ pc[c] = "decide" /\ UNCHANGED storeVars /\ UNCHANGED <<serving, adrift>>
    BY DEF Decide, runtimeVars
  <1>2. loc'[c].rev = loc[c].rev /\ \E label \in Late : Goto(c, label)
    BY Facts DEF Decide, Locals, Late
  <1>3. PICK label \in Late : Goto(c, label)
    BY <1>2
  <1>4. pc'[c] = label /\ (lock' # None) = (lock # None) /\ Target' = TargetOf(c)'
    BY <1>1, <1>3, AfterGoto
  <1>5. Target' = Target
    BY <1>1, <1>2, <1>4, Inside, LateTarget DEF Late
  <1> QED
    BY <1>1, <1>4, <1>5, IsStutter

\* Calls of Caddy between two labels of Late.
LEMMA LateCall ==
  ASSUME IInv, IInv', NEW c \in Callers, pc[c] \in Late, NEW label \in Late, Goto(c, label),
         UNCHANGED <<storeVars, loc>>,
         serving' \in {serving, NoConfig, ActiveConfig, ConfigOf(loc[c].rev)}
  PROVE  Contract!Work
  <1>1. pc[c] # "idle" /\ label # "idle"
    BY DEF Late
  <1>2. pc'[c] = label
    BY <1>1, AfterGoto
  <1>3. TargetOf(c)' = TargetOf(c) /\ TargetOf(c) = ConfigOf(loc[c].rev)
    BY <1>2, LateTarget
  <1> QED
    BY <1>1, <1>3, CaddyStep

\* What the calls may leave Caddy with.
LEMMA Calls ==
  ASSUME NEW config, NEW env, NEW ok
  PROVE  /\ StartReturns(config, env, ok) => serving' \in {serving, config}
         /\ ReloadReturns(config, ok) => serving' \in {serving, config}
         /\ StopReturns(ok) => serving' \in {serving, NoConfig}
  BY DEF StartReturns, ReloadReturns, StopReturns, Down, runtimeVars

\* PutBack loads the active document or stops Caddy.
LEMMA PutsBack ==
  ASSUME IInv, NEW c \in Callers, pc[c] \in Late, PutBack(c)
  PROVE  serving' \in {serving, NoConfig, ActiveConfig}
  BY LateConfigs, Calls DEF PutBack

LEMMA CallStep ==
  ASSUME IInv, IInv', NEW c \in Callers,
         \/ ActivateRestart(c) \/ Swap(c) \/ Fallback(c) \/ ActivateInPlace(c) \/ Rollback(c)
         \/ Verify(c) \/ MarkAppliedFails(c) \/ RestoreStateFails(c)
  PROVE  Contract!Work
  <1>1. CASE ActivateRestart(c)
    BY <1>1, LateCall, Calls DEF ActivateRestart, Late
  <1>2. CASE Swap(c)
    BY <1>2, LateCall, Calls DEF Swap, Late
  <1>3. CASE Fallback(c)
    BY <1>3, LateCall, LateConfigs, Calls DEF Fallback, Late
  <1>4. CASE ActivateInPlace(c)
    BY <1>4, LateCall, Calls DEF ActivateInPlace, Late
  <1>5. CASE Rollback(c)
    BY <1>5, LateCall, PutsBack DEF Rollback, Late
  <1>6. CASE Verify(c)
    BY <1>6, LateCall DEF Verify, Late
  <1>7. CASE MarkAppliedFails(c)
    BY <1>7, LateCall DEF MarkAppliedFails, Late
  <1>8. CASE RestoreStateFails(c)
    BY <1>8, LateCall DEF RestoreStateFails, Late
  <1> QED
    BY <1>1, <1>2, <1>3, <1>4, <1>5, <1>6, <1>7, <1>8

\* Marking a revision changes no document.
LEMMA MarkedTables ==
  ASSUME IInv, NEW n, Exists(n), NEW status \in ApplyStatus,
         revisions' = [revisions EXCEPT ![n].apply = status], nextNumber' = nextNumber
  PROVE  /\ StoredDocuments' = StoredDocuments
         /\ \A m : ConfigOf(m)' = ConfigOf(m) /\ (Exists(m)' <=> Exists(m))
  <1>1. StoreInv /\ n \in Number
    BY DEF IInv, Exists
  <1>2. \A m : (Exists(m)' <=> Exists(m)) /\ ConfigOf(m)' = ConfigOf(m)
    BY <1>1, StatusKeeps
  <1>3. \A m \in Number : Exists(m) => revisions'[m].config = revisions[m].config
    BY <1>2 DEF ConfigOf
  <1>4. StoredDocuments' = StoredDocuments
    BY <1>2, <1>3 DEF StoredDocuments
  <1> QED
    BY <1>2, <1>4

\* Marking a revision active makes its document the active one.
LEMMA MarkedActive ==
  ASSUME IInv, NEW n, Exists(n), nextNumber' = nextNumber, active' = n,
         revisions' = [revisions EXCEPT ![n].apply = "APPLIED"]
  PROVE  /\ StoredDocuments' = StoredDocuments
         /\ ActiveConfig' = ConfigOf(n)
  <1>1. "APPLIED" \in ApplyStatus
    BY DEF ApplyStatus
  <1>2. /\ StoredDocuments' = StoredDocuments
        /\ \A m : ConfigOf(m)' = ConfigOf(m) /\ (Exists(m)' <=> Exists(m))
    BY <1>1, MarkedTables
  <1>3. Exists(n)' /\ ConfigOf(n)' = ConfigOf(n)
    BY <1>2
  <1>4. ActiveConfig' = ConfigOf(n)'
    BY <1>3 DEF ActiveConfig, ConfigOf, Exists
  <1> QED
    BY <1>2, <1>3, <1>4

LEMMA ApplySucceedsStep ==
  ASSUME IInv, NEW c \in Callers, ApplySucceeds(c)
  PROVE  Contract!Commit
  <1> DEFINE n == loc[c].rev
  <1>1. /\ pc[c] \in {"shortcut", "mark"} /\ pc[c] # "idle" /\ pc[c] \in Late /\ Finish(c)
        /\ UNCHANGED <<serving, adrift>> /\ UNCHANGED db
    BY DEF ApplySucceeds, MarkApplied, Late, runtimeVars
  <1>2. /\ Exists(n) /\ revisions' = [revisions EXCEPT ![n].apply = "APPLIED"]
        /\ nextNumber' = nextNumber /\ active' = n
    BY DEF ApplySucceeds, MarkApplied
  <1>3. StoredDocuments' = StoredDocuments /\ ActiveConfig' = ConfigOf(n)
    BY <1>2, MarkedActive
  <1>4. lock # None /\ Target = ConfigOf(n)
    BY <1>1, Inside DEF TargetOf, Late
  <1>5. ActiveConfig' = Target
    BY <1>3, <1>4
  <1>6. adrift \/ serving \in {Target, NoConfig}
    BY <1>1, <1>4, Facts DEF ServingOK, Switched
  <1>7. (lock' # None) = FALSE /\ Target' = NoConfig
    BY <1>1, AfterFinish
  <1>8. Target \in StoredDocuments
    BY <1>2, <1>4, StoredDocument
  <1> QED
    BY <1>1, <1>3, <1>4, <1>5, <1>6, <1>7, <1>8, IsCommit

LEMMA FailedStep ==
  ASSUME IInv, IInv', NEW c \in Callers, Failed(c)
  PROVE  Contract!GiveUp
  <1>1. pc[c] # "idle" /\ Finish(c) /\ serving' = serving
    BY DEF Failed, runtimeVars
  <1>2. CASE UNCHANGED storeVars
    BY <1>1, <1>2, TablesKept, EndStep DEF storeVars
  <1>3. CASE MarkFailed(loc[c].rev)
    <2>1. UNCHANGED <<db, active>>
      BY <1>3 DEF MarkFailed
    <2>2. /\ StoredDocuments' = StoredDocuments
          /\ \A m : ConfigOf(m)' = ConfigOf(m) /\ (Exists(m)' <=> Exists(m))
      BY <1>3, MarkedTables DEF MarkFailed, ApplyStatus
    <2>3. ActiveConfig' = ActiveConfig
      BY <2>1, <2>2 DEF ActiveConfig, ConfigOf
    <2> QED
      BY <1>1, <2>1, <2>2, <2>3, EndStep
  <1> QED
    BY <1>2, <1>3 DEF Failed

---------------------------------------------------------------------------
(* Start, Stop, Restart and Restore *)

LEMMA ResumeStep ==
  ASSUME IInv, NEW c \in Callers, Resume(c)
  PROVE  Stutter
  <1>1. /\ pc[c] = "resume" /\ pc[c] # "idle" /\ UNCHANGED storeVars /\ UNCHANGED <<serving, adrift>>
    BY DEF Resume, runtimeVars
  <1>2. PICK label \in {"halt", "boot", "snapshot"} : Goto(c, label)
    BY DEF Resume
  <1>3. pc'[c] = label /\ (lock' # None) = (lock # None) /\ Target' = TargetOf(c)'
    BY <1>1, <1>2, AfterGoto
  <1>4. Target = NoConfig /\ Target' = NoConfig
    BY <1>1, <1>3, Inside DEF TargetOf, Late
  <1> QED
    BY <1>1, <1>3, <1>4, IsStutter

LEMMA HaltStep ==
  ASSUME IInv, IInv', NEW c \in Callers, Halt(c)
  PROVE  Contract!Work \/ Contract!GiveUp
  <1>1. pc[c] = "halt" /\ pc[c] # "idle" /\ UNCHANGED storeVars
    BY DEF Halt
  <1>2. serving' \in {serving, NoConfig}
    BY Calls DEF Halt
  <1>3. CASE Goto(c, "boot")
    <2>1. pc'[c] = "boot"
      BY <1>1, <1>3, AfterGoto
    <2>2. TargetOf(c)' = TargetOf(c)
      BY <1>1, <2>1 DEF TargetOf, Late
    <2> QED
      BY <1>1, <1>2, <1>3, <2>2, CaddyStep
  <1>4. CASE Finish(c)
    BY <1>1, <1>2, <1>4, TablesKept, EndStep DEF storeVars
  <1> QED
    BY <1>3, <1>4 DEF Halt

\* The last calls of Start, Restart, Stop and of a failed Restore.
LEMMA LastCallStep ==
  ASSUME IInv, IInv', NEW c \in Callers, Boot(c) \/ StopRuntime(c) \/ Unswap(c)
  PROVE  Contract!GiveUp
  <1>1. pc[c] # "idle" /\ UNCHANGED storeVars /\ Finish(c)
    BY DEF Boot, StopRuntime, Unswap
  <1>2. serving' \in {serving, NoConfig, ActiveConfig}
    <2>1. CASE Boot(c)
      <3>1. ConfigOf(loc[c].rev) = ActiveConfig
        BY <2>1, Facts DEF Boot, LocalOK, ConfigOf, ActiveConfig
      <3> QED
        BY <2>1, <3>1, Calls DEF Boot
    <2>2. CASE StopRuntime(c)
      BY <2>2, Calls DEF StopRuntime
    <2>3. CASE Unswap(c)
      BY <2>3, LateConfigs, Calls DEF Unswap, Late
    <2> QED
      BY <2>1, <2>2, <2>3
  <1> QED
    BY <1>1, <1>2, TablesKept, EndStep DEF storeVars

LEMMA RestoreChecksStep ==
  ASSUME IInv, NEW c \in Callers, RestoreChecks(c)
  PROVE  Contract!Select
  <1>1. /\ pc[c] = "restore" /\ pc[c] # "idle" /\ Goto(c, "activate")
        /\ UNCHANGED storeVars /\ UNCHANGED <<serving, adrift>> /\ Exists(loc[c].rev)
    BY DEF RestoreChecks, runtimeVars, Restorable
  <1>2. loc'[c].rev = loc[c].rev
    <2>1. PICK env, changed :
            loc' = [loc EXCEPT ![c].env = env, ![c].prev = active,
                               ![c].prevEnv = environment, ![c].changed = changed]
      BY DEF RestoreChecks
    <2>2. loc \in [Callers -> Locals]
      BY Facts
    <2>3. loc'[c] = [loc[c] EXCEPT !.env = env, !.prev = active,
                                   !.prevEnv = environment, !.changed = changed]
      BY <2>1, <2>2
    <2>4. loc[c] \in Locals
      BY <2>2
    <2> QED
      BY <2>3, <2>4 DEF Locals
  <1>3. lock # None /\ Target = NoConfig
    BY <1>1, Inside DEF TargetOf, Late
  <1>4. pc'[c] = "activate" /\ (lock' # None) = (lock # None) /\ Target' = TargetOf(c)'
    BY <1>1, AfterGoto
  <1>5. Target' = ConfigOf(loc[c].rev)
    BY <1>1, <1>2, <1>4, TablesKept DEF TargetOf, Late
  <1>6. Target' \in StoredDocuments
    BY <1>1, <1>5, StoredDocument
  <1> QED
    BY <1>1, <1>3, <1>4, <1>6, TablesKept DEF Contract!Select

LEMMA RestoreSucceedsStep ==
  ASSUME IInv, SnapshotInv, NEW c \in Callers, RestoreSucceeds(c)
  PROVE  Contract!Commit
  <1> DEFINE n == loc[c].rev
  <1>1. /\ pc[c] = "commit" /\ pc[c] # "idle" /\ pc[c] \in Late /\ Finish(c)
        /\ UNCHANGED <<serving, adrift>>
    BY DEF RestoreSucceeds, Late, runtimeVars
  <1>2. /\ Restorable(n) /\ Exists(n) /\ n \in Number
        /\ revisions' = [revisions EXCEPT ![n].apply = "APPLIED"]
        /\ nextNumber' = nextNumber /\ active' = n
        /\ db'.core = revisions[n].state.core
    BY DEF RestoreSucceeds, RestoreState, Restorable, Exists
  <1>3. StoredDocuments' = StoredDocuments /\ ActiveConfig' = ConfigOf(n)
    BY <1>2, MarkedActive
  <1>4. lock # None /\ Target = ConfigOf(n)
    BY <1>1, Inside DEF TargetOf, Late
  <1>5. ActiveConfig' = Target
    BY <1>3, <1>4
  <1>6. adrift \/ serving \in {Target, NoConfig}
    BY <1>1, <1>4, Facts DEF ServingOK, Switched
  <1>7. (lock' # None) = FALSE /\ Target' = NoConfig
    BY <1>1, AfterFinish
  <1>8. Target \in StoredDocuments
    BY <1>2, <1>4, StoredDocument
  <1>9. db'.core \in Core /\ Compile[db'.core] = Target
    <2>1. revisions[n].state \in State
      BY <1>2, Facts DEF StoreTypeOK, Revision, Restorable, Exists
    <2>2. Compile[revisions[n].state.core] = revisions[n].config
      BY <1>2 DEF SnapshotInv
    <2> QED
      BY <1>2, <1>4, <2>1, <2>2 DEF State, ConfigOf
  <1> QED
    BY <1>1, <1>3, <1>4, <1>5, <1>6, <1>7, <1>8, <1>9, IsCommit

LEMMA UnrestoreStep ==
  ASSUME IInv, IInv', NEW c \in Callers, Unrestore(c)
  PROVE  Contract!Work \/ Contract!GiveUp
  <1>1. pc[c] = "unrestore" /\ pc[c] # "idle" /\ pc[c] \in Late /\ UNCHANGED storeVars
    BY DEF Unrestore, Late
  <1>2. CASE \E ok \in BOOLEAN : StopReturns(ok) /\ Goto(c, "unswap") /\ UNCHANGED loc
    BY <1>1, <1>2, Calls, LateCall DEF Late
  <1>3. CASE PutBack(c) /\ Finish(c)
    BY <1>1, <1>3, PutsBack, TablesKept, EndStep DEF storeVars
  <1> QED
    BY <1>2, <1>3 DEF Unrestore

LEMMA StepImplements ==
  ASSUME IInv, IInv', SnapshotInv, NEW c \in Callers, Step(c)
  PROVE  Implements
  <1>1. CASE Abort(c) \/ TakeSnapshot(c) \/ Identify(c) \/ Record(c) \/ Decide(c)
    BY <1>1, AbortStep, TakeSnapshotStep, IdentifyStep, RecordStep, DecideStep
    DEF Implements, Contract!ContractNext
  <1>2. CASE \/ ActivateRestart(c) \/ Swap(c) \/ Fallback(c) \/ ActivateInPlace(c) \/ Rollback(c)
             \/ Verify(c) \/ MarkAppliedFails(c) \/ RestoreStateFails(c)
    BY <1>2, CallStep DEF Implements, Contract!ContractNext
  <1>3. CASE ApplySucceeds(c) \/ Failed(c) \/ Resume(c) \/ Halt(c)
    BY <1>3, ApplySucceedsStep, FailedStep, ResumeStep, HaltStep
    DEF Implements, Contract!ContractNext
  <1>4. CASE Boot(c) \/ StopRuntime(c) \/ Unswap(c)
    BY <1>4, LastCallStep DEF Implements, Contract!ContractNext
  <1>5. CASE RestoreChecks(c) \/ RestoreSucceeds(c) \/ Unrestore(c)
    BY <1>5, RestoreChecksStep, RestoreSucceedsStep, UnrestoreStep
    DEF Implements, Contract!ContractNext
  <1> QED
    BY <1>1, <1>2, <1>3, <1>4, <1>5 DEF Step

---------------------------------------------------------------------------
(* The rest of the system *)

\* A request that got the lock has chosen no target yet.
LEMMA RequestStep ==
  ASSUME IInv, NEW c \in Callers, Request(c)
  PROVE  Contract!Begin
  <1>1. PICK label \in {"snapshot", "resume", "stop", "restore"} :
            \E kind, n : Acquire(c, kind, n, label)
    BY DEF Request, Apply, Start, Restart, Stop, Restore
  <1>2. /\ lock = None /\ lock' = c /\ c # None
        /\ UNCHANGED storeVars /\ UNCHANGED <<serving, adrift>>
    BY <1>1 DEF Acquire, runtimeVars
  <1>3. pc'[c] = label
    BY <1>1 DEF Acquire, IInv, TypeOK
  <1>4. Target = NoConfig /\ Target' = NoConfig
    BY <1>2, <1>3 DEF Target, TargetOf, Late
  <1> QED
    BY <1>2, <1>4, TablesKept DEF Contract!Begin

\* Only revisions other than the active one are deleted, between operations.
LEMMA DeleteStep ==
  ASSUME IInv, NEW n \in Number, DeleteRevision(n)
  PROVE  Contract!Forget
  <1>1. /\ n # active /\ lock = None /\ revisions' = [revisions EXCEPT ![n] = NoRevision]
        /\ UNCHANGED <<db, active, serving, adrift, lock>>
    BY DEF DeleteRevision, Delete, runtimeVars
  <1>2. \A m \in Number : revisions'[m] = IF m = n THEN NoRevision ELSE revisions[m]
    BY <1>1 DEF IInv, StoreInv, StoreTypeOK
  <1>3. \A m : Exists(m)' <=> Exists(m) /\ m # n
    BY <1>2 DEF Exists
  <1>4. StoredDocuments' \subseteq StoredDocuments
    BY <1>2, <1>3 DEF StoredDocuments, Exists
  <1>5. ActiveConfig' = ActiveConfig
    BY <1>1, <1>2, <1>3 DEF ActiveConfig, Exists
  <1>6. ActiveConfig # NoConfig => ActiveConfig \in StoredDocuments'
    BY <1>1, <1>2, <1>3 DEF ActiveConfig, StoredDocuments, Exists
  <1>7. Target = NoConfig /\ Target' = NoConfig
    BY <1>1 DEF Target
  <1> QED
    BY <1>1, <1>4, <1>5, <1>6, <1>7 DEF Contract!Forget

\* Edits reach neither the revisions nor the operation in progress.
LEMMA WriteStep ==
  ASSUME NEW s \in State, Write(s)
  PROVE  Contract!Edit
  <1>1. /\ db' = s /\ s.core \in Core
        /\ UNCHANGED <<revisions, active, serving, adrift, lock, pc, loc>>
    BY DEF Write, WriteRows, State, runtimeVars
  <1>2. StoredDocuments' = StoredDocuments /\ ActiveConfig' = ActiveConfig /\ Target' = Target
    BY <1>1 DEF StoredDocuments, ActiveConfig, Target, TargetOf, ConfigOf, Exists
  <1> QED
    BY <1>1, <1>2 DEF Contract!Edit

LEMMA ReplaceSecretStep ==
  ASSUME NEW v \in Secret, ReplaceSecret(v)
  PROVE  Stutter
  <1>1. UNCHANGED <<db, revisions, active, serving, adrift, lock, pc, loc>>
    BY DEF ReplaceSecret, PutSecret, runtimeVars
  <1>2. StoredDocuments' = StoredDocuments /\ ActiveConfig' = ActiveConfig /\ Target' = Target
    BY <1>1 DEF StoredDocuments, ActiveConfig, Target, TargetOf, ConfigOf, Exists
  <1> QED
    BY <1>1, <1>2 DEF Stutter, Contract!contractVars

\* Caddy has a load left to finish only when an operation failed over it.
LEMMA RuntimeStep ==
  ASSUME IInv, Runtime
  PROVE  Contract!LateLoad \/ Contract!Exit
  <1>1. UNCHANGED storeVars /\ UNCHANGED <<pc, loc, lock>>
    BY DEF Runtime
  <1>2. Target' = Target /\ UNCHANGED db /\ StoredDocuments' = StoredDocuments
        /\ ActiveConfig' = ActiveConfig
    BY <1>1, TablesKept DEF Target, TargetOf
  <1>3. CASE LateLoad
    BY <1>1, <1>2, <1>3 DEF LateLoad, IInv, DriftInv, TypeOK, RuntimeTypeOK, Contract!LateLoad
  <1>4. CASE CaddyExits
    BY <1>1, <1>2, <1>4 DEF CaddyExits, Down, Contract!Exit
  <1> QED
    BY <1>3, <1>4 DEF Runtime

LEMMA CrashStep ==
  ASSUME DaemonCrash
  PROVE  Contract!Crash
  BY TablesKept DEF DaemonCrash, Down, Target, Contract!Crash

LEMMA StutterStep ==
  ASSUME UNCHANGED vars
  PROVE  Stutter
  <1>1. UNCHANGED storeVars /\ UNCHANGED <<pc, loc, lock, serving, adrift>>
    BY DEF vars, runtimeVars
  <1> QED
    BY <1>1, TablesKept DEF Target, TargetOf, Stutter, Contract!contractVars

LEMMA NextImplements ==
  ASSUME IInv, IInv', SnapshotInv, [Next]_vars
  PROVE  Implements
  <1>1. CASE \E c \in Callers : Request(c) \/ Step(c)
    BY <1>1, RequestStep, StepImplements DEF Implements, Contract!ContractNext
  <1>2. CASE \E n \in Number : DeleteRevision(n)
    BY <1>2, DeleteStep DEF Implements, Contract!ContractNext
  <1>3. CASE (\E s \in State : Write(s)) \/ (\E v \in Secret : ReplaceSecret(v))
    BY <1>3, WriteStep, ReplaceSecretStep DEF Implements, Contract!ContractNext
  <1>4. CASE Runtime \/ DaemonCrash \/ UNCHANGED vars
    BY <1>4, RuntimeStep, CrashStep, StutterStep DEF Implements, Contract!ContractNext
  <1> QED
    BY <1>1, <1>2, <1>3, <1>4 DEF Next

---------------------------------------------------------------------------
(* Snapshots compile to their documents *)

\* Rows are added by Create alone, with the document compiled from the snapshot.
LEMMA CreateSnapshot ==
  ASSUME StoreTypeOK, SnapshotInv, NEW s, Create(s)
  PROVE  SnapshotInv'
  BY DEF StoreTypeOK, SnapshotInv, Create, Restorable, Exists

\* Every other step leaves the rows there are, or removes some.
LEMMA KeepsSnapshot ==
  ASSUME SnapshotInv, Appends, \A n : Exists(n)' => Exists(n)
  PROVE  SnapshotInv'
  BY DEF SnapshotInv, Appends, Restorable, Exists

\* Apart from Record, a step of an operation writes at most a status.
LEMMA WritersOfRows ==
  ASSUME NEW c \in Callers, Step(c), ~Record(c)
  PROVE  \/ UNCHANGED revisions
         \/ \E n \in Number, status \in ApplyStatus :
               Exists(n) /\ revisions' = [revisions EXCEPT ![n].apply = status]
  <1>1. CASE UNCHANGED storeVars
    BY <1>1 DEF storeVars
  <1>2. CASE ApplySucceeds(c) \/ Failed(c) \/ RestoreSucceeds(c)
    <2>1. "APPLIED" \in ApplyStatus /\ "FAILED" \in ApplyStatus
      BY DEF ApplyStatus
    <2>2. /\ ApplySucceeds(c) => MarkApplied(loc[c].rev)
          /\ Failed(c) => MarkFailed(loc[c].rev) \/ UNCHANGED storeVars
          /\ RestoreSucceeds(c) => RestoreState(loc[c].rev)
      BY DEF ApplySucceeds, Failed, RestoreSucceeds
    <2>3. ASSUME NEW n, MarkApplied(n) \/ MarkFailed(n) \/ RestoreState(n)
          PROVE  \E k \in Number, status \in ApplyStatus :
                    Exists(k) /\ revisions' = [revisions EXCEPT ![k].apply = status]
      BY <2>1, <2>3, Zenon DEF MarkApplied, MarkFailed, RestoreState, Restorable, Exists
    <2> QED
      BY <1>1, <1>2, <2>2, <2>3
  <1>3. CASE Abort(c) \/ TakeSnapshot(c) \/ Identify(c) \/ Decide(c) \/ Resume(c)
             \/ RestoreChecks(c)
    BY <1>1, <1>3, Zenon DEF Abort, TakeSnapshot, Identify, Decide, Resume, RestoreChecks
  <1>4. CASE ActivateRestart(c) \/ Swap(c) \/ Fallback(c) \/ ActivateInPlace(c)
             \/ Verify(c) \/ MarkAppliedFails(c) \/ Rollback(c)
    BY <1>1, <1>4, Zenon
    DEF ActivateRestart, Swap, Fallback, ActivateInPlace, Verify, MarkAppliedFails, Rollback
  <1>5. CASE Halt(c) \/ Boot(c) \/ StopRuntime(c) \/ RestoreStateFails(c) \/ Unrestore(c)
             \/ Unswap(c)
    BY <1>1, <1>5, Zenon
    DEF Halt, Boot, StopRuntime, RestoreStateFails, Unrestore, Unswap
  <1> QED
    BY <1>2, <1>3, <1>4, <1>5 DEF Step

LEMMA NextSnapshot ==
  ASSUME IInv, SnapshotInv, [Next]_vars
  PROVE  SnapshotInv'
  <1>1. StoreTypeOK /\ NumberInv
    BY DEF IInv, StoreInv
  <1>2. CASE UNCHANGED revisions
    BY <1>2 DEF SnapshotInv, Restorable, Exists
  <1>3. ASSUME NEW c \in Callers, Request(c) PROVE UNCHANGED revisions
    BY <1>3 DEF Request, Apply, Start, Restart, Stop, Restore, Acquire, storeVars
  <1>4. ASSUME NEW c \in Callers, Step(c) PROVE SnapshotInv'
    <2>1. Appends
      BY <1>1, <1>4, StepAppends
    <2>2. CASE Record(c)
      BY <1>1, <1>2, <2>2, CreateSnapshot DEF Record, SetDesired
    <2>3. CASE ~Record(c)
      <3>1. UNCHANGED revisions \/ \E n \in Number, status \in ApplyStatus :
                Exists(n) /\ revisions' = [revisions EXCEPT ![n].apply = status]
        BY <1>4, <2>3, WritersOfRows
      <3>2. ASSUME NEW n \in Number, NEW status \in ApplyStatus, Exists(n),
                   revisions' = [revisions EXCEPT ![n].apply = status]
            PROVE  \A m : Exists(m)' <=> Exists(m)
        BY <1>1, <3>2, StatusWritten
      <3> QED
        BY <1>2, <2>1, <3>1, <3>2, KeepsSnapshot
    <2> QED
      BY <2>2, <2>3
  <1>5. ASSUME NEW n \in Number, DeleteRevision(n) PROVE SnapshotInv'
    BY <1>1, <1>5 DEF DeleteRevision, Delete, StoreTypeOK, SnapshotInv, Restorable, Exists
  <1>6. ASSUME NEW s \in State, Write(s) PROVE UNCHANGED revisions
    BY <1>6 DEF Write, WriteRows
  <1>7. ASSUME NEW v \in Secret, ReplaceSecret(v) PROVE UNCHANGED revisions
    BY <1>7 DEF ReplaceSecret, PutSecret
  <1>8. CASE Runtime \/ DaemonCrash \/ UNCHANGED vars
    BY <1>2, <1>8 DEF Runtime, DaemonCrash, vars, storeVars
  <1> QED
    BY <1>2, <1>3, <1>4, <1>5, <1>6, <1>7, <1>8 DEF Next

LEMMA InitSnapshot == Init => SnapshotInv
  BY DEF Init, StoreInit, SnapshotInv, Restorable, Exists

---------------------------------------------------------------------------
(* The refinement *)

LEMMA InitImplements ==
  ASSUME Init
  PROVE  Contract!ContractInit
  <1>1. StoreInit /\ RuntimeInit /\ lock = None
    BY DEF Init
  <1>2. db.core \in Core /\ Target = NoConfig
    BY <1>1 DEF StoreInit, Target
  <1>3. CASE revisions = [n \in Number |-> NoRevision] /\ active = 0
    <2>1. \A n : ~Exists(n)
      BY <1>3 DEF Exists
    <2>2. StoredDocuments = {} /\ ActiveConfig = NoConfig
      BY <2>1 DEF StoredDocuments, ActiveConfig
    <2> QED
      BY <1>1, <1>2, <2>2 DEF RuntimeInit, Contract!ContractInit
  <1>4. CASE /\ revisions = [n \in Number |->
                    IF n = 1
                    THEN [config |-> Compile[db.core], state |-> NoSnapshot,
                          apply |-> "APPLIED"]
                    ELSE NoRevision]
             /\ active = 1
    <2> DEFINE r == [config |-> Compile[db.core], state |-> NoSnapshot, apply |-> "APPLIED"]
    <2>1. r \in Revision /\ r # NoRevision /\ r.config = Compile[db.core]
      BY <1>2 DEF Revision, ApplyStatus
    <2>2. revisions = [n \in Number |-> IF n = 1 THEN r ELSE NoRevision] /\ 1 \in Number
      BY <1>4 DEF Number
    <2> HIDE DEF r
    <2>3. (\A n : Exists(n) <=> n = 1) /\ revisions[1] = r
      BY <2>1, <2>2 DEF Exists
    <2>4. StoredDocuments = {Compile[db.core]} /\ ActiveConfig = Compile[db.core]
      BY <1>4, <2>1, <2>2, <2>3 DEF StoredDocuments, ActiveConfig
    <2> QED
      BY <1>1, <1>2, <2>4 DEF RuntimeInit, Contract!ContractInit
  <1> QED
    BY <1>1, <1>3, <1>4 DEF StoreInit

\* Whoever relies on the contract may rely on ApplyService: every behaviour of
\* the pipeline, with its failures, races and crashes, is one of ApplyContract.
THEOREM PipelineKeepsContract == Spec => ImplementsContract
  <1> DEFINE Inv == IInv /\ SnapshotInv
  <1>1. Init => Inv
    BY InitIInv, InitSnapshot
  <1>2. Inv /\ [Next]_vars => Inv'
    BY NextIInv, NextSnapshot
  <1>3. Init => Contract!ContractInit
    BY InitImplements
  <1>4. Inv /\ Inv' /\ [Next]_vars => [Contract!ContractNext]_(Contract!contractVars)
    BY NextImplements DEF Implements, Stutter
  <1> QED
    BY <1>1, <1>2, <1>3, <1>4, PTL DEF Spec, ImplementsContract, Contract!ContractSpec

=============================================================================
