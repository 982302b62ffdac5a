------------------------- MODULE ApplyServiceProofs -------------------------
(***************************************************************************)
(* Proofs about ApplyService, for any number of callers, states, documents *)
(* and revisions.                                                          *)
(*                                                                         *)
(* The safety properties speak of the moments between operations or of the *)
(* tables alone, so none of them is inductive.  IInv adds what holds       *)
(* inside an operation: only the lock holder is in one (LockInv), its      *)
(* locals still describe the tables it read them from (LocalOK), the       *)
(* revision it is about to make desired agrees with the rows unless they   *)
(* were edited (AgreeOK), and Caddy serves the target's document at the    *)
(* labels after the switch and the active one's at the others (ServingOK). *)
(* DriftInv bounds the effect of loads that outlive their client.          *)
(*                                                                         *)
(* Each action has a lemma that it preserves IInv.  Most of them go        *)
(* through GotoIInv or FinishIInv, which reduce the claim to the caller    *)
(* that moves: the others are idle (Alone).  The lemmas of the first two   *)
(* sections say what a transaction does to the tables and a call to the    *)
(* runtime.                                                                *)
(***************************************************************************)
EXTENDS ApplyService, TLAPS

USE StoreAssumption, RevisionAssumption, CallerAssumption

---------------------------------------------------------------------------
(* The store *)

\* A stored revision has a document.
LEMMA ConfigType ==
  ASSUME StoreTypeOK, NEW n
  PROVE  /\ ConfigOf(n) \in Config \cup {NoConfig}
         /\ Exists(n) => ConfigOf(n) \in Config
  BY DEF StoreTypeOK, ConfigOf, Exists, Revision

LEMMA EnvironmentType ==
  ASSUME StoreTypeOK, NEW core
  PROVE  Environment(core) \in Env
  BY DEF StoreTypeOK, Environment, Env

\* At most one revision matches a state, so FindByIdentity finds it.
LEMMA FindResult ==
  ASSUME IdentityUnique, NEW s
  PROVE  /\ Matching(s) = {} => FindByIdentity(s) = 0
         /\ Matching(s) # {} => FindByIdentity(s) \in Matching(s)
  <1>1. \A m, n \in Matching(s) : m <= n
    BY DEF IdentityUnique, Matching, Number
  <1>2. ASSUME NEW n \in Matching(s) PROVE FindByIdentity(s) \in Matching(s)
    <2>1. \A m \in Matching(s) : m <= n
      BY <1>1
    <2> QED
      BY <1>2, <2>1 DEF FindByIdentity
  <1> QED
    BY <1>2 DEF FindByIdentity

\* A step that leaves the tables alone leaves everything said of them alone.
LEMMA StoreKept ==
  ASSUME StoreInv, UNCHANGED <<storeVars, raced>>
  PROVE  /\ StoreInv'
         /\ \A n : /\ Exists(n)' <=> Exists(n)
                   /\ ConfigOf(n)' = ConfigOf(n)
                   /\ Agrees(n)' <=> Agrees(n)
         /\ \A s : Matching(s)' = Matching(s)
         /\ ActiveConfig' = ActiveConfig
         /\ active' = active
         /\ raced' = raced
  BY DEF storeVars, StoreInv, StoreTypeOK, NumberInv, ActiveWasApplied, IdentityUnique,
     PendingHonest, Exists, Restorable, ConfigOf, Agrees, Matching, ActiveConfig

---------------------------------------------------------------------------
(* The runtime *)

\* A Start changes a runtime that is down only.
LEMMA StartEffect ==
  ASSUME RuntimeTypeOK, DriftInv, NEW config \in Config \cup {NoConfig}, NEW env \in Env,
         NEW ok \in BOOLEAN, StartReturns(config, env, ok)
  PROVE  /\ RuntimeTypeOK'
         /\ DriftInv'
         /\ serving = NoConfig => serving' \in {config, NoConfig}
         /\ serving # NoConfig => serving' = serving /\ adrift' = adrift
         /\ ~ok => serving' = NoConfig
  BY DEF RuntimeTypeOK, DriftInv, StartReturns, runtimeVars

\* A Reload that fails leaves the document, or leaves Caddy adrift.
LEMMA ReloadEffect ==
  ASSUME RuntimeTypeOK, DriftInv, NEW config \in Config, NEW ok \in BOOLEAN,
         ReloadReturns(config, ok)
  PROVE  /\ RuntimeTypeOK'
         /\ DriftInv'
         /\ ok => serving' = config
         /\ ~ok => adrift' \/ (serving' = serving /\ adrift' = adrift)
  <1>1. CASE serving # NoConfig /\ serving' = config /\ inflight' = {} /\ adrift' = ~ok
             /\ UNCHANGED environment
    <2>1. CASE ok
      BY <1>1, <2>1 DEF RuntimeTypeOK, DriftInv
    <2>2. CASE ~ok
      BY <1>1, <2>2 DEF RuntimeTypeOK, DriftInv
    <2> QED
      BY <2>1, <2>2
  <1>2. CASE serving # NoConfig /\ ~ok /\ inflight' = inflight \cup {config} /\ adrift' = TRUE
             /\ UNCHANGED <<serving, environment>>
    BY <1>2 DEF RuntimeTypeOK, DriftInv
  <1>3. CASE ~ok /\ UNCHANGED runtimeVars
    BY <1>3 DEF RuntimeTypeOK, DriftInv, runtimeVars
  <1> QED
    BY <1>1, <1>2, <1>3 DEF ReloadReturns

LEMMA StopEffect ==
  ASSUME RuntimeTypeOK, DriftInv, NEW ok \in BOOLEAN, StopReturns(ok)
  PROVE  /\ RuntimeTypeOK'
         /\ DriftInv'
         /\ ok => serving' = NoConfig
         /\ serving' = NoConfig \/ (serving' = serving /\ adrift' = adrift)
  <1>1. CASE Down /\ UNCHANGED environment
    BY <1>1 DEF RuntimeTypeOK, DriftInv, Down
  <1>2. CASE ~ok /\ UNCHANGED runtimeVars
    BY <1>2 DEF RuntimeTypeOK, DriftInv, runtimeVars
  <1> QED
    BY <1>1, <1>2 DEF StopReturns

LEMMA RuntimeKept ==
  ASSUME RuntimeTypeOK, DriftInv, UNCHANGED runtimeVars
  PROVE  RuntimeTypeOK' /\ DriftInv' /\ serving' = serving /\ adrift' = adrift
  BY DEF RuntimeTypeOK, DriftInv, runtimeVars

\* A failure after the switch: a Caddy that is up is adrift.
LEMMA DriftEffect ==
  ASSUME RuntimeTypeOK, DriftInv, adrift' = (serving # NoConfig),
         UNCHANGED <<serving, environment, inflight>>
  PROVE  RuntimeTypeOK' /\ DriftInv' /\ serving' = serving /\ (serving # NoConfig => adrift')
  <1>1. CASE serving = NoConfig
    BY <1>1 DEF RuntimeTypeOK, DriftInv
  <1>2. CASE serving # NoConfig
    BY <1>2 DEF RuntimeTypeOK, DriftInv
  <1> QED
    BY <1>1, <1>2

---------------------------------------------------------------------------
(* Control *)

\* An operation is alone between Acquire and Finish.
LEMMA Alone ==
  ASSUME IInv, NEW c \in Callers, pc[c] # "idle"
  PROVE  lock = c /\ \A d \in Callers : d # c => pc[d] = "idle"
  BY DEF IInv, LockInv

\* What remains to be shown of a step that moves to another label.
LEMMA GotoIInv ==
  ASSUME IInv, NEW c \in Callers, pc[c] # "idle", NEW label \in Labels \ {"idle"},
         Goto(c, label), loc' \in [Callers -> Locals], raced' \in BOOLEAN,
         StoreInv', RuntimeTypeOK', DriftInv',
         (LocalOK(c) /\ AgreeOK(c) /\ ServingOK(c))'
  PROVE  IInv'
  <1>1. /\ pc' \in [Callers -> Labels]
        /\ lock' = c
        /\ \A d \in Callers : pc'[d] = IF d = c THEN label ELSE "idle"
    BY Alone DEF Goto, IInv, TypeOK
  <1>2. TypeOK'
    BY <1>1 DEF TypeOK, StoreInv
  <1>3. LockInv'
    BY <1>1 DEF LockInv
  <1>4. RuntimeMatchesActive'
    BY <1>1 DEF RuntimeMatchesActive
  <1>5. ASSUME NEW d \in Callers, d # c PROVE (LocalOK(d) /\ AgreeOK(d) /\ ServingOK(d))'
    BY <1>1, <1>5 DEF LocalOK, AgreeOK, ServingOK, Late, Switched
  <1> QED
    BY <1>2, <1>3, <1>4, <1>5 DEF IInv

\* What remains to be shown of a step that ends an operation.
LEMMA FinishIInv ==
  ASSUME IInv, NEW c \in Callers, pc[c] # "idle", Finish(c), raced' \in BOOLEAN,
         StoreInv', RuntimeTypeOK', DriftInv',
         serving' # NoConfig /\ ~adrift' => serving' = ActiveConfig'
  PROVE  IInv'
  <1>1. /\ pc' \in [Callers -> Labels]
        /\ lock' = None
        /\ \A d \in Callers : pc'[d] = "idle"
    BY Alone DEF Finish, IInv, TypeOK, Labels
  <1>2. loc' \in [Callers -> Locals]
    BY DEF Finish, Fresh, IInv, TypeOK, Locals, Kinds, Env
  <1>3. TypeOK'
    BY <1>1, <1>2 DEF TypeOK, StoreInv
  <1>4. LockInv'
    BY <1>1 DEF LockInv
  <1>5. RuntimeMatchesActive'
    BY DEF RuntimeMatchesActive
  <1>6. ASSUME NEW d \in Callers PROVE (LocalOK(d) /\ AgreeOK(d) /\ ServingOK(d))'
    BY <1>1 DEF LocalOK, AgreeOK, ServingOK, Late, Switched
  <1> QED
    BY <1>3, <1>4, <1>5, <1>6 DEF IInv

\* The parts of the invariant that the steps of an operation use.
LEMMA Facts ==
  ASSUME IInv, NEW c \in Callers
  PROVE  /\ StoreInv /\ StoreTypeOK /\ RuntimeTypeOK /\ DriftInv
         /\ raced \in BOOLEAN /\ loc \in [Callers -> Locals] /\ loc[c] \in Locals
         /\ pc \in [Callers -> Labels]
         /\ LocalOK(c) /\ AgreeOK(c) /\ ServingOK(c)
  BY DEF IInv, TypeOK, StoreInv

\* A step that replaces the locals of one caller.
LEMMA NewLocals ==
  ASSUME loc \in [Callers -> Locals], NEW c \in Callers, NEW l \in Locals,
         loc' = [loc EXCEPT ![c] = l]
  PROVE  loc' \in [Callers -> Locals] /\ loc'[c] = l
  OBVIOUS

---------------------------------------------------------------------------
(* Steps that leave the tables alone *)

LEMMA AbortIInv ==
  ASSUME IInv, NEW c \in Callers, Abort(c)
  PROVE  IInv'
  <1>1. UNCHANGED <<storeVars, raced>>
    BY DEF Abort
  <1>2. UNCHANGED runtimeVars
    BY DEF Abort
  <1>3. pc[c] # "idle" /\ pc[c] \notin Switched /\ Finish(c)
    BY DEF Abort, Switched
  <1> QED
    BY <1>1, <1>2, <1>3, Facts, StoreKept, RuntimeKept, FinishIInv DEF ServingOK

LEMMA TakeSnapshotIInv ==
  ASSUME IInv, NEW c \in Callers, TakeSnapshot(c)
  PROVE  IInv'
  <1>1. UNCHANGED <<storeVars, raced>>
    BY DEF TakeSnapshot
  <1>2. UNCHANGED runtimeVars
    BY DEF TakeSnapshot
  <1>3. pc[c] # "idle" /\ pc[c] \notin Switched /\ Goto(c, "identify") /\ pc'[c] = "identify"
    BY Facts DEF TakeSnapshot, Goto, Switched
  <1>4. loc' \in [Callers -> Locals] /\ loc'[c] = [loc[c] EXCEPT !.snap = db]
    <2> DEFINE l == [loc[c] EXCEPT !.snap = db]
    <2>1. loc \in [Callers -> Locals] /\ loc[c] \in Locals /\ db \in State
      BY Facts DEF StoreTypeOK
    <2>2. loc' = [loc EXCEPT ![c] = l]
      BY <2>1 DEF TakeSnapshot
    <2>3. l \in Locals
      BY <2>1 DEF Locals
    <2> HIDE DEF l
    <2>4. loc' \in [Callers -> Locals] /\ loc'[c] = l
      BY <2>1, <2>2, <2>3, NewLocals
    <2> QED
      BY <2>4 DEF l
  <1>5. LocalOK(c)'
    BY <1>1, <1>3, <1>4, Facts, StoreKept DEF TakeSnapshot, LocalOK, Late, Locals, StoreTypeOK
  <1>6. AgreeOK(c)'
    BY <1>1, <1>3, <1>4, Facts, StoreKept DEF TakeSnapshot, AgreeOK, LocalOK, Late
  <1>7. ServingOK(c)'
    BY <1>1, <1>2, <1>3, <1>4, Facts, StoreKept, RuntimeKept DEF TakeSnapshot, ServingOK, Switched
  <1> QED
    BY <1>1, <1>2, <1>3, <1>4, <1>5, <1>6, <1>7, Facts, StoreKept, RuntimeKept, GotoIInv DEF Labels

LEMMA IdentifyIInv ==
  ASSUME IInv, NEW c \in Callers, Identify(c)
  PROVE  IInv'
  <1>1. UNCHANGED <<storeVars, raced>>
    BY DEF Identify
  <1>2. UNCHANGED runtimeVars
    BY DEF Identify
  <1> DEFINE found == FindByIdentity(loc[c].snap)
             fresh == found = 0
             env == Environment(loc[c].snap.core)
  <1>3. /\ pc[c] # "idle" /\ pc[c] \notin Switched
        /\ Goto(c, "record") /\ pc'[c] = "record"
    BY Facts DEF Identify, Goto, Switched
  <1>4. /\ fresh \in BOOLEAN
        /\ fresh => Matching(loc[c].snap) = {}
        /\ ~fresh => found \in Matching(loc[c].snap)
        /\ found \in Number \cup {0}
    <2>1. IdentityUnique /\ Matching(loc[c].snap) \subseteq Number /\ 0 \notin Number
      BY Facts DEF StoreInv, Matching, Number
    <2> QED
      BY <2>1, FindResult
  <1>5. env \in Env /\ active \in Number \cup {0}
    BY Facts, EnvironmentType DEF StoreTypeOK
  <1>6. loc' = [loc EXCEPT ![c].env = env, ![c].rev = found,
                           ![c].created = fresh, ![c].prev = active]
    BY DEF Identify
  <1> HIDE DEF found, fresh, env
  <1>7. /\ loc' \in [Callers -> Locals]
        /\ loc'[c].snap = loc[c].snap /\ loc'[c].kind = loc[c].kind
        /\ loc'[c].rev = found /\ loc'[c].created = fresh /\ loc'[c].prev = active
    <2> DEFINE l == [loc[c] EXCEPT !.env = env, !.rev = found, !.created = fresh, !.prev = active]
    <2>1. loc \in [Callers -> Locals] /\ loc[c] \in Locals
      BY Facts
    <2>2. loc' = [loc EXCEPT ![c] = l]
      BY <1>6, <2>1
    <2>3. l \in Locals
      BY <1>4, <1>5, <2>1 DEF Locals
    <2>4. /\ l.snap = loc[c].snap /\ l.kind = loc[c].kind
          /\ l.rev = found /\ l.created = fresh /\ l.prev = active
      BY <2>1 DEF Locals
    <2> HIDE DEF l
    <2> QED
      BY <2>1, <2>2, <2>3, <2>4, NewLocals
  <1>8. LocalOK(c)'
    <2>1. loc[c].snap \in State /\ loc[c].kind # "restore"
      BY Facts DEF Identify, LocalOK
    <2>2. active' = active
      BY <1>1 DEF storeVars
    <2>3. Matching(loc[c].snap)' = Matching(loc[c].snap)
      BY <1>1, <1>7 DEF Matching, storeVars, Restorable, Exists
    <2>4. /\ fresh => Matching(loc[c].snap)' = {}
          /\ ~fresh => found \in Matching(loc[c].snap)'
      BY <1>4, <2>3
    <2> QED
      BY <1>3, <1>7, <2>1, <2>2, <2>4 DEF LocalOK, Late
  <1>9. AgreeOK(c)' /\ ServingOK(c)'
    BY <1>1, <1>2, <1>3, Facts, StoreKept, RuntimeKept DEF AgreeOK, ServingOK, Late, Switched
  <1> QED
    BY <1>1, <1>2, <1>3, <1>7, <1>8, <1>9, Facts, StoreKept, RuntimeKept, GotoIInv DEF Labels

LEMMA DecideIInv ==
  ASSUME IInv, NEW c \in Callers, Decide(c)
  PROVE  IInv'
  <1>1. UNCHANGED <<storeVars, raced>>
    BY DEF Decide
  <1>2. UNCHANGED runtimeVars
    BY DEF Decide
  <1>3. PICK status \in StatusSet, changed \in Changed(loc[c].env) :
          IF /\ loc[c].prev # 0
             /\ ConfigOf(loc[c].prev) = ConfigOf(loc[c].rev)
             /\ status = "RUNNING"
             /\ ~changed
          THEN /\ Goto(c, "shortcut")
               /\ UNCHANGED loc
          ELSE /\ Goto(c, "activate")
               /\ loc' = [loc EXCEPT ![c].changed = changed,
                                     ![c].prevEnv = environment]
    BY DEF Decide
  <1>4. pc[c] = "decide" /\ pc[c] \notin Switched
    BY DEF Decide, Switched
  <1>5. CASE Goto(c, "shortcut") /\ UNCHANGED loc /\ ConfigOf(loc[c].prev) = ConfigOf(loc[c].rev)
    <2>1. pc'[c] = "shortcut"
      BY <1>4, <1>5, Facts DEF Goto
    <2>2. ConfigOf(loc[c].rev) = ActiveConfig
      BY <1>4, <1>5, Facts DEF LocalOK, Late, ConfigOf, ActiveConfig
    <2>3. LocalOK(c)' /\ AgreeOK(c)'
      BY <1>1, <1>4, <1>5, <2>1, Facts, StoreKept DEF LocalOK, AgreeOK, Late
    <2>4. ServingOK(c)'
      BY <1>1, <1>2, <1>4, <1>5, <2>1, <2>2, Facts, StoreKept, RuntimeKept DEF ServingOK, Switched
    <2> QED
      BY <1>1, <1>2, <1>4, <1>5, <2>3, <2>4, Facts, StoreKept, RuntimeKept, GotoIInv DEF Labels
  <1>6. CASE Goto(c, "activate")
             /\ loc' = [loc EXCEPT ![c].changed = changed, ![c].prevEnv = environment]
    <2>1. pc'[c] = "activate"
      BY <1>4, <1>6, Facts DEF Goto
    <2>2. changed \in BOOLEAN /\ environment \in Env
      BY Facts DEF Changed, RuntimeTypeOK
    <2>3. /\ loc' \in [Callers -> Locals]
          /\ loc'[c].kind = loc[c].kind /\ loc'[c].rev = loc[c].rev
          /\ loc'[c].created = loc[c].created /\ loc'[c].prev = loc[c].prev
      BY <1>6, <2>2, Facts DEF Locals
    <2>4. LocalOK(c)' /\ AgreeOK(c)'
      BY <1>1, <1>4, <2>1, <2>3, Facts, StoreKept DEF LocalOK, AgreeOK, Late
    <2>5. ServingOK(c)'
      BY <1>1, <1>2, <1>4, <2>1, Facts, StoreKept, RuntimeKept DEF ServingOK, Switched
    <2> QED
      BY <1>1, <1>2, <1>4, <1>6, <2>3, <2>4, <2>5, Facts, StoreKept, RuntimeKept, GotoIInv DEF Labels
  <1> QED
    BY <1>3, <1>5, <1>6

\* Between two late labels nothing changes that the locals stand for.
LEMMA LateStep ==
  ASSUME StoreInv, NEW c \in Callers, LocalOK(c), AgreeOK(c), UNCHANGED <<storeVars, raced>>,
         UNCHANGED loc, pc[c] \in Late, pc'[c] \in Late,
         pc'[c] \in {"decide", "shortcut", "mark", "rollback"} => loc[c].kind # "restore"
  PROVE  LocalOK(c)' /\ AgreeOK(c)'
  BY StoreKept DEF LocalOK, AgreeOK, Late

\* The documents of the target and of the previous revision.
LEMMA LateConfigs ==
  ASSUME IInv, NEW c \in Callers, pc[c] \in Late
  PROVE  /\ ConfigOf(loc[c].rev) \in Config
         /\ ConfigOf(loc[c].prev) = ActiveConfig
         /\ loc[c].prev # 0 => ConfigOf(loc[c].prev) \in Config
  <1>1. /\ loc[c].prev = active /\ Exists(loc[c].rev)
        /\ active # 0 => Exists(active)
    BY Facts DEF LocalOK, StoreInv, ActiveWasApplied
  <1> QED
    BY <1>1, Facts, ConfigType DEF ConfigOf, ActiveConfig

LEMMA ActivateRestartIInv ==
  ASSUME IInv, NEW c \in Callers, ActivateRestart(c)
  PROVE  IInv'
  <1>1. UNCHANGED <<storeVars, raced>>
    BY DEF ActivateRestart
  <1>2. PICK ok \in BOOLEAN : /\ StopReturns(ok)
                              /\ Goto(c, IF ok THEN "swap" ELSE "failed")
    BY DEF ActivateRestart
  <1> DEFINE label == IF ok THEN "swap" ELSE "failed"
  <1>3. pc[c] = "activate" /\ UNCHANGED loc /\ pc'[c] = label
    BY <1>2, Facts DEF ActivateRestart, Goto
  <1>4. LocalOK(c)' /\ AgreeOK(c)'
    BY <1>1, <1>3, Facts, LateStep DEF Late
  <1>5. ServingOK(c)'
    BY <1>1, <1>2, <1>3, Facts, StoreKept, StopEffect DEF ServingOK, Switched
  <1> QED
    BY <1>1, <1>2, <1>3, <1>4, <1>5, Facts, StoreKept, StopEffect, GotoIInv DEF Labels

LEMMA SwapIInv ==
  ASSUME IInv, NEW c \in Callers, Swap(c)
  PROVE  IInv'
  <1>1. UNCHANGED <<storeVars, raced>>
    BY DEF Swap
  <1>2. PICK ok \in BOOLEAN :
          /\ StartReturns(ConfigOf(loc[c].rev), loc[c].env, ok)
          /\ Goto(c, IF ok THEN "verify"
                     ELSE IF loc[c].prev # 0 THEN "fallback" ELSE "failed")
    BY DEF Swap
  <1> DEFINE label == IF ok THEN "verify" ELSE IF loc[c].prev # 0 THEN "fallback" ELSE "failed"
  <1>3. pc[c] = "swap" /\ UNCHANGED loc /\ pc'[c] = label
    BY <1>2, Facts DEF Swap, Goto
  <1>4. /\ serving = NoConfig
        /\ ConfigOf(loc[c].rev) \in Config \cup {NoConfig} /\ loc[c].env \in Env
    BY <1>3, Facts, ConfigType DEF ServingOK, Locals
  <1>5. /\ RuntimeTypeOK' /\ DriftInv'
        /\ serving' \in {ConfigOf(loc[c].rev), NoConfig}
        /\ ~ok => serving' = NoConfig
    BY <1>2, <1>4, Facts, StartEffect
  <1>6. LocalOK(c)' /\ AgreeOK(c)'
    BY <1>1, <1>3, Facts, LateStep DEF Late
  <1>7. ServingOK(c)'
    BY <1>1, <1>3, <1>5, Facts, StoreKept DEF ServingOK, Switched
  <1> QED
    BY <1>1, <1>2, <1>3, <1>5, <1>6, <1>7, Facts, StoreKept, GotoIInv DEF Labels

LEMMA FallbackIInv ==
  ASSUME IInv, NEW c \in Callers, Fallback(c)
  PROVE  IInv'
  <1>1. UNCHANGED <<storeVars, raced>>
    BY DEF Fallback
  <1>2. PICK ok \in BOOLEAN : StartReturns(ConfigOf(loc[c].prev), loc[c].prevEnv, ok)
    BY DEF Fallback
  <1>3. pc[c] = "fallback" /\ UNCHANGED loc /\ Goto(c, "failed") /\ pc'[c] = "failed"
    BY Facts DEF Fallback, Goto
  <1>4. /\ serving = NoConfig
        /\ ConfigOf(loc[c].prev) \in Config \cup {NoConfig} /\ loc[c].prevEnv \in Env
        /\ ConfigOf(loc[c].prev) = ActiveConfig
    BY <1>3, Facts, ConfigType, LateConfigs DEF ServingOK, Locals, Late
  <1>5. /\ RuntimeTypeOK' /\ DriftInv'
        /\ serving' \in {ActiveConfig, NoConfig}
    BY <1>2, <1>4, Facts, StartEffect
  <1>6. LocalOK(c)' /\ AgreeOK(c)'
    BY <1>1, <1>3, Facts, LateStep DEF Late
  <1>7. ServingOK(c)'
    BY <1>1, <1>3, <1>5, Facts, StoreKept DEF ServingOK, Switched
  <1> QED
    BY <1>1, <1>3, <1>5, <1>6, <1>7, Facts, StoreKept, GotoIInv DEF Labels

LEMMA ActivateInPlaceIInv ==
  ASSUME IInv, NEW c \in Callers, ActivateInPlace(c)
  PROVE  IInv'
  <1>1. UNCHANGED <<storeVars, raced>>
    BY DEF ActivateInPlace
  <1>2. PICK ok \in BOOLEAN, status \in StatusSet :
          /\ IF status \in {"STOPPED", "FAILED"}
             THEN StartReturns(ConfigOf(loc[c].rev), loc[c].env, ok)
             ELSE ReloadReturns(ConfigOf(loc[c].rev), ok)
          /\ Goto(c, IF ok THEN "verify" ELSE "failed")
    BY DEF ActivateInPlace
  <1> DEFINE label == IF ok THEN "verify" ELSE "failed"
  <1>3. pc[c] = "activate" /\ UNCHANGED loc /\ pc'[c] = label
    BY <1>2, Facts DEF ActivateInPlace, Goto
  <1>4. ConfigOf(loc[c].rev) \in Config /\ loc[c].env \in Env
    BY <1>3, Facts, LateConfigs DEF Late, Locals
  <1>5. /\ RuntimeTypeOK' /\ DriftInv'
        /\ ok => serving' \in {ConfigOf(loc[c].rev), NoConfig}
        /\ ~ok => serving' = NoConfig \/ adrift' \/ (serving' = serving /\ adrift' = adrift)
    <2>1. CASE status \in {"STOPPED", "FAILED"}
      <3>1. serving = NoConfig
        BY <2>1 DEF StatusSet
      <3> QED
        BY <1>2, <1>4, <2>1, <3>1, Facts, StartEffect
    <2>2. CASE status \notin {"STOPPED", "FAILED"}
      BY <1>2, <1>4, <2>2, Facts, ReloadEffect
    <2> QED
      BY <2>1, <2>2
  <1>6. LocalOK(c)' /\ AgreeOK(c)'
    BY <1>1, <1>3, Facts, LateStep DEF Late
  <1>7. ServingOK(c)'
    BY <1>1, <1>3, <1>5, Facts, StoreKept DEF ServingOK, Switched
  <1> QED
    BY <1>1, <1>2, <1>3, <1>5, <1>6, <1>7, Facts, StoreKept, GotoIInv DEF Labels

LEMMA VerifyIInv ==
  ASSUME IInv, NEW c \in Callers, Verify(c)
  PROVE  IInv'
  <1>1. UNCHANGED <<storeVars, raced>>
    BY DEF Verify
  <1>2. PICK status \in StatusSet :
          IF status = "RUNNING"
          THEN /\ Goto(c, IF loc[c].kind = "restore" THEN "commit" ELSE "mark")
               /\ UNCHANGED adrift
          ELSE /\ Goto(c, "failed")
               /\ adrift' = (serving # NoConfig)
    BY DEF Verify
  <1> DEFINE label == IF status = "RUNNING"
                      THEN IF loc[c].kind = "restore" THEN "commit" ELSE "mark"
                      ELSE "failed"
  <1>3. pc[c] = "verify" /\ UNCHANGED loc /\ Goto(c, label) /\ pc'[c] = label
    BY <1>2, Facts DEF Verify, Goto
  <1>4. /\ RuntimeTypeOK' /\ DriftInv' /\ serving' = serving
        /\ status = "RUNNING" => adrift' = adrift
        /\ status # "RUNNING" /\ serving # NoConfig => adrift'
    <2>1. UNCHANGED <<serving, environment, inflight>>
      BY DEF Verify
    <2>2. CASE status = "RUNNING"
      BY <1>2, <2>1, <2>2, Facts, RuntimeKept DEF runtimeVars
    <2>3. CASE status # "RUNNING"
      BY <1>2, <2>1, <2>3, Facts, DriftEffect
    <2> QED
      BY <2>2, <2>3
  <1>5. LocalOK(c)' /\ AgreeOK(c)'
    BY <1>1, <1>3, Facts, LateStep DEF Late
  <1>6. ServingOK(c)'
    BY <1>1, <1>3, <1>4, Facts, StoreKept DEF ServingOK, Switched
  <1> QED
    BY <1>1, <1>3, <1>4, <1>5, <1>6, Facts, StoreKept, GotoIInv DEF Labels

LEMMA MarkAppliedFailsIInv ==
  ASSUME IInv, NEW c \in Callers, MarkAppliedFails(c)
  PROVE  IInv'
  <1>1. UNCHANGED <<storeVars, raced>>
    BY DEF MarkAppliedFails
  <1> DEFINE label == IF pc[c] = "mark" THEN "rollback" ELSE "failed"
  <1>2. pc[c] \in {"shortcut", "mark"} /\ UNCHANGED loc /\ Goto(c, label) /\ pc'[c] = label
    BY Facts DEF MarkAppliedFails, Goto
  <1>3. /\ RuntimeTypeOK' /\ DriftInv' /\ serving' = serving
        /\ pc[c] = "shortcut" => adrift' = adrift
        /\ pc[c] = "mark" /\ serving # NoConfig => adrift'
    <2>1. UNCHANGED <<serving, environment, inflight>>
      BY DEF MarkAppliedFails
    <2>2. CASE pc[c] = "shortcut"
      BY <2>1, <2>2, Facts, RuntimeKept DEF MarkAppliedFails, runtimeVars
    <2>3. CASE pc[c] = "mark"
      BY <2>1, <2>3, Facts, DriftEffect DEF MarkAppliedFails
    <2> QED
      BY <1>2, <2>2, <2>3
  <1>4. LocalOK(c)' /\ AgreeOK(c)'
    BY <1>1, <1>2, Facts, LateStep DEF Late, LocalOK
  <1>5. ServingOK(c)'
    BY <1>1, <1>2, <1>3, Facts, StoreKept DEF ServingOK, Switched
  <1> QED
    BY <1>1, <1>2, <1>3, <1>4, <1>5, Facts, StoreKept, GotoIInv DEF Labels

\* Putting back the previous document, or stopping, cannot make things worse.
LEMMA PutBackEffect ==
  ASSUME IInv, NEW c \in Callers, pc[c] \in Late \ Switched, PutBack(c)
  PROVE  /\ RuntimeTypeOK' /\ DriftInv'
         /\ serving' # NoConfig /\ ~adrift' => serving' = ActiveConfig
  <1>1. PICK ok \in BOOLEAN : IF loc[c].prev # 0 THEN ReloadReturns(ConfigOf(loc[c].prev), ok)
                                                 ELSE StopReturns(ok)
    BY DEF PutBack
  <1>2. serving # NoConfig /\ ~adrift => serving = ActiveConfig
    BY Facts DEF ServingOK, Late
  <1>3. CASE loc[c].prev # 0
    BY <1>1, <1>2, <1>3, Facts, LateConfigs, ReloadEffect
  <1>4. CASE loc[c].prev = 0
    BY <1>1, <1>2, <1>4, Facts, StopEffect
  <1> QED
    BY <1>3, <1>4

LEMMA RollbackIInv ==
  ASSUME IInv, NEW c \in Callers, Rollback(c)
  PROVE  IInv'
  <1>1. UNCHANGED <<storeVars, raced>>
    BY DEF Rollback
  <1>2. pc[c] = "rollback" /\ UNCHANGED loc /\ Goto(c, "failed") /\ pc'[c] = "failed"
    BY Facts DEF Rollback, Goto
  <1>3. /\ RuntimeTypeOK' /\ DriftInv'
        /\ serving' # NoConfig /\ ~adrift' => serving' = ActiveConfig
    BY <1>2, PutBackEffect DEF Rollback, Late, Switched
  <1>4. LocalOK(c)' /\ AgreeOK(c)'
    BY <1>1, <1>2, Facts, LateStep DEF Late
  <1>5. ServingOK(c)'
    BY <1>1, <1>2, <1>3, Facts, StoreKept DEF ServingOK, Switched
  <1> QED
    BY <1>1, <1>2, <1>3, <1>4, <1>5, Facts, StoreKept, GotoIInv DEF Labels

LEMMA ResumeIInv ==
  ASSUME IInv, NEW c \in Callers, Resume(c)
  PROVE  IInv'
  <1>1. UNCHANGED <<storeVars, raced>>
    BY DEF Resume
  <1>2. UNCHANGED runtimeVars
    BY DEF Resume
  <1>3. pc[c] = "resume" /\ pc[c] \notin Switched
    BY DEF Resume, Switched
  <1>4. CASE Restorable(active)
    <2> DEFINE env == Environment(revisions[active].state.core)
               label == IF loc[c].kind = "restart" THEN "halt" ELSE "boot"
    <2>1. /\ loc' = [loc EXCEPT ![c].rev = active, ![c].env = env]
          /\ Goto(c, label) /\ pc'[c] = label
      BY <1>4, Facts DEF Resume, Goto
    <2>2. env \in Env /\ active \in Number \cup {0} /\ Exists(active)
      BY <1>4, Facts, EnvironmentType DEF StoreTypeOK, Restorable
    <2> HIDE DEF env
    <2>3. loc' \in [Callers -> Locals] /\ loc'[c].rev = active
      BY <2>1, <2>2, Facts DEF Locals
    <2>4. LocalOK(c)' /\ AgreeOK(c)'
      BY <1>1, <2>1, <2>2, <2>3, Facts, StoreKept DEF LocalOK, AgreeOK, Late
    <2>5. ServingOK(c)'
      BY <1>1, <1>2, <1>3, <2>1, Facts, StoreKept, RuntimeKept DEF ServingOK, Switched
    <2> QED
      BY <1>1, <1>2, <1>3, <2>1, <2>3, <2>4, <2>5, Facts, StoreKept, RuntimeKept, GotoIInv DEF Labels
  <1>5. CASE ~Restorable(active)
    <2>1. UNCHANGED loc /\ Goto(c, "snapshot") /\ pc'[c] = "snapshot"
      BY <1>5, Facts DEF Resume, Goto
    <2>2. LocalOK(c)' /\ AgreeOK(c)'
      BY <1>1, <1>3, <2>1, Facts, StoreKept DEF LocalOK, AgreeOK, Late
    <2>3. ServingOK(c)'
      BY <1>1, <1>2, <1>3, <2>1, Facts, StoreKept, RuntimeKept DEF ServingOK, Switched
    <2> QED
      BY <1>1, <1>2, <1>3, <2>1, <2>2, <2>3, Facts, StoreKept, RuntimeKept, GotoIInv DEF Labels
  <1> QED
    BY <1>4, <1>5

LEMMA HaltIInv ==
  ASSUME IInv, NEW c \in Callers, Halt(c)
  PROVE  IInv'
  <1>1. UNCHANGED <<storeVars, raced>>
    BY DEF Halt
  <1>2. pc[c] = "halt" /\ pc[c] \notin Switched
    BY DEF Halt, Switched
  <1>3. CASE StopReturns(TRUE) /\ Goto(c, "boot") /\ UNCHANGED loc
    <2>1. pc'[c] = "boot"
      BY <1>2, <1>3, Facts DEF Goto
    <2>2. LocalOK(c)' /\ AgreeOK(c)'
      BY <1>1, <1>2, <1>3, <2>1, Facts, StoreKept DEF LocalOK, AgreeOK, Late
    <2>3. RuntimeTypeOK' /\ DriftInv' /\ serving' = NoConfig
      BY <1>3, Facts, StopEffect
    <2>4. ServingOK(c)'
      BY <2>1, <2>3 DEF ServingOK, Switched
    <2> QED
      BY <1>1, <1>2, <1>3, <2>1, <2>2, <2>3, <2>4, Facts, StoreKept, GotoIInv DEF Labels
  <1>4. CASE StopReturns(FALSE) /\ Finish(c)
    <2>1. /\ RuntimeTypeOK' /\ DriftInv'
          /\ serving' # NoConfig /\ ~adrift' => serving' = ActiveConfig
      <3>1. PICK ok \in BOOLEAN : StopReturns(ok)
        BY <1>4
      <3> QED
        BY <1>2, <3>1, Facts, StopEffect DEF ServingOK
    <2> QED
      BY <1>1, <1>2, <1>4, <2>1, Facts, StoreKept, FinishIInv
  <1> QED
    BY <1>3, <1>4 DEF Halt

LEMMA BootIInv ==
  ASSUME IInv, NEW c \in Callers, Boot(c)
  PROVE  IInv'
  <1>1. UNCHANGED <<storeVars, raced>>
    BY DEF Boot
  <1>2. pc[c] = "boot" /\ pc[c] \notin Switched /\ Finish(c)
    BY DEF Boot, Switched
  <1>3. PICK ok \in BOOLEAN : StartReturns(ConfigOf(loc[c].rev), loc[c].env, ok)
    BY DEF Boot
  <1>4. ConfigOf(loc[c].rev) \in Config \cup {NoConfig} /\ loc[c].env \in Env
    BY Facts, ConfigType DEF Locals
  <1>5. ConfigOf(loc[c].rev) = ActiveConfig
    BY <1>2, Facts DEF LocalOK, ConfigOf, ActiveConfig
  <1>6. /\ RuntimeTypeOK' /\ DriftInv'
        /\ serving' # NoConfig /\ ~adrift' => serving' = ActiveConfig
    BY <1>2, <1>3, <1>4, <1>5, Facts, StartEffect DEF ServingOK
  <1> QED
    BY <1>1, <1>2, <1>6, Facts, StoreKept, FinishIInv

LEMMA StopRuntimeIInv ==
  ASSUME IInv, NEW c \in Callers, StopRuntime(c)
  PROVE  IInv'
  <1>1. UNCHANGED <<storeVars, raced>>
    BY DEF StopRuntime
  <1>2. pc[c] = "stop" /\ pc[c] \notin Switched /\ Finish(c)
    BY DEF StopRuntime, Switched
  <1>3. PICK ok \in BOOLEAN : StopReturns(ok)
    BY DEF StopRuntime
  <1> QED
    BY <1>1, <1>2, <1>3, Facts, StoreKept, StopEffect, FinishIInv DEF ServingOK

LEMMA RestoreChecksIInv ==
  ASSUME IInv, NEW c \in Callers, RestoreChecks(c)
  PROVE  IInv'
  <1>1. UNCHANGED <<storeVars, raced>>
    BY DEF RestoreChecks
  <1>2. UNCHANGED runtimeVars
    BY DEF RestoreChecks
  <1> DEFINE env == Environment(revisions[loc[c].rev].state.core)
  <1>3. PICK changed \in Changed(env) :
          loc' = [loc EXCEPT ![c].env = env, ![c].prev = active,
                             ![c].prevEnv = environment, ![c].changed = changed]
    BY DEF RestoreChecks
  <1>4. /\ pc[c] = "restore" /\ pc[c] \notin Switched /\ Exists(loc[c].rev)
        /\ Goto(c, "activate") /\ pc'[c] = "activate"
    BY Facts DEF RestoreChecks, Restorable, Goto, Switched
  <1>5. /\ env \in Env /\ environment \in Env /\ changed \in BOOLEAN
        /\ active \in Number \cup {0}
    BY Facts, EnvironmentType DEF StoreTypeOK, RuntimeTypeOK, Changed
  <1> HIDE DEF env
  <1>6. /\ loc' \in [Callers -> Locals]
        /\ loc'[c].kind = loc[c].kind /\ loc'[c].rev = loc[c].rev
        /\ loc'[c].created = loc[c].created /\ loc'[c].prev = active
    <2> DEFINE l == [loc[c] EXCEPT !.env = env, !.prev = active,
                                   !.prevEnv = environment, !.changed = changed]
    <2>1. loc \in [Callers -> Locals] /\ loc[c] \in Locals
      BY Facts
    <2>2. loc' = [loc EXCEPT ![c] = l]
      BY <1>3, <2>1
    <2>3. l \in Locals
      BY <1>5, <2>1 DEF Locals
    <2>4. /\ l.kind = loc[c].kind /\ l.rev = loc[c].rev
          /\ l.created = loc[c].created /\ l.prev = active
      BY <2>1 DEF Locals
    <2> HIDE DEF l
    <2> QED
      BY <2>1, <2>2, <2>3, <2>4, NewLocals
  <1>7. LocalOK(c)' /\ AgreeOK(c)'
    BY <1>1, <1>4, <1>6, Facts, StoreKept DEF LocalOK, AgreeOK, Late
  <1>8. ServingOK(c)'
    BY <1>1, <1>2, <1>4, Facts, StoreKept, RuntimeKept DEF ServingOK, Switched
  <1> QED
    BY <1>1, <1>2, <1>4, <1>6, <1>7, <1>8, Facts, StoreKept, RuntimeKept, GotoIInv DEF Labels

LEMMA RestoreStateFailsIInv ==
  ASSUME IInv, NEW c \in Callers, RestoreStateFails(c)
  PROVE  IInv'
  <1>1. UNCHANGED <<storeVars, raced>>
    BY DEF RestoreStateFails
  <1>2. /\ pc[c] = "commit" /\ UNCHANGED loc
        /\ Goto(c, "unrestore") /\ pc'[c] = "unrestore"
    BY Facts DEF RestoreStateFails, Goto
  <1>3. RuntimeTypeOK' /\ DriftInv' /\ serving' = serving /\ (serving # NoConfig => adrift')
    BY Facts, DriftEffect DEF RestoreStateFails
  <1>4. LocalOK(c)' /\ AgreeOK(c)'
    BY <1>1, <1>2, Facts, LateStep DEF Late
  <1>5. ServingOK(c)'
    BY <1>2, <1>3 DEF ServingOK, Switched
  <1> QED
    BY <1>1, <1>2, <1>3, <1>4, <1>5, Facts, StoreKept, GotoIInv DEF Labels

LEMMA UnrestoreIInv ==
  ASSUME IInv, NEW c \in Callers, Unrestore(c)
  PROVE  IInv'
  <1>1. UNCHANGED <<storeVars, raced>>
    BY DEF Unrestore
  <1>2. pc[c] = "unrestore" /\ pc[c] \notin Switched
    BY DEF Unrestore, Switched
  <1>3. CASE (\E ok \in BOOLEAN : StopReturns(ok)) /\ Goto(c, "unswap") /\ UNCHANGED loc
    <2>1. PICK ok \in BOOLEAN : StopReturns(ok)
      BY <1>3
    <2>2. pc'[c] = "unswap"
      BY <1>2, <1>3, Facts DEF Goto
    <2>3. LocalOK(c)' /\ AgreeOK(c)'
      BY <1>1, <1>2, <1>3, <2>2, Facts, LateStep DEF Late
    <2>4. /\ RuntimeTypeOK' /\ DriftInv'
          /\ serving' = NoConfig \/ (serving' = serving /\ adrift' = adrift)
      BY <2>1, Facts, StopEffect
    <2>5. ServingOK(c)'
      BY <1>1, <1>2, <2>2, <2>4, Facts, StoreKept DEF ServingOK, Switched
    <2> QED
      BY <1>1, <1>2, <1>3, <2>3, <2>4, <2>5, Facts, StoreKept, GotoIInv DEF Labels
  <1>4. CASE PutBack(c) /\ Finish(c)
    <2>1. /\ RuntimeTypeOK' /\ DriftInv'
          /\ serving' # NoConfig /\ ~adrift' => serving' = ActiveConfig
      BY <1>2, <1>4, PutBackEffect DEF Late
    <2> QED
      BY <1>1, <1>2, <1>4, <2>1, Facts, StoreKept, FinishIInv
  <1> QED
    BY <1>3, <1>4 DEF Unrestore

LEMMA UnswapIInv ==
  ASSUME IInv, NEW c \in Callers, Unswap(c)
  PROVE  IInv'
  <1>1. UNCHANGED <<storeVars, raced>>
    BY DEF Unswap
  <1>2. pc[c] = "unswap" /\ pc[c] \notin Switched /\ Finish(c)
    BY DEF Unswap, Switched
  <1>3. PICK ok \in BOOLEAN : StartReturns(ConfigOf(loc[c].prev), loc[c].prevEnv, ok)
    BY DEF Unswap
  <1>4. /\ ConfigOf(loc[c].prev) \in Config \cup {NoConfig} /\ loc[c].prevEnv \in Env
        /\ ConfigOf(loc[c].prev) = ActiveConfig
    BY <1>2, Facts, ConfigType, LateConfigs DEF Locals, Late
  <1>5. /\ RuntimeTypeOK' /\ DriftInv'
        /\ serving' # NoConfig /\ ~adrift' => serving' = ActiveConfig
    BY <1>2, <1>3, <1>4, Facts, StartEffect DEF ServingOK
  <1> QED
    BY <1>1, <1>2, <1>5, Facts, StoreKept, FinishIInv

---------------------------------------------------------------------------
(* Steps that write the tables *)

\* What the tables say of other revisions does not change with an apply_status.
LEMMA StatusWritten ==
  ASSUME StoreTypeOK, NEW n \in Number, Exists(n), NEW status \in ApplyStatus,
         revisions' = [revisions EXCEPT ![n].apply = status]
  PROVE  /\ revisions' \in [Number -> Revision \cup {NoRevision}]
         /\ \A m \in Number : Exists(m) => /\ revisions'[m].config = revisions[m].config
                                           /\ revisions'[m].state = revisions[m].state
                                           /\ m # n => revisions'[m].apply = revisions[m].apply
         /\ \A m : Exists(m)' <=> Exists(m)
         /\ revisions'[n].apply = status
  <1>1. revisions[n] \in Revision
    BY DEF StoreTypeOK, Exists
  <1>2. [revisions[n] EXCEPT !.apply = status] \in Revision
    BY <1>1 DEF Revision
  <1>3. \A m \in Number : revisions'[m] = IF m = n THEN [revisions[n] EXCEPT !.apply = status]
                                                   ELSE revisions[m]
    BY DEF StoreTypeOK
  <1>4. revisions' \in [Number -> Revision \cup {NoRevision}]
    BY <1>2, <1>3 DEF StoreTypeOK
  <1>5. \A m : Exists(m)' <=> Exists(m)
    BY <1>2, <1>3 DEF Exists
  <1> QED
    BY <1>1, <1>3, <1>4, <1>5 DEF Revision

\* Neither does anything that follows from documents, states and numbers.
LEMMA StatusKeeps ==
  ASSUME StoreInv, NEW n \in Number, Exists(n), NEW status \in ApplyStatus,
         revisions' = [revisions EXCEPT ![n].apply = status], nextNumber' = nextNumber
  PROVE  /\ NumberInv' /\ IdentityUnique'
         /\ \A m : /\ Exists(m)' <=> Exists(m)
                   /\ Restorable(m)' <=> Restorable(m)
                   /\ ConfigOf(m)' = ConfigOf(m)
         /\ \A m \in Number : Exists(m) => revisions'[m].state = revisions[m].state
         /\ \A m \in Number : Exists(m) /\ m # n => revisions'[m].apply = revisions[m].apply
         /\ revisions'[n].apply = status
         /\ revisions' \in [Number -> Revision \cup {NoRevision}]
  <1>1. /\ revisions' \in [Number -> Revision \cup {NoRevision}]
        /\ \A m \in Number : Exists(m) => /\ revisions'[m].config = revisions[m].config
                                          /\ revisions'[m].state = revisions[m].state
                                          /\ m # n => revisions'[m].apply = revisions[m].apply
        /\ \A m : Exists(m)' <=> Exists(m)
        /\ revisions'[n].apply = status
    BY StatusWritten DEF StoreInv
  <1>2. \A m : Exists(m) => m \in Number
    BY DEF Exists
  <1>3. \A m : Restorable(m)' <=> Restorable(m)
    BY <1>1, <1>2 DEF Restorable
  <1>4. \A m : ConfigOf(m)' = ConfigOf(m)
    BY <1>1, <1>2 DEF ConfigOf
  <1>5. NumberInv'
    BY <1>1 DEF NumberInv, StoreInv
  <1>6. IdentityUnique'
    BY <1>1, <1>3 DEF IdentityUnique, StoreInv, Restorable
  <1> QED
    BY <1>1, <1>3, <1>4, <1>5, <1>6

LEMMA ApplySucceedsIInv ==
  ASSUME IInv, NEW c \in Callers, ApplySucceeds(c)
  PROVE  IInv'
  <1> DEFINE n == loc[c].rev
  <1>1. /\ pc[c] \in {"shortcut", "mark"} /\ pc[c] # "idle" /\ Finish(c)
        /\ UNCHANGED runtimeVars /\ raced' = raced
        /\ MarkApplied(n)
    BY DEF ApplySucceeds
  <1>2. n \in Number /\ Exists(n) /\ (~raced => Agrees(n))
    BY <1>1, Facts DEF LocalOK, AgreeOK, Late, Exists
  <1>3. /\ revisions' = [revisions EXCEPT ![n].apply = "APPLIED"]
        /\ desired' = n /\ active' = n /\ ~dirty' /\ dirty' \in BOOLEAN
        /\ UNCHANGED <<db, secret, nextNumber>>
    BY <1>1 DEF MarkApplied
  <1> HIDE DEF n
  <1>4. /\ NumberInv' /\ IdentityUnique'
        /\ \A m : Exists(m)' <=> Exists(m)
        /\ \A m : Restorable(m)' <=> Restorable(m)
        /\ \A m : ConfigOf(m)' = ConfigOf(m)
        /\ revisions'[n].state = revisions[n].state
        /\ revisions'[n].apply = "APPLIED"
        /\ revisions' \in [Number -> Revision \cup {NoRevision}]
    BY <1>2, <1>3, Facts, StatusKeeps DEF ApplyStatus
  <1>5. StoreTypeOK'
    BY <1>2, <1>3, <1>4, Facts DEF StoreTypeOK
  <1>6. ActiveWasApplied'
    BY <1>2, <1>3, <1>4 DEF ActiveWasApplied
  <1>7. PendingHonest'
    BY <1>1, <1>2, <1>3, <1>4 DEF PendingHonest, Agrees
  <1>8. serving' # NoConfig /\ ~adrift' => serving' = ActiveConfig'
    <2>1. ActiveConfig' = ConfigOf(n)
      BY <1>2, <1>3, <1>4 DEF ActiveConfig, ConfigOf
    <2> QED
      BY <1>1, <2>1, Facts, RuntimeKept DEF ServingOK, Switched, n
  <1> QED
    BY <1>1, <1>4, <1>5, <1>6, <1>7, <1>8, Facts, RuntimeKept, FinishIInv DEF StoreInv

\* MarkFailed is only ever aimed at a revision that is not the active one.
LEMMA FailedIInv ==
  ASSUME IInv, NEW c \in Callers, Failed(c)
  PROVE  IInv'
  <1>1. /\ pc[c] = "failed" /\ pc[c] # "idle" /\ pc[c] \notin Switched /\ Finish(c)
        /\ UNCHANGED runtimeVars /\ raced' = raced
    BY DEF Failed, Switched
  <1>2. CASE UNCHANGED storeVars
    BY <1>1, <1>2, Facts, StoreKept, RuntimeKept, FinishIInv DEF ServingOK
  <1>3. CASE loc[c].created /\ MarkFailed(loc[c].rev)
    <2> DEFINE n == loc[c].rev
    <2>1. n \in Number /\ Exists(n) /\ n # active
      BY <1>1, <1>3, Facts DEF LocalOK, Late, Exists
    <2>2. /\ revisions' = [revisions EXCEPT ![n].apply = "FAILED"]
          /\ UNCHANGED <<db, secret, nextNumber, desired, active, dirty>>
      BY <1>3 DEF MarkFailed
    <2> HIDE DEF n
    <2>3. /\ NumberInv' /\ IdentityUnique'
          /\ \A m : Exists(m)' <=> Exists(m)
          /\ \A m : Restorable(m)' <=> Restorable(m)
          /\ \A m : ConfigOf(m)' = ConfigOf(m)
          /\ \A m \in Number : Exists(m) => revisions'[m].state = revisions[m].state
          /\ \A m \in Number : Exists(m) /\ m # n => revisions'[m].apply = revisions[m].apply
          /\ revisions' \in [Number -> Revision \cup {NoRevision}]
      BY <2>1, <2>2, Facts, StatusKeeps DEF ApplyStatus
    <2>4. StoreTypeOK'
      BY <2>2, <2>3, Facts DEF StoreTypeOK
    <2>5. ActiveWasApplied'
      BY <2>1, <2>2, <2>3, Facts DEF ActiveWasApplied, StoreInv, StoreTypeOK
    <2>6. PendingHonest'
      BY <1>1, <2>2, <2>3, Facts DEF PendingHonest, StoreInv, Restorable, Exists
    <2>7. serving' # NoConfig /\ ~adrift' => serving' = ActiveConfig'
      <3>1. ActiveConfig' = ActiveConfig
        BY <2>2, <2>3 DEF ActiveConfig, ConfigOf
      <3> QED
        BY <1>1, <3>1, Facts, RuntimeKept DEF ServingOK
    <2> QED
      BY <1>1, <2>3, <2>4, <2>5, <2>6, <2>7, Facts, RuntimeKept, FinishIInv DEF StoreInv
  <1> QED
    BY <1>2, <1>3 DEF Failed

LEMMA RestoreSucceedsIInv ==
  ASSUME IInv, NEW c \in Callers, RestoreSucceeds(c)
  PROVE  IInv'
  <1> DEFINE n == loc[c].rev
  <1>1. /\ pc[c] = "commit" /\ pc[c] # "idle" /\ Finish(c)
        /\ UNCHANGED runtimeVars /\ raced' = FALSE
        /\ RestoreState(n)
    BY DEF RestoreSucceeds
  <1>2. n \in Number /\ Exists(n) /\ Restorable(n)
    BY <1>1 DEF RestoreState, Restorable, Exists
  <1>3. /\ revisions' = [revisions EXCEPT ![n].apply = "APPLIED"]
        /\ db' = [core |-> revisions[n].state.core, dns |-> db.dns \cup revisions[n].state.dns]
        /\ desired' = n /\ active' = n /\ dirty' \in BOOLEAN
        /\ UNCHANGED <<secret, nextNumber>>
    BY <1>1 DEF RestoreState
  <1> HIDE DEF n
  <1>4. /\ NumberInv' /\ IdentityUnique'
        /\ \A m : Exists(m)' <=> Exists(m)
        /\ \A m : ConfigOf(m)' = ConfigOf(m)
        /\ revisions'[n].state = revisions[n].state
        /\ revisions'[n].apply = "APPLIED"
        /\ revisions' \in [Number -> Revision \cup {NoRevision}]
    BY <1>2, <1>3, Facts, StatusKeeps DEF ApplyStatus
  <1>5. db' \in State
    <2>1. db \in State /\ revisions[n].state \in State
      BY <1>2, Facts DEF StoreTypeOK, Restorable, Exists, Revision
    <2> QED
      BY <1>3, <2>1 DEF State
  <1>6. StoreTypeOK'
    BY <1>2, <1>3, <1>4, <1>5, Facts DEF StoreTypeOK
  <1>7. ActiveWasApplied'
    BY <1>2, <1>3, <1>4 DEF ActiveWasApplied
  <1>8. PendingHonest'
    BY <1>3, <1>4 DEF PendingHonest
  <1>9. serving' # NoConfig /\ ~adrift' => serving' = ActiveConfig'
    <2>1. ActiveConfig' = ConfigOf(n)
      BY <1>2, <1>3, <1>4 DEF ActiveConfig, ConfigOf
    <2> QED
      BY <1>1, <2>1, Facts, RuntimeKept DEF ServingOK, Switched, n
  <1> QED
    BY <1>1, <1>4, <1>6, <1>7, <1>8, <1>9, Facts, RuntimeKept, FinishIInv DEF StoreInv

\* FindByIdentity found nothing to reuse, and the lock kept it that way.
LEMMA RecordIInv ==
  ASSUME IInv, NEW c \in Callers, Record(c)
  PROVE  IInv'
  <1> DEFINE s == loc[c].snap
  <1>1. /\ pc[c] = "record" /\ pc[c] \notin Switched /\ Goto(c, "decide") /\ pc'[c] = "decide"
        /\ UNCHANGED runtimeVars /\ raced' \in BOOLEAN
    BY Facts DEF Record, Goto, Switched
  <1>r. ~raced' => db = s
    BY DEF Record
  <1>2. /\ s \in State /\ loc[c].kind # "restore" /\ loc[c].prev = active
        /\ loc[c].created => Matching(s) = {}
        /\ ~loc[c].created => loc[c].rev \in Matching(s)
    BY <1>1, Facts DEF LocalOK
  <1>3. CASE loc[c].created /\ Create(s) /\ loc' = [loc EXCEPT ![c].rev = nextNumber]
    <2> DEFINE n == nextNumber
               r == [config |-> Compile[s.core], state |-> s, apply |-> "NOT_APPLIED"]
    <2>1. /\ n \in Number /\ revisions' = [revisions EXCEPT ![n] = r] /\ nextNumber' = n + 1
          /\ desired' = n /\ dirty' \in BOOLEAN /\ UNCHANGED <<db, secret, active>>
      BY <1>3 DEF Create
    <2>2. ~Exists(n) /\ n \in Nat /\ n # active
      BY <2>1, Facts DEF StoreInv, NumberInv, ActiveWasApplied, Number
    <2>3. r \in Revision /\ r # NoRevision /\ r.state = s /\ r.config = Compile[s.core]
      BY <1>2 DEF Revision, State, ApplyStatus
    <2>4. /\ loc' \in [Callers -> Locals]
          /\ loc'[c].rev = n /\ loc'[c].kind = loc[c].kind
          /\ loc'[c].created = loc[c].created /\ loc'[c].prev = loc[c].prev
      <3> DEFINE l == [loc[c] EXCEPT !.rev = n]
      <3>1. loc \in [Callers -> Locals] /\ loc[c] \in Locals
        BY Facts
      <3>2. loc' = [loc EXCEPT ![c] = l]
        BY <1>3, <3>1
      <3>3. l \in Locals
        BY <2>1, <3>1 DEF Locals
      <3>4. /\ l.rev = n /\ l.kind = loc[c].kind
            /\ l.created = loc[c].created /\ l.prev = loc[c].prev
        BY <3>1 DEF Locals
      <3> HIDE DEF l
      <3> QED
        BY <3>1, <3>2, <3>3, <3>4, NewLocals
    <2> HIDE DEF r, n
    <2>5. \A m \in Number : revisions'[m] = IF m = n THEN r ELSE revisions[m]
      BY <2>1, Facts DEF StoreTypeOK
    <2>6. \A m : Exists(m)' <=> Exists(m) \/ m = n
      BY <2>1, <2>3, <2>5 DEF Exists
    <2>7. StoreTypeOK'
      BY <2>1, <2>2, <2>3, <2>5, Facts DEF StoreTypeOK
    <2>8. NumberInv'
      BY <2>1, <2>2, <2>6, Facts DEF StoreInv, NumberInv, StoreTypeOK, Number, n
    <2>9. ActiveWasApplied'
      BY <2>1, <2>2, <2>5, <2>6, Facts DEF StoreInv, ActiveWasApplied, StoreTypeOK
    <2>10. IdentityUnique'
      <3>1. SUFFICES ASSUME NEW k \in Number, NEW m \in Number, Restorable(k)', Restorable(m)',
                            revisions'[k].config = revisions'[m].config,
                            revisions'[k].state = revisions'[m].state
                     PROVE  k = m
        BY DEF IdentityUnique
      <3>2. CASE k # n /\ m # n
        BY <2>5, <2>6, <3>1, <3>2, Facts DEF StoreInv, IdentityUnique, Restorable
      <3>3. ASSUME NEW j \in Number, j # n, Restorable(j)', revisions'[j].config = r.config,
                   revisions'[j].state = r.state
            PROVE  FALSE
        <4>1. j \in Matching(s)
          BY <2>3, <2>5, <2>6, <3>3 DEF Matching, Restorable
        <4> QED
          BY <1>2, <1>3, <4>1
      <3> QED
        BY <2>5, <3>1, <3>2, <3>3
    <2>11. \A m : m = n /\ ~raced' => Agrees(m)'
      BY <1>r, <2>1, <2>3, <2>5 DEF Agrees, Restorable
    <2>12. PendingHonest'
      BY <2>1, <2>11 DEF PendingHonest, Agrees
    <2>13. LocalOK(c)' /\ AgreeOK(c)'
      BY <1>1, <1>2, <2>1, <2>2, <2>4, <2>6, <2>11 DEF LocalOK, AgreeOK, Late
    <2>14. ServingOK(c)'
      <3>1. ActiveConfig' = ActiveConfig
        BY <2>1, <2>2, <2>5, <2>6, Facts DEF ActiveConfig, Exists
      <3> QED
        BY <1>1, <3>1, Facts, RuntimeKept DEF ServingOK, Switched
    <2> QED
      BY <1>1, <2>4, <2>7, <2>8, <2>9, <2>10, <2>12, <2>13, <2>14, Facts, RuntimeKept, GotoIInv
      DEF StoreInv, Labels
  <1>4. CASE ~loc[c].created /\ SetDesired(loc[c].rev) /\ UNCHANGED loc
    <2> DEFINE n == loc[c].rev
    <2>1. /\ n \in Number /\ Exists(n) /\ revisions[n].state = s
          /\ desired' = n /\ dirty' \in BOOLEAN
          /\ UNCHANGED <<db, secret, revisions, nextNumber, active>>
      BY <1>2, <1>4 DEF SetDesired, Matching, Exists
    <2> HIDE DEF n
    <2>2. /\ \A m : Exists(m)' <=> Exists(m)
          /\ \A m : Restorable(m)' <=> Restorable(m)
          /\ ActiveConfig' = ActiveConfig
      BY <2>1 DEF Exists, Restorable, ActiveConfig
    <2>3. StoreTypeOK' /\ NumberInv' /\ ActiveWasApplied' /\ IdentityUnique'
      BY <2>1, <2>2, Facts DEF StoreInv, StoreTypeOK, NumberInv, ActiveWasApplied, IdentityUnique
    <2>4. \A m : m = n /\ ~raced' => Agrees(m)'
      BY <1>r, <2>1 DEF Agrees, Restorable
    <2>5. PendingHonest'
      BY <2>1, <2>4 DEF PendingHonest, Agrees
    <2>6. LocalOK(c)' /\ AgreeOK(c)'
      BY <1>1, <1>2, <1>4, <2>1, <2>2, <2>4 DEF LocalOK, AgreeOK, Late, n
    <2>7. ServingOK(c)'
      BY <1>1, <2>2, Facts, RuntimeKept DEF ServingOK, Switched
    <2> QED
      BY <1>1, <1>4, <2>3, <2>5, <2>6, <2>7, Facts, RuntimeKept, GotoIInv DEF StoreInv, Labels
  <1> QED
    BY <1>3, <1>4 DEF Record

---------------------------------------------------------------------------
(* Requests and the rest of the system *)

\* A request that takes the lock knows nothing yet.
LEMMA AcquireIInv ==
  ASSUME IInv, NEW c \in Callers, NEW kind \in Kinds, NEW n \in Number \cup {0},
         NEW label \in {"snapshot", "resume", "stop", "restore"},
         label = "snapshot" => kind # "restore",
         label = "restore" => kind = "restore",
         label = "resume" => kind \in {"start", "restart"},
         Acquire(c, kind, n, label)
  PROVE  IInv'
  <1>1. UNCHANGED <<storeVars, raced>> /\ UNCHANGED runtimeVars
    BY DEF Acquire
  <1>2. \A d \in Callers : pc[d] = "idle"
    BY DEF Acquire, IInv, LockInv
  <1>3. /\ pc' \in [Callers -> Labels]
        /\ \A d \in Callers : pc'[d] = IF d = c THEN label ELSE "idle"
        /\ lock = None /\ lock' = c
    BY <1>2, Facts DEF Acquire, Labels
  <1>4. loc' \in [Callers -> Locals] /\ loc'[c].kind = kind /\ ~loc'[c].created
    <2>1. Fresh(kind, n) \in Locals /\ Fresh(kind, n).kind = kind /\ ~Fresh(kind, n).created
      BY DEF Fresh, Locals, Env
    <2> QED
      BY <2>1, Facts DEF Acquire
  <1>5. TypeOK' /\ LockInv' /\ RuntimeMatchesActive'
    BY <1>1, <1>3, <1>4, Facts, StoreKept, RuntimeKept DEF TypeOK, LockInv, RuntimeMatchesActive, StoreInv
  <1>6. ASSUME NEW d \in Callers PROVE (LocalOK(d) /\ AgreeOK(d))'
    BY <1>3, <1>4 DEF LocalOK, AgreeOK, Late
  <1>7. ASSUME NEW d \in Callers PROVE ServingOK(d)'
    BY <1>1, <1>3, Facts, StoreKept, RuntimeKept DEF ServingOK, Switched, IInv, RuntimeMatchesActive
  <1> QED
    BY <1>1, <1>5, <1>6, <1>7, Facts, StoreKept, RuntimeKept DEF IInv

LEMMA RequestIInv ==
  ASSUME IInv, NEW c \in Callers, Request(c)
  PROVE  IInv'
  <1> USE AcquireIInv DEF Kinds
  <1>1. CASE Apply(c)
    BY <1>1 DEF Apply
  <1>2. CASE Start(c)
    BY <1>2 DEF Start
  <1>3. CASE Restart(c)
    BY <1>3 DEF Restart
  <1>4. CASE Stop(c)
    BY <1>4 DEF Stop
  <1>5. ASSUME NEW n \in Number, Restore(c, n) PROVE IInv'
    BY <1>5 DEF Restore
  <1> QED
    BY <1>1, <1>2, <1>3, <1>4, <1>5 DEF Request

LEMMA StepIInv ==
  ASSUME IInv, NEW c \in Callers, Step(c)
  PROVE  IInv'
  BY AbortIInv, TakeSnapshotIInv, IdentifyIInv, RecordIInv, DecideIInv, ActivateRestartIInv,
     SwapIInv, FallbackIInv, ActivateInPlaceIInv, VerifyIInv, ApplySucceedsIInv,
     MarkAppliedFailsIInv, RollbackIInv, FailedIInv, ResumeIInv, HaltIInv, BootIInv,
     StopRuntimeIInv, RestoreChecksIInv, RestoreSucceedsIInv, RestoreStateFailsIInv,
     UnrestoreIInv, UnswapIInv
  DEF Step

\* A deleted revision is neither active nor desired, and nobody is using it.
LEMMA DeleteIInv ==
  ASSUME IInv, NEW n \in Number, DeleteRevision(n)
  PROVE  IInv'
  <1>1. /\ Exists(n) /\ n # active /\ n # desired /\ lock = None
        /\ revisions' = [revisions EXCEPT ![n] = NoRevision]
        /\ UNCHANGED <<db, secret, nextNumber, desired, active, dirty>>
        /\ UNCHANGED <<runtimeVars, pc, loc, lock, raced>>
    BY DEF DeleteRevision, Delete
  <1>2. StoreInv /\ StoreTypeOK /\ RuntimeTypeOK /\ DriftInv
    BY DEF IInv, TypeOK, StoreInv
  <1>3. \A m \in Number : revisions'[m] = IF m = n THEN NoRevision ELSE revisions[m]
    BY <1>1, <1>2 DEF StoreTypeOK
  <1>4. \A m : Exists(m)' <=> Exists(m) /\ m # n
    BY <1>3 DEF Exists
  <1>5. \A m : Restorable(m)' <=> Restorable(m) /\ m # n
    BY <1>3, <1>4 DEF Restorable, Exists
  <1>6. StoreTypeOK'
    BY <1>1, <1>2, <1>3 DEF StoreTypeOK
  <1>7. NumberInv' /\ ActiveWasApplied'
    BY <1>1, <1>2, <1>3, <1>4 DEF StoreInv, StoreTypeOK, NumberInv, ActiveWasApplied
  <1>8. IdentityUnique'
    BY <1>2, <1>3, <1>5 DEF StoreInv, IdentityUnique
  <1>9. PendingHonest'
    BY <1>1, <1>2, <1>3, <1>5 DEF StoreInv, PendingHonest, Restorable, Exists
  <1>10. ActiveConfig' = ActiveConfig
    BY <1>1, <1>3, <1>4 DEF ActiveConfig, Exists
  <1>11. \A d \in Callers : pc'[d] = "idle"
    BY <1>1 DEF IInv, LockInv
  <1>12. TypeOK' /\ LockInv' /\ DriftInv' /\ RuntimeMatchesActive'
    BY <1>1, <1>2, <1>6, <1>10, RuntimeKept DEF IInv, TypeOK, LockInv, RuntimeMatchesActive
  <1>13. ASSUME NEW d \in Callers PROVE (LocalOK(d) /\ AgreeOK(d) /\ ServingOK(d))'
    BY <1>11 DEF LocalOK, AgreeOK, ServingOK, Late, Switched
  <1> QED
    BY <1>6, <1>7, <1>8, <1>9, <1>12, <1>13 DEF IInv, StoreInv

\* New rows raise dirty, and raced when an apply has already looked.
LEMMA WriteIInv ==
  ASSUME IInv, NEW s \in State, Write(s)
  PROVE  IInv'
  <1>1. /\ db' = s /\ dirty' = TRUE /\ raced' = (raced \/ Recorded)
        /\ UNCHANGED <<secret, revisions, nextNumber, desired, active>>
        /\ UNCHANGED <<runtimeVars, pc, loc, lock>>
    BY DEF Write, WriteRows
  <1>2. StoreInv /\ StoreTypeOK /\ RuntimeTypeOK /\ DriftInv
    BY DEF IInv, TypeOK, StoreInv
  <1>3. StoreInv'
    BY <1>1, <1>2 DEF StoreInv, StoreTypeOK, NumberInv, ActiveWasApplied, IdentityUnique,
       PendingHonest, Exists, Restorable
  <1>4. TypeOK' /\ LockInv' /\ DriftInv'
    BY <1>1, <1>3, RuntimeKept DEF IInv, TypeOK, LockInv, StoreInv
  <1>5. /\ ActiveConfig' = ActiveConfig
        /\ \A m : Exists(m)' <=> Exists(m)
        /\ \A m : ConfigOf(m)' = ConfigOf(m)
        /\ \A x : Matching(x)' = Matching(x)
        /\ active' = active /\ serving' = serving /\ adrift' = adrift
    BY <1>1 DEF ActiveConfig, Exists, ConfigOf, Matching, Restorable, runtimeVars
  <1>6. RuntimeMatchesActive'
    BY <1>1, <1>5 DEF IInv, RuntimeMatchesActive
  <1>7. ASSUME NEW d \in Callers PROVE LocalOK(d)'
    BY <1>1, <1>5, Facts DEF LocalOK
  <1>8. ASSUME NEW d \in Callers PROVE ServingOK(d)'
    BY <1>1, <1>5, Facts DEF ServingOK
  <1>9. ASSUME NEW d \in Callers PROVE AgreeOK(d)'
    <2>1. pc[d] \in Late => raced'
      BY <1>1 DEF Recorded
    <2> QED
      BY <1>1, <2>1 DEF AgreeOK
  <1> QED
    BY <1>3, <1>4, <1>6, <1>7, <1>8, <1>9 DEF IInv

LEMMA ReplaceSecretIInv ==
  ASSUME IInv, NEW v \in Secret, ReplaceSecret(v)
  PROVE  IInv'
  <1>1. /\ secret' = v /\ dirty' = TRUE
        /\ UNCHANGED <<db, revisions, nextNumber, desired, active>>
        /\ UNCHANGED <<runtimeVars, pc, loc, lock, raced>>
    BY DEF ReplaceSecret, PutSecret
  <1>2. StoreInv /\ StoreTypeOK /\ RuntimeTypeOK /\ DriftInv
    BY DEF IInv, TypeOK, StoreInv
  <1>3. StoreInv'
    BY <1>1, <1>2 DEF StoreInv, StoreTypeOK, NumberInv, ActiveWasApplied, IdentityUnique,
       PendingHonest, Exists, Restorable
  <1>4. TypeOK' /\ LockInv' /\ DriftInv'
    BY <1>1, <1>3, RuntimeKept DEF IInv, TypeOK, LockInv, StoreInv
  <1>5. /\ ActiveConfig' = ActiveConfig
        /\ \A m : Exists(m)' <=> Exists(m)
        /\ \A m : ConfigOf(m)' = ConfigOf(m)
        /\ \A m : Agrees(m)' <=> Agrees(m)
        /\ \A x : Matching(x)' = Matching(x)
        /\ active' = active /\ serving' = serving /\ adrift' = adrift
    BY <1>1 DEF ActiveConfig, Exists, ConfigOf, Agrees, Matching, Restorable, runtimeVars
  <1>6. RuntimeMatchesActive'
    BY <1>1, <1>5 DEF IInv, RuntimeMatchesActive
  <1>7. ASSUME NEW d \in Callers PROVE (LocalOK(d) /\ AgreeOK(d) /\ ServingOK(d))'
    BY <1>1, <1>5, Facts DEF LocalOK, AgreeOK, ServingOK
  <1> QED
    BY <1>3, <1>4, <1>6, <1>7 DEF IInv

\* Caddy by itself only goes down, or drifts further when it is adrift.
LEMMA RuntimeIInv ==
  ASSUME IInv, Runtime
  PROVE  IInv'
  <1>1. UNCHANGED <<storeVars, raced>> /\ UNCHANGED <<pc, loc, lock>>
    BY DEF Runtime
  <1>2. StoreInv /\ StoreTypeOK /\ RuntimeTypeOK /\ DriftInv
    BY DEF IInv, TypeOK, StoreInv
  <1>3. /\ RuntimeTypeOK' /\ DriftInv'
        /\ serving' = NoConfig \/ (adrift' /\ serving # NoConfig)
    <2>1. CASE LateLoad
      BY <1>2, <2>1 DEF LateLoad, RuntimeTypeOK, DriftInv
    <2>2. CASE CaddyExits
      BY <1>2, <2>2 DEF CaddyExits, Down, RuntimeTypeOK, DriftInv
    <2> QED
      BY <2>1, <2>2 DEF Runtime
  <1>4. TypeOK' /\ LockInv' /\ RuntimeMatchesActive'
    BY <1>1, <1>2, <1>3, StoreKept DEF IInv, TypeOK, LockInv, RuntimeMatchesActive, StoreInv
  <1>5. ASSUME NEW d \in Callers PROVE (LocalOK(d) /\ AgreeOK(d) /\ ServingOK(d))'
    BY <1>1, <1>3, Facts, StoreKept DEF LocalOK, AgreeOK, ServingOK
  <1> QED
    BY <1>1, <1>2, <1>3, <1>4, <1>5, StoreKept DEF IInv

LEMMA CrashIInv ==
  ASSUME IInv, DaemonCrash
  PROVE  IInv'
  <1>1. UNCHANGED <<storeVars, raced>> /\ Down /\ environment' = NoEnv /\ lock' = None
    BY DEF DaemonCrash
  <1>2. StoreInv /\ StoreTypeOK
    BY DEF IInv, StoreInv
  <1>3. RuntimeTypeOK' /\ DriftInv' /\ serving' = NoConfig
    BY <1>1 DEF Down, RuntimeTypeOK, DriftInv, Env
  <1>4. /\ pc' \in [Callers -> Labels] /\ loc' \in [Callers -> Locals]
        /\ \A d \in Callers : pc'[d] = "idle"
    BY DEF DaemonCrash, Labels, Locals, Fresh, Kinds, Env
  <1>5. TypeOK' /\ LockInv' /\ RuntimeMatchesActive'
    BY <1>1, <1>2, <1>3, <1>4, StoreKept DEF IInv, TypeOK, LockInv, RuntimeMatchesActive, StoreInv
  <1>6. ASSUME NEW d \in Callers PROVE (LocalOK(d) /\ AgreeOK(d) /\ ServingOK(d))'
    BY <1>4 DEF LocalOK, AgreeOK, ServingOK, Late, Switched
  <1> QED
    BY <1>1, <1>2, <1>3, <1>5, <1>6, StoreKept DEF IInv

LEMMA StutterIInv ==
  ASSUME IInv, UNCHANGED vars
  PROVE  IInv'
  <1>1. UNCHANGED <<storeVars, raced>> /\ UNCHANGED runtimeVars /\ UNCHANGED <<pc, loc, lock>>
    BY DEF vars
  <1>2. StoreInv /\ RuntimeTypeOK /\ DriftInv
    BY DEF IInv, TypeOK
  <1>3. TypeOK' /\ LockInv' /\ RuntimeMatchesActive'
    BY <1>1, <1>2, StoreKept, RuntimeKept DEF IInv, TypeOK, LockInv, RuntimeMatchesActive, StoreInv
  <1>4. ASSUME NEW d \in Callers PROVE (LocalOK(d) /\ AgreeOK(d) /\ ServingOK(d))'
    BY <1>1, <1>2, Facts, StoreKept, RuntimeKept DEF LocalOK, AgreeOK, ServingOK
  <1> QED
    BY <1>1, <1>2, <1>3, <1>4, StoreKept, RuntimeKept DEF IInv

---------------------------------------------------------------------------
(* The invariant, and what follows from it *)

LEMMA InitIInv == Init => IInv
  <1> SUFFICES ASSUME Init PROVE IInv
    OBVIOUS
  <1>1. StoreInit /\ RuntimeInit
    BY DEF Init
  <1>2. StoreInv
    <2>1. db \in State /\ secret \in Secret
      BY <1>1 DEF StoreInit, State
    <2>2. CASE /\ revisions = [n \in Number |-> NoRevision]
               /\ nextNumber = 1 /\ desired = 0 /\ active = 0 /\ dirty = TRUE
      BY <2>1, <2>2 DEF StoreInv, StoreTypeOK, NumberInv, ActiveWasApplied, IdentityUnique,
         PendingHonest, Exists, Restorable
    <2>3. CASE /\ revisions = [n \in Number |->
                      IF n = 1
                      THEN [config |-> Compile[db.core], state |-> NoSnapshot,
                            apply |-> "APPLIED"]
                      ELSE NoRevision]
               /\ nextNumber = 2 /\ desired = 1 /\ active = 1 /\ dirty \in BOOLEAN
      <3> DEFINE r == [config |-> Compile[db.core], state |-> NoSnapshot, apply |-> "APPLIED"]
      <3>1. r \in Revision /\ r.state = NoSnapshot /\ r.apply = "APPLIED" /\ r # NoRevision
        BY <2>1 DEF Revision, State, ApplyStatus
      <3>2. revisions = [n \in Number |-> IF n = 1 THEN r ELSE NoRevision] /\ 1 \in Number
        BY <2>3 DEF Number
      <3> HIDE DEF r
      <3>3. \A n : (Exists(n) <=> n = 1) /\ ~Restorable(n)
        BY <3>1, <3>2 DEF Exists, Restorable
      <3>4. StoreTypeOK
        BY <2>1, <2>3, <3>1, <3>2 DEF StoreTypeOK
      <3> QED
        BY <2>3, <3>1, <3>2, <3>3, <3>4
        DEF StoreInv, NumberInv, ActiveWasApplied, IdentityUnique, PendingHonest
    <2> QED
      BY <1>1, <2>2, <2>3 DEF StoreInit
  <1>3. RuntimeTypeOK /\ DriftInv /\ serving = NoConfig
    BY <1>1 DEF RuntimeInit, RuntimeTypeOK, DriftInv, Env
  <1>4. /\ pc \in [Callers -> Labels] /\ loc \in [Callers -> Locals]
        /\ \A d \in Callers : pc[d] = "idle"
        /\ lock = None /\ raced \in BOOLEAN
    BY DEF Init, Labels, Locals, Fresh, Kinds, Env
  <1>5. TypeOK /\ LockInv /\ RuntimeMatchesActive
    BY <1>2, <1>3, <1>4 DEF TypeOK, LockInv, RuntimeMatchesActive, StoreInv
  <1>6. ASSUME NEW d \in Callers PROVE LocalOK(d) /\ AgreeOK(d) /\ ServingOK(d)
    BY <1>4 DEF LocalOK, AgreeOK, ServingOK, Late, Switched
  <1> QED
    BY <1>2, <1>3, <1>5, <1>6 DEF IInv

LEMMA NextIInv == IInv /\ [Next]_vars => IInv'
  BY RequestIInv, StepIInv, DeleteIInv, WriteIInv, ReplaceSecretIInv, RuntimeIInv, CrashIInv,
     StutterIInv
  DEF Next

LEMMA AlwaysIInv == Spec => []IInv
  BY InitIInv, NextIInv, PTL DEF Spec

\* Type correctness of the tables, the runtime view and the operations.
THEOREM TypeCorrect == Spec => []TypeOK
  <1>1. IInv => TypeOK
    BY DEF IInv
  <1> QED
    BY <1>1, AlwaysIInv, PTL

\* However operations, failures, deletions and restarts interleave, applying a
\* state twice never stores it twice.
THEOREM IdentitiesAreUnique == Spec => []IdentityUnique
  <1>1. IInv => IdentityUnique
    BY DEF IInv, StoreInv
  <1> QED
    BY <1>1, AlwaysIInv, PTL

\* The active revision always exists and is marked applied, and the desired
\* one exists.
THEOREM ActiveIsApplied == Spec => []ActiveWasApplied
  <1>1. IInv => ActiveWasApplied
    BY DEF IInv, StoreInv
  <1> QED
    BY <1>1, AlwaysIInv, PTL

\* A clear dirty bit means that the desired revision holds the rows of the
\* database, unless they were edited during the apply that cleared it.
THEOREM PendingIsHonest == Spec => []PendingHonest
  <1>1. IInv => PendingHonest
    BY DEF IInv, StoreInv
  <1> QED
    BY <1>1, AlwaysIInv, PTL

\* Between operations Caddy serves the active revision's document, unless an
\* operation failed after switching it.
THEOREM RuntimeIsActive == Spec => []RuntimeMatchesActive
  <1>1. IInv => RuntimeMatchesActive
    BY DEF IInv
  <1> QED
    BY <1>1, AlwaysIInv, PTL

---------------------------------------------------------------------------
(* Action properties *)

\* What RevisionsAppendOnly says of a single step.
Appends ==
    \A n \in Number :
        /\ Exists(n) /\ Exists(n)' =>
              /\ revisions'[n].config = revisions[n].config
              /\ revisions'[n].state = revisions[n].state
        /\ ~Exists(n) /\ Exists(n)' => n = nextNumber /\ nextNumber' > n

LEMMA KeepsAppends ==
  ASSUME UNCHANGED revisions
  PROVE  Appends
  BY DEF Appends, Exists

\* Only the status column of a stored revision is ever written.
LEMMA StatusAppends ==
  ASSUME StoreTypeOK, NEW k, Exists(k), NEW status,
         revisions' = [revisions EXCEPT ![k].apply = status]
  PROVE  Appends
  <1> SUFFICES ASSUME NEW n \in Number, Exists(n)'
               PROVE  /\ Exists(n)
                      /\ revisions'[n].config = revisions[n].config
                      /\ revisions'[n].state = revisions[n].state
    BY DEF Appends
  <1>1. k \in Number /\ revisions[k] \in Revision
    BY DEF StoreTypeOK, Exists
  <1>2. CASE n = k
    BY <1>1, <1>2 DEF StoreTypeOK, Revision
  <1>3. CASE n # k
    BY <1>1, <1>3 DEF StoreTypeOK, Exists
  <1> QED
    BY <1>2, <1>3

\* A new row takes the next number of revision_sequence, which is free.
LEMMA CreateAppends ==
  ASSUME StoreTypeOK, NumberInv, NEW s, Create(s)
  PROVE  Appends
  <1> SUFFICES ASSUME NEW n \in Number, Exists(n)'
               PROVE  /\ Exists(n) => /\ revisions'[n].config = revisions[n].config
                                      /\ revisions'[n].state = revisions[n].state
                      /\ ~Exists(n) => n = nextNumber /\ nextNumber' > n
    BY DEF Appends
  <1>1. nextNumber \in Nat /\ nextNumber' = nextNumber + 1 /\ ~Exists(nextNumber)
    BY DEF StoreTypeOK, NumberInv, Create
  <1>2. CASE n = nextNumber
    BY <1>1, <1>2
  <1>3. CASE n # nextNumber
    BY <1>3 DEF StoreTypeOK, Create, Exists
  <1> QED
    BY <1>2, <1>3

LEMMA DeleteAppends ==
  ASSUME StoreTypeOK, NEW k, Delete(k)
  PROVE  Appends
  BY DEF StoreTypeOK, Delete, Appends, Exists

LEMMA StepAppends ==
  ASSUME StoreTypeOK, NumberInv, NEW c \in Callers, Step(c)
  PROVE  Appends
  <1>1. CASE UNCHANGED storeVars
    BY <1>1, KeepsAppends DEF storeVars
  <1>2. CASE Record(c)
    BY <1>2, CreateAppends, KeepsAppends DEF Record, SetDesired
  <1>3. CASE ApplySucceeds(c)
    BY <1>3, StatusAppends DEF ApplySucceeds, MarkApplied
  <1>4. CASE Failed(c)
    BY <1>1, <1>4, StatusAppends DEF Failed, MarkFailed
  <1>5. CASE RestoreSucceeds(c)
    BY <1>5, StatusAppends DEF RestoreSucceeds, RestoreState, Restorable
  <1>6. CASE Abort(c) \/ TakeSnapshot(c) \/ Identify(c) \/ Decide(c) \/ Resume(c)
             \/ RestoreChecks(c)
    BY <1>1, <1>6, Zenon DEF Abort, TakeSnapshot, Identify, Decide, Resume, RestoreChecks
  <1>7. CASE ActivateRestart(c) \/ Swap(c) \/ Fallback(c) \/ ActivateInPlace(c)
             \/ Verify(c) \/ MarkAppliedFails(c) \/ Rollback(c)
    BY <1>1, <1>7, Zenon
    DEF ActivateRestart, Swap, Fallback, ActivateInPlace, Verify, MarkAppliedFails, Rollback
  <1>8. CASE Halt(c) \/ Boot(c) \/ StopRuntime(c) \/ RestoreStateFails(c) \/ Unrestore(c)
             \/ Unswap(c)
    BY <1>1, <1>8, Zenon
    DEF Halt, Boot, StopRuntime, RestoreStateFails, Unrestore, Unswap
  <1> QED
    BY <1>2, <1>3, <1>4, <1>5, <1>6, <1>7, <1>8 DEF Step

\* A stored revision is immutable but for its status, and numbers are never
\* given twice, whatever is deleted in between.
THEOREM RevisionsOnlyAppended == Spec => RevisionsAppendOnly
  <1>1. ASSUME IInv, [Next]_vars PROVE Appends
    <2>1. StoreTypeOK /\ NumberInv
      BY <1>1 DEF IInv, StoreInv
    <2>2. ASSUME NEW c \in Callers, Request(c) PROVE Appends
      BY <2>2, KeepsAppends
      DEF Request, Apply, Start, Restart, Stop, Restore, Acquire, storeVars
    <2>3. ASSUME NEW c \in Callers, Step(c) PROVE Appends
      BY <2>1, <2>3, StepAppends
    <2>4. ASSUME NEW n \in Number, DeleteRevision(n) PROVE Appends
      BY <2>1, <2>4, DeleteAppends DEF DeleteRevision
    <2>5. ASSUME NEW s \in State, Write(s) PROVE Appends
      BY <2>5, KeepsAppends DEF Write, WriteRows
    <2>6. ASSUME NEW v \in Secret, ReplaceSecret(v) PROVE Appends
      BY <2>6, KeepsAppends DEF ReplaceSecret, PutSecret
    <2>7. CASE Runtime \/ DaemonCrash \/ UNCHANGED vars
      BY <2>7, KeepsAppends DEF Runtime, DaemonCrash, vars, storeVars
    <2> QED
      BY <1>1, <2>2, <2>3, <2>4, <2>5, <2>6, <2>7 DEF Next
  <1>2. Spec => [][Appends]_vars
    BY <1>1, AlwaysIInv, PTL DEF Spec
  <1> QED
    BY <1>2 DEF RevisionsAppendOnly, Appends

---------------------------------------------------------------------------
(* Start and Restart keep the revisions *)

LEMMA StepAppendsIInv ==
  ASSUME IInv, NEW c \in Callers, Step(c)
  PROVE  Appends
  BY StepAppends DEF IInv, StoreInv

\* Whether the active revision can be brought up changes only with the pointer.
LEMMA RestorableKept ==
  ASSUME IInv, IInv', Appends, active' = active
  PROVE  Restorable(active)' <=> Restorable(active)
  <1>1. CASE active = 0
    BY <1>1 DEF Restorable, Exists, Number
  <1>2. CASE active # 0
    <2>1. Exists(active) /\ Exists(active)'
      BY <1>2 DEF IInv, StoreInv, ActiveWasApplied
    <2>2. revisions'[active].state = revisions[active].state
      BY <2>1 DEF Appends, Exists
    <2> QED
      BY <2>1, <2>2 DEF Restorable, Exists
  <1> QED
    BY <1>1, <1>2

\* After the end of an operation nobody is in one.
LEMMA FinishLifecycle ==
  ASSUME IInv, NEW c \in Callers, pc[c] # "idle", Finish(c)
  PROVE  LifecycleInv'
  <1>1. \A d \in Callers : pc'[d] = "idle"
    BY Alone DEF Finish, IInv, TypeOK
  <1> QED
    BY <1>1 DEF LifecycleInv

\* What remains to be shown of a step to another label.
LEMMA GotoLifecycle ==
  ASSUME IInv, IInv', LifecycleInv, NEW c \in Callers, pc[c] \notin {"idle", "stop"},
         NEW label, Goto(c, label), loc'[c].kind = loc[c].kind, Appends, active' = active,
         \/ pc[c] \in Applying
         \/ label \notin Applying
         \/ loc[c].kind = "restore"
         \/ ~Restorable(active)
  PROVE  LifecycleInv'
  <1>1. \A d \in Callers : pc'[d] = IF d = c THEN label ELSE "idle"
    BY Alone DEF Goto, IInv, TypeOK
  <1>2. Restorable(active)' <=> Restorable(active)
    BY RestorableKept
  <1>3. /\ loc[c].kind # "stop"
        /\ loc[c].kind \in {"start", "restart"} /\ label \in Applying => ~Restorable(active)
    BY DEF LifecycleInv
  <1> QED
    BY <1>1, <1>2, <1>3 DEF LifecycleInv

\* The steps that change locals keep the kind of the operation.
LEMMA KindKept ==
  ASSUME IInv, NEW c \in Callers,
         TakeSnapshot(c) \/ Identify(c) \/ Record(c) \/ Decide(c) \/ Resume(c) \/ RestoreChecks(c)
  PROVE  loc'[c].kind = loc[c].kind
  <1>1. loc \in [Callers -> Locals] /\ loc[c] \in Locals
    BY DEF IInv, TypeOK
  <1> USE <1>1 DEF Locals
  <1>2. CASE TakeSnapshot(c)
    BY <1>2 DEF TakeSnapshot
  <1>3. CASE Identify(c)
    BY <1>3 DEF Identify
  <1>4. CASE Record(c)
    BY <1>4 DEF Record
  <1>5. CASE Decide(c)
    BY <1>5 DEF Decide
  <1>6. CASE Resume(c)
    BY <1>6 DEF Resume
  <1>7. CASE RestoreChecks(c)
    <2>1. PICK env, changed : loc' = [loc EXCEPT ![c].env = env, ![c].prev = active,
                                                 ![c].prevEnv = environment,
                                                 ![c].changed = changed]
      BY <1>7, Zenon DEF RestoreChecks
    <2> QED
      BY <2>1
  <1> QED
    BY <1>2, <1>3, <1>4, <1>5, <1>6, <1>7

LEMMA StepLifecycle ==
  ASSUME IInv, IInv', LifecycleInv, NEW c \in Callers, Step(c)
  PROVE  LifecycleInv'
  <1>1. Appends
    BY StepAppendsIInv
  <1>2. ASSUME Finish(c), pc[c] # "idle" PROVE LifecycleInv'
    BY <1>2, FinishLifecycle
  <1>3. ASSUME pc[c] \in Applying, NEW label, Goto(c, label), loc'[c].kind = loc[c].kind,
               active' = active
        PROVE  LifecycleInv'
    BY <1>1, <1>3, GotoLifecycle DEF Applying, Late
  <1>4. CASE Abort(c) \/ ApplySucceeds(c) \/ Failed(c) \/ Boot(c) \/ StopRuntime(c)
             \/ RestoreSucceeds(c) \/ Unswap(c)
    BY <1>2, <1>4
    DEF Abort, ApplySucceeds, Failed, Boot, StopRuntime, RestoreSucceeds, Unswap
  <1>5. CASE TakeSnapshot(c) \/ Identify(c) \/ Decide(c)
    BY <1>3, <1>5, KindKept DEF TakeSnapshot, Identify, Decide, Applying, Late, storeVars
  <1>6. CASE Record(c)
    BY <1>3, <1>6, KindKept DEF Record, Create, SetDesired, Applying
  <1>7. CASE ActivateRestart(c) \/ Swap(c) \/ Fallback(c) \/ ActivateInPlace(c)
             \/ Verify(c) \/ MarkAppliedFails(c) \/ Rollback(c) \/ RestoreStateFails(c)
    BY <1>3, <1>7
    DEF ActivateRestart, Swap, Fallback, ActivateInPlace, Verify, MarkAppliedFails, Rollback,
        RestoreStateFails, Applying, Late, storeVars
  <1>8. CASE Unrestore(c)
    BY <1>2, <1>3, <1>8 DEF Unrestore, Applying, Late, storeVars
  <1>9. CASE Resume(c)
    <2>1. pc[c] = "resume" /\ active' = active /\ loc'[c].kind = loc[c].kind
      BY <1>9, KindKept DEF Resume, storeVars
    <2>2. CASE Restorable(active)
      BY <1>1, <1>9, <2>1, <2>2, GotoLifecycle DEF Resume, Applying, Late
    <2>3. CASE ~Restorable(active)
      BY <1>1, <1>9, <2>1, <2>3, GotoLifecycle DEF Resume
    <2> QED
      BY <2>2, <2>3
  <1>10. CASE Halt(c)
    BY <1>1, <1>2, <1>10, GotoLifecycle DEF Halt, Applying, Late, storeVars
  <1>11. CASE RestoreChecks(c)
    <2>1. pc[c] = "restore" /\ active' = active /\ loc'[c].kind = loc[c].kind
      BY <1>11, KindKept DEF RestoreChecks, storeVars
    <2>2. loc[c].kind = "restore"
      BY <2>1 DEF IInv, LocalOK
    <2> QED
      BY <1>1, <1>11, <2>1, <2>2, GotoLifecycle DEF RestoreChecks
  <1> QED
    BY <1>4, <1>5, <1>6, <1>7, <1>8, <1>9, <1>10, <1>11 DEF Step

LEMMA RequestLifecycle ==
  ASSUME IInv, LifecycleInv, NEW c \in Callers, Request(c)
  PROVE  LifecycleInv'
  <1>1. ASSUME NEW kind, NEW n, NEW label, Acquire(c, kind, n, label),
               kind = "stop" => label = "stop",
               kind \in {"start", "restart"} => label \notin Applying
        PROVE  LifecycleInv'
    <2>1. \A d \in Callers : pc[d] = "idle"
      BY <1>1 DEF Acquire, IInv, LockInv
    <2>2. \A d \in Callers : d # c => pc'[d] = "idle"
      BY <1>1, <2>1 DEF Acquire, IInv, TypeOK
    <2>3. pc'[c] = label /\ loc'[c].kind = kind
      BY <1>1 DEF Acquire, Fresh, IInv, TypeOK
    <2> QED
      BY <1>1, <2>2, <2>3 DEF LifecycleInv
  <1> QED
    BY <1>1 DEF Request, Apply, Start, Restart, Stop, Restore, Applying, Late

LEMMA NextLifecycle ==
  ASSUME IInv, IInv', LifecycleInv, [Next]_vars
  PROVE  LifecycleInv'
  <1>1. ASSUME NEW c \in Callers, Request(c) \/ Step(c) PROVE LifecycleInv'
    BY <1>1, RequestLifecycle, StepLifecycle
  <1>2. ASSUME NEW n \in Number, DeleteRevision(n) PROVE LifecycleInv'
    <2>1. \A c \in Callers : pc'[c] = "idle"
      BY <1>2 DEF DeleteRevision, IInv, LockInv
    <2> QED
      BY <2>1 DEF LifecycleInv
  <1>3. ASSUME UNCHANGED <<revisions, active, pc, loc>> PROVE LifecycleInv'
    BY <1>3 DEF LifecycleInv, Restorable, Exists
  <1>4. ASSUME NEW s \in State, Write(s) PROVE LifecycleInv'
    BY <1>3, <1>4 DEF Write, WriteRows
  <1>5. ASSUME NEW v \in Secret, ReplaceSecret(v) PROVE LifecycleInv'
    BY <1>3, <1>5 DEF ReplaceSecret, PutSecret
  <1>6. CASE Runtime \/ UNCHANGED vars
    BY <1>3, <1>6 DEF Runtime, vars, storeVars
  <1>7. CASE DaemonCrash
    BY <1>7 DEF DaemonCrash, LifecycleInv
  <1> QED
    BY <1>1, <1>2, <1>4, <1>5, <1>6, <1>7 DEF Next

\* Start, Restart and Stop touch neither revisions nor pointers while there is
\* an active revision that can be brought up.
THEOREM LifecycleIsReadOnly == Spec => LifecycleKeepsRevisions
  <1> DEFINE Kept == UNCHANGED <<revisions, nextNumber, desired, active>>
             Keeps == \A c \in Callers :
                         lock = c /\ loc[c].kind \in {"start", "restart", "stop"}
                            /\ Restorable(active) => Kept
  <1>1. Init => LifecycleInv
    BY DEF Init, LifecycleInv
  <1>2. ASSUME IInv, LifecycleInv, [Next]_vars PROVE Keeps
    <2> SUFFICES ASSUME NEW c \in Callers, lock = c, Restorable(active),
                        loc[c].kind \in {"start", "restart", "stop"}
                 PROVE  Kept
      OBVIOUS
    <2>1. pc[c] # "idle" /\ pc[c] \notin Applying
      BY <1>2 DEF IInv, LockInv, LifecycleInv, Applying, Late
    <2>2. ASSUME UNCHANGED storeVars PROVE Kept
      BY <2>2 DEF storeVars
    <2>3. ASSUME NEW d \in Callers, Request(d) PROVE Kept
      BY <2>2, <2>3 DEF Request, Apply, Start, Restart, Stop, Restore, Acquire
    <2>4. ASSUME NEW d \in Callers, Step(d) PROVE Kept
      <3>1. CASE pc[d] = "idle"
        BY <2>4, <3>1
        DEF Step, Abort, TakeSnapshot, Identify, Record, Decide, ActivateRestart, Swap,
            Fallback, ActivateInPlace, Verify, ApplySucceeds, MarkAppliedFails, Rollback,
            Failed, Resume, Halt, Boot, StopRuntime, RestoreChecks, RestoreSucceeds,
            RestoreStateFails, Unrestore, Unswap
      <3>2. CASE pc[d] # "idle"
        <4>1. d = c
          BY <1>2, <3>2 DEF IInv, LockInv
        <4>2. Abort(c) \/ Resume(c) \/ Halt(c) \/ Boot(c) \/ StopRuntime(c) \/ RestoreChecks(c)
          BY <2>1, <2>4, <4>1
          DEF Step, TakeSnapshot, Identify, Record, Decide, ActivateRestart, Swap,
              Fallback, ActivateInPlace, Verify, ApplySucceeds, MarkAppliedFails, Rollback,
              Failed, RestoreSucceeds, RestoreStateFails, Unrestore, Unswap, Applying, Late
        <4> QED
          BY <2>2, <4>2 DEF Abort, Resume, Halt, Boot, StopRuntime, RestoreChecks
      <3> QED
        BY <3>1, <3>2
    <2>5. ASSUME NEW n \in Number, DeleteRevision(n) PROVE Kept
      BY <2>5 DEF DeleteRevision
    <2>6. ASSUME NEW s \in State, Write(s) PROVE Kept
      BY <2>6 DEF Write, WriteRows
    <2>7. ASSUME NEW v \in Secret, ReplaceSecret(v) PROVE Kept
      BY <2>7 DEF ReplaceSecret, PutSecret
    <2>8. CASE Runtime \/ DaemonCrash \/ UNCHANGED vars
      BY <2>2, <2>8 DEF Runtime, DaemonCrash, vars
    <2> QED
      BY <1>2, <2>3, <2>4, <2>5, <2>6, <2>7, <2>8 DEF Next
  <1>3. IInv /\ IInv' /\ LifecycleInv /\ [Next]_vars => LifecycleInv'
    BY NextLifecycle
  <1>4. Spec => [][Keeps]_vars
    BY <1>1, <1>2, <1>3, AlwaysIInv, PTL DEF Spec
  <1> QED
    BY <1>4 DEF LifecycleKeepsRevisions

---------------------------------------------------------------------------
(* How long an operation holds the lock *)

\* A bound for the calls an operation has left, by its next call.
StepsLeft(label) ==
  CASE label = "idle" -> 0
    [] label \in {"failed", "boot", "stop", "unswap"} -> 1
    [] label \in {"shortcut", "fallback", "rollback", "halt", "unrestore"} -> 2
    [] label \in {"mark", "commit"} -> 3
    [] label = "verify" -> 4
    [] label = "swap" -> 5
    [] label = "activate" -> 6
    [] label \in {"decide", "restore"} -> 7
    [] label = "record" -> 8
    [] label = "identify" -> 9
    [] label = "snapshot" -> 10
    [] label = "resume" -> 11

Nearer(c) == StepsLeft(pc'[c]) < StepsLeft(pc[c])

\* Callers that are in an operation stay where they are or come nearer its end.
Shrinks == \A c \in Callers : pc[c] # "idle" => pc'[c] = pc[c] \/ Nearer(c)

LEMMA GoesNearer ==
  ASSUME pc \in [Callers -> Labels], NEW c \in Callers, NEW label,
         pc' = [pc EXCEPT ![c] = label], StepsLeft(label) < StepsLeft(pc[c])
  PROVE  Nearer(c) /\ \A d \in Callers \ {c} : pc'[d] = pc[d]
  BY DEF Nearer

\* The next calls of every call.
LEMMA NextCalls ==
  ASSUME NEW c \in Callers, Step(c)
  PROVE  \E label :
            /\ pc' = [pc EXCEPT ![c] = label]
            /\ \/ label = "idle" /\ pc[c] # "idle" /\ pc[c] \in Labels
               \/ label = "failed" /\ pc[c] \in {"activate", "swap", "fallback", "verify", "shortcut", "rollback"}
               \/ label = "verify" /\ pc[c] \in {"activate", "swap"}
               \/ label = "snapshot" /\ pc[c] = "resume"
               \/ label = "identify" /\ pc[c] = "snapshot"
               \/ label = "record" /\ pc[c] = "identify"
               \/ label = "decide" /\ pc[c] = "record"
               \/ label \in {"shortcut", "activate"} /\ pc[c] = "decide"
               \/ label = "activate" /\ pc[c] = "restore"
               \/ label = "swap" /\ pc[c] = "activate"
               \/ label = "fallback" /\ pc[c] = "swap"
               \/ label \in {"mark", "commit"} /\ pc[c] = "verify"
               \/ label = "rollback" /\ pc[c] = "mark"
               \/ label \in {"halt", "boot"} /\ pc[c] = "resume"
               \/ label = "boot" /\ pc[c] = "halt"
               \/ label = "unrestore" /\ pc[c] = "commit"
               \/ label = "unswap" /\ pc[c] = "unrestore"
  <1>1. CASE Abort(c) \/ TakeSnapshot(c) \/ Identify(c) \/ Record(c)
    BY <1>1 DEF Abort, TakeSnapshot, Identify, Record, Goto, Finish, Labels
  <1>2. CASE Decide(c)
    BY <1>2 DEF Decide, Goto
  <1>3. CASE ActivateRestart(c) \/ Swap(c) \/ Fallback(c) \/ ActivateInPlace(c)
    BY <1>3 DEF ActivateRestart, Swap, Fallback, ActivateInPlace, Goto
  <1>4. CASE Verify(c) \/ ApplySucceeds(c) \/ MarkAppliedFails(c) \/ Rollback(c) \/ Failed(c)
    BY <1>4 DEF Verify, ApplySucceeds, MarkAppliedFails, Rollback, Failed, Goto, Finish, Labels
  <1>5. CASE Resume(c) \/ Halt(c) \/ Boot(c) \/ StopRuntime(c)
    BY <1>5 DEF Resume, Halt, Boot, StopRuntime, Goto, Finish, Labels
  <1>6. CASE \/ RestoreChecks(c) \/ RestoreSucceeds(c) \/ RestoreStateFails(c)
             \/ Unrestore(c) \/ Unswap(c)
    BY <1>6 DEF RestoreChecks, RestoreSucceeds, RestoreStateFails, Unrestore, Unswap,
                Goto, Finish, Labels
  <1> QED
    BY <1>1, <1>2, <1>3, <1>4, <1>5, <1>6 DEF Step

LEMMA StepNearer ==
  ASSUME TypeOK, NEW c \in Callers, Step(c)
  PROVE  Nearer(c) /\ \A d \in Callers \ {c} : pc'[d] = pc[d]
  <1>1. PICK label :
            /\ pc' = [pc EXCEPT ![c] = label]
            /\ StepsLeft(label) < StepsLeft(pc[c])
    BY NextCalls DEF StepsLeft, Labels
  <1>2. pc \in [Callers -> Labels]
    BY DEF TypeOK
  <1> QED
    BY <1>1, <1>2, GoesNearer

\* No operation repeats a call: while it holds the lock, every step of it takes it
\* nearer to the release, and no step of anybody else takes it further away, so an
\* operation ends after at most eleven calls (the error paths, fallbacks and
\* rollbacks of apply, Start, Restart, Restore and Stop).  With the fairness that
\* calls return, this is why LockAlwaysReleased holds.
THEOREM OperationsAreBounded == Spec => [][Shrinks]_vars
  <1>1. ASSUME TypeOK, [Next]_vars PROVE Shrinks
    <2>0. pc \in [Callers -> Labels]
      BY <1>1 DEF TypeOK
    <2>1. ASSUME NEW c \in Callers, Step(c) PROVE Shrinks
      BY <1>1, <2>1, StepNearer DEF Shrinks
    <2>2. ASSUME NEW c \in Callers, Request(c) PROVE Shrinks
      BY <2>0, <2>2 DEF Shrinks, Request, Apply, Start, Restart, Stop, Restore, Acquire
    <2>3. CASE DaemonCrash
      BY <2>0, <2>3 DEF Shrinks, Nearer, StepsLeft, DaemonCrash, Labels
    <2>4. CASE UNCHANGED pc
      BY <2>4 DEF Shrinks
    <2>5. ASSUME NEW n \in Number, DeleteRevision(n) PROVE UNCHANGED pc
      BY <2>5 DEF DeleteRevision
    <2>6. CASE Runtime \/ (\E s \in State : Write(s)) \/ (\E v \in Secret : ReplaceSecret(v)) \/ UNCHANGED vars
      BY <2>4, <2>6 DEF Runtime, Write, ReplaceSecret, vars
    <2> QED
      BY <1>1, <2>1, <2>2, <2>3, <2>4, <2>5, <2>6 DEF Next
  <1> QED
    BY <1>1, TypeCorrect, PTL DEF Spec

=============================================================================
