-------------------------- MODULE CertificateProofs --------------------------
(***************************************************************************)
(* Proofs about Certificates, for any number of renewals and certificates. *)
(***************************************************************************)
EXTENDS Certificates, TLAPS

\* An unfinished job in the registry has its goroutine, so that canceling it
\* reaches somebody; and a cancellation in progress is for a renewal.
JobInv ==
    /\ registry.state \in Unfinished => registry.of \in running
    /\ canceler.step # "idle" => canceler.of \in Renewal

\* A renewal that is recorded, halted or failed has been registered.
StartedInv ==
    \A r \in Renewal :
        r \in halted \cup failed \/ record = r => pc[r] \notin {"idle", "checked"}

IInv == TypeOK /\ JobInv /\ StartedInv /\ OwnerAlive

Cancel == [step : {"idle", "asking", "dropping"}, of : Renewal \cup {None}, watched : BOOLEAN]

\* The states of a cancellation.
LEMMA CancelType ==
    /\ NoCancel \in Cancel
    /\ \A c \in Cancel, step \in {"idle", "asking", "dropping"}, b \in BOOLEAN :
          [c EXCEPT !.step = step, !.watched = b] \in Cancel
    /\ \A c \in Cancel : c.of \in Renewal \cup {None}
  <1>1. NoCancel \in Cancel
    BY Zenon DEF NoCancel, Cancel
  <1>2. QED
    BY <1>1 DEF Cancel

\* Nothing is recorded and nobody has asked for a renewal.
LEMMA InitIInv == Init => IInv
  <1> SUFFICES ASSUME Init PROVE IInv
    OBVIOUS
  <1>1. canceler \in Cancel /\ caddy \in BOOLEAN
    BY CancelType, Zenon DEF Init
  <1>2. TypeOK
    <2>1. /\ record \in Renewal \cup {None} /\ failed \in SUBSET Renewal
          /\ old \in [Renewal -> 0..MaxSerial] /\ pc \in [Renewal -> Steps]
          /\ halted \in SUBSET Renewal
      BY RenewalAssumption DEF Init, Steps
    <2>2. /\ registry \in [of : Renewal \cup {None}, state : JobState]
          /\ running \in SUBSET Renewal
          /\ aborted \in SUBSET running /\ obtained \in SUBSET running
          /\ cert \in [state : {"absent", "valid", "expired"}, serial : 0..MaxSerial]
      BY RenewalAssumption DEF Init, NoJob, JobState, Unfinished
    <2> QED
      BY <1>1, <2>1, <2>2 DEF TypeOK, Cancel
  <1>3. JobInv
    BY DEF Init, JobInv, NoJob, NoCancel, Unfinished
  <1>4. StartedInv /\ OwnerAlive
    BY RenewalAssumption DEF Init, StartedInv, OwnerAlive, Issuing
  <1> QED
    BY <1>2, <1>3, <1>4 DEF IInv

\* The fields keep their types: a monitor only moves along its steps, and a
\* cancellation reaches a job that is at work.
LEMMA NextType == TypeOK /\ JobInv /\ [Next]_vars => TypeOK' /\ JobInv'
  <1> SUFFICES ASSUME TypeOK, JobInv, [Next]_vars PROVE TypeOK' /\ JobInv'
    OBVIOUS
  <1> USE RenewalAssumption DEF TypeOK, JobInv, davdVars, jobVars, Goto, Steps,
      Unfinished, JobState, NoJob
  <1>1. ASSUME NEW r \in Renewal, RenewChecks(r) PROVE TypeOK' /\ JobInv'
    BY <1>1 DEF RenewChecks
  <1>2. ASSUME NEW r \in Renewal, Registers(r) PROVE TypeOK' /\ JobInv'
    BY <1>2 DEF Registers
  <1>3. ASSUME NEW r \in Renewal, Starts(r) PROVE TypeOK' /\ JobInv'
    BY <1>3 DEF Starts, JobAccepted
  <1>4. ASSUME NEW r \in Renewal, StartLost(r) PROVE TypeOK' /\ JobInv'
    BY <1>4 DEF StartLost, JobAccepted, DropOwn
  <1>5. ASSUME NEW r \in Renewal, StartRefused(r) PROVE TypeOK' /\ JobInv'
    BY <1>5 DEF StartRefused, DropOwn
  <1>6. ASSUME NEW r \in Renewal, MonitorStops(r) \/ TimesOut(r) \/ Ticks(r)
        PROVE TypeOK' /\ JobInv'
    BY <1>6 DEF MonitorStops, TimesOut, Ticks
  <1>7. ASSUME NEW r \in Renewal, Asks(r) PROVE TypeOK' /\ JobInv'
    BY <1>7 DEF Asks, Verdict
  <1>8. ASSUME NEW r \in Renewal, Drops(r) PROVE TypeOK' /\ JobInv'
    BY <1>8 DEF Drops, DropOwn
  <1>9. ASSUME NEW r \in Renewal, FailCancels(r) PROVE TypeOK' /\ JobInv'
    BY <1>9 DEF FailCancels, CancelJob
  <1>10. ASSUME NEW r \in Renewal, FailRecords(r) PROVE TypeOK' /\ JobInv'
    BY <1>10 DEF FailRecords
  <1>11. ASSUME NEW r \in Renewal, JobObtains(r) PROVE TypeOK' /\ JobInv'
    BY <1>11 DEF JobObtains
  <1>12. ASSUME NEW r \in Renewal, JobEnds(r) PROVE TypeOK' /\ JobInv'
    BY <1>12 DEF JobEnds, JobOutcomes
  <1>13. CASE CancelBegins
    BY <1>13 DEF CancelBegins, NoCancel
  <1>14. CASE CancelAsks \/ CancelFails
    <2>0. canceler \in Cancel /\ (pc[canceler.of] # "starting") \in BOOLEAN
      BY Zenon DEF Cancel
    <2>1. canceler' \in Cancel
      <3>1. CASE CancelAsks
        BY <2>0, <3>1, CancelType DEF CancelAsks, CancelAnswered
      <3>2. CASE CancelFails
        BY <3>2, CancelType DEF CancelFails
      <3> QED
        BY <1>14, <3>1, <3>2
    <2>2. canceler'.step # "idle" => canceler'.of \in Renewal
      <3>1. CASE CancelAsks
        <4>1. canceler'.of = canceler.of
          BY <2>0, <3>1 DEF CancelAsks, CancelAnswered, Cancel
        <4> QED
          BY <3>1, <4>1 DEF CancelAsks
      <3>2. CASE CancelFails
        BY <3>2 DEF CancelFails, NoCancel
      <3> QED
        BY <1>14, <3>1, <3>2
    <2>4. /\ registry' \in [of : Renewal \cup {None}, state : JobState]
          /\ aborted' \in SUBSET running' /\ running' = running
          /\ registry'.state \in Unfinished => registry'.of \in running'
      BY <1>14 DEF CancelAsks, CancelFails, CancelJob
    <2>3. UNCHANGED <<davdVars, caddy, running, obtained, cert>>
      BY <1>14 DEF CancelAsks, CancelFails
    <2> QED
      BY <2>1, <2>2, <2>3, <2>4 DEF Cancel
  <1>15. CASE CancelDrops
    <2>1. canceler' \in Cancel /\ canceler'.step = "idle"
      BY <1>15, CancelType DEF CancelDrops, NoCancel
    <2>2. record' \in Renewal \cup {None} /\ halted' \in SUBSET Renewal
      BY <1>15 DEF CancelDrops, DropOwn
    <2>3. UNCHANGED <<failed, old, pc, caddy, jobVars, cert>>
      BY <1>15 DEF CancelDrops
    <2> QED
      BY <2>1, <2>2, <2>3 DEF Cancel
  <1>16. CASE Issues \/ Expires
    BY <1>16 DEF Issues, Expires
  <1>17. CASE CaddyStops \/ CaddyExits
    <2>1. caddy' \in BOOLEAN
      BY <1>17, Zenon DEF CaddyStops, CaddyExits, CaddyGone
    <2>2. /\ record' \in Renewal \cup {None} /\ halted' \in SUBSET Renewal
          /\ UNCHANGED <<failed, old, pc, canceler, cert>>
      BY <1>17 DEF CaddyStops, CaddyExits, CaddyGone, CancelRenewals
    <2>3. registry' = NoJob /\ running' = {} /\ aborted' = {} /\ obtained' = {}
      BY <1>17 DEF CaddyStops, CaddyExits, CaddyGone
    <2> QED
      BY <2>1, <2>2, <2>3
  <1>18. ASSUME NEW ok \in BOOLEAN, Reload(ok) PROVE TypeOK' /\ JobInv'
    BY <1>18 DEF Reload, CancelRenewals
  <1>19. ASSUME NEW ok \in BOOLEAN, CaddyStarts(ok) PROVE TypeOK' /\ JobInv'
    BY <1>19 DEF CaddyStarts, CancelRenewals
  <1>20. CASE UNCHANGED vars
    BY <1>20 DEF vars
  <1> QED
    BY <1>1, <1>2, <1>3, <1>4, <1>5, <1>6, <1>7, <1>8, <1>9, <1>10, <1>11, <1>12, <1>13,
       <1>14, <1>15, <1>16, <1>17, <1>18, <1>19, <1>20 DEF Next

\* Whatever drops a record or halts a monitor leaves no renewal ISSUING without
\* one of the two that end it.
LEMMA NextOwner == IInv /\ [Next]_vars => StartedInv' /\ OwnerAlive'
  <1> SUFFICES ASSUME IInv, [Next]_vars PROVE StartedInv' /\ OwnerAlive'
    OBVIOUS
  <1> USE RenewalAssumption DEF IInv, StartedInv, OwnerAlive, Issuing, davdVars, Goto, Steps
  <1>0. /\ record \in Renewal \cup {None} /\ failed \in SUBSET Renewal
        /\ halted \in SUBSET Renewal /\ pc \in [Renewal -> Steps]
        /\ canceler.of \in Renewal \cup {None}
    BY CancelType DEF TypeOK, Cancel
  <1>1. ASSUME NEW r \in Renewal, RenewChecks(r) PROVE StartedInv' /\ OwnerAlive'
    <2>1. r # record /\ r \notin halted \cup failed
      BY <1>1 DEF RenewChecks
    <2> QED
      BY <1>0, <1>1, <2>1 DEF RenewChecks
  \* The record is replaced by one whose request goes on to start it.
  <1>2. ASSUME NEW r \in Renewal, Registers(r) PROVE StartedInv' /\ OwnerAlive'
    <2>1. r \notin halted \cup failed
      BY <1>2 DEF Registers
    <2> QED
      BY <1>0, <1>2, <2>1 DEF Registers
  <1>3. ASSUME NEW r \in Renewal, Starts(r) PROVE StartedInv' /\ OwnerAlive'
    BY <1>0, <1>3 DEF Starts
  <1>4. ASSUME NEW r \in Renewal, StartLost(r) \/ StartRefused(r)
        PROVE StartedInv' /\ OwnerAlive'
    BY <1>0, <1>4 DEF StartLost, StartRefused, DropOwn
  \* A halted monitor has no record that is ISSUING.
  <1>5. ASSUME NEW r \in Renewal, MonitorStops(r) PROVE StartedInv' /\ OwnerAlive'
    BY <1>0, <1>5 DEF MonitorStops
  <1>6. ASSUME NEW r \in Renewal, TimesOut(r) \/ Ticks(r) \/ Asks(r)
        PROVE StartedInv' /\ OwnerAlive'
    BY <1>0, <1>6 DEF TimesOut, Ticks, Asks, Verdict
  <1>7. ASSUME NEW r \in Renewal, Drops(r) PROVE StartedInv' /\ OwnerAlive'
    BY <1>0, <1>7 DEF Drops, DropOwn
  <1>8. ASSUME NEW r \in Renewal, FailCancels(r) PROVE StartedInv' /\ OwnerAlive'
    BY <1>0, <1>8 DEF FailCancels
  <1>9. ASSUME NEW r \in Renewal, FailRecords(r) PROVE StartedInv' /\ OwnerAlive'
    BY <1>0, <1>9 DEF FailRecords
  <1>10. CASE CancelDrops
    BY <1>0, <1>10 DEF CancelDrops, DropOwn
  \* The record is dropped whether or not it has a monitor to halt.
  <1>11. CASE CancelRenewals
    BY <1>0, <1>11 DEF CancelRenewals
  <1>12. CASE UNCHANGED davdVars
    BY <1>0, <1>12
  <1> QED
    BY <1>1, <1>2, <1>3, <1>4, <1>5, <1>6, <1>7, <1>8, <1>9, <1>10, <1>11, <1>12
    DEF Next, vars, JobObtains, JobEnds, CancelBegins, CancelAsks, CancelFails,
        Issues, Expires, CaddyStops, CaddyExits, Reload, CaddyStarts

\* Hence in every behaviour of davd and Caddy.
LEMMA IInvHolds == Spec => []IInv
  <1>1. IInv /\ [Next]_vars => IInv'
    BY NextType, NextOwner DEF IInv
  <1> QED
    BY InitIInv, <1>1, PTL DEF Spec

\* The records, monitors, jobs and the cancellation keep their types; canceling
\* a job never reaches one that is gone (certificate_renewal.go, renewal.go).
THEOREM TypeCorrect == Spec => []TypeOK
  BY IInvHolds, PTL DEF IInv

\* A record in state ISSUING has a request or an unhalted monitor that will end
\* it, for any number of renewals of a host: nothing blocks later renewals for
\* good (monitorCertificateRenewal, cancelRenewalsLocked).
THEOREM OwnersAreAlive == Spec => []OwnerAlive
  BY IInvHolds, PTL DEF IInv

\* Only a monitor's own verdict or timeout turns its renewal FAILED
\* (recordCertificateRenewalFailureLocked).
THEOREM FailuresAreOwn == Spec => FailedForItself
  <1>1. [Next]_vars => [\A r \in Renewal : r \in failed' \ failed => pc[r] = "recording"]_vars
    BY DEF Next, vars, davdVars, jobVars, RenewChecks, Registers, Starts, StartLost,
       StartRefused, MonitorStops, TimesOut, Ticks, Asks, Drops, FailCancels, FailRecords,
       JobObtains, JobEnds, CancelBegins, CancelAsks, CancelFails, CancelDrops, Issues,
       Expires, CaddyStops, CaddyExits, Reload, CaddyStarts, CancelRenewals, CaddyGone
  <1> QED
    BY <1>1, PTL DEF Spec, FailedForItself

---------------------------------------------------------------------------
(* The outcome a monitor reads, and the job a cancellation reaches, may be  *)
(* another renewal's.                                                       *)

Watching(r) == pc[r] \in {"watching", "asking"}

\* A job starts once, after its renewal was registered, and a monitor exists
\* from then on: whatever succeeds in the registry while it watches has
\* obtained a certificate after the renewal began.
NewInv ==
    /\ \A r \in Renewal : old[r] <= cert.serial
    /\ \A r \in running : pc[r] \notin {"idle", "checked", "starting"}
    /\ \A r \in Renewal :
          Watching(r) /\ (registry.state = "SUCCEEDED" \/ registry.of \in obtained)
              => cert.serial > old[r]
    /\ FinishedMeansNew

LEMMA NextNew == TypeOK /\ NewInv /\ [Next]_vars => NewInv'
  <1> SUFFICES ASSUME TypeOK, NewInv, [Next]_vars PROVE NewInv'
    OBVIOUS
  <1> USE RenewalAssumption DEF NewInv, FinishedMeansNew, Watching, davdVars, jobVars, Goto
  <1>0. /\ old \in [Renewal -> 0..MaxSerial] /\ pc \in [Renewal -> Steps]
        /\ obtained \subseteq running /\ running \subseteq Renewal
        /\ cert.serial \in Nat /\ \A r \in Renewal : old[r] \in Nat
        /\ registry \in [of : Renewal \cup {None}, state : JobState]
    BY DEF TypeOK
  <1>1. ASSUME NEW r \in Renewal, RenewChecks(r) PROVE NewInv'
    BY <1>0, <1>1 DEF RenewChecks
  <1>2. ASSUME NEW r \in Renewal, Registers(r) PROVE NewInv'
    BY <1>0, <1>2 DEF Registers
  \* The new job has not obtained anything yet.
  <1>3. ASSUME NEW r \in Renewal, Starts(r) \/ StartLost(r) PROVE NewInv'
    <2>1. r \notin running /\ r \notin obtained
      BY <1>0, <1>3 DEF Starts, StartLost
    <2> QED
      BY <1>0, <1>3, <2>1 DEF Starts, StartLost, JobAccepted
  <1>4. ASSUME NEW r \in Renewal, StartRefused(r) \/ MonitorStops(r) \/ TimesOut(r)
        PROVE NewInv'
    BY <1>0, <1>4 DEF StartRefused, MonitorStops, TimesOut
  <1>5. ASSUME NEW r \in Renewal, Ticks(r) PROVE NewInv'
    BY <1>0, <1>5 DEF Ticks
  \* A success in the registry is new enough for every monitor.
  <1>6. ASSUME NEW r \in Renewal, Asks(r) PROVE NewInv'
    BY <1>0, <1>6 DEF Asks, Verdict
  <1>7. ASSUME NEW r \in Renewal, Drops(r) \/ FailRecords(r) PROVE NewInv'
    BY <1>0, <1>7 DEF Drops, FailRecords
  <1>8. ASSUME NEW r \in Renewal, FailCancels(r) PROVE NewInv'
    BY <1>0, <1>8 DEF FailCancels, CancelJob
  <1>9. ASSUME NEW r \in Renewal, JobObtains(r) PROVE NewInv'
    BY <1>0, <1>9 DEF JobObtains
  <1>10. ASSUME NEW r \in Renewal, JobEnds(r) PROVE NewInv'
    BY <1>0, <1>10 DEF JobEnds, JobOutcomes
  <1>11. CASE CancelBegins \/ CancelDrops
    BY <1>0, <1>11 DEF CancelBegins, CancelDrops
  <1>12. CASE CancelAsks \/ CancelFails
    BY <1>0, <1>12 DEF CancelAsks, CancelFails, CancelJob
  <1>13. CASE Issues \/ Expires
    <2>1. cert'.serial \in Nat /\ cert'.serial >= cert.serial
      BY <1>13 DEF Issues, Expires, TypeOK
    <2>2. UNCHANGED <<davdVars, canceler, caddy, jobVars>>
      BY <1>13 DEF Issues, Expires
    <2> QED
      BY <1>0, <2>1, <2>2
  <1>14. CASE CaddyStops \/ CaddyExits
    BY <1>0, <1>14 DEF CaddyStops, CaddyExits, CaddyGone, CancelRenewals, NoJob
  <1>15. ASSUME NEW ok \in BOOLEAN, Reload(ok) PROVE NewInv'
    BY <1>0, <1>15 DEF Reload, CancelRenewals, NoJob
  <1>16. ASSUME NEW ok \in BOOLEAN, CaddyStarts(ok) PROVE NewInv'
    BY <1>0, <1>16 DEF CaddyStarts, CancelRenewals
  <1>17. CASE UNCHANGED vars
    BY <1>0, <1>17 DEF vars
  <1> QED
    BY <1>1, <1>2, <1>3, <1>4, <1>5, <1>6, <1>7, <1>8, <1>9, <1>10, <1>11, <1>12, <1>13,
       <1>14, <1>15, <1>16, <1>17 DEF Next

\* At most one job at work still has its context, the one in the registry; and
\* a cancellation is for a renewal that was registered.
ContextInv ==
    /\ \A r \in running \ aborted : registry.of = r /\ registry.state \in Unfinished
    /\ canceler.step # "idle" => pc[canceler.of] \notin {"idle", "checked"}
    /\ canceler.step = "dropping" /\ canceler.watched => pc[canceler.of] # "starting"
    /\ CancelStops

LEMMA NextContext ==
    IInv /\ NewInv /\ ContextInv /\ [Next]_vars => ContextInv'
  <1> SUFFICES ASSUME IInv, NewInv, ContextInv, [Next]_vars PROVE ContextInv'
    OBVIOUS
  <1> USE RenewalAssumption DEF ContextInv, CancelStops, davdVars, jobVars, Goto
  <1>0. /\ pc \in [Renewal -> Steps]
        /\ aborted \subseteq running /\ running \subseteq Renewal
        /\ registry \in [of : Renewal \cup {None}, state : JobState]
        /\ canceler \in Cancel
        /\ canceler.step # "idle" => canceler.of \in Renewal
        /\ \A r \in running : pc[r] \notin {"idle", "checked", "starting"}
        /\ \A r \in Renewal : record = r => pc[r] \notin {"idle", "checked"}
    BY DEF IInv, TypeOK, JobInv, StartedInv, NewInv, Cancel
  <1>1. ASSUME NEW r \in Renewal, RenewChecks(r) \/ Registers(r) PROVE ContextInv'
    BY <1>0, <1>1 DEF RenewChecks, Registers
  \* No job has its context when Caddy accepts the next one.
  <1>2. ASSUME NEW r \in Renewal, Starts(r) \/ StartLost(r) PROVE ContextInv'
    <2>1. running \ aborted = {} /\ r \notin running
      BY <1>0, <1>2 DEF Starts, StartLost, JobAccepted
    <2> QED
      BY <1>0, <1>2, <2>1 DEF Starts, StartLost, JobAccepted, Unfinished
  <1>3. ASSUME NEW r \in Renewal,
               StartRefused(r) \/ MonitorStops(r) \/ TimesOut(r) \/ Ticks(r)
        PROVE ContextInv'
    BY <1>0, <1>3 DEF StartRefused, MonitorStops, TimesOut, Ticks
  <1>4. ASSUME NEW r \in Renewal, Asks(r) PROVE ContextInv'
    BY <1>0, <1>4 DEF Asks, Verdict
  <1>5. ASSUME NEW r \in Renewal, Drops(r) \/ FailRecords(r) PROVE ContextInv'
    BY <1>0, <1>5 DEF Drops, FailRecords
  <1>6. ASSUME NEW r \in Renewal, FailCancels(r) PROVE ContextInv'
    BY <1>0, <1>6 DEF FailCancels, CancelJob, Unfinished
  <1>7. ASSUME NEW r \in Renewal, JobObtains(r) PROVE ContextInv'
    BY <1>0, <1>7 DEF JobObtains
  <1>8. ASSUME NEW r \in Renewal, JobEnds(r) PROVE ContextInv'
    <2>1. /\ running' = running \ {r} /\ aborted' = aborted \ {r}
          /\ registry.of # r => registry' = registry
          /\ UNCHANGED <<pc, canceler>>
      BY <1>8 DEF JobEnds
    <2>2. \A q \in running' \ aborted' : registry'.of = q /\ registry'.state \in Unfinished
      BY <2>1
    <2>3. CancelStops'
      BY <2>1
    <2>4. /\ canceler'.step # "idle" => pc'[canceler'.of] \notin {"idle", "checked"}
          /\ canceler'.step = "dropping" /\ canceler'.watched => pc'[canceler'.of] # "starting"
      BY <2>1
    <2> QED
      BY <2>2, <2>3, <2>4
  <1>9. CASE CancelBegins
    <2>1. record \in Renewal /\ canceler'.step = "asking" /\ canceler'.of = record
      BY <1>9 DEF CancelBegins, NoCancel, IInv, TypeOK
    <2>2. UNCHANGED <<pc, registry, running, aborted>>
      BY <1>9 DEF CancelBegins
    <2> QED
      BY <1>0, <2>1, <2>2
  \* If the job has its context it is the one in the registry, and loses it now.
  <1>10. CASE CancelAsks
    <2>1. canceler'.step = "dropping" /\ canceler'.of = canceler.of
      BY <1>0, <1>10 DEF CancelAsks, CancelAnswered, Cancel
    <2>2. canceler'.watched => pc[canceler.of] # "starting"
      BY <1>0, <1>10 DEF CancelAsks, CancelAnswered, Cancel
    <2>3. \A r \in running' \ aborted' :
             registry'.of = r /\ registry'.state \in Unfinished /\ FALSE
      BY <1>0, <1>10 DEF CancelAsks, CancelJob
    <2> QED
      BY <1>0, <1>10, <2>1, <2>2, <2>3 DEF CancelAsks
  <1>11. CASE CancelFails
    BY <1>0, <1>11 DEF CancelFails, CancelJob, NoCancel, Unfinished
  <1>12. CASE CancelDrops
    BY <1>0, <1>12 DEF CancelDrops, NoCancel
  <1>13. CASE Issues \/ Expires
    BY <1>0, <1>13 DEF Issues, Expires
  <1>14. CASE CaddyStops \/ CaddyExits
    BY <1>0, <1>14 DEF CaddyStops, CaddyExits, CaddyGone, CancelRenewals
  <1>15. ASSUME NEW ok \in BOOLEAN, Reload(ok) PROVE ContextInv'
    BY <1>0, <1>15 DEF Reload, CancelRenewals
  <1>16. ASSUME NEW ok \in BOOLEAN, CaddyStarts(ok) PROVE ContextInv'
    BY <1>0, <1>16 DEF CaddyStarts, CancelRenewals
  <1>17. CASE UNCHANGED vars
    BY <1>0, <1>17 DEF vars
  <1> QED
    BY <1>1, <1>2, <1>3, <1>4, <1>5, <1>6, <1>7, <1>8, <1>9, <1>10, <1>11, <1>12, <1>13,
       <1>14, <1>15, <1>16, <1>17 DEF Next

LEMMA RegistryHolds == Spec => [](NewInv /\ ContextInv)
  <1>1. Init => NewInv
    BY RenewalAssumption DEF Init, NewInv, FinishedMeansNew, Watching, NoJob
  <1>2. Init => ContextInv
    BY DEF Init, ContextInv, CancelStops, NoCancel
  <1>3. IInv => TypeOK
    BY DEF IInv
  <1> QED
    BY <1>1, <1>2, <1>3, IInvHolds, NextNew, NextContext, PTL DEF Spec

\* A monitor takes its renewal for done only when a newer certificate was
\* written, whichever renewal's job it reads the outcome of, for any number of
\* renewals of a host (monitorCertificateRenewal, certificateRenewalStatus).
THEOREM FinishedIsNew == Spec => []FinishedMeansNew
  <1>1. NewInv => FinishedMeansNew
    BY DEF NewInv
  <1> QED
    BY <1>1, RegistryHolds, PTL

\* A cancellation answered with success has stopped the job it was for, once the
\* start of that job was answered (CancelRenewCertificate, handleCancel).
THEOREM CancelsStop == Spec => []CancelStops
  <1>1. ContextInv => CancelStops
    BY DEF ContextInv
  <1> QED
    BY <1>1, RegistryHolds, PTL

==============================================================================
