---------------------------- MODULE Certificates ----------------------------
(***************************************************************************)
(* The managed certificate of one host: its state as the API reports it    *)
(* (core/internal/caddy/certificate_status.go), the forced renewal davd    *)
(* tracks (caddy/certificate_renewal.go, app/tls_service.go) and the job   *)
(* of the renewal module inside Caddy that does the work                   *)
(* (caddy/caddy-renewal/renewal.go).                                       *)
(*                                                                         *)
(* A Renewal is one POST /tls/renew: the request, then the record it put   *)
(* in RuntimeManager.renewals, the goroutine that monitors it and the job  *)
(* it started in Caddy.  davd and Caddy only meet in calls that name the   *)
(* host, not the renewal, so every late step may find a later renewal.     *)
(*                                                                         *)
(* Simplifications: one host (the map of records is keyed by host); Caddy  *)
(* is up or down and an exit is noticed at once (CaddyRuntime models how); *)
(* the saved profile is automatic; a certificate is its age and a serial   *)
(* number for its fingerprint, and its file can be parsed.                 *)
(***************************************************************************)
EXTENDS Naturals

CONSTANTS
    Renewal,     \* bound: the renewals that are ever requested
    None,        \* no record, no job
    MaxSerial    \* bound: certificates ever issued

ASSUME RenewalAssumption ==
    /\ None \notin Renewal
    /\ MaxSerial \in Nat

VARIABLES
    record,      \* m.renewals[hostname]
    failed,      \* the renewals whose record was set to FAILED; ISSUING before
    old,         \* the fingerprint each renewal wants to see replaced
    pc,          \* each request, then its monitor
    halted,      \* renewals whose monitor's context was canceled
    canceler,    \* the POST /tls/renew/cancel in progress
    caddy,       \* Caddy runs
    registry,    \* a.jobs[hostname] in Caddy: whose job, and its state
    running,     \* the jobs whose goroutine is at work, of this registry or
                 \* of one that a reload has replaced
    aborted,     \* those of them whose operation context was canceled
    obtained,    \* those of them that have written a new certificate
    cert         \* the certificate file

davdVars == <<record, failed, old, pc, halted>>
jobVars == <<registry, running, aborted, obtained>>
vars == <<record, failed, old, pc, halted, canceler, caddy,
          registry, running, aborted, obtained, cert>>

Steps == {"idle", "checked", "starting", "watching", "asking", "finishing",
          "clearing", "failing", "recording", "gone"}
NoJob == [of |-> None, state |-> "none"]
Unfinished == {"ISSUING", "CANCELING"}
JobState == Unfinished \cup {"none", "CANCELED", "FAILED", "SUCCEEDED"}

TypeOK ==
    /\ record \in Renewal \cup {None}
    /\ failed \in SUBSET Renewal
    /\ old \in [Renewal -> 0..MaxSerial]
    /\ pc \in [Renewal -> Steps]
    /\ halted \in SUBSET Renewal
    /\ canceler \in [step : {"idle", "asking", "dropping"},
                     of : Renewal \cup {None}, watched : BOOLEAN]
    /\ caddy \in BOOLEAN
    /\ registry \in [of : Renewal \cup {None}, state : JobState]
    /\ running \in SUBSET Renewal
    /\ aborted \in SUBSET running /\ obtained \in SUBSET running
    /\ cert \in [state : {"absent", "valid", "expired"}, serial : 0..MaxSerial]

NoCancel == [step |-> "idle", of |-> None, watched |-> FALSE]

Init ==
    /\ record = None /\ failed = {} /\ halted = {}
    /\ old = [r \in Renewal |-> 0]
    /\ pc = [r \in Renewal |-> "idle"]
    /\ canceler = NoCancel
    /\ caddy = FALSE
    /\ registry = NoJob /\ running = {} /\ aborted = {} /\ obtained = {}
    /\ cert = [state |-> "absent", serial |-> 0]

Goto(r, where) == pc' = [pc EXCEPT ![r] = where]

\* The record of an active renewal.
Issuing(r) == record = r /\ r \notin failed

---------------------------------------------------------------------------
(* The state, and the requests to renew *)

\* RuntimeManager.CertificateStatus: what is found first decides.
Status ==
    CASE record # None            -> IF record \in failed THEN "FAILED" ELSE "ISSUING"
      [] cert.state = "valid"     -> "READY"
      [] cert.state = "expired"   -> "EXPIRED"
      [] OTHER                    -> "UNAVAILABLE"

\* TLSService.Renew: the state is read ...
RenewChecks(r) ==
    /\ pc[r] = "idle"
    /\ Status \in {"READY", "EXPIRED"} \/ (record # None /\ Status = "FAILED")
    /\ Goto(r, "checked")
    /\ UNCHANGED <<record, failed, old, halted, canceler, caddy, jobVars, cert>>

\* ... and ForceRenewCertificate puts its record under the lock; a record that
\* failed is replaced.
RegisterGuard == caddy /\ (record # None => record \in failed) /\ cert.state # "absent"

Registers(r) ==
    /\ pc[r] = "checked"
    /\ IF RegisterGuard
       THEN /\ record' = r
            /\ old' = [old EXCEPT ![r] = cert.serial]
            /\ Goto(r, "starting")
       ELSE Goto(r, "gone") /\ UNCHANGED <<record, old>>
    /\ UNCHANGED <<failed, halted, canceler, caddy, jobVars, cert>>

\* StartCertificateRenewal failed: the record goes, if it still is this one's.
DropOwn(r) == record' = IF record = r THEN None ELSE record

\* startRenewal in Caddy: refused while a job of the host is unfinished.
JobAccepted(r) ==
    /\ caddy /\ registry.state \notin Unfinished
    /\ registry' = [of |-> r, state |-> "ISSUING"]
    /\ running' = running \cup {r}
    /\ UNCHANGED <<aborted, obtained>>

\* Caddy accepts and davd hears of it: the monitor begins.
Starts(r) ==
    /\ pc[r] = "starting"
    /\ JobAccepted(r)
    /\ Goto(r, "watching")
    /\ UNCHANGED <<record, failed, old, halted, canceler, caddy, cert>>

\* It accepts and the answer is lost, with the client that asked: davd forgets.
StartLost(r) ==
    /\ pc[r] = "starting"
    /\ JobAccepted(r)
    /\ DropOwn(r) /\ Goto(r, "gone")
    /\ UNCHANGED <<failed, old, halted, canceler, caddy, cert>>

\* Mutant: a renewal that could not be started keeps its record.
StartRefusedKeeps(r) ==
    /\ pc[r] = "starting"
    /\ Goto(r, "gone")
    /\ UNCHANGED <<record, failed, old, halted, canceler, caddy, jobVars, cert>>

\* It refuses, it has no policy for the host, or it does not answer.
StartRefused(r) ==
    /\ pc[r] = "starting"
    /\ DropOwn(r) /\ Goto(r, "gone")
    /\ UNCHANGED <<failed, old, halted, canceler, caddy, jobVars, cert>>

---------------------------------------------------------------------------
(* monitorCertificateRenewal *)

\* ctx.Done(): select takes it or a tick, whichever it likes.
MonitorStops(r) ==
    /\ pc[r] = "watching" /\ r \in halted
    /\ Goto(r, "gone")
    /\ UNCHANGED <<record, failed, old, halted, canceler, caddy, jobVars, cert>>

\* The timer of fifteen minutes.
TimesOut(r) ==
    /\ pc[r] = "watching"
    /\ Goto(r, "failing")
    /\ UNCHANGED <<record, failed, old, halted, canceler, caddy, jobVars, cert>>

\* A tick looks at the certificate first.
Ticks(r) ==
    /\ pc[r] = "watching"
    /\ Goto(r, IF cert.serial # old[r] THEN "finishing" ELSE "asking")
    /\ UNCHANGED <<record, failed, old, halted, canceler, caddy, jobVars, cert>>

\* Mutant: whatever has ended without a failure counts as a success.
VerdictCanceledSucceeds(state) ==
    CASE state = "FAILED"                   -> "failing"
      [] state \in {"CANCELED", "SUCCEEDED"} -> "finishing"
      [] OTHER                              -> "watching"

\* No job, no answer, or a job in progress sends the monitor back to the select.
Verdict(state) ==
    CASE state = "FAILED"    -> "failing"
      [] state = "CANCELED"  -> "clearing"
      [] state = "SUCCEEDED" -> "finishing"
      [] OTHER               -> "watching"

\* Then it asks Caddy for the host's job.
Asks(r) ==
    /\ pc[r] = "asking"
    /\ Goto(r, Verdict(registry.state)) \/ Goto(r, "watching")
    /\ UNCHANGED <<record, failed, old, halted, canceler, caddy, jobVars, cert>>

\* finishCertificateRenewal and clearCertificateRenewal: the same record goes,
\* a later one stays.
Drops(r) ==
    /\ pc[r] \in {"finishing", "clearing"}
    /\ DropOwn(r) /\ Goto(r, "gone")
    /\ halted' = IF record = r THEN halted \cup {r} ELSE halted
    /\ UNCHANGED <<failed, old, canceler, caddy, jobVars, cert>>

\* handleCancel in Caddy: a finished job is left as it is.
CancelJob ==
    IF registry.state \in Unfinished
    THEN /\ registry' = [registry EXCEPT !.state = "CANCELING"]
         /\ aborted' = aborted \cup {registry.of}
    ELSE UNCHANGED <<registry, aborted>>

\* failCertificateRenewal first cancels the job of the host, whoever's it is,
\* and ignores the outcome; the call may also come to nothing ...
FailCancels(r) ==
    /\ pc[r] = "failing"
    /\ CancelJob \/ UNCHANGED <<registry, aborted>>
    /\ Goto(r, "recording")
    /\ UNCHANGED <<record, failed, old, halted, canceler, caddy, running, obtained, cert>>

\* Mutant: the failure is recorded whoever's record it is.
FailRecordsAny(r) ==
    /\ pc[r] = "recording"
    /\ failed' = IF record # None THEN failed \cup {record} ELSE failed
    /\ halted' = IF record # None THEN halted \cup {record} ELSE halted
    /\ Goto(r, "gone")
    /\ UNCHANGED <<record, old, canceler, caddy, jobVars, cert>>

\* ... and then records the failure in the record that is this one's.
FailRecords(r) ==
    /\ pc[r] = "recording"
    /\ failed' = IF record = r THEN failed \cup {r} ELSE failed
    /\ halted' = IF record = r THEN halted \cup {r} ELSE halted
    /\ Goto(r, "gone")
    /\ UNCHANGED <<record, old, canceler, caddy, jobVars, cert>>

---------------------------------------------------------------------------
(* POST /tls/renew/cancel *)

\* TLSService.CancelRenew and the first half of CancelRenewCertificate.
CancelBegins ==
    /\ canceler = NoCancel
    /\ record # None /\ Issuing(record)
    /\ canceler' = [NoCancel EXCEPT !.step = "asking", !.of = record]
    /\ UNCHANGED <<davdVars, caddy, jobVars, cert>>

CancelAnswered ==
    canceler' = [canceler EXCEPT !.step = "dropping",
                                 !.watched = pc[canceler.of] # "starting"]

\* Mutant: the answer of Caddy is not looked at.
CancelAsksAnyway ==
    /\ canceler.step = "asking"
    /\ CancelJob \/ UNCHANGED <<registry, aborted>>
    /\ CancelAnswered
    /\ UNCHANGED <<davdVars, caddy, running, obtained, cert>>

\* Caddy answers that it cancels the host's job or has a finished one ...
CancelAsks ==
    /\ canceler.step = "asking"
    /\ registry # NoJob
    /\ CancelJob
    /\ CancelAnswered
    /\ UNCHANGED <<davdVars, caddy, running, obtained, cert>>

\* ... it has none or does not answer, or its answer is lost: the request fails.
CancelFails ==
    /\ canceler.step = "asking"
    /\ CancelJob \/ UNCHANGED <<registry, aborted>>
    /\ canceler' = NoCancel
    /\ UNCHANGED <<davdVars, caddy, running, obtained, cert>>

\* The second half: the same record goes and its monitor is halted.
CancelDrops ==
    /\ canceler.step = "dropping"
    /\ LET r == canceler.of IN
        /\ DropOwn(r)
        /\ halted' = IF record = r THEN halted \cup {r} ELSE halted
    /\ canceler' = NoCancel
    /\ UNCHANGED <<failed, old, pc, caddy, jobVars, cert>>

---------------------------------------------------------------------------
(* Caddy *)

\* runRenewal: the forced renewal writes a certificate, whether or not it was
\* canceled meanwhile ...
JobObtains(r) ==
    /\ r \in running \ obtained
    /\ cert.serial < MaxSerial
    /\ cert' = [state |-> "valid", serial |-> cert.serial + 1]
    /\ obtained' = obtained \cup {r}
    /\ UNCHANGED <<davdVars, canceler, caddy, registry, running, aborted>>

\* ... and ends, in the state its registry shows if that is still there.
JobOutcomes(r) ==
    IF r \in aborted THEN {"CANCELED"}
    ELSE {"FAILED"} \cup (IF r \in obtained THEN {"SUCCEEDED"} ELSE {})

\* Mutant: the canceled context of a job outlives it.
JobEndsAborted(r) ==
    /\ r \in running
    /\ running' = running \ {r}
    /\ obtained' = obtained \ {r}
    /\ UNCHANGED <<davdVars, canceler, caddy, registry, aborted, cert>>

JobEnds(r) ==
    /\ r \in running
    /\ \E outcome \in JobOutcomes(r) :
        registry' = IF registry.of = r THEN [registry EXCEPT !.state = outcome] ELSE registry
    /\ running' = running \ {r}
    /\ aborted' = aborted \ {r}
    /\ obtained' = obtained \ {r}
    /\ UNCHANGED <<davdVars, canceler, caddy, cert>>

\* Caddy's own management issues when there is nothing valid, and renews what is
\* about to expire.
Issues ==
    /\ caddy /\ cert.serial < MaxSerial
    /\ cert' = [state |-> "valid", serial |-> cert.serial + 1]
    /\ UNCHANGED <<davdVars, canceler, caddy, jobVars>>

Expires ==
    /\ cert.state = "valid"
    /\ cert' = [cert EXCEPT !.state = "expired"]
    /\ UNCHANGED <<davdVars, canceler, caddy, jobVars>>

\* cancelRenewalsLocked: the record goes, its monitor is halted, and Caddy is
\* not told.
CancelRenewals ==
    /\ record' = None
    /\ halted' = IF record # None THEN halted \cup {record} ELSE halted
    /\ UNCHANGED <<failed, old, pc>>

\* RuntimeManager.Reload: a new registry, and the jobs lose their context.  The
\* record is dropped even when nothing is reloaded.
Reload(ok) ==
    /\ CancelRenewals
    /\ IF ok THEN caddy /\ registry' = NoJob /\ aborted' = running
             ELSE UNCHANGED <<registry, aborted>>
    /\ UNCHANGED <<canceler, caddy, running, obtained, cert>>

\* RuntimeManager.Start of a manager that runs nothing.
CaddyStarts(ok) ==
    /\ ~caddy
    /\ CancelRenewals
    /\ caddy' = ok
    /\ UNCHANGED <<canceler, jobVars, cert>>

\* The process is gone and its jobs with it.
CaddyGone ==
    /\ caddy
    /\ caddy' = FALSE
    /\ registry' = NoJob
    /\ running' = {} /\ aborted' = {} /\ obtained' = {}
    /\ UNCHANGED <<canceler, cert>>

\* RuntimeManager.Stop.
CaddyStops == CaddyGone /\ CancelRenewals

\* Caddy exits by itself: davd's record and monitor stay.
CaddyExits == CaddyGone /\ UNCHANGED davdVars

Next ==
    \/ \E r \in Renewal :
        \/ RenewChecks(r) \/ Registers(r)
        \/ Starts(r) \/ StartLost(r) \/ StartRefused(r)
        \/ MonitorStops(r) \/ TimesOut(r) \/ Ticks(r) \/ Asks(r)
        \/ Drops(r) \/ FailCancels(r) \/ FailRecords(r)
        \/ JobObtains(r) \/ JobEnds(r)
    \/ CancelBegins \/ CancelAsks \/ CancelFails \/ CancelDrops
    \/ Issues \/ Expires \/ CaddyStops \/ CaddyExits
    \/ \E ok \in BOOLEAN : Reload(ok) \/ CaddyStarts(ok)

Spec == Init /\ [][Next]_vars

(* The calls of davd end, with an answer or a timeout, and select takes    *)
(* each of its ready channels infinitely often, so the timer cannot be     *)
(* starved by ticks.  Nothing is assumed of Caddy, of its jobs or of the   *)
(* clients.                                                                *)
Fairness ==
    \A r \in Renewal :
        /\ SF_vars(TimesOut(r))
        /\ WF_vars(Starts(r) \/ StartLost(r) \/ StartRefused(r))
        /\ WF_vars(Asks(r)) /\ WF_vars(Drops(r))
        /\ WF_vars(FailCancels(r)) /\ WF_vars(FailRecords(r))

FairSpec == Spec /\ Fairness

---------------------------------------------------------------------------
(* Properties *)

\* A record in state ISSUING always has somebody left who will end it: the
\* request that is starting it, or a monitor nobody halted.  Whatever drops a
\* record or halts a monitor (finish, clear, fail, cancel, reload, start, stop)
\* must do both or neither; an orphaned record would refuse every renewal.
OwnerAlive ==
    \A r \in Renewal :
        Issuing(r) => pc[r] \notin {"idle", "checked", "gone"} /\ r \notin halted

\* A renewal is reported FAILED only when its own monitor found that it failed
\* or timed out, never through the late failure of an earlier renewal of the
\* same host (failCertificateRenewal).
FailedForItself ==
    [][\A r \in Renewal : r \in failed' \ failed => pc[r] = "recording"]_vars

\* A monitor takes its renewal for done only when a certificate newer than the
\* one the renewal started from was written, although Caddy answers for the
\* host's latest job and not for this renewal's.
FinishedMeansNew ==
    \A r \in Renewal : pc[r] = "finishing" => cert.serial > old[r]

\* Once Caddy has answered a cancellation with success, the job of the renewal
\* it was for has lost its context and cannot succeed any more.  A renewal
\* canceled before its StartCertificateRenewal was answered is not counted:
\* Caddy then answers for an older job.
CancelStops ==
    canceler.step = "dropping" /\ canceler.watched /\ canceler.of \in running
        => canceler.of \in aborted

\* A renewal does not stay ISSUING for ever: the record fails, goes, or is
\* replaced, even when Caddy lost the job or never answers again.
RenewalEnds == \A r \in Renewal : Issuing(r) ~> ~Issuing(r)

=============================================================================
