---------------------------- MODULE ApplyContract ----------------------------
(***************************************************************************)
(* What the apply pipeline promises the rest of davd, without revisions,   *)
(* environments, probes or retries.                                        *)
(*                                                                         *)
(* The rows of the database may be edited at any time.  One operation at a *)
(* time is in progress; it chooses a target document, works on Caddy, and  *)
(* either commits (the target becomes the goal, the document Caddy is      *)
(* meant to serve) or gives up (the goal stays).  An operation that gives  *)
(* up has left Caddy with the goal or without a process, unless it is      *)
(* "broken": it failed after it had handed Caddy a document.  davd may die *)
(* at any time, and takes Caddy with it.                                   *)
(*                                                                         *)
(* Module ApplyRefinement shows that ApplyService implements this; module  *)
(* Access uses it in the place of ApplyService.                            *)
(***************************************************************************)
CONSTANTS
    Core,        \* contents of the rows
    Config,      \* generated Caddy documents
    Compile,     \* the compiler, a function of the rows
    NoConfig     \* no document, no process

VARIABLES
    rows,        \* the desired state
    past,        \* documents of the stored revisions
    busy,        \* an operation holds the lock
    target,      \* the document it is about to make the goal, once chosen
    goal,        \* the document of the active revision
    runs,        \* the document Caddy serves
    broken       \* an operation failed after it had handed Caddy a document

contractVars == <<rows, past, busy, target, goal, runs, broken>>

Maybe == Config \cup {NoConfig}

ContractTypeOK ==
    /\ rows \in Core
    /\ past \in SUBSET Config
    /\ busy \in BOOLEAN
    /\ target \in Maybe
    /\ goal \in Maybe
    /\ runs \in Maybe
    /\ broken \in BOOLEAN

\* A new database, or one that an earlier release has applied once.
ContractInit ==
    /\ rows \in Core
    /\ \/ past = {} /\ goal = NoConfig
       \/ past = {Compile[rows]} /\ goal = Compile[rows]
    /\ busy = FALSE
    /\ target = NoConfig
    /\ runs = NoConfig
    /\ broken = FALSE

Edit ==
    /\ rows' \in Core
    /\ UNCHANGED <<past, busy, target, goal, runs, broken>>

Begin ==
    /\ ~busy
    /\ busy' = TRUE
    /\ UNCHANGED <<rows, past, target, goal, runs, broken>>

\* An apply compiles the rows as they are after it got the lock.
Snapshot ==
    /\ busy
    /\ target = NoConfig
    /\ target' = Compile[rows]
    /\ UNCHANGED <<rows, past, busy, goal, runs, broken>>

\* A restore takes the document of a stored revision.
Select ==
    /\ busy
    /\ target = NoConfig
    /\ target' \in past
    /\ UNCHANGED <<rows, past, busy, goal, runs, broken>>

\* The revision is stored before Caddy is touched.
Store ==
    /\ busy
    /\ target # NoConfig
    /\ past' = past \cup {target}
    /\ UNCHANGED <<rows, busy, target, goal, runs, broken>>

\* Caddy is started, reloaded or stopped; only with the goal or the target.
Work ==
    /\ busy
    /\ runs' \in {runs, NoConfig, goal, target}
    /\ broken' \in BOOLEAN
    /\ broken' \/ runs' \in {NoConfig, goal, target}
    /\ UNCHANGED <<rows, past, busy, target, goal>>

\* Success.  A restore replaces the rows by some that compile to the target.
Commit ==
    /\ busy
    /\ target \in past
    /\ broken \/ runs \in {target, NoConfig}
    /\ goal' = target
    /\ busy' = FALSE
    /\ target' = NoConfig
    /\ rows' = rows \/ (rows' \in Core /\ Compile[rows'] = target)
    /\ UNCHANGED <<past, runs, broken>>

\* Failure, and the end of a Start, Stop or Restart.
GiveUp ==
    /\ busy
    /\ busy' = FALSE
    /\ target' = NoConfig
    /\ runs' \in {runs, NoConfig, goal}
    /\ broken' \in BOOLEAN
    /\ broken' \/ runs' \in {goal, NoConfig}
    /\ UNCHANGED <<rows, past, goal>>

\* Revisions are deleted, never the active one, and never under an operation.
Forget ==
    /\ ~busy
    /\ past' \in SUBSET past
    /\ goal # NoConfig => goal \in past'
    /\ UNCHANGED <<rows, busy, target, goal, runs, broken>>

\* Caddy finishes a load its client gave up on.
LateLoad ==
    /\ broken
    /\ runs' \in Config
    /\ UNCHANGED <<rows, past, busy, target, goal, broken>>

Exit ==
    /\ runs' = NoConfig
    /\ broken' = FALSE
    /\ UNCHANGED <<rows, past, busy, target, goal>>

Crash ==
    /\ busy' = FALSE
    /\ target' = NoConfig
    /\ runs' = NoConfig
    /\ broken' = FALSE
    /\ UNCHANGED <<rows, past, goal>>

ContractNext ==
    \/ Edit \/ Begin \/ Snapshot \/ Select \/ Store \/ Work \/ Commit \/ GiveUp
    \/ Forget \/ LateLoad \/ Exit \/ Crash

ContractSpec == ContractInit /\ [][ContractNext]_contractVars

=============================================================================
