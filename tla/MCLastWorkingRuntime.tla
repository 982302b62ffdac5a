------------------------ MODULE MCLastWorkingRuntime ------------------------
(* ApplyService with the history that the statement of docs/adr/0007 needs:  *)
(* what Caddy served before the operation that holds the lock began.         *)
EXTENDS MCApplyService

VARIABLE working    \* the document Caddy served when the lock was last free

WorkingInit == Init /\ working = serving

WorkingNext == Next /\ working' = IF lock = None THEN serving ELSE working

WorkingSpec == WorkingInit /\ [][WorkingNext]_<<vars, working>>

\* docs/adr/0007: an application that fails preserves the last known working
\* Caddy runtime.  When Caddy served the active revision before the apply, it
\* serves that document, or has gone down, when the apply returns its failure
\* (apply's error paths after activate and Reload).
LastWorkingRuntimeKept ==
    [][\A c \in Callers :
          /\ Failed(c)
          /\ loc[c].kind = "apply"
          /\ active # 0
          /\ working = ActiveConfig
          => serving' \in {working, NoConfig}]_<<vars, working>>
=============================================================================
