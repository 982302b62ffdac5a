--------------------------- MODULE ApplyRefinement ---------------------------
(***************************************************************************)
(* ApplyService implements ApplyContract.                                  *)
(***************************************************************************)
EXTENDS ApplyService

\* The documents of the stored revisions.
StoredDocuments == {revisions[n].config : n \in {m \in Number : Exists(m)}}

\* The document the operation in progress is about to make active, once it has
\* read the rows (apply) or accepted the revision (Restore).
TargetOf(c) ==
    IF pc[c] \in {"identify", "record"} THEN Compile[loc[c].snap.core]
    ELSE IF pc[c] \in Late THEN ConfigOf(loc[c].rev)
    ELSE NoConfig

Target == IF lock = None THEN NoConfig ELSE TargetOf(lock)

Contract == INSTANCE ApplyContract WITH
    rows   <- db.core,
    past   <- StoredDocuments,
    busy   <- lock # None,
    target <- Target,
    goal   <- ActiveConfig,
    runs   <- serving,
    broken <- adrift

\* Every operation of ApplyService is, seen from outside, one operation of the
\* contract: it compiles rows read under the lock, hands Caddy nothing but the
\* target or the active document, makes the target active only when Caddy
\* serves it (or exited, or an earlier failure left Caddy astray), and when it
\* fails leaves Caddy with the active document or marks it as astray.
ImplementsContract == Contract!ContractSpec

\* Added to the inductive invariant: the document of a revision with a snapshot
\* is the compiled snapshot, so that a restored database compiles to it.
SnapshotInv ==
    \A n \in Number : Restorable(n) => revisions[n].config = Compile[revisions[n].state.core]

=============================================================================
