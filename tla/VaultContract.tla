----------------------------- MODULE VaultContract -----------------------------
(***************************************************************************)
(* What docs/crash-semantics.md and ADR 0002 promise the callers of a      *)
(* StorageBackend: each method that writes happens in one transaction, in  *)
(* one piece or not at all, and a reply is given only for what is durable. *)
(* SqliteLedger implements it when one process has the file open.          *)
(***************************************************************************)
EXTENDS VaultTables

CONSTANTS Batches, Stagings

VARIABLES db,       \* the durable tables
          acked     \* rows clients were told are acknowledged

vars == <<db, acked>>

Init == db = EmptyDb /\ acked = {}

\* Every item of the batch is a duplicate or meets no constraint.
Accepts(batch) ==
    \A n \in DOMAIN batch :
        \/ Claimed(AfterItems(db, batch, n - 1), batch[n])
        \/ ~Conflict(AfterItems(db, batch, n - 1), batch[n])

acknowledge_writes_batch(batch) ==
    /\ Accepts(batch)
    /\ db' = AfterItems(db, batch, Len(batch))
    /\ UNCHANGED acked

\* The caller of an earlier acknowledge_writes_batch gets its results: one
\* claimed row for every key it passed.
Answer(batch) ==
    LET keys == {batch[i].idempotency_key : i \in DOMAIN batch}
    IN  /\ \A k \in keys : \E r \in db.idempotency : r.idempotency_key = k
        /\ acked' = acked \cup {r \in db.idempotency : r.idempotency_key \in keys}
        /\ UNCHANGED db

stage_partial(s) ==
    /\ db' = StageRow(db, s.event_id, s.payload)
    /\ UNCHANGED acked

\* Every staged row is promoted, in the order it was staged.
recover_uncommitted ==
    /\ db' = AfterRows(db, Len(db.wal_staging))
    /\ UNCHANGED acked

Next ==
    \/ \E batch \in Batches : acknowledge_writes_batch(batch) \/ Answer(batch)
    \/ \E s \in Stagings : stage_partial(s)
    \/ recover_uncommitted

Spec == Init /\ [][Next]_vars
=============================================================================
