--------------------------- MODULE MCPostgresLedger ---------------------------
(***************************************************************************)
(* A small instance of PostgresLedger: two processes, one of them with more *)
(* threads than connections.                                               *)
(***************************************************************************)
EXTENDS PostgresLedger

CONSTANTS e1, e2, x, y, k1, k2, p1, p2, t1, t2, t3

item(k, e, p) == [idempotency_key |-> k, event_id |-> e, payload |-> p]

\* A single write, and a batch whose second item may meet a claimed key, its own
\* key, or an event that was recovered.
MCBatches == { << item(k1, e1, x) >>, << item(k2, e2, x), item(k1, e1, x) >> }

MCStagings == { [event_id |-> e1, payload |-> y], [event_id |-> e2, payload |-> x] }

MCProcessOf == [t \in Threads |-> IF t = t3 THEN p2 ELSE p1]
=============================================================================
