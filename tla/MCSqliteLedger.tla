---------------------------- MODULE MCSqliteLedger ----------------------------
(* Small instances of SqliteLedger. *)
EXTENDS SqliteLedger

CONSTANTS e1, e2, e3, x, y, k1, k2

item(k, e, p) == [idempotency_key |-> k, event_id |-> e, payload |-> p]

staging(e, p) == [event_id |-> e, payload |-> p]

\* A single write; a batch that repeats its key; a batch whose second item may
\* meet a claimed key or an event already in the ledger.
MCBatches == { << item(k1, e1, x) >>,
               << item(k2, e2, x), item(k2, e3, x) >>,
               << item(k2, e3, x), item(k1, e1, x) >> }

\* e1 may be staged with a payload other than the acknowledged one.
MCStagings == { staging(e1, y), staging(e2, x), staging(e3, x) }

\* The same outcomes with two events; two batches race for k1.
TwoEventBatches == { << item(k1, e1, x) >>,
                     << item(k1, e2, x), item(k1, e1, x) >>,
                     << item(k2, e2, x), item(k1, e1, x) >> }

TwoEventStagings == { staging(e1, y), staging(e2, x) }

\* Which process each thread belongs to.
CONSTANTS p1, p2, t1, t2

OneProcess == [t \in Threads |-> p1]

ProcessEach == [t \in Threads |-> IF t = t1 THEN p1 ELSE p2]
=============================================================================
