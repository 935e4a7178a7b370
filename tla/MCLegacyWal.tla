------------------------------ MODULE MCLegacyWal ------------------------------
(* A small instance of LegacyWal: three events, one of them staged twice. *)
EXTENDS LegacyWal

CONSTANTS e1, e2, e3, x, y

MCStagings == {[event_id |-> e1, payload |-> x], [event_id |-> e1, payload |-> y],
               [event_id |-> e2, payload |-> y], [event_id |-> e3, payload |-> x]}
=============================================================================
