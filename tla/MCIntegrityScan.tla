--------------------------- MODULE MCIntegrityScan ---------------------------
(* The instance of MCSqliteLedger with one process, and verify_integrity beside it. *)
EXTENDS MCSqliteLedger, IntegrityScan
=============================================================================
