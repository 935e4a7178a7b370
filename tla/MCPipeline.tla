------------------------------ MODULE MCPipeline ------------------------------
(* A small instance of IngestionPipeline: a queue shorter than the workers'  *)
(* pills and the events, so that stop() and ingest compete for its slots.     *)
EXTENDS IngestionPipeline

CONSTANTS w1, w2, w3
=============================================================================
