----------------------------- MODULE LedgerChain -----------------------------
(***************************************************************************)
(* The hash chain shared by both storage backends (storage/ledger_chain.py *)
(* and the two verify_integrity methods).                                  *)
(*                                                                         *)
(* SHA-256 is idealised as collision free: the digest of an entry stands   *)
(* for the whole history it commits to, the sequence of (event_id,         *)
(* payload) pairs from the genesis entry up to and including itself.       *)
(***************************************************************************)
EXTENDS Naturals, Sequences

CONSTANTS EventId,      \* event identifiers (uuid4 strings in the code)
          Payload       \* event payloads, after payload_json

Digest == Seq(EventId \X Payload)

\* Mutant: an empty ledger has a head that is no digest.
MissingGenesis == << << >> >>

GENESIS_HASH == << >>

entry_hash(prev, event_id, payload) == Append(prev, <<event_id, payload>>)

LedgerEntry == [event_id   : EventId,
                payload    : Payload,
                prev_hash  : Digest,
                entry_hash : Digest]

\* The entry _append_ledger inserts, given the hash it read as the chain's head.
NewEntry(prev, event_id, payload) ==
    [event_id   |-> event_id,
     payload    |-> payload,
     prev_hash  |-> prev,
     entry_hash |-> entry_hash(prev, event_id, payload)]

\* SELECT entry_hash FROM ledger ORDER BY seq DESC LIMIT 1.
last_hash(ledger) ==
    IF ledger = << >> THEN GENESIS_HASH ELSE ledger[Len(ledger)].entry_hash

\* The scan of verify_integrity: every entry names its predecessor's digest and
\* carries the digest of its own content.
verify_integrity(ledger) ==
    \A i \in 1..Len(ledger) :
        /\ ledger[i].prev_hash =
               IF i = 1 THEN GENESIS_HASH ELSE ledger[i - 1].entry_hash
        /\ ledger[i].entry_hash =
               entry_hash(ledger[i].prev_hash, ledger[i].event_id, ledger[i].payload)
=============================================================================
