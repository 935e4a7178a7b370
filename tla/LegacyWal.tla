------------------------------ MODULE LegacyWal ------------------------------
(***************************************************************************)
(* The standalone WalBuffer (wal/recovery.py) with the standalone          *)
(* LedgerStore (ledger/store.py) as its ledger_append: two database files, *)
(* two connections, two commits.  One caller, no lock.  An exception is    *)
(* not followed by a rollback, so the buffer's connection may keep flags   *)
(* that only its next commit makes durable.                                *)
(***************************************************************************)
EXTENDS VaultTables

CONSTANTS Stagings,     \* what callers pass to stage
          MaxFaults     \* bound: crashes per behaviour

ASSUME LegacyWalAssumption ==
    /\ Stagings \subseteq [event_id : EventId, payload : Payload]
    /\ MaxFaults \in Nat

VARIABLES wal,          \* the durable rows of WalBuffer's table
          buffer,       \* the rows as WalBuffer's connection sees them
          ledger,       \* LedgerStore's table: append commits every entry
          call,         \* the method the caller is in
          faults

vars == <<wal, buffer, ledger, call, faults>>

IdleCall == [pc |-> "idle", pending |-> {}]

\* `pending' holds the row commit works on, or those replay_pending has left.
Call == [pc      : {"idle", "commit", "commit_flag", "replay", "replay_flag"},
         pending : SUBSET Nat]

TypeOK ==
    /\ wal \in Seq(WalRow)
    /\ buffer \in Seq(WalRow)
    /\ ledger \in Seq(LedgerEntry)
    /\ call \in Call
    /\ faults \in 0..MaxFaults

Init ==
    /\ wal = << >>
    /\ buffer = << >>
    /\ ledger = << >>
    /\ call = IdleCall
    /\ faults = 0

\* A write on the buffer's connection followed by its commit.
WriteAndCommit(rows) == buffer' = rows /\ wal' = rows

\* The row the caller is at.
RowAt(id) == id \in call.pending /\ \A j \in call.pending : id <= j

InLedger(id) == buffer[id].event_id \in EventsOf(ledger)

\* LedgerStore.append: read the head, insert, commit.
LedgerAppend(row) ==
    ledger' = Append(ledger, NewEntry(last_hash(ledger), row.event_id, row.payload))

stage(s) ==
    /\ call.pc = "idle"
    /\ WriteAndCommit(InsertOrIgnore(buffer, s.event_id, s.payload))
    /\ UNCHANGED <<ledger, call, faults>>

-----------------------------------------------------------------------------
(* commit *)

\* A row that is missing or committed already is no work.
CommitBegin(id) ==
    /\ call.pc = "idle"
    /\ id \in Uncommitted(buffer)
    /\ call' = [pc |-> "commit", pending |-> {id}]
    /\ UNCHANGED <<wal, buffer, ledger, faults>>

\* Mutant: the flag is committed before the ledger entry.
CommitFlagsFirst ==
    /\ call.pc = "commit"
    /\ \E id \in call.pending : WriteAndCommit(MarkCommitted(buffer, buffer[id].event_id))
    /\ call' = [call EXCEPT !.pc = "commit_flag"]
    /\ UNCHANGED <<ledger, faults>>

CommitAppend ==
    /\ call.pc = "commit"
    /\ \E id \in call.pending : ~InLedger(id) /\ LedgerAppend(buffer[id])
    /\ call' = [call EXCEPT !.pc = "commit_flag"]
    /\ UNCHANGED <<wal, buffer, faults>>

CommitFlag ==
    /\ call.pc = "commit_flag"
    /\ \E id \in call.pending : WriteAndCommit(MarkCommitted(buffer, buffer[id].event_id))
    /\ call' = IdleCall
    /\ UNCHANGED <<ledger, faults>>

-----------------------------------------------------------------------------
(* replay_pending *)

ReplayBegin ==
    /\ call.pc = "idle"
    /\ call' = [pc |-> "replay", pending |-> Uncommitted(buffer)]
    /\ UNCHANGED <<wal, buffer, ledger, faults>>

\* Mutant: every row is appended with the payload of the first one.
ReplayFirstPayload ==
    /\ call.pc = "replay"
    /\ \E id \in call.pending :
          /\ RowAt(id)
          /\ ~InLedger(id)
          /\ LedgerAppend([buffer[id] EXCEPT !.payload = buffer[1].payload])
    /\ call' = [call EXCEPT !.pc = "replay_flag"]
    /\ UNCHANGED <<wal, buffer, faults>>

ReplayAppend ==
    /\ call.pc = "replay"
    /\ \E id \in call.pending : RowAt(id) /\ ~InLedger(id) /\ LedgerAppend(buffer[id])
    /\ call' = [call EXCEPT !.pc = "replay_flag"]
    /\ UNCHANGED <<wal, buffer, faults>>

\* Mutant: the UPDATE has no WHERE.
ReplayFlagsAll ==
    /\ call.pc = "replay_flag"
    /\ \E id \in call.pending :
          /\ RowAt(id)
          /\ buffer' = [i \in DOMAIN buffer |-> [buffer[i] EXCEPT !.committed = TRUE]]
          /\ call' = [pc |-> "replay", pending |-> call.pending \ {id}]
    /\ UNCHANGED <<wal, ledger, faults>>

\* The UPDATE of the loop: not committed yet.
ReplayFlag ==
    /\ call.pc = "replay_flag"
    /\ \E id \in call.pending :
          /\ RowAt(id)
          /\ buffer' = MarkCommitted(buffer, buffer[id].event_id)
          /\ call' = [pc |-> "replay", pending |-> call.pending \ {id}]
    /\ UNCHANGED <<wal, ledger, faults>>

\* Mutant: replay_pending returns without its commit.
ReplayWithoutCommit ==
    /\ call.pc = "replay"
    /\ call.pending = {}
    /\ call' = IdleCall
    /\ UNCHANGED <<wal, buffer, ledger, faults>>

ReplayCommit ==
    /\ call.pc = "replay"
    /\ call.pending = {}
    /\ wal' = buffer
    /\ call' = IdleCall
    /\ UNCHANGED <<buffer, ledger, faults>>

-----------------------------------------------------------------------------
\* The ledger holds the event already: UNIQUE fails in ledger_append, and the
\* exception leaves commit or replay_pending with the buffer as it is.
AppendRaises ==
    /\ call.pc \in {"commit", "replay"}
    /\ \E id \in call.pending : RowAt(id) /\ InLedger(id)
    /\ call' = IdleCall
    /\ UNCHANGED <<wal, buffer, ledger, faults>>

\* The process dies and both files are opened again.
Crash ==
    /\ faults < MaxFaults
    /\ buffer' = wal
    /\ call' = IdleCall
    /\ faults' = faults + 1
    /\ UNCHANGED <<wal, ledger>>

Proceed ==
    \/ CommitAppend
    \/ CommitFlag
    \/ ReplayAppend
    \/ ReplayFlag
    \/ ReplayCommit
    \/ AppendRaises

Next ==
    \/ \E s \in Stagings : stage(s)
    \/ \E id \in DOMAIN buffer : CommitBegin(id)
    \/ ReplayBegin
    \/ Proceed
    \/ Crash

Spec == Init /\ [][Next]_vars

\* A method runs to its end, and replay_pending keeps being called.
FairSpec == Spec /\ WF_vars(Proceed) /\ SF_vars(ReplayBegin)

-----------------------------------------------------------------------------
(* Properties *)

\* The ledger commits before the flag does, so a durable flag never stands for
\* an entry a crash has lost.
FlaggedIsLedgered == CommittedEvents(wal) \subseteq EventsOf(ledger)

\* Whatever was staged first is what the ledger holds, through commit, replay,
\* a crash between the two and another staging of the event.
LedgeredAsStaged ==
    \A i \in DOMAIN ledger : \E j \in DOMAIN wal :
        /\ wal[j].event_id = ledger[i].event_id
        /\ wal[j].payload = ledger[i].payload

\* When replay_pending returns, every row is durable, flagged and ledgered.
ReplayDrains ==
    [][ (call.pc = "replay" /\ call.pending = {} /\ call'.pc = "idle" /\ faults' = faults)
            => /\ Uncommitted(wal') = {}
               /\ EventsOf(wal') = EventsOf(ledger') ]_vars

\* What these rest on.  The buffer's connection is ahead of its file by flags only.
SameRows ==
    /\ DOMAIN wal = DOMAIN buffer
    /\ \A i \in DOMAIN wal :
          /\ wal[i].event_id = buffer[i].event_id
          /\ wal[i].payload = buffer[i].payload
          /\ wal[i].committed => buffer[i].committed

\* A flag, set or about to be, stands for a ledger entry already.
FlagsFollowLedger ==
    /\ \A i \in DOMAIN buffer : buffer[i].committed => InLedger(i)
    /\ call.pc = "commit_flag" => \A id \in call.pending : InLedger(id)
    /\ call.pc = "replay_flag" => \A id \in call.pending : RowAt(id) => InLedger(id)

\* The rows a method works on: the one of commit, all that replay has left.
PendingRows ==
    /\ call.pending \subseteq DOMAIN buffer
    /\ call.pc \in {"commit", "commit_flag"} => \E id \in DOMAIN buffer : call.pending = {id}
    /\ call.pc \in {"replay", "replay_flag"} => Uncommitted(buffer) \subseteq call.pending

IInv ==
    /\ TypeOK
    /\ SameRows
    /\ FlagsFollowLedger
    /\ PendingRows
    /\ LedgeredAsStaged

\* A row in front of e's whose entry is in the ledger although its flag is not
\* durable: what a crash between the two files' commits leaves.
WedgedBefore(e) ==
    \E i, j \in DOMAIN wal :
        /\ i < j /\ wal[j].event_id = e
        /\ ~wal[i].committed /\ wal[i].event_id \in EventsOf(ledger)

\* test_crash_recovery.py "no_lost_records", as far as it is true: a staged event
\* reaches the ledger as long as replay_pending keeps being called, or a wedged row
\* in front of it stops every replay for ever.
StagedIsReplayed ==
    \A e \in EventId :
        e \in EventsOf(wal) ~> (e \in EventsOf(ledger) \/ []WedgedBefore(e))
=============================================================================
