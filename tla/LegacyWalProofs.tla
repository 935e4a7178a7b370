--------------------------- MODULE LegacyWalProofs ---------------------------
(***************************************************************************)
(* The safety properties of LegacyWal for any events, payloads, stagings   *)
(* and number of crashes: IInv is inductive.                               *)
(***************************************************************************)
EXTENDS LegacyWal, VaultTablesProofs

\* The rows the methods are at are rows of the buffer, typed.
LEMMA RowFacts ==
    ASSUME IInv, NEW id \in DOMAIN buffer
    PROVE  /\ id \in Nat
           /\ buffer[id] \in WalRow
           /\ buffer[id].event_id \in EventId /\ buffer[id].payload \in Payload
<1>1. buffer \in Seq(WalRow)
  BY DEF IInv, TypeOK
<1>2. DOMAIN buffer = 1..Len(buffer) /\ Len(buffer) \in Nat
  BY <1>1
<1>3. id \in Nat /\ buffer[id] \in WalRow
  BY <1>1, <1>2
<1> QED
  BY <1>3 DEF WalRow

LEMMA RowAtUnique ==
    ASSUME IInv, NEW i \in call.pending, NEW j \in call.pending, RowAt(i), RowAt(j)
    PROVE  i = j
<1>1. i \in Nat /\ j \in Nat /\ i <= j /\ j <= i
  BY DEF RowAt, IInv, TypeOK, Call
<1> QED
  BY <1>1

\* What a step that changes no table owes: the call it leaves behind.
LEMMA CallStep ==
    ASSUME IInv, UNCHANGED <<wal, buffer, ledger>>, faults' \in 0..MaxFaults,
           call' \in Call, FlagsFollowLedger', PendingRows'
    PROVE  IInv'
BY DEF IInv, TypeOK, SameRows, LedgeredAsStaged

\* What an append to the ledger leaves alone and adds.
LEMMA AppendFacts ==
    ASSUME IInv, NEW id \in DOMAIN buffer, LedgerAppend(buffer[id])
    PROVE  /\ ledger' \in Seq(LedgerEntry)
           /\ EventsOf(ledger') = EventsOf(ledger) \cup {buffer[id].event_id}
           /\ \A i \in DOMAIN ledger' :
                 \/ i \in DOMAIN ledger /\ ledger'[i] = ledger[i]
                 \/ /\ ledger'[i].event_id = buffer[id].event_id
                    /\ ledger'[i].payload = buffer[id].payload
<1> DEFINE prev == last_hash(ledger)
           e == buffer[id].event_id
           p == buffer[id].payload
<1>1. ledger \in Seq(LedgerEntry) /\ e \in EventId /\ p \in Payload
  BY RowFacts DEF IInv, TypeOK
<1>2. prev \in Digest
  BY <1>1, LastHashType
<1>3. ledger' = Append(ledger, NewEntry(prev, e, p))
  BY DEF LedgerAppend
<1> HIDE DEF prev, e, p
<1>4. /\ NewEntry(prev, e, p) \in LedgerEntry
      /\ NewEntry(prev, e, p).event_id = e /\ NewEntry(prev, e, p).payload = p
  BY <1>1, <1>2, NewEntryFacts
<1>5. /\ ledger' \in Seq(LedgerEntry)
      /\ DOMAIN ledger' = DOMAIN ledger \cup {Len(ledger) + 1}
      /\ \A i \in DOMAIN ledger : ledger'[i] = ledger[i]
      /\ ledger'[Len(ledger) + 1] = NewEntry(prev, e, p)
  BY <1>1, <1>3, <1>4
<1>6. EventsOf(ledger') = EventsOf(ledger) \cup {e}
  BY <1>1, <1>3, <1>4, EventsOfAppend
<1> QED
  BY <1>4, <1>5, <1>6 DEF e, p

\* What UPDATE ... SET committed=1 does to the buffer.
LEMMA MarkFacts ==
    ASSUME IInv, NEW id \in DOMAIN buffer, NEW rows,
           rows = MarkCommitted(buffer, buffer[id].event_id)
    PROVE  /\ rows \in Seq(WalRow) /\ DOMAIN rows = DOMAIN buffer
           /\ \A i \in DOMAIN buffer :
                 /\ rows[i].event_id = buffer[i].event_id
                 /\ rows[i].payload = buffer[i].payload
                 /\ rows[i].committed <=>
                       (buffer[i].committed \/ buffer[i].event_id = buffer[id].event_id)
<1>1. buffer \in Seq(WalRow) /\ buffer[id].event_id \in EventId
  BY RowFacts DEF IInv, TypeOK
<1> QED
  BY <1>1, MarkCommittedFacts

-----------------------------------------------------------------------------
LEMMA InitInv == Init => IInv
<1> SUFFICES ASSUME Init PROVE IInv
  OBVIOUS
<1>1. IdleCall \in Call
  BY DEF IdleCall, Call
<1>2. TypeOK
  BY <1>1, LegacyWalAssumption DEF Init, TypeOK
<1> QED
  BY <1>2 DEF Init, IInv, SameRows, FlagsFollowLedger, PendingRows, LedgeredAsStaged, IdleCall

\* stage adds a row, or nothing, and commits what an earlier replay left open.
LEMMA StageInv == ASSUME IInv, NEW s \in Stagings, stage(s) PROVE IInv'
<1>1. /\ s.event_id \in EventId /\ s.payload \in Payload
      /\ buffer \in Seq(WalRow) /\ wal \in Seq(WalRow)
      /\ buffer' = InsertOrIgnore(buffer, s.event_id, s.payload) /\ wal' = buffer'
      /\ UNCHANGED <<ledger, call, faults>> /\ call.pc = "idle"
  BY LegacyWalAssumption DEF stage, WriteAndCommit, IInv, TypeOK
<1>2. /\ buffer' \in Seq(WalRow)
      /\ \A i \in DOMAIN buffer : buffer'[i] = buffer[i]
      /\ \A i \in DOMAIN buffer' \ DOMAIN buffer : ~buffer'[i].committed
      /\ DOMAIN buffer \subseteq DOMAIN buffer'
  BY <1>1, InsertOrIgnoreFacts
<1>3. TypeOK'
  BY <1>1, <1>2 DEF IInv, TypeOK
<1>4. SameRows'
  BY <1>1 DEF SameRows
<1>5. FlagsFollowLedger'
  BY <1>1, <1>2 DEF IInv, FlagsFollowLedger, InLedger
<1>6. PendingRows'
  BY <1>1, <1>2 DEF IInv, PendingRows
<1>7. LedgeredAsStaged'
  <2> SUFFICES ASSUME NEW i \in DOMAIN ledger
               PROVE  \E j \in DOMAIN wal' : /\ wal'[j].event_id = ledger[i].event_id
                                             /\ wal'[j].payload = ledger[i].payload
    BY <1>1 DEF LedgeredAsStaged
  <2>1. PICK j \in DOMAIN wal : /\ wal[j].event_id = ledger[i].event_id
                                /\ wal[j].payload = ledger[i].payload
    BY DEF IInv, LedgeredAsStaged
  <2>2. j \in DOMAIN buffer /\ wal'[j] = buffer[j]
    BY <1>1, <1>2 DEF IInv, SameRows
  <2> QED
    BY <1>1, <1>2, <2>1, <2>2 DEF IInv, SameRows
<1> QED
  BY <1>3, <1>4, <1>5, <1>6, <1>7 DEF IInv

LEMMA CommitBeginInv == ASSUME IInv, NEW id \in DOMAIN buffer, CommitBegin(id) PROVE IInv'
<1>1. /\ UNCHANGED <<wal, buffer, ledger, faults>>
      /\ call' = [pc |-> "commit", pending |-> {id}] /\ id \in Nat
  BY RowFacts DEF CommitBegin
<1>2. call' \in Call
  BY <1>1 DEF Call
<1>3. FlagsFollowLedger'
  BY <1>1 DEF IInv, FlagsFollowLedger, InLedger
<1>4. PendingRows'
  BY <1>1 DEF PendingRows
<1>5. faults' \in 0..MaxFaults
  BY <1>1 DEF IInv, TypeOK
<1> QED
  BY <1>1, <1>2, <1>3, <1>4, <1>5, CallStep

LEMMA ReplayBeginInv == IInv /\ ReplayBegin => IInv'
<1> SUFFICES ASSUME IInv, ReplayBegin PROVE IInv'
  OBVIOUS
<1>1. /\ UNCHANGED <<wal, buffer, ledger, faults>>
      /\ call' = [pc |-> "replay", pending |-> Uncommitted(buffer)]
  BY DEF ReplayBegin
<1>2. Uncommitted(buffer) \subseteq DOMAIN buffer /\ DOMAIN buffer \subseteq Nat
  BY RowFacts DEF Uncommitted
<1>3. call' \in Call
  BY <1>1, <1>2 DEF Call
<1>4. FlagsFollowLedger'
  BY <1>1 DEF IInv, FlagsFollowLedger, InLedger
<1>5. PendingRows'
  BY <1>1, <1>2 DEF PendingRows
<1>6. faults' \in 0..MaxFaults
  BY <1>1 DEF IInv, TypeOK
<1> QED
  BY <1>1, <1>3, <1>4, <1>5, <1>6, CallStep

\* The exception and the crash leave the tables and no call.
LEMMA AppendRaisesInv == IInv /\ AppendRaises => IInv'
<1> SUFFICES ASSUME IInv, AppendRaises PROVE IInv'
  OBVIOUS
<1>1. UNCHANGED <<wal, buffer, ledger, faults>> /\ call' = IdleCall
  BY DEF AppendRaises
<1>2. call' \in Call
  BY <1>1 DEF Call, IdleCall
<1>3. FlagsFollowLedger'
  BY <1>1 DEF IInv, FlagsFollowLedger, InLedger, IdleCall
<1>4. PendingRows'
  BY <1>1 DEF PendingRows, IdleCall
<1>5. faults' \in 0..MaxFaults
  BY <1>1 DEF IInv, TypeOK
<1> QED
  BY <1>1, <1>2, <1>3, <1>4, <1>5, CallStep

LEMMA CrashInv == IInv /\ Crash => IInv'
<1> SUFFICES ASSUME IInv, Crash PROVE IInv'
  OBVIOUS
<1>1. UNCHANGED <<wal, ledger>> /\ buffer' = wal /\ call' = IdleCall
  BY DEF Crash
<1>2. faults' \in 0..MaxFaults
  BY LegacyWalAssumption DEF Crash, IInv, TypeOK
<1>3. TypeOK'
  BY <1>1, <1>2 DEF IInv, TypeOK, Call, IdleCall
<1>4. SameRows' /\ LedgeredAsStaged'
  BY <1>1 DEF IInv, SameRows, LedgeredAsStaged
<1>5. FlagsFollowLedger'
  BY <1>1 DEF IInv, FlagsFollowLedger, SameRows, InLedger, IdleCall
<1>6. PendingRows'
  BY <1>1 DEF PendingRows, IdleCall
<1> QED
  BY <1>3, <1>4, <1>5, <1>6 DEF IInv

-----------------------------------------------------------------------------
\* Both methods append the row they are at, with its staged payload, and owe its
\* flag from then on.
LEMMA AppendInv == IInv /\ (CommitAppend \/ ReplayAppend) => IInv'
<1> SUFFICES ASSUME IInv, CommitAppend \/ ReplayAppend PROVE IInv'
  OBVIOUS
<1>1. PICK id \in call.pending :
        /\ LedgerAppend(buffer[id])
        /\ call.pc \in {"commit", "replay"}
        /\ call.pc = "replay" => RowAt(id)
        /\ call' = [call EXCEPT !.pc = IF call.pc = "commit" THEN "commit_flag" ELSE "replay_flag"]
        /\ UNCHANGED <<wal, buffer, faults>>
  BY DEF CommitAppend, ReplayAppend
<1>2. id \in DOMAIN buffer /\ call \in Call /\ call.pending \subseteq DOMAIN buffer
  BY DEF IInv, PendingRows, TypeOK
<1>3. /\ ledger' \in Seq(LedgerEntry)
      /\ EventsOf(ledger') = EventsOf(ledger) \cup {buffer[id].event_id}
      /\ \A i \in DOMAIN ledger' :
            \/ i \in DOMAIN ledger /\ ledger'[i] = ledger[i]
            \/ /\ ledger'[i].event_id = buffer[id].event_id
               /\ ledger'[i].payload = buffer[id].payload
  BY <1>1, <1>2, AppendFacts
<1>4. /\ call'.pending = call.pending /\ call' \in Call
      /\ call'.pc = IF call.pc = "commit" THEN "commit_flag" ELSE "replay_flag"
  BY <1>1, <1>2 DEF Call
<1>5. TypeOK'
  BY <1>1, <1>3, <1>4 DEF IInv, TypeOK
<1>6. SameRows'
  BY <1>1 DEF IInv, SameRows
<1>7. FlagsFollowLedger'
  <2>1. \A i \in DOMAIN buffer : InLedger(i) => InLedger(i)'
    BY <1>1, <1>3 DEF InLedger
  <2>2. InLedger(id)'
    BY <1>1, <1>3 DEF InLedger
  <2>3. call.pc = "commit" => call.pending = {id}
    BY <1>1 DEF IInv, PendingRows
  <2>4. \A i \in call.pending : RowAt(i)' => RowAt(i)
    BY <1>4 DEF RowAt
  <2>5. call.pc = "replay" => \A i \in call.pending : RowAt(i)' => i = id
    BY <1>1, <2>4, RowAtUnique
  <2> QED
    BY <1>1, <1>4, <2>1, <2>2, <2>3, <2>5 DEF IInv, FlagsFollowLedger
<1>8. PendingRows'
  BY <1>1, <1>4 DEF IInv, PendingRows
<1>9. LedgeredAsStaged'
  <2>1. id \in DOMAIN wal /\ wal[id].event_id = buffer[id].event_id
                          /\ wal[id].payload = buffer[id].payload
    BY <1>2 DEF IInv, SameRows
  <2> QED
    BY <1>1, <1>3, <2>1 DEF IInv, LedgeredAsStaged
<1> QED
  BY <1>5, <1>6, <1>7, <1>8, <1>9 DEF IInv

\* commit sets the flag of its row and makes it durable.
LEMMA CommitFlagInv == IInv /\ CommitFlag => IInv'
<1> SUFFICES ASSUME IInv, CommitFlag PROVE IInv'
  OBVIOUS
<1>1. PICK id \in call.pending :
        buffer' = MarkCommitted(buffer, buffer[id].event_id)
  BY DEF CommitFlag, WriteAndCommit
<1>2. /\ wal' = buffer' /\ call' = IdleCall /\ UNCHANGED <<ledger, faults>>
      /\ call.pc = "commit_flag"
  BY DEF CommitFlag, WriteAndCommit
<1>3. id \in DOMAIN buffer /\ InLedger(id)
  BY <1>2 DEF IInv, PendingRows, FlagsFollowLedger
<1>4. /\ buffer' \in Seq(WalRow) /\ DOMAIN buffer' = DOMAIN buffer
      /\ \A i \in DOMAIN buffer :
            /\ buffer'[i].event_id = buffer[i].event_id
            /\ buffer'[i].payload = buffer[i].payload
            /\ buffer'[i].committed <=>
                  (buffer[i].committed \/ buffer[i].event_id = buffer[id].event_id)
  BY <1>1, <1>3, MarkFacts
<1>5. TypeOK'
  BY <1>2, <1>4 DEF IInv, TypeOK, Call, IdleCall
<1>6. SameRows'
  BY <1>2 DEF SameRows
<1>7. FlagsFollowLedger'
  BY <1>2, <1>3, <1>4 DEF IInv, FlagsFollowLedger, InLedger, IdleCall
<1>8. PendingRows'
  BY <1>2 DEF PendingRows, IdleCall
<1>9. LedgeredAsStaged'
  BY <1>2, <1>4 DEF IInv, LedgeredAsStaged, SameRows
<1> QED
  BY <1>5, <1>6, <1>7, <1>8, <1>9 DEF IInv

\* replay_pending sets the flag on its connection only.
LEMMA ReplayFlagInv == IInv /\ ReplayFlag => IInv'
<1> SUFFICES ASSUME IInv, ReplayFlag PROVE IInv'
  OBVIOUS
<1>1. PICK id \in call.pending :
        /\ RowAt(id)
        /\ buffer' = MarkCommitted(buffer, buffer[id].event_id)
        /\ call' = [pc |-> "replay", pending |-> call.pending \ {id}]
  BY DEF ReplayFlag
<1>2. UNCHANGED <<wal, ledger, faults>> /\ call.pc = "replay_flag"
  BY DEF ReplayFlag
<1>3. /\ id \in DOMAIN buffer /\ InLedger(id)
      /\ call \in Call /\ call.pending \subseteq DOMAIN buffer
      /\ Uncommitted(buffer) \subseteq call.pending
  BY <1>1, <1>2 DEF IInv, PendingRows, FlagsFollowLedger, TypeOK
<1>4. /\ buffer' \in Seq(WalRow) /\ DOMAIN buffer' = DOMAIN buffer
      /\ \A i \in DOMAIN buffer :
            /\ buffer'[i].event_id = buffer[i].event_id
            /\ buffer'[i].payload = buffer[i].payload
            /\ buffer'[i].committed <=>
                  (buffer[i].committed \/ buffer[i].event_id = buffer[id].event_id)
  BY <1>1, <1>3, MarkFacts
<1>5. TypeOK'
  BY <1>1, <1>2, <1>3, <1>4 DEF IInv, TypeOK, Call
<1>6. SameRows'
  BY <1>2, <1>4 DEF IInv, SameRows
<1>7. FlagsFollowLedger'
  BY <1>1, <1>2, <1>3, <1>4 DEF IInv, FlagsFollowLedger, InLedger
<1>8. PendingRows'
  <2>1. Uncommitted(buffer') \subseteq Uncommitted(buffer) \ {id}
    BY <1>3, <1>4 DEF Uncommitted
  <2> QED
    BY <1>1, <1>3, <1>4, <2>1 DEF PendingRows
<1>9. LedgeredAsStaged'
  BY <1>2 DEF IInv, LedgeredAsStaged
<1> QED
  BY <1>5, <1>6, <1>7, <1>8, <1>9 DEF IInv

LEMMA ReplayCommitInv == IInv /\ ReplayCommit => IInv'
<1> SUFFICES ASSUME IInv, ReplayCommit PROVE IInv'
  OBVIOUS
<1>1. UNCHANGED <<buffer, ledger, faults>> /\ wal' = buffer /\ call' = IdleCall
  BY DEF ReplayCommit
<1>2. TypeOK'
  BY <1>1 DEF IInv, TypeOK, Call, IdleCall
<1>3. SameRows'
  BY <1>1 DEF SameRows
<1>4. FlagsFollowLedger'
  BY <1>1 DEF IInv, FlagsFollowLedger, InLedger, IdleCall
<1>5. PendingRows'
  BY <1>1 DEF PendingRows, IdleCall
<1>6. LedgeredAsStaged'
  BY <1>1 DEF IInv, LedgeredAsStaged, SameRows
<1> QED
  BY <1>2, <1>3, <1>4, <1>5, <1>6 DEF IInv

-----------------------------------------------------------------------------
LEMMA NextInv == IInv /\ [Next]_vars => IInv'
<1> SUFFICES ASSUME IInv, [Next]_vars PROVE IInv'
  OBVIOUS
<1>1. CASE \E s \in Stagings : stage(s)
  BY <1>1, StageInv
<1>2. CASE \E id \in DOMAIN buffer : CommitBegin(id)
  BY <1>2, CommitBeginInv
<1>3. CASE ReplayBegin
  BY <1>3, ReplayBeginInv
<1>4. CASE Proceed
  BY <1>4, AppendInv, CommitFlagInv, ReplayFlagInv, ReplayCommitInv, AppendRaisesInv DEF Proceed
<1>5. CASE Crash
  BY <1>5, CrashInv
<1>6. CASE UNCHANGED vars
  BY <1>6 DEF vars, IInv, TypeOK, SameRows, FlagsFollowLedger, PendingRows,
              LedgeredAsStaged, InLedger, RowAt
<1> QED
  BY <1>1, <1>2, <1>3, <1>4, <1>5, <1>6 DEF Next

\* The inductive invariant holds in every reachable state.
THEOREM Invariant == Spec => []IInv
BY InitInv, NextInv, PTL DEF Spec

\* Tables and locals keep their types.
THEOREM TypeCorrect == Spec => []TypeOK
<1>1. IInv => TypeOK
  BY DEF IInv
<1> QED
  BY <1>1, Invariant, PTL

\* A durable flag always has its ledger entry: the two commits are in the right
\* order, whatever crashes between them.
THEOREM FlagsAreEarned == Spec => []FlaggedIsLedgered
<1>1. IInv => FlaggedIsLedgered
  BY DEF IInv, SameRows, FlagsFollowLedger, FlaggedIsLedgered, CommittedEvents, InLedger
<1> QED
  BY <1>1, Invariant, PTL

\* The ledger holds what was staged, under the payload staged first.
THEOREM PayloadsAreStaged == Spec => []LedgeredAsStaged
<1>1. IInv => LedgeredAsStaged
  BY DEF IInv
<1> QED
  BY <1>1, Invariant, PTL

\* A replay_pending that returns has flagged and ledgered every row.
THEOREM ReplayIsComplete == Spec => ReplayDrains
<1> DEFINE Returned == call.pc = "replay" /\ call.pending = {} /\ call'.pc = "idle" /\ faults' = faults
           Drained == Uncommitted(wal') = {} /\ EventsOf(wal') = EventsOf(ledger')
<1>1. IInv /\ [Next]_vars => (Returned => Drained)
  <2> SUFFICES ASSUME IInv, [Next]_vars, Returned PROVE Drained
    OBVIOUS
  <2>1. ReplayCommit
    <3>1. ~Crash
      BY DEF Crash, IInv, TypeOK
    <3>2. ~AppendRaises
      BY DEF AppendRaises
    <3>3. ~UNCHANGED vars
      BY DEF vars
    <3> QED
      BY <3>1, <3>2, <3>3 DEF Next, Proceed, stage, CommitBegin, ReplayBegin, CommitAppend,
                              CommitFlag, ReplayAppend, ReplayFlag
  <2>2. wal' = buffer /\ ledger' = ledger
    BY <2>1 DEF ReplayCommit
  <2>3. Uncommitted(buffer) = {}
    BY DEF IInv, PendingRows
  <2>4. EventsOf(buffer) \subseteq EventsOf(ledger)
    BY <2>3 DEF IInv, FlagsFollowLedger, Uncommitted, EventsOf, InLedger
  <2>5. EventsOf(ledger) \subseteq EventsOf(buffer)
    BY DEF IInv, LedgeredAsStaged, SameRows, EventsOf
  <2> QED
    BY <2>2, <2>3, <2>4, <2>5
<1>2. IInv /\ [Next]_vars => [Returned => Drained]_vars
  BY <1>1
<1> QED
  BY <1>2, Invariant, PTL DEF Spec, ReplayDrains
=============================================================================
