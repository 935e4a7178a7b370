---------------------------- MODULE IntegrityScan ----------------------------
(***************************************************************************)
(* verify_integrity of storage/sqlite_backend.py next to the writers.      *)
(*                                                                         *)
(* The method takes no lock and reads on the connection its process writes *)
(* on, so it has no snapshot: fetchall steps the SELECT row by row, each   *)
(* step sees what the connection sees then, and neither a commit nor a     *)
(* rollback ends the SELECT, which goes on with the next seq.  One scan    *)
(* per process is enough: scans write nothing.                             *)
(*                                                                         *)
(* An open SELECT also keeps another process's commits from its            *)
(* connection, which is not modelled here: the instances and the theorem   *)
(* are about a file that one process has open.                             *)
(***************************************************************************)
EXTENDS SqliteLedger

VARIABLE scan           \* per process: verify_integrity's place and its rows

scanVars == <<vars, scan>>

NoScan == [pc |-> "idle", rows |-> << >>, undone |-> FALSE]

\* undone: history, a transaction was rolled back while the rows were fetched.
Scan == [pc     : {"idle", "fetching", "answered"},
         rows   : Seq(LedgerEntry),
         undone : BOOLEAN]

ScanInit == Init /\ scan = [p \in Processes |-> NoScan]

Fetching(p) == scan[p].pc = "fetching"

-----------------------------------------------------------------------------
ScanBegin(p) ==
    /\ ~Fetching(p)
    /\ scan' = [scan EXCEPT ![p] = [NoScan EXCEPT !.pc = "fetching"]]
    /\ UNCHANGED vars

\* The row after the last one fetched, as the connection sees it now.
ScanRow(p) ==
    LET ledger == View(p).ledger
        n      == Len(scan[p].rows)
    IN  /\ Fetching(p)
        /\ n < Len(ledger)
        /\ scan' = [scan EXCEPT ![p].rows = Append(@, ledger[n + 1])]
        /\ UNCHANGED vars

\* No row is left, and the loop over the rows gives the answer.
ScanAnswer(p) ==
    /\ Fetching(p)
    /\ Len(scan[p].rows) >= Len(View(p).ledger)
    /\ scan' = [scan EXCEPT ![p].pc = "answered"]
    /\ UNCHANGED vars

Answer(p) == verify_integrity(scan[p].rows)

\* p's transaction ends in this step, and what it wrote is not what is durable.
RolledBack(p) == conn[p].open /\ ~conn'[p].open /\ disk' # conn[p].db

\* A thread's step leaves the SELECTs open, also where it rolls back.
Meanwhile ==
    scan' = [p \in Processes |->
                [scan[p] EXCEPT !.undone = @ \/ (Fetching(p) /\ RolledBack(p))]]

ScanNext ==
    \/ \E t \in Threads : ThreadStep(t) /\ Meanwhile
    \/ \E p \in Processes :
          \/ Crash(p) /\ scan' = [scan EXCEPT ![p] = NoScan]
          \/ ScanBegin(p)
          \/ ScanRow(p)
          \/ ScanAnswer(p)

ScanSpec == ScanInit /\ [][ScanNext]_scanVars

-----------------------------------------------------------------------------
(* Properties *)

\* crash-semantics.md 4, for readers without the lock: /health, /ready and the CLI's
\* verify are told that the chain is broken only by a scan in whose course a
\* transaction was rolled back.  Batches and recoveries that begin, insert and commit
\* between two rows of it do no harm.
FalseOnlyAfterRollback ==
    \A p \in Processes :
        scan[p].pc = "answered" /\ ~Answer(p) => scan[p].undone

\* What it rests on: without a rollback the rows fetched are a beginning of the
\* ledger the connection sees.
RowsArePrefix(rows, ledger) ==
    /\ Len(rows) <= Len(ledger)
    /\ \A i \in DOMAIN rows : rows[i] = ledger[i]

ScanInv ==
    /\ scan \in [Processes -> Scan]
    /\ \A p \in Processes :
          /\ Fetching(p) /\ ~scan[p].undone => RowsArePrefix(scan[p].rows, View(p).ledger)
          /\ scan[p].pc = "answered" /\ ~scan[p].undone => Answer(p)
=============================================================================
