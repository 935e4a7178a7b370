--------------------------- MODULE MigrationsProofs ---------------------------
(***************************************************************************)
(* A recorded version is complete and an open backend is migrated, for any *)
(* number of processes, versions and statements, on either backend.        *)
(***************************************************************************)
EXTENDS Migrations, TLAPS

\* What a statement of the loop makes is a statement.
LEMMA CurrentType ==
    ASSUME TypeOK, NEW p \in Processes, AtStatement(p)
    PROVE  Current(p) \in Statement
<1> USE MigrationsAssumption
<1>1. CASE call[p].pc = "log"
  BY <1>1 DEF Current, Statement
<1>2. CASE Looping(p)
  <2>1. call[p].version \in 1..Latest /\ call[p].n \in 1..Creates + 1
    BY <1>2 DEF TypeOK, Call, Looping
  <2> QED
    BY <1>2, <2>1 DEF Current, Looping, Statement
<1> QED
  BY <1>1, <1>2 DEF AtStatement

\* Two sets that hold complete versions hold complete versions together.
LEMMA BuiltUnion ==
    ASSUME NEW S, NEW T, Built(S), Built(T)
    PROVE  Built(S \cup T)
BY DEF Built

\* So does one that gets something other than a version row.
LEMMA BuiltAdd ==
    ASSUME NEW S, NEW s, Built(S), s \notin Rows
    PROVE  Built(S \cup {s})
BY DEF Built, Rows

\* The row of a version goes last: with everything before it in place it may be
\* added.
LEMMA BuiltRow ==
    ASSUME NEW S, NEW v \in 1..Latest, Built(S), Latest \in Nat, Creates \in Nat,
           \A u \in 1..Latest : u < v => Made(u) \subseteq S,
           \A m \in 1..Creates + 1 : m < Creates + 1 => <<v, m>> \in S
    PROVE  Built(S \cup {Row(v)})
<1> SUFFICES ASSUME NEW w \in 1..Latest, Row(w) \in S \cup {Row(v)}, NEW u \in 1..w
             PROVE  Made(u) \subseteq S \cup {Row(v)}
  BY DEF Built
<1>1. CASE Row(w) \in S
  BY <1>1 DEF Built
<1>2. CASE w = v /\ u < v
  BY <1>2
<1>3. CASE w = v /\ u = v
  BY <1>3 DEF Made, Row
<1> QED
  BY <1>1, <1>2, <1>3 DEF Row

-----------------------------------------------------------------------------
(* The loop. *)

\* Going on to the next statement: what the loop has behind it is what it had, and
\* the statement just done.
LEMMA DoneInv ==
    ASSUME IInv, NEW p \in Processes, AtStatement(p), Done(p),
           Current(p) \in db' \cup txn'[p],
           db \cup txn[p] \subseteq db' \cup txn'[p], db \subseteq db',
           \A q \in Processes \ {p} : txn'[q] = txn[q]
    PROVE  LoopIsBuilt' /\ OpenIsMigrated'
<1> USE MigrationsAssumption
<1>1. \A q \in Processes \ {p} : call'[q] = call[q]
  BY DEF Done, IInv, TypeOK
<1>2. call'[p].pc # "open"
  BY DEF Done, Following, IInv, TypeOK, Call, AtStatement, Looping
<1>3. OpenIsMigrated'
  BY <1>1, <1>2 DEF IInv, OpenIsMigrated
<1>4. ASSUME NEW q \in Processes \ {p}, call'[q].pc = "apply"
      PROVE  /\ \A u \in 1..Latest : u < call'[q].version => Made(u) \subseteq db' \cup txn'[q]
             /\ \A m \in 1..Creates + 1 :
                   m < call'[q].n => <<call'[q].version, m>> \in db' \cup txn'[q]
  BY <1>1, <1>4 DEF IInv, LoopIsBuilt
<1>5. CASE call[p].pc = "log"
  <2>1. call'[p].pc = "read"
    BY <1>5 DEF Done, Following, IInv, TypeOK, Call
  <2> QED
    BY <1>3, <1>4, <2>1 DEF LoopIsBuilt
<1>6. CASE Looping(p)
  <2> DEFINE v == call[p].version
             n == call[p].n
             seen == db' \cup txn'[p]
  <2>1. /\ call[p].pc = "apply" /\ v \in 1..Latest /\ n \in 1..Creates + 1
        /\ Current(p) = <<v, n>>
    BY <1>6 DEF Looping, Current, IInv, TypeOK, Call
  <2>2. /\ \A u \in 1..Latest : u < v => Made(u) \subseteq seen
        /\ \A m \in 1..Creates + 1 : m <= n => <<v, m>> \in seen
    BY <2>1 DEF IInv, LoopIsBuilt
  <2>3. CASE n = Creates + 1
    <3>1. call'[p].version = v + 1 /\ call'[p].n = 1
      BY <2>1, <2>3 DEF Done, Following, IInv, TypeOK, Call
    <3>2. Made(v) \subseteq seen
      BY <2>2, <2>3 DEF Made
    <3> QED
      BY <1>3, <1>4, <2>1, <2>2, <3>1, <3>2 DEF LoopIsBuilt
  <2>4. CASE n # Creates + 1
    <3>1. call'[p].version = v /\ call'[p].n = n + 1
      BY <2>1, <2>4 DEF Done, Following, IInv, TypeOK, Call
    <3> QED
      BY <1>3, <1>4, <2>1, <2>2, <3>1 DEF LoopIsBuilt
  <2> QED
    BY <2>3, <2>4
<1> QED
  BY <1>5, <1>6 DEF AtStatement

\* The step keeps the locals in their types.
LEMMA DoneType ==
    ASSUME TypeOK, NEW p \in Processes, AtStatement(p), Done(p)
    PROVE  call' \in [Processes -> Call]
<1> USE MigrationsAssumption
<1> SUFFICES Following(call[p]) \in Call
  BY DEF Done, TypeOK
<1> DEFINE c == call[p]
<1>1. c \in Call
  BY DEF TypeOK
<1>2. CASE c.pc = "log"
  BY <1>1, <1>2 DEF Following, Call
<1>3. CASE Looping(p)
  <2>1. c.pc = "apply" /\ c.version + 1 \in 1..Latest + 1 /\ c.n \in 1..Creates + 1
    BY <1>1, <1>3 DEF Looping, Call
  <2>2. CASE c.n = Creates + 1
    <3>1. /\ Following(c) = [c EXCEPT !.version = c.version + 1, !.n = 1, !.waited = FALSE]
          /\ 1 \in 1..Creates + 1
      BY <2>1, <2>2 DEF Following
    <3> QED
      BY <1>1, <2>1, <3>1 DEF Call
  <2>3. CASE c.n # Creates + 1
    <3>1. /\ Following(c) = [c EXCEPT !.n = c.n + 1, !.waited = FALSE]
          /\ c.n + 1 \in 1..Creates + 1
      BY <2>1, <2>3 DEF Following
    <3> QED
      BY <1>1, <3>1 DEF Call
  <2> QED
    BY <2>2, <2>3
<1> QED
  BY <1>2, <1>3 DEF AtStatement

\* What process p adds to its transaction, or to the database, keeps versions
\* complete: either it is no version row, or the loop has built what it stands for.
LEMMA CurrentBuilt ==
    ASSUME IInv, NEW p \in Processes, AtStatement(p)
    PROVE  Built(db \cup txn[p] \cup {Current(p)})
<1> USE MigrationsAssumption
<1>0. Built(db \cup txn[p])
  BY DEF IInv, RecordedIsBuilt
<1>1. CASE Current(p) \notin Rows
  BY <1>0, <1>1, BuiltAdd
<1>2. CASE Current(p) \in Rows
  <2>1. /\ call[p].pc = "apply" /\ call[p].version \in 1..Latest
        /\ call[p].n = Creates + 1 /\ Current(p) = Row(call[p].version)
    BY <1>2 DEF AtStatement, Looping, Current, Rows, Row, VersionLog, IInv, TypeOK, Call
  <2>2. /\ \A u \in 1..Latest : u < call[p].version => Made(u) \subseteq db \cup txn[p]
        /\ \A m \in 1..Creates + 1 :
              m < Creates + 1 => <<call[p].version, m>> \in db \cup txn[p]
    BY <2>1 DEF IInv, LoopIsBuilt
  <2> QED
    BY <1>0, <2>1, <2>2, BuiltRow
<1> QED
  BY <1>1, <1>2
-----------------------------------------------------------------------------
(* One lemma per action, or per kind of action. *)

\* A step at which p does its statement: it is in the database or in p's
\* transaction afterwards, and nothing p saw is gone.
LEMMA StatementInv ==
    ASSUME IInv, NEW p \in Processes,
           ScriptCommits(p) \/ SqliteCreate(p) \/ SqliteInsert(p) \/ PostgresExecute(p)
    PROVE  IInv'
<1> USE MigrationsAssumption
<1>0. AtStatement(p) /\ Current(p) \in Statement
  BY CurrentType DEF IInv, ScriptCommits, SqliteCreate, SqliteInsert, PostgresExecute
<1>8. /\ Built(db)
      /\ \A q \in Processes : Built(db \cup txn[q])
      /\ Built(db \cup txn[p] \cup {Current(p)})
  BY <1>0, CurrentBuilt DEF IInv, RecordedIsBuilt
<1>1. CASE ScriptCommits(p)
  <2>1. db' = db \cup txn[p] /\ txn' = [txn EXCEPT ![p] = {}] /\ UNCHANGED <<backend, call, faults>>
    BY <1>1 DEF ScriptCommits, Commit
  <2>2. TypeOK'
    BY <2>1 DEF IInv, TypeOK
  <2>3. RecordedIsBuilt'
    <3>1. ASSUME NEW q \in Processes
          PROVE  Built(db' \cup txn'[q])
      <4>1. Built((db \cup txn[p]) \cup (db \cup txn[q]))
        BY <1>8, BuiltUnion
      <4>2. txn'[q] = IF q = p THEN {} ELSE txn[q]
        BY <2>1 DEF IInv, TypeOK
      <4>3. CASE q = p
        <5>1. db' \cup txn'[q] = db \cup txn[p]
          BY <2>1, <4>2, <4>3
        <5> QED
          BY <5>1, <1>8
      <4>4. CASE q # p
        <5>1. db' \cup txn'[q] = (db \cup txn[p]) \cup (db \cup txn[q])
          BY <2>1, <4>2, <4>4
        <5> QED
          BY <5>1, <4>1
      <4> QED
        BY <4>3, <4>4
    <3> QED
      BY <3>1, <1>8, <2>1 DEF RecordedIsBuilt
  <2>4. \A q \in Processes : db \cup txn[q] \subseteq db' \cup txn'[q]
    BY <2>1 DEF IInv, TypeOK
  <2>5. LoopIsBuilt' /\ OpenIsMigrated'
    BY <2>1, <2>4 DEF IInv, LoopIsBuilt, OpenIsMigrated
  <2> QED
    BY <2>2, <2>3, <2>5 DEF IInv
<1>2. CASE SqliteCreate(p)
  <2>1. /\ db' = db \cup {Current(p)} /\ UNCHANGED <<backend, txn, faults>>
        /\ Current(p) \notin Rows /\ Done(p)
    BY <1>2 DEF SqliteCreate
  <2>2. TypeOK'
    BY <1>0, <2>1, DoneType DEF IInv, TypeOK
  <2>3. RecordedIsBuilt'
    <3>1. Built(db')
      BY <1>8, <2>1, BuiltAdd
    <3>2. ASSUME NEW q \in Processes
          PROVE  Built(db' \cup txn'[q])
      <4>1. Built((db \cup txn[q]) \cup {Current(p)})
        BY <1>8, <2>1, BuiltAdd
      <4>2. db' \cup txn'[q] = (db \cup txn[q]) \cup {Current(p)}
        BY <2>1
      <4> QED
        BY <4>1, <4>2
    <3> QED
      BY <3>1, <3>2 DEF RecordedIsBuilt
  <2>4. LoopIsBuilt' /\ OpenIsMigrated'
    BY <1>0, <2>1, DoneInv
  <2> QED
    BY <2>2, <2>3, <2>4 DEF IInv
<1>3. ASSUME txn' = [txn EXCEPT ![p] = @ \cup {Current(p)}], UNCHANGED <<backend, db, faults>>,
             Done(p)
      PROVE  IInv'
  <2>1. \A q \in Processes : txn'[q] = IF q = p THEN txn[p] \cup {Current(p)} ELSE txn[q]
    BY <1>3 DEF IInv, TypeOK
  <2>2. TypeOK'
    BY <1>0, <1>3, DoneType DEF IInv, TypeOK
  <2>3. RecordedIsBuilt'
    <3>1. db' \cup txn'[p] = db \cup txn[p] \cup {Current(p)}
      BY <1>3, <2>1
    <3>2. \A q \in Processes \ {p} : db' \cup txn'[q] = db \cup txn[q]
      BY <1>3, <2>1
    <3> QED
      BY <1>8, <1>3, <3>1, <3>2 DEF RecordedIsBuilt
  <2>4. LoopIsBuilt' /\ OpenIsMigrated'
    <3>1. /\ Current(p) \in db' \cup txn'[p]
          /\ db \cup txn[p] \subseteq db' \cup txn'[p]
      BY <1>3, <2>1
    <3> QED
      BY <1>0, <1>3, <2>1, <3>1, DoneInv
  <2> QED
    BY <2>2, <2>3, <2>4 DEF IInv
<1>4. CASE SqliteInsert(p)
  BY <1>3, <1>4 DEF SqliteInsert
<1>5. CASE PostgresExecute(p) /\ Current(p) \notin db
  BY <1>3, <1>5 DEF PostgresExecute
<1>6. CASE PostgresExecute(p) /\ Current(p) \in db
  <2>1. UNCHANGED <<backend, db, txn, faults>> /\ Done(p) /\ Current(p) \in db
    BY <1>6 DEF PostgresExecute
  <2>2. TypeOK'
    BY <1>0, <2>1, DoneType DEF IInv, TypeOK
  <2>3. RecordedIsBuilt'
    BY <2>1 DEF IInv, RecordedIsBuilt
  <2>4. LoopIsBuilt' /\ OpenIsMigrated'
    BY <1>0, <2>1, DoneInv
  <2> QED
    BY <2>2, <2>3, <2>4 DEF IInv
<1> QED
  BY <1>1, <1>2, <1>4, <1>5, <1>6

\* An exception, a failed statement or a crash gives up p's transaction only.
LEMMA RaiseInv ==
    ASSUME IInv, NEW p \in Processes,
           BusyTimeout(p) \/ AlreadyThere(p) \/ Fails(p)
    PROVE  IInv'
<1> USE MigrationsAssumption
<1>1. /\ UNCHANGED <<backend, db>>
      /\ txn' = [txn EXCEPT ![p] = {}] /\ call' = [call EXCEPT ![p] = Closed]
      /\ faults' \in 0..MaxFaults
  BY DEF BusyTimeout, AlreadyThere, Fails, Raise, IInv, TypeOK
<1>2. /\ \A q \in Processes \ {p} : txn'[q] = txn[q] /\ call'[q] = call[q]
      /\ txn'[p] = {} /\ call'[p] = Closed
  BY <1>1 DEF IInv, TypeOK
<1>3. Closed \in Call
  BY DEF At, Closed, Call
<1>4. TypeOK'
  BY <1>1, <1>3 DEF IInv, TypeOK
<1>5. RecordedIsBuilt'
  <2>1. db' \cup txn'[p] = db
    BY <1>1, <1>2
  <2> QED
    BY <1>1, <1>2, <2>1 DEF IInv, RecordedIsBuilt
<1>6. LoopIsBuilt' /\ OpenIsMigrated'
  BY <1>1, <1>2 DEF At, Closed, IInv, LoopIsBuilt, OpenIsMigrated
<1> QED
  BY <1>4, <1>5, <1>6 DEF IInv

\* Reading the highest version: everything up to it is built.
LEMMA ReadInv ==
    ASSUME IInv, NEW p \in Processes, ReadVersion(p)
    PROVE  IInv'
<1> USE MigrationsAssumption
<1>1. PICK current \in Versions(p) \cup {0} :
          call' = [call EXCEPT ![p] = At("apply", current + 1)]
  BY DEF ReadVersion
<1>2. UNCHANGED <<backend, db, txn, faults>> /\ call[p].pc = "read"
  BY DEF ReadVersion
<1>3. current \in 0..Latest
  BY DEF Versions
<1>9. current + 1 \in 1..Latest + 1 /\ 1 \in 1..Creates + 1
  BY <1>3
<1>8. /\ \A q \in Processes \ {p} : call'[q] = call[q]
      /\ call'[p] = At("apply", current + 1)
  BY <1>1 DEF IInv, TypeOK
<1>4. TypeOK'
  BY <1>1, <1>2, <1>9 DEF At, IInv, TypeOK, Call
<1>5. RecordedIsBuilt' /\ OpenIsMigrated'
  BY <1>2, <1>8 DEF At, IInv, RecordedIsBuilt, OpenIsMigrated
<1>6. ASSUME NEW u \in 1..Latest, u < current + 1
      PROVE  Made(u) \subseteq db \cup txn[p]
  <2>1. current \in 1..Latest /\ Row(current) \in db \cup txn[p] /\ u \in 1..current
    BY <1>3, <1>6 DEF Versions
  <2> QED
    BY <2>1 DEF IInv, RecordedIsBuilt, Built
<1>7. LoopIsBuilt'
  BY <1>2, <1>6, <1>8 DEF At, IInv, LoopIsBuilt
<1> QED
  BY <1>4, <1>5, <1>7 DEF IInv

\* At the end of the loop every version is built, and the commit makes it durable.
LEMMA FinishInv ==
    ASSUME IInv, NEW p \in Processes, Finish(p)
    PROVE  IInv'
<1> USE MigrationsAssumption
<1>1. /\ db' = db \cup txn[p] /\ txn' = [txn EXCEPT ![p] = {}]
      /\ call' = [call EXCEPT ![p].pc = "open"] /\ UNCHANGED <<backend, faults>>
  BY DEF Finish, Commit
<1>2. \A u \in 1..Latest : Made(u) \subseteq db'
  <2>1. call[p].pc = "apply" /\ call[p].version = Latest + 1
    BY DEF Finish, Looping, IInv, TypeOK, Call
  <2> QED
    BY <1>1, <2>1 DEF IInv, LoopIsBuilt
<1>3. TypeOK'
  BY <1>1 DEF IInv, TypeOK, Call
<1>4. Built(db') /\ \A q \in Processes : Built(db' \cup txn'[q])
  BY <1>2 DEF Built
<1>5. \A q \in Processes \ {p} : call'[q] = call[q] /\ txn'[q] = txn[q]
  BY <1>1 DEF IInv, TypeOK
<1>6. call'[p].pc = "open"
  BY <1>1 DEF IInv, TypeOK, Call
<1>7. LoopIsBuilt' /\ OpenIsMigrated'
  BY <1>1, <1>2, <1>5, <1>6 DEF IInv, LoopIsBuilt, OpenIsMigrated
<1> QED
  BY <1>3, <1>4, <1>7 DEF IInv, RecordedIsBuilt

\* Opening, closing and waiting change the call alone, and leave it outside the
\* loop or at its statement.
LEMMA CallInv ==
    ASSUME IInv, NEW p \in Processes, Open(p) \/ Close(p) \/ PostgresWaits(p)
    PROVE  IInv'
<1> USE MigrationsAssumption
<1>1. UNCHANGED <<backend, db, txn, faults>>
  BY DEF Open, Close, PostgresWaits
<1>2. CASE Open(p)
  <2>1. call' = [call EXCEPT ![p] = At("log", 1)]
    BY <1>2 DEF Open
  <2>2. At("log", 1) \in Call /\ At("log", 1).pc = "log"
    BY DEF At, Call
  <2> QED
    BY <1>1, <2>1, <2>2 DEF IInv, TypeOK, RecordedIsBuilt, LoopIsBuilt, OpenIsMigrated
<1>3. CASE Close(p)
  <2>1. call' = [call EXCEPT ![p] = Closed]
    BY <1>3 DEF Close
  <2>2. Closed \in Call /\ Closed.pc = "closed"
    BY DEF At, Closed, Call
  <2> QED
    BY <1>1, <2>1, <2>2 DEF IInv, TypeOK, RecordedIsBuilt, LoopIsBuilt, OpenIsMigrated
<1>4. CASE PostgresWaits(p)
  <2>1. call' = [call EXCEPT ![p].waited = TRUE]
    BY <1>4 DEF PostgresWaits
  <2>2. TypeOK'
    BY <1>1, <2>1 DEF IInv, TypeOK, Call
  <2>3. \A q \in Processes : /\ call'[q].pc = call[q].pc
                             /\ call'[q].version = call[q].version
                             /\ call'[q].n = call[q].n
    BY <2>1 DEF IInv, TypeOK, Call
  <2> QED
    BY <1>1, <2>2, <2>3 DEF IInv, RecordedIsBuilt, LoopIsBuilt, OpenIsMigrated
<1> QED
  BY <1>2, <1>3, <1>4

-----------------------------------------------------------------------------
(* The theorems. *)

\* A database of any earlier release satisfies the invariant.
LEMMA InitInv == Init => IInv
<1> SUFFICES ASSUME Init PROVE IInv
  OBVIOUS
<1> USE MigrationsAssumption
<1>1. PICK version \in 0..Latest : db = MigratedTo(version)
  BY DEF Init
<1>2. \A v \in 1..Latest : Made(v) \subseteq Statement
  BY DEF Made, Statement
<1>3. db \subseteq Statement
  BY <1>1, <1>2 DEF MigratedTo, Statement
<1>4. Closed \in Call /\ Closed.pc = "closed"
  BY DEF At, Closed, Call
<1>5. TypeOK
  BY <1>3, <1>4 DEF Init, TypeOK
<1>6. Built(db)
  <2> SUFFICES ASSUME NEW v \in 1..Latest, Row(v) \in db, NEW u \in 1..v
               PROVE  Made(u) \subseteq db
    BY DEF Built
  <2>1. version # 0 /\ v \in 1..version
    BY <1>1 DEF MigratedTo, Made, Row, VersionLog
  <2> QED
    BY <1>1, <2>1 DEF MigratedTo
<1>7. RecordedIsBuilt
  <2>1. \A p \in Processes : db \cup txn[p] = db
    BY DEF Init
  <2> QED
    BY <1>6, <2>1 DEF RecordedIsBuilt
<1> QED
  BY <1>4, <1>5, <1>7 DEF Init, IInv, LoopIsBuilt, OpenIsMigrated

\* The inductive invariant, for any number of processes and versions.
THEOREM Invariant == Spec => []IInv
<1>1. IInv /\ [Next]_vars => IInv'
  <2> SUFFICES ASSUME IInv, [Next]_vars PROVE IInv'
    OBVIOUS
  <2>1. ASSUME NEW p \in Processes, Open(p) \/ Close(p)
        PROVE  IInv'
    BY <2>1, CallInv
  <2>2. ASSUME NEW p \in Processes, Step(p)
        PROVE  IInv'
    BY <2>2, StatementInv, RaiseInv, CallInv, ReadInv, FinishInv DEF Step
  <2>3. ASSUME NEW p \in Processes, Fails(p)
        PROVE  IInv'
    BY <2>3, RaiseInv
  <2>4. CASE UNCHANGED vars
    BY <2>4 DEF vars, IInv, TypeOK, RecordedIsBuilt, LoopIsBuilt, OpenIsMigrated
  <2> QED
    BY <2>1, <2>2, <2>3, <2>4 DEF Next
<1> QED
  BY InitInv, <1>1, PTL DEF Spec

\* The database, the transactions and the calls keep their types.
THEOREM TypeCorrect == Spec => []TypeOK
<1>1. IInv => TypeOK
  BY DEF IInv
<1> QED
  BY <1>1, Invariant, PTL

\* No race and no interrupted script leaves a version recorded without its tables.
THEOREM RecordedAlwaysBuilt == Spec => []RecordedIsBuilt
<1>1. IInv => RecordedIsBuilt
  BY DEF IInv
<1> QED
  BY <1>1, Invariant, PTL

\* A backend that is open has the latest schema.
THEOREM OpenAlwaysMigrated == Spec => []OpenIsMigrated
<1>1. IInv => OpenIsMigrated
  BY DEF IInv
<1> QED
  BY <1>1, Invariant, PTL
=============================================================================
