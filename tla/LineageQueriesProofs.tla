------------------------- MODULE LineageQueriesProofs -------------------------
(***************************************************************************)
(* For any writers, queries, lineage events, crashes and failing calls: a  *)
(* field_impact lists whatever durable mappings lead to, all of it in      *)
(* datasets downstream of the one asked for; and a dataset_impact has      *)
(* every dataset that durable mappings lead to or come from.  First that   *)
(* the rounds of Behind, as many as there are steps, reach a fixpoint.     *)
(***************************************************************************)
EXTENDS LineageQueries, VaultTablesProofs

-----------------------------------------------------------------------------
(* What steps lead to. *)

\* A function makes a finite set of a finite set.
LEMMA FiniteImage ==
    ASSUME NEW S, IsFiniteSet(S), NEW g, DOMAIN g = S
    PROVE  IsFiniteSet({g[x] : x \in S})
<1> DEFINE T == {g[x] : x \in S}
           h == [x \in S |-> g[x]]
<1>1. h \in Surjection(S, T)
  BY DEF Surjection
<1> HIDE DEF T, h
<1>2. IsFiniteSet(T)
  BY <1>1, FS_Surjection
<1> QED
  BY <1>2 DEF T

\* One step from `near'.
OneStep(steps, near) == {p[2] : p \in {q \in steps : q[1] \in near}}

\* After one step, and after each that follows.
LEMMA BehindUnfolds ==
    ASSUME NEW steps, IsFiniteSet(steps), NEW from
    PROVE  \E g : /\ g[0] = OneStep(steps, {from})
                  /\ \A n \in 1..Cardinality(steps) : g[n] = g[n - 1] \cup OneStep(steps, g[n - 1])
                  /\ \A n \in 0..Cardinality(steps) : g[n] \subseteq {p[2] : p \in steps}
                  /\ Behind(steps, from) = g[Cardinality(steps)]
<1> DEFINE N == Cardinality(steps)
           S == SUBSET {p[2] : p \in steps}
           x0 == OneStep(steps, {from})
           step == [n \in 1..N |-> [s \in S |-> s \cup OneStep(steps, s)]]
<1>1. N \in Nat
  BY FS_CardinalityType
<1>2. x0 \in S /\ \A s \in S : s \cup OneStep(steps, s) \in S
  BY DEF OneStep
<1> HIDE DEF N, S, x0
<1>3. PICK f : Iterates(f, S, x0, N, step)
  <2>1. step \in [1..N -> [S -> S]]
    BY <1>2
  <2> HIDE DEF step
  <2> QED
    BY <1>1, <1>2, <2>1, Recursion
<1>4. /\ f \in [0..N -> S] /\ f[0] = x0
      /\ \A n \in 1..N : f[n] = step[n][f[n - 1]]
  BY <1>3 DEF Iterates
<1>5. \A n \in 1..N : f[n] = f[n - 1] \cup OneStep(steps, f[n - 1])
  <2>1. \A n \in 1..N : f[n - 1] \in S
    BY <1>1, <1>4
  <2> QED
    BY <1>4, <2>1
<1> HIDE DEF step
<1> DEFINE After[n \in 0..Cardinality(steps)] ==
              LET near == IF n = 0 THEN {from} ELSE After[n - 1]
                  next == {p[2] : p \in {q \in steps : q[1] \in near}}
              IN  IF n = 0 THEN next ELSE near \cup next
           Value(n, g) == IF n = 0 THEN OneStep(steps, {from})
                          ELSE g[n - 1] \cup OneStep(steps, g[n - 1])
           IsAfter(g) == g = [n \in 0..N |->
              LET near == IF n = 0 THEN {from} ELSE g[n - 1]
                  next == {p[2] : p \in {q \in steps : q[1] \in near}}
              IN  IF n = 0 THEN next ELSE near \cup next]
<1>6. Behind(steps, from) = After[N]
  BY DEF Behind, N
<1>7. \A g : IsAfter(g) <=> g = [n \in 0..N |-> Value(n, g)]
  BY DEF OneStep
<1>8. IsAfter(After)
  <2>1. IsAfter(f)
    <3>1. f = [n \in 0..N |-> f[n]]
      BY <1>4
    <3>2. \A n \in 0..N : f[n] = Value(n, f)
      <4> TAKE n \in 0..N
      <4>1. n # 0 => n \in 1..N
        BY <1>1
      <4> QED
        BY <1>4, <1>5, <4>1 DEF x0
    <3> HIDE DEF IsAfter, Value
    <3> QED
      BY <1>7, <3>1, <3>2
  <2>2. After = CHOOSE g : IsAfter(g)
    BY DEF N
  <2> HIDE DEF IsAfter, After
  <2> QED
    BY <2>1, <2>2
<1> HIDE DEF After, IsAfter
<1>9. After = [n \in 0..N |-> Value(n, After)]
  <2> HIDE DEF Value
  <2> QED
    BY <1>7, <1>8
<1>10. /\ After[0] = OneStep(steps, {from})
       /\ \A n \in 1..N : After[n] = After[n - 1] \cup OneStep(steps, After[n - 1])
  <2>1. \A n \in 0..N : After[n] = Value(n, After)
    BY <1>9
  <2>2. 0 \in 0..N /\ \A n \in 1..N : n \in 0..N /\ n # 0
    BY <1>1
  <2> QED
    BY <2>1, <2>2
<1> DEFINE Good == {n \in Nat : n <= N => After[n] \in S}
<1>11. 0 \in Good
  BY <1>2, <1>10 DEF x0
<1>12. \A n \in Nat : n \in Good => n + 1 \in Good
  <2> SUFFICES ASSUME NEW n \in Nat, n \in Good, n + 1 <= N
               PROVE  After[n + 1] \in S
    OBVIOUS
  <2>1. n + 1 \in 1..N /\ (n + 1) - 1 = n /\ n <= N
    BY <1>1
  <2>2. After[n + 1] = After[n] \cup OneStep(steps, After[n])
    BY <1>10, <2>1
  <2> QED
    BY <1>2, <2>1, <2>2
<1>13. Nat \subseteq Good
  <2> HIDE DEF Good
  <2> QED
    BY <1>11, <1>12, SetInduction
<1>14. \A n \in 0..N : After[n] \subseteq {p[2] : p \in steps}
  BY <1>1, <1>13 DEF S
<1> QED
  BY <1>6, <1>10, <1>14 DEF N

\* Nothing is behind but what every closed set has.
LEMMA BehindLeast ==
    ASSUME NEW steps, IsFiniteSet(steps), NEW from, NEW X,
           \A p \in steps : p[1] = from \/ p[1] \in X => p[2] \in X
    PROVE  Behind(steps, from) \subseteq X
<1> DEFINE N == Cardinality(steps)
<1>1. N \in Nat
  BY FS_CardinalityType
<1>2. PICK g : /\ g[0] = OneStep(steps, {from})
               /\ \A n \in 1..N : g[n] = g[n - 1] \cup OneStep(steps, g[n - 1])
               /\ Behind(steps, from) = g[N]
  BY BehindUnfolds
<1> HIDE DEF N
<1> DEFINE Good == {n \in Nat : n <= N => g[n] \subseteq X}
<1>3. 0 \in Good
  BY <1>2 DEF OneStep
<1>4. \A n \in Nat : n \in Good => n + 1 \in Good
  <2> SUFFICES ASSUME NEW n \in Nat, n \in Good, n + 1 <= N
               PROVE  g[n + 1] \subseteq X
    OBVIOUS
  <2>1. n + 1 \in 1..N /\ (n + 1) - 1 = n /\ n <= N
    BY <1>1
  <2>2. g[n + 1] = g[n] \cup OneStep(steps, g[n])
    BY <1>2, <2>1
  <2> QED
    BY <2>1, <2>2 DEF OneStep
<1>5. Nat \subseteq Good
  <2> HIDE DEF Good
  <2> QED
    BY <1>3, <1>4, SetInduction
<1> QED
  BY <1>1, <1>2, <1>5

\* As many rounds as there are steps are enough: a round that finds anything new uses
\* a step that no earlier one used.
LEMMA BehindClosed ==
    ASSUME NEW steps, IsFiniteSet(steps), NEW from
    PROVE  \A p \in steps : p[1] = from \/ p[1] \in Behind(steps, from)
                                => p[2] \in Behind(steps, from)
<1> DEFINE N == Cardinality(steps)
<1>1. N \in Nat
  BY FS_CardinalityType
<1>2. PICK g : /\ g[0] = OneStep(steps, {from})
               /\ \A n \in 1..N : g[n] = g[n - 1] \cup OneStep(steps, g[n - 1])
               /\ Behind(steps, from) = g[N]
  BY BehindUnfolds
<1> DEFINE Used(n) == {p \in steps : p[2] \in g[n]}
           Closed(n) == \A p \in steps : p[1] \in g[n] => p[2] \in g[n]
           Good == {n \in Nat : n <= N => /\ \A p \in steps : p[1] = from => p[2] \in g[n]
                                          /\ Closed(n) \/ n < Cardinality(Used(n))}
<1>3. \A n : IsFiniteSet(Used(n)) /\ Cardinality(Used(n)) \in Nat /\ Cardinality(Used(n)) <= N
  BY FS_Subset, FS_CardinalityType
<1> HIDE DEF N
<1>4. 0 \in Good
  <2>1. \A p \in steps : p[1] = from => p[2] \in g[0]
    BY <1>2 DEF OneStep
  <2>2. CASE \E p \in steps : p[1] = from
    <3>1. Used(0) # {}
      BY <2>1, <2>2
    <3>2. Cardinality(Used(0)) \in Nat /\ Cardinality(Used(0)) # 0
      BY <1>3, <3>1, FS_EmptySet
    <3>3. 0 < Cardinality(Used(0))
      <4> HIDE DEF Used
      <4> QED
        BY <3>2
    <3> QED
      BY <2>1, <3>3
  <2>3. CASE ~\E p \in steps : p[1] = from
    BY <1>2, <2>1, <2>3 DEF OneStep
  <2> QED
    BY <2>2, <2>3
<1>5. \A n \in Nat : n \in Good => n + 1 \in Good
  <2> SUFFICES ASSUME NEW n \in Nat, n \in Good, n + 1 <= N
               PROVE  /\ \A p \in steps : p[1] = from => p[2] \in g[n + 1]
                      /\ Closed(n + 1) \/ n + 1 < Cardinality(Used(n + 1))
    <3> HIDE DEF Used, Closed
    <3> QED
      OBVIOUS
  <2>1. n + 1 \in 1..N /\ (n + 1) - 1 = n /\ n <= N
    BY <1>1
  <2>2. g[n + 1] = g[n] \cup OneStep(steps, g[n])
    BY <1>2, <2>1
  <2>3. \A p \in steps : p[1] = from => p[2] \in g[n + 1]
    BY <2>1, <2>2
  <2>4. CASE Closed(n)
    <3>1. OneStep(steps, g[n]) \subseteq g[n]
      BY <2>4 DEF OneStep
    <3>2. g[n + 1] = g[n]
      BY <2>2, <3>1
    <3> QED
      BY <2>3, <2>4, <3>2
  <2>5. CASE ~Closed(n)
    <3>1. PICK p \in steps : p[1] \in g[n] /\ p[2] \notin g[n]
      BY <2>5
    <3>2. p[2] \in g[n + 1]
      BY <2>2, <3>1 DEF OneStep
    <3>3. n < Cardinality(Used(n))
      BY <2>1, <2>5
    <3> DEFINE U == Used(n)
               V == Used(n + 1)
    <3>4. U \subseteq V /\ p \in V /\ p \notin U
      BY <2>2, <3>1, <3>2
    <3>5. /\ IsFiniteSet(V) /\ Cardinality(V) \in Nat /\ Cardinality(U) \in Nat
          /\ n < Cardinality(U)
      BY <1>3, <3>3
    <3> HIDE DEF U, V
    <3>6. Cardinality(U) <= Cardinality(V) /\ Cardinality(U) # Cardinality(V)
      BY <3>4, <3>5, FS_Subset
    <3>7. n + 1 < Cardinality(V)
      BY <3>5, <3>6
    <3> QED
      BY <2>3, <3>7 DEF V
  <2> QED
    BY <2>4, <2>5
<1>6. Nat \subseteq Good
  <2> HIDE DEF Good
  <2> QED
    BY <1>4, <1>5, SetInduction
<1>7. /\ \A p \in steps : p[1] = from => p[2] \in g[N]
      /\ Closed(N) \/ N < Cardinality(Used(N))
  BY <1>1, <1>6
<1>8. Closed(N)
  <2>1. Cardinality(Used(N)) \in Nat /\ Cardinality(Used(N)) <= N
    BY <1>3
  <2> HIDE DEF Used, Closed
  <2> QED
    BY <1>1, <1>7, <2>1
<1> QED
  BY <1>2, <1>7, <1>8

\* With more steps one gets further.
LEMMA BehindGrows ==
    ASSUME NEW old, NEW new, IsFiniteSet(new), old \subseteq new, NEW from
    PROVE  Behind(old, from) \subseteq Behind(new, from)
<1>1. IsFiniteSet(old)
  BY FS_Subset
<1> DEFINE X == Behind(new, from)
<1>2. \A p \in old : p[1] = from \/ p[1] \in X => p[2] \in X
  BY BehindClosed
<1> HIDE DEF X
<1>3. Behind(old, from) \subseteq X
  BY <1>1, <1>2, BehindLeast
<1> QED
  BY <1>3 DEF X

-----------------------------------------------------------------------------
(* Tables and calls *)

\* A sequence has finitely many elements.
LEMMA ToSetFinite ==
    ASSUME NEW S, NEW s \in Seq(S)
    PROVE  IsFiniteSet(ToSet(s)) /\ ToSet(s) \subseteq S
<1>1. Len(s) \in Nat /\ DOMAIN s = 1..Len(s)
  OBVIOUS
<1>2. IsFiniteSet(DOMAIN s)
  BY <1>1, FS_Interval
<1>3. IsFiniteSet({s[i] : i \in DOMAIN s})
  BY <1>2, FiniteImage
<1> QED
  BY <1>3 DEF ToSet

\* What the rows of the two tables say, and that finitely many rows say finitely much.
LEMMA EdgesFacts ==
    ASSUME NEW S \in SUBSET Row
    PROVE  /\ Edges(S) \subseteq Dataset \X Dataset
           /\ DatasetSteps(S) \subseteq Dataset \X Dataset
           /\ FieldSteps(S) \subseteq LineageField \X LineageField
           /\ IsFiniteSet(S) => /\ IsFiniteSet(Edges(S)) /\ IsFiniteSet(DatasetSteps(S))
                                /\ IsFiniteSet(FieldSteps(S))
<1>1. \A r \in S : r[2] \in TableRow
  BY DEF Row
<1>2. \A r \in S : r[2].table = "dataset_edges" => r[2].src \in Dataset /\ r[2].dst \in Dataset
  BY <1>1 DEF TableRow
<1>3. \A r \in S : r[2].table = "field_mappings" =>
         /\ Input(r) \in LineageField /\ Output(r) \in LineageField
         /\ Input(r)[1] \in Dataset /\ Output(r)[1] \in Dataset
  BY <1>1 DEF TableRow, Input, Output, LineageField
<1> DEFINE E == {r \in S : r[2].table = "dataset_edges"}
           M == {r \in S : r[2].table = "field_mappings"}
           edge == [r \in E |-> <<r[2].src, r[2].dst>>]
           dstep == [r \in M |-> <<Input(r)[1], Output(r)[1]>>]
           fstep == [r \in M |-> <<Input(r), Output(r)>>]
<1>4. Edges(S) = {edge[r] : r \in E}
  BY DEF Edges
<1>5. DatasetSteps(S) = {dstep[r] : r \in M}
  BY DEF DatasetSteps, Mappings
<1>6. FieldSteps(S) = {fstep[r] : r \in M}
  BY DEF FieldSteps, Mappings
<1>7. ASSUME IsFiniteSet(S)
      PROVE  /\ IsFiniteSet(Edges(S)) /\ IsFiniteSet(DatasetSteps(S))
             /\ IsFiniteSet(FieldSteps(S))
  <2>1. E \in SUBSET S /\ M \in SUBSET S
        /\ DOMAIN edge = E /\ DOMAIN dstep = M /\ DOMAIN fstep = M
    OBVIOUS
  <2> HIDE DEF E, M, edge, dstep, fstep
  <2>2. IsFiniteSet(E) /\ IsFiniteSet(M)
    BY <1>7, <2>1, FS_Subset
  <2>3. IsFiniteSet({edge[r] : r \in E}) /\ IsFiniteSet({dstep[r] : r \in M})
        /\ IsFiniteSet({fstep[r] : r \in M})
    BY <2>1, <2>2, FiniteImage
  <2> QED
    BY <1>4, <1>5, <1>6, <2>3
<1>8. /\ \A r \in E : edge[r] \in Dataset \X Dataset
      /\ \A r \in M : dstep[r] \in Dataset \X Dataset
      /\ \A r \in M : fstep[r] \in LineageField \X LineageField
  BY <1>2, <1>3
<1>9. /\ Edges(S) \subseteq Dataset \X Dataset
      /\ DatasetSteps(S) \subseteq Dataset \X Dataset
      /\ FieldSteps(S) \subseteq LineageField \X LineageField
  <2> HIDE DEF E, M, edge, dstep, fstep
  <2> QED
    BY <1>4, <1>5, <1>6, <1>8
<1> QED
  BY <1>7, <1>9

\* The rows of the call that a writer record `c' is in.
RowsOf(c) == [n \in DOMAIN Head(c.todo) |-> <<c.event, Head(c.todo)[n]>>]

\* CallsHold of one writer record.
CallHolds(c, committed, g) ==
    /\ c.todo # << >> /\ c.done = Len(RowsOf(c)) + 1 => ToSet(RowsOf(c)) \subseteq committed
    /\ Follows(g, c.todo)

\* CallsHold, record by record.
LEMMA CallsHoldParts ==
    CallsHold <=> \A w \in Writers : CallHolds(writer[w], durable, graph)
<1>1. \A w \in Writers : CallRows(w) = RowsOf(writer[w])
  BY DEF CallRows, RowsOf
<1> QED
  BY <1>1 DEF CallsHold, CallHolds, Committed

\* A call loses nothing when others commit and add edges.
LEMMA CallHoldsGrows ==
    ASSUME NEW c, NEW d, NEW d2, NEW g, NEW g2, CallHolds(c, d, g), d \subseteq d2, g \subseteq g2
    PROVE  CallHolds(c, d2, g2)
BY DEF CallHolds, Follows

\* The rows of a call in progress, and what they are allowed to say.
LEMMA RowsOfFacts ==
    ASSUME NEW c \in Writer, c.todo # << >>
    PROVE  /\ RowsOf(c) \in Seq(Row)
           /\ Len(RowsOf(c)) \in Nat
           /\ Head(c.todo) \in Seq(TableRow) /\ Tail(c.todo) \in Seq(Seq(TableRow))
           /\ \A x \in ToSet(RowsOf(c)) : x[2] \in ToSet(Head(c.todo))
           /\ \A r \in ToSet(Head(c.todo)) : \E x \in ToSet(RowsOf(c)) : x[2] = r
           /\ IsFiniteSet(ToSet(RowsOf(c))) /\ ToSet(RowsOf(c)) \subseteq Row
           /\ \A d, g : CallHolds(c, d, g) => DatasetSteps(ToSet(RowsOf(c))) \subseteq g
<1> DEFINE call == Head(c.todo)
           rs == RowsOf(c)
<1>1. c.todo \in Seq(Seq(TableRow)) /\ c.event \in Events
  BY DEF Writer
<1>2. call \in Seq(TableRow) /\ Tail(c.todo) \in Seq(Seq(TableRow))
      /\ 1 \in DOMAIN c.todo /\ c.todo[1] = call
  BY <1>1
<1>3. rs = [n \in DOMAIN call |-> <<c.event, call[n]>>]
  BY DEF RowsOf
<1>4. DOMAIN rs = DOMAIN call /\ rs = [n \in DOMAIN call |-> rs[n]]
      /\ \A n \in DOMAIN call : rs[n] = <<c.event, call[n]>>
  BY <1>3
<1> HIDE DEF call, rs
<1>5. ASSUME NEW n \in DOMAIN call
      PROVE  rs[n] \in Row /\ rs[n][2] = call[n]
  <2>1. call[n] \in TableRow
    BY <1>2
  <2>2. rs[n] = <<c.event, call[n]>>
    BY <1>4
  <2> QED
    BY <1>1, <2>1, <2>2 DEF Row
<1>6. rs \in Seq(Row)
  BY <1>2, <1>4, <1>5, MappedSeq
<1>7. Len(rs) \in Nat /\ IsFiniteSet(ToSet(rs)) /\ ToSet(rs) \subseteq Row
  BY <1>6, ToSetFinite
<1>8. /\ \A x \in ToSet(rs) : x[2] \in ToSet(call)
      /\ \A r \in ToSet(call) : \E x \in ToSet(rs) : x[2] = r
  BY <1>4, <1>5 DEF ToSet
<1>9. ASSUME NEW d, NEW g, CallHolds(c, d, g), NEW x \in ToSet(rs), x[2].table = "field_mappings"
      PROVE  <<Input(x)[1], Output(x)[1]>> \in g
  <2>1. x[2] \in ToSet(c.todo[1])
    BY <1>2, <1>8
  <2>2. \/ <<x[2].input_dataset, x[2].output_dataset>> \in g
        \/ \E i \in 1..(1 - 1) : TRUE
    BY <1>2, <1>9, <2>1 DEF CallHolds, Follows
  <2>3. <<x[2].input_dataset, x[2].output_dataset>> \in g
    BY <2>2
  <2>4. Input(x)[1] = x[2].input_dataset /\ Output(x)[1] = x[2].output_dataset
    BY DEF Input, Output
  <2> QED
    BY <2>3, <2>4
<1>10. \A d, g : CallHolds(c, d, g) => DatasetSteps(ToSet(rs)) \subseteq g
  BY <1>9 DEF DatasetSteps, Mappings
<1> QED
  BY <1>2, <1>6, <1>7, <1>8, <1>10 DEF rs, call

\* What is left once the edges of the first call are in the graph.
LEMMA TailFollows ==
    ASSUME NEW c \in Writer, c.todo # << >>, NEW g, Follows(g, c.todo)
    PROVE  Follows(g \cup Edges(ToSet(RowsOf(c))), Tail(c.todo))
<1> DEFINE todo == c.todo
           rest == Tail(todo)
           new == g \cup Edges(ToSet(RowsOf(c)))
<1>1. todo \in Seq(Seq(TableRow)) /\ todo # << >>
  BY DEF Writer
<1>2. /\ Len(todo) \in Nat \ {0} /\ DOMAIN rest = 1..(Len(todo) - 1)
      /\ DOMAIN todo = 1..Len(todo)
      /\ \A j \in DOMAIN rest : rest[j] = todo[j + 1]
      /\ Head(todo) = todo[1]
  BY <1>1
<1>3. Follows(g, todo)
  OBVIOUS
<1> SUFFICES ASSUME NEW j \in DOMAIN rest, NEW r \in ToSet(rest[j]), r.table = "field_mappings"
             PROVE  \/ <<r.input_dataset, r.output_dataset>> \in new
                    \/ \E i \in 1..(j - 1) : \E e \in ToSet(rest[i]) :
                          /\ e.table = "dataset_edges"
                          /\ e.src = r.input_dataset /\ e.dst = r.output_dataset
  BY DEF Follows
<1>4. todo[1] = Head(c.todo)
  BY <1>2
<1>5. ASSUME NEW e \in ToSet(todo[1]), e.table = "dataset_edges"
      PROVE  <<e.src, e.dst>> \in new
  <2>1. PICK x \in ToSet(RowsOf(c)) : x[2] = e
    BY <1>4, RowsOfFacts
  <2>2. <<x[2].src, x[2].dst>> \in Edges(ToSet(RowsOf(c)))
    BY <1>5, <2>1 DEF Edges
  <2> QED
    BY <2>1, <2>2
<1> HIDE DEF todo, rest, new
<1>6. j + 1 \in DOMAIN todo /\ rest[j] = todo[j + 1] /\ (j + 1) - 1 = j /\ j \in Nat
  BY <1>2
<1>7. \/ <<r.input_dataset, r.output_dataset>> \in g
      \/ \E i \in 1..j : \E e \in ToSet(todo[i]) :
            /\ e.table = "dataset_edges"
            /\ e.src = r.input_dataset /\ e.dst = r.output_dataset
  BY <1>3, <1>6 DEF Follows
<1>8. ASSUME NEW i \in 1..j, NEW e \in ToSet(todo[i]), e.table = "dataset_edges",
             e.src = r.input_dataset, e.dst = r.output_dataset, i # 1
      PROVE  \E k \in 1..(j - 1) : \E s \in ToSet(rest[k]) :
                /\ s.table = "dataset_edges"
                /\ s.src = r.input_dataset /\ s.dst = r.output_dataset
  <2> DEFINE m == Len(todo)
  <2>1. m \in Nat /\ j \in 1..(m - 1) /\ DOMAIN rest = 1..(m - 1)
    BY <1>2
  <2> HIDE DEF m
  <2>2. i - 1 \in 1..(j - 1) /\ i - 1 \in DOMAIN rest /\ (i - 1) + 1 = i
    BY <1>8, <2>1
  <2>3. rest[i - 1] = todo[i]
    BY <1>2, <2>2
  <2> QED
    BY <1>8, <2>2, <2>3
<1> QED
  BY <1>5, <1>7, <1>8 DEF new

\* Between two calls there is nothing to show.
LEMMA BeforeCallFacts ==
    ASSUME NEW event \in Events, NEW todo \in Seq(Seq(TableRow))
    PROVE  /\ BeforeCall(event, todo) \in Writer \cup {IdleWriter}
           /\ \A d, g : Follows(g, todo) => CallHolds(BeforeCall(event, todo), d, g)
           /\ \A d, g : CallHolds(IdleWriter, d, g)
<1>1. \A d, g : CallHolds(IdleWriter, d, g)
  BY DEF IdleWriter, CallHolds, Follows
<1>2. CASE todo = << >>
  BY <1>1, <1>2 DEF BeforeCall
<1>3. CASE todo # << >>
  <2> DEFINE c == BeforeCall(event, todo)
  <2>1. c = [event |-> event, todo |-> todo, done |-> 0]
    BY <1>3 DEF BeforeCall
  <2>2. c \in Writer /\ c.done = 0 /\ c.todo = todo
    BY <2>1 DEF Writer
  <2> HIDE DEF c
  <2>3. c.done # Len(RowsOf(c)) + 1
    BY <1>3, <2>2, RowsOfFacts
  <2>4. \A d, g : Follows(g, todo) => CallHolds(c, d, g)
    BY <2>2, <2>3 DEF CallHolds
  <2> QED
    BY <1>1, <2>2, <2>4 DEF c
<1> QED
  BY <1>2, <1>3

-----------------------------------------------------------------------------
(* Writers: TablesHold and CallsHold. *)

\* TypeOK without the readers.
TablesTypeOK ==
    /\ backend \in {"sqlite", "postgres"}
    /\ rows \subseteq Row /\ durable \subseteq Row
    /\ graph \subseteq Dataset \X Dataset
    /\ lock \in Writers \cup {NoWriter}
    /\ writer \in [Writers -> Writer \cup {IdleWriter}]
    /\ posted \subseteq Events
    /\ faults \in 0..MaxFaults

\* The part of the invariant that does not look at queries.
TablesInv == TablesTypeOK /\ TablesHold /\ CallsHold

\* Of a writer in a call.
LEMMA InCallFacts ==
    ASSUME TablesInv, NEW w \in Writers, writer[w].todo # << >>
    PROVE  /\ writer[w] \in Writer
           /\ CallRows(w) = RowsOf(writer[w])
           /\ CallHolds(writer[w], durable, graph)
           /\ IsFiniteSet(ToSet(CallRows(w))) /\ ToSet(CallRows(w)) \subseteq Row
           /\ DatasetSteps(ToSet(CallRows(w))) \subseteq graph
           /\ Len(CallRows(w)) \in Nat /\ writer[w].done \in Nat
<1>1. writer[w] \in Writer
  BY DEF TablesInv, TablesTypeOK, IdleWriter
<1>2. CallRows(w) = RowsOf(writer[w])
  BY DEF CallRows, RowsOf
<1>3. CallHolds(writer[w], durable, graph)
  BY CallsHoldParts DEF TablesInv
<1>4. writer[w].done \in Nat
  BY <1>1 DEF Writer
<1> QED
  BY <1>1, <1>2, <1>3, <1>4, RowsOfFacts

\* A row more, or a commit, as long as its mapping follows the graph.
LEMMA TablesChange ==
    ASSUME TablesInv, rows' \subseteq Row, IsFiniteSet(rows'),
           durable \subseteq durable', durable' \subseteq rows', graph \subseteq graph',
           graph' \subseteq Edges(durable'), DatasetSteps(rows') \subseteq graph'
    PROVE  /\ TablesHold' /\ rows' \subseteq Row /\ durable' \subseteq Row
           /\ graph' \subseteq Dataset \X Dataset
<1>1. durable' \subseteq Row /\ IsFiniteSet(durable')
  BY FS_Subset
<1>2. Edges(durable') \subseteq Dataset \X Dataset /\ IsFiniteSet(Edges(durable'))
  BY <1>1, EdgesFacts
<1>3. IsFiniteSet(graph')
  BY <1>2, FS_Subset
<1>4. Edges(durable)' = Edges(durable') /\ DatasetSteps(rows)' = DatasetSteps(rows')
  BY DEF Edges, DatasetSteps, Mappings, Input, Output
<1> QED
  BY <1>1, <1>2, <1>3, <1>4 DEF TablesHold

\* One writer moves on, and the tables grow.
LEMMA CallsChange ==
    ASSUME TablesInv, durable \subseteq durable', graph \subseteq graph',
           NEW w \in Writers, NEW c \in Writer \cup {IdleWriter}, CallHolds(c, durable', graph'),
           writer' = [writer EXCEPT ![w] = c]
    PROVE  CallsHold' /\ writer' \in [Writers -> Writer \cup {IdleWriter}]
<1>1. /\ writer' \in [Writers -> Writer \cup {IdleWriter}]
      /\ writer'[w] = c /\ \A u \in Writers : u # w => writer'[u] = writer[u]
  BY DEF TablesInv, TablesTypeOK
<1>2. \A u \in Writers : CallHolds(writer[u], durable, graph)
  BY CallsHoldParts DEF TablesInv
<1>3. \A u \in Writers : CallHolds(writer[u], durable', graph')
  BY <1>2, CallHoldsGrows
<1>4. \A u \in Writers : CallHolds(writer'[u], durable', graph')
  BY <1>1, <1>3
<1>5. \A u \in Writers : CallRows(u)' = RowsOf(writer'[u])
  BY DEF CallRows, RowsOf
<1> QED
  BY <1>1, <1>4, <1>5 DEF CallsHold, CallHolds, Committed

\* No writer moves, and the tables grow.
LEMMA CallsStay ==
    ASSUME TablesInv, durable \subseteq durable', graph \subseteq graph', writer' = writer
    PROVE  CallsHold'
<1>2. \A u \in Writers : CallHolds(writer[u], durable, graph)
  BY CallsHoldParts DEF TablesInv
<1>3. \A u \in Writers : CallHolds(writer'[u], durable', graph')
  BY <1>2, CallHoldsGrows
<1>5. \A u \in Writers : CallRows(u)' = RowsOf(writer'[u])
  BY DEF CallRows, RowsOf
<1> QED
  BY <1>3, <1>5 DEF CallsHold, CallHolds, Committed

\* Tables are read row by row.
LEMMA StepsOfUnion ==
    \A S, T : /\ Edges(S \cup T) = Edges(S) \cup Edges(T)
              /\ DatasetSteps(S \cup T) = DatasetSteps(S) \cup DatasetSteps(T)
BY DEF Edges, DatasetSteps, Mappings

\* More rows say more.
LEMMA StepsOfSubset ==
    \A S, T : S \subseteq T => /\ Edges(S) \subseteq Edges(T)
                               /\ DatasetSteps(S) \subseteq DatasetSteps(T)
BY DEF Edges, DatasetSteps, Mappings

\* Every step keeps the tables' invariant, and drops no durable row and no edge.
LEMMA TablesStep ==
    ASSUME TablesInv, [Next]_vars
    PROVE  TablesInv' /\ durable \subseteq durable' /\ graph \subseteq graph'
<1>0. /\ backend \in {"sqlite", "postgres"} /\ rows \subseteq Row /\ durable \subseteq Row
      /\ graph \subseteq Dataset \X Dataset /\ lock \in Writers \cup {NoWriter}
      /\ writer \in [Writers -> Writer \cup {IdleWriter}]
      /\ posted \subseteq Events /\ faults \in 0..MaxFaults
      /\ IsFiniteSet(rows) /\ IsFiniteSet(graph) /\ durable \subseteq rows
      /\ graph \subseteq Edges(durable) /\ DatasetSteps(rows) \subseteq graph
      /\ CallsHold /\ IsFiniteSet(durable)
  BY FS_Subset DEF TablesInv, TablesTypeOK, TablesHold
<1> DEFINE Goal == TablesInv' /\ durable \subseteq durable' /\ graph \subseteq graph'
           Types == /\ backend' = backend /\ lock' \in Writers \cup {NoWriter}
                    /\ posted' \subseteq Events /\ faults' \in 0..MaxFaults
<1>1. ASSUME Types, rows' = rows, durable' = durable, graph' = graph, CallsHold',
             writer' \in [Writers -> Writer \cup {IdleWriter}]
      PROVE  Goal
  <2>1. Edges(durable)' = Edges(durable) /\ DatasetSteps(rows)' = DatasetSteps(rows)
    BY <1>1 DEF Edges, DatasetSteps, Mappings, Input, Output
  <2> QED
    BY <1>0, <1>1, <2>1 DEF TablesInv, TablesTypeOK, TablesHold
<1>2. ASSUME Types, CallsHold', writer' \in [Writers -> Writer \cup {IdleWriter}],
             rows' \subseteq Row, IsFiniteSet(rows'),
             durable \subseteq durable', durable' \subseteq rows', graph \subseteq graph',
             graph' \subseteq Edges(durable'), DatasetSteps(rows') \subseteq graph'
      PROVE  Goal
  BY <1>0, <1>2, TablesChange DEF TablesInv, TablesTypeOK
<1>3. \A d, g : CallHolds(IdleWriter, d, g)
  BY DEF IdleWriter, CallHolds, Follows
<1>4. Fault => faults' \in 0..MaxFaults
  BY <1>0, QueriesAssumption DEF Fault
<1>5. ASSUME NEW w \in Writers, NEW event \in Events, RecordLineage(w, event)
      PROVE  Goal
  <2> DEFINE c == BeforeCall(event, record_lineage(event))
  <2>1. record_lineage(event) \in Seq(Seq(TableRow)) /\ EdgesFirst(record_lineage(event))
    <3>1. event \in OpenLineageRunEvent
      BY QueriesAssumption
    <3>2. LineageCalls \subseteq Seq(Seq(TableRow))
      BY DEF LineageCalls
    <3> QED
      BY <3>1, <3>2, RecordLineageFacts
  <2>2. Follows(graph, record_lineage(event))
    <3> SUFFICES ASSUME NEW j \in DOMAIN record_lineage(event),
                        NEW r \in ToSet(record_lineage(event)[j]), r.table = "field_mappings"
                 PROVE  \E i \in 1..(j - 1) : \E e \in ToSet(record_lineage(event)[i]) :
                           /\ e.table = "dataset_edges"
                           /\ e.src = r.input_dataset /\ e.dst = r.output_dataset
      BY DEF Follows
    <3>1. PICK i \in 1..(j - 1) : EdgeOf(r) \in ToSet(record_lineage(event)[i])
      BY <2>1 DEF EdgesFirst, MappingsOf
    <3>2. /\ EdgeOf(r).table = "dataset_edges"
          /\ EdgeOf(r).src = r.input_dataset /\ EdgeOf(r).dst = r.output_dataset
      BY DEF EdgeOf
    <3> QED
      BY <3>1, <3>2
  <2>3. c \in Writer \cup {IdleWriter} /\ CallHolds(c, durable, graph)
    BY <2>1, <2>2, BeforeCallFacts
  <2>4. /\ writer' = [writer EXCEPT ![w] = c] /\ posted' = posted \cup {event}
        /\ UNCHANGED <<backend, rows, durable, graph, lock, reader, faults>>
    BY <1>5 DEF RecordLineage
  <2> HIDE DEF c
  <2>5. CallsHold' /\ writer' \in [Writers -> Writer \cup {IdleWriter}]
    BY <2>3, <2>4, CallsChange
  <2>6. Types
    BY <1>0, <2>4
  <2> QED
    BY <1>1, <2>4, <2>5, <2>6
<1>6. ASSUME NEW w \in Writers, Inserting(w), durable' = durable, graph' = graph
      PROVE  /\ CallsHold' /\ writer' \in [Writers -> Writer \cup {IdleWriter}]
             /\ CallRows(w)[writer'[w].done] \in ToSet(CallRows(w))
  <2> DEFINE c == [writer[w] EXCEPT !.done = @ + 1]
  <2>1. writer[w].todo # << >> /\ writer[w].done < Len(CallRows(w))
        /\ writer' = [writer EXCEPT ![w].done = @ + 1]
    BY <1>6 DEF Inserting
  <2>2. /\ writer[w] \in Writer /\ CallHolds(writer[w], durable, graph)
        /\ Len(CallRows(w)) \in Nat /\ writer[w].done \in Nat
        /\ CallRows(w) = RowsOf(writer[w])
    BY <2>1, InCallFacts
  <2>3. writer' = [writer EXCEPT ![w] = c]
    BY <1>0, <2>1
  <2>4. c \in Writer /\ c.todo = writer[w].todo /\ c.event = writer[w].event
        /\ c.done = writer[w].done + 1
    BY <2>2 DEF Writer
  <2> HIDE DEF c
  <2>5. RowsOf(c) = RowsOf(writer[w])
    BY <2>4 DEF RowsOf
  <2>6. c.done # Len(RowsOf(c)) + 1
    BY <2>1, <2>2, <2>4, <2>5
  <2>7. CallHolds(c, durable, graph)
    BY <2>2, <2>4, <2>6 DEF CallHolds
  <2>8. CallsHold' /\ writer' \in [Writers -> Writer \cup {IdleWriter}]
    BY <1>6, <2>3, <2>4, <2>7, CallsChange
  <2>9. writer'[w].done \in 1..Len(CallRows(w))
    BY <1>0, <2>1, <2>2, <2>3, <2>4
  <2>10. DOMAIN CallRows(w) = 1..Len(CallRows(w))
    <3>1. RowsOf(writer[w]) \in Seq(Row)
      BY <2>1, <2>2, RowsOfFacts
    <3> QED
      BY <2>2, <3>1
  <2> QED
    BY <2>8, <2>9, <2>10 DEF ToSet
<1>7. ASSUME NEW w \in Writers, SqliteInsert(w)
      PROVE  Goal
  <2> DEFINE x == CallRows(w)[writer'[w].done]
             new == ToSet(CallRows(w))
  <2>1. /\ Inserting(w) /\ rows' = rows \cup {x} /\ lock' = w
        /\ UNCHANGED <<backend, durable, graph, posted, reader, faults>>
    BY <1>7 DEF SqliteInsert
  <2>2. CallsHold' /\ writer' \in [Writers -> Writer \cup {IdleWriter}] /\ x \in new
    BY <1>6, <2>1
  <2>3. new \subseteq Row /\ DatasetSteps(new) \subseteq graph
    BY <2>1, InCallFacts DEF Inserting
  <2> HIDE DEF x, new
  <2>4. IsFiniteSet(rows') /\ rows' \subseteq Row
    BY <1>0, <2>1, <2>2, <2>3, FS_AddElement
  <2>5. DatasetSteps(rows') \subseteq graph
    <3>1. rows' \subseteq rows \cup new
      BY <2>1, <2>2
    <3>2. DatasetSteps(rows') \subseteq DatasetSteps(rows \cup new)
      BY <3>1, StepsOfSubset
    <3>3. DatasetSteps(rows \cup new) = DatasetSteps(rows) \cup DatasetSteps(new)
      BY StepsOfUnion
    <3> QED
      BY <1>0, <2>3, <3>2, <3>3
  <2>6. durable \subseteq durable' /\ durable' \subseteq rows' /\ graph' = graph
        /\ graph' \subseteq Edges(durable')
    BY <1>0, <2>1
  <2>7. Types
    BY <1>0, <2>1
  <2> HIDE DEF Types, Goal
  <2> QED
    BY <1>2, <2>2, <2>4, <2>5, <2>6, <2>7
<1>8. ASSUME NEW w \in Writers, PostgresInsert(w)
      PROVE  Goal
  <2>1. Inserting(w) /\ UNCHANGED <<backend, rows, durable, graph, lock, posted, reader, faults>>
    BY <1>8 DEF PostgresInsert
  <2>2. Types
    BY <1>0, <2>1
  <2> QED
    BY <1>1, <1>6, <2>1, <2>2
<1>9. ASSUME NEW w \in Writers, CommitCall(w)
      PROVE  Goal
  <2> DEFINE new == ToSet(CallRows(w))
             c == [writer[w] EXCEPT !.done = @ + 1]
  <2>1. /\ writer[w].todo # << >> /\ rows' = rows \cup new /\ durable' = rows'
        /\ writer' = [writer EXCEPT ![w].done = @ + 1]
        /\ UNCHANGED <<backend, graph, lock, posted, reader, faults>>
    BY <1>9 DEF CommitCall, Inserted
  <2>2. /\ writer[w] \in Writer /\ CallHolds(writer[w], durable, graph)
        /\ CallRows(w) = RowsOf(writer[w])
        /\ IsFiniteSet(new) /\ new \subseteq Row /\ DatasetSteps(new) \subseteq graph
    BY <2>1, InCallFacts
  <2>3. writer' = [writer EXCEPT ![w] = c]
    BY <1>0, <2>1
  <2>4. c \in Writer /\ c.todo = writer[w].todo /\ c.event = writer[w].event
    BY <2>2 DEF Writer
  <2>5. ToSet(RowsOf(c)) = new
    <3>1. RowsOf(c) = RowsOf(writer[w])
      BY <2>4 DEF RowsOf
    <3> QED
      BY <2>2, <3>1
  <2> HIDE DEF c, new
  <2>6. /\ IsFiniteSet(rows') /\ rows' \subseteq Row /\ durable \subseteq durable'
        /\ durable' \subseteq rows' /\ new \subseteq durable' /\ graph' = graph
    BY <1>0, <2>1, <2>2, FS_Union
  <2>7. CallHolds(c, durable', graph')
    BY <2>2, <2>4, <2>5, <2>6 DEF CallHolds
  <2>8. CallsHold' /\ writer' \in [Writers -> Writer \cup {IdleWriter}]
    BY <2>3, <2>4, <2>6, <2>7, CallsChange
  <2>9. DatasetSteps(rows') \subseteq graph'
    BY <1>0, <2>1, <2>2, <2>6, StepsOfUnion
  <2>10. graph' \subseteq Edges(durable')
    BY <1>0, <2>6, StepsOfSubset
  <2>11. Types
    BY <1>0, <2>1
  <2> HIDE DEF Types, Goal
  <2> QED
    BY <1>2, <2>6, <2>8, <2>9, <2>10, <2>11
<1>10. ASSUME NEW w \in Writers, EndCall(w)
       PROVE  Goal
  <2> DEFINE new == ToSet(CallRows(w))
             c == BeforeCall(writer[w].event, Tail(writer[w].todo))
  <2>1. /\ writer[w].todo # << >> /\ writer[w].done = Len(CallRows(w)) + 1
        /\ graph' = graph \cup Edges(new) /\ lock' = Released(w)
        /\ UNCHANGED <<backend, rows, durable, posted, reader, faults>>
        /\ writer' = [writer EXCEPT ![w] = BeforeCall(@.event, Tail(@.todo))]
    BY <1>10 DEF EndCall, Committed
  <2>2. /\ writer[w] \in Writer /\ CallHolds(writer[w], durable, graph)
        /\ CallRows(w) = RowsOf(writer[w])
    BY <2>1, InCallFacts
  <2>3. writer' = [writer EXCEPT ![w] = c]
    BY <1>0, <2>1
  <2>4. writer[w].event \in Events /\ Tail(writer[w].todo) \in Seq(Seq(TableRow))
    BY <2>1, <2>2, RowsOfFacts DEF Writer
  <2>5. Follows(graph', Tail(writer[w].todo))
    BY <2>1, <2>2, TailFollows DEF CallHolds
  <2>6. c \in Writer \cup {IdleWriter} /\ CallHolds(c, durable', graph')
    BY <2>4, <2>5, BeforeCallFacts
  <2>7. new \subseteq durable
    BY <2>1, <2>2 DEF CallHolds
  <2> HIDE DEF c, new
  <2>8. /\ graph \subseteq graph' /\ durable' = durable /\ rows' = rows
        /\ graph' \subseteq Edges(durable')
    BY <1>0, <2>1, <2>7, StepsOfSubset
  <2>9. CallsHold' /\ writer' \in [Writers -> Writer \cup {IdleWriter}]
    BY <2>3, <2>6, <2>8, CallsChange
  <2>10. Types
    BY <1>0, <2>1 DEF Released
  <2>11. /\ rows' \subseteq Row /\ IsFiniteSet(rows') /\ durable' \subseteq rows'
         /\ DatasetSteps(rows') \subseteq graph'
    BY <1>0, <2>8
  <2> HIDE DEF Types, Goal
  <2> QED
    BY <1>2, <2>8, <2>9, <2>10, <2>11
<1>11. ASSUME NEW w \in Writers, CallFails(w)
       PROVE  Goal
  <2>1. /\ writer' = [writer EXCEPT ![w] = IdleWriter] /\ lock' = Released(w) /\ Fault
        /\ UNCHANGED <<backend, rows, durable, graph, posted, reader>>
    BY <1>11 DEF CallFails
  <2>2. CallsHold' /\ writer' \in [Writers -> Writer \cup {IdleWriter}]
    BY <1>3, <2>1, CallsChange
  <2>3. Types
    BY <1>0, <1>4, <2>1 DEF Released
  <2> QED
    BY <1>1, <2>1, <2>2, <2>3
<1>12. ASSUME OtherRollback \/ OtherCommit
       PROVE  Goal
  <2>1. /\ UNCHANGED <<backend, graph, lock, writer, posted, reader, faults>>
        /\ \/ rows' = durable /\ durable' = durable
           \/ rows' = rows /\ durable' = rows
    BY <1>12 DEF OtherRollback, OtherCommit
  <2>2. /\ durable \subseteq durable' /\ durable' \subseteq rows' /\ rows' \subseteq rows
        /\ rows' \subseteq Row /\ graph' = graph
    BY <1>0, <2>1
  <2>3. IsFiniteSet(rows')
    BY <1>0, <2>2, FS_Subset
  <2>4. CallsHold' /\ writer' \in [Writers -> Writer \cup {IdleWriter}]
    BY <1>0, <2>1, <2>2, CallsStay
  <2>5. graph' \subseteq Edges(durable') /\ DatasetSteps(rows') \subseteq graph'
    BY <1>0, <2>2, StepsOfSubset
  <2>6. Types
    BY <1>0, <2>1
  <2> HIDE DEF Types, Goal
  <2> QED
    BY <1>2, <2>2, <2>3, <2>4, <2>5, <2>6
<1>13. ASSUME Restart
       PROVE  Goal
  <2>1. /\ rows' = durable /\ graph' = Edges(durable) /\ lock' = NoWriter /\ Fault
        /\ writer' = [w \in Writers |-> IdleWriter]
        /\ UNCHANGED <<backend, durable, posted>>
    BY <1>13 DEF Restart
  <2>2. \A w \in Writers : writer'[w] = IdleWriter /\ CallRows(w)' = RowsOf(writer'[w])
    BY <2>1 DEF CallRows, RowsOf
  <2>3. CallsHold'
    BY <1>3, <2>2 DEF CallsHold, CallHolds, Committed
  <2>4. writer' \in [Writers -> Writer \cup {IdleWriter}]
    BY <2>1
  <2>5. /\ rows' \subseteq Row /\ IsFiniteSet(rows') /\ durable \subseteq durable'
        /\ durable' \subseteq rows' /\ graph \subseteq graph' /\ graph' \subseteq Edges(durable')
    BY <1>0, <2>1
  <2>6. DatasetSteps(rows') \subseteq graph'
    BY <1>0, <2>1, StepsOfSubset
  <2>7. Types
    BY <1>0, <1>4, <2>1
  <2> HIDE DEF Types, Goal
  <2> QED
    BY <1>2, <2>3, <2>4, <2>5, <2>6, <2>7
<1>14. ASSUME UNCHANGED <<backend, rows, durable, graph, lock, writer, posted, faults>>
       PROVE  Goal
  <2>1. CallsHold' /\ writer' \in [Writers -> Writer \cup {IdleWriter}]
    BY <1>0, <1>14, CallsStay
  <2>2. Types
    BY <1>0, <1>14
  <2> QED
    BY <1>1, <1>14, <2>1, <2>2
<1> HIDE DEF Goal
<1>15. ASSUME NEW r \in Readers, NEW start \in Asked, Query(r, start) \/ DatasetQuery(r, start[1])
       PROVE  Goal
  BY <1>14, <1>15 DEF Query, DatasetQuery
<1>16. ASSUME NEW r \in Readers, Step(r)
       PROVE  Goal
  BY <1>14, <1>16 DEF Step, Visit, ReadGraph, ReadBelow, ReadAbove, GraphChanges, Return
<1>17. ASSUME UNCHANGED vars
       PROVE  Goal
  BY <1>14, <1>17 DEF vars
<1>18. Goal
  BY <1>5, <1>7, <1>8, <1>9, <1>10, <1>11, <1>12, <1>13, <1>15, <1>16, <1>17 DEF Next
<1> QED
  BY <1>18 DEF Goal

-----------------------------------------------------------------------------
(* What a query holds, by where it is. *)

\* The locals of a thread that runs queries.
ReaderType == Reader \cup DatasetReader \cup {IdleReader}

\* Which locals a query has, by where it is.
LEMMA ReaderCases ==
    ASSUME NEW q \in ReaderType
    PROVE  /\ q.pc \in {"walk", "done"} => q \in Reader
           /\ q.pc \in {"below", "above", "answer"} => q \in DatasetReader
BY DEF ReaderType, Reader, DatasetReader, IdleReader

\* From datasets one gets to datasets.
LEMMA BehindInDataset ==
    ASSUME NEW g \in SUBSET (Dataset \X Dataset), IsFiniteSet(g), NEW from
    PROVE  Behind(g, from) \subseteq Dataset
<1>1. \A p \in g : p[1] = from \/ p[1] \in Dataset => p[2] \in Dataset
  OBVIOUS
<1> QED
  BY <1>1, BehindLeast

\* The steps of nx.ancestors.
LEMMA ReversedFacts ==
    ASSUME NEW g \in SUBSET (Dataset \X Dataset)
    PROVE  /\ Reversed(g) \subseteq Dataset \X Dataset
           /\ IsFiniteSet(g) => IsFiniteSet(Reversed(g))
           /\ \A s \in SUBSET g : Reversed(s) \subseteq Reversed(g)
<1> DEFINE back == [p \in g |-> <<p[2], p[1]>>]
<1>1. Reversed(g) = {back[p] : p \in g} /\ DOMAIN back = g
  BY DEF Reversed
<1>2. IsFiniteSet(g) => IsFiniteSet(Reversed(g))
  <2> HIDE DEF back
  <2> QED
    BY <1>1, FiniteImage
<1> QED
  BY <1>2 DEF Reversed

\* What holds of a query is not lost when rows are committed and edges added.
LEMMA ReaderHoldsGrows ==
    ASSUME NEW q, NEW d, NEW d2, NEW g, NEW g2, ReaderHolds(q, d, g),
           d \subseteq d2, g \subseteq g2, IsFiniteSet(g2)
    PROVE  ReaderHolds(q, d2, g2)
<1>1. ASSUME WalkHolds(q, d, g)
      PROVE  WalkHolds(q, d2, g2)
  <2>1. Behind(g, q.start[1]) \subseteq Behind(g2, q.start[1])
    BY BehindGrows
  <2> QED
    BY <1>1, <2>1 DEF WalkHolds
<1> QED
  BY <1>1 DEF ReaderHolds

\* A SELECT returns the outputs of the field's mappings, and those only.
LEMMA FoundFacts ==
    ASSUME TablesInv, NEW field
    PROVE  /\ Found(field) \in Seq(LineageField)
           /\ \A m \in Mappings(rows) : Input(m) = field => Output(m) \in ToSet(Found(field))
           /\ \A f \in ToSet(Found(field)) : \E m \in Mappings(rows) :
                 Input(m) = field /\ Output(m) = f
<1> DEFINE S == {m \in Mappings(rows) : Input(m) = field}
           list == SetToSeq(S)
           found == Found(field)
<1>1. IsFiniteSet(S)
  BY FS_Subset DEF TablesInv, TablesHold, Mappings
<1>2. list \in Seq(S) /\ ToSet(list) = S
  <2> HIDE DEF S
  <2> QED
    BY <1>1, SetToSeqFacts
<1>3. DOMAIN found = DOMAIN list /\ found = [i \in DOMAIN list |-> found[i]]
      /\ \A i \in DOMAIN list : found[i] = Output(list[i])
  BY DEF Found
<1>4. \A m \in S : Output(m) \in LineageField
  <2> TAKE m \in S
  <2>1. m[2] \in TableRow /\ m[2].table = "field_mappings"
    BY DEF TablesInv, TablesTypeOK, Mappings, Row
  <2> QED
    BY <2>1 DEF TableRow, Output, LineageField
<1>5. \A m \in S : m \in Mappings(rows) /\ Input(m) = field
  OBVIOUS
<1>6. \A m \in Mappings(rows) : Input(m) = field => m \in S
  OBVIOUS
<1> HIDE DEF S, list, found
<1>7. \A i \in DOMAIN list : list[i] \in S
  BY <1>2
<1>8. \A i \in DOMAIN list : found[i] \in LineageField
  BY <1>3, <1>4, <1>7
<1>9. found \in Seq(LineageField)
  BY <1>2, <1>3, <1>8, MappedSeq
<1>10. \A m \in Mappings(rows) : Input(m) = field => Output(m) \in ToSet(found)
  <2> TAKE m \in Mappings(rows)
  <2> HAVE Input(m) = field
  <2>1. PICK i \in DOMAIN list : list[i] = m
    BY <1>2, <1>6 DEF ToSet
  <2> QED
    BY <1>3, <2>1 DEF ToSet
<1>11. \A f \in ToSet(found) : \E m \in Mappings(rows) : Input(m) = field /\ Output(m) = f
  <2> TAKE f \in ToSet(found)
  <2>1. PICK i \in DOMAIN found : found[i] = f
    BY DEF ToSet
  <2>2. list[i] \in S /\ Output(list[i]) = f
    BY <1>3, <1>7, <2>1
  <2> QED
    BY <1>5, <2>2
<1> QED
  BY <1>9, <1>10, <1>11 DEF found

\* The head of a list and the rest of it.
LEMMA HeadAndTail ==
    ASSUME NEW S, NEW s \in Seq(S), s # << >>
    PROVE  /\ Head(s) \in S /\ Tail(s) \in Seq(S)
           /\ ToSet(s) = {Head(s)} \cup ToSet(Tail(s))
<1> DEFINE n == Len(s)
           t == Tail(s)
<1>1. n \in Nat \ {0} /\ DOMAIN s = 1..n /\ Head(s) = s[1] /\ s[1] \in S
      /\ t \in Seq(S) /\ DOMAIN t = 1..(n - 1) /\ \A i \in 1..(n - 1) : t[i] = s[i + 1]
  OBVIOUS
<1> HIDE DEF n, t
<1>2. \A i \in 1..n : i = 1 \/ (i - 1 \in 1..(n - 1) /\ (i - 1) + 1 = i)
  BY <1>1
<1>3. \A i \in 1..(n - 1) : i + 1 \in 1..n
  BY <1>1
<1>4. \A i \in 1..n : s[i] = s[1] \/ \E j \in 1..(n - 1) : t[j] = s[i]
  BY <1>1, <1>2
<1>5. 1 \in 1..n
  BY <1>1
<1>6. ToSet(s) \subseteq {s[1]} \cup ToSet(t)
  <2> SUFFICES ASSUME NEW i \in DOMAIN s
               PROVE  s[i] = s[1] \/ \E j \in DOMAIN t : t[j] = s[i]
    BY DEF ToSet
  <2>1. i \in 1..n
    BY <1>1
  <2> QED
    BY <1>1, <1>4, <2>1
<1>7. {s[1]} \cup ToSet(t) \subseteq ToSet(s)
  BY <1>1, <1>3, <1>5 DEF ToSet
<1>8. ToSet(s) = {Head(s)} \cup ToSet(t) /\ Head(s) \in S
  BY <1>1, <1>6, <1>7
<1> QED
  BY <1>1, <1>8 DEF t

\* A turn of the loop.
LEMMA VisitHolds ==
    ASSUME TablesInv, NEW q \in Reader, q.pc = "walk", q.frontier # << >>,
           WalkHolds(q, durable, graph), NEW q2,
           q2 = LET field == Head(q.frontier)
                IN  IF field \in q.seen
                    THEN [q EXCEPT !.frontier = Tail(@)]
                    ELSE [q EXCEPT !.frontier = Tail(@) \o Found(field),
                                   !.seen     = @ \cup {field},
                                   !.impacted = @ \o Found(field)]
    PROVE  q2 \in Reader /\ q2.pc = "walk" /\ WalkHolds(q2, durable, graph)
<1> DEFINE field == Head(q.frontier)
           rest == Tail(q.frontier)
           found == Found(field)
<1>1. /\ q.start \in LineageField /\ q.frontier \in Seq(LineageField)
      /\ q.seen \subseteq LineageField /\ q.impacted \in Seq(LineageField)
  BY DEF Reader
<1>2. /\ field \in LineageField /\ rest \in Seq(LineageField)
      /\ ToSet(q.frontier) = {field} \cup ToSet(rest)
  BY <1>1, HeadAndTail
<1>3. /\ found \in Seq(LineageField)
      /\ \A m \in Mappings(rows) : Input(m) = field => Output(m) \in ToSet(found)
      /\ \A f \in ToSet(found) : \E m \in Mappings(rows) : Input(m) = field /\ Output(m) = f
  BY FoundFacts
<1>4. /\ q.known \subseteq durable
      /\ {q.start} \cup ToSet(q.impacted) \subseteq q.seen \cup ToSet(q.frontier)
      /\ \A m \in Mappings(q.known) : Input(m) \in q.seen => Output(m) \in ToSet(q.impacted)
      /\ \A f \in ToSet(q.frontier) \cup ToSet(q.impacted) :
            f[1] \in {q.start[1]} \cup Behind(graph, q.start[1])
  BY DEF WalkHolds
<1>5. q2 = IF field \in q.seen THEN [q EXCEPT !.frontier = rest]
           ELSE [q EXCEPT !.frontier = rest \o found, !.seen = @ \cup {field},
                          !.impacted = @ \o found]
  OBVIOUS
<1> HIDE DEF field, rest, found
<1>6. CASE field \in q.seen
  <2>1. /\ q2 \in Reader /\ q2.pc = "walk" /\ q2.frontier = rest /\ q2.seen = q.seen
        /\ q2.impacted = q.impacted /\ q2.start = q.start /\ q2.known = q.known
    BY <1>2, <1>5, <1>6 DEF Reader
  <2>2. WalkHolds(q2, durable, graph)
    BY <1>2, <1>4, <1>6, <2>1 DEF WalkHolds
  <2> QED
    BY <2>1, <2>2
<1>7. CASE field \notin q.seen
  <2>1. q2 = [q EXCEPT !.frontier = rest \o found, !.seen = @ \cup {field},
                       !.impacted = @ \o found]
    BY <1>5, <1>7
  <2>2. /\ rest \o found \in Seq(LineageField) /\ q.impacted \o found \in Seq(LineageField)
        /\ ToSet(rest \o found) = ToSet(rest) \cup ToSet(found)
        /\ ToSet(q.impacted \o found) = ToSet(q.impacted) \cup ToSet(found)
    BY <1>1, <1>2, <1>3, ToSetConcat
  <2>3. /\ q2 \in Reader /\ q2.pc = "walk" /\ q2.frontier = rest \o found
        /\ q2.seen = q.seen \cup {field} /\ q2.impacted = q.impacted \o found
        /\ q2.start = q.start /\ q2.known = q.known
    <3> DEFINE a == rest \o found
               b == q.impacted \o found
               c == q.seen \cup {field}
    <3>1. a \in Seq(LineageField) /\ b \in Seq(LineageField) /\ c \in SUBSET LineageField
      BY <1>1, <1>2, <2>2
    <3>2. q2 = [q EXCEPT !.frontier = a, !.seen = c, !.impacted = b]
      BY <2>1
    <3> HIDE DEF a, b, c
    <3>3. q2 \in Reader
      BY <3>1, <3>2 DEF Reader
    <3>4. /\ q2.pc = "walk" /\ q2.frontier = a /\ q2.seen = c /\ q2.impacted = b
          /\ q2.start = q.start /\ q2.known = q.known
      BY <3>2 DEF Reader
    <3> QED
      BY <3>3, <3>4 DEF a, b, c
  <2>4. \A m \in Mappings(q2.known) : Input(m) \in q2.seen => Output(m) \in ToSet(q2.impacted)
    <3>1. q.known \subseteq rows
      BY <1>4 DEF TablesInv, TablesHold
    <3>2. \A m \in Mappings(q.known) : m \in Mappings(rows)
      BY <3>1 DEF Mappings
    <3> QED
      BY <1>3, <1>4, <2>2, <2>3, <3>2
  <2>5. {q2.start} \cup ToSet(q2.impacted) \subseteq q2.seen \cup ToSet(q2.frontier)
    BY <1>2, <1>4, <2>2, <2>3
  <2>6. field[1] \in {q.start[1]} \cup Behind(graph, q.start[1])
    BY <1>2, <1>4
  <2>7. \A f \in ToSet(found) : f[1] \in Behind(graph, q.start[1])
    <3> TAKE f \in ToSet(found)
    <3>1. PICK m \in Mappings(rows) : Input(m) = field /\ Output(m) = f
      BY <1>3
    <3>2. <<Input(m)[1], Output(m)[1]>> \in graph /\ IsFiniteSet(graph)
      BY DEF TablesInv, TablesHold, DatasetSteps
    <3>3. <<field[1], f[1]>> \in graph
      BY <3>1, <3>2
    <3> QED
      BY <2>6, <3>2, <3>3, BehindClosed
  <2>8. \A f \in ToSet(q2.frontier) \cup ToSet(q2.impacted) :
           f[1] \in {q2.start[1]} \cup Behind(graph, q2.start[1])
    BY <1>2, <1>4, <2>2, <2>3, <2>7
  <2>9. WalkHolds(q2, durable, graph)
    BY <1>4, <2>3, <2>4, <2>5, <2>8 DEF WalkHolds
  <2> QED
    BY <2>3, <2>9
<1> QED
  BY <1>6, <1>7

-----------------------------------------------------------------------------
(* Queries: ReadersHold. *)

\* TypeOK of the readers.
ReadersTypeOK == reader \in [Readers -> ReaderType]

\* The strengthening of TypeOK that is inductive.
IInv == TypeOK /\ TablesHold /\ CallsHold /\ ReadersHold

\* The invariant, as the steps need it.
LEMMA IInvParts ==
    IInv <=> TablesInv /\ ReadersTypeOK /\ ReadersHold
BY DEF IInv, TypeOK, TablesInv, TablesTypeOK, ReadersTypeOK, ReaderType

\* One reader moves on, and the tables grow.
LEMMA ReadersChange ==
    ASSUME IInv, durable \subseteq durable', graph \subseteq graph', IsFiniteSet(graph'),
           NEW r \in Readers, NEW q \in ReaderType, ReaderHolds(q, durable', graph'),
           reader' = [reader EXCEPT ![r] = q]
    PROVE  ReadersHold' /\ ReadersTypeOK'
<1>1. /\ reader' \in [Readers -> ReaderType]
      /\ reader'[r] = q /\ \A u \in Readers : u # r => reader'[u] = reader[u]
  BY IInvParts DEF ReadersTypeOK
<1>2. \A u \in Readers : ReaderHolds(reader[u], durable', graph')
  BY IInvParts, ReaderHoldsGrows DEF ReadersHold
<1>3. \A u \in Readers : ReaderHolds(reader'[u], durable', graph')
  BY <1>1, <1>2
<1> QED
  BY <1>1, <1>3 DEF ReadersHold, ReadersTypeOK

\* A thread without a query has nothing to keep.
LEMMA IdleHolds ==
    \A d, g : ReaderHolds(IdleReader, d, g)
BY DEF ReaderHolds, IdleReader

\* field_impact begins: nothing was visited.
LEMMA QueryHolds ==
    ASSUME IInv, NEW start \in LineageField, NEW q,
           q = [pc |-> "walk", start |-> start, frontier |-> <<start>>, seen |-> {},
                impacted |-> << >>, downstream |-> {}, known |-> durable]
    PROVE  q \in ReaderType /\ ReaderHolds(q, durable, graph)
<1>1. q \in Reader
  BY IInvParts DEF Reader, TablesInv, TablesTypeOK
<1>2. ToSet(q.impacted) = {} /\ ToSet(q.frontier) = {start}
  BY DEF ToSet
<1>3. WalkHolds(q, durable, graph)
  BY <1>2 DEF WalkHolds
<1> QED
  BY <1>1, <1>3 DEF ReaderHolds, ReaderType

\* dataset_impact begins: every durable mapping has its edge in the graph.
LEMMA DatasetQueryHolds ==
    ASSUME IInv, NEW dataset \in Dataset, NEW q,
           q = [pc |-> "below", dataset |-> dataset, downstream |-> {}, upstream |-> {},
                known |-> DatasetSteps(durable)]
    PROVE  q \in ReaderType /\ ReaderHolds(q, durable, graph)
<1>1. /\ durable \subseteq rows /\ rows \subseteq Row /\ DatasetSteps(rows) \subseteq graph
  BY IInvParts DEF TablesInv, TablesHold, TablesTypeOK
<1>2. DatasetSteps(durable) \subseteq graph
  BY <1>1, StepsOfSubset
<1>3. DatasetSteps(durable) \subseteq Dataset \X Dataset
  BY <1>1, EdgesFacts
<1> QED
  BY <1>2, <1>3 DEF ReaderType, DatasetReader, ReaderHolds

\* The graph, read last, has every dataset the walk came to.
LEMMA ReadGraphHolds ==
    ASSUME IInv, NEW q \in Reader, q.pc = "walk", q.frontier = << >>,
           ReaderHolds(q, durable, graph), NEW q2,
           q2 = [q EXCEPT !.pc = "done", !.downstream = downstream_datasets(q.start[1])]
    PROVE  q2 \in ReaderType /\ ReaderHolds(q2, durable, graph)
<1> DEFINE below == Behind(graph, q.start[1])
           down == downstream_datasets(q.start[1])
<1>1. graph \in SUBSET (Dataset \X Dataset) /\ IsFiniteSet(graph)
  BY IInvParts DEF TablesInv, TablesTypeOK, TablesHold
<1>2. below \subseteq Dataset
  BY <1>1, BehindInDataset
<1>3. down = below \ {q.start[1]}
  BY DEF downstream_datasets
<1>4. WalkHolds(q, durable, graph)
  BY DEF ReaderHolds
<1>5. \A f \in ToSet(q.impacted) : f[1] \in {q.start[1]} \cup below
  BY <1>4 DEF WalkHolds
<1>6. \A i \in DOMAIN q.impacted : q.impacted[i] \in ToSet(q.impacted)
  BY DEF ToSet
<1> HIDE DEF below, down
<1>7. q2 \in Reader
  BY <1>2, <1>3 DEF Reader, down
<1>8. /\ q2.pc = "done" /\ q2.downstream = down /\ q2.start = q.start
      /\ q2.impacted = q.impacted /\ q2.frontier = << >> /\ q2.seen = q.seen
      /\ q2.frontier = q.frontier /\ q2.known = q.known
  BY DEF Reader, down
<1>9. ListedIsDownstream(q2)
  BY <1>3, <1>5, <1>6, <1>8 DEF ListedIsDownstream
<1>10. WalkHolds(q2, durable, graph)
  BY <1>4, <1>8 DEF WalkHolds
<1> QED
  BY <1>7, <1>8, <1>9, <1>10 DEF ReaderHolds, ReaderType

\* The first read covers what was known when the query began.
LEMMA ReadBelowHolds ==
    ASSUME IInv, NEW q \in DatasetReader, q.pc = "below",
           ReaderHolds(q, durable, graph), NEW q2,
           q2 = [q EXCEPT !.pc = "above", !.downstream = downstream_datasets(q.dataset)]
    PROVE  q2 \in ReaderType /\ ReaderHolds(q2, durable, graph)
<1> DEFINE below == Behind(graph, q.dataset)
           down == downstream_datasets(q.dataset)
<1>1. graph \in SUBSET (Dataset \X Dataset) /\ IsFiniteSet(graph)
  BY IInvParts DEF TablesInv, TablesTypeOK, TablesHold
<1>2. below \subseteq Dataset
  BY <1>1, BehindInDataset
<1>3. down = below \ {q.dataset}
  BY DEF downstream_datasets
<1>4. q.known \subseteq graph
  BY DEF ReaderHolds
<1>5. Behind(q.known, q.dataset) \subseteq below
  BY <1>1, <1>4, BehindGrows
<1> HIDE DEF below, down
<1>6. q2 \in DatasetReader
  BY <1>2, <1>3 DEF DatasetReader, down
<1>7. /\ q2.pc = "above" /\ q2.downstream = down /\ q2.dataset = q.dataset
      /\ q2.known = q.known
  BY DEF DatasetReader, down
<1>8. CoversBelow(q2)
  BY <1>3, <1>5, <1>7 DEF CoversBelow
<1> QED
  BY <1>4, <1>6, <1>7, <1>8 DEF ReaderHolds, ReaderType

\* So does the second, made later.
LEMMA ReadAboveHolds ==
    ASSUME IInv, NEW q \in DatasetReader, q.pc = "above",
           ReaderHolds(q, durable, graph), NEW q2,
           q2 = [q EXCEPT !.pc = "answer", !.upstream = upstream_datasets(q.dataset)]
    PROVE  q2 \in ReaderType /\ ReaderHolds(q2, durable, graph)
<1> DEFINE above == Behind(Reversed(graph), q.dataset)
           up == upstream_datasets(q.dataset)
<1>1. graph \in SUBSET (Dataset \X Dataset) /\ IsFiniteSet(graph)
  BY IInvParts DEF TablesInv, TablesTypeOK, TablesHold
<1>2. q.known \subseteq graph /\ CoversBelow(q)
  BY DEF ReaderHolds
<1>3. /\ Reversed(graph) \in SUBSET (Dataset \X Dataset) /\ IsFiniteSet(Reversed(graph))
      /\ Reversed(q.known) \subseteq Reversed(graph)
  BY <1>1, <1>2, ReversedFacts
<1>4. above \subseteq Dataset
  BY <1>3, BehindInDataset
<1>5. up = above \ {q.dataset}
  BY DEF upstream_datasets
<1>6. Behind(Reversed(q.known), q.dataset) \subseteq above
  BY <1>3, BehindGrows
<1> HIDE DEF above, up
<1>7. q2 \in DatasetReader
  BY <1>4, <1>5 DEF DatasetReader, up
<1>8. /\ q2.pc = "answer" /\ q2.upstream = up /\ q2.dataset = q.dataset
      /\ q2.known = q.known /\ q2.downstream = q.downstream
  BY DEF DatasetReader, up
<1>9. CoversMappings(q2)
  BY <1>2, <1>5, <1>6, <1>8 DEF CoversMappings, CoversBelow
<1> QED
  BY <1>7, <1>8, <1>9 DEF ReaderHolds, ReaderType

\* Every step keeps the invariant.
LEMMA NextInv ==
    ASSUME IInv, [Next]_vars
    PROVE  IInv'
<1>1. TablesInv /\ ReadersTypeOK /\ ReadersHold
  BY IInvParts
<1>2. TablesInv' /\ durable \subseteq durable' /\ graph \subseteq graph'
  BY <1>1, TablesStep
<1>3. IsFiniteSet(graph')
  BY <1>2 DEF TablesInv, TablesHold
<1> DEFINE Goal == ReadersHold' /\ ReadersTypeOK'
<1>4. ASSUME NEW r \in Readers, NEW q \in ReaderType, ReaderHolds(q, durable, graph),
             reader' = [reader EXCEPT ![r] = q]
      PROVE  Goal
  <2>1. ReaderHolds(q, durable', graph')
    BY <1>2, <1>3, <1>4, ReaderHoldsGrows
  <2> QED
    BY <1>2, <1>3, <1>4, <2>1, ReadersChange
<1>5. ASSUME reader' = reader
      PROVE  Goal
  <2>1. \A u \in Readers : ReaderHolds(reader[u], durable', graph')
    BY <1>1, <1>2, <1>3, ReaderHoldsGrows DEF ReadersHold
  <2> QED
    BY <1>1, <1>5, <2>1 DEF ReadersHold, ReadersTypeOK
<1>6. IdleReader \in ReaderType
  BY DEF ReaderType
<1>7. ASSUME Restart
      PROVE  Goal
  <2>1. reader' = [r \in Readers |-> IdleReader]
    BY <1>7 DEF Restart
  <2>2. \A r \in Readers : ReaderHolds(reader'[r], durable', graph')
    BY <2>1, IdleHolds
  <2> QED
    BY <1>6, <2>1, <2>2 DEF ReadersHold, ReadersTypeOK
<1> HIDE DEF Goal
<1>8. ASSUME NEW r \in Readers
      PROVE  /\ reader[r] \in ReaderType /\ ReaderHolds(reader[r], durable, graph)
             /\ reader \in [Readers -> ReaderType]
  BY <1>1, <1>8 DEF ReadersTypeOK, ReadersHold
<1>9. ASSUME NEW r \in Readers, NEW start \in Asked, Query(r, start)
      PROVE  Goal
  <2> DEFINE q == [pc |-> "walk", start |-> start, frontier |-> <<start>>, seen |-> {},
                   impacted |-> << >>, downstream |-> {}, known |-> durable]
  <2>1. reader' = [reader EXCEPT ![r] = q]
    BY <1>9 DEF Query
  <2>2. start \in LineageField
    BY QueriesAssumption DEF LineageField
  <2>3. q \in ReaderType /\ ReaderHolds(q, durable, graph)
    BY <2>2, QueryHolds
  <2> HIDE DEF q
  <2> QED
    BY <1>4, <2>1, <2>3
<1>10. ASSUME NEW r \in Readers, NEW start \in Asked, DatasetQuery(r, start[1])
       PROVE  Goal
  <2> DEFINE q == [pc |-> "below", dataset |-> start[1], downstream |-> {}, upstream |-> {},
                   known |-> DatasetSteps(durable)]
  <2>1. reader' = [reader EXCEPT ![r] = q]
    BY <1>10 DEF DatasetQuery
  <2>2. start[1] \in Dataset
    BY QueriesAssumption
  <2>3. q \in ReaderType /\ ReaderHolds(q, durable, graph)
    BY <2>2, DatasetQueryHolds
  <2> HIDE DEF q
  <2> QED
    BY <1>4, <2>1, <2>3
<1>11. ASSUME NEW r \in Readers, Visit(r)
       PROVE  Goal
  <2> DEFINE q == reader[r]
             field == Head(q.frontier)
             q2 == IF field \in q.seen
                   THEN [q EXCEPT !.frontier = Tail(@)]
                   ELSE [q EXCEPT !.frontier = Tail(@) \o Found(field),
                                  !.seen     = @ \cup {field},
                                  !.impacted = @ \o Found(field)]
  <2>1. /\ q.pc = "walk" /\ q.frontier # << >> /\ reader' = [reader EXCEPT ![r] = q2]
    BY <1>8, <1>11 DEF Visit
  <2>2. q \in Reader /\ WalkHolds(q, durable, graph)
    BY <1>8, <2>1, ReaderCases DEF ReaderHolds
  <2>3. q2 \in Reader /\ q2.pc = "walk" /\ WalkHolds(q2, durable, graph)
    BY <1>1, <2>1, <2>2, VisitHolds
  <2> HIDE DEF q2
  <2>4. q2 \in ReaderType /\ ReaderHolds(q2, durable, graph)
    BY <2>3 DEF ReaderType, ReaderHolds
  <2> QED
    BY <1>4, <2>1, <2>4
<1>12. ASSUME NEW r \in Readers, ReadGraph(r)
       PROVE  Goal
  <2> DEFINE q == reader[r]
             q2 == [q EXCEPT !.pc = "done", !.downstream = downstream_datasets(q.start[1])]
  <2>1. /\ q.pc = "walk" /\ q.frontier = << >> /\ reader' = [reader EXCEPT ![r] = q2]
    BY <1>8, <1>12 DEF ReadGraph, Walked
  <2>2. q2 \in ReaderType /\ ReaderHolds(q2, durable, graph)
    BY <1>8, <2>1, ReaderCases, ReadGraphHolds
  <2> HIDE DEF q2
  <2> QED
    BY <1>4, <2>1, <2>2
<1>13. ASSUME NEW r \in Readers, ReadBelow(r)
       PROVE  Goal
  <2> DEFINE q == reader[r]
             q2 == [q EXCEPT !.pc = "above", !.downstream = downstream_datasets(q.dataset)]
  <2>1. /\ q.pc = "below" /\ reader' = [reader EXCEPT ![r] = q2]
    BY <1>8, <1>13 DEF ReadBelow
  <2>2. q2 \in ReaderType /\ ReaderHolds(q2, durable, graph)
    BY <1>8, <2>1, ReaderCases, ReadBelowHolds
  <2> HIDE DEF q2
  <2> QED
    BY <1>4, <2>1, <2>2
<1>14. ASSUME NEW r \in Readers, ReadAbove(r)
       PROVE  Goal
  <2> DEFINE q == reader[r]
             q2 == [q EXCEPT !.pc = "answer", !.upstream = upstream_datasets(q.dataset)]
  <2>1. /\ q.pc = "above" /\ reader' = [reader EXCEPT ![r] = q2]
    BY <1>8, <1>14 DEF ReadAbove
  <2>2. q2 \in ReaderType /\ ReaderHolds(q2, durable, graph)
    BY <1>8, <2>1, ReaderCases, ReadAboveHolds
  <2> HIDE DEF q2
  <2> QED
    BY <1>4, <2>1, <2>2
<1>15. ASSUME NEW r \in Readers, GraphChanges(r) \/ Return(r)
       PROVE  Goal
  <2>1. reader' = [reader EXCEPT ![r] = IdleReader]
    BY <1>15 DEF GraphChanges, Return
  <2> QED
    BY <1>4, <1>6, <2>1, IdleHolds
<1>16. ASSUME NEW w \in Writers,
              \/ \E event \in Events : RecordLineage(w, event)
              \/ SqliteInsert(w) \/ PostgresInsert(w)
              \/ CommitCall(w) \/ EndCall(w) \/ CallFails(w)
       PROVE  Goal
  <2>1. reader' = reader
    BY <1>16 DEF RecordLineage, SqliteInsert, PostgresInsert, CommitCall, EndCall, CallFails
  <2> QED
    BY <1>5, <2>1
<1>17. ASSUME OtherRollback \/ OtherCommit
       PROVE  Goal
  BY <1>5, <1>17 DEF OtherRollback, OtherCommit
<1>18. ASSUME UNCHANGED vars
       PROVE  Goal
  BY <1>5, <1>18 DEF vars
<1>19. Goal
  BY <1>7, <1>9, <1>10, <1>11, <1>12, <1>13, <1>14, <1>15, <1>16, <1>17, <1>18 DEF Next, Step
<1>20. IInv' <=> TablesInv' /\ ReadersTypeOK' /\ ReadersHold'
  BY DEF IInv, TypeOK, TablesInv, TablesTypeOK, ReadersTypeOK, ReaderType
<1> QED
  BY <1>2, <1>19, <1>20 DEF Goal

\* The invariant holds of an empty database.
LEMMA InitInv ==
    Init => IInv
<1> SUFFICES ASSUME Init
             PROVE  IInv
  OBVIOUS
<1>1. TypeOK
  BY QueriesAssumption DEF Init, TypeOK
<1>2. TablesHold
  BY FS_EmptySet DEF Init, TablesHold, Edges, DatasetSteps, Mappings
<1>3. CallsHold
  BY DEF Init, CallsHold, Committed, Follows, IdleWriter
<1>4. ReadersHold
  BY IdleHolds DEF Init, ReadersHold
<1> QED
  BY <1>1, <1>2, <1>3, <1>4 DEF IInv

\* The inductive invariant holds in every reachable state.
THEOREM Invariant == Spec => []IInv
<1>1. IInv /\ [Next]_vars => IInv'
  BY NextInv
<1> QED
  BY <1>1, InitInv, PTL DEF Spec

\* Tables, graph, calls and the locals of queries keep their types.
THEOREM TypeCorrect == Spec => []TypeOK
<1>1. IInv => TypeOK
  BY DEF IInv
<1> QED
  BY <1>1, Invariant, PTL

\* An answer lists every field that durable mappings lead to, whatever is written or
\* rolled back while the query walks: the fields visited are closed under them.
THEOREM ImpactAlwaysComplete == Spec => []ImpactIsComplete
<1>1. IInv => ImpactIsComplete
  <2> SUFFICES ASSUME IInv, NEW r \in Readers, reader[r].pc = "done"
               PROVE  Behind(FieldSteps(reader[r].known), reader[r].start)
                          \subseteq ToSet(reader[r].impacted)
    BY DEF ImpactIsComplete
  <2> DEFINE q == reader[r]
             steps == FieldSteps(q.known)
             listed == ToSet(q.impacted)
  <2>1. TablesInv /\ ReadersTypeOK /\ ReadersHold
    BY IInvParts
  <2>2. WalkHolds(q, durable, graph) /\ q.frontier = << >>
    BY <2>1 DEF ReadersHold, ReaderHolds
  <2>3. q \in Reader
    BY <2>1, ReaderCases DEF ReadersTypeOK
  <2>4. q.known \subseteq Row /\ q.known \subseteq rows /\ IsFiniteSet(q.known)
    BY <2>1, <2>2, <2>3, FS_Subset DEF Reader, WalkHolds, TablesInv, TablesHold
  <2>5. IsFiniteSet(steps)
    BY <2>4, EdgesFacts
  <2>6. {q.start} \cup listed \subseteq q.seen
    BY <2>2 DEF WalkHolds, ToSet
  <2>7. \A p \in steps : p[1] = q.start \/ p[1] \in listed => p[2] \in listed
    <3>1. \A p \in steps : \E m \in Mappings(q.known) : p[1] = Input(m) /\ p[2] = Output(m)
      BY DEF FieldSteps
    <3>2. \A m \in Mappings(q.known) : Input(m) \in q.seen => Output(m) \in listed
      BY <2>2 DEF WalkHolds
    <3> HIDE DEF q, steps, listed
    <3> QED
      BY <2>6, <3>1, <3>2
  <2> HIDE DEF q, steps, listed
  <2>8. Behind(steps, q.start) \subseteq listed
    BY <2>5, <2>7, BehindLeast
  <2> QED
    BY <2>8 DEF q, steps, listed
<1> QED
  BY <1>1, Invariant, PTL

\* The two halves of an answer agree: what the tables say of fields never goes beyond
\* what the graph says of datasets.
THEOREM ImpactAlwaysDownstream == Spec => []ImpactIsDownstream
<1>1. IInv => ImpactIsDownstream
  BY DEF IInv, ReadersHold, ReaderHolds, ImpactIsDownstream
<1> QED
  BY <1>1, Invariant, PTL
===============================================================================
