----------------------- MODULE IngestionPipelineProofs -----------------------
(***************************************************************************)
(* The safety properties of IngestionPipeline, for any number of workers,  *)
(* any queue size and any bounds: IInv is inductive.                       *)
(***************************************************************************)
EXTENDS IngestionPipeline, FiniteSetTheorems, TLAPS

\* Pills and event numbers are naturals, told apart by being 0 or not.
LEMMA Items == Event \cup {Pill} = 0..MaxAccepted /\ Event \subseteq Nat \ {Pill}
BY PipelineAssumption DEF Event, Pill

LEMMA PillCount ==
    /\ Cardinality(Workers) \in Nat
    /\ Cardinality({}) = 0
BY FS_CardinalityType, FS_EmptySet, PipelineAssumption

\* A step of a worker creates and removes no task.
LEMMA TasksStay ==
    ASSUME IInv, UNCHANGED stop,
           \A w \in Workers : At(w, "absent")' <=> At(w, "absent")
    PROVE  AllTasks'
<1>1. Tasks' = Tasks
  BY DEF Tasks
<1> QED
  BY <1>1 DEF IInv, AllTasks

\* What put_nowait and put leave in the queue.
LEMMA PutFacts ==
    ASSUME IInv, NEW x \in Event \cup {Pill},
           queue' = Append(queue, x), Len(queue) < max_queue
    PROVE  /\ queue' \in Seq(Event \cup {Pill})
           /\ Len(queue') <= max_queue
           /\ DOMAIN queue' = DOMAIN queue \cup {Len(queue) + 1}
           /\ DOMAIN queue = 1..Len(queue) /\ Len(queue) \in Nat
           /\ \A i \in DOMAIN queue : queue'[i] = queue[i]
           /\ queue'[Len(queue) + 1] = x
           /\ Queued' = Queued \cup ({x} \ {Pill})
<1>1. queue \in Seq(Event \cup {Pill})
  BY DEF IInv, TypeOK
<1>2. /\ queue' \in Seq(Event \cup {Pill})
      /\ Len(queue') = Len(queue) + 1
      /\ DOMAIN queue = 1..Len(queue) /\ Len(queue) \in Nat
      /\ DOMAIN queue' = 1..(Len(queue) + 1)
      /\ \A i \in DOMAIN queue : queue'[i] = queue[i]
      /\ queue'[Len(queue) + 1] = x
  BY <1>1
<1>3. Len(queue') <= max_queue
  BY <1>2, PipelineAssumption
<1>4. DOMAIN queue' = DOMAIN queue \cup {Len(queue) + 1}
  BY <1>2
<1>5. Queued' = Queued \cup ({x} \ {Pill})
  BY <1>2, <1>4 DEF Queued
<1> QED
  BY <1>2, <1>3, <1>4, <1>5

\* What get leaves in the queue.
LEMMA GetFacts ==
    ASSUME IInv, queue # << >>, queue' = Tail(queue)
    PROVE  /\ queue' \in Seq(Event \cup {Pill})
           /\ Len(queue') <= max_queue
           /\ 1 \in DOMAIN queue /\ Head(queue) = queue[1]
           /\ Head(queue) \in Event \cup {Pill}
           /\ DOMAIN queue' \subseteq Nat /\ DOMAIN queue \subseteq Nat
           /\ \A i \in DOMAIN queue' : 1 < i + 1 /\ i + 1 \in DOMAIN queue /\ queue'[i] = queue[i + 1]
           /\ Queued = Queued' \cup ({Head(queue)} \ {Pill})
<1>1. queue \in Seq(Event \cup {Pill}) /\ Len(queue) <= max_queue
  BY DEF IInv, TypeOK
<1>2. /\ Len(queue) \in Nat \ {0}
      /\ DOMAIN queue = 1..Len(queue)
      /\ queue' \in Seq(Event \cup {Pill})
      /\ Len(queue') = Len(queue) - 1
      /\ DOMAIN queue' = 1..(Len(queue) - 1)
      /\ \A i \in 1..(Len(queue) - 1) : queue'[i] = queue[i + 1]
      /\ Head(queue) = queue[1] /\ Head(queue) \in Event \cup {Pill}
  BY <1>1
<1>3. Len(queue') <= max_queue
  BY <1>1, <1>2, PipelineAssumption
<1>4. \A i \in DOMAIN queue' : 1 < i + 1 /\ i + 1 \in DOMAIN queue /\ queue'[i] = queue[i + 1]
  BY <1>2
<1>5. \A j \in DOMAIN queue : j = 1 \/ (j - 1 \in DOMAIN queue' /\ queue'[j - 1] = queue[j])
  BY <1>2
<1>6. Queued = Queued' \cup ({Head(queue)} \ {Pill})
  <2>1. \A e : e \in Queued <=> e # Pill /\ \E j \in DOMAIN queue : queue[j] = e
    BY DEF Queued
  <2>2. \A e : e \in Queued' <=> e # Pill /\ \E i \in DOMAIN queue' : queue'[i] = e
    BY DEF Queued, Pill
  <2>3. ASSUME NEW e \in Queued PROVE e \in Queued' \cup ({Head(queue)} \ {Pill})
    <3>1. PICK j \in DOMAIN queue : queue[j] = e /\ e # Pill
      BY <2>1
    <3>2. CASE j = 1
      BY <3>1, <3>2, <1>2
    <3>3. CASE j - 1 \in DOMAIN queue' /\ queue'[j - 1] = queue[j]
      BY <3>1, <3>3, <2>2
    <3> QED
      BY <3>2, <3>3, <1>5
  <2>4. ASSUME NEW e \in Queued' PROVE e \in Queued
    <3>1. PICK i \in DOMAIN queue' : queue'[i] = e /\ e # Pill
      BY <2>2
    <3> QED
      BY <3>1, <1>4, <2>1
  <2>5. Head(queue) # Pill => Head(queue) \in Queued
    BY <1>2, <2>1
  <2> QED
    BY <2>3, <2>4, <2>5
<1> QED
  BY <1>2, <1>3, <1>4, <1>6

-----------------------------------------------------------------------------
LEMMA InitInv == Init => IInv
<1> SUFFICES ASSUME Init PROVE IInv
  OBVIOUS
<1>1. Queued = {} /\ InHandler = {} /\ 1..accepted = {}
  BY DEF Init, Queued, InHandler
<1>2. TypeOK
  BY PillCount, PipelineAssumption DEF Init, TypeOK
<1>3. AcceptedInOnePlace
  BY <1>1 DEF AcceptedInOnePlace, Init
<1>4. HandlingIsEvent /\ QueueOrdered /\ LostHasFailed
  BY DEF Init, HandlingIsEvent, QueueOrdered, LostHasFailed, At
<1>5. PillsComeLast
  BY <1>1 DEF Init, PillsComeLast, At
<1>6. AllTasks
  BY DEF Init, AllTasks, Tasks, At
<1> QED
  BY <1>2, <1>3, <1>4, <1>5, <1>6 DEF IInv

\* start creates the workers: they wait, with no event.
LEMMA StartInv == IInv /\ start => IInv'
<1> SUFFICES ASSUME IInv, start PROVE IInv'
  OBVIOUS
<1>1. Queued' = Queued /\ InHandler' = InHandler
  BY DEF start, Queued, InHandler
<1>2. \A w \in Workers : task[w] = "absent" /\ task'[w] = "waiting" /\ event'[w] = event[w]
  BY DEF start, Tasks, At
<1>3. TypeOK'
  BY DEF IInv, TypeOK, start
<1>4. AcceptedInOnePlace'
  BY <1>1 DEF IInv, AcceptedInOnePlace, start
<1>5. HandlingIsEvent'
  BY <1>2 DEF IInv, HandlingIsEvent, At
<1>6. QueueOrdered'
  BY DEF IInv, QueueOrdered, start
<1>7. LostHasFailed'
  BY <1>2 DEF IInv, LostHasFailed, start, At
<1>8. stop.tasks = {}
  BY DEF IInv, AllTasks, start
<1>9. AllTasks'
  <2>1. Tasks' = Workers
    BY <1>2 DEF Tasks, At
  <2> QED
    BY <1>8, <2>1 DEF AllTasks, start
<1>10. PillsComeLast'
  <2>1. UNCHANGED <<queue, accepted, stop>>
    BY DEF start
  <2>2. \A w \in Workers : ~At(w, "exited") /\ ~At(w, "exited")'
    BY <1>2 DEF At
  <2> QED
    BY <1>1, <1>8, <2>1, <2>2 DEF IInv, PillsComeLast
<1> QED
  BY <1>3, <1>4, <1>5, <1>6, <1>7, <1>9, <1>10 DEF IInv

\* ingest puts the next number behind everything, or counts a refusal.
LEMMA IngestInv == IInv /\ ingest => IInv'
<1> SUFFICES ASSUME IInv, ingest PROVE IInv'
  OBVIOUS
<1>0. accepted \in 0..MaxAccepted /\ dropped \in 0..MaxDropped /\ {MaxAccepted, MaxDropped} \subseteq Nat
  BY PipelineAssumption DEF IInv, TypeOK
<1>1. UNCHANGED <<task, event, handled, lost, stop>> /\ InHandler' = InHandler
  BY DEF ingest, InHandler
<1>2. CASE UNCHANGED <<queue, accepted>>
  <2>1. dropped' \in 0..MaxDropped
    BY <1>0, <1>2 DEF ingest
  <2>2. Queued' = Queued
    BY <1>2 DEF Queued
  <2>3. TypeOK'
    BY <1>1, <1>2, <2>1 DEF IInv, TypeOK
  <2>4. AcceptedInOnePlace' /\ HandlingIsEvent' /\ QueueOrdered' /\ LostHasFailed' /\ PillsComeLast'
    BY <1>1, <1>2, <2>2 DEF IInv, AcceptedInOnePlace, HandlingIsEvent, QueueOrdered,
                            LostHasFailed, PillsComeLast, At
  <2>5. AllTasks'
    BY <1>1, TasksStay DEF At
  <2> QED
    BY <2>3, <2>4, <2>5 DEF IInv
<1>3. CASE /\ Len(queue) < max_queue
           /\ accepted < MaxAccepted
           /\ accepted' = accepted + 1
           /\ queue' = Append(queue, accepted + 1)
           /\ dropped' = dropped
  <2> DEFINE n == accepted + 1
  <2>1. n \in Event /\ accepted' = n /\ n \in Nat \ {Pill} /\ 1..n = 1..accepted \cup {n}
    BY <1>0, <1>3 DEF Event, Pill
  <2>2. /\ queue' \in Seq(Event \cup {Pill}) /\ Len(queue') <= max_queue
        /\ DOMAIN queue' = DOMAIN queue \cup {Len(queue) + 1}
        /\ DOMAIN queue = 1..Len(queue) /\ Len(queue) \in Nat
        /\ \A i \in DOMAIN queue : queue'[i] = queue[i]
        /\ queue'[Len(queue) + 1] = n
        /\ Queued' = Queued \cup {n}
    BY <1>3, <2>1, PutFacts
  <2>3. \A e \in Queued \cup InHandler \cup handled \cup lost : e \in Nat /\ e <= accepted
    BY <1>0 DEF IInv, AcceptedInOnePlace
  <2>4. TypeOK'
    BY <1>0, <1>1, <1>3, <2>2 DEF IInv, TypeOK
  <2>5. AcceptedInOnePlace'
    <3>1. (Queued \cup InHandler \cup handled \cup lost)' = 1..accepted'
      BY <1>1, <2>1, <2>2 DEF IInv, AcceptedInOnePlace
    <3>2. \A e \in Queued', f \in (InHandler \cup handled \cup lost)' : f < e
      BY <1>1, <2>1, <2>2, <2>3, <1>0 DEF IInv, AcceptedInOnePlace
    <3> QED
      BY <1>1, <3>1, <3>2 DEF IInv, AcceptedInOnePlace
  <2>6. QueueOrdered'
    <3>1. \A i \in DOMAIN queue : queue[i] # Pill => queue[i] \in Queued
      BY DEF Queued
    <3>2. \A i \in DOMAIN queue : queue[i] # Pill => queue[i] < n
      BY <3>1, <2>3, <1>0
    <3> SUFFICES ASSUME NEW i \in DOMAIN queue', NEW j \in DOMAIN queue',
                        i < j, queue'[i] # Pill, queue'[j] # Pill
                 PROVE  queue'[i] < queue'[j]
      BY DEF QueueOrdered
    <3>3. i \in DOMAIN queue
      BY <2>2
    <3> QED
      BY <2>2, <3>2, <3>3 DEF IInv, QueueOrdered
  <2>7. PillsComeLast'
    <3>1. stop.before \in Nat /\ stop.before <= accepted
      BY DEF IInv, PillsComeLast, TypeOK
    <3>2. stop.before < n
      BY <3>1, <1>0
    <3>3. \A w \in Workers : At(w, "exited")' <=> At(w, "exited")
      BY <1>1 DEF At
    <3>4. \A i, j \in DOMAIN queue' :
            i < j /\ queue'[i] = Pill /\ queue'[j] # Pill => stop.before < queue'[j]
      BY <2>2, <3>2 DEF IInv, PillsComeLast
    <3>5. stop.tasks = {} => \A i \in DOMAIN queue' : queue'[i] # Pill
      BY <2>1, <2>2 DEF IInv, PillsComeLast
    <3>6. (\E w \in Workers : At(w, "exited")) => \A e \in Queued' : stop.before < e
      BY <2>2, <3>2 DEF IInv, PillsComeLast
    <3>7. stop.before <= accepted'
      BY <3>1, <1>0, <2>1
    <3>8. stop.pc = "returned" => \A w \in stop.tasks : At(w, "exited")'
      BY <1>1 DEF IInv, PillsComeLast, At
    <3> QED
      BY <1>1, <3>3, <3>4, <3>5, <3>6, <3>7, <3>8 DEF IInv, PillsComeLast
  <2>8. HandlingIsEvent' /\ LostHasFailed'
    BY <1>1 DEF IInv, HandlingIsEvent, LostHasFailed, At
  <2>9. AllTasks'
    BY <1>1, TasksStay DEF At
  <2> QED
    BY <2>4, <2>5, <2>6, <2>7, <2>8, <2>9 DEF IInv
<1> QED
  BY <1>2, <1>3 DEF ingest

-----------------------------------------------------------------------------
\* A worker takes the oldest element: an event moves into its hands, a pill
\* means that everything accepted before stop() has left the queue.
LEMMA TakeInv == ASSUME IInv, NEW w \in Workers, Take(w) PROVE IInv'
<1> DEFINE x == Head(queue)
<1>1. /\ queue' \in Seq(Event \cup {Pill}) /\ Len(queue') <= max_queue
      /\ 1 \in DOMAIN queue /\ x = queue[1]
      /\ x \in Event \cup {Pill}
      /\ DOMAIN queue' \subseteq Nat /\ DOMAIN queue \subseteq Nat
      /\ \A i \in DOMAIN queue' : 1 < i + 1 /\ i + 1 \in DOMAIN queue /\ queue'[i] = queue[i + 1]
      /\ Queued = Queued' \cup ({x} \ {Pill})
  BY GetFacts DEF Take
<1>2. /\ event' = [event EXCEPT ![w] = x]
      /\ task' = [task EXCEPT ![w] = IF x = Pill THEN "exited" ELSE "handling"]
      /\ UNCHANGED <<accepted, dropped, handled, lost, stop>>
      /\ task[w] = "waiting"
  BY DEF Take, Resume, At
<1> HIDE DEF x
<1>3. TypeOK'
  BY <1>1, <1>2, Items DEF IInv, TypeOK
<1>4. event[w] = 0 /\ event'[w] = x /\ \A v \in Workers \ {w} : event'[v] = event[v]
  BY <1>2 DEF IInv, TypeOK, HandlingIsEvent, At
<1>5. InHandler' = InHandler \cup ({x} \ {Pill})
  <2>1. \A e : e \in InHandler <=> e # 0 /\ \E v \in Workers : event[v] = e
    BY DEF InHandler
  <2>2. \A e : e \in InHandler' <=> e # 0 /\ \E v \in Workers : event'[v] = e
    BY DEF InHandler
  <2> QED
    BY <2>1, <2>2, <1>4 DEF Pill
<1>6. \A e \in Queued' : x # Pill => x < e
  <2> SUFFICES ASSUME NEW e \in Queued', x # Pill PROVE x < e
    OBVIOUS
  <2>1. PICK i \in DOMAIN queue' : queue'[i] = e /\ e # Pill
    BY DEF Queued, Pill
  <2> QED
    BY <2>1, <1>1 DEF IInv, QueueOrdered
<1>7. AcceptedInOnePlace'
  <2>1. (Queued \cup InHandler \cup handled \cup lost)' = 1..accepted'
    BY <1>1, <1>2, <1>5 DEF IInv, AcceptedInOnePlace
  <2>2. \A e \in Queued', f \in (InHandler \cup handled \cup lost)' : f < e
    BY <1>1, <1>2, <1>5, <1>6 DEF IInv, AcceptedInOnePlace
  <2>3. x # Pill => x \notin InHandler \cup handled \cup lost
    <3>1. x # Pill => x \in Queued /\ x \in Nat
      BY <1>1, Items
    <3> QED
      BY <3>1 DEF IInv, AcceptedInOnePlace
  <2>4. (InHandler \cap (handled \cup lost))' = {}
    BY <1>2, <1>5, <2>3 DEF IInv, AcceptedInOnePlace
  <2>5. \A u, v \in Workers : event'[u] = event'[v] /\ event'[u] # 0 => u = v
    <3>1. \A v \in Workers : event[v] # 0 => event[v] \in InHandler
      BY DEF InHandler
    <3> QED
      BY <1>4, <2>3, <3>1 DEF IInv, AcceptedInOnePlace, Pill
  <2> QED
    BY <1>2, <2>1, <2>2, <2>4, <2>5 DEF IInv, AcceptedInOnePlace
<1>8. HandlingIsEvent'
  <2>1. \A v \in Workers \ {w} : task'[v] = task[v]
    BY <1>2
  <2>2. task'[w] = IF x = Pill THEN "exited" ELSE "handling"
    BY <1>2 DEF IInv, TypeOK
  <2> QED
    BY <1>4, <2>1, <2>2 DEF IInv, HandlingIsEvent, At, Pill
<1>9. QueueOrdered'
  <2> SUFFICES ASSUME NEW i \in DOMAIN queue', NEW j \in DOMAIN queue',
                      i < j, queue'[i] # Pill, queue'[j] # Pill
               PROVE  queue'[i] < queue'[j]
    BY DEF QueueOrdered, Pill
  <2>1. i + 1 < j + 1
    BY <1>1
  <2> QED
    BY <1>1, <2>1 DEF IInv, QueueOrdered
<1>10. LostHasFailed'
  <2>1. \A v \in Workers : task[v] = "failed" => task'[v] = "failed"
    BY <1>2 DEF IInv, TypeOK
  <2> QED
    BY <1>2, <2>1 DEF IInv, LostHasFailed, At
<1>11. PillsComeLast'
  <2>1. \A v \in Workers : task[v] = "exited" => task'[v] = "exited"
    BY <1>2 DEF IInv, TypeOK
  <2>2. \A v \in Workers : task'[v] = "exited" => task[v] = "exited" \/ x = Pill
    BY <1>2 DEF IInv, TypeOK
  <2>3. stop.tasks = {} => x # Pill /\ \A i \in DOMAIN queue' : queue'[i] # Pill
    BY <1>1 DEF IInv, PillsComeLast
  <2>4. \A i, j \in DOMAIN queue' :
          i < j /\ queue'[i] = Pill /\ queue'[j] # Pill => stop.before < queue'[j]
    <3> SUFFICES ASSUME NEW i \in DOMAIN queue', NEW j \in DOMAIN queue',
                        i < j, queue'[i] = Pill, queue'[j] # Pill
                 PROVE  stop.before < queue'[j]
      OBVIOUS
    <3>1. i + 1 < j + 1
      BY <1>1
    <3> QED
      BY <1>1, <3>1 DEF IInv, PillsComeLast
  <2>5. ASSUME x = Pill, NEW e \in Queued' PROVE stop.before < e
    <3>1. PICK i \in DOMAIN queue' : queue'[i] = e /\ e # Pill
      BY DEF Queued, Pill
    <3> QED
      BY <2>5, <3>1, <1>1 DEF IInv, PillsComeLast
  <2>6. (\E v \in Workers : At(v, "exited")') => \A e \in Queued' : stop.before < e
    BY <2>2, <2>5, <1>1 DEF IInv, PillsComeLast, At
  <2> QED
    BY <1>2, <2>1, <2>2, <2>3, <2>4, <2>6 DEF IInv, TypeOK, PillsComeLast, At, Pill
<1>12. AllTasks'
  BY <1>2, TasksStay DEF IInv, TypeOK, At
<1> QED
  BY <1>3, <1>7, <1>8, <1>9, <1>10, <1>11, <1>12 DEF IInv

\* Either way a handler ends, its event is no longer in the worker's hands.
LEMMA HandlerInv ==
    ASSUME IInv, NEW w \in Workers, HandlerReturns(w) \/ HandlerRaises(w)
    PROVE  IInv'
<1> DEFINE e == event[w]
<1>1. /\ task[w] = "handling" /\ e \in Event /\ e # 0
      /\ e \in InHandler
  BY Items DEF HandlerReturns, HandlerRaises, HandlerEnds, At, IInv, TypeOK,
               HandlingIsEvent, InHandler, Event
<1>2. /\ event' = [event EXCEPT ![w] = 0]
      /\ UNCHANGED <<queue, accepted, dropped, stop>>
      /\ \/ /\ task' = [task EXCEPT ![w] = "waiting"]
            /\ handled' = handled \cup {e} /\ lost' = lost
         \/ /\ task' = [task EXCEPT ![w] = "failed"]
            /\ lost' = lost \cup {e} /\ handled' = handled
  BY DEF HandlerReturns, HandlerRaises, HandlerEnds
<1> HIDE DEF e
<1>3. TypeOK'
  <2>1. MaxAccepted \in Nat /\ 0 \in 0..MaxAccepted
    BY PipelineAssumption
  <2>2. event' \in [Workers -> 0..MaxAccepted]
    BY <1>2, <2>1 DEF IInv, TypeOK
  <2>3. task' \in [Workers -> {"absent", "waiting", "handling", "exited", "failed"}]
    BY <1>2 DEF IInv, TypeOK
  <2>4. handled' \subseteq Event /\ lost' \subseteq Event
    BY <1>1, <1>2 DEF IInv, TypeOK
  <2> QED
    BY <1>2, <2>2, <2>3, <2>4 DEF IInv, TypeOK
<1>4. event'[w] = 0 /\ \A v \in Workers \ {w} : event'[v] = event[v] /\ event[v] # e
  BY <1>1, <1>2 DEF IInv, TypeOK, AcceptedInOnePlace, e
<1>5. InHandler' = InHandler \ {e}
  <2>1. \A f : f \in InHandler <=> f # 0 /\ \E v \in Workers : event[v] = f
    BY DEF InHandler
  <2>2. \A f : f \in InHandler' <=> f # 0 /\ \E v \in Workers : event'[v] = f
    BY DEF InHandler
  <2> QED
    BY <2>1, <2>2, <1>4 DEF e
<1>6. Queued' = Queued
  BY <1>2 DEF Queued
<1>7. AcceptedInOnePlace'
  <2>1. (handled \cup lost)' = handled \cup lost \cup {e}
    BY <1>2
  <2>2. (handled \cap lost)' = {}
    BY <1>1, <1>2 DEF IInv, AcceptedInOnePlace
  <2>3. (InHandler \cup handled \cup lost)' = InHandler \cup handled \cup lost
    BY <1>1, <1>5, <2>1
  <2>4. (InHandler \cap (handled \cup lost))' = {}
    BY <1>5, <2>1 DEF IInv, AcceptedInOnePlace
  <2>5. \A u, v \in Workers : event'[u] = event'[v] /\ event'[u] # 0 => u = v
    BY <1>4 DEF IInv, AcceptedInOnePlace
  <2> QED
    BY <1>2, <1>6, <2>2, <2>3, <2>4, <2>5 DEF IInv, AcceptedInOnePlace
<1>8. \A v \in Workers \ {w} : task'[v] = task[v]
  BY <1>2 DEF IInv, TypeOK
<1>9. task'[w] \in {"waiting", "failed"} /\ (lost' # lost => task'[w] = "failed")
  BY <1>2 DEF IInv, TypeOK
<1>10. HandlingIsEvent'
  BY <1>4, <1>8, <1>9 DEF IInv, HandlingIsEvent, At
<1>11. QueueOrdered'
  BY <1>2 DEF IInv, QueueOrdered
<1>12. LostHasFailed'
  BY <1>1, <1>8, <1>9 DEF IInv, LostHasFailed, At
<1>13. PillsComeLast'
  <2>1. \A v \in Workers : At(v, "exited")' <=> At(v, "exited")
    BY <1>1, <1>8, <1>9 DEF At
  <2> QED
    BY <1>2, <1>6, <2>1 DEF IInv, TypeOK, PillsComeLast
<1>14. AllTasks'
  <2>1. \A v \in Workers : At(v, "absent")' <=> At(v, "absent")
    BY <1>1, <1>8, <1>9 DEF At
  <2> QED
    BY <1>2, <2>1, TasksStay
<1> QED
  BY <1>3, <1>7, <1>10, <1>11, <1>12, <1>13, <1>14 DEF IInv

-----------------------------------------------------------------------------
\* The steps of stop() other than putting a pill touch nothing but `stop'.
LEMMA StopInv ==
    ASSUME IInv, StopCalled \/ StartGather \/ Gather
    PROVE  IInv'
<1>1. UNCHANGED <<queue, task, event, accepted, dropped, handled, lost>>
  BY DEF StopCalled, StartGather, Gather, Stop
<1>2. /\ Queued' = Queued /\ InHandler' = InHandler /\ Tasks' = Tasks
      /\ \A w \in Workers : \A p : At(w, p)' <=> At(w, p)
  BY <1>1 DEF Queued, InHandler, Tasks, At
<1>3. accepted \in 0..MaxAccepted /\ stop.calls \in Nat
  BY DEF IInv, TypeOK
<1>4. /\ stop' \in [pc    : {"idle", "putting", "gather", "returned", "raised"},
                     tasks : SUBSET Workers,
                     pills : 0..Cardinality(Workers),
                     calls : 0..MaxStops,
                     before : 0..MaxAccepted]
      /\ stop'.tasks \in {stop.tasks, Tasks}
      /\ stop'.tasks = {} => stop.tasks = {} /\ stop'.pc = "returned"
      /\ stop'.before = stop.before \/ (stop.tasks = {} /\ stop'.before = accepted)
      /\ stop'.pc = "returned" => \A w \in stop'.tasks : At(w, "exited")
  <2>1. CASE StopCalled
    <3>1. stop' = [pc     |-> IF Tasks = {} THEN "returned" ELSE "putting",
                   tasks  |-> Tasks,
                   pills  |-> Cardinality(Tasks),
                   calls  |-> stop.calls + 1,
                   before |-> IF stop.tasks = {} THEN accepted ELSE stop.before]
      BY <2>1 DEF StopCalled, Stop
    <3>2. Tasks \in SUBSET Workers /\ stop.tasks \in {{}, Tasks}
      BY DEF IInv, AllTasks
    <3>3. Cardinality(Tasks) \in 0..Cardinality(Workers)
      BY PillCount DEF IInv, AllTasks
    <3>4. stop.calls + 1 \in 0..MaxStops
      BY <1>3, <2>1, PipelineAssumption DEF StopCalled
    <3>5. (IF stop.tasks = {} THEN accepted ELSE stop.before) \in 0..MaxAccepted
      BY <1>3 DEF IInv, TypeOK
    <3> QED
      BY <3>1, <3>2, <3>3, <3>4, <3>5
  <2>2. CASE StartGather \/ Gather
    <3>1. stop.pc \in {"putting", "gather"} /\ stop.tasks # {}
      BY <2>2 DEF StartGather, Gather, IInv, PillsComeLast
    <3>2. /\ stop' = [stop EXCEPT !.pc = stop'.pc]
          /\ stop'.pc \in {"gather", "returned", "raised"}
      BY <2>2 DEF StartGather, Gather, Stop, IInv, TypeOK
    <3>3. stop'.pc = "returned" => \A w \in stop.tasks : At(w, "exited")
      BY <2>2 DEF StartGather, Gather, Stop, IInv, TypeOK
    <3> QED
      BY <3>1, <3>2, <3>3 DEF IInv, TypeOK
  <2> QED
    BY <2>1, <2>2
<1>5. TypeOK'
  BY <1>1, <1>4 DEF IInv, TypeOK
<1>6. AcceptedInOnePlace' /\ HandlingIsEvent' /\ QueueOrdered' /\ LostHasFailed'
  BY <1>1, <1>2 DEF IInv, AcceptedInOnePlace, HandlingIsEvent, QueueOrdered, LostHasFailed, At
<1>7. AllTasks'
  BY <1>2, <1>4 DEF IInv, AllTasks
<1>8. PillsComeLast'
  <2>1. stop'.before <= accepted
    BY <1>3, <1>4 DEF IInv, PillsComeLast
  <2>2. stop.tasks = {} => /\ \A i \in DOMAIN queue : queue[i] # Pill
                          /\ \A w \in Workers : ~At(w, "exited")
    BY DEF IInv, PillsComeLast
  <2>3. \A i, j \in DOMAIN queue :
          i < j /\ queue[i] = Pill /\ queue[j] # Pill => stop'.before < queue[j]
    BY <1>4, <2>2 DEF IInv, PillsComeLast
  <2>4. (\E w \in Workers : At(w, "exited")) => \A e \in Queued : stop'.before < e
    BY <1>4, <2>2 DEF IInv, PillsComeLast
  <2>5. stop'.tasks \subseteq Workers
    BY <1>4
  <2>6. stop'.pc = "returned" => \A w \in stop'.tasks : task[w] = "exited"
    BY <1>4 DEF At
  <2> QED
    BY <1>1, <1>2, <1>4, <2>1, <2>2, <2>3, <2>4, <2>5, <2>6 DEF PillsComeLast, At
<1> QED
  BY <1>5, <1>6, <1>7, <1>8 DEF IInv

\* A pill goes behind everything queued.
LEMMA PutPillInv == IInv /\ PutPill => IInv'
<1> SUFFICES ASSUME IInv, PutPill PROVE IInv'
  OBVIOUS
<1>1. /\ UNCHANGED <<task, event, accepted, dropped, handled, lost>>
      /\ queue' = Append(queue, Pill) /\ Len(queue) < max_queue
      /\ stop.pc = "putting" /\ stop.pills > 0
      /\ stop' = [stop EXCEPT !.pills = @ - 1]
  BY DEF PutPill, Stop
<1>2. /\ queue' \in Seq(Event \cup {Pill}) /\ Len(queue') <= max_queue
      /\ DOMAIN queue' = DOMAIN queue \cup {Len(queue) + 1}
      /\ DOMAIN queue = 1..Len(queue) /\ Len(queue) \in Nat
      /\ \A i \in DOMAIN queue : queue'[i] = queue[i]
      /\ queue'[Len(queue) + 1] = Pill
      /\ Queued' = Queued
  BY <1>1, PutFacts
<1>3. /\ stop'.pills \in 0..Cardinality(Workers)
      /\ stop'.pc = "putting" /\ stop'.tasks = stop.tasks /\ stop'.before = stop.before
      /\ stop' \in [pc    : {"idle", "putting", "gather", "returned", "raised"},
                     tasks : SUBSET Workers,
                     pills : 0..Cardinality(Workers),
                     calls : 0..MaxStops,
                     before : 0..MaxAccepted]
  <2>1. stop.pills - 1 \in 0..Cardinality(Workers)
    BY <1>1, PillCount DEF IInv, TypeOK
  <2> DEFINE n == stop.pills - 1
  <2>2. stop' = [stop EXCEPT !.pills = n] /\ n \in 0..Cardinality(Workers)
    BY <1>1, <2>1
  <2> HIDE DEF n
  <2> QED
    BY <1>1, <2>2 DEF IInv, TypeOK
<1>4. TypeOK'
  BY <1>1, <1>2, <1>3 DEF IInv, TypeOK
<1>5. InHandler' = InHandler /\ \A w \in Workers : \A p : At(w, p)' <=> At(w, p)
  BY <1>1 DEF InHandler, At
<1>6. AcceptedInOnePlace' /\ HandlingIsEvent' /\ LostHasFailed'
  BY <1>1, <1>2, <1>5 DEF IInv, AcceptedInOnePlace, HandlingIsEvent, LostHasFailed, At
<1>7. QueueOrdered'
  BY <1>2 DEF IInv, QueueOrdered
<1>8. PillsComeLast'
  <2>1. stop.tasks # {}
    BY <1>1 DEF IInv, PillsComeLast
  <2>2. \A i, j \in DOMAIN queue' :
          i < j /\ queue'[i] = Pill /\ queue'[j] # Pill => stop.before < queue'[j]
    BY <1>2 DEF IInv, PillsComeLast
  <2> QED
    BY <1>1, <1>2, <1>3, <2>1, <2>2 DEF IInv, PillsComeLast, At
<1>9. AllTasks'
  BY <1>1, <1>3 DEF IInv, AllTasks, Tasks, At
<1> QED
  BY <1>4, <1>6, <1>7, <1>8, <1>9 DEF IInv

-----------------------------------------------------------------------------
LEMMA NextInv == IInv /\ [Next]_vars => IInv'
<1> SUFFICES ASSUME IInv, [Next]_vars PROVE IInv'
  OBVIOUS
<1>1. CASE start
  BY <1>1, StartInv
<1>2. CASE ingest
  BY <1>2, IngestInv
<1>3. CASE \E w \in Workers : Work(w)
  BY <1>3, TakeInv, HandlerInv DEF Work
<1>4. CASE StopCalled \/ StartGather \/ Gather
  BY <1>4, StopInv
<1>5. CASE PutPill
  BY <1>5, PutPillInv
<1>6. CASE UNCHANGED vars
  BY <1>6 DEF vars, IInv, TypeOK, AcceptedInOnePlace, HandlingIsEvent, QueueOrdered,
              LostHasFailed, AllTasks, Tasks, PillsComeLast, Queued, InHandler, At
<1> QED
  BY <1>1, <1>2, <1>3, <1>4, <1>5, <1>6 DEF Next

\* The inductive invariant holds in every reachable state.
THEOREM Invariant == Spec => []IInv
BY InitInv, NextInv, PTL DEF Spec

\* The queue never holds more than max_queue elements, whatever ingest and
\* stop() put into it, and every variable keeps its type.
THEOREM TypeCorrect == Spec => []TypeOK
<1>1. IInv => TypeOK
  BY DEF IInv
<1> QED
  BY <1>1, Invariant, PTL

\* Accepted events are never duplicated or dropped, and are taken in order.
THEOREM NothingMislaid == Spec => []AcceptedInOnePlace
<1>1. IInv => AcceptedInOnePlace
  BY DEF IInv
<1> QED
  BY <1>1, Invariant, PTL

\* A stop() that had workers to wait for, and returns, has drained what was accepted
\* before it.
THEOREM StopDrains == Spec => []ReturnedIsDrained
<1>1. IInv => ReturnedIsDrained
  <2> SUFFICES ASSUME IInv, stop.pc = "returned", stop.tasks # {}, NEW e \in 1..stop.before
               PROVE  e \in handled
    BY DEF ReturnedIsDrained
  <2>1. stop.tasks = Workers
    BY DEF IInv, AllTasks
  <2>2. Workers # {} /\ \A w \in Workers : task[w] = "exited"
    BY <2>1 DEF IInv, PillsComeLast, At
  <2>3. InHandler = {}
    BY <2>2 DEF IInv, HandlingIsEvent, At, InHandler
  <2>4. lost = {}
    BY <2>2 DEF IInv, LostHasFailed, At
  <2>5. accepted \in Nat /\ stop.before \in Nat /\ stop.before <= accepted
    BY PipelineAssumption DEF IInv, TypeOK, PillsComeLast
  <2>6. e \in 1..accepted
    BY <2>5
  <2>7. e \notin Queued
    <3>1. \E w \in Workers : At(w, "exited")
      BY <2>2 DEF At
    <3>2. e \in Queued => stop.before < e
      BY <3>1 DEF IInv, PillsComeLast
    <3> QED
      BY <2>5, <3>2
  <2> QED
    BY <2>3, <2>4, <2>6, <2>7 DEF IInv, AcceptedInOnePlace
<1> QED
  BY <1>1, Invariant, PTL
=============================================================================
