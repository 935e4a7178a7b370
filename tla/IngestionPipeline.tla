-------------------------- MODULE IngestionPipeline --------------------------
(***************************************************************************)
(* The asyncio queue of ingestion/pipeline.py, its workers and stop().     *)
(* Coroutines interleave only at an await, so each action runs from one    *)
(* await to the next.  Accepted events are numbered in the order accepted. *)
(***************************************************************************)
EXTENDS Naturals, Sequences, FiniteSets

CONSTANTS Workers,      \* the tasks start creates: none for start(0)
          max_queue,
          MaxAccepted,  \* bound: events accepted
          MaxDropped,   \* bound: events refused
          MaxStops      \* bound: calls of stop, one after the other

ASSUME PipelineAssumption ==
    /\ IsFiniteSet(Workers)
    /\ max_queue \in Nat \ {0}
    /\ {MaxAccepted, MaxDropped, MaxStops} \subseteq Nat

VARIABLES queue,        \* event numbers and pills
          task,         \* where each worker is
          event,        \* the worker's local: the event in its handler, 0 if none
          accepted,     \* events ingest returned True for
          dropped,
          handled, lost,    \* events whose handler returned, or raised
          stop          \* the caller of stop: where it is, the workers its call found,
                        \* and what was accepted when a call first found any

vars == <<queue, task, event, accepted, dropped, handled, lost, stop>>

Pill == 0               \* None

Event == 1..MaxAccepted

At(w, place) == task[w] = place

Live == {w \in Workers : ~At(w, "exited") /\ ~At(w, "failed")}

\* self._workers: empty until start.
Tasks == {w \in Workers : ~At(w, "absent")}

TypeOK ==
    /\ queue \in Seq(Event \cup {Pill}) /\ Len(queue) <= max_queue
    /\ task \in [Workers -> {"absent", "waiting", "handling", "exited", "failed"}]
    /\ event \in [Workers -> 0..MaxAccepted]
    /\ accepted \in 0..MaxAccepted /\ dropped \in 0..MaxDropped
    /\ handled \subseteq Event /\ lost \subseteq Event
    /\ stop \in [pc    : {"idle", "putting", "gather", "returned", "raised"},
                 tasks : SUBSET Workers,
                 pills : 0..Cardinality(Workers),
                 calls : 0..MaxStops,
                 before : 0..MaxAccepted]

Init ==
    /\ queue = << >>
    /\ task = [w \in Workers |-> "absent"]
    /\ event = [w \in Workers |-> 0]
    /\ accepted = 0 /\ dropped = 0
    /\ handled = {} /\ lost = {}
    /\ stop = [pc |-> "idle", tasks |-> {}, pills |-> 0, calls |-> 0, before |-> 0]

start ==
    /\ Tasks = {}
    /\ task' = [w \in Workers |-> "waiting"]
    /\ UNCHANGED <<queue, event, accepted, dropped, handled, lost, stop>>

\* Mutant: a full queue loses the event and ingest still returns True.
ingestOverflows ==
    /\ accepted < MaxAccepted
    /\ accepted' = accepted + 1
    /\ queue' = IF Len(queue) < max_queue THEN Append(queue, accepted + 1) ELSE queue
    /\ UNCHANGED <<task, event, dropped, handled, lost, stop>>

ingest ==
    \/ /\ Len(queue) < max_queue
       /\ accepted < MaxAccepted
       /\ accepted' = accepted + 1
       /\ queue' = Append(queue, accepted + 1)
       /\ UNCHANGED <<task, event, dropped, handled, lost, stop>>
    \/ /\ Len(queue) = max_queue
       /\ dropped < MaxDropped
       /\ dropped' = dropped + 1
       /\ UNCHANGED <<queue, task, event, accepted, handled, lost, stop>>

\* A worker resumes with an element of the queue; a pill ends its loop.
Resume(w, item) ==
    /\ event' = [event EXCEPT ![w] = item]
    /\ task' = [task EXCEPT ![w] = IF item = Pill THEN "exited" ELSE "handling"]
    /\ UNCHANGED <<accepted, dropped, handled, lost, stop>>

\* Mutant: the queue gives out its newest element first.
TakeNewest(w) ==
    /\ At(w, "waiting")
    /\ queue # << >>
    /\ queue' = SubSeq(queue, 1, Len(queue) - 1)
    /\ Resume(w, queue[Len(queue)])

\* Mutant: a pill does not end the worker's loop.
TakeForever(w) ==
    /\ At(w, "waiting")
    /\ queue # << >>
    /\ queue' = Tail(queue)
    /\ IF Head(queue) = Pill
       THEN UNCHANGED <<task, event, accepted, dropped, handled, lost, stop>>
       ELSE Resume(w, Head(queue))

Take(w) ==
    /\ At(w, "waiting")
    /\ queue # << >>
    /\ queue' = Tail(queue)
    /\ Resume(w, Head(queue))

\* The handler ends, and the worker goes on or ends with it.
HandlerEnds(w, next) ==
    /\ At(w, "handling")
    /\ task' = [task EXCEPT ![w] = next]
    /\ event' = [event EXCEPT ![w] = 0]
    /\ UNCHANGED <<queue, accepted, dropped, stop>>

HandlerReturns(w) ==
    /\ HandlerEnds(w, "waiting")
    /\ handled' = handled \cup {event[w]}
    /\ UNCHANGED lost

\* Mutant: the exception is swallowed outside the worker's loop.
HandlerRaisesQuietly(w) ==
    /\ HandlerEnds(w, "exited")
    /\ lost' = lost \cup {event[w]}
    /\ UNCHANGED handled

\* The exception ends the worker, and its event is gone.
HandlerRaises(w) ==
    /\ HandlerEnds(w, "failed")
    /\ lost' = lost \cup {event[w]}
    /\ UNCHANGED handled

-----------------------------------------------------------------------------
(* stop *)

Stop(next) ==
    /\ stop' = next
    /\ UNCHANGED <<task, event, accepted, dropped, handled, lost>>

\* Without workers no pill is put, and gather of nothing returns at once.
StopCalled ==
    /\ stop.pc \in {"idle", "returned", "raised"} /\ stop.calls < MaxStops
    /\ Stop([pc     |-> IF Tasks = {} THEN "returned" ELSE "putting",
             tasks  |-> Tasks,
             pills  |-> Cardinality(Tasks),
             calls  |-> stop.calls + 1,
             before |-> IF stop.tasks = {} THEN accepted ELSE stop.before])
    /\ UNCHANGED queue

\* Mutant: the pills are put without waiting for room.
PutPillNow ==
    /\ stop.pc = "putting" /\ stop.pills > 0
    /\ queue' = Append(queue, Pill)
    /\ Stop([stop EXCEPT !.pills = @ - 1])

\* put waits for room, one pill for every worker.
PutPill ==
    /\ stop.pc = "putting" /\ stop.pills > 0
    /\ Len(queue) < max_queue
    /\ queue' = Append(queue, Pill)
    /\ Stop([stop EXCEPT !.pills = @ - 1])

StartGather ==
    /\ stop.pc = "putting" /\ stop.pills = 0
    /\ Stop([stop EXCEPT !.pc = "gather"])
    /\ UNCHANGED queue

\* gather returns when every worker has, and raises as soon as one has failed.
Gather ==
    /\ stop.pc = "gather"
    /\ \/ /\ \A w \in stop.tasks : At(w, "exited")
          /\ Stop([stop EXCEPT !.pc = "returned"])
       \/ /\ \E w \in stop.tasks : At(w, "failed")
          /\ Stop([stop EXCEPT !.pc = "raised"])
    /\ UNCHANGED queue

Work(w) == Take(w) \/ HandlerReturns(w) \/ HandlerRaises(w)

Next ==
    \/ start
    \/ ingest
    \/ \E w \in Workers : Work(w)
    \/ StopCalled
    \/ PutPill
    \/ StartGather
    \/ Gather

Spec == Init /\ [][Next]_vars

\* The event loop resumes every coroutine that can go on, and handlers end.
FairSpec ==
    /\ Spec
    /\ WF_vars(start)
    /\ \A w \in Workers : WF_vars(Work(w))
    /\ WF_vars(PutPill) /\ WF_vars(StartGather) /\ WF_vars(Gather)

-----------------------------------------------------------------------------
(* Properties *)

Queued == {queue[i] : i \in DOMAIN queue} \ {Pill}

InHandler == {event[w] : w \in Workers} \ {0}

\* Every event ingest accepted is in exactly one place: queued, in a handler,
\* handled, or lost with the handler that raised.  Events reach the handlers in
\* the order they were accepted.
AcceptedInOnePlace ==
    /\ Queued \cup InHandler \cup handled \cup lost = 1..accepted
    /\ \A e \in Queued, f \in InHandler \cup handled \cup lost : f < e
    /\ handled \cap lost = {}
    /\ InHandler \cap (handled \cup lost) = {}
    /\ \A v, w \in Workers : event[v] = event[w] /\ event[v] # 0 => v = w

\* A stop() that had workers to wait for, and returns, has drained the queue: every
\* event accepted before such a stop() was first called went through its handler, and
\* none of the handlers raised.  (One that finds no workers, before start or after
\* start(0), returns with everything still queued.)
ReturnedIsDrained ==
    stop.pc = "returned" /\ stop.tasks # {} => 1..stop.before \subseteq handled

\* What the two invariants above rest on.
HandlingIsEvent == \A w \in Workers : At(w, "handling") <=> event[w] # 0

QueueOrdered ==
    \A i, j \in DOMAIN queue :
        i < j /\ queue[i] # Pill /\ queue[j] # Pill => queue[i] < queue[j]

LostHasFailed == lost # {} => \E w \in Workers : At(w, "failed")

\* start creates all workers, and a stop() that finds any finds them all.
AllTasks ==
    /\ Tasks \in {{}, Workers}
    /\ stop.tasks \in {{}, Tasks}

\* The pills of stop() come behind every event accepted before it first found
\* workers, so a worker that ended by a pill has left none of them in the queue.
PillsComeLast ==
    /\ stop.before <= accepted
    /\ stop.tasks = {} =>
          /\ \A i \in DOMAIN queue : queue[i] # Pill
          /\ \A w \in Workers : ~At(w, "exited")
          /\ stop.pc \in {"idle", "returned"}
    /\ \A i, j \in DOMAIN queue :
          i < j /\ queue[i] = Pill /\ queue[j] # Pill => stop.before < queue[j]
    /\ (\E w \in Workers : At(w, "exited")) => \A e \in Queued : stop.before < e
    /\ stop.pc = "returned" => \A w \in stop.tasks : At(w, "exited")

IInv ==
    /\ TypeOK
    /\ AcceptedInOnePlace
    /\ HandlingIsEvent
    /\ QueueOrdered
    /\ LostHasFailed
    /\ AllTasks
    /\ PillsComeLast

\* An accepted event reaches its handler unless every worker has ended.
AcceptedIsTaken ==
    \A e \in Event : e <= accepted ~> (e \in handled \cup lost \/ Live = {})

\* stop() ends unless its pills do not fit and no worker is left to take one.
StopEnds ==
    stop.pc = "putting" ~>
        \/ stop.pc \in {"returned", "raised"}
        \/ Live = {} /\ Len(queue) = max_queue
=============================================================================
