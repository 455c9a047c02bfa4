------------------------------ MODULE Batcher -------------------------------
(***************************************************************************)
(* The batching of produce requests for one partition, with a maximum      *)
(* delay set: ProduceRequestBatcher of src/nisshi-storage/src/batch.rs.    *)
(*                                                                         *)
(* Each produce is a task: it queues its batch under its producer ID, and  *)
(* waits for its ticket.  When the queue is large enough, or its patience  *)
(* ends, a task takes the whole queue, writes it, merged into one batch if *)
(* it may be, and hands every owner of a batch in it its result.  Tasks    *)
(* run on several threads: a step is what they do under one lock, or until *)
(* one await returns.                                                      *)
(***************************************************************************)
EXTENDS Integers, Sequences, FiniteSetsExt

CONSTANTS
    Tasks,           \* the produce requests
    Workloads,       \* the batches that they may send: functions from Tasks
    minimum_size,    \* the bytes that a queue may hold
    MaxMessageBytes, \* max.message.bytes of the topic
    MaxDelta,        \* i32::MAX
    Waker,           \* the waker of a ticket
    Failed,          \* the result of a write that failed
    None             \* no result, or no producer ID

Producers == UNION {{w[t].producer : t \in Tasks} : w \in Workloads}

ASSUME BatcherAssumption ==
    /\ \A w \in Workloads, t \in Tasks : /\ w[t].count \in Nat \ {0}
                                         /\ w[t].bytes \in Nat
                                         /\ w[t].decodes \in BOOLEAN
    /\ minimum_size \in Nat /\ MaxMessageBytes \in Nat /\ MaxDelta \in Nat
    /\ {Waker, Failed, None} \cap Nat = {}
    /\ Failed \notin {Waker, None}

VARIABLES
    batch,     \* the batch of each task
    requests,  \* the queue of each producer ID: a sequence of tasks
    responses, \* the waker or the result of each task's ticket, or None
    tasks,     \* the step that each task is at, and what it is writing
    log,       \* whose records are at which offset
    high,      \* the high watermark
    answers    \* what each produce returned, or None

vars == <<batch, requests, responses, tasks, log, high, answers>>

Idle == [stage |-> "called", after |-> None, owners |-> <<>>, results |-> <<>>]

Init ==
    /\ batch \in Workloads
    /\ requests = [p \in Producers |-> <<>>]
    /\ responses = [t \in Tasks |-> None]
    /\ tasks = [t \in Tasks |-> Idle]
    /\ log = {}
    /\ high = 0
    /\ answers = [t \in Tasks |-> None]

At(t, stage) == tasks[t].stage = stage

Goto(t, stage) == tasks' = [tasks EXCEPT ![t].stage = stage]

Producer(t) == batch[t].producer

Among(t, queue) == \E i \in 1 .. Len(queue) : queue[i] = t

(***************************************************************************)
(* The loop of produce.                                                    *)
(***************************************************************************)
Enqueue(t) ==
    /\ At(t, "called")
    /\ requests' = [requests EXCEPT ![Producer(t)] = Append(@, t)]
    /\ Goto(t, "loop")
    /\ UNCHANGED <<batch, responses, log, high, answers>>

\* The sum of a field ("count" or "bytes") over the first n batches of a queue.
SumOf(field, queue, n) == MapThenSumSet(LAMBDA i : batch[queue[i]][field], 1 .. n)

\* A queue over the minimum size is sent before the task waits.
MeasureQueue(t) ==
    /\ At(t, "loop")
    /\ LET queue == requests[Producer(t)]
       IN  IF SumOf("bytes", queue, Len(queue)) > minimum_size
           THEN tasks' = [tasks EXCEPT ![t] = [@ EXCEPT !.stage = "send", !.after = "select"]]
           ELSE Goto(t, "select")
    /\ UNCHANGED <<batch, requests, responses, log, high, answers>>

\* Mutant of Poll: the response stays in the map.
PollAndKeep(t) ==
    /\ At(t, "select") \/ (At(t, "wait") /\ responses[t] # Waker)
    /\ IF responses[t] \notin {None, Waker}
       THEN /\ answers' = [answers EXCEPT ![t] = responses[t]]
            /\ Goto(t, "done")
            /\ UNCHANGED responses
       ELSE /\ responses' = [responses EXCEPT ![t] = Waker]
            /\ Goto(t, "wait")
            /\ UNCHANGED answers
    /\ UNCHANGED <<batch, requests, log, high>>

\* Ticket::poll, at the start of the select and when the waker is woken.
Poll(t) ==
    /\ At(t, "select") \/ (At(t, "wait") /\ responses[t] # Waker)
    /\ IF responses[t] \notin {None, Waker}
       THEN /\ answers' = [answers EXCEPT ![t] = responses[t]]
            /\ responses' = [responses EXCEPT ![t] = None]
            /\ Goto(t, "done")
       ELSE /\ responses' = [responses EXCEPT ![t] = Waker]
            /\ Goto(t, "wait")
            /\ UNCHANGED answers
    /\ UNCHANGED <<batch, requests, log, high>>

\* The patience ends, perhaps as the ticket is woken.
Expire(t) ==
    /\ At(t, "wait")
    /\ tasks' = [tasks EXCEPT ![t] = [@ EXCEPT !.stage = "send", !.after = "loop"]]
    /\ UNCHANGED <<batch, requests, responses, log, high, answers>>

(***************************************************************************)
(* send_queued.                                                            *)
(***************************************************************************)
Same(field, queue) ==
    \A i, j \in 1 .. Len(queue) : batch[queue[i]][field] = batch[queue[j]][field]

is_idempotent(b) == b.producer # None /\ b.base_sequence # None

MayMerge(queue) ==
    /\ Same("codec", queue)
    /\ Same("log_append_time", queue)
    /\ \A i \in 1 .. Len(queue) : ~is_idempotent(batch[queue[i]])

\* The batches of a queue that cannot be merged with the ones before them.
Unmerged(queue) ==
    {i \in 1 .. Len(queue) : \/ ~batch[queue[i]].decodes
                             \/ i > 1 /\ SumOf("count", queue, i) - 1 > MaxDelta}

\* What combine gives: the first batch that does not decode fails them all, and one
\* that is too many has each written as sent.
combine(queue) ==
    IF Unmerged(queue) = {} THEN "merged"
    ELSE IF batch[queue[Min(Unmerged(queue))]].decodes THEN "each" ELSE "fail"

TakeQueue(t) ==
    /\ At(t, "send")
    /\ LET queue == requests[Producer(t)]
       IN  /\ requests' = [requests EXCEPT ![Producer(t)] = <<>>]
           /\ IF queue = <<>>
              THEN Goto(t, tasks[t].after)
              ELSE tasks' = [tasks EXCEPT ![t] =
                        [@ EXCEPT !.owners = queue,
                                  !.stage = IF MayMerge(queue) THEN combine(queue) ELSE "each"]]
    /\ UNCHANGED <<batch, responses, log, high, answers>>

AllFailed(t) ==
    tasks' = [tasks EXCEPT ![t] = [@ EXCEPT !.stage = "respond",
                            !.results = [i \in 1 .. Len(tasks[t].owners) |-> Failed]]]

FailAll(t) ==
    /\ At(t, "fail")
    /\ AllFailed(t)
    /\ UNCHANGED <<batch, requests, responses, log, high, answers>>

(***************************************************************************)
(* storage.produce, of one stored batch that holds those of a queue.       *)
(***************************************************************************)
Fits(queue) == SumOf("bytes", queue, Len(queue)) <= MaxMessageBytes

Stores(queue) ==
    /\ Fits(queue)
    /\ high' = high + SumOf("count", queue, Len(queue))
    /\ log' = log \cup {[owner |-> queue[i], offset |-> high + SumOf("count", queue, i - 1),
                         first |-> queue[1]] : i \in 1 .. Len(queue)}

\* Any other error, before or after the records are stored.
Fails(queue) == Stores(queue) \/ (Fits(queue) /\ UNCHANGED <<log, high>>)

\* Mutant of Offsets: each owner is answered the offset of the merged batch.
BaseOffsets(queue) == [i \in 1 .. Len(queue) |-> high]

\* The offset of each owner's first record.
Offsets(queue) == [i \in 1 .. Len(queue) |-> high + SumOf("count", queue, i - 1)]

\* Mutant of MergedFailed: what failed is written again, each as sent.
MergedFailedAgain(t) == Goto(t, "each")

MergedFailed(t) == AllFailed(t)

\* A merged batch that is too large, which storage says before it changes any state,
\* is written again, each as sent.
WriteMerged(t) ==
    /\ At(t, "merged")
    /\ LET queue == tasks[t].owners
       IN  \/ /\ Stores(queue)
              /\ tasks' = [tasks EXCEPT ![t] = [@ EXCEPT !.stage = "respond",
                                                         !.results = Offsets(queue)]]
           \/ /\ Fails(queue)
              /\ MergedFailed(t)
           \/ /\ ~Fits(queue)
              /\ Goto(t, "each")
              /\ UNCHANGED <<log, high>>
    /\ UNCHANGED <<batch, requests, responses, answers>>

\* write_each_as_sent: the next batch of the queue, on its own.
WriteEach(t) ==
    /\ At(t, "each")
    /\ LET owners == tasks[t].owners
           done == Len(tasks[t].results)
           next == <<owners[done + 1]>>
           Result(result) ==
               tasks' = [tasks EXCEPT ![t] =
                   [@ EXCEPT !.results = Append(tasks[t].results, result),
                             !.stage = IF done + 1 = Len(owners) THEN "respond" ELSE "each"]]
       IN  \/ Stores(next) /\ Result(Offsets(next)[1])
           \/ Fails(next) /\ Result(Failed)
           \/ ~Fits(next) /\ Result(Failed) /\ UNCHANGED <<log, high>>
    /\ UNCHANGED <<batch, requests, responses, answers>>

\* Mutant of Respond: only the task that sends gets its result.
RespondToSelf(t) ==
    /\ At(t, "respond")
    /\ LET owners == tasks[t].owners
       IN  responses' = [o \in Tasks |->
                IF Among(o, owners) /\ o = t
                THEN tasks[t].results[CHOOSE i \in 1 .. Len(owners) : owners[i] = o]
                ELSE responses[o]]
    /\ tasks' = [tasks EXCEPT ![t] = [Idle EXCEPT !.stage = tasks[t].after]]
    /\ UNCHANGED <<batch, requests, log, high, answers>>

\* Each owner gets its result, and is woken.
Respond(t) ==
    /\ At(t, "respond")
    /\ LET owners == tasks[t].owners
       IN  responses' = [o \in Tasks |->
                IF Among(o, owners)
                THEN tasks[t].results[CHOOSE i \in 1 .. Len(owners) : owners[i] = o]
                ELSE responses[o]]
    /\ tasks' = [tasks EXCEPT ![t] = [Idle EXCEPT !.stage = tasks[t].after]]
    /\ UNCHANGED <<batch, requests, log, high, answers>>

Send(t) == TakeQueue(t) \/ FailAll(t) \/ WriteMerged(t) \/ WriteEach(t) \/ Respond(t)

Step(t) == MeasureQueue(t) \/ Poll(t) \/ Expire(t) \/ Send(t)

Next == \E t \in Tasks : Enqueue(t) \/ Step(t)

Spec == Init /\ [][Next]_vars

\* The runtime runs every task that can run, timers fire and storage answers.
FairSpec == Spec /\ \A t \in Tasks : WF_vars(Step(t))

(***************************************************************************)
(* Properties.                                                             *)
(***************************************************************************)
\* The offset that a produce returns is that of its own records, whichever task wrote
\* them and with which others they were merged, and the batch of an idempotent producer
\* is stored as it was sent (send_queued, respond).
OwnRecords ==
    \A t \in Tasks :
        answers[t] \in Nat =>
            \E run \in log : /\ run.owner = t /\ run.offset = answers[t]
                             /\ is_idempotent(batch[t]) => run.first = t

\* The records of a request are stored once, although a merged batch that storage
\* refuses is written again, one request at a time (send_queued, write_each_as_sent).
StoredOnce ==
    \A run1, run2 \in log : run1.owner = run2.owner => run1 = run2

\* Nothing is kept of a request that has returned, in the queues or in the responses
\* (Ticket::poll, send_queued).
NothingLeft ==
    \A t \in Tasks :
        At(t, "done") => /\ responses[t] = None
                         /\ \A p \in Producers : ~Among(t, requests[p])
                         /\ \A other \in Tasks : ~Among(t, tasks[other].owners)

\* "every owner (not just whichever caller happened to trigger this flush) must be told
\* the outcome" (batch.rs, send_queued): every produce that queues its batch returns.
EveryProduceReturns ==
    \A t \in Tasks : At(t, "loop") ~> At(t, "done")
=============================================================================
