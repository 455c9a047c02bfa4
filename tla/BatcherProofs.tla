--------------------------- MODULE BatcherProofs ----------------------------
(***************************************************************************)
(* The safety properties of Batcher, for any number of produce requests,   *)
(* any batches and any limits.                                             *)
(*                                                                         *)
(* The argument follows the batch of one task.  It is in one place at a    *)
(* time: in one queue, then in the owners of one task that writes, then in *)
(* neither; and it is written while it is in the second place only, before *)
(* its result is.                                                          *)
(***************************************************************************)
EXTENDS Batcher, SequenceTheorems, TLAPS

Stages == {"called", "loop", "select", "wait", "send", "merged", "each", "fail", "respond", "done"}

\* The stages at which a task holds the batches that it took.
Writing == {"merged", "each", "fail", "respond"}

\* A task whose results form a sequence of whatever they are.
IsTask(r) ==
    /\ r \in [stage : Stages, after : {"select", "loop", None},
              owners : Seq(Tasks), results : {r.results}]
    /\ r.results \in Seq(Range(r.results))

Types ==
    /\ batch \in Workloads
    /\ requests \in [Producers -> Seq(Tasks)]
    /\ DOMAIN responses = Tasks
    /\ DOMAIN answers = Tasks
    /\ tasks \in [Tasks -> {tasks[t] : t \in Tasks}]
    /\ \A t \in Tasks : IsTask(tasks[t])
    /\ \A run \in log : run.owner \in Tasks

\* A task that writes knows where to go on, and has results for what it wrote.
Progress(r) ==
    /\ r.stage \in Writing \cup {"send"} => r.after \in {"select", "loop"}
    /\ r.stage \notin Writing => r.owners = <<>>
    /\ r.stage \in Writing => Len(r.owners) > 0
    /\ r.stage \notin {"each", "respond"} => r.results = <<>>
    /\ r.stage = "each" => Len(r.results) < Len(r.owners)
    /\ r.stage = "respond" => Len(r.results) = Len(r.owners)
    /\ r.stage = "merged" =>
            \A i \in 1 .. Len(r.owners) : ~is_idempotent(batch[r.owners[i]])

\* A batch is in one place at most,
QueuedOnce ==
    \A p, q \in Producers : \A i \in 1 .. Len(requests[p]), j \in 1 .. Len(requests[q]) :
        requests[p][i] = requests[q][j] => p = q /\ i = j

HeldOnce ==
    \A o, u \in Tasks : \A i \in 1 .. Len(tasks[o].owners), j \in 1 .. Len(tasks[u].owners) :
        tasks[o].owners[i] = tasks[u].owners[j] => o = u /\ i = j

NotBoth ==
    \A p \in Producers, o \in Tasks :
        \A i \in 1 .. Len(requests[p]), j \in 1 .. Len(tasks[o].owners) :
            requests[p][i] # tasks[o].owners[j]

\* and only while its task waits for the result.
Waits(t) ==
    tasks[t].stage \notin {"called", "done"} /\ responses[t] \in {None, Waker}

QueuedWaits == \A p \in Producers : \A i \in 1 .. Len(requests[p]) : Waits(requests[p][i])

HeldWaits == \A o \in Tasks : \A i \in 1 .. Len(tasks[o].owners) : Waits(tasks[o].owners[i])

NoTicket == \A t \in Tasks : tasks[t].stage \in {"called", "done"} => responses[t] = None

Places == QueuedOnce /\ HeldOnce /\ NotBoth /\ QueuedWaits /\ HeldWaits /\ NoTicket

\* The batches of o that are still to be written.
Pending(o, i) ==
    \/ tasks[o].stage = "merged"
    \/ tasks[o].stage = "each" /\ i > Len(tasks[o].results)

\* Whose records are in the log is past all places but that of what was written.
Unwritten ==
    \A run \in log :
        /\ tasks[run.owner].stage # "called"
        /\ \A p \in Producers : \A i \in 1 .. Len(requests[p]) : requests[p][i] # run.owner
        /\ \A o \in Tasks : \A i \in 1 .. Len(tasks[o].owners) :
                Pending(o, i) => tasks[o].owners[i] # run.owner

\* The offset is that of the records of t, and they are as t sent them if it must be so.
IsAt(t, offset) ==
    \E run \in log : /\ run.owner = t /\ run.offset = offset
                     /\ is_idempotent(batch[t]) => run.first = t

\* Every offset on its way to the client is right.
RightOffsets ==
    \A t \in Tasks :
        /\ responses[t] \in Nat => IsAt(t, responses[t])
        /\ answers[t] \in Nat => IsAt(t, answers[t])
        /\ \A i \in 1 .. Len(tasks[t].results) :
                tasks[t].results[i] \in Nat => IsAt(tasks[t].owners[i], tasks[t].results[i])

Inv ==
    /\ Types
    /\ \A t \in Tasks : Progress(tasks[t])
    /\ Places
    /\ Unwritten
    /\ RightOffsets
    /\ StoredOnce

(***************************************************************************)
(* Results.                                                                *)
(***************************************************************************)
LEMMA NoResults == <<>> \in Seq(Range(<<>>)) /\ Len(<<>>) = 0
BY EmptySeq

\* A sequence from a function on 1 .. n.
LEMMA FunctionResults ==
  ASSUME NEW n \in Nat, NEW f, DOMAIN f = 1 .. n, f = [i \in 1 .. n |-> f[i]]
  PROVE  f \in Seq(Range(f)) /\ Len(f) = n
<1>1. f \in [1 .. n -> Range(f)]
  BY DEF Range
<1> QED BY <1>1, SeqDef

LEMMA AppendResults ==
  ASSUME NEW s, s \in Seq(Range(s)), NEW x
  PROVE  /\ Append(s, x) \in Seq(Range(Append(s, x)))
         /\ Len(Append(s, x)) = Len(s) + 1
         /\ \A i \in 1 .. Len(s) : Append(s, x)[i] = s[i]
         /\ Append(s, x)[Len(s) + 1] = x
<1> DEFINE S == Range(s) \cup {x}
           a == Append(s, x)
<1>1. s \in Seq(S)
  BY SeqMonotonic
<1>2. /\ a \in Seq(S) /\ Len(a) = Len(s) + 1 /\ Len(s) \in Nat
      /\ \A i \in 1 .. Len(s) : a[i] = s[i]
      /\ a[Len(s) + 1] = x
  BY <1>1, AppendProperties, LenProperties
<1> HIDE DEF S, a
<1>3. DOMAIN a = 1 .. Len(a) /\ a \in [1 .. Len(a) -> S] /\ Len(a) \in Nat
  BY <1>2, LenProperties
<1>4. a = [i \in 1 .. Len(a) |-> a[i]]
  BY <1>3
<1>5. a \in Seq(Range(a))
  BY <1>3, <1>4, FunctionResults
<1> QED BY <1>2, <1>5 DEF a

(***************************************************************************)
(* Steps that leave the batches where they are.                            *)
(***************************************************************************)
\* What a step of t sets in tasks.
LEMMA TaskSet ==
  ASSUME Types, NEW t \in Tasks, NEW r, IsTask(r), tasks' = [tasks EXCEPT ![t] = r]
  PROVE  /\ tasks' \in [Tasks -> {tasks'[u] : u \in Tasks}]
         /\ \A u \in Tasks : IsTask(tasks'[u])
         /\ tasks'[t] = r
         /\ \A u \in Tasks \ {t} : tasks'[u] = tasks[u]
BY DEF Types

\* The batches stay where they are, and whoever waits goes on waiting.
LEMMA SamePlaces ==
  ASSUME Types, Places, requests' = requests,
         \A o \in Tasks : tasks'[o].owners = tasks[o].owners,
         \A u \in Tasks :
            /\ tasks[u].stage \notin {"called", "done"} /\ responses[u] \in {None, Waker}
            => tasks'[u].stage \notin {"called", "done"} /\ responses'[u] \in {None, Waker}
  PROVE  QueuedOnce' /\ HeldOnce' /\ NotBoth' /\ QueuedWaits' /\ HeldWaits'
<1>1. QueuedOnce'
  BY DEF Places, QueuedOnce
<1>2. HeldOnce'
  BY DEF Places, HeldOnce
<1>3. NotBoth'
  BY DEF Places, NotBoth
<1>4. QueuedWaits'
  BY DEF Types, Places, QueuedWaits, Waits
<1>5. HeldWaits'
  BY DEF Types, IsTask, Places, HeldWaits, Waits
<1> QED BY <1>1, <1>2, <1>3, <1>4, <1>5

\* A task goes on with the same owners and results.
LEMMA StageStep ==
  ASSUME Inv, NEW t \in Tasks, NEW r, tasks' = [tasks EXCEPT ![t] = r],
         IsTask(r), Progress(r),
         r.owners = tasks[t].owners, r.results = tasks[t].results,
         r.stage \notin {"called", "done", "merged", "each"},
         tasks[t].stage \notin {"called", "done"},
         UNCHANGED <<batch, requests, responses, log, high, answers>>
  PROVE  Inv'
<1>1. /\ tasks' \in [Tasks -> {tasks'[u] : u \in Tasks}]
      /\ \A u \in Tasks : IsTask(tasks'[u])
      /\ tasks'[t] = r
      /\ \A u \in Tasks \ {t} : tasks'[u] = tasks[u]
  BY TaskSet DEF Inv
<1>2. Types'
  BY <1>1 DEF Inv, Types
<1>3. \A u \in Tasks : Progress(tasks[u])'
  BY <1>1 DEF Inv, Progress
<1>4. /\ requests' = requests
      /\ \A o \in Tasks : /\ tasks'[o].owners = tasks[o].owners
                          /\ tasks'[o].results = tasks[o].results
  BY <1>1
<1>5. Places'
  <2>1. \A u \in Tasks : /\ tasks'[u].stage \in {"called", "done"}
                            <=> tasks[u].stage \in {"called", "done"}
                         /\ responses'[u] = responses[u]
    BY <1>1
  <2>2. QueuedOnce' /\ HeldOnce' /\ NotBoth' /\ QueuedWaits' /\ HeldWaits'
    BY <1>4, <2>1, SamePlaces DEF Inv
  <2>3. NoTicket'
    BY <2>1 DEF Inv, Places, NoTicket
  <2> QED BY <2>2, <2>3 DEF Places
<1>6. Unwritten'
  BY <1>1, <1>4 DEF Inv, Types, Unwritten, Pending
<1>7. RightOffsets' /\ StoredOnce'
  BY <1>1 DEF Inv, RightOffsets, IsAt, StoredOnce
<1> QED BY <1>2, <1>3, <1>5, <1>6, <1>7 DEF Inv

LEMMA MeasureQueueInv ==
  ASSUME Inv, NEW t \in Tasks, MeasureQueue(t)
  PROVE  Inv'
<1>1. IsTask(tasks[t]) /\ Progress(tasks[t]) /\ tasks[t].stage = "loop"
  BY DEF Inv, Types, MeasureQueue, At
<1>2. PICK r \in {[tasks[t] EXCEPT !.stage = "send", !.after = "select"],
                  [tasks[t] EXCEPT !.stage = "select"]} : tasks' = [tasks EXCEPT ![t] = r]
  BY <1>1 DEF MeasureQueue, Goto
<1>3. IsTask(r) /\ Progress(r)
  BY <1>1, <1>2 DEF IsTask, Stages, Progress, Writing
<1>4. UNCHANGED <<batch, requests, responses, log, high, answers>>
  BY DEF MeasureQueue
<1> QED BY <1>1, <1>2, <1>3, <1>4, StageStep DEF IsTask

LEMMA ExpireInv ==
  ASSUME Inv, NEW t \in Tasks, Expire(t)
  PROVE  Inv'
<1> DEFINE r == [tasks[t] EXCEPT !.stage = "send", !.after = "loop"]
<1>1. IsTask(tasks[t]) /\ Progress(tasks[t]) /\ tasks[t].stage = "wait"
  BY DEF Inv, Types, Expire, At
<1>2. /\ tasks' = [tasks EXCEPT ![t] = r]
      /\ UNCHANGED <<batch, requests, responses, log, high, answers>>
  BY DEF Expire
<1>3. /\ IsTask(r) /\ Progress(r) /\ r.stage = "send"
      /\ r.owners = tasks[t].owners /\ r.results = tasks[t].results
  BY <1>1 DEF IsTask, Stages, Progress, Writing
<1> HIDE DEF r
<1> QED BY <1>1, <1>2, <1>3, StageStep

\* A ticket is polled: the answer leaves the responses, or a waker is left there.
LEMMA PollInv ==
  ASSUME Inv, NEW t \in Tasks, Poll(t)
  PROVE  Inv'
<1> DEFINE ready == responses[t] \notin {None, Waker}
           r == [tasks[t] EXCEPT !.stage = IF ready THEN "done" ELSE "wait"]
<1>1. IsTask(tasks[t]) /\ Progress(tasks[t]) /\ tasks[t].stage \in {"select", "wait"}
  BY DEF Inv, Types, Poll, At
<1>2. /\ tasks' = [tasks EXCEPT ![t] = r]
      /\ responses' = [responses EXCEPT ![t] = IF ready THEN None ELSE Waker]
      /\ answers' = IF ready THEN [answers EXCEPT ![t] = responses[t]] ELSE answers
      /\ UNCHANGED <<batch, requests, log, high>>
  BY DEF Poll, Goto
<1>3. /\ IsTask(r) /\ Progress(r) /\ r.stage = (IF ready THEN "done" ELSE "wait")
      /\ r.owners = tasks[t].owners /\ r.results = tasks[t].results
  BY <1>1 DEF IsTask, Stages, Progress, Writing
<1> HIDE DEF r
<1>4. /\ tasks' \in [Tasks -> {tasks'[u] : u \in Tasks}]
      /\ \A u \in Tasks : IsTask(tasks'[u])
      /\ tasks'[t] = r
      /\ \A u \in Tasks \ {t} : tasks'[u] = tasks[u]
  BY <1>2, <1>3, TaskSet DEF Inv
<1>5. Types'
  BY <1>2, <1>4 DEF Inv, Types
<1>6. \A u \in Tasks : Progress(tasks[u])'
  BY <1>2, <1>3, <1>4 DEF Inv, Progress
<1>7. /\ requests' = requests
      /\ \A o \in Tasks : /\ tasks'[o].owners = tasks[o].owners
                          /\ tasks'[o].results = tasks[o].results
  BY <1>2, <1>3, <1>4
<1>8. /\ responses'[t] = IF ready THEN None ELSE Waker
      /\ \A u \in Tasks \ {t} : responses'[u] = responses[u]
  BY <1>2 DEF Inv, Types
<1>9. \A u \in Tasks :
        /\ tasks[u].stage \notin {"called", "done"} /\ responses[u] \in {None, Waker}
        => tasks'[u].stage \notin {"called", "done"} /\ responses'[u] \in {None, Waker}
  BY <1>1, <1>3, <1>4, <1>8
<1>10. Places'
  <2>1. QueuedOnce' /\ HeldOnce' /\ NotBoth' /\ QueuedWaits' /\ HeldWaits'
    BY <1>7, <1>9, SamePlaces DEF Inv
  <2>2. NoTicket'
    BY <1>3, <1>4, <1>8 DEF Inv, Places, NoTicket
  <2> QED BY <2>1, <2>2 DEF Places
<1>11. Unwritten'
  BY <1>1, <1>2, <1>3, <1>4, <1>7 DEF Inv, Types, Unwritten, Pending
<1>12. RightOffsets' /\ StoredOnce'
  <2>1. log' = log /\ batch' = batch
    BY <1>2
  <2>2. \A u \in Tasks : responses'[u] \in Nat => responses'[u] = responses[u]
    BY <1>8, BatcherAssumption
  <2>3. \A u \in Tasks : answers'[u] \in {answers[u], responses[u]}
    BY <1>2 DEF Inv, Types
  <2>4. RightOffsets'
    BY <1>3, <1>4, <2>1, <2>2, <2>3 DEF Inv, RightOffsets, IsAt
  <2> QED BY <1>2, <2>4 DEF Inv, StoredOnce
<1> QED BY <1>5, <1>6, <1>10, <1>11, <1>12 DEF Inv

(***************************************************************************)
(* Steps that move batches.                                                *)
(***************************************************************************)
LEMMA ProducerType ==
  ASSUME Types, NEW t \in Tasks
  PROVE  Producer(t) \in Producers
BY DEF Types, Producer, Producers

LEMMA EnqueueInv ==
  ASSUME Inv, NEW t \in Tasks, Enqueue(t)
  PROVE  Inv'
<1> DEFINE r == [tasks[t] EXCEPT !.stage = "loop"]
           p == Producer(t)
           n == Len(requests[p])
<1>1. IsTask(tasks[t]) /\ Progress(tasks[t]) /\ tasks[t].stage = "called"
  BY DEF Inv, Types, Enqueue, At
<1>2. /\ tasks' = [tasks EXCEPT ![t] = r]
      /\ requests' = [requests EXCEPT ![p] = Append(requests[p], t)]
      /\ UNCHANGED <<batch, responses, log, high, answers>>
  BY DEF Enqueue, Goto
<1>3. /\ IsTask(r) /\ Progress(r) /\ r.stage = "loop"
      /\ r.owners = tasks[t].owners /\ r.results = tasks[t].results
  BY <1>1 DEF IsTask, Stages, Progress, Writing
<1> HIDE DEF r
<1>4. /\ tasks' \in [Tasks -> {tasks'[u] : u \in Tasks}]
      /\ \A u \in Tasks : IsTask(tasks'[u])
      /\ tasks'[t] = r
      /\ \A u \in Tasks \ {t} : tasks'[u] = tasks[u]
  BY <1>2, <1>3, TaskSet DEF Inv
<1>5. p \in Producers /\ requests \in [Producers -> Seq(Tasks)]
  BY ProducerType DEF Inv, Types
<1> HIDE DEF p
<1>6. /\ requests' \in [Producers -> Seq(Tasks)]
      /\ n \in Nat /\ Len(requests'[p]) = n + 1 /\ requests'[p][n + 1] = t
      /\ \A i \in 1 .. n : requests'[p][i] = requests[p][i]
      /\ \A q \in Producers \ {p} : requests'[q] = requests[q]
  BY <1>2, <1>5, AppendProperties, LenProperties
<1>7. \A q \in Producers : \A i \in 1 .. Len(requests'[q]) :
        \/ q = p /\ i = n + 1 /\ requests'[q][i] = t
        \/ i \in 1 .. Len(requests[q]) /\ requests'[q][i] = requests[q][i]
  BY <1>6
<1> HIDE DEF n
<1>8. /\ \A q \in Producers : \A i \in 1 .. Len(requests[q]) : requests[q][i] # t
      /\ \A o \in Tasks : \A i \in 1 .. Len(tasks[o].owners) : tasks[o].owners[i] # t
  BY <1>1 DEF Inv, Places, QueuedWaits, HeldWaits, Waits
<1>9. Types'
  BY <1>2, <1>4, <1>6 DEF Inv, Types
<1>10. \A u \in Tasks : Progress(tasks[u])'
  BY <1>2, <1>3, <1>4 DEF Inv, Progress
<1>11. \A o \in Tasks : /\ tasks'[o].owners = tasks[o].owners
                        /\ tasks'[o].results = tasks[o].results
  BY <1>3, <1>4
<1>12. \A u \in Tasks : tasks'[u].stage \in {"called", "done"} => tasks[u].stage \in {"called", "done"}
  BY <1>1, <1>4
<1>13. responses'[t] = None /\ responses' = responses
  BY <1>1, <1>2 DEF Inv, Places, NoTicket
<1>14. QueuedOnce'
  <2> SUFFICES ASSUME NEW q \in Producers, NEW s \in Producers,
                      NEW i \in 1 .. Len(requests'[q]), NEW j \in 1 .. Len(requests'[s]),
                      requests'[q][i] = requests'[s][j]
               PROVE  q = s /\ i = j
    BY DEF QueuedOnce
  <2>1. CASE requests'[q][i] = t
    <3>1. q = p /\ i = n + 1
      BY <1>7, <1>8, <2>1
    <3>2. s = p /\ j = n + 1
      <4>1. requests'[s][j] = t
        BY <2>1
      <4> QED BY <1>7, <1>8, <4>1
    <3> QED BY <3>1, <3>2
  <2>2. CASE requests'[q][i] # t
    <3>1. /\ i \in 1 .. Len(requests[q]) /\ requests'[q][i] = requests[q][i]
          /\ j \in 1 .. Len(requests[s]) /\ requests'[s][j] = requests[s][j]
      BY <1>7, <2>2
    <3>2. \A k \in 1 .. Len(requests[q]), l \in 1 .. Len(requests[s]) :
            requests[q][k] = requests[s][l] => q = s /\ k = l
      BY Zenon DEF Inv, Places, QueuedOnce
    <3>3. requests[q][i] = requests[s][j]
      BY <3>1
    <3> QED BY <3>1, <3>2, <3>3, Zenon
  <2> QED BY <2>1, <2>2
<1>15. HeldOnce'
  <2> SUFFICES ASSUME NEW o \in Tasks, NEW u \in Tasks,
                      NEW i \in 1 .. Len(tasks[o].owners), NEW j \in 1 .. Len(tasks[u].owners),
                      tasks[o].owners[i] = tasks[u].owners[j]
               PROVE  o = u /\ i = j
    BY <1>11 DEF HeldOnce
  <2> QED BY Zenon DEF Inv, Places, HeldOnce
<1>16. NotBoth'
  <2> SUFFICES ASSUME NEW q \in Producers, NEW o \in Tasks, NEW i \in 1 .. Len(requests'[q]),
                      NEW j \in 1 .. Len(tasks[o].owners)
               PROVE  requests'[q][i] # tasks[o].owners[j]
    BY <1>11 DEF NotBoth
  <2>1. CASE requests'[q][i] = t
    BY <1>8, <2>1
  <2>2. CASE i \in 1 .. Len(requests[q]) /\ requests'[q][i] = requests[q][i]
    BY <2>2 DEF Inv, Places, NotBoth
  <2> QED BY <1>7, <2>1, <2>2
<1>17. QueuedWaits'
  BY <1>3, <1>4, <1>5, <1>7, <1>12, <1>13 DEF Inv, Places, QueuedWaits, Waits
<1>18. HeldWaits'
  BY <1>11, <1>12, <1>13 DEF Inv, Types, IsTask, Places, HeldWaits, Waits
<1>19. NoTicket'
  BY <1>12, <1>13 DEF Inv, Places, NoTicket
<1>20. Unwritten'
  <2>1. log' = log /\ \A run \in log : run.owner \in Tasks /\ run.owner # t
    BY <1>1, <1>2 DEF Inv, Types, Unwritten
  <2>2. \A o \in Tasks, i \in Nat : Pending(o, i)' => tasks[o].stage = tasks'[o].stage
    BY <1>3, <1>4 DEF Pending
  <2> QED BY <1>4, <1>7, <1>11, <2>1, <2>2 DEF Inv, Unwritten, Pending
<1>21. RightOffsets' /\ StoredOnce'
  BY <1>2, <1>11 DEF Inv, RightOffsets, IsAt, StoredOnce
<1> QED
  BY <1>9, <1>10, <1>14, <1>15, <1>16, <1>17, <1>18, <1>19, <1>20, <1>21 DEF Inv, Places

\* A step of a task that writes: it stores the batches at the indexes W of its owners.
LEMMA WriteStep ==
  ASSUME Inv, NEW t \in Tasks, tasks[t].stage \in Writing,
         NEW r, tasks' = [tasks EXCEPT ![t] = r],
         IsTask(r), Progress(r), r.stage \in Writing,
         r.owners = tasks[t].owners,
         UNCHANGED <<batch, requests, responses, answers>>,
         NEW W \in SUBSET (1 .. Len(r.owners)), NEW f,
         log' = log \cup {f[i] : i \in W},
         \A i \in W : f[i].owner = r.owners[i] /\ Pending(t, i),
         \A i \in 1 .. Len(r.owners) :
            r.stage = "merged" \/ (r.stage = "each" /\ i > Len(r.results))
            => Pending(t, i) /\ i \notin W,
         \A i \in 1 .. Len(r.results) :
            r.results[i] \in Nat => IsAt(r.owners[i], r.results[i])'
  PROVE  Inv'
<1>1. /\ tasks' \in [Tasks -> {tasks'[u] : u \in Tasks}]
      /\ \A u \in Tasks : IsTask(tasks'[u])
      /\ tasks'[t] = r
      /\ \A u \in Tasks \ {t} : tasks'[u] = tasks[u]
  BY TaskSet DEF Inv
<1>2. r.owners \in Seq(Tasks) /\ \A i \in W : r.owners[i] \in Tasks
  BY DEF IsTask
<1>3. Types'
  <2>1. \A run \in log' : run.owner \in Tasks
    BY <1>2 DEF Inv, Types
  <2> QED BY <1>1, <2>1 DEF Inv, Types
<1>4. ASSUME NEW u \in Tasks
      PROVE  Progress(tasks[u])'
  <2>1. batch' = batch /\ Progress(tasks[u]) /\ Progress(r)
    BY DEF Inv
  <2>2. tasks'[u] = r \/ tasks'[u] = tasks[u]
    BY <1>1
  <2> QED BY <2>1, <2>2 DEF Progress
<1>5. \A o \in Tasks : tasks'[o].owners = tasks[o].owners
  BY <1>1
<1>6. Places'
  <2>1. \A u \in Tasks : /\ tasks'[u].stage \in {"called", "done"}
                            <=> tasks[u].stage \in {"called", "done"}
                         /\ responses'[u] = responses[u]
    BY <1>1 DEF Writing
  <2>2. QueuedOnce' /\ HeldOnce' /\ NotBoth' /\ QueuedWaits' /\ HeldWaits'
    BY <1>5, <2>1, SamePlaces DEF Inv
  <2>3. NoTicket'
    BY <2>1 DEF Inv, Places, NoTicket
  <2> QED BY <2>2, <2>3 DEF Places
<1>7. \A run \in log' : run \in log \/ \E i \in W : run = f[i] /\ run.owner = r.owners[i]
  OBVIOUS
<1>8. \A i \in W, run \in log : run.owner # r.owners[i]
  BY DEF Inv, Unwritten
<1>9. \A i, j \in 1 .. Len(r.owners) : r.owners[i] = r.owners[j] => i = j
  BY DEF Inv, Places, HeldOnce
<1>10. StoredOnce'
  BY <1>7, <1>8, <1>9 DEF Inv, StoredOnce
<1>11. Unwritten'
  <2>1. \A run \in log' : tasks'[run.owner].stage # "called"
    BY <1>1, <1>2, <1>7 DEF Inv, Types, Unwritten, Places, HeldWaits, Waits, Writing
  <2>2. ASSUME NEW run \in log', NEW p \in Producers, NEW i \in 1 .. Len(requests'[p])
        PROVE  requests'[p][i] # run.owner
    BY <1>7 DEF Inv, Unwritten, Places, NotBoth
  <2>3. ASSUME NEW run \in log', NEW o \in Tasks, NEW i \in 1 .. Len(tasks'[o].owners),
               Pending(o, i)'
        PROVE  tasks'[o].owners[i] # run.owner
    <3>1. Pending(o, i) /\ (o = t => i \notin W)
      BY <1>1, <1>5, <2>3 DEF Pending
    <3>2. CASE run \in log
      BY <1>5, <3>1, <3>2 DEF Inv, Unwritten
    <3>3. CASE \E j \in W : run.owner = r.owners[j]
      BY <1>1, <1>5, <1>9, <3>1, <3>3 DEF Inv, Places, HeldOnce
    <3> QED BY <1>7, <3>2, <3>3
  <2> QED BY <2>1, <2>2, <2>3 DEF Unwritten
<1>12. RightOffsets'
  <2>1. log \subseteq log' /\ batch' = batch /\ responses' = responses /\ answers' = answers
    OBVIOUS
  <2>2. \A u \in Tasks : /\ responses'[u] \in Nat => IsAt(u, responses[u])'
                         /\ answers'[u] \in Nat => IsAt(u, answers[u])'
    BY <2>1 DEF Inv, RightOffsets, IsAt
  <2>3. \A u \in Tasks \ {t} : \A i \in 1 .. Len(tasks'[u].results) :
            tasks'[u].results[i] \in Nat => IsAt(tasks[u].owners[i], tasks[u].results[i])'
    BY <1>1, <2>1 DEF Inv, RightOffsets, IsAt
  <2>4. \A i \in 1 .. Len(tasks'[t].results) :
            tasks'[t].results[i] \in Nat => IsAt(tasks[t].owners[i], tasks[t].results[i])'
    BY <1>1 DEF IsAt
  <2> QED BY <2>2, <2>3, <2>4 DEF RightOffsets
<1> QED BY <1>3, <1>4, <1>6, <1>10, <1>11, <1>12 DEF Inv

\* The batches of a queue that is stored, and their offsets.
LEMMA StoresRuns ==
  ASSUME NEW queue, queue \in Seq(Tasks), Stores(queue)
  PROVE  \E f : /\ log' = log \cup {f[i] : i \in 1 .. Len(queue)}
                /\ \A i \in 1 .. Len(queue) :
                     /\ f[i].owner = queue[i]
                     /\ f[i].offset = Offsets(queue)[i]
                     /\ f[i].first = queue[1]
<1> DEFINE f == [i \in 1 .. Len(queue) |->
                    [owner |-> queue[i], offset |-> high + SumOf("count", queue, i - 1),
                     first |-> queue[1]]]
<1>1. {f[i] : i \in 1 .. Len(queue)} =
      {[owner |-> queue[i], offset |-> high + SumOf("count", queue, i - 1),
        first |-> queue[1]] : i \in 1 .. Len(queue)}
  OBVIOUS
<1>2. log' = log \cup {f[i] : i \in 1 .. Len(queue)}
  BY <1>1 DEF Stores
<1>3. \A i \in 1 .. Len(queue) : /\ f[i].owner = queue[i]
                                 /\ f[i].offset = Offsets(queue)[i]
                                 /\ f[i].first = queue[1]
  BY DEF Offsets
<1> HIDE DEF f
<1> QED BY <1>2, <1>3

\* All the owners of t are told that the write failed.
LEMMA AllFailedTask ==
  ASSUME Types, NEW t \in Tasks, Progress(tasks[t]), tasks[t].stage \in Writing, AllFailed(t)
  PROVE  \E r : /\ tasks' = [tasks EXCEPT ![t] = r]
                /\ IsTask(r) /\ Progress(r) /\ r.stage = "respond"
                /\ r.owners = tasks[t].owners
                /\ \A i \in 1 .. Len(r.results) : r.results[i] = Failed
<1> DEFINE results == [i \in 1 .. Len(tasks[t].owners) |-> Failed]
           r == [tasks[t] EXCEPT !.stage = "respond", !.results = results]
<1>1. IsTask(tasks[t])
  BY DEF Types
<1>2. Len(tasks[t].owners) \in Nat
  BY <1>1, LenProperties DEF IsTask
<1>3. results \in Seq(Range(results)) /\ Len(results) = Len(tasks[t].owners)
  BY <1>2, FunctionResults
<1>4. \A i \in 1 .. Len(results) : results[i] = Failed
  BY <1>3
<1>5. tasks' = [tasks EXCEPT ![t] = r]
  BY DEF AllFailed
<1> HIDE DEF results
<1>6. IsTask(r) /\ Progress(r)
  BY <1>1, <1>3 DEF IsTask, Stages, Progress, Writing
<1>7. r.stage = "respond" /\ r.owners = tasks[t].owners /\ r.results = results
  BY <1>1 DEF IsTask
<1> HIDE DEF r
<1> QED BY <1>4, <1>5, <1>6, <1>7

LEMMA FailAllInv ==
  ASSUME Inv, NEW t \in Tasks, FailAll(t)
  PROVE  Inv'
<1>1. Types /\ Progress(tasks[t]) /\ tasks[t].stage \in Writing /\ AllFailed(t)
  BY DEF Inv, FailAll, At, Writing
<1>2. PICK r : /\ tasks' = [tasks EXCEPT ![t] = r]
               /\ IsTask(r) /\ Progress(r) /\ r.stage = "respond"
               /\ r.owners = tasks[t].owners
               /\ \A i \in 1 .. Len(r.results) : r.results[i] = Failed
  BY <1>1, AllFailedTask
<1>3. UNCHANGED <<batch, requests, responses, answers>>
  BY DEF FailAll
<1> DEFINE W == {}
<1>4. /\ log' = log \cup {r[i] : i \in W}
      /\ W \in SUBSET (1 .. Len(r.owners))
      /\ \A i \in W : r[i].owner = r.owners[i] /\ Pending(t, i)
  BY DEF FailAll
<1>5. \A i \in 1 .. Len(r.owners) :
        r.stage = "merged" \/ (r.stage = "each" /\ i > Len(r.results))
        => Pending(t, i) /\ i \notin W
  BY <1>2
<1>6. \A i \in 1 .. Len(r.results) : r.results[i] \in Nat => IsAt(r.owners[i], r.results[i])'
  BY <1>2, BatcherAssumption
<1>7. r.stage \in Writing
  BY <1>2 DEF Writing
<1> HIDE DEF W
<1> QED BY <1>1, <1>2, <1>3, <1>4, <1>5, <1>6, <1>7, WriteStep

LEMMA WriteMergedInv ==
  ASSUME Inv, NEW t \in Tasks, WriteMerged(t)
  PROVE  Inv'
<1>1. /\ Types /\ IsTask(tasks[t]) /\ Progress(tasks[t])
      /\ tasks[t].stage = "merged" /\ tasks[t].stage \in Writing
  BY DEF Inv, Types, WriteMerged, At, Writing
<1>2. UNCHANGED <<batch, requests, responses, answers>>
  BY DEF WriteMerged
<1>3. PICK queue : queue = tasks[t].owners
  OBVIOUS
<1>4. /\ queue \in Seq(Tasks) /\ Len(queue) \in Nat \ {0}
      /\ tasks[t].results = <<>> /\ Len(tasks[t].results) = 0
  BY <1>1, <1>3, LenProperties, NoResults DEF IsTask, Progress
<1>5. \A i \in 1 .. Len(queue) : /\ Pending(t, i)
                                 /\ ~is_idempotent(batch[queue[i]])
  BY <1>1, <1>3 DEF Pending, Progress
<1>6. CASE Stores(queue) /\ tasks' = [tasks EXCEPT ![t] =
                [@ EXCEPT !.stage = "respond", !.results = Offsets(queue)]]
  <2>1. PICK results : results = Offsets(queue)
    OBVIOUS
  <2> DEFINE W == 1 .. Len(queue)
  <2>2. PICK f : /\ log' = log \cup {f[i] : i \in W}
                 /\ \A i \in W : /\ f[i].owner = queue[i]
                                 /\ f[i].offset = results[i]
                                 /\ f[i].first = queue[1]
    BY <1>4, <1>6, <2>1, StoresRuns
  <2>3. results \in Seq(Range(results)) /\ Len(results) = Len(queue)
    BY <1>4, <2>1, FunctionResults DEF Offsets
  <2>4. PICK r : r = [tasks[t] EXCEPT !.stage = "respond", !.results = results]
    OBVIOUS
  <2>5. tasks' = [tasks EXCEPT ![t] = r] /\ IsTask(r) /\ Progress(r)
    BY <1>1, <1>3, <1>6, <2>1, <2>3, <2>4 DEF IsTask, Stages, Progress, Writing
  <2>6. /\ r.stage = "respond" /\ r.stage \in Writing
        /\ r.owners = queue /\ r.results = results
    BY <1>1, <1>3, <2>4 DEF IsTask, Writing
  <2>7. /\ W \in SUBSET (1 .. Len(r.owners))
        /\ \A i \in W : f[i].owner = r.owners[i] /\ Pending(t, i)
    BY <1>5, <2>2, <2>6
  <2>8. \A i \in 1 .. Len(r.owners) :
            r.stage = "merged" \/ (r.stage = "each" /\ i > Len(r.results))
            => Pending(t, i) /\ i \notin W
    BY <2>6
  <2>9. \A i \in 1 .. Len(r.results) : r.results[i] \in Nat => IsAt(r.owners[i], r.results[i])'
    BY <1>2, <1>5, <2>2, <2>3, <2>6 DEF IsAt
  <2>10. \A i \in W : f[i].owner = r.owners[i] /\ Pending(t, i)
    BY <2>7
  <2>11. r.owners = tasks[t].owners
    BY <1>3, <2>6
  <2>12. log' = log \cup {f[i] : i \in W}
    BY <2>2
  <2> HIDE DEF W
  <2> QED BY <1>1, <1>2, <2>5, <2>6, <2>7, <2>8, <2>9, <2>10, <2>11, <2>12, WriteStep
<1>7. CASE Fails(queue) /\ MergedFailed(t)
  <2>1. PICK r : /\ tasks' = [tasks EXCEPT ![t] = r]
                 /\ IsTask(r) /\ Progress(r) /\ r.stage = "respond"
                 /\ r.owners = tasks[t].owners
                 /\ \A i \in 1 .. Len(r.results) : r.results[i] = Failed
    BY <1>1, <1>7, AllFailedTask DEF MergedFailed
  <2>2. \E W, f :
            /\ W \in SUBSET (1 .. Len(queue))
            /\ log' = log \cup {f[i] : i \in W}
            /\ \A i \in W : f[i].owner = queue[i]
    <3>1. CASE Stores(queue)
      <4> DEFINE W == 1 .. Len(queue)
      <4>1. \E f : log' = log \cup {f[i] : i \in W} /\ \A i \in W : f[i].owner = queue[i]
        BY <1>4, <3>1, StoresRuns
      <4>2. W \in SUBSET (1 .. Len(queue))
        OBVIOUS
      <4> HIDE DEF W
      <4> QED BY <4>1, <4>2
    <3>2. CASE UNCHANGED <<log, high>>
      <4> DEFINE W == {}
      <4>1. /\ log' = log \cup {r[i] : i \in W}
            /\ \A i \in W : r[i].owner = queue[i]
            /\ W \in SUBSET (1 .. Len(queue))
        BY <3>2
      <4> HIDE DEF W
      <4> QED BY <4>1
    <3> QED BY <1>7, <3>1, <3>2 DEF Fails
  <2>3. PICK W, f :
            /\ W \in SUBSET (1 .. Len(queue))
            /\ log' = log \cup {f[i] : i \in W}
            /\ \A i \in W : f[i].owner = queue[i]
    BY <2>2
  <2>4. /\ W \in SUBSET (1 .. Len(r.owners))
        /\ \A i \in W : f[i].owner = r.owners[i] /\ Pending(t, i)
    BY <1>3, <1>5, <2>1, <2>3
  <2>5. \A i \in 1 .. Len(r.owners) :
            r.stage = "merged" \/ (r.stage = "each" /\ i > Len(r.results))
            => Pending(t, i) /\ i \notin W
    BY <2>1
  <2>6. \A i \in 1 .. Len(r.results) : r.results[i] \in Nat => IsAt(r.owners[i], r.results[i])'
    BY <2>1, BatcherAssumption
  <2>7. r.stage \in Writing
    BY <2>1 DEF Writing
  <2> QED BY <1>1, <1>2, <2>1, <2>3, <2>4, <2>5, <2>6, <2>7, WriteStep, ZenonT(30)
<1>8. CASE ~Fits(queue) /\ Goto(t, "each") /\ UNCHANGED <<log, high>>
  <2>1. PICK r : r = [tasks[t] EXCEPT !.stage = "each"]
    OBVIOUS
  <2> DEFINE W == {}
  <2>2. tasks' = [tasks EXCEPT ![t] = r]
    BY <1>8, <2>1 DEF Goto
  <2>3. /\ r.stage = "each" /\ r.stage \in Writing
        /\ r.owners = queue /\ r.results = <<>> /\ Len(r.results) = 0
    BY <1>1, <1>3, <1>4, <2>1 DEF IsTask, Writing
  <2>4. IsTask(r) /\ Progress(r)
    BY <1>1, <1>3, <1>4, <2>1, <2>3 DEF IsTask, Stages, Progress, Writing
  <2>5. /\ log' = log \cup {r[i] : i \in W}
        /\ W \in SUBSET (1 .. Len(r.owners))
        /\ \A i \in W : r[i].owner = r.owners[i] /\ Pending(t, i)
    BY <1>8
  <2>6. \A i \in 1 .. Len(r.owners) :
            r.stage = "merged" \/ (r.stage = "each" /\ i > Len(r.results))
            => Pending(t, i) /\ i \notin W
    BY <1>5, <2>3
  <2>7. \A i \in 1 .. Len(r.results) : r.results[i] \in Nat => IsAt(r.owners[i], r.results[i])'
    BY <2>3
  <2> HIDE DEF W
  <2> QED BY <1>1, <1>2, <1>3, <2>2, <2>3, <2>4, <2>5, <2>6, <2>7, WriteStep, ZenonT(30)
<1> QED BY <1>3, <1>6, <1>7, <1>8 DEF WriteMerged

\* write_each_as_sent stores the next batch, or not, and appends its result.
LEMMA WriteEachInv ==
  ASSUME Inv, NEW t \in Tasks, WriteEach(t)
  PROVE  Inv'
<1>1. /\ Types /\ IsTask(tasks[t]) /\ Progress(tasks[t])
      /\ tasks[t].stage = "each" /\ tasks[t].stage \in Writing
  BY DEF Inv, Types, WriteEach, At, Writing
<1>2. UNCHANGED <<batch, requests, responses, answers>>
  BY DEF WriteEach
<1>3. PICK queue, old : queue = tasks[t].owners /\ old = tasks[t].results
  OBVIOUS
<1> DEFINE n == Len(old) + 1
<1>4. /\ queue \in Seq(Tasks) /\ Len(queue) \in Nat
      /\ old \in Seq(Range(old)) /\ Len(old) \in Nat
      /\ n \in 1 .. Len(queue) /\ queue[n] \in Tasks
  BY <1>1, <1>3, LenProperties DEF IsTask, Progress
<1>5. PICK next : next = <<queue[n]>>
  OBVIOUS
<1>6. next \in Seq(Tasks) /\ Len(next) = 1 /\ next[1] = queue[n]
  BY <1>4, <1>5
<1>7. PICK result :
        /\ \/ Stores(next) /\ result = Offsets(next)[1]
           \/ Fails(next) /\ result = Failed
           \/ UNCHANGED <<log, high>> /\ result = Failed
        /\ tasks' = [tasks EXCEPT ![t] =
               [tasks[t] EXCEPT !.results = Append(tasks[t].results, result),
                                !.stage = IF n = Len(queue) THEN "respond" ELSE "each"]]
  <2> DEFINE Result(x) ==
                tasks' = [tasks EXCEPT ![t] =
                    [tasks[t] EXCEPT !.results = Append(tasks[t].results, x),
                                     !.stage = IF n = Len(queue) THEN "respond" ELSE "each"]]
  <2>1. \/ Stores(next) /\ Result(Offsets(next)[1])
        \/ Fails(next) /\ Result(Failed)
        \/ UNCHANGED <<log, high>> /\ Result(Failed)
    BY <1>3, <1>5, Zenon DEF WriteEach
  <2> QED BY <2>1, Zenon
<1>8. PICK results : results = Append(old, result)
  OBVIOUS
<1>9. /\ results \in Seq(Range(results)) /\ Len(results) = n
      /\ \A i \in 1 .. Len(old) : results[i] = old[i]
      /\ results[n] = result
  BY <1>4, <1>8, AppendResults
<1>10. PICK r : r = [tasks[t] EXCEPT !.results = results,
                            !.stage = IF n = Len(queue) THEN "respond" ELSE "each"]
  OBVIOUS
<1>11. tasks' = [tasks EXCEPT ![t] = r]
  <2>1. r = [tasks[t] EXCEPT !.results = Append(tasks[t].results, result),
                             !.stage = IF n = Len(queue) THEN "respond" ELSE "each"]
    BY <1>3, <1>8, <1>10
  <2> HIDE DEF n
  <2> QED BY <1>7, <2>1
<1>12. /\ r.stage = (IF n = Len(queue) THEN "respond" ELSE "each")
       /\ r.owners = queue /\ r.results = results /\ r.after = tasks[t].after
       /\ r.stage \in Writing
  BY <1>1, <1>3, <1>10 DEF IsTask, Writing
<1>13. IsTask(r)
  BY <1>1, <1>3, <1>9, <1>10, <1>12 DEF IsTask, Stages
<1>14. Progress(r)
  <2>1. Len(queue) > 0 /\ tasks[t].after \in {"select", "loop"}
    BY <1>1, <1>3 DEF Progress
  <2>2. n \in Nat /\ n <= Len(queue)
    BY <1>4
  <2> HIDE DEF n
  <2> QED BY <1>4, <1>9, <1>12, <2>1, <2>2 DEF Progress, Writing
<1> HIDE DEF n
<1>15. PICK W, f :
        /\ W \in SUBSET {n}
        /\ log' = log \cup {f[i] : i \in W}
        /\ \A i \in W : f[i].owner = queue[i] /\ f[i].first = queue[i]
        /\ result \in Nat => W = {n} /\ f[n].offset = result
  <2>1. CASE Stores(next)
    <3>1. PICK g : /\ log' = log \cup {g[i] : i \in 1 .. Len(next)}
                   /\ \A i \in 1 .. Len(next) : /\ g[i].owner = next[i]
                                                /\ g[i].offset = Offsets(next)[i]
                                                /\ g[i].first = next[1]
      BY <1>6, <2>1, StoresRuns
    <3> DEFINE f == [i \in {n} |-> g[1]]
               W == {n}
    <3>2. {g[i] : i \in 1 .. Len(next)} = {f[i] : i \in W}
      BY <1>6
    <3>3. \A i \in W : f[i] = g[1] /\ i = n
      OBVIOUS
    <3>4. /\ W \in SUBSET {n} /\ log' = log \cup {f[i] : i \in W}
          /\ \A i \in W : f[i].owner = queue[i] /\ f[i].first = queue[i]
          /\ result \in Nat => W = {n} /\ f[n].offset = result
      BY <1>6, <1>7, <3>1, <3>2, <3>3, BatcherAssumption
    <3> HIDE DEF f, W
    <3> QED BY <3>4
  <2>2. CASE UNCHANGED <<log, high>> /\ result = Failed
    <3> DEFINE W == {}
    <3>1. /\ W \in SUBSET {n} /\ log' = log \cup {r[i] : i \in W}
          /\ \A i \in W : r[i].owner = queue[i] /\ r[i].first = queue[i]
          /\ result \notin Nat
      BY <2>2, BatcherAssumption
    <3> HIDE DEF W
    <3> QED BY <3>1
  <2> QED BY <1>7, <2>1, <2>2 DEF Fails
<1>16. /\ W \in SUBSET (1 .. Len(r.owners))
       /\ \A i \in W : f[i].owner = r.owners[i] /\ Pending(t, i)
  <2>1. \A i \in W : i = n
    BY <1>15
  <2>2. Pending(t, n)
    BY <1>1, <1>3, <1>4 DEF Pending, n
  <2> QED BY <1>4, <1>12, <1>15, <2>1, <2>2
<1>17. \A i \in 1 .. Len(r.owners) :
          r.stage = "merged" \/ (r.stage = "each" /\ i > Len(r.results))
          => Pending(t, i) /\ i \notin W
  BY <1>1, <1>3, <1>4, <1>9, <1>12, <1>15 DEF Pending, n
<1>18. ASSUME NEW i \in 1 .. Len(r.results), r.results[i] \in Nat
       PROVE  IsAt(r.owners[i], r.results[i])'
  <2>1. CASE i = n
    BY <1>9, <1>12, <1>15, <1>18, <2>1 DEF IsAt
  <2>2. CASE i \in 1 .. Len(old)
    <3>1. IsAt(queue[i], old[i])
      BY <1>3, <1>9, <1>12, <1>18, <2>2 DEF Inv, RightOffsets
    <3> QED BY <1>2, <1>9, <1>12, <1>15, <2>2, <3>1 DEF IsAt
  <2> QED BY <1>4, <1>9, <1>12, <2>1, <2>2 DEF n
<1>19. r.owners = tasks[t].owners
  BY <1>3, <1>12
<1>20. \A i \in 1 .. Len(r.results) : r.results[i] \in Nat => IsAt(r.owners[i], r.results[i])'
  BY <1>18
<1> QED
  BY <1>1, <1>2, <1>11, <1>12, <1>13, <1>14, <1>15, <1>16, <1>17, <1>19, <1>20, WriteStep,
     ZenonT(30)

\* A task takes the whole queue of its producer, if there is anything in it.
LEMMA TakeQueueInv ==
  ASSUME Inv, NEW t \in Tasks, TakeQueue(t)
  PROVE  Inv'
<1> DEFINE p == Producer(t)
<1>1. /\ Types /\ IsTask(tasks[t]) /\ Progress(tasks[t])
      /\ tasks[t].stage = "send" /\ tasks[t].after \in {"select", "loop"}
      /\ tasks[t].owners = <<>> /\ tasks[t].results = <<>>
  BY DEF Inv, Types, TakeQueue, At, Progress, Writing
<1>2. PICK queue : queue = requests[p]
  OBVIOUS
<1>3. /\ p \in Producers /\ requests \in [Producers -> Seq(Tasks)]
      /\ queue \in Seq(Tasks) /\ Len(queue) \in Nat
  BY <1>1, <1>2, ProducerType, LenProperties DEF Types
<1>4. /\ requests' = [requests EXCEPT ![p] = <<>>]
      /\ UNCHANGED <<batch, responses, log, high, answers>>
  BY <1>2 DEF TakeQueue
<1>5. CASE queue = <<>>
  <2>1. requests' = requests
    BY <1>2, <1>3, <1>4, <1>5
  <2>2. PICK r : r = [tasks[t] EXCEPT !.stage = tasks[t].after]
    OBVIOUS
  <2>3. tasks' = [tasks EXCEPT ![t] = r]
    BY <1>2, <1>5, <2>2 DEF TakeQueue, Goto
  <2>4. IsTask(r) /\ Progress(r) /\ r.stage \in {"select", "loop"}
    BY <1>1, <2>2 DEF IsTask, Stages, Progress, Writing
  <2>5. r.owners = tasks[t].owners /\ r.results = tasks[t].results
    BY <1>1, <2>2 DEF IsTask
  <2> QED BY <1>1, <1>4, <2>1, <2>3, <2>4, <2>5, StageStep
<1>6. CASE queue # <<>>
  <2>1. PICK stage : stage = (IF MayMerge(queue) THEN combine(queue) ELSE "each")
    OBVIOUS
  <2>2. stage \in {"merged", "each", "fail"}
    BY <2>1 DEF combine
  <2>3. PICK r : r = [tasks[t] EXCEPT !.owners = queue, !.stage = stage]
    OBVIOUS
  <2>4. tasks' = [tasks EXCEPT ![t] = r]
    BY <1>2, <1>6, <2>1, <2>3 DEF TakeQueue
  <2>5. /\ r.owners = queue /\ r.results = <<>> /\ r.stage = stage
        /\ r.after = tasks[t].after /\ Len(r.results) = 0 /\ Len(queue) > 0
    BY <1>1, <1>3, <1>6, <2>3, NoResults, EmptySeq DEF IsTask
  <2>6. IsTask(r)
    BY <1>1, <1>3, <2>2, <2>3, <2>5 DEF IsTask, Stages
  <2>7. Progress(r)
    <3>1. stage = "merged" => \A i \in 1 .. Len(queue) : ~is_idempotent(batch[queue[i]])
      BY <2>1 DEF MayMerge
    <3> QED BY <1>1, <2>2, <2>5, <3>1 DEF Progress, Writing
  <2>8. /\ tasks' \in [Tasks -> {tasks'[u] : u \in Tasks}]
        /\ \A u \in Tasks : IsTask(tasks'[u])
        /\ tasks'[t] = r
        /\ \A u \in Tasks \ {t} : tasks'[u] = tasks[u]
    BY <1>1, <2>4, <2>6, TaskSet
  <2>9. /\ requests' \in [Producers -> Seq(Tasks)]
        /\ Len(requests'[p]) = 0
        /\ \A q \in Producers \ {p} : requests'[q] = requests[q]
    BY <1>3, <1>4
  <2> HIDE DEF p
  <2>10. /\ \A q \in Producers : \A i \in 1 .. Len(requests'[q]) :
                q # p /\ i \in 1 .. Len(requests[q]) /\ requests'[q][i] = requests[q][i]
         /\ \A o \in Tasks : \A i \in 1 .. Len(tasks'[o].owners) :
                \/ o = t /\ i \in 1 .. Len(requests[p]) /\ tasks'[o].owners[i] = requests[p][i]
                \/ o # t /\ tasks'[o] = tasks[o]
    BY <1>2, <2>5, <2>8, <2>9
  <2>11. Types'
    BY <1>1, <1>4, <2>8, <2>9 DEF Types
  <2>12. ASSUME NEW u \in Tasks PROVE Progress(tasks[u])'
    <3>1. batch' = batch /\ Progress(tasks[u]) /\ (tasks'[u] = r \/ tasks'[u] = tasks[u])
      BY <1>4, <2>8 DEF Inv
    <3> QED BY <2>7, <3>1 DEF Progress
  <2>13. responses' = responses
         /\ \A u \in Tasks : tasks'[u].stage \in {"called", "done"}
                             <=> tasks[u].stage \in {"called", "done"}
    BY <1>1, <1>4, <2>2, <2>5, <2>8
  <2>14. QueuedOnce'
    BY <2>10 DEF Inv, Places, QueuedOnce
  <2>15. HeldOnce'
    <3> SUFFICES ASSUME NEW o \in Tasks, NEW u \in Tasks,
                        NEW i \in 1 .. Len(tasks'[o].owners),
                        NEW j \in 1 .. Len(tasks'[u].owners),
                        tasks'[o].owners[i] = tasks'[u].owners[j]
                 PROVE  o = u /\ i = j
      BY DEF HeldOnce
    <3>1. CASE o = t /\ u = t
      BY <1>3, <2>10, <3>1 DEF Inv, Places, QueuedOnce
    <3>2. CASE o # t /\ u # t
      <4>1. tasks'[o] = tasks[o] /\ tasks'[u] = tasks[u]
        BY <2>10, <3>2
      <4> QED BY <4>1 DEF Inv, Places, HeldOnce
    <3>3. CASE o = t /\ u # t
      <4>1. i \in 1 .. Len(requests[p]) /\ tasks'[o].owners[i] = requests[p][i]
        BY <2>10, <3>3
      <4>2. tasks'[u] = tasks[u]
        BY <2>10, <3>3
      <4> QED BY <1>3, <4>1, <4>2 DEF Inv, Places, NotBoth
    <3>4. CASE o # t /\ u = t
      <4>1. j \in 1 .. Len(requests[p]) /\ tasks'[u].owners[j] = requests[p][j]
        BY <2>10, <3>4
      <4>2. tasks'[o] = tasks[o]
        BY <2>10, <3>4
      <4> QED BY <1>3, <4>1, <4>2 DEF Inv, Places, NotBoth
    <3> QED BY <3>1, <3>2, <3>3, <3>4
  <2>16. NotBoth'
    <3> SUFFICES ASSUME NEW q \in Producers, NEW o \in Tasks,
                        NEW i \in 1 .. Len(requests'[q]),
                        NEW j \in 1 .. Len(tasks'[o].owners)
                 PROVE  requests'[q][i] # tasks'[o].owners[j]
      BY DEF NotBoth
    <3>1. q # p /\ i \in 1 .. Len(requests[q]) /\ requests'[q][i] = requests[q][i]
      BY <2>10
    <3>2. CASE o = t
      <4>1. j \in 1 .. Len(requests[p]) /\ tasks'[o].owners[j] = requests[p][j]
        BY <2>10, <3>2
      <4> QED BY <1>3, <3>1, <4>1 DEF Inv, Places, QueuedOnce
    <3>3. CASE o # t
      <4>1. tasks'[o] = tasks[o]
        BY <2>10, <3>3
      <4> QED BY <3>1, <4>1 DEF Inv, Places, NotBoth
    <3> QED BY <3>2, <3>3
  <2>17. QueuedWaits'
    <3> SUFFICES ASSUME NEW q \in Producers, NEW i \in 1 .. Len(requests'[q])
                 PROVE  Waits(requests[q][i])'
      BY DEF QueuedWaits
    <3>1. requests'[q][i] = requests[q][i] /\ i \in 1 .. Len(requests[q])
      BY <2>10
    <3>2. requests[q][i] \in Tasks /\ Waits(requests[q][i])
      BY <1>3, <3>1 DEF Inv, Places, QueuedWaits
    <3> QED BY <2>13, <3>1, <3>2 DEF Waits
  <2>18. HeldWaits'
    <3> SUFFICES ASSUME NEW o \in Tasks, NEW i \in 1 .. Len(tasks'[o].owners)
                 PROVE  Waits(tasks[o].owners[i])'
      BY DEF HeldWaits
    <3>1. PICK u : u = tasks'[o].owners[i]
      OBVIOUS
    <3>2. u \in Tasks
      BY <2>8, <3>1 DEF IsTask
    <3>3. Waits(u)
      BY <1>3, <2>10, <3>1 DEF Inv, Places, QueuedWaits, HeldWaits
    <3> QED BY <2>13, <3>1, <3>2, <3>3 DEF Waits
  <2>19. NoTicket'
    BY <2>13 DEF Inv, Places, NoTicket
  <2>20. Unwritten'
    <3>1. \A run \in log' : run \in log /\ run.owner \in Tasks
      BY <1>1, <1>4 DEF Types
    <3>2. \A run \in log' : tasks'[run.owner].stage # "called"
      BY <2>13, <3>1, <2>8, <2>5, <2>2 DEF Inv, Unwritten
    <3>3. \A run \in log', q \in Producers : \A i \in 1 .. Len(requests'[q]) :
                requests'[q][i] # run.owner
      BY <2>10, <3>1 DEF Inv, Unwritten
    <3>4. ASSUME NEW run \in log', NEW o \in Tasks, NEW i \in 1 .. Len(tasks'[o].owners),
                 Pending(o, i)'
          PROVE  tasks'[o].owners[i] # run.owner
      BY <1>3, <2>10, <3>1, <3>4, SMTT(30) DEF Inv, Unwritten, Pending
    <3> QED BY <3>2, <3>3, <3>4 DEF Unwritten
  <2>21. RightOffsets' /\ StoredOnce'
    <3>1. \A u \in Tasks \ {t} : tasks'[u] = tasks[u]
      BY <2>8
    <3>2. Len(tasks'[t].results) = 0
      BY <2>5, <2>8
    <3>3. StoredOnce'
      BY <1>4 DEF Inv, StoredOnce
    <3>4. RightOffsets'
      BY <1>4, <3>1, <3>2 DEF Inv, RightOffsets, IsAt
    <3> QED BY <3>3, <3>4
  <2> QED
    BY <2>11, <2>12, <2>14, <2>15, <2>16, <2>17, <2>18, <2>19, <2>20, <2>21 DEF Inv, Places
<1> QED BY <1>5, <1>6

\* Each owner has its result, and the task holds nothing any more.
LEMMA RespondInv ==
  ASSUME Inv, NEW t \in Tasks, Respond(t)
  PROVE  Inv'
<1>1. /\ Types /\ IsTask(tasks[t]) /\ Progress(tasks[t])
      /\ tasks[t].stage = "respond" /\ tasks[t].after \in {"select", "loop"}
      /\ Len(tasks[t].results) = Len(tasks[t].owners)
  BY DEF Inv, Types, Respond, At, Progress, Writing
<1>2. PICK owners, results : owners = tasks[t].owners /\ results = tasks[t].results
  OBVIOUS
<1>3. PICK r : r = [Idle EXCEPT !.stage = tasks[t].after]
  OBVIOUS
<1>4. /\ tasks' = [tasks EXCEPT ![t] = r]
      /\ responses' = [o \in Tasks |->
                IF Among(o, owners)
                THEN results[CHOOSE i \in 1 .. Len(owners) : owners[i] = o]
                ELSE responses[o]]
      /\ UNCHANGED <<batch, requests, log, high, answers>>
  BY <1>2, <1>3 DEF Respond
<1>5. /\ r.stage \in {"select", "loop"} /\ r.owners = <<>> /\ r.results = <<>>
      /\ Len(r.owners) = 0 /\ Len(r.results) = 0
  BY <1>1, <1>3, NoResults DEF Idle
<1>6. IsTask(r)
  <2>1. r = [stage |-> tasks[t].after, after |-> None, owners |-> <<>>, results |-> <<>>]
    BY <1>3 DEF Idle
  <2>2. <<>> \in Seq(Tasks)
    BY EmptySeq
  <2> QED BY <1>1, <1>5, <2>1, <2>2, NoResults DEF IsTask, Stages
<1>7. Progress(r)
  BY <1>5 DEF Progress, Writing
<1>8. /\ tasks' \in [Tasks -> {tasks'[u] : u \in Tasks}]
      /\ \A u \in Tasks : IsTask(tasks'[u])
      /\ tasks'[t] = r
      /\ \A u \in Tasks \ {t} : tasks'[u] = tasks[u]
  BY <1>1, <1>4, <1>6, TaskSet
<1>9. \A o \in Tasks : \A i \in 1 .. Len(tasks'[o].owners) : o # t /\ tasks'[o] = tasks[o]
  BY <1>5, <1>8
<1>10. Types'
  BY <1>1, <1>4, <1>8 DEF Types
<1>11. ASSUME NEW u \in Tasks PROVE Progress(tasks[u])'
  <2>1. batch' = batch /\ Progress(tasks[u]) /\ (tasks'[u] = r \/ tasks'[u] = tasks[u])
    BY <1>4, <1>8 DEF Inv
  <2> QED BY <1>7, <2>1 DEF Progress
<1>12. ASSUME NEW o \in Tasks, Among(o, owners)
       PROVE  \E i \in 1 .. Len(owners) : owners[i] = o /\ responses'[o] = results[i]
  <2>1. \E i \in 1 .. Len(owners) : owners[i] = o
    BY <1>12 DEF Among
  <2> DEFINE i == CHOOSE i \in 1 .. Len(owners) : owners[i] = o
  <2>2. i \in 1 .. Len(owners) /\ owners[i] = o
    BY <2>1
  <2>3. responses'[o] = results[i]
    BY <1>4, <1>12
  <2> QED BY <2>2, <2>3
<1>13. \A o \in Tasks : ~Among(o, owners) => responses'[o] = responses[o]
  BY <1>4
<1>14. \A u \in Tasks : tasks'[u].stage \in {"called", "done"}
                        <=> tasks[u].stage \in {"called", "done"}
  BY <1>1, <1>5, <1>8
<1>15. QueuedOnce'
  BY <1>4 DEF Inv, Places, QueuedOnce
<1>16. HeldOnce'
  <2> SUFFICES ASSUME NEW o \in Tasks, NEW u \in Tasks,
                      NEW i \in 1 .. Len(tasks'[o].owners),
                      NEW j \in 1 .. Len(tasks'[u].owners),
                      tasks'[o].owners[i] = tasks'[u].owners[j]
               PROVE  o = u /\ i = j
    BY DEF HeldOnce
  <2> QED BY <1>9, SMTT(30) DEF Inv, Places, HeldOnce
<1>17. NotBoth'
  BY <1>4, <1>9 DEF Inv, Places, NotBoth
<1>18. QueuedWaits'
  <2> SUFFICES ASSUME NEW q \in Producers, NEW i \in 1 .. Len(requests'[q])
               PROVE  Waits(requests[q][i])'
    BY DEF QueuedWaits
  <2>1. PICK u : u = requests[q][i]
    OBVIOUS
  <2>2. requests' = requests /\ i \in 1 .. Len(requests[q])
    BY <1>4
  <2>3. u \in Tasks /\ Waits(u)
    BY <1>1, <2>1, <2>2 DEF Inv, Types, Places, QueuedWaits
  <2>4. ~Among(u, owners)
    BY <1>2, <2>1, <2>2 DEF Inv, Places, NotBoth, Among
  <2>5. responses'[u] = responses[u]
    BY <1>13, <2>3, <2>4
  <2> QED BY <1>14, <2>1, <2>2, <2>3, <2>5 DEF Waits
<1>19. HeldWaits'
  <2> SUFFICES ASSUME NEW o \in Tasks, NEW i \in 1 .. Len(tasks'[o].owners)
               PROVE  Waits(tasks[o].owners[i])'
    BY DEF HeldWaits
  <2>1. PICK u : u = tasks[o].owners[i]
    OBVIOUS
  <2>2. o # t /\ tasks'[o] = tasks[o] /\ i \in 1 .. Len(tasks[o].owners)
    BY <1>9
  <2>3. u \in Tasks
    BY <1>1, <2>1, <2>2 DEF Types, IsTask
  <2>4. Waits(u)
    BY <2>1, <2>2 DEF Inv, Places, HeldWaits
  <2>5. ~Among(u, owners)
    BY <1>2, <2>1, <2>2 DEF Inv, Places, HeldOnce, Among
  <2>6. responses'[u] = responses[u]
    BY <1>13, <2>3, <2>5
  <2> QED BY <1>14, <2>1, <2>2, <2>3, <2>4, <2>6 DEF Waits
<1>20. NoTicket'
  <2> SUFFICES ASSUME NEW u \in Tasks, tasks'[u].stage \in {"called", "done"}
               PROVE  responses'[u] = None
    BY DEF NoTicket
  <2>1. tasks[u].stage \in {"called", "done"}
    BY <1>14
  <2>2. ~Among(u, owners)
    BY <1>2, <2>1 DEF Inv, Places, HeldWaits, Waits, Among
  <2>3. responses[u] = None
    BY <2>1 DEF Inv, Places, NoTicket
  <2> QED BY <1>13, <2>2, <2>3
<1>21. Unwritten'
  <2>1. \A run \in log' : run \in log /\ run.owner \in Tasks
    BY <1>1, <1>4 DEF Types
  <2>2. \A run \in log' : tasks'[run.owner].stage # "called"
    BY <1>5, <1>8, <2>1 DEF Inv, Unwritten
  <2>3. \A run \in log', q \in Producers : \A i \in 1 .. Len(requests'[q]) :
            requests'[q][i] # run.owner
    BY <1>4, <2>1 DEF Inv, Unwritten
  <2>4. ASSUME NEW run \in log', NEW o \in Tasks, NEW i \in 1 .. Len(tasks'[o].owners),
               Pending(o, i)'
        PROVE  tasks'[o].owners[i] # run.owner
    <3>1. tasks'[o] = tasks[o]
      BY <1>9
    <3> QED BY <2>1, <2>4, <3>1 DEF Inv, Unwritten, Pending
  <2> QED BY <2>2, <2>3, <2>4 DEF Unwritten
<1>22. RightOffsets' /\ StoredOnce'
  <2>1. ASSUME NEW u \in Tasks, responses'[u] \in Nat
        PROVE  IsAt(u, responses'[u])
    <3>1. CASE Among(u, owners)
      <4>1. PICK i \in 1 .. Len(owners) : owners[i] = u /\ responses'[u] = results[i]
        BY <1>12, <3>1
      <4> QED BY <1>1, <1>2, <2>1, <4>1 DEF Inv, RightOffsets
    <3>2. CASE ~Among(u, owners)
      BY <1>13, <2>1, <3>2 DEF Inv, RightOffsets
    <3> QED BY <3>1, <3>2
  <2>2. \A u \in Tasks : \A i \in 1 .. Len(tasks'[u].results) : tasks'[u] = tasks[u]
    BY <1>5, <1>8
  <2>3. \A u \in Tasks : responses'[u] \in Nat => IsAt(u, responses[u])'
    BY <1>4, <2>1 DEF IsAt
  <2>4. \A u \in Tasks : answers'[u] \in Nat => IsAt(u, answers[u])'
    BY <1>4 DEF Inv, RightOffsets, IsAt
  <2>5. \A u \in Tasks : \A i \in 1 .. Len(tasks'[u].results) :
            tasks'[u].results[i] \in Nat => IsAt(tasks[u].owners[i], tasks[u].results[i])'
    BY <1>4, <2>2 DEF Inv, RightOffsets, IsAt
  <2> QED BY <1>4, <2>3, <2>4, <2>5 DEF Inv, RightOffsets, StoredOnce
<1> QED
  BY <1>10, <1>11, <1>15, <1>16, <1>17, <1>18, <1>19, <1>20, <1>21, <1>22 DEF Inv, Places

(***************************************************************************)
(* The theorems.                                                           *)
(***************************************************************************)
LEMMA InitInv == Init => Inv
<1> SUFFICES ASSUME Init PROVE Inv
  OBVIOUS
<1>1. Types
  BY NoResults, EmptySeq DEF Init, Types, IsTask, Idle, Stages
<1>2. \A t \in Tasks : Progress(tasks[t])
  BY DEF Init, Progress, Idle, Writing
<1>3. \A t \in Tasks : Len(tasks[t].owners) = 0 /\ Len(tasks[t].results) = 0
  BY NoResults DEF Init, Idle
<1>4. \A p \in Producers : Len(requests[p]) = 0
  BY NoResults DEF Init
<1>5. Places
  BY <1>3, <1>4
  DEF Init, Places, QueuedOnce, HeldOnce, NotBoth, QueuedWaits, HeldWaits, NoTicket
<1>6. Unwritten /\ StoredOnce
  BY DEF Init, Unwritten, StoredOnce
<1>7. RightOffsets
  BY <1>3, BatcherAssumption DEF Init, RightOffsets
<1> QED BY <1>1, <1>2, <1>5, <1>6, <1>7 DEF Inv

LEMMA NextInv == Inv /\ [Next]_vars => Inv'
<1> SUFFICES ASSUME Inv, [Next]_vars PROVE Inv'
  OBVIOUS
<1>1. CASE Next
  <2>1. PICK t \in Tasks : Enqueue(t) \/ Step(t)
    BY <1>1 DEF Next
  <2> QED
    BY <2>1, EnqueueInv, MeasureQueueInv, PollInv, ExpireInv, TakeQueueInv, FailAllInv,
       WriteMergedInv, WriteEachInv, RespondInv DEF Step, Send
<1>2. CASE UNCHANGED vars
  BY <1>2 DEF vars, Inv, Types, Progress, Places, QueuedOnce, HeldOnce, NotBoth, QueuedWaits,
              HeldWaits, NoTicket, Waits, Unwritten, Pending, RightOffsets, IsAt, StoredOnce
<1> QED BY <1>1, <1>2

\* The inductive invariant: each batch is in one place at a time, from the queue through
\* the task that writes it to its response (ProduceRequestBatcher).
THEOREM BatcherInvariant == Spec => []Inv
<1> QED BY InitInv, NextInv, PTL DEF Spec

\* Whatever is merged, refused, written again or fails, the records of a request are
\* stored at most once (send_queued, write_each_as_sent).
THEOREM AlwaysStoredOnce == Spec => []StoredOnce
<1>1. Inv => StoredOnce
  BY DEF Inv
<1> QED BY <1>1, BatcherInvariant, PTL

\* The offset that a produce returns is the one of its own records (respond).
THEOREM AlwaysOwnRecords == Spec => []OwnRecords
<1>1. Inv => OwnRecords
  BY DEF Inv, RightOffsets, IsAt, OwnRecords
<1> QED BY <1>1, BatcherInvariant, PTL

\* A request that has returned is in no queue, with no writer, and has no response left.
THEOREM AlwaysNothingLeft == Spec => []NothingLeft
<1>1. Inv => NothingLeft
  BY DEF Inv, Places, QueuedWaits, HeldWaits, NoTicket, Waits, NothingLeft, At, Among
<1> QED BY <1>1, BatcherInvariant, PTL
=============================================================================
