------------------------------ MODULE Produce -------------------------------
(***************************************************************************)
(* Produce, fetch and DeleteRecords on one partition of the object store   *)
(* engine (src/nisshi-storage-dynostore/src/dynostore.rs), for producers   *)
(* that are idempotent and for ones that are not.                          *)
(*                                                                         *)
(* A produce is five steps on three objects: it checks its sequence in     *)
(* meta.json, takes its offset in watermark.json, creates the object of    *)
(* the batch, advances the sequence in meta.json, and answers.  Any number *)
(* of brokers run them, and each step may be the last.  A write of a       *)
(* document is atomic (module OptiCon); a read gives a version that the    *)
(* broker has in its cache, here any that the document ever had.           *)
(***************************************************************************)
EXTENDS ProducerState, Fetch

CONSTANTS
    Batches,     \* the batches that clients send
    Slots,       \* bound: the produce requests in progress at a time
    Partition,   \* the partition
    MaxSends,    \* bound: how many batches are sent
    MaxEvents,   \* bound: how many faults, DeleteRecords and fetches there are
    FetchSizes,  \* the max_bytes of the fetches
    ListsInOrder, \* whether the store lists keys in key order
    None         \* no request, or no producer

ASSUME ProduceAssumption ==
    /\ Batches \subseteq [producer : Nat \cup {None}, epoch : 0 .. MaxEpoch,
                          sequence : Nat, count : Nat \ {0}]
    /\ None \notin Nat
    /\ MaxSends \in Nat /\ MaxEvents \in Nat
    /\ FetchSizes \subseteq Nat
    /\ ListsInOrder \in BOOLEAN

VARIABLES
    producers,  \* meta.json: the ProducerDetail of each producer ID
    versions,   \* the values that producers had
    watermark,  \* watermark.json
    forgotten,  \* history: the producers whose epoch the watermark dropped
    records,    \* the objects of the batches, by base offset
    requests,   \* the produce request in each slot, or None
    sends,      \* how many were sent
    answers,    \* what clients were told of the batches
    sweep,      \* the DeleteRecords in progress, or None
    consumer,   \* a consumer
    fetched,    \* the base offsets of the batches it got
    events      \* how many faults, DeleteRecords and fetches there were

meta == <<producers, versions>>
sending == <<requests, sends, answers>>
consuming == <<consumer, fetched>>
vars == <<meta, watermark, forgotten, records, sending, sweep, consuming, events>>

Init ==
    /\ producers = EmptyMap
    /\ versions = {producers}
    /\ watermark = [low |-> 0, high |-> 0, producer_epochs |-> EmptyMap]
    /\ forgotten = {}
    /\ records = EmptyMap
    /\ requests = [c \in Slots |-> None]
    /\ sends = 0
    /\ answers = {}
    /\ sweep = None
    /\ consumer = [stage |-> "idle", position |-> 0, high |-> 0, listed |-> {}]
    /\ fetched = {}
    /\ events = 0

Event == events < MaxEvents /\ events' = events + 1

WriteMeta(p) == producers' = p /\ versions' = versions \cup {p}

\* InitProducerId without a transactional ID.
InitProducer ==
    LET id == Max({0} \cup DOMAIN producers) + 1
    IN  /\ id \in {b.producer : b \in Batches}
        /\ WriteMeta(Put(producers, id, NewProducer))
        /\ UNCHANGED <<watermark, forgotten, records, sending, sweep, consuming, events>>

(***************************************************************************)
(* Produce.                                                                *)
(***************************************************************************)
At(c, stage) == requests[c] # None /\ requests[c].stage = stage

Goto(c, stage) == requests' = [requests EXCEPT ![c].stage = stage]

End(c) == requests' = [requests EXCEPT ![c] = None]

\* What the client is told: that the batch is at an offset, or that it is a duplicate.
Told(c, how, offset) ==
    answers' = answers \cup {[batch |-> requests[c].batch, how |-> how, offset |-> offset]}

Idempotent(b) == b.producer # None

\* No batch is one of a transaction.
Transactional == FALSE

Send(c, b) ==
    /\ requests[c] = None
    /\ sends < MaxSends
    /\ Idempotent(b) => b.producer \in DOMAIN producers
    /\ sends' = sends + 1
    /\ requests' = [requests EXCEPT ![c] =
                        [batch |-> b, offset |-> NoOffset,
                         stage |-> IF Idempotent(b) THEN "check" ELSE "offset"]]
    /\ UNCHANGED <<meta, watermark, forgotten, records, answers, sweep, consuming, events>>

\* check_idempotent_sequence, on the version of meta.json that the broker has.
Check(c) ==
    /\ At(c, "check")
    /\ \E version \in versions :
        LET b == requests[c].batch
            check == IF b.producer \in DOMAIN version
                     THEN check_idempotent(version[b.producer], Transactional, Partition, b)
                     ELSE [outcome |-> "UnknownProducerId", offset |-> NoOffset]
        IN  \/ check.outcome = "Append" /\ Goto(c, "offset") /\ UNCHANGED answers
            \/ check.outcome = "Duplicate" /\ End(c) /\ Told(c, "duplicate", check.offset)
            \/ check.outcome \notin {"Append", "Duplicate"} /\ End(c) /\ UNCHANGED answers
    /\ UNCHANGED <<meta, watermark, forgotten, records, sends, sweep, consuming, events>>

\* The producers that the watermark holds no epoch of once it has recorded that of b.
Forgotten(producer_epochs, b) ==
    (DOMAIN producer_epochs \cup {p \in {b.producer} : b.epoch > 0})
        \ DOMAIN record_producer_epoch(producer_epochs, b)

\* The write of the watermark: the fence, the offset and the epoch.
TakeOffset(c) ==
    /\ At(c, "offset")
    /\ LET b == requests[c].batch
       IN  IF Idempotent(b) /\ fence_producer_epoch(watermark.producer_epochs, b)
           THEN End(c) /\ UNCHANGED <<watermark, forgotten>>
           ELSE /\ watermark' = [watermark EXCEPT
                        !.high = @ + b.count,
                        !.producer_epochs =
                            IF Idempotent(b) THEN record_producer_epoch(@, b) ELSE @]
                /\ forgotten' = IF Idempotent(b)
                                THEN forgotten \cup Forgotten(watermark.producer_epochs, b)
                                ELSE forgotten
                /\ requests' = [requests EXCEPT ![c] = [@ EXCEPT !.stage = "put",
                                                                !.offset = watermark.high]]
    /\ UNCHANGED <<meta, records, sends, answers, sweep, consuming, events>>

\* The put of the object, with PutMode::Create.
PutBatch(c) ==
    /\ At(c, "put")
    /\ LET r == requests[c]
       IN  IF r.offset \in DOMAIN records
           THEN End(c) /\ UNCHANGED <<records, answers>>
           ELSE /\ records' = Put(records, r.offset, r.batch)
                /\ IF Idempotent(r.batch)
                   THEN Goto(c, "advance") /\ UNCHANGED answers
                   ELSE End(c) /\ Told(c, "stored", r.offset)
    /\ UNCHANGED <<meta, watermark, forgotten, sends, sweep, consuming, events>>

\* Mutant of Advance: the sequence is not checked again.
AdvanceAnyway(c) ==
    /\ At(c, "advance")
    /\ LET b == requests[c].batch
           pd == producers[b.producer]
       IN  WriteMeta(Put(producers, b.producer,
                         advance(pd, Transactional, Partition, b, requests[c].offset)))
    /\ Told(c, "stored", requests[c].offset)
    /\ End(c)
    /\ UNCHANGED <<watermark, forgotten, records, sends, sweep, consuming, events>>

\* advance_idempotent_sequence.
Advance(c) ==
    /\ At(c, "advance")
    /\ LET b == requests[c].batch
           offset == requests[c].offset
           pd == producers[b.producer]
           check == check_idempotent(pd, Transactional, Partition, b)
           superseded == /\ is_superseded(stored_epochs(pd, Transactional, Partition), b.epoch)
                         /\ is_ahead_of_next_epoch(pd, b.epoch, Partition, offset)
       IN  \/ /\ check.outcome = "Append"
              /\ WriteMeta(Put(producers, b.producer, advance(pd, Transactional, Partition, b, offset)))
              /\ Told(c, "stored", offset)
           \/ /\ check.outcome # "Append" /\ superseded
              /\ Told(c, "superseded", offset)
              /\ UNCHANGED meta
           \/ /\ check.outcome = "Duplicate"
              /\ Told(c, "error", check.offset)   \* DuplicateSequenceNumber
              /\ UNCHANGED meta
           \/ /\ check.outcome \notin {"Append", "Duplicate"} /\ ~superseded
              /\ UNCHANGED <<meta, answers>>
    /\ End(c)
    /\ UNCHANGED <<watermark, forgotten, records, sends, sweep, consuming, events>>

(***************************************************************************)
(* Faults.                                                                 *)
(***************************************************************************)
\* The store answers an error, or the broker stops: the client gets an error or no answer.
Fail(c) ==
    /\ Event
    /\ requests[c] # None
    /\ End(c)
    /\ UNCHANGED <<meta, watermark, forgotten, records, sends, answers, sweep, consuming>>

\* The answer to the write of the watermark is lost: it is made again, on its own result.
RetakeOffset(c) ==
    /\ Event
    /\ At(c, "put")
    /\ requests' = [requests EXCEPT ![c] = [@ EXCEPT !.stage = "offset", !.offset = NoOffset]]
    /\ UNCHANGED <<meta, watermark, forgotten, records, sends, answers, sweep, consuming>>

\* The answer to the write of meta.json is lost, and that is made again.
AdvanceUnheard(c) ==
    /\ Event
    /\ At(c, "advance")
    /\ LET b == requests[c].batch
           pd == producers[b.producer]
       IN  /\ check_idempotent(pd, Transactional, Partition, b).outcome = "Append"
           /\ WriteMeta(Put(producers, b.producer,
                            advance(pd, Transactional, Partition, b, requests[c].offset)))
    /\ UNCHANGED <<watermark, forgotten, records, sending, sweep, consuming>>

(***************************************************************************)
(* DeleteRecords.                                                          *)
(***************************************************************************)
\* Commits the cut as the low watermark.  Bound: one sweep at a time.
DeleteRecords(requested) ==
    /\ sweep = None
    /\ requested <= watermark.high
    /\ LET cutoff == Max({requested, watermark.low})
       IN  /\ watermark' = [watermark EXCEPT !.low = cutoff]
           /\ sweep' = [cutoff |-> cutoff, high |-> watermark.high, expired |-> None]
    /\ Event
    /\ UNCHANGED <<meta, forgotten, records, sending, consuming>>

\* Mutant of Expired: the objects that begin below the cut.
ExpiredByBase(cutoff, high) == {o \in DOMAIN records : o < cutoff}

\* The objects that delete_records_batches deletes: those whose successor starts at
\* or below the cut, and the last one if the cut is at the high watermark.
Expired(cutoff, high) ==
    {o \in DOMAIN records :
        \/ \E next \in DOMAIN records : next > o /\ next <= cutoff
        \/ /\ cutoff >= high /\ o < cutoff
           /\ \A other \in DOMAIN records : other <= o}

ListExpired ==
    /\ sweep # None /\ sweep.expired = None
    /\ sweep' = [sweep EXCEPT !.expired = Expired(sweep.cutoff, sweep.high)]
    /\ UNCHANGED <<meta, watermark, forgotten, records, sending, consuming, events>>

\* One object is deleted, or the store refuses to, which is only logged.
DeleteExpired(o) ==
    /\ records' = Drop(records, o)
    /\ sweep' = [sweep EXCEPT !.expired = @ \ {o}]
    /\ UNCHANGED <<meta, watermark, forgotten, sending, consuming, events>>

KeepExpired(o) ==
    /\ Event
    /\ sweep' = [sweep EXCEPT !.expired = @ \ {o}]
    /\ UNCHANGED <<meta, watermark, forgotten, records, sending, consuming>>

EndSweep ==
    /\ sweep # None /\ sweep.expired = {}
    /\ sweep' = None
    /\ UNCHANGED <<meta, watermark, forgotten, records, sending, consuming, events>>

Sweep ==
    \/ ListExpired
    \/ /\ sweep # None /\ sweep.expired # None
       /\ \E o \in sweep.expired : DeleteExpired(o) \/ KeepExpired(o)
    \/ EndSweep

(***************************************************************************)
(* Fetch, by a consumer that reads uncommitted from the start of the log.  *)
(***************************************************************************)
\* The high watermark that the broker has.
StartFetch ==
    /\ consumer.stage = "idle"
    /\ Event
    /\ consumer.position < watermark.high
    /\ consumer' = [consumer EXCEPT !.stage = "list", !.high = watermark.high]
    /\ UNCHANGED <<meta, watermark, forgotten, records, sending, sweep, fetched>>

ListBatches ==
    /\ consumer.stage = "list"
    /\ consumer' = [consumer EXCEPT !.stage = "read", !.listed = DOMAIN records]
    /\ UNCHANGED <<meta, watermark, forgotten, records, sending, sweep, fetched, events>>

Orders(listed) ==
    LET keys == Ascending(listed)
    IN  IF ListsInOrder THEN {keys}
        ELSE Bijection(DOMAIN keys, listed)

\* What the consumer may be answered, whatever the order of the listing.
FetchAnswers ==
    {fetch(records, [offset |-> consumer.position, high |-> consumer.high,
                     max_bytes |-> max_bytes], order) :
        order \in Orders(consumer.listed), max_bytes \in FetchSizes}

\* The consumer goes on after the last batch that it gets.
ReadBatches ==
    /\ consumer.stage = "read"
    /\ \E answer \in FetchAnswers :
        LET last == answer[Len(answer)]
        IN  /\ fetched' = fetched \cup Range(answer)
            /\ consumer' = [consumer EXCEPT
                    !.stage = "idle", !.high = 0, !.listed = {},
                    !.position = IF answer = <<>> THEN @ ELSE last + records[last].count]
    /\ UNCHANGED <<meta, watermark, forgotten, records, sending, sweep, events>>

Consume == StartFetch \/ ListBatches \/ ReadBatches

Step(c) == Check(c) \/ TakeOffset(c) \/ PutBatch(c) \/ Advance(c)

Next ==
    \/ InitProducer
    \/ \E c \in Slots : \/ \E b \in Batches : Send(c, b)
                        \/ Step(c) \/ Fail(c) \/ RetakeOffset(c) \/ AdvanceUnheard(c)
    \/ \E requested \in 0 .. watermark.high : DeleteRecords(requested)
    \/ Sweep
    \/ Consume

Spec == Init /\ [][Next]_vars

(***************************************************************************)
(* Properties.                                                             *)
(***************************************************************************)
\* Every batch that a client takes as delivered is in the log at its offset, until
\* DeleteRecords cuts all of its records, whichever step of a produce was the last of
\* another copy, and however old the version was that the check read (produce).
AckedIsStored ==
    \A a \in answers :
        a.offset + a.batch.count > watermark.low
            => a.offset \in DOMAIN records /\ records[a.offset] = a.batch

\* A batch that is sent again, on another connection or to another broker, is not
\* acknowledged at a second offset (advance_idempotent_sequence checks again), but for
\* one case that the property leaves out: a copy that the next epoch of its producer
\* supersedes while it is being stored is acknowledged at its own offset, although
\* another copy may be acknowledged already.
OneOffset ==
    \A a1, a2 \in answers :
        /\ Idempotent(a1.batch) /\ a1.batch = a2.batch
        /\ "superseded" \notin {a1.how, a2.how}
        => a1.offset = a2.offset

\* The acknowledged batches of a producer are in the log in the order of its epochs, as
\* long as the watermark has not dropped the epoch of the producer, and within an epoch
\* in the order of their sequences, but for the copies that the next epoch superseded:
\* the fence in the watermark, the check of the sequence and the starts of the epochs
\* make up for each other's gaps.
InOrder ==
    \A a1, a2 \in answers :
        /\ Idempotent(a1.batch) /\ a1.batch.producer = a2.batch.producer
        /\ \/ a1.batch.epoch < a2.batch.epoch /\ a1.batch.producer \notin forgotten
           \/ /\ a1.batch.epoch = a2.batch.epoch /\ a1.batch.sequence < a2.batch.sequence
              /\ "superseded" \notin {a1.how, a2.how}
        => a1.offset < a2.offset

\* "A forgotten producer's older-epoch batch is checked only against `meta.json` again,
\* which refuses it after its record write if it is behind the newer epoch's batches"
\* (dynostore.rs, MAX_FENCED_PRODUCERS): no acknowledged batch is behind one of a later
\* epoch of its producer, whether or not the watermark dropped that epoch.
OlderEpochRefused ==
    \A a1, a2 \in answers :
        /\ Idempotent(a1.batch) /\ a1.batch.producer = a2.batch.producer
        /\ a1.batch.epoch < a2.batch.epoch
        => a1.offset < a2.offset

\* A fetch passes over no batch that was in the log when it listed the log, in whatever
\* order the store lists it and whatever gaps failed produces left, as long as none of
\* them is deleted (fetch, batch_stream_holding, read_fetched_batches).
FetchSkipsNothing ==
    [][/\ consumer.stage = "read" /\ consumer'.stage = "idle"
       /\ consumer.listed \subseteq DOMAIN records
       => \A o \in consumer.listed :
            /\ o + records[o].count > consumer.position
            /\ o < consumer'.position
            => o \in fetched']_vars

\* "such a batch shows that the listing is out of key order, or that it skips a gap that
\* a failed produce left" (dynostore.rs, read_fetched_batches): a gap that a fetch
\* skips holds no batch that is acknowledged later.
ConsumerGetsAcked ==
    \A a \in answers :
        /\ a.offset >= watermark.low
        /\ a.offset < consumer.position
        => a.offset \in fetched
=============================================================================
