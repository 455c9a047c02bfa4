--------------------------- MODULE ProducerState ----------------------------
(***************************************************************************)
(* What meta.json and watermark.json hold of the idempotent producers, and *)
(* the checks of a produced batch against it:                              *)
(* src/nisshi-storage/src/producer.rs, and in the object store engine      *)
(* dynostore.rs (ProducerDetail, Watermark) and produced_batches.rs.       *)
(*                                                                         *)
(* A batch is a record of a producer ID, an epoch, its first sequence and  *)
(* its number of records.                                                  *)
(***************************************************************************)
EXTENDS Integers, Sequences, FiniteSetsExt, Maps

CONSTANTS
    MaxEpoch,            \* i16::MAX
    MAX_BATCHES,         \* the batches remembered for a partition
    MAX_FENCED_PRODUCERS \* the producers that a watermark holds the epoch of

ASSUME ProducerStateAssumption ==
    /\ MaxEpoch \in Nat /\ MaxEpoch > 1
    /\ MAX_BATCHES \in Nat \ {0}
    /\ MAX_FENCED_PRODUCERS \in Nat \ {0}

\* The entry of a partition at an epoch, in a map of epochs to maps of partitions.
Has(by_epoch, epoch, p) == epoch \in DOMAIN by_epoch /\ p \in DOMAIN by_epoch[epoch]

Get(by_epoch, epoch, p, default) ==
    IF Has(by_epoch, epoch, p) THEN by_epoch[epoch][p] ELSE default

Set(by_epoch, epoch, p, v) ==
    Put(by_epoch, epoch,
        Put(IF epoch \in DOMAIN by_epoch THEN by_epoch[epoch] ELSE EmptyMap, p, v))

(***************************************************************************)
(* Epochs.                                                                 *)
(***************************************************************************)
epoch_is_exhausted(epoch) == epoch >= MaxEpoch - 1

\* The producer as allocate_producer_id makes it.
NewProducer ==
    [sequences |-> Put(EmptyMap, 0, EmptyMap), batches |-> EmptyMap, epoch_starts |-> EmptyMap]

NoEpoch == -1

\* The epochs that a batch is checked against.  A producer has one at least.
stored_epochs(pd, transactional, p) ==
    [transactional |-> transactional,
     newest |-> Max(DOMAIN pd.sequences),
     partition |-> Max({NoEpoch} \cup {e \in DOMAIN pd.sequences : Has(pd.sequences, e, p)})]

\* Continue, Start, or the error.
check_batch(stored, epoch, base_sequence) ==
    IF stored.newest = MaxEpoch THEN "ProducerFenced"
    ELSE IF stored.transactional
    THEN IF epoch = stored.newest THEN "Continue" ELSE "InvalidProducerEpoch"
    ELSE IF epoch = stored.partition THEN "Continue"
    ELSE IF epoch < stored.partition \/ epoch_is_exhausted(epoch) THEN "InvalidProducerEpoch"
    ELSE IF base_sequence # 0 THEN "OutOfOrderSequenceNumber"
    ELSE "Start"

is_superseded(stored, epoch) ==
    /\ ~stored.transactional
    /\ stored.newest # MaxEpoch
    /\ stored.partition > epoch

(***************************************************************************)
(* Sequences.                                                              *)
(***************************************************************************)
\* No batches are remembered: the sequence was stored before the broker did so.
NoBatches == <<>>

remember(batches, b, base_offset) ==
    LET all == Append(batches, [first_sequence |-> b.sequence,
                                last_sequence |-> b.sequence + b.count - 1,
                                base_offset |-> base_offset])
    IN  IF Len(batches) = MAX_BATCHES THEN Tail(all) ELSE all

\* The remembered batches that b repeats.
repeated(batches, b) ==
    {i \in 1 .. Len(batches) : /\ batches[i].first_sequence = b.sequence
                               /\ batches[i].last_sequence = b.sequence + b.count - 1}

NoOffset == -1

\* Append, Duplicate with the offset of the stored batch, or the error.
check_sequence(next_sequence, batches, b) ==
    IF b.sequence = next_sequence THEN [outcome |-> "Append", offset |-> NoOffset]
    ELSE IF repeated(batches, b) # {}
    THEN [outcome |-> "Duplicate", offset |-> batches[Min(repeated(batches, b))].base_offset]
    ELSE IF batches = NoBatches /\ b.sequence < next_sequence
    THEN [outcome |-> "DuplicateSequenceNumber", offset |-> NoOffset]
    ELSE [outcome |-> "OutOfOrderSequenceNumber", offset |-> NoOffset]

\* Both checks of a batch: the outcome, and whether it starts its epoch on p.
check_idempotent(pd, transactional, p, b) ==
    LET epoch == check_batch(stored_epochs(pd, transactional, p), b.epoch, b.sequence)
    IN  CASE epoch = "Continue" ->
                check_sequence(Get(pd.sequences, b.epoch, p, 0),
                               Get(pd.batches, b.epoch, p, NoBatches), b)
          [] epoch = "Start" -> check_sequence(0, NoBatches, b)
          [] OTHER -> [outcome |-> epoch, offset |-> NoOffset]

\* The batch is ahead of all those of the next epoch.
is_ahead_of_next_epoch(pd, epoch, p, offset) ==
    /\ Has(pd.epoch_starts, epoch + 1, p)
    /\ offset < pd.epoch_starts[epoch + 1][p]

forget_older_epochs(by_epoch, epoch, p) ==
    [e \in {e \in DOMAIN by_epoch : e >= epoch \/ DOMAIN by_epoch[e] \ {p} # {}} |->
        IF e >= epoch THEN by_epoch[e] ELSE Drop(by_epoch[e], p)]

start_epoch(pd, epoch, p, base_offset) ==
    LET starts == forget_older_epochs(pd.epoch_starts, epoch, p)
    IN  [sequences |-> forget_older_epochs(pd.sequences, epoch, p),
         batches |-> forget_older_epochs(pd.batches, epoch, p),
         epoch_starts |-> IF epoch > 0 THEN Set(starts, epoch, p, base_offset) ELSE starts]

\* The batch b is stored at base_offset.
advance(pd, transactional, p, b, base_offset) ==
    LET starts == check_batch(stored_epochs(pd, transactional, p), b.epoch, b.sequence) = "Start"
        at == IF starts THEN start_epoch(pd, b.epoch, p, base_offset) ELSE pd
    IN  [at EXCEPT !.sequences = Set(@, b.epoch, p, Get(@, b.epoch, p, 0) + b.count),
                   !.batches = Set(@, b.epoch, p,
                                   remember(Get(@, b.epoch, p, NoBatches), b, base_offset))]

(***************************************************************************)
(* The fence in the watermark: the newest epoch above 0 of each producer.  *)
(***************************************************************************)
\* Mutant of fence_producer_epoch: it fences no batch.
fence_nothing(producer_epochs, b) == FALSE

fence_producer_epoch(producer_epochs, b) ==
    b.producer \in DOMAIN producer_epochs /\ producer_epochs[b.producer] > b.epoch

record_producer_epoch(producer_epochs, b) ==
    LET newer == Put(producer_epochs, b.producer, b.epoch)
    IN  IF b.epoch <= 0 \/ (b.producer \in DOMAIN producer_epochs
                            /\ producer_epochs[b.producer] >= b.epoch)
        THEN producer_epochs
        ELSE IF Cardinality(DOMAIN newer) > MAX_FENCED_PRODUCERS
        THEN Drop(newer, Min(DOMAIN newer))
        ELSE newer
=============================================================================
