---------------------------- MODULE ListOffsets -----------------------------
(***************************************************************************)
(* ListOffsets by timestamp on one partition of the object store engine    *)
(* (src/nisshi-storage-dynostore/src/dynostore.rs), while brokers produce, *)
(* records are deleted, and brokers of a release without the time index    *)
(* still run.                                                              *)
(*                                                                         *)
(* A produce appends to the index in the write of watermark.json that      *)
(* gives it its offset, and stores its batch later or never.  A lookup     *)
(* that finds the index incomplete backfills it: it writes a token, lists  *)
(* and reads the batches, and merges what it found with the index that     *)
(* produces have kept meanwhile.  A lookup that reads an old watermark.json *)
(* from the broker's cache is one that began when that was written.        *)
(***************************************************************************)
EXTENDS TimeIndex

CONSTANTS
    Batches,      \* the batches that clients send: the timestamps of their records
    Initial,      \* the partitions that the broker may find
    Slots,        \* bound: the produce requests in progress at a time
    Cutoffs,      \* bound: the offsets that records are deleted below
    Lookups,      \* the brokers, each with one lookup at a time
    MaxSends,     \* bound: how many batches are sent
    MaxOldSends,  \* bound: how many of them to brokers without the index
    MaxLookups,   \* bound: how many lookups there are
    MaxEvents     \* bound: how many faults and DeleteRecords there are

ASSUME ListOffsetsAssumption ==
    /\ \A b \in Batches : b \in Seq(Nat) /\ b # <<>>
    /\ Cutoffs \subseteq Nat
    /\ {MaxSends, MaxOldSends, MaxLookups, MaxEvents} \subseteq Nat
    /\ None \notin Nat \cup (Lookups \X Nat)

MaxTimestamp(batch) == Max(Range(batch))

\* The number of records of a batch stands for its bytes.
Bytes(batch) == Len(batch)

\* The index knows of the batch: its maximum is no less, and the entries after the
\* batch have a later timestamp.
Covers(index, b) ==
    /\ MaxTimestamp(b.batch) <= index.max_timestamp
    /\ \A t \in DOMAIN index.entries : b.offset < index.entries[t] => MaxTimestamp(b.batch) < t

\* An index whose entries are of batches below this offset.
IsIndex(index, high) ==
    /\ index \in [entries : {index.entries}, max_timestamp : Int, bytes_since_entry : Nat,
                  interval_bytes : Nat, complete : BOOLEAN, version : Nat,
                  backfill : {index.backfill}]
    /\ index.entries \in [DOMAIN index.entries -> 0 .. high - 1]
    /\ DOMAIN index.entries \subseteq Nat

\* A partition that brokers have left: the batches do not overlap, an index that says
\* it is complete knows of them, and no backfill of this time has begun.
IsPartition(mark, batches) ==
    /\ mark \in [low : Nat, high : Nat, time_index : {mark.time_index}]
    /\ batches \in [DOMAIN batches -> Seq(Nat) \ {<<>>}]
    /\ DOMAIN batches \subseteq Nat
    /\ \A o \in DOMAIN batches :
        /\ o + Len(batches[o]) <= mark.high
        /\ \A p \in DOMAIN batches : o < p => o + Len(batches[o]) <= p
        /\ /\ mark.time_index.complete /\ mark.time_index.version >= VERSION
           /\ o + Len(batches[o]) > mark.low
           => Covers(mark.time_index, [batch |-> batches[o], offset |-> o])
    /\ IsIndex(mark.time_index, mark.high)
    /\ mark.time_index.backfill \notin Lookups \X Nat

ASSUME InitialAssumption ==
    \A partition \in Initial : IsPartition(partition.watermark, partition.records)

VARIABLES
    watermark, \* watermark.json: low, high and time_index
    records,   \* the objects of the batches, by base offset
    requests,  \* the produce in each slot that has its offset, or None
    lookups,   \* the lookup of each broker, or None
    counts,    \* how many sends, old sends, lookups and events there were
    overlooked \* history: the offsets of the batches in flight that a backfill found no
               \* gap for, although it took its index as complete; read by properties only

vars == <<watermark, records, requests, lookups, counts, overlooked>>

Init ==
    /\ \E partition \in Initial : watermark = partition.watermark /\ records = partition.records
    /\ requests = [c \in Slots |-> None]
    /\ lookups = [l \in Lookups |-> None]
    /\ counts = [sends |-> 0, old_sends |-> 0, lookups |-> 0, events |-> 0]
    /\ overlooked = {}

Event == counts.events < MaxEvents /\ counts' = [counts EXCEPT !.events = @ + 1]

(***************************************************************************)
(* Produce, in so far as the index knows of it.                            *)
(***************************************************************************)
TakeOffset(c, batch) ==
    LET new == watermark.high = 0
        index == IF new THEN mark_complete(watermark.time_index) ELSE watermark.time_index
    IN  /\ requests[c] = None
        /\ counts.sends < MaxSends
        /\ watermark' = [watermark EXCEPT
                !.high = @ + Len(batch),
                !.time_index = append(index, MaxTimestamp(batch), watermark.high, Bytes(batch))]
        /\ requests' = [requests EXCEPT ![c] =
                [batch |-> batch, offset |-> watermark.high]]
        /\ counts' = [counts EXCEPT !.sends = @ + 1]
        /\ UNCHANGED <<records, lookups, overlooked>>

\* A broker without the index writes the document without the field.
OldTakeOffset(c, batch) ==
    /\ requests[c] = None
    /\ counts.sends < MaxSends /\ counts.old_sends < MaxOldSends
    /\ watermark' = [watermark EXCEPT !.high = @ + Len(batch), !.time_index = Default]
    /\ requests' = [requests EXCEPT ![c] =
            [batch |-> batch, offset |-> watermark.high]]
    /\ counts' = [counts EXCEPT !.sends = @ + 1, !.old_sends = @ + 1]
    /\ UNCHANGED <<records, lookups, overlooked>>

PutBatch(c) ==
    /\ requests[c] # None
    /\ records' = Put(records, requests[c].offset, requests[c].batch)
    /\ requests' = [requests EXCEPT ![c] = None]
    /\ UNCHANGED <<watermark, lookups, counts, overlooked>>

\* The produce fails between the two writes, or takes another offset.
FailProduce(c) ==
    /\ requests[c] # None
    /\ Event
    /\ requests' = [requests EXCEPT ![c] = None]
    /\ UNCHANGED <<watermark, records, lookups, overlooked>>

(***************************************************************************)
(* DeleteRecords: the cut, and later the objects that are below it.        *)
(***************************************************************************)
DeleteRecords(cutoff) ==
    /\ cutoff > watermark.low
    /\ Event
    /\ watermark' = [watermark EXCEPT !.low = cutoff]
    /\ UNCHANGED <<records, requests, lookups, overlooked>>

DeleteBatch(o) ==
    /\ o + Len(records[o]) <= watermark.low
    /\ records' = Drop(records, o)
    /\ UNCHANGED <<watermark, requests, lookups, counts, overlooked>>

(***************************************************************************)
(* A lookup.                                                               *)
(***************************************************************************)
At(l, stage) == lookups[l] # None /\ lookups[l].stage = stage

Go(l, lookup) == lookups' = [lookups EXCEPT ![l] = lookup]

\* complete_time_index: the index is taken as it is, or is backfilled first.
StartLookup(l) ==
    /\ lookups[l] = None
    /\ counts.lookups < MaxLookups
    /\ LET found == is_complete(watermark.time_index) \/ watermark.high = 0
       IN  Go(l, [stage |-> IF found THEN "scan" ELSE "begin",
                  index |-> IF found THEN watermark.time_index ELSE None,
                  low |-> watermark.low, high |-> 0, token |-> None, listed |-> EmptyMap,
                  seen |-> DOMAIN records])
    /\ counts' = [counts EXCEPT !.lookups = @ + 1]
    /\ UNCHANGED <<watermark, records, requests, overlooked>>

\* begin_time_index_backfill.
BeginBackfill(l) ==
    /\ At(l, "begin")
    /\ LET index == begin_backfill(watermark.time_index, <<l, counts.lookups>>)
       IN  /\ watermark' = [watermark EXCEPT !.time_index = index]
           /\ Go(l, [lookups[l] EXCEPT !.stage = "list", !.token = index.backfill,
                                       !.low = watermark.low, !.high = watermark.high])
    /\ UNCHANGED <<records, requests, counts, overlooked>>

\* list_batches, and below which batches a produce was in flight.
ListBatches(l) ==
    /\ At(l, "list")
    /\ LET listed == {o \in DOMAIN records : o < lookups[l].high}
       IN  Go(l, [lookups[l] EXCEPT
                !.stage = "read",
                !.listed = [o \in listed |-> \E c \in Slots : /\ requests[c] # None
                                                            /\ requests[c].offset < o]])
    /\ UNCHANGED <<watermark, records, requests, counts, overlooked>>

\* The batches that are in the log or may still get there, with their offsets.
InLogOrFlight ==
    {[batch |-> records[o], offset |-> o] : o \in DOMAIN records}
        \cup {requests[c] : c \in {c \in Slots : requests[c] # None}}

\* The batches in the log or in flight that are not cut.
Uncut == {b \in InLogOrFlight : b.offset + Len(b.batch) > watermark.low}

\* The listed batch at o, if it can still be read.  A gap below a batch that has aged
\* is that of a failed produce; the batches after any other gap get no entry.
collect_batch(so_far, o, batches, aged) ==
    LET gap == so_far.next # None /\ o > so_far.next /\ o \notin aged
        settled == so_far.settled /\ ~gap
        timestamp == MaxTimestamp(batches[o])
    IN  IF o \notin DOMAIN batches
        THEN [so_far EXCEPT !.settled = settled, !.next = None]
        ELSE [index |-> IF settled THEN append(so_far.index, timestamp, o, Bytes(batches[o]))
                                   ELSE observe(so_far.index, timestamp),
              settled |-> settled,
              next |-> o + Len(batches[o])]

NothingCollected(low) == [index |-> Default, settled |-> TRUE, next |-> low]

\* What is collected of the listed batches, in the order of their offsets.
collect_listed(batches, listed, low, aged) ==
    FoldOffsets(LAMBDA so_far, o : collect_batch(so_far, o, batches, aged),
                NothingCollected(low), listed)

\* The candidate index of the listed batches.
collect(batches, listed, low, high, aged) ==
    LET all == collect_listed(batches, listed, low, aged)
        short == listed # {} /\ all.next # None /\ all.next < high
    IN  IF all.settled /\ ~short THEN mark_complete(all.index) ELSE all.index

\* The batches that were in flight below high as the others were listed, and for which
\* the collection looks for no gap: nothing was listed, or the listed batch before is
\* deleted and its length is not known.
Missed(listed, high) ==
    {b.offset : b \in {b \in Uncut :
        /\ b.offset < high /\ b.offset \notin listed
        /\ \/ listed = {}
           \/ \E o \in listed \ DOMAIN records :
                o < b.offset /\ \A p \in listed : p < b.offset => p <= o}}

\* collect_time_index_candidate.  Any batch may have aged (BATCH_SETTLED_AFTER) below
\* which no produce was in flight when it was listed.
ReadBatches(l) ==
    /\ At(l, "read")
    /\ LET listed == DOMAIN lookups[l].listed
           high == lookups[l].high
       IN  \E aged \in SUBSET {o \in listed : ~lookups[l].listed[o]} :
            LET index == collect(records, listed, lookups[l].low, high, aged)
            IN  /\ Go(l, [lookups[l] EXCEPT !.stage = "commit", !.listed = EmptyMap,
                                            !.index = index])
                /\ overlooked' = overlooked \cup
                        (IF is_complete(index) THEN Missed(listed, high) ELSE {})
    /\ UNCHANGED <<watermark, records, requests, counts>>

Merged(l) == merge(lookups[l].index, watermark.time_index, lookups[l].token)

\* commit_time_index_backfill.
CommitBackfill(l) ==
    /\ At(l, "commit")
    /\ watermark' = [watermark EXCEPT !.time_index = Merged(l)]
    /\ Go(l, [lookups[l] EXCEPT !.stage = "low", !.index = Merged(l), !.token = None,
                                !.high = 0])
    /\ UNCHANGED <<records, requests, counts, overlooked>>

\* The answer to the write is lost: it is made again, on its own result.
CommitUnheard(l) ==
    /\ At(l, "commit")
    /\ Event
    /\ watermark' = [watermark EXCEPT !.time_index = Merged(l)]
    /\ UNCHANGED <<records, requests, lookups, overlooked>>

\* The log start is read after the commit.
ReadLow(l) ==
    /\ At(l, "low")
    /\ Go(l, [lookups[l] EXCEPT !.stage = "scan", !.low = watermark.low])
    /\ UNCHANGED <<watermark, records, requests, counts, overlooked>>

\* The lookup answers, or fails at any step.
EndLookup(l) ==
    /\ lookups[l] # None
    /\ (At(l, "scan") /\ UNCHANGED counts) \/ Event
    /\ Go(l, None)
    /\ UNCHANGED <<watermark, records, requests, overlooked>>

NoMatch == -1

\* The offsets of the records at or after the target that a scan from start meets.
Matches(start, target, low) ==
    {r \in UNION {{[base |-> o, i |-> i] : i \in 1 .. Len(records[o])} :
                    o \in {o \in DOMAIN records : o >= start}} :
        r.base + r.i - 1 >= low /\ records[r.base][r.i] >= target}

\* The offset that a lookup with this index answers, scanning the log as it is.
timestamp_lookup(index, low, target) ==
    LET matches == {r.base + r.i - 1 : r \in Matches(floor_offset(index, target), target, low)}
    IN  IF target > index.max_timestamp \/ matches = {} THEN NoMatch ELSE Min(matches)

Lookup(l) ==
    \/ StartLookup(l) \/ BeginBackfill(l) \/ ListBatches(l) \/ ReadBatches(l)
    \/ CommitBackfill(l) \/ CommitUnheard(l) \/ ReadLow(l) \/ EndLookup(l)

Next ==
    \/ \E c \in Slots : \/ \E b \in Batches : TakeOffset(c, b) \/ OldTakeOffset(c, b)
                        \/ PutBatch(c) \/ FailProduce(c)
    \/ \E cutoff \in Cutoffs \cap 0 .. watermark.high : DeleteRecords(cutoff)
    \/ \E o \in DOMAIN records : DeleteBatch(o)
    \/ \E l \in Lookups : Lookup(l)

Spec == Init /\ [][Next]_vars

(***************************************************************************)
(* Properties.                                                             *)
(***************************************************************************)
\* "each batch before the entry's offset has a max_timestamp below the entry's timestamp"
\* (time_index.rs), and no batch has one above that of the index: true of a complete
\* index, for the batches in flight too, whichever backfills, produces and brokers
\* without the index ran meanwhile (append, merge, collect_time_index_candidate).  The
\* exception is a batch that a backfill has overlooked: it was in flight while the
\* backfill listed, and the listing was empty or the listed batch before it was deleted
\* before it was read.
IndexSound ==
    is_complete(watermark.time_index) =>
        \A b \in Uncut : b.offset \notin overlooked => Covers(watermark.time_index, b)

\* A lookup for the timestamp of any record of the batch at o answers an offset that
\* is not after the record.
Finds(l, o) ==
    \A i \in 1 .. Len(records[o]) :
        o + i - 1 >= watermark.low =>
            LET answer == timestamp_lookup(lookups[l].index, lookups[l].low, records[o][i])
            IN  answer # NoMatch /\ answer <= o + i - 1

\* A lookup passes over no record that was in the log when it began and still is, for
\* any target, also when it answers from an index that its backfill left incomplete
\* (time_index_for_lookup, timestamp_lookup).  The exception is again a batch that a
\* backfill has overlooked.
LookupSkipsNothing ==
    \A l \in Lookups :
        At(l, "scan") =>
            \A o \in (lookups[l].seen \cap DOMAIN records) \ overlooked : Finds(l, o)

\* "the one case this misses is a partition's first produce from a binary without the
\* index, still in flight during this listing" (dynostore.rs,
\* collect_time_index_candidate): while every produce is from a broker with the index, a
\* lookup finds each record that was in the log when it began and still is.
OnlyOldProducesMissed ==
    counts.old_sends = 0 =>
        \A l \in Lookups :
            At(l, "scan") => \A o \in lookups[l].seen \cap DOMAIN records : Finds(l, o)
=============================================================================
