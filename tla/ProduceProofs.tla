--------------------------- MODULE ProduceProofs ----------------------------
(***************************************************************************)
(* The safety properties of Produce, for any batches, any number of        *)
(* produce requests at a time, and any faults, DeleteRecords and fetches.  *)
(*                                                                         *)
(* Three arguments meet.  One is about the log: the offsets that requests  *)
(* hold and those of the stored batches are apart, so that nothing stored  *)
(* is overwritten, or deleted before its last record is cut.  The next is  *)
(* about meta.json: what was remembered of a producer, in any version,     *)
(* is behind the position at which its next batch is accepted.  The third  *)
(* is about a fetch: between a batch that it reads and the one before it   *)
(* there is none, however it came by its listing.                          *)
(***************************************************************************)
EXTENDS Produce, WellFoundedInduction, SequenceTheorems, FiniteSetTheorems, TLAPS

Stages == {"check", "offset", "put", "advance"}

Request == [batch : Batches, offset : Nat \cup {NoOffset}, stage : Stages]

Bounded(S) == \E n \in Nat : \A x \in S : x <= n

(***************************************************************************)
(* The producers, in one version of meta.json.                             *)
(***************************************************************************)
Entry == [first_sequence : Nat, last_sequence : Nat, base_offset : Nat]

\* The epochs of pd on the partition: one at most.
Started(pd) == {e \in DOMAIN pd.sequences : Has(pd.sequences, e, Partition)}

IsProducer(pd) ==
    /\ pd \in [sequences : {pd.sequences}, batches : {pd.batches},
               epoch_starts : {pd.epoch_starts}]
    /\ Started(pd) \subseteq Nat
    /\ \A e, f \in Started(pd) : e = f
    /\ \A e \in Started(pd) : pd.sequences[e][Partition] \in Nat
    /\ \A e \in DOMAIN pd.batches :
            Has(pd.batches, e, Partition) => pd.batches[e][Partition] \in Seq(Entry)

\* pd accepts no batch of an epoch e below the sequence s any more.
Reached(pd, e, s) ==
    \/ s = 0
    \/ \E f \in Started(pd) : f > e
    \/ e \in Started(pd) /\ pd.sequences[e][Partition] >= s

\* pd remembers that b is at the offset o.
Holds(pd, b, o) ==
    /\ Has(pd.batches, b.epoch, Partition)
    /\ \E i \in 1 .. Len(pd.batches[b.epoch][Partition]) :
            pd.batches[b.epoch][Partition][i] =
                [first_sequence |-> b.sequence, last_sequence |-> b.sequence + b.count - 1,
                 base_offset |-> o]

\* The batches that any version remembers, with their offsets.
Kept == {k \in Batches \X Nat :
            \E v \in versions : k[1].producer \in DOMAIN v /\ Holds(v[k[1].producer], k[1], k[2])}

(***************************************************************************)
(* The inductive invariant.                                                *)
(***************************************************************************)
Types ==
    /\ watermark \in [low : Nat, high : Nat, producer_epochs : {watermark.producer_epochs}]
    /\ watermark.low <= watermark.high
    /\ requests \in [Slots -> Request \cup {None}]
    /\ DOMAIN records \subseteq Nat
    /\ \A o \in DOMAIN records : records[o] \in Batches

\* The records of two batches.
Apart(o, b, p, d) == o + b.count <= p \/ p + d.count <= o

\* Every batch in the log has offsets of its own, and so has every request that is to
\* put one there.
OwnOffsets ==
    /\ \A o \in DOMAIN records : o + records[o].count <= watermark.high
    /\ \A o, p \in DOMAIN records : o # p => Apart(o, records[o], p, records[p])
    /\ \A c \in Slots : At(c, "put") =>
        /\ requests[c].offset \in Nat
        /\ requests[c].offset + requests[c].batch.count <= watermark.high
        /\ \A o \in DOMAIN records : Apart(requests[c].offset, requests[c].batch, o, records[o])
        /\ \A d \in Slots : At(d, "put") /\ d # c =>
                Apart(requests[c].offset, requests[c].batch, requests[d].offset, requests[d].batch)

\* A batch at an offset, until all of it is cut.
Stored(b, o) ==
    o + b.count > watermark.low => o \in DOMAIN records /\ records[o] = b

Safe(b, o) == Stored(b, o) /\ o + b.count <= watermark.high

SafeRequests ==
    \A c \in Slots : At(c, "advance") =>
        /\ Idempotent(requests[c].batch)
        /\ requests[c].offset \in Nat
        /\ Safe(requests[c].batch, requests[c].offset)

\* A sweep deletes what is cut.  No batch straddles the high watermark that it saw.
SafeSweep ==
    sweep # None =>
        /\ sweep \in [cutoff : Nat, high : Nat, expired : {sweep.expired}]
        /\ sweep.cutoff <= watermark.low
        /\ sweep.cutoff <= sweep.high
        /\ sweep.high <= watermark.high
        /\ \A o \in DOMAIN records : o < sweep.high => o + records[o].count <= sweep.high
        /\ \A c \in Slots : At(c, "put") /\ requests[c].offset < sweep.high
                => requests[c].offset + requests[c].batch.count <= sweep.high
        /\ sweep.expired # None =>
                \A o \in sweep.expired : o \in DOMAIN records /\ o + records[o].count <= watermark.low

SafeKept == \A k \in Kept : Idempotent(k[1]) /\ Safe(k[1], k[2])

SafeAnswers ==
    \A a \in answers :
        /\ a.batch \in Batches /\ a.offset \in Nat
        /\ Stored(a.batch, a.offset)
        /\ Idempotent(a.batch) /\ a.how # "superseded" => <<a.batch, a.offset>> \in Kept

\* No version is ahead of the last one.
Meta ==
    /\ producers \in versions
    /\ DOMAIN producers \subseteq Nat /\ Bounded(DOMAIN producers)
    /\ \A v \in versions : \A id \in DOMAIN v :
        /\ id \in DOMAIN producers
        /\ IsProducer(v[id])
        /\ \A e, s \in Nat : Reached(v[id], e, s) => Reached(producers[id], e, s)

\* What was remembered is behind the position of its producer,
KeptBehind ==
    \A k \in Kept :
        /\ k[1].producer \in DOMAIN producers
        /\ Reached(producers[k[1].producer], k[1].epoch, k[1].sequence + k[1].count)

\* and a request that passed the check is not ahead of it.
RequestsReached ==
    \A c \in Slots :
        requests[c] # None /\ Idempotent(requests[c].batch) =>
            LET b == requests[c].batch
            IN  /\ b.producer \in DOMAIN producers
                /\ requests[c].stage # "check"
                        => Reached(producers[b.producer], b.epoch, b.sequence)

SameEpoch(b, d) == b.producer = d.producer /\ b.epoch = d.epoch

\* The remembered batches of an epoch are in order, and before a later one that is
\* on its way.
KeptInOrder ==
    \A j, k \in Kept : SameEpoch(j[1], k[1]) =>
        /\ j[1].sequence < k[1].sequence => j[2] < k[2]
        /\ j[1] = k[1] => j[2] = k[2]

RequestsAfterKept ==
    \A c \in Slots : At(c, "put") \/ At(c, "advance") =>
        \A k \in Kept :
            SameEpoch(k[1], requests[c].batch) /\ k[1].sequence < requests[c].batch.sequence
                => k[2] < requests[c].offset

Inv ==
    /\ Types
    /\ OwnOffsets
    /\ SafeRequests
    /\ SafeSweep
    /\ SafeKept
    /\ SafeAnswers
    /\ Meta
    /\ KeptBehind
    /\ RequestsReached
    /\ KeptInOrder
    /\ RequestsAfterKept

(***************************************************************************)
(* The epochs of a producer that the watermark has not forgotten.          *)
(***************************************************************************)
ProducerIds == {b.producer : b \in Batches} \ {None}

\* The batches of idempotent producers that have an offset.
Taken ==
    Kept \cup {<<a.batch, a.offset>> : a \in {a \in answers : Idempotent(a.batch)}}
         \cup {<<requests[c].batch, requests[c].offset>> :
                c \in {c \in Slots : /\ At(c, "put") \/ At(c, "advance")
                                     /\ Idempotent(requests[c].batch)}}

\* The watermark has the newest epoch of each producer that it has not forgotten, so that
\* no older one got an offset since.
EpochsInOrder ==
    /\ DOMAIN watermark.producer_epochs \subseteq ProducerIds
    /\ \A id \in DOMAIN watermark.producer_epochs : watermark.producer_epochs[id] \in Nat
    /\ \A k \in Taken :
        /\ k[2] < watermark.high
        /\ k[1].epoch > 0 /\ k[1].producer \notin forgotten =>
            /\ k[1].producer \in DOMAIN watermark.producer_epochs
            /\ watermark.producer_epochs[k[1].producer] >= k[1].epoch
    /\ \A j, k \in Taken :
        /\ j[1].producer = k[1].producer /\ k[1].producer \notin forgotten
        /\ j[1].epoch < k[1].epoch
        => j[2] < k[2]

(***************************************************************************)
(* Numbers, maps and batches.                                              *)
(***************************************************************************)
\* A nonempty set of naturals has a least element,
LEMMA MinInSet ==
  ASSUME NEW S \in SUBSET Nat, S # {}
  PROVE  Min(S) \in S /\ \A x \in S : Min(S) <= x
<1>1. IsWellFoundedOn(OpToRel(<, Nat), Nat)
  BY NatLessThanWellFounded
<1>2. PICK x \in S : \A y \in S : ~ (<<y, x>> \in OpToRel(<, Nat))
  BY <1>1, WFMin, Zenon
<1>3. ASSUME NEW y \in S PROVE x <= y
  <2>1. ~ (y < x)
    BY <1>2 DEF OpToRel
  <2> QED BY <2>1
<1> QED BY <1>3 DEF Min

\* and one that is bounded has a greatest.
LEMMA MaxInSet ==
  ASSUME NEW S \in SUBSET Nat, S # {}, Bounded(S)
  PROVE  Max(S) \in S /\ \A x \in S : x <= Max(S)
<1> DEFINE U == {u \in Nat : \A x \in S : x <= u}
<1>1. U \in SUBSET Nat /\ U # {}
  BY DEF Bounded
<1>2. Min(U) \in U /\ \A u \in U : Min(U) <= u
  BY <1>1, MinInSet
<1>3. PICK m \in U : \A u \in U : m <= u
  BY <1>2
<1>4. m \in S
  <2> SUFFICES ASSUME m \notin S PROVE FALSE
    OBVIOUS
  <2>1. \A x \in S : x <= m /\ x # m
    BY <1>3
  <2>2. m # 0
    <3>1. PICK x \in S : x <= m /\ x # m
      BY <2>1
    <3> QED BY <3>1
  <2>3. m - 1 \in U
    BY <1>3, <2>1, <2>2
  <2> QED BY <1>3, <2>3
<1>5. \A x \in S : x <= m
  BY <1>3
<1> QED BY <1>4, <1>5 DEF Max

\* The larger of two numbers.
LEMMA MaxOfTwo ==
  ASSUME NEW x \in Int, NEW y \in Int
  PROVE  Max({x, y}) = IF x >= y THEN x ELSE y
BY DEF Max

LEMMA BatchType ==
  ASSUME NEW b \in Batches
  PROVE  /\ b.epoch \in Nat /\ b.sequence \in Nat /\ b.count \in Nat /\ b.count > 0
         /\ Idempotent(b) => b.producer \in Nat
         /\ b = [producer |-> b.producer, epoch |-> b.epoch, sequence |-> b.sequence,
                 count |-> b.count]
<1>1. b \in [producer : Nat \cup {None}, epoch : 0 .. MaxEpoch, sequence : Nat, count : Nat \ {0}]
  BY ProduceAssumption
<1> QED BY <1>1, ProducerStateAssumption DEF Idempotent

(***************************************************************************)
(* The checks of a batch.                                                  *)
(***************************************************************************)
LEMMA HasSet ==
  ASSUME NEW map, NEW e, NEW v, NEW f
  PROVE  /\ Has(Set(map, e, Partition, v), f, Partition) <=> f = e \/ Has(map, f, Partition)
         /\ Set(map, e, Partition, v)[e][Partition] = v
         /\ f # e /\ Has(map, f, Partition)
                => Set(map, e, Partition, v)[f][Partition] = map[f][Partition]
BY DEF Has, Set, Put

LEMMA HasForget ==
  ASSUME NEW map, NEW e \in Nat, NEW f
  PROVE  /\ Has(forget_older_epochs(map, e, Partition), f, Partition)
                <=> Has(map, f, Partition) /\ f >= e
         /\ Has(map, f, Partition) /\ f >= e
                => forget_older_epochs(map, e, Partition)[f][Partition] = map[f][Partition]
BY DEF Has, forget_older_epochs, Drop, Restrict

\* The epoch that check_batch compares with.
LEMMA PartitionEpoch ==
  ASSUME NEW pd, IsProducer(pd)
  PROVE  LET q == stored_epochs(pd, Transactional, Partition).partition
         IN  \/ Started(pd) = {} /\ q = NoEpoch
             \/ Started(pd) = {q} /\ q \in Nat
<1> DEFINE S == {e \in DOMAIN pd.sequences : Has(pd.sequences, e, Partition)}
           q == Max({NoEpoch} \cup S)
<1>0. S = Started(pd) /\ stored_epochs(pd, Transactional, Partition).partition = q
  BY DEF Started, stored_epochs
<1>1. CASE S = {}
  <2>1. q = NoEpoch
    BY <1>1 DEF Max, NoEpoch
  <2> QED BY <1>0, <1>1, <2>1
<1>2. CASE S # {}
  <2>1. PICK e \in S : S = {e} /\ e \in Nat
    BY <1>0, <1>2 DEF IsProducer
  <2>2. q = Max({NoEpoch, e})
    BY <2>1
  <2>3. q = e
    BY <2>1, <2>2, MaxOfTwo DEF NoEpoch
  <2> QED BY <1>0, <2>1, <2>3
<1> QED BY <1>1, <1>2

LEMMA CheckSequence ==
  ASSUME NEW n, NEW batches, NEW b
  PROVE  LET check == check_sequence(n, batches, b)
         IN  /\ check.outcome = "Append" <=> b.sequence = n
             /\ check.outcome = "Duplicate" =>
                    /\ repeated(batches, b) # {}
                    /\ check.offset = batches[Min(repeated(batches, b))].base_offset
<1>1. CASE b.sequence = n
  BY <1>1 DEF check_sequence
<1>2. CASE b.sequence # n /\ repeated(batches, b) # {}
  BY <1>2 DEF check_sequence
<1>3. CASE b.sequence # n /\ repeated(batches, b) = {}
  <2>1. \/ check_sequence(n, batches, b)
                = [outcome |-> "DuplicateSequenceNumber", offset |-> NoOffset]
        \/ check_sequence(n, batches, b)
                = [outcome |-> "OutOfOrderSequenceNumber", offset |-> NoOffset]
    BY <1>3 DEF check_sequence
  <2> QED BY <1>3, <2>1
<1> QED BY <1>1, <1>2, <1>3

\* An accepted batch is the next of the epoch on the partition, or the first of a newer one.
LEMMA AcceptedFits ==
  ASSUME NEW pd, IsProducer(pd), NEW b \in Batches,
         NEW check, check = check_idempotent(pd, Transactional, Partition, b),
         check.outcome = "Append"
  PROVE  LET epoch == check_batch(stored_epochs(pd, Transactional, Partition), b.epoch, b.sequence)
         IN  \/ /\ epoch # "Start" /\ b.epoch \in Started(pd)
                /\ b.sequence = pd.sequences[b.epoch][Partition]
             \/ /\ epoch = "Start" /\ b.sequence = 0
                /\ \A f \in Started(pd) : f < b.epoch
<1> DEFINE st == stored_epochs(pd, Transactional, Partition)
           q == st.partition
           epoch == check_batch(st, b.epoch, b.sequence)
           seq == check_sequence(Get(pd.sequences, b.epoch, Partition, 0),
                                 Get(pd.batches, b.epoch, Partition, NoBatches), b)
<1>1. b.epoch \in Nat /\ b.sequence \in Nat
  BY BatchType
<1>2. \/ Started(pd) = {} /\ q = NoEpoch
      \/ Started(pd) = {q} /\ q \in Nat
  BY PartitionEpoch
<1>3. st.transactional = FALSE
  BY DEF stored_epochs, Transactional
<1> HIDE DEF st
<1>4. /\ epoch \in {"Continue", "Start", "ProducerFenced", "InvalidProducerEpoch",
                    "OutOfOrderSequenceNumber"}
      /\ epoch = "Continue" => b.epoch = q
      /\ epoch = "Start" => b.sequence = 0 /\ b.epoch # q /\ ~(b.epoch < q)
  BY <1>3 DEF check_batch
<1> HIDE DEF epoch
<1>5. CASE epoch = "Continue"
  <2>1. check = seq
    BY <1>5 DEF check_idempotent, epoch, st
  <2>2. b.sequence = Get(pd.sequences, b.epoch, Partition, 0)
    BY <2>1, CheckSequence
  <2>3. b.epoch \in Started(pd)
    BY <1>1, <1>2, <1>4, <1>5 DEF NoEpoch
  <2>4. Get(pd.sequences, b.epoch, Partition, 0) = pd.sequences[b.epoch][Partition]
    BY <2>3 DEF Get, Started
  <2> QED BY <1>5, <2>2, <2>3, <2>4 DEF epoch, st
<1>6. CASE epoch = "Start"
  <2>1. \A f \in Started(pd) : f < b.epoch
    BY <1>1, <1>2, <1>4, <1>6
  <2> QED BY <1>4, <1>6, <2>1 DEF epoch, st
<1>7. CASE epoch \notin {"Continue", "Start"}
  <2>1. check = [outcome |-> epoch, offset |-> NoOffset]
    BY <1>7 DEF check_idempotent, epoch, st
  <2>2. check.outcome = epoch
    BY <2>1
  <2> QED BY <1>4, <2>2
<1> QED BY <1>5, <1>6, <1>7

\* A duplicate is answered with an offset at which it is remembered.
LEMMA DuplicateHeld ==
  ASSUME NEW pd, IsProducer(pd), NEW b \in Batches,
         NEW check, check = check_idempotent(pd, Transactional, Partition, b),
         check.outcome = "Duplicate"
  PROVE  check.offset \in Nat /\ Holds(pd, b, check.offset)
<1> DEFINE st == stored_epochs(pd, Transactional, Partition)
           epoch == check_batch(st, b.epoch, b.sequence)
           batches == Get(pd.batches, b.epoch, Partition, NoBatches)
           seq == check_sequence(Get(pd.sequences, b.epoch, Partition, 0), batches, b)
           first == Min(repeated(batches, b))
<1>1. b.epoch \in Nat /\ b.sequence \in Nat /\ b.count \in Nat
  BY BatchType
<1>2. epoch \in {"Continue", "Start", "ProducerFenced", "InvalidProducerEpoch",
                 "OutOfOrderSequenceNumber"}
  BY DEF check_batch, stored_epochs, Transactional
<1>3. check =
        CASE epoch = "Continue" -> seq
          [] epoch = "Start" -> check_sequence(0, NoBatches, b)
          [] OTHER -> [outcome |-> epoch, offset |-> NoOffset]
  BY DEF check_idempotent
<1>4. repeated(NoBatches, b) = {}
  BY DEF repeated, NoBatches
<1>5. check_sequence(0, NoBatches, b).outcome # "Duplicate"
  BY <1>4, CheckSequence
<1> HIDE DEF epoch
<1>6. check = seq
  <2>1. CASE epoch = "Start"
    BY <1>3, <1>5, <2>1
  <2>2. CASE epoch \notin {"Continue", "Start"}
    <3>1. check = [outcome |-> epoch, offset |-> NoOffset]
      BY <1>3, <2>2
    <3>2. epoch = "Duplicate"
      BY <3>1
    <3> QED BY <1>2, <3>2
  <2> QED BY <1>3, <2>1, <2>2
<1>7. repeated(batches, b) # {} /\ seq.offset = batches[first].base_offset
  BY <1>6, CheckSequence
<1>8. Has(pd.batches, b.epoch, Partition) /\ batches = pd.batches[b.epoch][Partition]
  BY <1>4, <1>7 DEF Get
<1>9. batches \in Seq(Entry)
  BY <1>8 DEF IsProducer, Has
<1>10. repeated(batches, b) \in SUBSET Nat
  BY <1>9 DEF repeated
<1>11. first \in repeated(batches, b)
  BY <1>7, <1>10, MinInSet
<1>12. /\ first \in 1 .. Len(batches)
       /\ batches[first].first_sequence = b.sequence
       /\ batches[first].last_sequence = b.sequence + b.count - 1
  BY <1>11 DEF repeated
<1>13. batches[first] \in Entry
  BY <1>9, <1>12, ElementOfSeq
<1>14. batches[first] = [first_sequence |-> b.sequence,
                         last_sequence |-> b.sequence + b.count - 1,
                         base_offset |-> batches[first].base_offset]
       /\ batches[first].base_offset \in Nat
  BY <1>12, <1>13 DEF Entry
<1>15. Holds(pd, b, batches[first].base_offset)
  BY <1>8, <1>12, <1>14 DEF Holds
<1> QED BY <1>6, <1>7, <1>14, <1>15

\* remember drops the oldest entries only.
LEMMA RememberIs ==
  ASSUME NEW batches \in Seq(Entry), NEW b \in Batches, NEW o \in Nat
  PROVE  LET new == [first_sequence |-> b.sequence, last_sequence |-> b.sequence + b.count - 1,
                     base_offset |-> o]
             all == remember(batches, b, o)
         IN  /\ all \in Seq(Entry)
             /\ \E i \in 1 .. Len(all) : all[i] = new
             /\ \A i \in 1 .. Len(all) :
                    all[i] = new \/ \E j \in 1 .. Len(batches) : all[i] = batches[j]
<1> DEFINE new == [first_sequence |-> b.sequence, last_sequence |-> b.sequence + b.count - 1,
                   base_offset |-> o]
           all == Append(batches, new)
<1>1. new \in Entry
  BY BatchType DEF Entry
<1>2. /\ all \in Seq(Entry) /\ Len(all) = Len(batches) + 1
      /\ all[Len(all)] = new
      /\ \A i \in 1 .. Len(batches) : all[i] = batches[i]
  BY <1>1, AppendProperties
<1>3. Len(batches) \in Nat
  BY LenProperties
<1> HIDE DEF new, all
<1>4. CASE Len(batches) = MAX_BATCHES
  <2>1. Len(batches) > 0
    BY <1>4, ProducerStateAssumption
  <2>2. /\ Tail(all) \in Seq(Entry) /\ Len(Tail(all)) = Len(batches)
        /\ \A i \in 1 .. Len(batches) : Tail(all)[i] = all[i + 1]
    BY <1>2, <1>3, <2>1
  <2>3. remember(batches, b, o) = Tail(all)
    BY <1>4 DEF remember, all, new
  <2>4. Tail(all)[Len(batches)] = new
    BY <1>2, <1>3, <2>1, <2>2
  <2>5. ASSUME NEW i \in 1 .. Len(batches)
        PROVE  Tail(all)[i] = new \/ \E j \in 1 .. Len(batches) : Tail(all)[i] = batches[j]
    <3>1. CASE i = Len(batches)
      BY <2>4, <3>1
    <3>2. CASE i # Len(batches)
      <4>1. i + 1 \in 1 .. Len(batches)
        BY <1>3, <3>2
      <4> QED BY <1>2, <2>2, <4>1
    <3> QED BY <3>1, <3>2
  <2>6. Len(batches) \in 1 .. Len(Tail(all))
    BY <1>3, <2>1, <2>2
  <2> QED BY <2>2, <2>3, <2>4, <2>5, <2>6 DEF new
<1>5. CASE Len(batches) # MAX_BATCHES
  <2>1. remember(batches, b, o) = all
    BY <1>5 DEF remember, all, new
  <2>2. Len(all) \in 1 .. Len(all)
    BY <1>2, <1>3
  <2>3. ASSUME NEW i \in 1 .. Len(all)
        PROVE  all[i] = new \/ \E j \in 1 .. Len(batches) : all[i] = batches[j]
    <3>1. CASE i = Len(all)
      BY <1>2, <3>1
    <3>2. CASE i # Len(all)
      <4>1. i \in 1 .. Len(batches)
        BY <1>2, <1>3, <3>2
      <4> QED BY <1>2, <4>1
    <3> QED BY <3>1, <3>2
  <2> QED BY <1>2, <2>1, <2>2, <2>3 DEF new
<1> QED BY <1>4, <1>5

\* What advance does to a producer that accepts b.
LEMMA AdvanceIs ==
  ASSUME NEW pd, IsProducer(pd), NEW b \in Batches, NEW o \in Nat,
         NEW check, check = check_idempotent(pd, Transactional, Partition, b),
         check.outcome = "Append",
         NEW new, new = advance(pd, Transactional, Partition, b, o)
  PROVE  /\ IsProducer(new)
         /\ Started(new) = {b.epoch}
         /\ new.sequences[b.epoch][Partition] = b.sequence + b.count
         /\ Holds(new, b, o)
         /\ \A d \in Batches, p \in Nat : Holds(new, d, p) =>
                \/ Holds(pd, d, p)
                \/ d.epoch = b.epoch /\ d.sequence = b.sequence /\ d.count = b.count /\ p = o
<1> DEFINE starts == check_batch(stored_epochs(pd, Transactional, Partition), b.epoch, b.sequence)
                        = "Start"
           at == IF starts THEN start_epoch(pd, b.epoch, Partition, o) ELSE pd
           next == Get(at.sequences, b.epoch, Partition, 0)
           old == Get(at.batches, b.epoch, Partition, NoBatches)
           all == remember(old, b, o)
<1>1. /\ b.epoch \in Nat /\ b.sequence \in Nat /\ b.count \in Nat
  BY BatchType
<1>2. \/ /\ ~starts /\ b.epoch \in Started(pd)
         /\ b.sequence = pd.sequences[b.epoch][Partition]
      \/ starts /\ b.sequence = 0 /\ \A f \in Started(pd) : f < b.epoch
  BY AcceptedFits
<1>3. new = [at EXCEPT !.sequences = Set(at.sequences, b.epoch, Partition, next + b.count),
                       !.batches = Set(at.batches, b.epoch, Partition, all)]
  BY DEF advance
<1> HIDE DEF starts
<1>4. /\ at \in [sequences : {at.sequences}, batches : {at.batches},
                 epoch_starts : {at.epoch_starts}]
  BY DEF start_epoch, IsProducer
<1>5. \A f : Has(at.sequences, f, Partition) => f = b.epoch
  <2>1. CASE ~starts
    BY <1>2, <2>1 DEF IsProducer, Started, Has
  <2>2. CASE starts
    <3> SUFFICES ASSUME NEW f, Has(at.sequences, f, Partition) PROVE f = b.epoch
      OBVIOUS
    <3>1. at.sequences = forget_older_epochs(pd.sequences, b.epoch, Partition)
      BY <2>2 DEF start_epoch
    <3>2. Has(pd.sequences, f, Partition) /\ f >= b.epoch
      BY <1>1, <3>1, HasForget
    <3>3. f \in Started(pd)
      BY <3>2 DEF Started, Has
    <3>4. f \in Nat
      BY <3>3 DEF IsProducer
    <3> QED BY <1>1, <1>2, <2>2, <3>2, <3>3, <3>4
  <2> QED BY <2>1, <2>2
<1>6. next = b.sequence
  <2>1. CASE ~starts
    BY <1>2, <2>1 DEF Get, Started
  <2>2. CASE starts
    <3>1. at.sequences = forget_older_epochs(pd.sequences, b.epoch, Partition)
      BY <2>2 DEF start_epoch
    <3>2. ~Has(pd.sequences, b.epoch, Partition)
      <4>1. b.epoch \notin Started(pd)
        BY <1>1, <1>2, <2>2
      <4> QED BY <4>1 DEF Started, Has
    <3>3. ~Has(at.sequences, b.epoch, Partition)
      BY <1>1, <3>1, <3>2, HasForget
    <3> QED BY <1>2, <2>2, <3>3 DEF Get
  <2> QED BY <2>1, <2>2
<1>7. \A f : Has(at.batches, f, Partition) =>
        Has(pd.batches, f, Partition) /\ at.batches[f][Partition] = pd.batches[f][Partition]
  <2>1. CASE ~starts
    BY <2>1
  <2>2. CASE starts
    <3>1. at.batches = forget_older_epochs(pd.batches, b.epoch, Partition)
      BY <2>2 DEF start_epoch
    <3> QED BY <1>1, <3>1, HasForget
  <2> QED BY <2>1, <2>2
<1> HIDE DEF at
<1>8. old \in Seq(Entry)
  BY <1>7 DEF Get, NoBatches, IsProducer, Has
<1> HIDE DEF next, old
<1>9. /\ new.sequences = Set(at.sequences, b.epoch, Partition, b.sequence + b.count)
      /\ new.batches = Set(at.batches, b.epoch, Partition, all)
      /\ new \in [sequences : {new.sequences}, batches : {new.batches},
                  epoch_starts : {new.epoch_starts}]
  BY <1>3, <1>4, <1>6
<1>10. DEFINE entry == [first_sequence |-> b.sequence, last_sequence |-> b.sequence + b.count - 1,
                        base_offset |-> o]
<1>11. /\ all \in Seq(Entry)
       /\ \E i \in 1 .. Len(all) : all[i] = entry
       /\ \A i \in 1 .. Len(all) : all[i] = entry \/ \E j \in 1 .. Len(old) : all[i] = old[j]
  BY <1>8, RememberIs
<1> HIDE DEF all
<1>12. Started(new) = {b.epoch} /\ new.sequences[b.epoch][Partition] = b.sequence + b.count
  <2>1. \A f : Has(new.sequences, f, Partition) <=> f = b.epoch
    BY <1>5, <1>9, HasSet
  <2>2. new.sequences[b.epoch][Partition] = b.sequence + b.count
    BY <1>9, HasSet
  <2>3. \A f : Has(new.sequences, f, Partition) => f \in DOMAIN new.sequences
    BY DEF Has
  <2> QED BY <2>1, <2>2, <2>3 DEF Started
<1>13. /\ Has(new.batches, b.epoch, Partition) /\ new.batches[b.epoch][Partition] = all
       /\ \A f : Has(new.batches, f, Partition) /\ f # b.epoch =>
            /\ Has(pd.batches, f, Partition)
            /\ new.batches[f][Partition] = pd.batches[f][Partition]
  BY <1>7, <1>9, HasSet
<1>14. IsProducer(new)
  <2>1. \A e \in DOMAIN new.batches :
            Has(new.batches, e, Partition) => new.batches[e][Partition] \in Seq(Entry)
    <3> SUFFICES ASSUME NEW e, Has(new.batches, e, Partition)
                 PROVE  new.batches[e][Partition] \in Seq(Entry)
      OBVIOUS
    <3>1. CASE e = b.epoch
      BY <1>11, <1>13, <3>1
    <3>2. CASE e # b.epoch
      BY <1>13, <3>2 DEF IsProducer, Has
    <3> QED BY <3>1, <3>2
  <2> QED BY <1>1, <1>9, <1>12, <2>1 DEF IsProducer
<1>15. Holds(new, b, o)
  BY <1>11, <1>13 DEF Holds
<1>16. ASSUME NEW d \in Batches, NEW p \in Nat, Holds(new, d, p)
       PROVE  \/ Holds(pd, d, p)
              \/ d.epoch = b.epoch /\ d.sequence = b.sequence /\ d.count = b.count /\ p = o
  <2>1. CASE d.epoch # b.epoch
    BY <1>13, <1>16, <2>1 DEF Holds
  <2>2. CASE d.epoch = b.epoch
    <3> DEFINE e2 == [first_sequence |-> d.sequence,
                      last_sequence |-> d.sequence + d.count - 1, base_offset |-> p]
    <3>1. PICK i \in 1 .. Len(all) : all[i] = e2
      BY <1>13, <1>16, <2>2 DEF Holds
    <3>2. CASE all[i] = entry
      <4>1. d.sequence = b.sequence /\ d.sequence + d.count - 1 = b.sequence + b.count - 1 /\ p = o
        BY <3>1, <3>2
      <4>2. d.sequence \in Nat /\ d.count \in Nat
        BY BatchType
      <4> QED BY <1>1, <2>2, <4>1, <4>2
    <3>3. CASE \E j \in 1 .. Len(old) : all[i] = old[j]
      <4>1. PICK j \in 1 .. Len(old) : old[j] = e2
        BY <3>1, <3>3
      <4>2. Has(at.batches, b.epoch, Partition) /\ old = at.batches[b.epoch][Partition]
        <5>1. old # <<>>
          BY <4>1
        <5> QED BY <5>1 DEF old, Get, NoBatches
      <4> QED BY <1>7, <2>2, <4>1, <4>2 DEF Holds
    <3> QED BY <1>11, <3>2, <3>3
  <2> QED BY <2>1, <2>2
<1> QED BY <1>12, <1>14, <1>15, <1>16

\* The position of a producer before and after b: it only moves on.
LEMMA AdvanceReaches ==
  ASSUME NEW pd, IsProducer(pd), NEW b \in Batches, NEW o \in Nat,
         NEW check, check = check_idempotent(pd, Transactional, Partition, b),
         check.outcome = "Append",
         NEW new, new = advance(pd, Transactional, Partition, b, o)
  PROVE  /\ \A s \in Nat : s > b.sequence => ~Reached(pd, b.epoch, s)
         /\ Reached(new, b.epoch, b.sequence + b.count)
         /\ \A e, s \in Nat : Reached(pd, e, s) => Reached(new, e, s)
<1>1. b.epoch \in Nat /\ b.sequence \in Nat /\ b.count \in Nat
  BY BatchType
<1>2. \/ b.epoch \in Started(pd) /\ b.sequence = pd.sequences[b.epoch][Partition]
      \/ b.sequence = 0 /\ \A f \in Started(pd) : f < b.epoch
  BY AcceptedFits
<1>3. /\ Started(new) = {b.epoch}
      /\ new.sequences[b.epoch][Partition] = b.sequence + b.count
  BY AdvanceIs
<1>4. /\ Started(pd) \subseteq Nat
      /\ \A e, f \in Started(pd) : e = f
  BY DEF IsProducer
<1>5. ASSUME NEW s \in Nat, s > b.sequence, Reached(pd, b.epoch, s)
      PROVE  FALSE
  <2>1. \/ \E f \in Started(pd) : f > b.epoch
        \/ b.epoch \in Started(pd) /\ pd.sequences[b.epoch][Partition] >= s
    BY <1>1, <1>5 DEF Reached
  <2> QED BY <1>1, <1>2, <1>4, <1>5, <2>1
<1>6. Reached(new, b.epoch, b.sequence + b.count)
  BY <1>1, <1>3 DEF Reached
<1>7. ASSUME NEW e \in Nat, NEW s \in Nat, Reached(pd, e, s)
      PROVE  Reached(new, e, s)
  <2>1. CASE s = 0
    BY <2>1 DEF Reached
  <2>2. CASE \E f \in Started(pd) : f > e
    <3>1. PICK f \in Started(pd) : f > e
      BY <2>2
    <3>2. f \in Nat /\ f <= b.epoch
      BY <1>1, <1>2, <1>4
    <3> QED BY <1>1, <1>3, <3>1, <3>2 DEF Reached
  <2>3. CASE e \in Started(pd) /\ pd.sequences[e][Partition] >= s
    <3>1. CASE e = b.epoch /\ b.sequence = pd.sequences[e][Partition]
      <4>1. b.sequence + b.count >= s
        BY <1>1, <2>3, <3>1
      <4> QED BY <1>3, <3>1, <4>1 DEF Reached
    <3>2. CASE e < b.epoch
      BY <1>3, <3>2 DEF Reached
    <3> QED BY <1>2, <1>4, <2>3, <3>1, <3>2
  <2> QED BY <1>7, <2>1, <2>2, <2>3 DEF Reached
<1> QED BY <1>5, <1>6, <1>7

(***************************************************************************)
(* Steps that leave parts of the state alone.                              *)
(***************************************************************************)
LEMMA SameKept ==
  ASSUME versions' = versions
  PROVE  Kept' = Kept
BY DEF Kept

LEMMA SameMeta ==
  ASSUME Meta, KeptBehind, KeptInOrder, UNCHANGED meta
  PROVE  Meta' /\ KeptBehind' /\ KeptInOrder'
<1>1. Kept' = Kept
  BY SameKept DEF meta
<1>2. producers' = producers /\ versions' = versions
  BY DEF meta
<1>3. Meta'
  BY <1>2 DEF Meta
<1>4. KeptBehind' /\ KeptInOrder'
  BY <1>1, <1>2 DEF KeptBehind, KeptInOrder
<1> QED BY <1>3, <1>4

\* A step that does not touch the log.
LEMMA SameLog ==
  ASSUME Inv, UNCHANGED <<watermark, records, versions>>,
         \A a \in answers' : \/ a \in answers
                             \/ /\ a.batch \in Batches /\ a.offset \in Nat
                                /\ Stored(a.batch, a.offset)
                                /\ Idempotent(a.batch) /\ a.how # "superseded"
                                        => <<a.batch, a.offset>> \in Kept
  PROVE  SafeKept' /\ SafeAnswers'
<1>1. Kept' = Kept
  BY SameKept
<1> QED BY <1>1 DEF Inv, SafeKept, SafeAnswers, Safe, Stored

\* Requests that end, and others that go on as they were.
LEMMA FewerRequests ==
  ASSUME Inv, UNCHANGED <<meta, watermark, records, sweep>>,
         requests' \in [Slots -> Request \cup {None}],
         \A d \in Slots : requests'[d] \in {None, requests[d]}
  PROVE  /\ Types' /\ OwnOffsets' /\ SafeRequests' /\ SafeSweep'
         /\ Meta' /\ KeptBehind' /\ RequestsReached' /\ KeptInOrder' /\ RequestsAfterKept'
<1>1. Kept' = Kept
  BY SameKept DEF meta
<1>2. \A d \in Slots : requests'[d] # None => requests'[d] = requests[d]
  OBVIOUS
<1>3. Meta' /\ KeptBehind' /\ KeptInOrder'
  BY SameMeta DEF Inv
<1>4. Types'
  BY DEF Inv, Types
<1>5. OwnOffsets'
  BY <1>2 DEF Inv, OwnOffsets, At, Apart
<1>6. SafeRequests'
  BY <1>2 DEF Inv, SafeRequests, Safe, Stored, At
<1>7. SafeSweep'
  BY <1>2 DEF Inv, SafeSweep, At
<1>8. RequestsReached'
  BY <1>2 DEF Inv, RequestsReached, meta
<1>9. RequestsAfterKept'
  BY <1>1, <1>2 DEF Inv, RequestsAfterKept, At
<1> QED BY <1>3, <1>4, <1>5, <1>6, <1>7, <1>8, <1>9

LEMMA EndType ==
  ASSUME Types, NEW c \in Slots, End(c)
  PROVE  /\ requests' \in [Slots -> Request \cup {None}]
         /\ \A d \in Slots : requests'[d] \in {None, requests[d]}
BY DEF Types, End

(***************************************************************************)
(* The steps of a produce.                                                 *)
(***************************************************************************)
LEMMA InitInv == Init => Inv
<1> SUFFICES ASSUME Init PROVE Inv
  OBVIOUS
<1>1. Kept = {}
  BY DEF Init, Kept, EmptyMap
<1>2. Types
  BY DEF Init, Types, EmptyMap
<1>3. OwnOffsets /\ SafeRequests /\ SafeSweep
  BY DEF Init, OwnOffsets, SafeRequests, SafeSweep, EmptyMap, At
<1>4. SafeKept /\ SafeAnswers /\ KeptBehind /\ KeptInOrder /\ RequestsAfterKept
  BY <1>1 DEF Init, SafeKept, SafeAnswers, KeptBehind, KeptInOrder, RequestsAfterKept
<1>5. Meta
  BY DEF Init, Meta, EmptyMap, Bounded
<1>6. RequestsReached
  BY DEF Init, RequestsReached
<1> QED BY <1>2, <1>3, <1>4, <1>5, <1>6 DEF Inv

\* The new producer ID is one that no version has.
LEMMA InitProducerInv ==
  ASSUME Inv, InitProducer
  PROVE  Inv' /\ Kept' = Kept
<1>1. PICK id : /\ id = Max({0} \cup DOMAIN producers) + 1
                /\ producers' = Put(producers, id, NewProducer)
                /\ versions' = versions \cup {producers'}
                /\ UNCHANGED <<watermark, records, requests, answers, sweep>>
  BY DEF InitProducer, WriteMeta, sending
<1>2. id \in Nat /\ (\A x \in DOMAIN producers : x < id)
  <2> DEFINE S == {0} \cup DOMAIN producers
  <2>0. id = Max(S) + 1 /\ DOMAIN producers \subseteq S
    BY <1>1
  <2>1. S \in SUBSET Nat /\ S # {} /\ Bounded(S)
    <3>1. DOMAIN producers \subseteq Nat /\ Bounded(DOMAIN producers)
      BY DEF Inv, Meta
    <3>2. PICK n \in Nat : \A x \in DOMAIN producers : x <= n
      BY <3>1 DEF Bounded
    <3>3. \A x \in S : x <= n
      BY <3>2
    <3> QED BY <3>1, <3>3 DEF Bounded
  <2> HIDE DEF S
  <2>2. Max(S) \in S /\ \A x \in S : x <= Max(S)
    BY <2>1, MaxInSet
  <2>3. PICK m \in Nat : m = Max(S) /\ \A x \in S : x <= m
    BY <2>1, <2>2
  <2>4. id = m + 1
    BY <2>0, <2>3
  <2>5. ASSUME NEW x \in DOMAIN producers PROVE x < id
    <3>1. x \in Nat /\ x <= m
      BY <2>0, <2>1, <2>3
    <3> QED BY <2>4, <3>1
  <2> QED BY <2>4, <2>5
<1>3. id \notin DOMAIN producers
  BY <1>2
<1>4. /\ DOMAIN producers' = DOMAIN producers \cup {id}
      /\ producers'[id] = NewProducer
      /\ \A x \in DOMAIN producers : producers'[x] = producers[x]
  BY <1>1, <1>3 DEF Put
<1>5. /\ IsProducer(NewProducer)
      /\ Started(NewProducer) = {}
      /\ \A b, o : ~Holds(NewProducer, b, o)
  BY DEF NewProducer, IsProducer, Started, Holds, Has, Put, EmptyMap
<1>6. Kept' = Kept
  <2>1. producers \in versions
    BY DEF Inv, Meta
  <2>2. Kept \subseteq Kept'
    BY <1>1 DEF Kept
  <2>3. ASSUME NEW k \in Kept' PROVE k \in Kept
    <3>1. k \in Batches \X Nat
      BY DEF Kept
    <3>2. PICK v \in versions' : k[1].producer \in DOMAIN v /\ Holds(v[k[1].producer], k[1], k[2])
      BY DEF Kept
    <3>3. CASE v \in versions
      BY <3>1, <3>2, <3>3 DEF Kept
    <3>4. CASE v = producers'
      <4>1. k[1].producer \in DOMAIN producers
        BY <1>4, <1>5, <3>2, <3>4
      <4> QED BY <1>4, <2>1, <3>1, <3>2, <3>4, <4>1 DEF Kept
    <3> QED BY <1>1, <3>3, <3>4
  <2> QED BY <2>2, <2>3
<1>7. Meta'
  <2>1. producers' \in versions'
    BY <1>1
  <2>2. DOMAIN producers' \subseteq Nat /\ Bounded(DOMAIN producers')
    BY <1>2, <1>4 DEF Inv, Meta, Bounded
  <2>3. ASSUME NEW v \in versions', NEW x \in DOMAIN v
        PROVE  /\ x \in DOMAIN producers'
               /\ IsProducer(v[x])
               /\ \A e, s \in Nat : Reached(v[x], e, s) => Reached(producers'[x], e, s)
    <3>1. CASE v \in versions
      BY <1>4, <3>1 DEF Inv, Meta
    <3>2. CASE v = producers'
      <4>1. IsProducer(v[x])
        BY <1>4, <1>5, <3>2 DEF Inv, Meta
      <4> QED BY <3>2, <4>1
    <3> QED BY <1>1, <3>1, <3>2
  <2> QED BY <2>1, <2>2, <2>3 DEF Meta
<1>8. KeptBehind' /\ KeptInOrder'
  BY <1>4, <1>6 DEF Inv, KeptBehind, KeptInOrder
<1>9. RequestsReached' /\ RequestsAfterKept'
  BY <1>1, <1>4, <1>6 DEF Inv, RequestsReached, RequestsAfterKept, At
<1>10. SafeKept' /\ SafeAnswers'
  BY <1>1, <1>6 DEF Inv, SafeKept, SafeAnswers, Safe, Stored
<1>11. Types' /\ OwnOffsets' /\ SafeRequests' /\ SafeSweep'
  BY <1>1 DEF Inv, Types, OwnOffsets, SafeRequests, SafeSweep, Safe, Stored, Apart, At
<1> QED BY <1>6, <1>7, <1>8, <1>9, <1>10, <1>11 DEF Inv

\* A request that has no offset now, beside others that go on as they were.
LEMMA OneRequest ==
  ASSUME Inv, UNCHANGED <<meta, watermark, records, sweep>>, NEW c \in Slots, NEW r \in Request,
         requests' = [requests EXCEPT ![c] = r],
         r.stage \in {"check", "offset"},
         Idempotent(r.batch) => r.batch.producer \in DOMAIN producers,
         Idempotent(r.batch) /\ r.stage = "offset"
            => Reached(producers[r.batch.producer], r.batch.epoch, r.batch.sequence)
  PROVE  /\ Types' /\ OwnOffsets' /\ SafeRequests' /\ SafeSweep'
         /\ Meta' /\ KeptBehind' /\ RequestsReached' /\ KeptInOrder' /\ RequestsAfterKept'
<1>1. Kept' = Kept
  BY SameKept DEF meta
<1>2. /\ requests' \in [Slots -> Request \cup {None}]
      /\ requests'[c] = r
      /\ \A d \in Slots : d # c => requests'[d] = requests[d]
  BY DEF Inv, Types
<1>3. Meta' /\ KeptBehind' /\ KeptInOrder'
  BY SameMeta DEF Inv
<1>4. Types'
  BY <1>2 DEF Inv, Types
<1>5. OwnOffsets'
  BY <1>2 DEF Inv, OwnOffsets, At, Apart
<1>6. SafeRequests'
  BY <1>2 DEF Inv, SafeRequests, Safe, Stored, At
<1>7. SafeSweep'
  BY <1>2 DEF Inv, SafeSweep, At
<1>8. RequestsReached'
  BY <1>2 DEF Inv, RequestsReached, meta, Request, Stages
<1>9. RequestsAfterKept'
  BY <1>1, <1>2 DEF Inv, RequestsAfterKept, At
<1> QED BY <1>3, <1>4, <1>5, <1>6, <1>7, <1>8, <1>9

LEMMA SendInv ==
  ASSUME Inv, NEW c \in Slots, NEW b \in Batches, Send(c, b)
  PROVE  Inv'
<1> DEFINE r == [batch |-> b, offset |-> NoOffset,
                 stage |-> IF Idempotent(b) THEN "check" ELSE "offset"]
<1>1. /\ UNCHANGED <<meta, watermark, records, answers, sweep>>
      /\ requests' = [requests EXCEPT ![c] = r]
      /\ Idempotent(b) => b.producer \in DOMAIN producers
  BY DEF Send
<1>2. /\ r \in Request /\ r.batch = b
      /\ r.stage \in {"check", "offset"}
      /\ r.stage = "offset" => ~Idempotent(b)
  BY DEF Request, Stages
<1> HIDE DEF r
<1>3. /\ Types' /\ OwnOffsets' /\ SafeRequests' /\ SafeSweep'
      /\ Meta' /\ KeptBehind' /\ RequestsReached' /\ KeptInOrder' /\ RequestsAfterKept'
  BY <1>1, <1>2, OneRequest
<1>4. SafeKept' /\ SafeAnswers'
  BY <1>1, SameLog DEF meta
<1> QED BY <1>3, <1>4 DEF Inv

LEMMA RetakeOffsetInv ==
  ASSUME Inv, NEW c \in Slots, RetakeOffset(c)
  PROVE  Inv'
<1> DEFINE r == [requests[c] EXCEPT !.stage = "offset", !.offset = NoOffset]
<1>1. /\ UNCHANGED <<meta, watermark, records, answers, sweep>>
      /\ requests' = [requests EXCEPT ![c] = r]
      /\ At(c, "put")
  BY DEF RetakeOffset
<1>2. requests[c] \in Request /\ requests[c] # None /\ requests[c].stage = "put"
  BY <1>1 DEF Inv, Types, At
<1>3. /\ r \in Request /\ r.batch = requests[c].batch
      /\ r.stage = "offset"
  BY <1>2 DEF Request, Stages
<1>4. Idempotent(r.batch) =>
        /\ r.batch.producer \in DOMAIN producers
        /\ Reached(producers[r.batch.producer], r.batch.epoch, r.batch.sequence)
  BY <1>2, <1>3 DEF Inv, RequestsReached
<1> HIDE DEF r
<1>5. /\ Types' /\ OwnOffsets' /\ SafeRequests' /\ SafeSweep'
      /\ Meta' /\ KeptBehind' /\ RequestsReached' /\ KeptInOrder' /\ RequestsAfterKept'
  BY <1>1, <1>3, <1>4, OneRequest
<1>6. SafeKept' /\ SafeAnswers'
  BY <1>1, SameLog DEF meta
<1> QED BY <1>5, <1>6 DEF Inv

LEMMA FailInv ==
  ASSUME Inv, NEW c \in Slots, Fail(c)
  PROVE  Inv'
<1>1. UNCHANGED <<meta, watermark, records, answers, sweep>> /\ End(c)
  BY DEF Fail
<1>2. /\ requests' \in [Slots -> Request \cup {None}]
      /\ \A d \in Slots : requests'[d] \in {None, requests[d]}
  BY <1>1, EndType DEF Inv
<1>3. /\ Types' /\ OwnOffsets' /\ SafeRequests' /\ SafeSweep'
      /\ Meta' /\ KeptBehind' /\ RequestsReached' /\ KeptInOrder' /\ RequestsAfterKept'
  BY <1>1, <1>2, FewerRequests
<1>4. SafeKept' /\ SafeAnswers'
  BY <1>1, SameLog DEF meta
<1> QED BY <1>3, <1>4 DEF Inv

LEMMA CheckInv ==
  ASSUME Inv, NEW c \in Slots, Check(c)
  PROVE  Inv'
<1> DEFINE Tests(v, b) == IF b.producer \in DOMAIN v
                          THEN check_idempotent(v[b.producer], Transactional, Partition, b)
                          ELSE [outcome |-> "UnknownProducerId", offset |-> NoOffset]
<1>1. UNCHANGED <<meta, watermark, records, sweep>> /\ At(c, "check")
  BY DEF Check
<1>2. PICK version, b, check :
        /\ version \in versions
        /\ b = requests[c].batch
        /\ check = Tests(version, b)
        /\ \/ check.outcome = "Append" /\ Goto(c, "offset") /\ UNCHANGED answers
           \/ check.outcome = "Duplicate" /\ End(c) /\ Told(c, "duplicate", check.offset)
           \/ check.outcome \notin {"Append", "Duplicate"} /\ End(c) /\ UNCHANGED answers
  BY DEF Check
<1>3. requests[c] \in Request /\ requests[c] # None /\ b \in Batches
  BY <1>1, <1>2 DEF Inv, Types, At, Request
<1>4. check.outcome \in {"Append", "Duplicate"} =>
        /\ b.producer \in DOMAIN version
        /\ check = check_idempotent(version[b.producer], Transactional, Partition, b)
  BY <1>2
<1>5. ASSUME b.producer \in DOMAIN version
      PROVE  /\ b.producer \in DOMAIN producers
             /\ IsProducer(version[b.producer])
             /\ \A e, s \in Nat :
                    Reached(version[b.producer], e, s) => Reached(producers[b.producer], e, s)
  BY <1>2, <1>5 DEF Inv, Meta
<1>6. b.epoch \in Nat /\ b.sequence \in Nat
  BY <1>3, BatchType
<1>7. CASE check.outcome = "Append" /\ Goto(c, "offset") /\ UNCHANGED answers
  <2> DEFINE r == [requests[c] EXCEPT !.stage = "offset"]
  <2>1. PICK pd : pd = version[b.producer]
    OBVIOUS
  <2>2. \/ b.epoch \in Started(pd) /\ b.sequence = pd.sequences[b.epoch][Partition]
        \/ b.sequence = 0 /\ \A f \in Started(pd) : f < b.epoch
    BY <1>3, <1>4, <1>5, <1>7, <2>1, AcceptedFits
  <2>3. Reached(pd, b.epoch, b.sequence)
    BY <1>6, <2>2 DEF Reached
  <2>4. Reached(producers[b.producer], b.epoch, b.sequence)
    BY <1>4, <1>5, <1>6, <1>7, <2>1, <2>3
  <2>5. requests' = [requests EXCEPT ![c] = r]
    BY <1>7 DEF Goto
  <2>6. r \in Request /\ r.batch = b /\ r.stage = "offset"
    BY <1>2, <1>3 DEF Request, Stages
  <2> HIDE DEF r
  <2>7. /\ Types' /\ OwnOffsets' /\ SafeRequests' /\ SafeSweep'
        /\ Meta' /\ KeptBehind' /\ RequestsReached' /\ KeptInOrder' /\ RequestsAfterKept'
    BY <1>1, <1>4, <1>5, <1>7, <2>4, <2>5, <2>6, OneRequest
  <2>8. SafeKept' /\ SafeAnswers'
    BY <1>1, <1>7, SameLog DEF meta
  <2> QED BY <2>7, <2>8 DEF Inv
<1>8. CASE End(c) /\ UNCHANGED answers
  <2>2. /\ Types' /\ OwnOffsets' /\ SafeRequests' /\ SafeSweep'
        /\ Meta' /\ KeptBehind' /\ RequestsReached' /\ KeptInOrder' /\ RequestsAfterKept'
    BY <1>1, <1>8, EndType, FewerRequests DEF Inv
  <2>3. SafeKept' /\ SafeAnswers'
    BY <1>1, <1>8, SameLog DEF meta
  <2> QED BY <2>2, <2>3 DEF Inv
<1>9. CASE check.outcome = "Duplicate" /\ End(c) /\ Told(c, "duplicate", check.offset)
  <2>1. PICK pd : pd = version[b.producer]
    OBVIOUS
  <2>2. check.offset \in Nat /\ Holds(pd, b, check.offset)
    BY <1>3, <1>4, <1>5, <1>9, <2>1, DuplicateHeld
  <2>3. <<b, check.offset>> \in Kept
    BY <1>2, <1>3, <1>4, <1>9, <2>1, <2>2 DEF Kept
  <2>4. Stored(b, check.offset)
    BY <2>3 DEF Inv, SafeKept, Safe
  <2>5. answers' = answers \cup {[batch |-> b, how |-> "duplicate", offset |-> check.offset]}
    BY <1>2, <1>9 DEF Told
  <2>6. SafeKept' /\ SafeAnswers'
    BY <1>1, <1>3, <2>2, <2>3, <2>4, <2>5, SameLog DEF meta
  <2>7. /\ Types' /\ OwnOffsets' /\ SafeRequests' /\ SafeSweep'
        /\ Meta' /\ KeptBehind' /\ RequestsReached' /\ KeptInOrder' /\ RequestsAfterKept'
    BY <1>1, <1>9, EndType, FewerRequests DEF Inv
  <2> QED BY <2>6, <2>7 DEF Inv
<1> QED BY <1>2, <1>7, <1>8, <1>9

\* The offsets from the high watermark on are nobody's.
LEMMA TakeOffsetInv ==
  ASSUME Inv, NEW c \in Slots, TakeOffset(c)
  PROVE  Inv'
<1>1. UNCHANGED <<meta, records, answers, sweep>> /\ At(c, "offset")
  BY DEF TakeOffset
<1>2. PICK b : b = requests[c].batch
  OBVIOUS
<1>3. PICK h : h = watermark.high
  OBVIOUS
<1>4. PICK l : l = watermark.low
  OBVIOUS
<1>5. requests[c] \in Request /\ requests[c] # None /\ b \in Batches
  BY <1>1, <1>2 DEF Inv, Types, At, Request
<1>6. /\ h \in Nat /\ l \in Nat /\ l <= h
      /\ watermark \in [low : Nat, high : Nat, producer_epochs : {watermark.producer_epochs}]
  BY <1>3, <1>4 DEF Inv, Types
<1>7. b.count \in Nat /\ b.count > 0
  BY <1>5, BatchType
<1>8. CASE End(c) /\ UNCHANGED watermark
  <2>1. /\ Types' /\ OwnOffsets' /\ SafeRequests' /\ SafeSweep'
        /\ Meta' /\ KeptBehind' /\ RequestsReached' /\ KeptInOrder' /\ RequestsAfterKept'
    BY <1>1, <1>8, EndType, FewerRequests DEF Inv
  <2>2. SafeKept' /\ SafeAnswers'
    BY <1>1, <1>8, SameLog DEF meta
  <2> QED BY <2>1, <2>2 DEF Inv
<1>9. CASE ~(End(c) /\ UNCHANGED watermark)
  <2> DEFINE r == [requests[c] EXCEPT !.stage = "put", !.offset = h]
  <2>1. PICK pe : watermark' = [watermark EXCEPT !.high = h + b.count, !.producer_epochs = pe]
    <3> DEFINE pe == IF Idempotent(b) THEN record_producer_epoch(watermark.producer_epochs, b)
                                      ELSE watermark.producer_epochs
    <3>1. watermark' = [watermark EXCEPT !.high = h + b.count, !.producer_epochs = pe]
      BY <1>2, <1>3, <1>9 DEF TakeOffset
    <3> HIDE DEF pe
    <3> QED BY <3>1
  <2>2. requests' = [requests EXCEPT ![c] = r]
    BY <1>2, <1>3, <1>9 DEF TakeOffset
  <2>3. /\ watermark'.low = l /\ watermark'.high = h + b.count
        /\ watermark' \in [low : Nat, high : Nat, producer_epochs : {watermark'.producer_epochs}]
    <3>1. watermark' = [low |-> l, high |-> h + b.count, producer_epochs |-> pe]
      BY <1>4, <1>6, <2>1
    <3>2. watermark'.low = l /\ watermark'.high = h + b.count /\ watermark'.producer_epochs = pe
      BY <3>1
    <3>3. h + b.count \in Nat
      BY <1>6, <1>7
    <3> QED BY <1>6, <3>1, <3>2, <3>3
  <2>4. r \in Request /\ r.batch = b /\ r.stage = "put" /\ r.offset = h
    BY <1>2, <1>5, <1>6 DEF Request, Stages
  <2> HIDE DEF r
  <2>5. /\ requests' \in [Slots -> Request \cup {None}]
        /\ requests'[c] = r
        /\ \A d \in Slots : d # c => requests'[d] = requests[d]
    BY <2>2, <2>4 DEF Inv, Types
  <2>6. Types'
    BY <1>1, <1>6, <1>7, <2>3, <2>5 DEF Inv, Types
  <2>7. Kept' = Kept
    BY <1>1, SameKept DEF meta
  <2>8. /\ DOMAIN records \subseteq Nat
        /\ \A o \in DOMAIN records : records[o] \in Batches /\ records[o].count \in Nat
        /\ \A o \in DOMAIN records : o + records[o].count <= h
    BY <1>3, BatchType DEF Inv, Types, OwnOffsets
  <2>9. \A d \in Slots : At(d, "put") =>
            /\ requests[d].offset \in Nat /\ requests[d].batch.count \in Nat
            /\ requests[d].offset + requests[d].batch.count <= h
    <3> SUFFICES ASSUME NEW d \in Slots, At(d, "put")
                 PROVE  requests[d].batch.count \in Nat
      BY <1>3 DEF Inv, OwnOffsets
    <3>1. requests[d].batch \in Batches
      BY DEF Inv, Types, At, Request
    <3> QED BY <3>1, BatchType
  <2>10. OwnOffsets'
    <3>1. \A o \in DOMAIN records : o + records[o].count <= h + b.count
      BY <1>6, <1>7, <2>8
    <3>2. \A o, p \in DOMAIN records : o # p => Apart(o, records[o], p, records[p])
      BY DEF Inv, OwnOffsets
    <3>3. ASSUME NEW d \in Slots, At(d, "put")'
          PROVE  /\ requests'[d].offset \in Nat
                 /\ requests'[d].offset + requests'[d].batch.count <= h + b.count
                 /\ \A o \in DOMAIN records :
                        Apart(requests'[d].offset, requests'[d].batch, o, records[o])
      <4>1. CASE d = c
        <5>1. requests'[d].offset = h /\ requests'[d].batch = b
          BY <2>4, <2>5, <4>1
        <5> QED BY <1>6, <1>7, <2>8, <5>1 DEF Apart
      <4>2. CASE d # c
        <5>1. requests'[d] = requests[d] /\ At(d, "put")
          BY <2>5, <3>3, <4>2 DEF At
        <5>2. /\ requests[d].offset \in Nat /\ requests[d].batch.count \in Nat
              /\ requests[d].offset + requests[d].batch.count <= h
              /\ \A o \in DOMAIN records : Apart(requests[d].offset, requests[d].batch, o, records[o])
          BY <2>9, <5>1 DEF Inv, OwnOffsets
        <5> QED BY <1>6, <1>7, <5>1, <5>2
      <4> QED BY <4>1, <4>2
    <3>4. ASSUME NEW d \in Slots, NEW e \in Slots, At(d, "put")', At(e, "put")', e # d
          PROVE  Apart(requests'[d].offset, requests'[d].batch, requests'[e].offset, requests'[e].batch)
      <4>1. CASE d = c
        <5>1. requests'[e] = requests[e] /\ At(e, "put")
          BY <2>5, <3>4, <4>1 DEF At
        <5>2. /\ requests[e].offset \in Nat /\ requests[e].batch.count \in Nat
              /\ requests[e].offset + requests[e].batch.count <= h
          BY <2>9, <5>1
        <5> QED BY <2>4, <2>5, <4>1, <5>1, <5>2 DEF Apart
      <4>2. CASE e = c
        <5>1. requests'[d] = requests[d] /\ At(d, "put")
          BY <2>5, <3>4, <4>2 DEF At
        <5>2. /\ requests[d].offset \in Nat /\ requests[d].batch.count \in Nat
              /\ requests[d].offset + requests[d].batch.count <= h
          BY <2>9, <5>1
        <5> QED BY <2>4, <2>5, <4>2, <5>1, <5>2 DEF Apart
      <4>3. CASE d # c /\ e # c
        BY <2>5, <3>4, <4>3 DEF Inv, OwnOffsets, At
      <4> QED BY <4>1, <4>2, <4>3
    <3>5. records' = records /\ watermark'.high = h + b.count
      BY <1>1, <2>3
    <3> QED BY <3>1, <3>2, <3>3, <3>4, <3>5 DEF OwnOffsets, Apart
  <2>11. \A d \in Batches, o \in Nat : Safe(d, o) => Safe(d, o)'
    <3> SUFFICES ASSUME NEW d \in Batches, NEW o \in Nat, Safe(d, o) PROVE Safe(d, o)'
      OBVIOUS
    <3>1. d.count \in Nat
      BY BatchType
    <3> QED BY <1>1, <1>3, <1>4, <1>6, <1>7, <2>3, <3>1 DEF Safe, Stored
  <2>12. SafeRequests'
    <3> SUFFICES ASSUME NEW d \in Slots, At(d, "advance")'
                 PROVE  /\ Idempotent(requests'[d].batch)
                        /\ requests'[d].offset \in Nat
                        /\ Safe(requests[d].batch, requests[d].offset)'
      BY DEF SafeRequests
    <3>1. d # c /\ requests'[d] = requests[d] /\ At(d, "advance")
      BY <2>4, <2>5 DEF At
    <3>2. PICK x, o : x = requests[d].batch /\ o = requests[d].offset
      OBVIOUS
    <3>3. x \in Batches /\ o \in Nat /\ Idempotent(x) /\ Safe(x, o)
      BY <3>1, <3>2 DEF Inv, SafeRequests, Types, At, Request
    <3>4. Safe(x, o)'
      BY <2>11, <3>3
    <3> QED BY <3>1, <3>2, <3>3, <3>4 DEF Safe, Stored
  <2>13. SafeSweep'
    <3> SUFFICES ASSUME sweep # None
                 PROVE  SafeSweep'
      BY <1>1 DEF SafeSweep
    <3>1. /\ sweep.high \in Nat /\ sweep.high <= h /\ sweep.cutoff <= l
      BY <1>3, <1>4 DEF Inv, SafeSweep
    <3>2. ASSUME NEW d \in Slots, At(d, "put")', requests'[d].offset < sweep.high
          PROVE  requests'[d].offset + requests'[d].batch.count <= sweep.high
      <4>1. d # c
        BY <1>6, <2>4, <2>5, <3>1, <3>2
      <4> QED BY <2>5, <3>2, <4>1 DEF Inv, SafeSweep, At
    <3>3. sweep.high <= h + b.count
      BY <1>6, <1>7, <3>1
    <3> QED BY <1>1, <1>3, <1>4, <2>3, <3>2, <3>3 DEF Inv, SafeSweep
  <2>14. SafeKept'
    BY <2>7, <2>11 DEF Inv, SafeKept, Kept
  <2>15. SafeAnswers'
    BY <1>1, <1>4, <2>3, <2>7 DEF Inv, SafeAnswers, Stored
  <2>16. Meta' /\ KeptBehind' /\ KeptInOrder'
    BY <1>1, SameMeta DEF Inv
  <2>17. RequestsReached'
    <3>1. producers' = producers
      BY <1>1 DEF meta
    <3>2. Idempotent(b) => /\ b.producer \in DOMAIN producers
                           /\ Reached(producers[b.producer], b.epoch, b.sequence)
      BY <1>1, <1>2, <1>5 DEF Inv, RequestsReached, At
    <3> QED BY <2>4, <2>5, <3>1, <3>2 DEF Inv, RequestsReached
  <2>18. RequestsAfterKept'
    <3> SUFFICES ASSUME NEW d \in Slots, (At(d, "put") \/ At(d, "advance"))', NEW k \in Kept,
                        SameEpoch(k[1], requests'[d].batch), k[1].sequence < requests'[d].batch.sequence
                 PROVE  k[2] < requests'[d].offset
      BY <2>7 DEF RequestsAfterKept, SameEpoch
    <3>1. CASE d = c
      <4>1. k[1] \in Batches /\ k[2] \in Nat /\ k[2] + k[1].count <= h
        BY <1>3 DEF Inv, SafeKept, Safe, Kept
      <4>2. k[1].count \in Nat /\ k[1].count > 0
        BY <4>1, BatchType
      <4> QED BY <1>6, <2>4, <2>5, <3>1, <4>1, <4>2
    <3>2. CASE d # c
      BY <2>5, <3>2 DEF Inv, RequestsAfterKept, At
    <3> QED BY <3>1, <3>2
  <2> QED BY <2>6, <2>10, <2>12, <2>13, <2>14, <2>15, <2>16, <2>17, <2>18 DEF Inv
<1> QED BY <1>8, <1>9

\* The object that a request creates is where no other is.
LEMMA PutBatchInv ==
  ASSUME Inv, NEW c \in Slots, PutBatch(c)
  PROVE  Inv'
<1>1. UNCHANGED <<meta, watermark, sweep>> /\ At(c, "put")
  BY DEF PutBatch
<1>2. PICK b, o : b = requests[c].batch /\ o = requests[c].offset
  OBVIOUS
<1>3. requests[c] \in Request /\ requests[c] # None /\ b \in Batches
  BY <1>1, <1>2 DEF Inv, Types, At, Request
<1>4. /\ o \in Nat /\ o + b.count <= watermark.high
      /\ \A p \in DOMAIN records : Apart(o, b, p, records[p])
      /\ \A d \in Slots : At(d, "put") /\ d # c => Apart(requests[d].offset, requests[d].batch, o, b)
  BY <1>1, <1>2 DEF Inv, OwnOffsets, Apart
<1>5. b.count \in Nat /\ b.count > 0
  BY <1>3, BatchType
<1>6. o \notin DOMAIN records
  <2> SUFFICES ASSUME o \in DOMAIN records PROVE FALSE
    OBVIOUS
  <2>1. records[o] \in Batches
    BY DEF Inv, Types
  <2>2. records[o].count \in Nat /\ records[o].count > 0
    BY <2>1, BatchType
  <2> QED BY <1>4, <1>5, <2>2 DEF Apart
<1>7. /\ records' = Put(records, o, b)
      /\ \/ Idempotent(b) /\ Goto(c, "advance") /\ UNCHANGED answers
         \/ ~Idempotent(b) /\ End(c) /\ Told(c, "stored", o)
  BY <1>2, <1>6 DEF PutBatch
<1>8. /\ DOMAIN records' = DOMAIN records \cup {o}
      /\ records'[o] = b
      /\ \A p \in DOMAIN records : records'[p] = records[p]
  BY <1>6, <1>7 DEF Put
<1>9. /\ requests' \in [Slots -> Request \cup {None}]
      /\ \A d \in Slots : d # c => requests'[d] = requests[d]
      /\ requests'[c] # None =>
            /\ requests'[c].batch = b /\ requests'[c].offset = o
            /\ requests'[c].stage = "advance" /\ Idempotent(b)
  <2>1. CASE Idempotent(b) /\ Goto(c, "advance")
    <3> DEFINE r == [requests[c] EXCEPT !.stage = "advance"]
    <3>1. requests' = [requests EXCEPT ![c] = r]
      BY <2>1 DEF Goto
    <3>2. r \in Request /\ r.batch = b /\ r.offset = o /\ r.stage = "advance"
      BY <1>2, <1>3 DEF Request, Stages
    <3> HIDE DEF r
    <3> QED BY <2>1, <3>1, <3>2 DEF Inv, Types
  <2>2. CASE End(c)
    BY <2>2 DEF End, Inv, Types
  <2> QED BY <1>7, <2>1, <2>2
<1>10. Kept' = Kept
  BY <1>1, SameKept DEF meta
<1>11. \A d, p : Stored(d, p) => (p + d.count > watermark.low => p \in DOMAIN records' /\ records'[p] = d)
  BY <1>8 DEF Stored
<1>12. Types'
  BY <1>1, <1>3, <1>4, <1>8, <1>9 DEF Inv, Types
<1>13. OwnOffsets'
  <2>1. \A p \in DOMAIN records' : p + records'[p].count <= watermark.high
    BY <1>4, <1>8 DEF Inv, OwnOffsets
  <2>2. \A p, q \in DOMAIN records' : p # q => Apart(p, records'[p], q, records'[q])
    <3> SUFFICES ASSUME NEW p \in DOMAIN records', NEW q \in DOMAIN records', p # q
                 PROVE  Apart(p, records'[p], q, records'[q])
      OBVIOUS
    <3>1. CASE p = o
      <4>1. q \in DOMAIN records /\ records'[q] = records[q]
        BY <1>8, <3>1
      <4> QED BY <1>4, <1>8, <3>1, <4>1
    <3>2. CASE q = o
      <4>1. p \in DOMAIN records /\ records'[p] = records[p]
        BY <1>8, <3>2
      <4> QED BY <1>4, <1>8, <3>2, <4>1 DEF Apart
    <3>3. CASE p # o /\ q # o
      BY <1>8, <3>3 DEF Inv, OwnOffsets
    <3> QED BY <3>1, <3>2, <3>3
  <2>3. ASSUME NEW d \in Slots, At(d, "put")'
        PROVE  d # c /\ requests'[d] = requests[d] /\ At(d, "put")
    BY <1>9, <2>3 DEF At
  <2>4. ASSUME NEW d \in Slots, At(d, "put")', NEW p \in DOMAIN records'
        PROVE  Apart(requests'[d].offset, requests'[d].batch, p, records'[p])
    <3>1. CASE p = o
      BY <1>4, <1>8, <2>3, <2>4, <3>1
    <3>2. CASE p \in DOMAIN records
      BY <1>8, <2>3, <2>4, <3>2 DEF Inv, OwnOffsets
    <3> QED BY <1>8, <3>1, <3>2
  <2>5. \A d \in Slots : At(d, "put")' =>
            /\ requests'[d].offset \in Nat
            /\ requests'[d].offset + requests'[d].batch.count <= watermark.high
            /\ \A e \in Slots : At(e, "put")' /\ e # d =>
                    Apart(requests'[d].offset, requests'[d].batch,
                          requests'[e].offset, requests'[e].batch)
    BY <2>3 DEF Inv, OwnOffsets
  <2> QED BY <1>1, <2>1, <2>2, <2>4, <2>5 DEF OwnOffsets, Apart
<1>14. SafeRequests'
  <2> SUFFICES ASSUME NEW d \in Slots, At(d, "advance")'
               PROVE  /\ Idempotent(requests'[d].batch)
                      /\ requests'[d].offset \in Nat
                      /\ Safe(requests[d].batch, requests[d].offset)'
    BY DEF SafeRequests
  <2>1. CASE d = c
    BY <1>1, <1>4, <1>8, <1>9, <2>1 DEF Safe, Stored, At
  <2>2. CASE d # c
    <3>1. requests'[d] = requests[d] /\ At(d, "advance")
      BY <1>9, <2>2 DEF At
    <3> QED BY <1>1, <1>8, <3>1 DEF Inv, SafeRequests, Safe, Stored
  <2> QED BY <2>1, <2>2
<1>15. SafeSweep'
  <2> SUFFICES ASSUME sweep # None PROVE SafeSweep'
    BY <1>1 DEF SafeSweep
  <2>1. o < sweep.high => o + b.count <= sweep.high
    BY <1>1, <1>2 DEF Inv, SafeSweep
  <2>2. \A p \in DOMAIN records' : p < sweep.high => p + records'[p].count <= sweep.high
    BY <1>8, <2>1 DEF Inv, SafeSweep
  <2>3. \A d \in Slots : At(d, "put")' /\ requests'[d].offset < sweep.high
            => requests'[d].offset + requests'[d].batch.count <= sweep.high
    BY <1>9 DEF Inv, SafeSweep, At
  <2>4. sweep.expired # None => \A p \in sweep.expired :
            p \in DOMAIN records' /\ p + records'[p].count <= watermark.low
    BY <1>8 DEF Inv, SafeSweep
  <2> QED BY <1>1, <2>2, <2>3, <2>4 DEF Inv, SafeSweep
<1>16. SafeKept'
  BY <1>1, <1>8, <1>10 DEF Inv, SafeKept, Safe, Stored
<1>17. SafeAnswers'
  <2> SUFFICES ASSUME NEW a \in answers'
               PROVE  /\ a.batch \in Batches /\ a.offset \in Nat
                      /\ Stored(a.batch, a.offset)'
                      /\ Idempotent(a.batch) /\ a.how # "superseded" => <<a.batch, a.offset>> \in Kept
    BY <1>10 DEF SafeAnswers, Stored
  <2>1. CASE a \in answers
    BY <1>1, <1>8, <2>1 DEF Inv, SafeAnswers, Stored
  <2>2. CASE ~Idempotent(b) /\ a = [batch |-> b, how |-> "stored", offset |-> o]
    BY <1>1, <1>3, <1>4, <1>8, <2>2 DEF Stored
  <2> QED BY <1>2, <1>7, <2>1, <2>2 DEF Told
<1>18. Meta' /\ KeptBehind' /\ KeptInOrder'
  BY <1>1, SameMeta DEF Inv
<1>19. RequestsReached'
  <2>1. producers' = producers
    BY <1>1 DEF meta
  <2>2. Idempotent(b) => /\ b.producer \in DOMAIN producers
                         /\ Reached(producers[b.producer], b.epoch, b.sequence)
    BY <1>1, <1>2, <1>3 DEF Inv, RequestsReached, At
  <2> QED BY <1>9, <2>1, <2>2 DEF Inv, RequestsReached
<1>20. RequestsAfterKept'
  BY <1>1, <1>2, <1>9, <1>10 DEF Inv, RequestsAfterKept, At
<1> QED BY <1>12, <1>13, <1>14, <1>15, <1>16, <1>17, <1>18, <1>19, <1>20 DEF Inv

\* The sequence moves on: what is remembered stays behind it and in order.
LEMMA AdvanceMeta ==
  ASSUME Inv, NEW c \in Slots, At(c, "advance"),
         NEW b \in Batches, b = requests[c].batch, NEW o \in Nat, o = requests[c].offset,
         NEW pd, pd = producers[b.producer],
         NEW check, check = check_idempotent(pd, Transactional, Partition, b),
         check.outcome = "Append",
         NEW new, new = advance(pd, Transactional, Partition, b, o),
         WriteMeta(Put(producers, b.producer, new)),
         \A d \in Slots : requests'[d] \in {None, requests[d]}
  PROVE  /\ Meta' /\ KeptBehind' /\ RequestsReached' /\ KeptInOrder' /\ RequestsAfterKept'
         /\ <<b, o>> \in Kept' /\ Kept \subseteq Kept' /\ Kept' \subseteq Kept \cup {<<b, o>>}
<1>1. requests[c] # None /\ Idempotent(b) /\ b.producer \in DOMAIN producers
  BY DEF Inv, SafeRequests, RequestsReached, At
<1>2. b.epoch \in Nat /\ b.sequence \in Nat /\ b.count \in Nat /\ b.count > 0
  BY BatchType
<1>3. producers \in versions /\ IsProducer(pd)
  BY <1>1 DEF Inv, Meta
<1>4. /\ IsProducer(new)
      /\ Holds(new, b, o)
      /\ \A d \in Batches, p \in Nat : Holds(new, d, p) =>
            \/ Holds(pd, d, p)
            \/ d.epoch = b.epoch /\ d.sequence = b.sequence /\ d.count = b.count /\ p = o
  BY <1>3, AdvanceIs
<1>5. /\ \A s \in Nat : s > b.sequence => ~Reached(pd, b.epoch, s)
      /\ Reached(new, b.epoch, b.sequence + b.count)
      /\ \A e, s \in Nat : Reached(pd, e, s) => Reached(new, e, s)
  BY <1>3, AdvanceReaches
<1>6. /\ DOMAIN producers' = DOMAIN producers
      /\ producers'[b.producer] = new
      /\ \A id \in DOMAIN producers : id # b.producer => producers'[id] = producers[id]
      /\ versions' = versions \cup {producers'}
  BY <1>1 DEF WriteMeta, Put
<1>7. \A id \in DOMAIN producers, e, s \in Nat :
        Reached(producers[id], e, s) => Reached(producers'[id], e, s)
  BY <1>5, <1>6
<1>8. Kept \subseteq Kept' /\ <<b, o>> \in Kept'
  BY <1>1, <1>4, <1>6 DEF Kept
<1>9. ASSUME NEW k \in Kept' PROVE k \in Kept \/ k = <<b, o>>
  <2>1. k \in Batches \X Nat
    BY DEF Kept
  <2>2. PICK v \in versions' : k[1].producer \in DOMAIN v /\ Holds(v[k[1].producer], k[1], k[2])
    BY DEF Kept
  <2>3. CASE v \in versions
    BY <2>1, <2>2, <2>3 DEF Kept
  <2>4. CASE v = producers' /\ k[1].producer # b.producer
    BY <1>3, <1>6, <2>1, <2>2, <2>4 DEF Kept
  <2>5. CASE v = producers' /\ k[1].producer = b.producer
    <3>1. Holds(new, k[1], k[2])
      BY <1>6, <2>2, <2>5
    <3>2. CASE Holds(pd, k[1], k[2])
      BY <1>1, <1>3, <2>1, <2>5, <3>2 DEF Kept
    <3>3. CASE k[1].epoch = b.epoch /\ k[1].sequence = b.sequence /\ k[1].count = b.count /\ k[2] = o
      <4>1. k[1] \in Batches
        BY <2>1
      <4>2. k[1] = [producer |-> k[1].producer, epoch |-> k[1].epoch,
                    sequence |-> k[1].sequence, count |-> k[1].count]
        BY <4>1, BatchType
      <4>3. k[1] = b
        BY <2>5, <3>3, <4>2, BatchType
      <4> QED BY <2>1, <3>3, <4>3
    <3> QED BY <1>4, <2>1, <3>1, <3>2, <3>3
  <2> QED BY <1>6, <2>3, <2>4, <2>5
<1>10. Meta'
  <2>1. producers' \in versions'
    BY <1>6
  <2>2. DOMAIN producers' \subseteq Nat /\ Bounded(DOMAIN producers')
    BY <1>6 DEF Inv, Meta
  <2>3. ASSUME NEW v \in versions', NEW x \in DOMAIN v
        PROVE  /\ x \in DOMAIN producers'
               /\ IsProducer(v[x])
               /\ \A e, s \in Nat : Reached(v[x], e, s) => Reached(producers'[x], e, s)
    <3>1. CASE v \in versions
      BY <1>6, <1>7, <3>1 DEF Inv, Meta
    <3>2. CASE v = producers'
      <4>1. IsProducer(v[x])
        BY <1>3, <1>4, <1>6, <3>2 DEF Inv, Meta
      <4> QED BY <3>2, <4>1
    <3> QED BY <1>6, <3>1, <3>2
  <2> QED BY <2>1, <2>2, <2>3 DEF Meta
<1>11. \A k \in Kept : /\ k[1].epoch \in Nat /\ k[1].sequence \in Nat /\ k[1].count \in Nat
                       /\ k[1].count > 0 /\ k[1] \in Batches /\ k[2] \in Nat
  <2> SUFFICES ASSUME NEW k \in Kept
               PROVE  /\ k[1].epoch \in Nat /\ k[1].sequence \in Nat /\ k[1].count \in Nat
                      /\ k[1].count > 0 /\ k[1] \in Batches /\ k[2] \in Nat
    OBVIOUS
  <2>1. k[1] \in Batches /\ k[2] \in Nat
    BY DEF Kept
  <2> QED BY <2>1, BatchType
<1>12. KeptBehind'
  <2> SUFFICES ASSUME NEW k \in Kept'
               PROVE  /\ k[1].producer \in DOMAIN producers'
                      /\ Reached(producers'[k[1].producer], k[1].epoch, k[1].sequence + k[1].count)
    BY DEF KeptBehind
  <2>1. CASE k \in Kept
    <3>1. k[1].sequence + k[1].count \in Nat
      BY <1>11, <2>1
    <3>2. /\ k[1].producer \in DOMAIN producers
          /\ Reached(producers[k[1].producer], k[1].epoch, k[1].sequence + k[1].count)
      BY <2>1 DEF Inv, KeptBehind
    <3> QED BY <1>6, <1>7, <1>11, <2>1, <3>1, <3>2
  <2>2. CASE k = <<b, o>>
    BY <1>1, <1>5, <1>6, <2>2
  <2> QED BY <1>9, <2>1, <2>2
\* No remembered batch of the epoch is at or after b.
<1>13. ASSUME NEW k \in Kept, SameEpoch(k[1], b)
       PROVE  k[1].sequence < b.sequence
  <2>1. Reached(pd, b.epoch, k[1].sequence + k[1].count)
    BY <1>13 DEF Inv, KeptBehind, SameEpoch
  <2>2. ~(k[1].sequence + k[1].count > b.sequence)
    BY <1>5, <1>11, <2>1
  <2> QED BY <1>2, <1>11, <2>2
<1>14. KeptInOrder'
  <2> SUFFICES ASSUME NEW j \in Kept', NEW k \in Kept', SameEpoch(j[1], k[1])
               PROVE  /\ j[1].sequence < k[1].sequence => j[2] < k[2]
                      /\ j[1] = k[1] => j[2] = k[2]
    BY DEF KeptInOrder
  <2>1. CASE j \in Kept /\ k \in Kept
    BY <2>1 DEF Inv, KeptInOrder
  <2>2. CASE j = <<b, o>> /\ k \in Kept
    <3>1. k[1].sequence < b.sequence
      BY <1>13, <2>2 DEF SameEpoch
    <3> QED BY <1>2, <1>11, <2>2, <3>1
  <2>3. CASE j \in Kept /\ k = <<b, o>>
    <3>1. j[1].sequence < b.sequence
      BY <1>13, <2>3
    <3>2. j[2] < o
      BY <2>3, <3>1 DEF Inv, RequestsAfterKept
    <3> QED BY <1>2, <1>11, <2>3, <3>1, <3>2
  <2>4. CASE j = <<b, o>> /\ k = <<b, o>>
    BY <1>2, <2>4
  <2> QED BY <1>9, <2>1, <2>2, <2>3, <2>4
<1>15. RequestsReached'
  <2> SUFFICES ASSUME NEW d \in Slots, requests'[d] # None, Idempotent(requests'[d].batch)
               PROVE  /\ requests'[d].batch.producer \in DOMAIN producers'
                      /\ requests'[d].stage # "check"
                            => Reached(producers'[requests'[d].batch.producer],
                                       requests'[d].batch.epoch, requests'[d].batch.sequence)
    BY DEF RequestsReached
  <2>1. requests'[d] = requests[d] /\ requests[d] \in Request
    BY DEF Inv, Types
  <2>2. PICK x : x = requests[d].batch
    OBVIOUS
  <2>3. x \in Batches
    BY <2>1, <2>2 DEF Request
  <2>4. x.epoch \in Nat /\ x.sequence \in Nat
    BY <2>3, BatchType
  <2>5. /\ x.producer \in DOMAIN producers
        /\ requests[d].stage # "check" => Reached(producers[x.producer], x.epoch, x.sequence)
    BY <2>1, <2>2 DEF Inv, RequestsReached
  <2> QED BY <1>6, <1>7, <2>1, <2>2, <2>4, <2>5
<1>16. RequestsAfterKept'
  <2> SUFFICES ASSUME NEW d \in Slots, (At(d, "put") \/ At(d, "advance"))', NEW k \in Kept',
                      SameEpoch(k[1], requests'[d].batch),
                      k[1].sequence < requests'[d].batch.sequence
               PROVE  k[2] < requests'[d].offset
    BY DEF RequestsAfterKept, SameEpoch
  <2>1. requests'[d] = requests[d] /\ requests[d] \in Request /\ (At(d, "put") \/ At(d, "advance"))
    BY DEF Inv, Types, At
  <2>2. CASE k \in Kept
    BY <2>1, <2>2 DEF Inv, RequestsAfterKept
  <2>3. CASE k = <<b, o>>
    <3>1. PICK x : x = requests[d].batch
      OBVIOUS
    <3>2. x \in Batches
      BY <2>1, <3>1 DEF Request
    <3>3. x.epoch \in Nat /\ x.sequence \in Nat
      BY <3>2, BatchType
    <3>4. x.producer = b.producer /\ x.epoch = b.epoch /\ x.sequence > b.sequence
      BY <1>2, <2>1, <2>3, <3>1, <3>3 DEF SameEpoch
    <3>5. Reached(pd, b.epoch, x.sequence)
      BY <1>1, <2>1, <3>1, <3>4 DEF Inv, RequestsReached, At, Idempotent
    <3> QED BY <1>5, <3>3, <3>4, <3>5
  <2> QED BY <1>9, <2>2, <2>3
<1> QED BY <1>8, <1>9, <1>10, <1>12, <1>14, <1>15, <1>16

\* The step of a request that is stored: it may write meta.json, answer and end.
LEMMA StoredStep ==
  ASSUME Inv, NEW c \in Slots, At(c, "advance"),
         NEW b \in Batches, b = requests[c].batch, NEW o \in Nat, o = requests[c].offset,
         NEW pd, pd = producers[b.producer],
         NEW check, check = check_idempotent(pd, Transactional, Partition, b),
         check.outcome = "Append",
         WriteMeta(Put(producers, b.producer, advance(pd, Transactional, Partition, b, o))),
         requests' \in [Slots -> Request \cup {None}],
         \A d \in Slots : requests'[d] \in {None, requests[d]},
         UNCHANGED <<watermark, records, sweep>>,
         answers' \subseteq answers \cup {[batch |-> b, how |-> "stored", offset |-> o]}
  PROVE  Inv' /\ Kept' \subseteq Kept \cup {<<b, o>>}
<1>1. PICK new : new = advance(pd, Transactional, Partition, b, o)
  OBVIOUS
<1>2. /\ Meta' /\ KeptBehind' /\ RequestsReached' /\ KeptInOrder' /\ RequestsAfterKept'
      /\ <<b, o>> \in Kept' /\ Kept \subseteq Kept' /\ Kept' \subseteq Kept \cup {<<b, o>>}
  BY <1>1, AdvanceMeta
<1>3. Idempotent(b) /\ Safe(b, o)
  BY DEF Inv, SafeRequests
<1>4. SafeKept'
  BY <1>2, <1>3 DEF Inv, SafeKept, Safe, Stored
<1>5. SafeAnswers'
  <2> SUFFICES ASSUME NEW a \in answers'
               PROVE  /\ a.batch \in Batches /\ a.offset \in Nat
                      /\ Stored(a.batch, a.offset)
                      /\ Idempotent(a.batch) /\ a.how # "superseded"
                            => <<a.batch, a.offset>> \in Kept'
    BY DEF SafeAnswers, Stored
  <2>1. CASE a \in answers
    BY <1>2, <2>1 DEF Inv, SafeAnswers
  <2>2. CASE a = [batch |-> b, how |-> "stored", offset |-> o]
    <3>1. a.batch = b /\ a.offset = o
      BY <2>2
    <3> QED BY <1>2, <1>3, <3>1 DEF Safe
  <2> QED BY <2>1, <2>2
<1>6. \A d \in Slots : requests'[d] # None => requests'[d] = requests[d]
  OBVIOUS
<1>7. Types'
  BY DEF Inv, Types
<1>8. OwnOffsets'
  BY <1>6 DEF Inv, OwnOffsets, At, Apart
<1>9. SafeRequests'
  BY <1>6 DEF Inv, SafeRequests, Safe, Stored, At
<1>10. SafeSweep'
  BY <1>6 DEF Inv, SafeSweep, At
<1> QED BY <1>2, <1>4, <1>5, <1>7, <1>8, <1>9, <1>10 DEF Inv

LEMMA AtAdvance ==
  ASSUME Inv, NEW c \in Slots, At(c, "advance")
  PROVE  /\ requests[c].batch \in Batches /\ requests[c].offset \in Nat
         /\ Stored(requests[c].batch, requests[c].offset)
         /\ requests[c].batch.producer \in DOMAIN producers
         /\ IsProducer(producers[requests[c].batch.producer])
         /\ producers \in versions
BY DEF Inv, Types, SafeRequests, Safe, RequestsReached, Meta, At, Request

LEMMA AdvanceInv ==
  ASSUME Inv, NEW c \in Slots, Advance(c)
  PROVE  /\ Inv'
         /\ Kept' \subseteq Kept \cup {<<requests[c].batch, requests[c].offset>>}
<1>1. At(c, "advance") /\ End(c) /\ UNCHANGED <<watermark, records, sweep>>
  BY DEF Advance
<1>2. PICK b, o : b = requests[c].batch /\ o = requests[c].offset
  OBVIOUS
<1>3. PICK pd : pd = producers[b.producer]
  OBVIOUS
<1>4. PICK check : check = check_idempotent(pd, Transactional, Partition, b)
  OBVIOUS
<1>5. \/ /\ check.outcome = "Append"
         /\ WriteMeta(Put(producers, b.producer, advance(pd, Transactional, Partition, b, o)))
         /\ Told(c, "stored", o)
      \/ Told(c, "superseded", o) /\ UNCHANGED meta
      \/ check.outcome = "Duplicate" /\ Told(c, "error", check.offset) /\ UNCHANGED meta
      \/ UNCHANGED <<meta, answers>>
  BY <1>2, <1>3, <1>4 DEF Advance
<1>6. /\ requests' \in [Slots -> Request \cup {None}]
      /\ \A d \in Slots : requests'[d] \in {None, requests[d]}
  BY <1>1, EndType DEF Inv
<1>7. /\ b \in Batches /\ o \in Nat /\ Stored(b, o)
      /\ b.producer \in DOMAIN producers /\ IsProducer(pd) /\ producers \in versions
  BY <1>1, <1>2, <1>3, AtAdvance
<1>8. CASE /\ check.outcome = "Append"
           /\ WriteMeta(Put(producers, b.producer, advance(pd, Transactional, Partition, b, o)))
           /\ Told(c, "stored", o)
  <2>1. answers' \subseteq answers \cup {[batch |-> b, how |-> "stored", offset |-> o]}
    BY <1>2, <1>8 DEF Told
  <2> QED BY <1>1, <1>2, <1>3, <1>4, <1>6, <1>7, <1>8, <2>1, StoredStep
<1>9. CASE UNCHANGED meta /\ (UNCHANGED answers \/ Told(c, "superseded", o))
  <2>1. answers' \subseteq answers \cup {[batch |-> b, how |-> "superseded", offset |-> o]}
    BY <1>2, <1>9 DEF Told
  <2>2. SafeKept' /\ SafeAnswers'
    BY <1>1, <1>7, <1>9, <2>1, SameLog DEF meta
  <2> QED BY <1>1, <1>6, <1>9, <2>2, FewerRequests, SameKept DEF Inv, meta
<1>10. CASE check.outcome = "Duplicate" /\ Told(c, "error", check.offset) /\ UNCHANGED meta
  <2>1. check.offset \in Nat /\ Holds(pd, b, check.offset)
    BY <1>4, <1>7, <1>10, DuplicateHeld
  <2>2. <<b, check.offset>> \in Kept
    BY <1>3, <1>7, <2>1 DEF Kept
  <2>3. Stored(b, check.offset)
    BY <2>2 DEF Inv, SafeKept, Safe
  <2>4. answers' \subseteq answers \cup {[batch |-> b, how |-> "error", offset |-> check.offset]}
    BY <1>2, <1>10 DEF Told
  <2>5. SafeKept' /\ SafeAnswers'
    BY <1>1, <1>7, <1>10, <2>1, <2>2, <2>3, <2>4, SameLog DEF meta
  <2> QED BY <1>1, <1>6, <1>10, <2>5, FewerRequests, SameKept DEF Inv, meta
<1> QED BY <1>5, <1>8, <1>9, <1>10

LEMMA AdvanceUnheardInv ==
  ASSUME Inv, NEW c \in Slots, AdvanceUnheard(c)
  PROVE  /\ Inv'
         /\ Kept' \subseteq Kept \cup {<<requests[c].batch, requests[c].offset>>}
<1>1. At(c, "advance") /\ UNCHANGED <<watermark, records, sweep, requests, answers>>
  BY DEF AdvanceUnheard, sending
<1>2. PICK b, o : b = requests[c].batch /\ o = requests[c].offset
  OBVIOUS
<1>3. PICK pd : pd = producers[b.producer]
  OBVIOUS
<1>4. PICK check : check = check_idempotent(pd, Transactional, Partition, b)
  OBVIOUS
<1>5. /\ check.outcome = "Append"
      /\ WriteMeta(Put(producers, b.producer, advance(pd, Transactional, Partition, b, o)))
  BY <1>2, <1>3, <1>4 DEF AdvanceUnheard
<1>6. /\ requests' \in [Slots -> Request \cup {None}]
      /\ \A d \in Slots : requests'[d] \in {None, requests[d]}
  BY <1>1 DEF Inv, Types
<1>7. b \in Batches /\ o \in Nat
  BY <1>1, <1>2, AtAdvance
<1>8. answers' \subseteq answers \cup {[batch |-> b, how |-> "stored", offset |-> o]}
  BY <1>1
<1> QED BY <1>1, <1>2, <1>3, <1>4, <1>5, <1>6, <1>7, <1>8, StoredStep

(***************************************************************************)
(* DeleteRecords.                                                          *)
(***************************************************************************)
\* A sweep leaves the producers and the requests alone.
LEMMA SweepStep ==
  ASSUME Inv, UNCHANGED <<meta, requests, answers>>,
         Types', OwnOffsets', SafeSweep',
         watermark'.high = watermark.high,
         \A b \in Batches, o \in Nat : Stored(b, o) => Stored(b, o)'
  PROVE  Inv'
<1>1. Kept' = Kept
  BY SameKept DEF meta
<1>2. Meta' /\ KeptBehind' /\ KeptInOrder'
  BY SameMeta DEF Inv
<1>3. RequestsReached' /\ RequestsAfterKept'
  BY <1>1 DEF Inv, RequestsReached, RequestsAfterKept, At, meta
<1>4. SafeKept'
  <2> SUFFICES ASSUME NEW k \in Kept PROVE Idempotent(k[1]) /\ Safe(k[1], k[2])'
    BY <1>1 DEF SafeKept, Safe, Stored
  <2>1. k[1] \in Batches /\ k[2] \in Nat /\ Stored(k[1], k[2])
    BY DEF Kept, Inv, SafeKept, Safe
  <2>2. Stored(k[1], k[2])'
    BY <2>1
  <2> QED BY <2>2 DEF Inv, SafeKept, Safe
<1>5. SafeAnswers'
  <2> SUFFICES ASSUME NEW a \in answers
               PROVE  /\ a.batch \in Batches /\ a.offset \in Nat
                      /\ Stored(a.batch, a.offset)'
                      /\ Idempotent(a.batch) /\ a.how # "superseded"
                            => <<a.batch, a.offset>> \in Kept
    BY <1>1 DEF SafeAnswers, Stored
  <2>1. a.batch \in Batches /\ a.offset \in Nat /\ Stored(a.batch, a.offset)
    BY DEF Inv, SafeAnswers
  <2>2. Stored(a.batch, a.offset)'
    BY <2>1
  <2> QED BY <2>1, <2>2 DEF Inv, SafeAnswers
<1>6. SafeRequests'
  <2> SUFFICES ASSUME NEW c \in Slots, At(c, "advance")
               PROVE  /\ Idempotent(requests[c].batch)
                      /\ requests[c].offset \in Nat
                      /\ Safe(requests[c].batch, requests[c].offset)'
    BY DEF SafeRequests, Safe, Stored, At
  <2>1. PICK b, o : b = requests[c].batch /\ o = requests[c].offset
    OBVIOUS
  <2>2. b \in Batches /\ o \in Nat /\ Stored(b, o) /\ Idempotent(b) /\ Safe(b, o)
    BY <2>1, AtAdvance DEF Inv, SafeRequests
  <2>3. Stored(b, o)'
    BY <2>2
  <2> QED BY <2>1, <2>2, <2>3 DEF Safe, Stored
<1> QED BY <1>2, <1>3, <1>4, <1>5, <1>6 DEF Inv

LEMMA DeleteRecordsInv ==
  ASSUME Inv, NEW requested \in 0 .. watermark.high, DeleteRecords(requested)
  PROVE  Inv'
<1>1. PICK cutoff, l, h : /\ cutoff = Max({requested, watermark.low})
                          /\ l = watermark.low /\ h = watermark.high
  OBVIOUS
<1>2. /\ watermark' = [watermark EXCEPT !.low = cutoff]
      /\ sweep' = [cutoff |-> cutoff, high |-> h, expired |-> None]
      /\ UNCHANGED <<meta, requests, answers, records>>
  BY <1>1 DEF DeleteRecords, sending
<1>3. /\ l \in Nat /\ h \in Nat /\ l <= h
      /\ watermark \in [low : Nat, high : Nat, producer_epochs : {watermark.producer_epochs}]
  BY <1>1 DEF Inv, Types
<1>4. cutoff \in Nat /\ l <= cutoff /\ cutoff <= h
  <2>1. requested \in Nat /\ requested <= h
    BY <1>1, <1>3
  <2>2. cutoff = Max({requested, l})
    BY <1>1
  <2>3. cutoff = IF requested >= l THEN requested ELSE l
    BY <1>3, <2>1, <2>2, MaxOfTwo
  <2> QED BY <1>3, <2>1, <2>3
<1>5. watermark'.low = cutoff /\ watermark'.high = h
  BY <1>1, <1>2, <1>3
<1>6. Types'
  <2>1. watermark' \in [low : Nat, high : Nat, producer_epochs : {watermark'.producer_epochs}]
    BY <1>2, <1>3, <1>4
  <2> QED BY <1>2, <1>4, <1>5, <2>1 DEF Inv, Types
<1>7. OwnOffsets'
  BY <1>1, <1>2, <1>5 DEF Inv, OwnOffsets, Apart, At
<1>8. SafeSweep'
  <2>1. \A o \in DOMAIN records : o + records[o].count <= h
    BY <1>1 DEF Inv, OwnOffsets
  <2>2. \A c \in Slots : At(c, "put") => requests[c].offset + requests[c].batch.count <= h
    BY <1>1 DEF Inv, OwnOffsets
  <2>3. /\ sweep'.cutoff = cutoff /\ sweep'.high = h /\ sweep'.expired = None
        /\ sweep' \in [cutoff : Nat, high : Nat, expired : {sweep'.expired}]
    BY <1>2, <1>3, <1>4
  <2> QED BY <1>2, <1>3, <1>4, <1>5, <2>1, <2>2, <2>3 DEF SafeSweep, At
<1>9. ASSUME NEW b \in Batches, NEW o \in Nat, Stored(b, o) PROVE Stored(b, o)'
  <2>1. b.count \in Nat
    BY BatchType
  <2> QED BY <1>1, <1>2, <1>3, <1>4, <1>5, <1>9, <2>1 DEF Stored
<1> QED BY <1>1, <1>2, <1>5, <1>6, <1>7, <1>8, <1>9, SweepStep

\* What is listed as expired is below the low watermark, by the batch after it or by
\* the high watermark that no batch straddles.
LEMMA ListExpiredInv ==
  ASSUME Inv, ListExpired
  PROVE  Inv'
<1>1. /\ sweep # None
      /\ sweep' = [sweep EXCEPT !.expired = Expired(sweep.cutoff, sweep.high)]
      /\ UNCHANGED <<meta, requests, answers, records, watermark>>
  BY DEF ListExpired, sending
<1>2. PICK cut, h : cut = sweep.cutoff /\ h = sweep.high
  OBVIOUS
<1>3. /\ sweep \in [cutoff : Nat, high : Nat, expired : {sweep.expired}]
      /\ cut \in Nat /\ h \in Nat /\ cut <= watermark.low /\ cut <= h
      /\ watermark.low \in Nat
      /\ \A o \in DOMAIN records : o < h => o + records[o].count <= h
  BY <1>1, <1>2 DEF Inv, SafeSweep, Types
<1>4. ASSUME NEW o \in Expired(cut, h)
      PROVE  o \in DOMAIN records /\ o + records[o].count <= watermark.low
  <2>1. o \in DOMAIN records
    BY DEF Expired
  <2>2. o \in Nat /\ records[o] \in Batches
    BY <2>1 DEF Inv, Types
  <2>3. records[o].count \in Nat /\ records[o].count > 0
    BY <2>2, BatchType
  <2>4. CASE \E next \in DOMAIN records : next > o /\ next <= cut
    <3>1. PICK next \in DOMAIN records : next > o /\ next <= cut
      BY <2>4
    <3>2. next \in Nat /\ records[next] \in Batches
      BY DEF Inv, Types
    <3>3. records[next].count \in Nat
      BY <3>2, BatchType
    <3>4. Apart(o, records[o], next, records[next])
      BY <2>1, <2>2, <3>1, <3>2 DEF Inv, OwnOffsets
    <3> QED BY <1>3, <2>1, <2>2, <2>3, <3>1, <3>2, <3>3, <3>4 DEF Apart
  <2>5. CASE cut >= h /\ o < cut
    BY <1>3, <2>1, <2>2, <2>3, <2>5
  <2> QED BY <2>4, <2>5 DEF Expired
<1>5. /\ sweep'.cutoff = cut /\ sweep'.high = h /\ sweep'.expired = Expired(cut, h)
      /\ sweep' \in [cutoff : Nat, high : Nat, expired : {sweep'.expired}]
  BY <1>1, <1>2, <1>3
<1>6. SafeSweep'
  BY <1>1, <1>2, <1>3, <1>4, <1>5 DEF Inv, SafeSweep, At
<1>7. Types' /\ OwnOffsets'
  BY <1>1 DEF Inv, Types, OwnOffsets, Apart, At
<1>8. \A b \in Batches, o \in Nat : Stored(b, o) => Stored(b, o)'
  BY <1>1 DEF Stored
<1> QED BY <1>1, <1>6, <1>7, <1>8, SweepStep

LEMMA ExpiredType ==
  ASSUME Inv, sweep # None, sweep.expired # None, NEW o \in sweep.expired
  PROVE  /\ o \in DOMAIN records /\ o + records[o].count <= watermark.low
         /\ sweep \in [cutoff : Nat, high : Nat, expired : {sweep.expired}]
BY DEF Inv, SafeSweep

LEMMA KeepExpiredInv ==
  ASSUME Inv, sweep # None, sweep.expired # None, NEW o \in sweep.expired, KeepExpired(o)
  PROVE  Inv'
<1>1. /\ sweep' = [sweep EXCEPT !.expired = @ \ {o}]
      /\ UNCHANGED <<meta, requests, answers, records, watermark>>
  BY DEF KeepExpired, sending
<1>2. /\ sweep'.cutoff = sweep.cutoff /\ sweep'.high = sweep.high
      /\ sweep'.expired = sweep.expired \ {o}
      /\ sweep' \in [cutoff : Nat, high : Nat, expired : {sweep'.expired}]
  BY <1>1, ExpiredType
<1>3. SafeSweep'
  BY <1>1, <1>2 DEF Inv, SafeSweep, At
<1>4. Types' /\ OwnOffsets'
  BY <1>1 DEF Inv, Types, OwnOffsets, Apart, At
<1>5. \A b \in Batches, p \in Nat : Stored(b, p) => Stored(b, p)'
  BY <1>1 DEF Stored
<1> QED BY <1>1, <1>3, <1>4, <1>5, SweepStep

LEMMA DeleteExpiredInv ==
  ASSUME Inv, sweep # None, sweep.expired # None, NEW o \in sweep.expired, DeleteExpired(o)
  PROVE  Inv'
<1>1. /\ records' = Drop(records, o)
      /\ sweep' = [sweep EXCEPT !.expired = @ \ {o}]
      /\ UNCHANGED <<meta, requests, answers, watermark>>
  BY DEF DeleteExpired, sending
<1>2. /\ sweep'.cutoff = sweep.cutoff /\ sweep'.high = sweep.high
      /\ sweep'.expired = sweep.expired \ {o}
      /\ sweep' \in [cutoff : Nat, high : Nat, expired : {sweep'.expired}]
  BY <1>1, ExpiredType
<1>3. /\ DOMAIN records' = DOMAIN records \ {o}
      /\ \A p \in DOMAIN records' : records'[p] = records[p]
  BY <1>1 DEF Drop, Restrict
<1>4. o \in DOMAIN records /\ o + records[o].count <= watermark.low
  BY ExpiredType
<1>5. SafeSweep'
  BY <1>1, <1>2, <1>3 DEF Inv, SafeSweep, At
<1>6. Types'
  BY <1>1, <1>3 DEF Inv, Types
<1>7. OwnOffsets'
  BY <1>1, <1>3 DEF Inv, OwnOffsets, Apart, At
<1>8. ASSUME NEW b \in Batches, NEW p \in Nat, Stored(b, p) PROVE Stored(b, p)'
  <2>1. CASE p = o
    <3>1. records[o] \in Batches /\ watermark.low \in Nat
      BY <1>4 DEF Inv, Types
    <3>2. records[o].count \in Nat /\ b.count \in Nat
      BY <3>1, BatchType
    <3> QED BY <1>1, <1>4, <1>8, <2>1, <3>1, <3>2 DEF Stored
  <2>2. CASE p # o
    BY <1>1, <1>3, <1>8, <2>2 DEF Stored
  <2> QED BY <2>1, <2>2
<1> QED BY <1>1, <1>5, <1>6, <1>7, <1>8, SweepStep

\* A step that changes nothing but the sweep, which ends, or the consumer.
LEMMA OtherStep ==
  ASSUME Inv, UNCHANGED <<meta, requests, answers, records, watermark>>,
         sweep' = None \/ sweep' = sweep
  PROVE  Inv'
<1>1. SafeSweep'
  BY DEF Inv, SafeSweep, At
<1>2. Types' /\ OwnOffsets'
  BY DEF Inv, Types, OwnOffsets, Apart, At
<1>3. \A b \in Batches, p \in Nat : Stored(b, p) => Stored(b, p)'
  BY DEF Stored
<1> QED BY <1>1, <1>2, <1>3, SweepStep

(***************************************************************************)
(* The theorems.                                                           *)
(***************************************************************************)
LEMMA NextInv == Inv /\ [Next]_vars => Inv'
<1> SUFFICES ASSUME Inv, [Next]_vars PROVE Inv'
  OBVIOUS
<1>1. CASE InitProducer
  BY <1>1, InitProducerInv
<1>2. ASSUME NEW c \in Slots, NEW b \in Batches, Send(c, b) PROVE Inv'
  BY <1>2, SendInv
<1>3. ASSUME NEW c \in Slots, Step(c) PROVE Inv'
  BY <1>3, CheckInv, TakeOffsetInv, PutBatchInv, AdvanceInv DEF Step
<1>4. ASSUME NEW c \in Slots, Fail(c) \/ RetakeOffset(c) \/ AdvanceUnheard(c) PROVE Inv'
  BY <1>4, FailInv, RetakeOffsetInv, AdvanceUnheardInv
<1>5. ASSUME NEW requested \in 0 .. watermark.high, DeleteRecords(requested) PROVE Inv'
  BY <1>5, DeleteRecordsInv
<1>6. CASE Sweep
  <2>1. CASE ListExpired
    BY <2>1, ListExpiredInv
  <2>2. ASSUME sweep # None, sweep.expired # None, NEW o \in sweep.expired,
               DeleteExpired(o) \/ KeepExpired(o)
        PROVE  Inv'
    BY <2>2, DeleteExpiredInv, KeepExpiredInv
  <2>3. CASE EndSweep
    BY <2>3, OtherStep DEF EndSweep, sending
  <2> QED BY <1>6, <2>1, <2>2, <2>3 DEF Sweep
<1>7. CASE Consume
  BY <1>7, OtherStep DEF Consume, StartFetch, ListBatches, ReadBatches, sending
<1>8. CASE UNCHANGED vars
  BY <1>8, OtherStep DEF vars, sending
<1> QED BY <1>1, <1>2, <1>3, <1>4, <1>5, <1>6, <1>7, <1>8 DEF Next

\* In every reachable state, offsets are held by one batch at a time, and what meta.json
\* remembered of a producer, in any version, is stored and behind its position (produce).
THEOREM ProduceInvariant == Spec => []Inv
BY InitInv, NextInv, PTL DEF Spec

\* An acknowledged batch is in the log until DeleteRecords cuts all of it, for any number of
\* requests, faults, and versions of meta.json that the check may read (produce, delete_records).
THEOREM AlwaysAckedIsStored == Spec => []AckedIsStored
<1>1. Inv => AckedIsStored
  BY DEF Inv, SafeAnswers, Stored, AckedIsStored
<1> QED BY <1>1, ProduceInvariant, PTL

\* A batch that is sent again is acknowledged at one offset, whichever broker checks it
\* and however old its version is, but for the copies that the next epoch of the producer
\* superseded while they were being stored (check_idempotent_sequence, advance_idempotent_sequence).
THEOREM AlwaysOneOffset == Spec => []OneOffset
<1>1. Inv => OneOffset
  <2> SUFFICES ASSUME Inv, NEW a1 \in answers, NEW a2 \in answers,
                      Idempotent(a1.batch), a1.batch = a2.batch,
                      "superseded" \notin {a1.how, a2.how}
               PROVE  a1.offset = a2.offset
    BY DEF OneOffset
  <2>1. <<a1.batch, a1.offset>> \in Kept /\ <<a2.batch, a2.offset>> \in Kept
    BY DEF Inv, SafeAnswers
  <2> QED BY <2>1 DEF Inv, KeptInOrder, SameEpoch
<1> QED BY <1>1, ProduceInvariant, PTL

(***************************************************************************)
(* The order of the epochs.                                                *)
(***************************************************************************)
\* The watermark loses the epoch of no producer but those that it forgets.
LEMMA RecordIs ==
  ASSUME NEW epochs, DOMAIN epochs \subseteq ProducerIds,
         \A id \in DOMAIN epochs : epochs[id] \in Nat,
         NEW b \in Batches, Idempotent(b),
         NEW new, new = record_producer_epoch(epochs, b)
  PROVE  /\ DOMAIN new \subseteq ProducerIds
         /\ \A id \in DOMAIN new : new[id] \in Nat
         /\ \A id \in DOMAIN epochs :
                id \in Forgotten(epochs, b) \/ (id \in DOMAIN new /\ new[id] >= epochs[id])
         /\ b.epoch > 0 =>
                \/ b.producer \in Forgotten(epochs, b)
                \/ b.producer \in DOMAIN new /\ new[b.producer] >= b.epoch
<1> DEFINE newer == Put(epochs, b.producer, b.epoch)
           old == b.epoch <= 0 \/ (b.producer \in DOMAIN epochs /\ epochs[b.producer] >= b.epoch)
<1>1. b.epoch \in Nat
  BY BatchType
<1>2. b.producer \in ProducerIds
  BY DEF ProducerIds, Idempotent
<1>3. CASE old
  <2>1. new = epochs
    BY <1>3 DEF record_producer_epoch
  <2> QED BY <1>1, <1>3, <2>1
<1>4. CASE ~old
  <2>1. /\ DOMAIN newer = DOMAIN epochs \cup {b.producer}
        /\ newer[b.producer] = b.epoch
        /\ \A id \in DOMAIN epochs : id # b.producer => newer[id] = epochs[id]
    BY DEF Put
  <2>2. new = newer \/ new = Drop(newer, Min(DOMAIN newer))
    BY <1>4 DEF record_producer_epoch
  <2> HIDE DEF newer
  <2>3. DOMAIN new \subseteq DOMAIN newer /\ \A id \in DOMAIN new : new[id] = newer[id]
    BY <2>2 DEF Drop, Restrict
  <2>4. \A id \in DOMAIN newer : newer[id] \in Nat
    BY <1>1, <2>1
  <2>5. \A id \in DOMAIN epochs : newer[id] >= epochs[id]
    BY <1>1, <1>4, <2>1
  <2>6. /\ DOMAIN new \subseteq ProducerIds
        /\ \A id \in DOMAIN new : new[id] \in Nat
    BY <1>2, <2>1, <2>3, <2>4
  <2>7. \A id \in DOMAIN epochs : id \in DOMAIN new \/ id \in Forgotten(epochs, b)
    BY DEF Forgotten
  <2>8. b.epoch > 0 => b.producer \in DOMAIN new \/ b.producer \in Forgotten(epochs, b)
    BY DEF Forgotten
  <2>9. b.producer \in DOMAIN new => new[b.producer] >= b.epoch
    BY <1>1, <2>1, <2>3
  <2> QED BY <2>3, <2>5, <2>6, <2>7, <2>8, <2>9
<1> QED BY <1>3, <1>4

LEMMA TakenType ==
  ASSUME Inv, NEW k \in Taken
  PROVE  k[1] \in Batches /\ k[2] \in Nat /\ Idempotent(k[1])
<1>1. CASE k \in Kept
  BY <1>1 DEF Inv, SafeKept, Kept
<1>2. ASSUME NEW a \in answers, Idempotent(a.batch), k = <<a.batch, a.offset>>
      PROVE  k[1] \in Batches /\ k[2] \in Nat /\ Idempotent(k[1])
  BY <1>2 DEF Inv, SafeAnswers
<1>3. ASSUME NEW c \in Slots, At(c, "put") \/ At(c, "advance"), Idempotent(requests[c].batch),
             k = <<requests[c].batch, requests[c].offset>>
      PROVE  k[1] \in Batches /\ k[2] \in Nat /\ Idempotent(k[1])
  <2>1. requests[c].batch \in Batches
    BY <1>3 DEF Inv, Types, At, Request
  <2>2. requests[c].offset \in Nat
    BY <1>3 DEF Inv, OwnOffsets, SafeRequests
  <2> QED BY <1>3, <2>1, <2>2
<1> QED BY <1>1, <1>2, <1>3 DEF Taken

\* No step but TakeOffset gives a batch an offset.
LEMMA NoneTaken ==
  ASSUME EpochsInOrder, Inv', Kept' \subseteq Taken,
         watermark'.producer_epochs = watermark.producer_epochs,
         watermark'.high = watermark.high, forgotten' = forgotten,
         \A a \in answers' : a.how = "superseded" /\ Idempotent(a.batch)
                                => <<a.batch, a.offset>> \in Taken,
         \A d \in Slots : (At(d, "put") \/ At(d, "advance"))' /\ Idempotent(requests'[d].batch)
                                => <<requests'[d].batch, requests'[d].offset>> \in Taken
  PROVE  EpochsInOrder'
<1>1. ASSUME NEW k \in Taken' PROVE k \in Taken
  <2>1. CASE k \in Kept'
    BY <2>1
  <2>2. ASSUME NEW a \in answers', Idempotent(a.batch), k = <<a.batch, a.offset>>
        PROVE  k \in Taken
    <3>1. a.how # "superseded" => <<a.batch, a.offset>> \in Kept'
      BY <2>2 DEF Inv, SafeAnswers
    <3> QED BY <2>2, <3>1
  <2>3. ASSUME NEW d \in Slots, (At(d, "put") \/ At(d, "advance"))', Idempotent(requests'[d].batch),
               k = <<requests'[d].batch, requests'[d].offset>>
        PROVE  k \in Taken
    BY <2>3
  <2> QED BY <2>1, <2>2, <2>3 DEF Taken
<1> HIDE DEF Taken
<1> QED BY <1>1 DEF EpochsInOrder

\* A request that had an offset, and has it still.
LEMMA TakenRequest ==
  ASSUME NEW c \in Slots, At(c, "put") \/ At(c, "advance"), Idempotent(requests[c].batch)
  PROVE  <<requests[c].batch, requests[c].offset>> \in Taken
BY DEF Taken

LEMMA TakenAnswer ==
  ASSUME NEW a \in answers, Idempotent(a.batch)
  PROVE  <<a.batch, a.offset>> \in Taken
BY DEF Taken

\* A step in which no request gets to an offset.
LEMMA NoneTakenBy ==
  ASSUME Inv, EpochsInOrder, Inv', Kept' \subseteq Taken, UNCHANGED answers,
         watermark'.producer_epochs = watermark.producer_epochs,
         watermark'.high = watermark.high, forgotten' = forgotten,
         \A d \in Slots : (At(d, "put") \/ At(d, "advance"))' => requests'[d] = requests[d]
  PROVE  EpochsInOrder'
<1>1. ASSUME NEW a \in answers', a.how = "superseded", Idempotent(a.batch)
      PROVE  <<a.batch, a.offset>> \in Taken
  BY <1>1, TakenAnswer
<1>2. ASSUME NEW d \in Slots, (At(d, "put") \/ At(d, "advance"))', Idempotent(requests'[d].batch)
      PROVE  <<requests'[d].batch, requests'[d].offset>> \in Taken
  <2>1. requests'[d] = requests[d] /\ (At(d, "put") \/ At(d, "advance"))
    BY <1>2 DEF At
  <2> QED BY <1>2, <2>1, TakenRequest
<1> QED BY <1>1, <1>2, NoneTaken

LEMMA KeptTaken == Kept \subseteq Taken
BY DEF Taken

LEMMA TakeOffsetEpochs ==
  ASSUME Inv, EpochsInOrder, NEW c \in Slots, TakeOffset(c)
  PROVE  EpochsInOrder'
<1>1. UNCHANGED <<meta, records, answers, sweep>> /\ At(c, "offset")
  BY DEF TakeOffset
<1>2. PICK b, h, old : b = requests[c].batch /\ h = watermark.high /\ old = watermark.producer_epochs
  OBVIOUS
<1>3. Inv'
  BY TakeOffsetInv
<1>4. Kept' = Kept
  BY <1>1, SameKept DEF meta
<1>5. requests[c] \in Request /\ requests[c] # None /\ b \in Batches
  BY <1>1, <1>2 DEF Inv, Types, At, Request
<1>6. b.epoch \in Nat /\ b.count \in Nat /\ b.count > 0 /\ h \in Nat
  BY <1>2, <1>5, BatchType DEF Inv, Types
<1>7. CASE End(c) /\ UNCHANGED <<watermark, forgotten>>
  <2>1. \A d \in Slots : (At(d, "put") \/ At(d, "advance"))' => requests'[d] = requests[d]
    BY <1>7, EndType DEF Inv, At
  <2> QED BY <1>1, <1>3, <1>4, <1>7, <2>1, KeptTaken, NoneTakenBy
<1>8. CASE ~(End(c) /\ UNCHANGED <<watermark, forgotten>>)
  <2> DEFINE r == [requests[c] EXCEPT !.stage = "put", !.offset = h]
  <2>1. PICK new : /\ watermark' = [watermark EXCEPT !.high = h + b.count, !.producer_epochs = new]
                   /\ Idempotent(b) => new = record_producer_epoch(old, b)
                   /\ ~Idempotent(b) => new = old
    <3> DEFINE new == IF Idempotent(b) THEN record_producer_epoch(old, b) ELSE old
    <3>1. watermark' = [watermark EXCEPT !.high = h + b.count, !.producer_epochs = new]
      BY <1>2, <1>8 DEF TakeOffset
    <3>2. (Idempotent(b) => new = record_producer_epoch(old, b)) /\ (~Idempotent(b) => new = old)
      OBVIOUS
    <3> HIDE DEF new
    <3> QED BY <3>1, <3>2
  <2>2. /\ requests' = [requests EXCEPT ![c] = r]
        /\ ~(Idempotent(b) /\ fence_producer_epoch(old, b))
        /\ forgotten' = IF Idempotent(b) THEN forgotten \cup Forgotten(old, b) ELSE forgotten
    BY <1>2, <1>8 DEF TakeOffset
  <2>3. watermark'.high = h + b.count /\ watermark'.producer_epochs = new
    BY <1>2, <2>1 DEF Inv, Types
  <2>4. r \in Request /\ r.batch = b /\ r.offset = h
    BY <1>2, <1>5, <1>6 DEF Request, Stages
  <2> HIDE DEF r
  <2>5. requests'[c] = r /\ \A d \in Slots : d # c => requests'[d] = requests[d]
    BY <2>2 DEF Inv, Types
  <2>6. ASSUME NEW k \in Taken' PROVE k \in Taken \/ (k = <<b, h>> /\ Idempotent(b))
    <3>1. CASE k \in Kept'
      BY <1>4, <3>1, KeptTaken
    <3>2. ASSUME NEW a \in answers', Idempotent(a.batch), k = <<a.batch, a.offset>>
          PROVE  k \in Taken
      BY <1>1, <3>2, TakenAnswer
    <3>3. ASSUME NEW d \in Slots, (At(d, "put") \/ At(d, "advance"))', Idempotent(requests'[d].batch),
                 k = <<requests'[d].batch, requests'[d].offset>>
          PROVE  k \in Taken \/ (k = <<b, h>> /\ Idempotent(b))
      <4>1. CASE d = c
        BY <2>4, <2>5, <3>3, <4>1
      <4>2. CASE d # c
        <5>1. requests'[d] = requests[d] /\ (At(d, "put") \/ At(d, "advance"))
          BY <2>5, <3>3, <4>2 DEF At
        <5> QED BY <3>3, <5>1, TakenRequest
      <4> QED BY <4>1, <4>2
    <3> QED BY <3>1, <3>2, <3>3 DEF Taken
  <2>7. /\ DOMAIN old \subseteq ProducerIds
        /\ \A id \in DOMAIN old : old[id] \in Nat
    BY <1>2 DEF EpochsInOrder
  <2>8. /\ DOMAIN new \subseteq ProducerIds
        /\ \A id \in DOMAIN new : new[id] \in Nat
        /\ \A id \in DOMAIN old \ forgotten' : id \in DOMAIN new /\ new[id] >= old[id]
        /\ Idempotent(b) /\ b.epoch > 0 /\ b.producer \notin forgotten'
                => b.producer \in DOMAIN new /\ new[b.producer] >= b.epoch
        /\ forgotten \subseteq forgotten'
    <3>1. CASE Idempotent(b)
      BY <1>5, <2>1, <2>2, <2>7, <3>1, RecordIs
    <3>2. CASE ~Idempotent(b)
      BY <2>1, <2>2, <2>7, <3>2
    <3> QED BY <3>1, <3>2
  <2>9. ASSUME NEW k \in Taken
        PROVE  /\ k[1].epoch \in Nat /\ k[2] \in Nat /\ k[2] < h
               /\ k[1].epoch > 0 /\ k[1].producer \notin forgotten
                    => k[1].producer \in DOMAIN old /\ old[k[1].producer] >= k[1].epoch
    <3>1. k[1] \in Batches /\ k[2] \in Nat
      BY TakenType
    <3>2. k[1].epoch \in Nat
      BY <3>1, BatchType
    <3> QED BY <1>2, <3>1, <3>2 DEF EpochsInOrder
  <2>10. ASSUME NEW k \in Taken'
         PROVE  /\ k[2] < h + b.count
                /\ k[1].epoch > 0 /\ k[1].producer \notin forgotten'
                    => k[1].producer \in DOMAIN new /\ new[k[1].producer] >= k[1].epoch
    <3>1. CASE k \in Taken
      <4>1. k[2] < h + b.count
        BY <1>6, <2>9, <3>1
      <4>2. ASSUME k[1].epoch > 0, k[1].producer \notin forgotten'
            PROVE  k[1].producer \in DOMAIN new /\ new[k[1].producer] >= k[1].epoch
        <5>1. k[1].producer \in DOMAIN old /\ old[k[1].producer] >= k[1].epoch
          BY <2>8, <2>9, <3>1, <4>2
        <5>2. k[1].producer \in DOMAIN new /\ new[k[1].producer] >= old[k[1].producer]
          BY <2>8, <4>2, <5>1
        <5>3. new[k[1].producer] \in Nat /\ old[k[1].producer] \in Nat /\ k[1].epoch \in Nat
          BY <2>7, <2>8, <2>9, <3>1, <5>1, <5>2
        <5> QED BY <5>1, <5>2, <5>3
      <4> QED BY <4>1, <4>2
    <3>2. CASE k = <<b, h>> /\ Idempotent(b)
      BY <1>6, <2>8, <3>2
    <3> QED BY <2>6, <3>1, <3>2
  <2>11. ASSUME NEW j \in Taken', NEW k \in Taken', j[1].producer = k[1].producer,
                k[1].producer \notin forgotten', j[1].epoch < k[1].epoch
         PROVE  j[2] < k[2]
    <3>1. CASE j \in Taken /\ k \in Taken
      BY <2>8, <2>11, <3>1 DEF EpochsInOrder
    <3>2. CASE j \in Taken /\ k = <<b, h>>
      BY <2>9, <3>2
    <3>3. CASE j = <<b, h>> /\ Idempotent(b) /\ k \in Taken
      <4>1. k[1].epoch \in Nat /\ k[1].epoch > b.epoch /\ k[1].producer = b.producer
        BY <2>9, <2>11, <3>3
      <4>2. b.producer \in DOMAIN old /\ old[b.producer] >= k[1].epoch
        BY <1>6, <2>8, <2>9, <2>11, <3>3, <4>1
      <4>3. old[b.producer] \in Nat
        BY <2>7, <4>2
      <4>4. fence_producer_epoch(old, b)
        BY <1>6, <4>1, <4>2, <4>3 DEF fence_producer_epoch
      <4> QED BY <2>2, <3>3, <4>4
    <3>4. CASE j = <<b, h>> /\ k = <<b, h>>
      BY <1>6, <2>11, <3>4
    <3> QED BY <2>6, <3>1, <3>2, <3>3, <3>4
  <2> HIDE DEF Taken
  <2> QED BY <2>3, <2>8, <2>10, <2>11 DEF EpochsInOrder
<1> QED BY <1>7, <1>8

LEMMA AdvanceEpochs ==
  ASSUME Inv, EpochsInOrder, NEW c \in Slots, Advance(c)
  PROVE  EpochsInOrder'
<1>1. At(c, "advance") /\ End(c) /\ UNCHANGED <<watermark, forgotten, records, sweep>>
  BY DEF Advance
<1>2. PICK b, o : b = requests[c].batch /\ o = requests[c].offset
  OBVIOUS
<1>3. Inv' /\ Kept' \subseteq Kept \cup {<<b, o>>}
  BY <1>2, AdvanceInv
<1>4. Idempotent(b)
  BY <1>1, <1>2 DEF Inv, SafeRequests
<1>5. <<b, o>> \in Taken
  BY <1>1, <1>2, <1>4, TakenRequest
<1>6. ASSUME NEW a \in answers', a.how = "superseded", Idempotent(a.batch)
      PROVE  <<a.batch, a.offset>> \in Taken
  <2>1. \/ a \in answers
        \/ a = [batch |-> b, how |-> "superseded", offset |-> o]
    BY <1>2, <1>6 DEF Advance, Told
  <2> QED BY <1>5, <1>6, <2>1, TakenAnswer
<1>7. ASSUME NEW d \in Slots, (At(d, "put") \/ At(d, "advance"))', Idempotent(requests'[d].batch)
      PROVE  <<requests'[d].batch, requests'[d].offset>> \in Taken
  <2>1. requests'[d] = requests[d] /\ (At(d, "put") \/ At(d, "advance"))
    BY <1>1, <1>7, EndType DEF Inv, At
  <2> QED BY <1>7, <2>1, TakenRequest
<1>8. Kept' \subseteq Taken
  BY <1>3, <1>5, KeptTaken
<1> QED BY <1>1, <1>3, <1>6, <1>7, <1>8, NoneTaken

\* The steps of a produce other than TakeOffset and Advance.
LEMMA ProduceEpochs ==
  ASSUME Inv, EpochsInOrder, Inv', NEW c \in Slots,
         \/ \E b \in Batches : Send(c, b)
         \/ Check(c) \/ PutBatch(c) \/ Fail(c) \/ RetakeOffset(c)
  PROVE  EpochsInOrder'
<1>1. UNCHANGED <<meta, watermark, forgotten>>
  BY DEF Send, Check, PutBatch, Fail, RetakeOffset
<1>2. Kept' \subseteq Taken
  BY <1>1, SameKept, KeptTaken DEF meta
<1>3. ASSUME NEW a \in answers', a.how = "superseded", Idempotent(a.batch)
      PROVE  <<a.batch, a.offset>> \in Taken
  <2>1. a \in answers
    BY <1>3 DEF Send, Check, PutBatch, Fail, RetakeOffset, Told
  <2> QED BY <1>3, <2>1, TakenAnswer
<1>4. ASSUME NEW d \in Slots, (At(d, "put") \/ At(d, "advance"))'
      PROVE  /\ At(d, "put") \/ At(d, "advance")
             /\ requests'[d].batch = requests[d].batch /\ requests'[d].offset = requests[d].offset
  <2>1. CASE d # c
    <3>1. requests'[d] = requests[d]
      BY <2>1 DEF Send, Check, PutBatch, Fail, RetakeOffset, Goto, End, Inv, Types
    <3> QED BY <1>4, <3>1 DEF At
  <2>2. CASE d = c
    <3>1. requests'[c] # None /\ requests'[c].stage \in {"put", "advance"}
      BY <1>4, <2>2 DEF At
    <3>2. ASSUME End(c) PROVE FALSE
      BY <3>1, <3>2 DEF End, Inv, Types
    <3>3. ASSUME NEW b \in Batches, Send(c, b) PROVE FALSE
      <4>1. requests'[c].stage \in {"check", "offset"}
        BY <3>3 DEF Send, Inv, Types
      <4> QED BY <3>1, <4>1
    <3>4. ASSUME Check(c) PROVE FALSE
      <4>1. Goto(c, "offset") /\ requests[c] \in Request
        BY <3>2, <3>4 DEF Check, At, Inv, Types
      <4>2. requests'[c].stage = "offset"
        BY <4>1 DEF Goto, Inv, Types, Request
      <4> QED BY <3>1, <4>2
    <3>5. ASSUME RetakeOffset(c) PROVE FALSE
      <4>1. requests[c] \in Request
        BY <3>5 DEF RetakeOffset, At, Inv, Types
      <4>2. requests'[c].stage = "offset"
        BY <3>5, <4>1 DEF RetakeOffset, Inv, Types, Request
      <4> QED BY <3>1, <4>2
    <3>6. CASE PutBatch(c)
      <4>1. At(c, "put") /\ Goto(c, "advance") /\ requests[c] \in Request
        BY <3>2, <3>6 DEF PutBatch, At, Inv, Types
      <4>2. requests'[c].batch = requests[c].batch /\ requests'[c].offset = requests[c].offset
        BY <4>1 DEF Goto, Inv, Types, Request
      <4> QED BY <2>2, <4>1, <4>2
    <3> QED BY <3>2, <3>3, <3>4, <3>5, <3>6 DEF Fail
  <2> QED BY <2>1, <2>2
<1>5. ASSUME NEW d \in Slots, (At(d, "put") \/ At(d, "advance"))', Idempotent(requests'[d].batch)
      PROVE  <<requests'[d].batch, requests'[d].offset>> \in Taken
  BY <1>4, <1>5, TakenRequest
<1> QED BY <1>1, <1>2, <1>3, <1>5, NoneTaken

LEMMA NextEpochs ==
  ASSUME Inv, EpochsInOrder, [Next]_vars
  PROVE  EpochsInOrder'
<1>1. Inv'
  BY NextInv
<1>2. CASE InitProducer
  <2>1. Kept' \subseteq Taken
    BY <1>2, InitProducerInv, KeptTaken
  <2>2. UNCHANGED <<watermark, forgotten, requests, answers>>
    BY <1>2 DEF InitProducer, sending
  <2> QED BY <1>1, <2>1, <2>2, NoneTakenBy
<1>3. ASSUME NEW c \in Slots, \/ \E b \in Batches : Send(c, b)
                              \/ Check(c) \/ PutBatch(c) \/ Fail(c) \/ RetakeOffset(c)
      PROVE  EpochsInOrder'
  BY <1>1, <1>3, ProduceEpochs
<1>4. ASSUME NEW c \in Slots, TakeOffset(c) PROVE EpochsInOrder'
  BY <1>4, TakeOffsetEpochs
<1>5. ASSUME NEW c \in Slots, Advance(c) PROVE EpochsInOrder'
  BY <1>5, AdvanceEpochs
<1>6. ASSUME NEW c \in Slots, AdvanceUnheard(c) PROVE EpochsInOrder'
  <2>1. Kept' \subseteq Kept \cup {<<requests[c].batch, requests[c].offset>>}
    BY <1>6, AdvanceUnheardInv
  <2>2. UNCHANGED <<watermark, forgotten, requests, answers>> /\ At(c, "advance")
    BY <1>6 DEF AdvanceUnheard, sending
  <2>3. Idempotent(requests[c].batch)
    BY <2>2 DEF Inv, SafeRequests
  <2>4. Kept' \subseteq Taken
    BY <2>1, <2>2, <2>3, TakenRequest, KeptTaken
  <2> QED BY <1>1, <2>2, <2>4, NoneTakenBy
<1>7. ASSUME NEW requested \in 0 .. watermark.high, DeleteRecords(requested) PROVE EpochsInOrder'
  <2>1. UNCHANGED <<meta, forgotten, requests, answers>>
    BY <1>7 DEF DeleteRecords, sending
  <2>2. watermark'.producer_epochs = watermark.producer_epochs /\ watermark'.high = watermark.high
    BY <1>7 DEF DeleteRecords, Inv, Types
  <2> QED BY <1>1, <2>1, <2>2, SameKept, KeptTaken, NoneTakenBy DEF meta
<1>8. CASE Sweep \/ Consume \/ UNCHANGED vars
  <2>1. UNCHANGED <<meta, watermark, forgotten, requests, answers>>
    BY <1>8 DEF Sweep, ListExpired, DeleteExpired, KeepExpired, EndSweep,
                Consume, StartFetch, ListBatches, ReadBatches, vars, sending
  <2> QED BY <1>1, <2>1, SameKept, KeptTaken, NoneTakenBy DEF meta
<1> QED BY <1>2, <1>3, <1>4, <1>5, <1>6, <1>7, <1>8 DEF Next, Step

LEMMA InitEpochs == Init => EpochsInOrder
<1> SUFFICES ASSUME Init PROVE EpochsInOrder
  OBVIOUS
<1>1. Kept = {}
  BY DEF Init, Kept, EmptyMap
<1>2. Taken = {}
  BY <1>1 DEF Init, Taken, At
<1> QED BY <1>2 DEF Init, EpochsInOrder, EmptyMap

\* Within an epoch, acknowledged batches are in the order of their sequences, but for the
\* copies that the next epoch superseded while they were being stored.
SequencesInOrder ==
    \A a1, a2 \in answers :
        /\ Idempotent(a1.batch) /\ SameEpoch(a1.batch, a2.batch)
        /\ a1.batch.sequence < a2.batch.sequence
        /\ "superseded" \notin {a1.how, a2.how}
        => a1.offset < a2.offset

LEMMA InvSequencesInOrder == Inv => SequencesInOrder
<1> SUFFICES ASSUME Inv, NEW a1 \in answers, NEW a2 \in answers,
                    Idempotent(a1.batch), SameEpoch(a1.batch, a2.batch),
                    a1.batch.sequence < a2.batch.sequence,
                    "superseded" \notin {a1.how, a2.how}
             PROVE  a1.offset < a2.offset
  BY DEF SequencesInOrder
<1>1. Idempotent(a2.batch)
  BY DEF SameEpoch, Idempotent
<1>2. <<a1.batch, a1.offset>> \in Kept /\ <<a2.batch, a2.offset>> \in Kept
  BY <1>1 DEF Inv, SafeAnswers
<1> QED BY <1>2 DEF Inv, KeptInOrder

\* The batches of one epoch of a producer are acknowledged in the order of their sequences,
\* whatever the watermark forgets, but for the copies that the next epoch superseded while
\* they were being stored, which are acknowledged without a check of their sequence (check_idempotent_sequence before the offset is taken,
\* advance_idempotent_sequence after it).
THEOREM AlwaysSequencesInOrder == Spec => []SequencesInOrder
BY InvSequencesInOrder, ProduceInvariant, PTL

\* The acknowledged batches of a producer are in the log in the order of its epochs as long
\* as the watermark has not dropped its epoch, for any number of producers, and within an
\* epoch in that of their sequences, but for superseded copies (fence_producer_epoch,
\* record_producer_epoch).
THEOREM AlwaysInOrder == Spec => []InOrder
<1>1. Inv /\ EpochsInOrder => InOrder
  <2> SUFFICES ASSUME Inv, EpochsInOrder, NEW a1 \in answers, NEW a2 \in answers,
                      Idempotent(a1.batch), a1.batch.producer = a2.batch.producer,
                      \/ /\ a1.batch.epoch < a2.batch.epoch
                         /\ a1.batch.producer \notin forgotten
                      \/ /\ a1.batch.epoch = a2.batch.epoch
                         /\ a1.batch.sequence < a2.batch.sequence
                         /\ "superseded" \notin {a1.how, a2.how}
               PROVE  a1.offset < a2.offset
    BY DEF InOrder
  <2>1. CASE a1.batch.epoch < a2.batch.epoch /\ a1.batch.producer \notin forgotten
    <3>1. Idempotent(a2.batch)
      BY DEF Idempotent
    <3>2. <<a1.batch, a1.offset>> \in Taken /\ <<a2.batch, a2.offset>> \in Taken
      BY <3>1, TakenAnswer
    <3> QED BY <2>1, <3>2 DEF EpochsInOrder
  <2>2. CASE /\ a1.batch.epoch = a2.batch.epoch /\ a1.batch.sequence < a2.batch.sequence
             /\ "superseded" \notin {a1.how, a2.how}
    BY <2>2, InvSequencesInOrder DEF SequencesInOrder, SameEpoch
  <2> QED BY <2>1, <2>2
<1>2. Inv /\ EpochsInOrder /\ [Next]_vars => EpochsInOrder'
  BY NextEpochs
<1> QED BY <1>1, <1>2, InitEpochs, ProduceInvariant, PTL DEF Spec

(***************************************************************************)
(* Loops.                                                                  *)
(***************************************************************************)
\* What holds at 0 and from each number to the next holds: the set of the numbers at
\* which it does not hold has no least element.
LEMMA Induction ==
  ASSUME NEW end \in Nat, NEW S, 0 \in S, \A n \in 1 .. end : n - 1 \in S => n \in S
  PROVE  0 .. end \subseteq S
<1> SUFFICES ASSUME ~ (0 .. end \subseteq S) PROVE FALSE
  OBVIOUS
<1> DEFINE T == (0 .. end) \ S
<1>1. T \in SUBSET Nat /\ T # {}
  OBVIOUS
<1>2. PICK n \in T : \A m \in T : n <= m
  BY <1>1, MinInSet
<1>3. n \in 1 .. end /\ n - 1 \in 0 .. end /\ ~ (n <= n - 1)
  BY <1>2
<1>4. n - 1 \in S
  BY <1>2, <1>3
<1> QED BY <1>3, <1>4

\* The end of a loop over offsets.
EndOf(offsets) == Max({0} \cup {o + 1 : o \in offsets})

LEMMA EndOK ==
  ASSUME NEW offsets, offsets \subseteq Nat, NEW high \in Nat, \A o \in offsets : o < high
  PROVE  EndOf(offsets) \in 0 .. high /\ \A o \in offsets : o < EndOf(offsets)
<1> DEFINE ends == {0} \cup {o + 1 : o \in offsets}
<1>1. ends \in SUBSET Nat /\ ends # {} /\ \A x \in ends : x <= high
  OBVIOUS
<1>2. \A o \in offsets : o + 1 \in ends /\ o \in Nat
  OBVIOUS
<1>3. Bounded(ends)
  BY <1>1 DEF Bounded
<1> HIDE DEF ends
<1>4. Max(ends) \in ends /\ \A x \in ends : x <= Max(ends)
  BY <1>1, <1>3, MaxInSet
<1>5. PICK m : m = Max(ends)
  OBVIOUS
<1>6. m \in Nat /\ m <= high
  BY <1>1, <1>4, <1>5
<1>7. ASSUME NEW o \in offsets PROVE o < m
  <2>1. o + 1 <= m /\ o \in Nat
    BY <1>2, <1>4, <1>5
  <2> QED BY <1>6, <2>1
<1> QED BY <1>5, <1>6, <1>7 DEF EndOf, ends

\* The function that Ascending is the last value of.
Taking(prev, n, offsets) == IF n - 1 \in offsets THEN Append(prev, n - 1) ELSE prev

IsTaking(f, k, offsets) ==
    f = [n \in 0 .. k |-> IF n = 0 THEN <<>> ELSE Taking(f[n - 1], n, offsets)]

LEMMA AscendingIsLoop ==
  ASSUME NEW offsets, EndOf(offsets) \in Nat
  PROVE  \E f : IsTaking(f, EndOf(offsets), offsets) /\ Ascending(offsets) = f[EndOf(offsets)]
<1>1. PICK end \in Nat : end = EndOf(offsets)
  OBVIOUS
<1> DEFINE S == {k \in 0 .. end : \E f : IsTaking(f, k, offsets)}
<1>2. 0 \in S
  <2>1. IsTaking([n \in 0 .. 0 |-> <<>>], 0, offsets)
    BY DEF IsTaking
  <2> QED BY <2>1
<1>3. ASSUME NEW k \in 1 .. end, k - 1 \in S PROVE k \in S
  <2>1. PICK f : IsTaking(f, k - 1, offsets)
    BY <1>3
  <2>2. PICK g : g = [n \in 0 .. k |-> IF n = k THEN Taking(f[k - 1], k, offsets) ELSE f[n]]
    OBVIOUS
  <2>3. ASSUME NEW n \in 0 .. k
        PROVE  g[n] = IF n = 0 THEN <<>> ELSE Taking(g[n - 1], n, offsets)
    <3>1. CASE n = 0
      <4>1. f[0] = <<>> /\ 0 \in 0 .. k /\ k # 0
        BY <2>1 DEF IsTaking
      <4> QED BY <2>2, <3>1, <4>1
    <3>2. CASE n # 0
      <4>1. n - 1 \in 0 .. k /\ n - 1 # k
        BY <3>2
      <4>2. g[n - 1] = f[n - 1]
        BY <2>2, <4>1
      <4>3. CASE n = k
        BY <2>2, <3>2, <4>2, <4>3
      <4>4. CASE n # k
        <5>1. n \in 0 .. k - 1
          BY <4>4
        <5>2. f[n] = Taking(f[n - 1], n, offsets)
          BY <2>1, <3>2, <5>1 DEF IsTaking
        <5> QED BY <2>2, <3>2, <4>2, <4>4, <5>2
      <4> QED BY <4>3, <4>4
    <3> QED BY <3>1, <3>2
  <2>4. IsTaking(g, k, offsets)
    BY <2>2, <2>3 DEF IsTaking
  <2>5. k \in 0 .. end
    OBVIOUS
  <2> QED BY <2>4, <2>5
<1>4. 0 .. end \subseteq S
  <2>1. \A n \in 1 .. end : n - 1 \in S => n \in S
    BY <1>3
  <2> HIDE DEF S
  <2> QED BY <1>2, <2>1, Induction
<1>5. end \in S
  <2> HIDE DEF S
  <2> QED BY <1>4
<1>6. PICK f : IsTaking(f, end, offsets)
  BY <1>5
<1>7. \E h : IsTaking(h, end, offsets) /\ Ascending(offsets) = h[end]
  BY <1>1, <1>6 DEF Ascending, FoldOffsets, IsTaking, Taking, EndOf
<1> QED BY <1>1, <1>7

\* A sequence of all the offsets, in ascending order.
IsAscending(a, offsets) ==
    /\ a \in Seq(offsets)
    /\ \A i, j \in 1 .. Len(a) : i < j => a[i] < a[j]
    /\ \A o \in offsets : \E i \in 1 .. Len(a) : a[i] = o

Below(offsets, n) == {o \in offsets : o < n}

LEMMA AscendingOK ==
  ASSUME NEW offsets, offsets \subseteq Nat, NEW high \in Nat, \A o \in offsets : o < high
  PROVE  IsAscending(Ascending(offsets), offsets)
<1>1. PICK end \in Nat : end = EndOf(offsets) /\ \A o \in offsets : o < end
  <2>1. EndOf(offsets) \in 0 .. high /\ \A o \in offsets : o < EndOf(offsets)
    BY EndOK
  <2>2. EndOf(offsets) \in Nat
    BY <2>1
  <2> QED BY <2>1, <2>2
<1>2. PICK f : IsTaking(f, end, offsets) /\ Ascending(offsets) = f[end]
  BY <1>1, AscendingIsLoop
<1> DEFINE S == {n \in 0 .. end : IsAscending(f[n], Below(offsets, n))}
<1>3. 0 \in S
  <2>1. 0 \in 0 .. end /\ f[0] = <<>>
    BY <1>2 DEF IsTaking
  <2>2. ASSUME NEW o \in Below(offsets, 0) PROVE FALSE
    <3>1. o \in Nat /\ o < 0
      BY <2>2 DEF Below
    <3> QED BY <3>1
  <2>3. <<>> \in Seq(Below(offsets, 0)) /\ Len(<<>>) = 0
    OBVIOUS
  <2>4. IsAscending(<<>>, Below(offsets, 0))
    BY <2>2, <2>3 DEF IsAscending
  <2> QED BY <2>1, <2>4
<1>4. ASSUME NEW n \in 1 .. end, n - 1 \in S PROVE n \in S
  <2>1. f[n] = Taking(f[n - 1], n, offsets)
    BY <1>2 DEF IsTaking
  <2>2. PICK a : a = f[n - 1]
    OBVIOUS
  <2>3. IsAscending(a, Below(offsets, n - 1))
    BY <1>4, <2>2
  <2>4. /\ a \in Seq(offsets) /\ a \in Seq(Below(offsets, n - 1)) /\ Len(a) \in Nat
        /\ \A i \in 1 .. Len(a) : a[i] \in offsets /\ a[i] \in Nat /\ a[i] < n - 1
    <3>1. a \in Seq(Below(offsets, n - 1))
      BY <2>3 DEF IsAscending
    <3>2. Len(a) \in Nat /\ \A i \in 1 .. Len(a) : a[i] \in Below(offsets, n - 1)
      BY <3>1, ElementOfSeq, LenProperties
    <3>3. \A i \in 1 .. Len(a) : a[i] \in offsets /\ a[i] \in Nat /\ a[i] < n - 1
      BY <3>2 DEF Below
    <3>4. a \in Seq(offsets)
      BY <3>1, <3>2, <3>3
    <3> QED BY <3>1, <3>2, <3>3, <3>4
  <2>5. CASE n - 1 \notin offsets
    <3>1. Below(offsets, n) = Below(offsets, n - 1)
      <4>1. \A o \in offsets : o \in Nat /\ o # n - 1
        BY <2>5
      <4>2. \A o \in offsets : o < n <=> o < n - 1
        BY <4>1
      <4> QED BY <4>2 DEF Below
    <3>2. f[n] = a
      BY <2>1, <2>2, <2>5 DEF Taking
    <3>3. IsAscending(f[n], Below(offsets, n))
      BY <2>3, <3>1, <3>2
    <3> QED BY <3>3
  <2>6. CASE n - 1 \in offsets
    <3>1. PICK b : b = Append(a, n - 1)
      OBVIOUS
    <3>2. /\ Len(b) = Len(a) + 1 /\ b[Len(b)] = n - 1
          /\ \A i \in 1 .. Len(a) : b[i] = a[i]
      BY <2>4, <2>6, <3>1
    <3>3. \A i \in 1 .. Len(b) : b[i] \in Below(offsets, n)
      BY <2>4, <2>6, <3>2 DEF Below
    <3>4. b \in Seq(Below(offsets, n))
      <4>1. b \in Seq(offsets)
        BY <2>4, <2>6, <3>1
      <4> QED BY <3>3, <4>1
    <3>5. ASSUME NEW i \in 1 .. Len(b), NEW j \in 1 .. Len(b), i < j PROVE b[i] < b[j]
      <4>1. i \in 1 .. Len(a) /\ b[i] = a[i]
        BY <2>4, <3>2, <3>5
      <4>2. CASE j = Len(b)
        BY <2>4, <3>2, <4>1, <4>2
      <4>3. CASE j # Len(b)
        <5>1. j \in 1 .. Len(a) /\ b[j] = a[j]
          BY <2>4, <3>2, <4>3
        <5> QED BY <2>3, <3>5, <4>1, <5>1 DEF IsAscending
      <4> QED BY <4>2, <4>3
    <3>6. ASSUME NEW o \in Below(offsets, n) PROVE \E i \in 1 .. Len(b) : b[i] = o
      <4>1. CASE o = n - 1
        <5>1. Len(b) \in 1 .. Len(b)
          BY <2>4, <3>2
        <5> QED BY <3>2, <4>1, <5>1
      <4>2. CASE o # n - 1
        <5>1. o \in Below(offsets, n - 1)
          BY <4>2 DEF Below
        <5>2. PICK i \in 1 .. Len(a) : a[i] = o
          BY <2>3, <5>1 DEF IsAscending
        <5>3. i \in 1 .. Len(b) /\ b[i] = o
          BY <2>4, <3>2, <5>2
        <5> QED BY <5>3
      <4> QED BY <4>1, <4>2
    <3>7. IsAscending(b, Below(offsets, n))
      BY <3>4, <3>5, <3>6 DEF IsAscending
    <3>8. f[n] = b
      BY <2>1, <2>2, <2>6, <3>1 DEF Taking
    <3> QED BY <3>7, <3>8
  <2> QED BY <2>5, <2>6
<1>5. 0 .. end \subseteq S
  <2>1. \A n \in 1 .. end : n - 1 \in S => n \in S
    BY <1>4
  <2> HIDE DEF S
  <2> QED BY <1>3, <2>1, Induction
<1>6. end \in S
  <2> HIDE DEF S
  <2> QED BY <1>5
<1>7. Below(offsets, end) = offsets
  BY <1>1 DEF Below
<1> QED BY <1>2, <1>6, <1>7


(***************************************************************************)
(* The listings of a fetch.                                                *)
(***************************************************************************)
LEMMA SeqOfMore ==
  ASSUME NEW S, NEW T, S \subseteq T, NEW s \in Seq(S)
  PROVE  s \in Seq(T)
<1>1. /\ Len(s) \in Nat /\ s \in [1 .. Len(s) -> S]
  BY LenProperties
<1>2. s = [i \in 1 .. Len(s) |-> s[i]] /\ \A i \in 1 .. Len(s) : s[i] \in T
  BY <1>1
<1>3. [i \in 1 .. Len(s) |-> s[i]] \in Seq(T)
  BY <1>1, <1>2, IsASeq
<1> QED BY <1>2, <1>3

LEMMA StreamOK ==
  ASSUME NEW S, NEW order \in Seq(S), NEW start
  PROVE  batch_stream(order, start) \in Seq(S)
<1> DEFINE I == {i \in DOMAIN order : order[i] >= start}
<1>1. Len(order) \in Nat /\ DOMAIN order = 1 .. Len(order) /\ \A i \in 1 .. Len(order) : order[i] \in S
  BY ElementOfSeq, LenProperties
<1>2. I \subseteq Nat /\ \A i \in I : i < Len(order) + 1 /\ order[i] \in S
  BY <1>1
<1>3. PICK places : places = Ascending(I)
  OBVIOUS
<1>4. IsAscending(places, I)
  <2>1. Len(order) + 1 \in Nat
    BY <1>1
  <2> HIDE DEF I
  <2> QED BY <1>2, <1>3, <2>1, AscendingOK
<1>5. /\ Len(places) \in Nat /\ DOMAIN places = 1 .. Len(places)
      /\ \A j \in 1 .. Len(places) : places[j] \in I
  <2>1. places \in Seq(I)
    BY <1>4 DEF IsAscending
  <2> HIDE DEF I
  <2> QED BY <2>1, ElementOfSeq, LenProperties
<1>6. \A j \in 1 .. Len(places) : order[places[j]] \in S
  BY <1>2, <1>5
<1>7. [j \in 1 .. Len(places) |-> order[places[j]]] \in Seq(S)
  BY <1>5, <1>6, IsASeq
<1> QED BY <1>3, <1>5, <1>7 DEF batch_stream

\* However the store orders them, the keys of a listing are a sequence of those listed.
LEMMA OrdersOK ==
  ASSUME NEW listed, listed \subseteq Nat, NEW high \in Nat, \A o \in listed : o < high,
         NEW order \in Orders(listed)
  PROVE  order \in Seq(listed)
<1>1. PICK keys : keys = Ascending(listed)
  OBVIOUS
<1>2. keys \in Seq(listed)
  BY <1>1, AscendingOK DEF IsAscending
<1>3. Len(keys) \in Nat /\ DOMAIN keys = 1 .. Len(keys) /\ \A i \in 1 .. Len(keys) : keys[i] \in listed
  BY <1>2, ElementOfSeq, LenProperties
<1>4. CASE ListsInOrder
  BY <1>1, <1>2, <1>4 DEF Orders
<1>5. CASE ~ ListsInOrder
  <2>1. order \in [1 .. Len(keys) -> listed]
    BY <1>1, <1>3, <1>5 DEF Orders, Bijection, Injection
  <2>2. order = [i \in 1 .. Len(keys) |-> order[i]] /\ \A i \in 1 .. Len(keys) : order[i] \in listed
    BY <2>1
  <2> QED BY <1>3, <2>2, IsASeq
<1> QED BY <1>4, <1>5

\* A listing that a fetch takes begins at or below the offset.
LEMMA HoldingOK ==
  ASSUME NEW S, S \subseteq Nat, NEW order \in Seq(S), NEW offset \in Nat,
         NEW L, L = batch_stream_holding(order, offset)
  PROVE  L \in Seq(S) /\ (L # NoListing => Len(L) > 0 /\ L[1] <= offset)
<1> DEFINE Begins(stream) == stream # <<>> /\ stream[1] <= offset
           found == {s \in Starts(offset) : Begins(batch_stream(order, s))}
           listing == batch_stream(order, Max(found))
           past == {i \in 1 .. Len(listing) : listing[i] > offset} \cup {Len(listing) + 1}
           after == Min(past)
           descends == \E i \in 2 .. after - 1 : listing[i] <= listing[i - 1]
<1>1. L = IF found = {} \/ descends THEN NoListing ELSE SubSeq(listing, after - 1, Len(listing))
  BY DEF batch_stream_holding
<1>2. CASE found = {} \/ descends
  <2>1. L = NoListing
    BY <1>1, <1>2
  <2>2. NoListing \in Seq(S)
    BY EmptySeq DEF NoListing
  <2> QED BY <2>1, <2>2
<1>3. CASE ~ (found = {} \/ descends)
  <2>1. Starts(offset) \in SUBSET Nat /\ \A s \in Starts(offset) : s <= offset
    BY DEF Starts
  <2>2. found \in SUBSET Nat /\ found # {} /\ Bounded(found)
    BY <1>3, <2>1 DEF Bounded
  <2>3. Begins(batch_stream(order, Max(found)))
    <3>1. Max(found) \in found
      <4> HIDE DEF found
      <4> QED BY <2>2, MaxInSet
    <3> QED BY <3>1
  <2>4. PICK l : l = listing
    OBVIOUS
  <2>5. l \in Seq(S) /\ l # <<>> /\ l[1] <= offset
    BY <2>3, <2>4, StreamOK
  <2>6. Len(l) \in Nat /\ Len(l) > 0 /\ \A i \in 1 .. Len(l) : l[i] \in S /\ l[i] \in Nat
    <3>1. Len(l) \in Nat \ {0}
      BY <2>5, EmptySeq
    <3>2. \A i \in 1 .. Len(l) : l[i] \in S
      BY <2>5, ElementOfSeq
    <3>3. \A i \in 1 .. Len(l) : l[i] \in Nat
      BY <3>2, Zenon
    <3>4. Len(l) \in Nat /\ Len(l) > 0
      BY <3>1
    <3> QED BY <3>2, <3>3, <3>4
  <2>7. PICK ends : ends = {i \in 1 .. Len(l) : l[i] > offset} \cup {Len(l) + 1}
    OBVIOUS
  <2>8. ends \in SUBSET Nat /\ ends # {} /\ 1 \notin ends /\ 0 \notin ends
        /\ \A i \in ends : i <= Len(l) + 1
    BY <2>5, <2>6, <2>7
  <2>9. PICK a : a = Min(ends)
    OBVIOUS
  <2>10. a \in ends /\ \A i \in ends : a <= i
    BY <2>8, <2>9, MinInSet
  <2>11. a \in Nat /\ a >= 2 /\ a <= Len(l) + 1 /\ a - 1 \notin ends
    BY <2>6, <2>8, <2>10
  <2>12. a - 1 \in 1 .. Len(l) /\ l[a - 1] <= offset
    BY <2>6, <2>7, <2>11
  <2>13. L = SubSeq(l, a - 1, Len(l))
    BY <1>1, <1>3, <2>4, <2>7, <2>9
  <2>14. /\ L \in Seq(S) /\ Len(L) > 0 /\ L[1] = l[a - 1]
    BY <2>5, <2>6, <2>12, <2>13, SubSeqProperties
  <2> QED BY <2>12, <2>14
<1> QED BY <1>2, <1>3


(***************************************************************************)
(* Reading a listing.                                                      *)
(***************************************************************************)
\* A log in which every batch has offsets of its own.
IsLog(rs) ==
    /\ DOMAIN rs \subseteq Nat
    /\ \A o \in DOMAIN rs : rs[o].count \in Nat /\ rs[o].count > 0
    /\ \A o, p \in DOMAIN rs : o # p => Apart(o, rs[o], p, rs[p])

IsBounds(bounds) ==
    bounds.offset \in Nat /\ bounds.high \in Nat /\ bounds.max_bytes \in Nat

IsRead(r, rs) ==
    /\ r = [batches |-> r.batches, next |-> r.next, left |-> r.left, ended |-> r.ended,
            contiguous |-> r.contiguous]
    /\ r.batches \in Seq(DOMAIN rs)
    /\ r.next \in Int /\ r.left \in Int
    /\ r.ended \in BOOLEAN /\ r.contiguous \in BOOLEAN

\* What one more batch makes of what was read: nothing, after the end; the end; nothing but
\* that the next may start anywhere; or the batch is read.
ReadsOne(r, q, o, rs, bounds, requires) ==
    \/ r.ended /\ q = r
    \/ q.ended /\ q.batches = r.batches /\ q.next = r.next
    \/ ~ r.ended /\ o \notin DOMAIN rs /\ q.batches = r.batches
    \/ /\ ~ r.ended /\ o \in DOMAIN rs
       /\ requires => r.next = -1 \/ r.next = o
       /\ o < bounds.high
       /\ q.next = o + rs[o].count
       /\ q.batches = IF o + rs[o].count <= bounds.offset THEN r.batches ELSE Append(r.batches, o)

LEMMA ReadBatchIs ==
  ASSUME NEW rs, IsLog(rs), NEW r, IsRead(r, rs), NEW bounds, IsBounds(bounds), NEW o \in Nat,
         NEW requires \in BOOLEAN, NEW q, q = read_fetched_batch(r, o, rs, bounds, requires)
  PROVE  IsRead(q, rs) /\ ReadsOne(r, q, o, rs, bounds, requires)
<1>1. CASE r.ended
  BY <1>1 DEF read_fetched_batch, ReadsOne
<1>2. PICK batches, next, left, ended, contiguous :
        /\ r = [batches |-> batches, next |-> next, left |-> left, ended |-> ended,
                contiguous |-> contiguous]
        /\ batches = r.batches /\ next = r.next /\ left = r.left /\ ended = r.ended
        /\ contiguous = r.contiguous
  BY DEF IsRead
<1>3. batches \in Seq(DOMAIN rs) /\ next \in Int /\ left \in Int /\ ended \in BOOLEAN
      /\ contiguous \in BOOLEAN
  BY <1>2 DEF IsRead
<1>4. CASE ~ r.ended /\ requires /\ next # -1 /\ o # next
  <2>1. q = [r EXCEPT !.ended = TRUE, !.contiguous = FALSE]
    BY <1>2, <1>4 DEF read_fetched_batch
  <2>2. /\ q = [batches |-> batches, next |-> next, left |-> left, ended |-> q.ended,
                contiguous |-> q.contiguous]
        /\ q.ended = TRUE /\ q.contiguous = FALSE
    BY <1>2, <2>1
  <2>3. q.batches = batches /\ q.next = next /\ q.left = left
    BY <2>2
  <2>4. IsRead(q, rs)
    BY <1>3, <2>2, <2>3 DEF IsRead
  <2> QED BY <1>2, <2>2, <2>3, <2>4 DEF ReadsOne
<1>5. CASE ~ r.ended /\ ~ (requires /\ next # -1 /\ o # next) /\ o >= bounds.high
  <2>1. q = [r EXCEPT !.ended = TRUE]
    BY <1>2, <1>5 DEF read_fetched_batch
  <2>2. /\ q = [batches |-> batches, next |-> next, left |-> left, ended |-> q.ended,
                contiguous |-> contiguous]
        /\ q.ended = TRUE
    BY <1>2, <2>1
  <2>3. q.batches = batches /\ q.next = next /\ q.left = left /\ q.contiguous = contiguous
    BY <2>2
  <2>4. IsRead(q, rs)
    BY <1>3, <2>2, <2>3 DEF IsRead
  <2> QED BY <1>2, <2>2, <2>3, <2>4 DEF ReadsOne
<1>6. CASE ~ r.ended /\ ~ (requires /\ next # -1 /\ o # next) /\ ~ (o >= bounds.high)
           /\ o \notin DOMAIN rs
  <2>1. q = [r EXCEPT !.next = -1]
    BY <1>2, <1>6 DEF read_fetched_batch
  <2>2. q = [batches |-> batches, next |-> -1, left |-> left, ended |-> ended,
             contiguous |-> contiguous]
    BY <1>2, <2>1
  <2> QED BY <1>2, <1>3, <1>6, <2>2 DEF IsRead, ReadsOne
<1>7. CASE ~ r.ended /\ ~ (requires /\ next # -1 /\ o # next) /\ ~ (o >= bounds.high)
           /\ o \in DOMAIN rs
  <2>1. PICK end \in Nat : end = o + rs[o].count
    BY <1>7 DEF IsLog
  <2>2. o < bounds.high /\ (requires => next = -1 \/ next = o)
    BY <1>7 DEF IsBounds
  <2>3. CASE end <= bounds.offset
    <3>1. q = [r EXCEPT !.next = end]
      BY <1>2, <1>7, <2>1, <2>3 DEF read_fetched_batch
    <3>2. q = [batches |-> batches, next |-> end, left |-> left, ended |-> ended,
               contiguous |-> contiguous]
      BY <1>2, <3>1
    <3> QED BY <1>2, <1>3, <1>7, <2>1, <2>2, <2>3, <3>2 DEF IsRead, ReadsOne
  <2>4. CASE ~ (end <= bounds.offset)
    <3>1. PICK more : more = Append(batches, o)
      OBVIOUS
    <3>2. more \in Seq(DOMAIN rs)
      BY <1>3, <1>7, <3>1
    <3>3. PICK rest, over : rest = left - rs[o].count /\ over = (rs[o].count > left)
      OBVIOUS
    <3>4. rest \in Int /\ over \in BOOLEAN
      BY <1>3, <1>7, <3>3 DEF IsLog
    <3>5. q = [r EXCEPT !.batches = more, !.next = end, !.left = rest, !.ended = over]
      BY <1>2, <1>7, <2>1, <2>4, <3>1, <3>3 DEF read_fetched_batch
    <3>6. q = [batches |-> more, next |-> end, left |-> rest, ended |-> over,
               contiguous |-> contiguous]
      BY <1>2, <3>5
    <3>7. IsRead(q, rs)
      BY <1>3, <3>2, <3>4, <3>6 DEF IsRead
    <3> QED BY <1>2, <1>7, <2>1, <2>2, <2>4, <3>1, <3>6, <3>7 DEF ReadsOne
  <2> QED BY <2>3, <2>4
<1> QED BY <1>1, <1>4, <1>5, <1>6, <1>7


\* What was read so far is all there is after the offset, up to where the last batch ends.
Covered(r, rs, offset) ==
    /\ \A o \in DOMAIN rs :
        o + rs[o].count > offset /\ o < r.next => \E i \in 1 .. Len(r.batches) : r.batches[i] = o
    /\ r.batches # <<>> =>
        /\ r.next = r.batches[Len(r.batches)] + rs[r.batches[Len(r.batches)]].count
        /\ r.next > offset

LEMMA CoveredStep ==
  ASSUME NEW rs, IsLog(rs), NEW r, IsRead(r, rs), NEW q, NEW o \in DOMAIN rs, NEW bounds,
         IsBounds(bounds), NEW requires, ReadsOne(r, q, o, rs, bounds, requires),
         Covered(r, rs, bounds.offset),
         ~ r.ended /\ (requires => r.next = -1 \/ r.next = o) /\ o < bounds.high =>
            /\ r.next <= o
            /\ \A p \in DOMAIN rs : p + rs[p].count > bounds.offset /\ p < o => p < r.next
  PROVE  Covered(q, rs, bounds.offset)
<1>1. CASE (r.ended /\ q = r) \/ (q.batches = r.batches /\ q.next = r.next)
  BY <1>1 DEF Covered
<1>2. CASE /\ ~ r.ended /\ (requires => r.next = -1 \/ r.next = o) /\ o < bounds.high
           /\ q.next = o + rs[o].count
           /\ q.batches = IF o + rs[o].count <= bounds.offset THEN r.batches
                          ELSE Append(r.batches, o)
  <2>1. /\ o \in Nat /\ rs[o].count \in Nat /\ rs[o].count > 0 /\ bounds.offset \in Nat
        /\ r.next <= o /\ r.next \in Int
    BY <1>2 DEF IsLog, IsBounds, IsRead
  <2>2. PICK b, end : b = r.batches /\ end = o + rs[o].count
    OBVIOUS
  <2>3. b \in Seq(DOMAIN rs) /\ Len(b) \in Nat
    BY <2>2, LenProperties DEF IsRead
  <2>4. ASSUME NEW p \in DOMAIN rs, p # o, p + rs[p].count > bounds.offset, p < end
        PROVE  \E i \in 1 .. Len(b) : b[i] = p
    <3>1. p \in Nat /\ rs[p].count \in Nat /\ Apart(p, rs[p], o, rs[o])
      BY <2>4 DEF IsLog
    <3>2. p < o
      <4>1. p + rs[p].count <= o \/ end <= p
        BY <2>2, <3>1 DEF Apart
      <4>2. rs[p].count > 0
        BY DEF IsLog
      <4> QED BY <2>1, <2>2, <2>4, <3>1, <4>1, <4>2
    <3>3. p < r.next
      BY <1>2, <2>4, <3>2
    <3> QED BY <2>2, <2>4, <3>3 DEF Covered
  <2>5. CASE end <= bounds.offset
    <3>1. q.batches = b /\ q.next = end
      BY <1>2, <2>2, <2>5
    <3>2. b = <<>>
      <4> SUFFICES ASSUME b # <<>> PROVE FALSE
        OBVIOUS
      <4>1. r.next > bounds.offset
        BY <2>2 DEF Covered
      <4> QED BY <2>1, <2>2, <2>5, <4>1
    <3>3. ASSUME NEW p \in DOMAIN rs, p + rs[p].count > bounds.offset, p < end PROVE FALSE
      <4>1. p # o
        BY <2>1, <2>2, <2>5, <3>3
      <4>2. PICK i \in 1 .. Len(b) : b[i] = p
        BY <2>4, <3>3, <4>1
      <4> QED BY <3>2, <4>2
    <3> QED BY <3>1, <3>2, <3>3 DEF Covered
  <2>6. CASE ~ (end <= bounds.offset)
    <3>1. PICK d : d = Append(b, o)
      OBVIOUS
    <3>2. q.batches = d /\ q.next = end
      BY <1>2, <2>2, <2>6, <3>1
    <3>3. Len(d) = Len(b) + 1 /\ d[Len(d)] = o /\ \A i \in 1 .. Len(b) : d[i] = b[i]
      BY <2>3, <3>1
    <3>4. ASSUME NEW p \in DOMAIN rs, p + rs[p].count > bounds.offset, p < end
          PROVE  \E i \in 1 .. Len(d) : d[i] = p
      <4>1. CASE p = o
        <5>1. Len(d) \in 1 .. Len(d)
          BY <2>3, <3>3
        <5> QED BY <3>3, <4>1, <5>1
      <4>2. CASE p # o
        <5>1. PICK i \in 1 .. Len(b) : b[i] = p
          BY <2>4, <3>4, <4>2
        <5>2. i \in 1 .. Len(d) /\ d[i] = p
          BY <2>3, <3>3, <5>1
        <5> QED BY <5>2
      <4> QED BY <4>1, <4>2
    <3>5. end > bounds.offset /\ end = o + rs[o].count
      BY <2>1, <2>2, <2>6
    <3> QED BY <3>2, <3>3, <3>4, <3>5 DEF Covered
  <2> QED BY <2>5, <2>6
<1>3. QED
  BY <1>1, <1>2 DEF ReadsOne

\* The function that read_fetched_batches is the last value of.
IsReading(f, k, listing, rs, bounds, requires) ==
    f = [n \in 0 .. k |-> IF n = 0 THEN NothingRead(bounds.max_bytes)
                          ELSE read_fetched_batch(f[n - 1], listing[n], rs, bounds, requires)]

LEMMA ReadIsLoop ==
  ASSUME NEW rs, NEW bounds, NEW listing, Len(listing) \in Nat, NEW requires
  PROVE  \E f : /\ IsReading(f, Len(listing), listing, rs, bounds, requires)
                /\ read_fetched_batches(rs, bounds, listing, requires) = f[Len(listing)]
<1>1. PICK end \in Nat : end = Len(listing)
  OBVIOUS
<1> DEFINE Reading(f, k) == IsReading(f, k, listing, rs, bounds, requires)
           One(r, n) == read_fetched_batch(r, listing[n], rs, bounds, requires)
           S == {k \in 0 .. end : \E f : Reading(f, k)}
<1>2. 0 \in S
  <2>1. Reading([n \in 0 .. 0 |-> NothingRead(bounds.max_bytes)], 0)
    BY DEF IsReading
  <2> QED BY <2>1
<1>3. ASSUME NEW k \in 1 .. end, k - 1 \in S PROVE k \in S
  <2>1. PICK f : Reading(f, k - 1)
    BY <1>3
  <2>2. PICK g : g = [n \in 0 .. k |-> IF n = k THEN One(f[k - 1], k) ELSE f[n]]
    OBVIOUS
  <2>3. ASSUME NEW n \in 0 .. k
        PROVE  g[n] = IF n = 0 THEN NothingRead(bounds.max_bytes) ELSE One(g[n - 1], n)
    <3>1. CASE n = 0
      <4>1. f[0] = NothingRead(bounds.max_bytes) /\ 0 \in 0 .. k /\ k # 0
        BY <2>1 DEF IsReading
      <4> QED BY <2>2, <3>1, <4>1
    <3>2. CASE n # 0
      <4>1. n - 1 \in 0 .. k /\ n - 1 # k
        BY <3>2
      <4>2. g[n - 1] = f[n - 1]
        BY <2>2, <4>1
      <4>3. CASE n = k
        BY <2>2, <3>2, <4>2, <4>3
      <4>4. CASE n # k
        <5>1. n \in 0 .. k - 1
          BY <4>4
        <5>2. f[n] = One(f[n - 1], n)
          BY <2>1, <3>2, <5>1 DEF IsReading
        <5> QED BY <2>2, <3>2, <4>2, <4>4, <5>2
      <4> QED BY <4>3, <4>4
    <3> QED BY <3>1, <3>2
  <2>4. Reading(g, k)
    BY <2>2, <2>3 DEF IsReading
  <2>5. k \in 0 .. end
    OBVIOUS
  <2> QED BY <2>4, <2>5
<1>4. 0 .. end \subseteq S
  <2>1. \A n \in 1 .. end : n - 1 \in S => n \in S
    BY <1>3
  <2> HIDE DEF S
  <2> QED BY <1>2, <2>1, Induction
<1>5. end \in S
  <2> HIDE DEF S
  <2> QED BY <1>4
<1>6. PICK f : Reading(f, end)
  BY <1>5
<1>7. \E h : Reading(h, end) /\ read_fetched_batches(rs, bounds, listing, requires) = h[end]
  BY <1>1, <1>6 DEF read_fetched_batches, IsReading
<1> QED BY <1>1, <1>7

\* The states of reading a listing.
IsReads(f, listing, rs, bounds, requires) ==
    /\ f[0] = NothingRead(bounds.max_bytes)
    /\ \A n \in 0 .. Len(listing) : IsRead(f[n], rs)
    /\ \A n \in 1 .. Len(listing) : ReadsOne(f[n - 1], f[n], listing[n], rs, bounds, requires)

LEMMA ReadIsReads ==
  ASSUME NEW rs, IsLog(rs), NEW bounds, IsBounds(bounds), NEW listing \in Seq(Nat),
         NEW requires \in BOOLEAN
  PROVE  \E f : /\ IsReads(f, listing, rs, bounds, requires)
                /\ read_fetched_batches(rs, bounds, listing, requires) = f[Len(listing)]
<1>1. PICK end \in Nat : end = Len(listing)
  BY LenProperties
<1>2. PICK f : /\ IsReading(f, end, listing, rs, bounds, requires)
               /\ read_fetched_batches(rs, bounds, listing, requires) = f[end]
  BY <1>1, ReadIsLoop
<1>3. /\ f[0] = NothingRead(bounds.max_bytes)
      /\ \A n \in 1 .. end : f[n] = read_fetched_batch(f[n - 1], listing[n], rs, bounds, requires)
  BY <1>2 DEF IsReading
<1>4. \A n \in 1 .. end : listing[n] \in Nat
  BY <1>1, ElementOfSeq
<1> DEFINE S == {n \in 0 .. end : IsRead(f[n], rs)}
<1>5. 0 \in S
  <2>1. PICK r : r = NothingRead(bounds.max_bytes)
    OBVIOUS
  <2>2. /\ r.batches = <<>> /\ r.next = -1 /\ r.left = bounds.max_bytes
        /\ r.ended = FALSE /\ r.contiguous = TRUE
        /\ r = [batches |-> r.batches, next |-> r.next, left |-> r.left, ended |-> r.ended,
                contiguous |-> r.contiguous]
    BY <2>1 DEF NothingRead
  <2>3. r.batches \in Seq(DOMAIN rs) /\ r.next \in Int /\ r.left \in Int
    BY <2>2, EmptySeq DEF IsBounds
  <2>4. r.ended \in BOOLEAN /\ r.contiguous \in BOOLEAN
    BY <2>2
  <2>5. IsRead(r, rs)
    BY <2>2, <2>3, <2>4 DEF IsRead
  <2> QED BY <1>3, <2>1, <2>5
<1>6. ASSUME NEW n \in 1 .. end, IsRead(f[n - 1], rs)
      PROVE  IsRead(f[n], rs) /\ ReadsOne(f[n - 1], f[n], listing[n], rs, bounds, requires)
  BY <1>3, <1>4, <1>6, ReadBatchIs
<1>7. 0 .. end \subseteq S
  <2>1. \A n \in 1 .. end : n - 1 \in S => n \in S
    BY <1>6
  <2> HIDE DEF S
  <2> QED BY <1>5, <2>1, Induction
<1>8. \A n \in 0 .. end : IsRead(f[n], rs)
  BY <1>7
<1>9. \A n \in 1 .. end : ReadsOne(f[n - 1], f[n], listing[n], rs, bounds, requires)
  <2>1. \A n \in 1 .. end : n - 1 \in 0 .. end
    OBVIOUS
  <2> QED BY <1>6, <1>8, <2>1
<1>10. IsReads(f, listing, rs, bounds, requires)
  BY <1>1, <1>3, <1>8, <1>9 DEF IsReads
<1> QED BY <1>1, <1>2, <1>10


\* Between a batch that is read and the one before it in the listing there is none that
\* the fetch wants, and before the first there is none at all.
EndOfBatch(o, rs) == o + rs[o].count

InTurn(n, listing, rs, bounds, requires) ==
    (requires /\ n > 1 => listing[n] = EndOfBatch(listing[n - 1], rs))
      /\ listing[n] < bounds.high =>
        /\ n > 1 => EndOfBatch(listing[n - 1], rs) <= listing[n]
        /\ \A p \in DOMAIN rs : p + rs[p].count > bounds.offset /\ p < listing[n] =>
                n > 1 /\ p < EndOfBatch(listing[n - 1], rs)

\* Where the next batch is expected.
Expected(n, listing, rs) == IF n = 0 THEN -1 ELSE EndOfBatch(listing[n], rs)

LEMMA ReadsAll ==
  ASSUME NEW rs, IsLog(rs), NEW bounds, IsBounds(bounds), NEW listing \in Seq(DOMAIN rs),
         NEW requires \in BOOLEAN, NEW f, IsReads(f, listing, rs, bounds, requires),
         \A n \in 1 .. Len(listing) : InTurn(n, listing, rs, bounds, requires)
  PROVE  Covered(f[Len(listing)], rs, bounds.offset)
<1>1. PICK end \in Nat : end = Len(listing)
  BY LenProperties
<1>2. \A n \in 1 .. end : /\ listing[n] \in DOMAIN rs /\ listing[n] \in Nat
                          /\ EndOfBatch(listing[n], rs) \in Nat
  <2>1. \A n \in 1 .. end : listing[n] \in DOMAIN rs
    BY <1>1, ElementOfSeq
  <2> QED BY <2>1 DEF IsLog, EndOfBatch
<1> DEFINE Fine(n) == /\ Covered(f[n], rs, bounds.offset)
                      /\ ~ f[n].ended => f[n].next = Expected(n, listing, rs)
           S == {n \in 0 .. end : Fine(n)}
<1>3. 0 \in S
  <2>1. f[0].batches = <<>> /\ f[0].next = -1
    BY DEF IsReads, NothingRead
  <2>2. Covered(f[0], rs, bounds.offset)
    BY <2>1 DEF Covered, IsLog
  <2> QED BY <2>1, <2>2 DEF Expected
<1>4. ASSUME NEW n \in 1 .. end, n - 1 \in S PROVE n \in S
  <2>1. PICK r, q, o : r = f[n - 1] /\ q = f[n] /\ o = listing[n]
    OBVIOUS
  <2>2. ReadsOne(r, q, o, rs, bounds, requires) /\ IsRead(r, rs) /\ o \in DOMAIN rs /\ o \in Nat
    <3>1. n - 1 \in 0 .. end
      OBVIOUS
    <3> QED BY <1>1, <1>2, <2>1, <3>1 DEF IsReads
  <2>3. Covered(r, rs, bounds.offset) /\ (~ r.ended => r.next = Expected(n - 1, listing, rs))
    BY <1>4, <2>1
  <2>4. InTurn(n, listing, rs, bounds, requires)
    BY <1>1
  <2>5. ASSUME ~ r.ended, requires => r.next = -1 \/ r.next = o, o < bounds.high
        PROVE  /\ r.next <= o
               /\ \A p \in DOMAIN rs : p + rs[p].count > bounds.offset /\ p < o => p < r.next
    <3>1. CASE n = 1
      <4>1. r.next = -1
        BY <2>3, <2>5, <3>1 DEF Expected
      <4>2. \A p \in DOMAIN rs : ~ (p + rs[p].count > bounds.offset /\ p < o)
        BY <2>1, <2>4, <2>5, <3>1 DEF InTurn
      <4> QED BY <2>2, <4>1, <4>2
    <3>2. CASE n # 1
      <4>1. n > 1 /\ n - 1 \in 1 .. end /\ n - 1 # 0
        BY <3>2
      <4>2. PICK e \in Nat : e = EndOfBatch(listing[n - 1], rs)
        BY <1>2, <4>1
      <4>3. r.next = e
        BY <2>3, <2>5, <4>1, <4>2 DEF Expected
      <4>4. requires => o = e
        BY <2>5, <4>3
      <4> QED BY <2>1, <2>4, <2>5, <4>1, <4>2, <4>3, <4>4 DEF InTurn
    <3> QED BY <3>1, <3>2
  <2>6. Covered(q, rs, bounds.offset)
    BY <2>2, <2>3, <2>5, CoveredStep
  <2>7. ASSUME ~ q.ended PROVE q.next = Expected(n, listing, rs)
    <3>1. q.next = o + rs[o].count
      BY <2>2, <2>7 DEF ReadsOne
    <3> QED BY <2>1, <3>1 DEF Expected, EndOfBatch
  <2> QED BY <2>1, <2>6, <2>7
<1>5. 0 .. end \subseteq S
  <2>1. \A n \in 1 .. end : n - 1 \in S => n \in S
    BY <1>4
  <2> HIDE DEF S
  <2> QED BY <1>3, <2>1, Induction
<1>6. end \in S
  <2> HIDE DEF S
  <2> QED BY <1>5
<1> QED BY <1>1, <1>6

\* A listing that begins at or below the offset and is contiguous as far as it is read.
LEMMA ContiguousInTurn ==
  ASSUME NEW rs, IsLog(rs), NEW bounds, IsBounds(bounds), NEW listing \in Seq(DOMAIN rs),
         Len(listing) > 0, listing[1] <= bounds.offset, NEW requires, requires,
         NEW n \in 1 .. Len(listing)
  PROVE  InTurn(n, listing, rs, bounds, requires)
<1>1. Len(listing) \in Nat /\ \A i \in 1 .. Len(listing) : listing[i] \in DOMAIN rs
  BY LenProperties, ElementOfSeq
<1>2. CASE n = 1
  <2>1. PICK o \in DOMAIN rs : o = listing[1]
    BY <1>1, <1>2
  <2>2. ASSUME NEW p \in DOMAIN rs, p + rs[p].count > bounds.offset, p < o PROVE FALSE
    <3>1. /\ o \in Nat /\ p \in Nat /\ rs[o].count \in Nat /\ rs[p].count \in Nat
          /\ bounds.offset \in Nat /\ rs[o].count > 0
      BY DEF IsLog, IsBounds
    <3>2. p + rs[p].count <= o \/ o + rs[o].count <= p
      BY <2>2, <3>1 DEF IsLog, Apart
    <3> QED BY <2>1, <2>2, <3>1, <3>2
  <2> QED BY <1>2, <2>1, <2>2 DEF InTurn
<1>3. CASE n # 1
  <2>1. n > 1 /\ n - 1 \in 1 .. Len(listing)
    BY <1>1, <1>3
  <2>2. PICK o \in DOMAIN rs : o = listing[n]
    BY <1>1
  <2>3. o \in Nat
    BY DEF IsLog
  <2> QED BY <2>1, <2>2, <2>3 DEF InTurn
<1> QED BY <1>2, <1>3

\* A sorted listing of all batches from one on that leaves out none that is wanted.
LEMMA AscendingInTurn ==
  ASSUME NEW rs, IsLog(rs), NEW bounds, IsBounds(bounds), NEW S, S \subseteq DOMAIN rs,
         NEW listing, IsAscending(listing, S),
         \A p \in DOMAIN rs : p + rs[p].count > bounds.offset /\ p < bounds.high => p \in S,
         NEW requires, NEW n \in 1 .. Len(listing)
  PROVE  InTurn(n, listing, rs, bounds, requires)
<1>1. Len(listing) \in Nat /\ \A i \in 1 .. Len(listing) : listing[i] \in DOMAIN rs /\ listing[i] \in Nat
  <2>1. listing \in Seq(S)
    BY DEF IsAscending
  <2>2. Len(listing) \in Nat /\ \A i \in 1 .. Len(listing) : listing[i] \in S
    BY <2>1, LenProperties, ElementOfSeq
  <2> QED BY <2>2 DEF IsLog
<1> SUFFICES ASSUME listing[n] < bounds.high
             PROVE  /\ n > 1 => EndOfBatch(listing[n - 1], rs) <= listing[n]
                    /\ \A p \in DOMAIN rs : p + rs[p].count > bounds.offset /\ p < listing[n] =>
                        n > 1 /\ p < EndOfBatch(listing[n - 1], rs)
  BY DEF InTurn
<1>2. PICK o \in DOMAIN rs : o = listing[n] /\ o \in Nat
  BY <1>1
<1>3. rs[o].count \in Nat /\ rs[o].count > 0 /\ bounds.high \in Nat
  BY DEF IsLog, IsBounds
<1>4. ASSUME n > 1 PROVE EndOfBatch(listing[n - 1], rs) <= listing[n]
  <2>1. n - 1 \in 1 .. Len(listing) /\ n - 1 < n
    BY <1>1, <1>4
  <2>2. PICK e \in DOMAIN rs : e = listing[n - 1] /\ e \in Nat
    BY <1>1, <2>1
  <2>3. e < o
    BY <1>2, <2>1, <2>2 DEF IsAscending
  <2>4. rs[e].count \in Nat /\ (e + rs[e].count <= o \/ o + rs[o].count <= e)
    BY <1>2, <2>2, <2>3 DEF IsLog, Apart
  <2> QED BY <1>2, <1>3, <2>2, <2>3, <2>4 DEF EndOfBatch
<1>5. ASSUME NEW p \in DOMAIN rs, p + rs[p].count > bounds.offset, p < listing[n]
      PROVE  n > 1 /\ p < EndOfBatch(listing[n - 1], rs)
  <2>1. p \in Nat /\ p < bounds.high
    <3>1. p \in Nat
      BY DEF IsLog
    <3> QED BY <1>2, <1>3, <1>5, <3>1
  <2>2. p \in S
    BY <1>5, <2>1
  <2>3. PICK i \in 1 .. Len(listing) : listing[i] = p
    BY <2>2 DEF IsAscending
  <2>4. i < n
    <3>1. i # n
      BY <1>2, <1>5, <2>1, <2>3
    <3>2. ~ (n < i)
      <4> SUFFICES ASSUME n < i PROVE FALSE
        OBVIOUS
      <4>1. listing[n] < listing[i]
        BY DEF IsAscending
      <4> QED BY <1>2, <1>5, <2>1, <2>3, <4>1
    <3> QED BY <1>1, <3>1, <3>2
  <2>5. n > 1 /\ n - 1 \in 1 .. Len(listing) /\ i <= n - 1
    BY <1>1, <2>3, <2>4
  <2>6. PICK e \in DOMAIN rs : e = listing[n - 1] /\ e \in Nat
    BY <1>1, <2>5
  <2>7. p <= e
    <3>1. CASE i = n - 1
      BY <2>1, <2>3, <2>6, <3>1
    <3>2. CASE i # n - 1
      <4>1. i < n - 1
        BY <1>1, <2>3, <2>5, <3>2
      <4>2. listing[i] < listing[n - 1]
        BY <2>3, <2>5, <4>1 DEF IsAscending
      <4> QED BY <2>1, <2>3, <2>6, <4>2
    <3> QED BY <3>1, <3>2
  <2>8. rs[e].count \in Nat /\ rs[e].count > 0
    BY DEF IsLog
  <2> QED BY <2>1, <2>5, <2>6, <2>7, <2>8 DEF EndOfBatch
<1> QED BY <1>4, <1>5


\* The batches of an answer are all there are after the offset, up to where its last ends.
IsAnswer(answer, rs, offset) ==
    \E r : IsRead(r, rs) /\ Covered(r, rs, offset) /\ answer = r.batches

LEMMA FullListingOK ==
  ASSUME NEW rs, IsLog(rs), NEW bounds, IsBounds(bounds)
  PROVE  IsAnswer(fetch_from_full_listing(rs, bounds), rs, bounds.offset)
<1> DEFINE below == {o \in DOMAIN rs : o < bounds.high}
           at_most == {o \in below : o <= bounds.offset}
<1>1. PICK holding : holding = IF at_most = {} THEN bounds.offset ELSE Max(at_most)
  OBVIOUS
<1>2. bounds.offset \in Nat /\ bounds.high \in Nat /\ \A o \in DOMAIN rs : o \in Nat
  BY DEF IsBounds, IsLog
<1>3. holding \in Nat /\ holding <= bounds.offset /\ \A o \in at_most : o <= holding
      /\ (at_most # {} => holding \in at_most)
  <2>1. CASE at_most = {}
    BY <1>1, <1>2, <2>1
  <2>2. CASE at_most # {}
    <3>1. at_most \in SUBSET Nat /\ Bounded(at_most) /\ \A o \in at_most : o <= bounds.offset
      BY <1>2 DEF Bounded
    <3>2. Max(at_most) \in at_most /\ \A o \in at_most : o <= Max(at_most)
      <4> HIDE DEF at_most
      <4> QED BY <2>2, <3>1, MaxInSet
    <3>3. holding = Max(at_most)
      BY <1>1, <2>2
    <3> QED BY <3>1, <3>2, <3>3
  <2> QED BY <2>1, <2>2
<1>4. ASSUME NEW p \in DOMAIN rs, p + rs[p].count > bounds.offset, p < bounds.high
      PROVE  p >= holding
  <2> SUFFICES ASSUME p < holding PROVE FALSE
    BY <1>2, <1>3
  <2>1. p \in at_most
    BY <1>2, <1>3, <1>4
  <2>2. holding \in DOMAIN rs
    BY <1>3, <2>1
  <2>3. /\ p \in Nat /\ rs[p].count \in Nat /\ rs[holding].count \in Nat /\ rs[holding].count > 0
        /\ p + rs[p].count <= holding \/ holding + rs[holding].count <= p
    BY <1>2, <1>3, <2>2 DEF IsLog, Apart
  <2> QED BY <1>2, <1>3, <1>4, <2>3
<1>5. PICK S : S = {o \in below : o >= holding}
  OBVIOUS
<1>6. /\ S \subseteq DOMAIN rs /\ S \subseteq Nat /\ \A o \in S : o < bounds.high
      /\ \A p \in DOMAIN rs : p + rs[p].count > bounds.offset /\ p < bounds.high => p \in S
  BY <1>2, <1>4, <1>5
<1>7. PICK listing : listing = Ascending(S)
  OBVIOUS
<1>8. IsAscending(listing, S)
  BY <1>2, <1>6, <1>7, AscendingOK
<1>9. listing \in Seq(Nat) /\ listing \in Seq(DOMAIN rs) /\ Len(listing) \in Nat
  <2>1. listing \in Seq(S)
    BY <1>8 DEF IsAscending
  <2> QED BY <1>6, <2>1, SeqOfMore, LenProperties
<1>10. PICK no \in BOOLEAN : no = FALSE
  OBVIOUS
<1>11. PICK f : /\ IsReads(f, listing, rs, bounds, no)
                /\ read_fetched_batches(rs, bounds, listing, no) = f[Len(listing)]
  BY <1>9, ReadIsReads
<1>12. \A n \in 1 .. Len(listing) : InTurn(n, listing, rs, bounds, no)
  BY <1>6, <1>8, AscendingInTurn
<1>13. PICK r : r = f[Len(listing)]
  OBVIOUS
<1>14. IsRead(r, rs) /\ Covered(r, rs, bounds.offset)
  <2>1. Len(listing) \in 0 .. Len(listing)
    BY <1>9
  <2>2. IsRead(r, rs)
    BY <1>11, <1>13, <2>1 DEF IsReads
  <2>3. Covered(r, rs, bounds.offset)
    BY <1>9, <1>11, <1>12, <1>13, ReadsAll
  <2> QED BY <2>2, <2>3
<1>15. fetch_from_full_listing(rs, bounds) = r.batches
  <2>1. fetch_from_full_listing(rs, bounds) = read_fetched_batches(rs, bounds, listing, FALSE).batches
    BY <1>1, <1>5, <1>7 DEF fetch_from_full_listing
  <2>2. read_fetched_batches(rs, bounds, listing, FALSE) = r
    BY <1>10, <1>11, <1>13, Zenon
  <2> QED BY <2>1, <2>2
<1> QED BY <1>14, <1>15 DEF IsAnswer

\* What a fetch answers, from a listing of whatever age, is in the log; if all that is listed
\* still is, the answer leaves out nothing.
LEMMA FetchOK ==
  ASSUME NEW rs, IsLog(rs), NEW bounds, IsBounds(bounds), NEW listed, listed \subseteq Nat,
         NEW order \in Seq(listed), NEW answer, answer = fetch(rs, bounds, order)
  PROVE  /\ answer \in Seq(DOMAIN rs)
         /\ listed \subseteq DOMAIN rs => IsAnswer(answer, rs, bounds.offset)
<1>1. PICK full : full = fetch_from_full_listing(rs, bounds)
  OBVIOUS
<1>2. IsAnswer(full, rs, bounds.offset)
  BY <1>1, FullListingOK
<1>3. full \in Seq(DOMAIN rs)
  BY <1>2 DEF IsAnswer, IsRead
<1>4. PICK listing : listing = batch_stream_holding(order, bounds.offset)
  OBVIOUS
<1>5. listing \in Seq(listed) /\ (listing # NoListing => Len(listing) > 0 /\ listing[1] <= bounds.offset)
  <2>1. bounds.offset \in Nat
    BY DEF IsBounds
  <2> QED BY <1>4, <2>1, HoldingOK
<1>6. Len(listing) \in Nat /\ \A i \in 1 .. Len(listing) : listing[i] \in listed
  BY <1>5, LenProperties, ElementOfSeq
<1>7. listing \in Seq(Nat)
  BY <1>5, SeqOfMore
<1>8. PICK yes \in BOOLEAN : yes = TRUE
  OBVIOUS
<1>9. PICK f : /\ IsReads(f, listing, rs, bounds, yes)
               /\ read_fetched_batches(rs, bounds, listing, yes) = f[Len(listing)]
  BY <1>7, ReadIsReads
<1>10. PICK r : r = f[Len(listing)]
  OBVIOUS
<1>11. IsRead(r, rs)
  <2>1. Len(listing) \in 0 .. Len(listing)
    BY <1>6
  <2> QED BY <1>9, <1>10, <2>1 DEF IsReads
<1>12. read_fetched_batches(rs, bounds, listing, TRUE) = r
  BY <1>8, <1>9, <1>10, Zenon
<1>13. answer = IF listing # NoListing /\ r.contiguous THEN r.batches ELSE full
  BY <1>1, <1>4, <1>12 DEF fetch
<1>14. CASE ~ (listing # NoListing /\ r.contiguous)
  <2>1. answer = full
    BY <1>13, <1>14
  <2> QED BY <1>2, <1>3, <2>1
<1>15. CASE listing # NoListing /\ r.contiguous
  <2>1. answer = r.batches
    BY <1>13, <1>15
  <2>2. answer \in Seq(DOMAIN rs)
    BY <1>11, <2>1 DEF IsRead
  <2>3. ASSUME listed \subseteq DOMAIN rs PROVE IsAnswer(answer, rs, bounds.offset)
    <3>1. listing \in Seq(DOMAIN rs)
      BY <1>5, <2>3, SeqOfMore
    <3>2. \A n \in 1 .. Len(listing) : InTurn(n, listing, rs, bounds, yes)
      BY <1>5, <1>8, <1>15, <3>1, ContiguousInTurn
    <3>3. Covered(r, rs, bounds.offset)
      BY <1>9, <1>10, <3>1, <3>2, ReadsAll
    <3> QED BY <1>11, <2>1, <3>3 DEF IsAnswer
  <2> QED BY <2>2, <2>3
<1> QED BY <1>14, <1>15


(***************************************************************************)
(* The consumer.                                                           *)
(***************************************************************************)
\* The offsets that stored batches have and that requests are to put batches at, with the
\* number of records.
Held ==
    {<<o, records[o].count>> : o \in DOMAIN records}
        \cup {<<requests[c].offset, requests[c].batch.count>> : c \in {c \in Slots : At(c, "put")}}

\* The position of the consumer is inside no batch that is in the log or may get there.
ConsumerOK ==
    /\ consumer = [stage |-> consumer.stage, position |-> consumer.position,
                   high |-> consumer.high, listed |-> consumer.listed]
    /\ consumer.position \in Nat /\ consumer.position <= watermark.high
    /\ consumer.high \in Nat
    /\ consumer.listed \subseteq Nat
    /\ \A o \in consumer.listed : o < watermark.high
    /\ \A k \in Held : k[1] >= consumer.position \/ k[1] + k[2] <= consumer.position

LEMMA InitConsumer == Init => ConsumerOK
<1> SUFFICES ASSUME Init PROVE ConsumerOK
  OBVIOUS
<1>1. DOMAIN records = {} /\ \A c \in Slots : ~ At(c, "put")
  BY DEF Init, EmptyMap, At
<1>2. Held = {}
  BY <1>1 DEF Held
<1>3. consumer = [stage |-> "idle", position |-> 0, high |-> 0, listed |-> {}] /\ watermark.high = 0
  BY DEF Init
<1> QED BY <1>2, <1>3 DEF ConsumerOK

\* A request that is to put a batch was already to, or takes the next offset.
LEMMA PutsStep ==
  ASSUME Inv, [Next]_vars, NEW d \in Slots, At(d, "put")'
  PROVE  (At(d, "put") /\ requests'[d] = requests[d]) \/ requests'[d].offset = watermark.high
<1>1. requests \in [Slots -> Request \cup {None}]
  BY DEF Inv, Types
<1>2. requests'[d] # None /\ requests'[d].stage = "put"
  BY DEF At
<1>3. CASE requests'[d] = requests[d]
  BY <1>2, <1>3 DEF At
<1>4. ASSUME NEW c \in Slots, NEW b \in Batches, Send(c, b) PROVE requests'[d] = requests[d]
  <2>1. c = d => requests'[d].stage \in {"check", "offset"}
    BY <1>1, <1>4 DEF Send
  <2>2. c # d
    BY <1>2, <2>1
  <2> QED BY <1>1, <1>4, <2>2 DEF Send
<1>5. ASSUME NEW c \in Slots, End(c) PROVE requests'[d] = requests[d]
  BY <1>1, <1>2, <1>5 DEF End
<1>6. ASSUME NEW c \in Slots, NEW stage, Goto(c, stage), stage # "put", requests[c] # None
      PROVE  requests'[d] = requests[d]
  <2>1. c = d => requests'[d].stage = stage
    BY <1>1, <1>6 DEF Goto, Request
  <2>2. c # d
    BY <1>2, <1>6, <2>1
  <2> QED BY <1>1, <1>6, <2>2 DEF Goto
<1>7. ASSUME NEW c \in Slots, TakeOffset(c)
      PROVE  requests'[d] = requests[d] \/ requests'[d].offset = watermark.high
  <2>1. CASE End(c)
    BY <1>5, <2>1
  <2>2. CASE requests' = [requests EXCEPT ![c] = [@ EXCEPT !.stage = "put", !.offset = watermark.high]]
    <3>1. requests[c] \in Request
      BY <1>1, <1>7 DEF TakeOffset, At
    <3>2. c = d => requests'[d].offset = watermark.high
      BY <1>1, <2>2, <3>1 DEF Request
    <3>3. c # d => requests'[d] = requests[d]
      BY <1>1, <2>2
    <3> QED BY <3>2, <3>3
  <2> QED BY <1>7, <2>1, <2>2 DEF TakeOffset
<1>8. ASSUME NEW c \in Slots, RetakeOffset(c) PROVE requests'[d] = requests[d]
  <2>1. requests[c] \in Request
    BY <1>1, <1>8 DEF RetakeOffset, At
  <2>2. c = d => requests'[d].stage = "offset"
    BY <1>1, <1>8, <2>1 DEF RetakeOffset, Request
  <2>3. c # d
    BY <1>2, <2>2
  <2> QED BY <1>1, <1>8, <2>3 DEF RetakeOffset
<1>9. ASSUME NEW c \in Slots, Check(c) PROVE requests'[d] = requests[d]
  <2>1. requests[c] # None /\ (Goto(c, "offset") \/ End(c))
    BY <1>9 DEF Check, At
  <2> QED BY <1>5, <1>6, <2>1
<1>10. ASSUME NEW c \in Slots, PutBatch(c) PROVE requests'[d] = requests[d]
  <2>1. requests[c] # None /\ (Goto(c, "advance") \/ End(c))
    BY <1>10 DEF PutBatch, At
  <2> QED BY <1>5, <1>6, <2>1
<1>11. ASSUME NEW c \in Slots, Advance(c) \/ Fail(c) PROVE requests'[d] = requests[d]
  BY <1>5, <1>11 DEF Advance, Fail
<1>12. CASE requests' = requests
  BY <1>3, <1>12
<1>13. CASE \/ InitProducer \/ (\E requested \in 0 .. watermark.high : DeleteRecords(requested))
            \/ Sweep \/ Consume \/ (\E c \in Slots : AdvanceUnheard(c)) \/ UNCHANGED vars
  <2>1. requests' = requests
    BY <1>13 DEF InitProducer, DeleteRecords, Sweep, ListExpired, DeleteExpired, KeepExpired, EndSweep,
                 Consume, StartFetch, ListBatches, ReadBatches, AdvanceUnheard, vars, sending
  <2> QED BY <1>12, <2>1
<1> QED BY <1>3, <1>4, <1>7, <1>8, <1>9, <1>10, <1>11, <1>13 DEF Next, Step

\* A stored batch was already stored, or a request was to put it there.
LEMMA RecordsStep ==
  ASSUME Inv, [Next]_vars, NEW o \in DOMAIN records'
  PROVE  \/ o \in DOMAIN records /\ records'[o] = records[o]
         \/ \E c \in Slots : At(c, "put") /\ o = requests[c].offset /\ records'[o] = requests[c].batch
<1>1. CASE records' = records
  BY <1>1
<1>2. ASSUME NEW c \in Slots, PutBatch(c), records' = Put(records, requests[c].offset, requests[c].batch)
      PROVE  \/ o \in DOMAIN records /\ records'[o] = records[o]
             \/ At(c, "put") /\ o = requests[c].offset /\ records'[o] = requests[c].batch
  BY <1>2 DEF PutBatch, Put
<1>3. ASSUME NEW p, DeleteExpired(p) PROVE o \in DOMAIN records /\ records'[o] = records[o]
  BY <1>3 DEF DeleteExpired, Drop, Restrict
<1>4. ASSUME NEW c \in Slots, PutBatch(c)
      PROVE  records' = records \/ records' = Put(records, requests[c].offset, requests[c].batch)
  BY <1>4 DEF PutBatch
<1>5. ASSUME NEW c \in Slots, \/ \E b \in Batches : Send(c, b)
                              \/ Check(c) \/ TakeOffset(c) \/ Advance(c)
                              \/ Fail(c) \/ RetakeOffset(c) \/ AdvanceUnheard(c)
      PROVE  records' = records
  BY <1>5 DEF Send, Check, TakeOffset, Advance, Fail, RetakeOffset, AdvanceUnheard
<1>6. CASE \/ InitProducer \/ (\E requested \in 0 .. watermark.high : DeleteRecords(requested))
           \/ ListExpired \/ (\E p \in sweep.expired : KeepExpired(p)) \/ EndSweep
           \/ Consume \/ UNCHANGED vars
  <2>1. records' = records
    BY <1>6 DEF InitProducer, DeleteRecords, ListExpired, KeepExpired, EndSweep, Consume,
                StartFetch, ListBatches, ReadBatches, vars
  <2> QED BY <1>1, <2>1
<1> QED BY <1>1, <1>2, <1>3, <1>4, <1>5, <1>6 DEF Next, Step, Sweep

LEMMA HeldStep ==
  ASSUME Inv, [Next]_vars, NEW k \in Held'
  PROVE  k \in Held \/ k[1] = watermark.high
<1>1. CASE \E o \in DOMAIN records' : k = <<o, records'[o].count>>
  <2>1. PICK o \in DOMAIN records' : k = <<o, records'[o].count>>
    BY <1>1
  <2> QED BY <2>1, RecordsStep DEF Held
<1>2. CASE \E d \in Slots : At(d, "put")' /\ k = <<requests'[d].offset, requests'[d].batch.count>>
  <2>1. PICK d \in Slots : At(d, "put")' /\ k = <<requests'[d].offset, requests'[d].batch.count>>
    BY <1>2
  <2> QED BY <2>1, PutsStep DEF Held
<1> QED BY <1>1, <1>2 DEF Held


LEMMA HighStep ==
  ASSUME Inv, [Next]_vars
  PROVE  watermark.high \in Nat /\ watermark'.high \in Nat /\ watermark'.high >= watermark.high
<1>1. watermark.high \in Nat
  BY DEF Inv, Types
<1>2. CASE watermark' = watermark
  BY <1>1, <1>2
<1>3. ASSUME NEW c \in Slots, TakeOffset(c), watermark' # watermark
      PROVE  watermark'.high \in Nat /\ watermark'.high >= watermark.high
  <2>1. requests[c].batch \in Batches
    BY <1>3 DEF TakeOffset, At, Inv, Types, Request
  <2>2. PICK n : n = requests[c].batch.count
    OBVIOUS
  <2>3. n \in Nat
    BY <2>1, <2>2, BatchType
  <2>4. watermark'.high = watermark.high + n
    BY <1>3, <2>2 DEF TakeOffset, Inv, Types
  <2> QED BY <1>1, <2>3, <2>4
<1>4. ASSUME NEW requested \in 0 .. watermark.high, DeleteRecords(requested)
      PROVE  watermark'.high = watermark.high
  BY <1>4 DEF DeleteRecords, Inv, Types
<1>5. ASSUME NEW c \in Slots, \/ \E b \in Batches : Send(c, b)
                              \/ Check(c) \/ PutBatch(c) \/ Advance(c)
                              \/ Fail(c) \/ RetakeOffset(c) \/ AdvanceUnheard(c)
      PROVE  watermark' = watermark
  BY <1>5 DEF Send, Check, PutBatch, Advance, Fail, RetakeOffset, AdvanceUnheard
<1>6. CASE InitProducer \/ Sweep \/ Consume \/ UNCHANGED vars
  <2>1. watermark' = watermark
    BY <1>6 DEF InitProducer, Sweep, ListExpired, DeleteExpired, KeepExpired, EndSweep, Consume,
                StartFetch, ListBatches, ReadBatches, vars
  <2> QED BY <1>1, <2>1
<1> QED BY <1>1, <1>2, <1>3, <1>4, <1>5, <1>6 DEF Next, Step

LEMMA LogIsLog ==
  ASSUME Inv
  PROVE  IsLog(records)
<1>1. \A o \in DOMAIN records : records[o] \in Batches
  BY DEF Inv, Types
<1>2. \A o \in DOMAIN records : records[o].count \in Nat /\ records[o].count > 0
  BY <1>1, BatchType
<1> QED BY <1>2 DEF Inv, Types, OwnOffsets, IsLog

\* What a fetch makes of the consumer.
Goes(answer) ==
    /\ fetched' = fetched \cup Range(answer)
    /\ consumer' = [stage |-> "idle", high |-> 0, listed |-> {},
                    position |-> IF answer = <<>> THEN consumer.position
                                 ELSE answer[Len(answer)] + records[answer[Len(answer)]].count]

LEMMA ReadBatchesIs ==
  ASSUME Inv, ConsumerOK, ReadBatches
  PROVE  \E answer \in Seq(DOMAIN records) :
            /\ Goes(answer)
            /\ consumer.listed \subseteq DOMAIN records =>
                IsAnswer(answer, records, consumer.position)
<1>1. PICK answer \in FetchAnswers :
        LET last == answer[Len(answer)]
        IN  /\ fetched' = fetched \cup Range(answer)
            /\ consumer' = [consumer EXCEPT
                    !.stage = "idle", !.high = 0, !.listed = {},
                    !.position = IF answer = <<>> THEN @ ELSE last + records[last].count]
  BY DEF ReadBatches
<1>2. PICK order \in Orders(consumer.listed), max_bytes \in FetchSizes :
        answer = fetch(records, [offset |-> consumer.position, high |-> consumer.high,
                                 max_bytes |-> max_bytes], order)
  BY <1>1 DEF FetchAnswers
<1>3. PICK bounds : bounds = [offset |-> consumer.position, high |-> consumer.high,
                              max_bytes |-> max_bytes]
  OBVIOUS
<1>4. IsBounds(bounds) /\ bounds.offset = consumer.position
  BY <1>3, ProduceAssumption DEF IsBounds, ConsumerOK
<1>5. PICK listed : listed = consumer.listed
  OBVIOUS
<1>6. listed \subseteq Nat /\ watermark.high \in Nat /\ \A o \in listed : o < watermark.high
  BY <1>5 DEF ConsumerOK, Inv, Types
<1>7. order \in Seq(listed)
  BY <1>5, <1>6, <1>2, OrdersOK
<1>8. /\ answer \in Seq(DOMAIN records)
      /\ listed \subseteq DOMAIN records => IsAnswer(answer, records, bounds.offset)
  BY <1>3, <1>4, <1>6, <1>7, <1>2, LogIsLog, FetchOK
<1>9. PICK next : next = IF answer = <<>> THEN consumer.position
                         ELSE answer[Len(answer)] + records[answer[Len(answer)]].count
  OBVIOUS
<1>10. fetched' = fetched \cup Range(answer)
  BY <1>1
<1>11. consumer' = [consumer EXCEPT !.stage = "idle", !.high = 0, !.listed = {}, !.position = next]
  BY <1>1, <1>9
<1>12. consumer' = [stage |-> "idle", high |-> 0, listed |-> {}, position |-> next]
  BY <1>11 DEF ConsumerOK
<1>13. Goes(answer)
  BY <1>9, <1>10, <1>12 DEF Goes
<1> QED BY <1>4, <1>5, <1>8, <1>13

\* The position after a fetch, if it answers anything, is where a stored batch ends.
LEMMA GoesTo ==
  ASSUME Inv, ConsumerOK, NEW answer \in Seq(DOMAIN records), Goes(answer)
  PROVE  \/ answer = <<>> /\ consumer'.position = consumer.position
         \/ /\ answer # <<>>
            /\ \E o \in DOMAIN records :
                /\ o = answer[Len(answer)]
                /\ consumer'.position = o + records[o].count
<1>1. CASE answer = <<>>
  BY <1>1 DEF Goes
<1>2. CASE answer # <<>>
  <2>1. Len(answer) \in 1 .. Len(answer)
    <3>1. Len(answer) \in Nat \ {0}
      BY <1>2, EmptySeq
    <3> QED BY <3>1
  <2>2. answer[Len(answer)] \in DOMAIN records
    BY <2>1, ElementOfSeq
  <2> QED BY <1>2, <2>2 DEF Goes
<1> QED BY <1>1, <1>2

LEMMA ReadBatchesConsumer ==
  ASSUME Inv, ConsumerOK, ReadBatches
  PROVE  ConsumerOK'
<1>1. UNCHANGED <<watermark, records, requests>>
  BY DEF ReadBatches, sending
<1>2. PICK answer \in Seq(DOMAIN records) : Goes(answer)
  BY ReadBatchesIs
<1>3. PICK p : p = consumer'.position
  OBVIOUS
<1>4. consumer' = [stage |-> "idle", position |-> p, high |-> 0, listed |-> {}]
  BY <1>2, <1>3 DEF Goes
<1>5. Held' = Held /\ watermark'.high = watermark.high
  BY <1>1 DEF Held, At
<1>6. p \in Nat /\ p <= watermark.high /\ \A k \in Held : k[1] >= p \/ k[1] + k[2] <= p
  <2>1. CASE p = consumer.position
    BY <2>1 DEF ConsumerOK
  <2>2. CASE \E o \in DOMAIN records : p = o + records[o].count
    <3>1. PICK o \in DOMAIN records : p = o + records[o].count
      BY <2>2
    <3>2. /\ o \in Nat /\ records[o].count \in Nat /\ records[o].count > 0
          /\ o + records[o].count <= watermark.high
      BY LogIsLog DEF IsLog, Inv, OwnOffsets
    <3>3. ASSUME NEW e \in DOMAIN records PROVE e >= p \/ e + records[e].count <= p
      <4>1. CASE e = o
        BY <3>1, <3>2, <4>1
      <4>2. CASE e # o
        <5>1. e \in Nat /\ records[e].count \in Nat /\ Apart(e, records[e], o, records[o])
          BY <4>2, LogIsLog DEF IsLog
        <5> QED BY <3>1, <3>2, <5>1 DEF Apart
      <4> QED BY <4>1, <4>2
    <3>4. ASSUME NEW c \in Slots, At(c, "put")
          PROVE  requests[c].offset >= p \/ requests[c].offset + requests[c].batch.count <= p
      <4>1. requests[c].batch \in Batches
        BY <3>4 DEF Inv, Types, At, Request
      <4>2. requests[c].offset \in Nat /\ Apart(requests[c].offset, requests[c].batch, o, records[o])
        BY <3>4 DEF Inv, OwnOffsets
      <4>3. PICK e \in Nat, n \in Nat : e = requests[c].offset /\ n = requests[c].batch.count
        <5>1. requests[c].batch.count \in Nat
          BY <4>1, BatchType
        <5> QED BY <4>2, <5>1
      <4>4. e + n <= o \/ p <= e
        <5>1. \/ requests[c].offset + requests[c].batch.count <= o
              \/ o + records[o].count <= requests[c].offset
          BY <4>2, Zenon DEF Apart
        <5> QED BY <3>1, <4>3, <5>1, Zenon
      <4>5. p \in Nat /\ o \in Nat /\ o <= p
        BY <3>1, <3>2
      <4>6. e >= p \/ e + n <= p
        BY <4>3, <4>4, <4>5
      <4> QED BY <4>3, <4>6
    <3>5. p \in Nat /\ p <= watermark.high
      BY <3>1, <3>2
    <3> QED BY <3>3, <3>4, <3>5 DEF Held
  <2> QED BY <1>2, <1>3, <2>1, <2>2, GoesTo
<1> QED BY <1>4, <1>5, <1>6 DEF ConsumerOK


LEMMA NextConsumer ==
  ASSUME Inv, ConsumerOK, [Next]_vars
  PROVE  ConsumerOK'
<1>1. watermark.high \in Nat /\ watermark'.high \in Nat /\ watermark'.high >= watermark.high
  BY HighStep
<1>2. ASSUME consumer' = [stage |-> consumer'.stage, position |-> consumer.position,
                          high |-> consumer'.high, listed |-> consumer'.listed],
             consumer'.high \in Nat, consumer'.listed \subseteq Nat,
             \A o \in consumer'.listed : o < watermark.high
      PROVE  ConsumerOK'
  <2>1. PICK p \in Nat : p = consumer.position /\ p <= watermark.high
    BY DEF ConsumerOK
  <2>2. ASSUME NEW k \in Held' PROVE k[1] >= p \/ k[1] + k[2] <= p
    <3>1. CASE k \in Held
      BY <2>1, <3>1 DEF ConsumerOK
    <3>2. CASE k[1] = watermark.high
      BY <1>1, <2>1, <3>2
    <3> QED BY <2>2, <3>1, <3>2, HeldStep
  <2>3. consumer'.position = p /\ p <= watermark'.high
    BY <1>1, <1>2, <2>1
  <2>4. \A o \in consumer'.listed : o < watermark'.high
    BY <1>1, <1>2
  <2> QED BY <1>2, <2>1, <2>2, <2>3, <2>4 DEF ConsumerOK
<1>3. CASE consumer' = consumer
  BY <1>2, <1>3 DEF ConsumerOK
<1>4. CASE StartFetch
  <2>1. consumer' = [consumer EXCEPT !.stage = "list", !.high = watermark.high]
    BY <1>4 DEF StartFetch
  <2>2. consumer' = [stage |-> "list", position |-> consumer.position, high |-> watermark.high,
                     listed |-> consumer.listed]
    BY <2>1 DEF ConsumerOK
  <2> QED BY <1>1, <1>2, <2>2 DEF ConsumerOK
<1>5. CASE ListBatches
  <2>1. consumer' = [consumer EXCEPT !.stage = "read", !.listed = DOMAIN records]
    BY <1>5 DEF ListBatches
  <2>2. consumer' = [stage |-> "read", position |-> consumer.position, high |-> consumer.high,
                     listed |-> DOMAIN records]
    BY <2>1 DEF ConsumerOK
  <2>3. DOMAIN records \subseteq Nat /\ \A o \in DOMAIN records : o < watermark.high
    <3>1. \A o \in DOMAIN records : /\ o \in Nat /\ records[o].count \in Nat /\ records[o].count > 0
                                    /\ o + records[o].count <= watermark.high
      BY LogIsLog DEF IsLog, Inv, OwnOffsets
    <3> QED BY <1>1, <3>1
  <2> QED BY <1>2, <2>2, <2>3 DEF ConsumerOK
<1>6. CASE ReadBatches
  BY <1>6, ReadBatchesConsumer
<1>7. ASSUME NEW c \in Slots, \/ \E b \in Batches : Send(c, b)
                              \/ Step(c) \/ Fail(c) \/ RetakeOffset(c) \/ AdvanceUnheard(c)
      PROVE  consumer' = consumer
  BY <1>7 DEF Step, Send, Check, TakeOffset, PutBatch, Advance, Fail, RetakeOffset, AdvanceUnheard,
              consuming
<1>8. CASE \/ InitProducer \/ (\E requested \in 0 .. watermark.high : DeleteRecords(requested))
           \/ Sweep \/ UNCHANGED vars
  <2>1. consumer' = consumer
    BY <1>8 DEF InitProducer, DeleteRecords, Sweep, ListExpired, DeleteExpired, KeepExpired, EndSweep,
                vars, consuming
  <2> QED BY <1>3, <2>1
<1> QED BY <1>3, <1>4, <1>5, <1>6, <1>7, <1>8 DEF Next, Consume

\* No step of the consumer passes over a batch that was listed and is still there.
LEMMA FetchStep ==
  ASSUME Inv, ConsumerOK, [Next]_vars, consumer.stage = "read", consumer'.stage = "idle",
         consumer.listed \subseteq DOMAIN records, NEW o \in consumer.listed,
         o + records[o].count > consumer.position, o < consumer'.position
  PROVE  o \in fetched'
<1>1. ReadBatches
  <2>1. consumer' # consumer
    OBVIOUS
  <2>2. ASSUME NEW c \in Slots, \/ \E b \in Batches : Send(c, b)
                                \/ Step(c) \/ Fail(c) \/ RetakeOffset(c) \/ AdvanceUnheard(c)
        PROVE  FALSE
    BY <2>1, <2>2 DEF Step, Send, Check, TakeOffset, PutBatch, Advance, Fail, RetakeOffset,
                      AdvanceUnheard, consuming
  <2>3. ~ (\/ InitProducer \/ (\E requested \in 0 .. watermark.high : DeleteRecords(requested))
           \/ Sweep \/ UNCHANGED vars)
    BY <2>1 DEF InitProducer, DeleteRecords, Sweep, ListExpired, DeleteExpired, KeepExpired, EndSweep,
                vars, consuming
  <2>4. ~ StartFetch /\ ~ ListBatches
    BY DEF StartFetch, ListBatches
  <2> QED BY <2>2, <2>3, <2>4 DEF Next, Consume
<1>2. PICK answer \in Seq(DOMAIN records) :
            Goes(answer) /\ IsAnswer(answer, records, consumer.position)
  BY <1>1, ReadBatchesIs
<1>3. o \in DOMAIN records /\ o \in Nat /\ records[o].count \in Nat
  BY LogIsLog DEF IsLog
<1>4. CASE answer = <<>>
  <2>1. consumer'.position = consumer.position
    BY <1>2, <1>4, GoesTo
  <2>2. <<o, records[o].count>> \in Held
    BY <1>3 DEF Held
  <2>3. o >= consumer.position \/ o + records[o].count <= consumer.position
    BY <2>2 DEF ConsumerOK
  <2>4. consumer.position \in Nat
    BY DEF ConsumerOK
  <2> QED BY <1>3, <2>1, <2>3, <2>4
<1>5. CASE answer # <<>>
  <2>1. PICK r : IsRead(r, records) /\ Covered(r, records, consumer.position) /\ answer = r.batches
    BY <1>2 DEF IsAnswer
  <2>2. r.next = consumer'.position
    BY <1>2, <1>5, <2>1, GoesTo DEF Covered
  <2>3. PICK i \in 1 .. Len(answer) : answer[i] = o
    BY <1>3, <2>1, <2>2 DEF Covered
  <2>4. o \in Range(answer)
    <3>1. DOMAIN answer = 1 .. Len(answer)
      BY LenProperties
    <3> QED BY <2>3, <3>1 DEF Range
  <2> QED BY <1>2, <2>4 DEF Goes
<1> QED BY <1>4, <1>5

\* A fetch passes over no batch that was in the log when it listed the log, as long as none
\* of them is deleted: for any batches, windows of the listing and sizes of the answer, in
\* whatever order the store lists, and whatever produces run meanwhile (fetch,
\* batch_stream_holding, read_fetched_batches, fetch_from_full_listing).
THEOREM AlwaysFetchSkipsNothing == Spec => FetchSkipsNothing
<1>1. Inv /\ ConsumerOK /\ [Next]_vars => Inv' /\ ConsumerOK'
  BY NextInv, NextConsumer
<1>2. Spec => [](Inv /\ ConsumerOK)
  BY <1>1, InitInv, InitConsumer, PTL DEF Spec
<1> DEFINE A == /\ consumer.stage = "read" /\ consumer'.stage = "idle"
                /\ consumer.listed \subseteq DOMAIN records
                => \A o \in consumer.listed :
                    /\ o + records[o].count > consumer.position
                    /\ o < consumer'.position
                    => o \in fetched'
<1>3. Inv /\ ConsumerOK /\ [Next]_vars => A
  BY FetchStep
<1>4. Inv /\ ConsumerOK /\ [Next]_vars => [A]_vars
  BY <1>3
<1>5. [](Inv /\ ConsumerOK) /\ [][Next]_vars => [][A]_vars
  <2> HIDE DEF A
  <2> QED BY <1>4, PTL
<1> QED BY <1>2, <1>5, PTL DEF Spec, FetchSkipsNothing
=============================================================================
