# Verification of nisshi

nisshi is a broker of the Kafka protocol that keeps no state of its own. Any number of
broker processes share one storage engine, an object store (S3, Google Cloud Storage,
memory) or an SQL database, and any of them answers any request. What a Kafka cluster gets
from a leader per partition and per group, nisshi gets from conditional writes: a broker
reads a record with its version, computes a new one, and writes it if the version is still
the one in storage. Caches, held requests and retries sit on top of that. This project
models the places where that scheme carries the correctness of the program, checks them
with TLC on small instances, and proves the central invariants with TLAPS.

## The system

| Component | State | Operations | Module |
| --- | --- | --- | --- |
| Classic consumer group (`coordinator/group/administrator.rs`: `Inner`, `Wrapper`, `Group`) | members, pending members, protocol, leader, generation, join phase, pending sync, assignments | `settle`, `join`, `sync`, `heartbeat`, `leave`, `check_offset_commit`, conversion to and from `GroupDetail` | `ClassicGroup`, `Group`, `GroupHistory` |
| Group coordinator (same file: `Controller`) | the groups it learned with their versions; the group record in storage; requests in progress | the handlers of the requests above, `txn_offset_commit_fence`, `delete_groups` | `Coordinator` |
| Optimistic concurrency (`dynostore/opticon.rs`, `dynostore/metadata.rs`) | per document and broker, the last content with its e-tag; the e-tag cache; the object | `with`, `with_mut`, `get_opts`, `put_opts` | `OptiCon`, `Document` |
| Produce and fetch in the object store (`dynostore.rs`, `produced_batches.rs`, `producer.rs`) | `meta.json` (producers: sequences, remembered batches, epoch starts), `watermark.json` (low, high, fenced epochs), the batch objects | `produce`, `init_producer`, `delete_records`, `fetch` | `ProducerState`, `Fetch`, `Produce` |
| Time index (`time_index.rs`, `dynostore.rs`) | the index in `watermark.json`, its backfill token | `append`, `begin_backfill`, `merge`, `list_offsets` by timestamp | `TimeIndex`, `ListOffsets` |
| Batching of produce requests (`nisshi-storage/src/batch.rs`) | a queue per partition and producer, a response or waker per request | `produce`, `send_queued`, `Ticket::poll` | `Batcher` |
| Rest of the object store engine: transactions, topics, offsets, request limit | `meta.json`, offset objects | | no |
| SQL engines (`nisshi-storage-sql`) | tables | the same operations in SQL transactions | only the rule for updates of deleted groups |
| Broker, services, proxy, authentication, client, schemas, tools | connections and buffers | routing, framing, batching, conversion | no |

**How they interact.** A handler of the broker calls the `Coordinator` trait. The controller
reads the group from its cache or from `Storage::group_with_version`, settles it, runs the
request, and writes it with `Storage::update_group`, which is a conditional put in the
object store engine and a conditional `UPDATE` in the SQL ones. Held joins and syncs wait
for a notification of a change stored by the same broker, for the next deadline of the
group, or for the poll interval. The offsets of a commit are a second write. A produce, and
each step of a transaction, calls `with_mut` on `meta.json` and on the `watermark.json` of
the partition; fetch calls `with`.

**What is hard.** Nothing runs in the background for a group, so every timer of Kafka
becomes something that the next request settles, on whichever broker it comes to. Requests
of several brokers interleave between the read and the write. Caches are of any age. A
write can land and its answer be lost. A delete takes no version. Locks are released over
every await. A produce is five writes of three objects, any of which may be the last. A lookup
rebuilds an index that produces keep changing. `PROJECT.json` lists these hazards with the lines at which they bite.

**What makes each part correct.** A group: leader, joined members, pending syncs,
assignments and static members refer to the members; one member assigns in a generation; no
partition has two owners in a generation; generations do not come back; a member that waits in a
join phase is kept; deadlines are not missed. The coordinators: together they change the group as one
would; no answer comes from a group older than the request; a cache never pairs a version
with another group. The documents: no update is lost; a version names the content it came
with; each call returns. Produce: what is acknowledged is in the log, at one offset and in the
order of its producer, whichever step a broker stopped at, with exceptions for copies that a newer
epoch superseded and for epochs that the watermark forgot; a fetch passes over nothing. The
time index: no batch is behind an entry or above the maximum of a complete index, unless a backfill overlooked it. Batching:
every produce returns, with the offset of its own records.

## The modules

**`ClassicGroup`** has no state. Each operator is one function of `administrator.rs` under
its Rust name, from a group record and the time `now` to a group record (and a reply).
`Forming` and `Formed` are the field `state`. Member ids are natural numbers, since the code
uses their order only for the first key of a `BTreeMap`; protocols, subscriptions and
partitions are opaque. Times are natural numbers in an arbitrary unit. The loop of `end_join_phase_after_deadline` is unrolled
twice, which is as often as it can run: an extension clears the flag that allows it, and a completed
join leaves no deadline that has passed. Saturating
subtraction of the remaining delay is modelled as such. The validation of request fields
that ends in an error before the group is read, the logs and the metrics are left out.

**`Group`** is one group as an atomic object: in one step a request reads the group, settles it,
runs, and stores the result. It is both a model to check what the state machine computes
and the abstract specification of `Coordinator`. Requests name ids that were given out
(`issued`), with the instance that the id was given to, and the right generation or a wrong one.
A request may run up to `MaxDelay` behind the clock, because a broker reads its clock before
it writes and the clocks of brokers differ. `Copies` is the group as written or as read back
from storage: `with_storage_group_detail` repairs the leader of a join phase.

**`GroupHistory`** adds what the clients were told in the current generation.

**`Coordinator`** has the brokers, their caches, the requests in progress and the storage.
Each step between two awaits of `Controller` is an action: `Send` and `Read` (the
lookup by `cached`, `recent_group` and `stored_group`), `Run` (the answer of the read is
cached, the group settled and the request run), `Store` / `Outdated` / `Fail`
(`update_group`), `Landed` / `Relearn` (the rest of `store_group`, then the answer, the hold
or the next turn of the loop), `StoreOffsets`, and `Refuse`, `Decide`, `Delete`, `Forget` for
`delete_groups`. `Lose` is a storage error, or an answer that is lost after the write
landed, and `Crash` a broker that restarts. A held request may run again at any time, which
covers the notification, the deadline and the poll interval. Versions are numbers that are
not used again. The SQL engines use a hash of the content as the version; a version that
comes back there names an equal group, so that a write made from it is still made from the
group in storage.

**`Document`** is the promise of `OptiCon`: a document that is changed one update at a time, each
on the result of the one before, or deleted.

**`OptiCon`** has one document. A content is the sequence of the updates that made it, so that a lost
update is visible. Each await and each lock of `with`, `with_mut` and of the cache is an
action. `ETagIsHash` tells a store whose e-tags are hashes of the content from one that
gives each put a new one. Faults are an error or a lost answer (`Fail`), a put that the
object store client sends again (`Repeat`) and a deleted document (`Delete`). The closure of
`with_mut` may leave the copy as it is, as one that returns an error before it changes
anything does; the copy is put all the same.

**`Maps`** has the `BTreeMap`s of the documents, as functions that grow and shrink, and `FoldOffsets`, a loop over
offsets in ascending order (`Ascending` lists them).

**`ProducerState`** and **`Fetch`** have no state: they are the functions of the code that check and
advance a sequence or an epoch, and that choose the batches of a fetch from a listing in any order. `read_fetched_batch` is one turn of the
loop of `read_fetched_batches`; the loop is a recursive function over the listing.

**`Produce`** is one partition. `Send`, `Check`, `TakeOffset`, `PutBatch` and `Advance` are the
awaits of `produce`; `DeleteRecords`, `ListExpired`, `DeleteExpired` and `KeepExpired` those of
`delete_records`; `StartFetch`, `ListBatches` and `ReadBatches` those of `fetch`, by a consumer
that goes on after what it got. It rests on what is shown of `OptiCon`: `with_mut` is one atomic
update, and `with` reads some earlier version (`versions` has them all, which is more than the five
seconds of the cache allow). `Fail` is an error or a broker that stops, at any step;
`RetakeOffset` and `AdvanceUnheard` are the two writes whose answer is lost, after which `with_mut`
runs the closure again on its own result. `answers` has what a client takes as delivered, a
`DUPLICATE_SEQUENCE_NUMBER` included. `forgotten` is history: the producers whose epoch
`record_producer_epoch` has dropped from the watermark. One `DeleteRecords` sweeps at a time, and the
consumer starts at the beginning of the log, so that its position is never inside a batch.

**`TimeIndex`** has the functions of `time_index.rs`. **`ListOffsets`** is one partition with produces in so far as
the index knows of them, DeleteRecords, and lookups: each await of `time_index_for_lookup` is an action.
`OldTakeOffset` is a produce of a broker without the index, which drops the field. A batch may have aged past
`BATCH_SETTLED_AFTER` if no produce was in flight below it when it was listed: the code relies on a
produce taking less than ten minutes between its two writes. `overlooked` is history: the batches in
flight that a backfill had no gap to tell by, and called the index complete without.

**`Batcher`** is the batching for one partition with a maximum delay set (without one, `produce` goes
straight to storage). A task is one call of `produce`; a step is what it does under one lock
or until one await returns. Storage refuses a batch that is too large before it changes anything,
and any other error may come before or after the records are stored.

## The runs

| Run | Question | Distinct states and instance |
| --- | --- | --- |
| `group` | Do `settle`, `next_deadline` and the stored form agree in every phase, and are the replies of a generation consistent, over restarts of a static member? | two members, one static instance, two protocols and subscriptions |
| `coordinator_requests` | Do two brokers together implement `Group`, with deletes and one fault? Can a cache be false? Is any answer staler than its request? | 1.1 million |
| `coordinator_rounds` | Are the replies consistent when held requests run on cached groups, and the caches true as time passes? | 1.1 million |
| `opticon` | Does `OptiCon` implement `Document`, and does each call return? | one broker, two calls, one fault |
| `produce` | Is what is acknowledged stored, once and in order? Does a fetch skip a batch? | 1.4 million; two producers, two requests at a time, three sends, two faults, fetches or deletes |
| `batcher` | Does each produce return, with its own offset, stored once? | 0.4 million; three produces, five workloads |
| `list_offsets` | Is a complete index sound, and does a lookup pass over a record? | 4.3 million; two lookups, two sends beside a stored batch, one fault or delete |
| `late_commit`, `delete_race`, `fetch_gap`, `forgotten_epoch`, `missed_produce` | Five statements of the docs and comments that the code does not keep | violations |

**Bounds.** Two requests at a time on two brokers are the least that interleave, and each
retries after a lost write, so the loser of every race runs again. Two generations are the
least in which something from one can survive in the next. The clock goes past every timeout of the
instance: sessions last 1 or 2 units, rebalances 1 or 2 (or take the fallback), the initial
delay is 1 and is extended once. `MaxVersion`, `MaxGeneration` and `MaxTime` stop the
coordinators: a request that would write beyond them stays where it is, and so these runs
say `CHECK_DEADLOCK FALSE`, as do the runs of the partition, where `MaxSends`, `MaxLookups` and
`MaxEvents` bound the clients and the faults, and that of the batcher, which stops when all have returned. The other
runs check for deadlock. In `produce`, three sends let a batch be sent twice beside one of the next
epoch, `MAX_BATCHES = 1` makes the producer forget its own batches, `MAX_FENCED_PRODUCERS = 1` makes the
watermark forget the epoch of one of the two producers, and two events let a lost
answer meet a delete. The one `max_bytes` of its fetches, 1, stops after a batch of two records or after the second
batch; a deadline stops a fetch in the same places. Two reductions keep it small, both without loss: IDs are allocated before the first
send (`AllocatedFirst`), since an allocation commutes with every other step, and states are told apart
by what was ever stored of each producer rather than by whole versions of `meta.json` (`View`), since `Check` reads
no more of one. Batches of producers that are not idempotent, whose produce has fewer of the same steps, are in `fetch_gap`. In `list_offsets` the timestamps 1, 3 and 4 lie on both sides of the 2 in the log,
a batch of one record is below the interval of 2 bytes and gets no entry, and `MAX_ENTRIES = 2` makes
the index thin itself; the cut at 1 is between two batches or inside one. In `batcher` the sizes and counts are chosen so that each of the
five workloads takes another way through `send_queued`. The fence of a transactional commit is in no
run: it takes the steps of an OffsetCommit but for the offset write, and the proofs have it. In the coordinator runs the
clients have versions before `MEMBER_ID_REQUIRED`, so that a join takes one write; the `group`
runs have both kinds of clients. Symmetry is over brokers and slots, and over updates in
`opticon`; member ids are ordered and take no part in it, nor is it used with liveness.

**Fairness.** `opticon` assumes weak fairness of the steps of each call, that
is, that the object store answers, and that the runtime polls a task that can go on. Nothing is
assumed of new calls, of expiry or of faults. Each update is used once, so that
a call competes with finitely many others. Without that bound `with_mut` may lose to others
for ever, as any optimistic scheme. `batcher` assumes weak fairness of each task that has queued its
batch: the runtime polls it, its timer fires, storage answers. A task is dropped only at shutdown; one that is dropped
with a queue in its hands would leave the owners waiting.

**Findings.**

- `late_commit`: a member that leaves through another broker between the group write and the
  offset write of its commit still has its offsets stored; `CHANGELOG.md` says that such
  offsets are no longer stored. The window is one write long.
- `delete_race`: a member that joins between the check and the delete of `delete_groups` is
  deleted with the group, which the comment on the function says is refused. The comment
  names the opposite order as a known race.
- `fetch_gap`: a fetch that meets the gap of a produce in progress takes it as that of a failed one, as
  the comment on `read_fetched_batches` has it, and answers the batch behind it. The consumer goes on
  after that, and never gets the batch that is stored and acknowledged below.
- `forgotten_epoch`: the watermark forgets the epoch of a producer while a batch of that epoch has its offset
  and has not advanced. A batch of the older epoch takes an offset behind it, advances before it, and both
  are acknowledged. The comment on `MAX_FENCED_PRODUCERS` says that `meta.json` then refuses the batch of the older
  epoch; it does only once the newer one has advanced.
- `missed_produce`: a backfill that lists no batch does not see that a produce is in flight, and marks the index
  complete without it; a later lookup answers no match for its record. The comment in `collect_time_index_candidate` knows
  one such case, a first produce of a broker without the index. A broker with the index is exposed as well when the index is of an older
  version, since `begin_backfill` has cleared what that produce appended. A listed batch that is deleted before it is read
  turns off the search for a gap in the same way.

Three more disagreements have no run of their own:

- A second copy of a batch that the next epoch of its producer superseded while it was being stored is
  acknowledged at its own offset, although the first copy was acknowledged at another. The comment in
  `advance_idempotent_sequence` says that the client gets an error for a second copy, which is so unless the epoch has
  moved. `OneOffset` and the part of `InOrder` within an epoch leave superseded answers out for that reason; `AckedIsStored`
  and the order of epochs include them.
- A read of a document whose answer is late replaces the document, and the cached e-tag, by an older
  version than the one the same broker wrote in the meantime, and a read that follows gets `NotModified` from the
  cache and runs on it. The comment on `watermark_offsets` says that the order of the two writes of a
  transactional produce "holds within one broker process"; transactions are not modelled.
- `create_topic` clears the watermarks after the topic is visible, against "The high watermark only rises
  while the topic exists"; topics are not modelled.

## The proofs

`ClassicGroupProofs` has the lemmas about the functions of a group, and `GroupProofs` uses them to prove
`TypeOK` and `GroupConsistent` as invariants of `Group` for every set of members, instances,
protocols, subscriptions and partitions, for all timeouts and delays, and for every value of
the bounds. The inductive invariant is `TypeOK /\ GroupConsistent`: neither is inductive
alone, because the operators pick leaders and rename members by looking them up. `GroupConsistent` has five parts
on the group (unique instances; formed, preparing, completing and empty groups) and one that
relates it to the ids given out. There is a lemma for each operator of `ClassicGroup`: it keeps
the type, keeps or establishes the parts, and at most removes members (`Shrinks`) or adds the
joining one (`Grows`), so that the ids stay issued. `SettleOK`, `JoinOK`, `SyncOK`,
`HeartbeatOK`, `LeaveOK` and `OffsetCommitOK` put them together per request, and `NextInv` per action.
`CoordinatorProofs` starts from the same lemmas.
`GroupProofs` is also about time. `NothingDue` says that no handed out id, session, sync or join phase is over. Before
`next_deadline` it holds, `settle` establishes it, and under it `settle` changes nothing: these three give
`NextDeadlineSound` and `SettleComplete`. That one `settle` is enough rests on timeouts that are
positive, so that a join phase that `settle` starts is not over at once, and on an extension that happens once.
The assumptions on the constants are the named ones of `ClassicGroup` and `Group`: ids are natural
numbers, `None` is none of the values it stands beside, and bounds and timeouts are naturals.

`OptiConProofs` proves that `OptiCon` implements `Document`, for any number of brokers, calls, updates and
faults and for both kinds of e-tags. The inductive invariant adds two things to the types:
every memo, request and answer carries the content that its e-tag names
(`VersionsNameData`), and a call that puts has an update of its own (`HasUpdate`). With it, a
put that the store accepts was made from the content in the store, and so is one `Update` of the
document or a stutter (`PutIsUpdate`); every other step but `Delete` leaves the object alone.

`ClassicGroupProofs` also has the lemmas on what a reply tells a member. `Follows` relates a group to what an operator makes of
it: the generation does not go back, and while it lasts no leader that waits is replaced and no assignment changes.
Each operator has a lemma that it is followed, and a lemma on who waits in the join phase after it; a join tells
nobody but the leader of a completing group to assign (`Tells`), and a sync delivers what the formed group has
assigned (`Delivers`).

`GroupHistoryProofs` uses them to prove what the clients of one group are told. `Heard` is the history in terms of the group: while an assignment is awaited, whoever was told to assign is the leader;
what was delivered is what a member of the formed group has, or the member that took the place of a restarted
one. With it `OneAssigner`,
`OneOwner`, `WaitingMemberKept`, `GenerationMonotonic` and `ReadBack` hold for any number of members, requests
and late brokers.

`CoordinatorProofs` is about any number of brokers and of requests in progress. A version names one group: whatever a
cache, a read or a lost write holds under the version that storage has now is the group in storage, as written or as
read back (`Known`), and a write on its way is the result of its request on such a group, at an earlier time
(`Pending`). `CInv` says so of every cache and of every request at every stage, together with three facts that it
needs: no two joins are about to give out the same id (`Fresh`), what a write that landed holds is what
storage got (`Written`), and a request that must not be answered from an old group has read a version
that was in storage after it came (`Current`). All of it survives other writes because versions
are not used again and ids stay given out (`Advances`). `TypeOK`, `CacheIsTrue` and `NoStaleAnswer` follow for both kinds of
engine, deletes included. On an object store a write is accepted only
if storage still has the version that it was made from, so its group is in `Copies` and the write is one request of
`Group`; every other step but `Delete` and `Tick` leaves the group alone: `GroupAlwaysAtomic`, the theorem that the
coordinators implement `Group`. It has the hypothesis `Engine = "object_store"`, since an SQL engine accepts the update
of a group that was deleted in between, which is the request of no atomic group. The `Same...` lemmas state that
the operators of the instance `Atomic` are those of `ClassicGroup`, which the provers do not know.

What members are told by several brokers is a second invariant of `CoordinatorProofs`, `TInv`. A reply may be about a
group that has changed since, so it is not stated of the group in storage, as `Heard` is, but of all versions that storage held:
there is a sequence `V` of them, the group in storage is the last, and every cache, every read and every write that landed
is a copy of the one with its version (`Tracked`). Each version leads to every later one (`Leads`): within
a generation the leader that waits stays the same, and assignments once made are inherited, by the member itself or by its
static successor. Whatever was told is what some version says (`Reported`). A write is made from the last version,
because storage refuses it otherwise, so it adds a version that the last one leads to (`StoreLeads`), and `Leads` is
transitive. Of two pieces of news of one generation, the version of one leads to that of the other, which gives `OneAssigner`
and `OneOwner`. Both theorems have the hypothesis `"delete" \notin Ops`: a group that is deleted and made again starts at
generation 1, whose members were told something else, and the run has the same restriction.

`ProduceProofs` has three arguments. One is about the log: the offsets that requests hold and those of the batches
are apart (`OwnOffsets`), and a sweep deletes only what is cut (`SafeSweep`), so that a stored
batch is neither overwritten nor deleted early. The second is about `meta.json`: in every version
that it ever had, what is remembered of a producer is in the log, and its position has passed it. The two
give `AckedIsStored` and `OneOffset` for any number of requests, producers and faults, and however old the version is that
the check reads. `InOrder` has two halves. Within an epoch (`SequencesInOrder`) it follows from what was remembered, and so it
leaves out the superseded copies, of which nothing is. Across epochs it is a second invariant, `EpochsInOrder`: of all batches that
have an offset, superseded ones included, the watermark holds an epoch at least as new, so that the fence lets
no older one behind them. This is so for any number of producers, except those in `forgotten`, whose epoch the
watermark has dropped; for these it is false, which is the finding `forgotten_epoch`.

The third is about a fetch, `FetchSkipsNothing`. Between a batch that is read and the one before it in the listing there
is none that the fetch wants (`InTurn`): a listing that has to be contiguous gives up otherwise (`ContiguousInTurn`), and a
sorted one has no batch in between (`AscendingInTurn`). So what was read so far is all there is from the offset on up to
where the last batch ends (`Covered`). The first batch needs the invariant `ConsumerOK`: the position of the consumer is
inside no batch that is stored or about to be put, so that the batch at or below the offset, from which both
listings start, leaves none out. `Batches`, the order of the listing and the window of `batch_stream_holding` are
arbitrary, and `FetchSizes` is any set of naturals. The property supposes that no batch of the listing is deleted before the fetch
ends, as a batch that is deleted is not read; that a batch put into a gap after the listing is passed over is the finding `fetch_gap`.

`ListOffsetsProofs` proves `IndexSound` and `LookupSkipsNothing` for any number of produces, of lookups, of brokers without
the index and of deletes, for any target, interval and limit of entries. `Covers(index, b)` says that an index
knows of a batch. `append` and `observe` make the index cover the batch and keep what it covered, `merge` covers what
either side does, and collecting the listed batches covers those that are read. The inductive invariant says, of the
batches in the log and in flight together: their offsets are apart (`LogOK`, `RequestsOK`); an index that is complete
covers each of them that is not cut (`IndexOK`); what a lookup has read covers what it has seen, and a candidate
that calls itself complete all that was below the high watermark as its backfill began (`LookupOK`); and while the
document has the token of a backfill, its index covers what was produced since (`TokenOK`), which needs that tokens are
not used again (`TokensOK`). The step that carries the argument is `GapIsSeen`: a batch in flight leaves a gap
in the offsets of the listing that the collection sees, unless the batch behind the gap is settled, or the listing is
empty or lost the batch before the gap, in which case the batch is among those that `ReadBatches` adds to `overlooked`. So a
candidate that calls itself complete covers all that is not overlooked. Both theorems except the overlooked batches, and no
behaviour: that they are the only exception is what is proved, and that they occur is the finding `missed_produce`. The
partitions to start from are any whose complete indexes are sound (`InitialAssumption`).

`BatcherProofs` follows the batch of one task: it is in one queue, or with one task that writes it, or in neither, and only
while its own task waits (`Places`); what is in the log is past the first two (`Unwritten`); every offset on its way
to a client is that of the client's records (`RightOffsets`). `StoredOnce`, `OwnRecords` and `NothingLeft` follow, for any number of
tasks, batches and limits.

**Loops.** What the recursive functions of `Maps` and `Fetch` compute is proved for every listing and every log. An induction
is the lemma `Induction`: a set that has 0 and with each number below the end the next one has them all, since a least number
that it lacks would be neither (`WFMin`). `ReplayIsFold`, `CollectIsFold` and `ReadIsReads` tie the loops to a function
with that recurrence, of which each proof then states what holds after `n` turns.

**Only model-checked**: the liveness properties, which are out of the prover's reach. Every invariant and every other action property of a
passing run is stated by a theorem. No module declares a `RECURSIVE` operator.

## Not modelled

**Transactions** of the object store engine: the broker answers an InitProducerId with a transactional ID
with TRANSACTIONAL_ID_AUTHORIZATION_FAILED (`docs/compatibility.md`), so that no client gets to them. **Topics**
of that engine, whose creation and deletion race with produces at the names of the objects; **committed offsets**, each one put of one object;
the **lake sink**. **Brokers with the first version of the time index** that run beside newer ones: they
take timestamps from headers. **Stores that list out of key order** are in `Fetch` and not in
`ListOffsets`: `list_batches` and the scan of a lookup take the order for granted.

Reads without effect on the state (ListGroups, DescribeGroups, OffsetFetch), the validation of single
fields, the wire format, connections, authentication, schemas, the proxy and the tools. The
statements of the SQL engines run in the transactions of the database. The SlateDB engine is
deprecated. The notifications between held requests of one broker
(`administrator/subscription.rs`) are covered by letting a held request run at any time; that it is
not woken too late is not checked. `generation_id` is unbounded in the model and an `i32` in the code.

## Plan

1. Done: `ClassicGroup`, `Group` and its proofs; `Coordinator`; `OptiCon`, `Document` and its proofs;
   `ProducerState`, `Fetch`, `Produce`; `TimeIndex`, `ListOffsets`; `Batcher`.
2. Done: the proofs of `Group`, `GroupHistory`, `Coordinator`, `OptiCon`, `Produce` with `Fetch`, `ListOffsets` and `Batcher`.
3. Topics: their creation and deletion beside produces.
4. Liveness of held joins and syncs, in an instance whose bounds do not stop it.
5. The proxy's batching and the connection service, if their state proves worth it.
