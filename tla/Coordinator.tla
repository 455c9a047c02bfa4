---------------------------- MODULE Coordinator -----------------------------
(***************************************************************************)
(* The group coordinators of several brokers that share one storage        *)
(* (Controller in coordinator/group/administrator.rs).  Each request reads *)
(* the group from the broker's cache or from storage, settles it, runs,    *)
(* and stores the result if storage still holds the version that it read.  *)
(* Every step between two awaits is one action, so that the requests of    *)
(* all brokers interleave as they do.                                      *)
(***************************************************************************)
EXTENDS ClassicGroup

CONSTANTS
    Brokers,        \* the coordinators that share the storage
    Slots,          \* bound: the requests in progress at a time
    Ops,            \* the operations that clients use
    Engine,         \* "object_store" or "sql": what an update of a deleted group does
    JoinOptions,    \* see Group
    PollInterval,   \* GroupCoordinatorConfig::poll_interval
    MaxTime, MaxLeaving, MaxGeneration, \* see Group
    MaxVersion,     \* bound: how many times the group is written
    MaxFaults       \* bound: how many requests fail and brokers stop

ASSUME CoordinatorAssumption ==
    /\ Ops \subseteq {"join", "sync", "heartbeat", "leave", "commit", "fence", "delete"}
    /\ Engine \in {"object_store", "sql"}
    /\ {PollInterval, MaxVersion, MaxFaults, MaxTime, MaxGeneration} \subseteq Nat
    /\ JoinOptions \subseteq [api_version : Nat, session_timeout_ms : Nat \ {0},
                              rebalance_timeout_ms : Nat, protocols : Seq(Protocols),
                              metadata : Metadata]

VARIABLES
    stored,     \* the group in storage and its version; version 0: storage holds none
    versions,   \* the last version that storage gave out
    cache,      \* each broker's Learned group, or None
    calls,      \* the request in each slot, or Idle
    clock,      \* see Group
    issued,     \* see Group
    told,       \* history: what members were told, with the generation it is about
    offsets,    \* history: the last offset commit that was stored, or None
    deleted,    \* history: the members of the group that delete_groups deleted last
    faults      \* how many requests failed and brokers stopped

coordinatorVars == <<stored, versions, cache, calls, clock, issued, told, offsets, deleted, faults>>

\* The group as one atomic object that requests change, whatever the brokers do.
Atomic == INSTANCE Group WITH group <- stored.group, MaxDelay <- MaxTime

(***************************************************************************)
(* A request in progress: it reads, runs and stores, and does so again.    *)
(***************************************************************************)
\* A group as a broker last learned it from storage.
IsLearned(l) ==
    /\ l = [version |-> l.version, group |-> l.group, learned |-> l.learned]
    /\ l.version \in 1 .. versions
    /\ IsGroup(l.group)
    /\ l.learned \in 0 .. clock

\* No request.
Idle == [stage |-> "idle", broker |-> None, new |-> None]

Call(op, broker, req) ==
    [op |-> op, broker |-> broker, req |-> req, stage |-> "read",
     max_age |-> IF op \in {"heartbeat", "leave"} THEN "any" ELSE "zero",
     from |-> IF op \in {"join", "sync"} THEN None ELSE stored.version,
     since |-> IF op = "sync" THEN clock ELSE None,
     version |-> None, group |-> None, source |-> None, result |-> None, new |-> None]

\* The call, back at the start of its loop.
Again(call, max_age) ==
    [call EXCEPT !.stage = "read", !.max_age = max_age, !.version = None, !.group = None,
                 !.source = None, !.result = None, !.new = None]

\* What join, sync, leave and the others do after a lost write.
Retry(call) ==
    Again(call, IF call.op \in {"join", "sync"} THEN "poll" ELSE call.max_age)

Init ==
    /\ stored = [version |-> 0, group |-> NewGroup]
    /\ versions = 0
    /\ cache = [b \in Brokers |-> None]
    /\ calls = [c \in Slots |-> Idle]
    /\ clock = 0
    /\ issued = NoEntries
    /\ told = {}
    /\ offsets = None
    /\ deleted = {}
    /\ faults = 0

Tick ==
    /\ clock < MaxTime
    /\ clock' = clock + 1
    /\ UNCHANGED <<stored, versions, cache, calls, issued, told, offsets, deleted, faults>>

\* The generations that a client can know: the first is 1.
KnownGenerations == 1 .. stored.group.generation_id

JoinRequests ==
    {Atomic!JoinRequestOf(i, o) : i \in Atomic!Identities \cup Atomic!NoIdentities,
                                  o \in JoinOptions}

SyncRequests ==
    {Atomic!SyncRequestOf(i, n, None, p) :
        i \in Atomic!Identities, n \in KnownGenerations, p \in Atomic!Plans}

MemberRequests ==
    {Atomic!MemberRequestOf(i, n) : i \in Atomic!Identities, n \in KnownGenerations}

\* The commits of members and, with no member id, those of simple consumers.
CommitRequests(transactional) ==
    {Atomic!CommitRequestOf(i, n, transactional) :
        i \in Atomic!Identities, n \in KnownGenerations}
    \cup {Atomic!CommitRequestOf([member_id |-> None, group_instance_id |-> None], -1,
                                 transactional)}

Requests(op) ==
    CASE op = "join"      -> JoinRequests
      [] op = "sync"      -> SyncRequests
      [] op = "heartbeat" -> MemberRequests
      [] op = "leave"     -> Atomic!LeaveRequests
      [] op = "commit"    -> CommitRequests(FALSE)
      [] op = "fence"     -> CommitRequests(TRUE)
      [] op = "delete"    -> {None}

(***************************************************************************)
(* recent_group and stored_group.                                          *)
(***************************************************************************)
\* cached: the broker's cache is no older than max_age.
Cached(call) ==
    /\ cache[call.broker] # None
    /\ \/ call.max_age = "any"
       \/ /\ call.max_age = "poll"
          /\ clock - cache[call.broker].learned < PollInterval

\* The call with the group that it runs on.  The cache gets a group from storage
\* when the answer is back, in Run.
recent_group(call) ==
    LET learned == cache[call.broker]
    IN  IF Cached(call)
        THEN [call EXCEPT !.stage = "run", !.source = "cache",
                          !.version = learned.version, !.group = learned.group]
        ELSE [call EXCEPT !.stage = "run", !.source = "storage",
                          !.version = stored.version,
                          !.group = with_storage_group_detail(stored.group)]

\* A client sends a request to any broker, which looks the group up.
Send(c) ==
    /\ calls[c].stage = "idle"
    /\ \E op \in Ops, b \in Brokers :
        \E req \in Requests(op) : calls' = [calls EXCEPT ![c] = recent_group(Call(op, b, req))]
    /\ UNCHANGED <<stored, versions, cache, clock, issued, told, offsets, deleted, faults>>

\* The next turn of the loop: after a lost write, to check an answer on storage, or
\* because a change stored here, a deadline or the poll interval woke a held
\* request (wait_for_change).
Read(c) ==
    /\ calls[c].stage = "read"
    /\ calls' = [calls EXCEPT ![c] = recent_group(@)]
    /\ UNCHANGED <<stored, versions, cache, clock, issued, told, offsets, deleted, faults>>

\* cache: whatever the cache holds is replaced.
Cache(broker, version, group) ==
    cache' = [cache EXCEPT
                ![broker] = [version |-> version, group |-> group, learned |-> clock]]

(***************************************************************************)
(* Running the request and answering it.                                   *)
(***************************************************************************)
\* hold_limit: join uses the larger of the timeouts of the group and of the request.
hold_limit(call, g) ==
    2 * (IF call.op = "join" THEN Max({rebalance_timeout(g), call.req.rebalance_timeout_ms})
                             ELSE rebalance_timeout(g))

\* What a reply tells a member: to assign as the leader, or its partitions.
News(reply) ==
    {[generation |-> reply.generation, member |-> m, assigns |-> TRUE, partitions |-> {}] :
        m \in Assigner(reply)}
    \cup {[generation |-> reply.generation, member |-> d.member, assigns |-> FALSE,
            partitions |-> d.partitions] : d \in Delivery(reply)}

Answer(c, reply) ==
    /\ calls' = [calls EXCEPT ![c] = Idle]
    /\ told' = told \cup News(reply)

\* A held request waits, as the member it now belongs to, unless it waited too long.
Hold(c, call, result) ==
    LET since == IF call.since = None THEN clock ELSE call.since
        req == IF call.op = "join" THEN [call.req EXCEPT !.member_id = result.reply.member]
                                   ELSE call.req
    IN  IF clock - since > hold_limit(call, result.group)
        THEN Answer(c, Error(result.reply.member, "REBALANCE_IN_PROGRESS"))
        ELSE /\ calls' = [calls EXCEPT ![c] =
                            [Again(call, "poll") EXCEPT !.since = since, !.req = req]]
             /\ UNCHANGED told

Finish(c, call, result) ==
    IF result.reply.kind = "held" THEN Hold(c, call, result) ELSE Answer(c, result.reply)

Outcome(call, group, now, new) ==
    LET g == settle(group, now)
    IN  CASE call.op = "join"      -> join(g, now, call.req, new)
          [] call.op = "sync"      -> sync(g, now, call.req)
          [] call.op = "heartbeat" -> heartbeat(g, now, call.req)
          [] call.op = "leave"     -> Result(leave(g, now, call.req), Done(None))
          [] call.op \in {"commit", "fence"} -> check_offset_commit(g, now, call.req)

\* new_member_id returns an id that nobody has, and that no other request got.
FreshIds(call) ==
    IF call.op = "join" /\ call.req.member_id = None
    THEN MemberIds \ (DOMAIN issued \cup {calls[d].new : d \in Slots})
    ELSE {IF call.op = "join" THEN call.req.member_id ELSE None}

\* A request that changes nothing needs no write, but a commit writes a group that
\* storage does not hold.  The contact that a commit records is always new, because
\* the brokers' clocks are finer than this one.
Unchanged(call, result) ==
    /\ result.group = call.group
    /\ call.op \in {"commit", "fence"} => call.version # 0
    /\ call.op = "commit" /\ result.reply.kind = "done"
        => call.req.member_id \notin DOMAIN call.group.members

\* Mutant of RunUnchanged: an answer from the cache is final.
RunUnchangedOnCache(c, call, result) ==
    IF call.op = "commit" /\ result.reply.kind = "done"
    THEN /\ calls' = [calls EXCEPT ![c] = [call EXCEPT !.stage = "offsets", !.group = None]]
         /\ UNCHANGED told
    ELSE Finish(c, call, result)

\* An answer from the cache is checked on storage, unless the request is a join or a sync.
RunUnchanged(c, call, result) ==
    IF call.op \in {"heartbeat", "leave"} /\ call.source = "cache"
    THEN /\ calls' = [calls EXCEPT ![c] = Again(call, "zero")]
         /\ UNCHANGED told
    ELSE IF call.op = "commit" /\ result.reply.kind = "done"
         THEN /\ calls' = [calls EXCEPT ![c] = [call EXCEPT !.stage = "offsets", !.group = None]]
              /\ UNCHANGED told
         ELSE Finish(c, call, result)

Run(c) ==
    /\ calls[c].stage = "run"
    /\ calls[c].op # "delete"
    /\ LET call == calls[c]
       IN  /\ IF call.source = "storage" /\ call.version # 0
              THEN Cache(call.broker, call.version, call.group)
              ELSE UNCHANGED cache
           /\ \E new \in FreshIds(call) :
                LET result == Outcome(call, call.group, clock, new)
                IN  IF Unchanged(call, result) THEN RunUnchanged(c, call, result)
                    ELSE /\ result.group.generation_id <= MaxGeneration
                         /\ calls' = [calls EXCEPT
                                        ![c] = [@ EXCEPT !.stage = "store", !.new = new,
                                                         !.group = None, !.source = None,
                                                         !.result = result]]
                         /\ UNCHANGED told
    /\ UNCHANGED <<stored, versions, clock, issued, offsets, deleted, faults>>

(***************************************************************************)
(* store_group: Storage::update_group, then the cache and the answer.      *)
(***************************************************************************)
\* Mutant of Accepts: an unconditional put.
AcceptsAny(version) == TRUE

\* Whether storage accepts a group made from this version.
Accepts(version) ==
    \/ stored.version = version
    \/ stored.version = 0 /\ Engine = "sql"

Store(c) ==
    /\ calls[c].stage = "store"
    /\ Accepts(calls[c].version)
    /\ versions < MaxVersion
    /\ LET call == calls[c]
       IN  /\ stored' = [version |-> versions + 1, group |-> call.result.group]
           /\ versions' = versions + 1
           /\ issued' = IF call.op = "join" /\ call.result.reply.member = call.new
                        THEN Insert(issued, call.new, call.req.group_instance_id) ELSE issued
           /\ calls' = [calls EXCEPT ![c] = [@ EXCEPT !.stage = "stored",
                                                      !.version = versions + 1]]
    /\ UNCHANGED <<cache, clock, told, offsets, deleted, faults>>

\* Mutants of Outdated: a lost write that is taken for one that landed,
OutdatedLands(c) ==
    /\ calls[c].stage = "store"
    /\ ~ Accepts(calls[c].version)
    /\ stored.version # 0
    /\ calls' = [calls EXCEPT ![c] = [@ EXCEPT !.stage = "stored", !.version = stored.version]]
    /\ UNCHANGED <<stored, versions, cache, clock, issued, told, offsets, deleted, faults>>

\* one that pairs the group of the lost write with the version of the other,
OutdatedKeepsOwn(c) ==
    /\ calls[c].stage = "store"
    /\ ~ Accepts(calls[c].version)
    /\ stored.version # 0
    /\ calls' = [calls EXCEPT ![c] = [@ EXCEPT !.stage = "outdated", !.version = stored.version,
                                              !.group = calls[c].result.group, !.result = None]]
    /\ UNCHANGED <<stored, versions, cache, clock, issued, told, offsets, deleted, faults>>

\* and one that takes a missing group for an empty one.
OutdatedByNothing(c) ==
    /\ calls[c].stage = "store"
    /\ ~ Accepts(calls[c].version)
    /\ calls' = [calls EXCEPT ![c] =
                    [@ EXCEPT !.stage = "outdated", !.version = stored.version,
                              !.group = with_storage_group_detail(stored.group),
                              !.result = None, !.new = None]]
    /\ UNCHANGED <<stored, versions, cache, clock, issued, told, offsets, deleted, faults>>

\* A lost write: UpdateError::Outdated brings the group that storage holds.  The read
\* of that group is in the same step, because a version that is refused once is
\* refused at any later time.
Outdated(c) ==
    /\ calls[c].stage = "store"
    /\ ~ Accepts(calls[c].version)
    /\ stored.version # 0
    /\ calls' = [calls EXCEPT ![c] =
                    [@ EXCEPT !.stage = "outdated", !.version = stored.version,
                              !.group = with_storage_group_detail(stored.group),
                              !.result = None, !.new = None]]
    /\ UNCHANGED <<stored, versions, cache, clock, issued, told, offsets, deleted, faults>>

\* The broker caches that group, which may be old by now, and runs the request again.
Relearn(c) ==
    /\ calls[c].stage = "outdated"
    /\ Cache(calls[c].broker, calls[c].version, calls[c].group)
    /\ calls' = [calls EXCEPT ![c] = Retry(@)]
    /\ UNCHANGED <<stored, versions, clock, issued, told, offsets, deleted, faults>>

\* An object store fails the update of a group that was deleted: the request fails.
Fail(c) ==
    /\ calls[c].stage = "store"
    /\ ~ Accepts(calls[c].version)
    /\ stored.version = 0
    /\ calls' = [calls EXCEPT ![c] = Idle]
    /\ UNCHANGED <<stored, versions, cache, clock, issued, told, offsets, deleted, faults>>

\* The answer of storage is another error, or is lost after the write landed: the
\* request fails, and the broker caches nothing.
Lose(c) ==
    /\ faults < MaxFaults
    /\ calls[c].stage \notin {"idle", "read"}
    /\ calls[c].source # "cache"
    /\ calls' = [calls EXCEPT ![c] = Idle]
    /\ faults' = faults + 1
    /\ UNCHANGED <<stored, versions, cache, clock, issued, told, offsets, deleted>>

\* Mutant of Landed: the broker asks storage for the version that it wrote.
LandedAtCurrent(c) ==
    /\ calls[c].stage = "stored"
    /\ stored.version # 0
    /\ LET call == calls[c]
       IN  /\ Cache(call.broker, stored.version, call.result.group)
           /\ Finish(c, call, call.result)
    /\ UNCHANGED <<stored, versions, clock, issued, offsets, deleted, faults>>

\* The write landed: the broker caches the group and answers, or holds the request.
Landed(c) ==
    /\ calls[c].stage = "stored"
    /\ LET call == calls[c]
       IN  /\ Cache(call.broker, call.version, call.result.group)
           /\ IF call.op = "commit" /\ call.result.reply.kind = "done"
              THEN /\ calls' = [calls EXCEPT ![c] = [@ EXCEPT !.stage = "offsets",
                                                              !.result = None, !.new = None]]
                   /\ UNCHANGED told
              ELSE Finish(c, call, call.result)
    /\ UNCHANGED <<stored, versions, clock, issued, offsets, deleted, faults>>

\* commit_offset: the offsets of an accepted commit are a write of their own.
StoreOffsets(c) ==
    /\ calls[c].stage = "offsets"
    /\ offsets' = [member |-> calls[c].req.member_id, members |-> DOMAIN stored.group.members]
    /\ Answer(c, Done(calls[c].req.member_id))
    /\ UNCHANGED <<stored, versions, cache, clock, issued, deleted, faults>>

(***************************************************************************)
(* delete_groups.                                                          *)
(***************************************************************************)
\* The described group has members: NON_EMPTY_GROUP.
Refuse(c) ==
    /\ calls[c].stage = "run"
    /\ calls[c].op = "delete"
    /\ DOMAIN settle(calls[c].group, clock).members # {}
    /\ Answer(c, Error(None, "NON_EMPTY_GROUP"))
    /\ UNCHANGED <<stored, versions, cache, clock, issued, offsets, deleted, faults>>

Decide(c) ==
    /\ calls[c].stage = "run"
    /\ calls[c].op = "delete"
    /\ DOMAIN settle(calls[c].group, clock).members = {}
    /\ calls' = [calls EXCEPT ![c] = [@ EXCEPT !.stage = "delete", !.group = None]]
    /\ UNCHANGED <<stored, versions, cache, clock, issued, told, offsets, deleted, faults>>

\* Storage::delete_groups does not check the version.
Delete(c) ==
    /\ calls[c].stage = "delete"
    /\ stored' = [version |-> 0, group |-> NewGroup]
    /\ deleted' = DOMAIN settle(stored.group, clock).members
    /\ calls' = [calls EXCEPT ![c] = [@ EXCEPT !.stage = "deleted", !.version = stored.version]]
    /\ UNCHANGED <<versions, cache, clock, issued, told, offsets, faults>>

\* The broker forgets its cached group, whichever it is by now, if there was a group
\* or if there were offsets to delete.
Forget(c) ==
    /\ calls[c].stage = "deleted"
    /\ \/ cache' = [cache EXCEPT ![calls[c].broker] = None]
       \/ calls[c].version = 0 /\ UNCHANGED cache
    /\ Answer(c, Done(None))
    /\ UNCHANGED <<stored, versions, clock, issued, offsets, deleted, faults>>

Step(c) ==
    \/ Send(c) \/ Read(c) \/ Run(c) \/ Store(c) \/ Outdated(c)
    \/ Relearn(c) \/ Fail(c) \/ Lose(c) \/ Landed(c) \/ StoreOffsets(c)
    \/ Refuse(c) \/ Decide(c) \/ Delete(c) \/ Forget(c)

\* A broker stops and starts again: it keeps nothing (Controller::new).
Crash(b) ==
    /\ faults < MaxFaults
    /\ cache' = [cache EXCEPT ![b] = None]
    /\ calls' = [c \in Slots |-> IF calls[c].broker = b THEN Idle ELSE calls[c]]
    /\ faults' = faults + 1
    /\ UNCHANGED <<stored, versions, clock, issued, told, offsets, deleted>>

Next ==
    \/ Tick
    \/ \E c \in Slots : Step(c)
    \/ \E b \in Brokers : Crash(b)

Spec == Init /\ [][Next]_coordinatorVars

(***************************************************************************)
(* Properties.                                                             *)
(***************************************************************************)
Stages == {"read", "run", "store", "stored", "outdated", "offsets", "delete", "deleted"}

TypeOK ==
    /\ versions \in 0 .. MaxVersion
    /\ stored.version \in 0 .. versions
    /\ IsGroup(stored.group)
    /\ \A b \in Brokers : cache[b] # None => IsLearned(cache[b])
    /\ \A c \in Slots : calls[c].stage # "idle" => /\ calls[c].op \in Ops
                                                   /\ calls[c].broker \in Brokers
                                                   /\ calls[c].stage \in Stages
    /\ clock \in 0 .. MaxTime
    /\ faults \in 0 .. MaxFaults
    /\ IsMap(issued, MemberIds, Instances \cup {None})

\* Brokers that share the storage change the group only as one broker would that
\* ran the requests one at a time: no write is made from a group that another
\* broker has changed since (store_group).
GroupIsAtomic == Atomic!Spec

\* A broker that knows the version in storage knows the group in storage: no late
\* read, lost write or delete leaves it with another group under that version.
CacheIsTrue ==
    \A b \in Brokers :
        cache[b] # None /\ cache[b].version = stored.version =>
            cache[b].group \in {stored.group, with_storage_group_detail(stored.group)}

\* A heartbeat, a leave or a commit is never answered, unless it fails, from a group
\* older than the request, however old the broker's cache is (heartbeat, leave,
\* stored_group).  Version 0 is never cached: it is what storage said.
NoStaleAnswer ==
    [][\A c \in Slots :
        /\ calls[c].stage \notin {"idle", "store"}
        /\ calls'[c].stage = "idle"
        /\ faults' = faults
        /\ calls[c].op \in {"heartbeat", "leave", "commit", "fence"}
        => calls[c].version = 0 \/ calls[c].version >= calls[c].from]_coordinatorVars

\* In a generation one member is told to assign, by whichever brokers answer.
OneAssigner ==
    \A m, n \in told : m.assigns /\ n.assigns /\ m.generation = n.generation
        => m.member = n.member

\* In a generation no partition is delivered to two members, unless the second is
\* the same static member after a restart.
OneOwner ==
    \A m, n \in told :
        m.generation = n.generation /\ m.member # n.member /\ m.partitions \cap n.partitions # {}
            => issued[m.member] # None /\ issued[m.member] = issued[n.member]

\* "An OffsetCommit from a member that another broker removed from the group is no
\* longer stored" (CHANGELOG.md).
RemovedMemberStoresNothing ==
    offsets # None /\ offsets.member # None => offsets.member \in offsets.members

\* "Deletes every named group that has no members, and refuses each other group"
\* (delete_groups).
DeletesOnlyEmptyGroups == deleted = {}
=============================================================================
