------------------------------- MODULE Group --------------------------------
(***************************************************************************)
(* One consumer group as an atomic object: what its clients see if every   *)
(* request reads the group, settles it, runs and stores the result in one  *)
(* step.  Module Coordinator shows that brokers which share the storage,   *)
(* each with its own cache, do not do more than this.                      *)
(*                                                                         *)
(* The clock is that of the storage's users.  A broker reads its clock     *)
(* before it writes the group, and clocks differ, so a request runs at a   *)
(* time up to MaxDelay behind the clock.                                   *)
(***************************************************************************)
EXTENDS ClassicGroup

CONSTANTS
    JoinOptions,    \* the api_version, timeouts, protocols and metadata that clients use
    MaxDelay,       \* bound: how far behind the clock a request runs
    MaxTime,        \* bound of the clock
    MaxLeaving,     \* bound: how many identities a LeaveGroup names
    MaxGeneration   \* bound of the generation

ASSUME BoundAssumption == {MaxDelay, MaxTime, MaxLeaving, MaxGeneration} \subseteq Nat

ASSUME OptionsAssumption ==
    JoinOptions \subseteq [api_version : Nat, session_timeout_ms : Nat \ {0},
                           rebalance_timeout_ms : Nat, protocols : Seq(Protocols),
                           metadata : Metadata]

VARIABLES
    group,      \* the stored group; NewGroup if storage holds none
    clock,      \* the wall clock
    issued      \* the member ids given out, each with the instance it was given to

groupVars == <<group, clock, issued>>

TypeOK ==
    /\ IsGroup(group)
    /\ clock \in Nat
    /\ IsMap(issued, MemberIds, Instances \cup {None})

Init ==
    /\ group = NewGroup
    /\ clock = 0
    /\ issued = NoEntries

\* The group that a request runs on: as a broker wrote it, or as a broker reads it.
Copies == {group, with_storage_group_detail(group)}

Now == {t \in 0 .. clock : clock - t <= MaxDelay}

\* A client names its member id together with the instance that it got the id for.
Identities ==
    {[member_id |-> m, group_instance_id |-> issued[m]] : m \in DOMAIN issued}

NoIdentities ==
    {[member_id |-> None, group_instance_id |-> i] : i \in Instances \cup {None}}

JoinRequestOf(identity, o) ==
    [member_id |-> identity.member_id, group_instance_id |-> identity.group_instance_id,
     api_version |-> o.api_version, session_timeout_ms |-> o.session_timeout_ms,
     rebalance_timeout_ms |-> o.rebalance_timeout_ms, protocols |-> o.protocols,
     metadata |-> o.metadata]

\* The assignments that a leader can send: each partition goes to one member.
Plans ==
    {[m \in MemberIds |-> {p \in Partitions : owner[p] = m}] : owner \in [Partitions -> MemberIds]}

\* The right generation or a wrong one: a client learns no generation before the first.
Generations == 1 .. MaxGeneration

SyncRequestOf(identity, generation, protocol, plan) ==
    [member_id |-> identity.member_id, group_instance_id |-> identity.group_instance_id,
     generation_id |-> generation, protocol |-> protocol, assignments |-> plan]

MemberRequestOf(identity, generation) ==
    [member_id |-> identity.member_id, group_instance_id |-> identity.group_instance_id,
     generation_id |-> generation]

CommitRequestOf(identity, generation, transactional) ==
    [member_id |-> identity.member_id, group_instance_id |-> identity.group_instance_id,
     generation_id |-> generation, is_transactional |-> transactional]

Store(g) ==
    /\ g.generation_id <= MaxGeneration
    /\ group' = g
    /\ UNCHANGED clock

Tick ==
    /\ clock < MaxTime
    /\ clock' = clock + 1
    /\ UNCHANGED <<group, issued>>

\* The id of a new member is given out with the reply.
Join(g, now, req, new) ==
    LET r == join(settle(g, now), now, req, new)
    IN  /\ Store(r.group)
        /\ issued' = IF r.reply.member = new
                     THEN Insert(issued, new, req.group_instance_id) ELSE issued

Sync(g, now, req) ==
    /\ Store(sync(settle(g, now), now, req).group)
    /\ UNCHANGED issued

Heartbeat(g, now, req) ==
    /\ Store(heartbeat(settle(g, now), now, req).group)
    /\ UNCHANGED issued

Leave(g, now, identities) ==
    /\ Store(leave(settle(g, now), now, identities))
    /\ UNCHANGED issued

OffsetCommit(g, now, req) ==
    /\ Store(check_offset_commit(settle(g, now), now, req).group)
    /\ UNCHANGED issued

\* Storage::delete_groups removes the group whatever it holds.
Delete ==
    /\ group' = NewGroup
    /\ UNCHANGED <<clock, issued>>

\* A joining client without a member id gets a new one, another keeps its own.
NewIds(identity) ==
    IF identity.member_id = None THEN MemberIds \ DOMAIN issued ELSE {identity.member_id}

JoinStep ==
    \E g \in Copies, now \in Now, i \in Identities \cup NoIdentities, o \in JoinOptions :
        \E new \in NewIds(i) : Join(g, now, JoinRequestOf(i, o), new)

SyncStep ==
    \E g \in Copies, now \in Now, i \in Identities, n \in Generations,
       p \in Protocols \cup {None}, plan \in Plans :
        Sync(g, now, SyncRequestOf(i, n, p, plan))

HeartbeatStep ==
    \E g \in Copies, now \in Now, i \in Identities, n \in Generations :
        Heartbeat(g, now, MemberRequestOf(i, n))

\* A LeaveGroup names one member or, from version 3, several.
LeaveRequests ==
    {ids \in SUBSET (Identities \cup NoIdentities) : Cardinality(ids) \in 1 .. MaxLeaving}

LeaveStep ==
    \E g \in Copies, now \in Now, ids \in LeaveRequests :
        Leave(g, now, ids)

CommitStep ==
    \E g \in Copies, now \in Now, i \in Identities \cup NoIdentities,
       n \in Generations \cup {-1}, t \in BOOLEAN :
        OffsetCommit(g, now, CommitRequestOf(i, n, t))

(***************************************************************************)
(* Properties of the stored group.                                         *)
(***************************************************************************)
\* The stored group is never one that the code would have to repair: a forming
\* group with members always has a deadline that ends the phase it is in, its
\* leader can still sync, and static members are unique (administrator.rs).
GroupConsistent == IdsIssued(group, issued) /\ Consistent(group)

\* wait_for_change sleeps until next_deadline: before that time settle changes nothing.
NextDeadlineSound ==
    \A t \in 0 .. MaxTime :
        next_deadline(group) = None \/ t < next_deadline(group) => settle(group, t) = group

\* A request that settles the group leaves nothing due: settling again changes nothing.
SettleComplete ==
    \A t \in 0 .. MaxTime : settle(settle(group, t), t) = settle(group, t)

\* Reading a stored group back repairs nothing but the leader of a join phase
\* that removed it (with_storage_group_detail).
ReadBack ==
    with_storage_group_detail(group) # group =>
        /\ group.join_phase # None
        /\ with_storage_group_detail(group) = [group EXCEPT !.leader = None]

Next == Tick \/ JoinStep \/ SyncStep \/ HeartbeatStep \/ LeaveStep \/ CommitStep \/ Delete

Spec == Init /\ [][Next]_groupVars

\* The generation never goes back, except when the group is deleted.  A member that
\* knows a generation is told when it is over by this alone (complete_join).
GenerationMonotonic ==
    [][group'.generation_id >= group.generation_id \/ group' = NewGroup]_groupVars
=============================================================================
