---------------------------- MODULE ClassicGroup ----------------------------
(***************************************************************************)
(* The classic consumer group of nisshi-broker                             *)
(* (src/nisshi-broker/src/coordinator/group/administrator.rs): the group   *)
(* record that brokers store, and what settle, JoinGroup, SyncGroup,       *)
(* Heartbeat, LeaveGroup and OffsetCommit compute from it.  There is no    *)
(* state here: every operator maps a group, and the time now, to a group.  *)
(*                                                                         *)
(* Operators keep the names of the Rust functions.  A member id is a       *)
(* natural number, because the code orders ids only to take the first key  *)
(* of a BTreeMap.  Subscription metadata, protocols (a type and a name     *)
(* together) and partitions are opaque values.                             *)
(***************************************************************************)
EXTENDS Integers, Sequences, FiniteSetsExt

CONSTANTS
    MemberIds,              \* the ids that new_member_id can return
    Instances,              \* group.instance.id values of static members
    Metadata,               \* subscriptions
    Protocols,              \* assignment protocols
    Partitions,             \* what the leader divides
    InitialRebalanceDelay,  \* GroupCoordinatorConfig::initial_rebalance_delay
    FallbackSessionTimeout, \* FALLBACK_SESSION_TIMEOUT
    None                    \* Option::None

ASSUME MemberIdAssumption == MemberIds \subseteq Nat /\ None \notin Nat
ASSUME InstanceAssumption == None \notin Instances
ASSUME ProtocolAssumption == None \notin Protocols
ASSUME DelayAssumption == /\ InitialRebalanceDelay \in Nat
                          /\ FallbackSessionTimeout \in Nat \ {0}

\* The error codes of the replies.
ErrorCodes ==
    {"MEMBER_ID_REQUIRED", "INCONSISTENT_GROUP_PROTOCOL", "FENCED_INSTANCE_ID",
     "UNKNOWN_MEMBER_ID", "ILLEGAL_GENERATION", "REBALANCE_IN_PROGRESS"}

ASSUME ErrorAssumption == None \notin ErrorCodes

MEMBER_ID_REQUIRED_VERSION == 4
SKIP_ASSIGNMENT_VERSION == 9

(***************************************************************************)
(* The group record.  A forming group has no assignments and a formed one  *)
(* has no join phase.  A timeout of 0 stands for one that is not set.      *)
(***************************************************************************)
\* f maps some elements of S to elements of T.
IsMap(f, S, T) == DOMAIN f \subseteq S /\ f \in [DOMAIN f -> T]

Member == [instance : Instances \cup {None}, metadata : Metadata, last_contact : Nat]

InitialDelay == [delay : Nat, remaining : Nat, new_member_added : BOOLEAN]

JoinPhase == [deadline : Nat, joined : SUBSET MemberIds,
              initial_delay : InitialDelay \cup {None}]

PendingSync == [deadline : Nat, members : SUBSET MemberIds]

\* The groups with the given maps.
GroupDetail(members, pending_members, assignments) ==
    [state : {"Forming", "Formed"},
     session_timeout_ms : Nat,
     rebalance_timeout_ms : Nat,
     generation_id : Nat,
     members : {members},
     protocol : Protocols \cup {None},
     leader : MemberIds \cup {None},
     join_phase : JoinPhase \cup {None},
     pending_sync : PendingSync \cup {None},
     pending_members : {pending_members},
     assignments : {assignments}]

IsGroup(g) ==
    /\ g \in GroupDetail(g.members, g.pending_members, g.assignments)
    /\ IsMap(g.members, MemberIds, Member)
    /\ IsMap(g.pending_members, MemberIds, Nat)
    /\ IsMap(g.assignments, MemberIds, SUBSET Partitions)

ASSUME NoneAssumption ==
    None \notin JoinPhase /\ None \notin PendingSync /\ None \notin InitialDelay

NoEntries == [m \in {} |-> None]

\* Inner::new: the group that a broker starts from when storage holds none.
NewGroup ==
    [state |-> "Forming", session_timeout_ms |-> 0, rebalance_timeout_ms |-> 0,
     generation_id |-> 0, members |-> NoEntries, protocol |-> None, leader |-> None,
     join_phase |-> None, pending_sync |-> None, pending_members |-> NoEntries,
     assignments |-> NoEntries]

(***************************************************************************)
(* BTreeMap operations.                                                    *)
(***************************************************************************)
Insert(f, k, v) == [x \in DOMAIN f \cup {k} |-> IF x = k THEN v ELSE f[x]]

Remove(f, S) == Restrict(f, DOMAIN f \ S)

\* The entry of old, under the key new.
Rename(f, old, new) ==
    IF old \in DOMAIN f THEN Insert(Remove(f, {old}), new, f[old]) ELSE f

First(S) == IF S = {} THEN None ELSE Min(S)

(***************************************************************************)
(* Members and timeouts (impl Inner<O, S>).                                *)
(***************************************************************************)
session_timeout(g) ==
    IF g.session_timeout_ms > 0 THEN g.session_timeout_ms ELSE FallbackSessionTimeout

rebalance_timeout(g) ==
    IF g.rebalance_timeout_ms > 0 THEN g.rebalance_timeout_ms ELSE session_timeout(g)

static_member_id(g, instance) ==
    First({m \in DOMAIN g.members : g.members[m].instance = instance})

\* None if the request comes from a current member, else the error code.
validate_member(g, m, instance) ==
    IF /\ instance # None
       /\ static_member_id(g, instance) \notin {None, m}
    THEN "FENCED_INSTANCE_ID"
    ELSE IF \/ instance # None /\ static_member_id(g, instance) = None
            \/ m \notin DOMAIN g.members
         THEN "UNKNOWN_MEMBER_ID"
         ELSE None

has_joined_with(g, m, metadata) ==
    m \in DOMAIN g.members /\ g.members[m].metadata = metadata

\* Mutant of contact: entry(id).or_default() in place of get_mut(id).
contact_or_insert(g, S, now) ==
    [g EXCEPT !.members = [m \in DOMAIN @ \cup S |->
        [instance |-> IF m \in DOMAIN @ THEN @[m].instance ELSE None,
         metadata |-> IF m \in DOMAIN @ THEN @[m].metadata ELSE CHOOSE d \in Metadata : TRUE,
         last_contact |-> IF m \in S THEN now ELSE @[m].last_contact]]]

\* last_contact = Some(now) for each member of S.
contact(g, S, now) ==
    [g EXCEPT !.members = [m \in DOMAIN @ |->
        IF m \in S THEN [@[m] EXCEPT !.last_contact = now] ELSE @[m]]]

upsert_member(g, now, m, req) ==
    LET instance == IF m \in DOMAIN g.members THEN g.members[m].instance
                                              ELSE req.group_instance_id
    IN  [g EXCEPT
            !.rebalance_timeout_ms = Max({@, req.rebalance_timeout_ms}),
            !.members = Insert(@, m, [instance |-> instance, metadata |-> req.metadata,
                                      last_contact |-> now])]

forget_pending_members(g, now) ==
    [g EXCEPT !.pending_members = Remove(@, {m \in DOMAIN @ : @[m] <= now})]

\* Mutant of waiting: nobody waits in a join phase.
waiting_to_sync(g) ==
    IF g.state = "Formed" \/ g.join_phase # None THEN {}
    ELSE IF g.pending_sync = None THEN DOMAIN g.members
         ELSE DOMAIN g.members \ g.pending_sync.members

\* The members that wait in the join phase or for the leader's assignment.
waiting(g) ==
    CASE g.state = "Formed"                               -> {}
      [] g.state = "Forming" /\ g.join_phase # None       -> g.join_phase.joined
      [] g.state = "Forming" /\ g.join_phase = None
         /\ g.pending_sync = None                         -> DOMAIN g.members
      [] OTHER                            -> DOMAIN g.members \ g.pending_sync.members

remove_expired_members(g, now) ==
    [g EXCEPT !.members = Remove(@, {m \in DOMAIN @ \ waiting(g) :
                                        now - @[m].last_contact > session_timeout(g)})]

forget_pending_sync(g, S) ==
    IF g.pending_sync = None THEN g
    ELSE IF g.pending_sync.members \subseteq S
         THEN [g EXCEPT !.pending_sync = None]
         ELSE [g EXCEPT !.pending_sync.members = @ \ S]

remove_members_pending_sync(g, now) ==
    IF g.pending_sync # None /\ g.pending_sync.deadline <= now
    THEN [g EXCEPT !.members = Remove(@, g.pending_sync.members),
                   !.pending_sync = None]
    ELSE g

(***************************************************************************)
(* A group in a rebalance (impl Inner<O, Forming>).                        *)
(***************************************************************************)
is_completing_rebalance(g) ==
    /\ g.state = "Forming"
    /\ g.join_phase = None
    /\ DOMAIN g.members # {}

forget_removed_members(g) ==
    LET ids == DOMAIN g.members
    IN  [g EXCEPT
            !.leader = IF @ \in ids \cup {None} THEN @ ELSE First(ids),
            !.join_phase = IF @ = None THEN @
                           ELSE [@ EXCEPT !.joined = g.join_phase.joined \cap ids],
            !.pending_sync = IF @ = None THEN @
                             ELSE [@ EXCEPT !.members = g.pending_sync.members \cap ids]]

\* remove_expired: the two are one step for a forming group.
remove_expired(g, now) ==
    LET r == remove_expired_members(g, now)
    IN  IF g.state = "Forming" /\ r.members # g.members THEN forget_removed_members(r) ELSE r

synced(g) == IF g.pending_sync = None THEN DOMAIN g.members
                                      ELSE DOMAIN g.members \ g.pending_sync.members

restart_sessions_of_synced_members(g, now) == contact(g, synced(g), now)

start_join_phase(g, now) ==
    [g EXCEPT !.pending_sync = None,
              !.join_phase = [deadline |-> now + rebalance_timeout(g), joined |-> {},
                              initial_delay |-> None]]

prepare_rebalance(g, now) ==
    start_join_phase(IF is_completing_rebalance(g)
                     THEN restart_sessions_of_synced_members(g, now) ELSE g, now)

prepare_initial_rebalance(g, now) ==
    [g EXCEPT !.pending_sync = None,
              !.join_phase =
                [deadline |-> now + InitialRebalanceDelay, joined |-> {},
                 initial_delay |->
                    [delay |-> InitialRebalanceDelay,
                     remaining |-> Max({0, rebalance_timeout(g) - InitialRebalanceDelay}),
                     new_member_added |-> FALSE]]]

all_members_joined(g) ==
    /\ DOMAIN g.pending_members = {}
    /\ g.join_phase # None
    /\ DOMAIN g.members \subseteq g.join_phase.joined

\* complete_join of a group whose members are now the ones kept: only static
\* members that did not rejoin, nobody, or the members of the next generation.
wait_for_static_members(g, now) ==
    [g EXCEPT !.join_phase = [deadline |-> now + rebalance_timeout(g), joined |-> {},
                              initial_delay |-> None]]

\* Mutant of become_empty: an empty group starts over at generation 0.
become_new(g) ==
    [g EXCEPT !.join_phase = None, !.pending_sync = None, !.protocol = None,
              !.leader = None, !.generation_id = 0]

become_empty(g) ==
    [g EXCEPT !.join_phase = None, !.pending_sync = None, !.protocol = None,
              !.leader = None, !.generation_id = @ + 1]

\* Mutant of start_generation: nobody is waited for to sync.
start_generation_without_sync(g, now) ==
    LET ids == DOMAIN g.members
        joined == g.join_phase.joined
    IN  [contact(g, ids, now) EXCEPT
            !.join_phase = None,
            !.leader = IF @ \in joined THEN @ ELSE First(ids \cap joined),
            !.generation_id = @ + 1]

\* Mutant of start_generation: the members go on in the old generation.
restart_generation(g, now) ==
    LET ids == DOMAIN g.members
        joined == g.join_phase.joined
    IN  [contact(g, ids, now) EXCEPT
            !.join_phase = None,
            !.leader = IF @ \in joined THEN @ ELSE First(ids \cap joined),
            !.generation_id = Max({1, @}),
            !.pending_sync = [deadline |-> now + rebalance_timeout(g), members |-> ids]]

start_generation(g, now) ==
    LET ids == DOMAIN g.members
        joined == g.join_phase.joined
    IN  [contact(g, ids, now) EXCEPT
            !.join_phase = None,
            !.leader = IF @ \in joined THEN @ ELSE First(ids \cap joined),
            !.generation_id = @ + 1,
            !.pending_sync = [deadline |-> now + rebalance_timeout(g), members |-> ids]]

complete_join(g, now) ==
    LET joined == g.join_phase.joined
        kept == {m \in DOMAIN g.members : m \in joined \/ g.members[m].instance # None}
        k == [g EXCEPT !.members = Restrict(@, kept)]
    IN  IF kept = {} THEN become_empty(k)
        ELSE IF kept \cap joined = {} THEN wait_for_static_members(k, now)
             ELSE start_generation(k, now)

complete_join_if_all_joined(g, now) ==
    IF all_members_joined(g) THEN complete_join(g, now) ELSE g

complete_join_if_all_joined_after_join(g, now) ==
    IF g.join_phase # None /\ g.join_phase.initial_delay = None
    THEN complete_join_if_all_joined(g, now)
    ELSE g

\* One more delay for an empty group that a new member joined, if any is left.
extends_delay(j) ==
    /\ j.initial_delay # None
    /\ j.initial_delay.new_member_added
    /\ j.initial_delay.remaining > 0

extend_delay(j) ==
    LET delay == Min({j.initial_delay.delay, j.initial_delay.remaining})
    IN  [j EXCEPT
            !.deadline = @ + delay,
            !.initial_delay = [delay |-> delay,
                               remaining |-> Max({0, @.remaining - @.delay}),
                               new_member_added |-> FALSE]]

\* Mutant of end_join_phase_after_deadline: no loop, so one extension ends the turn.
end_join_phase_once(g, now) ==
    IF g.join_phase = None \/ g.join_phase.deadline > now THEN g
    ELSE IF extends_delay(g.join_phase) THEN [g EXCEPT !.join_phase = extend_delay(@)]
         ELSE complete_join(g, now)

\* The loop runs at most twice: an extended delay has no new member, and a
\* completed join leaves no join phase, or one with a later deadline.
end_join_phase_after_deadline(g, now) ==
    LET due(h) == h.join_phase # None /\ h.join_phase.deadline <= now
        e == IF due(g) /\ extends_delay(g.join_phase)
             THEN [g EXCEPT !.join_phase = extend_delay(@)] ELSE g
    IN  IF due(e) THEN complete_join(e, now) ELSE e

\* Formed: the group starts to rebalance.
into_preparing_rebalance(g, now) ==
    start_join_phase(
        [g EXCEPT !.state = "Forming",
                  !.assignments = NoEntries,
                  !.leader = IF @ \in DOMAIN g.members THEN @ ELSE First(DOMAIN g.members)],
        now)

(***************************************************************************)
(* Reading a stored group, and the changes that the passing of time makes. *)
(***************************************************************************)
with_storage_group_detail(g) ==
    LET h == [g EXCEPT !.leader = IF @ \in DOMAIN g.members THEN @ ELSE None]
        last_contact == Max({h.members[m].last_contact : m \in DOMAIN h.members})
    IN  IF g.state = "Formed" THEN g
        ELSE IF is_completing_rebalance(h) /\ h.pending_sync = None
             THEN [h EXCEPT !.join_phase =
                    [deadline |-> last_contact + rebalance_timeout(h), joined |-> {},
                     initial_delay |-> None]]
             ELSE h

settle_forming(g, now) ==
    LET f == forget_pending_members(g, now)
        r == remove_expired(f, now)
        forgot == f # g
        removed == r # f
        s == IF removed THEN r ELSE remove_members_pending_sync(r, now)
    IN  IF r.join_phase # None
        THEN end_join_phase_after_deadline(
                IF forgot \/ removed THEN complete_join_if_all_joined(r, now) ELSE r, now)
        ELSE IF is_completing_rebalance(g) /\ s.members # f.members
             THEN complete_join_if_all_joined(
                    prepare_rebalance(forget_removed_members(s), now), now)
             ELSE IF is_completing_rebalance(g) THEN s ELSE r

settle_formed(g, now) ==
    LET f == forget_pending_members(g, now)
        s == remove_members_pending_sync(remove_expired(f, now), now)
    IN  IF s.members # f.members
        THEN complete_join_if_all_joined(into_preparing_rebalance(s, now), now)
        ELSE s

settle(g, now) ==
    IF g.state = "Forming" THEN settle_forming(g, now) ELSE settle_formed(g, now)

\* Mutant of deadlines: the ids that were handed out and not used are forgotten.
deadlines_of_members(g) ==
    (IF g.state = "Forming" /\ g.join_phase # None THEN {g.join_phase.deadline} ELSE {})
    \cup (IF g.pending_sync # None THEN {g.pending_sync.deadline} ELSE {})
    \cup {g.members[m].last_contact + session_timeout(g) : m \in DOMAIN g.members \ waiting(g)}

\* The times at which settle may change the group; next_deadline is the first.
deadlines(g) ==
    (IF g.state = "Forming" /\ g.join_phase # None THEN {g.join_phase.deadline} ELSE {})
    \cup (IF g.pending_sync # None THEN {g.pending_sync.deadline} ELSE {})
    \cup {g.pending_members[m] : m \in DOMAIN g.pending_members}
    \cup {g.members[m].last_contact + session_timeout(g) : m \in DOMAIN g.members \ waiting(g)}

next_deadline(g) == First(deadlines(g))
(***************************************************************************)
(* Requests.  Each operator returns the group after the request and the    *)
(* reply; the group is the one that settle returned.  A reply that is held *)
(* is sent later, when the request runs again on a changed group.          *)
(***************************************************************************)
Result(g, reply) == [group |-> g, reply |-> reply]

Error(m, code) == [kind |-> "error", member |-> m, error |-> code]

Held(m) == [kind |-> "held", member |-> m]

\* join_response; the member list goes to the leader only.
Joined(g, m, leader, skip) ==
    [kind |-> "joined", member |-> m, generation |-> g.generation_id, leader |-> leader,
     skip_assignment |-> skip, members |-> IF leader = m THEN DOMAIN g.members ELSE {}]

\* sync_response
Synced(g, m) ==
    [kind |-> "synced", member |-> m, generation |-> g.generation_id,
     assignment |-> IF m \in DOMAIN g.assignments THEN g.assignments[m] ELSE {}]

Done(m) == [kind |-> "done", member |-> m]

\* A client assigns if the response names it the leader, and does not tell it to skip.
Assigner(reply) ==
    IF reply.kind = "joined" /\ reply.leader = reply.member /\ ~reply.skip_assignment
    THEN {reply.member} ELSE {}

Delivery(reply) ==
    IF reply.kind = "synced" /\ reply.assignment # {}
    THEN {[member |-> reply.member, partitions |-> reply.assignment]} ELSE {}

(***************************************************************************)
(* JoinGroup.  req.protocols is the preference list of the client and new  *)
(* is the id that new_member_id returns, if the request needs one.         *)
(***************************************************************************)
JoinRequest ==
    [member_id : MemberIds \cup {None}, group_instance_id : Instances \cup {None},
     api_version : Nat, session_timeout_ms : Nat \ {0}, rebalance_timeout_ms : Nat,
     protocols : Seq(Protocols), metadata : Metadata]

\* None if the member cannot join with a protocol of the group.
joining_protocol(g, req) ==
    IF g.protocol = None
    THEN IF req.protocols = <<>> THEN None ELSE Head(req.protocols)
    ELSE IF g.protocol \in Range(req.protocols) THEN g.protocol ELSE None

mark_joined(g, m) ==
    IF g.join_phase = None THEN g ELSE [g EXCEPT !.join_phase.joined = @ \cup {m}]

reply_to_joined(g, m) ==
    IF g.join_phase = None /\ m \in DOMAIN g.members
    THEN Joined(g, m, g.leader, FALSE)
    ELSE Held(m)

\* How add_member, update_member and replace_static_member end.
finish_join(g, now, m) ==
    LET c == complete_join_if_all_joined_after_join(mark_joined(g, m), now)
    IN  Result(c, reply_to_joined(c, m))

\* The protocol and the session timeout come from the member that forms the group.
set_protocol(g, req) ==
    IF g.protocol # None THEN g
    ELSE [g EXCEPT !.protocol = joining_protocol(g, req),
                   !.session_timeout_ms = req.session_timeout_ms,
                   !.rebalance_timeout_ms = 0]

note_new_member(j) ==
    IF j.initial_delay = None THEN j ELSE [j EXCEPT !.initial_delay.new_member_added = TRUE]

add_member(g, now, m, req) ==
    LET u == upsert_member(set_protocol(g, req), now, m, req)
        l == [u EXCEPT !.leader = IF @ = None THEN m ELSE @]
        is_empty == DOMAIN g.members = {}
    IN  finish_join(IF g.join_phase # None
                    THEN [l EXCEPT !.join_phase = note_new_member(@)]
                    ELSE IF is_empty THEN prepare_initial_rebalance(l, now)
                         ELSE prepare_rebalance(l, now),
                    now, m)

update_member(g, now, m, req) ==
    LET u == upsert_member(g, now, m, req)
    IN  IF /\ g.join_phase # None
           /\ m \in g.join_phase.joined
           /\ has_joined_with(g, m, req.metadata)
        THEN Result(g, reply_to_joined(g, m))
        ELSE finish_join(IF g.join_phase = None THEN prepare_rebalance(u, now) ELSE u, now, m)

\* Mutant of replace_static_member: the old id still counts as joined.
rename_static_member(g, now, old, new, req) ==
    LET r == [g EXCEPT !.members = Rename(@, old, new),
                       !.leader = IF @ = old THEN new ELSE @]
        u == upsert_member(r, now, new, req)
    IN  finish_join(IF g.join_phase = None THEN prepare_rebalance(u, now) ELSE u, now, new)

replace_static_member(g, now, old, new, req) ==
    LET r == [g EXCEPT
                !.members = Rename(@, old, new),
                !.leader = IF @ = old THEN new ELSE @,
                !.join_phase = IF @ = None THEN @
                               ELSE [@ EXCEPT !.joined = g.join_phase.joined \ {old}]]
        u == upsert_member(r, now, new, req)
    IN  finish_join(IF g.join_phase = None THEN prepare_rebalance(u, now) ELSE u, now, new)

\* Mutant of take_place: skip_assignment is never set.
take_place_and_assign(g, now, old, new, req) ==
    LET r == [g EXCEPT
                !.members = Rename(@, old, new),
                !.assignments = Rename(@, old, new),
                !.leader = IF @ = old THEN new ELSE @,
                !.pending_sync = IF @ # None /\ old \in @.members
                                 THEN [@ EXCEPT !.members =
                                        (g.pending_sync.members \ {old}) \cup {new}]
                                 ELSE @]
        u == upsert_member(r, now, new, req)
    IN  Result(u, Joined(u, new, u.leader, FALSE))

\* A restarted static member of a stable group takes its place without a rebalance.
\* Before version 9 a restarted leader learns the old leader id and syncs as a follower.
take_place(g, now, old, new, req) ==
    LET r == [g EXCEPT
                !.members = Rename(@, old, new),
                !.assignments = Rename(@, old, new),
                !.leader = IF @ = old THEN new ELSE @,
                !.pending_sync = IF @ # None /\ old \in @.members
                                 THEN [@ EXCEPT !.members =
                                        (g.pending_sync.members \ {old}) \cup {new}]
                                 ELSE @]
        u == upsert_member(r, now, new, req)
    IN  Result(u, IF req.api_version >= SKIP_ASSIGNMENT_VERSION
                  THEN Joined(u, new, u.leader, u.leader = new)
                  ELSE Joined(u, new, g.leader, FALSE))

add_pending(g, now, new, req) ==
    Result([g EXCEPT !.pending_members = Insert(@, new, now + req.session_timeout_ms)],
           Error(new, "MEMBER_ID_REQUIRED"))

\* A formed group starts a rebalance before it adds or updates a member.
preparing(g, now) == IF g.state = "Formed" THEN into_preparing_rebalance(g, now) ELSE g

\* A JoinGroup without a member id (NewMember::of).
join_new(g, now, req, new) ==
    LET old == IF req.group_instance_id = None THEN None
               ELSE static_member_id(g, req.group_instance_id)
    IN  IF req.group_instance_id = None /\ req.api_version >= MEMBER_ID_REQUIRED_VERSION
        THEN add_pending(g, now, new, req)
        ELSE IF old = None THEN add_member(preparing(g, now), now, new, req)
             ELSE IF g.state = "Formed" THEN take_place(g, now, old, new, req)
                  ELSE replace_static_member(g, now, old, new, req)

join_pending(g, now, req) ==
    LET m == req.member_id
    IN  add_member(preparing([g EXCEPT !.pending_members = Remove(@, {m})], now), now, m, req)

\* A member that rejoins with the same metadata gets the current generation, but
\* the leader of a formed group starts a rebalance.
join_existing(g, now, req) ==
    LET m == req.member_id
        same == has_joined_with(g, m, req.metadata)
    IN  IF is_completing_rebalance(g) /\ same
        THEN Result(g, Joined(g, m, g.leader, FALSE))
        ELSE IF g.state = "Formed" /\ g.leader # m /\ same
             THEN Result(g, Joined(g, m, g.leader, FALSE))
             ELSE update_member(preparing(g, now), now, m, req)

join(g, now, req, new) ==
    LET invalid == validate_member(g, req.member_id, req.group_instance_id)
    IN  IF joining_protocol(g, req) = None
        THEN Result(g, Error(req.member_id, "INCONSISTENT_GROUP_PROTOCOL"))
        ELSE IF req.member_id = None THEN join_new(g, now, req, new)
        ELSE IF req.member_id \in DOMAIN g.pending_members THEN join_pending(g, now, req)
        ELSE IF invalid # None THEN Result(g, Error(req.member_id, invalid))
        ELSE join_existing(g, now, req)

(***************************************************************************)
(* SyncGroup.  req.protocol is None if the request does not name one, and  *)
(* req.assignments is empty unless the client believes it is the leader.   *)
(***************************************************************************)
sync_error(g, req) ==
    LET invalid == validate_member(g, req.member_id, req.group_instance_id)
    IN  CASE invalid # None -> invalid
          [] invalid = None /\ req.generation_id # g.generation_id -> "ILLEGAL_GENERATION"
          [] invalid = None /\ req.generation_id = g.generation_id
             /\ g.protocol # None /\ req.protocol \notin {None, g.protocol}
             -> "INCONSISTENT_GROUP_PROTOCOL"
          [] OTHER -> None

form(g, now, req) ==
    LET given == req.assignments
    IN  [restart_sessions_of_synced_members(g, now) EXCEPT
            !.state = "Formed",
            !.assignments = [m \in DOMAIN g.members |->
                                IF m \in DOMAIN given THEN given[m] ELSE {}]]

sync_forming(g, now, req) ==
    LET m == req.member_id
        f == forget_pending_sync(g, {m})
    IN  IF g.join_phase # None THEN Result(g, Error(m, "REBALANCE_IN_PROGRESS"))
        ELSE IF f.leader = None THEN Result(f, Error(m, "REBALANCE_IN_PROGRESS"))
        ELSE IF f.leader # m THEN Result(f, Held(m))
        ELSE Result(form(f, now, req), Synced(form(f, now, req), m))

sync_formed(g, now, req) ==
    LET m == req.member_id
        f == IF g.pending_sync # None /\ m \in g.pending_sync.members
             THEN contact(forget_pending_sync(g, {m}), {m}, now) ELSE g
    IN  Result(f, Synced(f, m))

sync(g, now, req) ==
    IF sync_error(g, req) # None
    THEN Result(g, Error(req.member_id, sync_error(g, req)))
    ELSE IF g.state = "Forming" THEN sync_forming(g, now, req) ELSE sync_formed(g, now, req)

(***************************************************************************)
(* Heartbeat, LeaveGroup and the check of an OffsetCommit.                 *)
(***************************************************************************)
heartbeat(g, now, req) ==
    LET m == req.member_id
        invalid == validate_member(g, m, req.group_instance_id)
    IN  IF invalid # None THEN Result(g, Error(m, invalid))
        ELSE IF req.generation_id # g.generation_id
             THEN Result(g, Error(m, "ILLEGAL_GENERATION"))
             ELSE Result(contact(g, {m}, now),
                         IF g.join_phase # None THEN Error(m, "REBALANCE_IN_PROGRESS")
                                                ELSE Done(m))

\* The members, and the pending ids, that a LeaveGroup for these identities removes.
leaving_members(g, identities) ==
    {m \in DOMAIN g.members : \E i \in identities :
        IF i.group_instance_id # None
        THEN m = static_member_id(g, i.group_instance_id) /\ i.member_id \in {None, m}
        ELSE m = i.member_id /\ m \notin DOMAIN g.pending_members}

leaving_pending(g, identities) ==
    {m \in DOMAIN g.pending_members : \E i \in identities :
        i.group_instance_id = None /\ i.member_id = m}

remove_leaving_members(g, identities) ==
    LET gone == leaving_members(g, identities)
    IN  forget_pending_sync(
            [g EXCEPT !.members = Remove(@, gone),
                      !.pending_members = Remove(@, leaving_pending(g, identities))],
            gone)

leave(g, now, identities) ==
    LET r == remove_leaving_members(g, identities)
        f == forget_removed_members(r)
    IN  IF leaving_members(g, identities) \cup leaving_pending(g, identities) = {} THEN g
        ELSE IF g.state = "Formed"
        THEN complete_join_if_all_joined(into_preparing_rebalance(r, now), now)
        ELSE IF g.join_phase # None THEN complete_join_if_all_joined_after_join(f, now)
        ELSE IF is_completing_rebalance(g)
        THEN complete_join_if_all_joined(prepare_rebalance(f, now), now)
        ELSE f

\* None if the commit is accepted, else the error code.
offset_commit_error(g, req) ==
    LET m == req.member_id
        invalid == validate_member(g, m, req.group_instance_id)
        named == \/ req.generation_id >= 0
                 \/ m # None
                 \/ req.group_instance_id # None
    IN  CASE req.generation_id < 0 /\ DOMAIN g.members = {} -> None
          [] OTHER ->
             IF named /\ invalid # None THEN invalid
             ELSE IF named /\ req.generation_id # g.generation_id THEN "ILLEGAL_GENERATION"
             ELSE IF ~named THEN "UNKNOWN_MEMBER_ID"
             ELSE IF is_completing_rebalance(g) /\ ~req.is_transactional
                  THEN "REBALANCE_IN_PROGRESS"
                  ELSE None

\* An accepted commit of a member, unless transactional, counts as contact.
check_offset_commit(g, now, req) ==
    LET m == req.member_id
        error == offset_commit_error(g, req)
    IN  IF error # None THEN Result(g, Error(m, error))
        ELSE Result(IF req.is_transactional THEN g ELSE contact(g, {m}, now), Done(m))

(***************************************************************************)
(* The invariant of the stored group, in parts.                            *)
(***************************************************************************)
\* The ids in the group were given out, and a member's instance is the one it got its id for.
IdsIssued(g, ids) ==
    /\ DOMAIN g.members \cup DOMAIN g.pending_members \subseteq DOMAIN ids
    /\ \A m \in DOMAIN g.members : g.members[m].instance = ids[m]
    /\ \A m \in DOMAIN g.pending_members : ids[m] = None
    /\ DOMAIN g.members \cap DOMAIN g.pending_members = {}

\* Two members never hold the same group instance id.
InstancesUnique(g) ==
    \A m, n \in DOMAIN g.members :
        m # n /\ g.members[m].instance # None => g.members[m].instance # g.members[n].instance

\* A formed group: the leader is a member and has synced, and every member has an assignment.
FormedConsistent(g) ==
    g.state = "Formed" =>
        /\ g.join_phase = None
        /\ g.leader \in DOMAIN g.members
        /\ DOMAIN g.assignments = DOMAIN g.members
        /\ g.pending_sync # None => g.leader \notin g.pending_sync.members

\* A join phase: whoever joined is a member, and nobody is waited for to sync.
PreparingConsistent(g) ==
    g.join_phase # None =>
        /\ g.pending_sync = None
        /\ g.join_phase.joined \subseteq DOMAIN g.members

\* A group that waits for the assignment waits for the leader, until a deadline.
CompletingConsistent(g) ==
    is_completing_rebalance(g) =>
        /\ g.pending_sync # None
        /\ g.leader \in g.pending_sync.members

\* A group has a protocol unless it is empty, and an empty one waits for nobody.
EmptyConsistent(g) ==
    /\ g.protocol = None <=> DOMAIN g.members = {} /\ g.join_phase = None
    /\ g.protocol = None => g.leader = None
    /\ g.pending_sync # None => /\ g.pending_sync.members # {}
                                /\ g.pending_sync.members \subseteq DOMAIN g.members

Consistent(g) ==
    /\ InstancesUnique(g)
    /\ FormedConsistent(g)
    /\ PreparingConsistent(g)
    /\ CompletingConsistent(g)
    /\ EmptyConsistent(g)
=============================================================================
