---------------------------- MODULE GroupProofs -----------------------------
(***************************************************************************)
(* Every reachable group is well typed and consistent, for any number of   *)
(* members, any timeouts and any clock, and what time does to it is due    *)
(* neither before next_deadline nor after settle.                          *)
(***************************************************************************)
EXTENDS Group, ClassicGroupProofs

Inv == TypeOK /\ GroupConsistent

\* Identities and requests that a client can send.
LEMMA JoinRequestType ==
  ASSUME TypeOK, NEW i \in Identities \cup NoIdentities, NEW o \in JoinOptions
  PROVE  /\ JoinRequestOf(i, o) \in JoinRequest
         /\ JoinRequestOf(i, o).member_id = i.member_id
         /\ JoinRequestOf(i, o).group_instance_id = i.group_instance_id
         /\ i.member_id # None => /\ i.member_id \in DOMAIN issued
                                  /\ issued[i.member_id] = i.group_instance_id
<1>1. IsMap(issued, MemberIds, Instances \cup {None})
  BY DEF TypeOK
<1>2. /\ i.member_id \in MemberIds \cup {None}
      /\ i.group_instance_id \in Instances \cup {None}
      /\ i.member_id # None => /\ i.member_id \in DOMAIN issued
                               /\ issued[i.member_id] = i.group_instance_id
  BY <1>1 DEF Identities, NoIdentities, IsMap
<1> QED BY <1>2, OptionsAssumption DEF JoinRequestOf, JoinRequest

LEMMA RequestJoinsAs ==
  ASSUME TypeOK, NEW i \in Identities \cup NoIdentities, NEW o \in JoinOptions, NEW new \in NewIds(i)
  PROVE  JoinsAs(JoinRequestOf(i, o), new, issued)
<1> DEFINE req == JoinRequestOf(i, o)
<1>1. /\ req \in JoinRequest
      /\ req.member_id = i.member_id
      /\ req.group_instance_id = i.group_instance_id
      /\ i.member_id # None => /\ i.member_id \in DOMAIN issued
                               /\ issued[i.member_id] = i.group_instance_id
  BY JoinRequestType
<1> HIDE DEF req
<1>2. IsMap(issued, MemberIds, Instances \cup {None})
  BY DEF TypeOK
<1>3. JoinsAs(req, new, issued)
  BY <1>1, <1>2 DEF JoinsAs, NewIds, IsMap
<1> QED BY <1>3 DEF req

LEMMA JoinOK ==
  ASSUME TypeOK, NEW g, OK(g), IdsIssued(g, issued), NEW now \in Nat,
         NEW i \in Identities \cup NoIdentities, NEW o \in JoinOptions, NEW new \in NewIds(i)
  PROVE  LET req == JoinRequestOf(i, o)
             r == join(g, now, req, new)
             ids == IF r.reply.member = new THEN Insert(issued, new, req.group_instance_id)
                                            ELSE issued
         IN  /\ OK(r.group)
             /\ IdsIssued(r.group, ids)
             /\ IsMap(ids, MemberIds, Instances \cup {None})
<1> DEFINE req == JoinRequestOf(i, o)
<1>1. IsMap(issued, MemberIds, Instances \cup {None})
  BY DEF TypeOK
<1>2. JoinsAs(req, new, issued)
  BY RequestJoinsAs
<1> HIDE DEF req
<1> QED BY <1>1, <1>2, JoinGroupOK DEF req, WithReply

\* The group that a request runs on.
LEMMA SettledOK ==
  ASSUME Inv, NEW g \in Copies, NEW now \in Now
  PROVE  /\ now \in Nat
         /\ OK(settle(g, now))
         /\ IdsIssued(settle(g, now), issued)
<1>1. OK(group) /\ IdsIssued(group, issued)
  BY DEF Inv, TypeOK, GroupConsistent, OK
<1>2. OK(g) /\ Shrinks(group, g)
  BY <1>1, WithStorageOK, ShrinksReflexive DEF Copies
<1>3. now \in Nat
  BY DEF Now, Inv, TypeOK
<1>4. OK(settle(g, now)) /\ Shrinks(g, settle(g, now))
  BY <1>2, <1>3, SettleOK
<1>5. IdsIssued(settle(g, now), issued)
  BY <1>1, <1>2, <1>4, ShrinksIds, ShrinksTransitive
<1> QED BY <1>3, <1>4, <1>5

\* A step that stores a consistent group with known ids.
LEMMA StoreInv ==
  ASSUME Inv, NEW g, OK(g), IdsIssued(g, issued'), Store(g),
         IsMap(issued', MemberIds, Instances \cup {None})
  PROVE  Inv'
BY DEF Inv, TypeOK, GroupConsistent, Store, OK

LEMMA StoreShrunk ==
  ASSUME Inv, NEW g, NEW h, IdsIssued(g, issued), OK(h), Shrinks(g, h), Store(h),
         UNCHANGED issued
  PROVE  Inv'
<1>1. IdsIssued(h, issued)
  BY ShrinksIds
<1>2. IsMap(issued, MemberIds, Instances \cup {None})
  BY DEF Inv, TypeOK
<1> QED BY <1>1, <1>2, StoreInv

LEMMA NextInv ==
  Inv /\ [Next]_groupVars => Inv'
<1> SUFFICES ASSUME Inv, [Next]_groupVars PROVE Inv'
  OBVIOUS
<1>1. CASE Tick
  <2>1. group' = group /\ issued' = issued /\ clock' \in Nat
    BY <1>1 DEF Tick, Inv, TypeOK
  <2> QED BY <2>1 DEF Inv, TypeOK, GroupConsistent
<1>2. CASE JoinStep
  <2>1. PICK g \in Copies, now \in Now, i \in Identities \cup NoIdentities, o \in JoinOptions :
            \E new \in NewIds(i) : Join(g, now, JoinRequestOf(i, o), new)
    BY <1>2 DEF JoinStep
  <2>2. PICK new \in NewIds(i) : Join(g, now, JoinRequestOf(i, o), new)
    BY <2>1
  <2> DEFINE s == settle(g, now)
             req == JoinRequestOf(i, o)
             r == join(s, now, req, new)
             ids == IF r.reply.member = new THEN Insert(issued, new, req.group_instance_id)
                                            ELSE issued
  <2>3. now \in Nat /\ OK(s) /\ IdsIssued(s, issued)
    BY SettledOK
  <2>4. Store(r.group) /\ issued' = ids
    BY <2>2 DEF Join
  <2> HIDE DEF s
  <2>5. /\ OK(r.group)
        /\ IdsIssued(r.group, ids)
        /\ IsMap(ids, MemberIds, Instances \cup {None})
    BY <2>3, JoinOK DEF Inv
  <2> HIDE DEF r, ids
  <2> QED BY <2>4, <2>5, StoreInv
<1>3. CASE SyncStep
  <2>1. PICK g \in Copies, now \in Now, i \in Identities, n \in Generations,
             p \in Protocols \cup {None}, plan \in Plans :
            Sync(g, now, SyncRequestOf(i, n, p, plan))
    BY <1>3 DEF SyncStep
  <2> DEFINE s == settle(g, now)
             req == SyncRequestOf(i, n, p, plan)
             h == sync(s, now, req).group
  <2>2. now \in Nat /\ OK(s) /\ IdsIssued(s, issued)
    BY SettledOK
  <2>3. plan \in [MemberIds -> SUBSET Partitions]
    BY DEF Plans
  <2>4. req.assignments \in [MemberIds -> SUBSET Partitions]
    BY <2>3 DEF SyncRequestOf
  <2>5. Store(h) /\ UNCHANGED issued
    BY <2>1 DEF Sync
  <2> HIDE DEF s, req
  <2>6. OK(h) /\ Shrinks(s, h)
    BY <2>2, <2>4, SyncOK
  <2> HIDE DEF h
  <2> QED BY <2>2, <2>5, <2>6, StoreShrunk
<1>4. CASE HeartbeatStep
  <2>1. PICK g \in Copies, now \in Now, i \in Identities, n \in Generations :
            Heartbeat(g, now, MemberRequestOf(i, n))
    BY <1>4 DEF HeartbeatStep
  <2> DEFINE s == settle(g, now)
             h == heartbeat(s, now, MemberRequestOf(i, n)).group
  <2>2. now \in Nat /\ OK(s) /\ IdsIssued(s, issued)
    BY SettledOK
  <2>3. Store(h) /\ UNCHANGED issued
    BY <2>1 DEF Heartbeat
  <2> HIDE DEF s
  <2>4. OK(h) /\ Shrinks(s, h)
    BY <2>2, HeartbeatOK
  <2> HIDE DEF h
  <2> QED BY <2>2, <2>3, <2>4, StoreShrunk
<1>5. CASE LeaveStep
  <2>1. PICK g \in Copies, now \in Now, ids \in LeaveRequests : Leave(g, now, ids)
    BY <1>5 DEF LeaveStep
  <2> DEFINE s == settle(g, now)
             h == leave(s, now, ids)
  <2>2. now \in Nat /\ OK(s) /\ IdsIssued(s, issued)
    BY SettledOK
  <2>3. Store(h) /\ UNCHANGED issued
    BY <2>1 DEF Leave
  <2> HIDE DEF s
  <2>4. OK(h) /\ Shrinks(s, h)
    BY <2>2, LeaveOK
  <2> HIDE DEF h
  <2> QED BY <2>2, <2>3, <2>4, StoreShrunk
<1>6. CASE CommitStep
  <2>1. PICK g \in Copies, now \in Now, i \in Identities \cup NoIdentities,
             n \in Generations \cup {-1}, t \in BOOLEAN :
            OffsetCommit(g, now, CommitRequestOf(i, n, t))
    BY <1>6 DEF CommitStep
  <2> DEFINE s == settle(g, now)
             h == check_offset_commit(s, now, CommitRequestOf(i, n, t)).group
  <2>2. now \in Nat /\ OK(s) /\ IdsIssued(s, issued)
    BY SettledOK
  <2>3. Store(h) /\ UNCHANGED issued
    BY <2>1 DEF OffsetCommit
  <2> HIDE DEF s
  <2>4. OK(h) /\ Shrinks(s, h)
    BY <2>2, OffsetCommitOK
  <2> HIDE DEF h
  <2> QED BY <2>2, <2>3, <2>4, StoreShrunk
<1>7. CASE Delete
  <2>1. group' = NewGroup /\ clock' = clock /\ issued' = issued
    BY <1>7 DEF Delete
  <2>2. IdsIssued(NewGroup, issued)
    BY NewGroupOK DEF IdsIssued
  <2> QED BY <2>1, <2>2, NewGroupOK DEF Inv, TypeOK, GroupConsistent, OK
<1>8. CASE UNCHANGED groupVars
  BY <1>8 DEF groupVars, Inv, TypeOK, GroupConsistent
<1> QED BY <1>1, <1>2, <1>3, <1>4, <1>5, <1>6, <1>7, <1>8 DEF Next

LEMMA InitInv == Init => Inv
<1> SUFFICES ASSUME Init PROVE Inv
  OBVIOUS
<1>1. IsMap(issued, MemberIds, Instances \cup {None})
  BY DEF Init, IsMap, NoEntries
<1>2. IdsIssued(group, issued)
  BY NewGroupOK DEF Init, IdsIssued
<1> QED BY <1>1, <1>2, NewGroupOK DEF Init, Inv, TypeOK, GroupConsistent, OK

\* Whatever the requests, their order and their times: the group that brokers
\* store is one that with_storage_group_detail can read, and it is consistent.
THEOREM GroupInvariant == Spec => []Inv
<1>1. Init => Inv
  BY InitInv
<1>2. Inv /\ [Next]_groupVars => Inv'
  BY NextInv
<1> QED BY <1>1, <1>2, PTL DEF Spec

\* The stored group always has the type of a GroupDetail.
THEOREM TypeCorrect == Spec => []TypeOK
<1>1. Inv => TypeOK
  BY DEF Inv
<1> QED BY <1>1, GroupInvariant, PTL

\* A member that waits is waited for until a deadline, the leader of a formed
\* group is a member that has synced, static members are unique, and whoever is
\* in the group was given its id.
THEOREM GroupAlwaysConsistent == Spec => []GroupConsistent
<1>1. Inv => GroupConsistent
  BY DEF Inv
<1> QED BY <1>1, GroupInvariant, PTL

(***************************************************************************)
(* What is due.                                                            *)
(***************************************************************************)
Fresh(g, m, now) == now - g.members[m].last_contact <= session_timeout(g)

\* No id that was handed out runs out, and no session of a member that does not wait.
SessionsLast(g, now) ==
    /\ \A m \in DOMAIN g.pending_members : g.pending_members[m] > now
    /\ \A m \in DOMAIN g.members \ waiting(g) : Fresh(g, m, now)

NothingDue(g, now) ==
    /\ SessionsLast(g, now)
    /\ g.pending_sync # None => g.pending_sync.deadline > now
    /\ g.state = "Forming" /\ g.join_phase # None => g.join_phase.deadline > now

LEMMA TimeoutsPositive ==
  ASSUME NEW g, IsGroup(g)
  PROVE  /\ session_timeout(g) \in Nat /\ session_timeout(g) > 0
         /\ rebalance_timeout(g) \in Nat /\ rebalance_timeout(g) > 0
BY DelayAssumption DEF IsGroup, GroupDetail, session_timeout, rebalance_timeout

LEMMA RemoveNone ==
  ASSUME NEW f, NEW S, NEW T, IsMap(f, S, T), NEW R, R = {}
  PROVE  Remove(f, R) = f
BY DEF IsMap, Remove, Restrict

LEMMA LastContact ==
  ASSUME NEW g, IsGroup(g), NEW m \in DOMAIN g.members
  PROVE  g.members[m].last_contact \in Nat
<1>1. IsMap(g.members, MemberIds, Member)
  BY DEF IsGroup
<1> QED BY <1>1 DEF IsMap, Member

\* While nothing is due, settle changes nothing.
LEMMA NothingDueSettled ==
  ASSUME NEW g, OK(g), NEW now \in Nat, NothingDue(g, now)
  PROVE  settle(g, now) = g
<1>1. IsGroup(g) /\ g.state \in {"Forming", "Formed"}
  BY DEF OK, IsGroup, GroupDetail
<1>2. forget_pending_members(g, now) = g
  <2> DEFINE P == g.pending_members
             R == {m \in DOMAIN P : P[m] <= now}
             Q == Remove(P, R)
  <2>1. IsMap(P, MemberIds, Nat)
    BY <1>1 DEF IsGroup
  <2>2. R = {}
    BY <2>1 DEF NothingDue, SessionsLast, IsMap
  <2>3. forget_pending_members(g, now) = [g EXCEPT !.pending_members = Q]
    BY DEF forget_pending_members
  <2> HIDE DEF R
  <2>4. Q = P
    BY <2>1, <2>2, RemoveNone
  <2> HIDE DEF Q
  <2> QED BY <1>1, <2>3, <2>4 DEF IsGroup, GroupDetail
<1>3. remove_expired(g, now) = g
  <2> DEFINE R == {m \in DOMAIN g.members \ waiting(g) :
                    now - g.members[m].last_contact > session_timeout(g)}
             e == [g EXCEPT !.members = Remove(g.members, R)]
  <2>1. remove_expired_members(g, now) = e
    BY DEF remove_expired_members
  <2>2. R = {}
    <3> SUFFICES ASSUME NEW m \in R PROVE FALSE
      OBVIOUS
    <3>1. /\ m \in DOMAIN g.members \ waiting(g)
          /\ now - g.members[m].last_contact > session_timeout(g)
      OBVIOUS
    <3>2. Fresh(g, m, now)
      BY <3>1 DEF NothingDue, SessionsLast
    <3> QED BY <1>1, <3>1, <3>2, LastContact, TimeoutsPositive DEF Fresh
  <2> HIDE DEF R
  <2>3. e = g
    <3> DEFINE M == Remove(g.members, R)
    <3>1. M = g.members
      BY <1>1, <2>2, RemoveNone DEF IsGroup
    <3> HIDE DEF M
    <3>2. [g EXCEPT !.members = M] = g
      BY <1>1, <3>1 DEF IsGroup, GroupDetail
    <3> QED BY <3>2 DEF M
  <2> HIDE DEF e
  <2> QED BY <2>1, <2>3 DEF remove_expired
<1>4. remove_members_pending_sync(g, now) = g
  BY <1>1 DEF remove_members_pending_sync, NothingDue, IsGroup, GroupDetail, PendingSync
<1>5. CASE g.state = "Formed"
  BY <1>2, <1>3, <1>4, <1>5 DEF settle, settle_formed
<1>6. CASE g.state = "Forming"
  <2>1. settle_forming(g, now) =
            IF g.join_phase # None THEN end_join_phase_after_deadline(g, now) ELSE g
    BY <1>2, <1>3, <1>4 DEF settle_forming
  <2>2. g.join_phase # None => g.join_phase.deadline \in Nat /\ g.join_phase.deadline > now
    BY <1>1, <1>6 DEF NothingDue, IsGroup, GroupDetail, JoinPhase
  <2>3. g.join_phase # None => ~ (g.join_phase.deadline <= now)
    BY <2>2
  <2>4. end_join_phase_after_deadline(g, now) = g
    BY <2>3 DEF end_join_phase_after_deadline
  <2> QED BY <1>6, <2>1, <2>4 DEF settle
<1> QED BY <1>1, <1>5, <1>6

\* next_deadline is the first time at which something is due.
LEMMA NothingDueBeforeDeadline ==
  ASSUME NEW g, IsGroup(g), NEW now \in Nat,
         next_deadline(g) = None \/ now < next_deadline(g)
  PROVE  NothingDue(g, now)
<1> DEFINE D == deadlines(g)
<1>1. D \in SUBSET Nat
  <2>1. /\ g.join_phase # None => g.join_phase.deadline \in Nat
        /\ g.pending_sync # None => g.pending_sync.deadline \in Nat
    BY DEF IsGroup, GroupDetail, JoinPhase, PendingSync
  <2>2. \A m \in DOMAIN g.pending_members : g.pending_members[m] \in Nat
    BY DEF IsGroup, IsMap
  <2>3. \A m \in DOMAIN g.members : g.members[m].last_contact + session_timeout(g) \in Nat
    BY LastContact, TimeoutsPositive
  <2> QED BY <2>1, <2>2, <2>3 DEF deadlines
<1>2. \A d \in D : now < d
  <2> SUFFICES ASSUME NEW d \in D PROVE now < d
    OBVIOUS
  <2> HIDE DEF D
  <2>1. Min(D) \in Nat /\ Min(D) <= d
    BY <1>1, MinInSet
  <2>2. next_deadline(g) = Min(D)
    BY DEF next_deadline, First, D
  <2>3. now < Min(D)
    BY <2>1, <2>2, MemberIdAssumption
  <2> QED BY <1>1, <2>1, <2>3
<1>3. \A m \in DOMAIN g.pending_members : g.pending_members[m] > now
  <2> SUFFICES ASSUME NEW m \in DOMAIN g.pending_members PROVE g.pending_members[m] > now
    OBVIOUS
  <2>1. g.pending_members[m] \in D
    BY DEF deadlines
  <2> QED BY <1>1, <1>2, <2>1
<1>4. \A m \in DOMAIN g.members \ waiting(g) : Fresh(g, m, now)
  <2> SUFFICES ASSUME NEW m \in DOMAIN g.members \ waiting(g) PROVE Fresh(g, m, now)
    OBVIOUS
  <2>1. g.members[m].last_contact + session_timeout(g) \in D
    BY DEF deadlines
  <2>2. now < g.members[m].last_contact + session_timeout(g)
    BY <1>2, <2>1
  <2> QED BY <2>2, LastContact, TimeoutsPositive DEF Fresh
<1>5. g.pending_sync # None => g.pending_sync.deadline \in D
  BY DEF deadlines
<1>6. g.state = "Forming" /\ g.join_phase # None => g.join_phase.deadline \in D
  BY DEF deadlines
<1> HIDE DEF D
<1> QED BY <1>1, <1>2, <1>3, <1>4, <1>5, <1>6 DEF NothingDue, SessionsLast

(***************************************************************************)
(* Who does not wait.                                                      *)
(***************************************************************************)
LEMMA WaitingParts ==
  ASSUME NEW g, IsGroup(g)
  PROVE  /\ g.state = "Formed" => waiting(g) = {}
         /\ g.state = "Forming" /\ g.join_phase # None => waiting(g) = g.join_phase.joined
         /\ g.state = "Forming" /\ g.join_phase = None => waiting(g) = synced(g)
BY DEF waiting, synced, IsGroup, GroupDetail

\* The sessions of h last if it has members of g only, none more to watch.
LEMMA FewerSessions ==
  ASSUME NEW g, NEW h, NEW now, SessionsLast(g, now),
         h.session_timeout_ms = g.session_timeout_ms,
         h.pending_members = g.pending_members,
         DOMAIN h.members \ waiting(h) \subseteq DOMAIN g.members \ waiting(g),
         \A m \in DOMAIN h.members : h.members[m] = g.members[m]
  PROVE  SessionsLast(h, now)
<1>1. session_timeout(h) = session_timeout(g)
  BY DEF session_timeout
<1> QED BY <1>1 DEF SessionsLast, Fresh

\* Every member of g has a session that lasts.
AllFresh(g, now) ==
    /\ \A m \in DOMAIN g.pending_members : g.pending_members[m] > now
    /\ \A m \in DOMAIN g.members : Fresh(g, m, now)

LEMMA StartJoinPhaseNothingDue ==
  ASSUME NEW g, Startable(g), NEW now \in Nat, AllFresh(g, now)
  PROVE  NothingDue(start_join_phase(g, now), now)
<1> DEFINE h == start_join_phase(g, now)
           j == [deadline |-> now + rebalance_timeout(g), joined |-> {}, initial_delay |-> None]
<1>1. IsGroup(g)
  BY DEF Startable
<1>2. h = [g EXCEPT !.pending_sync = None, !.join_phase = j]
  BY DEF start_join_phase
<1>3. j.joined = {} /\ j.deadline > now
  BY <1>1, TimeoutsPositive
<1> HIDE DEF h, j
<1>4. /\ h.members = g.members
      /\ h.pending_members = g.pending_members
      /\ h.session_timeout_ms = g.session_timeout_ms
      /\ h.pending_sync = None
      /\ h.join_phase = j
  BY <1>1, <1>2 DEF IsGroup, GroupDetail
<1>5. session_timeout(h) = session_timeout(g)
  BY <1>4 DEF session_timeout
<1>6. SessionsLast(h, now)
  BY <1>4, <1>5 DEF SessionsLast, AllFresh, Fresh
<1> QED BY <1>3, <1>4, <1>6 DEF NothingDue, h

LEMMA ContactFields ==
  ASSUME NEW g, IsGroup(g), NEW S, NEW now \in Nat
  PROVE  LET c == contact(g, S, now)
         IN  /\ \A m \in DOMAIN g.members : m \in S => c.members[m].last_contact = now
             /\ \A m \in DOMAIN g.members : m \notin S => c.members[m] = g.members[m]
             /\ c.state = g.state
             /\ c.pending_members = g.pending_members
             /\ c.session_timeout_ms = g.session_timeout_ms
             /\ c.rebalance_timeout_ms = g.rebalance_timeout_ms
             /\ c.protocol = g.protocol
             /\ c.join_phase = g.join_phase
             /\ c.pending_sync = g.pending_sync
<1> DEFINE M == [m \in DOMAIN g.members |->
                    IF m \in S THEN [g.members[m] EXCEPT !.last_contact = now]
                               ELSE g.members[m]]
           c == contact(g, S, now)
<1>1. IsMap(g.members, MemberIds, Member)
  BY DEF IsGroup
<1>2. /\ \A m \in DOMAIN g.members : m \in S => M[m].last_contact = now
      /\ \A m \in DOMAIN g.members : m \notin S => M[m] = g.members[m]
  BY <1>1 DEF IsMap, Member
<1>3. c = [g EXCEPT !.members = M]
  BY DEF contact
<1> HIDE DEF M, c
<1>4. /\ c.members = M
      /\ c.state = g.state
      /\ c.pending_members = g.pending_members
      /\ c.session_timeout_ms = g.session_timeout_ms
      /\ c.rebalance_timeout_ms = g.rebalance_timeout_ms
      /\ c.protocol = g.protocol
      /\ c.join_phase = g.join_phase
      /\ c.pending_sync = g.pending_sync
  BY <1>3 DEF IsGroup, GroupDetail
<1> QED BY <1>2, <1>4 DEF c

\* Whoever is contacted is fresh, and whoever was fresh is.
LEMMA ContactFresh ==
  ASSUME NEW g, IsGroup(g), NEW S, NEW now \in Nat, NEW m \in DOMAIN g.members,
         m \in S \/ Fresh(g, m, now)
  PROVE  Fresh(contact(g, S, now), m, now)
<1> DEFINE c == contact(g, S, now)
<1>1. /\ m \in S => c.members[m].last_contact = now
      /\ m \notin S => c.members[m] = g.members[m]
      /\ c.session_timeout_ms = g.session_timeout_ms
  BY ContactFields
<1> HIDE DEF c
<1>2. session_timeout(c) = session_timeout(g) /\ session_timeout(g) \in Nat
  BY <1>1, TimeoutsPositive DEF session_timeout
<1>3. CASE m \in S
  <2>1. now - now <= session_timeout(g)
    BY <1>2
  <2> QED BY <1>1, <1>2, <1>3, <2>1 DEF Fresh, c
<1>4. CASE m \notin S
  BY <1>1, <1>2, <1>4 DEF Fresh, c
<1> QED BY <1>3, <1>4

LEMMA PrepareRebalanceNothingDue ==
  ASSUME NEW g, Startable(g), g.join_phase = None, NEW now \in Nat, SessionsLast(g, now)
  PROVE  NothingDue(prepare_rebalance(g, now), now)
<1>1. IsGroup(g) /\ g.state = "Forming" /\ g.protocol # None /\ InstancesUnique(g)
  BY DEF Startable
<1>2. CASE is_completing_rebalance(g)
  <2> DEFINE r == contact(g, synced(g), now)
  <2>1. prepare_rebalance(g, now) = start_join_phase(r, now)
    BY <1>2 DEF prepare_rebalance, restart_sessions_of_synced_members
  <2>2. /\ IsGroup(r)
        /\ DOMAIN r.members = DOMAIN g.members
        /\ r.state = g.state
        /\ r.protocol = g.protocol
        /\ r.pending_members = g.pending_members
        /\ Shrinks(g, r)
    BY <1>1, ContactOK, ContactFields, ContactShrinks
  <2>3. \A m \in DOMAIN g.members : m \in synced(g) \/ Fresh(g, m, now)
    BY <1>1, WaitingParts DEF SessionsLast
  <2>4. \A m \in DOMAIN g.members : Fresh(r, m, now)
    BY <1>1, <2>3, ContactFresh
  <2> HIDE DEF r
  <2>5. AllFresh(r, now)
    BY <2>2, <2>4 DEF AllFresh, SessionsLast
  <2>6. Startable(r)
    BY <1>1, <2>2, ShrinksUnique DEF Startable
  <2> QED BY <2>1, <2>5, <2>6, StartJoinPhaseNothingDue
<1>3. CASE ~ is_completing_rebalance(g)
  <2>1. prepare_rebalance(g, now) = start_join_phase(g, now)
    BY <1>3 DEF prepare_rebalance
  <2>2. DOMAIN g.members = {}
    BY <1>1, <1>3 DEF is_completing_rebalance
  <2>3. AllFresh(g, now)
    BY <2>2 DEF AllFresh, SessionsLast
  <2> QED BY <2>1, <2>3, StartJoinPhaseNothingDue
<1> QED BY <1>2, <1>3

LEMMA IntoPreparingNothingDue ==
  ASSUME NEW g, IsGroup(g), g.protocol # None, InstancesUnique(g), NEW now \in Nat,
         AllFresh(g, now)
  PROVE  NothingDue(into_preparing_rebalance(g, now), now)
<1> DEFINE leader == IF g.leader \in DOMAIN g.members THEN g.leader ELSE First(DOMAIN g.members)
           f == [g EXCEPT !.state = "Forming", !.assignments = NoEntries, !.leader = leader]
<1>1. into_preparing_rebalance(g, now) = start_join_phase(f, now)
  BY DEF into_preparing_rebalance
<1>2. leader \in MemberIds \cup {None}
  <2>1. DOMAIN g.members \in SUBSET MemberIds
    BY DEF IsGroup, IsMap
  <2> QED BY <2>1, FirstInSet
<1>3. IsMap(NoEntries, MemberIds, SUBSET Partitions)
  BY DEF NoEntries, IsMap
<1> HIDE DEF leader
<1>4. /\ IsGroup(f)
      /\ f.members = g.members
      /\ f.pending_members = g.pending_members
      /\ f.session_timeout_ms = g.session_timeout_ms
      /\ f.state = "Forming"
      /\ f.protocol # None
  BY <1>2, <1>3 DEF IsGroup, GroupDetail
<1> HIDE DEF f
<1>5. session_timeout(f) = session_timeout(g)
  BY <1>4 DEF session_timeout
<1>6. AllFresh(f, now)
  BY <1>4, <1>5 DEF AllFresh, Fresh
<1>7. Startable(f)
  BY <1>4 DEF Startable, InstancesUnique
<1> QED BY <1>1, <1>6, <1>7, StartJoinPhaseNothingDue

(***************************************************************************)
(* Completing a join phase leaves nothing due: a new generation starts all *)
(* sessions, and static members that did not rejoin have sessions that     *)
(* were looked at before.                                                  *)
(***************************************************************************)
LEMMA CompleteJoinNothingDue ==
  ASSUME NEW g, Preparing(g), NEW now \in Nat, SessionsLast(g, now)
  PROVE  NothingDue(complete_join(g, now), now)
<1> DEFINE joined == g.join_phase.joined
           kept == {m \in DOMAIN g.members : m \in joined \/ g.members[m].instance # None}
           M == Restrict(g.members, kept)
           k == [g EXCEPT !.members = M]
           h == complete_join(g, now)
<1>1. IsGroup(g) /\ g.state = "Forming" /\ g.join_phase # None /\ g.pending_sync = None
  BY DEF Preparing, OK, Consistent, PreparingConsistent
<1>2. waiting(g) = joined
  BY <1>1, WaitingParts
<1>3. h = IF kept = {} THEN become_empty(k)
          ELSE IF kept \cap joined = {} THEN wait_for_static_members(k, now)
          ELSE start_generation(k, now)
  BY DEF complete_join
<1>4. kept \subseteq DOMAIN g.members
  OBVIOUS
<1> HIDE DEF kept
<1>5. /\ IsMap(M, MemberIds, Member)
      /\ DOMAIN M = kept
      /\ \A m \in kept : M[m] = g.members[m]
  <2>1. IsMap(g.members, MemberIds, Member)
    BY <1>1 DEF IsGroup
  <2> QED BY <1>4, <2>1 DEF IsMap, Restrict
<1> HIDE DEF M
<1>6. /\ IsGroup(k)
      /\ k.members = M
      /\ k.pending_members = g.pending_members
      /\ k.session_timeout_ms = g.session_timeout_ms
      /\ k.state = "Forming"
      /\ k.join_phase = g.join_phase
      /\ k.pending_sync = None
  BY <1>1, <1>5 DEF IsGroup, GroupDetail
<1> HIDE DEF k, h
<1>7. session_timeout(k) = session_timeout(g)
  BY <1>6 DEF session_timeout
<1>8. \A m \in DOMAIN k.pending_members : k.pending_members[m] > now
  BY <1>6 DEF SessionsLast
<1>9. rebalance_timeout(k) \in Nat /\ rebalance_timeout(k) > 0
  BY <1>6, TimeoutsPositive
<1>10. CASE kept = {}
  <2>1. /\ h.members = k.members
        /\ h.pending_members = k.pending_members
        /\ h.pending_sync = None
        /\ h.join_phase = None
    BY <1>3, <1>6, <1>10 DEF become_empty, IsGroup, GroupDetail
  <2>2. SessionsLast(h, now)
    BY <1>5, <1>6, <1>8, <1>10, <2>1 DEF SessionsLast
  <2> QED BY <2>1, <2>2 DEF NothingDue, h
<1>11. CASE kept # {} /\ kept \cap joined = {}
  <2> DEFINE j == [deadline |-> now + rebalance_timeout(k), joined |-> {},
                   initial_delay |-> None]
  <2>1. j.deadline > now
    BY <1>9
  <2>2. h = [k EXCEPT !.join_phase = j]
    BY <1>3, <1>11 DEF wait_for_static_members
  <2> HIDE DEF j
  <2>3. /\ h.members = k.members
        /\ h.pending_members = k.pending_members
        /\ h.session_timeout_ms = k.session_timeout_ms
        /\ h.pending_sync = None
        /\ h.join_phase = j
    BY <1>6, <2>2 DEF IsGroup, GroupDetail
  <2>4. session_timeout(h) = session_timeout(g)
    BY <1>7, <2>3 DEF session_timeout
  <2>5. \A m \in kept : Fresh(g, m, now)
    BY <1>2, <1>4, <1>11 DEF SessionsLast
  <2>6. SessionsLast(h, now)
    BY <1>5, <1>6, <1>8, <2>3, <2>4, <2>5 DEF SessionsLast, Fresh
  <2> QED BY <2>1, <2>3, <2>6 DEF NothingDue, h
<1>12. CASE kept \cap joined # {}
  <2> DEFINE c == contact(k, DOMAIN k.members, now)
             leader == IF c.leader \in k.join_phase.joined THEN c.leader
                       ELSE First(DOMAIN k.members \cap k.join_phase.joined)
             p == [deadline |-> now + rebalance_timeout(k), members |-> DOMAIN k.members]
  <2>1. p.deadline > now
    BY <1>9
  <2>2. h = [c EXCEPT !.join_phase = None, !.leader = leader,
                      !.generation_id = c.generation_id + 1, !.pending_sync = p]
    BY <1>3, <1>12 DEF start_generation
  <2>3. IsGroup(c) /\ DOMAIN c.members = DOMAIN k.members
    BY <1>6, ContactOK
  <2>4. c.pending_members = k.pending_members
    BY <1>6, ContactFields
  <2>5. \A m \in DOMAIN k.members : Fresh(c, m, now)
    BY <1>6, ContactFresh
  <2> HIDE DEF c, p, leader
  <2>6. /\ h.members = c.members
        /\ h.pending_members = c.pending_members
        /\ h.session_timeout_ms = c.session_timeout_ms
        /\ h.pending_sync = p
        /\ h.join_phase = None
    BY <2>2, <2>3 DEF IsGroup, GroupDetail
  <2>7. session_timeout(h) = session_timeout(c)
    BY <2>6 DEF session_timeout
  <2>8. SessionsLast(h, now)
    BY <1>8, <2>3, <2>4, <2>5, <2>6, <2>7 DEF SessionsLast, Fresh
  <2> QED BY <2>1, <2>6, <2>8 DEF NothingDue, h
<1> QED BY <1>10, <1>11, <1>12

LEMMA CompleteIfAllJoinedNothingDue ==
  ASSUME NEW g, OK(g), g.state = "Forming", NEW now \in Nat, SessionsLast(g, now)
  PROVE  LET h == complete_join_if_all_joined(g, now)
         IN  h = g \/ NothingDue(h, now)
<1>1. all_members_joined(g) => Preparing(g)
  BY DEF all_members_joined, Preparing
<1> QED BY <1>1, CompleteJoinNothingDue DEF complete_join_if_all_joined

LEMMA EndJoinPhaseNothingDue ==
  ASSUME NEW g, OK(g), g.state = "Forming", NEW now \in Nat, SessionsLast(g, now),
         g.join_phase # None \/ NothingDue(g, now)
  PROVE  NothingDue(end_join_phase_after_deadline(g, now), now)
<1> DEFINE due(h) == h.join_phase # None /\ h.join_phase.deadline <= now
           e == IF due(g) /\ extends_delay(g.join_phase)
                THEN [g EXCEPT !.join_phase = extend_delay(g.join_phase)] ELSE g
<1>1. end_join_phase_after_deadline(g, now) = IF due(e) THEN complete_join(e, now) ELSE e
  BY DEF end_join_phase_after_deadline
<1>2. IsGroup(g)
  BY DEF OK
<1>3. /\ OK(e)
      /\ e.state = "Forming"
      /\ SessionsLast(e, now)
      /\ e.join_phase # None \/ NothingDue(e, now)
  <2>1. CASE due(g) /\ extends_delay(g.join_phase)
    <3> DEFINE j == extend_delay(g.join_phase)
    <3>1. Preparing(g) /\ g.join_phase \in JoinPhase
      BY <1>2, <2>1 DEF Preparing, IsGroup, GroupDetail
    <3>2. g.join_phase.joined \subseteq DOMAIN g.members
      BY <3>1 DEF Preparing, OK, Consistent, PreparingConsistent
    <3>3. j \in JoinPhase /\ j.joined = g.join_phase.joined
      BY <2>1, <3>1, ExtendDelayOK
    <3> HIDE DEF j
    <3>4. e = [g EXCEPT !.join_phase = j]
      BY <2>1 DEF j
    <3>5. Preparing(e)
      BY <3>1, <3>2, <3>3, <3>4, ChangePhaseOK
    <3>6. /\ e.members = g.members
          /\ e.pending_members = g.pending_members
          /\ e.session_timeout_ms = g.session_timeout_ms
          /\ e.join_phase = j
      BY <1>2, <3>4 DEF IsGroup, GroupDetail
    <3> HIDE DEF e
    <3>7. waiting(e) = waiting(g)
      BY <1>2, <3>1, <3>3, <3>5, <3>6, WaitingParts DEF Preparing, OK
    <3>8. SessionsLast(e, now)
      BY <3>6, <3>7, FewerSessions
    <3> QED BY <3>5, <3>8 DEF Preparing
  <2>2. CASE ~ (due(g) /\ extends_delay(g.join_phase))
    BY <2>2
  <2> QED BY <2>1, <2>2
<1> HIDE DEF e
<1>4. CASE due(e)
  <2>1. Preparing(e)
    BY <1>3, <1>4 DEF Preparing
  <2> QED BY <1>1, <1>3, <1>4, <2>1, CompleteJoinNothingDue
<1>5. CASE ~ due(e)
  <2>1. NothingDue(e, now)
    <3>1. CASE e.join_phase = None
      BY <1>3, <3>1
    <3>2. CASE e.join_phase # None
      <4>1. e.pending_sync = None /\ e.join_phase \in JoinPhase
        BY <1>3, <3>2 DEF OK, Consistent, PreparingConsistent, IsGroup, GroupDetail
      <4>2. e.join_phase.deadline > now
        BY <1>5, <3>2, <4>1 DEF JoinPhase
      <4> QED BY <1>3, <4>1, <4>2 DEF NothingDue
    <3> QED BY <3>1, <3>2
  <2> QED BY <1>1, <1>5, <2>1
<1> QED BY <1>4, <1>5

(***************************************************************************)
(* settle.                                                                 *)
(***************************************************************************)
LEMMA ForgetPendingMembersFields ==
  ASSUME NEW g, IsGroup(g), NEW now \in Nat
  PROVE  LET f == forget_pending_members(g, now)
         IN  /\ \A m \in DOMAIN f.pending_members : f.pending_members[m] > now
             /\ f.members = g.members
             /\ f.state = g.state
             /\ f.join_phase = g.join_phase
             /\ f.pending_sync = g.pending_sync
<1> DEFINE R == {m \in DOMAIN g.pending_members : g.pending_members[m] <= now}
           P == Remove(g.pending_members, R)
           f == forget_pending_members(g, now)
<1>1. IsMap(g.pending_members, MemberIds, Nat)
  BY DEF IsGroup
<1>2. f = [g EXCEPT !.pending_members = P]
  BY DEF forget_pending_members
<1>3. \A m \in DOMAIN P : P[m] > now
  BY <1>1 DEF IsMap, Remove, Restrict
<1> HIDE DEF P, f
<1>4. /\ f.pending_members = P
      /\ f.members = g.members
      /\ f.state = g.state
      /\ f.join_phase = g.join_phase
      /\ f.pending_sync = g.pending_sync
  BY <1>2 DEF IsGroup, GroupDetail
<1> QED BY <1>3, <1>4 DEF f

\* forget_removed_members takes removed members out of the sets of members, so
\* nobody that waited is watched.
LEMMA ForgetRemovedFields ==
  ASSUME NEW g, IsGroup(g), g.state = "Forming"
  PROVE  LET h == forget_removed_members(g)
         IN  /\ h.members = g.members
             /\ h.pending_members = g.pending_members
             /\ h.session_timeout_ms = g.session_timeout_ms
             /\ DOMAIN h.members \ waiting(h) = DOMAIN g.members \ waiting(g)
<1> DEFINE ids == DOMAIN g.members
           leader == IF g.leader \in ids \cup {None} THEN g.leader ELSE First(ids)
           j == IF g.join_phase = None THEN None
                ELSE [g.join_phase EXCEPT !.joined = g.join_phase.joined \cap ids]
           p == IF g.pending_sync = None THEN None
                ELSE [g.pending_sync EXCEPT !.members = g.pending_sync.members \cap ids]
           h == forget_removed_members(g)
<1>1. h = [g EXCEPT !.leader = leader, !.join_phase = j, !.pending_sync = p]
  BY DEF forget_removed_members
<1>2. /\ j = None <=> g.join_phase = None
      /\ j # None => j.joined = g.join_phase.joined \cap ids
  BY NoneAssumption DEF IsGroup, GroupDetail, JoinPhase
<1>3. /\ p = None <=> g.pending_sync = None
      /\ p # None => p.members = g.pending_sync.members \cap ids
  BY NoneAssumption DEF IsGroup, GroupDetail, PendingSync
<1> HIDE DEF leader, j, p
<1>4. /\ h.members = g.members
      /\ h.pending_members = g.pending_members
      /\ h.session_timeout_ms = g.session_timeout_ms
      /\ h.state = g.state
      /\ h.join_phase = j
      /\ h.pending_sync = p
  BY <1>1 DEF IsGroup, GroupDetail
<1>5. IsGroup(h)
  BY ForgetRemovedMembersType
<1> HIDE DEF h
<1>6. CASE g.join_phase # None
  <2>1. waiting(g) = g.join_phase.joined /\ waiting(h) = h.join_phase.joined
    BY <1>2, <1>4, <1>5, <1>6, WaitingParts
  <2> QED BY <1>2, <1>4, <1>6, <2>1 DEF h
<1>7. CASE g.join_phase = None
  <2>1. waiting(g) = synced(g) /\ waiting(h) = synced(h)
    BY <1>2, <1>4, <1>5, <1>7, WaitingParts
  <2>2. DOMAIN h.members \ synced(h) = DOMAIN g.members \ synced(g)
    BY <1>3, <1>4 DEF synced
  <2> QED BY <1>4, <2>1, <2>2 DEF h
<1> QED BY <1>6, <1>7

LEMMA RemoveExpiredSessionsLast ==
  ASSUME NEW g, IsGroup(g), NEW now \in Nat,
         \A m \in DOMAIN g.pending_members : g.pending_members[m] > now
  PROVE  SessionsLast(remove_expired(g, now), now)
<1> DEFINE R == {m \in DOMAIN g.members \ waiting(g) :
                    now - g.members[m].last_contact > session_timeout(g)}
           M == Remove(g.members, R)
           e == [g EXCEPT !.members = M]
           f == forget_removed_members(e)
<1>1. remove_expired_members(g, now) = e
  BY DEF remove_expired_members
<1>2. remove_expired(g, now) = IF g.state = "Forming" /\ e.members # g.members THEN f ELSE e
  BY <1>1 DEF remove_expired
<1>3. \A m \in DOMAIN g.members \ waiting(g) : m \notin R => Fresh(g, m, now)
  BY LastContact, TimeoutsPositive DEF Fresh
<1> HIDE DEF R
<1>4. DOMAIN M = DOMAIN g.members \ R /\ \A m \in DOMAIN M : M[m] = g.members[m]
  BY DEF Remove, Restrict
<1>5. IsGroup(e)
  BY RemoveMembersType
<1> HIDE DEF M
<1>6. /\ e.members = M
      /\ e.pending_members = g.pending_members
      /\ e.session_timeout_ms = g.session_timeout_ms
      /\ e.state = g.state
      /\ e.join_phase = g.join_phase
      /\ e.pending_sync = g.pending_sync
  BY DEF IsGroup, GroupDetail
<1> HIDE DEF e
<1>7. g.state \in {"Forming", "Formed"}
  BY DEF IsGroup, GroupDetail
<1>8. DOMAIN M \ waiting(e) \subseteq DOMAIN g.members \ waiting(g)
  <2>1. CASE g.state = "Formed"
    BY <1>4, <1>5, <1>6, <2>1, WaitingParts
  <2>2. CASE g.state = "Forming" /\ g.join_phase # None
    <3>1. waiting(e) = waiting(g)
      BY <1>5, <1>6, <2>2, WaitingParts
    <3> QED BY <1>4, <3>1
  <2>3. CASE g.state = "Forming" /\ g.join_phase = None
    <3>1. waiting(e) = synced(e) /\ waiting(g) = synced(g)
      BY <1>5, <1>6, <2>3, WaitingParts
    <3> QED BY <1>4, <1>6, <3>1 DEF synced
  <2> QED BY <1>7, <2>1, <2>2, <2>3
<1>9. session_timeout(e) = session_timeout(g)
  BY <1>6 DEF session_timeout
<1>10. SessionsLast(e, now)
  <2>1. \A m \in DOMAIN e.members \ waiting(e) : Fresh(e, m, now)
    BY <1>3, <1>4, <1>6, <1>8, <1>9 DEF Fresh
  <2> QED BY <1>6, <2>1 DEF SessionsLast
<1>11. CASE g.state = "Forming"
  <2>1. /\ f.members = e.members
        /\ f.pending_members = e.pending_members
        /\ f.session_timeout_ms = e.session_timeout_ms
        /\ DOMAIN f.members \ waiting(f) = DOMAIN e.members \ waiting(e)
    BY <1>5, <1>6, <1>11, ForgetRemovedFields
  <2> HIDE DEF f
  <2>2. SessionsLast(f, now)
    BY <1>10, <2>1, FewerSessions
  <2> QED BY <1>2, <1>10, <2>2
<1>12. CASE g.state # "Forming"
  BY <1>2, <1>10, <1>12
<1> QED BY <1>11, <1>12

\* Removing the members that did not sync in time leaves nobody to wait for.
LEMMA RemovePendingSyncSessionsLast ==
  ASSUME NEW g, IsGroup(g), g.state = "Formed" \/ g.join_phase = None, NEW now \in Nat,
         SessionsLast(g, now)
  PROVE  LET h == remove_members_pending_sync(g, now)
         IN  /\ SessionsLast(h, now)
             /\ h # g => h.pending_sync = None
             /\ h = g => g.pending_sync = None \/ g.pending_sync.deadline > now
<1> DEFINE R == g.pending_sync.members
           M == Remove(g.members, R)
           p == [g EXCEPT !.members = M, !.pending_sync = None]
           h == remove_members_pending_sync(g, now)
           due == g.pending_sync # None /\ g.pending_sync.deadline <= now
<1>1. h = IF due THEN p ELSE g
  BY DEF remove_members_pending_sync
<1>2. IsGroup(h)
  BY RemovePendingSyncType
<1>3. DOMAIN M \subseteq DOMAIN g.members /\ \A m \in DOMAIN M : M[m] = g.members[m]
  BY DEF Remove, Restrict
<1>4. g.pending_sync # None => g.pending_sync.deadline \in Nat
  BY DEF IsGroup, GroupDetail, PendingSync
<1> HIDE DEF M
<1>5. /\ p.members = M
      /\ p.pending_members = g.pending_members
      /\ p.session_timeout_ms = g.session_timeout_ms
      /\ p.state = g.state
      /\ p.join_phase = g.join_phase
      /\ p.pending_sync = None
  BY DEF IsGroup, GroupDetail
<1>6. g.state \in {"Forming", "Formed"}
  BY DEF IsGroup, GroupDetail
<1> HIDE DEF p, h
<1>7. CASE due
  <2>1. h = p /\ p # g
    BY <1>1, <1>5, <1>7
  <2>2. CASE g.state = "Formed"
    <3>1. waiting(p) = {} /\ waiting(g) = {}
      BY <1>2, <1>5, <2>1, <2>2, WaitingParts
    <3>2. DOMAIN p.members \ waiting(p) \subseteq DOMAIN g.members \ waiting(g)
      BY <1>3, <1>5, <3>1
    <3>3. SessionsLast(p, now)
      BY <1>3, <1>5, <3>2, FewerSessions
    <3> QED BY <1>5, <2>1, <3>3 DEF h
  <2>3. CASE g.state = "Forming" /\ g.join_phase = None
    <3>1. waiting(p) = DOMAIN p.members
      BY <1>2, <1>5, <2>1, <2>3, WaitingParts DEF synced
    <3>2. DOMAIN p.members \ waiting(p) \subseteq DOMAIN g.members \ waiting(g)
      BY <3>1
    <3>3. SessionsLast(p, now)
      BY <1>3, <1>5, <3>2, FewerSessions
    <3> QED BY <1>5, <2>1, <3>3 DEF h
  <2> QED BY <1>6, <2>2, <2>3
<1>8. CASE ~ due
  BY <1>1, <1>4, <1>8 DEF h
<1> QED BY <1>7, <1>8

LEMMA SettleFormingNothingDue ==
  ASSUME NEW g, OK(g), g.state = "Forming", NEW now \in Nat
  PROVE  NothingDue(settle_forming(g, now), now)
<1> DEFINE f == forget_pending_members(g, now)
           r == remove_expired(f, now)
           s == IF r # f THEN r ELSE remove_members_pending_sync(r, now)
           c == IF f # g \/ r # f THEN complete_join_if_all_joined(r, now) ELSE r
           u == forget_removed_members(s)
           p == prepare_rebalance(u, now)
           q == complete_join_if_all_joined(p, now)
           h == settle_forming(g, now)
<1>1. h = IF r.join_phase # None THEN end_join_phase_after_deadline(c, now)
          ELSE IF is_completing_rebalance(g) /\ s.members # f.members THEN q
               ELSE IF is_completing_rebalance(g) THEN s ELSE r
  BY DEF settle_forming
<1>2. IsGroup(g) /\ Consistent(g)
  BY DEF OK
<1>3. OK(f) /\ f.state = "Forming"
  BY ForgetPendingMembersOK
<1>4. /\ \A m \in DOMAIN f.pending_members : f.pending_members[m] > now
      /\ f.members = g.members
      /\ f.join_phase = g.join_phase
  BY <1>2, ForgetPendingMembersFields
<1> HIDE DEF f
<1>5. IsGroup(f) /\ InstancesUnique(f)
  BY <1>3 DEF OK, Consistent
<1>6. SessionsLast(r, now)
  BY <1>4, <1>5, RemoveExpiredSessionsLast
<1>7. /\ IsGroup(r)
      /\ Shrinks(f, r)
      /\ r.state = "Forming"
      /\ r.protocol = f.protocol
      /\ f.join_phase = None <=> r.join_phase = None
      /\ DOMAIN r.members = DOMAIN f.members => r = f
  BY <1>3, <1>5, RemoveExpiredType
<1>8. CASE r.join_phase # None
  <2>1. Preparing(f)
    BY <1>3, <1>7, <1>8 DEF Preparing
  <2>2. Preparing(r)
    BY <2>1, RemoveExpiredPreparing
  <2> HIDE DEF r
  <2>3. OK(c) /\ c.state = "Forming"
    BY <2>2, CompleteIfAllJoinedOK DEF Preparing
  <2>4. SessionsLast(c, now) /\ (c.join_phase # None \/ NothingDue(c, now))
    <3>1. c = r \/ NothingDue(c, now)
      BY <1>6, <2>2, CompleteIfAllJoinedNothingDue DEF Preparing
    <3> HIDE DEF c
    <3> QED BY <1>6, <1>8, <3>1 DEF NothingDue
  <2> HIDE DEF c
  <2>5. NothingDue(end_join_phase_after_deadline(c, now), now)
    BY <2>3, <2>4, EndJoinPhaseNothingDue
  <2> QED BY <1>1, <1>8, <2>5
<1>9. CASE r.join_phase = None /\ is_completing_rebalance(g)
  <2>1. f.protocol # None
    BY <1>3, <1>4, <1>9 DEF OK, Consistent, EmptyConsistent, is_completing_rebalance
  <2>2. CASE s.members # f.members
    <3> HIDE DEF r
    <3>1. /\ IsGroup(s)
          /\ Shrinks(r, s)
          /\ s.state = "Forming"
          /\ s.protocol = f.protocol
          /\ s.join_phase = None
          /\ SessionsLast(s, now)
      BY <1>6, <1>7, <1>9, RemovePendingSyncType, RemovePendingSyncSessionsLast,
         ShrinksReflexive
    <3>2. InstancesUnique(s)
      BY <1>5, <1>7, <3>1, ShrinksTransitive, ShrinksUnique
    <3> HIDE DEF s
    <3>3. /\ IsGroup(u)
          /\ Shrinks(s, u)
          /\ u.state = "Forming"
          /\ u.protocol # None
          /\ u.join_phase = None
      BY <2>1, <3>1, ForgetRemovedMembersType
    <3>4. /\ u.members = s.members
          /\ u.pending_members = s.pending_members
          /\ u.session_timeout_ms = s.session_timeout_ms
          /\ DOMAIN u.members \ waiting(u) = DOMAIN s.members \ waiting(s)
      BY <3>1, ForgetRemovedFields
    <3> HIDE DEF u
    <3>5. SessionsLast(u, now)
      BY <3>1, <3>4, FewerSessions
    <3>6. Startable(u)
      BY <3>2, <3>3, ShrinksUnique DEF Startable
    <3>7. Preparing(p) /\ NothingDue(p, now)
      BY <3>3, <3>5, <3>6, PrepareRebalanceOK, PrepareRebalanceNothingDue
    <3> HIDE DEF p
    <3>8. NothingDue(q, now)
      BY <3>7, CompleteIfAllJoinedNothingDue DEF Preparing, NothingDue
    <3> QED BY <1>1, <1>9, <2>2, <3>8
  <2>3. CASE s.members = f.members
    <3>1. r = f
      BY <1>7, <2>3
    <3>2. s = remove_members_pending_sync(f, now)
      BY <3>1
    <3>3. f.pending_sync # None => /\ f.pending_sync.members # {}
                                   /\ f.pending_sync.members \subseteq DOMAIN f.members
      BY <1>3 DEF OK, Consistent, EmptyConsistent
    <3>4. h = s
      BY <1>1, <1>9, <2>3
    <3> HIDE DEF s
    <3>5. s = f
      BY <1>5, <2>3, <3>2, <3>3, RemovePendingSyncType
    <3>6. f.join_phase = None /\ SessionsLast(f, now)
      BY <1>6, <1>7, <1>9, <3>1
    <3>7. f.pending_sync = None \/ f.pending_sync.deadline > now
      BY <1>5, <3>2, <3>5, <3>6, RemovePendingSyncSessionsLast
    <3>8. NothingDue(f, now)
      BY <3>6, <3>7 DEF NothingDue
    <3> QED BY <3>4, <3>5, <3>8
  <2> QED BY <2>2, <2>3
<1>10. CASE r.join_phase = None /\ ~ is_completing_rebalance(g)
  <2>1. DOMAIN f.members = {} /\ f.join_phase = None
    BY <1>4, <1>7, <1>10 DEF is_completing_rebalance
  <2>2. r = f
    BY <1>7, <2>1 DEF Shrinks
  <2>3. f.pending_sync = None
    BY <1>3, <2>1 DEF OK, Consistent, EmptyConsistent
  <2>4. NothingDue(f, now)
    BY <1>6, <2>1, <2>2, <2>3 DEF NothingDue
  <2> QED BY <1>1, <1>10, <2>2, <2>4
<1> QED BY <1>8, <1>9, <1>10

LEMMA SettleFormedNothingDue ==
  ASSUME NEW g, OK(g), g.state = "Formed", NEW now \in Nat
  PROVE  NothingDue(settle_formed(g, now), now)
<1> DEFINE f == forget_pending_members(g, now)
           r == remove_expired(f, now)
           s == remove_members_pending_sync(r, now)
           p == into_preparing_rebalance(s, now)
           c == complete_join_if_all_joined(p, now)
           h == settle_formed(g, now)
<1>1. h = IF s.members # f.members THEN c ELSE s
  BY DEF settle_formed
<1>2. IsGroup(g)
  BY DEF OK
<1>3. OK(f) /\ f.state = "Formed"
  BY ForgetPendingMembersOK
<1>4. \A m \in DOMAIN f.pending_members : f.pending_members[m] > now
  BY <1>2, ForgetPendingMembersFields
<1> HIDE DEF f
<1>5. IsGroup(f) /\ InstancesUnique(f) /\ f.protocol # None
  BY <1>3 DEF OK, Consistent, FormedConsistent, EmptyConsistent
<1>6. /\ IsGroup(r)
      /\ Shrinks(f, r)
      /\ r.state = "Formed"
      /\ r.protocol = f.protocol
      /\ DOMAIN r.members = DOMAIN f.members => r = f
      /\ SessionsLast(r, now)
  BY <1>3, <1>4, <1>5, RemoveExpiredType, RemoveExpiredSessionsLast
<1> HIDE DEF r
<1>7. /\ IsGroup(s)
      /\ Shrinks(r, s)
      /\ s.state = "Formed"
      /\ s.protocol = f.protocol
      /\ s # r => /\ r.pending_sync # None
                  /\ DOMAIN s.members = DOMAIN r.members \ r.pending_sync.members
  BY <1>6, RemovePendingSyncType
<1>8. /\ SessionsLast(s, now)
      /\ s = r => r.pending_sync = None \/ r.pending_sync.deadline > now
  BY <1>6, RemovePendingSyncSessionsLast
<1> HIDE DEF s
<1>9. CASE s.members # f.members
  <2>1. InstancesUnique(s)
    BY <1>5, <1>6, <1>7, ShrinksTransitive, ShrinksUnique
  <2>2. AllFresh(s, now)
    BY <1>7, <1>8, WaitingParts DEF AllFresh, SessionsLast
  <2>3. Preparing(p) /\ NothingDue(p, now)
    BY <1>5, <1>7, <2>1, <2>2, IntoPreparingRebalanceOK, IntoPreparingNothingDue
  <2> HIDE DEF p
  <2>4. NothingDue(c, now)
    BY <2>3, CompleteIfAllJoinedNothingDue DEF Preparing, NothingDue
  <2> QED BY <1>1, <1>9, <2>4
<1>10. CASE s.members = f.members
  <2>1. r = f
    BY <1>6, <1>7, <1>10 DEF Shrinks
  <2>2. f.pending_sync # None => /\ f.pending_sync.members # {}
                                 /\ f.pending_sync.members \subseteq DOMAIN f.members
    BY <1>3 DEF OK, Consistent, EmptyConsistent
  <2>3. s = f
    BY <1>7, <1>10, <2>1, <2>2
  <2>4. NothingDue(s, now)
    BY <1>3, <1>8, <2>1, <2>3 DEF NothingDue
  <2> QED BY <1>1, <1>10, <2>4
<1> QED BY <1>9, <1>10

LEMMA SettleNothingDue ==
  ASSUME NEW g, OK(g), NEW now \in Nat
  PROVE  NothingDue(settle(g, now), now)
<1>1. g.state \in {"Forming", "Formed"}
  BY DEF OK, IsGroup, GroupDetail
<1> QED BY <1>1, SettleFormingNothingDue, SettleFormedNothingDue DEF settle

(***************************************************************************)
(* The theorems.                                                           *)
(***************************************************************************)
\* A held request that sleeps until next_deadline misses nothing: before it,
\* settle would not change the group (wait_for_change), at whatever time.
THEOREM AlwaysNextDeadlineSound == Spec => []NextDeadlineSound
<1>1. Inv => NextDeadlineSound
  <2> SUFFICES ASSUME Inv, NEW t \in 0 .. MaxTime,
                      next_deadline(group) = None \/ t < next_deadline(group)
               PROVE  settle(group, t) = group
    BY DEF NextDeadlineSound
  <2>1. OK(group) /\ t \in Nat
    BY BoundAssumption DEF Inv, TypeOK, GroupConsistent, OK
  <2>2. NothingDue(group, t)
    BY <2>1, NothingDueBeforeDeadline DEF OK
  <2> QED BY <2>1, <2>2, NothingDueSettled
<1> QED BY <1>1, GroupInvariant, PTL

\* One settle is enough: it leaves no session, join phase, sync or handed out id
\* that is over, so settling the result at the same time changes nothing.
THEOREM AlwaysSettleComplete == Spec => []SettleComplete
<1>1. Inv => SettleComplete
  <2> SUFFICES ASSUME Inv, NEW t \in 0 .. MaxTime
               PROVE  settle(settle(group, t), t) = settle(group, t)
    BY DEF SettleComplete
  <2> DEFINE s == settle(group, t)
  <2>1. OK(group) /\ t \in Nat
    BY BoundAssumption DEF Inv, TypeOK, GroupConsistent, OK
  <2>2. OK(s) /\ NothingDue(s, t)
    BY <2>1, SettleOK, SettleNothingDue
  <2> HIDE DEF s
  <2>3. settle(s, t) = s
    BY <2>1, <2>2, NothingDueSettled
  <2> QED BY <2>3 DEF s
<1> QED BY <1>1, GroupInvariant, PTL
=============================================================================
