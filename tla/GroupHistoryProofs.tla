------------------------- MODULE GroupHistoryProofs -------------------------
(***************************************************************************)
(* What the clients of a group are told: one assigner and one owner of     *)
(* each partition in a generation, generations that never go back, and     *)
(* members that stay while they wait.                                      *)
(***************************************************************************)
EXTENDS GroupHistory, GroupProofs

(***************************************************************************)
(* The inductive invariant: what the clients of a group g heard in its     *)
(* generation, the members told to assign and the assignments delivered.   *)
(***************************************************************************)
\* Whoever was told to assign is the leader while its assignment is awaited, and
\* nothing is delivered before that arrives.
HeardAwaiting(g, as, ds) == is_completing_rebalance(g) => as \subseteq {g.leader} /\ ds = {}

\* What was delivered is what a member of the formed group has, and no two have the same.
HeardFormed(g, ids, ds) ==
    g.state = "Formed" =>
        /\ Disjoint(g.assignments)
        /\ \A d \in ds : \E n \in DOMAIN g.assignments :
                /\ g.assignments[n] = d.partitions
                /\ n = d.member \/ SameInstance(ids, n, d.member)

HeardOnce(ids, ds) ==
    /\ \A d \in ds : d.member \in DOMAIN ids
    /\ \A d, e \in ds :
        d.member # e.member /\ d.partitions \cap e.partitions # {}
            => SameInstance(ids, d.member, e.member)

Heard(g, ids, as, ds) ==
    /\ \A m, n \in as : m = n
    /\ HeardAwaiting(g, as, ds)
    /\ HeardFormed(g, ids, ds)
    /\ HeardOnce(ids, ds)

HInv == Inv /\ Heard(group, issued, assigners, delivered)

\* What was said in the generation of g and is not over in h.
Still(g, h, S) == IF h.generation_id = g.generation_id THEN S ELSE {}

LEMMA HeardOnceMore ==
  ASSUME NEW ids, NEW more, NEW ds, HeardOnce(ids, ds), KeepsIds(ids, more)
  PROVE  HeardOnce(more, ds)
BY DEF HeardOnce, KeepsIds, SameInstance

\* Deliveries of a formed group overlap only if one member holds both.
LEMMA FormedOnce ==
  ASSUME NEW g, NEW ids, NEW ds, g.state = "Formed", HeardFormed(g, ids, ds),
         \A d \in ds : d.member \in DOMAIN ids
  PROVE  HeardOnce(ids, ds)
<1> SUFFICES ASSUME NEW d \in ds, NEW e \in ds, d.member # e.member,
                    d.partitions \cap e.partitions # {}
             PROVE  SameInstance(ids, d.member, e.member)
  BY DEF HeardOnce
<1>1. PICK m \in DOMAIN g.assignments : /\ g.assignments[m] = d.partitions
                                        /\ m = d.member \/ SameInstance(ids, m, d.member)
  BY DEF HeardFormed
<1>2. PICK n \in DOMAIN g.assignments : /\ g.assignments[n] = e.partitions
                                        /\ n = e.member \/ SameInstance(ids, n, e.member)
  BY DEF HeardFormed
<1>3. m = n
  BY <1>1, <1>2 DEF HeardFormed, Disjoint
<1> QED BY <1>1, <1>2, <1>3 DEF SameInstance

\* A step that goes on, prepares or ends the generation.
LEMMA HeardFollows ==
  ASSUME NEW g, NEW h, IsGroup(g), IsGroup(h), Follows(g, h), NEW ids, NEW more,
         KeepsIds(ids, more), NEW as, NEW ds, Heard(g, ids, as, ds),
         NEW A, A # {} => is_completing_rebalance(h) /\ A = {h.leader},
         NEW m, NEW D, D # {} => /\ h.state = "Formed"
                                 /\ m \in DOMAIN h.assignments
                                 /\ m \in DOMAIN ids
                                 /\ D = {[member |-> m, partitions |-> h.assignments[m]]}
  PROVE  Heard(h, more, Still(g, h, as) \cup A, Still(g, h, ds) \cup D)
<1> DEFINE as2 == Still(g, h, as) \cup A
           ds2 == Still(g, h, ds) \cup D
<1>1. is_completing_rebalance(h) => h.state # "Formed"
  BY DEF is_completing_rebalance
<1>2. \A x, y \in as2 : x = y
  <2>1. CASE A = {}
    BY <2>1 DEF Heard, Still
  <2>2. CASE A # {} /\ h.generation_id = g.generation_id
    <3>1. as \subseteq {h.leader} /\ A = {h.leader}
      BY <2>2 DEF Follows, Heard, HeardAwaiting
    <3>2. as2 \subseteq {h.leader}
      BY <3>1 DEF Still
    <3> QED BY <3>2
  <2>3. CASE A # {} /\ h.generation_id # g.generation_id
    BY <2>3 DEF Still
  <2> QED BY <2>1, <2>2, <2>3
<1>3. HeardAwaiting(h, as2, ds2)
  <2> SUFFICES ASSUME is_completing_rebalance(h)
               PROVE  as2 \subseteq {h.leader} /\ ds2 = {}
    BY DEF HeardAwaiting
  <2>1. D = {} /\ A \subseteq {h.leader}
    BY <1>1
  <2>2. CASE h.generation_id = g.generation_id
    <3>1. as \subseteq {h.leader} /\ ds = {}
      BY <2>2 DEF Follows, Heard, HeardAwaiting
    <3> QED BY <2>1, <3>1 DEF Still
  <2>3. CASE h.generation_id # g.generation_id
    BY <2>1, <2>3 DEF Still
  <2> QED BY <2>2, <2>3
<1>4. CASE h.state = "Formed"
  <2>1. /\ g.state = "Formed"
        /\ h.assignments = g.assignments
        /\ h.generation_id = g.generation_id
    BY <1>4 DEF Follows
  <2>2. Disjoint(h.assignments)
    BY <2>1 DEF Heard, HeardFormed
  <2>3. ASSUME NEW d \in ds2
        PROVE  /\ d.member \in DOMAIN more
               /\ \E n \in DOMAIN h.assignments :
                    /\ h.assignments[n] = d.partitions
                    /\ n = d.member \/ SameInstance(more, n, d.member)
    <3>1. CASE d \in ds
      <4>1. d.member \in DOMAIN ids
        BY <3>1 DEF Heard, HeardOnce
      <4>2. PICK n \in DOMAIN g.assignments :
                /\ g.assignments[n] = d.partitions
                /\ n = d.member \/ SameInstance(ids, n, d.member)
        BY <2>1, <3>1 DEF Heard, HeardFormed
      <4> QED BY <2>1, <4>1, <4>2 DEF SameInstance, KeepsIds
    <3>2. CASE d \in D
      <4>1. /\ d.member = m
            /\ d.partitions = h.assignments[m]
            /\ m \in DOMAIN h.assignments
            /\ m \in DOMAIN ids
        BY <3>2
      <4> QED BY <4>1 DEF KeepsIds
    <3> QED BY <3>1, <3>2 DEF Still
  <2>4. HeardFormed(h, more, ds2)
    BY <2>2, <2>3 DEF HeardFormed
  <2> HIDE DEF ds2, as2
  <2>5. HeardOnce(more, ds2)
    BY <1>4, <2>3, <2>4, FormedOnce
  <2>6. Heard(h, more, as2, ds2)
    BY <1>2, <1>3, <2>4, <2>5 DEF Heard
  <2> QED BY <2>6 DEF as2, ds2
<1>5. CASE h.state # "Formed"
  <2>1. HeardOnce(more, ds)
    BY HeardOnceMore DEF Heard
  <2>2. ds2 \subseteq ds
    BY <1>5 DEF Still
  <2> HIDE DEF ds2, as2
  <2>3. HeardOnce(more, ds2)
    BY <2>1, <2>2 DEF HeardOnce
  <2>4. Heard(h, more, as2, ds2)
    BY <1>2, <1>3, <1>5, <2>3 DEF Heard, HeardFormed
  <2> QED BY <2>4 DEF as2, ds2
<1> QED BY <1>4, <1>5

\* A static member takes its place in a formed group.
LEMMA HeardReplaced ==
  ASSUME NEW g, NEW h, g.state = "Formed", h.state = "Formed", NEW old, NEW new,
         old \in DOMAIN g.assignments, new \notin DOMAIN g.assignments,
         h.assignments = Rename(g.assignments, old, new),
         NEW ids, NEW more, KeepsIds(ids, more), SameInstance(more, old, new),
         NEW as, NEW ds, Heard(g, ids, as, ds)
  PROVE  Heard(h, more, as, ds)
<1> DEFINE B == h.assignments
<1>1. /\ DOMAIN B = (DOMAIN g.assignments \ {old}) \cup {new}
      /\ B[new] = g.assignments[old]
      /\ \A x \in DOMAIN g.assignments \ {old} : B[x] = g.assignments[x]
  BY DEF Rename, Insert, Remove, Restrict
<1> HIDE DEF B
<1>2. Disjoint(B)
  <2> SUFFICES ASSUME NEW x \in DOMAIN B, NEW y \in DOMAIN B, x # y
               PROVE  B[x] \cap B[y] = {}
    BY DEF Disjoint
  <2>1. \A u, v \in DOMAIN g.assignments : u # v => g.assignments[u] \cap g.assignments[v] = {}
    BY DEF Heard, HeardFormed, Disjoint
  <2>2. CASE x = new
    BY <1>1, <2>1, <2>2
  <2>3. CASE y = new
    BY <1>1, <2>1, <2>3
  <2>4. CASE x # new /\ y # new
    BY <1>1, <2>1, <2>4
  <2> QED BY <2>2, <2>3, <2>4
<1>3. ASSUME NEW d \in ds
      PROVE  \E n \in DOMAIN B : /\ B[n] = d.partitions
                                 /\ n = d.member \/ SameInstance(more, n, d.member)
  <2>1. d.member \in DOMAIN ids
    BY DEF Heard, HeardOnce
  <2>2. PICK n \in DOMAIN g.assignments : /\ g.assignments[n] = d.partitions
                                          /\ n = d.member \/ SameInstance(ids, n, d.member)
    BY DEF Heard, HeardFormed
  <2>3. n = d.member \/ SameInstance(more, n, d.member)
    BY <2>1, <2>2 DEF SameInstance, KeepsIds
  <2>4. CASE n = old
    <3>1. SameInstance(more, new, d.member)
      BY <2>3, <2>4 DEF SameInstance
    <3> QED BY <1>1, <2>2, <2>4, <3>1
  <2>5. CASE n # old
    BY <1>1, <2>2, <2>3, <2>5
  <2> QED BY <2>4, <2>5
<1>4. HeardFormed(h, more, ds)
  BY <1>2, <1>3 DEF HeardFormed, B
<1>5. HeardOnce(more, ds)
  BY HeardOnceMore DEF Heard
<1>6. HeardAwaiting(h, as, ds)
  BY DEF HeardAwaiting, is_completing_rebalance
<1> QED BY <1>4, <1>5, <1>6 DEF Heard

\* The assignment of the leader arrives.
LEMMA HeardForms ==
  ASSUME NEW g, NEW h, is_completing_rebalance(g), h.state = "Formed",
         Disjoint(h.assignments), NEW ids, NEW as, NEW ds, Heard(g, ids, as, ds),
         NEW m, m \in DOMAIN ids, NEW D,
         D # {} => /\ m \in DOMAIN h.assignments
                   /\ D = {[member |-> m, partitions |-> h.assignments[m]]}
  PROVE  Heard(h, ids, as, ds \cup D)
<1>1. ds = {}
  BY DEF Heard, HeardAwaiting
<1>2. ASSUME NEW d \in D
      PROVE  /\ d.member = m
             /\ m \in DOMAIN h.assignments
             /\ d.partitions = h.assignments[m]
  BY <1>2
<1>3. HeardFormed(h, ids, D) /\ HeardOnce(ids, D)
  BY <1>2 DEF HeardFormed, HeardOnce
<1>4. HeardAwaiting(h, as, D)
  BY DEF HeardAwaiting, is_completing_rebalance
<1>5. ds \cup D = D
  BY <1>1
<1>6. Heard(h, ids, as, D)
  BY <1>3, <1>4 DEF Heard
<1> QED BY <1>5, <1>6

(***************************************************************************)
(* The steps.                                                              *)
(***************************************************************************)
LEMMA SettledFollows ==
  ASSUME Inv, NEW g \in Copies, NEW now \in Now
  PROVE  LET s == settle(g, now)
         IN  /\ now \in Nat
             /\ OK(s)
             /\ IdsIssued(s, issued)
             /\ Follows(group, s)
             /\ Joining(group) \subseteq DOMAIN s.members
<1> DEFINE s == settle(g, now)
<1>1. now \in Nat /\ OK(s) /\ IdsIssued(s, issued)
  BY SettledOK
<1>2. OK(group)
  BY DEF Inv, TypeOK, GroupConsistent, OK
<1>3. OK(g) /\ Follows(group, g) /\ Joining(g) = Joining(group)
  <2>1. CASE g = group
    BY <1>2, <2>1, FollowsReflexive DEF OK
  <2>2. CASE g = with_storage_group_detail(group)
    BY <1>2, <2>2, WithStorageOK, WithStorageSame
  <2> QED BY <2>1, <2>2 DEF Copies
<1>4. Follows(g, s) /\ Joining(g) \subseteq DOMAIN s.members
  BY <1>1, <1>3, SettleFollows
<1> HIDE DEF s
<1>5. Follows(group, s)
  BY <1>1, <1>2, <1>3, <1>4, FollowsOK DEF OK
<1> QED BY <1>1, <1>3, <1>4, <1>5 DEF s

LEMMA StillStill ==
  ASSUME NEW f, NEW g, NEW h, IsGroup(f), IsGroup(g), IsGroup(h),
         g.generation_id >= f.generation_id, h.generation_id >= g.generation_id, NEW S
  PROVE  Still(g, h, Still(f, g, S)) = Still(f, h, S)
BY GenerationType DEF Still

\* The clients of the settled group heard what those of the stored one did.
LEMMA SettledHeard ==
  ASSUME HInv, NEW g \in Copies, NEW now \in Now
  PROVE  LET s == settle(g, now)
         IN  Heard(s, issued, Still(group, s, assigners), Still(group, s, delivered))
<1> DEFINE s == settle(g, now)
           as == Still(group, s, assigners)
           ds == Still(group, s, delivered)
           E == {}
<1>1. Inv /\ Heard(group, issued, assigners, delivered)
  BY DEF HInv
<1>2. IsGroup(group) /\ IsGroup(s) /\ Follows(group, s)
  BY <1>1, SettledFollows DEF Inv, TypeOK, OK
<1>3. KeepsIds(issued, issued)
  BY DEF KeepsIds
<1> HIDE DEF s, E
<1>4. E = {}
  BY DEF E
<1>5. Heard(s, issued, as \cup E, ds \cup E)
  BY <1>1, <1>2, <1>3, <1>4, HeardFollows
<1>6. as \cup E = as /\ ds \cup E = ds
  BY <1>4
<1> QED BY <1>5, <1>6 DEF s

LEMMA JoinStepFollows ==
  ASSUME Inv, NEW g \in Copies, NEW now \in Now, NEW i \in Identities \cup NoIdentities,
         NEW o \in JoinOptions, NEW new \in NewIds(i), Join(g, now, JoinRequestOf(i, o), new)
  PROVE  LET s == settle(g, now)
             r == join(s, now, JoinRequestOf(i, o), new)
         IN  /\ OK(s)
             /\ Follows(group, s)
             /\ Joining(group) \subseteq DOMAIN s.members
             /\ IdsIssued(s, issued)
             /\ r.group = group'
             /\ OK(group')
             /\ IdsIssued(group', issued')
             /\ KeepsIds(issued, issued')
             /\ JoinOutcome(s, group', new, i.group_instance_id)
             /\ Tells(r)
<1> DEFINE s == settle(g, now)
           req == JoinRequestOf(i, o)
           inst == req.group_instance_id
           r == join(s, now, req, new)
           ids == IF r.reply.member = new THEN Insert(issued, new, inst) ELSE issued
<1>1. /\ now \in Nat
      /\ OK(s)
      /\ Follows(group, s)
      /\ Joining(group) \subseteq DOMAIN s.members
      /\ IdsIssued(s, issued)
  BY SettledFollows
<1>2. group' = r.group /\ issued' = ids
  BY DEF Join, Store
<1>3. /\ inst = i.group_instance_id
      /\ req.member_id = i.member_id
      /\ i.member_id # None => i.member_id \in DOMAIN issued /\ issued[i.member_id] = inst
  BY JoinRequestType DEF Inv
<1> HIDE DEF s
<1>4. OK(r.group) /\ IdsIssued(r.group, ids)
  BY <1>1, JoinOK DEF Inv
<1>5. JoinOutcome(s, r.group, new, inst) /\ Tells(r)
  <2>1. JoinsAs(req, new, issued)
    BY RequestJoinsAs DEF Inv
  <2>2. IsMap(issued, MemberIds, Instances \cup {None})
    BY DEF Inv, TypeOK
  <2> HIDE DEF req
  <2> QED BY <1>1, <2>1, <2>2, JoinFollows
<1>6. KeepsIds(issued, ids)
  <2>1. new \in DOMAIN issued => issued[new] = inst
    BY <1>3 DEF NewIds
  <2> HIDE DEF r, req
  <2>2. KeepsIds(issued, Insert(issued, new, inst))
    BY <2>1 DEF KeepsIds, Insert
  <2>3. KeepsIds(issued, issued)
    BY DEF KeepsIds
  <2> QED BY <2>2, <2>3
<1> HIDE DEF r, ids, req
<1> QED BY <1>1, <1>2, <1>3, <1>4, <1>5, <1>6 DEF s, r, req

LEMMA SyncStepFollows ==
  ASSUME Inv, NEW g \in Copies, NEW now \in Now, NEW i \in Identities, NEW n, NEW p,
         NEW plan \in Plans, Sync(g, now, SyncRequestOf(i, n, p, plan))
  PROVE  LET s == settle(g, now)
             r == sync(s, now, SyncRequestOf(i, n, p, plan))
         IN  /\ OK(s)
             /\ Follows(group, s)
             /\ Joining(group) \subseteq DOMAIN s.members
             /\ r.group = group'
             /\ issued' = issued
             /\ OK(group')
             /\ i.member_id \in DOMAIN issued
             /\ group'.generation_id = s.generation_id
             /\ DOMAIN group'.members = DOMAIN s.members
             /\ Delivers(r, i.member_id)
             /\ \/ Follows(s, group')
                \/ /\ is_completing_rebalance(s)
                   /\ group'.state = "Formed"
                   /\ Disjoint(group'.assignments)
<1> DEFINE s == settle(g, now)
           req == SyncRequestOf(i, n, p, plan)
           r == sync(s, now, req)
<1>1. /\ now \in Nat
      /\ OK(s)
      /\ Follows(group, s)
      /\ Joining(group) \subseteq DOMAIN s.members
  BY SettledFollows
<1>2. group' = r.group /\ issued' = issued
  BY DEF Sync, Store
<1>3. plan \in [MemberIds -> SUBSET Partitions] /\ Disjoint(plan)
  BY DEF Plans, Disjoint
<1>4. req.assignments = plan /\ req.member_id = i.member_id
  BY DEF SyncRequestOf
<1>5. i.member_id \in DOMAIN issued
  BY DEF Identities
<1> HIDE DEF s, req
<1>6. OK(r.group)
  BY <1>1, <1>3, <1>4, SyncOK
<1>7. /\ r.group.generation_id = s.generation_id
      /\ DOMAIN r.group.members = DOMAIN s.members
      /\ Delivers(r, req.member_id)
      /\ \/ Follows(s, r.group)
         \/ /\ is_completing_rebalance(s)
            /\ r.group.state = "Formed"
            /\ r.group.assignments = [x \in DOMAIN s.members |-> req.assignments[x]]
  BY <1>1, <1>3, <1>4, SyncFollows
<1>8. Disjoint([x \in DOMAIN s.members |-> plan[x]])
  <2>1. DOMAIN s.members \subseteq MemberIds
    BY <1>1 DEF OK, IsGroup, IsMap
  <2> QED BY <1>3, <2>1 DEF Disjoint
<1> HIDE DEF r
<1> QED BY <1>1, <1>2, <1>4, <1>5, <1>6, <1>7, <1>8 DEF s, r, req

\* The requests that change the membership at most by taking members out.
LEMMA OtherStepFollows ==
  ASSUME Inv, Tick \/ HeartbeatStep \/ LeaveStep \/ CommitStep
  PROVE  /\ Follows(group, group')
         /\ issued' = issued
         /\ OK(group')
         /\ \/ Joining(group) \subseteq DOMAIN group'.members
            \/ \E g \in Copies, now \in Now, ids \in LeaveRequests :
                /\ Leave(g, now, ids)
                /\ Joining(group) \ leaving_members(settle(g, now), ids)
                        \subseteq DOMAIN group'.members
<1>1. OK(group)
  BY DEF Inv, TypeOK, GroupConsistent, OK
<1>2. CASE Tick
  <2>1. group' = group /\ issued' = issued
    BY <1>2 DEF Tick
  <2>2. Joining(group) \subseteq DOMAIN group.members
    BY <1>1 DEF Joining, OK, Consistent, PreparingConsistent
  <2>3. Follows(group, group)
    BY <1>1, FollowsReflexive DEF OK
  <2> QED BY <1>1, <2>1, <2>2, <2>3
<1>3. ASSUME NEW g \in Copies, NEW now \in Now, NEW h, OK(h), Follows(settle(g, now), h)
      PROVE  Follows(group, h)
  BY <1>1, <1>3, SettledFollows, FollowsOK DEF OK
<1>4. CASE HeartbeatStep
  <2>1. PICK g \in Copies, now \in Now, i \in Identities, n \in Generations :
            Heartbeat(g, now, MemberRequestOf(i, n))
    BY <1>4 DEF HeartbeatStep
  <2> DEFINE s == settle(g, now)
             h == heartbeat(s, now, MemberRequestOf(i, n)).group
  <2>2. now \in Nat /\ OK(s) /\ Joining(group) \subseteq DOMAIN s.members
    BY SettledFollows
  <2>3. group' = h /\ issued' = issued
    BY <2>1 DEF Heartbeat, Store
  <2>4. OK(h) /\ Follows(s, h) /\ DOMAIN h.members = DOMAIN s.members
    BY <2>2, HeartbeatOK, HeartbeatFollows
  <2> HIDE DEF h
  <2> QED BY <1>3, <2>2, <2>3, <2>4
<1>5. CASE LeaveStep
  <2>1. PICK g \in Copies, now \in Now, ids \in LeaveRequests : Leave(g, now, ids)
    BY <1>5 DEF LeaveStep
  <2> DEFINE s == settle(g, now)
             h == leave(s, now, ids)
  <2>2. now \in Nat /\ OK(s) /\ Joining(group) \subseteq DOMAIN s.members
    BY SettledFollows
  <2>3. group' = h /\ issued' = issued
    BY <2>1 DEF Leave, Store
  <2>4. /\ OK(h)
        /\ Follows(s, h)
        /\ DOMAIN s.members \ leaving_members(s, ids) \subseteq DOMAIN h.members
    BY <2>2, LeaveOK, LeaveFollows
  <2> HIDE DEF h
  <2>5. Joining(group) \ leaving_members(s, ids) \subseteq DOMAIN group'.members
    BY <2>2, <2>3, <2>4
  <2> QED BY <1>3, <2>1, <2>3, <2>4, <2>5
<1>6. CASE CommitStep
  <2>1. PICK g \in Copies, now \in Now, i \in Identities \cup NoIdentities,
             n \in Generations \cup {-1}, t \in BOOLEAN :
            OffsetCommit(g, now, CommitRequestOf(i, n, t))
    BY <1>6 DEF CommitStep
  <2> DEFINE s == settle(g, now)
             h == check_offset_commit(s, now, CommitRequestOf(i, n, t)).group
  <2>2. now \in Nat /\ OK(s) /\ Joining(group) \subseteq DOMAIN s.members
    BY SettledFollows
  <2>3. group' = h /\ issued' = issued
    BY <2>1 DEF OffsetCommit, Store
  <2>4. OK(h) /\ Follows(s, h) /\ DOMAIN h.members = DOMAIN s.members
    BY <2>2, OffsetCommitOK, OffsetCommitFollows
  <2> HIDE DEF h
  <2> QED BY <1>3, <2>2, <2>3, <2>4
<1> QED BY <1>2, <1>4, <1>5, <1>6

(***************************************************************************)
(* The invariant is inductive.                                             *)
(***************************************************************************)
LEMMA RecordHeard ==
  ASSUME NEW reply, Record(reply),
         Heard(group', issued', Still(group, group', assigners) \cup Assigner(reply),
               Still(group, group', delivered) \cup Delivery(reply))
  PROVE  Heard(group, issued, assigners, delivered)'
<1>1. /\ assigners' = Still(group, group', assigners) \cup Assigner(reply)
      /\ delivered' = Still(group, group', delivered) \cup Delivery(reply)
  BY DEF Record, Said, Still
<1> QED BY <1>1

LEMMA JoinHeard ==
  ASSUME HInv, HJoin
  PROVE  Heard(group, issued, assigners, delivered)'
<1>1. PICK g \in Copies, now \in Now, i \in Identities \cup NoIdentities, o \in JoinOptions :
        \E new \in NewIds(i) :
            /\ Join(g, now, JoinRequestOf(i, o), new)
            /\ Record(join(settle(g, now), now, JoinRequestOf(i, o), new).reply)
  BY DEF HJoin
<1>2. PICK new \in NewIds(i) :
            /\ Join(g, now, JoinRequestOf(i, o), new)
            /\ Record(join(settle(g, now), now, JoinRequestOf(i, o), new).reply)
  BY <1>1
<1> DEFINE s == settle(g, now)
           r == join(s, now, JoinRequestOf(i, o), new)
           inst == i.group_instance_id
           A == Assigner(r.reply)
           as == Still(group, s, assigners)
           ds == Still(group, s, delivered)
           E == {}
<1>3. Inv /\ IsGroup(group)
  BY DEF HInv, Inv, TypeOK
<1>4. /\ OK(s)
      /\ Follows(group, s)
      /\ IdsIssued(s, issued)
      /\ r.group = group'
      /\ OK(group')
      /\ IdsIssued(group', issued')
      /\ KeepsIds(issued, issued')
      /\ JoinOutcome(s, group', new, inst)
      /\ Tells(r)
  BY <1>2, <1>3, JoinStepFollows
<1>5. Heard(s, issued, as, ds)
  BY SettledHeard
<1>6. Record(r.reply)
  BY <1>2
<1>7. /\ Delivery(r.reply) = {}
      /\ A # {} => is_completing_rebalance(group') /\ A = {group'.leader}
  BY <1>4 DEF Tells
<1> HIDE DEF s, r, A
<1>8. PICK h : h = group'
  OBVIOUS
<1>9. CASE Follows(s, h)
  <2>1. IsGroup(s) /\ IsGroup(h)
    BY <1>4, <1>8 DEF OK
  <2> DEFINE as2 == Still(s, h, as)
             ds2 == Still(s, h, ds)
  <2>2. as2 = Still(group, h, assigners) /\ ds2 = Still(group, h, delivered)
    BY <1>3, <1>4, <1>9, <2>1, StillStill DEF Follows
  <2> HIDE DEF E
  <2>3. E = {} /\ Delivery(r.reply) = E
    BY <1>7 DEF E
  <2>4. KeepsIds(issued, issued')
    BY <1>4
  <2>5. A # {} => is_completing_rebalance(h) /\ A = {h.leader}
    BY <1>7, <1>8
  <2>6. Heard(h, issued', as2 \cup A, ds2 \cup E)
    <3> HIDE DEF as, ds
    <3> QED BY <1>5, <1>9, <2>1, <2>3, <2>4, <2>5, HeardFollows
  <2>7. Heard(h, issued', Still(group, h, assigners) \cup A,
              Still(group, h, delivered) \cup Delivery(r.reply))
    BY <2>2, <2>3, <2>6
  <2> QED BY <1>6, <1>8, <2>7, RecordHeard DEF A
<1>10. CASE ~ Follows(s, h)
  <2>1. PICK old \in DOMAIN s.members : Replaces(s, h, old, new, inst)
    BY <1>4, <1>8, <1>10 DEF JoinOutcome
  <2>2. /\ s.state = "Formed"
        /\ h.state = "Formed"
        /\ h.generation_id = s.generation_id
        /\ h.assignments = Rename(s.assignments, old, new)
        /\ inst # None
        /\ s.members[old].instance = inst
        /\ new \notin DOMAIN s.members
        /\ new \in DOMAIN h.members
        /\ h.members[new].instance = inst
    BY <1>10, <2>1 DEF Replaces
  <2>3. DOMAIN s.assignments = DOMAIN s.members
    BY <1>4, <2>2 DEF OK, Consistent, FormedConsistent
  <2>4. old \in DOMAIN issued /\ issued[old] = inst
    BY <1>4, <2>2 DEF IdsIssued
  <2>5. new \in DOMAIN issued' /\ issued'[new] = inst
    BY <1>4, <1>8, <2>2 DEF IdsIssued
  <2>6. SameInstance(issued', old, new)
    BY <1>4, <2>2, <2>4, <2>5 DEF SameInstance, KeepsIds
  <2>7. Heard(h, issued', as, ds)
    <3> HIDE DEF as, ds
    <3> QED BY <1>4, <1>5, <2>2, <2>3, <2>6, HeardReplaced
  <2>8. as = Still(group, h, assigners) /\ ds = Still(group, h, delivered)
    BY <2>2 DEF Still
  <2>9. A = {} /\ Delivery(r.reply) = {}
    BY <1>7, <1>8, <2>2 DEF is_completing_rebalance
  <2>10. Heard(h, issued', Still(group, h, assigners) \cup A,
               Still(group, h, delivered) \cup Delivery(r.reply))
    BY <2>7, <2>8, <2>9
  <2> QED BY <1>6, <1>8, <2>10, RecordHeard DEF A
<1> QED BY <1>9, <1>10

LEMMA SyncHeard ==
  ASSUME HInv, HSync
  PROVE  Heard(group, issued, assigners, delivered)'
<1>1. PICK g \in Copies, now \in Now, i \in Identities, n \in Generations,
           p \in Protocols \cup {None}, plan \in Plans :
        /\ Sync(g, now, SyncRequestOf(i, n, p, plan))
        /\ Record(sync(settle(g, now), now, SyncRequestOf(i, n, p, plan)).reply)
  BY DEF HSync
<1> DEFINE s == settle(g, now)
           r == sync(s, now, SyncRequestOf(i, n, p, plan))
           m == i.member_id
           D == Delivery(r.reply)
           as == Still(group, s, assigners)
           ds == Still(group, s, delivered)
           E == {}
<1>2. Inv /\ IsGroup(group)
  BY DEF HInv, Inv, TypeOK
<1>3. /\ OK(s)
      /\ Follows(group, s)
      /\ r.group = group'
      /\ issued' = issued
      /\ OK(group')
      /\ m \in DOMAIN issued
      /\ group'.generation_id = s.generation_id
      /\ Delivers(r, m)
      /\ \/ Follows(s, group')
         \/ /\ is_completing_rebalance(s)
            /\ group'.state = "Formed"
            /\ Disjoint(group'.assignments)
  BY <1>1, <1>2, SyncStepFollows
<1>4. Heard(s, issued, as, ds)
  BY SettledHeard
<1>5. Record(r.reply)
  BY <1>1
<1>6. /\ Assigner(r.reply) = {}
      /\ D # {} => /\ group'.state = "Formed"
                   /\ m \in DOMAIN group'.assignments
                   /\ D = {[member |-> m, partitions |-> group'.assignments[m]]}
  BY <1>3 DEF Delivers
<1> HIDE DEF s, r, D, m
<1>7. PICK h : h = group'
  OBVIOUS
<1>8. IsGroup(s) /\ IsGroup(h)
  BY <1>3, <1>7 DEF OK
<1>9. D # {} => /\ h.state = "Formed"
                /\ m \in DOMAIN h.assignments
                /\ D = {[member |-> m, partitions |-> h.assignments[m]]}
  BY <1>6, <1>7
<1> HIDE DEF E
<1>10. E = {} /\ Assigner(r.reply) = E
  BY <1>6 DEF E
<1>11. Still(group, h, assigners) = as /\ Still(group, h, delivered) = ds
  BY <1>3, <1>7 DEF Still
<1>12. Heard(h, issued, as \cup E, ds \cup D)
  <2>1. CASE Follows(s, h)
    <3>1. KeepsIds(issued, issued)
      BY DEF KeepsIds
    <3>2. Still(s, h, as) = as /\ Still(s, h, ds) = ds
      BY <1>3, <1>7 DEF Still
    <3> HIDE DEF as, ds
    <3>3. Heard(h, issued, Still(s, h, as) \cup E, Still(s, h, ds) \cup D)
      BY <1>3, <1>4, <1>8, <1>9, <1>10, <2>1, <3>1, HeardFollows
    <3> QED BY <3>2, <3>3
  <2>2. CASE is_completing_rebalance(s) /\ h.state = "Formed" /\ Disjoint(h.assignments)
    <3> HIDE DEF as, ds
    <3>1. Heard(h, issued, as, ds \cup D)
      BY <1>3, <1>4, <1>9, <2>2, HeardForms
    <3>2. as \cup E = as
      BY <1>10
    <3> QED BY <3>1, <3>2
  <2> QED BY <1>3, <1>7, <2>1, <2>2
<1>13. Heard(h, issued', Still(group, h, assigners) \cup Assigner(r.reply),
             Still(group, h, delivered) \cup Delivery(r.reply))
  BY <1>3, <1>10, <1>11, <1>12 DEF D
<1> QED BY <1>5, <1>7, <1>13, RecordHeard

LEMMA OtherHeard ==
  ASSUME HInv, HOther
  PROVE  Heard(group, issued, assigners, delivered)'
<1> DEFINE E == {}
           quiet == Done(None)
<1>1. Inv /\ IsGroup(group) /\ Heard(group, issued, assigners, delivered)
  BY DEF HInv, Inv, TypeOK
<1>2. Follows(group, group') /\ issued' = issued /\ IsGroup(group')
  BY <1>1, OtherStepFollows DEF HOther, OK
<1>3. Assigner(quiet) = E /\ Delivery(quiet) = E
  BY DEF Assigner, Delivery, Done
<1>4. KeepsIds(issued, issued)
  BY DEF KeepsIds
<1>5. PICK h : h = group'
  OBVIOUS
<1>6. E = {}
  OBVIOUS
<1>7. Record(quiet)
  BY DEF HOther
<1> HIDE DEF E, quiet
<1>8. Heard(h, issued, Still(group, h, assigners) \cup E, Still(group, h, delivered) \cup E)
  BY <1>1, <1>2, <1>4, <1>5, <1>6, HeardFollows
<1> QED BY <1>2, <1>3, <1>5, <1>7, <1>8, RecordHeard

\* A group that nobody heard of.
LEMMA NothingHeard ==
  ASSUME NEW ids, NEW as, NEW ds, as = {}, ds = {}
  PROVE  Heard(NewGroup, ids, as, ds)
<1>1. NewGroup.state # "Formed"
  BY DEF NewGroup
<1> QED BY <1>1 DEF Heard, HeardAwaiting, HeardFormed, HeardOnce

LEMMA HistoryStep == HNext => Next
BY DEF HNext, HJoin, HSync, HOther, HDelete, Next, JoinStep, SyncStep

LEMMA HistoryNextInv ==
  HInv /\ [HNext]_vars => HInv'
<1> SUFFICES ASSUME HInv, [HNext]_vars PROVE HInv'
  OBVIOUS
<1>1. [Next]_groupVars
  BY HistoryStep DEF vars, groupVars
<1>2. Inv'
  BY <1>1, NextInv DEF HInv
<1>3. CASE HJoin
  BY <1>2, <1>3, JoinHeard DEF HInv
<1>4. CASE HSync
  BY <1>2, <1>4, SyncHeard DEF HInv
<1>5. CASE HOther
  BY <1>2, <1>5, OtherHeard DEF HInv
<1>6. CASE HDelete
  <2>1. group' = NewGroup /\ assigners' = {} /\ delivered' = {}
    BY <1>6 DEF HDelete, Delete
  <2>2. Heard(group', issued', assigners', delivered')
    BY <2>1, NothingHeard
  <2> QED BY <1>2, <2>2 DEF HInv
<1>7. CASE UNCHANGED vars
  <2>1. /\ group' = group
        /\ issued' = issued
        /\ assigners' = assigners
        /\ delivered' = delivered
    BY <1>7 DEF vars
  <2>2. Heard(group', issued', assigners', delivered')
    BY <2>1 DEF HInv
  <2> QED BY <1>2, <2>2 DEF HInv
<1> QED BY <1>3, <1>4, <1>5, <1>6, <1>7 DEF HNext

(***************************************************************************)
(* The theorems.                                                           *)
(***************************************************************************)
\* What the clients of a group heard agrees with the stored group, whatever the
\* requests, their order and their times.
THEOREM HistoryInvariant == HSpec => []HInv
<1>1. HInit => HInv
  <2> SUFFICES ASSUME HInit PROVE HInv
    OBVIOUS
  <2>1. Inv
    BY InitInv DEF HInit
  <2>2. group = NewGroup /\ assigners = {} /\ delivered = {}
    BY DEF HInit, Init
  <2>3. Heard(group, issued, assigners, delivered)
    BY <2>2, NothingHeard
  <2> QED BY <2>1, <2>3 DEF HInv
<1>2. HInv /\ [HNext]_vars => HInv'
  BY HistoryNextInv
<1> QED BY <1>1, <1>2, PTL DEF HSpec

\* At most one member of a generation is told to assign (join_response,
\* complete_join), with any number of members, requests and late brokers.
THEOREM AlwaysOneAssigner == HSpec => []OneAssigner
<1>1. HInv => OneAssigner
  BY DEF HInv, Heard, OneAssigner
<1> QED BY <1>1, HistoryInvariant, PTL

\* No partition has two owners in a generation (sync), but for the restart of a
\* static member, which takes over the assignment of its earlier self.
THEOREM AlwaysOneOwner == HSpec => []OneOwner
<1>1. HInv => OneOwner
  BY DEF HInv, Heard, HeardOnce, SameInstance, OneOwner
<1> QED BY <1>1, HistoryInvariant, PTL

\* A broker that reads the group back sees what was stored, but for the leader
\* of a join phase that removed it (with_storage_group_detail).
THEOREM AlwaysReadBack == Spec => []ReadBack
<1>1. Inv => ReadBack
  <2>1. Inv => OK(group)
    BY DEF Inv, TypeOK, GroupConsistent, OK
  <2> QED BY <2>1, WithStorageSame DEF ReadBack
<1> QED BY <1>1, GroupInvariant, PTL

\* The generation never goes back unless the group is deleted (complete_join).
THEOREM AlwaysGenerationMonotonic == Spec => GenerationMonotonic
<1> DEFINE onward == group'.generation_id >= group.generation_id \/ group' = NewGroup
<1>1. Inv /\ [Next]_groupVars => [onward]_groupVars
  <2> SUFFICES ASSUME Inv, Next PROVE onward
    OBVIOUS
  <2>1. IsGroup(group)
    BY DEF Inv, TypeOK
  <2>2. ASSUME NEW s, NEW h, IsGroup(s), IsGroup(h), Follows(group, s),
               h.generation_id >= s.generation_id
        PROVE  h.generation_id >= group.generation_id
    BY <2>1, <2>2, GenerationType DEF Follows
  <2>3. CASE JoinStep
    <3>1. PICK g \in Copies, now \in Now, i \in Identities \cup NoIdentities,
               o \in JoinOptions :
            \E new \in NewIds(i) : Join(g, now, JoinRequestOf(i, o), new)
      BY <2>3 DEF JoinStep
    <3>2. PICK new \in NewIds(i) : Join(g, now, JoinRequestOf(i, o), new)
      BY <3>1
    <3> DEFINE s == settle(g, now)
    <3>3. /\ IsGroup(s)
          /\ IsGroup(group')
          /\ Follows(group, s)
          /\ JoinOutcome(s, group', new, i.group_instance_id)
      BY <3>2, JoinStepFollows DEF OK
    <3> HIDE DEF s
    <3>4. group'.generation_id >= s.generation_id
      BY <3>3, GenerationType DEF JoinOutcome, Replaces, Follows
    <3> QED BY <2>2, <3>3, <3>4
  <2>4. CASE SyncStep
    <3>1. PICK g \in Copies, now \in Now, i \in Identities, n \in Generations,
               p \in Protocols \cup {None}, plan \in Plans :
            Sync(g, now, SyncRequestOf(i, n, p, plan))
      BY <2>4 DEF SyncStep
    <3> DEFINE s == settle(g, now)
    <3>2. /\ IsGroup(s)
          /\ IsGroup(group')
          /\ Follows(group, s)
          /\ group'.generation_id = s.generation_id
      BY <3>1, SyncStepFollows DEF OK
    <3> HIDE DEF s
    <3>3. group'.generation_id >= s.generation_id
      BY <3>2, GenerationType
    <3> QED BY <2>2, <3>2, <3>3
  <2>5. CASE Tick \/ HeartbeatStep \/ LeaveStep \/ CommitStep
    BY <2>5, OtherStepFollows DEF Follows
  <2>6. CASE Delete
    BY <2>6 DEF Delete
  <2> QED BY <2>3, <2>4, <2>5, <2>6 DEF Next
<1> QED BY <1>1, GroupInvariant, PTL DEF Spec, GenerationMonotonic

\* Nobody else's request and no time-out takes a member out of the join phase it
\* waits in (is_waiting, complete_join).
THEOREM AlwaysWaitingMemberKept == HSpec => WaitingMemberKept
<1> DEFINE kept == group.join_phase # None /\ group' # NewGroup =>
                \A m \in group.join_phase.joined :
                    \/ m \in DOMAIN group'.members
                    \/ /\ issued[m] # None
                       /\ \E n \in DOMAIN group'.members : issued'[n] = issued[m]
                    \/ \E g \in Copies, now \in Now, ids \in LeaveRequests :
                          m \in leaving_members(settle(g, now), ids) /\ Leave(g, now, ids)
<1>1. HInv /\ [HNext]_vars => [kept]_vars
  <2> SUFFICES ASSUME HInv, HNext, group.join_phase # None, group' # NewGroup,
                      NEW m \in group.join_phase.joined
               PROVE  \/ m \in DOMAIN group'.members
                      \/ /\ issued[m] # None
                         /\ \E n \in DOMAIN group'.members : issued'[n] = issued[m]
                      \/ \E g \in Copies, now \in Now, ids \in LeaveRequests :
                          m \in leaving_members(settle(g, now), ids) /\ Leave(g, now, ids)
    OBVIOUS
  <2>1. Inv /\ m \in Joining(group)
    BY DEF HInv, Joining
  <2>2. CASE HJoin
    <3>1. PICK g \in Copies, now \in Now, i \in Identities \cup NoIdentities,
               o \in JoinOptions :
            \E new \in NewIds(i) : Join(g, now, JoinRequestOf(i, o), new)
      BY <2>2 DEF HJoin
    <3>2. PICK new \in NewIds(i) : Join(g, now, JoinRequestOf(i, o), new)
      BY <3>1
    <3> DEFINE s == settle(g, now)
               inst == i.group_instance_id
    <3>3. /\ Joining(group) \subseteq DOMAIN s.members
          /\ IdsIssued(s, issued)
          /\ IdsIssued(group', issued')
          /\ JoinOutcome(s, group', new, inst)
      BY <2>1, <3>2, JoinStepFollows
    <3> HIDE DEF s
    <3>4. CASE DOMAIN s.members \subseteq DOMAIN group'.members
      BY <2>1, <3>3, <3>4
    <3>5. CASE \E old \in DOMAIN s.members : Replaces(s, group', old, new, inst)
      <4>1. PICK old \in DOMAIN s.members : Replaces(s, group', old, new, inst)
        BY <3>5
      <4>2. CASE m = old
        <5>1. issued[m] = inst /\ inst # None
          BY <3>3, <4>1, <4>2 DEF Replaces, IdsIssued
        <5>2. new \in DOMAIN group'.members /\ issued'[new] = inst
          BY <3>3, <4>1 DEF Replaces, IdsIssued
        <5> QED BY <5>1, <5>2
      <4>3. CASE m # old
        BY <2>1, <3>3, <4>1, <4>3 DEF Replaces
      <4> QED BY <4>2, <4>3
    <3> QED BY <3>3, <3>4, <3>5 DEF JoinOutcome
  <2>3. CASE HSync
    <3>1. PICK g \in Copies, now \in Now, i \in Identities, n \in Generations,
               p \in Protocols \cup {None}, plan \in Plans :
            Sync(g, now, SyncRequestOf(i, n, p, plan))
      BY <2>3 DEF HSync
    <3>2. /\ Joining(group) \subseteq DOMAIN settle(g, now).members
          /\ DOMAIN group'.members = DOMAIN settle(g, now).members
      BY <2>1, <3>1, SyncStepFollows
    <3> QED BY <2>1, <3>2
  <2>4. CASE HOther
    <3>1. \/ Joining(group) \subseteq DOMAIN group'.members
          \/ \E g \in Copies, now \in Now, ids \in LeaveRequests :
                /\ Leave(g, now, ids)
                /\ Joining(group) \ leaving_members(settle(g, now), ids)
                        \subseteq DOMAIN group'.members
      BY <2>1, <2>4, OtherStepFollows DEF HOther
    <3> QED BY <2>1, <3>1
  <2>5. CASE HDelete
    BY <2>5 DEF HDelete, Delete
  <2> QED BY <2>2, <2>3, <2>4, <2>5 DEF HNext
<1> QED BY <1>1, HistoryInvariant, PTL DEF HSpec, WaitingMemberKept
=============================================================================
