------------------------- MODULE ClassicGroupProofs -------------------------
(***************************************************************************)
(* What the operators of ClassicGroup keep: types, the consistency of a    *)
(* group, the ids that are given out; and what a reply tells the client.   *)
(* The proofs of Group and of Coordinator rest on these lemmas.            *)
(***************************************************************************)
EXTENDS ClassicGroup, WellFoundedInduction, TLAPS

(***************************************************************************)
(* Maps and the first key.                                                 *)
(***************************************************************************)
\* A nonempty set of member ids has a first one (BTreeMap::keys().next()).
LEMMA MinInSet ==
  ASSUME NEW S \in SUBSET Nat, S # {}
  PROVE  Min(S) \in S /\ \A y \in S : Min(S) =< y
<1>1. IsWellFoundedOn(OpToRel(<, Nat), Nat)
  BY NatLessThanWellFounded
<1>2. PICK x \in S : \A y \in S : ~ (<<y, x>> \in OpToRel(<, Nat))
  BY <1>1, WFMin, Zenon
<1>3. \A y \in S : x =< y
  <2> SUFFICES ASSUME NEW y \in S PROVE x =< y
    OBVIOUS
  <2>1. <<y, x>> \notin OpToRel(<, Nat)
    BY <1>2
  <2>2. ~ (y < x)
    BY <2>1 DEF OpToRel
  <2> QED BY <2>2
<1> QED BY <1>3 DEF Min

LEMMA FirstInSet ==
  ASSUME NEW S \in SUBSET MemberIds
  PROVE  /\ S = {} => First(S) = None
         /\ S # {} => First(S) \in S
<1>1. S \in SUBSET Nat
  BY MemberIdAssumption
<1> QED BY <1>1, MinInSet DEF First

\* What Insert does to a map.
LEMMA InsertMap ==
  ASSUME NEW f, NEW S, NEW T, NEW k \in S, NEW v \in T, IsMap(f, S, T)
  PROVE  /\ IsMap(Insert(f, k, v), S, T)
         /\ DOMAIN Insert(f, k, v) = DOMAIN f \cup {k}
         /\ Insert(f, k, v)[k] = v
         /\ \A x \in DOMAIN f : x # k => Insert(f, k, v)[x] = f[x]
BY DEF IsMap, Insert

LEMMA MaxOfTwo ==
  ASSUME NEW x \in Int, NEW y \in Int
  PROVE  Max({x, y}) \in {x, y} /\ Max({x, y}) >= x /\ Max({x, y}) >= y
<1>1. \E z \in {x, y} : \A w \in {x, y} : z >= w
  <2>1. CASE x >= y
    BY <2>1
  <2>2. CASE y >= x
    BY <2>2
  <2> QED BY <2>1, <2>2
<1> QED BY <1>1 DEF Max

LEMMA MinOfTwo ==
  ASSUME NEW x \in Nat, NEW y \in Nat
  PROVE  Min({x, y}) \in Nat
BY MinInSet

\* The result of the timeouts and of contact.
LEMMA Timeouts ==
  ASSUME NEW g, IsGroup(g)
  PROVE  session_timeout(g) \in Nat /\ rebalance_timeout(g) \in Nat
BY DelayAssumption DEF IsGroup, GroupDetail, session_timeout, rebalance_timeout

LEMMA ContactOK ==
  ASSUME NEW g, IsGroup(g), NEW S, NEW now \in Nat
  PROVE  /\ IsGroup(contact(g, S, now))
         /\ DOMAIN contact(g, S, now).members = DOMAIN g.members
         /\ \A m \in DOMAIN g.members :
                contact(g, S, now).members[m].instance = g.members[m].instance
         /\ contact(g, S, now) = [g EXCEPT !.members = contact(g, S, now).members]
<1> DEFINE M == [m \in DOMAIN g.members |->
                    IF m \in S THEN [g.members[m] EXCEPT !.last_contact = now]
                               ELSE g.members[m]]
<1>1. IsMap(g.members, MemberIds, Member)
  BY DEF IsGroup
<1>2. /\ IsMap(M, MemberIds, Member)
      /\ DOMAIN M = DOMAIN g.members
      /\ \A m \in DOMAIN g.members : M[m].instance = g.members[m].instance
  BY <1>1 DEF IsMap, Member
<1>3. contact(g, S, now) = [g EXCEPT !.members = M]
  BY DEF contact
<1> HIDE DEF M
<1>4. IsGroup(contact(g, S, now)) /\ contact(g, S, now).members = M
  BY <1>2, <1>3 DEF IsGroup, GroupDetail
<1> QED BY <1>2, <1>3, <1>4

(***************************************************************************)
(* Invariants of one group.                                                *)
(***************************************************************************)
OK(g) == IsGroup(g) /\ Consistent(g)

\* h has no member and no pending id that g has not.
Shrinks(g, h) ==
    /\ DOMAIN h.members \subseteq DOMAIN g.members
    /\ \A m \in DOMAIN h.members : h.members[m].instance = g.members[m].instance
    /\ DOMAIN h.pending_members \subseteq DOMAIN g.pending_members

\* A group that can start a join phase.
Startable(g) ==
    IsGroup(g) /\ g.state = "Forming" /\ g.protocol # None /\ InstancesUnique(g)

\* A group in a join phase.
Preparing(g) == OK(g) /\ g.state = "Forming" /\ g.join_phase # None

LEMMA ShrinksTransitive ==
  ASSUME NEW f, NEW g, NEW h, Shrinks(f, g), Shrinks(g, h)
  PROVE  Shrinks(f, h)
BY DEF Shrinks

LEMMA ShrinksReflexive ==
  ASSUME NEW g
  PROVE  Shrinks(g, g)
BY DEF Shrinks

LEMMA ShrinksUnique ==
  ASSUME NEW g, NEW h, Shrinks(g, h), InstancesUnique(g)
  PROVE  InstancesUnique(h)
BY DEF Shrinks, InstancesUnique

LEMMA ShrinksIds ==
  ASSUME NEW g, NEW h, NEW ids, Shrinks(g, h), IdsIssued(g, ids)
  PROVE  IdsIssued(h, ids)
BY DEF Shrinks, IdsIssued

LEMMA ContactShrinks ==
  ASSUME NEW g, IsGroup(g), NEW S, NEW now \in Nat
  PROVE  Shrinks(g, contact(g, S, now))
<1>1. contact(g, S, now).pending_members = g.pending_members
  BY DEF contact, IsGroup, GroupDetail
<1> QED BY <1>1, ContactOK DEF Shrinks

\* contact changes nothing but contacts.
LEMMA ContactConsistent ==
  ASSUME NEW g, OK(g), NEW S, NEW now \in Nat
  PROVE  OK(contact(g, S, now)) /\ Shrinks(g, contact(g, S, now))
<1> DEFINE h == contact(g, S, now)
<1>1. IsGroup(g)
  BY DEF OK
<1>2. /\ IsGroup(h)
      /\ DOMAIN h.members = DOMAIN g.members
      /\ h = [g EXCEPT !.members = h.members]
  BY <1>1, ContactOK
<1>3. Shrinks(g, h)
  BY <1>1, ContactShrinks
<1> HIDE DEF h
<1>4. InstancesUnique(h)
  BY <1>3, ShrinksUnique DEF OK, Consistent
<1>5. /\ h.state = g.state
      /\ h.protocol = g.protocol
      /\ h.leader = g.leader
      /\ h.join_phase = g.join_phase
      /\ h.pending_sync = g.pending_sync
      /\ h.assignments = g.assignments
  BY <1>1, <1>2 DEF IsGroup, GroupDetail
<1>6. Consistent(h)
  BY <1>2, <1>4, <1>5
     DEF OK, Consistent, FormedConsistent, PreparingConsistent, CompletingConsistent,
         EmptyConsistent, is_completing_rebalance
<1> QED BY <1>2, <1>3, <1>6 DEF OK, h

(***************************************************************************)
(* The join phase.                                                         *)
(***************************************************************************)
LEMMA StartJoinPhaseOK ==
  ASSUME NEW g, Startable(g), NEW now \in Nat
  PROVE  /\ Preparing(start_join_phase(g, now))
         /\ Shrinks(g, start_join_phase(g, now))
         /\ start_join_phase(g, now).members = g.members
         /\ start_join_phase(g, now).generation_id = g.generation_id
<1> DEFINE h == start_join_phase(g, now)
           j == [deadline |-> now + rebalance_timeout(g), joined |-> {}, initial_delay |-> None]
<1>1. j \in JoinPhase
  BY Timeouts DEF Startable, JoinPhase
<1>2. h = [g EXCEPT !.pending_sync = None, !.join_phase = j]
  BY DEF start_join_phase
<1> HIDE DEF h
<1>3. j # None /\ j.joined = {}
  BY <1>1, NoneAssumption
<1> HIDE DEF j
<1>4. /\ IsGroup(h)
      /\ h.members = g.members
      /\ h.pending_members = g.pending_members
      /\ h.state = "Forming"
      /\ h.protocol # None
      /\ h.pending_sync = None
      /\ h.join_phase = j
      /\ h.generation_id = g.generation_id
  BY <1>1, <1>2 DEF Startable, IsGroup, GroupDetail
<1>5. Shrinks(g, h)
  BY <1>4 DEF Shrinks
<1>6. InstancesUnique(h)
  BY <1>5, ShrinksUnique DEF Startable
<1>7. Consistent(h)
  BY <1>3, <1>4, <1>6 DEF Consistent, FormedConsistent, PreparingConsistent,
         CompletingConsistent, EmptyConsistent, is_completing_rebalance
<1> QED BY <1>3, <1>4, <1>5, <1>7 DEF Preparing, OK, h

LEMMA PrepareRebalanceOK ==
  ASSUME NEW g, Startable(g), NEW now \in Nat
  PROVE  /\ Preparing(prepare_rebalance(g, now))
         /\ Shrinks(g, prepare_rebalance(g, now))
         /\ DOMAIN prepare_rebalance(g, now).members = DOMAIN g.members
         /\ prepare_rebalance(g, now).generation_id = g.generation_id
<1> DEFINE r == IF is_completing_rebalance(g)
                THEN restart_sessions_of_synced_members(g, now) ELSE g
<1>1. prepare_rebalance(g, now) = start_join_phase(r, now)
  BY DEF prepare_rebalance
<1>2. /\ Startable(r)
      /\ Shrinks(g, r)
      /\ DOMAIN r.members = DOMAIN g.members
      /\ r.generation_id = g.generation_id
  <2>1. CASE ~ is_completing_rebalance(g)
    BY <2>1, ShrinksReflexive
  <2>2. CASE is_completing_rebalance(g)
    <3>1. r = contact(g, synced(g), now)
      BY <2>2 DEF restart_sessions_of_synced_members
    <3> HIDE DEF r
    <3>2. /\ IsGroup(r)
          /\ DOMAIN r.members = DOMAIN g.members
          /\ r = [g EXCEPT !.members = r.members]
          /\ Shrinks(g, r)
      BY <3>1, ContactOK, ContactShrinks DEF Startable
    <3>3. /\ r.state = g.state
          /\ r.protocol = g.protocol
          /\ r.generation_id = g.generation_id
      BY <3>2 DEF Startable, IsGroup, GroupDetail
    <3> QED BY <3>2, <3>3, ShrinksUnique DEF Startable
  <2> QED BY <2>1, <2>2
<1> HIDE DEF r
<1>3. /\ Preparing(start_join_phase(r, now))
      /\ Shrinks(r, start_join_phase(r, now))
      /\ start_join_phase(r, now).members = r.members
      /\ start_join_phase(r, now).generation_id = r.generation_id
  BY <1>2, StartJoinPhaseOK
<1> QED BY <1>1, <1>2, <1>3, ShrinksTransitive

\* Ending a join phase leaves an empty group, a group that waits for its static
\* members, or one that waits for the assignment of a leader that joined.
LEMMA CompleteJoinOK ==
  ASSUME NEW g, Preparing(g), NEW now \in Nat
  PROVE  /\ OK(complete_join(g, now))
         /\ Shrinks(g, complete_join(g, now))
         /\ complete_join(g, now).state = "Forming"
<1> DEFINE joined == g.join_phase.joined
           kept == {m \in DOMAIN g.members : m \in joined \/ g.members[m].instance # None}
           k == [g EXCEPT !.members = Restrict(g.members, kept)]
<1> USE DEF Preparing
<1>0. IsGroup(g) /\ g.join_phase \in JoinPhase /\ InstancesUnique(g)
  BY DEF OK, IsGroup, GroupDetail, Consistent
<1>1. joined \subseteq DOMAIN g.members /\ g.pending_sync = None /\ g.protocol # None
  BY DEF OK, Consistent, PreparingConsistent, EmptyConsistent
<1>2. kept \subseteq DOMAIN g.members
  OBVIOUS
<1>3. /\ IsMap(Restrict(g.members, kept), MemberIds, Member)
      /\ DOMAIN Restrict(g.members, kept) = kept
      /\ \A x \in kept : Restrict(g.members, kept)[x] = g.members[x]
  <2> HIDE DEF kept
  <2>1. IsMap(g.members, MemberIds, Member)
    BY <1>0 DEF IsGroup
  <2> QED BY <1>2, <2>1 DEF IsMap, Restrict
<1>4. /\ IsGroup(k)
      /\ DOMAIN k.members = kept
      /\ k.members = Restrict(g.members, kept)
      /\ k.state = "Forming"
      /\ k.pending_members = g.pending_members
      /\ k.join_phase = g.join_phase
      /\ k.pending_sync = None
      /\ k.protocol # None
      /\ k.leader = g.leader
  BY <1>0, <1>1, <1>3 DEF IsGroup, GroupDetail
<1>5. Shrinks(g, k)
  BY <1>3, <1>4 DEF Shrinks
<1>6. InstancesUnique(k)
  BY <1>0, <1>5, ShrinksUnique
<1>7. complete_join(g, now) = IF kept = {} THEN become_empty(k)
                              ELSE IF kept \cap joined = {} THEN wait_for_static_members(k, now)
                              ELSE start_generation(k, now)
  BY DEF complete_join
<1>8. kept \subseteq MemberIds
  BY <1>3 DEF IsMap
<1> HIDE DEF k
<1>9. CASE kept = {}
  <2> DEFINE h == become_empty(k)
  <2>0. k.generation_id + 1 \in Nat
    BY <1>4 DEF IsGroup, GroupDetail
  <2>1. /\ IsGroup(h)
        /\ h.members = k.members
        /\ h.pending_members = k.pending_members
        /\ h.state = "Forming"
        /\ h.protocol = None
        /\ h.leader = None
        /\ h.join_phase = None
        /\ h.pending_sync = None
    BY <1>4, <2>0 DEF become_empty, IsGroup, GroupDetail
  <2> HIDE DEF h
  <2>2. Shrinks(k, h)
    BY <2>1 DEF Shrinks
  <2>3. Consistent(h)
    BY <1>4, <1>6, <1>9, <2>1, <2>2, ShrinksUnique DEF Consistent, FormedConsistent,
       PreparingConsistent, CompletingConsistent, EmptyConsistent, is_completing_rebalance
  <2> QED BY <1>5, <1>7, <1>9, <2>1, <2>2, <2>3, ShrinksTransitive DEF OK, h
<1>10. CASE kept # {} /\ kept \cap joined = {}
  <2>1. Startable(k)
    BY <1>4, <1>6 DEF Startable
  <2>2. wait_for_static_members(k, now) = start_join_phase(k, now)
    BY <1>4 DEF wait_for_static_members, start_join_phase, IsGroup, GroupDetail
  <2> QED BY <1>5, <1>7, <1>10, <2>1, <2>2, StartJoinPhaseOK, ShrinksTransitive
<1>11. CASE kept \cap joined # {}
  <2> DEFINE c == contact(k, kept, now)
             leader == IF k.leader \in joined THEN k.leader ELSE First(kept \cap joined)
             p == [deadline |-> now + rebalance_timeout(k), members |-> kept]
             h == start_generation(k, now)
  <2>1. /\ IsGroup(c)
        /\ DOMAIN c.members = kept
        /\ c = [k EXCEPT !.members = c.members]
        /\ Shrinks(k, c)
    <3> HIDE DEF kept
    <3> QED BY <1>4, ContactOK, ContactShrinks
  <2>2. h = [c EXCEPT !.join_phase = None, !.leader = leader,
                      !.generation_id = c.generation_id + 1, !.pending_sync = p]
    <3>1. c.leader = k.leader
      BY <1>4, <2>1 DEF IsGroup, GroupDetail
    <3> QED BY <1>4, <3>1 DEF start_generation
  <2>3. p \in PendingSync /\ p # None /\ p.members = kept
    BY <1>4, <1>8, Timeouts, NoneAssumption DEF PendingSync
  <2>4. leader \in kept /\ leader \in MemberIds
    <3>1. k.leader \in joined => k.leader \in kept
      BY <1>1
    <3>2. First(kept \cap joined) \in kept
      BY <1>8, <1>11, FirstInSet
    <3> QED BY <1>8, <3>1, <3>2
  <2> HIDE DEF h, c, p, leader
  <2>5. /\ IsGroup(h)
        /\ h.members = c.members
        /\ h.pending_members = c.pending_members
        /\ h.state = "Forming"
        /\ h.protocol # None
        /\ h.leader = leader
        /\ h.join_phase = None
        /\ h.pending_sync = p
    <3>1. c.state = "Forming" /\ c.protocol # None
      BY <1>4, <2>1 DEF IsGroup, GroupDetail
    <3>2. c.generation_id + 1 \in Nat
      BY <2>1 DEF IsGroup, GroupDetail
    <3> QED BY <2>1, <2>2, <2>3, <2>4, <3>1, <3>2 DEF IsGroup, GroupDetail
  <2>6. Shrinks(c, h)
    BY <2>5 DEF Shrinks
  <2>7. Shrinks(k, h) /\ InstancesUnique(h)
    BY <1>6, <2>1, <2>6, ShrinksTransitive, ShrinksUnique
  <2>8. Consistent(h)
    BY <1>11, <2>1, <2>3, <2>4, <2>5, <2>7 DEF Consistent, FormedConsistent,
       PreparingConsistent, CompletingConsistent, EmptyConsistent, is_completing_rebalance
  <2>9. complete_join(g, now) = h
    BY <1>7, <1>11 DEF h
  <2> QED BY <1>5, <2>5, <2>7, <2>8, <2>9, ShrinksTransitive DEF OK
<1> QED BY <1>9, <1>10, <1>11

LEMMA CompleteIfAllJoinedOK ==
  ASSUME NEW g, OK(g), g.state = "Forming", NEW now \in Nat
  PROVE  /\ OK(complete_join_if_all_joined(g, now))
         /\ Shrinks(g, complete_join_if_all_joined(g, now))
         /\ complete_join_if_all_joined(g, now).state = "Forming"
<1>1. all_members_joined(g) => Preparing(g)
  BY DEF all_members_joined, Preparing
<1> QED BY <1>1, CompleteJoinOK, ShrinksReflexive DEF complete_join_if_all_joined

LEMMA CompleteAfterJoinOK ==
  ASSUME NEW g, OK(g), g.state = "Forming", NEW now \in Nat
  PROVE  /\ OK(complete_join_if_all_joined_after_join(g, now))
         /\ Shrinks(g, complete_join_if_all_joined_after_join(g, now))
         /\ complete_join_if_all_joined_after_join(g, now).state = "Forming"
BY CompleteIfAllJoinedOK, ShrinksReflexive DEF complete_join_if_all_joined_after_join

\* Whoever joined in time is a member of the next generation.
LEMMA CompleteJoinKeeps ==
  ASSUME NEW g, Preparing(g), NEW now \in Nat, NEW m \in g.join_phase.joined
  PROVE  m \in DOMAIN complete_join(g, now).members
<1> DEFINE joined == g.join_phase.joined
           kept == {x \in DOMAIN g.members : x \in joined \/ g.members[x].instance # None}
           k == [g EXCEPT !.members = Restrict(g.members, kept)]
           c == contact(k, DOMAIN k.members, now)
           h == start_generation(k, now)
<1>1. IsGroup(g)
  BY DEF Preparing, OK
<1>2. m \in DOMAIN g.members
  BY DEF Preparing, OK, Consistent, PreparingConsistent
<1>3. m \in kept \cap joined
  BY <1>2
<1>4. complete_join(g, now) = h
  BY <1>3 DEF complete_join
<1> HIDE DEF kept
<1>5. k.members = Restrict(g.members, kept)
  BY <1>1 DEF IsGroup, GroupDetail
<1>6. m \in DOMAIN k.members
  BY <1>3, <1>5 DEF Restrict
<1>7. DOMAIN k = DOMAIN g /\ "members" \in DOMAIN g
  BY <1>1 DEF IsGroup, GroupDetail
<1> HIDE DEF k
<1>8. DOMAIN c.members = DOMAIN k.members
  BY <1>7 DEF contact
<1>9. h.members = c.members
  <2>1. "members" \in DOMAIN c
    BY <1>7 DEF contact
  <2> HIDE DEF c
  <2> QED BY <2>1 DEF start_generation, c
<1> QED BY <1>4, <1>6, <1>8, <1>9

LEMMA CompleteAfterJoinKeeps ==
  ASSUME NEW g, Preparing(g), NEW now \in Nat, NEW m \in g.join_phase.joined
  PROVE  m \in DOMAIN complete_join_if_all_joined_after_join(g, now).members
<1>1. m \in DOMAIN g.members
  BY DEF Preparing, OK, Consistent, PreparingConsistent
<1> QED BY <1>1, CompleteJoinKeeps
        DEF complete_join_if_all_joined_after_join, complete_join_if_all_joined

\* A change of the join phase that keeps whoever joined a member.
LEMMA ChangePhaseOK ==
  ASSUME NEW g, Preparing(g), NEW j \in JoinPhase, j.joined \subseteq DOMAIN g.members
  PROVE  /\ Preparing([g EXCEPT !.join_phase = j])
         /\ Shrinks(g, [g EXCEPT !.join_phase = j])
         /\ [g EXCEPT !.join_phase = j].members = g.members
<1> DEFINE h == [g EXCEPT !.join_phase = j]
<1>1. IsGroup(g) /\ Consistent(g) /\ g.state = "Forming" /\ g.join_phase # None
  BY DEF Preparing, OK
<1>2. /\ IsGroup(h)
      /\ h.members = g.members
      /\ h.pending_members = g.pending_members
      /\ h.state = g.state
      /\ h.protocol = g.protocol
      /\ h.leader = g.leader
      /\ h.pending_sync = g.pending_sync
      /\ h.join_phase = j
  BY <1>1 DEF IsGroup, GroupDetail
<1> HIDE DEF h
<1>3. j # None
  BY NoneAssumption
<1>4. Shrinks(g, h)
  BY <1>2 DEF Shrinks
<1>5. Consistent(h)
  BY <1>1, <1>2, <1>3, <1>4, ShrinksUnique DEF Consistent, FormedConsistent,
     PreparingConsistent, CompletingConsistent, EmptyConsistent, is_completing_rebalance
<1> QED BY <1>1, <1>2, <1>3, <1>4, <1>5 DEF Preparing, OK, h

LEMMA ExtendDelayOK ==
  ASSUME NEW j \in JoinPhase, extends_delay(j)
  PROVE  extend_delay(j) \in JoinPhase /\ extend_delay(j).joined = j.joined
<1> DEFINE i == j.initial_delay
           delay == Min({i.delay, i.remaining})
           e == [delay |-> delay, remaining |-> Max({0, i.remaining - i.delay}),
                 new_member_added |-> FALSE]
<1>1. i \in InitialDelay
  BY DEF extends_delay, JoinPhase
<1>2. delay \in Nat
  BY <1>1, MinOfTwo DEF InitialDelay
<1>3. Max({0, i.remaining - i.delay}) \in Nat
  <2> DEFINE d == i.remaining - i.delay
  <2>1. d \in Int
    BY <1>1 DEF InitialDelay
  <2> HIDE DEF d
  <2>2. 0 \in Int
    OBVIOUS
  <2>3. Max({0, d}) \in {0, d} /\ Max({0, d}) >= 0
    BY <2>1, <2>2, MaxOfTwo, Zenon
  <2>4. Max({0, d}) \in Nat
    BY <2>1, <2>3
  <2> QED BY <2>4 DEF d
<1>4. e \in InitialDelay
  BY <1>2, <1>3 DEF InitialDelay
<1>5. extend_delay(j) = [j EXCEPT !.deadline = j.deadline + delay, !.initial_delay = e]
  BY DEF extend_delay
<1> HIDE DEF e, delay, i
<1>6. j.deadline + delay \in Nat
  BY <1>2 DEF JoinPhase
<1> QED BY <1>4, <1>5, <1>6 DEF JoinPhase

LEMMA EndJoinPhaseOK ==
  ASSUME NEW g, OK(g), g.state = "Forming", NEW now \in Nat
  PROVE  /\ OK(end_join_phase_after_deadline(g, now))
         /\ Shrinks(g, end_join_phase_after_deadline(g, now))
         /\ end_join_phase_after_deadline(g, now).state = "Forming"
<1> DEFINE due(h) == h.join_phase # None /\ h.join_phase.deadline <= now
           e == IF due(g) /\ extends_delay(g.join_phase)
                THEN [g EXCEPT !.join_phase = extend_delay(g.join_phase)] ELSE g
<1>1. end_join_phase_after_deadline(g, now) = IF due(e) THEN complete_join(e, now) ELSE e
  BY DEF end_join_phase_after_deadline
<1>2. OK(e) /\ e.state = "Forming" /\ Shrinks(g, e)
  <2>1. CASE due(g) /\ extends_delay(g.join_phase)
    <3>1. Preparing(g) /\ g.join_phase \in JoinPhase
      BY <2>1 DEF Preparing, OK, IsGroup, GroupDetail
    <3>2. g.join_phase.joined \subseteq DOMAIN g.members
      BY <3>1 DEF Preparing, OK, Consistent, PreparingConsistent
    <3>3. /\ extend_delay(g.join_phase) \in JoinPhase
          /\ extend_delay(g.join_phase).joined \subseteq DOMAIN g.members
      BY <2>1, <3>1, <3>2, ExtendDelayOK
    <3> QED BY <2>1, <3>1, <3>3, ChangePhaseOK DEF Preparing
  <2>2. CASE ~ (due(g) /\ extends_delay(g.join_phase))
    BY <2>2, ShrinksReflexive
  <2> QED BY <2>1, <2>2
<1> HIDE DEF e
<1>3. due(e) => Preparing(e)
  BY <1>2 DEF Preparing
<1>4. CASE due(e)
  BY <1>1, <1>2, <1>3, <1>4, CompleteJoinOK, ShrinksTransitive
<1>5. CASE ~ due(e)
  BY <1>1, <1>2, <1>5
<1> QED BY <1>4, <1>5

LEMMA IntoPreparingRebalanceOK ==
  ASSUME NEW g, IsGroup(g), g.protocol # None, InstancesUnique(g), NEW now \in Nat
  PROVE  /\ Preparing(into_preparing_rebalance(g, now))
         /\ Shrinks(g, into_preparing_rebalance(g, now))
         /\ into_preparing_rebalance(g, now).members = g.members
<1> DEFINE leader == IF g.leader \in DOMAIN g.members THEN g.leader ELSE First(DOMAIN g.members)
           f == [g EXCEPT !.state = "Forming", !.assignments = NoEntries, !.leader = leader]
<1>1. into_preparing_rebalance(g, now) = start_join_phase(f, now)
  BY DEF into_preparing_rebalance
<1>2. leader \in MemberIds \cup {None}
  <2>1. DOMAIN g.members \in SUBSET MemberIds
    BY DEF IsGroup, IsMap
  <2> QED BY <2>1, FirstInSet
<1>3. IsMap(NoEntries, MemberIds, SUBSET Partitions)
  BY DEF NoEntries, IsMap
<1> HIDE DEF leader
<1>4. /\ IsGroup(f)
      /\ f.members = g.members
      /\ f.pending_members = g.pending_members
      /\ f.state = "Forming"
      /\ f.protocol # None
  BY <1>2, <1>3 DEF IsGroup, GroupDetail
<1> HIDE DEF f
<1>5. Shrinks(g, f)
  BY <1>4 DEF Shrinks
<1>6. Startable(f)
  BY <1>4, <1>5, ShrinksUnique DEF Startable
<1> QED BY <1>1, <1>4, <1>5, <1>6, StartJoinPhaseOK, ShrinksTransitive

(***************************************************************************)
(* The passing of time.                                                    *)
(***************************************************************************)
\* A change of the pending ids alone.
LEMMA PendingOK ==
  ASSUME NEW g, OK(g), NEW P, IsMap(P, MemberIds, Nat)
  PROVE  /\ OK([g EXCEPT !.pending_members = P])
         /\ [g EXCEPT !.pending_members = P].members = g.members
         /\ [g EXCEPT !.pending_members = P].pending_members = P
         /\ [g EXCEPT !.pending_members = P].state = g.state
         /\ [g EXCEPT !.pending_members = P].join_phase = g.join_phase
         /\ [g EXCEPT !.pending_members = P].protocol = g.protocol
<1> DEFINE h == [g EXCEPT !.pending_members = P]
<1>1. IsGroup(g) /\ Consistent(g)
  BY DEF OK
<1>2. /\ IsGroup(h)
      /\ h.members = g.members
      /\ h.pending_members = P
      /\ h.state = g.state
      /\ h.protocol = g.protocol
      /\ h.leader = g.leader
      /\ h.pending_sync = g.pending_sync
      /\ h.join_phase = g.join_phase
      /\ h.assignments = g.assignments
  BY <1>1 DEF IsGroup, GroupDetail
<1> HIDE DEF h
<1>3. Consistent(h)
  BY <1>1, <1>2 DEF Consistent, InstancesUnique, FormedConsistent,
     PreparingConsistent, CompletingConsistent, EmptyConsistent, is_completing_rebalance
<1> QED BY <1>2, <1>3 DEF OK, h

LEMMA ForgetPendingMembersOK ==
  ASSUME NEW g, OK(g), NEW now \in Nat
  PROVE  /\ OK(forget_pending_members(g, now))
         /\ Shrinks(g, forget_pending_members(g, now))
         /\ forget_pending_members(g, now).members = g.members
         /\ forget_pending_members(g, now).state = g.state
         /\ forget_pending_members(g, now).join_phase = g.join_phase
<1> DEFINE R == {m \in DOMAIN g.pending_members : g.pending_members[m] <= now}
           P == Remove(g.pending_members, R)
<1>1. IsMap(g.pending_members, MemberIds, Nat)
  BY DEF OK, IsGroup
<1>2. forget_pending_members(g, now) = [g EXCEPT !.pending_members = P]
  BY DEF forget_pending_members
<1> HIDE DEF R
<1>3. IsMap(P, MemberIds, Nat) /\ DOMAIN P \subseteq DOMAIN g.pending_members
  BY <1>1 DEF IsMap, Remove, Restrict
<1> HIDE DEF P
<1>4. /\ OK(forget_pending_members(g, now))
      /\ forget_pending_members(g, now).members = g.members
      /\ forget_pending_members(g, now).pending_members = P
      /\ forget_pending_members(g, now).state = g.state
      /\ forget_pending_members(g, now).join_phase = g.join_phase
  BY <1>2, <1>3, PendingOK
<1> QED BY <1>3, <1>4 DEF Shrinks

\* Removing members, before the rest of the group is made consistent with it.
LEMMA RemoveMembersType ==
  ASSUME NEW g, IsGroup(g), NEW R
  PROVE  LET h == [g EXCEPT !.members = Remove(g.members, R)]
         IN  /\ IsGroup(h)
             /\ Shrinks(g, h)
             /\ DOMAIN h.members = DOMAIN g.members \ R
             /\ DOMAIN h.members = DOMAIN g.members => h = g
             /\ h.state = g.state
             /\ h.protocol = g.protocol
             /\ h.leader = g.leader
             /\ h.join_phase = g.join_phase
             /\ h.pending_sync = g.pending_sync
<1> DEFINE M == Remove(g.members, R)
<1>1. IsMap(g.members, MemberIds, Member)
  BY DEF IsGroup
<1>2. /\ IsMap(M, MemberIds, Member)
      /\ DOMAIN M = DOMAIN g.members \ R
      /\ \A x \in DOMAIN M : M[x] = g.members[x]
      /\ DOMAIN M = DOMAIN g.members => M = g.members
  BY <1>1 DEF IsMap, Remove, Restrict
<1> HIDE DEF M
<1> DEFINE h == [g EXCEPT !.members = M]
<1>3. /\ IsGroup(h)
      /\ h.members = M
      /\ M = g.members => h = g
      /\ h.pending_members = g.pending_members
      /\ h.state = g.state
      /\ h.protocol = g.protocol
      /\ h.leader = g.leader
      /\ h.join_phase = g.join_phase
      /\ h.pending_sync = g.pending_sync
  BY <1>2 DEF IsGroup, GroupDetail
<1> HIDE DEF h
<1>4. Shrinks(g, h)
  BY <1>2, <1>3 DEF Shrinks
<1> QED BY <1>2, <1>3, <1>4 DEF h, M

LEMMA ForgetRemovedMembersType ==
  ASSUME NEW g, IsGroup(g)
  PROVE  LET h == forget_removed_members(g)
         IN  /\ IsGroup(h)
             /\ Shrinks(g, h)
             /\ h.members = g.members
             /\ h.state = g.state
             /\ h.protocol = g.protocol
             /\ g.join_phase = None => h.join_phase = None
             /\ g.join_phase # None => h.join_phase # None
             /\ h.join_phase # None => h.join_phase.joined \subseteq DOMAIN h.members
             /\ g.pending_sync = None => h.pending_sync = None
<1> DEFINE ids == DOMAIN g.members
           leader == IF g.leader \in ids \cup {None} THEN g.leader ELSE First(ids)
           j == IF g.join_phase = None THEN None
                ELSE [g.join_phase EXCEPT !.joined = g.join_phase.joined \cap ids]
           p == IF g.pending_sync = None THEN None
                ELSE [g.pending_sync EXCEPT !.members = g.pending_sync.members \cap ids]
           h == forget_removed_members(g)
<1>1. h = [g EXCEPT !.leader = leader, !.join_phase = j, !.pending_sync = p]
  BY DEF forget_removed_members
<1>2. ids \in SUBSET MemberIds
  BY DEF IsGroup, IsMap
<1>3. leader \in MemberIds \cup {None}
  BY <1>2, FirstInSet
<1>4. /\ j \in JoinPhase \cup {None}
      /\ j = None <=> g.join_phase = None
      /\ j # None => j.joined \subseteq ids
  BY NoneAssumption DEF IsGroup, GroupDetail, JoinPhase
<1>5. /\ p \in PendingSync \cup {None}
      /\ g.pending_sync = None => p = None
  BY NoneAssumption DEF IsGroup, GroupDetail, PendingSync
<1> HIDE DEF leader, j, p
<1>6. /\ IsGroup(h)
      /\ h.members = g.members
      /\ h.pending_members = g.pending_members
      /\ h.state = g.state
      /\ h.protocol = g.protocol
      /\ h.join_phase = j
      /\ h.pending_sync = p
  BY <1>1, <1>3, <1>4, <1>5 DEF IsGroup, GroupDetail
<1> HIDE DEF h
<1>7. Shrinks(g, h)
  BY <1>6 DEF Shrinks
<1> QED BY <1>4, <1>5, <1>6, <1>7 DEF h

LEMMA RemoveExpiredType ==
  ASSUME NEW g, IsGroup(g), NEW now \in Nat
  PROVE  LET r == remove_expired(g, now)
         IN  /\ IsGroup(r)
             /\ Shrinks(g, r)
             /\ r.state = g.state
             /\ r.protocol = g.protocol
             /\ g.join_phase = None <=> r.join_phase = None
             /\ g.pending_sync = None => r.pending_sync = None
             /\ DOMAIN r.members = DOMAIN g.members => r = g
             /\ /\ r.join_phase # None
                /\ g.state = "Forming"
                /\ g.join_phase.joined \subseteq DOMAIN g.members
                => r.join_phase.joined \subseteq DOMAIN r.members
<1> DEFINE R == {m \in DOMAIN g.members \ waiting(g) :
                    now - g.members[m].last_contact > session_timeout(g)}
           e == [g EXCEPT !.members = Remove(g.members, R)]
           f == forget_removed_members(e)
           r == remove_expired(g, now)
<1>1. remove_expired_members(g, now) = e
  BY DEF remove_expired_members
<1>2. r = IF g.state = "Forming" /\ e.members # g.members THEN f ELSE e
  BY <1>1 DEF remove_expired
<1> HIDE DEF R
<1>3. /\ IsGroup(e)
      /\ Shrinks(g, e)
      /\ e.state = g.state
      /\ e.protocol = g.protocol
      /\ e.join_phase = g.join_phase
      /\ e.pending_sync = g.pending_sync
  BY RemoveMembersType
<1>4. DOMAIN e.members = DOMAIN g.members => e = g
  BY RemoveMembersType
<1> HIDE DEF e
<1>5. /\ IsGroup(f)
      /\ Shrinks(e, f)
      /\ f.members = e.members
      /\ f.state = e.state
      /\ f.protocol = e.protocol
      /\ e.join_phase = None <=> f.join_phase = None
      /\ f.join_phase # None => f.join_phase.joined \subseteq DOMAIN f.members
      /\ e.pending_sync = None => f.pending_sync = None
  BY <1>3, ForgetRemovedMembersType
<1> HIDE DEF f
<1>6. Shrinks(g, f)
  BY <1>3, <1>5, ShrinksTransitive
<1> HIDE DEF r
<1> QED BY <1>2, <1>3, <1>4, <1>5, <1>6 DEF r

LEMMA RemovePendingSyncType ==
  ASSUME NEW g, IsGroup(g), NEW now \in Nat
  PROVE  LET h == remove_members_pending_sync(g, now)
         IN  /\ IsGroup(h)
             /\ Shrinks(g, h)
             /\ h.state = g.state
             /\ h.protocol = g.protocol
             /\ h.join_phase = g.join_phase
             /\ h # g => /\ g.pending_sync # None
                         /\ DOMAIN h.members = DOMAIN g.members \ g.pending_sync.members
<1> DEFINE R == g.pending_sync.members
           e == [g EXCEPT !.members = Remove(g.members, R)]
           p == [e EXCEPT !.pending_sync = None]
           h == remove_members_pending_sync(g, now)
<1>1. h = IF g.pending_sync # None /\ g.pending_sync.deadline <= now THEN p ELSE g
  BY DEF remove_members_pending_sync, IsGroup, GroupDetail
<1> HIDE DEF R
<1>2. /\ IsGroup(e)
      /\ Shrinks(g, e)
      /\ DOMAIN e.members = DOMAIN g.members \ R
      /\ e.state = g.state
      /\ e.protocol = g.protocol
      /\ e.join_phase = g.join_phase
  BY RemoveMembersType
<1> HIDE DEF e
<1>3. /\ IsGroup(p)
      /\ p.members = e.members
      /\ p.pending_members = e.pending_members
      /\ p.state = e.state
      /\ p.protocol = e.protocol
      /\ p.join_phase = e.join_phase
  BY <1>2 DEF IsGroup, GroupDetail
<1> HIDE DEF p
<1>4. Shrinks(g, p)
  BY <1>2, <1>3 DEF Shrinks
<1>5. Shrinks(g, g)
  BY ShrinksReflexive
<1> HIDE DEF h
<1>6. /\ IsGroup(h)
      /\ Shrinks(g, h)
      /\ h.state = g.state
      /\ h.protocol = g.protocol
      /\ h.join_phase = g.join_phase
      /\ h # g => g.pending_sync # None /\ DOMAIN h.members = DOMAIN g.members \ R
  BY <1>1, <1>2, <1>3, <1>4, <1>5
<1> QED BY <1>6 DEF h, R

\* Members removed during a join phase leave a join phase.
LEMMA RemoveExpiredPreparing ==
  ASSUME NEW g, Preparing(g), NEW now \in Nat
  PROVE  Preparing(remove_expired(g, now)) /\ Shrinks(g, remove_expired(g, now))
<1> DEFINE r == remove_expired(g, now)
<1>1. /\ IsGroup(g)
      /\ Consistent(g)
      /\ g.state = "Forming"
      /\ g.join_phase # None
  BY DEF Preparing, OK
<1>2. /\ g.pending_sync = None
      /\ g.protocol # None
      /\ g.join_phase.joined \subseteq DOMAIN g.members
      /\ InstancesUnique(g)
  BY <1>1 DEF Consistent, PreparingConsistent, EmptyConsistent
<1>3. /\ IsGroup(r)
      /\ Shrinks(g, r)
      /\ r.state = g.state
      /\ r.protocol = g.protocol
      /\ r.join_phase # None
      /\ r.pending_sync = None
      /\ r.join_phase.joined \subseteq DOMAIN r.members
  BY <1>1, <1>2, RemoveExpiredType
<1> HIDE DEF r
<1>4. Consistent(r)
  BY <1>1, <1>2, <1>3, ShrinksUnique DEF Consistent, FormedConsistent,
     PreparingConsistent, CompletingConsistent, EmptyConsistent, is_completing_rebalance
<1> QED BY <1>1, <1>3, <1>4 DEF Preparing, OK, r

\* A group that loses members without a join phase starts one.
LEMMA RestartOK ==
  ASSUME NEW g, IsGroup(g), g.state = "Forming", g.protocol # None, InstancesUnique(g),
         NEW now \in Nat
  PROVE  LET h == complete_join_if_all_joined(
                    prepare_rebalance(forget_removed_members(g), now), now)
         IN  OK(h) /\ Shrinks(g, h) /\ h.state = "Forming"
<1> DEFINE f == forget_removed_members(g)
           p == prepare_rebalance(f, now)
           h == complete_join_if_all_joined(p, now)
<1>1. IsGroup(f) /\ Shrinks(g, f) /\ f.state = "Forming" /\ f.protocol # None
  BY ForgetRemovedMembersType
<1>2. Startable(f)
  BY <1>1, ShrinksUnique DEF Startable
<1> HIDE DEF f
<1>3. Preparing(p) /\ Shrinks(f, p)
  BY <1>2, PrepareRebalanceOK
<1> HIDE DEF p
<1>4. OK(h) /\ Shrinks(p, h) /\ h.state = "Forming"
  BY <1>3, CompleteIfAllJoinedOK DEF Preparing
<1> HIDE DEF h
<1>5. Shrinks(g, h)
  BY <1>1, <1>3, <1>4, ShrinksTransitive
<1> QED BY <1>4, <1>5 DEF h, p, f

LEMMA SettleFormingOK ==
  ASSUME NEW g, OK(g), g.state = "Forming", NEW now \in Nat
  PROVE  /\ OK(settle_forming(g, now))
         /\ Shrinks(g, settle_forming(g, now))
<1> DEFINE f == forget_pending_members(g, now)
           r == remove_expired(f, now)
           s == IF r # f THEN r ELSE remove_members_pending_sync(r, now)
           c == IF f # g \/ r # f THEN complete_join_if_all_joined(r, now) ELSE r
           q == complete_join_if_all_joined(
                    prepare_rebalance(forget_removed_members(s), now), now)
           h == settle_forming(g, now)
<1>1. h = IF r.join_phase # None THEN end_join_phase_after_deadline(c, now)
          ELSE IF is_completing_rebalance(g) /\ s.members # f.members THEN q
               ELSE IF is_completing_rebalance(g) THEN s ELSE r
  BY DEF settle_forming
<1>2. /\ OK(f)
      /\ Shrinks(g, f)
      /\ f.members = g.members
      /\ f.state = "Forming"
      /\ f.join_phase = g.join_phase
  BY ForgetPendingMembersOK
<1> HIDE DEF f
<1>3. IsGroup(f) /\ InstancesUnique(f)
  BY <1>2 DEF OK, Consistent
<1>4. /\ IsGroup(r)
      /\ Shrinks(f, r)
      /\ r.state = "Forming"
      /\ r.protocol = f.protocol
      /\ f.join_phase = None <=> r.join_phase = None
      /\ DOMAIN r.members = DOMAIN f.members => r = f
  BY <1>2, <1>3, RemoveExpiredType
<1>5. CASE r.join_phase # None
  <2>1. Preparing(f)
    BY <1>2, <1>4, <1>5 DEF Preparing
  <2>2. Preparing(r)
    BY <2>1, RemoveExpiredPreparing
  <2> HIDE DEF r
  <2>3. OK(c) /\ Shrinks(r, c) /\ c.state = "Forming"
    BY <2>2, CompleteIfAllJoinedOK, ShrinksReflexive DEF Preparing
  <2> HIDE DEF c
  <2>4. OK(h) /\ Shrinks(c, h)
    BY <1>1, <1>5, <2>3, EndJoinPhaseOK
  <2> HIDE DEF h
  <2>5. Shrinks(g, h)
    BY <1>2, <1>4, <2>3, <2>4, ShrinksTransitive
  <2> QED BY <2>4, <2>5 DEF h
<1>6. CASE r.join_phase = None /\ is_completing_rebalance(g)
  <2>1. f.protocol # None /\ f.join_phase = None /\ DOMAIN f.members # {}
    BY <1>2, <1>4, <1>6 DEF OK, Consistent, EmptyConsistent, is_completing_rebalance
  <2> HIDE DEF r
  <2>2. /\ IsGroup(s)
        /\ Shrinks(r, s)
        /\ s.state = "Forming"
        /\ s.protocol = f.protocol
    BY <1>4, RemovePendingSyncType, ShrinksReflexive
  <2>3. Shrinks(f, s)
    BY <1>4, <2>2, ShrinksTransitive
  <2>4. CASE s.members # f.members
    <3> HIDE DEF s
    <3>1. InstancesUnique(s)
      BY <1>3, <2>3, ShrinksUnique
    <3>2. OK(q) /\ Shrinks(s, q)
      BY <2>1, <2>2, <3>1, RestartOK
    <3> HIDE DEF q
    <3> QED BY <1>1, <1>2, <1>6, <2>3, <2>4, <3>2, ShrinksTransitive
  <2>5. CASE s.members = f.members
    <3>1. r = f
      BY <1>4, <2>5
    <3>2. s = remove_members_pending_sync(f, now)
      BY <3>1
    <3> HIDE DEF s
    <3>3. f.pending_sync # None => /\ f.pending_sync.members # {}
                                   /\ f.pending_sync.members \subseteq DOMAIN f.members
      BY <1>2 DEF OK, Consistent, EmptyConsistent
    <3>4. s = f
      BY <1>3, <2>5, <3>2, <3>3, RemovePendingSyncType
    <3> QED BY <1>1, <1>2, <1>6, <2>5, <3>4
  <2> QED BY <2>4, <2>5
<1>7. CASE r.join_phase = None /\ ~ is_completing_rebalance(g)
  <2>1. DOMAIN f.members = {}
    BY <1>2, <1>4, <1>7 DEF is_completing_rebalance
  <2>2. r = f
    BY <1>4, <2>1 DEF Shrinks
  <2> QED BY <1>1, <1>2, <1>7, <2>2
<1> QED BY <1>5, <1>6, <1>7

LEMMA SettleFormedOK ==
  ASSUME NEW g, OK(g), g.state = "Formed", NEW now \in Nat
  PROVE  /\ OK(settle_formed(g, now))
         /\ Shrinks(g, settle_formed(g, now))
<1> DEFINE f == forget_pending_members(g, now)
           r == remove_expired(f, now)
           s == remove_members_pending_sync(r, now)
           p == into_preparing_rebalance(s, now)
           c == complete_join_if_all_joined(p, now)
           h == settle_formed(g, now)
<1>1. h = IF s.members # f.members THEN c ELSE s
  BY DEF settle_formed
<1>2. OK(f) /\ Shrinks(g, f) /\ f.state = "Formed"
  BY ForgetPendingMembersOK
<1> HIDE DEF f
<1>3. IsGroup(f) /\ InstancesUnique(f) /\ f.protocol # None
  BY <1>2 DEF OK, Consistent, FormedConsistent, EmptyConsistent
<1>4. /\ IsGroup(r)
      /\ Shrinks(f, r)
      /\ r.protocol = f.protocol
      /\ DOMAIN r.members = DOMAIN f.members => r = f
  BY <1>3, RemoveExpiredType
<1> HIDE DEF r
<1>5. /\ IsGroup(s)
      /\ Shrinks(r, s)
      /\ s.protocol = r.protocol
      /\ s # r => /\ r.pending_sync # None
                  /\ DOMAIN s.members = DOMAIN r.members \ r.pending_sync.members
  BY <1>4, RemovePendingSyncType
<1> HIDE DEF s
<1>6. Shrinks(f, s) /\ InstancesUnique(s)
  BY <1>3, <1>4, <1>5, ShrinksTransitive, ShrinksUnique
<1>7. CASE s.members # f.members
  <2>1. Preparing(p) /\ Shrinks(s, p)
    BY <1>3, <1>4, <1>5, <1>6, IntoPreparingRebalanceOK
  <2> HIDE DEF p
  <2>2. OK(c) /\ Shrinks(p, c)
    BY <2>1, CompleteIfAllJoinedOK DEF Preparing
  <2> HIDE DEF c
  <2> QED BY <1>1, <1>2, <1>6, <1>7, <2>1, <2>2, ShrinksTransitive
<1>8. CASE s.members = f.members
  <2>1. r = f
    BY <1>4, <1>5, <1>8 DEF Shrinks
  <2>2. f.pending_sync # None => /\ f.pending_sync.members # {}
                                 /\ f.pending_sync.members \subseteq DOMAIN f.members
    BY <1>2 DEF OK, Consistent, EmptyConsistent
  <2>3. s = f
    BY <1>5, <1>8, <2>1, <2>2
  <2> QED BY <1>1, <1>2, <1>8, <2>3
<1> QED BY <1>7, <1>8

LEMMA SettleOK ==
  ASSUME NEW g, OK(g), NEW now \in Nat
  PROVE  OK(settle(g, now)) /\ Shrinks(g, settle(g, now))
<1>1. g.state \in {"Forming", "Formed"}
  BY DEF OK, IsGroup, GroupDetail
<1> QED BY <1>1, SettleFormingOK, SettleFormedOK DEF settle

(***************************************************************************)
(* Reading the stored group.                                               *)
(***************************************************************************)
LEMMA WithStorageOK ==
  ASSUME NEW g, OK(g)
  PROVE  OK(with_storage_group_detail(g)) /\ Shrinks(g, with_storage_group_detail(g))
<1> DEFINE leader == IF g.leader \in DOMAIN g.members THEN g.leader ELSE None
           h == [g EXCEPT !.leader = leader]
<1>1. IsGroup(g) /\ Consistent(g)
  BY DEF OK
<1>2. CASE g.state = "Formed"
  BY <1>2, ShrinksReflexive DEF with_storage_group_detail
<1>3. CASE g.state # "Formed"
  <2>1. leader \in MemberIds \cup {None}
    BY <1>1 DEF IsGroup, GroupDetail
  <2>2. /\ is_completing_rebalance(g) => leader = g.leader
        /\ g.protocol = None => leader = None
    BY <1>1 DEF Consistent, CompletingConsistent, EmptyConsistent
  <2> HIDE DEF leader
  <2>3. /\ IsGroup(h)
        /\ h.members = g.members
        /\ h.pending_members = g.pending_members
        /\ h.state = g.state
        /\ h.protocol = g.protocol
        /\ h.leader = leader
        /\ h.join_phase = g.join_phase
        /\ h.pending_sync = g.pending_sync
    BY <1>1, <2>1 DEF IsGroup, GroupDetail
  <2> HIDE DEF h
  <2>4. Shrinks(g, h)
    BY <2>3 DEF Shrinks
  <2>5. Consistent(h)
    BY <1>1, <1>3, <2>2, <2>3 DEF Consistent, InstancesUnique, FormedConsistent,
       PreparingConsistent, CompletingConsistent, EmptyConsistent, is_completing_rebalance
  <2>6. ~ (is_completing_rebalance(h) /\ h.pending_sync = None)
    BY <2>5 DEF Consistent, CompletingConsistent
  <2>7. with_storage_group_detail(g) = h
    BY <1>3, <2>6 DEF with_storage_group_detail, h, leader
  <2> QED BY <2>3, <2>4, <2>5, <2>7 DEF OK
<1> QED BY <1>2, <1>3

(***************************************************************************)
(* JoinGroup.                                                              *)
(***************************************************************************)
\* h has no member and no pending id that g has not, but m, given to instance i.
Grows(g, h, m, i) ==
    /\ DOMAIN h.members \subseteq DOMAIN g.members \cup {m}
    /\ \A x \in DOMAIN h.members : x # m => h.members[x].instance = g.members[x].instance
    /\ m \in DOMAIN h.members => h.members[m].instance = i
    /\ DOMAIN h.pending_members \subseteq DOMAIN g.pending_members \cup {m}
    /\ m \in DOMAIN h.pending_members => i = None /\ m \notin DOMAIN h.members

LEMMA ShrinksGrows ==
  ASSUME NEW f, NEW g, NEW h, NEW m, NEW i, Shrinks(f, g), Grows(g, h, m, i)
  PROVE  Grows(f, h, m, i)
BY DEF Shrinks, Grows

LEMMA GrowsShrinks ==
  ASSUME NEW f, NEW g, NEW h, NEW m, NEW i, Grows(f, g, m, i), Shrinks(g, h)
  PROVE  Grows(f, h, m, i)
BY DEF Shrinks, Grows

\* The ids stay issued when the id of m is.
LEMMA GrowsIds ==
  ASSUME NEW g, NEW h, NEW ids, NEW m, NEW i, Grows(g, h, m, i), IdsIssued(g, ids),
         m \in DOMAIN ids => ids[m] = i
  PROVE  IdsIssued(h, Insert(ids, m, i))
<1>1. /\ DOMAIN Insert(ids, m, i) = DOMAIN ids \cup {m}
      /\ Insert(ids, m, i)[m] = i
      /\ \A x \in DOMAIN ids : Insert(ids, m, i)[x] = ids[x]
  BY DEF Insert
<1> QED BY <1>1 DEF Grows, IdsIssued

LEMMA JoiningProtocol ==
  ASSUME NEW g, IsGroup(g), NEW req \in JoinRequest
  PROVE  joining_protocol(g, req) \in Protocols \cup {None}
<1>1. req.protocols \in Seq(Protocols) /\ g.protocol \in Protocols \cup {None}
  BY DEF JoinRequest, IsGroup, GroupDetail
<1>2. req.protocols # <<>> => Head(req.protocols) \in Protocols
  BY <1>1
<1> QED BY <1>1, <1>2 DEF joining_protocol

LEMMA UpsertMemberOK ==
  ASSUME NEW g, IsGroup(g), NEW now \in Nat, NEW m \in MemberIds, NEW req \in JoinRequest
  PROVE  LET h == upsert_member(g, now, m, req)
         IN  /\ IsGroup(h)
             /\ DOMAIN h.members = DOMAIN g.members \cup {m}
             /\ \A x \in DOMAIN g.members : h.members[x].instance = g.members[x].instance
             /\ m \notin DOMAIN g.members => h.members[m].instance = req.group_instance_id
             /\ h.pending_members = g.pending_members
             /\ h.state = g.state
             /\ h.protocol = g.protocol
             /\ h.leader = g.leader
             /\ h.join_phase = g.join_phase
             /\ h.pending_sync = g.pending_sync
             /\ h.assignments = g.assignments
             /\ h.generation_id = g.generation_id
<1> DEFINE instance == IF m \in DOMAIN g.members THEN g.members[m].instance
                                                ELSE req.group_instance_id
           v == [instance |-> instance, metadata |-> req.metadata, last_contact |-> now]
           M == Insert(g.members, m, v)
           t == Max({g.rebalance_timeout_ms, req.rebalance_timeout_ms})
           h == upsert_member(g, now, m, req)
<1>1. h = [g EXCEPT !.rebalance_timeout_ms = t, !.members = M]
  BY DEF upsert_member
<1>2. IsMap(g.members, MemberIds, Member)
  BY DEF IsGroup
<1>3. instance \in Instances \cup {None}
  BY <1>2 DEF IsMap, Member, JoinRequest
<1> HIDE DEF instance
<1>4. v \in Member /\ v.instance = instance
  BY <1>3 DEF Member, JoinRequest
<1> HIDE DEF v
<1>5. /\ IsMap(M, MemberIds, Member)
      /\ DOMAIN M = DOMAIN g.members \cup {m}
      /\ M[m] = v
      /\ \A x \in DOMAIN g.members : x # m => M[x] = g.members[x]
  BY <1>2, <1>4, InsertMap
<1> HIDE DEF M
<1>6. t \in Nat
  <2> DEFINE x == g.rebalance_timeout_ms
             y == req.rebalance_timeout_ms
  <2>1. x \in Nat /\ y \in Nat
    BY DEF IsGroup, GroupDetail, JoinRequest
  <2> HIDE DEF x, y
  <2>2. x \in Int /\ y \in Int
    BY <2>1
  <2>3. Max({x, y}) \in {x, y}
    BY <2>2, MaxOfTwo, Zenon
  <2>4. Max({x, y}) \in Nat
    BY <2>1, <2>3
  <2> QED BY <2>4 DEF x, y
<1> HIDE DEF t
<1>7. /\ IsGroup(h)
      /\ h.members = M
      /\ h.pending_members = g.pending_members
      /\ h.state = g.state
      /\ h.protocol = g.protocol
      /\ h.leader = g.leader
      /\ h.join_phase = g.join_phase
      /\ h.pending_sync = g.pending_sync
      /\ h.assignments = g.assignments
      /\ h.generation_id = g.generation_id
  BY <1>1, <1>5, <1>6 DEF IsGroup, GroupDetail
<1> HIDE DEF h
<1>8. /\ \A x \in DOMAIN g.members : h.members[x].instance = g.members[x].instance
      /\ m \notin DOMAIN g.members => h.members[m].instance = req.group_instance_id
  BY <1>4, <1>5, <1>7 DEF instance
<1> QED BY <1>5, <1>7, <1>8 DEF h

LEMMA FinishJoinOK ==
  ASSUME NEW g, Preparing(g), NEW now \in Nat, NEW m \in DOMAIN g.members
  PROVE  /\ OK(finish_join(g, now, m).group)
         /\ Shrinks(g, finish_join(g, now, m).group)
         /\ finish_join(g, now, m).reply.member = m
         /\ m \in DOMAIN finish_join(g, now, m).group.members
<1> DEFINE j == [g.join_phase EXCEPT !.joined = g.join_phase.joined \cup {m}]
           k == [g EXCEPT !.join_phase = j]
           c == complete_join_if_all_joined_after_join(k, now)
<1>1. IsGroup(g) /\ g.join_phase \in JoinPhase /\ g.join_phase # None
  BY DEF Preparing, OK, IsGroup, GroupDetail
<1>2. DOMAIN g.members \subseteq MemberIds /\ g.join_phase.joined \subseteq DOMAIN g.members
  BY <1>1 DEF Preparing, OK, Consistent, PreparingConsistent, IsGroup, IsMap
<1>3. mark_joined(g, m) = k
  BY <1>1 DEF mark_joined
<1>4. j \in JoinPhase /\ j.joined \subseteq DOMAIN g.members /\ m \in j.joined
  BY <1>1, <1>2 DEF JoinPhase
<1> HIDE DEF j
<1>5. Preparing(k) /\ Shrinks(g, k) /\ m \in k.join_phase.joined
  <2>1. k.join_phase = j
    BY <1>1 DEF IsGroup, GroupDetail
  <2> QED BY <1>4, <2>1, ChangePhaseOK
<1>6. finish_join(g, now, m) = Result(c, reply_to_joined(c, m))
  BY <1>3 DEF finish_join
<1> HIDE DEF k
<1>7. OK(c) /\ Shrinks(k, c) /\ m \in DOMAIN c.members
  BY <1>5, CompleteAfterJoinOK, CompleteAfterJoinKeeps DEF Preparing
<1> HIDE DEF c
<1>8. reply_to_joined(c, m).member = m
  BY DEF reply_to_joined, Joined, Held
<1>9. Shrinks(g, c)
  BY <1>5, <1>7, ShrinksTransitive
<1> QED BY <1>6, <1>7, <1>8, <1>9 DEF Result

\* A group in a join phase that differs from a consistent one in its members.
LEMMA PreparingParts ==
  ASSUME NEW g, IsGroup(g), g.state = "Forming", g.join_phase # None, g.pending_sync = None,
         g.protocol # None, InstancesUnique(g), g.join_phase.joined \subseteq DOMAIN g.members
  PROVE  Preparing(g)
BY DEF Preparing, OK, Consistent, FormedConsistent, PreparingConsistent,
       CompletingConsistent, EmptyConsistent, is_completing_rebalance

LEMMA PrepareInitialRebalanceOK ==
  ASSUME NEW g, Startable(g), NEW now \in Nat
  PROVE  /\ Preparing(prepare_initial_rebalance(g, now))
         /\ Shrinks(g, prepare_initial_rebalance(g, now))
         /\ prepare_initial_rebalance(g, now).members = g.members
         /\ prepare_initial_rebalance(g, now).generation_id = g.generation_id
<1> DEFINE r == Max({0, rebalance_timeout(g) - InitialRebalanceDelay})
           i == [delay |-> InitialRebalanceDelay, remaining |-> r, new_member_added |-> FALSE]
           j == [deadline |-> now + InitialRebalanceDelay, joined |-> {}, initial_delay |-> i]
           h == prepare_initial_rebalance(g, now)
<1>1. r \in Nat
  <2> DEFINE d == rebalance_timeout(g) - InitialRebalanceDelay
  <2>1. d \in Int
    BY Timeouts, DelayAssumption DEF Startable
  <2> HIDE DEF d
  <2>2. 0 \in Int
    OBVIOUS
  <2>3. Max({0, d}) \in {0, d} /\ Max({0, d}) >= 0
    BY <2>1, <2>2, MaxOfTwo, Zenon
  <2>4. Max({0, d}) \in Nat
    BY <2>1, <2>3
  <2> QED BY <2>4 DEF d
<1>2. h = [g EXCEPT !.pending_sync = None, !.join_phase = j]
  BY DEF prepare_initial_rebalance
<1> HIDE DEF r, h
<1>3. i \in InitialDelay
  BY <1>1, DelayAssumption DEF InitialDelay
<1> HIDE DEF i
<1>4. j \in JoinPhase /\ j.joined = {} /\ j # None
  BY <1>3, DelayAssumption, NoneAssumption DEF JoinPhase
<1> HIDE DEF j
<1>5. /\ IsGroup(h)
      /\ h.members = g.members
      /\ h.pending_members = g.pending_members
      /\ h.state = "Forming"
      /\ h.protocol # None
      /\ h.pending_sync = None
      /\ h.join_phase = j
      /\ h.generation_id = g.generation_id
  BY <1>2, <1>4 DEF Startable, IsGroup, GroupDetail
<1>6. Shrinks(g, h)
  BY <1>5 DEF Shrinks
<1>7. InstancesUnique(h)
  BY <1>6, ShrinksUnique DEF Startable
<1>8. Preparing(h)
  BY <1>4, <1>5, <1>7, PreparingParts
<1> QED BY <1>5, <1>6, <1>8 DEF h

\* The group that a member joins has a protocol from then on.
LEMMA SetProtocolOK ==
  ASSUME NEW g, IsGroup(g), NEW req \in JoinRequest, joining_protocol(g, req) # None
  PROVE  LET h == set_protocol(g, req)
         IN  /\ IsGroup(h)
             /\ h.protocol # None
             /\ h.members = g.members
             /\ h.pending_members = g.pending_members
             /\ h.state = g.state
             /\ h.leader = g.leader
             /\ h.join_phase = g.join_phase
             /\ h.pending_sync = g.pending_sync
             /\ h.generation_id = g.generation_id
<1> DEFINE h == set_protocol(g, req)
           p == joining_protocol(g, req)
<1>1. p \in Protocols
  BY JoiningProtocol
<1>2. h = IF g.protocol # None THEN g
          ELSE [g EXCEPT !.protocol = p, !.session_timeout_ms = req.session_timeout_ms,
                         !.rebalance_timeout_ms = 0]
  BY DEF set_protocol
<1>3. p # None /\ req.session_timeout_ms \in Nat
  BY DEF JoinRequest
<1> HIDE DEF h, p
<1>4. CASE g.protocol # None
  BY <1>2, <1>4 DEF h
<1>5. CASE g.protocol = None
  <2>1. /\ IsGroup(h)
        /\ h.protocol = p
        /\ h.members = g.members
        /\ h.pending_members = g.pending_members
        /\ h.state = g.state
        /\ h.leader = g.leader
        /\ h.join_phase = g.join_phase
        /\ h.pending_sync = g.pending_sync
        /\ h.generation_id = g.generation_id
    BY <1>1, <1>2, <1>3, <1>5 DEF IsGroup, GroupDetail
  <2> QED BY <1>3, <2>1 DEF h
<1> QED BY <1>4, <1>5

LEMMA NoteNewMemberOK ==
  ASSUME NEW j \in JoinPhase
  PROVE  note_new_member(j) \in JoinPhase /\ note_new_member(j).joined = j.joined
<1>1. CASE j.initial_delay = None
  BY <1>1 DEF note_new_member
<1>2. CASE j.initial_delay # None
  <2> DEFINE i == [j.initial_delay EXCEPT !.new_member_added = TRUE]
  <2>1. i \in InitialDelay
    BY <1>2 DEF JoinPhase, InitialDelay
  <2>2. note_new_member(j) = [j EXCEPT !.initial_delay = i]
    BY <1>2 DEF note_new_member
  <2> HIDE DEF i
  <2> QED BY <2>1, <2>2 DEF JoinPhase
<1> QED BY <1>1, <1>2

\* The group that add_member completes the join of.
Adding(g, now, m, req) ==
    LET u == upsert_member(set_protocol(g, req), now, m, req)
        l == [u EXCEPT !.leader = IF @ = None THEN m ELSE @]
    IN  IF g.join_phase # None THEN [l EXCEPT !.join_phase = note_new_member(@)]
        ELSE IF DOMAIN g.members = {} THEN prepare_initial_rebalance(l, now)
             ELSE prepare_rebalance(l, now)

LEMMA AddingOK ==
  ASSUME NEW g, OK(g), g.state = "Forming", NEW now \in Nat, NEW m \in MemberIds,
         NEW req \in JoinRequest, joining_protocol(g, req) # None,
         m \notin DOMAIN g.members, m \notin DOMAIN g.pending_members,
         req.group_instance_id # None =>
            \A x \in DOMAIN g.members : g.members[x].instance # req.group_instance_id
  PROVE  LET p == Adding(g, now, m, req)
         IN  /\ Preparing(p)
             /\ Grows(g, p, m, req.group_instance_id)
             /\ DOMAIN p.members = DOMAIN g.members \cup {m}
             /\ p.generation_id = g.generation_id
             /\ add_member(g, now, m, req) = finish_join(p, now, m)
<1> DEFINE s == set_protocol(g, req)
           u == upsert_member(s, now, m, req)
           leader == IF u.leader = None THEN m ELSE u.leader
           l == [u EXCEPT !.leader = leader]
           n == [l EXCEPT !.join_phase = note_new_member(l.join_phase)]
           p == IF g.join_phase # None THEN n
                ELSE IF DOMAIN g.members = {} THEN prepare_initial_rebalance(l, now)
                     ELSE prepare_rebalance(l, now)
           a == Adding(g, now, m, req)
<1>1. a = p
  BY DEF Adding
<1>1a. add_member(g, now, m, req) = finish_join(p, now, m)
  BY DEF add_member
<1>2. IsGroup(g) /\ Consistent(g)
  BY DEF OK
<1>3. /\ IsGroup(s)
      /\ s.protocol # None
      /\ s.members = g.members
      /\ s.pending_members = g.pending_members
      /\ s.state = "Forming"
      /\ s.join_phase = g.join_phase
      /\ s.pending_sync = g.pending_sync
      /\ s.generation_id = g.generation_id
  BY <1>2, SetProtocolOK
<1> HIDE DEF s
<1>4. /\ IsGroup(u)
      /\ DOMAIN u.members = DOMAIN g.members \cup {m}
      /\ \A x \in DOMAIN g.members : u.members[x].instance = g.members[x].instance
      /\ u.members[m].instance = req.group_instance_id
      /\ u.pending_members = g.pending_members
      /\ u.state = "Forming"
      /\ u.protocol # None
      /\ u.join_phase = g.join_phase
      /\ u.pending_sync = g.pending_sync
      /\ u.generation_id = g.generation_id
  BY <1>3, UpsertMemberOK
<1> HIDE DEF u
<1>5. leader \in MemberIds \cup {None}
  BY <1>4 DEF IsGroup, GroupDetail
<1> HIDE DEF leader
<1>6. /\ IsGroup(l)
      /\ l.members = u.members
      /\ l.pending_members = g.pending_members
      /\ l.state = "Forming"
      /\ l.protocol # None
      /\ l.join_phase = g.join_phase
      /\ l.pending_sync = g.pending_sync
      /\ l.generation_id = g.generation_id
  BY <1>4, <1>5 DEF IsGroup, GroupDetail
<1> HIDE DEF l
<1>7. InstancesUnique(l)
  BY <1>2, <1>4, <1>6 DEF Consistent, InstancesUnique
<1>8. Grows(g, l, m, req.group_instance_id)
  BY <1>4, <1>6 DEF Grows
<1>9. /\ Preparing(p)
      /\ Shrinks(l, p)
      /\ DOMAIN p.members = DOMAIN l.members
      /\ p.generation_id = g.generation_id
  <2>1. CASE g.join_phase # None
    <3>1. g.pending_sync = None /\ g.join_phase.joined \subseteq DOMAIN g.members
      BY <1>2, <2>1 DEF Consistent, PreparingConsistent
    <3>2. Preparing(l)
      BY <1>4, <1>6, <1>7, <2>1, <3>1, PreparingParts
    <3>3. l.join_phase \in JoinPhase /\ l.join_phase.joined \subseteq DOMAIN l.members
      BY <1>4, <1>6, <2>1, <3>1 DEF IsGroup, GroupDetail
    <3>4. /\ note_new_member(l.join_phase) \in JoinPhase
          /\ note_new_member(l.join_phase).joined \subseteq DOMAIN l.members
      BY <3>3, NoteNewMemberOK
    <3>5. Preparing(n) /\ Shrinks(l, n) /\ n.members = l.members
      BY <3>2, <3>4, ChangePhaseOK
    <3>6. n.generation_id = l.generation_id
      BY <1>6 DEF IsGroup, GroupDetail
    <3> QED BY <1>6, <2>1, <3>5, <3>6
  <2>2. CASE g.join_phase = None
    <3>1. Startable(l)
      BY <1>6, <1>7 DEF Startable
    <3>2. CASE DOMAIN g.members = {}
      BY <1>4, <1>6, <2>2, <3>1, <3>2, PrepareInitialRebalanceOK
    <3>3. CASE DOMAIN g.members # {}
      BY <1>4, <1>6, <2>2, <3>1, <3>3, PrepareRebalanceOK
    <3> QED BY <3>2, <3>3
  <2> QED BY <2>1, <2>2
<1> HIDE DEF p, a
<1>10. Grows(g, p, m, req.group_instance_id)
  BY <1>8, <1>9, GrowsShrinks
<1> QED BY <1>1, <1>1a, <1>4, <1>6, <1>9, <1>10 DEF a

LEMMA AddMemberOK ==
  ASSUME NEW g, OK(g), g.state = "Forming", NEW now \in Nat, NEW m \in MemberIds,
         NEW req \in JoinRequest, joining_protocol(g, req) # None,
         m \notin DOMAIN g.members, m \notin DOMAIN g.pending_members,
         req.group_instance_id # None =>
            \A x \in DOMAIN g.members : g.members[x].instance # req.group_instance_id
  PROVE  /\ OK(add_member(g, now, m, req).group)
         /\ Grows(g, add_member(g, now, m, req).group, m, req.group_instance_id)
         /\ add_member(g, now, m, req).reply.member = m
         /\ m \in DOMAIN add_member(g, now, m, req).group.members
<1> DEFINE p == Adding(g, now, m, req)
           r == finish_join(p, now, m)
<1>1. /\ Preparing(p)
      /\ Grows(g, p, m, req.group_instance_id)
      /\ m \in DOMAIN p.members
      /\ add_member(g, now, m, req) = r
  BY AddingOK
<1> HIDE DEF p
<1>2. OK(r.group) /\ Shrinks(p, r.group) /\ r.reply.member = m /\ m \in DOMAIN r.group.members
  BY <1>1, FinishJoinOK
<1> HIDE DEF r
<1>3. Grows(g, r.group, m, req.group_instance_id)
  BY <1>1, <1>2, GrowsShrinks
<1> QED BY <1>1, <1>2, <1>3

\* How update_member and replace_static_member go on with the changed group.
LEMMA RejoinOK ==
  ASSUME NEW g, IsGroup(g), g.state = "Forming", g.protocol # None, InstancesUnique(g),
         g.join_phase # None => g.pending_sync = None,
         g.join_phase # None => g.join_phase.joined \subseteq DOMAIN g.members,
         NEW now \in Nat, NEW m \in DOMAIN g.members
  PROVE  LET r == finish_join(IF g.join_phase = None THEN prepare_rebalance(g, now) ELSE g,
                              now, m)
         IN  /\ OK(r.group)
             /\ Shrinks(g, r.group)
             /\ r.reply.member = m
             /\ m \in DOMAIN r.group.members
<1> DEFINE p == IF g.join_phase = None THEN prepare_rebalance(g, now) ELSE g
<1>1. Preparing(p) /\ Shrinks(g, p) /\ m \in DOMAIN p.members
  <2>1. CASE g.join_phase = None
    <3>1. Startable(g)
      BY DEF Startable
    <3> QED BY <2>1, <3>1, PrepareRebalanceOK
  <2>2. CASE g.join_phase # None
    BY <2>2, PreparingParts, ShrinksReflexive
  <2> QED BY <2>1, <2>2
<1> HIDE DEF p
<1>2. /\ OK(finish_join(p, now, m).group)
      /\ Shrinks(p, finish_join(p, now, m).group)
      /\ finish_join(p, now, m).reply.member = m
      /\ m \in DOMAIN finish_join(p, now, m).group.members
  BY <1>1, FinishJoinOK
<1>3. Shrinks(g, finish_join(p, now, m).group)
  BY <1>1, <1>2, ShrinksTransitive
<1> QED BY <1>2, <1>3 DEF p

LEMMA UpdateMemberOK ==
  ASSUME NEW g, OK(g), g.state = "Forming", NEW now \in Nat, NEW m \in DOMAIN g.members,
         NEW req \in JoinRequest
  PROVE  /\ OK(update_member(g, now, m, req).group)
         /\ Shrinks(g, update_member(g, now, m, req).group)
         /\ update_member(g, now, m, req).reply.member = m
<1> DEFINE u == upsert_member(g, now, m, req)
           same == /\ g.join_phase # None
                   /\ m \in g.join_phase.joined
                   /\ has_joined_with(g, m, req.metadata)
           r == finish_join(IF u.join_phase = None THEN prepare_rebalance(u, now) ELSE u, now, m)
<1>1. IsGroup(g) /\ Consistent(g) /\ m \in MemberIds
  BY DEF OK, IsGroup, IsMap
<1>2. /\ IsGroup(u)
      /\ DOMAIN u.members = DOMAIN g.members
      /\ \A x \in DOMAIN g.members : u.members[x].instance = g.members[x].instance
      /\ u.pending_members = g.pending_members
      /\ u.state = "Forming"
      /\ u.protocol = g.protocol
      /\ u.join_phase = g.join_phase
      /\ u.pending_sync = g.pending_sync
  <2>1. DOMAIN u.members = DOMAIN g.members \cup {m}
    BY <1>1, UpsertMemberOK
  <2> QED BY <1>1, <2>1, UpsertMemberOK
<1>3. update_member(g, now, m, req) = IF same THEN Result(g, reply_to_joined(g, m)) ELSE r
  BY <1>2 DEF update_member
<1> HIDE DEF u, same
<1>4. Shrinks(g, u)
  BY <1>2 DEF Shrinks
<1>5. InstancesUnique(u) /\ u.protocol # None
  BY <1>1, <1>2, <1>4, ShrinksUnique DEF Consistent, EmptyConsistent
<1>6. u.join_phase # None => u.pending_sync = None /\ u.join_phase.joined \subseteq DOMAIN u.members
  BY <1>1, <1>2 DEF Consistent, PreparingConsistent
<1>7. OK(r.group) /\ Shrinks(u, r.group) /\ r.reply.member = m
  BY <1>2, <1>5, <1>6, RejoinOK
<1> HIDE DEF r
<1>8. Shrinks(g, r.group)
  BY <1>4, <1>7, ShrinksTransitive
<1>9. reply_to_joined(g, m).member = m
  BY DEF reply_to_joined, Joined, Held
<1> QED BY <1>3, <1>7, <1>8, <1>9, ShrinksReflexive DEF Result

\* Renaming a static member keeps instances unique.
LEMMA RenameMembersOK ==
  ASSUME NEW g, NEW h, NEW old, NEW new, IsGroup(g), InstancesUnique(g),
         old \in DOMAIN g.members, new \in MemberIds, new \notin DOMAIN g.members,
         h.members = Rename(g.members, old, new)
  PROVE  /\ IsMap(h.members, MemberIds, Member)
         /\ DOMAIN h.members = (DOMAIN g.members \ {old}) \cup {new}
         /\ h.members[new].instance = g.members[old].instance
         /\ \A x \in DOMAIN g.members \ {old} : h.members[x].instance = g.members[x].instance
         /\ InstancesUnique(h)
<1>1. IsMap(g.members, MemberIds, Member)
  BY DEF IsGroup
<1>2. /\ IsMap(h.members, MemberIds, Member)
      /\ DOMAIN h.members = (DOMAIN g.members \ {old}) \cup {new}
      /\ h.members[new] = g.members[old]
      /\ \A x \in DOMAIN g.members \ {old} : h.members[x] = g.members[x]
  <2> DEFINE M == Rename(g.members, old, new)
  <2>1. /\ IsMap(M, MemberIds, Member)
        /\ DOMAIN M = (DOMAIN g.members \ {old}) \cup {new}
        /\ M[new] = g.members[old]
        /\ \A x \in DOMAIN g.members \ {old} : M[x] = g.members[x]
    BY <1>1 DEF IsMap, Rename, Insert, Remove, Restrict
  <2> QED BY <2>1
<1>3. InstancesUnique(h)
  <2> SUFFICES ASSUME NEW x \in DOMAIN h.members, NEW y \in DOMAIN h.members, x # y,
                      h.members[x].instance # None
               PROVE  h.members[x].instance # h.members[y].instance
    BY DEF InstancesUnique
  <2>1. CASE x = new
    BY <1>2, <2>1 DEF InstancesUnique
  <2>2. CASE y = new
    BY <1>2, <2>2 DEF InstancesUnique
  <2>3. CASE x # new /\ y # new
    BY <1>2, <2>3 DEF InstancesUnique
  <2> QED BY <2>1, <2>2, <2>3
<1> QED BY <1>2, <1>3

\* The group in which replace_static_member lets the new id join.
Replacing(g, now, old, new, req) ==
    upsert_member([g EXCEPT
                    !.members = Rename(@, old, new),
                    !.leader = IF @ = old THEN new ELSE @,
                    !.join_phase = IF @ = None THEN @
                                   ELSE [@ EXCEPT !.joined = g.join_phase.joined \ {old}]],
                  now, new, req)

LEMMA ReplacingOK ==
  ASSUME NEW g, OK(g), g.state = "Forming", NEW now \in Nat, NEW old \in DOMAIN g.members,
         NEW new \in MemberIds, new \notin DOMAIN g.members, new \notin DOMAIN g.pending_members,
         NEW req \in JoinRequest, g.members[old].instance = req.group_instance_id
  PROVE  LET u == Replacing(g, now, old, new, req)
         IN  /\ IsGroup(u)
             /\ u.state = "Forming"
             /\ u.protocol # None
             /\ InstancesUnique(u)
             /\ u.join_phase # None => u.pending_sync = None
             /\ u.join_phase # None => u.join_phase.joined \subseteq DOMAIN u.members
             /\ Grows(g, u, new, req.group_instance_id)
             /\ DOMAIN u.members = (DOMAIN g.members \ {old}) \cup {new}
             /\ u.generation_id = g.generation_id
             /\ replace_static_member(g, now, old, new, req)
                = finish_join(IF u.join_phase = None THEN prepare_rebalance(u, now) ELSE u, now, new)
<1> DEFINE M == Rename(g.members, old, new)
           leader == IF g.leader = old THEN new ELSE g.leader
           j == IF g.join_phase = None THEN None
                ELSE [g.join_phase EXCEPT !.joined = g.join_phase.joined \ {old}]
           r == [g EXCEPT !.members = M, !.leader = leader, !.join_phase = j]
           u == upsert_member(r, now, new, req)
           q == finish_join(IF u.join_phase = None THEN prepare_rebalance(u, now) ELSE u, now, new)
           v == Replacing(g, now, old, new, req)
<1>1. IsGroup(g) /\ Consistent(g)
  BY DEF OK
<1>2. leader \in MemberIds \cup {None}
  BY <1>1 DEF IsGroup, GroupDetail
<1>3. /\ j \in JoinPhase \cup {None}
      /\ j = None <=> g.join_phase = None
      /\ j # None => j.joined = g.join_phase.joined \ {old}
  BY <1>1, NoneAssumption DEF IsGroup, GroupDetail, JoinPhase
<1>4. g.protocol # None
  BY <1>1 DEF Consistent, EmptyConsistent
<1>5. r.members = M
  BY <1>1 DEF IsGroup, GroupDetail
<1>5a. replace_static_member(g, now, old, new, req)
        = finish_join(IF g.join_phase = None THEN prepare_rebalance(u, now) ELSE u, now, new)
  BY DEF replace_static_member
<1>5b. v = u
  BY DEF Replacing
<1>5c. r = [g EXCEPT !.members = M, !.leader = leader, !.join_phase = j]
  OBVIOUS
<1> HIDE DEF r
<1>6. /\ IsMap(M, MemberIds, Member)
      /\ DOMAIN r.members = (DOMAIN g.members \ {old}) \cup {new}
      /\ r.members[new].instance = req.group_instance_id
      /\ \A x \in DOMAIN g.members \ {old} : r.members[x].instance = g.members[x].instance
      /\ InstancesUnique(r)
  <2>1. InstancesUnique(g) /\ r.members = Rename(g.members, old, new)
    BY <1>1, <1>5 DEF Consistent
  <2>2. /\ IsMap(r.members, MemberIds, Member)
        /\ DOMAIN r.members = (DOMAIN g.members \ {old}) \cup {new}
        /\ r.members[new].instance = g.members[old].instance
        /\ \A x \in DOMAIN g.members \ {old} : r.members[x].instance = g.members[x].instance
        /\ InstancesUnique(r)
    BY <1>1, <2>1, RenameMembersOK
  <2> QED BY <1>5, <2>2
<1> HIDE DEF M, leader, j
<1>7. /\ IsGroup(r)
      /\ r.pending_members = g.pending_members
      /\ r.state = "Forming"
      /\ r.protocol # None
      /\ r.join_phase = j
      /\ r.pending_sync = g.pending_sync
      /\ r.generation_id = g.generation_id
  BY <1>1, <1>2, <1>3, <1>4, <1>5c, <1>6 DEF IsGroup, GroupDetail
<1>8. DOMAIN u.members = DOMAIN r.members \cup {new}
  BY <1>7, UpsertMemberOK
<1>9. /\ IsGroup(u)
      /\ \A x \in DOMAIN r.members : u.members[x].instance = r.members[x].instance
      /\ u.pending_members = r.pending_members
      /\ u.state = "Forming"
      /\ u.protocol # None
      /\ u.join_phase = j
      /\ u.pending_sync = g.pending_sync
      /\ u.generation_id = g.generation_id
  BY <1>7, UpsertMemberOK
<1>10. replace_static_member(g, now, old, new, req) = q
  BY <1>3, <1>5a, <1>9
<1> HIDE DEF u
<1>11. DOMAIN u.members = DOMAIN r.members
  BY <1>6, <1>8
<1>12. Shrinks(r, u)
  BY <1>9, <1>11 DEF Shrinks
<1>13. InstancesUnique(u)
  BY <1>6, <1>12, ShrinksUnique
<1>14. j # None => g.pending_sync = None /\ j.joined \subseteq DOMAIN u.members
  BY <1>1, <1>3, <1>6, <1>11 DEF Consistent, PreparingConsistent
<1>15. Grows(g, r, new, req.group_instance_id)
  BY <1>6, <1>7 DEF Grows
<1>16. Grows(g, u, new, req.group_instance_id)
  BY <1>12, <1>15, GrowsShrinks
<1> HIDE DEF v
<1> QED BY <1>5b, <1>6, <1>9, <1>10, <1>11, <1>13, <1>14, <1>16 DEF v

LEMMA ReplaceStaticMemberOK ==
  ASSUME NEW g, OK(g), g.state = "Forming", NEW now \in Nat, NEW old \in DOMAIN g.members,
         NEW new \in MemberIds, new \notin DOMAIN g.members, new \notin DOMAIN g.pending_members,
         NEW req \in JoinRequest, g.members[old].instance = req.group_instance_id
  PROVE  LET r == replace_static_member(g, now, old, new, req)
         IN  /\ OK(r.group)
             /\ Grows(g, r.group, new, req.group_instance_id)
             /\ r.reply.member = new
             /\ new \in DOMAIN r.group.members
<1> DEFINE u == Replacing(g, now, old, new, req)
           q == finish_join(IF u.join_phase = None THEN prepare_rebalance(u, now) ELSE u, now, new)
<1>1. /\ IsGroup(u)
      /\ u.state = "Forming"
      /\ u.protocol # None
      /\ InstancesUnique(u)
      /\ u.join_phase # None => u.pending_sync = None
      /\ u.join_phase # None => u.join_phase.joined \subseteq DOMAIN u.members
      /\ Grows(g, u, new, req.group_instance_id)
      /\ new \in DOMAIN u.members
      /\ replace_static_member(g, now, old, new, req) = q
  BY ReplacingOK
<1> HIDE DEF u
<1>2. OK(q.group) /\ Shrinks(u, q.group) /\ q.reply.member = new /\ new \in DOMAIN q.group.members
  BY <1>1, RejoinOK
<1> HIDE DEF q
<1>3. Grows(g, q.group, new, req.group_instance_id)
  BY <1>1, <1>2, GrowsShrinks
<1> QED BY <1>1, <1>2, <1>3

LEMMA TakePlaceOK ==
  ASSUME NEW g, OK(g), g.state = "Formed", NEW now \in Nat, NEW old \in DOMAIN g.members,
         NEW new \in MemberIds, new \notin DOMAIN g.members, new \notin DOMAIN g.pending_members,
         NEW req \in JoinRequest, g.members[old].instance = req.group_instance_id
  PROVE  LET r == take_place(g, now, old, new, req)
         IN  /\ OK(r.group)
             /\ Grows(g, r.group, new, req.group_instance_id)
             /\ r.reply.member = new
             /\ r.group.generation_id = g.generation_id
             /\ r.group.state = "Formed"
             /\ r.group.assignments = Rename(g.assignments, old, new)
             /\ DOMAIN r.group.members = (DOMAIN g.members \ {old}) \cup {new}
<1> DEFINE M == Rename(g.members, old, new)
           A == Rename(g.assignments, old, new)
           leader == IF g.leader = old THEN new ELSE g.leader
           p == IF g.pending_sync # None /\ old \in g.pending_sync.members
                THEN [g.pending_sync EXCEPT !.members =
                        (g.pending_sync.members \ {old}) \cup {new}]
                ELSE g.pending_sync
           r == [g EXCEPT !.members = M, !.assignments = A, !.leader = leader, !.pending_sync = p]
           u == upsert_member(r, now, new, req)
<1>1. IsGroup(g) /\ Consistent(g)
  BY DEF OK
<1>2. /\ g.join_phase = None
      /\ g.leader \in DOMAIN g.members
      /\ DOMAIN g.assignments = DOMAIN g.members
      /\ g.pending_sync # None => /\ g.leader \notin g.pending_sync.members
                                  /\ g.pending_sync.members # {}
                                  /\ g.pending_sync.members \subseteq DOMAIN g.members
      /\ g.protocol # None
  BY <1>1 DEF Consistent, FormedConsistent, EmptyConsistent
<1>3. leader \in MemberIds
  BY <1>1, <1>2, MemberIdAssumption DEF IsGroup, IsMap
<1>4. /\ p \in PendingSync \cup {None}
      /\ p # None => /\ p.members # {}
                     /\ p.members \subseteq (DOMAIN g.members \ {old}) \cup {new}
                     /\ leader \notin p.members
  BY <1>1, <1>2, NoneAssumption DEF IsGroup, GroupDetail, PendingSync
<1>5. r.members = M
  BY <1>1 DEF IsGroup, GroupDetail
<1>6. /\ IsMap(A, MemberIds, SUBSET Partitions)
      /\ DOMAIN A = (DOMAIN g.members \ {old}) \cup {new}
  <2>1. IsMap(g.assignments, MemberIds, SUBSET Partitions)
    BY <1>1 DEF IsGroup
  <2>2. old \in DOMAIN g.assignments /\ new \notin DOMAIN g.assignments
    BY <1>2
  <2>3. /\ IsMap(A, MemberIds, SUBSET Partitions)
        /\ DOMAIN A = (DOMAIN g.assignments \ {old}) \cup {new}
    BY <2>1, <2>2 DEF IsMap, Rename, Insert, Remove, Restrict
  <2> QED BY <1>2, <2>3
<1>7. take_place(g, now, old, new, req).group = u
  BY DEF take_place, Result
<1>8. take_place(g, now, old, new, req).reply.member = new
  BY DEF take_place, Result, Joined
<1>9. r = [g EXCEPT !.members = M, !.assignments = A, !.leader = leader, !.pending_sync = p]
  OBVIOUS
<1> HIDE DEF r
<1>10. /\ IsMap(M, MemberIds, Member)
       /\ DOMAIN r.members = (DOMAIN g.members \ {old}) \cup {new}
       /\ r.members[new].instance = req.group_instance_id
       /\ \A x \in DOMAIN g.members \ {old} : r.members[x].instance = g.members[x].instance
       /\ InstancesUnique(r)
  BY <1>1, <1>5, RenameMembersOK DEF Consistent
<1>10a. leader \in (DOMAIN g.members \ {old}) \cup {new}
  BY <1>2
<1> HIDE DEF M, A, leader, p
<1>11. /\ IsGroup(r)
       /\ r.pending_members = g.pending_members
       /\ r.state = "Formed"
       /\ r.protocol # None
       /\ r.leader = leader
       /\ r.join_phase = None
       /\ r.pending_sync = p
       /\ r.assignments = A
       /\ r.generation_id = g.generation_id
  BY <1>1, <1>2, <1>3, <1>4, <1>6, <1>9, <1>10 DEF IsGroup, GroupDetail
<1>12. DOMAIN u.members = DOMAIN r.members \cup {new}
  BY <1>11, UpsertMemberOK
<1>13. /\ IsGroup(u)
       /\ \A x \in DOMAIN r.members : u.members[x].instance = r.members[x].instance
       /\ u.pending_members = r.pending_members
       /\ u.state = "Formed"
       /\ u.protocol # None
       /\ u.leader = leader
       /\ u.join_phase = None
       /\ u.pending_sync = p
       /\ u.assignments = A
       /\ u.generation_id = g.generation_id
  BY <1>11, UpsertMemberOK
<1> HIDE DEF u
<1>14. DOMAIN u.members = (DOMAIN g.members \ {old}) \cup {new}
  BY <1>10, <1>12
<1>15. Shrinks(r, u)
  BY <1>10, <1>13, <1>14 DEF Shrinks
<1>16. InstancesUnique(u)
  BY <1>10, <1>15, ShrinksUnique
<1>17. Consistent(u)
  BY <1>4, <1>6, <1>10a, <1>13, <1>14, <1>16 DEF Consistent, FormedConsistent,
     PreparingConsistent, CompletingConsistent, EmptyConsistent, is_completing_rebalance
<1>18. Grows(g, r, new, req.group_instance_id)
  BY <1>10, <1>11 DEF Grows
<1>19. Grows(g, u, new, req.group_instance_id)
  BY <1>15, <1>18, GrowsShrinks
<1> QED BY <1>7, <1>8, <1>13, <1>14, <1>17, <1>19 DEF OK, A

LEMMA AddPendingOK ==
  ASSUME NEW g, OK(g), NEW now \in Nat, NEW new \in MemberIds, new \notin DOMAIN g.members,
         NEW req \in JoinRequest
  PROVE  LET r == add_pending(g, now, new, req)
         IN  OK(r.group) /\ Grows(g, r.group, new, None) /\ r.reply.member = new
<1> DEFINE t == now + req.session_timeout_ms
           P == Insert(g.pending_members, new, t)
           h == [g EXCEPT !.pending_members = P]
<1>1. IsMap(g.pending_members, MemberIds, Nat)
  BY DEF OK, IsGroup
<1>2. t \in Nat
  BY DEF JoinRequest
<1>3. /\ add_pending(g, now, new, req).group = h
      /\ add_pending(g, now, new, req).reply.member = new
  BY DEF add_pending, Result, Error
<1> HIDE DEF t
<1>4. IsMap(P, MemberIds, Nat) /\ DOMAIN P = DOMAIN g.pending_members \cup {new}
  BY <1>1, <1>2 DEF IsMap, Insert
<1> HIDE DEF P
<1>5. OK(h) /\ h.members = g.members /\ h.pending_members = P
  BY <1>4, PendingOK
<1> HIDE DEF h
<1>6. Grows(g, h, new, None)
  BY <1>4, <1>5 DEF Grows
<1> QED BY <1>3, <1>5, <1>6

\* A formed group is first brought into a join phase.
LEMMA PreparingStateOK ==
  ASSUME NEW g, OK(g), NEW now \in Nat
  PROVE  /\ OK(preparing(g, now))
         /\ Shrinks(g, preparing(g, now))
         /\ preparing(g, now).state = "Forming"
         /\ preparing(g, now).members = g.members
         /\ preparing(g, now).protocol = g.protocol
<1>1. IsGroup(g) /\ Consistent(g)
  BY DEF OK
<1>2. CASE g.state = "Formed"
  <2>1. g.protocol # None /\ InstancesUnique(g)
    BY <1>1, <1>2 DEF Consistent, FormedConsistent, EmptyConsistent
  <2>2. into_preparing_rebalance(g, now).protocol = g.protocol
    BY <1>1 DEF into_preparing_rebalance, start_join_phase, IsGroup, GroupDetail
  <2> QED BY <1>1, <1>2, <2>1, <2>2, IntoPreparingRebalanceOK DEF preparing, Preparing
<1>3. CASE g.state # "Formed"
  BY <1>1, <1>3, ShrinksReflexive DEF preparing, IsGroup, GroupDetail
<1> QED BY <1>2, <1>3

LEMMA StaticMemberId ==
  ASSUME NEW g, IsGroup(g), NEW i
  PROVE  LET s == static_member_id(g, i)
         IN  /\ s = None => \A x \in DOMAIN g.members : g.members[x].instance # i
             /\ s # None => s \in DOMAIN g.members /\ g.members[s].instance = i
<1> DEFINE S == {m \in DOMAIN g.members : g.members[m].instance = i}
<1>1. S \in SUBSET MemberIds
  BY DEF IsGroup, IsMap
<1>2. static_member_id(g, i) = First(S)
  BY DEF static_member_id
<1>3. /\ S = {} => First(S) = None
      /\ S # {} => First(S) \in S
  <2> HIDE DEF S
  <2> QED BY <1>1, FirstInSet
<1>4. None \notin S
  BY <1>1, MemberIdAssumption
<1> QED BY <1>2, <1>3, <1>4

\* A request that is not refused comes from a member.
LEMMA ValidMember ==
  ASSUME NEW g, NEW m, NEW i, validate_member(g, m, i) = None
  PROVE  m \in DOMAIN g.members
BY ErrorAssumption DEF validate_member, ErrorCodes

LEMMA JoinNewOK ==
  ASSUME NEW g, OK(g), NEW now \in Nat, NEW new \in MemberIds, new \notin DOMAIN g.members,
         new \notin DOMAIN g.pending_members, NEW req \in JoinRequest,
         joining_protocol(g, req) # None
  PROVE  LET r == join_new(g, now, req, new)
         IN  /\ OK(r.group)
             /\ Grows(g, r.group, new, req.group_instance_id)
             /\ r.reply.member = new
             /\ r.reply.kind = "error" \/ new \in DOMAIN r.group.members
<1> DEFINE old == IF req.group_instance_id = None THEN None
                  ELSE static_member_id(g, req.group_instance_id)
           pending == /\ req.group_instance_id = None
                      /\ req.api_version >= MEMBER_ID_REQUIRED_VERSION
           p == preparing(g, now)
<1>1. join_new(g, now, req, new) =
        IF pending THEN add_pending(g, now, new, req)
        ELSE IF old = None THEN add_member(p, now, new, req)
             ELSE IF g.state = "Formed" THEN take_place(g, now, old, new, req)
                  ELSE replace_static_member(g, now, old, new, req)
  BY DEF join_new
<1>2. IsGroup(g)
  BY DEF OK
<1>3. /\ old # None => old \in DOMAIN g.members
      /\ old # None => g.members[old].instance = req.group_instance_id
      /\ old = None /\ req.group_instance_id # None =>
            \A x \in DOMAIN g.members : g.members[x].instance # req.group_instance_id
  BY <1>2, StaticMemberId
<1>4. pending => req.group_instance_id = None
  OBVIOUS
<1> HIDE DEF old, pending
<1>5. CASE pending
  <2>1. add_pending(g, now, new, req).reply.kind = "error"
    BY DEF add_pending, Result, Error
  <2> QED BY <1>1, <1>4, <1>5, <2>1, AddPendingOK
<1>6. CASE ~ pending /\ old = None
  <2>1. /\ OK(p)
        /\ Shrinks(g, p)
        /\ p.state = "Forming"
        /\ p.members = g.members
        /\ p.protocol = g.protocol
    BY PreparingStateOK
  <2> HIDE DEF p
  <2>2. joining_protocol(p, req) # None
    BY <2>1 DEF joining_protocol
  <2>3. new \notin DOMAIN p.members /\ new \notin DOMAIN p.pending_members
    BY <2>1 DEF Shrinks
  <2>4. req.group_instance_id # None =>
            \A x \in DOMAIN p.members : p.members[x].instance # req.group_instance_id
    BY <1>3, <1>6, <2>1
  <2>5. /\ OK(add_member(p, now, new, req).group)
        /\ Grows(p, add_member(p, now, new, req).group, new, req.group_instance_id)
        /\ add_member(p, now, new, req).reply.member = new
        /\ new \in DOMAIN add_member(p, now, new, req).group.members
    BY <2>1, <2>2, <2>3, <2>4, AddMemberOK
  <2>6. Grows(g, add_member(p, now, new, req).group, new, req.group_instance_id)
    BY <2>1, <2>5, ShrinksGrows
  <2> QED BY <1>1, <1>6, <2>5, <2>6
<1>7. CASE ~ pending /\ old # None /\ g.state = "Formed"
  BY <1>1, <1>3, <1>7, TakePlaceOK
<1>8. CASE ~ pending /\ old # None /\ g.state = "Forming"
  BY <1>1, <1>3, <1>8, ReplaceStaticMemberOK
<1>9. g.state \in {"Forming", "Formed"}
  BY <1>2 DEF IsGroup, GroupDetail
<1> QED BY <1>5, <1>6, <1>7, <1>8, <1>9

LEMMA JoinPendingOK ==
  ASSUME NEW g, OK(g), NEW now \in Nat, NEW req \in JoinRequest,
         joining_protocol(g, req) # None, req.member_id \in MemberIds,
         req.member_id \notin DOMAIN g.members, req.group_instance_id = None
  PROVE  LET r == join_pending(g, now, req)
         IN  /\ OK(r.group)
             /\ Grows(g, r.group, req.member_id, None)
             /\ r.reply.member = req.member_id
<1> DEFINE m == req.member_id
           P == Remove(g.pending_members, {m})
           f == [g EXCEPT !.pending_members = P]
           p == preparing(f, now)
<1>1. join_pending(g, now, req) = add_member(p, now, m, req)
  BY DEF join_pending
<1>2. IsMap(g.pending_members, MemberIds, Nat)
  BY DEF OK, IsGroup
<1>3. IsMap(P, MemberIds, Nat) /\ DOMAIN P = DOMAIN g.pending_members \ {m}
  BY <1>2 DEF IsMap, Remove, Restrict
<1> HIDE DEF P
<1>4. /\ OK(f)
      /\ f.members = g.members
      /\ f.pending_members = P
      /\ f.protocol = g.protocol
  BY <1>3, PendingOK
<1> HIDE DEF f
<1>5. Shrinks(g, f) /\ m \notin DOMAIN f.pending_members
  BY <1>3, <1>4 DEF Shrinks
<1>6. /\ OK(p)
      /\ Shrinks(f, p)
      /\ p.state = "Forming"
      /\ p.members = f.members
      /\ p.protocol = f.protocol
  BY <1>4, PreparingStateOK
<1> HIDE DEF p
<1>7. joining_protocol(p, req) # None
  BY <1>4, <1>6 DEF joining_protocol
<1>8. m \notin DOMAIN p.members /\ m \notin DOMAIN p.pending_members
  BY <1>4, <1>5, <1>6 DEF Shrinks
<1>9. /\ OK(add_member(p, now, m, req).group)
      /\ Grows(p, add_member(p, now, m, req).group, m, None)
      /\ add_member(p, now, m, req).reply.member = m
  BY <1>6, <1>7, <1>8, AddMemberOK
<1>10. Grows(g, add_member(p, now, m, req).group, m, None)
  BY <1>5, <1>6, <1>9, ShrinksTransitive, ShrinksGrows
<1> QED BY <1>1, <1>9, <1>10

LEMMA JoinExistingOK ==
  ASSUME NEW g, OK(g), NEW now \in Nat, NEW req \in JoinRequest,
         req.member_id \in DOMAIN g.members
  PROVE  LET r == join_existing(g, now, req)
         IN  OK(r.group) /\ Shrinks(g, r.group) /\ r.reply.member = req.member_id
<1> DEFINE m == req.member_id
           p == preparing(g, now)
           u == update_member(p, now, m, req)
           same == Result(g, Joined(g, m, g.leader, FALSE))
<1>1. join_existing(g, now, req) \in {same, u}
  BY DEF join_existing
<1>2. OK(p) /\ Shrinks(g, p) /\ p.state = "Forming" /\ p.members = g.members
  BY PreparingStateOK
<1> HIDE DEF p
<1>3. m \in DOMAIN p.members
  BY <1>2
<1>4. OK(u.group) /\ Shrinks(p, u.group) /\ u.reply.member = m
  BY <1>2, <1>3, UpdateMemberOK
<1>5. Shrinks(g, u.group)
  BY <1>2, <1>4, ShrinksTransitive
<1>6. OK(same.group) /\ Shrinks(g, same.group) /\ same.reply.member = m
  BY ShrinksReflexive DEF Result, Joined
<1> HIDE DEF u, same
<1> QED BY <1>1, <1>4, <1>5, <1>6

\* A JoinGroup of a client whose id, if it has one, is in ids, and if not, is the new one.
JoinsAs(req, new, ids) ==
    /\ req \in JoinRequest
    /\ new \in MemberIds
    /\ IF req.member_id = None THEN new \notin DOMAIN ids
       ELSE /\ new = req.member_id
            /\ new \in DOMAIN ids
            /\ ids[new] = req.group_instance_id

\* The ids that are given out when the reply is stored.
WithReply(ids, reply, new, instance) ==
    IF reply.member = new THEN Insert(ids, new, instance) ELSE ids

LEMMA JoinGroupOK ==
  ASSUME NEW ids, IsMap(ids, MemberIds, Instances \cup {None}),
         NEW g, OK(g), IdsIssued(g, ids), NEW now \in Nat, NEW req, NEW new,
         JoinsAs(req, new, ids)
  PROVE  LET r == join(g, now, req, new)
             more == WithReply(ids, r.reply, new, req.group_instance_id)
         IN  /\ OK(r.group)
             /\ IdsIssued(r.group, more)
             /\ IsMap(more, MemberIds, Instances \cup {None})
             /\ r.reply.kind # "error" => /\ r.reply.member = new
                                          /\ req.member_id = None => new \in DOMAIN r.group.members
<1> DEFINE m == req.member_id
           inst == req.group_instance_id
           invalid == validate_member(g, m, inst)
           r == join(g, now, req, new)
           added == Insert(ids, new, inst)
           more == WithReply(ids, r.reply, new, inst)
<1> SUFFICES /\ OK(r.group)
             /\ IdsIssued(r.group, more)
             /\ IsMap(more, MemberIds, Instances \cup {None})
             /\ r.reply.kind # "error" => /\ r.reply.member = new
                                          /\ m = None => new \in DOMAIN r.group.members
  OBVIOUS
<1>1. /\ req \in JoinRequest
      /\ m # None => m \in DOMAIN ids /\ ids[m] = inst
  BY DEF JoinsAs
<1>2. IsMap(ids, MemberIds, Instances \cup {None})
  OBVIOUS
<1>3. /\ new \in MemberIds
      /\ m = None => new \notin DOMAIN ids
      /\ m # None => new = m
  BY DEF JoinsAs
<1>4. new \in DOMAIN ids => ids[new] = inst
  BY <1>1, <1>3
<1>5. inst \in Instances \cup {None}
  BY <1>1 DEF JoinRequest
<1>6. IsMap(added, MemberIds, Instances \cup {None})
  <2> DEFINE T == Instances \cup {None}
  <2>1. IsMap(ids, MemberIds, T) /\ inst \in T
    BY <1>2, <1>5
  <2> HIDE DEF T
  <2>2. IsMap(added, MemberIds, T)
    BY <1>3, <2>1 DEF IsMap, Insert
  <2> QED BY <2>2 DEF T
<1>7. m # None => added = ids
  BY <1>1, <1>2, <1>3 DEF IsMap, Insert
<1>8. r = IF joining_protocol(g, req) = None
          THEN Result(g, Error(m, "INCONSISTENT_GROUP_PROTOCOL"))
          ELSE IF m = None THEN join_new(g, now, req, new)
          ELSE IF m \in DOMAIN g.pending_members THEN join_pending(g, now, req)
          ELSE IF invalid # None THEN Result(g, Error(m, invalid))
          ELSE join_existing(g, now, req)
  BY DEF join
<1>9. IsMap(more, MemberIds, Instances \cup {None})
  BY <1>2, <1>6 DEF WithReply
<1>10. \A e : /\ Result(g, Error(m, e)).group = g
              /\ Result(g, Error(m, e)).reply.member = m
              /\ Result(g, Error(m, e)).reply.kind = "error"
  BY DEF Result, Error
<1>11. m = None => new # m
  BY <1>3, MemberIdAssumption
<1>12. /\ m # None => more = ids
       /\ r.reply.member = new => more = added
       /\ r.reply.member # new => more = ids
  BY <1>7 DEF WithReply
<1> HIDE DEF added, r, more
<1>13. CASE joining_protocol(g, req) = None
  <2>1. r.group = g /\ r.reply.member = m /\ r.reply.kind = "error"
    BY <1>8, <1>10, <1>13
  <2>2. more = ids
    BY <1>11, <1>12, <2>1
  <2> QED BY <1>9, <2>1, <2>2
<1>14. CASE joining_protocol(g, req) # None /\ m = None
  <2>1. new \notin DOMAIN g.members /\ new \notin DOMAIN g.pending_members
    BY <1>3, <1>14 DEF IdsIssued
  <2>2. /\ OK(r.group)
        /\ Grows(g, r.group, new, inst)
        /\ r.reply.member = new
        /\ r.reply.kind = "error" \/ new \in DOMAIN r.group.members
    BY <1>1, <1>3, <1>8, <1>14, <2>1, JoinNewOK
  <2>3. more = added
    BY <1>12, <2>2
  <2>4. IdsIssued(r.group, added)
    BY <1>4, <2>2, GrowsIds DEF added
  <2> QED BY <1>9, <2>2, <2>3, <2>4
<1>15. CASE joining_protocol(g, req) # None /\ m # None /\ m \in DOMAIN g.pending_members
  <2>1. m \notin DOMAIN g.members /\ inst = None
    BY <1>1, <1>15 DEF IdsIssued
  <2>2. OK(r.group) /\ Grows(g, r.group, m, None) /\ r.reply.member = m
    BY <1>1, <1>3, <1>8, <1>15, <2>1, JoinPendingOK
  <2>3. IdsIssued(r.group, added)
    BY <1>3, <1>4, <1>15, <2>1, <2>2, GrowsIds DEF added
  <2> QED BY <1>3, <1>7, <1>9, <1>12, <1>15, <2>2, <2>3
<1>16. CASE joining_protocol(g, req) # None /\ m # None /\ m \notin DOMAIN g.pending_members
  <2>1. OK(r.group) /\ Shrinks(g, r.group) /\ (r.reply.kind # "error" => r.reply.member = m)
    <3>1. CASE invalid # None
      BY <1>8, <1>10, <1>16, <3>1, ShrinksReflexive
    <3>2. CASE invalid = None
      <4>1. m \in DOMAIN g.members
        BY <3>2, ValidMember
      <4> QED BY <1>1, <1>8, <1>16, <3>2, <4>1, JoinExistingOK
    <3> QED BY <3>1, <3>2
  <2>2. IdsIssued(r.group, ids)
    BY <2>1, ShrinksIds
  <2> QED BY <1>3, <1>9, <1>12, <1>16, <2>1, <2>2
<1> QED BY <1>13, <1>14, <1>15, <1>16

(***************************************************************************)
(* SyncGroup.                                                              *)
(***************************************************************************)
LEMMA ForgetPendingSyncType ==
  ASSUME NEW g, IsGroup(g), NEW S
  PROVE  LET h == forget_pending_sync(g, S)
         IN  /\ IsGroup(h)
             /\ h.members = g.members
             /\ h.pending_members = g.pending_members
             /\ h.state = g.state
             /\ h.protocol = g.protocol
             /\ h.leader = g.leader
             /\ h.join_phase = g.join_phase
             /\ h.assignments = g.assignments
             /\ g.pending_sync = None => h.pending_sync = None
             /\ h.pending_sync # None => /\ g.pending_sync # None
                                         /\ h.pending_sync.members = g.pending_sync.members \ S
                                         /\ h.pending_sync.members # {}
             /\ g.pending_sync # None /\ h.pending_sync = None => g.pending_sync.members \subseteq S
<1> DEFINE p == IF g.pending_sync = None THEN None
                ELSE IF g.pending_sync.members \subseteq S THEN None
                     ELSE [g.pending_sync EXCEPT !.members = g.pending_sync.members \ S]
           h == forget_pending_sync(g, S)
<1>1. h = [g EXCEPT !.pending_sync = p]
  BY DEF forget_pending_sync, IsGroup, GroupDetail
<1>2. /\ p \in PendingSync \cup {None}
      /\ g.pending_sync = None => p = None
      /\ p # None => /\ g.pending_sync # None
                     /\ p.members = g.pending_sync.members \ S
                     /\ p.members # {}
      /\ g.pending_sync # None /\ p = None => g.pending_sync.members \subseteq S
  BY NoneAssumption DEF IsGroup, GroupDetail, PendingSync
<1> HIDE DEF p, h
<1>3. /\ IsGroup(h)
      /\ h.members = g.members
      /\ h.pending_members = g.pending_members
      /\ h.state = g.state
      /\ h.protocol = g.protocol
      /\ h.leader = g.leader
      /\ h.join_phase = g.join_phase
      /\ h.assignments = g.assignments
      /\ h.pending_sync = p
  BY <1>1, <1>2 DEF IsGroup, GroupDetail
<1> QED BY <1>2, <1>3 DEF h

\* Forgetting a member that synced, unless it is a leader that is waited for.
LEMMA ForgetPendingSyncOK ==
  ASSUME NEW g, OK(g), NEW m, g.state = "Forming" => g.leader # m
  PROVE  OK(forget_pending_sync(g, {m})) /\ Shrinks(g, forget_pending_sync(g, {m}))
<1> DEFINE h == forget_pending_sync(g, {m})
<1>1. IsGroup(g) /\ Consistent(g)
  BY DEF OK
<1>2. /\ IsGroup(h)
      /\ h.members = g.members
      /\ h.pending_members = g.pending_members
      /\ h.state = g.state
      /\ h.protocol = g.protocol
      /\ h.leader = g.leader
      /\ h.join_phase = g.join_phase
      /\ h.assignments = g.assignments
      /\ g.pending_sync = None => h.pending_sync = None
      /\ h.pending_sync # None => /\ g.pending_sync # None
                                  /\ h.pending_sync.members = g.pending_sync.members \ {m}
                                  /\ h.pending_sync.members # {}
      /\ g.pending_sync # None /\ h.pending_sync = None => g.pending_sync.members \subseteq {m}
  BY <1>1, ForgetPendingSyncType
<1> HIDE DEF h
<1>3. Shrinks(g, h)
  BY <1>2 DEF Shrinks
<1>4. InstancesUnique(h)
  BY <1>1, <1>3, ShrinksUnique DEF Consistent
<1>5. FormedConsistent(h) /\ PreparingConsistent(h)
  BY <1>1, <1>2 DEF Consistent, FormedConsistent, PreparingConsistent
<1>6. CompletingConsistent(h)
  BY <1>1, <1>2 DEF Consistent, CompletingConsistent, is_completing_rebalance
<1>7. EmptyConsistent(h)
  BY <1>1, <1>2 DEF Consistent, EmptyConsistent
<1> QED BY <1>2, <1>3, <1>4, <1>5, <1>6, <1>7 DEF OK, Consistent, h

LEMMA FormOK ==
  ASSUME NEW g, OK(g), g.state = "Forming", g.join_phase = None, NEW now \in Nat, NEW req,
         g.leader \in DOMAIN g.members, req.assignments \in [MemberIds -> SUBSET Partitions]
  PROVE  LET h == form(forget_pending_sync(g, {g.leader}), now, req)
         IN  OK(h) /\ Shrinks(g, h)
<1> DEFINE f == forget_pending_sync(g, {g.leader})
           c == restart_sessions_of_synced_members(f, now)
           A == [m \in DOMAIN f.members |->
                    IF m \in DOMAIN req.assignments THEN req.assignments[m] ELSE {}]
           h == form(f, now, req)
<1>1. IsGroup(g) /\ Consistent(g)
  BY DEF OK
<1>2. /\ IsGroup(f)
      /\ f.members = g.members
      /\ f.pending_members = g.pending_members
      /\ f.protocol = g.protocol
      /\ f.leader = g.leader
      /\ f.join_phase = None
      /\ f.pending_sync # None => /\ g.pending_sync # None
                                  /\ f.pending_sync.members = g.pending_sync.members \ {g.leader}
                                  /\ f.pending_sync.members # {}
  BY <1>1, ForgetPendingSyncType
<1> HIDE DEF f
<1>3. Shrinks(g, f)
  BY <1>2 DEF Shrinks
<1>4. /\ IsGroup(c)
      /\ DOMAIN c.members = DOMAIN f.members
      /\ c = [f EXCEPT !.members = c.members]
      /\ Shrinks(f, c)
  BY <1>2, ContactOK, ContactShrinks DEF restart_sessions_of_synced_members
<1>5. h = [c EXCEPT !.state = "Formed", !.assignments = A]
  BY DEF form
<1>6. IsMap(A, MemberIds, SUBSET Partitions) /\ DOMAIN A = DOMAIN f.members
  BY <1>2 DEF IsGroup, IsMap
<1> HIDE DEF c, A, h
<1>7. /\ c.protocol = f.protocol
      /\ c.leader = f.leader
      /\ c.join_phase = f.join_phase
      /\ c.pending_sync = f.pending_sync
      /\ c.pending_members = f.pending_members
  BY <1>2, <1>4 DEF IsGroup, GroupDetail
<1>8. /\ IsGroup(h)
      /\ h.members = c.members
      /\ h.pending_members = c.pending_members
      /\ h.state = "Formed"
      /\ h.protocol = c.protocol
      /\ h.leader = c.leader
      /\ h.join_phase = c.join_phase
      /\ h.pending_sync = c.pending_sync
      /\ h.assignments = A
  BY <1>4, <1>5, <1>6 DEF IsGroup, GroupDetail
<1>9. Shrinks(c, h)
  BY <1>8 DEF Shrinks
<1>10. Shrinks(g, h)
  BY <1>3, <1>4, <1>9, ShrinksTransitive
<1>11. InstancesUnique(h)
  BY <1>1, <1>10, ShrinksUnique DEF Consistent
<1>12. FormedConsistent(h) /\ PreparingConsistent(h) /\ CompletingConsistent(h)
  BY <1>2, <1>4, <1>6, <1>7, <1>8 DEF FormedConsistent, PreparingConsistent,
     CompletingConsistent, is_completing_rebalance
<1>13. EmptyConsistent(h)
  BY <1>1, <1>2, <1>4, <1>7, <1>8 DEF Consistent, EmptyConsistent
<1> QED BY <1>8, <1>10, <1>11, <1>12, <1>13 DEF OK, Consistent, h, f

LEMMA SyncOK ==
  ASSUME NEW g, OK(g), NEW now \in Nat, NEW req,
         req.assignments \in [MemberIds -> SUBSET Partitions]
  PROVE  OK(sync(g, now, req).group) /\ Shrinks(g, sync(g, now, req).group)
<1> DEFINE m == req.member_id
           f == forget_pending_sync(g, {m})
           r == sync(g, now, req)
<1>1. IsGroup(g) /\ Consistent(g) /\ g.state \in {"Forming", "Formed"}
  BY DEF OK, IsGroup, GroupDetail
<1>2. CASE sync_error(g, req) # None
  BY <1>2, ShrinksReflexive DEF sync, Result
<1>3. CASE sync_error(g, req) = None /\ g.state = "Forming"
  <2>1. validate_member(g, m, req.group_instance_id) = None
    BY <1>3 DEF sync_error
  <2>2. m \in DOMAIN g.members
    BY <2>1, ValidMember
  <2>3. r = sync_forming(g, now, req)
    BY <1>3 DEF sync
  <2>4. f.leader = g.leader
    BY <1>1, ForgetPendingSyncType
  <2>5. r.group = IF g.join_phase # None THEN g
                  ELSE IF g.leader # m THEN f ELSE form(f, now, req)
    <3>1. m # None
      BY <1>1, <2>2, MemberIdAssumption DEF IsGroup, IsMap
    <3> QED BY <2>3, <2>4, <3>1 DEF sync_forming, Result
  <2> HIDE DEF r
  <2>6. CASE g.join_phase # None
    BY <2>5, <2>6, ShrinksReflexive DEF r
  <2>7. CASE g.join_phase = None /\ g.leader # m
    BY <2>5, <2>7, ForgetPendingSyncOK DEF r
  <2>8. CASE g.join_phase = None /\ g.leader = m
    BY <1>3, <2>2, <2>5, <2>8, FormOK DEF r
  <2> QED BY <2>6, <2>7, <2>8
<1>4. CASE sync_error(g, req) = None /\ g.state = "Formed"
  <2>1. OK(f) /\ Shrinks(g, f)
    BY <1>4, ForgetPendingSyncOK
  <2> HIDE DEF f
  <2>2. OK(contact(f, {m}, now)) /\ Shrinks(f, contact(f, {m}, now))
    BY <2>1, ContactConsistent
  <2>3. r.group \in {g, contact(f, {m}, now)}
    BY <1>4 DEF sync, sync_formed, Result, f
  <2> QED BY <2>1, <2>2, <2>3, ShrinksReflexive, ShrinksTransitive DEF r
<1> QED BY <1>1, <1>2, <1>3, <1>4

(***************************************************************************)
(* Heartbeat, OffsetCommit and LeaveGroup.                                 *)
(***************************************************************************)
LEMMA HeartbeatOK ==
  ASSUME NEW g, OK(g), NEW now \in Nat, NEW req
  PROVE  OK(heartbeat(g, now, req).group) /\ Shrinks(g, heartbeat(g, now, req).group)
<1>1. heartbeat(g, now, req).group \in {g, contact(g, {req.member_id}, now)}
  BY DEF heartbeat, Result
<1> QED BY <1>1, ContactConsistent, ShrinksReflexive

LEMMA OffsetCommitOK ==
  ASSUME NEW g, OK(g), NEW now \in Nat, NEW req
  PROVE  /\ OK(check_offset_commit(g, now, req).group)
         /\ Shrinks(g, check_offset_commit(g, now, req).group)
<1>1. check_offset_commit(g, now, req).group \in {g, contact(g, {req.member_id}, now)}
  BY DEF check_offset_commit, Result
<1> QED BY <1>1, ContactConsistent, ShrinksReflexive

LEMMA RemoveLeavingMembersType ==
  ASSUME NEW g, IsGroup(g), NEW identities
  PROVE  LET r == remove_leaving_members(g, identities)
         IN  /\ IsGroup(r)
             /\ Shrinks(g, r)
             /\ r.state = g.state
             /\ r.protocol = g.protocol
             /\ r.leader = g.leader
             /\ r.join_phase = g.join_phase
             /\ g.pending_sync = None => r.pending_sync = None
<1> DEFINE gone == leaving_members(g, identities)
           lost == leaving_pending(g, identities)
           M == Remove(g.members, gone)
           P == Remove(g.pending_members, lost)
           h == [g EXCEPT !.members = M, !.pending_members = P]
           r == remove_leaving_members(g, identities)
<1>1. r = forget_pending_sync(h, gone)
  BY DEF remove_leaving_members
<1> HIDE DEF gone, lost
<1>2. /\ IsMap(M, MemberIds, Member)
      /\ DOMAIN M \subseteq DOMAIN g.members
      /\ \A x \in DOMAIN M : M[x] = g.members[x]
  <2>1. IsMap(g.members, MemberIds, Member)
    BY DEF IsGroup
  <2> QED BY <2>1 DEF IsMap, Remove, Restrict
<1>3. IsMap(P, MemberIds, Nat) /\ DOMAIN P \subseteq DOMAIN g.pending_members
  <2>1. IsMap(g.pending_members, MemberIds, Nat)
    BY DEF IsGroup
  <2> QED BY <2>1 DEF IsMap, Remove, Restrict
<1> HIDE DEF M, P
<1>4. /\ IsGroup(h)
      /\ h.members = M
      /\ h.pending_members = P
      /\ h.state = g.state
      /\ h.protocol = g.protocol
      /\ h.leader = g.leader
      /\ h.join_phase = g.join_phase
      /\ h.pending_sync = g.pending_sync
  BY <1>2, <1>3 DEF IsGroup, GroupDetail
<1> HIDE DEF h, r
<1>5. /\ IsGroup(r)
      /\ r.members = M
      /\ r.pending_members = P
      /\ r.state = g.state
      /\ r.protocol = g.protocol
      /\ r.leader = g.leader
      /\ r.join_phase = g.join_phase
      /\ g.pending_sync = None => r.pending_sync = None
  BY <1>1, <1>4, ForgetPendingSyncType
<1>6. Shrinks(g, r)
  BY <1>2, <1>3, <1>5 DEF Shrinks
<1> QED BY <1>5, <1>6 DEF r

LEMMA LeaveOK ==
  ASSUME NEW g, OK(g), NEW now \in Nat, NEW identities
  PROVE  OK(leave(g, now, identities)) /\ Shrinks(g, leave(g, now, identities))
<1> DEFINE r == remove_leaving_members(g, identities)
           f == forget_removed_members(r)
           p == into_preparing_rebalance(r, now)
           none == leaving_members(g, identities) \cup leaving_pending(g, identities) = {}
           h == leave(g, now, identities)
<1>1. h = IF none THEN g
          ELSE IF g.state = "Formed" THEN complete_join_if_all_joined(p, now)
          ELSE IF g.join_phase # None THEN complete_join_if_all_joined_after_join(f, now)
          ELSE IF is_completing_rebalance(g)
          THEN complete_join_if_all_joined(prepare_rebalance(f, now), now)
          ELSE f
  BY DEF leave
<1>2. IsGroup(g) /\ Consistent(g) /\ g.state \in {"Forming", "Formed"}
  BY DEF OK, IsGroup, GroupDetail
<1>3. /\ IsGroup(r)
      /\ Shrinks(g, r)
      /\ r.state = g.state
      /\ r.protocol = g.protocol
      /\ r.leader = g.leader
      /\ r.join_phase = g.join_phase
      /\ g.pending_sync = None => r.pending_sync = None
  BY <1>2, RemoveLeavingMembersType
<1>4. InstancesUnique(r)
  BY <1>2, <1>3, ShrinksUnique DEF Consistent
<1> HIDE DEF r, none, h
<1>5. /\ IsGroup(f)
      /\ Shrinks(r, f)
      /\ f.members = r.members
      /\ f.state = g.state
      /\ f.protocol = g.protocol
      /\ f.join_phase = None <=> g.join_phase = None
      /\ f.join_phase # None => f.join_phase.joined \subseteq DOMAIN f.members
      /\ g.pending_sync = None => f.pending_sync = None
  BY <1>3, ForgetRemovedMembersType
<1>6. Shrinks(g, f) /\ InstancesUnique(f)
  BY <1>3, <1>4, <1>5, ShrinksTransitive, ShrinksUnique
<1>7. CASE none
  BY <1>1, <1>7, ShrinksReflexive DEF h
<1>8. CASE ~ none /\ g.state = "Formed"
  <2>1. g.protocol # None
    BY <1>2, <1>8 DEF Consistent, FormedConsistent, EmptyConsistent
  <2>2. Preparing(p) /\ Shrinks(r, p)
    BY <1>3, <1>4, <2>1, IntoPreparingRebalanceOK
  <2> HIDE DEF p
  <2>3. /\ OK(complete_join_if_all_joined(p, now))
        /\ Shrinks(p, complete_join_if_all_joined(p, now))
    BY <2>2, CompleteIfAllJoinedOK DEF Preparing
  <2> QED BY <1>1, <1>3, <1>8, <2>2, <2>3, ShrinksTransitive DEF h
<1>9. CASE ~ none /\ g.state = "Forming" /\ g.join_phase # None
  <2>1. g.pending_sync = None /\ g.protocol # None
    BY <1>2, <1>9 DEF Consistent, PreparingConsistent, EmptyConsistent
  <2> HIDE DEF f
  <2>2. Preparing(f)
    BY <1>5, <1>6, <1>9, <2>1, PreparingParts
  <2>3. /\ OK(complete_join_if_all_joined_after_join(f, now))
        /\ Shrinks(f, complete_join_if_all_joined_after_join(f, now))
    BY <2>2, CompleteAfterJoinOK DEF Preparing
  <2> QED BY <1>1, <1>6, <1>9, <2>3, ShrinksTransitive DEF h
<1>10. CASE ~ none /\ g.state = "Forming" /\ is_completing_rebalance(g)
  <2>1. g.protocol # None /\ g.join_phase = None
    BY <1>2, <1>10 DEF Consistent, EmptyConsistent, is_completing_rebalance
  <2> DEFINE q == complete_join_if_all_joined(prepare_rebalance(f, now), now)
  <2>2. OK(q) /\ Shrinks(r, q)
    BY <1>3, <1>4, <1>10, <2>1, RestartOK
  <2>3. h = q
    BY <1>1, <1>10, <2>1
  <2> HIDE DEF q
  <2> QED BY <1>3, <2>2, <2>3, ShrinksTransitive DEF h
<1>11. CASE /\ ~ none
            /\ g.state = "Forming"
            /\ g.join_phase = None
            /\ ~ is_completing_rebalance(g)
  <2>1. DOMAIN g.members = {} /\ g.protocol = None /\ g.leader = None /\ g.pending_sync = None
    BY <1>2, <1>11 DEF Consistent, EmptyConsistent, is_completing_rebalance
  <2>2. f.leader = None
    BY <1>3, <2>1 DEF forget_removed_members, IsGroup, GroupDetail
  <2> HIDE DEF f
  <2>3. DOMAIN f.members = {}
    BY <1>6, <2>1 DEF Shrinks
  <2>4. Consistent(f)
    BY <1>5, <1>6, <1>11, <2>1, <2>2, <2>3 DEF Consistent, FormedConsistent,
       PreparingConsistent, CompletingConsistent, EmptyConsistent, is_completing_rebalance
  <2> QED BY <1>1, <1>5, <1>6, <1>11, <2>4 DEF h, OK
<1> QED BY <1>2, <1>7, <1>8, <1>9, <1>10, <1>11

(***************************************************************************)
(* The first group.                                                        *)
(***************************************************************************)
LEMMA NewGroupOK ==
  OK(NewGroup) /\ DOMAIN NewGroup.members = {} /\ DOMAIN NewGroup.pending_members = {}
<1> DEFINE E == NoEntries
<1>1. /\ IsMap(E, MemberIds, Member)
      /\ IsMap(E, MemberIds, Nat)
      /\ IsMap(E, MemberIds, SUBSET Partitions)
      /\ DOMAIN E = {}
  BY DEF IsMap, NoEntries
<1> HIDE DEF E
<1>2. NewGroup = [state |-> "Forming", session_timeout_ms |-> 0, rebalance_timeout_ms |-> 0,
                  generation_id |-> 0, members |-> E, protocol |-> None, leader |-> None,
                  join_phase |-> None, pending_sync |-> None, pending_members |-> E,
                  assignments |-> E]
  BY DEF NewGroup, E
<1>3. IsGroup(NewGroup) /\ NewGroup.members = E /\ NewGroup.pending_members = E
  BY <1>1, <1>2 DEF IsGroup, GroupDetail
<1>4. Consistent(NewGroup)
  BY <1>1, <1>2 DEF Consistent, InstancesUnique, FormedConsistent, PreparingConsistent,
     CompletingConsistent, EmptyConsistent, is_completing_rebalance
<1> QED BY <1>1, <1>3, <1>4 DEF OK

(***************************************************************************)
(* What a request makes of a group, and what its reply tells the client.   *)
(***************************************************************************)

(***************************************************************************)
(* A generation goes on, is prepared to end, or ends.                      *)
(***************************************************************************)
\* The generation does not go back, and while it lasts no assignment is awaited
\* that was not, no leader that waits is replaced, and no assignment changes.
Follows(g, h) ==
    /\ h.generation_id >= g.generation_id
    /\ is_completing_rebalance(h) /\ h.generation_id = g.generation_id =>
        is_completing_rebalance(g) /\ h.leader = g.leader
    /\ h.state = "Formed" =>
        /\ g.state = "Formed"
        /\ h.assignments = g.assignments
        /\ h.generation_id = g.generation_id

LEMMA FollowsTransitive ==
  ASSUME NEW f, NEW g, NEW h, f.generation_id \in Nat, g.generation_id \in Nat,
         h.generation_id \in Nat, Follows(f, g), Follows(g, h)
  PROVE  Follows(f, h)
BY DEF Follows

LEMMA GenerationType ==
  ASSUME NEW g, IsGroup(g)
  PROVE  g.generation_id \in Nat
BY DEF IsGroup, GroupDetail

LEMMA FollowsOK ==
  ASSUME NEW f, NEW g, NEW h, IsGroup(f), IsGroup(g), IsGroup(h), Follows(f, g), Follows(g, h)
  PROVE  Follows(f, h)
BY GenerationType, FollowsTransitive

LEMMA FollowsReflexive ==
  ASSUME NEW g, IsGroup(g)
  PROVE  Follows(g, g)
BY GenerationType DEF Follows

\* The phase goes on.
LEMMA FollowsSame ==
  ASSUME NEW g, NEW h, IsGroup(g), h.generation_id = g.generation_id, h.state = g.state,
         h.leader = g.leader, h.join_phase = g.join_phase, h.assignments = g.assignments,
         DOMAIN h.members \subseteq DOMAIN g.members
  PROVE  Follows(g, h)
BY GenerationType DEF Follows, is_completing_rebalance

\* A join phase starts, or goes on.
LEMMA FollowsPreparing ==
  ASSUME NEW g, NEW h, IsGroup(g), h.generation_id = g.generation_id, Preparing(h)
  PROVE  Follows(g, h)
BY GenerationType DEF Follows, is_completing_rebalance, Preparing

LEMMA FollowsNext ==
  ASSUME NEW g, NEW h, IsGroup(g), h.generation_id = g.generation_id + 1, h.state = "Forming"
  PROVE  Follows(g, h)
BY GenerationType DEF Follows

LEMMA ContactFollows ==
  ASSUME NEW g, IsGroup(g), NEW S, NEW now \in Nat
  PROVE  /\ Follows(g, contact(g, S, now))
         /\ contact(g, S, now).generation_id = g.generation_id
<1> DEFINE h == contact(g, S, now)
<1>1. DOMAIN h.members = DOMAIN g.members /\ h = [g EXCEPT !.members = h.members]
  BY ContactOK
<1> HIDE DEF h
<1>2. /\ h.generation_id = g.generation_id
      /\ h.state = g.state
      /\ h.leader = g.leader
      /\ h.join_phase = g.join_phase
      /\ h.assignments = g.assignments
  BY <1>1 DEF IsGroup, GroupDetail
<1>3. Follows(g, h)
  BY <1>1, <1>2, FollowsSame
<1> QED BY <1>2, <1>3 DEF h

(***************************************************************************)
(* Join phases, and who waits in them.                                     *)
(***************************************************************************)
\* The members S are in the group, and in its join phase if it has one.
Waits(S, g) ==
    /\ S \subseteq DOMAIN g.members
    /\ g.join_phase # None => S \subseteq g.join_phase.joined

LEMMA IntoPreparingGeneration ==
  ASSUME NEW g, IsGroup(g), NEW now
  PROVE  /\ into_preparing_rebalance(g, now).generation_id = g.generation_id
         /\ into_preparing_rebalance(g, now).members = g.members
BY DEF into_preparing_rebalance, start_join_phase, IsGroup, GroupDetail

LEMMA CompleteJoinFollows ==
  ASSUME NEW g, Preparing(g), NEW now \in Nat
  PROVE  LET h == complete_join(g, now)
         IN  /\ Follows(g, h)
             /\ \A S : Waits(S, g) => Waits(S, h)
<1> DEFINE joined == g.join_phase.joined
           kept == {m \in DOMAIN g.members : m \in joined \/ g.members[m].instance # None}
           k == [g EXCEPT !.members = Restrict(g.members, kept)]
           h == complete_join(g, now)
<1>1. IsGroup(g) /\ g.join_phase # None /\ g.join_phase \in JoinPhase
  BY DEF Preparing, OK, IsGroup, GroupDetail
<1>2. joined \subseteq DOMAIN g.members
  BY <1>1 DEF Preparing, OK, Consistent, PreparingConsistent
<1>3. joined \subseteq kept /\ kept \subseteq DOMAIN g.members
  BY <1>2
<1>4. h = IF kept = {} THEN become_empty(k)
          ELSE IF kept \cap joined = {} THEN wait_for_static_members(k, now)
          ELSE start_generation(k, now)
  BY DEF complete_join
<1>5. OK(h) /\ IsGroup(h) /\ h.state = "Forming"
  BY CompleteJoinOK DEF OK
<1> HIDE DEF kept
<1>6. /\ IsGroup(k)
      /\ DOMAIN k.members = kept
      /\ k.generation_id = g.generation_id
      /\ k.join_phase = g.join_phase
  <2>1. IsMap(g.members, MemberIds, Member)
    BY <1>1 DEF IsGroup
  <2> DEFINE M == Restrict(g.members, kept)
  <2>2. IsMap(M, MemberIds, Member) /\ DOMAIN M = kept
    BY <1>3, <2>1 DEF IsMap, Restrict
  <2> HIDE DEF M
  <2>3. /\ IsGroup([g EXCEPT !.members = M])
        /\ [g EXCEPT !.members = M].members = M
        /\ [g EXCEPT !.members = M].generation_id = g.generation_id
        /\ [g EXCEPT !.members = M].join_phase = g.join_phase
    BY <1>1, <2>2 DEF IsGroup, GroupDetail
  <2> QED BY <2>2, <2>3 DEF M
<1> HIDE DEF k, h
<1>7. CASE kept = {}
  <2>1. h = become_empty(k)
    BY <1>4, <1>7
  <2>2. /\ h.generation_id = k.generation_id + 1
        /\ h.members = k.members
        /\ h.join_phase = None
    BY <1>6, <2>1 DEF become_empty, IsGroup, GroupDetail
  <2>3. \A S : Waits(S, g) => Waits(S, h)
    BY <1>1, <1>3, <1>6, <2>2 DEF Waits
  <2>4. Follows(g, h)
    BY <1>1, <1>5, <1>6, <2>2, FollowsNext
  <2> QED BY <2>3, <2>4 DEF h
<1>8. CASE kept # {} /\ kept \cap joined = {}
  <2>1. h = wait_for_static_members(k, now)
    BY <1>4, <1>8
  <2>2. h.generation_id = k.generation_id /\ h.members = k.members
    BY <1>6, <2>1 DEF wait_for_static_members, IsGroup, GroupDetail
  <2>3. h.join_phase = [deadline |-> now + rebalance_timeout(k), joined |-> {},
                        initial_delay |-> None]
    BY <1>6, <2>1 DEF wait_for_static_members, IsGroup, GroupDetail
  <2>4. h.join_phase \in JoinPhase /\ h.join_phase.joined = {}
    BY <1>6, <2>3, Timeouts DEF JoinPhase
  <2>5. h.join_phase # None
    BY <2>4, NoneAssumption
  <2>6. \A S : Waits(S, g) => Waits(S, h)
    BY <1>1, <1>3, <1>8, <1>6, <2>2, <2>4 DEF Waits
  <2>7. Preparing(h)
    BY <1>5, <2>5 DEF Preparing
  <2>8. Follows(g, h)
    BY <1>1, <1>6, <2>2, <2>7, FollowsPreparing
  <2> QED BY <2>6, <2>8 DEF h
<1>9. CASE kept \cap joined # {}
  <2> DEFINE c == contact(k, DOMAIN k.members, now)
  <2>1. h = start_generation(k, now)
    BY <1>4, <1>9
  <2>2. IsGroup(c) /\ DOMAIN c.members = kept /\ c.generation_id = k.generation_id
    BY <1>6, ContactOK, ContactFollows
  <2>3. h = [c EXCEPT !.join_phase = None,
                      !.leader = IF c.leader \in k.join_phase.joined THEN c.leader
                                 ELSE First(DOMAIN k.members \cap k.join_phase.joined),
                      !.generation_id = c.generation_id + 1,
                      !.pending_sync = [deadline |-> now + rebalance_timeout(k),
                                        members |-> DOMAIN k.members]]
    BY <2>1 DEF start_generation
  <2> HIDE DEF c
  <2>4. /\ h.generation_id = c.generation_id + 1
        /\ h.members = c.members
        /\ h.join_phase = None
    BY <2>2, <2>3 DEF IsGroup, GroupDetail
  <2>5. \A S : Waits(S, g) => Waits(S, h)
    BY <1>1, <1>3, <2>2, <2>4 DEF Waits
  <2>6. Follows(g, h)
    BY <1>1, <1>5, <1>6, <2>2, <2>4, FollowsNext
  <2> QED BY <2>5, <2>6 DEF h
<1> QED BY <1>7, <1>8, <1>9

\* Whoever is in a group that completes its join phase because all joined stays in it.
LEMMA CompleteIfAllJoinedFollows ==
  ASSUME NEW g, OK(g), g.state = "Forming", NEW now \in Nat
  PROVE  LET h == complete_join_if_all_joined(g, now)
         IN  /\ Follows(g, h)
             /\ \A S : Waits(S, g) => Waits(S, h)
             /\ DOMAIN g.members \subseteq DOMAIN h.members
<1>1. CASE all_members_joined(g)
  <2>1. Preparing(g) /\ Waits(DOMAIN g.members, g)
    BY <1>1 DEF all_members_joined, Preparing, Waits
  <2>2. complete_join_if_all_joined(g, now) = complete_join(g, now)
    BY <1>1 DEF complete_join_if_all_joined
  <2>3. Waits(DOMAIN g.members, complete_join(g, now))
    BY <2>1, CompleteJoinFollows
  <2> QED BY <2>1, <2>2, <2>3, CompleteJoinFollows DEF Waits
<1>2. CASE ~ all_members_joined(g)
  <2>1. complete_join_if_all_joined(g, now) = g
    BY <1>2 DEF complete_join_if_all_joined
  <2> QED BY <2>1, FollowsReflexive DEF OK
<1> QED BY <1>1, <1>2

LEMMA CompleteAfterJoinFollows ==
  ASSUME NEW g, OK(g), g.state = "Forming", NEW now \in Nat
  PROVE  LET h == complete_join_if_all_joined_after_join(g, now)
         IN  Follows(g, h) /\ DOMAIN g.members \subseteq DOMAIN h.members
<1>1. complete_join_if_all_joined_after_join(g, now) \in {g, complete_join_if_all_joined(g, now)}
  BY DEF complete_join_if_all_joined_after_join
<1> QED BY <1>1, CompleteIfAllJoinedFollows, FollowsReflexive DEF OK

LEMMA EndJoinPhaseFollows ==
  ASSUME NEW g, OK(g), g.state = "Forming", NEW now \in Nat
  PROVE  LET h == end_join_phase_after_deadline(g, now)
         IN  /\ Follows(g, h)
             /\ \A S : Waits(S, g) => Waits(S, h)
<1> DEFINE due(h) == h.join_phase # None /\ h.join_phase.deadline <= now
           e == IF due(g) /\ extends_delay(g.join_phase)
                THEN [g EXCEPT !.join_phase = extend_delay(g.join_phase)] ELSE g
           h == end_join_phase_after_deadline(g, now)
<1>1. h = IF due(e) THEN complete_join(e, now) ELSE e
  BY DEF end_join_phase_after_deadline
<1>2. /\ OK(e)
      /\ e.state = "Forming"
      /\ Follows(g, e)
      /\ \A S : Waits(S, g) => Waits(S, e)
  <2>1. CASE due(g) /\ extends_delay(g.join_phase)
    <3> DEFINE j == extend_delay(g.join_phase)
    <3>1. Preparing(g) /\ g.join_phase \in JoinPhase /\ IsGroup(g)
      BY <2>1 DEF Preparing, OK, IsGroup, GroupDetail
    <3>2. g.join_phase.joined \subseteq DOMAIN g.members
      BY <3>1 DEF Preparing, OK, Consistent, PreparingConsistent
    <3>3. j \in JoinPhase /\ j.joined = g.join_phase.joined
      BY <2>1, <3>1, ExtendDelayOK
    <3> HIDE DEF j
    <3>4. e = [g EXCEPT !.join_phase = j]
      BY <2>1 DEF j
    <3>5. Preparing(e) /\ e.members = g.members
      BY <3>1, <3>2, <3>3, <3>4, ChangePhaseOK
    <3>6. e.generation_id = g.generation_id /\ e.join_phase = j
      BY <3>1, <3>4 DEF IsGroup, GroupDetail
    <3>7. Follows(g, e)
      BY <3>1, <3>5, <3>6, FollowsPreparing
    <3>8. \A S : Waits(S, g) => Waits(S, e)
      BY <3>1, <3>3, <3>5, <3>6 DEF Waits, Preparing
    <3> QED BY <3>5, <3>7, <3>8 DEF Preparing
  <2>2. CASE ~ (due(g) /\ extends_delay(g.join_phase))
    BY <2>2, FollowsReflexive DEF OK
  <2> QED BY <2>1, <2>2
<1> HIDE DEF e, h
<1>3. CASE due(e)
  <2>1. Preparing(e)
    BY <1>2, <1>3 DEF Preparing
  <2>2. OK(h) /\ Follows(e, h) /\ \A S : Waits(S, e) => Waits(S, h)
    BY <1>1, <1>3, <2>1, CompleteJoinOK, CompleteJoinFollows
  <2>3. Follows(g, h)
    BY <1>2, <2>2, FollowsOK DEF OK
  <2> QED BY <1>2, <2>2, <2>3 DEF h
<1>4. CASE ~ due(e)
  BY <1>1, <1>2, <1>4 DEF h
<1> QED BY <1>3, <1>4

(***************************************************************************)
(* settle.                                                                 *)
(***************************************************************************)
LEMMA ForgetPendingMembersSame ==
  ASSUME NEW g, IsGroup(g), NEW now
  PROVE  LET f == forget_pending_members(g, now)
         IN  /\ f.generation_id = g.generation_id
             /\ f.state = g.state
             /\ f.leader = g.leader
             /\ f.join_phase = g.join_phase
             /\ f.assignments = g.assignments
             /\ f.members = g.members
BY DEF forget_pending_members, IsGroup, GroupDetail

LEMMA RemoveExpiredFollows ==
  ASSUME NEW g, IsGroup(g), NEW now \in Nat
  PROVE  LET r == remove_expired(g, now)
         IN  /\ r.generation_id = g.generation_id
             /\ Preparing(g) => \A S : Waits(S, g) => Waits(S, r)
<1> DEFINE R == {m \in DOMAIN g.members \ waiting(g) :
                    now - g.members[m].last_contact > session_timeout(g)}
           e == [g EXCEPT !.members = Remove(g.members, R)]
           f == forget_removed_members(e)
           r == remove_expired(g, now)
<1>1. remove_expired_members(g, now) = e
  BY DEF remove_expired_members
<1>2. r = IF g.state = "Forming" /\ e.members # g.members THEN f ELSE e
  BY <1>1 DEF remove_expired
<1>3. R \subseteq DOMAIN g.members \ waiting(g)
  OBVIOUS
<1> HIDE DEF R
<1>4. IsGroup(e) /\ DOMAIN e.members = DOMAIN g.members \ R /\ e.join_phase = g.join_phase
  BY RemoveMembersType
<1>5. e.generation_id = g.generation_id
  BY DEF IsGroup, GroupDetail
<1> HIDE DEF e
<1>6. f.generation_id = e.generation_id /\ f.members = e.members
  BY <1>4 DEF forget_removed_members, IsGroup, GroupDetail
<1>7. e.join_phase # None => /\ f.join_phase # None
                             /\ f.join_phase.joined = e.join_phase.joined \cap DOMAIN e.members
  <2> SUFFICES ASSUME e.join_phase # None
               PROVE  /\ f.join_phase # None
                      /\ f.join_phase.joined = e.join_phase.joined \cap DOMAIN e.members
    OBVIOUS
  <2> DEFINE j == [e.join_phase EXCEPT !.joined = e.join_phase.joined \cap DOMAIN e.members]
  <2>1. f.join_phase = j
    BY <1>4 DEF forget_removed_members, IsGroup, GroupDetail
  <2>2. e.join_phase \in JoinPhase
    BY <1>4 DEF IsGroup, GroupDetail
  <2>3. j \in JoinPhase /\ j.joined = e.join_phase.joined \cap DOMAIN e.members
    BY <2>2 DEF JoinPhase
  <2> QED BY <2>1, <2>3, NoneAssumption
<1>8. ASSUME Preparing(g), NEW S, Waits(S, g)
      PROVE  Waits(S, r)
  <2>1. g.join_phase # None /\ waiting(g) = g.join_phase.joined
    BY <1>8 DEF Preparing, waiting
  <2>2. S \subseteq DOMAIN e.members /\ S \subseteq e.join_phase.joined
    BY <1>3, <1>4, <1>8, <2>1 DEF Waits
  <2>3. Waits(S, e) /\ Waits(S, f)
    BY <1>4, <1>6, <1>7, <2>1, <2>2 DEF Waits
  <2> QED BY <1>2, <2>3
<1> HIDE DEF r, f
<1> QED BY <1>2, <1>5, <1>6, <1>8 DEF r

LEMMA RemovePendingSyncGeneration ==
  ASSUME NEW g, IsGroup(g), NEW now
  PROVE  remove_members_pending_sync(g, now).generation_id = g.generation_id
BY DEF remove_members_pending_sync, IsGroup, GroupDetail

LEMMA ForgetRemovedGeneration ==
  ASSUME NEW g, IsGroup(g)
  PROVE  forget_removed_members(g).generation_id = g.generation_id
BY DEF forget_removed_members, IsGroup, GroupDetail

\* A group that lost members starts over, whichever group it comes from.
LEMMA RestartFollows ==
  ASSUME NEW g, IsGroup(g), g.state = "Forming", g.protocol # None, InstancesUnique(g),
         NEW now \in Nat, NEW before, IsGroup(before), before.generation_id = g.generation_id
  PROVE  LET h == complete_join_if_all_joined(
                    prepare_rebalance(forget_removed_members(g), now), now)
         IN  Follows(before, h) /\ DOMAIN g.members \subseteq DOMAIN h.members
<1> DEFINE f == forget_removed_members(g)
           p == prepare_rebalance(f, now)
           h == complete_join_if_all_joined(p, now)
<1>1. /\ IsGroup(f)
      /\ Shrinks(g, f)
      /\ f.state = "Forming"
      /\ f.protocol # None
      /\ f.members = g.members
      /\ f.generation_id = g.generation_id
  BY ForgetRemovedMembersType, ForgetRemovedGeneration
<1>2. Startable(f)
  BY <1>1, ShrinksUnique DEF Startable
<1> HIDE DEF f
<1>3. Preparing(p) /\ p.generation_id = g.generation_id /\ DOMAIN p.members = DOMAIN g.members
  BY <1>1, <1>2, PrepareRebalanceOK
<1> HIDE DEF p
<1>4. Follows(before, p)
  BY <1>3, FollowsPreparing
<1>5. OK(h) /\ Follows(p, h) /\ DOMAIN p.members \subseteq DOMAIN h.members
  BY <1>3, CompleteIfAllJoinedOK, CompleteIfAllJoinedFollows DEF Preparing
<1> HIDE DEF h
<1>6. Follows(before, h)
  BY <1>3, <1>4, <1>5, FollowsOK DEF OK, Preparing
<1> QED BY <1>3, <1>5, <1>6 DEF h, p, f

\* The members that wait in a join phase.
Joining(g) == IF g.join_phase = None THEN {} ELSE g.join_phase.joined

LEMMA SettleFormingFollows ==
  ASSUME NEW g, OK(g), g.state = "Forming", NEW now \in Nat
  PROVE  /\ Follows(g, settle_forming(g, now))
         /\ Joining(g) \subseteq DOMAIN settle_forming(g, now).members
<1> DEFINE f == forget_pending_members(g, now)
           r == remove_expired(f, now)
           s == IF r # f THEN r ELSE remove_members_pending_sync(r, now)
           c == IF f # g \/ r # f THEN complete_join_if_all_joined(r, now) ELSE r
           q == complete_join_if_all_joined(
                    prepare_rebalance(forget_removed_members(s), now), now)
           h == settle_forming(g, now)
<1>1. h = IF r.join_phase # None THEN end_join_phase_after_deadline(c, now)
          ELSE IF is_completing_rebalance(g) /\ s.members # f.members THEN q
               ELSE IF is_completing_rebalance(g) THEN s ELSE r
  BY DEF settle_forming
<1>2. IsGroup(g) /\ Consistent(g)
  BY DEF OK
<1>3. OK(f) /\ f.state = "Forming"
  BY ForgetPendingMembersOK
<1>4. /\ f.generation_id = g.generation_id
      /\ f.leader = g.leader
      /\ f.join_phase = g.join_phase
      /\ f.assignments = g.assignments
      /\ f.members = g.members
  BY <1>2, ForgetPendingMembersSame
<1> HIDE DEF f
<1>5. IsGroup(f) /\ InstancesUnique(f)
  BY <1>3 DEF OK, Consistent
<1>6. Follows(g, f)
  BY <1>2, <1>3, <1>4, FollowsSame
<1>7. /\ IsGroup(r)
      /\ Shrinks(f, r)
      /\ r.state = "Forming"
      /\ r.protocol = f.protocol
      /\ f.join_phase = None <=> r.join_phase = None
      /\ DOMAIN r.members = DOMAIN f.members => r = f
  BY <1>3, <1>5, RemoveExpiredType
<1>8. r.generation_id = f.generation_id
  BY <1>5, RemoveExpiredFollows
<1>9. CASE r.join_phase # None
  <2>1. Preparing(f) /\ g.join_phase # None
    BY <1>3, <1>4, <1>7, <1>9 DEF Preparing
  <2>2. Joining(g) \subseteq DOMAIN g.members /\ Waits(Joining(g), f)
    BY <1>2, <1>4, <2>1 DEF Consistent, PreparingConsistent, Joining, Waits
  <2>3. Preparing(r)
    BY <2>1, RemoveExpiredPreparing
  <2>4. Waits(Joining(g), r)
    BY <1>5, <2>1, <2>2, RemoveExpiredFollows
  <2>5. Follows(g, r)
    BY <1>2, <1>4, <1>8, <2>3, FollowsPreparing
  <2> HIDE DEF r
  <2>6. OK(c) /\ c.state = "Forming" /\ Follows(r, c) /\ Waits(Joining(g), c)
    BY <2>3, <2>4, CompleteIfAllJoinedOK, CompleteIfAllJoinedFollows, FollowsReflexive
       DEF Preparing, OK
  <2> HIDE DEF c
  <2>7. OK(h) /\ Follows(c, h) /\ Waits(Joining(g), h)
    BY <1>1, <1>9, <2>6, EndJoinPhaseOK, EndJoinPhaseFollows
  <2> HIDE DEF h
  <2>8. Follows(g, c)
    BY <1>2, <1>7, <2>5, <2>6, FollowsOK DEF OK
  <2>9. Follows(g, h)
    BY <1>2, <2>6, <2>7, <2>8, FollowsOK DEF OK
  <2> QED BY <2>7, <2>9 DEF h, Waits
<1>10. CASE r.join_phase = None /\ is_completing_rebalance(g)
  <2>1. f.protocol # None /\ f.join_phase = None /\ Joining(g) = {}
    BY <1>3, <1>4, <1>7, <1>10 DEF OK, Consistent, EmptyConsistent, is_completing_rebalance,
       Joining
  <2> HIDE DEF r
  <2>2. /\ IsGroup(s)
        /\ Shrinks(r, s)
        /\ s.state = "Forming"
        /\ s.protocol = f.protocol
        /\ s.generation_id = g.generation_id
    BY <1>4, <1>7, <1>8, RemovePendingSyncType, RemovePendingSyncGeneration, ShrinksReflexive
  <2>3. Shrinks(f, s)
    BY <1>7, <2>2, ShrinksTransitive
  <2>4. CASE s.members # f.members
    <3> HIDE DEF s
    <3>1. InstancesUnique(s)
      BY <1>5, <2>3, ShrinksUnique
    <3>2. Follows(g, q)
      BY <1>2, <2>1, <2>2, <3>1, RestartFollows
    <3> QED BY <1>1, <1>10, <2>1, <2>4, <3>2
  <2>5. CASE s.members = f.members
    <3>1. r = f
      BY <1>7, <2>5
    <3>2. s = remove_members_pending_sync(f, now)
      BY <3>1
    <3> HIDE DEF s
    <3>3. f.pending_sync # None => /\ f.pending_sync.members # {}
                                   /\ f.pending_sync.members \subseteq DOMAIN f.members
      BY <1>3 DEF OK, Consistent, EmptyConsistent
    <3>4. s = f
      BY <1>5, <2>5, <3>2, <3>3, RemovePendingSyncType
    <3>5. h = f
      BY <1>1, <1>10, <2>5, <3>4
    <3> QED BY <1>6, <2>1, <3>5
  <2> QED BY <2>4, <2>5
<1>11. CASE r.join_phase = None /\ ~ is_completing_rebalance(g)
  <2>1. DOMAIN f.members = {} /\ Joining(g) = {}
    BY <1>3, <1>4, <1>7, <1>11 DEF is_completing_rebalance, Joining
  <2>2. r = f
    BY <1>7, <2>1 DEF Shrinks
  <2> QED BY <1>1, <1>6, <1>11, <2>1, <2>2
<1> QED BY <1>9, <1>10, <1>11

LEMMA SettleFormedFollows ==
  ASSUME NEW g, OK(g), g.state = "Formed", NEW now \in Nat
  PROVE  Follows(g, settle_formed(g, now))
<1> DEFINE f == forget_pending_members(g, now)
           r == remove_expired(f, now)
           s == remove_members_pending_sync(r, now)
           p == into_preparing_rebalance(s, now)
           c == complete_join_if_all_joined(p, now)
           h == settle_formed(g, now)
<1>1. h = IF s.members # f.members THEN c ELSE s
  BY DEF settle_formed
<1>2. IsGroup(g)
  BY DEF OK
<1>3. OK(f) /\ f.state = "Formed"
  BY ForgetPendingMembersOK
<1>4. /\ f.generation_id = g.generation_id
      /\ f.leader = g.leader
      /\ f.join_phase = g.join_phase
      /\ f.assignments = g.assignments
      /\ f.members = g.members
  BY <1>2, ForgetPendingMembersSame
<1> HIDE DEF f
<1>5. IsGroup(f) /\ InstancesUnique(f) /\ f.protocol # None
  BY <1>3 DEF OK, Consistent, FormedConsistent, EmptyConsistent
<1>6. Follows(g, f)
  BY <1>2, <1>3, <1>4, FollowsSame
<1>7. /\ IsGroup(r)
      /\ Shrinks(f, r)
      /\ r.protocol = f.protocol
      /\ DOMAIN r.members = DOMAIN f.members => r = f
      /\ r.generation_id = g.generation_id
  BY <1>4, <1>5, RemoveExpiredType, RemoveExpiredFollows
<1> HIDE DEF r
<1>8. /\ IsGroup(s)
      /\ Shrinks(r, s)
      /\ s.protocol = r.protocol
      /\ s # r => /\ r.pending_sync # None
                  /\ DOMAIN s.members = DOMAIN r.members \ r.pending_sync.members
      /\ s.generation_id = g.generation_id
  BY <1>7, RemovePendingSyncType, RemovePendingSyncGeneration
<1> HIDE DEF s
<1>9. InstancesUnique(s)
  BY <1>5, <1>7, <1>8, ShrinksTransitive, ShrinksUnique
<1>10. CASE s.members # f.members
  <2>1. Preparing(p) /\ p.generation_id = g.generation_id
    BY <1>5, <1>7, <1>8, <1>9, IntoPreparingRebalanceOK, IntoPreparingGeneration
  <2> HIDE DEF p
  <2>2. OK(c) /\ Follows(p, c)
    BY <2>1, CompleteIfAllJoinedOK, CompleteIfAllJoinedFollows DEF Preparing
  <2> HIDE DEF c
  <2>3. Follows(g, p)
    BY <1>2, <2>1, FollowsPreparing
  <2>4. Follows(g, c)
    BY <1>2, <2>1, <2>2, <2>3, FollowsOK DEF OK, Preparing
  <2> QED BY <1>1, <1>10, <2>4
<1>11. CASE s.members = f.members
  <2>1. r = f
    BY <1>7, <1>8, <1>11 DEF Shrinks
  <2>2. f.pending_sync # None => /\ f.pending_sync.members # {}
                                 /\ f.pending_sync.members \subseteq DOMAIN f.members
    BY <1>3 DEF OK, Consistent, EmptyConsistent
  <2>3. s = f
    BY <1>8, <1>11, <2>1, <2>2
  <2> QED BY <1>1, <1>6, <1>11, <2>3
<1> QED BY <1>10, <1>11

\* Time alone removes no member that waits in a join phase.
LEMMA SettleFollows ==
  ASSUME NEW g, OK(g), NEW now \in Nat
  PROVE  Follows(g, settle(g, now)) /\ Joining(g) \subseteq DOMAIN settle(g, now).members
<1>1. g.state \in {"Forming", "Formed"}
  BY DEF OK, IsGroup, GroupDetail
<1>2. g.state = "Formed" => Joining(g) = {}
  BY DEF OK, Consistent, FormedConsistent, Joining
<1> QED BY <1>1, <1>2, SettleFormingFollows, SettleFormedFollows DEF settle

\* What a broker reads back is the group that was stored, but for the leader of a
\* join phase that removed it.
LEMMA WithStorageSame ==
  ASSUME NEW g, OK(g)
  PROVE  LET h == with_storage_group_detail(g)
         IN  /\ Follows(g, h)
             /\ Joining(h) = Joining(g)
             /\ h # g => g.join_phase # None /\ h = [g EXCEPT !.leader = None]
<1> DEFINE leader == IF g.leader \in DOMAIN g.members THEN g.leader ELSE None
           e == [g EXCEPT !.leader = leader]
           h == with_storage_group_detail(g)
<1>1. IsGroup(g) /\ Consistent(g)
  BY DEF OK
<1>2. CASE g.state = "Formed"
  <2>1. h = g
    BY <1>2 DEF with_storage_group_detail
  <2> QED BY <1>1, <2>1, FollowsReflexive
<1>3. CASE g.state # "Formed"
  <2>1. /\ is_completing_rebalance(g) => leader = g.leader
        /\ g.join_phase = None => leader = g.leader
    <3>1. g.state = "Forming"
      BY <1>1, <1>3 DEF IsGroup, GroupDetail
    <3>2. CASE is_completing_rebalance(g)
      BY <1>1, <3>2 DEF Consistent, CompletingConsistent, EmptyConsistent
    <3>3. CASE ~ is_completing_rebalance(g) /\ g.join_phase = None
      <4>1. g.leader = None
        BY <1>1, <3>1, <3>3 DEF Consistent, EmptyConsistent, is_completing_rebalance
      <4> QED BY <3>3, <4>1
    <3> QED BY <3>2, <3>3
  <2>2. leader \in {g.leader, None}
    OBVIOUS
  <2> HIDE DEF leader
  <2>3. /\ e.members = g.members
        /\ e.state = g.state
        /\ e.leader = leader
        /\ e.join_phase = g.join_phase
        /\ e.pending_sync = g.pending_sync
        /\ e.assignments = g.assignments
        /\ e.generation_id = g.generation_id
        /\ leader = g.leader => e = g
    BY <1>1 DEF IsGroup, GroupDetail
  <2>4. leader # g.leader => e = [g EXCEPT !.leader = None]
    BY <2>2
  <2> HIDE DEF e
  <2>5. ~ (is_completing_rebalance(e) /\ e.pending_sync = None)
    BY <1>1, <2>3 DEF Consistent, CompletingConsistent, is_completing_rebalance
  <2>6. h = e
    BY <1>3, <2>5 DEF with_storage_group_detail, e, leader
  <2>7. Follows(g, e)
    BY <1>1, <2>1, <2>3, GenerationType DEF Follows, is_completing_rebalance
  <2>8. Joining(e) = Joining(g)
    BY <2>3 DEF Joining
  <2> HIDE DEF h
  <2>9. e # g => g.join_phase # None /\ e = [g EXCEPT !.leader = None]
    BY <2>1, <2>3, <2>4
  <2> QED BY <2>6, <2>7, <2>8, <2>9 DEF h
<1> QED BY <1>2, <1>3

(***************************************************************************)
(* JoinGroup.                                                              *)
(***************************************************************************)
\* A reply that makes its receiver assign comes from a group that awaits the
\* assignment of this leader, and a JoinGroup delivers none.
Tells(r) ==
    /\ Delivery(r.reply) = {}
    /\ Assigner(r.reply) # {} => /\ is_completing_rebalance(r.group)
                                 /\ Assigner(r.reply) = {r.group.leader}
                                 /\ r.reply.generation = r.group.generation_id

LEMMA ErrorTells ==
  ASSUME NEW g, NEW m, NEW e
  PROVE  Tells(Result(g, Error(m, e)))
<1>1. Result(g, Error(m, e)).reply.kind = "error"
  BY DEF Result, Error
<1> QED BY <1>1 DEF Tells, Assigner, Delivery

\* The reply that names g's own leader.
LEMMA JoinedTells ==
  ASSUME NEW g, NEW m, NEW skip, is_completing_rebalance(g)
  PROVE  Tells(Result(g, Joined(g, m, g.leader, skip)))
<1> DEFINE r == Result(g, Joined(g, m, g.leader, skip))
<1>1. /\ r.group = g
      /\ r.reply.kind = "joined"
      /\ r.reply.member = m
      /\ r.reply.leader = g.leader
      /\ r.reply.generation = g.generation_id
  BY DEF Result, Joined
<1> HIDE DEF r
<1>2. Delivery(r.reply) = {}
  BY <1>1 DEF Delivery
<1>3. Assigner(r.reply) # {} => Assigner(r.reply) = {g.leader}
  BY <1>1 DEF Assigner
<1> QED BY <1>1, <1>2, <1>3 DEF Tells, r

\* The reply that names another leader than its receiver.
LEMMA OtherLeaderTells ==
  ASSUME NEW g, NEW h, NEW m, NEW leader, NEW skip, leader # m
  PROVE  Tells(Result(g, Joined(h, m, leader, skip)))
<1> DEFINE r == Result(g, Joined(h, m, leader, skip))
<1>1. r.reply.kind = "joined" /\ r.reply.member = m /\ r.reply.leader = leader
  BY DEF Result, Joined
<1> HIDE DEF r
<1>2. Delivery(r.reply) = {} /\ Assigner(r.reply) = {}
  BY <1>1 DEF Delivery, Assigner
<1> QED BY <1>2 DEF Tells, r

LEMMA HeldTells ==
  ASSUME NEW g, NEW m
  PROVE  Tells(Result(g, Held(m)))
<1>1. Result(g, Held(m)).reply.kind = "held"
  BY DEF Result, Held
<1> QED BY <1>1 DEF Tells, Assigner, Delivery

LEMMA ReplyToJoinedTells ==
  ASSUME NEW g, NEW m, g.state = "Forming"
  PROVE  Tells(Result(g, reply_to_joined(g, m)))
<1>1. CASE g.join_phase = None /\ m \in DOMAIN g.members
  <2>1. is_completing_rebalance(g)
    BY <1>1 DEF is_completing_rebalance
  <2>2. reply_to_joined(g, m) = Joined(g, m, g.leader, FALSE)
    BY <1>1, Zenon DEF reply_to_joined
  <2>3. Tells(Result(g, Joined(g, m, g.leader, FALSE)))
    BY <2>1, JoinedTells, Zenon
  <2> QED BY <2>2, <2>3, Zenon
<1>2. CASE ~ (g.join_phase = None /\ m \in DOMAIN g.members)
  <2>1. reply_to_joined(g, m) = Held(m)
    BY <1>2, Zenon DEF reply_to_joined
  <2> QED BY <2>1, HeldTells, Zenon
<1> QED BY <1>1, <1>2

LEMMA FinishJoinFollows ==
  ASSUME NEW g, Preparing(g), NEW now \in Nat, NEW m \in DOMAIN g.members,
         NEW before, IsGroup(before), before.generation_id = g.generation_id
  PROVE  LET r == finish_join(g, now, m)
         IN  /\ Follows(before, r.group)
             /\ Tells(r)
             /\ DOMAIN g.members \subseteq DOMAIN r.group.members
<1> DEFINE j == [g.join_phase EXCEPT !.joined = g.join_phase.joined \cup {m}]
           k == [g EXCEPT !.join_phase = j]
           c == complete_join_if_all_joined_after_join(k, now)
           r == finish_join(g, now, m)
<1>1. IsGroup(g) /\ g.join_phase \in JoinPhase /\ g.join_phase # None
  BY DEF Preparing, OK, IsGroup, GroupDetail
<1>2. DOMAIN g.members \subseteq MemberIds /\ g.join_phase.joined \subseteq DOMAIN g.members
  BY <1>1 DEF Preparing, OK, Consistent, PreparingConsistent, IsGroup, IsMap
<1>3. mark_joined(g, m) = k
  BY <1>1 DEF mark_joined
<1>4. j \in JoinPhase /\ j.joined \subseteq DOMAIN g.members
  BY <1>1, <1>2 DEF JoinPhase
<1> HIDE DEF j
<1>5. Preparing(k) /\ k.members = g.members
  BY <1>4, ChangePhaseOK
<1>6. k.generation_id = g.generation_id
  BY <1>1 DEF IsGroup, GroupDetail
<1>7. r = Result(c, reply_to_joined(c, m))
  BY <1>3 DEF finish_join
<1> HIDE DEF k
<1>8. /\ OK(c)
      /\ c.state = "Forming"
      /\ Follows(k, c)
      /\ DOMAIN k.members \subseteq DOMAIN c.members
  BY <1>5, CompleteAfterJoinOK, CompleteAfterJoinFollows DEF Preparing
<1>9. Follows(before, k)
  BY <1>5, <1>6, FollowsPreparing
<1> HIDE DEF c, r
<1>10. Follows(before, c)
  BY <1>5, <1>8, <1>9, FollowsOK DEF OK, Preparing
<1>11. r.group = c
  BY <1>7 DEF Result
<1>12. Tells(r)
  BY <1>7, <1>8, ReplyToJoinedTells
<1> QED BY <1>5, <1>8, <1>10, <1>11, <1>12 DEF r

LEMMA RejoinFollows ==
  ASSUME NEW g, IsGroup(g), g.state = "Forming", g.protocol # None, InstancesUnique(g),
         g.join_phase # None => g.pending_sync = None,
         g.join_phase # None => g.join_phase.joined \subseteq DOMAIN g.members,
         NEW now \in Nat, NEW m \in DOMAIN g.members,
         NEW before, IsGroup(before), before.generation_id = g.generation_id
  PROVE  LET r == finish_join(IF g.join_phase = None THEN prepare_rebalance(g, now) ELSE g,
                              now, m)
         IN  /\ Follows(before, r.group)
             /\ Tells(r)
             /\ DOMAIN g.members \subseteq DOMAIN r.group.members
<1> DEFINE p == IF g.join_phase = None THEN prepare_rebalance(g, now) ELSE g
           r == finish_join(p, now, m)
<1>1. /\ Preparing(p)
      /\ DOMAIN p.members = DOMAIN g.members
      /\ p.generation_id = g.generation_id
  <2>1. CASE g.join_phase = None
    <3>1. Startable(g)
      BY DEF Startable
    <3> QED BY <2>1, <3>1, PrepareRebalanceOK
  <2>2. CASE g.join_phase # None
    BY <2>2, PreparingParts
  <2> QED BY <2>1, <2>2
<1> HIDE DEF p
<1>2. /\ Follows(before, r.group)
      /\ Tells(r)
      /\ DOMAIN p.members \subseteq DOMAIN r.group.members
  BY <1>1, FinishJoinFollows
<1> HIDE DEF r
<1> QED BY <1>1, <1>2 DEF r, p

LEMMA UpdateMemberFollows ==
  ASSUME NEW g, OK(g), g.state = "Forming", NEW now \in Nat, NEW m \in DOMAIN g.members,
         NEW req \in JoinRequest,
         NEW before, IsGroup(before), before.generation_id = g.generation_id, Follows(before, g)
  PROVE  LET r == update_member(g, now, m, req)
         IN  /\ Follows(before, r.group)
             /\ Tells(r)
             /\ DOMAIN g.members \subseteq DOMAIN r.group.members
<1> DEFINE u == upsert_member(g, now, m, req)
           same == /\ g.join_phase # None
                   /\ m \in g.join_phase.joined
                   /\ has_joined_with(g, m, req.metadata)
           r == finish_join(IF u.join_phase = None THEN prepare_rebalance(u, now) ELSE u, now, m)
           q == Result(g, reply_to_joined(g, m))
           h == update_member(g, now, m, req)
<1>1. IsGroup(g) /\ Consistent(g) /\ m \in MemberIds
  BY DEF OK, IsGroup, IsMap
<1>2. /\ IsGroup(u)
      /\ DOMAIN u.members = DOMAIN g.members \cup {m}
      /\ \A x \in DOMAIN g.members : u.members[x].instance = g.members[x].instance
      /\ u.pending_members = g.pending_members
      /\ u.state = "Forming"
      /\ u.protocol = g.protocol
      /\ u.join_phase = g.join_phase
      /\ u.pending_sync = g.pending_sync
      /\ u.generation_id = g.generation_id
  BY <1>1, UpsertMemberOK
<1>3. h = IF same THEN q ELSE r
  BY <1>2 DEF update_member
<1> HIDE DEF u, same
<1>4. Shrinks(g, u) /\ DOMAIN u.members = DOMAIN g.members
  BY <1>2 DEF Shrinks
<1>5. InstancesUnique(u) /\ u.protocol # None
  BY <1>1, <1>2, <1>4, ShrinksUnique DEF Consistent, EmptyConsistent
<1>6. u.join_phase # None => u.pending_sync = None /\ u.join_phase.joined \subseteq DOMAIN u.members
  BY <1>1, <1>2, <1>4 DEF Consistent, PreparingConsistent
<1>7. /\ Follows(before, r.group)
      /\ Tells(r)
      /\ DOMAIN u.members \subseteq DOMAIN r.group.members
  BY <1>2, <1>4, <1>5, <1>6, RejoinFollows
<1>8. q.group = g /\ Tells(q)
  BY ReplyToJoinedTells DEF Result
<1> HIDE DEF r, q, h
<1> QED BY <1>3, <1>4, <1>7, <1>8 DEF h

\* The reply that tells a leader to skip the assignment.
LEMMA SkipTells ==
  ASSUME NEW g, NEW h, NEW m, NEW leader
  PROVE  Tells(Result(g, Joined(h, m, leader, leader = m)))
<1>1. CASE leader = m
  <2> DEFINE reply == Joined(h, m, leader, leader = m)
  <2>1. reply.kind = "joined" /\ reply.skip_assignment = TRUE
    BY <1>1, Zenon DEF Joined
  <2>2. Result(g, reply).reply = reply
    BY DEF Result
  <2> HIDE DEF reply
  <2>3. Assigner(reply) = {} /\ Delivery(reply) = {}
    BY <2>1 DEF Assigner, Delivery
  <2>4. Tells(Result(g, reply))
    BY <2>2, <2>3 DEF Tells
  <2> QED BY <2>4, Zenon DEF reply
<1>2. CASE leader # m
  BY <1>2, OtherLeaderTells, Zenon
<1> QED BY <1>1, <1>2, Zenon

\* h is g after the static member old, of instance i, came back as new.
Replaces(g, h, old, new, i) ==
    /\ i # None
    /\ old \in DOMAIN g.members
    /\ g.members[old].instance = i
    /\ new \notin DOMAIN g.members
    /\ new \in DOMAIN h.members
    /\ h.members[new].instance = i
    /\ DOMAIN g.members \ {old} \subseteq DOMAIN h.members
    /\ \/ Follows(g, h)
       \/ /\ g.state = "Formed"
          /\ h.state = "Formed"
          /\ h.generation_id = g.generation_id
          /\ h.assignments = Rename(g.assignments, old, new)

JoinOutcome(g, h, new, i) ==
    \/ Follows(g, h) /\ DOMAIN g.members \subseteq DOMAIN h.members
    \/ \E old \in DOMAIN g.members : Replaces(g, h, old, new, i)

LEMMA AddMemberFollows ==
  ASSUME NEW g, OK(g), g.state = "Forming", NEW now \in Nat, NEW m \in MemberIds,
         NEW req \in JoinRequest, joining_protocol(g, req) # None,
         m \notin DOMAIN g.members, m \notin DOMAIN g.pending_members,
         req.group_instance_id # None =>
            \A x \in DOMAIN g.members : g.members[x].instance # req.group_instance_id,
         NEW before, IsGroup(before), before.generation_id = g.generation_id
  PROVE  LET r == add_member(g, now, m, req)
         IN  /\ Follows(before, r.group)
             /\ Tells(r)
             /\ DOMAIN g.members \subseteq DOMAIN r.group.members
<1> DEFINE p == Adding(g, now, m, req)
           r == finish_join(p, now, m)
<1>1. /\ Preparing(p)
      /\ DOMAIN p.members = DOMAIN g.members \cup {m}
      /\ p.generation_id = g.generation_id
      /\ add_member(g, now, m, req) = r
  BY AddingOK
<1> HIDE DEF p
<1>2. /\ Follows(before, r.group)
      /\ Tells(r)
      /\ DOMAIN p.members \subseteq DOMAIN r.group.members
  BY <1>1, FinishJoinFollows
<1> HIDE DEF r
<1> QED BY <1>1, <1>2

LEMMA ReplaceStaticMemberFollows ==
  ASSUME NEW g, OK(g), g.state = "Forming", NEW now \in Nat, NEW old \in DOMAIN g.members,
         NEW new \in MemberIds, new \notin DOMAIN g.members, new \notin DOMAIN g.pending_members,
         NEW req \in JoinRequest, g.members[old].instance = req.group_instance_id,
         req.group_instance_id # None
  PROVE  LET r == replace_static_member(g, now, old, new, req)
         IN  Replaces(g, r.group, old, new, req.group_instance_id) /\ Tells(r)
<1> DEFINE u == Replacing(g, now, old, new, req)
           q == finish_join(IF u.join_phase = None THEN prepare_rebalance(u, now) ELSE u, now, new)
<1>1. /\ IsGroup(u)
      /\ u.state = "Forming"
      /\ u.protocol # None
      /\ InstancesUnique(u)
      /\ u.join_phase # None => u.pending_sync = None
      /\ u.join_phase # None => u.join_phase.joined \subseteq DOMAIN u.members
      /\ DOMAIN u.members = (DOMAIN g.members \ {old}) \cup {new}
      /\ u.generation_id = g.generation_id
      /\ replace_static_member(g, now, old, new, req) = q
  BY ReplacingOK
<1> HIDE DEF u
<1>2. IsGroup(g) /\ new \in DOMAIN u.members
  BY <1>1 DEF OK
<1>3. /\ Follows(g, q.group)
      /\ Tells(q)
      /\ DOMAIN u.members \subseteq DOMAIN q.group.members
  BY <1>1, <1>2, RejoinFollows
<1> HIDE DEF q
<1>4. Grows(g, q.group, new, req.group_instance_id)
  BY <1>1, ReplaceStaticMemberOK
<1>5. Replaces(g, q.group, old, new, req.group_instance_id)
  BY <1>1, <1>3, <1>4 DEF Replaces, Grows
<1> QED BY <1>1, <1>3, <1>5

LEMMA TakePlaceFollows ==
  ASSUME NEW g, OK(g), g.state = "Formed", NEW now \in Nat, NEW old \in DOMAIN g.members,
         NEW new \in MemberIds, new \notin DOMAIN g.members, new \notin DOMAIN g.pending_members,
         NEW req \in JoinRequest, g.members[old].instance = req.group_instance_id,
         req.group_instance_id # None
  PROVE  LET r == take_place(g, now, old, new, req)
         IN  Replaces(g, r.group, old, new, req.group_instance_id) /\ Tells(r)
<1> DEFINE r == take_place(g, now, old, new, req)
<1>1. /\ r.group.generation_id = g.generation_id
      /\ r.group.state = "Formed"
      /\ r.group.assignments = Rename(g.assignments, old, new)
      /\ DOMAIN r.group.members = (DOMAIN g.members \ {old}) \cup {new}
      /\ Grows(g, r.group, new, req.group_instance_id)
  BY TakePlaceOK
<1>2. \E u : \/ r = Result(u, Joined(u, new, u.leader, u.leader = new))
             \/ r = Result(u, Joined(u, new, g.leader, FALSE))
  BY Zenon DEF take_place
<1>3. PICK u : \/ r = Result(u, Joined(u, new, u.leader, u.leader = new))
               \/ r = Result(u, Joined(u, new, g.leader, FALSE))
  BY <1>2, Zenon
<1> HIDE DEF r
<1>4. g.leader # new
  BY DEF OK, Consistent, FormedConsistent
<1>5. Tells(Result(u, Joined(u, new, u.leader, u.leader = new)))
  BY SkipTells, Zenon
<1>6. Tells(Result(u, Joined(u, new, g.leader, FALSE)))
  BY <1>4, OtherLeaderTells, Zenon
<1>7. Tells(r)
  BY <1>3, <1>5, <1>6, Zenon
<1>8. Replaces(g, r.group, old, new, req.group_instance_id)
  BY <1>1 DEF Replaces, Grows
<1> QED BY <1>7, <1>8 DEF r

LEMMA AddPendingFollows ==
  ASSUME NEW g, OK(g), NEW now, NEW new, NEW req
  PROVE  LET r == add_pending(g, now, new, req)
         IN  Follows(g, r.group) /\ Tells(r) /\ r.group.members = g.members
<1> DEFINE P == Insert(g.pending_members, new, now + req.session_timeout_ms)
           h == [g EXCEPT !.pending_members = P]
           r == add_pending(g, now, new, req)
<1>1. r = Result(h, Error(new, "MEMBER_ID_REQUIRED"))
  BY DEF add_pending
<1>2. IsGroup(g)
  BY DEF OK
<1> HIDE DEF P
<1>3. /\ h.generation_id = g.generation_id
      /\ h.state = g.state
      /\ h.leader = g.leader
      /\ h.join_phase = g.join_phase
      /\ h.assignments = g.assignments
      /\ h.members = g.members
  BY <1>2 DEF IsGroup, GroupDetail
<1> HIDE DEF h, r
<1>4. Follows(g, h)
  BY <1>2, <1>3, FollowsSame
<1>5. r.group = h
  BY <1>1 DEF Result
<1>6. Tells(r)
  BY <1>1, ErrorTells
<1> QED BY <1>3, <1>4, <1>5, <1>6 DEF r

LEMMA PreparingStateFollows ==
  ASSUME NEW g, OK(g), NEW now \in Nat
  PROVE  /\ Follows(g, preparing(g, now))
         /\ preparing(g, now).generation_id = g.generation_id
<1>1. IsGroup(g)
  BY DEF OK
<1>2. CASE g.state = "Formed"
  <2>1. g.protocol # None /\ InstancesUnique(g)
    BY <1>2 DEF OK, Consistent, FormedConsistent, EmptyConsistent
  <2>2. preparing(g, now) = into_preparing_rebalance(g, now)
    BY <1>2 DEF preparing
  <2> QED BY <1>1, <2>1, <2>2, IntoPreparingRebalanceOK, IntoPreparingGeneration, FollowsPreparing
<1>3. CASE g.state # "Formed"
  BY <1>1, <1>3, FollowsReflexive DEF preparing
<1> QED BY <1>2, <1>3

LEMMA JoinNewFollows ==
  ASSUME NEW g, OK(g), NEW now \in Nat, NEW new \in MemberIds, new \notin DOMAIN g.members,
         new \notin DOMAIN g.pending_members, NEW req \in JoinRequest,
         joining_protocol(g, req) # None
  PROVE  LET r == join_new(g, now, req, new)
         IN  JoinOutcome(g, r.group, new, req.group_instance_id) /\ Tells(r)
<1> DEFINE old == IF req.group_instance_id = None THEN None
                  ELSE static_member_id(g, req.group_instance_id)
           pending == /\ req.group_instance_id = None
                      /\ req.api_version >= MEMBER_ID_REQUIRED_VERSION
           p == preparing(g, now)
           r == join_new(g, now, req, new)
<1>1. r = IF pending THEN add_pending(g, now, new, req)
          ELSE IF old = None THEN add_member(p, now, new, req)
               ELSE IF g.state = "Formed" THEN take_place(g, now, old, new, req)
                    ELSE replace_static_member(g, now, old, new, req)
  BY DEF join_new
<1>2. IsGroup(g) /\ g.state \in {"Forming", "Formed"}
  BY DEF OK, IsGroup, GroupDetail
<1>3. /\ old # None => req.group_instance_id # None
      /\ old # None => old \in DOMAIN g.members
      /\ old # None => g.members[old].instance = req.group_instance_id
      /\ old = None /\ req.group_instance_id # None =>
            \A x \in DOMAIN g.members : g.members[x].instance # req.group_instance_id
  BY <1>2, StaticMemberId
<1> HIDE DEF old, pending, r
<1>4. CASE pending
  BY <1>1, <1>4, AddPendingFollows DEF JoinOutcome, r
<1>5. CASE ~ pending /\ old = None
  <2>1. /\ OK(p)
        /\ Shrinks(g, p)
        /\ p.state = "Forming"
        /\ p.members = g.members
        /\ p.protocol = g.protocol
        /\ p.generation_id = g.generation_id
    BY PreparingStateOK, PreparingStateFollows
  <2> HIDE DEF p
  <2>2. joining_protocol(p, req) # None
    BY <2>1 DEF joining_protocol
  <2>3. new \notin DOMAIN p.members /\ new \notin DOMAIN p.pending_members
    BY <2>1 DEF Shrinks
  <2>4. req.group_instance_id # None =>
            \A x \in DOMAIN p.members : p.members[x].instance # req.group_instance_id
    BY <1>3, <1>5, <2>1
  <2>5. r = add_member(p, now, new, req)
    BY <1>1, <1>5
  <2>6. /\ Follows(g, r.group)
        /\ Tells(r)
        /\ DOMAIN p.members \subseteq DOMAIN r.group.members
    BY <1>2, <2>1, <2>2, <2>3, <2>4, <2>5, AddMemberFollows
  <2> QED BY <2>1, <2>6 DEF JoinOutcome, r
<1>6. CASE ~ pending /\ old # None /\ g.state = "Formed"
  BY <1>1, <1>3, <1>6, TakePlaceFollows DEF JoinOutcome, r
<1>7. CASE ~ pending /\ old # None /\ g.state = "Forming"
  BY <1>1, <1>3, <1>7, ReplaceStaticMemberFollows DEF JoinOutcome, r
<1> QED BY <1>2, <1>4, <1>5, <1>6, <1>7

LEMMA JoinPendingFollows ==
  ASSUME NEW g, OK(g), NEW now \in Nat, NEW req \in JoinRequest,
         joining_protocol(g, req) # None, req.member_id \in MemberIds,
         req.member_id \notin DOMAIN g.members, req.group_instance_id = None
  PROVE  LET r == join_pending(g, now, req)
         IN  /\ Follows(g, r.group)
             /\ Tells(r)
             /\ DOMAIN g.members \subseteq DOMAIN r.group.members
<1> DEFINE m == req.member_id
           P == Remove(g.pending_members, {m})
           f == [g EXCEPT !.pending_members = P]
           p == preparing(f, now)
           r == join_pending(g, now, req)
<1>1. r = add_member(p, now, m, req)
  BY DEF join_pending
<1>2. IsMap(g.pending_members, MemberIds, Nat) /\ IsGroup(g)
  BY DEF OK, IsGroup
<1>3. IsMap(P, MemberIds, Nat) /\ DOMAIN P = DOMAIN g.pending_members \ {m}
  BY <1>2 DEF IsMap, Remove, Restrict
<1> HIDE DEF P
<1>4. /\ OK(f)
      /\ f.members = g.members
      /\ f.pending_members = P
      /\ f.protocol = g.protocol
  BY <1>3, PendingOK
<1>5. f.generation_id = g.generation_id
  BY <1>2 DEF IsGroup, GroupDetail
<1> HIDE DEF f
<1>6. /\ OK(p)
      /\ Shrinks(f, p)
      /\ p.state = "Forming"
      /\ p.members = f.members
      /\ p.protocol = f.protocol
      /\ p.generation_id = f.generation_id
  BY <1>4, PreparingStateOK, PreparingStateFollows
<1> HIDE DEF p
<1>7. joining_protocol(p, req) # None
  BY <1>4, <1>6 DEF joining_protocol
<1>8. m \notin DOMAIN p.members /\ m \notin DOMAIN p.pending_members
  BY <1>3, <1>4, <1>6 DEF Shrinks
<1> HIDE DEF r
<1>9. /\ Follows(g, r.group)
      /\ Tells(r)
      /\ DOMAIN p.members \subseteq DOMAIN r.group.members
  BY <1>1, <1>2, <1>5, <1>6, <1>7, <1>8, AddMemberFollows
<1> QED BY <1>4, <1>6, <1>9 DEF r

LEMMA JoinExistingFollows ==
  ASSUME NEW g, OK(g), NEW now \in Nat, NEW req \in JoinRequest,
         req.member_id \in DOMAIN g.members
  PROVE  LET r == join_existing(g, now, req)
         IN  /\ Follows(g, r.group)
             /\ Tells(r)
             /\ DOMAIN g.members \subseteq DOMAIN r.group.members
<1> DEFINE m == req.member_id
           p == preparing(g, now)
           u == update_member(p, now, m, req)
           same == Result(g, Joined(g, m, g.leader, FALSE))
           r == join_existing(g, now, req)
<1>1. \/ r = same /\ (is_completing_rebalance(g) \/ g.leader # m)
      \/ r = u
  BY DEF join_existing
<1>2. OK(p) /\ p.state = "Forming" /\ p.members = g.members
  BY PreparingStateOK
<1>3. Follows(g, p) /\ p.generation_id = g.generation_id
  BY PreparingStateFollows
<1>4. IsGroup(g)
  BY DEF OK
<1> HIDE DEF p
<1>5. m \in DOMAIN p.members
  BY <1>2
<1>6. /\ Follows(g, u.group)
      /\ Tells(u)
      /\ DOMAIN p.members \subseteq DOMAIN u.group.members
  BY <1>2, <1>3, <1>4, <1>5, UpdateMemberFollows
<1>7. is_completing_rebalance(g) \/ g.leader # m => Tells(same)
  BY JoinedTells, OtherLeaderTells, Zenon
<1>8. same.group = g
  BY DEF Result
<1>9. Follows(g, g)
  BY <1>4, FollowsReflexive
<1> HIDE DEF u, same, r
<1> QED BY <1>1, <1>2, <1>6, <1>7, <1>8, <1>9 DEF r

LEMMA JoinFollows ==
  ASSUME NEW g, OK(g), NEW ids, IsMap(ids, MemberIds, Instances \cup {None}),
         IdsIssued(g, ids), NEW now \in Nat, NEW req, NEW new, JoinsAs(req, new, ids)
  PROVE  LET r == join(g, now, req, new)
         IN  JoinOutcome(g, r.group, new, req.group_instance_id) /\ Tells(r)
<1> DEFINE m == req.member_id
           inst == req.group_instance_id
           invalid == validate_member(g, m, inst)
           r == join(g, now, req, new)
<1>1. /\ req \in JoinRequest
      /\ m # None => m \in DOMAIN ids /\ ids[m] = inst
  BY DEF JoinsAs
<1>2. r = IF joining_protocol(g, req) = None
          THEN Result(g, Error(m, "INCONSISTENT_GROUP_PROTOCOL"))
          ELSE IF m = None THEN join_new(g, now, req, new)
          ELSE IF m \in DOMAIN g.pending_members THEN join_pending(g, now, req)
          ELSE IF invalid # None THEN Result(g, Error(m, invalid))
          ELSE join_existing(g, now, req)
  BY DEF join
<1> SUFFICES JoinOutcome(g, r.group, new, inst) /\ Tells(r)
  OBVIOUS
<1>3. /\ new \in MemberIds
      /\ m = None => new \notin DOMAIN ids
      /\ m # None => m \in MemberIds
  BY <1>1 DEF JoinsAs, IsMap
<1>4. \A e : /\ Result(g, Error(m, e)).group = g
             /\ Tells(Result(g, Error(m, e)))
  BY ErrorTells DEF Result
<1>5. JoinOutcome(g, g, new, inst)
  BY FollowsReflexive DEF JoinOutcome, OK
<1> HIDE DEF r
<1>6. CASE joining_protocol(g, req) = None
  BY <1>2, <1>4, <1>5, <1>6
<1>7. CASE joining_protocol(g, req) # None /\ m = None
  <2>1. new \notin DOMAIN g.members /\ new \notin DOMAIN g.pending_members
    BY <1>3, <1>7 DEF IdsIssued
  <2> QED BY <1>1, <1>2, <1>3, <1>7, <2>1, JoinNewFollows
<1>8. CASE joining_protocol(g, req) # None /\ m # None /\ m \in DOMAIN g.pending_members
  <2>1. m \notin DOMAIN g.members /\ inst = None
    BY <1>1, <1>8 DEF IdsIssued
  <2>2. r = join_pending(g, now, req)
    BY <1>2, <1>8
  <2> QED BY <1>1, <1>3, <1>8, <2>1, <2>2, JoinPendingFollows DEF JoinOutcome
<1>9. CASE /\ joining_protocol(g, req) # None
           /\ m # None
           /\ m \notin DOMAIN g.pending_members
           /\ invalid # None
  BY <1>2, <1>4, <1>5, <1>9
<1>10. CASE /\ joining_protocol(g, req) # None
            /\ m # None
            /\ m \notin DOMAIN g.pending_members
            /\ invalid = None
  <2>1. m \in DOMAIN g.members
    BY <1>10, ValidMember
  <2>2. r = join_existing(g, now, req)
    BY <1>2, <1>10
  <2> QED BY <1>1, <2>1, <2>2, JoinExistingFollows DEF JoinOutcome
<1> QED BY <1>6, <1>7, <1>8, <1>9, <1>10

(***************************************************************************)
(* The other requests.                                                     *)
(***************************************************************************)
LEMMA ForgetPendingSyncFollows ==
  ASSUME NEW g, IsGroup(g), NEW S
  PROVE  LET h == forget_pending_sync(g, S)
         IN  Follows(g, h) /\ h.generation_id = g.generation_id
<1> DEFINE h == forget_pending_sync(g, S)
<1>1. /\ h.members = g.members
      /\ h.state = g.state
      /\ h.leader = g.leader
      /\ h.join_phase = g.join_phase
      /\ h.assignments = g.assignments
  BY ForgetPendingSyncType
<1>2. h.generation_id = g.generation_id
  BY DEF forget_pending_sync, IsGroup, GroupDetail
<1> HIDE DEF h
<1>3. Follows(g, h)
  BY <1>1, <1>2, FollowsSame
<1> QED BY <1>2, <1>3 DEF h

\* The group that the leader's SyncGroup forms.
LEMMA FormResult ==
  ASSUME NEW g, IsGroup(g), NEW now \in Nat, NEW req,
         req.assignments \in [MemberIds -> SUBSET Partitions]
  PROVE  LET h == form(g, now, req)
         IN  /\ h.generation_id = g.generation_id
             /\ h.state = "Formed"
             /\ DOMAIN h.members = DOMAIN g.members
             /\ h.assignments = [x \in DOMAIN g.members |-> req.assignments[x]]
<1> DEFINE c == contact(g, synced(g), now)
           A == [x \in DOMAIN g.members |->
                    IF x \in DOMAIN req.assignments THEN req.assignments[x] ELSE {}]
           h == form(g, now, req)
<1>1. h = [c EXCEPT !.state = "Formed", !.assignments = A]
  BY DEF form, restart_sessions_of_synced_members
<1>2. IsGroup(c) /\ DOMAIN c.members = DOMAIN g.members /\ c.generation_id = g.generation_id
  BY ContactOK, ContactFollows
<1>3. DOMAIN g.members \subseteq MemberIds
  BY DEF IsGroup, IsMap
<1>4. A = [x \in DOMAIN g.members |-> req.assignments[x]]
  BY <1>3
<1> HIDE DEF c, A, h
<1>5. /\ h.state = "Formed"
      /\ h.assignments = A
      /\ h.members = c.members
      /\ h.generation_id = c.generation_id
  BY <1>1, <1>2 DEF IsGroup, GroupDetail
<1> QED BY <1>2, <1>4, <1>5 DEF h

\* A SyncGroup reply makes nobody assign, and delivers what the formed group holds.
Delivers(r, m) ==
    /\ Assigner(r.reply) = {}
    /\ Delivery(r.reply) # {} =>
        /\ r.group.state = "Formed"
        /\ m \in DOMAIN r.group.assignments
        /\ Delivery(r.reply) = {[member |-> m, partitions |-> r.group.assignments[m]]}
        /\ r.reply.generation = r.group.generation_id

LEMMA QuietReply ==
  ASSUME NEW r, NEW m, r.reply.kind \in {"error", "held", "done"}
  PROVE  Delivers(r, m) /\ Assigner(r.reply) = {} /\ Delivery(r.reply) = {}
BY DEF Delivers, Assigner, Delivery

LEMMA SyncedDelivers ==
  ASSUME NEW g, NEW m, g.state = "Formed", m \in DOMAIN g.assignments
  PROVE  Delivers(Result(g, Synced(g, m)), m)
<1> DEFINE r == Result(g, Synced(g, m))
<1>1. /\ r.group = g
      /\ r.reply.kind = "synced"
      /\ r.reply.member = m
      /\ r.reply.assignment = g.assignments[m]
      /\ r.reply.generation = g.generation_id
  BY DEF Result, Synced
<1> HIDE DEF r
<1>2. Delivers(r, m)
  BY <1>1 DEF Delivers, Assigner, Delivery
<1> QED BY <1>2 DEF r

LEMMA SyncFollows ==
  ASSUME NEW g, OK(g), NEW now \in Nat, NEW req,
         req.assignments \in [MemberIds -> SUBSET Partitions]
  PROVE  LET r == sync(g, now, req)
         IN  /\ r.group.generation_id = g.generation_id
             /\ DOMAIN r.group.members = DOMAIN g.members
             /\ Delivers(r, req.member_id)
             /\ \/ Follows(g, r.group)
                \/ /\ is_completing_rebalance(g)
                   /\ r.group.state = "Formed"
                   /\ r.group.assignments = [x \in DOMAIN g.members |-> req.assignments[x]]
<1> DEFINE m == req.member_id
           f == forget_pending_sync(g, {m})
           r == sync(g, now, req)
<1>1. IsGroup(g) /\ Consistent(g) /\ g.state \in {"Forming", "Formed"}
  BY DEF OK, IsGroup, GroupDetail
<1>2. Follows(g, g)
  BY <1>1, FollowsReflexive
<1>3. \A e : /\ Result(g, Error(m, e)).group = g
             /\ Delivers(Result(g, Error(m, e)), m)
  BY QuietReply DEF Result, Error
<1>4. CASE sync_error(g, req) # None
  <2>1. r = Result(g, Error(m, sync_error(g, req)))
    BY <1>4 DEF sync
  <2> HIDE DEF r
  <2> QED BY <1>2, <1>3, <2>1 DEF r
<1>5. validate_member(g, m, req.group_instance_id) = None => m \in DOMAIN g.members
  BY ValidMember
<1>6. sync_error(g, req) = None => validate_member(g, m, req.group_instance_id) = None
  BY DEF sync_error
<1>7. /\ IsGroup(f)
      /\ f.members = g.members
      /\ f.state = g.state
      /\ f.leader = g.leader
      /\ f.join_phase = g.join_phase
      /\ f.assignments = g.assignments
  BY <1>1, ForgetPendingSyncType
<1>8. Follows(g, f) /\ f.generation_id = g.generation_id
  BY <1>1, ForgetPendingSyncFollows
<1>9. CASE sync_error(g, req) = None /\ g.state = "Forming"
  <2>1. m \in DOMAIN g.members /\ m # None
    BY <1>1, <1>5, <1>6, <1>9, MemberIdAssumption DEF IsGroup, IsMap
  <2> DEFINE h == form(f, now, req)
  <2>2. r = IF g.join_phase # None THEN Result(g, Error(m, "REBALANCE_IN_PROGRESS"))
            ELSE IF f.leader = None THEN Result(f, Error(m, "REBALANCE_IN_PROGRESS"))
            ELSE IF f.leader # m THEN Result(f, Held(m))
            ELSE Result(h, Synced(h, m))
    BY <1>9 DEF sync, sync_forming
  <2> HIDE DEF f, r
  <2>3. CASE g.join_phase # None
    <3>1. r = Result(g, Error(m, "REBALANCE_IN_PROGRESS"))
      BY <2>2, <2>3
    <3> QED BY <1>2, <1>3, <3>1 DEF r
  <2>4. CASE g.join_phase = None /\ f.leader # m
    <3>1. r.group = f /\ r.reply.kind \in {"error", "held"}
      BY <2>2, <2>4 DEF Result, Error, Held
    <3> QED BY <1>7, <1>8, <3>1, QuietReply DEF r
  <2>5. CASE g.join_phase = None /\ f.leader = m
    <3>1. r = Result(h, Synced(h, m))
      BY <2>1, <2>2, <2>5
    <3>2. /\ h.generation_id = f.generation_id
          /\ h.state = "Formed"
          /\ DOMAIN h.members = DOMAIN f.members
          /\ h.assignments = [x \in DOMAIN f.members |-> req.assignments[x]]
      BY <1>7, FormResult
    <3> HIDE DEF h
    <3>3. r.group = h
      BY <3>1 DEF Result
    <3>4. Delivers(r, m)
      BY <1>7, <2>1, <3>1, <3>2, SyncedDelivers
    <3>5. is_completing_rebalance(g)
      BY <1>9, <2>1, <2>5 DEF is_completing_rebalance
    <3> QED BY <1>7, <1>8, <3>2, <3>3, <3>4, <3>5 DEF r
  <2> QED BY <2>3, <2>4, <2>5
<1>10. CASE sync_error(g, req) = None /\ g.state = "Formed"
  <2>1. m \in DOMAIN g.members
    BY <1>5, <1>6, <1>10
  <2> DEFINE c == contact(f, {m}, now)
             h == IF g.pending_sync # None /\ m \in g.pending_sync.members THEN c ELSE g
  <2>2. r = Result(h, Synced(h, m))
    BY <1>10 DEF sync, sync_formed
  <2> HIDE DEF f, r
  <2>3. Follows(f, c) /\ c.generation_id = f.generation_id
    BY <1>7, ContactFollows
  <2>3a. IsGroup(c) /\ DOMAIN c.members = DOMAIN f.members
    BY <1>7, ContactOK
  <2>4. c.state = f.state /\ c.assignments = f.assignments
    BY <1>7 DEF contact, IsGroup, GroupDetail
  <2> HIDE DEF c
  <2>5. Follows(g, c)
    BY <1>1, <1>7, <1>8, <2>3, <2>3a, FollowsOK
  <2>6. DOMAIN g.assignments = DOMAIN g.members
    BY <1>1, <1>10 DEF Consistent, FormedConsistent
  <2>7. /\ Follows(g, h)
        /\ h.generation_id = g.generation_id
        /\ DOMAIN h.members = DOMAIN g.members
        /\ h.state = "Formed"
        /\ m \in DOMAIN h.assignments
    BY <1>2, <1>7, <1>8, <1>10, <2>1, <2>3, <2>3a, <2>4, <2>5, <2>6
  <2> HIDE DEF h
  <2>8. r.group = h /\ Delivers(r, m)
    BY <2>2, <2>7, SyncedDelivers DEF Result
  <2> QED BY <2>7, <2>8 DEF r
<1> QED BY <1>1, <1>4, <1>9, <1>10

LEMMA HeartbeatFollows ==
  ASSUME NEW g, OK(g), NEW now \in Nat, NEW req
  PROVE  LET h == heartbeat(g, now, req).group
         IN  Follows(g, h) /\ DOMAIN h.members = DOMAIN g.members
<1>1. heartbeat(g, now, req).group \in {g, contact(g, {req.member_id}, now)}
  BY DEF heartbeat, Result
<1> QED BY <1>1, ContactOK, ContactFollows, FollowsReflexive DEF OK

LEMMA OffsetCommitFollows ==
  ASSUME NEW g, OK(g), NEW now \in Nat, NEW req
  PROVE  LET h == check_offset_commit(g, now, req).group
         IN  Follows(g, h) /\ DOMAIN h.members = DOMAIN g.members
<1>1. check_offset_commit(g, now, req).group \in {g, contact(g, {req.member_id}, now)}
  BY DEF check_offset_commit, Result
<1> QED BY <1>1, ContactOK, ContactFollows, FollowsReflexive DEF OK

LEMMA LeaveFollows ==
  ASSUME NEW g, OK(g), NEW now \in Nat, NEW identities
  PROVE  LET h == leave(g, now, identities)
         IN  /\ Follows(g, h)
             /\ DOMAIN g.members \ leaving_members(g, identities) \subseteq DOMAIN h.members
<1> DEFINE gone == leaving_members(g, identities)
           r == remove_leaving_members(g, identities)
           f == forget_removed_members(r)
           p == into_preparing_rebalance(r, now)
           none == leaving_members(g, identities) \cup leaving_pending(g, identities) = {}
           h == leave(g, now, identities)
<1>1. h = IF none THEN g
          ELSE IF g.state = "Formed" THEN complete_join_if_all_joined(p, now)
          ELSE IF g.join_phase # None THEN complete_join_if_all_joined_after_join(f, now)
          ELSE IF is_completing_rebalance(g)
          THEN complete_join_if_all_joined(prepare_rebalance(f, now), now)
          ELSE f
  BY DEF leave
<1>2. IsGroup(g) /\ Consistent(g) /\ g.state \in {"Forming", "Formed"}
  BY DEF OK, IsGroup, GroupDetail
<1>3. /\ IsGroup(r)
      /\ Shrinks(g, r)
      /\ r.state = g.state
      /\ r.protocol = g.protocol
      /\ r.leader = g.leader
      /\ r.join_phase = g.join_phase
      /\ g.pending_sync = None => r.pending_sync = None
  BY <1>2, RemoveLeavingMembersType
<1>4. InstancesUnique(r)
  BY <1>2, <1>3, ShrinksUnique DEF Consistent
<1>5. r.generation_id = g.generation_id /\ DOMAIN r.members = DOMAIN g.members \ gone
  <2> DEFINE M == Remove(g.members, gone)
             P == Remove(g.pending_members, leaving_pending(g, identities))
             k == [g EXCEPT !.members = M, !.pending_members = P]
  <2>1. r = forget_pending_sync(k, gone)
    BY DEF remove_leaving_members
  <2> HIDE DEF gone
  <2>2. IsMap(M, MemberIds, Member) /\ DOMAIN M = DOMAIN g.members \ gone
    <3>1. IsMap(g.members, MemberIds, Member)
      BY <1>2 DEF IsGroup
    <3> QED BY <3>1 DEF IsMap, Remove, Restrict
  <2>3. IsMap(P, MemberIds, Nat)
    <3>1. IsMap(g.pending_members, MemberIds, Nat)
      BY <1>2 DEF IsGroup
    <3> QED BY <3>1 DEF IsMap, Remove, Restrict
  <2> HIDE DEF M, P, r
  <2>4. IsGroup(k) /\ k.members = M /\ k.generation_id = g.generation_id
    BY <1>2, <2>2, <2>3 DEF IsGroup, GroupDetail
  <2> HIDE DEF k
  <2>5. r.members = k.members /\ r.generation_id = k.generation_id
    BY <2>1, <2>4, ForgetPendingSyncType, ForgetPendingSyncFollows
  <2> QED BY <2>2, <2>4, <2>5
<1> HIDE DEF r, none, h, gone
<1>6. /\ IsGroup(f)
      /\ Shrinks(r, f)
      /\ f.members = r.members
      /\ f.state = g.state
      /\ f.protocol = g.protocol
      /\ f.join_phase = None <=> g.join_phase = None
      /\ f.join_phase # None => f.join_phase.joined \subseteq DOMAIN f.members
      /\ g.pending_sync = None => f.pending_sync = None
      /\ f.generation_id = g.generation_id
  BY <1>3, <1>5, ForgetRemovedMembersType, ForgetRemovedGeneration
<1>7. InstancesUnique(f)
  BY <1>3, <1>4, <1>6, ShrinksUnique
<1>8. CASE none
  BY <1>1, <1>2, <1>8, FollowsReflexive DEF h
<1>9. CASE ~ none /\ g.state = "Formed"
  <2>1. g.protocol # None
    BY <1>2, <1>9 DEF Consistent, FormedConsistent, EmptyConsistent
  <2>2. Preparing(p) /\ p.generation_id = g.generation_id /\ p.members = r.members
    BY <1>3, <1>4, <1>5, <2>1, IntoPreparingRebalanceOK, IntoPreparingGeneration
  <2> HIDE DEF p
  <2> DEFINE c == complete_join_if_all_joined(p, now)
  <2>3. OK(c) /\ Follows(p, c) /\ DOMAIN p.members \subseteq DOMAIN c.members
    BY <2>2, CompleteIfAllJoinedOK, CompleteIfAllJoinedFollows DEF Preparing
  <2>4. h = c
    BY <1>1, <1>9
  <2> HIDE DEF c
  <2>5. Follows(g, p)
    BY <1>2, <2>2, FollowsPreparing
  <2>6. Follows(g, c)
    BY <1>2, <2>2, <2>3, <2>5, FollowsOK DEF OK, Preparing
  <2> QED BY <1>5, <2>2, <2>3, <2>4, <2>6 DEF h, gone
<1>10. CASE ~ none /\ g.state = "Forming" /\ g.join_phase # None
  <2>1. g.pending_sync = None /\ g.protocol # None
    BY <1>2, <1>10 DEF Consistent, PreparingConsistent, EmptyConsistent
  <2> HIDE DEF f
  <2>2. Preparing(f)
    BY <1>6, <1>7, <1>10, <2>1, PreparingParts
  <2> DEFINE c == complete_join_if_all_joined_after_join(f, now)
  <2>3. OK(c) /\ Follows(f, c) /\ DOMAIN f.members \subseteq DOMAIN c.members
    BY <2>2, CompleteAfterJoinOK, CompleteAfterJoinFollows DEF Preparing
  <2>4. h = c
    BY <1>1, <1>10
  <2> HIDE DEF c
  <2>5. Follows(g, f)
    BY <1>2, <1>6, <2>2, FollowsPreparing
  <2>6. Follows(g, c)
    BY <1>2, <1>6, <2>3, <2>5, FollowsOK DEF OK
  <2> QED BY <1>5, <1>6, <2>3, <2>4, <2>6 DEF h, gone
<1>11. CASE ~ none /\ g.state = "Forming" /\ is_completing_rebalance(g)
  <2>1. g.protocol # None /\ g.join_phase = None
    BY <1>2, <1>11 DEF Consistent, EmptyConsistent, is_completing_rebalance
  <2> DEFINE q == complete_join_if_all_joined(prepare_rebalance(f, now), now)
  <2>2. Follows(g, q) /\ DOMAIN r.members \subseteq DOMAIN q.members
    BY <1>2, <1>3, <1>4, <1>5, <1>11, <2>1, RestartFollows
  <2>3. h = q
    BY <1>1, <1>11, <2>1
  <2> HIDE DEF q
  <2> QED BY <1>5, <2>2, <2>3 DEF h, gone
<1>12. CASE /\ ~ none
            /\ g.state = "Forming"
            /\ g.join_phase = None
            /\ ~ is_completing_rebalance(g)
  <2>1. DOMAIN g.members = {}
    BY <1>12 DEF is_completing_rebalance
  <2>2. h = f
    BY <1>1, <1>12
  <2>3. f.generation_id = g.generation_id /\ f.state = "Forming" /\ DOMAIN f.members = {}
    BY <1>5, <1>6, <1>12, <2>1
  <2> HIDE DEF f
  <2>4. Follows(g, f)
    BY <1>2, <2>3, GenerationType DEF Follows, is_completing_rebalance
  <2> QED BY <2>1, <2>2, <2>4 DEF h
<1> QED BY <1>2, <1>8, <1>9, <1>10, <1>11, <1>12

(***************************************************************************)
(* Assignments and ids.                                                    *)
(***************************************************************************)
\* No partition is assigned twice.
Disjoint(A) == \A m, n \in DOMAIN A : m # n => A[m] \cap A[n] = {}

\* The members m and n are one static member, before and after a restart.
SameInstance(ids, m, n) ==
    m \in DOMAIN ids /\ n \in DOMAIN ids /\ ids[m] # None /\ ids[m] = ids[n]

\* Ids that are given out stay given out, to the same instance.
KeepsIds(ids, more) ==
    DOMAIN ids \subseteq DOMAIN more /\ \A m \in DOMAIN ids : more[m] = ids[m]
=============================================================================
