-------------------------- MODULE CoordinatorProofs --------------------------
(***************************************************************************)
(* Brokers that share the storage, for any number of brokers and requests  *)
(* in progress: what each of them knows of the group is true, the stored   *)
(* group changes as if one broker ran the requests one at a time, and what *)
(* members are told of a generation agrees, whichever brokers tell them.   *)
(***************************************************************************)
EXTENDS Coordinator, ClassicGroupProofs

(***************************************************************************)
(* What a request knows.                                                   *)
(***************************************************************************)
IdentitiesOf(ids) ==
    {[member_id |-> m, group_instance_id |-> ids[m]] : m \in DOMAIN ids}

\* A request that a client can have sent when these ids were given out.
IsRequest(op, req, ids) ==
    /\ op = "join" =>
        \E i \in IdentitiesOf(ids) \cup Atomic!NoIdentities, o \in JoinOptions :
            req = Atomic!JoinRequestOf(i, o)
    /\ op = "sync" =>
        \E i \in IdentitiesOf(ids), n \in 1 .. MaxGeneration, p \in Atomic!Plans :
            req = Atomic!SyncRequestOf(i, n, None, p)
    /\ op = "heartbeat" =>
        \E i \in IdentitiesOf(ids), n \in 1 .. MaxGeneration : req = Atomic!MemberRequestOf(i, n)
    /\ op = "leave" =>
        /\ req \subseteq IdentitiesOf(ids) \cup Atomic!NoIdentities
        /\ Atomic!Cardinality(req) \in 1 .. MaxLeaving
    /\ op \in {"commit", "fence"} =>
        \E i \in IdentitiesOf(ids) \cup Atomic!NoIdentities,
           n \in (1 .. MaxGeneration) \cup {-1}, t \in BOOLEAN :
            req = Atomic!CommitRequestOf(i, n, t)

CopiesOf(g) == {g, with_storage_group_detail(g)}

\* The group in storage.
Sound(st, vs, ids) ==
    /\ vs \in 0 .. MaxVersion
    /\ st.version \in 0 .. vs
    /\ st.version = 0 => st.group = NewGroup
    /\ OK(st.group)
    /\ IdsIssued(st.group, ids)
    /\ st.group.generation_id <= MaxGeneration
    /\ IsMap(ids, MemberIds, Instances \cup {None})

\* A group that was in storage with this version, and may be now.
Known(v, g, st, vs, ids) ==
    /\ v \in 0 .. vs
    /\ OK(g)
    /\ IdsIssued(g, ids)
    /\ v = 0 => g \in CopiesOf(NewGroup)
    /\ v = st.version => g \in CopiesOf(st.group)

Learned(l, st, vs, ids, now) ==
    /\ l = [version |-> l.version, group |-> l.group, learned |-> l.learned]
    /\ l.version \in 1 .. vs
    /\ l.learned \in 0 .. now
    /\ Known(l.version, l.group, st, vs, ids)

(***************************************************************************)
(* What a request in progress holds.                                       *)
(***************************************************************************)
CallFields(call) ==
    [op : Ops, broker : Brokers, req : {call.req}, stage : Stages,
     max_age : {"any", "zero", "poll"}, from : Nat \cup {None}, since : Nat \cup {None},
     version : Nat \cup {None}, group : {call.group}, source : {"cache", "storage", None},
     result : {call.result}, new : MemberIds \cup {None}]

\* Its write: the result of the request on a group of this version, at an earlier time.
Pending(call, st, vs, ids, now) ==
    /\ \E g : \E t \in 0 .. now : /\ Known(call.version, g, st, vs, ids)
                                  /\ call.result = Outcome(call, g, t, call.new)
    /\ call.result.group.generation_id <= MaxGeneration
    /\ call.op = "join" => JoinsAs(call.req, call.new, ids)

\* Its write landed, and other writes may have landed since.
Written(call, st, vs, ids) ==
    /\ call.version \in 1 .. vs
    /\ OK(call.result.group)
    /\ IdsIssued(call.result.group, ids)
    /\ call.version = st.version => call.result.group = st.group
    /\ call.op = "join" /\ call.result.reply.kind = "held" =>
        /\ call.result.reply.member \in DOMAIN ids
        /\ ids[call.result.reply.member] = call.req.group_instance_id

\* A request that must not be answered from an old group.
Current(call, st, vs) ==
    /\ call.from \in 0 .. vs
    /\ st.version = 0 \/ st.version >= call.from
    /\ call.stage = "run" => call.source \in {"cache", "storage"}
    /\ call.stage = "run" /\ call.source = "storage" =>
        call.version = 0 \/ call.version >= call.from
    /\ call.stage \in {"stored", "offsets"} => call.version = 0 \/ call.version >= call.from
    /\ call.op \in {"commit", "fence"} =>
        /\ call.max_age = "zero"
        /\ call.stage = "run" => call.source = "storage"
        /\ call.stage = "stored" => call.result.reply.kind # "held"

InProgress(call, st, vs, ids, now) ==
    /\ call \in CallFields(call)
    /\ IsRequest(call.op, call.req, ids)
    /\ call.stage \in {"delete", "deleted"} => call.op = "delete"
    /\ call.stage \in {"store", "stored", "outdated", "offsets"} => call.op # "delete"
    /\ call.stage \in {"run", "outdated"} => Known(call.version, call.group, st, vs, ids)
    /\ call.stage = "outdated" => call.version # 0
    /\ call.stage = "store" => Pending(call, st, vs, ids, now)
    /\ call.stage = "stored" => Written(call, st, vs, ids)
    /\ call.op \in {"heartbeat", "leave", "commit", "fence"} => Current(call, st, vs)

\* A join that is about to give out a new id.
Fresh(call) == call.stage = "store" /\ call.op = "join" /\ call.req.member_id = None

CachesOK(ch, st, vs, ids, now) ==
    /\ ch = [b \in Brokers |-> ch[b]]
    /\ \A b \in Brokers : ch[b] # None => Learned(ch[b], st, vs, ids, now)

CallsOK(cs, st, vs, ids, now) ==
    /\ cs = [c \in Slots |-> cs[c]]
    /\ \A c \in Slots : cs[c] = Idle \/ InProgress(cs[c], st, vs, ids, now)
    /\ \A c, d \in Slots : c # d /\ Fresh(cs[c]) /\ Fresh(cs[d]) => cs[c].new # cs[d].new

CInv ==
    /\ Sound(stored, versions, issued)
    /\ CachesOK(cache, stored, versions, issued, clock)
    /\ CallsOK(calls, stored, versions, issued, clock)
    /\ clock \in 0 .. MaxTime
    /\ faults \in 0 .. MaxFaults

(***************************************************************************)
(* What is known stays known when storage moves on.                        *)
(***************************************************************************)
Advances(st, vs, ids, st2, vs2, ids2) ==
    /\ vs \in Nat /\ vs2 \in Nat /\ vs <= vs2
    /\ KeepsIds(ids, ids2)
    /\ \/ st2 = st
       \/ st2.version \in Nat /\ st2.version > vs
       \/ st2.version = 0 /\ st2.group = NewGroup

LEMMA IdsKept ==
  ASSUME NEW g, NEW ids, NEW more, IdsIssued(g, ids), KeepsIds(ids, more)
  PROVE  IdsIssued(g, more)
BY DEF IdsIssued, KeepsIds

LEMMA RequestKept ==
  ASSUME NEW op, NEW req, NEW ids, NEW more, IsRequest(op, req, ids), KeepsIds(ids, more)
  PROVE  IsRequest(op, req, more)
<1>1. IdentitiesOf(ids) \subseteq IdentitiesOf(more)
  BY DEF IdentitiesOf, KeepsIds
<1>2. ASSUME op = "join" PROVE
        \E i \in IdentitiesOf(more) \cup Atomic!NoIdentities, o \in JoinOptions :
            req = Atomic!JoinRequestOf(i, o)
  BY <1>1, <1>2 DEF IsRequest
<1>3. ASSUME op = "sync" PROVE
        \E i \in IdentitiesOf(more), n \in 1 .. MaxGeneration, p \in Atomic!Plans :
            req = Atomic!SyncRequestOf(i, n, None, p)
  BY <1>1, <1>3 DEF IsRequest
<1>4. ASSUME op = "heartbeat" PROVE
        \E i \in IdentitiesOf(more), n \in 1 .. MaxGeneration : req = Atomic!MemberRequestOf(i, n)
  BY <1>1, <1>4 DEF IsRequest
<1>5. ASSUME op = "leave" PROVE
        /\ req \subseteq IdentitiesOf(more) \cup Atomic!NoIdentities
        /\ Atomic!Cardinality(req) \in 1 .. MaxLeaving
  BY <1>1, <1>5 DEF IsRequest
<1>6. ASSUME op \in {"commit", "fence"} PROVE
        \E i \in IdentitiesOf(more) \cup Atomic!NoIdentities,
           n \in (1 .. MaxGeneration) \cup {-1}, t \in BOOLEAN :
            req = Atomic!CommitRequestOf(i, n, t)
  <2>1. PICK i \in IdentitiesOf(ids) \cup Atomic!NoIdentities,
             n \in (1 .. MaxGeneration) \cup {-1}, t \in BOOLEAN :
            req = Atomic!CommitRequestOf(i, n, t)
    BY <1>6 DEF IsRequest
  <2> QED BY <1>1, <2>1
<1> QED BY <1>2, <1>3, <1>4, <1>5, <1>6 DEF IsRequest

LEMMA KnownKept ==
  ASSUME NEW v, NEW g, NEW st, NEW vs, NEW ids, NEW st2, NEW vs2, NEW ids2,
         Known(v, g, st, vs, ids), Advances(st, vs, ids, st2, vs2, ids2)
  PROVE  Known(v, g, st2, vs2, ids2)
<1>1. IdsIssued(g, ids2)
  BY IdsKept DEF Known, Advances
<1>2. v \in 0 .. vs2
  BY DEF Known, Advances
<1>3. v = st2.version => g \in CopiesOf(st2.group)
  BY DEF Known, Advances
<1> QED BY <1>1, <1>2, <1>3 DEF Known

LEMMA LearnedKept ==
  ASSUME NEW l, NEW st, NEW vs, NEW ids, NEW now \in Nat, NEW st2, NEW vs2, NEW ids2, NEW now2 \in Nat,
         Learned(l, st, vs, ids, now), Advances(st, vs, ids, st2, vs2, ids2), now <= now2
  PROVE  Learned(l, st2, vs2, ids2, now2)
<1>1. Known(l.version, l.group, st2, vs2, ids2)
  BY KnownKept DEF Learned
<1>2. l.version \in 1 .. vs2 /\ l.learned \in 0 .. now2
  BY DEF Learned, Advances
<1> QED BY <1>1, <1>2 DEF Learned

LEMMA PendingKept ==
  ASSUME NEW call, NEW st, NEW vs, NEW ids, NEW now \in Nat, NEW st2, NEW vs2, NEW ids2, NEW now2 \in Nat,
         Pending(call, st, vs, ids, now), Advances(st, vs, ids, st2, vs2, ids2), now <= now2,
         call.stage = "store", Fresh(call) => call.new \notin DOMAIN ids2
  PROVE  Pending(call, st2, vs2, ids2, now2)
<1>1. \E g : \E t \in 0 .. now2 : /\ Known(call.version, g, st2, vs2, ids2)
                                  /\ call.result = Outcome(call, g, t, call.new)
  <2>1. PICK g : \E t \in 0 .. now : /\ Known(call.version, g, st, vs, ids)
                                     /\ call.result = Outcome(call, g, t, call.new)
    BY DEF Pending
  <2>2. PICK t \in 0 .. now : /\ Known(call.version, g, st, vs, ids)
                              /\ call.result = Outcome(call, g, t, call.new)
    BY <2>1
  <2>3. Known(call.version, g, st2, vs2, ids2) /\ t \in 0 .. now2
    BY <2>2, KnownKept
  <2> QED BY <2>2, <2>3
<1>2. call.op = "join" => JoinsAs(call.req, call.new, ids2)
  BY DEF Pending, JoinsAs, Advances, KeepsIds, Fresh
<1> QED BY <1>1, <1>2 DEF Pending

LEMMA WrittenKept ==
  ASSUME NEW call, NEW st, NEW vs, NEW ids, NEW st2, NEW vs2, NEW ids2,
         Written(call, st, vs, ids), Advances(st, vs, ids, st2, vs2, ids2)
  PROVE  Written(call, st2, vs2, ids2)
<1>1. IdsIssued(call.result.group, ids2)
  BY IdsKept DEF Written, Advances
<1>2. /\ call.version \in 1 .. vs2
      /\ call.version = st2.version => call.result.group = st2.group
  BY DEF Written, Advances
<1> QED BY <1>1, <1>2 DEF Written, Advances, KeepsIds

LEMMA CurrentKept ==
  ASSUME NEW call, NEW st, NEW vs, NEW ids, NEW st2, NEW vs2, NEW ids2,
         Current(call, st, vs), Advances(st, vs, ids, st2, vs2, ids2)
  PROVE  Current(call, st2, vs2)
BY DEF Current, Advances

LEMMA InProgressKept ==
  ASSUME NEW call, NEW st, NEW vs, NEW ids, NEW now \in Nat, NEW st2, NEW vs2, NEW ids2, NEW now2 \in Nat,
         InProgress(call, st, vs, ids, now), Advances(st, vs, ids, st2, vs2, ids2), now <= now2,
         Fresh(call) => call.new \notin DOMAIN ids2
  PROVE  InProgress(call, st2, vs2, ids2, now2)
<1>1. IsRequest(call.op, call.req, ids2)
  BY RequestKept DEF InProgress, Advances
<1>2. call.stage \in {"run", "outdated"} => Known(call.version, call.group, st2, vs2, ids2)
  BY KnownKept DEF InProgress
<1>3. call.stage = "store" => Pending(call, st2, vs2, ids2, now2)
  BY PendingKept DEF InProgress
<1>4. call.stage = "stored" => Written(call, st2, vs2, ids2)
  BY WrittenKept DEF InProgress
<1>5. call.op \in {"heartbeat", "leave", "commit", "fence"} => Current(call, st2, vs2)
  BY CurrentKept DEF InProgress
<1> QED BY <1>1, <1>2, <1>3, <1>4, <1>5 DEF InProgress

(***************************************************************************)
(* What a request makes of the group.                                      *)
(***************************************************************************)
\* The ids that are given out once the result is stored.
IdsAfter(call, ids, reply, new) ==
    IF call.op = "join" THEN WithReply(ids, reply, new, call.req.group_instance_id) ELSE ids

\* The identities that a request names.
LEMMA RequestType ==
  ASSUME NEW req, NEW ids, IsMap(ids, MemberIds, Instances \cup {None}),
         IsRequest("join", req, ids)
  PROVE  /\ req \in JoinRequest
         /\ req.member_id # None => /\ req.member_id \in DOMAIN ids
                                    /\ ids[req.member_id] = req.group_instance_id
<1>1. PICK i \in IdentitiesOf(ids) \cup Atomic!NoIdentities, o \in JoinOptions :
        req = Atomic!JoinRequestOf(i, o)
  BY DEF IsRequest
<1>2. /\ i.member_id \in MemberIds \cup {None}
      /\ i.group_instance_id \in Instances \cup {None}
      /\ i.member_id # None => /\ i.member_id \in DOMAIN ids
                               /\ ids[i.member_id] = i.group_instance_id
  BY DEF IdentitiesOf, Atomic!NoIdentities, IsMap
<1>3. o \in [api_version : Nat, session_timeout_ms : Nat \ {0}, rebalance_timeout_ms : Nat,
             protocols : Seq(Protocols), metadata : Metadata]
  BY CoordinatorAssumption
<1> QED BY <1>1, <1>2, <1>3 DEF Atomic!JoinRequestOf, JoinRequest

\* A held join goes on as the member it now belongs to.
LEMMA RenamedRequest ==
  ASSUME NEW req, NEW ids, IsRequest("join", req, ids), NEW m \in DOMAIN ids,
         ids[m] = req.group_instance_id
  PROVE  IsRequest("join", [req EXCEPT !.member_id = m], ids)
<1>1. PICK i \in IdentitiesOf(ids) \cup Atomic!NoIdentities, o \in JoinOptions :
        req = Atomic!JoinRequestOf(i, o)
  BY DEF IsRequest
<1> DEFINE j == [member_id |-> m, group_instance_id |-> ids[m]]
<1>2. j \in IdentitiesOf(ids)
  BY DEF IdentitiesOf
<1>3. [req EXCEPT !.member_id = m] = Atomic!JoinRequestOf(j, o)
  BY <1>1 DEF Atomic!JoinRequestOf
<1> QED BY <1>2, <1>3 DEF IsRequest

LEMMA InsertKeeps ==
  ASSUME NEW ids, NEW m, NEW i, m \in DOMAIN ids => ids[m] = i
  PROVE  KeepsIds(ids, Insert(ids, m, i))
BY DEF KeepsIds, Insert

LEMMA OutcomeOK ==
  ASSUME NEW ids, IsMap(ids, MemberIds, Instances \cup {None}),
         NEW call, call.op \in {"join", "sync", "heartbeat", "leave", "commit", "fence"},
         IsRequest(call.op, call.req, ids),
         NEW g, OK(g), IdsIssued(g, ids), NEW t \in Nat, NEW new,
         call.op = "join" => JoinsAs(call.req, new, ids)
  PROVE  LET r == Outcome(call, g, t, new)
             more == IdsAfter(call, ids, r.reply, new)
         IN  /\ OK(r.group)
             /\ IdsIssued(r.group, more)
             /\ IsMap(more, MemberIds, Instances \cup {None})
             /\ KeepsIds(ids, more)
             /\ call.op = "join" /\ r.reply.kind = "held" =>
                    /\ r.reply.member = new
                    /\ call.req.member_id = None => new \in DOMAIN r.group.members
             /\ call.op \in {"commit", "fence"} => r.reply.kind # "held"
<1> DEFINE s == settle(g, t)
           r == Outcome(call, g, t, new)
           more == IdsAfter(call, ids, r.reply, new)
<1>1. OK(s) /\ Shrinks(g, s)
  BY SettleOK
<1>2. IdsIssued(s, ids)
  BY <1>1, ShrinksIds
<1>3. CASE call.op = "join"
  <2>1. r = join(s, t, call.req, new)
    BY <1>3 DEF Outcome
  <2>2. more = WithReply(ids, r.reply, new, call.req.group_instance_id)
    BY <1>3 DEF IdsAfter
  <2> HIDE DEF s, r, more
  <2>3. /\ OK(r.group)
        /\ IdsIssued(r.group, more)
        /\ IsMap(more, MemberIds, Instances \cup {None})
        /\ r.reply.kind # "error" =>
                /\ r.reply.member = new
                /\ call.req.member_id = None => new \in DOMAIN r.group.members
    <3>1. JoinsAs(call.req, new, ids)
      BY <1>3
    <3> DEFINE j == join(s, t, call.req, new)
               w == WithReply(ids, j.reply, new, call.req.group_instance_id)
    <3>2. /\ OK(j.group)
          /\ IdsIssued(j.group, w)
          /\ IsMap(w, MemberIds, Instances \cup {None})
          /\ j.reply.kind # "error" =>
                /\ j.reply.member = new
                /\ call.req.member_id = None => new \in DOMAIN j.group.members
      BY <1>1, <1>2, <3>1, JoinGroupOK
    <3>3. r = j /\ more = w
      BY <2>1, <2>2
    <3> HIDE DEF j, w
    <3> QED BY <3>2, <3>3
  <2>4. new \in DOMAIN ids => ids[new] = call.req.group_instance_id
    BY <1>3 DEF JoinsAs
  <2>5. KeepsIds(ids, more)
    BY <2>2, <2>4, InsertKeeps DEF WithReply, KeepsIds
  <2> QED BY <1>3, <2>3, <2>5 DEF r, more
<1>4. CASE call.op # "join"
  <2>1. more = ids
    BY <1>4 DEF IdsAfter
  <2>2. OK(r.group) /\ Shrinks(s, r.group)
    <3>1. CASE call.op = "sync"
      <4>1. PICK i \in IdentitiesOf(ids), n \in 1 .. MaxGeneration, p \in Atomic!Plans :
                call.req = Atomic!SyncRequestOf(i, n, None, p)
        BY <3>1 DEF IsRequest
      <4>2. p \in [MemberIds -> SUBSET Partitions]
        BY DEF Atomic!Plans
      <4>3. call.req.assignments \in [MemberIds -> SUBSET Partitions]
        BY <4>1, <4>2 DEF Atomic!SyncRequestOf
      <4>4. r = sync(s, t, call.req)
        BY <3>1 DEF Outcome
      <4> HIDE DEF s, r
      <4> QED BY <1>1, <4>3, <4>4, SyncOK
    <3>2. CASE call.op = "heartbeat"
      <4>1. r = heartbeat(s, t, call.req)
        BY <3>2 DEF Outcome
      <4> HIDE DEF s, r
      <4> QED BY <1>1, <4>1, HeartbeatOK
    <3>3. CASE call.op = "leave"
      <4>1. r.group = leave(s, t, call.req)
        BY <3>3 DEF Outcome, Result
      <4> HIDE DEF s, r
      <4> QED BY <1>1, <4>1, LeaveOK
    <3>4. CASE call.op \in {"commit", "fence"}
      <4>1. r = check_offset_commit(s, t, call.req)
        BY <3>4 DEF Outcome
      <4> HIDE DEF s, r
      <4> QED BY <1>1, <4>1, OffsetCommitOK
    <3> QED BY <1>4, <3>1, <3>2, <3>3, <3>4
  <2>3. IdsIssued(r.group, ids)
    BY <1>2, <2>2, ShrinksIds
  <2>4. call.op \in {"commit", "fence"} => r.reply.kind # "held"
    <3>1. ASSUME call.op \in {"commit", "fence"}
          PROVE  r = check_offset_commit(s, t, call.req)
      BY <3>1 DEF Outcome
    <3>2. \A h, q : check_offset_commit(h, t, q).reply.kind \in {"error", "done"}
      BY DEF check_offset_commit, Result, Error, Done
    <3> HIDE DEF r, s
    <3> QED BY <3>1, <3>2
  <2>5. KeepsIds(ids, ids)
    BY DEF KeepsIds
  <2> QED BY <1>4, <2>1, <2>2, <2>3, <2>4, <2>5
<1> QED BY <1>3, <1>4

(***************************************************************************)
(* Steps that leave storage alone.                                         *)
(***************************************************************************)
\* A step of the request in one slot.
LEMMA SlotInv ==
  ASSUME CInv, UNCHANGED <<stored, versions, clock, issued>>, faults' \in 0 .. MaxFaults,
         CachesOK(cache', stored, versions, issued, clock),
         NEW c \in Slots, NEW x, calls' = [calls EXCEPT ![c] = x],
         x = Idle \/ InProgress(x, stored, versions, issued, clock),
         Fresh(x) => \A d \in Slots : x.new # calls[d].new
  PROVE  CInv'
<1>1. CallsOK(calls, stored, versions, issued, clock)
  BY DEF CInv
<1>2. /\ calls' = [d \in Slots |-> calls'[d]]
      /\ calls'[c] = x
      /\ \A d \in Slots \ {c} : calls'[d] = calls[d]
  BY <1>1 DEF CallsOK
<1>3. CallsOK(calls', stored, versions, issued, clock)
  BY <1>1, <1>2 DEF CallsOK
<1> QED BY <1>3 DEF CInv

LEMMA IdleNotFresh == ~ Fresh(Idle) /\ Idle.stage = "idle" /\ "idle" \notin Stages
BY DEF Fresh, Idle, Stages

\* The step ends the request.
LEMMA EndInv ==
  ASSUME CInv, UNCHANGED <<stored, versions, clock, issued>>, faults' \in 0 .. MaxFaults,
         CachesOK(cache', stored, versions, issued, clock),
         NEW c \in Slots, calls' = [calls EXCEPT ![c] = Idle]
  PROVE  CInv'
<1>1. PICK x : x = Idle
  OBVIOUS
<1>2. calls' = [calls EXCEPT ![c] = x] /\ ~ Fresh(x)
  BY <1>1, IdleNotFresh
<1> QED BY <1>1, <1>2, SlotInv

\* The caches learn a group that is known.
LEMMA CacheInv ==
  ASSUME CInv, NEW b \in Brokers, NEW v, NEW g, Known(v, g, stored, versions, issued), v # 0,
         Cache(b, v, g)
  PROVE  CachesOK(cache', stored, versions, issued, clock)
<1> DEFINE l == [version |-> v, group |-> g, learned |-> clock]
<1>1. clock \in Nat /\ versions \in Nat
  BY CoordinatorAssumption DEF CInv, Sound
<1>2. Learned(l, stored, versions, issued, clock)
  BY <1>1 DEF Learned, Known
<1>3. cache' = [cache EXCEPT ![b] = l]
  BY DEF Cache
<1> HIDE DEF l
<1>4. CachesOK(cache, stored, versions, issued, clock)
  BY DEF CInv
<1> QED BY <1>2, <1>3, <1>4 DEF CachesOK

LEMMA ForgetCache ==
  ASSUME CInv, NEW b \in Brokers, cache' = [cache EXCEPT ![b] = None]
  PROVE  CachesOK(cache', stored, versions, issued, clock)
<1>1. CachesOK(cache, stored, versions, issued, clock)
  BY DEF CInv
<1> QED BY <1>1 DEF CachesOK

LEMMA SameCache ==
  ASSUME CInv, UNCHANGED cache
  PROVE  CachesOK(cache', stored, versions, issued, clock)
BY DEF CInv

\* The group that storage holds.
LEMMA StoredKnown ==
  ASSUME CInv
  PROVE  /\ Known(stored.version, stored.group, stored, versions, issued)
         /\ Known(stored.version, with_storage_group_detail(stored.group), stored, versions, issued)
<1> DEFINE h == with_storage_group_detail(stored.group)
<1>1. Sound(stored, versions, issued)
  BY DEF CInv
<1>2. OK(h) /\ IdsIssued(h, issued)
  BY <1>1, WithStorageOK, ShrinksIds DEF Sound
<1>3. /\ stored.version = 0 => h \in CopiesOf(NewGroup)
      /\ h \in CopiesOf(stored.group)
      /\ stored.group \in CopiesOf(stored.group)
      /\ stored.version = 0 => stored.group \in CopiesOf(NewGroup)
  BY <1>1 DEF CopiesOf, Sound
<1> HIDE DEF h
<1>4. Known(stored.version, h, stored, versions, issued)
  BY <1>1, <1>2, <1>3 DEF Known, Sound
<1>5. Known(stored.version, stored.group, stored, versions, issued)
  BY <1>1, <1>3 DEF Known, Sound
<1> QED BY <1>4, <1>5 DEF h

\* recent_group: the broker's cache, or storage.
LEMMA RecentOK ==
  ASSUME CInv, NEW call, call \in CallFields(call), call.stage = "read",
         IsRequest(call.op, call.req, issued),
         call.op \in {"heartbeat", "leave", "commit", "fence"} => Current(call, stored, versions)
  PROVE  /\ InProgress(recent_group(call), stored, versions, issued, clock)
         /\ ~ Fresh(recent_group(call))
<1> DEFINE x == recent_group(call)
           l == cache[call.broker]
           h == with_storage_group_detail(stored.group)
<1>0. versions \in Nat
  BY CoordinatorAssumption DEF CInv, Sound
<1>1. PICK v, g, s : /\ x = [call EXCEPT !.stage = "run", !.source = s, !.version = v, !.group = g]
                     /\ s \in {"cache", "storage"}
                     /\ Known(v, g, stored, versions, issued)
                     /\ s = "storage" => v = stored.version
                     /\ s = "cache" => call.max_age # "zero"
  <2>1. CASE Cached(call)
    <3>1. x = [call EXCEPT !.stage = "run", !.source = "cache", !.version = l.version,
                           !.group = l.group]
      BY <2>1 DEF recent_group
    <3>2. call.broker \in Brokers /\ l # None /\ call.max_age # "zero"
      BY <2>1 DEF Cached, CallFields
    <3>3. Known(l.version, l.group, stored, versions, issued)
      BY <3>2 DEF CInv, CachesOK, Learned
    <3> HIDE DEF x, l
    <3> WITNESS l.version, l.group, "cache"
    <3> QED BY <3>1, <3>2, <3>3
  <2>2. CASE ~ Cached(call)
    <3>1. x = [call EXCEPT !.stage = "run", !.source = "storage", !.version = stored.version,
                           !.group = h]
      BY <2>2 DEF recent_group
    <3>2. Known(stored.version, h, stored, versions, issued)
      BY StoredKnown
    <3> HIDE DEF x, l, h
    <3> WITNESS stored.version, h, "storage"
    <3> QED BY <3>1, <3>2
  <2> QED BY <2>1, <2>2
<1> HIDE DEF x
<1>2. v \in Nat
  BY <1>0, <1>1 DEF Known
<1>3. /\ x.op = call.op /\ x.req = call.req /\ x.from = call.from /\ x.max_age = call.max_age
      /\ x.stage = "run" /\ x.source = s /\ x.version = v /\ x.group = g
      /\ x \in CallFields(x)
  BY <1>1, <1>2 DEF CallFields, Stages
<1>4. call.op \in {"heartbeat", "leave", "commit", "fence"} => Current(x, stored, versions)
  <2> SUFFICES ASSUME call.op \in {"heartbeat", "leave", "commit", "fence"}
               PROVE  Current(x, stored, versions)
    OBVIOUS
  <2>1. Current(call, stored, versions)
    OBVIOUS
  <2> QED BY <1>1, <1>3, <2>1 DEF Current
<1>5. InProgress(x, stored, versions, issued, clock)
  BY <1>1, <1>3, <1>4 DEF InProgress
<1>6. ~ Fresh(x)
  BY <1>3 DEF Fresh
<1> QED BY <1>5, <1>6 DEF x

\* What clients send.
LEMMA RequestsOK ==
  ASSUME CInv, NEW op \in Ops, NEW req \in Requests(op)
  PROVE  IsRequest(op, req, issued)
<1>1. Atomic!Identities = IdentitiesOf(issued)
  BY DEF Atomic!Identities, IdentitiesOf
<1>2. KnownGenerations \subseteq 1 .. MaxGeneration
  <2>1. stored.group.generation_id \in Nat /\ stored.group.generation_id <= MaxGeneration
    BY DEF CInv, Sound, OK, IsGroup, GroupDetail
  <2>2. MaxGeneration \in Nat
    BY CoordinatorAssumption
  <2> QED BY <2>1, <2>2 DEF KnownGenerations
<1>3. CASE op = "join"
  <2>1. req \in JoinRequests
    BY <1>3 DEF Requests
  <2> QED BY <1>1, <1>3, <2>1 DEF JoinRequests, IsRequest
<1>4. CASE op = "sync"
  <2>1. req \in SyncRequests
    BY <1>4 DEF Requests
  <2>2. PICK i \in Atomic!Identities, n \in KnownGenerations, p \in Atomic!Plans :
            req = Atomic!SyncRequestOf(i, n, None, p)
    BY <2>1 DEF SyncRequests
  <2> QED BY <1>1, <1>2, <1>4, <2>2 DEF IsRequest
<1>5. CASE op = "heartbeat"
  <2>1. req \in MemberRequests
    BY <1>5 DEF Requests
  <2>2. PICK i \in Atomic!Identities, n \in KnownGenerations : req = Atomic!MemberRequestOf(i, n)
    BY <2>1 DEF MemberRequests
  <2> QED BY <1>1, <1>2, <1>5, <2>2 DEF IsRequest
<1>6. CASE op = "leave"
  <2>1. req \in Atomic!LeaveRequests
    BY <1>6 DEF Requests
  <2> QED BY <1>1, <1>6, <2>1 DEF Atomic!LeaveRequests, IsRequest
<1>7. CASE op \in {"commit", "fence"}
  <2>1. PICK t \in BOOLEAN : req \in CommitRequests(t)
    BY <1>7 DEF Requests
  <2> DEFINE z == [member_id |-> None, group_instance_id |-> None]
  <2>2. z \in Atomic!NoIdentities
    BY DEF Atomic!NoIdentities
  <2>3. \/ \E i \in Atomic!Identities, n \in KnownGenerations : req = Atomic!CommitRequestOf(i, n, t)
        \/ req = Atomic!CommitRequestOf(z, -1, t)
    BY <2>1 DEF CommitRequests
  <2> HIDE DEF z
  <2>4. \E i \in IdentitiesOf(issued) \cup Atomic!NoIdentities,
           n \in (1 .. MaxGeneration) \cup {-1} : req = Atomic!CommitRequestOf(i, n, t)
    BY <1>1, <1>2, <2>2, <2>3
  <2> QED BY <1>7, <2>4 DEF IsRequest
<1>8. CASE op = "delete"
  BY <1>8 DEF IsRequest
<1> QED BY <1>3, <1>4, <1>5, <1>6, <1>7, <1>8, CoordinatorAssumption

LEMMA SendInv ==
  ASSUME CInv, NEW c \in Slots, Send(c)
  PROVE  CInv'
<1>1. PICK op \in Ops, b \in Brokers :
        \E req \in Requests(op) : calls' = [calls EXCEPT ![c] = recent_group(Call(op, b, req))]
  BY DEF Send
<1>2. PICK req \in Requests(op) : calls' = [calls EXCEPT ![c] = recent_group(Call(op, b, req))]
  BY <1>1
<1>3. PICK call : call = Call(op, b, req)
  OBVIOUS
<1>4. IsRequest(op, req, issued)
  BY RequestsOK
<1>5. stored.version \in Nat /\ stored.version <= versions /\ clock \in Nat /\ versions \in Nat
  BY CoordinatorAssumption DEF CInv, Sound
<1>6. /\ call \in CallFields(call) /\ call.stage = "read" /\ call.op = op /\ call.req = req
      /\ op \notin {"join", "sync"} => call.from = stored.version
      /\ op \notin {"heartbeat", "leave"} => call.max_age = "zero"
  BY <1>3, <1>5 DEF Call, CallFields, Stages
<1>7. call.op \in {"heartbeat", "leave", "commit", "fence"} => Current(call, stored, versions)
  BY <1>5, <1>6 DEF Current
<1>8. PICK x : x = recent_group(call)
  OBVIOUS
<1>9. InProgress(x, stored, versions, issued, clock) /\ ~ Fresh(x)
  BY <1>4, <1>6, <1>7, <1>8, RecentOK
<1>10. /\ UNCHANGED <<stored, versions, clock, issued, cache>>
       /\ faults' \in 0 .. MaxFaults
       /\ calls' = [calls EXCEPT ![c] = x]
  BY <1>2, <1>3, <1>8 DEF Send, CInv
<1> QED BY <1>9, <1>10, SameCache, SlotInv

\* The request in a slot.
LEMMA SlotCall ==
  ASSUME CInv, NEW c \in Slots, calls[c].stage # "idle"
  PROVE  InProgress(calls[c], stored, versions, issued, clock)
BY IdleNotFresh DEF CInv, CallsOK

LEMMA ReadInv ==
  ASSUME CInv, NEW c \in Slots, Read(c)
  PROVE  CInv'
<1>1. PICK call : call = calls[c]
  OBVIOUS
<1>2. InProgress(call, stored, versions, issued, clock) /\ call.stage = "read"
  BY <1>1, SlotCall DEF Read
<1>3. PICK x : x = recent_group(call)
  OBVIOUS
<1>4. InProgress(x, stored, versions, issued, clock) /\ ~ Fresh(x)
  BY <1>2, <1>3, RecentOK DEF InProgress
<1>5. /\ UNCHANGED <<stored, versions, clock, issued, cache>>
      /\ faults' \in 0 .. MaxFaults
      /\ calls' = [calls EXCEPT ![c] = x]
  BY <1>1, <1>3 DEF Read, CInv
<1> QED BY <1>4, <1>5, SameCache, SlotInv

\* The request starts over.
AgainAs(call, max_age, since, req) ==
    [Again(call, max_age) EXCEPT !.since = since, !.req = req]

LEMMA AgainOK ==
  ASSUME NEW call, NEW st, NEW vs, NEW ids, NEW now, InProgress(call, st, vs, ids, now),
         NEW a \in {"any", "zero", "poll"}, call.op \in {"commit", "fence"} => a = "zero",
         call.op # "delete" \/ call.stage = "read",
         NEW since \in Nat \cup {None}, NEW req, IsRequest(call.op, req, ids),
         NEW x, x = AgainAs(call, a, since, req)
  PROVE  InProgress(x, st, vs, ids, now) /\ ~ Fresh(x)
<1>1. /\ x \in CallFields(x)
      /\ x.op = call.op /\ x.req = req /\ x.stage = "read" /\ x.max_age = a /\ x.from = call.from
  BY DEF AgainAs, Again, InProgress, CallFields, Stages
<1>2. x.op \in {"heartbeat", "leave", "commit", "fence"} => Current(x, st, vs)
  BY <1>1 DEF Current, InProgress
<1>3. InProgress(x, st, vs, ids, now)
  BY <1>1, <1>2 DEF InProgress
<1>4. ~ Fresh(x)
  BY <1>1 DEF Fresh
<1> QED BY <1>3, <1>4

\* The request is answered, or held.
LEMMA FinishInv ==
  ASSUME CInv, NEW c \in Slots, NEW call, call = calls[c], call.stage # "idle",
         call.op # "delete", NEW result, Finish(c, call, result),
         UNCHANGED <<stored, versions, clock, issued>>, faults' \in 0 .. MaxFaults,
         CachesOK(cache', stored, versions, issued, clock),
         call.op \in {"commit", "fence"} => result.reply.kind # "held",
         call.op = "join" /\ result.reply.kind = "held" =>
            /\ result.reply.member \in DOMAIN issued
            /\ issued[result.reply.member] = call.req.group_instance_id
  PROVE  CInv'
<1> DEFINE since == IF call.since = None THEN clock ELSE call.since
           req == IF call.op = "join" THEN [call.req EXCEPT !.member_id = result.reply.member]
                                      ELSE call.req
<1>1. InProgress(call, stored, versions, issued, clock)
  BY SlotCall
<1>2. CASE calls' = [calls EXCEPT ![c] = Idle]
  BY <1>2, EndInv
<1>3. CASE /\ result.reply.kind = "held"
           /\ calls' = [calls EXCEPT ![c] = [Again(call, "poll") EXCEPT !.since = since, !.req = req]]
  <2>1. clock \in Nat
    BY CoordinatorAssumption DEF CInv
  <2>2. since \in Nat \cup {None}
    BY <1>1, <2>1 DEF InProgress, CallFields
  <2>3. IsRequest(call.op, req, issued)
    <3>1. CASE call.op = "join"
      BY <1>1, <1>3, <3>1, RenamedRequest DEF InProgress
    <3>2. CASE call.op # "join"
      BY <1>1, <3>2 DEF InProgress
    <3> QED BY <3>1, <3>2
  <2> HIDE DEF since, req
  <2>4. PICK x : x = AgainAs(call, "poll", since, req)
    OBVIOUS
  <2>5. InProgress(x, stored, versions, issued, clock) /\ ~ Fresh(x)
    <3>1. "poll" \in {"any", "zero", "poll"} /\ call.op \notin {"commit", "fence"}
      BY <1>3
    <3> QED BY <1>1, <2>2, <2>3, <2>4, <3>1, AgainOK
  <2>6. calls' = [calls EXCEPT ![c] = x]
    BY <1>3, <2>4 DEF AgainAs
  <2> QED BY <2>5, <2>6, SlotInv
<1>4. \/ calls' = [calls EXCEPT ![c] = Idle]
      \/ /\ result.reply.kind = "held"
         /\ calls' = [calls EXCEPT ![c] = [Again(call, "poll") EXCEPT !.since = since, !.req = req]]
  BY DEF Finish, Hold, Answer
<1> QED BY <1>2, <1>3, <1>4

\* The answer stands, but a heartbeat or a leave from the cache is tried on storage.
LEMMA RunUnchangedInv ==
  ASSUME CInv, NEW c \in Slots, NEW call, call = calls[c], call.stage = "run",
         call.op # "delete", NEW result, RunUnchanged(c, call, result),
         UNCHANGED <<stored, versions, clock, issued>>, faults' \in 0 .. MaxFaults,
         CachesOK(cache', stored, versions, issued, clock),
         call.op \in {"commit", "fence"} => result.reply.kind # "held",
         call.op = "join" /\ result.reply.kind = "held" =>
            /\ result.reply.member \in DOMAIN issued
            /\ issued[result.reply.member] = call.req.group_instance_id
  PROVE  CInv'
<1>1. InProgress(call, stored, versions, issued, clock)
  BY SlotCall
<1>2. CASE call.op \in {"heartbeat", "leave"} /\ call.source = "cache"
  <2>1. PICK x : x = AgainAs(call, "zero", call.since, call.req)
    OBVIOUS
  <2>2. x = Again(call, "zero")
    BY <1>1, <2>1 DEF AgainAs, Again, InProgress, CallFields
  <2>3. calls' = [calls EXCEPT ![c] = x]
    BY <1>2, <2>2 DEF RunUnchanged
  <2>4. InProgress(x, stored, versions, issued, clock) /\ ~ Fresh(x)
    <3>1. PICK since, req, a : since = call.since /\ req = call.req /\ a = "zero"
      OBVIOUS
    <3>2. since \in Nat \cup {None} /\ IsRequest(call.op, req, issued)
      BY <1>1, <3>1 DEF InProgress, CallFields
    <3>3. a \in {"any", "zero", "poll"} /\ call.op \notin {"commit", "fence"}
      BY <1>2, <3>1
    <3>4. x = AgainAs(call, a, since, req)
      BY <2>1, <3>1
    <3> QED BY <1>1, <3>2, <3>3, <3>4, AgainOK
  <2> QED BY <2>3, <2>4, SlotInv
<1>3. CASE /\ ~ (call.op \in {"heartbeat", "leave"} /\ call.source = "cache")
           /\ call.op = "commit" /\ result.reply.kind = "done"
  <2>1. PICK x : x = [call EXCEPT !.stage = "offsets", !.group = None]
    OBVIOUS
  <2>2. calls' = [calls EXCEPT ![c] = x]
    BY <1>3, <2>1 DEF RunUnchanged
  <2>3. /\ x \in CallFields(x)
        /\ x.op = call.op /\ x.req = call.req /\ x.stage = "offsets"
        /\ x.max_age = call.max_age /\ x.from = call.from /\ x.version = call.version
    BY <1>1, <2>1 DEF InProgress, CallFields, Stages
  <2>4. Current(x, stored, versions)
    BY <1>1, <1>3, <2>3 DEF Current, InProgress
  <2>5. InProgress(x, stored, versions, issued, clock) /\ ~ Fresh(x)
    BY <1>1, <1>3, <2>3, <2>4 DEF InProgress, Fresh
  <2> QED BY <2>2, <2>5, SlotInv
<1>4. CASE /\ ~ (call.op \in {"heartbeat", "leave"} /\ call.source = "cache")
           /\ ~ (call.op = "commit" /\ result.reply.kind = "done")
  <2>1. Finish(c, call, result)
    BY <1>4 DEF RunUnchanged
  <2> QED BY <2>1, FinishInv
<1> QED BY <1>2, <1>3, <1>4

\* A new id is given out once.
LEMMA FreshIdsOK ==
  ASSUME CInv, NEW call, InProgress(call, stored, versions, issued, clock),
         NEW new \in FreshIds(call)
  PROVE  /\ call.op = "join" => JoinsAs(call.req, new, issued)
         /\ new \in MemberIds \cup {None}
         /\ call.op = "join" /\ call.req.member_id = None =>
                \A d \in Slots : new # calls[d].new
<1>1. IsMap(issued, MemberIds, Instances \cup {None})
  BY DEF CInv, Sound
<1>2. CASE call.op = "join"
  <2>1. /\ call.req \in JoinRequest
        /\ call.req.member_id # None =>
            /\ call.req.member_id \in DOMAIN issued
            /\ issued[call.req.member_id] = call.req.group_instance_id
    BY <1>1, <1>2, RequestType DEF InProgress
  <2>2. DOMAIN issued \subseteq MemberIds
    BY <1>1 DEF IsMap
  <2> QED BY <1>2, <2>1, <2>2 DEF FreshIds, JoinsAs
<1>3. CASE call.op # "join"
  BY <1>3 DEF FreshIds
<1> QED BY <1>2, <1>3

LEMMA RunInv ==
  ASSUME CInv, NEW c \in Slots, Run(c)
  PROVE  CInv'
<1>1. PICK call : call = calls[c]
  OBVIOUS
<1>2. InProgress(call, stored, versions, issued, clock) /\ call.stage = "run" /\ call.op # "delete"
  BY <1>1, SlotCall DEF Run
<1>3. /\ Known(call.version, call.group, stored, versions, issued)
      /\ call.op \in {"join", "sync", "heartbeat", "leave", "commit", "fence"}
      /\ call.broker \in Brokers
      /\ IsRequest(call.op, call.req, issued)
  BY <1>2, CoordinatorAssumption DEF InProgress, CallFields
<1>4. /\ UNCHANGED <<stored, versions, clock, issued>> /\ faults' \in 0 .. MaxFaults
      /\ \/ Cache(call.broker, call.version, call.group) /\ call.version # 0
         \/ UNCHANGED cache
  BY <1>1 DEF Run, CInv
<1>5. CachesOK(cache', stored, versions, issued, clock)
  BY <1>3, <1>4, CacheInv, SameCache
<1>6. PICK new \in FreshIds(call) :
        LET result == Outcome(call, call.group, clock, new)
        IN  IF Unchanged(call, result) THEN RunUnchanged(c, call, result)
            ELSE /\ result.group.generation_id <= MaxGeneration
                 /\ calls' = [calls EXCEPT
                                ![c] = [@ EXCEPT !.stage = "store", !.new = new, !.group = None,
                                                 !.source = None, !.result = result]]
                 /\ UNCHANGED told
  BY <1>1 DEF Run
<1>7. PICK result : result = Outcome(call, call.group, clock, new)
  OBVIOUS
<1>8. /\ call.op = "join" => JoinsAs(call.req, new, issued)
      /\ new \in MemberIds \cup {None}
      /\ call.op = "join" /\ call.req.member_id = None => \A d \in Slots : new # calls[d].new
  BY <1>2, FreshIdsOK
<1>9. clock \in Nat /\ IsMap(issued, MemberIds, Instances \cup {None})
  BY CoordinatorAssumption DEF CInv, Sound
<1>10. /\ call.op = "join" /\ result.reply.kind = "held" =>
            /\ result.reply.member = new
            /\ call.req.member_id = None => new \in DOMAIN result.group.members
       /\ call.op \in {"commit", "fence"} => result.reply.kind # "held"
  BY <1>3, <1>7, <1>8, <1>9, OutcomeOK DEF Known
<1>11. CASE Unchanged(call, result)
  <2>1. RunUnchanged(c, call, result) /\ result.group = call.group
    BY <1>6, <1>7, <1>11 DEF Unchanged
  <2>2. ASSUME call.op = "join", result.reply.kind = "held"
        PROVE  /\ result.reply.member \in DOMAIN issued
               /\ issued[result.reply.member] = call.req.group_instance_id
    <3>1. call.req.member_id # None
      BY <1>3, <1>8, <1>10, <2>1, <2>2 DEF Known, IdsIssued, JoinsAs
    <3> QED BY <1>8, <1>10, <2>2, <3>1 DEF JoinsAs
  <2> QED BY <1>1, <1>2, <1>4, <1>5, <1>10, <2>1, <2>2, RunUnchangedInv
<1>12. CASE ~ Unchanged(call, result)
  <2>1. PICK x : x = [call EXCEPT !.stage = "store", !.new = new, !.group = None,
                                  !.source = None, !.result = result]
    OBVIOUS
  <2>2. calls' = [calls EXCEPT ![c] = x] /\ result.group.generation_id <= MaxGeneration
    BY <1>1, <1>6, <1>7, <1>12, <2>1
  <2>3. /\ x \in CallFields(x)
        /\ x.op = call.op /\ x.req = call.req /\ x.stage = "store" /\ x.new = new
        /\ x.result = result /\ x.version = call.version
        /\ x.max_age = call.max_age /\ x.from = call.from
    BY <1>2, <1>8, <2>1 DEF InProgress, CallFields, Stages
  <2>4. Outcome(x, call.group, clock, new) = result
    BY <1>7, <2>3 DEF Outcome
  <2>5. Pending(x, stored, versions, issued, clock)
    BY <1>3, <1>8, <1>9, <2>2, <2>3, <2>4 DEF Pending
  <2>6. x.op \in {"heartbeat", "leave", "commit", "fence"} => Current(x, stored, versions)
    BY <1>2, <2>3 DEF Current, InProgress
  <2>7. InProgress(x, stored, versions, issued, clock)
    BY <1>2, <2>3, <2>5, <2>6 DEF InProgress
  <2>8. Fresh(x) => \A d \in Slots : x.new # calls[d].new
    BY <1>8, <2>3 DEF Fresh
  <2> QED BY <1>4, <1>5, <2>2, <2>7, <2>8, SlotInv
<1> QED BY <1>11, <1>12

LEMMA OutdatedInv ==
  ASSUME CInv, NEW c \in Slots, Outdated(c)
  PROVE  CInv'
<1> DEFINE h == with_storage_group_detail(stored.group)
<1>1. PICK call : call = calls[c]
  OBVIOUS
<1>2. /\ InProgress(call, stored, versions, issued, clock) /\ call.stage = "store"
      /\ stored.version # 0 /\ stored.version \in Nat
  BY <1>1, SlotCall, CoordinatorAssumption DEF Outdated, CInv, Sound
<1>3. Known(stored.version, h, stored, versions, issued)
  BY StoredKnown
<1> HIDE DEF h
<1>4. PICK x : x = [call EXCEPT !.stage = "outdated", !.version = stored.version, !.group = h,
                                !.result = None, !.new = None]
  OBVIOUS
<1>5. /\ UNCHANGED <<stored, versions, clock, issued, cache>>
      /\ faults' \in 0 .. MaxFaults
      /\ calls' = [calls EXCEPT ![c] = x]
  BY <1>1, <1>4 DEF Outdated, CInv, h
<1>6. /\ x \in CallFields(x)
      /\ x.op = call.op /\ x.req = call.req /\ x.stage = "outdated"
      /\ x.version = stored.version /\ x.group = h
      /\ x.max_age = call.max_age /\ x.from = call.from
  BY <1>2, <1>4 DEF InProgress, CallFields, Stages
<1>7. x.op \in {"heartbeat", "leave", "commit", "fence"} => Current(x, stored, versions)
  BY <1>2, <1>6 DEF Current, InProgress
<1>8. InProgress(x, stored, versions, issued, clock) /\ ~ Fresh(x)
  BY <1>2, <1>3, <1>6, <1>7 DEF InProgress, Fresh
<1> QED BY <1>5, <1>8, SameCache, SlotInv

LEMMA RelearnInv ==
  ASSUME CInv, NEW c \in Slots, Relearn(c)
  PROVE  CInv'
<1>1. PICK call : call = calls[c]
  OBVIOUS
<1>2. InProgress(call, stored, versions, issued, clock) /\ call.stage = "outdated"
  BY <1>1, SlotCall DEF Relearn
<1>3. /\ Known(call.version, call.group, stored, versions, issued)
      /\ call.version # 0 /\ call.broker \in Brokers /\ call.op # "delete"
  BY <1>2 DEF InProgress, CallFields
<1>4. PICK a : a = IF call.op \in {"join", "sync"} THEN "poll" ELSE call.max_age
  OBVIOUS
<1>5. PICK since, req : since = call.since /\ req = call.req
  OBVIOUS
<1>6. PICK x : x = AgainAs(call, a, since, req)
  OBVIOUS
<1>7. x = Retry(call)
  BY <1>2, <1>4, <1>5, <1>6 DEF AgainAs, Retry, Again, InProgress, CallFields
<1>8. /\ since \in Nat \cup {None} /\ IsRequest(call.op, req, issued)
      /\ a \in {"any", "zero", "poll"}
      /\ call.op \in {"commit", "fence"} => a = "zero"
  BY <1>2, <1>4, <1>5 DEF InProgress, CallFields, Current
<1>9. InProgress(x, stored, versions, issued, clock) /\ ~ Fresh(x)
  BY <1>2, <1>3, <1>6, <1>8, AgainOK
<1>10. /\ UNCHANGED <<stored, versions, clock, issued>>
       /\ faults' \in 0 .. MaxFaults
       /\ calls' = [calls EXCEPT ![c] = x]
       /\ Cache(call.broker, call.version, call.group)
  BY <1>1, <1>7 DEF Relearn, CInv
<1> QED BY <1>3, <1>9, <1>10, CacheInv, SlotInv

LEMMA FailInv ==
  ASSUME CInv, NEW c \in Slots, Fail(c)
  PROVE  CInv'
<1>1. /\ UNCHANGED <<stored, versions, clock, issued, cache>>
      /\ faults' \in 0 .. MaxFaults
      /\ calls' = [calls EXCEPT ![c] = Idle]
  BY DEF Fail, CInv
<1> QED BY <1>1, SameCache, EndInv

LEMMA LoseInv ==
  ASSUME CInv, NEW c \in Slots, Lose(c)
  PROVE  CInv'
<1>1. faults' \in 0 .. MaxFaults
  BY CoordinatorAssumption DEF Lose, CInv
<1>2. /\ UNCHANGED <<stored, versions, clock, issued, cache>>
      /\ calls' = [calls EXCEPT ![c] = Idle]
  BY DEF Lose
<1> QED BY <1>1, <1>2, SameCache, EndInv

LEMMA LandedInv ==
  ASSUME CInv, NEW c \in Slots, Landed(c)
  PROVE  CInv'
<1>1. PICK call : call = calls[c]
  OBVIOUS
<1>2. InProgress(call, stored, versions, issued, clock) /\ call.stage = "stored"
  BY <1>1, SlotCall DEF Landed
<1>3. /\ Written(call, stored, versions, issued)
      /\ call.broker \in Brokers /\ call.op # "delete"
  BY <1>2 DEF InProgress, CallFields
<1>4. versions \in Nat
  BY CoordinatorAssumption DEF CInv, Sound
<1>5. Known(call.version, call.result.group, stored, versions, issued) /\ call.version # 0
  BY <1>3, <1>4 DEF Written, Known, CopiesOf
<1>6. /\ UNCHANGED <<stored, versions, clock, issued>>
      /\ faults' \in 0 .. MaxFaults
      /\ Cache(call.broker, call.version, call.result.group)
  BY <1>1 DEF Landed, CInv
<1>7. CachesOK(cache', stored, versions, issued, clock)
  BY <1>3, <1>5, <1>6, CacheInv
<1>8. CASE call.op = "commit" /\ call.result.reply.kind = "done"
  <2>1. PICK x : x = [call EXCEPT !.stage = "offsets", !.result = None, !.new = None]
    OBVIOUS
  <2>2. calls' = [calls EXCEPT ![c] = x]
    BY <1>1, <1>8, <2>1 DEF Landed
  <2>3. /\ x \in CallFields(x)
        /\ x.op = call.op /\ x.req = call.req /\ x.stage = "offsets"
        /\ x.max_age = call.max_age /\ x.from = call.from /\ x.version = call.version
    BY <1>2, <2>1 DEF InProgress, CallFields, Stages
  <2>4. Current(x, stored, versions)
    BY <1>2, <1>8, <2>3 DEF Current, InProgress
  <2>5. InProgress(x, stored, versions, issued, clock) /\ ~ Fresh(x)
    BY <1>2, <1>8, <2>3, <2>4 DEF InProgress, Fresh
  <2> QED BY <1>6, <1>7, <2>2, <2>5, SlotInv
<1>9. CASE ~ (call.op = "commit" /\ call.result.reply.kind = "done")
  <2>1. PICK result : result = call.result
    OBVIOUS
  <2>2. Finish(c, call, result)
    BY <1>1, <1>9, <2>1 DEF Landed
  <2>3. /\ call.op \in {"commit", "fence"} => result.reply.kind # "held"
        /\ call.op = "join" /\ result.reply.kind = "held" =>
            /\ result.reply.member \in DOMAIN issued
            /\ issued[result.reply.member] = call.req.group_instance_id
    BY <1>2, <1>3, <2>1 DEF InProgress, Current, Written
  <2>4. call.stage # "idle"
    BY <1>2
  <2> QED BY <1>1, <1>3, <1>6, <1>7, <2>2, <2>3, <2>4, FinishInv
<1> QED BY <1>8, <1>9

LEMMA StoreOffsetsInv ==
  ASSUME CInv, NEW c \in Slots, StoreOffsets(c)
  PROVE  CInv'
<1>1. /\ UNCHANGED <<stored, versions, clock, issued, cache>>
      /\ faults' \in 0 .. MaxFaults
      /\ calls' = [calls EXCEPT ![c] = Idle]
  BY DEF StoreOffsets, Answer, CInv
<1> QED BY <1>1, SameCache, EndInv

LEMMA RefuseInv ==
  ASSUME CInv, NEW c \in Slots, Refuse(c)
  PROVE  CInv'
<1>1. /\ UNCHANGED <<stored, versions, clock, issued, cache>>
      /\ faults' \in 0 .. MaxFaults
      /\ calls' = [calls EXCEPT ![c] = Idle]
  BY DEF Refuse, Answer, CInv
<1> QED BY <1>1, SameCache, EndInv

LEMMA DecideInv ==
  ASSUME CInv, NEW c \in Slots, Decide(c)
  PROVE  CInv'
<1>1. PICK call : call = calls[c]
  OBVIOUS
<1>2. InProgress(call, stored, versions, issued, clock) /\ call.stage = "run" /\ call.op = "delete"
  BY <1>1, SlotCall DEF Decide
<1>3. PICK x : x = [call EXCEPT !.stage = "delete", !.group = None]
  OBVIOUS
<1>4. /\ UNCHANGED <<stored, versions, clock, issued, cache>>
      /\ faults' \in 0 .. MaxFaults
      /\ calls' = [calls EXCEPT ![c] = x]
  BY <1>1, <1>3 DEF Decide, CInv
<1>5. x \in CallFields(x) /\ x.op = call.op /\ x.req = call.req /\ x.stage = "delete"
  BY <1>2, <1>3 DEF InProgress, CallFields, Stages
<1>6. InProgress(x, stored, versions, issued, clock) /\ ~ Fresh(x)
  BY <1>2, <1>5 DEF InProgress, Fresh
<1> QED BY <1>4, <1>6, SameCache, SlotInv

LEMMA ForgetInv ==
  ASSUME CInv, NEW c \in Slots, Forget(c)
  PROVE  CInv'
<1>1. calls[c].broker \in Brokers
  BY SlotCall DEF Forget, InProgress, CallFields
<1>2. CachesOK(cache', stored, versions, issued, clock)
  BY <1>1, ForgetCache, SameCache DEF Forget
<1>3. /\ UNCHANGED <<stored, versions, clock, issued>>
      /\ faults' \in 0 .. MaxFaults
      /\ calls' = [calls EXCEPT ![c] = Idle]
  BY DEF Forget, Answer, CInv
<1> QED BY <1>2, <1>3, EndInv

LEMMA CrashInv ==
  ASSUME CInv, NEW b \in Brokers, Crash(b)
  PROVE  CInv'
<1>1. UNCHANGED <<stored, versions, clock, issued>> /\ faults' \in 0 .. MaxFaults
  BY CoordinatorAssumption DEF Crash, CInv
<1>2. CachesOK(cache', stored, versions, issued, clock)
  BY ForgetCache DEF Crash
<1>3. CallsOK(calls, stored, versions, issued, clock)
  BY DEF CInv
<1>4. /\ calls' = [c \in Slots |-> calls'[c]]
      /\ \A c \in Slots : calls'[c] = Idle \/ calls'[c] = calls[c]
  BY DEF Crash
<1>5. CallsOK(calls', stored, versions, issued, clock)
  BY <1>3, <1>4, IdleNotFresh DEF CallsOK
<1> QED BY <1>1, <1>2, <1>5 DEF CInv

(***************************************************************************)
(* Steps that change storage, or the time.                                 *)
(***************************************************************************)
LEMMA Bounds ==
  ASSUME CInv
  PROVE  /\ clock \in Nat /\ versions \in Nat /\ stored.version \in Nat
         /\ stored.version <= versions /\ MaxTime \in Nat /\ MaxVersion \in Nat
BY CoordinatorAssumption DEF CInv, Sound

LEMMA CachesKept ==
  ASSUME CInv, NEW st, NEW vs, NEW ids, NEW now \in Nat, clock <= now,
         Advances(stored, versions, issued, st, vs, ids)
  PROVE  CachesOK(cache, st, vs, ids, now)
<1>1. CachesOK(cache, stored, versions, issued, clock) /\ clock \in Nat
  BY Bounds DEF CInv
<1>2. \A b \in Brokers : cache[b] # None => Learned(cache[b], st, vs, ids, now)
  BY <1>1, LearnedKept DEF CachesOK
<1> QED BY <1>1, <1>2 DEF CachesOK

LEMMA CallKept ==
  ASSUME CInv, NEW st, NEW vs, NEW ids, NEW now \in Nat, clock <= now,
         Advances(stored, versions, issued, st, vs, ids),
         NEW c \in Slots, Fresh(calls[c]) => calls[c].new \notin DOMAIN ids
  PROVE  calls[c] = Idle \/ InProgress(calls[c], st, vs, ids, now)
<1>1. clock \in Nat
  BY Bounds
<1>2. calls[c] = Idle \/ InProgress(calls[c], stored, versions, issued, clock)
  BY DEF CInv, CallsOK
<1>3. PICK call : call = calls[c]
  OBVIOUS
<1>4. InProgress(call, stored, versions, issued, clock) => InProgress(call, st, vs, ids, now)
  BY <1>1, <1>3, InProgressKept
<1> QED BY <1>2, <1>3, <1>4

\* The new id of a join that is still to be stored is nobody's.
LEMMA FreshUnissued ==
  ASSUME CInv, NEW c \in Slots, Fresh(calls[c])
  PROVE  calls[c].new \notin DOMAIN issued
<1>1. InProgress(calls[c], stored, versions, issued, clock)
  BY SlotCall DEF Fresh
<1> QED BY <1>1 DEF InProgress, Pending, JoinsAs, Fresh

LEMMA TickInv ==
  ASSUME CInv, Tick
  PROVE  CInv'
<1>1. clock' \in 0 .. MaxTime /\ clock' \in Nat /\ clock <= clock'
  BY Bounds DEF Tick
<1>2. UNCHANGED <<stored, versions, issued, cache, calls, faults>>
  BY DEF Tick
<1>3. Advances(stored, versions, issued, stored, versions, issued)
  BY Bounds DEF Advances, KeepsIds
<1>4. CachesOK(cache, stored, versions, issued, clock')
  BY <1>1, <1>3, CachesKept
<1>5. \A c \in Slots : calls[c] = Idle \/ InProgress(calls[c], stored, versions, issued, clock')
  BY <1>1, <1>3, CallKept, FreshUnissued
<1>6. CallsOK(calls, stored, versions, issued, clock')
  BY <1>5 DEF CInv, CallsOK
<1> QED BY <1>1, <1>2, <1>4, <1>6 DEF CInv

\* A step of one request that changes storage.
LEMMA StorageInv ==
  ASSUME CInv, Sound(stored', versions', issued'), UNCHANGED <<cache, clock, faults>>,
         Advances(stored, versions, issued, stored', versions', issued'),
         NEW c \in Slots, NEW x, calls' = [calls EXCEPT ![c] = x],
         InProgress(x, stored', versions', issued', clock), ~ Fresh(x),
         \A d \in Slots \ {c} : Fresh(calls[d]) => calls[d].new \notin DOMAIN issued'
  PROVE  CInv'
<1>1. PICK st, vs, ids : st = stored' /\ vs = versions' /\ ids = issued'
  OBVIOUS
<1>2. clock \in Nat /\ clock <= clock
  BY Bounds
<1>3. CachesOK(cache, st, vs, ids, clock)
  BY <1>1, <1>2, CachesKept
<1>4. \A d \in Slots \ {c} : calls[d] = Idle \/ InProgress(calls[d], st, vs, ids, clock)
  BY <1>1, <1>2, CallKept
<1>5. CallsOK(calls, stored, versions, issued, clock)
  BY DEF CInv
<1>6. /\ calls' = [d \in Slots |-> calls'[d]]
      /\ calls'[c] = x
      /\ \A d \in Slots \ {c} : calls'[d] = calls[d]
  BY <1>5 DEF CallsOK
<1>7. CallsOK(calls', st, vs, ids, clock)
  BY <1>1, <1>4, <1>5, <1>6 DEF CallsOK
<1> QED BY <1>1, <1>3, <1>7 DEF CInv

\* What the write of a request is made from.
LEMMA StoreParts ==
  ASSUME CInv, NEW c \in Slots, calls[c].stage = "store"
  PROVE  LET call == calls[c]
             more == IdsAfter(call, issued, call.result.reply, call.new)
         IN  /\ call.op \in {"join", "sync", "heartbeat", "leave", "commit", "fence"}
             /\ IsRequest(call.op, call.req, issued)
             /\ call.op = "join" => JoinsAs(call.req, call.new, issued)
             /\ OK(call.result.group)
             /\ IdsIssued(call.result.group, more)
             /\ IsMap(more, MemberIds, Instances \cup {None})
             /\ KeepsIds(issued, more)
             /\ call.op = "join" /\ call.result.reply.kind = "held" =>
                    call.result.reply.member = call.new
             /\ call.op \in {"commit", "fence"} => call.result.reply.kind # "held"
             /\ call.result.group.generation_id <= MaxGeneration
<1>1. PICK call : call = calls[c]
  OBVIOUS
<1>2. InProgress(call, stored, versions, issued, clock) /\ call.stage = "store"
  BY <1>1, SlotCall
<1>3. Pending(call, stored, versions, issued, clock)
  BY <1>2 DEF InProgress
<1>4. /\ call.op \in {"join", "sync", "heartbeat", "leave", "commit", "fence"}
      /\ IsRequest(call.op, call.req, issued)
  BY <1>2, CoordinatorAssumption DEF InProgress, CallFields
<1>5. /\ call.op = "join" => JoinsAs(call.req, call.new, issued)
      /\ call.result.group.generation_id <= MaxGeneration
  BY <1>3 DEF Pending
<1>6. PICK g : \E t \in 0 .. clock : /\ Known(call.version, g, stored, versions, issued)
                                     /\ call.result = Outcome(call, g, t, call.new)
  BY <1>3 DEF Pending
<1>7. PICK t \in 0 .. clock : /\ Known(call.version, g, stored, versions, issued)
                              /\ call.result = Outcome(call, g, t, call.new)
  BY <1>6
<1>8. OK(g) /\ IdsIssued(g, issued) /\ t \in Nat /\ IsMap(issued, MemberIds, Instances \cup {None})
  BY <1>7 DEF Known, CInv, Sound
<1>9. PICK r : r = Outcome(call, g, t, call.new)
  OBVIOUS
<1> DEFINE more == IdsAfter(call, issued, r.reply, call.new)
<1>10. /\ OK(r.group)
       /\ IdsIssued(r.group, more)
       /\ IsMap(more, MemberIds, Instances \cup {None})
       /\ KeepsIds(issued, more)
       /\ call.op = "join" /\ r.reply.kind = "held" => r.reply.member = call.new
       /\ call.op \in {"commit", "fence"} => r.reply.kind # "held"
  BY <1>4, <1>5, <1>8, <1>9, OutcomeOK
<1>11. call.result = r
  BY <1>7, <1>9
<1> HIDE DEF more
<1> QED BY <1>1, <1>4, <1>5, <1>10, <1>11 DEF more

\* The ids that Store gives out.
LEMMA StoreIssues ==
  ASSUME CInv, NEW c \in Slots, Store(c)
  PROVE  issued' = IdsAfter(calls[c], issued, calls[c].result.reply, calls[c].new)
<1>1. PICK call : call = calls[c]
  OBVIOUS
<1>2. issued' = IF call.op = "join" /\ call.result.reply.member = call.new
                THEN Insert(issued, call.new, call.req.group_instance_id) ELSE issued
  BY <1>1 DEF Store
<1> QED BY <1>1, <1>2 DEF IdsAfter, WithReply

LEMMA StoreInv ==
  ASSUME CInv, NEW c \in Slots, Store(c)
  PROVE  CInv'
<1>1. PICK call : call = calls[c]
  OBVIOUS
<1>2. InProgress(call, stored, versions, issued, clock) /\ call.stage = "store"
  BY <1>1, SlotCall DEF Store
<1> DEFINE more == IdsAfter(call, issued, call.result.reply, call.new)
<1>3. /\ call.op \in {"join", "sync", "heartbeat", "leave", "commit", "fence"}
      /\ call.op = "join" => JoinsAs(call.req, call.new, issued)
      /\ OK(call.result.group)
      /\ IdsIssued(call.result.group, more)
      /\ IsMap(more, MemberIds, Instances \cup {None})
      /\ KeepsIds(issued, more)
      /\ call.op = "join" /\ call.result.reply.kind = "held" => call.result.reply.member = call.new
      /\ call.op \in {"commit", "fence"} => call.result.reply.kind # "held"
      /\ call.result.group.generation_id <= MaxGeneration
  BY <1>1, <1>2, StoreParts
<1>4. issued' = more
  BY <1>1, StoreIssues
<1>5. PICK v : v = versions + 1
  OBVIOUS
<1>6. /\ stored' = [version |-> v, group |-> call.result.group]
      /\ versions' = v
      /\ versions < MaxVersion
      /\ UNCHANGED <<cache, clock, faults>>
  BY <1>1, <1>5 DEF Store
<1>7. v \in Nat /\ v > versions /\ v \in 0 .. MaxVersion /\ v # 0
  BY <1>5, <1>6, Bounds
<1>8. PICK x : x = [call EXCEPT !.stage = "stored", !.version = v]
  OBVIOUS
<1>9. calls' = [calls EXCEPT ![c] = x]
  BY <1>1, <1>5, <1>8 DEF Store
<1>10. /\ x \in CallFields(x)
       /\ x.op = call.op /\ x.req = call.req /\ x.stage = "stored" /\ x.version = v
       /\ x.result = call.result /\ x.max_age = call.max_age /\ x.from = call.from
  BY <1>2, <1>7, <1>8 DEF InProgress, CallFields, Stages
<1>11. PICK st : st = stored'
  OBVIOUS
<1>12. st.version = v /\ st.group = call.result.group
  BY <1>6, <1>11
<1>13. call.op = "join" /\ call.result.reply.kind = "held" =>
            /\ call.result.reply.member \in DOMAIN more
            /\ more[call.result.reply.member] = call.req.group_instance_id
  BY <1>3 DEF IdsAfter, WithReply, Insert
<1>14. call.op # "join" \/ call.result.reply.member # call.new => more = issued
  BY DEF IdsAfter, WithReply
<1>15. DOMAIN more \subseteq DOMAIN issued \cup (IF call.op = "join" THEN {call.new} ELSE {})
  BY DEF IdsAfter, WithReply, Insert
<1> HIDE DEF more
<1>16. Sound(st, v, more)
  BY <1>3, <1>7, <1>12 DEF Sound
<1>17. Advances(stored, versions, issued, st, v, more)
  BY <1>3, <1>7, <1>12, Bounds DEF Advances
<1>18. Written(x, st, v, more)
  BY <1>3, <1>7, <1>10, <1>12, <1>13 DEF Written
<1>19. x.op \in {"heartbeat", "leave", "commit", "fence"} => Current(x, st, v)
  <2> SUFFICES ASSUME x.op \in {"heartbeat", "leave", "commit", "fence"}
               PROVE  Current(x, st, v)
    OBVIOUS
  <2>1. Current(call, stored, versions)
    BY <1>2, <1>10 DEF InProgress
  <2>2. x.from \in 0 .. v /\ v >= x.from
    BY <1>7, <1>10, <2>1, Bounds DEF Current
  <2> QED BY <1>3, <1>10, <1>12, <2>1, <2>2 DEF Current
<1>20. IsRequest(x.op, x.req, more)
  BY <1>2, <1>3, <1>10, RequestKept DEF InProgress
<1>21. InProgress(x, st, v, more, clock) /\ ~ Fresh(x)
  BY <1>3, <1>10, <1>18, <1>19, <1>20 DEF InProgress, Fresh
<1>22. ASSUME NEW d \in Slots \ {c}, Fresh(calls[d])
       PROVE  calls[d].new \notin DOMAIN more
  <2>1. calls[d].new \notin DOMAIN issued
    BY <1>22, FreshUnissued
  <2>2. CASE Fresh(call)
    <3>1. calls[d].new # call.new
      BY <1>1, <1>22, <2>2 DEF CInv, CallsOK
    <3> QED BY <1>15, <2>1, <3>1
  <2>3. CASE ~ Fresh(call)
    <3>1. call.op = "join" => call.new \in DOMAIN issued
      BY <1>2, <1>3, <2>3 DEF Fresh, JoinsAs
    <3> QED BY <1>15, <2>1, <3>1
  <2> QED BY <2>2, <2>3
<1> QED BY <1>4, <1>6, <1>9, <1>11, <1>16, <1>17, <1>21, <1>22, StorageInv

LEMMA DeleteInv ==
  ASSUME CInv, NEW c \in Slots, Delete(c)
  PROVE  CInv'
<1>1. PICK call : call = calls[c]
  OBVIOUS
<1>2. InProgress(call, stored, versions, issued, clock) /\ call.stage = "delete"
  BY <1>1, SlotCall DEF Delete
<1>3. call.op = "delete"
  BY <1>2 DEF InProgress
<1>4. PICK st : st = [version |-> 0, group |-> NewGroup]
  OBVIOUS
<1>5. stored' = st /\ UNCHANGED <<versions, issued, cache, clock, faults>>
  BY <1>4 DEF Delete
<1>6. PICK x : x = [call EXCEPT !.stage = "deleted", !.version = stored.version]
  OBVIOUS
<1>7. calls' = [calls EXCEPT ![c] = x]
  BY <1>1, <1>6 DEF Delete
<1>8. x \in CallFields(x) /\ x.op = call.op /\ x.req = call.req /\ x.stage = "deleted"
  BY <1>2, <1>6, Bounds DEF InProgress, CallFields, Stages
<1>9. InProgress(x, st, versions, issued, clock) /\ ~ Fresh(x)
  BY <1>2, <1>3, <1>8 DEF InProgress, Fresh
<1>10. st.version = 0 /\ st.group = NewGroup
  BY <1>4
<1>11. Advances(stored, versions, issued, st, versions, issued)
  BY <1>10, Bounds DEF Advances, KeepsIds
<1>12. Sound(st, versions, issued)
  <2>1. IdsIssued(NewGroup, issued) /\ OK(NewGroup)
    BY NewGroupOK DEF IdsIssued
  <2>2. NewGroup.generation_id <= MaxGeneration
    BY CoordinatorAssumption DEF NewGroup
  <2> QED BY <1>10, <2>1, <2>2, Bounds DEF Sound, CInv
<1> QED BY <1>5, <1>7, <1>9, <1>11, <1>12, FreshUnissued, StorageInv

LEMMA CInit == Init => CInv
<1> SUFFICES ASSUME Init PROVE CInv
  OBVIOUS
<1>1. Sound(stored, versions, issued)
  <2>1. IsMap(issued, MemberIds, Instances \cup {None})
    BY DEF Init, IsMap, NoEntries
  <2>2. IdsIssued(NewGroup, issued) /\ OK(NewGroup)
    BY NewGroupOK DEF IdsIssued
  <2>3. NewGroup.generation_id <= MaxGeneration
    BY CoordinatorAssumption DEF NewGroup
  <2>4. stored.version = 0 /\ stored.group = NewGroup /\ versions = 0
    BY DEF Init
  <2> QED BY <2>1, <2>2, <2>3, <2>4, CoordinatorAssumption DEF Sound
<1>2. CachesOK(cache, stored, versions, issued, clock)
  BY DEF Init, CachesOK
<1>3. CallsOK(calls, stored, versions, issued, clock)
  BY IdleNotFresh DEF Init, CallsOK
<1> QED BY <1>1, <1>2, <1>3, CoordinatorAssumption DEF Init, CInv

LEMMA CNext == CInv /\ [Next]_coordinatorVars => CInv'
<1> SUFFICES ASSUME CInv, [Next]_coordinatorVars PROVE CInv'
  OBVIOUS
<1>1. CASE Tick
  BY <1>1, TickInv
<1>2. ASSUME NEW c \in Slots, Step(c) PROVE CInv'
  BY <1>2, SendInv, ReadInv, RunInv, StoreInv, OutdatedInv, RelearnInv, FailInv, LoseInv,
     LandedInv, StoreOffsetsInv, RefuseInv, DecideInv, DeleteInv, ForgetInv DEF Step
<1>3. ASSUME NEW b \in Brokers, Crash(b) PROVE CInv'
  BY <1>3, CrashInv
<1>4. CASE UNCHANGED coordinatorVars
  BY <1>4 DEF coordinatorVars, CInv
<1> QED BY <1>1, <1>2, <1>3, <1>4 DEF Next

\* Whatever the brokers do, fail at or forget: every group that one of them holds
\* is one that storage held with that version, and every write that is under way
\* is what the request makes of such a group.
THEOREM CoordinatorInvariant == Spec => []CInv
BY CInit, CNext, PTL DEF Spec

\* Storage, the caches and the requests in progress always hold groups and requests.
THEOREM CoordinatorTypeCorrect == Spec => []TypeOK
<1>1. CInv => TypeOK
  <2> SUFFICES ASSUME CInv PROVE TypeOK
    OBVIOUS
  <2>1. ASSUME NEW b \in Brokers, cache[b] # None PROVE IsLearned(cache[b])
    <3>1. Learned(cache[b], stored, versions, issued, clock)
      BY <2>1 DEF CInv, CachesOK
    <3> QED BY <3>1 DEF Learned, IsLearned, Known, OK
  <2>2. ASSUME NEW c \in Slots, calls[c].stage # "idle"
        PROVE  calls[c].op \in Ops /\ calls[c].broker \in Brokers /\ calls[c].stage \in Stages
    BY <2>2, SlotCall DEF InProgress, CallFields
  <2>3. /\ versions \in 0 .. MaxVersion
        /\ stored.version \in 0 .. versions
        /\ IsGroup(stored.group)
        /\ IsMap(issued, MemberIds, Instances \cup {None})
    BY DEF CInv, Sound, OK
  <2> QED BY <2>1, <2>2, <2>3 DEF TypeOK, CInv
<1> QED BY <1>1, CoordinatorInvariant, PTL

\* A broker that knows the version in storage knows the group in storage, however
\* late its reads come back, whichever writes it lost and whoever deleted the group.
THEOREM CachesAlwaysTrue == Spec => []CacheIsTrue
<1>1. CInv => CacheIsTrue
  BY DEF CInv, CachesOK, Learned, Known, CopiesOf, CacheIsTrue
<1> QED BY <1>1, CoordinatorInvariant, PTL

(***************************************************************************)
(* No stale answers.                                                       *)
(***************************************************************************)
\* The action of NoStaleAnswer.
FreshAnswer(c) ==
    /\ calls[c].stage \notin {"idle", "store"}
    /\ calls'[c].stage = "idle"
    /\ faults' = faults
    /\ calls[c].op \in {"heartbeat", "leave", "commit", "fence"}
    => calls[c].version = 0 \/ calls[c].version >= calls[c].from

\* The step of a slot leaves the other slots alone.
LEMMA OtherSlots ==
  ASSUME CInv, NEW c \in Slots, NEW d \in Slots, Step(d), c # d
  PROVE  calls'[c] = calls[c]
<1>1. calls = [e \in Slots |-> calls[e]]
  BY DEF CInv, CallsOK
<1> DEFINE S(x) == calls' = [calls EXCEPT ![d] = x]
<1>2. \A x : S(x) => calls'[c] = calls[c]
  BY <1>1
<1>3. \E x : S(x)
  <2> HIDE DEF S
  <2>1. \A r, e : Answer(d, r) => S(Idle)
    BY DEF Answer, S
  <2>2. \A call, r : Finish(d, call, r) => \E x : S(x)
    BY DEF Finish, Hold, Answer, S
  <2>3. \A call, r : RunUnchanged(d, call, r) => \E x : S(x)
    BY <2>2 DEF RunUnchanged, S
  <2>4. Run(d) => \E x : S(x)
    BY <2>3 DEF Run, S
  <2>5. Landed(d) => \E x : S(x)
    BY <2>2 DEF Landed, S
  <2>6. Send(d) \/ Read(d) => \E x : S(x)
    BY DEF Send, Read, S
  <2>7. Store(d) \/ Outdated(d) \/ Relearn(d) \/ Fail(d) \/ Lose(d) => \E x : S(x)
    BY DEF Store, Outdated, Relearn, Fail, Lose, S
  <2>8. StoreOffsets(d) \/ Refuse(d) \/ Decide(d) \/ Delete(d) \/ Forget(d) => \E x : S(x)
    BY DEF StoreOffsets, Refuse, Decide, Delete, Forget, Answer, S
  <2> QED BY <2>4, <2>5, <2>6, <2>7, <2>8 DEF Step
<1> QED BY <1>2, <1>3

LEMMA OwnSlot ==
  ASSUME CInv, NEW c \in Slots, Step(c)
  PROVE  FreshAnswer(c)
<1> SUFFICES ASSUME calls[c].stage \notin {"idle", "store"}, calls'[c].stage = "idle",
                    faults' = faults,
                    calls[c].op \in {"heartbeat", "leave", "commit", "fence"}
             PROVE  calls[c].version = 0 \/ calls[c].version >= calls[c].from
  BY DEF FreshAnswer
<1>1. PICK call : call = calls[c]
  OBVIOUS
<1>2. InProgress(call, stored, versions, issued, clock)
  BY <1>1, SlotCall
<1>3. /\ Current(call, stored, versions) /\ call \in CallFields(call)
      /\ call.op # "delete" /\ call.stage \notin {"delete", "deleted"}
  BY <1>1, <1>2 DEF InProgress
<1>4. \A x : calls' = [calls EXCEPT ![c] = x] => x.stage = "idle"
  BY DEF CInv, CallsOK
<1>5. CASE call.stage \in {"stored", "offsets"}
  BY <1>1, <1>3, <1>5 DEF Current
<1>6. CASE call.stage = "read"
  <2>1. Read(c)
    BY <1>1, <1>6 DEF Step, Send, Run, Store, Outdated, Relearn, Fail, Lose, Landed, StoreOffsets,
       Refuse, Decide, Delete, Forget
  <2>2. recent_group(call).stage = "idle"
    BY <1>1, <1>4, <2>1 DEF Read
  <2>3. recent_group(call).stage = "run"
    BY <1>3 DEF recent_group, CallFields
  <2> QED BY <2>2, <2>3
<1>7. faults \in Nat
  BY CoordinatorAssumption DEF CInv
<1>8. CASE call.stage = "outdated"
  <2>1. Relearn(c)
    BY <1>1, <1>7, <1>8 DEF Step, Send, Read, Run, Store, Outdated, Fail, Lose, Landed,
       StoreOffsets, Refuse, Decide, Delete, Forget
  <2>2. Retry(call).stage = "idle"
    BY <1>1, <1>4, <2>1 DEF Relearn
  <2>3. Retry(call).stage = "read"
    BY <1>3 DEF Retry, Again, CallFields
  <2> QED BY <2>2, <2>3
<1>9. CASE call.stage = "run"
  <2>1. Run(c)
    BY <1>1, <1>3, <1>7, <1>9 DEF Step, Send, Read, Store, Outdated, Relearn, Fail, Lose, Landed,
       StoreOffsets, Refuse, Decide, Delete, Forget
  <2>2. CASE call.source = "storage"
    BY <1>1, <1>3, <1>9, <2>2 DEF Current
  <2>3. CASE call.source = "cache"
    <3>1. call.op \in {"heartbeat", "leave"}
      BY <1>1, <1>3, <1>9, <2>3 DEF Current
    <3>2. PICK new \in FreshIds(call) :
            LET result == Outcome(call, call.group, clock, new)
            IN  IF Unchanged(call, result) THEN RunUnchanged(c, call, result)
                ELSE /\ result.group.generation_id <= MaxGeneration
                     /\ calls' = [calls EXCEPT
                                    ![c] = [@ EXCEPT !.stage = "store", !.new = new,
                                                     !.group = None, !.source = None,
                                                     !.result = result]]
                     /\ UNCHANGED told
      BY <1>1, <2>1 DEF Run
    <3>3. PICK result : result = Outcome(call, call.group, clock, new)
      OBVIOUS
    <3>4. CASE Unchanged(call, result)
      <4>1. PICK x : x = Again(call, "zero")
        OBVIOUS
      <4>2. calls' = [calls EXCEPT ![c] = x]
        BY <2>3, <3>1, <3>2, <3>3, <3>4, <4>1 DEF RunUnchanged
      <4>3. x.stage = "read"
        BY <1>3, <4>1 DEF Again, CallFields
      <4> QED BY <1>4, <4>2, <4>3
    <3>5. CASE ~ Unchanged(call, result)
      <4>1. PICK x : x = [call EXCEPT !.stage = "store", !.new = new, !.group = None,
                                      !.source = None, !.result = result]
        OBVIOUS
      <4>2. calls' = [calls EXCEPT ![c] = x]
        BY <1>1, <3>2, <3>3, <3>5, <4>1
      <4>3. x.stage = "store"
        BY <1>3, <4>1 DEF CallFields
      <4> QED BY <1>4, <4>2, <4>3
    <3> QED BY <3>4, <3>5
  <2> QED BY <1>3, <1>9, <2>2, <2>3 DEF Current
<1>10. call.stage \in Stages
  BY <1>3 DEF CallFields
<1> QED BY <1>1, <1>3, <1>5, <1>6, <1>8, <1>9, <1>10 DEF Stages

LEMMA NextFresh ==
  ASSUME CInv, [Next]_coordinatorVars, NEW c \in Slots
  PROVE  FreshAnswer(c)
<1>1. CASE Tick \/ UNCHANGED coordinatorVars
  BY <1>1 DEF Tick, coordinatorVars, FreshAnswer
<1>2. ASSUME NEW d \in Slots, Step(d) PROVE FreshAnswer(c)
  <2>1. CASE c = d
    BY <1>2, <2>1, OwnSlot
  <2>2. CASE c # d
    BY <1>2, <2>2, OtherSlots DEF FreshAnswer
  <2> QED BY <2>1, <2>2
<1>3. ASSUME NEW b \in Brokers, Crash(b) PROVE FreshAnswer(c)
  <2>1. faults' # faults
    BY <1>3, CoordinatorAssumption DEF Crash, CInv
  <2> QED BY <2>1 DEF FreshAnswer
<1> QED BY <1>1, <1>2, <1>3 DEF Next

\* However old the cache of the broker that it reaches, a heartbeat, a leave or a
\* commit that is answered was run on a group no older than the request.
THEOREM AlwaysFreshAnswers == Spec => NoStaleAnswer
<1> DEFINE A == \A c \in Slots :
                    /\ calls[c].stage \notin {"idle", "store"}
                    /\ calls'[c].stage = "idle"
                    /\ faults' = faults
                    /\ calls[c].op \in {"heartbeat", "leave", "commit", "fence"}
                    => calls[c].version = 0 \/ calls[c].version >= calls[c].from
<1>1. CInv /\ [Next]_coordinatorVars => A
  BY NextFresh DEF FreshAnswer
<1> QED BY <1>1, CoordinatorInvariant, PTL DEF Spec, NoStaleAnswer

(***************************************************************************)
(* The group is atomic.  The operators of ClassicGroup are those of the    *)
(* group that Atomic names: an instance has definitions of its own, equal  *)
(* to the ones it is made from.                                            *)
(***************************************************************************)
LEMMA SameNoEntries == Atomic!NoEntries = NoEntries
BY DEF Atomic!NoEntries, NoEntries

LEMMA SameNewGroup == Atomic!NewGroup = NewGroup
BY SameNoEntries DEF Atomic!NewGroup, NewGroup

LEMMA SameInsert == \A f, k, v : Atomic!Insert(f, k, v) = Insert(f, k, v)
BY DEF Atomic!Insert, Insert

LEMMA SameRemove == \A f, S : Atomic!Remove(f, S) = Remove(f, S)
BY DEF Atomic!Remove, Remove, Atomic!Restrict, Restrict

LEMMA SameRename == \A f, m, n : Atomic!Rename(f, m, n) = Rename(f, m, n)
BY SameInsert, SameRemove DEF Atomic!Rename, Rename

LEMMA SameFirst == \A S : Atomic!First(S) = First(S)
BY DEF Atomic!First, First, Atomic!Min, Min

LEMMA SameSessionTimeout == \A g : Atomic!session_timeout(g) = session_timeout(g)
BY DEF Atomic!session_timeout, session_timeout

LEMMA SameRebalanceTimeout == \A g : Atomic!rebalance_timeout(g) = rebalance_timeout(g)
BY SameSessionTimeout DEF Atomic!rebalance_timeout, rebalance_timeout

LEMMA SameStaticMemberId == \A g, i : Atomic!static_member_id(g, i) = static_member_id(g, i)
BY SameFirst DEF Atomic!static_member_id, static_member_id

LEMMA SameValidateMember ==
  \A g, m, i : Atomic!validate_member(g, m, i) = validate_member(g, m, i)
BY SameStaticMemberId DEF Atomic!validate_member, validate_member

LEMMA SameHasJoinedWith ==
  \A g, m, d : Atomic!has_joined_with(g, m, d) <=> has_joined_with(g, m, d)
BY DEF Atomic!has_joined_with, has_joined_with

LEMMA SameContact == \A g, S, now : Atomic!contact(g, S, now) = contact(g, S, now)
BY DEF Atomic!contact, contact

LEMMA SameUpsertMember ==
  \A g, now, m, req : Atomic!upsert_member(g, now, m, req) = upsert_member(g, now, m, req)
BY SameInsert DEF Atomic!upsert_member, upsert_member, Atomic!Max, Max

LEMMA SameForgetPendingMembers ==
  \A g, now : Atomic!forget_pending_members(g, now) = forget_pending_members(g, now)
BY SameRemove DEF Atomic!forget_pending_members, forget_pending_members

LEMMA SameWaiting == \A g : Atomic!waiting(g) = waiting(g)
BY DEF Atomic!waiting, waiting

LEMMA SameRemoveExpiredMembers ==
  \A g, now : Atomic!remove_expired_members(g, now) = remove_expired_members(g, now)
BY SameRemove, SameWaiting, SameSessionTimeout DEF Atomic!remove_expired_members,
   remove_expired_members

LEMMA SameForgetPendingSync ==
  \A g, S : Atomic!forget_pending_sync(g, S) = forget_pending_sync(g, S)
BY DEF Atomic!forget_pending_sync, forget_pending_sync

LEMMA SameRemoveMembersPendingSync ==
  \A g, now : Atomic!remove_members_pending_sync(g, now) = remove_members_pending_sync(g, now)
BY SameRemove DEF Atomic!remove_members_pending_sync, remove_members_pending_sync

LEMMA SameIsCompletingRebalance ==
  \A g : Atomic!is_completing_rebalance(g) <=> is_completing_rebalance(g)
BY DEF Atomic!is_completing_rebalance, is_completing_rebalance

LEMMA SameForgetRemovedMembers ==
  \A g : Atomic!forget_removed_members(g) = forget_removed_members(g)
BY SameFirst DEF Atomic!forget_removed_members, forget_removed_members

LEMMA SameRemoveExpired == \A g, now : Atomic!remove_expired(g, now) = remove_expired(g, now)
BY SameRemoveExpiredMembers, SameForgetRemovedMembers DEF Atomic!remove_expired,
   remove_expired

LEMMA SameSynced == \A g : Atomic!synced(g) = synced(g)
BY DEF Atomic!synced, synced

LEMMA SameRestartSessionsOfSyncedMembers ==
  \A g, now :
    Atomic!restart_sessions_of_synced_members(g, now)
        = restart_sessions_of_synced_members(g, now)
BY SameContact, SameSynced DEF Atomic!restart_sessions_of_synced_members,
   restart_sessions_of_synced_members

LEMMA SameStartJoinPhase ==
  \A g, now : Atomic!start_join_phase(g, now) = start_join_phase(g, now)
BY SameRebalanceTimeout DEF Atomic!start_join_phase, start_join_phase

LEMMA SamePrepareRebalance ==
  \A g, now : Atomic!prepare_rebalance(g, now) = prepare_rebalance(g, now)
BY SameStartJoinPhase, SameIsCompletingRebalance, SameRestartSessionsOfSyncedMembers DEF
   Atomic!prepare_rebalance, prepare_rebalance

LEMMA SamePrepareInitialRebalance ==
  \A g, now : Atomic!prepare_initial_rebalance(g, now) = prepare_initial_rebalance(g, now)
BY SameRebalanceTimeout DEF Atomic!prepare_initial_rebalance, prepare_initial_rebalance,
   Atomic!Max, Max

LEMMA SameAllMembersJoined == \A g : Atomic!all_members_joined(g) <=> all_members_joined(g)
BY DEF Atomic!all_members_joined, all_members_joined

LEMMA SameWaitForStaticMembers ==
  \A g, now : Atomic!wait_for_static_members(g, now) = wait_for_static_members(g, now)
BY SameRebalanceTimeout DEF Atomic!wait_for_static_members, wait_for_static_members

LEMMA SameBecomeEmpty == \A g : Atomic!become_empty(g) = become_empty(g)
BY DEF Atomic!become_empty, become_empty

LEMMA SameStartGeneration ==
  \A g, now : Atomic!start_generation(g, now) = start_generation(g, now)
BY SameContact, SameFirst, SameRebalanceTimeout DEF Atomic!start_generation, start_generation

LEMMA SameCompleteJoin == \A g, now : Atomic!complete_join(g, now) = complete_join(g, now)
BY SameBecomeEmpty, SameWaitForStaticMembers, SameStartGeneration DEF Atomic!complete_join,
   complete_join, Atomic!Restrict, Restrict

LEMMA SameCompleteJoinIfAllJoined ==
  \A g, now : Atomic!complete_join_if_all_joined(g, now) = complete_join_if_all_joined(g, now)
BY SameAllMembersJoined, SameCompleteJoin DEF Atomic!complete_join_if_all_joined,
   complete_join_if_all_joined

LEMMA SameCompleteJoinIfAllJoinedAfterJoin ==
  \A g, now :
    Atomic!complete_join_if_all_joined_after_join(g, now)
        = complete_join_if_all_joined_after_join(g, now)
BY SameCompleteJoinIfAllJoined DEF Atomic!complete_join_if_all_joined_after_join,
   complete_join_if_all_joined_after_join

LEMMA SameExtendsDelay == \A j : Atomic!extends_delay(j) <=> extends_delay(j)
BY DEF Atomic!extends_delay, extends_delay

LEMMA SameExtendDelay == \A j : Atomic!extend_delay(j) = extend_delay(j)
BY DEF Atomic!extend_delay, extend_delay, Atomic!Min, Min, Atomic!Max, Max

LEMMA SameEndJoinPhaseAfterDeadline ==
  \A g, now :
    Atomic!end_join_phase_after_deadline(g, now)
        = end_join_phase_after_deadline(g, now)
BY SameExtendsDelay, SameExtendDelay, SameCompleteJoin DEF
   Atomic!end_join_phase_after_deadline, end_join_phase_after_deadline

LEMMA SameIntoPreparingRebalance ==
  \A g, now : Atomic!into_preparing_rebalance(g, now) = into_preparing_rebalance(g, now)
BY SameStartJoinPhase, SameFirst, SameNoEntries DEF Atomic!into_preparing_rebalance,
   into_preparing_rebalance

LEMMA SameWithStorageGroupDetail ==
  \A g : Atomic!with_storage_group_detail(g) = with_storage_group_detail(g)
BY SameIsCompletingRebalance, SameRebalanceTimeout, ZenonT(60)
DEF Atomic!with_storage_group_detail, with_storage_group_detail, Atomic!Max, Max

LEMMA SameSettleForming == \A g, now : Atomic!settle_forming(g, now) = settle_forming(g, now)
BY SameForgetPendingMembers, SameRemoveExpired, SameRemoveMembersPendingSync,
   SameEndJoinPhaseAfterDeadline, SameCompleteJoinIfAllJoined, SameIsCompletingRebalance,
   SamePrepareRebalance, SameForgetRemovedMembers DEF Atomic!settle_forming, settle_forming

LEMMA SameSettleFormed == \A g, now : Atomic!settle_formed(g, now) = settle_formed(g, now)
BY SameForgetPendingMembers, SameRemoveExpired, SameRemoveMembersPendingSync,
   SameCompleteJoinIfAllJoined, SameIntoPreparingRebalance DEF Atomic!settle_formed,
   settle_formed

LEMMA SameSettle == \A g, now : Atomic!settle(g, now) = settle(g, now)
BY SameSettleForming, SameSettleFormed DEF Atomic!settle, settle

LEMMA SameResult == \A g, r : Atomic!Result(g, r) = Result(g, r)
BY DEF Atomic!Result, Result

LEMMA SameError == \A m, e : Atomic!Error(m, e) = Error(m, e)
BY DEF Atomic!Error, Error

LEMMA SameHeld == \A m : Atomic!Held(m) = Held(m)
BY DEF Atomic!Held, Held

LEMMA SameJoined == \A g, m, l, s : Atomic!Joined(g, m, l, s) = Joined(g, m, l, s)
BY DEF Atomic!Joined, Joined

LEMMA SameSyncedReply == \A g, m : Atomic!Synced(g, m) = Synced(g, m)
BY DEF Atomic!Synced, Synced

LEMMA SameDone == \A m : Atomic!Done(m) = Done(m)
BY DEF Atomic!Done, Done

LEMMA SameJoiningProtocol ==
  \A g, req : Atomic!joining_protocol(g, req) = joining_protocol(g, req)
BY DEF Atomic!joining_protocol, joining_protocol, Atomic!Range, Range

LEMMA SameMarkJoined == \A g, m : Atomic!mark_joined(g, m) = mark_joined(g, m)
BY DEF Atomic!mark_joined, mark_joined

LEMMA SameReplyToJoined == \A g, m : Atomic!reply_to_joined(g, m) = reply_to_joined(g, m)
BY SameJoined, SameHeld DEF Atomic!reply_to_joined, reply_to_joined

LEMMA SameFinishJoin == \A g, now, m : Atomic!finish_join(g, now, m) = finish_join(g, now, m)
BY SameCompleteJoinIfAllJoinedAfterJoin, SameMarkJoined, SameResult, SameReplyToJoined DEF
   Atomic!finish_join, finish_join

LEMMA SameSetProtocol == \A g, req : Atomic!set_protocol(g, req) = set_protocol(g, req)
BY SameJoiningProtocol DEF Atomic!set_protocol, set_protocol

LEMMA SameNoteNewMember == \A j : Atomic!note_new_member(j) = note_new_member(j)
BY DEF Atomic!note_new_member, note_new_member

LEMMA SameAddMember ==
  \A g, now, m, req : Atomic!add_member(g, now, m, req) = add_member(g, now, m, req)
<1> TAKE g, now, m, req
<1> DEFINE u == upsert_member(set_protocol(g, req), now, m, req)
           l == [u EXCEPT !.leader = IF @ = None THEN m ELSE @]
           v == Atomic!upsert_member(Atomic!set_protocol(g, req), now, m, req)
           k == [v EXCEPT !.leader = IF @ = None THEN m ELSE @]
           e == DOMAIN g.members = {}
           h == IF g.join_phase # None THEN [l EXCEPT !.join_phase = note_new_member(@)]
                ELSE IF e THEN prepare_initial_rebalance(l, now) ELSE prepare_rebalance(l, now)
           i == IF g.join_phase # None THEN [k EXCEPT !.join_phase = Atomic!note_new_member(@)]
                ELSE IF e THEN Atomic!prepare_initial_rebalance(k, now)
                     ELSE Atomic!prepare_rebalance(k, now)
<1>1. v = u
  BY SameUpsertMember, SameSetProtocol
<1>2. k = l
  BY <1>1
<1>3. /\ add_member(g, now, m, req) = finish_join(h, now, m)
      /\ Atomic!add_member(g, now, m, req) = Atomic!finish_join(i, now, m)
  BY DEF Atomic!add_member, add_member
<1> HIDE DEF k, l
<1>4. i = h
  BY <1>2, SameNoteNewMember, SamePrepareInitialRebalance, SamePrepareRebalance
<1> HIDE DEF h, i
<1> QED BY <1>3, <1>4, SameFinishJoin

LEMMA SameUpdateMember ==
  \A g, now, m, req : Atomic!update_member(g, now, m, req) = update_member(g, now, m, req)
BY SameUpsertMember, SameHasJoinedWith, SameResult, SameReplyToJoined, SameFinishJoin,
   SamePrepareRebalance DEF Atomic!update_member, update_member

LEMMA SameReplaceStaticMember ==
  \A g, now, old, new, req :
    Atomic!replace_static_member(g, now, old, new, req)
        = replace_static_member(g, now, old, new, req)
<1> TAKE g, now, old, new, req
<1> DEFINE r == [g EXCEPT
                !.members = Rename(@, old, new),
                !.leader = IF @ = old THEN new ELSE @,
                !.join_phase = IF @ = None THEN @
                               ELSE [@ EXCEPT !.joined = g.join_phase.joined \ {old}]]
           q == [g EXCEPT
                !.members = Atomic!Rename(@, old, new),
                !.leader = IF @ = old THEN new ELSE @,
                !.join_phase = IF @ = None THEN @
                               ELSE [@ EXCEPT !.joined = g.join_phase.joined \ {old}]]
           u == upsert_member(r, now, new, req)
           v == Atomic!upsert_member(q, now, new, req)
           h == IF g.join_phase = None THEN prepare_rebalance(u, now) ELSE u
           i == IF g.join_phase = None THEN Atomic!prepare_rebalance(v, now) ELSE v
<1>1. q = r
  BY SameRename
<1>2. /\ replace_static_member(g, now, old, new, req) = finish_join(h, now, new)
      /\ Atomic!replace_static_member(g, now, old, new, req) = Atomic!finish_join(i, now, new)
  BY DEF Atomic!replace_static_member, replace_static_member
<1> HIDE DEF q, r
<1>3. v = u
  BY <1>1, SameUpsertMember
<1> HIDE DEF u, v
<1>4. i = h
  BY <1>3, SamePrepareRebalance
<1> HIDE DEF h, i
<1> QED BY <1>2, <1>4, SameFinishJoin

LEMMA SameTakePlace ==
  \A g, now, old, new, req :
    Atomic!take_place(g, now, old, new, req) = take_place(g, now, old, new, req)
<1> TAKE g, now, old, new, req
<1> DEFINE p == IF g.pending_sync # None /\ old \in g.pending_sync.members
                THEN [g.pending_sync EXCEPT !.members =
                        (g.pending_sync.members \ {old}) \cup {new}]
                ELSE g.pending_sync
           r == [g EXCEPT
                !.members = Rename(@, old, new),
                !.assignments = Rename(@, old, new),
                !.leader = IF @ = old THEN new ELSE @,
                !.pending_sync = p]
           q == [g EXCEPT
                !.members = Atomic!Rename(@, old, new),
                !.assignments = Atomic!Rename(@, old, new),
                !.leader = IF @ = old THEN new ELSE @,
                !.pending_sync = p]
           u == upsert_member(r, now, new, req)
           v == Atomic!upsert_member(q, now, new, req)
<1>1. q = r
  BY SameRename
<1>2. /\ take_place(g, now, old, new, req) =
            Result(u, IF req.api_version >= SKIP_ASSIGNMENT_VERSION
                      THEN Joined(u, new, u.leader, u.leader = new)
                      ELSE Joined(u, new, g.leader, FALSE))
      /\ Atomic!take_place(g, now, old, new, req) =
            Atomic!Result(v, IF req.api_version >= SKIP_ASSIGNMENT_VERSION
                             THEN Atomic!Joined(v, new, v.leader, v.leader = new)
                             ELSE Atomic!Joined(v, new, g.leader, FALSE))
  BY DEF Atomic!take_place, take_place, Atomic!SKIP_ASSIGNMENT_VERSION, SKIP_ASSIGNMENT_VERSION
<1> HIDE DEF q, r
<1>3. v = u
  BY <1>1, SameUpsertMember
<1> HIDE DEF u, v
<1> QED BY <1>2, <1>3, SameResult, SameJoined

LEMMA SameAddPending ==
  \A g, now, new, req : Atomic!add_pending(g, now, new, req) = add_pending(g, now, new, req)
BY SameInsert, SameResult, SameError DEF Atomic!add_pending, add_pending

LEMMA SamePreparing == \A g, now : Atomic!preparing(g, now) = preparing(g, now)
BY SameIntoPreparingRebalance DEF Atomic!preparing, preparing

LEMMA SameJoinNew ==
  \A g, now, req, new : Atomic!join_new(g, now, req, new) = join_new(g, now, req, new)
BY SameStaticMemberId, SameAddPending, SameAddMember, SamePreparing, SameTakePlace,
   SameReplaceStaticMember DEF Atomic!join_new, join_new, Atomic!MEMBER_ID_REQUIRED_VERSION,
   MEMBER_ID_REQUIRED_VERSION

LEMMA SameJoinPending ==
  \A g, now, req : Atomic!join_pending(g, now, req) = join_pending(g, now, req)
BY SameAddMember, SamePreparing, SameRemove DEF Atomic!join_pending, join_pending

LEMMA SameJoinExisting ==
  \A g, now, req : Atomic!join_existing(g, now, req) = join_existing(g, now, req)
BY SameHasJoinedWith, SameIsCompletingRebalance, SameResult, SameJoined, SameUpdateMember,
   SamePreparing, ZenonT(60) DEF Atomic!join_existing, join_existing

LEMMA SameJoin == \A g, now, req, new : Atomic!join(g, now, req, new) = join(g, now, req, new)
BY SameValidateMember, SameJoiningProtocol, SameResult, SameError, SameJoinNew,
   SameJoinPending, SameJoinExisting DEF Atomic!join, join

LEMMA SameSyncError == \A g, req : Atomic!sync_error(g, req) = sync_error(g, req)
BY SameValidateMember DEF Atomic!sync_error, sync_error

LEMMA SameForm == \A g, now, req : Atomic!form(g, now, req) = form(g, now, req)
BY SameRestartSessionsOfSyncedMembers DEF Atomic!form, form

LEMMA SameSyncForming ==
  \A g, now, req : Atomic!sync_forming(g, now, req) = sync_forming(g, now, req)
<1> TAKE g, now, req
<1> DEFINE m == req.member_id
           f == forget_pending_sync(g, {m})
           e == Atomic!forget_pending_sync(g, {m})
<1>1. e = f
  BY SameForgetPendingSync
<1>2. /\ sync_forming(g, now, req) =
            IF g.join_phase # None THEN Result(g, Error(m, "REBALANCE_IN_PROGRESS"))
            ELSE IF f.leader = None THEN Result(f, Error(m, "REBALANCE_IN_PROGRESS"))
            ELSE IF f.leader # m THEN Result(f, Held(m))
            ELSE Result(form(f, now, req), Synced(form(f, now, req), m))
      /\ Atomic!sync_forming(g, now, req) =
            IF g.join_phase # None
            THEN Atomic!Result(g, Atomic!Error(m, "REBALANCE_IN_PROGRESS"))
            ELSE IF e.leader = None
            THEN Atomic!Result(e, Atomic!Error(m, "REBALANCE_IN_PROGRESS"))
            ELSE IF e.leader # m THEN Atomic!Result(e, Atomic!Held(m))
            ELSE Atomic!Result(Atomic!form(e, now, req),
                               Atomic!Synced(Atomic!form(e, now, req), m))
  BY DEF Atomic!sync_forming, sync_forming
<1> HIDE DEF e, f, m
<1> QED BY <1>1, <1>2, SameResult, SameError, SameHeld, SameForm, SameSyncedReply

LEMMA SameSyncFormed ==
  \A g, now, req : Atomic!sync_formed(g, now, req) = sync_formed(g, now, req)
<1> TAKE g, now, req
<1> DEFINE m == req.member_id
           f == IF g.pending_sync # None /\ m \in g.pending_sync.members
                THEN contact(forget_pending_sync(g, {m}), {m}, now) ELSE g
           e == IF g.pending_sync # None /\ m \in g.pending_sync.members
                THEN Atomic!contact(Atomic!forget_pending_sync(g, {m}), {m}, now) ELSE g
<1>1. e = f
  BY SameForgetPendingSync, SameContact
<1>2. /\ sync_formed(g, now, req) = Result(f, Synced(f, m))
      /\ Atomic!sync_formed(g, now, req) = Atomic!Result(e, Atomic!Synced(e, m))
  BY DEF Atomic!sync_formed, sync_formed
<1> HIDE DEF e, f, m
<1> QED BY <1>1, <1>2, SameResult, SameSyncedReply

LEMMA SameSync == \A g, now, req : Atomic!sync(g, now, req) = sync(g, now, req)
BY SameSyncError, SameResult, SameError, SameSyncForming, SameSyncFormed DEF Atomic!sync, sync

LEMMA SameHeartbeat == \A g, now, req : Atomic!heartbeat(g, now, req) = heartbeat(g, now, req)
BY SameValidateMember, SameResult, SameError, SameContact, SameDone DEF Atomic!heartbeat,
   heartbeat

LEMMA SameLeavingMembers == \A g, S : Atomic!leaving_members(g, S) = leaving_members(g, S)
BY SameStaticMemberId DEF Atomic!leaving_members, leaving_members

LEMMA SameLeavingPending == \A g, S : Atomic!leaving_pending(g, S) = leaving_pending(g, S)
BY DEF Atomic!leaving_pending, leaving_pending

LEMMA SameRemoveLeavingMembers ==
  \A g, S : Atomic!remove_leaving_members(g, S) = remove_leaving_members(g, S)
BY SameLeavingMembers, SameLeavingPending, SameForgetPendingSync, SameRemove DEF
   Atomic!remove_leaving_members, remove_leaving_members

LEMMA SameLeave == \A g, now, S : Atomic!leave(g, now, S) = leave(g, now, S)
BY SameRemoveLeavingMembers, SameForgetRemovedMembers, SameLeavingMembers, SameLeavingPending,
   SameCompleteJoinIfAllJoined, SameIntoPreparingRebalance,
   SameCompleteJoinIfAllJoinedAfterJoin, SameIsCompletingRebalance, SamePrepareRebalance DEF
   Atomic!leave, leave

LEMMA SameOffsetCommitError ==
  \A g, req : Atomic!offset_commit_error(g, req) = offset_commit_error(g, req)
BY SameValidateMember, SameIsCompletingRebalance DEF Atomic!offset_commit_error,
   offset_commit_error

LEMMA SameCheckOffsetCommit ==
  \A g, now, req : Atomic!check_offset_commit(g, now, req) = check_offset_commit(g, now, req)
BY SameOffsetCommitError, SameResult, SameError, SameContact, SameDone DEF
   Atomic!check_offset_commit, check_offset_commit

(***************************************************************************)
(* Each write that lands is one atomic request.                            *)
(***************************************************************************)
LEMMA SameIdentities == Atomic!Identities = IdentitiesOf(issued)
BY DEF Atomic!Identities, IdentitiesOf

\* What a write that lands is made from, when no delete has come between.
LEMMA LandingWrite ==
  ASSUME CInv, Engine = "object_store", NEW c \in Slots, Store(c)
  PROVE  \E g \in Atomic!Copies, t \in Atomic!Now :
            calls[c].result = Outcome(calls[c], g, t, calls[c].new)
<1>1. PICK call : call = calls[c]
  OBVIOUS
<1>2. Pending(call, stored, versions, issued, clock) /\ call.version = stored.version
  BY <1>1, SlotCall DEF Store, Accepts, InProgress
<1>3. PICK g : \E t \in 0 .. clock : /\ Known(call.version, g, stored, versions, issued)
                                     /\ call.result = Outcome(call, g, t, call.new)
  BY <1>2 DEF Pending
<1>4. PICK t \in 0 .. clock : /\ Known(call.version, g, stored, versions, issued)
                              /\ call.result = Outcome(call, g, t, call.new)
  BY <1>3
<1>5. g \in Atomic!Copies
  BY <1>2, <1>4, SameWithStorageGroupDetail DEF Known, CopiesOf, Atomic!Copies
<1>6. t \in Atomic!Now
  BY CoordinatorAssumption DEF CInv, Atomic!Now
<1> QED BY <1>1, <1>4, <1>5, <1>6

LEMMA StoreIsAtomic ==
  ASSUME CInv, Engine = "object_store", NEW c \in Slots, Store(c)
  PROVE  Atomic!Next
<1>1. PICK call : call = calls[c]
  OBVIOUS
<1>2. PICK g \in Atomic!Copies, t \in Atomic!Now : call.result = Outcome(call, g, t, call.new)
  BY <1>1, LandingWrite
<1>3. PICK r : r = call.result
  OBVIOUS
<1>4. /\ call.op \in {"join", "sync", "heartbeat", "leave", "commit", "fence"}
      /\ IsRequest(call.op, call.req, issued)
      /\ call.op = "join" => JoinsAs(call.req, call.new, issued)
      /\ r.group.generation_id <= MaxGeneration
  BY <1>1, <1>3, StoreParts DEF Store
<1>5. /\ stored'.group = r.group
      /\ UNCHANGED clock
      /\ issued' = IF call.op = "join" /\ r.reply.member = call.new
                   THEN Insert(issued, call.new, call.req.group_instance_id) ELSE issued
  BY <1>1, <1>3 DEF Store
<1>6. \A x : x = r.group => Atomic!Store(x)
  BY <1>4, <1>5 DEF Atomic!Store
<1>7. CASE call.op = "join"
  <2>1. r = join(settle(g, t), t, call.req, call.new)
    BY <1>2, <1>3, <1>7 DEF Outcome
  <2>2. Atomic!join(Atomic!settle(g, t), t, call.req, call.new) = r
    BY <2>1, SameSettle, SameJoin
  <2>3. issued' = IF r.reply.member = call.new
                  THEN Atomic!Insert(issued, call.new, call.req.group_instance_id) ELSE issued
    BY <1>5, <1>7, SameInsert
  <2>4. Atomic!Join(g, t, call.req, call.new)
    BY <1>6, <2>2, <2>3 DEF Atomic!Join
  <2>5. PICK i \in Atomic!Identities \cup Atomic!NoIdentities, o \in JoinOptions :
            call.req = Atomic!JoinRequestOf(i, o)
    BY <1>4, <1>7, SameIdentities DEF IsRequest
  <2>6. call.new \in Atomic!NewIds(i)
    BY <1>4, <1>7, <2>5 DEF JoinsAs, Atomic!NewIds, Atomic!JoinRequestOf
  <2>7. Atomic!JoinStep
    BY <2>4, <2>5, <2>6 DEF Atomic!JoinStep
  <2> QED BY <2>7 DEF Atomic!Next
<1>8. CASE call.op = "sync"
  <2>1. r = sync(settle(g, t), t, call.req) /\ issued' = issued
    BY <1>2, <1>3, <1>5, <1>8 DEF Outcome
  <2>2. Atomic!Sync(g, t, call.req)
    BY <1>6, <2>1, SameSettle, SameSync DEF Atomic!Sync
  <2>3. PICK i \in Atomic!Identities, n \in Atomic!Generations, p \in Atomic!Plans :
            call.req = Atomic!SyncRequestOf(i, n, None, p)
    BY <1>4, <1>8, SameIdentities DEF IsRequest, Atomic!Generations
  <2>4. Atomic!SyncStep
    BY <2>2, <2>3 DEF Atomic!SyncStep
  <2> QED BY <2>4 DEF Atomic!Next
<1>9. CASE call.op = "heartbeat"
  <2>1. r = heartbeat(settle(g, t), t, call.req) /\ issued' = issued
    BY <1>2, <1>3, <1>5, <1>9 DEF Outcome
  <2>2. Atomic!Heartbeat(g, t, call.req)
    BY <1>6, <2>1, SameSettle, SameHeartbeat DEF Atomic!Heartbeat
  <2>3. PICK i \in Atomic!Identities, n \in Atomic!Generations :
            call.req = Atomic!MemberRequestOf(i, n)
    BY <1>4, <1>9, SameIdentities DEF IsRequest, Atomic!Generations
  <2>4. Atomic!HeartbeatStep
    BY <2>2, <2>3 DEF Atomic!HeartbeatStep
  <2> QED BY <2>4 DEF Atomic!Next
<1>10. CASE call.op = "leave"
  <2>1. r = Result(leave(settle(g, t), t, call.req), Done(None)) /\ issued' = issued
    BY <1>2, <1>3, <1>5, <1>10 DEF Outcome
  <2>2. r.group = leave(settle(g, t), t, call.req)
    BY <2>1 DEF Result
  <2>3. Atomic!Leave(g, t, call.req)
    BY <1>6, <2>1, <2>2, SameSettle, SameLeave DEF Atomic!Leave
  <2>4. call.req \in Atomic!LeaveRequests
    BY <1>4, <1>10, SameIdentities DEF IsRequest, Atomic!LeaveRequests
  <2>5. Atomic!LeaveStep
    BY <2>3, <2>4 DEF Atomic!LeaveStep
  <2> QED BY <2>5 DEF Atomic!Next
<1>11. CASE call.op \in {"commit", "fence"}
  <2>1. r = check_offset_commit(settle(g, t), t, call.req) /\ issued' = issued
    BY <1>2, <1>3, <1>5, <1>11 DEF Outcome
  <2>2. Atomic!OffsetCommit(g, t, call.req)
    BY <1>6, <2>1, SameSettle, SameCheckOffsetCommit DEF Atomic!OffsetCommit
  <2>3. PICK i \in Atomic!Identities \cup Atomic!NoIdentities, n \in Atomic!Generations \cup {-1},
             tx \in BOOLEAN : call.req = Atomic!CommitRequestOf(i, n, tx)
    BY <1>4, <1>11, SameIdentities DEF IsRequest, Atomic!Generations
  <2>4. Atomic!CommitStep
    BY <2>2, <2>3 DEF Atomic!CommitStep
  <2> QED BY <2>4 DEF Atomic!Next
<1> QED BY <1>4, <1>7, <1>8, <1>9, <1>10, <1>11

LEMMA StepIsAtomic ==
  ASSUME CInv, Engine = "object_store", [Next]_coordinatorVars
  PROVE  [Atomic!Next]_(Atomic!groupVars)
<1>1. ASSUME UNCHANGED <<stored, clock, issued>> PROVE UNCHANGED Atomic!groupVars
  BY <1>1 DEF Atomic!groupVars
<1>2. CASE UNCHANGED coordinatorVars
  BY <1>1, <1>2 DEF coordinatorVars
<1>3. CASE Tick
  BY <1>3 DEF Tick, Atomic!Tick, Atomic!Next
<1>4. ASSUME NEW b \in Brokers, Crash(b) PROVE UNCHANGED <<stored, clock, issued>>
  BY <1>4 DEF Crash
<1>5. ASSUME NEW c \in Slots, Store(c) PROVE Atomic!Next
  BY <1>5, StoreIsAtomic
<1>6. ASSUME NEW c \in Slots, Delete(c) PROVE Atomic!Next
  BY <1>6, SameNewGroup DEF Delete, Atomic!Delete, Atomic!Next
<1>7. ASSUME NEW c \in Slots, Step(c), ~ Store(c), ~ Delete(c)
      PROVE  UNCHANGED <<stored, clock, issued>>
  BY <1>7 DEF Step, Send, Read, Run, Outdated, Relearn, Fail, Lose, Landed, StoreOffsets, Refuse,
     Decide, Forget
<1> QED BY <1>1, <1>2, <1>3, <1>4, <1>5, <1>6, <1>7 DEF Next

\* Brokers that share an object store change the group only as one broker would that
\* ran the requests one at a time, however many there are, whatever they have cached
\* and whichever of them fail.  An SQL engine accepts the update of a group that was
\* deleted in between (update_group), which no atomic request does.
THEOREM GroupAlwaysAtomic == ASSUME Engine = "object_store" PROVE Spec => GroupIsAtomic
<1>1. Init => Atomic!Init
  BY SameNewGroup, SameNoEntries DEF Init, Atomic!Init
<1>2. CInv /\ [Next]_coordinatorVars => [Atomic!Next]_(Atomic!groupVars)
  BY StepIsAtomic
<1> QED BY <1>1, <1>2, CoordinatorInvariant, PTL DEF Spec, GroupIsAtomic, Atomic!Spec

(***************************************************************************)
(* What a later version h of the group keeps of an earlier version g, once *)
(* these ids are given out.                                                *)
(***************************************************************************)
\* Each assignment of A is one of B, of the same member or after its restart.
Inherits(A, B, ids) ==
    \A m \in DOMAIN A : \E n \in DOMAIN B : B[n] = A[m] /\ (n = m \/ SameInstance(ids, n, m))

\* While the generation of g lasts, the leader that h waits for is the one that g
\* waited for, and the assignments of h are those of g, if g had any.
Leads(g, h, ids) ==
    /\ h.generation_id >= g.generation_id
    /\ h.generation_id = g.generation_id /\ is_completing_rebalance(h) =>
        is_completing_rebalance(g) /\ h.leader = g.leader
    /\ h.generation_id = g.generation_id /\ h.state = "Formed" =>
        \/ is_completing_rebalance(g)
        \/ g.state = "Formed" /\ Inherits(g.assignments, h.assignments, ids)

AssignedOnce(g) == g.state = "Formed" => Disjoint(g.assignments)

\* The news is what the group says.
Says(g, n) ==
    /\ n.generation = g.generation_id
    /\ n.assigns => is_completing_rebalance(g) /\ n.member = g.leader /\ n.partitions = {}
    /\ ~ n.assigns => /\ g.state = "Formed"
                      /\ n.member \in DOMAIN g.assignments
                      /\ n.partitions = g.assignments[n.member]

LEMMA InheritsTransitive ==
  ASSUME NEW A, NEW B, NEW C, NEW ids, Inherits(A, B, ids), Inherits(B, C, ids)
  PROVE  Inherits(A, C, ids)
<1> SUFFICES ASSUME NEW m \in DOMAIN A
             PROVE  \E n \in DOMAIN C : C[n] = A[m] /\ (n = m \/ SameInstance(ids, n, m))
  BY DEF Inherits
<1>1. PICK k \in DOMAIN B : B[k] = A[m] /\ (k = m \/ SameInstance(ids, k, m))
  BY DEF Inherits
<1>2. PICK n \in DOMAIN C : C[n] = B[k] /\ (n = k \/ SameInstance(ids, n, k))
  BY DEF Inherits
<1>3. n = m \/ SameInstance(ids, n, m)
  BY <1>1, <1>2 DEF SameInstance
<1> QED BY <1>1, <1>2, <1>3

LEMMA LeadsTransitive ==
  ASSUME NEW f, NEW g, NEW h, IsGroup(f), IsGroup(g), IsGroup(h), NEW ids,
         Leads(f, g, ids), Leads(g, h, ids)
  PROVE  Leads(f, h, ids)
<1>1. f.generation_id \in Nat /\ g.generation_id \in Nat /\ h.generation_id \in Nat
  BY GenerationType
<1>2. h.generation_id >= f.generation_id
  BY <1>1 DEF Leads
<1>3. h.generation_id = f.generation_id =>
        h.generation_id = g.generation_id /\ g.generation_id = f.generation_id
  BY <1>1 DEF Leads
<1>4. h.generation_id = f.generation_id /\ is_completing_rebalance(h) =>
        is_completing_rebalance(f) /\ h.leader = f.leader
  BY <1>3 DEF Leads
<1>5. ASSUME h.generation_id = f.generation_id, h.state = "Formed"
      PROVE  \/ is_completing_rebalance(f)
             \/ f.state = "Formed" /\ Inherits(f.assignments, h.assignments, ids)
  BY <1>3, <1>5, InheritsTransitive DEF Leads
<1> QED BY <1>2, <1>4, <1>5 DEF Leads

LEMMA LeadsKept ==
  ASSUME NEW g, NEW h, NEW ids, NEW more, KeepsIds(ids, more), Leads(g, h, ids)
  PROVE  Leads(g, h, more)
<1>1. ASSUME NEW A, NEW B, Inherits(A, B, ids) PROVE Inherits(A, B, more)
  BY <1>1 DEF Inherits, SameInstance, KeepsIds
<1> QED BY <1>1 DEF Leads

LEMMA FollowsLeads ==
  ASSUME NEW g, NEW h, Follows(g, h), NEW ids
  PROVE  Leads(g, h, ids) /\ (AssignedOnce(g) => AssignedOnce(h))
<1>1. \A A : Inherits(A, A, ids)
  BY DEF Inherits
<1> QED BY <1>1 DEF Follows, Leads, AssignedOnce

\* A static member takes its place.
LEMMA RenameLeads ==
  ASSUME NEW g, OK(g), g.state = "Formed", NEW h, NEW old \in DOMAIN g.members, NEW new,
         new \notin DOMAIN g.members, h.state = "Formed", h.generation_id = g.generation_id,
         h.assignments = Rename(g.assignments, old, new), NEW ids, SameInstance(ids, new, old)
  PROVE  Leads(g, h, ids) /\ (AssignedOnce(g) => AssignedOnce(h))
<1> DEFINE A == g.assignments
           B == h.assignments
<1>1. DOMAIN A = DOMAIN g.members
  BY DEF OK, Consistent, FormedConsistent
<1>2. /\ DOMAIN B = (DOMAIN A \ {old}) \cup {new}
      /\ B[new] = A[old]
      /\ \A x \in DOMAIN A \ {old} : B[x] = A[x]
  BY <1>1 DEF Rename, Insert, Remove, Restrict
<1>3. g.generation_id \in Nat
  BY GenerationType DEF OK
<1> HIDE DEF A, B
<1>4. Inherits(A, B, ids)
  BY <1>1, <1>2 DEF Inherits
<1>5. Leads(g, h, ids)
  BY <1>3, <1>4 DEF Leads, A, B, is_completing_rebalance
<1>6. ASSUME Disjoint(A) PROVE Disjoint(B)
  <2> SUFFICES ASSUME NEW x \in DOMAIN B, NEW y \in DOMAIN B, x # y
               PROVE  B[x] \cap B[y] = {}
    BY DEF Disjoint
  <2>1. \A u, v \in DOMAIN A : u # v => A[u] \cap A[v] = {}
    BY <1>6 DEF Disjoint
  <2>2. CASE x = new
    BY <1>1, <1>2, <2>1, <2>2
  <2>3. CASE y = new
    BY <1>1, <1>2, <2>1, <2>3
  <2>4. CASE x # new /\ y # new
    BY <1>2, <2>1, <2>4
  <2> QED BY <2>2, <2>3, <2>4
<1> QED BY <1>5, <1>6 DEF AssignedOnce, A, B

LEMMA JoinLeads ==
  ASSUME NEW g, OK(g), NEW h, NEW new, NEW i, JoinOutcome(g, h, new, i),
         NEW ids, NEW more, KeepsIds(ids, more), IdsIssued(g, ids), IdsIssued(h, more)
  PROVE  Leads(g, h, more) /\ (AssignedOnce(g) => AssignedOnce(h))
<1>1. CASE Follows(g, h)
  BY <1>1, FollowsLeads
<1>2. CASE ~ Follows(g, h)
  <2>1. PICK old \in DOMAIN g.members : Replaces(g, h, old, new, i)
    BY <1>2 DEF JoinOutcome
  <2>2. /\ g.state = "Formed"
        /\ h.state = "Formed"
        /\ h.generation_id = g.generation_id
        /\ h.assignments = Rename(g.assignments, old, new)
        /\ i # None
        /\ g.members[old].instance = i
        /\ new \notin DOMAIN g.members
        /\ new \in DOMAIN h.members
        /\ h.members[new].instance = i
    BY <1>2, <2>1 DEF Replaces
  <2>3. SameInstance(more, new, old)
    BY <2>2 DEF SameInstance, KeepsIds, IdsIssued
  <2> QED BY <2>2, <2>3, RenameLeads
<1> QED BY <1>1, <1>2

\* The assignment of the leader arrives.
LEMMA FormLeads ==
  ASSUME NEW g, OK(g), NEW h, is_completing_rebalance(g), h.state = "Formed",
         h.generation_id = g.generation_id, NEW ids
  PROVE  Leads(g, h, ids)
<1>1. g.generation_id \in Nat
  BY GenerationType DEF OK
<1> QED BY <1>1 DEF Leads, is_completing_rebalance

\* What a group says as a broker reads it back, it says as it is stored.
LEMMA CopySays ==
  ASSUME NEW g, OK(g), NEW c \in CopiesOf(g)
  PROVE  /\ OK(c)
         /\ Follows(g, c)
         /\ \A n : Says(c, n) => Says(g, n)
<1>1. CASE c = g
  BY <1>1, FollowsReflexive DEF OK
<1>2. CASE c # g
  <2>1. c = with_storage_group_detail(g)
    BY <1>2 DEF CopiesOf
  <2>2. OK(c) /\ Follows(g, c) /\ g.join_phase # None /\ c = [g EXCEPT !.leader = None]
    BY <1>2, <2>1, WithStorageOK, WithStorageSame
  <2>3. /\ c.join_phase = g.join_phase
        /\ c.state = g.state
    BY <2>2 DEF OK, IsGroup, GroupDetail
  <2>4. ~ is_completing_rebalance(c) /\ c.state # "Formed"
    BY <2>2, <2>3 DEF is_completing_rebalance, OK, Consistent, FormedConsistent
  <2>5. \A n : ~ Says(c, n)
    BY <2>4 DEF Says
  <2> QED BY <2>2, <2>5
<1> QED BY <1>1, <1>2

(***************************************************************************)
(* The news of a reply.                                                    *)
(***************************************************************************)
LEMMA NewsParts ==
  ASSUME NEW reply, NEW n \in News(reply)
  PROVE  /\ n.generation = reply.generation
         /\ \/ n.assigns /\ n.member \in Assigner(reply) /\ n.partitions = {}
            \/ /\ ~ n.assigns
               /\ \E d \in Delivery(reply) : n.member = d.member /\ n.partitions = d.partitions
<1>1. CASE n \in {[generation |-> reply.generation, member |-> m, assigns |-> TRUE,
                   partitions |-> {}] : m \in Assigner(reply)}
  <2>1. PICK m \in Assigner(reply) : n = [generation |-> reply.generation, member |-> m,
                                          assigns |-> TRUE, partitions |-> {}]
    BY <1>1
  <2>2. n.generation = reply.generation /\ n.member = m /\ n.partitions = {}
    BY <2>1
  <2>3. n.assigns
    BY <2>1
  <2> QED BY <2>1, <2>2, <2>3
<1>2. CASE n \in {[generation |-> reply.generation, member |-> d.member, assigns |-> FALSE,
                   partitions |-> d.partitions] : d \in Delivery(reply)}
  <2>1. PICK d \in Delivery(reply) : n = [generation |-> reply.generation, member |-> d.member,
                                          assigns |-> FALSE, partitions |-> d.partitions]
    BY <1>2
  <2>2. /\ n.generation = reply.generation
        /\ n.member = d.member
        /\ n.partitions = d.partitions
    BY <2>1
  <2>3. ~ n.assigns
    BY <2>1
  <2> QED BY <2>1, <2>2, <2>3
<1> QED BY <1>1, <1>2, Zenon DEF News

LEMMA QuietNews ==
  ASSUME NEW reply, reply.kind \in {"error", "held", "done"}
  PROVE  News(reply) = {}
<1>1. Assigner(reply) = {} /\ Delivery(reply) = {}
  BY DEF Assigner, Delivery
<1> QED BY <1>1, NewsParts

LEMMA JoinNews ==
  ASSUME NEW r, Tells(r)
  PROVE  \A n \in News(r.reply) : Says(r.group, n)
<1> SUFFICES ASSUME NEW n \in News(r.reply) PROVE Says(r.group, n)
  OBVIOUS
<1>1. n.generation = r.reply.generation /\ n.assigns /\ n.member \in Assigner(r.reply)
      /\ n.partitions = {}
  BY NewsParts DEF Tells
<1>2. /\ is_completing_rebalance(r.group)
      /\ Assigner(r.reply) = {r.group.leader}
      /\ r.reply.generation = r.group.generation_id
  BY <1>1 DEF Tells
<1> QED BY <1>1, <1>2 DEF Says

LEMMA SyncNews ==
  ASSUME NEW r, NEW m, Delivers(r, m)
  PROVE  \A n \in News(r.reply) : Says(r.group, n)
<1> SUFFICES ASSUME NEW n \in News(r.reply) PROVE Says(r.group, n)
  OBVIOUS
<1>1. /\ n.generation = r.reply.generation /\ ~ n.assigns
      /\ \E d \in Delivery(r.reply) : n.member = d.member /\ n.partitions = d.partitions
  BY NewsParts DEF Delivers
<1>2. /\ r.group.state = "Formed"
      /\ m \in DOMAIN r.group.assignments
      /\ Delivery(r.reply) = {[member |-> m, partitions |-> r.group.assignments[m]]}
      /\ r.reply.generation = r.group.generation_id
  BY <1>1 DEF Delivers
<1>3. n.member = m /\ n.partitions = r.group.assignments[m]
  BY <1>1, <1>2
<1> QED BY <1>1, <1>2, <1>3 DEF Says

(***************************************************************************)
(* Each request leads from the group that it ran on to its result.         *)
(***************************************************************************)
\* What a request makes of g, and what its reply says.
Proceeds(g, r, ids) ==
    /\ Leads(g, r.group, ids)
    /\ AssignedOnce(g) => AssignedOnce(r.group)
    /\ \A n \in News(r.reply) : Says(r.group, n)

LEMMA SyncLeads ==
  ASSUME NEW s, OK(s), NEW t \in Nat, NEW ids, NEW req, IsRequest("sync", req, ids)
  PROVE  Proceeds(s, sync(s, t, req), ids)
<1>1. PICK i \in IdentitiesOf(ids), n \in 1 .. MaxGeneration, p \in Atomic!Plans :
          req = Atomic!SyncRequestOf(i, n, None, p)
  BY DEF IsRequest
<1>2. p \in [MemberIds -> SUBSET Partitions] /\ Disjoint(p)
  BY DEF Atomic!Plans, Disjoint
<1>3. req.assignments = p
  BY <1>1 DEF Atomic!SyncRequestOf
<1>4. PICK r : r = sync(s, t, req)
  OBVIOUS
<1>5. /\ r.group.generation_id = s.generation_id
      /\ Delivers(r, req.member_id)
      /\ \/ Follows(s, r.group)
         \/ /\ is_completing_rebalance(s)
            /\ r.group.state = "Formed"
            /\ r.group.assignments = [x \in DOMAIN s.members |-> req.assignments[x]]
  BY <1>2, <1>3, <1>4, SyncFollows
<1>6. \A n2 \in News(r.reply) : Says(r.group, n2)
  BY <1>5, SyncNews
<1>7. CASE Follows(s, r.group)
  BY <1>4, <1>6, <1>7, FollowsLeads DEF Proceeds
<1>8. CASE ~ Follows(s, r.group)
  <2>1. /\ is_completing_rebalance(s)
        /\ r.group.state = "Formed"
        /\ r.group.assignments = [x \in DOMAIN s.members |-> p[x]]
    BY <1>3, <1>5, <1>8
  <2>2. Leads(s, r.group, ids)
    BY <1>5, <2>1, FormLeads
  <2>3. DOMAIN s.members \subseteq MemberIds
    BY DEF OK, IsGroup, IsMap
  <2>4. Disjoint([x \in DOMAIN s.members |-> p[x]])
    BY <1>2, <2>3 DEF Disjoint
  <2> QED BY <1>4, <1>6, <2>1, <2>2, <2>4 DEF Proceeds, AssignedOnce
<1> QED BY <1>7, <1>8

LEMMA QuietLeads ==
  ASSUME NEW s, NEW r, Follows(s, r.group), r.reply.kind \in {"error", "held", "done"}, NEW ids
  PROVE  Proceeds(s, r, ids)
BY FollowsLeads, QuietNews DEF Proceeds

LEMMA SettledLeads ==
  ASSUME NEW g, OK(g), NEW t \in Nat, NEW ids, IdsIssued(g, ids),
         IsMap(ids, MemberIds, Instances \cup {None}), NEW call,
         call.op \in {"join", "sync", "heartbeat", "leave", "commit", "fence"},
         IsRequest(call.op, call.req, ids), NEW new, call.op = "join" => JoinsAs(call.req, new, ids)
  PROVE  LET r == Outcome(call, g, t, new)
         IN  Proceeds(settle(g, t), r, IdsAfter(call, ids, r.reply, new))
<1>1. PICK s : s = settle(g, t)
  OBVIOUS
<1>2. PICK r : r = Outcome(call, g, t, new)
  OBVIOUS
<1>3. PICK more : more = IdsAfter(call, ids, r.reply, new)
  OBVIOUS
<1>4. OK(s) /\ Shrinks(g, s)
  BY <1>1, SettleOK
<1>5. IdsIssued(s, ids)
  BY <1>4, ShrinksIds
<1>6. OK(r.group) /\ IdsIssued(r.group, more) /\ KeepsIds(ids, more)
  BY <1>2, <1>3, OutcomeOK
<1> SUFFICES Proceeds(s, r, more)
  BY <1>1, <1>2, <1>3
<1>7. CASE call.op = "join"
  <2>1. r = join(s, t, call.req, new)
    BY <1>1, <1>2, <1>7 DEF Outcome
  <2>2. JoinOutcome(s, r.group, new, call.req.group_instance_id) /\ Tells(r)
    BY <1>4, <1>5, <1>7, <2>1, JoinFollows
  <2>3. Leads(s, r.group, more) /\ (AssignedOnce(s) => AssignedOnce(r.group))
    BY <1>4, <1>5, <1>6, <2>2, JoinLeads
  <2> QED BY <2>2, <2>3, JoinNews DEF Proceeds
<1>8. CASE call.op = "sync"
  <2>1. r = sync(s, t, call.req)
    BY <1>1, <1>2, <1>8 DEF Outcome
  <2>2. IsRequest("sync", call.req, ids)
    BY <1>8
  <2>3. more = ids
    BY <1>3, <1>8 DEF IdsAfter
  <2> QED BY <1>4, <2>1, <2>2, <2>3, SyncLeads
<1>9. CASE call.op = "heartbeat"
  <2>1. r = heartbeat(s, t, call.req)
    BY <1>1, <1>2, <1>9 DEF Outcome
  <2>2. r.reply.kind \in {"error", "done"}
    BY <2>1 DEF heartbeat, Result, Error, Done
  <2> QED BY <1>4, <2>1, <2>2, HeartbeatFollows, QuietLeads
<1>10. CASE call.op = "leave"
  <2>1. r = Result(leave(s, t, call.req), Done(None))
    BY <1>1, <1>2, <1>10 DEF Outcome
  <2>2. r.reply.kind = "done" /\ r.group = leave(s, t, call.req)
    BY <2>1 DEF Result, Done
  <2> QED BY <1>4, <2>2, LeaveFollows, QuietLeads
<1>11. CASE call.op \in {"commit", "fence"}
  <2>1. r = check_offset_commit(s, t, call.req)
    BY <1>1, <1>2, <1>11 DEF Outcome
  <2>2. r.reply.kind \in {"error", "done"}
    BY <2>1 DEF check_offset_commit, Result, Error, Done
  <2> QED BY <1>4, <2>1, <2>2, OffsetCommitFollows, QuietLeads
<1> QED BY <1>7, <1>8, <1>9, <1>10, <1>11

\* The same, from the stored group of which the request ran on a copy.
LEMMA OutcomeLeads ==
  ASSUME NEW g, OK(g), NEW c \in CopiesOf(g), NEW t \in Nat, NEW ids, IdsIssued(c, ids),
         IsMap(ids, MemberIds, Instances \cup {None}), NEW call,
         call.op \in {"join", "sync", "heartbeat", "leave", "commit", "fence"},
         IsRequest(call.op, call.req, ids), NEW new, call.op = "join" => JoinsAs(call.req, new, ids)
  PROVE  LET r == Outcome(call, c, t, new)
         IN  Proceeds(g, r, IdsAfter(call, ids, r.reply, new))
<1>1. PICK s : s = settle(c, t)
  OBVIOUS
<1>2. PICK r : r = Outcome(call, c, t, new)
  OBVIOUS
<1>3. PICK more : more = IdsAfter(call, ids, r.reply, new)
  OBVIOUS
<1>4. OK(c) /\ Follows(g, c)
  BY CopySays
<1>5. OK(s) /\ Follows(c, s)
  BY <1>1, <1>4, SettleOK, SettleFollows
<1>6. Follows(g, s)
  BY <1>4, <1>5, FollowsOK DEF OK
<1>7. Leads(g, s, more) /\ (AssignedOnce(g) => AssignedOnce(s))
  BY <1>6, FollowsLeads
<1>8. Proceeds(s, r, more) /\ OK(r.group)
  BY <1>1, <1>2, <1>3, <1>4, SettledLeads, OutcomeOK
<1>9. Leads(g, r.group, more)
  BY <1>5, <1>7, <1>8, LeadsTransitive DEF Proceeds, OK
<1> QED BY <1>2, <1>3, <1>7, <1>8, <1>9 DEF Proceeds

(***************************************************************************)
(* The history of the versions: V[v] is the group that storage held as     *)
(* version v, if no group is deleted.                                      *)
(***************************************************************************)
Chain(V, vs, ids) ==
    /\ \A v \in 0 .. vs : OK(V[v]) /\ AssignedOnce(V[v])
    /\ \A v, w \in 0 .. vs : v <= w => Leads(V[v], V[w], ids)

\* A request runs on a version that storage held, and its stored result is one.
Tracked(call, V) ==
    /\ call.stage \in {"run", "outdated"} => call.group \in CopiesOf(V[call.version])
    /\ call.stage = "stored" => /\ call.result.group = V[call.version]
                                /\ \A n \in News(call.result.reply) : Says(V[call.version], n)

CachesTracked(ch, V) ==
    \A b \in Brokers : ch[b] # None => ch[b].group \in CopiesOf(V[ch[b].version])

Reported(news, V, vs) == \A n \in news : \E v \in 0 .. vs : Says(V[v], n)

History(V, st, vs, ids, ch, cs, news) ==
    /\ Chain(V, vs, ids)
    /\ st.version = vs /\ st.group = V[vs]
    /\ CachesTracked(ch, V)
    /\ \A c \in Slots : Tracked(cs[c], V)
    /\ Reported(news, V, vs)

\* The inductive invariant: there is such a history.
TInv == CInv /\ \E V : History(V, stored, versions, issued, cache, calls, told)

\* V is the history of the versions so far.
Past(V) == History(V, stored, versions, issued, cache, calls, told)

LEMMA ChainGrows ==
  ASSUME NEW V, NEW vs \in Nat, NEW ids, Chain(V, vs, ids), NEW more, KeepsIds(ids, more),
         NEW h, OK(h), AssignedOnce(h), Leads(V[vs], h, more)
  PROVE  LET W == [v \in 0 .. vs + 1 |-> IF v = vs + 1 THEN h ELSE V[v]]
         IN  /\ Chain(W, vs + 1, more)
             /\ W[vs + 1] = h
             /\ \A v \in 0 .. vs : W[v] = V[v]
<1>1. PICK W : W = [v \in 0 .. vs + 1 |-> IF v = vs + 1 THEN h ELSE V[v]]
  OBVIOUS
<1>2. /\ W[vs + 1] = h
      /\ \A v \in 0 .. vs : W[v] = V[v]
      /\ \A v \in 0 .. vs + 1 : v = vs + 1 \/ v \in 0 .. vs
  BY <1>1
<1>3. \A v \in 0 .. vs : OK(V[v]) /\ AssignedOnce(V[v])
  BY DEF Chain
<1>4. \A v, w \in 0 .. vs : v <= w => Leads(V[v], V[w], more)
  BY LeadsKept DEF Chain
<1>5. ASSUME NEW v \in 0 .. vs PROVE Leads(V[v], h, more)
  <2>1. vs \in 0 .. vs /\ v <= vs
    OBVIOUS
  <2> QED BY <1>3, <1>4, <2>1, LeadsTransitive DEF OK
<1>6. Leads(h, h, more)
  BY FollowsReflexive, FollowsLeads DEF OK
<1>7. ASSUME NEW v \in 0 .. vs + 1, NEW w \in 0 .. vs + 1, v <= w
      PROVE  Leads(W[v], W[w], more)
  <2>1. CASE w \in 0 .. vs
    <3>1. v \in 0 .. vs
      BY <1>7, <2>1
    <3> QED BY <1>2, <1>4, <1>7, <2>1, <3>1
  <2>2. CASE w = vs + 1 /\ v \in 0 .. vs
    BY <1>2, <1>5, <2>2
  <2>3. CASE w = vs + 1 /\ v = vs + 1
    BY <1>2, <1>6, <2>3
  <2> QED BY <1>2, <2>1, <2>2, <2>3
<1>8. \A v \in 0 .. vs + 1 : OK(W[v]) /\ AssignedOnce(W[v])
  BY <1>2, <1>3
<1> QED BY <1>1, <1>2, <1>7, <1>8 DEF Chain

\* A step of one slot that does not write.
LEMMA SlotHistory ==
  ASSUME CInv, NEW V, Past(V), UNCHANGED <<stored, versions, issued>>,
         CachesTracked(cache', V), NEW c \in Slots, NEW x, calls' = [calls EXCEPT ![c] = x],
         Tracked(x, V), Reported(told', V, versions)
  PROVE  Past(V)'
<1>1. /\ calls'[c] = x
      /\ \A d \in Slots \ {c} : calls'[d] = calls[d]
  BY DEF CInv, CallsOK
<1>2. \A d \in Slots : Tracked(calls'[d], V)
  BY <1>1 DEF Past, History
<1> QED BY <1>2 DEF Past, History

LEMMA CacheTracked ==
  ASSUME CInv, NEW V, CachesTracked(cache, V), NEW b \in Brokers, NEW v, NEW g,
         g \in CopiesOf(V[v]), Cache(b, v, g)
  PROVE  CachesTracked(cache', V)
<1> DEFINE l == [version |-> v, group |-> g, learned |-> clock]
<1>1. l.version = v /\ l.group = g
  OBVIOUS
<1>2. cache' = [cache EXCEPT ![b] = l] /\ cache = [a \in Brokers |-> cache[a]]
  BY DEF Cache, CInv, CachesOK
<1> HIDE DEF l
<1> QED BY <1>1, <1>2 DEF CachesTracked

\* The group that a request looks up.
LEMMA RecentTracked ==
  ASSUME CInv, NEW V, Past(V), NEW call, call \in CallFields(call)
  PROVE  Tracked(recent_group(call), V)
<1>1. PICK x : x = recent_group(call)
  OBVIOUS
<1>2. call.broker \in Brokers
  BY DEF CallFields
<1>3. /\ x.stage = "run"
      /\ \/ /\ cache[call.broker] # None
            /\ x.version = cache[call.broker].version
            /\ x.group = cache[call.broker].group
         \/ /\ x.version = stored.version
            /\ x.group = with_storage_group_detail(stored.group)
  BY <1>1 DEF recent_group, Cached, CallFields
<1>4. x.group \in CopiesOf(V[x.version])
  BY <1>2, <1>3 DEF Past, History, CachesTracked, CopiesOf
<1> QED BY <1>1, <1>3, <1>4 DEF Tracked

\* A request that is answered or held.
LEMMA FinishTold ==
  ASSUME NEW c \in Slots, NEW call, call \in CallFields(call), NEW result, Finish(c, call, result)
  PROVE  /\ \E x : calls' = [calls EXCEPT ![c] = x] /\ x.stage \in {"idle", "read"}
         /\ told' \subseteq told \cup News(result.reply)
<1>1. Idle.stage = "idle"
  BY DEF Idle
<1>2. \A r : Answer(c, r) => /\ calls' = [calls EXCEPT ![c] = Idle]
                             /\ told' = told \cup News(r)
  BY DEF Answer
<1>3. CASE result.reply.kind # "held"
  BY <1>1, <1>2, <1>3 DEF Finish
<1>4. CASE result.reply.kind = "held"
  <2>1. Hold(c, call, result)
    BY <1>4 DEF Finish
  <2>2. CASE \E r : r.kind = "error" /\ Answer(c, r)
    <3>1. PICK r : r.kind = "error" /\ Answer(c, r)
      BY <2>2
    <3>2. News(r) = {}
      BY <3>1, QuietNews
    <3> QED BY <1>1, <1>2, <3>1, <3>2
  <2>3. CASE \E since, req : /\ calls' = [calls EXCEPT ![c] =
                                    [Again(call, "poll") EXCEPT !.since = since, !.req = req]]
                             /\ UNCHANGED told
    <3>1. PICK since, req : /\ calls' = [calls EXCEPT ![c] =
                                    [Again(call, "poll") EXCEPT !.since = since, !.req = req]]
                            /\ UNCHANGED told
      BY <2>3
    <3>2. PICK x : x = [Again(call, "poll") EXCEPT !.since = since, !.req = req]
      OBVIOUS
    <3>3. x.stage = "read"
      BY <3>2 DEF Again, CallFields
    <3>4. calls' = [calls EXCEPT ![c] = x]
      BY <3>1, <3>2
    <3> QED BY <3>1, <3>3, <3>4
  <2>4. Error(result.reply.member, "REBALANCE_IN_PROGRESS").kind = "error"
    BY DEF Error
  <2> QED BY <2>1, <2>2, <2>3, <2>4 DEF Hold
<1> QED BY <1>3, <1>4

LEMMA IdleTracked ==
  ASSUME NEW V, NEW x, x.stage \notin {"run", "outdated", "stored"}
  PROVE  Tracked(x, V)
BY DEF Tracked

(***************************************************************************)
(* Each step keeps the history.                                            *)
(***************************************************************************)
\* A request takes a step that tells nobody anything and keeps the caches.
LEMMA QuietHistory ==
  ASSUME CInv, NEW V, Past(V), UNCHANGED <<stored, versions, issued, cache, told>>,
         NEW c \in Slots, NEW x, calls' = [calls EXCEPT ![c] = x], Tracked(x, V)
  PROVE  Past(V)'
<1>1. CachesTracked(cache', V) /\ Reported(told', V, versions)
  BY DEF Past, History
<1> QED BY <1>1, SlotHistory

LEMMA SendHistory ==
  ASSUME CInv, NEW V, Past(V), NEW c \in Slots, Send(c)
  PROVE  Past(V)'
<1>1. PICK op \in Ops, b \in Brokers :
        \E req \in Requests(op) : calls' = [calls EXCEPT ![c] = recent_group(Call(op, b, req))]
  BY DEF Send
<1>2. PICK req \in Requests(op) : calls' = [calls EXCEPT ![c] = recent_group(Call(op, b, req))]
  BY <1>1
<1>3. PICK call : call = Call(op, b, req)
  OBVIOUS
<1>4. call \in CallFields(call)
  BY <1>3, Bounds DEF Call, CallFields, Stages
<1>5. PICK x : x = recent_group(call)
  OBVIOUS
<1>6. Tracked(x, V)
  BY <1>4, <1>5, RecentTracked
<1>7. /\ UNCHANGED <<stored, versions, issued, cache, told>>
      /\ calls' = [calls EXCEPT ![c] = x]
  BY <1>2, <1>3, <1>5 DEF Send
<1> QED BY <1>6, <1>7, QuietHistory

LEMMA ReadHistory ==
  ASSUME CInv, NEW V, Past(V), NEW c \in Slots, Read(c)
  PROVE  Past(V)'
<1>1. PICK call : call = calls[c]
  OBVIOUS
<1>2. call \in CallFields(call)
  BY <1>1, SlotCall DEF Read, InProgress
<1>3. PICK x : x = recent_group(call)
  OBVIOUS
<1>4. Tracked(x, V)
  BY <1>2, <1>3, RecentTracked
<1>5. /\ UNCHANGED <<stored, versions, issued, cache, told>>
      /\ calls' = [calls EXCEPT ![c] = x]
  BY <1>1, <1>3 DEF Read
<1> QED BY <1>4, <1>5, QuietHistory

LEMMA OutdatedHistory ==
  ASSUME CInv, NEW V, Past(V), NEW c \in Slots, Outdated(c)
  PROVE  Past(V)'
<1> DEFINE h == with_storage_group_detail(stored.group)
<1>1. PICK call : call = calls[c]
  OBVIOUS
<1>2. call \in CallFields(call)
  BY <1>1, SlotCall DEF Outdated, InProgress
<1>3. h \in CopiesOf(V[stored.version])
  BY DEF Past, History, CopiesOf
<1> HIDE DEF h
<1>4. PICK x : x = [call EXCEPT !.stage = "outdated", !.version = stored.version, !.group = h,
                                !.result = None, !.new = None]
  OBVIOUS
<1>5. x.stage = "outdated" /\ x.version = stored.version /\ x.group = h
  BY <1>2, <1>4 DEF CallFields
<1>6. /\ UNCHANGED <<stored, versions, issued, cache, told>>
      /\ calls' = [calls EXCEPT ![c] = x]
  BY <1>1, <1>4 DEF Outdated, h
<1>7. Tracked(x, V)
  BY <1>3, <1>5 DEF Tracked
<1> QED BY <1>6, <1>7, QuietHistory

LEMMA RelearnHistory ==
  ASSUME CInv, NEW V, Past(V), NEW c \in Slots, Relearn(c)
  PROVE  Past(V)'
<1>1. PICK call : call = calls[c]
  OBVIOUS
<1>2. call \in CallFields(call) /\ call.stage = "outdated"
  BY <1>1, SlotCall DEF Relearn, InProgress
<1>3. call.broker \in Brokers
  BY <1>2 DEF CallFields
<1>4. Tracked(call, V) /\ CachesTracked(cache, V) /\ Reported(told, V, versions)
  BY <1>1 DEF Past, History
<1>5. call.group \in CopiesOf(V[call.version])
  BY <1>2, <1>4 DEF Tracked
<1>6. PICK x : x = Retry(call)
  OBVIOUS
<1>7. x.stage = "read"
  BY <1>2, <1>6 DEF Retry, Again, CallFields
<1>8. /\ UNCHANGED <<stored, versions, issued, told>>
      /\ calls' = [calls EXCEPT ![c] = x]
      /\ Cache(call.broker, call.version, call.group)
  BY <1>1, <1>6 DEF Relearn
<1>9. CachesTracked(cache', V)
  BY <1>3, <1>4, <1>5, <1>8, CacheTracked
<1>10. Tracked(x, V)
  BY <1>7, IdleTracked
<1>11. Reported(told', V, versions)
  BY <1>4, <1>8
<1> QED BY <1>8, <1>9, <1>10, <1>11, SlotHistory

\* The request fails, or the commit of its offsets is stored.
LEMMA EndHistory ==
  ASSUME CInv, NEW V, Past(V), NEW c \in Slots, Fail(c) \/ Lose(c) \/ StoreOffsets(c)
  PROVE  Past(V)'
<1>1. Done(calls[c].req.member_id).kind = "done"
  BY DEF Done
<1>2. News(Done(calls[c].req.member_id)) = {}
  BY <1>1, QuietNews
<1>3. /\ UNCHANGED <<stored, versions, issued, cache, told>>
      /\ calls' = [calls EXCEPT ![c] = Idle]
  BY <1>2 DEF Fail, Lose, StoreOffsets, Answer
<1>4. PICK x : x = Idle
  OBVIOUS
<1>5. x.stage = "idle"
  BY <1>4 DEF Idle
<1>6. Tracked(x, V)
  BY <1>5, IdleTracked
<1> QED BY <1>3, <1>4, <1>6, QuietHistory

LEMMA StillHistory ==
  ASSUME CInv, NEW V, Past(V), Tick \/ UNCHANGED coordinatorVars
  PROVE  Past(V)'
<1>1. UNCHANGED <<stored, versions, issued, cache, calls, told>>
  BY DEF Tick, coordinatorVars
<1> QED BY <1>1 DEF Past

LEMMA CrashHistory ==
  ASSUME CInv, NEW V, Past(V), NEW b \in Brokers, Crash(b)
  PROVE  Past(V)'
<1>1. UNCHANGED <<stored, versions, issued, told>>
  BY DEF Crash
<1>2. \A a \in Brokers : cache'[a] = None \/ cache'[a] = cache[a]
  BY DEF Crash, CInv, CachesOK
<1>3. CachesTracked(cache', V)
  BY <1>2 DEF Past, History, CachesTracked
<1>4. \A c \in Slots : calls'[c] = Idle \/ calls'[c] = calls[c]
  BY DEF Crash
<1>5. Idle.stage = "idle"
  BY DEF Idle
<1>6. \A c \in Slots : Tracked(calls'[c], V)
  BY <1>4, <1>5, IdleTracked DEF Past, History
<1> QED BY <1>1, <1>3, <1>6 DEF Past, History

\* A request is answered with what a version says, or it is held.
LEMMA FinishHistory ==
  ASSUME CInv, NEW V, Past(V), NEW c \in Slots, NEW call, call \in CallFields(call), NEW result,
         Finish(c, call, result), UNCHANGED <<stored, versions, issued>>,
         CachesTracked(cache', V), NEW v \in 0 .. versions,
         \A n \in News(result.reply) : Says(V[v], n)
  PROVE  Past(V)'
<1>1. PICK x : calls' = [calls EXCEPT ![c] = x] /\ x.stage \in {"idle", "read"}
  BY FinishTold
<1>2. told' \subseteq told \cup News(result.reply)
  BY FinishTold
<1>3. Reported(told, V, versions)
  BY DEF Past, History
<1>4. Reported(told', V, versions)
  BY <1>2, <1>3 DEF Reported
<1>5. Tracked(x, V)
  BY <1>1, IdleTracked
<1> QED BY <1>1, <1>4, <1>5, SlotHistory

LEMMA LandedHistory ==
  ASSUME CInv, NEW V, Past(V), NEW c \in Slots, Landed(c)
  PROVE  Past(V)'
<1>1. PICK call : call = calls[c]
  OBVIOUS
<1>2. InProgress(call, stored, versions, issued, clock) /\ call.stage = "stored"
  BY <1>1, SlotCall DEF Landed
<1>3. call \in CallFields(call) /\ call.broker \in Brokers /\ call.version \in 0 .. versions
  BY <1>2, Bounds DEF InProgress, CallFields, Written
<1>4. Tracked(call, V) /\ CachesTracked(cache, V) /\ Reported(told, V, versions)
  BY <1>1 DEF Past, History
<1>5. /\ call.result.group \in CopiesOf(V[call.version])
      /\ \A n \in News(call.result.reply) : Says(V[call.version], n)
  BY <1>2, <1>4 DEF Tracked, CopiesOf
<1>6. UNCHANGED <<stored, versions, issued>> /\ Cache(call.broker, call.version, call.result.group)
  BY <1>1 DEF Landed
<1>7. CachesTracked(cache', V)
  BY <1>3, <1>4, <1>5, <1>6, CacheTracked
<1>8. CASE call.op = "commit" /\ call.result.reply.kind = "done"
  <2>1. PICK x : x = [call EXCEPT !.stage = "offsets", !.result = None, !.new = None]
    OBVIOUS
  <2>2. calls' = [calls EXCEPT ![c] = x] /\ UNCHANGED told
    BY <1>1, <1>8, <2>1 DEF Landed
  <2>3. x.stage = "offsets"
    BY <1>3, <2>1 DEF CallFields
  <2>4. Tracked(x, V)
    BY <2>3, IdleTracked
  <2>5. Reported(told', V, versions)
    BY <1>4, <2>2
  <2> QED BY <1>6, <1>7, <2>2, <2>4, <2>5, SlotHistory
<1>9. CASE ~ (call.op = "commit" /\ call.result.reply.kind = "done")
  <2>1. PICK result : result = call.result
    OBVIOUS
  <2>2. Finish(c, call, result)
    BY <1>1, <1>9, <2>1 DEF Landed
  <2>3. \A n \in News(result.reply) : Says(V[call.version], n)
    BY <1>5, <2>1
  <2> QED BY <1>3, <1>6, <1>7, <2>2, <2>3, FinishHistory
<1> QED BY <1>8, <1>9


LEMMA RunUnchangedHistory ==
  ASSUME CInv, NEW V, Past(V), NEW c \in Slots, NEW call, call \in CallFields(call), NEW result,
         RunUnchanged(c, call, result), UNCHANGED <<stored, versions, issued>>,
         CachesTracked(cache', V), NEW v \in 0 .. versions,
         \A n \in News(result.reply) : Says(V[v], n)
  PROVE  Past(V)'
<1>1. CASE \E x : /\ calls' = [calls EXCEPT ![c] = x]
                  /\ x.stage \in {"read", "offsets"}
                  /\ UNCHANGED told
  <2>1. PICK x : /\ calls' = [calls EXCEPT ![c] = x]
                 /\ x.stage \in {"read", "offsets"}
                 /\ UNCHANGED told
    BY <1>1
  <2>2. Tracked(x, V) /\ Reported(told', V, versions)
    BY <2>1, IdleTracked DEF Past, History
  <2> QED BY <2>1, <2>2, SlotHistory
<1>2. CASE Finish(c, call, result)
  BY <1>2, FinishHistory
<1>3. Again(call, "zero").stage = "read"
  BY DEF Again, CallFields
<1>4. [call EXCEPT !.stage = "offsets", !.group = None].stage = "offsets"
  BY DEF CallFields
<1>5. \/ calls' = [calls EXCEPT ![c] = Again(call, "zero")] /\ UNCHANGED told
      \/ /\ calls' = [calls EXCEPT ![c] = [call EXCEPT !.stage = "offsets", !.group = None]]
         /\ UNCHANGED told
      \/ Finish(c, call, result)
  BY DEF RunUnchanged
<1> QED BY <1>1, <1>2, <1>3, <1>4, <1>5

LEMMA RunHistory ==
  ASSUME CInv, NEW V, Past(V), NEW c \in Slots, Run(c)
  PROVE  Past(V)'
<1>1. PICK call : call = calls[c]
  OBVIOUS
<1>2. InProgress(call, stored, versions, issued, clock) /\ call.stage = "run" /\ call.op # "delete"
  BY <1>1, SlotCall DEF Run
<1>3. /\ Known(call.version, call.group, stored, versions, issued)
      /\ call.op \in {"join", "sync", "heartbeat", "leave", "commit", "fence"}
      /\ call.broker \in Brokers
      /\ call \in CallFields(call)
      /\ IsRequest(call.op, call.req, issued)
  BY <1>2, CoordinatorAssumption DEF InProgress, CallFields
<1>4. Tracked(call, V) /\ CachesTracked(cache, V) /\ Reported(told, V, versions)
  BY <1>1 DEF Past, History
<1>5. call.group \in CopiesOf(V[call.version]) /\ call.version \in 0 .. versions
  BY <1>2, <1>3, <1>4 DEF Tracked, Known
<1>6. OK(V[call.version])
  BY <1>5 DEF Past, History, Chain
<1>7. /\ UNCHANGED <<stored, versions, issued>>
      /\ Cache(call.broker, call.version, call.group) \/ UNCHANGED cache
  BY <1>1 DEF Run
<1>8. CachesTracked(cache', V)
  BY <1>3, <1>4, <1>5, <1>7, CacheTracked
<1>9. PICK new \in FreshIds(call) :
        LET result == Outcome(call, call.group, clock, new)
        IN  IF Unchanged(call, result) THEN RunUnchanged(c, call, result)
            ELSE /\ result.group.generation_id <= MaxGeneration
                 /\ calls' = [calls EXCEPT
                                ![c] = [@ EXCEPT !.stage = "store", !.new = new, !.group = None,
                                                 !.source = None, !.result = result]]
                 /\ UNCHANGED told
  BY <1>1 DEF Run
<1>10. PICK result : result = Outcome(call, call.group, clock, new)
  OBVIOUS
<1>11. CASE Unchanged(call, result)
  <2>1. RunUnchanged(c, call, result) /\ result.group = call.group
    BY <1>9, <1>10, <1>11 DEF Unchanged
  <2>2. call.op = "join" => JoinsAs(call.req, new, issued)
    BY <1>2, FreshIdsOK
  <2>3. /\ clock \in Nat /\ IsMap(issued, MemberIds, Instances \cup {None})
        /\ IdsIssued(call.group, issued)
    BY <1>3, Bounds DEF CInv, Sound, Known
  <2>4. PICK g, k : g = V[call.version] /\ k = call.group
    OBVIOUS
  <2>5. OK(g) /\ k \in CopiesOf(g) /\ IdsIssued(k, issued)
    BY <1>5, <1>6, <2>3, <2>4
  <2>6. PICK r : r = Outcome(call, k, clock, new)
    OBVIOUS
  <2>7. Proceeds(g, r, IdsAfter(call, issued, r.reply, new))
    BY <1>3, <2>2, <2>3, <2>5, <2>6, OutcomeLeads
  <2>8. r = result /\ r.group = k
    BY <1>10, <2>1, <2>4, <2>6
  <2>9. \A n \in News(result.reply) : Says(g, n)
    BY <2>5, <2>7, <2>8, CopySays DEF Proceeds
  <2>10. \A n \in News(result.reply) : Says(V[call.version], n)
    BY <2>4, <2>9
  <2> QED BY <1>3, <1>5, <1>7, <1>8, <2>1, <2>10, RunUnchangedHistory
<1>12. CASE ~ Unchanged(call, result)
  <2>1. PICK x : x = [call EXCEPT !.stage = "store", !.new = new, !.group = None,
                                  !.source = None, !.result = result]
    OBVIOUS
  <2>2. calls' = [calls EXCEPT ![c] = x] /\ UNCHANGED told
    BY <1>1, <1>9, <1>10, <1>12, <2>1
  <2>3. x.stage = "store"
    BY <1>3, <2>1 DEF CallFields
  <2>4. Tracked(x, V)
    BY <2>3, IdleTracked
  <2>5. Reported(told', V, versions)
    BY <1>4, <2>2
  <2> QED BY <1>7, <1>8, <2>2, <2>4, <2>5, SlotHistory
<1> QED BY <1>11, <1>12

\* What is known of the versions that there are stays known when there is one more.
LEMMA TrackedKept ==
  ASSUME CInv, NEW V, NEW W, \A v \in 0 .. versions : W[v] = V[v], NEW c \in Slots,
         Tracked(calls[c], V)
  PROVE  Tracked(calls[c], W)
<1>1. PICK call : call = calls[c]
  OBVIOUS
<1>2. CASE call.stage \notin {"run", "outdated", "stored"}
  BY <1>1, <1>2, IdleTracked
<1>3. CASE call.stage \in {"run", "outdated", "stored"}
  <2>1. InProgress(call, stored, versions, issued, clock)
    BY <1>1, <1>3, SlotCall
  <2>2. call.version \in 0 .. versions
    <3>1. call.stage \in {"run", "outdated"} =>
            Known(call.version, call.group, stored, versions, issued)
      BY <2>1 DEF InProgress
    <3>2. call.stage = "stored" => Written(call, stored, versions, issued)
      BY <2>1 DEF InProgress
    <3> QED BY <1>3, <3>1, <3>2, Bounds DEF Known, Written
  <2>3. W[call.version] = V[call.version]
    BY <2>2
  <2> QED BY <1>1, <2>3 DEF Tracked
<1> QED BY <1>2, <1>3

LEMMA CachesTrackedKept ==
  ASSUME CInv, NEW V, NEW W, \A v \in 0 .. versions : W[v] = V[v], CachesTracked(cache, V)
  PROVE  CachesTracked(cache, W)
<1> SUFFICES ASSUME NEW b \in Brokers, cache[b] # None
             PROVE  cache[b].group \in CopiesOf(W[cache[b].version])
  BY DEF CachesTracked
<1>1. cache[b].version \in 0 .. versions
  BY DEF CInv, CachesOK, Learned, Known
<1> QED BY <1>1 DEF CachesTracked

\* A write is made from the last version.
LEMMA StoreLeads ==
  ASSUME CInv, NEW V, Past(V), NEW c \in Slots, Store(c)
  PROVE  LET call == calls[c]
         IN  /\ Leads(V[versions], call.result.group, issued')
             /\ AssignedOnce(call.result.group)
             /\ \A n \in News(call.result.reply) : Says(call.result.group, n)
<1>1. PICK call : call = calls[c]
  OBVIOUS
<1>2. InProgress(call, stored, versions, issued, clock) /\ call.stage = "store"
  BY <1>1, SlotCall DEF Store
<1>3. /\ call.op \in {"join", "sync", "heartbeat", "leave", "commit", "fence"}
      /\ IsRequest(call.op, call.req, issued)
      /\ call.op = "join" => JoinsAs(call.req, call.new, issued)
  BY <1>1, <1>2, StoreParts
<1>4. issued' = IdsAfter(call, issued, call.result.reply, call.new)
  BY <1>1, StoreIssues
<1>5. PICK k : \E t \in 0 .. clock : /\ Known(call.version, k, stored, versions, issued)
                                     /\ call.result = Outcome(call, k, t, call.new)
  BY <1>2 DEF InProgress, Pending
<1>6. PICK t \in 0 .. clock : /\ Known(call.version, k, stored, versions, issued)
                              /\ call.result = Outcome(call, k, t, call.new)
  BY <1>5
<1>7. stored.version = versions /\ stored.group = V[versions] /\ versions \in 0 .. versions
  BY Bounds DEF Past, History
<1>8. call.version = stored.version
  BY <1>1, <1>6, <1>7, Bounds DEF Store, Accepts, Known
<1>9. PICK g, new : g = V[versions] /\ new = call.new
  OBVIOUS
<1>10. OK(g) /\ AssignedOnce(g) /\ k \in CopiesOf(g) /\ IdsIssued(k, issued) /\ t \in Nat
  BY <1>6, <1>7, <1>8, <1>9 DEF Past, History, Chain, Known
<1>11. IsMap(issued, MemberIds, Instances \cup {None})
  BY DEF CInv, Sound
<1>12. PICK r : r = Outcome(call, k, t, new)
  OBVIOUS
<1>13. Proceeds(g, r, IdsAfter(call, issued, r.reply, new))
  BY <1>3, <1>9, <1>10, <1>11, <1>12, OutcomeLeads
<1>14. r = call.result
  BY <1>6, <1>9, <1>12
<1> QED BY <1>1, <1>4, <1>9, <1>10, <1>13, <1>14 DEF Proceeds

LEMMA StoreHistory ==
  ASSUME CInv, NEW V, Past(V), NEW c \in Slots, Store(c)
  PROVE  \E W : Past(W)'
<1>1. PICK call, h, vs : call = calls[c] /\ h = call.result.group /\ vs = versions + 1
  OBVIOUS
<1>2. call \in CallFields(call) /\ call.stage = "store"
  BY <1>1, SlotCall DEF Store, InProgress
<1>3. OK(h) /\ KeepsIds(issued, issued')
  BY <1>1, <1>2, StoreParts, StoreIssues
<1>4. /\ Leads(V[versions], h, issued')
      /\ AssignedOnce(h)
      /\ \A n \in News(call.result.reply) : Says(h, n)
  BY <1>1, StoreLeads
<1>5. Chain(V, versions, issued) /\ versions \in Nat
  BY Bounds DEF Past, History
<1>6. PICK ids : ids = issued'
  OBVIOUS
<1>7. PICK W : /\ Chain(W, versions + 1, ids)
               /\ W[versions + 1] = h
               /\ \A v \in 0 .. versions : W[v] = V[v]
  <2>1. PICK W : W = [v \in 0 .. versions + 1 |-> IF v = versions + 1 THEN h ELSE V[v]]
    OBVIOUS
  <2>2. /\ Chain(W, versions + 1, ids)
        /\ W[versions + 1] = h
        /\ \A v \in 0 .. versions : W[v] = V[v]
    BY <1>3, <1>4, <1>5, <1>6, <2>1, ChainGrows
  <2> QED BY <2>2
<1>8. /\ stored' = [version |-> vs, group |-> h]
      /\ versions' = vs
      /\ UNCHANGED <<cache, told>>
  BY <1>1 DEF Store
<1>9. PICK x : x = [call EXCEPT !.stage = "stored", !.version = vs]
  OBVIOUS
<1>10. calls' = [calls EXCEPT ![c] = x]
  BY <1>1, <1>9 DEF Store
<1>11. x.stage = "stored" /\ x.version = vs /\ x.result = call.result
  BY <1>2, <1>9 DEF CallFields
<1>12. Tracked(x, W)
  BY <1>1, <1>4, <1>7, <1>11 DEF Tracked
<1>13. /\ calls'[c] = x
       /\ \A d \in Slots \ {c} : calls'[d] = calls[d]
  BY <1>10 DEF CInv, CallsOK
<1>14. \A d \in Slots : Tracked(calls[d], W)
  BY <1>7, TrackedKept DEF Past, History
<1>15. \A d \in Slots : Tracked(calls'[d], W)
  BY <1>12, <1>13, <1>14
<1>16. CachesTracked(cache', W)
  BY <1>7, <1>8, CachesTrackedKept DEF Past, History
<1>17. Reported(told', W, vs)
  <2>1. Reported(told, V, versions)
    BY DEF Past, History
  <2>2. \A v \in 0 .. versions : v \in 0 .. vs
    BY <1>1, <1>5
  <2> QED BY <1>7, <1>8, <2>1, <2>2 DEF Reported
<1>18. stored'.version = vs /\ stored'.group = W[vs]
  BY <1>1, <1>7, <1>8
<1>19. Chain(W, vs, issued')
  BY <1>1, <1>6, <1>7
<1>20. Past(W)'
  BY <1>8, <1>15, <1>16, <1>17, <1>18, <1>19 DEF Past, History
<1> QED BY <1>20

(***************************************************************************)
(* What members were told, if groups are not deleted.                      *)
(***************************************************************************)
\* No request deletes the group.
LEMMA NoDelete ==
  ASSUME CInv, "delete" \notin Ops, NEW c \in Slots
  PROVE  ~ (Refuse(c) \/ Decide(c) \/ Delete(c) \/ Forget(c))
<1>1. ASSUME calls[c].stage # "idle" PROVE calls[c].op # "delete"
  BY <1>1, SlotCall DEF InProgress, CallFields
<1>2. calls[c].stage \in {"delete", "deleted"} => calls[c].op = "delete"
  BY SlotCall DEF InProgress
<1> QED BY <1>1, <1>2 DEF Refuse, Decide, Delete, Forget

LEMMA TInit == Init => TInv
<1> SUFFICES ASSUME Init PROVE TInv
  OBVIOUS
<1>1. PICK V : V = [v \in 0 .. 0 |-> NewGroup]
  OBVIOUS
<1>2. 0 .. 0 = {0} /\ V[0] = NewGroup
  BY <1>1
<1>3. /\ stored = [version |-> 0, group |-> NewGroup]
      /\ versions = 0 /\ told = {}
      /\ \A b \in Brokers : cache[b] = None
      /\ \A c \in Slots : calls[c] = Idle
  BY DEF Init
<1>4. OK(NewGroup) /\ AssignedOnce(NewGroup)
  BY NewGroupOK DEF AssignedOnce, NewGroup
<1>5. Leads(NewGroup, NewGroup, issued)
  BY <1>4, FollowsReflexive, FollowsLeads DEF OK
<1>6. Chain(V, 0, issued)
  BY <1>2, <1>4, <1>5 DEF Chain
<1>7. stored.version = 0 /\ stored.group = V[0]
  BY <1>2, <1>3
<1>8. Idle.stage = "idle"
  BY DEF Idle
<1>9. \A c \in Slots : Tracked(calls[c], V)
  BY <1>3, <1>8, IdleTracked
<1>10. CachesTracked(cache, V) /\ Reported(told, V, 0)
  BY <1>3 DEF CachesTracked, Reported
<1>11. History(V, stored, versions, issued, cache, calls, told)
  BY <1>3, <1>6, <1>7, <1>9, <1>10 DEF History
<1> QED BY <1>11, CInit DEF TInv

LEMMA TNext == ASSUME "delete" \notin Ops PROVE TInv /\ [Next]_coordinatorVars => TInv'
<1> SUFFICES ASSUME TInv, [Next]_coordinatorVars PROVE TInv'
  OBVIOUS
<1>1. CInv /\ CInv'
  BY CNext DEF TInv
<1>2. PICK V : Past(V)
  BY DEF TInv, Past
<1>3. \E W : Past(W)'
  <2>1. CASE Tick \/ UNCHANGED coordinatorVars
    BY <1>1, <1>2, <2>1, StillHistory
  <2>2. ASSUME NEW c \in Slots, Step(c) PROVE \E W : Past(W)'
    <3>1. CASE Store(c)
      BY <1>1, <1>2, <3>1, StoreHistory
    <3>2. CASE Send(c)
      BY <1>1, <1>2, <3>2, SendHistory
    <3>3. CASE Read(c)
      BY <1>1, <1>2, <3>3, ReadHistory
    <3>4. CASE Run(c)
      BY <1>1, <1>2, <3>4, RunHistory
    <3>5. CASE Outdated(c)
      BY <1>1, <1>2, <3>5, OutdatedHistory
    <3>6. CASE Relearn(c)
      BY <1>1, <1>2, <3>6, RelearnHistory
    <3>7. CASE Fail(c) \/ Lose(c) \/ StoreOffsets(c)
      BY <1>1, <1>2, <3>7, EndHistory
    <3>8. CASE Landed(c)
      BY <1>1, <1>2, <3>8, LandedHistory
    <3>9. ~ (Refuse(c) \/ Decide(c) \/ Delete(c) \/ Forget(c))
      BY <1>1, NoDelete
    <3> QED BY <2>2, <3>1, <3>2, <3>3, <3>4, <3>5, <3>6, <3>7, <3>8, <3>9 DEF Step
  <2>3. ASSUME NEW b \in Brokers, Crash(b) PROVE \E W : Past(W)'
    BY <1>1, <1>2, <2>3, CrashHistory
  <2> QED BY <2>1, <2>2, <2>3 DEF Next
<1>4. PICK W : Past(W)'
  BY <1>3
<1> QED BY <1>1, <1>4 DEF TInv, Past

\* Two pieces of news come from two versions, of which one leads to the other.
LEMMA TwoVersions ==
  ASSUME TInv, NEW m \in told, NEW n \in told
  PROVE  \E g, h : /\ OK(g) /\ OK(h) /\ AssignedOnce(g) /\ AssignedOnce(h)
                   /\ Leads(g, h, issued)
                   /\ \/ Says(g, m) /\ Says(h, n)
                      \/ Says(g, n) /\ Says(h, m)
<1>1. PICK V : History(V, stored, versions, issued, cache, calls, told)
  BY DEF TInv
<1>2. PICK v \in 0 .. versions : Says(V[v], m)
  BY <1>1 DEF History, Reported
<1>3. PICK w \in 0 .. versions : Says(V[w], n)
  BY <1>1 DEF History, Reported
<1>4. OK(V[v]) /\ AssignedOnce(V[v]) /\ OK(V[w]) /\ AssignedOnce(V[w])
  BY <1>1 DEF History, Chain
<1>5. v <= w \/ w <= v
  OBVIOUS
<1>6. Leads(V[v], V[w], issued) \/ Leads(V[w], V[v], issued)
  BY <1>1, <1>5 DEF History, Chain
<1> QED BY <1>2, <1>3, <1>4, <1>6

LEMMA ToldAssigner == TInv => OneAssigner
<1> SUFFICES ASSUME TInv, NEW m \in told, NEW n \in told, m.assigns, n.assigns,
                    m.generation = n.generation
             PROVE  m.member = n.member
  BY DEF OneAssigner
<1>1. PICK g, h : /\ Leads(g, h, issued)
                  /\ \/ Says(g, m) /\ Says(h, n)
                     \/ Says(g, n) /\ Says(h, m)
  BY TwoVersions
<1> QED BY <1>1 DEF Says, Leads

\* What g and a later h of the same generation assign.
LEMMA LaterOwner ==
  ASSUME NEW g, NEW h, NEW ids, Leads(g, h, ids), AssignedOnce(h), NEW m, NEW n,
         Says(g, m), Says(h, n), ~ m.assigns, ~ n.assigns, m.generation = n.generation,
         m.member # n.member, m.partitions \cap n.partitions # {}
  PROVE  SameInstance(ids, n.member, m.member)
<1>1. /\ g.state = "Formed" /\ m.member \in DOMAIN g.assignments
      /\ m.partitions = g.assignments[m.member]
      /\ h.state = "Formed" /\ n.member \in DOMAIN h.assignments
      /\ n.partitions = h.assignments[n.member]
      /\ h.generation_id = g.generation_id
  BY DEF Says
<1>2. Inherits(g.assignments, h.assignments, ids) /\ Disjoint(h.assignments)
  BY <1>1 DEF Leads, AssignedOnce, is_completing_rebalance
<1>3. PICK k \in DOMAIN h.assignments : /\ h.assignments[k] = g.assignments[m.member]
                                        /\ k = m.member \/ SameInstance(ids, k, m.member)
  BY <1>1, <1>2 DEF Inherits
<1>4. k = n.member
  BY <1>1, <1>2, <1>3 DEF Disjoint
<1> QED BY <1>3, <1>4

LEMMA ToldOwner == TInv => OneOwner
<1> SUFFICES ASSUME TInv, NEW m \in told, NEW n \in told, m.generation = n.generation,
                    m.member # n.member, m.partitions \cap n.partitions # {}
             PROVE  issued[m.member] # None /\ issued[m.member] = issued[n.member]
  BY DEF OneOwner
<1>1. PICK g, h : /\ OK(g) /\ OK(h) /\ AssignedOnce(g) /\ AssignedOnce(h)
                  /\ Leads(g, h, issued)
                  /\ \/ Says(g, m) /\ Says(h, n)
                     \/ Says(g, n) /\ Says(h, m)
  BY TwoVersions
<1>2. ~ m.assigns /\ ~ n.assigns
  BY <1>1 DEF Says
<1>3. SameInstance(issued, n.member, m.member) \/ SameInstance(issued, m.member, n.member)
  BY <1>1, <1>2, LaterOwner
<1> QED BY <1>3 DEF SameInstance

\* If no request deletes the group, storage held one version after the other, what
\* every broker and every request knows is one of them, and whatever a member was
\* told of a round or of its partitions is what one of them says.
THEOREM ToldInvariant == ASSUME "delete" \notin Ops PROVE Spec => []TInv
<1>1. Init => TInv
  BY TInit
<1>2. TInv /\ [Next]_coordinatorVars => TInv'
  BY TNext
<1> QED BY <1>1, <1>2, PTL DEF Spec

\* However many brokers answer, from whatever caches, and whichever writes are lost:
\* in a generation one member is told to assign (join).  A group that is deleted
\* starts over at generation 1, which the hypothesis excludes.
THEOREM CoordinatorOneAssigner == ASSUME "delete" \notin Ops PROVE Spec => []OneAssigner
BY ToldInvariant, ToldAssigner, PTL

\* Nor is a partition delivered to two members in a generation, unless the second
\* is the same static member after a restart (sync, replace_static_member).
THEOREM CoordinatorOneOwner == ASSUME "delete" \notin Ops PROVE Spec => []OneOwner
BY ToldInvariant, ToldOwner, PTL
=============================================================================
