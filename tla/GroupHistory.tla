---------------------------- MODULE GroupHistory ----------------------------
(***************************************************************************)
(* The atomic group with a record of what its clients were told.           *)
(***************************************************************************)
EXTENDS Group

VARIABLES
    assigners,  \* the members told to assign as the leader, in the current generation
    delivered   \* [member, partitions] of each assignment sent in the current generation

vars == <<group, clock, issued, assigners, delivered>>

HInit == Init /\ assigners = {} /\ delivered = {}

\* What was said in a generation is forgotten when the next one starts.
Said(S) == IF group'.generation_id = group.generation_id THEN S ELSE {}

Record(reply) ==
    /\ assigners' = Said(assigners) \cup Assigner(reply)
    /\ delivered' = Said(delivered) \cup Delivery(reply)

HJoin ==
    \E g \in Copies, now \in Now, i \in Identities \cup NoIdentities, o \in JoinOptions :
        \E new \in NewIds(i) :
            /\ Join(g, now, JoinRequestOf(i, o), new)
            /\ Record(join(settle(g, now), now, JoinRequestOf(i, o), new).reply)

HSync ==
    \E g \in Copies, now \in Now, i \in Identities, n \in Generations,
       p \in Protocols \cup {None}, plan \in Plans :
        /\ Sync(g, now, SyncRequestOf(i, n, p, plan))
        /\ Record(sync(settle(g, now), now, SyncRequestOf(i, n, p, plan)).reply)

HOther ==
    /\ Tick \/ HeartbeatStep \/ LeaveStep \/ CommitStep
    /\ Record(Done(None))

HDelete == Delete /\ assigners' = {} /\ delivered' = {}

HNext == HJoin \/ HSync \/ HOther \/ HDelete

HSpec == HInit /\ [][HNext]_vars

(***************************************************************************)
(* Properties.                                                             *)
(***************************************************************************)
\* At most one member of a generation is told to assign: two leaders would both
\* compute an assignment of the same partitions (join_response, complete_join).
OneAssigner == \A m, n \in assigners : m = n

\* In one generation no partition is delivered to two members, unless the second
\* is the same static member after a restart (sync, replacement without rebalance).
OneOwner ==
    \A d, e \in delivered :
        d.member # e.member /\ d.partitions \cap e.partitions # {}
            => issued[d.member] # None /\ issued[d.member] = issued[e.member]

\* A member that waits in the join phase stays a member, however long it waits,
\* until it leaves or a restarted instance takes its place: nobody else's request
\* removes it (is_waiting, complete_join).
WaitingMemberKept ==
    [][group.join_phase # None /\ group' # NewGroup =>
        \A m \in group.join_phase.joined :
            \/ m \in DOMAIN group'.members
            \/ /\ issued[m] # None
               /\ \E n \in DOMAIN group'.members : issued'[n] = issued[m]
            \/ \E g \in Copies, now \in Now, ids \in LeaveRequests :
                  m \in leaving_members(settle(g, now), ids) /\ Leave(g, now, ids)]_vars
=============================================================================
