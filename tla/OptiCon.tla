------------------------------ MODULE OptiCon -------------------------------
(***************************************************************************)
(* Optimistic concurrency on one JSON document (meta.json, or the          *)
(* watermark.json of a partition) of the object store engine               *)
(* (src/nisshi-storage-dynostore/src/dynostore/opticon.rs), with the cache *)
(* of e-tags that lies under it (metadata.rs).  Each broker keeps the      *)
(* document that it last learned; with_mut puts a changed copy if the      *)
(* store still holds the version it was made from, and with reads the      *)
(* document with a conditional GET.  Locks are released between the steps. *)
(*                                                                         *)
(* A content is the sequence of updates that made it.  An e-tag is the     *)
(* place of a content in named, and 0 is no e-tag.                         *)
(***************************************************************************)
EXTENDS Integers, Sequences, Functions

CONSTANTS
    Brokers,    \* the processes that share the object store
    Slots,      \* bound: the calls in progress at a time
    Updates,    \* the closures given to with_mut; bound: each is used once
    ETagIsHash, \* whether a content has one e-tag (S3), or one for each put (memory)
    MaxFaults,  \* bound: how many faults happen
    None        \* no call

ASSUME OptiConAssumption == MaxFaults \in Nat /\ ETagIsHash \in BOOLEAN

VARIABLES
    object,     \* the e-tag of the object in the store
    named,      \* the contents that got an e-tag
    memo,       \* each broker's DataVersion
    entry,      \* each broker's CacheEntry of the object, an e-tag
    calls,      \* the call in each slot, or None
    used,       \* the updates used so far
    faults      \* how many faults happened

vars == <<object, named, memo, entry, calls, used, faults>>

\* No document reads as the default one.
Content(e_tag) == IF e_tag = 0 THEN <<>> ELSE named[e_tag]

NoData == [version |-> 0, data |-> <<>>]

Doc == INSTANCE Document WITH document <- Content(object)

Init ==
    /\ object = 0
    /\ named = <<>>
    /\ memo = [b \in Brokers |-> NoData]
    /\ entry = [b \in Brokers |-> 0]
    /\ calls = [c \in Slots |-> None]
    /\ used = {}
    /\ faults = 0

(***************************************************************************)
(* Calls.  version is the e-tag that the call made its request with, tag   *)
(* the one in the answer, and data the content that goes with the request  *)
(* or the answer.                                                          *)
(***************************************************************************)
\* The broker's next step in the call, from one stage to another.
At(c, stage) == calls[c] # None /\ calls[c].stage = stage

Goto(c, stage) == calls' = [calls EXCEPT ![c].stage = stage]

\* The memo is up to date: with runs its closure, and with_mut does so again.
Known(c) ==
    calls' = [calls EXCEPT ![c] =
                [@ EXCEPT !.stage = IF calls[c].op = "with" THEN "apply" ELSE "modify",
                          !.tag = 0, !.data = <<>>]]

StartWith(c, b) ==
    /\ calls[c] = None
    /\ calls' = [calls EXCEPT ![c] =
                    [op |-> "with", broker |-> b, update |-> None, stage |-> "look",
                     version |-> 0, tag |-> 0, data |-> <<>>]]
    /\ UNCHANGED <<object, named, memo, entry, used, faults>>

StartWithMut(c, b, u) ==
    /\ calls[c] = None
    /\ u \notin used
    /\ used' = used \cup {u}
    /\ calls' = [calls EXCEPT ![c] =
                    [op |-> "with_mut", broker |-> b, update |-> u, stage |-> "modify",
                     version |-> 0, tag |-> 0, data |-> <<>>]]
    /\ UNCHANGED <<object, named, memo, entry, faults>>

(***************************************************************************)
(* with_mut.                                                               *)
(***************************************************************************)
\* The closure changes a copy of the memo, or refuses and leaves the copy as it is.
\* The copy is put in both cases.
Modify(c) ==
    /\ At(c, "modify")
    /\ LET m == memo[calls[c].broker]
       IN  \E data \in {m.data, Append(m.data, calls[c].update)} :
            calls' = [calls EXCEPT ![c] = [@ EXCEPT !.stage = "put", !.version = m.version,
                                                    !.data = data]]
    /\ UNCHANGED <<object, named, memo, entry, used, faults>>

\* The e-tag that the store gives to a content is one of these.
ETags(data) ==
    IF ETagIsHash /\ data \in Range(named)
    THEN {t \in 1 .. Len(named) : named[t] = data}
    ELSE {Len(named) + 1}

\* The store takes the content of call c under an e-tag.
Take(c, t) ==
    /\ object' = t
    /\ named' = IF t > Len(named) THEN Append(named, calls[c].data) ELSE named
    /\ calls' = [calls EXCEPT ![c] = [@ EXCEPT !.stage = "acked", !.tag = t]]
    /\ UNCHANGED <<memo, entry, used, faults>>

\* Mutant of Put: PutMode::Overwrite.
PutAny(c) ==
    /\ At(c, "put")
    /\ \E t \in ETags(calls[c].data) : Take(c, t)

\* PutMode::Update of the version, or PutMode::Create if there is none.
Put(c) ==
    /\ At(c, "put")
    /\ object = calls[c].version
    /\ \E t \in ETags(calls[c].data) : Take(c, t)

\* Precondition or AlreadyExists: get, without an e-tag.
Refused(c) ==
    /\ At(c, "put")
    /\ object # calls[c].version
    /\ calls' = [calls EXCEPT ![c] = [@ EXCEPT !.stage = "fetch", !.version = 0, !.data = <<>>]]
    /\ UNCHANGED <<object, named, memo, entry, used, faults>>

\* Cache::put_opts notes the new e-tag,
Acked(c) ==
    /\ At(c, "acked")
    /\ entry' = [entry EXCEPT ![calls[c].broker] = calls[c].tag]
    /\ Goto(c, "finish")
    /\ UNCHANGED <<object, named, memo, used, faults>>

\* Mutant of Finish: the memo takes the e-tag from the cache.
FinishWithEntry(c) ==
    /\ At(c, "finish")
    /\ memo' = [memo EXCEPT ![calls[c].broker] =
                    [version |-> entry[calls[c].broker], data |-> calls[c].data]]
    /\ calls' = [calls EXCEPT ![c] = None]
    /\ UNCHANGED <<object, named, entry, used, faults>>

\* then with_mut keeps the content under it, and returns.
Finish(c) ==
    /\ At(c, "finish")
    /\ memo' = [memo EXCEPT ![calls[c].broker] =
                    [version |-> calls[c].tag, data |-> calls[c].data]]
    /\ calls' = [calls EXCEPT ![c] = None]
    /\ UNCHANGED <<object, named, entry, used, faults>>

(***************************************************************************)
(* with, and the get of with_mut.                                          *)
(***************************************************************************)
Look(c) ==
    /\ At(c, "look")
    /\ calls' = [calls EXCEPT ![c] = [@ EXCEPT !.stage = "ask",
                                              !.version = memo[calls[c].broker].version]]
    /\ UNCHANGED <<object, named, memo, entry, used, faults>>

\* Cache::get_opts answers NotModified itself if the e-tag is the one it noted.
Ask(c) ==
    /\ At(c, "ask")
    /\ IF calls[c].version # 0 /\ entry[calls[c].broker] = calls[c].version
       THEN Known(c) ELSE Goto(c, "fetch")
    /\ UNCHANGED <<object, named, memo, entry, used, faults>>

\* The store answers NotFound, NotModified, or the object.
Fetch(c) ==
    /\ At(c, "fetch")
    /\ IF object = 0 THEN Goto(c, "missing")
       ELSE IF object = calls[c].version THEN Goto(c, "unmodified")
       ELSE calls' = [calls EXCEPT ![c] = [@ EXCEPT !.stage = "reply", !.tag = object,
                                                    !.data = named[object]]]
    /\ UNCHANGED <<object, named, memo, entry, used, faults>>

Unmodified(c) ==
    /\ At(c, "unmodified")
    /\ entry' = [entry EXCEPT ![calls[c].broker] = calls[c].version]
    /\ Known(c)
    /\ UNCHANGED <<object, named, memo, used, faults>>

Missing(c) ==
    /\ At(c, "missing")
    /\ memo' = [memo EXCEPT ![calls[c].broker] = NoData]
    /\ Known(c)
    /\ UNCHANGED <<object, named, entry, used, faults>>

\* The e-tag is noted when the answer starts, and the memo replaced when it ends.
Enter(c) ==
    /\ At(c, "reply")
    /\ entry' = [entry EXCEPT ![calls[c].broker] = calls[c].tag]
    /\ Goto(c, "learn")
    /\ UNCHANGED <<object, named, memo, used, faults>>

\* Mutant of Learn: the first version that the broker learned is kept.
LearnOnce(c) ==
    /\ At(c, "learn")
    /\ memo' = [memo EXCEPT ![calls[c].broker] =
                    IF @ = NoData THEN [version |-> calls[c].tag, data |-> calls[c].data] ELSE @]
    /\ Known(c)
    /\ UNCHANGED <<object, named, entry, used, faults>>

Learn(c) ==
    /\ At(c, "learn")
    /\ memo' = [memo EXCEPT ![calls[c].broker] =
                    [version |-> calls[c].tag, data |-> calls[c].data]]
    /\ Known(c)
    /\ UNCHANGED <<object, named, entry, used, faults>>

\* The closure of with runs on the memo as it is by now.
Apply(c) ==
    /\ At(c, "apply")
    /\ calls' = [calls EXCEPT ![c] = None]
    /\ UNCHANGED <<object, named, memo, entry, used, faults>>

(***************************************************************************)
(* The environment.                                                        *)
(***************************************************************************)
\* The retention of the cache entry, 5 s, is over.
Expire(b) ==
    /\ entry[b] # 0
    /\ entry' = [entry EXCEPT ![b] = 0]
    /\ UNCHANGED <<object, named, memo, calls, used, faults>>

Fault == faults < MaxFaults /\ faults' = faults + 1

\* The answer to a put is lost, and the client of the object store sends it again.
Repeat(c) ==
    /\ Fault
    /\ At(c, "acked")
    /\ Goto(c, "put")
    /\ UNCHANGED <<object, named, memo, entry, used>>

\* The store answers an error, or its answer is lost: the call returns the error.
Fail(c) ==
    /\ Fault
    /\ calls[c] # None
    /\ calls[c].stage \in {"put", "acked", "fetch", "reply", "learn"}
    /\ calls' = [calls EXCEPT ![c] = None]
    /\ UNCHANGED <<object, named, memo, entry, used>>

\* Another broker deletes the topic, and its watermark document.
Delete ==
    /\ Fault
    /\ object' = 0
    /\ UNCHANGED <<named, memo, entry, calls, used>>

Start(c) ==
    \E b \in Brokers : StartWith(c, b) \/ \E u \in Updates : StartWithMut(c, b, u)

Step(c) ==
    \/ Modify(c) \/ Put(c) \/ Refused(c) \/ Acked(c) \/ Finish(c)
    \/ Look(c) \/ Ask(c) \/ Fetch(c) \/ Unmodified(c) \/ Missing(c)
    \/ Enter(c) \/ Learn(c) \/ Apply(c)

Next ==
    \/ \E c \in Slots : Start(c) \/ Step(c) \/ Repeat(c) \/ Fail(c)
    \/ \E b \in Brokers : Expire(b)
    \/ Delete

Spec == Init /\ [][Next]_vars

\* The store answers, and the runtime polls each call again.
FairSpec == Spec /\ \A c \in Slots : WF_vars(Step(c))

(***************************************************************************)
(* Properties.                                                             *)
(***************************************************************************)
Stages == {"modify", "put", "acked", "finish", "look", "ask", "fetch", "missing",
           "unmodified", "reply", "learn", "apply"}

Call ==
    [op : {"with", "with_mut"}, broker : Brokers, update : Updates \cup {None},
     stage : Stages, version : 0 .. Len(named), tag : 0 .. Len(named), data : Seq(Updates)]

TypeOK ==
    /\ named \in Seq(Seq(Updates))
    /\ object \in 0 .. Len(named)
    /\ memo \in [Brokers -> [version : 0 .. Len(named), data : Seq(Updates)]]
    /\ entry \in [Brokers -> 0 .. Len(named)]
    /\ calls \in [Slots -> Call \cup {None}]
    /\ used \subseteq Updates
    /\ faults \in 0 .. MaxFaults

\* The brokers change the document one update at a time, each on the result of the
\* one before: none is lost, whatever version the broker's memo was (with_mut).
DocumentIsAtomic == Doc!Spec

\* An answer holds the content of its e-tag, and a request to put one was made from
\* the content of the e-tag that it is conditional on.
Faithful(call) ==
    /\ call.stage \in {"acked", "finish", "reply", "learn"} => call.data = Content(call.tag)
    /\ call.stage \in {"put", "acked"}
        => call.data \in {Content(call.version), Append(Content(call.version), call.update)}

\* A memo, and an answer on its way to it, holds the content of its e-tag, although
\* the two come from different calls, and locks are released between them (get,
\* with, with_mut).
VersionsNameData ==
    /\ \A b \in Brokers : memo[b].data = Content(memo[b].version)
    /\ \A c \in Slots : calls[c] # None => Faithful(calls[c])

\* Every call returns: a with_mut that loses to others, or that starts from an old
\* memo, does not retry for ever (with_mut).
EveryCallReturns == \A c \in Slots : calls[c] # None ~> calls[c] = None
=============================================================================
