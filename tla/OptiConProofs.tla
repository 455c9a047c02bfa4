--------------------------- MODULE OptiConProofs ----------------------------
(***************************************************************************)
(* OptiCon implements Document, for any number of brokers, calls, updates  *)
(* and faults, and whether or not an e-tag is a hash of the content.       *)
(***************************************************************************)
EXTENDS OptiCon, TLAPS

\* A call that changes the document has an update to make.
HasUpdate(call) ==
    /\ call.op = "with_mut" => call.update \in Updates
    /\ call.stage \in {"modify", "put", "acked", "finish"} => call.op = "with_mut"

\* The inductive invariant.  Faithful and HasUpdate say what a call must carry so
\* that the next turn of its loop is made from one version of the document.
Inv ==
    /\ TypeOK
    /\ VersionsNameData
    /\ \A c \in Slots : calls[c] # None => HasUpdate(calls[c])

(***************************************************************************)
(* E-tags and contents.                                                    *)
(***************************************************************************)
\* An e-tag is the name of a content in the sequence.
LEMMA ContentType ==
  ASSUME TypeOK, NEW t \in 0 .. Len(named)
  PROVE  Content(t) \in Seq(Updates)
BY DEF TypeOK, Content

\* The content of the new e-tag is the one that was put, and the old e-tags keep theirs.
LEMMA TakeNames ==
  ASSUME TypeOK, NEW c \in Slots, calls[c] # None,
         NEW t \in ETags(calls[c].data), Take(c, t)
  PROVE  /\ named' \in Seq(Seq(Updates))
         /\ Len(named) <= Len(named')
         /\ t \in 1 .. Len(named')
         /\ named'[t] = calls[c].data
         /\ \A e \in 0 .. Len(named) : Content(e)' = Content(e)
<1>1. calls[c].data \in Seq(Updates)
  BY DEF TypeOK, Call
<1>2. named \in Seq(Seq(Updates))
  BY DEF TypeOK
<1>3. CASE t \in 1 .. Len(named) /\ named[t] = calls[c].data
  <2>1. named' = named
    BY <1>2, <1>3 DEF Take
  <2> QED BY <1>2, <1>3, <2>1 DEF Content
<1>4. CASE t = Len(named) + 1
  <2>1. named' = Append(named, calls[c].data)
    BY <1>2, <1>4 DEF Take
  <2>2. /\ named' \in Seq(Seq(Updates))
        /\ Len(named') = Len(named) + 1
        /\ named'[Len(named) + 1] = calls[c].data
        /\ \A e \in 1 .. Len(named) : named'[e] = named[e]
    BY <1>1, <1>2, <2>1
  <2> QED BY <1>2, <1>4, <2>2 DEF Content
<1> QED BY <1>3, <1>4 DEF ETags

(***************************************************************************)
(* Steps of calls.                                                         *)
(***************************************************************************)
\* What a call may become in a step that names no content.
Sound(call) == call = None \/ (call \in Call /\ Faithful(call) /\ HasUpdate(call))

\* A step that names no content and changes one call keeps all calls sound.
LEMMA OneCallChanges ==
  ASSUME Inv, named' = named, NEW c \in Slots, NEW k, Sound(k),
         calls' = [calls EXCEPT ![c] = k]
  PROVE  /\ calls' \in [Slots -> Call \cup {None}]'
         /\ \A d \in Slots : calls'[d] # None
                => Faithful(calls[d])' /\ HasUpdate(calls[d])'
<1>1. Call' = Call
  BY DEF Call
<1>2. \A d \in Slots : Sound(calls'[d])
  BY DEF Inv, TypeOK, VersionsNameData, Sound
<1>3. calls' \in [Slots -> Call \cup {None}]
  BY DEF Inv, TypeOK, Sound
<1>4. ASSUME NEW d \in Slots, calls'[d] # None
      PROVE  Faithful(calls[d])' /\ HasUpdate(calls[d])'
  <2>1. Faithful(calls'[d]) /\ HasUpdate(calls'[d])
    BY <1>2, <1>4 DEF Sound
  <2> QED BY <2>1 DEF Faithful, HasUpdate, Content
<1> QED BY <1>1, <1>3, <1>4

\* A step that names no content and leaves the memos true keeps the invariant.
LEMMA InvAfterCallChange ==
  ASSUME Inv, named' = named, NEW c \in Slots, NEW k, Sound(k),
         calls' = [calls EXCEPT ![c] = k],
         object' \in 0 .. Len(named),
         memo' \in [Brokers -> [version : 0 .. Len(named), data : Seq(Updates)]],
         \A b \in Brokers : memo'[b].data = Content(memo'[b].version),
         entry' \in [Brokers -> 0 .. Len(named)],
         used' \subseteq Updates,
         faults' \in 0 .. MaxFaults
  PROVE  Inv'
<1>1. /\ calls' \in [Slots -> Call \cup {None}]'
      /\ \A d \in Slots : calls'[d] # None
                => Faithful(calls[d])' /\ HasUpdate(calls[d])'
  BY OneCallChanges
<1>2. TypeOK'
  BY <1>1 DEF Inv, TypeOK
<1>3. VersionsNameData'
  BY <1>1 DEF VersionsNameData, Content
<1> QED BY <1>1, <1>2, <1>3 DEF Inv

\* The parts of the invariant for the call at c.
LEMMA CallSound ==
  ASSUME Inv, NEW c \in Slots, calls[c] # None
  PROVE  calls[c] \in Call /\ Faithful(calls[c]) /\ HasUpdate(calls[c])
BY DEF Inv, TypeOK, VersionsNameData

\* The memo of a broker is true.
LEMMA MemoTrue ==
  ASSUME Inv, NEW b \in Brokers
  PROVE  /\ memo[b].version \in 0 .. Len(named)
         /\ memo[b].data \in Seq(Updates)
         /\ memo[b].data = Content(memo[b].version)
BY DEF Inv, TypeOK, VersionsNameData

\* A call may carry no e-tag and no content.
LEMMA NothingCarried ==
  ASSUME Inv
  PROVE  0 \in 0 .. Len(named) /\ <<>> \in Seq(Updates)
BY DEF Inv, TypeOK

\* The document has no content before the first put.
LEMMA InitInv == Init => Inv
<1> SUFFICES ASSUME Init PROVE Inv
  OBVIOUS
<1>1. named \in Seq(Seq(Updates)) /\ Len(named) = 0
  BY DEF Init
<1>2. <<>> \in Seq(Updates)
  OBVIOUS
<1>3. TypeOK
  BY <1>1, <1>2, OptiConAssumption DEF Init, TypeOK, NoData
<1> QED BY <1>3 DEF Inv, Init, VersionsNameData, NoData, Content

\* Steps that change one call, and neither a memo nor a cache entry.
LEMMA StartInv ==
  ASSUME Inv, NEW c \in Slots, Start(c)
  PROVE  Inv'
<1>1. PICK b \in Brokers : StartWith(c, b) \/ \E u \in Updates : StartWithMut(c, b, u)
  BY DEF Start
<1>2. <<>> \in Seq(Updates) /\ 0 \in 0 .. Len(named)
  BY DEF Inv, TypeOK
<1>3. CASE StartWith(c, b)
  <2> DEFINE k == [op |-> "with", broker |-> b, update |-> None, stage |-> "look",
                   version |-> 0, tag |-> 0, data |-> <<>>]
  <2>1. Sound(k)
    BY <1>2 DEF Sound, Call, Stages, Faithful, HasUpdate
  <2>2. calls' = [calls EXCEPT ![c] = k]
    BY <1>3 DEF StartWith
  <2> HIDE DEF k
  <2> QED BY <1>3, <2>1, <2>2, MemoTrue, InvAfterCallChange DEF StartWith, Inv, TypeOK
<1>4. CASE \E u \in Updates : StartWithMut(c, b, u)
  <2>0. PICK u \in Updates : StartWithMut(c, b, u)
    BY <1>4
  <2> DEFINE k == [op |-> "with_mut", broker |-> b, update |-> u, stage |-> "modify",
                   version |-> 0, tag |-> 0, data |-> <<>>]
  <2>1. Sound(k)
    BY <1>2 DEF Sound, Call, Stages, Faithful, HasUpdate
  <2>2. calls' = [calls EXCEPT ![c] = k]
    BY <2>0 DEF StartWithMut
  <2> HIDE DEF k
  <2> QED BY <2>0, <2>1, <2>2, MemoTrue, InvAfterCallChange DEF StartWithMut, Inv, TypeOK
<1> QED BY <1>1, <1>3, <1>4

\* The call of Known, in the form that the steps use.
KnownCall(call) ==
    [call EXCEPT !.stage = IF call.op = "with" THEN "apply" ELSE "modify",
                 !.tag = 0, !.data = <<>>]

\* A call whose memo is up to date carries nothing from the answer.
LEMMA KnownSound ==
  ASSUME Inv, NEW c \in Slots, calls[c] # None, Known(c)
  PROVE  Sound(KnownCall(calls[c])) /\ calls' = [calls EXCEPT ![c] = KnownCall(calls[c])]
<1>1. calls[c] \in Call /\ HasUpdate(calls[c])
  BY CallSound
<1> DEFINE k == KnownCall(calls[c])
<1>2. k \in Call
  BY <1>1, NothingCarried DEF KnownCall, Call, Stages
<1>3. /\ k.stage = IF calls[c].op = "with" THEN "apply" ELSE "modify"
      /\ k.op = calls[c].op /\ k.update = calls[c].update
  BY <1>1 DEF KnownCall, Call
<1>4. calls[c].op \in {"with", "with_mut"}
  BY <1>1 DEF Call
<1>5. Sound(k)
  BY <1>1, <1>2, <1>3, <1>4 DEF Sound, Faithful, HasUpdate
<1>6. calls' = [calls EXCEPT ![c] = k]
  BY DEF Known, KnownCall, Inv, TypeOK
<1> QED BY <1>5, <1>6

\* The closure runs on a copy of a true memo.
LEMMA ModifyInv ==
  ASSUME Inv, NEW c \in Slots, Modify(c)
  PROVE  Inv'
<1>1. calls[c] # None /\ calls[c].stage = "modify"
  BY DEF Modify, At
<1>2. calls[c] \in Call /\ calls[c].update \in Updates /\ calls[c].op = "with_mut"
  BY <1>1, CallSound DEF HasUpdate
<1>3. calls[c].broker \in Brokers
  BY <1>2 DEF Call
<1> DEFINE m == memo[calls[c].broker]
<1>4. PICK data \in {m.data, Append(m.data, calls[c].update)} :
        calls' = [calls EXCEPT ![c] = [calls[c] EXCEPT !.stage = "put",
                                        !.version = m.version, !.data = data]]
  BY <1>2 DEF Modify, Inv, TypeOK
<1> DEFINE k == [calls[c] EXCEPT !.stage = "put", !.version = m.version, !.data = data]
<1>5. /\ m.version \in 0 .. Len(named)
      /\ m.data \in Seq(Updates)
      /\ m.data = Content(m.version)
  BY <1>3, MemoTrue
<1>6. data \in Seq(Updates)
  BY <1>2, <1>4, <1>5
<1>7. Sound(k)
  <2>1. k \in Call
    BY <1>2, <1>5, <1>6 DEF Call, Stages
  <2>2. /\ k.stage = "put" /\ k.data = data /\ k.version = m.version
        /\ k.update = calls[c].update /\ k.op = "with_mut"
    BY <1>2 DEF Call
  <2>3. Faithful(k)
    BY <1>4, <1>5, <2>2 DEF Faithful
  <2> QED BY <1>2, <2>1, <2>2, <2>3 DEF Sound, HasUpdate
<1>8. calls' = [calls EXCEPT ![c] = k]
  BY <1>4
<1> HIDE DEF k
<1> QED BY <1>7, <1>8, MemoTrue, InvAfterCallChange DEF Modify, Inv, TypeOK

\* A refused put starts a read.
LEMMA RefusedInv ==
  ASSUME Inv, NEW c \in Slots, Refused(c)
  PROVE  Inv'
<1>1. calls[c] # None /\ calls[c].stage = "put"
  BY DEF Refused, At
<1>2. /\ calls[c] \in Call
      /\ Faithful(calls[c])
      /\ HasUpdate(calls[c])
      /\ calls[c].broker \in Brokers
  BY <1>1, CallSound DEF Call
<1> DEFINE k == [calls[c] EXCEPT !.stage = "fetch", !.version = 0, !.data = <<>>]
<1>3. Sound(k)
  <2>1. k \in Call
    BY <1>2, NothingCarried DEF Call, Stages
  <2>2. k.stage = "fetch" /\ k.op = calls[c].op /\ k.update = calls[c].update
    BY <1>2 DEF Call
  <2> QED BY <1>2, <2>1, <2>2 DEF Sound, Faithful, HasUpdate
<1>4. calls' = [calls EXCEPT ![c] = k]
  BY DEF Refused
<1> HIDE DEF k
<1> QED BY <1>3, <1>4, MemoTrue, InvAfterCallChange DEF Refused, Inv, TypeOK

\* The e-tag of a put goes to the cache.
LEMMA AckedInv ==
  ASSUME Inv, NEW c \in Slots, Acked(c)
  PROVE  Inv'
<1>1. calls[c] # None /\ calls[c].stage = "acked"
  BY DEF Acked, At
<1>2. /\ calls[c] \in Call
      /\ Faithful(calls[c])
      /\ HasUpdate(calls[c])
      /\ calls[c].broker \in Brokers
  BY <1>1, CallSound DEF Call
<1> DEFINE k == [calls[c] EXCEPT !.stage = "finish"]
<1>3. Sound(k)
  <2>1. k \in Call
    BY <1>2 DEF Call, Stages
  <2>2. /\ k.stage = "finish" /\ k.op = calls[c].op /\ k.update = calls[c].update
        /\ k.data = calls[c].data /\ k.tag = calls[c].tag
    BY <1>2 DEF Call
  <2> QED BY <1>1, <1>2, <2>1, <2>2 DEF Sound, Faithful, HasUpdate
<1>4. calls' = [calls EXCEPT ![c] = k]
  BY DEF Acked, Goto
<1>5. entry' \in [Brokers -> 0 .. Len(named)]
  BY <1>2 DEF Acked, Inv, TypeOK, Call
<1> HIDE DEF k
<1> QED BY <1>3, <1>4, <1>5, MemoTrue, InvAfterCallChange DEF Acked, Inv, TypeOK

\* The memo gets the content that was put, under the e-tag of the answer.
LEMMA FinishInv ==
  ASSUME Inv, NEW c \in Slots, Finish(c)
  PROVE  Inv'
<1>1. calls[c] # None /\ calls[c].stage = "finish"
  BY DEF Finish, At
<1>2. /\ calls[c] \in Call
      /\ Faithful(calls[c])
      /\ HasUpdate(calls[c])
      /\ calls[c].broker \in Brokers
  BY <1>1, CallSound DEF Call
<1>3. /\ memo' \in [Brokers -> [version : 0 .. Len(named), data : Seq(Updates)]]
      /\ \A b \in Brokers : memo'[b].data = Content(memo'[b].version)
  <2>1. /\ calls[c].tag \in 0 .. Len(named)
        /\ calls[c].data \in Seq(Updates)
        /\ calls[c].data = Content(calls[c].tag)
    BY <1>1, <1>2 DEF Call, Faithful
  <2>2. memo' = [memo EXCEPT ![calls[c].broker] =
                    [version |-> calls[c].tag, data |-> calls[c].data]]
    BY DEF Finish
  <2>3. memo \in [Brokers -> [version : 0 .. Len(named), data : Seq(Updates)]]
    BY DEF Inv, TypeOK
  <2> QED BY <1>2, <2>1, <2>2, <2>3, MemoTrue
<1>4. Sound(None)
  BY DEF Sound
<1>5. calls' = [calls EXCEPT ![c] = None]
  BY DEF Finish
<1> QED BY <1>3, <1>4, <1>5, InvAfterCallChange DEF Finish, Inv, TypeOK

\* A read takes the e-tag of the memo.
LEMMA LookInv ==
  ASSUME Inv, NEW c \in Slots, Look(c)
  PROVE  Inv'
<1>1. calls[c] # None /\ calls[c].stage = "look"
  BY DEF Look, At
<1>2. /\ calls[c] \in Call
      /\ Faithful(calls[c])
      /\ HasUpdate(calls[c])
      /\ calls[c].broker \in Brokers
  BY <1>1, CallSound DEF Call
<1> DEFINE k == [calls[c] EXCEPT !.stage = "ask", !.version = memo[calls[c].broker].version]
<1>3. Sound(k)
  <2>1. memo[calls[c].broker].version \in 0 .. Len(named)
    BY <1>2, MemoTrue
  <2>2. k \in Call
    BY <1>2, <2>1 DEF Call, Stages
  <2>3. k.stage = "ask" /\ k.op = calls[c].op /\ k.update = calls[c].update
    BY <1>2 DEF Call
  <2> QED BY <1>2, <2>2, <2>3 DEF Sound, Faithful, HasUpdate
<1>4. calls' = [calls EXCEPT ![c] = k]
  BY DEF Look
<1> HIDE DEF k
<1> QED BY <1>3, <1>4, MemoTrue, InvAfterCallChange DEF Look, Inv, TypeOK

\* A call that goes to a stage in which it carries nothing of use is sound.
LEMMA GotoSound ==
  ASSUME Inv, NEW c \in Slots, calls[c] # None, NEW stage \in {"fetch", "missing", "unmodified"},
         Goto(c, stage)
  PROVE  LET k == [calls[c] EXCEPT !.stage = stage]
         IN  Sound(k) /\ calls' = [calls EXCEPT ![c] = k]
<1>1. calls[c] \in Call /\ HasUpdate(calls[c])
  BY CallSound
<1> DEFINE k == [calls[c] EXCEPT !.stage = stage]
<1>2. k \in Call
  BY <1>1 DEF Call, Stages
<1>3. k.stage = stage /\ k.op = calls[c].op /\ k.update = calls[c].update
  BY <1>1 DEF Call
<1>4. Sound(k)
  BY <1>1, <1>2, <1>3 DEF Sound, Faithful, HasUpdate
<1> QED BY <1>4 DEF Goto

\* The cache answers, or the read goes to the store.
LEMMA AskInv ==
  ASSUME Inv, NEW c \in Slots, Ask(c)
  PROVE  Inv'
<1>1. calls[c] # None /\ calls[c].stage = "ask"
  BY DEF Ask, At
<1>2. /\ calls[c] \in Call
      /\ Faithful(calls[c])
      /\ HasUpdate(calls[c])
      /\ calls[c].broker \in Brokers
  BY <1>1, CallSound DEF Call
<1>3. \E k : Sound(k) /\ calls' = [calls EXCEPT ![c] = k]
  <2>1. CASE Known(c)
    BY <1>1, <2>1, KnownSound
  <2>2. CASE Goto(c, "fetch")
    BY <1>1, <2>2, GotoSound
  <2> QED BY <2>1, <2>2 DEF Ask
<1> QED BY <1>3, MemoTrue, InvAfterCallChange DEF Ask, Inv, TypeOK

\* The store answers with the object and its e-tag.
LEMMA FetchInv ==
  ASSUME Inv, NEW c \in Slots, Fetch(c)
  PROVE  Inv'
<1>1. calls[c] # None /\ calls[c].stage = "fetch"
  BY DEF Fetch, At
<1>2. /\ calls[c] \in Call
      /\ Faithful(calls[c])
      /\ HasUpdate(calls[c])
      /\ calls[c].broker \in Brokers
  BY <1>1, CallSound DEF Call
<1>3. \E k : Sound(k) /\ calls' = [calls EXCEPT ![c] = k]
  <2>1. CASE object = 0
    BY <1>1, <2>1, GotoSound DEF Fetch
  <2>2. CASE object # 0 /\ object = calls[c].version
    BY <1>1, <2>2, GotoSound DEF Fetch
  <2>3. CASE object # 0 /\ object # calls[c].version
    <3> DEFINE k == [calls[c] EXCEPT !.stage = "reply", !.tag = object,
                                     !.data = named[object]]
    <3>1. object \in 0 .. Len(named) /\ named[object] \in Seq(Updates)
      BY <2>3 DEF Inv, TypeOK
    <3>2. k \in Call
      BY <1>2, <3>1 DEF Call, Stages
    <3>3. /\ k.stage = "reply" /\ k.op = calls[c].op /\ k.update = calls[c].update
          /\ k.tag = object /\ k.data = named[object]
      BY <1>2 DEF Call
    <3>4. Sound(k)
      BY <1>2, <2>3, <3>2, <3>3 DEF Sound, Faithful, HasUpdate, Content
    <3>5. calls' = [calls EXCEPT ![c] = k]
      BY <2>3 DEF Fetch
    <3> QED BY <3>4, <3>5
  <2> QED BY <2>1, <2>2, <2>3
<1> QED BY <1>3, MemoTrue, InvAfterCallChange DEF Fetch, Inv, TypeOK

\* The e-tag that is still right goes to the cache.
LEMMA UnmodifiedInv ==
  ASSUME Inv, NEW c \in Slots, Unmodified(c)
  PROVE  Inv'
<1>1. calls[c] # None /\ calls[c].stage = "unmodified"
  BY DEF Unmodified, At
<1>2. /\ calls[c] \in Call
      /\ Faithful(calls[c])
      /\ HasUpdate(calls[c])
      /\ calls[c].broker \in Brokers
  BY <1>1, CallSound DEF Call
<1>3. entry' \in [Brokers -> 0 .. Len(named)]
  BY <1>2 DEF Unmodified, Inv, TypeOK, Call
<1>9. Known(c)
  BY DEF Unmodified
<1>10. Sound(KnownCall(calls[c])) /\ calls' = [calls EXCEPT ![c] = KnownCall(calls[c])]
  BY <1>1, <1>9, KnownSound
<1> QED BY <1>3, <1>10, MemoTrue, InvAfterCallChange DEF Unmodified, Inv, TypeOK

\* A missing object leaves a memo of the default document.
LEMMA MissingInv ==
  ASSUME Inv, NEW c \in Slots, Missing(c)
  PROVE  Inv'
<1>1. calls[c] # None /\ calls[c].stage = "missing"
  BY DEF Missing, At
<1>2. /\ calls[c] \in Call
      /\ Faithful(calls[c])
      /\ HasUpdate(calls[c])
      /\ calls[c].broker \in Brokers
  BY <1>1, CallSound DEF Call
<1>3. /\ memo' \in [Brokers -> [version : 0 .. Len(named), data : Seq(Updates)]]
      /\ \A b \in Brokers : memo'[b].data = Content(memo'[b].version)
  <2>1. NoData \in [version : 0 .. Len(named), data : Seq(Updates)]
    BY DEF NoData, Inv, TypeOK
  <2>2. NoData.data = Content(NoData.version)
    BY DEF NoData, Content
  <2>3. memo' = [memo EXCEPT ![calls[c].broker] = NoData]
    BY DEF Missing
  <2>4. memo \in [Brokers -> [version : 0 .. Len(named), data : Seq(Updates)]]
    BY DEF Inv, TypeOK
  <2> QED BY <1>2, <2>1, <2>2, <2>3, <2>4, MemoTrue
<1>9. Known(c)
  BY DEF Missing
<1>10. Sound(KnownCall(calls[c])) /\ calls' = [calls EXCEPT ![c] = KnownCall(calls[c])]
  BY <1>1, <1>9, KnownSound
<1> QED BY <1>3, <1>10, MemoTrue, InvAfterCallChange DEF Missing, Inv, TypeOK

\* The e-tag of an answer goes to the cache.
LEMMA EnterInv ==
  ASSUME Inv, NEW c \in Slots, Enter(c)
  PROVE  Inv'
<1>1. calls[c] # None /\ calls[c].stage = "reply"
  BY DEF Enter, At
<1>2. /\ calls[c] \in Call
      /\ Faithful(calls[c])
      /\ HasUpdate(calls[c])
      /\ calls[c].broker \in Brokers
  BY <1>1, CallSound DEF Call
<1> DEFINE k == [calls[c] EXCEPT !.stage = "learn"]
<1>3. Sound(k)
  <2>1. k \in Call
    BY <1>2 DEF Call, Stages
  <2>2. /\ k.stage = "learn" /\ k.op = calls[c].op /\ k.update = calls[c].update
        /\ k.data = calls[c].data /\ k.tag = calls[c].tag
    BY <1>2 DEF Call
  <2> QED BY <1>1, <1>2, <2>1, <2>2 DEF Sound, Faithful, HasUpdate
<1>4. calls' = [calls EXCEPT ![c] = k]
  BY DEF Enter, Goto
<1>5. entry' \in [Brokers -> 0 .. Len(named)]
  BY <1>2 DEF Enter, Inv, TypeOK, Call
<1> HIDE DEF k
<1> QED BY <1>3, <1>4, <1>5, MemoTrue, InvAfterCallChange DEF Enter, Inv, TypeOK

\* The memo gets the content of an answer, under its e-tag.
LEMMA LearnInv ==
  ASSUME Inv, NEW c \in Slots, Learn(c)
  PROVE  Inv'
<1>1. calls[c] # None /\ calls[c].stage = "learn"
  BY DEF Learn, At
<1>2. /\ calls[c] \in Call
      /\ Faithful(calls[c])
      /\ HasUpdate(calls[c])
      /\ calls[c].broker \in Brokers
  BY <1>1, CallSound DEF Call
<1>3. /\ memo' \in [Brokers -> [version : 0 .. Len(named), data : Seq(Updates)]]
      /\ \A b \in Brokers : memo'[b].data = Content(memo'[b].version)
  <2>1. /\ calls[c].tag \in 0 .. Len(named)
        /\ calls[c].data \in Seq(Updates)
        /\ calls[c].data = Content(calls[c].tag)
    BY <1>1, <1>2 DEF Call, Faithful
  <2>2. memo' = [memo EXCEPT ![calls[c].broker] =
                    [version |-> calls[c].tag, data |-> calls[c].data]]
    BY DEF Learn
  <2>3. memo \in [Brokers -> [version : 0 .. Len(named), data : Seq(Updates)]]
    BY DEF Inv, TypeOK
  <2> QED BY <1>2, <2>1, <2>2, <2>3, MemoTrue
<1>9. Known(c)
  BY DEF Learn
<1>10. Sound(KnownCall(calls[c])) /\ calls' = [calls EXCEPT ![c] = KnownCall(calls[c])]
  BY <1>1, <1>9, KnownSound
<1> QED BY <1>3, <1>10, MemoTrue, InvAfterCallChange DEF Learn, Inv, TypeOK

\* A read ends.
LEMMA ApplyInv ==
  ASSUME Inv, NEW c \in Slots, Apply(c)
  PROVE  Inv'
<1>1. Sound(None) /\ calls' = [calls EXCEPT ![c] = None]
  BY DEF Sound, Apply
<1> QED BY <1>1, MemoTrue, InvAfterCallChange DEF Apply, Inv, TypeOK

\* A put that is sent again is the one that was sent first.
LEMMA RepeatInv ==
  ASSUME Inv, NEW c \in Slots, Repeat(c)
  PROVE  Inv'
<1>1. calls[c] # None /\ calls[c].stage = "acked"
  BY DEF Repeat, At
<1>2. /\ calls[c] \in Call
      /\ Faithful(calls[c])
      /\ HasUpdate(calls[c])
      /\ calls[c].broker \in Brokers
  BY <1>1, CallSound DEF Call
<1> DEFINE k == [calls[c] EXCEPT !.stage = "put"]
<1>3. Sound(k)
  <2>1. k \in Call
    BY <1>2 DEF Call, Stages
  <2>2. /\ k.stage = "put" /\ k.op = calls[c].op /\ k.update = calls[c].update
        /\ k.data = calls[c].data /\ k.version = calls[c].version
    BY <1>2 DEF Call
  <2> QED BY <1>1, <1>2, <2>1, <2>2 DEF Sound, Faithful, HasUpdate
<1>4. calls' = [calls EXCEPT ![c] = k]
  BY DEF Repeat, Goto
<1>5. faults' \in 0 .. MaxFaults
  BY OptiConAssumption DEF Repeat, Fault, Inv, TypeOK
<1> HIDE DEF k
<1> QED BY <1>3, <1>4, <1>5, MemoTrue, InvAfterCallChange DEF Repeat, Inv, TypeOK

\* A call that fails leaves nothing behind but what the store took.
LEMMA FailInv ==
  ASSUME Inv, NEW c \in Slots, Fail(c)
  PROVE  Inv'
<1>1. Sound(None) /\ calls' = [calls EXCEPT ![c] = None]
  BY DEF Sound, Fail
<1>2. faults' \in 0 .. MaxFaults
  BY OptiConAssumption DEF Fail, Fault, Inv, TypeOK
<1> QED BY <1>1, <1>2, MemoTrue, InvAfterCallChange DEF Fail, Inv, TypeOK

(***************************************************************************)
(* Steps of the store.                                                     *)
(***************************************************************************)
\* The store takes a content that was made from the object it holds.
LEMMA PutInv ==
  ASSUME Inv, NEW c \in Slots, Put(c)
  PROVE  Inv'
<1>1. calls[c] # None /\ calls[c].stage = "put"
  BY DEF Put, At
<1>2. calls[c] \in Call /\ Faithful(calls[c]) /\ HasUpdate(calls[c])
  BY <1>1, CallSound
<1>3. PICK t \in ETags(calls[c].data) : Take(c, t)
  BY DEF Put
<1>4. /\ named' \in Seq(Seq(Updates))
      /\ Len(named) \in Nat /\ Len(named') \in Nat /\ Len(named) <= Len(named')
      /\ t \in 1 .. Len(named')
      /\ named'[t] = calls[c].data
      /\ \A e \in 0 .. Len(named) : Content(e)' = Content(e)
  BY <1>1, <1>3, TakeNames DEF Inv, TypeOK
<1>5. 0 .. Len(named) \subseteq 0 .. Len(named') /\ t \in 0 .. Len(named') /\ t # 0
  BY <1>4
<1>6. Call \subseteq Call'
  BY <1>5 DEF Call
<1> DEFINE k == [calls[c] EXCEPT !.stage = "acked", !.tag = t]
<1>7. calls' = [calls EXCEPT ![c] = k]
  BY <1>3 DEF Take
<1>8. k \in Call'
  BY <1>2, <1>5 DEF Call, Stages
<1>9. /\ k.stage = "acked" /\ k.op = calls[c].op /\ k.update = calls[c].update
      /\ k.data = calls[c].data /\ k.version = calls[c].version /\ k.tag = t
      /\ k.version \in 0 .. Len(named)
  BY <1>2 DEF Call
<1> HIDE DEF k
<1>10. calls' \in [Slots -> Call \cup {None}]'
  <2>1. calls \in [Slots -> Call' \cup {None}]
    BY <1>6 DEF Inv, TypeOK
  <2> QED BY <1>7, <1>8, <2>1
<1>11. TypeOK'
  <2>1. memo' \in [Brokers -> [version : 0 .. Len(named'), data : Seq(Updates)]]
    BY <1>3, <1>5 DEF Take, Inv, TypeOK
  <2>2. entry' \in [Brokers -> 0 .. Len(named')]
    BY <1>3, <1>5 DEF Take, Inv, TypeOK
  <2>3. object' \in 0 .. Len(named')
    BY <1>3, <1>5 DEF Take
  <2> QED BY <1>3, <1>4, <1>10, <2>1, <2>2, <2>3 DEF Take, Inv, TypeOK
<1>12. ASSUME NEW b \in Brokers PROVE memo'[b].data = Content(memo[b].version)'
  BY <1>3, <1>4, MemoTrue DEF Take
<1>13. ASSUME NEW d \in Slots, calls'[d] # None
       PROVE  Faithful(calls[d])' /\ HasUpdate(calls[d])'
  <2>1. CASE d = c
    <3>1. PICK v \in 0 .. Len(named) : calls[c].version = v
      BY <1>9
    <3>2. /\ calls'[d].stage = "acked" /\ calls'[d].op = calls[c].op
          /\ calls'[d].update = calls[c].update /\ calls'[d].data = calls[c].data
          /\ calls'[d].version = v /\ calls'[d].tag = t
      BY <1>7, <1>9, <2>1, <3>1 DEF Inv, TypeOK
    <3>3. Content(t)' = calls[c].data
      BY <1>4, <1>5 DEF Content
    <3>4. calls[c].data \in {Content(v), Append(Content(v), calls[c].update)}
      BY <1>1, <1>2, <3>1 DEF Faithful
    <3>5. Content(v)' = Content(v)
      BY <1>4
    <3>6. Faithful(calls[d])'
      BY <3>2, <3>3, <3>4, <3>5 DEF Faithful, Content
    <3> QED BY <1>1, <1>2, <3>2, <3>6 DEF HasUpdate
  <2>2. CASE d # c
    <3>1. calls'[d] = calls[d]
      BY <1>7, <2>2 DEF Inv, TypeOK
    <3>2. calls[d] \in Call /\ Faithful(calls[d]) /\ HasUpdate(calls[d])
      BY <1>13, <3>1, CallSound
    <3>3. PICK v \in 0 .. Len(named), e \in 0 .. Len(named) :
            calls[d].version = v /\ calls[d].tag = e
      BY <3>2 DEF Call
    <3>4. Content(v)' = Content(v) /\ Content(e)' = Content(e)
      BY <1>4
    <3> QED BY <3>1, <3>2, <3>3, <3>4 DEF Faithful, HasUpdate, Content
  <2> QED BY <2>1, <2>2
<1>14. VersionsNameData'
  BY <1>12, <1>13 DEF VersionsNameData
<1> QED BY <1>11, <1>13, <1>14 DEF Inv

\* A deleted object leaves every e-tag its content.
LEMMA DeleteInv ==
  ASSUME Inv, Delete
  PROVE  Inv'
<1>1. TypeOK'
  BY OptiConAssumption DEF Delete, Fault, Inv, TypeOK, Call
<1>2. VersionsNameData'
  BY DEF Delete, Inv, VersionsNameData, Faithful, Content
<1>3. \A c \in Slots : calls'[c] # None => HasUpdate(calls[c])'
  BY DEF Delete, Inv, HasUpdate
<1> QED BY <1>1, <1>2, <1>3 DEF Inv

\* A cache entry that expires leaves the memos and the calls as they are.
LEMMA ExpireInv ==
  ASSUME Inv, NEW b \in Brokers, Expire(b)
  PROVE  Inv'
<1>1. TypeOK'
  BY DEF Expire, Inv, TypeOK, Call
<1>2. VersionsNameData'
  BY DEF Expire, Inv, VersionsNameData, Faithful, Content
<1>3. \A c \in Slots : calls'[c] # None => HasUpdate(calls[c])'
  BY DEF Expire, Inv, HasUpdate
<1> QED BY <1>1, <1>2, <1>3 DEF Inv

\* No step changes anything.
LEMMA StutterInv ==
  ASSUME Inv, UNCHANGED vars
  PROVE  Inv'
<1>1. TypeOK'
  BY DEF vars, Inv, TypeOK, Call
<1>2. VersionsNameData'
  BY DEF vars, Inv, VersionsNameData, Faithful, Content
<1>3. \A c \in Slots : calls'[c] # None => HasUpdate(calls[c])'
  BY DEF vars, Inv, HasUpdate
<1> QED BY <1>1, <1>2, <1>3 DEF Inv

\* Each step of a call in progress keeps the invariant.
LEMMA StepInv ==
  ASSUME Inv, NEW c \in Slots, Step(c)
  PROVE  Inv'
<1>1. CASE Modify(c)
  BY <1>1, ModifyInv
<1>2. CASE Put(c)
  BY <1>2, PutInv
<1>3. CASE Refused(c)
  BY <1>3, RefusedInv
<1>4. CASE Acked(c)
  BY <1>4, AckedInv
<1>5. CASE Finish(c)
  BY <1>5, FinishInv
<1>6. CASE Look(c)
  BY <1>6, LookInv
<1>7. CASE Ask(c)
  BY <1>7, AskInv
<1>8. CASE Fetch(c)
  BY <1>8, FetchInv
<1>9. CASE Unmodified(c)
  BY <1>9, UnmodifiedInv
<1>10. CASE Missing(c)
  BY <1>10, MissingInv
<1>11. CASE Enter(c)
  BY <1>11, EnterInv
<1>12. CASE Learn(c)
  BY <1>12, LearnInv
<1>13. CASE Apply(c)
  BY <1>13, ApplyInv
<1> QED BY <1>1, <1>2, <1>3, <1>4, <1>5, <1>6, <1>7, <1>8, <1>9, <1>10, <1>11, <1>12, <1>13
        DEF Step

(***************************************************************************)
(* The theorems.                                                           *)
(***************************************************************************)
\* The inductive invariant holds in every state of opticon.rs and its cache.
THEOREM OptiConInvariant == Spec => []Inv
<1>1. Init => Inv
  BY InitInv
<1>2. Inv /\ [Next]_vars => Inv'
  <2> SUFFICES ASSUME Inv, [Next]_vars PROVE Inv'
    OBVIOUS
  <2>1. CASE \E c \in Slots : Start(c) \/ Step(c) \/ Repeat(c) \/ Fail(c)
    BY <2>1, StartInv, StepInv, RepeatInv, FailInv
  <2>2. CASE \E b \in Brokers : Expire(b)
    BY <2>2, ExpireInv
  <2>3. CASE Delete
    BY <2>3, DeleteInv
  <2>4. CASE UNCHANGED vars
    BY <2>4, StutterInv
  <2> QED BY <2>1, <2>2, <2>3, <2>4 DEF Next
<1> QED BY <1>1, <1>2, PTL DEF Spec

\* Whatever the interleaving of the calls of all brokers, each memo and each answer
\* holds the content of its e-tag (opticon.rs).
THEOREM VersionsAlwaysNameData == Spec => []VersionsNameData
<1>1. Inv => VersionsNameData
  BY DEF Inv
<1> QED BY <1>1, OptiConInvariant, PTL

\* A put that the store takes is one update of the document, or leaves it as it is.
LEMMA PutIsUpdate ==
  ASSUME Inv, NEW c \in Slots, Put(c)
  PROVE  \/ Content(object)' = Content(object)
         \/ \E u \in Updates : Content(object)' = Append(Content(object), u)
<1>1. calls[c] # None /\ calls[c].stage = "put" /\ calls[c].version = object
  BY DEF Put, At
<1>2. calls[c].update \in Updates
  BY <1>1, CallSound DEF HasUpdate
<1>3. calls[c].data \in {Content(object), Append(Content(object), calls[c].update)}
  BY <1>1, CallSound DEF Faithful
<1>4. PICK t \in ETags(calls[c].data) : Take(c, t)
  BY DEF Put
<1>5. t \in 1 .. Len(named') /\ named'[t] = calls[c].data /\ object' = t
  BY <1>1, <1>4, TakeNames DEF Inv, Take
<1>6. Content(object)' = calls[c].data
  BY <1>5 DEF Content
<1> QED BY <1>2, <1>3, <1>6

\* Every other step but a delete leaves the document as it is.
LEMMA OthersKeepDocument ==
  ASSUME UNCHANGED <<object, named>>
  PROVE  Content(object)' = Content(object)
BY DEF Content

\* with_mut of all brokers implements the document that changes one update at a time.
THEOREM OptiConImplementsDocument == Spec => DocumentIsAtomic
<1>1. Init => Doc!Init
  BY DEF Init, Doc!Init, Content
<1>2. Inv /\ [Next]_vars => [Doc!Next]_(Content(object))
  <2> SUFFICES ASSUME Inv, [Next]_vars PROVE [Doc!Next]_(Content(object))
    OBVIOUS
  <2>1. CASE \E c \in Slots : Put(c)
    BY <2>1, PutIsUpdate DEF Doc!Next, Doc!Update
  <2>2. CASE Delete
    BY <2>2 DEF Delete, Doc!Next, Doc!Delete, Content
  <2>3. CASE UNCHANGED <<object, named>>
    BY <2>3, OthersKeepDocument
  <2>4. CASE \E c \in Slots : Start(c)
    BY <2>3, <2>4 DEF Start, StartWith, StartWithMut
  <2>5. CASE \E c \in Slots : Step(c)
    BY <2>1, <2>3, <2>5 DEF Step, Modify, Refused, Acked, Finish, Look, Ask, Fetch,
                            Unmodified, Missing, Enter, Learn, Apply
  <2>6. CASE \E c \in Slots : Repeat(c) \/ Fail(c)
    BY <2>3, <2>6 DEF Repeat, Fail
  <2>7. CASE \E b \in Brokers : Expire(b)
    BY <2>3, <2>7 DEF Expire
  <2>8. CASE UNCHANGED vars
    BY <2>3, <2>8 DEF vars
  <2> QED BY <2>2, <2>4, <2>5, <2>6, <2>7, <2>8 DEF Next
<1> QED BY <1>1, <1>2, OptiConInvariant, PTL DEF Spec, DocumentIsAtomic, Doc!Spec
=============================================================================
