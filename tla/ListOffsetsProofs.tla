------------------------- MODULE ListOffsetsProofs --------------------------
(***************************************************************************)
(* The time index and the lookups that use it, for any batches, any number *)
(* of produces and lookups at a time, any faults and any DeleteRecords.    *)
(***************************************************************************)
EXTENDS ListOffsets, WellFoundedInduction, SequenceTheorems, TLAPS

(***************************************************************************)
(* Numbers.                                                                *)
(***************************************************************************)
\* A nonempty set of naturals has a least element,
LEMMA MinInSet ==
  ASSUME NEW S \in SUBSET Nat, S # {}
  PROVE  Min(S) \in S /\ \A x \in S : Min(S) <= x
<1>1. IsWellFoundedOn(OpToRel(<, Nat), Nat)
  BY NatLessThanWellFounded
<1>2. PICK x \in S : \A y \in S : ~ (<<y, x>> \in OpToRel(<, Nat))
  BY <1>1, WFMin, Zenon
<1>3. ASSUME NEW y \in S PROVE x <= y
  <2>1. ~ (y < x)
    BY <1>2 DEF OpToRel
  <2> QED BY <2>1
<1> QED BY <1>3 DEF Min

\* and one that is bounded has a greatest.
LEMMA MaxInSet ==
  ASSUME NEW S \in SUBSET Nat, S # {}, NEW n \in Nat, \A x \in S : x <= n
  PROVE  Max(S) \in S /\ \A x \in S : x <= Max(S)
<1> DEFINE U == {u \in Nat : \A x \in S : x <= u}
<1>1. U \in SUBSET Nat /\ U # {}
  OBVIOUS
<1>2. Min(U) \in U /\ \A u \in U : Min(U) <= u
  BY <1>1, MinInSet
<1>3. PICK m \in U : \A u \in U : m <= u
  BY <1>2
<1>4. m \in S
  <2> SUFFICES ASSUME m \notin S PROVE FALSE
    OBVIOUS
  <2>1. \A x \in S : x <= m /\ x # m
    BY <1>3
  <2>2. m # 0
    <3>1. PICK x \in S : x <= m /\ x # m
      BY <2>1
    <3> QED BY <3>1
  <2>3. m - 1 \in U
    BY <1>3, <2>1, <2>2
  <2> QED BY <1>3, <2>3
<1>5. \A x \in S : x <= m
  BY <1>3
<1> QED BY <1>4, <1>5 DEF Max

LEMMA MaxOfTwo ==
  ASSUME NEW x \in Int, NEW y \in Int
  PROVE  Max({x, y}) \in Int /\ Max({x, y}) >= x /\ Max({x, y}) >= y
BY DEF Max

LEMMA MaxOfThree ==
  ASSUME NEW x \in Int, NEW y \in Int, NEW z \in Int
  PROVE  /\ Max({x, y, z}) \in Int
         /\ Max({x, y, z}) >= x /\ Max({x, y, z}) >= y /\ Max({x, y, z}) >= z
<1> DEFINE S == {x, y, z}
<1>1. \E m \in S : \A k \in S : m >= k
  OBVIOUS
<1>2. Max(S) \in S /\ \A k \in S : Max(S) >= k
  BY <1>1 DEF Max
<1> QED BY <1>2

\* What holds at 0 and from each number to the next holds: the set of the numbers at
\* which it does not hold has no least element.
LEMMA Induction ==
  ASSUME NEW end \in Nat, NEW S, 0 \in S, \A n \in 1 .. end : n - 1 \in S => n \in S
  PROVE  0 .. end \subseteq S
<1> SUFFICES ASSUME ~ (0 .. end \subseteq S) PROVE FALSE
  OBVIOUS
<1> DEFINE T == (0 .. end) \ S
<1>1. T \in SUBSET Nat /\ T # {}
  OBVIOUS
<1>2. PICK n \in T : \A m \in T : n <= m
  BY <1>1, MinInSet
<1>3. n \in 1 .. end /\ n - 1 \in 0 .. end /\ ~ (n <= n - 1)
  BY <1>2
<1>4. n - 1 \in S
  BY <1>2, <1>3
<1> QED BY <1>3, <1>4

(***************************************************************************)
(* Batches.                                                                *)
(***************************************************************************)
IsBatch(b) == b \in Seq(Nat) /\ b # <<>>

LEMMA TimestampOK ==
  ASSUME NEW b, IsBatch(b)
  PROVE  /\ MaxTimestamp(b) \in Nat
         /\ \A i \in 1 .. Len(b) : b[i] \in Nat /\ b[i] <= MaxTimestamp(b)
         /\ Len(b) \in Nat /\ Len(b) > 0
<1>1. Len(b) \in Nat /\ Len(b) > 0 /\ DOMAIN b = 1 .. Len(b) /\ \A i \in 1 .. Len(b) : b[i] \in Nat
  BY EmptySeq, LenProperties, ElementOfSeq DEF IsBatch
<1> DEFINE S == {n \in 0 .. Len(b) : \E m \in Nat : \A i \in 1 .. n : b[i] <= m}
<1>2. 0 \in S
  BY <1>1
<1>3. ASSUME NEW n \in 1 .. Len(b), n - 1 \in S PROVE n \in S
  <2>1. PICK m \in Nat : \A i \in 1 .. n - 1 : b[i] <= m
    BY <1>3
  <2>2. PICK k \in Nat : k >= m /\ k >= b[n]
    BY <1>1
  <2>3. \A i \in 1 .. n : b[i] <= k
    BY <1>1, <2>1, <2>2
  <2> QED BY <1>1, <2>3
<1>4. 0 .. Len(b) \subseteq S
  <2> HIDE DEF S
  <2> QED BY <1>1, <1>2, <1>3, Induction
<1>5. PICK m \in Nat : \A i \in 1 .. Len(b) : b[i] <= m
  <2>1. Len(b) \in 0 .. Len(b)
    BY <1>1
  <2>2. Len(b) \in S
    <3> HIDE DEF S
    <3> QED BY <1>4, <2>1
  <2> QED BY <2>2
<1>6. Range(b) \in SUBSET Nat /\ Range(b) # {} /\ \A x \in Range(b) : x <= m
  BY <1>1, <1>5 DEF Range
<1>7. Max(Range(b)) \in Range(b) /\ \A x \in Range(b) : x <= Max(Range(b))
  BY <1>6, MaxInSet
<1> QED BY <1>1, <1>6, <1>7 DEF MaxTimestamp, Range

(***************************************************************************)
(* Appending to an index.                                                  *)
(***************************************************************************)
LEMMA DefaultOK ==
  ASSUME NEW high \in Nat
  PROVE  /\ IsIndex(Default, high)
         /\ Default.entries = EmptyMap /\ DOMAIN EmptyMap = {}
         /\ ~ is_complete(Default) /\ Default.backfill = None
BY TimeIndexAssumption DEF Default, IsIndex, EmptyMap, is_complete, NO_TIMESTAMP, VERSION

\* The entries of an index after an append are old ones, or the new one.
IsAppended(r, index, t, base) ==
    /\ IsIndex(r, base + 1)
    /\ r.max_timestamp >= index.max_timestamp /\ r.max_timestamp >= t
    /\ \A u \in DOMAIN r.entries :
        \/ u \in DOMAIN index.entries /\ r.entries[u] = index.entries[u]
        \/ u = t /\ r.entries[u] = base /\ u > index.max_timestamp
    /\ r.backfill = index.backfill
    /\ r.complete = index.complete /\ r.version = index.version

LEMMA AppendOK ==
  ASSUME NEW index, NEW base \in Nat, IsIndex(index, base), NEW t \in Nat, NEW bytes \in Nat
  PROVE  IsAppended(append(index, t, base, bytes), index, t, base)
<1> DEFINE since == index.bytes_since_entry + bytes
           indexed == DOMAIN index.entries = {} \/ since >= index.interval_bytes
           entries == Put(index.entries, t, base)
           thins == indexed /\ Cardinality(DOMAIN entries) > MAX_ENTRIES
           after == IF ~indexed THEN index.entries
                    ELSE IF thins THEN thin(entries) ELSE entries
           r == append(index, t, base, bytes)
<1>1. /\ index.max_timestamp \in Int /\ since \in Nat /\ index.interval_bytes \in Nat
      /\ index.entries \in [DOMAIN index.entries -> 0 .. base - 1]
      /\ DOMAIN index.entries \subseteq Nat
  BY DEF IsIndex
<1>2. CASE t <= index.max_timestamp
  <2>1. r = [index EXCEPT !.bytes_since_entry = since]
    BY <1>2 DEF append
  <2>2. /\ r.entries = index.entries /\ r.max_timestamp = index.max_timestamp
        /\ r.backfill = index.backfill /\ r.complete = index.complete
        /\ r.version = index.version /\ r.interval_bytes = index.interval_bytes
        /\ r.bytes_since_entry = since
        /\ r \in [entries : {r.entries}, max_timestamp : Int, bytes_since_entry : Nat,
                  interval_bytes : Nat, complete : BOOLEAN, version : Nat,
                  backfill : {r.backfill}]
    BY <1>1, <2>1 DEF IsIndex
  <2>3. r.entries \in [DOMAIN r.entries -> 0 .. base + 1 - 1]
    BY <1>1, <2>2
  <2>4. IsIndex(r, base + 1)
    BY <1>1, <2>2, <2>3 DEF IsIndex
  <2> HIDE DEF r
  <2> QED BY <1>1, <1>2, <2>2, <2>4 DEF r, IsAppended
<1>3. CASE ~ (t <= index.max_timestamp)
  <2>1. PICK s, e, v : /\ s = IF indexed THEN 0 ELSE since
                       /\ e = after
                       /\ v = IF thins THEN 2 * index.interval_bytes ELSE index.interval_bytes
    OBVIOUS
  <2>2. r = [index EXCEPT !.max_timestamp = t, !.bytes_since_entry = s, !.entries = e,
                          !.interval_bytes = v]
    BY <1>3, <2>1 DEF append
  <2>3. s \in Nat /\ v \in Nat
    BY <1>1, <2>1
  <2>4. /\ DOMAIN e \subseteq DOMAIN index.entries \cup {t}
        /\ \A u \in DOMAIN e : e[u] = IF u = t /\ indexed THEN base ELSE index.entries[u]
        /\ e = [u \in DOMAIN e |-> e[u]]
        /\ ~ indexed => e = index.entries
    <3>1. /\ DOMAIN entries = DOMAIN index.entries \cup {t}
          /\ \A u \in DOMAIN entries : entries[u] = IF u = t THEN base ELSE index.entries[u]
          /\ entries = [u \in DOMAIN entries |-> entries[u]]
      BY DEF Put
    <3>2. /\ DOMAIN thin(entries) \subseteq DOMAIN entries
          /\ \A u \in DOMAIN thin(entries) : thin(entries)[u] = entries[u]
          /\ thin(entries) = [u \in DOMAIN thin(entries) |-> thin(entries)[u]]
      BY DEF thin, Restrict
    <3> HIDE DEF entries
    <3> QED BY <1>1, <2>1, <3>1, <3>2
  <2>5. /\ r.entries = e /\ r.max_timestamp = t
        /\ r.backfill = index.backfill /\ r.complete = index.complete
        /\ r.version = index.version
        /\ r \in [entries : {r.entries}, max_timestamp : Int, bytes_since_entry : Nat,
                  interval_bytes : Nat, complete : BOOLEAN, version : Nat,
                  backfill : {r.backfill}]
    <3>1. index = [entries |-> index.entries, max_timestamp |-> index.max_timestamp,
                   bytes_since_entry |-> index.bytes_since_entry,
                   interval_bytes |-> index.interval_bytes, complete |-> index.complete,
                   version |-> index.version, backfill |-> index.backfill]
      BY DEF IsIndex
    <3>2. r = [entries |-> e, max_timestamp |-> t, bytes_since_entry |-> s,
               interval_bytes |-> v, complete |-> index.complete,
               version |-> index.version, backfill |-> index.backfill]
      <4> HIDE DEF r
      <4> QED BY <2>2, <3>1
    <3>3. index.complete \in BOOLEAN /\ index.version \in Nat
      BY DEF IsIndex
    <3> HIDE DEF r
    <3> QED BY <2>3, <3>2, <3>3
  <2>6. /\ \A u \in DOMAIN e : e[u] \in 0 .. base + 1 - 1
        /\ \A u \in DOMAIN e : \/ u \in DOMAIN index.entries /\ e[u] = index.entries[u]
                               \/ u = t /\ e[u] = base
    BY <1>1, <2>4
  <2>7. IsIndex(r, base + 1)
    BY <1>1, <2>4, <2>5, <2>6 DEF IsIndex
  <2> HIDE DEF r
  <2> QED BY <1>1, <1>3, <2>5, <2>6, <2>7 DEF r, IsAppended
<1> QED BY <1>2, <1>3

LEMMA IndexGrows ==
  ASSUME NEW index, NEW m \in Nat, NEW n \in Nat, m <= n, IsIndex(index, m)
  PROVE  IsIndex(index, n)
BY DEF IsIndex

\* An append keeps what the index covers, and covers the new batch.
KeepsUp(r, index, batch, base) ==
    /\ IsIndex(r, base + 1)
    /\ r.backfill = index.backfill
    /\ r.complete = index.complete /\ r.version = index.version
    /\ Covers(r, [batch |-> batch, offset |-> base])
    /\ \A b : IsBatch(b.batch) /\ Covers(index, b) => Covers(r, b)

LEMMA AppendCovers ==
  ASSUME NEW index, NEW base \in Nat, IsIndex(index, base), NEW batch, IsBatch(batch)
  PROVE  KeepsUp(append(index, MaxTimestamp(batch), base, Bytes(batch)), index, batch, base)
<1> DEFINE t == MaxTimestamp(batch)
           r == append(index, t, base, Bytes(batch))
<1>1. t \in Nat /\ Bytes(batch) \in Nat
  BY TimestampOK DEF Bytes
<1> HIDE DEF t
<1>2. IsAppended(r, index, t, base)
  BY <1>1, AppendOK
<1>3. /\ r.max_timestamp \in Int /\ index.max_timestamp \in Int
      /\ \A u \in DOMAIN r.entries : r.entries[u] \in 0 .. base + 1 - 1 /\ u \in Nat
  BY <1>2 DEF IsIndex, IsAppended
<1> HIDE DEF r
<1>4. Covers(r, [batch |-> batch, offset |-> base])
  BY <1>1, <1>2, <1>3 DEF Covers, t, IsAppended
<1>5. ASSUME NEW b, IsBatch(b.batch), Covers(index, b) PROVE Covers(r, b)
  <2>1. MaxTimestamp(b.batch) \in Nat /\ MaxTimestamp(b.batch) <= index.max_timestamp
    BY <1>5, TimestampOK DEF Covers
  <2>2. MaxTimestamp(b.batch) <= r.max_timestamp
    BY <1>2, <1>3, <2>1 DEF IsAppended
  <2>3. ASSUME NEW u \in DOMAIN r.entries, b.offset < r.entries[u]
        PROVE  MaxTimestamp(b.batch) < u
    <3>1. CASE u \in DOMAIN index.entries /\ r.entries[u] = index.entries[u]
      BY <1>5, <2>3, <3>1 DEF Covers
    <3>2. CASE u > index.max_timestamp
      BY <1>3, <2>1, <3>2
    <3> QED BY <1>2, <3>1, <3>2 DEF IsAppended
  <2> QED BY <2>2, <2>3 DEF Covers
<1> QED BY <1>2, <1>4, <1>5 DEF r, t, IsAppended, KeepsUp

\* So does observing a batch after the entries.
LEMMA ObserveCovers ==
  ASSUME NEW index, NEW base \in Nat, IsIndex(index, base), NEW batch, IsBatch(batch)
  PROVE  KeepsUp(observe(index, MaxTimestamp(batch)), index, batch, base)
<1> DEFINE t == MaxTimestamp(batch)
           r == observe(index, t)
<1>1. t \in Nat /\ index.max_timestamp \in Int
  BY TimestampOK DEF IsIndex
<1> HIDE DEF t
<1>2. PICK m \in Int : m = Max({index.max_timestamp, t}) /\ m >= index.max_timestamp /\ m >= t
  <2> DEFINE x == index.max_timestamp
  <2>1. Max({x, t}) \in Int /\ Max({x, t}) >= x /\ Max({x, t}) >= t
    <3> HIDE DEF x
    <3>1. x \in Int /\ t \in Int
      BY <1>1 DEF x
    <3> QED BY <3>1, MaxOfTwo
  <2> QED BY <2>1
<1>3. r = [index EXCEPT !.max_timestamp = m]
  BY <1>2 DEF observe
<1>4. /\ r.max_timestamp = m /\ r.entries = index.entries
      /\ r.backfill = index.backfill /\ r.complete = index.complete /\ r.version = index.version
      /\ IsIndex(r, base)
  <2> HIDE DEF r
  <2> QED BY <1>3 DEF IsIndex
<1> HIDE DEF r
<1>5. IsIndex(r, base + 1)
  BY <1>4, IndexGrows
<1>6. Covers(r, [batch |-> batch, offset |-> base])
  BY <1>1, <1>2, <1>4 DEF Covers, IsIndex, t
<1>7. ASSUME NEW b, IsBatch(b.batch), Covers(index, b) PROVE Covers(r, b)
  <2>1. MaxTimestamp(b.batch) \in Nat
    BY <1>7, TimestampOK
  <2> QED BY <1>1, <1>2, <1>4, <1>7, <2>1 DEF Covers
<1> QED BY <1>4, <1>5, <1>6, <1>7 DEF r, t, KeepsUp

LEMMA MarkCompleteOK ==
  ASSUME NEW index, NEW high \in Nat, IsIndex(index, high)
  PROVE  /\ IsIndex(mark_complete(index), high)
         /\ mark_complete(index).backfill = index.backfill
         /\ \A b : Covers(index, b) => Covers(mark_complete(index), b)
<1>1. PICK r : r = mark_complete(index)
  OBVIOUS
<1>2. r = [index EXCEPT !.complete = TRUE, !.version = 1]
  BY <1>1 DEF mark_complete, VERSION
<1>3. /\ r.entries = index.entries /\ r.max_timestamp = index.max_timestamp
      /\ r.backfill = index.backfill /\ IsIndex(r, high)
  BY <1>2 DEF IsIndex
<1> QED BY <1>1, <1>3 DEF Covers

\* An index of an older version is replaced by an empty one.
LEMMA BeginBackfillOK ==
  ASSUME NEW index, NEW high \in Nat, IsIndex(index, high), NEW token
  PROVE  LET r == begin_backfill(index, token)
         IN  /\ IsIndex(r, high)
             /\ r.backfill = IF index.backfill # None THEN index.backfill ELSE token
             /\ is_complete(r) => is_complete(index)
             /\ is_complete(r) => \A b : Covers(index, b) => Covers(r, b)
             /\ index.backfill # None => r = index
<1> DEFINE r == begin_backfill(index, token)
<1>1. CASE index.backfill # None
  <2>1. r = index
    BY <1>1 DEF begin_backfill
  <2> QED BY <1>1, <2>1
<1>2. CASE index.backfill = None /\ index.version < VERSION
  <2>1. r = [[Default EXCEPT !.version = VERSION] EXCEPT !.backfill = token]
    BY <1>2 DEF begin_backfill
  <2>2. r = [entries |-> EmptyMap, max_timestamp |-> -1, bytes_since_entry |-> 0,
             interval_bytes |-> INITIAL_INTERVAL_BYTES, complete |-> FALSE, version |-> 1,
             backfill |-> token]
    BY <2>1 DEF Default, NO_TIMESTAMP, VERSION
  <2>3. r.backfill = token /\ r.complete = FALSE /\ IsIndex(r, high)
    <3> HIDE DEF r
    <3> QED BY <2>2, TimeIndexAssumption DEF IsIndex, EmptyMap
  <2> QED BY <1>2, <2>3 DEF is_complete
<1>3. CASE index.backfill = None /\ ~ (index.version < VERSION)
  <2>1. PICK q : q = r
    OBVIOUS
  <2>2. q = [index EXCEPT !.backfill = token]
    BY <1>3, <2>1 DEF begin_backfill
  <2>3. /\ q.entries = index.entries /\ q.max_timestamp = index.max_timestamp
        /\ q.backfill = token /\ q.complete = index.complete /\ q.version = index.version
        /\ IsIndex(q, high)
    BY <2>2 DEF IsIndex
  <2> QED BY <1>3, <2>1, <2>3 DEF is_complete, Covers
<1> QED BY <1>1, <1>2, <1>3

(***************************************************************************)
(* Merging.                                                                *)
(***************************************************************************)
\* The end of a fold over offsets.
EndOf(offsets) == Max({0} \cup {o + 1 : o \in offsets})

LEMMA EndOK ==
  ASSUME NEW offsets, offsets \subseteq Nat, NEW high \in Nat, \A o \in offsets : o < high
  PROVE  EndOf(offsets) \in 0 .. high /\ \A o \in offsets : o < EndOf(offsets)
<1> DEFINE ends == {0} \cup {o + 1 : o \in offsets}
<1>1. ends \in SUBSET Nat /\ ends # {} /\ \A x \in ends : x <= high
  OBVIOUS
<1>2. \A o \in offsets : o + 1 \in ends /\ o \in Nat
  OBVIOUS
<1> HIDE DEF ends
<1>3. Max(ends) \in ends /\ \A x \in ends : x <= Max(ends)
  BY <1>1, MaxInSet
<1>4. PICK m : m = Max(ends)
  OBVIOUS
<1>5. m \in Nat /\ m <= high
  BY <1>1, <1>3, <1>4
<1>6. ASSUME NEW o \in offsets PROVE o < m
  <2>1. o + 1 <= m /\ o \in Nat
    BY <1>2, <1>3, <1>4
  <2> QED BY <1>5, <2>1
<1> QED BY <1>4, <1>5, <1>6 DEF EndOf, ends

\* The function that a replay is the last value of.
ReplayStep(prev, n, by) ==
    IF n - 1 \in DOMAIN by THEN append(prev, by[n - 1], n - 1, prev.interval_bytes) ELSE prev

IsReplay(f, k, by, base) ==
    f = [n \in 0 .. k |-> IF n = 0 THEN base ELSE ReplayStep(f[n - 1], n, by)]

LEMMA ReplayIsFold ==
  ASSUME NEW by, NEW interval, EndOf(DOMAIN by) \in Nat
  PROVE  \E f : /\ IsReplay(f, EndOf(DOMAIN by), by, [Default EXCEPT !.interval_bytes = interval])
                /\ Replay(by, interval) = f[EndOf(DOMAIN by)]
<1>1. PICK base : base = [Default EXCEPT !.interval_bytes = interval]
  OBVIOUS
<1>2. PICK end \in Nat : end = EndOf(DOMAIN by)
  OBVIOUS
<1> DEFINE S == {k \in 0 .. end : \E f : IsReplay(f, k, by, base)}
<1>3. 0 \in S
  <2>1. IsReplay([n \in 0 .. 0 |-> base], 0, by, base)
    BY DEF IsReplay
  <2> QED BY <2>1
<1>4. ASSUME NEW k \in 1 .. end, k - 1 \in S PROVE k \in S
  <2>1. PICK f : IsReplay(f, k - 1, by, base)
    BY <1>4
  <2>2. PICK g : g = [n \in 0 .. k |-> IF n = k THEN ReplayStep(f[k - 1], k, by) ELSE f[n]]
    OBVIOUS
  <2>3. ASSUME NEW n \in 0 .. k
        PROVE  g[n] = IF n = 0 THEN base ELSE ReplayStep(g[n - 1], n, by)
    <3>1. CASE n = 0
      <4>1. f[0] = base /\ 0 \in 0 .. k /\ k # 0
        BY <2>1 DEF IsReplay
      <4> QED BY <2>2, <3>1, <4>1
    <3>2. CASE n # 0
      <4>1. n - 1 \in 0 .. k /\ n - 1 # k
        BY <3>2
      <4>2. g[n - 1] = f[n - 1]
        BY <2>2, <4>1
      <4>3. CASE n = k
        BY <2>2, <3>2, <4>2, <4>3
      <4>4. CASE n # k
        <5>1. n \in 0 .. k - 1
          BY <4>4
        <5>2. f[n] = ReplayStep(f[n - 1], n, by)
          BY <2>1, <3>2, <5>1 DEF IsReplay
        <5> QED BY <2>2, <3>2, <4>2, <4>4, <5>2
      <4> QED BY <4>3, <4>4
    <3> QED BY <3>1, <3>2
  <2>4. IsReplay(g, k, by, base)
    BY <2>2, <2>3 DEF IsReplay
  <2>5. k \in 0 .. end
    OBVIOUS
  <2> QED BY <2>4, <2>5
<1>5. 0 .. end \subseteq S
  <2>1. \A n \in 1 .. end : n - 1 \in S => n \in S
    BY <1>4
  <2> HIDE DEF S
  <2> QED BY <1>3, <2>1, Induction
<1>6. end \in S
  <2> HIDE DEF S
  <2> QED BY <1>5
<1>7. PICK f : IsReplay(f, end, by, base)
  BY <1>6
<1>8. \E h : IsReplay(h, end, by, base) /\ Replay(by, interval) = h[end]
  BY <1>1, <1>2, <1>7 DEF Replay, FoldOffsets, IsReplay, ReplayStep, EndOf
<1> QED BY <1>1, <1>2, <1>8

\* Each entry of a replayed index is one of those that are replayed.
Replayed(r, by, high) ==
    /\ IsIndex(r, high) /\ r.backfill = None
    /\ \A u \in DOMAIN r.entries : r.entries[u] \in DOMAIN by /\ by[r.entries[u]] = u

LEMMA ReplayOK ==
  ASSUME NEW by, DOMAIN by \subseteq Nat, \A o \in DOMAIN by : by[o] \in Nat,
         NEW high \in Nat, \A o \in DOMAIN by : o < high, NEW interval \in Nat
  PROVE  Replayed(Replay(by, interval), by, high)
<1>1. PICK base : base = [Default EXCEPT !.interval_bytes = interval]
  OBVIOUS
<1>2. PICK end \in 0 .. high : end = EndOf(DOMAIN by)
  BY EndOK
<1>3. PICK f : IsReplay(f, end, by, base) /\ Replay(by, interval) = f[end]
  BY <1>1, <1>2, ReplayIsFold
<1> DEFINE S == {n \in 0 .. end : Replayed(f[n], by, n)}
<1>4. 0 \in S
  <2>1. f[0] = base
    BY <1>2, <1>3 DEF IsReplay
  <2>2. base = [entries |-> EmptyMap, max_timestamp |-> -1, bytes_since_entry |-> 0,
                interval_bytes |-> interval, complete |-> FALSE, version |-> 0,
                backfill |-> None]
    BY <1>1 DEF Default, NO_TIMESTAMP
  <2>3. Replayed(base, by, 0)
    BY <2>2 DEF Replayed, IsIndex, EmptyMap
  <2> QED BY <2>1, <2>3
<1>5. ASSUME NEW n \in 1 .. end, n - 1 \in S PROVE n \in S
  <2>1. f[n] = ReplayStep(f[n - 1], n, by)
    BY <1>3 DEF IsReplay
  <2>2. PICK prev : prev = f[n - 1]
    OBVIOUS
  <2>3. Replayed(prev, by, n - 1)
    BY <1>5, <2>2
  <2>4. PICK m \in Nat : m = n - 1
    OBVIOUS
  <2>5. CASE m \in DOMAIN by
    <3>1. PICK r : r = append(prev, by[m], m, prev.interval_bytes)
      OBVIOUS
    <3>2. prev.interval_bytes \in Nat /\ by[m] \in Nat /\ IsIndex(prev, m)
      BY <2>3, <2>4, <2>5 DEF Replayed, IsIndex
    <3>3. IsAppended(r, prev, by[m], m)
      BY <3>1, <3>2, AppendOK
    <3>4. Replayed(r, by, n)
      BY <2>3, <2>4, <2>5, <3>3 DEF IsAppended, Replayed
    <3>5. f[n] = r
      BY <2>1, <2>2, <2>4, <2>5, <3>1 DEF ReplayStep
    <3> QED BY <3>4, <3>5
  <2>6. CASE m \notin DOMAIN by
    <3>1. f[n] = prev
      BY <2>1, <2>2, <2>4, <2>6 DEF ReplayStep
    <3>2. IsIndex(prev, n)
      BY <2>3, <2>4, IndexGrows DEF Replayed
    <3> QED BY <2>3, <3>1, <3>2 DEF Replayed
  <2> QED BY <2>5, <2>6
<1>6. 0 .. end \subseteq S
  <2>1. \A n \in 1 .. end : n - 1 \in S => n \in S
    BY <1>5
  <2> HIDE DEF S
  <2> QED BY <1>2, <1>4, <2>1, Induction
<1>7. end \in S
  <2> HIDE DEF S
  <2> QED BY <1>2, <1>6
<1>8. IsIndex(f[end], high)
  BY <1>2, <1>7, IndexGrows DEF Replayed
<1> QED BY <1>3, <1>7, <1>8 DEF Replayed

\* The entries of a merge are those of the candidate, or later ones of the live index.
IsMerged(r, c, live, token, high) ==
    /\ IsIndex(r, high) /\ r.backfill = None
    /\ r.max_timestamp >= c.max_timestamp /\ r.max_timestamp >= live.max_timestamp
    /\ \A u \in DOMAIN r.entries :
        \/ u \in DOMAIN c.entries /\ r.entries[u] = c.entries[u]
        \/ u \in DOMAIN live.entries /\ r.entries[u] = live.entries[u] /\ u > c.max_timestamp
    /\ is_complete(r) => is_complete(c) /\ (is_complete(live) \/ live.backfill = token)

LEMMA MergeOK ==
  ASSUME NEW c, NEW live, NEW token, NEW h \in Nat, NEW high \in Nat, h <= high,
         IsIndex(c, h), IsIndex(live, high)
  PROVE  IsMerged(merge(c, live, token), c, live, token, high)
<1> DEFINE owned == is_complete(live) \/ live.backfill = token
<1>1. PICK by : by = Over(ByOffset(live, kept(c, live)), ByOffset(c, DOMAIN c.entries))
  OBVIOUS
<1>2. PICK interval \in Nat : interval = Max({c.interval_bytes, live.interval_bytes})
  <2>1. PICK x \in Nat, y \in Nat : x = c.interval_bytes /\ y = live.interval_bytes
    BY DEF IsIndex
  <2>2. Max({x, y}) \in Int /\ Max({x, y}) >= x
    BY MaxOfTwo
  <2> QED BY <2>1, <2>2
<1>3. ASSUME NEW o \in DOMAIN by
      PROVE  /\ o \in Nat /\ o < high /\ by[o] \in Nat
             /\ \/ by[o] \in DOMAIN c.entries /\ o = c.entries[by[o]]
                \/ by[o] \in DOMAIN live.entries /\ o = live.entries[by[o]]
                    /\ by[o] > c.max_timestamp
  <2>1. /\ \A u \in DOMAIN c.entries : u \in Nat /\ c.entries[u] \in 0 .. h - 1
        /\ \A u \in DOMAIN live.entries : u \in Nat /\ live.entries[u] \in 0 .. high - 1
    BY DEF IsIndex
  <2>2. CASE o \in DOMAIN ByOffset(live, kept(c, live))
    <3>1. by[o] = ByOffset(live, kept(c, live))[o]
      BY <1>1, <2>2 DEF Over
    <3>2. \E u \in kept(c, live) : live.entries[u] = o
      BY <2>2 DEF ByOffset
    <3>3. by[o] = CHOOSE u \in kept(c, live) : live.entries[u] = o
      BY <2>2, <3>1 DEF ByOffset
    <3>4. by[o] \in kept(c, live) /\ live.entries[by[o]] = o
      BY <3>2, <3>3
    <3> QED BY <2>1, <3>4 DEF kept
  <2>3. CASE o \notin DOMAIN ByOffset(live, kept(c, live))
    <3>1. o \in DOMAIN ByOffset(c, DOMAIN c.entries)
          /\ by[o] = ByOffset(c, DOMAIN c.entries)[o]
      BY <1>1, <1>3, <2>3 DEF Over
    <3>2. \E u \in DOMAIN c.entries : c.entries[u] = o
      BY <3>1 DEF ByOffset
    <3>3. by[o] = CHOOSE u \in DOMAIN c.entries : c.entries[u] = o
      BY <3>1 DEF ByOffset
    <3>4. by[o] \in DOMAIN c.entries /\ c.entries[by[o]] = o
      BY <3>2, <3>3
    <3> QED BY <2>1, <3>4
  <2> QED BY <2>2, <2>3
<1>4. PICK p : p = Replay(by, interval)
  OBVIOUS
<1>5. Replayed(p, by, high)
  <2>1. DOMAIN by \subseteq Nat /\ (\A o \in DOMAIN by : by[o] \in Nat)
        /\ (\A o \in DOMAIN by : o < high)
    BY <1>3
  <2> QED BY <1>4, <2>1, ReplayOK
<1>6. PICK x \in Int, y \in Int, z \in Int :
        x = p.max_timestamp /\ y = c.max_timestamp /\ z = live.max_timestamp
  BY <1>5 DEF IsIndex, Replayed
<1>7. PICK m \in Int : m = Max({x, y, z}) /\ m >= y /\ m >= z
  BY MaxOfThree
<1>8. PICK n, w, v : /\ n = live.bytes_since_entry /\ w = (is_complete(c) /\ owned)
                     /\ v = IF owned THEN VERSION ELSE live.version
  OBVIOUS
<1>9. PICK r : r = merge(c, live, token)
  OBVIOUS
<1>10. r = [p EXCEPT !.max_timestamp = m, !.bytes_since_entry = n, !.complete = w, !.version = v]
  <2>1. r = [p EXCEPT !.max_timestamp = Max({p.max_timestamp, c.max_timestamp,
                                             live.max_timestamp}),
                      !.bytes_since_entry = live.bytes_since_entry,
                      !.complete = is_complete(c) /\ owned,
                      !.version = IF owned THEN VERSION ELSE live.version]
    BY <1>1, <1>2, <1>4, <1>9 DEF merge
  <2> QED BY <1>6, <1>7, <1>8, <2>1, Zenon
<1>11. n \in Nat /\ w \in BOOLEAN /\ v \in Nat
  BY <1>8 DEF IsIndex, VERSION, is_complete
<1>12. /\ r.max_timestamp = m /\ r.complete = w /\ r.version = v /\ r.entries = p.entries
       /\ r.backfill = p.backfill /\ IsIndex(r, high)
  <2>1. p = [entries |-> p.entries, max_timestamp |-> p.max_timestamp,
             bytes_since_entry |-> p.bytes_since_entry,
             interval_bytes |-> p.interval_bytes, complete |-> p.complete,
             version |-> p.version, backfill |-> p.backfill] /\ p.interval_bytes \in Nat
    BY <1>5 DEF IsIndex, Replayed
  <2>2. r = [entries |-> p.entries, max_timestamp |-> m, bytes_since_entry |-> n,
             interval_bytes |-> p.interval_bytes, complete |-> w, version |-> v,
             backfill |-> p.backfill]
    BY <1>10, <2>1
  <2>3. /\ r.max_timestamp = m /\ r.complete = w /\ r.version = v /\ r.entries = p.entries
        /\ r.backfill = p.backfill
        /\ r \in [entries : {r.entries}, max_timestamp : Int, bytes_since_entry : Nat,
                  interval_bytes : Nat, complete : BOOLEAN, version : Nat,
                  backfill : {r.backfill}]
    BY <1>11, <2>1, <2>2
  <2> QED BY <1>5, <2>3 DEF IsIndex, Replayed
<1>13. ASSUME NEW u \in DOMAIN r.entries
       PROVE  \/ u \in DOMAIN c.entries /\ r.entries[u] = c.entries[u]
              \/ u \in DOMAIN live.entries /\ r.entries[u] = live.entries[u]
                    /\ u > c.max_timestamp
  <2>1. PICK o : o = p.entries[u]
    OBVIOUS
  <2>2. o \in DOMAIN by /\ by[o] = u
    BY <1>5, <1>12, <2>1 DEF Replayed
  <2> QED BY <1>3, <1>12, <2>1, <2>2
<1>14. is_complete(r) => is_complete(c) /\ owned
  BY <1>8, <1>12 DEF is_complete
<1> QED BY <1>5, <1>6, <1>7, <1>9, <1>12, <1>13, <1>14 DEF IsMerged, Replayed

\* The merge covers what the candidate covers, and what the live index covers after it.
LEMMA MergeCovers ==
  ASSUME NEW r, NEW c, NEW live, NEW token, NEW h \in Nat, NEW high \in Nat,
         IsIndex(c, h), IsIndex(live, high), IsMerged(r, c, live, token, high),
         NEW b, IsBatch(b.batch), b.offset \in Nat,
         Covers(c, b) \/ (b.offset >= h /\ Covers(live, b))
  PROVE  Covers(r, b)
<1>1. PICK t \in Nat : t = MaxTimestamp(b.batch)
  BY TimestampOK
<1>2. r.max_timestamp \in Int /\ c.max_timestamp \in Int /\ live.max_timestamp \in Int
  BY DEF IsMerged, IsIndex
<1>3. t <= r.max_timestamp
  BY <1>1, <1>2 DEF IsMerged, Covers
<1>4. ASSUME NEW u \in DOMAIN r.entries, b.offset < r.entries[u] PROVE t < u
  <2>1. CASE u \in DOMAIN c.entries /\ r.entries[u] = c.entries[u]
    <3>1. c.entries[u] \in 0 .. h - 1
      BY <2>1 DEF IsIndex
    <3> QED BY <1>1, <1>4, <2>1, <3>1 DEF Covers
  <2>2. CASE u \in DOMAIN live.entries /\ r.entries[u] = live.entries[u] /\ u > c.max_timestamp
    <3>1. u \in Nat
      BY <2>2 DEF IsIndex
    <3> QED BY <1>1, <1>2, <1>4, <2>2, <3>1 DEF Covers
  <2> QED BY <2>1, <2>2 DEF IsMerged
<1> QED BY <1>1, <1>3, <1>4 DEF Covers

(***************************************************************************)
(* Collecting the listed batches.                                          *)
(***************************************************************************)
\* The function that a collection is the last value of.
CollectStep(prev, n, batches, listed, aged) ==
    IF n - 1 \in listed THEN collect_batch(prev, n - 1, batches, aged) ELSE prev

IsCollect(f, k, batches, listed, low, aged) ==
    f = [n \in 0 .. k |-> IF n = 0 THEN NothingCollected(low)
                          ELSE CollectStep(f[n - 1], n, batches, listed, aged)]

LEMMA CollectIsFold ==
  ASSUME NEW batches, NEW listed, NEW low, NEW aged, EndOf(listed) \in Nat
  PROVE  \E f : /\ IsCollect(f, EndOf(listed), batches, listed, low, aged)
                /\ collect_listed(batches, listed, low, aged) = f[EndOf(listed)]
<1>1. PICK base : base = NothingCollected(low)
  OBVIOUS
<1>2. PICK end \in Nat : end = EndOf(listed)
  OBVIOUS
<1> DEFINE Fold(f, k) == IsCollect(f, k, batches, listed, low, aged)
           Step(prev, n) == CollectStep(prev, n, batches, listed, aged)
           S == {k \in 0 .. end : \E f : Fold(f, k)}
<1>3. 0 \in S
  <2>1. Fold([n \in 0 .. 0 |-> base], 0)
    BY <1>1 DEF IsCollect
  <2> QED BY <2>1
<1>4. ASSUME NEW k \in 1 .. end, k - 1 \in S PROVE k \in S
  <2>1. PICK f : Fold(f, k - 1)
    BY <1>4
  <2>2. PICK g : g = [n \in 0 .. k |-> IF n = k THEN Step(f[k - 1], k) ELSE f[n]]
    OBVIOUS
  <2>3. ASSUME NEW n \in 0 .. k
        PROVE  g[n] = IF n = 0 THEN base ELSE Step(g[n - 1], n)
    <3>1. CASE n = 0
      <4>1. f[0] = base /\ 0 \in 0 .. k /\ k # 0
        BY <1>1, <2>1 DEF IsCollect
      <4> QED BY <2>2, <3>1, <4>1
    <3>2. CASE n # 0
      <4>1. n - 1 \in 0 .. k /\ n - 1 # k
        BY <3>2
      <4>2. g[n - 1] = f[n - 1]
        BY <2>2, <4>1
      <4>3. CASE n = k
        BY <2>2, <3>2, <4>2, <4>3
      <4>4. CASE n # k
        <5>1. n \in 0 .. k - 1
          BY <4>4
        <5>2. f[n] = Step(f[n - 1], n)
          BY <2>1, <3>2, <5>1 DEF IsCollect
        <5> QED BY <2>2, <3>2, <4>2, <4>4, <5>2
      <4> QED BY <4>3, <4>4
    <3> QED BY <3>1, <3>2
  <2>4. Fold(g, k)
    BY <1>1, <2>2, <2>3 DEF IsCollect
  <2>5. k \in 0 .. end
    OBVIOUS
  <2> QED BY <2>4, <2>5
<1>5. 0 .. end \subseteq S
  <2>1. \A n \in 1 .. end : n - 1 \in S => n \in S
    BY <1>4
  <2> HIDE DEF S
  <2> QED BY <1>3, <2>1, Induction
<1>6. end \in S
  <2> HIDE DEF S
  <2> QED BY <1>5
<1>7. PICK f : IsCollect(f, end, batches, listed, low, aged)
  BY <1>6
<1>8. \E h : /\ IsCollect(h, end, batches, listed, low, aged)
             /\ collect_listed(batches, listed, low, aged) = h[end]
  BY <1>2, <1>7 DEF collect_listed, FoldOffsets, IsCollect, CollectStep, EndOf
<1> QED BY <1>2, <1>8

\* What has been collected of the batches below n.
SoFar(s, n, batches, listed) ==
    /\ s \in [index : {s.index}, settled : BOOLEAN, next : Nat \cup {None}]
    /\ IsIndex(s.index, n) /\ s.index.backfill = None /\ ~ s.index.complete
    /\ \A o \in listed \cap DOMAIN batches :
        o < n => Covers(s.index, [batch |-> batches[o], offset |-> o])

AreBatches(batches) == \A o \in DOMAIN batches : IsBatch(batches[o])

LEMMA CollectBatchOK ==
  ASSUME NEW s, NEW n \in Nat, NEW batches, AreBatches(batches), NEW listed \in SUBSET Nat,
         SoFar(s, n, batches, listed), NEW aged
  PROVE  SoFar(collect_batch(s, n, batches, aged), n + 1, batches, listed)
<1>1. PICK gap, settled : /\ gap = (s.next # None /\ n > s.next /\ n \notin aged)
                          /\ settled = (s.settled /\ ~gap)
  OBVIOUS
<1>2. settled \in BOOLEAN
  BY <1>1
<1>3. PICK r : r = collect_batch(s, n, batches, aged)
  OBVIOUS
<1>4. CASE n \notin DOMAIN batches
  <2>1. r = [s EXCEPT !.settled = settled, !.next = None]
    BY <1>1, <1>3, <1>4 DEF collect_batch
  <2>2. r.index = s.index /\ r \in [index : {s.index}, settled : BOOLEAN, next : Nat \cup {None}]
    BY <1>2, <2>1 DEF SoFar
  <2>3. IsIndex(r.index, n + 1)
    BY <2>2, IndexGrows DEF SoFar
  <2>4. \A o \in listed \cap DOMAIN batches : o < n + 1 => o < n
    BY <1>4
  <2> QED BY <1>3, <2>2, <2>3, <2>4 DEF SoFar
<1>5. CASE n \in DOMAIN batches
  <2>1. PICK batch : batch = batches[n]
    OBVIOUS
  <2>2. IsBatch(batch) /\ Len(batch) \in Nat
    BY <1>5, <2>1, TimestampOK DEF AreBatches
  <2>3. PICK i : i = IF settled THEN append(s.index, MaxTimestamp(batch), n, Bytes(batch))
                     ELSE observe(s.index, MaxTimestamp(batch))
    OBVIOUS
  <2>4. r = [index |-> i, settled |-> settled, next |-> n + Len(batch)]
    BY <1>1, <1>3, <1>5, <2>1, <2>3 DEF collect_batch
  <2>5. KeepsUp(i, s.index, batch, n)
    BY <1>2, <2>2, <2>3, AppendCovers, ObserveCovers DEF SoFar
  <2>6. ASSUME NEW o \in listed \cap DOMAIN batches, o < n + 1
        PROVE  Covers(i, [batch |-> batches[o], offset |-> o])
    <3>1. PICK b : b = [batch |-> batches[o], offset |-> o]
      OBVIOUS
    <3>2. CASE o = n
      BY <2>1, <2>5, <3>2 DEF KeepsUp
    <3>3. CASE o < n
      <4>1. Covers(s.index, b) /\ IsBatch(b.batch)
        BY <3>1, <3>3 DEF SoFar, AreBatches
      <4>2. Covers(i, b)
        BY <2>5, <4>1 DEF KeepsUp
      <4> QED BY <3>1, <4>2
    <3> QED BY <2>6, <3>2, <3>3
  <2>7. r.index = i /\ r \in [index : {i}, settled : BOOLEAN, next : Nat \cup {None}]
    BY <1>2, <2>2, <2>4
  <2> QED BY <1>2, <1>3, <2>2, <2>5, <2>6, <2>7 DEF SoFar, KeepsUp
<1> QED BY <1>4, <1>5

LEMMA CollectListedOK ==
  ASSUME NEW batches, AreBatches(batches), NEW high \in Nat,
         NEW listed \in SUBSET (0 .. high - 1), NEW low \in Nat, NEW aged
  PROVE  SoFar(collect_listed(batches, listed, low, aged), high, batches, listed)
<1>1. PICK end \in 0 .. high : end = EndOf(listed) /\ \A o \in listed : o < end
  <2>1. listed \subseteq Nat /\ \A o \in listed : o < high
    OBVIOUS
  <2> QED BY <2>1, EndOK
<1>2. PICK f : /\ IsCollect(f, end, batches, listed, low, aged)
               /\ collect_listed(batches, listed, low, aged) = f[end]
  BY <1>1, CollectIsFold
<1> DEFINE S == {n \in 0 .. end : SoFar(f[n], n, batches, listed)}
<1>3. 0 \in S
  <2>1. f[0] = NothingCollected(low)
    BY <1>1, <1>2 DEF IsCollect
  <2>2. IsIndex(Default, 0) /\ Default.backfill = None /\ ~ Default.complete
    BY DefaultOK DEF Default
  <2>3. SoFar(NothingCollected(low), 0, batches, listed)
    BY <2>2 DEF NothingCollected, SoFar
  <2> QED BY <2>1, <2>3
<1>4. ASSUME NEW n \in 1 .. end, n - 1 \in S PROVE n \in S
  <2>1. f[n] = CollectStep(f[n - 1], n, batches, listed, aged)
    BY <1>2 DEF IsCollect
  <2> DEFINE m == n - 1
             prev == f[m]
  <2>2. m \in Nat /\ prev = f[n - 1] /\ n = m + 1
    OBVIOUS
  <2> HIDE DEF m, prev
  <2>3. SoFar(prev, m, batches, listed)
    BY <1>4 DEF m, prev
  <2>4. CASE m \in listed
    <3>1. SoFar(collect_batch(prev, m, batches, aged), m + 1, batches, listed)
      <4>1. listed \in SUBSET Nat
        OBVIOUS
      <4> QED BY <2>2, <2>3, <4>1, CollectBatchOK
    <3> QED BY <2>1, <2>2, <2>4, <3>1 DEF CollectStep
  <2>5. CASE m \notin listed
    <3>1. IsIndex(prev.index, n)
      BY <2>2, <2>3, IndexGrows DEF SoFar
    <3>2. \A o \in listed : o < n => o < m
      BY <2>2, <2>5
    <3>3. SoFar(prev, n, batches, listed)
      BY <2>3, <3>1, <3>2 DEF SoFar
    <3> QED BY <2>1, <2>2, <2>5, <3>3 DEF CollectStep
  <2> QED BY <2>4, <2>5
<1>5. 0 .. end \subseteq S
  <2>1. end \in Nat /\ \A n \in 1 .. end : n - 1 \in S => n \in S
    BY <1>1, <1>4
  <2> HIDE DEF S
  <2> QED BY <1>3, <2>1, Induction
<1>6. end \in S
  <2> HIDE DEF S
  <2> QED BY <1>1, <1>5
<1>7. IsIndex(f[end].index, high)
  BY <1>1, <1>6, IndexGrows DEF SoFar
<1> QED BY <1>1, <1>2, <1>6, <1>7 DEF SoFar

\* The candidate covers each listed batch that could be read, and when it is complete
\* the collection saw no gap.
LEMMA CollectOK ==
  ASSUME NEW batches, AreBatches(batches), NEW high \in Nat,
         NEW listed \in SUBSET (0 .. high - 1), NEW low \in Nat, NEW aged
  PROVE  LET c == collect(batches, listed, low, high, aged)
             all == collect_listed(batches, listed, low, aged)
         IN  /\ IsIndex(c, high)
             /\ \A o \in listed \cap DOMAIN batches :
                    Covers(c, [batch |-> batches[o], offset |-> o])
             /\ is_complete(c) => /\ all.settled
                                  /\ ~ (listed # {} /\ all.next # None /\ all.next < high)
<1>1. PICK all : all = collect_listed(batches, listed, low, aged)
  OBVIOUS
<1>2. SoFar(all, high, batches, listed)
  BY <1>1, CollectListedOK
<1>3. PICK c : c = collect(batches, listed, low, high, aged)
  OBVIOUS
<1> DEFINE done == all.settled /\ ~ (listed # {} /\ all.next # None /\ all.next < high)
<1>4. c = IF done THEN mark_complete(all.index) ELSE all.index
  BY <1>1, <1>3 DEF collect
<1>5. \A o \in listed \cap DOMAIN batches :
        Covers(all.index, [batch |-> batches[o], offset |-> o])
  BY <1>2 DEF SoFar
<1>6. /\ IsIndex(c, high)
      /\ \A o \in listed \cap DOMAIN batches :
            Covers(c, [batch |-> batches[o], offset |-> o])
  <2>1. PICK i : i = all.index
    OBVIOUS
  <2>2. IsIndex(i, high)
    BY <1>2, <2>1 DEF SoFar
  <2>3. IsIndex(mark_complete(i), high) /\ \A b : Covers(i, b) => Covers(mark_complete(i), b)
    BY <2>2, MarkCompleteOK
  <2>4. c = mark_complete(i) \/ c = i
    BY <1>4, <2>1
  <2> QED BY <1>5, <2>1, <2>2, <2>3, <2>4
<1>7. is_complete(c) => done
  BY <1>2, <1>4 DEF is_complete, SoFar
<1> QED BY <1>1, <1>3, <1>6, <1>7

\* A batch in flight as the others are listed leaves a gap, which the collection sees
\* unless a batch after it has aged, or the listed one before it is deleted.
LEMMA GapIsSeen ==
  ASSUME NEW batches, AreBatches(batches), NEW high \in Nat,
         NEW listed \in SUBSET (0 .. high - 1), NEW low \in Nat, NEW aged,
         NEW u \in Nat, NEW len \in Nat \ {0}, u \notin listed, low < u + len,
         \A o \in listed : /\ o < u /\ o \in DOMAIN batches => o + Len(batches[o]) <= u
                           /\ u < o => u + len <= o /\ o \notin aged,
         \A o \in listed : o < u /\ (\A p \in listed : p < u => p <= o) => o \in DOMAIN batches
  PROVE  LET all == collect_listed(batches, listed, low, aged)
         IN  all.settled => all.next \in Nat /\ all.next < u + len
<1>1. PICK end \in 0 .. high : end = EndOf(listed) /\ \A o \in listed : o < end
  <2>1. listed \subseteq Nat /\ \A o \in listed : o < high
    OBVIOUS
  <2> QED BY <2>1, EndOK
<1>2. PICK f : /\ IsCollect(f, end, batches, listed, low, aged)
               /\ collect_listed(batches, listed, low, aged) = f[end]
  BY <1>1, CollectIsFold
<1> DEFINE Passed(n) == \A o \in listed : o < u => o < n
           P(s, n) == /\ s = [index |-> s.index, settled |-> s.settled, next |-> s.next]
                      /\ s.settled /\ Passed(n) => s.next \in Nat /\ s.next < u + len
           S == {n \in 0 .. end : P(f[n], n)}
<1>3. 0 \in S
  <2>1. f[0] = NothingCollected(low)
    BY <1>1, <1>2 DEF IsCollect
  <2> QED BY <1>1, <2>1 DEF NothingCollected
<1>4. ASSUME NEW n \in 1 .. end, n - 1 \in S PROVE n \in S
  <2>1. f[n] = CollectStep(f[n - 1], n, batches, listed, aged)
    BY <1>2 DEF IsCollect
  <2> DEFINE m == n - 1
             prev == f[m]
  <2>2. m \in Nat /\ prev = f[n - 1] /\ n = m + 1
    OBVIOUS
  <2> HIDE DEF m, prev
  <2>3. P(prev, m)
    <3>1. P(f[n - 1], n - 1)
      BY <1>4
    <3> QED BY <3>1 DEF m, prev
  <2>4. CASE m \in listed
    <3>1. PICK gap, settled : /\ gap = (prev.next # None /\ m > prev.next /\ m \notin aged)
                              /\ settled = (prev.settled /\ ~gap)
      OBVIOUS
    <3>2. PICK r : r = collect_batch(prev, m, batches, aged)
      OBVIOUS
    <3>3. /\ r.settled = settled /\ (m \in DOMAIN batches => r.next = m + Len(batches[m]))
          /\ r = [index |-> r.index, settled |-> r.settled, next |-> r.next]
      <4>1. CASE m \in DOMAIN batches
        <5>1. PICK i : r = [index |-> i, settled |-> settled, next |-> m + Len(batches[m])]
          BY <3>1, <3>2, <4>1 DEF collect_batch
        <5> QED BY <5>1
      <4>2. CASE m \notin DOMAIN batches
        <5>1. r = [prev EXCEPT !.settled = settled, !.next = None]
          BY <3>1, <3>2, <4>2 DEF collect_batch
        <5>2. prev = [index |-> prev.index, settled |-> prev.settled, next |-> prev.next]
          BY <2>3
        <5>3. r = [index |-> prev.index, settled |-> settled, next |-> None]
          BY <5>1, <5>2
        <5> QED BY <4>2, <5>3
      <4> QED BY <4>1, <4>2
    <3>4. ASSUME settled PROVE m < u
      <4> SUFFICES ASSUME u < m PROVE FALSE
        BY <2>2, <2>4
      <4>1. Passed(m)
        BY <2>2
      <4>2. prev.next \in Nat /\ prev.next < u + len /\ prev.settled /\ ~gap
        BY <2>3, <3>1, <3>4, <4>1
      <4>3. prev.next # None
        BY <4>2, ListOffsetsAssumption
      <4>4. ~ (m > prev.next) \/ m \in aged
        BY <3>1, <4>2, <4>3
      <4> QED BY <2>2, <2>4, <4>2, <4>4
    <3>5. ASSUME r.settled, Passed(n) PROVE r.next \in Nat /\ r.next < u + len
      <4>1. m < u
        BY <3>3, <3>4, <3>5
      <4>2. \A p \in listed : p < u => p <= m
        BY <2>2, <3>5
      <4>3. m \in DOMAIN batches
        BY <2>4, <4>1, <4>2
      <4>4. Len(batches[m]) \in Nat /\ Len(batches[m]) > 0
        BY <4>3, TimestampOK DEF AreBatches
      <4>5. m + Len(batches[m]) <= u
        BY <2>4, <4>1, <4>3
      <4> QED BY <2>2, <3>3, <4>3, <4>4, <4>5
    <3>6. f[n] = r
      BY <2>1, <2>2, <2>4, <3>2 DEF CollectStep
    <3> QED BY <3>3, <3>5, <3>6
  <2>5. CASE m \notin listed
    <3>1. f[n] = prev
      BY <2>1, <2>2, <2>5 DEF CollectStep
    <3>2. Passed(n) => Passed(m)
      BY <2>2, <2>5
    <3> QED BY <2>3, <3>1, <3>2
  <2> QED BY <2>4, <2>5
<1>5. 0 .. end \subseteq S
  <2> HIDE DEF S
  <2>1. end \in Nat
    BY <1>1
  <2>2. \A n \in 1 .. end : n - 1 \in S => n \in S
    BY <1>4
  <2> QED BY <1>3, <2>1, <2>2, Induction
<1>6. end \in S
  <2> HIDE DEF S
  <2> QED BY <1>1, <1>5
<1> QED BY <1>1, <1>2, <1>6

(***************************************************************************)
(* The invariant.  B is the batches in the log or in flight that no        *)
(* backfill has overlooked, F the offsets of all those in flight, mark the *)
(* document.                                                               *)
(***************************************************************************)
IsUncut(b, mark) == b.offset + Len(b.batch) > mark.low

\* Each batch has its own part of the offsets below the high watermark.
LogOK(B, mark) ==
    /\ mark \in [low : Nat, high : Nat, time_index : {mark.time_index}]
    /\ \A b \in B : /\ b = [batch |-> b.batch, offset |-> b.offset]
                    /\ IsBatch(b.batch) /\ b.offset \in Nat
                    /\ b.offset + Len(b.batch) <= mark.high
    /\ \A a, b \in B : /\ a.offset < b.offset => a.offset + Len(a.batch) <= b.offset
                       /\ a.offset = b.offset => a = b

\* The offsets of the batches in flight, each with its own, are those of no object.
RequestsOK(reqs, recs) ==
    /\ reqs = [c \in Slots |-> reqs[c]]
    /\ recs = [o \in DOMAIN recs |-> recs[o]]
    /\ \A c \in Slots : reqs[c] # None =>
        /\ reqs[c].offset \notin DOMAIN recs
        /\ \A d \in Slots \ {c} : reqs[d] # None => reqs[d].offset # reqs[c].offset

\* The document's index, when it is complete, covers every batch that is not cut.
IndexOK(B, mark) ==
    /\ IsIndex(mark.time_index, mark.high)
    /\ is_complete(mark.time_index) =>
        \A b \in B : IsUncut(b, mark) => Covers(mark.time_index, b)

\* What a lookup has read: the index it uses covers what it has seen, and the index
\* that it is about to merge, when it is complete, all that was there as it began.
Backfills(x) == x.stage \in {"list", "read", "commit"}

IsLookup(x) ==
    x = [stage |-> x.stage, index |-> x.index, low |-> x.low, high |-> x.high,
         token |-> x.token, listed |-> x.listed, seen |-> x.seen]

CoversSeen(x, B, mark) ==
    \A b \in B : IsUncut(b, mark) /\ b.offset \in x.seen => Covers(x.index, b)

LookupOK(x, B, F, mark) ==
    /\ IsLookup(x)
    /\ x.low \in Nat /\ x.low <= mark.low
    /\ x.high \in Nat /\ x.high <= mark.high
    /\ \A b \in B : b.offset < x.high => b.offset + Len(b.batch) <= x.high
    /\ \A o \in x.seen : o \in Nat /\ o < mark.high /\ o \notin F
    /\ Backfills(x) => x.token # None /\ \A o \in x.seen : o < x.high
    /\ x.stage = "read" =>
        /\ x.listed = [o \in DOMAIN x.listed |-> x.listed[o]]
        /\ DOMAIN x.listed \subseteq 0 .. x.high - 1
        /\ F \cap DOMAIN x.listed = {}
        /\ \A b \in B : b.offset \in x.seen => b.offset \in DOMAIN x.listed
        /\ \A b \in B : b.offset < x.high /\ b.offset \notin DOMAIN x.listed =>
            \A o \in DOMAIN x.listed :
                b.offset < o => x.listed[o] /\ b.offset + Len(b.batch) <= o
    /\ x.stage = "commit" =>
        /\ IsIndex(x.index, x.high)
        /\ is_complete(x.index) =>
            \A b \in B : IsUncut(b, mark) /\ b.offset < x.high => Covers(x.index, b)
        /\ CoversSeen(x, B, mark)
    /\ x.stage \in {"low", "scan"} => IsIndex(x.index, mark.high) /\ CoversSeen(x, B, mark)

\* While the document has the token of a backfill, its index covers what was produced
\* since the backfill began.
TokenOK(x, B, mark) ==
    Backfills(x) /\ x.token = mark.time_index.backfill =>
        \A b \in B : IsUncut(b, mark) /\ b.offset >= x.high => Covers(mark.time_index, b)

\* The tokens that are in use, and that the one a lookup is about to write is not.
Tokens(mark, looks) ==
    {mark.time_index.backfill}
        \cup {looks[l].token : l \in {l \in Lookups : looks[l] # None /\ Backfills(looks[l])}}

Begins(looks, l) == looks[l] # None /\ looks[l].stage = "begin"

TokensOK(mark, looks, n) ==
    \A l \in Lookups, k \in Nat :
        <<l, k>> \in Tokens(mark, looks) => k <= n /\ (Begins(looks, l) => k < n)

StateOK(B, F, mark, looks, n) ==
    /\ LogOK(B, mark) /\ IndexOK(B, mark)
    /\ looks = [l \in Lookups |-> looks[l]]
    /\ n \in Nat
    /\ \A l \in Lookups :
        looks[l] # None => LookupOK(looks[l], B, F, mark) /\ TokenOK(looks[l], B, mark)
    /\ TokensOK(mark, looks, n)

Known == {b \in InLogOrFlight : b.offset \notin overlooked}

InFlight == {requests[c].offset : c \in {c \in Slots : requests[c] # None}}

IsCounts(c) ==
    c = [sends |-> c.sends, old_sends |-> c.old_sends, lookups |-> c.lookups, events |-> c.events]

Inv ==
    /\ StateOK(Known, InFlight, watermark, lookups, counts.lookups)
    /\ LogOK(InLogOrFlight, watermark)
    /\ RequestsOK(requests, records)
    /\ IsCounts(counts)

(***************************************************************************)
(* What a step of the log leaves true of the lookups.                      *)
(***************************************************************************)
\* The log grows at its end, and its start only moves up.
Onward(B, F, mark, C, G, mk) ==
    /\ LogOK(B, mark) /\ LogOK(C, mk)
    /\ mk.low >= mark.low /\ mk.high >= mark.high
    /\ \A b \in C : b \in B \/ b.offset >= mark.high
    /\ \A o \in G : o \in F \/ (o \in Nat /\ o >= mark.high)

LEMMA LookupStays ==
  ASSUME NEW B, NEW F, NEW mark, NEW C, NEW G, NEW mk, Onward(B, F, mark, C, G, mk),
         NEW x, LookupOK(x, B, F, mark)
  PROVE  LookupOK(x, C, G, mk)
<1>1. /\ mark.low \in Nat /\ mark.high \in Nat /\ mk.low \in Nat /\ mk.high \in Nat
      /\ x.low \in Nat /\ x.high \in Nat
  BY DEF Onward, LogOK, LookupOK
<1>2. mark.low <= mk.low /\ mark.high <= mk.high /\ x.low <= mark.low /\ x.high <= mark.high
  BY <1>1 DEF Onward, LookupOK
<1>3. \A b \in C : b.offset \in Nat /\ Len(b.batch) \in Nat
  BY TimestampOK DEF Onward, LogOK
<1>4. \A b \in C : b \in B \/ b.offset >= mark.high
  BY DEF Onward
<1>5. \A b \in C : IsUncut(b, mk) => IsUncut(b, mark)
  BY <1>1, <1>2, <1>3 DEF IsUncut
<1>6. x.low <= mk.low /\ x.high <= mk.high
  BY <1>1, <1>2
<1>7. ASSUME NEW o \in x.seen PROVE o \in Nat /\ o < mark.high /\ o < mk.high /\ o \notin G
  <2>1. o \in Nat /\ o < mark.high /\ o \notin F
    BY DEF LookupOK
  <2>2. \A g \in G : g \in F \/ (g \in Nat /\ g >= mark.high)
    BY DEF Onward
  <2> QED BY <1>1, <1>2, <2>1, <2>2
<1>8. \A b \in C : b.offset \in x.seen => b \in B
  BY <1>1, <1>3, <1>4, <1>7
<1>9. \A b \in C : b.offset < x.high => b \in B
  BY <1>1, <1>2, <1>3, <1>4
<1>10. CoversSeen(x, B, mark) => CoversSeen(x, C, mk)
  BY <1>5, <1>8 DEF CoversSeen
<1>11. ASSUME x.stage = "read"
       PROVE  /\ x.listed = [o \in DOMAIN x.listed |-> x.listed[o]]
              /\ DOMAIN x.listed \subseteq 0 .. x.high - 1
              /\ G \cap DOMAIN x.listed = {}
              /\ \A b \in C : b.offset \in x.seen => b.offset \in DOMAIN x.listed
              /\ \A b \in C : b.offset < x.high /\ b.offset \notin DOMAIN x.listed =>
                    \A o \in DOMAIN x.listed :
                        b.offset < o => x.listed[o] /\ b.offset + Len(b.batch) <= o
  <2>1. /\ x.listed = [o \in DOMAIN x.listed |-> x.listed[o]]
        /\ DOMAIN x.listed \subseteq 0 .. x.high - 1
        /\ F \cap DOMAIN x.listed = {}
        /\ \A b \in B : b.offset \in x.seen => b.offset \in DOMAIN x.listed
        /\ \A b \in B : b.offset < x.high /\ b.offset \notin DOMAIN x.listed =>
            \A o \in DOMAIN x.listed :
                b.offset < o => x.listed[o] /\ b.offset + Len(b.batch) <= o
    BY <1>11 DEF LookupOK
  <2>2. G \cap DOMAIN x.listed = {}
    <3>1. \A g \in G : g \in F \/ (g \in Nat /\ g >= mark.high)
      BY DEF Onward
    <3> QED BY <1>1, <1>2, <2>1, <3>1
  <2> QED BY <1>8, <1>9, <2>1, <2>2
<1>12. ASSUME x.stage = "commit"
       PROVE  /\ IsIndex(x.index, x.high)
              /\ is_complete(x.index) =>
                    \A b \in C : IsUncut(b, mk) /\ b.offset < x.high => Covers(x.index, b)
              /\ CoversSeen(x, C, mk)
  <2>1. /\ IsIndex(x.index, x.high)
        /\ is_complete(x.index) =>
            \A b \in B : IsUncut(b, mark) /\ b.offset < x.high => Covers(x.index, b)
        /\ CoversSeen(x, B, mark)
    BY <1>12 DEF LookupOK
  <2> QED BY <1>5, <1>9, <1>10, <2>1
<1>13. x.stage \in {"low", "scan"} => IsIndex(x.index, mk.high) /\ CoversSeen(x, C, mk)
  <2>1. x.stage \in {"low", "scan"} => IsIndex(x.index, mark.high) /\ CoversSeen(x, B, mark)
    BY DEF LookupOK
  <2>2. IsIndex(x.index, mark.high) => IsIndex(x.index, mk.high)
    BY <1>1, <1>2, IndexGrows
  <2> QED BY <1>10, <2>1, <2>2
<1>14. /\ IsLookup(x)
       /\ Backfills(x) => x.token # None /\ \A o \in x.seen : o < x.high
  BY DEF LookupOK
<1>15. \A b \in C : b.offset < x.high => b.offset + Len(b.batch) <= x.high
  BY <1>9 DEF LookupOK
<1> QED BY <1>1, <1>6, <1>7, <1>11, <1>12, <1>13, <1>14, <1>15 DEF LookupOK

\* A step that leaves the tokens or ends the use of them, and lets none begin.
LEMMA TokensStay ==
  ASSUME NEW mark, NEW looks, NEW n \in Nat, TokensOK(mark, looks, n),
         NEW mk, NEW looks2, NEW n2 \in Nat, n2 >= n,
         Tokens(mk, looks2) \subseteq Tokens(mark, looks) \cup {None},
         \A l \in Lookups : Begins(looks2, l) => Begins(looks, l) \/ n2 > n
  PROVE  TokensOK(mk, looks2, n2)
<1> SUFFICES ASSUME NEW l \in Lookups, NEW k \in Nat, <<l, k>> \in Tokens(mk, looks2)
             PROVE  k <= n2 /\ (Begins(looks2, l) => k < n2)
  BY DEF TokensOK
<1>1. <<l, k>> # None
  BY ListOffsetsAssumption
<1>2. <<l, k>> \in Tokens(mark, looks)
  BY <1>1
<1>3. k <= n /\ (Begins(looks, l) => k < n)
  BY <1>2 DEF TokensOK
<1> QED BY <1>3

\* A batch at the end of the log.
LEMMA LogGrows ==
  ASSUME NEW B, NEW F, NEW mark, LogOK(B, mark), NEW batch, IsBatch(batch),
         NEW C, \A b \in C : b \in B \/ b = [batch |-> batch, offset |-> mark.high],
         NEW G, \A o \in G : o \in F \/ o = mark.high,
         NEW mk, mk = [low |-> mark.low, high |-> mark.high + Len(batch),
                       time_index |-> mk.time_index]
  PROVE  Onward(B, F, mark, C, G, mk)
<1>1. mark.low \in Nat /\ mark.high \in Nat /\ Len(batch) \in Nat /\ Len(batch) > 0
  BY TimestampOK DEF LogOK
<1>2. /\ mk.low = mark.low /\ mk.high = mark.high + Len(batch)
      /\ mk \in [low : Nat, high : Nat, time_index : {mk.time_index}]
  BY <1>1
<1>3. PICK new : new = [batch |-> batch, offset |-> mark.high]
  OBVIOUS
<1>4. new.batch = batch /\ new.offset = mark.high
  BY <1>3
<1>5. ASSUME NEW b \in B
      PROVE  /\ b = [batch |-> b.batch, offset |-> b.offset]
             /\ IsBatch(b.batch) /\ b.offset \in Nat /\ Len(b.batch) \in Nat /\ Len(b.batch) > 0
             /\ b.offset + Len(b.batch) <= mark.high
  BY TimestampOK DEF LogOK
<1>6. ASSUME NEW b \in C
      PROVE  /\ b = [batch |-> b.batch, offset |-> b.offset]
             /\ IsBatch(b.batch) /\ b.offset \in Nat
             /\ b.offset + Len(b.batch) <= mk.high
  <2>1. CASE b \in B
    BY <1>1, <1>2, <1>5, <2>1
  <2>2. CASE b = new
    BY <1>1, <1>2, <1>3, <1>4, <2>2
  <2> QED BY <1>3, <2>1, <2>2
<1>7. ASSUME NEW a \in C, NEW b \in C
      PROVE  /\ a.offset < b.offset => a.offset + Len(a.batch) <= b.offset
             /\ a.offset = b.offset => a = b
  <2>1. CASE a \in B /\ b \in B
    BY <2>1 DEF LogOK
  <2>2. CASE a \in B /\ b = new
    BY <1>1, <1>4, <1>5, <2>2
  <2>3. CASE a = new /\ b \in B
    BY <1>1, <1>4, <1>5, <2>3
  <2>4. CASE a = new /\ b = new
    BY <1>1, <1>4, <2>4
  <2> QED BY <1>3, <2>1, <2>2, <2>3, <2>4
<1>8. LogOK(C, mk)
  BY <1>2, <1>6, <1>7 DEF LogOK
<1>9. \A b \in C : b \in B \/ b.offset >= mark.high
  BY <1>1, <1>3, <1>4
<1> QED BY <1>1, <1>2, <1>8, <1>9 DEF Onward

\* The log with fewer batches, or a later start.
LEMMA LogShrinks ==
  ASSUME NEW B, NEW F, NEW mark, LogOK(B, mark), NEW C, C \subseteq B, NEW G, G \subseteq F,
         NEW mk, mk = [low |-> mk.low, high |-> mark.high, time_index |-> mk.time_index],
         mk.low \in Nat, mk.low >= mark.low
  PROVE  Onward(B, F, mark, C, G, mk)
<1>1. mk \in [low : Nat, high : Nat, time_index : {mk.time_index}] /\ mk.high = mark.high
      /\ mark.high \in Nat
  BY DEF LogOK
<1>2. LogOK(C, mk)
  BY <1>1 DEF LogOK
<1> QED BY <1>1, <1>2 DEF Onward

LEMMA CoversShrink ==
  ASSUME NEW B, NEW F, NEW mark, NEW C, NEW G, NEW mk, Onward(B, F, mark, C, G, mk),
         C \subseteq B, mk.time_index = mark.time_index, mk.high = mark.high
  PROVE  /\ IndexOK(B, mark) => IndexOK(C, mk)
         /\ \A x : TokenOK(x, B, mark) => TokenOK(x, C, mk)
<1>1. \A b \in C : b \in B /\ (IsUncut(b, mk) => IsUncut(b, mark))
  <2>1. ASSUME NEW b \in C PROVE IsUncut(b, mk) => IsUncut(b, mark)
    <3>1. b.offset \in Nat /\ Len(b.batch) \in Nat /\ mark.low \in Nat /\ mk.low \in Nat
          /\ mk.low >= mark.low
      BY TimestampOK DEF Onward, LogOK
    <3> QED BY <3>1 DEF IsUncut
  <2> QED BY <2>1
<1> QED BY <1>1 DEF IndexOK, TokenOK

\* A step of the log that leaves the lookups alone, and the token or ends its use.
LEMMA LogStep ==
  ASSUME NEW B, NEW F, NEW mark, NEW looks, NEW n, StateOK(B, F, mark, looks, n),
         NEW C, NEW G, NEW mk, Onward(B, F, mark, C, G, mk), IndexOK(C, mk),
         mk.time_index.backfill \in {mark.time_index.backfill, None},
         \A x : LookupOK(x, B, F, mark) /\ TokenOK(x, B, mark) => TokenOK(x, C, mk)
  PROVE  StateOK(C, G, mk, looks, n)
<1>1. /\ looks = [l \in Lookups |-> looks[l]] /\ n \in Nat /\ TokensOK(mark, looks, n)
      /\ \A l \in Lookups :
            looks[l] # None => LookupOK(looks[l], B, F, mark) /\ TokenOK(looks[l], B, mark)
  BY DEF StateOK
<1>2. \A l \in Lookups : looks[l] # None => TokenOK(looks[l], C, mk)
  BY <1>1
<1>3. TokensOK(mk, looks, n)
  <2>1. Tokens(mk, looks) \subseteq Tokens(mark, looks) \cup {None}
    BY DEF Tokens
  <2>2. n >= n
    BY <1>1
  <2> QED BY <1>1, <2>1, <2>2, TokensStay
<1>4. \A l \in Lookups : looks[l] # None =>
        LookupOK(looks[l], C, G, mk) /\ TokenOK(looks[l], C, mk)
  BY <1>1, <1>2, LookupStays
<1> QED BY <1>1, <1>3, <1>4 DEF StateOK, Onward

(***************************************************************************)
(* The steps of the log.                                                   *)
(***************************************************************************)
\* A produce takes the next offsets.
LEMMA TakesOffset ==
  ASSUME Inv, NEW c \in Slots, NEW batch \in Batches, requests[c] = None,
         requests' = [requests EXCEPT ![c] = [batch |-> batch, offset |-> watermark.high]],
         records' = records, overlooked' = overlooked
  PROVE  /\ \A b \in InLogOrFlight' :
                b \in InLogOrFlight \/ b = [batch |-> batch, offset |-> watermark.high]
         /\ \A b \in Known' : b \in Known \/ b = [batch |-> batch, offset |-> watermark.high]
         /\ \A o \in InFlight' : o \in InFlight \/ o = watermark.high
         /\ RequestsOK(requests', records')
         /\ IsBatch(batch)
<1>1. IsBatch(batch)
  BY ListOffsetsAssumption DEF IsBatch
<1>2. PICK new : new = [batch |-> batch, offset |-> watermark.high]
  OBVIOUS
<1>3. new.offset = watermark.high
  BY <1>2
<1>4. requests = [d \in Slots |-> requests[d]] /\ requests' = [requests EXCEPT ![c] = new]
  BY <1>2 DEF Inv, RequestsOK
<1>5. \A d \in Slots : requests'[d] = IF d = c THEN new ELSE requests[d]
  BY <1>4
<1>6. requests' = [d \in Slots |-> requests'[d]]
  BY <1>4
<1>7. \A b \in InLogOrFlight' : b \in InLogOrFlight \/ b = new
  BY <1>5 DEF InLogOrFlight
<1>8. \A o \in InFlight' : o \in InFlight \/ o = watermark.high
  BY <1>3, <1>5 DEF InFlight
<1>9. \A b \in InLogOrFlight : b.offset < watermark.high
  <2> SUFFICES ASSUME NEW b \in InLogOrFlight PROVE b.offset < watermark.high
    OBVIOUS
  <2>1. LogOK(InLogOrFlight, watermark)
    BY DEF Inv
  <2>2. watermark.high \in Nat /\ b.offset \in Nat /\ IsBatch(b.batch)
        /\ b.offset + Len(b.batch) <= watermark.high
    BY <2>1 DEF LogOK
  <2>3. Len(b.batch) \in Nat /\ Len(b.batch) > 0
    BY <2>2, TimestampOK
  <2> QED BY <2>2, <2>3
<1>10. watermark.high \in Nat
  BY DEF Inv, StateOK, LogOK
<1>11. watermark.high \notin DOMAIN records
  <2> SUFFICES ASSUME watermark.high \in DOMAIN records PROVE FALSE
    OBVIOUS
  <2>1. PICK b : b = [batch |-> records[watermark.high], offset |-> watermark.high]
    OBVIOUS
  <2>2. b \in InLogOrFlight /\ b.offset = watermark.high
    BY <2>1 DEF InLogOrFlight
  <2> QED BY <1>9, <1>10, <2>2
<1>12. \A d \in Slots : requests[d] # None => requests[d].offset # watermark.high
  <2> SUFFICES ASSUME NEW d \in Slots, requests[d] # None PROVE requests[d].offset # watermark.high
    OBVIOUS
  <2>1. requests[d] \in InLogOrFlight
    BY DEF InLogOrFlight
  <2> QED BY <1>9, <1>10, <2>1
<1>13. RequestsOK(requests', records')
  <2>1. records = [o \in DOMAIN records |-> records[o]]
    BY DEF Inv, RequestsOK
  <2>2. ASSUME NEW d \in Slots, requests'[d] # None
        PROVE  /\ requests'[d].offset \notin DOMAIN records
               /\ \A e \in Slots \ {d} :
                    requests'[e] # None => requests'[e].offset # requests'[d].offset
    BY <1>3, <1>5, <1>11, <1>12, <2>2 DEF Inv, RequestsOK
  <2> QED BY <1>6, <2>1, <2>2 DEF RequestsOK
<1>14. \A b \in Known' : b \in Known \/ b = new
  BY <1>7 DEF Known
<1> QED BY <1>1, <1>2, <1>7, <1>8, <1>13, <1>14

\* The index after a produce covers the new batch, and what it covered before.
TakesOffsets(B, mark, C, mk, batch, index) ==
    /\ IsBatch(batch)
    /\ \A b \in C : b \in B \/ b = [batch |-> batch, offset |-> mark.high]
    /\ mk.low = mark.low /\ mk.high = mark.high + Len(batch)
    /\ index = IF mark.high = 0 THEN mark_complete(mark.time_index) ELSE mark.time_index
    /\ mk.time_index = append(index, MaxTimestamp(batch), mark.high, Bytes(batch))

LEMMA TakeOffsetCovers ==
  ASSUME NEW B, NEW mark, LogOK(B, mark), IndexOK(B, mark),
         NEW C, NEW mk, NEW batch, NEW index, TakesOffsets(B, mark, C, mk, batch, index)
  PROVE  /\ IndexOK(C, mk)
         /\ mk.time_index.backfill = mark.time_index.backfill
         /\ \A x : TokenOK(x, B, mark) => TokenOK(x, C, mk)
<1> USE DEF TakesOffsets
<1>1. PICK high \in Nat : high = mark.high
  BY DEF LogOK
<1>2. PICK r : r = mk.time_index
  OBVIOUS
<1>3. IsIndex(index, high) /\ index.backfill = mark.time_index.backfill
  <2>1. IsIndex(mark.time_index, high)
    BY <1>1 DEF IndexOK
  <2> QED BY <1>1, <2>1, MarkCompleteOK
<1>4. KeepsUp(r, index, batch, high)
  BY <1>1, <1>2, <1>3, AppendCovers
<1>5. IsIndex(r, mk.high)
  <2>1. Len(batch) \in Nat /\ Len(batch) > 0
    BY TimestampOK
  <2>2. high + 1 <= high + Len(batch) /\ high + 1 \in Nat /\ high + Len(batch) \in Nat
    BY <2>1
  <2> QED BY <1>1, <1>4, <2>2, IndexGrows DEF KeepsUp
<1>6. ASSUME NEW b \in B
      PROVE  /\ index = mark.time_index /\ IsBatch(b.batch)
             /\ IsUncut(b, mk) => IsUncut(b, mark)
             /\ Covers(index, b) => Covers(r, b)
  <2>1. b.offset \in Nat /\ IsBatch(b.batch) /\ b.offset + Len(b.batch) <= high
    BY <1>1 DEF LogOK
  <2>2. Len(b.batch) \in Nat /\ Len(b.batch) > 0
    BY <2>1, TimestampOK
  <2>3. high # 0
    BY <2>1, <2>2
  <2> QED BY <1>1, <1>4, <2>1, <2>3 DEF KeepsUp, IsUncut
<1>7. PICK new : new = [batch |-> batch, offset |-> high]
  OBVIOUS
<1>8. Covers(r, new)
  BY <1>4, <1>7 DEF KeepsUp
<1>9. is_complete(r) => is_complete(index)
  BY <1>4 DEF KeepsUp, is_complete
<1>10. IndexOK(C, mk)
  <2>1. ASSUME is_complete(r), NEW b \in C, IsUncut(b, mk) PROVE Covers(r, b)
    <3>1. CASE b = new
      BY <1>8, <3>1
    <3>2. CASE b \in B
      BY <1>6, <1>9, <2>1, <3>2 DEF IndexOK
    <3> QED BY <1>1, <1>7, <3>1, <3>2
  <2> QED BY <1>2, <1>5, <2>1 DEF IndexOK
<1>11. r.backfill = mark.time_index.backfill
  BY <1>3, <1>4 DEF KeepsUp
<1>12. ASSUME NEW x, TokenOK(x, B, mark) PROVE TokenOK(x, C, mk)
  <2>1. ASSUME Backfills(x), x.token = r.backfill,
               NEW b \in C, IsUncut(b, mk), b.offset >= x.high
        PROVE  Covers(r, b)
    <3>1. CASE b = new
      BY <1>8, <3>1
    <3>2. CASE b \in B
      BY <1>6, <1>11, <1>12, <2>1, <3>2 DEF TokenOK
    <3> QED BY <1>1, <1>7, <3>1, <3>2
  <2> QED BY <1>2, <2>1 DEF TokenOK
<1> QED BY <1>2, <1>10, <1>11, <1>12

LEMMA TakeOffsetStep ==
  ASSUME Inv, NEW c \in Slots, NEW batch \in Batches, TakeOffset(c, batch)
  PROVE  Inv'
<1>1. PICK B, F, mark, looks, n :
        /\ B = Known /\ F = InFlight /\ mark = watermark /\ looks = lookups
        /\ n = counts.lookups
  OBVIOUS
<1>2. PICK C, G, mk, D, E : /\ C = Known' /\ G = InFlight' /\ mk = watermark'
                           /\ D = InLogOrFlight /\ E = InLogOrFlight'
  OBVIOUS
<1>3. StateOK(B, F, mark, looks, n)
  BY <1>1 DEF Inv
<1>4. /\ \A b \in C : b \in B \/ b = [batch |-> batch, offset |-> mark.high]
      /\ \A b \in E : b \in D \/ b = [batch |-> batch, offset |-> mark.high]
      /\ \A o \in G : o \in F \/ o = mark.high
      /\ RequestsOK(requests', records') /\ IsBatch(batch)
  <2>1. requests[c] = None /\ records' = records /\ overlooked' = overlooked
        /\ requests' = [requests EXCEPT ![c] = [batch |-> batch, offset |-> watermark.high]]
    BY DEF TakeOffset
  <2> QED BY <1>1, <1>2, <2>1, TakesOffset
<1>5. PICK index : index = IF mark.high = 0 THEN mark_complete(mark.time_index)
                           ELSE mark.time_index
  OBVIOUS
<1>6. PICK r : r = append(index, MaxTimestamp(batch), mark.high, Bytes(batch))
  OBVIOUS
<1>7. mk = [low |-> mark.low, high |-> mark.high + Len(batch), time_index |-> r]
  <2>1. mk = [mark EXCEPT !.high = @ + Len(batch), !.time_index = r]
    BY <1>1, <1>2, <1>5, <1>6 DEF TakeOffset
  <2>2. mark \in [low : Nat, high : Nat, time_index : {mark.time_index}]
    BY <1>3 DEF StateOK, LogOK
  <2> QED BY <2>1, <2>2
<1>8. mk.low = mark.low /\ mk.high = mark.high + Len(batch) /\ mk.time_index = r
  BY <1>7
<1>9. Onward(B, F, mark, C, G, mk)
  BY <1>3, <1>4, <1>7, <1>8, LogGrows DEF StateOK
<1>10. /\ IndexOK(C, mk)
       /\ mk.time_index.backfill = mark.time_index.backfill
       /\ \A x : TokenOK(x, B, mark) => TokenOK(x, C, mk)
  <2>1. LogOK(B, mark) /\ IndexOK(B, mark)
    BY <1>3 DEF StateOK
  <2>2. TakesOffsets(B, mark, C, mk, batch, index)
    BY <1>4, <1>5, <1>6, <1>8 DEF TakesOffsets
  <2> QED BY <2>1, <2>2, TakeOffsetCovers
<1>11. StateOK(C, G, mk, looks, n)
  BY <1>3, <1>9, <1>10, LogStep
<1>12. lookups' = looks /\ counts'.lookups = n /\ IsCounts(counts')
  BY <1>1 DEF TakeOffset, Inv, IsCounts
<1>13. LogOK(E, mk)
  <2>1. LogOK(D, mark)
    BY <1>1, <1>2 DEF Inv
  <2>2. Onward(D, F, mark, E, G, mk)
    BY <1>4, <1>7, <1>8, <2>1, LogGrows
  <2> QED BY <2>2 DEF Onward
<1> QED BY <1>2, <1>4, <1>11, <1>12, <1>13 DEF Inv

\* An empty index is not complete, and has no token.
LEMMA DefaultIndex ==
  ASSUME NEW B, NEW F, NEW mark, NEW mk, mk.high \in Nat, mk.time_index = Default
  PROVE  /\ IndexOK(B, mk)
         /\ \A x, C : LookupOK(x, C, F, mark) => TokenOK(x, B, mk)
<1>1. /\ IsIndex(Default, mk.high) /\ ~ is_complete(Default) /\ Default.backfill = None
  BY DefaultOK
<1> QED BY <1>1 DEF IndexOK, TokenOK, LookupOK

LEMMA OldTakeOffsetStep ==
  ASSUME Inv, NEW c \in Slots, NEW batch \in Batches, OldTakeOffset(c, batch)
  PROVE  Inv'
<1>1. PICK B, F, mark, looks, n :
        /\ B = Known /\ F = InFlight /\ mark = watermark /\ looks = lookups
        /\ n = counts.lookups
  OBVIOUS
<1>2. PICK C, G, mk, D, E : /\ C = Known' /\ G = InFlight' /\ mk = watermark'
                           /\ D = InLogOrFlight /\ E = InLogOrFlight'
  OBVIOUS
<1>3. StateOK(B, F, mark, looks, n)
  BY <1>1 DEF Inv
<1>4. /\ \A b \in C : b \in B \/ b = [batch |-> batch, offset |-> mark.high]
      /\ \A b \in E : b \in D \/ b = [batch |-> batch, offset |-> mark.high]
      /\ \A o \in G : o \in F \/ o = mark.high
      /\ RequestsOK(requests', records') /\ IsBatch(batch)
  <2>1. requests[c] = None /\ records' = records /\ overlooked' = overlooked
        /\ requests' = [requests EXCEPT ![c] = [batch |-> batch, offset |-> watermark.high]]
    BY DEF OldTakeOffset
  <2> QED BY <1>1, <1>2, <2>1, TakesOffset
<1>5. mk = [low |-> mark.low, high |-> mark.high + Len(batch), time_index |-> Default]
  <2>1. mk = [mark EXCEPT !.high = @ + Len(batch), !.time_index = Default]
    BY <1>1, <1>2 DEF OldTakeOffset
  <2>2. mark \in [low : Nat, high : Nat, time_index : {mark.time_index}]
    BY <1>3 DEF StateOK, LogOK
  <2> QED BY <2>1, <2>2
<1>6. mk.low = mark.low /\ mk.high = mark.high + Len(batch) /\ mk.time_index = Default
  BY <1>5
<1>7. Onward(B, F, mark, C, G, mk)
  BY <1>3, <1>4, <1>5, <1>6, LogGrows DEF StateOK
<1>8. mk.high \in Nat /\ mk.time_index.backfill = None
  BY <1>6, <1>7, DefaultOK DEF Onward, LogOK
<1>9. IndexOK(C, mk) /\ \A x : LookupOK(x, B, F, mark) => TokenOK(x, C, mk)
  BY <1>6, <1>8, DefaultIndex
<1>10. StateOK(C, G, mk, looks, n)
  BY <1>3, <1>7, <1>8, <1>9, LogStep
<1>11. lookups' = looks /\ counts'.lookups = n /\ IsCounts(counts')
  BY <1>1 DEF OldTakeOffset, Inv, IsCounts
<1>12. LogOK(E, mk)
  <2>1. LogOK(D, mark)
    BY <1>1, <1>2 DEF Inv
  <2>2. Onward(D, F, mark, E, G, mk)
    BY <1>4, <1>5, <1>6, <2>1, LogGrows
  <2> QED BY <2>2 DEF Onward
<1> QED BY <1>2, <1>4, <1>10, <1>11, <1>12 DEF Inv

\* A step that takes batches or requests away, or moves the start of the log.
LEMMA ShrinkStep ==
  ASSUME Inv, InLogOrFlight' \subseteq InLogOrFlight, InFlight' \subseteq InFlight,
         overlooked' = overlooked,
         NEW low \in Nat, low >= watermark.low, watermark' = [watermark EXCEPT !.low = low],
         RequestsOK(requests', records'), lookups' = lookups,
         counts'.lookups = counts.lookups, IsCounts(counts')
  PROVE  Inv'
<1>1. PICK B, F, mark, looks, n :
        /\ B = Known /\ F = InFlight /\ mark = watermark /\ looks = lookups
        /\ n = counts.lookups
  OBVIOUS
<1>2. PICK C, G, mk : C = Known' /\ G = InFlight' /\ mk = watermark'
  OBVIOUS
<1>3. StateOK(B, F, mark, looks, n)
  BY <1>1 DEF Inv
<1>4. mk = [low |-> low, high |-> mark.high, time_index |-> mark.time_index]
  <2>1. mk = [mark EXCEPT !.low = low]
    BY <1>1, <1>2
  <2>2. mark \in [low : Nat, high : Nat, time_index : {mark.time_index}]
    BY <1>3 DEF StateOK, LogOK
  <2> QED BY <2>1, <2>2
<1>5. mk.low = low /\ mk.high = mark.high /\ mk.time_index = mark.time_index
  BY <1>4
<1>6. C \subseteq B /\ G \subseteq F /\ low >= mark.low
  BY <1>1, <1>2 DEF Known
<1>7. Onward(B, F, mark, C, G, mk)
  BY <1>3, <1>4, <1>5, <1>6, LogShrinks DEF StateOK
<1>8. IndexOK(C, mk) /\ \A x : TokenOK(x, B, mark) => TokenOK(x, C, mk)
  BY <1>3, <1>5, <1>6, <1>7, CoversShrink DEF StateOK
<1>9. StateOK(C, G, mk, looks, n)
  BY <1>3, <1>5, <1>7, <1>8, LogStep
<1>10. LogOK(InLogOrFlight', mk)
  <2>1. PICK D, E : D = InLogOrFlight /\ E = InLogOrFlight' /\ E \subseteq D /\ LogOK(D, mark)
    BY <1>1 DEF Inv
  <2>2. Onward(D, F, mark, E, G, mk)
    BY <1>4, <1>5, <1>6, <2>1, LogShrinks
  <2> QED BY <2>1, <2>2 DEF Onward
<1> QED BY <1>1, <1>2, <1>9, <1>10 DEF Inv

LEMMA SameMark ==
  ASSUME Inv
  PROVE  watermark.low \in Nat /\ watermark.high \in Nat
         /\ watermark = [watermark EXCEPT !.low = watermark.low]
BY DEF Inv, LogOK

LEMMA PutBatchStep ==
  ASSUME Inv, NEW c \in Slots, PutBatch(c)
  PROVE  Inv'
<1>1. PICK r : r = requests[c]
  OBVIOUS
<1>2. /\ r # None /\ records' = Put(records, r.offset, r.batch)
      /\ requests' = [requests EXCEPT ![c] = None]
      /\ watermark' = watermark /\ lookups' = lookups /\ counts' = counts
      /\ overlooked' = overlooked
  BY <1>1 DEF PutBatch
<1>3. /\ requests = [d \in Slots |-> requests[d]] /\ records = [o \in DOMAIN records |-> records[o]]
      /\ \A d \in Slots : requests[d] # None =>
            /\ requests[d].offset \notin DOMAIN records
            /\ \A e \in Slots \ {d} : requests[e] # None => requests[e].offset # requests[d].offset
  BY DEF Inv, RequestsOK
<1>4. /\ requests' = [d \in Slots |-> requests'[d]]
      /\ \A d \in Slots : requests'[d] = IF d = c THEN None ELSE requests[d]
  BY <1>2, <1>3
<1>5. /\ DOMAIN records' = DOMAIN records \cup {r.offset}
      /\ records' = [o \in DOMAIN records' |-> records'[o]]
      /\ \A o \in DOMAIN records' : records'[o] = IF o = r.offset THEN r.batch ELSE records[o]
  BY <1>2 DEF Put
<1>6. r \in InLogOrFlight
  BY <1>1, <1>2 DEF InLogOrFlight
<1>7. r = [batch |-> r.batch, offset |-> r.offset]
  BY <1>6 DEF Inv, LogOK
<1>8. InLogOrFlight' \subseteq InLogOrFlight
  <2>1. ASSUME NEW b \in InLogOrFlight' PROVE b \in InLogOrFlight
    <3>1. CASE \E o \in DOMAIN records' : b = [batch |-> records'[o], offset |-> o]
      <4>1. PICK o \in DOMAIN records' : b = [batch |-> records'[o], offset |-> o]
        BY <3>1
      <4>2. CASE o = r.offset
        BY <1>5, <1>6, <1>7, <4>1, <4>2
      <4>3. CASE o # r.offset
        BY <1>5, <4>1, <4>3 DEF InLogOrFlight
      <4> QED BY <4>2, <4>3
    <3>2. CASE \E d \in Slots : requests'[d] # None /\ b = requests'[d]
      BY <1>4, <3>2 DEF InLogOrFlight
    <3> QED BY <3>1, <3>2 DEF InLogOrFlight
  <2> QED BY <2>1
<1>9. InFlight' \subseteq InFlight
  BY <1>4 DEF InFlight
<1>10. RequestsOK(requests', records')
  BY <1>1, <1>2, <1>3, <1>4, <1>5 DEF RequestsOK
<1>11. IsCounts(counts') /\ counts'.lookups = counts.lookups
  BY <1>2 DEF Inv
<1>12. watermark.low \in Nat /\ watermark.low >= watermark.low
       /\ watermark' = [watermark EXCEPT !.low = watermark.low]
  BY <1>2, SameMark
<1> QED BY <1>2, <1>8, <1>9, <1>10, <1>11, <1>12, ShrinkStep

LEMMA FailProduceStep ==
  ASSUME Inv, NEW c \in Slots, FailProduce(c)
  PROVE  Inv'
<1>1. /\ requests' = [requests EXCEPT ![c] = None]
      /\ watermark' = watermark /\ records' = records /\ lookups' = lookups
      /\ counts' = [counts EXCEPT !.events = @ + 1] /\ overlooked' = overlooked
  BY DEF FailProduce, Event
<1>2. /\ requests = [d \in Slots |-> requests[d]] /\ records = [o \in DOMAIN records |-> records[o]]
      /\ \A d \in Slots : requests[d] # None =>
            /\ requests[d].offset \notin DOMAIN records
            /\ \A e \in Slots \ {d} : requests[e] # None => requests[e].offset # requests[d].offset
  BY DEF Inv, RequestsOK
<1>3. /\ requests' = [d \in Slots |-> requests'[d]]
      /\ \A d \in Slots : requests'[d] = IF d = c THEN None ELSE requests[d]
  BY <1>1, <1>2
<1>4. InLogOrFlight' \subseteq InLogOrFlight
  BY <1>1, <1>3 DEF InLogOrFlight
<1>5. InFlight' \subseteq InFlight
  BY <1>3 DEF InFlight
<1>6. RequestsOK(requests', records')
  BY <1>1, <1>2, <1>3 DEF RequestsOK
<1>7. IsCounts(counts') /\ counts'.lookups = counts.lookups
  BY <1>1 DEF Inv, IsCounts
<1>8. watermark.low \in Nat /\ watermark.low >= watermark.low
      /\ watermark' = [watermark EXCEPT !.low = watermark.low]
  BY <1>1, SameMark
<1> QED BY <1>1, <1>4, <1>5, <1>6, <1>7, <1>8, ShrinkStep

LEMMA DeleteRecordsStep ==
  ASSUME Inv, NEW cutoff \in Cutoffs, DeleteRecords(cutoff)
  PROVE  Inv'
<1>1. /\ cutoff > watermark.low /\ watermark' = [watermark EXCEPT !.low = cutoff]
      /\ records' = records /\ requests' = requests /\ lookups' = lookups
      /\ counts' = [counts EXCEPT !.events = @ + 1] /\ overlooked' = overlooked
  BY DEF DeleteRecords, Event
<1>2. cutoff \in Nat /\ cutoff >= watermark.low
  BY <1>1, SameMark, ListOffsetsAssumption
<1>3. InLogOrFlight' \subseteq InLogOrFlight /\ InFlight' \subseteq InFlight
  BY <1>1 DEF InLogOrFlight, InFlight
<1>4. RequestsOK(requests', records')
  BY <1>1 DEF Inv
<1>5. IsCounts(counts') /\ counts'.lookups = counts.lookups
  BY <1>1 DEF Inv, IsCounts
<1> QED BY <1>1, <1>2, <1>3, <1>4, <1>5, ShrinkStep

LEMMA DeleteBatchStep ==
  ASSUME Inv, NEW o \in DOMAIN records, DeleteBatch(o)
  PROVE  Inv'
<1>1. /\ records' = Drop(records, o)
      /\ watermark' = watermark /\ requests' = requests /\ lookups' = lookups
      /\ counts' = counts /\ overlooked' = overlooked
  BY DEF DeleteBatch
<1>2. /\ DOMAIN records' \subseteq DOMAIN records
      /\ records' = [p \in DOMAIN records' |-> records'[p]]
      /\ \A p \in DOMAIN records' : records'[p] = records[p]
  BY <1>1 DEF Drop, Restrict
<1>3. InLogOrFlight' \subseteq InLogOrFlight
  BY <1>1, <1>2 DEF InLogOrFlight
<1>4. InFlight' \subseteq InFlight
  BY <1>1 DEF InFlight
<1>5. RequestsOK(requests', records')
  BY <1>1, <1>2 DEF Inv, RequestsOK
<1>6. IsCounts(counts') /\ counts'.lookups = counts.lookups
  BY <1>1 DEF Inv
<1>7. watermark.low \in Nat /\ watermark.low >= watermark.low
      /\ watermark' = [watermark EXCEPT !.low = watermark.low]
  BY <1>1, SameMark
<1> QED BY <1>1, <1>3, <1>4, <1>5, <1>6, <1>7, ShrinkStep

(***************************************************************************)
(* The steps of a lookup.                                                  *)
(***************************************************************************)
LEMMA LookupStep ==
  ASSUME Inv, NEW l \in Lookups, NEW v, records' = records, requests' = requests,
         overlooked \subseteq overlooked',
         lookups' = [lookups EXCEPT ![l] = v],
         NEW index, watermark' = [watermark EXCEPT !.time_index = index],
         IndexOK(Known', watermark'),
         v # None => /\ LookupOK(v, Known', InFlight, watermark')
                     /\ TokenOK(v, Known', watermark'),
         \A k \in Lookups \ {l} :
            lookups[k] # None => TokenOK(lookups[k], Known', watermark'),
         TokensOK(watermark', lookups', counts'.lookups),
         counts'.lookups \in Nat, IsCounts(counts')
  PROVE  Inv'
<1>1. PICK B, F, mark, looks, n :
        /\ B = Known /\ F = InFlight /\ mark = watermark /\ looks = lookups
        /\ n = counts.lookups
  OBVIOUS
<1>2. PICK C, mk, looks2, n2 :
        C = Known' /\ mk = watermark' /\ looks2 = lookups' /\ n2 = counts'.lookups
  OBVIOUS
<1>3. InLogOrFlight' = InLogOrFlight /\ C \subseteq B /\ InFlight' = F
  BY <1>1, <1>2 DEF InLogOrFlight, Known, InFlight
<1>4. StateOK(B, F, mark, looks, n)
  BY <1>1 DEF Inv
<1>5. mk = [low |-> mark.low, high |-> mark.high, time_index |-> index]
  <2>1. mk = [mark EXCEPT !.time_index = index]
    BY <1>1, <1>2
  <2>2. mark \in [low : Nat, high : Nat, time_index : {mark.time_index}]
    BY <1>4 DEF StateOK, LogOK
  <2> QED BY <2>1, <2>2
<1>6. mk.low = mark.low /\ mk.high = mark.high /\ mk.time_index = index /\ mark.low \in Nat
  BY <1>4, <1>5 DEF StateOK, LogOK
<1>7. Onward(B, F, mark, C, F, mk)
  <2>1. mk.low \in Nat /\ mk.low >= mark.low
        /\ mk = [low |-> mk.low, high |-> mark.high, time_index |-> mk.time_index]
    BY <1>5, <1>6
  <2>2. LogOK(B, mark)
    BY <1>4 DEF StateOK
  <2> QED BY <1>3, <2>1, <2>2, LogShrinks
<1>8. looks2 = [k \in Lookups |-> IF k = l THEN v ELSE looks[k]]
  <2>1. looks = [k \in Lookups |-> looks[k]] /\ looks2 = [looks EXCEPT ![l] = v]
    BY <1>1, <1>2, <1>4 DEF StateOK
  <2> QED BY <2>1
<1>9. looks2 = [k \in Lookups |-> looks2[k]]
  BY <1>8
<1>10. ASSUME NEW k \in Lookups, looks2[k] # None
       PROVE  LookupOK(looks2[k], C, F, mk) /\ TokenOK(looks2[k], C, mk)
  <2>1. CASE k = l
    BY <1>1, <1>2, <1>8, <1>10, <2>1
  <2>2. CASE k # l
    <3>1. looks2[k] = looks[k]
      BY <1>8, <2>2
    <3>2. LookupOK(looks[k], B, F, mark)
      BY <1>4, <1>10, <3>1 DEF StateOK
    <3>3. LookupOK(looks[k], C, F, mk)
      BY <1>7, <3>2, LookupStays
    <3> QED BY <1>1, <1>2, <1>10, <2>2, <3>1, <3>3
  <2> QED BY <2>1, <2>2
<1>11. StateOK(C, F, mk, looks2, n2)
  BY <1>1, <1>2, <1>7, <1>9, <1>10 DEF StateOK, Onward
<1>12. RequestsOK(requests', records')
  BY DEF Inv
<1>13. LogOK(InLogOrFlight', mk)
  <2>1. PICK D : D = InLogOrFlight /\ LogOK(D, mark)
    BY <1>1 DEF Inv
  <2>2. mk.low \in Nat /\ mk.low >= mark.low
        /\ mk = [low |-> mk.low, high |-> mark.high, time_index |-> mk.time_index]
    BY <1>5, <1>6
  <2>3. Onward(D, F, mark, D, F, mk)
    BY <2>1, <2>2, LogShrinks
  <2> QED BY <1>3, <2>1, <2>3 DEF Onward
<1> QED BY <1>2, <1>3, <1>11, <1>12, <1>13 DEF Inv

\* A step that leaves the log, the requests and what is overlooked alone.
LEMMA SameKnown ==
  ASSUME UNCHANGED <<records, requests, overlooked>>
  PROVE  Known' = Known /\ overlooked \subseteq overlooked'
BY DEF Known, InLogOrFlight

\* A step of a lookup that leaves the document alone.
LEMMA QuietLookupStep ==
  ASSUME Inv, NEW l \in Lookups, NEW v, UNCHANGED <<watermark, records, requests>>,
         lookups' = [lookups EXCEPT ![l] = v], overlooked \subseteq overlooked',
         v # None => /\ LookupOK(v, Known', InFlight, watermark)
                     /\ TokenOK(v, Known', watermark)
                     /\ Backfills(v) => v.token \in Tokens(watermark, lookups)
                     /\ v.stage = "begin" => counts'.lookups > counts.lookups,
         counts'.lookups \in Nat, counts'.lookups >= counts.lookups, IsCounts(counts')
  PROVE  Inv'
<1>1. PICK index : index = watermark.time_index
  OBVIOUS
<1>2. watermark' = [watermark EXCEPT !.time_index = index]
  BY <1>1 DEF Inv, StateOK, LogOK
<1>3. watermark' = watermark /\ records' = records /\ requests' = requests
  OBVIOUS
<1>4. PICK mark, looks, n :
        mark = watermark /\ looks = lookups /\ n = counts.lookups /\ n \in Nat
  BY DEF Inv, StateOK
<1>5. PICK looks2 : looks2 = lookups'
  OBVIOUS
<1>6. looks2 = [k \in Lookups |-> IF k = l THEN v ELSE looks[k]]
  <2>1. looks = [k \in Lookups |-> looks[k]] /\ looks2 = [looks EXCEPT ![l] = v]
    BY <1>4, <1>5 DEF Inv, StateOK
  <2> QED BY <2>1
<1>7. Tokens(mark, looks2) \subseteq Tokens(mark, looks) \cup {None}
  BY <1>4, <1>6 DEF Tokens
<1>8. \A k \in Lookups : Begins(looks2, k) => Begins(looks, k) \/ counts'.lookups > n
  BY <1>4, <1>6 DEF Begins
<1>9. TokensOK(mark, looks, n)
  BY <1>4 DEF Inv, StateOK
<1>10. TokensOK(mark, looks2, counts'.lookups)
  <2>1. PICK n2 \in Nat : n2 = counts'.lookups
    OBVIOUS
  <2>2. n \in Nat /\ n2 >= n
    BY <1>4, <2>1
  <2>3. \A k \in Lookups : Begins(looks2, k) => Begins(looks, k) \/ n2 > n
    BY <1>8, <2>1
  <2>4. TokensOK(mark, looks2, n2)
    BY <1>7, <1>9, <2>2, <2>3, TokensStay
  <2> QED BY <2>1, <2>4
<1>11. TokensOK(watermark', lookups', counts'.lookups)
  BY <1>3, <1>4, <1>5, <1>10
<1>12. /\ IndexOK(Known', watermark')
       /\ v # None => /\ LookupOK(v, Known', InFlight, watermark')
                      /\ TokenOK(v, Known', watermark')
       /\ \A k \in Lookups \ {l} :
            lookups[k] # None => TokenOK(lookups[k], Known', watermark')
  <2>1. PICK B, C : B = Known /\ C = Known' /\ C \subseteq B
    <3>1. InLogOrFlight' = InLogOrFlight
      BY <1>3 DEF InLogOrFlight
    <3>2. Known' \subseteq Known
      BY <3>1 DEF Known
    <3> QED BY <3>2
  <2>2. /\ IndexOK(B, mark)
        /\ \A k \in Lookups : looks[k] # None => TokenOK(looks[k], B, mark)
    BY <1>4, <2>1 DEF Inv, StateOK
  <2>3. /\ IndexOK(C, mark)
        /\ \A k \in Lookups : looks[k] # None => TokenOK(looks[k], C, mark)
    BY <2>1, <2>2 DEF IndexOK, TokenOK
  <2> QED BY <1>3, <1>4, <2>1, <2>3
<1> QED BY <1>2, <1>3, <1>11, <1>12, LookupStep

LEMMA LookupAt ==
  ASSUME Inv, NEW l \in Lookups, NEW stage, At(l, stage)
  PROVE  /\ lookups[l] # None /\ lookups[l].stage = stage
         /\ LookupOK(lookups[l], Known, InFlight, watermark)
         /\ TokenOK(lookups[l], Known, watermark)
         /\ IsLookup(lookups[l])
         /\ Backfills(lookups[l]) => lookups[l].token \in Tokens(watermark, lookups)
<1>1. lookups[l] # None /\ lookups[l].stage = stage
  BY DEF At
<1>2. LookupOK(lookups[l], Known, InFlight, watermark)
      /\ TokenOK(lookups[l], Known, watermark)
  BY <1>1 DEF Inv, StateOK
<1> QED BY <1>1, <1>2 DEF LookupOK, Tokens

LEMMA SeenBelowHigh ==
  ASSUME Inv
  PROVE  /\ \A o \in DOMAIN records : o \in Nat /\ o < watermark.high /\ o \notin InFlight
                                      /\ IsBatch(records[o])
         /\ \A b \in InLogOrFlight : b.offset \in Nat /\ b.offset < watermark.high
         /\ \A b \in Known : b \in InLogOrFlight
<1>1. LogOK(InLogOrFlight, watermark) /\ watermark.high \in Nat
  BY DEF Inv, LogOK
<1>2. ASSUME NEW b \in InLogOrFlight
      PROVE  b.offset \in Nat /\ b.offset < watermark.high /\ IsBatch(b.batch)
  <2>1. b.offset \in Nat /\ IsBatch(b.batch) /\ b.offset + Len(b.batch) <= watermark.high
    BY <1>1 DEF LogOK
  <2>2. Len(b.batch) \in Nat /\ Len(b.batch) > 0
    BY <2>1, TimestampOK
  <2> QED BY <1>1, <2>1, <2>2
<1>3. ASSUME NEW o \in DOMAIN records
      PROVE  o \in Nat /\ o < watermark.high /\ o \notin InFlight /\ IsBatch(records[o])
  <2>1. PICK b : b = [batch |-> records[o], offset |-> o]
    OBVIOUS
  <2>2. b \in InLogOrFlight /\ b.offset = o /\ b.batch = records[o]
    BY <2>1 DEF InLogOrFlight
  <2>3. o \notin InFlight
    BY DEF Inv, RequestsOK, InFlight
  <2> QED BY <1>2, <2>2, <2>3
<1> QED BY <1>2, <1>3 DEF Known

LEMMA StartLookupStep ==
  ASSUME Inv, NEW l \in Lookups, StartLookup(l)
  PROVE  Inv'
<1>1. PICK B, F, mark : B = Known /\ F = InFlight /\ mark = watermark
  OBVIOUS
<1>2. PICK found : found = (is_complete(mark.time_index) \/ mark.high = 0)
  OBVIOUS
<1>3. PICK stage, index : /\ stage = IF found THEN "scan" ELSE "begin"
                          /\ index = IF found THEN mark.time_index ELSE None
  OBVIOUS
<1>4. PICK v : v = [stage |-> stage, index |-> index, low |-> mark.low, high |-> 0,
                    token |-> None, listed |-> EmptyMap, seen |-> DOMAIN records]
  OBVIOUS
<1>5. /\ lookups' = [lookups EXCEPT ![l] = v]
      /\ counts' = [counts EXCEPT !.lookups = @ + 1]
      /\ UNCHANGED <<watermark, records, requests, overlooked>>
  BY <1>1, <1>2, <1>3, <1>4 DEF StartLookup, Go
<1>6. /\ v.stage = stage /\ v.index = index /\ v.low = mark.low /\ v.high = 0
      /\ v.seen = DOMAIN records /\ IsLookup(v)
  BY <1>4 DEF IsLookup
<1>7. found \in BOOLEAN
  BY <1>2
<1>8. ~ Backfills(v) /\ stage # "read" /\ stage # "commit" /\ stage # "low"
      /\ (stage = "scan" => found)
  BY <1>3, <1>6, <1>7 DEF Backfills
<1>9. LogOK(B, mark) /\ IndexOK(B, mark) /\ mark.low \in Nat /\ mark.high \in Nat
  BY <1>1 DEF Inv, StateOK, LogOK
<1>10. \A o \in DOMAIN records : o \in Nat /\ o < mark.high /\ o \notin F
  BY <1>1, SeenBelowHigh
<1>11. ASSUME found PROVE IsIndex(v.index, mark.high) /\ CoversSeen(v, B, mark)
  <2>1. v.index = mark.time_index
    BY <1>3, <1>6, <1>11
  <2>2. ASSUME NEW b \in B, IsUncut(b, mark) PROVE Covers(mark.time_index, b)
    <3>1. mark.high # 0
      BY <1>1, SeenBelowHigh
    <3> QED BY <1>2, <1>9, <1>11, <2>2, <3>1 DEF IndexOK
  <2> QED BY <1>9, <2>1, <2>2 DEF IndexOK, CoversSeen
<1>12. LookupOK(v, B, F, mark) /\ TokenOK(v, B, mark)
  <2>1. \A b \in B : ~ (b.offset < 0)
    BY <1>1, SeenBelowHigh
  <2> QED BY <1>6, <1>8, <1>9, <1>10, <1>11, <2>1 DEF LookupOK, TokenOK
<1>13. /\ IsCounts(counts') /\ counts'.lookups \in Nat
       /\ counts'.lookups > counts.lookups /\ counts'.lookups >= counts.lookups
  <2>1. IsCounts(counts) /\ counts.lookups \in Nat
    BY DEF Inv, StateOK
  <2>2. counts'.lookups = counts.lookups + 1 /\ IsCounts(counts')
    BY <1>5, <2>1 DEF IsCounts
  <2> QED BY <2>1, <2>2
<1>14. Known' = B /\ overlooked \subseteq overlooked'
  BY <1>1, <1>5, SameKnown
<1>15. v # None => /\ LookupOK(v, Known', InFlight, watermark)
                   /\ TokenOK(v, Known', watermark)
                   /\ Backfills(v) => v.token \in Tokens(watermark, lookups)
                   /\ v.stage = "begin" => counts'.lookups > counts.lookups
  BY <1>1, <1>8, <1>12, <1>13, <1>14
<1> QED BY <1>5, <1>13, <1>14, <1>15, QuietLookupStep

LEMMA EndLookupStep ==
  ASSUME Inv, NEW l \in Lookups, EndLookup(l)
  PROVE  Inv'
<1>1. PICK v : v = None
  OBVIOUS
<1>2. /\ lookups' = [lookups EXCEPT ![l] = v]
      /\ UNCHANGED <<watermark, records, requests, overlooked>>
  BY <1>1 DEF EndLookup, Go
<1>3. IsCounts(counts) /\ counts.lookups \in Nat
  BY DEF Inv, StateOK
<1>4. counts' = counts \/ counts' = [counts EXCEPT !.events = @ + 1]
  BY DEF EndLookup, Event
<1>5. IsCounts(counts') /\ counts'.lookups = counts.lookups
  BY <1>3, <1>4 DEF IsCounts
<1>6. counts'.lookups \in Nat /\ counts'.lookups >= counts.lookups
  BY <1>3, <1>5
<1>7. overlooked \subseteq overlooked'
  BY <1>2
<1> QED BY <1>1, <1>2, <1>5, <1>6, <1>7, QuietLookupStep

LEMMA ReadLowStep ==
  ASSUME Inv, NEW l \in Lookups, ReadLow(l)
  PROVE  Inv'
<1>1. PICK x, mark : x = lookups[l] /\ mark = watermark
  OBVIOUS
<1>2. At(l, "low")
  BY DEF ReadLow
<1>3. /\ x.stage = "low" /\ IsLookup(x)
      /\ LookupOK(x, Known, InFlight, mark)
  BY <1>1, <1>2, LookupAt
<1>4. PICK v : v = [x EXCEPT !.stage = "scan", !.low = mark.low]
  OBVIOUS
<1>5. /\ lookups' = [lookups EXCEPT ![l] = v]
      /\ UNCHANGED <<watermark, records, requests, overlooked>>
      /\ counts' = counts
  BY <1>1, <1>4 DEF ReadLow, Go
<1>6. /\ v.stage = "scan" /\ v.index = x.index /\ v.low = mark.low /\ v.high = x.high
      /\ v.seen = x.seen /\ IsLookup(v)
  BY <1>3, <1>4 DEF IsLookup
<1>7. mark.low \in Nat /\ mark.low <= mark.low
  BY <1>1, SameMark
<1>8. ~ Backfills(v) /\ v.stage # "begin"
  BY <1>6 DEF Backfills
<1>9. CoversSeen(v, Known, mark)
  BY <1>3, <1>6 DEF LookupOK, CoversSeen
<1>10. LookupOK(v, Known, InFlight, mark) /\ TokenOK(v, Known, mark)
  BY <1>3, <1>6, <1>7, <1>8, <1>9 DEF LookupOK, TokenOK, IsLookup
<1>11. IsCounts(counts') /\ counts'.lookups \in Nat /\ counts'.lookups >= counts.lookups
  BY <1>5 DEF Inv, StateOK
<1>12. Known' = Known /\ overlooked \subseteq overlooked'
  BY <1>5, SameKnown
<1> QED BY <1>1, <1>5, <1>8, <1>10, <1>11, <1>12, QuietLookupStep

\* A batch is one of the log, or is in flight.
LEMMA LogOrFlight ==
  ASSUME Inv, NEW b \in InLogOrFlight
  PROVE  \/ b.offset \in DOMAIN records
                /\ b = [batch |-> records[b.offset], offset |-> b.offset]
         \/ \E c \in Slots : requests[c] # None /\ b = requests[c]
<1>1. CASE \E o \in DOMAIN records : b = [batch |-> records[o], offset |-> o]
  BY <1>1
<1>2. CASE \E c \in Slots : requests[c] # None /\ b = requests[c]
  BY <1>2
<1> QED BY <1>1, <1>2 DEF InLogOrFlight

LEMMA ListBatchesStep ==
  ASSUME Inv, NEW l \in Lookups, ListBatches(l)
  PROVE  Inv'
<1>1. PICK x, B, F, mark : x = lookups[l] /\ B = Known /\ F = InFlight /\ mark = watermark
  OBVIOUS
<1>2. At(l, "list")
  BY DEF ListBatches
<1>3. /\ x.stage = "list" /\ IsLookup(x) /\ LookupOK(x, B, F, mark) /\ TokenOK(x, B, mark)
      /\ Backfills(x) /\ x.token \in Tokens(watermark, lookups)
  BY <1>1, <1>2, LookupAt DEF Backfills
<1>4. PICK listed : listed = [o \in {o \in DOMAIN records : o < x.high} |->
                                \E c \in Slots : requests[c] # None /\ requests[c].offset < o]
  OBVIOUS
<1>5. PICK v : v = [x EXCEPT !.stage = "read", !.listed = listed]
  OBVIOUS
<1>6. /\ lookups' = [lookups EXCEPT ![l] = v]
      /\ UNCHANGED <<watermark, records, requests, overlooked>>
      /\ counts' = counts
  BY <1>1, <1>4, <1>5 DEF ListBatches, Go
<1>7. /\ v.stage = "read" /\ v.index = x.index /\ v.low = x.low /\ v.high = x.high
      /\ v.token = x.token /\ v.listed = listed /\ v.seen = x.seen /\ IsLookup(v)
  BY <1>3, <1>5 DEF IsLookup
<1>8. Backfills(v) /\ v.stage # "begin" /\ v.stage # "commit" /\ v.stage \notin {"low", "scan"}
  BY <1>7 DEF Backfills
<1>9. /\ listed = [o \in DOMAIN listed |-> listed[o]]
      /\ DOMAIN listed = {o \in DOMAIN records : o < x.high}
      /\ \A o \in DOMAIN listed :
            (\E c \in Slots : requests[c] # None /\ requests[c].offset < o) => listed[o]
  BY <1>4
<1>10. x.high \in Nat /\ \A o \in x.seen : o < x.high /\ o \notin F
  BY <1>3 DEF LookupOK
<1>11. \A o \in DOMAIN records : o \in Nat /\ o \notin F
  BY <1>1, SeenBelowHigh
<1>12. DOMAIN listed \subseteq 0 .. x.high - 1 /\ F \cap DOMAIN listed = {}
  BY <1>9, <1>10, <1>11
<1>13. ASSUME NEW b \in B, b.offset \in x.seen PROVE b.offset \in DOMAIN listed
  <2>1. b.offset < x.high /\ b.offset \notin F
    BY <1>10, <1>13
  <2>2. ~ \E c \in Slots : requests[c] # None /\ b = requests[c]
    BY <1>1, <2>1 DEF InFlight
  <2>3. b.offset \in DOMAIN records
    BY <1>1, <2>2, LogOrFlight, SeenBelowHigh
  <2> QED BY <1>9, <2>1, <2>3
<1>14. ASSUME NEW b \in B, b.offset < x.high, b.offset \notin DOMAIN listed,
              NEW o \in DOMAIN listed, b.offset < o
       PROVE  listed[o] /\ b.offset + Len(b.batch) <= o
  <2>1. b.offset \notin DOMAIN records
    BY <1>9, <1>14
  <2>2. \E c \in Slots : requests[c] # None /\ b = requests[c]
    BY <1>1, <2>1, LogOrFlight, SeenBelowHigh
  <2>3. PICK a : a = [batch |-> records[o], offset |-> o]
    OBVIOUS
  <2>4. a \in InLogOrFlight /\ b \in InLogOrFlight /\ a.offset = o
    BY <1>1, <1>9, <1>14, <2>3, SeenBelowHigh DEF InLogOrFlight
  <2>5. b.offset + Len(b.batch) <= o
    BY <1>14, <2>4 DEF Inv, LogOK
  <2> QED BY <1>9, <1>14, <2>2, <2>5
<1>15. LookupOK(v, B, F, mark)
  BY <1>3, <1>7, <1>8, <1>9, <1>12, <1>13, <1>14 DEF LookupOK
<1>16. TokenOK(v, B, mark)
  BY <1>3, <1>7 DEF TokenOK
<1>17. IsCounts(counts') /\ counts'.lookups \in Nat /\ counts'.lookups >= counts.lookups
  BY <1>6 DEF Inv, StateOK
<1>18. Known' = B /\ overlooked \subseteq overlooked'
  BY <1>1, <1>6, SameKnown
<1> QED BY <1>1, <1>3, <1>6, <1>7, <1>8, <1>15, <1>16, <1>17, <1>18, QuietLookupStep

\* The candidate of a backfill covers the batches that it has listed and could read.
LEMMA CandidateCoversListed ==
  ASSUME Inv, NEW l \in Lookups, At(l, "read"), NEW aged,
         NEW c, c = collect(records, DOMAIN lookups[l].listed, lookups[l].low,
                            lookups[l].high, aged)
  PROVE  /\ IsIndex(c, lookups[l].high)
         /\ \A b \in Known : b.offset \in DOMAIN lookups[l].listed => Covers(c, b)
<1>1. PICK x, B, F : x = lookups[l] /\ B = Known /\ F = InFlight
  OBVIOUS
<1>2. PICK L : L = DOMAIN x.listed
  OBVIOUS
<1>3. x.stage = "read" /\ LookupOK(x, B, F, watermark)
  BY <1>1, LookupAt
<1>4. x.low \in Nat /\ x.high \in Nat /\ L \in SUBSET (0 .. x.high - 1) /\ F \cap L = {}
  BY <1>2, <1>3 DEF LookupOK
<1>5. AreBatches(records)
  BY SeenBelowHigh DEF AreBatches
<1>6. PICK low, high : low = x.low /\ high = x.high
  OBVIOUS
<1>7. /\ IsIndex(c, high)
      /\ \A o \in L \cap DOMAIN records : Covers(c, [batch |-> records[o], offset |-> o])
  <2>1. c = collect(records, L, low, high, aged)
    BY <1>1, <1>2, <1>6
  <2>2. low \in Nat /\ high \in Nat /\ L \in SUBSET (0 .. high - 1)
    BY <1>4, <1>6
  <2> QED BY <1>5, <2>1, <2>2, CollectOK
<1>8. ASSUME NEW b \in B, b.offset \in L PROVE Covers(c, b)
  <2>1. b.offset \notin F
    BY <1>4, <1>8
  <2>2. ~ \E d \in Slots : requests[d] # None /\ b = requests[d]
    BY <1>1, <2>1 DEF InFlight
  <2>3. b.offset \in DOMAIN records /\ b = [batch |-> records[b.offset], offset |-> b.offset]
    BY <1>1, <2>2, LogOrFlight, SeenBelowHigh
  <2> QED BY <1>7, <1>8, <2>3
<1> QED BY <1>1, <1>2, <1>6, <1>7, <1>8

\* When it is complete, it missed each batch that was in flight below high.
LEMMA CandidateSeesGap ==
  ASSUME Inv, NEW l \in Lookups, At(l, "read"),
         NEW aged, aged \subseteq {o \in DOMAIN lookups[l].listed : ~ lookups[l].listed[o]},
         NEW c, c = collect(records, DOMAIN lookups[l].listed, lookups[l].low,
                            lookups[l].high, aged),
         is_complete(c),
         NEW b \in Known, IsUncut(b, watermark), b.offset < lookups[l].high,
         b.offset \notin Missed(DOMAIN lookups[l].listed, lookups[l].high)
  PROVE  b.offset \in DOMAIN lookups[l].listed
<1>1. PICK x, B, F, mark : x = lookups[l] /\ B = Known /\ F = InFlight /\ mark = watermark
  OBVIOUS
<1>2. PICK L : L = DOMAIN x.listed
  OBVIOUS
<1> SUFFICES ASSUME b.offset \notin L PROVE FALSE
  BY <1>1, <1>2
<1>3. x.stage = "read" /\ LookupOK(x, B, F, mark)
  BY <1>1, LookupAt
<1>4. /\ x.low \in Nat /\ x.high \in Nat /\ L \in SUBSET (0 .. x.high - 1)
      /\ x.low <= mark.low /\ mark.low \in Nat
      /\ b.offset + Len(b.batch) <= x.high
      /\ \A o \in L : b.offset < o => x.listed[o] /\ b.offset + Len(b.batch) <= o
  BY <1>1, <1>2, <1>3, SameMark DEF LookupOK
<1>5. LogOK(InLogOrFlight, mark) /\ b \in InLogOrFlight
  BY <1>1, SeenBelowHigh DEF Inv
<1>6. PICK u, len : u = b.offset /\ len = Len(b.batch)
  OBVIOUS
<1>7. u \in Nat /\ len \in Nat \ {0} /\ u \notin L
  <2>1. b.offset \in Nat /\ IsBatch(b.batch)
    BY <1>1, <1>5 DEF LogOK
  <2>2. Len(b.batch) \in Nat /\ Len(b.batch) > 0
    BY <2>1, TimestampOK
  <2> QED BY <1>6, <2>1, <2>2
<1>8. AreBatches(records)
  BY SeenBelowHigh DEF AreBatches
<1>9. PICK low, high : low = x.low /\ high = x.high
  OBVIOUS
<1>10. low \in Nat /\ high \in Nat /\ L \in SUBSET (0 .. high - 1)
  BY <1>1, <1>2, <1>4, <1>9
<1>11. low < u + len /\ u + len <= high
  BY <1>1, <1>4, <1>6, <1>7, <1>9 DEF IsUncut
<1>12. ASSUME NEW o \in L
       PROVE  /\ o < u /\ o \in DOMAIN records => o + Len(records[o]) <= u
              /\ u < o => u + len <= o /\ o \notin aged
  <2>1. ASSUME o < u, o \in DOMAIN records PROVE o + Len(records[o]) <= u
    <3>1. PICK a : a = [batch |-> records[o], offset |-> o]
      OBVIOUS
    <3>2. a \in InLogOrFlight /\ a.offset = o /\ a.batch = records[o]
      BY <2>1, <3>1 DEF InLogOrFlight
    <3>3. a.offset < b.offset => a.offset + Len(a.batch) <= b.offset
      BY <1>5, <3>2 DEF LogOK
    <3> QED BY <1>6, <2>1, <3>2, <3>3
  <2>2. u < o => u + len <= o /\ o \notin aged
    BY <1>1, <1>2, <1>4, <1>6
  <2> QED BY <2>1, <2>2
<1>13. /\ L # {}
       /\ \A o \in L : o < u /\ (\A p \in L : p < u => p <= o) => o \in DOMAIN records
  <2>1. b \in Uncut /\ b.offset < x.high /\ b.offset \notin Missed(L, x.high)
    BY <1>1, <1>2, <1>5 DEF Uncut, IsUncut
  <2> QED BY <1>6, <2>1 DEF Missed
<1>14. PICK all : all = collect_listed(records, L, low, aged)
  OBVIOUS
<1>15. all.settled => all.next \in Nat /\ all.next < u + len
  BY <1>7, <1>8, <1>10, <1>11, <1>12, <1>13, <1>14, GapIsSeen
<1>16. all.settled /\ ~ (L # {} /\ all.next # None /\ all.next < high)
  <2>1. c = collect(records, L, low, high, aged)
    BY <1>1, <1>2, <1>9
  <2> QED BY <1>8, <1>10, <1>14, <2>1, CollectOK
<1>17. all.next # None /\ all.next < high
  BY <1>7, <1>10, <1>11, <1>15, <1>16, ListOffsetsAssumption
<1> QED BY <1>13, <1>16, <1>17

LEMMA ReadBatchesStep ==
  ASSUME Inv, NEW l \in Lookups, ReadBatches(l)
  PROVE  Inv'
<1>1. PICK x, B, F, mark : x = lookups[l] /\ B = Known /\ F = InFlight /\ mark = watermark
  OBVIOUS
<1>2. At(l, "read")
  BY DEF ReadBatches
<1>3. /\ x.stage = "read" /\ IsLookup(x) /\ LookupOK(x, B, F, mark) /\ TokenOK(x, B, mark)
      /\ Backfills(x) /\ x.token \in Tokens(watermark, lookups)
  BY <1>1, <1>2, LookupAt DEF Backfills
<1>4. PICK L : L = DOMAIN x.listed
  OBVIOUS
<1>5. PICK aged \in SUBSET {o \in L : ~ x.listed[o]} :
        LET c == collect(records, L, x.low, x.high, aged)
        IN  /\ lookups' = [lookups EXCEPT ![l] =
                    [x EXCEPT !.stage = "commit", !.listed = EmptyMap, !.index = c]]
            /\ overlooked' = overlooked \cup
                    (IF is_complete(c) THEN Missed(L, x.high) ELSE {})
  BY <1>1, <1>4 DEF ReadBatches, Go
<1>6. PICK c : c = collect(records, L, x.low, x.high, aged)
  OBVIOUS
<1>7. PICK v : v = [x EXCEPT !.stage = "commit", !.listed = EmptyMap, !.index = c]
  OBVIOUS
<1>8. /\ lookups' = [lookups EXCEPT ![l] = v]
      /\ overlooked' = overlooked \cup (IF is_complete(c) THEN Missed(L, x.high) ELSE {})
  BY <1>5, <1>6, <1>7
<1>9. UNCHANGED <<watermark, records, requests>> /\ counts' = counts
  BY DEF ReadBatches
<1>10. /\ v.stage = "commit" /\ v.index = c /\ v.low = x.low /\ v.high = x.high
       /\ v.token = x.token /\ v.seen = x.seen /\ IsLookup(v)
  BY <1>3, <1>7 DEF IsLookup
<1>11. Backfills(v) /\ v.stage # "begin" /\ v.stage # "read" /\ v.stage \notin {"low", "scan"}
  BY <1>10 DEF Backfills
<1>12. IsIndex(c, x.high) /\ \A b \in B : b.offset \in L => Covers(c, b)
  BY <1>1, <1>2, <1>4, <1>6, CandidateCoversListed
<1>13. \A b \in B : b.offset \in x.seen => Covers(c, b)
  BY <1>3, <1>4, <1>12 DEF LookupOK
<1>14. PICK C : C = Known'
  OBVIOUS
<1>15. /\ overlooked \subseteq overlooked' /\ C \subseteq B
       /\ is_complete(c) => \A b \in C : b.offset \notin Missed(L, x.high)
  BY <1>1, <1>8, <1>9, <1>14 DEF Known, InLogOrFlight
<1>16. ASSUME is_complete(c), NEW b \in C, IsUncut(b, mark), b.offset < x.high
       PROVE  Covers(c, b)
  <2>1. b \in Known /\ b.offset \notin Missed(L, x.high)
    BY <1>1, <1>15, <1>16
  <2>2. b.offset \in L
    BY <1>1, <1>2, <1>4, <1>6, <1>16, <2>1, CandidateSeesGap
  <2> QED BY <1>12, <1>15, <2>2
<1>17. CoversSeen(v, C, mark)
  BY <1>10, <1>13, <1>15 DEF CoversSeen
<1>18. LookupOK(v, C, F, mark)
  BY <1>3, <1>10, <1>11, <1>12, <1>15, <1>16, <1>17 DEF LookupOK
<1>19. TokenOK(v, C, mark)
  BY <1>3, <1>10, <1>15 DEF TokenOK, Backfills
<1>20. IsCounts(counts') /\ counts'.lookups \in Nat /\ counts'.lookups >= counts.lookups
  BY <1>9 DEF Inv, StateOK
<1> QED BY <1>1, <1>3, <1>8, <1>9, <1>10, <1>11, <1>14, <1>15, <1>18, <1>19, <1>20, QuietLookupStep

LEMMA BeginBackfillStep ==
  ASSUME Inv, NEW l \in Lookups, BeginBackfill(l)
  PROVE  Inv'
<1>1. PICK x, B, F, mark, looks, n :
        /\ x = lookups[l] /\ B = Known /\ F = InFlight /\ mark = watermark
        /\ looks = lookups /\ n = counts.lookups
  OBVIOUS
<1>2. At(l, "begin")
  BY DEF BeginBackfill
<1>3. /\ lookups[l] # None /\ x.stage = "begin" /\ IsLookup(x) /\ LookupOK(x, B, F, mark)
  BY <1>1, <1>2, LookupAt
<1>4. PICK live, token : live = mark.time_index /\ token = <<l, n>>
  OBVIOUS
<1>5. PICK index : index = begin_backfill(live, token)
  OBVIOUS
<1>6. PICK v : v = [x EXCEPT !.stage = "list", !.token = index.backfill, !.low = mark.low,
                             !.high = mark.high]
  OBVIOUS
<1>7. /\ lookups' = [lookups EXCEPT ![l] = v]
      /\ watermark' = [watermark EXCEPT !.time_index = index]
      /\ records' = records /\ requests' = requests /\ counts' = counts
      /\ overlooked' = overlooked
  BY <1>1, <1>4, <1>5, <1>6 DEF BeginBackfill, Go
<1>8. StateOK(B, F, mark, looks, n)
  BY <1>1 DEF Inv
<1>9. /\ LogOK(B, mark) /\ IndexOK(B, mark) /\ mark.low \in Nat /\ mark.high \in Nat /\ n \in Nat
      /\ looks = [k \in Lookups |-> looks[k]] /\ TokensOK(mark, looks, n)
  BY <1>8 DEF StateOK, LogOK
<1>10. PICK mk, looks2 : mk = watermark' /\ looks2 = lookups'
  OBVIOUS
<1>11. mk = [low |-> mark.low, high |-> mark.high, time_index |-> index]
  <2>1. mk = [mark EXCEPT !.time_index = index]
    BY <1>1, <1>7, <1>10
  <2>2. mark \in [low : Nat, high : Nat, time_index : {mark.time_index}]
    BY <1>9 DEF LogOK
  <2> QED BY <2>1, <2>2
<1>12. mk.low = mark.low /\ mk.high = mark.high /\ mk.time_index = index
  BY <1>11
<1>13. /\ IsIndex(index, mark.high)
       /\ index.backfill = IF live.backfill # None THEN live.backfill ELSE token
       /\ is_complete(index) => is_complete(live)
       /\ is_complete(index) => \A b : Covers(live, b) => Covers(index, b)
       /\ live.backfill # None => index = live
  <2>1. PICK high : high = mark.high
    OBVIOUS
  <2>2. high \in Nat /\ IsIndex(live, high)
    BY <1>4, <1>9, <2>1 DEF IndexOK
  <2>3. /\ IsIndex(index, high)
        /\ index.backfill = IF live.backfill # None THEN live.backfill ELSE token
        /\ is_complete(index) => is_complete(live)
        /\ is_complete(index) => \A b : Covers(live, b) => Covers(index, b)
        /\ live.backfill # None => index = live
    BY <1>5, <2>2, BeginBackfillOK
  <2> QED BY <2>1, <2>3
<1>14. \A b : IsUncut(b, mk) <=> IsUncut(b, mark)
  BY <1>12 DEF IsUncut
<1>15. IndexOK(B, mk)
  BY <1>4, <1>9, <1>12, <1>13, <1>14 DEF IndexOK
<1>16. /\ v.stage = "list" /\ v.index = x.index /\ v.low = mark.low /\ v.high = mark.high
       /\ v.token = index.backfill /\ v.seen = x.seen /\ IsLookup(v)
  BY <1>3, <1>6 DEF IsLookup
<1>17. token # None
  <2>1. token \in Lookups \X Nat
    BY <1>4, <1>9
  <2> QED BY <2>1, ListOffsetsAssumption
<1>18. v.token # None
  BY <1>13, <1>16, <1>17
<1>19. \A b \in B : b.offset \in Nat /\ b.offset < mark.high
  BY <1>1, SeenBelowHigh
<1>20. v.stage # "read" /\ v.stage # "commit" /\ v.stage \notin {"low", "scan"}
  BY <1>16
<1>21. LookupOK(v, B, F, mk)
  <2>1. \A b \in B : b.offset + Len(b.batch) <= mark.high
    BY <1>9 DEF LogOK
  <2>2. mark.low <= mark.low /\ mark.high <= mark.high
    BY <1>9
  <2>3. \A o \in x.seen : o \in Nat /\ o < mark.high /\ o \notin F
    BY <1>3 DEF LookupOK
  <2> QED BY <1>9, <1>12, <1>16, <1>18, <1>20, <2>1, <2>2, <2>3 DEF LookupOK
<1>22. TokenOK(v, B, mk)
  <2>1. \A b \in B : ~ (b.offset >= v.high)
    BY <1>9, <1>16, <1>19
  <2> QED BY <2>1 DEF TokenOK
<1>23. ASSUME NEW k \in Lookups \ {l}, looks[k] # None PROVE TokenOK(looks[k], B, mk)
  <2>1. LookupOK(looks[k], B, F, mark) /\ TokenOK(looks[k], B, mark)
    BY <1>8, <1>23 DEF StateOK
  <2>2. CASE live.backfill # None
    <3>1. mk.time_index = mark.time_index
      BY <1>4, <1>12, <1>13, <2>2
    <3> QED BY <1>14, <2>1, <3>1 DEF TokenOK
  <2>3. CASE live.backfill = None
    <3>1. ASSUME Backfills(looks[k]), looks[k].token = token PROVE FALSE
      <4>1. token \in Tokens(mark, looks)
        BY <1>23, <3>1 DEF Tokens
      <4>2. Begins(looks, l)
        BY <1>1, <1>3 DEF Begins
      <4>3. n < n
        BY <1>4, <1>9, <4>1, <4>2 DEF TokensOK
      <4> QED BY <1>9, <4>3
    <3> QED BY <1>12, <1>13, <2>3, <3>1 DEF TokenOK
  <2> QED BY <2>2, <2>3
<1>24. looks2 = [k \in Lookups |-> IF k = l THEN v ELSE looks[k]]
  <2>1. looks2 = [looks EXCEPT ![l] = v]
    BY <1>1, <1>7, <1>10
  <2> QED BY <1>9, <2>1
<1>25. TokensOK(mk, looks2, n)
  <2> SUFFICES ASSUME NEW m \in Lookups, NEW k \in Nat, <<m, k>> \in Tokens(mk, looks2)
               PROVE  k <= n /\ (Begins(looks2, m) => k < n)
    BY DEF TokensOK
  <2>1. Begins(looks2, m) => m # l /\ Begins(looks, m)
    BY <1>16, <1>24 DEF Begins
  <2>2. <<m, k>> \in Tokens(mark, looks) \/ <<m, k>> = index.backfill
    BY <1>12, <1>16, <1>24 DEF Tokens
  <2>3. CASE <<m, k>> \in Tokens(mark, looks)
    BY <1>9, <2>1, <2>3 DEF TokensOK
  <2>4. CASE <<m, k>> = token
    BY <1>4, <1>9, <2>1, <2>4
  <2>5. CASE <<m, k>> = live.backfill
    <3>1. <<m, k>> \in Tokens(mark, looks)
      BY <1>4, <2>5 DEF Tokens
    <3> QED BY <2>3, <3>1
  <2> QED BY <1>13, <2>2, <2>3, <2>4, <2>5
<1>26. /\ IsCounts(counts') /\ counts'.lookups \in Nat
       /\ TokensOK(watermark', lookups', counts'.lookups)
  BY <1>1, <1>7, <1>9, <1>10, <1>25 DEF Inv
<1>27. Known' = B /\ overlooked \subseteq overlooked'
  BY <1>1, <1>7, SameKnown
<1>28. /\ IndexOK(Known', watermark')
       /\ LookupOK(v, Known', InFlight, watermark')
       /\ TokenOK(v, Known', watermark')
       /\ \A k \in Lookups \ {l} :
            lookups[k] # None => TokenOK(lookups[k], Known', watermark')
  BY <1>1, <1>10, <1>15, <1>21, <1>22, <1>23, <1>27
<1> QED BY <1>7, <1>26, <1>27, <1>28, LookupStep

\* The merged index covers what a complete one must, and what the lookup has seen.
LEMMA MergedOK ==
  ASSUME NEW B, NEW F, NEW mark, LogOK(B, mark), IndexOK(B, mark),
         NEW x, x.stage = "commit", LookupOK(x, B, F, mark), TokenOK(x, B, mark),
         NEW r, r = merge(x.index, mark.time_index, x.token),
         NEW mk, mk = [low |-> mark.low, high |-> mark.high, time_index |-> r]
  PROVE  /\ IndexOK(B, mk) /\ IsIndex(r, mk.high) /\ r.backfill = None
         /\ \A b \in B : IsUncut(b, mk) /\ b.offset \in x.seen => Covers(r, b)
<1>1. mk.low = mark.low /\ mk.high = mark.high /\ mk.time_index = r
  OBVIOUS
<1>2. PICK h, high, c, live, token :
        h = x.high /\ high = mark.high /\ c = x.index /\ live = mark.time_index /\ token = x.token
  OBVIOUS
<1>3. /\ h \in Nat /\ high \in Nat /\ h <= high
      /\ IsIndex(c, h) /\ IsIndex(live, high)
  BY <1>2 DEF LookupOK, LogOK, IndexOK
<1>4. r = merge(c, live, token)
  BY <1>2
<1>5. IsMerged(r, c, live, token, high)
  BY <1>3, <1>4, MergeOK
<1>6. \A b \in B : IsBatch(b.batch) /\ b.offset \in Nat
  BY DEF LogOK
<1>7. ASSUME NEW b \in B, Covers(c, b) \/ (b.offset >= h /\ Covers(live, b)) PROVE Covers(r, b)
  BY <1>3, <1>5, <1>6, <1>7, MergeCovers
<1>8. \A b : IsUncut(b, mk) <=> IsUncut(b, mark)
  BY <1>1 DEF IsUncut
<1>9. ASSUME is_complete(r), NEW b \in B, IsUncut(b, mark) PROVE Covers(r, b)
  <2>1. is_complete(c) /\ (is_complete(live) \/ live.backfill = token)
    BY <1>5, <1>9 DEF IsMerged
  <2>2. CASE b.offset < h
    BY <1>2, <1>7, <1>9, <2>1, <2>2 DEF LookupOK
  <2>3. CASE b.offset >= h
    <3>1. Covers(live, b)
      BY <1>2, <1>9, <2>1, <2>3 DEF IndexOK, TokenOK, Backfills
    <3> QED BY <1>7, <2>3, <3>1
  <2> QED BY <1>3, <1>6, <2>2, <2>3
<1>10. ASSUME NEW b \in B, IsUncut(b, mark), b.offset \in x.seen PROVE Covers(r, b)
  BY <1>2, <1>7, <1>10 DEF LookupOK, CoversSeen
<1>11. IsIndex(r, high) /\ r.backfill = None
  BY <1>5 DEF IsMerged
<1> QED BY <1>1, <1>2, <1>8, <1>9, <1>10, <1>11 DEF IndexOK

LEMMA CommitBackfillStep ==
  ASSUME Inv, NEW l \in Lookups, CommitBackfill(l)
  PROVE  Inv'
<1>1. PICK x, B, F, mark, looks, n :
        /\ x = lookups[l] /\ B = Known /\ F = InFlight /\ mark = watermark
        /\ looks = lookups /\ n = counts.lookups
  OBVIOUS
<1>2. At(l, "commit")
  BY DEF CommitBackfill
<1>3. /\ x.stage = "commit" /\ IsLookup(x) /\ LookupOK(x, B, F, mark) /\ TokenOK(x, B, mark)
  BY <1>1, <1>2, LookupAt
<1>4. PICK r : r = merge(x.index, mark.time_index, x.token)
  OBVIOUS
<1>5. PICK v : v = [x EXCEPT !.stage = "low", !.index = r, !.token = None, !.high = 0]
  OBVIOUS
<1>6. /\ lookups' = [lookups EXCEPT ![l] = v]
      /\ watermark' = [watermark EXCEPT !.time_index = r]
      /\ records' = records /\ requests' = requests /\ counts' = counts
      /\ overlooked' = overlooked
  BY <1>1, <1>4, <1>5 DEF CommitBackfill, Go, Merged
<1>7. StateOK(B, F, mark, looks, n)
  BY <1>1 DEF Inv
<1>8. /\ LogOK(B, mark) /\ IndexOK(B, mark) /\ mark.low \in Nat /\ mark.high \in Nat /\ n \in Nat
      /\ looks = [k \in Lookups |-> looks[k]] /\ TokensOK(mark, looks, n)
  BY <1>7 DEF StateOK, LogOK
<1>9. PICK mk, looks2 : mk = watermark' /\ looks2 = lookups'
  OBVIOUS
<1>10. mk = [low |-> mark.low, high |-> mark.high, time_index |-> r]
  <2>1. mk = [mark EXCEPT !.time_index = r]
    BY <1>1, <1>6, <1>9
  <2>2. mark \in [low : Nat, high : Nat, time_index : {mark.time_index}]
    BY <1>8 DEF LogOK
  <2> QED BY <2>1, <2>2
<1>11. mk.low = mark.low /\ mk.high = mark.high /\ mk.time_index = r
  BY <1>10
<1>12. /\ IndexOK(B, mk) /\ IsIndex(r, mk.high) /\ r.backfill = None
       /\ \A b \in B : IsUncut(b, mk) /\ b.offset \in x.seen => Covers(r, b)
  BY <1>3, <1>4, <1>8, <1>10, MergedOK
<1>13. /\ v.stage = "low" /\ v.index = r /\ v.low = x.low /\ v.high = 0
       /\ v.seen = x.seen /\ IsLookup(v)
  BY <1>3, <1>5 DEF IsLookup
<1>14. ~ Backfills(v) /\ v.stage # "begin" /\ v.stage # "read" /\ v.stage # "commit"
  BY <1>13 DEF Backfills
<1>15. CoversSeen(v, B, mk)
  BY <1>12, <1>13 DEF CoversSeen
<1>16. LookupOK(v, B, F, mk)
  <2>1. \A b \in B : ~ (b.offset < 0)
    BY <1>8 DEF LogOK
  <2> QED BY <1>3, <1>8, <1>11, <1>12, <1>13, <1>14, <1>15, <2>1 DEF LookupOK
<1>17. TokenOK(v, B, mk)
  BY <1>14 DEF TokenOK
<1>18. ASSUME NEW k \in Lookups \ {l}, looks[k] # None PROVE TokenOK(looks[k], B, mk)
  <2>1. Backfills(looks[k]) => looks[k].token # None
    BY <1>7, <1>18 DEF StateOK, LookupOK
  <2> QED BY <1>11, <1>12, <2>1 DEF TokenOK
<1>19. looks2 = [k \in Lookups |-> IF k = l THEN v ELSE looks[k]]
  <2>1. looks2 = [looks EXCEPT ![l] = v]
    BY <1>1, <1>6, <1>9
  <2> QED BY <1>8, <2>1
<1>20. TokensOK(mk, looks2, n)
  <2>1. Tokens(mk, looks2) \subseteq Tokens(mark, looks) \cup {None}
    BY <1>11, <1>12, <1>14, <1>19 DEF Tokens
  <2>2. \A k \in Lookups : Begins(looks2, k) => Begins(looks, k) \/ n > n
    BY <1>14, <1>19 DEF Begins
  <2>3. n >= n
    BY <1>8
  <2> QED BY <1>8, <2>1, <2>2, <2>3, TokensStay
<1>21. /\ IsCounts(counts') /\ counts'.lookups \in Nat
       /\ TokensOK(watermark', lookups', counts'.lookups)
  BY <1>1, <1>6, <1>8, <1>9, <1>20 DEF Inv
<1>22. Known' = B /\ overlooked \subseteq overlooked'
  BY <1>1, <1>6, SameKnown
<1>23. /\ IndexOK(Known', watermark')
       /\ LookupOK(v, Known', InFlight, watermark')
       /\ TokenOK(v, Known', watermark')
       /\ \A k \in Lookups \ {l} :
            lookups[k] # None => TokenOK(lookups[k], Known', watermark')
  BY <1>1, <1>9, <1>12, <1>16, <1>17, <1>18, <1>22
<1> QED BY <1>6, <1>21, <1>22, <1>23, LookupStep

LEMMA CommitUnheardStep ==
  ASSUME Inv, NEW l \in Lookups, CommitUnheard(l)
  PROVE  Inv'
<1>1. PICK x, B, F, mark, looks, n :
        /\ x = lookups[l] /\ B = Known /\ F = InFlight /\ mark = watermark
        /\ looks = lookups /\ n = counts.lookups
  OBVIOUS
<1>2. At(l, "commit")
  BY DEF CommitUnheard
<1>3. /\ x.stage = "commit" /\ LookupOK(x, B, F, mark) /\ TokenOK(x, B, mark)
  BY <1>1, <1>2, LookupAt
<1>4. PICK r : r = merge(x.index, mark.time_index, x.token)
  OBVIOUS
<1>5. /\ watermark' = [watermark EXCEPT !.time_index = r]
      /\ records' = records /\ requests' = requests /\ lookups' = lookups
      /\ counts' = [counts EXCEPT !.events = @ + 1] /\ overlooked' = overlooked
  BY <1>1, <1>4 DEF CommitUnheard, Merged, Event
<1>6. StateOK(B, F, mark, looks, n) /\ LogOK(B, mark) /\ IndexOK(B, mark) /\ mark.low \in Nat
  BY <1>1 DEF Inv, StateOK, LogOK
<1>7. PICK mk : mk = watermark'
  OBVIOUS
<1>8. mk = [low |-> mark.low, high |-> mark.high, time_index |-> r]
  <2>1. mk = [mark EXCEPT !.time_index = r]
    BY <1>1, <1>5, <1>7
  <2>2. mark \in [low : Nat, high : Nat, time_index : {mark.time_index}]
    BY <1>6 DEF LogOK
  <2> QED BY <2>1, <2>2
<1>9. mk.low = mark.low /\ mk.high = mark.high /\ mk.time_index = r
  BY <1>8
<1>10. IndexOK(B, mk) /\ r.backfill = None
  BY <1>3, <1>4, <1>6, <1>8, MergedOK
<1>11. Onward(B, F, mark, B, F, mk)
  <2>1. mk.low \in Nat /\ mk.low >= mark.low
        /\ mk = [low |-> mk.low, high |-> mark.high, time_index |-> mk.time_index]
    BY <1>6, <1>8, <1>9
  <2> QED BY <1>6, <2>1, LogShrinks
<1>12. \A y : LookupOK(y, B, F, mark) => TokenOK(y, B, mk)
  BY <1>9, <1>10 DEF TokenOK, LookupOK
<1>13. StateOK(B, F, mk, looks, n)
  BY <1>6, <1>9, <1>10, <1>11, <1>12, LogStep
<1>14. InLogOrFlight' = InLogOrFlight /\ Known' = B /\ InFlight' = F
  BY <1>1, <1>5 DEF InLogOrFlight, Known, InFlight
<1>15. IsCounts(counts') /\ counts'.lookups = n /\ RequestsOK(requests', records')
  BY <1>1, <1>5 DEF Inv, IsCounts
<1>16. LogOK(InLogOrFlight', mk)
  <2>1. PICK D : D = InLogOrFlight /\ LogOK(D, mark)
    BY <1>1 DEF Inv
  <2>2. mk.low \in Nat /\ mk.low >= mark.low
        /\ mk = [low |-> mk.low, high |-> mark.high, time_index |-> mk.time_index]
    BY <1>6, <1>8, <1>9
  <2>3. Onward(D, F, mark, D, F, mk)
    BY <2>1, <2>2, LogShrinks
  <2> QED BY <1>14, <2>1, <2>3 DEF Onward
<1> QED BY <1>1, <1>5, <1>7, <1>13, <1>14, <1>15, <1>16 DEF Inv

(***************************************************************************)
(* The theorems.                                                           *)
(***************************************************************************)
LEMMA InitOK ==
  ASSUME Init
  PROVE  Inv
<1>1. PICK partition \in Initial : watermark = partition.watermark /\ records = partition.records
  BY DEF Init
<1>2. IsPartition(watermark, records)
  BY <1>1, InitialAssumption
<1>3. /\ requests = [c \in Slots |-> None] /\ lookups = [l \in Lookups |-> None]
      /\ counts = [sends |-> 0, old_sends |-> 0, lookups |-> 0, events |-> 0]
  BY DEF Init
<1>4. PICK B : B = InLogOrFlight
  OBVIOUS
<1>5. ASSUME NEW b \in B
      PROVE  /\ b.offset \in DOMAIN records /\ b.batch = records[b.offset]
             /\ b = [batch |-> records[b.offset], offset |-> b.offset]
  BY <1>3, <1>4 DEF InLogOrFlight
<1>6. InFlight = {}
  BY <1>3 DEF InFlight
<1>7. /\ watermark \in [low : Nat, high : Nat, time_index : {watermark.time_index}]
      /\ records \in [DOMAIN records -> Seq(Nat) \ {<<>>}]
      /\ DOMAIN records \subseteq Nat
      /\ \A o \in DOMAIN records :
            /\ o + Len(records[o]) <= watermark.high
            /\ \A p \in DOMAIN records : o < p => o + Len(records[o]) <= p
            /\ is_complete(watermark.time_index) /\ o + Len(records[o]) > watermark.low =>
                Covers(watermark.time_index, [batch |-> records[o], offset |-> o])
      /\ IsIndex(watermark.time_index, watermark.high)
      /\ watermark.time_index.backfill \notin Lookups \X Nat
  BY <1>2 DEF IsPartition, is_complete
<1>8. LogOK(B, watermark)
  <2>1. \A b \in B : /\ b = [batch |-> b.batch, offset |-> b.offset]
                     /\ IsBatch(b.batch) /\ b.offset \in Nat
                     /\ b.offset + Len(b.batch) <= watermark.high
    BY <1>5, <1>7 DEF IsBatch
  <2>2. \A a, b \in B : /\ a.offset < b.offset => a.offset + Len(a.batch) <= b.offset
                        /\ a.offset = b.offset => a = b
    BY <1>5, <1>7
  <2> QED BY <1>7, <2>1, <2>2 DEF LogOK
<1>9. IndexOK(B, watermark)
  <2>1. ASSUME is_complete(watermark.time_index), NEW b \in B, IsUncut(b, watermark)
        PROVE  Covers(watermark.time_index, b)
    BY <1>5, <1>7, <2>1 DEF IsUncut
  <2> QED BY <1>7, <2>1 DEF IndexOK
<1>10. TokensOK(watermark, lookups, counts.lookups)
  <2>1. Tokens(watermark, lookups) = {watermark.time_index.backfill}
    BY <1>3 DEF Tokens
  <2>2. ASSUME NEW l \in Lookups, NEW k \in Nat PROVE <<l, k>> \notin Tokens(watermark, lookups)
    <3>1. <<l, k>> \in Lookups \X Nat
      OBVIOUS
    <3> QED BY <1>7, <2>1, <3>1
  <2> QED BY <2>2 DEF TokensOK
<1>11. RequestsOK(requests, records)
  <2>1. records = [o \in DOMAIN records |-> records[o]]
    BY <1>7
  <2> QED BY <1>3, <2>1 DEF RequestsOK
<1>12. IsCounts(counts) /\ counts.lookups \in Nat
  BY <1>3 DEF IsCounts
<1>13. StateOK(B, InFlight, watermark, lookups, counts.lookups)
  BY <1>3, <1>8, <1>9, <1>10, <1>12 DEF StateOK
<1>14. Known = B
  BY <1>4 DEF Init, Known
<1> QED BY <1>4, <1>8, <1>11, <1>12, <1>13, <1>14 DEF Inv

LEMMA NextOK ==
  ASSUME Inv, [Next]_vars
  PROVE  Inv'
<1>1. ASSUME NEW c \in Slots, NEW b \in Batches, TakeOffset(c, b) PROVE Inv'
  BY <1>1, TakeOffsetStep
<1>2. ASSUME NEW c \in Slots, NEW b \in Batches, OldTakeOffset(c, b) PROVE Inv'
  BY <1>2, OldTakeOffsetStep
<1>3. ASSUME NEW c \in Slots, PutBatch(c) PROVE Inv'
  BY <1>3, PutBatchStep
<1>4. ASSUME NEW c \in Slots, FailProduce(c) PROVE Inv'
  BY <1>4, FailProduceStep
<1>5. ASSUME NEW cutoff \in Cutoffs, DeleteRecords(cutoff) PROVE Inv'
  BY <1>5, DeleteRecordsStep
<1>6. ASSUME NEW o \in DOMAIN records, DeleteBatch(o) PROVE Inv'
  BY <1>6, DeleteBatchStep
<1>7. ASSUME NEW l \in Lookups, Lookup(l) PROVE Inv'
  <2>1. CASE StartLookup(l)
    BY <2>1, StartLookupStep
  <2>2. CASE BeginBackfill(l)
    BY <2>2, BeginBackfillStep
  <2>3. CASE ListBatches(l)
    BY <2>3, ListBatchesStep
  <2>4. CASE ReadBatches(l)
    BY <2>4, ReadBatchesStep
  <2>5. CASE CommitBackfill(l)
    BY <2>5, CommitBackfillStep
  <2>6. CASE CommitUnheard(l)
    BY <2>6, CommitUnheardStep
  <2>7. CASE ReadLow(l)
    BY <2>7, ReadLowStep
  <2>8. CASE EndLookup(l)
    BY <2>8, EndLookupStep
  <2> QED BY <1>7, <2>1, <2>2, <2>3, <2>4, <2>5, <2>6, <2>7, <2>8 DEF Lookup
<1>8. CASE UNCHANGED vars
  BY <1>8 DEF vars, Inv, Known, InLogOrFlight, InFlight
<1> QED BY <1>1, <1>2, <1>3, <1>4, <1>5, <1>6, <1>7, <1>8 DEF Next

\* The document, the log and what every lookup has read agree in every state, but for
\* the batches that a backfill has overlooked: of them only the place in the log is known.
THEOREM ListOffsetsInvariant == Spec => []Inv
<1>1. Init => Inv
  BY InitOK
<1>2. Inv /\ [Next]_vars => Inv'
  BY NextOK
<1> QED BY <1>1, <1>2, PTL DEF Spec

LEMMA InvIndexSound ==
  ASSUME Inv
  PROVE  IndexSound
<1>1. IndexOK(Known, watermark)
  BY DEF Inv, StateOK
<1> QED BY <1>1 DEF IndexOK, IndexSound, Known, Uncut, IsUncut

\* A complete index knows of every batch that is not cut, in the log or in flight, except
\* those that a backfill has overlooked: append, merge and collect_time_index_candidate
\* keep the rule of time_index.rs, but for a batch in flight below an empty listing or
\* right after a listed batch that was deleted before it was read.
THEOREM AlwaysIndexSound == Spec => []IndexSound
<1>1. Inv => IndexSound
  BY InvIndexSound
<1> QED BY <1>1, ListOffsetsInvariant, PTL

\* A scan with an index that covers a batch starts at or before it.
LEMMA FloorOK ==
  ASSUME NEW index, NEW high \in Nat, IsIndex(index, high), NEW b, b.offset \in Nat,
         IsBatch(b.batch), Covers(index, b), NEW target \in Nat, target <= MaxTimestamp(b.batch)
  PROVE  floor_offset(index, target) \in Nat /\ floor_offset(index, target) <= b.offset
<1> DEFINE below == {t \in DOMAIN index.entries : t <= target}
<1>1. DOMAIN index.entries \subseteq Nat
      /\ \A t \in DOMAIN index.entries : index.entries[t] \in 0 .. high - 1
  BY DEF IsIndex
<1>2. CASE below = {}
  BY <1>2 DEF floor_offset
<1>3. CASE below # {}
  <2>1. below \in SUBSET Nat /\ \A t \in below : t <= target
    BY <1>1
  <2>2. Max(below) \in below
    <3> HIDE DEF below
    <3> QED BY <1>3, <2>1, MaxInSet
  <2>3. PICK m : m = Max(below)
    OBVIOUS
  <2>4. m \in DOMAIN index.entries /\ m <= target /\ m \in Nat
    BY <1>1, <2>2, <2>3
  <2>5. floor_offset(index, target) = index.entries[m]
    BY <1>3, <2>3 DEF floor_offset
  <2>6. MaxTimestamp(b.batch) \in Nat
    BY TimestampOK
  <2>7. ~ (b.offset < index.entries[m])
    <3>1. b.offset < index.entries[m] => MaxTimestamp(b.batch) < m
      BY <2>4 DEF Covers
    <3> QED BY <2>4, <2>6, <3>1
  <2>8. index.entries[m] \in Nat
    BY <1>1, <2>4
  <2> QED BY <2>5, <2>7, <2>8
<1> QED BY <1>2, <1>3

LEMMA InvLookupSkipsNothing ==
  ASSUME Inv
  PROVE  LookupSkipsNothing
<1> SUFFICES ASSUME NEW l \in Lookups, At(l, "scan"),
                    NEW o \in (lookups[l].seen \cap DOMAIN records) \ overlooked,
                    NEW i \in 1 .. Len(records[o]), o + i - 1 >= watermark.low
             PROVE  LET answer == timestamp_lookup(lookups[l].index, lookups[l].low, records[o][i])
                    IN  answer # NoMatch /\ answer <= o + i - 1
  BY DEF LookupSkipsNothing, Finds
<1>1. PICK x, index, low, target :
        x = lookups[l] /\ index = x.index /\ low = x.low /\ target = records[o][i]
  OBVIOUS
<1>2. x.stage = "scan" /\ LookupOK(x, Known, InFlight, watermark)
  BY <1>1, LookupAt
<1>3. /\ watermark.low \in Nat /\ watermark.high \in Nat
      /\ low \in Nat /\ low <= watermark.low /\ IsIndex(index, watermark.high)
      /\ CoversSeen(x, Known, watermark)
  BY <1>1, <1>2, SameMark DEF LookupOK
<1>4. \A p \in DOMAIN records : p \in Nat /\ IsBatch(records[p])
  BY SeenBelowHigh
<1>5. PICK b : b = [batch |-> records[o], offset |-> o]
  OBVIOUS
<1>6. b \in Known /\ b.offset = o /\ b.batch = records[o]
  BY <1>5 DEF Known, InLogOrFlight
<1>7. /\ MaxTimestamp(records[o]) \in Nat /\ Len(records[o]) \in Nat
      /\ target \in Nat /\ target <= MaxTimestamp(records[o])
  BY <1>1, <1>4, TimestampOK
<1>8. o \in Nat /\ i \in Nat /\ i <= Len(records[o]) /\ i >= 1
  BY <1>4, <1>7
<1>9. Covers(index, b)
  <2>1. IsUncut(b, watermark)
    BY <1>3, <1>6, <1>7, <1>8 DEF IsUncut
  <2> QED BY <1>1, <1>3, <1>6, <2>1 DEF CoversSeen
<1>10. PICK start : start = floor_offset(index, target)
  OBVIOUS
<1>11. start \in Nat /\ start <= o
  <2>1. IsBatch(b.batch) /\ b.offset \in Nat /\ target <= MaxTimestamp(b.batch)
    BY <1>4, <1>6, <1>7
  <2>2. PICK high \in Nat : high = watermark.high
    BY <1>3
  <2>3. floor_offset(index, target) \in Nat /\ floor_offset(index, target) <= b.offset
    BY <1>3, <1>7, <1>9, <2>1, <2>2, FloorOK
  <2> QED BY <1>6, <1>10, <2>3
<1>12. ~ (target > index.max_timestamp)
  BY <1>3, <1>6, <1>7, <1>9 DEF Covers, IsIndex
<1>13. PICK matches : matches = {r.base + r.i - 1 : r \in Matches(start, target, low)}
  OBVIOUS
<1>14. o + i - 1 \in matches
  <2>1. PICK r : r = [base |-> o, i |-> i]
    OBVIOUS
  <2>2. r \in UNION {{[base |-> p, i |-> j] : j \in 1 .. Len(records[p])} :
                        p \in {p \in DOMAIN records : p >= start}}
    <3>1. o \in {p \in DOMAIN records : p >= start}
      BY <1>8, <1>11
    <3>2. r \in {[base |-> o, i |-> j] : j \in 1 .. Len(records[o])}
      BY <2>1
    <3> QED BY <3>1, <3>2
  <2>3. r.base + r.i - 1 = o + i - 1 /\ o + i - 1 >= low /\ records[r.base][r.i] >= target
    BY <1>1, <1>3, <1>7, <1>8, <2>1
  <2>4. r \in Matches(start, target, low)
    BY <2>2, <2>3 DEF Matches
  <2> QED BY <1>13, <2>3, <2>4
<1>15. matches \in SUBSET Nat
  <2> SUFFICES ASSUME NEW r \in Matches(start, target, low) PROVE r.base + r.i - 1 \in Nat
    BY <1>13
  <2>1. PICK p \in DOMAIN records : r \in {[base |-> p, i |-> j] : j \in 1 .. Len(records[p])}
    BY DEF Matches
  <2>2. PICK j \in 1 .. Len(records[p]) : r = [base |-> p, i |-> j]
    BY <2>1
  <2>3. p \in Nat /\ Len(records[p]) \in Nat
    BY <1>4, TimestampOK
  <2> QED BY <2>2, <2>3
<1>16. Min(matches) \in matches /\ Min(matches) <= o + i - 1
  BY <1>14, <1>15, MinInSet
<1>17. PICK answer : answer = timestamp_lookup(index, low, target)
  OBVIOUS
<1>18. answer = Min(matches)
  BY <1>10, <1>12, <1>13, <1>14, <1>17 DEF timestamp_lookup
<1>19. answer \in Nat /\ answer <= o + i - 1
  BY <1>15, <1>16, <1>18
<1>20. answer # NoMatch
  BY <1>19 DEF NoMatch
<1> QED BY <1>1, <1>17, <1>19, <1>20

\* A lookup passes over no record that was in the log when it began and still is, for
\* any target, except the records of a batch that a backfill has overlooked: the scan
\* starts at or before the record, and stops at the first match.
THEOREM AlwaysLookupSkipsNothing == Spec => []LookupSkipsNothing
<1>1. Inv => LookupSkipsNothing
  BY InvLookupSkipsNothing
<1> QED BY <1>1, ListOffsetsInvariant, PTL
=============================================================================
