----------------------------- MODULE TimeIndex ------------------------------
(***************************************************************************)
(* The sparse time index of a partition, from the maximum timestamps of    *)
(* some of its batches to their base offsets                               *)
(* (src/nisshi-storage-dynostore/src/dynostore/time_index.rs).             *)
(***************************************************************************)
EXTENDS Integers, Sequences, FiniteSetsExt, Maps

CONSTANTS
    MAX_ENTRIES,           \* the entries that an index holds
    INITIAL_INTERVAL_BYTES, \* the bytes between two entries
    None                   \* no backfill

ASSUME TimeIndexAssumption ==
    /\ MAX_ENTRIES \in Nat \ {0}
    /\ INITIAL_INTERVAL_BYTES \in Nat

NO_TIMESTAMP == -1
VERSION == 1

\* What a document without the field decodes to.
Default ==
    [entries |-> EmptyMap, max_timestamp |-> NO_TIMESTAMP, bytes_since_entry |-> 0,
     interval_bytes |-> INITIAL_INTERVAL_BYTES, complete |-> FALSE, version |-> 0,
     backfill |-> None]

mark_complete(index) == [index EXCEPT !.complete = TRUE, !.version = VERSION]

\* Mutant of is_complete: an index of any version is taken.
is_complete_at_any_version(index) == index.complete

is_complete(index) == index.complete /\ index.version >= VERSION

\* Every other entry, with the newest.
thin(entries) ==
    Restrict(entries, {t \in DOMAIN entries :
                        Cardinality({u \in DOMAIN entries : u > t}) % 2 = 0})

append(index, max_timestamp, base_offset, bytes) ==
    LET since == index.bytes_since_entry + bytes
        indexed == DOMAIN index.entries = {} \/ since >= index.interval_bytes
        entries == Put(index.entries, max_timestamp, base_offset)
        thins == indexed /\ Cardinality(DOMAIN entries) > MAX_ENTRIES
    IN  IF max_timestamp <= index.max_timestamp THEN [index EXCEPT !.bytes_since_entry = since]
        ELSE [index EXCEPT !.max_timestamp = max_timestamp,
                           !.bytes_since_entry = IF indexed THEN 0 ELSE since,
                           !.entries = IF ~indexed THEN @
                                       ELSE IF thins THEN thin(entries) ELSE entries,
                           !.interval_bytes = IF thins THEN 2 * @ ELSE @]

observe(index, max_timestamp) ==
    [index EXCEPT !.max_timestamp = Max({@, max_timestamp})]

floor_offset(index, target) ==
    LET below == {t \in DOMAIN index.entries : t <= target}
    IN  IF below = {} THEN 0 ELSE index.entries[Max(below)]

\* An index of an older version is built anew.
begin_backfill(index, token) ==
    IF index.backfill # None THEN index
    ELSE [(IF index.version < VERSION THEN [Default EXCEPT !.version = VERSION] ELSE index)
            EXCEPT !.backfill = token]

\* The entries of an index by their offsets.
ByOffset(index, timestamps) ==
    [o \in {index.entries[t] : t \in timestamps} |->
        CHOOSE t \in timestamps : index.entries[t] = o]

\* An index of these entries, appended in the order of their offsets.
Replay(by_offset, interval) ==
    FoldOffsets(LAMBDA index, o : append(index, by_offset[o], o, index.interval_bytes),
                [Default EXCEPT !.interval_bytes = interval], DOMAIN by_offset)

\* Mutant of kept: the merge is the union of the two maps.
kept_all(candidate, live) == DOMAIN live.entries

\* The entries of the live index that a merge keeps.
kept(candidate, live) == {t \in DOMAIN live.entries : t > candidate.max_timestamp}

\* The candidate of the backfill with this token, and what produces appended meanwhile.
merge(candidate, live, token) ==
    LET owned == is_complete(live) \/ live.backfill = token
        merged == Replay(Over(ByOffset(live, kept(candidate, live)),
                              ByOffset(candidate, DOMAIN candidate.entries)),
                         Max({candidate.interval_bytes, live.interval_bytes}))
    IN  [merged EXCEPT
            !.max_timestamp = Max({@, candidate.max_timestamp, live.max_timestamp}),
            !.bytes_since_entry = live.bytes_since_entry,
            !.complete = is_complete(candidate) /\ owned,
            !.version = IF owned THEN VERSION ELSE live.version]
=============================================================================
