-------------------------------- MODULE Fetch -------------------------------
(***************************************************************************)
(* Which batches of a partition a fetch of the object store engine answers *)
(* (src/nisshi-storage-dynostore/src/dynostore.rs).  An object is named by *)
(* the base offset of its batch, and the store may list the names in any   *)
(* order: order is the listing of the whole partition, and records maps    *)
(* the base offsets of the objects that can be read to their batches.  The *)
(* size of a batch is its number of records.                               *)
(***************************************************************************)
EXTENDS Integers, Sequences, FiniteSetsExt, Maps

CONSTANTS
    FETCH_LISTING_FIRST_WINDOW, \* how far below the offset the second listing starts
    FETCH_LISTING_GROWTH        \* by what factor each later one starts further below

ASSUME FetchAssumption ==
    /\ FETCH_LISTING_FIRST_WINDOW \in Nat \ {0}
    /\ FETCH_LISTING_GROWTH \in Nat \ {0, 1}

\* The objects at or after an offset, as the store lists them.
batch_stream(order, start_offset) ==
    LET places == Ascending({i \in DOMAIN order : order[i] >= start_offset})
    IN  [i \in DOMAIN places |-> order[places[i]]]

NoListing == <<>>

\* Where the listings of batch_stream_holding start.
Starts(offset) ==
    {0, offset} \cup ({offset - FETCH_LISTING_FIRST_WINDOW * FETCH_LISTING_GROWTH ^ i :
                        i \in 0 .. offset} \cap 0 .. offset)

\* The batches from the one that holds offset on, as the first listing that begins at
\* or below offset gives them.  NoListing if it descends there, or none does.
batch_stream_holding(order, offset) ==
    LET Begins(stream) == stream # <<>> /\ stream[1] <= offset
        found == {s \in Starts(offset) : Begins(batch_stream(order, s))}
        listing == batch_stream(order, Max(found))
        after == Min({i \in 1 .. Len(listing) : listing[i] > offset} \cup {Len(listing) + 1})
    IN  IF found = {} \/ \E i \in 2 .. after - 1 : listing[i] <= listing[i - 1]
        THEN NoListing
        ELSE SubSeq(listing, after - 1, Len(listing))

NothingRead(max_bytes) ==
    [batches |-> <<>>, next |-> -1, left |-> max_bytes, ended |-> FALSE, contiguous |-> TRUE]

\* One more batch of a listing.  A batch that was deleted since is skipped, and the one
\* after it may start anywhere.  The deadline of a fetch ends it as a smaller max_bytes does.
read_fetched_batch(so_far, o, records, bounds, requires_contiguous) ==
    IF so_far.ended THEN so_far
    ELSE IF requires_contiguous /\ so_far.next # -1 /\ o # so_far.next
    THEN [so_far EXCEPT !.ended = TRUE, !.contiguous = FALSE]
    ELSE IF o >= bounds.high THEN [so_far EXCEPT !.ended = TRUE]
    ELSE IF o \notin DOMAIN records THEN [so_far EXCEPT !.next = -1]
    ELSE IF o + records[o].count <= bounds.offset
    THEN [so_far EXCEPT !.next = o + records[o].count]
    ELSE [so_far EXCEPT !.batches = Append(@, o), !.next = o + records[o].count,
                        !.left = @ - records[o].count, !.ended = records[o].count > so_far.left]

\* The base offsets of the batches that are read from a listing, and whether they were
\* contiguous.
read_fetched_batches(records, bounds, listing, requires_contiguous) ==
    LET read[n \in 0 .. Len(listing)] ==
            IF n = 0 THEN NothingRead(bounds.max_bytes)
            ELSE read_fetched_batch(read[n - 1], listing[n], records, bounds, requires_contiguous)
    IN  read[Len(listing)]

\* A new listing, sorted, from the last batch at or below the offset on.
fetch_from_full_listing(records, bounds) ==
    LET below == {o \in DOMAIN records : o < bounds.high}
        at_most == {o \in below : o <= bounds.offset}
        holding == IF at_most = {} THEN bounds.offset ELSE Max(at_most)
    IN  read_fetched_batches(records, bounds,
            Ascending({o \in below : o >= holding}), FALSE).batches

\* Mutant of fetch: the listing is taken although it is not contiguous.
fetch_as_listed(records, bounds, order) ==
    LET listing == batch_stream_holding(order, bounds.offset)
        near == read_fetched_batches(records, bounds, listing, FALSE)
    IN  IF listing # NoListing /\ near.contiguous THEN near.batches
        ELSE fetch_from_full_listing(records, bounds)

\* The base offsets of the batches that a fetch answers.
fetch(records, bounds, order) ==
    LET listing == batch_stream_holding(order, bounds.offset)
        near == read_fetched_batches(records, bounds, listing, TRUE)
    IN  IF listing # NoListing /\ near.contiguous THEN near.batches
        ELSE fetch_from_full_listing(records, bounds)
=============================================================================
