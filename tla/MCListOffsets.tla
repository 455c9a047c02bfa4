--------------------------- MODULE MCListOffsets ----------------------------
(***************************************************************************)
(* A small instance of ListOffsets for TLC.                                *)
(***************************************************************************)
EXTENDS ListOffsets

SmallBatches == {<<1>>, <<3, 1>>, <<4>>}

Partition(batches, index) ==
    [watermark |-> [low |-> 0, high |-> Cardinality(DOMAIN batches), time_index |-> index],
     records |-> batches]

OneBatch == 0 :> <<2>>

\* A new partition; one with a batch of a broker without the index; and one with a
\* batch whose header is below its record, indexed by the rule before VERSION.
SmallPartitions ==
    {Partition(EmptyMap, mark_complete(Default)),
     Partition(OneBatch, Default),
     Partition(OneBatch, [append(Default, 1, 0, 1) EXCEPT !.complete = TRUE])}

Symmetry == Permutations(Slots) \cup Permutations(Lookups)
=============================================================================
