----------------------------- MODULE MCProduce ------------------------------
(***************************************************************************)
(* Small instances of Produce for TLC.                                     *)
(***************************************************************************)
EXTENDS Produce

Batch(producer, epoch, sequence, count) ==
    [producer |-> producer, epoch |-> epoch, sequence |-> sequence, count |-> count]

\* A producer that bumps its epoch, and a batch of two records of a second one, whose
\* epoch makes the watermark drop that of the first.
Bumped == {Batch(1, 0, 0, 1), Batch(1, 0, 1, 1), Batch(1, 1, 0, 1), Batch(2, 1, 0, 2)}

\* The same without a second sequence.
Dropped == {Batch(1, 0, 0, 1), Batch(1, 1, 0, 1), Batch(2, 1, 0, 1)}

\* Two producers that are not idempotent.
Plain == {Batch(None, 0, 0, 1), Batch(None, 0, 0, 2)}

Symmetry == Permutations(Slots)

\* Check reads nothing of a version but the entry of its own producer.
Seen == UNION {{<<id, version[id]>> : id \in DOMAIN version} : version \in versions}

\* Two states with the same view have the same behaviours.
View == <<producers, Seen, watermark, forgotten, records, sending, sweep, consuming, events>>

\* The producer IDs are allocated before the first batch is sent: InitProducer adds an
\* entry that no other action reads or writes before, so it commutes with all of them.
AllocatedFirst == sends > 0 => {b.producer : b \in Batches} \ {None} \subseteq DOMAIN producers
=============================================================================
