----------------------------- MODULE MCBatcher ------------------------------
(***************************************************************************)
(* A small instance of Batcher for TLC.                                    *)
(***************************************************************************)
EXTENDS Batcher

CONSTANTS t1, t2, t3

Plain(count, bytes) ==
    [producer |-> None, base_sequence |-> None, count |-> count, bytes |-> bytes,
     codec |-> "none", log_append_time |-> None, decodes |-> TRUE]

Of(b1, b2, b3) == [t \in Tasks |-> IF t = t1 THEN b1 ELSE IF t = t2 THEN b2 ELSE b3]

Idempotent(sequence) == [Plain(1, 1) EXCEPT !.producer = 7, !.base_sequence = sequence]

\* Batches that can be merged and one that is too large; too many records to merge and
\* one that does not decode; an idempotent producer; codecs and broker times that differ.
SmallWorkloads ==
    {Of(Plain(2, 1), Plain(1, 1), Plain(1, 3)),
     Of(Plain(2, 0), Plain(2, 1), [Plain(1, 1) EXCEPT !.decodes = FALSE]),
     Of(Idempotent(0), Idempotent(1), Plain(1, 1)),
     Of(Idempotent(0), Plain(1, 1), [Plain(1, 1) EXCEPT !.codec = "gzip"]),
     Of(Idempotent(0), Plain(1, 1), [Plain(1, 1) EXCEPT !.log_append_time = 5])}
=============================================================================
