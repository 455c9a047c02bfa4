-------------------------------- MODULE Maps --------------------------------
(***************************************************************************)
(* The maps that the documents of the object store engine hold, as         *)
(* functions that grow and shrink, and loops over their keys.              *)
(***************************************************************************)
EXTENDS Integers, Sequences, FiniteSetsExt, Functions, TLC

EmptyMap == [x \in {} |-> {}]

\* map with v at k, and map without k.
Put(map, k, v) == [x \in DOMAIN map \cup {k} |-> IF x = k THEN v ELSE map[x]]
Drop(map, k) == Restrict(map, DOMAIN map \ {k})

\* map, with the values of other where it has none.
Over(map, other) ==
    [x \in DOMAIN map \cup DOMAIN other |-> IF x \in DOMAIN map THEN map[x] ELSE other[x]]

\* Step by step over the offsets, in ascending order: fold[n] has taken those below n.
FoldOffsets(Step(_, _), base, offsets) ==
    LET end == Max({0} \cup {o + 1 : o \in offsets})
        fold[n \in 0 .. end] ==
            IF n = 0 THEN base
            ELSE IF n - 1 \in offsets THEN Step(fold[n - 1], n - 1)
            ELSE fold[n - 1]
    IN  fold[end]

\* The offsets, in ascending order.
Ascending(offsets) ==
    FoldOffsets(LAMBDA order, o : Append(order, o), <<>>, offsets)
=============================================================================
