--------------------------- MODULE MCCoordinator ----------------------------
(***************************************************************************)
(* Small instances of the coordinators for TLC: two brokers with a request *)
(* or two at a time, and clients too old for MEMBER_ID_REQUIRED, so that a *)
(* join takes one write.                                                   *)
(***************************************************************************)
EXTENDS Coordinator, TLC

CONSTANTS p1, a, b1, b2

OldClient ==
    {[api_version |-> 3, session_timeout_ms |-> 1, rebalance_timeout_ms |-> 1,
      protocols |-> <<p1>>, metadata |-> a]}

\* Neither the brokers nor the slots of requests are told apart.
Symmetry == Permutations(Brokers) \cup Permutations(Slots)
=============================================================================
