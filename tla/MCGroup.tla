------------------------------ MODULE MCGroup -------------------------------
(***************************************************************************)
(* A small instance of the group with its history for TLC: two members     *)
(* with timeouts long enough for every phase, its extension and its        *)
(* expiry.                                                                 *)
(***************************************************************************)
EXTENDS GroupHistory

CONSTANTS p1, p2, a, b

\* A client of today, and one too old for MEMBER_ID_REQUIRED that has another
\* subscription and another order of protocols.
TwoMembers ==
    {[api_version |-> 9, session_timeout_ms |-> 1, rebalance_timeout_ms |-> 2,
      protocols |-> <<p1>>, metadata |-> a],
     [api_version |-> 3, session_timeout_ms |-> 2, rebalance_timeout_ms |-> 0,
      protocols |-> <<p2, p1>>, metadata |-> b]}
=============================================================================
