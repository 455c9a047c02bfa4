------------------------------ MODULE Document ------------------------------
(***************************************************************************)
(* What OptiCon promises of a JSON document that brokers share in an       *)
(* object store: its content is what some sequence of updates makes of the *)
(* empty document, each made on the result of the one before it.           *)
(***************************************************************************)
EXTENDS Sequences

CONSTANT Updates

VARIABLE document   \* the updates that made the content, in order

Init == document = <<>>

Update(u) == document' = Append(document, u)

Delete == document' = <<>>

Next == Delete \/ \E u \in Updates : Update(u)

Spec == Init /\ [][Next]_document
=============================================================================
