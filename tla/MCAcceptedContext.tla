------------------------- MODULE MCAcceptedContext -------------------------
(* Every ack of up to 4 results against up to 3 proposed contexts.         *)
EXTENDS AcceptedContext

MCResultLists == UNION {[1..n -> PresentationResultCode] : n \in 0..4}
MCProposedCounts == 0..3
=============================================================================
