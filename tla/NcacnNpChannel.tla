--------------------------- MODULE NcacnNpChannel ---------------------------
(***************************************************************************)
(* The byte stream of NcacnNp, read as the channel of PDUs it implements.  *)
(***************************************************************************)
EXTENDS NcacnNp, FiniteSets

\* PDUs that end at or before a position of the stream.
Whole(position) == Cardinality({k \in DOMAIN pdus : Boundary(k) <= position})

\* Where the PDU in hand starts: its header has been read in state "body".
InHand == IF state = "header" THEN rd ELSE rd - HeaderLen

\* The reader is at a PDU, and in state "body" it has that PDU's length.
Framed ==
    \E k \in 0..Len(pdus) :
       /\ Boundary(k) = InHand
       /\ state = "body" => k < Len(pdus) /\ frag_length = pdus[k + 1].len

\* The peer's PDU that starts where the last PDU returned starts.
Latest ==
    IF got = <<>> THEN 0
    ELSE Cardinality({k \in DOMAIN pdus : pdus[k].start <= got[Len(got)].from})

Channel == INSTANCE PduChannel WITH
    sent <- Whole(avail),
    taken <- Whole(InHand),
    received <- Len(got),
    latest <- Latest,
    errors <- recvs - Len(got),
    honest <- HeadersTrue,
    framed <- Framed

(***************************************************************************)
(* NcacnNpTransport implements the channel its client reckons with: with   *)
(* a truthful peer, every recv_pdu that returns a PDU returns the next one *)
(* of the peer, every one that fails takes one or none, and the framing is *)
(* lost by an error only, never by a recv_pdu that succeeds.               *)
(***************************************************************************)
ImplementsPduChannel == Channel!Spec
=============================================================================
