----------------------------- MODULE PduChannel -----------------------------
(***************************************************************************)
(* What RpcTransport::recv_pdu promises the client, and what RpcClient's   *)
(* model assumes of it: the peer's PDUs come one by one and in order; a    *)
(* recv_pdu that fails has taken the next one or none.  An error may also  *)
(* cost the channel its framing.  From then on, as with a peer whose       *)
(* headers lie, it promises nothing.                                       *)
(***************************************************************************)
EXTENDS Naturals

VARIABLES
    sent,      \* PDUs of the peer that will arrive
    taken,     \* of these, how many are received or lost
    received,  \* recv_pdu calls that returned a PDU
    latest,    \* the number of the PDU that was returned last
    errors,    \* recv_pdu calls that failed
    honest,    \* the peer's headers tell the truth
    framed     \* the next bytes are the start of a PDU

vars == <<sent, taken, received, latest, errors, honest, framed>>

Init ==
    /\ sent = 0 /\ taken = 0 /\ received = 0 /\ latest = 0 /\ errors = 0
    /\ honest = TRUE /\ framed = TRUE

Send ==
    /\ sent' = sent + 1
    /\ UNCHANGED <<taken, received, latest, errors, honest, framed>>

\* The connection ends: PDUs that did not arrive will not.
Close ==
    /\ sent' \in taken..sent
    /\ UNCHANGED <<taken, received, latest, errors, honest, framed>>

Recv ==
    /\ taken < sent
    /\ taken' = taken + 1
    /\ received' = received + 1
    /\ latest' = taken + 1
    /\ UNCHANGED <<sent, errors, honest, framed>>

RecvErr ==
    /\ errors' = errors + 1
    /\ taken' \in {taken, taken + 1} /\ taken' <= sent
    /\ UNCHANGED <<sent, received, latest, honest, framed>>

\* An error in the middle of a PDU, or a PDU whose header lies.
LoseFraming == ~framed' /\ errors' = errors + 1

Lie == ~honest'

Next ==
    \/ ~framed \/ ~honest
    \/ Send \/ Close \/ Recv \/ RecvErr \/ LoseFraming \/ Lie

Spec == Init /\ [][Next]_vars
=============================================================================
