------------------------------ MODULE NcacnNp ------------------------------
(***************************************************************************)
(* NcacnNpTransport::recv_pdu over a NamedPipe (src/ncacn_np.rs): PDUs are *)
(* cut out of a byte stream by reading a header and then as many bytes as  *)
(* its frag_length says.                                                   *)
(*                                                                         *)
(* Bytes are abstracted to their positions in the stream the peer wrote:   *)
(* the pipe is `avail` bytes of which `rd` were read, and the peer's PDUs  *)
(* are ranges of it.  A header read anywhere else than where a PDU starts  *)
(* is made of arbitrary bytes, so it may decode to anything or to nothing. *)
(***************************************************************************)
EXTENDS Naturals, Sequences

CONSTANTS
    HeaderLen,   \* COMMON_HEADER_LEN (16 in the code)
    PduLens,     \* lengths of the peer's PDUs
    FragLengths, \* frag_length values a header may carry
    MaxPdus,     \* bound: PDUs the peer writes
    MaxRecvs,    \* bound: recv_pdu calls that return
    Faults       \* what may go wrong: "io", "close", "header"

ASSUME FramingAssumption ==
    /\ HeaderLen \in Nat \ {0}
    /\ PduLens \subseteq {n \in Nat : n >= HeaderLen}
    /\ FragLengths \subseteq Nat
    /\ MaxPdus \in Nat
    /\ MaxRecvs \in Nat
    /\ Faults \subseteq {"io", "close", "header"}

VARIABLES
    pdus,        \* PDUs the peer wrote: where each starts, its length, its header
    avail,       \* bytes of the stream that reached the pipe
    closed,      \* the peer is gone: no byte will follow
    rd,          \* bytes read from the pipe
    state,       \* "header" or "body": which read_exact comes next
    frag_length, \* from the header just decoded
    got,         \* what recv_pdu returned: the range of the stream it covers
    recvs,       \* recv_pdu calls that returned, with a PDU or an error
    broken       \* history: some recv_pdu returned an error

pipe == <<pdus, avail, closed>>
vars == <<pdus, avail, closed, rd, state, frag_length, got, recvs, broken>>

Init ==
    /\ pdus = <<>> /\ avail = 0 /\ closed = FALSE
    /\ rd = 0 /\ state = "header" /\ frag_length = 0
    /\ got = <<>> /\ recvs = 0 /\ broken = FALSE

-----------------------------------------------------------------------------
(* The peer (external). *)

PeerWrites(len, header) ==
    /\ ~closed
    /\ Len(pdus) < MaxPdus
    /\ "header" \in Faults \/ header = [valid |-> TRUE, frag_length |-> len]
    /\ pdus' = Append(pdus, [start |-> avail, len |-> len, header |-> header])
    /\ avail' = avail + len
    /\ UNCHANGED <<closed, rd, state, frag_length, got, recvs, broken>>

\* The connection ends; bytes not read yet may be lost from `cut` on.
PeerCloses(cut) ==
    /\ "close" \in Faults
    /\ ~closed
    /\ closed' = TRUE
    /\ avail' = cut
    /\ UNCHANGED <<pdus, rd, state, frag_length, got, recvs, broken>>

-----------------------------------------------------------------------------
(* recv_pdu. *)

Invalid == [valid |-> FALSE, frag_length |-> 0]

Headers == [valid : {TRUE}, frag_length : FragLengths \cup PduLens] \cup {Invalid}

\* What PduHeader::decode may make of the bytes at a position.
HeadersAt(position) ==
    IF \E k \in DOMAIN pdus : pdus[k].start = position
    THEN {pdus[k].header : k \in {j \in DOMAIN pdus : pdus[j].start = position}}
    ELSE Headers

\* Slip: frag_length is taken for the length of the body.
MutWanted == IF state = "header" THEN HeaderLen ELSE frag_length

\* What the next read_exact asks for.
Wanted == IF state = "header" THEN HeaderLen ELSE frag_length - HeaderLen

Readable == recvs < MaxRecvs /\ rd + Wanted <= avail

\* Slip: a frag_length smaller than the header is not refused.
MutReadHeader(header) ==
    /\ state = "header"
    /\ Readable
    /\ rd' = rd + Wanted
    /\ header.valid
    /\ state' = "body"
    /\ frag_length' = header.frag_length
    /\ UNCHANGED <<pipe, got, recvs, broken>>

ReadHeader(header) ==
    /\ state = "header"
    /\ Readable
    /\ rd' = rd + Wanted
    /\ header.valid /\ header.frag_length >= HeaderLen
    /\ state' = "body"
    /\ frag_length' = header.frag_length
    /\ UNCHANGED <<pipe, got, recvs, broken>>

RecvErrs ==
    /\ state' = "header"
    /\ recvs' = recvs + 1
    /\ broken' = TRUE

\* The header is consumed, the rest of its PDU stays in the pipe.
RejectHeader(header) ==
    /\ state = "header"
    /\ Readable
    /\ rd' = rd + Wanted
    /\ ~header.valid \/ header.frag_length < HeaderLen
    /\ RecvErrs
    /\ UNCHANGED <<pipe, frag_length, got>>

\* Slip: the header bytes are left out of the PDU that is returned.
MutReadBody ==
    /\ state = "body"
    /\ Readable
    /\ rd' = rd + Wanted
    /\ got' = Append(got, [from |-> rd, to |-> rd + Wanted, frag_length |-> frag_length])
    /\ state' = "header"
    /\ recvs' = recvs + 1
    /\ UNCHANGED <<pipe, frag_length, broken>>

ReadBody ==
    /\ state = "body"
    /\ Readable
    /\ rd' = rd + Wanted
    /\ got' = Append(got, [from |-> rd - HeaderLen, to |-> rd + Wanted, frag_length |-> frag_length])
    /\ state' = "header"
    /\ recvs' = recvs + 1
    /\ UNCHANGED <<pipe, frag_length, broken>>

\* read_exact fails, after having read any number of bytes up to `position`.
ReadFails(position) ==
    /\ recvs < MaxRecvs
    /\ \/ "io" \in Faults
       \/ closed /\ rd + Wanted > avail
    /\ position <= rd + Wanted
    /\ rd' = position
    /\ RecvErrs
    /\ UNCHANGED <<pipe, frag_length, got>>

Recv ==
    \/ \E header \in HeadersAt(rd) : ReadHeader(header) \/ RejectHeader(header)
    \/ ReadBody
    \/ \E position \in rd..avail : ReadFails(position)

Next ==
    \/ \E len \in PduLens, header \in Headers : PeerWrites(len, header)
    \/ \E cut \in rd..avail : PeerCloses(cut)
    \/ Recv

Spec == Init /\ [][Next]_vars

Reads == ReadBody \/ \E header \in HeadersAt(rd) : ReadHeader(header) \/ RejectHeader(header)

\* A recv_pdu in hand goes on whenever the pipe has the bytes it waits for.
FairSpec == Spec /\ WF_vars(Reads)

-----------------------------------------------------------------------------
Boundary(k) == IF k = 0 THEN 0 ELSE pdus[k].start + pdus[k].len

PeerPdus == [start : Nat, len : PduLens, header : Headers]

Frames == [from : Nat, to : Nat, frag_length : Nat]

(* Every variable holds a value of its type. *)
TypeOK ==
    /\ pdus \in Seq(PeerPdus)
    /\ avail \in Nat
    /\ closed \in BOOLEAN
    /\ rd \in 0..avail
    /\ state \in {"header", "body"}
    /\ frag_length \in Nat
    /\ got \in Seq(Frames)
    /\ recvs \in 0..MaxRecvs
    /\ broken \in BOOLEAN

HeadersTrue ==
    \A k \in DOMAIN pdus :
       pdus[k].header = [valid |-> TRUE, frag_length |-> pdus[k].len]

(***************************************************************************)
(* Until a recv_pdu has failed, and as long as the peer's headers tell the *)
(* truth, what recv_pdu returns are the peer's PDUs, each one whole, in    *)
(* order and none left out, however their bytes arrive.                    *)
(***************************************************************************)
ReceivesThePdus ==
    HeadersTrue /\ ~broken =>
       /\ Len(got) <= Len(pdus)
       /\ \A k \in DOMAIN got :
             got[k].from = pdus[k].start /\ got[k].to = pdus[k].start + pdus[k].len

(***************************************************************************)
(* Whatever was read, also from the middle of a PDU after an error, what   *)
(* recv_pdu returns is as long as its own header says, at least a header,  *)
(* and no byte is returned twice: PduPacket::decode's length check cannot  *)
(* notice that the stream lost its framing.                                *)
(***************************************************************************)
LengthMatchesHeader ==
    \A k \in DOMAIN got :
       /\ got[k].to = got[k].from + got[k].frag_length
       /\ got[k].frag_length >= HeaderLen
       /\ got[k].to <= rd
       /\ \A j \in 1..(k - 1) : got[j].to <= got[k].from

(***************************************************************************)
(* The inductive invariant behind both: how the peer's PDUs lie in the     *)
(* stream, where between them the reader stands, and what it has returned. *)
(***************************************************************************)
Layout ==
    /\ \A k \in DOMAIN pdus : pdus[k].start = Boundary(k - 1)
    /\ \A j, k \in DOMAIN pdus : j < k => pdus[j].start + pdus[j].len <= pdus[k].start
    /\ avail <= Boundary(Len(pdus))
    /\ ~closed => avail = Boundary(Len(pdus))

Aligned ==
    HeadersTrue /\ ~broken =>
       IF state = "header" THEN rd = Boundary(Len(got))
       ELSE /\ Len(got) < Len(pdus)
            /\ rd = pdus[Len(got) + 1].start + HeaderLen
            /\ frag_length = pdus[Len(got) + 1].len

BodyBehindHeader ==
    state = "body" =>
       /\ frag_length >= HeaderLen
       /\ rd >= HeaderLen
       /\ \A k \in DOMAIN got : got[k].to <= rd - HeaderLen

FramingInvariant ==
    TypeOK /\ Layout /\ Aligned /\ BodyBehindHeader /\ ReceivesThePdus /\ LengthMatchesHeader

(***************************************************************************)
(* A PDU that is in the pipe whole is received if recv_pdu is called for   *)
(* it, or a fault is to blame: the reader never waits for bytes beyond the *)
(* PDU it is reading.                                                      *)
(***************************************************************************)
AllReceived ==
    \A k \in 1..MaxPdus :
       (Len(pdus) >= k /\ MaxRecvs >= k) ~> (Len(got) >= k \/ broken \/ closed \/ ~HeadersTrue)
=============================================================================
