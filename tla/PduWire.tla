------------------------------ MODULE PduWire ------------------------------
(***************************************************************************)
(* PduPacket::encode and decode of src/pdu.rs, with the header, the        *)
(* security trailer and the fixed part of each body.  A packet is built,   *)
(* encoded and decoded, or bytes of a peer's making are decoded; what was  *)
(* decoded may be encoded again by a program that passes packets on.       *)
(*                                                                         *)
(* Bytes are abstracted to lengths and positions.  A packet is its body,   *)
(* padding and token lengths; a buffer is its length, its two header       *)
(* length fields as they lie in it, and the place of its trailer.  A       *)
(* trailer read anywhere else is made of arbitrary bytes.                  *)
(***************************************************************************)
EXTENDS Pdu

CONSTANTS
    StubLens,   \* lengths of the variable part of a body
    Pads,       \* auth_pad_length values
    TokenLens,  \* lengths of an auth_value
    PeerLens    \* lengths a peer gives its buffers and their header fields

ASSUME WireAssumption ==
    /\ StubLens \subseteq Nat /\ TokenLens \subseteq Nat
    /\ Pads \subseteq 0..255 /\ PeerLens \subseteq 0..U16_MAX

VARIABLES
    stage,      \* "idle", "built", "wire", "decoded", "read" or how it ended
    packet,     \* what was built
    wire,       \* the buffer to decode
    decoded,    \* what decode returned
    stub,       \* what the decoder of the body returned
    own,        \* the buffer comes from encode, not from a peer
    relayed     \* history: the packet built is one that was decoded

vars == <<stage, packet, wire, decoded, stub, own, relayed>>

\* "unknown" stands for any header PduHeader::decode refuses: its drep, its PDU
\* type or its version.  byte_order takes an unknown drep for little-endian.
Dreps == {"little", "big", "unknown"}

Unknown == 256    \* instead of a pad length: SecurityTrailer::decode refuses

\* The fixed part of each body; a Request with an object UUID has its own flag.
BodyHead == [Bind |-> 8, Request |-> 8, RequestWithObject |-> 24, Response |-> 8, Fault |-> 12]

\* A field of a u16, seen through the byte order of packed_drep.
u16(value, drep) == IF drep = "big" THEN (value % 256) * 256 + value \div 256 ELSE value

NoPacket == [ptype |-> "Bind", drep |-> "little", body |-> 0,
             trailer |-> FALSE, pad |-> 0, token |-> 0]

NoWire == [len |-> 0, ptype |-> "Bind", drep |-> "little",
           frag_length |-> 0, auth_length |-> 0, trailer_at |-> 0, pad |-> 0]

\* The constructors: PduPacket::new has no trailer but takes an auth_value.
Packets ==
    UNION {{[ptype |-> t, drep |-> d, body |-> BodyHead[t] + s,
             trailer |-> tr, pad |-> IF tr THEN pad ELSE 0, token |-> k] :
                d \in Dreps, s \in StubLens, tr \in BOOLEAN, pad \in Pads, k \in TokenLens} :
           t \in DOMAIN BodyHead}

Init ==
    /\ stage = "idle" /\ packet = NoPacket /\ wire = NoWire
    /\ decoded = NoPacket /\ stub = 0 /\ own = FALSE /\ relayed = FALSE

Build(p) ==
    /\ stage' = "built" /\ packet' = p
    /\ UNCHANGED <<wire, decoded, stub, own, relayed>>

\* from_body and from_request add 16 to `body.len() as u16`, which panics in a
\* build with overflow checks; encode computes the length anew in any case.
HeaderOverflows(body) == (body % (U16_MAX + 1)) + COMMON_HEADER_LEN > U16_MAX

BuildPanics(p) ==
    /\ ~p.trailer /\ p.token = 0
    /\ HeaderOverflows(p.body)
    /\ stage' = "panicked" /\ packet' = p
    /\ UNCHANGED <<wire, decoded, stub, own, relayed>>

-----------------------------------------------------------------------------
(* PduPacket::encode. *)

TrailerStart(p) == COMMON_HEADER_LEN + p.body + p.pad

EncodedLen(p) ==
    COMMON_HEADER_LEN + p.body + p.token
        + IF p.trailer THEN p.pad + SECURITY_TRAILER_LEN ELSE 0

\* Slip: a fragment of exactly 65535 bytes is refused too.
MutEncodable(p) ==
    p.token <= U16_MAX /\ (p.token > 0 => p.trailer) /\ EncodedLen(p) < U16_MAX

Encodable(p) ==
    p.token <= U16_MAX /\ (p.token > 0 => p.trailer) /\ EncodedLen(p) <= U16_MAX

Encode ==
    /\ stage = "built"
    /\ Encodable(packet)
    /\ stage' = "wire" /\ own' = TRUE
    /\ wire' = [len |-> EncodedLen(packet),
                ptype |-> packet.ptype, drep |-> packet.drep,
                frag_length |-> u16(EncodedLen(packet), packet.drep),
                auth_length |-> u16(packet.token, packet.drep),
                trailer_at |-> IF packet.trailer THEN TrailerStart(packet) ELSE 0,
                pad |-> packet.pad]
    /\ UNCHANGED <<packet, decoded, stub, relayed>>

EncodeRefused ==
    /\ stage = "built"
    /\ ~Encodable(packet)
    /\ stage' = "refused"
    /\ UNCHANGED <<packet, wire, decoded, stub, own, relayed>>

\* A buffer of a peer's making (external).
PeerSends(len, frag, auth, ptype, drep) ==
    /\ stage' = "wire"
    /\ wire' = [NoWire EXCEPT !.len = len, !.ptype = ptype, !.drep = drep,
                              !.frag_length = u16(frag, drep), !.auth_length = u16(auth, drep)]
    /\ UNCHANGED <<packet, decoded, stub, own, relayed>>

-----------------------------------------------------------------------------
(* PduPacket::decode: the header, then what its lengths say. *)

\* Slip: the length fields are read in little-endian order whatever drep says.
MutFrag == wire.frag_length

Frag == u16(wire.frag_length, wire.drep)

Auth == u16(wire.auth_length, wire.drep)

\* Slip: the token is thought to follow the body without a trailer.
MutTrailerAt == Frag - Auth

\* trailer_start, as a difference that checked_sub and the next test keep >= 16.
TrailerAt == Frag - Auth - SECURITY_TRAILER_LEN

\* SecurityTrailer::decode: its pad length, or none if type or level are unknown.
TrailersAt(position) ==
    IF own /\ position = wire.trailer_at THEN {wire.pad} ELSE Pads \cup {Unknown}

LengthsAgree ==
    /\ wire.len >= COMMON_HEADER_LEN /\ wire.drep # "unknown"
    /\ Frag >= COMMON_HEADER_LEN
    /\ wire.len = Frag
    /\ Auth <= Frag - COMMON_HEADER_LEN

HasRoomForTrailer == Frag >= Auth + SECURITY_TRAILER_LEN + COMMON_HEADER_LEN

\* Slip: padding is subtracted without the test that a body of it remains.
MutPadFits(pad) == pad <= TrailerAt

PadFits(pad) == pad + COMMON_HEADER_LEN <= TrailerAt

Decoded(p) ==
    /\ stage' = "decoded" /\ decoded' = p
    /\ UNCHANGED <<packet, wire, stub, own, relayed>>

DecodePlain ==
    /\ stage = "wire"
    /\ LengthsAgree
    /\ Auth = 0
    /\ Decoded([NoPacket EXCEPT !.ptype = wire.ptype, !.drep = wire.drep,
                                !.body = Frag - COMMON_HEADER_LEN])

DecodeAuth(pad) ==
    /\ stage = "wire"
    /\ LengthsAgree
    /\ Auth > 0 /\ HasRoomForTrailer
    /\ pad \in TrailersAt(TrailerAt) \ {Unknown}
    /\ PadFits(pad)
    /\ Decoded([ptype |-> wire.ptype, drep |-> wire.drep,
                body |-> TrailerAt - pad - COMMON_HEADER_LEN,
                trailer |-> TRUE, pad |-> pad, token |-> Auth])

DecodeFails ==
    /\ stage = "wire"
    /\ \/ ~LengthsAgree
       \/ Auth > 0 /\ ~HasRoomForTrailer
       \/ /\ Auth > 0 /\ HasRoomForTrailer
          /\ \E pad \in TrailersAt(TrailerAt) : pad = Unknown \/ ~PadFits(pad)
    /\ stage' = "rejected"
    /\ UNCHANGED <<packet, wire, decoded, stub, own, relayed>>

\* BindPdu, RequestPdu, ResponsePdu and FaultPdu::decode: the rest is the stub.
ReadBody ==
    /\ stage = "decoded"
    /\ IF decoded.body < BodyHead[decoded.ptype]
       THEN stage' = "short" /\ UNCHANGED stub
       ELSE stage' = "read" /\ stub' = decoded.body - BodyHead[decoded.ptype]
    /\ UNCHANGED <<packet, wire, decoded, own, relayed>>

Relay ==
    /\ stage = "decoded"
    /\ ~relayed
    /\ stage' = "built" /\ packet' = decoded /\ relayed' = TRUE
    /\ UNCHANGED <<wire, decoded, stub, own>>

Start ==
    /\ stage = "idle"
    /\ \/ \E p \in Packets : Build(p) \/ BuildPanics(p)
       \/ \E len, frag, auth \in PeerLens, ptype \in DOMAIN BodyHead, drep \in Dreps :
             PeerSends(len, frag, auth, ptype, drep)

Next ==
    \/ Start
    \/ Encode \/ EncodeRefused
    \/ DecodePlain \/ (\E pad \in Pads : DecodeAuth(pad)) \/ DecodeFails
    \/ ReadBody \/ Relay

Spec == Init /\ [][Next]_vars

-----------------------------------------------------------------------------
(* Every length stays within the type that holds it in the code. *)
TypeOK ==
    /\ stage \in {"idle", "built", "panicked", "wire", "refused", "rejected",
                  "decoded", "short", "read"}
    /\ packet.body \in Nat /\ packet.token \in Nat /\ packet.pad \in 0..255
    /\ wire.len \in 0..U16_MAX
    /\ wire.frag_length \in 0..U16_MAX /\ wire.auth_length \in 0..U16_MAX
    /\ decoded.body \in 0..U16_MAX /\ decoded.token \in 0..U16_MAX /\ decoded.pad \in 0..255
    /\ stub \in Nat /\ own \in BOOLEAN /\ relayed \in BOOLEAN

(***************************************************************************)
(* Whatever a peer writes into the two length fields and the trailer, what *)
(* decode returns are pieces of the buffer: header, body, padding, trailer *)
(* and token follow each other and end where the buffer ends, so no slice  *)
(* of decode is out of range, and none of them overlap.                    *)
(***************************************************************************)
PiecesTileBuffer ==
    stage \in {"decoded", "read", "short"} =>
       /\ decoded.body >= 0
       /\ EncodedLen(decoded) = wire.len
       /\ decoded.trailer = (decoded.token > 0)

(***************************************************************************)
(* decode gives back what encode was given, in either byte order, so a     *)
(* body decoder finds the stub that was put in.  One kind of packet does   *)
(* not survive: a trailer with an empty token encodes with auth_length 0,  *)
(* and padding and trailer come back as the end of the body.  A packet     *)
(* whose construction panics is one that encode would have refused.        *)
(***************************************************************************)
Lost(p) == IF p.trailer /\ p.token = 0 THEN p.pad + SECURITY_TRAILER_LEN ELSE 0

RoundTrip ==
    /\ stage = "panicked" => EncodedLen(packet) > U16_MAX
    /\ own /\ stage = "rejected" => packet.drep = "unknown"
    /\ own /\ stage \in {"decoded", "read", "short"} =>
          /\ IF Lost(packet) = 0 THEN decoded = packet
             ELSE decoded = [packet EXCEPT !.trailer = FALSE, !.pad = 0,
                                           !.body = @ + Lost(packet)]
          /\ ~relayed => stage # "short"
          /\ stage = "read" => stub = packet.body + Lost(packet) - BodyHead[packet.ptype]

(***************************************************************************)
(* A packet that was received can be sent on: it encodes, to a buffer of   *)
(* the same length, and decodes to itself, also at the 65535 byte limit.   *)
(***************************************************************************)
RelayFaithful ==
    relayed =>
       /\ stage \notin {"refused", "rejected"}
       /\ own /\ stage = "decoded" => decoded = packet
=============================================================================
