--------------------------- MODULE PduWireProofs ---------------------------
(***************************************************************************)
(* Proofs about PduWire, for buffers of every length a u16 can say and     *)
(* packets of every size.  The two length fields are carried in either     *)
(* byte order, so the proofs rest on Swapped: reading a u16 in the order   *)
(* it was written in gives it back.                                        *)
(***************************************************************************)
EXTENDS PduWire, Integers, TLAPS

(* What packets and buffers are made of. *)
PacketTypes ==
    [ptype : DOMAIN BodyHead, drep : Dreps, body : Nat,
     trailer : BOOLEAN, pad : 0..255, token : Nat]

WireTypes ==
    [len : 0..U16_MAX, ptype : DOMAIN BodyHead, drep : Dreps,
     frag_length : 0..U16_MAX, auth_length : 0..U16_MAX, trailer_at : Nat, pad : 0..255]

Arrived == stage \in {"decoded", "read", "short"}

Types ==
    /\ stage \in {"idle", "built", "panicked", "wire", "refused", "rejected",
                  "decoded", "short", "read"}
    /\ packet \in PacketTypes /\ wire \in WireTypes /\ decoded \in PacketTypes
    /\ decoded.body <= U16_MAX /\ decoded.token <= U16_MAX
    /\ stub \in Nat /\ own \in BOOLEAN /\ relayed \in BOOLEAN

\* No constructor makes padding without a trailer, and none a body without its head.
WellBuilt ==
    /\ packet.trailer \/ packet.pad = 0
    /\ ~relayed /\ (own \/ stage = "built") => packet.body >= BodyHead[packet.ptype]
    /\ stage = "panicked" => EncodedLen(packet) > U16_MAX

\* The buffer under decode is the one that encode made of the packet.
EncodedAs(w, p) ==
    /\ w.len = EncodedLen(p) /\ w.ptype = p.ptype /\ w.drep = p.drep
    /\ u16(w.frag_length, w.drep) = EncodedLen(p) /\ u16(w.auth_length, w.drep) = p.token
    /\ w.trailer_at = (IF p.trailer THEN TrailerStart(p) ELSE 0) /\ w.pad = p.pad

OwnBuffer ==
    own /\ (stage \in {"wire", "rejected"} \/ Arrived) =>
       EncodedAs(wire, packet) /\ Encodable(packet)

\* What decode returned: pieces of the buffer, and of its own packet those it was given.
DecodedPieces ==
    Arrived => /\ EncodedLen(decoded) = wire.len
               /\ decoded.trailer <=> decoded.token > 0
               /\ decoded.trailer \/ decoded.pad = 0
               /\ decoded.drep # "unknown"

\* A packet passed on is one that decode returned.
RelayedPacket ==
    /\ stage = "idle" => ~own /\ ~relayed
    /\ relayed => /\ stage # "built" => own
                  /\ Encodable(packet) /\ packet.drep # "unknown"
                  /\ packet.trailer <=> packet.token > 0
                  /\ stage \notin {"refused", "rejected"}

PduInvariant == Types /\ WellBuilt /\ OwnBuffer /\ DecodedPieces /\ RelayedPacket /\ RoundTrip

-----------------------------------------------------------------------------
(***************************************************************************)
(* The u16 limit as two bytes.                                             *)
(***************************************************************************)
LEMMA Limit == U16_MAX = 255 * 256 + 255 /\ U16_MAX \in Nat
BY DEF U16_MAX

(***************************************************************************)
(* A u16 is two bytes.                                                     *)
(***************************************************************************)
LEMMA Bytes ==
  ASSUME NEW v \in Nat, v <= U16_MAX
  PROVE  v % 256 \in 0..255 /\ v \div 256 \in 0..255 /\ v = (v \div 256) * 256 + (v % 256)
<1>1. v <= 255 * 256 + 255
  BY Limit
<1>2. v % 256 \in 0..255
  OBVIOUS
<1>3. v \div 256 \in Int /\ v = 256 * (v \div 256) + (v % 256)
  OBVIOUS
<1>4. v \div 256 >= 0 /\ v \div 256 <= 255
  BY <1>1, <1>2, <1>3
<1> QED
  BY <1>2, <1>3, <1>4

(***************************************************************************)
(* A u16 read in the byte order it was written in is the one written.      *)
(***************************************************************************)
LEMMA Swapped ==
  ASSUME NEW v \in 0..U16_MAX, NEW d
  PROVE  u16(v, d) \in 0..U16_MAX /\ u16(u16(v, d), d) = v
<1>1. v \in Nat /\ v <= U16_MAX
  <2>1. U16_MAX \in Nat
    BY Limit
  <2> QED
    BY <2>1
<1>2. PICK h, l, x : h = v \div 256 /\ l = v % 256 /\ x = l * 256 + h
  OBVIOUS
<1>3. h \in 0..255 /\ l \in 0..255 /\ v = h * 256 + l
  BY <1>1, <1>2, Bytes
<1>4. x \in Nat /\ x <= U16_MAX /\ x % 256 = h /\ x \div 256 = l
  <2>1. h \in 0..255 /\ l \in 0..255 /\ x = l * 256 + h
    BY <1>2, <1>3
  <2>2. x \in Nat /\ x <= U16_MAX
    <3>1. x \in Nat /\ x <= 255 * 256 + 255
      BY ONLY <2>1
    <3> QED
      BY ONLY <3>1, Limit
  <2>3. PICK q \in Int, r \in Int : q = x \div 256 /\ r = x % 256
    BY <2>2
  <2>4. r \in 0..255 /\ x = 256 * q + r
    BY <2>2, <2>3
  <2>5. 256 * (q - l) = h - r
    BY <2>1, <2>4
  <2>6. q = l /\ r = h
    BY ONLY <2>1, <2>4, <2>5, q \in Int
  <2> QED
    BY <2>2, <2>3, <2>6
<1>5. x \in 0..U16_MAX
  <2>1. U16_MAX \in Nat
    BY Limit
  <2> QED
    BY <1>4, <2>1
<1>6. CASE d = "big"
  <2>1. u16(v, d) = x /\ u16(x, d) = v
    BY <1>2, <1>3, <1>4, <1>6 DEF u16
  <2> QED
    BY <1>5, <2>1
<1>7. CASE d # "big"
  BY <1>7 DEF u16
<1> QED
  BY <1>6, <1>7

(***************************************************************************)
(* The fixed part of a body has a length.                                  *)
(***************************************************************************)
LEMMA HeadLengths == \A t \in DOMAIN BodyHead : BodyHead[t] \in Nat
BY DEF BodyHead

(***************************************************************************)
(* The packet and the buffer before the first.                             *)
(***************************************************************************)
LEMMA EmptyTyped == NoPacket \in PacketTypes /\ NoWire \in WireTypes
<1>1. "Bind" \in DOMAIN BodyHead /\ "little" \in Dreps
  BY DEF BodyHead, Dreps
<1>2. 0 \in 0..255 /\ 0 \in 0..U16_MAX
  BY Limit
<1>3. NoPacket \in PacketTypes
  BY <1>1, <1>2 DEF NoPacket, PacketTypes
<1>4. NoWire \in WireTypes
  BY <1>1, <1>2 DEF NoWire, WireTypes
<1> QED
  BY <1>3, <1>4

(***************************************************************************)
(* What encode makes of a packet, with and without a trailer.              *)
(***************************************************************************)
LEMMA PacketLength ==
  ASSUME NEW p \in PacketTypes
  PROVE  /\ p.ptype \in DOMAIN BodyHead /\ p.drep \in Dreps /\ p.trailer \in BOOLEAN
         /\ p.body \in Nat /\ p.pad \in Nat /\ p.pad <= 255 /\ p.token \in Nat
         /\ EncodedLen(p) \in Nat
         /\ p.trailer => EncodedLen(p) = 16 + p.body + p.pad + 8 + p.token
         /\ ~p.trailer => EncodedLen(p) = 16 + p.body + p.token
         /\ TrailerStart(p) = 16 + p.body + p.pad /\ TrailerStart(p) \in Nat
<1>1. /\ p.ptype \in DOMAIN BodyHead /\ p.drep \in Dreps
      /\ p.body \in Nat /\ p.pad \in 0..255 /\ p.token \in Nat
  BY DEF PacketTypes
<1>2. p.trailer \in BOOLEAN
  BY Zenon DEF PacketTypes
<1>3. p.pad \in Nat /\ p.pad <= 255
  BY <1>1
<1>4. TrailerStart(p) = 16 + p.body + p.pad /\ TrailerStart(p) \in Nat
  BY <1>1, <1>3 DEF TrailerStart, COMMON_HEADER_LEN
<1>5. EncodedLen(p) = 16 + p.body + p.token + IF p.trailer THEN p.pad + 8 ELSE 0
  BY DEF EncodedLen, COMMON_HEADER_LEN, SECURITY_TRAILER_LEN
<1>6. CASE p.trailer
  <2>1. EncodedLen(p) = 16 + p.body + p.token + (p.pad + 8)
    BY <1>5, <1>6
  <2> QED
    BY <1>1, <1>2, <1>3, <1>4, <1>6, <2>1
<1>7. CASE ~p.trailer
  <2>1. EncodedLen(p) = 16 + p.body + p.token
    BY <1>1, <1>5, <1>7
  <2> QED
    BY <1>1, <1>2, <1>3, <1>4, <1>7, <2>1
<1> QED
  BY <1>6, <1>7

(***************************************************************************)
(* Packets with the same fields are the same packet.                       *)
(***************************************************************************)
LEMMA SamePacket ==
  ASSUME NEW p \in PacketTypes, NEW q \in PacketTypes,
         p.ptype = q.ptype, p.drep = q.drep, p.body = q.body,
         p.trailer = q.trailer, p.pad = q.pad, p.token = q.token
  PROVE  p = q
BY DEF PacketTypes

(***************************************************************************)
(* The lengths that decode reads fit the u16 they were carried in.         *)
(***************************************************************************)
LEMMA WireLengths ==
  ASSUME wire \in WireTypes
  PROVE  /\ wire.len \in Nat /\ wire.len <= U16_MAX
         /\ wire.ptype \in DOMAIN BodyHead /\ wire.drep \in Dreps
         /\ wire.trailer_at \in Nat /\ wire.pad \in 0..255
         /\ Frag \in Nat /\ Frag <= U16_MAX /\ Auth \in Nat /\ Auth <= U16_MAX
<1>1. /\ wire.len \in 0..U16_MAX /\ wire.ptype \in DOMAIN BodyHead /\ wire.drep \in Dreps
      /\ wire.frag_length \in 0..U16_MAX /\ wire.auth_length \in 0..U16_MAX
      /\ wire.trailer_at \in Nat /\ wire.pad \in 0..255
  BY DEF WireTypes
<1>2. Frag \in 0..U16_MAX /\ Auth \in 0..U16_MAX
  BY <1>1, Swapped DEF Frag, Auth
<1>3. U16_MAX \in Nat
  BY Limit
<1> QED
  BY <1>1, <1>2, <1>3

(***************************************************************************)
(* decode reads the lengths that encode wrote, and finds the trailer where *)
(* encode put it: only a header with an unknown drep can be refused.       *)
(***************************************************************************)
LEMMA OwnLengths ==
  ASSUME PduInvariant, own, stage = "wire"
  PROVE  /\ Frag = EncodedLen(packet) /\ Auth = packet.token
         /\ wire.len = EncodedLen(packet)
         /\ wire.drep = packet.drep /\ wire.ptype = packet.ptype
         /\ packet.token > 0 => /\ packet.trailer /\ HasRoomForTrailer
                                /\ TrailerAt = 16 + packet.body + packet.pad
                                /\ TrailersAt(TrailerAt) = {packet.pad}
                                /\ PadFits(packet.pad)
         /\ packet.drep # "unknown" => LengthsAgree
<1>1. EncodedAs(wire, packet) /\ Encodable(packet)
  BY DEF PduInvariant, OwnBuffer
<1>2. /\ Frag = EncodedLen(packet) /\ Auth = packet.token /\ wire.len = EncodedLen(packet)
      /\ wire.drep = packet.drep /\ wire.ptype = packet.ptype /\ wire.pad = packet.pad
      /\ packet.trailer => wire.trailer_at = TrailerStart(packet)
  BY <1>1 DEF EncodedAs, Frag, Auth
<1>3. packet \in PacketTypes
  BY DEF PduInvariant, Types
<1>4. /\ packet.body \in Nat /\ packet.pad \in Nat /\ packet.token \in Nat
      /\ EncodedLen(packet) \in Nat
      /\ packet.trailer => EncodedLen(packet) = 16 + packet.body + packet.pad + 8 + packet.token
      /\ ~packet.trailer => EncodedLen(packet) = 16 + packet.body + packet.token
      /\ TrailerStart(packet) = 16 + packet.body + packet.pad
  BY <1>3, PacketLength
<1>5. ASSUME packet.token > 0
      PROVE  /\ packet.trailer /\ HasRoomForTrailer
             /\ TrailerAt = 16 + packet.body + packet.pad
             /\ TrailersAt(TrailerAt) = {packet.pad}
             /\ PadFits(packet.pad)
  <2>1. packet.trailer
    BY <1>1, <1>5 DEF Encodable
  <2>2. HasRoomForTrailer /\ TrailerAt = 16 + packet.body + packet.pad
    BY <1>2, <1>4, <2>1
       DEF HasRoomForTrailer, TrailerAt, COMMON_HEADER_LEN, SECURITY_TRAILER_LEN
  <2>3. TrailersAt(TrailerAt) = {packet.pad}
    BY <1>2, <1>4, <2>1, <2>2 DEF TrailersAt
  <2>4. PadFits(packet.pad)
    BY <1>4, <2>2 DEF PadFits, COMMON_HEADER_LEN
  <2> QED
    BY <2>1, <2>2, <2>3, <2>4
<1>6. packet.drep # "unknown" => LengthsAgree
  BY <1>2, <1>4 DEF LengthsAgree, COMMON_HEADER_LEN
<1> QED
  BY <1>2, <1>5, <1>6

-----------------------------------------------------------------------------
(***************************************************************************)
(* What the constructors make.                                             *)
(***************************************************************************)
LEMMA BuiltPackets ==
  ASSUME NEW p \in Packets
  PROVE  /\ p \in PacketTypes /\ p.body >= BodyHead[p.ptype]
         /\ p.trailer \/ p.pad = 0
<1>1. PICK t \in DOMAIN BodyHead, d \in Dreps, s \in StubLens, tr \in BOOLEAN, pad \in Pads,
           k \in TokenLens :
         p = [ptype |-> t, drep |-> d, body |-> BodyHead[t] + s,
              trailer |-> tr, pad |-> IF tr THEN pad ELSE 0, token |-> k]
  BY DEF Packets
<1>2. BodyHead[t] \in Nat /\ s \in Nat /\ pad \in 0..255 /\ k \in Nat
  BY HeadLengths, WireAssumption
<1>3. BodyHead[t] + s \in Nat /\ BodyHead[t] + s >= BodyHead[t]
  BY <1>2
<1>4. (IF tr THEN pad ELSE 0) \in 0..255
  BY <1>2
<1>5. p \in PacketTypes
  BY <1>1, <1>2, <1>3, <1>4 DEF PacketTypes
<1>6. p.body >= BodyHead[p.ptype]
  BY <1>1, <1>3
<1>7. p.trailer \/ p.pad = 0
  BY <1>1
<1> QED
  BY <1>5, <1>6, <1>7

(***************************************************************************)
(* A packet whose construction panics is too long to be encoded.           *)
(***************************************************************************)
LEMMA PanicTooLong ==
  ASSUME NEW p \in PacketTypes, ~p.trailer, p.token = 0, HeaderOverflows(p.body)
  PROVE  EncodedLen(p) > U16_MAX
<1>1. p.body \in Nat /\ EncodedLen(p) = 16 + p.body
  BY PacketLength
<1>2. U16_MAX \in Nat
  BY Limit
<1>3. p.body % (U16_MAX + 1) <= p.body
  BY <1>1, <1>2
<1>4. (p.body % (U16_MAX + 1)) + 16 > U16_MAX
  BY DEF HeaderOverflows, COMMON_HEADER_LEN
<1>5. p.body % (U16_MAX + 1) \in Nat
  BY <1>1, <1>2
<1> QED
  BY <1>1, <1>2, <1>3, <1>4, <1>5

(***************************************************************************)
(* Building a packet keeps the invariant.                                  *)
(***************************************************************************)
LEMMA BuildStep ==
  ASSUME PduInvariant, stage = "idle", NEW p \in Packets, Build(p) \/ BuildPanics(p)
  PROVE  PduInvariant'
<1>1. p \in PacketTypes /\ p.body >= BodyHead[p.ptype] /\ (p.trailer \/ p.pad = 0)
  BY BuiltPackets
<1>2. /\ packet' = p /\ stage' \in {"built", "panicked"}
      /\ UNCHANGED <<wire, decoded, stub, own, relayed>>
      /\ stage' = "panicked" => ~p.trailer /\ p.token = 0 /\ HeaderOverflows(p.body)
  BY DEF Build, BuildPanics
<1>3. stage' = "panicked" => EncodedLen(p) > U16_MAX
  BY <1>1, <1>2, PanicTooLong
<1>4. ~own /\ ~relayed
  BY DEF PduInvariant, RelayedPacket
<1>5. Types'
  BY <1>1, <1>2 DEF PduInvariant, Types
<1>6. WellBuilt'
  BY <1>1, <1>2, <1>3 DEF WellBuilt
<1>7. OwnBuffer' /\ DecodedPieces' /\ RelayedPacket'
  BY <1>2, <1>4 DEF OwnBuffer, DecodedPieces, RelayedPacket, Arrived
<1>8. RoundTrip'
  BY <1>2, <1>3, <1>4 DEF RoundTrip
<1> QED
  BY <1>5, <1>6, <1>7, <1>8 DEF PduInvariant
(***************************************************************************)
(* A buffer of any peer keeps the invariant.                               *)
(***************************************************************************)
LEMMA PeerStep ==
  ASSUME PduInvariant, stage = "idle",
         NEW len \in PeerLens, NEW frag \in PeerLens, NEW auth \in PeerLens,
         NEW ptype \in DOMAIN BodyHead, NEW drep \in Dreps,
         PeerSends(len, frag, auth, ptype, drep)
  PROVE  PduInvariant'
<1>1. len \in 0..U16_MAX /\ frag \in 0..U16_MAX /\ auth \in 0..U16_MAX
  BY WireAssumption
<1>2. u16(frag, drep) \in 0..U16_MAX /\ u16(auth, drep) \in 0..U16_MAX
  BY <1>1, Swapped
<1>3. /\ wire' = [NoWire EXCEPT !.len = len, !.ptype = ptype, !.drep = drep,
                                !.frag_length = u16(frag, drep),
                                !.auth_length = u16(auth, drep)]
      /\ stage' = "wire" /\ UNCHANGED <<packet, decoded, stub, own, relayed>>
  BY DEF PeerSends
<1>4. wire' \in WireTypes
  BY <1>1, <1>2, <1>3, EmptyTyped DEF WireTypes
<1>5. ~own /\ ~relayed
  BY DEF PduInvariant, RelayedPacket
<1>6. Types'
  BY <1>3, <1>4 DEF PduInvariant, Types
<1>7. WellBuilt' /\ OwnBuffer' /\ DecodedPieces' /\ RelayedPacket' /\ RoundTrip'
  BY <1>3, <1>5
     DEF PduInvariant, WellBuilt, OwnBuffer, DecodedPieces, RelayedPacket, Arrived, RoundTrip
<1> QED
  BY <1>6, <1>7 DEF PduInvariant

(***************************************************************************)
(* encode writes a buffer that says what the packet is.                    *)
(***************************************************************************)
LEMMA EncodeStep ==
  ASSUME PduInvariant, Encode
  PROVE  PduInvariant'
<1> DEFINE w == [len |-> EncodedLen(packet),
                 ptype |-> packet.ptype, drep |-> packet.drep,
                 frag_length |-> u16(EncodedLen(packet), packet.drep),
                 auth_length |-> u16(packet.token, packet.drep),
                 trailer_at |-> IF packet.trailer THEN TrailerStart(packet) ELSE 0,
                 pad |-> packet.pad]
<1>1. /\ stage = "built" /\ Encodable(packet) /\ stage' = "wire" /\ own' = TRUE
      /\ wire' = w /\ UNCHANGED <<packet, decoded, stub, relayed>>
  BY DEF Encode
<1>2. packet \in PacketTypes
  BY DEF PduInvariant, Types
<1>3. /\ packet.ptype \in DOMAIN BodyHead /\ packet.drep \in Dreps
      /\ packet.pad \in Nat /\ packet.pad <= 255 /\ packet.token \in Nat
      /\ EncodedLen(packet) \in Nat /\ TrailerStart(packet) \in Nat
  BY <1>2, PacketLength
<1>4. EncodedLen(packet) \in 0..U16_MAX /\ packet.token \in 0..U16_MAX
  <2>1. EncodedLen(packet) <= U16_MAX /\ packet.token <= U16_MAX /\ U16_MAX \in Nat
    BY <1>1, Limit DEF Encodable
  <2> QED
    BY <1>3, <2>1
<1>5. /\ u16(EncodedLen(packet), packet.drep) \in 0..U16_MAX
      /\ u16(packet.token, packet.drep) \in 0..U16_MAX
      /\ u16(u16(EncodedLen(packet), packet.drep), packet.drep) = EncodedLen(packet)
      /\ u16(u16(packet.token, packet.drep), packet.drep) = packet.token
  BY <1>4, Swapped
<1>6. wire' \in WireTypes
  <2>1. (IF packet.trailer THEN TrailerStart(packet) ELSE 0) \in Nat /\ packet.pad \in 0..255
    BY <1>3
  <2>2. w \in WireTypes
    BY <1>3, <1>4, <1>5, <2>1 DEF WireTypes
  <2> QED
    BY <1>1, <2>2
<1>7. EncodedAs(wire', packet')
  <2>1. EncodedAs(w, packet)
    BY <1>5 DEF EncodedAs
  <2> QED
    BY <1>1, <2>1
<1>8. Types'
  BY <1>1, <1>6 DEF PduInvariant, Types
<1>9. WellBuilt'
  BY <1>1 DEF PduInvariant, WellBuilt
<1>10. Encodable(packet')
  BY <1>1
<1> HIDE DEF w
<1>11. OwnBuffer' /\ DecodedPieces'
  BY <1>1, <1>7, <1>10 DEF OwnBuffer, DecodedPieces, Arrived
<1>12. RelayedPacket' /\ RoundTrip'
  BY <1>1 DEF PduInvariant, RelayedPacket, RoundTrip
<1> QED
  BY <1>8, <1>9, <1>11, <1>12 DEF PduInvariant

(***************************************************************************)
(* encode never refuses a packet that was received.                        *)
(***************************************************************************)
LEMMA RefuseStep ==
  ASSUME PduInvariant, EncodeRefused
  PROVE  PduInvariant'
<1>1. /\ stage = "built" /\ ~Encodable(packet) /\ stage' = "refused"
      /\ UNCHANGED <<packet, wire, decoded, stub, own, relayed>>
  BY DEF EncodeRefused
<1>2. ~relayed
  BY <1>1 DEF PduInvariant, RelayedPacket
<1>3. Types'
  BY <1>1 DEF PduInvariant, Types
<1>4. WellBuilt'
  BY <1>1 DEF PduInvariant, WellBuilt
<1>5. OwnBuffer' /\ DecodedPieces' /\ RelayedPacket' /\ RoundTrip'
  BY <1>1, <1>2 DEF OwnBuffer, DecodedPieces, RelayedPacket, Arrived, RoundTrip
<1> QED
  BY <1>3, <1>4, <1>5 DEF PduInvariant

(***************************************************************************)
(* What decode returns, if it is made of pieces of the buffer and, of its  *)
(* own buffer, is the packet up to an empty token's trailer.               *)
(***************************************************************************)
SameOrLost(d) ==
    IF Lost(packet) = 0 THEN d = packet
    ELSE d = [packet EXCEPT !.trailer = FALSE, !.pad = 0, !.body = @ + Lost(packet)]

(***************************************************************************)
(* A step of decode that returns such a packet keeps the invariant.        *)
(***************************************************************************)
LEMMA DecodedStep ==
  ASSUME PduInvariant, stage = "wire", NEW d \in PacketTypes, Decoded(d),
         EncodedLen(d) = wire.len, d.trailer <=> d.token > 0, d.trailer \/ d.pad = 0,
         d.drep # "unknown", d.body <= U16_MAX, d.token <= U16_MAX, own => SameOrLost(d)
  PROVE  PduInvariant'
<1>1. /\ stage' = "decoded" /\ decoded' = d
      /\ UNCHANGED <<packet, wire, stub, own, relayed>>
  BY DEF Decoded
<1>2. Types'
  BY <1>1 DEF PduInvariant, Types
<1>3. WellBuilt'
  BY <1>1 DEF PduInvariant, WellBuilt
<1>4. OwnBuffer'
  BY <1>1 DEF PduInvariant, OwnBuffer
<1>5. DecodedPieces'
  BY <1>1 DEF DecodedPieces
<1>6. RelayedPacket'
  BY <1>1 DEF PduInvariant, RelayedPacket
<1>7. RoundTrip'
  BY <1>1 DEF RoundTrip, SameOrLost, Lost
<1> QED
  BY <1>2, <1>3, <1>4, <1>5, <1>6, <1>7 DEF PduInvariant

(***************************************************************************)
(* A buffer without a token: everything after the header is the body.      *)
(***************************************************************************)
LEMMA PlainStep ==
  ASSUME PduInvariant, DecodePlain
  PROVE  PduInvariant'
<1> DEFINE d == [NoPacket EXCEPT !.ptype = wire.ptype, !.drep = wire.drep,
                                 !.body = Frag - COMMON_HEADER_LEN]
<1>1. stage = "wire" /\ LengthsAgree /\ Auth = 0 /\ Decoded(d)
  BY DEF DecodePlain
<1>2. packet \in PacketTypes /\ wire \in WireTypes
  BY DEF PduInvariant, Types
<1>3. /\ wire.ptype \in DOMAIN BodyHead /\ wire.drep \in Dreps /\ wire.drep # "unknown"
      /\ Frag \in Nat /\ Frag <= U16_MAX /\ U16_MAX \in Nat /\ Frag >= 16 /\ wire.len = Frag
  BY <1>1, <1>2, WireLengths, Limit DEF LengthsAgree, COMMON_HEADER_LEN
<1>4. /\ d.ptype = wire.ptype /\ d.drep = wire.drep /\ d.body = Frag - 16
      /\ ~d.trailer /\ d.pad = 0 /\ d.token = 0
  BY DEF NoPacket, COMMON_HEADER_LEN
<1>5. d \in PacketTypes
  <2>1. Frag - COMMON_HEADER_LEN \in Nat /\ 0 \in 0..255 /\ 0 \in Nat
    BY <1>3 DEF COMMON_HEADER_LEN
  <2> QED
    BY <1>3, <2>1, EmptyTyped DEF PacketTypes
<1> HIDE DEF d
<1>6. EncodedLen(d) = wire.len
  BY <1>3, <1>4, <1>5, PacketLength
<1>7. d.body <= U16_MAX /\ d.token <= U16_MAX
  BY <1>3, <1>4
<1>8. ASSUME own PROVE SameOrLost(d)
  <2>1. /\ Frag = EncodedLen(packet) /\ packet.token = 0
        /\ wire.drep = packet.drep /\ wire.ptype = packet.ptype
    BY <1>1, <1>8, OwnLengths
  <2>2. /\ packet.body \in Nat /\ packet.pad \in Nat /\ packet.trailer \in BOOLEAN
        /\ packet.trailer => EncodedLen(packet) = 16 + packet.body + packet.pad + 8 + packet.token
        /\ ~packet.trailer => EncodedLen(packet) = 16 + packet.body + packet.token
    BY <1>2, PacketLength
  <2>3. CASE packet.trailer
    <3>1. Lost(packet) = packet.pad + 8
      BY <2>1, <2>3 DEF Lost, SECURITY_TRAILER_LEN
    <3> DEFINE q == [packet EXCEPT !.trailer = FALSE, !.pad = 0, !.body = @ + Lost(packet)]
    <3>2. /\ q.ptype = packet.ptype /\ q.drep = packet.drep /\ q.token = packet.token
          /\ q.pad = 0 /\ q.body = packet.body + Lost(packet) /\ ~q.trailer
      BY <1>2 DEF PacketTypes
    <3>3. q \in PacketTypes
      <4>1. packet.body + Lost(packet) \in Nat /\ 0 \in 0..255
        BY <2>2, <3>1
      <4> QED
        BY <1>2, <4>1 DEF PacketTypes
    <3>4. d.trailer = q.trailer
      BY <1>4, <1>5, <3>2, <3>3, Zenon DEF PacketTypes
    <3>5. d.body = q.body
      BY <1>4, <2>1, <2>2, <2>3, <3>1, <3>2
    <3> HIDE DEF q
    <3>6. d = q
      BY <1>4, <1>5, <2>1, <3>2, <3>3, <3>4, <3>5, SamePacket
    <3>7. Lost(packet) # 0
      BY <2>2, <3>1
    <3> QED
      BY <3>6, <3>7 DEF SameOrLost, q
  <2>4. CASE ~packet.trailer
    <3>1. Lost(packet) = 0
      BY <2>4 DEF Lost
    <3>2. packet.pad = 0
      BY <2>4 DEF PduInvariant, WellBuilt
    <3>3. d.trailer = packet.trailer
      <4>1. d.trailer \in BOOLEAN
        BY <1>5, PacketLength
      <4> QED
        BY <1>4, <2>2, <2>4, <4>1, Zenon
    <3>4. d.body = packet.body
      BY <1>4, <2>1, <2>2, <2>4
    <3>5. d = packet
      BY <1>2, <1>4, <1>5, <2>1, <3>2, <3>3, <3>4, SamePacket
    <3> QED
      BY <3>1, <3>5 DEF SameOrLost
  <2> QED
    BY <2>3, <2>4
<1> QED
  BY <1>1, <1>3, <1>4, <1>5, <1>6, <1>7, <1>8, DecodedStep
(***************************************************************************)
(* A buffer with a token: body, padding and trailer come before it.        *)
(***************************************************************************)
LEMMA AuthStep ==
  ASSUME PduInvariant, NEW pad \in Pads, DecodeAuth(pad)
  PROVE  PduInvariant'
<1> DEFINE d == [ptype |-> wire.ptype, drep |-> wire.drep,
                 body |-> TrailerAt - pad - COMMON_HEADER_LEN,
                 trailer |-> TRUE, pad |-> pad, token |-> Auth]
<1>1. /\ stage = "wire" /\ LengthsAgree /\ Auth > 0 /\ HasRoomForTrailer
      /\ pad \in TrailersAt(TrailerAt) /\ PadFits(pad) /\ Decoded(d)
  BY DEF DecodeAuth
<1>2. packet \in PacketTypes /\ wire \in WireTypes
  BY DEF PduInvariant, Types
<1>3. /\ wire.ptype \in DOMAIN BodyHead /\ wire.drep \in Dreps /\ wire.drep # "unknown"
      /\ Frag \in Nat /\ Frag <= U16_MAX /\ Auth \in Nat /\ Auth <= U16_MAX /\ wire.len = Frag
  BY <1>1, <1>2, WireLengths DEF LengthsAgree
<1>4. pad \in 0..255 /\ U16_MAX \in Nat
  <2>1. pad \in 0..255
    BY WireAssumption
  <2> QED
    BY <2>1, Limit
<1>5. /\ TrailerAt = Frag - Auth - 8 /\ TrailerAt \in Nat
      /\ pad + 16 <= TrailerAt /\ TrailerAt - pad - 16 \in Nat
  BY <1>1, <1>3, <1>4
     DEF HasRoomForTrailer, TrailerAt, PadFits, COMMON_HEADER_LEN, SECURITY_TRAILER_LEN
<1>6. /\ d.ptype = wire.ptype /\ d.drep = wire.drep /\ d.body = TrailerAt - pad - 16
      /\ d.trailer /\ d.pad = pad /\ d.token = Auth
  BY DEF COMMON_HEADER_LEN
<1>7. d \in PacketTypes
  <2>1. TrailerAt - pad - COMMON_HEADER_LEN \in Nat
    BY <1>5 DEF COMMON_HEADER_LEN
  <2> QED
    BY <1>3, <1>4, <2>1 DEF PacketTypes
<1> HIDE DEF d
<1>8. EncodedLen(d) = wire.len
  <2>1. EncodedLen(d) = 16 + d.body + d.pad + 8 + d.token
    BY <1>6, <1>7, PacketLength
  <2> QED
    BY <1>3, <1>4, <1>5, <1>6, <2>1
<1>9. d.body <= U16_MAX /\ d.token <= U16_MAX
  BY <1>3, <1>4, <1>5, <1>6
<1>10. ASSUME own PROVE SameOrLost(d)
  <2>1. /\ Auth = packet.token /\ packet.token > 0
        /\ wire.drep = packet.drep /\ wire.ptype = packet.ptype
        /\ packet.trailer /\ TrailerAt = 16 + packet.body + packet.pad
        /\ TrailersAt(TrailerAt) = {packet.pad}
    BY <1>1, <1>10, OwnLengths
  <2>2. packet.body \in Nat /\ packet.pad \in Nat /\ packet.token \in Nat
    BY <1>2, PacketLength
  <2>3. pad = packet.pad
    BY <1>1, <2>1
  <2>4. d.body = packet.body
    BY <1>6, <2>1, <2>2, <2>3
  <2>5. d.trailer = packet.trailer
    <3>1. d.trailer \in BOOLEAN /\ packet.trailer \in BOOLEAN
      BY <1>2, <1>7, PacketLength
    <3> QED
      BY <1>6, <2>1, <3>1, Zenon
  <2>6. d = packet
    BY <1>2, <1>6, <1>7, <2>1, <2>3, <2>4, <2>5, SamePacket
  <2>7. Lost(packet) = 0
    BY <2>1, <2>2 DEF Lost
  <2> QED
    BY <2>6, <2>7 DEF SameOrLost
<1> QED
  BY <1>1, <1>3, <1>6, <1>7, <1>8, <1>9, <1>10, DecodedStep

(***************************************************************************)
(* decode refuses a buffer of encode's only for its drep.                  *)
(***************************************************************************)
LEMMA FailStep ==
  ASSUME PduInvariant, DecodeFails
  PROVE  PduInvariant'
<1>1. /\ stage = "wire" /\ stage' = "rejected"
      /\ UNCHANGED <<packet, wire, decoded, stub, own, relayed>>
  BY DEF DecodeFails
<1>2. own => packet.drep = "unknown"
  <2> SUFFICES ASSUME own, packet.drep # "unknown" PROVE FALSE
    OBVIOUS
  <2>1. LengthsAgree /\ Auth = packet.token
    BY <1>1, OwnLengths
  <2>2. Auth > 0 => /\ HasRoomForTrailer /\ TrailersAt(TrailerAt) = {packet.pad}
                    /\ PadFits(packet.pad)
    BY <1>1, <2>1, OwnLengths
  <2>3. packet.pad # Unknown
    <3>1. packet.pad \in Nat /\ packet.pad <= 255
      BY PacketLength DEF PduInvariant, Types
    <3> QED
      BY <3>1 DEF Unknown
  <2>4. /\ Auth > 0 /\ HasRoomForTrailer
        /\ \E pad \in TrailersAt(TrailerAt) : pad = Unknown \/ ~PadFits(pad)
    BY <2>1, <2>2 DEF DecodeFails
  <2> QED
    BY <2>2, <2>3, <2>4
<1>3. ~relayed
  BY <1>1, <1>2 DEF PduInvariant, RelayedPacket
<1>4. Types'
  BY <1>1 DEF PduInvariant, Types
<1>5. WellBuilt'
  BY <1>1 DEF PduInvariant, WellBuilt
<1>6. OwnBuffer'
  BY <1>1 DEF PduInvariant, OwnBuffer
<1>7. DecodedPieces' /\ RelayedPacket' /\ RoundTrip'
  BY <1>1, <1>2, <1>3 DEF DecodedPieces, RelayedPacket, Arrived, RoundTrip
<1> QED
  BY <1>4, <1>5, <1>6, <1>7 DEF PduInvariant

(***************************************************************************)
(* The body decoder finds a head and leaves the stub.                      *)
(***************************************************************************)
LEMMA ReadStep ==
  ASSUME PduInvariant, ReadBody
  PROVE  PduInvariant'
<1>1. /\ stage = "decoded" /\ UNCHANGED <<packet, wire, decoded, own, relayed>>
      /\ \/ /\ decoded.body < BodyHead[decoded.ptype] /\ stage' = "short" /\ stub' = stub
         \/ /\ ~(decoded.body < BodyHead[decoded.ptype])
            /\ stage' = "read" /\ stub' = decoded.body - BodyHead[decoded.ptype]
  BY DEF ReadBody
<1>2. packet \in PacketTypes /\ decoded \in PacketTypes
  BY DEF PduInvariant, Types
<1>3. /\ packet.ptype \in DOMAIN BodyHead /\ packet.body \in Nat /\ packet.pad \in Nat
      /\ decoded.ptype \in DOMAIN BodyHead /\ decoded.body \in Nat
  BY <1>2, PacketLength
<1>4. BodyHead[packet.ptype] \in Nat /\ BodyHead[decoded.ptype] \in Nat
  BY <1>3, HeadLengths
<1>5. Lost(packet) \in Nat
  BY <1>3 DEF Lost, SECURITY_TRAILER_LEN
<1>6. own => SameOrLost(decoded)
  BY <1>1 DEF PduInvariant, RoundTrip, SameOrLost
<1>7. own => decoded.ptype = packet.ptype /\ decoded.body = packet.body + Lost(packet)
  <2> DEFINE q == [packet EXCEPT !.trailer = FALSE, !.pad = 0, !.body = @ + Lost(packet)]
  <2>1. q.ptype = packet.ptype /\ q.body = packet.body + Lost(packet)
    BY <1>2 DEF PacketTypes
  <2>2. own => decoded = IF Lost(packet) = 0 THEN packet ELSE q
    BY <1>6 DEF SameOrLost
  <2> HIDE DEF q
  <2> QED
    BY <1>3, <2>1, <2>2
<1>8. own /\ ~relayed => stage' # "short"
  <2>1. own /\ ~relayed => packet.body >= BodyHead[packet.ptype]
    BY DEF PduInvariant, WellBuilt
  <2> QED
    BY <1>1, <1>3, <1>4, <1>5, <1>7, <2>1
<1>9. own /\ stage' = "read" => stub' = packet.body + Lost(packet) - BodyHead[packet.ptype]
  <2>1. stage' = "read" => stub' = decoded.body - BodyHead[decoded.ptype]
    BY <1>1
  <2> QED
    BY <1>3, <1>4, <1>5, <1>7, <2>1
<1>10. stage' \in {"short", "read"} /\ stub' \in Nat
  BY <1>1, <1>3, <1>4 DEF PduInvariant, Types
<1>11. Types'
  BY <1>1, <1>10 DEF PduInvariant, Types
<1>12. WellBuilt'
  BY <1>1, <1>10 DEF PduInvariant, WellBuilt
<1>13. OwnBuffer' /\ DecodedPieces'
  BY <1>1, <1>10 DEF PduInvariant, OwnBuffer, DecodedPieces, Arrived
<1>14. RelayedPacket'
  BY <1>1, <1>10 DEF PduInvariant, RelayedPacket
<1>15. RoundTrip'
  <2>1. Lost(packet') = Lost(packet)
    BY <1>1
  <2> QED
    BY <1>1, <1>6, <1>8, <1>9, <1>10, <2>1 DEF RoundTrip, SameOrLost
<1> QED
  BY <1>11, <1>12, <1>13, <1>14, <1>15 DEF PduInvariant

(***************************************************************************)
(* What decode returned can be encoded, at whatever length it arrived.     *)
(***************************************************************************)
LEMMA RelayStep ==
  ASSUME PduInvariant, Relay
  PROVE  PduInvariant'
<1>1. /\ stage = "decoded" /\ stage' = "built" /\ packet' = decoded /\ relayed' = TRUE
      /\ UNCHANGED <<wire, decoded, stub, own>>
  BY DEF Relay
<1>2. /\ EncodedLen(decoded) = wire.len /\ (decoded.trailer <=> decoded.token > 0)
      /\ decoded.trailer \/ decoded.pad = 0
      /\ decoded.drep # "unknown" /\ decoded.token <= U16_MAX
  BY <1>1 DEF PduInvariant, DecodedPieces, Arrived, Types
<1>3. wire.len <= U16_MAX
  BY WireLengths DEF PduInvariant, Types
<1>4. Encodable(decoded)
  BY <1>2, <1>3 DEF Encodable
<1>5. Types'
  BY <1>1 DEF PduInvariant, Types
<1>6. WellBuilt'
  BY <1>1, <1>2 DEF WellBuilt
<1>7. OwnBuffer' /\ DecodedPieces'
  BY <1>1 DEF OwnBuffer, DecodedPieces, Arrived
<1>8. RelayedPacket'
  BY <1>1, <1>2, <1>4 DEF RelayedPacket
<1>9. RoundTrip'
  BY <1>1 DEF RoundTrip
<1> QED
  BY <1>5, <1>6, <1>7, <1>8, <1>9 DEF PduInvariant

-----------------------------------------------------------------------------
(***************************************************************************)
(* The invariant holds from the first packet on.                           *)
(***************************************************************************)
LEMMA PduInvariantHolds == Spec => []PduInvariant
<1>1. Init => PduInvariant
  <2> SUFFICES ASSUME Init PROVE PduInvariant
    OBVIOUS
  <2>1. /\ stage = "idle" /\ packet = NoPacket /\ wire = NoWire
        /\ decoded = NoPacket /\ stub = 0 /\ own = FALSE /\ relayed = FALSE
    BY DEF Init
  <2>2. NoPacket.body = 0 /\ NoPacket.token = 0 /\ NoPacket.pad = 0 /\ U16_MAX \in Nat
    BY Limit DEF NoPacket
  <2>3. Types
    <3>1. packet \in PacketTypes /\ decoded \in PacketTypes /\ wire \in WireTypes
      BY <2>1, EmptyTyped
    <3>2. decoded.body <= U16_MAX /\ decoded.token <= U16_MAX
      BY <2>1, <2>2
    <3> QED
      BY <2>1, <3>1, <3>2 DEF Types
  <2>4. WellBuilt /\ OwnBuffer /\ DecodedPieces /\ RelayedPacket /\ RoundTrip
    BY <2>1, <2>2 DEF WellBuilt, OwnBuffer, DecodedPieces, RelayedPacket, Arrived, RoundTrip
  <2> QED
    BY <2>3, <2>4 DEF PduInvariant
<1>2. PduInvariant /\ [Next]_vars => PduInvariant'
  <2> SUFFICES ASSUME PduInvariant, [Next]_vars PROVE PduInvariant'
    OBVIOUS
  <2>1. CASE Start
    BY <2>1, BuildStep, PeerStep DEF Start
  <2>2. CASE Encode
    BY <2>2, EncodeStep
  <2>3. CASE EncodeRefused
    BY <2>3, RefuseStep
  <2>4. CASE DecodePlain
    BY <2>4, PlainStep
  <2>5. CASE \E pad \in Pads : DecodeAuth(pad)
    BY <2>5, AuthStep
  <2>6. CASE DecodeFails
    BY <2>6, FailStep
  <2>7. CASE ReadBody
    BY <2>7, ReadStep
  <2>8. CASE Relay
    BY <2>8, RelayStep
  <2>9. CASE UNCHANGED vars
    BY <2>9 DEF vars, PduInvariant, Types, WellBuilt, OwnBuffer, DecodedPieces, RelayedPacket,
                Arrived, RoundTrip
  <2> QED
    BY <2>1, <2>2, <2>3, <2>4, <2>5, <2>6, <2>7, <2>8, <2>9 DEF Next
<1> QED
  BY <1>1, <1>2, PTL DEF Spec

(***************************************************************************)
(* Every length stays in the u8 or u16 that holds it in the code.          *)
(***************************************************************************)
THEOREM TypeCorrect == Spec => []TypeOK
<1>1. PduInvariant => TypeOK
  <2> SUFFICES ASSUME PduInvariant PROVE TypeOK
    OBVIOUS
  <2>1. packet \in PacketTypes /\ wire \in WireTypes /\ decoded \in PacketTypes
    BY DEF PduInvariant, Types
  <2>2. /\ packet.body \in Nat /\ packet.token \in Nat /\ packet.pad \in 0..255
        /\ decoded.body \in Nat /\ decoded.token \in Nat /\ decoded.pad \in 0..255
    BY <2>1 DEF PacketTypes
  <2>3. /\ wire.len \in 0..U16_MAX
        /\ wire.frag_length \in 0..U16_MAX /\ wire.auth_length \in 0..U16_MAX
    BY <2>1 DEF WireTypes
  <2>4. decoded.body \in 0..U16_MAX /\ decoded.token \in 0..U16_MAX
    <3>1. U16_MAX \in Nat /\ decoded.body <= U16_MAX /\ decoded.token <= U16_MAX
      BY Limit DEF PduInvariant, Types
    <3> QED
      BY <2>2, <3>1
  <2> QED
    BY <2>2, <2>3, <2>4 DEF TypeOK, PduInvariant, Types
<1> QED
  BY <1>1, PduInvariantHolds, PTL

(***************************************************************************)
(* Whatever a peer writes, header, body, padding, trailer and token that   *)
(* PduPacket::decode returns are disjoint pieces that fill the buffer.     *)
(***************************************************************************)
THEOREM DecodeTilesBuffer == Spec => []PiecesTileBuffer
<1>1. PduInvariant => PiecesTileBuffer
  <2> SUFFICES ASSUME PduInvariant, Arrived
               PROVE  /\ decoded.body >= 0 /\ EncodedLen(decoded) = wire.len
                      /\ decoded.trailer = (decoded.token > 0)
    BY DEF PiecesTileBuffer, Arrived
  <2>1. decoded.body \in Nat /\ decoded.trailer \in BOOLEAN /\ decoded.token \in Nat
    BY PacketLength DEF PduInvariant, Types
  <2>2. EncodedLen(decoded) = wire.len /\ (decoded.trailer <=> decoded.token > 0)
    BY DEF PduInvariant, DecodedPieces
  <2>3. (decoded.token > 0) \in BOOLEAN
    OBVIOUS
  <2>4. decoded.trailer = (decoded.token > 0)
    BY <2>1, <2>2, <2>3, Zenon
  <2> QED
    BY <2>1, <2>2, <2>4
<1> QED
  BY <1>1, PduInvariantHolds, PTL

(***************************************************************************)
(* decode returns what encode was given, in either byte order and for      *)
(* packets of every size; only a trailer with an empty token is lost.      *)
(***************************************************************************)
THEOREM EncodeDecodeRoundTrip == Spec => []RoundTrip
<1>1. PduInvariant => RoundTrip
  BY DEF PduInvariant
<1> QED
  BY <1>1, PduInvariantHolds, PTL

(***************************************************************************)
(* A received packet can always be sent on, up to 65535 bytes, and decodes *)
(* to itself.                                                              *)
(***************************************************************************)
THEOREM RelaysFaithful == Spec => []RelayFaithful
<1>1. PduInvariant => RelayFaithful
  <2> SUFFICES ASSUME PduInvariant, relayed
               PROVE  /\ stage \notin {"refused", "rejected"}
                      /\ own /\ stage = "decoded" => decoded = packet
    BY DEF RelayFaithful
  <2>1. stage \notin {"refused", "rejected"} /\ (packet.trailer <=> packet.token > 0)
    BY DEF PduInvariant, RelayedPacket
  <2>2. packet.token \in Nat
    BY PacketLength DEF PduInvariant, Types
  <2>3. Lost(packet) = 0
    BY <2>1, <2>2 DEF Lost
  <2> QED
    BY <2>1, <2>3 DEF PduInvariant, RoundTrip
<1> QED
  BY <1>1, PduInvariantHolds, PTL
=============================================================================
