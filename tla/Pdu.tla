-------------------------------- MODULE Pdu --------------------------------
(***************************************************************************)
(* Lengths and limits of connection-oriented PDUs (src/pdu.rs), and the    *)
(* PDUs the client can be handed by its transport.                         *)
(***************************************************************************)
EXTENDS Naturals, Sequences

COMMON_HEADER_LEN == 16
REQUEST_HEADER_LEN == 8
SECURITY_TRAILER_LEN == 8
U16_MAX == 65535

\* RequestPdu::encode without an object UUID: the only form the client sends.
RequestBodyLen(stub_len) == REQUEST_HEADER_LEN + stub_len

\* auth_padding_len: bytes that align the security trailer to 4.
auth_padding_len(body_len) == (4 - (body_len % 4)) % 4

\* frag_length as PduPacket::encode computes it, without and with a trailer.
FragLength(body_len) == COMMON_HEADER_LEN + body_len

AuthFragLength(body_len, auth_len) ==
    FragLength(body_len) + auth_padding_len(body_len)
        + SECURITY_TRAILER_LEN + auth_len

\* PduPacket::encode refuses what its u16 length fields cannot hold.
Encodes(body_len) == FragLength(body_len) <= U16_MAX

AuthEncodes(body_len, auth_len) ==
    auth_len <= U16_MAX /\ AuthFragLength(body_len, auth_len) <= U16_MAX
=============================================================================
