----------------------------- MODULE RpcClient -----------------------------
(***************************************************************************)
(* RpcClient of src/client.rs: bind with optional Connect authentication,  *)
(* then calls, each fragmented on the way out and reassembled on the way   *)
(* in, over an RpcTransport that may fail, to a server that may answer     *)
(* late, wrongly or never.                                                 *)
(*                                                                         *)
(* The client is single threaded; it interleaves with the server and the   *)
(* transport at every send_pdu and recv_pdu.  Server and transport are the *)
(* environment: their behaviour is what the code's own checks allow for.   *)
(*                                                                         *)
(* Stub bytes are abstracted to their positions: a request fragment is the *)
(* half-open range from..to of the request stub, and a response fragment   *)
(* is named by the call the server answers and its rank in that answer.    *)
(***************************************************************************)
EXTENDS Pdu, Bind

CONSTANTS
    U32,           \* number of values of a u32 (2^32 in the code)
    MaxCalls,      \* bound: calls made on one client
    MaxPdus,       \* bound: PDUs the server sends in answer to one call
    MaxQueue,      \* bound: PDUs waiting in the transport
    StubLens,      \* request stub lengths
    XmitFrags,     \* max_xmit_frag values: in a bind ack or set by the user
    ContextIds,    \* context ids given to new_bound
    Proposals,     \* presentation context lists given to bind
    AckResults,    \* result lists of a bind ack
    Levels,        \* auth levels of the providers in use
    TokenLens,     \* lengths of the tokens providers produce
    Faults         \* which parts of the environment misbehave

ASSUME BoundsAssumption ==
    U32 \in Nat \ 0..2 /\ MaxCalls \in Nat /\ MaxPdus \in Nat /\ MaxQueue \in Nat

ASSUME SizesAssumption ==
    /\ StubLens \subseteq Nat
    /\ XmitFrags \subseteq 0..U16_MAX
    /\ ContextIds \subseteq Nat
    /\ TokenLens \subseteq Nat

ASSUME ListsAssumption ==
    Proposals \subseteq Seq(Contexts) /\ AckResults \subseteq Seq(PresentationResultCode)

ASSUME LevelsAssumption ==
    Levels \subseteq {"None", "Connect", "PacketIntegrity", "PacketPrivacy"}

ASSUME FaultsAssumption == Faults \subseteq {"send", "recv", "server", "provider", "ndr"}

DEFAULT_MAX_XMIT_FRAG == 4280

MaxCallId == U32 - 1

Calls == 0..MaxCalls    \* call 0 is the bind exchange

VARIABLES
    \* Progress of the API call in hand, and what the last one returned.
    pc, result,
    \* RpcClient fields.
    context_id, call_id, max_xmit_frag, auth_provider,
    \* Locals of bind_with_contexts_inner.
    proposed, ack, accepted,
    \* Locals of call_raw.
    req_id, req_len, offset, saw_first, response_stub,
    \* Delivered to the server: bind and auth3, fragments of the last call.
    handshake, outbound,
    \* Transport: PDUs sent by the server and not yet received.
    toClient,
    \* Server: what it heard of each call, PDUs it sent for it, ended answers.
    heard, answered, finished,
    \* History: calls begun, their ids, whether PDUs waited at the last start.
    ncalls, ids, stale

client == <<context_id, call_id, max_xmit_frag, auth_provider>>
bindLocals == <<proposed, ack, accepted>>
callLocals == <<req_id, req_len, offset, saw_first, response_stub>>
server == <<answered, finished>>
history == <<ncalls, ids, stale>>
vars == <<pc, result, client, bindLocals, callLocals, handshake, outbound,
          toClient, heard, server, history>>

-----------------------------------------------------------------------------
(* Values. *)

NoAck == [max_xmit_frag |-> 0, results |-> <<>>, challenge |-> FALSE]

\* What the client reads of a BindAckPdu; challenge: its auth_value is not empty.
Acks == [max_xmit_frag : XmitFrags, results : AckResults, challenge : BOOLEAN]

NoProvider == [level |-> "absent", stage |-> "new", token |-> 0]

\* token: length of the last token the provider produced, and at which stage.
Providers == [level : Levels, stage : {"new", "init", "step"}, token : TokenLens \cup {0}]

\* ptype "Garbage" is what PduPacket::decode refuses; `ok` is FALSE when the
\* decoder of the body refuses it; `call` and `rank` say what it answers.
InPdus == [ptype : {"Response", "Fault", "BindAck", "BindNak", "Other", "Garbage"},
           call_id : Nat, first : BOOLEAN, last : BOOLEAN, ok : BOOLEAN,
           ack : Acks \cup {NoAck}, call : Calls, rank : Nat]

HandshakePdus == [ptype : {"Bind", "Auth3"}, call_id : Nat,
                  trailer : BOOLEAN, token : TokenLens \cup {0}]

Fragments == [call_id : Nat, first : BOOLEAN, last : BOOLEAN, alloc_hint : Nat,
              ctx_id : Nat, from : Nat, to : Nat, frag_length : Nat]

StubParts == [call : Calls, rank : Nat, first : BOOLEAN, last : BOOLEAN]

\* Error, by variant: InvalidPdu stands for every PDU that does not decode,
\* also for an unknown PDU type or data representation.
Results == {"None", "Ok", "InvalidPdu", "BindRejected", "ContextRejected",
            "Fault", "Transport", "Auth", "Ndr", "Panic"}

Init ==
    /\ pc = "unbound" /\ result = "None"
    /\ context_id = 0 /\ call_id = 1
    /\ max_xmit_frag = DEFAULT_MAX_XMIT_FRAG /\ auth_provider = NoProvider
    /\ proposed = <<>> /\ ack = NoAck /\ accepted = 0
    /\ req_id = 0 /\ req_len = 0 /\ offset = 0
    /\ saw_first = FALSE /\ response_stub = <<>>
    /\ handshake = <<>> /\ outbound = <<>> /\ toClient = <<>>
    /\ heard = [c \in Calls |-> "nothing"]
    /\ answered = [c \in Calls |-> 0] /\ finished = {}
    /\ ncalls = 0 /\ ids = [c \in Calls |-> 0] /\ stale = FALSE

-----------------------------------------------------------------------------
(* Construction without a bind. *)

NewBound(id) ==
    /\ pc = "unbound"
    /\ pc' = "ready"
    /\ context_id' = id
    /\ UNCHANGED <<result, call_id, max_xmit_frag, auth_provider, bindLocals,
                   callLocals, handshake, outbound, toClient, heard, server, history>>

NewBoundWithAuth(id, level) ==
    /\ pc = "unbound"
    /\ pc' = "ready"
    /\ context_id' = id
    /\ auth_provider' = [level |-> level, stage |-> "new", token |-> 0]
    /\ UNCHANGED <<result, call_id, max_xmit_frag, bindLocals,
                   callLocals, handshake, outbound, toClient, heard, server, history>>

WithMaxXmitFrag(value) ==
    /\ pc = "ready"
    /\ max_xmit_frag' = value
    /\ UNCHANGED <<pc, result, context_id, call_id, auth_provider, bindLocals,
                   callLocals, handshake, outbound, toClient, heard, server, history>>

-----------------------------------------------------------------------------
(***************************************************************************)
(* bind, bind_with_contexts and bind_with_auth_provider: the steps of      *)
(* bind_with_contexts_inner.  Level "absent" is a bind without provider.   *)
(***************************************************************************)
\* Slip: one of the two unsupported levels is forgotten.
MutSupported(level) == level # "PacketIntegrity"

Supported(level) == level \notin {"PacketIntegrity", "PacketPrivacy"}

BindCallId == 1

\* A bind that fails drops the transport: nothing follows it.
BindFails(error) == pc' = "failed" /\ result' = error

\* authenticated_packet or PduPacket::new, then encode.
PacketEncodes(body_len, provider) ==
    IF provider.level = "absent" THEN Encodes(body_len)
    ELSE AuthEncodes(body_len, provider.token)

HandshakePdu(ptype, provider) ==
    [ptype |-> ptype, call_id |-> BindCallId,
     trailer |-> provider.level # "absent", token |-> provider.token]

BindUntouched == UNCHANGED <<context_id, call_id, max_xmit_frag, callLocals,
                             outbound, toClient, server, ncalls, stale>>

BindEmpty(contexts) ==
    /\ pc = "unbound"
    /\ contexts = <<>>
    /\ BindFails("InvalidPdu")
    /\ UNCHANGED <<auth_provider, bindLocals, handshake, heard, ids>>
    /\ BindUntouched

\* provider.init_context(target) fails.
BindInitFails(contexts, level) ==
    /\ pc = "unbound"
    /\ "provider" \in Faults
    /\ contexts # <<>> /\ level # "absent"
    /\ proposed' = contexts
    /\ BindFails("Auth")
    /\ UNCHANGED <<auth_provider, ack, accepted, handshake, heard, ids>>
    /\ BindUntouched

\* The provider after init_context, holding a token of the given length.
Initiated(level, token) ==
    IF level = "absent" THEN NoProvider
    ELSE [level |-> level, stage |-> "init", token |-> token]

BindBegins(contexts, level, token) ==
    /\ pc = "unbound"
    /\ contexts # <<>>
    /\ proposed' = contexts
    /\ auth_provider' = Initiated(level, token)
    /\ UNCHANGED <<ack, accepted>>
    /\ BindUntouched

BindPanics(contexts, level, token) ==
    /\ ListPanics(contexts)
    /\ BindBegins(contexts, level, token)
    /\ pc' = "panicked" /\ result' = "Panic"
    /\ UNCHANGED <<handshake, heard, ids>>

BindRefused(contexts, level, token) ==
    /\ ~ListPanics(contexts)
    /\ BindBegins(contexts, level, token)
    /\ \/ ~Supported(level) /\ BindFails("Auth")
       \/ /\ Supported(level)
          /\ ~PacketEncodes(BindBodyLen(contexts), Initiated(level, token))
          /\ BindFails("InvalidPdu")
    /\ UNCHANGED <<handshake, heard, ids>>

BindSendable(contexts, level, token) ==
    /\ ~ListPanics(contexts)
    /\ Supported(level)
    /\ PacketEncodes(BindBodyLen(contexts), Initiated(level, token))

BindSent(contexts, level, token) ==
    /\ BindSendable(contexts, level, token)
    /\ BindBegins(contexts, level, token)
    /\ pc' = "binding" /\ UNCHANGED result
    /\ handshake' = <<HandshakePdu("Bind", Initiated(level, token))>>
    /\ heard' = [heard EXCEPT ![0] = "full"]
    /\ ids' = [ids EXCEPT ![0] = BindCallId]

\* A send that fails may still have delivered: write_all ends with a flush.
BindSendFails(contexts, level, token, delivered) ==
    /\ "send" \in Faults
    /\ BindSendable(contexts, level, token)
    /\ BindBegins(contexts, level, token)
    /\ BindFails("Transport")
    /\ handshake' = IF delivered
                    THEN <<HandshakePdu("Bind", Initiated(level, token))>>
                    ELSE <<>>
    /\ UNCHANGED <<heard, ids>>

\* Slip: the first proposed context is taken for the accepted one.
MutBound(i, frag) ==
    /\ pc' = "ready" /\ result' = "Ok"
    /\ context_id' = proposed[1].context_id
    /\ call_id' = BindCallId + 1
    /\ max_xmit_frag' = frag

\* The constructor's result: the bound client.
Bound(i, frag) ==
    /\ pc' = "ready" /\ result' = "Ok"
    /\ context_id' = proposed[i].context_id
    /\ call_id' = BindCallId + 1
    /\ max_xmit_frag' = frag

NotBound == UNCHANGED <<context_id, call_id, max_xmit_frag>>

AfterBindReply == UNCHANGED <<proposed, callLocals, outbound, heard, server, history>>

\* recv_pdu fails or times out; the connection is then gone.
BindRecvFails ==
    /\ pc = "binding"
    /\ "recv" \in Faults
    /\ BindFails("Transport")
    /\ NotBound /\ AfterBindReply
    /\ UNCHANGED <<auth_provider, ack, accepted, handshake, toClient>>

ReceivesBindReply(ptype) ==
    /\ pc = "binding"
    /\ toClient # <<>>
    /\ toClient' = Tail(toClient)
    /\ Head(toClient).ptype = ptype
    /\ Head(toClient).call_id = BindCallId
    /\ Head(toClient).ok
    /\ AfterBindReply

\* Undecodable, another call id, an unreadable body or an unexpected type.
RecvBindInvalid ==
    /\ pc = "binding"
    /\ toClient # <<>>
    /\ toClient' = Tail(toClient)
    /\ LET pdu == Head(toClient)
       IN  \/ pdu.ptype \notin {"BindAck", "BindNak"}
           \/ pdu.call_id # BindCallId
           \/ ~pdu.ok
    /\ BindFails("InvalidPdu")
    /\ NotBound /\ AfterBindReply
    /\ UNCHANGED <<auth_provider, ack, accepted, handshake>>

\* Slip: a bind nak is skipped and the next PDU awaited.
MutRecvBindNak ==
    /\ ReceivesBindReply("BindNak")
    /\ NotBound
    /\ UNCHANGED <<pc, result, auth_provider, ack, accepted, handshake>>

RecvBindNak ==
    /\ ReceivesBindReply("BindNak")
    /\ BindFails("BindRejected")
    /\ NotBound
    /\ UNCHANGED <<auth_provider, ack, accepted, handshake>>

RecvBindAckRejected ==
    /\ ReceivesBindReply("BindAck")
    /\ ack' = Head(toClient).ack
    /\ \E error \in {"InvalidPdu", "ContextRejected"}, i \in 0..Len(proposed) :
          /\ AcceptedContextIs(ack'.results, Len(proposed), [outcome |-> error, index |-> i])
          /\ BindFails(error)
    /\ NotBound
    /\ UNCHANGED <<auth_provider, accepted, handshake>>

\* accepted_context(..) is Ok and selects proposed[i].
RecvBindAckAccepted(i) ==
    /\ ReceivesBindReply("BindAck")
    /\ ack' = Head(toClient).ack
    /\ accepted' = i
    /\ AcceptedContextIs(ack'.results, Len(proposed), [outcome |-> "Ok", index |-> i])
    /\ UNCHANGED handshake

Challenged == auth_provider.level # "absent" /\ Head(toClient).ack.challenge

BindAccepted(i) ==
    /\ RecvBindAckAccepted(i)
    /\ ~Challenged
    /\ Bound(i, ack'.max_xmit_frag)
    /\ UNCHANGED auth_provider

\* provider.step(challenge) fails, or answers with a token of that length.
BindStepFails(i) ==
    /\ "provider" \in Faults
    /\ RecvBindAckAccepted(i)
    /\ Challenged
    /\ BindFails("Auth")
    /\ NotBound
    /\ UNCHANGED auth_provider

\* Slip: the provider's answer to the challenge is not sent.
MutBindStep(i, token) ==
    /\ RecvBindAckAccepted(i)
    /\ Challenged
    /\ auth_provider' = [auth_provider EXCEPT !.stage = "step", !.token = token]
    /\ Bound(i, ack'.max_xmit_frag)

BindStep(i, token) ==
    /\ RecvBindAckAccepted(i)
    /\ Challenged
    /\ auth_provider' = [auth_provider EXCEPT !.stage = "step", !.token = token]
    /\ \/ token = 0 /\ Bound(i, ack'.max_xmit_frag)
       \/ token # 0 /\ pc' = "auth3" /\ UNCHANGED result /\ NotBound

AUTH3_BODY_LEN == 4

Auth3Ends == AfterBindReply /\ UNCHANGED <<auth_provider, ack, accepted, toClient>>

Auth3Refused ==
    /\ pc = "auth3"
    /\ ~PacketEncodes(AUTH3_BODY_LEN, auth_provider)
    /\ BindFails("InvalidPdu")
    /\ NotBound /\ Auth3Ends /\ UNCHANGED handshake

Auth3SendFails(delivered) ==
    /\ pc = "auth3"
    /\ "send" \in Faults
    /\ PacketEncodes(AUTH3_BODY_LEN, auth_provider)
    /\ BindFails("Transport")
    /\ handshake' = IF delivered
                    THEN Append(handshake, HandshakePdu("Auth3", auth_provider))
                    ELSE handshake
    /\ NotBound /\ Auth3Ends

Auth3Sent ==
    /\ pc = "auth3"
    /\ PacketEncodes(AUTH3_BODY_LEN, auth_provider)
    /\ handshake' = Append(handshake, HandshakePdu("Auth3", auth_provider))
    /\ Bound(accepted, ack.max_xmit_frag)
    /\ Auth3Ends

-----------------------------------------------------------------------------
(***************************************************************************)
(* call and call_raw.  An error ends the call, not the client: the caller  *)
(* may make another call on the same transport.                            *)
(***************************************************************************)
Return(value) == pc' = "ready" /\ result' = value

\* Slips: the id 0 is not skipped; the id stays at its maximum.
MutNextCallId(id) == (id + 1) % U32

MutNextCallIdSaturates(id) == IF id = MaxCallId THEN id ELSE id + 1

NextCallId(id) == LET next == (id + 1) % U32 IN IF next = 0 THEN 1 ELSE next

\* Slip: the request header is not counted.
MutHeadersLen == COMMON_HEADER_LEN

HeadersLen == COMMON_HEADER_LEN + REQUEST_HEADER_LEN

MaxStubPerFrag == max_xmit_frag - HeadersLen

\* ndr.serialize(request) fails before call_raw is entered.
SerializeFails ==
    /\ pc = "ready"
    /\ "ndr" \in Faults
    /\ Return("Ndr")
    /\ UNCHANGED <<client, bindLocals, callLocals, handshake, outbound, toClient,
                   heard, server, history>>

\* next_call_id comes first: a call refused for a small max_xmit_frag uses one.
CallStart(len) ==
    /\ pc = "ready"
    /\ ncalls < MaxCalls
    /\ ncalls' = ncalls + 1
    /\ ids' = [ids EXCEPT ![ncalls + 1] = call_id]
    /\ stale' = (toClient # <<>>)
    /\ req_id' = call_id
    /\ call_id' = NextCallId(call_id)
    /\ req_len' = len
    /\ offset' = 0 /\ saw_first' = FALSE /\ response_stub' = <<>>
    /\ outbound' = <<>>
    /\ \/ max_xmit_frag > HeadersLen /\ pc' = "sending" /\ UNCHANGED result
       \/ max_xmit_frag <= HeadersLen /\ Return("InvalidPdu")
    /\ UNCHANGED <<context_id, max_xmit_frag, auth_provider, bindLocals, handshake,
                   toClient, heard, server>>

-----------------------------------------------------------------------------
(***************************************************************************)
(* send_request_fragments: one fragment per step.  The separate branch for *)
(* an empty stub sends the same single fragment as the loop body would.    *)
(***************************************************************************)
FragmentEnd ==
    IF offset + MaxStubPerFrag < req_len THEN offset + MaxStubPerFrag ELSE req_len

\* Slip: LAST is set on a fragment that is not full.
MutRequestFragment ==
    [call_id |-> req_id, first |-> offset = 0,
     last |-> FragmentEnd - offset < MaxStubPerFrag,
     alloc_hint |-> req_len % U32, ctx_id |-> context_id,
     from |-> offset, to |-> FragmentEnd,
     frag_length |-> FragLength(RequestBodyLen(FragmentEnd - offset))]

RequestFragment ==
    [call_id |-> req_id, first |-> offset = 0, last |-> FragmentEnd = req_len,
     alloc_hint |-> req_len % U32, ctx_id |-> context_id,
     from |-> offset, to |-> FragmentEnd,
     frag_length |-> FragLength(RequestBodyLen(FragmentEnd - offset))]

Delivered(fragment) ==
    /\ outbound' = Append(outbound, fragment)
    /\ heard' = [heard EXCEPT ![ncalls] = IF fragment.last THEN "full" ELSE "part"]

SendUntouched == UNCHANGED <<client, bindLocals, req_id, req_len, saw_first,
                             response_stub, handshake, toClient, server, history>>

\* request_packet refuses the levels v1 does not support.
SendRefused ==
    /\ pc = "sending"
    /\ ~Supported(auth_provider.level)
    /\ Return("Auth")
    /\ UNCHANGED <<offset, outbound, heard>>
    /\ SendUntouched

SendFragment ==
    /\ pc = "sending"
    /\ Supported(auth_provider.level)
    /\ Delivered(RequestFragment)
    /\ offset' = FragmentEnd
    /\ pc' = IF FragmentEnd = req_len THEN "receiving" ELSE "sending"
    /\ UNCHANGED result
    /\ SendUntouched

SendFails(delivered) ==
    /\ pc = "sending"
    /\ "send" \in Faults
    /\ Supported(auth_provider.level)
    /\ IF delivered THEN Delivered(RequestFragment) ELSE UNCHANGED <<outbound, heard>>
    /\ Return("Transport")
    /\ UNCHANGED offset
    /\ SendUntouched

-----------------------------------------------------------------------------
(***************************************************************************)
(* recv_response_fragments: one recv_pdu per step.                         *)
(***************************************************************************)
RecvUntouched == UNCHANGED <<client, bindLocals, req_id, req_len, offset,
                             handshake, outbound, heard, server, history>>

Receives ==
    /\ pc = "receiving"
    /\ toClient # <<>>
    /\ toClient' = Tail(toClient)
    /\ RecvUntouched

\* recv_pdu errs or times out; what it was reading may still come, or be lost.
RecvFails(lost) ==
    /\ pc = "receiving"
    /\ "recv" \in Faults
    /\ lost => toClient # <<>>
    /\ toClient' = IF lost THEN Tail(toClient) ELSE toClient
    /\ Return("Transport")
    /\ UNCHANGED <<saw_first, response_stub>>
    /\ RecvUntouched

\* Slip: the call id is not compared.
MutAcceptable(pdu) == pdu.ptype # "Garbage" /\ Supported(auth_provider.level)

\* PduPacket::decode, verify_response_packet and the call id comparison.
Acceptable(pdu) ==
    /\ pdu.ptype # "Garbage"
    /\ Supported(auth_provider.level)
    /\ pdu.call_id = req_id

\* Slip: a response may begin with any fragment.
MutAppendable(pdu) == Acceptable(pdu) /\ pdu.ptype = "Response" /\ pdu.ok

\* A response fragment the loop appends to the stub.
Appendable(pdu) ==
    /\ Acceptable(pdu)
    /\ pdu.ptype = "Response"
    /\ pdu.first \/ saw_first
    /\ pdu.ok

\* Slip: a fault is reported before the call id is compared.
MutIsFault(pdu) == pdu.ptype = "Fault" /\ pdu.ok

IsFault(pdu) == Acceptable(pdu) /\ pdu.ptype = "Fault" /\ pdu.ok

Part(pdu) == [call |-> pdu.call, rank |-> pdu.rank, first |-> pdu.first, last |-> pdu.last]

\* Slip: the first fragment is returned as the whole response.
MutRecvMore ==
    /\ Receives
    /\ Appendable(Head(toClient))
    /\ ~Head(toClient).last
    /\ saw_first' = TRUE
    /\ response_stub' = Append(response_stub, Part(Head(toClient)))
    /\ Return("Ok")

RecvMore ==
    /\ Receives
    /\ Appendable(Head(toClient))
    /\ ~Head(toClient).last
    /\ saw_first' = TRUE
    /\ response_stub' = Append(response_stub, Part(Head(toClient)))
    /\ UNCHANGED <<pc, result>>

\* The last fragment; if the call is a typed one, its deserialize may fail.
RecvLast ==
    /\ Receives
    /\ Appendable(Head(toClient))
    /\ Head(toClient).last
    /\ saw_first' = TRUE
    /\ response_stub' = Append(response_stub, Part(Head(toClient)))
    /\ \/ Return("Ok")
       \/ "ndr" \in Faults /\ Return("Ndr")

\* Slip: a fault does not end the loop.
MutRecvFault ==
    /\ Receives
    /\ IsFault(Head(toClient))
    /\ UNCHANGED <<pc, result, saw_first, response_stub>>

RecvFault ==
    /\ Receives
    /\ IsFault(Head(toClient))
    /\ Return("Fault")
    /\ UNCHANGED <<saw_first, response_stub>>

\* The error of a PDU that is neither: verify_response_packet comes second.
Rejection(pdu) ==
    IF pdu.ptype # "Garbage" /\ ~Supported(auth_provider.level)
    THEN "Auth" ELSE "InvalidPdu"

RecvInvalid ==
    /\ Receives
    /\ ~Appendable(Head(toClient)) /\ ~IsFault(Head(toClient))
    /\ Return(Rejection(Head(toClient)))
    /\ UNCHANGED <<saw_first, response_stub>>

-----------------------------------------------------------------------------
(***************************************************************************)
(* The server and its side of the connection (external).  It answers what  *)
(* it heard, in any order and with any delay, under the call id it was     *)
(* given.  With "server" in Faults it may answer a request it heard only   *)
(* in part, send more after its answer ended, clear or set fragment flags  *)
(* at will, and send PDUs the client cannot decode.                        *)
(***************************************************************************)
Replies(c) ==
    LET Reply(ptypes, flags, oks, acks) ==
            [ptype : ptypes, first : flags, last : flags, ok : oks, ack : acks]
        Expected == IF c = 0 THEN {"BindNak"} ELSE {"Fault"}
    IN  Reply({"Response"}, BOOLEAN, {TRUE}, {NoAck})
        \cup Reply(Expected \cup {"Other", "Garbage"}, {TRUE}, {TRUE}, {NoAck})
        \cup Reply(Expected \cup {"Response", "BindAck"}, {TRUE}, {FALSE}, {NoAck})
        \cup (IF c = 0 THEN Reply({"BindAck"}, {TRUE}, {TRUE}, Acks) ELSE {})

EndsAnswer(reply) == reply.ptype # "Response" \/ reply.last

Conforms(c, reply) ==
    /\ heard[c] = "full"
    /\ c \notin finished
    /\ reply.ok
    /\ reply.ptype \in IF c = 0 THEN {"BindAck", "BindNak"} ELSE {"Response", "Fault"}
    /\ reply.ptype = "Response" =>
          /\ reply.first = (answered[c] = 0)
          /\ answered[c] + 1 = MaxPdus => reply.last

\* A faulty server may answer the bind under an id that is nobody's.
ReplyIds(c) == IF c = 0 /\ "server" \in Faults THEN {ids[c], 0} ELSE {ids[c]}

InPdu(c, reply, id) ==
    [ptype |-> reply.ptype, call_id |-> id, first |-> reply.first, last |-> reply.last,
     ok |-> reply.ok, ack |-> reply.ack, call |-> c, rank |-> answered[c] + 1]

ServerAnswer(c, reply, id) ==
    /\ heard[c] # "nothing"
    /\ answered[c] < MaxPdus
    /\ Len(toClient) < MaxQueue
    /\ "server" \in Faults \/ Conforms(c, reply)
    /\ toClient' = Append(toClient, InPdu(c, reply, id))
    /\ answered' = [answered EXCEPT ![c] = @ + 1]
    /\ finished' = IF EndsAnswer(reply) THEN finished \cup {c} ELSE finished
    /\ UNCHANGED <<pc, result, client, bindLocals, callLocals, handshake, outbound,
                   heard, history>>

-----------------------------------------------------------------------------
Construct ==
    \/ \E id \in ContextIds : NewBound(id)
    \/ \E id \in ContextIds, level \in Levels : NewBoundWithAuth(id, level)

StartBind ==
    \E contexts \in Proposals :
       \/ BindEmpty(contexts)
       \/ \E level \in Levels : BindInitFails(contexts, level)
       \/ \E level \in Levels \cup {"absent"}, token \in TokenLens :
             \/ BindPanics(contexts, level, token)
             \/ BindRefused(contexts, level, token)
             \/ BindSent(contexts, level, token)
             \/ \E delivered \in BOOLEAN : BindSendFails(contexts, level, token, delivered)

FinishBind ==
    \/ BindRecvFails
    \/ RecvBindInvalid
    \/ RecvBindNak
    \/ RecvBindAckRejected
    \/ \E i \in DOMAIN proposed :
          \/ BindAccepted(i)
          \/ BindStepFails(i)
          \/ \E token \in TokenLens : BindStep(i, token)
    \/ Auth3Refused
    \/ \E delivered \in BOOLEAN : Auth3SendFails(delivered)
    \/ Auth3Sent

StartCall ==
    \/ SerializeFails
    \/ \E len \in StubLens : CallStart(len)

FinishCall ==
    \/ SendRefused
    \/ SendFragment
    \/ \E delivered \in BOOLEAN : SendFails(delivered)
    \/ \E lost \in BOOLEAN : RecvFails(lost)
    \/ RecvMore
    \/ RecvLast
    \/ RecvFault
    \/ RecvInvalid

ServerStep ==
    \E c \in Calls : \E reply \in Replies(c), id \in ReplyIds(c) : ServerAnswer(c, reply, id)

Next ==
    \/ Construct
    \/ \E value \in XmitFrags : WithMaxXmitFrag(value)
    \/ StartBind
    \/ FinishBind
    \/ StartCall
    \/ FinishCall
    \/ ServerStep

Spec == Init /\ [][Next]_vars

\* A call in hand runs on, and the server answers what it has heard.
FairSpec == Spec /\ WF_vars(FinishBind) /\ WF_vars(FinishCall) /\ WF_vars(ServerStep)

-----------------------------------------------------------------------------
InCall == pc \in {"sending", "receiving"}

(* Every variable holds a value of its type. *)
TypeOK ==
    /\ pc \in {"unbound", "binding", "auth3", "ready", "sending", "receiving",
               "failed", "panicked"}
    /\ result \in Results
    /\ context_id \in Nat
    /\ call_id \in 1..MaxCallId
    /\ max_xmit_frag \in 0..U16_MAX
    /\ auth_provider \in Providers \cup {NoProvider}
    /\ proposed \in Proposals \cup {<<>>}
    /\ ack \in Acks \cup {NoAck}
    /\ accepted \in Nat
    /\ req_id \in 0..MaxCallId
    /\ req_len \in Nat
    /\ offset \in 0..req_len
    /\ saw_first \in BOOLEAN
    /\ response_stub \in Seq(StubParts)
    /\ handshake \in Seq(HandshakePdus)
    /\ outbound \in Seq(Fragments)
    /\ toClient \in Seq(InPdus)
    /\ heard \in [Calls -> {"nothing", "part", "full"}]
    /\ answered \in [Calls -> 0..MaxPdus]
    /\ finished \subseteq Calls
    /\ ncalls \in Calls
    /\ ids \in [Calls -> 0..MaxCallId]
    /\ stale \in BOOLEAN

(***************************************************************************)
(* The strengthening that makes TypeOK inductive: an Auth3 is sent for a   *)
(* context that was proposed, a request only within a usable fragment size.*)
(***************************************************************************)
TypeInvariant ==
    /\ TypeOK
    /\ pc = "auth3" => accepted \in DOMAIN proposed
    /\ InCall => max_xmit_frag > HeadersLen

(***************************************************************************)
(* next_call_id and the call id check of recv_response_fragments keep      *)
(* calls apart: whatever was left in the transport by calls that failed or *)
(* timed out, no fragment of another call's answer enters this call's      *)
(* stub, unless all call ids have been used since that other call.         *)
(***************************************************************************)
CallIdSeparation ==
    \A i \in DOMAIN response_stub :
       \/ response_stub[i].call = ncalls
       \/ ncalls - response_stub[i].call >= MaxCallId

(***************************************************************************)
(* Why: calls are numbered in a cycle of MaxCallId ids, so the next id is  *)
(* `ncalls + 1 - c` places after that of an earlier call c, and what waits *)
(* in the transport names the call it answers.  Together with the type     *)
(* invariant these make CallIdSeparation inductive.                        *)
(***************************************************************************)
IsBound == pc \in {"ready", "sending", "receiving"}

Issued(c) == IF c = 0 THEN ids[0] # 0 ELSE c <= ncalls

IdsIssued ==
    /\ \A c \in Calls : Issued(c) => ids[c] # 0
    /\ \A c \in Calls : heard[c] # "nothing" => Issued(c)
    /\ ~IsBound => ncalls = 0
    /\ pc = "unbound" => ids[0] = 0
    /\ pc \in {"binding", "auth3"} => ids[0] = BindCallId
    /\ InCall => ncalls # 0 /\ req_id = ids[ncalls]

IdWindow ==
    IsBound =>
       \A c \in Calls :
          Issued(c) /\ ncalls + 1 - c <= MaxCallId =>
             LET next == ids[c] + (ncalls + 1 - c)
             IN  call_id = IF next <= MaxCallId THEN next ELSE next - MaxCallId

QueueIds ==
    \A i \in DOMAIN toClient :
       /\ Issued(toClient[i].call)
       /\ toClient[i].call_id \in {ids[toClient[i].call], 0}

IdInvariant == IdsIssued /\ IdWindow /\ QueueIds /\ CallIdSeparation

\* The last API call was a call (not a bind) and has returned `value`.
Returned(value) == pc = "ready" /\ ncalls > 0 /\ result = value

(***************************************************************************)
(* A stub that call_raw returns is the server's answer to this very call,  *)
(* whole and in order: it begins with the first PDU the server sent for    *)
(* it, skips none, carries FIRST on the first and LAST on the last only.   *)
(* (Until the call ids have all been used once.)                           *)
(***************************************************************************)
OkIsWholeAnswer ==
    Returned("Ok") /\ ncalls < MaxCallId =>
       /\ response_stub # <<>>
       /\ response_stub[1].first
       /\ \A i \in DOMAIN response_stub :
             /\ response_stub[i].call = ncalls
             /\ response_stub[i].rank = i
             /\ response_stub[i].last = (i = Len(response_stub))

(***************************************************************************)
(* A call that finds PDUs of earlier calls waiting in the transport fails: *)
(* it returns neither their data nor their fault.                          *)
(***************************************************************************)
StaleCallFails ==
    stale /\ ncalls < MaxCallId =>
       /\ response_stub = <<>>
       /\ ~Returned("Ok") /\ ~Returned("Fault")

(***************************************************************************)
(* A fault reported by call_raw is one the server sent for this call, and  *)
(* only after the whole request had been sent.                             *)
(***************************************************************************)
FaultIsOurs ==
    Returned("Fault") /\ ncalls < MaxCallId =>
       ncalls \in finished /\ heard[ncalls] = "full"

(***************************************************************************)
(* send_request_fragments cuts the stub into consecutive pieces: nothing   *)
(* is skipped or sent twice, FIRST is on the first piece and LAST on the   *)
(* last one only, and the client waits for an answer only after LAST.      *)
(***************************************************************************)
RequestTiles ==
    InCall =>
       /\ \A i \in DOMAIN outbound :
             /\ outbound[i].call_id = req_id
             /\ outbound[i].from = IF i = 1 THEN 0 ELSE outbound[i - 1].to
             /\ outbound[i].first = (i = 1)
             /\ outbound[i].last = (outbound[i].to = req_len)
             /\ outbound[i].from < outbound[i].to \/ req_len = 0
       /\ offset = IF outbound = <<>> THEN 0 ELSE outbound[Len(outbound)].to
       /\ pc = "receiving" => outbound # <<>> /\ offset = req_len
       /\ pc = "sending" => outbound = <<>> \/ offset < req_len

(***************************************************************************)
(* No request fragment is longer than the negotiated max_xmit_frag, so     *)
(* PduPacket::encode and the u16 header arithmetic before it never         *)
(* overflow, whatever value the server's bind ack or the caller chose.     *)
(***************************************************************************)
FragmentsFit ==
    InCall => \A i \in DOMAIN outbound : outbound[i].frag_length <= max_xmit_frag

(***************************************************************************)
(* docs/authentication.md: unsupported levels "fail explicitly before      *)
(* sending invalid or unverifiable wire data": with such a provider        *)
(* neither a bind nor a request is ever sent.                              *)
(***************************************************************************)
UnsupportedNeverSends ==
    auth_provider.level \in {"PacketIntegrity", "PacketPrivacy"} =>
       handshake = <<>> /\ outbound = <<>>

(***************************************************************************)
(* Every request of a client made by a bind names the first presentation   *)
(* context the server accepted, also after other results preceded it and   *)
(* after an Auth3 was sent in between.                                     *)
(***************************************************************************)
RequestsUseAcceptedContext ==
    handshake # <<>> /\ outbound # <<>> =>
       \E i \in DOMAIN proposed :
          /\ IsFirst(i, Accepted(ack.results))
          /\ \A k \in DOMAIN outbound : outbound[k].ctx_id = proposed[i].context_id

(***************************************************************************)
(* A client that a bind returned has shown the server its whole handshake: *)
(* the Bind, with a trailer exactly when there is a provider, and then the *)
(* Auth3 with the provider's token exactly when the server sent a          *)
(* challenge and the provider answered it with a token.                    *)
(***************************************************************************)
HandshakeComplete ==
    pc \in {"ready", "sending", "receiving"} /\ handshake # <<>> =>
       /\ \A i \in DOMAIN handshake : handshake[i].call_id = BindCallId
       /\ handshake[1].ptype = "Bind"
       /\ handshake[1].trailer = (auth_provider # NoProvider)
       /\ auth_provider.stage = "step" <=> auth_provider # NoProvider /\ ack.challenge
       /\ IF auth_provider.stage = "step" /\ auth_provider.token # 0
          THEN Len(handshake) = 2 /\ handshake[2] = HandshakePdu("Auth3", auth_provider)
          ELSE Len(handshake) = 1

(***************************************************************************)
(* Over a transport and to a server that keep the protocol, client and     *)
(* server stay in step: between calls nothing is in flight, and every call *)
(* that was sent has returned the server's answer.                         *)
(***************************************************************************)
InStep ==
    Faults = {} /\ pc = "ready" =>
       /\ toClient = <<>>
       /\ outbound # <<>> => Returned("Ok") \/ Returned("Fault")
       /\ \A c \in Calls : heard[c] = "nothing" \/ c \in finished

(***************************************************************************)
(* No bind brings the program down.  PresentationContextList::encode says  *)
(* "presentation context count was prevalidated" of the value it unwraps.  *)
(***************************************************************************)
NoPanic == pc # "panicked"

(***************************************************************************)
(* A bind ends when the server answers it, with a client or an error.      *)
(***************************************************************************)
BindReturns == pc \in {"binding", "auth3"} ~> pc \in {"ready", "failed"}

(***************************************************************************)
(* A call ends when the server answers it: recv_response_fragments leaves  *)
(* its loop whatever the number of fragments on either side.               *)
(***************************************************************************)
CallReturns == InCall ~> pc = "ready"
=============================================================================
