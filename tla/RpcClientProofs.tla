-------------------------- MODULE RpcClientProofs --------------------------
(***************************************************************************)
(* Theorems about RpcClient for every value of its constants.              *)
(***************************************************************************)
EXTENDS RpcClient, TLAPS

(***************************************************************************)
(* next_call_id stays within 1..MaxCallId: it never yields 0, and after    *)
(* the last id comes 1.                                                    *)
(***************************************************************************)
LEMMA NextCallIdIs ==
  ASSUME NEW id \in 1..MaxCallId
  PROVE  NextCallId(id) = IF id = MaxCallId THEN 1 ELSE id + 1
<1>1. U32 \in Nat \ 0..2
  BY BoundsAssumption
<1>2. CASE id = MaxCallId
  BY <1>1, <1>2 DEF NextCallId, MaxCallId
<1>3. CASE id # MaxCallId
  <2>1. id + 1 \in 0..(U32 - 1)
    BY <1>1, <1>3 DEF MaxCallId
  <2>2. (id + 1) % U32 = id + 1
    BY <1>1, <2>1
  <2> QED
    BY <1>3, <2>2 DEF NextCallId
<1> QED
  BY <1>2, <1>3

(***************************************************************************)
(* A call id is never zero and stays within u32.                           *)
(***************************************************************************)
LEMMA NextCallIdType ==
  ASSUME NEW id \in 1..MaxCallId
  PROVE  NextCallId(id) \in 1..MaxCallId
<1>1. MaxCallId \in Nat /\ MaxCallId >= 2
  BY BoundsAssumption DEF MaxCallId
<1> QED
  BY <1>1, NextCallIdIs

-----------------------------------------------------------------------------
(* Types of the values the actions build. *)

(***************************************************************************)
(* A proposed context carries a context id.                                *)
(***************************************************************************)
LEMMA ContextType ==
  ASSUME TypeOK, NEW i \in DOMAIN proposed
  PROVE  proposed[i].context_id \in Nat
<1>1. proposed \in Seq(Contexts)
  BY ListsAssumption DEF TypeOK
<1>2. proposed[i] \in Contexts
  BY <1>1
<1> QED
  BY <1>2 DEF Contexts

(***************************************************************************)
(* The fragment size of a bind ack is a u16.                               *)
(***************************************************************************)
LEMMA AckType ==
  ASSUME NEW a \in Acks \cup {NoAck}
  PROVE  a.max_xmit_frag \in 0..U16_MAX
<1>1. CASE a = NoAck
  BY <1>1 DEF NoAck, U16_MAX
<1>2. CASE a \in Acks
  <2>1. a.max_xmit_frag \in XmitFrags
    BY <1>2 DEF Acks
  <2> QED
    BY <2>1, SizesAssumption
<1> QED
  BY <1>1, <1>2

(***************************************************************************)
(* A waiting PDU has the fields the client looks at.                       *)
(***************************************************************************)
LEMMA HeadType ==
  ASSUME TypeOK, toClient # <<>>
  PROVE  /\ Head(toClient) \in InPdus
         /\ Tail(toClient) \in Seq(InPdus)
         /\ Head(toClient).ack \in Acks \cup {NoAck}
         /\ Part(Head(toClient)) \in StubParts
<1>1. toClient \in Seq(InPdus)
  BY DEF TypeOK
<1>2. Head(toClient) \in InPdus /\ Tail(toClient) \in Seq(InPdus)
  BY <1>1
<1>3. Head(toClient).ack \in Acks \cup {NoAck} /\ Part(Head(toClient)) \in StubParts
  BY <1>2 DEF InPdus, Part, StubParts
<1> QED
  BY <1>2, <1>3

(***************************************************************************)
(* init_context and step leave a provider, with the token they produced.   *)
(***************************************************************************)
LEMMA ProviderType ==
  /\ \A level \in Levels \cup {"absent"}, token \in TokenLens :
        Initiated(level, token) \in Providers \cup {NoProvider}
  /\ \A p \in Providers \cup {NoProvider}, token \in TokenLens :
        p # NoProvider =>
          [p EXCEPT !.stage = "step", !.token = token] \in Providers
  /\ \A p \in Providers \cup {NoProvider} :
        /\ p.level = "absent" <=> p = NoProvider
        /\ p.token \in TokenLens \cup {0}
<1>1. \A level \in Levels \cup {"absent"}, token \in TokenLens :
        Initiated(level, token) \in Providers \cup {NoProvider}
  BY DEF Initiated, Providers
<1>2. \A p \in Providers, token \in TokenLens :
          [p EXCEPT !.stage = "step", !.token = token] \in Providers
  BY DEF Providers
<1>3. \A p \in Providers : p.level # "absent" /\ p.token \in TokenLens \cup {0}
  BY LevelsAssumption DEF Providers
<1>4. NoProvider.level = "absent" /\ NoProvider.token = 0
  BY DEF NoProvider
<1> QED
  BY <1>1, <1>2, <1>3, <1>4

(***************************************************************************)
(* The Bind and Auth3 PDUs are handshake PDUs.                             *)
(***************************************************************************)
LEMMA HandshakeType ==
  ASSUME NEW p \in Providers \cup {NoProvider}, NEW ptype \in {"Bind", "Auth3"}
  PROVE  HandshakePdu(ptype, p) \in HandshakePdus
  BY ProviderType DEF HandshakePdu, HandshakePdus, BindCallId

(***************************************************************************)
(* The piece that is sent next: it lies in the stub after what was sent,   *)
(* advances unless the stub is empty, and fits max_xmit_frag.              *)
(***************************************************************************)
LEMMA FragmentType ==
  ASSUME TypeInvariant, pc = "sending"
  PROVE  /\ FragmentEnd \in offset..req_len
         /\ offset < req_len => offset < FragmentEnd
         /\ RequestFragment.frag_length <= max_xmit_frag
         /\ RequestFragment \in Fragments
<1>1. /\ max_xmit_frag \in Nat /\ max_xmit_frag > HeadersLen
      /\ req_len \in Nat /\ offset \in 0..req_len
      /\ HeadersLen = 24 /\ U32 \in Nat \ {0}
  <2>1. max_xmit_frag \in 0..U16_MAX /\ req_len \in Nat /\ offset \in 0..req_len
    BY DEF TypeInvariant, TypeOK
  <2>2. max_xmit_frag > HeadersLen
    BY DEF TypeInvariant, InCall
  <2>3. HeadersLen = 24
    BY DEF HeadersLen, COMMON_HEADER_LEN, REQUEST_HEADER_LEN
  <2>4. U16_MAX \in Nat
    BY DEF U16_MAX
  <2>5. max_xmit_frag \in Nat
    BY <2>1, <2>4
  <2>6. U32 \in Nat \ {0}
    BY BoundsAssumption
  <2> QED
    BY <2>1, <2>2, <2>3, <2>5, <2>6
<1>2. FragmentEnd \in offset..req_len /\ (offset < req_len => offset < FragmentEnd)
      /\ FragmentEnd - offset <= max_xmit_frag - 24
  BY <1>1 DEF FragmentEnd, MaxStubPerFrag
<1>3. /\ FragLength(RequestBodyLen(FragmentEnd - offset)) \in Nat
      /\ FragLength(RequestBodyLen(FragmentEnd - offset)) <= max_xmit_frag
  BY <1>1, <1>2 DEF FragLength, RequestBodyLen, COMMON_HEADER_LEN, REQUEST_HEADER_LEN
<1>4. req_len % U32 \in Nat
  BY <1>1
<1>5. req_id \in Nat /\ context_id \in Nat
  BY BoundsAssumption DEF TypeInvariant, TypeOK, MaxCallId
<1>6. RequestFragment \in Fragments
  BY <1>1, <1>2, <1>3, <1>4, <1>5 DEF RequestFragment, Fragments
<1> QED
  BY <1>2, <1>3, <1>6 DEF RequestFragment

(***************************************************************************)
(* What the server sends is a PDU.                                         *)
(***************************************************************************)
LEMMA InPduType ==
  ASSUME TypeOK, NEW c \in Calls, NEW reply \in Replies(c), NEW id \in ReplyIds(c)
  PROVE  InPdu(c, reply, id) \in InPdus
<1>1. answered[c] \in Nat /\ id \in Nat
  BY BoundsAssumption DEF TypeOK, ReplyIds, MaxCallId
<1>2. /\ reply.ptype \in {"Response", "Fault", "BindAck", "BindNak", "Other", "Garbage"}
      /\ reply.first \in BOOLEAN /\ reply.last \in BOOLEAN /\ reply.ok \in BOOLEAN
      /\ reply.ack \in Acks \cup {NoAck}
  BY DEF Replies
<1> QED
  BY <1>1, <1>2 DEF InPdu, InPdus

-----------------------------------------------------------------------------
(* One lemma per group of actions: each preserves TypeInvariant. *)

(***************************************************************************)
(* The constructors of a bound client, and with_max_xmit_frag.             *)
(***************************************************************************)
LEMMA ConstructTyped ==
  ASSUME TypeInvariant, Construct \/ \E value \in XmitFrags : WithMaxXmitFrag(value)
  PROVE  TypeInvariant'
<1> USE DEF TypeInvariant, TypeOK, InCall, client, bindLocals, callLocals, server, history
<1>1. CASE \E id \in ContextIds : NewBound(id)
  BY <1>1, SizesAssumption DEF NewBound
<1>2. CASE \E id \in ContextIds, level \in Levels : NewBoundWithAuth(id, level)
  <2>1. PICK id \in ContextIds, level \in Levels : NewBoundWithAuth(id, level)
    BY <1>2
  <2>2. [level |-> level, stage |-> "new", token |-> 0] \in Providers
    BY DEF Providers
  <2> QED
    BY <2>1, <2>2, SizesAssumption DEF NewBoundWithAuth
<1>3. CASE \E value \in XmitFrags : WithMaxXmitFrag(value)
  BY <1>3, SizesAssumption DEF WithMaxXmitFrag
<1> QED
  BY <1>1, <1>2, <1>3 DEF Construct

(***************************************************************************)
(* The first half of bind_with_contexts_inner, up to the Bind PDU.         *)
(***************************************************************************)
LEMMA StartBindTyped ==
  ASSUME TypeInvariant, StartBind
  PROVE  TypeInvariant'
<1> USE DEF TypeInvariant, TypeOK, InCall, BindUntouched, BindFails, Results,
            client, bindLocals, callLocals, server, history
<1>1. PICK contexts \in Proposals :
         \/ BindEmpty(contexts)
         \/ \E level \in Levels : BindInitFails(contexts, level)
         \/ \E level \in Levels \cup {"absent"}, token \in TokenLens :
               \/ BindPanics(contexts, level, token)
               \/ BindRefused(contexts, level, token)
               \/ BindSent(contexts, level, token)
               \/ \E delivered \in BOOLEAN : BindSendFails(contexts, level, token, delivered)
  BY DEF StartBind
<1>2. CASE BindEmpty(contexts)
  BY <1>2 DEF BindEmpty
<1>3. CASE \E level \in Levels : BindInitFails(contexts, level)
  BY <1>3 DEF BindInitFails
<1>4. ASSUME NEW level \in Levels \cup {"absent"}, NEW token \in TokenLens,
             \/ BindPanics(contexts, level, token)
             \/ BindRefused(contexts, level, token)
             \/ BindSent(contexts, level, token)
             \/ \E delivered \in BOOLEAN : BindSendFails(contexts, level, token, delivered)
      PROVE  TypeInvariant'
  <2>1. Initiated(level, token) \in Providers \cup {NoProvider}
    BY ProviderType
  <2>2. <<HandshakePdu("Bind", Initiated(level, token))>> \in Seq(HandshakePdus)
    BY <2>1, HandshakeType
  <2>3. BindCallId \in 0..MaxCallId /\ 0 \in Calls
    BY BoundsAssumption DEF BindCallId, MaxCallId, Calls
  <2> USE DEF BindBegins
  <2>4. CASE BindPanics(contexts, level, token)
    BY <2>1, <2>4 DEF BindPanics
  <2>5. CASE BindRefused(contexts, level, token)
    BY <2>1, <2>5 DEF BindRefused
  <2>6. CASE BindSent(contexts, level, token)
    BY <2>1, <2>2, <2>3, <2>6 DEF BindSent
  <2>7. CASE \E delivered \in BOOLEAN : BindSendFails(contexts, level, token, delivered)
    BY <2>1, <2>2, <2>7 DEF BindSendFails
  <2> QED
    BY <1>4, <2>4, <2>5, <2>6, <2>7
<1> QED
  BY <1>1, <1>2, <1>3, <1>4

(***************************************************************************)
(* The second half of bind_with_contexts_inner, from its recv_pdu on.      *)
(***************************************************************************)
LEMMA FinishBindTyped ==
  ASSUME TypeInvariant, FinishBind
  PROVE  TypeInvariant'
<1> USE DEF TypeInvariant, TypeOK, InCall, BindFails, Results, NotBound, AfterBindReply,
            client, bindLocals, callLocals, server, history
<1>1. CASE BindRecvFails
  BY <1>1 DEF BindRecvFails
<1>2. CASE RecvBindInvalid
  BY <1>2, HeadType DEF RecvBindInvalid
<1>3. CASE RecvBindNak
  BY <1>3, HeadType DEF RecvBindNak, ReceivesBindReply
<1>4. CASE RecvBindAckRejected
  BY <1>4, HeadType DEF RecvBindAckRejected, ReceivesBindReply
<1>5. ASSUME NEW i \in DOMAIN proposed,
             \/ BindAccepted(i)
             \/ BindStepFails(i)
             \/ \E token \in TokenLens : BindStep(i, token)
      PROVE  TypeInvariant'
  <2>1. RecvBindAckAccepted(i)
    BY <1>5 DEF BindAccepted, BindStepFails, BindStep
  <2>2. /\ toClient' \in Seq(InPdus) /\ ack' \in Acks \cup {NoAck}
        /\ accepted' = i /\ i \in Nat /\ proposed' = proposed
    <3>1. i \in Nat
      BY ListsAssumption
    <3> QED
      BY <2>1, <3>1, HeadType DEF RecvBindAckAccepted, ReceivesBindReply
  <2>3. ack'.max_xmit_frag \in 0..U16_MAX
    BY <2>2, AckType
  <2>4. proposed[i].context_id \in Nat /\ BindCallId + 1 \in 1..MaxCallId
    <3>1. BindCallId + 1 \in 1..MaxCallId
      BY BoundsAssumption DEF BindCallId, MaxCallId
    <3>2. proposed[i].context_id \in Nat
      BY ContextType
    <3> QED
      BY <3>1, <3>2
  <2> USE DEF RecvBindAckAccepted, ReceivesBindReply, Bound
  <2>5. CASE BindAccepted(i)
    BY <2>2, <2>3, <2>4, <2>5 DEF BindAccepted
  <2>6. CASE BindStepFails(i)
    BY <2>2, <2>6 DEF BindStepFails
  <2>7. CASE \E token \in TokenLens : BindStep(i, token)
    <3>1. PICK token \in TokenLens : BindStep(i, token)
      BY <2>7
    <3>2. auth_provider' \in Providers \cup {NoProvider}
      BY <3>1, ProviderType DEF BindStep, Challenged
    <3> QED
      BY <2>2, <2>3, <2>4, <3>1, <3>2 DEF BindStep
  <2> QED
    BY <1>5, <2>5, <2>6, <2>7
<1>6. CASE Auth3Refused
  BY <1>6 DEF Auth3Refused, Auth3Ends
<1>7. handshake \in Seq(HandshakePdus)
      /\ Append(handshake, HandshakePdu("Auth3", auth_provider)) \in Seq(HandshakePdus)
  BY HandshakeType
<1>8. CASE \E delivered \in BOOLEAN : Auth3SendFails(delivered)
  BY <1>7, <1>8 DEF Auth3SendFails, Auth3Ends
<1>9. CASE Auth3Sent
  <2>1. accepted \in DOMAIN proposed
    BY <1>9 DEF Auth3Sent
  <2>2. proposed[accepted].context_id \in Nat /\ BindCallId + 1 \in 1..MaxCallId
    BY <2>1, ContextType, BoundsAssumption DEF BindCallId, MaxCallId
  <2>3. ack.max_xmit_frag \in 0..U16_MAX
    BY AckType
  <2> QED
    BY <1>7, <1>9, <2>2, <2>3 DEF Auth3Sent, Auth3Ends, Bound
<1> QED
  BY <1>1, <1>2, <1>3, <1>4, <1>5, <1>6, <1>8, <1>9 DEF FinishBind

(***************************************************************************)
(* The entry of call and call_raw.                                         *)
(***************************************************************************)
LEMMA StartCallTyped ==
  ASSUME TypeInvariant, StartCall
  PROVE  TypeInvariant'
<1> USE DEF TypeInvariant, TypeOK, InCall, Return, Results,
            client, bindLocals, callLocals, server, history
<1>1. CASE SerializeFails
  BY <1>1 DEF SerializeFails
<1>2. ASSUME NEW len \in StubLens, CallStart(len)
      PROVE  TypeInvariant'
  <2> USE <1>2 DEF CallStart
  <2>1. ncalls + 1 \in Calls /\ call_id \in 0..MaxCallId
    BY BoundsAssumption DEF Calls, MaxCallId
  <2>2. NextCallId(call_id) \in 1..MaxCallId
    BY NextCallIdType
  <2>3. len \in Nat
    BY SizesAssumption
  <2>4. stale' \in BOOLEAN
    OBVIOUS
  <2>5. <<>> \in Seq(StubParts) /\ <<>> \in Seq(Fragments)
    OBVIOUS
  <2>6. /\ ids' \in [Calls -> 0..MaxCallId] /\ ncalls' \in Calls
        /\ call_id' \in 1..MaxCallId /\ req_id' \in 0..MaxCallId
    BY <2>1, <2>2
  <2>7. req_len' \in Nat /\ offset' \in 0..req_len'
    BY <2>3
  <2>8. /\ pc' \in {"ready", "sending"} /\ result' \in Results
        /\ pc' = "sending" => max_xmit_frag' > HeadersLen
    OBVIOUS
  <2>9. saw_first' \in BOOLEAN
    OBVIOUS
  <2> QED
    BY <2>4, <2>5, <2>6, <2>7, <2>8, <2>9
<1> QED
  BY <1>1, <1>2 DEF StartCall

(***************************************************************************)
(* send_request_fragments and recv_response_fragments.                     *)
(***************************************************************************)
LEMMA FinishCallTyped ==
  ASSUME TypeInvariant, FinishCall
  PROVE  TypeInvariant'
<1> USE DEF TypeInvariant, TypeOK, InCall, Return, Results,
            client, bindLocals, callLocals, server, history
<1>1. CASE SendRefused
  BY <1>1 DEF SendRefused, SendUntouched
<1>2. ASSUME Delivered(RequestFragment), pc = "sending"
      PROVE  /\ outbound' \in Seq(Fragments)
             /\ heard' \in [Calls -> {"nothing", "part", "full"}]
  <2>1. RequestFragment \in Fragments
    BY <1>2, FragmentType
  <2> QED
    BY <1>2, <2>1 DEF Delivered
<1>3. CASE SendFragment
  <2>1. FragmentEnd \in 0..req_len
    BY <1>3, FragmentType DEF SendFragment
  <2>2. max_xmit_frag > HeadersLen
    BY <1>3 DEF SendFragment
  <2> QED
    BY <1>2, <1>3, <2>1, <2>2 DEF SendFragment, SendUntouched
<1>4. CASE \E delivered \in BOOLEAN : SendFails(delivered)
  BY <1>2, <1>4 DEF SendFails, SendUntouched
<1>5. CASE \E lost \in BOOLEAN : RecvFails(lost)
  BY <1>5, HeadType DEF RecvFails, RecvUntouched
<1> USE DEF Receives, RecvUntouched
<1>6. CASE RecvMore \/ RecvLast
  <2>1. toClient # <<>> /\ saw_first' = TRUE
        /\ response_stub' = Append(response_stub, Part(Head(toClient)))
    BY <1>6 DEF RecvMore, RecvLast
  <2>2. response_stub' \in Seq(StubParts)
    BY <2>1, HeadType
  <2> QED
    BY <1>6, <2>1, <2>2, HeadType DEF RecvMore, RecvLast
<1>7. CASE RecvFault
  BY <1>7, HeadType DEF RecvFault
<1>8. CASE RecvInvalid
  BY <1>8, HeadType DEF RecvInvalid, Rejection
<1> QED
  BY <1>1, <1>3, <1>4, <1>5, <1>6, <1>7, <1>8 DEF FinishCall

(***************************************************************************)
(* The server's answers.                                                   *)
(***************************************************************************)
LEMMA ServerTyped ==
  ASSUME TypeInvariant, ServerStep
  PROVE  TypeInvariant'
<1> USE DEF TypeInvariant, TypeOK, InCall,
            client, bindLocals, callLocals, server, history
<1>1. PICK c \in Calls : \E reply \in Replies(c), id \in ReplyIds(c) : ServerAnswer(c, reply, id)
  BY DEF ServerStep
<1>2. PICK reply \in Replies(c), id \in ReplyIds(c) : ServerAnswer(c, reply, id)
  BY <1>1
<1>3. toClient' \in Seq(InPdus)
  BY <1>2, InPduType DEF ServerAnswer
<1>4. answered' \in [Calls -> 0..MaxPdus]
  <2>1. answered[c] \in 0..MaxPdus /\ answered[c] < MaxPdus /\ MaxPdus \in Nat
    BY <1>2, BoundsAssumption DEF ServerAnswer
  <2>2. answered[c] + 1 \in 0..MaxPdus
    BY ONLY <2>1
  <2> QED
    BY <1>2, <2>2 DEF ServerAnswer
<1> QED
  BY <1>2, <1>3, <1>4 DEF ServerAnswer

(***************************************************************************)
(* Every variable keeps its type, in every run of the client: call ids     *)
(* stay within u32 and off zero, offsets within the request stub, and an   *)
(* Auth3 is only sent for a proposed context.                              *)
(***************************************************************************)
THEOREM TypeCorrect == Spec => []TypeInvariant
<1>1. Init => TypeInvariant
  <2> SUFFICES ASSUME Init PROVE TypeInvariant
    OBVIOUS
  <2> USE DEF Init
  <2>1. call_id \in 1..MaxCallId /\ 0 \in 0..MaxCallId /\ 0 \in 0..MaxPdus /\ ncalls \in Calls
    BY BoundsAssumption DEF MaxCallId, Calls
  <2>2. saw_first \in BOOLEAN /\ stale \in BOOLEAN
    OBVIOUS
  <2>3. max_xmit_frag \in 0..U16_MAX
    BY DEF U16_MAX, DEFAULT_MAX_XMIT_FRAG
  <2>4. /\ response_stub \in Seq(StubParts) /\ handshake \in Seq(HandshakePdus)
        /\ outbound \in Seq(Fragments) /\ toClient \in Seq(InPdus)
    OBVIOUS
  <2> QED
    BY <2>1, <2>2, <2>3, <2>4 DEF TypeInvariant, TypeOK, InCall, Results
<1>2. TypeInvariant /\ [Next]_vars => TypeInvariant'
  <2> SUFFICES ASSUME TypeInvariant, [Next]_vars PROVE TypeInvariant'
    OBVIOUS
  <2>1. CASE UNCHANGED vars
    BY <2>1 DEF vars, TypeInvariant, TypeOK, InCall,
                client, bindLocals, callLocals, server, history
  <2> QED
    BY <2>1, ConstructTyped, StartBindTyped, FinishBindTyped, StartCallTyped,
       FinishCallTyped, ServerTyped DEF Next
<1> QED
  BY <1>1, <1>2, PTL DEF Spec

-----------------------------------------------------------------------------
(* What the client sends. *)

(***************************************************************************)
(* The fragments of the request in hand tile its stub, and each one fits.  *)
(***************************************************************************)
RequestInvariant == RequestTiles /\ FragmentsFit

(***************************************************************************)
(* A step that keeps the fields of the request in hand, or ends it, keeps  *)
(* what is known of its fragments.                                         *)
(***************************************************************************)
LEMMA RequestFrame ==
  ASSUME RequestInvariant,
         InCall' => /\ pc' = pc
                    /\ UNCHANGED <<req_id, req_len, offset, outbound, max_xmit_frag>>
  PROVE  RequestInvariant'
BY DEF RequestInvariant, RequestTiles, FragmentsFit, InCall

(***************************************************************************)
(* A call begins with nothing sent.                                        *)
(***************************************************************************)
LEMMA CallStartTiles ==
  ASSUME NEW len, CallStart(len)
  PROVE  RequestInvariant'
<1>1. outbound' = <<>> /\ offset' = 0 /\ pc' \in {"sending", "ready"}
  BY DEF CallStart, Return
<1>2. DOMAIN outbound' = {}
  BY <1>1
<1> QED
  BY <1>1, <1>2 DEF RequestInvariant, RequestTiles, FragmentsFit, InCall

(***************************************************************************)
(* The fragment sent next begins where the one before it ended.            *)
(***************************************************************************)
LEMMA SendFragmentTiles ==
  ASSUME TypeInvariant, RequestInvariant, SendFragment
  PROVE  RequestInvariant'
<1> DEFINE n == Len(outbound)
           f == RequestFragment
<1>1. /\ pc = "sending" /\ InCall
      /\ outbound' = Append(outbound, f)
      /\ offset' = FragmentEnd
      /\ pc' = IF FragmentEnd = req_len THEN "receiving" ELSE "sending"
      /\ UNCHANGED <<req_id, req_len, max_xmit_frag>>
  BY DEF SendFragment, Delivered, SendUntouched, client, InCall
<1>2. /\ FragmentEnd \in offset..req_len
      /\ offset < req_len => offset < FragmentEnd
      /\ f.frag_length <= max_xmit_frag
      /\ f \in Fragments
  BY <1>1, FragmentType
<1>3. /\ f.call_id = req_id /\ f.first = (offset = 0) /\ f.last = (FragmentEnd = req_len)
      /\ f.from = offset /\ f.to = FragmentEnd
  BY DEF RequestFragment
<1>4. /\ outbound \in Seq(Fragments) /\ n \in Nat
      /\ req_len \in Nat /\ offset \in 0..req_len
  BY DEF TypeInvariant, TypeOK
<1>5. /\ DOMAIN outbound' = 1..(n + 1) /\ Len(outbound') = n + 1
      /\ DOMAIN outbound = 1..n
      /\ \A i \in 1..n : outbound'[i] = outbound[i]
      /\ outbound'[n + 1] = f
  BY <1>1, <1>2, <1>4
<1> HIDE DEF f, n
<1>6. /\ \A i \in 1..n :
            /\ outbound[i].call_id = req_id
            /\ outbound[i].from = IF i = 1 THEN 0 ELSE outbound[i - 1].to
            /\ outbound[i].first = (i = 1)
            /\ outbound[i].last = (outbound[i].to = req_len)
            /\ outbound[i].from < outbound[i].to \/ req_len = 0
      /\ offset = IF n = 0 THEN 0 ELSE outbound[n].to
      /\ n = 0 \/ offset < req_len
      /\ \A i \in 1..n : outbound[i].frag_length <= max_xmit_frag
  <2>1. outbound = <<>> <=> n = 0
    BY <1>4 DEF n
  <2>2. RequestTiles /\ FragmentsFit
    BY DEF RequestInvariant
  <2>3. \A i \in 1..n : outbound[i].frag_length <= max_xmit_frag
    BY <1>1, <1>5, <2>2 DEF FragmentsFit
  <2>4. /\ offset = IF n = 0 THEN 0 ELSE outbound[n].to
        /\ n = 0 \/ offset < req_len
    BY <1>1, <2>1, <2>2 DEF RequestTiles, n
  <2>5. \A i \in 1..n :
           /\ outbound[i].call_id = req_id
           /\ outbound[i].from = IF i = 1 THEN 0 ELSE outbound[i - 1].to
           /\ outbound[i].first = (i = 1)
           /\ outbound[i].last = (outbound[i].to = req_len)
           /\ outbound[i].from < outbound[i].to \/ req_len = 0
    BY <1>1, <1>5, <2>2 DEF RequestTiles
  <2> QED
    BY <2>3, <2>4, <2>5
<1>7. n # 0 => offset > 0
  <2>1. ASSUME n # 0 PROVE outbound[n].from \in Nat /\ outbound[n].to \in Nat
    <3>1. n \in DOMAIN outbound
      BY <2>1, <1>4, <1>5
    <3>2. outbound[n] \in Fragments
      BY <1>4, <3>1
    <3> QED
      BY <3>2 DEF Fragments
  <2>2. ASSUME n # 0 PROVE outbound[n].from < outbound[n].to
    BY <2>2, <1>4, <1>6
  <2> QED
    BY <2>1, <2>2, <1>6
<1>8. ASSUME NEW i \in 1..(n + 1)
      PROVE  /\ outbound'[i].call_id = req_id
             /\ outbound'[i].from = IF i = 1 THEN 0 ELSE outbound'[i - 1].to
             /\ outbound'[i].first = (i = 1)
             /\ outbound'[i].last = (outbound'[i].to = req_len)
             /\ outbound'[i].from < outbound'[i].to \/ req_len = 0
             /\ outbound'[i].frag_length <= max_xmit_frag
  <2>1. CASE i \in 1..n
    <3>1. i = 1 \/ i - 1 \in 1..n
      BY <1>4, <2>1
    <3> QED
      BY <1>5, <1>6, <2>1, <3>1
  <2>2. CASE i = n + 1
    <3>1. outbound'[i] = f
      BY <1>5, <2>2
    <3>2. i = 1 <=> n = 0
      BY <1>4, <2>2
    <3>3. f.first = (i = 1)
      <4>1. offset = 0 <=> n = 0
        BY <1>4, <1>6, <1>7
      <4> QED
        BY <1>3, <3>2, <4>1
    <3>4. f.from = IF i = 1 THEN 0 ELSE outbound'[i - 1].to
      <4>1. CASE n = 0
        BY <1>3, <1>6, <3>2, <4>1
      <4>2. CASE n # 0
        <5>1. i - 1 = n /\ n \in 1..n
          BY <1>4, <2>2, <4>2
        <5> QED
          BY <1>3, <1>5, <1>6, <3>2, <4>2, <5>1
      <4> QED
        BY <4>1, <4>2
    <3>5. f.from < f.to \/ req_len = 0
      <4>1. n = 0 \/ offset < req_len
        BY <1>6
      <4>2. offset < req_len \/ req_len = 0
        BY <1>4, <1>6, <4>1
      <4> QED
        BY <1>2, <1>3, <4>2
    <3> QED
      BY <1>2, <1>3, <3>1, <3>3, <3>4, <3>5
  <2> QED
    BY <1>4, <2>1, <2>2
<1>9. /\ outbound' # <<>> /\ offset' = outbound'[Len(outbound')].to
      /\ pc' = "receiving" => offset' = req_len
      /\ pc' = "sending" => offset' < req_len
  <2>1. outbound' # <<>>
    BY <1>4, <1>5
  <2>2. FragmentEnd <= req_len
    BY <1>2, <1>4
  <2> QED
    BY <1>1, <1>2, <1>3, <1>4, <1>5, <2>1, <2>2
<1>10. RequestTiles'
  BY <1>1, <1>5, <1>8, <1>9 DEF RequestTiles
<1>11. FragmentsFit'
  BY <1>1, <1>5, <1>8 DEF FragmentsFit
<1> QED
  BY <1>10, <1>11 DEF RequestInvariant

(***************************************************************************)
(* Every step of the system keeps the request in hand in order.            *)
(***************************************************************************)
LEMMA RequestStep ==
  ASSUME TypeInvariant, RequestInvariant, Next
  PROVE  RequestInvariant'
<1> USE DEF InCall, client, bindLocals, callLocals, server, history
<1>1. CASE Construct \/ \E value \in XmitFrags : WithMaxXmitFrag(value)
  BY <1>1, RequestFrame DEF Construct, NewBound, NewBoundWithAuth, WithMaxXmitFrag
<1>2. CASE StartBind
  <2>1. pc' \in {"failed", "panicked", "binding"}
    BY <1>2 DEF StartBind, BindEmpty, BindInitFails, BindPanics, BindRefused, BindSent,
                BindSendFails, BindFails
  <2> QED
    BY <2>1, RequestFrame
<1>3. CASE FinishBind
  <2>1. pc' \in {"failed", "ready", "auth3"}
    BY <1>3 DEF FinishBind, BindRecvFails, RecvBindInvalid, RecvBindNak,
                RecvBindAckRejected, BindAccepted, BindStepFails, BindStep,
                Auth3Refused, Auth3SendFails, Auth3Sent, BindFails, Bound
  <2> QED
    BY <2>1, RequestFrame
<1>4. CASE StartCall
  BY <1>4, CallStartTiles, RequestFrame DEF StartCall, SerializeFails, Return
<1>5. CASE FinishCall
  <2>1. CASE SendFragment
    BY <2>1, SendFragmentTiles
  <2>2. CASE RecvMore
    BY <2>2, RequestFrame DEF RecvMore, Receives, RecvUntouched
  <2>3. CASE ~SendFragment /\ ~RecvMore
    <3>1. pc' = "ready"
      BY <1>5, <2>3 DEF FinishCall, SendRefused, SendFails, RecvFails, RecvLast,
                        RecvFault, RecvInvalid, Return
    <3> QED
      BY <3>1, RequestFrame
  <2> QED
    BY <2>1, <2>2, <2>3
<1>6. CASE ServerStep
  BY <1>6, RequestFrame DEF ServerStep, ServerAnswer
<1> QED
  BY <1>1, <1>2, <1>3, <1>4, <1>5, <1>6 DEF Next

(***************************************************************************)
(* The request in hand is in order in every state of the client.           *)
(***************************************************************************)
LEMMA RequestInvariantHolds == Spec => []RequestInvariant
<1>1. Init => RequestInvariant
  BY DEF Init, RequestInvariant, RequestTiles, FragmentsFit, InCall
<1>2. TypeInvariant /\ RequestInvariant /\ [Next]_vars => RequestInvariant'
  <2> SUFFICES ASSUME TypeInvariant, RequestInvariant, [Next]_vars PROVE RequestInvariant'
    OBVIOUS
  <2>1. CASE UNCHANGED vars
    BY <2>1, RequestFrame DEF vars, client, callLocals
  <2> QED
    BY <2>1, RequestStep
<1> QED
  BY <1>1, <1>2, TypeCorrect, PTL DEF Spec

(***************************************************************************)
(* For every stub and every max_xmit_frag, the fragments of a request are  *)
(* consecutive pieces of its stub, flagged FIRST and LAST at its ends only,*)
(* and the client waits for an answer only after the last one.             *)
(***************************************************************************)
THEOREM RequestsTile == Spec => []RequestTiles
<1>1. RequestInvariant => RequestTiles
  BY DEF RequestInvariant
<1> QED
  BY <1>1, RequestInvariantHolds, PTL

(***************************************************************************)
(* No request fragment exceeds max_xmit_frag, whatever the server's bind   *)
(* ack made of it: the u16 arithmetic of its header never overflows.       *)
(***************************************************************************)
THEOREM RequestsFit == Spec => []FragmentsFit
<1>1. RequestInvariant => FragmentsFit
  BY DEF RequestInvariant
<1> QED
  BY <1>1, RequestInvariantHolds, PTL

-----------------------------------------------------------------------------
(***************************************************************************)
(* Why unsupported levels never send: before a bind nothing was sent, and  *)
(* only a provider of a supported level gets past it.                      *)
(***************************************************************************)
LevelInvariant ==
    /\ UnsupportedNeverSends
    /\ pc = "unbound" => handshake = <<>> /\ outbound = <<>>
    /\ pc \in {"binding", "auth3"} => Supported(auth_provider.level)

(***************************************************************************)
(* A step that keeps the provider's level and sends only if it is one of   *)
(* the supported ones keeps the invariant.                                 *)
(***************************************************************************)
LEMMA LevelFrame ==
  ASSUME LevelInvariant,
         auth_provider'.level = auth_provider.level,
         \/ UNCHANGED handshake /\ (UNCHANGED outbound \/ outbound' = <<>>)
         \/ Supported(auth_provider.level),
         pc' # "unbound",
         pc' \in {"binding", "auth3"} => pc \in {"binding", "auth3"}
  PROVE  LevelInvariant'
BY DEF LevelInvariant, UnsupportedNeverSends, Supported

(***************************************************************************)
(* A bind gets past its first packet only with a supported level.          *)
(***************************************************************************)
LEMMA LevelStartBind ==
  ASSUME LevelInvariant, StartBind
  PROVE  LevelInvariant'
<1> USE DEF BindUntouched, BindFails, BindBegins
<1>1. PICK contexts \in Proposals :
         \/ BindEmpty(contexts)
         \/ \E level \in Levels : BindInitFails(contexts, level)
         \/ \E level \in Levels \cup {"absent"}, token \in TokenLens :
               \/ BindPanics(contexts, level, token)
               \/ BindRefused(contexts, level, token)
               \/ BindSent(contexts, level, token)
               \/ \E delivered \in BOOLEAN :
                     BindSendFails(contexts, level, token, delivered)
  BY DEF StartBind
<1>2. CASE BindEmpty(contexts) \/ \E level \in Levels : BindInitFails(contexts, level)
  BY <1>2, LevelFrame DEF BindEmpty, BindInitFails
<1>3. ASSUME NEW level, NEW token,
             BindPanics(contexts, level, token) \/ BindRefused(contexts, level, token)
      PROVE  LevelInvariant'
  <2>1. handshake' = <<>> /\ outbound' = <<>> /\ pc' \in {"failed", "panicked"}
    BY <1>3 DEF BindPanics, BindRefused, LevelInvariant
  <2> QED
    BY <2>1 DEF LevelInvariant, UnsupportedNeverSends
<1>4. ASSUME NEW level, NEW token,
             \/ BindSent(contexts, level, token)
             \/ \E delivered \in BOOLEAN : BindSendFails(contexts, level, token, delivered)
      PROVE  LevelInvariant'
  <2>1. /\ Supported(level) /\ auth_provider' = Initiated(level, token)
        /\ pc' \in {"binding", "failed"}
    BY <1>4 DEF BindSent, BindSendFails, BindSendable
  <2>2. auth_provider'.level = level
    BY <2>1 DEF Initiated, NoProvider
  <2> QED
    BY <2>1, <2>2 DEF LevelInvariant, UnsupportedNeverSends, Supported
<1> QED
  BY <1>1, <1>2, <1>3, <1>4

(***************************************************************************)
(* Every step of the system keeps the invariant.                           *)
(***************************************************************************)
LEMMA LevelStep ==
  ASSUME TypeInvariant, LevelInvariant, Next
  PROVE  LevelInvariant'
<1> USE DEF client, bindLocals, callLocals, server, history
<1>1. CASE Construct
  BY <1>1 DEF Construct, NewBound, NewBoundWithAuth, LevelInvariant, UnsupportedNeverSends
<1>2. CASE \E value \in XmitFrags : WithMaxXmitFrag(value)
  BY <1>2, LevelFrame DEF WithMaxXmitFrag
<1>3. CASE FinishBind
  <2> USE DEF NotBound, AfterBindReply, BindFails, Auth3Ends, ReceivesBindReply, Bound
  <2>1. pc \in {"binding", "auth3"} /\ pc' \in {"failed", "ready", "auth3"}
    BY <1>3 DEF FinishBind, BindRecvFails, RecvBindInvalid, RecvBindNak,
                RecvBindAckRejected, RecvBindAckAccepted, BindAccepted, BindStepFails,
                BindStep, Auth3Refused, Auth3SendFails, Auth3Sent
  <2>2. auth_provider'.level = auth_provider.level
    <3>1. ASSUME NEW i, NEW token, BindStep(i, token)
          PROVE  auth_provider'.level = auth_provider.level
      <4>1. auth_provider \in Providers \cup {NoProvider}
        BY DEF TypeInvariant, TypeOK
      <4> QED
        BY <3>1, <4>1 DEF BindStep, Providers, NoProvider
    <3>2. CASE UNCHANGED auth_provider
      BY <3>2
    <3> QED
      BY <1>3, <3>1, <3>2
         DEF FinishBind, BindRecvFails, RecvBindInvalid, RecvBindNak,
             RecvBindAckRejected, BindAccepted, BindStepFails,
             Auth3Refused, Auth3SendFails, Auth3Sent
  <2>3. Supported(auth_provider.level)
    BY <2>1 DEF LevelInvariant
  <2> QED
    BY <2>1, <2>2, <2>3, LevelFrame
<1>4. CASE StartCall
  BY <1>4, LevelFrame DEF StartCall, SerializeFails, CallStart, Return
<1>5. CASE FinishCall
  <2> USE DEF Return, SendUntouched, RecvUntouched, Receives
  <2>1. CASE SendFragment \/ \E delivered \in BOOLEAN : SendFails(delivered)
    BY <2>1, LevelFrame DEF SendFragment, SendFails
  <2>2. CASE SendRefused \/ \E lost \in BOOLEAN : RecvFails(lost)
    BY <2>2, LevelFrame DEF SendRefused, RecvFails
  <2>3. CASE RecvMore \/ RecvLast \/ RecvFault \/ RecvInvalid
    BY <2>3, LevelFrame DEF RecvMore, RecvLast, RecvFault, RecvInvalid
  <2> QED
    BY <1>5, <2>1, <2>2, <2>3 DEF FinishCall
<1>6. CASE ServerStep
  <2>1. UNCHANGED <<pc, auth_provider, handshake, outbound>>
    BY <1>6 DEF ServerStep, ServerAnswer
  <2> QED
    BY <2>1 DEF LevelInvariant, UnsupportedNeverSends
<1> QED
  BY <1>1, <1>2, <1>3, <1>4, <1>5, <1>6, LevelStartBind DEF Next

(***************************************************************************)
(* A client whose provider has an unsupported level sends neither a bind   *)
(* nor a request, however it was made and whatever is called on it.        *)
(***************************************************************************)
THEOREM UnsupportedSilent == Spec => []UnsupportedNeverSends
<1>1. Init => LevelInvariant
  BY DEF Init, LevelInvariant, UnsupportedNeverSends
<1>2. TypeInvariant /\ LevelInvariant /\ [Next]_vars => LevelInvariant'
  <2> SUFFICES ASSUME TypeInvariant, LevelInvariant, [Next]_vars PROVE LevelInvariant'
    OBVIOUS
  <2>1. CASE UNCHANGED vars
    BY <2>1 DEF vars, client, LevelInvariant, UnsupportedNeverSends
  <2> QED
    BY <2>1, LevelStep
<1>3. LevelInvariant => UnsupportedNeverSends
  BY DEF LevelInvariant
<1> QED
  BY <1>1, <1>2, <1>3, TypeCorrect, PTL DEF Spec

-----------------------------------------------------------------------------
(* What a bind leaves behind. *)

(***************************************************************************)
(* Why the handshake is complete: a bind in progress has sent the Bind     *)
(* alone, and waits to send an Auth3 only for a token that answers a       *)
(* challenge.                                                              *)
(***************************************************************************)
BindSentAlone ==
    /\ Len(handshake) = 1
    /\ handshake[1].ptype = "Bind" /\ handshake[1].call_id = BindCallId
    /\ handshake[1].trailer = (auth_provider # NoProvider)

HandshakeInvariant ==
    /\ pc = "unbound" => handshake = <<>>
    /\ pc \in {"binding", "auth3"} => BindSentAlone
    /\ pc = "binding" => auth_provider.stage # "step"
    /\ pc = "auth3" => /\ auth_provider.stage = "step" /\ auth_provider.token # 0
                       /\ auth_provider # NoProvider /\ ack.challenge
    /\ HandshakeComplete

(***************************************************************************)
(* Why requests name the accepted context: the client keeps the id of the  *)
(* context the ack accepted first, and every fragment carries it.          *)
(***************************************************************************)
Chosen(i) == i \in DOMAIN proposed /\ IsFirst(i, Accepted(ack.results))

ContextInvariant ==
    /\ ~IsBound => outbound = <<>>
    /\ pc = "unbound" => handshake = <<>>
    /\ pc = "auth3" => Chosen(accepted)
    /\ IsBound /\ handshake # <<>> =>
          \E i \in DOMAIN proposed : Chosen(i) /\ context_id = proposed[i].context_id
    /\ \A k \in DOMAIN outbound : outbound[k].ctx_id = context_id

(***************************************************************************)
(* A context that accepted_context returns is proposed, and the first that *)
(* the ack accepts.                                                        *)
(***************************************************************************)
LEMMA OkIsFirst ==
  ASSUME NEW results, NEW count, NEW i,
         AcceptedContextIs(results, count, [outcome |-> "Ok", index |-> i])
  PROVE  i \in 1..count /\ IsFirst(i, Accepted(results))
<1>1. [outcome |-> "Ok", index |-> i].outcome = "Ok"
      /\ [outcome |-> "Ok", index |-> i].index = i
  OBVIOUS
<1>2. PICK j \in 1..count : IsFirst(j, Accepted(results))
                            /\ [outcome |-> "Ok", index |-> i] = [outcome |-> "Ok", index |-> j]
  BY <1>1 DEF AcceptedContextIs
<1>3. j = i
  BY <1>2
<1> QED
  BY <1>2, <1>3

(***************************************************************************)
(* A step that leaves the handshake and what it depends on alone.          *)
(***************************************************************************)
LEMMA BindFrame ==
  ASSUME HandshakeInvariant, ContextInvariant,
         UNCHANGED <<context_id, auth_provider, proposed, ack, accepted, handshake>>,
         IsBound, IsBound',
         \/ UNCHANGED outbound \/ outbound' = <<>>
  PROVE  HandshakeInvariant' /\ ContextInvariant'
<1>1. HandshakeInvariant'
  BY DEF HandshakeInvariant, BindSentAlone, HandshakeComplete, IsBound, HandshakePdu
<1>2. \A k \in DOMAIN outbound' : outbound'[k].ctx_id = context_id
  BY DEF ContextInvariant
<1>3. ContextInvariant'
  BY <1>2 DEF ContextInvariant, Chosen, IsBound
<1> QED
  BY <1>1, <1>3

(***************************************************************************)
(* A bind that fails or panics returns no client.                          *)
(***************************************************************************)
LEMMA NoClientKeeps ==
  ASSUME ContextInvariant, ~IsBound, pc' \in {"failed", "panicked"}, UNCHANGED outbound
  PROVE  HandshakeInvariant' /\ ContextInvariant'
<1>1. outbound' = <<>> /\ DOMAIN outbound' = {}
  BY DEF ContextInvariant
<1> QED
  BY <1>1 DEF HandshakeInvariant, HandshakeComplete, ContextInvariant, IsBound

(***************************************************************************)
(* bind sends the Bind, with a trailer when there is a provider.           *)
(***************************************************************************)
LEMMA StartBindKeeps ==
  ASSUME TypeInvariant, HandshakeInvariant, ContextInvariant, StartBind
  PROVE  HandshakeInvariant' /\ ContextInvariant'
<1>1. pc = "unbound" /\ ~IsBound /\ UNCHANGED outbound /\ outbound = <<>>
  BY DEF StartBind, BindEmpty, BindInitFails, BindPanics, BindRefused, BindSent, BindSendFails,
         BindBegins, BindUntouched, IsBound, ContextInvariant
<1>2. CASE pc' \in {"failed", "panicked"}
  BY <1>1, <1>2, NoClientKeeps
<1>3. CASE pc' \notin {"failed", "panicked"}
  <2>1. PICK contexts \in Proposals, level \in Levels \cup {"absent"}, token \in TokenLens :
           BindSent(contexts, level, token)
    BY <1>3 DEF StartBind, BindEmpty, BindInitFails, BindPanics, BindRefused, BindSendFails,
                BindFails
  <2>2. /\ pc' = "binding" /\ auth_provider' = Initiated(level, token)
        /\ handshake' = <<HandshakePdu("Bind", auth_provider')>>
    BY <2>1 DEF BindSent, BindBegins
  <2>3. auth_provider' \in Providers \cup {NoProvider} /\ auth_provider'.stage # "step"
    BY <2>2, ProviderType DEF Initiated, NoProvider
  <2>4. auth_provider'.level # "absent" <=> auth_provider' # NoProvider
    BY <2>3, ProviderType
  <2>5. BindSentAlone'
    BY <2>2, <2>4 DEF BindSentAlone, HandshakePdu
  <2>6. HandshakeInvariant'
    BY <2>2, <2>3, <2>5 DEF HandshakeInvariant, HandshakeComplete
  <2>7. ContextInvariant'
    <3>1. DOMAIN outbound' = {}
      BY <1>1
    <3> QED
      BY <1>1, <2>2, <3>1 DEF ContextInvariant, IsBound
  <2> QED
    BY <2>6, <2>7
<1> QED
  BY <1>2, <1>3

(***************************************************************************)
(* The ack accepts a context: the client is returned, or an Auth3 is due.  *)
(***************************************************************************)
LEMMA AckKeeps ==
  ASSUME TypeInvariant, HandshakeInvariant, ContextInvariant, NEW i \in DOMAIN proposed,
         BindAccepted(i) \/ \E token \in TokenLens : BindStep(i, token)
  PROVE  HandshakeInvariant' /\ ContextInvariant'
<1>1. /\ pc = "binding" /\ toClient # <<>> /\ ack' = Head(toClient).ack /\ accepted' = i
      /\ AcceptedContextIs(ack'.results, Len(proposed), [outcome |-> "Ok", index |-> i])
      /\ UNCHANGED <<handshake, outbound, proposed>>
  BY DEF BindAccepted, BindStep, RecvBindAckAccepted, ReceivesBindReply, AfterBindReply
<1>2. /\ BindSentAlone /\ auth_provider.stage # "step" /\ outbound = <<>>
      /\ auth_provider \in Providers \cup {NoProvider}
  BY <1>1 DEF HandshakeInvariant, ContextInvariant, IsBound, TypeInvariant, TypeOK
<1>3. Chosen(i)'
  BY <1>1, OkIsFirst DEF Chosen
<1>4. DOMAIN outbound' = {}
  BY <1>1, <1>2
<1>5. auth_provider.level # "absent" <=> auth_provider # NoProvider
  BY <1>2, ProviderType
<1>6. CASE pc' = "ready" /\ UNCHANGED auth_provider /\ ~Challenged
  <2>1. context_id' = proposed[i].context_id
    BY <1>6 DEF BindAccepted, BindStep, Bound
  <2>2. ~(auth_provider # NoProvider /\ ack'.challenge)
    BY <1>1, <1>5, <1>6 DEF Challenged
  <2>3. HandshakeInvariant'
    BY <1>1, <1>2, <1>6, <2>2, <1>5 DEF HandshakeInvariant, HandshakeComplete, BindSentAlone
  <2>4. ContextInvariant'
    BY <1>1, <1>3, <1>4, <1>6, <2>1 DEF ContextInvariant, IsBound
  <2> QED
    BY <2>3, <2>4
<1>7. ASSUME NEW token \in TokenLens, BindStep(i, token)
      PROVE  HandshakeInvariant' /\ ContextInvariant'
  <2>1. /\ Challenged /\ auth_provider # NoProvider /\ ack'.challenge
        /\ auth_provider' = [auth_provider EXCEPT !.stage = "step", !.token = token]
    BY <1>1, <1>5, <1>7 DEF BindStep, Challenged
  <2>2. /\ auth_provider' \in Providers /\ auth_provider' # NoProvider
        /\ auth_provider'.stage = "step" /\ auth_provider'.token = token
    <3>1. auth_provider \in Providers
      BY <1>2, <2>1
    <3>2. auth_provider' \in Providers
      BY <1>2, <2>1, ProviderType
    <3>3. auth_provider' # NoProvider
      BY <3>2, LevelsAssumption DEF Providers, NoProvider
    <3> QED
      BY <2>1, <3>1, <3>2, <3>3 DEF Providers
  <2>3. BindSentAlone'
    BY <1>1, <1>2, <2>1, <2>2 DEF BindSentAlone
  <2>4. CASE token = 0 /\ Bound(i, ack'.max_xmit_frag)
    <3>1. pc' = "ready" /\ context_id' = proposed[i].context_id
      BY <2>4 DEF Bound
    <3>2. HandshakeInvariant'
      BY <2>1, <2>2, <2>3, <2>4, <3>1 DEF HandshakeInvariant, HandshakeComplete, BindSentAlone
    <3>3. ContextInvariant'
      BY <1>1, <1>3, <1>4, <3>1 DEF ContextInvariant, IsBound
    <3> QED
      BY <3>2, <3>3
  <2>5. CASE token # 0 /\ pc' = "auth3"
    <3>1. HandshakeInvariant'
      BY <2>1, <2>2, <2>3, <2>5 DEF HandshakeInvariant, HandshakeComplete
    <3>2. ContextInvariant'
      BY <1>1, <1>2, <1>3, <1>4, <2>5 DEF ContextInvariant, IsBound
    <3> QED
      BY <3>1, <3>2
  <2> QED
    BY <1>7, <2>4, <2>5 DEF BindStep
<1> QED
  BY <1>6, <1>7 DEF BindAccepted, Bound

(***************************************************************************)
(* The Auth3 is sent and the client returned.                              *)
(***************************************************************************)
LEMMA Auth3Keeps ==
  ASSUME TypeInvariant, HandshakeInvariant, ContextInvariant, Auth3Sent
  PROVE  HandshakeInvariant' /\ ContextInvariant'
<1>1. /\ pc = "auth3" /\ pc' = "ready" /\ context_id' = proposed[accepted].context_id
      /\ handshake' = Append(handshake, HandshakePdu("Auth3", auth_provider))
      /\ UNCHANGED <<auth_provider, proposed, ack, outbound>>
  BY DEF Auth3Sent, Bound, Auth3Ends, AfterBindReply
<1>2. /\ BindSentAlone /\ auth_provider.stage = "step" /\ auth_provider.token # 0
      /\ auth_provider # NoProvider /\ ack.challenge
      /\ outbound = <<>> /\ Chosen(accepted)
  BY <1>1 DEF HandshakeInvariant, ContextInvariant, IsBound
<1>3. handshake \in Seq(HandshakePdus) /\ HandshakePdu("Auth3", auth_provider) \in HandshakePdus
  BY HandshakeType DEF TypeInvariant, TypeOK
<1>4. /\ Len(handshake') = 2 /\ handshake'[1] = handshake[1]
      /\ handshake'[2] = HandshakePdu("Auth3", auth_provider)
      /\ DOMAIN handshake' = 1..2
  <2>1. Len(handshake) = 1
    BY <1>2 DEF BindSentAlone
  <2>2. /\ Len(handshake') = Len(handshake) + 1
        /\ handshake'[Len(handshake) + 1] = HandshakePdu("Auth3", auth_provider)
        /\ DOMAIN handshake' = 1..(Len(handshake) + 1)
    BY <1>1, <1>3
  <2>3. Len(handshake) + 1 = 2
    BY <2>1
  <2>4. handshake'[1] = handshake[1]
    BY <1>1, <1>3, <2>1
  <2> QED
    BY <2>2, <2>3, <2>4
<1>5. \A k \in DOMAIN handshake' : handshake'[k].call_id = BindCallId
  <2>1. \A k \in DOMAIN handshake' : k = 1 \/ k = 2
    BY <1>4
  <2> QED
    BY <1>2, <1>4, <2>1 DEF BindSentAlone, HandshakePdu
<1>6. HandshakeInvariant'
  BY <1>1, <1>2, <1>4, <1>5
     DEF HandshakeInvariant, HandshakeComplete, BindSentAlone, HandshakePdu
<1>7. ContextInvariant'
  <2>1. DOMAIN outbound' = {}
    BY <1>1, <1>2
  <2> QED
    BY <1>1, <1>2, <2>1 DEF ContextInvariant, IsBound, Chosen
<1> QED
  BY <1>6, <1>7

(***************************************************************************)
(* Every step of the system keeps both invariants.                         *)
(***************************************************************************)
LEMMA BindStepKeeps ==
  ASSUME TypeInvariant, HandshakeInvariant, ContextInvariant, Next
  PROVE  HandshakeInvariant' /\ ContextInvariant'
<1> USE DEF client, bindLocals, callLocals, server, history
<1>1. CASE Construct
  <2>1. /\ pc = "unbound" /\ pc' = "ready" /\ handshake' = <<>> /\ outbound' = <<>>
    BY <1>1 DEF Construct, NewBound, NewBoundWithAuth, ContextInvariant, IsBound
  <2>2. DOMAIN outbound' = {}
    BY <2>1
  <2> QED
    BY <2>1, <2>2 DEF HandshakeInvariant, HandshakeComplete, ContextInvariant, IsBound
<1>2. CASE \E value \in XmitFrags : WithMaxXmitFrag(value)
  BY <1>2, BindFrame DEF WithMaxXmitFrag, IsBound
<1>3. CASE FinishBind
  <2> USE DEF AfterBindReply, BindFails, Auth3Ends, ReceivesBindReply, NotBound
  <2>1. CASE \/ BindRecvFails \/ RecvBindInvalid \/ RecvBindNak \/ RecvBindAckRejected
             \/ Auth3Refused \/ \E delivered \in BOOLEAN : Auth3SendFails(delivered)
             \/ \E i \in DOMAIN proposed : BindStepFails(i)
    <3>1. ~IsBound /\ pc' = "failed" /\ UNCHANGED outbound
      BY <2>1 DEF BindRecvFails, RecvBindInvalid, RecvBindNak, RecvBindAckRejected,
                  Auth3Refused, Auth3SendFails, BindStepFails, RecvBindAckAccepted, IsBound
    <3> QED
      BY <3>1, NoClientKeeps
  <2> QED
    BY <1>3, <2>1, AckKeeps, Auth3Keeps DEF FinishBind
<1>4. CASE StartCall
  BY <1>4, BindFrame DEF StartCall, SerializeFails, CallStart, Return, IsBound
<1>5. CASE FinishCall
  <2> USE DEF Return, SendUntouched, RecvUntouched, Receives, IsBound
  <2>1. CASE SendFragment \/ \E delivered \in BOOLEAN : SendFails(delivered)
    <3>1. /\ IsBound /\ IsBound' /\ pc = "sending"
          /\ UNCHANGED <<context_id, auth_provider, proposed, ack, accepted, handshake>>
          /\ outbound' = outbound \/ outbound' = Append(outbound, RequestFragment)
      BY <2>1 DEF SendFragment, SendFails, Delivered
    <3>2. HandshakeInvariant'
      BY <3>1 DEF HandshakeInvariant, BindSentAlone, HandshakeComplete, HandshakePdu
    <3>3. outbound \in Seq(Fragments) /\ RequestFragment \in Fragments
      BY <3>1, FragmentType DEF TypeInvariant, TypeOK
    <3>4. \A k \in DOMAIN outbound' : outbound'[k].ctx_id = context_id
      <4>1. RequestFragment.ctx_id = context_id
        BY DEF RequestFragment
      <4>2. CASE outbound' = Append(outbound, RequestFragment)
        <5>1. \A k \in DOMAIN outbound' :
                 \/ k \in DOMAIN outbound /\ outbound'[k] = outbound[k]
                 \/ outbound'[k] = RequestFragment
          BY <3>3, <4>2
        <5> QED
          BY <4>1, <5>1 DEF ContextInvariant
      <4> QED
        BY <3>1, <4>2 DEF ContextInvariant
    <3>5. ContextInvariant'
      BY <3>1, <3>4 DEF ContextInvariant, Chosen
    <3> QED
      BY <3>2, <3>5
  <2>2. CASE SendRefused \/ \E lost \in BOOLEAN : RecvFails(lost)
    BY <2>2, BindFrame DEF SendRefused, RecvFails
  <2>3. CASE RecvMore \/ RecvLast \/ RecvFault \/ RecvInvalid
    BY <2>3, BindFrame DEF RecvMore, RecvLast, RecvFault, RecvInvalid
  <2> QED
    BY <1>5, <2>1, <2>2, <2>3 DEF FinishCall
<1>6. CASE ServerStep
  <2>1. UNCHANGED <<pc, context_id, auth_provider, proposed, ack, accepted, handshake, outbound>>
    BY <1>6 DEF ServerStep, ServerAnswer
  <2> QED
    BY <2>1 DEF HandshakeInvariant, BindSentAlone, HandshakeComplete, HandshakePdu,
                ContextInvariant, Chosen, IsBound
<1> QED
  BY <1>1, <1>2, <1>3, <1>4, <1>5, <1>6, StartBindKeeps DEF Next

(***************************************************************************)
(* Both invariants hold in every run of the client.                        *)
(***************************************************************************)
LEMMA BindInvariantsHold == Spec => [](HandshakeInvariant /\ ContextInvariant)
<1>1. Init => HandshakeInvariant /\ ContextInvariant
  <2> SUFFICES ASSUME Init PROVE HandshakeInvariant /\ ContextInvariant
    OBVIOUS
  <2>1. DOMAIN outbound = {}
    BY DEF Init
  <2> QED
    BY <2>1 DEF Init, HandshakeInvariant, HandshakeComplete, ContextInvariant, IsBound
<1>2. TypeInvariant /\ HandshakeInvariant /\ ContextInvariant /\ [Next]_vars
         => HandshakeInvariant' /\ ContextInvariant'
  <2> SUFFICES ASSUME TypeInvariant, HandshakeInvariant, ContextInvariant, [Next]_vars
               PROVE  HandshakeInvariant' /\ ContextInvariant'
    OBVIOUS
  <2>1. CASE UNCHANGED vars
    BY <2>1 DEF vars, client, bindLocals, HandshakeInvariant, BindSentAlone,
                HandshakeComplete, HandshakePdu, ContextInvariant, Chosen, IsBound
  <2> QED
    BY <2>1, BindStepKeeps
<1> QED
  BY <1>1, <1>2, TypeCorrect, PTL DEF Spec

(***************************************************************************)
(* A client that a bind returned has completed its handshake, whatever the *)
(* server and the provider answered: the Bind first, then the Auth3 if and *)
(* only if the provider had a token to send.                               *)
(***************************************************************************)
THEOREM HandshakesComplete == Spec => []HandshakeComplete
<1>1. HandshakeInvariant => HandshakeComplete
  BY DEF HandshakeInvariant
<1> QED
  BY <1>1, BindInvariantsHold, PTL

(***************************************************************************)
(* All fragments of all calls of a bound client carry the id of the first  *)
(* presentation context that the server accepted.                          *)
(***************************************************************************)
THEOREM AcceptedContextUsed == Spec => []RequestsUseAcceptedContext
<1>1. ContextInvariant => RequestsUseAcceptedContext
  BY DEF ContextInvariant, Chosen, RequestsUseAcceptedContext
<1> QED
  BY <1>1, BindInvariantsHold, PTL
=============================================================================
