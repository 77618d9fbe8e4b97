----------------------------- MODULE CallProofs -----------------------------
(***************************************************************************)
(* Calls and their answers, for every size of the id space and any number  *)
(* of calls.  Call ids keep the answers of different calls apart; against a*)
(* server that keeps the protocol, client and server stay in step; what a  *)
(* call returns is the server's answer to it, whole and in order, or an    *)
(* error; and so RpcClient implements RpcService.                          *)
(***************************************************************************)
EXTENDS RpcClientProofs, RpcClientService

(***************************************************************************)
(* The constants and the fields of a waiting PDU as numbers.               *)
(***************************************************************************)
LEMMA IdTypes ==
  ASSUME TypeInvariant
  PROVE  /\ MaxCallId \in Nat /\ MaxCallId >= 2
         /\ ncalls \in Nat /\ ncalls \in Calls /\ 0 \in Calls
         /\ call_id \in 1..MaxCallId
         /\ \A c \in Calls : c \in Nat /\ ids[c] \in 0..MaxCallId
         /\ \A i \in DOMAIN toClient : toClient[i].call \in Calls /\ toClient[i].call_id \in Nat
<1>1. MaxCallId \in Nat /\ MaxCallId >= 2 /\ 0 \in Calls /\ \A c \in Calls : c \in Nat
  BY BoundsAssumption DEF MaxCallId, Calls
<1>2. ncalls \in Calls /\ call_id \in 1..MaxCallId /\ \A c \in Calls : ids[c] \in 0..MaxCallId
  BY DEF TypeInvariant, TypeOK
<1>3. ASSUME NEW i \in DOMAIN toClient
      PROVE  toClient[i].call \in Calls /\ toClient[i].call_id \in Nat
  <2>1. toClient[i] \in InPdus
    BY DEF TypeInvariant, TypeOK
  <2> QED
    BY <2>1 DEF InPdus
<1> QED
  BY <1>1, <1>2, <1>3

(***************************************************************************)
(* Two calls with the same id are a whole cycle of ids apart.              *)
(***************************************************************************)
LEMMA SameIdFarApart ==
  ASSUME TypeInvariant, IdInvariant, IsBound, ncalls # 0,
         NEW c \in Calls, Issued(c), c <= ncalls, ids[c] = ids[ncalls]
  PROVE  c = ncalls \/ ncalls - c >= MaxCallId
<1> SUFFICES ASSUME c # ncalls, ncalls - c < MaxCallId PROVE FALSE
  BY IdTypes
<1>1. /\ MaxCallId \in Nat /\ MaxCallId >= 2 /\ ncalls \in Nat /\ c \in Nat /\ c < ncalls
      /\ ids[c] \in 0..MaxCallId /\ ids[ncalls] \in 0..MaxCallId /\ ncalls \in Calls
  BY IdTypes
<1>2. Issued(ncalls) /\ ncalls + 1 - c <= MaxCallId /\ ncalls + 1 - ncalls = 1
  BY <1>1 DEF Issued
<1>3. ids[c] # 0
  BY DEF IdInvariant, IdsIssued
<1>4. call_id = IF ids[c] + (ncalls + 1 - c) <= MaxCallId THEN ids[c] + (ncalls + 1 - c)
                ELSE ids[c] + (ncalls + 1 - c) - MaxCallId
  BY <1>1, <1>2 DEF IdInvariant, IdWindow
<1>5. call_id = IF ids[ncalls] + 1 <= MaxCallId THEN ids[ncalls] + 1
                ELSE ids[ncalls] + 1 - MaxCallId
  BY <1>1, <1>2 DEF IdInvariant, IdWindow
<1> QED
  BY <1>1, <1>2, <1>3, <1>4, <1>5

(***************************************************************************)
(* A response fragment the client appends is this call's, or that of a     *)
(* call a whole cycle of ids ago.                                          *)
(***************************************************************************)
LEMMA AppendedIsOurs ==
  ASSUME TypeInvariant, IdInvariant, InCall, toClient # <<>>, Acceptable(Head(toClient))
  PROVE  \/ Head(toClient).call = ncalls
         \/ ncalls - Head(toClient).call >= MaxCallId
<1> DEFINE c == Head(toClient).call
<1>1. 1 \in DOMAIN toClient /\ Head(toClient) = toClient[1]
  BY DEF TypeInvariant, TypeOK
<1>2. c \in Calls /\ Issued(c) /\ Head(toClient).call_id \in {ids[c], 0}
  BY <1>1, IdTypes DEF IdInvariant, QueueIds
<1>3. ncalls # 0 /\ req_id = ids[ncalls] /\ Issued(ncalls) /\ IsBound /\ ncalls \in Nat
  BY IdTypes DEF IdInvariant, IdsIssued, InCall, IsBound, Issued
<1>4. req_id # 0
  BY <1>3, IdTypes DEF IdInvariant, IdsIssued
<1>5. ids[c] = ids[ncalls]
  BY <1>2, <1>3, <1>4 DEF Acceptable
<1>6. c <= ncalls
  BY <1>2, <1>3, IdTypes DEF Issued
<1> QED
  BY <1>2, <1>3, <1>5, <1>6, SameIdFarApart

(***************************************************************************)
(* Receiving takes PDUs out of the transport and adds none.                *)
(***************************************************************************)
LEMMA QueueKept ==
  ASSUME TypeInvariant, NEW k \in DOMAIN toClient',
         toClient' = toClient \/ (toClient # <<>> /\ toClient' = Tail(toClient))
  PROVE  \E j \in DOMAIN toClient : toClient'[k] = toClient[j]
<1>1. CASE toClient' = toClient
  BY <1>1
<1>2. CASE toClient # <<>> /\ toClient' = Tail(toClient)
  <2>1. toClient \in Seq(InPdus)
    BY DEF TypeInvariant, TypeOK
  <2>2. k + 1 \in DOMAIN toClient /\ toClient'[k] = toClient[k + 1]
    BY <1>2, <2>1
  <2> QED
    BY <2>2
<1> QED
  BY <1>1, <1>2

(***************************************************************************)
(* A step that binds nothing, begins no call and answers none keeps the    *)
(* invariant, if what it appends to the stub and what it sends is in order.*)
(***************************************************************************)
LEMMA IdFrame ==
  ASSUME TypeInvariant, IdInvariant,
         UNCHANGED <<ids, ncalls, call_id, req_id>>,
         \A c \in Calls : heard'[c] # "nothing" => Issued(c),
         CallIdSeparation',
         toClient' = toClient \/ (toClient # <<>> /\ toClient' = Tail(toClient)),
         InCall' => InCall,
         IsBound' => IsBound \/ pc = "unbound",
         pc' # "unbound",
         ~IsBound' => ~IsBound,
         pc' \in {"binding", "auth3"} => pc \in {"binding", "auth3"}
  PROVE  IdInvariant'
<1>1. \A c : Issued(c)' = Issued(c)
  BY DEF Issued
<1>2. IdsIssued'
  BY <1>1 DEF IdInvariant, IdsIssued
<1>3. IdWindow'
  <2>1. CASE IsBound
    BY <1>1, <2>1 DEF IdInvariant, IdWindow
  <2>2. CASE pc = "unbound"
    <3>1. ncalls = 0 /\ ids[0] = 0
      BY <2>2 DEF IdInvariant, IdsIssued, IsBound
    <3>2. \A c \in Calls : ~Issued(c)
      BY <3>1, IdTypes DEF Issued
    <3> QED
      BY <1>1, <3>2 DEF IdWindow
  <2> QED
    BY <2>1, <2>2 DEF IdWindow
<1>4. QueueIds'
  BY <1>1, QueueKept DEF IdInvariant, QueueIds
<1> QED
  BY <1>2, <1>3, <1>4 DEF IdInvariant

(***************************************************************************)
(* The same for a step that neither sends nor touches the stub.            *)
(***************************************************************************)
LEMMA IdQuiet ==
  ASSUME TypeInvariant, IdInvariant,
         UNCHANGED <<ids, ncalls, call_id, req_id, heard, response_stub>>,
         toClient' = toClient \/ (toClient # <<>> /\ toClient' = Tail(toClient)),
         InCall' => InCall,
         IsBound' => IsBound \/ pc = "unbound",
         pc' # "unbound",
         ~IsBound' => ~IsBound,
         pc' \in {"binding", "auth3"} => pc \in {"binding", "auth3"}
  PROVE  IdInvariant'
<1>1. CallIdSeparation' /\ \A c \in Calls : heard'[c] # "nothing" => Issued(c)
  BY DEF IdInvariant, IdsIssued, CallIdSeparation
<1> QED
  BY <1>1, IdFrame

(***************************************************************************)
(* A bind that succeeds: its own id is 1 and the first call's will be 2.   *)
(***************************************************************************)
LEMMA BoundIds ==
  ASSUME TypeInvariant, IdInvariant, pc \in {"binding", "auth3"},
         NEW i, NEW frag, Bound(i, frag),
         UNCHANGED <<ids, ncalls, req_id, heard, response_stub>>,
         toClient' = toClient \/ (toClient # <<>> /\ toClient' = Tail(toClient))
  PROVE  IdInvariant'
<1>1. \A c : Issued(c)' = Issued(c)
  BY DEF Issued
<1>2. ncalls = 0 /\ ids[0] = 1 /\ ~IsBound
  BY DEF IdInvariant, IdsIssued, IsBound, BindCallId
<1>3. pc' = "ready" /\ call_id' = 2
  BY DEF Bound, BindCallId
<1>4. IdsIssued'
  BY <1>1, <1>3 DEF IdInvariant, IdsIssued, IsBound, InCall
<1>5. \A c \in Calls : Issued(c) => c = 0
  BY <1>2, IdTypes DEF Issued
<1>6. IdWindow'
  <2> SUFFICES ASSUME NEW c \in Calls, Issued(c)',
                      (ncalls + 1 - c)' <= MaxCallId
               PROVE  (LET next == ids[c] + (ncalls + 1 - c)
                       IN  call_id = IF next <= MaxCallId THEN next ELSE next - MaxCallId)'
    BY DEF IdWindow
  <2>1. c = 0
    BY <1>1, <1>5
  <2>2. ids'[c] + (ncalls' + 1 - c) = 2
    BY <1>2, <2>1
  <2> QED
    BY <1>3, <2>2, IdTypes
<1>7. QueueIds'
  BY <1>1, QueueKept DEF IdInvariant, QueueIds
<1>8. CallIdSeparation'
  BY DEF IdInvariant, CallIdSeparation
<1> QED
  BY <1>4, <1>6, <1>7, <1>8 DEF IdInvariant

(***************************************************************************)
(* The Bind that was sent is the first exchange, under id 1.               *)
(***************************************************************************)
LEMMA BindSentIds ==
  ASSUME TypeInvariant, IdInvariant, NEW contexts, NEW level, NEW token,
         BindSent(contexts, level, token)
  PROVE  IdInvariant'
<1>1. /\ pc = "unbound" /\ pc' = "binding"
      /\ heard' = [heard EXCEPT ![0] = "full"] /\ ids' = [ids EXCEPT ![0] = 1]
      /\ UNCHANGED <<toClient, ncalls, req_id, response_stub>>
  BY DEF BindSent, BindBegins, BindUntouched, callLocals, BindCallId
<1>2. ncalls = 0 /\ ids[0] = 0
  BY <1>1 DEF IdInvariant, IdsIssued, IsBound
<1>3. \A c \in Calls : ~Issued(c)
  BY <1>2, IdTypes DEF Issued
<1>4. ids'[0] = 1 /\ \A c \in Calls : Issued(c)' <=> c = 0
  <2>1. ids'[0] = 1
    BY <1>1, IdTypes DEF TypeInvariant, TypeOK
  <2>2. \A c \in Calls : c # 0 => ~(c <= ncalls')
    BY <1>1, <1>2, IdTypes
  <2> QED
    BY <2>1, <2>2 DEF Issued
<1>5. \A c \in Calls : heard'[c] # "nothing" => c = 0
  BY <1>1, <1>3 DEF IdInvariant, IdsIssued, TypeInvariant, TypeOK
<1>6. IdsIssued' /\ IdWindow'
  BY <1>1, <1>2, <1>4, <1>5 DEF IdsIssued, IdWindow, IsBound, InCall, BindCallId
<1>7. QueueIds'
  <2>1. DOMAIN toClient = {}
    BY <1>3, IdTypes DEF IdInvariant, QueueIds
  <2> QED
    BY <1>1, <2>1 DEF QueueIds
<1>8. CallIdSeparation'
  BY <1>1 DEF IdInvariant, CallIdSeparation
<1> QED
  BY <1>6, <1>7, <1>8 DEF IdInvariant

(***************************************************************************)
(* A new call takes the next id; every earlier call is one place further.  *)
(***************************************************************************)
LEMMA CallStartIds ==
  ASSUME TypeInvariant, IdInvariant, NEW len, CallStart(len)
  PROVE  IdInvariant'
<1>1. /\ pc = "ready" /\ ncalls < MaxCalls /\ ncalls' = ncalls + 1
      /\ ids' = [ids EXCEPT ![ncalls + 1] = call_id]
      /\ req_id' = call_id /\ call_id' = NextCallId(call_id)
      /\ response_stub' = <<>> /\ heard' = heard /\ toClient' = toClient
      /\ pc' \in {"ready", "sending"}
  BY DEF CallStart, Return
<1>2. /\ MaxCallId \in Nat /\ MaxCallId >= 2 /\ ncalls \in Nat /\ 0 \in Calls
      /\ call_id \in 1..MaxCallId
      /\ \A c \in Calls : c \in Nat /\ ids[c] \in 0..MaxCallId
  BY IdTypes
<1>3. ncalls + 1 \in Calls
  BY <1>1, <1>2, BoundsAssumption DEF Calls
<1>4. /\ ids'[ncalls + 1] = call_id
      /\ \A c \in Calls : c # ncalls + 1 => ids'[c] = ids[c]
  BY <1>1, <1>3 DEF TypeInvariant, TypeOK
<1>5. ids'[0] = ids[0]
  BY <1>2, <1>4
<1>6. \A c \in Calls : Issued(c)' <=> Issued(c) \/ c = ncalls + 1
  BY <1>1, <1>2, <1>5 DEF Issued
<1>7. \A c \in Calls : Issued(c) => c # ncalls + 1
  BY <1>2 DEF Issued
<1>8. IdsIssued'
  <2>1. \A c \in Calls : Issued(c)' => ids'[c] # 0
    BY <1>2, <1>4, <1>6, <1>7 DEF IdInvariant, IdsIssued
  <2>2. \A c \in Calls : heard'[c] # "nothing" => Issued(c)'
    BY <1>1, <1>6 DEF IdInvariant, IdsIssued
  <2>3. ncalls' # 0 /\ req_id' = ids'[ncalls']
    BY <1>1, <1>2, <1>4
  <2> QED
    BY <1>1, <2>1, <2>2, <2>3 DEF IdsIssued, IsBound
<1>9. IdWindow'
  <2> SUFFICES ASSUME NEW c \in Calls, Issued(c)', (ncalls + 1 - c)' <= MaxCallId
               PROVE  (LET next == ids[c] + (ncalls + 1 - c)
                       IN  call_id = IF next <= MaxCallId THEN next ELSE next - MaxCallId)'
    BY DEF IdWindow
  <2>1. call_id' = IF call_id = MaxCallId THEN 1 ELSE call_id + 1
    BY <1>1, <1>2, NextCallIdIs
  <2>2. CASE c = ncalls + 1
    <3>1. ids'[c] = call_id /\ ncalls' + 1 - c = 1
      BY <1>1, <1>2, <1>4, <2>2
    <3> QED
      BY <1>2, <2>1, <3>1
  <2>3. CASE c # ncalls + 1
    <3>1. Issued(c) /\ ids'[c] = ids[c] /\ ids[c] \in 1..MaxCallId /\ c \in Nat
      BY <1>2, <1>4, <1>6, <2>3 DEF IdInvariant, IdsIssued
    <3>2. ncalls + 1 - c \in Nat /\ ncalls' + 1 - c = (ncalls + 1 - c) + 1
          /\ ncalls + 1 - c < MaxCallId
      BY <1>1, <1>2, <3>1 DEF Issued
    <3>3. call_id = IF ids[c] + (ncalls + 1 - c) <= MaxCallId THEN ids[c] + (ncalls + 1 - c)
                    ELSE ids[c] + (ncalls + 1 - c) - MaxCallId
      BY <1>1, <1>2, <3>1, <3>2 DEF IdInvariant, IdWindow, IsBound
    <3> QED
      BY <1>2, <2>1, <3>1, <3>2, <3>3
  <2> QED
    BY <2>2, <2>3
<1>10. QueueIds'
  BY <1>1, <1>4, <1>6, <1>7, IdTypes DEF IdInvariant, QueueIds
<1>11. CallIdSeparation'
  BY <1>1 DEF CallIdSeparation
<1> QED
  BY <1>8, <1>9, <1>10, <1>11 DEF IdInvariant

(***************************************************************************)
(* The server answers only calls it heard, under their ids.                *)
(***************************************************************************)
LEMMA ServerIds ==
  ASSUME TypeInvariant, IdInvariant, NEW c \in Calls, NEW reply \in Replies(c),
         NEW id \in ReplyIds(c), ServerAnswer(c, reply, id)
  PROVE  IdInvariant'
<1>1. /\ heard[c] # "nothing" /\ toClient' = Append(toClient, InPdu(c, reply, id))
      /\ UNCHANGED <<pc, ids, ncalls, call_id, req_id, heard, response_stub>>
  BY DEF ServerAnswer, client, callLocals, history
<1>2. \A d : Issued(d)' = Issued(d)
  BY <1>1 DEF Issued
<1>3. IdsIssued' /\ IdWindow' /\ CallIdSeparation'
  BY <1>1, <1>2 DEF IdInvariant, IdsIssued, IdWindow, CallIdSeparation, IsBound, InCall
<1>4. QueueIds'
  <2>1. InPdu(c, reply, id).call = c /\ InPdu(c, reply, id).call_id \in {ids[c], 0}
    BY DEF InPdu, ReplyIds
  <2>2. Issued(c)
    BY <1>1 DEF IdInvariant, IdsIssued
  <2>3. toClient \in Seq(InPdus)
    BY DEF TypeInvariant, TypeOK
  <2>4. ASSUME NEW k \in DOMAIN toClient'
        PROVE  (k \in DOMAIN toClient /\ toClient'[k] = toClient[k])
               \/ toClient'[k] = InPdu(c, reply, id)
    BY <1>1, <2>3, InPduType DEF TypeInvariant
  <2> QED
    BY <1>1, <1>2, <2>1, <2>2, <2>4 DEF IdInvariant, QueueIds
<1> QED
  BY <1>3, <1>4 DEF IdInvariant

(***************************************************************************)
(* Every step of the system keeps the invariant.                           *)
(***************************************************************************)
LEMMA IdStep ==
  ASSUME TypeInvariant, IdInvariant, Next
  PROVE  IdInvariant'
<1> USE DEF IsBound, InCall, client, bindLocals, callLocals, server, history
<1>1. CASE Construct \/ \E value \in XmitFrags : WithMaxXmitFrag(value)
  BY <1>1, IdQuiet DEF Construct, NewBound, NewBoundWithAuth, WithMaxXmitFrag
<1>2. CASE StartBind
  <2>1. PICK contexts \in Proposals :
           \/ BindEmpty(contexts)
           \/ \E level \in Levels : BindInitFails(contexts, level)
           \/ \E level \in Levels \cup {"absent"}, token \in TokenLens :
                 \/ BindPanics(contexts, level, token)
                 \/ BindRefused(contexts, level, token)
                 \/ BindSent(contexts, level, token)
                 \/ \E delivered \in BOOLEAN :
                       BindSendFails(contexts, level, token, delivered)
    BY <1>2 DEF StartBind
  <2> USE DEF BindUntouched, BindFails, BindBegins
  <2>2. CASE BindEmpty(contexts) \/ \E level \in Levels : BindInitFails(contexts, level)
    BY <2>2, IdQuiet DEF BindEmpty, BindInitFails
  <2>3. ASSUME NEW level, NEW token,
               \/ BindPanics(contexts, level, token)
               \/ BindRefused(contexts, level, token)
               \/ \E delivered \in BOOLEAN : BindSendFails(contexts, level, token, delivered)
        PROVE  IdInvariant'
    BY <2>3, IdQuiet DEF BindPanics, BindRefused, BindSendFails
  <2> QED
    BY <2>1, <2>2, <2>3, BindSentIds
<1>3. CASE FinishBind
  <2> USE DEF NotBound, AfterBindReply, BindFails, Auth3Ends
  <2>1. CASE BindRecvFails \/ RecvBindInvalid \/ Auth3Refused
             \/ \E delivered \in BOOLEAN : Auth3SendFails(delivered)
    BY <2>1, IdQuiet DEF BindRecvFails, RecvBindInvalid, Auth3Refused, Auth3SendFails
  <2>2. CASE RecvBindNak \/ RecvBindAckRejected
    BY <2>2, IdQuiet DEF RecvBindNak, RecvBindAckRejected, ReceivesBindReply
  <2>3. ASSUME NEW i, \/ BindAccepted(i)
                      \/ BindStepFails(i)
                      \/ \E token \in TokenLens : BindStep(i, token)
        PROVE  IdInvariant'
    <3>1. /\ pc = "binding" /\ toClient # <<>> /\ toClient' = Tail(toClient)
          /\ UNCHANGED <<ids, ncalls, req_id, heard, response_stub>>
      BY <2>3 DEF BindAccepted, BindStepFails, BindStep, RecvBindAckAccepted, ReceivesBindReply
    <3>2. \/ Bound(i, ack'.max_xmit_frag)
          \/ pc' \in {"failed", "auth3"} /\ UNCHANGED call_id
      BY <2>3 DEF BindAccepted, BindStepFails, BindStep
    <3> QED
      BY <3>1, <3>2, IdQuiet, BoundIds
  <2>4. CASE Auth3Sent
    BY <2>4, BoundIds DEF Auth3Sent
  <2> QED
    BY <1>3, <2>1, <2>2, <2>3, <2>4 DEF FinishBind
<1>4. CASE StartCall
  BY <1>4, IdQuiet, CallStartIds DEF StartCall, SerializeFails, Return
<1>5. CASE FinishCall
  <2> USE DEF Return, SendUntouched, RecvUntouched, Receives
  <2>1. CASE SendRefused \/ (\E lost \in BOOLEAN : RecvFails(lost)) \/ RecvFault \/ RecvInvalid
    BY <2>1, IdQuiet DEF SendRefused, RecvFails, RecvFault, RecvInvalid
  <2>2. CASE SendFragment \/ \E delivered \in BOOLEAN : SendFails(delivered)
    <3>1. /\ pc = "sending" /\ pc' \in {"ready", "sending", "receiving"}
          /\ UNCHANGED <<ids, ncalls, call_id, req_id, response_stub, toClient>>
          /\ heard' = heard \/ \E v : heard' = [heard EXCEPT ![ncalls] = v]
      BY <2>2 DEF SendFragment, SendFails, Delivered
    <3>2. Issued(ncalls)
      BY <3>1, IdTypes DEF IdInvariant, IdsIssued, Issued
    <3>3. \A c \in Calls : heard'[c] # "nothing" => Issued(c)
      BY <3>1, <3>2 DEF IdInvariant, IdsIssued, TypeInvariant, TypeOK
    <3>4. CallIdSeparation'
      BY <3>1 DEF IdInvariant, CallIdSeparation
    <3> QED
      BY <3>1, <3>3, <3>4, IdFrame
  <2>3. CASE RecvMore \/ RecvLast
    <3>1. /\ pc = "receiving" /\ pc' \in {"ready", "receiving"}
          /\ toClient # <<>> /\ toClient' = Tail(toClient)
          /\ Acceptable(Head(toClient))
          /\ response_stub' = Append(response_stub, Part(Head(toClient)))
          /\ UNCHANGED <<ids, ncalls, call_id, req_id, heard>>
      BY <2>3 DEF RecvMore, RecvLast, Appendable
    <3>2. \/ Part(Head(toClient)).call = ncalls
          \/ ncalls - Part(Head(toClient)).call >= MaxCallId
      BY <3>1, AppendedIsOurs DEF Part
    <3>3. CallIdSeparation'
      <4>1. response_stub \in Seq(StubParts) /\ Part(Head(toClient)) \in StubParts
        BY <3>1, HeadType DEF TypeInvariant, TypeOK
      <4>2. ASSUME NEW k \in DOMAIN response_stub'
            PROVE  (k \in DOMAIN response_stub /\ response_stub'[k] = response_stub[k])
                   \/ response_stub'[k] = Part(Head(toClient))
        BY <3>1, <4>1
      <4> QED
        BY <3>1, <3>2, <4>2 DEF IdInvariant, CallIdSeparation
    <3>4. \A c \in Calls : heard'[c] # "nothing" => Issued(c)
      BY <3>1 DEF IdInvariant, IdsIssued
    <3> QED
      BY <3>1, <3>3, <3>4, IdFrame
  <2> QED
    BY <1>5, <2>1, <2>2, <2>3 DEF FinishCall
<1>6. CASE ServerStep
  BY <1>6, ServerIds DEF ServerStep
<1> QED
  BY <1>1, <1>2, <1>3, <1>4, <1>5, <1>6 DEF Next

(***************************************************************************)
(* Ids are given out in a cycle and what waits in the transport carries    *)
(* the id of the call it answers, in every run of the client.              *)
(***************************************************************************)
THEOREM IdsHold == Spec => []IdInvariant
<1>1. Init => IdInvariant
  <2> SUFFICES ASSUME Init PROVE IdInvariant
    OBVIOUS
  <2>1. 0 \in Calls /\ \A c \in Calls : c \in Nat
    BY BoundsAssumption DEF Calls
  <2>2. \A c \in Calls : ~Issued(c)
    BY <2>1 DEF Init, Issued
  <2>3. IdsIssued /\ IdWindow
    BY <2>1, <2>2 DEF Init, IdsIssued, IdWindow, IsBound, InCall
  <2>4. DOMAIN toClient = {} /\ DOMAIN response_stub = {}
    BY DEF Init
  <2> QED
    BY <2>3, <2>4 DEF IdInvariant, QueueIds, CallIdSeparation
<1>2. TypeInvariant /\ IdInvariant /\ [Next]_vars => IdInvariant'
  <2> SUFFICES ASSUME TypeInvariant, IdInvariant, [Next]_vars PROVE IdInvariant'
    OBVIOUS
  <2>1. CASE UNCHANGED vars
    BY <2>1 DEF vars, client, callLocals, history, IdInvariant, IdsIssued, IdWindow,
                QueueIds, CallIdSeparation, IsBound, InCall, Issued
  <2> QED
    BY <2>1, IdStep
<1> QED
  BY <1>1, <1>2, TypeCorrect, PTL DEF Spec

(***************************************************************************)
(* No fragment of another call's answer ever enters a call's stub, unless  *)
(* all call ids were used in between: however many calls failed or timed   *)
(* out before, and whatever the server still sends for them.               *)
(***************************************************************************)
THEOREM CallsKeptApart == Spec => []CallIdSeparation
<1>1. IdInvariant => CallIdSeparation
  BY DEF IdInvariant
<1> QED
  BY <1>1, IdsHold, PTL
-----------------------------------------------------------------------------
(***************************************************************************)
(* In step with a server and a transport that keep the protocol.           *)
(***************************************************************************)

\* The server owes an answer to the bind or call in hand only.
InHandOnly(c) == (pc = "binding" /\ c = 0) \/ (InCall /\ c = ncalls)

\* What waits of the answer to c: PDUs the client can use, up to its end.
Awaited(c) ==
    /\ c \in finished => toClient # <<>>
    /\ \A i \in DOMAIN toClient :
          /\ toClient[i].call_id = ids[c] /\ toClient[i].ok
          /\ c # 0 => toClient[i].ptype \in {"Response", "Fault"}
          /\ EndsAnswer(toClient[i]) <=> i = Len(toClient) /\ c \in finished

\* An answer begins with a fragment that says so.
FirstComesFirst ==
    ~saw_first => IF toClient = <<>> THEN answered[ncalls] = 0 ELSE toClient[1].first

ServerKnows ==
    /\ \A c \in Calls : answered[c] # 0 => heard[c] # "nothing"
    /\ \A c \in finished : c \in Calls /\ heard[c] = "full"
    /\ \A c \in Calls : InHandOnly(c) \/ heard[c] = "nothing" \/ c \in finished

ClientKnows ==
    /\ pc \notin {"binding", "receiving"} => toClient = <<>>
    /\ ~IsBound => outbound = <<>>
    /\ pc = "ready" /\ outbound # <<>> => Returned("Ok") \/ Returned("Fault")

HandKnows ==
    /\ pc = "binding" => heard[0] = "full" /\ Awaited(0)
    /\ pc = "sending" => /\ heard[ncalls] # "full" /\ answered[ncalls] = 0
                         /\ outbound = <<>> => heard[ncalls] = "nothing"
    /\ pc = "receiving" => heard[ncalls] = "full" /\ Awaited(ncalls) /\ FirstComesFirst

StepInvariant ==
    Faults = {} /\ pc \notin {"failed", "panicked"} => ServerKnows /\ ClientKnows /\ HandKnows

\* What a step of such a behaviour may use, and what it must keep.
StepFacts ==
    /\ TypeInvariant /\ IdInvariant /\ RequestTiles /\ UnsupportedNeverSends
    /\ Faults = {} /\ ServerKnows /\ ClientKnows /\ HandKnows

StepKept == (ServerKnows /\ ClientKnows /\ HandKnows)'

(***************************************************************************)
(* A client is constructed without a bind, or given a fragment size.       *)
(***************************************************************************)
LEMMA StepConstruct ==
  ASSUME StepFacts, Construct \/ \E value \in XmitFrags : WithMaxXmitFrag(value)
  PROVE  StepKept
<1>1. /\ pc \in {"unbound", "ready"} /\ pc' = "ready"
      /\ UNCHANGED <<result, outbound, toClient, heard, answered, finished, ncalls>>
  BY DEF Construct, NewBound, NewBoundWithAuth, WithMaxXmitFrag, server, history
<1>2. ServerKnows'
  BY <1>1 DEF StepFacts, ServerKnows, InHandOnly, InCall
<1>3. ClientKnows'
  BY <1>1 DEF StepFacts, ClientKnows, IsBound, Returned
<1>4. HandKnows'
  BY <1>1 DEF HandKnows
<1> QED
  BY <1>2, <1>3, <1>4 DEF StepKept

(***************************************************************************)
(* A bind goes out to a server that has heard nothing yet.                 *)
(***************************************************************************)
LEMMA StepBindSent ==
  ASSUME StepFacts, NEW contexts, NEW level, NEW token, BindSent(contexts, level, token)
  PROVE  StepKept
<1>1. /\ pc = "unbound" /\ pc' = "binding"
      /\ heard' = [heard EXCEPT ![0] = "full"]
      /\ UNCHANGED <<outbound, toClient, answered, finished>>
  BY DEF BindSent, BindBegins, BindUntouched, server
<1>2. 0 \in Calls
  BY IdTypes DEF StepFacts
<1>3. heard[0] = "nothing"
  BY <1>1, <1>2 DEF StepFacts, IdInvariant, IdsIssued, Issued
<1>4. 0 \notin finished
  BY <1>3 DEF StepFacts, ServerKnows
<1>5. toClient = <<>> /\ outbound = <<>>
  BY <1>1 DEF StepFacts, ClientKnows, IsBound
<1>6. heard'[0] = "full" /\ \A c \in Calls : c # 0 => heard'[c] = heard[c]
  BY <1>1, <1>2 DEF StepFacts, TypeInvariant, TypeOK
<1>7. ServerKnows'
  BY <1>1, <1>4, <1>6 DEF StepFacts, ServerKnows, InHandOnly, InCall
<1>8. ClientKnows'
  BY <1>1, <1>5 DEF ClientKnows, IsBound
<1>9. HandKnows'
  BY <1>1, <1>4, <1>5, <1>6 DEF HandKnows, Awaited
<1> QED
  BY <1>7, <1>8, <1>9 DEF StepKept

(***************************************************************************)
(* The PDU in front of the queue, and what is behind it.                   *)
(***************************************************************************)
LEMMA FrontAndRest ==
  ASSUME StepFacts, toClient # <<>>
  PROVE  /\ Head(toClient) = toClient[1] /\ 1 \in DOMAIN toClient
         /\ Len(toClient) \in Nat \ {0} /\ Len(Tail(toClient)) = Len(toClient) - 1
         /\ \A k \in DOMAIN Tail(toClient) :
               k \in Nat /\ k + 1 \in DOMAIN toClient /\ Tail(toClient)[k] = toClient[k + 1]
         /\ Len(toClient) = 1 => Tail(toClient) = <<>>
         /\ Tail(toClient) = <<>> => Len(toClient) = 1
<1>1. toClient \in Seq(InPdus)
  BY DEF StepFacts, TypeInvariant, TypeOK
<1>2. Tail(toClient) \in Seq(InPdus) /\ Len(Tail(toClient)) = Len(toClient) - 1
      /\ Len(toClient) \in Nat \ {0}
  BY <1>1
<1>3. Head(toClient) = toClient[1] /\ 1 \in DOMAIN toClient
  BY <1>1, <1>2
<1>4. ASSUME NEW k \in DOMAIN Tail(toClient)
      PROVE  k \in Nat /\ k + 1 \in DOMAIN toClient /\ Tail(toClient)[k] = toClient[k + 1]
  BY <1>1, <1>2, <1>4
<1>5. \A s \in Seq(InPdus) : s = <<>> <=> Len(s) = 0
  OBVIOUS
<1>6. Tail(toClient) = <<>> <=> Len(toClient) - 1 = 0
  BY <1>2, <1>5
<1>7. Tail(toClient) = <<>> <=> Len(toClient) = 1
  BY <1>2, <1>6
<1> QED
  BY <1>2, <1>3, <1>4, <1>7

(***************************************************************************)
(* A bind ends with the one PDU that answers it.                           *)
(***************************************************************************)
LEMMA StepBindReply ==
  ASSUME StepFacts, NEW i,
         BindAccepted(i) \/ BindStepFails(i) \/ \E token \in TokenLens : BindStep(i, token)
  PROVE  StepKept
<1>1. /\ pc = "binding" /\ toClient # <<>> /\ toClient' = Tail(toClient)
      /\ Head(toClient).ptype = "BindAck"
      /\ UNCHANGED <<outbound, heard, answered, finished, ncalls>>
  BY DEF BindAccepted, BindStepFails, BindStep, RecvBindAckAccepted, ReceivesBindReply,
         AfterBindReply, server, history
<1>2. pc' \in {"ready", "auth3"}
  BY DEF StepFacts, BindAccepted, BindStepFails, BindStep, Bound
<1>3. EndsAnswer(toClient[1]) /\ 1 \in DOMAIN toClient
  BY <1>1, FrontAndRest DEF EndsAnswer
<1>4. 1 = Len(toClient) /\ 0 \in finished
  BY <1>1, <1>3 DEF StepFacts, HandKnows, Awaited
<1>5. toClient' = <<>> /\ outbound = <<>>
  BY <1>1, <1>4, FrontAndRest DEF StepFacts, ClientKnows, IsBound
<1>6. ServerKnows'
  BY <1>1, <1>2, <1>4 DEF StepFacts, ServerKnows, InHandOnly, InCall
<1>7. ClientKnows'
  BY <1>1, <1>2, <1>5 DEF ClientKnows
<1>8. HandKnows'
  BY <1>2 DEF HandKnows
<1> QED
  BY <1>6, <1>7, <1>8 DEF StepKept

(***************************************************************************)
(* An Auth3 has no answer.                                                 *)
(***************************************************************************)
LEMMA StepAuth3 ==
  ASSUME StepFacts, Auth3Sent
  PROVE  StepKept
<1>1. /\ pc = "auth3" /\ pc' = "ready"
      /\ UNCHANGED <<outbound, toClient, heard, answered, finished, ncalls>>
  BY DEF Auth3Sent, Bound, Auth3Ends, AfterBindReply, server, history
<1>2. ServerKnows'
  BY <1>1 DEF StepFacts, ServerKnows, InHandOnly, InCall
<1>3. ClientKnows' /\ HandKnows'
  BY <1>1 DEF StepFacts, ClientKnows, IsBound, HandKnows
<1> QED
  BY <1>2, <1>3 DEF StepKept

(***************************************************************************)
(* A call starts on an empty transport, with an id nobody has heard of.    *)
(***************************************************************************)
LEMMA StepCallStart ==
  ASSUME StepFacts, NEW len \in StubLens, CallStart(len)
  PROVE  StepKept
<1>1. /\ pc = "ready" /\ pc' \in {"ready", "sending"} /\ ncalls' = ncalls + 1
      /\ ncalls < MaxCalls /\ outbound' = <<>>
      /\ UNCHANGED <<toClient, heard, answered, finished>>
  BY DEF CallStart, Return, server
<1>2. ncalls \in Nat /\ ncalls + 1 \in Calls /\ ncalls + 1 # 0 /\ ~(ncalls + 1 <= ncalls)
  BY <1>1, BoundsAssumption DEF StepFacts, TypeInvariant, TypeOK, Calls
<1>3. heard[ncalls + 1] = "nothing"
  BY <1>2 DEF StepFacts, IdInvariant, IdsIssued, Issued
<1>4. answered[ncalls + 1] = 0
  BY <1>2, <1>3 DEF StepFacts, ServerKnows
<1>5. ServerKnows'
  BY <1>1 DEF StepFacts, ServerKnows, InHandOnly, InCall
<1>6. ClientKnows'
  BY <1>1 DEF StepFacts, ClientKnows, IsBound
<1>7. HandKnows'
  BY <1>1, <1>3, <1>4 DEF HandKnows
<1> QED
  BY <1>5, <1>6, <1>7 DEF StepKept
(***************************************************************************)
(* A request is refused before anything was sent, or goes on.              *)
(***************************************************************************)
LEMMA StepSend ==
  ASSUME StepFacts, SendRefused \/ SendFragment
  PROVE  StepKept
<1>1. /\ pc = "sending" /\ UNCHANGED <<toClient, answered, finished, ncalls>>
  BY DEF SendRefused, SendFragment, SendUntouched, server, history
<1>2. /\ ncalls \in Calls /\ heard[ncalls] # "full" /\ answered[ncalls] = 0
      /\ outbound = <<>> => heard[ncalls] = "nothing"
      /\ toClient = <<>> /\ ncalls \notin finished
  BY <1>1 DEF StepFacts, HandKnows, ClientKnows, ServerKnows, TypeInvariant, TypeOK
<1>3. CASE SendRefused
  <2>1. ~Supported(auth_provider.level) /\ pc' = "ready" /\ UNCHANGED <<outbound, heard>>
    BY <1>3 DEF SendRefused, Return
  <2>2. outbound = <<>>
    BY <2>1 DEF StepFacts, UnsupportedNeverSends, Supported
  <2>3. ServerKnows'
    BY <1>1, <1>2, <2>1, <2>2 DEF StepFacts, ServerKnows, InHandOnly, InCall
  <2>4. ClientKnows' /\ HandKnows'
    BY <1>1, <1>2, <2>1, <2>2 DEF ClientKnows, IsBound, HandKnows
  <2> QED
    BY <2>3, <2>4 DEF StepKept
<1>4. CASE SendFragment
  <2>1. /\ outbound' = Append(outbound, RequestFragment)
        /\ heard' = [heard EXCEPT ![ncalls] = IF RequestFragment.last THEN "full" ELSE "part"]
        /\ pc' = IF FragmentEnd = req_len THEN "receiving" ELSE "sending"
    BY <1>4 DEF SendFragment, Delivered
  <2>2. RequestFragment.last <=> FragmentEnd = req_len
    BY DEF RequestFragment
  <2>3. /\ heard'[ncalls] = IF FragmentEnd = req_len THEN "full" ELSE "part"
        /\ \A c \in Calls : c # ncalls => heard'[c] = heard[c]
    BY <1>2, <2>1, <2>2 DEF StepFacts, TypeInvariant, TypeOK
  <2>4. outbound' # <<>>
    BY <2>1 DEF StepFacts, TypeInvariant, TypeOK
  <2>5. ServerKnows'
    <3>1. \A c \in Calls : answered'[c] # 0 => heard'[c] # "nothing"
      BY <1>1, <1>2, <2>3 DEF StepFacts, ServerKnows
    <3>2. \A c \in finished' : c \in Calls /\ heard'[c] = "full"
      BY <1>1, <1>2, <2>3 DEF StepFacts, ServerKnows
    <3>3. pc' \in {"sending", "receiving"}
      BY <2>1
    <3>4. \A c \in Calls : InHandOnly(c)' \/ heard'[c] = "nothing" \/ c \in finished'
      BY <1>1, <2>3, <3>3 DEF StepFacts, ServerKnows, InHandOnly, InCall
    <3> QED
      BY <3>1, <3>2, <3>4 DEF ServerKnows
  <2>6. ClientKnows'
    BY <1>1, <1>2, <2>1 DEF ClientKnows, IsBound
  <2>7. HandKnows'
    BY <1>1, <1>2, <2>1, <2>3, <2>4 DEF HandKnows, Awaited, FirstComesFirst
  <2> QED
    BY <2>5, <2>6, <2>7 DEF StepKept
<1> QED
  BY <1>3, <1>4

(***************************************************************************)
(* Every PDU of the answer is one the client takes: the call goes on until *)
(* the end of the answer, and nothing is left behind it.                   *)
(***************************************************************************)
LEMMA StepRecv ==
  ASSUME StepFacts, RecvMore \/ RecvLast \/ RecvFault \/ RecvInvalid
  PROVE  StepKept
<1> DEFINE pdu == Head(toClient)
<1>1. /\ pc = "receiving" /\ toClient # <<>> /\ toClient' = Tail(toClient)
      /\ UNCHANGED <<outbound, heard, answered, finished, ncalls, ids>>
  BY DEF RecvMore, RecvLast, RecvFault, RecvInvalid, Receives, RecvUntouched, server, history
<1>2. /\ pdu = toClient[1] /\ 1 \in DOMAIN toClient
      /\ Len(toClient) \in Nat \ {0} /\ Len(Tail(toClient)) = Len(toClient) - 1
      /\ \A k \in DOMAIN Tail(toClient) :
            k \in Nat /\ k + 1 \in DOMAIN toClient /\ Tail(toClient)[k] = toClient[k + 1]
      /\ Len(toClient) = 1 => Tail(toClient) = <<>>
      /\ Tail(toClient) = <<>> => Len(toClient) = 1
  BY <1>1, FrontAndRest
<1>3. Awaited(ncalls) /\ heard[ncalls] = "full" /\ FirstComesFirst
  BY <1>1 DEF StepFacts, HandKnows
<1>4. ncalls \in Calls /\ ncalls \in Nat /\ ncalls # 0 /\ req_id = ids[ncalls]
  BY <1>1, BoundsAssumption
     DEF StepFacts, IdInvariant, IdsIssued, InCall, TypeInvariant, TypeOK, Calls
<1>5. Supported(auth_provider.level)
  <2>1. outbound # <<>>
    BY <1>1 DEF StepFacts, RequestTiles, InCall
  <2> QED
    BY <2>1 DEF StepFacts, UnsupportedNeverSends, Supported
<1>6. /\ pdu.call_id = req_id /\ pdu.ok /\ pdu.ptype \in {"Response", "Fault"}
      /\ EndsAnswer(pdu) <=> 1 = Len(toClient) /\ ncalls \in finished
  BY <1>2, <1>3, <1>4 DEF Awaited
<1>7. Acceptable(pdu)
  BY <1>5, <1>6 DEF Acceptable
<1>8. pdu.first \/ saw_first
  BY <1>1, <1>2, <1>3 DEF FirstComesFirst
<1>9. Appendable(pdu) \/ IsFault(pdu)
  BY <1>6, <1>7, <1>8 DEF Appendable, IsFault
<1>10. CASE RecvMore
  <2>1. pc' = pc /\ saw_first' = TRUE /\ pdu.ptype = "Response" /\ ~pdu.last
    BY <1>10 DEF RecvMore, Appendable
  <2>2. ~EndsAnswer(pdu)
    BY <2>1 DEF EndsAnswer
  <2>3. ncalls \in finished => Tail(toClient) # <<>>
    BY <1>2, <1>6, <2>2
  <2>4. ASSUME NEW k \in DOMAIN Tail(toClient)
        PROVE  /\ Tail(toClient)[k].call_id = ids[ncalls] /\ Tail(toClient)[k].ok
               /\ Tail(toClient)[k].ptype \in {"Response", "Fault"}
               /\ EndsAnswer(Tail(toClient)[k]) <=> k = Len(Tail(toClient)) /\ ncalls \in finished
    <3>1. k \in Nat /\ k + 1 \in DOMAIN toClient /\ Tail(toClient)[k] = toClient[k + 1]
      BY <1>2, <2>4
    <3>2. k + 1 = Len(toClient) <=> k = Len(Tail(toClient))
      BY <1>2, <3>1
    <3> HIDE DEF pdu
    <3> QED
      BY <1>3, <1>4, <3>1, <3>2 DEF Awaited
  <2>5. Awaited(ncalls)'
    BY <1>1, <2>3, <2>4 DEF Awaited
  <2>6. ServerKnows'
    BY <1>1, <2>1 DEF StepFacts, ServerKnows, InHandOnly, InCall
  <2>7. ClientKnows'
    BY <1>1, <2>1 DEF ClientKnows, IsBound
  <2>8. HandKnows'
    BY <1>1, <1>3, <2>1, <2>5 DEF HandKnows, FirstComesFirst
  <2> QED
    BY <2>6, <2>7, <2>8 DEF StepKept
<1>11. CASE RecvLast \/ RecvFault
  <2>1. pc' = "ready" /\ result' \in {"Ok", "Fault"}
    BY <1>11 DEF StepFacts, RecvLast, RecvFault, Return
  <2>2. EndsAnswer(pdu)
    BY <1>11 DEF RecvLast, RecvFault, Appendable, IsFault, EndsAnswer
  <2>3. Tail(toClient) = <<>> /\ ncalls \in finished
    BY <1>2, <1>6, <2>2
  <2>4. ServerKnows'
    BY <1>1, <2>1, <2>3 DEF StepFacts, ServerKnows, InHandOnly, InCall
  <2>5. ClientKnows'
    <3>1. ncalls' > 0
      BY <1>1, <1>4
    <3> QED
      BY <1>1, <2>1, <2>3, <3>1 DEF ClientKnows, IsBound, Returned
  <2>6. HandKnows'
    BY <2>1 DEF HandKnows
  <2> QED
    BY <2>4, <2>5, <2>6 DEF StepKept
<1>12. CASE RecvInvalid
  BY <1>9, <1>12 DEF RecvInvalid
<1> QED
  BY <1>10, <1>11, <1>12
(***************************************************************************)
(* A server that keeps the protocol answers the bind or call in hand only. *)
(***************************************************************************)
LEMMA StepServer ==
  ASSUME StepFacts, ServerStep
  PROVE  StepKept
<1>1. PICK c \in Calls : \E reply \in Replies(c), id \in ReplyIds(c) : ServerAnswer(c, reply, id)
  BY DEF ServerStep
<1>2. PICK reply \in Replies(c), id \in ReplyIds(c) : ServerAnswer(c, reply, id)
  BY <1>1
<1> DEFINE pdu == InPdu(c, reply, id)
<1>3. /\ Conforms(c, reply) /\ toClient' = Append(toClient, pdu)
      /\ answered' = [answered EXCEPT ![c] = @ + 1]
      /\ finished' = IF EndsAnswer(reply) THEN finished \cup {c} ELSE finished
      /\ UNCHANGED <<pc, result, saw_first, outbound, heard, ncalls, ids>>
  BY <1>2 DEF StepFacts, ServerAnswer, callLocals, history
<1>4. /\ heard[c] = "full" /\ c \notin finished /\ reply.ok
      /\ reply.ptype \in IF c = 0 THEN {"BindAck", "BindNak"} ELSE {"Response", "Fault"}
      /\ reply.ptype = "Response" => reply.first = (answered[c] = 0)
  BY <1>3 DEF Conforms
<1>5. InHandOnly(c)
  BY <1>4 DEF StepFacts, ServerKnows
<1>6. (pc = "binding" /\ c = 0) \/ (pc = "receiving" /\ c = ncalls)
  BY <1>4, <1>5 DEF StepFacts, HandKnows, InHandOnly, InCall
<1>7. Awaited(c)
  BY <1>6 DEF StepFacts, HandKnows
<1>8. id = ids[c]
  BY <1>2 DEF StepFacts, ReplyIds
<1>9. /\ pdu.call_id = ids[c] /\ pdu.ok /\ pdu.ptype = reply.ptype /\ pdu.first = reply.first
      /\ EndsAnswer(pdu) <=> EndsAnswer(reply)
  BY <1>4, <1>8 DEF InPdu, EndsAnswer
<1>10. pdu \in InPdus /\ toClient \in Seq(InPdus)
  BY <1>1, <1>2, InPduType DEF StepFacts, TypeInvariant, TypeOK, ServerAnswer
<1> HIDE DEF pdu
<1>11. /\ Len(toClient') = Len(toClient) + 1 /\ Len(toClient) \in Nat /\ toClient' # <<>>
       /\ toClient'[Len(toClient) + 1] = pdu
       /\ \A k \in DOMAIN toClient' :
             \/ k = Len(toClient) + 1
             \/ k \in DOMAIN toClient /\ k # Len(toClient) + 1 /\ toClient'[k] = toClient[k]
  BY <1>3, <1>10
<1>12. c \in finished' <=> EndsAnswer(reply)
  BY <1>3, <1>4
<1>13. ASSUME NEW k \in DOMAIN toClient'
       PROVE  /\ toClient'[k].call_id = ids[c] /\ toClient'[k].ok
              /\ c # 0 => toClient'[k].ptype \in {"Response", "Fault"}
              /\ EndsAnswer(toClient'[k]) <=> k = Len(toClient') /\ c \in finished'
  <2>1. CASE k = Len(toClient) + 1
    BY <1>4, <1>9, <1>11, <1>12, <2>1
  <2>2. CASE k \in DOMAIN toClient /\ k # Len(toClient) + 1 /\ toClient'[k] = toClient[k]
    BY <1>4, <1>7, <1>11, <2>2 DEF Awaited
  <2> QED
    BY <1>11, <1>13, <2>1, <2>2
<1>14. Awaited(c)'
  BY <1>3, <1>11, <1>13 DEF Awaited
<1>15. ASSUME pc = "receiving" PROVE FirstComesFirst'
  <2>1. FirstComesFirst /\ c = ncalls
    BY <1>6, <1>15 DEF StepFacts, HandKnows
  <2>2. CASE toClient = <<>>
    <3>1. toClient'[1] = pdu
      BY <1>11, <2>2
    <3>2. ~saw_first /\ reply.ptype = "Response" => reply.first
      BY <1>4, <2>1, <2>2 DEF FirstComesFirst
    <3>3. reply.ptype # "Response" => reply.first
      BY <1>2, <1>4 DEF Replies
    <3> QED
      BY <1>3, <1>9, <1>11, <3>1, <3>2, <3>3 DEF FirstComesFirst
  <2>3. CASE toClient # <<>>
    <3>1. toClient'[1] = toClient[1]
      BY <1>3, <1>10, <2>3
    <3> QED
      BY <1>3, <1>11, <2>1, <2>3, <3>1 DEF FirstComesFirst
  <2> QED
    BY <2>2, <2>3
<1>16. ServerKnows'
  <2>1. \A e \in Calls : answered'[e] # 0 => heard'[e] # "nothing"
    BY <1>3, <1>4 DEF StepFacts, ServerKnows, TypeInvariant, TypeOK
  <2>2. \A e \in finished' : e \in Calls /\ heard'[e] = "full"
    BY <1>1, <1>3, <1>4 DEF StepFacts, ServerKnows
  <2>3. \A e \in Calls : InHandOnly(e)' \/ heard'[e] = "nothing" \/ e \in finished'
    BY <1>3 DEF StepFacts, ServerKnows, InHandOnly, InCall
  <2> QED
    BY <2>1, <2>2, <2>3 DEF ServerKnows
<1>17. ClientKnows'
  BY <1>3, <1>6 DEF StepFacts, ClientKnows, IsBound
<1>18. HandKnows'
  BY <1>3, <1>4, <1>6, <1>14, <1>15 DEF HandKnows
<1> QED
  BY <1>16, <1>17, <1>18 DEF StepKept

(***************************************************************************)
(* Without faults every step that does not end the client keeps it in      *)
(* step with its server.                                                   *)
(***************************************************************************)
LEMMA StepKeeps ==
  ASSUME StepFacts, Next, pc' \notin {"failed", "panicked"}
  PROVE  StepKept
<1>1. CASE Construct \/ \E value \in XmitFrags : WithMaxXmitFrag(value)
  BY <1>1, StepConstruct
<1>2. CASE StartBind
  <2>1. \E contexts, level, token : BindSent(contexts, level, token)
    BY <1>2 DEF StartBind, BindEmpty, BindInitFails, BindPanics, BindRefused, BindSendFails,
                BindFails
  <2> QED
    BY <2>1, StepBindSent
<1>3. CASE FinishBind
  <2>1. \/ Auth3Sent
        \/ \E i : BindAccepted(i) \/ BindStepFails(i) \/ \E token \in TokenLens : BindStep(i, token)
    BY <1>3 DEF FinishBind, BindRecvFails, RecvBindInvalid, RecvBindNak, RecvBindAckRejected,
                Auth3Refused, Auth3SendFails, BindFails
  <2> QED
    BY <2>1, StepBindReply, StepAuth3
<1>4. CASE StartCall
  BY <1>4, StepCallStart DEF StepFacts, StartCall, SerializeFails
<1>5. CASE FinishCall
  BY <1>5, StepSend, StepRecv DEF StepFacts, FinishCall, SendFails, RecvFails
<1>6. CASE ServerStep
  BY <1>6, StepServer
<1> QED
  BY <1>1, <1>2, <1>3, <1>4, <1>5, <1>6 DEF Next

(***************************************************************************)
(* A bind that failed, or panicked, has ended the client.                  *)
(***************************************************************************)
LEMMA FailedStays ==
  ASSUME Next, pc \in {"failed", "panicked"}
  PROVE  pc' = pc
<1>1. CASE Construct \/ (\E value \in XmitFrags : WithMaxXmitFrag(value)) \/ StartBind
  BY <1>1 DEF Construct, NewBound, NewBoundWithAuth, WithMaxXmitFrag, StartBind, BindEmpty,
              BindInitFails, BindPanics, BindRefused, BindSent, BindSendFails, BindBegins
<1>2. CASE FinishBind
  BY <1>2 DEF FinishBind, BindRecvFails, RecvBindInvalid, RecvBindNak, RecvBindAckRejected,
              BindAccepted, BindStepFails, BindStep, RecvBindAckAccepted, ReceivesBindReply,
              Auth3Refused, Auth3SendFails, Auth3Sent
<1>3. CASE StartCall \/ FinishCall
  BY <1>3 DEF StartCall, SerializeFails, CallStart, FinishCall, SendRefused, SendFragment,
              SendFails, RecvFails, RecvMore, RecvLast, RecvFault, RecvInvalid, Receives
<1>4. CASE ServerStep
  BY <1>4 DEF ServerStep, ServerAnswer
<1> QED
  BY <1>1, <1>2, <1>3, <1>4 DEF Next

(***************************************************************************)
(* Over a transport and to a server that keep the protocol, nothing is in  *)
(* flight between calls and every call sent has had its answer, however    *)
(* many calls, fragments and PDUs there are.                               *)
(***************************************************************************)
THEOREM StaysInStep == Spec => []InStep
<1>1. Init => StepInvariant
  <2> SUFFICES ASSUME Init PROVE ServerKnows /\ ClientKnows /\ HandKnows
    BY DEF StepInvariant
  <2>1. \A c \in Calls : answered[c] = 0 /\ heard[c] = "nothing"
    BY DEF Init
  <2>2. pc = "unbound" /\ toClient = <<>> /\ outbound = <<>> /\ finished = {}
    BY DEF Init
  <2> QED
    BY <2>1, <2>2 DEF ServerKnows, ClientKnows, HandKnows
<1>2. TypeInvariant /\ IdInvariant /\ RequestTiles /\ UnsupportedNeverSends /\ StepInvariant
         /\ [Next]_vars => StepInvariant'
  <2> SUFFICES ASSUME TypeInvariant, IdInvariant, RequestTiles, UnsupportedNeverSends,
                      StepInvariant, [Next]_vars
               PROVE  StepInvariant'
    OBVIOUS
  <2>1. CASE UNCHANGED vars
    BY <2>1 DEF vars, client, callLocals, server, history, StepInvariant, ServerKnows,
                ClientKnows, HandKnows, InHandOnly, Awaited, FirstComesFirst, IsBound, InCall,
                Returned
  <2>2. CASE Next /\ Faults = {} /\ pc' \notin {"failed", "panicked"}
    <3>1. StepFacts
      BY <2>2, FailedStays DEF StepFacts, StepInvariant
    <3> QED
      BY <2>2, <3>1, StepKeeps DEF StepKept, StepInvariant
  <2> QED
    BY <2>1, <2>2 DEF StepInvariant
<1>3. StepInvariant => InStep
  BY DEF StepInvariant, InStep, ServerKnows, ClientKnows, InHandOnly, InCall
<1> QED
  BY <1>1, <1>2, <1>3, TypeCorrect, IdsHold, RequestsTile, UnsupportedSilent, PTL DEF Spec

-----------------------------------------------------------------------------
(* Answers. *)

(***************************************************************************)
(* What waits in the transport: the PDUs of each answer in the order they  *)
(* were sent, and the end of an answer only after the server ended it.     *)
(***************************************************************************)
QueueOrder ==
    /\ \A i \in DOMAIN toClient :
          /\ toClient[i].rank \in 1..answered[toClient[i].call]
          /\ EndsAnswer(toClient[i]) => toClient[i].call \in finished
    /\ \A i, j \in DOMAIN toClient :
          i < j /\ toClient[i].call = toClient[j].call => toClient[i].rank < toClient[j].rank
    /\ \A c \in Calls : answered[c] # 0 => heard[c] # "nothing"

(***************************************************************************)
(* What the call in hand has gathered: a beginning of its answer.          *)
(***************************************************************************)
StubInOrder ==
    /\ saw_first <=> response_stub # <<>>
    /\ response_stub # <<>> => response_stub[1].first
    /\ \A k \in DOMAIN response_stub :
          response_stub[k].call = ncalls /\ response_stub[k].rank = k /\ ~response_stub[k].last

(***************************************************************************)
(* What is missing of the answer, and only that, still waits: nothing of   *)
(* it was lost, as a loss ends the call.                                   *)
(***************************************************************************)
RestWaits ==
    /\ Len(response_stub) <= answered[ncalls]
    /\ \A i \in DOMAIN toClient :
          toClient[i].call = ncalls => toClient[i].rank > Len(response_stub)
    /\ \A r \in (Len(response_stub) + 1)..answered[ncalls] :
          \E i \in DOMAIN toClient : toClient[i].call = ncalls /\ toClient[i].rank = r

(***************************************************************************)
(* A call that found the transport not empty meets a PDU of another call.  *)
(***************************************************************************)
StaleInFront == response_stub = <<>> /\ toClient # <<>> /\ toClient[1].call # ncalls

InHand ==
    InCall /\ ncalls < MaxCallId =>
       /\ StubInOrder
       /\ IF stale THEN StaleInFront ELSE RestWaits
       /\ pc = "receiving" => heard[ncalls] = "full"

AnswerInvariant == QueueOrder /\ InHand /\ OkIsWholeAnswer /\ StaleCallFails /\ FaultIsOurs

-----------------------------------------------------------------------------
(***************************************************************************)
(* A waiting PDU, its call and its rank.                                   *)
(***************************************************************************)
LEMMA QueueTypes ==
  ASSUME TypeInvariant
  PROVE  /\ toClient \in Seq(InPdus) /\ response_stub \in Seq(StubParts)
         /\ Len(toClient) \in Nat /\ DOMAIN toClient = 1..Len(toClient)
         /\ Len(response_stub) \in Nat /\ DOMAIN response_stub = 1..Len(response_stub)
         /\ \A i \in DOMAIN toClient : toClient[i] \in InPdus
         /\ \A i \in DOMAIN toClient : toClient[i].call \in Calls /\ toClient[i].rank \in Nat
         /\ \A c \in Calls : answered[c] \in Nat
<1>1. toClient \in Seq(InPdus) /\ response_stub \in Seq(StubParts)
      /\ answered \in [Calls -> 0..MaxPdus]
  BY DEF TypeInvariant, TypeOK
<1>2. \A i \in DOMAIN toClient : toClient[i] \in InPdus
  BY <1>1
<1>3. \A i \in DOMAIN toClient : toClient[i].call \in Calls /\ toClient[i].rank \in Nat
  BY <1>2 DEF InPdus
<1>4. \A c \in Calls : answered[c] \in Nat
  BY <1>1, BoundsAssumption
<1> QED
  BY <1>1, <1>2, <1>3, <1>4

(***************************************************************************)
(* Receiving, or losing, the PDU in front keeps the order of the others.   *)
(***************************************************************************)
LEMMA OrderKept ==
  ASSUME TypeInvariant, QueueOrder,
         toClient' = toClient \/ (toClient # <<>> /\ toClient' = Tail(toClient)),
         UNCHANGED <<answered, finished>>,
         \A c \in Calls : heard[c] # "nothing" => heard'[c] # "nothing"
  PROVE  QueueOrder'
<1>1. CASE toClient' = toClient
  BY <1>1 DEF QueueOrder, EndsAnswer
<1>2. CASE toClient # <<>> /\ toClient' = Tail(toClient)
  <2> toClient \in Seq(InPdus)
    BY QueueTypes
  <2>1. ASSUME NEW k \in DOMAIN toClient'
        PROVE  k + 1 \in DOMAIN toClient /\ toClient'[k] = toClient[k + 1]
    BY <1>2
  <2>2. DOMAIN toClient' \subseteq Nat
    BY <1>2
  <2>3. \A k \in DOMAIN toClient' :
           /\ toClient'[k].rank \in 1..answered[toClient'[k].call]
           /\ EndsAnswer(toClient'[k]) => toClient'[k].call \in finished
    BY <2>1 DEF QueueOrder
  <2>4. ASSUME NEW i \in DOMAIN toClient', NEW j \in DOMAIN toClient', i < j,
               toClient'[i].call = toClient'[j].call
        PROVE  toClient'[i].rank < toClient'[j].rank
    <3>1. i + 1 < j + 1
      BY <2>2, <2>4
    <3>2. /\ i + 1 \in DOMAIN toClient /\ toClient'[i] = toClient[i + 1]
          /\ j + 1 \in DOMAIN toClient /\ toClient'[j] = toClient[j + 1]
      BY <2>1
    <3> QED
      BY <2>4, <3>1, <3>2 DEF QueueOrder
  <2> QED
    BY <2>3, <2>4 DEF QueueOrder, EndsAnswer
<1> QED
  BY <1>1, <1>2

(***************************************************************************)
(* The heart of it: a PDU that the client accepts is the next one of the   *)
(* answer to the call in hand, and nothing waited when that call began.    *)
(***************************************************************************)
LEMMA HeadFollows ==
  ASSUME TypeInvariant, IdInvariant, AnswerInvariant, pc = "receiving", ncalls < MaxCallId,
         toClient # <<>>, Acceptable(Head(toClient))
  PROVE  /\ ~stale /\ StubInOrder /\ RestWaits /\ heard[ncalls] = "full"
         /\ Head(toClient) = toClient[1] /\ Head(toClient) \in InPdus
         /\ Head(toClient).call = ncalls
         /\ Head(toClient).rank = Len(response_stub) + 1
<1>1. InCall /\ InHand /\ QueueOrder
  BY DEF InCall, AnswerInvariant
<1>2. 1 \in DOMAIN toClient /\ Head(toClient) = toClient[1] /\ toClient[1] \in InPdus
  BY QueueTypes
<1>3. toClient[1].call \in Nat /\ ncalls \in Nat /\ MaxCallId \in Nat /\ ncalls \in Calls
  BY <1>2, IdTypes
<1>4. toClient[1].call = ncalls
  BY <1>1, <1>2, <1>3, AppendedIsOurs
<1>5. ~stale /\ StubInOrder /\ RestWaits /\ heard[ncalls] = "full"
  BY <1>1, <1>4 DEF InHand, StaleInFront
<1>6. /\ toClient[1].rank \in Nat /\ Len(response_stub) \in Nat /\ answered[ncalls] \in Nat
      /\ toClient[1].rank > Len(response_stub) /\ toClient[1].rank <= answered[ncalls]
  BY <1>1, <1>2, <1>3, <1>4, <1>5, QueueTypes DEF RestWaits, QueueOrder
<1>7. PICK i \in DOMAIN toClient :
         toClient[i].call = ncalls /\ toClient[i].rank = Len(response_stub) + 1
  BY <1>5, <1>6 DEF RestWaits
<1>8. i = 1 \/ 1 < i
  BY QueueTypes
<1>9. toClient[1].rank = Len(response_stub) + 1
  BY <1>1, <1>2, <1>4, <1>6, <1>7, <1>8 DEF QueueOrder
<1> QED
  BY <1>2, <1>4, <1>5, <1>9

(***************************************************************************)
(* A step outside a call, or one that ends a call with an error.           *)
(***************************************************************************)
LEMMA AnswerQuiet ==
  ASSUME TypeInvariant, AnswerInvariant,
         toClient' = toClient \/ (toClient # <<>> /\ toClient' = Tail(toClient)),
         UNCHANGED <<answered, finished, ncalls, stale, response_stub>>,
         \A c \in Calls : heard[c] # "nothing" => heard'[c] # "nothing",
         ~InCall',
         \/ pc' # "ready" \/ ncalls = 0 \/ result' \notin {"Ok", "Fault"}
         \/ UNCHANGED <<pc, result, heard>>
  PROVE  AnswerInvariant'
<1>1. QueueOrder'
  BY OrderKept DEF AnswerInvariant
<1>2. InHand'
  BY DEF InHand
<1>3. (Returned("Ok") \/ Returned("Fault"))' => UNCHANGED <<pc, result, heard>>
  BY IdTypes DEF Returned
<1>4. OkIsWholeAnswer' /\ StaleCallFails' /\ FaultIsOurs'
  BY <1>3 DEF AnswerInvariant, OkIsWholeAnswer, StaleCallFails, FaultIsOurs, Returned
<1> QED
  BY <1>1, <1>2, <1>4 DEF AnswerInvariant

(***************************************************************************)
(* A call begins: what waits now is of other calls.                        *)
(***************************************************************************)
LEMMA CallStartAnswer ==
  ASSUME TypeInvariant, IdInvariant, AnswerInvariant, NEW len, CallStart(len)
  PROVE  AnswerInvariant'
<1>1. /\ ncalls' = ncalls + 1 /\ ncalls < MaxCalls /\ stale' = (toClient # <<>>)
      /\ saw_first' = FALSE /\ response_stub' = <<>>
      /\ pc' = "sending" \/ (pc' = "ready" /\ result' = "InvalidPdu")
      /\ UNCHANGED <<toClient, heard, answered, finished>>
  BY DEF CallStart, Return, server
<1>2. QueueOrder'
  BY <1>1, OrderKept DEF AnswerInvariant
<1>3. ncalls \in Nat /\ ncalls + 1 \in Calls /\ \A c \in Calls : c \in Nat
  BY <1>1, IdTypes, BoundsAssumption DEF Calls
<1>4. ~Issued(ncalls + 1)
  BY <1>3 DEF Issued
<1>5. \A i \in DOMAIN toClient : toClient[i].call # ncalls'
  BY <1>1, <1>4 DEF IdInvariant, QueueIds
<1>6. answered[ncalls + 1] = 0
  BY <1>3, <1>4 DEF IdInvariant, IdsIssued, AnswerInvariant, QueueOrder
<1>7. StubInOrder'
  <2>1. DOMAIN response_stub' = {} /\ ~saw_first'
    BY <1>1
  <2> QED
    BY <1>1, <2>1 DEF StubInOrder
<1>8. CASE toClient # <<>>
  <2>1. 1 \in DOMAIN toClient
    BY <1>8, QueueTypes
  <2>2. StaleInFront'
    BY <1>1, <1>5, <1>8, <2>1 DEF StaleInFront
  <2> QED
    BY <1>1, <1>2, <1>7, <1>8, <2>2
       DEF AnswerInvariant, InHand, OkIsWholeAnswer, StaleCallFails, FaultIsOurs, Returned
<1>9. CASE toClient = <<>>
  <2>1. Len(response_stub') = 0 /\ answered'[ncalls'] = 0
    BY <1>1, <1>6
  <2>2. RestWaits'
    BY <1>1, <1>5, <2>1 DEF RestWaits
  <2> QED
    BY <1>1, <1>2, <1>7, <1>9, <2>2
       DEF AnswerInvariant, InHand, OkIsWholeAnswer, StaleCallFails, FaultIsOurs, Returned
<1> QED
  BY <1>8, <1>9

(***************************************************************************)
(* A request fragment goes out; after the last the server heard it all.    *)
(***************************************************************************)
LEMMA SendAnswer ==
  ASSUME TypeInvariant, IdInvariant, AnswerInvariant,
         SendFragment \/ \E delivered \in BOOLEAN : SendFails(delivered)
  PROVE  AnswerInvariant'
<1>1. /\ pc = "sending"
      /\ UNCHANGED <<toClient, answered, finished, ncalls, stale, response_stub, saw_first>>
      /\ heard' = heard \/ \E v \in {"part", "full"} : heard' = [heard EXCEPT ![ncalls] = v]
  BY DEF SendFragment, SendFails, Delivered, SendUntouched, server, history
<1>2. ncalls \in Calls /\ heard \in [Calls -> {"nothing", "part", "full"}]
  BY DEF TypeInvariant, TypeOK
<1>3. \A c \in Calls : heard[c] # "nothing" => heard'[c] # "nothing"
  BY <1>1, <1>2
<1>4. CASE SendFragment
  <2>1. /\ pc' \in {"sending", "receiving"}
        /\ pc' = "receiving" => heard' = [heard EXCEPT ![ncalls] = "full"]
    BY <1>4 DEF SendFragment, Delivered, RequestFragment
  <2>2. QueueOrder'
    BY <1>1, <1>3, OrderKept DEF AnswerInvariant
  <2>3. InHand'
    <3>1. pc' = "receiving" => heard'[ncalls] = "full"
      BY <1>2, <2>1
    <3> QED
      BY <1>1, <3>1 DEF AnswerInvariant, InHand, InCall, StubInOrder, StaleInFront, RestWaits
  <2>4. OkIsWholeAnswer' /\ StaleCallFails' /\ FaultIsOurs'
    BY <1>1, <2>1 DEF AnswerInvariant, OkIsWholeAnswer, StaleCallFails, FaultIsOurs, Returned
  <2> QED
    BY <2>2, <2>3, <2>4 DEF AnswerInvariant
<1>5. CASE \E delivered \in BOOLEAN : SendFails(delivered)
  <2>1. pc' = "ready" /\ result' = "Transport"
    BY <1>5 DEF SendFails, Return
  <2> QED
    BY <1>1, <1>3, <2>1, AnswerQuiet DEF InCall
<1> QED
  BY <1>4, <1>5

(***************************************************************************)
(* The next fragment of the answer is appended; if it is the last, the     *)
(* stub is the whole answer.                                               *)
(***************************************************************************)
LEMMA RecvAnswer ==
  ASSUME TypeInvariant, IdInvariant, AnswerInvariant, RecvMore \/ RecvLast
  PROVE  AnswerInvariant'
<1> DEFINE pdu == Head(toClient)
           n == Len(response_stub)
<1>1. /\ pc = "receiving" /\ toClient # <<>> /\ toClient' = Tail(toClient)
      /\ Appendable(pdu) /\ saw_first' = TRUE
      /\ response_stub' = Append(response_stub, Part(pdu))
      /\ UNCHANGED <<answered, finished, heard, ncalls, stale>>
  BY DEF RecvMore, RecvLast, Receives, RecvUntouched, server, history
<1>2. QueueOrder'
  BY <1>1, OrderKept DEF AnswerInvariant
<1>3. CASE ncalls < MaxCallId
  <2>1. /\ ~stale /\ StubInOrder /\ RestWaits /\ heard[ncalls] = "full"
        /\ pdu \in InPdus /\ pdu = toClient[1]
        /\ pdu.call = ncalls /\ pdu.rank = n + 1
    BY <1>1, <1>3, HeadFollows DEF Appendable
  <2>2. /\ n \in Nat /\ response_stub \in Seq(StubParts) /\ toClient \in Seq(InPdus)
        /\ Part(pdu) \in StubParts
    BY <1>1, QueueTypes, HeadType DEF TypeInvariant
  <2>3. /\ Len(response_stub') = n + 1 /\ DOMAIN response_stub' = 1..(n + 1)
        /\ response_stub'[n + 1] = Part(pdu)
        /\ \A k \in DOMAIN response_stub : response_stub'[k] = response_stub[k]
        /\ DOMAIN response_stub = 1..n
    BY <1>1, <2>2
  <2>4. /\ Part(pdu).call = ncalls /\ Part(pdu).rank = n + 1
        /\ Part(pdu).first = pdu.first /\ Part(pdu).last = pdu.last
    BY <2>1 DEF Part
  <2>5. response_stub' # <<>> /\ response_stub'[1].first
    <3>1. CASE n = 0
      <4>1. response_stub = <<>>
        BY <2>2, <3>1
      <4>2. pdu.first
        <5>1. ~saw_first
          BY <2>1, <4>1 DEF StubInOrder
        <5> QED
          BY <1>1, <5>1 DEF Appendable
      <4>3. response_stub'[1] = Part(pdu)
        BY <2>2, <2>3, <3>1
      <4>4. Part(pdu).first
        BY <2>4, <4>2
      <4>5. response_stub' # <<>>
        <5>1. 1 \in DOMAIN response_stub'
          BY <2>2, <2>3
        <5>2. DOMAIN <<>> = {}
          OBVIOUS
        <5> QED
          BY <5>1, <5>2
      <4> QED
        BY <4>3, <4>4, <4>5
    <3>2. CASE n # 0
      <4>1. response_stub # <<>> /\ 1 \in DOMAIN response_stub
        BY <2>2, <2>3, <3>2
      <4> QED
        BY <2>1, <2>2, <2>3, <4>1 DEF StubInOrder
    <3> QED
      BY <3>1, <3>2
  <2>6. \A k \in DOMAIN response_stub' :
           /\ response_stub'[k].call = ncalls /\ response_stub'[k].rank = k
           /\ k # n + 1 => ~response_stub'[k].last
    <3>1. ASSUME NEW k \in DOMAIN response_stub' PROVE k \in DOMAIN response_stub \/ k = n + 1
      BY <2>2, <2>3
    <3> QED
      BY <2>1, <2>3, <2>4, <3>1 DEF StubInOrder
  <2>7. CASE RecvMore
    <3>1. ~pdu.last /\ UNCHANGED <<pc, result>>
      BY <2>7 DEF RecvMore
    <3>2. StubInOrder'
      BY <1>1, <2>3, <2>4, <2>5, <2>6, <3>1 DEF StubInOrder
    <3>3. RestWaits'
      <4>1. ASSUME NEW k \in DOMAIN toClient'
            PROVE  k + 1 \in DOMAIN toClient /\ toClient'[k] = toClient[k + 1] /\ 1 < k + 1
        BY <1>1, <2>2
      <4>2. ASSUME NEW k \in DOMAIN toClient', toClient'[k].call = ncalls
            PROVE  toClient'[k].rank > n + 1
        <5>1. 1 \in DOMAIN toClient
          BY <1>1, <2>2
        <5> QED
          BY <2>1, <2>2, <4>1, <4>2, <5>1, QueueTypes DEF AnswerInvariant, QueueOrder
      <4>3. ASSUME NEW r \in (n + 2)..answered[ncalls]
            PROVE  \E k \in DOMAIN toClient' : toClient'[k].call = ncalls /\ toClient'[k].rank = r
        <5>1. r \in (n + 1)..answered[ncalls] /\ r # n + 1
          BY <2>2, IdTypes, QueueTypes
        <5>2. PICK i \in DOMAIN toClient : toClient[i].call = ncalls /\ toClient[i].rank = r
          BY <2>1, <5>1 DEF RestWaits
        <5>3. i # 1
          BY <2>1, <5>1, <5>2
        <5>4. i - 1 \in DOMAIN toClient' /\ toClient'[i - 1] = toClient[i]
          BY <1>1, <2>2, <5>3
        <5> QED
          BY <5>2, <5>4
      <4>4. Len(response_stub)' + 1 = n + 2 /\ Len(response_stub') <= answered[ncalls]
        <5>1. pdu.rank \in 1..answered[ncalls]
          BY <1>1, <2>1, QueueTypes DEF AnswerInvariant, QueueOrder
        <5> QED
          BY <2>1, <2>2, <2>3, <5>1, IdTypes, QueueTypes
      <4> QED
        BY <1>1, <2>3, <4>2, <4>3, <4>4 DEF RestWaits
    <3>4. OkIsWholeAnswer' /\ StaleCallFails' /\ FaultIsOurs'
      BY <1>1, <2>1, <3>1 DEF OkIsWholeAnswer, StaleCallFails, FaultIsOurs, Returned
    <3> QED
      BY <1>1, <1>2, <2>1, <3>2, <3>3, <3>4 DEF AnswerInvariant, InHand
  <2>8. CASE RecvLast
    <3>1. pdu.last /\ pc' = "ready" /\ result' \in {"Ok", "Ndr"}
      BY <2>8 DEF RecvLast, Return
    <3>2. ASSUME NEW k \in DOMAIN response_stub'
          PROVE  response_stub'[k].last = (k = Len(response_stub'))
      <4>1. response_stub'[k].last \in BOOLEAN
        <5>1. response_stub'[k] \in StubParts
          BY <1>1, <2>2
        <5> QED
          BY <5>1 DEF StubParts
      <4>2. CASE k = n + 1
        <5>1. response_stub'[k].last
          BY <2>3, <2>4, <3>1, <4>2
        <5> QED
          BY <2>3, <4>1, <4>2, <5>1
      <4>3. CASE k # n + 1
        BY <2>3, <2>6, <4>1, <4>3
      <4> QED
        BY <4>2, <4>3
    <3>3. OkIsWholeAnswer'
      BY <1>1, <2>5, <2>6, <3>2 DEF OkIsWholeAnswer
    <3>4. StaleCallFails' /\ FaultIsOurs' /\ InHand'
      BY <1>1, <2>1, <3>1 DEF StaleCallFails, FaultIsOurs, Returned, InHand, InCall
    <3> QED
      BY <1>2, <3>3, <3>4 DEF AnswerInvariant
  <2> QED
    BY <2>7, <2>8
<1>4. CASE ~(ncalls < MaxCallId)
  BY <1>1, <1>2, <1>4
     DEF AnswerInvariant, InHand, OkIsWholeAnswer, StaleCallFails, FaultIsOurs
<1> QED
  BY <1>3, <1>4

(***************************************************************************)
(* A fault that ends a call is the server's answer to it.                  *)
(***************************************************************************)
LEMMA FaultAnswer ==
  ASSUME TypeInvariant, IdInvariant, AnswerInvariant, RecvFault
  PROVE  AnswerInvariant'
<1>1. /\ pc = "receiving" /\ toClient # <<>> /\ toClient' = Tail(toClient)
      /\ IsFault(Head(toClient)) /\ pc' = "ready" /\ result' = "Fault"
      /\ UNCHANGED <<answered, finished, heard, ncalls, stale, response_stub>>
  BY DEF RecvFault, Receives, RecvUntouched, Return, server, history
<1>2. QueueOrder' /\ InHand' /\ OkIsWholeAnswer'
  BY <1>1, OrderKept DEF AnswerInvariant, InHand, InCall, OkIsWholeAnswer, Returned
<1>3. ncalls < MaxCallId =>
         ~stale /\ Head(toClient).call = ncalls /\ heard[ncalls] = "full"
         /\ Head(toClient) = toClient[1]
  BY <1>1, HeadFollows DEF IsFault
<1>4. ncalls < MaxCallId => ncalls \in finished
  <2>1. 1 \in DOMAIN toClient
    BY <1>1, QueueTypes
  <2> QED
    BY <1>1, <1>3, <2>1 DEF IsFault, AnswerInvariant, QueueOrder, EndsAnswer
<1> QED
  BY <1>1, <1>2, <1>3, <1>4 DEF AnswerInvariant, StaleCallFails, FaultIsOurs

(***************************************************************************)
(* The server adds the next PDU of an answer at the end of the queue.      *)
(***************************************************************************)
LEMMA ServerAnswers ==
  ASSUME TypeInvariant, IdInvariant, AnswerInvariant, NEW c \in Calls,
         NEW reply \in Replies(c), NEW id \in ReplyIds(c), ServerAnswer(c, reply, id)
  PROVE  AnswerInvariant'
<1> DEFINE new == InPdu(c, reply, id)
           n == Len(toClient)
<1>1. /\ heard[c] # "nothing" /\ toClient' = Append(toClient, new)
      /\ answered' = [answered EXCEPT ![c] = @ + 1]
      /\ finished' = IF EndsAnswer(reply) THEN finished \cup {c} ELSE finished
      /\ UNCHANGED <<pc, result, saw_first, response_stub, heard, ncalls, stale>>
  BY DEF ServerAnswer, callLocals, history
<1>2. /\ new.call = c /\ new.rank = answered[c] + 1
      /\ EndsAnswer(new) <=> EndsAnswer(reply)
  BY DEF InPdu, EndsAnswer
<1>3. new \in InPdus /\ toClient \in Seq(InPdus) /\ n \in Nat
  BY InPduType, QueueTypes DEF TypeInvariant
<1>4. /\ DOMAIN toClient' = 1..(n + 1) /\ DOMAIN toClient = 1..n
      /\ toClient'[n + 1] = new /\ \A k \in DOMAIN toClient : toClient'[k] = toClient[k]
  BY <1>1, <1>3
<1>5. \A k \in DOMAIN toClient' : k \in DOMAIN toClient \/ k = n + 1
  BY <1>3, <1>4
<1>6. /\ answered'[c] = answered[c] + 1 /\ answered[c] \in Nat
      /\ \A d \in Calls : d # c => answered'[d] = answered[d]
      /\ \A d \in Calls : answered[d] \in Nat /\ answered'[d] \in Nat
                           /\ answered[d] <= answered'[d]
  <2>1. answered \in [Calls -> 0..MaxPdus]
    BY DEF TypeInvariant, TypeOK
  <2>2. answered'[c] = answered[c] + 1 /\ \A d \in Calls : d # c => answered'[d] = answered[d]
    BY <1>1, <2>1
  <2> QED
    BY <2>2, QueueTypes
<1>7. QueueOrder'
  <2>1. ASSUME NEW k \in DOMAIN toClient'
        PROVE  /\ toClient'[k].rank \in 1..answered'[toClient'[k].call]
               /\ EndsAnswer(toClient'[k]) => toClient'[k].call \in finished'
    <3>1. CASE k \in DOMAIN toClient
      <4>1. /\ toClient'[k] = toClient[k] /\ toClient[k].call \in Calls
            /\ toClient[k].rank \in 1..answered[toClient[k].call]
            /\ EndsAnswer(toClient[k]) => toClient[k].call \in finished
        BY <1>4, <3>1, QueueTypes DEF AnswerInvariant, QueueOrder
      <4>2. answered[toClient[k].call] \in Nat /\ answered'[toClient[k].call] \in Nat
            /\ answered[toClient[k].call] <= answered'[toClient[k].call]
        BY <1>6, <4>1
      <4> QED
        BY <1>1, <4>1, <4>2
    <3>2. CASE k = n + 1
      BY <1>1, <1>2, <1>4, <1>6, <3>2
    <3> QED
      BY <1>5, <3>1, <3>2
  <2>2. ASSUME NEW i \in DOMAIN toClient', NEW j \in DOMAIN toClient', i < j,
               toClient'[i].call = toClient'[j].call
        PROVE  toClient'[i].rank < toClient'[j].rank
    <3>1. i \in DOMAIN toClient /\ toClient'[i] = toClient[i]
      BY <1>3, <1>4, <2>2
    <3>2. CASE j \in DOMAIN toClient
      BY <1>4, <2>2, <3>1, <3>2 DEF AnswerInvariant, QueueOrder
    <3>3. CASE j = n + 1
      <4>1. toClient[i].rank \in 1..answered[c]
        BY <1>2, <1>4, <2>2, <3>1, <3>3 DEF AnswerInvariant, QueueOrder
      <4> QED
        BY <1>2, <1>4, <1>6, <3>1, <3>3, <4>1
    <3> QED
      BY <1>5, <3>2, <3>3
  <2>3. \A d \in Calls : answered'[d] # 0 => heard'[d] # "nothing"
    BY <1>1, <1>6 DEF AnswerInvariant, QueueOrder
  <2> QED
    BY <2>1, <2>2, <2>3 DEF QueueOrder, EndsAnswer
<1>8. ASSUME InCall, ncalls < MaxCallId, stale PROVE StaleInFront'
  <2>1. StaleInFront
    BY <1>8 DEF AnswerInvariant, InHand
  <2>2. 1 \in DOMAIN toClient /\ toClient' # <<>>
    BY <1>3, <1>4, <2>1 DEF StaleInFront
  <2> QED
    BY <1>1, <1>4, <2>1, <2>2 DEF StaleInFront
<1>9. ASSUME InCall, ncalls < MaxCallId, ~stale PROVE RestWaits'
  <2>1. RestWaits /\ StubInOrder /\ ncalls \in Calls /\ Len(response_stub) \in Nat
    BY <1>9, IdTypes, QueueTypes DEF AnswerInvariant, InHand
  <2>2. ASSUME NEW k \in DOMAIN toClient', toClient'[k].call = ncalls
        PROVE  toClient'[k].rank > Len(response_stub)
    BY <1>2, <1>4, <1>5, <1>6, <2>1, <2>2 DEF RestWaits
  <2>3. ASSUME NEW r \in (Len(response_stub) + 1)..answered'[ncalls]
        PROVE  \E k \in DOMAIN toClient' : toClient'[k].call = ncalls /\ toClient'[k].rank = r
    <3>1. CASE r \in (Len(response_stub) + 1)..answered[ncalls]
      <4>1. PICK i \in DOMAIN toClient : toClient[i].call = ncalls /\ toClient[i].rank = r
        BY <2>1, <3>1 DEF RestWaits
      <4>2. i \in DOMAIN toClient' /\ toClient'[i] = toClient[i]
        BY <1>3, <1>4
      <4> QED
        BY <4>1, <4>2
    <3>2. CASE c = ncalls /\ r = answered[ncalls] + 1
      <4>1. n + 1 \in DOMAIN toClient'
        BY <1>3, <1>4
      <4> QED
        BY <1>2, <1>4, <3>2, <4>1
    <3> QED
      BY <1>6, <2>1, <3>1, <3>2
  <2>4. Len(response_stub) <= answered'[ncalls]
    BY <1>6, <2>1 DEF RestWaits
  <2> QED
    BY <1>1, <2>2, <2>3, <2>4 DEF RestWaits
<1>10. InHand'
  BY <1>1, <1>8, <1>9 DEF AnswerInvariant, InHand, InCall, StubInOrder
<1>11. OkIsWholeAnswer' /\ StaleCallFails' /\ FaultIsOurs'
  BY <1>1 DEF AnswerInvariant, OkIsWholeAnswer, StaleCallFails, FaultIsOurs, Returned
<1> QED
  BY <1>7, <1>10, <1>11 DEF AnswerInvariant

(***************************************************************************)
(* Every step of the system keeps the invariant.                           *)
(***************************************************************************)
LEMMA AnswerStep ==
  ASSUME TypeInvariant, IdInvariant, AnswerInvariant, Next
  PROVE  AnswerInvariant'
<1> USE DEF InCall, client, bindLocals, callLocals, server, history
<1>1. CASE Construct
  <2>1. ncalls = 0
    BY <1>1 DEF Construct, NewBound, NewBoundWithAuth, IdInvariant, IdsIssued, IsBound
  <2> QED
    BY <1>1, <2>1, AnswerQuiet DEF Construct, NewBound, NewBoundWithAuth
<1>2. CASE \E value \in XmitFrags : WithMaxXmitFrag(value)
  BY <1>2, AnswerQuiet DEF WithMaxXmitFrag
<1>3. CASE StartBind
  <2>1. /\ pc' \in {"failed", "panicked", "binding"}
        /\ UNCHANGED <<toClient, answered, finished, ncalls, stale, response_stub>>
        /\ heard' = heard \/ heard' = [heard EXCEPT ![0] = "full"]
    BY <1>3 DEF StartBind, BindEmpty, BindInitFails, BindPanics, BindRefused, BindSent,
                BindSendFails, BindFails, BindBegins, BindUntouched
  <2>2. \A c \in Calls : heard[c] # "nothing" => heard'[c] # "nothing"
    BY <2>1 DEF TypeInvariant, TypeOK
  <2> QED
    BY <2>1, <2>2, AnswerQuiet
<1>4. CASE FinishBind
  <2> USE DEF NotBound, AfterBindReply, BindFails, Auth3Ends, ReceivesBindReply, Bound
  <2>1. /\ pc \in {"binding", "auth3"} /\ pc' \in {"failed", "ready", "auth3"}
        /\ toClient' = toClient \/ (toClient # <<>> /\ toClient' = Tail(toClient))
        /\ UNCHANGED <<answered, finished, heard, ncalls, stale, response_stub>>
    BY <1>4 DEF FinishBind, BindRecvFails, RecvBindInvalid, RecvBindNak,
                RecvBindAckRejected, RecvBindAckAccepted, BindAccepted, BindStepFails,
                BindStep, Auth3Refused, Auth3SendFails, Auth3Sent
  <2>2. ncalls = 0
    BY <2>1 DEF IdInvariant, IdsIssued, IsBound
  <2> QED
    BY <2>1, <2>2, AnswerQuiet
<1>5. CASE StartCall
  BY <1>5, CallStartAnswer, AnswerQuiet DEF StartCall, SerializeFails, Return
<1>6. CASE FinishCall
  <2>1. CASE SendRefused \/ (\E lost \in BOOLEAN : RecvFails(lost)) \/ RecvInvalid
    BY <2>1, AnswerQuiet
       DEF SendRefused, RecvFails, RecvInvalid, Return, Rejection, SendUntouched,
           RecvUntouched, Receives
  <2> QED
    BY <1>6, <2>1, SendAnswer, RecvAnswer, FaultAnswer DEF FinishCall
<1>7. CASE ServerStep
  BY <1>7, ServerAnswers DEF ServerStep
<1> QED
  BY <1>1, <1>2, <1>3, <1>4, <1>5, <1>6, <1>7 DEF Next

(***************************************************************************)
(* In every run of the client, the call in hand has gathered a beginning   *)
(* of its own answer, and what was returned is all of it.                  *)
(***************************************************************************)
THEOREM AnswersHold == Spec => []AnswerInvariant
<1>1. Init => AnswerInvariant
  <2> SUFFICES ASSUME Init PROVE AnswerInvariant
    OBVIOUS
  <2>1. DOMAIN toClient = {} /\ \A c \in Calls : answered[c] = 0
    BY DEF Init
  <2> QED
    BY <2>1 DEF Init, AnswerInvariant, QueueOrder, InHand, InCall, OkIsWholeAnswer,
                StaleCallFails, FaultIsOurs, Returned
<1>2. TypeInvariant /\ IdInvariant /\ AnswerInvariant /\ [Next]_vars => AnswerInvariant'
  <2> SUFFICES ASSUME TypeInvariant, IdInvariant, AnswerInvariant, [Next]_vars
               PROVE  AnswerInvariant'
    OBVIOUS
  <2>1. CASE UNCHANGED vars
    BY <2>1 DEF vars, callLocals, server, history, AnswerInvariant, QueueOrder, EndsAnswer,
                InHand, InCall, StubInOrder, RestWaits, StaleInFront, OkIsWholeAnswer,
                StaleCallFails, FaultIsOurs, Returned
  <2> QED
    BY <2>1, AnswerStep
<1> QED
  BY <1>1, <1>2, TypeCorrect, IdsHold, PTL DEF Spec

(***************************************************************************)
(* A stub that call_raw returns is the server's answer to that call, whole *)
(* and in order, for any number of calls, fragments and stale PDUs, until  *)
(* the call ids have all been used once.                                   *)
(***************************************************************************)
THEOREM OkAnswersWhole == Spec => []OkIsWholeAnswer
<1>1. AnswerInvariant => OkIsWholeAnswer
  BY DEF AnswerInvariant
<1> QED
  BY <1>1, AnswersHold, PTL

(***************************************************************************)
(* A call that begins while PDUs of earlier calls wait returns an error.   *)
(***************************************************************************)
THEOREM StaleCallsFail == Spec => []StaleCallFails
<1>1. AnswerInvariant => StaleCallFails
  BY DEF AnswerInvariant
<1> QED
  BY <1>1, AnswersHold, PTL

(***************************************************************************)
(* A fault that call_raw reports is the server's, for this very call.      *)
(***************************************************************************)
THEOREM FaultsOurs == Spec => []FaultIsOurs
<1>1. AnswerInvariant => FaultIsOurs
  BY DEF AnswerInvariant
<1> QED
  BY <1>1, AnswersHold, PTL

-----------------------------------------------------------------------------
(* RpcClient implements RpcService. *)

(***************************************************************************)
(* Until a constructor returns, nothing was returned.                      *)
(***************************************************************************)
NothingReturned == pc \in {"unbound", "binding", "auth3"} => result = "None"

(***************************************************************************)
(* The first step of the service is that of the client.                    *)
(***************************************************************************)
LEMMA ServiceInit == Init => Service!Init
<1> SUFFICES ASSUME Init PROVE Service!Init
  OBVIOUS
<1>1. response_stub = <<>>
  BY DEF Init
<1>2. [i \in DOMAIN response_stub |-> <<response_stub[i].call, response_stub[i].rank>>] = <<>>
  BY <1>1
<1> QED
  BY <1>2 DEF Init, Service!Init, Phase

(***************************************************************************)
(* The answer the service sees in a stub.                                  *)
(***************************************************************************)
AnswerIn(stub) == [i \in DOMAIN stub |-> <<stub[i].call, stub[i].rank>>]

(***************************************************************************)
(* A part that is appended to the stub is appended to the answer.          *)
(***************************************************************************)
LEMMA GatheredNext ==
  ASSUME NEW s \in Seq(StubParts), NEW p \in StubParts, p.rank = Len(s) + 1
  PROVE  AnswerIn(Append(s, p)) = Append(AnswerIn(s), <<p.call, Len(AnswerIn(s)) + 1>>)
<1> DEFINE t == Append(s, p)
           a == AnswerIn(s)
           b == AnswerIn(t)
           n == Len(s)
           c == p.call
<1>1. /\ n \in Nat /\ DOMAIN s = 1..n /\ DOMAIN t = 1..(n + 1)
      /\ t[n + 1] = p /\ \A i \in 1..n : t[i] = s[i] /\ s[i] \in StubParts
  OBVIOUS
<1>2. a \in Seq(Calls \X Nat)
  <2>1. \A i \in 1..n : a[i] \in Calls \X Nat
    BY <1>1 DEF StubParts, AnswerIn
  <2> QED
    BY <1>1, <2>1 DEF AnswerIn
<1>3. Len(a) = n
  BY <1>1, <1>2 DEF AnswerIn
<1>4. <<c, n + 1>> \in Calls \X Nat
  BY <1>1 DEF StubParts
<1> HIDE DEF a
<1>5. /\ DOMAIN Append(a, <<c, n + 1>>) = 1..(n + 1)
      /\ Append(a, <<c, n + 1>>)[n + 1] = <<c, n + 1>>
      /\ \A i \in 1..n : Append(a, <<c, n + 1>>)[i] = a[i]
  BY <1>1, <1>2, <1>3, <1>4
<1>6. \A i \in 1..n : a[i] = <<t[i].call, t[i].rank>>
  BY <1>1 DEF a, AnswerIn
<1>7. b = Append(a, <<c, n + 1>>)
  <2>1. Append(a, <<c, n + 1>>) \in Seq(Calls \X Nat)
    BY <1>2, <1>4
  <2>2. \A i \in 1..(n + 1) : b[i] = Append(a, <<c, n + 1>>)[i]
    <3>1. TAKE i \in 1..(n + 1)
    <3>2. CASE i = n + 1
      BY <1>1, <1>5, <3>2 DEF AnswerIn
    <3>3. CASE i # n + 1
      <4>1. i \in 1..n
        BY <1>1, <3>3
      <4> QED
        BY <1>1, <1>5, <1>6, <4>1 DEF AnswerIn
    <3> QED
      BY <3>2, <3>3
  <2>3. Append(a, <<c, n + 1>>) = [i \in 1..(n + 1) |-> Append(a, <<c, n + 1>>)[i]]
    BY <1>5, <2>1
  <2>4. b = [i \in 1..(n + 1) |-> b[i]]
    BY <1>1 DEF AnswerIn
  <2> QED
    BY <2>2, <2>3, <2>4, Zenon
<1> QED
  BY <1>3, <1>7 DEF a

(***************************************************************************)
(* Appending a fragment is Gather, and returning with it GatherLast: the   *)
(* server has then ended its answer to this call.                          *)
(***************************************************************************)
LEMMA GatherRefines ==
  ASSUME TypeInvariant, IdInvariant, AnswerInvariant, RecvMore \/ RecvLast
  PROVE  Service!Gather \/ Service!GatherLast
<1>1. /\ pc = "receiving" /\ toClient # <<>> /\ Appendable(Head(toClient))
      /\ response_stub' = Append(response_stub, Part(Head(toClient)))
      /\ UNCHANGED <<finished, ncalls>>
  BY DEF RecvMore, RecvLast, Receives, RecvUntouched, server, history
<1>2. ncalls < MaxCallId
  BY OneCycleAssumption, BoundsAssumption DEF TypeInvariant, TypeOK, Calls, MaxCallId
<1>3. /\ Head(toClient) = toClient[1] /\ Head(toClient).call = ncalls
      /\ Head(toClient).rank = Len(response_stub) + 1
  BY <1>1, <1>2, HeadFollows DEF Appendable
<1>4. /\ response_stub \in Seq(StubParts) /\ Part(Head(toClient)) \in StubParts
      /\ Part(Head(toClient)).call = ncalls
      /\ Part(Head(toClient)).rank = Len(response_stub) + 1
  BY <1>1, <1>3, QueueTypes, HeadType DEF TypeInvariant, Part
<1>5. AnswerIn(response_stub)' =
         Append(AnswerIn(response_stub), <<ncalls, Len(AnswerIn(response_stub)) + 1>>)
  <2>1. AnswerIn(Append(response_stub, Part(Head(toClient)))) =
           Append(AnswerIn(response_stub), <<ncalls, Len(AnswerIn(response_stub)) + 1>>)
    BY <1>4, GatheredNext
  <2> QED
    BY <1>1, <2>1 DEF AnswerIn
<1>6. CASE RecvMore
  <2>1. UNCHANGED <<pc, result>>
    BY <1>6 DEF RecvMore
  <2> QED
    BY <1>1, <1>5, <2>1 DEF Service!Gather, Service!Following, Phase, AnswerIn
<1>7. CASE RecvLast
  <2>1. Head(toClient).last /\ pc' = "ready" /\ result' \in {"Ok", "Ndr"}
    BY <1>7 DEF RecvLast, Return
  <2>2. ncalls \in finished
    <3>1. 1 \in DOMAIN toClient
      BY <1>1, QueueTypes
    <3>2. EndsAnswer(toClient[1])
      BY <1>3, <2>1 DEF EndsAnswer
    <3> QED
      BY <1>3, <3>1, <3>2 DEF AnswerInvariant, QueueOrder
  <2> QED
    BY <1>1, <1>5, <2>1, <2>2 DEF Service!GatherLast, Service!Following, Phase, AnswerIn
<1> QED
  BY <1>6, <1>7

(***************************************************************************)
(* Every step of the client is one the service allows.                     *)
(***************************************************************************)
LEMMA ServiceStep ==
  ASSUME TypeInvariant, IdInvariant, AnswerInvariant, NothingReturned, Next
  PROVE  [Service!Next]_Service!vars
<1> USE DEF client, bindLocals, callLocals, server, history, Phase
<1>1. CASE Construct
  BY <1>1 DEF Construct, NewBound, NewBoundWithAuth, NothingReturned,
              Service!Next, Service!Obtain
<1>2. CASE \E value \in XmitFrags : WithMaxXmitFrag(value)
  BY <1>2 DEF WithMaxXmitFrag, Service!vars
<1>3. CASE StartBind
  <2>1. pc = "unbound" /\ UNCHANGED <<ncalls, response_stub, finished>>
    BY <1>3 DEF StartBind, BindEmpty, BindInitFails, BindPanics, BindRefused, BindSent,
                BindSendFails, BindBegins, BindUntouched
  <2>2. \/ pc' = "binding" /\ UNCHANGED result
        \/ pc' \in {"failed", "panicked"} /\ result' \in {"InvalidPdu", "Auth", "Panic", "Transport"}
    BY <1>3 DEF StartBind, BindEmpty, BindInitFails, BindPanics, BindRefused, BindSent,
                BindSendFails, BindFails
  <2> QED
    BY <2>1, <2>2 DEF Service!Next, Service!NotObtained, Service!vars
<1>4. CASE FinishBind
  <2> USE DEF AfterBindReply, BindFails, Auth3Ends, ReceivesBindReply, Bound
  <2>1. pc \in {"binding", "auth3"} /\ UNCHANGED <<ncalls, response_stub, finished>>
    BY <1>4 DEF FinishBind, BindRecvFails, RecvBindInvalid, RecvBindNak,
                RecvBindAckRejected, RecvBindAckAccepted, BindAccepted, BindStepFails,
                BindStep, Auth3Refused, Auth3SendFails, Auth3Sent
  <2>2. \/ pc' = "auth3" /\ UNCHANGED result
        \/ pc' = "ready" /\ result' = "Ok"
        \/ pc' = "failed" /\ result' \notin {"None", "Ok", "Fault"}
    BY <1>4 DEF FinishBind, BindRecvFails, RecvBindInvalid, RecvBindNak,
                RecvBindAckRejected, RecvBindAckAccepted, BindAccepted, BindStepFails,
                BindStep, Auth3Refused, Auth3SendFails, Auth3Sent
  <2> QED
    BY <2>1, <2>2 DEF Service!Next, Service!NotObtained, Service!Obtain, Service!vars
<1>5. CASE StartCall
  <2>1. CASE SerializeFails
    BY <2>1 DEF SerializeFails, Return, Service!Next, Service!Refuse
  <2>2. CASE \E len \in StubLens : CallStart(len)
    <3>1. /\ pc = "ready" /\ ncalls' = ncalls + 1 /\ response_stub' = <<>>
          /\ UNCHANGED finished
          /\ \/ pc' = "sending" /\ UNCHANGED result
             \/ pc' = "ready" /\ result' = "InvalidPdu"
      BY <2>2 DEF CallStart, Return
    <3>2. [i \in DOMAIN response_stub' |-> <<response_stub'[i].call, response_stub'[i].rank>>] = <<>>
      BY <3>1
    <3> QED
      BY <3>1, <3>2 DEF Service!Next, Service!Begin, Service!Refuse
  <2> QED
    BY <1>5, <2>1, <2>2 DEF StartCall
<1>6. CASE FinishCall
  <2>1. CASE SendFragment
    BY <2>1 DEF SendFragment, SendUntouched, Service!vars
  <2>2. CASE RecvMore \/ RecvLast
    BY <2>2, GatherRefines DEF Service!Next
  <2>3. CASE RecvFault
    <3>1. /\ pc = "receiving" /\ pc' = "ready" /\ result' = "Fault"
          /\ UNCHANGED <<ncalls, response_stub, finished>>
      BY <2>3 DEF RecvFault, Receives, RecvUntouched, Return
    <3>2. ncalls < MaxCallId /\ ncalls > 0
      BY <3>1, OneCycleAssumption, BoundsAssumption
         DEF TypeInvariant, TypeOK, Calls, MaxCallId, IdInvariant, IdsIssued, InCall
    <3>3. FaultIsOurs'
      BY <2>3, FaultAnswer DEF AnswerInvariant
    <3>4. ncalls \in finished
      BY <3>1, <3>2, <3>3 DEF FaultIsOurs, Returned
    <3> QED
      BY <3>1, <3>4 DEF Service!Next, Service!ReturnFault
  <2>4. CASE \/ SendRefused \/ \E delivered \in BOOLEAN : SendFails(delivered)
             \/ \E lost \in BOOLEAN : RecvFails(lost)
             \/ RecvInvalid
    <3>1. /\ pc \in {"sending", "receiving"} /\ pc' = "ready"
          /\ result' \in {"Auth", "Transport", "InvalidPdu"}
          /\ UNCHANGED <<ncalls, response_stub, finished>>
      BY <2>4 DEF SendRefused, SendFails, RecvFails, RecvInvalid, Return, Rejection,
                  Receives, SendUntouched, RecvUntouched
    <3> QED
      BY <3>1 DEF Service!Next, Service!ReturnError
  <2> QED
    BY <1>6, <2>1, <2>2, <2>3, <2>4 DEF FinishCall
<1>7. CASE ServerStep
  <2>1. PICK c \in Calls :
           /\ heard[c] # "nothing"
           /\ finished' = finished \cup {c} \/ UNCHANGED finished
           /\ UNCHANGED <<pc, result, ncalls, response_stub>>
    BY <1>7 DEF ServerStep, ServerAnswer
  <2>2. c \in 0..ncalls
    BY <2>1, BoundsAssumption DEF IdInvariant, IdsIssued, Issued, Calls, TypeInvariant, TypeOK
  <2> QED
    BY <2>1, <2>2 DEF Service!Next, Service!ServerEnds, Service!vars
<1> QED
  BY <1>1, <1>2, <1>3, <1>4, <1>5, <1>6, <1>7 DEF Next

(***************************************************************************)
(* RpcClient implements RpcService: over a transport that fails and with a *)
(* server that answers late, wrongly or never, it only takes steps that    *)
(* the service allows, as long as no call id is used twice.                *)
(***************************************************************************)
THEOREM RpcServiceImplemented == Spec => ImplementsRpcService
<1>1. Init => NothingReturned
  BY DEF Init, NothingReturned
<1>2. NothingReturned /\ [Next]_vars => NothingReturned'
  <2> SUFFICES ASSUME NothingReturned, [Next]_vars PROVE NothingReturned'
    OBVIOUS
  <2> USE DEF NothingReturned
  <2>1. CASE UNCHANGED vars
    BY <2>1 DEF vars
  <2>2. CASE Construct \/ StartCall \/ FinishCall \/ ServerStep
             \/ \E value \in XmitFrags : WithMaxXmitFrag(value)
    BY <2>2 DEF Construct, NewBound, NewBoundWithAuth, WithMaxXmitFrag, StartCall,
                SerializeFails, CallStart, FinishCall, SendRefused, SendFragment, SendFails,
                RecvFails, RecvMore, RecvLast, RecvFault, RecvInvalid, Receives, Return,
                ServerStep, ServerAnswer
  <2>3. CASE StartBind
    BY <2>3 DEF StartBind, BindEmpty, BindInitFails, BindPanics, BindRefused, BindSent,
                BindSendFails, BindBegins, BindFails
  <2>4. CASE FinishBind
    BY <2>4 DEF FinishBind, BindRecvFails, RecvBindInvalid, RecvBindNak, BindFails, Bound,
                RecvBindAckRejected, RecvBindAckAccepted, BindAccepted, BindStepFails,
                BindStep, Auth3Refused, Auth3SendFails, Auth3Sent, ReceivesBindReply
  <2> QED
    BY <2>1, <2>2, <2>3, <2>4 DEF Next
<1>3. TypeInvariant /\ IdInvariant /\ AnswerInvariant /\ NothingReturned /\ [Next]_vars
         => [Service!Next]_Service!vars
  <2>1. UNCHANGED vars => UNCHANGED Service!vars
    BY DEF vars, callLocals, server, history, Service!vars, Phase
  <2> QED
    BY <2>1, ServiceStep
<1> QED
  BY <1>1, <1>2, <1>3, ServiceInit, TypeCorrect, IdsHold, AnswersHold, PTL
     DEF Spec, ImplementsRpcService, Service!Spec
=============================================================================
