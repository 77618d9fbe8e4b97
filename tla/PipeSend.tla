------------------------------ MODULE PipeSend ------------------------------
(***************************************************************************)
(* NcacnNpTransport::send_pdu over StdIoNamedPipe (src/ncacn_np.rs), used  *)
(* as RpcClient uses it: the fragments of a request are sent one by one,   *)
(* and after the last the caller waits for an answer.  The inner writer is *)
(* any `Write`: it takes bytes piecemeal, may hold them back until it is   *)
(* flushed, and may fail at any point.  The peer reads PDUs by the lengths *)
(* in their headers and answers each last fragment.  After an error the    *)
(* caller may send again on the same pipe.                                 *)
(***************************************************************************)
EXTENDS Naturals, Sequences

CONSTANTS
    PduLens,   \* lengths of the PDUs sent
    MaxPdus    \* bound: send_pdu calls

ASSUME SendAssumption == PduLens \subseteq Nat \ {0} /\ MaxPdus \in Nat

VARIABLES
    pc,       \* "idle", "writing", "flushing" or "waiting"
    pdus,     \* what send_pdu was given, and how much the writer took of it
    arrived,  \* bytes the peer has got
    frames,   \* ranges of the stream the peer has read as PDUs
    replies,  \* answers on their way to the caller
    cut       \* history: a write failed in the middle of a PDU

vars == <<pc, pdus, arrived, frames, replies, cut>>

Init ==
    /\ pc = "idle" /\ pdus = <<>>
    /\ arrived = 0 /\ frames = <<>> /\ replies = 0 /\ cut = FALSE

-----------------------------------------------------------------------------
\* The PDU being sent, or the last that was.
Current == pdus[Len(pdus)]

\* Bytes of the stream the inner writer has taken.
Taken == IF pdus = <<>> THEN 0 ELSE Current.start + Current.written

SendPdu(len, last) ==
    /\ pc = "idle"
    /\ Len(pdus) < MaxPdus
    /\ pc' = "writing"
    /\ pdus' = Append(pdus, [start |-> Taken, len |-> len, written |-> 0, last |-> last])
    /\ UNCHANGED <<arrived, frames, replies, cut>>

\* Slip: write is called once, where write_all goes on until all is written.
MutWriteSome ==
    /\ pc = "writing"
    /\ \E n \in 1..(Current.len - Current.written) :
          pdus' = [pdus EXCEPT ![Len(pdus)].written = @ + n]
    /\ pc' = "flushing"
    /\ UNCHANGED <<arrived, frames, replies, cut>>

\* One write of the loop in Write::write_all.
WriteSome ==
    /\ pc = "writing"
    /\ \E n \in 1..(Current.len - Current.written) :
          pdus' = [pdus EXCEPT ![Len(pdus)].written = @ + n]
    /\ pc' = IF Current'.written = Current.len THEN "flushing" ELSE "writing"
    /\ UNCHANGED <<arrived, frames, replies, cut>>

WriteFails ==
    /\ pc = "writing"
    /\ pc' = "idle"
    /\ cut' = (cut \/ Current.written > 0)
    /\ UNCHANGED <<pdus, arrived, frames, replies>>

\* After the last fragment of a request the caller turns to recv_pdu.
Sent == pc' = IF Current.last THEN "waiting" ELSE "idle"

\* Slip: write_all returns without a flush.
MutFlush ==
    /\ pc = "flushing"
    /\ Sent
    /\ UNCHANGED <<pdus, arrived, frames, replies, cut>>

Flush ==
    /\ pc = "flushing"
    /\ arrived' = Taken
    /\ Sent
    /\ UNCHANGED <<pdus, frames, replies, cut>>

\* A flush that fails has passed on any part of what was held.
FlushFails ==
    /\ pc = "flushing"
    /\ arrived' \in arrived..Taken
    /\ pc' = "idle"
    /\ UNCHANGED <<pdus, frames, replies, cut>>

RecvReply ==
    /\ pc = "waiting"
    /\ replies > 0
    /\ replies' = replies - 1
    /\ pc' = "idle"
    /\ UNCHANGED <<pdus, arrived, frames, cut>>

RecvFails ==
    /\ pc = "waiting"
    /\ pc' = "idle"
    /\ UNCHANGED <<pdus, arrived, frames, replies, cut>>

-----------------------------------------------------------------------------
\* The inner writer may pass bytes on before it is asked to (external).
Drain ==
    /\ arrived' \in (arrived + 1)..Taken
    /\ UNCHANGED <<pc, pdus, frames, replies, cut>>

ReadUpTo == IF frames = <<>> THEN 0 ELSE frames[Len(frames)].to

\* A PDU begins where the peer reads: it is whole, or still being written.
Here ==
    {k \in DOMAIN pdus :
        /\ pdus[k].start = ReadUpTo
        /\ pdus[k].written = pdus[k].len \/ (k = Len(pdus) /\ pc = "writing")}

\* The peer (external) reads a PDU; where none begins its length is arbitrary.
PeerReads(len) ==
    /\ Here # {} => \E k \in Here : len = pdus[k].len
    /\ ReadUpTo + len <= arrived
    /\ frames' = Append(frames, [from |-> ReadUpTo, to |-> ReadUpTo + len])
    /\ replies' = IF \E k \in Here : pdus[k].last THEN replies + 1 ELSE replies
    /\ UNCHANGED <<pc, pdus, arrived, cut>>

-----------------------------------------------------------------------------
Caller == WriteSome \/ WriteFails \/ Flush \/ FlushFails \/ RecvReply

Peer == \E len \in PduLens : PeerReads(len)

Next ==
    \/ \E len \in PduLens, last \in BOOLEAN : SendPdu(len, last)
    \/ Caller \/ RecvFails
    \/ Drain \/ Peer

Spec == Init /\ [][Next]_vars

\* A send or receive in hand runs on, and the peer reads what has come.
FairSpec == Spec /\ WF_vars(Caller) /\ WF_vars(Peer)

-----------------------------------------------------------------------------
(***************************************************************************)
(* What the peer reads are the PDUs that were sent, whole, in order and    *)
(* none left out, unless a write failed in the middle of one.  A write     *)
(* that failed before its first byte and a failed flush are harmless: the  *)
(* next send carries on where a PDU begins, and its flush delivers what    *)
(* was held back.                                                          *)
(***************************************************************************)
PeerGetsPdus ==
    ~cut => \A i \in DOMAIN frames :
        /\ frames[i].from = IF i = 1 THEN 0 ELSE frames[i - 1].to
        /\ \E k \in DOMAIN pdus :
              /\ pdus[k].written = pdus[k].len
              /\ frames[i] = [from |-> pdus[k].start, to |-> pdus[k].start + pdus[k].len]

(***************************************************************************)
(* A caller that waits for an answer gets one: send_pdu does not return    *)
(* with the request's last bytes in the inner writer's buffer, where the   *)
(* peer would wait for them and the caller for the peer.                   *)
(***************************************************************************)
AnswerComes == pc = "waiting" /\ ~cut ~> pc # "waiting"
=============================================================================
