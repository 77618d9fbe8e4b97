-------------------------------- MODULE Bind --------------------------------
(***************************************************************************)
(* Bind negotiation data of src/bind.rs: presentation contexts, their      *)
(* encoding limits, and the choice the client makes from a bind ack.       *)
(*                                                                         *)
(* A presentation context is [context_id, transfer_syntaxes]; its abstract *)
(* syntax (interface UUID and version) is carried but never inspected by   *)
(* the client, so it is left out.  A bind ack result is [result, syntax].  *)
(***************************************************************************)
EXTENDS Naturals, Sequences

CONSTANT U8     \* number of values of a u8 (256 in the code)

ASSUME U8Assumption == U8 \in Nat \ {0}

Contexts == [context_id : Nat, transfer_syntaxes : Seq(STRING)]

PresentationResultCode ==
    {"Acceptance", "UserRejection", "ProviderRejection", "NegotiateAck"}

(***************************************************************************)
(* PresentationContext::encode refuses a context whose transfer syntax     *)
(* count does not fit the one-byte count field.                            *)
(***************************************************************************)
ContextEncodes(context) == Len(context.transfer_syntaxes) < U8

ContextLen(context) == 24 + 20 * Len(context.transfer_syntaxes)

(***************************************************************************)
(* PresentationContextList::encode unwraps every context's encoding with   *)
(* expect(..): it panics when one of them is refused.                      *)
(***************************************************************************)
ListPanics(contexts) == \E i \in DOMAIN contexts : ~ContextEncodes(contexts[i])

ListLen(contexts) ==
    LET len[n \in 0..Len(contexts)] ==
            IF n = 0 THEN 4 ELSE len[n - 1] + ContextLen(contexts[n])
    IN  len[Len(contexts)]

\* BindPdu::encode: two u16 limits, the association group id, the list.
BindBodyLen(contexts) == 8 + ListLen(contexts)

(***************************************************************************)
(* BindAckPdu::accepted_context, as what it returns.  `results` is the     *)
(* sequence of result codes of the ack, `count` the number of contexts     *)
(* proposed.  The answer names the 1-based index of the context accepted   *)
(* or first rejected; the loop that computes it is module AcceptedContext. *)
(***************************************************************************)
Accepted(results) == {i \in DOMAIN results : results[i] = "Acceptance"}

Rejected(results) ==
    {i \in DOMAIN results : results[i] \notin {"Acceptance", "NegotiateAck"}}

IsFirst(i, S) == i \in S /\ \A j \in S : i <= j

AcceptedContextIs(results, count, answer) ==
    \/ \E i \in 1..count :
          IsFirst(i, Accepted(results)) /\ answer = [outcome |-> "Ok", index |-> i]
    \/ /\ \A i \in Accepted(results) : i > count
       /\ Len(results) > count
       /\ answer = [outcome |-> "InvalidPdu", index |-> 0]
    \/ /\ Accepted(results) = {}
       /\ Len(results) <= count
       /\ \/ \E i \in 1..count :
                /\ IsFirst(i, Rejected(results))
                /\ answer = [outcome |-> "ContextRejected", index |-> i]
          \/ /\ Rejected(results) = {}
             /\ answer = [outcome |-> "InvalidPdu", index |-> 0]
=============================================================================
