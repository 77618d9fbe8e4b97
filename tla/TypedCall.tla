----------------------------- MODULE TypedCall -----------------------------
(***************************************************************************)
(* The transfer syntax from the bind to a typed call (src/client.rs):      *)
(* the caller proposes syntaxes, the server accepts one per context,       *)
(* accepted_context returns it, and call serializes with `Ndr::new()`.     *)
(***************************************************************************)
EXTENDS Bind

CONSTANTS
    Proposals,  \* presentation context lists given to bind_with_contexts
    NdrDefault  \* the one syntax of `Ndr::new()` of msrpce-ndr (external)

TransferSyntax == {"Ndr32", "Ndr64"}

VARIABLES
    pc,        \* "unbound", "binding", "ready", "failed"
    proposed,
    agreed,    \* AcceptedContext: context_id and transfer_syntax
    requests   \* what typed calls sent: context id and syntax of the stub

vars == <<pc, proposed, agreed, requests>>

NotAgreed == [context_id |-> 0, transfer_syntax |-> "none"]

Init == pc = "unbound" /\ proposed = <<>> /\ agreed = NotAgreed /\ requests = {}

SendBind(contexts) ==
    /\ pc = "unbound"
    /\ pc' = "binding" /\ proposed' = contexts
    /\ UNCHANGED <<agreed, requests>>

\* The server answers each context: it takes one of the syntaxes, or none.
Answers ==
    {r \in [1..Len(proposed) -> [code : {"Acceptance", "ProviderRejection"},
                                 transfer_syntax : TransferSyntax]] :
        \A i \in DOMAIN r :
           \E k \in DOMAIN proposed[i].transfer_syntaxes :
              proposed[i].transfer_syntaxes[k] = r[i].transfer_syntax}

RecvBindAck(results) ==
    /\ pc = "binding"
    /\ \E outcome \in {"Ok", "ContextRejected"}, i \in DOMAIN proposed :
          /\ AcceptedContextIs([k \in DOMAIN results |-> results[k].code], Len(proposed),
                               [outcome |-> outcome, index |-> i])
          /\ IF outcome = "Ok"
             THEN /\ pc' = "ready"
                  /\ agreed' = [context_id |-> proposed[i].context_id,
                                transfer_syntax |-> results[i].transfer_syntax]
             ELSE pc' = "failed" /\ UNCHANGED agreed
    /\ UNCHANGED <<proposed, requests>>

\* The client keeps agreed.context_id only.
Call ==
    /\ pc = "ready"
    /\ requests' = requests \cup {[context_id |-> agreed.context_id,
                                   transfer_syntax |-> NdrDefault]}
    /\ UNCHANGED <<pc, proposed, agreed>>

Next ==
    \/ \E contexts \in Proposals : SendBind(contexts)
    \/ \E results \in Answers : RecvBindAck(results)
    \/ Call

Spec == Init /\ [][Next]_vars

(***************************************************************************)
(* README.md: "Use `bind_with_contexts` when a server needs multiple       *)
(* contexts or a transfer syntax other than the default helper."  So a     *)
(* request on the context that was accepted is in the syntax accepted.     *)
(***************************************************************************)
StubsInAcceptedSyntax == \A request \in requests : request = agreed
=============================================================================
