-------------------------- MODULE AcceptedContext --------------------------
(***************************************************************************)
(* The loop of BindAckPdu::accepted_context (src/bind.rs), one iteration   *)
(* per step: it walks the results of a bind ack beside the proposed        *)
(* contexts, returns at the first acceptance, fails on a result that has   *)
(* no proposed context, and remembers the first rejection for the error.   *)
(***************************************************************************)
EXTENDS Bind

CONSTANTS ResultLists,   \* result-code sequences an ack may carry
          ProposedCounts \* numbers of proposed contexts

ASSUME InputAssumption ==
    /\ ResultLists \subseteq Seq(PresentationResultCode)
    /\ ProposedCounts \subseteq Nat

VARIABLES
    results,          \* self.results, as result codes
    count,            \* proposed.len()
    index,            \* results already passed by the loop
    first_rejection,  \* index of the first rejection, 0 for None
    answer            \* what the function returned

vars == <<results, count, index, first_rejection, answer>>

Running == [outcome |-> "Running", index |-> 0]

Init ==
    /\ results \in ResultLists
    /\ count \in ProposedCounts
    /\ index = 0
    /\ first_rejection = 0
    /\ answer = Running

Return(value) ==
    /\ answer' = value
    /\ UNCHANGED <<results, count, index, first_rejection>>

InLoop == answer = Running /\ index < Len(results)

\* Slip: extra results are skipped and the loop's verdict so far is returned.
MutNoMatchingContext ==
    /\ InLoop
    /\ index >= count
    /\ Return([outcome |-> IF first_rejection = 0 THEN "InvalidPdu"
                           ELSE "ContextRejected",
               index |-> first_rejection])

NoMatchingContext ==
    /\ InLoop
    /\ index >= count
    /\ Return([outcome |-> "InvalidPdu", index |-> 0])

Accept ==
    /\ InLoop
    /\ index < count
    /\ results[index + 1] = "Acceptance"
    /\ Return([outcome |-> "Ok", index |-> index + 1])

\* Slip: the latest rejection replaces the one already remembered.
MutRememberRejection(current) == index + 1

\* get_or_insert keeps the rejection already remembered.
RememberRejection(current) == IF current = 0 THEN index + 1 ELSE current

Continue ==
    /\ InLoop
    /\ index < count
    /\ results[index + 1] # "Acceptance"
    /\ index' = index + 1
    /\ first_rejection' = IF results[index + 1] = "NegotiateAck"
                          THEN first_rejection
                          ELSE RememberRejection(first_rejection)
    /\ UNCHANGED <<results, count, answer>>

AfterLoop ==
    /\ answer = Running
    /\ index = Len(results)
    /\ \/ /\ first_rejection # 0
          /\ Return([outcome |-> "ContextRejected", index |-> first_rejection])
       \/ /\ first_rejection = 0
          /\ Return([outcome |-> "InvalidPdu", index |-> 0])

Next == NoMatchingContext \/ Accept \/ Continue \/ AfterLoop

Spec == Init /\ [][Next]_vars
-----------------------------------------------------------------------------
(***************************************************************************)
(* The function returns what its contract says of the whole result list:   *)
(* the first accepted context among those proposed, otherwise the first    *)
(* rejection, otherwise an invalid PDU (docs/protocol-reference.md: "The   *)
(* client selects the first accepted context and reports explicit          *)
(* rejection errors otherwise").                                           *)
(***************************************************************************)
AnswerIsFirstAccepted ==
    answer # Running => AcceptedContextIs(results, count, answer)

(***************************************************************************)
(* What the loop knows at its head; the strengthening that makes           *)
(* AnswerIsFirstAccepted inductive.                                        *)
(***************************************************************************)
LoopInvariant ==
    /\ results \in Seq(PresentationResultCode)
    /\ count \in Nat
    /\ index \in 0..Len(results)
    /\ first_rejection \in 0..index
    /\ index <= count
    /\ \A i \in 1..index : results[i] # "Acceptance"
    /\ first_rejection = 0 => \A i \in 1..index : i \notin Rejected(results)
    /\ first_rejection # 0 => IsFirst(first_rejection, Rejected(results))
=============================================================================
