----------------------- MODULE AcceptedContextProofs -----------------------
(***************************************************************************)
(* The loop of accepted_context computes its contract, for every ack and   *)
(* every number of proposed contexts.                                      *)
(***************************************************************************)
EXTENDS AcceptedContext, TLAPS

(***************************************************************************)
(* What the loop knows at its head holds throughout the function.          *)
(***************************************************************************)
THEOREM LoopInvariantHolds == Spec => []LoopInvariant
<1>1. Init => LoopInvariant
  BY InputAssumption DEF Init, LoopInvariant, Rejected, IsFirst
<1>2. LoopInvariant /\ [Next]_vars => LoopInvariant'
  <2> SUFFICES ASSUME LoopInvariant, [Next]_vars PROVE LoopInvariant'
    OBVIOUS
  <2> USE DEF LoopInvariant
  <2>1. CASE NoMatchingContext
    BY <2>1 DEF NoMatchingContext, Return, Rejected, IsFirst
  <2>2. CASE Accept
    BY <2>2 DEF Accept, Return, Rejected, IsFirst
  <2>3. CASE Continue
    <3> USE <2>3 DEF Continue, InLoop
    <3>1. /\ index + 1 \in 1..Len(results) /\ index' = index + 1
          /\ results' = results /\ count' = count
      OBVIOUS
    <3>2. DOMAIN results = 1..Len(results)
      OBVIOUS
    <3>3. first_rejection' \in 0..index' /\ index' <= count'
      BY <3>1 DEF RememberRejection
    <3>4. \A i \in 1..index' : results'[i] # "Acceptance"
      BY <3>1
    <3>5. CASE results[index + 1] = "NegotiateAck"
      BY <3>1, <3>2, <3>3, <3>4, <3>5 DEF Rejected
    <3>6. CASE results[index + 1] # "NegotiateAck"
      <4>1. index + 1 \in Rejected(results)
        BY <3>1, <3>2, <3>6 DEF Rejected
      <4>2. CASE first_rejection = 0
        <5>1. first_rejection' = index + 1
          BY <3>6, <4>2 DEF RememberRejection
        <5>2. IsFirst(index + 1, Rejected(results))
          BY <3>1, <3>2, <4>1, <4>2 DEF IsFirst, Rejected
        <5> QED
          BY <3>1, <3>3, <3>4, <5>1, <5>2
      <4>3. CASE first_rejection # 0
        BY <3>1, <3>3, <3>4, <3>6, <4>3 DEF RememberRejection
      <4> QED
        BY <4>2, <4>3
    <3> QED
      BY <3>5, <3>6
  <2>4. CASE AfterLoop
    BY <2>4 DEF AfterLoop, Return, Rejected, IsFirst
  <2>5. CASE UNCHANGED vars
    BY <2>5 DEF vars, Rejected, IsFirst
  <2> QED
    BY <2>1, <2>2, <2>3, <2>4, <2>5 DEF Next
<1> QED
  BY <1>1, <1>2, PTL DEF Spec

(***************************************************************************)
(* The function returns the first accepted context among those proposed,   *)
(* otherwise its first rejection, otherwise an invalid PDU, whatever the   *)
(* number and the order of the results in the bind ack.                    *)
(***************************************************************************)
THEOREM AnswerCorrect == Spec => []AnswerIsFirstAccepted
<1>1. Init => AnswerIsFirstAccepted
  BY DEF Init, AnswerIsFirstAccepted
<1>2. LoopInvariant /\ AnswerIsFirstAccepted /\ [Next]_vars => AnswerIsFirstAccepted'
  <2> SUFFICES ASSUME LoopInvariant, AnswerIsFirstAccepted, [Next]_vars
               PROVE  AnswerIsFirstAccepted'
    OBVIOUS
  <2>0. DOMAIN results = 1..Len(results) /\ Len(results) \in Nat
    BY DEF LoopInvariant
  <2>1. CASE NoMatchingContext
    <3>1. \A i \in Accepted(results) : i > count
      BY <2>0, <2>1 DEF NoMatchingContext, InLoop, LoopInvariant, Accepted
    <3>2. Len(results) > count
      BY <2>0, <2>1 DEF NoMatchingContext, InLoop, LoopInvariant
    <3> QED
      BY <2>1, <3>1, <3>2
      DEF NoMatchingContext, Return, AnswerIsFirstAccepted, AcceptedContextIs
  <2>2. CASE Accept
    <3>1. index + 1 \in 1..count /\ IsFirst(index + 1, Accepted(results))
      BY <2>0, <2>2 DEF Accept, InLoop, LoopInvariant, Accepted, IsFirst
    <3> QED
      BY <2>2, <3>1 DEF Accept, Return, AnswerIsFirstAccepted, AcceptedContextIs
  <2>3. CASE Continue
    BY <2>3 DEF Continue, InLoop, AnswerIsFirstAccepted
  <2>4. CASE AfterLoop
    <3>1. Accepted(results) = {} /\ Len(results) <= count
      BY <2>0, <2>4 DEF AfterLoop, LoopInvariant, Accepted
    <3>2. CASE first_rejection # 0
      <4>1. first_rejection \in 1..count /\ IsFirst(first_rejection, Rejected(results))
        BY <3>2 DEF LoopInvariant
      <4>2. answer' = [outcome |-> "ContextRejected", index |-> first_rejection]
            /\ results' = results /\ count' = count
        BY <2>4, <3>2 DEF AfterLoop, Return
      <4> QED
        BY <3>1, <4>1, <4>2 DEF AnswerIsFirstAccepted, AcceptedContextIs
    <3>3. CASE first_rejection = 0
      <4>1. Rejected(results) = {}
        BY <2>0, <2>4, <3>3 DEF AfterLoop, LoopInvariant, Rejected
      <4>2. answer' = [outcome |-> "InvalidPdu", index |-> 0]
            /\ results' = results /\ count' = count
        BY <2>4, <3>3 DEF AfterLoop, Return
      <4> QED
        BY <3>1, <4>1, <4>2 DEF AnswerIsFirstAccepted, AcceptedContextIs
    <3> QED
      BY <3>2, <3>3
  <2>5. CASE UNCHANGED vars
    BY <2>5 DEF vars, AnswerIsFirstAccepted
  <2> QED
    BY <2>1, <2>2, <2>3, <2>4, <2>5 DEF Next
<1> QED
  BY <1>1, <1>2, LoopInvariantHolds, PTL DEF Spec
=============================================================================
