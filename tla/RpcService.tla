----------------------------- MODULE RpcService -----------------------------
(***************************************************************************)
(* What RpcClient promises its caller.  A client comes from a constructor  *)
(* or there is none.  A call gathers the server's answer to it, in order   *)
(* and without gaps, and returns when that answer has ended: with all of   *)
(* it, with the fault that ended it, or at any time with an error.  After  *)
(* an error the client may be called again, and the promise is the same.   *)
(***************************************************************************)
EXTENDS Naturals, Sequences

VARIABLES
    phase,    \* "new", "idle", "busy" or "gone"
    call,     \* the number of the call in hand, or of the last one
    answer,   \* what it has gathered: PDUs, named by call and rank
    outcome,  \* what the last operation returned: "None", "Ok", "Fault", "Error"
    ended     \* calls the server has answered to the end

vars == <<phase, call, answer, outcome, ended>>

Init ==
    /\ phase = "new" /\ call = 0 /\ answer = <<>>
    /\ outcome = "None" /\ ended = {}

\* A constructor returns a client; new_bound cannot fail and reports nothing.
Obtain ==
    /\ phase = "new"
    /\ phase' = "idle"
    /\ outcome' \in {"None", "Ok"}
    /\ UNCHANGED <<call, answer, ended>>

NotObtained ==
    /\ phase = "new"
    /\ phase' = "gone" /\ outcome' = "Error"
    /\ UNCHANGED <<call, answer, ended>>

Begin ==
    /\ phase = "idle"
    /\ phase' = "busy"
    /\ call' = call + 1 /\ answer' = <<>>
    /\ UNCHANGED <<outcome, ended>>

\* An error before anything is sent; a typed request that is not serialized is
\* not even a call.
Refuse ==
    /\ phase = "idle"
    /\ outcome' = "Error"
    /\ \/ UNCHANGED <<call, answer>>
       \/ call' = call + 1 /\ answer' = <<>>
    /\ UNCHANGED <<phase, ended>>

\* The next PDU of the answer to this call, and no other.
Following == <<call, Len(answer) + 1>>

Gather ==
    /\ phase = "busy"
    /\ answer' = Append(answer, Following)
    /\ UNCHANGED <<phase, call, outcome, ended>>

\* The last PDU: the answer is returned, or lost to a failing deserialize.
GatherLast ==
    /\ phase = "busy"
    /\ call \in ended
    /\ answer' = Append(answer, Following)
    /\ phase' = "idle"
    /\ outcome' \in {"Ok", "Error"}
    /\ UNCHANGED <<call, ended>>

ReturnFault ==
    /\ phase = "busy"
    /\ call \in ended
    /\ phase' = "idle" /\ outcome' = "Fault"
    /\ UNCHANGED <<call, answer, ended>>

ReturnError ==
    /\ phase = "busy"
    /\ phase' = "idle" /\ outcome' = "Error"
    /\ UNCHANGED <<call, answer, ended>>

\* The server ends an answer, to this call or to an earlier one.
ServerEnds ==
    /\ \E c \in 0..call : ended' = ended \cup {c}
    /\ UNCHANGED <<phase, call, answer, outcome>>

Next ==
    \/ Obtain \/ NotObtained
    \/ Begin \/ Refuse
    \/ Gather \/ GatherLast \/ ReturnFault \/ ReturnError
    \/ ServerEnds

Spec == Init /\ [][Next]_vars
=============================================================================
