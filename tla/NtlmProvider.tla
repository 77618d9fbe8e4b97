---------------------------- MODULE NtlmProvider ----------------------------
(***************************************************************************)
(* NtlmRpcAuthProvider of src/auth.rs over the sspi crate: init_context    *)
(* acquires credentials and makes a first token, step makes the next one;  *)
(* each token may have to be completed before it is sent.                  *)
(*                                                                         *)
(* Credentials and target are named by the init_context call they come     *)
(* from, 0 for none.  sspi is external: any call may fail, and a token     *)
(* comes with any of the four statuses.                                    *)
(***************************************************************************)
EXTENDS Naturals

CONSTANT MaxInits   \* bound: init_context calls

VARIABLES
    pc,          \* "idle", "token" (next_token called) or "complete"
    credentials_handle, target, established,   \* the provider's fields
    status,      \* what initialize_security_context returned
    last,        \* what the last operation returned
    incomplete,  \* sspi: it waits for complete_auth_token
    finished,    \* sspi: its context needs no further token
    inits        \* init_context calls begun

fields == <<credentials_handle, target, established>>
sspi == <<status, incomplete, finished>>
vars == <<pc, fields, sspi, last, inits>>

Statuses == {"Ok", "ContinueNeeded", "CompleteNeeded", "CompleteAndContinue"}

Continues(s) == s \in {"ContinueNeeded", "CompleteAndContinue"}

\* Slip: only the last token is completed.
MutCompletes(s) == s = "CompleteNeeded"

Completes(s) == s \in {"CompleteNeeded", "CompleteAndContinue"}

Init ==
    /\ pc = "idle" /\ credentials_handle = 0 /\ target = 0 /\ established = FALSE
    /\ status = "Ok" /\ incomplete = FALSE /\ finished = FALSE
    /\ last = "Err" /\ inits = 0

Return(result) == pc' = "idle" /\ last' = result

\* acquire_credentials_handle fails: nothing has changed.
AcquireFails ==
    /\ pc = "idle"
    /\ inits < MaxInits
    /\ inits' = inits + 1
    /\ Return("Err")
    /\ UNCHANGED <<fields, sspi>>

\* Credentials and target are stored before the first token is made.
Acquire ==
    /\ pc = "idle"
    /\ inits < MaxInits
    /\ inits' = inits + 1
    /\ credentials_handle' = inits' /\ target' = inits'
    /\ pc' = "token"
    /\ UNCHANGED <<established, sspi, last>>

Step ==
    /\ pc = "idle"
    /\ IF credentials_handle = 0 \/ target = 0
       THEN Return("Err")
       ELSE pc' = "token" /\ UNCHANGED last
    /\ UNCHANGED <<fields, sspi, inits>>

\* initialize_security_context fails.
InitializeFails ==
    /\ pc = "token"
    /\ finished' = FALSE
    /\ Return("Err")
    /\ UNCHANGED <<fields, status, incomplete, inits>>

\* The end of next_token.
Established(s) == established' = ~Continues(s) /\ Return("Ok")

Initialize(s) ==
    /\ pc = "token"
    /\ status' = s
    /\ incomplete' = (s \in {"CompleteNeeded", "CompleteAndContinue"})
    /\ finished' = (s \in {"Ok", "CompleteNeeded"})
    /\ IF Completes(s) THEN pc' = "complete" /\ UNCHANGED <<established, last>>
       ELSE Established(s)
    /\ UNCHANGED <<credentials_handle, target, inits>>

CompleteFails ==
    /\ pc = "complete"
    /\ Return("Err")
    /\ UNCHANGED <<fields, sspi, inits>>

Complete ==
    /\ pc = "complete"
    /\ incomplete' = FALSE
    /\ Established(status)
    /\ UNCHANGED <<credentials_handle, target, status, finished, inits>>

Next ==
    \/ AcquireFails \/ Acquire \/ Step
    \/ InitializeFails \/ \E s \in Statuses : Initialize(s)
    \/ CompleteFails \/ Complete

Spec == Init /\ [][Next]_vars

-----------------------------------------------------------------------------
(***************************************************************************)
(* A token is handed to the client only when sspi has nothing left to      *)
(* complete about it, and it was made with the credentials and the target  *)
(* of one and the same init_context, also when a later one failed.         *)
(***************************************************************************)
CompleteTokens ==
    /\ pc = "idle" /\ last = "Ok" => ~incomplete /\ credentials_handle # 0
    /\ credentials_handle = target

(***************************************************************************)
(* After an operation that succeeded, is_context_established tells whether *)
(* sspi is done; before the first token of any kind it is FALSE.           *)
(***************************************************************************)
NtlmEstablished ==
    /\ pc = "idle" /\ last = "Ok" => established = finished
    /\ inits = 0 => ~established
=============================================================================
