---------------------------- MODULE AuthProvider ----------------------------
(***************************************************************************)
(* The provider a client holds, `Box<dyn RpcAuthProvider>`: one of the two *)
(* that src/auth.rs implements.  Both share the state of the call in hand  *)
(* (pc, last, inits); the fields of the other one stay as they are.        *)
(***************************************************************************)
EXTENDS GssapiProvider

VARIABLES
    mechanism,   \* "Ntlm" or "Kerberos"
    credentials_handle, target, established, status, incomplete, finished

Ntlm == INSTANCE NtlmProvider

gssapiOnly == <<op, context, fresh, major, output, live, misused, done, before>>

ntlmOnly == <<credentials_handle, target, established, status, incomplete, finished>>

ProviderInit == mechanism \in {"Ntlm", "Kerberos"} /\ Init /\ Ntlm!Init

ProviderNext ==
    \/ mechanism = "Kerberos" /\ Next /\ UNCHANGED <<mechanism, ntlmOnly>>
    \/ mechanism = "Ntlm" /\ Ntlm!Next /\ UNCHANGED <<mechanism, gssapiOnly>>

ProviderSpec == ProviderInit /\ [][ProviderNext]_<<mechanism, vars, ntlmOnly>>

-----------------------------------------------------------------------------
(***************************************************************************)
(* is_context_established of RpcAuthProvider: after an init_context or a   *)
(* step that succeeded, it says whether the security library considers the *)
(* context in use established, and not an earlier one or an earlier token. *)
(***************************************************************************)
EstablishedTrue == IF mechanism = "Ntlm" THEN Ntlm!NtlmEstablished ELSE GssapiEstablished

(***************************************************************************)
(* The NTLM provider hands out a token only when sspi has nothing left to  *)
(* complete about it, made with the credentials and the target of one and  *)
(* the same init_context, also when a later one failed.                    *)
(***************************************************************************)
TokensComplete == mechanism = "Ntlm" => Ntlm!CompleteTokens
=============================================================================
