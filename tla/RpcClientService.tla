-------------------------- MODULE RpcClientService --------------------------
(***************************************************************************)
(* RpcClient, read as the service it offers.  As call ids repeat after a   *)
(* cycle, the promise is for as many calls as there are ids.               *)
(***************************************************************************)
EXTENDS RpcClient

ASSUME OneCycleAssumption == MaxCalls < MaxCallId

Phase ==
    CASE pc \in {"unbound", "binding", "auth3"} -> "new"
      [] pc = "ready" -> "idle"
      [] pc \in {"sending", "receiving"} -> "busy"
      [] OTHER -> "gone"

Service == INSTANCE RpcService WITH
    phase <- Phase,
    call <- ncalls,
    answer <- [i \in DOMAIN response_stub |-> <<response_stub[i].call, response_stub[i].rank>>],
    outcome <- IF result \in {"None", "Ok", "Fault"} THEN result ELSE "Error",
    ended <- finished

(***************************************************************************)
(* RpcClient keeps its promise over a transport that fails and with a      *)
(* server that answers late, wrongly or not at all: each step it takes is  *)
(* one the service allows, so an answer never mixes calls, never skips a   *)
(* fragment, and is returned only once the server has ended it.            *)
(***************************************************************************)
ImplementsRpcService == Service!Spec
=============================================================================
