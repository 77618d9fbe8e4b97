------------------------- MODULE MCRpcClientService -------------------------
(* Small instances of RpcClientService.                                    *)
EXTENDS RpcClientService, MCRpcClient
=============================================================================
