----------------------------- MODULE MCPipeSend -----------------------------
(* A small instance of PipeSend.                                           *)
EXTENDS PipeSend
=============================================================================
