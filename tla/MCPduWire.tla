----------------------------- MODULE MCPduWire -----------------------------
(* Lengths around every boundary of the header, the trailer and the u16.   *)
EXTENDS PduWire
=============================================================================
