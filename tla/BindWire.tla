------------------------------ MODULE BindWire ------------------------------
(***************************************************************************)
(* The two bodies of a bind exchange on the wire: the list of contexts     *)
(* that a Bind carries, and the BindAck that answers it.  A behaviour      *)
(* takes one of them through its code; the other one stays empty.          *)
(***************************************************************************)
EXTENDS ContextList, BindAck

VARIABLE body   \* "Bind" or "BindAck"

wireVars == <<vars, ackVars, body>>

WireInit ==
    /\ body \in {"Bind", "BindAck"}
    /\ Init
    /\ AckInit
    /\ body = "Bind" => ack_len = 0 /\ addr_len = 0 /\ result_count = 0

WireNext ==
    \/ body = "Bind" /\ Next /\ UNCHANGED <<ackVars, body>>
    \/ body = "BindAck" /\ AckNext /\ UNCHANGED <<vars, body>>

WireSpec == WireInit /\ [][WireNext]_wireVars
=============================================================================
