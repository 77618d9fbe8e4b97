----------------------------- MODULE MCBindWire -----------------------------
(* Lists up to and past what the count bytes can say; bodies of every      *)
(* length up to three results.                                             *)
EXTENDS BindWire

WithSyntaxes(n) == [context_id |-> 7, transfer_syntaxes |-> [k \in 1..n |-> "ndr32"]]

SmallLists == UNION {[1..n -> {WithSyntaxes(k) : k \in 0..U8}] : n \in 1..(U8 + 1)}

Lens == 0..92
=============================================================================
