---------------------------- MODULE MCTypedCall ----------------------------
(* The two contexts of tests/client_bind.rs, NDR64 first.                  *)
EXTENDS TypedCall

Ndr64ThenNdr32 == {<<[context_id |-> 0, transfer_syntaxes |-> <<"Ndr64">>],
                     [context_id |-> 2, transfer_syntaxes |-> <<"Ndr32">>]>>}
=============================================================================
