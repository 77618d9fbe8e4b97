---------------------------- MODULE MCRpcClient ----------------------------
(* Small instances of RpcClient.                                           *)
EXTENDS RpcClient

Context(id, n) == [context_id |-> id, transfer_syntaxes |-> [k \in 1..n |-> "ndr32"]]

NoLists == {}

\* None, one and two contexts; with U8 = 2 the last one is too long to encode.
SomeProposals == {<<>>, <<Context(7, 1)>>, <<Context(7, 1), Context(9, 1)>>,
                  <<Context(7, 1), Context(9, 2)>>}

\* One transfer syntax more than a u8 can count.
TooManySyntaxes == {<<Context(7, 256)>>}

SomeResults == {<<>>, <<"Acceptance">>, <<"UserRejection">>,
                <<"UserRejection", "Acceptance">>, <<"NegotiateAck", "Acceptance">>,
                <<"NegotiateAck">>, <<"UserRejection", "ProviderRejection", "Acceptance">>}
=============================================================================
