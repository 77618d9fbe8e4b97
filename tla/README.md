# msrpce-dcerpc: TLA+ models, model checking and proofs

`msrpce-dcerpc` is a synchronous MS-RPCE client: it binds to an interface over
an abstract transport, optionally authenticates at level Connect, and makes calls
whose request stub is sent in fragments and whose response is put together
from fragments. This directory models that client, its bind negotiation, its wire
format, its authentication providers and its named-pipe transport, checks them with
TLC on small instances and proves every safety property and both refinements with TLAPS
for every value of the constants.

## The system

| Component | State | Operations | Correct when |
|---|---|---|---|
| `RpcClient` (`client.rs`) | `context_id`, `call_id`, `max_xmit_frag`, `auth_provider`; the locals of the call in hand | `bind*`, `new_bound*`, `with_max_xmit_frag`, `call`, `call_raw` | a returned stub is the whole answer to that call; requests tile the stub and fit; the bound context is one the server accepted; every call returns |
| Bind negotiation (`bind.rs`) | none | `accepted_context`, encoding of context lists, decoding of bind acks | the first accepted context is selected; rejections are reported |
| PDU format (`pdu.rs`) | none | `encode`, `decode` of packets and bodies | lengths fit their fields; what is encoded decodes to itself |
| `NcacnNpTransport` (`ncacn_np.rs`) | position in the byte stream | `send_pdu`, `recv_pdu` | each `recv_pdu` returns one PDU of the peer, whole and in order |
| Auth providers (`auth.rs`) | credentials, security context, `established` | `init_context`, `step`, drop | tokens in order; resources released once; `established` tells the truth |
| `syntax.rs`, `error.rs`, `debug.rs`, `lib.rs` | none | constants, texts, re-exports | - |

The client calls its transport (`send_pdu`, `recv_pdu`) and its provider
(`init_context`, `step`, `auth_level`); there are no threads and no callbacks.
What is hard is what lies on the other side of those calls. The server and the
transport act at every `send_pdu` and `recv_pdu`, and any of them may fail while
the client object lives on: an error from `call_raw` does not close anything, so
the next call starts on a transport that may still hold, or later deliver, the
answer to the failed one. Only the call id keeps them apart. The `hazards` of
`PROJECT.json` list these places line by line.

## Modules

| Module | Models | Composes |
|---|---|---|
| `Pdu` | lengths and limits of `pdu.rs` | |
| `PduWire` | construction, `encode` and `decode` of packets, the length checks of body decoders | `Pdu` |
| `Bind` | limits of `bind.rs`, what `accepted_context` returns | |
| `AcceptedContext` | the loop of `accepted_context`, one iteration per step | `Bind` |
| `ContextList` | context lists, encoded and decoded | `Bind` |
| `BindAck` | `BindAckPdu::decode`, one step per test or result | `Pdu` |
| `BindWire` | the two bodies of a bind exchange | `ContextList`, `BindAck` |
| `RpcClient` | `client.rs`, the transport's outcomes, the server (external) | `Pdu`, `Bind` |
| `RpcService` | abstract: what a client promises its caller | |
| `RpcClientService` | `RpcClient` implements `RpcService` | both |
| `TypedCall` | the transfer syntax from bind to `call` | `Bind` |
| `NcacnNp` | `recv_pdu` and `read_exact` over a byte stream; the peer (external) | |
| `PduChannel` | abstract: what `recv_pdu` promises the client | |
| `NcacnNpChannel` | `NcacnNp` implements `PduChannel` | both |
| `PipeSend` | `send_pdu`, `write_all` and flush over a buffering writer; the peer (external) | |
| `NtlmProvider` | `NtlmRpcAuthProvider`; `sspi` (external) | |
| `GssapiProvider` | `GssapiKerberosRpcAuthProvider` and its context; GSSAPI (external) | |
| `AuthProvider` | the provider of a client, either of the two | `NtlmProvider`, `GssapiProvider` |
| `MC*` | the values TLC uses | |
| `*Proofs` | theorems | the module they are about |

`CallProofs` builds on `RpcClientProofs`. Operators whose names begin with `Mut` are deliberately wrong variants, one slip each: a property earns its place
by failing when the slip replaces the original.

### RpcClient and the code

`pc` is where the API call in hand stands, between calls `ready`:

    unbound --bind--> binding --ack--> (auth3) --> ready --call--> sending --> receiving --> ready
       |                 |                |           ^                |            |
       +--> failed <-----+----------------+           +----- error ----+------------+

One action is one stretch of code between two interactions with the transport.
Each early return is its own action: `BindEmpty`, `BindInitFails`, `BindRefused`
(encoding or level), `BindSendFails`, `BindRecvFails`, `RecvBindInvalid`,
`RecvBindNak`, `RecvBindAckRejected`, `BindStepFails`, `Auth3Refused`, ... A failed
bind consumes the transport, so it ends the run (`failed`); a failed call does not
(`Return`). `BindPanics` is the `expect` in `PresentationContextList::encode`.

`accepted_context` enters the client model as the relation `AcceptedContextIs`;
`AcceptedContext` shows (theorem `AnswerCorrect`) that the loop computes it.

Data is abstracted to what the properties tell apart:

* A request fragment is the range `from..to` of the stub it carries, with its
  flags, ids and length. An empty stub takes the same step as the loop body: the
  code's separate branch sends the same fragment.
* A response fragment is named by the call it answers and its rank in that
  answer (`call`, `rank`). The client never reads those two fields; they are what
  the properties compare.
* A PDU that `PduPacket::decode` refuses has type `Garbage`; one whose body does
  not decode has `ok = FALSE`. All decoding errors are the result `InvalidPdu`.
* A provider is its level and the length of its last token.
* A typed `call` is a `call_raw` with two more ways to fail (`Ndr`), before and
  after. `opnum` is passed through and left out.

Integers keep their width: call ids are taken modulo `U32`, transfer syntax counts
are compared to `U8`, lengths to `U16_MAX`.

The server is external. It answers what it heard, late and in any order. `Faults`
says what else happens: `send` and `recv` errors (a failed send may have delivered
its PDU, as `write_all` ends with a flush; a failed receive may lose the PDU it was
reading), a `server` that breaks the protocol (answers half a request, sets flags at
will, goes on after its last fragment, sends what does not decode), `provider` and
`ndr` failures.

### NcacnNp and the code

The stream is a number of bytes; the peer's PDUs are ranges of it. `recv_pdu` is
`ReadHeader` (or `RejectHeader`) and `ReadBody`, each a `read_exact`; `ReadFails`
is a `read_exact` that fails after any number of bytes. A header read where a PDU
starts is that PDU's header; anywhere else its bytes are arbitrary, so it may decode
to any length or not at all.

### PipeSend and the code

`send_pdu` is `SendPdu`, then writes of any size (`WriteSome`, the loop inside
`Write::write_all`), then `Flush`; each may fail. The inner object is any `Write`: it may
hold bytes back until flushed (`arrived` lags behind what was taken) or pass them on
early (`Drain`). After the last fragment of a request the caller waits. `cut` records
that a write failed inside a PDU; from then on the peer reads the next PDU as the rest of
the broken one, and the code has no remedy: the pipe should be given up.

### The wire modules and the code

Bytes are positions and lengths. In `PduWire` a packet is the lengths of body, padding
and token; a buffer is its length, the two length fields of its header as they lie in it
(so a field written in one byte order and read in the other comes out swapped), and the
place of its trailer. A trailer or, in `ContextList`, a context read anywhere else
than where one was written has arbitrary contents. A buffer may also be a peer's, with
any length fields. `BindAck` takes every body as the server's choice.

### The providers and the code

One action is one call into the library with what the code does with its outcome. In
`GssapiProvider` the library keeps account of the handles it gave out (`live`) and
notices one given back twice (`misused`); a failing `gss_init_sec_context` may leave,
create or delete the context and allocate a token. In `NtlmProvider` credentials and
target are named by the `init_context` they come from. The client model takes a
provider by its contract only: it fails, or returns a token of some length.

### The abstract specifications

`RpcService` says what a caller may rely on: a call gathers the PDUs of its own answer,
in order and without gaps, and returns all of it, or the fault that ended it, only when
the server has ended the answer; or it returns an error, after which the client may be used
again. `RpcClientService` maps `response_stub`, `finished` and `pc` to it; since ids
repeat after a cycle, it assumes no more calls than ids.

`PduChannel` says what the client's model assumes of its transport: PDUs come one by one
and in order, and a failing `recv_pdu` took one or none, as in `RecvFails` of
`RpcClient`. It also says where that ends: an error may cost the framing, after which
nothing is promised. `NcacnNpChannel` maps positions in the byte stream to PDU numbers.

## Runs

| Run | Shows | Bounds |
|---|---|---|
| `AcceptedContext` | the loop returns what its contract says | all acks of 0 to 4 results, 0 to 3 contexts: more, as many and fewer results than contexts |
| `LateAnswers` | `OkIsWholeAnswer`, `StaleCallFails`, `FaultIsOurs`, `ImplementsRpcService` | sends and receives that fail, a server that misbehaves; 3 calls, 2 PDUs per call, 3 in flight: answers of two earlier calls can meet the third |
| `RepeatedCalls` | id arithmetic and separation across the wrap; fragmentation, sizes, unsupported levels | ids 1..2 and 4 calls: two whole cycles; stubs of 0, 1, 5 bytes; `max_xmit_frag` 0, 24 (no room), 25, 26 (one and two bytes), 65535 |
| `BindExchange` | the accepted context and the handshake | up to 2 contexts, 7 kinds of result list, tokens of 0, 40 and 65536 bytes (the last cannot be encoded) |
| `Conforming` | `InStep`, `BindReturns`, `CallReturns`, `ImplementsRpcService` | a bind with or without provider and 2 calls, stubs in up to 2 fragments, answers of up to 2 |
| `Pipe` | framing and lengths, `ImplementsPduChannel`, `AllReceived` | header of 2 bytes, PDUs of 2, 3 and 5, lying lengths 1 and 4, 2 PDUs, 3 calls: one call more than PDUs, so that one can fail and the next start inside a PDU |
| `PduWire` | `PiecesTileBuffer`, `RoundTrip`, `RelayFaithful` | stubs at and around 65535 less each overhead, pads 0, 3, 255, tokens 0, 1, 16, 65536, both byte orders and an unknown one; peer lengths around 16, 24 and 65535 |
| `BindWire` | `ContextsInside`, `AllOrNothing`, `ResultsInside`, `DecodesExactly` | count bytes of 3 values, so that 4 contexts or 3 syntaxes overflow; peer lists of every boundary length; bind acks of 0 to 92 bytes, addresses of 0 to 6 and 65535 bytes (every padding), counts 0 to 3 and 255 |
| `AuthProvider` | `ReleasedExactlyOnce`, `FailedInitKeepsContext`, `EstablishedTrue`, `TokensComplete` | 3 `init_context` calls and any number of steps between them: a context can be replaced twice |
| `PipeSend` | `PeerGetsPdus`, `AnswerComes` | 3 PDUs of 1 and 3 bytes: a cut before, between and behind whole ones |
| `BindPanic`, `TypedCall` | violations: see Findings | the code's own `U8 = 256` |

Deadlock checking is off: a client may stop after any call, and the bounds on calls
and PDUs end every behaviour.

Some properties deserve a remark. `StaleCallFails` says a call that starts while
PDUs of earlier calls wait is certain to fail: the client consumes one stale PDU
per failing call and does not skip it. That is what the code does, and the safe
side of the choice; a caller who retries must expect it. `CallIdSeparation` is
limited to a cycle of `MaxCallId` ids, as the ids are. `OkIsWholeAnswer` relies on
the server numbering nothing: order and completeness come from the stream's order and
from the client giving up at the first PDU it does not expect. `RoundTrip` names the one
packet that does not survive `encode` and `decode`: with a trailer and an empty token
`auth_length` is 0, and padding and trailer come back as the end of the body. A
provider whose `init_context` returned an empty token would send such a bind.
`EstablishedTrue` speaks of operations that succeeded; after a
failed step the flag keeps its value. `RpcClient` never asks for it.

### Fairness

`FairSpec` of `RpcClient` assumes weak fairness of the steps of a bind or call in
hand (the thread that is inside the API call runs on), and of the server's answering.
The second is an assumption on the environment: the code has no timeout of its
own, and a call to a silent server over a transport without timeout does
not return. No fairness is assumed of starting calls. `FairSpec` of `NcacnNp`
assumes that a reader whose bytes have come reads them (`Reads`), and nothing of errors or
of the peer. `FairSpec` of `PipeSend` assumes
that a send or receive in hand goes on and that the peer reads what has come to it; it
assumes nothing of the inner writer, which may hold unflushed bytes for ever.

## Findings

`BindPanic`: `PresentationContextList::encode` unwraps the encoding of each context
with `expect("presentation context count was prevalidated")` (`src/bind.rs:108`),
but nothing validates it. `RpcClient::bind_with_contexts` with a context of 256
transfer syntaxes panics, where `PresentationContext::encode` has the error
`InvalidPdu("too many transfer syntaxes")` ready. The same function writes the number of contexts as
`contexts.len() as u8` (`src/bind.rs:101`), equally unvalidated: 256 contexts are
announced as 0. `AllOrNothing` shows how far that damage goes: a list too long for its
count byte is refused as a whole, never taken for a shorter one.

`TypedCall`: the client keeps the accepted context id and drops the accepted transfer
syntax; `call` serializes with `Ndr::new()` (`src/client.rs:220`) whatever was accepted.
`syntax.rs` names NDR32 and NDR64 as syntaxes "the generic client can negotiate", and
the README recommends `bind_with_contexts` for "a transfer syntax other than the default
helper". `Ndr::new()` has one syntax (a constant of the model; either value gives the
violation for some proposal), so one of the two cannot work with typed calls;
`call_raw` with a stub the caller encodes is not affected.

## Proofs

Every invariant and both refinements of the passing runs are theorems. Each `Spec => []P`
goes through an inductive invariant; where `P` is not one, the second column says what it
needs. TLC checked each strengthening on the run's instance before it was proved.

| Theorem (`property`) | Inductive invariant and argument |
|---|---|
| **`RpcClientProofs`** | |
| `TypeCorrect` (`TypeInvariant`) | `TypeOK` alone is not inductive: `Auth3Sent` indexes the proposals and a fragment's end needs room in `max_xmit_frag`; `TypeInvariant` adds both |
| `RequestsTile` (`RequestTiles`), `RequestsFit` (`FragmentsFit`) | `RequestInvariant`: the next fragment begins at `offset`, ends beyond it unless the stub is empty, and takes at most `max_xmit_frag - 24` bytes of stub |
| `UnsupportedSilent` (`UnsupportedNeverSends`) | `LevelInvariant`: before a bind nothing was sent, and only a supported level gets past its first packet |
| `HandshakesComplete` (`HandshakeComplete`) | `HandshakeInvariant`: while the bind waits exactly the Bind was sent; `auth3` is reached only by a provider that answered a challenge with a token |
| `AcceptedContextUsed` (`RequestsUseAcceptedContext`) | `ContextInvariant`: `context_id` is that of the context the ack accepted first, from the acceptance through the Auth3 to every fragment |
| **`CallProofs`** | |
| `IdsHold` (`IdInvariant`), `CallsKeptApart` (`CallIdSeparation`) | ids are issued in a cycle, so the next id lies `ncalls + 1 - c` places after that of call `c` (`IdWindow`); what waits in the transport carries the id of the call it answers (`QueueIds`). Equal ids are then a whole cycle apart |
| `StaysInStep` (`InStep`) | `StepInvariant`, of a conforming server: what it has heard and answered (`ServerKnows`), that its answers wait only while the client does (`ClientKnows`), and that what a waiting client has not got still waits or is still owed (`HandKnows`) |
| `OkAnswersWhole` (`OkIsWholeAnswer`), `StaleCallsFail` (`StaleCallFails`), `FaultsOurs` (`FaultIsOurs`) | `AnswerInvariant`: the PDUs of each answer wait in the order they were sent (`QueueOrder`), the stub is a beginning of the call's own answer (`StubInOrder`), and what is missing of it, and only that, is still to come; stale PDUs lie in front of it |
| `RpcServiceImplemented` (`ImplementsRpcService`) | step by step from `AnswerInvariant`: `RecvMore` is `Gather` and `RecvLast` is `GatherLast` because the PDU at the head is the next of the call's answer |
| **`AcceptedContextProofs`** | |
| `LoopInvariantHolds` (`LoopInvariant`), `AnswerCorrect` (`AnswerIsFirstAccepted`) | no acceptance among the results passed, `first_rejection` is the first rejection among them, and no more results were passed than contexts exist |
| **`BindWireProofs`** | |
| `ContextsStayInside` (`ContextsInside`), `ListsAllOrNothing` (`AllOrNothing`) | `ListInvariant`: decode stands where the next context was written as long as it has read what was proposed (`ReadsAhead`), so a count byte that wrapped leaves bytes over and the list is refused |
| `ResultsStayInside` (`ResultsInside`), `AcksDecodeExactly` (`DecodesExactly`) | `AckInvariant`: the offset is the aligned end of the address plus 24 bytes per result read |
| **`PduWireProofs`** | |
| `TypeCorrect` (`TypeOK`), `DecodeTilesBuffer` (`PiecesTileBuffer`), `EncodeDecodeRoundTrip` (`RoundTrip`), `RelaysFaithful` (`RelayFaithful`) | `PduInvariant`: an encoded buffer has the lengths of its packet once its fields are read in the order they were written (`OwnBuffer`; `Swapped`: swapping two bytes twice is the identity), and what decode returned is as long as its buffer (`DecodedPieces`), which is why it can be sent on (`RelayedPacket`) |
| **`NcacnNpProofs`** | |
| `FramingInvariantHolds` (`FramingInvariant`), `FramingKept` (`ReceivesThePdus`), `LengthsConsistent` (`LengthMatchesHeader`) | PDUs lie end to end (`Layout`), the reader stands on a boundary or a header behind one (`Aligned`), and the header in hand follows what was returned (`BodyBehindHeader`) |
| `PduChannelImplemented` (`ImplementsPduChannel`) | the mapping counts the PDUs that end before a position; a reader that kept the framing stands behind exactly `k` of them (`Standing`), and a read takes it to `k + 1`, to a position between (framing lost) or nowhere |
| **`PipeSendProofs`** | |
| `PeerReceives` (`PeerGetsPdus`) | `SendInvariant`: only the PDU being written is incomplete (`Unbroken`), and at the end of each PDU the next begins or the writer stands (`Seams`); so a peer that has read whole PDUs reads a whole one next |
| **`AuthProviderProofs`** | |
| `HandlesReleased` (`ReleasedExactlyOnce`), `FailedInitsKeepContext` (`FailedInitKeepsContext`), `EstablishedIsTrue` (`EstablishedTrue`), `TokensAreComplete` (`TokensComplete`) | `ProviderInvariant`: for each `pc`, exactly the handles of the context kept, of the one being made and of a token are out (`Books`), and old and new context have different ones (`ContextsApart`); for NTLM, that credentials and target come from the same `init_context` |

The theorems hold for every value of the constants that satisfies the named assumptions:
`U8Assumption`, `InputAssumption`, `ContextListAssumption`, `BindAckAssumption`,
`WireAssumption`, `FramingAssumption`, `SendAssumption`, `GssapiAssumption`,
`BoundsAssumption`, `SizesAssumption`, `ListsAssumption`, `LevelsAssumption`,
`FaultsAssumption`. They give constants their types and the ranges of the fields that hold
them (an address length is a `u16`, padding a `u8`), a header and a PDU at least one byte, and
`U32` at least 3. `RpcServiceImplemented` alone also uses `OneCycleAssumption`, no more
calls than ids: without it a stale answer could carry the id of the call in hand, and the
service would not be implemented. TLC evaluates all assumptions in the runs.

Context lists have no bound on their length either. That decode's offset is the
sum of the sizes before it needs an induction over the list; it is done with the least
counterexample, which the well-founded induction theorems give for sets, without an
operator parameter. Sets of PDUs before a position are counted with the cardinality
theorems for intervals.

Only model-checked: `BindReturns`, `CallReturns`, `AllReceived` and `AnswerComes`. They are
liveness properties under fairness, which is out of the prover's reach.

## Not modelled

* Error texts, tracing, debug output, re-exports: they change no state.
* UUIDs and interface versions, opnums, context ids of the auth trailer: carried, never
  inspected. The client reads nothing of them, so no property could tell values apart.
* `NcacnNpEndpoint::parse` and `service_name_for_target`: pure rewritings of one string.
* `transport_mut`, `pipe_mut`, `into_inner`: what a caller does behind the client's back.
* Body fields of a big-endian peer: the code reads them as little-endian whatever the
  header says. The repository does not say what is intended; it is listed as a hazard.
* Whether a provider's context is established when a bind returns: the code does not
  ask, and no document says it should. Also listed as a hazard.
* The fuzz targets, the example and the libraries underneath (`sspi`, GSSAPI, `msrpce-ndr`,
  the SMB pipe), which enter as environments that may do anything their interfaces allow.

## Plan

Done: the client, its negotiation, framing and sending, the wire format, the providers, the
two abstract specifications; all of their safety properties and both refinements are proved.
The map covers the state-changing code of every component. What is left:

1. The step from `PduChannel` to the transport inside `RpcClient`: both are stated, and
   `RecvFails` of the client is the failing `recv_pdu` of the channel by design, but no theorem
   composes the two specifications.
2. The safety half of the liveness properties: that a client which waits is always owed a
   PDU by a conforming server is part of `StepInvariant` and could be stated on its own.
