------------------------------ MODULE BindAck ------------------------------
(***************************************************************************)
(* BindAckPdu::decode of src/bind.rs, one step per test or result read.    *)
(* A body is its length, its two counts and what its results decode to.    *)
(* Every length, count and result is the server's choice.                  *)
(***************************************************************************)
EXTENDS Pdu

CONSTANTS
    BodyLens,   \* lengths of bind ack bodies
    AddrLens,   \* secondary_addr_len values
    Counts,     \* result_count values
    Codes       \* result codes, "unknown" for one try_from refuses

ASSUME BindAckAssumption ==
    BodyLens \subseteq Nat /\ AddrLens \subseteq 0..U16_MAX /\ Counts \subseteq 0..255

VARIABLES
    at,          \* the next test: "head", "addr", "align", "count", "results" or the outcome
    ack_len,     \* bytes.len()
    addr_len,    \* secondary_addr_len
    result_count,
    ack_offset,
    results

ackVars == <<at, ack_len, addr_len, result_count, ack_offset, results>>

AckInit ==
    /\ at = "head"
    /\ ack_len \in BodyLens /\ addr_len \in AddrLens /\ result_count \in Counts
    /\ ack_offset = 0 /\ results = <<>>

Fail(test) ==
    /\ at = test
    /\ at' = "InvalidPdu"
    /\ UNCHANGED <<ack_len, addr_len, result_count, ack_offset, results>>

Pass(test, next, position) ==
    /\ at = test
    /\ at' = next
    /\ ack_offset' = position
    /\ UNCHANGED <<ack_len, addr_len, result_count, results>>

\* The fixed fields, and secondary_addr_len at bytes 8 and 9.
ReadHead ==
    \/ ack_len < 12 /\ Fail("head")
    \/ ack_len >= 12 /\ Pass("head", "addr", 10 + addr_len)

SecondaryAddr ==
    \/ ack_len < ack_offset /\ Fail("addr")
    \/ ack_len >= ack_offset /\ Pass("addr", "align", ack_offset)

\* Slip: only one byte of padding is ever skipped.
MutAlign ==
    \/ ack_offset % 4 # 0 /\ Pass("align", "count", ack_offset + 1)
    \/ ack_offset % 4 = 0 /\ Pass("align", "count", ack_offset)

\* while !offset.is_multiple_of(4)
Align ==
    \/ ack_offset % 4 # 0 /\ Pass("align", "align", ack_offset + 1)
    \/ ack_offset % 4 = 0 /\ Pass("align", "count", ack_offset)

ReadCount ==
    \/ ack_len < ack_offset + 4 /\ Fail("count")
    \/ ack_len >= ack_offset + 4 /\ Pass("count", "results", ack_offset + 4)

\* Slip: the test for the length of a result is left out.
MutResultFits == TRUE

ResultFits == ack_len >= ack_offset + 24

\* PresentationResult::decode of the next 24 bytes.
ReadResult(code) ==
    /\ at = "results"
    /\ Len(results) < result_count
    /\ ResultFits /\ code # "unknown"
    /\ results' = Append(results, code)
    /\ ack_offset' = ack_offset + 24
    /\ UNCHANGED <<at, ack_len, addr_len, result_count>>

ResultRefused(code) ==
    /\ Len(results) < result_count
    /\ ~ResultFits \/ code = "unknown"
    /\ Fail("results")

AckReturn ==
    /\ Len(results) = result_count
    /\ \/ ack_offset # ack_len /\ Fail("results")
       \/ ack_offset = ack_len /\ Pass("results", "Ok", ack_offset)

AckNext ==
    \/ ReadHead \/ SecondaryAddr \/ Align \/ ReadCount
    \/ (\E code \in Codes : ReadResult(code) \/ ResultRefused(code))
    \/ AckReturn

AckSpec == AckInit /\ [][AckNext]_ackVars

-----------------------------------------------------------------------------
(***************************************************************************)
(* Whatever the counts say, what decode has read lies in the body: the     *)
(* secondary address once it is tested, the count, every result.           *)
(***************************************************************************)
ResultsInside ==
    /\ at \in {"addr", "align", "count", "results", "Ok"} => ack_len >= 12
    /\ at \in {"align", "count", "results", "Ok"} => 10 + addr_len <= ack_len
    /\ at \in {"results", "Ok"} => ack_offset <= ack_len

(***************************************************************************)
(* A bind ack decodes only if its body is exactly the address, the padding *)
(* to 4, the count and that many results; then all of them are returned.   *)
(* A body of that layout is refused only for a result it holds.            *)
(***************************************************************************)
WellFormed == ack_len = ((10 + addr_len + 3) \div 4) * 4 + 4 + 24 * result_count /\ ack_len >= 12

DecodesExactly ==
    /\ at = "Ok" => WellFormed /\ Len(results) = result_count
    /\ WellFormed /\ at = "InvalidPdu" => Len(results) < result_count /\ "unknown" \in Codes
=============================================================================
