---------------------------- MODULE ContextList ----------------------------
(***************************************************************************)
(* PresentationContextList::encode and decode of src/bind.rs: the client   *)
(* announces its contexts in a byte and appends them, the receiver takes   *)
(* as many as the byte says.  The buffer is its length, its count byte and *)
(* the contexts that were written, each at its offset; a context read at   *)
(* another offset, or past the last one, has an arbitrary syntax count.    *)
(***************************************************************************)
EXTENDS Bind

CONSTANTS
    Lists,      \* presentation context lists that are encoded
    PeerCounts, \* count bytes of a peer that writes its own lists
    PeerLens    \* lengths of such lists

ASSUME ContextListAssumption ==
    Lists \subseteq Seq(Contexts) /\ PeerCounts \subseteq 0..(U8 - 1) /\ PeerLens \subseteq Nat

VARIABLES
    stage,    \* "idle", "panicked", "wire", "Ok", "InvalidPdu"
    list,     \* the contexts that were encoded
    count,    \* bytes[0]
    len,      \* bytes.len()
    offset,   \* decode: where the next context starts
    contexts  \* decode: transfer syntax counts of the contexts read so far

vars == <<stage, list, count, len, offset, contexts>>

Init ==
    /\ stage = "idle" /\ list = <<>> /\ count = 0 /\ len = 0
    /\ offset = 0 /\ contexts = <<>>

-----------------------------------------------------------------------------
\* Slip: the list header is counted as one of the contexts.
MutCountByte(l) == (Len(l) + 1) % U8

\* contexts.len() as u8
CountByte(l) == Len(l) % U8

EncodeList(l) ==
    /\ stage = "idle"
    /\ list' = l
    /\ IF ListPanics(l)
       THEN stage' = "panicked" /\ UNCHANGED <<count, len, offset>>
       ELSE stage' = "wire" /\ count' = CountByte(l) /\ len' = ListLen(l) /\ offset' = 4
    /\ UNCHANGED contexts

\* A peer's own bytes (external); less than 4 of them have no count.
PeerList(c, n) ==
    /\ stage = "idle"
    /\ stage' = IF n < 4 THEN "InvalidPdu" ELSE "wire"
    /\ count' = c /\ len' = n /\ offset' = 4
    /\ UNCHANGED <<list, contexts>>

-----------------------------------------------------------------------------
\* Where the n-th context of the encoded list was written.
Starts(n) == ListLen(SubSeq(list, 1, n - 1))

\* What bytes[2] of a context read at the offset may be.
TransferCounts ==
    LET here == {n \in DOMAIN list : Starts(n) = offset}
    IN  IF here # {} THEN {Len(list[n].transfer_syntaxes) : n \in here} ELSE 0..(U8 - 1)

Needed(syntaxes) == 24 + 20 * syntaxes

\* Slip: a context may end one byte past the buffer.
MutFits(syntaxes) == len - offset >= 24 /\ len - offset + 1 >= Needed(syntaxes)

Fits(syntaxes) == len - offset >= 24 /\ len - offset >= Needed(syntaxes)

MoreToRead == stage = "wire" /\ Len(contexts) < count

DecodeContext(syntaxes) ==
    /\ Fits(syntaxes)
    /\ contexts' = Append(contexts, syntaxes)
    /\ offset' = offset + Needed(syntaxes)
    /\ UNCHANGED <<stage, list, count, len>>

ContextRefused(syntaxes) ==
    /\ ~Fits(syntaxes)
    /\ stage' = "InvalidPdu"
    /\ UNCHANGED <<list, count, len, offset, contexts>>

\* Trailing bytes are refused.
Return ==
    /\ stage = "wire" /\ Len(contexts) = count
    /\ stage' = IF offset = len THEN "Ok" ELSE "InvalidPdu"
    /\ UNCHANGED <<list, count, len, offset, contexts>>

Next ==
    \/ \E l \in Lists : EncodeList(l)
    \/ \E c \in PeerCounts, n \in PeerLens : PeerList(c, n)
    \/ /\ MoreToRead
       /\ \E syntaxes \in TransferCounts : DecodeContext(syntaxes) \/ ContextRefused(syntaxes)
    \/ Return

Spec == Init /\ [][Next]_vars

-----------------------------------------------------------------------------
SyntaxCounts(l) == [i \in DOMAIN l |-> Len(l[i].transfer_syntaxes)]

(***************************************************************************)
(* Whatever the count bytes of a list say, the contexts decode has taken   *)
(* lie in the buffer, so `&bytes[offset..]` never starts past its end.     *)
(***************************************************************************)
ContextsInside == stage \in {"wire", "Ok"} => offset <= len

(***************************************************************************)
(* The receiver of a bind gets the proposed contexts, all and in order, or *)
(* none: a list too long for the count byte is rejected as a whole, it is  *)
(* never taken for a shorter list.                                         *)
(***************************************************************************)
AllOrNothing ==
    list # <<>> =>
       /\ stage = "Ok" => contexts = SyntaxCounts(list)
       /\ stage = "InvalidPdu" => Len(list) >= U8
=============================================================================
