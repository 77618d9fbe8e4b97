--------------------------- MODULE NcacnNpProofs ---------------------------
(***************************************************************************)
(* recv_pdu keeps the framing of the byte stream, for every header length, *)
(* every choice of PDU lengths and any number of PDUs.                     *)
(***************************************************************************)
EXTENDS NcacnNpChannel, Integers, FiniteSetTheorems, TLAPS

(***************************************************************************)
(* The fields of a PDU in the stream: positions, and a length that is not  *)
(* zero because every PDU has a header.                                    *)
(***************************************************************************)
LEMMA PduType ==
  ASSUME TypeOK, NEW k \in DOMAIN pdus
  PROVE  /\ pdus[k].start \in Nat
         /\ pdus[k].len \in Nat \ {0}
         /\ pdus[k].len >= HeaderLen
         /\ pdus[k].header \in Headers
<1>1. pdus[k] \in PeerPdus
  BY DEF TypeOK
<1>2. pdus[k].start \in Nat /\ pdus[k].len \in PduLens /\ pdus[k].header \in Headers
  BY <1>1 DEF PeerPdus
<1>3. HeaderLen \in Nat \ {0} /\ \A n \in PduLens : n \in Nat /\ n >= HeaderLen
  BY FramingAssumption
<1> QED
  BY <1>2, <1>3

(***************************************************************************)
(* The ranges recv_pdu has returned are made of stream positions.          *)
(***************************************************************************)
LEMMA FrameType ==
  ASSUME TypeOK, NEW k \in DOMAIN got
  PROVE  got[k].from \in Nat /\ got[k].to \in Nat /\ got[k].frag_length \in Nat
<1>1. got[k] \in Frames
  BY DEF TypeOK
<1> QED
  BY <1>1 DEF Frames

(***************************************************************************)
(* Where a PDU of the peer starts, the header that recv_pdu decodes is     *)
(* that PDU's own: no two PDUs start at one position.                      *)
(***************************************************************************)
LEMMA HeaderOfPdu ==
  ASSUME TypeOK, Layout, NEW k \in DOMAIN pdus, NEW h \in HeadersAt(pdus[k].start)
  PROVE  h = pdus[k].header
<1>1. PICK j \in DOMAIN pdus : pdus[j].start = pdus[k].start /\ h = pdus[j].header
  BY DEF HeadersAt
<1>2. j \in Nat /\ k \in Nat
  BY DEF TypeOK
<1>3. /\ pdus[j].start \in Nat /\ pdus[k].start \in Nat
      /\ pdus[j].len \in Nat \ {0} /\ pdus[k].len \in Nat \ {0}
  BY PduType
<1>4. ~(j < k) /\ ~(k < j)
  BY <1>1, <1>2, <1>3 DEF Layout
<1> QED
  BY <1>1, <1>2, <1>4

(***************************************************************************)
(* What HeadersAt offers is always a header.                               *)
(***************************************************************************)
LEMMA HeadersAtType ==
  ASSUME TypeOK, NEW p, NEW h \in HeadersAt(p)
  PROVE  h \in Headers
  BY PduType DEF HeadersAt

(***************************************************************************)
(* The boundary after any PDU is a position in the stream.                 *)
(***************************************************************************)
LEMMA BoundaryType ==
  ASSUME TypeOK, NEW k \in 0..Len(pdus)
  PROVE  Boundary(k) \in Nat
<1>1. CASE k = 0
  BY <1>1 DEF Boundary
<1>2. CASE k # 0
  <2>1. k \in DOMAIN pdus
    BY <1>2 DEF TypeOK
  <2>2. pdus[k].start \in Nat /\ pdus[k].len \in Nat
    BY <2>1, PduType
  <2> QED
    BY <1>2, <2>2 DEF Boundary
<1> QED
  BY <1>1, <1>2

(***************************************************************************)
(* A failed recv_pdu, however many bytes it consumed, keeps the invariant. *)
(***************************************************************************)
LEMMA ErrorStep ==
  ASSUME FramingInvariant, RecvErrs, UNCHANGED <<pdus, avail, closed, frag_length, got>>,
         rd' \in rd..avail, recvs < MaxRecvs
  PROVE  FramingInvariant'
<1> USE DEF FramingInvariant, RecvErrs
<1>1. TypeOK'
  BY FramingAssumption DEF TypeOK
<1>2. Layout'
  BY DEF Layout, Boundary
<1>3. Aligned' /\ BodyBehindHeader' /\ ReceivesThePdus'
  BY DEF Aligned, BodyBehindHeader, ReceivesThePdus
<1>4. LengthMatchesHeader'
  <2>1. rd <= rd' /\ rd \in Nat /\ rd' \in Nat
    BY DEF TypeOK
  <2>2. \A k \in DOMAIN got : got[k].to \in Nat
    BY FrameType
  <2> QED
    BY <2>1, <2>2 DEF LengthMatchesHeader
<1> QED
  BY <1>1, <1>2, <1>3, <1>4

(***************************************************************************)
(* A PDU written by the peer goes to the end of the stream.                *)
(***************************************************************************)
LEMMA WriteStep ==
  ASSUME FramingInvariant, NEW len \in PduLens, NEW header \in Headers,
         PeerWrites(len, header)
  PROVE  FramingInvariant'
<1> USE DEF FramingInvariant, PeerWrites
<1> DEFINE new == [start |-> avail, len |-> len, header |-> header]
<1>0. len \in Nat \ {0} /\ new \in PeerPdus
  BY FramingAssumption DEF TypeOK, PeerPdus
<1>1. /\ pdus' = Append(pdus, new)
      /\ Len(pdus') = Len(pdus) + 1
      /\ DOMAIN pdus' = 1..(Len(pdus) + 1) /\ DOMAIN pdus = 1..Len(pdus)
      /\ \A k \in 1..Len(pdus) : pdus'[k] = pdus[k]
      /\ pdus'[Len(pdus) + 1] = new
  BY <1>0 DEF TypeOK
<1>2. TypeOK'
  BY <1>0, <1>1 DEF TypeOK
<1>3. \A k \in 0..Len(pdus) : Boundary(k)' = Boundary(k)
  BY <1>1 DEF Boundary, TypeOK
<1>4. Boundary(Len(pdus))' = avail + len
  BY <1>1 DEF Boundary, TypeOK
<1>5. \A k \in DOMAIN pdus : pdus[k].start + pdus[k].len <= avail
  <2> SUFFICES ASSUME NEW k \in DOMAIN pdus PROVE pdus[k].start + pdus[k].len <= avail
    OBVIOUS
  <2>1. avail = Boundary(Len(pdus)) /\ Len(pdus) \in DOMAIN pdus
    BY <1>1 DEF Layout, TypeOK
  <2>2. avail = pdus[Len(pdus)].start + pdus[Len(pdus)].len
    BY <2>1, <1>1 DEF Boundary, TypeOK
  <2>3. /\ pdus[k].start \in Nat /\ pdus[k].len \in Nat
        /\ pdus[Len(pdus)].start \in Nat /\ pdus[Len(pdus)].len \in Nat
    BY <2>1, PduType
  <2>4. CASE k = Len(pdus)
    BY <2>2, <2>3, <2>4
  <2>5. CASE k < Len(pdus)
    <3>1. pdus[k].start + pdus[k].len <= pdus[Len(pdus)].start
      BY <2>1, <2>5 DEF Layout
    <3> QED
      BY <3>1, <2>2, <2>3
  <2> QED
    BY <2>4, <2>5, <1>1
<1>6. Layout'
  <2>1. \A k \in DOMAIN pdus' : pdus'[k].start = Boundary(k - 1)'
    <3> SUFFICES ASSUME NEW k \in DOMAIN pdus' PROVE pdus'[k].start = Boundary(k - 1)'
      OBVIOUS
    <3>1. CASE k \in 1..Len(pdus)
      <4>1. Boundary(k - 1)' = Boundary(k - 1)
        BY <3>1, <1>3, <1>1
      <4> QED
        BY <3>1, <4>1, <1>1 DEF Layout
    <3>2. CASE k = Len(pdus) + 1
      <4>1. Boundary(k - 1)' = Boundary(Len(pdus))
        BY <3>2, <1>3, <1>1
      <4>2. pdus'[k].start = avail
        BY <3>2, <1>1
      <4> QED
        BY <4>1, <4>2 DEF Layout
    <3> QED
      BY <3>1, <3>2, <1>1
  <2>2. \A j, k \in DOMAIN pdus' :
           j < k => pdus'[j].start + pdus'[j].len <= pdus'[k].start
    BY <1>1, <1>5 DEF Layout, TypeOK
  <2>3. avail' = Boundary(Len(pdus))'
    BY <1>4
  <2> QED
    BY <2>1, <2>2, <2>3, <1>2 DEF Layout, TypeOK
<1>7. HeadersTrue' => HeadersTrue
  BY <1>1 DEF HeadersTrue
<1>8. Aligned'
  <2> SUFFICES ASSUME HeadersTrue', ~broken' PROVE Aligned'
    BY DEF Aligned
  <2>1. HeadersTrue /\ ~broken
    BY <1>7
  <2>2. Len(got) \in 0..Len(pdus) /\ Len(got) \in Nat
    BY <2>1 DEF ReceivesThePdus, TypeOK
  <2>3. CASE state = "header"
    <3>1. Boundary(Len(got))' = Boundary(Len(got))
      BY <1>3, <2>2
    <3> QED
      BY <2>1, <2>3, <3>1 DEF Aligned
  <2>4. CASE state # "header"
    BY <2>1, <2>2, <2>4, <1>1 DEF Aligned, TypeOK
  <2> QED
    BY <2>3, <2>4
<1>9. BodyBehindHeader' /\ LengthMatchesHeader'
  BY DEF BodyBehindHeader, LengthMatchesHeader
<1>10. ReceivesThePdus'
  <2> SUFFICES ASSUME HeadersTrue', ~broken' PROVE ReceivesThePdus'
    BY DEF ReceivesThePdus
  <2>1. HeadersTrue /\ ~broken
    BY <1>7
  <2>2. Len(got) <= Len(pdus) /\ DOMAIN got = 1..Len(got)
        /\ Len(got) \in Nat /\ Len(pdus) \in Nat
    BY <2>1 DEF ReceivesThePdus, TypeOK
  <2>3. Len(got)' <= Len(pdus)'
    BY <2>2, <1>1
  <2>4. \A k \in DOMAIN got : pdus'[k] = pdus[k]
    BY <2>2, <1>1
  <2> QED
    BY <2>1, <2>3, <2>4 DEF ReceivesThePdus
<1> QED
  BY <1>2, <1>6, <1>8, <1>9, <1>10

(***************************************************************************)
(* A header decoded at a PDU's start announces that PDU's body.            *)
(***************************************************************************)
LEMMA HeaderStep ==
  ASSUME FramingInvariant, NEW header \in HeadersAt(rd), ReadHeader(header)
  PROVE  FramingInvariant'
<1> USE DEF FramingInvariant, ReadHeader, pipe
<1>0. /\ header.frag_length \in Nat /\ rd' = rd + HeaderLen /\ rd' <= avail
      /\ rd \in Nat /\ avail \in Nat /\ HeaderLen \in Nat \ {0}
  <2>1. header \in Headers
    BY HeadersAtType
  <2>2. header.frag_length \in Nat
    BY <2>1, FramingAssumption DEF Headers, Invalid
  <2> QED
    BY <2>2, FramingAssumption DEF Readable, Wanted, TypeOK
<1>1. TypeOK'
  BY <1>0 DEF TypeOK
<1>2. Layout'
  BY DEF Layout, Boundary
<1>3. \A k \in DOMAIN got : got[k].to \in Nat
  BY FrameType
<1>4. LengthMatchesHeader' /\ BodyBehindHeader'
  BY <1>0, <1>3 DEF LengthMatchesHeader, BodyBehindHeader
<1>5. ReceivesThePdus' /\ (HeadersTrue' => HeadersTrue)
  BY DEF ReceivesThePdus, HeadersTrue
<1>6. Aligned'
  <2> SUFFICES ASSUME HeadersTrue, ~broken PROVE Aligned'
    BY <1>5 DEF Aligned
  <2> DEFINE n == Len(got)
  <2>1. rd = Boundary(n) /\ n \in 0..Len(pdus) /\ Len(pdus) \in Nat
    BY DEF Aligned, ReceivesThePdus, TypeOK
  <2>2. n < Len(pdus)
    <3> SUFFICES ASSUME n = Len(pdus) PROVE FALSE
      BY <2>1
    <3>1. rd = Boundary(Len(pdus))
      BY <2>1
    <3> QED
      BY <3>1, <1>0 DEF Layout
  <2>3. n + 1 \in DOMAIN pdus /\ (n + 1) - 1 = n
    BY <2>1, <2>2 DEF TypeOK
  <2>4. pdus[n + 1].start = rd
    BY <2>1, <2>3 DEF Layout
  <2>5. header = pdus[n + 1].header
    BY <2>3, <2>4, HeaderOfPdu
  <2>6. header.frag_length = pdus[n + 1].len
    <3>1. pdus[n + 1].header = [valid |-> TRUE, frag_length |-> pdus[n + 1].len]
      BY <2>3 DEF HeadersTrue
    <3> QED
      BY <3>1, <2>5
  <2> QED
    BY <1>0, <2>2, <2>4, <2>6 DEF Aligned
<1> QED
  BY <1>1, <1>2, <1>4, <1>5, <1>6

(***************************************************************************)
(* Reading the body completes exactly one PDU.                             *)
(***************************************************************************)
LEMMA BodyStep ==
  ASSUME FramingInvariant, ReadBody
  PROVE  FramingInvariant'
<1> USE DEF FramingInvariant, ReadBody, pipe
<1> DEFINE n == Len(got)
           new == [from |-> rd - HeaderLen, to |-> rd + Wanted, frag_length |-> frag_length]
<1>0. /\ Wanted = frag_length - HeaderLen /\ rd' = rd + Wanted /\ rd' <= avail
      /\ rd \in Nat /\ avail \in Nat /\ HeaderLen \in Nat \ {0} /\ frag_length \in Nat
      /\ frag_length >= HeaderLen /\ rd >= HeaderLen /\ Wanted \in Nat
  BY FramingAssumption DEF Readable, Wanted, TypeOK, BodyBehindHeader
<1>1. new \in Frames
  BY <1>0 DEF Frames
<1>2. /\ got' = Append(got, new) /\ Len(got') = n + 1 /\ n \in Nat
      /\ DOMAIN got' = 1..(n + 1) /\ DOMAIN got = 1..n
      /\ \A k \in 1..n : got'[k] = got[k]
      /\ got'[n + 1] = new
  BY <1>1 DEF TypeOK
<1>3. TypeOK'
  BY <1>0, <1>1, <1>2, FramingAssumption DEF TypeOK, Readable
<1>4. Layout'
  BY DEF Layout, Boundary
<1>5. BodyBehindHeader'
  BY DEF BodyBehindHeader
<1>6. LengthMatchesHeader'
  <2>1. \A k \in DOMAIN got : got[k].to \in Nat
    BY FrameType
  <2> SUFFICES ASSUME NEW k \in 1..(n + 1)
               PROVE  /\ got'[k].to = got'[k].from + got'[k].frag_length
                      /\ got'[k].frag_length >= HeaderLen
                      /\ got'[k].to <= rd'
                      /\ \A j \in 1..(k - 1) : got'[j].to <= got'[k].from
    BY <1>2 DEF LengthMatchesHeader
  <2>2. CASE k \in 1..n
    <3>1. /\ got[k].to = got[k].from + got[k].frag_length
          /\ got[k].frag_length >= HeaderLen
          /\ got[k].to <= rd
          /\ \A j \in 1..(k - 1) : got[j].to <= got[k].from
      BY <2>2, <1>2 DEF LengthMatchesHeader
    <3>2. got[k].to <= rd'
      BY <3>1, <2>1, <2>2, <1>0, <1>2
    <3>3. \A j \in 1..(k - 1) : got'[j] = got[j]
      BY <2>2, <1>2
    <3> QED
      BY <3>1, <3>2, <3>3, <2>2, <1>2
  <2>3. CASE k = n + 1
    <3>1. \A j \in 1..n : got[j].to <= rd - HeaderLen
      BY <1>2 DEF BodyBehindHeader
    <3> QED
      BY <2>3, <3>1, <1>0, <1>2
  <2> QED
    BY <2>2, <2>3, <1>2
<1>7. HeadersTrue' => HeadersTrue
  BY DEF HeadersTrue
<1>8. CASE HeadersTrue /\ ~broken
  <2>1. /\ n < Len(pdus) /\ rd = pdus[n + 1].start + HeaderLen
        /\ frag_length = pdus[n + 1].len
    BY <1>8 DEF Aligned
  <2>2. n + 1 \in DOMAIN pdus /\ Len(pdus) \in Nat
    BY <2>1, <1>2 DEF TypeOK
  <2>3. pdus[n + 1].start \in Nat /\ pdus[n + 1].len \in Nat
    BY <2>2, PduType
  <2>4. /\ rd' = pdus[n + 1].start + pdus[n + 1].len
        /\ new.from = pdus[n + 1].start
        /\ new.to = pdus[n + 1].start + pdus[n + 1].len
    <3>1. new.from = rd - HeaderLen /\ new.to = rd'
      BY <1>0
    <3>2. PICK start \in Nat, len \in Nat :
             start = pdus[n + 1].start /\ len = pdus[n + 1].len
      BY <2>3
    <3>3. rd = start + HeaderLen /\ frag_length = len
      BY <2>1, <3>2
    <3>4. rd' = start + len /\ rd - HeaderLen = start
      BY <1>0, <3>3
    <3> QED
      BY <3>1, <3>2, <3>4
  <2>5. Aligned'
    <3>1. Boundary(Len(got))' = pdus[n + 1].start + pdus[n + 1].len
      BY <1>2 DEF Boundary
    <3> QED
      BY <3>1, <2>4 DEF Aligned
  <2>6. ReceivesThePdus'
    <3>1. Len(got') <= Len(pdus')
      BY <2>1, <2>2, <1>2
    <3>2. \A k \in 1..n : got[k].from = pdus[k].start /\ got[k].to = pdus[k].start + pdus[k].len
      BY <1>8, <1>2 DEF ReceivesThePdus
    <3>3. \A k \in 1..(n + 1) :
             got'[k].from = pdus[k].start /\ got'[k].to = pdus[k].start + pdus[k].len
      BY <3>2, <2>4, <1>2
    <3> QED
      BY <3>1, <3>3, <1>2 DEF ReceivesThePdus
  <2> QED
    BY <1>3, <1>4, <1>5, <1>6, <2>5, <2>6
<1>9. CASE ~(HeadersTrue /\ ~broken)
  BY <1>3, <1>4, <1>5, <1>6, <1>7, <1>9 DEF Aligned, ReceivesThePdus
<1> QED
  BY <1>8, <1>9

(***************************************************************************)
(* The invariant holds in every state recv_pdu can be in.                  *)
(***************************************************************************)
THEOREM FramingInvariantHolds == Spec => []FramingInvariant
<1>1. Init => FramingInvariant
  <2> SUFFICES ASSUME Init PROVE FramingInvariant
    OBVIOUS
  <2> USE DEF Init
  <2>1. TypeOK
    <3>1. closed \in BOOLEAN /\ broken \in BOOLEAN
      OBVIOUS
    <3>2. pdus \in Seq(PeerPdus) /\ got \in Seq(Frames)
      OBVIOUS
    <3>3. avail \in Nat /\ rd \in 0..avail /\ frag_length \in Nat /\ recvs \in 0..MaxRecvs
      BY FramingAssumption
    <3> QED
      BY <3>1, <3>2, <3>3 DEF TypeOK
  <2>2. Len(pdus) = 0 /\ Len(got) = 0 /\ DOMAIN pdus = {} /\ DOMAIN got = {}
    OBVIOUS
  <2>3. Layout /\ Aligned
    BY <2>2 DEF Layout, Aligned, Boundary
  <2>4. BodyBehindHeader /\ ReceivesThePdus /\ LengthMatchesHeader
    BY <2>2 DEF BodyBehindHeader, ReceivesThePdus, LengthMatchesHeader
  <2> QED
    BY <2>1, <2>3, <2>4 DEF FramingInvariant
<1>2. FramingInvariant /\ [Next]_vars => FramingInvariant'
  <2> SUFFICES ASSUME FramingInvariant, [Next]_vars PROVE FramingInvariant'
    OBVIOUS
  <2>1. CASE \E len \in PduLens, header \in Headers : PeerWrites(len, header)
    BY <2>1, WriteStep
  <2>2. CASE \E cut \in rd..avail : PeerCloses(cut)
    <3>1. PICK cut \in rd..avail : PeerCloses(cut)
      BY <2>2
    <3> USE <3>1 DEF PeerCloses, FramingInvariant
    <3>2. TypeOK'
      BY DEF TypeOK
    <3>3. Layout'
      <4>1. Boundary(Len(pdus)) \in Nat
        BY BoundaryType DEF TypeOK
      <4> QED
        BY <4>1 DEF Layout, TypeOK, Boundary
    <3>4. Aligned' /\ BodyBehindHeader' /\ ReceivesThePdus' /\ LengthMatchesHeader'
      BY DEF Aligned, BodyBehindHeader, ReceivesThePdus, LengthMatchesHeader,
             HeadersTrue, Boundary
    <3> QED
      BY <3>2, <3>3, <3>4
  <2>3. CASE \E header \in HeadersAt(rd) : ReadHeader(header)
    BY <2>3, HeaderStep
  <2>4. CASE \E header \in HeadersAt(rd) : RejectHeader(header)
    <3>1. recvs < MaxRecvs /\ rd' \in rd..avail
      BY <2>4, FramingAssumption
      DEF RejectHeader, Readable, Wanted, FramingInvariant, TypeOK
    <3> QED
      BY <2>4, <3>1, ErrorStep DEF RejectHeader, pipe
  <2>5. CASE ReadBody
    BY <2>5, BodyStep
  <2>6. CASE \E position \in rd..avail : ReadFails(position)
    BY <2>6, ErrorStep DEF ReadFails, pipe
  <2>7. CASE UNCHANGED vars
    BY <2>7 DEF vars, FramingInvariant, TypeOK, Layout, Aligned, BodyBehindHeader,
                ReceivesThePdus, LengthMatchesHeader, Boundary, HeadersTrue
  <2> QED
    BY <2>1, <2>2, <2>3, <2>4, <2>5, <2>6, <2>7 DEF Next, Recv
<1> QED
  BY <1>1, <1>2, PTL DEF Spec

(***************************************************************************)
(* Until a recv_pdu has failed, recv_pdu returns the peer's PDUs whole and *)
(* in order.                                                               *)
(***************************************************************************)
THEOREM FramingKept == Spec => []ReceivesThePdus
<1>1. FramingInvariant => ReceivesThePdus
  BY DEF FramingInvariant
<1> QED
  BY <1>1, FramingInvariantHolds, PTL

(***************************************************************************)
(* What recv_pdu returns always has the length its header says, and no     *)
(* byte of the stream is returned twice, also after errors.                *)
(***************************************************************************)
THEOREM LengthsConsistent == Spec => []LengthMatchesHeader
<1>1. FramingInvariant => LengthMatchesHeader
  BY DEF FramingInvariant
<1> QED
  BY <1>1, FramingInvariantHolds, PTL
-----------------------------------------------------------------------------
(***************************************************************************)
(* The refinement of PduChannel.  Positions in the stream are counted in   *)
(* PDUs: as boundaries grow, the PDUs up to the k-th boundary are 1..k.    *)
(***************************************************************************)
LEMMA BoundariesGrow ==
  ASSUME TypeOK, Layout, NEW j \in 0..Len(pdus), NEW k \in 0..Len(pdus), j < k
  PROVE  Boundary(j) + HeaderLen <= Boundary(k) /\ Boundary(j) < Boundary(k)
<1>1. j \in Nat /\ k \in Nat /\ k \in DOMAIN pdus /\ HeaderLen \in Nat \ {0}
  BY FramingAssumption DEF TypeOK
<1>2. /\ pdus[k].start \in Nat /\ pdus[k].len \in Nat /\ pdus[k].len >= HeaderLen
      /\ Boundary(k) = pdus[k].start + pdus[k].len
  BY <1>1, PduType DEF Boundary
<1>3. Boundary(j) \in Nat
  BY BoundaryType
<1>4. Boundary(j) <= pdus[k].start
  <2>1. CASE j = 0
    BY <1>2, <2>1 DEF Boundary
  <2>2. CASE j # 0
    <3>1. j \in DOMAIN pdus /\ Boundary(j) = pdus[j].start + pdus[j].len
      BY <1>1, <2>2 DEF Boundary, TypeOK
    <3> QED
      BY <1>1, <3>1 DEF Layout
  <2> QED
    BY <2>1, <2>2
<1> QED
  BY <1>1, <1>2, <1>3, <1>4

(***************************************************************************)
(* The first m PDUs are m.                                                 *)
(***************************************************************************)
LEMMA CountTo ==
  ASSUME NEW m \in Nat
  PROVE  IsFiniteSet(1..m) /\ Cardinality(1..m) = m
BY FS_Interval

(***************************************************************************)
(* The PDUs up to a boundary are as many as its number says.               *)
(***************************************************************************)
LEMMA WholeAt ==
  ASSUME TypeOK, Layout, NEW k \in 0..Len(pdus)
  PROVE  Whole(Boundary(k)) = k
<1>1. k \in Nat /\ Len(pdus) \in Nat /\ DOMAIN pdus = 1..Len(pdus)
  BY DEF TypeOK
<1>2. ASSUME NEW j \in 1..Len(pdus)
      PROVE  Boundary(j) <= Boundary(k) <=> j <= k
  <2>1. j \in 0..Len(pdus) /\ j \in Nat /\ Boundary(j) \in Nat /\ Boundary(k) \in Nat
    BY <1>1, BoundaryType
  <2>2. CASE j < k
    BY <1>1, <2>1, <2>2, BoundariesGrow
  <2>3. CASE k < j
    <3>1. Boundary(k) < Boundary(j)
      BY <2>1, <2>3, BoundariesGrow
    <3> QED
      BY <1>1, <2>1, <2>3, <3>1
  <2>4. CASE j = k
    BY <1>1, <2>1, <2>4
  <2> QED
    BY <1>1, <2>1, <2>2, <2>3, <2>4
<1>3. {j \in DOMAIN pdus : Boundary(j) <= Boundary(k)} = 1..k
  BY <1>1, <1>2
<1> QED
  BY <1>1, <1>3, CountTo DEF Whole

(***************************************************************************)
(* Further on in the stream there are no fewer PDUs.                       *)
(***************************************************************************)
LEMMA WholeGrows ==
  ASSUME TypeOK, NEW p \in Nat, NEW q \in Nat, p <= q
  PROVE  Whole(p) \in Nat /\ Whole(q) \in Nat /\ Whole(p) <= Whole(q)
<1> DEFINE S == {k \in DOMAIN pdus : Boundary(k) <= p}
           T == {k \in DOMAIN pdus : Boundary(k) <= q}
<1>1. Len(pdus) \in Nat /\ DOMAIN pdus = 1..Len(pdus)
  BY DEF TypeOK
<1>2. IsFiniteSet(1..Len(pdus)) /\ T \in SUBSET (1..Len(pdus))
  BY <1>1, CountTo
<1>3. IsFiniteSet(T)
  BY <1>2, FS_Subset
<1>4. \A k \in DOMAIN pdus : Boundary(k) \in Nat
  BY <1>1, BoundaryType
<1>5. S \in SUBSET T
  BY <1>4
<1>6. IsFiniteSet(S) /\ Cardinality(S) <= Cardinality(T)
  BY <1>3, <1>5, FS_Subset
<1>7. Cardinality(S) \in Nat /\ Cardinality(T) \in Nat
  BY <1>3, <1>6, FS_CardinalityType
<1> QED
  BY <1>6, <1>7 DEF Whole

(***************************************************************************)
(* The PDUs that start no later than the k-th are the first k.             *)
(***************************************************************************)
LEMMA StartsUpTo ==
  ASSUME TypeOK, Layout, NEW k \in DOMAIN pdus
  PROVE  Cardinality({j \in DOMAIN pdus : pdus[j].start <= pdus[k].start}) = k
<1>1. k \in Nat /\ k \in 1..Len(pdus) /\ Len(pdus) \in Nat /\ DOMAIN pdus = 1..Len(pdus)
  BY DEF TypeOK
<1>2. ASSUME NEW j \in 1..Len(pdus)
      PROVE  pdus[j].start <= pdus[k].start <=> j <= k
  <2>1. /\ pdus[j].start \in Nat /\ pdus[k].start \in Nat /\ j \in Nat
        /\ pdus[j].len \in Nat \ {0} /\ pdus[k].len \in Nat \ {0}
    BY <1>1, PduType
  <2>2. /\ j < k => pdus[j].start + pdus[j].len <= pdus[k].start
        /\ k < j => pdus[k].start + pdus[k].len <= pdus[j].start
    BY <1>1 DEF Layout
  <2>3. CASE j < k
    BY <1>1, <2>1, <2>2, <2>3
  <2>4. CASE k < j
    BY <1>1, <2>1, <2>2, <2>4
  <2>5. CASE j = k
    BY <2>1, <2>5
  <2> QED
    BY <1>1, <2>1, <2>3, <2>4, <2>5
<1>3. {j \in DOMAIN pdus : pdus[j].start <= pdus[k].start} = 1..k
  BY <1>1, <1>2
<1> QED
  BY <1>1, <1>3, CountTo

(***************************************************************************)
(* A reader that has kept the framing: behind k PDUs, and with the length  *)
(* of the next one when it has read its header.                            *)
(***************************************************************************)
Behind(k) ==
    /\ k \in 0..Len(pdus)
    /\ InHand = Boundary(k) /\ Whole(InHand) = k
    /\ state = "header" => rd = Boundary(k)
    /\ state = "body" => /\ rd = Boundary(k) + HeaderLen
                         /\ k < Len(pdus) /\ frag_length = pdus[k + 1].len

(***************************************************************************)
(* While the framing holds, the reader stands behind some number of PDUs.  *)
(***************************************************************************)
LEMMA Standing ==
  ASSUME FramingInvariant, Framed
  PROVE  \E k \in 0..Len(pdus) : Behind(k)
<1>1. PICK k \in 0..Len(pdus) :
         /\ Boundary(k) = InHand
         /\ state = "body" => k < Len(pdus) /\ frag_length = pdus[k + 1].len
  BY DEF Framed
<1>2. TypeOK /\ Layout /\ BodyBehindHeader
  BY DEF FramingInvariant
<1>3. Whole(InHand) = k
  BY <1>1, <1>2, WholeAt
<1>4. rd \in Nat /\ HeaderLen \in Nat /\ state \in {"header", "body"}
  BY <1>2, FramingAssumption DEF TypeOK
<1>5. state = "header" => rd = Boundary(k)
  BY <1>1 DEF InHand
<1>6. state = "body" => rd = Boundary(k) + HeaderLen
  BY <1>1, <1>4 DEF InHand
<1> QED
  BY <1>1, <1>3, <1>5, <1>6 DEF Behind

(***************************************************************************)
(* The PDU behind the k-th boundary starts there and ends at the next one. *)
(***************************************************************************)
LEMMA NextPdu ==
  ASSUME TypeOK, Layout, NEW k \in 0..Len(pdus), k < Len(pdus)
  PROVE  /\ k + 1 \in DOMAIN pdus /\ k + 1 \in 0..Len(pdus)
         /\ pdus[k + 1].start = Boundary(k)
         /\ Boundary(k + 1) = Boundary(k) + pdus[k + 1].len
<1>1. k \in Nat /\ k + 1 \in DOMAIN pdus /\ k + 1 \in 0..Len(pdus) /\ k + 1 # 0 /\ (k + 1) - 1 = k
  BY DEF TypeOK
<1>2. pdus[k + 1].start = Boundary(k)
  BY <1>1 DEF Layout
<1> QED
  BY <1>1, <1>2 DEF Boundary

(***************************************************************************)
(* The peer writes: one more PDU to come, or a header that lies.           *)
(***************************************************************************)
LEMMA WriteRefines ==
  ASSUME FramingInvariant, HeadersTrue, Framed,
         NEW len \in PduLens, NEW header \in Headers, PeerWrites(len, header)
  PROVE  Channel!Send \/ Channel!Lie
<1> DEFINE new == [start |-> avail, len |-> len, header |-> header]
<1>1. TypeOK /\ Layout /\ LengthMatchesHeader
  BY DEF FramingInvariant
<1>2. /\ ~closed /\ pdus' = Append(pdus, new) /\ avail' = avail + len
      /\ UNCHANGED <<rd, state, frag_length, got, recvs>>
  BY DEF PeerWrites
<1>3. len \in Nat \ {0} /\ new \in PeerPdus /\ HeaderLen \in Nat \ {0}
  BY <1>1, FramingAssumption DEF TypeOK, PeerPdus
<1>4. new.start = avail /\ new.len = len /\ new.header = header
  OBVIOUS
<1> HIDE DEF new
<1>0. PICK n \in Nat : n = Len(pdus)
  BY <1>1 DEF TypeOK
<1>5. /\ DOMAIN pdus = 1..n /\ DOMAIN pdus' = 1..(n + 1) /\ Len(pdus') = n + 1
      /\ \A k \in 1..n : pdus'[k] = pdus[k]
      /\ pdus'[n + 1] = new
  BY <1>1, <1>2, <1>3, <1>0 DEF TypeOK
<1>6. /\ \A k \in 0..n : Boundary(k)' = Boundary(k) /\ Boundary(k) \in Nat
      /\ Boundary(n + 1)' = avail + len
  <2>1. \A k \in 0..n : Boundary(k) \in Nat
    BY <1>1, <1>0, BoundaryType
  <2>2. \A k \in 0..n : Boundary(k)' = Boundary(k)
    BY <1>5 DEF Boundary
  <2>3. pdus'[n + 1].start + pdus'[n + 1].len = avail + len
    BY <1>4, <1>5
  <2>4. n + 1 # 0
    BY <1>5
  <2> QED
    BY <2>1, <2>2, <2>3, <2>4 DEF Boundary
<1>7. avail \in Nat /\ rd \in Nat /\ rd <= avail /\ avail = Boundary(n)
  BY <1>1, <1>2, <1>0 DEF TypeOK, Layout
<1>8. \A k \in 0..n : Boundary(k) <= avail
  <2> SUFFICES ASSUME NEW k \in 0..n PROVE Boundary(k) <= avail
    OBVIOUS
  <2>1. n \in 0..n /\ k \in Nat
    BY <1>5
  <2>2. CASE k < n
    <3>1. Boundary(k) < Boundary(n)
      BY <1>1, <1>0, <2>1, <2>2, BoundariesGrow
    <3> QED
      BY <1>6, <1>7, <3>1
  <2>3. CASE k = n
    BY <1>7, <2>3
  <2> QED
    BY <1>5, <2>1, <2>2, <2>3
<1>9. Whole(avail)' = n + 1
  <2>1. {k \in DOMAIN pdus' : Boundary(k)' <= avail'} = 1..(n + 1)
    <3>1. ASSUME NEW k \in 1..(n + 1) PROVE Boundary(k)' <= avail'
      <4>1. CASE k = n + 1
        BY <1>2, <1>3, <1>6, <1>7, <4>1
      <4>2. CASE k # n + 1
        <5>1. k \in 0..n
          BY <1>5, <4>2
        <5>2. Boundary(k)' <= avail /\ Boundary(k)' \in Nat
          BY <1>6, <1>8, <5>1
        <5> QED
          BY <1>2, <1>3, <1>7, <5>2
      <4> QED
        BY <4>1, <4>2
    <3> QED
      BY <1>5, <3>1
  <2>2. n + 1 \in Nat
    BY <1>5
  <2> QED
    BY <2>1, <2>2, CountTo DEF Whole
<1>10. Whole(avail) = n
  <2>1. n \in 0..n
    BY <1>5
  <2> QED
    BY <1>1, <1>0, <1>7, <2>1, WholeAt
<1>11. InHand' = InHand /\ InHand \in Int /\ InHand <= avail
  BY <1>2, <1>3, <1>7 DEF InHand
<1>12. Whole(InHand)' = Whole(InHand)
  <2>1. {k \in DOMAIN pdus' : Boundary(k)' <= InHand'} = {k \in DOMAIN pdus : Boundary(k) <= InHand}
    <3>1. ~(Boundary(n + 1)' <= InHand)
      BY <1>3, <1>6, <1>7, <1>11
    <3>2. \A k \in 1..n : Boundary(k)' = Boundary(k) /\ k # n + 1
      BY <1>5, <1>6
    <3>3. \A k : k \in DOMAIN pdus' <=> k \in DOMAIN pdus \/ k = n + 1
      BY <1>5
    <3> QED
      BY <1>5, <1>11, <3>1, <3>2, <3>3
  <2> QED
    BY <2>1 DEF Whole
<1>13. Latest' = Latest
  <2>1. CASE got = <<>>
    BY <1>2, <2>1 DEF Latest
  <2>2. CASE got # <<>>
    <3>1. Len(got) \in DOMAIN got
      BY <1>1, <2>2 DEF TypeOK
    <3> DEFINE from == got[Len(got)].from
    <3>2. from \in Nat /\ got[Len(got)].to \in Nat /\ got[Len(got)].frag_length \in Nat
      BY <1>1, <3>1, FrameType
    <3>3. from < avail
      BY <1>1, <1>3, <1>7, <3>1, <3>2 DEF LengthMatchesHeader
    <3> HIDE DEF from
    <3>4. {k \in DOMAIN pdus' : pdus'[k].start <= from} = {k \in DOMAIN pdus : pdus[k].start <= from}
      <4>1. ~(pdus'[n + 1].start <= from)
        BY <1>4, <1>5, <1>7, <3>2, <3>3
      <4>2. \A k : k \in DOMAIN pdus' <=> k \in DOMAIN pdus \/ k = n + 1
        BY <1>5
      <4> QED
        BY <1>5, <4>1, <4>2
    <3>5. /\ Latest = Cardinality({k \in DOMAIN pdus : pdus[k].start <= from})
          /\ Latest' = Cardinality({k \in DOMAIN pdus' : pdus'[k].start <= from})
      BY <1>2, <2>2 DEF Latest, from
    <3> QED
      BY <3>4, <3>5
  <2> QED
    BY <2>1, <2>2
<1>14. Framed'
  <2>1. PICK k \in 0..n :
           /\ Boundary(k) = InHand
           /\ state = "body" => k < n /\ frag_length = pdus[k + 1].len
    BY <1>0 DEF Framed
  <2>2. k \in 0..Len(pdus') /\ k <= n
    BY <1>5, <2>1
  <2>3. Boundary(k)' = InHand'
    BY <1>6, <1>11, <2>1
  <2>4. state' = "body" => k < Len(pdus') /\ frag_length' = pdus'[k + 1].len
    <3>1. state = "body" => k + 1 \in 1..n
      BY <1>5, <2>1
    <3> QED
      BY <1>2, <1>5, <2>1, <3>1
  <2> QED
    BY <2>2, <2>3, <2>4 DEF Framed
<1>15. CASE ~HeadersTrue'
  BY <1>15 DEF Channel!Lie
<1>16. CASE HeadersTrue'
  <2>1. HeadersTrue' = HeadersTrue
    BY <1>16 DEF HeadersTrue
  <2>2. Framed' = Framed
    BY <1>14 DEF Framed
  <2> QED
    BY <1>2, <1>9, <1>10, <1>12, <1>13, <2>1, <2>2 DEF Channel!Send
<1> QED
  BY <1>15, <1>16
(***************************************************************************)
(* A step of the reader leaves the stream, and so its boundaries, alone.   *)
(***************************************************************************)
LEMMA CountsKept ==
  ASSUME UNCHANGED pdus
  PROVE  /\ \A k : Boundary(k)' = Boundary(k)
         /\ Whole(avail)' = Whole(avail') /\ Whole(InHand)' = Whole(InHand')
         /\ HeadersTrue' = HeadersTrue
         /\ got' = got => Latest' = Latest
<1>1. \A k : Boundary(k)' = Boundary(k)
  BY DEF Boundary
<1>2. Whole(avail)' = Whole(avail') /\ Whole(InHand)' = Whole(InHand')
  BY <1>1 DEF Whole
<1>3. HeadersTrue' = HeadersTrue
  BY DEF HeadersTrue
<1>4. got' = got => Latest' = Latest
  BY DEF Latest
<1> QED
  BY <1>1, <1>2, <1>3, <1>4

(***************************************************************************)
(* The connection ends: PDUs behind the reader stay, others may be lost.   *)
(***************************************************************************)
LEMMA CloseRefines ==
  ASSUME FramingInvariant, HeadersTrue, Framed, NEW cut \in rd..avail, PeerCloses(cut)
  PROVE  Channel!Close
<1>1. avail' = cut /\ UNCHANGED <<pdus, rd, state, frag_length, got, recvs>>
  BY DEF PeerCloses
<1>2. TypeOK /\ BodyBehindHeader
  BY DEF FramingInvariant
<1>3. /\ rd \in Nat /\ avail \in Nat /\ cut \in Nat /\ rd <= cut /\ cut <= avail
      /\ HeaderLen \in Nat /\ InHand \in Nat /\ InHand <= cut
  BY <1>2, FramingAssumption DEF TypeOK, BodyBehindHeader, InHand
<1>4. /\ Whole(InHand) \in Nat /\ Whole(cut) \in Nat /\ Whole(avail) \in Nat
      /\ Whole(InHand) <= Whole(cut) /\ Whole(cut) <= Whole(avail)
  BY <1>2, <1>3, WholeGrows
<1>5. InHand' = InHand
  BY <1>1 DEF InHand
<1>6. Whole(avail)' \in Whole(InHand)..Whole(avail) /\ Whole(InHand)' = Whole(InHand)
  BY <1>1, <1>4, <1>5, CountsKept
<1>7. Framed' = Framed
  BY <1>1, <1>5, CountsKept DEF Framed
<1> QED
  BY <1>1, <1>6, <1>7, CountsKept DEF Channel!Close

(***************************************************************************)
(* A header is read where a PDU starts, so it is that PDU's: the channel   *)
(* does not move.  It is never refused.                                    *)
(***************************************************************************)
LEMMA HeaderRefines ==
  ASSUME FramingInvariant, HeadersTrue, Framed, NEW header \in HeadersAt(rd),
         ReadHeader(header) \/ RejectHeader(header)
  PROVE  UNCHANGED Channel!vars
<1>1. TypeOK /\ Layout
  BY DEF FramingInvariant
<1>2. PICK k \in 0..Len(pdus) : Behind(k)
  BY Standing
<1>3. /\ state = "header" /\ rd + HeaderLen <= avail /\ rd' = rd + HeaderLen
      /\ UNCHANGED <<pdus, avail, got>>
  BY DEF ReadHeader, RejectHeader, Readable, Wanted, pipe
<1>4. /\ rd \in Nat /\ avail \in Nat /\ HeaderLen \in Nat \ {0} /\ Len(pdus) \in Nat
      /\ k \in Nat /\ Boundary(k) \in Nat /\ rd = Boundary(k)
  BY <1>1, <1>2, <1>3, FramingAssumption, BoundaryType DEF TypeOK, Behind
<1>5. k < Len(pdus)
  <2>1. avail <= Boundary(Len(pdus))
    BY <1>1 DEF Layout
  <2>2. k # Len(pdus)
    BY <1>3, <1>4, <2>1
  <2> QED
    BY <1>2, <1>4, <2>2
<1>6. k + 1 \in DOMAIN pdus /\ pdus[k + 1].start = rd
  BY <1>1, <1>4, <1>5, NextPdu
<1>7. header = pdus[k + 1].header
  BY <1>1, <1>6, HeaderOfPdu
<1>8. header = [valid |-> TRUE, frag_length |-> pdus[k + 1].len]
  BY <1>6, <1>7 DEF HeadersTrue
<1>9. header.valid /\ header.frag_length = pdus[k + 1].len
  BY <1>8
<1>10. pdus[k + 1].len >= HeaderLen /\ pdus[k + 1].len \in Nat
  BY <1>1, <1>6, PduType
<1>11. ReadHeader(header)
  BY <1>4, <1>9, <1>10 DEF RejectHeader
<1>12. state' = "body" /\ frag_length' = pdus[k + 1].len /\ UNCHANGED recvs
  BY <1>9, <1>11 DEF ReadHeader
<1>13. InHand' = InHand
  BY <1>3, <1>4, <1>12 DEF InHand
<1>14. Framed'
  <2>1. Boundary(k)' = InHand'
    BY <1>2, <1>3, <1>13, CountsKept DEF Behind
  <2> QED
    BY <1>2, <1>3, <1>5, <1>12, <2>1 DEF Framed
<1>15. Framed' = Framed
  BY <1>14 DEF Framed
<1>16. Whole(avail)' = Whole(avail) /\ Whole(InHand)' = Whole(InHand)
  BY <1>3, <1>13, CountsKept
<1> QED
  BY <1>3, <1>12, <1>15, <1>16, CountsKept DEF Channel!vars

(***************************************************************************)
(* recv_pdu returns the next PDU, whole.                                   *)
(***************************************************************************)
LEMMA BodyRefines ==
  ASSUME FramingInvariant, HeadersTrue, Framed, ReadBody
  PROVE  Channel!Recv
<1>1. TypeOK /\ Layout
  BY DEF FramingInvariant
<1>2. PICK k \in 0..Len(pdus) : Behind(k)
  BY Standing
<1>3. /\ state = "body" /\ state' = "header" /\ recvs' = recvs + 1
      /\ rd + (frag_length - HeaderLen) <= avail /\ rd' = rd + (frag_length - HeaderLen)
      /\ got' = Append(got, [from |-> rd - HeaderLen, to |-> rd + Wanted,
                             frag_length |-> frag_length])
      /\ UNCHANGED <<pdus, avail>>
  BY DEF ReadBody, Readable, Wanted, pipe
<1>4. /\ rd \in Nat /\ avail \in Nat /\ HeaderLen \in Nat \ {0} /\ k \in Nat
      /\ Boundary(k) \in Nat /\ rd = Boundary(k) + HeaderLen /\ InHand = Boundary(k)
      /\ k < Len(pdus) /\ frag_length = pdus[k + 1].len /\ Whole(InHand) = k
  BY <1>1, <1>2, <1>3, FramingAssumption, BoundaryType DEF TypeOK, Behind
<1>5. /\ k + 1 \in DOMAIN pdus /\ k + 1 \in 0..Len(pdus) /\ pdus[k + 1].start = Boundary(k)
      /\ Boundary(k + 1) = Boundary(k) + pdus[k + 1].len /\ pdus[k + 1].len \in Nat
  BY <1>1, <1>4, NextPdu, PduType
<1>6. rd' = Boundary(k + 1) /\ Boundary(k + 1) <= avail /\ Boundary(k + 1) \in Nat
  <2>1. PICK b \in Nat, n \in Nat : b = Boundary(k) /\ n = pdus[k + 1].len
    BY <1>4, <1>5
  <2>2. Boundary(k + 1) = b + n
    BY <1>5, <2>1
  <2>3. rd = b + HeaderLen /\ frag_length = n
    BY <1>4, <2>1
  <2>4. rd + (frag_length - HeaderLen) = b + n
    BY ONLY <2>3, b \in Nat, n \in Nat, <1>4
  <2> QED
    BY <1>3, <2>2, <2>4
<1>7. InHand' = Boundary(k + 1)
  BY <1>3, <1>6 DEF InHand
<1>8. Whole(InHand)' = k + 1 /\ Whole(avail)' = Whole(avail)
  BY <1>1, <1>3, <1>5, <1>7, CountsKept, WholeAt
<1>9. k < Whole(avail)
  <2>1. Whole(Boundary(k + 1)) = k + 1
    BY <1>1, <1>5, WholeAt
  <2>2. Whole(Boundary(k + 1)) <= Whole(avail) /\ Whole(avail) \in Nat
    BY <1>1, <1>4, <1>6, WholeGrows
  <2> QED
    BY <1>4, <2>1, <2>2
<1>10. Len(got') = Len(got) + 1 /\ Len(got) \in Nat /\ got' # <<>>
       /\ got'[Len(got')].from = rd - HeaderLen
  <2>1. [from |-> rd - HeaderLen, to |-> rd + Wanted, frag_length |-> frag_length].from
          = rd - HeaderLen
    OBVIOUS
  <2> DEFINE frame == [from |-> rd - HeaderLen, to |-> rd + Wanted, frag_length |-> frag_length]
  <2>2. got' = Append(got, frame) /\ frame.from = rd - HeaderLen
    BY <1>3, <2>1
  <2> HIDE DEF frame
  <2>3. got \in Seq(Frames)
    BY <1>1 DEF TypeOK
  <2>4. Len(got') = Len(got) + 1 /\ Len(got) \in Nat
    BY <2>2, <2>3
  <2>5. got'[Len(got) + 1] = frame
    BY <2>2, <2>3
  <2>6. got' # <<>>
    BY <2>2, <2>3
  <2> QED
    BY <2>2, <2>4, <2>5, <2>6
<1>11. Latest' = k + 1
  <2>1. got'[Len(got')].from = pdus[k + 1].start
    BY <1>4, <1>5, <1>10
  <2>2. Latest' = Cardinality({j \in DOMAIN pdus : pdus[j].start <= pdus[k + 1].start})
    BY <1>3, <1>10, <2>1 DEF Latest
  <2> QED
    BY <1>1, <1>5, <2>2, StartsUpTo
<1>12. recvs' - Len(got') = recvs - Len(got)
  BY <1>1, <1>3, <1>10, FramingAssumption DEF TypeOK
<1>13. Framed'
  <2>1. Boundary(k + 1)' = InHand'
    BY <1>3, <1>7, CountsKept
  <2> QED
    BY <1>3, <1>5, <2>1 DEF Framed
<1>14. Framed' = Framed
  BY <1>13 DEF Framed
<1> QED
  BY <1>3, <1>4, <1>8, <1>9, <1>10, <1>11, <1>12, <1>14, CountsKept DEF Channel!Recv

(***************************************************************************)
(* recv_pdu fails: it took the PDU in hand or none, or lost the framing.   *)
(***************************************************************************)
LEMMA FailRefines ==
  ASSUME FramingInvariant, HeadersTrue, Framed, NEW position \in rd..avail, ReadFails(position)
  PROVE  Channel!RecvErr \/ Channel!LoseFraming
<1>1. TypeOK /\ Layout
  BY DEF FramingInvariant
<1>2. PICK k \in 0..Len(pdus) : Behind(k)
  BY Standing
<1>3. /\ position <= rd + Wanted /\ rd' = position /\ state' = "header" /\ recvs' = recvs + 1
      /\ UNCHANGED <<pdus, avail, got>>
  BY DEF ReadFails, RecvErrs, pipe
<1>4. /\ rd \in Nat /\ avail \in Nat /\ HeaderLen \in Nat \ {0} /\ k \in Nat /\ Len(pdus) \in Nat
      /\ Boundary(k) \in Nat /\ position \in Nat /\ rd <= position /\ position <= avail
      /\ Whole(InHand) = k /\ state \in {"header", "body"}
      /\ recvs \in Nat /\ Len(got) \in Nat
  BY <1>1, <1>2, FramingAssumption, BoundaryType DEF TypeOK, Behind
<1>5. InHand' = position
  BY <1>3 DEF InHand
<1>6. recvs' - Len(got') = (recvs - Len(got)) + 1
  BY <1>3, <1>4
<1>7. CASE ~Framed'
  BY <1>6, <1>7 DEF Channel!LoseFraming
<1>8. CASE Framed'
  <2>1. PICK j \in 0..Len(pdus) : Boundary(j) = position
    BY <1>3, <1>5, <1>8, CountsKept DEF Framed
  <2>2. j \in Nat /\ Whole(InHand)' = j
    BY <1>1, <1>3, <1>5, <2>1, CountsKept, WholeAt
  <2>3. k <= j
    <3>1. Boundary(k) <= Boundary(j)
      BY <1>2, <1>4, <2>1 DEF Behind
    <3>2. ~(Boundary(j) < Boundary(k))
      BY <1>4, <2>1, <3>1
    <3> QED
      BY <1>1, <1>2, <1>4, <2>2, <3>2, BoundariesGrow
  <2>4. j <= k + 1
    <3>1. SUFFICES ASSUME k + 1 < j PROVE FALSE
      BY <1>4, <2>2
    <3>2. k < Len(pdus) /\ k + 1 \in 0..Len(pdus)
      BY <1>4, <2>1, <2>2, <3>1
    <3>3. Boundary(k + 1) < Boundary(j)
      BY <1>1, <2>1, <3>1, <3>2, BoundariesGrow
    <3>4. Boundary(k) + HeaderLen <= Boundary(k + 1) /\ Boundary(k + 1) \in Nat
      BY <1>1, <1>4, <3>2, BoundariesGrow, BoundaryType
    <3>5. /\ pdus[k + 1].len \in Nat /\ k + 1 \in DOMAIN pdus
          /\ Boundary(k + 1) = Boundary(k) + pdus[k + 1].len
      BY <1>1, <3>2, NextPdu, PduType
    <3>6. rd + Wanted <= Boundary(k + 1)
      <4>1. CASE state = "header"
        BY <1>2, <1>4, <3>4, <4>1 DEF Behind, Wanted
      <4>2. CASE state = "body"
        <5>1. PICK b \in Nat, n \in Nat : b = Boundary(k) /\ n = pdus[k + 1].len
          BY <1>4, <3>5
        <5>2. rd = b + HeaderLen /\ Wanted = n - HeaderLen
          BY <1>2, <4>2, <5>1 DEF Behind, Wanted
        <5>3. rd + Wanted = b + n
          BY ONLY <5>2, b \in Nat, n \in Nat, <1>4
        <5> QED
          BY <3>4, <3>5, <5>1, <5>3
      <4> QED
        BY <1>4, <4>1, <4>2
    <3>7. rd + Wanted \in Int
      <4>1. frag_length \in Nat
        BY <1>1 DEF TypeOK
      <4> QED
        BY <1>4, <4>1 DEF Wanted
    <3> QED
      BY <1>3, <1>4, <2>1, <3>3, <3>4, <3>6, <3>7
  <2>5. j <= Whole(avail)
    <3>1. Whole(position) = j
      BY <1>1, <2>1, WholeAt
    <3> QED
      BY <1>1, <1>4, <3>1, WholeGrows
  <2>6. Framed' = Framed
    BY <1>8 DEF Framed
  <2>7. Whole(avail)' = Whole(avail)
    BY <1>3, CountsKept
  <2>8. j \in {k, k + 1}
    BY <1>4, <2>2, <2>3, <2>4
  <2> QED
    BY <1>3, <1>4, <1>6, <2>2, <2>5, <2>6, <2>7, <2>8, CountsKept DEF Channel!RecvErr
<1> QED
  BY <1>7, <1>8

(***************************************************************************)
(* Every step is a step of the channel, or none.                           *)
(***************************************************************************)
LEMMA ChannelStep ==
  ASSUME FramingInvariant, [Next]_vars
  PROVE  [Channel!Next]_(Channel!vars)
<1>1. CASE ~Framed \/ ~HeadersTrue
  BY <1>1 DEF Channel!Next
<1>2. CASE Framed /\ HeadersTrue
  <2>1. CASE \E len \in PduLens, header \in Headers : PeerWrites(len, header)
    BY <1>2, <2>1, WriteRefines DEF Channel!Next
  <2>2. CASE \E cut \in rd..avail : PeerCloses(cut)
    BY <1>2, <2>2, CloseRefines DEF Channel!Next
  <2>3. CASE \E header \in HeadersAt(rd) : ReadHeader(header) \/ RejectHeader(header)
    BY <1>2, <2>3, HeaderRefines
  <2>4. CASE ReadBody
    BY <1>2, <2>4, BodyRefines DEF Channel!Next
  <2>5. CASE \E position \in rd..avail : ReadFails(position)
    BY <1>2, <2>5, FailRefines DEF Channel!Next
  <2>6. CASE UNCHANGED vars
    <3>1. UNCHANGED <<pdus, avail, rd, state, frag_length, got, recvs>>
      BY <2>6 DEF vars
    <3>2. InHand' = InHand
      BY <3>1 DEF InHand
    <3>3. Framed' = Framed
      BY <3>1, <3>2, CountsKept DEF Framed
    <3> QED
      BY <3>1, <3>2, <3>3, CountsKept DEF Channel!vars
  <2> QED
    BY <2>1, <2>2, <2>3, <2>4, <2>5, <2>6 DEF Next, Recv
<1> QED
  BY <1>1, <1>2

(***************************************************************************)
(* NcacnNpTransport implements the channel of PDUs the client's model      *)
(* assumes, for every header length and every choice of PDU lengths: a     *)
(* recv_pdu that succeeds returns the next PDU, one that fails takes one   *)
(* or none, and only an error can lose the framing.                        *)
(***************************************************************************)
THEOREM PduChannelImplemented == Spec => ImplementsPduChannel
<1>1. Init => Channel!Init
  <2> SUFFICES ASSUME Init PROVE Channel!Init
    OBVIOUS
  <2>1. /\ pdus = <<>> /\ avail = 0 /\ rd = 0 /\ state = "header" /\ got = <<>> /\ recvs = 0
    BY DEF Init
  <2>2. DOMAIN pdus = {} /\ Len(pdus) = 0 /\ Len(got) = 0
    BY <2>1
  <2>3. InHand = 0
    BY <2>1 DEF InHand
  <2>4. Whole(avail) = 0 /\ Whole(InHand) = 0
    <3>1. \A p : {k \in DOMAIN pdus : Boundary(k) <= p} = {}
      BY <2>2
    <3> QED
      BY <3>1, FS_EmptySet DEF Whole
  <2>5. Latest = 0
    BY <2>1 DEF Latest
  <2>6. HeadersTrue = TRUE
    BY <2>2 DEF HeadersTrue
  <2>7. Framed = TRUE
    <3>1. 0 \in 0..Len(pdus) /\ Boundary(0) = InHand /\ state # "body"
      BY <2>1, <2>2, <2>3 DEF Boundary
    <3> QED
      BY <3>1 DEF Framed
  <2>8. recvs - Len(got) = 0
    <3>1. recvs = 0 /\ Len(got) = 0
      BY <2>1, <2>2
    <3>2. \A a, b : a = 0 /\ b = 0 => a - b = 0
      OBVIOUS
    <3> QED
      BY ONLY <3>1, <3>2, Zenon
  <2> QED
    BY <2>2, <2>4, <2>5, <2>6, <2>7, <2>8 DEF Channel!Init
<1>2. FramingInvariant /\ [Next]_vars => [Channel!Next]_(Channel!vars)
  BY ChannelStep
<1> QED
  BY <1>1, <1>2, FramingInvariantHolds, PTL DEF Spec, ImplementsPduChannel, Channel!Spec
=============================================================================
