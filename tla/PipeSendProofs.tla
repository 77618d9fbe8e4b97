--------------------------- MODULE PipeSendProofs ---------------------------
(***************************************************************************)
(* The peer of a pipe gets the PDUs that send_pdu was given, for every     *)
(* choice of PDU lengths and every way in which the inner writer takes,    *)
(* holds back and loses bytes.                                             *)
(***************************************************************************)
EXTENDS PipeSend, TLAPS

FrameSet == [from : Nat, to : Nat]

SentPdus == [start : Nat, len : PduLens, written : Nat, last : BOOLEAN]

Types ==
    /\ pc \in {"idle", "writing", "flushing", "waiting"}
    /\ pdus \in Seq(SentPdus) /\ frames \in Seq(FrameSet)
    /\ arrived \in Nat /\ cut \in BOOLEAN

\* Only the PDU being written may be incomplete and still grow.
Writer ==
    /\ pc = "writing" => pdus # <<>> /\ Current.written < Current.len
    /\ arrived <= Taken
    /\ \A j, k \in DOMAIN pdus : j < k => pdus[j].start + pdus[j].written <= pdus[k].start

\* Without a broken write, what lies in the stream is whole.
Unbroken ==
    ~cut => \A k \in DOMAIN pdus :
        pdus[k].written \in {0, pdus[k].len} \/ (k = Len(pdus) /\ pc = "writing")

\* At this place of the stream a PDU begins, or nothing was written yet.
Begins(p) == p = Taken \/ \E k \in DOMAIN pdus : pdus[k].start = p /\ pdus[k].written > 0

Seams == Begins(0) /\ \A k \in DOMAIN pdus : Begins(pdus[k].start + pdus[k].written)

(***************************************************************************)
(* PDUs lie end to end in the stream, so a peer that has read whole ones   *)
(* stands where the next begins.                                           *)
(***************************************************************************)
SendInvariant == Types /\ Writer /\ Unbroken /\ Seams /\ PeerGetsPdus

-----------------------------------------------------------------------------
(***************************************************************************)
(* No PDU is empty.                                                        *)
(***************************************************************************)
LEMMA LensPositive == \A x \in PduLens : x \in Nat /\ x > 0
BY SendAssumption

(***************************************************************************)
(* The PDUs sent and the bytes taken, as numbers.                          *)
(***************************************************************************)
LEMMA Numbers ==
  ASSUME Types
  PROVE  /\ \A k \in DOMAIN pdus :
               /\ pdus[k].start \in Nat /\ pdus[k].written \in Nat
               /\ pdus[k].len \in Nat /\ pdus[k].len > 0
         /\ Len(pdus) \in Nat /\ DOMAIN pdus = 1..Len(pdus)
         /\ pdus # <<>> => Len(pdus) \in DOMAIN pdus
         /\ Taken \in Nat
<1>1. ASSUME NEW k \in DOMAIN pdus
      PROVE  /\ pdus[k].start \in Nat /\ pdus[k].written \in Nat
             /\ pdus[k].len \in Nat /\ pdus[k].len > 0
  <2>1. pdus[k] \in SentPdus
    BY DEF Types
  <2>2. pdus[k].start \in Nat /\ pdus[k].written \in Nat /\ pdus[k].len \in PduLens
    BY <2>1 DEF SentPdus
  <2> QED
    BY <2>2, LensPositive
<1>2. /\ Len(pdus) \in Nat /\ DOMAIN pdus = 1..Len(pdus)
      /\ pdus # <<>> => Len(pdus) \in DOMAIN pdus
  BY DEF Types
<1>3. Taken \in Nat
  BY <1>1, <1>2 DEF Taken, Current
<1> QED
  BY <1>1, <1>2, <1>3

(***************************************************************************)
(* A sent PDU of which the writer takes more stays one.                    *)
(***************************************************************************)
LEMMA WrittenType ==
  ASSUME NEW pdu \in SentPdus, NEW x \in Nat
  PROVE  /\ [pdu EXCEPT !.written = x] \in SentPdus
         /\ [pdu EXCEPT !.written = x].start = pdu.start
         /\ [pdu EXCEPT !.written = x].len = pdu.len
         /\ [pdu EXCEPT !.written = x].written = x
BY DEF SentPdus

(***************************************************************************)
(* A step that leaves PDUs and frames alone, and passes on no more than    *)
(* was taken, keeps the invariant.                                         *)
(***************************************************************************)
LEMMA QuietStep ==
  ASSUME SendInvariant, UNCHANGED <<pdus, frames>>,
         pc' \in {"idle", "writing", "flushing", "waiting"}, pc' = pc \/ pc' # "writing",
         arrived' \in arrived..Taken, cut' \in BOOLEAN, cut => cut',
         ~cut' /\ pc = "writing" /\ pc' # "writing" => Current.written = 0
  PROVE  SendInvariant'
<1>1. Types /\ Taken \in Nat /\ Taken' = Taken /\ Current' = Current
  BY Numbers DEF SendInvariant, Taken, Current
<1>2. Types'
  BY <1>1 DEF Types
<1>3. Writer'
  BY <1>1 DEF SendInvariant, Types, Writer
<1>4. Unbroken'
  BY DEF SendInvariant, Unbroken, Current
<1>5. Seams'
  BY <1>1 DEF SendInvariant, Seams, Begins
<1>6. PeerGetsPdus'
  BY DEF SendInvariant, PeerGetsPdus
<1> QED
  BY <1>2, <1>3, <1>4, <1>5, <1>6 DEF SendInvariant

(***************************************************************************)
(* send_pdu starts a PDU where the writer stands.                          *)
(***************************************************************************)
LEMMA SendStep ==
  ASSUME SendInvariant, NEW len \in PduLens, NEW last \in BOOLEAN, SendPdu(len, last)
  PROVE  SendInvariant'
<1> DEFINE new == [start |-> Taken, len |-> len, written |-> 0, last |-> last]
<1>1. /\ pc = "idle" /\ pc' = "writing" /\ pdus' = Append(pdus, new)
      /\ UNCHANGED <<arrived, frames, replies, cut>>
  BY DEF SendPdu
<1>2. /\ Types /\ Taken \in Nat /\ Len(pdus) \in Nat /\ DOMAIN pdus = 1..Len(pdus)
      /\ len \in Nat /\ len > 0
  BY Numbers, LensPositive DEF SendInvariant
<1>3. new \in SentPdus
  BY <1>2 DEF SentPdus
<1>4. /\ Len(pdus') = Len(pdus) + 1 /\ DOMAIN pdus' = 1..(Len(pdus) + 1)
      /\ \A k \in DOMAIN pdus : k \in DOMAIN pdus' /\ pdus'[k] = pdus[k]
      /\ pdus'[Len(pdus) + 1] = new /\ pdus' # <<>>
  BY <1>1, <1>2, <1>3 DEF Types
<1>5. /\ Current' = new /\ Taken' = Taken
  BY <1>2, <1>4 DEF Current, Taken
<1>6. Types'
  BY <1>1, <1>2, <1>3 DEF Types
<1>7. Writer'
  <2>1. ASSUME NEW j \in DOMAIN pdus', NEW k \in DOMAIN pdus', j < k
        PROVE  pdus'[j].start + pdus'[j].written <= pdus'[k].start
    <3>1. j \in DOMAIN pdus
      BY <1>2, <1>4, <2>1
    <3>2. CASE k \in DOMAIN pdus
      BY <1>4, <2>1, <3>1, <3>2 DEF SendInvariant, Writer
    <3>3. CASE k = Len(pdus) + 1
      <4>1. pdus[j].start + pdus[j].written <= Taken
        <5>1. Taken = pdus[Len(pdus)].start + pdus[Len(pdus)].written /\ Len(pdus) \in DOMAIN pdus
          BY <1>2, <3>1, Numbers DEF Taken, Current
        <5>2. CASE j = Len(pdus)
          BY <1>2, <5>1, <5>2, Numbers
        <5>3. CASE j < Len(pdus)
          BY <1>2, <3>1, <5>1, <5>3, Numbers DEF SendInvariant, Writer
        <5> QED
          BY <1>2, <3>1, <5>2, <5>3
      <4> QED
        BY <1>4, <3>1, <3>3, <4>1
    <3> QED
      BY <1>2, <1>4, <3>2, <3>3
  <2> QED
    BY <1>1, <1>2, <1>4, <1>5, <2>1 DEF SendInvariant, Writer
<1>8. Unbroken'
  BY <1>1, <1>2, <1>4 DEF SendInvariant, Unbroken
<1>9. Seams'
  <2>1. ASSUME NEW p, Begins(p) PROVE Begins(p)'
    BY <1>4, <1>5, <2>1 DEF Begins
  <2>2. ASSUME NEW k \in DOMAIN pdus' PROVE Begins(pdus[k].start + pdus[k].written)'
    <3>1. CASE k \in DOMAIN pdus
      BY <1>4, <2>1, <3>1 DEF SendInvariant, Seams
    <3>2. CASE k = Len(pdus) + 1
      BY <1>2, <1>4, <1>5, <3>2 DEF Begins
    <3> QED
      BY <1>2, <1>4, <3>1, <3>2
  <2>3. Begins(0)'
    BY <2>1 DEF SendInvariant, Seams
  <2> QED
    BY <2>2, <2>3 DEF Seams
<1>10. PeerGetsPdus'
  BY <1>1, <1>4 DEF SendInvariant, PeerGetsPdus
<1> QED
  BY <1>6, <1>7, <1>8, <1>9, <1>10 DEF SendInvariant

(***************************************************************************)
(* The writer takes more of the PDU in hand: the place where it stood was  *)
(* inside the PDU, or it is now where the PDU begins.                      *)
(***************************************************************************)
LEMMA WriteStep ==
  ASSUME SendInvariant, WriteSome
  PROVE  SendInvariant'
<1>1. PICK n \in 1..(Current.len - Current.written) :
         pdus' = [pdus EXCEPT ![Len(pdus)].written = @ + n]
  BY DEF WriteSome
<1>2. /\ pc = "writing"
      /\ pc' = (IF Current'.written = Current.len THEN "flushing" ELSE "writing")
      /\ UNCHANGED <<arrived, frames, cut>>
  BY DEF WriteSome
<1>3. PICK m : m = Len(pdus)
  OBVIOUS
<1>4. /\ Types /\ Writer /\ m \in Nat /\ DOMAIN pdus = 1..m /\ m \in DOMAIN pdus
      /\ pdus # <<>> /\ Current = pdus[m] /\ Taken = pdus[m].start + pdus[m].written
  BY <1>2, <1>3, Numbers DEF SendInvariant, Writer, Current, Taken
<1>5. PICK a \in Nat, w \in Nat, l \in Nat :
         a = pdus[m].start /\ w = pdus[m].written /\ l = pdus[m].len
  BY <1>4, Numbers
<1>6. n \in Nat /\ n > 0 /\ w + n <= l
  <2>1. n \in 1..(l - w)
    BY <1>4, <1>5
  <2> QED
    BY <2>1
<1>7. /\ DOMAIN pdus' = 1..m /\ Len(pdus') = m /\ pdus' # <<>>
      /\ \A k \in 1..m : k # m => pdus'[k] = pdus[k]
      /\ pdus'[m] = [pdus[m] EXCEPT !.written = w + n]
      /\ pdus' \in Seq(SentPdus)
  <2>1. pdus \in Seq(SentPdus) /\ pdus[m] \in SentPdus
    BY <1>4 DEF Types
  <2>2. [pdus[m] EXCEPT !.written = w + n] \in SentPdus
    <3>1. w + n \in Nat
      BY <1>6
    <3> QED
      BY <2>1, <3>1, WrittenType
  <2>3. pdus' = [pdus EXCEPT ![m] = [pdus[m] EXCEPT !.written = w + n]]
    BY <1>1, <1>3, <1>5
  <2> QED
    BY <1>3, <1>4, <2>1, <2>2, <2>3
<1>8. pdus'[m].start = a /\ pdus'[m].written = w + n /\ pdus'[m].len = l
  <2>1. pdus[m] \in SentPdus
    BY <1>4 DEF Types
  <2> QED
    BY <1>5, <1>7, <2>1 DEF SentPdus
<1>9. Current' = pdus'[m] /\ Taken' = a + (w + n) /\ Taken = a + w
  BY <1>4, <1>5, <1>7, <1>8 DEF Current, Taken
<1>10. Types'
  BY <1>2, <1>4, <1>7 DEF Types
<1>11. Writer'
  <2>1. pc' = "writing" => Current'.written < Current'.len
    <3>1. Current'.written = w + n /\ Current'.len = l /\ Current.len = l
      BY <1>4, <1>5, <1>8, <1>9
    <3>2. pc' = "writing" => w + n # l
      BY <1>2, <3>1
    <3> QED
      BY <1>6, <3>1, <3>2
  <2>2. arrived' <= Taken'
    BY <1>2, <1>4, <1>6, <1>9 DEF Writer, Types
  <2>3. ASSUME NEW j \in 1..m, NEW k \in 1..m, j < k
        PROVE  pdus'[j].start + pdus'[j].written <= pdus'[k].start
    <3>1. j # m /\ pdus'[j] = pdus[j]
      BY <1>4, <1>7, <2>3
    <3>2. pdus'[k].start = pdus[k].start
      <4>1. CASE k = m
        BY <1>5, <1>8, <4>1
      <4>2. CASE k # m
        BY <1>7, <4>2
      <4> QED
        BY <4>1, <4>2
    <3> QED
      BY <1>4, <2>3, <3>1, <3>2 DEF Writer
  <2> QED
    BY <1>7, <2>1, <2>2, <2>3 DEF Writer
<1>12. Unbroken'
  <2>1. ASSUME ~cut, NEW k \in 1..m, k # m
        PROVE  pdus'[k].written \in {0, pdus'[k].len}
    BY <1>3, <1>4, <1>7, <2>1 DEF SendInvariant, Unbroken
  <2>2. pdus'[m].written = pdus'[m].len \/ pc' = "writing"
    BY <1>2, <1>4, <1>5, <1>8, <1>9
  <2> QED
    BY <1>2, <1>7, <2>1, <2>2 DEF Unbroken
<1>13. ASSUME NEW p \in Nat, Begins(p), p = Taken => p <= a
       PROVE  Begins(p)'
  <2>1. CASE p = Taken
    <3>1. w = 0 /\ p = a
      BY <1>9, <1>13, <2>1
    <3> QED
      <4>1. m \in DOMAIN pdus'
        BY <1>4, <1>7
      <4>2. pdus'[m].start = p /\ pdus'[m].written > 0
        BY <1>6, <1>8, <3>1
      <4> QED
        BY <4>1, <4>2 DEF Begins
  <2>2. CASE p # Taken
    <3>1. PICK k \in 1..m : pdus[k].start = p /\ pdus[k].written > 0
      BY <1>4, <1>13, <2>2 DEF Begins
    <3>2. pdus'[k].start = p /\ pdus'[k].written > 0
      <4>1. CASE k = m
        <5>1. pdus'[m].written > 0
          BY <1>6, <1>8
        <5> QED
          BY <1>5, <1>8, <3>1, <4>1, <5>1
      <4>2. CASE k # m
        BY <1>7, <3>1, <4>2
      <4> QED
        BY <4>1, <4>2
    <3> QED
      BY <1>7, <3>2 DEF Begins
  <2> QED
    BY <2>1, <2>2
<1>14. Seams'
  <2>1. Begins(0)'
    BY <1>9, <1>13 DEF SendInvariant, Seams
  <2>2. ASSUME NEW k \in 1..m PROVE Begins(pdus[k].start + pdus[k].written)'
    <3>1. CASE k = m
      BY <1>7, <1>8, <1>9, <3>1 DEF Begins
    <3>2. CASE k # m
      <4>1. PICK p \in Nat : p = pdus[k].start + pdus[k].written
        BY <1>4, Numbers
      <4>2. Begins(p)
        BY <1>4, <4>1 DEF SendInvariant, Seams
      <4>3. p <= a
        <5>1. k < m /\ k \in DOMAIN pdus
          BY <1>4, <3>2
        <5> QED
          BY <1>4, <1>5, <4>1, <5>1 DEF Writer
      <4>4. Begins(p)'
        BY <1>13, <4>2, <4>3
      <4>5. p = pdus'[k].start + pdus'[k].written
        BY <1>7, <3>2, <4>1
      <4> QED
        BY <4>4, <4>5
    <3> QED
      BY <3>1, <3>2
  <2> QED
    BY <1>7, <2>1, <2>2 DEF Seams
<1>15. PeerGetsPdus'
  <2>1. ASSUME ~cut, NEW i \in DOMAIN frames
        PROVE  /\ frames[i].from = IF i = 1 THEN 0 ELSE frames[i - 1].to
               /\ \E k \in DOMAIN pdus' :
                     /\ pdus'[k].written = pdus'[k].len
                     /\ frames[i] = [from |-> pdus'[k].start,
                                     to |-> pdus'[k].start + pdus'[k].len]
    <3>1. PICK k \in DOMAIN pdus :
             /\ pdus[k].written = pdus[k].len
             /\ frames[i] = [from |-> pdus[k].start, to |-> pdus[k].start + pdus[k].len]
      BY <2>1 DEF SendInvariant, PeerGetsPdus
    <3>2. k # m
      BY <1>2, <1>4, <3>1, Numbers DEF Writer
    <3>3. pdus'[k] = pdus[k] /\ k \in DOMAIN pdus'
      BY <1>4, <1>7, <3>2
    <3>4. frames[i].from = IF i = 1 THEN 0 ELSE frames[i - 1].to
      BY <2>1 DEF SendInvariant, PeerGetsPdus
    <3> QED
      BY <3>1, <3>3, <3>4
  <2> QED
    BY <1>2, <2>1 DEF PeerGetsPdus
<1> QED
  BY <1>10, <1>11, <1>12, <1>14, <1>15 DEF SendInvariant

(***************************************************************************)
(* The peer reads where a PDU begins, and all of what begins there.        *)
(***************************************************************************)
LEMMA ReadsAPdu ==
  ASSUME SendInvariant, ~cut, NEW len \in PduLens, PeerReads(len)
  PROVE  \E k \in DOMAIN pdus : /\ pdus[k].written = pdus[k].len
                                /\ pdus[k].start = ReadUpTo /\ pdus[k].len = len
<1>1. /\ Here # {} => \E k \in Here : len = pdus[k].len
      /\ ReadUpTo + len <= arrived
  BY DEF PeerReads
<1>2. Types /\ Writer /\ Taken \in Nat /\ arrived \in Nat /\ arrived <= Taken
      /\ len \in Nat /\ len > 0
  BY Numbers, LensPositive DEF SendInvariant, Writer, Types
<1>3. Begins(ReadUpTo) /\ ReadUpTo \in Nat
  <2>1. CASE frames = <<>>
    BY <2>1 DEF ReadUpTo, SendInvariant, Seams
  <2>2. CASE frames # <<>>
    <3>1. Len(frames) \in DOMAIN frames
      BY <1>2, <2>2 DEF Types
    <3>2. PICK k \in DOMAIN pdus :
             /\ pdus[k].written = pdus[k].len
             /\ frames[Len(frames)] = [from |-> pdus[k].start, to |-> pdus[k].start + pdus[k].len]
      BY <3>1 DEF SendInvariant, PeerGetsPdus
    <3>3. ReadUpTo = pdus[k].start + pdus[k].written
      BY <2>2, <3>2 DEF ReadUpTo
    <3> QED
      BY <1>2, <3>2, <3>3, Numbers DEF SendInvariant, Seams
  <2> QED
    BY <2>1, <2>2
<1>4. PICK k \in DOMAIN pdus : pdus[k].start = ReadUpTo /\ pdus[k].written > 0
  <2>1. ReadUpTo # Taken
    BY <1>1, <1>2, <1>3
  <2> QED
    BY <1>3, <2>1 DEF Begins
<1>5. k \in Here
  BY <1>2, <1>4, Numbers DEF Here, SendInvariant, Unbroken
<1>6. PICK j \in Here : len = pdus[j].len
  BY <1>1, <1>5
<1>7. /\ j \in DOMAIN pdus /\ pdus[j].start = ReadUpTo
      /\ pdus[j].written = pdus[j].len \/ (j = Len(pdus) /\ pc = "writing")
  BY <1>6 DEF Here
<1>8. ~(j = Len(pdus) /\ pc = "writing")
  <2>1. SUFFICES ASSUME j = Len(pdus), pc = "writing" PROVE FALSE
    OBVIOUS
  <2>2. Taken = pdus[j].start + pdus[j].written /\ pdus[j].written < pdus[j].len
    BY <1>2, <2>1 DEF Writer, Taken, Current
  <2>3. pdus[j].start \in Nat /\ pdus[j].written \in Nat
    BY <1>2, <1>7, Numbers
  <2> QED
    BY <1>1, <1>2, <1>6, <1>7, <2>2, <2>3
<1> QED
  BY <1>6, <1>7, <1>8

(***************************************************************************)
(* The peer reads.                                                         *)
(***************************************************************************)
LEMMA PeerStep ==
  ASSUME SendInvariant, NEW len \in PduLens, PeerReads(len)
  PROVE  SendInvariant'
<1> DEFINE new == [from |-> ReadUpTo, to |-> ReadUpTo + len]
<1>1. frames' = Append(frames, new) /\ UNCHANGED <<pc, pdus, arrived, cut>>
  BY DEF PeerReads
<1>2. Types /\ len \in Nat
  BY LensPositive DEF SendInvariant
<1>3. ReadUpTo \in Nat
  <2>1. CASE frames = <<>>
    BY <2>1 DEF ReadUpTo
  <2>2. CASE frames # <<>>
    <3>1. frames \in Seq(FrameSet) /\ Len(frames) \in 1..Len(frames)
      BY <1>2, <2>2 DEF Types
    <3>2. frames[Len(frames)] \in FrameSet
      BY <3>1
    <3> QED
      BY <2>2, <3>2 DEF ReadUpTo, FrameSet
  <2> QED
    BY <2>1, <2>2
<1>4. new \in FrameSet
  BY <1>2, <1>3 DEF FrameSet
<1>5. Types'
  BY <1>1, <1>2, <1>4 DEF Types
<1>6. Writer' /\ Unbroken' /\ Seams'
  BY <1>1 DEF SendInvariant, Writer, Unbroken, Seams, Begins, Taken, Current
<1>7. /\ Len(frames) \in Nat /\ DOMAIN frames' = 1..(Len(frames) + 1)
      /\ DOMAIN frames = 1..Len(frames)
      /\ \A i \in DOMAIN frames : frames'[i] = frames[i]
      /\ frames'[Len(frames) + 1] = new
  <2> HIDE DEF new
  <2> QED
    BY <1>1, <1>2, <1>4 DEF Types
<1>8. ASSUME ~cut, NEW i \in DOMAIN frames'
      PROVE  /\ frames'[i].from = IF i = 1 THEN 0 ELSE frames'[i - 1].to
             /\ \E k \in DOMAIN pdus :
                   /\ pdus[k].written = pdus[k].len
                   /\ frames'[i] = [from |-> pdus[k].start, to |-> pdus[k].start + pdus[k].len]
  <2>1. CASE i \in DOMAIN frames
    <3>1. i # 1 => i - 1 \in DOMAIN frames
      BY <1>7, <2>1
    <3> QED
      BY <1>7, <1>8, <2>1, <3>1 DEF SendInvariant, PeerGetsPdus
  <2>2. CASE i = Len(frames) + 1
    <3>1. frames'[i].from = ReadUpTo
      BY <1>7, <2>2
    <3>2. ReadUpTo = IF i = 1 THEN 0 ELSE frames'[i - 1].to
      <4>1. CASE frames = <<>>
        BY <2>2, <4>1 DEF ReadUpTo
      <4>2. CASE frames # <<>>
        <5>1. Len(frames) \in DOMAIN frames /\ i # 1 /\ i - 1 = Len(frames)
          BY <1>2, <1>7, <2>2, <4>2 DEF Types
        <5> QED
          BY <1>7, <4>2, <5>1 DEF ReadUpTo
      <4> QED
        BY <4>1, <4>2
    <3>3. PICK k \in DOMAIN pdus : /\ pdus[k].written = pdus[k].len
                                   /\ pdus[k].start = ReadUpTo /\ pdus[k].len = len
      BY <1>8, ReadsAPdu
    <3>4. frames'[i] = [from |-> pdus[k].start, to |-> pdus[k].start + pdus[k].len]
      BY <1>7, <2>2, <3>3
    <3> QED
      BY <3>1, <3>2, <3>3, <3>4
  <2> QED
    BY <1>7, <2>1, <2>2
<1>9. PeerGetsPdus'
  BY <1>1, <1>8 DEF PeerGetsPdus
<1> QED
  BY <1>5, <1>6, <1>9 DEF SendInvariant

-----------------------------------------------------------------------------
(***************************************************************************)
(* PDUs stay end to end in the stream, and the peer on their boundaries.   *)
(***************************************************************************)
THEOREM SendsHold == Spec => []SendInvariant
<1>1. Init => SendInvariant
  <2> SUFFICES ASSUME Init PROVE SendInvariant
    OBVIOUS
  <2>1. /\ pc = "idle" /\ pdus = <<>> /\ arrived = 0 /\ frames = <<>> /\ cut = FALSE
        /\ DOMAIN pdus = {} /\ DOMAIN frames = {} /\ Taken = 0
    BY DEF Init, Taken
  <2>2. Types
    <3>1. <<>> \in Seq(SentPdus) /\ <<>> \in Seq(FrameSet)
      OBVIOUS
    <3> QED
      BY <2>1, <3>1 DEF Types
  <2>3. Writer /\ Unbroken /\ Seams /\ PeerGetsPdus
    BY <2>1 DEF Writer, Unbroken, Seams, Begins, PeerGetsPdus
  <2> QED
    BY <2>2, <2>3 DEF SendInvariant
<1>2. SendInvariant /\ [Next]_vars => SendInvariant'
  <2> SUFFICES ASSUME SendInvariant, [Next]_vars PROVE SendInvariant'
    OBVIOUS
  <2>1. Types /\ arrived \in Nat /\ Taken \in Nat /\ arrived <= Taken
    BY Numbers DEF SendInvariant, Types, Writer
  <2>2. ASSUME NEW len \in PduLens, NEW last \in BOOLEAN, SendPdu(len, last)
        PROVE  SendInvariant'
    BY <2>2, SendStep
  <2>3. CASE WriteSome
    BY <2>3, WriteStep
  <2>4. CASE WriteFails
    <3>1. ~cut' => Current.written = 0
      <4>1. pdus # <<>>
        BY <2>4 DEF WriteFails, SendInvariant, Writer
      <4>2. Current.written \in Nat
        BY <2>1, <4>1, Numbers DEF Current
      <4>3. ~cut' => ~(Current.written > 0)
        BY <2>4, Zenon DEF WriteFails
      <4> QED
        BY <4>2, <4>3
    <3>2. cut' \in BOOLEAN /\ (cut => cut')
      BY <2>4, Zenon DEF WriteFails
    <3> QED
      BY <2>1, <2>4, <3>1, <3>2, QuietStep DEF WriteFails
  <2>5. CASE Flush \/ FlushFails
    BY <2>1, <2>5, QuietStep DEF Flush, FlushFails, Sent, Types
  <2>6. CASE RecvReply \/ RecvFails
    BY <2>1, <2>6, QuietStep DEF RecvReply, RecvFails, Types
  <2>7. CASE Drain
    BY <2>1, <2>7, QuietStep DEF Drain, Types
  <2>8. CASE Peer
    BY <2>8, PeerStep DEF Peer
  <2>9. CASE UNCHANGED vars
    BY <2>1, <2>9, QuietStep DEF vars, Types
  <2> QED
    BY <2>2, <2>3, <2>4, <2>5, <2>6, <2>7, <2>8, <2>9 DEF Next, Caller
<1> QED
  BY <1>1, <1>2, PTL DEF Spec

(***************************************************************************)
(* For every choice of PDU lengths, what the peer reads are the PDUs that  *)
(* send_pdu was given, whole, in order and none left out, as long as no    *)
(* write failed in the middle of one: failed flushes and writes that       *)
(* failed at once do no harm.                                              *)
(***************************************************************************)
THEOREM PeerReceives == Spec => []PeerGetsPdus
<1>1. SendInvariant => PeerGetsPdus
  BY DEF SendInvariant
<1> QED
  BY <1>1, SendsHold, PTL
=============================================================================
