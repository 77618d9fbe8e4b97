--------------------------- MODULE BindWireProofs ---------------------------
(***************************************************************************)
(* Theorems about the bodies of a bind exchange: lists of any length, with *)
(* contexts of any number of transfer syntaxes, and bind acks of any       *)
(* length, counts and results.                                             *)
(***************************************************************************)
EXTENDS BindWire, SequenceTheorems, WellFoundedInduction, TLAPS

(***************************************************************************)
(* Induction, for a set of numbers: one that holds 0 and with each number  *)
(* the next one holds all.                                                 *)
(***************************************************************************)
LEMMA SetInduction ==
  ASSUME NEW S, 0 \in S, \A n \in Nat : n \in S => n + 1 \in S
  PROVE  \A n \in Nat : n \in S
<1> DEFINE T == {n \in Nat : n \notin S}
           less == OpToRel(<, Nat)
<1>1. IsWellFoundedOn(less, Nat)
  BY NatLessThanWellFounded
<1>2. \A x \in Nat, y \in Nat : y < x => <<y, x>> \in less
  BY DEF OpToRel
<1> HIDE DEF less
<1>3. SUFFICES ASSUME T # {} PROVE FALSE
  OBVIOUS
<1>4. PICK m \in T : \A y \in T : ~(<<y, m>> \in less)
  BY <1>1, <1>3, WFMin
<1>5. m \in Nat /\ m # 0
  OBVIOUS
<1>6. m - 1 \in Nat /\ m - 1 < m /\ (m - 1) + 1 = m
  BY <1>5
<1>7. m - 1 \notin T
  BY <1>2, <1>4, <1>5, <1>6
<1> QED
  BY <1>4, <1>5, <1>6, <1>7

-----------------------------------------------------------------------------
(* How long a list of contexts is. *)

(***************************************************************************)
(* f[n] is the length of a list's header and first n contexts.             *)
(***************************************************************************)
SumsUp(f, l) ==
    /\ f[0] = 4
    /\ \A n \in 1..Len(l) : f[n] = f[n - 1] + ContextLen(l[n])

IsLengths(f, l) == f \in [0..Len(l) -> Nat] /\ SumsUp(f, l)

(***************************************************************************)
(* A context takes at least its header.                                    *)
(***************************************************************************)
LEMMA ContextLenIs ==
  ASSUME NEW c \in Contexts
  PROVE  /\ Len(c.transfer_syntaxes) \in Nat
         /\ ContextLen(c) = Needed(Len(c.transfer_syntaxes))
         /\ ContextLen(c) \in Nat /\ ContextLen(c) >= 24
<1>1. Len(c.transfer_syntaxes) \in Nat
  <2>1. c.transfer_syntaxes \in Seq(STRING)
    BY DEF Contexts
  <2> QED
    BY <2>1
<1> QED
  BY <1>1 DEF ContextLen, Needed

(***************************************************************************)
(* The lengths exist, for a list of any length.                            *)
(***************************************************************************)
LEMMA LengthsExist ==
  ASSUME NEW l \in Seq(Contexts)
  PROVE  \E f : IsLengths(f, l)
<1> DEFINE N == Len(l)
           Upto(m) == \E f \in [0..m -> Nat] :
                         f[0] = 4 /\ \A n \in 1..m : f[n] = f[n - 1] + ContextLen(l[n])
           S == {m \in Nat : m <= N => Upto(m)}
<1>1. N \in Nat /\ \A n \in 1..N : l[n] \in Contexts
  OBVIOUS
<1>2. 0 \in S
  <2>1. [n \in 0..0 |-> 4] \in [0..0 -> Nat] /\ [n \in 0..0 |-> 4][0] = 4
    OBVIOUS
  <2>2. 1..0 = {}
    OBVIOUS
  <2>3. Upto(0)
    <3> DEFINE z == [n \in 0..0 |-> 4]
    <3>1. z \in [0..0 -> Nat] /\ z[0] = 4 /\ \A n \in 1..0 : z[n] = z[n - 1] + ContextLen(l[n])
      BY <2>1, <2>2
    <3> HIDE DEF z
    <3> QED
      BY <3>1
  <2> HIDE DEF Upto
  <2> QED
    BY <2>3
<1>3. ASSUME NEW m \in Nat, m \in S PROVE m + 1 \in S
  <2> SUFFICES ASSUME m + 1 <= N PROVE Upto(m + 1)
    OBVIOUS
  <2>1. Upto(m)
    <3>1. m <= N
      BY <1>1
    <3> HIDE DEF Upto
    <3> QED
      BY <1>3, <3>1
  <2>2. PICK f \in [0..m -> Nat] :
           f[0] = 4 /\ \A n \in 1..m : f[n] = f[n - 1] + ContextLen(l[n])
    BY <2>1
  <2>3. ContextLen(l[m + 1]) \in Nat
    <3>1. m + 1 \in 1..N
      BY <1>1
    <3> QED
      BY <1>1, <3>1, ContextLenIs
  <2> DEFINE g == [n \in 0..(m + 1) |-> IF n = m + 1 THEN f[m] + ContextLen(l[m + 1]) ELSE f[n]]
  <2>4. g \in [0..(m + 1) -> Nat]
    BY <2>2, <2>3
  <2>5. g[0] = 4
    BY <2>2
  <2>6. ASSUME NEW n \in 1..(m + 1) PROVE g[n] = g[n - 1] + ContextLen(l[n])
    <3>1. n \in 0..(m + 1) /\ n - 1 \in 0..(m + 1) /\ n - 1 # m + 1
      OBVIOUS
    <3>2. g[n - 1] = f[n - 1]
      BY <3>1
    <3>3. CASE n = m + 1
      BY <3>1, <3>2, <3>3
    <3>4. CASE n # m + 1
      <4>1. n \in 1..m
        BY <3>4
      <4> QED
        BY <2>2, <3>1, <3>2, <3>4, <4>1
    <3> QED
      BY <3>3, <3>4
  <2> QED
    BY <2>4, <2>5, <2>6
<1>4. N \in S
  <2> HIDE DEF S
  <2> QED
    BY <1>1, <1>2, <1>3, SetInduction
<1>5. Upto(N)
  BY <1>1, <1>4
<1> QED
  BY <1>5 DEF IsLengths, SumsUp

(***************************************************************************)
(* Two functions of the lengths of lists with a common beginning agree on  *)
(* it.                                                                     *)
(***************************************************************************)
LEMMA LengthsAgree ==
  ASSUME NEW l, NEW k, NEW f, NEW g, NEW N \in Nat, SumsUp(f, l), SumsUp(g, k),
         Len(l) \in Nat, Len(k) \in Nat, N <= Len(l), N <= Len(k), \A n \in 1..N : l[n] = k[n]
  PROVE  \A n \in 0..N : f[n] = g[n]
<1> DEFINE S == {n \in Nat : n <= N => f[n] = g[n]}
<1>1. 0 \in S
  BY DEF SumsUp
<1>2. ASSUME NEW n \in Nat, n \in S PROVE n + 1 \in S
  <2> SUFFICES ASSUME n + 1 <= N PROVE f[n + 1] = g[n + 1]
    OBVIOUS
  <2>1. /\ n + 1 \in 1..N /\ n + 1 \in 1..Len(l) /\ n + 1 \in 1..Len(k)
        /\ (n + 1) - 1 = n /\ n <= N
    OBVIOUS
  <2>2. f[n + 1] = f[n] + ContextLen(l[n + 1]) /\ g[n + 1] = g[n] + ContextLen(k[n + 1])
    BY <2>1 DEF SumsUp
  <2> QED
    BY <1>2, <2>1, <2>2
<1>3. \A n \in Nat : n \in S
  <2> HIDE DEF S
  <2> QED
    BY <1>1, <1>2, SetInduction
<1> QED
  BY <1>3

(***************************************************************************)
(* The recursive function of ListLen is well defined: ListLen is the last  *)
(* of the lengths.                                                         *)
(***************************************************************************)
LEMMA ListLenIs ==
  ASSUME NEW l \in Seq(Contexts), NEW f, IsLengths(f, l)
  PROVE  ListLen(l) = f[Len(l)] /\ ListLen(l) \in Nat
<1> DEFINE N == Len(l)
           lens[n \in 0..N] == IF n = 0 THEN 4 ELSE lens[n - 1] + ContextLen(l[n])
<1>1. N \in Nat
  OBVIOUS
<1>2. f = [n \in 0..N |-> IF n = 0 THEN 4 ELSE f[n - 1] + ContextLen(l[n])]
  <2>1. \A n \in 0..N : f[n] = IF n = 0 THEN 4 ELSE f[n - 1] + ContextLen(l[n])
    BY <1>1 DEF IsLengths, SumsUp
  <2>2. f = [n \in 0..N |-> f[n]]
    BY DEF IsLengths
  <2> QED
    BY <2>1, <2>2, Zenon
<1>3. lens = [n \in 0..N |-> IF n = 0 THEN 4 ELSE lens[n - 1] + ContextLen(l[n])]
  BY <1>2, Zenon
<1> HIDE DEF lens
<1>4. SumsUp(lens, l)
  BY <1>1, <1>3 DEF SumsUp
<1>5. f[N] = lens[N]
  BY <1>1, <1>4, LengthsAgree DEF IsLengths
<1> QED
  BY <1>1, <1>5 DEF ListLen, lens, IsLengths

(***************************************************************************)
(* Where the contexts of a list end: each after the one before it, the     *)
(* last one where the list ends.                                           *)
(***************************************************************************)
PrefixLen(l, n) == ListLen(SubSeq(l, 1, n))

LEMMA PrefixLens ==
  ASSUME NEW l \in Seq(Contexts)
  PROVE  /\ PrefixLen(l, 0) = 4
         /\ PrefixLen(l, Len(l)) = ListLen(l)
         /\ \A n \in 0..Len(l) : PrefixLen(l, n) \in Nat
         /\ \A n \in 1..Len(l) : PrefixLen(l, n) = PrefixLen(l, n - 1) + ContextLen(l[n])
<1>1. PICK f : IsLengths(f, l)
  BY LengthsExist
<1>2. Len(l) \in Nat /\ \A n \in 1..Len(l) : l[n] \in Contexts
  OBVIOUS
<1>3. ASSUME NEW n \in 0..Len(l)
      PROVE  PrefixLen(l, n) = f[n]
  <2> DEFINE p == SubSeq(l, 1, n)
  <2>1. /\ p \in Seq(Contexts) /\ Len(p) = n
        /\ \A i \in 1..n : p[i] = l[i]
    <3>1. n \in Int /\ 1 \in Int /\ \A i \in 1..n : l[i] \in Contexts
      BY <1>2
    <3>2. /\ p \in Seq(Contexts) /\ Len(p) = IF 1 <= n THEN n - 1 + 1 ELSE 0
          /\ \A i \in 1..(n - 1 + 1) : p[i] = l[1 + i - 1]
      BY <3>1, SubSeqProperties
    <3>3. n \in Nat
      BY <1>2
    <3> QED
      BY <3>2, <3>3
  <2> HIDE DEF p
  <2>2. PICK g : IsLengths(g, p)
    BY <2>1, LengthsExist
  <2>3. ListLen(p) = g[n]
    BY <2>1, <2>2, ListLenIs
  <2>4. n \in Nat /\ n <= Len(l) /\ n \in 0..n
    BY <1>2
  <2>5. g[n] = f[n]
    <3>1. /\ SumsUp(g, p) /\ SumsUp(f, l) /\ Len(p) \in Nat /\ Len(l) \in Nat
          /\ n <= Len(p) /\ n <= Len(l) /\ \A i \in 1..n : p[i] = l[i]
      BY <1>1, <1>2, <2>1, <2>2, <2>4 DEF IsLengths
    <3>2. \A i \in 0..n : g[i] = f[i]
      BY <2>4, <3>1, LengthsAgree
    <3> QED
      BY <2>4, <3>2
  <2> QED
    BY <2>3, <2>5 DEF PrefixLen, p
<1>4. ListLen(l) = f[Len(l)]
  BY <1>1, ListLenIs
<1>5. \A n \in 1..Len(l) : n \in 0..Len(l) /\ n - 1 \in 0..Len(l)
  BY <1>2
<1>6. \A n \in 1..Len(l) : PrefixLen(l, n) = PrefixLen(l, n - 1) + ContextLen(l[n])
  BY <1>1, <1>3, <1>5 DEF IsLengths, SumsUp
<1>7. 0 \in 0..Len(l) /\ Len(l) \in 0..Len(l)
  BY <1>2
<1> QED
  BY <1>1, <1>3, <1>4, <1>6, <1>7 DEF IsLengths, SumsUp

(***************************************************************************)
(* No two contexts end, or start, at the same place.                       *)
(***************************************************************************)
LEMMA PrefixesGrow ==
  ASSUME NEW l \in Seq(Contexts)
  PROVE  \A i, j \in 0..Len(l) : i < j => PrefixLen(l, i) + 24 <= PrefixLen(l, j)
<1> DEFINE N == Len(l)
           S == {j \in Nat : j <= N => \A i \in 0..N : i < j => PrefixLen(l, i) + 24 <= PrefixLen(l, j)}
<1>1. N \in Nat /\ \A n \in 1..N : l[n] \in Contexts
  OBVIOUS
<1>2. 0 \in S
  OBVIOUS
<1>3. ASSUME NEW j \in Nat, j \in S PROVE j + 1 \in S
  <2> SUFFICES ASSUME j + 1 <= N, NEW i \in 0..N, i < j + 1
               PROVE  PrefixLen(l, i) + 24 <= PrefixLen(l, j + 1)
    OBVIOUS
  <2>1. j + 1 \in 1..N /\ (j + 1) - 1 = j /\ j \in 0..N /\ j <= N
    BY <1>1
  <2>2. /\ PrefixLen(l, j + 1) = PrefixLen(l, j) + ContextLen(l[j + 1])
        /\ PrefixLen(l, j) \in Nat /\ PrefixLen(l, i) \in Nat
    BY <2>1, PrefixLens
  <2>3. ContextLen(l[j + 1]) \in Nat /\ ContextLen(l[j + 1]) >= 24
    BY <1>1, <2>1, ContextLenIs
  <2>4. CASE i = j
    BY <2>2, <2>3, <2>4
  <2>5. CASE i < j
    <3>1. PrefixLen(l, i) + 24 <= PrefixLen(l, j)
      BY <1>3, <2>1, <2>5
    <3> QED
      BY <2>2, <2>3, <3>1
  <2> QED
    BY <1>1, <2>4, <2>5
<1>4. \A j \in Nat : j \in S
  <2> HIDE DEF S
  <2> QED
    BY <1>2, <1>3, SetInduction
<1> QED
  BY <1>1, <1>4

-----------------------------------------------------------------------------
(* The list of contexts. *)

ListTypeOK ==
    /\ stage \in {"idle", "panicked", "wire", "Ok", "InvalidPdu"}
    /\ list \in Seq(Contexts) /\ contexts \in Seq(Nat)
    /\ count \in 0..(U8 - 1) /\ len \in Nat /\ offset \in Nat

(***************************************************************************)
(* What decode has read of a list that encode wrote: its first contexts,   *)
(* up to where they end.                                                   *)
(***************************************************************************)
ReadsAhead ==
    list # <<>> /\ stage \in {"wire", "Ok", "InvalidPdu"} =>
       /\ count = CountByte(list) /\ len = ListLen(list)
       /\ Len(contexts) <= Len(list)
       /\ offset = PrefixLen(list, Len(contexts))
       /\ \A k \in DOMAIN contexts : contexts[k] = Len(list[k].transfer_syntaxes)

ListInvariant ==
    /\ ListTypeOK
    /\ stage = "idle" => list = <<>>
    /\ stage \in {"idle", "panicked"} => contexts = <<>>
    /\ stage = "wire" => Len(contexts) <= count
    /\ ContextsInside /\ ReadsAhead /\ AllOrNothing

(***************************************************************************)
(* A list is written, or comes from a peer.                                *)
(***************************************************************************)
LEMMA ListStarts ==
  ASSUME ListInvariant,
         \/ \E l \in Lists : EncodeList(l)
         \/ \E c \in PeerCounts, n \in PeerLens : PeerList(c, n)
  PROVE  ListInvariant'
<1>1. U8 \in Nat \ {0} /\ 0 \in 0..(U8 - 1)
  BY U8Assumption
<1>2. ASSUME NEW l \in Lists, EncodeList(l) PROVE ListInvariant'
  <2>1. /\ stage = "idle" /\ list' = l /\ contexts' = contexts /\ contexts = <<>>
        /\ \/ stage' = "panicked" /\ UNCHANGED <<count, len, offset>>
           \/ stage' = "wire" /\ count' = CountByte(l) /\ len' = ListLen(l) /\ offset' = 4
    BY <1>2 DEF EncodeList, ListInvariant
  <2>2. l \in Seq(Contexts) /\ Len(l) \in Nat
    BY ContextListAssumption
  <2>3. /\ PrefixLen(l, 0) = 4 /\ PrefixLen(l, Len(l)) = ListLen(l) /\ ListLen(l) \in Nat
        /\ 4 <= ListLen(l)
    <3>1. /\ PrefixLen(l, 0) = 4 /\ PrefixLen(l, Len(l)) = ListLen(l)
          /\ PrefixLen(l, Len(l)) \in Nat /\ 0 \in 0..Len(l) /\ Len(l) \in 0..Len(l)
      BY <2>2, PrefixLens
    <3>2. Len(l) = 0 \/ 0 < Len(l)
      BY <2>2
    <3>3. 0 < Len(l) => PrefixLen(l, 0) + 24 <= PrefixLen(l, Len(l))
      BY <2>2, <3>1, PrefixesGrow
    <3> QED
      BY <3>1, <3>2, <3>3
  <2>4. CountByte(l) \in 0..(U8 - 1)
    BY <1>1, <2>2 DEF CountByte
  <2>5. /\ contexts' = <<>> /\ contexts' \in Seq(Nat) /\ Len(contexts') = 0 /\ DOMAIN contexts' = {}
    BY <2>1
  <2>6. ListTypeOK'
    BY <2>1, <2>2, <2>3, <2>4, <2>5 DEF ListInvariant, ListTypeOK
  <2>7. ContextsInside' /\ ReadsAhead' /\ AllOrNothing'
    BY <2>1, <2>2, <2>3, <2>5 DEF ContextsInside, ReadsAhead, AllOrNothing
  <2> QED
    BY <1>1, <2>1, <2>4, <2>5, <2>6, <2>7 DEF ListInvariant
<1>3. ASSUME NEW c \in PeerCounts, NEW n \in PeerLens, PeerList(c, n) PROVE ListInvariant'
  <2>1. /\ stage = "idle" /\ list' = <<>> /\ contexts' = <<>>
        /\ stage' = IF n < 4 THEN "InvalidPdu" ELSE "wire"
        /\ count' = c /\ len' = n /\ offset' = 4
    BY <1>3 DEF PeerList, ListInvariant
  <2>2. c \in 0..(U8 - 1) /\ n \in Nat
    BY ContextListAssumption
  <2>3. list' \in Seq(Contexts) /\ contexts' \in Seq(Nat) /\ Len(contexts') = 0
    BY <2>1
  <2> QED
    BY <1>1, <2>1, <2>2, <2>3
       DEF ListInvariant, ListTypeOK, ContextsInside, ReadsAhead, AllOrNothing
<1> QED
  BY <1>2, <1>3

(***************************************************************************)
(* The next context of a list that encode wrote is read where it was       *)
(* written, so with its own syntax count, and fits.                        *)
(***************************************************************************)
LEMMA NextContext ==
  ASSUME ListInvariant, MoreToRead, list # <<>>, NEW syntaxes \in TransferCounts
  PROVE  LET n == Len(contexts) + 1
         IN  /\ n \in 1..Len(list)
             /\ syntaxes = Len(list[n].transfer_syntaxes)
             /\ offset + Needed(syntaxes) = PrefixLen(list, n)
             /\ Fits(syntaxes)
<1> DEFINE n == Len(contexts) + 1
           N == Len(list)
<1>1. /\ stage = "wire" /\ Len(contexts) < count /\ count = CountByte(list)
      /\ len = ListLen(list) /\ offset = PrefixLen(list, Len(contexts))
  BY DEF MoreToRead, ListInvariant, ReadsAhead
<1>2. /\ list \in Seq(Contexts) /\ N \in Nat /\ Len(contexts) \in Nat
      /\ \A i \in 1..N : list[i] \in Contexts
      /\ len \in Nat /\ offset \in Nat /\ DOMAIN list = 1..N
  BY DEF ListInvariant, ListTypeOK
<1>3. n \in 1..N /\ n - 1 = Len(contexts)
  <2>1. count <= N
    BY <1>1, <1>2, U8Assumption DEF CountByte
  <2>2. count \in Nat
    BY U8Assumption DEF ListInvariant, ListTypeOK
  <2> QED
    BY <1>1, <1>2, <2>1, <2>2
<1>4. \A i \in 1..N : Starts(i) = PrefixLen(list, i - 1)
  BY DEF Starts, PrefixLen
<1>5. \A i \in 1..N : Starts(i) = offset => i = n
  <2>1. ASSUME NEW i \in 1..N, i # n PROVE PrefixLen(list, i - 1) # PrefixLen(list, n - 1)
    <3>1. i - 1 \in 0..N /\ n - 1 \in 0..N /\ (i - 1 < n - 1 \/ n - 1 < i - 1)
      BY <1>2, <1>3, <2>1
    <3>2. PrefixLen(list, i - 1) \in Nat /\ PrefixLen(list, n - 1) \in Nat
      BY <1>2, <3>1, PrefixLens
    <3>3. \/ PrefixLen(list, i - 1) + 24 <= PrefixLen(list, n - 1)
          \/ PrefixLen(list, n - 1) + 24 <= PrefixLen(list, i - 1)
      BY <1>2, <3>1, PrefixesGrow
    <3> QED
      BY <3>2, <3>3
  <2> QED
    BY <1>1, <1>3, <1>4, <2>1
<1>6. Starts(n) = offset
  BY <1>1, <1>3, <1>4
<1>7. syntaxes = Len(list[n].transfer_syntaxes)
  <2>1. {i \in DOMAIN list : Starts(i) = offset} = {n}
    BY <1>2, <1>3, <1>5, <1>6
  <2> QED
    BY <2>1 DEF TransferCounts
<1>8. /\ ContextLen(list[n]) = Needed(syntaxes) /\ ContextLen(list[n]) \in Nat
      /\ ContextLen(list[n]) >= 24
  BY <1>2, <1>3, <1>7, ContextLenIs
<1>9. PrefixLen(list, n) = offset + Needed(syntaxes)
  BY <1>1, <1>2, <1>3, <1>8, PrefixLens
<1>10. PrefixLen(list, n) <= len
  <2>1. /\ PrefixLen(list, N) = len /\ n \in 0..N /\ N \in 0..N
        /\ PrefixLen(list, n) \in Nat
    BY <1>1, <1>2, <1>3, PrefixLens
  <2>2. n < N => PrefixLen(list, n) + 24 <= PrefixLen(list, N)
    BY <1>2, <2>1, PrefixesGrow
  <2>3. n \in 1..N /\ N \in Nat /\ len \in Nat
    BY <1>2, <1>3
  <2> HIDE DEF n, N
  <2>4. n = N \/ n < N
    BY <2>3
  <2>5. CASE n = N
    BY <2>1, <2>3, <2>5
  <2>6. CASE n < N
    BY <2>1, <2>2, <2>3, <2>6
  <2> QED
    BY <2>4, <2>5, <2>6
<1>11. Fits(syntaxes)
  BY <1>2, <1>8, <1>9, <1>10 DEF Fits
<1> QED
  BY <1>3, <1>7, <1>9, <1>11

(***************************************************************************)
(* decode takes the next context, or refuses it.                           *)
(***************************************************************************)
LEMMA ListReads ==
  ASSUME ListInvariant, MoreToRead, NEW syntaxes \in TransferCounts,
         DecodeContext(syntaxes) \/ ContextRefused(syntaxes)
  PROVE  ListInvariant'
<1>1. /\ stage = "wire" /\ Len(contexts) < count /\ count \in Nat
      /\ list \in Seq(Contexts) /\ contexts \in Seq(Nat) /\ len \in Nat /\ offset \in Nat
      /\ Len(contexts) \in Nat
  BY U8Assumption DEF MoreToRead, ListInvariant, ListTypeOK
<1>2. syntaxes \in Nat
  <2>1. \A n \in DOMAIN list : Len(list[n].transfer_syntaxes) \in Nat
    BY <1>1, ContextLenIs
  <2> QED
    BY <2>1, U8Assumption DEF TransferCounts
<1>3. CASE DecodeContext(syntaxes)
  <2>1. /\ Fits(syntaxes) /\ contexts' = Append(contexts, syntaxes)
        /\ offset' = offset + Needed(syntaxes)
        /\ UNCHANGED <<stage, list, count, len>>
    BY <1>3 DEF DecodeContext
  <2>2. /\ Needed(syntaxes) \in Nat /\ offset' \in Nat /\ offset' <= len
    BY <1>1, <1>2, <2>1 DEF Needed, Fits
  <2>3. /\ contexts' \in Seq(Nat) /\ Len(contexts') = Len(contexts) + 1
        /\ DOMAIN contexts' = 1..(Len(contexts) + 1) /\ DOMAIN contexts = 1..Len(contexts)
        /\ contexts'[Len(contexts) + 1] = syntaxes
        /\ \A k \in 1..Len(contexts) : contexts'[k] = contexts[k]
    BY <1>1, <1>2, <2>1
  <2>4. ListTypeOK'
    BY <1>1, <2>1, <2>2, <2>3 DEF ListInvariant, ListTypeOK
  <2>5. ContextsInside' /\ AllOrNothing'
    BY <1>1, <2>1, <2>2 DEF ContextsInside, AllOrNothing
  <2>6. ReadsAhead'
    <3> SUFFICES ASSUME list # <<>> PROVE ReadsAhead'
      BY <2>1 DEF ReadsAhead
    <3> DEFINE n == Len(contexts) + 1
    <3>1. /\ n \in 1..Len(list) /\ syntaxes = Len(list[n].transfer_syntaxes)
          /\ offset + Needed(syntaxes) = PrefixLen(list, n)
      BY NextContext
    <3>2. /\ count = CountByte(list) /\ len = ListLen(list)
          /\ \A k \in DOMAIN contexts : contexts[k] = Len(list[k].transfer_syntaxes)
      BY <1>1 DEF ListInvariant, ReadsAhead
    <3>3. \A k \in DOMAIN contexts' : contexts'[k] = Len(list[k].transfer_syntaxes)
      <4>1. \A k \in DOMAIN contexts' : k = n \/ k \in 1..Len(contexts)
        BY <1>1, <2>3
      <4> QED
        BY <2>3, <3>1, <3>2, <4>1
    <3>4. Len(contexts') <= Len(list') /\ offset' = PrefixLen(list, Len(contexts'))
      BY <1>1, <2>1, <2>3, <3>1
    <3> QED
      BY <2>1, <3>2, <3>3, <3>4 DEF ReadsAhead, PrefixLen, CountByte
  <2> QED
    BY <1>1, <2>1, <2>3, <2>4, <2>5, <2>6 DEF ListInvariant
<1>4. CASE ContextRefused(syntaxes)
  <2>1. /\ ~Fits(syntaxes) /\ stage' = "InvalidPdu"
        /\ UNCHANGED <<list, count, len, offset, contexts>>
    BY <1>4 DEF ContextRefused
  <2>2. list = <<>>
    BY <2>1, NextContext
  <2> QED
    BY <2>1, <2>2 DEF ListInvariant, ListTypeOK, ContextsInside, ReadsAhead, AllOrNothing
<1> QED
  BY <1>3, <1>4

(***************************************************************************)
(* All announced contexts are read.  For a list that encode wrote, they    *)
(* end where it ends only if the count byte could hold their number.       *)
(***************************************************************************)
LEMMA ListReturns ==
  ASSUME ListInvariant, Return
  PROVE  ListInvariant'
<1>1. /\ stage = "wire" /\ Len(contexts) = count
      /\ stage' = IF offset = len THEN "Ok" ELSE "InvalidPdu"
      /\ UNCHANGED <<list, count, len, offset, contexts>>
  BY DEF Return
<1>2. /\ list \in Seq(Contexts) /\ contexts \in Seq(Nat) /\ count \in Nat
      /\ Len(contexts) \in Nat /\ Len(list) \in Nat /\ DOMAIN list = 1..Len(list)
      /\ DOMAIN contexts = 1..Len(contexts)
  BY U8Assumption DEF ListInvariant, ListTypeOK
<1>3. ReadsAhead' /\ ListTypeOK' /\ ContextsInside'
  <2>1. ReadsAhead'
    BY <1>1 DEF ListInvariant, ReadsAhead, PrefixLen, CountByte
  <2> QED
    BY <1>1, <2>1 DEF ListInvariant, ListTypeOK, ContextsInside
<1>4. AllOrNothing'
  <2> SUFFICES ASSUME list # <<>>
               PROVE  /\ offset = len => contexts = SyntaxCounts(list)
                      /\ offset # len => Len(list) >= U8
    BY <1>1 DEF AllOrNothing, SyntaxCounts
  <2>1. /\ count = Len(list) % U8 /\ len = PrefixLen(list, Len(list))
        /\ offset = PrefixLen(list, count) /\ count <= Len(list)
        /\ \A k \in DOMAIN contexts : contexts[k] = Len(list[k].transfer_syntaxes)
    BY <1>1, <1>2, PrefixLens DEF ListInvariant, ReadsAhead, CountByte
  <2>2. offset = len => count = Len(list)
    <3>1. count \in 0..Len(list) /\ Len(list) \in 0..Len(list)
      BY <1>2, <2>1
    <3>2. count < Len(list) => PrefixLen(list, count) + 24 <= PrefixLen(list, Len(list))
      BY <1>2, <3>1, PrefixesGrow
    <3>3. PrefixLen(list, count) \in Nat
      BY <1>2, <3>1, PrefixLens
    <3> QED
      BY <1>2, <2>1, <3>2, <3>3
  <2>3. ASSUME offset = len PROVE contexts = SyntaxCounts(list)
    <3>1. DOMAIN contexts = DOMAIN list
      BY <1>1, <1>2, <2>2, <2>3
    <3>2. contexts = [k \in DOMAIN list |-> contexts[k]]
      <4>1. contexts = [k \in DOMAIN contexts |-> contexts[k]]
        BY <1>2
      <4> QED
        BY <3>1, <4>1
    <3>3. \A k \in DOMAIN list : contexts[k] = Len(list[k].transfer_syntaxes)
      BY <2>1, <3>1
    <3> QED
      BY <3>2, <3>3, Zenon DEF SyntaxCounts
  <2>4. ASSUME offset # len PROVE Len(list) >= U8
    <3>1. count # Len(list)
      BY <2>1, <2>4
    <3>2. Len(list) < U8 => Len(list) \in 0..(U8 - 1)
      BY <1>2, U8Assumption
    <3>3. Len(list) \in 0..(U8 - 1) => Len(list) % U8 = Len(list)
      BY U8Assumption
    <3> QED
      <4>1. ~(Len(list) < U8)
        BY <2>1, <3>1, <3>2, <3>3
      <4>2. Len(list) \in Nat /\ U8 \in Nat
        BY <1>2, U8Assumption
      <4> QED
        BY <4>1, <4>2
  <2> QED
    BY <2>3, <2>4
<1> QED
  BY <1>1, <1>3, <1>4 DEF ListInvariant

(***************************************************************************)
(* Every step keeps the invariant of the list.                             *)
(***************************************************************************)
LEMMA ListStep ==
  ASSUME ListInvariant, [Next]_vars
  PROVE  ListInvariant'
<1>1. CASE UNCHANGED vars
  BY <1>1 DEF vars, ListInvariant, ListTypeOK, ContextsInside, ReadsAhead, AllOrNothing,
              PrefixLen, CountByte, SyntaxCounts
<1>2. CASE Next
  BY <1>2, ListStarts, ListReads, ListReturns DEF Next
<1> QED
  BY <1>1, <1>2

-----------------------------------------------------------------------------
(* The bind ack. *)

(***************************************************************************)
(* Where the result count starts: after the address, padded to 4.          *)
(***************************************************************************)
Padded == ((10 + addr_len + 3) \div 4) * 4

AckTypeOK ==
    /\ at \in {"head", "addr", "align", "count", "results", "Ok", "InvalidPdu"}
    /\ ack_len \in Nat /\ addr_len \in Nat /\ result_count \in Nat
    /\ ack_offset \in Nat /\ results \in Seq(Codes)

(***************************************************************************)
(* Where decode stands at each of its tests.                               *)
(***************************************************************************)
AckPositions ==
    /\ at \in {"addr", "align", "count", "results", "Ok"} => ack_len >= 12
    /\ at = "addr" => ack_offset = 10 + addr_len
    /\ at \in {"align", "count", "results", "Ok"} => 10 + addr_len <= ack_len
    /\ at = "align" => 10 + addr_len <= ack_offset /\ ack_offset <= Padded
    /\ at = "count" => ack_offset = Padded
    /\ at \in {"head", "addr", "align", "count"} => results = <<>>
    /\ at \in {"results", "Ok"} =>
          /\ ack_offset = Padded + 4 + 24 * Len(results)
          /\ ack_offset <= ack_len /\ Len(results) <= result_count
    /\ at = "Ok" => Len(results) = result_count /\ ack_offset = ack_len

AckInvariant == AckTypeOK /\ AckPositions /\ DecodesExactly

(***************************************************************************)
(* The padding: less than four bytes, up to the first multiple of four.    *)
(***************************************************************************)
LEMMA PaddedIs ==
  ASSUME AckTypeOK
  PROVE  /\ Padded \in Nat /\ 10 + addr_len <= Padded
         /\ \A k \in Nat : /\ 10 + addr_len <= k /\ k <= Padded /\ k % 4 = 0 => k = Padded
                           /\ k <= Padded /\ k % 4 # 0 => k + 1 <= Padded
<1>1. addr_len \in Nat
  BY DEF AckTypeOK
<1> DEFINE q == (10 + addr_len + 3) \div 4
<1>2. q \in Nat /\ 4 * q <= addr_len + 13 /\ addr_len + 13 < 4 * q + 4
  BY <1>1
<1>3. Padded = 4 * q
  BY <1>2 DEF Padded
<1> HIDE DEF q
<1>4. \A k \in Nat : k % 4 = 0 => \E j \in Nat : k = 4 * j
  <2>1. \A k \in Nat : k % 4 = 0 => k = 4 * (k \div 4) /\ k \div 4 \in Nat
    OBVIOUS
  <2> QED
    BY <2>1
<1>5. (4 * q) % 4 = 0
  BY <1>2
<1> QED
  BY <1>1, <1>2, <1>3, <1>4, <1>5

(***************************************************************************)
(* A test that refuses the body: if the layout was right, a result was not.*)
(***************************************************************************)
LEMMA AckFails ==
  ASSUME AckInvariant, NEW test, Fail(test),
         WellFormed => Len(results) < result_count /\ "unknown" \in Codes
  PROVE  AckInvariant'
BY DEF AckInvariant, AckTypeOK, AckPositions, DecodesExactly, WellFormed, Fail

(***************************************************************************)
(* Every step of BindAckPdu::decode keeps its invariant.                   *)
(***************************************************************************)
LEMMA AckStep ==
  ASSUME AckInvariant, [AckNext]_ackVars
  PROVE  AckInvariant'
<1>1. /\ ack_len \in Nat /\ addr_len \in Nat /\ result_count \in Nat
      /\ ack_offset \in Nat /\ results \in Seq(Codes) /\ Len(results) \in Nat
  BY DEF AckInvariant, AckTypeOK
<1>2. /\ Padded \in Nat /\ 10 + addr_len <= Padded
      /\ \A k \in Nat : /\ 10 + addr_len <= k /\ k <= Padded /\ k % 4 = 0 => k = Padded
                        /\ k <= Padded /\ k % 4 # 0 => k + 1 <= Padded
  BY PaddedIs DEF AckInvariant
<1>3. WellFormed <=> ack_len = Padded + 4 + 24 * result_count /\ ack_len >= 12
  BY DEF WellFormed, Padded
<1>4. ASSUME NEW test, NEW next, NEW position, Pass(test, next, position)
      PROVE  /\ at = test /\ at' = next /\ ack_offset' = position
             /\ UNCHANGED <<ack_len, addr_len, result_count, results>> /\ Padded' = Padded
  BY <1>4 DEF Pass, Padded
<1> USE DEF AckInvariant, AckTypeOK, AckPositions
<1>5. CASE ReadHead
  <2>1. CASE ack_len < 12 /\ Fail("head")
    BY <1>1, <1>3, <2>1, AckFails
  <2>2. CASE ack_len >= 12 /\ Pass("head", "addr", 10 + addr_len)
    BY <1>1, <1>4, <2>2 DEF DecodesExactly
  <2> QED
    BY <1>5, <2>1, <2>2 DEF ReadHead
<1>6. CASE SecondaryAddr
  <2>1. CASE ack_len < ack_offset /\ Fail("addr")
    <3>1. at = "addr"
      BY <2>1 DEF Fail
    <3>2. ~WellFormed
      BY <1>1, <1>2, <1>3, <2>1, <3>1
    <3> QED
      BY <2>1, <3>2, AckFails
  <2>2. CASE ack_len >= ack_offset /\ Pass("addr", "align", ack_offset)
    BY <1>1, <1>2, <1>4, <2>2 DEF DecodesExactly
  <2> QED
    BY <1>6, <2>1, <2>2 DEF SecondaryAddr
<1>7. CASE Align
  <2>1. CASE ack_offset % 4 # 0 /\ Pass("align", "align", ack_offset + 1)
    BY <1>1, <1>2, <1>4, <2>1 DEF DecodesExactly
  <2>2. CASE ack_offset % 4 = 0 /\ Pass("align", "count", ack_offset)
    BY <1>1, <1>2, <1>4, <2>2 DEF DecodesExactly
  <2> QED
    BY <1>7, <2>1, <2>2 DEF Align
<1>8. CASE ReadCount
  <2>1. CASE ack_len < ack_offset + 4 /\ Fail("count")
    <3>1. at = "count"
      BY <2>1 DEF Fail
    <3>2. ~WellFormed
      BY <1>1, <1>2, <1>3, <2>1, <3>1
    <3> QED
      BY <2>1, <3>2, AckFails
  <2>2. CASE ack_len >= ack_offset + 4 /\ Pass("count", "results", ack_offset + 4)
    <3>1. Len(results) = 0 /\ at = "count" /\ ack_offset = Padded
      BY <1>4, <2>2
    <3>2. /\ at' = "results" /\ ack_offset' = ack_offset + 4
          /\ UNCHANGED <<ack_len, addr_len, result_count, results>> /\ Padded' = Padded
      BY <1>4, <2>2
    <3>3. AckTypeOK'
      BY <1>1, <3>2
    <3>4. /\ ack_len >= 12 /\ 10 + addr_len <= ack_len /\ 0 <= result_count
          /\ ack_offset + 4 = Padded + 4 + 24 * Len(results) /\ ack_offset + 4 <= ack_len
      BY <1>1, <1>2, <2>2, <3>1
    <3>5. AckPositions'
      BY <3>1, <3>2, <3>4
    <3>6. DecodesExactly'
      BY <3>2 DEF DecodesExactly
    <3> QED
      BY <3>3, <3>5, <3>6
  <2> QED
    BY <1>8, <2>1, <2>2 DEF ReadCount
<1>9. ASSUME NEW code \in Codes, ReadResult(code)
      PROVE  AckInvariant'
  <2>1. /\ at = "results" /\ at' = at /\ Len(results) < result_count
        /\ ack_len >= ack_offset + 24 /\ results' = Append(results, code)
        /\ ack_offset' = ack_offset + 24
        /\ UNCHANGED <<ack_len, addr_len, result_count>> /\ Padded' = Padded
    BY <1>9 DEF ReadResult, ResultFits, Padded
  <2>2. results' \in Seq(Codes) /\ Len(results') = Len(results) + 1
    BY <1>1, <2>1
  <2> QED
    BY <1>1, <1>2, <2>1, <2>2 DEF DecodesExactly
<1>10. ASSUME NEW code \in Codes, ResultRefused(code)
       PROVE  AckInvariant'
  <2>1. /\ at = "results" /\ Len(results) < result_count /\ Fail("results")
        /\ ~(ack_len >= ack_offset + 24) \/ code = "unknown"
    BY <1>10 DEF ResultRefused, ResultFits, Fail
  <2>2. WellFormed => "unknown" \in Codes
    BY <1>1, <1>2, <1>3, <2>1
  <2> QED
    BY <2>1, <2>2, AckFails
<1>11. CASE AckReturn
  <2>1. CASE Len(results) = result_count /\ ack_offset # ack_len /\ Fail("results")
    <3>1. at = "results"
      BY <2>1 DEF Fail
    <3>2. ~WellFormed
      BY <1>1, <1>2, <1>3, <2>1, <3>1
    <3> QED
      BY <2>1, <3>2, AckFails
  <2>2. CASE Len(results) = result_count /\ ack_offset = ack_len
             /\ Pass("results", "Ok", ack_offset)
    <3>1. /\ at = "results" /\ at' = "Ok" /\ ack_offset' = ack_offset
          /\ UNCHANGED <<ack_len, addr_len, result_count, results>> /\ Padded' = Padded
      BY <1>4, <2>2
    <3>2. WellFormed
      BY <1>1, <1>2, <1>3, <2>2, <3>1
    <3> QED
      BY <1>1, <1>2, <2>2, <3>1, <3>2 DEF DecodesExactly, WellFormed
  <2> QED
    BY <1>11, <2>1, <2>2 DEF AckReturn
<1>12. CASE UNCHANGED ackVars
  BY <1>12 DEF ackVars, DecodesExactly, WellFormed, Padded
<1> QED
  BY <1>5, <1>6, <1>7, <1>8, <1>9, <1>10, <1>11, <1>12 DEF AckNext

-----------------------------------------------------------------------------
(***************************************************************************)
(* Both invariants hold in every run.                                      *)
(***************************************************************************)
LEMMA WireInvariantsHold == WireSpec => [](ListInvariant /\ AckInvariant)
<1>1. WireInit => ListInvariant /\ AckInvariant
  <2> SUFFICES ASSUME WireInit PROVE ListInvariant /\ AckInvariant
    OBVIOUS
  <2>1. Init /\ AckInit
    BY DEF WireInit
  <2>2. list \in Seq(Contexts) /\ contexts \in Seq(Nat) /\ results \in Seq(Codes)
    BY <2>1 DEF Init, AckInit
  <2>3. ListInvariant
    BY <2>1, <2>2, U8Assumption
       DEF Init, ListInvariant, ListTypeOK, ContextsInside, ReadsAhead, AllOrNothing
  <2>4. ack_len \in Nat /\ addr_len \in Nat /\ result_count \in Nat
    <3>1. ack_len \in BodyLens /\ addr_len \in AddrLens /\ result_count \in Counts
      BY <2>1 DEF AckInit
    <3>2. BodyLens \subseteq Nat /\ AddrLens \subseteq 0..U16_MAX /\ Counts \subseteq 0..255
      BY BindAckAssumption
    <3>3. addr_len \in 0..U16_MAX /\ result_count \in 0..255
      BY <3>1, <3>2
    <3> QED
      BY <3>1, <3>2, <3>3
  <2>5. AckInvariant
    BY <2>1, <2>2, <2>4 DEF AckInit, AckInvariant, AckTypeOK, AckPositions, DecodesExactly
  <2> QED
    BY <2>3, <2>5
<1>2. ListInvariant /\ AckInvariant /\ [WireNext]_wireVars => (ListInvariant /\ AckInvariant)'
  BY ListStep, AckStep DEF WireNext, wireVars
<1> QED
  BY <1>1, <1>2, PTL DEF WireSpec

(***************************************************************************)
(* PresentationContextList::decode never slices past its buffer, whatever  *)
(* the count bytes say.                                                    *)
(***************************************************************************)
THEOREM ContextsStayInside == WireSpec => []ContextsInside
<1>1. ListInvariant => ContextsInside
  BY DEF ListInvariant
<1> QED
  BY <1>1, WireInvariantsHold, PTL

(***************************************************************************)
(* For lists of any length and contexts of any size: the receiver gets     *)
(* the proposed contexts, all and in order, or refuses a list whose number *)
(* of contexts the count byte cannot hold.                                 *)
(***************************************************************************)
THEOREM ListsAllOrNothing == WireSpec => []AllOrNothing
<1>1. ListInvariant => AllOrNothing
  BY DEF ListInvariant
<1> QED
  BY <1>1, WireInvariantsHold, PTL

(***************************************************************************)
(* BindAckPdu::decode reads only what lies in the body.                    *)
(***************************************************************************)
THEOREM ResultsStayInside == WireSpec => []ResultsInside
<1>1. AckInvariant => ResultsInside
  BY DEF AckInvariant, AckPositions, ResultsInside
<1> QED
  BY <1>1, WireInvariantsHold, PTL

(***************************************************************************)
(* BindAckPdu::decode accepts exactly the bodies of the right layout whose *)
(* results it knows, and returns all of their results.                     *)
(***************************************************************************)
THEOREM AcksDecodeExactly == WireSpec => []DecodesExactly
<1>1. AckInvariant => DecodesExactly
  BY DEF AckInvariant
<1> QED
  BY <1>1, WireInvariantsHold, PTL
=============================================================================
