------------------------- MODULE InlineCaptureProofs --------------------------
(***************************************************************************)
(* Proofs about the inline capture, for every size of the ring, every      *)
(* bound on the debt, every drop delta and every number of panics.         *)
(*                                                                         *)
(* The inductive invariant is about one sequence, the datagrams the ring   *)
(* ever accepted: those taken, then those that wait.  Taking a datagram    *)
(* does not change it, so what is true of a gap when the capture writes it *)
(* down is true of it when the derivation reads it.                        *)
(***************************************************************************)
EXTENDS InlineCapture, SequenceTheorems, TLAPS

Accepted == taken \o full

(* The number of the datagram before the i-th of the sequence s.           *)
Before(s, i) == IF i = 1 THEN 0 ELSE s[i - 1].n

(* Every number on the wire is an accepted datagram or is counted as lost. *)
WireIsCounted == declared + dropped + Len(Accepted) = wire

AcceptedAscends ==
    \A i, j \in 1 .. Len(Accepted) : i < j => Accepted[i].n < Accepted[j].n

RoomBehind ==
    \A i \in 1 .. Len(Accepted) : Accepted[i].n + (Len(Accepted) - i) <= wire

GapsInv ==
    \A i \in 1 .. Len(Accepted) :
        Accepted[i].delta = Saturate(Accepted[i].n - Before(Accepted, i) - 1)

OwedInv == owed = Saturate(wire - Before(Accepted, Len(Accepted) + 1))

StreamInv == WireIsCounted /\ AcceptedAscends /\ RoomBehind /\ GapsInv /\ OwedInv

Row == [seq : Nat, datagrams : Seq(Datagram) \ {<<>>}, total : Nat,
        certain : BOOLEAN, fate : {"stored", "lost"}]

RowsInv ==
    /\ windows \in Seq(Row) /\ windowSeq = Len(windows)
    /\ \A w \in 1 .. Len(windows) : windows[w].seq = w - 1
    /\ preceding # NoWindow =>
          preceding < Len(windows) /\ windows[preceding + 1].fate = "stored"

(* Where the windows lie in what was taken.                                *)
PlacesInv ==
    /\ \A w \in 1 .. Len(windows) :
           /\ \E i \in 1 .. Len(taken) : taken[i] = FirstOf(w)
           /\ \E i \in 1 .. Len(taken) : taken[i] = LastOf(w)
    /\ window # <<>> =>
          /\ \E i \in 1 .. Len(taken) : taken[i] = window[1]
          /\ taken # <<>> /\ Last(window) = Last(taken)

(* The total sampled last covers what is missing up to the last datagram.  *)
SampledInv ==
    (pc \in {"wait", "close"} /\ taken # <<>>) => MissingUpTo(Len(taken)) <= total

(* No datagram was taken between two of these.                             *)
Adjoin(x, y) == \A i \in 1 .. Len(taken) : ~(x.n < taken[i].n /\ taken[i].n < y.n)

(* Without a panic every datagram taken is in a window.                    *)
AdjoinInv ==
    panics = 0 =>
        /\ \A w \in 2 .. Len(windows) : Adjoin(LastOf(w - 1), FirstOf(w))
        /\ windows # <<>> =>
              /\ window = <<>> => LastOf(Len(windows)) = Last(taken)
              /\ window # <<>> => Adjoin(LastOf(Len(windows)), window[1])

CertainInv ==
    \A w \in 1 .. Len(windows) :
        windows[w].certain => w > 1 /\ windows[w - 1].fate = "stored"

CaptureInv ==
    /\ SlotsConserved /\ Len(inHand) <= 1
    /\ StreamInv
    /\ RowsInv
    /\ PlacesInv
    /\ SampledInv
    /\ AdjoinInv
    /\ CertainInv
    /\ TotalsCoverLosses
-----------------------------------------------------------------------------
LEMMA SizesAreNat ==
    /\ Capacity \in Nat \ {0} /\ DebtMax \in Nat \ {0} /\ Bytes \in Nat \ {0}
    /\ AfterStop \in Nat /\ MaxWire \in Nat /\ MaxPanics \in Nat
    /\ \A delta \in KernelLoss : delta \in Nat
    /\ NoWindow \notin Nat
  BY CaptureAssumption

LEMMA AppendFacts ==
    ASSUME NEW D, NEW s \in Seq(D), NEW d \in D
    PROVE  /\ Append(s, d) \in Seq(D)
           /\ Len(Append(s, d)) = Len(s) + 1
           /\ \A i \in 1 .. Len(s) : Append(s, d)[i] = s[i]
           /\ Append(s, d)[Len(s) + 1] = d
           /\ Append(s, d) # <<>>
           /\ Last(Append(s, d)) = d
  BY DEF Last

(* Handing over the head of the ring does not change the accepted ones.    *)
LEMMA HandOver ==
    ASSUME NEW D, NEW t \in Seq(D), NEW f \in Seq(D), f # <<>>
    PROVE  /\ Append(t, Head(f)) \o Tail(f) = t \o f
           /\ Head(f) \in D /\ Tail(f) \in Seq(D) /\ Len(Tail(f)) = Len(f) - 1
           /\ (t \o f)[Len(t) + 1] = Head(f)
  <1>1. Head(f) \in D /\ Tail(f) \in Seq(D) /\ Len(Tail(f)) = Len(f) - 1
    OBVIOUS
  <1>2. (t \o f)[Len(t) + 1] = Head(f)
    OBVIOUS
  <1>3. Append(t, Head(f)) \o Tail(f) = t \o f
    OBVIOUS
  <1> QED
    BY <1>1, <1>2, <1>3

LEMMA AppendBehind ==
    ASSUME NEW D, NEW t \in Seq(D), NEW f \in Seq(D), NEW d \in D
    PROVE  t \o Append(f, d) = Append(t \o f, d)
  OBVIOUS

LEMMA TakenIsAccepted ==
    ASSUME CaptureTypeOK
    PROVE  /\ Accepted \in Seq(Datagram) /\ Len(Accepted) = Len(taken) + Len(full)
           /\ \A i \in 1 .. Len(taken) : i \in 1 .. Len(Accepted) /\ Accepted[i] = taken[i]
           /\ DOMAIN taken = 1 .. Len(taken)
  BY DEF CaptureTypeOK, Accepted

LEMMA DatagramTyped ==
    ASSUME NEW d \in Datagram
    PROVE  d.n \in Nat /\ d.n >= 1 /\ d.delta \in Nat
  BY SizesAreNat DEF Datagram

(* A number names one datagram, and the last one taken is the greatest.    *)
LEMMA NumbersName ==
    ASSUME CaptureTypeOK, AcceptedAscends
    PROVE  /\ \A i, j \in 1 .. Len(taken) : taken[i].n = taken[j].n => i = j
           /\ \A i \in 1 .. Len(taken) : taken[i].n <= Last(taken).n
           /\ full # <<>> => \A i \in 1 .. Len(taken) : taken[i].n < Head(full).n
  <1>1. \A i, j \in 1 .. Len(taken) : i < j => taken[i].n < taken[j].n
    BY TakenIsAccepted DEF AcceptedAscends
  <1>2. \A i \in 1 .. Len(taken) : taken[i].n \in Nat
    BY DatagramTyped DEF CaptureTypeOK
  <1>3. \A i, j \in 1 .. Len(taken) : taken[i].n = taken[j].n => i = j
    BY <1>1, <1>2, SMTT(30) DEF CaptureTypeOK
  <1>4. \A i \in 1 .. Len(taken) : taken[i].n <= Last(taken).n
    BY <1>1, <1>2, SMTT(30) DEF CaptureTypeOK, Last
  <1>5. ASSUME full # <<>>, NEW i \in 1 .. Len(taken)
        PROVE  taken[i].n < Head(full).n
    <2>1. Accepted[Len(taken) + 1] = Head(full)
      BY <1>5, HandOver DEF CaptureTypeOK, Accepted
    <2>2. Len(taken) + 1 \in 1 .. Len(Accepted) /\ i < Len(taken) + 1
      BY <1>5, TakenIsAccepted DEF CaptureTypeOK
    <2> QED
      BY <2>1, <2>2, TakenIsAccepted DEF AcceptedAscends
  <1> QED
    BY <1>3, <1>4, <1>5

LEMMA SaturateTyped ==
    ASSUME NEW n \in Nat
    PROVE  Saturate(n) \in 0 .. DebtMax
  BY SizesAreNat DEF Saturate
-----------------------------------------------------------------------------
(* The stream: a step that leaves it alone, the hand-over, and the capture.*)
LEMMA StreamStays ==
    ASSUME StreamInv, Accepted' = Accepted, UNCHANGED <<wire, declared, dropped, owed>>
    PROVE  StreamInv'
  BY DEF StreamInv, WireIsCounted, AcceptedAscends, RoomBehind, GapsInv, OwedInv, Before

LEMMA OfferStream ==
    ASSUME CaptureTypeOK, StreamInv, NEW delta \in KernelLoss, Offer(delta)
    PROVE  /\ StreamInv'
           /\ owed' \in 0 .. DebtMax /\ full' \in Seq(Datagram)
  <1> DEFINE last == Before(Accepted, Len(Accepted) + 1)
  <1>1. delta \in Nat /\ wire \in Nat /\ wire' \in 1 .. MaxWire /\ wire' = wire + delta + 1
    BY SizesAreNat, SMTT(30) DEF Offer, CaptureTypeOK
  <1>2. last \in Nat /\ last <= wire
    BY TakenIsAccepted, DatagramTyped, SMTT(30) DEF Before, StreamInv, RoomBehind, CaptureTypeOK
  <1>3. Owe(owed, delta) = Saturate(wire' - last - 1) /\ Owe(owed, delta) \in 0 .. DebtMax
    BY <1>1, <1>2, SizesAreNat DEF Owe, Saturate, StreamInv, OwedInv
  <1>4. CASE free > 0
    <2> DEFINE d == [n |-> wire', delta |-> Owe(owed, delta)]
    <2>1. full' = Append(full, d) /\ owed' = 0 /\ declared' = declared + delta
          /\ UNCHANGED <<dropped, taken>>
      BY <1>4, SizesAreNat DEF Offer, CaptureTypeOK
    <2>2. d \in Datagram /\ d.n = wire' /\ d.delta = Owe(owed, delta)
      BY <1>1, <1>3 DEF Datagram
    <2> HIDE DEF d
    <2>3. Accepted' = Append(Accepted, d) /\ full' \in Seq(Datagram)
      BY <2>1, <2>2, AppendBehind, AppendFacts, SMTT(30) DEF Accepted, CaptureTypeOK
    <2>4. /\ Accepted \in Seq(Datagram)
          /\ Len(Accepted') = Len(Accepted) + 1
          /\ \A i \in 1 .. Len(Accepted) : Accepted'[i] = Accepted[i]
          /\ Accepted'[Len(Accepted) + 1] = d
      BY <2>2, <2>3, AppendFacts, TakenIsAccepted
    <2>5. \A i \in 1 .. Len(Accepted) :
              Accepted[i].n \in Nat /\ Accepted[i].n + (Len(Accepted) - i) <= wire
      BY <2>4, DatagramTyped DEF StreamInv, RoomBehind
    <2>6. WireIsCounted'
      <3>1. /\ declared \in Nat /\ dropped \in Nat /\ Len(Accepted) \in Nat
            /\ declared + dropped + Len(Accepted) = wire
        BY <2>4 DEF StreamInv, WireIsCounted, CaptureTypeOK
      <3>2. /\ declared' = declared + delta /\ dropped' = dropped
            /\ Len(Accepted') = Len(Accepted) + 1
        BY <2>1, <2>4
      <3> QED
        BY ONLY <1>1, <3>1, <3>2 DEF WireIsCounted
    <2>7. AcceptedAscends'
      <3> SUFFICES ASSUME NEW i \in 1 .. Len(Accepted) + 1,
                          NEW j \in 1 .. Len(Accepted) + 1, i < j
                   PROVE  Accepted'[i].n < Accepted'[j].n
        BY <2>4 DEF AcceptedAscends
      <3>1. Len(Accepted) \in Nat
        BY <2>4
      <3>2. CASE j \in 1 .. Len(Accepted)
        BY <2>4, <3>1, <3>2 DEF StreamInv, AcceptedAscends
      <3>3. CASE j = Len(Accepted) + 1
        BY <1>1, <2>2, <2>4, <2>5, <3>1, <3>3, SMTT(30)
      <3> QED
        BY <3>1, <3>2, <3>3
    <2>8. RoomBehind'
      <3> SUFFICES ASSUME NEW i \in 1 .. Len(Accepted) + 1
                   PROVE  Accepted'[i].n + (Len(Accepted) + 1 - i) <= wire'
        BY <2>4 DEF RoomBehind
      <3>1. Len(Accepted) \in Nat
        BY <2>4
      <3>2. CASE i \in 1 .. Len(Accepted)
        <4>1. /\ Accepted'[i] = Accepted[i] /\ Accepted[i].n \in Nat
              /\ Accepted[i].n + (Len(Accepted) - i) <= wire
          BY <2>4, <2>5, <3>2
        <4> QED
          BY ONLY <1>1, <3>1, <3>2, <4>1
      <3>3. CASE i = Len(Accepted) + 1
        <4>1. Accepted'[i].n = wire'
          BY <2>2, <2>4, <3>3
        <4>2. Len(Accepted) + 1 - i = 0
          BY ONLY <3>1, <3>3
        <4>3. wire' \in Nat
          BY ONLY <1>1, SizesAreNat
        <4> QED
          BY ONLY <4>1, <4>2, <4>3
      <3> QED
        BY <3>1, <3>2, <3>3
    <2>9. GapsInv'
      <3> SUFFICES ASSUME NEW i \in 1 .. Len(Accepted) + 1
                   PROVE  Accepted'[i].delta
                              = Saturate(Accepted'[i].n - Before(Accepted', i) - 1)
        BY <2>4 DEF GapsInv, Before, Saturate
      <3>1. CASE i \in 1 .. Len(Accepted)
        <4>1. Before(Accepted', i) = Before(Accepted, i)
          BY <2>4, <3>1 DEF Before
        <4> QED
          BY <2>4, <3>1, <4>1 DEF StreamInv, GapsInv
      <3>2. CASE i = Len(Accepted) + 1
        <4>1. Before(Accepted', i) = last
          BY <2>4, <3>2 DEF Before
        <4> QED
          BY <1>3, <2>2, <2>4, <3>2, <4>1
      <3> QED
        BY <3>1, <3>2, <2>4
    <2>10. OwedInv'
      <3>1. Before(Accepted', Len(Accepted') + 1) = wire'
        BY <2>2, <2>4 DEF Before
      <3> QED
        BY <1>1, <2>1, <3>1, SizesAreNat DEF OwedInv, Saturate, Before
    <2> QED
      BY <2>1, <2>3, <2>6, <2>7, <2>8, <2>9, <2>10, SizesAreNat DEF StreamInv
  <1>5. CASE free = 0
    <2>1. /\ UNCHANGED <<full, taken>> /\ dropped' = dropped + 1
          /\ declared' = declared + delta
          /\ owed' = Undelivered(Owe(owed, delta))
      BY <1>5 DEF Offer
    <2>2. Accepted' = Accepted /\ Len(Accepted) \in Nat
      BY <2>1, TakenIsAccepted DEF Accepted
    <2>3. owed' = Saturate(wire' - last) /\ owed' \in 0 .. DebtMax
      BY <1>1, <1>2, <1>3, <2>1, SizesAreNat DEF Undelivered, Saturate
    <2>4. WireIsCounted'
      <3>1. /\ declared \in Nat /\ dropped \in Nat
            /\ declared + dropped + Len(Accepted) = wire
        BY DEF StreamInv, WireIsCounted, CaptureTypeOK
      <3> QED
        BY ONLY <1>1, <2>1, <2>2, <3>1 DEF WireIsCounted
    <2>5. AcceptedAscends' /\ GapsInv'
      BY <2>2 DEF StreamInv, AcceptedAscends, GapsInv, Before, Saturate
    <2>6. RoomBehind'
      BY <1>1, <2>2, TakenIsAccepted, DatagramTyped DEF StreamInv, RoomBehind
    <2>7. OwedInv'
      BY <2>2, <2>3 DEF OwedInv, Before, Saturate
    <2> QED
      BY <2>1, <2>3, <2>4, <2>5, <2>6, <2>7 DEF StreamInv, CaptureTypeOK
  <1> QED
    BY <1>4, <1>5 DEF CaptureTypeOK, Offer

-----------------------------------------------------------------------------
(* A step that takes nothing and closes nothing leaves the windows alone.  *)
LEMMA WindowsStay ==
    ASSUME CaptureInv, UNCHANGED <<taken, windows, windowSeq, preceding>>,
           UNCHANGED window \/ window' = <<>>
    PROVE  /\ RowsInv' /\ CertainInv' /\ TotalsCoverLosses' /\ PlacesInv'
           /\ UNCHANGED <<window, panics>> => AdjoinInv'
  <1>1. RowsInv' /\ CertainInv' /\ TotalsCoverLosses'
    BY DEF CaptureInv, RowsInv, CertainInv, TotalsCoverLosses, MissingUpTo, LastOf
  <1>2. PlacesInv'
    BY DEF CaptureInv, PlacesInv, FirstOf, LastOf
  <1>3. UNCHANGED <<window, panics>> => AdjoinInv'
    BY DEF CaptureInv, AdjoinInv, Adjoin, FirstOf, LastOf
  <1> QED
    BY <1>1, <1>2, <1>3

LEMMA StreamSame ==
    ASSUME CaptureInv, UNCHANGED <<taken, full, wire, declared, dropped, owed>>
    PROVE  StreamInv'
  BY StreamStays DEF CaptureInv, Accepted

LEMMA InitCapture == Init => CaptureInv
  <1> SUFFICES ASSUME Init PROVE CaptureInv
    OBVIOUS
  <1> USE SizesAreNat DEF Init
  <1>1. SlotsConserved
    <2>1. full \in Seq(Datagram) /\ inHand \in Seq(Datagram) /\ window \in Seq(Datagram)
          /\ taken \in Seq(Datagram) /\ Len(full) = 0 /\ Len(inHand) = 0
      OBVIOUS
    <2>2. /\ 0 \in Nat /\ 0 \in 0 .. MaxWire /\ 0 \in 0 .. DebtMax /\ 0 \in 0 .. MaxPanics
          /\ Capacity \in 0 .. Capacity /\ AfterStop \in 0 .. AfterStop
          /\ Capacity + 0 + 0 = Capacity
      OBVIOUS
    <2> QED
      BY <2>1, <2>2 DEF SlotsConserved, CaptureTypeOK
  <1>2. Accepted = <<>>
    BY DEF Accepted
  <1>3. StreamInv
    BY <1>2 DEF StreamInv, WireIsCounted, AcceptedAscends, RoomBehind, GapsInv, OwedInv,
                Before, Saturate
  <1>4. RowsInv /\ PlacesInv /\ SampledInv /\ AdjoinInv /\ CertainInv /\ TotalsCoverLosses
    BY DEF RowsInv, PlacesInv, SampledInv, AdjoinInv, CertainInv, TotalsCoverLosses
  <1>5. Len(inHand) <= 1
    OBVIOUS
  <1> QED
    BY <1>1, <1>3, <1>4, <1>5 DEF CaptureInv

LEMMA OfferKeeps ==
    ASSUME CaptureInv, NEW delta \in KernelLoss, Offer(delta)
    PROVE  CaptureInv'
  <1> USE SizesAreNat
  <1>1. CaptureTypeOK /\ free + Len(full) + Len(inHand) = Capacity
    BY DEF CaptureInv, SlotsConserved
  <1>2. StreamInv' /\ owed' \in 0 .. DebtMax /\ full' \in Seq(Datagram)
    BY <1>1, OfferStream DEF CaptureInv
  <1>3. UNCHANGED <<inHand, stopped, pc, window, total, closed, windowSeq, preceding,
                    windows, panics, remaining, taken>>
    BY DEF Offer, stageVars
  <1>4. /\ wire' \in 0 .. MaxWire /\ declared' \in Nat /\ dropped' \in Nat
    <2>1. /\ wire \in Nat /\ declared \in Nat /\ dropped \in Nat /\ delta \in Nat
      BY <1>1 DEF CaptureTypeOK
    <2>2. /\ wire + delta < MaxWire /\ wire' = wire + delta + 1
          /\ declared' = declared + delta /\ dropped' \in {dropped, dropped + 1}
      BY DEF Offer
    <2> QED
      BY <2>1, <2>2
  <1>5. free' \in 0 .. Capacity /\ free' + Len(full') + Len(inHand') = Capacity
    <2>1. /\ free \in 0 .. Capacity /\ Len(full) \in Nat /\ Len(inHand) \in Nat
          /\ inHand' = inHand
      BY <1>1, <1>3 DEF CaptureTypeOK
    <2>2. CASE free = 0
      BY <1>1, <2>1, <2>2 DEF Offer
    <2>3. CASE free > 0
      <3>1. free' = free - 1 /\ Len(full') = Len(full) + 1
        BY <1>1, <1>2, <2>3 DEF Offer, CaptureTypeOK
      <3> QED
        BY <1>1, <2>1, <2>3, <3>1
    <2> QED
      BY <2>1, <2>2, <2>3
  <1>6. SlotsConserved'
    BY <1>1, <1>2, <1>3, <1>4, <1>5 DEF SlotsConserved, CaptureTypeOK
  <1>7. RowsInv' /\ CertainInv' /\ TotalsCoverLosses' /\ PlacesInv' /\ AdjoinInv'
    BY <1>3, WindowsStay
  <1>8. SampledInv'
    BY <1>3 DEF CaptureInv, SampledInv, MissingUpTo
  <1>9. Len(inHand') <= 1
    BY <1>3 DEF CaptureInv
  <1> QED
    BY <1>2, <1>6, <1>7, <1>8, <1>9 DEF CaptureInv

(* What the derivation does without touching the stream or the windows.    *)
LEMMA SampleKeeps ==
    ASSUME CaptureInv, Sample
    PROVE  CaptureInv'
  <1> USE SizesAreNat
  <1>1. SlotsConserved'
    BY DEF CaptureInv, SlotsConserved, CaptureTypeOK, Sample, CaptureDropTotal, ringVars
  <1>2. StreamInv'
    BY StreamSame DEF Sample, ringVars
  <1>3. RowsInv' /\ CertainInv' /\ TotalsCoverLosses' /\ PlacesInv' /\ AdjoinInv'
    BY WindowsStay DEF Sample
  <1>4. ASSUME taken # <<>>
        PROVE  MissingUpTo(Len(taken)) <= CaptureDropTotal
    <2>1. CaptureTypeOK /\ StreamInv
      BY DEF CaptureInv, SlotsConserved
    <2>2. /\ Len(taken) \in 1 .. Len(Accepted) /\ Accepted[Len(taken)] = taken[Len(taken)]
          /\ Len(Accepted) \in Nat
      BY <1>4, <2>1, TakenIsAccepted DEF CaptureTypeOK
    <2>3. taken[Len(taken)].n \in Nat
      BY <1>4, <2>1, DatagramTyped DEF CaptureTypeOK
    <2>4. taken[Len(taken)].n + (Len(Accepted) - Len(taken)) <= wire
      BY <2>1, <2>2 DEF StreamInv, RoomBehind
    <2>5. declared + dropped + Len(Accepted) = wire /\ declared \in Nat /\ dropped \in Nat
      BY <2>1 DEF StreamInv, WireIsCounted, CaptureTypeOK
    <2> QED
      BY ONLY <2>2, <2>3, <2>4, <2>5 DEF MissingUpTo, CaptureDropTotal
  <1>5. SampledInv'
    BY <1>4 DEF SampledInv, MissingUpTo, Sample
  <1>6. Len(inHand') <= 1
    BY DEF CaptureInv, Sample
  <1> QED
    BY <1>1, <1>2, <1>3, <1>5, <1>6 DEF CaptureInv

LEMMA QuietKeeps ==
    ASSUME CaptureInv, Stop \/ GiveBack \/ CloseOnAge \/ CloseOnEnd
    PROVE  CaptureInv'
  <1> USE SizesAreNat DEF Stop, GiveBack, CloseOnAge, CloseOnEnd, ringVars, stageVars
  <1>0. /\ CaptureTypeOK /\ free + Len(full) + Len(inHand) = Capacity
    BY DEF CaptureInv, SlotsConserved
  <1>1. SlotsConserved'
    <2>1. CASE GiveBack
      <3>1. Len(inHand) \in Nat \ {0} /\ Len(full) \in Nat
        BY <1>0, <2>1 DEF CaptureTypeOK
      <3>2. inHand' = <<>> /\ Len(inHand') = 0 /\ full' = full
        BY <2>1
      <3>3. Len(inHand) <= 1
        BY DEF CaptureInv
      <3>4. Len(inHand) = 1 /\ free' = free + 1 /\ free \in Nat
        <4>1. free' = free + 1
          BY <2>1
        <4>2. free \in 0 .. Capacity
          BY <1>0 DEF CaptureTypeOK
        <4> QED
          <5>1. Len(inHand) = 1
            BY ONLY <3>1, <3>3
          <5>2. free \in Nat
            BY ONLY <4>2, SizesAreNat
          <5> QED
            BY <4>1, <5>1, <5>2
      <3>5. free' + Len(full') + Len(inHand') = Capacity /\ free' \in 0 .. Capacity
        BY ONLY <1>0, <3>1, <3>2, <3>4, SizesAreNat
      <3>6. /\ UNCHANGED <<wire, declared, dropped, owed, full, window, stopped, pc>>
            /\ UNCHANGED <<taken, total, windowSeq, preceding, panics, remaining, closed>>
            /\ inHand' \in Seq(Datagram)
        BY <2>1
      <3>7. CaptureTypeOK'
        BY ONLY <1>0, <3>5, <3>6 DEF CaptureTypeOK
      <3> QED
        BY <3>5, <3>7 DEF SlotsConserved
    <2>2. CASE Stop \/ CloseOnAge \/ CloseOnEnd
      <3>1. /\ UNCHANGED <<wire, declared, dropped, owed, free, full, inHand, window>>
            /\ UNCHANGED <<taken, total, windowSeq, preceding, panics, remaining>>
        BY <2>2
      <3>2. /\ stopped' \in BOOLEAN /\ pc' \in {"sample", "wait", "close", "done", "gone"}
            /\ closed' \in {"open", "bytes", "age", "ended"}
        BY <1>0, <2>2 DEF CaptureTypeOK
      <3>3. CaptureTypeOK'
        BY ONLY <1>0, <3>1, <3>2 DEF CaptureTypeOK
      <3>4. free' + Len(full') + Len(inHand') = Capacity
        BY ONLY <1>0, <3>1
      <3> QED
        BY ONLY <3>3, <3>4 DEF SlotsConserved
    <2> QED
      BY <2>1, <2>2
  <1>2. StreamInv'
    BY StreamSame
  <1>3. RowsInv' /\ CertainInv' /\ TotalsCoverLosses' /\ PlacesInv' /\ AdjoinInv'
    BY WindowsStay
  <1>4. SampledInv'
    BY DEF CaptureInv, SampledInv, MissingUpTo
  <1>5. Len(inHand') <= 1
    BY DEF CaptureInv
  <1> QED
    BY <1>1, <1>2, <1>3, <1>4, <1>5 DEF CaptureInv

LEMMA PanicKeeps ==
    ASSUME CaptureInv, Panic
    PROVE  CaptureInv'
  <1> USE SizesAreNat DEF Panic, OpenWindow, ringVars
  <1>1. SlotsConserved'
    BY DEF CaptureInv, SlotsConserved, CaptureTypeOK
  <1>2. StreamInv'
    BY StreamSame
  <1>3. RowsInv' /\ CertainInv' /\ TotalsCoverLosses' /\ PlacesInv'
    BY WindowsStay
  <1>4. AdjoinInv'
    BY DEF CaptureInv, SlotsConserved, CaptureTypeOK, AdjoinInv
  <1>5. SampledInv'
    BY DEF SampledInv
  <1>6. Len(inHand') <= 1
    BY DEF CaptureInv
  <1> QED
    BY <1>1, <1>2, <1>3, <1>4, <1>5, <1>6 DEF CaptureInv
-----------------------------------------------------------------------------
(* The hand-over from the ring to the window.                              *)
LEMMA TakeKeeps ==
    ASSUME CaptureInv, Take
    PROVE  CaptureInv'
  <1> DEFINE d == Head(full)
  <1>1. /\ CaptureTypeOK /\ AcceptedAscends /\ full # <<>>
        /\ free + Len(full) + Len(inHand) = Capacity
    BY DEF CaptureInv, SlotsConserved, StreamInv, Take
  <1>2. /\ full' = Tail(full) /\ inHand' = <<d>> /\ inHand = <<>>
        /\ window' = Append(window, d) /\ taken' = Append(taken, d)
        /\ pc' = "sample"
        /\ UNCHANGED <<wire, declared, dropped, owed, stopped, free, total, closed,
                       windowSeq, preceding, windows, panics, remaining>>
    BY DEF Take
  <1>3. /\ d \in Datagram /\ Tail(full) \in Seq(Datagram)
        /\ Len(Tail(full)) = Len(full) - 1
        /\ taken' \o full' = taken \o full
    BY <1>1, <1>2, HandOver DEF CaptureTypeOK
  <1>4. \A i \in 1 .. Len(taken) : taken[i].n \in Nat /\ taken[i].n < d.n
    BY <1>1, NumbersName, DatagramTyped DEF CaptureTypeOK
  <1>5. d.n \in Nat
    BY <1>3, DatagramTyped
  <1> HIDE DEF d
  <1>6. /\ Len(taken') = Len(taken) + 1 /\ Len(taken) \in Nat
        /\ \A i \in 1 .. Len(taken) : taken'[i] = taken[i]
        /\ taken'[Len(taken) + 1] = d /\ Last(taken') = d /\ taken' # <<>>
        /\ taken' \in Seq(Datagram)
    BY <1>1, <1>2, <1>3, AppendFacts, SMTT(30) DEF CaptureTypeOK
  <1>7. /\ window' # <<>> /\ Last(window') = d /\ window' \in Seq(Datagram)
        /\ window = <<>> => window'[1] = d
        /\ window # <<>> => window'[1] = window[1]
    <2>1. window \in Seq(Datagram)
      BY <1>1 DEF CaptureTypeOK
    <2> QED
      BY <1>2, <1>3, <2>1, AppendFacts
  <1>8. SlotsConserved' /\ Len(inHand') <= 1
    <2>1. Len(inHand) = 0 /\ Len(inHand') = 1 /\ inHand' \in Seq(Datagram)
      BY <1>2, <1>3
    <2>2. Len(full) \in Nat /\ free \in 0 .. Capacity
      BY <1>1 DEF CaptureTypeOK
    <2>3. free' + Len(full') + Len(inHand') = Capacity
      BY <1>1, <1>2, <1>3, <2>1, <2>2, SizesAreNat
    <2>4. CaptureTypeOK'
      BY <1>1, <1>2, <1>3, <1>6, <1>7, <2>1 DEF CaptureTypeOK
    <2> QED
      BY <2>1, <2>3, <2>4 DEF SlotsConserved
  <1>9. StreamInv'
    BY <1>2, <1>3, StreamStays DEF CaptureInv, Accepted
  <1>10. RowsInv' /\ CertainInv'
    BY <1>2 DEF CaptureInv, RowsInv, CertainInv
  <1>11. PlacesInv'
    <2>1. ASSUME NEW x, \E i \in 1 .. Len(taken) : taken[i] = x
          PROVE  \E i \in 1 .. Len(taken') : taken'[i] = x
      BY <1>6, <2>1
    <2>2. \A w \in 1 .. Len(windows) :
              /\ \E i \in 1 .. Len(taken') : taken'[i] = FirstOf(w)
              /\ \E i \in 1 .. Len(taken') : taken'[i] = LastOf(w)
      BY <2>1 DEF CaptureInv, PlacesInv
    <2>3. \E i \in 1 .. Len(taken') : taken'[i] = window'[1]
      BY <1>6, <1>7, <2>1 DEF CaptureInv, PlacesInv
    <2> QED
      BY <1>2, <1>6, <1>7, <2>2, <2>3 DEF PlacesInv, FirstOf, LastOf
  <1>12. SampledInv'
    BY <1>2 DEF SampledInv
  <1>13. ASSUME NEW x, NEW y, Adjoin(x, y),
                y.n \in Nat, y.n <= d.n
         PROVE  Adjoin(x, y)'
    BY <1>5, <1>6, <1>13 DEF Adjoin
  <1>14. \A w \in 1 .. Len(windows) :
            /\ FirstOf(w).n \in Nat /\ FirstOf(w).n <= d.n
            /\ LastOf(w).n \in Nat /\ LastOf(w).n < d.n
    BY <1>4, <1>5 DEF CaptureInv, PlacesInv
  <1>15. AdjoinInv'
    <2> SUFFICES ASSUME panics = 0
                 PROVE  /\ \A w \in 2 .. Len(windows) : Adjoin(LastOf(w - 1), FirstOf(w))'
                        /\ windows # <<>> => Adjoin(LastOf(Len(windows)), window[1])'
      BY <1>2, <1>7 DEF AdjoinInv, FirstOf, LastOf
    <2>1. \A w \in 2 .. Len(windows) : Adjoin(LastOf(w - 1), FirstOf(w))'
      BY <1>2, <1>13, <1>14, SMTT(30) DEF CaptureInv, AdjoinInv, FirstOf, LastOf
    <2>2. ASSUME windows # <<>>, window # <<>>
          PROVE  Adjoin(LastOf(Len(windows)), window[1])'
      <3>1. Adjoin(LastOf(Len(windows)), window[1])
        BY <2>2 DEF CaptureInv, AdjoinInv
      <3>2. window[1].n \in Nat /\ window[1].n <= d.n
        BY <1>4, <1>5, <2>2 DEF CaptureInv, PlacesInv
      <3>3. /\ LastOf(Len(windows))' = LastOf(Len(windows))
            /\ window'[1] = window[1]
        BY <1>2, <1>7, <2>2 DEF LastOf
      <3>4. \A i \in 1 .. Len(taken') :
                ~(LastOf(Len(windows)).n < taken'[i].n /\ taken'[i].n < window[1].n)
        BY <1>5, <1>6, <3>1, <3>2 DEF Adjoin
      <3> QED
        BY <3>3, <3>4 DEF Adjoin
    <2>3. ASSUME windows # <<>>, window = <<>>
          PROVE  Adjoin(LastOf(Len(windows)), window[1])'
      <3>1. LastOf(Len(windows)) = Last(taken)
        BY <2>3 DEF CaptureInv, AdjoinInv
      <3>2. \A i \in 1 .. Len(taken) : taken[i].n <= Last(taken).n
        BY <1>1, NumbersName
      <3>3. LastOf(Len(windows))' = LastOf(Len(windows)) /\ window'[1] = d
        BY <1>2, <1>7, <2>3 DEF LastOf
      <3>4. ASSUME NEW i \in 1 .. Len(taken')
            PROVE  ~(Last(taken).n < taken'[i].n /\ taken'[i].n < d.n)
        <4>1. Last(taken).n \in Nat
          <5>1. Len(windows) \in 1 .. Len(windows)
            BY <2>3 DEF CaptureInv, RowsInv
          <5> QED
            BY <1>14, <3>1, <5>1
        <4>2. CASE i \in 1 .. Len(taken)
          BY <1>4, <1>6, <3>2, <4>1, <4>2
        <4>3. CASE i = Len(taken) + 1
          BY <1>5, <1>6, <4>3
        <4> QED
          BY <1>6, <4>2, <4>3
      <3> QED
        BY <3>1, <3>3, <3>4 DEF Adjoin
    <2> QED
      BY <2>1, <2>2, <2>3
  <1>16. TotalsCoverLosses'
    <2> SUFFICES ASSUME NEW w \in 1 .. Len(windows), NEW i \in 1 .. Len(taken'),
                        taken'[i] = LastOf(w)
                 PROVE  taken'[i].n - i <= windows[w].total
      <3>1. DOMAIN windows' = 1 .. Len(windows) /\ DOMAIN taken' = 1 .. Len(taken')
        BY <1>2, <1>6 DEF CaptureInv, RowsInv
      <3>2. \A w \in DOMAIN windows' : LastOf(w)' = LastOf(w)
        BY <1>2 DEF LastOf
      <3> QED
        BY <1>2, <3>1, <3>2 DEF TotalsCoverLosses, MissingUpTo
    <2>1. i \in 1 .. Len(taken)
      BY <1>5, <1>6, <1>14
    <2>2. DOMAIN windows = 1 .. Len(windows) /\ DOMAIN taken = 1 .. Len(taken)
      BY <1>1, TakenIsAccepted DEF CaptureInv, RowsInv
    <2> QED
      BY <1>6, <2>1, <2>2 DEF CaptureInv, TotalsCoverLosses, MissingUpTo
  <1> QED
    BY <1>8, <1>9, <1>10, <1>11, <1>12, <1>15, <1>16 DEF CaptureInv

(* A window closes: it is the stretch of what was taken that ends with the *)
(* datagram taken last.                                                    *)
LEMMA CloseKeeps ==
    ASSUME CaptureInv, NEW fate \in {"stored", "lost"}, CloseWindow(fate)
    PROVE  CaptureInv'
  <1> DEFINE row == [seq |-> windowSeq, datagrams |-> window, total |-> total,
                     certain |-> AnchorIsCertain, fate |-> fate]
             k == Len(windows) + 1
  <1>1. /\ CaptureTypeOK /\ AcceptedAscends /\ RowsInv /\ Len(inHand) <= 1
        /\ free + Len(full) + Len(inHand) = Capacity
    BY DEF CaptureInv, SlotsConserved, StreamInv
  <1>2. /\ pc = "close" /\ pc' \in {"sample", "done"}
        /\ window' = <<>> /\ total' = 0 /\ closed' = "open"
        /\ UNCHANGED <<wire, declared, dropped, owed, full, stopped, free, inHand>>
        /\ UNCHANGED <<panics, remaining, taken>>
    BY DEF CloseWindow, OpenWindow, ringVars
  <1>3. StreamInv'
    BY <1>2, StreamSame
  <1>4. SampledInv'
    BY <1>2 DEF SampledInv
  <1>5. CASE window = <<>>
    <2>1. UNCHANGED <<windowSeq, preceding, windows, window>>
      BY <1>2, <1>5 DEF CloseWindow
    <2>2. RowsInv' /\ CertainInv' /\ TotalsCoverLosses' /\ PlacesInv' /\ AdjoinInv'
      BY <1>2, <2>1, WindowsStay
    <2>3. CaptureTypeOK'
      BY ONLY <1>1, <1>2, <2>1, SizesAreNat DEF CaptureTypeOK
    <2>4. SlotsConserved' /\ Len(inHand') <= 1
      BY <1>1, <1>2, <2>3 DEF SlotsConserved
    <2> QED
      BY <1>3, <1>4, <2>2, <2>4 DEF CaptureInv
  <1>6. CASE window # <<>>
    <2>1. /\ windowSeq' = windowSeq + 1 /\ preceding' = TrailerAfter(fate)
          /\ windows' = Append(windows, row)
      BY <1>6 DEF CloseWindow
    <2>2. /\ window \in Seq(Datagram) /\ total \in Nat /\ windowSeq \in Nat
          /\ windowSeq = Len(windows) /\ windows \in Seq(Row)
          /\ preceding \in Nat \cup {NoWindow}
          /\ taken \in Seq(Datagram)
      BY <1>1 DEF CaptureTypeOK, RowsInv
    <2>3. row \in Row
      BY <1>6, <2>2 DEF Row, AnchorIsCertain
    <2>4. /\ row.seq = windowSeq /\ row.datagrams = window /\ row.total = total
          /\ row.certain = AnchorIsCertain /\ row.fate = fate
      OBVIOUS
    <2> HIDE DEF row
    <2>5. /\ windows' \in Seq(Row) /\ Len(windows') = k /\ windows'[k] = row
          /\ \A w \in 1 .. Len(windows) : windows'[w] = windows[w]
          /\ Len(windows) \in Nat
      BY <2>1, <2>2, <2>3, AppendFacts
    <2>6. CaptureTypeOK'
      <3>1. windowSeq' \in Nat /\ preceding' \in Nat \cup {NoWindow}
        BY <2>1, <2>2 DEF TrailerAfter
      <3>2. window' \in Seq(Datagram) /\ total' \in Nat
        BY <1>2
      <3> QED
        BY ONLY <1>1, <1>2, <3>1, <3>2 DEF CaptureTypeOK
    <2>7. SlotsConserved' /\ Len(inHand') <= 1
      BY <1>1, <1>2, <2>6 DEF SlotsConserved
    <2> DEFINE First2(w) == windows'[w].datagrams[1]
               Last2(w) == Last(windows'[w].datagrams)
    <2>8. /\ First2(k) = window[1] /\ Last2(k) = Last(taken)
          /\ \A w \in 1 .. Len(windows) : First2(w) = FirstOf(w) /\ Last2(w) = LastOf(w)
      <3>1. Last(window) = Last(taken)
        BY <1>6 DEF CaptureInv, PlacesInv
      <3>2. windows'[k].datagrams = window
        BY <2>4, <2>5
      <3>3. \A w \in 1 .. Len(windows) : windows'[w] = windows[w]
        BY <2>5
      <3> QED
        BY <3>1, <3>2, <3>3 DEF FirstOf, LastOf
    <2>15. /\ \A w \in 1 .. k : w \in 1 .. Len(windows) \/ w = k
           /\ k = Len(windows) + 1 /\ k - 1 = Len(windows)
      BY <2>5
    <2> HIDE DEF k
    <2>9. /\ taken # <<>> /\ Len(taken) \in 1 .. Len(taken)
          /\ Last(taken) = taken[Len(taken)]
      BY <1>6, <2>2 DEF CaptureInv, PlacesInv, Last
    <2>10. RowsInv'
      <3>1. windowSeq' = Len(windows')
        BY <2>1, <2>2, <2>5, <2>15
      <3>2. \A w \in 1 .. k : windows'[w].seq = w - 1
        <4>1. \A w \in 1 .. Len(windows) : windows'[w].seq = w - 1
          BY <1>1, <2>5 DEF RowsInv
        <4>2. windows'[k].seq = k - 1
          BY <2>2, <2>4, <2>5, <2>15
        <4> QED
          BY <2>15, <4>1, <4>2
      <3>3. ASSUME preceding' # NoWindow
            PROVE  preceding' < k /\ windows'[preceding' + 1].fate = "stored"
        BY <2>1, <2>2, <2>4, <2>5, <3>3 DEF TrailerAfter
      <3> QED
        BY <2>5, <3>1, <3>2, <3>3 DEF RowsInv
    <2>11. PlacesInv'
      <3>1. \A w \in 1 .. Len(windows) :
                /\ \E i \in 1 .. Len(taken) : taken[i] = First2(w)
                /\ \E i \in 1 .. Len(taken) : taken[i] = Last2(w)
        BY <2>8 DEF CaptureInv, PlacesInv
      <3>2. /\ \E i \in 1 .. Len(taken) : taken[i] = First2(k)
            /\ \E i \in 1 .. Len(taken) : taken[i] = Last2(k)
        BY <1>6, <2>8, <2>9 DEF CaptureInv, PlacesInv
      <3> QED
        BY <1>2, <2>5, <2>15, <3>1, <3>2 DEF PlacesInv, FirstOf, LastOf
    <2>12. CertainInv'
      <3>1. ASSUME AnchorIsCertain
            PROVE  k > 1 /\ windows'[k - 1].fate = "stored"
        BY <1>1, <2>2, <2>5, <2>15, <3>1 DEF AnchorIsCertain, RowsInv
      <3>2. \A w \in 1 .. Len(windows) :
                windows'[w].certain => w > 1 /\ windows'[w - 1].fate = "stored"
        BY <2>5, <2>15 DEF CaptureInv, CertainInv
      <3> QED
        BY <2>4, <2>5, <2>15, <3>1, <3>2 DEF CertainInv
    <2>13. AdjoinInv'
      <3> SUFFICES ASSUME panics = 0
                   PROVE  /\ \A w \in 2 .. k : Adjoin(Last2(w - 1), First2(w))
                          /\ Last2(k) = Last(taken)
        BY <1>2, <2>5, <2>15 DEF AdjoinInv, Adjoin, FirstOf, LastOf
      <3>1. \A w \in 2 .. Len(windows) : Adjoin(Last2(w - 1), First2(w))
        BY <2>5, <2>8 DEF CaptureInv, AdjoinInv
      <3>2. k > 1 => Adjoin(Last2(k - 1), First2(k))
        <4>1. k > 1 => Adjoin(LastOf(Len(windows)), window[1])
          BY <1>6, <2>2, <2>5, <2>15 DEF CaptureInv, AdjoinInv
        <4> QED
          BY <2>5, <2>8, <2>15, <4>1
      <3> QED
        BY <2>5, <2>8, <2>15, <3>1, <3>2
    <2>14. TotalsCoverLosses'
      <3> SUFFICES ASSUME NEW w \in 1 .. k, NEW i \in 1 .. Len(taken),
                          taken[i] = Last2(w)
                   PROVE  taken[i].n - i <= windows'[w].total
        <4>1. DOMAIN windows' = 1 .. k /\ DOMAIN taken' = 1 .. Len(taken)
          BY <1>2, <2>2, <2>5
        <4> QED
          BY <1>2, <4>1 DEF TotalsCoverLosses, MissingUpTo, LastOf
      <3>1. CASE w \in 1 .. Len(windows)
        BY <2>2, <2>5, <2>8, <3>1 DEF CaptureInv, TotalsCoverLosses, MissingUpTo
      <3>2. CASE w = k
        <4>1. i = Len(taken)
          BY <1>1, <2>8, <2>9, <3>2, NumbersName
        <4>2. taken[Len(taken)].n - Len(taken) <= total
          BY <1>2, <2>9 DEF CaptureInv, SampledInv, MissingUpTo
        <4> QED
          BY <2>4, <2>5, <3>2, <4>1, <4>2
      <3> QED
        BY <2>5, <2>15, <3>1, <3>2
    <2> QED
      BY <1>3, <1>4, <2>7, <2>10, <2>11, <2>12, <2>13, <2>14 DEF CaptureInv
  <1> QED
    BY <1>5, <1>6
-----------------------------------------------------------------------------
LEMMA NextCapture == CaptureInv /\ [Next]_vars => CaptureInv'
  <1> SUFFICES ASSUME CaptureInv, [Next]_vars PROVE CaptureInv'
    OBVIOUS
  <1>1. ASSUME NEW delta \in KernelLoss, Offer(delta) PROVE CaptureInv'
    BY <1>1, OfferKeeps
  <1>2. CASE Stop \/ GiveBack \/ CloseOnAge \/ CloseOnEnd
    BY <1>2, QuietKeeps
  <1>3. CASE Sample
    BY <1>3, SampleKeeps
  <1>4. CASE Take
    BY <1>4, TakeKeeps
  <1>5. ASSUME NEW fate \in {"stored", "lost"}, CloseWindow(fate) PROVE CaptureInv'
    BY <1>5, CloseKeeps
  <1>6. CASE Panic
    BY <1>6, PanicKeeps
  <1>7. CASE UNCHANGED vars
    <2>1. StreamInv'
      BY <1>7, StreamSame DEF vars, ringVars
    <2>2. RowsInv' /\ CertainInv' /\ TotalsCoverLosses' /\ PlacesInv' /\ AdjoinInv'
      BY <1>7, WindowsStay DEF vars, stageVars
    <2>3. SlotsConserved' /\ Len(inHand') <= 1 /\ SampledInv'
      BY <1>7 DEF CaptureInv, SlotsConserved, CaptureTypeOK, SampledInv, MissingUpTo,
                  vars, ringVars, stageVars
    <2> QED
      BY <2>1, <2>2, <2>3 DEF CaptureInv
  <1> QED
    BY <1>1, <1>2, <1>3, <1>4, <1>5, <1>6, <1>7 DEF Next, Derive, Wait

LEMMA CaptureInvariant == Spec => []CaptureInv
  BY InitCapture, NextCapture, PTL DEF Spec

(* No slot of the ring is lost or made, whatever the capture offers, the   *)
(* derivation gives back and a panic unwinds: a slot in hand when the      *)
(* stage is begun again is given back by its first wait.                   *)
THEOREM CaptureConservesSlots == Spec => []SlotsConserved
  <1>1. CaptureInv => SlotsConserved
    BY DEF CaptureInv
  <1> QED
    BY <1>1, CaptureInvariant, PTL

(* Every loss, the kernel's and the ring's, is admitted by the datagram    *)
(* behind it, up to where the debt saturates; and no window closes with a  *)
(* total behind what is missing up to its last datagram.                   *)
THEOREM CaptureAdmitsLosses == Spec => []LossIsAdmitted
  <1>1. ASSUME CaptureInv PROVE EveryGapAdmitted
    <2>1. CaptureTypeOK /\ GapsInv
      BY <1>1 DEF CaptureInv, SlotsConserved, StreamInv
    <2> SUFFICES ASSUME NEW i \in 1 .. Len(taken)
                 PROVE  taken[i].delta
                            = Saturate(taken[i].n
                                         - (IF i = 1 THEN 0 ELSE taken[i - 1].n) - 1)
      BY <2>1, TakenIsAccepted DEF EveryGapAdmitted
    <2>2. Before(Accepted, i) = IF i = 1 THEN 0 ELSE taken[i - 1].n
      <3>1. i # 1 => i - 1 \in 1 .. Len(taken)
        BY <2>1 DEF CaptureTypeOK
      <3> QED
        BY <2>1, <3>1, TakenIsAccepted DEF Before
    <2> QED
      BY <2>1, <2>2, TakenIsAccepted DEF GapsInv
  <1>2. CaptureInv => LossIsAdmitted
    BY <1>1 DEF CaptureInv, LossIsAdmitted
  <1> QED
    BY <1>2, CaptureInvariant, PTL

(* A certain anchor is the trailer of the window just before, which was    *)
(* stored; without a panic nothing was taken between the two.              *)
THEOREM CaptureAnchorsAdjoin == Spec => []CertainIsAdjacent
  <1>1. ASSUME CaptureInv PROVE CertainIsAdjacent
    <2> SUFFICES ASSUME NEW w \in Stored, windows[w].certain
                 PROVE  /\ w - 1 \in Stored /\ windows[w - 1].seq + 1 = windows[w].seq
                        /\ panics = 0 => Lost(LastOf(w - 1), FirstOf(w)) = {}
      BY DEF CertainIsAdjacent
    <2>1. DOMAIN windows = 1 .. Len(windows) /\ Len(windows) \in Nat
      BY <1>1 DEF CaptureInv, RowsInv
    <2>2. w \in 2 .. Len(windows) /\ windows[w - 1].fate = "stored"
      BY <1>1, <2>1 DEF CaptureInv, CertainInv, Stored
    <2>3. w - 1 \in 1 .. Len(windows)
      BY <2>1, <2>2
    <2>4. windows[w - 1].seq + 1 = windows[w].seq
      BY <1>1, <2>1, <2>2, <2>3 DEF CaptureInv, RowsInv
    <2>5. ASSUME panics = 0 PROVE Lost(LastOf(w - 1), FirstOf(w)) = {}
      <3>1. Adjoin(LastOf(w - 1), FirstOf(w))
        BY <1>1, <2>2, <2>5 DEF CaptureInv, AdjoinInv
      <3>2. DOMAIN taken = 1 .. Len(taken)
        BY <1>1, TakenIsAccepted DEF CaptureInv, SlotsConserved
      <3> QED
        BY <3>1, <3>2 DEF Lost, Adjoin, ToSet
    <2> QED
      BY <2>1, <2>2, <2>3, <2>4, <2>5 DEF Stored
  <1>2. CaptureInv => CertainIsAdjacent
    BY <1>1
  <1> QED
    BY <1>2, CaptureInvariant, PTL
=============================================================================
