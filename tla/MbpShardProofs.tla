--------------------------- MODULE MbpShardProofs ----------------------------
(***************************************************************************)
(* Proofs about MbpShard: its invariants hold for every number of          *)
(* instruments, every window and budget, and whatever records arrive.      *)
(***************************************************************************)
EXTENDS MbpShard, SequenceTheorems, FiniteSetTheorems, WellFoundedInduction, TLAPS

-----------------------------------------------------------------------------
(* Two facts about sets of naturals.                                       *)

(* Every non-empty set of naturals has a least element, which is how the   *)
(* proofs argue by induction: from a least counterexample.                 *)
LEMMA LeastNatural ==
    ASSUME NEW T \in SUBSET Nat, T # {}
    PROVE  \E n \in T : \A m \in T : n <= m
  <1>1. PICK n \in T : \A m \in T : ~ (<<m, n>> \in OpToRel(<, Nat))
    BY NatLessThanWellFounded, WFMin
  <1>2. \A m \in T : ~ (m < n)
    BY <1>1 DEF OpToRel
  <1> QED BY <1>2

(* A finite non-empty set of naturals has a largest element.               *)
LEMMA FiniteMax ==
    ASSUME NEW S, IsFiniteSet(S), S \subseteq Nat, S # {}
    PROVE  \E m \in S : \A x \in S : x <= m
  <1> DEFINE HasMax(U) == \E m \in U : \A x \in U : x <= m
             B == {n \in Nat : \E U \in SUBSET S :
                      U # {} /\ Cardinality(U) = n /\ ~HasMax(U)}
  <1> SUFFICES ASSUME ~HasMax(S) PROVE FALSE
    OBVIOUS
  <1>1. Cardinality(S) \in B
    BY FS_CardinalityType
  <1>2. PICK n \in B : \A m \in B : n <= m
    <2>1. B \in SUBSET Nat /\ B # {}
      BY <1>1
    <2> HIDE DEF B
    <2> QED BY <2>1, LeastNatural
  <1>3. PICK U \in SUBSET S : U # {} /\ Cardinality(U) = n /\ ~HasMax(U)
    BY DEF HasMax
  <1>4. PICK u \in U : TRUE
    BY <1>3
  <1> DEFINE V == U \ {u}
  <1>5. IsFiniteSet(U)
    BY FS_Subset
  <1>6. Cardinality(V) = n - 1 /\ IsFiniteSet(V)
    BY <1>3, <1>4, <1>5, FS_RemoveElement
  <1>7. V # {}
    <2> SUFFICES ASSUME V = {} PROVE FALSE
      OBVIOUS
    <2>1. U = {u} /\ u \in Nat
      BY <1>4
    <2>2. HasMax(U)
      BY <2>1
    <2> QED BY <2>2, <1>3
  <1>8. n - 1 \notin B /\ n - 1 \in Nat
    <2>1. n - 1 \in Nat
      BY <1>6, FS_CardinalityType
    <2>2. ~(n <= n - 1)
      BY <2>1
    <2> QED BY <1>2, <2>1, <2>2
  <1>9. HasMax(V)
    BY <1>6, <1>7, <1>8
  <1>10. HasMax(U)
    <2>1. PICK m \in V : \A x \in V : x <= m
      BY <1>9
    <2>2. CASE u <= m
      <3>1. \A x \in U : x <= m
        BY <2>1, <2>2
      <3> QED BY <3>1, <2>1
    <2>3. CASE ~(u <= m)
      <3>1. u \in Nat /\ m \in Nat /\ \A x \in V : x \in Nat
        BY <1>4
      <3>2. \A x \in U : x <= u
        BY <2>1, <2>3, <3>1
      <3> QED BY <3>2, <1>4
    <2> QED BY <2>2, <2>3
  <1> QED BY <1>3, <1>10

-----------------------------------------------------------------------------
(* Types of the parameters, as the other proofs use them.                  *)

LEMMA SeqNumType == MktdataSeqs \subseteq Nat /\ InstrumentSeqs \subseteq Nat \ {0}
  BY ShardAssumption

LEMMA DeltaType ==
    ASSUME NEW d \in Delta
    PROVE  d.inst \in Inst /\ d.mkt \in Nat /\ d.pi \in Nat \ {0} /\ d.op \in Ops
  <1>1. d.inst \in Inst /\ d.mkt \in MktdataSeqs /\ d.pi \in InstrumentSeqs /\ d.op \in Ops
    BY DEF Delta
  <1> QED BY <1>1, SeqNumType

LEMMA BufferType ==
    ASSUME NEW buf \in Seq(Delta)
    PROVE  /\ Len(buf) \in Nat
           /\ \A j \in 1 .. Len(buf) :
                buf[j] \in Delta /\ buf[j].mkt \in Nat /\ buf[j].pi \in Nat
  BY LenProperties, ElementOfSeq, DeltaType

-----------------------------------------------------------------------------
(* Sequences: the sorted insert and the suffix a reset keeps.              *)

(* InsertAfter yields a sequence one longer, d in place n + 1.             *)
LEMMA InsertAfterType ==
    ASSUME NEW S, NEW buf \in Seq(S), NEW n \in 0 .. Len(buf), NEW d \in S
    PROVE  /\ InsertAfter(buf, n, d) \in Seq(S)
           /\ Len(InsertAfter(buf, n, d)) = Len(buf) + 1
           /\ InsertAfter(buf, n, d) # <<>>
           /\ \A j \in 1 .. Len(buf) + 1 :
                InsertAfter(buf, n, d)[j] =
                    IF j <= n THEN buf[j] ELSE IF j = n + 1 THEN d ELSE buf[j - 1]
  <1>1. Len(buf) \in Nat /\ \A j \in 1 .. Len(buf) : buf[j] \in S
    BY LenProperties, ElementOfSeq
  <1>2. InsertAfter(buf, n, d) \in [1 .. Len(buf) + 1 -> S]
    BY <1>1 DEF InsertAfter
  <1>3. InsertAfter(buf, n, d) \in Seq(S)
    BY <1>1, <1>2, SeqDef
  <1>4. Len(InsertAfter(buf, n, d)) = Len(buf) + 1
    <2>1. DOMAIN InsertAfter(buf, n, d) = 1 .. Len(buf) + 1
      BY <1>2
    <2>2. DOMAIN InsertAfter(buf, n, d) = 1 .. Len(InsertAfter(buf, n, d))
      BY <1>3, LenProperties
    <2>3. Len(InsertAfter(buf, n, d)) \in Nat
      BY <1>3, LenProperties
    <2> QED BY <1>1, <2>1, <2>2, <2>3
  <1>5. InsertAfter(buf, n, d) # <<>>
    BY <1>1, <1>4, EmptySeq
  <1> QED BY <1>1, <1>3, <1>4, <1>5 DEF InsertAfter

(* The buffer is in datagram order.                                        *)
Sorted(buf) == \A m, n \in 1 .. Len(buf) : m <= n => buf[m].mkt <= buf[n].mkt

LEMMA InsertAfterSorted ==
    ASSUME NEW buf \in Seq(Delta), NEW n \in 0 .. Len(buf), NEW d \in Delta,
           Sorted(buf), SplitsAt(buf, n, d.mkt)
    PROVE  Sorted(InsertAfter(buf, n, d))
  <1>1. Len(buf) \in Nat /\ d.mkt \in Nat
    BY BufferType, DeltaType
  <1>2. \A j \in 1 .. Len(buf) : buf[j].mkt \in Nat
    BY BufferType
  <1> DEFINE new == InsertAfter(buf, n, d)
  <1>3. /\ Len(new) = Len(buf) + 1
        /\ \A j \in 1 .. Len(buf) + 1 :
              new[j] = IF j <= n THEN buf[j] ELSE IF j = n + 1 THEN d ELSE buf[j - 1]
    BY InsertAfterType
  <1> SUFFICES ASSUME NEW p \in 1 .. Len(new), NEW q \in 1 .. Len(new), p <= q
               PROVE  new[p].mkt <= new[q].mkt
    BY DEF Sorted
  <1> HIDE DEF new
  <1>4. \A j \in 1 .. n : new[j] = buf[j] /\ buf[j].mkt <= d.mkt
    BY <1>1, <1>3 DEF SplitsAt
  <1>5. new[n + 1] = d
    BY <1>1, <1>3
  <1>6. \A j \in n + 2 .. Len(buf) + 1 :
            new[j] = buf[j - 1] /\ buf[j - 1].mkt > d.mkt
    BY <1>1, <1>3 DEF SplitsAt
  <1>7. CASE q <= n
    BY <1>1, <1>3, <1>4, <1>7 DEF Sorted
  <1>8. CASE q = n + 1
    BY <1>1, <1>3, <1>4, <1>5, <1>8
  <1>9. CASE q > n + 1
    <2>1. CASE p <= n
      <3>1. new[p] = buf[p] /\ buf[p].mkt <= d.mkt /\ p \in 1 .. Len(buf)
        BY <1>1, <1>4, <2>1
      <3>2. new[q] = buf[q - 1] /\ buf[q - 1].mkt > d.mkt /\ q - 1 \in 1 .. Len(buf)
        BY <1>1, <1>3, <1>6, <1>9
      <3>3. buf[p].mkt <= buf[q - 1].mkt
        BY <1>1, <1>2, <3>1, <3>2
      <3> QED BY <3>1, <3>2, <3>3
    <2>2. CASE p = n + 1
      BY <1>1, <1>2, <1>3, <1>5, <1>6, <1>9, <2>2, SMTT(30)
    <2>3. CASE p > n + 1
      <3>1. new[p] = buf[p - 1] /\ new[q] = buf[q - 1]
        BY <1>1, <1>3, <1>6, <1>9, <2>3
      <3>2. p - 1 \in 1 .. Len(buf) /\ q - 1 \in 1 .. Len(buf) /\ p - 1 <= q - 1
        BY <1>1, <1>3, <1>9, <2>3
      <3>3. buf[p - 1].mkt <= buf[q - 1].mkt
        BY <3>2 DEF Sorted
      <3> QED BY <3>1, <3>3
    <2> QED BY <1>1, <1>3, <2>1, <2>2, <2>3
  <1> QED BY <1>1, <1>3, <1>7, <1>8, <1>9

LEMMA SuffixProperties ==
    ASSUME NEW buf \in Seq(Delta), NEW n \in 0 .. Len(buf)
    PROVE  /\ SubSeq(buf, n + 1, Len(buf)) \in Seq(Delta)
           /\ Len(SubSeq(buf, n + 1, Len(buf))) = Len(buf) - n
           /\ \A j \in 1 .. Len(buf) - n :
                SubSeq(buf, n + 1, Len(buf))[j] = buf[n + j]
  <1>1. Len(buf) \in Nat /\ \A j \in 1 .. Len(buf) : buf[j] \in Delta
    BY LenProperties, ElementOfSeq
  <1>2. \A j \in n + 1 .. Len(buf) : buf[j] \in Delta
    BY <1>1
  <1>3. /\ SubSeq(buf, n + 1, Len(buf)) \in Seq(Delta)
        /\ Len(SubSeq(buf, n + 1, Len(buf))) =
              IF n + 1 <= Len(buf) THEN Len(buf) - (n + 1) + 1 ELSE 0
        /\ \A i \in 1 .. Len(buf) - (n + 1) + 1 :
              SubSeq(buf, n + 1, Len(buf))[i] = buf[(n + 1) + i - 1]
    BY <1>1, <1>2, SubSeqProperties
  <1>4. Len(buf) - (n + 1) + 1 = Len(buf) - n
    BY <1>1
  <1>5. ASSUME NEW j \in 1 .. Len(buf) - n
        PROVE  SubSeq(buf, n + 1, Len(buf))[j] = buf[n + j]
    <2>1. j \in 1 .. Len(buf) - (n + 1) + 1
      BY <1>1, <1>4
    <2>2. (n + 1) + j - 1 = n + j
      BY <1>1
    <2> QED BY <1>3, <2>1, <2>2
  <1>6. Len(SubSeq(buf, n + 1, Len(buf))) = Len(buf) - n
    BY <1>1, <1>3
  <1> QED BY <1>3, <1>5, <1>6

LEMMA SuffixSorted ==
    ASSUME NEW buf \in Seq(Delta), NEW n \in 0 .. Len(buf), Sorted(buf)
    PROVE  Sorted(SubSeq(buf, n + 1, Len(buf)))
  <1> DEFINE new == SubSeq(buf, n + 1, Len(buf))
  <1>1. Len(buf) \in Nat
    BY LenProperties
  <1>2. Len(new) = Len(buf) - n /\ \A j \in 1 .. Len(buf) - n : new[j] = buf[n + j]
    BY SuffixProperties
  <1> HIDE DEF new
  <1>3. Sorted(new)
    BY <1>1, <1>2 DEF Sorted
  <1> QED BY <1>3 DEF new

-----------------------------------------------------------------------------
(* Counting: the number of buffered deltas, and how a change of one        *)
(* instrument's buffer moves it.                                           *)

LEMMA SlotsFinite ==
    ASSUME NEW buf \in [Inst -> Seq(Delta)], NEW S \in SUBSET Inst
    PROVE  IsFiniteSet(Slots(buf, S))
  <1>1. IsFiniteSet(S)
    BY FS_Subset, ShardAssumption
  <1> DEFINE f == [k \in S |-> {k} \X (1 .. Len(buf[k]))]
  <1>2. IsFiniteSet({f[k] : k \in S})
    <2> DEFINE T == {f[k] : k \in S}
    <2>1. f \in [S -> T] /\ \A t \in T : \E k \in S : f[k] = t
      OBVIOUS
    <2>2. f \in Surjection(S, T)
      BY <2>1 DEF Surjection
    <2> HIDE DEF f, T
    <2>3. IsFiniteSet(T)
      BY <1>1, <2>2, FS_Surjection
    <2> QED BY <2>3 DEF T
  <1>3. \A k \in S : IsFiniteSet(f[k])
    <2> SUFFICES ASSUME NEW k \in S PROVE IsFiniteSet({k} \X (1 .. Len(buf[k])))
      OBVIOUS
    <2>1. Len(buf[k]) \in Nat
      BY LenProperties
    <2>2. IsFiniteSet(1 .. Len(buf[k]))
      BY <2>1, FS_Interval
    <2>3. IsFiniteSet({k})
      BY FS_Singleton
    <2> QED BY <2>2, <2>3, FS_Product
  <1>4. IsFiniteSet(UNION {f[k] : k \in S})
    BY <1>2, <1>3, FS_UNION
  <1> QED BY <1>4 DEF Slots

LEMMA SlotsOfOne ==
    ASSUME NEW buf \in [Inst -> Seq(Delta)], NEW k \in Inst
    PROVE  Cardinality(Slots(buf, {k})) = Len(buf[k])
  <1>1. Len(buf[k]) \in Nat
    BY LenProperties
  <1>2. IsFiniteSet({k}) /\ Cardinality({k}) = 1
    BY FS_Singleton
  <1>3. PICK n \in Nat : n = Len(buf[k])
    BY <1>1
  <1>4. Slots(buf, {k}) = {k} \X (1 .. n)
    <2>1. {{j} \X (1 .. Len(buf[j])) : j \in {k}} = {{k} \X (1 .. n)}
      BY <1>3
    <2> QED BY <2>1 DEF Slots
  <1>5. IsFiniteSet(1 .. n) /\ Cardinality(1 .. n) = IF 1 > n THEN 0 ELSE n - 1 + 1
    BY FS_Interval
  <1>6. Cardinality(1 .. n) = n
    BY <1>5
  <1>7. Cardinality({k} \X (1 .. n)) = Cardinality({k}) * Cardinality(1 .. n)
    BY <1>2, <1>5, FS_Product
  <1>8. 1 * n = n
    OBVIOUS
  <1> QED BY <1>2, <1>3, <1>4, <1>6, <1>7, <1>8

LEMMA SlotsMember ==
    ASSUME NEW buf, NEW S, NEW x
    PROVE  x \in Slots(buf, S) <=> \E k \in S : \E n \in 1 .. Len(buf[k]) : x = <<k, n>>
  BY DEF Slots

LEMMA SlotsSplit ==
    ASSUME NEW buf \in [Inst -> Seq(Delta)],
           NEW S \in SUBSET Inst, NEW T \in SUBSET Inst, NEW U,
           U = S \cup T, S \cap T = {}
    PROVE  /\ Cardinality(Slots(buf, S)) \in Nat
           /\ Cardinality(Slots(buf, T)) \in Nat
           /\ Cardinality(Slots(buf, U)) =
                Cardinality(Slots(buf, S)) + Cardinality(Slots(buf, T))
  <1>1. IsFiniteSet(Slots(buf, S)) /\ IsFiniteSet(Slots(buf, T))
    BY SlotsFinite
  <1>2. Slots(buf, S \cup T) = Slots(buf, S) \cup Slots(buf, T)
    BY SlotsMember
  <1>3. Slots(buf, S) \cap Slots(buf, T) = {}
    <2> SUFFICES ASSUME NEW x \in Slots(buf, S), x \in Slots(buf, T) PROVE FALSE
      OBVIOUS
    <2>1. PICK k \in S : \E n \in 1 .. Len(buf[k]) : x = <<k, n>>
      BY SlotsMember
    <2>2. PICK l \in T : \E n \in 1 .. Len(buf[l]) : x = <<l, n>>
      BY SlotsMember
    <2> QED BY <2>1, <2>2
  <1>4. /\ Cardinality(Slots(buf, S)) \in Nat /\ Cardinality(Slots(buf, T)) \in Nat
        /\ Cardinality(Slots(buf, S) \cap Slots(buf, T)) = 0
    BY <1>1, <1>3, FS_CardinalityType, FS_EmptySet
  <1>5. Cardinality(Slots(buf, S) \cup Slots(buf, T)) =
            Cardinality(Slots(buf, S)) + Cardinality(Slots(buf, T))
            - Cardinality(Slots(buf, S) \cap Slots(buf, T))
    BY <1>1, FS_Union
  <1>6. PICK a \in Nat, b \in Nat :
            a = Cardinality(Slots(buf, S)) /\ b = Cardinality(Slots(buf, T))
    BY <1>4
  <1>7. Cardinality(Slots(buf, S) \cup Slots(buf, T)) = a + b - 0
    BY <1>4, <1>5, <1>6
  <1>8. a + b - 0 = a + b
    OBVIOUS
  <1> QED BY <1>2, <1>6, <1>7, <1>8

LEMMA SlotsAgree ==
    ASSUME NEW buf, NEW new, NEW S, \A k \in S : Len(new[k]) = Len(buf[k])
    PROVE  Slots(new, S) = Slots(buf, S)
  <1>1. \A x : x \in Slots(new, S) <=> x \in Slots(buf, S)
    BY SlotsMember
  <1> QED BY <1>1

(* Replacing one buffer moves the total by the difference of the lengths.  *)
LEMMA SlotsSet ==
    ASSUME NEW buf \in [Inst -> Seq(Delta)], NEW k \in Inst, NEW b \in Seq(Delta)
    PROVE  Cardinality(Slots([buf EXCEPT ![k] = b], Inst)) =
               Cardinality(Slots(buf, Inst)) - Len(buf[k]) + Len(b)
  <1> DEFINE new == [buf EXCEPT ![k] = b]
  <1>1. new \in [Inst -> Seq(Delta)] /\ new[k] = b /\ \A l \in Inst \ {k} : new[l] = buf[l]
    OBVIOUS
  <1> HIDE DEF new
  <1>2. Inst = (Inst \ {k}) \cup {k} /\ (Inst \ {k}) \cap {k} = {}
        /\ Inst \ {k} \in SUBSET Inst /\ {k} \in SUBSET Inst
    OBVIOUS
  <1>3. Cardinality(Slots(buf, Inst)) =
            Cardinality(Slots(buf, Inst \ {k})) + Cardinality(Slots(buf, {k}))
    BY ONLY <1>2, buf \in [Inst -> Seq(Delta)], SlotsSplit
  <1>4. Cardinality(Slots(new, Inst)) =
            Cardinality(Slots(new, Inst \ {k})) + Cardinality(Slots(new, {k}))
    BY ONLY <1>1, <1>2, SlotsSplit
  <1>5. Slots(new, Inst \ {k}) = Slots(buf, Inst \ {k})
    BY <1>1, SlotsAgree
  <1>6. Cardinality(Slots(buf, {k})) = Len(buf[k]) /\ Cardinality(Slots(new, {k})) = Len(b)
    BY <1>1, SlotsOfOne
  <1>7. Cardinality(Slots(buf, Inst \ {k})) \in Nat /\ Len(buf[k]) \in Nat /\ Len(b) \in Nat
    <2>1. Cardinality(Slots(buf, Inst \ {k})) \in Nat
      BY ONLY <1>2, buf \in [Inst -> Seq(Delta)], SlotsSplit
    <2> QED BY <2>1, LenProperties
  <1>8. Cardinality(Slots(new, Inst)) = Cardinality(Slots(buf, Inst)) - Len(buf[k]) + Len(b)
    BY <1>3, <1>4, <1>5, <1>6, <1>7
  <1> QED BY <1>8 DEF new

(* Emptying the buffers of a set of instruments removes exactly theirs.    *)
LEMMA SlotsForget ==
    ASSUME NEW buf \in [Inst -> Seq(Delta)], NEW gone \in SUBSET Inst,
           NEW new, new = [k \in Inst |-> IF k \in gone THEN <<>> ELSE buf[k]]
    PROVE  Cardinality(Slots(new, Inst)) =
               Cardinality(Slots(buf, Inst)) - Cardinality(Slots(buf, gone))
  <1>1. Inst = (Inst \ gone) \cup gone /\ (Inst \ gone) \cap gone = {}
        /\ Inst \ gone \in SUBSET Inst
    OBVIOUS
  <1>2. /\ Cardinality(Slots(buf, Inst)) =
              Cardinality(Slots(buf, Inst \ gone)) + Cardinality(Slots(buf, gone))
        /\ Cardinality(Slots(buf, Inst \ gone)) \in Nat
        /\ Cardinality(Slots(buf, gone)) \in Nat
    BY ONLY <1>1, buf \in [Inst -> Seq(Delta)], gone \in SUBSET Inst, SlotsSplit
  <1>3. Slots(new, Inst) = Slots(buf, Inst \ gone)
    <2>1. \A k \in Inst \ gone : new[k] = buf[k]
      OBVIOUS
    <2>2. \A k \in gone : new[k] = <<>> /\ Len(new[k]) = 0
      BY EmptySeq
    <2>3. \A x : x \in Slots(new, Inst) => x \in Slots(buf, Inst \ gone)
      <3> SUFFICES ASSUME NEW x, NEW k \in Inst, NEW n \in 1 .. Len(new[k]), x = <<k, n>>
                   PROVE  x \in Slots(buf, Inst \ gone)
        BY SlotsMember
      <3>1. k \notin gone
        <4> SUFFICES ASSUME k \in gone PROVE FALSE
          OBVIOUS
        <4>1. Len(new[k]) = 0
          BY ONLY <2>2, k \in gone
        <4>2. n \in 1 .. 0
          BY ONLY <4>1, n \in 1 .. Len(new[k])
        <4> QED BY ONLY <4>2
      <3> QED BY <3>1, <2>1, SlotsMember
    <2>4. \A x : x \in Slots(buf, Inst \ gone) => x \in Slots(new, Inst)
      BY <2>1, SlotsMember
    <2> QED BY <2>3, <2>4
  <1> QED BY <1>2, <1>3

-----------------------------------------------------------------------------
(* One instrument: the part of the invariant that is about its record, and *)
(* how each method of Instrument preserves it.                             *)

InstOK(k, i) ==
    /\ i \in Instrument
    /\ \A n \in i.LostInstrumentSeq : n > 0 /\ n <= i.RequiredInstrumentSeq
    /\ i.Status = "ready" => i.LostInstrumentSeq = {} /\ i.RequiredInstrumentSeq = 0
    /\ i.Status = "gap" => i.RequiredInstrumentSeq > i.LastAppliedInstrumentSeq
    /\ i.Pending # {} => i.Status = "ready"
    /\ IsFiniteSet(i.Pending) /\ Cardinality(i.Pending) <= ReorderWindow
    /\ \A p, q \in i.Pending : p.pi = q.pi => p = q
    /\ \A p \in i.Pending :
          p.inst = k /\ ~Malformed(p.op) /\ p.pi > i.LastAppliedInstrumentSeq

LEMMA InstrumentType ==
    ASSUME NEW i \in Instrument
    PROVE  /\ i.Status \in {"awaiting", "ready", "gap"} /\ i.Book \in Book
           /\ i.LastAppliedMktdataSeq \in Nat /\ i.LastAppliedInstrumentSeq \in Nat
           /\ i.RequiredAnchorSeq \in Nat /\ i.RequiredInstrumentSeq \in Nat
           /\ i.OpenSnapshot \subseteq PendingSnapshot /\ i.Pending \subseteq Delta
           /\ i.LostInstrumentSeq \subseteq Nat
  BY DEF Instrument

LEMMA NextExpectedOfReady ==
    ASSUME NEW i \in Instrument, i.LostInstrumentSeq = {}
    PROVE  NextExpectedInstrumentSeq(i) = i.LastAppliedInstrumentSeq + 1
  <1>1. i.LastAppliedInstrumentSeq \in Nat
    BY InstrumentType
  <1>2. Cardinality(i.LostInstrumentSeq) = 0
    BY FS_EmptySet
  <1> DEFINE n == i.LastAppliedInstrumentSeq + 1
  <1>3. n .. n + Cardinality(i.LostInstrumentSeq) = {n}
    BY <1>1, <1>2
  <1> QED BY <1>1, <1>3 DEF NextExpectedInstrumentSeq

LEMMA EmptyBookType == EmptyBook \in Book
  BY DEF EmptyBook, Book

LEMMA ApplyOpType ==
    ASSUME NEW b \in Book, NEW op \in Ops
    PROVE  ApplyOp(b, op) \in Book
  <1>1. op \in Op
    BY ShardAssumption
  <1>2. CASE op \in LevelUpdateOp
    <2>1. op.side \in Side /\ op.price \in Price /\ op.qty \in Qty \cup {0}
          /\ op.type = "level_update"
      BY <1>2 DEF LevelUpdateOp
    <2> QED BY <2>1 DEF ApplyOp, ApplyLevelUpdate, Book
  <1>3. CASE op \in BookClearOp
    <2>1. op.type = "book_clear"
      BY <1>3 DEF BookClearOp
    <2> QED BY <2>1 DEF ApplyOp, ApplyBookClear, Book
  <1> QED BY <1>1, <1>2, <1>3 DEF Op

(* RequireSnapshotAtLeast raises the requirement to at least seq.          *)
LEMMA RequireType ==
    ASSUME NEW i \in Instrument, NEW seq \in Nat
    PROVE  /\ RequireSnapshotAtLeast(i, seq) \in Instrument
           /\ RequireSnapshotAtLeast(i, seq).RequiredInstrumentSeq >= seq
           /\ RequireSnapshotAtLeast(i, seq).RequiredInstrumentSeq >= i.RequiredInstrumentSeq
           /\ RequireSnapshotAtLeast(i, seq).Status = i.Status
           /\ RequireSnapshotAtLeast(i, seq).Pending = i.Pending
           /\ RequireSnapshotAtLeast(i, seq).LostInstrumentSeq = i.LostInstrumentSeq
           /\ RequireSnapshotAtLeast(i, seq).LastAppliedInstrumentSeq = i.LastAppliedInstrumentSeq
           /\ RequireSnapshotAtLeast(i, seq).OpenSnapshot = i.OpenSnapshot
  BY DEF RequireSnapshotAtLeast, Instrument

LEMMA MaxPiType ==
    ASSUME NEW low \in Nat, NEW S \in SUBSET Nat, IsFiniteSet(S)
    PROVE  MaxPi(low, S) \in Nat /\ MaxPi(low, S) >= low
  <1>1. IsFiniteSet({low} \cup S)
    BY FS_Singleton, FS_Union
  <1>2. \E m \in {low} \cup S : \A x \in {low} \cup S : x <= m
    BY <1>1, FiniteMax
  <1> QED BY <1>2 DEF MaxPi

LEMMA FinitePis ==
    ASSUME NEW buf \in Seq(Delta)
    PROVE  IsFiniteSet({buf[j].pi : j \in 1 .. Len(buf)})
           /\ {buf[j].pi : j \in 1 .. Len(buf)} \in SUBSET Nat
  <1>1. Len(buf) \in Nat /\ \A j \in 1 .. Len(buf) : buf[j].pi \in Nat
    BY BufferType
  <1> DEFINE T == {buf[j].pi : j \in 1 .. Len(buf)}
             f == [j \in 1 .. Len(buf) |-> buf[j].pi]
  <1>2. f \in Surjection(1 .. Len(buf), T)
    BY DEF Surjection
  <1>3. IsFiniteSet(1 .. Len(buf))
    BY <1>1, FS_Interval
  <1> HIDE DEF f
  <1>4. IsFiniteSet(T)
    BY <1>2, <1>3, FS_Surjection
  <1> QED BY <1>1, <1>4

(* A demotion: to gap, the window dropped, the requirement raised past the *)
(* tracker, one more number possibly lost.                                 *)
LEMMA EmptyWindow == IsFiniteSet({}) /\ Cardinality({}) <= ReorderWindow
  <1>1. ReorderWindow \in Nat
    BY ShardAssumption
  <1>2. IsFiniteSet({}) /\ Cardinality({}) = 0
    BY FS_EmptySet
  <1> QED BY <1>1, <1>2

LEMMA DemotedOK ==
    ASSUME NEW k \in Inst, NEW g \in Instrument, NEW seq \in Nat,
           g.Status = "gap", g.Pending = {}, seq > g.LastAppliedInstrumentSeq,
           \A n \in g.LostInstrumentSeq :
               n > 0 /\ (n <= g.RequiredInstrumentSeq \/ n <= seq)
    PROVE  /\ InstOK(k, RequireSnapshotAtLeast(g, seq))
           /\ RequireSnapshotAtLeast(g, seq).Status = "gap"
           /\ RequireSnapshotAtLeast(g, seq).Pending = {}
  <1> DEFINE j == RequireSnapshotAtLeast(g, seq)
  <1>1. /\ j \in Instrument /\ j.Status = "gap" /\ j.Pending = {}
        /\ j.LostInstrumentSeq = g.LostInstrumentSeq
        /\ j.RequiredInstrumentSeq >= seq
        /\ j.RequiredInstrumentSeq >= g.RequiredInstrumentSeq
        /\ j.LastAppliedInstrumentSeq = g.LastAppliedInstrumentSeq
    BY RequireType
  <1>2. /\ j.RequiredInstrumentSeq \in Nat /\ g.RequiredInstrumentSeq \in Nat
        /\ g.LastAppliedInstrumentSeq \in Nat /\ g.LostInstrumentSeq \subseteq Nat
    BY <1>1, InstrumentType
  <1> HIDE DEF j
  <1>3. \A n \in j.LostInstrumentSeq : n > 0 /\ n <= j.RequiredInstrumentSeq
    BY <1>1, <1>2
  <1>4. IsFiniteSet(j.Pending) /\ Cardinality(j.Pending) <= ReorderWindow
    BY <1>1, EmptyWindow
  <1>5. j.RequiredInstrumentSeq > j.LastAppliedInstrumentSeq /\ j.Status # "ready"
    BY <1>1, <1>2
  <1>6. InstOK(k, j)
    BY <1>1, <1>3, <1>4, <1>5, Zenon DEF InstOK
  <1> QED BY <1>1, <1>6 DEF j

LEMMA EvictedOK ==
    ASSUME NEW k \in Inst, NEW i, InstOK(k, i), NEW buf \in Seq(Delta)
    PROVE  InstOK(k, Evicted(i, buf)) /\ Evicted(i, buf).Status = "gap"
           /\ Evicted(i, buf).Pending = {}
  <1> DEFINE g == [i EXCEPT !.Status = "gap", !.Pending = {}]
             seq == MaxPi(i.LastAppliedInstrumentSeq + 1, {buf[j].pi : j \in 1 .. Len(buf)})
  <1>1. i \in Instrument /\ i.LastAppliedInstrumentSeq \in Nat
    BY InstrumentType DEF InstOK
  <1>2. /\ g \in Instrument /\ g.Status = "gap" /\ g.Pending = {}
        /\ g.LostInstrumentSeq = i.LostInstrumentSeq
        /\ g.RequiredInstrumentSeq = i.RequiredInstrumentSeq
        /\ g.LastAppliedInstrumentSeq = i.LastAppliedInstrumentSeq
    BY <1>1 DEF Instrument
  <1>3. i.LastAppliedInstrumentSeq + 1 \in Nat
    BY <1>1
  <1>4. seq \in Nat /\ seq >= i.LastAppliedInstrumentSeq + 1
    BY <1>3, FinitePis, MaxPiType
  <1>5. Evicted(i, buf) = RequireSnapshotAtLeast(g, seq)
    BY DEF Evicted
  <1> HIDE DEF g, seq
  <1>6. seq > g.LastAppliedInstrumentSeq
    BY <1>1, <1>2, <1>4
  <1>7. \A n \in g.LostInstrumentSeq : n > 0 /\ n <= g.RequiredInstrumentSeq
    BY <1>2 DEF InstOK
  <1> QED BY <1>2, <1>4, <1>5, <1>6, <1>7, DemotedOK

(* An instrument whose window is empty only has its record and its         *)
(* requirement to answer for.                                              *)
LEMMA NoWindowOK ==
    ASSUME NEW k \in Inst, NEW i \in Instrument, i.Pending = {},
           \A n \in i.LostInstrumentSeq : n > 0 /\ n <= i.RequiredInstrumentSeq,
           i.Status = "ready" => i.LostInstrumentSeq = {} /\ i.RequiredInstrumentSeq = 0,
           i.Status = "gap" => i.RequiredInstrumentSeq > i.LastAppliedInstrumentSeq
    PROVE  InstOK(k, i)
  BY EmptyWindow, Zenon DEF InstOK

LEMMA NewOK ==
    ASSUME NEW k \in Inst
    PROVE  InstOK(k, NewInstrument)
  <1>1. /\ NewInstrument \in Instrument /\ NewInstrument.Pending = {}
        /\ NewInstrument.LostInstrumentSeq = {} /\ NewInstrument.Status = "awaiting"
    BY EmptyBookType DEF NewInstrument, Instrument
  <1> HIDE DEF NewInstrument
  <1>2. NewInstrument.Status # "ready" /\ NewInstrument.Status # "gap"
    BY <1>1
  <1>3. \A n \in NewInstrument.LostInstrumentSeq :
            n > 0 /\ n <= NewInstrument.RequiredInstrumentSeq
    BY <1>1
  <1> QED BY <1>1, <1>2, <1>3, NoWindowOK

LEMMA ResetOK ==
    ASSUME NEW k \in Inst, NEW anchor \in Nat
    PROVE  /\ InstOK(k, ResetInstrument(anchor))
           /\ ResetInstrument(anchor).Pending = {}
           /\ ResetInstrument(anchor).Status = "awaiting"
  <1> DEFINE i == ResetInstrument(anchor)
  <1>1. /\ i \in Instrument /\ i.Pending = {}
        /\ i.LostInstrumentSeq = {} /\ i.Status = "awaiting"
    BY EmptyBookType DEF NewInstrument, Instrument, ResetInstrument
  <1> HIDE DEF i
  <1>2. i.Status # "ready" /\ i.Status # "gap"
    BY <1>1
  <1>3. \A n \in i.LostInstrumentSeq : n > 0 /\ n <= i.RequiredInstrumentSeq
    BY <1>1
  <1>4. InstOK(k, i)
    BY <1>1, <1>2, <1>3, NoWindowOK
  <1> QED BY <1>1, <1>4 DEF i

(* Changing the shadow alone.                                              *)
LEMMA ShadowOK ==
    ASSUME NEW k \in Inst, NEW i, InstOK(k, i), NEW sh \in SUBSET PendingSnapshot
    PROVE  /\ InstOK(k, [i EXCEPT !.OpenSnapshot = sh])
           /\ [i EXCEPT !.OpenSnapshot = sh].Status = i.Status
           /\ [i EXCEPT !.OpenSnapshot = sh].Pending = i.Pending
           /\ NextExpectedInstrumentSeq([i EXCEPT !.OpenSnapshot = sh])
                = NextExpectedInstrumentSeq(i)
  <1> DEFINE j == [i EXCEPT !.OpenSnapshot = sh]
  <1>1. i \in Instrument
    BY DEF InstOK
  <1>2. /\ j \in Instrument /\ j.Status = i.Status /\ j.Pending = i.Pending
        /\ j.LostInstrumentSeq = i.LostInstrumentSeq
        /\ j.RequiredInstrumentSeq = i.RequiredInstrumentSeq
        /\ j.LastAppliedInstrumentSeq = i.LastAppliedInstrumentSeq
    BY <1>1 DEF Instrument
  <1> HIDE DEF j
  <1>3. InstOK(k, j)
    BY <1>2, Zenon DEF InstOK
  <1>4. NextExpectedInstrumentSeq(j) = NextExpectedInstrumentSeq(i)
    BY <1>2 DEF NextExpectedInstrumentSeq
  <1> QED BY <1>2, <1>3, <1>4 DEF j

LEMMA CommitOK ==
    ASSUME NEW k \in Inst, NEW i, InstOK(k, i), NEW s \in PendingSnapshot,
           s.last >= i.RequiredInstrumentSeq
    PROVE  /\ InstOK(k, CommitSnapshot(i, s))
           /\ CommitSnapshot(i, s).Pending = {}
           /\ CommitSnapshot(i, s).Status = "ready"
  <1> DEFINE j == CommitSnapshot(i, s)
  <1>1. i \in Instrument /\ i.RequiredInstrumentSeq \in Nat /\ i.LostInstrumentSeq \subseteq Nat
    BY InstrumentType DEF InstOK
  <1>2. s.book \in Book /\ s.anchor \in Nat /\ s.last \in Nat
    BY DEF PendingSnapshot
  <1>3. PruneLost(i.LostInstrumentSeq, s.last) = {}
    <2> SUFFICES ASSUME NEW n \in i.LostInstrumentSeq PROVE ~(n > s.last)
      BY DEF PruneLost
    <2>1. n <= i.RequiredInstrumentSeq /\ n \in Nat
      BY <1>1 DEF InstOK
    <2> QED BY <1>1, <1>2, <2>1
  <1>4. /\ j \in Instrument /\ j.Pending = {} /\ j.Status = "ready"
        /\ j.LostInstrumentSeq = {} /\ j.RequiredInstrumentSeq = 0
    BY <1>1, <1>2, <1>3 DEF CommitSnapshot, Instrument
  <1> HIDE DEF j
  <1>5. j.Status # "gap" /\ \A n \in j.LostInstrumentSeq : n > 0 /\ n <= j.RequiredInstrumentSeq
    BY <1>4
  <1>6. InstOK(k, j)
    BY <1>4, <1>5, NoWindowOK
  <1> QED BY <1>4, <1>6 DEF j

LEMMA ApplyOneOK ==
    ASSUME NEW k \in Inst, NEW i, InstOK(k, i), i.Status = "ready",
           NEW d \in Delta, d.pi = i.LastAppliedInstrumentSeq + 1,
           \A p \in i.Pending : p.pi # d.pi
    PROVE  /\ InstOK(k, ApplyOne(i, d))
           /\ ApplyOne(i, d).Status = "ready"
           /\ ApplyOne(i, d).Pending = i.Pending
  <1> DEFINE j == ApplyOne(i, d)
  <1>1. /\ i \in Instrument /\ i.LostInstrumentSeq = {} /\ i.RequiredInstrumentSeq = 0
        /\ i.LastAppliedInstrumentSeq \in Nat /\ i.Pending \subseteq Delta
        /\ i.Book \in Book
    BY InstrumentType DEF InstOK
  <1>2. d.mkt \in Nat /\ d.pi \in Nat /\ ApplyOp(i.Book, d.op) \in Book
    BY <1>1, DeltaType, ApplyOpType
  <1>3. /\ j \in Instrument /\ j.Status = "ready" /\ j.Pending = i.Pending
        /\ j.LostInstrumentSeq = {} /\ j.RequiredInstrumentSeq = 0
        /\ j.LastAppliedInstrumentSeq = d.pi
    BY <1>1, <1>2 DEF ApplyOne, PruneLost, Instrument
  <1> HIDE DEF j
  <1>4. \A p \in j.Pending : p.inst = k /\ ~Malformed(p.op) /\ p.pi > j.LastAppliedInstrumentSeq
    <2> SUFFICES ASSUME NEW p \in i.Pending
                 PROVE  p.inst = k /\ ~Malformed(p.op) /\ p.pi > d.pi
      BY <1>3
    <2>1. /\ p.inst = k /\ ~Malformed(p.op) /\ p.pi > i.LastAppliedInstrumentSeq
          /\ p.pi # d.pi
      BY DEF InstOK
    <2>2. p.pi \in Nat
      BY <1>1, DeltaType
    <2> QED BY <1>1, <1>2, <2>1, <2>2
  <1>5. /\ j.Status # "gap" /\ \A n \in j.LostInstrumentSeq : n > 0 /\ n <= j.RequiredInstrumentSeq
        /\ IsFiniteSet(j.Pending) /\ Cardinality(j.Pending) <= ReorderWindow
        /\ \A p, q \in j.Pending : p.pi = q.pi => p = q
    BY <1>3, Zenon DEF InstOK
  <1>6. InstOK(k, j)
    BY <1>3, <1>4, <1>5, Zenon DEF InstOK
  <1> QED BY <1>3, <1>6 DEF j

(* Replacing the window of a ready instrument.                             *)
LEMMA WindowOK ==
    ASSUME NEW k \in Inst, NEW i, InstOK(k, i), i.Status = "ready",
           NEW P \in SUBSET Delta, IsFiniteSet(P), Cardinality(P) <= ReorderWindow,
           \A p, q \in P : p.pi = q.pi => p = q,
           \A p \in P : p.inst = k /\ ~Malformed(p.op) /\ p.pi > i.LastAppliedInstrumentSeq
    PROVE  /\ InstOK(k, [i EXCEPT !.Pending = P])
           /\ [i EXCEPT !.Pending = P].Status = "ready"
           /\ [i EXCEPT !.Pending = P].Pending = P
           /\ [i EXCEPT !.Pending = P].LastAppliedInstrumentSeq = i.LastAppliedInstrumentSeq
           /\ NextExpectedInstrumentSeq([i EXCEPT !.Pending = P]) = NextExpectedInstrumentSeq(i)
  <1> DEFINE j == [i EXCEPT !.Pending = P]
  <1>1. i \in Instrument
    BY DEF InstOK
  <1>2. /\ j \in Instrument /\ j.Status = i.Status /\ j.Pending = P
        /\ j.LostInstrumentSeq = i.LostInstrumentSeq
        /\ j.RequiredInstrumentSeq = i.RequiredInstrumentSeq
        /\ j.LastAppliedInstrumentSeq = i.LastAppliedInstrumentSeq
    BY <1>1 DEF Instrument
  <1> HIDE DEF j
  <1>3. InstOK(k, j)
    BY <1>2, Zenon DEF InstOK
  <1>4. NextExpectedInstrumentSeq(j) = NextExpectedInstrumentSeq(i)
    BY <1>2 DEF NextExpectedInstrumentSeq
  <1> QED BY <1>2, <1>3, <1>4 DEF j

-----------------------------------------------------------------------------
(* The delta buffers: the part of the invariant about them, and what       *)
(* bufferDelta, with or without an eviction, does to it.                   *)

BufferOK ==
    /\ deltaBuf \in [Inst -> Seq(Delta)]
    /\ bufferedN = Cardinality(Slots(deltaBuf, Inst))
    /\ bufferedN \in Nat /\ bufferedN <= MaxBuffered
    /\ \A k \in Inst : Sorted(deltaBuf[k])
    /\ \A k \in Inst : \A j \in 1 .. Len(deltaBuf[k]) : deltaBuf[k][j].inst = k

LEMMA EmptySorted == Sorted(<<>>) /\ Len(<<>>) = 0 /\ <<>> \in Seq(Delta)
  <1>1. Len(<<>>) = 0 /\ <<>> \in Seq(Delta)
    BY EmptySeq
  <1> QED BY <1>1 DEF Sorted

LEMMA SlotsNat ==
    ASSUME NEW buf \in [Inst -> Seq(Delta)]
    PROVE  Cardinality(Slots(buf, Inst)) \in Nat
  BY SlotsFinite, FS_CardinalityType

(* Emptying one buffer.                                                    *)
LEMMA EmptyOneOK ==
    ASSUME NEW buf \in [Inst -> Seq(Delta)], NEW v \in Inst,
           \A k \in Inst : Sorted(buf[k]),
           \A k \in Inst : \A j \in 1 .. Len(buf[k]) : buf[k][j].inst = k,
           deltaBuf' = [buf EXCEPT ![v] = <<>>],
           bufferedN' = Cardinality(Slots(buf, Inst)) - Len(buf[v]),
           bufferedN' <= MaxBuffered
    PROVE  BufferOK'
  <1>1. <<>> \in Seq(Delta) /\ Len(<<>>) = 0 /\ Sorted(<<>>)
    BY EmptySorted
  <1>2. deltaBuf' \in [Inst -> Seq(Delta)]
    BY <1>1
  <1>3. Cardinality(Slots(deltaBuf', Inst)) =
            Cardinality(Slots(buf, Inst)) - Len(buf[v]) + 0
    BY <1>1, SlotsSet
  <1>4. /\ Cardinality(Slots(buf, Inst)) \in Nat /\ Len(buf[v]) \in Nat
        /\ Cardinality(Slots(deltaBuf', Inst)) \in Nat
    BY <1>2, SlotsNat, LenProperties
  <1>5. bufferedN' = Cardinality(Slots(deltaBuf', Inst)) /\ bufferedN' \in Nat
    BY <1>3, <1>4
  <1>6. \A k \in Inst : deltaBuf'[k] = IF k = v THEN <<>> ELSE buf[k]
    OBVIOUS
  <1>7. \A k \in Inst : Sorted(deltaBuf'[k])
    BY <1>1, <1>6
  <1>8. \A k \in Inst : \A j \in 1 .. Len(deltaBuf'[k]) : deltaBuf'[k][j].inst = k
    BY <1>1, <1>6
  <1> QED BY <1>2, <1>5, <1>7, <1>8 DEF BufferOK

(* bufferDelta keeps the buffers exact and, when it evicts, leaves the     *)
(* victim in gap with nothing buffered; every other instrument is as the   *)
(* caller left it.                                                         *)
LEMMA BufferDeltaOK ==
    ASSUME BufferOK, known \subseteq Inst,
           NEW insts \in [Inst -> Instrument], \A k \in Inst : InstOK(k, insts[k]),
           NEW d \in Delta, insts[d.inst].Status # "ready",
           \A k \in Inst : insts[k].Status = "ready" => deltaBuf[k] = <<>>,
           BufferDelta(insts, d)
    PROVE  /\ BufferOK'
           /\ instruments' \in [Inst -> Instrument]
           /\ \A k \in Inst : InstOK(k, instruments'[k])
           /\ \A k \in Inst : instruments'[k].Status = "ready" => deltaBuf'[k] = <<>>
           /\ known \subseteq known' /\ known' \subseteq Inst
           /\ \A k \in Inst : \/ instruments'[k] = insts[k]
                              \/ /\ instruments'[k].Status = "gap"
                                 /\ instruments'[k].Pending = {}
                                 /\ k \in known'
  <1> DEFINE x == d.inst
  <1>1. x \in Inst /\ deltaBuf \in [Inst -> Seq(Delta)]
    BY DeltaType DEF BufferOK
  <1>2. PICK n \in 0 .. Len(deltaBuf[x]) :
            /\ SplitsAt(deltaBuf[x], n, d.mkt)
            /\ LET buf == [deltaBuf EXCEPT ![x] = InsertAfter(@, n, d)]
               IN  \/ /\ bufferedN + 1 <= MaxBuffered
                      /\ deltaBuf' = buf
                      /\ bufferedN' = bufferedN + 1
                      /\ instruments' = insts
                      /\ known' = known
                   \/ /\ bufferedN + 1 > MaxBuffered
                      /\ EvictLargestBuffer(buf, insts)
    BY DEF BufferDelta
  <1> DEFINE b == InsertAfter(deltaBuf[x], n, d)
             buf == [deltaBuf EXCEPT ![x] = b]
  <1>3. deltaBuf[x] \in Seq(Delta) /\ Len(deltaBuf[x]) \in Nat
    BY <1>1, LenProperties
  <1>4. /\ b \in Seq(Delta) /\ Len(b) = Len(deltaBuf[x]) + 1
        /\ \A j \in 1 .. Len(deltaBuf[x]) + 1 :
              b[j] = IF j <= n THEN deltaBuf[x][j] ELSE IF j = n + 1 THEN d
                     ELSE deltaBuf[x][j - 1]
    <2>1. PICK old \in Seq(Delta) : old = deltaBuf[x]
      BY <1>3
    <2>2. n \in 0 .. Len(old)
      BY <2>1
    <2>3. /\ InsertAfter(old, n, d) \in Seq(Delta)
          /\ Len(InsertAfter(old, n, d)) = Len(old) + 1
          /\ \A j \in 1 .. Len(old) + 1 :
                InsertAfter(old, n, d)[j] =
                    IF j <= n THEN old[j] ELSE IF j = n + 1 THEN d ELSE old[j - 1]
      BY <2>2, InsertAfterType
    <2> QED BY <2>1, <2>3
  <1>5. Sorted(b)
    BY <1>1, <1>2, <1>3, InsertAfterSorted DEF BufferOK
  <1> HIDE DEF b
  <1>6. \A j \in 1 .. Len(b) : b[j].inst = x
    <2> SUFFICES ASSUME NEW j \in 1 .. Len(b) PROVE b[j].inst = x
      OBVIOUS
    <2>1. \A m \in 1 .. Len(deltaBuf[x]) : deltaBuf[x][m].inst = x
      BY <1>1 DEF BufferOK
    <2>2. CASE j <= n
      BY <1>3, <1>4, <2>1, <2>2, SMTT(30)
    <2>3. CASE j = n + 1
      BY <1>3, <1>4, <2>3
    <2>4. CASE j > n + 1
      <3>1. j - 1 \in 1 .. Len(deltaBuf[x]) /\ b[j] = deltaBuf[x][j - 1]
        BY <1>3, <1>4, <2>4
      <3> QED BY <2>1, <3>1
    <2> QED BY <1>3, <1>4, <2>2, <2>3, <2>4
  <1>7. buf \in [Inst -> Seq(Delta)] /\ \A k \in Inst : buf[k] = IF k = x THEN b ELSE deltaBuf[k]
    BY <1>1, <1>4
  <1>8. Cardinality(Slots(buf, Inst)) = bufferedN + 1 /\ bufferedN \in Nat
        /\ bufferedN <= MaxBuffered /\ MaxBuffered \in Nat
    <2>1. Cardinality(Slots(buf, Inst)) =
              Cardinality(Slots(deltaBuf, Inst)) - Len(deltaBuf[x]) + Len(b)
      BY <1>1, <1>4, SlotsSet
    <2>2. bufferedN = Cardinality(Slots(deltaBuf, Inst)) /\ bufferedN \in Nat
          /\ bufferedN <= MaxBuffered
      BY DEF BufferOK
    <2>3. MaxBuffered \in Nat
      BY ShardAssumption
    <2> QED BY <1>3, <1>4, <2>1, <2>2, <2>3
  <1>9. /\ \A k \in Inst : Sorted(buf[k])
        /\ \A k \in Inst : \A j \in 1 .. Len(buf[k]) : buf[k][j].inst = k
    BY <1>5, <1>6, <1>7 DEF BufferOK
  <1>10. \A k \in Inst : k # x => buf[k] = deltaBuf[k]
    BY <1>7
  <1>11. /\ SplitsAt(deltaBuf[x], n, d.mkt)
         /\ \/ /\ bufferedN + 1 <= MaxBuffered
               /\ deltaBuf' = buf
               /\ bufferedN' = bufferedN + 1
               /\ instruments' = insts
               /\ known' = known
            \/ /\ bufferedN + 1 > MaxBuffered
               /\ EvictLargestBuffer(buf, insts)
    BY <1>2 DEF b
  <1> HIDE DEF buf, x
  <1>12. CASE deltaBuf' = buf /\ bufferedN' = bufferedN + 1 /\ bufferedN + 1 <= MaxBuffered
              /\ instruments' = insts /\ known' = known
    <2>1. BufferOK'
      BY <1>7, <1>8, <1>9, <1>12 DEF BufferOK
    <2>2. \A k \in Inst : instruments'[k].Status = "ready" => deltaBuf'[k] = <<>>
      BY <1>10, <1>12 DEF x
    <2> QED BY <1>12, <2>1, <2>2
  <1>13. CASE bufferedN + 1 > MaxBuffered /\ EvictLargestBuffer(buf, insts)
    <2>1. PICK v \in Inst :
              /\ \A u \in Inst : Len(buf[u]) <= Len(buf[v])
              /\ deltaBuf' = [buf EXCEPT ![v] = <<>>]
              /\ bufferedN' = bufferedN + 1 - Len(buf[v])
              /\ instruments' = [insts EXCEPT ![v] = Evicted(@, buf[v])]
              /\ known' = known \cup {v}
      BY <1>13 DEF EvictLargestBuffer
    <2>2. buf[v] \in Seq(Delta) /\ Len(buf[v]) \in Nat
      BY <1>7, LenProperties
    <2>3. Len(buf[v]) >= 1
      BY <1>1, <1>3, <1>4, <1>7, <2>1, <2>2
    <2>4. bufferedN' <= MaxBuffered
      BY <1>8, <2>1, <2>2, <2>3
    <2>5. BufferOK'
      <3>1. bufferedN' = Cardinality(Slots(buf, Inst)) - Len(buf[v])
        BY <1>8, <2>1
      <3>2. deltaBuf' = [buf EXCEPT ![v] = <<>>]
        BY <2>1
      <3> QED BY <1>7, <1>9, <2>4, <3>1, <3>2, EmptyOneOK
    <2>6. /\ InstOK(v, Evicted(insts[v], buf[v])) /\ Evicted(insts[v], buf[v]).Status = "gap"
          /\ Evicted(insts[v], buf[v]).Pending = {}
      BY <2>2, EvictedOK
    <2>7. Evicted(insts[v], buf[v]) \in Instrument
      BY <2>6 DEF InstOK
    <2>8. \A k \in Inst : instruments'[k] = IF k = v THEN Evicted(insts[v], buf[v]) ELSE insts[k]
      BY <2>1
    <2>9. instruments' \in [Inst -> Instrument]
      BY <2>1, <2>7
    <2>10. \A k \in Inst : InstOK(k, instruments'[k])
      BY <2>6, <2>8
    <2>11. \A k \in Inst : deltaBuf'[k] = IF k = v THEN <<>> ELSE buf[k]
      BY <1>7, <2>1
    <2>12. \A k \in Inst : instruments'[k].Status = "ready" => deltaBuf'[k] = <<>>
      BY <1>10, <2>6, <2>8, <2>11 DEF x
    <2> QED BY <2>1, <2>5, <2>6, <2>8, <2>9, <2>10, <2>12
  <1> QED BY <1>11, <1>12, <1>13

-----------------------------------------------------------------------------
(* The inductive invariant, by the part of the state each conjunct is      *)
(* about.                                                                  *)

OtherTypes ==
    /\ known \subseteq Inst
    /\ refdata \in [Inst -> ManifestSeqs \cup {NoDef}]
    /\ sawBatchBoundary \in BOOLEAN
    /\ touched \subseteq Inst /\ crossed \subseteq Inst
    /\ busy \in Inst \cup {None} /\ held \subseteq Delta /\ drain \in BOOLEAN
    /\ replay \in Seq(Delta) /\ applied \in BOOLEAN

InstrumentsOK ==
    /\ instruments \in [Inst -> Instrument]
    /\ \A k \in Inst : InstOK(k, instruments[k])
    /\ \A k \in Inst : instruments[k].Status = "ready" => deltaBuf[k] = <<>>

Settled(i) == \A p \in i.Pending : p.pi # NextExpectedInstrumentSeq(i)

SettledOK == \A k \in Inst : (busy = k /\ drain) \/ Settled(instruments[k])

IndInv ==
    OtherTypes /\ InstrumentsOK /\ BufferOK /\ SettledOK /\ LoopShape /\ UnknownIsFresh

(* The inductive invariant gives every invariant the module states.        *)
LEMMA IndInvGives ==
    ASSUME IndInv
    PROVE  ShardInv
  <1> USE DEF IndInv
  <1>1. TypeOK
    BY DEF OtherTypes, InstrumentsOK, BufferOK, TypeOK
  <1>2. BudgetExact /\ BuffersSorted /\ BacklogKeyed
    BY DEF BufferOK, BudgetExact, BuffersSorted, BacklogKeyed, Sorted
  <1>3. LoopShape /\ UnknownIsFresh
    OBVIOUS
  <1>4. ReadyHasNoBacklog
    BY DEF InstrumentsOK, ReadyHasNoBacklog, Ready
  <1>5. LostCovered /\ ReadyHasNothingLost /\ GapDemandsNewer
    BY DEF InstrumentsOK, InstOK, LostCovered, ReadyHasNothingLost, GapDemandsNewer, Ready
  <1>6. PendingInWindow
    <2> SUFFICES ASSUME NEW k \in Inst
                 PROVE  LET i == instruments[k]
                        IN  /\ i.Pending # {} => Ready(k)
                            /\ IsFiniteSet(i.Pending) /\ Cardinality(i.Pending) <= ReorderWindow
                            /\ \A p, q \in i.Pending : p.pi = q.pi => p = q
                            /\ \A p \in i.Pending :
                                  /\ p.inst = k /\ ~Malformed(p.op)
                                  /\ p.pi > i.LastAppliedInstrumentSeq
                                  /\ (busy = k /\ drain) \/ p.pi # NextExpectedInstrumentSeq(i)
      BY DEF PendingInWindow
    <2>1. InstOK(k, instruments[k])
      BY DEF InstrumentsOK
    <2>2. instruments[k].Pending # {} => Ready(k)
      BY <2>1 DEF InstOK, Ready, UnknownIsFresh
    <2>3. (busy = k /\ drain) \/ Settled(instruments[k])
      BY DEF SettledOK
    <2> QED BY <2>1, <2>2, <2>3, Zenon DEF InstOK, Settled
  <1> QED BY <1>1, <1>2, <1>3, <1>4, <1>5, <1>6 DEF ShardInv

LEMMA IndInvInit ==
    ASSUME ShardInit
    PROVE  IndInv
  <1> USE DEF ShardInit
  <1>1. OtherTypes
    BY EmptySorted DEF OtherTypes
  <1>2. \A k \in Inst : /\ instruments[k] = NewInstrument /\ InstOK(k, instruments[k])
                        /\ deltaBuf[k] = <<>>
    BY NewOK
  <1>3. InstrumentsOK
    BY <1>2 DEF InstrumentsOK, InstOK
  <1>4. deltaBuf \in [Inst -> Seq(Delta)] /\ Len(<<>>) = 0 /\ Sorted(<<>>)
    BY EmptySorted
  <1>5. BufferOK
    <2>1. Slots(deltaBuf, Inst) = {}
      <3> SUFFICES ASSUME NEW x \in Slots(deltaBuf, Inst) PROVE FALSE
        OBVIOUS
      <3>1. PICK k \in Inst : \E n \in 1 .. Len(deltaBuf[k]) : x = <<k, n>>
        BY SlotsMember
      <3> QED BY <1>2, <1>4, <3>1
    <2>2. Cardinality(Slots(deltaBuf, Inst)) = 0
      BY <2>1, FS_EmptySet
    <2>3. MaxBuffered \in Nat
      BY ShardAssumption
    <2>4. \A k \in Inst : \A m \in 1 .. Len(deltaBuf[k]) : deltaBuf[k][m].inst = k
      BY <1>2, <1>4
    <2> QED BY <1>2, <1>4, <2>2, <2>3, <2>4 DEF BufferOK
  <1>6. NewInstrument.Pending = {} /\ NewInstrument.Status = "awaiting"
        /\ NewInstrument.OpenSnapshot = {}
    BY DEF NewInstrument
  <1>7. SettledOK /\ UnknownIsFresh
    BY <1>2, <1>6 DEF SettledOK, Settled, UnknownIsFresh
  <1>8. LoopShape
    BY <1>4 DEF LoopShape
  <1> QED BY <1>1, <1>3, <1>5, <1>7, <1>8 DEF IndInv

-----------------------------------------------------------------------------
(* Every step preserves the inductive invariant.                           *)

(* bufferDelta outside the drain loop, after the caller demoted at most    *)
(* known instruments.                                                      *)
LEMMA AfterBuffer ==
    ASSUME IndInv, ~drain, ~drain', NEW d \in Delta,
           NEW insts \in [Inst -> Instrument], \A k \in Inst : InstOK(k, insts[k]),
           insts[d.inst].Status # "ready",
           \A k \in Inst : \/ insts[k] = instruments[k]
                           \/ /\ k \in known
                              /\ insts[k].Status = "gap" /\ insts[k].Pending = {},
           BufferDelta(insts, d)
    PROVE  /\ BufferOK' /\ InstrumentsOK' /\ SettledOK' /\ UnknownIsFresh'
           /\ known \subseteq known' /\ known' \subseteq Inst
           /\ \A k \in Inst : \/ instruments'[k] = insts[k]
                              \/ instruments'[k].Status = "gap"
  <1>1. BufferOK /\ known \subseteq Inst
    BY DEF IndInv, OtherTypes
  <1>2. \A k \in Inst : insts[k].Status = "ready" => deltaBuf[k] = <<>>
    BY DEF IndInv, InstrumentsOK
  <1>3. /\ BufferOK'
        /\ instruments' \in [Inst -> Instrument]
        /\ \A k \in Inst : InstOK(k, instruments'[k])
        /\ \A k \in Inst : instruments'[k].Status = "ready" => deltaBuf'[k] = <<>>
        /\ known \subseteq known' /\ known' \subseteq Inst
        /\ \A k \in Inst : \/ instruments'[k] = insts[k]
                           \/ /\ instruments'[k].Status = "gap"
                              /\ instruments'[k].Pending = {}
                              /\ k \in known'
    BY <1>1, <1>2, BufferDeltaOK
  <1>4. InstrumentsOK'
    BY <1>3 DEF InstrumentsOK
  <1>5. \A k \in Inst : Settled(instruments[k])
    BY DEF IndInv, SettledOK
  <1>6. SettledOK'
    <2> SUFFICES ASSUME NEW k \in Inst PROVE Settled(instruments'[k])
      BY DEF SettledOK, Settled
    <2>1. instruments'[k] = instruments[k] \/ instruments'[k].Pending = {}
      BY <1>3
    <2> QED BY <1>5, <2>1 DEF Settled
  <1>7. UnknownIsFresh'
    <2> SUFFICES ASSUME NEW k \in Inst \ known'
                 PROVE  /\ instruments'[k].Status = "awaiting"
                        /\ instruments'[k].OpenSnapshot = {}
                        /\ instruments'[k].Pending = {}
      BY DEF UnknownIsFresh
    <2>1. k \notin known /\ instruments'[k] = instruments[k]
      BY <1>3
    <2> QED BY <2>1 DEF IndInv, UnknownIsFresh
  <1> QED BY <1>3, <1>4, <1>6, <1>7

(* A step that replaces the record of one instrument: what is left to      *)
(* prove is the shape of the loop.                                         *)
LEMMA OneStep ==
    ASSUME IndInv, NEW k \in Inst, drain => busy = k, NEW j, InstOK(k, j),
           instruments' = [instruments EXCEPT ![k] = j],
           \A l \in Inst \ {k} : deltaBuf'[l] = deltaBuf[l],
           j.Status = "ready" => deltaBuf'[k] = <<>>,
           known \subseteq known', k \in known' \/ j = instruments[k],
           (busy' = k /\ drain') \/ Settled(j)
    PROVE  /\ InstrumentsOK' /\ SettledOK' /\ UnknownIsFresh'
           /\ instruments'[k] = j
           /\ \A l \in Inst \ {k} : instruments'[l] = instruments[l]
  <1>1. InstrumentsOK /\ SettledOK /\ UnknownIsFresh
    BY DEF IndInv
  <1>2. /\ InstrumentsOK'
        /\ \A l \in Inst : instruments'[l] = IF l = k THEN j ELSE instruments[l]
    <2>1. instruments \in [Inst -> Instrument] /\ j \in Instrument
      BY <1>1 DEF InstrumentsOK, InstOK
    <2>2. \A l \in Inst : instruments'[l] = IF l = k THEN j ELSE instruments[l]
      BY <2>1
    <2>3. instruments' \in [Inst -> Instrument]
      BY <2>1
    <2>4. \A l \in Inst : InstOK(l, instruments'[l])
      BY <1>1, <2>2, Zenon DEF InstrumentsOK
    <2>5. \A l \in Inst : instruments'[l].Status = "ready" => deltaBuf'[l] = <<>>
      BY <1>1, <2>2 DEF InstrumentsOK
    <2> QED BY <2>2, <2>3, <2>4, <2>5 DEF InstrumentsOK
  <1>3. SettledOK'
    <2> SUFFICES ASSUME NEW l \in Inst
                 PROVE  (busy' = l /\ drain') \/ Settled(instruments'[l])
      BY DEF SettledOK, Settled
    <2>1. CASE l = k
      BY <1>2, <2>1
    <2>2. CASE l # k
      <3>1. Settled(instruments[l]) /\ instruments'[l] = instruments[l]
        BY <1>1, <1>2, <2>2 DEF SettledOK
      <3> QED BY <3>1
    <2> QED BY <2>1, <2>2
  <1>4. UnknownIsFresh'
    <2> SUFFICES ASSUME NEW l \in Inst \ known'
                 PROVE  /\ instruments'[l].Status = "awaiting"
                        /\ instruments'[l].OpenSnapshot = {}
                        /\ instruments'[l].Pending = {}
      BY DEF UnknownIsFresh
    <2>1. l \notin known /\ instruments'[l] = instruments[l]
      BY <1>2
    <2> QED BY <1>1, <2>1 DEF UnknownIsFresh
  <1> QED BY <1>2, <1>3, <1>4

LEMMA BufferUnchanged ==
    ASSUME BufferOK, deltaBuf' = deltaBuf, bufferedN' = bufferedN
    PROVE  BufferOK'
  BY DEF BufferOK

(* What a handler knows of the ready instrument it is about to change.     *)
LEMMA ReadyFacts ==
    ASSUME IndInv, ~drain, NEW k, Ready(k)
    PROVE  /\ k \in Inst /\ k \in known
           /\ instruments \in [Inst -> Instrument]
           /\ instruments[k] \in Instrument /\ InstOK(k, instruments[k])
           /\ instruments[k].Status = "ready"
           /\ instruments[k].LostInstrumentSeq = {}
           /\ instruments[k].RequiredInstrumentSeq = 0
           /\ instruments[k].LastAppliedInstrumentSeq \in Nat
           /\ instruments[k].Pending \subseteq Delta
           /\ IsFiniteSet(instruments[k].Pending)
           /\ \A p \in instruments[k].Pending :
                 /\ p.inst = k /\ ~Malformed(p.op)
                 /\ p.pi > instruments[k].LastAppliedInstrumentSeq
                 /\ p.pi # instruments[k].LastAppliedInstrumentSeq + 1
           /\ NextExpectedInstrumentSeq(instruments[k]) =
                 instruments[k].LastAppliedInstrumentSeq + 1
           /\ deltaBuf[k] = <<>>
  <1>1. k \in Inst /\ k \in known /\ instruments[k].Status = "ready"
    BY DEF IndInv, OtherTypes, Ready
  <1>2. /\ instruments \in [Inst -> Instrument] /\ InstOK(k, instruments[k])
        /\ deltaBuf[k] = <<>>
    BY <1>1 DEF IndInv, InstrumentsOK
  <1>3. instruments[k] \in Instrument
    BY <1>1, <1>2
  <1>4. /\ instruments[k].LostInstrumentSeq = {}
        /\ instruments[k].RequiredInstrumentSeq = 0
        /\ IsFiniteSet(instruments[k].Pending)
        /\ \A p \in instruments[k].Pending :
              /\ p.inst = k /\ ~Malformed(p.op)
              /\ p.pi > instruments[k].LastAppliedInstrumentSeq
    BY <1>1, <1>2, Zenon DEF InstOK
  <1>5. /\ instruments[k].LastAppliedInstrumentSeq \in Nat
        /\ instruments[k].Pending \subseteq Delta
    BY <1>3, InstrumentType
  <1>6. NextExpectedInstrumentSeq(instruments[k]) =
            instruments[k].LastAppliedInstrumentSeq + 1
    BY <1>3, <1>4, NextExpectedOfReady
  <1>7. Settled(instruments[k])
    BY <1>1 DEF IndInv, SettledOK
  <1>8. \A p \in instruments[k].Pending : p.pi # instruments[k].LastAppliedInstrumentSeq + 1
    BY <1>6, <1>7 DEF Settled
  <1> QED BY <1>1, <1>2, <1>3, <1>4, <1>5, <1>6, <1>8

(* The numbers of a set of deltas.                                         *)
LEMMA FinitePiSet ==
    ASSUME NEW P \in SUBSET Delta, IsFiniteSet(P)
    PROVE  IsFiniteSet({p.pi : p \in P}) /\ {p.pi : p \in P} \in SUBSET Nat
  <1> DEFINE T == {p.pi : p \in P}
             f == [p \in P |-> p.pi]
  <1>1. \A p \in P : p.pi \in Nat
    BY DeltaType
  <1>2. f \in Surjection(P, T)
    BY DEF Surjection
  <1> HIDE DEF f
  <1>3. IsFiniteSet(T)
    BY <1>2, FS_Surjection
  <1> QED BY <1>1, <1>3

(* applyDeltaToReady, called for a fresh delta or from the replay loop.    *)
LEMMA ApplyDeltaToReadyOK ==
    ASSUME IndInv, ~drain, NEW d \in Delta, NEW rest \in Seq(Delta),
           \A n \in 1 .. Len(rest) : rest[n].inst = d.inst,
           Ready(d.inst), ApplyDeltaToReady(d, rest)
    PROVE  IndInv'
  <1>1. PICK k \in Inst : k = d.inst
    BY DeltaType
  <1>2. PICK i : i = instruments[k]
    OBVIOUS
  <1>3. /\ k \in known /\ instruments \in [Inst -> Instrument]
        /\ i \in Instrument /\ InstOK(k, i) /\ i.Status = "ready"
        /\ i.LostInstrumentSeq = {} /\ i.RequiredInstrumentSeq = 0
        /\ i.LastAppliedInstrumentSeq \in Nat
        /\ i.Pending \subseteq Delta /\ IsFiniteSet(i.Pending)
        /\ \A p \in i.Pending :
              /\ p.inst = k /\ ~Malformed(p.op)
              /\ p.pi > i.LastAppliedInstrumentSeq
              /\ p.pi # i.LastAppliedInstrumentSeq + 1
        /\ NextExpectedInstrumentSeq(i) = i.LastAppliedInstrumentSeq + 1
        /\ deltaBuf[k] = <<>>
    BY <1>1, <1>2, ReadyFacts
  <1>4. d.pi \in Nat /\ d.mkt \in Nat
    BY DeltaType
  <1>5. OtherTypes /\ InstrumentsOK /\ BufferOK /\ SettledOK /\ LoopShape /\ UnknownIsFresh
    BY DEF IndInv
  <1>6. UNCHANGED <<refdata, sawBatchBoundary, touched, crossed>>
    BY DEF ApplyDeltaToReady
  <1>7. ASSUME busy' = k, replay' = rest, held' \in SUBSET Delta,
               drain' \in BOOLEAN, applied' \in BOOLEAN,
               \A p \in held' : p.inst = k,
               held' # {} => ~drain' /\ instruments'[k].Status = "gap",
               drain' => instruments'[k].Status = "ready",
               known \subseteq known', known' \subseteq Inst
        PROVE  OtherTypes' /\ LoopShape'
    <2>1. OtherTypes'
      BY <1>5, <1>6, <1>7 DEF OtherTypes
    <2>2. k # None /\ k \in known'
      BY <1>3, <1>7, ShardAssumption
    <2>3. LoopShape'
      BY <1>1, <1>7, <2>2 DEF LoopShape, Ready
    <2> QED BY <2>1, <2>3
  <1>8. applied \in BOOLEAN /\ known \subseteq Inst
    BY <1>5 DEF OtherTypes
  <1>9. CASE DiscardStale(d, rest)
    <2>1. /\ Loop(k, {}, FALSE, rest, applied)
          /\ UNCHANGED <<known, instruments, deltaBuf, bufferedN>>
      BY <1>1, <1>9 DEF DiscardStale
    <2>2. OtherTypes' /\ LoopShape'
      BY <1>7, <1>8, <2>1 DEF Loop
    <2>3. InstrumentsOK' /\ UnknownIsFresh' /\ BufferOK'
      BY <1>5, <2>1, BufferUnchanged DEF InstrumentsOK, UnknownIsFresh
    <2>4. SettledOK'
      BY <1>5, <2>1 DEF SettledOK, Settled
    <2> QED BY <2>2, <2>3, <2>4 DEF IndInv
  <1>10. CASE DemoteMalformed(d, rest)
    <2>1. PICK g : g = [i EXCEPT !.Status = "gap", !.LostInstrumentSeq = @ \cup {d.pi},
                                 !.Pending = {}]
      OBVIOUS
    <2>2. PICK j : j = RequireSnapshotAtLeast(g, d.pi)
      OBVIOUS
    <2>3. /\ d.pi >= NextExpectedInstrumentSeq(i)
          /\ instruments' = [instruments EXCEPT ![k] = j]
          /\ Loop(k, i.Pending, FALSE, rest, applied)
          /\ UNCHANGED <<known, deltaBuf, bufferedN>>
      BY <1>1, <1>2, <1>10, <2>1, <2>2 DEF DemoteMalformed
    <2>4. /\ g \in Instrument /\ g.Status = "gap" /\ g.Pending = {}
          /\ g.LostInstrumentSeq = {d.pi}
          /\ g.LastAppliedInstrumentSeq = i.LastAppliedInstrumentSeq
      BY <1>3, <1>4, <2>1 DEF Instrument
    <2>5. d.pi > g.LastAppliedInstrumentSeq /\ d.pi > 0
      BY <1>3, <1>4, <2>3, <2>4
    <2>6. InstOK(k, j) /\ j.Status = "gap" /\ j.Pending = {}
      BY <1>4, <2>2, <2>4, <2>5, DemotedOK
    <2>7. Settled(j) /\ ~(j.Status = "ready")
      BY <2>6 DEF Settled
    <2>8. InstrumentsOK' /\ SettledOK' /\ UnknownIsFresh' /\ instruments'[k] = j
      BY <1>3, <2>3, <2>6, <2>7, OneStep
    <2>9. OtherTypes' /\ LoopShape'
      BY <1>3, <1>7, <1>8, <2>3, <2>6, <2>8 DEF Loop
    <2> QED BY <1>5, <2>3, <2>8, <2>9, BufferUnchanged DEF IndInv
  <1>11. CASE HoldOutOfOrder(d, rest)
    <2>1. PICK P : P = WithPending(i, d)
      OBVIOUS
    <2>2. PICK j : j = [i EXCEPT !.Pending = P]
      OBVIOUS
    <2>3. /\ d.pi > NextExpectedInstrumentSeq(i) /\ ~Malformed(d.op)
          /\ Cardinality(P) <= ReorderWindow
          /\ instruments' = [instruments EXCEPT ![k].Pending = P]
          /\ Loop(k, {}, FALSE, rest, applied)
          /\ UNCHANGED <<known, deltaBuf, bufferedN>>
      BY <1>1, <1>2, <1>11, <2>1 DEF HoldOutOfOrder, InWindow
    <2>4. instruments' = [instruments EXCEPT ![k] = j]
      BY <1>2, <2>2, <2>3
    <2>5. P = {p \in i.Pending : p.pi # d.pi} \cup {d}
      BY <2>1 DEF WithPending
    <2>6. P \in SUBSET Delta /\ IsFiniteSet(P)
      <3>1. IsFiniteSet({p \in i.Pending : p.pi # d.pi})
        BY <1>3, FS_Subset
      <3> QED BY <1>3, <2>5, <3>1, FS_AddElement
    <2>7. \A p, q \in P : p.pi = q.pi => p = q
      BY <1>3, <2>5 DEF InstOK
    <2>8. \A p \in P : /\ p.inst = k /\ ~Malformed(p.op)
                       /\ p.pi > i.LastAppliedInstrumentSeq
                       /\ p.pi # i.LastAppliedInstrumentSeq + 1
      BY <1>1, <1>3, <1>4, <2>3, <2>5
    <2>9. /\ InstOK(k, j) /\ j.Pending = P
          /\ NextExpectedInstrumentSeq(j) = NextExpectedInstrumentSeq(i)
      BY <1>3, <2>2, <2>3, <2>6, <2>7, <2>8, WindowOK
    <2>10. Settled(j)
      BY <1>3, <2>8, <2>9 DEF Settled
    <2>11. deltaBuf'[k] = <<>>
      BY <1>3, <2>3
    <2>12. InstrumentsOK' /\ SettledOK' /\ UnknownIsFresh' /\ instruments'[k] = j
      BY <1>3, <2>3, <2>4, <2>9, <2>10, <2>11, OneStep
    <2>13. OtherTypes' /\ LoopShape'
      BY <1>7, <1>8, <2>3 DEF Loop
    <2> QED BY <1>5, <2>3, <2>12, <2>13, BufferUnchanged DEF IndInv
  <1>12. CASE DeclareGap(d, rest)
    <2>1. PICK g : g = [i EXCEPT !.Status = "gap", !.Pending = {}]
      OBVIOUS
    <2>2. PICK others : others = {p.pi : p \in {q \in i.Pending : q.pi # d.pi}}
      OBVIOUS
    <2>3. PICK seq : seq = MaxPi(d.pi - 1, others)
      OBVIOUS
    <2>4. PICK j : j = RequireSnapshotAtLeast(g, seq)
      OBVIOUS
    <2>5. PICK insts : insts = [instruments EXCEPT ![k] = j]
      OBVIOUS
    <2>6. /\ d.pi > NextExpectedInstrumentSeq(i)
          /\ BufferDelta(insts, d)
          /\ Loop(k, {}, FALSE, rest, applied)
      BY <1>1, <1>2, <1>12, <2>1, <2>2, <2>3, <2>4, <2>5 DEF DeclareGap
    <2>7. others \in SUBSET Nat /\ IsFiniteSet(others)
      <3>1. PICK Q : Q = {q \in i.Pending : q.pi # d.pi}
        OBVIOUS
      <3>2. Q \in SUBSET Delta /\ IsFiniteSet(Q)
        BY <1>3, <3>1, FS_Subset
      <3> QED BY <2>2, <3>1, <3>2, FinitePiSet
    <2>8. d.pi - 1 \in Nat /\ d.pi - 1 > i.LastAppliedInstrumentSeq
      BY <1>3, <1>4, <2>6
    <2>9. seq \in Nat /\ seq >= d.pi - 1
      BY <2>3, <2>7, <2>8, MaxPiType
    <2>10. /\ g \in Instrument /\ g.Status = "gap" /\ g.Pending = {}
           /\ g.LostInstrumentSeq = {}
           /\ g.LastAppliedInstrumentSeq = i.LastAppliedInstrumentSeq
      BY <1>3, <2>1 DEF Instrument
    <2>11. seq > g.LastAppliedInstrumentSeq
      BY <1>3, <1>4, <2>8, <2>9, <2>10
    <2>12. InstOK(k, j) /\ j.Status = "gap" /\ j.Pending = {}
      BY <2>4, <2>9, <2>10, <2>11, DemotedOK
    <2>13. j \in Instrument
      BY <2>12 DEF InstOK
    <2>14. /\ insts \in [Inst -> Instrument]
           /\ \A l \in Inst : insts[l] = IF l = k THEN j ELSE instruments[l]
      BY <1>3, <2>5, <2>13
    <2>15. \A l \in Inst : InstOK(l, insts[l])
      BY <1>5, <2>12, <2>14, Zenon DEF InstrumentsOK
    <2>16. \A l \in Inst : \/ insts[l] = instruments[l]
                           \/ l \in known /\ insts[l].Status = "gap" /\ insts[l].Pending = {}
      BY <1>3, <2>12, <2>14
    <2>17. insts[d.inst].Status # "ready"
      BY <1>1, <2>12, <2>14
    <2>18. ~drain'
      BY <2>6 DEF Loop
    <2>19. /\ BufferOK' /\ InstrumentsOK' /\ SettledOK' /\ UnknownIsFresh'
           /\ known \subseteq known' /\ known' \subseteq Inst
      BY <2>6, <2>14, <2>15, <2>16, <2>17, <2>18, AfterBuffer
    <2>20. OtherTypes' /\ LoopShape'
      BY <1>7, <1>8, <2>6, <2>19 DEF Loop
    <2> QED BY <2>19, <2>20 DEF IndInv
  <1>13. CASE ApplyContiguous(d, rest)
    <2>1. PICK j : j = ApplyOne(i, d)
      OBVIOUS
    <2>2. /\ d.pi = NextExpectedInstrumentSeq(i)
          /\ instruments' = [instruments EXCEPT ![k] = j]
          /\ Loop(k, {}, TRUE, rest, TRUE)
          /\ UNCHANGED <<known, deltaBuf, bufferedN>>
      BY <1>1, <1>2, <1>13, <2>1 DEF ApplyContiguous
    <2>3. InstOK(k, j) /\ j.Status = "ready"
      BY <1>3, <2>1, <2>2, ApplyOneOK
    <2>4. busy' = k /\ drain' /\ deltaBuf'[k] = <<>>
      BY <1>3, <2>2 DEF Loop
    <2>5. InstrumentsOK' /\ SettledOK' /\ UnknownIsFresh' /\ instruments'[k] = j
      BY <1>3, <2>2, <2>3, <2>4, OneStep
    <2>6. OtherTypes' /\ LoopShape'
      BY <1>7, <1>8, <2>2, <2>3, <2>5 DEF Loop
    <2> QED BY <1>5, <2>2, <2>5, <2>6, BufferUnchanged DEF IndInv
  <1> QED BY <1>9, <1>10, <1>11, <1>12, <1>13 DEF ApplyDeltaToReady

LEMMA TailType ==
    ASSUME NEW s \in Seq(Delta), s # <<>>
    PROVE  /\ Head(s) \in Delta /\ Tail(s) \in Seq(Delta)
           /\ Head(s) = s[1] /\ Len(s) \in Nat /\ 1 \in 1 .. Len(s)
           /\ \A j \in 1 .. Len(Tail(s)) : Tail(s)[j] = s[j + 1] /\ j + 1 \in 1 .. Len(s)
  <1>1. Len(s) \in Nat /\ Len(s) > 0
    BY EmptySeq, LenProperties
  <1>2. /\ Head(s) \in Delta /\ Tail(s) \in Seq(Delta) /\ Len(Tail(s)) = Len(s) - 1
        /\ \A j \in 1 .. Len(Tail(s)) : Tail(s)[j] = s[j + 1]
    BY HeadTailProperties
  <1>3. Head(s) = s[1]
    BY <1>1
  <1> QED BY <1>1, <1>2, <1>3

LEMMA RebufferHeldOK ==
    ASSUME IndInv, RebufferHeld
    PROVE  IndInv'
  <1>1. PICK d \in held : BufferDelta(instruments, d) /\ held' = held \ {d}
    BY DEF RebufferHeld
  <1>2. OtherTypes /\ InstrumentsOK /\ BufferOK /\ SettledOK /\ LoopShape /\ UnknownIsFresh
    BY DEF IndInv
  <1>3. /\ d \in Delta /\ d.inst = busy /\ busy # None /\ busy \in known /\ busy \in Inst
        /\ ~drain /\ instruments[busy].Status = "gap"
    BY <1>2 DEF OtherTypes, LoopShape
  <1>4. /\ UNCHANGED <<refdata, sawBatchBoundary, touched, crossed>>
        /\ busy' = busy /\ drain' = drain /\ replay' = replay /\ applied' = applied
    BY DEF RebufferHeld, crossVars
  <1>5. instruments \in [Inst -> Instrument] /\ \A k \in Inst : InstOK(k, instruments[k])
    BY <1>2 DEF InstrumentsOK
  <1>6. instruments[d.inst].Status # "ready"
    BY <1>3
  <1>7. /\ BufferOK' /\ InstrumentsOK' /\ SettledOK' /\ UnknownIsFresh'
        /\ known \subseteq known' /\ known' \subseteq Inst
        /\ \A k \in Inst : \/ instruments'[k] = instruments[k]
                           \/ instruments'[k].Status = "gap"
    BY <1>1, <1>3, <1>4, <1>5, <1>6, AfterBuffer
  <1>8. OtherTypes'
    BY <1>1, <1>2, <1>4, <1>7 DEF OtherTypes
  <1>9. LoopShape'
    BY <1>1, <1>2, <1>3, <1>4, <1>7 DEF LoopShape, Ready
  <1> QED BY <1>7, <1>8, <1>9 DEF IndInv

LEMMA DrainOK ==
    ASSUME IndInv, Drain
    PROVE  IndInv'
  <1>1. OtherTypes /\ InstrumentsOK /\ BufferOK /\ SettledOK /\ LoopShape /\ UnknownIsFresh
    BY DEF IndInv
  <1>2. /\ busy # None /\ drain
        /\ UNCHANGED <<known, refdata, deltaBuf, bufferedN, sawBatchBoundary, touched, crossed>>
        /\ busy' = busy /\ held' = held /\ replay' = replay /\ applied' = applied
    BY DEF Drain, bufferVars, crossVars
  <1>3. PICK k \in Inst : k = busy
    BY <1>1, <1>2 DEF OtherTypes
  <1>4. PICK i : i = instruments[k]
    OBVIOUS
  <1>5. k \in known /\ i.Status = "ready" /\ InstOK(k, i) /\ i \in Instrument
        /\ deltaBuf[k] = <<>> /\ held = {}
    BY <1>1, <1>2, <1>3, <1>4 DEF LoopShape, Ready, InstrumentsOK, InstOK
  <1>6. /\ NextExpectedInstrumentSeq(i) = i.LastAppliedInstrumentSeq + 1
        /\ i.LastAppliedInstrumentSeq \in Nat /\ i.Pending \subseteq Delta
        /\ IsFiniteSet(i.Pending) /\ Cardinality(i.Pending) <= ReorderWindow
        /\ \A p, q \in i.Pending : p.pi = q.pi => p = q
        /\ \A p \in i.Pending :
              p.inst = k /\ ~Malformed(p.op) /\ p.pi > i.LastAppliedInstrumentSeq
    <2>1. i.LostInstrumentSeq = {}
      BY <1>5, Zenon DEF InstOK
    <2>2. /\ NextExpectedInstrumentSeq(i) = i.LastAppliedInstrumentSeq + 1
          /\ i.LastAppliedInstrumentSeq \in Nat /\ i.Pending \subseteq Delta
      BY <1>5, <2>1, NextExpectedOfReady, InstrumentType
    <2>3. /\ IsFiniteSet(i.Pending) /\ Cardinality(i.Pending) <= ReorderWindow
          /\ \A p, q \in i.Pending : p.pi = q.pi => p = q
          /\ \A p \in i.Pending :
                p.inst = k /\ ~Malformed(p.op) /\ p.pi > i.LastAppliedInstrumentSeq
      BY <1>5, Zenon DEF InstOK
    <2> QED BY <2>2, <2>3
  <1>7. BufferOK'
    BY <1>1, <1>2, BufferUnchanged
  <1>8. ASSUME NEW p \in i.Pending, p.pi = NextExpectedInstrumentSeq(i),
               instruments' = [instruments EXCEPT ![k] =
                   ApplyOne([i EXCEPT !.Pending = i.Pending \ {p}], p)],
               drain' = drain
        PROVE  IndInv'
    <2>1. PICK P : P = i.Pending \ {p}
      OBVIOUS
    <2>2. PICK w : w = [i EXCEPT !.Pending = P]
      OBVIOUS
    <2>3. PICK j : j = ApplyOne(w, p)
      OBVIOUS
    <2>4. P \in SUBSET Delta /\ IsFiniteSet(P) /\ Cardinality(P) <= ReorderWindow
      <3>1. IsFiniteSet(P) /\ Cardinality(P) <= Cardinality(i.Pending)
        BY <1>6, <2>1, FS_Subset
      <3>2. Cardinality(P) \in Nat /\ Cardinality(i.Pending) \in Nat
        BY <1>6, <3>1, FS_CardinalityType
      <3>3. ReorderWindow \in Nat
        BY ShardAssumption
      <3> QED BY <1>6, <2>1, <3>1, <3>2, <3>3
    <2>5. /\ \A a, b \in P : a.pi = b.pi => a = b
          /\ \A a \in P : /\ a.inst = k /\ ~Malformed(a.op)
                          /\ a.pi > i.LastAppliedInstrumentSeq
      BY <1>6, <2>1
    <2>6. /\ InstOK(k, w) /\ w.Status = "ready" /\ w.Pending = P
          /\ w.LastAppliedInstrumentSeq = i.LastAppliedInstrumentSeq
      BY <1>5, <2>2, <2>4, <2>5, WindowOK
    <2>7. /\ p \in Delta /\ p.pi = w.LastAppliedInstrumentSeq + 1
          /\ \A a \in w.Pending : a.pi # p.pi
      BY <1>6, <1>8, <2>1, <2>6
    <2>8. InstOK(k, j) /\ j.Status = "ready"
      BY <2>3, <2>6, <2>7, ApplyOneOK
    <2>9. /\ instruments' = [instruments EXCEPT ![k] = j]
          /\ busy' = k /\ drain' /\ deltaBuf'[k] = <<>> /\ known \subseteq known' /\ k \in known'
          /\ \A l \in Inst \ {k} : deltaBuf'[l] = deltaBuf[l]
      BY <1>2, <1>3, <1>5, <1>8, <2>1, <2>2, <2>3
    <2>10. InstrumentsOK' /\ SettledOK' /\ UnknownIsFresh' /\ instruments'[k] = j
      BY <1>3, <2>8, <2>9, OneStep
    <2>11. OtherTypes'
      BY <1>1, <1>2, <1>8 DEF OtherTypes
    <2>12. LoopShape'
      BY <1>1, <1>2, <1>3, <1>5, <1>8, <2>8, <2>9, <2>10 DEF LoopShape, Ready
    <2> QED BY <1>7, <2>10, <2>11, <2>12 DEF IndInv
  <1>9. ASSUME \A p \in i.Pending : p.pi # NextExpectedInstrumentSeq(i),
               drain' = FALSE, instruments' = instruments
        PROVE  IndInv'
    <2>1. OtherTypes' /\ InstrumentsOK' /\ UnknownIsFresh'
      BY <1>1, <1>2, <1>9 DEF OtherTypes, InstrumentsOK, UnknownIsFresh
    <2>2. LoopShape'
      BY <1>1, <1>2, <1>5, <1>9 DEF LoopShape
    <2>3. SettledOK'
      <3> SUFFICES ASSUME NEW l \in Inst PROVE Settled(instruments[l])
        BY <1>9 DEF SettledOK, Settled
      <3>1. CASE l = k
        BY <1>4, <1>9, <3>1 DEF Settled
      <3>2. CASE l # k
        BY <1>1, <1>3, <3>2 DEF SettledOK
      <3> QED BY <3>1, <3>2
    <2> QED BY <1>7, <2>1, <2>2, <2>3 DEF IndInv
  <1>10. \/ \E p \in {q \in i.Pending : q.pi = NextExpectedInstrumentSeq(i)} :
               /\ instruments' = [instruments EXCEPT ![k] =
                      ApplyOne([i EXCEPT !.Pending = i.Pending \ {p}], p)]
               /\ drain' = drain
         \/ /\ {q \in i.Pending : q.pi = NextExpectedInstrumentSeq(i)} = {}
            /\ drain' = FALSE /\ instruments' = instruments
    BY <1>3, <1>4 DEF Drain
  <1> QED BY <1>8, <1>9, <1>10

LEMMA ReplayOK ==
    ASSUME IndInv, Replay
    PROVE  IndInv'
  <1>1. OtherTypes /\ InstrumentsOK /\ BufferOK /\ SettledOK /\ LoopShape /\ UnknownIsFresh
    BY DEF IndInv
  <1>2. /\ busy # None /\ held = {} /\ ~drain /\ replay # <<>> /\ replay \in Seq(Delta)
        /\ busy \in known /\ busy \in Inst
        /\ \A j \in 1 .. Len(replay) : replay[j].inst = busy
    BY <1>1 DEF Replay, OtherTypes, LoopShape
  <1>3. PICK d : d = Head(replay)
    OBVIOUS
  <1>4. PICK rest : rest = Tail(replay)
    OBVIOUS
  <1>5. /\ d \in Delta /\ rest \in Seq(Delta) /\ d.inst = busy
        /\ \A j \in 1 .. Len(rest) : rest[j].inst = busy
    BY <1>2, <1>3, <1>4, TailType
  <1>6. CASE /\ replay' = rest
             /\ UNCHANGED <<bookVars, bufferVars, crossVars, busy, held, drain, applied>>
    <2> USE <1>1, <1>2, <1>5, <1>6 DEF bookVars, bufferVars, crossVars
    <2>1. OtherTypes' /\ InstrumentsOK' /\ UnknownIsFresh' /\ BufferOK'
      BY BufferUnchanged DEF OtherTypes, InstrumentsOK, UnknownIsFresh
    <2>2. SettledOK'
      BY DEF SettledOK, Settled
    <2>3. LoopShape'
      BY DEF LoopShape, Ready
    <2> QED BY <2>1, <2>2, <2>3 DEF IndInv
  <1>7. CASE /\ ~Ready(d.inst)
             /\ BufferDelta(instruments, d)
             /\ replay' = rest
             /\ UNCHANGED <<refdata, crossVars, busy, held, drain, applied>>
    <2>1. instruments \in [Inst -> Instrument] /\ \A k \in Inst : InstOK(k, instruments[k])
      BY <1>1 DEF InstrumentsOK
    <2>2. instruments[d.inst].Status # "ready" /\ ~drain'
      BY <1>2, <1>5, <1>7 DEF Ready
    <2>3. /\ BufferOK' /\ InstrumentsOK' /\ SettledOK' /\ UnknownIsFresh'
          /\ known \subseteq known' /\ known' \subseteq Inst
      BY <1>2, <1>5, <1>7, <2>1, <2>2, AfterBuffer
    <2>4. OtherTypes'
      BY <1>1, <1>5, <1>7, <2>3 DEF OtherTypes, crossVars
    <2>5. LoopShape'
      BY <1>2, <1>5, <1>7, <2>3 DEF LoopShape
    <2> QED BY <2>3, <2>4, <2>5 DEF IndInv
  <1>8. CASE Ready(d.inst) /\ ApplyDeltaToReady(d, rest)
    BY <1>2, <1>5, <1>8, ApplyDeltaToReadyOK
  <1> QED BY <1>3, <1>4, <1>6, <1>7, <1>8 DEF Replay

LEMMA FinishHandlerOK ==
    ASSUME IndInv, FinishHandler
    PROVE  IndInv'
  <1> USE DEF IndInv
  <1>1. /\ busy \in Inst /\ held = {} /\ ~drain /\ replay = <<>> /\ Len(<<>>) = 0
        /\ busy' = None /\ applied' = FALSE
        /\ UNCHANGED <<known, instruments, refdata, deltaBuf, bufferedN, held, drain, replay,
                       sawBatchBoundary>>
    BY EmptySorted DEF FinishHandler, OtherTypes, bookVars, bufferVars, NoteConsistencyPoint
  <1>2. touched' \subseteq Inst /\ crossed' \subseteq Inst
    BY <1>1 DEF FinishHandler, NoteConsistencyPoint, EvaluateCrossed, OtherTypes
  <1>3. OtherTypes' /\ InstrumentsOK' /\ UnknownIsFresh'
    BY <1>1, <1>2 DEF OtherTypes, InstrumentsOK, UnknownIsFresh
  <1>4. BufferOK' /\ LoopShape'
    BY <1>1, BufferUnchanged DEF LoopShape
  <1>5. SettledOK'
    BY <1>1 DEF SettledOK, Settled
  <1> QED BY <1>3, <1>4, <1>5

(* Outside a handler no loop is running, and none is started by a handler  *)
(* that leaves the loop variables alone.                                   *)
LEMMA IdleFacts ==
    ASSUME IndInv, Idle
    PROVE  /\ OtherTypes /\ InstrumentsOK /\ BufferOK /\ UnknownIsFresh
           /\ busy = None /\ held = {} /\ ~drain /\ replay = <<>>
           /\ \A k \in Inst : Settled(instruments[k])
           /\ UNCHANGED loopVars => LoopShape'
  <1>1. /\ OtherTypes /\ InstrumentsOK /\ BufferOK /\ UnknownIsFresh /\ LoopShape
        /\ busy = None /\ held = {} /\ ~drain /\ replay = <<>>
    BY DEF IndInv, Idle, LoopShape
  <1>2. \A k \in Inst : Settled(instruments[k])
    BY <1>1 DEF IndInv, SettledOK
  <1>3. Len(<<>>) = 0
    BY EmptySorted
  <1>4. UNCHANGED loopVars => LoopShape'
    BY <1>1, <1>3 DEF loopVars, LoopShape
  <1> QED BY <1>1, <1>2, <1>4

LEMMA ApplyDeltaOK ==
    ASSUME IndInv, NEW d \in Delta, ApplyDelta(d)
    PROVE  IndInv'
  <1>1. Idle
    BY DEF ApplyDelta
  <1>2. /\ OtherTypes /\ InstrumentsOK /\ busy = None /\ ~drain /\ replay = <<>>
        /\ UNCHANGED loopVars => LoopShape'
    BY <1>1, IdleFacts
  <1>3. CASE /\ ~Ready(d.inst)
             /\ BufferDelta(instruments, d)
             /\ UNCHANGED <<refdata, crossVars, loopVars>>
    <2>1. instruments \in [Inst -> Instrument] /\ \A k \in Inst : InstOK(k, instruments[k])
      BY <1>2 DEF InstrumentsOK
    <2>2. instruments[d.inst].Status # "ready"
      <3>1. d.inst \in Inst
        BY DeltaType
      <3> QED BY <1>3, <3>1 DEF Ready, IndInv, UnknownIsFresh
    <2>3. ~drain'
      BY <1>2, <1>3 DEF loopVars
    <2>4. /\ BufferOK' /\ InstrumentsOK' /\ SettledOK' /\ UnknownIsFresh'
          /\ known' \subseteq Inst
      BY <1>2, <1>3, <2>1, <2>2, <2>3, AfterBuffer
    <2>5. OtherTypes'
      BY <1>2, <1>3, <2>4 DEF OtherTypes, crossVars, loopVars
    <2> QED BY <1>2, <1>3, <2>4, <2>5 DEF IndInv
  <1>4. CASE Ready(d.inst) /\ ApplyDeltaToReady(d, <<>>)
    <2>1. PICK rest \in Seq(Delta) : rest = <<>>
      BY EmptySorted
    <2>2. \A n \in 1 .. Len(rest) : rest[n].inst = d.inst
      BY <2>1, EmptySorted
    <2> QED BY <1>2, <1>4, <2>1, <2>2, ApplyDeltaToReadyOK
  <1> QED BY <1>3, <1>4 DEF ApplyDelta

LEMMA DefinitionOK ==
    ASSUME IndInv, NEW k \in Inst, NEW m \in ManifestSeqs, ApplyInstrumentDefinition(k, m)
    PROVE  IndInv'
  <1>1. /\ Idle /\ refdata' = [refdata EXCEPT ![k] = m] /\ known' = known \cup {k}
        /\ UNCHANGED <<instruments, bufferVars, crossVars, loopVars>>
    BY DEF ApplyInstrumentDefinition
  <1>2. /\ OtherTypes /\ InstrumentsOK /\ BufferOK /\ UnknownIsFresh
        /\ \A l \in Inst : Settled(instruments[l])
        /\ LoopShape'
    BY <1>1, IdleFacts
  <1>3. OtherTypes' /\ InstrumentsOK' /\ UnknownIsFresh' /\ BufferOK'
    BY <1>1, <1>2, BufferUnchanged
    DEF OtherTypes, InstrumentsOK, UnknownIsFresh, bufferVars, crossVars, loopVars
  <1>4. SettledOK'
    BY <1>1, <1>2 DEF SettledOK, Settled
  <1> QED BY <1>2, <1>3, <1>4 DEF IndInv

(* A handler that replaces one instrument's shadow, or nothing.            *)
LEMMA ShadowStepOK ==
    ASSUME IndInv, Idle, NEW k \in Inst, NEW sh \in SUBSET PendingSnapshot,
           instruments' = [instruments EXCEPT ![k] = [instruments[k] EXCEPT !.OpenSnapshot = sh]],
           known \subseteq known', known' \subseteq Inst,
           k \in known' \/ sh = instruments[k].OpenSnapshot,
           UNCHANGED <<refdata, bufferVars, crossVars, loopVars>>
    PROVE  IndInv'
  <1>1. /\ OtherTypes /\ InstrumentsOK /\ BufferOK /\ ~drain
        /\ Settled(instruments[k])
        /\ LoopShape'
    BY IdleFacts
  <1>2. PICK i : i = instruments[k]
    OBVIOUS
  <1>3. PICK j : j = [i EXCEPT !.OpenSnapshot = sh]
    OBVIOUS
  <1>4. i \in Instrument /\ InstOK(k, i) /\ (i.Status = "ready" => deltaBuf[k] = <<>>)
    BY <1>1, <1>2 DEF InstrumentsOK
  <1>5. /\ InstOK(k, j) /\ j.Status = i.Status /\ j.Pending = i.Pending
        /\ NextExpectedInstrumentSeq(j) = NextExpectedInstrumentSeq(i)
    BY <1>3, <1>4, ShadowOK
  <1>6. Settled(j)
    BY <1>1, <1>2, <1>5 DEF Settled
  <1>7. j = i \/ k \in known'
    BY <1>2, <1>3, <1>4 DEF Instrument
  <1>8. /\ instruments' = [instruments EXCEPT ![k] = j]
        /\ deltaBuf' = deltaBuf /\ bufferedN' = bufferedN
    BY <1>2, <1>3 DEF bufferVars
  <1>9. /\ \A l \in Inst \ {k} : deltaBuf'[l] = deltaBuf[l]
        /\ j.Status = "ready" => deltaBuf'[k] = <<>>
        /\ drain => busy = k
        /\ k \in known' \/ j = instruments[k]
    BY <1>1, <1>2, <1>4, <1>5, <1>7, <1>8
  <1>10. InstrumentsOK' /\ SettledOK' /\ UnknownIsFresh'
    BY <1>5, <1>6, <1>8, <1>9, OneStep
  <1>11. OtherTypes'
    BY <1>1 DEF OtherTypes, crossVars, loopVars
  <1> QED BY <1>1, <1>8, <1>10, <1>11, BufferUnchanged DEF IndInv

LEMMA SnapshotBeginOK ==
    ASSUME IndInv, NEW k \in Inst, NEW b \in SnapshotBegins, ApplySnapshotBegin(k, b)
    PROVE  IndInv'
  <1>1. PICK i : i = instruments[k]
    OBVIOUS
  <1>2. /\ Idle /\ known' = known \cup {k}
        /\ instruments' = [instruments EXCEPT ![k] =
               IF SnapshotAcceptable(i, b.anchor, b.last) THEN BeginSnapshot(i, b) ELSE i]
        /\ UNCHANGED <<refdata, bufferVars, crossVars, loopVars>>
    BY <1>1 DEF ApplySnapshotBegin
  <1>3. instruments \in [Inst -> Instrument] /\ i \in Instrument /\ known' \subseteq Inst
    BY <1>1, <1>2 DEF IndInv, InstrumentsOK, OtherTypes
  <1>4. PICK s : s = [id |-> b.id, anchor |-> b.anchor, total |-> b.total,
                      last |-> b.last, received |-> 0, book |-> EmptyBook]
    OBVIOUS
  <1>5. s \in PendingSnapshot
    <2>1. b \in SnapshotBegin
      BY ShardAssumption
    <2> QED BY <1>4, <2>1, EmptyBookType DEF SnapshotBegin, PendingSnapshot
  <1>6. PICK sh \in SUBSET PendingSnapshot :
            /\ sh = IF SnapshotAcceptable(i, b.anchor, b.last) THEN {s} ELSE i.OpenSnapshot
    BY <1>3, <1>5, InstrumentType
  <1>7. instruments' = [instruments EXCEPT ![k] = [instruments[k] EXCEPT !.OpenSnapshot = sh]]
    <2>1. CASE SnapshotAcceptable(i, b.anchor, b.last)
      BY <1>1, <1>2, <1>4, <1>6, <2>1 DEF BeginSnapshot
    <2>2. CASE ~SnapshotAcceptable(i, b.anchor, b.last)
      <3>1. i = [i EXCEPT !.OpenSnapshot = sh]
        BY <1>3, <1>6, <2>2 DEF Instrument
      <3> QED BY <1>1, <1>2, <2>2, <3>1
    <2> QED BY <2>1, <2>2
  <1>8. known \subseteq known' /\ k \in known'
    BY <1>2
  <1> QED BY <1>2, <1>3, <1>7, <1>8, ShadowStepOK

LEMMA SnapshotLevelOK ==
    ASSUME IndInv, NEW k \in Inst, NEW id,
           NEW l \in Side \X Price, NEW q \in Qty,
           ApplySnapshotLevel(k, id, l[1], l[2], q)
    PROVE  IndInv'
  <1>1. PICK i : i = instruments[k]
    OBVIOUS
  <1>2. PICK sh : sh = {IF s.id = id
                        THEN [s EXCEPT !.book = [@ EXCEPT ![<<l[1], l[2]>>] = q],
                                       !.received = @ + 1]
                        ELSE s : s \in i.OpenSnapshot}
    OBVIOUS
  <1>3. /\ Idle /\ known' = known
        /\ instruments' = [instruments EXCEPT ![k] = [instruments[k] EXCEPT !.OpenSnapshot = sh]]
        /\ UNCHANGED <<refdata, bufferVars, crossVars, loopVars>>
    BY <1>1, <1>2 DEF ApplySnapshotLevel, AddSnapshotLevel
  <1>4. i \in Instrument /\ i.OpenSnapshot \subseteq PendingSnapshot /\ known \subseteq Inst
    BY <1>1, InstrumentType DEF IndInv, InstrumentsOK, OtherTypes
  <1>5. sh \in SUBSET PendingSnapshot
    <2> SUFFICES ASSUME NEW s \in PendingSnapshot
                 PROVE  [s EXCEPT !.book = [@ EXCEPT ![<<l[1], l[2]>>] = q],
                                  !.received = @ + 1] \in PendingSnapshot
      BY <1>2, <1>4
    <2>1. PICK bk : bk = [s.book EXCEPT ![<<l[1], l[2]>>] = q]
      OBVIOUS
    <2>2. bk \in Book
      BY <2>1 DEF PendingSnapshot, Book
    <2>3. [s EXCEPT !.book = bk, !.received = @ + 1] \in PendingSnapshot
      <3>1. s.received \in Nat /\ s.received + 1 \in Nat
        BY DEF PendingSnapshot
      <3>2. PICK n \in Nat : n = s.received + 1
        BY <3>1
      <3>3. [s EXCEPT !.book = bk, !.received = n] \in PendingSnapshot
        BY <2>2 DEF PendingSnapshot
      <3> QED BY <3>2, <3>3
    <2> QED BY <2>1, <2>3
  <1>6. k \in known' \/ sh = instruments[k].OpenSnapshot
    <2>1. k \notin known => i.OpenSnapshot = {}
      BY <1>1 DEF IndInv, UnknownIsFresh
    <2> QED BY <1>1, <1>2, <1>3, <2>1
  <1> QED BY <1>3, <1>4, <1>5, <1>6, ShadowStepOK

LEMMA SnapshotEndOK ==
    ASSUME IndInv, NEW k \in Inst, NEW id, NEW anchor,
           ApplySnapshotEnd(k, id, anchor)
    PROVE  IndInv'
  <1>1. PICK i : i = instruments[k]
    OBVIOUS
  <1>2. Idle
    BY DEF ApplySnapshotEnd
  <1>3. /\ OtherTypes /\ InstrumentsOK /\ BufferOK /\ UnknownIsFresh /\ ~drain
        /\ \A l \in Inst : Settled(instruments[l])
        /\ UNCHANGED loopVars => LoopShape'
    BY <1>2, IdleFacts
  <1>4. /\ i \in Instrument /\ i.OpenSnapshot \subseteq PendingSnapshot /\ InstOK(k, i)
        /\ known \subseteq Inst /\ deltaBuf \in [Inst -> Seq(Delta)]
    BY <1>1, <1>3, InstrumentType DEF InstrumentsOK, OtherTypes, BufferOK
  <1>5. CASE UNCHANGED shardVars
    <2> USE <1>3, <1>5 DEF shardVars
    <2>1. OtherTypes' /\ InstrumentsOK' /\ UnknownIsFresh' /\ BufferOK' /\ LoopShape'
      BY BufferUnchanged DEF OtherTypes, InstrumentsOK, UnknownIsFresh, loopVars
    <2>2. SettledOK'
      BY DEF SettledOK, Settled
    <2> QED BY <2>1, <2>2 DEF IndInv
  <1>6. ASSUME NEW s \in i.OpenSnapshot,
               instruments' = [instruments EXCEPT ![k].OpenSnapshot = {}],
               UNCHANGED <<known, refdata, bufferVars, crossVars, loopVars>>
        PROVE  IndInv'
    <2>1. PICK sh \in SUBSET PendingSnapshot : sh = {}
      OBVIOUS
    <2>2. k \in known
      BY <1>1, <1>3, <1>6 DEF UnknownIsFresh
    <2>3. instruments' = [instruments EXCEPT ![k] = [instruments[k] EXCEPT !.OpenSnapshot = sh]]
      BY <1>6, <2>1
    <2> QED BY <1>2, <1>4, <1>6, <2>2, <2>3, ShadowStepOK
  <1>7. ASSUME NEW s \in i.OpenSnapshot,
               Committable(i, s, id, anchor),
               instruments' = [instruments EXCEPT ![k] = CommitSnapshot(i, s)],
               deltaBuf' = [deltaBuf EXCEPT ![k] = <<>>],
               bufferedN' = bufferedN - Len(deltaBuf[k]),
               Loop(k, {}, FALSE, deltaBuf[k], TRUE),
               UNCHANGED <<known, refdata, crossVars>>
        PROVE  IndInv'
    <2>1. PICK j : j = CommitSnapshot(i, s)
      OBVIOUS
    <2>2. s \in PendingSnapshot /\ s.last >= i.RequiredInstrumentSeq /\ k \in known
      BY <1>1, <1>3, <1>4, <1>7 DEF Committable, UnknownIsFresh
    <2>3. InstOK(k, j) /\ j.Pending = {} /\ j.Status = "ready"
      BY <1>4, <2>1, <2>2, CommitOK
    <2>4. Settled(j)
      BY <2>3 DEF Settled
    <2>5. /\ \A l \in Inst \ {k} : deltaBuf'[l] = deltaBuf[l]
          /\ deltaBuf'[k] = <<>>
      BY <1>4, <1>7
    <2>6. InstrumentsOK' /\ SettledOK' /\ UnknownIsFresh' /\ instruments'[k] = j
      BY <1>3, <1>7, <2>1, <2>2, <2>3, <2>4, <2>5, OneStep
    <2>7. /\ deltaBuf[k] \in Seq(Delta) /\ Len(deltaBuf[k]) \in Nat
          /\ \A n \in 1 .. Len(deltaBuf[k]) : deltaBuf[k][n].inst = k
      BY <1>3, <1>4, LenProperties DEF BufferOK
    <2>8. BufferOK'
      <3>1. /\ \A l \in Inst : Sorted(deltaBuf[l])
            /\ \A l \in Inst : \A n \in 1 .. Len(deltaBuf[l]) : deltaBuf[l][n].inst = l
            /\ bufferedN = Cardinality(Slots(deltaBuf, Inst))
            /\ bufferedN \in Nat /\ bufferedN <= MaxBuffered
        BY <1>3 DEF BufferOK
      <3>2. MaxBuffered \in Nat
        BY ShardAssumption
      <3>3. bufferedN' <= MaxBuffered
        BY <1>7, <2>7, <3>1, <3>2
      <3>4. bufferedN' = Cardinality(Slots(deltaBuf, Inst)) - Len(deltaBuf[k])
        BY <1>7, <3>1
      <3> QED BY <1>4, <1>7, <3>1, <3>3, <3>4, EmptyOneOK
    <2>9. busy' = k /\ held' = {} /\ drain' = FALSE /\ replay' = deltaBuf[k] /\ applied' = TRUE
      BY <1>7 DEF Loop
    <2>10. OtherTypes'
      BY <1>3, <1>7, <2>7, <2>9 DEF OtherTypes, crossVars
    <2>11. LoopShape'
      <3>1. k # None /\ k \in known'
        BY <1>7, <2>2, ShardAssumption
      <3> QED BY <2>7, <2>9, <3>1 DEF LoopShape
    <2> QED BY <2>6, <2>8, <2>10, <2>11 DEF IndInv
  <1>8. \/ UNCHANGED shardVars
        \/ \E s \in i.OpenSnapshot :
              /\ instruments' = [instruments EXCEPT ![k].OpenSnapshot = {}]
              /\ UNCHANGED <<known, refdata, bufferVars, crossVars, loopVars>>
        \/ \E s \in i.OpenSnapshot :
              /\ Committable(i, s, id, anchor)
              /\ instruments' = [instruments EXCEPT ![k] = CommitSnapshot(i, s)]
              /\ deltaBuf' = [deltaBuf EXCEPT ![k] = <<>>]
              /\ bufferedN' = bufferedN - Len(deltaBuf[k])
              /\ Loop(k, {}, FALSE, deltaBuf[k], TRUE)
              /\ UNCHANGED <<known, refdata, crossVars>>
    BY <1>1 DEF ApplySnapshotEnd
  <1> QED BY <1>5, <1>6, <1>7, <1>8

LEMMA InstrumentResetOK ==
    ASSUME IndInv, NEW k \in Inst, NEW anchor \in MktdataSeqs, ApplyInstrumentReset(k, anchor)
    PROVE  IndInv'
  <1>1. /\ Idle /\ known' = known \cup {k}
        /\ instruments' = [instruments EXCEPT ![k] = ResetInstrument(anchor)]
        /\ crossed' = crossed \ {k} /\ touched' = touched \ {k}
        /\ UNCHANGED <<refdata, sawBatchBoundary, loopVars>>
    BY DEF ApplyInstrumentReset
  <1>2. PICK n \in 0 .. Len(deltaBuf[k]) :
            /\ deltaBuf' = [deltaBuf EXCEPT ![k] = SubSeq(@, n + 1, Len(@))]
            /\ bufferedN' = bufferedN - n
    BY DEF ApplyInstrumentReset, KeepAfter
  <1>3. OtherTypes /\ InstrumentsOK /\ BufferOK /\ ~drain /\ LoopShape'
    BY <1>1, IdleFacts
  <1>4. PICK old \in Seq(Delta) : old = deltaBuf[k]
    BY <1>3 DEF BufferOK
  <1>5. PICK b : b = SubSeq(old, n + 1, Len(old))
    OBVIOUS
  <1>6. deltaBuf \in [Inst -> Seq(Delta)] /\ deltaBuf' = [deltaBuf EXCEPT ![k] = b]
    BY <1>2, <1>3, <1>4, <1>5 DEF BufferOK
  <1>7. n \in 0 .. Len(old) /\ Len(old) \in Nat /\ Sorted(old)
        /\ \A m \in 1 .. Len(old) : old[m].inst = k
    BY <1>2, <1>3, <1>4, LenProperties DEF BufferOK
  <1>8. /\ b \in Seq(Delta) /\ Len(b) = Len(old) - n
        /\ \A m \in 1 .. Len(old) - n : b[m] = old[n + m]
        /\ Sorted(b)
    BY <1>5, <1>7, SuffixProperties, SuffixSorted
  <1>9. \A l \in Inst : deltaBuf'[l] = IF l = k THEN b ELSE deltaBuf[l]
    BY <1>6
  <1>10. BufferOK'
    <2>1. deltaBuf' \in [Inst -> Seq(Delta)]
      BY <1>6, <1>8
    <2>2. Cardinality(Slots(deltaBuf', Inst)) =
              Cardinality(Slots(deltaBuf, Inst)) - Len(deltaBuf[k]) + Len(b)
      BY <1>6, <1>8, SlotsSet
    <2>3. /\ bufferedN = Cardinality(Slots(deltaBuf, Inst)) /\ bufferedN \in Nat
          /\ bufferedN <= MaxBuffered
          /\ \A l \in Inst : Sorted(deltaBuf[l])
          /\ \A l \in Inst : \A m \in 1 .. Len(deltaBuf[l]) : deltaBuf[l][m].inst = l
      BY <1>3 DEF BufferOK
    <2>4. bufferedN' = Cardinality(Slots(deltaBuf', Inst))
      BY <1>2, <1>4, <1>7, <1>8, <2>2, <2>3
    <2>5. bufferedN' \in Nat
      BY <2>1, <2>4, SlotsNat
    <2>6. bufferedN' <= MaxBuffered
      <3>1. MaxBuffered \in Nat
        BY ShardAssumption
      <3> QED BY <1>2, <1>7, <2>3, <3>1
    <2>7. \A l \in Inst : Sorted(deltaBuf'[l])
      BY <1>8, <1>9, <2>3
    <2>8. \A m \in 1 .. Len(b) : b[m].inst = k
      BY <1>7, <1>8
    <2>9. \A l \in Inst : \A m \in 1 .. Len(deltaBuf'[l]) : deltaBuf'[l][m].inst = l
      BY <1>9, <2>3, <2>8
    <2> QED BY <2>1, <2>4, <2>5, <2>6, <2>7, <2>9 DEF BufferOK
  <1>11. PICK j : j = ResetInstrument(anchor)
    OBVIOUS
  <1>12. InstOK(k, j) /\ j.Pending = {} /\ j.Status = "awaiting"
    BY <1>11, SeqNumType, ResetOK
  <1>13. Settled(j) /\ ~(j.Status = "ready")
    BY <1>12 DEF Settled
  <1>14. InstrumentsOK' /\ SettledOK' /\ UnknownIsFresh'
    BY <1>1, <1>3, <1>9, <1>11, <1>12, <1>13, OneStep
  <1>15. OtherTypes'
    BY <1>1, <1>3 DEF OtherTypes, loopVars
  <1> QED BY <1>3, <1>10, <1>14, <1>15 DEF IndInv

LEMMA BatchBoundaryOK ==
    ASSUME IndInv, ApplyBatchBoundary
    PROVE  IndInv'
  <1>1. /\ Idle /\ sawBatchBoundary' = TRUE /\ touched' = {}
        /\ UNCHANGED <<bookVars, bufferVars, loopVars>>
    BY DEF ApplyBatchBoundary
  <1>2. /\ OtherTypes /\ InstrumentsOK /\ BufferOK /\ UnknownIsFresh
        /\ \A l \in Inst : Settled(instruments[l])
    BY <1>1, IdleFacts
  <1>3. crossed' \subseteq Inst
    BY <1>2 DEF ApplyBatchBoundary, OtherTypes
  <1>4. OtherTypes' /\ InstrumentsOK' /\ UnknownIsFresh' /\ BufferOK'
    BY <1>1, <1>2, <1>3, BufferUnchanged
    DEF OtherTypes, InstrumentsOK, UnknownIsFresh, bookVars, bufferVars, loopVars
  <1>5. SettledOK'
    BY <1>1, <1>2 DEF SettledOK, Settled, bookVars
  <1>6. LoopShape'
    BY <1>1, IdleFacts
  <1> QED BY <1>4, <1>5, <1>6 DEF IndInv

(* resetChannel and pruneManifest.                                         *)
LEMMA ForgetOK ==
    ASSUME IndInv, Idle, NEW gone \in SUBSET Inst, Forget(gone),
           sawBatchBoundary' \in BOOLEAN
    PROVE  IndInv'
  <1>1. /\ known' = known \ gone
        /\ instruments' = [k \in Inst |-> IF k \in gone THEN NewInstrument ELSE instruments[k]]
        /\ deltaBuf' = [k \in Inst |-> IF k \in gone THEN <<>> ELSE deltaBuf[k]]
        /\ bufferedN' = bufferedN - Cardinality(Slots(deltaBuf, gone))
        /\ refdata' = [k \in Inst |-> IF k \in gone THEN NoDef ELSE refdata[k]]
        /\ touched' = touched \ gone /\ crossed' = crossed \ gone
        /\ UNCHANGED loopVars
    BY DEF Forget
  <1>2. /\ OtherTypes /\ InstrumentsOK /\ BufferOK /\ UnknownIsFresh
        /\ \A l \in Inst : Settled(instruments[l])
    BY IdleFacts
  <1>3. LoopShape'
    BY <1>1, IdleFacts
  <1>4. OtherTypes'
    BY <1>1, <1>2 DEF OtherTypes, loopVars
  <1>5. /\ \A k \in Inst : InstOK(k, NewInstrument)
        /\ NewInstrument.Pending = {} /\ NewInstrument.Status = "awaiting"
        /\ NewInstrument.OpenSnapshot = {}
    BY NewOK DEF NewInstrument
  <1> HIDE DEF NewInstrument
  <1>6. /\ \A k \in Inst : instruments'[k] = IF k \in gone THEN NewInstrument ELSE instruments[k]
        /\ \A k \in Inst : deltaBuf'[k] = IF k \in gone THEN <<>> ELSE deltaBuf[k]
    BY <1>1
  <1>7. InstrumentsOK'
    <2>1. \A k \in Inst : InstOK(k, instruments'[k])
      BY <1>2, <1>5, <1>6, Zenon DEF InstrumentsOK
    <2>2. \A k \in Inst : instruments'[k] \in Instrument
      BY <2>1 DEF InstOK
    <2>3. instruments' \in [Inst -> Instrument]
      BY <1>1, <2>2
    <2>4. \A k \in Inst : instruments'[k].Status = "ready" => deltaBuf'[k] = <<>>
      BY <1>2, <1>5, <1>6 DEF InstrumentsOK
    <2> QED BY <2>1, <2>3, <2>4 DEF InstrumentsOK
  <1>8. SettledOK'
    <2> SUFFICES ASSUME NEW k \in Inst PROVE Settled(instruments'[k])
      BY DEF SettledOK, Settled
    <2>1. CASE k \in gone
      BY <1>5, <1>6, <2>1 DEF Settled
    <2>2. CASE k \notin gone
      BY <1>2, <1>6, <2>2
    <2> QED BY <2>1, <2>2
  <1>9. UnknownIsFresh'
    BY <1>1, <1>2, <1>5, <1>6 DEF UnknownIsFresh
  <1>10. BufferOK'
    <2>1. /\ deltaBuf \in [Inst -> Seq(Delta)]
          /\ bufferedN = Cardinality(Slots(deltaBuf, Inst))
          /\ bufferedN \in Nat /\ bufferedN <= MaxBuffered
          /\ \A l \in Inst : Sorted(deltaBuf[l])
          /\ \A l \in Inst : \A m \in 1 .. Len(deltaBuf[l]) : deltaBuf[l][m].inst = l
      BY <1>2 DEF BufferOK
    <2>2. deltaBuf' \in [Inst -> Seq(Delta)]
      BY <1>1, <2>1, EmptySorted
    <2>3. Cardinality(Slots(deltaBuf', Inst)) =
              Cardinality(Slots(deltaBuf, Inst)) - Cardinality(Slots(deltaBuf, gone))
      BY <1>1, <2>1, SlotsForget
    <2>4. bufferedN' = Cardinality(Slots(deltaBuf', Inst)) /\ bufferedN' \in Nat
      BY <1>1, <2>1, <2>2, <2>3, SlotsNat
    <2>5. Cardinality(Slots(deltaBuf, gone)) \in Nat /\ MaxBuffered \in Nat
      BY <2>1, SlotsFinite, FS_CardinalityType, ShardAssumption
    <2>6. bufferedN' <= MaxBuffered
      BY <1>1, <2>1, <2>5
    <2>7. \A l \in Inst : Sorted(deltaBuf'[l])
      BY <1>6, <2>1, EmptySorted
    <2>8. \A l \in Inst : \A m \in 1 .. Len(deltaBuf'[l]) : deltaBuf'[l][m].inst = l
      BY <1>6, <2>1, EmptySorted
    <2> QED BY <2>2, <2>4, <2>6, <2>7, <2>8 DEF BufferOK
  <1> QED BY <1>3, <1>4, <1>7, <1>8, <1>9, <1>10 DEF IndInv

LEMMA ClearShadowsOK ==
    ASSUME IndInv, ClearShadows
    PROVE  IndInv'
  <1>1. /\ Idle
        /\ instruments' = [k \in Inst |-> [instruments[k] EXCEPT !.OpenSnapshot = {}]]
        /\ UNCHANGED <<known, refdata, bufferVars, crossVars, loopVars>>
    BY DEF ClearShadows
  <1>2. /\ OtherTypes /\ InstrumentsOK /\ BufferOK /\ UnknownIsFresh
        /\ \A l \in Inst : Settled(instruments[l])
    BY <1>1, IdleFacts
  <1>3. LoopShape'
    BY <1>1, IdleFacts
  <1>4. OtherTypes' /\ BufferOK'
    BY <1>1, <1>2, BufferUnchanged DEF OtherTypes, bufferVars, crossVars, loopVars
  <1>5. ASSUME NEW k \in Inst
        PROVE  /\ InstOK(k, instruments'[k]) /\ instruments'[k].OpenSnapshot = {}
               /\ instruments'[k].Status = instruments[k].Status
               /\ instruments'[k].Pending = instruments[k].Pending
               /\ Settled(instruments'[k])
    <2>1. PICK i : i = instruments[k]
      OBVIOUS
    <2>2. PICK sh \in SUBSET PendingSnapshot : sh = {}
      OBVIOUS
    <2>3. PICK j : j = [i EXCEPT !.OpenSnapshot = sh]
      OBVIOUS
    <2>4. instruments'[k] = j
      BY <1>1, <2>1, <2>2, <2>3
    <2>5. InstOK(k, i) /\ i \in Instrument
      BY <1>2, <2>1 DEF InstrumentsOK
    <2>6. /\ InstOK(k, j) /\ j.Status = i.Status /\ j.Pending = i.Pending
          /\ NextExpectedInstrumentSeq(j) = NextExpectedInstrumentSeq(i)
      BY <2>3, <2>5, ShadowOK
    <2>7. j.OpenSnapshot = {}
      BY <2>2, <2>3, <2>5 DEF Instrument
    <2>8. Settled(j)
      BY <1>2, <2>1, <2>6 DEF Settled
    <2> QED BY <2>1, <2>4, <2>6, <2>7, <2>8
  <1>6. InstrumentsOK'
    <2>1. \A k \in Inst : instruments'[k] \in Instrument
      BY <1>5 DEF InstOK
    <2>2. instruments' \in [Inst -> Instrument]
      BY <1>1, <2>1
    <2> QED BY <1>1, <1>2, <1>5, <2>2 DEF InstrumentsOK, bufferVars
  <1>7. SettledOK' /\ UnknownIsFresh'
    BY <1>1, <1>2, <1>5 DEF SettledOK, UnknownIsFresh
  <1> QED BY <1>3, <1>4, <1>6, <1>7 DEF IndInv

LEMMA StutterOK ==
    ASSUME IndInv, UNCHANGED shardVars
    PROVE  IndInv'
  <1> USE DEF IndInv, shardVars
  <1>1. OtherTypes' /\ InstrumentsOK' /\ UnknownIsFresh' /\ BufferOK'
    BY BufferUnchanged DEF OtherTypes, InstrumentsOK, UnknownIsFresh
  <1>2. SettledOK'
    BY DEF SettledOK, Settled
  <1>3. LoopShape'
    BY DEF LoopShape, Ready
  <1> QED BY <1>1, <1>2, <1>3

LEMMA IndInvStep ==
    ASSUME IndInv, [ShardNext]_shardVars
    PROVE  IndInv'
  <1>1. CASE HandlerStep
    BY <1>1, RebufferHeldOK, DrainOK, ReplayOK, FinishHandlerOK DEF HandlerStep
  <1>2. CASE \E d \in Delta : ApplyDelta(d)
    BY <1>2, ApplyDeltaOK
  <1>3. CASE \E k \in Inst, m \in ManifestSeqs : ApplyInstrumentDefinition(k, m)
    BY <1>3, DefinitionOK
  <1>4. CASE \E k \in Inst, b \in SnapshotBegins : ApplySnapshotBegin(k, b)
    BY <1>4, SnapshotBeginOK
  <1>5. CASE \E k \in Inst, id \in GroupIds, l \in Side \X Price, q \in Qty :
                ApplySnapshotLevel(k, id, l[1], l[2], q)
    BY <1>5, SnapshotLevelOK
  <1>6. CASE \E k \in Inst, id \in GroupIds, anchor \in GroupAnchors :
                ApplySnapshotEnd(k, id, anchor)
    BY <1>6, SnapshotEndOK
  <1>7. CASE \E k \in Inst, anchor \in MktdataSeqs : ApplyInstrumentReset(k, anchor)
    BY <1>7, InstrumentResetOK
  <1>8. CASE ApplyBatchBoundary
    BY <1>8, BatchBoundaryOK
  <1>9. CASE \E m \in ManifestSeqs : PruneManifest(m)
    <2>1. PICK m \in ManifestSeqs : PruneManifest(m)
      BY <1>9
    <2>2. PICK gone : gone = {k \in Inst : refdata[k] # NoDef /\ refdata[k] < m - 1}
      OBVIOUS
    <2>3. /\ Idle /\ gone \in SUBSET Inst /\ Forget(gone)
          /\ sawBatchBoundary' \in BOOLEAN
      BY <2>1, <2>2 DEF PruneManifest, IndInv, OtherTypes
    <2> QED BY <2>3, ForgetOK
  <1>10. CASE \E ch \in Channel : ResetChannel(ch)
    <2>1. PICK ch \in Channel : ResetChannel(ch)
      BY <1>10
    <2>2. PICK gone : gone = {k \in Inst : ChannelOf[k] = ch}
      OBVIOUS
    <2>3. /\ Idle /\ gone \in SUBSET Inst /\ Forget(gone)
          /\ sawBatchBoundary' \in BOOLEAN
      BY <2>1, <2>2 DEF ResetChannel
    <2> QED BY <2>3, ForgetOK
  <1>11. CASE ClearShadows
    BY <1>11, ClearShadowsOK
  <1>12. CASE UNCHANGED shardVars
    BY <1>12, StutterOK
  <1> QED BY <1>1, <1>2, <1>3, <1>4, <1>5, <1>6, <1>7, <1>8, <1>9, <1>10, <1>11, <1>12
          DEF ShardNext

-----------------------------------------------------------------------------
(* The crossed-book monitor.  Not said of the book a running handler has   *)
(* changed: NoteConsistencyPoint, at the end of the handler, is what       *)
(* evaluates it or leaves it to the next batch boundary.                   *)
CrossExact(k) ==
    (instruments[k].Status = "ready" /\ k \notin touched /\ (busy # k \/ ~applied))
        => (k \in crossed <=> Crossed(instruments[k].Book))

CrossInv ==
    /\ busy = None => ~applied
    /\ drain => applied
    /\ \A k \in Inst : CrossExact(k)

(* A step that leaves the monitor alone: whatever is ready after it was    *)
(* ready before with the same book, or is what the handler just changed.   *)
LEMMA CrossKept ==
    ASSUME CrossInv, UNCHANGED <<touched, crossed>>,
           busy' = None => ~applied', drain' => applied',
           \A k \in Inst : instruments'[k].Status = "ready" =>
              \/ busy' = k /\ applied'
              \/ /\ instruments[k].Status = "ready"
                 /\ instruments'[k].Book = instruments[k].Book
                 /\ busy # k \/ ~applied
    PROVE  CrossInv'
  <1> SUFFICES ASSUME NEW k \in Inst, instruments'[k].Status = "ready",
                      k \notin touched', busy' # k \/ ~applied'
               PROVE  k \in crossed' <=> Crossed(instruments'[k].Book)
    BY DEF CrossInv, CrossExact
  <1>1. /\ instruments[k].Status = "ready" /\ instruments'[k].Book = instruments[k].Book
        /\ busy # k \/ ~applied
    OBVIOUS
  <1>2. k \in crossed <=> Crossed(instruments[k].Book)
    BY <1>1 DEF CrossInv, CrossExact
  <1> QED BY <1>1, <1>2

(* What RequireSnapshotAtLeast and an eviction leave of a status.          *)
LEMMA RequireKeepsStatus ==
    ASSUME NEW i, "Status" \in DOMAIN i, NEW seq
    PROVE  /\ RequireSnapshotAtLeast(i, seq).Status = i.Status
           /\ "Status" \in DOMAIN RequireSnapshotAtLeast(i, seq)
  BY DEF RequireSnapshotAtLeast

LEMMA EvictedIsGap ==
    ASSUME NEW i, "Status" \in DOMAIN i, NEW buf
    PROVE  Evicted(i, buf).Status = "gap"
  <1> DEFINE g == [i EXCEPT !.Status = "gap", !.Pending = {}]
  <1>1. g.Status = "gap" /\ "Status" \in DOMAIN g
    OBVIOUS
  <1> HIDE DEF g
  <1>2. \A seq : RequireSnapshotAtLeast(g, seq).Status = "gap"
    BY <1>1, RequireKeepsStatus
  <1> QED BY <1>2 DEF Evicted, g

(* bufferDelta changes an instrument only to demote it.                    *)
LEMMA BufferDemotes ==
    ASSUME NEW insts, DOMAIN insts = Inst, \A v \in Inst : "Status" \in DOMAIN insts[v],
           NEW d, BufferDelta(insts, d), NEW k \in Inst
    PROVE  instruments'[k] = insts[k] \/ instruments'[k].Status = "gap"
  <1>1. \/ instruments' = insts
        \/ \E v \in Inst : \E b : instruments' = [insts EXCEPT ![v] = Evicted(@, b)]
    BY DEF BufferDelta, EvictLargestBuffer
  <1>2. ASSUME NEW v \in Inst, NEW b, instruments' = [insts EXCEPT ![v] = Evicted(@, b)]
        PROVE  instruments'[k] = insts[k] \/ instruments'[k].Status = "gap"
    <2>1. Evicted(insts[v], b).Status = "gap"
      BY EvictedIsGap
    <2>2. instruments'[k] = IF k = v THEN Evicted(insts[v], b) ELSE insts[k]
      BY <1>2
    <2> QED BY <2>1, <2>2
  <1> QED BY <1>1, <1>2

(* applyDeltaToReady, from an idle shard or from the replay loop.          *)
LEMMA CrossDeltaToReady ==
    ASSUME IndInv, CrossInv, NEW d \in Delta, NEW rest, Ready(d.inst),
           busy = None \/ busy = d.inst, ~drain, ApplyDeltaToReady(d, rest)
    PROVE  CrossInv'
  <1>1. /\ d.inst \in Inst /\ d.inst # None /\ instruments \in [Inst -> Instrument]
        /\ instruments[d.inst] \in Instrument /\ instruments[d.inst].Status = "ready"
    BY ShardAssumption DEF Delta, IndInv, InstrumentsOK, Ready
  <1>2. UNCHANGED <<touched, crossed>> /\ busy' = d.inst
        /\ (applied' = applied \/ applied')
        /\ (drain' => applied')
    BY DEF ApplyDeltaToReady, DiscardStale, DemoteMalformed, HoldOutOfOrder, DeclareGap,
           ApplyContiguous, Loop
  <1>3. \A k \in Inst : busy = k => k = d.inst /\ busy' = k
    BY <1>2, ShardAssumption
  <1>4. ASSUME NEW k \in Inst, instruments'[k].Status = "ready", ~(busy' = k /\ applied')
        PROVE  /\ instruments[k].Status = "ready"
               /\ instruments'[k].Book = instruments[k].Book
    <2>1. instruments[k] \in Instrument
      BY <1>1
    <2>2. CASE DiscardStale(d, rest)
      BY <1>4, <2>2 DEF DiscardStale
    <2>3. CASE DemoteMalformed(d, rest)
      BY <1>1, <1>4, <2>1, <2>3 DEF DemoteMalformed, RequireSnapshotAtLeast, Instrument
    <2>4. CASE HoldOutOfOrder(d, rest)
      BY <1>1, <1>4, <2>1, <2>4 DEF HoldOutOfOrder, Instrument
    <2>5. CASE DeclareGap(d, rest)
      <3>1. PICK i : i = [instruments[d.inst] EXCEPT !.Status = "gap", !.Pending = {}]
        OBVIOUS
      <3>2. i.Status = "gap" /\ "Status" \in DOMAIN i
        BY <1>1, <3>1 DEF Instrument
      <3>3. PICK seq : seq = MaxPi(d.pi - 1,
                         {p.pi : p \in {q \in instruments[d.inst].Pending : q.pi # d.pi}})
        OBVIOUS
      <3>4. PICK insts :
                insts = [instruments EXCEPT ![d.inst] = RequireSnapshotAtLeast(i, seq)]
        OBVIOUS
      <3>5. BufferDelta(insts, d)
        BY <2>5, <3>1, <3>3, <3>4 DEF DeclareGap
      <3>6. /\ DOMAIN insts = Inst
            /\ \A l \in Inst : insts[l] = IF l = d.inst THEN RequireSnapshotAtLeast(i, seq)
                                                        ELSE instruments[l]
        BY <1>1, <3>4
      <3>7. /\ RequireSnapshotAtLeast(i, seq).Status = "gap"
            /\ "Status" \in DOMAIN RequireSnapshotAtLeast(i, seq)
        BY <3>2, RequireKeepsStatus
      <3>8. \A l \in Inst : "Status" \in DOMAIN instruments[l]
        BY <1>1 DEF Instrument
      <3>9. instruments'[k] = insts[k] \/ instruments'[k].Status = "gap"
        BY <3>5, <3>6, <3>7, <3>8, BufferDemotes
      <3> QED BY <1>4, <3>6, <3>7, <3>9
    <2>6. CASE ApplyContiguous(d, rest)
      BY <1>1, <1>4, <2>1, <2>6 DEF ApplyContiguous, Loop
    <2> QED BY <2>2, <2>3, <2>4, <2>5, <2>6 DEF ApplyDeltaToReady
  <1>5. \A k \in Inst : instruments'[k].Status = "ready" =>
           \/ busy' = k /\ applied'
           \/ /\ instruments[k].Status = "ready"
              /\ instruments'[k].Book = instruments[k].Book
              /\ busy # k \/ ~applied
    BY <1>2, <1>3, <1>4
  <1> QED BY <1>1, <1>2, <1>5, CrossKept

(* A step outside the handlers that only demotes, changes shadows or       *)
(* makes a key known.                                                      *)
LEMMA CrossIdle ==
    ASSUME IndInv, CrossInv, Idle, UNCHANGED <<touched, crossed>>, UNCHANGED loopVars,
           \A k \in Inst : instruments'[k].Status = "ready" =>
              /\ instruments[k].Status = "ready"
              /\ instruments'[k].Book = instruments[k].Book
    PROVE  CrossInv'
  <1>1. busy' = None /\ ~applied' /\ ~applied /\ ~drain'
    BY DEF CrossInv, Idle, loopVars, IndInv, LoopShape
  <1> QED BY <1>1, CrossKept

LEMMA CrossRebuffer ==
    ASSUME IndInv, CrossInv, RebufferHeld
    PROVE  CrossInv'
  <1>1. /\ instruments \in [Inst -> Instrument]
        /\ UNCHANGED <<touched, crossed, busy, drain, applied>>
    BY DEF IndInv, InstrumentsOK, RebufferHeld, crossVars
  <1>2. PICK d \in held : BufferDelta(instruments, d)
    BY DEF RebufferHeld
  <1>3. DOMAIN instruments = Inst /\ \A v \in Inst : "Status" \in DOMAIN instruments[v]
    BY <1>1 DEF Instrument
  <1>4. \A k \in Inst : instruments'[k] = instruments[k] \/ instruments'[k].Status = "gap"
    BY <1>2, <1>3, BufferDemotes
  <1>5. (busy' = None => ~applied') /\ (drain' => applied')
    BY <1>1 DEF CrossInv
  <1>6. \A k \in Inst : instruments'[k].Status = "ready" =>
           \/ busy' = k /\ applied'
           \/ /\ instruments[k].Status = "ready"
              /\ instruments'[k].Book = instruments[k].Book
              /\ busy # k \/ ~applied
    BY <1>1, <1>4
  <1> QED BY <1>1, <1>5, <1>6, CrossKept

LEMMA CrossDrain ==
    ASSUME IndInv, CrossInv, Drain
    PROVE  CrossInv'
  <1>1. /\ instruments \in [Inst -> Instrument] /\ applied /\ applied' /\ busy # None
        /\ UNCHANGED <<touched, crossed, busy>>
    BY DEF IndInv, InstrumentsOK, Drain, crossVars, CrossInv
  <1>2. \A k \in Inst \ {busy} : instruments'[k] = instruments[k]
    BY <1>1 DEF Drain
  <1>3. \A k \in Inst : instruments'[k].Status = "ready" =>
           \/ busy' = k /\ applied'
           \/ /\ instruments[k].Status = "ready"
              /\ instruments'[k].Book = instruments[k].Book
              /\ busy # k \/ ~applied
    BY <1>1, <1>2
  <1> QED BY <1>1, <1>3, CrossKept

LEMMA CrossReplay ==
    ASSUME IndInv, CrossInv, Replay
    PROVE  CrossInv'
  <1>1. /\ instruments \in [Inst -> Instrument] /\ ~drain /\ replay # <<>>
        /\ replay \in Seq(Delta) /\ busy # None
        /\ \A j \in 1 .. Len(replay) : replay[j].inst = busy
    BY DEF IndInv, InstrumentsOK, OtherTypes, LoopShape, Replay
  <1>2. PICK d : d = Head(replay)
    OBVIOUS
  <1>3. d \in Delta /\ d.inst = busy
    BY <1>1, <1>2, TailType
  <1>4. CASE UNCHANGED <<instruments, crossVars, busy, drain, applied>>
    <2>1. UNCHANGED <<instruments, touched, crossed, busy, drain, applied>>
      BY <1>4 DEF crossVars
    <2> QED BY <2>1, Zenon DEF CrossInv, CrossExact
  <1>5. CASE /\ BufferDelta(instruments, d)
             /\ UNCHANGED <<crossVars, busy, drain, applied>>
    <2>1. DOMAIN instruments = Inst /\ \A v \in Inst : "Status" \in DOMAIN instruments[v]
      BY <1>1 DEF Instrument
    <2>2. \A k \in Inst : instruments'[k] = instruments[k] \/ instruments'[k].Status = "gap"
      BY <1>5, <2>1, BufferDemotes
    <2>3. /\ UNCHANGED <<touched, crossed, busy, drain, applied>>
          /\ (busy' = None => ~applied') /\ (drain' => applied')
      BY <1>5 DEF CrossInv, crossVars
    <2>4. \A k \in Inst : instruments'[k].Status = "ready" =>
             \/ busy' = k /\ applied'
             \/ /\ instruments[k].Status = "ready"
                /\ instruments'[k].Book = instruments[k].Book
                /\ busy # k \/ ~applied
      BY <2>2, <2>3
    <2> QED BY <2>3, <2>4, CrossKept
  <1>6. CASE Ready(d.inst) /\ ApplyDeltaToReady(d, Tail(replay))
    BY <1>1, <1>3, <1>6, CrossDeltaToReady
  <1> QED BY <1>2, <1>4, <1>5, <1>6 DEF Replay, bookVars

(* The end of a handler is where the book it changed is looked at again.   *)
LEMMA CrossFinish ==
    ASSUME IndInv, CrossInv, FinishHandler
    PROVE  CrossInv'
  <1>1. busy # None /\ busy' = None /\ ~applied' /\ ~drain' /\ UNCHANGED instruments
    BY DEF FinishHandler, bookVars, CrossInv
  <1>2. ASSUME NEW k \in Inst PROVE CrossExact(k)'
    <2>1. CrossExact(k)
      BY DEF CrossInv
    <2>2. CASE ~applied
      <3>1. UNCHANGED <<touched, crossed>>
        BY <2>2 DEF FinishHandler, NoteConsistencyPoint
      <3> QED BY <1>1, <2>1, <2>2, <3>1 DEF CrossExact
    <2>3. CASE applied /\ sawBatchBoundary
      <3>1. touched' = touched \cup {busy} /\ UNCHANGED crossed
        BY <2>3 DEF FinishHandler, NoteConsistencyPoint
      <3> QED BY <1>1, <2>1, <3>1 DEF CrossExact
    <2>4. CASE applied /\ ~sawBatchBoundary
      <3>1. EvaluateCrossed(busy) /\ UNCHANGED touched
        BY <2>4 DEF FinishHandler, NoteConsistencyPoint
      <3>2. crossed' = IF Crossed(instruments[busy].Book) THEN crossed \cup {busy}
                                                          ELSE crossed \ {busy}
        BY <3>1 DEF EvaluateCrossed
      <3>3. CASE k = busy
        BY <1>1, <3>2, <3>3 DEF CrossExact
      <3>4. CASE k # busy
        BY <1>1, <2>1, <3>1, <3>2, <3>4 DEF CrossExact
      <3> QED BY <3>3, <3>4
    <2> QED BY <2>2, <2>3, <2>4
  <1> QED BY <1>1, <1>2 DEF CrossInv

LEMMA CrossDelta ==
    ASSUME IndInv, CrossInv, NEW d \in Delta, ApplyDelta(d)
    PROVE  CrossInv'
  <1>1. Idle /\ instruments \in [Inst -> Instrument] /\ ~drain
    BY DEF ApplyDelta, IndInv, InstrumentsOK, LoopShape, Idle
  <1>2. CASE BufferDelta(instruments, d) /\ UNCHANGED <<crossVars, loopVars>>
    <2>1. DOMAIN instruments = Inst /\ \A v \in Inst : "Status" \in DOMAIN instruments[v]
      BY <1>1 DEF Instrument
    <2>2. \A k \in Inst : instruments'[k] = instruments[k] \/ instruments'[k].Status = "gap"
      BY <1>2, <2>1, BufferDemotes
    <2>3. UNCHANGED <<touched, crossed>> /\ UNCHANGED loopVars
      BY <1>2 DEF crossVars
    <2>4. \A k \in Inst : instruments'[k].Status = "ready" =>
              /\ instruments[k].Status = "ready"
              /\ instruments'[k].Book = instruments[k].Book
      BY <2>2
    <2> QED BY <1>1, <2>3, <2>4, CrossIdle
  <1>3. CASE Ready(d.inst) /\ ApplyDeltaToReady(d, <<>>)
    BY <1>1, <1>3, CrossDeltaToReady DEF Idle
  <1> QED BY <1>2, <1>3 DEF ApplyDelta

LEMMA CrossSnapshot ==
    ASSUME IndInv, CrossInv, NEW k \in Inst,
           \/ \E b : ApplySnapshotBegin(k, b)
           \/ \E id, side, price, qty : ApplySnapshotLevel(k, id, side, price, qty)
           \/ \E id, anchor : ApplySnapshotEnd(k, id, anchor)
    PROVE  CrossInv'
  <1>1. Idle /\ instruments \in [Inst -> Instrument] /\ instruments[k] \in Instrument
    BY DEF ApplySnapshotBegin, ApplySnapshotLevel, ApplySnapshotEnd, IndInv, InstrumentsOK
  <1>2. ASSUME NEW j, j.Status = instruments[k].Status, j.Book = instruments[k].Book,
               instruments' = [instruments EXCEPT ![k] = j],
               UNCHANGED <<crossVars, loopVars>>
        PROVE  CrossInv'
    <2>1. \A l \in Inst : instruments'[l] = IF l = k THEN j ELSE instruments[l]
      BY <1>1, <1>2
    <2>2. UNCHANGED <<touched, crossed>> /\ UNCHANGED loopVars
      BY <1>2 DEF crossVars
    <2>3. \A l \in Inst : instruments'[l].Status = "ready" =>
              /\ instruments[l].Status = "ready"
              /\ instruments'[l].Book = instruments[l].Book
      BY <1>2, <2>1
    <2> QED BY <1>1, <2>2, <2>3, CrossIdle
  <1>3. ASSUME NEW b, ApplySnapshotBegin(k, b) PROVE CrossInv'
    <2>1. PICK j : j = IF SnapshotAcceptable(instruments[k], b.anchor, b.last)
                       THEN BeginSnapshot(instruments[k], b) ELSE instruments[k]
      OBVIOUS
    <2>2. instruments' = [instruments EXCEPT ![k] = j] /\ UNCHANGED <<crossVars, loopVars>>
      BY <1>1, <1>3, <2>1 DEF ApplySnapshotBegin
    <2>3. j.Status = instruments[k].Status /\ j.Book = instruments[k].Book
      BY <1>1, <2>1 DEF BeginSnapshot, Instrument
    <2> QED BY <1>2, <2>2, <2>3
  <1>4. ASSUME NEW id, NEW side, NEW price, NEW qty,
               ApplySnapshotLevel(k, id, side, price, qty)
        PROVE  CrossInv'
    <2>1. PICK j : j = AddSnapshotLevel(instruments[k], id, side, price, qty)
      OBVIOUS
    <2>2. instruments' = [instruments EXCEPT ![k] = j] /\ UNCHANGED <<crossVars, loopVars>>
      BY <1>1, <1>4, <2>1 DEF ApplySnapshotLevel
    <2>3. j.Status = instruments[k].Status /\ j.Book = instruments[k].Book
      BY <1>1, <2>1 DEF AddSnapshotLevel, Instrument
    <2> QED BY <1>2, <2>2, <2>3
  <1>5. ASSUME NEW id, NEW anchor, ApplySnapshotEnd(k, id, anchor) PROVE CrossInv'
    <2>1. CASE UNCHANGED shardVars
      BY <1>1, <2>1, CrossIdle DEF shardVars, loopVars
    <2>2. CASE /\ instruments' = [instruments EXCEPT ![k].OpenSnapshot = {}]
               /\ UNCHANGED <<crossVars, loopVars>>
      <3>1. PICK j : j = [instruments[k] EXCEPT !.OpenSnapshot = {}]
        OBVIOUS
      <3>2. j.Status = instruments[k].Status /\ j.Book = instruments[k].Book
        BY <1>1, <3>1 DEF Instrument
      <3>3. instruments' = [instruments EXCEPT ![k] = j]
        BY <1>1, <2>2, <3>1
      <3> QED BY <1>2, <2>2, <3>2, <3>3
    <2>3. CASE /\ \E s : instruments' = [instruments EXCEPT ![k] = CommitSnapshot(@, s)]
               /\ \E rest : Loop(k, {}, FALSE, rest, TRUE)
               /\ UNCHANGED crossVars
      <3>1. /\ busy' = k /\ applied' /\ ~drain' /\ busy = None /\ k # None
            /\ UNCHANGED <<touched, crossed>>
        BY <1>1, <2>3, ShardAssumption DEF Loop, crossVars, Idle
      <3>2. \A l \in Inst \ {k} : instruments'[l] = instruments[l]
        BY <1>1, <2>3
      <3>3. \A l \in Inst : instruments'[l].Status = "ready" =>
               \/ busy' = l /\ applied'
               \/ /\ instruments[l].Status = "ready"
                  /\ instruments'[l].Book = instruments[l].Book
                  /\ busy # l \/ ~applied
        BY <3>1, <3>2, ShardAssumption
      <3> QED BY <3>1, <3>3, CrossKept
    <2> QED BY <1>5, <2>1, <2>2, <2>3 DEF ApplySnapshotEnd
  <1> QED BY <1>3, <1>4, <1>5

(* A reset and a forgotten instrument leave the set with their books.      *)
LEMMA CrossCleared ==
    ASSUME IndInv, CrossInv, Idle, UNCHANGED loopVars, NEW gone,
           touched' = touched \ gone, crossed' = crossed \ gone,
           \A k \in Inst : \/ k \in gone /\ instruments'[k].Status = "awaiting"
                           \/ k \notin gone /\ instruments'[k] = instruments[k]
    PROVE  CrossInv'
  <1>1. busy' = None /\ ~applied' /\ ~applied /\ ~drain'
    BY DEF CrossInv, Idle, loopVars, IndInv, LoopShape
  <1>2. ASSUME NEW k \in Inst PROVE CrossExact(k)'
    BY <1>1 DEF CrossInv, CrossExact
  <1> QED BY <1>1, <1>2 DEF CrossInv

LEMMA CrossReset ==
    ASSUME IndInv, CrossInv, NEW k \in Inst, NEW anchor, ApplyInstrumentReset(k, anchor)
    PROVE  CrossInv'
  <1>1. /\ Idle /\ UNCHANGED loopVars
        /\ crossed' = crossed \ {k} /\ touched' = touched \ {k}
        /\ instruments' = [instruments EXCEPT ![k] = ResetInstrument(anchor)]
    BY DEF ApplyInstrumentReset
  <1>2. instruments \in [Inst -> Instrument]
    BY DEF IndInv, InstrumentsOK
  <1>3. ResetInstrument(anchor).Status = "awaiting"
    BY DEF ResetInstrument, NewInstrument
  <1>4. \A l \in Inst : \/ l \in {k} /\ instruments'[l].Status = "awaiting"
                        \/ l \notin {k} /\ instruments'[l] = instruments[l]
    BY <1>1, <1>2, <1>3
  <1> QED BY <1>1, <1>4, CrossCleared

LEMMA CrossForget ==
    ASSUME IndInv, CrossInv, Idle, NEW gone, Forget(gone)
    PROVE  CrossInv'
  <1>1. /\ UNCHANGED loopVars /\ touched' = touched \ gone /\ crossed' = crossed \ gone
        /\ instruments' = [k \in Inst |-> IF k \in gone THEN NewInstrument
                                                        ELSE instruments[k]]
    BY DEF Forget
  <1>2. NewInstrument.Status = "awaiting"
    BY DEF NewInstrument
  <1>3. \A k \in Inst : \/ k \in gone /\ instruments'[k].Status = "awaiting"
                        \/ k \notin gone /\ instruments'[k] = instruments[k]
    BY <1>1, <1>2
  <1> QED BY <1>1, <1>3, CrossCleared

(* A boundary evaluates every touched book that still has an instrument.   *)
LEMMA CrossBoundary ==
    ASSUME IndInv, CrossInv, ApplyBatchBoundary
    PROVE  CrossInv'
  <1>1. /\ Idle /\ UNCHANGED <<instruments, loopVars>> /\ touched' = {}
        /\ crossed' = {k \in crossed : k \notin touched \cap known}
                      \cup {k \in touched \cap known : Crossed(instruments[k].Book)}
    BY DEF ApplyBatchBoundary, bookVars
  <1>2. busy' = None /\ busy = None /\ ~applied' /\ ~applied /\ ~drain'
    BY <1>1 DEF CrossInv, Idle, loopVars, IndInv, LoopShape
  <1>3. ASSUME NEW k \in Inst PROVE CrossExact(k)'
    <2>1. SUFFICES ASSUME instruments[k].Status = "ready"
                   PROVE  k \in crossed' <=> Crossed(instruments[k].Book)
      BY <1>1 DEF CrossExact
    <2>2. k \in known
      BY <2>1 DEF IndInv, UnknownIsFresh
    <2>3. CASE k \in touched
      BY <1>1, <2>2, <2>3
    <2>4. CASE k \notin touched
      <3>1. k \in crossed <=> Crossed(instruments[k].Book)
        BY <1>2, <2>1, <2>4 DEF CrossInv, CrossExact
      <3> QED BY <1>1, <2>4, <3>1
    <2> QED BY <2>3, <2>4
  <1> QED BY <1>2, <1>3 DEF CrossInv

LEMMA CrossShadows ==
    ASSUME IndInv, CrossInv, ClearShadows
    PROVE  CrossInv'
  <1>1. /\ Idle /\ UNCHANGED loopVars /\ UNCHANGED <<touched, crossed>>
        /\ instruments \in [Inst -> Instrument]
        /\ \A k \in Inst : instruments'[k] = [instruments[k] EXCEPT !.OpenSnapshot = {}]
    BY DEF ClearShadows, crossVars, IndInv, InstrumentsOK
  <1>2. ASSUME NEW k \in Inst
        PROVE  /\ instruments'[k].Status = instruments[k].Status
               /\ instruments'[k].Book = instruments[k].Book
    <2>1. instruments[k] \in Instrument
      BY <1>1
    <2> QED BY <1>1, <2>1 DEF Instrument
  <1> QED BY <1>1, <1>2, CrossIdle

LEMMA CrossInvStep ==
    ASSUME IndInv, CrossInv, [ShardNext]_shardVars
    PROVE  CrossInv'
  <1>1. CASE HandlerStep
    BY <1>1, CrossRebuffer, CrossDrain, CrossReplay, CrossFinish DEF HandlerStep
  <1>2. CASE \E d \in Delta : ApplyDelta(d)
    BY <1>2, CrossDelta
  <1>3. CASE \E k \in Inst, m \in ManifestSeqs : ApplyInstrumentDefinition(k, m)
    BY <1>3, CrossIdle DEF ApplyInstrumentDefinition, crossVars
  <1>4. CASE \/ \E k \in Inst, b \in SnapshotBegins : ApplySnapshotBegin(k, b)
             \/ \E k \in Inst, id \in GroupIds, l \in Side \X Price, q \in Qty :
                   ApplySnapshotLevel(k, id, l[1], l[2], q)
             \/ \E k \in Inst, id \in GroupIds, anchor \in GroupAnchors :
                   ApplySnapshotEnd(k, id, anchor)
    BY <1>4, CrossSnapshot
  <1>5. CASE \E k \in Inst, anchor \in MktdataSeqs : ApplyInstrumentReset(k, anchor)
    BY <1>5, CrossReset
  <1>6. CASE ApplyBatchBoundary
    BY <1>6, CrossBoundary
  <1>7. CASE \/ \E m \in ManifestSeqs : PruneManifest(m)
             \/ \E ch \in Channel : ResetChannel(ch)
    BY <1>7, CrossForget DEF PruneManifest, ResetChannel
  <1>8. CASE ClearShadows
    BY <1>8, CrossShadows
  <1>9. CASE UNCHANGED shardVars
    <2>1. UNCHANGED <<instruments, touched, crossed, busy, drain, applied>>
      BY <1>9 DEF shardVars
    <2> QED BY <2>1, Zenon DEF CrossInv, CrossExact
  <1> QED BY <1>1, <1>2, <1>3, <1>4, <1>5, <1>6, <1>7, <1>8, <1>9 DEF ShardNext

-----------------------------------------------------------------------------
(* The theorems.  No record sequence, however malformed, duplicated,       *)
(* reordered or invented, takes a shard out of any of these.               *)

(* Every invariant of MbpShard holds in every reachable state of a shard.  *)
THEOREM ShardCorrect == ShardSpec => []ShardInv
  <1>1. ShardInit => IndInv
    BY IndInvInit
  <1>2. IndInv /\ [ShardNext]_shardVars => IndInv'
    BY IndInvStep
  <1>3. IndInv => ShardInv
    BY IndInvGives
  <1> QED BY <1>1, <1>2, <1>3, PTL DEF ShardSpec

(* The shard's state stays well typed: trackers and requirements stay      *)
(* natural numbers, the buffers sequences of deltas (shard.go, Shard).     *)
THEOREM ShardTypeCorrect == ShardSpec => []TypeOK
  <1>1. ShardInv => TypeOK
    BY DEF ShardInv
  <1> QED BY <1>1, ShardCorrect, PTL

(* bufferedN is exactly the number of buffered deltas and never exceeds    *)
(* maxBuffered once bufferDelta has returned, for every budget.            *)
THEOREM ShardBudgetExact == ShardSpec => []BudgetExact
  <1>1. ShardInv => BudgetExact
    BY DEF ShardInv
  <1> QED BY <1>1, ShardCorrect, PTL

(* bufferDelta's sorted insert and applyInstrumentReset's filter leave     *)
(* every buffer in datagram order, which replayBuffer relies on.           *)
THEOREM ShardBuffersSorted == ShardSpec => []BuffersSorted
  <1>1. ShardInv => BuffersSorted
    BY DEF ShardInv
  <1> QED BY <1>1, ShardCorrect, PTL

(* A ready book leaves no delta behind in the buffer: EndSnapshot hands    *)
(* all of them to replayBuffer, and a demotion empties or refills it.      *)
THEOREM ShardReadyHasNoBacklog == ShardSpec => []ReadyHasNoBacklog
  <1>1. ShardInv => ReadyHasNoBacklog
    BY DEF ShardInv
  <1> QED BY <1>1, ShardCorrect, PTL

(* No snapshot makes a book ready while a delta it lost to                 *)
(* demoteMalformed is not covered by it.                                   *)
THEOREM ShardReadyHasNothingLost == ShardSpec => []ReadyHasNothingLost
  <1>1. ShardInv => ReadyHasNothingLost
    BY DEF ShardInv
  <1> QED BY <1>1, ShardCorrect, PTL

(* The reorder window holds only deltas ahead of the tracker, at most      *)
(* reorderWindow of them, and never the one that is next once the drain    *)
(* loop of applyDeltaToReady has ended.                                    *)
THEOREM ShardPendingInWindow == ShardSpec => []PendingInWindow
  <1>1. ShardInv => PendingInWindow
    BY DEF ShardInv
  <1> QED BY <1>1, ShardCorrect, PTL

(* An instrument in gap can only be recovered by a snapshot that is past   *)
(* everything its book has applied (RequireSnapshotAtLeast).               *)
THEOREM ShardGapDemandsNewer == ShardSpec => []GapDemandsNewer
  <1>1. ShardInv => GapDemandsNewer
    BY DEF ShardInv
  <1> QED BY <1>1, ShardCorrect, PTL

(* A book that is ready has no delta left behind and no loss outstanding,  *)
(* and a gap asks for more than was applied: shard.go's bufferDelta,       *)
(* demoteMalformed and RequireSnapshotAtLeast taken together.              *)
THEOREM ShardReadyIsCaughtUp == ShardSpec => []ReadyIsCaughtUp
  <1>1. ShardInv => ReadyIsCaughtUp
    BY DEF ShardInv, ReadyIsCaughtUp
  <1> QED BY <1>1, ShardCorrect, PTL

(* Deltas that wait, in the reorder window or in a buffer, wait in order   *)
(* and within bounds (applyDeltaToReady, bufferDelta).                     *)
THEOREM ShardDeltasWaitInOrder == ShardSpec => []DeltasWaitInOrder
  <1>1. ShardInv => DeltasWaitInOrder
    BY DEF ShardInv, DeltasWaitInOrder
  <1> QED BY <1>1, ShardCorrect, PTL

(* A ready book that no handler is changing is in Shard.crossed exactly    *)
(* when it is crossed, as long as the channel has sent no boundary: every  *)
(* way a book changes or becomes ready ends at a consistency point, and    *)
(* every way it is dropped takes it out (noteConsistencyPoint).            *)
THEOREM ShardCrossedIsExact == ShardSpec => []CrossedIsExact
  <1>1. ShardInit => IndInv /\ CrossInv
    <2>1. ASSUME ShardInit PROVE CrossInv
      <3>1. ~applied /\ ~drain /\ \A k \in Inst : instruments[k] = NewInstrument
        BY <2>1 DEF ShardInit
      <3>2. NewInstrument.Status = "awaiting"
        BY DEF NewInstrument
      <3> QED BY <3>1, <3>2 DEF CrossInv, CrossExact
    <2> QED BY <2>1, IndInvInit
  <1>2. IndInv /\ CrossInv /\ [ShardNext]_shardVars => IndInv' /\ CrossInv'
    BY IndInvStep, CrossInvStep
  <1>3. IndInv /\ CrossInv => CrossedIsExact
    BY DEF CrossInv, CrossExact, CrossedIsExact, Ready
  <1> QED BY <1>1, <1>2, <1>3, PTL DEF ShardSpec
=============================================================================
