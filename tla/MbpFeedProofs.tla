---------------------------- MODULE MbpFeedProofs -----------------------------
(***************************************************************************)
(* Proofs about the market-by-price send path and about the feed end to    *)
(* end, for every set of instruments, deltas and books, every datagram     *)
(* capacity, every bound of the publisher and of the subscriber's buffers. *)
(*                                                                         *)
(* The send path first: PubInv follows a number from the place it is spent *)
(* to every place it is quoted: a packed message quotes the number its     *)
(* datagram will take, a reset and a snapshot quote a number the channel   *)
(* has reached, and an anchor that is owed is at least the anchor of every *)
(* reset of the instrument that left.                                      *)
(*                                                                         *)
(* FeedInv joins the invariants of the two ends (IndInv, PubInv, TruthInv) *)
(* with what lies between them: every record in flight, buffered, in a     *)
(* window or in a loop was sent; every shadow was opened by the begin of a *)
(* snapshot; and a reset once handled leaves a requirement that only a     *)
(* snapshot reaching its anchor meets.  WholeInv adds, while no snapshot   *)
(* datagram is repeated, that a shadow's count is the number of levels in  *)
(* it and that a ready book is the publisher's.                            *)
(***************************************************************************)
EXTENDS MbpFeed, MbpShardProofs, FiniteSetTheorems, SequenceTheorems, TLAPS

-----------------------------------------------------------------------------
(* The send path.                                                          *)

DeltaRec ==
    [type : {"delta"}, inst : Inst, mkt : Nat, pi : Nat, op : Op]

ResetRec ==
    [type : {"instrument_reset"}, inst : Inst, anchor : Nat, gen : Nat]

(* The messages of one datagram.                                           *)
Content(d) == {d.recs[n] : n \in DOMAIN d.recs}

AllDeltas == Deltas \cup OpenDeltas

(* Which datagrams the mktdata channel has carried, and what is packed.    *)
DatagramsInv ==
    /\ open \in Seq(DeltaRec)
    /\ \A r \in OpenDeltas : r.mkt = mktSeq
    /\ \A d \in mktdata :
          /\ d.seq \in Nat /\ d.seq < mktSeq
          /\ \A r \in Content(d) :
                \/ r \in DeltaRec /\ r.mkt = d.seq
                \/ r \in ResetRec /\ r.anchor = d.seq /\ r.gen <= gen[r.inst]
    /\ \A d, e \in mktdata : d.seq = e.seq => d = e

(* An instrument's numbers are spent once, and never past `last'.          *)
DeltasInv ==
    /\ \A a \in AllDeltas : a \in DeltaRec /\ a.mkt <= mktSeq /\ a.pi <= last[a.inst]
    /\ \A a, b \in AllDeltas : a.inst = b.inst =>
          /\ a.pi = b.pi => a = b
          /\ a.pi < b.pi => a.mkt <= b.mkt

(* While a snapshot of k is owed, the latest anchor owed reaches the       *)
(* anchor of every reset of k that was ever sent.                          *)
OwedInv ==
    /\ \A e \in owed : e[2] <= mktSeq
    /\ \A d \in mktdata : \A r \in Content(d) : r.type = "instrument_reset" =>
          \A e \in owed : e[1] = r.inst =>
             \E f \in owed : f[1] = r.inst /\ r.anchor <= f[2]

(* What a snapshot declares was true of the channel when it was captured.  *)
SnapshotsInv ==
    \A d \in snapshots : \A s \in Content(d) : s.type = "snapshot_begin" =>
        /\ s.inst \in Inst /\ s.anchor \in Nat /\ s.last \in Nat /\ d.gen \in Nat
        /\ s.anchor <= mktSeq /\ s.last <= last[s.inst] /\ d.gen <= gen[s.inst]

PubInv ==
    /\ PubTypeOK
    /\ DatagramsInv
    /\ DeltasInv
    /\ OwedInv
    /\ SnapshotsInv
    /\ AnchorSeparates
    /\ ResetBounds

-----------------------------------------------------------------------------
(* Operators.                                                              *)

(* The records of a set of datagrams are the contents of its members.      *)
LEMMA RecordsContent ==
    ASSUME NEW D
    PROVE  /\ \A r : r \in Records(D) <=> \E d \in D : r \in Content(d)
           /\ \A d : Records({d}) = Content(d)
  BY DEF Records, Content

(* A delta of an adapter keeps a book a book.                              *)
LEMMA ApplyOpBook ==
    ASSUME NEW b \in Book, NEW op \in Ops
    PROVE  ApplyOp(b, op) \in Book
  <1>1. op \in Op /\ ~Malformed(op)
    BY PublisherAssumption
  <1>2. CASE op.type = "level_update"
    <2>1. op \in LevelUpdateOp
      BY <1>1, <1>2 DEF Op, BookClearOp
    <2>2. op.qty \in Qty \cup {0}
      BY <2>1 DEF LevelUpdateOp
    <2> QED BY <1>2, <2>2 DEF ApplyOp, ApplyLevelUpdate, Book
  <1>3. CASE op.type # "level_update"
    BY <1>3 DEF ApplyOp, ApplyBookClear, Book
  <1> QED BY <1>2, <1>3

(* The levels of a book can be put in an order, so a snapshot has one      *)
(* message per level.                                                      *)
LEMMA OrderedLevelsSeq ==
    ASSUME NEW b \in Book
    PROVE  /\ Cardinality(Levels(b)) \in Nat
           /\ OrderedLevels(b) \in [1 .. Cardinality(Levels(b)) -> Levels(b)]
           /\ \A m, n \in 1 .. Cardinality(Levels(b)) :
                 OrderedLevels(b)[m] = OrderedLevels(b)[n] => m = n
  <1> DEFINE L == Levels(b)
             N == Cardinality(L)
             Inj(s) == \A m, n \in DOMAIN s : s[m] = s[n] => m = n
  <1>1. IsFiniteSet(L)
    <2>1. IsFiniteSet(Side)
      <3>1. Side = {"bid"} \cup {"ask"}
        BY DEF Side
      <3> QED BY <3>1, FS_Singleton, FS_AddElement
    <2>2. IsFiniteSet(Side \X Price)
      BY <2>1, PublisherAssumption, FS_Product
    <2> QED BY <2>2, FS_Subset DEF Levels
  <1>2. N \in Nat /\ ExistsBijection(1 .. N, L)
    BY <1>1, FS_CardinalityType
  <1>3. \E s \in [1 .. N -> L] : Inj(s)
    <2> HIDE DEF L, N
    <2>1. PICK f : f \in Bijection(1 .. N, L)
      BY <1>2 DEF ExistsBijection
    <2>2. f \in [1 .. N -> L] /\ \A m, n \in 1 .. N : f[m] = f[n] => m = n
      BY <2>1 DEF Bijection, Injection, IsInjective
    <2> QED BY <2>2
  <1> QED BY <1>2, <1>3 DEF OrderedLevels

(* The records of a snapshot of k that declares anchor, last number n and  *)
(* the book b.                                                             *)
BeginRec(k, id, anchor, n, b) ==
    [type |-> "snapshot_begin", inst |-> k, id |-> id, anchor |-> anchor,
     total |-> Cardinality(Levels(b)), last |-> n]

LevelRec(id, b, l) ==
    [type |-> "snapshot_level", id |-> id, side |-> l[1], price |-> l[2], qty |-> b[l]]

EndRec(k, id, anchor) ==
    [type |-> "snapshot_end", inst |-> k, id |-> id, anchor |-> anchor]

GroupRecs(k, id, anchor, n, b) ==
    {BeginRec(k, id, anchor, n, b), EndRec(k, id, anchor)}
        \cup {LevelRec(id, b, l) : l \in Levels(b)}

(* What is in a group is told apart by the type.                           *)
LEMMA GroupRecsTypes ==
    ASSUME NEW k, NEW id, NEW anchor, NEW n, NEW b,
           NEW r \in GroupRecs(k, id, anchor, n, b)
    PROVE  /\ r.type = "snapshot_begin" => r = BeginRec(k, id, anchor, n, b)
           /\ r.type = "snapshot_end" => r = EndRec(k, id, anchor)
           /\ r.type = "snapshot_level" => \E l \in Levels(b) : r = LevelRec(id, b, l)
           /\ r.type \in {"snapshot_begin", "snapshot_level", "snapshot_end"}
  <1>1. CASE r = BeginRec(k, id, anchor, n, b)
    BY <1>1 DEF BeginRec
  <1>2. CASE r = EndRec(k, id, anchor)
    BY <1>2 DEF EndRec
  <1>3. CASE \E l \in Levels(b) : r = LevelRec(id, b, l)
    BY <1>3 DEF LevelRec
  <1> QED BY <1>1, <1>2, <1>3 DEF GroupRecs

(* A group is a sequence of its records, in which no level occurs twice.   *)
LEMMA GroupSeq ==
    ASSUME NEW k \in Inst, book[k] \in Book, NEW id, NEW anchor,
           NEW records, records = SnapshotGroup(k, id, anchor)
    PROVE  /\ records \in Seq(GroupRecs(k, id, anchor, last[k], book[k]))
           /\ \A i, j \in 1 .. Len(records) :
                 records[i].type = "snapshot_level" /\ records[i] = records[j] => i = j
  <1> DEFINE b == book[k]
             levels == OrderedLevels(b)
             N == Cardinality(Levels(b))
             begin == BeginRec(k, id, anchor, last[k], b)
             middle == [n \in DOMAIN levels |-> LevelRec(id, b, levels[n])]
             end == EndRec(k, id, anchor)
             M == GroupRecs(k, id, anchor, last[k], b)
  <1>1. /\ N \in Nat /\ DOMAIN levels = 1 .. N /\ Len(levels) = N
        /\ \A n \in 1 .. N : levels[n] \in Levels(b)
        /\ \A m, n \in 1 .. N : levels[m] = levels[n] => m = n
    BY OrderedLevelsSeq
  <1>2. records = (<<begin>> \o middle) \o <<end>>
    BY <1>1 DEF SnapshotGroup, BeginRec, LevelRec, EndRec
  <1>3. begin \in M /\ end \in M /\ begin.type # "snapshot_level" /\ end.type # "snapshot_level"
    BY DEF GroupRecs, BeginRec, EndRec
  <1>4. middle \in [1 .. N -> M]
    BY <1>1 DEF GroupRecs
  <1>5. \A m, n \in 1 .. N : middle[m] = middle[n] => m = n
    <2> SUFFICES ASSUME NEW m \in 1 .. N, NEW n \in 1 .. N, middle[m] = middle[n]
                 PROVE  m = n
      OBVIOUS
    <2>1. levels[m][1] = levels[n][1] /\ levels[m][2] = levels[n][2]
      BY <1>1 DEF LevelRec
    <2>2. levels[m] \in Side \X Price /\ levels[n] \in Side \X Price
      BY <1>1 DEF Levels
    <2>3. levels[m] = levels[n]
      BY <2>1, <2>2
    <2> QED BY <2>3, <1>1
  <1> HIDE DEF begin, middle, end, M, N, levels, b
  <1>6. middle \in Seq(M) /\ Len(middle) = N
    BY <1>1, <1>4
  <1>7. <<begin>> \in Seq(M) /\ <<end>> \in Seq(M) /\ Len(<<begin>>) = 1 /\ Len(<<end>>) = 1
    BY <1>3
  <1>8. PICK head : head = <<begin>> \o middle
    OBVIOUS
  <1>9. /\ head \in Seq(M) /\ Len(head) = N + 1
        /\ \A i \in 1 .. N + 1 : head[i] = IF i <= 1 THEN begin ELSE middle[i - 1]
    <2>1. <<begin>>[1] = begin /\ \A i \in 1 .. N + 1 : i <= 1 => i = 1
      BY <1>1
    <2>2. /\ head \in Seq(M) /\ Len(head) = 1 + N
          /\ \A i \in 1 .. 1 + N : head[i] = IF i <= 1 THEN <<begin>>[i] ELSE middle[i - 1]
      BY <1>6, <1>7, <1>8, ConcatProperties
    <2> QED BY <2>1, <2>2, <1>1
  <1>10. /\ records \in Seq(M) /\ Len(records) = N + 2
         /\ \A i \in 1 .. N + 2 : records[i] = IF i <= N + 1 THEN head[i] ELSE end
    <2>1. <<end>>[1] = end /\ \A i \in 1 .. N + 2 : ~(i <= N + 1) => i - (N + 1) = 1
      BY <1>1
    <2>2. /\ records \in Seq(M) /\ Len(records) = (N + 1) + 1
          /\ \A i \in 1 .. (N + 1) + 1 :
                records[i] = IF i <= N + 1 THEN head[i] ELSE <<end>>[i - (N + 1)]
      BY <1>2, <1>7, <1>8, <1>9, ConcatProperties
    <2>3. (N + 1) + 1 = N + 2
      BY <1>1
    <2> QED BY <2>1, <2>2, <2>3
  <1>11. ASSUME NEW i \in 1 .. N + 2, records[i].type = "snapshot_level"
         PROVE  i - 1 \in 1 .. N /\ records[i] = middle[i - 1]
    <2>1. i # N + 2 /\ i # 1
      BY <1>1, <1>3, <1>9, <1>10, <1>11
    <2>2. i <= N + 1 /\ ~(i <= 1) /\ i \in 1 .. N + 1 /\ i - 1 \in 1 .. N
      BY ONLY <1>1, <2>1, i \in 1 .. N + 2
    <2> QED BY <2>2, <1>9, <1>10
  <1>12. \A i, j \in 1 .. Len(records) :
            records[i].type = "snapshot_level" /\ records[i] = records[j] => i = j
    <2> SUFFICES ASSUME NEW i \in 1 .. N + 2, NEW j \in 1 .. N + 2,
                        records[i].type = "snapshot_level", records[i] = records[j]
                 PROVE  i = j
      BY <1>10
    <2>1. i - 1 \in 1 .. N /\ j - 1 \in 1 .. N /\ middle[i - 1] = middle[j - 1]
      BY <1>11
    <2>2. i - 1 = j - 1
      BY <2>1, <1>5
    <2> QED BY ONLY <2>2, <1>1, i \in 1 .. N + 2, j \in 1 .. N + 2
  <1> QED BY <1>10, <1>12 DEF M, b

(* Places in two datagrams of C messages are the same place of the group   *)
(* only if the datagrams are the same.                                     *)
LEMMA PlacesApart ==
    ASSUME NEW C \in Nat, NEW a \in Nat, NEW b \in Nat,
           NEW p \in 1 .. C, NEW q \in 1 .. C, a * C + p = b * C + q
    PROVE  a = b /\ p = q
  <1>1. ASSUME NEW x \in Nat, NEW y \in Nat, x < y PROVE x * C + C <= y * C
    <2>1. PICK z \in Nat : y = x + 1 + z
      <3>1. y - x - 1 \in Nat /\ y = x + 1 + (y - x - 1)
        BY <1>1
      <3> QED BY <3>1
    <2>2. y * C = x * C + C + z * C
      BY <2>1
    <2>3. z * C \in Nat /\ x * C \in Nat
      BY <2>1
    <2> QED BY <2>2, <2>3
  <1>2. PICK u \in Nat : u = a * C
    OBVIOUS
  <1>3. PICK v \in Nat : v = b * C
    OBVIOUS
  <1>4. ~(a < b)
    <2> SUFFICES ASSUME a < b PROVE FALSE
      OBVIOUS
    <2>1. u + C <= v
      BY <1>1, <1>2, <1>3
    <2> QED BY <1>2, <1>3, <2>1
  <1>5. ~(b < a)
    <2> SUFFICES ASSUME b < a PROVE FALSE
      OBVIOUS
    <2>1. v + C <= u
      BY <1>1, <1>2, <1>3
    <2> QED BY <1>2, <1>3, <2>1
  <1>6. a = b
    BY <1>4, <1>5
  <1> QED BY <1>2, <1>6

(* The places of the group that a datagram starting after x holds.         *)
LEMMA PartBounds ==
    ASSUME NEW L \in Nat, NEW x \in Nat, NEW C \in Nat, NEW y, y = x + C,
           NEW h, h = IF y < L THEN y ELSE L
    PROVE  /\ h \in Nat /\ h <= L
           /\ \A i \in x + 1 .. h : i \in 1 .. L
           /\ \A p \in 1 .. h - (x + 1) + 1 : p \in 1 .. C /\ x + p \in 1 .. L
  OBVIOUS

(* send_snapshot: every datagram of a group carries records of the group,  *)
(* and a level is in one place of one datagram.                            *)
LEMMA PackedGroup ==
    ASSUME NEW k \in Inst, book[k] \in Book, NEW id, NEW anchor, NEW g,
           NEW D, D = Packed(SnapshotGroup(k, id, anchor), id, g)
    PROVE  /\ \A d \in D :
                 /\ d.gen = g /\ d.id = id
                 /\ Content(d) \subseteq GroupRecs(k, id, anchor, last[k], book[k])
                 /\ d.recs \in Seq(Content(d))
           /\ \A d, e \in D : \A m \in DOMAIN d.recs, n \in DOMAIN e.recs :
                 d.recs[m].type = "snapshot_level" /\ d.recs[m] = e.recs[n]
                    => d = e /\ m = n
  <1> DEFINE M == GroupRecs(k, id, anchor, last[k], book[k])
             C == SnapshotCap
             Place(d, part) == \A p \in DOMAIN d.recs :
                 /\ p \in 1 .. C
                 /\ (part - 1) * C + p \in 1 .. Len(SnapshotGroup(k, id, anchor))
                 /\ d.recs[p] = SnapshotGroup(k, id, anchor)[(part - 1) * C + p]
  <1>1. PICK records : records = SnapshotGroup(k, id, anchor)
    OBVIOUS
  <1>2. /\ records \in Seq(M)
        /\ \A i, j \in 1 .. Len(records) :
              records[i].type = "snapshot_level" /\ records[i] = records[j] => i = j
    BY <1>1, GroupSeq
  <1>3. Len(records) \in Nat /\ DOMAIN records = 1 .. Len(records) /\ C \in Nat
    BY <1>2, LenProperties, PublisherAssumption
  <1>4. ASSUME NEW d \in D
        PROVE  /\ d.gen = g /\ d.id = id
               /\ d.recs \in Seq(M) /\ d.recs \in Seq(Content(d)) /\ Content(d) \subseteq M
               /\ d.part \in Nat \ {0} /\ Place(d, d.part)
               /\ d.recs = SubSeq(records, (d.part - 1) * SnapshotCap + 1,
                             IF d.part * SnapshotCap < Len(records) THEN d.part * SnapshotCap
                                                                  ELSE Len(records))
               /\ d = [id |-> id, gen |-> g, part |-> d.part, recs |-> d.recs]
    <2> DEFINE lo(n) == (n - 1) * SnapshotCap + 1
               hi(n) == IF n * SnapshotCap < Len(records) THEN n * SnapshotCap
                                                        ELSE Len(records)
    <2>1. PICK n \in {m \in 1 .. Len(records) : (m - 1) * SnapshotCap < Len(records)} :
             d = [id |-> id, gen |-> g, part |-> n, recs |-> SubSeq(records, lo(n), hi(n))]
      BY <1>1 DEF Packed
    <2>2. PICK x \in Nat : x = (n - 1) * C
      BY <1>3
    <2>3. PICK y \in Nat : y = n * C
      BY <1>3
    <2>4. y = x + C
      BY <1>3, <2>2, <2>3
    <2>5. PICK h : h = hi(n)
      OBVIOUS
    <2>5a. /\ h \in Nat /\ h <= Len(records)
           /\ \A i \in x + 1 .. h : i \in 1 .. Len(records)
           /\ \A p \in 1 .. h - (x + 1) + 1 : p \in 1 .. C /\ x + p \in 1 .. Len(records)
      <3>1. h = IF y < Len(records) THEN y ELSE Len(records)
        BY <2>3, <2>5
      <3> HIDE DEF C
      <3> QED BY <3>1, <1>3, <2>4, PartBounds
    <2>6. lo(n) = x + 1
      BY <2>2
    <2>7. \A i \in x + 1 .. h : records[i] \in M
      BY <1>2, <2>5a, ElementOfSeq
    <2>8. PICK s : s = SubSeq(records, x + 1, h)
      OBVIOUS
    <2>9. /\ s \in Seq(M)
          /\ Len(s) = IF x + 1 <= h THEN h - (x + 1) + 1 ELSE 0
          /\ \A i \in 1 .. h - (x + 1) + 1 : s[i] = records[(x + 1) + i - 1]
      <3>1. x + 1 \in Int /\ h \in Int
        BY <2>5a
      <3> QED BY <3>1, <2>7, <2>8, SubSeqProperties
    <2>10. d = [id |-> id, gen |-> g, part |-> n, recs |-> s]
      BY <2>1, <2>5, <2>6, <2>8
    <2>11. d.recs = s /\ d.part = n /\ d.gen = g /\ d.id = id
      BY <2>10
    <2>12. DOMAIN s = 1 .. Len(s) /\ Len(s) \in Nat
      BY <2>9, LenProperties
    <2>13. \A p \in DOMAIN s :
              p \in 1 .. C /\ x + p \in 1 .. Len(records) /\ s[p] = records[x + p]
      <3> SUFFICES ASSUME NEW p \in 1 .. Len(s)
                   PROVE  p \in 1 .. C /\ x + p \in 1 .. Len(records) /\ s[p] = records[x + p]
        BY <2>12
      <3>1. x + 1 <= h /\ p \in 1 .. h - (x + 1) + 1
        BY <2>9
      <3>2. (x + 1) + p - 1 = x + p
        BY <3>1
      <3>3. p \in 1 .. C /\ x + p \in 1 .. Len(records)
        BY <2>5a, <3>1
      <3> QED BY <3>1, <3>2, <3>3, <2>9
    <2>14. Place(d, d.part)
      BY <1>1, <2>2, <2>11, <2>13
    <2>15. Content(d) \subseteq M /\ s \in Seq(Content(d))
      <3>1. Content(d) = {s[i] : i \in DOMAIN s}
        BY <2>11 DEF Content
      <3>2. \A i \in 1 .. Len(s) : s[i] \in M
        BY <2>9, ElementOfSeq
      <3>3. s \in [1 .. Len(s) -> Content(d)]
        <4>1. s = [i \in 1 .. Len(s) |-> s[i]]
          BY <2>9, LenProperties
        <4> QED BY <3>1, <4>1, <2>12
      <3>4. s \in Seq(Content(d))
        BY <3>3, <2>12
      <3>5. Content(d) \subseteq M
        BY <3>1, <3>2, <2>12
      <3> QED BY <3>4, <3>5
    <2>16. d.part \in Nat \ {0}
      BY <2>11, <1>3
    <2> QED BY <2>1, <2>5, <2>6, <2>8, <2>9, <2>10, <2>11, <2>14, <2>15, <2>16
  <1> HIDE DEF M
  <1>5. ASSUME NEW d \in D, NEW e \in D, NEW m \in DOMAIN d.recs, NEW n \in DOMAIN e.recs,
               d.recs[m].type = "snapshot_level", d.recs[m] = e.recs[n]
        PROVE  d = e /\ m = n
    <2>1. PICK a \in Nat : a = d.part - 1
      BY <1>4
    <2>2. PICK b \in Nat : b = e.part - 1
      BY <1>4
    <2>3. /\ m \in 1 .. C /\ n \in 1 .. C
          /\ a * C + m \in 1 .. Len(records) /\ b * C + n \in 1 .. Len(records)
          /\ d.recs[m] = records[a * C + m] /\ e.recs[n] = records[b * C + n]
      BY <1>1, <1>4, <2>1, <2>2
    <2>4. a * C + m = b * C + n
      BY <1>2, <1>5, <2>3
    <2>5. a = b /\ m = n
      BY <1>3, <2>3, <2>4, PlacesApart
    <2>6. d.part = e.part
      BY <1>4, <2>1, <2>2, <2>5
    <2>7. d.recs = e.recs
      BY <1>4, <2>6
    <2> QED BY <1>4, <2>5, <2>6, <2>7
  <1> QED BY <1>4, <1>5 DEF M

(* Every begin in a snapshot's datagrams declares the instrument, the      *)
(* anchor and the last number the snapshot was captured with.              *)
LEMMA PackedBegins ==
    ASSUME NEW k \in Inst, book[k] \in Book, NEW id, NEW anchor, NEW g,
           NEW d \in Packed(SnapshotGroup(k, id, anchor), id, g)
    PROVE  /\ d.gen = g
           /\ \A s \in Content(d) : s.type = "snapshot_begin" =>
                 s.inst = k /\ s.anchor = anchor /\ s.last = last[k]
  <1>1. d.gen = g /\ Content(d) \subseteq GroupRecs(k, id, anchor, last[k], book[k])
    BY PackedGroup
  <1> QED BY <1>1, GroupRecsTypes DEF BeginRec

-----------------------------------------------------------------------------
(* The initial state.                                                      *)

LEMMA PubInitInv == PubInit => PubInv
  <1> SUFFICES ASSUME PubInit PROVE PubInv
    OBVIOUS
  <1>1. PubTypeOK
    <2>1. EmptyBook \in Book
      BY DEF EmptyBook, Book
    <2>2. book \in [Inst -> Book]
      BY PublisherAssumption DEF PubInit
    <2>3. truth \in [Inst -> [Generations -> [0 .. MaxDeltas -> Book]]]
      BY <2>1, <2>2 DEF PubInit
    <2>4. 0 \in 0 .. MaxDeltas /\ 0 \in Generations
      BY PublisherAssumption DEF Generations
    <2>5. Len(open) = 0 /\ 0 <= DatagramCap
      BY PublisherAssumption DEF PubInit
    <2> QED BY <2>2, <2>3, <2>4, <2>5 DEF PubTypeOK, PubInit
  <1>2. mktdata = {} /\ snapshots = {} /\ owed = {} /\ open = <<>>
    BY DEF PubInit
  <1>3. AllDeltas = {} /\ OpenDeltas = {} /\ Deltas = {} /\ Begins = {}
    BY <1>2, RecordsContent DEF AllDeltas, Deltas, OpenDeltas, Begins
  <1> QED BY <1>1, <1>2, <1>3, EmptySeq DEF PubInv, DatagramsInv, DeltasInv, OwedInv,
          SnapshotsInv, AnchorSeparates, ResetBounds

-----------------------------------------------------------------------------
(* The mktdata channel.                                                    *)

(* What the invariant says of a delta that was sent, or that is packed.    *)
LEMMA DeltaPlaces ==
    ASSUME PubInv
    PROVE  /\ AllDeltas = OpenDeltas \cup
                 {r \in UNION {Content(d) : d \in mktdata} : r.type = "delta"}
           /\ OpenDeltas \subseteq DeltaRec
           /\ \A d \in mktdata : \A r \in Content(d) :
                 r.type \in {"delta", "instrument_reset"}
  <1>1. Records(mktdata) = UNION {Content(d) : d \in mktdata}
    BY DEF Records, Content
  <1>2. OpenDeltas \subseteq DeltaRec
    <2>1. DOMAIN open = 1 .. Len(open) /\ open \in Seq(DeltaRec)
      BY LenProperties DEF PubInv, DatagramsInv
    <2> QED BY <2>1, ElementOfSeq DEF OpenDeltas
  <1> QED BY <1>1, <1>2 DEF AllDeltas, Deltas, PubInv, DatagramsInv, DeltaRec, ResetRec

(* Egress::flush_inner: what is packed is sent under the number it was     *)
(* stamped with or is lost, and no number is used twice.                   *)
LEMMA FlushedDatagrams ==
    ASSUME PubInv, NEW ok \in BOOLEAN
    PROVE  /\ SeqAfterFlush \in Nat /\ mktSeq <= SeqAfterFlush
           /\ \A d \in Flushed(ok) :
                 /\ d.seq \in Nat /\ d.seq < SeqAfterFlush
                 /\ \A r \in Content(d) :
                       \/ r \in DeltaRec /\ r.mkt = d.seq /\ r \in AllDeltas
                       \/ /\ r \in ResetRec /\ r.anchor = d.seq
                          /\ r.gen <= gen[r.inst] /\ d \in mktdata
           /\ \A d, e \in Flushed(ok) : d.seq = e.seq => d = e
  <1> DEFINE packed == [seq |-> mktSeq, recs |-> open]
  <1>1. mktSeq \in Nat
    BY DEF PubInv, PubTypeOK
  <1>2. Content(packed) = OpenDeltas
    BY DEF Content, OpenDeltas
  <1>3. \A r \in Content(packed) : r \in DeltaRec /\ r.mkt = packed.seq /\ r \in AllDeltas
    BY <1>2, DeltaPlaces DEF PubInv, DatagramsInv, AllDeltas
  <1>4. \A d \in mktdata : \A r \in Content(d) :
           \/ r \in DeltaRec /\ r.mkt = d.seq /\ r \in AllDeltas
           \/ r \in ResetRec /\ r.anchor = d.seq /\ r.gen <= gen[r.inst]
    BY DeltaPlaces DEF PubInv, DatagramsInv, DeltaRec
  <1>5. \A d \in mktdata : d.seq \in Nat /\ d.seq < mktSeq
    BY DEF PubInv, DatagramsInv
  <1>6. SeqAfterFlush \in Nat /\ mktSeq <= SeqAfterFlush
    BY <1>1 DEF SeqAfterFlush
  <1>7. \/ Flushed(ok) = mktdata
        \/ Flushed(ok) = mktdata \cup {packed} /\ mktSeq < SeqAfterFlush
    BY <1>1 DEF Flushed, SeqAfterFlush
  <1> HIDE DEF packed
  <1>8. packed.seq = mktSeq
    BY DEF packed
  <1>9. \A d \in Flushed(ok) :
           /\ d.seq \in Nat /\ d.seq < SeqAfterFlush
           /\ \A r \in Content(d) :
                 \/ r \in DeltaRec /\ r.mkt = d.seq /\ r \in AllDeltas
                 \/ /\ r \in ResetRec /\ r.anchor = d.seq
                    /\ r.gen <= gen[r.inst] /\ d \in mktdata
    BY <1>1, <1>3, <1>4, <1>5, <1>6, <1>7, <1>8
  <1>10. \A d, e \in Flushed(ok) : d.seq = e.seq => d = e
    <2>1. \A d, e \in mktdata : d.seq = e.seq => d = e
      BY DEF PubInv, DatagramsInv
    <2> QED BY <2>1, <1>1, <1>5, <1>7, <1>8
  <1> QED BY <1>6, <1>9, <1>10

(* No new delta: the numbering of those there are is untouched.            *)
LEMMA DeltasKept ==
    ASSUME PubInv, AllDeltas' \subseteq AllDeltas, last' = last,
           mktSeq' \in Nat, mktSeq <= mktSeq'
    PROVE  DeltasInv'
  <1>1. \A a \in AllDeltas : a \in DeltaRec /\ a.mkt <= mktSeq /\ a.pi <= last[a.inst]
    BY DEF PubInv, DeltasInv
  <1>2. \A a \in AllDeltas : a.mkt <= mktSeq'
    BY <1>1 DEF DeltaRec, PubInv, PubTypeOK
  <1>3. DeltaRec' = DeltaRec
    BY DEF DeltaRec
  <1> QED BY <1>1, <1>2, <1>3 DEF PubInv, DeltasInv

(* No new snapshot: what the others declare stays true of the channel.     *)
LEMMA SnapshotsKept ==
    ASSUME PubInv, UNCHANGED snapshots, mktSeq' \in Nat, mktSeq <= mktSeq',
           \A k \in Inst : /\ last'[k] \in Nat /\ last[k] <= last'[k]
                           /\ gen'[k] \in Nat /\ gen[k] <= gen'[k]
    PROVE  SnapshotsInv'
  <1> SUFFICES ASSUME NEW d \in snapshots, NEW s \in Content(d), s.type = "snapshot_begin"
               PROVE  /\ s.inst \in Inst /\ s.anchor \in Nat /\ s.last \in Nat /\ d.gen \in Nat
                      /\ s.anchor <= mktSeq' /\ s.last <= last'[s.inst]
                      /\ d.gen <= gen'[s.inst]
    BY DEF SnapshotsInv, Content
  <1>1. /\ s.inst \in Inst /\ s.anchor \in Nat /\ s.last \in Nat /\ d.gen \in Nat
        /\ s.anchor <= mktSeq /\ s.last <= last[s.inst] /\ d.gen <= gen[s.inst]
    BY DEF PubInv, SnapshotsInv
  <1>2. mktSeq \in Nat /\ last[s.inst] \in Nat /\ gen[s.inst] \in Nat
    BY <1>1, PublisherAssumption DEF PubInv, PubTypeOK, Generations
  <1> QED BY <1>1, <1>2

(* No new delta, reset or snapshot: no anchor is quoted that was not.      *)
LEMMA AnchorsKept ==
    ASSUME PubInv, UNCHANGED snapshots, AllDeltas' \subseteq AllDeltas,
           \A e \in mktdata' : \A r \in Content(e) :
              r.type = "instrument_reset" => e \in mktdata
    PROVE  AnchorSeparates' /\ ResetBounds'
  <1>1. AnchorSeparates'
    BY DEF AnchorSeparates, PubInv, AllDeltas, Begins, Records
  <1>2. ResetBounds'
    BY RecordsContent DEF ResetBounds, PubInv, Records
  <1> QED BY <1>1, <1>2

(* capture_and_send, in a step that quotes an anchor the channel has       *)
(* reached and no reset of the instrument is past.                         *)
LEMMA CaptureInv ==
    ASSUME PubInv, NEW k \in Inst, NEW anchor \in Nat, CaptureAndSend(k, anchor),
           UNCHANGED <<last, gen>>, mktSeq' \in Nat, mktSeq <= mktSeq', anchor <= mktSeq',
           AllDeltas' \subseteq AllDeltas,
           \A e \in mktdata' : \A r \in Content(e) :
              r.type = "instrument_reset" =>
                 e \in mktdata /\ (r.inst = k => r.anchor <= anchor)
    PROVE  SnapshotsInv' /\ AnchorSeparates' /\ ResetBounds'
  <1> DEFINE new == Packed(SnapshotGroup(k, nextSnapshotId, anchor),
                           nextSnapshotId, gen[k])
  <1>1. snapshots' = snapshots \cup new
    BY DEF CaptureAndSend
  <1>2. /\ book[k] \in Book /\ last[k] \in Nat /\ gen[k] \in Nat /\ mktSeq \in Nat
        /\ \A j \in Inst : last[j] \in Nat /\ gen[j] \in Nat
    BY PublisherAssumption DEF PubInv, PubTypeOK, Generations
  <1>3. \A d \in new : /\ d.gen = gen[k]
                       /\ \A s \in Content(d) : s.type = "snapshot_begin" =>
                             s.inst = k /\ s.anchor = anchor /\ s.last = last[k]
    BY <1>2, PackedBegins
  <1> HIDE DEF new
  <1>4. SnapshotsInv'
    <2> SUFFICES ASSUME NEW d \in snapshots', NEW s \in Content(d),
                        s.type = "snapshot_begin"
                 PROVE  /\ s.inst \in Inst /\ s.anchor \in Nat /\ s.last \in Nat
                        /\ d.gen \in Nat /\ s.anchor <= mktSeq'
                        /\ s.last <= last[s.inst] /\ d.gen <= gen[s.inst]
      BY DEF SnapshotsInv, Content
    <2>1. CASE d \in new
      BY <2>1, <1>2, <1>3
    <2>2. CASE d \in snapshots
      <3>1. /\ s.inst \in Inst /\ s.anchor \in Nat /\ s.last \in Nat /\ d.gen \in Nat
            /\ s.anchor <= mktSeq /\ s.last <= last[s.inst] /\ d.gen <= gen[s.inst]
        BY <2>2 DEF PubInv, SnapshotsInv
      <3> QED BY <3>1, <1>2
    <2> QED BY <2>1, <2>2, <1>1
  <1>5. AnchorSeparates'
    <2> SUFFICES ASSUME NEW s \in Begins', NEW a \in AllDeltas, a.inst = s.inst,
                        a.pi > s.last
                 PROVE  a.mkt >= s.anchor
      BY DEF AnchorSeparates, AllDeltas
    <2>1. CASE s \in Begins
      BY <2>1 DEF PubInv, AnchorSeparates, AllDeltas
    <2>2. CASE \E d \in new : s \in Content(d)
      <3>1. s.type = "snapshot_begin" /\ s.inst = k /\ s.last = last[k]
        BY <2>2, <1>3 DEF Begins
      <3>2. a.pi \in Nat /\ a.pi <= last[k]
        BY <3>1 DEF PubInv, DeltasInv, DeltaRec
      <3> QED BY <3>1, <3>2, <1>2
    <2> QED BY <2>1, <2>2, <1>1, RecordsContent DEF Begins, Records, Content
  <1>6. ResetBounds'
    <2> SUFFICES ASSUME NEW e \in mktdata', NEW r \in Content(e),
                        r.type = "instrument_reset"
                 PROVE  /\ r.anchor = e.seq
                        /\ \A d \in snapshots' : \A s \in Content(d) :
                              (s.type = "snapshot_begin" /\ s.inst = r.inst) =>
                                 /\ d.gen < r.gen => s.anchor <= r.anchor
                                 /\ d.gen >= r.gen => s.anchor >= r.anchor
      BY RecordsContent DEF ResetBounds, Records, Content
    <2>1. e \in mktdata /\ (r.inst = k => r.anchor <= anchor)
      OBVIOUS
    <2>2. /\ r.anchor = e.seq
          /\ \A d \in snapshots : \A s \in Content(d) :
                (s.type = "snapshot_begin" /\ s.inst = r.inst) =>
                   /\ d.gen < r.gen => s.anchor <= r.anchor
                   /\ d.gen >= r.gen => s.anchor >= r.anchor
      BY <2>1, RecordsContent DEF PubInv, ResetBounds
    <2>3. r \in ResetRec /\ r.gen <= gen[r.inst]
      BY <2>1 DEF PubInv, DatagramsInv, DeltaRec
    <2>4. r.gen \in Nat /\ r.anchor \in Nat
      BY <2>3 DEF ResetRec
    <2>5. \A d \in new : \A s \in Content(d) :
             (s.type = "snapshot_begin" /\ s.inst = r.inst) =>
                ~(d.gen < r.gen) /\ s.anchor >= r.anchor
      BY <1>2, <1>3, <2>1, <2>3, <2>4
    <2> QED BY <1>1, <2>2, <2>5
  <1> QED BY <1>4, <1>5, <1>6

(* The step of the channel that FlushLive and PeriodicSnapshot share.      *)
LEMMA FlushedInv ==
    ASSUME PubInv, NEW ok \in BOOLEAN, mktdata' = Flushed(ok),
           mktSeq' = SeqAfterFlush, open' = <<>>, UNCHANGED <<last, owed, gen>>
    PROVE  /\ DatagramsInv' /\ DeltasInv' /\ OwedInv'
           /\ AllDeltas' \subseteq AllDeltas
           /\ \A e \in mktdata' : \A r \in Content(e) :
                 r.type = "instrument_reset" =>
                    e \in mktdata /\ r.anchor < mktSeq /\ r.anchor \in Nat
  <1> DEFINE Sent(r, d) == \/ r \in DeltaRec /\ r.mkt = d.seq /\ r \in AllDeltas
                           \/ /\ r \in ResetRec /\ r.anchor = d.seq
                              /\ r.gen <= gen[r.inst] /\ d \in mktdata
  <1>1. /\ mktSeq' \in Nat /\ mktSeq \in Nat /\ mktSeq <= mktSeq'
        /\ \A d \in mktdata' : d.seq \in Nat /\ d.seq < mktSeq'
        /\ \A d \in mktdata' : \A r \in Content(d) : Sent(r, d)
        /\ \A d, e \in mktdata' : d.seq = e.seq => d = e
    BY FlushedDatagrams DEF PubInv, PubTypeOK
  <1>2. OpenDeltas' = {} /\ open' \in Seq(DeltaRec)
    BY EmptySeq DEF OpenDeltas
  <1>3. DeltaRec' = DeltaRec /\ ResetRec' = ResetRec
    BY DEF DeltaRec, ResetRec
  <1>4. DatagramsInv'
    BY <1>1, <1>2, <1>3 DEF DatagramsInv, Content
  <1>5. AllDeltas' \subseteq AllDeltas
    <2> SUFFICES ASSUME NEW r, r \in Deltas' PROVE r \in AllDeltas
      BY <1>2 DEF AllDeltas
    <2>1. r.type = "delta" /\ \E d \in mktdata' : r \in Content(d)
      BY DEF Deltas, Records, Content
    <2> QED BY <2>1, <1>1 DEF ResetRec
  <1>6. \A e \in mktdata' : \A r \in Content(e) :
           r.type = "instrument_reset" =>
              e \in mktdata /\ r.anchor < mktSeq /\ r.anchor \in Nat
    BY <1>1 DEF DeltaRec, PubInv, DatagramsInv, ResetRec
  <1>7. OwedInv'
    <2>1. \A e \in owed : e[2] \in Nat /\ e[2] <= mktSeq
      BY DEF PubInv, OwedInv, PubTypeOK
    <2>2. \A e \in owed : e[2] <= mktSeq'
      BY <2>1, <1>1
    <2> QED BY <2>2, <1>6 DEF OwedInv, PubInv, Content
  <1>8. DeltasInv'
    BY <1>1, <1>5, DeltasKept
  <1> QED BY <1>4, <1>5, <1>6, <1>7, <1>8

-----------------------------------------------------------------------------
(* The actions.                                                            *)

LEMMA FlushLiveInv ==
    ASSUME PubInv, NEW ok \in BOOLEAN, FlushLive(ok)
    PROVE  PubInv'
  <1>1. PubTypeOK'
    <2>1. SeqAfterFlush \in Nat
      BY FlushedDatagrams
    <2>2. Len(<<>>) <= DatagramCap
      BY PublisherAssumption
    <2> QED BY <2>1, <2>2 DEF FlushLive, PubInv, PubTypeOK, Generations
  <1>2. /\ DatagramsInv' /\ DeltasInv' /\ OwedInv' /\ AllDeltas' \subseteq AllDeltas
        /\ \A e \in mktdata' : \A r \in Content(e) :
              r.type = "instrument_reset" => e \in mktdata
    BY FlushedInv DEF FlushLive
  <1>3. AnchorSeparates' /\ ResetBounds'
    BY <1>2, AnchorsKept DEF FlushLive
  <1>4. SnapshotsInv'
    <2>1. \A k \in Inst : last[k] \in Nat /\ gen[k] \in Nat
      BY PublisherAssumption DEF PubInv, PubTypeOK, Generations
    <2> QED BY <2>1, FlushedDatagrams, SnapshotsKept DEF FlushLive
  <1> QED BY <1>1, <1>2, <1>3, <1>4 DEF PubInv

LEMMA PeriodicSnapshotInv ==
    ASSUME PubInv, NEW k \in Inst, NEW ok \in BOOLEAN, PeriodicSnapshot(k, ok)
    PROVE  PubInv'
  <1>1. AnchorSequence \in Nat /\ mktSeq \in Nat /\ mktSeq <= AnchorSequence
    BY FlushedDatagrams DEF AnchorSequence, PubInv, PubTypeOK
  <1>2. PubTypeOK'
    <2>1. Len(<<>>) <= DatagramCap
      BY PublisherAssumption
    <2> QED BY <1>1, <2>1 DEF PeriodicSnapshot, CaptureAndSend, PubInv, PubTypeOK,
            Generations, AnchorSequence
  <1>3. /\ DatagramsInv' /\ DeltasInv' /\ OwedInv' /\ AllDeltas' \subseteq AllDeltas
        /\ \A e \in mktdata' : \A r \in Content(e) :
              r.type = "instrument_reset" =>
                 e \in mktdata /\ r.anchor < mktSeq /\ r.anchor \in Nat
    BY FlushedInv DEF PeriodicSnapshot
  <1>4. \A e \in mktdata' : \A r \in Content(e) :
           r.type = "instrument_reset" => e \in mktdata /\ r.anchor <= AnchorSequence
    BY <1>1, <1>3
  <1>5. SnapshotsInv' /\ AnchorSeparates' /\ ResetBounds'
    BY <1>1, <1>3, <1>4, CaptureInv DEF PeriodicSnapshot, AnchorSequence
  <1> QED BY <1>2, <1>3, <1>5 DEF PubInv

LEMMA SendHeartbeatInv ==
    ASSUME PubInv, SendHeartbeat
    PROVE  PubInv'
  <1>1. mktSeq \in Nat /\ mktSeq' = mktSeq + 1 /\ open = <<>> /\ open' = <<>>
        /\ UNCHANGED <<last, book, owed, nextSnapshotId, mktdata, snapshots, gen, truth>>
    BY DEF SendHeartbeat, PubInv, PubTypeOK
  <1>2. PubTypeOK'
    BY <1>1 DEF PubInv, PubTypeOK, Generations
  <1>3. AllDeltas' = AllDeltas /\ OpenDeltas' = {}
    BY <1>1 DEF AllDeltas, Deltas, OpenDeltas
  <1>4. DatagramsInv'
    <2>1. \A d \in mktdata : d.seq \in Nat /\ d.seq < mktSeq'
      BY <1>1 DEF PubInv, DatagramsInv
    <2> QED BY <1>1, <1>3, <2>1 DEF PubInv, DatagramsInv, DeltaRec, ResetRec, Content
  <1>5. DeltasInv'
    BY <1>1, <1>3, DeltasKept
  <1>6. OwedInv'
    <2>1. \A e \in owed : e[2] \in Nat /\ e[2] <= mktSeq
      BY DEF PubInv, OwedInv, PubTypeOK
    <2>2. \A e \in owed : e[2] <= mktSeq'
      BY <2>1, <1>1
    <2> QED BY <2>2, <1>1 DEF OwedInv, PubInv, Content
  <1>7. AnchorSeparates' /\ ResetBounds'
    BY <1>1, <1>3, AnchorsKept
  <1>8. SnapshotsInv'
    <2>1. \A k \in Inst : last[k] \in Nat /\ gen[k] \in Nat
      BY PublisherAssumption DEF PubInv, PubTypeOK, Generations
    <2> QED BY <2>1, <1>1, SnapshotsKept
  <1> QED BY <1>2, <1>4, <1>5, <1>6, <1>7, <1>8 DEF PubInv

(* The latest anchor owed to k reaches every reset of k, so serving it     *)
(* satisfies each of them, whether or not the later resets left.           *)
LEMMA ServeOwedInv ==
    ASSUME PubInv, NEW k \in Inst, NEW refused \in BOOLEAN, ServeOwed(k, refused)
    PROVE  PubInv'
  <1>1. PICK e \in LatestOwed :
           /\ e[1] = k
           /\ owed' = {f \in owed : f[1] # k}
           /\ IF refused THEN UNCHANGED <<nextSnapshotId, snapshots>>
                         ELSE CaptureAndSend(k, e[2])
           /\ UNCHANGED <<mktSeq, open, last, book, mktdata, gen, truth>>
    BY DEF ServeOwed
  <1>2. /\ e \in owed /\ e[2] \in Nat /\ e[2] <= mktSeq /\ mktSeq \in Nat
        /\ \A f \in owed : f[2] \in Nat /\ (f[1] = k => f[2] <= e[2])
    BY <1>1 DEF LatestOwed, PubInv, OwedInv, PubTypeOK
  <1>3. \A d \in mktdata : \A r \in Content(d) :
           (r.type = "instrument_reset" /\ r.inst = k) => r.anchor <= e[2]
    <2> SUFFICES ASSUME NEW d \in mktdata, NEW r \in Content(d),
                        r.type = "instrument_reset", r.inst = k
                 PROVE  r.anchor <= e[2]
      OBVIOUS
    <2>1. r.anchor \in Nat
      BY DEF PubInv, DatagramsInv, DeltaRec, ResetRec
    <2>2. PICK f \in owed : f[1] = k /\ r.anchor <= f[2]
      BY <1>1, <1>2 DEF PubInv, OwedInv
    <2> QED BY <1>2, <2>1, <2>2
  <1>4. AllDeltas' = AllDeltas
    BY <1>1 DEF AllDeltas, Deltas, OpenDeltas, Records
  <1>5. PubTypeOK'
    BY <1>1, <1>2 DEF CaptureAndSend, PubInv, PubTypeOK, Generations
  <1>6. DatagramsInv'
    BY <1>1 DEF PubInv, DatagramsInv, DeltaRec, ResetRec, Content, OpenDeltas
  <1>7. DeltasInv'
    BY <1>1, <1>2, <1>4, DeltasKept
  <1>8. OwedInv'
    BY <1>1 DEF PubInv, OwedInv, Content
  <1>9. SnapshotsInv' /\ AnchorSeparates' /\ ResetBounds'
    <2>1. CASE refused
      <3>1. AnchorSeparates' /\ ResetBounds'
        BY <2>1, <1>1, <1>4, AnchorsKept
      <3>2. \A j \in Inst : last[j] \in Nat /\ gen[j] \in Nat
        BY PublisherAssumption DEF PubInv, PubTypeOK, Generations
      <3> QED BY <3>1, <3>2, <2>1, <1>1, <1>2, SnapshotsKept
    <2>2. CASE ~refused
      BY <2>2, <1>1, <1>2, <1>3, <1>4, CaptureInv
    <2> QED BY <2>1, <2>2
  <1> QED BY <1>5, <1>6, <1>7, <1>8, <1>9 DEF PubInv

(* A change of one entry keeps the truth a book per generation and number. *)
LEMMA TruthTyped ==
    ASSUME PubTypeOK, NEW k \in Inst, NEW g \in Generations, NEW n \in 0 .. MaxDeltas,
           NEW b \in Book
    PROVE  [truth EXCEPT ![k][g][n] = b]
               \in [Inst -> [Generations -> [0 .. MaxDeltas -> Book]]]
  <1> DEFINE B == [0 .. MaxDeltas -> Book]
             G == [Generations -> B]
  <1>1. truth \in [Inst -> G] /\ truth[k] \in G /\ truth[k][g] \in B
    BY DEF PubTypeOK
  <1>2. [truth[k][g] EXCEPT ![n] = b] \in B
    BY <1>1
  <1> HIDE DEF B
  <1>3. [truth[k] EXCEPT ![g] = [truth[k][g] EXCEPT ![n] = b]] \in G
    BY <1>1, <1>2
  <1> HIDE DEF G
  <1>4. [truth EXCEPT ![k] = [truth[k] EXCEPT ![g] = [truth[k][g] EXCEPT ![n] = b]]]
            \in [Inst -> G]
    BY <1>1, <1>3
  <1> QED BY <1>4 DEF G, B

(* The reset is alone under the number after everything that was packed,   *)
(* past every snapshot there is, and the snapshot owed reaches it.         *)
LEMMA DesynchronisedInv ==
    ASSUME PubInv, NEW k \in Inst, NEW b \in Books, NEW okOpen \in BOOLEAN,
           NEW okReset \in BOOLEAN, Desynchronised(k, b, okOpen, okReset)
    PROVE  PubInv' /\ AllDeltas' \subseteq AllDeltas
  <1> DEFINE A == SeqAfterFlush
             msg == ResetMsg(k, A)
             reset == [seq |-> A, recs |-> <<msg>>]
  <1>1. /\ A \in Nat /\ mktSeq \in Nat /\ mktSeq <= A /\ mktSeq' = A + 1
        /\ gen[k] \in Nat /\ gen[k] < MaxResets
        /\ gen' = [gen EXCEPT ![k] = @ + 1] /\ gen \in [Inst -> Nat]
        /\ MaxResets \in Nat /\ \A j \in Inst : last[j] \in Nat
    BY FlushedDatagrams, PublisherAssumption, SMTT(30)
       DEF PubInv, PubTypeOK, Desynchronised, Generations
  <1>2. /\ open' = <<>> /\ UNCHANGED <<last, nextSnapshotId, snapshots>>
        /\ mktdata' = Flushed(okOpen) \cup (IF okReset THEN {reset} ELSE {})
        /\ owed' = IF okReset THEN owed \cup {<<k, A>>} ELSE owed
    BY DEF Desynchronised, AnchorSequence
  <1>3. Content(reset) = {msg}
    BY DEF Content
  <1>4. /\ msg.type = "instrument_reset" /\ msg.inst = k /\ msg.anchor = A
        /\ msg.gen = gen[k] + 1 /\ msg \in ResetRec /\ msg \notin DeltaRec
        /\ reset.seq = A
    BY <1>1 DEF ResetMsg, ResetRec, DeltaRec
  <1> HIDE DEF msg, reset
  <1>5. /\ \A d \in Flushed(okOpen) :
              /\ d.seq \in Nat /\ d.seq < A
              /\ \A r \in Content(d) :
                    \/ r \in DeltaRec /\ r.mkt = d.seq /\ r \in AllDeltas
                    \/ /\ r \in ResetRec /\ r.anchor = d.seq
                       /\ r.gen <= gen[r.inst] /\ d \in mktdata
        /\ \A d, e \in Flushed(okOpen) : d.seq = e.seq => d = e
    BY FlushedDatagrams
  <1> HIDE DEF A
  <1>6. PubTypeOK'
    <2>1. gen' \in [Inst -> Generations]
      BY <1>1 DEF PubInv, PubTypeOK, Generations
    <2>2. owed' \subseteq Inst \X Nat
      BY <1>1, <1>2 DEF PubInv, PubTypeOK
    <2>3. b \in Book /\ book' \in [Inst -> Book]
      BY PublisherAssumption DEF Desynchronised, PubInv, PubTypeOK
    <2>4. truth' \in [Inst -> [Generations -> [0 .. MaxDeltas -> Book]]]
      <3>1. gen[k] + 1 \in Generations /\ last[k] \in 0 .. MaxDeltas
        BY <1>1 DEF Generations, PubInv, PubTypeOK
      <3>2. truth' = [truth EXCEPT ![k][gen[k] + 1][last[k]] = b]
        BY DEF Desynchronised
      <3> QED BY <2>3, <3>1, <3>2, TruthTyped DEF PubInv
    <2>5. Len(<<>>) <= DatagramCap
      BY PublisherAssumption
    <2> QED BY <1>1, <1>2, <2>1, <2>2, <2>3, <2>4, <2>5 DEF PubInv, PubTypeOK, Generations
  <1>7. OpenDeltas' = {} /\ open' \in Seq(DeltaRec)
    BY <1>2, EmptySeq DEF OpenDeltas
  <1>8. \A d \in mktdata' : d \in Flushed(okOpen) \/ (okReset /\ d = reset)
    BY <1>2
  <1>9. AllDeltas' \subseteq AllDeltas
    <2> SUFFICES ASSUME NEW r, r \in Deltas' PROVE r \in AllDeltas
      BY <1>7 DEF AllDeltas
    <2>1. r.type = "delta" /\ \E d \in mktdata' : r \in Content(d)
      BY DEF Deltas, Records, Content
    <2> QED BY <2>1, <1>3, <1>4, <1>5, <1>8 DEF ResetRec
  <1>10. DatagramsInv'
    <2>1. DeltaRec' = DeltaRec /\ ResetRec' = ResetRec
      BY DEF DeltaRec, ResetRec
    <2>2. \A d \in mktdata' : d.seq \in Nat /\ d.seq < mktSeq'
      BY <1>1, <1>4, <1>5, <1>8
    <2>3. \A d, e \in mktdata' : d.seq = e.seq => d = e
      BY <1>1, <1>4, <1>5, <1>8
    <2>4. \A d \in mktdata' : \A r \in Content(d) :
             \/ r \in DeltaRec /\ r.mkt = d.seq
             \/ r \in ResetRec /\ r.anchor = d.seq /\ r.gen <= gen'[r.inst]
      <3>1. \A j \in Inst : gen'[j] \in Nat /\ gen[j] \in Nat /\ gen[j] <= gen'[j]
        BY <1>1
      <3>2. gen'[k] = gen[k] + 1
        BY <1>1
      <3> SUFFICES ASSUME NEW d \in mktdata', NEW r \in Content(d), r \notin DeltaRec
                                                        \/ r.mkt # d.seq
                   PROVE  r \in ResetRec /\ r.anchor = d.seq /\ r.gen <= gen'[r.inst]
        OBVIOUS
      <3>3. CASE d = reset
        BY <3>2, <3>3, <1>1, <1>3, <1>4
      <3>4. CASE d \in Flushed(okOpen)
        <4>1. r \in ResetRec /\ r.anchor = d.seq /\ r.gen <= gen[r.inst]
          BY <3>4, <1>5
        <4>2. r.inst \in Inst /\ r.gen \in Nat
          BY <4>1 DEF ResetRec
        <4> QED BY <4>1, <4>2, <3>1
      <3> QED BY <3>3, <3>4, <1>8
    <2> QED BY <1>7, <2>1, <2>2, <2>3, <2>4 DEF DatagramsInv, Content
  <1>11. DeltasInv'
    BY <1>1, <1>2, <1>9, DeltasKept
  <1>12. OwedInv'
    <2>1. \A e \in owed' : e[2] <= mktSeq'
      BY <1>1, <1>2 DEF PubInv, OwedInv, PubTypeOK
    <2>2. \A d \in mktdata' : \A r \in Content(d) : r.type = "instrument_reset" =>
             \A e \in owed' : e[1] = r.inst =>
                \E f \in owed' : f[1] = r.inst /\ r.anchor <= f[2]
      <3> SUFFICES ASSUME NEW d \in mktdata', NEW r \in Content(d),
                          r.type = "instrument_reset",
                          NEW e \in owed', e[1] = r.inst
                   PROVE  \E f \in owed' : f[1] = r.inst /\ r.anchor <= f[2]
        OBVIOUS
      <3>1. r.anchor \in Nat /\ r.anchor <= A
        BY <1>1, <1>3, <1>4, <1>5, <1>8 DEF DeltaRec, ResetRec
      <3>2. CASE okReset /\ r.inst = k
        <4>1. <<k, A>> \in owed' /\ <<k, A>>[1] = r.inst /\ r.anchor <= <<k, A>>[2]
          BY <1>2, <3>1, <3>2
        <4> QED BY <4>1
      <3>3. CASE ~(okReset /\ r.inst = k)
        <4>1. e \in owed
          BY <3>3, <1>2
        <4>2. d \in mktdata
          BY <3>3, <1>3, <1>4, <1>5, <1>8 DEF DeltaRec
        <4>3. \E f \in owed : f[1] = r.inst /\ r.anchor <= f[2]
          BY <4>1, <4>2 DEF PubInv, OwedInv
        <4> QED BY <4>3, <1>2
      <3> QED BY <3>2, <3>3
    <2> QED BY <2>1, <2>2 DEF OwedInv, Content
  <1>13. SnapshotsInv'
    <2>1. \A j \in Inst : gen'[j] \in Nat /\ gen[j] <= gen'[j]
      BY <1>1
    <2>2. mktSeq' \in Nat /\ mktSeq <= mktSeq'
      BY <1>1
    <2> QED BY <1>1, <1>2, <2>1, <2>2, SnapshotsKept
  <1>14. AnchorSeparates'
    BY <1>2, <1>9 DEF AnchorSeparates, PubInv, AllDeltas, Begins, Records
  <1>15. ResetBounds'
    <2> SUFFICES ASSUME NEW e \in mktdata', NEW r \in Content(e),
                        r.type = "instrument_reset"
                 PROVE  /\ r.anchor = e.seq
                        /\ \A d \in snapshots : \A s \in Content(d) :
                              (s.type = "snapshot_begin" /\ s.inst = r.inst) =>
                                 /\ d.gen < r.gen => s.anchor <= r.anchor
                                 /\ d.gen >= r.gen => s.anchor >= r.anchor
      BY <1>2 DEF ResetBounds, Records, Content
    <2>1. CASE e \in mktdata
      BY <2>1, RecordsContent DEF PubInv, ResetBounds
    <2>2. CASE e = reset
      <3>1. r = msg /\ r.anchor = e.seq
        BY <2>2, <1>3, <1>4
      <3>2. \A d \in snapshots : \A s \in Content(d) :
               (s.type = "snapshot_begin" /\ s.inst = k) =>
                  /\ s.anchor \in Nat /\ s.anchor <= mktSeq
                  /\ d.gen \in Nat /\ d.gen <= gen[k]
        BY DEF PubInv, SnapshotsInv
      <3> QED BY <3>1, <3>2, <1>1, <1>4
    <2>3. e \in mktdata \/ e = reset
      BY <1>5, <1>8 DEF DeltaRec
    <2> QED BY <2>1, <2>2, <2>3
  <1> QED BY <1>6, <1>9, <1>10, <1>11, <1>12, <1>13, <1>14, <1>15 DEF PubInv

(* A delta takes the number after its instrument's last, in a datagram     *)
(* that is not before any other.                                           *)
LEMMA EmitInv ==
    ASSUME PubInv, NEW k \in Inst, NEW op \in Ops, NEW ok \in BOOLEAN, Emit(k, op, ok)
    PROVE  /\ PubInv'
           /\ \A a \in AllDeltas' :
                 a \in AllDeltas \/ (a.inst = k /\ a.pi = last[k] + 1 /\ a.op = op)
           /\ \A e \in mktdata' : \A r \in Content(e) :
                 r.type = "instrument_reset" => e \in mktdata
           /\ mktSeq' \in mktSeq .. mktSeq + 1 /\ (open' # <<>> \/ mktSeq' = mktSeq + 1)
  <1> DEFINE msg == [DeltaMsg(k, last[k] + 1, op) EXCEPT !.mkt =
                        IF Len(open) < DatagramCap THEN mktSeq ELSE mktSeq + 1]
             Fits == Len(open) < DatagramCap
  <1>1. /\ mktSeq \in Nat /\ Len(open) \in Nat /\ DatagramCap \in Nat \ {0}
        /\ last \in [Inst -> Nat] /\ last[k] < MaxDeltas /\ MaxDeltas \in Nat
        /\ last' = [last EXCEPT ![k] = @ + 1]
        /\ UNCHANGED <<owed, nextSnapshotId, snapshots, gen>>
        /\ gen \in [Inst -> Nat]
    BY LenProperties, PublisherAssumption
       DEF PubInv, PubTypeOK, DatagramsInv, Emit, Generations
  <1>2. \/ Fits /\ open' = Append(open, msg) /\ UNCHANGED <<mktSeq, mktdata>>
        \/ /\ ~Fits /\ mktdata' = Flushed(ok) /\ mktSeq' = SeqAfterFlush
           /\ open' = IF ok THEN <<msg>> ELSE <<>>
    BY <1>1 DEF Emit, Push
  <1>3. ~Fits => SeqAfterFlush = mktSeq + 1
    <2>1. open = <<>> => Len(open) = 0
      OBVIOUS
    <2> QED BY <2>1, <1>1 DEF SeqAfterFlush
  <1>4. /\ msg.type = "delta" /\ msg.inst = k /\ msg.pi = last[k] + 1
        /\ msg.mkt = mktSeq' /\ msg \in DeltaRec /\ msg.op = op
    <2>1. op \in Op
      BY PublisherAssumption
    <2>2. msg.mkt = mktSeq'
      BY <1>2, <1>3 DEF DeltaMsg
    <2> QED BY <1>1, <2>1, <2>2, <1>2, <1>3 DEF DeltaMsg, DeltaRec
  <1> HIDE DEF msg
  <1>5. /\ mktSeq' \in Nat /\ mktSeq <= mktSeq'
        /\ \A j \in Inst : last'[j] \in Nat /\ last[j] <= last'[j]
        /\ last'[k] = last[k] + 1
    BY <1>1, <1>2, <1>3
  <1>6. /\ open' \in Seq(DeltaRec) /\ Len(open') <= DatagramCap
        /\ OpenDeltas' \subseteq OpenDeltas \cup {msg}
        /\ \A r \in OpenDeltas' : r.mkt = mktSeq'
    <2>1. open \in Seq(DeltaRec) /\ \A r \in OpenDeltas : r.mkt = mktSeq
      BY DEF PubInv, DatagramsInv
    <2>2. CASE Fits
      <3>1. open' = Append(open, msg) /\ mktSeq' = mktSeq
        BY <1>2, <2>2
      <3>2. /\ open' \in Seq(DeltaRec) /\ Len(open') = Len(open) + 1
            /\ \A i \in 1 .. Len(open) : open'[i] = open[i]
            /\ open'[Len(open) + 1] = msg
        BY <3>1, <2>1, <1>4, AppendProperties
      <3>3. DOMAIN open = 1 .. Len(open) /\ DOMAIN open' = 1 .. (Len(open) + 1)
        BY <2>1, <3>2, LenProperties
      <3>4. \A i \in 1 .. (Len(open) + 1) : i \in 1 .. Len(open) \/ i = Len(open) + 1
        BY <1>1
      <3>5. OpenDeltas' \subseteq OpenDeltas \cup {msg}
        BY <3>2, <3>3, <3>4 DEF OpenDeltas
      <3> QED BY <2>1, <2>2, <3>1, <3>2, <3>5, <1>1, <1>4
    <2>3. CASE ~Fits
      <3>1. open' = <<msg>> \/ open' = <<>>
        BY <1>2, <2>3
      <3> DEFINE Goal == open' \in Seq(DeltaRec) /\ Len(open') <= 1
                           /\ OpenDeltas' \subseteq {msg}
      <3>2. ASSUME open' = <<msg>> PROVE Goal
        <4>1. open' \in Seq(DeltaRec) /\ Len(open') = 1
          BY <3>2, <1>4
        <4>2. \A n \in DOMAIN open' : open'[n] = msg
          BY <3>2
        <4> QED BY <4>1, <4>2 DEF OpenDeltas
      <3>3. ASSUME open' = <<>> PROVE Goal
        BY <3>3, EmptySeq DEF OpenDeltas
      <3>4. Goal
        BY <3>1, <3>2, <3>3
      <3> QED BY <3>4, <1>1, <1>4
    <2> QED BY <2>2, <2>3
  <1>7. /\ \A d \in mktdata' :
              /\ d.seq \in Nat /\ d.seq < mktSeq'
              /\ \A r \in Content(d) :
                    \/ r \in DeltaRec /\ r.mkt = d.seq /\ r \in AllDeltas
                    \/ /\ r \in ResetRec /\ r.anchor = d.seq
                       /\ r.gen <= gen[r.inst] /\ d \in mktdata
        /\ \A d, e \in mktdata' : d.seq = e.seq => d = e
    <2>1. CASE Fits
      <3>1. UNCHANGED <<mktdata, mktSeq>>
        BY <1>2, <2>1
      <3>2. \A d \in mktdata : \A r \in Content(d) : r \in DeltaRec => r \in AllDeltas
        BY DeltaPlaces DEF DeltaRec
      <3> QED BY <3>1, <3>2 DEF PubInv, DatagramsInv
    <2>2. CASE ~Fits
      BY <2>2, <1>2, FlushedDatagrams
    <2> QED BY <2>1, <2>2
  <1>8. AllDeltas' \subseteq AllDeltas \cup {msg}
    <2> SUFFICES ASSUME NEW r, r \in Deltas' PROVE r \in AllDeltas
      BY <1>6 DEF AllDeltas
    <2>1. r.type = "delta" /\ \E d \in mktdata' : r \in Content(d)
      BY DEF Deltas, Records, Content
    <2> QED BY <2>1, <1>7 DEF ResetRec
  <1>9. \A e \in mktdata' : \A r \in Content(e) :
           r.type = "instrument_reset" => e \in mktdata
    BY <1>7 DEF DeltaRec
  <1>10. PubTypeOK'
    <2>1. last' \in [Inst -> 0 .. MaxDeltas]
      BY <1>1 DEF PubInv, PubTypeOK
    <2>2. book' \in [Inst -> Book]
      <3>1. book' = [book EXCEPT ![k] = ApplyOp(book[k], op)]
        BY DEF Emit
      <3>2. book[k] \in Book /\ ApplyOp(book[k], op) \in Book
        BY ApplyOpBook DEF PubInv, PubTypeOK
      <3> QED BY <3>1, <3>2 DEF PubInv, PubTypeOK
    <2>3. truth' \in [Inst -> [Generations -> [0 .. MaxDeltas -> Book]]]
      <3> DEFINE B == [0 .. MaxDeltas -> Book]
                 next == [g \in Generations |-> [truth[k][g] EXCEPT ![last[k] + 1] =
                             ApplyOp(truth[k][g][last[k]], op)]]
      <3>1. truth \in [Inst -> [Generations -> B]] /\ truth[k] \in [Generations -> B]
        BY DEF PubInv, PubTypeOK
      <3>2. \A g \in Generations : next[g] \in B
        <4> SUFFICES ASSUME NEW g \in Generations PROVE next[g] \in B
          OBVIOUS
        <4>1. truth[k][g] \in B
          BY <3>1
        <4>2. truth[k][g][last[k]] \in Book
          BY <4>1, <1>1 DEF PubInv, PubTypeOK
        <4>3. ApplyOp(truth[k][g][last[k]], op) \in Book
          BY <4>2, ApplyOpBook
        <4>4. next[g] = [truth[k][g] EXCEPT ![last[k] + 1] =
                            ApplyOp(truth[k][g][last[k]], op)]
          OBVIOUS
        <4> QED BY <4>1, <4>3, <4>4
      <3>3. truth' = [truth EXCEPT ![k] = next]
        BY <3>1 DEF Emit
      <3> HIDE DEF B
      <3>4. next \in [Generations -> B]
        BY <3>2
      <3> HIDE DEF next
      <3>5. truth' \in [Inst -> [Generations -> B]]
        BY <3>1, <3>3, <3>4
      <3> QED BY <3>5 DEF B
    <2> QED BY <2>1, <2>2, <2>3, <1>1, <1>5, <1>6 DEF PubInv, PubTypeOK, Generations
  <1>11. DatagramsInv'
    <2>1. DeltaRec' = DeltaRec /\ ResetRec' = ResetRec
      BY DEF DeltaRec, ResetRec
    <2> QED BY <2>1, <1>1, <1>6, <1>7 DEF DatagramsInv, Content
  <1>12. DeltasInv'
    <2>1. \A a \in AllDeltas : /\ a \in DeltaRec /\ a.inst \in Inst /\ a.mkt \in Nat
                               /\ a.pi \in Nat /\ a.mkt <= mktSeq /\ a.pi <= last[a.inst]
      BY DEF PubInv, DeltasInv, DeltaRec
    <2>2. \A a \in AllDeltas : a.mkt <= mktSeq' /\ a.pi <= last'[a.inst]
      BY <2>1, <1>1, <1>5
    <2>3. \A a \in AllDeltas : a.inst = k => a.pi < msg.pi /\ a.mkt <= msg.mkt
      BY <2>1, <2>2, <1>1, <1>4
    <2>4. msg.mkt <= mktSeq' /\ msg.pi <= last'[k] /\ msg.pi \in Nat
      BY <1>1, <1>4, <1>5
    <2>5. \A a \in AllDeltas' :
             a \in DeltaRec /\ a.mkt <= mktSeq' /\ a.pi <= last'[a.inst]
      BY <2>1, <2>2, <2>4, <1>4, <1>8
    <2>6. \A a, b \in AllDeltas' : a.inst = b.inst =>
             (a.pi = b.pi => a = b) /\ (a.pi < b.pi => a.mkt <= b.mkt)
      <3> SUFFICES ASSUME NEW a \in AllDeltas', NEW b \in AllDeltas', a.inst = b.inst
                   PROVE  (a.pi = b.pi => a = b) /\ (a.pi < b.pi => a.mkt <= b.mkt)
        OBVIOUS
      <3>1. CASE a \in AllDeltas /\ b \in AllDeltas
        BY <3>1 DEF PubInv, DeltasInv
      <3>2. CASE a \in AllDeltas /\ b = msg
        BY <3>2, <2>1, <2>3, <2>4, <1>4
      <3>3. CASE a = msg /\ b \in AllDeltas
        BY <3>3, <2>1, <2>3, <2>4, <1>4
      <3>4. CASE a = msg /\ b = msg
        BY <3>4, <1>4, <1>5
      <3> QED BY <3>1, <3>2, <3>3, <3>4, <1>8
    <2>7. DeltaRec' = DeltaRec
      BY DEF DeltaRec
    <2> QED BY <2>5, <2>6, <2>7 DEF DeltasInv
  <1>13. OwedInv'
    <2>1. \A e \in owed : e[2] \in Nat /\ e[2] <= mktSeq
      BY DEF PubInv, OwedInv, PubTypeOK
    <2>2. \A e \in owed : e[2] <= mktSeq'
      BY <2>1, <1>1, <1>5
    <2> QED BY <2>2, <1>1, <1>9 DEF OwedInv, PubInv, Content
  <1>14. SnapshotsInv'
    BY <1>1, <1>5, SnapshotsKept
  <1>15. AnchorSeparates'
    <2> SUFFICES ASSUME NEW s \in Begins, NEW a \in AllDeltas', a.inst = s.inst,
                        a.pi > s.last
                 PROVE  a.mkt >= s.anchor
      BY <1>1 DEF AnchorSeparates, AllDeltas, Begins, Records
    <2>1. CASE a \in AllDeltas
      BY <2>1 DEF PubInv, AnchorSeparates, AllDeltas
    <2>2. CASE a = msg
      <3>1. s.anchor \in Nat /\ s.anchor <= mktSeq
        BY RecordsContent DEF PubInv, SnapshotsInv, Begins
      <3> QED BY <2>2, <3>1, <1>1, <1>4, <1>5
    <2> QED BY <2>1, <2>2, <1>8
  <1>16. ResetBounds'
    BY <1>1, <1>9, RecordsContent DEF ResetBounds, PubInv, Records
  <1>17. PubInv'
    BY <1>10, <1>11, <1>12, <1>13, <1>14, <1>15, <1>16 DEF PubInv
  <1>18. mktSeq' \in mktSeq .. mktSeq + 1 /\ (open' # <<>> \/ mktSeq' = mktSeq + 1)
    <2>1. open \in Seq(DeltaRec)
      BY DEF PubInv, DatagramsInv
    <2>2. Fits => open' # <<>>
      <3>1. Fits => Len(open') = Len(open) + 1
        BY <1>2, <1>4, <2>1, AppendProperties
      <3>2. Len(<<>>) = 0
        OBVIOUS
      <3> QED BY <3>1, <3>2, <1>1
    <2> QED BY <2>2, <1>1, <1>2, <1>3
  <1> QED BY <1>4, <1>8, <1>9, <1>17, <1>18

-----------------------------------------------------------------------------
(* The specification.                                                      *)

LEMMA PubStutterInv ==
    ASSUME PubInv, UNCHANGED pubVars
    PROVE  PubInv'
  <1>1. /\ OpenDeltas' = OpenDeltas /\ Deltas' = Deltas /\ Begins' = Begins
        /\ AllDeltas' = AllDeltas
    BY DEF pubVars, AllDeltas, Deltas, OpenDeltas, Begins, Records
  <1>2. PubTypeOK'
    BY DEF pubVars, PubInv, PubTypeOK, Generations
  <1>3. DatagramsInv' /\ DeltasInv'
    BY <1>1 DEF pubVars, PubInv, DatagramsInv, DeltasInv, DeltaRec, ResetRec, Content
  <1>4. OwedInv' /\ SnapshotsInv'
    BY DEF pubVars, PubInv, OwedInv, SnapshotsInv, Content
  <1>5. AnchorSeparates'
    BY <1>1 DEF PubInv, AnchorSeparates
  <1>6. ResetBounds'
    BY DEF pubVars, PubInv, ResetBounds, Records
  <1> QED BY <1>2, <1>3, <1>4, <1>5, <1>6 DEF PubInv

LEMMA PubNextInv ==
    ASSUME PubInv, PubNext
    PROVE  PubInv'
  <1>1. SendOutcomes \subseteq BOOLEAN
    BY PublisherAssumption
  <1> QED BY <1>1, EmitInv, FlushLiveInv, SendHeartbeatInv, DesynchronisedInv,
             PeriodicSnapshotInv, ServeOwedInv DEF PubNext

LEMMA PubInvHolds == PubSpec => []PubInv
  <1>1. PubInv /\ [PubNext]_pubVars => PubInv'
    BY PubNextInv, PubStutterInv
  <1> QED BY <1>1, PubInitInv, PTL DEF PubSpec

(* The numbering of the mktdata channel (Egress::push_inner, flush_inner,  *)
(* Sequencer, PerInstrumentSeq): whatever is packed, refused by the sink,  *)
(* reset or snapshotted, a channel number names one datagram, an           *)
(* instrument's number names one delta, and the two orders agree.  This is *)
(* what a subscriber that orders its backlog by channel number relies on.  *)
THEOREM PublisherChannelOrder == PubSpec => []ChannelOrder
  <1>1. PubInv => ChannelOrder
    BY DEF PubInv, DatagramsInv, DeltasInv, ChannelOrder, AllDeltas
  <1> QED BY <1>1, PubInvHolds, PTL

(* FeedPipeline::anchor_sequence and capture_and_send: a delta that a      *)
(* snapshot does not contain is numbered at or past its anchor, also when  *)
(* the snapshot was promised by an earlier reset and served later.         *)
THEOREM PublisherAnchorSeparates == PubSpec => []AnchorSeparates
  <1>1. PubInv => AnchorSeparates
    BY DEF PubInv
  <1> QED BY <1>1, PubInvHolds, PTL

(* Publisher::desynchronised and owed_snapshots: a reset is anchored at    *)
(* its own datagram, no snapshot of the discarded book is anchored past    *)
(* it, and every snapshot of the replacement reaches it, so a subscriber   *)
(* never refuses the recovery a reset promised.                            *)
THEOREM PublisherResetBounds == PubSpec => []ResetBounds
  <1>1. PubInv => ResetBounds
    BY DEF PubInv
  <1> QED BY <1>1, PubInvHolds, PTL

(* The number a delta was stamped with is the number of the datagram that  *)
(* carries it, through full datagrams, refused flushes and resets: what    *)
(* ChannelOrder and AnchorSeparates say of the stamp they say of the wire. *)
THEOREM PublisherStampIsDatagram ==
    PubSpec => [](\A d \in mktdata : \A r \in Content(d) :
                     r.type = "delta" => r.mkt = d.seq)
  <1>1. PubInv => \A d \in mktdata : \A r \in Content(d) :
                     r.type = "delta" => r.mkt = d.seq
    BY DEF PubInv, DatagramsInv, ResetRec
  <1> QED BY <1>1, PubInvHolds, PTL

-----------------------------------------------------------------------------
(* What the wire says of the adapter's books.                              *)

(* Every delta of k past number n that was sent or is packed leads from    *)
(* the book of generation g before it to the book after it.                *)
Follows(k, g, n) ==
    \A a \in AllDeltas : (a.inst = k /\ a.pi > n) =>
        truth[k][g][a.pi] = ApplyOp(truth[k][g][a.pi - 1], a.op)

(* Snapshot id carries the book that k had in generation g after delta n.  *)
CapturedAs(id, k, anchor, n, g) ==
    /\ Follows(k, g, n)
    /\ \A d \in snapshots : d.id = id =>
          d.gen = g /\ Content(d) \subseteq GroupRecs(k, id, anchor, n, truth[k][g][n])

SnapshotIsOneMoment ==
    \A d \in snapshots : \E k \in Inst :
        \E anchor \in 0 .. mktSeq, n \in 0 .. last[k], g \in 0 .. gen[k] :
            CapturedAs(d.id, k, anchor, n, g)

BoundsInv == mktSeq <= MaxMktdataSeq /\ nextSnapshotId <= MaxSnapshots

OpsInv == \A a \in AllDeltas : a.pi >= 1 /\ a.op \in Ops

BookIsTruth == \A k \in Inst : book[k] = truth[k][gen[k]][last[k]]

SentTyped ==
    /\ \A d \in mktdata : d.recs \in Seq(Content(d))
    /\ \A d \in snapshots : d.recs \in Seq(Content(d)) /\ d.id \in 0 .. nextSnapshotId - 1

(* A level of a snapshot is in one place of one datagram.                  *)
LevelOnce ==
    \A d, e \in snapshots : \A m \in DOMAIN d.recs, n \in DOMAIN e.recs :
        (d.recs[m].type = "snapshot_level" /\ d.recs[m] = e.recs[n]) => d = e /\ m = n

(* A snapshot that a delta has overtaken is anchored before the number a   *)
(* reset would take now.                                                   *)
OvertakenEarlier ==
    \A s \in Begins : s.last < last[s.inst] => s.anchor < mktSeq \/ open # <<>>

(* A snapshot that a later one of the same discarded book has overtaken is *)
(* anchored before the reset that discarded it.                            *)
OvertakenBeforeReset ==
    \A d, e \in snapshots : \A s \in Content(d), t \in Content(e) :
        (s.type = "snapshot_begin" /\ t.type = "snapshot_begin"
            /\ s.inst = t.inst /\ s.last < t.last) =>
              /\ d.gen <= e.gen
              /\ \A x \in mktdata : \A r \in Content(x) :
                    (r.type = "instrument_reset" /\ r.inst = s.inst /\ e.gen < r.gen)
                        => s.anchor < r.anchor

TruthInv ==
    /\ BoundsInv /\ OpsInv /\ BookIsTruth /\ SentTyped
    /\ SnapshotIsOneMoment /\ LevelOnce /\ OvertakenEarlier /\ OvertakenBeforeReset

LEMMA TruthInit == PubInit => TruthInv
  <1> SUFFICES ASSUME PubInit PROVE TruthInv
    OBVIOUS
  <1>1. mktdata = {} /\ snapshots = {} /\ open = <<>> /\ mktSeq = 0 /\ nextSnapshotId = 0
    BY DEF PubInit
  <1>2. AllDeltas = {} /\ Begins = {}
    BY <1>1, RecordsContent DEF AllDeltas, Deltas, OpenDeltas, Begins
  <1>3. BookIsTruth
    <2>1. 0 \in Generations /\ 0 \in 0 .. MaxDeltas
      BY PublisherAssumption DEF Generations
    <2> QED BY <2>1 DEF PubInit, BookIsTruth
  <1>4. BoundsInv
    BY <1>1, PublisherAssumption DEF BoundsInv
  <1> QED BY <1>1, <1>2, <1>3, <1>4 DEF TruthInv, OpsInv, SentTyped, SnapshotIsOneMoment,
          LevelOnce, OvertakenEarlier, OvertakenBeforeReset

(* What every step of the publisher has in common: it adds, and it writes  *)
(* the truth only where no number or no generation had reached.            *)
PubGrows ==
    /\ mktSeq <= mktSeq' /\ nextSnapshotId <= nextSnapshotId'
    /\ \A k \in Inst : last[k] <= last'[k] /\ gen[k] <= gen'[k]
    /\ mktdata \subseteq mktdata' /\ snapshots \subseteq snapshots'
    /\ \A k \in Inst : \A g \in 0 .. gen[k] : \A n \in 0 .. last[k] :
          truth'[k][g][n] = truth[k][g][n]
    /\ \A a \in AllDeltas' : a \in AllDeltas \/
          \A g \in 0 .. gen[a.inst] :
             truth'[a.inst][g][a.pi] = ApplyOp(truth'[a.inst][g][a.pi - 1], a.op)

LEMMA FollowsStays ==
    ASSUME PubInv, PubGrows, NEW k \in Inst, NEW g \in 0 .. gen[k], NEW n \in 0 .. last[k],
           Follows(k, g, n)
    PROVE  Follows(k, g, n)'
  <1> SUFFICES ASSUME NEW a \in AllDeltas', a.inst = k, a.pi > n
               PROVE  truth'[k][g][a.pi] = ApplyOp(truth'[k][g][a.pi - 1], a.op)
    BY DEF Follows
  <1>1. CASE a \in AllDeltas
    <2>1. truth[k][g][a.pi] = ApplyOp(truth[k][g][a.pi - 1], a.op)
      BY <1>1 DEF Follows
    <2>2. a.pi \in Nat /\ a.pi <= last[k] /\ last[k] \in Nat
      BY <1>1 DEF PubInv, DeltasInv, DeltaRec, PubTypeOK
    <2>3. a.pi \in 0 .. last[k] /\ a.pi - 1 \in 0 .. last[k]
      BY <2>2
    <2>4. /\ truth'[k][g][a.pi] = truth[k][g][a.pi]
          /\ truth'[k][g][a.pi - 1] = truth[k][g][a.pi - 1]
      BY <2>3 DEF PubGrows
    <2> QED BY <2>1, <2>4
  <1>2. CASE a \notin AllDeltas
    BY <1>2 DEF PubGrows
  <1> QED BY <1>1, <1>2

(* What was captured stays captured.                                       *)
LEMMA CapturedStays ==
    ASSUME PubInv, PubInv', PubGrows, NEW k \in Inst, NEW anchor \in 0 .. mktSeq,
           NEW n \in 0 .. last[k], NEW g \in 0 .. gen[k], NEW id,
           CapturedAs(id, k, anchor, n, g),
           \A d \in snapshots' : d.id = id => d \in snapshots
    PROVE  /\ CapturedAs(id, k, anchor, n, g)'
           /\ anchor \in 0 .. mktSeq' /\ n \in 0 .. last'[k] /\ g \in 0 .. gen'[k]
  <1>1. Follows(k, g, n)'
    BY FollowsStays DEF CapturedAs
  <1>2. truth'[k][g][n] = truth[k][g][n]
    BY DEF PubGrows
  <1>3. \A d \in snapshots' : d.id = id =>
           d.gen = g /\ Content(d) \subseteq GroupRecs(k, id, anchor, n, truth'[k][g][n])
    BY <1>2 DEF CapturedAs
  <1>4. CapturedAs(id, k, anchor, n, g)'
    BY <1>1, <1>3 DEF CapturedAs, Content
  <1>5. /\ mktSeq \in Nat /\ mktSeq' \in Nat /\ last[k] \in Nat /\ last'[k] \in Nat
        /\ gen[k] \in Nat /\ gen'[k] \in Nat
    BY PublisherAssumption DEF PubInv, PubTypeOK, Generations
  <1>6. mktSeq <= mktSeq' /\ last[k] <= last'[k] /\ gen[k] <= gen'[k]
    BY DEF PubGrows
  <1> QED BY <1>4, <1>5, <1>6

(* A step that captures nothing.                                           *)
LEMMA CapturesKept ==
    ASSUME PubInv, PubInv', TruthInv, PubGrows, UNCHANGED snapshots
    PROVE  SnapshotIsOneMoment' /\ LevelOnce' /\ Begins' = Begins
  <1>1. SnapshotIsOneMoment'
    <2> SUFFICES ASSUME NEW d \in snapshots
                 PROVE  (\E k \in Inst :
                           \E anchor \in 0 .. mktSeq, n \in 0 .. last[k], g \in 0 .. gen[k] :
                              CapturedAs(d.id, k, anchor, n, g))'
      BY DEF SnapshotIsOneMoment
    <2>1. PICK k \in Inst : \E anchor \in 0 .. mktSeq, n \in 0 .. last[k], g \in 0 .. gen[k] :
             CapturedAs(d.id, k, anchor, n, g)
      BY DEF TruthInv, SnapshotIsOneMoment
    <2>2. PICK anchor \in 0 .. mktSeq, n \in 0 .. last[k], g \in 0 .. gen[k] :
             CapturedAs(d.id, k, anchor, n, g)
      BY <2>1
    <2>3. PICK id : id = d.id
      OBVIOUS
    <2>4. /\ CapturedAs(id, k, anchor, n, g)'
          /\ anchor \in 0 .. mktSeq' /\ n \in 0 .. last'[k] /\ g \in 0 .. gen'[k]
      BY <2>2, <2>3, CapturedStays
    <2> QED BY <2>3, <2>4
  <1> QED BY <1>1 DEF TruthInv, LevelOnce, Begins, Records

(* A step that adds no reset and no number keeps the order of the resets.  *)
LEMMA OvertakenKept ==
    ASSUME PubInv, TruthInv, UNCHANGED snapshots,
           \A e \in mktdata' : \A r \in Content(e) :
              r.type = "instrument_reset" => e \in mktdata
    PROVE  OvertakenBeforeReset'
  BY DEF TruthInv, OvertakenBeforeReset, Content

(* After what was packed has left, the number a reset would take is past   *)
(* the anchor of every snapshot that was overtaken.                        *)
LEMMA OvertakenFlushed ==
    ASSUME PubInv, TruthInv, NEW s \in Begins, s.last < last[s.inst]
    PROVE  s.anchor \in Nat /\ s.anchor < SeqAfterFlush
  <1>1. s.anchor \in Nat /\ s.anchor <= mktSeq /\ mktSeq \in Nat
    BY RecordsContent DEF PubInv, PubTypeOK, SnapshotsInv, Begins
  <1>2. s.anchor < mktSeq \/ open # <<>>
    BY DEF TruthInv, OvertakenEarlier
  <1> QED BY <1>1, <1>2 DEF SeqAfterFlush

(* A sequence is one of its own messages.                                  *)
LEMMA SeqOfContent ==
    ASSUME NEW M, NEW d, d.recs \in Seq(M)
    PROVE  d.recs \in Seq(Content(d))
  <1>1. PICK s : s = d.recs
    OBVIOUS
  <1>2. s \in [1 .. Len(s) -> M] /\ Len(s) \in Nat /\ DOMAIN s = 1 .. Len(s)
    BY <1>1, LenProperties
  <1>3. s \in [1 .. Len(s) -> Content(d)]
    BY <1>1, <1>2 DEF Content
  <1> QED BY <1>1, <1>2, <1>3

(* Egress::flush_inner.                                                    *)
LEMMA FlushedTyped ==
    ASSUME PubInv, TruthInv, NEW ok
    PROVE  /\ mktdata \subseteq Flushed(ok)
           /\ \A d \in Flushed(ok) : d.recs \in Seq(Content(d))
           /\ SeqAfterFlush \in mktSeq .. mktSeq + 1
  <1>1. PICK packed : packed = [seq |-> mktSeq, recs |-> open]
    OBVIOUS
  <1>2. packed.recs \in Seq(DeltaRec)
    BY <1>1 DEF PubInv, DatagramsInv
  <1>3. packed.recs \in Seq(Content(packed))
    BY <1>2, SeqOfContent
  <1>4. SeqAfterFlush \in mktSeq .. mktSeq + 1
    BY DEF SeqAfterFlush, PubInv, PubTypeOK
  <1> QED BY <1>1, <1>3, <1>4 DEF Flushed, TruthInv, SentTyped

(* Every message of a snapshot's datagrams carries the snapshot's id.      *)
LEMMA GroupRecsId ==
    ASSUME NEW k, NEW id, NEW anchor, NEW n, NEW b,
           NEW r \in GroupRecs(k, id, anchor, n, b)
    PROVE  r.id = id
  BY DEF GroupRecs, BeginRec, EndRec, LevelRec

LEMMA ContentId ==
    ASSUME SnapshotIsOneMoment, NEW d \in snapshots, NEW r \in Content(d)
    PROVE  r.id = d.id
  <1>1. PICK k \in Inst : \E anchor \in 0 .. mktSeq, n \in 0 .. last[k], g \in 0 .. gen[k] :
           CapturedAs(d.id, k, anchor, n, g)
    BY DEF SnapshotIsOneMoment
  <1>2. PICK anchor \in 0 .. mktSeq, n \in 0 .. last[k], g \in 0 .. gen[k] :
           CapturedAs(d.id, k, anchor, n, g)
    BY <1>1
  <1>3. r \in GroupRecs(k, d.id, anchor, n, truth[k][g][n])
    BY <1>2 DEF CapturedAs
  <1> QED BY <1>3, GroupRecsId

(* capture_and_send.                                                       *)
LEMMA CaptureTruth ==
    ASSUME PubInv, PubInv', TruthInv, PubGrows, NEW k \in Inst, NEW anchor \in Nat,
           CaptureAndSend(k, anchor), UNCHANGED <<last, book, gen, truth>>,
           anchor <= mktSeq', AllDeltas' \subseteq AllDeltas,
           \A e \in mktdata' : \A r \in Content(e) :
              r.type = "instrument_reset" => e \in mktdata
    PROVE  /\ SnapshotIsOneMoment' /\ LevelOnce' /\ OvertakenBeforeReset'
           /\ \A d \in snapshots' :
                 d.recs \in Seq(Content(d)) /\ d.id \in 0 .. nextSnapshotId' - 1
           /\ \A s \in Begins' : s.last < last[s.inst] => s \in Begins
           /\ nextSnapshotId' <= MaxSnapshots
  <1> DEFINE new == Packed(SnapshotGroup(k, nextSnapshotId, anchor),
                           nextSnapshotId, gen[k])
  <1>1. /\ snapshots' = snapshots \cup new /\ nextSnapshotId' = nextSnapshotId + 1
        /\ nextSnapshotId < MaxSnapshots /\ nextSnapshotId \in Nat /\ MaxSnapshots \in Nat
    BY PublisherAssumption DEF CaptureAndSend, PubInv, PubTypeOK
  <1>2. /\ book[k] \in Book /\ book[k] = truth[k][gen[k]][last[k]]
        /\ last[k] \in Nat /\ gen[k] \in Nat /\ mktSeq' \in Nat
    BY PublisherAssumption DEF PubInv, PubTypeOK, Generations, TruthInv, BookIsTruth
  <1>3. /\ \A d \in new :
              /\ d.gen = gen[k] /\ d.id = nextSnapshotId
              /\ Content(d) \subseteq GroupRecs(k, nextSnapshotId, anchor, last[k], book[k])
              /\ d.recs \in Seq(Content(d))
        /\ \A d, e \in new : \A m \in DOMAIN d.recs, n \in DOMAIN e.recs :
              d.recs[m].type = "snapshot_level" /\ d.recs[m] = e.recs[n]
                 => d = e /\ m = n
    BY <1>2, PackedGroup
  <1>4. \A d \in new : \A s \in Content(d) : s.type = "snapshot_begin" =>
           s.inst = k /\ s.anchor = anchor /\ s.last = last[k]
    BY <1>3, GroupRecsTypes DEF BeginRec
  <1> HIDE DEF new
  <1>5. \A d \in snapshots : d.id \in 0 .. nextSnapshotId - 1
    BY DEF TruthInv, SentTyped
  <1>6. \A d \in snapshots : d.id # nextSnapshotId
    BY <1>1, <1>5
  <1>7. SnapshotIsOneMoment'
    <2> SUFFICES ASSUME NEW d \in snapshots'
                 PROVE  (\E j \in Inst :
                           \E a \in 0 .. mktSeq, n \in 0 .. last[j], g \in 0 .. gen[j] :
                              CapturedAs(d.id, j, a, n, g))'
      BY DEF SnapshotIsOneMoment
    <2>1. CASE d \in snapshots
      <3>1. PICK j \in Inst : \E a \in 0 .. mktSeq, n \in 0 .. last[j], g \in 0 .. gen[j] :
               CapturedAs(d.id, j, a, n, g)
        BY <2>1 DEF TruthInv, SnapshotIsOneMoment
      <3>2. PICK a \in 0 .. mktSeq, n \in 0 .. last[j], g \in 0 .. gen[j] :
               CapturedAs(d.id, j, a, n, g)
        BY <3>1
      <3>3. PICK id : id = d.id
        OBVIOUS
      <3>4. \A e \in snapshots' : e.id = id => e \in snapshots
        BY <2>1, <3>3, <1>1, <1>3, <1>6
      <3>5. /\ CapturedAs(id, j, a, n, g)'
            /\ a \in 0 .. mktSeq' /\ n \in 0 .. last'[j] /\ g \in 0 .. gen'[j]
        BY <3>2, <3>3, <3>4, CapturedStays
      <3> QED BY <3>3, <3>5
    <2>2. CASE d \in new
      <3>1. PICK n : n = last[k]
        OBVIOUS
      <3>2. PICK g : g = gen[k]
        OBVIOUS
      <3>3. PICK id : id = nextSnapshotId
        OBVIOUS
      <3>4. Follows(k, g, n)'
        <4>1. \A a \in AllDeltas' : a.inst = k => a.pi \in Nat /\ a.pi <= last[k]
          BY DEF PubInv, DeltasInv, DeltaRec
        <4> QED BY <4>1, <3>1, <1>2 DEF Follows
      <3>5. \A e \in snapshots' : e.id = id => e \in new
        BY <1>1, <1>6, <3>3
      <3>6. \A e \in snapshots' : e.id = id =>
               e.gen = g /\ Content(e) \subseteq GroupRecs(k, id, anchor, n, truth'[k][g][n])
        BY <3>1, <3>2, <3>3, <3>5, <1>2, <1>3
      <3>7. CapturedAs(id, k, anchor, n, g)'
        BY <3>4, <3>6 DEF CapturedAs, Content
      <3>8. anchor \in 0 .. mktSeq' /\ n \in 0 .. last'[k] /\ g \in 0 .. gen'[k]
        BY <1>2, <3>1, <3>2
      <3>9. d.id = id
        BY <2>2, <1>3, <3>3
      <3> QED BY <3>7, <3>8, <3>9
    <2> QED BY <2>1, <2>2, <1>1
  <1>8. LevelOnce'
    <2> SUFFICES ASSUME NEW d \in snapshots', NEW e \in snapshots',
                        NEW m \in DOMAIN d.recs, NEW n \in DOMAIN e.recs,
                        d.recs[m].type = "snapshot_level", d.recs[m] = e.recs[n]
                 PROVE  d = e /\ m = n
      BY DEF LevelOnce
    <2>0. \A x \in snapshots' : \A r \in Content(x) : r.id = x.id
      <3> SUFFICES ASSUME NEW x \in snapshots', NEW r \in Content(x) PROVE r.id = x.id
        OBVIOUS
      <3>1. CASE x \in snapshots
        BY <3>1, ContentId DEF TruthInv
      <3>2. CASE x \in new
        <4>1. r \in GroupRecs(k, nextSnapshotId, anchor, last[k], book[k])
          BY <3>2, <1>3
        <4> QED BY <4>1, <3>2, <1>3, GroupRecsId
      <3> QED BY <3>1, <3>2, <1>1
    <2>1. d.recs[m].id = d.id
      BY <2>0 DEF Content
    <2>2. e.recs[n].id = e.id
      BY <2>0 DEF Content
    <2>3. CASE d \in snapshots /\ e \in snapshots
      BY <2>3 DEF TruthInv, LevelOnce
    <2>4. CASE d \in new /\ e \in new
      BY <2>4, <1>3
    <2> QED BY <2>1, <2>2, <2>3, <2>4, <1>1, <1>3, <1>6
  <1>9. OvertakenBeforeReset'
    <2> SUFFICES ASSUME NEW d \in snapshots', NEW e \in snapshots',
                        NEW s \in Content(d), NEW t \in Content(e),
                        s.type = "snapshot_begin", t.type = "snapshot_begin",
                        s.inst = t.inst, s.last < t.last
                 PROVE  /\ d.gen <= e.gen
                        /\ \A x \in mktdata : \A r \in Content(x) :
                              (r.type = "instrument_reset" /\ r.inst = s.inst /\ e.gen < r.gen)
                                  => s.anchor < r.anchor
      BY DEF OvertakenBeforeReset, Content
    <2>1. CASE d \in snapshots /\ e \in snapshots
      BY <2>1 DEF TruthInv, OvertakenBeforeReset
    <2>2. CASE d \in new
      <3>1. s.inst = k /\ s.last = last[k]
        BY <2>2, <1>4
      <3>2. t.last \in Nat /\ t.last <= last[k]
        BY <3>1 DEF PubInv, SnapshotsInv
      <3> QED BY <3>1, <3>2, <1>2
    <2>3. CASE d \in snapshots /\ e \in new
      <3>1. t.inst = k /\ e.gen = gen[k]
        BY <2>3, <1>3, <1>4
      <3>2. d.gen <= gen[k]
        BY <2>3, <3>1 DEF PubInv, SnapshotsInv
      <3>3. \A x \in mktdata : \A r \in Content(x) :
               (r.type = "instrument_reset" /\ r.inst = k) => r.gen \in Nat /\ r.gen <= gen[k]
        BY DEF PubInv, DatagramsInv, DeltaRec, ResetRec
      <3> QED BY <3>1, <3>2, <3>3, <1>2
    <2> QED BY <2>1, <2>2, <2>3, <1>1
  <1>10. \A s \in Begins' : s.last < last[s.inst] => s \in Begins
    <2> SUFFICES ASSUME NEW s \in Begins', s.last < last[s.inst] PROVE s \in Begins
      OBVIOUS
    <2>1. s.type = "snapshot_begin" /\ \E d \in snapshots' : s \in Content(d)
      BY RecordsContent DEF Begins, Records, Content
    <2>2. PICK d \in snapshots' : s \in Content(d)
      BY <2>1
    <2>3. d \in snapshots
      BY <2>1, <2>2, <1>1, <1>2, <1>4
    <2> QED BY <2>1, <2>2, <2>3, RecordsContent DEF Begins
  <1>11. \A d \in snapshots' :
            d.recs \in Seq(Content(d)) /\ d.id \in 0 .. nextSnapshotId' - 1
    BY <1>1, <1>3, <1>5 DEF TruthInv, SentTyped
  <1> QED BY <1>1, <1>7, <1>8, <1>9, <1>10, <1>11

(* Nothing is captured and no delta is lowered.                            *)
LEMMA QuietTruth ==
    ASSUME PubInv, PubInv', TruthInv, AllDeltas' \subseteq AllDeltas,
           mktSeq <= mktSeq', mktSeq' <= MaxMktdataSeq,
           UNCHANGED <<last, book, gen, truth, snapshots, nextSnapshotId>>,
           mktdata \subseteq mktdata', \A d \in mktdata' : d.recs \in Seq(Content(d)),
           \A e \in mktdata' : \A r \in Content(e) :
              r.type = "instrument_reset" => e \in mktdata,
           \A s \in Begins : s.last < last[s.inst] => s.anchor < mktSeq' \/ open' # <<>>
    PROVE  TruthInv' /\ PubGrows
  <1>1. PubGrows
    <2>1. \A k \in Inst : last[k] \in Nat /\ gen[k] \in Nat
      BY PublisherAssumption DEF PubInv, PubTypeOK, Generations
    <2>2. nextSnapshotId \in Nat
      BY DEF PubInv, PubTypeOK
    <2> QED BY <2>1, <2>2 DEF PubGrows
  <1>2. SnapshotIsOneMoment' /\ LevelOnce' /\ Begins' = Begins
    BY <1>1, CapturesKept
  <1>3. OvertakenBeforeReset'
    BY OvertakenKept
  <1>4. OvertakenEarlier'
    BY <1>2 DEF OvertakenEarlier
  <1>5. BoundsInv' /\ OpsInv' /\ BookIsTruth' /\ SentTyped'
    BY DEF TruthInv, BoundsInv, OpsInv, BookIsTruth, SentTyped, Content
  <1> QED BY <1>1, <1>2, <1>3, <1>4, <1>5 DEF TruthInv

LEMMA FlushLiveTruth ==
    ASSUME PubInv, TruthInv, Room, NEW ok \in BOOLEAN, FlushLive(ok)
    PROVE  TruthInv' /\ PubGrows
  <1>1. PubInv'
    BY FlushLiveInv
  <1>2. /\ AllDeltas' \subseteq AllDeltas
        /\ \A e \in mktdata' : \A r \in Content(e) :
              r.type = "instrument_reset" => e \in mktdata
    BY FlushedInv DEF FlushLive
  <1>3. /\ mktdata \subseteq mktdata' /\ \A d \in mktdata' : d.recs \in Seq(Content(d))
        /\ mktSeq' \in mktSeq .. mktSeq + 1
    BY FlushedTyped DEF FlushLive
  <1>4. mktSeq \in Nat /\ mktSeq <= mktSeq' /\ mktSeq' <= MaxMktdataSeq
    BY <1>3, PublisherAssumption DEF PubInv, PubTypeOK, Room
  <1>5. \A s \in Begins : s.last < last[s.inst] => s.anchor < mktSeq'
    BY OvertakenFlushed DEF FlushLive
  <1>6. UNCHANGED <<last, book, gen, truth, snapshots, nextSnapshotId>>
    BY DEF FlushLive
  <1> QED BY <1>1, <1>2, <1>3, <1>4, <1>5, <1>6, QuietTruth

LEMMA SendHeartbeatTruth ==
    ASSUME PubInv, TruthInv, Room, SendHeartbeat
    PROVE  TruthInv' /\ PubGrows
  <1>1. PubInv'
    BY SendHeartbeatInv
  <1>2. /\ mktSeq \in Nat /\ mktSeq' = mktSeq + 1 /\ mktSeq' <= MaxMktdataSeq
        /\ UNCHANGED <<open, last, book, gen, truth, mktdata, snapshots, nextSnapshotId>>
    BY PublisherAssumption DEF SendHeartbeat, PubInv, PubTypeOK, Room
  <1>3. AllDeltas' = AllDeltas
    BY <1>2 DEF AllDeltas, Deltas, OpenDeltas
  <1>4. \A s \in Begins : s.anchor < mktSeq'
    <2>1. \A s \in Begins : s.anchor \in Nat /\ s.anchor <= mktSeq
      BY RecordsContent DEF PubInv, SnapshotsInv, Begins
    <2> QED BY <2>1, <1>2
  <1>5. \A d \in mktdata' : d.recs \in Seq(Content(d))
    BY <1>2 DEF TruthInv, SentTyped
  <1> QED BY <1>1, <1>2, <1>3, <1>4, <1>5, QuietTruth

LEMMA PubStutterTruth ==
    ASSUME PubInv, TruthInv, UNCHANGED pubVars
    PROVE  TruthInv' /\ PubGrows
  <1>1. PubInv'
    BY PubStutterInv
  <1>2. AllDeltas' = AllDeltas
    BY DEF pubVars, AllDeltas, Deltas, OpenDeltas
  <1>3. mktSeq \in Nat /\ mktSeq <= MaxMktdataSeq
    BY DEF PubInv, PubTypeOK, TruthInv, BoundsInv
  <1>4. /\ \A d \in mktdata' : d.recs \in Seq(Content(d))
        /\ \A s \in Begins : s.last < last[s.inst] => s.anchor < mktSeq' \/ open' # <<>>
    BY DEF pubVars, TruthInv, SentTyped, OvertakenEarlier
  <1>5. UNCHANGED <<mktSeq, last, book, gen, truth, mktdata, snapshots, nextSnapshotId>>
    BY DEF pubVars
  <1> QED BY <1>1, <1>2, <1>3, <1>4, <1>5, QuietTruth

(* A step with a capture.                                                  *)
LEMMA CaptureStepTruth ==
    ASSUME PubInv, PubInv', TruthInv, NEW k \in Inst, NEW anchor \in Nat,
           CaptureAndSend(k, anchor), UNCHANGED <<last, book, gen, truth>>,
           anchor <= mktSeq', AllDeltas' \subseteq AllDeltas,
           mktSeq <= mktSeq', mktSeq' <= MaxMktdataSeq,
           mktdata \subseteq mktdata', \A d \in mktdata' : d.recs \in Seq(Content(d)),
           \A e \in mktdata' : \A r \in Content(e) :
              r.type = "instrument_reset" => e \in mktdata,
           \A s \in Begins : s.last < last[s.inst] => s.anchor < mktSeq' \/ open' # <<>>
    PROVE  TruthInv' /\ PubGrows
  <1>1. PubGrows
    <2>1. \A j \in Inst : last[j] \in Nat /\ gen[j] \in Nat
      BY PublisherAssumption DEF PubInv, PubTypeOK, Generations
    <2>2. nextSnapshotId \in Nat /\ nextSnapshotId <= nextSnapshotId'
      BY DEF PubInv, PubTypeOK, CaptureAndSend
    <2>3. snapshots \subseteq snapshots'
      BY DEF CaptureAndSend
    <2> QED BY <2>1, <2>2, <2>3 DEF PubGrows
  <1>2. /\ SnapshotIsOneMoment' /\ LevelOnce' /\ OvertakenBeforeReset'
        /\ \A d \in snapshots' :
              d.recs \in Seq(Content(d)) /\ d.id \in 0 .. nextSnapshotId' - 1
        /\ \A s \in Begins' : s.last < last[s.inst] => s \in Begins
        /\ nextSnapshotId' <= MaxSnapshots
    BY <1>1, CaptureTruth
  <1>3. OvertakenEarlier'
    BY <1>2 DEF OvertakenEarlier
  <1>4. BoundsInv' /\ OpsInv' /\ BookIsTruth' /\ SentTyped'
    BY <1>2 DEF TruthInv, BoundsInv, OpsInv, BookIsTruth, SentTyped, Content
  <1> QED BY <1>1, <1>2, <1>3, <1>4 DEF TruthInv

LEMMA PeriodicSnapshotTruth ==
    ASSUME PubInv, TruthInv, Room, NEW k \in Inst, NEW ok \in BOOLEAN,
           PeriodicSnapshot(k, ok)
    PROVE  TruthInv' /\ PubGrows
  <1>1. PubInv'
    BY PeriodicSnapshotInv
  <1>2. /\ AllDeltas' \subseteq AllDeltas
        /\ \A e \in mktdata' : \A r \in Content(e) :
              r.type = "instrument_reset" => e \in mktdata
    BY FlushedInv DEF PeriodicSnapshot
  <1>3. /\ mktdata \subseteq mktdata' /\ \A d \in mktdata' : d.recs \in Seq(Content(d))
        /\ mktSeq' \in mktSeq .. mktSeq + 1
    BY FlushedTyped DEF PeriodicSnapshot
  <1>4. mktSeq \in Nat /\ mktSeq' \in Nat /\ mktSeq <= mktSeq' /\ mktSeq' <= MaxMktdataSeq
    BY <1>3, PublisherAssumption DEF PubInv, PubTypeOK, Room
  <1>5. \A s \in Begins : s.last < last[s.inst] => s.anchor < mktSeq'
    BY OvertakenFlushed DEF PeriodicSnapshot
  <1>6. CaptureAndSend(k, mktSeq') /\ UNCHANGED <<last, book, gen, truth>>
    BY DEF PeriodicSnapshot, AnchorSequence
  <1>7. PICK anchor : anchor = mktSeq'
    OBVIOUS
  <1>8. CaptureAndSend(k, anchor) /\ anchor \in Nat /\ anchor <= mktSeq'
    BY <1>4, <1>6, <1>7
  <1> QED BY <1>1, <1>2, <1>3, <1>4, <1>5, <1>6, <1>8, CaptureStepTruth

LEMMA ServeOwedTruth ==
    ASSUME PubInv, TruthInv, NEW k \in Inst, NEW refused \in BOOLEAN, ServeOwed(k, refused)
    PROVE  TruthInv' /\ PubGrows
  <1>1. PubInv'
    BY ServeOwedInv
  <1>2. PICK e \in LatestOwed :
           /\ IF refused THEN UNCHANGED <<nextSnapshotId, snapshots>>
                         ELSE CaptureAndSend(k, e[2])
           /\ UNCHANGED <<mktSeq, open, last, book, mktdata, gen, truth>>
    BY DEF ServeOwed
  <1>3. e[2] \in Nat /\ e[2] <= mktSeq /\ mktSeq \in Nat /\ mktSeq <= MaxMktdataSeq
    BY DEF LatestOwed, PubInv, OwedInv, PubTypeOK, TruthInv, BoundsInv
  <1>4. AllDeltas' = AllDeltas
    BY <1>2 DEF AllDeltas, Deltas, OpenDeltas, Records
  <1>5. /\ \A d \in mktdata' : d.recs \in Seq(Content(d))
        /\ \A s \in Begins : s.last < last[s.inst] => s.anchor < mktSeq' \/ open' # <<>>
    BY <1>2 DEF TruthInv, SentTyped, OvertakenEarlier
  <1>6. CASE refused
    BY <1>1, <1>2, <1>3, <1>4, <1>5, <1>6, QuietTruth
  <1>7. CASE ~refused
    BY <1>1, <1>2, <1>3, <1>4, <1>5, <1>7, CaptureStepTruth
  <1> QED BY <1>6, <1>7

(* A new generation starts at the last number, after every snapshot of the *)
(* ones before it.                                                         *)
LEMMA DesynchronisedTruth ==
    ASSUME PubInv, TruthInv, Room, NEW k \in Inst, NEW b \in Books, NEW okOpen \in BOOLEAN,
           NEW okReset \in BOOLEAN, Desynchronised(k, b, okOpen, okReset)
    PROVE  TruthInv' /\ PubGrows
  <1> DEFINE A == SeqAfterFlush
             msg == ResetMsg(k, A)
             reset == [seq |-> A, recs |-> <<msg>>]
  <1>1. PubInv' /\ AllDeltas' \subseteq AllDeltas
    BY DesynchronisedInv
  <1>2. /\ gen[k] < MaxResets /\ gen' = [gen EXCEPT ![k] = @ + 1]
        /\ book' = [book EXCEPT ![k] = b]
        /\ truth' = [truth EXCEPT ![k][gen[k] + 1][last[k]] = b]
        /\ mktSeq' = A + 1 /\ open' = <<>>
        /\ mktdata' = Flushed(okOpen) \cup (IF okReset THEN {reset} ELSE {})
        /\ UNCHANGED <<last, nextSnapshotId, snapshots>>
    BY DEF Desynchronised, AnchorSequence
  <1>3. /\ mktSeq \in Nat /\ A \in mktSeq .. mktSeq + 1 /\ A \in Nat
        /\ mktSeq' <= MaxMktdataSeq
    <2>1. A \in mktSeq .. mktSeq + 1 /\ mktSeq \in Nat
      BY FlushedTyped DEF PubInv, PubTypeOK
    <2>2. mktSeq + 2 <= MaxMktdataSeq /\ MaxMktdataSeq \in Nat /\ mktSeq' = A + 1
      BY <1>2, PublisherAssumption DEF Room
    <2> HIDE DEF A
    <2> QED BY ONLY <2>1, <2>2
  <1>4. /\ mktdata \subseteq Flushed(okOpen)
        /\ \A d \in Flushed(okOpen) : d.recs \in Seq(Content(d))
        /\ \A d \in Flushed(okOpen) : \A r \in Content(d) :
              r.type = "instrument_reset" => d \in mktdata
    BY FlushedTyped, FlushedDatagrams DEF DeltaRec
  <1>5. /\ Content(reset) = {msg} /\ reset.recs \in Seq({msg})
        /\ msg.type = "instrument_reset" /\ msg.inst = k /\ msg.anchor = A
        /\ msg.gen = gen[k] + 1
    BY DEF Content, ResetMsg
  <1>6. reset.recs \in Seq(Content(reset))
    BY <1>5
  <1> HIDE DEF msg, reset, A
  <1>7. /\ \A j \in Inst : gen[j] \in Nat /\ gen'[j] \in Nat /\ gen[j] <= gen'[j]
                           /\ last[j] \in Nat
        /\ gen'[k] = gen[k] + 1 /\ gen[k] + 1 \in Generations
        /\ \A j \in Inst \ {k} : gen'[j] = gen[j]
        /\ last[k] \in 0 .. MaxDeltas
    BY <1>2, PublisherAssumption DEF PubInv, PubTypeOK, Generations
  <1>8. /\ truth'[k][gen[k] + 1][last[k]] = b
        /\ \A j \in Inst \ {k} : truth'[j] = truth[j]
        /\ \A g \in Generations : g # gen[k] + 1 => truth'[k][g] = truth[k][g]
    <2> DEFINE B == [0 .. MaxDeltas -> Book]
               G == [Generations -> B]
    <2>1. truth \in [Inst -> G] /\ truth[k] \in G /\ truth[k][gen[k] + 1] \in B
      BY <1>7 DEF PubInv, PubTypeOK
    <2>2. PICK inner : inner = [truth[k][gen[k] + 1] EXCEPT ![last[k]] = b]
      OBVIOUS
    <2>3. inner[last[k]] = b
      BY <2>1, <2>2, <1>7
    <2>4. PICK outer : outer = [truth[k] EXCEPT ![gen[k] + 1] = inner]
      OBVIOUS
    <2> HIDE DEF B
    <2>5. /\ outer[gen[k] + 1] = inner
          /\ \A g \in Generations : g # gen[k] + 1 => outer[g] = truth[k][g]
      BY <2>1, <2>4, <1>7
    <2> HIDE DEF G
    <2>6. truth' = [truth EXCEPT ![k] = outer]
      BY <1>2, <2>2, <2>4
    <2>7. truth'[k] = outer /\ \A j \in Inst \ {k} : truth'[j] = truth[j]
      BY <2>1, <2>6
    <2> QED BY <2>3, <2>5, <2>7
  <1>9. PubGrows
    <2>1. \A j \in Inst : \A g \in 0 .. gen[j] : truth'[j][g] = truth[j][g]
      <3> SUFFICES ASSUME NEW j \in Inst, NEW g \in 0 .. gen[j]
                   PROVE  truth'[j][g] = truth[j][g]
        OBVIOUS
      <3>1. CASE j = k
        <4>1. g # gen[k] + 1
          BY <3>1, <1>7
        <4>2. g \in Generations
          BY <3>1, <1>2, <1>7, PublisherAssumption DEF Generations
        <4> QED BY <3>1, <4>1, <4>2, <1>8
      <3> QED BY <3>1, <1>8
    <2>2. mktdata \subseteq mktdata'
      BY <1>2, <1>4
    <2>3. nextSnapshotId \in Nat
      BY DEF PubInv, PubTypeOK
    <2> QED BY <1>1, <1>2, <1>3, <1>7, <2>1, <2>2, <2>3 DEF PubGrows
  <1>10. SnapshotIsOneMoment' /\ LevelOnce' /\ Begins' = Begins
    BY <1>1, <1>2, <1>9, CapturesKept
  <1>11. OvertakenEarlier'
    <2> SUFFICES ASSUME NEW s \in Begins, s.last < last[s.inst] PROVE s.anchor < mktSeq'
      BY <1>2, <1>10 DEF OvertakenEarlier
    <2>1. s.anchor \in Nat /\ s.anchor < A
      BY OvertakenFlushed DEF A
    <2> QED BY <2>1, <1>2, <1>3
  <1>12. OvertakenBeforeReset'
    <2> SUFFICES ASSUME NEW d \in snapshots, NEW e \in snapshots,
                        NEW s \in Content(d), NEW t \in Content(e),
                        s.type = "snapshot_begin", t.type = "snapshot_begin",
                        s.inst = t.inst, s.last < t.last
                 PROVE  /\ d.gen <= e.gen
                        /\ \A x \in mktdata' : \A r \in Content(x) :
                              (r.type = "instrument_reset" /\ r.inst = s.inst /\ e.gen < r.gen)
                                  => s.anchor < r.anchor
      BY <1>2 DEF OvertakenBeforeReset, Content
    <2>1. /\ d.gen <= e.gen
          /\ \A x \in mktdata : \A r \in Content(x) :
                (r.type = "instrument_reset" /\ r.inst = s.inst /\ e.gen < r.gen)
                    => s.anchor < r.anchor
      BY DEF TruthInv, OvertakenBeforeReset
    <2>2. s.anchor < A
      <3>1. s \in Begins
        BY RecordsContent DEF Begins
      <3>2. s.last \in Nat /\ t.last \in Nat /\ t.last <= last[s.inst] /\ last[s.inst] \in Nat
        BY <1>7 DEF PubInv, SnapshotsInv
      <3>3. s.last < last[s.inst]
        BY <3>2
      <3> QED BY <3>1, <3>3, OvertakenFlushed DEF A
    <2>3. \A x \in mktdata' : \A r \in Content(x) :
             r.type = "instrument_reset" => x \in mktdata \/ r = msg
      BY <1>2, <1>4, <1>5
    <2> QED BY <2>1, <2>2, <2>3, <1>5
  <1>13. BookIsTruth'
    <2> SUFFICES ASSUME NEW j \in Inst PROVE book'[j] = truth'[j][gen'[j]][last[j]]
      BY <1>2 DEF BookIsTruth
    <2>1. CASE j = k
      BY <2>1, <1>2, <1>7, <1>8 DEF PubInv, PubTypeOK
    <2>2. CASE j # k
      BY <2>2, <1>2, <1>7, <1>8 DEF TruthInv, BookIsTruth, PubInv, PubTypeOK
    <2> QED BY <2>1, <2>2
  <1>14. SentTyped'
    BY <1>2, <1>4, <1>6 DEF SentTyped, TruthInv, Content
  <1>15. BoundsInv' /\ OpsInv'
    BY <1>1, <1>2, <1>3 DEF TruthInv, BoundsInv, OpsInv
  <1> QED BY <1>9, <1>10, <1>11, <1>12, <1>13, <1>14, <1>15 DEF TruthInv

(* A delta changes the book of every generation alike.                     *)
LEMMA EmitTruth ==
    ASSUME PubInv, TruthInv, Room, NEW k \in Inst, NEW op \in Ops, NEW ok \in BOOLEAN,
           Emit(k, op, ok)
    PROVE  TruthInv' /\ PubGrows
  <1>1. /\ PubInv'
        /\ \A a \in AllDeltas' :
              a \in AllDeltas \/ (a.inst = k /\ a.pi = last[k] + 1 /\ a.op = op)
        /\ \A e \in mktdata' : \A r \in Content(e) :
              r.type = "instrument_reset" => e \in mktdata
        /\ mktSeq' \in mktSeq .. mktSeq + 1 /\ (open' # <<>> \/ mktSeq' = mktSeq + 1)
    BY EmitInv
  <1>2. /\ last[k] < MaxDeltas /\ last' = [last EXCEPT ![k] = @ + 1]
        /\ book' = [book EXCEPT ![k] = ApplyOp(@, op)]
        /\ truth' = [truth EXCEPT ![k] = [g \in DOMAIN @ |->
                       [@[g] EXCEPT ![last[k] + 1] = ApplyOp(truth[k][g][last[k]], op)]]]
        /\ Push(k, op, ok)
        /\ UNCHANGED <<nextSnapshotId, snapshots, gen>>
    BY DEF Emit
  <1>3. /\ mktSeq \in Nat /\ mktSeq <= mktSeq' /\ mktSeq' <= MaxMktdataSeq
        /\ nextSnapshotId \in Nat
    BY <1>1, PublisherAssumption DEF PubInv, PubTypeOK, Room
  <1>4. /\ \A j \in Inst : gen[j] \in Nat /\ gen[j] \in Generations
                           /\ last[j] \in Nat /\ last'[j] \in Nat /\ last[j] <= last'[j]
                           /\ 0 .. gen[j] \subseteq Generations
        /\ last'[k] = last[k] + 1 /\ \A j \in Inst \ {k} : last'[j] = last[j]
        /\ last[k] \in 0 .. MaxDeltas /\ last[k] + 1 \in 0 .. MaxDeltas
    BY <1>2, PublisherAssumption DEF PubInv, PubTypeOK, Generations
  <1>5. /\ \A j \in Inst \ {k} : truth'[j] = truth[j]
        /\ \A g \in Generations :
              /\ truth'[k][g][last[k] + 1] = ApplyOp(truth[k][g][last[k]], op)
              /\ \A n \in 0 .. last[k] : truth'[k][g][n] = truth[k][g][n]
    <2> DEFINE B == [0 .. MaxDeltas -> Book]
               next == [g \in Generations |-> [truth[k][g] EXCEPT ![last[k] + 1] =
                           ApplyOp(truth[k][g][last[k]], op)]]
    <2>1. truth \in [Inst -> [Generations -> B]] /\ truth[k] \in [Generations -> B]
      BY DEF PubInv, PubTypeOK
    <2>2. truth' = [truth EXCEPT ![k] = next]
      BY <1>2, <2>1
    <2>3. truth'[k] = next /\ \A j \in Inst \ {k} : truth'[j] = truth[j]
      <3> HIDE DEF next, B
      <3> QED BY <2>1, <2>2
    <2>4. ASSUME NEW g \in Generations
          PROVE  /\ next[g][last[k] + 1] = ApplyOp(truth[k][g][last[k]], op)
                 /\ \A n \in 0 .. last[k] : next[g][n] = truth[k][g][n]
      <3>1. truth[k][g] \in B
        BY <2>1
      <3>2. next[g] = [truth[k][g] EXCEPT ![last[k] + 1] =
                          ApplyOp(truth[k][g][last[k]], op)]
        OBVIOUS
      <3>3. \A n \in 0 .. last[k] : n # last[k] + 1 /\ n \in 0 .. MaxDeltas
        BY <1>4, PublisherAssumption
      <3> QED BY <3>1, <3>2, <3>3, <1>4
    <2> HIDE DEF next
    <2> QED BY <2>3, <2>4
  <1>6. mktdata \subseteq mktdata' /\ \A d \in mktdata' : d.recs \in Seq(Content(d))
    <2>1. mktdata' = mktdata \/ mktdata' = Flushed(ok)
      BY <1>2 DEF Push
    <2> QED BY <2>1, FlushedTyped DEF TruthInv, SentTyped
  <1>7. PubGrows
    <2>1. \A j \in Inst : \A g \in 0 .. gen[j] : \A n \in 0 .. last[j] :
             truth'[j][g][n] = truth[j][g][n]
      <3> SUFFICES ASSUME NEW j \in Inst, NEW g \in 0 .. gen[j], NEW n \in 0 .. last[j]
                   PROVE  truth'[j][g][n] = truth[j][g][n]
        OBVIOUS
      <3> QED BY <1>4, <1>5
    <2>2. ASSUME NEW a \in AllDeltas', a \notin AllDeltas, NEW g \in 0 .. gen[a.inst]
          PROVE  truth'[a.inst][g][a.pi] = ApplyOp(truth'[a.inst][g][a.pi - 1], a.op)
      <3>1. a.inst = k /\ a.pi = last[k] + 1 /\ a.op = op /\ g \in Generations
        BY <2>2, <1>1, <1>4
      <3>2. a.pi - 1 = last[k] /\ last[k] \in 0 .. last[k]
        BY <3>1, <1>4
      <3> QED BY <3>1, <3>2, <1>5
    <2>3. \A j \in Inst : last[j] <= last'[j] /\ gen[j] <= gen'[j]
      BY <1>2, <1>4
    <2>4. mktSeq <= mktSeq' /\ nextSnapshotId <= nextSnapshotId'
      BY <1>2, <1>3
    <2>5. mktdata \subseteq mktdata' /\ snapshots \subseteq snapshots'
      BY <1>2, <1>6
    <2>6. \A a \in AllDeltas' : a \in AllDeltas \/
             \A g \in 0 .. gen[a.inst] :
                truth'[a.inst][g][a.pi] = ApplyOp(truth'[a.inst][g][a.pi - 1], a.op)
      BY <2>2
    <2> QED BY <2>1, <2>3, <2>4, <2>5, <2>6 DEF PubGrows
  <1>8. SnapshotIsOneMoment' /\ LevelOnce' /\ Begins' = Begins
    BY <1>1, <1>2, <1>7, CapturesKept
  <1>9. OvertakenBeforeReset'
    BY <1>1, <1>2, OvertakenKept
  <1>10. OvertakenEarlier'
    <2> SUFFICES ASSUME NEW s \in Begins, open' = <<>> PROVE s.anchor < mktSeq'
      BY <1>8 DEF OvertakenEarlier
    <2>1. s.anchor \in Nat /\ s.anchor <= mktSeq
      BY RecordsContent DEF PubInv, SnapshotsInv, Begins
    <2> QED BY <2>1, <1>1, <1>3
  <1>11. BookIsTruth'
    <2> SUFFICES ASSUME NEW j \in Inst PROVE book'[j] = truth'[j][gen[j]][last'[j]]
      BY <1>2 DEF BookIsTruth
    <2>1. book[j] = truth[j][gen[j]][last[j]]
      BY DEF TruthInv, BookIsTruth
    <2>2. CASE j = k
      <3>1. book'[k] = ApplyOp(book[k], op)
        BY <1>2 DEF PubInv, PubTypeOK
      <3>2. truth'[k][gen[k]][last[k] + 1] = ApplyOp(truth[k][gen[k]][last[k]], op)
        BY <1>4, <1>5
      <3> QED BY <2>1, <2>2, <3>1, <3>2, <1>4
    <2>3. CASE j # k
      <3>1. book'[j] = book[j]
        BY <2>3, <1>2 DEF PubInv, PubTypeOK
      <3> QED BY <2>1, <2>3, <3>1, <1>4, <1>5
    <2> QED BY <2>2, <2>3
  <1>12. OpsInv'
    <2>1. \A a \in AllDeltas' : a.op \in Ops
      BY <1>1 DEF TruthInv, OpsInv
    <2>2. \A a \in AllDeltas' : a.pi >= 1
      BY <1>1, <1>4 DEF TruthInv, OpsInv
    <2> QED BY <2>1, <2>2 DEF OpsInv
  <1>13. BoundsInv' /\ SentTyped'
    BY <1>2, <1>3, <1>6 DEF TruthInv, BoundsInv, SentTyped, Content
  <1> QED BY <1>7, <1>8, <1>9, <1>10, <1>11, <1>12, <1>13 DEF TruthInv

LEMMA PubNextTruth ==
    ASSUME PubInv, TruthInv, [PubNext]_pubVars
    PROVE  PubInv' /\ TruthInv' /\ PubGrows
  <1>1. CASE UNCHANGED pubVars
    BY <1>1, PubStutterInv, PubStutterTruth
  <1>2. CASE PubNext
    <2>1. SendOutcomes \subseteq BOOLEAN
      BY PublisherAssumption
    <2>2. PubInv'
      BY <1>2, PubNextInv
    <2> QED BY <1>2, <2>1, <2>2, EmitTruth, FlushLiveTruth, SendHeartbeatTruth,
               DesynchronisedTruth, PeriodicSnapshotTruth, ServeOwedTruth DEF PubNext
  <1> QED BY <1>1, <1>2

(* SnapshotFramer and send_snapshot: all datagrams of one snapshot carry   *)
(* the book of one instrument as it was after one of its deltas, whatever  *)
(* was packed, flushed or refused around the capture, and every delta on   *)
(* the wire past that number leads from the book before it to the book     *)
(* after it.  A subscriber that starts from the snapshot and applies the   *)
(* deltas in order is never off.                                           *)
THEOREM PublisherSnapshotIsOneMoment == PubSpec => []SnapshotIsOneMoment
  <1>1. PubInit => PubInv /\ TruthInv
    BY PubInitInv, TruthInit
  <1>2. PubInv /\ TruthInv /\ [PubNext]_pubVars => (PubInv /\ TruthInv)'
    BY PubNextTruth
  <1>3. TruthInv => SnapshotIsOneMoment
    BY DEF TruthInv
  <1> QED BY <1>1, <1>2, <1>3, PTL DEF PubSpec

-----------------------------------------------------------------------------
(* What a handler of the shard may do to the record of an instrument: keep *)
(* its book or demote it, or advance the book by the next delta.           *)

Kept(i, j) ==
    /\ j.LastAppliedInstrumentSeq = i.LastAppliedInstrumentSeq
    /\ j.Book = i.Book /\ j.OpenSnapshot = i.OpenSnapshot
    /\ j.RequiredAnchorSeq = i.RequiredAnchorSeq
    /\ j.Status \in {i.Status, "gap"}

Advanced(i, j, d) ==
    /\ i.Status = "ready" /\ j.Status = "ready"
    /\ d.pi = i.LastAppliedInstrumentSeq + 1
    /\ j.LastAppliedInstrumentSeq = d.pi
    /\ j.Book = ApplyOp(i.Book, d.op) /\ j.OpenSnapshot = i.OpenSnapshot
    /\ j.RequiredAnchorSeq = i.RequiredAnchorSeq

(* Every delta the shard holds on to is in S.                              *)
BufferedIn(S) == \A k \in Inst : \A j \in 1 .. Len(deltaBuf[k]) : deltaBuf[k][j] \in S
WindowIn(S) == \A k \in Inst : instruments[k].Pending \subseteq S
LoopsIn(S) == held \subseteq S /\ \A j \in 1 .. Len(replay) : replay[j] \in S
CarriedIn(S) == BufferedIn(S) /\ WindowIn(S) /\ LoopsIn(S)

Effect(k, S) ==
    \/ Kept(instruments[k], instruments'[k])
    \/ \E d \in S : d.inst = k /\ Advanced(instruments[k], instruments'[k], d)

LEMMA KeptSelf == \A i : Kept(i, i)
  BY DEF Kept

LEMMA RequireKept ==
    ASSUME NEW i \in Instrument, NEW seq
    PROVE  LET j == RequireSnapshotAtLeast([i EXCEPT !.Status = "gap", !.Pending = {}], seq)
           IN  Kept(i, j) /\ j.Pending = {}
  BY DEF Kept, RequireSnapshotAtLeast, Instrument

LEMMA EvictedKept ==
    ASSUME NEW i \in Instrument, NEW buf
    PROVE  Kept(i, Evicted(i, buf)) /\ Evicted(i, buf).Pending = {}
  BY RequireKept DEF Evicted

(* bufferDelta demotes at most, and holds on to the new delta.             *)
LEMMA BufferEffect ==
    ASSUME NEW S, BufferedIn(S), deltaBuf \in [Inst -> Seq(Delta)],
           NEW insts \in [Inst -> Instrument], NEW d \in Delta, d \in S, BufferDelta(insts, d)
    PROVE  /\ BufferedIn(S)'
           /\ \A k \in Inst : /\ Kept(insts[k], instruments'[k])
                              /\ instruments'[k].Pending \subseteq insts[k].Pending
  <1>1. PICK n \in 0 .. Len(deltaBuf[d.inst]) :
           LET buf == [deltaBuf EXCEPT ![d.inst] = InsertAfter(@, n, d)]
           IN  \/ deltaBuf' = buf /\ instruments' = insts
               \/ EvictLargestBuffer(buf, insts)
    BY DEF BufferDelta
  <1>2. PICK buf : buf = [deltaBuf EXCEPT ![d.inst] = InsertAfter(@, n, d)]
    OBVIOUS
  <1>3. \A k \in Inst : \A j \in 1 .. Len(buf[k]) : buf[k][j] \in S
    <2> SUFFICES ASSUME NEW k \in Inst, NEW j \in 1 .. Len(buf[k]) PROVE buf[k][j] \in S
      OBVIOUS
    <2>1. CASE k = d.inst
      <3>1. PICK old : old = deltaBuf[k]
        OBVIOUS
      <3>2. old \in Seq(Delta) /\ n \in 0 .. Len(old) /\ Len(old) \in Nat
        BY <2>1, <3>1, LenProperties
      <3>3. buf[k] = InsertAfter(old, n, d)
        BY <1>2, <2>1, <3>1
      <3>4. Len(buf[k]) = Len(old) + 1
        BY <3>2, <3>3, InsertAfterType
      <3>5. buf[k][j] = IF j <= n THEN old[j] ELSE IF j = n + 1 THEN d ELSE old[j - 1]
        BY <3>2, <3>3, <3>4 DEF InsertAfter
      <3>6. (j <= n => j \in 1 .. Len(old)) /\ (~(j <= n) /\ j # n + 1 => j - 1 \in 1 .. Len(old))
        BY <3>2, <3>4
      <3>7. \A m \in 1 .. Len(old) : old[m] \in S
        BY <3>1 DEF BufferedIn
      <3> QED BY <3>5, <3>6, <3>7
    <2>2. CASE k # d.inst
      <3>1. buf[k] = deltaBuf[k]
        BY <1>2, <2>2
      <3> QED BY <3>1 DEF BufferedIn
    <2> QED BY <2>1, <2>2
  <1>4. CASE deltaBuf' = buf /\ instruments' = insts
    BY <1>3, <1>4, KeptSelf DEF BufferedIn
  <1>5. CASE EvictLargestBuffer(buf, insts)
    <2>1. PICK v \in Inst : /\ deltaBuf' = [buf EXCEPT ![v] = <<>>]
                            /\ instruments' = [insts EXCEPT ![v] = Evicted(@, buf[v])]
      BY <1>5 DEF EvictLargestBuffer
    <2>2. DOMAIN buf = Inst
      BY <1>2
    <2>3. BufferedIn(S)'
      <3> SUFFICES ASSUME NEW k \in Inst, NEW j \in 1 .. Len(deltaBuf'[k])
                   PROVE  deltaBuf'[k][j] \in S
        BY DEF BufferedIn
      <3>1. k # v
        <4>1. Len(<<>>) = 0
          OBVIOUS
        <4> QED BY <2>1, <2>2, <4>1
      <3> QED BY <3>1, <1>3, <2>1, <2>2
    <2>4. ASSUME NEW k \in Inst
          PROVE  /\ Kept(insts[k], instruments'[k])
                 /\ instruments'[k].Pending \subseteq insts[k].Pending
      <3>1. instruments'[k] = IF k = v THEN Evicted(insts[v], buf[v]) ELSE insts[k]
        BY <2>1
      <3> QED BY <3>1, EvictedKept, KeptSelf
    <2> QED BY <2>3, <2>4
  <1> QED BY <1>1, <1>2, <1>4, <1>5

LEMMA DemoteKept ==
    ASSUME NEW i \in Instrument, NEW lost, NEW seq
    PROVE  LET j == RequireSnapshotAtLeast(
                        [i EXCEPT !.Status = "gap", !.LostInstrumentSeq = lost,
                                  !.Pending = {}], seq)
           IN  Kept(i, j) /\ j.Pending = {}
  BY DEF Kept, RequireSnapshotAtLeast, Instrument

LEMMA HoldKept ==
    ASSUME NEW i \in Instrument, NEW P
    PROVE  Kept(i, [i EXCEPT !.Pending = P]) /\ [i EXCEPT !.Pending = P].Pending = P
  BY DEF Kept, Instrument

LEMMA ApplyOneAdvances ==
    ASSUME NEW i \in Instrument, i.Status = "ready", NEW P, NEW d,
           d.pi = i.LastAppliedInstrumentSeq + 1
    PROVE  LET j == ApplyOne([i EXCEPT !.Pending = P], d)
           IN  Advanced(i, j, d) /\ j.Pending = P
  BY DEF Advanced, ApplyOne, Instrument

LEMMA ApplyOneSame ==
    ASSUME NEW i \in Instrument
    PROVE  [i EXCEPT !.Pending = i.Pending] = i
  BY DEF Instrument

(* applyDeltaToReady.                                                      *)
LEMMA ToReadyEffect ==
    ASSUME IndInv, ~drain, NEW S, CarriedIn(S), NEW d \in Delta, d \in S, Ready(d.inst),
           NEW rest, \A j \in 1 .. Len(rest) : rest[j] \in S,
           ApplyDeltaToReady(d, rest)
    PROVE  CarriedIn(S)' /\ \A k \in Inst : Effect(k, S)
  <1>1. PICK k : k = d.inst
    OBVIOUS
  <1>2. PICK i : i = instruments[k]
    OBVIOUS
  <1>3. /\ k \in Inst /\ instruments \in [Inst -> Instrument] /\ i \in Instrument
        /\ i.Status = "ready"
        /\ NextExpectedInstrumentSeq(i) = i.LastAppliedInstrumentSeq + 1
    BY <1>1, <1>2, ReadyFacts
  <1>4. deltaBuf \in [Inst -> Seq(Delta)] /\ BufferedIn(S) /\ WindowIn(S) /\ LoopsIn(S)
    BY DEF IndInv, BufferOK, CarriedIn
  <1>5. i.Pending \subseteq S
    BY <1>2, <1>3, <1>4 DEF WindowIn
  <1> DEFINE Only(j) == instruments' = [instruments EXCEPT ![k] = j]
  <1>6. ASSUME NEW j, Only(j), Kept(i, j) \/ Advanced(i, j, d), j.Pending \subseteq S
        PROVE  WindowIn(S)' /\ \A l \in Inst : Effect(l, S)
    <2>1. \A l \in Inst : instruments'[l] = IF l = k THEN j ELSE instruments[l]
      BY <1>3, <1>6
    <2>2. WindowIn(S)'
      BY <1>4, <1>6, <2>1 DEF WindowIn
    <2>3. \A l \in Inst : Effect(l, S)
      BY <1>1, <1>2, <1>6, <2>1, KeptSelf DEF Effect
    <2> QED BY <2>2, <2>3
  <1>7. CASE DiscardStale(d, rest)
    <2>1. /\ held' = {} /\ replay' = rest /\ UNCHANGED <<instruments, deltaBuf>>
      BY <1>7 DEF DiscardStale, Loop
    <2> QED BY <1>4, <2>1, KeptSelf DEF CarriedIn, BufferedIn, WindowIn, LoopsIn, Effect
  <1>8. CASE DemoteMalformed(d, rest)
    <2>1. PICK j : j = RequireSnapshotAtLeast(
                        [i EXCEPT !.Status = "gap",
                                  !.LostInstrumentSeq = i.LostInstrumentSeq \cup {d.pi},
                                  !.Pending = {}], d.pi)
      OBVIOUS
    <2>2. Kept(i, j) /\ j.Pending = {}
      BY <1>3, <2>1, DemoteKept
    <2>3. Only(j) /\ held' = i.Pending /\ replay' = rest /\ deltaBuf' = deltaBuf
      BY <1>1, <1>2, <1>8, <2>1 DEF DemoteMalformed, Loop
    <2>4. WindowIn(S)' /\ \A l \in Inst : Effect(l, S)
      BY <1>6, <2>2, <2>3
    <2> QED BY <1>4, <1>5, <2>3, <2>4 DEF CarriedIn, BufferedIn, LoopsIn
  <1>9. CASE HoldOutOfOrder(d, rest)
    <2>1. PICK j : j = [i EXCEPT !.Pending = WithPending(i, d)]
      OBVIOUS
    <2>0. Kept(i, j) /\ j.Pending = WithPending(i, d)
      BY <1>3, <2>1, HoldKept
    <2>2. Kept(i, j) /\ j.Pending \subseteq S
      BY <1>5, <2>0 DEF WithPending
    <2>3. Only(j) /\ held' = {} /\ replay' = rest /\ deltaBuf' = deltaBuf
      BY <1>1, <1>2, <1>9, <2>1 DEF HoldOutOfOrder, Loop
    <2>4. WindowIn(S)' /\ \A l \in Inst : Effect(l, S)
      BY <1>6, <2>2, <2>3
    <2> QED BY <1>4, <2>3, <2>4 DEF CarriedIn, BufferedIn, LoopsIn
  <1>10. CASE DeclareGap(d, rest)
    <2>1. PICK seq : seq = MaxPi(d.pi - 1, {p.pi : p \in {q \in i.Pending : q.pi # d.pi}})
      OBVIOUS
    <2>2. PICK j : j = RequireSnapshotAtLeast(
                           [i EXCEPT !.Status = "gap", !.Pending = {}], seq)
      OBVIOUS
    <2>3. Kept(i, j) /\ j.Pending = {}
      BY <1>3, <2>2, RequireKept
    <2>4. j \in Instrument
      <3>1. [i EXCEPT !.Status = "gap", !.Pending = {}] \in Instrument
        BY <1>3 DEF Instrument
      <3>2. seq \in Nat
        <4>1. i.Pending \in SUBSET Delta /\ IsFiniteSet(i.Pending)
          BY <1>1, <1>2, ReadyFacts
        <4>2. {q \in i.Pending : q.pi # d.pi} \in SUBSET Delta
              /\ IsFiniteSet({q \in i.Pending : q.pi # d.pi})
          BY <4>1, FS_Subset
        <4>3. d.pi - 1 \in Nat
          BY DeltaType
        <4> QED BY <2>1, <4>2, <4>3, FinitePiSet, MaxPiType
      <3> QED BY <3>1, <3>2, <2>2, RequireType
    <2>5. PICK insts : insts = [instruments EXCEPT ![k] = j]
      OBVIOUS
    <2>6. insts \in [Inst -> Instrument]
      BY <1>3, <2>4, <2>5
    <2>7. BufferDelta(insts, d) /\ held' = {} /\ replay' = rest
      BY <1>1, <1>2, <1>10, <2>1, <2>2, <2>5 DEF DeclareGap, Loop
    <2>8. /\ BufferedIn(S)'
          /\ \A l \in Inst : /\ Kept(insts[l], instruments'[l])
                             /\ instruments'[l].Pending \subseteq insts[l].Pending
      BY <1>4, <2>6, <2>7, BufferEffect
    <2>9. \A l \in Inst : insts[l] = IF l = k THEN j ELSE instruments[l]
      BY <1>3, <2>5
    <2>10. \A l \in Inst : Kept(instruments[l], insts[l]) /\ insts[l].Pending \subseteq S
      BY <1>2, <1>4, <2>3, <2>9, KeptSelf DEF WindowIn
    <2>11. \A l \in Inst : Kept(instruments[l], instruments'[l])
      BY <2>8, <2>10 DEF Kept
    <2> QED BY <2>7, <2>8, <2>10, <2>11 DEF CarriedIn, WindowIn, LoopsIn, Effect
  <1>11. CASE ApplyContiguous(d, rest)
    <2>1. PICK j : j = ApplyOne(i, d)
      OBVIOUS
    <2>2. d.pi = i.LastAppliedInstrumentSeq + 1
      BY <1>1, <1>2, <1>3, <1>11 DEF ApplyContiguous
    <2>3. Advanced(i, j, d) /\ j.Pending = i.Pending
      <3>1. j = ApplyOne([i EXCEPT !.Pending = i.Pending], d)
        BY <1>3, <2>1, ApplyOneSame
      <3> QED BY <1>3, <2>2, <3>1, ApplyOneAdvances
    <2>4. Only(j) /\ held' = {} /\ replay' = rest /\ deltaBuf' = deltaBuf
      BY <1>1, <1>2, <1>11, <2>1 DEF ApplyContiguous, Loop
    <2>5. WindowIn(S)' /\ \A l \in Inst : Effect(l, S)
      BY <1>5, <1>6, <2>3, <2>4
    <2> QED BY <1>4, <2>4, <2>5 DEF CarriedIn, BufferedIn, LoopsIn
  <1> QED BY <1>7, <1>8, <1>9, <1>10, <1>11 DEF ApplyDeltaToReady

LEMMA RebufferEffect ==
    ASSUME IndInv, NEW S, CarriedIn(S), RebufferHeld
    PROVE  CarriedIn(S)' /\ \A k \in Inst : Effect(k, S)
  <1>1. PICK d \in held : BufferDelta(instruments, d) /\ held' = held \ {d}
    BY DEF RebufferHeld
  <1>2. /\ d \in S /\ d \in Delta /\ replay' = replay
        /\ instruments \in [Inst -> Instrument] /\ deltaBuf \in [Inst -> Seq(Delta)]
        /\ BufferedIn(S) /\ WindowIn(S) /\ LoopsIn(S)
    BY <1>1 DEF CarriedIn, LoopsIn, IndInv, OtherTypes, InstrumentsOK, BufferOK, RebufferHeld
  <1>3. /\ BufferedIn(S)'
        /\ \A k \in Inst : /\ Kept(instruments[k], instruments'[k])
                           /\ instruments'[k].Pending \subseteq instruments[k].Pending
    BY <1>1, <1>2, BufferEffect
  <1> QED BY <1>1, <1>2, <1>3 DEF CarriedIn, WindowIn, LoopsIn, Effect

LEMMA DrainEffect ==
    ASSUME IndInv, NEW S, CarriedIn(S), Drain
    PROVE  CarriedIn(S)' /\ \A k \in Inst : Effect(k, S)
  <1>1. /\ busy # None /\ drain /\ UNCHANGED <<deltaBuf, held, replay>>
        /\ instruments \in [Inst -> Instrument] /\ LoopShape /\ InstrumentsOK
    BY DEF Drain, bufferVars, IndInv, InstrumentsOK
  <1>2. PICK k : k = busy
    OBVIOUS
  <1>3. PICK i : i = instruments[k]
    OBVIOUS
  <1>4. k \in Inst /\ i \in Instrument /\ i.Status = "ready" /\ InstOK(k, i)
    BY <1>1, <1>2, <1>3 DEF LoopShape, Ready, IndInv, OtherTypes, InstrumentsOK
  <1>5. NextExpectedInstrumentSeq(i) = i.LastAppliedInstrumentSeq + 1
    BY <1>4, NextExpectedOfReady DEF InstOK
  <1>6. CASE UNCHANGED instruments
    BY <1>1, <1>6, KeptSelf DEF CarriedIn, BufferedIn, WindowIn, LoopsIn, Effect
  <1>7. CASE \E p \in i.Pending :
                /\ p.pi = NextExpectedInstrumentSeq(i)
                /\ instruments' = [instruments EXCEPT ![k] =
                       ApplyOne([i EXCEPT !.Pending = @ \ {p}], p)]
    <2>1. PICK p \in i.Pending :
                /\ p.pi = NextExpectedInstrumentSeq(i)
                /\ instruments' = [instruments EXCEPT ![k] =
                       ApplyOne([i EXCEPT !.Pending = i.Pending \ {p}], p)]
      BY <1>7
    <2>2. PICK j : j = ApplyOne([i EXCEPT !.Pending = i.Pending \ {p}], p)
      OBVIOUS
    <2>3. Advanced(i, j, p) /\ j.Pending = i.Pending \ {p}
      <3>1. PICK P : P = i.Pending \ {p}
        OBVIOUS
      <3>2. j = ApplyOne([i EXCEPT !.Pending = P], p) /\ p.pi = i.LastAppliedInstrumentSeq + 1
        BY <1>5, <2>1, <2>2, <3>1
      <3>3. Advanced(i, j, p) /\ j.Pending = P
        BY <1>4, <3>2, ApplyOneAdvances
      <3> QED BY <3>1, <3>3
    <2>4. i.Pending \subseteq S /\ p \in S /\ p.inst = k
      BY <1>3, <1>4, <2>1 DEF CarriedIn, WindowIn, InstOK
    <2>5. \A l \in Inst : instruments'[l] = IF l = k THEN j ELSE instruments[l]
      BY <1>1, <2>1, <2>2
    <2>6. WindowIn(S)'
      BY <2>3, <2>4, <2>5 DEF CarriedIn, WindowIn
    <2>7. \A l \in Inst : Effect(l, S)
      BY <1>3, <2>3, <2>4, <2>5, KeptSelf DEF Effect
    <2> QED BY <1>1, <2>6, <2>7 DEF CarriedIn, BufferedIn, LoopsIn
  <1> QED BY <1>2, <1>3, <1>6, <1>7 DEF Drain

LEMMA ReplayEffect ==
    ASSUME IndInv, NEW S, CarriedIn(S), Replay
    PROVE  CarriedIn(S)' /\ \A k \in Inst : Effect(k, S)
  <1>1. /\ ~drain /\ replay # <<>> /\ replay \in Seq(Delta) /\ held = {}
        /\ instruments \in [Inst -> Instrument] /\ deltaBuf \in [Inst -> Seq(Delta)]
        /\ BufferedIn(S) /\ WindowIn(S) /\ LoopsIn(S)
    BY DEF Replay, IndInv, OtherTypes, InstrumentsOK, BufferOK, CarriedIn
  <1>2. PICK d : d = Head(replay)
    OBVIOUS
  <1>3. PICK rest : rest = Tail(replay)
    OBVIOUS
  <1>4. /\ d \in Delta /\ d \in S /\ rest \in Seq(Delta)
        /\ \A j \in 1 .. Len(rest) : rest[j] \in S
    BY <1>1, <1>2, <1>3, TailType DEF LoopsIn
  <1>5. CASE replay' = rest /\ UNCHANGED <<instruments, deltaBuf, held>>
    BY <1>1, <1>4, <1>5, KeptSelf DEF CarriedIn, BufferedIn, WindowIn, LoopsIn, Effect
  <1>6. CASE BufferDelta(instruments, d) /\ replay' = rest /\ held' = held
    <2>1. /\ BufferedIn(S)'
          /\ \A k \in Inst : /\ Kept(instruments[k], instruments'[k])
                             /\ instruments'[k].Pending \subseteq instruments[k].Pending
      BY <1>1, <1>4, <1>6, BufferEffect
    <2> QED BY <1>1, <1>4, <1>6, <2>1 DEF CarriedIn, WindowIn, LoopsIn, Effect
  <1>7. CASE Ready(d.inst) /\ ApplyDeltaToReady(d, rest)
    BY <1>1, <1>4, <1>7, ToReadyEffect
  <1> QED BY <1>2, <1>3, <1>5, <1>6, <1>7 DEF Replay, bookVars, bufferVars

LEMMA HandlerEffect ==
    ASSUME IndInv, NEW S, CarriedIn(S), HandlerStep
    PROVE  CarriedIn(S)' /\ \A k \in Inst : Effect(k, S)
  <1>1. CASE FinishHandler
    <2>1. UNCHANGED <<instruments, deltaBuf, held, replay>>
      BY <1>1 DEF FinishHandler, bookVars, bufferVars
    <2> QED BY <2>1, KeptSelf DEF CarriedIn, BufferedIn, WindowIn, LoopsIn, Effect
  <1> QED BY <1>1, RebufferEffect, DrainEffect, ReplayEffect DEF HandlerStep

(* applyDelta.                                                             *)
LEMMA DeltaEffect ==
    ASSUME IndInv, NEW S, CarriedIn(S), NEW d \in Delta, d \in S, ApplyDelta(d)
    PROVE  CarriedIn(S)' /\ \A k \in Inst : Effect(k, S)
  <1>1. ~drain /\ Len(<<>>) = 0
    BY IdleFacts, EmptySorted DEF ApplyDelta
  <1>2. CASE Ready(d.inst) /\ ApplyDeltaToReady(d, <<>>)
    BY <1>1, <1>2, ToReadyEffect
  <1>3. CASE BufferDelta(instruments, d) /\ UNCHANGED loopVars
    <2>1. /\ instruments \in [Inst -> Instrument] /\ deltaBuf \in [Inst -> Seq(Delta)]
          /\ BufferedIn(S) /\ WindowIn(S) /\ LoopsIn(S) /\ held' = held /\ replay' = replay
      BY <1>3 DEF IndInv, InstrumentsOK, BufferOK, CarriedIn, loopVars
    <2>2. /\ BufferedIn(S)'
          /\ \A k \in Inst : /\ Kept(instruments[k], instruments'[k])
                             /\ instruments'[k].Pending \subseteq instruments[k].Pending
      BY <1>3, <2>1, BufferEffect
    <2> QED BY <2>1, <2>2 DEF CarriedIn, WindowIn, LoopsIn, Effect
  <1> QED BY <1>2, <1>3 DEF ApplyDelta

-----------------------------------------------------------------------------
(* The invariant.                                                          *)

(* Every delta the subscriber holds on to was sent.                        *)
Carried == {DeltaOf(r) : r \in Deltas}

InboxRecs == {inbox[m] : m \in DOMAIN inbox}

(* What is being dispatched was sent, and no level of it twice.            *)
InboxOK ==
    /\ inbox \in Seq(Records(mktdata) \cup Records(snapshots))
    /\ \A m, n \in DOMAIN inbox :
          inbox[m].type = "snapshot_level" /\ inbox[m] = inbox[n] => m = n
    /\ \A r \in InboxRecs : r.type = "snapshot_level" =>
          \E d \in delivered : r \in Content(d)

NetInv ==
    /\ InboxOK
    /\ \A g \in group : g.inst \in Inst
    /\ delivered \subseteq snapshots
    /\ bookGen \in [Inst -> Nat] /\ seenGen \in [Inst -> Nat] /\ toldGen \in [Inst -> Nat]
    /\ CarriedIn(Carried)

(* Shadow s was opened by the begin of the snapshot of k that holds        *)
(* generation g after delta n.                                             *)
ShadowOf(k, s, n, g) ==
    /\ s.last = n /\ s.total = Cardinality(Levels(truth[k][g][n]))
    /\ s.anchor \in 0 .. mktSeq
    /\ CapturedAs(s.id, k, s.anchor, n, g)
    /\ \E d \in snapshots :
          d.id = s.id /\ BeginRec(k, s.id, s.anchor, n, truth[k][g][n]) \in Content(d)

Opened(k, s) == \E n \in 0 .. last[k], g \in 0 .. gen[k] : ShadowOf(k, s, n, g)

OneShadow(shadows) == \A s, t \in shadows : s = t

ShadowsOK(k) ==
    /\ OneShadow(instruments[k].OpenSnapshot)
    /\ \A s \in instruments[k].OpenSnapshot : Opened(k, s)

(* The reset of k to generation g left with this anchor.                   *)
ResetAt(k, g, anchor) ==
    \E e \in mktdata : \E r \in Content(e) :
        /\ r.type = "instrument_reset" /\ r.inst = k
        /\ r.gen = g /\ r.anchor = anchor

(* A book of generation g at delta n may have started from a snapshot that *)
(* reaches the anchor.                                                     *)
StartsAt(k, g, n, anchor) ==
    \E d \in snapshots : \E s \in Content(d) :
        /\ s.type = "snapshot_begin" /\ s.inst = k
        /\ d.gen = g /\ s.last <= n /\ s.anchor >= anchor

(* What handling a reset leaves for good: a shadow reaches its anchor, and *)
(* the anchor is required until the book started from a snapshot that      *)
(* reaches it.                                                             *)
Required(k, i, bg, anchor) ==
    /\ \A s \in i.OpenSnapshot : s.anchor >= anchor
    /\ i.RequiredAnchorSeq >= anchor \/ StartsAt(k, bg, i.LastAppliedInstrumentSeq, anchor)
    /\ i.Status = "ready" => StartsAt(k, bg, i.LastAppliedInstrumentSeq, anchor)
    /\ i.Status = "awaiting" => i.RequiredAnchorSeq >= anchor

DiscardOK(k) ==
    \/ seenGen[k] = 0
    \/ \E anchor \in Nat :
          ResetAt(k, seenGen[k], anchor) /\ Required(k, instruments[k], bookGen[k], anchor)

(* The book of a ready instrument is the publisher's.                      *)
Truthful(k, i, g) ==
    /\ g \in 0 .. gen[k] /\ i.LastAppliedInstrumentSeq \in 0 .. last[k]
    /\ Follows(k, g, i.LastAppliedInstrumentSeq)
    /\ i.Book = truth[k][g][i.LastAppliedInstrumentSeq]

BookOK(k) == instruments[k].Status = "ready" => Truthful(k, instruments[k], bookGen[k])

(* A level in a shadow was dispatched, and will not be again.              *)
Dispatched(r) == (\E d \in delivered : r \in Content(d)) /\ r \notin InboxRecs

ContentOK(k) ==
    \A s \in instruments[k].OpenSnapshot :
        /\ s.received = Cardinality(Levels(s.book))
        /\ \A l \in Levels(s.book) : Dispatched(LevelRec(s.id, s.book, l))

FeedInv ==
    /\ IndInv /\ PubInv /\ TruthInv /\ NetInv
    /\ \A k \in Inst : ShadowsOK(k) /\ DiscardOK(k)

(* What holds besides when no snapshot datagram is repeated.               *)
WholeInv == \A k \in Inst : BookOK(k) /\ ContentOK(k)

-----------------------------------------------------------------------------
(* The publisher's steps.                                                  *)

LEMMA NewSnapshotId ==
    ASSUME [PubNext]_pubVars
    PROVE  \A d \in snapshots' : d \in snapshots \/ d.id = nextSnapshotId
  <1>1. CASE UNCHANGED snapshots
    BY <1>1
  <1>2. ASSUME NEW k, NEW anchor, CaptureAndSend(k, anchor)
        PROVE  \A d \in snapshots' : d \in snapshots \/ d.id = nextSnapshotId
    BY <1>2 DEF CaptureAndSend, Packed
  <1>3. ASSUME PubNext
        PROVE  UNCHANGED snapshots \/ \E k, anchor : CaptureAndSend(k, anchor)
    BY <1>3 DEF PubNext, Emit, FlushLive, SendHeartbeat, Desynchronised, PeriodicSnapshot,
                ServeOwed
  <1> QED BY <1>1, <1>2, <1>3 DEF pubVars

(* What the publisher may not take back.                                   *)
LEMMA ShadowStays ==
    ASSUME PubInv, PubInv', TruthInv, PubGrows, [PubNext]_pubVars,
           NEW k \in Inst, NEW s, NEW n \in 0 .. last[k], NEW g \in 0 .. gen[k],
           ShadowOf(k, s, n, g)
    PROVE  ShadowOf(k, s, n, g)' /\ n \in 0 .. last'[k] /\ g \in 0 .. gen'[k]
  <1>1. PICK d \in snapshots :
           d.id = s.id /\ BeginRec(k, s.id, s.anchor, n, truth[k][g][n]) \in Content(d)
    BY DEF ShadowOf
  <1>2. d.id \in 0 .. nextSnapshotId - 1 /\ nextSnapshotId \in Nat
    BY DEF TruthInv, SentTyped, PubInv, PubTypeOK
  <1>3. \A e \in snapshots' : e.id = s.id => e \in snapshots
    BY <1>1, <1>2, NewSnapshotId
  <1>4. PICK id, anchor : id = s.id /\ anchor = s.anchor
    OBVIOUS
  <1>5. CapturedAs(id, k, anchor, n, g) /\ anchor \in 0 .. mktSeq
    BY <1>4 DEF ShadowOf
  <1>6. /\ CapturedAs(id, k, anchor, n, g)'
        /\ anchor \in 0 .. mktSeq' /\ n \in 0 .. last'[k] /\ g \in 0 .. gen'[k]
    BY <1>3, <1>4, <1>5, CapturedStays
  <1>7. truth'[k][g][n] = truth[k][g][n] /\ d \in snapshots'
    BY DEF PubGrows
  <1>8. /\ s.last = n /\ s.total = Cardinality(Levels(truth'[k][g][n]))
        /\ d.id = s.id /\ BeginRec(k, s.id, s.anchor, n, truth'[k][g][n]) \in Content(d)
    BY <1>1, <1>7 DEF ShadowOf
  <1>9. ShadowOf(k, s, n, g)'
    BY <1>4, <1>6, <1>7, <1>8 DEF ShadowOf
  <1> QED BY <1>6, <1>9

LEMMA ResetStays ==
    ASSUME PubGrows, NEW k, NEW g, NEW anchor, ResetAt(k, g, anchor)
    PROVE  ResetAt(k, g, anchor)'
  BY DEF PubGrows, ResetAt, Content

LEMMA StartStays ==
    ASSUME PubGrows, NEW k, NEW g, NEW n, NEW anchor, StartsAt(k, g, n, anchor)
    PROVE  StartsAt(k, g, n, anchor)'
  BY DEF PubGrows, StartsAt, Content

LEMMA TruthfulStays ==
    ASSUME PubInv, PubInv', PubGrows, NEW k \in Inst, NEW i, NEW g, Truthful(k, i, g)
    PROVE  Truthful(k, i, g)'
  <1>1. PICK n : n = i.LastAppliedInstrumentSeq
    OBVIOUS
  <1>2. g \in 0 .. gen[k] /\ n \in 0 .. last[k] /\ Follows(k, g, n) /\ i.Book = truth[k][g][n]
    BY <1>1 DEF Truthful
  <1>3. Follows(k, g, n)' /\ truth'[k][g][n] = truth[k][g][n]
    BY <1>2, FollowsStays DEF PubGrows
  <1>4. /\ last[k] \in Nat /\ last'[k] \in Nat /\ gen[k] \in Nat /\ gen'[k] \in Nat
        /\ last[k] <= last'[k] /\ gen[k] <= gen'[k]
    BY PublisherAssumption DEF PubInv, PubTypeOK, Generations, PubGrows
  <1>5. g \in 0 .. gen'[k] /\ n \in 0 .. last'[k]
    BY <1>2, <1>4
  <1> QED BY <1>1, <1>2, <1>3, <1>5 DEF Truthful

LEMMA RecordsGrow ==
    ASSUME PubGrows
    PROVE  /\ Records(mktdata) \subseteq Records(mktdata')
           /\ Records(snapshots) \subseteq Records(snapshots')
           /\ Deltas \subseteq Deltas' /\ Carried \subseteq Carried'
  <1>1. /\ Records(mktdata) \subseteq Records(mktdata')
        /\ Records(snapshots) \subseteq Records(snapshots')
    BY DEF PubGrows, Records
  <1>2. Deltas \subseteq Deltas'
    BY <1>1 DEF Deltas, Records
  <1> QED BY <1>1, <1>2 DEF Carried

LEMMA CarriedGrows ==
    ASSUME NEW S, NEW T, S \subseteq T, CarriedIn(S)
    PROVE  CarriedIn(T)
  BY DEF CarriedIn, BufferedIn, WindowIn, LoopsIn

LEMMA SeqGrows ==
    ASSUME NEW S, NEW T, S \subseteq T, NEW s \in Seq(S)
    PROVE  s \in Seq(T)
  OBVIOUS

(* A step that neither dispatches nor touches the shard, and takes nothing *)
(* back, carries what is held.                                             *)
LEMMA CarriedLater ==
    ASSUME CarriedIn(Carried), Carried \subseteq Carried', UNCHANGED shardVars
    PROVE  CarriedIn(Carried)'
  <1>1. CarriedIn(Carried')
    BY CarriedGrows
  <1>2. UNCHANGED <<instruments, deltaBuf, held, replay>>
    BY DEF shardVars
  <1> QED BY <1>1, <1>2 DEF CarriedIn, BufferedIn, WindowIn, LoopsIn

LEMMA PublishFeed ==
    ASSUME FeedInv, Publish
    PROVE  FeedInv' /\ (WholeInv => WholeInv')
  <1>1. [PubNext]_pubVars /\ UNCHANGED shardVars /\ UNCHANGED netVars
    BY DEF Publish
  <1>2. PubInv' /\ TruthInv' /\ PubGrows
    BY <1>1, PubNextTruth DEF FeedInv
  <1>3. IndInv'
    BY <1>1, StutterOK DEF FeedInv
  <1>4. NetInv'
    <2>1. CarriedIn(Carried)'
      BY <1>1, <1>2, RecordsGrow, CarriedLater DEF FeedInv, NetInv
    <2>2. InboxOK'
      <3>1. inbox' = inbox /\ delivered' = delivered
        BY <1>1 DEF netVars
      <3>2. Records(mktdata) \cup Records(snapshots)
              \subseteq Records(mktdata') \cup Records(snapshots')
        BY <1>2, RecordsGrow
      <3>3. inbox \in Seq(Records(mktdata) \cup Records(snapshots))
        BY DEF FeedInv, NetInv, InboxOK
      <3>4. inbox \in Seq(Records(mktdata') \cup Records(snapshots'))
        BY <3>2, <3>3, SeqGrows
      <3> QED BY <3>1, <3>4 DEF FeedInv, NetInv, InboxOK, InboxRecs, Records, Content
    <2>3. UNCHANGED netVars /\ delivered \subseteq snapshots'
      BY <1>1, <1>2 DEF FeedInv, NetInv, PubGrows
    <2> QED BY <2>1, <2>2, <2>3 DEF FeedInv, NetInv, netVars
  <1>5. ASSUME NEW k \in Inst
        PROVE  ShadowsOK(k)' /\ DiscardOK(k)'
    <2>1. ShadowsOK(k) /\ DiscardOK(k)
      BY DEF FeedInv
    <2>2. UNCHANGED <<instruments, bookGen, seenGen>>
      BY <1>1 DEF shardVars, netVars
    <2>3. ShadowsOK(k)'
      BY <1>1, <1>2, <2>1, <2>2, ShadowStays DEF FeedInv, ShadowsOK, OneShadow, Opened
    <2>4. PICK i, bg, sg : i = instruments[k] /\ bg = bookGen[k] /\ sg = seenGen[k]
      OBVIOUS
    <2>5. DiscardOK(k)'
      <3>1. CASE sg = 0
        BY <2>2, <2>4, <3>1 DEF DiscardOK
      <3>2. CASE sg # 0
        <4>1. PICK anchor \in Nat : ResetAt(k, sg, anchor) /\ Required(k, i, bg, anchor)
          BY <2>1, <2>4, <3>2 DEF DiscardOK
        <4>2. PICK n : n = i.LastAppliedInstrumentSeq
          OBVIOUS
        <4>3. ResetAt(k, sg, anchor)'
          BY <1>2, <4>1, ResetStays
        <4>4. StartsAt(k, bg, n, anchor) => StartsAt(k, bg, n, anchor)'
          BY <1>2, StartStays
        <4>5. Required(k, i, bg, anchor)'
          BY <4>1, <4>2, <4>4 DEF Required
        <4> QED BY <2>2, <2>4, <4>3, <4>5 DEF DiscardOK
      <3> QED BY <3>1, <3>2
    <2> QED BY <2>3, <2>5
  <1>6. ASSUME WholeInv, NEW k \in Inst PROVE BookOK(k)' /\ ContentOK(k)'
    <2>1. UNCHANGED <<instruments, bookGen, inbox, delivered>>
      BY <1>1 DEF shardVars, netVars
    <2>2. ContentOK(k)'
      BY <1>6, <2>1 DEF WholeInv, ContentOK, Dispatched, Content, InboxRecs
    <2>3. PICK i, bg : i = instruments[k] /\ bg = bookGen[k]
      OBVIOUS
    <2>4. i.Status = "ready" => Truthful(k, i, bg)'
      BY <1>2, <1>6, <2>3, TruthfulStays DEF FeedInv, WholeInv, BookOK
    <2> QED BY <2>1, <2>2, <2>3, <2>4 DEF BookOK
  <1> QED BY <1>2, <1>3, <1>4, <1>5, <1>6 DEF FeedInv, WholeInv

-----------------------------------------------------------------------------
(* The subscriber's steps: the publisher stands still.                     *)

LEMMA Frozen ==
    ASSUME UNCHANGED pubVars, NEW k, NEW s, NEW i, NEW n, NEW g, NEW anchor
    PROVE  /\ ShadowOf(k, s, n, g) => ShadowOf(k, s, n, g)'
           /\ ResetAt(k, g, anchor) => ResetAt(k, g, anchor)'
           /\ StartsAt(k, g, n, anchor) => StartsAt(k, g, n, anchor)'
           /\ Truthful(k, i, g) => Truthful(k, i, g)'
  <1>1. UNCHANGED <<mktSeq, open, last, mktdata, snapshots, gen, truth>>
    BY DEF pubVars
  <1>2. AllDeltas' = AllDeltas
    BY <1>1 DEF AllDeltas, Deltas, OpenDeltas, Records
  <1>3. ASSUME NEW m PROVE Follows(k, g, m) => Follows(k, g, m)'
    BY <1>1, <1>2 DEF Follows
  <1>4. ASSUME NEW id, NEW a, CapturedAs(id, k, a, n, g) PROVE CapturedAs(id, k, a, n, g)'
    BY <1>1, <1>3, <1>4 DEF CapturedAs, Content
  <1>5. ShadowOf(k, s, n, g) => ShadowOf(k, s, n, g)'
    <2>1. PICK id, a : id = s.id /\ a = s.anchor
      OBVIOUS
    <2> QED BY <1>1, <1>4, <2>1 DEF ShadowOf, Content
  <1>6. ResetAt(k, g, anchor) => ResetAt(k, g, anchor)'
    BY <1>1 DEF ResetAt, Content
  <1>7. StartsAt(k, g, n, anchor) => StartsAt(k, g, n, anchor)'
    BY <1>1 DEF StartsAt, Content
  <1>8. Truthful(k, i, g) => Truthful(k, i, g)'
    <2>1. PICK m : m = i.LastAppliedInstrumentSeq
      OBVIOUS
    <2> QED BY <1>1, <1>3, <2>1 DEF Truthful
  <1> QED BY <1>5, <1>6, <1>7, <1>8

LEMMA FrozenCarried ==
    ASSUME UNCHANGED pubVars, NEW S, S = Carried, CarriedIn(S)'
    PROVE  CarriedIn(Carried)'
  <1>1. Carried' = Carried
    BY DEF pubVars, Carried, Deltas, Records
  <1> QED BY <1>1 DEF CarriedIn, BufferedIn, WindowIn, LoopsIn

LEMMA FrozenSteps ==
    ASSUME FeedInv, UNCHANGED pubVars, IndInv', NetInv',
           \A k \in Inst : ShadowsOK(k)' /\ DiscardOK(k)'
    PROVE  FeedInv'
  BY PubStutterInv, PubStutterTruth DEF FeedInv

(* To show of the record an instrument is left with.                       *)
LEMMA ShadowsIntro ==
    ASSUME UNCHANGED pubVars, NEW k,
           OneShadow(instruments'[k].OpenSnapshot),
           \A s \in instruments'[k].OpenSnapshot : Opened(k, s)
    PROVE  ShadowsOK(k)'
  BY Frozen DEF ShadowsOK, OneShadow, Opened, pubVars

LEMMA DiscardIntro ==
    ASSUME UNCHANGED pubVars, NEW k, NEW anchor \in Nat,
           NEW j, j = instruments'[k], NEW bg, bg = bookGen'[k], NEW sg, sg = seenGen'[k],
           ResetAt(k, sg, anchor), Required(k, j, bg, anchor)
    PROVE  DiscardOK(k)'
  <1>1. PICK n : n = j.LastAppliedInstrumentSeq
    OBVIOUS
  <1>2. ResetAt(k, sg, anchor)' /\ (StartsAt(k, bg, n, anchor) => StartsAt(k, bg, n, anchor)')
    BY Frozen
  <1>3. Required(k, j, bg, anchor)'
    BY <1>1, <1>2 DEF Required
  <1> QED BY <1>2, <1>3 DEF DiscardOK

LEMMA BookIntro ==
    ASSUME UNCHANGED pubVars, NEW k, NEW j, j = instruments'[k], NEW bg, bg = bookGen'[k],
           j.Status = "ready" => Truthful(k, j, bg)
    PROVE  BookOK(k)'
  <1>1. j.Status = "ready" => Truthful(k, j, bg)'
    BY Frozen
  <1> QED BY <1>1 DEF BookOK

LEMMA ContentKept ==
    ASSUME NEW k, ContentOK(k),
           \A s \in instruments'[k].OpenSnapshot : s \in instruments[k].OpenSnapshot,
           \A r : (r.type = "snapshot_level" /\ Dispatched(r)) => Dispatched(r)'
    PROVE  ContentOK(k)'
  <1> SUFFICES ASSUME NEW s \in instruments[k].OpenSnapshot, NEW l \in Levels(s.book)
               PROVE  Dispatched(LevelRec(s.id, s.book, l))' /\ s.received = Cardinality(Levels(s.book))
    BY DEF ContentOK
  <1>1. PICK r : r = LevelRec(s.id, s.book, l)
    OBVIOUS
  <1>2. r.type = "snapshot_level" /\ Dispatched(r)
    BY <1>1 DEF ContentOK, LevelRec
  <1> QED BY <1>1, <1>2 DEF ContentOK, Dispatched

(* A later number is also past where the book started.                     *)
LEMMA StartsLater ==
    ASSUME PubInv, NEW k, NEW g, NEW n \in Nat, NEW m \in Nat, n <= m, NEW anchor,
           StartsAt(k, g, n, anchor)
    PROVE  StartsAt(k, g, m, anchor)
  <1>1. PICK d \in snapshots : \E s \in Content(d) :
           s.type = "snapshot_begin" /\ s.inst = k /\ d.gen = g /\ s.last <= n
              /\ s.anchor >= anchor
    BY DEF StartsAt
  <1>2. PICK s \in Content(d) :
           s.type = "snapshot_begin" /\ s.inst = k /\ d.gen = g /\ s.last <= n
              /\ s.anchor >= anchor
    BY <1>1
  <1>3. s.last \in Nat
    BY <1>2 DEF PubInv, SnapshotsInv
  <1>4. s.last <= m
    BY <1>2, <1>3
  <1> QED BY <1>1, <1>2, <1>4 DEF StartsAt

(* A handler that keeps or advances the record of k.                       *)
LEMMA EffectFeed ==
    ASSUME FeedInv, UNCHANGED pubVars, NEW k \in Inst,
           bookGen'[k] = bookGen[k], seenGen'[k] = seenGen[k], NEW S, S = Carried, Effect(k, S)
    PROVE  /\ ShadowsOK(k)' /\ DiscardOK(k)' /\ (BookOK(k) => BookOK(k)')
           /\ instruments'[k].OpenSnapshot = instruments[k].OpenSnapshot
  <1>1. PICK i, j : i = instruments[k] /\ j = instruments'[k]
    OBVIOUS
  <1>2. PICK bg, sg : bg = bookGen[k] /\ sg = seenGen[k]
    OBVIOUS
  <1>3. i \in Instrument /\ i.LastAppliedInstrumentSeq \in Nat
    BY <1>1, InstrumentType DEF FeedInv, IndInv, InstrumentsOK
  <1>4. Kept(i, j) \/ \E d \in S : d.inst = k /\ Advanced(i, j, d)
    BY <1>1 DEF Effect
  <1>5. j.OpenSnapshot = i.OpenSnapshot /\ j.RequiredAnchorSeq = i.RequiredAnchorSeq
    BY <1>4 DEF Kept, Advanced
  <1>6. /\ j.LastAppliedInstrumentSeq \in Nat
        /\ i.LastAppliedInstrumentSeq <= j.LastAppliedInstrumentSeq
        /\ j.Status = "ready" => i.Status = "ready"
        /\ j.Status = "awaiting" => i.Status = "awaiting"
    BY <1>3, <1>4 DEF Kept, Advanced
  <1>7. ShadowsOK(k)'
    <2>1. OneShadow(i.OpenSnapshot) /\ \A s \in i.OpenSnapshot : Opened(k, s)
      BY <1>1 DEF FeedInv, ShadowsOK
    <2> QED BY <1>1, <1>5, <2>1, ShadowsIntro DEF pubVars
  <1>8. DiscardOK(k)'
    <2>1. CASE sg = 0
      BY <1>2, <2>1 DEF DiscardOK
    <2>2. CASE sg # 0
      <3>1. PICK anchor \in Nat : ResetAt(k, sg, anchor) /\ Required(k, i, bg, anchor)
        BY <1>1, <1>2, <2>2 DEF FeedInv, DiscardOK
      <3>2. PICK n, m : n = i.LastAppliedInstrumentSeq /\ m = j.LastAppliedInstrumentSeq
        OBVIOUS
      <3>3. StartsAt(k, bg, n, anchor) => StartsAt(k, bg, m, anchor)
        BY <1>3, <1>6, <3>2, StartsLater DEF FeedInv
      <3>4. Required(k, j, bg, anchor)
        BY <1>5, <1>6, <3>1, <3>2, <3>3 DEF Required
      <3> QED BY <1>1, <1>2, <3>1, <3>4, DiscardIntro
    <2> QED BY <2>1, <2>2
  <1>9. ASSUME BookOK(k) PROVE BookOK(k)'
    <2>1. i.Status = "ready" => Truthful(k, i, bg)
      BY <1>1, <1>2, <1>9 DEF BookOK
    <2>2. ASSUME j.Status = "ready" PROVE Truthful(k, j, bg)
      <3>1. Truthful(k, i, bg)
        BY <1>6, <2>1, <2>2
      <3>2. CASE Kept(i, j)
        BY <3>1, <3>2 DEF Kept, Truthful
      <3>3. ASSUME NEW d \in S, d.inst = k, Advanced(i, j, d) PROVE Truthful(k, j, bg)
        <4>1. PICK a \in Deltas : d = DeltaOf(a)
          BY <3>3 DEF Carried
        <4>2. PICK n : n = i.LastAppliedInstrumentSeq
          OBVIOUS
        <4>3. /\ a \in AllDeltas /\ a.inst = k /\ a.pi = n + 1 /\ a.op = d.op
              /\ j.LastAppliedInstrumentSeq = n + 1
              /\ j.Book = ApplyOp(i.Book, a.op)
          BY <3>3, <4>1, <4>2 DEF DeltaOf, AllDeltas, Advanced
        <4>4. a.pi <= last[k] /\ last[k] \in Nat
          BY <4>3 DEF FeedInv, PubInv, DeltasInv, PubTypeOK
        <4>5. /\ bg \in 0 .. gen[k] /\ n \in 0 .. last[k]
              /\ Follows(k, bg, n) /\ i.Book = truth[k][bg][n]
          BY <3>1, <4>2 DEF Truthful
        <4>6. n + 1 \in 0 .. last[k] /\ n + 1 > n /\ n + 1 - 1 = n
          BY <4>3, <4>4, <4>5
        <4>7. truth[k][bg][n + 1] = ApplyOp(truth[k][bg][n], a.op)
          BY <4>3, <4>5, <4>6 DEF Follows
        <4>8. Follows(k, bg, n + 1)
          <5> SUFFICES ASSUME NEW b \in AllDeltas, b.inst = k, b.pi > n + 1
                       PROVE  truth[k][bg][b.pi] = ApplyOp(truth[k][bg][b.pi - 1], b.op)
            BY DEF Follows
          <5>1. b.pi \in Nat
            BY DEF FeedInv, PubInv, DeltasInv, DeltaRec
          <5>2. b.pi > n
            BY <4>5, <5>1
          <5> QED BY <4>5, <5>2 DEF Follows
        <4> QED BY <4>3, <4>5, <4>6, <4>7, <4>8 DEF Truthful
      <3> QED BY <1>4, <3>2, <3>3
    <2> QED BY <1>1, <1>2, <2>2, BookIntro
  <1> QED BY <1>1, <1>5, <1>7, <1>8, <1>9

(* A step that replaces the shadow of k, and nothing else of it.           *)
LEMMA ShadowStepFeed ==
    ASSUME FeedInv, UNCHANGED pubVars, NEW k \in Inst,
           bookGen'[k] = bookGen[k], seenGen'[k] = seenGen[k], NEW sh,
           instruments'[k] = [instruments[k] EXCEPT !.OpenSnapshot = sh],
           OneShadow(sh), \A s \in sh : Opened(k, s),
           \A anchor \in Nat :
              (ResetAt(k, seenGen[k], anchor) /\ Required(k, instruments[k], bookGen[k], anchor))
                 => \A s \in sh : s.anchor >= anchor
    PROVE  ShadowsOK(k)' /\ DiscardOK(k)' /\ (BookOK(k) => BookOK(k)')
  <1>1. PICK i, j : i = instruments[k] /\ j = instruments'[k]
    OBVIOUS
  <1>2. PICK bg, sg : bg = bookGen[k] /\ sg = seenGen[k]
    OBVIOUS
  <1>3. i \in Instrument
    BY <1>1 DEF FeedInv, IndInv, InstrumentsOK
  <1>4. /\ j.OpenSnapshot = sh /\ j.Status = i.Status /\ j.Book = i.Book
        /\ j.LastAppliedInstrumentSeq = i.LastAppliedInstrumentSeq
        /\ j.RequiredAnchorSeq = i.RequiredAnchorSeq
    BY <1>1, <1>3 DEF Instrument
  <1>5. ShadowsOK(k)'
    BY <1>1, <1>4, ShadowsIntro DEF pubVars
  <1>6. DiscardOK(k)'
    <2>1. CASE sg = 0
      BY <1>2, <2>1 DEF DiscardOK
    <2>2. CASE sg # 0
      <3>1. PICK anchor \in Nat : ResetAt(k, sg, anchor) /\ Required(k, i, bg, anchor)
        BY <1>1, <1>2, <2>2 DEF FeedInv, DiscardOK
      <3>2. \A s \in sh : s.anchor >= anchor
        BY <1>1, <1>2, <3>1
      <3>3. Required(k, j, bg, anchor)
        BY <1>4, <3>1, <3>2 DEF Required
      <3> QED BY <1>1, <1>2, <3>1, <3>3, DiscardIntro
    <2> QED BY <2>1, <2>2
  <1>7. ASSUME BookOK(k) PROVE BookOK(k)'
    <2>1. i.Status = "ready" => Truthful(k, i, bg)
      BY <1>1, <1>2, <1>7 DEF BookOK
    <2>2. j.Status = "ready" => Truthful(k, j, bg)
      BY <1>4, <2>1 DEF Truthful
    <2> QED BY <1>1, <1>2, <2>2, BookIntro
  <1> QED BY <1>5, <1>6, <1>7

(* A handler that is in one of its loops.                                  *)
LEMMA HandlerFeed ==
    ASSUME FeedInv, HandlerStep, UNCHANGED <<pubVars, netVars>>
    PROVE  FeedInv' /\ (WholeInv => WholeInv')
  <1>1. UNCHANGED pubVars /\ UNCHANGED <<inbox, group, delivered, bookGen, seenGen, toldGen>>
    BY DEF netVars
  <1>2. PICK S : S = Carried
    OBVIOUS
  <1>3. CarriedIn(S)' /\ \A k \in Inst : Effect(k, S)
    BY <1>2, HandlerEffect DEF FeedInv, NetInv
  <1>4. IndInv'
    BY IndInvStep DEF FeedInv, ShardNext
  <1>5. NetInv'
    <2>1. CarriedIn(Carried)'
      BY <1>1, <1>2, <1>3, FrozenCarried
    <2>2. InboxOK'
      BY <1>1 DEF FeedInv, NetInv, InboxOK, InboxRecs, Records, Content, pubVars
    <2> QED BY <1>1, <2>1, <2>2 DEF FeedInv, NetInv, pubVars
  <1>6. \A k \in Inst : /\ ShadowsOK(k)' /\ DiscardOK(k)' /\ (BookOK(k) => BookOK(k)')
                        /\ instruments'[k].OpenSnapshot = instruments[k].OpenSnapshot
    BY <1>1, <1>2, <1>3, EffectFeed
  <1>7. \A r : Dispatched(r) => Dispatched(r)'
    BY <1>1 DEF Dispatched, InboxRecs, Content
  <1>8. \A k \in Inst : ContentOK(k) => ContentOK(k)'
    BY <1>6, <1>7, ContentKept
  <1>9. FeedInv'
    BY <1>1, <1>4, <1>5, <1>6, FrozenSteps
  <1> QED BY <1>6, <1>8, <1>9 DEF WholeInv

(* What is not of the mktdata channel's two kinds is of the other channel. *)
LEMMA MktdataTypes ==
    ASSUME PubInv, NEW r \in Records(mktdata)
    PROVE  r.type \in {"delta", "instrument_reset"}
  BY RecordsContent DEF PubInv, DatagramsInv, DeltaRec, ResetRec

(* The network hands over a datagram.                                      *)
LEMMA DeliverFeed ==
    ASSUME FeedInv, NEW d, Deliver(d), NetInv'
    PROVE  /\ FeedInv'
           /\ (/\ WholeInv
               /\ \A r : (r.type = "snapshot_level" /\ Dispatched(r)) => Dispatched(r)')
                  => WholeInv'
  <1>1. UNCHANGED pubVars /\ UNCHANGED shardVars /\ UNCHANGED <<instruments, bookGen, seenGen>>
    BY DEF Deliver, shardVars
  <1>2. IndInv'
    BY <1>1, StutterOK DEF FeedInv
  <1>3. PICK S : S = Carried
    OBVIOUS
  <1>4. \A k \in Inst : Effect(k, S)
    BY <1>1, KeptSelf DEF Effect
  <1>5. \A k \in Inst : /\ ShadowsOK(k)' /\ DiscardOK(k)' /\ (BookOK(k) => BookOK(k)')
                        /\ instruments'[k].OpenSnapshot = instruments[k].OpenSnapshot
    BY <1>1, <1>3, <1>4, EffectFeed
  <1>6. FeedInv'
    BY <1>1, <1>2, <1>5, FrozenSteps
  <1>7. ASSUME \A r : (r.type = "snapshot_level" /\ Dispatched(r)) => Dispatched(r)'
        PROVE  \A k \in Inst : ContentOK(k) => ContentOK(k)'
    BY <1>5, <1>7, ContentKept
  <1> QED BY <1>5, <1>6, <1>7 DEF WholeInv

(* The parts of NetInv a delivery leaves alone.                            *)
LEMMA DeliverCarried ==
    ASSUME FeedInv, NEW d, Deliver(d)
    PROVE  /\ CarriedIn(Carried)' /\ \A g \in group' : g.inst \in Inst
           /\ bookGen' \in [Inst -> Nat] /\ seenGen' \in [Inst -> Nat]
           /\ toldGen' \in [Inst -> Nat]
  <1>1. UNCHANGED pubVars /\ UNCHANGED shardVars /\ UNCHANGED <<group, bookGen, seenGen, toldGen>>
    BY DEF Deliver
  <1>2. Carried' = Carried
    BY <1>1 DEF pubVars, Carried, Deltas, Records
  <1>3. CarriedIn(Carried)'
    BY <1>1, <1>2, CarriedLater DEF FeedInv, NetInv
  <1> QED BY <1>1, <1>3 DEF FeedInv, NetInv

LEMMA DeliverMktdataFeed ==
    ASSUME FeedInv, DeliverMktdata
    PROVE  FeedInv' /\ (WholeInv => WholeInv')
  <1>1. PICK d \in mktdata : Deliver(d) /\ UNCHANGED delivered
    BY DEF DeliverMktdata
  <1>2. inbox' = d.recs /\ UNCHANGED pubVars /\ UNCHANGED <<mktdata, snapshots>>
    BY <1>1 DEF Deliver, pubVars
  <1>3. d.recs \in Seq(Content(d)) /\ Content(d) \subseteq Records(mktdata)
    BY RecordsContent DEF FeedInv, TruthInv, SentTyped
  <1>4. InboxRecs' = Content(d)
    BY <1>2 DEF InboxRecs, Content
  <1>5. \A r \in Content(d) : r.type # "snapshot_level"
    BY <1>3, MktdataTypes DEF FeedInv
  <1>6. InboxOK'
    <2>1. inbox' \in Seq(Records(mktdata) \cup Records(snapshots))
      BY <1>2, <1>3, SeqGrows
    <2>2. inbox' \in Seq(Records(mktdata') \cup Records(snapshots'))
      BY <1>2, <2>1
    <2>3. \A m \in DOMAIN inbox' : inbox'[m].type # "snapshot_level"
      BY <1>2, <1>5 DEF Content
    <2> QED BY <1>4, <1>5, <2>2, <2>3 DEF InboxOK, Records
  <1>7. NetInv'
    BY <1>1, <1>2, <1>6, DeliverCarried DEF FeedInv, NetInv
  <1>8. \A r : (r.type = "snapshot_level" /\ Dispatched(r)) => Dispatched(r)'
    BY <1>1, <1>4, <1>5 DEF Dispatched, Content
  <1> QED BY <1>1, <1>7, <1>8, DeliverFeed

LEMMA DeliverSnapshotFeed ==
    ASSUME FeedInv, DeliverSnapshot
    PROVE  FeedInv' /\ (WholeInv /\ ~DuplicateSnapshots => WholeInv')
  <1>1. PICK d \in snapshots : /\ DuplicateSnapshots \/ d \notin delivered
                               /\ Deliver(d) /\ delivered' = delivered \cup {d}
    BY DEF DeliverSnapshot
  <1>2. inbox' = d.recs /\ UNCHANGED pubVars /\ UNCHANGED <<mktdata, snapshots>>
    BY <1>1 DEF Deliver, pubVars
  <1>3. d.recs \in Seq(Content(d)) /\ Content(d) \subseteq Records(snapshots)
    BY RecordsContent DEF FeedInv, TruthInv, SentTyped
  <1>4. InboxRecs' = Content(d)
    BY <1>2 DEF InboxRecs, Content
  <1>5. InboxOK'
    <2>1. inbox' \in Seq(Records(mktdata) \cup Records(snapshots))
      BY <1>2, <1>3, SeqGrows
    <2>2. inbox' \in Seq(Records(mktdata') \cup Records(snapshots'))
      BY <1>2, <2>1
    <2>3. \A m, n \in DOMAIN inbox' :
             inbox'[m].type = "snapshot_level" /\ inbox'[m] = inbox'[n] => m = n
      BY <1>2 DEF FeedInv, TruthInv, LevelOnce
    <2>4. \A r \in InboxRecs' : \E e \in delivered' : r \in Content(e)
      BY <1>1, <1>4
    <2> QED BY <2>2, <2>3, <2>4 DEF InboxOK, Records, Content
  <1>6. NetInv'
    BY <1>1, <1>2, <1>5, DeliverCarried DEF FeedInv, NetInv
  <1>7. ASSUME ~DuplicateSnapshots, NEW r, r.type = "snapshot_level", Dispatched(r)
        PROVE  Dispatched(r)'
    <2>1. PICK e \in delivered : r \in Content(e)
      BY <1>7 DEF Dispatched
    <2>2. e \in snapshots /\ e # d
      BY <1>1, <1>7, <2>1 DEF FeedInv, NetInv
    <2>3. r \notin Content(d)
      BY <1>7, <2>1, <2>2 DEF FeedInv, TruthInv, LevelOnce, Content
    <2> QED BY <1>1, <1>4, <2>1, <2>3 DEF Dispatched, Content
  <1> QED BY <1>1, <1>6, <1>7, DeliverFeed

(* OnDisconnect.                                                           *)
LEMMA DisconnectFeed ==
    ASSUME FeedInv, OnDisconnect
    PROVE  FeedInv' /\ (WholeInv => WholeInv')
  <1>1. /\ ClearShadows /\ inbox' = <<>> /\ group' = {}
        /\ UNCHANGED pubVars /\ UNCHANGED <<delivered, bookGen, seenGen, toldGen>>
    BY DEF OnDisconnect
  <1>2. /\ instruments' = [k \in Inst |-> [instruments[k] EXCEPT !.OpenSnapshot = {}]]
        /\ UNCHANGED <<deltaBuf, held, replay>>
    BY <1>1 DEF ClearShadows, bufferVars, loopVars
  <1>3. IndInv'
    BY <1>1, ClearShadowsOK DEF FeedInv
  <1>4. instruments \in [Inst -> Instrument]
    BY DEF FeedInv, IndInv, InstrumentsOK
  <1>5. NetInv'
    <2>1. PICK S : S = Carried
      OBVIOUS
    <2>2. \A k \in Inst : instruments'[k].Pending = instruments[k].Pending
      BY <1>2, <1>4 DEF Instrument
    <2>3. CarriedIn(S)'
      BY <1>2, <2>1, <2>2 DEF FeedInv, NetInv, CarriedIn, BufferedIn, WindowIn, LoopsIn
    <2>4. InboxOK'
      <3>1. inbox' = <<>> /\ DOMAIN <<>> = {}
        BY <1>1
      <3> QED BY <3>1 DEF InboxOK, InboxRecs
    <2> QED BY <1>1, <2>1, <2>3, <2>4, FrozenCarried DEF FeedInv, NetInv, pubVars
  <1>6. ASSUME NEW k \in Inst
        PROVE  /\ ShadowsOK(k)' /\ DiscardOK(k)' /\ (BookOK(k) => BookOK(k)')
               /\ instruments'[k].OpenSnapshot = {}
    <2>1. PICK sh : sh = {}
      OBVIOUS
    <2>2. instruments'[k] = [instruments[k] EXCEPT !.OpenSnapshot = sh]
      BY <1>2, <2>1
    <2>3. ShadowsOK(k)' /\ DiscardOK(k)' /\ (BookOK(k) => BookOK(k)')
      BY <1>1, <2>1, <2>2, ShadowStepFeed DEF OneShadow
    <2> QED BY <1>4, <2>1, <2>2, <2>3 DEF Instrument
  <1>7. \A k \in Inst : ContentOK(k)'
    BY <1>6 DEF ContentOK
  <1> QED BY <1>1, <1>3, <1>5, <1>6, <1>7, FrozenSteps DEF WholeInv

-----------------------------------------------------------------------------
(* What a record of the inbox says.                                        *)

LEMMA InboxHead ==
    ASSUME FeedInv, inbox # <<>>, inbox' = Tail(inbox), UNCHANGED pubVars, UNCHANGED delivered
    PROVE  /\ Head(inbox) \in Records(mktdata) \cup Records(snapshots)
           /\ Head(inbox) \in InboxRecs /\ InboxOK'
           /\ InboxRecs' \subseteq InboxRecs
           /\ Head(inbox).type = "snapshot_level" => Head(inbox) \notin InboxRecs'
  <1>1. PICK R : R = Records(mktdata) \cup Records(snapshots)
    OBVIOUS
  <1>2. /\ inbox \in Seq(R) /\ R' = R
        /\ \A m, n \in DOMAIN inbox :
              inbox[m].type = "snapshot_level" /\ inbox[m] = inbox[n] => m = n
        /\ \A r \in InboxRecs : r.type = "snapshot_level" =>
              \E d \in delivered : r \in Content(d)
    BY <1>1 DEF FeedInv, NetInv, InboxOK
  <1>3. PICK old : old = inbox
    OBVIOUS
  <1>4. PICK new : new = Tail(old)
    OBVIOUS
  <1>5. /\ Len(old) \in Nat /\ Len(old) >= 1 /\ DOMAIN old = 1 .. Len(old)
        /\ Head(old) = old[1] /\ Head(old) \in R
        /\ new \in Seq(R) /\ Len(new) = Len(old) - 1 /\ DOMAIN new = 1 .. Len(new)
        /\ \A m \in 1 .. Len(new) : new[m] = old[m + 1]
    BY <1>2, <1>3, <1>4, LenProperties, EmptySeq, HeadTailProperties
  <1>6. /\ 1 \in DOMAIN old
        /\ \A m \in DOMAIN new : m + 1 \in DOMAIN old /\ m + 1 # 1
        /\ \A m, n \in DOMAIN new : m + 1 = n + 1 => m = n
    BY <1>5
  <1>7. InboxRecs = {old[m] : m \in DOMAIN old} /\ InboxRecs' = {new[m] : m \in DOMAIN new}
    BY <1>3, <1>4 DEF InboxRecs
  <1>8. InboxRecs' \subseteq InboxRecs /\ Head(old) \in InboxRecs
    BY <1>5, <1>6, <1>7
  <1>9. Head(old).type = "snapshot_level" => Head(old) \notin InboxRecs'
    BY <1>2, <1>3, <1>5, <1>6, <1>7
  <1>10. InboxOK'
    <2>1. UNCHANGED <<mktdata, snapshots>> /\ inbox' = new
      BY <1>3, <1>4 DEF pubVars
    <2>2. inbox' \in Seq(Records(mktdata') \cup Records(snapshots'))
      BY <1>1, <1>5, <2>1
    <2>3. \A m, n \in DOMAIN new : new[m].type = "snapshot_level" /\ new[m] = new[n] => m = n
      BY <1>2, <1>3, <1>5, <1>6
    <2>4. \A r \in InboxRecs' : r.type = "snapshot_level" =>
              \E d \in delivered' : r \in Content(d)
      BY <1>2, <1>8
    <2> QED BY <2>1, <2>2, <2>3, <2>4 DEF InboxOK, Records, Content
  <1> QED BY <1>1, <1>3, <1>5, <1>8, <1>9, <1>10

LEMMA SnapshotTypes ==
    ASSUME SnapshotIsOneMoment, NEW r \in Records(snapshots)
    PROVE  r.type \in {"snapshot_begin", "snapshot_level", "snapshot_end"}
  <1>1. PICK d \in snapshots : r \in Content(d)
    BY RecordsContent
  <1>2. PICK k \in Inst : \E anchor \in 0 .. mktSeq, n \in 0 .. last[k], g \in 0 .. gen[k] :
           CapturedAs(d.id, k, anchor, n, g)
    BY DEF SnapshotIsOneMoment
  <1>3. PICK anchor \in 0 .. mktSeq, n \in 0 .. last[k], g \in 0 .. gen[k] :
           CapturedAs(d.id, k, anchor, n, g)
    BY <1>2
  <1>4. r \in GroupRecs(k, d.id, anchor, n, truth[k][g][n])
    BY <1>1, <1>3 DEF CapturedAs
  <1> QED BY <1>4, GroupRecsTypes

(* A delta that was sent is one of the shard's alphabet.                   *)
LEMMA DeltaSent ==
    ASSUME PubInv, TruthInv, NEW r \in Records(mktdata) \cup Records(snapshots),
           r.type = "delta"
    PROVE  DeltaOf(r) \in Delta /\ DeltaOf(r) \in Carried
  <1>1. r \in Deltas
    BY SnapshotTypes DEF Deltas, TruthInv
  <1>2. r \in DeltaRec /\ r.mkt <= mktSeq /\ r.pi <= last[r.inst] /\ r.pi >= 1 /\ r.op \in Ops
    BY <1>1 DEF AllDeltas, PubInv, DeltasInv, TruthInv, OpsInv
  <1>3. r.inst \in Inst /\ r.mkt \in Nat /\ r.pi \in Nat
    BY <1>2 DEF DeltaRec
  <1>4. mktSeq \in Nat /\ mktSeq <= MaxMktdataSeq /\ last[r.inst] \in 0 .. MaxDeltas
        /\ MaxMktdataSeq \in Nat /\ MaxDeltas \in Nat
    BY <1>3, PublisherAssumption DEF PubInv, PubTypeOK, TruthInv, BoundsInv
  <1>5. r.mkt \in 0 .. MaxMktdataSeq /\ r.pi \in 1 .. MaxDeltas
    BY <1>2, <1>3, <1>4
  <1>6. r.mkt \in MktdataSeqs /\ r.pi \in InstrumentSeqs
    BY <1>5, FeedAssumption
  <1> QED BY <1>1, <1>2, <1>3, <1>6 DEF DeltaOf, Delta, Carried

LEMMA ResetSent ==
    ASSUME PubInv, TruthInv, NEW r \in Records(mktdata) \cup Records(snapshots),
           r.type = "instrument_reset"
    PROVE  /\ r.inst \in Inst /\ r.anchor \in Nat /\ r.gen \in Nat /\ r.anchor \in MktdataSeqs
           /\ ResetAt(r.inst, r.gen, r.anchor)
  <1>1. r \in Records(mktdata)
    BY SnapshotTypes DEF TruthInv
  <1>2. PICK e \in mktdata : r \in Content(e)
    BY <1>1, RecordsContent
  <1>3. r \in ResetRec /\ r.anchor = e.seq /\ e.seq \in Nat /\ e.seq < mktSeq
    BY <1>2 DEF PubInv, DatagramsInv, DeltaRec
  <1>4. mktSeq \in Nat /\ mktSeq <= MaxMktdataSeq /\ MaxMktdataSeq \in Nat
    BY PublisherAssumption DEF PubInv, PubTypeOK, TruthInv, BoundsInv
  <1>5. r.anchor \in 0 .. MaxMktdataSeq
    BY <1>3, <1>4
  <1> QED BY <1>2, <1>3, <1>5, FeedAssumption DEF ResetRec, ResetAt

(* A record of a snapshot: of whose snapshot, and of which book.           *)
Told(r, d, k, anchor, n, g) ==
    /\ r \in Content(d) /\ CapturedAs(d.id, k, anchor, n, g)
    /\ r \in GroupRecs(k, d.id, anchor, n, truth[k][g][n])
    /\ truth[k][g][n] \in Book

LEMMA SnapshotSent ==
    ASSUME PubInv, TruthInv, NEW r \in Records(mktdata) \cup Records(snapshots),
           r.type \in {"snapshot_begin", "snapshot_level", "snapshot_end"}
    PROVE  \E d \in snapshots : \E k \in Inst :
              \E anchor \in 0 .. mktSeq, n \in 0 .. last[k], g \in 0 .. gen[k] :
                 Told(r, d, k, anchor, n, g)
  <1>1. r \in Records(snapshots)
    BY MktdataTypes
  <1>2. PICK d \in snapshots : r \in Content(d)
    BY <1>1, RecordsContent
  <1>3. PICK k \in Inst : \E anchor \in 0 .. mktSeq, n \in 0 .. last[k], g \in 0 .. gen[k] :
           CapturedAs(d.id, k, anchor, n, g)
    BY DEF TruthInv, SnapshotIsOneMoment
  <1>4. PICK anchor \in 0 .. mktSeq, n \in 0 .. last[k], g \in 0 .. gen[k] :
           CapturedAs(d.id, k, anchor, n, g)
    BY <1>3
  <1>5. r \in GroupRecs(k, d.id, anchor, n, truth[k][g][n])
    BY <1>2, <1>4 DEF CapturedAs
  <1>6. truth[k][g][n] \in Book
    <2>1. gen[k] \in 0 .. MaxResets /\ last[k] \in 0 .. MaxDeltas
          /\ MaxResets \in Nat /\ MaxDeltas \in Nat
      BY PublisherAssumption DEF PubInv, PubTypeOK, Generations
    <2>2. g \in 0 .. MaxResets /\ n \in 0 .. MaxDeltas
      BY <2>1
    <2>3. truth[k] \in [0 .. MaxResets -> [0 .. MaxDeltas -> Book]]
      BY DEF PubInv, PubTypeOK, Generations
    <2>4. truth[k][g] \in [0 .. MaxDeltas -> Book]
      BY <2>2, <2>3
    <2> QED BY <2>2, <2>4
  <1> QED BY <1>2, <1>4, <1>5, <1>6 DEF Told

(* What a snapshot declares is of the shard's alphabet.                    *)
LEMMA AlphabetOfSnapshots ==
    ASSUME PubInv, TruthInv, NEW d \in snapshots, NEW k \in Inst,
           NEW anchor \in 0 .. mktSeq, NEW n \in 0 .. last[k], NEW b \in Book
    PROVE  /\ [id |-> d.id, anchor |-> anchor,
               total |-> Cardinality(Levels(b)), last |-> n] \in SnapshotBegins
           /\ d.id \in GroupIds /\ anchor \in GroupAnchors
           /\ IsFiniteSet(Levels(b)) /\ Cardinality(Levels(b)) \in Nat
           /\ Cardinality(Levels(b)) <= MaxLevels
  <1>1. IsFiniteSet(Side \X Price)
    <2>1. Side = {"bid"} \cup {"ask"}
      BY DEF Side
    <2>2. IsFiniteSet(Side)
      BY <2>1, FS_Singleton, FS_AddElement
    <2> QED BY <2>2, PublisherAssumption, FS_Product
  <1>2. PICK c, all : c = Cardinality(Levels(b)) /\ all = Cardinality(Side \X Price)
    OBVIOUS
  <1>3. IsFiniteSet(Levels(b)) /\ c \in Nat /\ all \in Nat /\ c <= all
    <2>1. Levels(b) \subseteq Side \X Price
      BY DEF Levels
    <2> QED BY <1>1, <1>2, <2>1, FS_Subset, FS_CardinalityType
  <1>4. /\ d.id \in 0 .. nextSnapshotId - 1 /\ nextSnapshotId \in Nat
        /\ nextSnapshotId <= MaxSnapshots /\ mktSeq \in Nat /\ mktSeq <= MaxMktdataSeq
        /\ last[k] \in 0 .. MaxDeltas
        /\ MaxSnapshots \in Nat /\ MaxMktdataSeq \in Nat /\ MaxDeltas \in Nat
    BY PublisherAssumption DEF PubInv, PubTypeOK, TruthInv, BoundsInv, SentTyped
  <1>5. /\ d.id \in 0 .. MaxSnapshots - 1 /\ anchor \in 0 .. MaxMktdataSeq
        /\ n \in 0 .. MaxDeltas /\ c \in 0 .. all
    BY <1>3, <1>4
  <1>6. PICK x : x = [id |-> d.id, anchor |-> anchor, total |-> c, last |-> n]
    OBVIOUS
  <1>7. x \in SnapshotBegins
    BY <1>2, <1>5, <1>6, FeedAssumption
  <1>8. d.id \in GroupIds /\ anchor \in GroupAnchors
    BY <1>6, <1>7 DEF GroupIds, GroupAnchors
  <1>9. c <= MaxLevels
    BY <1>2, <1>3, FeedAssumption, ShardAssumption
  <1> QED BY <1>2, <1>3, <1>6, <1>7, <1>8, <1>9

-----------------------------------------------------------------------------
(* Coordinator.Dispatch, one record type at a time.                        *)

Taking(r) ==
    /\ inbox # <<>> /\ r = Head(inbox) /\ inbox' = Tail(inbox)
    /\ UNCHANGED pubVars /\ UNCHANGED delivered

LEMMA TakingHead ==
    ASSUME FeedInv, NEW r, Taking(r)
    PROVE  /\ r \in Records(mktdata) \cup Records(snapshots) /\ r \in InboxRecs
           /\ InboxOK' /\ UNCHANGED pubVars
           /\ \A x : Dispatched(x) => Dispatched(x)'
           /\ r.type = "snapshot_level" => (\E d \in delivered : r \in Content(d)) /\ Dispatched(r)'
  <1>1. /\ r \in Records(mktdata) \cup Records(snapshots) /\ r \in InboxRecs
        /\ InboxOK' /\ InboxRecs' \subseteq InboxRecs
        /\ r.type = "snapshot_level" => r \notin InboxRecs'
    BY InboxHead DEF Taking
  <1>2. \A x : Dispatched(x) => Dispatched(x)'
    BY <1>1 DEF Dispatched, Taking, Content
  <1>3. r.type = "snapshot_level" => \E d \in delivered : r \in Content(d)
    BY <1>1 DEF FeedInv, NetInv, InboxOK
  <1>4. r.type = "snapshot_level" => Dispatched(r)'
    BY <1>1, <1>3 DEF Dispatched, Taking, Content
  <1> QED BY <1>1, <1>2, <1>3, <1>4 DEF Taking

LEMMA TakingFeed ==
    ASSUME FeedInv, NEW r, Taking(r), IndInv', CarriedIn(Carried)',
           \A g \in group' : g.inst \in Inst,
           bookGen' \in [Inst -> Nat], seenGen' \in [Inst -> Nat], toldGen' \in [Inst -> Nat],
           \A k \in Inst : ShadowsOK(k)' /\ DiscardOK(k)'
    PROVE  FeedInv'
  <1>1. InboxOK' /\ UNCHANGED pubVars
    BY TakingHead
  <1>2. (delivered \subseteq snapshots)'
    BY DEF FeedInv, NetInv, Taking, pubVars
  <1>3. NetInv'
    BY <1>1, <1>2 DEF NetInv
  <1> QED BY <1>1, <1>3, FrozenSteps

(* A record that leaves the history and the group alone.                   *)
LEMMA NetTypes ==
    ASSUME FeedInv
    PROVE  /\ bookGen \in [Inst -> Nat] /\ seenGen \in [Inst -> Nat] /\ toldGen \in [Inst -> Nat]
           /\ \A g \in group : g.inst \in Inst
           /\ instruments \in [Inst -> Instrument] /\ deltaBuf \in [Inst -> Seq(Delta)]
           /\ CarriedIn(Carried)
  BY DEF FeedInv, NetInv, IndInv, InstrumentsOK, BufferOK

(* level_update, book_clear.                                               *)
LEMMA DispatchDeltaFeed ==
    ASSUME FeedInv, NEW r, Taking(r), r.type = "delta", DispatchDelta(r)
    PROVE  FeedInv' /\ ShardNext /\ (WholeInv => WholeInv')
  <1>1. PICK S, d : S = Carried /\ d = DeltaOf(r)
    OBVIOUS
  <1>2. d \in Delta /\ d \in S
    BY <1>1, TakingHead, DeltaSent DEF FeedInv
  <1>3. ApplyDelta(d) /\ UNCHANGED <<group, bookGen, seenGen, toldGen>>
    BY <1>1 DEF DispatchDelta
  <1>4. IndInv'
    BY <1>2, <1>3, ApplyDeltaOK DEF FeedInv
  <1>5. CarriedIn(S)' /\ \A k \in Inst : Effect(k, S)
    BY <1>1, <1>2, <1>3, NetTypes, DeltaEffect DEF FeedInv
  <1>6. UNCHANGED pubVars
    BY TakingHead
  <1>7. CarriedIn(Carried)'
    BY <1>1, <1>5, <1>6, FrozenCarried
  <1>8. ASSUME NEW k \in Inst
        PROVE  /\ ShadowsOK(k)' /\ DiscardOK(k)' /\ (BookOK(k) => BookOK(k)')
               /\ instruments'[k].OpenSnapshot = instruments[k].OpenSnapshot
    BY <1>1, <1>3, <1>5, <1>6, EffectFeed
  <1>9. FeedInv'
    BY <1>3, <1>4, <1>7, <1>8, NetTypes, TakingFeed
  <1>10. \A k \in Inst : ContentOK(k) => ContentOK(k)'
    BY <1>8, TakingHead, ContentKept
  <1>11. ShardNext
    BY <1>2, <1>3 DEF ShardNext
  <1> QED BY <1>8, <1>9, <1>10, <1>11 DEF WholeInv

(* An instrument whose record a step does not touch.                       *)
LEMMA UntouchedFeed ==
    ASSUME FeedInv, UNCHANGED pubVars, NEW k \in Inst,
           bookGen'[k] = bookGen[k], seenGen'[k] = seenGen[k], instruments'[k] = instruments[k]
    PROVE  ShadowsOK(k)' /\ DiscardOK(k)' /\ (BookOK(k) => BookOK(k)')
  <1>1. PICK S : S = Carried
    OBVIOUS
  <1>2. Effect(k, S)
    BY KeptSelf DEF Effect
  <1> QED BY <1>1, <1>2, EffectFeed

(* instrument_reset.                                                       *)
LEMMA DispatchResetFeed ==
    ASSUME FeedInv, NEW r, Taking(r), r.type = "instrument_reset", DispatchReset(r)
    PROVE  FeedInv' /\ ShardNext /\ (WholeInv => WholeInv')
  <1>1. PICK k, anchor, g : k = r.inst /\ anchor = r.anchor /\ g = r.gen
    OBVIOUS
  <1>2. /\ k \in Inst /\ anchor \in Nat /\ anchor \in MktdataSeqs /\ g \in Nat
        /\ ResetAt(k, g, anchor)
    BY <1>1, TakingHead, ResetSent DEF FeedInv
  <1>3. /\ ApplyInstrumentReset(k, anchor) /\ UNCHANGED <<group, bookGen>>
        /\ seenGen' = [seenGen EXCEPT ![k] = g]
        /\ toldGen' = [toldGen EXCEPT ![k] = IF g > @ THEN g ELSE @]
    BY <1>1 DEF DispatchReset
  <1>4. /\ instruments' = [instruments EXCEPT ![k] = ResetInstrument(anchor)]
        /\ UNCHANGED <<held, replay>>
    BY <1>3 DEF ApplyInstrumentReset, loopVars
  <1>5. PICK n \in 0 .. Len(deltaBuf[k]) :
           deltaBuf' = [deltaBuf EXCEPT ![k] = SubSeq(deltaBuf[k], n + 1, Len(deltaBuf[k]))]
    BY <1>3 DEF ApplyInstrumentReset, KeepAfter
  <1>6. IndInv'
    BY <1>2, <1>3, InstrumentResetOK DEF FeedInv
  <1>7. UNCHANGED pubVars
    BY TakingHead
  <1>8. PICK j : j = ResetInstrument(anchor)
    OBVIOUS
  <1>9. /\ j.Status = "awaiting" /\ j.OpenSnapshot = {} /\ j.Pending = {}
        /\ j.RequiredAnchorSeq = anchor
    BY <1>8 DEF ResetInstrument, NewInstrument
  <1>10. /\ instruments'[k] = j
         /\ \A l \in Inst : l # k => instruments'[l] = instruments[l]
    BY <1>2, <1>4, <1>8, NetTypes
  <1>11. CarriedIn(Carried)'
    <2>1. PICK S : S = Carried
      OBVIOUS
    <2>2. BufferedIn(S) /\ WindowIn(S) /\ LoopsIn(S)
      BY <2>1, NetTypes DEF CarriedIn
    <2>3. WindowIn(S)'
      BY <1>9, <1>10, <2>2 DEF WindowIn
    <2>4. BufferedIn(S)'
      <3> SUFFICES ASSUME NEW l \in Inst, NEW m \in 1 .. Len(deltaBuf'[l])
                   PROVE  deltaBuf'[l][m] \in S
        BY DEF BufferedIn
      <3>1. CASE l = k
        <4>1. PICK old \in Seq(Delta) : old = deltaBuf[k]
          BY <1>2, NetTypes
        <4>2. PICK new : new = SubSeq(old, n + 1, Len(old))
          OBVIOUS
        <4>3. /\ n \in 0 .. Len(old) /\ Len(old) \in Nat /\ Len(new) = Len(old) - n
              /\ \A x \in 1 .. Len(old) - n : new[x] = old[n + x]
          BY <4>1, <4>2, SuffixProperties, LenProperties
        <4>4. deltaBuf'[l] = new
          BY <1>2, <1>5, <3>1, <4>1, <4>2, NetTypes
        <4>5. m \in 1 .. Len(old) - n /\ n + m \in 1 .. Len(old)
          BY <4>3, <4>4
        <4> QED BY <2>2, <1>2, <4>1, <4>3, <4>4, <4>5 DEF BufferedIn
      <3>2. CASE l # k
        BY <1>5, <2>2, <3>2, NetTypes DEF BufferedIn
      <3> QED BY <3>1, <3>2
    <2>5. CarriedIn(S)'
      BY <1>4, <2>2, <2>3, <2>4 DEF CarriedIn, LoopsIn
    <2> QED BY <1>7, <2>1, <2>5, FrozenCarried
  <1>12. ShadowsOK(k)' /\ DiscardOK(k)' /\ BookOK(k)' /\ ContentOK(k)'
    <2>1. ShadowsOK(k)'
      BY <1>7, <1>9, <1>10, ShadowsIntro DEF OneShadow
    <2>2. PICK bg : bg = bookGen'[k]
      OBVIOUS
    <2>3. Required(k, j, bg, anchor)
      BY <1>2, <1>9 DEF Required
    <2>4. g = seenGen'[k]
      BY <1>2, <1>3, NetTypes
    <2>5. DiscardOK(k)'
      BY <1>2, <1>7, <1>10, <2>2, <2>3, <2>4, DiscardIntro
    <2> QED BY <1>9, <1>10, <2>1, <2>5 DEF BookOK, ContentOK
  <1>13. ASSUME NEW l \in Inst, l # k
         PROVE  /\ ShadowsOK(l)' /\ DiscardOK(l)' /\ (BookOK(l) => BookOK(l)')
                /\ instruments'[l].OpenSnapshot = instruments[l].OpenSnapshot
    <2>1. bookGen'[l] = bookGen[l] /\ seenGen'[l] = seenGen[l]
      BY <1>3, <1>13, NetTypes
    <2> QED BY <1>7, <1>10, <1>13, <2>1, UntouchedFeed
  <1>14. FeedInv'
    <2>1. /\ bookGen' \in [Inst -> Nat] /\ seenGen' \in [Inst -> Nat]
          /\ toldGen' \in [Inst -> Nat] /\ \A x \in group' : x.inst \in Inst
      BY <1>2, <1>3, NetTypes
    <2> QED BY <1>6, <1>11, <1>12, <1>13, <2>1, TakingFeed
  <1>15. \A l \in Inst : ContentOK(l) => ContentOK(l)'
    BY <1>12, <1>13, TakingHead, ContentKept
  <1>16. ShardNext
    BY <1>2, <1>3 DEF ShardNext
  <1> QED BY <1>12, <1>13, <1>14, <1>15, <1>16 DEF WholeInv

(* A snapshot that is accepted after a reset reaches the reset's anchor:   *)
(* if the anchor is no longer required, the book started from a snapshot   *)
(* that reaches it, and this one has overtaken that.                       *)
LEMMA AcceptedReaches ==
    ASSUME FeedInv, NEW k \in Inst, NEW sg, NEW bg, NEW anchor \in Nat,
           ResetAt(k, sg, anchor), Required(k, instruments[k], bg, anchor),
           NEW d \in snapshots, NEW s \in Content(d), s.type = "snapshot_begin", s.inst = k,
           SnapshotAcceptable(instruments[k], s.anchor, s.last)
    PROVE  s.anchor >= anchor
  <1>1. PICK i : i = instruments[k]
    OBVIOUS
  <1>2. i \in Instrument /\ InstOK(k, i)
    BY <1>1 DEF FeedInv, IndInv, InstrumentsOK
  <1>3. /\ i.RequiredAnchorSeq \in Nat /\ i.LastAppliedInstrumentSeq \in Nat
        /\ i.RequiredInstrumentSeq \in Nat
    BY <1>2, InstrumentType
  <1>4. s.anchor \in Nat /\ s.last \in Nat /\ d.gen \in Nat
    BY DEF FeedInv, PubInv, SnapshotsInv
  <1>5. CASE i.RequiredAnchorSeq >= anchor
    <2>1. s.anchor >= i.RequiredAnchorSeq
      BY <1>1 DEF SnapshotAcceptable
    <2> QED BY <1>3, <1>4, <1>5, <2>1
  <1>6. CASE ~(i.RequiredAnchorSeq >= anchor)
    <2>1. StartsAt(k, bg, i.LastAppliedInstrumentSeq, anchor) /\ i.Status # "awaiting"
      BY <1>1, <1>6 DEF Required
    <2>2. PICK e \in snapshots : \E t \in Content(e) :
             /\ t.type = "snapshot_begin" /\ t.inst = k
             /\ t.last <= i.LastAppliedInstrumentSeq /\ t.anchor >= anchor
      BY <2>1 DEF StartsAt
    <2>3. PICK t \in Content(e) :
             /\ t.type = "snapshot_begin" /\ t.inst = k
             /\ t.last <= i.LastAppliedInstrumentSeq /\ t.anchor >= anchor
      BY <2>2
    <2>4. t.last \in Nat /\ t.anchor \in Nat
      BY <2>3 DEF FeedInv, PubInv, SnapshotsInv
    <2>5. s.last > i.LastAppliedInstrumentSeq
      <3>1. CASE i.Status = "ready"
        BY <1>1, <3>1 DEF SnapshotAcceptable
      <3>2. CASE i.Status # "ready"
        <4>1. i.Status = "gap"
          BY <1>2, <2>1, <3>2, InstrumentType
        <4>2. i.RequiredInstrumentSeq > i.LastAppliedInstrumentSeq
          BY <1>2, <4>1 DEF InstOK
        <4>3. s.last >= i.RequiredInstrumentSeq
          BY <1>1 DEF SnapshotAcceptable
        <4> QED BY <1>3, <1>4, <4>2, <4>3
      <3> QED BY <3>1, <3>2
    <2>6. t.last < s.last
      BY <1>3, <1>4, <2>3, <2>4, <2>5
    <2>7. PICK x \in mktdata : \E r \in Content(x) :
             r.type = "instrument_reset" /\ r.inst = k /\ r.anchor = anchor
      BY DEF ResetAt
    <2>8. PICK r \in Content(x) :
             r.type = "instrument_reset" /\ r.inst = k /\ r.anchor = anchor
      BY <2>7
    <2>9. r.gen \in Nat
      BY <2>8 DEF FeedInv, PubInv, DatagramsInv, DeltaRec, ResetRec
    <2>10. d.gen >= r.gen => s.anchor >= r.anchor
      <3>1. r \in Records({x}) /\ s \in Records({d})
        BY RecordsContent
      <3> QED BY <2>8, <3>1 DEF FeedInv, PubInv, ResetBounds
    <2>11. d.gen < r.gen => t.anchor < r.anchor
      BY <2>3, <2>6, <2>8 DEF FeedInv, TruthInv, OvertakenBeforeReset
    <2>12. ~(d.gen < r.gen)
      BY <2>3, <2>4, <2>8, <2>11
    <2> QED BY <1>4, <2>8, <2>9, <2>10, <2>12
  <1> QED BY <1>5, <1>6

(* A shadow just begun is empty.                                           *)
LEMMA EmptyLevels == Levels(EmptyBook) = {} /\ Cardinality({}) = 0
  BY FS_EmptySet DEF Levels, EmptyBook

(* snapshot_begin.                                                         *)
LEMMA DispatchBeginFeed ==
    ASSUME FeedInv, NEW r, Taking(r), r.type = "snapshot_begin", DispatchSnapshotBegin(r)
    PROVE  FeedInv' /\ ShardNext /\ (WholeInv => WholeInv')
  <1>1. PICK d \in snapshots : \E k \in Inst :
           \E anchor \in 0 .. mktSeq, n \in 0 .. last[k], g \in 0 .. gen[k] :
              Told(r, d, k, anchor, n, g)
    BY TakingHead, SnapshotSent DEF FeedInv
  <1>2. PICK k \in Inst : \E anchor \in 0 .. mktSeq, n \in 0 .. last[k], g \in 0 .. gen[k] :
           Told(r, d, k, anchor, n, g)
    BY <1>1
  <1>3. PICK anchor \in 0 .. mktSeq, n \in 0 .. last[k], g \in 0 .. gen[k] :
           Told(r, d, k, anchor, n, g)
    BY <1>2
  <1>4. PICK T : T = truth[k][g][n]
    OBVIOUS
  <1>5. /\ r \in Content(d) /\ r = BeginRec(k, d.id, anchor, n, T)
        /\ CapturedAs(d.id, k, anchor, n, g) /\ T \in Book
    BY <1>3, <1>4, GroupRecsTypes DEF Told
  <1>6. /\ r.inst = k /\ r.id = d.id /\ r.anchor = anchor /\ r.last = n
        /\ r.total = Cardinality(Levels(T))
    BY <1>5 DEF BeginRec
  <1>7. PICK b : b = [id |-> r.id, anchor |-> r.anchor, total |-> r.total, last |-> r.last]
    OBVIOUS
  <1>8. b \in SnapshotBegins
    BY <1>5, <1>6, <1>7, AlphabetOfSnapshots DEF FeedInv
  <1>9. /\ group' = {[inst |-> k, id |-> r.id]} /\ ApplySnapshotBegin(k, b)
        /\ UNCHANGED <<bookGen, seenGen, toldGen>>
    BY <1>6, <1>7 DEF DispatchSnapshotBegin
  <1>10. IndInv'
    BY <1>8, <1>9, SnapshotBeginOK DEF FeedInv
  <1>11. UNCHANGED pubVars
    BY TakingHead
  <1>12. PICK i : i = instruments[k]
    OBVIOUS
  <1>13. PICK new : new = [id |-> b.id, anchor |-> b.anchor, total |-> b.total,
                           last |-> b.last, received |-> 0, book |-> EmptyBook]
    OBVIOUS
  <1>14. PICK sh : sh = IF SnapshotAcceptable(i, b.anchor, b.last)
                        THEN {new} ELSE i.OpenSnapshot
    OBVIOUS
  <1>15. i \in Instrument /\ i = [i EXCEPT !.OpenSnapshot = i.OpenSnapshot]
    BY <1>12, NetTypes DEF Instrument
  <1>16. /\ instruments' = [instruments EXCEPT ![k] = [i EXCEPT !.OpenSnapshot = sh]]
         /\ UNCHANGED <<deltaBuf, held, replay>>
    BY <1>9, <1>12, <1>13, <1>14, <1>15
       DEF ApplySnapshotBegin, BeginSnapshot, bufferVars, loopVars
  <1>17. /\ instruments'[k] = [instruments[k] EXCEPT !.OpenSnapshot = sh]
         /\ \A l \in Inst : l # k => instruments'[l] = instruments[l]
    BY <1>12, <1>16, NetTypes
  <1>18. CarriedIn(Carried)'
    <2>1. PICK S : S = Carried
      OBVIOUS
    <2>2. \A l \in Inst : instruments'[l].Pending = instruments[l].Pending
      BY <1>12, <1>15, <1>17 DEF Instrument
    <2>3. CarriedIn(S)'
      BY <1>16, <2>1, <2>2, NetTypes DEF CarriedIn, BufferedIn, WindowIn, LoopsIn
    <2> QED BY <1>11, <2>1, <2>3, FrozenCarried
  <1>19. OneShadow(i.OpenSnapshot) /\ \A s \in i.OpenSnapshot : Opened(k, s)
    BY <1>12 DEF FeedInv, ShadowsOK
  <1>20. /\ new.id = d.id /\ new.anchor = anchor /\ new.last = n
         /\ new.total = Cardinality(Levels(T)) /\ new.received = 0 /\ new.book = EmptyBook
    BY <1>6, <1>7, <1>13
  <1>21. Opened(k, new)
    <2>1. ShadowOf(k, new, n, g)
      BY <1>4, <1>5, <1>20 DEF ShadowOf
    <2> QED BY <2>1 DEF Opened
  <1>22. OneShadow(sh) /\ \A s \in sh : Opened(k, s)
    BY <1>14, <1>19, <1>21 DEF OneShadow
  <1>23. ASSUME NEW a \in Nat, ResetAt(k, seenGen[k], a),
                Required(k, instruments[k], bookGen[k], a)
         PROVE  \A s \in sh : s.anchor >= a
    <2>1. CASE SnapshotAcceptable(i, b.anchor, b.last)
      <3>1. SnapshotAcceptable(instruments[k], r.anchor, r.last)
        BY <1>7, <1>12, <2>1
      <3>2. r.anchor >= a
        BY <1>5, <1>6, <1>23, <3>1, AcceptedReaches
      <3> QED BY <1>6, <1>14, <1>20, <2>1, <3>2
    <2>2. CASE ~SnapshotAcceptable(i, b.anchor, b.last)
      BY <1>12, <1>14, <1>23, <2>2 DEF Required
    <2> QED BY <2>1, <2>2
  <1>24. ShadowsOK(k)' /\ DiscardOK(k)' /\ (BookOK(k) => BookOK(k)')
    <2>1. bookGen'[k] = bookGen[k] /\ seenGen'[k] = seenGen[k]
      BY <1>9
    <2> QED BY <1>11, <1>17, <1>22, <1>23, <2>1, ShadowStepFeed
  <1>25. ASSUME NEW l \in Inst, l # k
         PROVE  /\ ShadowsOK(l)' /\ DiscardOK(l)' /\ (BookOK(l) => BookOK(l)')
                /\ instruments'[l].OpenSnapshot = instruments[l].OpenSnapshot
    <2>1. bookGen'[l] = bookGen[l] /\ seenGen'[l] = seenGen[l]
      BY <1>9
    <2> QED BY <1>11, <1>17, <1>25, <2>1, UntouchedFeed
  <1>26. FeedInv'
    <2>1. \A x \in group' : x.inst \in Inst
      BY <1>9
    <2> QED BY <1>9, <1>10, <1>18, <1>24, <1>25, <2>1, NetTypes, TakingFeed
  <1>27. ASSUME NEW l \in Inst, ContentOK(l) PROVE ContentOK(l)'
    <2>1. CASE l = k /\ SnapshotAcceptable(i, b.anchor, b.last)
      <3>1. instruments'[l].OpenSnapshot = {new}
        BY <1>14, <1>15, <1>12, <1>17, <2>1 DEF Instrument
      <3> QED BY <1>20, <3>1, EmptyLevels DEF ContentOK
    <2>2. CASE ~(l = k /\ SnapshotAcceptable(i, b.anchor, b.last))
      <3>1. instruments'[l].OpenSnapshot = instruments[l].OpenSnapshot
        BY <1>12, <1>14, <1>15, <1>17, <1>25, <2>2 DEF Instrument
      <3> QED BY <1>27, <3>1, TakingHead, ContentKept
    <2> QED BY <2>1, <2>2
  <1>28. ShardNext
    BY <1>8, <1>9 DEF ShardNext
  <1> QED BY <1>24, <1>25, <1>26, <1>27, <1>28 DEF WholeInv

LEMMA LevelParts ==
    ASSUME NEW id, NEW b, NEW l \in Side \X Price, NEW r, r = LevelRec(id, b, l)
    PROVE  /\ r.id = id /\ r.side = l[1] /\ r.price = l[2] /\ r.qty = b[l]
           /\ l = <<r.side, r.price>> /\ r.type = "snapshot_level"
  BY DEF LevelRec

(* A level that was sent is a level of the book its snapshot was captured  *)
(* from, whichever of the snapshot's shadows it is added to.               *)
LEMMA LevelSent ==
    ASSUME FeedInv, NEW r \in Records(mktdata) \cup Records(snapshots),
           r.type = "snapshot_level"
    PROVE  /\ <<r.side, r.price>> \in Side \X Price /\ r.side \in Side /\ r.price \in Price
           /\ r.qty \in Qty /\ r.qty # 0 /\ r.id \in GroupIds
           /\ \A b : b[<<r.side, r.price>>] = r.qty => LevelRec(r.id, b, <<r.side, r.price>>) = r
  <1>1. PICK d \in snapshots : \E k \in Inst :
           \E anchor \in 0 .. mktSeq, n \in 0 .. last[k], g \in 0 .. gen[k] :
              Told(r, d, k, anchor, n, g)
    BY SnapshotSent DEF FeedInv
  <1>2. PICK k \in Inst : \E anchor \in 0 .. mktSeq, n \in 0 .. last[k], g \in 0 .. gen[k] :
           Told(r, d, k, anchor, n, g)
    BY <1>1
  <1>3. PICK anchor \in 0 .. mktSeq, n \in 0 .. last[k], g \in 0 .. gen[k] :
           Told(r, d, k, anchor, n, g)
    BY <1>2
  <1>4. PICK T : T = truth[k][g][n]
    OBVIOUS
  <1>5. T \in Book /\ \E l \in Levels(T) : r = LevelRec(d.id, T, l)
    BY <1>3, <1>4, GroupRecsTypes DEF Told
  <1>6. PICK l \in Levels(T) : r = LevelRec(d.id, T, l)
    BY <1>5
  <1>7. l \in Side \X Price /\ T[l] # 0
    BY <1>6 DEF Levels
  <1>8. l = <<r.side, r.price>> /\ r.qty = T[l] /\ r.id = d.id
    BY <1>6, <1>7, LevelParts
  <1>9. T[l] \in Qty
    BY <1>5, <1>7 DEF Book
  <1>10. r.id \in GroupIds
    BY <1>3, <1>5, <1>8, AlphabetOfSnapshots DEF FeedInv
  <1>11. \A b : b[l] = r.qty => LevelRec(r.id, b, l) = r
    BY <1>6, <1>8 DEF LevelRec
  <1> QED BY <1>7, <1>8, <1>9, <1>10, <1>11

(* Two levels of one snapshot at one price are one record.                 *)
LEMMA LevelOfShadow ==
    ASSUME FeedInv, NEW k \in Inst, NEW s, Opened(k, s), NEW r, NEW q,
           r.type = "snapshot_level", q.type = "snapshot_level",
           r.id = s.id, q.id = s.id, r.side = q.side, r.price = q.price,
           NEW d \in snapshots, r \in Content(d), NEW e \in snapshots, q \in Content(e)
    PROVE  r = q
  <1>1. PICK n \in 0 .. last[k], g \in 0 .. gen[k] : ShadowOf(k, s, n, g)
    BY DEF Opened
  <1>2. PICK T : T = truth[k][g][n]
    OBVIOUS
  <1>3. d.id = s.id /\ e.id = s.id
    BY ContentId DEF FeedInv, TruthInv
  <1>4. /\ r \in GroupRecs(k, s.id, s.anchor, n, T) /\ q \in GroupRecs(k, s.id, s.anchor, n, T)
    BY <1>1, <1>2, <1>3 DEF ShadowOf, CapturedAs
  <1>5. PICK l \in Levels(T) : r = LevelRec(s.id, T, l)
    BY <1>4, GroupRecsTypes
  <1>6. PICK m \in Levels(T) : q = LevelRec(s.id, T, m)
    BY <1>4, GroupRecsTypes
  <1>7. l \in Side \X Price /\ m \in Side \X Price
    BY <1>5, <1>6 DEF Levels
  <1>8. l = <<r.side, r.price>> /\ m = <<q.side, q.price>>
    BY <1>5, <1>6, <1>7, LevelParts
  <1> QED BY <1>5, <1>6, <1>8

(* AddSnapshotLevel, on the shadow the level is for.                       *)
WithLevel(s, r) ==
    [s EXCEPT !.book = [s.book EXCEPT ![<<r.side, r.price>>] = r.qty],
              !.received = s.received + 1]

LEMMA WithLevelKeeps ==
    ASSUME NEW s \in PendingSnapshot, NEW r
    PROVE  LET t == WithLevel(s, r)
           IN  /\ t.id = s.id /\ t.anchor = s.anchor /\ t.last = s.last /\ t.total = s.total
               /\ t.received = s.received + 1
               /\ t.book = [s.book EXCEPT ![<<r.side, r.price>>] = r.qty]
  BY DEF WithLevel, PendingSnapshot

LEMMA LevelAdded ==
    ASSUME FeedInv, NEW r, Taking(r), r.type = "snapshot_level", NEW k \in Inst,
           NEW s \in instruments[k].OpenSnapshot, s.id = r.id, ContentOK(k),
           NEW t, t = WithLevel(s, r)
    PROVE  /\ t.received = Cardinality(Levels(t.book)) /\ s.received < MaxLevels
           /\ \A x \in Levels(t.book) : Dispatched(LevelRec(t.id, t.book, x))'
  <1>1. PICK l, L : l = <<r.side, r.price>> /\ L = Levels(s.book)
    OBVIOUS
  <1>2. /\ l \in Side \X Price /\ r.qty \in Qty /\ r.qty # 0
        /\ r \in InboxRecs /\ Dispatched(r)' /\ \E d \in delivered : r \in Content(d)
        /\ \A b : b[l] = r.qty => LevelRec(r.id, b, l) = r
    BY <1>1, TakingHead, LevelSent
  <1>3. s \in PendingSnapshot
    BY NetTypes, InstrumentType
  <1>4. s.book \in Book /\ s.received \in Nat
    BY <1>3 DEF PendingSnapshot
  <1>5. PICK b : b = [s.book EXCEPT ![l] = r.qty]
    OBVIOUS
  <1>6. /\ t.id = s.id /\ t.book = b /\ t.received = s.received + 1
    BY <1>1, <1>3, <1>5, WithLevelKeeps
  <1>7. b \in Book /\ b[l] = r.qty /\ \A x \in Side \X Price : x # l => b[x] = s.book[x]
    BY <1>2, <1>4, <1>5 DEF Book
  <1>8. Levels(b) = L \cup {l}
    BY <1>1, <1>2, <1>7 DEF Levels
  <1>9. s.received = Cardinality(L) /\ \A x \in L : Dispatched(LevelRec(s.id, s.book, x))
    BY <1>1 DEF ContentOK
  <1>10. Opened(k, s)
    BY DEF FeedInv, ShadowsOK
  <1>11. l \notin L
    <2> SUFFICES ASSUME l \in L PROVE FALSE
      OBVIOUS
    <2>1. PICK q : q = LevelRec(s.id, s.book, l)
      OBVIOUS
    <2>2. Dispatched(q)
      BY <1>9, <2>1
    <2>3. PICK e \in delivered : q \in Content(e)
      BY <2>2 DEF Dispatched
    <2>4. PICK d \in delivered : r \in Content(d)
      BY <1>2
    <2>5. d \in snapshots /\ e \in snapshots
      BY DEF FeedInv, NetInv
    <2>6. q.id = s.id /\ q.type = "snapshot_level" /\ q.side = r.side /\ q.price = r.price
      BY <1>1, <1>2, <2>1, LevelParts
    <2>7. r = q
      BY <1>10, <2>3, <2>4, <2>5, <2>6, LevelOfShadow
    <2> QED BY <1>2, <2>2, <2>7 DEF Dispatched
  <1>12. /\ IsFiniteSet(L) /\ Cardinality(L) \in Nat
         /\ Cardinality(Levels(b)) <= MaxLevels /\ Cardinality(Levels(b)) \in Nat
    <2>1. PICK d \in delivered : r \in Content(d)
      BY <1>2
    <2>2. d \in snapshots
      BY DEF FeedInv, NetInv
    <2>3. mktSeq \in Nat /\ last[k] \in Nat
      BY DEF FeedInv, PubInv, PubTypeOK
    <2>4. 0 \in 0 .. mktSeq /\ 0 \in 0 .. last[k]
      BY <2>3
    <2> QED BY <1>1, <1>4, <1>7, <2>2, <2>4, AlphabetOfSnapshots DEF FeedInv
  <1>13. Cardinality(Levels(b)) = Cardinality(L) + 1
    BY <1>8, <1>11, <1>12, FS_AddElement
  <1>14. t.received = Cardinality(Levels(t.book)) /\ s.received < MaxLevels
    <2>1. MaxLevels \in Nat
      BY ShardAssumption
    <2> QED BY <1>6, <1>9, <1>12, <1>13, <2>1
  <1>15. ASSUME NEW x \in Levels(b) PROVE Dispatched(LevelRec(s.id, b, x))'
    <2>1. CASE x = l
      <3>1. LevelRec(s.id, b, x) = r
        BY <1>2, <1>7, <2>1
      <3>2. PICK q : q = LevelRec(s.id, b, x)
        OBVIOUS
      <3> QED BY <1>2, <3>1, <3>2 DEF Dispatched
    <2>2. CASE x # l
      <3>1. x \in L /\ x \in Side \X Price
        BY <1>8, <2>2 DEF Levels
      <3>2. LevelRec(s.id, b, x) = LevelRec(s.id, s.book, x)
        BY <1>7, <2>2, <3>1 DEF LevelRec
      <3>3. PICK q : q = LevelRec(s.id, b, x)
        OBVIOUS
      <3>4. Dispatched(q)'
        BY <1>9, <3>1, <3>2, <3>3, TakingHead
      <3> QED BY <3>3, <3>4 DEF Dispatched
    <2> QED BY <2>1, <2>2
  <1> QED BY <1>6, <1>14, <1>15

(* snapshot_level.                                                         *)
LEMMA DispatchLevelFeed ==
    ASSUME FeedInv, NEW r, Taking(r), r.type = "snapshot_level", DispatchSnapshotLevel(r)
    PROVE  FeedInv' /\ (WholeInv => [ShardNext]_shardVars /\ WholeInv')
  <1>1. /\ UNCHANGED <<group, bookGen, seenGen, toldGen>> /\ UNCHANGED pubVars
        /\ <<r.side, r.price>> \in Side \X Price /\ r.qty \in Qty /\ r.id \in GroupIds
    BY TakingHead, LevelSent DEF DispatchSnapshotLevel
  <1>2. CASE UNCHANGED shardVars
    <2>1. IndInv' /\ UNCHANGED <<instruments, deltaBuf, held, replay>>
      BY <1>2, StutterOK DEF FeedInv, shardVars
    <2>2. PICK S : S = Carried
      OBVIOUS
    <2>3. CarriedIn(S)'
      BY <2>1, <2>2, NetTypes DEF CarriedIn, BufferedIn, WindowIn, LoopsIn
    <2>4. CarriedIn(Carried)'
      BY <1>1, <2>2, <2>3, FrozenCarried
    <2>5. \A k \in Inst : ShadowsOK(k)' /\ DiscardOK(k)' /\ (BookOK(k) => BookOK(k)')
      BY <1>1, <2>1, UntouchedFeed
    <2>6. FeedInv'
      BY <1>1, <2>1, <2>4, <2>5, NetTypes, TakingFeed
    <2>7. \A k \in Inst : ContentOK(k) => ContentOK(k)'
      BY <2>1, TakingHead, ContentKept
    <2> QED BY <1>2, <2>5, <2>6, <2>7 DEF WholeInv
  <1>3. ASSUME NEW k \in Inst, ApplySnapshotLevel(k, r.id, r.side, r.price, r.qty)
        PROVE  FeedInv' /\ (WholeInv => [ShardNext]_shardVars /\ WholeInv')
    <2>1. PICK i : i = instruments[k]
      OBVIOUS
    <2>2. PICK add : add = [s \in i.OpenSnapshot |->
             IF s.id = r.id THEN WithLevel(s, r) ELSE s]
      OBVIOUS
    <2>3. PICK sh : sh = {add[s] : s \in i.OpenSnapshot}
      OBVIOUS
    <2>4. /\ instruments' = [instruments EXCEPT ![k] = [i EXCEPT !.OpenSnapshot = sh]]
          /\ UNCHANGED <<deltaBuf, held, replay>> /\ Idle
          /\ UNCHANGED <<known, refdata, bufferVars, crossVars, loopVars>>
      BY <1>3, <2>1, <2>2, <2>3
         DEF ApplySnapshotLevel, AddSnapshotLevel, WithLevel, bufferVars, loopVars
    <2>5. /\ i \in Instrument /\ i.OpenSnapshot \subseteq PendingSnapshot
          /\ instruments'[k] = [instruments[k] EXCEPT !.OpenSnapshot = sh]
          /\ instruments'[k].OpenSnapshot = sh
          /\ instruments'[k].Pending = instruments[k].Pending
          /\ \A l \in Inst : l # k => instruments'[l] = instruments[l]
      BY <2>1, <2>4, NetTypes, InstrumentType DEF Instrument
    <2>6. IndInv'
      <3>1. PICK l : l = <<r.side, r.price>>
        OBVIOUS
      <3>2. l \in Side \X Price /\ l[1] = r.side /\ l[2] = r.price
        BY <1>1, <3>1
      <3>3. ApplySnapshotLevel(k, r.id, l[1], l[2], r.qty)
        BY <1>3, <3>2
      <3> QED BY <1>1, <3>2, <3>3, SnapshotLevelOK DEF FeedInv
    <2>7. CarriedIn(Carried)'
      <3>1. PICK S : S = Carried
        OBVIOUS
      <3>2. \A l \in Inst : instruments'[l].Pending = instruments[l].Pending
        BY <2>5
      <3>3. CarriedIn(S)'
        BY <2>4, <3>1, <3>2, NetTypes DEF CarriedIn, BufferedIn, WindowIn, LoopsIn
      <3> QED BY <1>1, <3>1, <3>3, FrozenCarried
    <2>8. OneShadow(i.OpenSnapshot) /\ \A s \in i.OpenSnapshot : Opened(k, s)
      BY <2>1 DEF FeedInv, ShadowsOK
    <2>9. \A s \in i.OpenSnapshot :
             /\ add[s].id = s.id /\ add[s].anchor = s.anchor
             /\ add[s].last = s.last /\ add[s].total = s.total
             /\ s.id # r.id => add[s] = s
      <3> SUFFICES ASSUME NEW s \in i.OpenSnapshot
                   PROVE  /\ add[s].id = s.id /\ add[s].anchor = s.anchor
                          /\ add[s].last = s.last /\ add[s].total = s.total
                          /\ s.id # r.id => add[s] = s
        OBVIOUS
      <3>1. s \in PendingSnapshot
        BY <2>5
      <3>2. add[s] = IF s.id = r.id THEN WithLevel(s, r) ELSE s
        BY <2>2
      <3>3. CASE s.id = r.id
        <4>1. PICK t : t = WithLevel(s, r)
          OBVIOUS
        <4>2. t.id = s.id /\ t.anchor = s.anchor /\ t.last = s.last /\ t.total = s.total
          BY <3>1, <4>1, WithLevelKeeps
        <4>3. add[s] = t
          BY <3>2, <3>3, <4>1
        <4> QED BY <3>3, <4>2, <4>3
      <3>4. CASE s.id # r.id
        BY <3>2, <3>4
      <3> QED BY <3>3, <3>4
    <2>10. OneShadow(sh) /\ \A s \in sh : Opened(k, s)
      BY <2>3, <2>8, <2>9 DEF OneShadow, Opened, ShadowOf
    <2>11. \A a \in Nat : Required(k, instruments[k], bookGen[k], a)
               => \A s \in sh : s.anchor >= a
      BY <2>1, <2>3, <2>9 DEF Required
    <2>12. ShadowsOK(k)' /\ DiscardOK(k)' /\ (BookOK(k) => BookOK(k)')
      BY <1>1, <2>5, <2>10, <2>11, ShadowStepFeed
    <2>13. ASSUME NEW l \in Inst, l # k
           PROVE  ShadowsOK(l)' /\ DiscardOK(l)' /\ (BookOK(l) => BookOK(l)')
      BY <1>1, <2>5, <2>13, UntouchedFeed
    <2>14. FeedInv'
      BY <1>1, <2>6, <2>7, <2>12, <2>13, NetTypes, TakingFeed
    <2>15. ASSUME NEW l \in Inst, ContentOK(l) PROVE ContentOK(l)'
      <3>1. CASE l = k
        <4> SUFFICES ASSUME NEW t \in sh
                     PROVE  /\ t.received = Cardinality(Levels(t.book))
                            /\ \A x \in Levels(t.book) : Dispatched(LevelRec(t.id, t.book, x))'
          BY <2>5, <3>1 DEF ContentOK
        <4>1. PICK s \in i.OpenSnapshot : t = add[s]
          BY <2>3
        <4>2. CASE s.id = r.id
          <5>1. ContentOK(k) /\ s \in instruments[k].OpenSnapshot
            BY <2>1, <2>15, <3>1
          <5>2. t = WithLevel(s, r)
            BY <2>2, <4>1, <4>2
          <5>3. /\ t.received = Cardinality(Levels(t.book))
                /\ \A x \in Levels(t.book) : Dispatched(LevelRec(t.id, t.book, x))'
            BY <4>2, <5>1, <5>2, LevelAdded
          <5> QED BY <5>3
        <4>3. CASE s.id # r.id
          <5>1. t = s
            BY <2>9, <4>1, <4>3
          <5>2. /\ t.received = Cardinality(Levels(t.book))
                /\ \A x \in Levels(t.book) : Dispatched(LevelRec(t.id, t.book, x))
            BY <2>1, <2>15, <3>1, <5>1 DEF ContentOK
          <5>3. ASSUME NEW x \in Levels(t.book)
                PROVE  Dispatched(LevelRec(t.id, t.book, x))'
            <6>1. PICK q : q = LevelRec(t.id, t.book, x)
              OBVIOUS
            <6>2. Dispatched(q)'
              BY <5>2, <6>1, TakingHead
            <6> QED BY <6>1, <6>2 DEF Dispatched
          <5> QED BY <5>2, <5>3
        <4> QED BY <4>2, <4>3
      <3>2. CASE l # k
        BY <2>5, <2>15, <3>2, TakingHead, ContentKept
      <3> QED BY <3>1, <3>2
    <2>16. ASSUME WholeInv PROVE [ShardNext]_shardVars
      <3>1. CASE \A s \in i.OpenSnapshot : s.received < MaxLevels
        <4>1. PICK l : l = <<r.side, r.price>>
          OBVIOUS
        <4>2. l \in Side \X Price /\ l[1] = r.side /\ l[2] = r.price
          BY <1>1, <4>1
        <4> QED BY <1>1, <1>3, <2>1, <3>1, <4>2 DEF ShardNext
      <3>2. CASE \E s \in i.OpenSnapshot : ~(s.received < MaxLevels)
        <4>1. PICK s \in i.OpenSnapshot : ~(s.received < MaxLevels)
          BY <3>2
        <4>2. s.id # r.id
          <5>1. PICK t : t = WithLevel(s, r)
            OBVIOUS
          <5>2. ContentOK(k) /\ s \in instruments[k].OpenSnapshot
            BY <2>1, <2>16, <4>1 DEF WholeInv
          <5> QED BY <4>1, <5>1, <5>2, LevelAdded
        <4>3. sh = i.OpenSnapshot
          <5>1. i.OpenSnapshot = {s}
            BY <2>8, <4>1 DEF OneShadow
          <5>2. add[s] = s
            BY <2>9, <4>1, <4>2
          <5> QED BY <2>3, <5>1, <5>2
        <4>4. [i EXCEPT !.OpenSnapshot = sh] = i
          BY <2>5, <4>3 DEF Instrument
        <4>5. instruments' = instruments
          BY <2>1, <2>4, <4>4, NetTypes
        <4> QED BY <2>4, <4>5 DEF shardVars, bufferVars, crossVars, loopVars
      <3> QED BY <3>1, <3>2
    <2> QED BY <2>12, <2>13, <2>14, <2>15, <2>16 DEF WholeInv
  <1>4. ASSUME NEW g \in group, ApplySnapshotLevel(g.inst, r.id, r.side, r.price, r.qty)
        PROVE  FeedInv' /\ (WholeInv => [ShardNext]_shardVars /\ WholeInv')
    BY <1>3, <1>4, NetTypes
  <1> QED BY <1>2, <1>4 DEF DispatchSnapshotLevel

(* A shadow that received as many levels as its begin declared holds the   *)
(* book its snapshot was captured from.                                    *)
LEMMA WholeShadow ==
    ASSUME FeedInv, NEW k \in Inst, ContentOK(k),
           NEW s \in instruments[k].OpenSnapshot, s.received = s.total,
           NEW n \in 0 .. last[k], NEW g \in 0 .. gen[k], ShadowOf(k, s, n, g)
    PROVE  s.book = truth[k][g][n]
  <1>1. PICK T : T = truth[k][g][n]
    OBVIOUS
  <1>2. T \in Book
    <2>1. gen[k] \in 0 .. MaxResets /\ last[k] \in 0 .. MaxDeltas
          /\ MaxResets \in Nat /\ MaxDeltas \in Nat
      BY PublisherAssumption DEF FeedInv, PubInv, PubTypeOK, Generations
    <2>2. g \in 0 .. MaxResets /\ n \in 0 .. MaxDeltas
      BY <2>1
    <2>3. truth[k] \in [0 .. MaxResets -> [0 .. MaxDeltas -> Book]]
      BY DEF FeedInv, PubInv, PubTypeOK, Generations
    <2>4. truth[k][g] \in [0 .. MaxDeltas -> Book]
      BY <2>2, <2>3
    <2> QED BY <1>1, <2>2, <2>4
  <1>3. s.book \in Book
    BY NetTypes, InstrumentType DEF PendingSnapshot
  <1>4. /\ Cardinality(Levels(s.book)) = Cardinality(Levels(T))
        /\ \A l \in Levels(s.book) : Dispatched(LevelRec(s.id, s.book, l))
    BY <1>1 DEF ContentOK, ShadowOf
  <1>5. ASSUME NEW l \in Levels(s.book)
        PROVE  l \in Levels(T) /\ s.book[l] = T[l]
    <2>1. PICK q : q = LevelRec(s.id, s.book, l)
      OBVIOUS
    <2>2. PICK e \in delivered : q \in Content(e)
      BY <1>4, <2>1 DEF Dispatched
    <2>3. e \in snapshots
      BY DEF FeedInv, NetInv
    <2>4. l \in Side \X Price /\ s.book[l] # 0
      BY DEF Levels
    <2>5. /\ q.id = s.id /\ q.qty = s.book[l] /\ l = <<q.side, q.price>>
          /\ q.type = "snapshot_level"
      BY <2>1, <2>4, LevelParts
    <2>6. e.id = s.id
      BY <2>2, <2>3, <2>5, ContentId DEF FeedInv, TruthInv
    <2>7. q \in GroupRecs(k, s.id, s.anchor, n, T)
      BY <1>1, <2>2, <2>3, <2>6 DEF ShadowOf, CapturedAs
    <2>8. PICK m \in Levels(T) : q = LevelRec(s.id, T, m)
      BY <2>5, <2>7, GroupRecsTypes
    <2>9. m \in Side \X Price
      BY <2>8 DEF Levels
    <2>10. m = <<q.side, q.price>> /\ q.qty = T[m]
      BY <2>8, <2>9, LevelParts
    <2> QED BY <2>5, <2>8, <2>10
  <1>6. Levels(s.book) = Levels(T)
    <2>1. IsFiniteSet(Levels(T))
      <3>1. PICK d \in snapshots : d.id = s.id
        BY DEF ShadowOf
      <3>2. mktSeq \in Nat /\ last[k] \in Nat
        BY DEF FeedInv, PubInv, PubTypeOK
      <3>3. 0 \in 0 .. mktSeq /\ 0 \in 0 .. last[k]
        BY <3>2
      <3> QED BY <1>2, <3>1, <3>3, AlphabetOfSnapshots DEF FeedInv
    <2>2. Levels(s.book) \subseteq Levels(T)
      BY <1>5
    <2> QED BY <1>4, <2>1, <2>2, FS_Subset
  <1>7. \A l \in Side \X Price : s.book[l] = T[l]
    <2>1. \A l \in Side \X Price : l \notin Levels(T) => T[l] = 0 /\ s.book[l] = 0
      BY <1>6 DEF Levels
    <2> QED BY <1>5, <1>6, <2>1
  <1> QED BY <1>1, <1>2, <1>3, <1>7 DEF Book

(* EndSnapshot commits: the book is the publisher's, and if a reset is to  *)
(* be answered, the snapshot reaches its anchor.                           *)
LEMMA CommitFeed ==
    ASSUME FeedInv, UNCHANGED pubVars, NEW k \in Inst, NEW id, NEW anchor,
           NEW s \in instruments[k].OpenSnapshot, Committable(instruments[k], s, id, anchor),
           instruments'[k] = CommitSnapshot(instruments[k], s),
           bookGen'[k] = GenOf(id), seenGen'[k] = seenGen[k]
    PROVE  /\ ShadowsOK(k)' /\ DiscardOK(k)' /\ (ContentOK(k) => BookOK(k)')
           /\ instruments'[k].OpenSnapshot = {} /\ instruments'[k].Pending = {}
           /\ GenOf(id) \in Nat
  <1>1. PICK i, j : i = instruments[k] /\ j = instruments'[k]
    OBVIOUS
  <1>2. i \in Instrument /\ s.id = id /\ s.received = s.total
    BY <1>1, NetTypes DEF Committable
  <1>3. /\ j.Status = "ready" /\ j.Book = s.book /\ j.LastAppliedInstrumentSeq = s.last
        /\ j.OpenSnapshot = {} /\ j.Pending = {}
    BY <1>1, <1>2 DEF CommitSnapshot, Instrument
  <1>4. PICK n \in 0 .. last[k], g \in 0 .. gen[k] : ShadowOf(k, s, n, g)
    BY DEF FeedInv, ShadowsOK, Opened
  <1>5. GenOf(id) = g
    <2>1. \E d \in snapshots : d.id = id
      BY <1>2, <1>4 DEF ShadowOf
    <2>2. \A d \in snapshots : d.id = id => d.gen = g
      BY <1>2, <1>4 DEF ShadowOf, CapturedAs
    <2> QED BY <2>1, <2>2 DEF GenOf
  <1>6. gen[k] \in Nat /\ g \in Nat /\ last[k] \in Nat /\ n \in Nat
    <2>1. gen[k] \in Nat /\ last[k] \in Nat
      BY PublisherAssumption DEF FeedInv, PubInv, PubTypeOK, Generations
    <2> QED BY <2>1
  <1>7. ShadowsOK(k)'
    BY <1>1, <1>3, ShadowsIntro DEF OneShadow
  <1>8. s.last = n
    BY <1>4 DEF ShadowOf
  <1>9. DiscardOK(k)'
    <2>1. PICK sg : sg = seenGen[k]
      OBVIOUS
    <2>2. CASE sg = 0
      BY <2>1, <2>2 DEF DiscardOK
    <2>3. CASE sg # 0
      <3>1. PICK a \in Nat : ResetAt(k, sg, a) /\ Required(k, i, bookGen[k], a)
        BY <1>1, <2>1, <2>3 DEF FeedInv, DiscardOK
      <3>2. s.anchor >= a
        BY <1>1, <3>1 DEF Required
      <3>3. PICK T : T = truth[k][g][n]
        OBVIOUS
      <3>4. PICK d \in snapshots :
               d.id = s.id /\ BeginRec(k, s.id, s.anchor, n, T) \in Content(d)
        BY <1>4, <3>3 DEF ShadowOf
      <3>5. d.gen = g
        BY <1>4, <3>4 DEF ShadowOf, CapturedAs
      <3>6. StartsAt(k, g, n, a)
        <4>1. PICK b : b = BeginRec(k, s.id, s.anchor, n, T)
          OBVIOUS
        <4>2. /\ b \in Content(d) /\ b.type = "snapshot_begin" /\ b.inst = k
              /\ b.last = n /\ b.anchor = s.anchor
          BY <3>4, <4>1 DEF BeginRec
        <4>3. b.last <= n
          BY <1>6, <4>2
        <4> QED BY <3>2, <3>5, <4>2, <4>3 DEF StartsAt
      <3>7. Required(k, j, g, a)
        BY <1>3, <1>8, <3>6 DEF Required
      <3> QED BY <1>1, <1>5, <2>1, <3>1, <3>7, DiscardIntro
    <2> QED BY <2>2, <2>3
  <1>10. ASSUME ContentOK(k) PROVE BookOK(k)'
    <2>1. s.book = truth[k][g][n]
      BY <1>2, <1>4, <1>10, WholeShadow
    <2>2. Follows(k, g, n)
      BY <1>4 DEF ShadowOf, CapturedAs
    <2>3. Truthful(k, j, g)
      BY <1>3, <1>8, <2>1, <2>2 DEF Truthful
    <2> QED BY <1>1, <1>5, <2>3, BookIntro
  <1> QED BY <1>1, <1>3, <1>5, <1>6, <1>7, <1>9, <1>10

(* snapshot_end.                                                           *)
LEMMA DispatchEndFeed ==
    ASSUME FeedInv, NEW r, Taking(r), r.type = "snapshot_end", DispatchSnapshotEnd(r)
    PROVE  FeedInv' /\ ShardNext /\ (WholeInv => WholeInv')
  <1>1. PICK d \in snapshots : \E k \in Inst :
           \E anchor \in 0 .. mktSeq, n \in 0 .. last[k], g \in 0 .. gen[k] :
              Told(r, d, k, anchor, n, g)
    BY TakingHead, SnapshotSent DEF FeedInv
  <1>2. PICK k \in Inst : \E anchor \in 0 .. mktSeq, n \in 0 .. last[k], g \in 0 .. gen[k] :
           Told(r, d, k, anchor, n, g)
    BY <1>1
  <1>3. PICK anchor \in 0 .. mktSeq, n \in 0 .. last[k], g \in 0 .. gen[k] :
           Told(r, d, k, anchor, n, g)
    BY <1>2
  <1>4. r = EndRec(k, d.id, anchor) /\ truth[k][g][n] \in Book
    BY <1>3, GroupRecsTypes DEF Told
  <1>5. PICK id : id = r.id
    OBVIOUS
  <1>6. /\ r.inst = k /\ r.anchor = anchor /\ id \in GroupIds /\ anchor \in GroupAnchors
    BY <1>4, <1>5, AlphabetOfSnapshots DEF FeedInv, EndRec
  <1>7. PICK i : i = instruments[k]
    OBVIOUS
  <1>8. /\ ApplySnapshotEnd(k, id, anchor) /\ group' = {} /\ UNCHANGED <<seenGen, toldGen>>
        /\ bookGen' = IF \E s \in i.OpenSnapshot : Committable(i, s, id, anchor)
                      THEN [bookGen EXCEPT ![k] = GenOf(id)] ELSE bookGen
    BY <1>5, <1>6, <1>7 DEF DispatchSnapshotEnd
  <1>9. IndInv' /\ ShardNext
    BY <1>6, <1>8, SnapshotEndOK DEF FeedInv, ShardNext
  <1>10. UNCHANGED pubVars
    BY TakingHead
  <1>11. PICK S : S = Carried
    OBVIOUS
  <1>12. BufferedIn(S) /\ WindowIn(S) /\ LoopsIn(S)
    BY <1>11, NetTypes DEF CarriedIn
  <1>13. i \in Instrument /\ OneShadow(i.OpenSnapshot)
    BY <1>7, NetTypes DEF FeedInv, ShadowsOK
  <1> DEFINE Done == /\ CarriedIn(S)' /\ bookGen' \in [Inst -> Nat]
                     /\ \A l \in Inst : l # k => /\ instruments'[l] = instruments[l]
                                                 /\ bookGen'[l] = bookGen[l]
                     /\ ShadowsOK(k)' /\ DiscardOK(k)'
                     /\ BookOK(k) /\ ContentOK(k) => BookOK(k)' /\ ContentOK(k)'
  <1>14. ASSUME i.OpenSnapshot = {} /\ UNCHANGED shardVars
         PROVE  Done
    <2>1. UNCHANGED <<instruments, deltaBuf, held, replay>> /\ bookGen' = bookGen
      BY <1>8, <1>14 DEF shardVars
    <2>2. CarriedIn(S)'
      BY <1>12, <2>1 DEF CarriedIn, BufferedIn, WindowIn, LoopsIn
    <2>3. ShadowsOK(k)' /\ DiscardOK(k)' /\ (BookOK(k) => BookOK(k)')
      BY <1>8, <1>10, <2>1, UntouchedFeed
    <2>4. ContentOK(k)'
      BY <1>7, <1>14, <2>1 DEF ContentOK
    <2> QED BY <2>1, <2>2, <2>3, <2>4, NetTypes
  <1>15. ASSUME \E s \in i.OpenSnapshot :
                   /\ ~Committable(i, s, id, anchor)
                   /\ instruments' = [instruments EXCEPT ![k].OpenSnapshot = {}]
                   /\ UNCHANGED <<known, refdata, bufferVars, crossVars, loopVars>>
         PROVE  Done
    <2>1. /\ instruments' = [instruments EXCEPT ![k] = [i EXCEPT !.OpenSnapshot = {}]]
          /\ UNCHANGED <<deltaBuf, held, replay>> /\ bookGen' = bookGen
      BY <1>7, <1>8, <1>13, <1>15 DEF bufferVars, loopVars, OneShadow
    <2>2. PICK sh : sh = {}
      OBVIOUS
    <2>3. /\ instruments'[k] = [instruments[k] EXCEPT !.OpenSnapshot = sh]
          /\ instruments'[k].OpenSnapshot = {}
          /\ instruments'[k].Pending = instruments[k].Pending
          /\ \A l \in Inst : l # k => instruments'[l] = instruments[l]
      BY <1>7, <2>1, <2>2, NetTypes DEF Instrument
    <2>4. CarriedIn(S)'
      BY <1>12, <2>1, <2>3 DEF CarriedIn, BufferedIn, WindowIn, LoopsIn
    <2>5. ShadowsOK(k)' /\ DiscardOK(k)' /\ (BookOK(k) => BookOK(k)')
      BY <1>8, <1>10, <2>1, <2>2, <2>3, ShadowStepFeed DEF OneShadow
    <2>6. ContentOK(k)'
      BY <2>3 DEF ContentOK
    <2> QED BY <2>1, <2>3, <2>4, <2>5, <2>6, NetTypes
  <1>16. ASSUME \E s \in i.OpenSnapshot :
                   /\ Committable(i, s, id, anchor)
                   /\ instruments' = [instruments EXCEPT ![k] = CommitSnapshot(i, s)]
                   /\ deltaBuf' = [deltaBuf EXCEPT ![k] = <<>>]
                   /\ bufferedN' = bufferedN - Len(deltaBuf[k])
                   /\ Loop(k, {}, FALSE, deltaBuf[k], TRUE)
                   /\ UNCHANGED <<known, refdata, crossVars>>
         PROVE  Done
    <2>1. PICK s \in i.OpenSnapshot :
                 /\ Committable(i, s, id, anchor)
                 /\ instruments' = [instruments EXCEPT ![k] = CommitSnapshot(i, s)]
                 /\ deltaBuf' = [deltaBuf EXCEPT ![k] = <<>>]
                 /\ held' = {} /\ replay' = deltaBuf[k]
      BY <1>16 DEF Loop
    <2>2. bookGen' = [bookGen EXCEPT ![k] = GenOf(id)]
      BY <1>8, <2>1
    <2>3. /\ instruments'[k] = CommitSnapshot(instruments[k], s)
          /\ bookGen'[k] = GenOf(id) /\ seenGen'[k] = seenGen[k]
          /\ \A l \in Inst : l # k => /\ instruments'[l] = instruments[l]
                                      /\ bookGen'[l] = bookGen[l]
      BY <1>7, <1>8, <2>1, <2>2, NetTypes
    <2>4. /\ ShadowsOK(k)' /\ DiscardOK(k)' /\ (ContentOK(k) => BookOK(k)')
          /\ instruments'[k].OpenSnapshot = {} /\ instruments'[k].Pending = {}
          /\ GenOf(id) \in Nat
      BY <1>7, <1>10, <2>1, <2>3, CommitFeed
    <2>5. ContentOK(k)'
      BY <2>4 DEF ContentOK
    <2>6. BufferedIn(S)'
      <3> SUFFICES ASSUME NEW l \in Inst, NEW m \in 1 .. Len(deltaBuf'[l])
                   PROVE  deltaBuf'[l][m] \in S
        BY DEF BufferedIn
      <3>1. l # k
        <4>1. Len(<<>>) = 0
          OBVIOUS
        <4> QED BY <2>1, <4>1, NetTypes
      <3> QED BY <1>12, <2>1, <3>1, NetTypes DEF BufferedIn
    <2>7. WindowIn(S)'
      BY <1>12, <2>3, <2>4 DEF WindowIn
    <2>8. LoopsIn(S)'
      BY <1>12, <2>1 DEF LoopsIn, BufferedIn
    <2>9. bookGen' \in [Inst -> Nat]
      BY <2>2, <2>4, NetTypes
    <2> QED BY <2>3, <2>4, <2>5, <2>6, <2>7, <2>8, <2>9 DEF CarriedIn
  <1>17. Done
    <2> HIDE DEF Done
    <2> QED BY <1>7, <1>8, <1>14, <1>15, <1>16 DEF ApplySnapshotEnd
  <1>18. ASSUME NEW l \in Inst, l # k
         PROVE  /\ ShadowsOK(l)' /\ DiscardOK(l)' /\ (BookOK(l) => BookOK(l)')
                /\ (ContentOK(l) => ContentOK(l)')
    <2>1. /\ instruments'[l] = instruments[l] /\ bookGen'[l] = bookGen[l]
          /\ seenGen'[l] = seenGen[l]
      BY <1>8, <1>17, <1>18
    <2> QED BY <1>10, <2>1, UntouchedFeed, TakingHead, ContentKept
  <1>19. FeedInv'
    <2>1. CarriedIn(Carried)'
      BY <1>10, <1>11, <1>17, FrozenCarried
    <2>2. \A x \in group' : x.inst \in Inst
      BY <1>8
    <2>3. bookGen' \in [Inst -> Nat] /\ \A l \in Inst : ShadowsOK(l)' /\ DiscardOK(l)'
      BY <1>17, <1>18
    <2> QED BY <1>8, <1>9, <2>1, <2>2, <2>3, NetTypes, TakingFeed
  <1> QED BY <1>9, <1>17, <1>18, <1>19 DEF WholeInv

-----------------------------------------------------------------------------
(* The invariants hold.                                                    *)

LEMMA FeedInitInv ==
    ASSUME FeedInit
    PROVE  FeedInv /\ WholeInv
  <1>1. /\ ShardInit /\ PubInit /\ inbox = <<>> /\ group = {} /\ delivered = {}
        /\ bookGen = [k \in Inst |-> 0] /\ seenGen = [k \in Inst |-> 0]
        /\ toldGen = [k \in Inst |-> 0]
    BY DEF FeedInit
  <1>2. IndInv /\ PubInv /\ TruthInv
    BY <1>1, IndInvInit, PubInitInv, TruthInit
  <1>3. Len(<<>>) = 0 /\ DOMAIN <<>> = {}
    OBVIOUS
  <1>4. \A k \in Inst : /\ instruments[k].OpenSnapshot = {}
                        /\ instruments[k].Pending = {}
                        /\ instruments[k].Status = "awaiting"
                        /\ deltaBuf[k] = <<>> /\ seenGen[k] = 0
    BY <1>1 DEF ShardInit, NewInstrument
  <1>5. CarriedIn(Carried)
    <2>1. held = {} /\ replay = <<>>
      BY <1>1 DEF ShardInit
    <2> QED BY <1>3, <1>4, <2>1 DEF CarriedIn, BufferedIn, WindowIn, LoopsIn
  <1>6. InboxOK
    BY <1>1, <1>3 DEF InboxOK, InboxRecs
  <1>7. NetInv
    BY <1>1, <1>5, <1>6 DEF NetInv
  <1>8. \A k \in Inst : ShadowsOK(k) /\ DiscardOK(k)
    BY <1>4 DEF ShadowsOK, OneShadow, DiscardOK
  <1>9. \A k \in Inst : BookOK(k) /\ ContentOK(k)
    BY <1>4 DEF BookOK, ContentOK
  <1> QED BY <1>2, <1>7, <1>8, <1>9 DEF FeedInv, WholeInv

LEMMA FeedStutter ==
    ASSUME FeedInv, UNCHANGED feedVars
    PROVE  FeedInv' /\ (WholeInv => WholeInv')
  <1>1. /\ UNCHANGED shardVars /\ UNCHANGED pubVars /\ UNCHANGED instruments
        /\ UNCHANGED <<inbox, group, delivered, bookGen, seenGen, toldGen>>
    BY DEF feedVars, netVars, shardVars
  <1>2. IndInv'
    BY <1>1, StutterOK DEF FeedInv
  <1>3. InboxOK'
    BY <1>1 DEF FeedInv, NetInv, InboxOK, InboxRecs, Records, Content, pubVars
  <1>4. CarriedIn(Carried)'
    <2>1. Carried' = Carried
      BY <1>1 DEF pubVars, Carried, Deltas, Records
    <2> QED BY <1>1, <2>1, CarriedLater DEF FeedInv, NetInv
  <1>5. NetInv'
    BY <1>1, <1>3, <1>4 DEF FeedInv, NetInv, pubVars
  <1>6. \A k \in Inst : ShadowsOK(k)' /\ DiscardOK(k)' /\ (BookOK(k) => BookOK(k)')
    BY <1>1, UntouchedFeed
  <1>7. \A r : Dispatched(r) => Dispatched(r)'
    BY <1>1 DEF Dispatched, InboxRecs, Content
  <1>8. \A k \in Inst : ContentOK(k) => ContentOK(k)'
    BY <1>1, <1>7, ContentKept
  <1>9. FeedInv'
    BY <1>1, <1>2, <1>5, <1>6, FrozenSteps
  <1> QED BY <1>6, <1>8, <1>9 DEF WholeInv

LEMMA DispatchFeed ==
    ASSUME FeedInv, Dispatch
    PROVE  FeedInv' /\ (WholeInv => [ShardNext]_shardVars /\ WholeInv')
  <1>1. PICK r : r = Head(inbox)
    OBVIOUS
  <1>2. Taking(r)
    BY <1>1 DEF Dispatch, Taking
  <1>3. \/ r.type = "delta" /\ DispatchDelta(r)
        \/ r.type = "instrument_reset" /\ DispatchReset(r)
        \/ r.type = "snapshot_begin" /\ DispatchSnapshotBegin(r)
        \/ r.type = "snapshot_level" /\ DispatchSnapshotLevel(r)
        \/ r.type = "snapshot_end" /\ DispatchSnapshotEnd(r)
    BY <1>1 DEF Dispatch
  <1> QED BY <1>2, <1>3, DispatchDeltaFeed, DispatchResetFeed, DispatchBeginFeed,
             DispatchLevelFeed, DispatchEndFeed

(* Every step of the feed keeps the invariant; without repeated snapshots  *)
(* the rest with it, and the shard takes one of its own steps or none.     *)
LEMMA FeedStep ==
    ASSUME FeedInv, [FeedNext]_feedVars
    PROVE  /\ FeedInv'
           /\ WholeInv /\ ~DuplicateSnapshots => [ShardNext]_shardVars /\ WholeInv'
  <1>1. CASE UNCHANGED feedVars
    BY <1>1, FeedStutter DEF feedVars
  <1>2. CASE Publish
    BY <1>2, PublishFeed DEF Publish
  <1>3. CASE DeliverMktdata
    <2>1. UNCHANGED shardVars
      BY <1>3 DEF DeliverMktdata, Deliver
    <2> QED BY <1>3, <2>1, DeliverMktdataFeed
  <1>4. CASE DeliverSnapshot
    <2>1. UNCHANGED shardVars
      BY <1>4 DEF DeliverSnapshot, Deliver
    <2> QED BY <1>4, <2>1, DeliverSnapshotFeed
  <1>5. CASE Dispatch
    BY <1>5, DispatchFeed
  <1>6. CASE OnDisconnect
    <2>1. ShardNext
      BY <1>6 DEF OnDisconnect, ShardNext
    <2> QED BY <1>6, <2>1, DisconnectFeed
  <1>7. CASE HandlerStep /\ UNCHANGED <<pubVars, netVars>>
    <2>1. ShardNext
      BY <1>7 DEF ShardNext
    <2> QED BY <1>7, <2>1, HandlerFeed
  <1> QED BY <1>1, <1>2, <1>3, <1>4, <1>5, <1>6, <1>7 DEF FeedNext

LEMMA WholeGivesTruth ==
    ASSUME WholeInv
    PROVE  ReadyBookIsTruth
  BY DEF WholeInv, BookOK, Truthful, ReadyBookIsTruth, Ready

(* A snapshot of a discarded book that reaches the anchor of the reset is  *)
(* anchored at it (ResetBounds).                                           *)
LEMMA FeedInvGivesDiscarded ==
    ASSUME FeedInv
    PROVE  DiscardedOnlyAtAnchor
  <1> SUFFICES ASSUME NEW k \in Inst, Ready(k), bookGen[k] < seenGen[k]
               PROVE  SnapshotAnchors(k, bookGen[k]) \cap ResetAnchors(k, seenGen[k]) # {}
    BY DEF DiscardedOnlyAtAnchor
  <1>1. PICK bg, sg, n : bg = bookGen[k] /\ sg = seenGen[k]
                         /\ n = instruments[k].LastAppliedInstrumentSeq
    OBVIOUS
  <1>2. bg \in Nat /\ sg \in Nat /\ bg < sg /\ sg # 0
    BY <1>1 DEF FeedInv, NetInv
  <1>3. PICK anchor \in Nat : ResetAt(k, sg, anchor) /\ StartsAt(k, bg, n, anchor)
    BY <1>1, <1>2 DEF FeedInv, DiscardOK, Required, Ready
  <1>4. PICK e \in mktdata : \E r \in Content(e) :
           r.type = "instrument_reset" /\ r.inst = k /\ r.gen = sg /\ r.anchor = anchor
    BY <1>3 DEF ResetAt
  <1>5. PICK r \in Content(e) :
           r.type = "instrument_reset" /\ r.inst = k /\ r.gen = sg /\ r.anchor = anchor
    BY <1>4
  <1>6. PICK d \in snapshots : \E s \in Content(d) :
           s.type = "snapshot_begin" /\ s.inst = k /\ d.gen = bg /\ s.anchor >= anchor
    BY <1>3 DEF StartsAt
  <1>7. PICK s \in Content(d) :
           s.type = "snapshot_begin" /\ s.inst = k /\ d.gen = bg /\ s.anchor >= anchor
    BY <1>6
  <1>8. s.anchor = anchor
    <2>1. r \in Records({e}) /\ s \in Records({d})
      BY RecordsContent
    <2>2. s.anchor <= r.anchor
      BY <1>2, <1>5, <1>7, <2>1 DEF FeedInv, PubInv, ResetBounds
    <2>3. s.anchor \in Nat
      BY <1>7 DEF FeedInv, PubInv, SnapshotsInv
    <2> QED BY <1>3, <1>5, <1>7, <2>2, <2>3
  <1>9. r \in Records(mktdata)
    BY RecordsContent
  <1>10. s \in Records({x \in snapshots : x.gen = bg})
    <2>1. d \in {x \in snapshots : x.gen = bg}
      BY <1>7
    <2> QED BY <2>1, RecordsContent
  <1>11. anchor \in ResetAnchors(k, sg) /\ anchor \in SnapshotAnchors(k, bg)
    BY <1>5, <1>7, <1>8, <1>9, <1>10 DEF ResetAnchors, SnapshotAnchors
  <1> QED BY <1>1, <1>11

(* SnapshotAcceptable, under any delivery: once a reset was handled, the   *)
(* book it discarded comes back only through a snapshot that carries the   *)
(* anchor of that very reset, whatever is lost, reordered, repeated or cut *)
(* by a disconnect.                                                        *)
THEOREM FeedDiscardedOnlyAtAnchor == FeedSpec => []DiscardedOnlyAtAnchor
  <1>1. FeedInit => FeedInv
    BY FeedInitInv
  <1>2. FeedInv /\ [FeedNext]_feedVars => FeedInv'
    BY FeedStep
  <1>3. FeedInv => DiscardedOnlyAtAnchor
    BY FeedInvGivesDiscarded
  <1> QED BY <1>1, <1>2, <1>3, PTL DEF FeedSpec

(* Publisher, wire and book-builder together: as long as no snapshot       *)
(* datagram is repeated, a book the subscriber calls ready is the          *)
(* publisher's book at the number it was brought to, across every packing, *)
(* loss, reordering, repeated delta, eviction and disconnect.              *)
THEOREM FeedReadyBookIsTruth ==
    ASSUME ~DuplicateSnapshots
    PROVE  FeedSpec => []ReadyBookIsTruth
  <1>1. FeedInit => FeedInv /\ WholeInv
    BY FeedInitInv
  <1>2. (FeedInv /\ WholeInv) /\ [FeedNext]_feedVars => (FeedInv /\ WholeInv)'
    BY FeedStep
  <1>3. WholeInv => ReadyBookIsTruth
    BY WholeGivesTruth
  <1> QED BY <1>1, <1>2, <1>3, PTL DEF FeedSpec

(* Coordinator.Dispatch hands the shard only what Shard.apply may be given *)
(* on its own, one handler at a time: everything proved of ShardSpec holds *)
(* of the shard inside the feed.                                           *)
THEOREM FeedImplementsShard ==
    ASSUME ~DuplicateSnapshots
    PROVE  FeedSpec => ImplementsShard
  <1>1. FeedInit => FeedInv /\ WholeInv /\ ShardInit
    BY FeedInitInv DEF FeedInit
  <1>2. (FeedInv /\ WholeInv) /\ [FeedNext]_feedVars
           => (FeedInv /\ WholeInv)' /\ [ShardNext]_shardVars
    BY FeedStep
  <1> QED BY <1>1, <1>2, PTL DEF FeedSpec, ImplementsShard, ShardSpec
=============================================================================
