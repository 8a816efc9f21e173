-------------------------- MODULE InlineSpoolProofs ---------------------------
(***************************************************************************)
(* Proofs about the inline spool, for every number of windows and grains,  *)
(* every budget and every number of faults.                                *)
(*                                                                         *)
(* The inductive invariant follows a window from hand to hand: what is on  *)
(* the disk was stored before `next'; what the sink inserts has the grains *)
(* sent so far; what waits for its entry has every grain; what has an      *)
(* entry never loses it; what was given up is not on the disk; and what    *)
(* has landed is due again only behind a panic.                            *)
(***************************************************************************)
EXTENDS InlineSpool, Integers, SequenceTheorems, FiniteSetTheorems,
        WellFoundedInduction, TLAPS

(* The windows the derivation has dealt with.                              *)
Dealt(w) == w < next \/ (w = next /\ lock = "derive")

DiskInv ==
    /\ \A w \in Window : ~Dealt(w) => dir[w] = "absent"
    /\ lock = "derive" => next \in Window /\ dir[next] \in {"writing", "closed"}
    /\ \A w \in map \cup entered \cup lost \cup told \cup held \cup posting :
           w \in Window /\ w < next
    /\ \A w \in lost : dir[w] = "absent"

LedgerType == [lines : SUBSET Window, open : BOOLEAN, tail : SUBSET Window,
               loaded : SUBSET Window]

StageInv ==
    /\ ledger \in LedgerType /\ todo \in Seq(Window)
    /\ after \in {"take", "final", "idle"}
    /\ lock = "post" <=> pc \in {"record", "delete"}
    /\ pc = "down" => lock = "free" /\ inFlight = {} /\ owed = {} /\ ~forgotten
    /\ todo # <<>> => pc \in {"record", "delete"}
    /\ pc = "send" => held = {}
    /\ pc # "send" => posting = {}

EntryInv ==
    /\ \A w \in posting : \A g \in 1 .. grain - 1 : g \in store[w]
    /\ \A w \in ToSet(todo) : Whole(w) /\ w \notin inFlight
    /\ pc = "delete" => todo # <<>> /\ Head(todo) \in entered
    /\ Readable(ledger) \cup ledger.loaded \subseteq entered
    /\ \A w \in entered \cup owed : Whole(w)

(* What has landed and is still in the spool owes its entry or is about to *)
(* get it, or a panic interrupted that, once the spool is reconciled with  *)
(* the ledger; and before that the stage has taken nothing.                *)
DueInv ==
    /\ forgotten =>
           (told \cup ledger.loaded) \cap map \subseteq interrupted \cup owed \cup ToSet(todo)
    /\ ~forgotten => /\ held = {} /\ posting = {} /\ told = {} /\ todo = <<>>
                     /\ pc \in {"start", "forget", "down"}
    /\ (owed \cup ToSet(todo)) \cap (held \cup posting) = {}
    /\ NeverInsertedTwice

Kept == \A w \in 1 .. next - 1 : dir[w] # "absent" \/ w \in lost \/ Whole(w)

SpoolInv ==
    /\ SpoolTypeOK
    /\ DiskInv
    /\ StageInv
    /\ EntryInv
    /\ Kept
    /\ DueInv
-----------------------------------------------------------------------------
(* Every non-empty set of naturals has a least element, which is how the   *)
(* proofs argue by induction: from a least counterexample.                 *)
LEMMA LeastNatural ==
    ASSUME NEW T \in SUBSET Nat, T # {}
    PROVE  \E n \in T : \A m \in T : n <= m
  <1>1. PICK n \in T : \A m \in T : ~ (<<m, n>> \in OpToRel(<, Nat))
    BY NatLessThanWellFounded, WFMin
  <1>2. \A m \in T : ~ (m < n)
    BY <1>1 DEF OpToRel
  <1> QED BY <1>2

(* A finite set of naturals can be listed in ascending order: from a       *)
(* least counterexample, without its least element.                        *)
Ascends(s, S) ==
    /\ s \in [1 .. Cardinality(S) -> S]
    /\ \A i, j \in DOMAIN s : i < j => s[i] < s[j]

LEMMA AscentExists ==
    ASSUME NEW S \in SUBSET Nat, IsFiniteSet(S)
    PROVE  \E s : Ascends(s, S)
  <1> DEFINE Bad(n) == \E T \in SUBSET S : Cardinality(T) = n /\ ~ \E s : Ascends(s, T)
             B == {n \in Nat : Bad(n)}
  <1> SUFFICES ASSUME ~ \E s : Ascends(s, S) PROVE FALSE
    OBVIOUS
  <1>1. Cardinality(S) \in B
    BY FS_CardinalityType
  <1>2. PICK n \in B : \A m \in B : n <= m
    <2>1. B \in SUBSET Nat /\ B # {}
      BY <1>1
    <2> HIDE DEF B
    <2> QED BY <2>1, LeastNatural
  <1>3. PICK T \in SUBSET S : Cardinality(T) = n /\ ~ \E s : Ascends(s, T)
    BY <1>2
  <1>4. IsFiniteSet(T) /\ n \in Nat /\ T \subseteq Nat
    BY <1>2, FS_Subset
  <1>5. CASE T = {}
    <2>1. n = 0
      BY <1>3, <1>5, FS_EmptySet
    <2>2. Ascends(<<>>, T)
      <3>1. DOMAIN <<>> = {} /\ 1 .. Cardinality(T) = {}
        BY <1>3, <2>1
      <3> QED BY <3>1 DEF Ascends
    <2> QED BY <1>3, <2>2
  <1>6. CASE T # {}
    <2>1. PICK m \in T : \A x \in T : m <= x
      BY <1>4, <1>6, LeastNatural
    <2> DEFINE R == T \ {m}
    <2>2. Cardinality(R) = n - 1 /\ n - 1 \in Nat
      <3>1. Cardinality(R) = n - 1
        BY <1>3, <1>4, FS_RemoveElement
      <3>2. IsFiniteSet(R)
        BY <1>4, FS_RemoveElement
      <3> QED BY <3>1, <3>2, FS_CardinalityType
    <2>3. PICK s : Ascends(s, R)
      <3>1. n - 1 \notin B
        <4>1. ~(n <= n - 1)
          BY <1>4
        <4> QED BY <1>2, <4>1
      <3>2. R \in SUBSET S
        OBVIOUS
      <3> QED BY <2>2, <3>1, <3>2
    <2> DEFINE t == [i \in 1 .. n |-> IF i = 1 THEN m ELSE s[i - 1]]
    <2>4. \A i \in 1 .. n : i # 1 => i - 1 \in 1 .. n - 1
      BY <1>4
    <2>5. s \in [1 .. n - 1 -> R] /\ \A i, j \in 1 .. n - 1 : i < j => s[i] < s[j]
      BY <2>2, <2>3 DEF Ascends
    <2>6. t \in [1 .. n -> T]
      BY <2>4, <2>5
    <2>7. \A i, j \in 1 .. n : i < j => t[i] < t[j]
      <3> SUFFICES ASSUME NEW i \in 1 .. n, NEW j \in 1 .. n, i < j PROVE t[i] < t[j]
        OBVIOUS
      <3>1. j # 1 /\ j - 1 \in 1 .. n - 1 /\ t[j] = s[j - 1] /\ s[j - 1] \in R
        BY <1>4, <2>4, <2>5
      <3>2. CASE i = 1
        <4>1. s[j - 1] \in Nat /\ m \in Nat /\ m <= s[j - 1] /\ s[j - 1] # m
          BY <1>4, <2>1, <3>1
        <4> QED BY <3>1, <3>2, <4>1
      <3>3. CASE i # 1
        <4>1. i - 1 \in 1 .. n - 1 /\ t[i] = s[i - 1] /\ i - 1 < j - 1
          BY <1>4, <2>4, <3>3
        <4> QED BY <2>5, <3>1, <4>1
      <3> QED BY <3>2, <3>3
    <2>8. Ascends(t, T)
      <3> HIDE DEF t
      <3> QED BY <1>3, <2>6, <2>7 DEF Ascends
    <2> QED BY <1>3, <2>8
  <1> QED BY <1>5, <1>6

(* A sequence that names every element of S once.                          *)
Lists(s, S) ==
    /\ s \in Seq(S) /\ Len(s) = Cardinality(S) /\ ToSet(s) = S
    /\ \A i, j \in 1 .. Len(s) : i # j => s[i] # s[j]

LEMMA AscendingLists ==
    ASSUME NEW S \in SUBSET Nat, IsFiniteSet(S)
    PROVE  Lists(Ascending(S), S)
  <1> DEFINE s == Ascending(S)
             n == Cardinality(S)
  <1>1. Ascends(s, S)
    BY AscentExists DEF Ascends, Ascending
  <1>2. n \in Nat
    BY FS_CardinalityType
  <1> HIDE DEF s
  <1>3. s \in [1 .. n -> S] /\ \A i, j \in 1 .. n : i < j => s[i] < s[j]
    BY <1>1 DEF Ascends
  <1>4. s \in Seq(S) /\ Len(s) = n
    BY <1>2, <1>3
  <1>5. \A i, j \in 1 .. n : i # j => s[i] # s[j]
    <2> SUFFICES ASSUME NEW i \in 1 .. n, NEW j \in 1 .. n, i # j PROVE s[i] # s[j]
      OBVIOUS
    <2>1. i < j \/ j < i
      BY <1>2
    <2>2. s[i] \in Nat /\ s[j] \in Nat
      BY <1>3
    <2> QED BY <1>3, <2>1, <2>2
  <1>6. \A x \in S : \E i \in 1 .. n : s[i] = x
    <2> SUFFICES ASSUME NEW x \in S, \A i \in 1 .. n : s[i] # x PROVE FALSE
      OBVIOUS
    <2>1. s \in [1 .. n -> S \ {x}]
      BY <1>3
    <2>2. IsFiniteSet(S \ {x}) /\ Cardinality(S \ {x}) = n - 1
      BY FS_RemoveElement
    <2>3. IsFiniteSet(1 .. n) /\ Cardinality(1 .. n) = n
      BY <1>2, FS_Interval
    <2>4. Cardinality(S \ {x}) < Cardinality(1 .. n)
      BY <1>2, <2>2, <2>3
    <2> DEFINE R == S \ {x}
               D == 1 .. n
    <2>5. /\ IsFiniteSet(D) /\ IsFiniteSet(R) /\ s \in [D -> R]
          /\ Cardinality(R) < Cardinality(D)
      BY <2>1, <2>2, <2>3, <2>4
    <2> HIDE DEF n, R, D
    <2>6. \E i, j \in D : i # j /\ s[i] = s[j]
      BY <2>5, FS_PigeonHole
    <2> QED BY <1>5, <2>6 DEF D
  <1>7. ToSet(s) = S
    BY <1>3, <1>6 DEF ToSet
  <1> QED BY <1>4, <1>5, <1>7 DEF Lists, s

(* What a concatenation holds, and what is left behind the head.           *)
LEMMA ToSetConcat ==
    ASSUME NEW U, NEW s \in Seq(U), NEW t \in Seq(U)
    PROVE  ToSet(s \o t) = ToSet(s) \cup ToSet(t)
  <1>1. /\ Len(s) \in Nat /\ Len(t) \in Nat
        /\ Len(s \o t) = Len(s) + Len(t)
        /\ DOMAIN s = 1 .. Len(s) /\ DOMAIN t = 1 .. Len(t)
        /\ DOMAIN (s \o t) = 1 .. Len(s) + Len(t)
    BY ConcatProperties, LenProperties
  <1>2. \A i \in 1 .. Len(s) + Len(t) :
            (s \o t)[i] = IF i <= Len(s) THEN s[i] ELSE t[i - Len(s)]
    BY ConcatProperties
  <1>3. ToSet(s \o t) \subseteq ToSet(s) \cup ToSet(t)
    <2> SUFFICES ASSUME NEW i \in 1 .. Len(s) + Len(t)
                 PROVE  (s \o t)[i] \in ToSet(s) \cup ToSet(t)
      BY <1>1 DEF ToSet
    <2>1. CASE i <= Len(s)
      <3>1. i \in DOMAIN s /\ (s \o t)[i] = s[i]
        BY <1>1, <1>2, <2>1
      <3> QED BY <3>1 DEF ToSet
    <2>2. CASE ~(i <= Len(s))
      <3>1. i - Len(s) \in DOMAIN t /\ (s \o t)[i] = t[i - Len(s)]
        BY <1>1, <1>2, <2>2
      <3> QED BY <3>1 DEF ToSet
    <2> QED BY <2>1, <2>2
  <1>4. ToSet(s) \subseteq ToSet(s \o t)
    <2> SUFFICES ASSUME NEW i \in 1 .. Len(s) PROVE s[i] \in ToSet(s \o t)
      BY <1>1 DEF ToSet
    <2>1. i \in DOMAIN (s \o t) /\ (s \o t)[i] = s[i]
      BY <1>1, <1>2
    <2> QED BY <2>1 DEF ToSet
  <1>5. ToSet(t) \subseteq ToSet(s \o t)
    <2> SUFFICES ASSUME NEW i \in 1 .. Len(t) PROVE t[i] \in ToSet(s \o t)
      BY <1>1 DEF ToSet
    <2>1. i + Len(s) \in DOMAIN (s \o t) /\ (s \o t)[i + Len(s)] = t[i]
      BY <1>1, <1>2
    <2> QED BY <2>1 DEF ToSet
  <1> QED BY <1>3, <1>4, <1>5

LEMMA ToSetTail ==
    ASSUME NEW U, NEW s \in Seq(U), s # <<>>
    PROVE  /\ Head(s) \in U /\ Head(s) \in ToSet(s) /\ Tail(s) \in Seq(U)
           /\ ToSet(s) = {Head(s)} \cup ToSet(Tail(s))
  <1>1. /\ Len(s) \in Nat \ {0} /\ DOMAIN s = 1 .. Len(s) /\ Head(s) = s[1]
        /\ Tail(s) \in Seq(U) /\ DOMAIN Tail(s) = 1 .. Len(s) - 1
        /\ \A i \in 1 .. Len(s) - 1 : Tail(s)[i] = s[i + 1]
    BY EmptySeq, LenProperties, HeadTailProperties
  <1>2. 1 \in DOMAIN s /\ Head(s) \in ToSet(s) /\ Head(s) \in U
    BY <1>1, HeadTailProperties DEF ToSet
  <1>3. ToSet(Tail(s)) \subseteq ToSet(s)
    <2> SUFFICES ASSUME NEW i \in 1 .. Len(s) - 1 PROVE Tail(s)[i] \in ToSet(s)
      BY <1>1 DEF ToSet
    <2>1. i + 1 \in DOMAIN s /\ Tail(s)[i] = s[i + 1]
      BY <1>1
    <2> QED BY <2>1 DEF ToSet
  <1>4. ToSet(s) \subseteq {Head(s)} \cup ToSet(Tail(s))
    <2> SUFFICES ASSUME NEW i \in 1 .. Len(s), i # 1 PROVE s[i] \in ToSet(Tail(s))
      BY <1>1 DEF ToSet
    <2>1. i - 1 \in DOMAIN Tail(s) /\ Tail(s)[i - 1] = s[i]
      BY <1>1
    <2> QED BY <2>1 DEF ToSet
  <1> QED BY <1>1, <1>2, <1>3, <1>4

(* What eviction takes of m: some of its windows, and as many as do not    *)
(* fit the budget.                                                         *)
LEMMA EvictedFits ==
    ASSUME NEW m \in SUBSET Window
    PROVE  /\ Evicted(m) \subseteq m
           /\ Cardinality(m \ Evicted(m)) <= Budget
           /\ Evicted(m) # {} => Cardinality(m) > Budget
  <1> DEFINE p == Ascending(m \ owed)
             q == Ascending(m \cap owed)
             s == EvictionOrder(m)
             k == Excess(m)
             c == Cardinality(m)
             E == Evicted(m)
  <1>1. Window \in SUBSET Nat /\ IsFiniteSet(Window) /\ Budget \in Nat
    BY SpoolAssumption, FS_Interval, SMTT(30) DEF Window
  <1>2. m \in SUBSET Nat /\ IsFiniteSet(m) /\ c \in Nat
    BY <1>1, FS_Subset, FS_CardinalityType
  <1>3. /\ IsFiniteSet(m \ owed) /\ IsFiniteSet(m \cap owed)
        /\ Cardinality(m \ owed) = c - Cardinality(m \cap owed)
        /\ Cardinality(m \ owed) \in Nat /\ Cardinality(m \cap owed) \in Nat
    BY <1>2, FS_Difference, FS_Intersection, FS_CardinalityType
  <1>4. Lists(p, m \ owed) /\ Lists(q, m \cap owed)
    BY <1>2, <1>3, AscendingLists
  <1>5. s = p \o q
    BY DEF EvictionOrder
  <1> HIDE DEF p, q, s
  <1>6. p \in Seq(m) /\ q \in Seq(m)
    BY <1>4, SeqMonotonic DEF Lists
  <1>7. /\ s \in Seq(m) /\ Len(s) = c
        /\ \A i \in 1 .. c : s[i] = IF i <= Len(p) THEN p[i] ELSE q[i - Len(p)]
        /\ Len(p) + Len(q) = c /\ Len(p) \in Nat /\ Len(q) \in Nat
    <2> HIDE DEF c
    <2>1. /\ Len(p) = Cardinality(m \ owed) /\ Len(q) = Cardinality(m \cap owed)
      BY <1>4 DEF Lists
    <2>2. Len(p) + Len(q) = c /\ Len(p) \in Nat /\ Len(q) \in Nat
      BY <1>2, <1>3, <2>1
    <2>3. /\ p \o q \in Seq(m) /\ Len(p \o q) = Len(p) + Len(q)
          /\ \A i \in 1 .. Len(p) + Len(q) :
                 (p \o q)[i] = IF i <= Len(p) THEN p[i] ELSE q[i - Len(p)]
      BY <1>6, ConcatProperties
    <2> QED BY <1>5, <2>2, <2>3
  <1> HIDE DEF c
  <1>8. \A i, j \in 1 .. c : i < j => s[i] # s[j]
    <2> SUFFICES ASSUME NEW i \in 1 .. c, NEW j \in 1 .. c, i < j PROVE s[i] # s[j]
      OBVIOUS
    <2>1. CASE j <= Len(p)
      <3>1. i \in 1 .. Len(p) /\ s[i] = p[i] /\ j \in 1 .. Len(p) /\ s[j] = p[j] /\ i # j
        BY <1>2, <1>7, <2>1
      <3> QED BY <1>4, <3>1 DEF Lists
    <2>2. CASE i <= Len(p) /\ ~(j <= Len(p))
      <3>1. i \in 1 .. Len(p) /\ s[i] = p[i]
        BY <1>2, <1>7, <2>2
      <3>4. p[i] \in m \ owed
        BY <1>4, <3>1, ElementOfSeq DEF Lists
      <3>2. j - Len(p) \in 1 .. Len(q) /\ s[j] = q[j - Len(p)]
        BY <1>2, <1>7, <2>2
      <3>3. q[j - Len(p)] \in m \cap owed
        BY <1>4, <3>2, ElementOfSeq DEF Lists
      <3> QED BY <3>1, <3>2, <3>3, <3>4
    <2>3. CASE ~(i <= Len(p))
      <3>1. /\ i - Len(p) \in 1 .. Len(q) /\ s[i] = q[i - Len(p)]
            /\ j - Len(p) \in 1 .. Len(q) /\ s[j] = q[j - Len(p)]
            /\ i - Len(p) # j - Len(p)
        BY <1>2, <1>7, <2>3
      <3> QED BY <1>4, <3>1 DEF Lists
    <2> QED BY <2>1, <2>2, <2>3
  <1>9. k \in 0 .. c /\ c - k <= Budget /\ (k > 0 => c > Budget)
    BY <1>1, <1>2 DEF Excess, c
  <1>10. E = {s[i] : i \in 1 .. k}
    <2> DEFINE u == SubSeq(s, 1, k)
    <2>1. \A i \in 1 .. k : i \in 1 .. Len(s) /\ s[i] \in m
      BY <1>2, <1>7, <1>9, ElementOfSeq
    <2>2. /\ u \in Seq(m)
          /\ Len(u) = IF 1 <= k THEN k - 1 + 1 ELSE 0
          /\ \A i \in 1 .. k - 1 + 1 : u[i] = s[1 + i - 1]
      BY <1>2, <1>9, <2>1, SubSeqProperties
    <2>3. DOMAIN u = 1 .. k /\ \A i \in 1 .. k : u[i] = s[i]
      BY <1>2, <1>9, <2>2, LenProperties
    <2>4. E = ToSet(u)
      BY DEF Evicted, s
    <2> HIDE DEF u, E
    <2> QED BY <2>3, <2>4 DEF ToSet
  <1>11. E \subseteq m
    BY <1>2, <1>7, <1>9, <1>10, ElementOfSeq
  <1>12. Cardinality(E) = k
    <2> DEFINE f == [i \in 1 .. k |-> s[i]]
    <2>1. IsFiniteSet(1 .. k) /\ Cardinality(1 .. k) = k
      BY <1>2, <1>9, FS_Interval
    <2>2. f \in [1 .. k -> E] /\ \A y \in E : \E i \in 1 .. k : f[i] = y
      BY <1>10
    <2>3. \A i, j \in 1 .. k : f[i] = f[j] => i = j
      <3> SUFFICES ASSUME NEW i \in 1 .. k, NEW j \in 1 .. k, i # j PROVE s[i] # s[j]
        OBVIOUS
      <3>1. i \in 1 .. c /\ j \in 1 .. c /\ (i < j \/ j < i)
        BY <1>2, <1>9
      <3> QED BY <1>8, <3>1
    <2> HIDE DEF f, E, k
    <2>4. f \in Surjection(1 .. k, E) /\ f \in Injection(1 .. k, E)
      BY <2>2, <2>3 DEF Surjection, Injection, IsInjective
    <2> QED BY <2>1, <2>4, FS_Surjection
  <1>13. Cardinality(m \ E) = c - k
    <2>1. m \cap E = E
      BY <1>11
    <2> QED BY <1>2, <1>12, <2>1, FS_Difference DEF c
  <1>14. E # {} => k > 0
    BY <1>9, <1>10
  <1> QED BY <1>9, <1>11, <1>13, <1>14 DEF c
-----------------------------------------------------------------------------
LEMMA Sizes ==
    /\ Window = 1 .. NumWindows /\ Grain = 1 .. NumGrains
    /\ NumWindows \in Nat \ {0} /\ NumGrains \in Nat \ {0} /\ Budget \in Nat \ {0}
    /\ Window \in SUBSET Nat /\ IsFiniteSet(Window)
  BY SpoolAssumption, FS_Interval, SMTT(30) DEF Window, Grain

LEMMA SmallerFits ==
    ASSUME NEW S \in SUBSET Window, NEW T \in SUBSET S
    PROVE  Cardinality(T) \in Nat /\ Cardinality(S) \in Nat
           /\ Cardinality(T) <= Cardinality(S)
  BY Sizes, FS_Subset, FS_CardinalityType

LEMMA BelowNext ==
    ASSUME NEW n \in 1 .. NumWindows + 1, NEW x \in 1 .. n - 1
    PROVE  x \in Window /\ x < n
  BY Sizes

LEMMA NoneToEnter == ToSet(<<>>) = {} /\ <<>> \in Seq(Window)
  <1>1. DOMAIN <<>> = {}
    OBVIOUS
  <1> QED BY <1>1 DEF ToSet

(* What the ledger's operations may add to what can be read of it.         *)
LEMMA LedgerReads ==
    ASSUME NEW l \in LedgerType, NEW w \in Window
    PROVE  /\ Recorded(l, w) \in LedgerType
           /\ Readable(Recorded(l, w)) \subseteq Readable(l) \cup {w}
           /\ Recorded(l, w).loaded = l.loaded \cup {w}
           /\ \A f \in RecordFailures(l, w) :
                  /\ f \in LedgerType /\ f.loaded = l.loaded
                  /\ Readable(f) \subseteq Readable(l) \cup {w}
           /\ Cut(l, w) \subseteq RecordFailures(l, w)
  <1>1. /\ Appended(l, w) \in LedgerType /\ Appended(l, w).loaded = l.loaded
        /\ Readable(Appended(l, w)) \subseteq Readable(l) \cup {w}
    BY DEF LedgerType, Appended, Readable
  <1>2. /\ Recorded(l, w) \in LedgerType /\ Recorded(l, w).loaded = l.loaded \cup {w}
        /\ Readable(Recorded(l, w)) \subseteq Readable(l) \cup {w}
    BY DEF LedgerType, Appended, Recorded, Readable
  <1>3. ASSUME NEW f \in Cut(l, w)
        PROVE  /\ f \in LedgerType /\ f.loaded = l.loaded
               /\ Readable(f) \subseteq Readable(l) \cup {w}
    <2>1. PICK t \in {{}, {w}} : f = [l EXCEPT !.open = TRUE, !.tail = t]
      BY DEF Cut
    <2>2. f = [lines |-> l.lines, open |-> TRUE, tail |-> t, loaded |-> l.loaded]
      BY <2>1 DEF LedgerType
    <2> QED BY <2>1, <2>2 DEF LedgerType, Readable
  <1>4. RecordFailures(l, w) = {l, Appended(l, w)} \cup Cut(l, w)
    BY DEF RecordFailures
  <1> QED BY <1>1, <1>2, <1>3, <1>4

LEMMA LedgerRestarts ==
    ASSUME NEW l \in LedgerType
    PROVE  /\ Forgotten(l) \in LedgerType /\ Opened(l) \in LedgerType
           /\ Readable(Forgotten(l)) = Readable(l) /\ Forgotten(l).loaded = {}
           /\ Readable(Opened(l)) = Readable(l) /\ Opened(l).loaded = Readable(l)
  BY DEF LedgerType, Forgotten, Opened, Readable

LEMMA Starts == Init => SpoolInv
  <1> SUFFICES ASSUME Init PROVE SpoolInv
    OBVIOUS
  <1>1. Cardinality({}) = 0
    BY FS_EmptySet
  <1>2. SpoolTypeOK
    <2>1. forgotten \in BOOLEAN
      BY DEF Init
    <2> QED BY <1>1, <2>1, Sizes DEF Init, SpoolTypeOK
  <1>3. DiskInv
    BY Sizes DEF Init, DiskInv, Dealt
  <1>4. StageInv
    BY NoneToEnter DEF Init, StageInv, LedgerType, EmptyLedger
  <1>5. EntryInv
    BY NoneToEnter DEF Init, EntryInv, EmptyLedger, Readable
  <1>6. Kept
    BY DEF Init, Kept
  <1>7. DueInv
    BY NoneToEnter DEF Init, DueInv, NeverInsertedTwice
  <1> QED BY <1>2, <1>3, <1>4, <1>5, <1>6, <1>7 DEF SpoolInv

LEMMA StoreBeginKeeps ==
    ASSUME SpoolInv, StoreBegin
    PROVE  SpoolInv'
  <1> USE Sizes DEF SpoolInv, StoreBegin, spoolVars, sinkVars, recordVars, historyVars
  <1>11. SpoolTypeOK'
    BY DEF SpoolTypeOK, DiskInv
  <1>12. DiskInv'
    BY DEF SpoolTypeOK, DiskInv, Dealt
  <1>13. StageInv'
    BY DEF SpoolTypeOK, DiskInv, StageInv
  <1>14. EntryInv'
    BY DEF SpoolTypeOK, DiskInv, StageInv, EntryInv, Whole
  <1>15. Kept'
    BY DEF SpoolTypeOK, DiskInv, Dealt, EntryInv, Kept, Whole
  <1>16. DueInv'
    BY DEF StageInv, EntryInv, DueInv, NeverInsertedTwice
  <1> QED BY <1>11, <1>12, <1>13, <1>14, <1>15, <1>16

LEMMA StoreCloseKeeps ==
    ASSUME SpoolInv, StoreClose
    PROVE  SpoolInv'
  <1> USE Sizes DEF SpoolInv, StoreClose, spoolVars, sinkVars, recordVars, historyVars
  <1>11. SpoolTypeOK'
    BY DEF SpoolTypeOK
  <1>12. DiskInv'
    BY DEF SpoolTypeOK, DiskInv, Dealt
  <1>13. StageInv'
    BY DEF SpoolTypeOK, DiskInv, StageInv
  <1>14. EntryInv'
    BY DEF SpoolTypeOK, DiskInv, StageInv, EntryInv, Whole
  <1>15. Kept'
    BY DEF SpoolTypeOK, DiskInv, Dealt, EntryInv, Kept, Whole
  <1>16. DueInv'
    BY DEF StageInv, EntryInv, DueInv, NeverInsertedTwice
  <1> QED BY <1>11, <1>12, <1>13, <1>14, <1>15, <1>16

LEMMA StoreFailKeeps ==
    ASSUME SpoolInv, StoreFail
    PROVE  SpoolInv'
  <1> USE Sizes DEF SpoolInv, StoreFail, Fault, Removed, spoolVars, sinkVars, recordVars, historyVars
  <1>1. /\ next \in Nat /\ next \in Window /\ next \notin map
        /\ \A w \in Window : dir'[w] = IF w = next THEN "absent" ELSE dir[w]
    BY DEF SpoolTypeOK, DiskInv
  <1>11. SpoolTypeOK'
    BY <1>1 DEF SpoolTypeOK
  <1>12. DiskInv'
    <2>1. \A w \in Window : w < next' <=> Dealt(w)
      BY <1>1 DEF Dealt
    <2>2. \A w \in map \cup entered \cup lost \cup told \cup held \cup posting :
              w \in Window /\ Dealt(w)
      BY <1>1 DEF DiskInv, Dealt
    <2>3. \A w \in lost' : dir'[w] = "absent" /\ w \in Window /\ Dealt(w)
      BY <1>1, <2>2 DEF DiskInv, Dealt
    <2>4. \A w \in Window : ~Dealt(w)' => ~Dealt(w)
      BY <2>1 DEF Dealt
    <2> QED BY <1>1, <2>1, <2>2, <2>3, <2>4 DEF DiskInv
  <1>13. StageInv'
    BY DEF SpoolTypeOK, DiskInv, StageInv
  <1>14. EntryInv'
    BY DEF SpoolTypeOK, DiskInv, StageInv, EntryInv, Whole
  <1>15. Kept'
    BY DEF SpoolTypeOK, DiskInv, Dealt, EntryInv, Kept, Whole
  <1>16. DueInv'
    BY DEF StageInv, EntryInv, DueInv, NeverInsertedTwice
  <1> QED BY <1>11, <1>12, <1>13, <1>14, <1>15, <1>16

LEMMA StartKeeps ==
    ASSUME SpoolInv, Start
    PROVE  SpoolInv'
  <1> USE Sizes DEF SpoolInv, Start, BeginReleased, Release, spoolVars, sinkVars, recordVars, historyVars
  <1>11. SpoolTypeOK'
    BY DEF SpoolTypeOK
  <1>12. DiskInv'
    BY DEF SpoolTypeOK, DiskInv, Dealt
  <1>13. StageInv'
    BY DEF SpoolTypeOK, DiskInv, StageInv
  <1>14. EntryInv'
    BY DEF SpoolTypeOK, DiskInv, StageInv, EntryInv, Whole
  <1>15. Kept'
    BY DEF SpoolTypeOK, DiskInv, Dealt, EntryInv, Kept, Whole
  <1>16. DueInv'
    BY DEF StageInv, EntryInv, DueInv, NeverInsertedTwice
  <1> QED BY <1>11, <1>12, <1>13, <1>14, <1>15, <1>16

LEMMA ForgetDoneKeeps ==
    ASSUME SpoolInv, ForgetDone
    PROVE  SpoolInv'
  <1> USE Sizes DEF SpoolInv, ForgetDone, spoolVars, sinkVars, recordVars, historyVars
  <1>11. SpoolTypeOK'
    BY DEF SpoolTypeOK
  <1>12. DiskInv'
    BY DEF SpoolTypeOK, DiskInv, Dealt
  <1>13. StageInv'
    BY DEF SpoolTypeOK, DiskInv, StageInv
  <1>14. EntryInv'
    BY DEF SpoolTypeOK, DiskInv, StageInv, EntryInv, Whole
  <1>15. Kept'
    BY DEF SpoolTypeOK, DiskInv, Dealt, EntryInv, Kept, Whole
  <1>16. DueInv'
    BY NoneToEnter DEF StageInv, DueInv, NeverInsertedTwice, IsLoaded
  <1> QED BY <1>11, <1>12, <1>13, <1>14, <1>15, <1>16

LEMMA TakeNoneKeeps ==
    ASSUME SpoolInv, TakeNone
    PROVE  SpoolInv'
  <1> USE Sizes DEF SpoolInv, TakeNone, spoolVars, sinkVars, recordVars, historyVars
  <1>11. SpoolTypeOK'
    BY DEF SpoolTypeOK
  <1>12. DiskInv'
    BY DEF SpoolTypeOK, DiskInv, Dealt
  <1>13. StageInv'
    BY DEF SpoolTypeOK, DiskInv, StageInv
  <1>14. EntryInv'
    BY DEF SpoolTypeOK, DiskInv, StageInv, EntryInv, Whole
  <1>15. Kept'
    BY DEF SpoolTypeOK, DiskInv, Dealt, EntryInv, Kept, Whole
  <1>16. DueInv'
    BY DEF StageInv, EntryInv, DueInv, NeverInsertedTwice
  <1> QED BY <1>11, <1>12, <1>13, <1>14, <1>15, <1>16

LEMMA PostKeeps ==
    ASSUME SpoolInv, Post
    PROVE  SpoolInv'
  <1> USE Sizes DEF SpoolInv, Post, spoolVars, sinkVars, recordVars, historyVars
  <1>11. SpoolTypeOK'
    BY DEF SpoolTypeOK
  <1>12. DiskInv'
    BY DEF SpoolTypeOK, DiskInv, Dealt
  <1>13. StageInv'
    BY DEF SpoolTypeOK, DiskInv, StageInv
  <1>14. EntryInv'
    BY DEF SpoolTypeOK, DiskInv, StageInv, EntryInv, Whole
  <1>15. Kept'
    BY DEF SpoolTypeOK, DiskInv, Dealt, EntryInv, Kept, Whole
  <1>16. DueInv'
    BY DEF StageInv, EntryInv, DueInv, NeverInsertedTwice
  <1> QED BY <1>11, <1>12, <1>13, <1>14, <1>15, <1>16

LEMMA SendGrainKeeps ==
    ASSUME SpoolInv, SendGrain
    PROVE  SpoolInv'
  <1> USE Sizes DEF SpoolInv, SendGrain, spoolVars, sinkVars, recordVars, historyVars
  <1>1. ASSUME NEW w \in Window, Whole(w) PROVE Whole(w)'
    <2>1. store'[w] = store[w] \/ store'[w] = store[w] \cup {grain}
      OBVIOUS
    <2>2. store[w] = Grain /\ grain \in Grain
      BY <1>1 DEF Whole
    <2>3. store'[w] = Grain
      BY <2>1, <2>2, Zenon
    <2> QED BY <2>3 DEF Whole
  <1>11. SpoolTypeOK'
    BY DEF SpoolTypeOK
  <1>12. DiskInv'
    BY DEF SpoolTypeOK, DiskInv, Dealt
  <1>13. StageInv'
    BY DEF SpoolTypeOK, DiskInv, StageInv
  <1>14. EntryInv'
    <2>1. \A w \in posting' : \A g \in 1 .. grain' - 1 : g \in store'[w]
      BY DEF SpoolTypeOK, EntryInv
    <2>2. \A w \in ToSet(todo)' : Whole(w)' /\ w \notin inFlight'
      BY <1>1, NoneToEnter DEF StageInv
    <2>3. (pc = "delete" => todo # <<>> /\ Head(todo) \in entered)'
      BY DEF StageInv
    <2>4. (Readable(ledger) \cup ledger.loaded \subseteq entered)'
      BY DEF EntryInv
    <2>5. \A w \in (entered \cup owed)' : Whole(w)'
      BY <1>1 DEF EntryInv, DiskInv, SpoolTypeOK
    <2> QED BY <2>1, <2>2, <2>3, <2>4, <2>5 DEF EntryInv
  <1>15. Kept'
    <2> SUFFICES ASSUME NEW w \in 1 .. next - 1
                 PROVE  dir'[w] # "absent" \/ w \in lost' \/ Whole(w)'
      BY DEF Kept
    <2>1. w \in Window
      BY DEF SpoolTypeOK
    <2> QED BY <1>1, <2>1 DEF Kept
  <1>16. DueInv'
    BY DEF StageInv, EntryInv, DueInv, NeverInsertedTwice
  <1> QED BY <1>11, <1>12, <1>13, <1>14, <1>15, <1>16

LEMMA SendFailKeeps ==
    ASSUME SpoolInv, SendFail
    PROVE  SpoolInv'
  <1> USE Sizes DEF SpoolInv, SendFail, Release, Fault, spoolVars, sinkVars, recordVars, historyVars
  <1>1. ASSUME NEW w \in Window, Whole(w) PROVE Whole(w)'
    <2>1. store'[w] = store[w] \/ store'[w] = store[w] \cup {grain}
      OBVIOUS
    <2>2. store[w] = Grain /\ grain \in Grain
      BY <1>1 DEF Whole
    <2>3. store'[w] = Grain
      BY <2>1, <2>2, Zenon
    <2> QED BY <2>3 DEF Whole
  <1>11. SpoolTypeOK'
    BY DEF SpoolTypeOK
  <1>12. DiskInv'
    BY DEF SpoolTypeOK, DiskInv, Dealt
  <1>13. StageInv'
    BY DEF SpoolTypeOK, DiskInv, StageInv
  <1>14. EntryInv'
    <2>1. \A w \in posting' : \A g \in 1 .. grain' - 1 : g \in store'[w]
      BY DEF SpoolTypeOK, EntryInv
    <2>2. \A w \in ToSet(todo)' : Whole(w)' /\ w \notin inFlight'
      BY <1>1, NoneToEnter DEF StageInv
    <2>3. (pc = "delete" => todo # <<>> /\ Head(todo) \in entered)'
      BY DEF StageInv
    <2>4. (Readable(ledger) \cup ledger.loaded \subseteq entered)'
      BY DEF EntryInv
    <2>5. \A w \in (entered \cup owed)' : Whole(w)'
      BY <1>1 DEF EntryInv, DiskInv, SpoolTypeOK
    <2> QED BY <2>1, <2>2, <2>3, <2>4, <2>5 DEF EntryInv
  <1>15. Kept'
    <2> SUFFICES ASSUME NEW w \in 1 .. next - 1
                 PROVE  dir'[w] # "absent" \/ w \in lost' \/ Whole(w)'
      BY DEF Kept
    <2>1. w \in Window
      BY DEF SpoolTypeOK
    <2> QED BY <1>1, <2>1 DEF Kept
  <1>16. DueInv'
    BY DEF StageInv, EntryInv, DueInv, NeverInsertedTwice
  <1> QED BY <1>11, <1>12, <1>13, <1>14, <1>15, <1>16

LEMMA RecordDoneKeeps ==
    ASSUME SpoolInv, RecordDone
    PROVE  SpoolInv'
  <1> USE Sizes DEF SpoolInv, RecordDone, spoolVars, sinkVars, recordVars, historyVars
  <1>11. SpoolTypeOK'
    BY DEF SpoolTypeOK, StageInv
  <1>12. DiskInv'
    BY DEF SpoolTypeOK, StageInv, DiskInv, Dealt
  <1>13. StageInv'
    BY DEF SpoolTypeOK, DiskInv, StageInv
  <1>14. EntryInv'
    BY DEF SpoolTypeOK, DiskInv, StageInv, EntryInv, Whole
  <1>15. Kept'
    BY DEF SpoolTypeOK, DiskInv, Dealt, EntryInv, Kept, Whole
  <1>16. DueInv'
    BY DEF StageInv, EntryInv, DueInv, NeverInsertedTwice
  <1> QED BY <1>11, <1>12, <1>13, <1>14, <1>15, <1>16

LEMMA NextPassKeeps ==
    ASSUME SpoolInv, NextPass
    PROVE  SpoolInv'
  <1> USE Sizes DEF SpoolInv, NextPass, spoolVars, sinkVars, recordVars, historyVars
  <1>11. SpoolTypeOK'
    BY DEF SpoolTypeOK
  <1>12. DiskInv'
    BY DEF SpoolTypeOK, DiskInv, Dealt
  <1>13. StageInv'
    BY DEF SpoolTypeOK, DiskInv, StageInv
  <1>14. EntryInv'
    BY DEF SpoolTypeOK, DiskInv, StageInv, EntryInv, Whole
  <1>15. Kept'
    BY DEF SpoolTypeOK, DiskInv, Dealt, EntryInv, Kept, Whole
  <1>16. DueInv'
    BY DEF StageInv, EntryInv, DueInv, NeverInsertedTwice
  <1> QED BY <1>11, <1>12, <1>13, <1>14, <1>15, <1>16

LEMMA PanicKeeps ==
    ASSUME SpoolInv, Panic
    PROVE  SpoolInv'
  <1> USE Sizes DEF SpoolInv, Panic, Fault, spoolVars, sinkVars, recordVars, historyVars
  <1>1. ToSet(todo) \subseteq Window
    BY DEF StageInv, ToSet
  <1>11. SpoolTypeOK'
    BY <1>1 DEF SpoolTypeOK
  <1>12. DiskInv'
    BY NoneToEnter DEF SpoolTypeOK, DiskInv, Dealt
  <1>13. StageInv'
    BY NoneToEnter DEF SpoolTypeOK, DiskInv, StageInv
  <1>14. EntryInv'
    BY NoneToEnter DEF SpoolTypeOK, DiskInv, StageInv, EntryInv, Whole
  <1>15. Kept'
    BY NoneToEnter DEF SpoolTypeOK, DiskInv, Dealt, EntryInv, Kept, Whole
  <1>16. DueInv'
    BY NoneToEnter DEF StageInv, EntryInv, DueInv, NeverInsertedTwice
  <1> QED BY <1>11, <1>12, <1>13, <1>14, <1>15, <1>16

(* What record_landed is about to enter is whole: what owed an entry is,   *)
(* and so is what landed.                                                  *)
LEMMA ToEnterLists ==
    ASSUME SpoolTypeOK, NEW landed \in SUBSET Window
    PROVE  ToEnter(landed) \in Seq(Window) /\ ToSet(ToEnter(landed)) = owed \cup landed
  <1>1. /\ owed \in SUBSET Nat /\ IsFiniteSet(owed) /\ owed \subseteq Window
        /\ landed \ owed \in SUBSET Nat /\ IsFiniteSet(landed \ owed)
    BY Sizes, FS_Subset DEF SpoolTypeOK
  <1> DEFINE s == Ascending(owed)
             t == Ascending(landed \ owed)
  <1>2. Lists(s, owed) /\ Lists(t, landed \ owed)
    BY <1>1, AscendingLists
  <1> HIDE DEF s, t
  <1>3. s \in Seq(owed) /\ t \in Seq(landed \ owed)
    BY <1>2 DEF Lists
  <1>4. s \in Seq(Window) /\ t \in Seq(Window)
    BY ONLY <1>1, <1>3, owed \subseteq Window, landed \subseteq Window, SeqMonotonic
  <1>5. s \o t \in Seq(Window) /\ ToSet(s \o t) = ToSet(s) \cup ToSet(t)
    BY <1>4, ToSetConcat, ConcatProperties
  <1>6. ToEnter(landed) = s \o t
    BY DEF ToEnter, s, t
  <1> QED BY <1>2, <1>5, <1>6 DEF Lists

LEMMA LandingKeeps ==
    ASSUME SpoolInv, NEW landed \in SUBSET Window, NEW then \in {"take", "final", "idle"},
           pc \in {"batch", "due", "send", "final"},
           RecordLanded(landed, then),
           \A w \in landed : Whole(w) /\ w < next /\ w \notin held,
           UNCHANGED <<held, grain, store>>, posting' = {}
    PROVE  SpoolInv'
  <1> USE Sizes DEF SpoolInv, RecordLanded
  <1>1. todo' \in Seq(Window) /\ ToSet(todo') = owed \cup landed
    BY ToEnterLists
  <1>11. SpoolTypeOK'
    BY DEF SpoolTypeOK
  <1>12. DiskInv'
    BY DEF SpoolTypeOK, DiskInv, Dealt
  <1>13. StageInv'
    BY <1>1 DEF SpoolTypeOK, StageInv
  <1>14. EntryInv'
    <2>1. \A w \in Window : Whole(w)' <=> Whole(w)
      BY DEF Whole
    <2>2. \A w \in ToSet(todo') : Whole(w)' /\ w \notin inFlight'
      BY <1>1, <2>1 DEF EntryInv, SpoolTypeOK
    <2> QED BY <2>1, <2>2 DEF EntryInv, SpoolTypeOK, DiskInv
  <1>15. Kept'
    BY DEF Kept, Whole
  <1>16. DueInv'
    <2>1. forgotten /\ forgotten' /\ ToSet(todo) = {}
      BY NoneToEnter DEF StageInv, DueInv
    <2> QED BY <1>1, <2>1 DEF DueInv, NeverInsertedTwice
  <1> QED BY <1>11, <1>12, <1>13, <1>14, <1>15, <1>16

LEMMA NotDueKeeps ==
    ASSUME SpoolInv, NotDue
    PROVE  SpoolInv'
  <1> DEFINE then == IF pc = "batch" THEN "take" ELSE "idle"
  <1>1. pc \in {"batch", "due"} /\ RecordLanded({}, then)
    BY DEF NotDue
  <1>2. UNCHANGED <<held, grain, store>> /\ posting' = {}
    BY <1>1 DEF NotDue, sinkVars, SpoolInv, StageInv
  <1>3. then \in {"take", "final", "idle"} /\ {} \in SUBSET Window
    OBVIOUS
  <1> HIDE DEF then
  <1> QED BY <1>1, <1>2, <1>3, LandingKeeps

LEMMA FinalKeeps ==
    ASSUME SpoolInv, Final
    PROVE  SpoolInv'
  <1>1. pc = "final" /\ RecordLanded({}, "idle")
    BY DEF Final
  <1>2. UNCHANGED <<held, grain, store>> /\ posting' = {}
    BY <1>1 DEF Final, sinkVars, SpoolInv, StageInv
  <1> QED BY <1>1, <1>2, LandingKeeps

LEMMA SendDoneKeeps ==
    ASSUME SpoolInv, SendDone
    PROVE  SpoolInv'
  <1>1. pc = "send" /\ RecordLanded(posting, after) /\ after \in {"take", "final", "idle"}
    BY DEF SendDone, SpoolInv, StageInv
  <1>2. grain = NumGrains + 1 /\ NumGrains \in Nat
    BY Sizes DEF SendDone, SpoolInv, SpoolTypeOK
  <1>3. \A w \in posting : Whole(w)
    <2> SUFFICES ASSUME NEW w \in posting PROVE store[w] = Grain
      BY DEF Whole
    <2>1. store[w] \subseteq Grain
      BY DEF SpoolInv, SpoolTypeOK
    <2>2. \A g \in Grain : g \in store[w]
      BY <1>2, Sizes DEF SpoolInv, EntryInv
    <2> QED BY <2>1, <2>2
  <1>4. \A w \in posting : w \in Window /\ w < next /\ w \notin held
    BY <1>1 DEF SpoolInv, DiskInv, StageInv
  <1>5. UNCHANGED <<held, grain, store>> /\ posting' = {}
    BY DEF SendDone
  <1> QED BY <1>1, <1>3, <1>4, <1>5, LandingKeeps

(* Spool::delete: what it forgets is whole and entered.                    *)
LEMMA DeleteFacts ==
    ASSUME SpoolInv, NEW w \in entered, Delete(w)
    PROVE  /\ w \in Window /\ Whole(w)
           /\ map' = map \ {w} /\ inFlight' = inFlight \ {w} /\ owed' = owed \ {w}
           /\ map' \in SUBSET Window /\ Cardinality(map') <= Budget
           /\ dir' \in [Window -> {"absent", "writing", "closed"}]
           /\ \A x \in Window : dir'[x] = dir[x] \/ (x = w /\ dir'[x] = "absent")
  <1>1. w \in Window /\ Whole(w)
    BY DEF SpoolInv, DiskInv, EntryInv
  <1>2. map' = map \ {w} /\ inFlight' = inFlight \ {w} /\ owed' = owed \ {w}
    BY DEF Delete
  <1>3. /\ dir' \in [Window -> {"absent", "writing", "closed"}]
        /\ \A x \in Window : dir'[x] = dir[x] \/ (x = w /\ dir'[x] = "absent")
    BY DEF Delete, Removed, SpoolInv, SpoolTypeOK
  <1>4. map \in SUBSET Window /\ map' \in SUBSET map /\ Cardinality(map) <= Budget
    BY <1>2 DEF SpoolInv, SpoolTypeOK
  <1>5. Cardinality(map') <= Budget
    BY <1>4, SmallerFits, Sizes
  <1> QED BY <1>1, <1>2, <1>3, <1>4, <1>5

LEMMA ForgetKeeps ==
    ASSUME SpoolInv, NEW w \in Window, Forget(w)
    PROVE  SpoolInv'
  <1> USE Sizes DEF SpoolInv, sinkVars, recordVars, historyVars
  <1>1. /\ w \in entered /\ Delete(w) /\ pc = "forget" /\ lock = "free"
        /\ UNCHANGED <<next, lock, sinkVars, recordVars, lost>>
    BY DEF Forget, IsLoaded, EntryInv
  <1>2. todo = <<>> /\ todo' = <<>>
    BY <1>1 DEF StageInv
  <1>3. /\ w \in Window /\ Whole(w) /\ w \in entered
        /\ map' = map \ {w} /\ inFlight' = inFlight \ {w} /\ owed' = owed \ {w}
        /\ map' \in SUBSET Window /\ Cardinality(map') <= Budget
        /\ dir' \in [Window -> {"absent", "writing", "closed"}]
        /\ \A x \in Window : dir'[x] = dir[x] \/ (x = w /\ dir'[x] = "absent")
    BY <1>1, DeleteFacts
  <1>11. SpoolTypeOK'
    BY <1>1, <1>3 DEF SpoolTypeOK
  <1>12. DiskInv'
    <2>1. \A x \in Window : Dealt(x)' <=> Dealt(x)
      BY <1>1 DEF Dealt
    <2>2. \A x \in Window : dir[x] = "absent" => dir'[x] = "absent"
      BY <1>3
    <2>3. lock' # "derive"
      BY <1>1
    <2>4. \A x \in (map \cup entered \cup lost \cup told \cup held \cup posting)' :
              x \in Window /\ x < next
      BY <1>1, <1>3 DEF DiskInv
    <2>5. \A x \in lost' : dir'[x] = "absent"
      BY <1>1, <2>2 DEF DiskInv
    <2>6. next' = next /\ \A x \in Window : ~Dealt(x)' => dir'[x] = "absent"
      BY <1>1, <2>1, <2>2 DEF DiskInv
    <2> QED BY <2>3, <2>4, <2>5, <2>6 DEF DiskInv
  <1>13. StageInv'
    BY <1>1, <1>3 DEF StageInv
  <1>14. EntryInv'
    <2>1. \A x \in Window : Whole(x)' <=> Whole(x)
      BY <1>1 DEF Whole
    <2>2. \A x \in posting' : \A g \in 1 .. grain' - 1 : g \in store'[x]
      BY <1>1 DEF EntryInv
    <2>3. \A x \in ToSet(todo') : Whole(x)' /\ x \notin inFlight'
      BY <1>1, <1>2, NoneToEnter DEF StageInv
    <2>4. (Readable(ledger) \cup ledger.loaded \subseteq entered)'
      BY <1>1 DEF EntryInv
    <2>5. \A x \in (entered \cup owed)' : Whole(x)'
      BY <1>1, <1>3, <2>1 DEF EntryInv, DiskInv, SpoolTypeOK
    <2>6. pc' # "delete"
      BY <1>1
    <2> QED BY <2>2, <2>3, <2>4, <2>5, <2>6 DEF EntryInv
  <1>15. Kept'
    BY <1>1, <1>3 DEF SpoolTypeOK, Kept, Whole
  <1>16. DueInv'
    BY <1>1, <1>3 DEF DueInv, NeverInsertedTwice
  <1> QED BY <1>11, <1>12, <1>13, <1>14, <1>15, <1>16

LEMMA DeleteEnteredKeeps ==
    ASSUME SpoolInv, DeleteEntered
    PROVE  SpoolInv'
  <1> USE Sizes DEF SpoolInv, sinkVars, historyVars
  <1>1. /\ pc = "delete" /\ lock = "post" /\ todo # <<>> /\ todo \in Seq(Window)
        /\ Head(todo) \in entered /\ Delete(Head(todo))
        /\ todo' = Tail(todo) /\ pc' = "record"
        /\ UNCHANGED <<next, lock, sinkVars, ledger, after, forgotten, historyVars, lost>>
    BY DEF DeleteEntered, StageInv, EntryInv
  <1>2. todo' \in Seq(Window) /\ ToSet(todo) = {Head(todo)} \cup ToSet(todo')
    BY <1>1, ToSetTail
  <1> DEFINE w == Head(todo)
  <1>3. /\ w \in Window /\ Whole(w) /\ w \in entered
        /\ map' = map \ {w} /\ inFlight' = inFlight \ {w} /\ owed' = owed \ {w}
        /\ map' \in SUBSET Window /\ Cardinality(map') <= Budget
        /\ dir' \in [Window -> {"absent", "writing", "closed"}]
        /\ \A x \in Window : dir'[x] = dir[x] \/ (x = w /\ dir'[x] = "absent")
    BY <1>1, DeleteFacts
  <1>4. ToSet(todo) = {w} \cup ToSet(todo')
    BY <1>2
  <1> HIDE DEF w
  <1>11. SpoolTypeOK'
    BY <1>1, <1>3 DEF SpoolTypeOK
  <1>12. DiskInv'
    <2>1. \A x \in Window : Dealt(x)' <=> Dealt(x)
      BY <1>1 DEF Dealt
    <2>2. \A x \in Window : dir[x] = "absent" => dir'[x] = "absent"
      BY <1>3
    <2>3. lock' # "derive"
      BY <1>1
    <2>4. \A x \in (map \cup entered \cup lost \cup told \cup held \cup posting)' :
              x \in Window /\ x < next
      BY <1>1, <1>3 DEF DiskInv
    <2>5. \A x \in lost' : dir'[x] = "absent"
      BY <1>1, <2>2 DEF DiskInv
    <2>6. next' = next /\ \A x \in Window : ~Dealt(x)' => dir'[x] = "absent"
      BY <1>1, <2>1, <2>2 DEF DiskInv
    <2> QED BY <2>3, <2>4, <2>5, <2>6 DEF DiskInv
  <1>13. StageInv'
    BY <1>1, <1>2 DEF StageInv
  <1>14. EntryInv'
    <2>1. \A x \in Window : Whole(x)' <=> Whole(x)
      BY <1>1 DEF Whole
    <2>2. \A x \in posting' : \A g \in 1 .. grain' - 1 : g \in store'[x]
      BY <1>1 DEF EntryInv
    <2>3. \A x \in ToSet(todo') : Whole(x)' /\ x \notin inFlight'
      <3>1. \A x \in ToSet(todo') : x \in Window
        BY <1>2 DEF ToSet
      <3> QED BY <1>3, <1>4, <2>1, <3>1 DEF EntryInv
    <2>4. (Readable(ledger) \cup ledger.loaded \subseteq entered)'
      BY <1>1 DEF EntryInv
    <2>5. \A x \in (entered \cup owed)' : Whole(x)'
      BY <1>1, <1>3, <2>1 DEF EntryInv, DiskInv, SpoolTypeOK
    <2>6. pc' # "delete"
      BY <1>1
    <2> QED BY <2>2, <2>3, <2>4, <2>5, <2>6 DEF EntryInv
  <1>15. Kept'
    BY <1>1, <1>3 DEF SpoolTypeOK, Kept, Whole
  <1>16. DueInv'
    <2>1. forgotten /\ forgotten'
      BY <1>1 DEF DueInv
    <2> QED BY <1>1, <1>3, <1>4, <2>1 DEF DueInv, NeverInsertedTwice
  <1> QED BY <1>11, <1>12, <1>13, <1>14, <1>15, <1>16

LEMMA TakeKeeps ==
    ASSUME SpoolInv, Take
    PROVE  SpoolInv'
  <1> USE Sizes DEF SpoolInv
  <1> DEFINE w == Min(Offered)
  <1>1. /\ pc = "take" /\ lock = "free" /\ w \in map /\ w \notin inFlight /\ w \notin owed
    <2>1. Offered \in SUBSET Nat /\ Offered # {}
      BY DEF Take, Offered, SpoolTypeOK
    <2>2. \E x \in Offered : \A y \in Offered : x <= y
      BY <2>1, LeastNatural
    <2>3. w \in Offered
      BY <2>2 DEF Min
    <2> QED BY <2>3 DEF Take, Offered
  <1>2. \/ /\ inFlight' = inFlight \cup {w} /\ held' = held \cup {w} /\ pc' = "batch"
           /\ UNCHANGED <<dir, map, owed, unreclaimable, lost, faults>>
        \/ /\ map' = map \ {w} /\ lost' = lost \cup ({w} \ entered)
           /\ dir' = [x \in Window |-> IF x = w THEN "absent" ELSE dir[x]]
           /\ UNCHANGED <<inFlight, owed, unreclaimable, held, pc>>
    BY DEF Take, Removed
  <1>3. UNCHANGED <<next, lock, posting, grain, store, ledger, todo, after, forgotten,
                    entered, told, interrupted>>
    BY DEF Take, historyVars
  <1>4. Cardinality(map') <= Budget
    <2>1. map \in SUBSET Window /\ map' \in SUBSET map /\ Cardinality(map) <= Budget
      BY <1>2 DEF SpoolTypeOK
    <2> QED BY <2>1, SmallerFits
  <1>5. forgotten /\ todo = <<>> /\ (w \in told \cup ledger.loaded => w \in interrupted)
    BY <1>1, NoneToEnter DEF StageInv, DueInv
  <1> HIDE DEF w
  <1> USE <1>1, <1>2, <1>3, <1>4, <1>5
  <1>11. SpoolTypeOK'
    BY DEF SpoolTypeOK
  <1>12. DiskInv'
    <2>1. \A x \in Window : Dealt(x)' <=> Dealt(x)
      BY DEF Dealt
    <2>2. \A x \in Window : dir'[x] = dir[x] \/ (x = w /\ dir'[x] = "absent")
      OBVIOUS
    <2>3. \A x \in (map \cup entered \cup lost \cup told \cup held \cup posting)' :
              x \in map \cup entered \cup lost \cup told \cup held \cup posting
      OBVIOUS
    <2>4. \A x \in lost' : x \in lost \/ (x = w /\ dir'[w] = "absent")
      BY DEF SpoolTypeOK
    <2>5. \A x \in lost' : dir'[x] = "absent"
      BY <2>2, <2>4 DEF DiskInv
    <2>6. \A x \in Window : ~Dealt(x)' => dir'[x] = "absent"
      BY <2>1, <2>2 DEF DiskInv
    <2> QED BY <2>3, <2>5, <2>6 DEF DiskInv
  <1>13. StageInv'
    BY DEF SpoolTypeOK, DiskInv, StageInv
  <1>14. EntryInv'
    <2>1. \A x \in Window : Whole(x)' <=> Whole(x)
      BY DEF Whole
    <2>2. todo = <<>> /\ todo' = <<>> /\ posting = {} /\ posting' = {} /\ pc' # "delete"
      BY DEF StageInv
    <2>3. (Readable(ledger) \cup ledger.loaded \subseteq entered)'
      BY DEF EntryInv
    <2>4. \A x \in (entered \cup owed)' : Whole(x)'
      BY <2>1 DEF EntryInv, DiskInv, SpoolTypeOK
    <2> QED BY <2>2, <2>3, <2>4, NoneToEnter DEF EntryInv
  <1>15. Kept'
    BY DEF SpoolTypeOK, DiskInv, Dealt, EntryInv, Kept, Whole
  <1>16. DueInv'
    BY NoneToEnter DEF DueInv, NeverInsertedTwice
  <1> QED BY <1>11, <1>12, <1>13, <1>14, <1>15, <1>16

LEMMA WriteEntryKeeps ==
    ASSUME SpoolInv, WriteEntry
    PROVE  SpoolInv'
  <1> USE Sizes DEF SpoolInv
  <1> DEFINE w == Head(todo)
  <1>1. /\ pc = "record" /\ lock = "post" /\ todo # <<>> /\ todo \in Seq(Window)
        /\ after \in {"take", "final", "idle"}
    BY DEF WriteEntry, StageInv
  <1>2. /\ w \in Window /\ w \in ToSet(todo) /\ Tail(todo) \in Seq(Window)
        /\ ToSet(todo) = {w} \cup ToSet(Tail(todo))
    BY <1>1, ToSetTail
  <1>3. Whole(w) /\ w \notin inFlight
    BY <1>2 DEF EntryInv
  <1>4. UNCHANGED <<next, dir, lock, map, inFlight, unreclaimable, sinkVars, after,
                    forgotten, told, interrupted, lost>>
    BY DEF WriteEntry
  <1>5. /\ w \in map \/ (todo' = Tail(todo) /\ pc' = "record")
        /\ \/ pc' = "delete" /\ todo' = todo /\ owed' = owed /\ w \in map
              /\ ledger' = Recorded(ledger, w) /\ entered' = entered \cup {w}
           \/ pc' = "record" /\ todo' = Tail(todo) /\ w \notin map /\ owed' = owed
              /\ ledger' = ledger /\ entered' = entered
           \/ pc' = "record" /\ todo' = Tail(todo) /\ w \in map
              /\ owed' = owed \cup {w} /\ ledger' \in RecordFailures(ledger, w)
              /\ entered' = entered \cup Readable(ledger')
    BY <1>1 DEF WriteEntry
  <1>6. /\ ledger \in LedgerType /\ ledger' \in LedgerType
        /\ Readable(ledger') \cup ledger'.loaded \subseteq entered'
        /\ entered \subseteq entered'
        /\ entered' \subseteq entered \cup {w}
        /\ w \in entered' \ entered => w \in map
        /\ ledger'.loaded \subseteq ledger.loaded \cup {w}
        /\ w \in ledger'.loaded \ ledger.loaded => todo' = todo
    <2>1. ledger \in LedgerType /\ Readable(ledger) \cup ledger.loaded \subseteq entered
      BY DEF StageInv, EntryInv
    <2>2. CASE /\ ledger' = Recorded(ledger, w) /\ entered' = entered \cup {w}
               /\ w \in map /\ todo' = todo
      <3>1. /\ Recorded(ledger, w) \in LedgerType
            /\ Readable(Recorded(ledger, w)) \subseteq Readable(ledger) \cup {w}
            /\ Recorded(ledger, w).loaded = ledger.loaded \cup {w}
        BY <1>2, <2>1, LedgerReads
      <3> QED BY <2>1, <2>2, <3>1
    <2>3. CASE ledger' = ledger /\ entered' = entered
      BY <2>1, <2>3
    <2>4. CASE /\ ledger' \in RecordFailures(ledger, w) /\ w \in map
               /\ entered' = entered \cup Readable(ledger')
      <3>1. /\ ledger' \in LedgerType /\ ledger'.loaded = ledger.loaded
            /\ Readable(ledger') \subseteq Readable(ledger) \cup {w}
        BY <1>2, <2>1, <2>4, LedgerReads
      <3> QED BY <2>1, <2>4, <3>1
    <2> QED BY <1>5, <2>2, <2>3, <2>4
  <1>7. /\ owed \subseteq owed' /\ owed' \subseteq owed \cup {w}
        /\ w \in owed' \ owed => w \in map
        /\ todo' \in Seq(Window) /\ ToSet(todo') \subseteq ToSet(todo)
        /\ ToSet(todo) \cap map \subseteq ToSet(todo') \cup owed'
    BY <1>1, <1>2, <1>5
  <1>8. pc' = "delete" => todo' = todo /\ w \in entered'
    BY <1>5
  <1>9. pc' \in {"record", "delete"}
    BY <1>5
  <1>10. \A x \in Window : Whole(x)' <=> Whole(x)
    BY <1>4 DEF Whole, sinkVars
  <1> HIDE DEF w
  <1>11. SpoolTypeOK'
    BY <1>3, <1>4, <1>7, <1>9 DEF SpoolTypeOK, sinkVars
  <1>12. DiskInv'
    <2>1. \A x \in Window : Dealt(x)' <=> Dealt(x)
      BY <1>4 DEF Dealt
    <2>2. \A x \in entered' : x \in map \cup entered
      BY <1>6
    <2> QED BY <1>4, <2>1, <2>2 DEF DiskInv, sinkVars
  <1>13. StageInv'
    BY <1>1, <1>4, <1>6, <1>7, <1>9 DEF StageInv, sinkVars
  <1>14. EntryInv'
    <2>1. \A x \in posting' : \A g \in 1 .. grain' - 1 : g \in store'[x]
      BY <1>4 DEF EntryInv, sinkVars
    <2>2. \A x \in ToSet(todo') : Whole(x)' /\ x \notin inFlight'
      <3>1. \A x \in ToSet(todo) : x \in Window
        BY <1>1 DEF ToSet
      <3> QED BY <1>4, <1>7, <1>10, <3>1 DEF EntryInv
    <2>3. pc' = "delete" => todo' # <<>> /\ Head(todo') \in entered'
      BY <1>1, <1>8 DEF w
    <2>4. \A x \in (entered \cup owed)' : Whole(x)'
      BY <1>2, <1>3, <1>6, <1>7, <1>10 DEF EntryInv, DiskInv, SpoolTypeOK
    <2> QED BY <1>6, <2>1, <2>2, <2>3, <2>4 DEF EntryInv
  <1>15. Kept'
    BY <1>4 DEF Kept, Whole, sinkVars
  <1>16. DueInv'
    <2>1. forgotten /\ forgotten'
      BY <1>1, <1>4 DEF DueInv
    <2>2. (told \cup ledger'.loaded) \cap map \subseteq interrupted \cup owed' \cup ToSet(todo')
      BY <1>2, <1>6, <1>7, <2>1 DEF DueInv
    <2>3. held' = held /\ posting' = posting /\ w \notin held \cup posting
      BY <1>2, <1>4 DEF DueInv, sinkVars
    <2>4. (owed' \cup ToSet(todo')) \cap (held \cup posting) = {}
      BY <1>2, <1>7, <2>3 DEF DueInv
    <2> QED BY <1>4, <1>6, <2>1, <2>2, <2>3, <2>4 DEF DueInv, NeverInsertedTwice
  <1> QED BY <1>11, <1>12, <1>13, <1>14, <1>15, <1>16

LEMMA CrashKeeps ==
    ASSUME SpoolInv, Crash
    PROVE  SpoolInv'
  <1> USE Sizes DEF SpoolInv
  <1>1. /\ pc' = "down" /\ lock' = "free" /\ todo' = <<>>
        /\ forgotten' = FALSE /\ told' = {} /\ interrupted' = {}
        /\ map' = {} /\ inFlight' = {} /\ owed' = {} /\ held' = {} /\ posting' = {}
        /\ next' = IF lock = "derive" THEN next + 1 ELSE next
        /\ entered' = entered \cup Readable(ledger')
        /\ UNCHANGED <<dir, grain, store, after, lost>>
    BY DEF Crash
  <1>2. ledger \in LedgerType /\ Readable(ledger) \cup ledger.loaded \subseteq entered
    BY DEF StageInv, EntryInv
  <1>3. /\ ledger' \in LedgerType /\ ledger'.loaded = {}
        /\ \A x \in Readable(ledger') :
               x \in entered \/ (x \in map /\ Whole(x))
    <2>1. CASE ledger' = Forgotten(ledger)
      BY <1>2, <2>1, LedgerRestarts
    <2>2. ASSUME pc = "record", todo # <<>>, Head(todo) \in map,
                 NEW cut \in Cut(ledger, Head(todo)), ledger' = Forgotten(cut)
          PROVE  /\ ledger' \in LedgerType /\ ledger'.loaded = {}
                 /\ \A x \in Readable(ledger') :
                        x \in entered \/ (x \in map /\ Whole(x))
      <3>1. todo \in Seq(Window)
        BY DEF StageInv
      <3>2. Head(todo) \in Window /\ Head(todo) \in ToSet(todo)
        BY <2>2, <3>1, ToSetTail
      <3>3. cut \in LedgerType /\ Readable(cut) \subseteq Readable(ledger) \cup {Head(todo)}
        BY <1>2, <3>2, LedgerReads
      <3>4. ledger' \in LedgerType /\ ledger'.loaded = {} /\ Readable(ledger') = Readable(cut)
        BY <2>2, <3>3, LedgerRestarts
      <3>5. Whole(Head(todo))
        BY <3>2 DEF EntryInv
      <3> QED BY <1>2, <2>2, <3>3, <3>4, <3>5
    <2> QED BY <2>1, <2>2 DEF Crash
  <1>4. \A x \in Window : Whole(x)' <=> Whole(x)
    BY <1>1 DEF Whole
  <1>5. Cardinality({}) = 0
    BY FS_EmptySet
  <1>6. /\ next' \in 1 .. NumWindows + 1 /\ next \in 1 .. NumWindows + 1
        /\ next' >= next /\ (\A x \in Window : x < next' <=> Dealt(x))
    BY <1>1 DEF SpoolTypeOK, DiskInv, Dealt
  <1>7. \A x \in entered' : x \in Window /\ x < next /\ Whole(x)
    BY <1>1, <1>3 DEF EntryInv, DiskInv, SpoolTypeOK
  <1>11. SpoolTypeOK'
    <2>1. (forgotten \in BOOLEAN)'
      BY <1>1
    <2> QED BY <1>1, <1>5, <1>6, <2>1 DEF SpoolTypeOK
  <1>12. DiskInv'
    <2>1. \A x \in Window : x < next => x < next'
      BY <1>6
    <2>2. \A x \in entered' \cup lost' : x \in Window /\ x < next'
      BY <1>1, <1>7, <2>1 DEF DiskInv
    <2>3. \A x \in Window : ~Dealt(x)' => dir'[x] = "absent"
      BY <1>1, <1>6 DEF DiskInv, Dealt
    <2> QED BY <1>1, <2>2, <2>3 DEF DiskInv
  <1>13. StageInv'
    BY <1>1, <1>3, NoneToEnter DEF StageInv
  <1>14. EntryInv'
    <2>1. \A x \in (entered \cup owed)' : Whole(x)'
      BY <1>1, <1>4, <1>7
    <2> QED BY <1>1, <1>3, <2>1, NoneToEnter DEF EntryInv
  <1>15. Kept'
    <2> SUFFICES ASSUME NEW x, x \in 1 .. next' - 1
                 PROVE  dir'[x] # "absent" \/ x \in lost' \/ Whole(x)'
      BY DEF Kept
    <2>1. x \in Window /\ Dealt(x)
      <3>1. next' \in 1 .. NumWindows + 1
        BY <1>6
      <3>2. x \in Window /\ x < next'
        BY <3>1, BelowNext
      <3> QED BY <1>6, <3>2
    <2>2. CASE x < next
      BY <1>1, <1>4, <1>6, <2>1, <2>2 DEF Kept
    <2>3. CASE x = next /\ lock = "derive"
      BY <1>1, <2>3 DEF DiskInv
    <2> QED BY <2>1, <2>2, <2>3 DEF Dealt
  <1>16. DueInv'
    BY <1>1, <1>3, NoneToEnter DEF DueInv, NeverInsertedTwice
  <1> QED BY <1>11, <1>12, <1>13, <1>14, <1>15, <1>16

LEMMA StoreDoneKeeps ==
    ASSUME SpoolInv, StoreDone
    PROVE  SpoolInv'
  <1> USE Sizes DEF SpoolInv
  <1> DEFINE m == map \cup {next}
             E == Evicted(m)
  <1>1. /\ lock = "derive" /\ dir[next] = "closed" /\ lock' = "free"
        /\ inFlight' = inFlight \cap map' /\ owed' = owed \cap map'
        /\ next' = next + 1
        /\ UNCHANGED <<held, posting, grain, store, ledger, todo, pc, after, forgotten,
                       entered, told, interrupted>>
    BY DEF StoreDone, sinkVars, recordVars, historyVars
  <1>2. /\ next \in Window /\ next \in Nat /\ next \notin map /\ m \in SUBSET Window
        /\ \A x \in m : x \in Window /\ dir[x] = "closed" /\ Dealt(x)
    BY <1>1 DEF SpoolTypeOK, DiskInv, Dealt
  <1>3. /\ E \subseteq m /\ Cardinality(m \ E) <= Budget
        /\ E # {} => Cardinality(m) > Budget
    BY <1>2, EvictedFits
  <1>4. \/ /\ map' = m \ E /\ lost' = lost \cup (E \ entered)
           /\ dir' = [x \in Window |-> IF x \in E THEN "absent" ELSE dir[x]]
        \/ /\ \E stuck \in E : map' = m \ {stuck}
           /\ UNCHANGED <<dir, lost>>
    BY DEF StoreDone, Enforce, Removed
  <1> HIDE DEF E
  <1>5. Cardinality(map') <= Budget
    <2>1. CASE map' = m \ E
      BY <1>3, <2>1
    <2>2. ASSUME NEW stuck \in E, map' = m \ {stuck} PROVE Cardinality(map') <= Budget
      <3>1. /\ IsFiniteSet(map) /\ Cardinality(map) \in Nat /\ Cardinality(map) <= Budget
        BY <1>2, FS_Subset, FS_CardinalityType DEF SpoolTypeOK
      <3>2. IsFiniteSet(m) /\ Cardinality(m) = Cardinality(map) + 1
        BY <1>2, <3>1, FS_AddElement
      <3>3. stuck \in m
        BY <1>3
      <3>4. Cardinality(m \ {stuck}) = Cardinality(m) - 1
        BY <3>2, <3>3, FS_RemoveElement
      <3> QED BY <2>2, <3>1, <3>2, <3>4
    <2> QED BY <1>4, <2>1, <2>2
  <1>6. /\ map' \subseteq m
        /\ dir' \in [Window -> {"absent", "writing", "closed"}]
        /\ \A x \in Window : dir'[x] = dir[x] \/ (x \notin map' /\ dir'[x] = "absent")
        /\ \A x \in Window : dir'[x] # dir[x] => x \in lost' \/ x \in entered
        /\ lost \subseteq lost'
        /\ \A x \in lost' : x \in lost \/ (x \in m /\ dir'[x] = "absent")
    <2>1. dir \in [Window -> {"absent", "writing", "closed"}]
      BY DEF SpoolTypeOK
    <2> HIDE DEF m
    <2>2. CASE /\ map' = m \ E /\ lost' = lost \cup (E \ entered)
               /\ dir' = [x \in Window |-> IF x \in E THEN "absent" ELSE dir[x]]
      <3>1. \A x \in Window : dir'[x] = dir[x] \/ (x \in E /\ dir'[x] = "absent")
        BY <2>2
      <3>2. \A x \in E : x \in Window /\ x \in m /\ dir'[x] = "absent" /\ x \notin map'
        BY <1>2, <1>3, <2>2
      <3>3. dir' \in [Window -> {"absent", "writing", "closed"}]
        BY <2>1, <2>2
      <3> QED BY <2>2, <3>1, <3>2, <3>3
    <2>3. CASE (\E stuck \in E : map' = m \ {stuck}) /\ UNCHANGED <<dir, lost>>
      BY <2>1, <2>3
    <2> QED BY <1>4, <2>2, <2>3
  <1> HIDE DEF m
  <1>7. /\ \A x \in Window : x < next' <=> Dealt(x)
        /\ \A x \in Window : x < next => Dealt(x)
        /\ \A x \in Window : Dealt(x)' <=> Dealt(x)
    BY <1>1, <1>2 DEF Dealt
  <1>8. todo = <<>> /\ pc \notin {"record", "delete", "down"}
    BY <1>1 DEF StageInv
  <1>9. \A x \in Window : Whole(x)' <=> Whole(x)
    BY <1>1 DEF Whole
  <1>10. m = map \cup {next}
    BY DEF m
  <1>11. SpoolTypeOK'
    BY <1>1, <1>2, <1>5, <1>6 DEF SpoolTypeOK
  <1>12. DiskInv'
    <2>1. \A x \in map' \cup entered \cup lost' \cup told \cup held \cup posting :
              x \in Window /\ Dealt(x)
      BY <1>2, <1>6, <1>7 DEF DiskInv
    <2>2. \A x \in lost' : dir'[x] = "absent"
      BY <1>2, <1>6 DEF DiskInv
    <2>3. \A x \in Window : ~Dealt(x)' => dir'[x] = "absent"
      BY <1>6, <1>7 DEF DiskInv
    <2> QED BY <1>1, <1>7, <2>1, <2>2, <2>3 DEF DiskInv
  <1>13. StageInv'
    BY <1>1, <1>8 DEF StageInv
  <1>14. EntryInv'
    <2>1. \A x \in (entered \cup owed)' : Whole(x)'
      BY <1>1, <1>9 DEF EntryInv, DiskInv, SpoolTypeOK
    <2>2. \A x \in posting' : \A g \in 1 .. grain' - 1 : g \in store'[x]
      BY <1>1 DEF EntryInv
    <2>3. (Readable(ledger) \cup ledger.loaded \subseteq entered)'
      BY <1>1 DEF EntryInv
    <2> QED BY <1>1, <1>8, <2>1, <2>2, <2>3, NoneToEnter DEF EntryInv
  <1>15. Kept'
    <2> SUFFICES ASSUME NEW x \in 1 .. next' - 1
                 PROVE  dir'[x] # "absent" \/ x \in lost' \/ Whole(x)'
      BY DEF Kept
    <2>1. x \in Window /\ x < next'
      BY <1>1, <1>2
    <2>2. CASE dir'[x] # dir[x]
      BY <1>6, <1>9, <2>1, <2>2 DEF EntryInv
    <2>3. CASE x < next
      <3>1. x \in 1 .. next - 1
        BY <1>2, <2>1, <2>3
      <3> QED BY <1>6, <1>9, <2>1, <2>2, <3>1 DEF Kept
    <2>4. CASE x = next
      BY <1>1, <2>2, <2>4
    <2> QED BY <1>1, <1>2, <2>1, <2>3, <2>4
  <1>16. DueInv'
    <2>1. \A x \in told \cup ledger.loaded : x \in Window /\ x < next
      BY DEF DiskInv, EntryInv
    <2>2. (told \cup ledger.loaded) \cap map' \subseteq map
      BY <1>2, <1>6, <1>10, <2>1
    <2> QED BY <1>1, <2>2 DEF DueInv, NeverInsertedTwice
  <1> QED BY <1>11, <1>12, <1>13, <1>14, <1>15, <1>16

LEMMA OpenKeeps ==
    ASSUME SpoolInv, Open
    PROVE  SpoolInv'
  <1> USE Sizes DEF SpoolInv
  <1> DEFINE closed == {x \in Window : dir[x] = "closed"}
             E == Evicted(closed)
  <1>1. /\ pc = "down" /\ pc' = "start" /\ lock = "free" /\ ~forgotten
        /\ inFlight = {} /\ owed = {} /\ ledger' = Opened(ledger)
        /\ UNCHANGED <<next, lock, inFlight, owed, held, posting, grain, store, todo, after,
                       forgotten, entered, told, interrupted>>
    BY DEF Open, StageInv, sinkVars, historyVars
  <1>2. /\ map' = closed \ E
        /\ dir' = [x \in Window |-> IF x \in map' THEN "closed" ELSE "absent"]
        /\ lost' = lost \cup {x \in E : x \notin entered}
                        \cup {x \in Window : dir[x] = "writing"}
    BY DEF Open
  <1>3. E \subseteq closed /\ Cardinality(map') <= Budget
    BY <1>2, EvictedFits
  <1> HIDE DEF E
  <1>4. /\ map' \subseteq Window /\ \A x \in map' : dir[x] = "closed" /\ dir'[x] = "closed"
        /\ \A x \in Window : x \notin map' => dir'[x] = "absent"
        /\ \A x \in lost' : x \in lost \/ (x \in Window /\ dir[x] # "absent" /\ x \notin map')
        /\ lost \subseteq lost'
        /\ \A x \in Window : dir[x] # "absent" /\ dir'[x] = "absent"
               => x \in lost' \/ x \in entered
    BY <1>2, <1>3 DEF SpoolTypeOK
  <1>5. \A x \in Window : dir[x] # "absent" => x < next
    BY <1>1 DEF DiskInv, Dealt
  <1>6. /\ ledger' \in LedgerType
        /\ Readable(ledger') \cup ledger'.loaded \subseteq entered
    <2>1. ledger \in LedgerType /\ Readable(ledger) \subseteq entered
      BY DEF StageInv, EntryInv
    <2> QED BY <1>1, <2>1, LedgerRestarts
  <1>7. todo = <<>>
    BY <1>1 DEF StageInv
  <1>9. \A x \in Window : Whole(x)' <=> Whole(x)
    BY <1>1 DEF Whole
  <1> HIDE DEF closed
  <1>11. SpoolTypeOK'
    <2>1. dir' \in [Window -> {"absent", "writing", "closed"}]
      BY <1>2
    <2> QED BY <1>1, <1>3, <1>4, <2>1 DEF SpoolTypeOK
  <1>12. DiskInv'
    <2>1. \A x \in map' \cup entered \cup lost' \cup told \cup held \cup posting :
              x \in Window /\ x < next
      BY <1>4, <1>5 DEF DiskInv
    <2>2. \A x \in lost' : dir'[x] = "absent"
      BY <1>4 DEF DiskInv
    <2>3. \A x \in Window : ~Dealt(x)' => dir'[x] = "absent"
      BY <1>1, <1>4, <1>5 DEF Dealt
    <2> QED BY <1>1, <2>1, <2>2, <2>3 DEF DiskInv
  <1>13. StageInv'
    BY <1>1, <1>6, <1>7 DEF StageInv
  <1>14. EntryInv'
    <2>1. \A x \in (entered \cup owed)' : Whole(x)'
      BY <1>1, <1>9 DEF EntryInv, DiskInv
    <2>2. \A x \in posting' : \A g \in 1 .. grain' - 1 : g \in store'[x]
      BY <1>1 DEF EntryInv
    <2> QED BY <1>1, <1>6, <1>7, <2>1, <2>2, NoneToEnter DEF EntryInv
  <1>15. Kept'
    <2> SUFFICES ASSUME NEW x \in 1 .. next' - 1
                 PROVE  dir'[x] # "absent" \/ x \in lost' \/ Whole(x)'
      BY DEF Kept
    <2>1. x \in Window /\ x \in 1 .. next - 1
      BY <1>1 DEF SpoolTypeOK
    <2> QED BY <1>4, <1>9, <2>1 DEF Kept, EntryInv
  <1>16. DueInv'
    BY <1>1, <1>7, NoneToEnter DEF DueInv, NeverInsertedTwice
  <1> QED BY <1>11, <1>12, <1>13, <1>14, <1>15, <1>16

LEMMA StaysInv ==
    ASSUME SpoolInv, UNCHANGED vars
    PROVE  SpoolInv'
  BY DEF vars, spoolVars, sinkVars, recordVars, historyVars, SpoolInv, SpoolTypeOK, DiskInv,
         Dealt, StageInv, EntryInv, Kept, DueInv, NeverInsertedTwice, Whole

LEMMA Inductive == SpoolInv /\ [Next]_vars => SpoolInv'
  <1> SUFFICES ASSUME SpoolInv, [Next]_vars PROVE SpoolInv'
    OBVIOUS
  <1>1. CASE Store
    BY <1>1, StoreBeginKeeps, StoreCloseKeeps, StoreDoneKeeps, StoreFailKeeps DEF Store
  <1>2. CASE Posting
    BY <1>2, StartKeeps, ForgetKeeps, ForgetDoneKeeps, TakeKeeps, TakeNoneKeeps,
       NotDueKeeps, PostKeeps, SendGrainKeeps, SendDoneKeeps, SendFailKeeps,
       WriteEntryKeeps, DeleteEnteredKeeps, RecordDoneKeeps, FinalKeeps, NextPassKeeps
       DEF Posting
  <1> QED BY <1>1, <1>2, PanicKeeps, CrashKeeps, OpenKeeps, StaysInv DEF Next

LEMMA InvHolds == Spec => []SpoolInv
  BY Starts, Inductive, PTL DEF Spec

(* Whatever is refused, panics or dies, and wherever: what is entered is   *)
(* whole in the store, and a window that was closed is on the disk, whole  *)
(* in the store, or given up and counted.                                  *)
THEOREM SpoolNothingForgotten == Spec => []NothingForgotten
  <1>1. SpoolInv => NothingForgotten
    BY DEF SpoolInv, EntryInv, Kept, NothingForgotten, EnteredIsWhole
  <1> QED BY <1>1, InvHolds, PTL

(* The posting stage inserts no window again that it was told had landed   *)
(* or that the ledger has, whatever failed, was evicted or crashed since,  *)
(* but one that a panic took out of its hands before the deletion.         *)
THEOREM SpoolNeverInsertsTwice == Spec => []NeverInsertedTwice
  <1>1. SpoolInv => NeverInsertedTwice
    BY DEF SpoolInv, DueInv
  <1> QED BY <1>1, InvHolds, PTL
-----------------------------------------------------------------------------
(* The windows' fates, as the promise sees them.                           *)
LEMMA FateValue ==
    ASSUME NEW w
    PROVE  FateOf(w) = IF w \in entered THEN "recorded"
                       ELSE IF w \in lost THEN "lost"
                       ELSE IF dir[w] = "closed" THEN "spooled" ELSE "open"
  BY DEF FateOf

LEMMA FateValueNext ==
    ASSUME NEW w
    PROVE  FateOf(w)' = IF w \in entered' THEN "recorded"
                        ELSE IF w \in lost' THEN "lost"
                        ELSE IF dir'[w] = "closed" THEN "spooled" ELSE "open"
  BY DEF FateOf

(* A step that gives windows up, if any, and lands and enters nothing.     *)
LEMMA GivingUp ==
    ASSUME SpoolInv, entered' = entered, lost \subseteq lost', lost' \subseteq Window,
           store' = store,
           \A w \in Window : w \in lost' \cup entered
                              \/ (dir'[w] = "closed" <=> dir[w] = "closed")
    PROVE  Fate!Next
  <1> DEFINE S == (lost' \ lost) \ entered
  <1>1. S \in SUBSET Window
    OBVIOUS
  <1>2. \A w \in S : FateOf(w) \in {"open", "spooled"}
    BY FateValue
  <1>3. \A w \in Window : FateOf(w)' = IF w \in S THEN "lost" ELSE FateOf(w)
    <2> SUFFICES ASSUME NEW w \in Window
                 PROVE  FateOf(w)' = IF w \in S THEN "lost" ELSE FateOf(w)
      OBVIOUS
    <2> QED BY FateValue, FateValueNext
  <1>4. \A w \in Window : Whole(w)' <=> Whole(w)
    BY DEF Whole
  <1> HIDE DEF S
  <1>5. Fate!GiveUp(S)
    BY <1>1, <1>2, <1>3, <1>4 DEF Fate!GiveUp, Fate!Becomes
  <1> QED BY <1>1, <1>5 DEF Fate!Next

(* A step that enters a window, or enters it again.                        *)
LEMMA Entering ==
    ASSUME SpoolInv, NEW w \in Window, lost' = lost, dir' = dir, store' = store,
           entered \subseteq entered', entered' \subseteq entered \cup {w},
           w \in entered' \ entered => w \in map /\ Whole(w)
    PROVE  [Fate!Next]_(Fate!vars)
  <1>1. \A x \in Window : Whole(x)' <=> Whole(x)
    BY DEF Whole
  <1>2. CASE w \in entered' \ entered
    <2>1. dir[w] = "closed" /\ w \notin lost /\ Whole(w)
      BY <1>2 DEF SpoolInv, SpoolTypeOK, DiskInv
    <2>2. FateOf(w) = "spooled"
      BY <1>2, <2>1, FateValue
    <2>3. \A x \in Window : FateOf(x)' = IF x \in {w} THEN "recorded" ELSE FateOf(x)
      <3> SUFFICES ASSUME NEW x \in Window
                   PROVE  FateOf(x)' = IF x = w THEN "recorded" ELSE FateOf(x)
        OBVIOUS
      <3>1. CASE x = w
        BY <1>2, <3>1, FateValueNext
      <3>2. CASE x # w
        <4>1. x \in entered' <=> x \in entered
          BY <3>2
        <4> QED BY <3>2, <4>1, FateValue, FateValueNext
      <3> QED BY <3>1, <3>2
    <2>4. Fate!Record(w)
      BY <1>1, <2>1, <2>2, <2>3 DEF Fate!Record, Fate!Becomes
    <2> QED BY <2>4 DEF Fate!Next
  <1>3. CASE w \notin entered' \ entered
    <2>1. entered' = entered
      BY <1>3
    <2> QED BY <2>1, GivingUp, <1>3 DEF SpoolInv, DiskInv
  <1> QED BY <1>2, <1>3

(* A step that only inserts rows.                                          *)
LEMMA Landing ==
    ASSUME entered' = entered, lost' = lost, dir' = dir,
           \A w \in Window : Whole(w) => Whole(w)'
    PROVE  Fate!Next
  <1> DEFINE S == {w \in Window : Whole(w)'}
  <1>1. \A w \in Window : FateOf(w)' = FateOf(w)
    BY FateValue, FateValueNext
  <1>2. {w \in Window : Whole(w)}' = {w \in Window : Whole(w)} \cup S
    OBVIOUS
  <1>3. Fate!Land(S)
    BY <1>1, <1>2 DEF Fate!Land
  <1> QED BY <1>3 DEF Fate!Next

LEMMA StoreClosePromised ==
    ASSUME SpoolInv, StoreClose
    PROVE  Fate!Next
  <1>1. /\ next \in Window /\ dir[next] = "writing"
        /\ next \notin entered /\ next \notin lost
    BY DEF StoreClose, SpoolInv, SpoolTypeOK, DiskInv, Dealt
  <1>2. /\ dir'[next] = "closed"
        /\ \A x \in Window : x # next => dir'[x] = dir[x]
        /\ UNCHANGED <<entered, lost, store>>
    BY <1>1 DEF StoreClose, SpoolInv, SpoolTypeOK, sinkVars, recordVars, historyVars
  <1>3. FateOf(next) = "open"
    BY <1>1, FateValue
  <1>4. \A x \in Window : FateOf(x)' = IF x \in {next} THEN "spooled" ELSE FateOf(x)
    BY <1>1, <1>2, FateValue, FateValueNext
  <1>5. \A x \in Window : Whole(x)' <=> Whole(x)
    BY <1>2 DEF Whole
  <1>6. Fate!Spool(next)
    BY <1>1, <1>3, <1>4, <1>5 DEF Fate!Spool, Fate!Becomes
  <1> QED BY <1>1, <1>6 DEF Fate!Next

LEMMA GivingUpSteps ==
    ASSUME SpoolInv,
           \/ StoreBegin \/ StoreDone \/ StoreFail \/ Take \/ Open
           \/ (\E w \in Window : Forget(w)) \/ DeleteEntered
    PROVE  Fate!Next
  <1>1. SpoolTypeOK /\ DiskInv /\ StageInv /\ EntryInv
    BY DEF SpoolInv
  <1>2. lost \subseteq Window /\ map \subseteq Window
    BY <1>1 DEF DiskInv
  <1> SUFFICES /\ entered' = entered /\ lost \subseteq lost' /\ lost' \subseteq Window
               /\ store' = store
               /\ \A w \in Window : w \in lost' \cup entered
                                 \/ (dir'[w] = "closed" <=> dir[w] = "closed")
    BY GivingUp
  <1>3. CASE StoreBegin
    <2>1. dir[next] = "absent"
      BY <1>1, <1>3, Sizes DEF StoreBegin, DiskInv, Dealt
    <2>2. UNCHANGED <<entered, lost, store>>
      BY <1>3 DEF StoreBegin, sinkVars, recordVars, historyVars
    <2>3. \A w \in Window : dir'[w] = "closed" <=> dir[w] = "closed"
      BY <1>1, <1>3, <2>1 DEF StoreBegin, SpoolTypeOK
    <2> QED BY <1>2, <2>2, <2>3
  <1>4. CASE StoreDone
    <2> DEFINE m == map \cup {next}
               E == Evicted(m)
    <2>1. m \in SUBSET Window
      BY <1>1, <1>2, <1>4 DEF StoreDone, DiskInv
    <2>2. E \subseteq Window
      BY <2>1, EvictedFits
    <2>3. UNCHANGED <<entered, store>>
      BY <1>4 DEF StoreDone, sinkVars, recordVars, historyVars
    <2>4. \/ /\ lost' = lost \cup (E \ entered)
             /\ dir' = [x \in Window |-> IF x \in E THEN "absent" ELSE dir[x]]
          \/ UNCHANGED <<dir, lost>>
      BY <1>4 DEF StoreDone, Enforce, Removed
    <2> HIDE DEF E
    <2> QED BY <1>2, <2>2, <2>3, <2>4
  <1>5. CASE StoreFail
    <2>1. next \in Window /\ lost' = lost \cup {next}
      BY <1>1, <1>5 DEF StoreFail, DiskInv
    <2>2. UNCHANGED <<entered, store>>
      BY <1>5 DEF StoreFail, sinkVars, recordVars, historyVars
    <2>3. \A w \in Window : w # next => dir'[w] = dir[w]
      BY <1>5 DEF StoreFail, Removed
    <2> QED BY <1>2, <2>1, <2>2, <2>3
  <1>6. CASE Take
    <2> DEFINE w == Min(Offered)
    <2>1. \/ UNCHANGED <<dir, lost>>
          \/ /\ lost' = lost \cup ({w} \ entered)
             /\ dir' = [x \in Window |-> IF x \in {w} THEN "absent" ELSE dir[x]]
      BY <1>6 DEF Take, Removed
    <2>2. UNCHANGED <<entered, store>>
      BY <1>6 DEF Take, historyVars
    <2>3. w \in Window
      <3>1. Offered \in SUBSET Nat /\ Offered # {} /\ Offered \subseteq Window
        BY <1>2, <1>6, Sizes DEF Take, Offered
      <3>2. \E x \in Offered : \A y \in Offered : x <= y
        BY <3>1, LeastNatural
      <3> QED BY <3>1, <3>2 DEF Min
    <2> HIDE DEF w
    <2> QED BY <1>2, <2>1, <2>2, <2>3
  <1>7. CASE Open
    <2> DEFINE closed == {x \in Window : dir[x] = "closed"}
               E == Evicted(closed)
    <2>1. E \subseteq closed
      BY EvictedFits
    <2>2. /\ dir' = [x \in Window |-> IF x \in closed \ E THEN "closed" ELSE "absent"]
          /\ lost' = lost \cup {x \in E : x \notin entered}
                          \cup {x \in Window : dir[x] = "writing"}
          /\ UNCHANGED <<entered, store>>
      BY <1>7 DEF Open, sinkVars, historyVars
    <2> HIDE DEF E
    <2> QED BY <1>2, <2>1, <2>2
  <1>8. ASSUME NEW w \in entered, Delete(w), UNCHANGED <<entered, lost, store>>
        PROVE  /\ entered' = entered /\ lost \subseteq lost' /\ lost' \subseteq Window
               /\ store' = store
               /\ \A x \in Window : x \in lost' \cup entered
                                 \/ (dir'[x] = "closed" <=> dir[x] = "closed")
    BY <1>2, <1>8, DeleteFacts
  <1>9. CASE \E w \in Window : Forget(w)
    <2>1. PICK w \in Window : Forget(w)
      BY <1>9
    <2>2. w \in entered /\ Delete(w) /\ UNCHANGED <<entered, lost, store>>
      BY <1>1, <2>1 DEF Forget, IsLoaded, EntryInv, sinkVars, recordVars, historyVars
    <2> QED BY <1>8, <2>2
  <1>10. CASE DeleteEntered
    <2>1. /\ Head(todo) \in entered /\ Delete(Head(todo))
          /\ UNCHANGED <<entered, lost, store>>
      BY <1>1, <1>10 DEF DeleteEntered, EntryInv, sinkVars, historyVars
    <2> QED BY <1>8, <2>1
  <1> QED BY <1>3, <1>4, <1>5, <1>6, <1>7, <1>9, <1>10

LEMMA WriteEntryPromised ==
    ASSUME SpoolInv, WriteEntry
    PROVE  [Fate!Next]_(Fate!vars)
  <1> DEFINE w == Head(todo)
  <1>1. /\ todo # <<>> /\ todo \in Seq(Window) /\ ledger \in LedgerType
        /\ Readable(ledger) \subseteq entered
    BY DEF WriteEntry, SpoolInv, StageInv, EntryInv
  <1>2. w \in Window /\ Whole(w)
    <2>1. w \in Window /\ w \in ToSet(todo)
      BY <1>1, ToSetTail
    <2> QED BY <2>1 DEF SpoolInv, EntryInv
  <1>3. /\ dir' = dir /\ lost' = lost /\ store' = store
        /\ \/ entered' = entered
           \/ w \in map /\ entered' = entered \cup {w}
           \/ /\ w \in map /\ ledger' \in RecordFailures(ledger, w)
              /\ entered' = entered \cup Readable(ledger')
    BY DEF WriteEntry, sinkVars
  <1>4. \A l \in RecordFailures(ledger, w) : Readable(l) \subseteq Readable(ledger) \cup {w}
    BY <1>1, <1>2, LedgerReads
  <1> HIDE DEF w
  <1>5. /\ entered \subseteq entered' /\ entered' \subseteq entered \cup {w}
        /\ w \in entered' \ entered => w \in map
    BY <1>1, <1>3, <1>4
  <1> QED BY <1>2, <1>3, <1>5, Entering

LEMMA CrashPromised ==
    ASSUME SpoolInv, Crash
    PROVE  [Fate!Next]_(Fate!vars)
  <1>1. /\ dir' = dir /\ lost' = lost /\ store' = store
        /\ entered' = entered \cup Readable(ledger')
        /\ todo \in Seq(Window) /\ ledger \in LedgerType
        /\ Readable(ledger) \subseteq entered /\ lost \subseteq Window
    BY DEF Crash, SpoolInv, StageInv, EntryInv, DiskInv
  <1>2. CASE ledger' = Forgotten(ledger)
    <2>1. Readable(ledger') = Readable(ledger)
      BY <1>1, <1>2, LedgerRestarts
    <2>2. entered' = entered
      BY <1>1, <2>1
    <2>3. Fate!Next
      BY <1>1, <2>2, GivingUp
    <2> QED BY <2>3
  <1>3. ASSUME todo # <<>>, Head(todo) \in map,
               NEW cut \in Cut(ledger, Head(todo)), ledger' = Forgotten(cut)
        PROVE  [Fate!Next]_(Fate!vars)
    <2> DEFINE w == Head(todo)
    <2>1. w \in Window /\ w \in ToSet(todo)
      BY <1>1, <1>3, ToSetTail
    <2>2. Whole(w)
      BY <2>1 DEF SpoolInv, EntryInv
    <2>3. cut \in LedgerType /\ Readable(cut) \subseteq Readable(ledger) \cup {w}
      BY <1>1, <1>3, <2>1, LedgerReads
    <2>4. Readable(ledger') = Readable(cut)
      BY <1>3, <2>3, LedgerRestarts
    <2>5. w \in map
      BY <1>3
    <2> HIDE DEF w
    <2>6. entered \subseteq entered' /\ entered' \subseteq entered \cup {w}
      BY <1>1, <2>3, <2>4
    <2> QED BY <1>1, <2>1, <2>2, <2>5, <2>6, Entering
  <1> QED BY <1>2, <1>3 DEF Crash

(* Every step of the spool is a step of its promise or changes nothing the *)
(* promise speaks of.                                                      *)
LEMMA StepsArePromised ==
    ASSUME SpoolInv, [Next]_vars
    PROVE  [Fate!Next]_(Fate!vars)
  <1>1. CASE Store
    BY <1>1, GivingUpSteps, StoreClosePromised DEF Store
  <1>2. CASE SendGrain \/ SendFail
    <2>1. UNCHANGED <<entered, lost, dir>>
      BY <1>2 DEF SendGrain, SendFail, recordVars, historyVars
    <2>2. ASSUME NEW w \in Window, Whole(w) PROVE Whole(w)'
      <3>1. store'[w] = store[w] \/ store'[w] = store[w] \cup {grain}
        BY <1>2 DEF SendGrain, SendFail
      <3>2. store[w] = Grain /\ grain \in Grain
        BY <1>2, <2>2 DEF Whole, SendGrain, SendFail
      <3>3. store'[w] = Grain
        BY <3>1, <3>2, Zenon
      <3> QED BY <3>3 DEF Whole
    <2>3. Fate!Next
      BY <2>1, <2>2, Landing
    <2> QED BY <2>3
  <1>3. CASE \/ Start \/ ForgetDone \/ TakeNone \/ NotDue \/ Post \/ SendDone
            \/ RecordDone \/ Final \/ NextPass \/ Panic \/ UNCHANGED vars
    <2>1. UNCHANGED <<entered, lost, dir, store>>
      BY <1>3 DEF Start, ForgetDone, TakeNone, NotDue, Post, SendDone, RecordDone, Final,
                  NextPass, Panic, RecordLanded, vars, sinkVars, recordVars, historyVars,
                  spoolVars
    <2>2. lost \subseteq Window
      BY DEF SpoolInv, DiskInv
    <2>3. Fate!Next
      BY <2>1, <2>2, GivingUp
    <2> QED BY <2>3
  <1>4. CASE Open \/ Take \/ (\E w \in Window : Forget(w)) \/ DeleteEntered
    BY <1>4, GivingUpSteps
  <1> QED BY <1>1, <1>2, <1>3, <1>4, WriteEntryPromised, CrashPromised DEF Next, Posting

(* The spool keeps its promise through every fault: a window goes from     *)
(* spooled to entered only when its rows are whole in the store, and what  *)
(* was entered or given up stays so across restarts.                       *)
THEOREM SpoolKeepsPromise == Spec => PromiseKept
  <1>1. Init => Fate!Init
    <2> SUFFICES ASSUME Init PROVE Fate!Init
      OBVIOUS
    <2>1. \A w \in Window : FateOf(w) = "open"
      BY FateValue DEF Init
    <2>2. \A w \in Window : ~Whole(w)
      BY Sizes DEF Init, Whole
    <2> QED BY <2>1, <2>2 DEF Fate!Init
  <1> QED BY <1>1, InvHolds, StepsArePromised, PTL DEF Spec, PromiseKept, Fate!Spec
=============================================================================
