------------------------ MODULE ArchiveRotationProofs ------------------------
(***************************************************************************)
(* Proofs about the recorder's archive, for every number of windows, every *)
(* staging budget, and any number of faults and of starts.                 *)
(*                                                                         *)
(* Core places every window that is on its way: the open segment, the      *)
(* queue, in the order of the numbers, and the publication at the head of  *)
(* it, each under the name it was given or under none.  The others follow  *)
(* from it one by one: what the numbers were spent on, where every window  *)
(* went, what the pass may still take, and what it has left on the disk.   *)
(***************************************************************************)
EXTENDS ArchiveRotation, SequenceTheorems, FiniteSetTheorems, WellFoundedInduction, TLAPS

-----------------------------------------------------------------------------
(* The invariant, in parts.                                                *)

Jobs == [number : Number, window : Window]
Entries == [kind : {"object", "retained", "recovered", "queued", "orphan"},
            id : Number, age : Number]

Types ==
    /\ at \in {"down", "write", "list", "staging", "classify", "evict", "exited"}
    /\ stop \in {"no", "settle", "final"}
    /\ step \in {"idle", "seal", "manifest", "object", "source", "cleanup", "finish"}

NumberTypes ==
    /\ next \in 1 .. NumWindows + 1 /\ open \in Number /\ seq \in Nat /\ faults \in Nat
    /\ seq < next /\ (open # 0 => seq + 1 < next /\ next = open + 1)
    /\ working \in [Number -> Number] /\ (\A n \in Number : working[n] < next)

JobTypes ==
    /\ custody \in [Number -> {"none", "queued", "inflight"}]
    /\ jobs \in Seq(Jobs) /\ job \in [number : Number, window : Number, whole : BOOLEAN]
    /\ done \in Nat
    /\ step = "idle" => outstanding = Len(jobs) + done
    /\ step # "idle" => outstanding = Len(jobs) + done + 1

DiskTypes ==
    /\ recovered \subseteq 1 .. next - 1
    /\ retained \subseteq 1 .. next - 1
    /\ temps \subseteq 1 .. next - 1
    /\ objects \subseteq 1 .. next - 1
    /\ manifests \subseteq 1 .. next - 1
    /\ shipped \subseteq 1 .. next - 1
    /\ given \subseteq 1 .. next - 1
    /\ truncated \subseteq 1 .. next - 1

(* The threads are where their variables say.                              *)
IdleInv ==
    /\ at \in {"down", "exited"} \/ stop = "final" =>
           open = 0 /\ jobs = <<>> /\ step = "idle" /\ done = 0
    /\ at # "classify" => names = {} /\ residue = {}
    /\ at # "evict" => plan = <<>> /\ need = 0 /\ kept = 0

Top == IF open = 0 THEN next ELSE open

QueueInv ==
    /\ \A i, j \in DOMAIN jobs : i < j =>
           jobs[i].number < jobs[j].number /\ jobs[i].window < jobs[j].window
    /\ \A i \in DOMAIN jobs : jobs[i].number < seq /\ jobs[i].window < Top
    /\ step # "idle" =>
           /\ job.window \in Window /\ job.number < seq /\ job.window < Top
           /\ \A i \in DOMAIN jobs :
                  job.number < jobs[i].number /\ job.window < jobs[i].window

CustodyInv ==
    /\ \A n \in Number : custody[n] = "queued" => \E i \in DOMAIN jobs : jobs[i].number = n
    /\ \A n \in Number : custody[n] = "inflight" => step # "idle" /\ n = job.number
    /\ step # "idle" => custody[job.number] = "inflight"

WorkingInv ==
    /\ \A m, n \in Number : working[m] = working[n] /\ working[m] # 0 => m = n
    /\ open # 0 => working[seq] = open
    /\ \A i \in DOMAIN jobs : working[jobs[i].number] \in {0, jobs[i].window}
    /\ step # "idle" => working[job.number] \in {0, job.window}
    /\ step \in {"manifest", "object", "source"} => working[job.number] = job.window
    /\ step = "seal" /\ job.whole => working[job.number] = job.window

(* The pass never has the name of the open segment.                        *)
ByName(e) == e.kind \in {"queued", "orphan"}
ScanInv ==
    /\ listed \subseteq Entries /\ residue \subseteq Entries /\ plan \in Seq(Entries)
    /\ IsFiniteSet(listed) /\ IsFiniteSet(residue)
    /\ names \subseteq Number /\ seq \notin names
    /\ \A e \in listed : IsObject(e) /\ e.age = e.id /\ e.id \in 1 .. next - 1
    /\ \A e \in residue : ~IsObject(e) /\ (ByName(e) => e.id # seq)
    /\ \A e \in residue : e.kind = "queued" => e.age = e.id
    /\ \A i \in DOMAIN plan : ByName(plan[i]) => plan[i].id # seq
    /\ need \in Int /\ Len(plan) <= need + StagingMax
    /\ kept \in Number

Core ==
    /\ Types /\ NumberTypes /\ JobTypes /\ DiskTypes
    /\ IdleInv /\ QueueInv /\ CustodyInv /\ WorkingInv /\ ScanInv

(* A window is in staging once, and has not landed before it lands.        *)
Fresh ==
    (IF open = 0 THEN {} ELSE {open})
    \cup {jobs[i].window : i \in DOMAIN jobs}
    \cup (IF step \in {"seal", "manifest", "object", "cleanup"} THEN {job.window} ELSE {})

PlaceInv ==
    /\ recovered \cap retained = {} /\ (\A n \in Number : working[n] \notin recovered \cup retained)
    /\ Fresh \cap (objects \cup shipped \cup retained) = {}
    /\ retained \cap (objects \cup shipped) = {}
    /\ \A e \in listed : e.id \notin Fresh
    /\ objects \subseteq manifests /\ (step = "object" => job.window \in manifests)
    /\ step = "source" => job.window \in objects \cup shipped \cup given

NumberInv ==
    /\ number \in [DOMAIN number -> Nat] /\ DOMAIN number \subseteq 1 .. next - 1
    /\ \A v, w \in DOMAIN number : number[v] = number[w] => v = w
    /\ {number[w] : w \in DOMAIN number \ {open}} = 0 .. seq - 1
    /\ open # 0 => open \in DOMAIN number /\ number[open] = seq

Gone == objects \cup shipped \cup given
ReportInv ==
    faults = 0 =>
        /\ \A w \in DOMAIN number :
               \/ w = open \/ (\E i \in DOMAIN jobs : jobs[i].window = w)
               \/ (step # "idle" /\ job.window = w) \/ w \in Gone
        /\ \A i \in DOMAIN jobs :
               working[jobs[i].number] = jobs[i].window \/ jobs[i].window \in given
        /\ step = "seal" => working[job.number] = job.window \/ job.window \in given
        /\ step \in {"cleanup", "finish"} => job.window \in Gone

There(e) == IF e.kind = "object" THEN e.id \in objects \cup shipped ELSE e.id \in retained
FloorInv ==
    /\ at \in {"staging", "classify"} => \A e \in listed : There(e)
    /\ at \in {"staging", "classify", "evict"} =>
           \A e, f \in listed : e.id = f.id => e = f
    /\ at = "staging" => \A e \in listed : e.kind = "object"
    /\ \A i \in DOMAIN plan : IsObject(plan[i]) =>
           plan[i] \in listed /\ There(plan[i]) /\ kept < plan[i].id
    /\ \A i, j \in DOMAIN plan : i < j /\ IsObject(plan[j]) =>
           IsObject(plan[i]) /\ plan[i].id < plan[j].id
    /\ at = "evict" =>
           \A e \in listed : \/ \E i \in DOMAIN plan : plan[i] = e
                             \/ ~OnDisk(e) \/ (kept # 0 /\ kept <= e.id)
    /\ kept # 0 => kept \in objects \cup retained \cup shipped
    /\ floor \in Number /\ (at = "down" => floor = 0 /\ listed = {})
    /\ FloorIsOldest

ObjectOf(w) == [kind |-> "object", id |-> w, age |-> w]
RetainedOf(w) == [kind |-> "retained", id |-> w, age |-> w]
RecoveredOf(w) == [kind |-> "recovered", id |-> w, age |-> w]
IsPlanned(n) == \E i \in DOMAIN plan : ByName(plan[i]) /\ plan[i].id = n
BudgetInv ==
    still =>
        /\ at \in {"staging", "classify"} => \A w \in objects : ObjectOf(w) \in listed
        /\ at = "classify" =>
               /\ \A w \in retained : RetainedOf(w) \in listed
               /\ \A w \in recovered : RecoveredOf(w) \in residue
               /\ \A n \in Number : working[n] # 0 =>
                      \/ n = seq \/ custody[n] = "inflight" \/ n \in names
                      \/ \E e \in residue : e.id = n
                             /\ e.kind = IF custody[n] = "queued" THEN "queued" ELSE "orphan"
               /\ \A e \in residue : e.kind = "queued" => custody[e.id] = "queued"
        /\ at = "evict" =>
               /\ need + StagingMax = Len(plan)
               /\ \A w \in objects : ObjectOf(w) \in ToSet(plan)
               /\ \A w \in retained : RetainedOf(w) \in ToSet(plan)
               /\ \A w \in recovered : RecoveredOf(w) \in ToSet(plan)
               /\ \E q \in Number : \A n \in Number : working[n] # 0 =>
                      \/ n = seq \/ (step # "idle" /\ n = job.number)
                      \/ (n = q /\ jobs # <<>>) \/ IsPlanned(n)
        /\ at \in {"write", "exited"} => Files <= StagingMax + Transient

ArchiveInv ==
    /\ Core /\ PlaceInv /\ NumberInv /\ NothingVanishes /\ ReportInv /\ FloorInv /\ BudgetInv
-----------------------------------------------------------------------------
(* The constants.                                                          *)

LEMMA ConstTypes ==
    /\ NumWindows \in Nat \ {0} /\ StagingMax \in Nat
    /\ Window = 1 .. NumWindows /\ Number = 0 .. NumWindows /\ NoWindow = 0
  BY ArchiveAssumption DEF Window, Number, NoWindow

(* A set of windows is finite, and so are the entries made of it.          *)
LEMMA WindowsFinite ==
    ASSUME NEW m \in Nat, NEW S \in SUBSET (1 .. m - 1)
    PROVE  IsFiniteSet(S)
  <1>1. IsFiniteSet(1 .. m - 1)
    BY FS_Interval
  <1> QED BY <1>1, FS_Subset

LEMMA EntriesFinite ==
    ASSUME NEW S, IsFiniteSet(S), NEW k
    PROVE  IsFiniteSet({[kind |-> k, id |-> w, age |-> w] : w \in S})
  <1> DEFINE f == [w \in S |-> [kind |-> k, id |-> w, age |-> w]]
             T == {[kind |-> k, id |-> w, age |-> w] : w \in S}
  <1>1. f \in Surjection(S, T)
    BY DEF Surjection
  <1>2. IsFiniteSet(T)
    BY <1>1, FS_Surjection
  <1> QED BY <1>2

-----------------------------------------------------------------------------
(* What the pass may take, in its order.                                   *)

(* Every non-empty set of naturals has a least element.                    *)
LEMMA LeastNatural ==
    ASSUME NEW T \in SUBSET Nat, T # {}
    PROVE  \E n \in T : \A m \in T : n <= m
  <1>1. PICK n \in T : \A m \in T : ~ (<<m, n>> \in OpToRel(<, Nat))
    BY NatLessThanWellFounded, WFMin
  <1>2. \A m \in T : ~ (m < n)
    BY <1>1 DEF OpToRel
  <1> QED BY <1>2

(* A finite set of files can be listed by age: from a least counterexample *)
(* without its oldest file.                                                *)
InAgeOrder(s, R) ==
    /\ s \in [1 .. Cardinality(R) -> R]
    /\ \A i, j \in DOMAIN s : i < j => s[i] # s[j] /\ s[i].age <= s[j].age

LEMMA AgeOrderExists ==
    ASSUME NEW R \in SUBSET Entries, IsFiniteSet(R)
    PROVE  \E s : InAgeOrder(s, R)
  <1> DEFINE Bad(n) == \E T \in SUBSET R : Cardinality(T) = n /\ ~ \E s : InAgeOrder(s, T)
             B == {n \in Nat : Bad(n)}
  <1> SUFFICES ASSUME ~ \E s : InAgeOrder(s, R) PROVE FALSE
    OBVIOUS
  <1>1. Cardinality(R) \in B
    BY FS_CardinalityType
  <1>2. PICK n \in B : \A m \in B : n <= m
    <2>1. B \in SUBSET Nat /\ B # {}
      BY <1>1
    <2> HIDE DEF B
    <2> QED BY <2>1, LeastNatural
  <1>3. PICK T \in SUBSET R : Cardinality(T) = n /\ ~ \E s : InAgeOrder(s, T)
    BY <1>2
  <1>4. IsFiniteSet(T) /\ n \in Nat /\ \A e \in T : e.age \in Nat
    <2>1. \A e \in T : e.age \in Number
      BY DEF Entries
    <2> QED BY <1>2, <2>1, FS_Subset, ConstTypes
  <1>5. CASE T = {}
    <2>1. n = 0
      BY <1>3, <1>5, FS_EmptySet
    <2>2. InAgeOrder(<<>>, T)
      <3>1. DOMAIN <<>> = {} /\ 1 .. Cardinality(T) = {}
        BY <1>3, <2>1
      <3> QED BY <3>1 DEF InAgeOrder
    <2> QED BY <1>3, <2>2
  <1>6. CASE T # {}
    <2>1. PICK m \in T : \A x \in T : m.age <= x.age
      <3> DEFINE A == {e.age : e \in T}
      <3>1. A \in SUBSET Nat /\ A # {}
        BY <1>4, <1>6
      <3> HIDE DEF A
      <3>2. PICK a \in A : \A b \in A : a <= b
        BY <3>1, LeastNatural
      <3> QED BY <3>2 DEF A
    <2> DEFINE V == T \ {m}
    <2>2. Cardinality(V) = n - 1 /\ n - 1 \in Nat
      <3>1. Cardinality(V) = n - 1
        BY <1>3, <1>4, FS_RemoveElement
      <3>2. IsFiniteSet(V)
        BY <1>4, FS_RemoveElement
      <3> QED BY <3>1, <3>2, FS_CardinalityType
    <2>3. PICK s : InAgeOrder(s, V)
      <3>1. n - 1 \notin B
        <4>1. ~(n <= n - 1)
          BY <1>4
        <4> QED BY <1>2, <4>1
      <3>2. V \in SUBSET R
        OBVIOUS
      <3> QED BY <2>2, <3>1, <3>2
    <2> DEFINE t == [i \in 1 .. n |-> IF i = 1 THEN m ELSE s[i - 1]]
    <2>4. \A i \in 1 .. n : i # 1 => i - 1 \in 1 .. n - 1
      BY <1>4
    <2>5. s \in [1 .. n - 1 -> V]
          /\ \A i, j \in 1 .. n - 1 : i < j => s[i] # s[j] /\ s[i].age <= s[j].age
      BY <2>2, <2>3 DEF InAgeOrder
    <2>6. t \in [1 .. n -> T]
      BY <2>4, <2>5
    <2>7. \A i, j \in 1 .. n : i < j => t[i] # t[j] /\ t[i].age <= t[j].age
      <3> SUFFICES ASSUME NEW i \in 1 .. n, NEW j \in 1 .. n, i < j
                   PROVE  t[i] # t[j] /\ t[i].age <= t[j].age
        OBVIOUS
      <3>1. j # 1 /\ j - 1 \in 1 .. n - 1 /\ t[j] = s[j - 1] /\ s[j - 1] \in V
        BY <1>4, <2>4, <2>5
      <3>2. CASE i = 1
        <4>1. t[i] = m /\ s[j - 1] # m /\ m.age <= s[j - 1].age
          BY <2>1, <3>1, <3>2
        <4> QED BY <3>1, <4>1
      <3>3. CASE i # 1
        <4>1. i - 1 \in 1 .. n - 1 /\ t[i] = s[i - 1] /\ i - 1 < j - 1
          BY <1>4, <2>4, <3>3
        <4> QED BY <2>5, <3>1, <4>1
      <3> QED BY <3>2, <3>3
    <2>8. InAgeOrder(t, T)
      <3> HIDE DEF t
      <3> QED BY <1>3, <2>6, <2>7 DEF InAgeOrder
    <2> QED BY <1>3, <2>8
  <1> QED BY <1>5, <1>6

(* A sequence that names every file of R once, the oldest first.           *)
Lists(s, R) ==
    /\ s \in Seq(R) /\ ToSet(s) = R
    /\ \A i, j \in 1 .. Len(s) : i < j => s[i] # s[j] /\ s[i].age <= s[j].age

LEMMA ByAgeLists ==
    ASSUME NEW R \in SUBSET Entries, IsFiniteSet(R)
    PROVE  Lists(ByAge(R), R)
  <1> DEFINE s == ByAge(R)
             n == Cardinality(R)
  <1>1. InAgeOrder(s, R)
    BY AgeOrderExists DEF InAgeOrder, ByAge
  <1>2. n \in Nat
    BY FS_CardinalityType
  <1> HIDE DEF s
  <1>3. /\ s \in [1 .. n -> R]
        /\ \A i, j \in 1 .. n : i < j => s[i] # s[j] /\ s[i].age <= s[j].age
    BY <1>1 DEF InAgeOrder
  <1>4. s \in Seq(R) /\ Len(s) = n
    BY <1>2, <1>3
  <1>5. \A i, j \in 1 .. n : i # j => s[i] # s[j]
    <2> SUFFICES ASSUME NEW i \in 1 .. n, NEW j \in 1 .. n, i # j PROVE s[i] # s[j]
      OBVIOUS
    <2>1. i < j \/ j < i
      BY <1>2
    <2> QED BY <1>3, <2>1
  <1>6. \A x \in R : \E i \in 1 .. n : s[i] = x
    <2> SUFFICES ASSUME NEW x \in R, \A i \in 1 .. n : s[i] # x PROVE FALSE
      OBVIOUS
    <2> DEFINE V == R \ {x}
               D == 1 .. n
    <2>1. s \in [D -> V]
      BY <1>3
    <2>2. IsFiniteSet(V) /\ Cardinality(V) = n - 1
      BY FS_RemoveElement
    <2>3. IsFiniteSet(D) /\ Cardinality(D) = n
      BY <1>2, FS_Interval
    <2>4. Cardinality(V) < Cardinality(D)
      BY <1>2, <2>2, <2>3
    <2> HIDE DEF n, V, D
    <2>5. \E i, j \in D : i # j /\ s[i] = s[j]
      BY <2>1, <2>2, <2>3, <2>4, FS_PigeonHole
    <2> QED BY <1>5, <2>5 DEF D
  <1>7. ToSet(s) = R
    BY <1>3, <1>6 DEF ToSet
  <1>8. Lists(s, R)
    BY <1>3, <1>4, <1>7 DEF Lists
  <1> QED BY <1>8 DEF s

(* What a concatenation holds.                                             *)
LEMMA ToSetConcat ==
    ASSUME NEW U, NEW s \in Seq(U), NEW t \in Seq(U)
    PROVE  /\ s \o t \in Seq(U) /\ ToSet(s \o t) = ToSet(s) \cup ToSet(t)
           /\ Len(s \o t) = Len(s) + Len(t) /\ Len(s) \in Nat /\ Len(t) \in Nat
           /\ DOMAIN (s \o t) = 1 .. Len(s) + Len(t)
           /\ \A i \in 1 .. Len(s) + Len(t) :
                  (s \o t)[i] = IF i <= Len(s) THEN s[i] ELSE t[i - Len(s)]
  <1>1. /\ Len(s) \in Nat /\ Len(t) \in Nat /\ s \o t \in Seq(U)
        /\ Len(s \o t) = Len(s) + Len(t)
        /\ DOMAIN s = 1 .. Len(s) /\ DOMAIN t = 1 .. Len(t)
        /\ DOMAIN (s \o t) = 1 .. Len(s) + Len(t)
    BY ConcatProperties, LenProperties
  <1>2. \A i \in 1 .. Len(s) + Len(t) :
            (s \o t)[i] = IF i <= Len(s) THEN s[i] ELSE t[i - Len(s)]
    BY ConcatProperties
  <1>3. ToSet(s \o t) \subseteq ToSet(s) \cup ToSet(t)
    <2> SUFFICES ASSUME NEW i \in 1 .. Len(s) + Len(t)
                 PROVE  (s \o t)[i] \in ToSet(s) \cup ToSet(t)
      BY <1>1 DEF ToSet
    <2>1. CASE i <= Len(s)
      <3>1. i \in DOMAIN s /\ (s \o t)[i] = s[i]
        BY <1>1, <1>2, <2>1
      <3> QED BY <3>1 DEF ToSet
    <2>2. CASE ~(i <= Len(s))
      <3>1. i - Len(s) \in DOMAIN t /\ (s \o t)[i] = t[i - Len(s)]
        BY <1>1, <1>2, <2>2
      <3> QED BY <3>1 DEF ToSet
    <2> QED BY <2>1, <2>2
  <1>4. ToSet(s) \subseteq ToSet(s \o t)
    <2> SUFFICES ASSUME NEW i \in 1 .. Len(s) PROVE s[i] \in ToSet(s \o t)
      BY <1>1 DEF ToSet
    <2>1. i \in DOMAIN (s \o t) /\ (s \o t)[i] = s[i]
      BY <1>1, <1>2
    <2> QED BY <2>1 DEF ToSet
  <1>5. ToSet(t) \subseteq ToSet(s \o t)
    <2> SUFFICES ASSUME NEW i \in 1 .. Len(t) PROVE t[i] \in ToSet(s \o t)
      BY <1>1 DEF ToSet
    <2>1. i + Len(s) \in DOMAIN (s \o t) /\ (s \o t)[i + Len(s)] = t[i]
      BY <1>1, <1>2
    <2> QED BY <2>1 DEF ToSet
  <1> QED BY <1>1, <1>2, <1>3, <1>4, <1>5

(* The plan of a pass: the objects, oldest first, then the residue but for *)
(* the newest of the queue.                                                *)
(* The first k of the plan are the objects, each once and oldest first.    *)
ObjectsFirst(p, k, o, r) ==
    /\ \A i \in DOMAIN p : p[i] \in IF i <= k THEN o ELSE r
    /\ \A i, j \in DOMAIN p : i < j /\ j <= k => p[i] # p[j] /\ p[i].age <= p[j].age

LEMMA ReachableLists ==
    ASSUME NEW o \in SUBSET Entries, NEW r \in SUBSET Entries, IsFiniteSet(o), IsFiniteSet(r),
           NEW p, p = Reachable(o, r)
    PROVE  /\ p \in Seq(o \cup r) /\ Len(p) \in Nat /\ DOMAIN p = 1 .. Len(p)
           /\ \A i \in DOMAIN p : p[i] \in o \cup r
           /\ ToSet(p) = o \cup (r \ NewestQueued(r))
           /\ \E k \in Nat : ObjectsFirst(p, k, o, r)
  <1> DEFINE u == r \ Queued(r)
             v == Queued(r) \ NewestQueued(r)
  <1>1. PICK a, b, c : a = ByAge(o) /\ b = ByAge(u) /\ c = ByAge(v)
    OBVIOUS
  <1>2. u \subseteq r /\ v \subseteq r /\ u \cup v = r \ NewestQueued(r)
    BY DEF Queued, NewestQueued
  <1>3. IsFiniteSet(u) /\ IsFiniteSet(v)
    BY <1>2, FS_Subset
  <1>4. u \in SUBSET Entries /\ v \in SUBSET Entries
    BY <1>2
  <1>5. p = (a \o b) \o c
    BY <1>1 DEF Reachable
  <1>6. Lists(a, o) /\ Lists(b, u) /\ Lists(c, v)
    BY <1>1, <1>3, <1>4, ByAgeLists
  <1> HIDE DEF u, v
  <1>7. a \in Seq(o \cup r) /\ b \in Seq(o \cup r) /\ c \in Seq(o \cup r)
    BY <1>2, <1>6, SeqMonotonic DEF Lists
  <1>8. PICK m : m = a \o b
    OBVIOUS
  <1>9. /\ m \in Seq(o \cup r) /\ ToSet(m) = o \cup u
        /\ Len(m) = Len(a) + Len(b) /\ Len(a) \in Nat /\ Len(b) \in Nat
        /\ \A i \in 1 .. Len(m) : m[i] = IF i <= Len(a) THEN a[i] ELSE b[i - Len(a)]
    BY <1>6, <1>7, <1>8, ToSetConcat DEF Lists
  <1>10. /\ p \in Seq(o \cup r) /\ ToSet(p) = (o \cup u) \cup v
         /\ Len(p) = Len(m) + Len(c) /\ Len(m) \in Nat /\ Len(c) \in Nat
         /\ DOMAIN p = 1 .. Len(p)
         /\ \A i \in 1 .. Len(p) : p[i] = IF i <= Len(m) THEN m[i] ELSE c[i - Len(m)]
    <2>1. p = m \o c /\ ToSet(c) = v
      BY <1>5, <1>6, <1>8 DEF Lists
    <2>2. /\ m \o c \in Seq(o \cup r) /\ ToSet(m \o c) = ToSet(m) \cup ToSet(c)
          /\ Len(m \o c) = Len(m) + Len(c) /\ Len(m) \in Nat /\ Len(c) \in Nat
          /\ DOMAIN (m \o c) = 1 .. Len(m) + Len(c)
          /\ \A i \in 1 .. Len(m) + Len(c) :
                 (m \o c)[i] = IF i <= Len(m) THEN m[i] ELSE c[i - Len(m)]
      <3>1. m \in Seq(o \cup r) /\ c \in Seq(o \cup r)
        BY <1>7, <1>9
      <3> QED BY <3>1, ToSetConcat
    <2>3. ToSet(p) = (o \cup u) \cup v
      BY <1>9, <2>1, <2>2
    <2> QED BY <2>1, <2>2, <2>3
  <1>11. \A i \in DOMAIN p : i <= Len(a) => i \in 1 .. Len(a) /\ p[i] = a[i]
    BY <1>9, <1>10
  <1>12. ASSUME NEW i \in DOMAIN p, ~(i <= Len(a)) PROVE p[i] \in r
    <2>1. CASE i <= Len(m)
      <3>1. i - Len(a) \in 1 .. Len(b) /\ p[i] = b[i - Len(a)]
        BY <1>9, <1>10, <1>12, <2>1
      <3>2. b[i - Len(a)] \in u
        BY <1>6, <3>1 DEF Lists
      <3> QED BY <1>2, <3>1, <3>2
    <2>2. CASE ~(i <= Len(m))
      <3>1. i - Len(m) \in 1 .. Len(c) /\ p[i] = c[i - Len(m)]
        BY <1>10, <2>2
      <3>2. c[i - Len(m)] \in v
        BY <1>6, <3>1 DEF Lists
      <3> QED BY <1>2, <3>1, <3>2
    <2> QED BY <2>1, <2>2
  <1>13. \A i \in 1 .. Len(a) : a[i] \in o
    BY <1>6 DEF Lists
  <1>14. \A i \in DOMAIN p : p[i] \in IF i <= Len(a) THEN o ELSE r
    BY <1>11, <1>12, <1>13
  <1>15. \A i, j \in DOMAIN p : i < j /\ j <= Len(a) => p[i] # p[j] /\ p[i].age <= p[j].age
    <2> SUFFICES ASSUME NEW i \in DOMAIN p, NEW j \in DOMAIN p, i < j, j <= Len(a)
                 PROVE  p[i] # p[j] /\ p[i].age <= p[j].age
      OBVIOUS
    <2>1. i <= Len(a)
      BY <1>9, <1>10
    <2>2. i \in 1 .. Len(a) /\ j \in 1 .. Len(a) /\ p[i] = a[i] /\ p[j] = a[j]
      BY <1>11, <2>1
    <2> QED BY <1>6, <2>2 DEF Lists
  <1>16. ToSet(p) = o \cup (r \ NewestQueued(r))
    BY <1>2, <1>10
  <1>17. Len(p) \in Nat
    BY <1>10
  <1>18. ObjectsFirst(p, Len(a), o, r)
    BY <1>14, <1>15 DEF ObjectsFirst
  <1> QED BY <1>9, <1>10, <1>14, <1>16, <1>17, <1>18

-----------------------------------------------------------------------------
(* Core is inductive.                                                      *)

LEMMA InitCore == Init => Core
  <1> SUFFICES ASSUME Init PROVE Core
    OBVIOUS
  <1>1. Types
    BY DEF Init, Types
  <1>2. NumberTypes
    BY ConstTypes DEF Init, NumberTypes
  <1>3. JobTypes
    BY ConstTypes DEF Init, JobTypes, NoJob, Jobs
  <1>4. DiskTypes
    BY DEF Init, DiskTypes
  <1>5. IdleInv
    BY ConstTypes DEF Init, IdleInv
  <1>6. QueueInv
    BY DEF Init, QueueInv
  <1>7. CustodyInv
    BY DEF Init, CustodyInv
  <1>8. WorkingInv
    BY ConstTypes DEF Init, WorkingInv
  <1>9. ScanInv
    <2>1. IsFiniteSet(listed) /\ IsFiniteSet(residue)
      BY FS_EmptySet DEF Init
    <2> QED BY <2>1, ConstTypes DEF Init, ScanInv
  <1> QED BY <1>1, <1>2, <1>3, <1>4, <1>5, <1>6, <1>7, <1>8, <1>9 DEF Core

LEMMA TopPlace ==
    ASSUME Core
    PROVE  /\ next \in Nat /\ next # 0 /\ Top \in Nat /\ Top <= next
           /\ seq \in Nat /\ seq \in Number /\ seq < next /\ open \in Nat
           /\ 0 \in Number /\ NumWindows \in Nat /\ faults \in Nat
           /\ next <= NumWindows + 1
  <1>1. /\ next \in 1 .. NumWindows + 1 /\ open \in Number /\ seq \in Nat /\ faults \in Nat
        /\ seq < next /\ (open # 0 => next = open + 1)
    BY DEF Core, NumberTypes
  <1>2. open \in Nat /\ next \in Nat /\ next # 0 /\ next <= NumWindows + 1
    BY <1>1, ConstTypes
  <1>3. Top \in Nat /\ Top <= next
    BY <1>1, <1>2 DEF Top
  <1> QED BY <1>1, <1>2, <1>3, ConstTypes

(* The publication, and the queue behind it.                               *)
LEMMA JobPlace ==
    ASSUME Core, step # "idle"
    PROVE  /\ job.window \in 1 .. next - 1 /\ job.window \in Nat /\ job.window # 0
           /\ job.number \in Nat /\ job.number \in Number /\ job.number < seq
  <1>1. job.window \in Window /\ job.window < Top /\ job.number \in Number /\ job.number < seq
    BY DEF Core, QueueInv, JobTypes
  <1> QED BY <1>1, ConstTypes, TopPlace

LEMMA JobsPlace ==
    ASSUME Core
    PROVE  /\ Len(jobs) \in Nat /\ DOMAIN jobs = 1 .. Len(jobs)
           /\ \A i \in DOMAIN jobs :
                  /\ jobs[i].number \in Number /\ jobs[i].number \in Nat
                  /\ jobs[i].number < seq
                  /\ jobs[i].window \in Nat /\ jobs[i].window # 0
                  /\ jobs[i].window \in Window /\ jobs[i].window \in 1 .. next - 1
                  /\ jobs[i].window < Top
  <1>1. jobs \in Seq(Jobs)
    BY DEF Core, JobTypes
  <1>2. Len(jobs) \in Nat /\ DOMAIN jobs = 1 .. Len(jobs)
    BY <1>1
  <1>3. ASSUME NEW i \in DOMAIN jobs
        PROVE  jobs[i].number \in Number /\ jobs[i].window \in Window
    <2>1. jobs[i] \in Jobs
      BY <1>1
    <2> QED BY <2>1 DEF Jobs
  <1>4. \A i \in DOMAIN jobs : jobs[i].number < seq /\ jobs[i].window < Top
    BY DEF Core, QueueInv
  <1>5. \A i \in DOMAIN jobs : /\ jobs[i].number \in Nat /\ jobs[i].window \in Nat
                              /\ jobs[i].window # 0
    BY <1>3, ConstTypes
  <1>6. \A i \in DOMAIN jobs : jobs[i].window \in 1 .. next - 1
    BY <1>4, <1>5, TopPlace
  <1> QED BY <1>2, <1>3, <1>4, <1>5, <1>6

(* What is kept of the order when nothing is handed over or taken.         *)
LEMMA QueueFrame ==
    ASSUME Core, UNCHANGED <<jobs, job, step>>,
           seq' \in Nat, seq <= seq', Top' \in Nat, Top <= Top'
    PROVE  QueueInv'
  <1>1. Top \in Nat /\ seq \in Nat
    BY ConstTypes DEF Core, NumberTypes, Top
  <1>2. \A i, j \in DOMAIN jobs : i < j =>
           jobs[i].number < jobs[j].number /\ jobs[i].window < jobs[j].window
    BY DEF Core, QueueInv
  <1>3. \A i \in DOMAIN jobs : jobs[i].number < seq' /\ jobs[i].window < Top'
    BY <1>1, JobsPlace
  <1>4. step # "idle" =>
           /\ job.window \in Window /\ job.number < seq' /\ job.window < Top'
           /\ \A i \in DOMAIN jobs :
                  job.number < jobs[i].number /\ job.window < jobs[i].window
    <2> SUFFICES ASSUME step # "idle"
                 PROVE  /\ job.window \in Window /\ job.number < seq' /\ job.window < Top'
                        /\ \A i \in DOMAIN jobs :
                            job.number < jobs[i].number /\ job.window < jobs[i].window
      OBVIOUS
    <2>1. job.window \in Window /\ job.number < seq /\ job.window < Top
          /\ \A i \in DOMAIN jobs : job.number < jobs[i].number /\ job.window < jobs[i].window
      BY DEF Core, QueueInv
    <2> QED BY <1>1, <2>1, JobPlace
  <1> QED BY <1>2, <1>3, <1>4 DEF QueueInv

(* A pass that is not on knows nothing of the segments.                    *)
LEMMA ScanQuiet ==
    ASSUME Core, names = {}, residue = {}, plan = <<>>, UNCHANGED <<passVars>>,
           next' \in Nat, next <= next'
    PROVE  ScanInv'
  <1>1. /\ names' = {} /\ residue' = {} /\ plan' = <<>> /\ UNCHANGED <<listed, need, kept>>
    BY DEF passVars
  <1>2. next \in Nat
    BY ConstTypes DEF Core, NumberTypes
  <1>3. \A e \in listed' : IsObject(e) /\ e.age = e.id /\ e.id \in 1 .. next' - 1
    BY <1>1, <1>2 DEF Core, ScanInv
  <1>4. DOMAIN plan' = {}
    BY <1>1
  <1>5. listed' \subseteq Entries /\ IsFiniteSet(listed') /\ need' \in Int /\ kept' \in Number
        /\ plan' \in Seq(Entries) /\ Len(plan') <= need' + StagingMax
    BY <1>1 DEF Core, ScanInv
  <1>6. IsFiniteSet(residue')
    BY <1>1, FS_EmptySet
  <1> QED BY <1>1, <1>3, <1>4, <1>5, <1>6 DEF ScanInv

LEMMA StartCore ==
    ASSUME Core, Start PROVE Core'
  <1>0. PICK stuck \in SUBSET Number :
            /\ recovered' = recovered \cup ({working[n] : n \in Number \ stuck} \ {0})
            /\ working' = [n \in Number |-> IF n \in stuck THEN working[n] ELSE 0]
            /\ faults' \in Nat
    BY TopPlace, ConstTypes DEF Start, Adopted, Fault
  <1>01. /\ seq' = 0 /\ UNCHANGED <<next, open, jobs, job, step, names, residue, plan, need, kept>>
         /\ listed' = {} /\ at \in {"down", "exited"} /\ temps' = {}
         /\ UNCHANGED <<retained, objects, manifests, shipped, given, truncated, custody>>
    BY DEF Start, writerVars
  <1>02. open = 0 /\ jobs = <<>> /\ step = "idle" /\ names = {} /\ residue = {} /\ plan = <<>>
    BY <1>01 DEF Core, IdleInv
  <1>03. \A n \in Number : working'[n] \in {0, working[n]} /\ working[n] \in Nat
    BY <1>0, ConstTypes DEF Core, NumberTypes
  <1>04. \A n \in Number : working[n] < next
    BY DEF Core, NumberTypes
  <1>1. Types'
    BY ConstTypes DEF Core, Types, Start, Adopted, Fault, writerVars, passVars
  <1>2. NumberTypes'
    <2>1. next' \in 1 .. NumWindows + 1 /\ open' \in Number
      BY <1>01 DEF Core, NumberTypes
    <2>2. working' \in [Number -> Number]
      BY <1>0, ConstTypes DEF Core, NumberTypes
    <2>3. seq' \in Nat /\ seq' < next' /\ open' = 0
      BY <1>01, <1>02, TopPlace
    <2>4. \A n \in Number : working'[n] < next'
      BY <1>01, <1>03, <1>04, TopPlace
    <2>5. faults' \in Nat
      BY TopPlace DEF Start, Fault
    <2> QED BY <2>1, <2>2, <2>3, <2>4, <2>5 DEF NumberTypes
  <1>3. JobTypes'
    BY ConstTypes DEF Core, Types, NumberTypes, JobTypes, Start, Adopted, Fault,
           writerVars, passVars
  <1>4. DiskTypes'
    <2>1. recovered' \subseteq 1 .. next - 1
      <3>1. \A n \in Number : working[n] # 0 => working[n] \in 1 .. next - 1
        BY <1>03, <1>04, TopPlace
      <3> QED BY <1>0, <3>1 DEF Core, DiskTypes
    <2> QED BY <1>01, <2>1 DEF Core, DiskTypes
  <1>5. IdleInv'
    BY ConstTypes DEF Core, Types, IdleInv, Start, Adopted, Fault, writerVars, passVars
  <1>6. QueueInv'
    <2>1. DOMAIN jobs' = {}
      BY <1>01, <1>02
    <2> QED BY <1>01, <1>02, <2>1 DEF QueueInv
  <1>7. CustodyInv'
    BY ConstTypes DEF Core, NumberTypes, JobTypes, QueueInv, CustodyInv, Start, Adopted,
           Fault, writerVars, passVars
  <1>8. WorkingInv'
    <2>1. DOMAIN jobs' = {}
      BY <1>01, <1>02
    <2>2. \A m, n \in Number : working'[m] = working'[n] /\ working'[m] # 0 => m = n
      BY <1>03 DEF Core, WorkingInv
    <2> QED BY <1>01, <1>02, <2>1, <2>2 DEF WorkingInv
  <1>9. ScanInv'
    <2>1. IsFiniteSet(listed') /\ IsFiniteSet(residue') /\ DOMAIN plan' = {}
      BY <1>01, <1>02, FS_EmptySet
    <2> QED BY <1>01, <1>02, <2>1 DEF Core, ScanInv
  <1> QED BY <1>1, <1>2, <1>3, <1>4, <1>5, <1>6, <1>7, <1>8, <1>9 DEF Core

LEMMA CrashCore ==
    ASSUME Core, Crash PROVE Core'
  <1>1. Types'
    BY ConstTypes DEF Core, Types, Crash, NoJob, diskVars
  <1>2. NumberTypes'
    BY ConstTypes DEF Core, NumberTypes, Crash, NoJob, diskVars
  <1>3. JobTypes'
    BY ConstTypes DEF Core, Types, NumberTypes, JobTypes, Crash, NoJob, diskVars
  <1>4. DiskTypes'
    BY ConstTypes DEF Core, NumberTypes, JobTypes, DiskTypes, Crash, NoJob, diskVars
  <1>5. IdleInv'
    BY ConstTypes DEF Core, Types, IdleInv, Crash, NoJob, diskVars
  <1>6. QueueInv'
    BY ConstTypes DEF Core, NumberTypes, JobTypes, QueueInv, Top, Crash, NoJob, diskVars
  <1>7. CustodyInv'
    BY ConstTypes DEF Core, NumberTypes, JobTypes, QueueInv, CustodyInv, Crash, NoJob,
           diskVars
  <1>8. WorkingInv'
    BY ConstTypes DEF Core, NumberTypes, JobTypes, QueueInv, CustodyInv, WorkingInv,
           Crash, NoJob, diskVars
  <1>9. ScanInv'
    <2>1. /\ listed' = {} /\ names' = {} /\ residue' = {} /\ plan' = <<>> /\ need' = 0 /\ kept' = 0
      BY ConstTypes DEF Crash
    <2>2. IsFiniteSet(listed') /\ IsFiniteSet(residue') /\ DOMAIN plan' = {}
          /\ plan' \in Seq(Entries) /\ Len(plan') = 0
      BY <2>1, FS_EmptySet
    <2> QED BY <2>1, <2>2, ConstTypes DEF ScanInv
  <1> QED BY <1>1, <1>2, <1>3, <1>4, <1>5, <1>6, <1>7, <1>8, <1>9 DEF Core

LEMMA OpenSegmentCore ==
    ASSUME Core, OpenSegment PROVE Core'
  <1>0. /\ at = "write" /\ open = 0 /\ next \in Window
        /\ open' = next /\ next' = next + 1 /\ seq' = seq /\ faults' \in Nat
        /\ working' = [working EXCEPT ![seq] = next]
        /\ recovered' = recovered \/ (working[seq] # 0 /\ recovered' = recovered \cup {working[seq]})
        /\ truncated' = truncated \/ (working[seq] # 0 /\ truncated' = truncated \cup {working[seq]})
    BY TopPlace, ConstTypes DEF OpenSegment, NameFreed, Fault
  <1>01. /\ UNCHANGED <<retained, temps, objects, manifests, shipped, given, custody, jobs, job, step>>
         /\ UNCHANGED <<passVars>> /\ names = {} /\ residue = {} /\ plan = <<>>
    BY <1>0 DEF OpenSegment, publishVars, Core, IdleInv
  <1>02. /\ working \in [Number -> Number] /\ (\A n \in Number : working[n] < next /\ working[n] \in Nat)
         /\ working'[seq] = next /\ (\A n \in Number : n # seq => working'[n] = working[n])
    <2>1. working \in [Number -> Number] /\ \A n \in Number : working[n] < next
      BY DEF Core, NumberTypes
    <2>2. \A n \in Number : working[n] \in Nat
      BY <2>1, ConstTypes
    <2>3. working'[seq] = next /\ (\A n \in Number : n # seq => working'[n] = working[n])
      BY <1>0, <2>1, TopPlace
    <2> QED BY <2>1, <2>2, <2>3
  <1>03. /\ \A i \in DOMAIN jobs : jobs[i].number \in Number /\ jobs[i].number # seq
         /\ step # "idle" => job.number \in Number /\ job.number # seq
    BY JobsPlace, JobPlace, TopPlace
  <1>1. Types'
    BY ConstTypes DEF Core, Types, OpenSegment, NameFreed, Fault, publishVars, passVars
  <1>2. NumberTypes'
    <2>1. \A n \in Number : working'[n] \in Nat /\ working'[n] < next + 1
      BY <1>0, <1>02, TopPlace
    <2>2. working' \in [Number -> Number]
      BY <1>0, <1>02, TopPlace, ConstTypes
    <2>3. /\ next' \in 1 .. NumWindows + 1 /\ open' \in Number /\ seq' \in Nat
          /\ seq' < next' /\ seq' + 1 < next' /\ next' = open' + 1
      BY <1>0, TopPlace, ConstTypes
    <2> QED BY <1>0, <2>1, <2>2, <2>3 DEF NumberTypes
  <1>3. JobTypes'
    BY ConstTypes DEF Core, Types, NumberTypes, JobTypes, OpenSegment, NameFreed, Fault,
           publishVars, passVars
  <1>4. DiskTypes'
    <2>1. working[seq] # 0 => working[seq] \in 1 .. next - 1
      BY <1>02, TopPlace
    <2>2. 1 .. next - 1 \subseteq 1 .. next' - 1
      BY <1>0, TopPlace
    <2> QED BY <1>0, <1>01, <2>1, <2>2 DEF Core, DiskTypes
  <1>5. IdleInv'
    BY ConstTypes DEF Core, Types, IdleInv, OpenSegment, NameFreed, Fault, publishVars,
           passVars
  <1>6. QueueInv'
    <2>1. Top = next /\ Top' = next /\ seq' = seq
      BY <1>0, TopPlace DEF Top
    <2> QED BY <1>01, <2>1, TopPlace, QueueFrame
  <1>7. CustodyInv'
    BY ConstTypes DEF Core, NumberTypes, JobTypes, QueueInv, CustodyInv, OpenSegment,
           NameFreed, Fault, publishVars, passVars
  <1>8. WorkingInv'
    <2>1. \A m, n \in Number : working'[m] = working'[n] /\ working'[m] # 0 => m = n
      <3> SUFFICES ASSUME NEW m \in Number, NEW n \in Number, m # n,
                          working'[m] = working'[n], working'[m] # 0 PROVE FALSE
        OBVIOUS
      <3>1. CASE m = seq \/ n = seq
        BY <1>02, <3>1, TopPlace
      <3>2. CASE m # seq /\ n # seq
        BY <1>02, <3>2 DEF Core, WorkingInv
      <3> QED BY <3>1, <3>2
    <2>2. \A i \in DOMAIN jobs : working'[jobs[i].number] = working[jobs[i].number]
      BY <1>02, <1>03
    <2>3. step # "idle" => working'[job.number] = working[job.number]
      BY <1>02, <1>03
    <2>4. open' # 0 => working'[seq'] = open'
      BY <1>0, <1>02
    <2>5. /\ \A i \in DOMAIN jobs : working[jobs[i].number] \in {0, jobs[i].window}
          /\ step # "idle" => working[job.number] \in {0, job.window}
          /\ step \in {"manifest", "object", "source"} => working[job.number] = job.window
          /\ step = "seal" /\ job.whole => working[job.number] = job.window
      BY DEF Core, WorkingInv
    <2> QED BY <1>01, <2>1, <2>2, <2>3, <2>4, <2>5 DEF WorkingInv
  <1>9. ScanInv'
    <2>1. next' \in Nat /\ next <= next'
      BY <1>0, TopPlace
    <2> QED BY <1>01, <2>1, ScanQuiet
  <1> QED BY <1>1, <1>2, <1>3, <1>4, <1>5, <1>6, <1>7, <1>8, <1>9 DEF Core

LEMMA AbandonCore ==
    ASSUME Core, Abandon PROVE Core'
  <1>0. /\ at = "write" /\ open # 0 /\ open' = 0 /\ next' = next /\ seq' = seq + 1 /\ faults' \in Nat
        /\ \/ UNCHANGED <<recovered, working>>
           \/ /\ recovered' = recovered \cup {working[seq]}
              /\ working' = [working EXCEPT ![seq] = 0]
    BY TopPlace, ConstTypes DEF Abandon, Preserve, Fault
  <1>01. /\ UNCHANGED <<retained, temps, objects, manifests, shipped, given, truncated>>
         /\ UNCHANGED <<custody, jobs, job, step>>
         /\ UNCHANGED <<passVars>> /\ names = {} /\ residue = {} /\ plan = <<>>
    BY <1>0 DEF Abandon, publishVars, Core, IdleInv
  <1>02. /\ working \in [Number -> Number] /\ (\A n \in Number : working[n] < next /\ working[n] \in Nat)
         /\ working[seq] = open /\ seq + 1 < next /\ next = open + 1
         /\ \A n \in Number : working'[n] = working[n] \/ (n = seq /\ working'[n] = 0)
    <2>1. working \in [Number -> Number] /\ \A n \in Number : working[n] < next
      BY DEF Core, NumberTypes
    <2>2. \A n \in Number : working[n] \in Nat
      BY <2>1, ConstTypes
    <2>3. working[seq] = open /\ seq + 1 < next /\ next = open + 1
      BY <1>0 DEF Core, NumberTypes, WorkingInv
    <2>4. \A n \in Number : working'[n] = working[n] \/ (n = seq /\ working'[n] = 0)
      BY <1>0, <2>1
    <2> QED BY <2>1, <2>2, <2>3, <2>4
  <1>03. /\ \A i \in DOMAIN jobs : jobs[i].number \in Number /\ jobs[i].number # seq
         /\ step # "idle" => job.number \in Number /\ job.number # seq
    BY JobsPlace, JobPlace, TopPlace
  <1>1. Types'
    BY ConstTypes DEF Core, Types, Abandon, Preserve, Fault, publishVars, passVars
  <1>2. NumberTypes'
    <2>1. working' \in [Number -> Number]
      BY <1>0, <1>02, TopPlace
    <2>2. \A n \in Number : working'[n] < next
      BY <1>02, TopPlace
    <2> QED BY <1>0, <1>02, <2>1, <2>2, TopPlace DEF Core, NumberTypes
  <1>3. JobTypes'
    BY ConstTypes DEF Core, Types, NumberTypes, JobTypes, Abandon, Preserve, Fault,
           publishVars, passVars
  <1>4. DiskTypes'
    <2>1. open \in 1 .. next - 1
      BY <1>0, <1>02, TopPlace
    <2> QED BY <1>0, <1>01, <1>02, <2>1 DEF Core, DiskTypes
  <1>5. IdleInv'
    BY ConstTypes DEF Core, Types, IdleInv, Abandon, Preserve, Fault, publishVars, passVars
  <1>6. QueueInv'
    <2>1. Top' = next /\ seq' = seq + 1
      BY <1>0 DEF Top
    <2> QED BY <1>01, <2>1, TopPlace, QueueFrame
  <1>7. CustodyInv'
    BY ConstTypes DEF Core, NumberTypes, JobTypes, QueueInv, CustodyInv, Abandon,
           Preserve, Fault, publishVars, passVars
  <1>8. WorkingInv'
    <2>1. \A m, n \in Number : working'[m] = working'[n] /\ working'[m] # 0 => m = n
      BY <1>02 DEF Core, WorkingInv
    <2>2. \A i \in DOMAIN jobs : working'[jobs[i].number] = working[jobs[i].number]
      BY <1>02, <1>03
    <2>3. step # "idle" => working'[job.number] = working[job.number]
      BY <1>02, <1>03
    <2>5. /\ \A i \in DOMAIN jobs : working[jobs[i].number] \in {0, jobs[i].window}
          /\ step # "idle" => working[job.number] \in {0, job.window}
          /\ step \in {"manifest", "object", "source"} => working[job.number] = job.window
          /\ step = "seal" /\ job.whole => working[job.number] = job.window
      BY DEF Core, WorkingInv
    <2> QED BY <1>0, <1>01, <2>1, <2>2, <2>3, <2>5 DEF WorkingInv
  <1>9. ScanInv'
    BY <1>0, <1>01, TopPlace, ScanQuiet
  <1> QED BY <1>1, <1>2, <1>3, <1>4, <1>5, <1>6, <1>7, <1>8, <1>9 DEF Core

LEMMA RotateCore ==
    ASSUME Core, Rotate PROVE Core'
  <1>0. /\ at = "write" /\ open # 0 /\ open' = 0 /\ next' = next /\ seq' = seq + 1
        /\ UNCHANGED <<working, faults, job, step, done>>
        /\ custody' = [custody EXCEPT ![seq] = "queued"] /\ outstanding' = outstanding + 1
    BY ConstTypes DEF Rotate, Spent, diskVars
  <1>01. UNCHANGED <<passVars>> /\ names = {} /\ residue = {} /\ plan = <<>>
    BY <1>0 DEF Rotate, Core, IdleInv
  <1>02. PICK j : j = [number |-> seq, window |-> open]
    OBVIOUS
  <1>03. j \in Jobs /\ j.number = seq /\ j.window = open /\ jobs' = Append(jobs, j)
    BY <1>0, <1>02, TopPlace, ConstTypes DEF Rotate, Jobs, Core, NumberTypes
  <1>04. PICK s, t : s = jobs /\ t = jobs'
    OBVIOUS
  <1>05. s \in Seq(Jobs) /\ t = Append(s, j)
    BY <1>03, <1>04 DEF Core, JobTypes
  <1>06. /\ t \in Seq(Jobs) /\ Len(t) = Len(s) + 1 /\ Len(s) \in Nat
         /\ DOMAIN s = 1 .. Len(s) /\ DOMAIN t = 1 .. Len(s) + 1
         /\ t[Len(s) + 1] = j /\ \A i \in 1 .. Len(s) : t[i] = s[i]
    BY <1>03, <1>05
  <1>07. \A i \in DOMAIN t : (i \in DOMAIN s /\ t[i] = s[i]) \/ (i = Len(s) + 1 /\ t[i] = j)
    BY <1>06
  <1>08. next = open + 1 /\ seq + 1 < next /\ open < next /\ Top = open
    BY <1>0, TopPlace DEF Core, NumberTypes, Top
  <1>1. Types'
    BY ConstTypes DEF Core, Types, Rotate, Spent, diskVars, passVars
  <1>2. NumberTypes'
    BY <1>0, <1>08, TopPlace DEF Core, NumberTypes
  <1>3. JobTypes'
    <2>1. custody' \in [Number -> {"none", "queued", "inflight"}]
      BY <1>0 DEF Core, JobTypes
    <2>2. jobs' \in Seq(Jobs) /\ Len(jobs') = Len(jobs) + 1 /\ Len(jobs) \in Nat
      BY <1>04, <1>06
    <2> QED BY <1>0, <2>1, <2>2 DEF Core, JobTypes
  <1>4. DiskTypes'
    BY ConstTypes DEF Core, NumberTypes, JobTypes, DiskTypes, Rotate, Spent, diskVars,
           passVars
  <1>5. IdleInv'
    BY ConstTypes DEF Core, Types, IdleInv, Rotate, Spent, diskVars, passVars
  <1>6. QueueInv'
    <2>1. \A i \in DOMAIN s : /\ s[i].number < seq /\ s[i].window < open
                              /\ s[i].number \in Nat /\ s[i].window \in Nat
      BY <1>04, <1>08, JobsPlace
    <2>2. \A i, k \in DOMAIN s : i < k => s[i].number < s[k].number /\ s[i].window < s[k].window
      BY <1>04 DEF Core, QueueInv
    <2>3. \A i, k \in DOMAIN t : i < k => t[i].number < t[k].number /\ t[i].window < t[k].window
      <3> SUFFICES ASSUME NEW i \in DOMAIN t, NEW k \in DOMAIN t, i < k
                   PROVE  t[i].number < t[k].number /\ t[i].window < t[k].window
        OBVIOUS
      <3>1. i \in DOMAIN s /\ t[i] = s[i]
        BY <1>06, <1>07
      <3>2. CASE k \in DOMAIN s /\ t[k] = s[k]
        BY <2>2, <3>1, <3>2
      <3>3. CASE t[k] = j
        BY <1>03, <2>1, <3>1, <3>3
      <3> QED BY <1>07, <3>2, <3>3
    <2>4. Top' = next
      BY <1>0 DEF Top
    <2>5. \A i \in DOMAIN t : t[i].number < seq + 1 /\ t[i].window < next
      BY <1>03, <1>07, <1>08, <2>1, TopPlace
    <2>6. step # "idle" =>
             /\ job.window \in Window /\ job.number < seq + 1 /\ job.window < next
             /\ \A i \in DOMAIN t : job.number < t[i].number /\ job.window < t[i].window
      <3> SUFFICES ASSUME step # "idle"
                   PROVE  /\ job.window \in Window /\ job.number < seq + 1 /\ job.window < next
                          /\ \A i \in DOMAIN t : job.number < t[i].number /\ job.window < t[i].window
        OBVIOUS
      <3>1. /\ job.window \in Window /\ job.number < seq /\ job.window < open
            /\ \A i \in DOMAIN s : job.number < s[i].number /\ job.window < s[i].window
        BY <1>04, <1>08 DEF Core, QueueInv
      <3>2. /\ \A i \in DOMAIN t : job.number < t[i].number
        BY <1>03, <1>07, <3>1
      <3>3. /\ \A i \in DOMAIN t : job.window < t[i].window
        BY <1>03, <1>07, <3>1
      <3>4. job.number < seq + 1 /\ job.window < next
        BY <1>08, <3>1, JobPlace, TopPlace
      <3> QED BY <3>1, <3>2, <3>3, <3>4
    <2> QED BY <1>0, <1>04, <2>3, <2>4, <2>5, <2>6 DEF QueueInv
  <1>7. CustodyInv'
    <2>1. \A n \in Number : n # seq => custody'[n] = custody[n]
      BY <1>0, TopPlace DEF Core, JobTypes
    <2>2. custody'[seq] = "queued"
      BY <1>0, TopPlace DEF Core, JobTypes
    <2>3. \A n \in Number : custody'[n] = "queued" => \E i \in DOMAIN t : t[i].number = n
      <3> SUFFICES ASSUME NEW n \in Number, custody'[n] = "queued"
                   PROVE  \E i \in DOMAIN t : t[i].number = n
        OBVIOUS
      <3>1. CASE n = seq
        BY <1>03, <1>06, <3>1
      <3>2. CASE n # seq
        <4>1. PICK i \in DOMAIN s : s[i].number = n
          BY <1>04, <2>1, <3>2 DEF Core, CustodyInv
        <4>2. i \in DOMAIN t /\ t[i] = s[i]
          BY <1>06
        <4> QED BY <4>1, <4>2
      <3> QED BY <3>1, <3>2
    <2>4. \A n \in Number : custody'[n] = "inflight" => step # "idle" /\ n = job.number
      BY <2>1, <2>2 DEF Core, CustodyInv
    <2>5. step # "idle" => custody'[job.number] = "inflight"
      BY <2>1, JobPlace, TopPlace DEF Core, CustodyInv
    <2> QED BY <1>0, <1>04, <2>3, <2>4, <2>5 DEF CustodyInv
  <1>8. WorkingInv'
    <2>1. working[seq] = open /\ \A i \in DOMAIN s : working[s[i].number] \in {0, s[i].window}
      BY <1>0, <1>04 DEF Core, WorkingInv
    <2>2. \A i \in DOMAIN t : working[t[i].number] \in {0, t[i].window}
      BY <1>03, <1>07, <2>1
    <2> QED BY <1>0, <1>04, <2>2 DEF Core, WorkingInv
  <1>9. ScanInv'
    BY <1>0, <1>01, TopPlace, ScanQuiet
  <1> QED BY <1>1, <1>2, <1>3, <1>4, <1>5, <1>6, <1>7, <1>8, <1>9 DEF Core

LEMMA CloseFailsCore ==
    ASSUME Core, CloseFails PROVE Core'
  <1>0. /\ at = "write" /\ open # 0 /\ open' = 0 /\ next' = next /\ seq' = seq + 1 /\ faults' \in Nat
        /\ \/ UNCHANGED <<recovered, working>>
           \/ /\ recovered' = recovered \cup {working[seq]}
              /\ working' = [working EXCEPT ![seq] = 0]
    BY TopPlace, ConstTypes DEF CloseFails, Preserve, Spent, Fault
  <1>01. /\ UNCHANGED <<retained, temps, objects, manifests, shipped, given, truncated>>
         /\ UNCHANGED <<custody, jobs, job, step>>
         /\ UNCHANGED <<passVars>> /\ names = {} /\ residue = {} /\ plan = <<>>
    BY <1>0 DEF CloseFails, publishVars, Core, IdleInv
  <1>02. /\ working \in [Number -> Number] /\ (\A n \in Number : working[n] < next /\ working[n] \in Nat)
         /\ working[seq] = open /\ seq + 1 < next /\ next = open + 1
         /\ \A n \in Number : working'[n] = working[n] \/ (n = seq /\ working'[n] = 0)
    <2>1. working \in [Number -> Number] /\ \A n \in Number : working[n] < next
      BY DEF Core, NumberTypes
    <2>2. \A n \in Number : working[n] \in Nat
      BY <2>1, ConstTypes
    <2>3. working[seq] = open /\ seq + 1 < next /\ next = open + 1
      BY <1>0 DEF Core, NumberTypes, WorkingInv
    <2>4. \A n \in Number : working'[n] = working[n] \/ (n = seq /\ working'[n] = 0)
      BY <1>0, <2>1
    <2> QED BY <2>1, <2>2, <2>3, <2>4
  <1>03. /\ \A i \in DOMAIN jobs : jobs[i].number \in Number /\ jobs[i].number # seq
         /\ step # "idle" => job.number \in Number /\ job.number # seq
    BY JobsPlace, JobPlace, TopPlace
  <1>1. Types'
    BY ConstTypes DEF Core, Types, CloseFails, Spent, Preserve, Fault, publishVars, passVars
  <1>2. NumberTypes'
    <2>1. working' \in [Number -> Number]
      BY <1>0, <1>02, TopPlace
    <2>2. \A n \in Number : working'[n] < next
      BY <1>02, TopPlace
    <2> QED BY <1>0, <1>02, <2>1, <2>2, TopPlace DEF Core, NumberTypes
  <1>3. JobTypes'
    BY ConstTypes DEF Core, Types, NumberTypes, JobTypes, CloseFails, Spent, Preserve,
           Fault, publishVars, passVars
  <1>4. DiskTypes'
    <2>1. open \in 1 .. next - 1
      BY <1>0, <1>02, TopPlace
    <2> QED BY <1>0, <1>01, <1>02, <2>1 DEF Core, DiskTypes
  <1>5. IdleInv'
    BY ConstTypes DEF Core, Types, IdleInv, CloseFails, Spent, Preserve, Fault,
           publishVars, passVars
  <1>6. QueueInv'
    <2>1. Top' = next /\ seq' = seq + 1
      BY <1>0 DEF Top
    <2> QED BY <1>01, <2>1, TopPlace, QueueFrame
  <1>7. CustodyInv'
    BY ConstTypes DEF Core, NumberTypes, JobTypes, QueueInv, CustodyInv, CloseFails,
           Spent, Preserve, Fault, publishVars, passVars
  <1>8. WorkingInv'
    <2>1. \A m, n \in Number : working'[m] = working'[n] /\ working'[m] # 0 => m = n
      BY <1>02 DEF Core, WorkingInv
    <2>2. \A i \in DOMAIN jobs : working'[jobs[i].number] = working[jobs[i].number]
      BY <1>02, <1>03
    <2>3. step # "idle" => working'[job.number] = working[job.number]
      BY <1>02, <1>03
    <2>5. /\ \A i \in DOMAIN jobs : working[jobs[i].number] \in {0, jobs[i].window}
          /\ step # "idle" => working[job.number] \in {0, job.window}
          /\ step \in {"manifest", "object", "source"} => working[job.number] = job.window
          /\ step = "seal" /\ job.whole => working[job.number] = job.window
      BY DEF Core, WorkingInv
    <2> QED BY <1>0, <1>01, <2>1, <2>2, <2>3, <2>5 DEF WorkingInv
  <1>9. ScanInv'
    BY <1>0, <1>01, TopPlace, ScanQuiet
  <1> QED BY <1>1, <1>2, <1>3, <1>4, <1>5, <1>6, <1>7, <1>8, <1>9 DEF Core

LEMMA SweepCore ==
    ASSUME Core, Sweep PROVE Core'
  <1>1. Types'
    BY ConstTypes DEF Core, Types, Sweep, Recording, diskVars, passVars
  <1>2. NumberTypes'
    BY ConstTypes DEF Core, NumberTypes, Sweep, Recording, diskVars, passVars
  <1>3. JobTypes'
    BY ConstTypes DEF Core, Types, NumberTypes, JobTypes, Sweep, Recording, diskVars,
           passVars
  <1>4. DiskTypes'
    BY ConstTypes DEF Core, NumberTypes, JobTypes, DiskTypes, Sweep, Recording, diskVars,
           passVars
  <1>5. IdleInv'
    BY ConstTypes DEF Core, Types, IdleInv, Sweep, Recording, diskVars, passVars
  <1>6. QueueInv'
    BY ConstTypes DEF Core, NumberTypes, JobTypes, QueueInv, Top, Sweep, Recording,
           diskVars, passVars
  <1>7. CustodyInv'
    BY ConstTypes DEF Core, NumberTypes, JobTypes, QueueInv, CustodyInv, Sweep, Recording,
           diskVars, passVars
  <1>8. WorkingInv'
    BY ConstTypes DEF Core, NumberTypes, JobTypes, QueueInv, CustodyInv, WorkingInv,
           Sweep, Recording, diskVars, passVars
  <1>9. ScanInv'
    BY ConstTypes DEF Core, NumberTypes, IdleInv, ScanInv, Sweep, Recording, diskVars,
           passVars
  <1> QED BY <1>1, <1>2, <1>3, <1>4, <1>5, <1>6, <1>7, <1>8, <1>9 DEF Core

LEMMA CollectCore ==
    ASSUME Core, Collect PROVE Core'
  <1>1. Types'
    BY ConstTypes DEF Core, Types, Collect, Recording, diskVars, passVars
  <1>2. NumberTypes'
    BY ConstTypes DEF Core, NumberTypes, Collect, Recording, diskVars, passVars
  <1>3. JobTypes'
    <2>1. Len(jobs) \in Nat
      BY JobsPlace
    <2> QED BY <2>1 DEF Core, JobTypes, Collect, Recording
  <1>4. DiskTypes'
    BY ConstTypes DEF Core, NumberTypes, JobTypes, DiskTypes, Collect, Recording,
           diskVars, passVars
  <1>5. IdleInv'
    BY ConstTypes DEF Core, Types, IdleInv, Collect, Recording, diskVars, passVars
  <1>6. QueueInv'
    BY ConstTypes DEF Core, NumberTypes, JobTypes, QueueInv, Top, Collect, Recording,
           diskVars, passVars
  <1>7. CustodyInv'
    BY ConstTypes DEF Core, NumberTypes, JobTypes, QueueInv, CustodyInv, Collect,
           Recording, diskVars, passVars
  <1>8. WorkingInv'
    BY ConstTypes DEF Core, NumberTypes, JobTypes, QueueInv, CustodyInv, WorkingInv,
           Collect, Recording, diskVars, passVars
  <1>9. ScanInv'
    BY ConstTypes DEF Core, NumberTypes, IdleInv, ScanInv, Collect, Recording, diskVars,
           passVars
  <1> QED BY <1>1, <1>2, <1>3, <1>4, <1>5, <1>6, <1>7, <1>8, <1>9 DEF Core

LEMMA StopCore ==
    ASSUME Core, Stop PROVE Core'
  <1>1. Types'
    BY ConstTypes DEF Core, Types, Stop, Recording, diskVars, passVars
  <1>2. NumberTypes'
    BY ConstTypes DEF Core, NumberTypes, Stop, Recording, diskVars, passVars
  <1>3. JobTypes'
    BY ConstTypes DEF Core, Types, NumberTypes, JobTypes, Stop, Recording, diskVars,
           passVars
  <1>4. DiskTypes'
    BY ConstTypes DEF Core, NumberTypes, JobTypes, DiskTypes, Stop, Recording, diskVars,
           passVars
  <1>5. IdleInv'
    BY ConstTypes DEF Core, Types, IdleInv, Stop, Recording, diskVars, passVars
  <1>6. QueueInv'
    BY ConstTypes DEF Core, NumberTypes, JobTypes, QueueInv, Top, Stop, Recording,
           diskVars, passVars
  <1>7. CustodyInv'
    BY ConstTypes DEF Core, NumberTypes, JobTypes, QueueInv, CustodyInv, Stop, Recording,
           diskVars, passVars
  <1>8. WorkingInv'
    BY ConstTypes DEF Core, NumberTypes, JobTypes, QueueInv, CustodyInv, WorkingInv, Stop,
           Recording, diskVars, passVars
  <1>9. ScanInv'
    BY ConstTypes DEF Core, NumberTypes, IdleInv, ScanInv, Stop, Recording, diskVars,
           passVars
  <1> QED BY <1>1, <1>2, <1>3, <1>4, <1>5, <1>6, <1>7, <1>8, <1>9 DEF Core

LEMMA FinalPassCore ==
    ASSUME Core, FinalPass PROVE Core'
  <1>1. Types'
    BY ConstTypes DEF Core, Types, FinalPass, Recording, Settled, diskVars, passVars
  <1>2. NumberTypes'
    BY ConstTypes DEF Core, NumberTypes, FinalPass, Recording, Settled, diskVars, passVars
  <1>3. JobTypes'
    BY ConstTypes DEF Core, Types, NumberTypes, JobTypes, FinalPass, Recording, Settled,
           diskVars, passVars
  <1>4. DiskTypes'
    BY ConstTypes DEF Core, NumberTypes, JobTypes, DiskTypes, FinalPass, Recording,
           Settled, diskVars, passVars
  <1>5. IdleInv'
    <2>1. Len(jobs) \in Nat /\ jobs \in Seq(Jobs) /\ done \in Nat
      BY JobsPlace DEF Core, JobTypes
    <2>2. outstanding = 0 /\ open = 0
      BY ConstTypes DEF FinalPass, Settled
    <2>3. step = "idle" /\ Len(jobs) = 0 /\ done = 0
      BY <2>1, <2>2 DEF Core, JobTypes
    <2>4. jobs = <<>>
      BY <2>1, <2>3
    <2> QED BY <2>2, <2>3, <2>4 DEF Core, IdleInv, FinalPass, Recording, diskVars, passVars
  <1>6. QueueInv'
    BY ConstTypes DEF Core, NumberTypes, JobTypes, QueueInv, Top, FinalPass, Recording,
           Settled, diskVars, passVars
  <1>7. CustodyInv'
    BY ConstTypes DEF Core, NumberTypes, JobTypes, QueueInv, CustodyInv, FinalPass,
           Recording, Settled, diskVars, passVars
  <1>8. WorkingInv'
    BY ConstTypes DEF Core, NumberTypes, JobTypes, QueueInv, CustodyInv, WorkingInv,
           FinalPass, Recording, Settled, diskVars, passVars
  <1>9. ScanInv'
    BY ConstTypes DEF Core, NumberTypes, IdleInv, ScanInv, FinalPass, Recording, Settled,
           diskVars, passVars
  <1> QED BY <1>1, <1>2, <1>3, <1>4, <1>5, <1>6, <1>7, <1>8, <1>9 DEF Core

LEMMA ListCompletedCore ==
    ASSUME Core, ListCompleted PROVE Core'
  <1>1. Types'
    BY ConstTypes DEF Core, Types, ListCompleted, Pass, writerVars, diskVars, publishVars
  <1>2. NumberTypes'
    BY ConstTypes DEF Core, NumberTypes, ListCompleted, Pass, writerVars, diskVars,
           publishVars
  <1>3. JobTypes'
    BY ConstTypes DEF Core, Types, NumberTypes, JobTypes, ListCompleted, Pass, writerVars,
           diskVars, publishVars
  <1>4. DiskTypes'
    BY ConstTypes DEF Core, NumberTypes, JobTypes, DiskTypes, ListCompleted, Pass,
           writerVars, diskVars, publishVars
  <1>5. IdleInv'
    BY ConstTypes DEF Core, Types, IdleInv, ListCompleted, Pass, writerVars, diskVars,
           publishVars
  <1>6. QueueInv'
    BY ConstTypes DEF Core, NumberTypes, JobTypes, QueueInv, Top, ListCompleted, Pass,
           writerVars, diskVars, publishVars
  <1>7. CustodyInv'
    BY ConstTypes DEF Core, NumberTypes, JobTypes, QueueInv, CustodyInv, ListCompleted,
           Pass, writerVars, diskVars, publishVars
  <1>8. WorkingInv'
    BY ConstTypes DEF Core, NumberTypes, JobTypes, QueueInv, CustodyInv, WorkingInv,
           ListCompleted, Pass, writerVars, diskVars, publishVars
  <1>9. ScanInv'
    <2>1. PICK o : o = objects
      OBVIOUS
    <2>2. o \subseteq 1 .. next - 1 /\ IsFiniteSet(o)
      BY <2>1, TopPlace, WindowsFinite DEF Core, DiskTypes
    <2>3. PICK l : l = {[kind |-> "object", id |-> w, age |-> w] : w \in o}
      OBVIOUS
    <2>4. IsFiniteSet(l)
      BY <2>2, <2>3, EntriesFinite
    <2>5. listed' = l /\ UNCHANGED <<seq, next, names, residue, plan, need, kept>>
      BY <2>1, <2>3 DEF ListCompleted, Pass, writerVars
    <2>6. o \subseteq Number
      BY <2>2, TopPlace, ConstTypes
    <2>7. l \subseteq Entries
      BY <2>3, <2>6 DEF Entries
    <2>8. \A e \in l : IsObject(e) /\ e.age = e.id /\ e.id \in 1 .. next - 1
      BY <2>2, <2>3 DEF IsObject
    <2> QED BY <2>4, <2>5, <2>7, <2>8 DEF Core, ScanInv
  <1> QED BY <1>1, <1>2, <1>3, <1>4, <1>5, <1>6, <1>7, <1>8, <1>9 DEF Core

LEMMA ListStagingCore ==
    ASSUME Core, ListStaging PROVE Core'
  <1>1. Types'
    BY ConstTypes DEF Core, Types, ListStaging, Pass, writerVars, diskVars, publishVars
  <1>2. NumberTypes'
    BY ConstTypes DEF Core, NumberTypes, ListStaging, Pass, writerVars, diskVars,
           publishVars
  <1>3. JobTypes'
    BY ConstTypes DEF Core, Types, NumberTypes, JobTypes, ListStaging, Pass, writerVars,
           diskVars, publishVars
  <1>4. DiskTypes'
    BY ConstTypes DEF Core, NumberTypes, JobTypes, DiskTypes, ListStaging, Pass,
           writerVars, diskVars, publishVars
  <1>5. IdleInv'
    BY ConstTypes DEF Core, Types, IdleInv, ListStaging, Pass, writerVars, diskVars,
           publishVars
  <1>6. QueueInv'
    BY ConstTypes DEF Core, NumberTypes, JobTypes, QueueInv, Top, ListStaging, Pass,
           writerVars, diskVars, publishVars
  <1>7. CustodyInv'
    BY ConstTypes DEF Core, NumberTypes, JobTypes, QueueInv, CustodyInv, ListStaging,
           Pass, writerVars, diskVars, publishVars
  <1>8. WorkingInv'
    BY ConstTypes DEF Core, NumberTypes, JobTypes, QueueInv, CustodyInv, WorkingInv,
           ListStaging, Pass, writerVars, diskVars, publishVars
  <1>9. ScanInv'
    <2>1. PICK o, r : o = retained /\ r = recovered
      OBVIOUS
    <2>2. /\ o \subseteq 1 .. next - 1 /\ IsFiniteSet(o) /\ r \subseteq 1 .. next - 1 /\ IsFiniteSet(r)
      BY <2>1, TopPlace, WindowsFinite DEF Core, DiskTypes
    <2>3. PICK l, k : /\ l = {[kind |-> "retained", id |-> w, age |-> w] : w \in o}
                      /\ k = {[kind |-> "recovered", id |-> w, age |-> w] : w \in r}
      OBVIOUS
    <2>4. IsFiniteSet(l) /\ IsFiniteSet(k)
      BY <2>2, <2>3, EntriesFinite
    <2>5. /\ listed' = listed \cup l /\ residue' = k /\ UNCHANGED <<seq, next, plan, need, kept>>
          /\ names' \subseteq Number /\ seq \notin names'
      BY <2>1, <2>3 DEF ListStaging, Pass, writerVars
    <2>6. o \subseteq Number /\ r \subseteq Number
      BY <2>2, TopPlace, ConstTypes
    <2>7. l \subseteq Entries /\ k \subseteq Entries
      BY <2>3, <2>6 DEF Entries
    <2>8. /\ \A e \in l : IsObject(e) /\ e.age = e.id /\ e.id \in 1 .. next - 1
          /\ \A e \in k : ~IsObject(e) /\ ~ByName(e)
      BY <2>2, <2>3 DEF IsObject, ByName
    <2>9. IsFiniteSet(listed')
      BY <2>4, <2>5, FS_Union DEF Core, ScanInv
    <2>10. \A e \in k : e.kind # "queued"
      BY <2>3
    <2> QED BY <2>4, <2>5, <2>7, <2>8, <2>9, <2>10 DEF Core, ScanInv
  <1> QED BY <1>1, <1>2, <1>3, <1>4, <1>5, <1>6, <1>7, <1>8, <1>9 DEF Core

LEMMA ClassifyCore ==
    ASSUME Core, NEW n \in Number, Classify(n) PROVE Core'
  <1>1. Types'
    BY ConstTypes DEF Core, Types, Classify, Pass, writerVars, diskVars, publishVars
  <1>2. NumberTypes'
    BY ConstTypes DEF Core, NumberTypes, Classify, Pass, writerVars, diskVars, publishVars
  <1>3. JobTypes'
    BY ConstTypes DEF Core, Types, NumberTypes, JobTypes, Classify, Pass, writerVars,
           diskVars, publishVars
  <1>4. DiskTypes'
    BY ConstTypes DEF Core, NumberTypes, JobTypes, DiskTypes, Classify, Pass, writerVars,
           diskVars, publishVars
  <1>5. IdleInv'
    BY ConstTypes DEF Core, Types, IdleInv, Classify, Pass, writerVars, diskVars,
           publishVars
  <1>6. QueueInv'
    BY ConstTypes DEF Core, NumberTypes, JobTypes, QueueInv, Top, Classify, Pass,
           writerVars, diskVars, publishVars
  <1>7. CustodyInv'
    BY ConstTypes DEF Core, NumberTypes, JobTypes, QueueInv, CustodyInv, Classify, Pass,
           writerVars, diskVars, publishVars
  <1>8. WorkingInv'
    BY ConstTypes DEF Core, NumberTypes, JobTypes, QueueInv, CustodyInv, WorkingInv,
           Classify, Pass, writerVars, diskVars, publishVars
  <1>9. ScanInv'
    <2>1. PICK e : e = IF custody[n] = "queued" THEN [kind |-> "queued", id |-> n, age |-> n]
                       ELSE [kind |-> "orphan", id |-> n, age |-> working[n]]
      OBVIOUS
    <2>2. /\ names' = names \ {n} /\ n \in names /\ (residue' = residue \/ residue' = residue \cup {e})
          /\ UNCHANGED <<seq, next, listed, plan, need, kept>>
      BY <2>1 DEF Classify, Pass, writerVars
    <2>3. e \in Entries
      BY <2>1 DEF Core, NumberTypes, Entries
    <2>4. ~IsObject(e) /\ e.id = n /\ (e.kind = "queued" => e.age = e.id)
      BY <2>1 DEF IsObject
    <2>5. n # seq
      BY <2>2 DEF Core, ScanInv
    <2>6. IsFiniteSet(residue')
      BY <2>2, FS_AddElement DEF Core, ScanInv
    <2> QED BY <2>2, <2>3, <2>4, <2>5, <2>6 DEF Core, ScanInv
  <1> QED BY <1>1, <1>2, <1>3, <1>4, <1>5, <1>6, <1>7, <1>8, <1>9 DEF Core

LEMMA PlanEvictionCore ==
    ASSUME Core, PlanEviction PROVE Core'
  <1>1. Types'
    BY ConstTypes DEF Core, Types, PlanEviction, Pass, writerVars, diskVars, publishVars
  <1>2. NumberTypes'
    BY ConstTypes DEF Core, NumberTypes, PlanEviction, Pass, writerVars, diskVars,
           publishVars
  <1>3. JobTypes'
    BY ConstTypes DEF Core, Types, NumberTypes, JobTypes, PlanEviction, Pass, writerVars,
           diskVars, publishVars
  <1>4. DiskTypes'
    BY ConstTypes DEF Core, NumberTypes, JobTypes, DiskTypes, PlanEviction, Pass,
           writerVars, diskVars, publishVars
  <1>5. IdleInv'
    BY ConstTypes DEF Core, Types, IdleInv, PlanEviction, Pass, writerVars, diskVars,
           publishVars
  <1>6. QueueInv'
    BY ConstTypes DEF Core, NumberTypes, JobTypes, QueueInv, Top, PlanEviction, Pass,
           writerVars, diskVars, publishVars
  <1>7. CustodyInv'
    BY ConstTypes DEF Core, NumberTypes, JobTypes, QueueInv, CustodyInv, PlanEviction,
           Pass, writerVars, diskVars, publishVars
  <1>8. WorkingInv'
    BY ConstTypes DEF Core, NumberTypes, JobTypes, QueueInv, CustodyInv, WorkingInv,
           PlanEviction, Pass, writerVars, diskVars, publishVars
  <1>9. ScanInv'
    <2>1. PICK o, r, p : o = listed /\ r = residue /\ p = Reachable(o, r)
      OBVIOUS
    <2>2. o \subseteq Entries /\ r \subseteq Entries /\ IsFiniteSet(o) /\ IsFiniteSet(r)
      BY <2>1 DEF Core, ScanInv
    <2>3. p \in Seq(o \cup r) /\ Len(p) \in Nat /\ \A i \in DOMAIN p : p[i] \in o \cup r
      BY <2>1, <2>2, ReachableLists
    <2>4. p \in Seq(Entries)
      BY <2>2, <2>3
    <2>5. /\ plan' = p /\ need' = Len(p) - StagingMax /\ residue' = {} /\ kept' = 0
          /\ UNCHANGED <<seq, next, listed, names>>
      BY <2>1, ConstTypes DEF PlanEviction, Pass, writerVars
    <2>6. /\ \A e \in o : ~ByName(e)
          /\ \A e \in r : ByName(e) => e.id # seq
      BY <2>1 DEF Core, ScanInv, IsObject, ByName
    <2>7. \A i \in DOMAIN p : ByName(p[i]) => p[i].id # seq
      BY <2>3, <2>6
    <2>8. need' \in Int /\ Len(plan') <= need' + StagingMax /\ kept' \in Number
      BY <2>3, <2>5, ConstTypes
    <2>9. IsFiniteSet(residue')
      BY <2>5, FS_EmptySet
    <2> QED BY <2>4, <2>5, <2>7, <2>8, <2>9 DEF Core, ScanInv
  <1> QED BY <1>1, <1>2, <1>3, <1>4, <1>5, <1>6, <1>7, <1>8, <1>9 DEF Core

(* What one candidate of the pass may cost: nothing that is in use.         *)
Takes(e) ==
    /\ at = "evict" /\ need > 0 /\ e = plan[1] /\ 1 \in DOMAIN plan /\ e \in Entries
    /\ plan' \in Seq(Entries) /\ Len(plan') \in Nat /\ Len(plan') + 1 = Len(plan)
    /\ DOMAIN plan' = 1 .. Len(plan') /\ DOMAIN plan = 1 .. Len(plan)
    /\ \A i \in DOMAIN plan' : i + 1 \in DOMAIN plan /\ plan'[i] = plan[i + 1]
    /\ UNCHANGED <<at, next, open, seq, number, jobs, job, step, custody, listed, names, residue,
                   floor, temps, shipped, truncated, stop, done, outstanding>>
    /\ faults' \in Nat /\ (faults' = 0 => faults = 0)
    /\ working \in [Number -> Number] /\ working' \in [Number -> Number]
    /\ \A n \in Number : working'[n] = working[n]
           \/ (working'[n] = 0 /\ custody[n] # "inflight" /\ n # seq)
    /\ \/ /\ Spared(e) \/ ~OnDisk(e)
          /\ need' = need - 1
          /\ UNCHANGED <<recovered, retained, objects, manifests, working, given, kept, still>>
       \/ /\ ~Spared(e) /\ OnDisk(e) /\ need' = need - 1
          /\ Unlinked(e) /\ given' = given \cup {WindowOf(e)}
          /\ UNCHANGED <<kept, still>>
       \/ /\ ~Spared(e) /\ OnDisk(e) /\ kept' = Kept(e) /\ still' = FALSE
          /\ UNCHANGED <<need, recovered, retained, objects, manifests, working, given>>
    /\ kept' \in Number /\ (need' = need \/ need' = need - 1)
    /\ recovered' \subseteq recovered /\ retained' \subseteq retained
    /\ objects' \subseteq objects /\ manifests' \subseteq manifests
    /\ given' \subseteq 1 .. next - 1

LEMMA EvictTakes ==
    ASSUME Core, Evict
    PROVE  \E e : Takes(e)
  <1>1. PICK e, p, q : e = Head(plan) /\ p = plan /\ q = Tail(plan)
    OBVIOUS
  <1>2. p \in Seq(Entries) /\ p # <<>> /\ plan' = q
    BY <1>1 DEF Core, ScanInv, Evict
  <1>3. /\ q \in Seq(Entries) /\ Len(q) \in Nat /\ Len(q) + 1 = Len(p) /\ e = p[1] /\ e \in Entries
        /\ DOMAIN p = 1 .. Len(p) /\ DOMAIN q = 1 .. Len(q) /\ 1 \in DOMAIN p
        /\ \A i \in DOMAIN q : i + 1 \in DOMAIN p /\ q[i] = p[i + 1]
    <2>1. /\ q \in Seq(Entries) /\ Len(q) = Len(p) - 1 /\ e = p[1] /\ Len(p) \in Nat
          /\ \A i \in 1 .. Len(q) : q[i] = p[i + 1]
      BY <1>1, <1>2, HeadTailProperties
    <2>2. Len(p) # 0 /\ DOMAIN p = 1 .. Len(p) /\ DOMAIN q = 1 .. Len(q)
      BY <1>2, <2>1
    <2>3. Len(q) \in Nat /\ Len(q) + 1 = Len(p) /\ 1 \in DOMAIN p
      BY <2>1, <2>2
    <2>4. e \in Entries
      BY <1>2, <2>1, <2>3
    <2> QED BY <2>1, <2>2, <2>3, <2>4
  <1>4. /\ at = "evict" /\ need > 0
        /\ UNCHANGED <<at, next, open, seq, number, jobs, job, step, custody, listed, names, residue,
                       floor, temps, shipped, truncated, stop, done, outstanding>>
    BY DEF Evict, Pass, writerVars, publishVars
  <1>5. /\ \/ /\ Spared(e) \/ ~OnDisk(e)
              /\ need' = need - 1 /\ faults' = faults
              /\ UNCHANGED <<recovered, retained, objects, manifests, working, given, kept, still>>
           \/ /\ ~Spared(e) /\ OnDisk(e) /\ need' = need - 1 /\ faults' = faults
              /\ Unlinked(e) /\ given' = given \cup {WindowOf(e)}
              /\ UNCHANGED <<kept, still>>
           \/ /\ ~Spared(e) /\ OnDisk(e) /\ kept' = Kept(e) /\ still' = FALSE
              /\ faults' = faults + 1
              /\ UNCHANGED <<need, recovered, retained, objects, manifests, working, given>>
    BY <1>1 DEF Evict, diskVars, Fault
  <1>6. faults \in Nat /\ working \in [Number -> Number] /\ kept \in Number
        /\ \A n \in Number : working[n] < next
    BY TopPlace DEF Core, NumberTypes, ScanInv
  <1>7. faults' \in Nat /\ (faults' = 0 => faults = 0)
    BY <1>5, <1>6
  <1>8. ByName(e) => e.id # seq
    BY <1>1, <1>2, <1>3 DEF Core, ScanInv
  <1>9. /\ working' \in [Number -> Number]
        /\ \A n \in Number : working'[n] = working[n]
               \/ (working'[n] = 0 /\ custody[n] # "inflight" /\ n # seq)
    <2>1. CASE Unlinked(e) /\ ~Spared(e) /\ ByName(e)
      <3>1. working' = [working EXCEPT ![e.id] = 0] /\ custody[e.id] # "inflight" /\ e.id \in Number
        BY <1>3, <2>1, ConstTypes DEF Unlinked, Spared, ByName, Entries
      <3>2. 0 \in Number
        BY TopPlace
      <3> QED BY <1>6, <1>8, <2>1, <3>1, <3>2
    <2>2. CASE Unlinked(e) /\ ~ByName(e)
      <3>1. working' = working
        BY <2>2 DEF Unlinked, ByName
      <3> QED BY <1>6, <3>1
    <2>3. CASE working' = working
      BY <1>6, <2>3
    <2> QED BY <1>5, <2>1, <2>2, <2>3
  <1>10. /\ recovered' \subseteq recovered /\ retained' \subseteq retained
         /\ objects' \subseteq objects /\ manifests' \subseteq manifests
    BY <1>5 DEF Unlinked
  <1>11. kept' \in Number
    <2>1. e.id \in Number
      BY <1>3 DEF Entries
    <2> QED BY <1>5, <1>6, <2>1 DEF Kept
  <1>12. OnDisk(e) => WindowOf(e) \in 1 .. next - 1
    <2>1. ASSUME OnDisk(e), ByName(e) PROVE WindowOf(e) \in 1 .. next - 1
      <3>1. e.id \in Number /\ working[e.id] # 0 /\ WindowOf(e) = working[e.id]
        BY <1>3, <2>1, ConstTypes DEF OnDisk, ByName, WindowOf, Entries
      <3>2. working[e.id] \in Number
        BY <1>6, <3>1
      <3>3. working[e.id] \in Nat
        BY <3>2, ConstTypes
      <3> QED BY <1>6, <3>1, <3>3, TopPlace
    <2>2. ASSUME OnDisk(e), ~ByName(e) PROVE WindowOf(e) \in 1 .. next - 1
      <3>1. e.id \in objects \cup retained \cup recovered /\ WindowOf(e) = e.id
        BY <1>3, <2>2 DEF OnDisk, ByName, WindowOf, Entries
      <3> QED BY <3>1 DEF Core, DiskTypes
    <2> QED BY <2>1, <2>2
  <1>13. given' \subseteq 1 .. next - 1
    BY <1>5, <1>12 DEF Core, DiskTypes
  <1>14. Takes(e)
    BY <1>1, <1>2, <1>3, <1>4, <1>5, <1>7, <1>6, <1>9, <1>10, <1>11, <1>13 DEF Takes
  <1> QED BY <1>14

LEMMA EvictCore ==
    ASSUME Core, Evict PROVE Core'
  <1>0. PICK e : Takes(e)
    BY EvictTakes
  <1>01. /\ UNCHANGED <<at, next, open, seq, jobs, job, step, custody, listed, names, residue, temps,
                        shipped, truncated, stop, done, outstanding>>
         /\ faults' \in Nat /\ working \in [Number -> Number] /\ working' \in [Number -> Number]
         /\ \A n \in Number : working'[n] = working[n]
                \/ (working'[n] = 0 /\ custody[n] # "inflight" /\ n # seq)
    BY <1>0 DEF Takes
  <1>1. Types'
    BY ConstTypes DEF Core, Types, Evict, Pass, Unlinked, Fault, Spared, writerVars,
           diskVars, publishVars
  <1>2. NumberTypes'
    <2>1. \A n \in Number : working'[n] < next
      BY <1>01, TopPlace DEF Core, NumberTypes
    <2> QED BY <1>01, <2>1 DEF Core, NumberTypes
  <1>3. JobTypes'
    BY ConstTypes DEF Core, Types, NumberTypes, JobTypes, Evict, Pass, Unlinked, Fault,
           Spared, writerVars, diskVars, publishVars
  <1>4. DiskTypes'
    BY <1>0, <1>01 DEF Core, DiskTypes, Takes
  <1>5. IdleInv'
    BY ConstTypes DEF Core, Types, IdleInv, Evict, Pass, Unlinked, Fault, Spared,
           writerVars, diskVars, publishVars
  <1>6. QueueInv'
    BY ConstTypes DEF Core, NumberTypes, JobTypes, QueueInv, Top, Evict, Pass, Unlinked,
           Fault, Spared, writerVars, diskVars, publishVars
  <1>7. CustodyInv'
    BY ConstTypes DEF Core, NumberTypes, JobTypes, QueueInv, CustodyInv, Evict, Pass,
           Unlinked, Fault, Spared, writerVars, diskVars, publishVars
  <1>8. WorkingInv'
    <2>1. \A m, n \in Number : working'[m] = working'[n] /\ working'[m] # 0 => m = n
      BY <1>01 DEF Core, WorkingInv
    <2>2. open # 0 => working'[seq] = open
      BY <1>01, TopPlace DEF Core, WorkingInv
    <2>3. \A i \in DOMAIN jobs : working'[jobs[i].number] \in {0, jobs[i].window}
      BY <1>01, JobsPlace DEF Core, WorkingInv
    <2>4. step # "idle" => working'[job.number] = working[job.number]
      BY <1>01, JobPlace DEF Core, CustodyInv
    <2>5. /\ step # "idle" => working[job.number] \in {0, job.window}
          /\ step \in {"manifest", "object", "source"} => working[job.number] = job.window
          /\ step = "seal" /\ job.whole => working[job.number] = job.window
      BY DEF Core, WorkingInv
    <2> QED BY <1>01, <2>1, <2>2, <2>3, <2>4, <2>5 DEF WorkingInv
  <1>9. ScanInv'
    <2>1. /\ plan' \in Seq(Entries) /\ Len(plan') \in Nat /\ Len(plan') + 1 = Len(plan)
          /\ (need' = need \/ need' = need - 1) /\ kept' \in Number
          /\ \A i \in DOMAIN plan' : i + 1 \in DOMAIN plan /\ plan'[i] = plan[i + 1]
      BY <1>0 DEF Takes
    <2>2. need' \in Int /\ Len(plan') <= need' + StagingMax
      BY <2>1, ConstTypes DEF Core, ScanInv
    <2>3. \A i \in DOMAIN plan' : ByName(plan'[i]) => plan'[i].id # seq
      BY <2>1 DEF Core, ScanInv
    <2> QED BY <1>01, <2>1, <2>2, <2>3 DEF Core, ScanInv
  <1> QED BY <1>1, <1>2, <1>3, <1>4, <1>5, <1>6, <1>7, <1>8, <1>9 DEF Core

LEMMA EndPassCore ==
    ASSUME Core, EndPass PROVE Core'
  <1>1. Types'
    BY ConstTypes DEF Core, Types, EndPass, Pass, writerVars, diskVars, publishVars
  <1>2. NumberTypes'
    BY ConstTypes DEF Core, NumberTypes, EndPass, Pass, writerVars, diskVars, publishVars
  <1>3. JobTypes'
    BY ConstTypes DEF Core, Types, NumberTypes, JobTypes, EndPass, Pass, writerVars,
           diskVars, publishVars
  <1>4. DiskTypes'
    BY ConstTypes DEF Core, NumberTypes, JobTypes, DiskTypes, EndPass, Pass, writerVars,
           diskVars, publishVars
  <1>5. IdleInv'
    BY ConstTypes DEF Core, Types, IdleInv, EndPass, Pass, writerVars, diskVars, publishVars
  <1>6. QueueInv'
    BY ConstTypes DEF Core, NumberTypes, JobTypes, QueueInv, Top, EndPass, Pass,
           writerVars, diskVars, publishVars
  <1>7. CustodyInv'
    BY ConstTypes DEF Core, NumberTypes, JobTypes, QueueInv, CustodyInv, EndPass, Pass,
           writerVars, diskVars, publishVars
  <1>8. WorkingInv'
    BY ConstTypes DEF Core, NumberTypes, JobTypes, QueueInv, CustodyInv, WorkingInv,
           EndPass, Pass, writerVars, diskVars, publishVars
  <1>9. ScanInv'
    <2>1. /\ plan' = <<>> /\ need' = 0 /\ kept' = 0
          /\ UNCHANGED <<seq, next, listed, names, residue>>
      BY ConstTypes DEF EndPass, Pass, writerVars
    <2>2. plan' \in Seq(Entries) /\ DOMAIN plan' = {} /\ Len(plan') = 0
      BY <2>1
    <2> QED BY <2>1, <2>2, ConstTypes DEF Core, ScanInv
  <1> QED BY <1>1, <1>2, <1>3, <1>4, <1>5, <1>6, <1>7, <1>8, <1>9 DEF Core

LEMMA StartPublicationCore ==
    ASSUME Core, StartPublication PROVE Core'
  <1>0. PICK s, t, j : s = jobs /\ t = Tail(jobs) /\ j = Head(jobs)
    OBVIOUS
  <1>01. s \in Seq(Jobs) /\ s # <<>>
    BY <1>0 DEF Core, JobTypes, StartPublication
  <1>02. /\ t \in Seq(Jobs) /\ Len(t) \in Nat /\ Len(s) = Len(t) + 1 /\ j = s[1] /\ j \in Jobs
         /\ DOMAIN s = 1 .. Len(t) + 1 /\ DOMAIN t = 1 .. Len(t)
         /\ \A i \in 1 .. Len(t) : t[i] = s[i + 1]
    BY <1>0, <1>01, HeadTailProperties
  <1>03. /\ step = "idle" /\ step' = "seal" /\ jobs' = t
         /\ job' = [number |-> j.number, window |-> j.window, whole |-> working[j.number] = j.window]
         /\ custody' = [custody EXCEPT ![j.number] = "inflight"]
         /\ UNCHANGED <<next, open, seq, working, done, outstanding>>
    BY <1>0 DEF StartPublication, Compressor, writerVars
  <1>04. /\ j.number \in Number /\ j.window \in Window /\ j.window \in Number
    BY <1>02, ConstTypes DEF Jobs
  <1>05. job'.number = j.number /\ job'.window = j.window
         /\ job'.whole = (working[j.number] = j.window)
    BY <1>03
  <1>06. 1 \in DOMAIN s /\ \A i \in DOMAIN t : i + 1 \in DOMAIN s /\ 1 < i + 1
    BY <1>02
  <1>1. Types'
    BY ConstTypes DEF Core, Types, StartPublication, Compressor, writerVars, passVars
  <1>2. NumberTypes'
    BY ConstTypes DEF Core, NumberTypes, StartPublication, Compressor, writerVars, passVars
  <1>3. JobTypes'
    <2>1. custody' \in [Number -> {"none", "queued", "inflight"}]
      BY <1>03 DEF Core, JobTypes
    <2>2. job' \in [number : Number, window : Number, whole : BOOLEAN]
      BY <1>03, <1>04
    <2>3. outstanding' = Len(jobs') + done' + 1
      BY <1>0, <1>02, <1>03 DEF Core, JobTypes
    <2> QED BY <1>02, <1>03, <2>1, <2>2, <2>3 DEF Core, JobTypes
  <1>4. DiskTypes'
    BY ConstTypes DEF Core, NumberTypes, JobTypes, DiskTypes, StartPublication,
           Compressor, writerVars, passVars
  <1>5. IdleInv'
    BY ConstTypes DEF Core, Types, IdleInv, StartPublication, Compressor, writerVars,
           passVars
  <1>6. QueueInv'
    <2>1. \A i, k \in DOMAIN s : i < k => s[i].number < s[k].number /\ s[i].window < s[k].window
      BY <1>0 DEF Core, QueueInv
    <2>2. \A i \in DOMAIN s : s[i].number < seq /\ s[i].window < Top
      BY <1>0 DEF Core, QueueInv
    <2>3. \A i, k \in DOMAIN t : i < k => t[i].number < t[k].number /\ t[i].window < t[k].window
      BY <1>02, <1>06, <2>1
    <2>4. \A i \in DOMAIN t : t[i].number < seq /\ t[i].window < Top
      BY <1>02, <1>06, <2>2
    <2>5. j.number < seq /\ j.window < Top
      BY <1>02, <1>06, <2>2
    <2>6. \A i \in DOMAIN t : j.number < t[i].number /\ j.window < t[i].window
      BY <1>02, <1>06, <2>1
    <2>7. Top' = Top /\ seq' = seq
      BY <1>03 DEF Top
    <2> QED BY <1>03, <1>04, <1>05, <2>3, <2>4, <2>5, <2>6, <2>7 DEF QueueInv
  <1>7. CustodyInv'
    <2>1. custody'[j.number] = "inflight" /\ \A n \in Number : n # j.number => custody'[n] = custody[n]
      BY <1>03, <1>04 DEF Core, JobTypes
    <2>2. \A n \in Number : custody[n] # "inflight"
      BY <1>03 DEF Core, CustodyInv
    <2>3. ASSUME NEW n \in Number, custody'[n] = "queued" PROVE \E i \in DOMAIN t : t[i].number = n
      <3>1. n # j.number /\ custody[n] = "queued"
        BY <2>1, <2>3
      <3>2. PICK i \in DOMAIN s : s[i].number = n
        BY <1>0, <3>1 DEF Core, CustodyInv
      <3>3. i # 1
        BY <1>02, <3>1, <3>2
      <3>4. PICK k \in DOMAIN t : k + 1 = i
        <4>1. i \in Nat /\ i >= 1 /\ i <= Len(t) + 1
          BY <1>02, <3>2
        <4>2. i - 1 \in DOMAIN t
          BY <1>02, <3>3, <4>1
        <4>3. i - 1 + 1 = i
          BY <4>1
        <4> QED BY <4>2, <4>3
      <3> QED BY <1>02, <3>2, <3>4
    <2> QED BY <1>03, <1>05, <2>1, <2>2, <2>3 DEF CustodyInv
  <1>8. WorkingInv'
    <2>1. \A i \in DOMAIN s : working[s[i].number] \in {0, s[i].window}
      BY <1>0 DEF Core, WorkingInv
    <2>2. working[j.number] \in {0, j.window} /\ \A i \in DOMAIN t : working[t[i].number] \in {0, t[i].window}
      BY <1>02, <1>06, <2>1
    <2>3. /\ open # 0 => working[seq] = open
          /\ \A m, n \in Number : working[m] = working[n] /\ working[m] # 0 => m = n
      BY DEF Core, WorkingInv
    <2> QED BY <1>03, <1>05, <2>2, <2>3 DEF WorkingInv
  <1>9. ScanInv'
    BY ConstTypes DEF Core, NumberTypes, IdleInv, ScanInv, StartPublication, Compressor,
           writerVars, passVars
  <1> QED BY <1>1, <1>2, <1>3, <1>4, <1>5, <1>6, <1>7, <1>8, <1>9 DEF Core

LEMMA SealCore ==
    ASSUME Core, Seal PROVE Core'
  <1>0. /\ UNCHANGED <<next, open, seq, working, recovered, retained, objects, manifests, shipped,
                        given, truncated>>
        /\ faults' \in Nat /\ step = "seal" /\ (temps' = temps \/ temps' = temps \cup {job.window})
    BY TopPlace DEF Seal, Compressor, Fault, writerVars, passVars
  <1>1. Types'
    BY ConstTypes DEF Core, Types, Seal, Compressor, Fault, writerVars, passVars
  <1>2. NumberTypes'
    BY <1>0 DEF Core, NumberTypes
  <1>3. JobTypes'
    BY ConstTypes DEF Core, Types, NumberTypes, JobTypes, Seal, Compressor, Fault,
           writerVars, passVars
  <1>4. DiskTypes'
    BY <1>0, JobPlace DEF Core, DiskTypes
  <1>5. IdleInv'
    BY ConstTypes DEF Core, Types, IdleInv, Seal, Compressor, Fault, writerVars, passVars
  <1>6. QueueInv'
    BY ConstTypes DEF Core, NumberTypes, JobTypes, QueueInv, Top, Seal, Compressor, Fault,
           writerVars, passVars
  <1>7. CustodyInv'
    BY ConstTypes DEF Core, NumberTypes, JobTypes, QueueInv, CustodyInv, Seal, Compressor,
           Fault, writerVars, passVars
  <1>8. WorkingInv'
    BY ConstTypes DEF Core, NumberTypes, JobTypes, QueueInv, CustodyInv, WorkingInv, Seal,
           Compressor, Fault, writerVars, passVars
  <1>9. ScanInv'
    BY ConstTypes DEF Core, NumberTypes, IdleInv, ScanInv, Seal, Compressor, Fault,
           writerVars, passVars
  <1> QED BY <1>1, <1>2, <1>3, <1>4, <1>5, <1>6, <1>7, <1>8, <1>9 DEF Core

LEMMA LandManifestCore ==
    ASSUME Core, Land("manifest", "object") PROVE Core'
  <1>0. /\ UNCHANGED <<next, open, seq, working, recovered, retained, objects, temps, shipped,
                        given, truncated>>
        /\ faults' \in Nat /\ step = "manifest"
        /\ (manifests' = manifests \/ manifests' = manifests \cup {job.window})
    BY TopPlace DEF Land, Lands, Compressor, Fault, writerVars, passVars
  <1>1. Types'
    BY ConstTypes DEF Core, Types, Land, Compressor, Lands, Fault, writerVars, passVars
  <1>2. NumberTypes'
    BY <1>0 DEF Core, NumberTypes
  <1>3. JobTypes'
    BY ConstTypes DEF Core, Types, NumberTypes, JobTypes, Land, Compressor, Lands, Fault,
           writerVars, passVars
  <1>4. DiskTypes'
    BY <1>0, JobPlace DEF Core, DiskTypes
  <1>5. IdleInv'
    BY ConstTypes DEF Core, Types, IdleInv, Land, Compressor, Lands, Fault, writerVars,
           passVars
  <1>6. QueueInv'
    BY ConstTypes DEF Core, NumberTypes, JobTypes, QueueInv, Top, Land, Compressor, Lands,
           Fault, writerVars, passVars
  <1>7. CustodyInv'
    BY ConstTypes DEF Core, NumberTypes, JobTypes, QueueInv, CustodyInv, Land, Compressor,
           Lands, Fault, writerVars, passVars
  <1>8. WorkingInv'
    BY ConstTypes DEF Core, NumberTypes, JobTypes, QueueInv, CustodyInv, WorkingInv, Land,
           Compressor, Lands, Fault, writerVars, passVars
  <1>9. ScanInv'
    BY ConstTypes DEF Core, NumberTypes, IdleInv, ScanInv, Land, Compressor, Lands, Fault,
           writerVars, passVars
  <1> QED BY <1>1, <1>2, <1>3, <1>4, <1>5, <1>6, <1>7, <1>8, <1>9 DEF Core

LEMMA LandObjectCore ==
    ASSUME Core, Land("object", "source") PROVE Core'
  <1>0. /\ UNCHANGED <<next, open, seq, working, recovered, retained, manifests, shipped,
                        given, truncated>>
        /\ faults' \in Nat /\ step = "object" /\ (temps' = temps \/ temps' = temps \ {job.window})
        /\ (objects' = objects \/ objects' = objects \cup {job.window})
    BY TopPlace DEF Land, Lands, Compressor, Fault, writerVars, passVars
  <1>1. Types'
    BY ConstTypes DEF Core, Types, Land, Compressor, Lands, Fault, writerVars, passVars
  <1>2. NumberTypes'
    BY <1>0 DEF Core, NumberTypes
  <1>3. JobTypes'
    BY ConstTypes DEF Core, Types, NumberTypes, JobTypes, Land, Compressor, Lands, Fault,
           writerVars, passVars
  <1>4. DiskTypes'
    BY <1>0, JobPlace DEF Core, DiskTypes
  <1>5. IdleInv'
    BY ConstTypes DEF Core, Types, IdleInv, Land, Compressor, Lands, Fault, writerVars,
           passVars
  <1>6. QueueInv'
    BY ConstTypes DEF Core, NumberTypes, JobTypes, QueueInv, Top, Land, Compressor, Lands,
           Fault, writerVars, passVars
  <1>7. CustodyInv'
    BY ConstTypes DEF Core, NumberTypes, JobTypes, QueueInv, CustodyInv, Land, Compressor,
           Lands, Fault, writerVars, passVars
  <1>8. WorkingInv'
    BY ConstTypes DEF Core, NumberTypes, JobTypes, QueueInv, CustodyInv, WorkingInv, Land,
           Compressor, Lands, Fault, writerVars, passVars
  <1>9. ScanInv'
    BY ConstTypes DEF Core, NumberTypes, IdleInv, ScanInv, Land, Compressor, Lands, Fault,
           writerVars, passVars
  <1> QED BY <1>1, <1>2, <1>3, <1>4, <1>5, <1>6, <1>7, <1>8, <1>9 DEF Core

LEMMA RemoveSourceCore ==
    ASSUME Core, RemoveSource PROVE Core'
  <1>0. /\ UNCHANGED <<next, open, seq, recovered, retained, objects, manifests, shipped, temps,
                        given, truncated, jobs, job>>
        /\ faults' \in Nat /\ step = "source" /\ step' = "finish"
        /\ (working' = working \/ working' = [working EXCEPT ![job.number] = 0])
    BY TopPlace, ConstTypes DEF RemoveSource, Compressor, Fault, writerVars, passVars
  <1>01. /\ working' \in [Number -> Number] /\ seq # job.number
         /\ \A n \in Number : working'[n] = working[n] \/ (n = job.number /\ working'[n] = 0)
    BY <1>0, JobPlace, TopPlace DEF Core, NumberTypes
  <1>1. Types'
    BY ConstTypes DEF Core, Types, RemoveSource, Compressor, Fault, writerVars, passVars
  <1>2. NumberTypes'
    <2>1. \A n \in Number : working'[n] < next
      BY <1>01, TopPlace DEF Core, NumberTypes
    <2> QED BY <1>0, <1>01, <2>1 DEF Core, NumberTypes
  <1>3. JobTypes'
    BY ConstTypes DEF Core, Types, NumberTypes, JobTypes, RemoveSource, Compressor, Fault,
           writerVars, passVars
  <1>4. DiskTypes'
    BY <1>0, JobPlace DEF Core, DiskTypes
  <1>5. IdleInv'
    BY ConstTypes DEF Core, Types, IdleInv, RemoveSource, Compressor, Fault, writerVars,
           passVars
  <1>6. QueueInv'
    BY ConstTypes DEF Core, NumberTypes, JobTypes, QueueInv, Top, RemoveSource,
           Compressor, Fault, writerVars, passVars
  <1>7. CustodyInv'
    BY ConstTypes DEF Core, NumberTypes, JobTypes, QueueInv, CustodyInv, RemoveSource,
           Compressor, Fault, writerVars, passVars
  <1>8. WorkingInv'
    <2>1. \A m, n \in Number : working'[m] = working'[n] /\ working'[m] # 0 => m = n
      BY <1>01 DEF Core, WorkingInv
    <2>2. open # 0 => working'[seq] = open
      BY <1>01, TopPlace DEF Core, WorkingInv
    <2>3. \A i \in DOMAIN jobs : working'[jobs[i].number] \in {0, jobs[i].window}
      BY <1>01, JobsPlace DEF Core, WorkingInv
    <2>4. working'[job.number] \in {0, job.window}
      BY <1>0, <1>01, JobPlace DEF Core, WorkingInv
    <2> QED BY <1>0, <2>1, <2>2, <2>3, <2>4 DEF WorkingInv
  <1>9. ScanInv'
    BY ConstTypes DEF Core, NumberTypes, IdleInv, ScanInv, RemoveSource, Compressor,
           Fault, writerVars, passVars
  <1> QED BY <1>1, <1>2, <1>3, <1>4, <1>5, <1>6, <1>7, <1>8, <1>9 DEF Core

LEMMA CleanUpCore ==
    ASSUME Core, CleanUp PROVE Core'
  <1>0. /\ UNCHANGED <<next, open, seq, recovered, objects, shipped, given, truncated, jobs, job>>
        /\ faults' \in Nat /\ step = "cleanup" /\ step' = "finish"
        /\ temps' = temps \ {job.window}
        /\ (manifests' = manifests \/ manifests' = manifests \ {job.window})
        /\ (retained' = retained \/ retained' = retained \cup {job.window})
        /\ (working' = working \/ working' = [working EXCEPT ![job.number] = 0])
    BY TopPlace, ConstTypes DEF CleanUp, Compressor, Fault, writerVars, passVars
  <1>01. /\ working' \in [Number -> Number] /\ seq # job.number
         /\ \A n \in Number : working'[n] = working[n] \/ (n = job.number /\ working'[n] = 0)
    BY <1>0, JobPlace, TopPlace DEF Core, NumberTypes
  <1>1. Types'
    BY ConstTypes DEF Core, Types, CleanUp, Compressor, Fault, writerVars, passVars
  <1>2. NumberTypes'
    <2>1. \A n \in Number : working'[n] < next
      BY <1>01, TopPlace DEF Core, NumberTypes
    <2> QED BY <1>0, <1>01, <2>1 DEF Core, NumberTypes
  <1>3. JobTypes'
    BY ConstTypes DEF Core, Types, NumberTypes, JobTypes, CleanUp, Compressor, Fault,
           writerVars, passVars
  <1>4. DiskTypes'
    BY <1>0, JobPlace DEF Core, DiskTypes
  <1>5. IdleInv'
    BY ConstTypes DEF Core, Types, IdleInv, CleanUp, Compressor, Fault, writerVars, passVars
  <1>6. QueueInv'
    BY ConstTypes DEF Core, NumberTypes, JobTypes, QueueInv, Top, CleanUp, Compressor,
           Fault, writerVars, passVars
  <1>7. CustodyInv'
    BY ConstTypes DEF Core, NumberTypes, JobTypes, QueueInv, CustodyInv, CleanUp,
           Compressor, Fault, writerVars, passVars
  <1>8. WorkingInv'
    <2>1. \A m, n \in Number : working'[m] = working'[n] /\ working'[m] # 0 => m = n
      BY <1>01 DEF Core, WorkingInv
    <2>2. open # 0 => working'[seq] = open
      BY <1>01, TopPlace DEF Core, WorkingInv
    <2>3. \A i \in DOMAIN jobs : working'[jobs[i].number] \in {0, jobs[i].window}
      BY <1>01, JobsPlace DEF Core, WorkingInv
    <2>4. working'[job.number] \in {0, job.window}
      BY <1>0, <1>01, JobPlace DEF Core, WorkingInv
    <2> QED BY <1>0, <2>1, <2>2, <2>3, <2>4 DEF WorkingInv
  <1>9. ScanInv'
    BY ConstTypes DEF Core, NumberTypes, IdleInv, ScanInv, CleanUp, Compressor, Fault,
           writerVars, passVars
  <1> QED BY <1>1, <1>2, <1>3, <1>4, <1>5, <1>6, <1>7, <1>8, <1>9 DEF Core

LEMMA FinishCore ==
    ASSUME Core, Finish PROVE Core'
  <1>1. Types'
    BY ConstTypes DEF Core, Types, Finish, Compressor, Reports, NoJob, writerVars, passVars
  <1>2. NumberTypes'
    BY ConstTypes DEF Core, NumberTypes, Finish, Compressor, Reports, NoJob, writerVars,
           passVars
  <1>3. JobTypes'
    BY ConstTypes DEF Core, Types, NumberTypes, JobTypes, Finish, Compressor, Reports,
           NoJob, writerVars, passVars
  <1>4. DiskTypes'
    BY ConstTypes DEF Core, NumberTypes, JobTypes, DiskTypes, Finish, Compressor, Reports,
           NoJob, writerVars, passVars
  <1>5. IdleInv'
    BY ConstTypes DEF Core, Types, IdleInv, Finish, Compressor, Reports, NoJob,
           writerVars, passVars
  <1>6. QueueInv'
    BY ConstTypes DEF Core, NumberTypes, JobTypes, QueueInv, Top, Finish, Compressor,
           Reports, NoJob, writerVars, passVars
  <1>7. CustodyInv'
    BY ConstTypes DEF Core, NumberTypes, JobTypes, QueueInv, CustodyInv, Finish,
           Compressor, Reports, NoJob, writerVars, passVars
  <1>8. WorkingInv'
    BY ConstTypes DEF Core, NumberTypes, JobTypes, QueueInv, CustodyInv, WorkingInv,
           Finish, Compressor, Reports, NoJob, writerVars, passVars
  <1>9. ScanInv'
    BY ConstTypes DEF Core, NumberTypes, IdleInv, ScanInv, Finish, Compressor, Reports,
           NoJob, writerVars, passVars
  <1> QED BY <1>1, <1>2, <1>3, <1>4, <1>5, <1>6, <1>7, <1>8, <1>9 DEF Core

LEMMA ShipCore ==
    ASSUME Core, NEW w \in Window, Ship(w) PROVE Core'
  <1>1. Types'
    BY ConstTypes DEF Core, Types, Ship, writerVars, publishVars, passVars
  <1>2. NumberTypes'
    BY ConstTypes DEF Core, NumberTypes, Ship, writerVars, publishVars, passVars
  <1>3. JobTypes'
    BY ConstTypes DEF Core, Types, NumberTypes, JobTypes, Ship, writerVars, publishVars,
           passVars
  <1>4. DiskTypes'
    <2>1. /\ UNCHANGED <<next, recovered, retained, temps, given, truncated>>
          /\ w \in objects /\ objects' = objects \ {w} /\ manifests' = manifests \ {w}
          /\ shipped' = shipped \cup {w}
      BY DEF Ship, writerVars, publishVars
    <2> QED BY <2>1 DEF Core, DiskTypes
  <1>5. IdleInv'
    BY ConstTypes DEF Core, Types, IdleInv, Ship, writerVars, publishVars, passVars
  <1>6. QueueInv'
    BY ConstTypes DEF Core, NumberTypes, JobTypes, QueueInv, Top, Ship, writerVars,
           publishVars, passVars
  <1>7. CustodyInv'
    BY ConstTypes DEF Core, NumberTypes, JobTypes, QueueInv, CustodyInv, Ship, writerVars,
           publishVars, passVars
  <1>8. WorkingInv'
    BY ConstTypes DEF Core, NumberTypes, JobTypes, QueueInv, CustodyInv, WorkingInv, Ship,
           writerVars, publishVars, passVars
  <1>9. ScanInv'
    BY ConstTypes DEF Core, NumberTypes, IdleInv, ScanInv, Ship, writerVars, publishVars,
           passVars
  <1> QED BY <1>1, <1>2, <1>3, <1>4, <1>5, <1>6, <1>7, <1>8, <1>9 DEF Core

-----------------------------------------------------------------------------
(* The steps that move a segment along, as the other invariants use them.  *)

LEMMA StartMoves ==
    ASSUME Core, Start
    PROVE  /\ open' = 0 /\ jobs' = <<>> /\ DOMAIN jobs' = {} /\ step' = "idle" /\ seq' = 0
           /\ listed' = {} /\ plan' = <<>> /\ DOMAIN plan' = {} /\ kept' = 0 /\ floor' = 0
           /\ at' = "write" /\ still' = FALSE
           /\ UNCHANGED <<next, retained, objects, manifests, shipped, given, truncated>>
           /\ DOMAIN number' = {} /\ number' = [w \in {} |-> 0]
           /\ \E stuck \in SUBSET Number :
                  /\ recovered' = recovered \cup ({working[n] : n \in Number \ stuck} \ {0})
                  /\ working' = [n \in Number |-> IF n \in stuck THEN working[n] ELSE 0]
  <1>1. PICK stuck \in SUBSET Number :
            /\ recovered' = recovered \cup ({working[n] : n \in Number \ stuck} \ {0})
            /\ working' = [n \in Number |-> IF n \in stuck THEN working[n] ELSE 0]
    BY ConstTypes DEF Start, Adopted
  <1>2. /\ UNCHANGED <<next, open, retained, objects, manifests, shipped, given, truncated, jobs,
                       step, plan, kept>>
        /\ number' = [w \in {} |-> 0] /\ seq' = 0
        /\ listed' = {} /\ floor' = 0 /\ at' = "write" /\ still' = FALSE
        /\ at \in {"down", "exited"}
    BY ConstTypes DEF Start
  <1>3. open = 0 /\ jobs = <<>> /\ step = "idle" /\ plan = <<>> /\ kept = 0
    BY <1>2 DEF Core, IdleInv
  <1>4. DOMAIN jobs' = {} /\ DOMAIN plan' = {} /\ DOMAIN number' = {}
    BY <1>2, <1>3
  <1> QED BY <1>1, <1>2, <1>3, <1>4

LEMMA CrashMoves ==
    ASSUME Core, Crash
    PROVE  /\ open' = 0 /\ jobs' = <<>> /\ DOMAIN jobs' = {} /\ step' = "idle" /\ seq' = 0
           /\ listed' = {} /\ plan' = <<>> /\ DOMAIN plan' = {} /\ kept' = 0 /\ floor' = 0
           /\ at' = "down" /\ still' = FALSE
           /\ DOMAIN number' = {} /\ number' = [w \in {} |-> 0]
           /\ UNCHANGED <<next, working, recovered, retained, objects, manifests, shipped, given,
                          truncated>>
  <1>1. /\ open' = 0 /\ jobs' = <<>> /\ step' = "idle" /\ seq' = 0
        /\ listed' = {} /\ plan' = <<>> /\ kept' = 0 /\ floor' = 0
        /\ at' = "down" /\ still' = FALSE /\ number' = [w \in {} |-> 0]
        /\ UNCHANGED <<next, working, recovered, retained, objects, manifests, shipped, given,
                       truncated>>
    BY ConstTypes DEF Crash, diskVars
  <1>2. DOMAIN jobs' = {} /\ DOMAIN plan' = {} /\ DOMAIN number' = {}
    BY <1>1
  <1> QED BY <1>1, <1>2

LEMMA OpenMoves ==
    ASSUME Core, OpenSegment
    PROVE  /\ at = "write" /\ at' = "write" /\ open = 0 /\ next \in Window /\ still' = FALSE
           /\ open' = next /\ next' = next + 1 /\ seq' = seq
           /\ \/ working[seq] = 0 /\ UNCHANGED <<recovered, truncated, faults>>
              \/ working[seq] # 0 /\ recovered' = recovered \cup {working[seq]}
                 /\ UNCHANGED <<truncated, faults>>
              \/ working[seq] # 0 /\ truncated' = truncated \cup {working[seq]}
                 /\ recovered' = recovered /\ faults' # 0
           /\ working'[seq] = next /\ (\A n \in Number : n # seq => working'[n] = working[n])
           /\ \A n \in Number : working[n] \in Nat /\ working[n] < next
           /\ UNCHANGED <<retained, objects, manifests, shipped, given, jobs, job, step, listed,
                          plan, kept, floor>>
           /\ number' = [w \in DOMAIN number \cup {next} |-> IF w = next THEN seq ELSE number[w]]
  <1>1. /\ at = "write" /\ at' = "write" /\ open = 0 /\ next \in Window /\ still' = FALSE
        /\ open' = next /\ next' = next + 1 /\ seq' = seq
        /\ working' = [working EXCEPT ![seq] = next]
        /\ UNCHANGED <<retained, objects, manifests, shipped, given, jobs, job, step, listed,
                       plan, kept, floor>>
        /\ number' = [w \in DOMAIN number \cup {next} |-> IF w = next THEN seq ELSE number[w]]
    BY ConstTypes DEF OpenSegment, publishVars, passVars
  <1>2. \/ working[seq] = 0 /\ UNCHANGED <<recovered, truncated, faults>>
        \/ working[seq] # 0 /\ recovered' = recovered \cup {working[seq]}
           /\ UNCHANGED <<truncated, faults>>
        \/ working[seq] # 0 /\ truncated' = truncated \cup {working[seq]}
           /\ recovered' = recovered /\ faults' # 0
    BY ConstTypes, TopPlace DEF OpenSegment, NameFreed, Fault
  <1>3. working \in [Number -> Number] /\ \A n \in Number : working[n] < next
    BY DEF Core, NumberTypes
  <1>4. \A n \in Number : working[n] \in Nat
    BY <1>3, ConstTypes
  <1>5. working'[seq] = next /\ (\A n \in Number : n # seq => working'[n] = working[n])
    BY <1>1, <1>3, TopPlace
  <1> QED BY <1>1, <1>2, <1>3, <1>4, <1>5

(* A partial is moved aside, or stays under its working name.              *)
Drops ==
    /\ at = "write" /\ at' = "write" /\ open # 0 /\ open' = 0 /\ seq' = seq + 1 /\ next' = next
    /\ still' = FALSE /\ faults' # 0 /\ working[seq] = open
    /\ \/ UNCHANGED <<recovered, working>>
       \/ /\ recovered' = recovered \cup {open} /\ working'[seq] = 0
          /\ \A n \in Number : n # seq => working'[n] = working[n]
    /\ UNCHANGED <<retained, objects, manifests, shipped, given, truncated, jobs, job, step,
                   listed, plan, kept, floor, number>>

LEMMA DropMoves ==
    ASSUME Core, Abandon \/ CloseFails
    PROVE  Drops
  <1>1. working \in [Number -> Number] /\ open # 0 /\ working[seq] = open
    BY ConstTypes DEF Core, NumberTypes, WorkingInv, Abandon, CloseFails
  <1>2. CASE Abandon
    <2>1. /\ at = "write" /\ at' = "write" /\ open' = 0 /\ seq' = seq + 1 /\ next' = next
          /\ still' = FALSE /\ faults' = faults + 1
          /\ UNCHANGED <<retained, objects, manifests, shipped, given, truncated, jobs, job, step,
                         listed, plan, kept, floor, number>>
      BY <1>2, ConstTypes DEF Abandon, Fault, publishVars, passVars
    <2>2. \/ UNCHANGED <<recovered, working>>
          \/ /\ recovered' = recovered \cup {working[seq]}
             /\ working' = [working EXCEPT ![seq] = 0]
      BY <1>2, ConstTypes DEF Abandon, Preserve
    <2> QED BY <1>1, <2>1, <2>2, TopPlace DEF Drops
  <1>3. CASE CloseFails
    <2>1. /\ at = "write" /\ at' = "write" /\ open' = 0 /\ seq' = seq + 1 /\ next' = next
          /\ still' = FALSE /\ faults' = faults + 1
          /\ UNCHANGED <<retained, objects, manifests, shipped, given, truncated, jobs, job, step,
                         listed, plan, kept, floor, number>>
      BY <1>3, ConstTypes DEF CloseFails, Spent, Fault, publishVars, passVars
    <2>2. \/ UNCHANGED <<recovered, working>>
          \/ /\ recovered' = recovered \cup {working[seq]}
             /\ working' = [working EXCEPT ![seq] = 0]
      BY <1>3, ConstTypes DEF CloseFails, Preserve
    <2> QED BY <1>1, <2>1, <2>2, TopPlace DEF Drops
  <1> QED BY <1>2, <1>3

LEMMA RotateMoves ==
    ASSUME Core, Rotate
    PROVE  /\ open # 0 /\ open' = 0 /\ seq' = seq + 1 /\ at' = "list" /\ working[seq] = open
           /\ UNCHANGED <<next, number, working, recovered, retained, objects, manifests, shipped,
                          given, truncated, job, step, listed, plan, kept, floor, faults>>
           /\ \A i \in DOMAIN jobs : i \in DOMAIN jobs' /\ jobs'[i] = jobs[i]
           /\ \A i \in DOMAIN jobs' :
                  \/ i \in DOMAIN jobs /\ jobs'[i] = jobs[i]
                  \/ jobs'[i].number = seq /\ jobs'[i].window = open
           /\ \E i \in DOMAIN jobs' : jobs'[i].number = seq /\ jobs'[i].window = open
  <1>1. /\ open # 0 /\ open' = 0 /\ seq' = seq + 1 /\ at' = "list" /\ working[seq] = open
        /\ UNCHANGED <<next, number, working, recovered, retained, objects, manifests, shipped,
                       given, truncated, job, step, listed, plan, kept, floor, faults>>
    BY ConstTypes DEF Rotate, Spent, diskVars, passVars, Core, WorkingInv
  <1>2. PICK j : j = [number |-> seq, window |-> open]
    OBVIOUS
  <1>3. j \in Jobs /\ j.number = seq /\ j.window = open /\ jobs' = Append(jobs, j)
    BY <1>1, <1>2, TopPlace, ConstTypes DEF Rotate, Jobs, Core, NumberTypes
  <1>4. PICK s, t : s = jobs /\ t = jobs'
    OBVIOUS
  <1>5. s \in Seq(Jobs) /\ t = Append(s, j)
    BY <1>3, <1>4 DEF Core, JobTypes
  <1>6. /\ Len(s) \in Nat /\ DOMAIN s = 1 .. Len(s) /\ DOMAIN t = 1 .. Len(s) + 1
        /\ t[Len(s) + 1] = j /\ \A i \in 1 .. Len(s) : t[i] = s[i]
    BY <1>3, <1>5
  <1>7. \A i \in DOMAIN t : (i \in DOMAIN s /\ t[i] = s[i]) \/ t[i] = j
    BY <1>6
  <1>8. (\A i \in DOMAIN s : i \in DOMAIN t /\ t[i] = s[i]) /\ \E i \in DOMAIN t : t[i] = j
    BY <1>6
  <1> QED BY <1>1, <1>3, <1>4, <1>7, <1>8

LEMMA TakeMoves ==
    ASSUME Core, StartPublication
    PROVE  /\ step = "idle" /\ step' = "seal" /\ still' = FALSE
           /\ UNCHANGED <<at, next, open, seq, number, working, recovered, retained, objects,
                          manifests, shipped, given, truncated, listed, plan, kept, floor, faults>>
           /\ 1 \in DOMAIN jobs
           /\ job'.number = jobs[1].number /\ job'.window = jobs[1].window
           /\ \A i \in DOMAIN jobs' : i + 1 \in DOMAIN jobs /\ jobs'[i] = jobs[i + 1]
           /\ \A i \in DOMAIN jobs : i = 1 \/ \E k \in DOMAIN jobs' : jobs'[k] = jobs[i]
  <1>1. PICK s, t : s = jobs /\ t = Tail(jobs)
    OBVIOUS
  <1>2. s \in Seq(Jobs) /\ s # <<>>
    BY <1>1 DEF Core, JobTypes, StartPublication
  <1>3. /\ Len(t) \in Nat /\ Head(s) = s[1]
        /\ DOMAIN s = 1 .. Len(t) + 1 /\ DOMAIN t = 1 .. Len(t)
        /\ \A i \in 1 .. Len(t) : t[i] = s[i + 1]
    BY <1>1, <1>2, HeadTailProperties
  <1>4. /\ step = "idle" /\ step' = "seal" /\ jobs' = t /\ still' = FALSE
        /\ job' = [number |-> Head(jobs).number, window |-> Head(jobs).window,
                   whole |-> working[Head(jobs).number] = Head(jobs).window]
        /\ UNCHANGED <<at, next, open, seq, number, working, recovered, retained, objects,
                       manifests, shipped, given, truncated, listed, plan, kept, floor, faults>>
    BY <1>1 DEF StartPublication, Compressor, writerVars, passVars
  <1>5. job'.number = s[1].number /\ job'.window = s[1].window
    BY <1>1, <1>3, <1>4
  <1>6. 1 \in DOMAIN s /\ \A i \in DOMAIN t : i + 1 \in DOMAIN s /\ t[i] = s[i + 1]
    BY <1>3
  <1>7. \A i \in DOMAIN s : i = 1 \/ (i - 1 \in DOMAIN t /\ t[i - 1] = s[i])
    <2> SUFFICES ASSUME NEW i \in DOMAIN s, i # 1 PROVE i - 1 \in DOMAIN t /\ t[i - 1] = s[i]
      OBVIOUS
    <2>1. i - 1 \in DOMAIN t /\ i - 1 + 1 = i
      BY <1>3
    <2> QED BY <1>3, <2>1
  <1> QED BY <1>1, <1>4, <1>5, <1>6, <1>7

(* The publication ends: its source is removed, moved or left.             *)
LEMMA SourceMoves ==
    ASSUME Core, RemoveSource \/ CleanUp
    PROVE  /\ step' = "finish" /\ still' = FALSE
           /\ UNCHANGED <<at, next, open, seq, number, recovered, objects, shipped, given,
                          truncated, jobs, job, listed, plan, kept, floor>>
           /\ job.number \in Number /\ job.number # seq /\ (faults' = 0 => faults = 0)
           /\ \A n \in Number : n # job.number => working'[n] = working[n]
           /\ working'[job.number] \in {working[job.number], 0}
           /\ working[job.number] \in {0, job.window}
           /\ RemoveSource => step = "source" /\ UNCHANGED <<retained, manifests>>
           /\ CleanUp => /\ step = "cleanup"
                         /\ manifests' \in {manifests, manifests \ {job.window}}
                         /\ \/ retained' = retained \/ (retained' = retained \cup {job.window}
                                   /\ working'[job.number] = 0)
                         /\ working'[job.number] # working[job.number] =>
                                job.window \in retained'
  <1>1. step # "idle" /\ working \in [Number -> Number]
    BY DEF RemoveSource, CleanUp, Compressor, Core, NumberTypes
  <1>2. job.number \in Number /\ job.number # seq /\ working[job.number] \in {0, job.window}
        /\ job.window # 0
    BY <1>1, JobPlace, TopPlace DEF Core, WorkingInv
  <1>3. CASE RemoveSource
    <2>1. /\ step = "source" /\ step' = "finish" /\ still' = FALSE
          /\ UNCHANGED <<at, next, open, seq, number, recovered, objects, shipped, given,
                         truncated, jobs, job, listed, plan, kept, floor, retained, manifests>>
          /\ working' \in {working, [working EXCEPT ![job.number] = 0]}
          /\ faults' = 0 => faults = 0
      BY <1>3, ConstTypes, TopPlace DEF RemoveSource, Compressor, Fault, writerVars,
             passVars
    <2>2. ~CleanUp
      BY <2>1 DEF CleanUp, Compressor
    <2> QED BY <1>1, <1>2, <2>1, <2>2
  <1>4. CASE CleanUp
    <2>1. /\ step = "cleanup" /\ step' = "finish" /\ still' = FALSE
          /\ UNCHANGED <<at, next, open, seq, number, recovered, objects, shipped, given,
                         truncated, jobs, job, listed, plan, kept, floor>>
      BY <1>4, ConstTypes DEF CleanUp, Compressor, writerVars, passVars
    <2>2. PICK removed \in BOOLEAN, moved \in BOOLEAN :
             /\ faults' \in {faults, faults + 1}
             /\ manifests' = IF removed THEN manifests \ {job.window} ELSE manifests
             /\ retained' = IF moved /\ working[job.number] = job.window
                            THEN retained \cup {job.window} ELSE retained
             /\ working' = IF moved THEN [working EXCEPT ![job.number] = 0] ELSE working
      BY <1>4, ConstTypes DEF CleanUp, Fault
    <2>3. ~RemoveSource
      BY <2>1 DEF RemoveSource, Compressor
    <2>4. faults' = 0 => faults = 0
      BY <2>2, TopPlace
    <2>5. CASE moved
      BY <1>1, <1>2, <2>1, <2>2, <2>3, <2>4, <2>5
    <2>6. CASE ~moved
      BY <1>1, <1>2, <2>1, <2>2, <2>3, <2>4, <2>6
    <2> QED BY <2>5, <2>6
  <1> QED BY <1>3, <1>4

(* What has not landed is one file fewer, or the same.                     *)
LEMMA FreshKept ==
    ASSUME UNCHANGED <<open, jobs, job>>,
           step' \in {"seal", "manifest", "object", "cleanup"} =>
               step \in {"seal", "manifest", "object", "cleanup"}
    PROVE  Fresh' \subseteq Fresh
  BY DEF Fresh

LEMMA FreshLands ==
    ASSUME Core, UNCHANGED <<open, jobs, job>>,
           step \in {"seal", "manifest", "object", "cleanup"},
           step' \notin {"seal", "manifest", "object", "cleanup"}
    PROVE  Fresh' \subseteq Fresh \ {job.window} /\ job.window \in Fresh
  <1>1. job.window \in Nat /\ job.window < Top
        /\ \A i \in DOMAIN jobs : jobs[i].window \in Nat /\ job.window < jobs[i].window
    BY JobPlace, JobsPlace DEF Core, QueueInv
  <1>2. open # 0 => job.window # open
    BY <1>1, TopPlace DEF Top
  <1>3. \A i \in DOMAIN jobs : job.window # jobs[i].window
    BY <1>1
  <1> QED BY <1>2, <1>3 DEF Fresh

-----------------------------------------------------------------------------
(* What the numbers were spent on.                                         *)

LEMMA NumberSpent ==
    ASSUME Core, NumberInv, open # 0, open' = 0, seq' = seq + 1, UNCHANGED <<number, next>>
    PROVE  NumberInv'
  <1>1. /\ number \in [DOMAIN number -> Nat] /\ DOMAIN number \subseteq 1 .. next - 1
        /\ {number[w] : w \in DOMAIN number \ {open}} = 0 .. seq - 1
        /\ open \in DOMAIN number /\ number[open] = seq
    BY DEF NumberInv
  <1>2. {number[w] : w \in DOMAIN number} = {number[w] : w \in DOMAIN number \ {open}} \cup {seq}
    BY <1>1
  <1>3. 0 .. seq = (0 .. seq - 1) \cup {seq}
    BY TopPlace
  <1>4. {number[w] : w \in DOMAIN number} = 0 .. seq
    BY <1>1, <1>2, <1>3
  <1>5. 0 \notin DOMAIN number
    BY <1>1, TopPlace
  <1>6. DOMAIN number \ {open'} = DOMAIN number
    BY <1>5
  <1>8. seq' - 1 = seq
    BY TopPlace
  <1>9. {number[w] : w \in DOMAIN number \ {open'}} = 0 .. seq' - 1
    BY <1>4, <1>6, <1>8
  <1>7. \A v, w \in DOMAIN number : number[v] = number[w] => v = w
    BY DEF NumberInv
  <1> QED BY <1>1, <1>7, <1>9 DEF NumberInv

LEMMA NumberNext ==
    ASSUME Core, NumberInv, [Next]_vars PROVE NumberInv'
  <1>1. CASE Start
    <2>1. open' = 0 /\ seq' = 0 /\ DOMAIN number' = {} /\ number' = [w \in {} |-> 0]
      BY <1>1, StartMoves
    <2>2. 0 .. 0 - 1 = {}
      OBVIOUS
    <2>3. number' \in [DOMAIN number' -> Nat]
      BY <2>1
    <2>4. {number'[w] : w \in DOMAIN number' \ {open'}} = 0 .. seq' - 1
      BY <2>1, <2>2
    <2> QED BY <2>1, <2>3, <2>4 DEF NumberInv
  <1>2. CASE Crash
    <2>1. open' = 0 /\ seq' = 0 /\ DOMAIN number' = {} /\ number' = [w \in {} |-> 0]
      BY <1>2, CrashMoves
    <2>2. 0 .. 0 - 1 = {}
      OBVIOUS
    <2>3. number' \in [DOMAIN number' -> Nat]
      BY <2>1
    <2>4. {number'[w] : w \in DOMAIN number' \ {open'}} = 0 .. seq' - 1
      BY <2>1, <2>2
    <2> QED BY <2>1, <2>3, <2>4 DEF NumberInv
  <1>3. CASE OpenSegment
    <2>1. /\ open = 0 /\ open' = next /\ next' = next + 1 /\ seq' = seq
          /\ number' = [w \in DOMAIN number \cup {next} |-> IF w = next THEN seq ELSE number[w]]
      BY <1>3, OpenMoves
    <2>2. PICK d, m, f, g : d = DOMAIN number /\ m = next /\ f = number /\ g = number'
      OBVIOUS
    <2>3. /\ f \in [d -> Nat] /\ d \subseteq 1 .. m - 1 /\ m \in Nat /\ m # 0 /\ seq \in Nat
          /\ \A v, w \in d : f[v] = f[w] => v = w
          /\ {f[w] : w \in d \ {open}} = 0 .. seq - 1
      BY <2>2, TopPlace DEF NumberInv
    <2>4. m \notin d /\ 0 \notin d
      BY <2>3
    <2>5. g \in [d \cup {m} -> Nat] /\ g[m] = seq /\ \A w \in d : g[w] = f[w]
      BY <2>1, <2>2, <2>3, <2>4
    <2>6. \A w \in d : f[w] \in 0 .. seq - 1
      BY <2>1, <2>3, <2>4
    <2>7. \A w \in d : g[w] # seq
      BY <2>3, <2>5, <2>6
    <2>8. \A v, w \in d \cup {m} : g[v] = g[w] => v = w
      BY <2>3, <2>4, <2>5, <2>7
    <2>9. {g[w] : w \in (d \cup {m}) \ {m}} = 0 .. seq - 1
      <3>1. (d \cup {m}) \ {m} = d /\ d \ {open} = d
        BY <2>1, <2>4
      <3>2. {g[w] : w \in d} = {f[w] : w \in d}
        BY <2>5
      <3> QED BY <2>3, <3>1, <3>2
    <2>10. DOMAIN g = d \cup {m} /\ d \cup {m} \subseteq 1 .. m
      BY <2>3, <2>5
    <2>11. next' - 1 = m
      BY <2>1, <2>2, <2>3
    <2>12. number' = g /\ open' = m /\ seq' = seq /\ m \in DOMAIN g /\ g[m] = seq
      BY <2>1, <2>2, <2>5, <2>10
    <2>13. /\ g \in [DOMAIN g -> Nat] /\ DOMAIN g \subseteq 1 .. m
           /\ \A v, w \in DOMAIN g : g[v] = g[w] => v = w
      BY <2>5, <2>8, <2>10
    <2>14. {g[w] : w \in DOMAIN g \ {m}} = 0 .. seq - 1
      BY <2>9, <2>10
    <2> QED BY <2>11, <2>12, <2>13, <2>14 DEF NumberInv
  <1>4. CASE Abandon
    BY <1>4, DropMoves, NumberSpent DEF Drops
  <1>5. CASE Rotate
    BY <1>5, RotateMoves, NumberSpent
  <1>6. CASE CloseFails
    BY <1>6, DropMoves, NumberSpent DEF Drops
  <1>7. CASE Sweep
    BY <1>7 DEF NumberInv, Sweep, Recording, diskVars, passVars
  <1>8. CASE Collect
    BY <1>8 DEF NumberInv, Collect, Recording, diskVars, passVars
  <1>9. CASE Stop
    BY <1>9 DEF NumberInv, Stop, Recording, diskVars, passVars
  <1>10. CASE FinalPass
    BY <1>10 DEF NumberInv, FinalPass, Recording, Settled, diskVars, passVars
  <1>11. CASE ListCompleted
    BY <1>11 DEF NumberInv, ListCompleted, Pass, writerVars, diskVars, publishVars
  <1>12. CASE ListStaging
    BY <1>12 DEF NumberInv, ListStaging, Pass, writerVars, diskVars, publishVars
  <1>13. ASSUME NEW n \in Number, Classify(n) PROVE NumberInv'
    BY <1>13 DEF NumberInv, Classify, Pass, writerVars, diskVars, publishVars
  <1>14. CASE PlanEviction
    BY <1>14 DEF NumberInv, PlanEviction, Pass, writerVars, diskVars, publishVars
  <1>15. CASE Evict
    BY <1>15 DEF NumberInv, Evict, Pass, Unlinked, Fault, Spared, writerVars, diskVars,
           publishVars
  <1>16. CASE EndPass
    BY <1>16 DEF NumberInv, EndPass, Pass, writerVars, diskVars, publishVars
  <1>17. CASE StartPublication
    BY <1>17 DEF NumberInv, StartPublication, Compressor, writerVars, passVars
  <1>18. CASE Seal
    BY <1>18 DEF NumberInv, Seal, Compressor, Fault, writerVars, passVars
  <1>19. CASE Land("manifest", "object")
    BY <1>19 DEF NumberInv, Land, Compressor, Lands, Fault, writerVars, passVars
  <1>20. CASE Land("object", "source")
    BY <1>20 DEF NumberInv, Land, Compressor, Lands, Fault, writerVars, passVars
  <1>21. CASE RemoveSource
    BY <1>21 DEF NumberInv, RemoveSource, Compressor, Fault, writerVars, passVars
  <1>22. CASE CleanUp
    BY <1>22 DEF NumberInv, CleanUp, Compressor, Fault, writerVars, passVars
  <1>23. CASE Finish
    BY <1>23 DEF NumberInv, Finish, Compressor, Reports, NoJob, writerVars, passVars
  <1>24. ASSUME NEW w \in Window, Ship(w) PROVE NumberInv'
    BY <1>24 DEF NumberInv, Ship, writerVars, publishVars, passVars
  <1>25. CASE UNCHANGED vars
    BY <1>25 DEF NumberInv, vars, writerVars, diskVars, publishVars, passVars
  <1> QED BY <1>1, <1>2, <1>3, <1>4, <1>5, <1>6, <1>7, <1>8, <1>9, <1>10, <1>11, <1>12,
         <1>13, <1>14, <1>15, <1>16, <1>17, <1>18, <1>19, <1>20, <1>21, <1>22, <1>23,
         <1>24, <1>25
         DEF Next, Write, RotateAt, RetentionPass, Publish

-----------------------------------------------------------------------------
(* Where a window is, before it lands and after.                           *)

(* With nothing on its way there is nothing left to land.                  *)
LEMMA FreshNone ==
    ASSUME open' = 0, DOMAIN jobs' = {}, step' = "idle"
    PROVE  Fresh' = {}
  BY DEF Fresh

LEMMA PlaceNext ==
    ASSUME Core, Core', PlaceInv, [Next]_vars PROVE PlaceInv'
  <1>1. CASE Start
    <2>1. PICK stuck \in SUBSET Number :
             /\ recovered' = recovered \cup ({working[n] : n \in Number \ stuck} \ {0})
             /\ working' = [n \in Number |-> IF n \in stuck THEN working[n] ELSE 0]
      BY <1>1, StartMoves
    <2>2. /\ listed' = {} /\ step' = "idle" /\ Fresh' = {}
          /\ UNCHANGED <<retained, objects, manifests, shipped>>
      BY <1>1, StartMoves, FreshNone
    <2>3. /\ recovered \cap retained = {} /\ 0 \notin recovered' /\ 0 \notin retained
          /\ \A n \in Number : working[n] \notin recovered \cup retained
      BY TopPlace DEF PlaceInv, Core, DiskTypes
    <2>4. recovered' \cap retained = {}
      BY <2>1, <2>3
    <2>5. \A n \in Number : working'[n] \notin recovered' \cup retained
      <3> SUFFICES ASSUME NEW n \in Number PROVE working'[n] \notin recovered' \cup retained
        OBVIOUS
      <3>1. CASE n \in stuck
        <4>1. working'[n] = working[n]
          BY <2>1, <3>1
        <4>2. \A m \in Number \ stuck : working[m] # 0 => working[m] # working[n]
          BY <3>1 DEF Core, WorkingInv
        <4> QED BY <2>1, <2>3, <4>1, <4>2
      <3>2. CASE n \notin stuck
        BY <2>1, <2>3, <3>2
      <3> QED BY <3>1, <3>2
    <2> QED BY <2>2, <2>4, <2>5 DEF PlaceInv
  <1>2. CASE Crash
    <2>1. /\ listed' = {} /\ step' = "idle" /\ Fresh' = {}
          /\ UNCHANGED <<retained, objects, manifests, shipped, working, recovered>>
      BY <1>2, CrashMoves, FreshNone
    <2> QED BY <2>1 DEF PlaceInv
  <1>3. CASE OpenSegment
    <2>1. /\ open' = next /\ working'[seq] = next /\ next \in Nat /\ seq \in Number
          /\ recovered' \in {recovered, recovered \cup {working[seq]}}
          /\ (\A n \in Number : n # seq => working'[n] = working[n])
          /\ (recovered' = recovered \/ working[seq] # 0) /\ (\A n \in Number : working[n] # next)
          /\ UNCHANGED <<retained, objects, manifests, shipped, jobs, job, step, listed>>
      BY <1>3, OpenMoves, TopPlace
    <2>2. Fresh' \subseteq Fresh \cup {next}
      BY <2>1 DEF Fresh
    <2>3. next \notin recovered \cup retained \cup objects \cup shipped
          /\ \A e \in listed : e.id # next
      <3>1. next \in Nat /\ next \notin 1 .. next - 1
        BY TopPlace
      <3>2. \A e \in listed : e.id \in 1 .. next - 1
        BY DEF Core, ScanInv
      <3> QED BY <3>1, <3>2 DEF Core, DiskTypes
    <2>4. /\ recovered \cap retained = {}
          /\ \A n \in Number : working[n] \notin recovered \cup retained
          /\ \A m, n \in Number : working[m] = working[n] /\ working[m] # 0 => m = n
      BY DEF PlaceInv, Core, WorkingInv
    <2>5. recovered' \cap retained = {}
      BY <2>1, <2>4
    <2>6. \A n \in Number : working'[n] \notin recovered' \cup retained
      <3> SUFFICES ASSUME NEW n \in Number PROVE working'[n] \notin recovered' \cup retained
        OBVIOUS
      <3>1. CASE n = seq
        BY <2>1, <2>3, <3>1
      <3>2. CASE n # seq
        BY <2>1, <2>4, <3>2
      <3> QED BY <3>1, <3>2
    <2>7. Fresh' \cap (objects \cup shipped \cup retained) = {} /\ \A e \in listed : e.id \notin Fresh'
      BY <2>2, <2>3 DEF PlaceInv
    <2>8. /\ retained \cap (objects \cup shipped) = {} /\ objects \subseteq manifests
          /\ step = "object" => job.window \in manifests
          /\ step = "source" => job.window \in objects \cup shipped \cup given
      BY DEF PlaceInv
    <2>9. UNCHANGED <<retained, objects, manifests, shipped, given, job, step, listed>>
      BY <2>1, OpenMoves, <1>3
    <2> QED BY <2>5, <2>6, <2>7, <2>8, <2>9 DEF PlaceInv
  <1>4. CASE Abandon
    <2>1. Drops
      BY <1>4, DropMoves
    <2>2. /\ open # 0 /\ open \in Fresh /\ open \notin retained /\ open \in Nat
          /\ \A n \in Number : n # seq => working[n] # open
      BY <2>1, TopPlace DEF Drops, Fresh, PlaceInv, Core, WorkingInv
    <2>3. Fresh' \subseteq Fresh
      BY <2>1 DEF Drops, Fresh
    <2>4. /\ recovered \cap retained = {} /\ 0 \notin recovered \cup retained
          /\ \A n \in Number : working[n] \notin recovered \cup retained
      BY TopPlace DEF PlaceInv, Core, DiskTypes
    <2>5. recovered' \cap retained = {}
      BY <2>1, <2>2, <2>4 DEF Drops
    <2>6. \A n \in Number : working'[n] \notin recovered' \cup retained
      BY <2>1, <2>2, <2>4 DEF Drops
    <2> QED BY <2>1, <2>3, <2>5, <2>6 DEF PlaceInv, Drops
  <1>5. CASE Rotate
    <2>1. /\ open # 0 /\ open' = 0
          /\ UNCHANGED <<working, recovered, retained, objects, manifests, shipped, given, job,
                         step, listed>>
          /\ \A i \in DOMAIN jobs' :
                 \/ i \in DOMAIN jobs /\ jobs'[i] = jobs[i]
                 \/ jobs'[i].number = seq /\ jobs'[i].window = open
      BY <1>5, RotateMoves
    <2>2. Fresh' \subseteq Fresh
      BY <2>1 DEF Fresh
    <2> QED BY <2>1, <2>2 DEF PlaceInv
  <1>6. CASE CloseFails
    <2>1. Drops
      BY <1>6, DropMoves
    <2>2. /\ open # 0 /\ open \in Fresh /\ open \notin retained /\ open \in Nat
          /\ \A n \in Number : n # seq => working[n] # open
      BY <2>1, TopPlace DEF Drops, Fresh, PlaceInv, Core, WorkingInv
    <2>3. Fresh' \subseteq Fresh
      BY <2>1 DEF Drops, Fresh
    <2>4. /\ recovered \cap retained = {} /\ 0 \notin recovered \cup retained
          /\ \A n \in Number : working[n] \notin recovered \cup retained
      BY TopPlace DEF PlaceInv, Core, DiskTypes
    <2>5. recovered' \cap retained = {}
      BY <2>1, <2>2, <2>4 DEF Drops
    <2>6. \A n \in Number : working'[n] \notin recovered' \cup retained
      BY <2>1, <2>2, <2>4 DEF Drops
    <2> QED BY <2>1, <2>3, <2>5, <2>6 DEF PlaceInv, Drops
  <1>7. CASE Sweep
    BY <1>7 DEF PlaceInv, Fresh, Sweep, Recording, diskVars, passVars
  <1>8. CASE Collect
    BY <1>8 DEF PlaceInv, Fresh, Collect, Recording, diskVars, passVars
  <1>9. CASE Stop
    BY <1>9 DEF PlaceInv, Fresh, Stop, Recording, diskVars, passVars
  <1>10. CASE FinalPass
    BY <1>10 DEF PlaceInv, Fresh, FinalPass, Recording, Settled, diskVars, passVars
  <1>11. CASE ListCompleted
    BY <1>11 DEF PlaceInv, Fresh, ListCompleted, Pass, writerVars, diskVars, publishVars
  <1>12. CASE ListStaging
    BY <1>12 DEF PlaceInv, Fresh, ListStaging, Pass, writerVars, diskVars, publishVars
  <1>13. ASSUME NEW n \in Number, Classify(n) PROVE PlaceInv'
    BY <1>13 DEF PlaceInv, Fresh, Classify, Pass, writerVars, diskVars, publishVars
  <1>14. CASE PlanEviction
    BY <1>14 DEF PlaceInv, Fresh, PlanEviction, Pass, writerVars, diskVars, publishVars
  <1>15. CASE Evict
    <2>1. PICK e : Takes(e)
      BY <1>15, EvictTakes
    <2>2. /\ UNCHANGED <<open, jobs, job, step, listed, shipped>>
          /\ recovered' \subseteq recovered /\ retained' \subseteq retained
          /\ objects' \subseteq objects
          /\ \A n \in Number : working'[n] \in {working[n], 0}
      BY <2>1 DEF Takes
    <2>3. Fresh' = Fresh
      BY <2>2 DEF Fresh
    <2>4. 0 \notin recovered \cup retained
      BY TopPlace DEF Core, DiskTypes
    <2>5. \/ UNCHANGED <<objects, manifests>> /\ given \subseteq given'
          \/ /\ e.id \in objects /\ objects' = objects \ {e.id} /\ manifests' = manifests \ {e.id}
             /\ given' = given \cup {e.id}
      BY <2>1 DEF Takes, Unlinked, OnDisk, WindowOf
    <2>6. objects' \subseteq manifests'
      BY <2>5 DEF PlaceInv
    <2>7. step = "object" => job.window \in manifests'
      <3>1. step = "object" => job.window \in Fresh
        BY DEF Fresh
      <3> QED BY <2>5, <3>1 DEF PlaceInv
    <2>8. step = "source" => job.window \in objects' \cup shipped \cup given'
      BY <2>5 DEF PlaceInv
    <2>9. recovered' \cap retained' = {} /\ \A n \in Number : working'[n] \notin recovered' \cup retained'
      BY <2>2, <2>4 DEF PlaceInv
    <2> QED BY <2>2, <2>3, <2>6, <2>7, <2>8, <2>9 DEF PlaceInv
  <1>16. CASE EndPass
    BY <1>16 DEF PlaceInv, Fresh, EndPass, Pass, writerVars, diskVars, publishVars
  <1>17. CASE StartPublication
    <2>1. /\ step = "idle" /\ step' = "seal" /\ 1 \in DOMAIN jobs
          /\ UNCHANGED <<open, working, recovered, retained, objects, manifests, shipped, given,
                         listed>>
          /\ job'.window = jobs[1].window
          /\ \A i \in DOMAIN jobs' : i + 1 \in DOMAIN jobs /\ jobs'[i] = jobs[i + 1]
      BY <1>17, TakeMoves
    <2>2. Fresh' \subseteq Fresh
      BY <2>1 DEF Fresh
    <2> QED BY <2>1, <2>2 DEF PlaceInv
  <1>18. CASE Seal
    BY <1>18 DEF PlaceInv, Fresh, Seal, Compressor, Fault, writerVars, passVars
  <1>19. CASE Land("manifest", "object")
    BY <1>19 DEF PlaceInv, Fresh, Land, Compressor, Lands, Fault, writerVars, passVars
  <1>20. CASE Land("object", "source")
    <2>1. /\ step = "object"
          /\ UNCHANGED <<open, jobs, job, working, recovered, retained, manifests, shipped, given,
                         listed>>
          /\ \/ step' = "source" /\ objects' = objects \cup {job.window}
             \/ step' = "cleanup" /\ objects' = objects
      BY <1>20 DEF Land, Lands, Compressor, writerVars, passVars
    <2>2. CASE step' = "source" /\ objects' = objects \cup {job.window}
      <3>1. Fresh' \subseteq Fresh \ {job.window} /\ job.window \in Fresh
        BY <2>1, <2>2, FreshLands
      <3> QED BY <2>1, <2>2, <3>1 DEF PlaceInv
    <2>3. CASE step' = "cleanup" /\ objects' = objects
      <3>1. Fresh' \subseteq Fresh
        BY <2>1, <2>3, FreshKept
      <3> QED BY <2>1, <2>3, <3>1 DEF PlaceInv
    <2> QED BY <2>1, <2>2, <2>3
  <1>21. CASE RemoveSource
    <2>1. /\ step = "source" /\ step' = "finish"
          /\ UNCHANGED <<open, jobs, job, recovered, retained, objects, manifests, shipped, given,
                         listed>>
          /\ \A n \in Number : working'[n] \in {working[n], 0}
      BY <1>21, SourceMoves
    <2>2. Fresh' \subseteq Fresh
      BY <2>1, FreshKept
    <2>3. 0 \notin recovered \cup retained
      BY TopPlace DEF Core, DiskTypes
    <2> QED BY <2>1, <2>2, <2>3 DEF PlaceInv
  <1>22. CASE CleanUp
    <2>1. /\ step = "cleanup" /\ step' = "finish"
          /\ UNCHANGED <<open, jobs, job, recovered, objects, shipped, given, listed>>
          /\ \A n \in Number : n # job.number => working'[n] = working[n]
          /\ working'[job.number] \in {working[job.number], 0} /\ job.number \in Number
          /\ working[job.number] \in {0, job.window}
          /\ manifests' \in {manifests, manifests \ {job.window}}
          /\ \/ retained' = retained
             \/ retained' = retained \cup {job.window} /\ working'[job.number] = 0
      BY <1>22, SourceMoves
    <2>2. Fresh' \subseteq Fresh \ {job.window} /\ job.window \in Fresh
      BY <2>1, FreshLands
    <2>3. /\ 0 \notin recovered \cup retained /\ job.window # 0
      BY <2>1, JobPlace, TopPlace DEF Core, DiskTypes
    <2>4. job.window \notin objects \cup shipped /\ objects' \subseteq manifests'
      BY <2>1, <2>2 DEF PlaceInv
    <2>5. CASE retained' = retained
      BY <2>1, <2>2, <2>3, <2>4, <2>5 DEF PlaceInv
    <2>6. CASE retained' = retained \cup {job.window} /\ working'[job.number] = 0
      <3>1. CASE working[job.number] = job.window
        <4>1. \A n \in Number : n # job.number => working'[n] # job.window
          BY <2>1, <2>3, <3>1 DEF Core, WorkingInv
        <4>2. job.window \notin recovered
          BY <2>1, <3>1 DEF PlaceInv
        <4>3. \A n \in Number : working'[n] \notin recovered \cup retained'
          BY <2>1, <2>3, <2>6, <4>1 DEF PlaceInv
        <4> QED BY <2>1, <2>2, <2>4, <2>6, <4>2, <4>3 DEF PlaceInv
      <3>2. CASE working[job.number] # job.window
        <4>1. retained' = retained
          BY <1>22, <3>2, <2>1 DEF CleanUp
        <4> QED BY <2>5, <4>1
      <3> QED BY <3>1, <3>2
    <2> QED BY <2>1, <2>5, <2>6
  <1>23. CASE Finish
    BY <1>23 DEF PlaceInv, Fresh, Finish, Compressor, Reports, NoJob, writerVars, passVars
  <1>24. ASSUME NEW w \in Window, Ship(w) PROVE PlaceInv'
    BY <1>24 DEF PlaceInv, Fresh, Ship, writerVars, publishVars, passVars
  <1>25. CASE UNCHANGED vars
    BY <1>25 DEF PlaceInv, Fresh, vars, writerVars, diskVars, publishVars, passVars
  <1> QED BY <1>1, <1>2, <1>3, <1>4, <1>5, <1>6, <1>7, <1>8, <1>9, <1>10, <1>11, <1>12,
         <1>13, <1>14, <1>15, <1>16, <1>17, <1>18, <1>19, <1>20, <1>21, <1>22, <1>23,
         <1>24, <1>25
         DEF Next, Write, RotateAt, RetentionPass, Publish

-----------------------------------------------------------------------------
(* No window is lost track of.                                             *)

LEMMA GoneNext ==
    ASSUME Core, Core', PlaceInv, NothingVanishes, [Next]_vars PROVE NothingVanishes'
  <1>0. \A w \in 1 .. next - 1 : w \in InStaging \cup objects \cup shipped \cup given \cup truncated
    BY TopPlace DEF NothingVanishes
  <1>1. CASE Start
    <2>1. PICK stuck \in SUBSET Number :
             /\ recovered' = recovered \cup ({working[n] : n \in Number \ stuck} \ {0})
             /\ working' = [n \in Number |-> IF n \in stuck THEN working[n] ELSE 0]
      BY <1>1, StartMoves
    <2>2. UNCHANGED <<next, retained, objects, shipped, given, truncated>>
      BY <1>1, StartMoves
    <2>3. \A w \in InStaging : w \in InStaging'
      BY <2>1, <2>2, ConstTypes DEF InStaging
    <2> QED BY <1>0, <2>2, <2>3 DEF NothingVanishes
  <1>2. CASE Crash
    BY <1>2 DEF NothingVanishes, InStaging, Crash, NoJob, diskVars
  <1>3. CASE OpenSegment
    <2>1. /\ next' = next + 1 /\ working'[seq] = next /\ seq \in Number
          /\ \A n \in Number : n # seq => working'[n] = working[n]
          /\ recovered \subseteq recovered' /\ truncated \subseteq truncated'
          /\ working[seq] = 0 \/ working[seq] \in recovered' \cup truncated'
          /\ UNCHANGED <<retained, objects, shipped, given>>
      BY <1>3, OpenMoves, TopPlace
    <2>2. \A w \in InStaging : w \in InStaging' \cup truncated'
      BY <2>1, ConstTypes DEF InStaging
    <2>3. next \in InStaging'
      BY <2>1, ConstTypes, TopPlace DEF InStaging
    <2>4. \A w \in 1 .. next' - 1 : w \in 1 .. next - 1 \/ w = next
      BY <2>1, TopPlace
    <2> QED BY <1>0, <2>1, <2>2, <2>3, <2>4 DEF NothingVanishes
  <1>4. CASE Abandon
    <2>1. Drops
      BY <1>4, DropMoves
    <2>2. \A w \in InStaging : w \in InStaging'
      BY <2>1, ConstTypes DEF InStaging, Drops
    <2> QED BY <1>0, <2>1, <2>2 DEF NothingVanishes, Drops
  <1>5. CASE Rotate
    BY <1>5 DEF NothingVanishes, InStaging, Rotate, Spent, diskVars, passVars
  <1>6. CASE CloseFails
    <2>1. Drops
      BY <1>6, DropMoves
    <2>2. \A w \in InStaging : w \in InStaging'
      BY <2>1, ConstTypes DEF InStaging, Drops
    <2> QED BY <1>0, <2>1, <2>2 DEF NothingVanishes, Drops
  <1>7. CASE Sweep
    BY <1>7 DEF NothingVanishes, InStaging, Sweep, Recording, diskVars, passVars
  <1>8. CASE Collect
    BY <1>8 DEF NothingVanishes, InStaging, Collect, Recording, diskVars, passVars
  <1>9. CASE Stop
    BY <1>9 DEF NothingVanishes, InStaging, Stop, Recording, diskVars, passVars
  <1>10. CASE FinalPass
    BY <1>10 DEF NothingVanishes, InStaging, FinalPass, Recording, Settled, diskVars,
           passVars
  <1>11. CASE ListCompleted
    BY <1>11 DEF NothingVanishes, InStaging, ListCompleted, Pass, writerVars, diskVars,
           publishVars
  <1>12. CASE ListStaging
    BY <1>12 DEF NothingVanishes, InStaging, ListStaging, Pass, writerVars, diskVars,
           publishVars
  <1>13. ASSUME NEW n \in Number, Classify(n) PROVE NothingVanishes'
    BY <1>13 DEF NothingVanishes, InStaging, Classify, Pass, writerVars, diskVars,
           publishVars
  <1>14. CASE PlanEviction
    BY <1>14 DEF NothingVanishes, InStaging, PlanEviction, Pass, writerVars, diskVars,
           publishVars
  <1>15. CASE Evict
    <2>1. PICK e : Takes(e)
      BY <1>15, EvictTakes
    <2>2. UNCHANGED <<next, shipped, truncated>> /\ e \in Entries
      BY <2>1 DEF Takes
    <2>3. CASE UNCHANGED <<recovered, retained, objects, working, given>>
      BY <1>0, <2>2, <2>3 DEF NothingVanishes, InStaging
    <2>4. CASE OnDisk(e) /\ Unlinked(e) /\ given' = given \cup {WindowOf(e)}
      <3>1. \A w \in InStaging \cup objects : w \in InStaging' \cup objects' \cup given'
        <4>1. CASE ByName(e)
          <5>1. /\ UNCHANGED <<recovered, retained, objects>> /\ WindowOf(e) = working[e.id]
                /\ working' = [working EXCEPT ![e.id] = NoWindow]
            BY <2>4, <4>1 DEF Unlinked, ByName, WindowOf
          <5>2. \A n \in Number : working'[n] = working[n] \/ n = e.id
            BY <5>1 DEF Core, NumberTypes
          <5> QED BY <2>4, <5>1, <5>2 DEF InStaging
        <4>2. CASE ~ByName(e)
          <5>1. /\ working' = working /\ WindowOf(e) = e.id
                /\ retained \ {e.id} \subseteq retained' /\ recovered \ {e.id} \subseteq recovered'
                /\ objects \ {e.id} \subseteq objects'
            BY <2>4, <4>2 DEF Unlinked, ByName, WindowOf
          <5> QED BY <2>4, <5>1 DEF InStaging
        <4> QED BY <4>1, <4>2
      <3>2. \A w \in 1 .. next - 1 : w \in InStaging' \cup objects' \cup shipped' \cup given' \cup truncated'
        BY <1>0, <2>2, <2>4, <3>1
      <3> QED BY <2>2, <3>2 DEF NothingVanishes
    <2> QED BY <2>1, <2>3, <2>4 DEF Takes
  <1>16. CASE EndPass
    BY <1>16 DEF NothingVanishes, InStaging, EndPass, Pass, writerVars, diskVars,
           publishVars
  <1>17. CASE StartPublication
    BY <1>17 DEF NothingVanishes, InStaging, StartPublication, Compressor, writerVars,
           passVars
  <1>18. CASE Seal
    BY <1>18 DEF NothingVanishes, InStaging, Seal, Compressor, Fault, writerVars, passVars
  <1>19. CASE Land("manifest", "object")
    BY <1>19 DEF NothingVanishes, InStaging, Land, Compressor, Lands, Fault, writerVars,
           passVars
  <1>20. CASE Land("object", "source")
    BY <1>20 DEF NothingVanishes, InStaging, Land, Compressor, Lands, Fault, writerVars,
           passVars
  <1>21. CASE RemoveSource
    <2>1. /\ step = "source" /\ UNCHANGED <<next, recovered, retained, objects, shipped, given, truncated>>
          /\ \A n \in Number : n # job.number => working'[n] = working[n]
          /\ working[job.number] \in {0, job.window}
      BY <1>21, SourceMoves
    <2>2. job.window \in objects \cup shipped \cup given
      BY <2>1 DEF PlaceInv
    <2>3. \A w \in InStaging : w \in InStaging' \/ w = job.window
      BY <2>1, ConstTypes DEF InStaging
    <2>4. \A w \in 1 .. next - 1 :
              w \in InStaging' \cup objects' \cup shipped' \cup given' \cup truncated'
      BY <1>0, <2>1, <2>2, <2>3
    <2> QED BY <2>1, <2>4 DEF NothingVanishes
  <1>22. CASE CleanUp
    <2>1. /\ UNCHANGED <<next, recovered, objects, shipped, given, truncated>>
          /\ \A n \in Number : n # job.number => working'[n] = working[n]
          /\ working[job.number] \in {0, job.window} /\ retained \subseteq retained'
          /\ working'[job.number] # working[job.number] => job.window \in retained'
      BY <1>22, SourceMoves
    <2>2. \A w \in InStaging : w \in InStaging'
      BY <2>1, ConstTypes DEF InStaging
    <2>3. \A w \in 1 .. next - 1 :
              w \in InStaging' \cup objects' \cup shipped' \cup given' \cup truncated'
      BY <1>0, <2>1, <2>2
    <2> QED BY <2>1, <2>3 DEF NothingVanishes
  <1>23. CASE Finish
    BY <1>23 DEF NothingVanishes, InStaging, Finish, Compressor, Reports, NoJob,
           writerVars, passVars
  <1>24. ASSUME NEW w \in Window, Ship(w) PROVE NothingVanishes'
    BY <1>24 DEF NothingVanishes, InStaging, Ship, writerVars, publishVars, passVars
  <1>25. CASE UNCHANGED vars
    BY <1>25 DEF NothingVanishes, InStaging, vars, writerVars, diskVars, publishVars,
           passVars
  <1> QED BY <1>1, <1>2, <1>3, <1>4, <1>5, <1>6, <1>7, <1>8, <1>9, <1>10, <1>11, <1>12,
         <1>13, <1>14, <1>15, <1>16, <1>17, <1>18, <1>19, <1>20, <1>21, <1>22, <1>23,
         <1>24, <1>25
         DEF Next, Write, RotateAt, RetentionPass, Publish

-----------------------------------------------------------------------------
(* Without a fault a window is on its way until it has landed.             *)

LEMMA ReportNext ==
    ASSUME Core, Core', PlaceInv, NumberInv, ReportInv, [Next]_vars PROVE ReportInv'
  <1>0. \A w \in DOMAIN number : w # 0
    BY TopPlace DEF NumberInv
  <1>1. CASE Start
    <2>1. DOMAIN number' = {} /\ DOMAIN jobs' = {} /\ step' = "idle"
      BY <1>1, StartMoves
    <2> QED BY <2>1 DEF ReportInv
  <1>2. CASE Crash
    <2>1. DOMAIN number' = {} /\ DOMAIN jobs' = {} /\ step' = "idle"
      BY <1>2, CrashMoves
    <2> QED BY <2>1 DEF ReportInv
  <1>3. CASE OpenSegment
    <2> SUFFICES ASSUME faults' = 0 PROVE ReportInv'
      BY DEF ReportInv
    <2>1. /\ open = 0 /\ open' = next /\ faults = 0
          /\ \A n \in Number : n # seq => working'[n] = working[n]
          /\ UNCHANGED <<objects, shipped, given, jobs, job, step>>
          /\ DOMAIN number' = DOMAIN number \cup {next}
      BY <1>3, OpenMoves, TopPlace DEF Core, NumberTypes
    <2>2. \A w \in DOMAIN number' :
               \/ w = open' \/ (\E i \in DOMAIN jobs' : jobs'[i].window = w)
               \/ (step' # "idle" /\ job'.window = w) \/ w \in Gone'
      BY <1>0, <2>1 DEF ReportInv, Gone
    <2>3. \A i \in DOMAIN jobs : jobs[i].number \in Number /\ jobs[i].number # seq
      BY JobsPlace, TopPlace
    <2>4. step # "idle" => job.number \in Number /\ job.number # seq
      BY JobPlace, TopPlace
    <2> QED BY <2>1, <2>2, <2>3, <2>4 DEF ReportInv, Gone
  <1>4. CASE Abandon
    BY <1>4, DropMoves DEF Drops, ReportInv
  <1>5. CASE Rotate
    <2> SUFFICES ASSUME faults' = 0 PROVE ReportInv'
      BY DEF ReportInv
    <2>1. /\ faults = 0 /\ working[seq] = open
          /\ UNCHANGED <<number, working, objects, shipped, given, job, step>>
          /\ \A i \in DOMAIN jobs : i \in DOMAIN jobs' /\ jobs'[i] = jobs[i]
          /\ \A i \in DOMAIN jobs' :
                  \/ i \in DOMAIN jobs /\ jobs'[i] = jobs[i]
                  \/ jobs'[i].number = seq /\ jobs'[i].window = open
          /\ \E i \in DOMAIN jobs' : jobs'[i].number = seq /\ jobs'[i].window = open
      BY <1>5, RotateMoves
    <2>2. \A w \in DOMAIN number' :
               \/ (\E i \in DOMAIN jobs' : jobs'[i].window = w)
               \/ (step' # "idle" /\ job'.window = w) \/ w \in Gone'
      BY <2>1 DEF ReportInv, Gone
    <2>3. \A i \in DOMAIN jobs' :
              working'[jobs'[i].number] = jobs'[i].window \/ jobs'[i].window \in given'
      BY <2>1 DEF ReportInv
    <2>4. /\ step' = "seal" => working'[job'.number] = job'.window \/ job'.window \in given'
          /\ step' \in {"cleanup", "finish"} => job'.window \in Gone'
      BY <2>1 DEF ReportInv, Gone
    <2> QED BY <2>2, <2>3, <2>4 DEF ReportInv
  <1>6. CASE CloseFails
    BY <1>6, DropMoves DEF Drops, ReportInv
  <1>7. CASE Sweep
    BY <1>7 DEF ReportInv, Gone, Sweep, Recording, diskVars, passVars
  <1>8. CASE Collect
    BY <1>8 DEF ReportInv, Gone, Collect, Recording, diskVars, passVars
  <1>9. CASE Stop
    BY <1>9 DEF ReportInv, Gone, Stop, Recording, diskVars, passVars
  <1>10. CASE FinalPass
    BY <1>10 DEF ReportInv, Gone, FinalPass, Recording, Settled, diskVars, passVars
  <1>11. CASE ListCompleted
    BY <1>11 DEF ReportInv, Gone, ListCompleted, Pass, writerVars, diskVars, publishVars
  <1>12. CASE ListStaging
    BY <1>12 DEF ReportInv, Gone, ListStaging, Pass, writerVars, diskVars, publishVars
  <1>13. ASSUME NEW n \in Number, Classify(n) PROVE ReportInv'
    BY <1>13 DEF ReportInv, Gone, Classify, Pass, writerVars, diskVars, publishVars
  <1>14. CASE PlanEviction
    BY <1>14 DEF ReportInv, Gone, PlanEviction, Pass, writerVars, diskVars, publishVars
  <1>15. CASE Evict
    <2>1. PICK e : Takes(e)
      BY <1>15, EvictTakes
    <2> SUFFICES ASSUME faults' = 0 PROVE ReportInv'
      BY DEF ReportInv
    <2>2. faults = 0 /\ UNCHANGED <<open, number, jobs, job, step, shipped>>
      BY <2>1 DEF Takes
    <2>3. Gone \subseteq Gone'
      <3>1. (objects' = objects /\ given' = given)
            \/ (OnDisk(e) /\ Unlinked(e) /\ given' = given \cup {WindowOf(e)})
        BY <2>1 DEF Takes
      <3>2. objects \subseteq objects' \cup given' /\ given \subseteq given'
        BY <3>1 DEF Unlinked, WindowOf
      <3> QED BY <2>2, <3>2 DEF Gone
    <2>4. given \subseteq given'
      BY <2>1 DEF Takes
    <2>5. \A n \in Number : working'[n] = working[n] \/ working[n] \in given'
      <3>1. CASE working' = working
        BY <3>1
      <3>2. CASE Unlinked(e) /\ given' = given \cup {WindowOf(e)} /\ working' # working
        BY <2>1, <3>2 DEF Unlinked, WindowOf, Takes
      <3> QED BY <2>1, <3>1, <3>2 DEF Takes
    <2>6. \A i \in DOMAIN jobs :
              working'[jobs[i].number] = jobs[i].window \/ jobs[i].window \in given'
      BY <2>2, <2>4, <2>5, JobsPlace DEF ReportInv
    <2>7. step = "seal" => working'[job.number] = job.window \/ job.window \in given'
      BY <2>2, <2>4, <2>5, JobPlace DEF ReportInv
    <2>8. \A w \in DOMAIN number :
               \/ w = open \/ (\E i \in DOMAIN jobs : jobs[i].window = w)
               \/ (step # "idle" /\ job.window = w) \/ w \in Gone'
      BY <2>2, <2>3 DEF ReportInv
    <2>9. step \in {"cleanup", "finish"} => job.window \in Gone'
      BY <2>2, <2>3 DEF ReportInv
    <2> QED BY <2>2, <2>6, <2>7, <2>8, <2>9 DEF ReportInv
  <1>16. CASE EndPass
    BY <1>16 DEF ReportInv, Gone, EndPass, Pass, writerVars, diskVars, publishVars
  <1>17. CASE StartPublication
    <2> SUFFICES ASSUME faults' = 0 PROVE ReportInv'
      BY DEF ReportInv
    <2>1. /\ faults = 0 /\ step = "idle" /\ step' = "seal"
          /\ UNCHANGED <<open, number, working, objects, shipped, given>>
          /\ 1 \in DOMAIN jobs
          /\ job'.number = jobs[1].number /\ job'.window = jobs[1].window
          /\ \A i \in DOMAIN jobs' : i + 1 \in DOMAIN jobs /\ jobs'[i] = jobs[i + 1]
          /\ \A i \in DOMAIN jobs : i = 1 \/ \E k \in DOMAIN jobs' : jobs'[k] = jobs[i]
      BY <1>17, TakeMoves
    <2>2. \A w \in DOMAIN number' :
               \/ w = open' \/ (\E i \in DOMAIN jobs' : jobs'[i].window = w)
               \/ job'.window = w \/ w \in Gone'
      BY <2>1 DEF ReportInv, Gone
    <2>3. \A i \in DOMAIN jobs' :
              working'[jobs'[i].number] = jobs'[i].window \/ jobs'[i].window \in given'
      BY <2>1 DEF ReportInv
    <2>4. working'[job'.number] = job'.window \/ job'.window \in given'
      BY <2>1 DEF ReportInv
    <2> QED BY <2>1, <2>2, <2>3, <2>4 DEF ReportInv
  <1>18. CASE Seal
    <2> SUFFICES ASSUME faults' = 0 PROVE ReportInv'
      BY DEF ReportInv
    <2>1. /\ step = "seal"
          /\ UNCHANGED <<open, number, working, objects, shipped, given, jobs, job>>
          /\ \/ step' = "manifest" /\ faults' = faults
             \/ working[job.number] # job.window /\ step' = "cleanup" /\ faults' = faults
             \/ faults' = faults + 1
      BY <1>18 DEF Seal, Compressor, Fault, writerVars
    <2>2. faults \in Nat /\ faults' # faults + 1
      BY TopPlace
    <2>3. CASE step' = "manifest" /\ faults' = faults
      BY <2>1, <2>3 DEF ReportInv, Gone
    <2>4. CASE working[job.number] # job.window /\ step' = "cleanup" /\ faults' = faults
      BY <2>1, <2>4 DEF ReportInv, Gone
    <2> QED BY <2>1, <2>2, <2>3, <2>4
  <1>19. CASE Land("manifest", "object")
    <2> SUFFICES ASSUME faults' = 0 PROVE ReportInv'
      BY DEF ReportInv
    <2>1. /\ step = "manifest"
          /\ UNCHANGED <<open, number, working, objects, shipped, given, jobs, job>>
          /\ (step' = "object" /\ faults' = faults) \/ faults' = faults + 1
      BY <1>19 DEF Land, Lands, Compressor, Fault, writerVars
    <2>2. faults = 0 /\ step' = "object"
      BY <2>1, TopPlace
    <2> QED BY <2>1, <2>2 DEF ReportInv, Gone
  <1>20. CASE Land("object", "source")
    <2> SUFFICES ASSUME faults' = 0 PROVE ReportInv'
      BY DEF ReportInv
    <2>1. /\ step = "object" /\ objects \subseteq objects'
          /\ UNCHANGED <<open, number, working, shipped, given, jobs, job>>
          /\ (step' = "source" /\ faults' = faults) \/ faults' = faults + 1
      BY <1>20 DEF Land, Lands, Compressor, Fault, writerVars
    <2>2. faults = 0 /\ step' = "source"
      BY <2>1, TopPlace
    <2> QED BY <2>1, <2>2 DEF ReportInv, Gone
  <1>21. CASE RemoveSource
    <2> SUFFICES ASSUME faults' = 0 PROVE ReportInv'
      BY DEF ReportInv
    <2>1. /\ step = "source" /\ step' = "finish" /\ faults = 0
          /\ UNCHANGED <<open, number, objects, shipped, given, jobs, job>>
          /\ \A n \in Number : n # job.number => working'[n] = working[n]
      BY <1>21, SourceMoves
    <2>2. job.window \in Gone
      BY <2>1 DEF ReportInv, PlaceInv, Gone
    <2>3. \A i \in DOMAIN jobs : jobs[i].number \in Number /\ jobs[i].number # job.number
      BY <2>1, JobsPlace, JobPlace DEF Core, QueueInv
    <2>4. \A i \in DOMAIN jobs' :
              working'[jobs'[i].number] = jobs'[i].window \/ jobs'[i].window \in given'
      BY <2>1, <2>3 DEF ReportInv
    <2>5. \A w \in DOMAIN number' :
               \/ w = open' \/ (\E i \in DOMAIN jobs' : jobs'[i].window = w)
               \/ (step' # "idle" /\ job'.window = w) \/ w \in Gone'
      BY <2>1 DEF ReportInv, Gone
    <2>6. job'.window \in Gone'
      BY <2>1, <2>2 DEF Gone
    <2> QED BY <2>1, <2>4, <2>5, <2>6 DEF ReportInv
  <1>22. CASE CleanUp
    <2> SUFFICES ASSUME faults' = 0 PROVE ReportInv'
      BY DEF ReportInv
    <2>1. /\ step = "cleanup" /\ step' = "finish" /\ faults = 0
          /\ UNCHANGED <<open, number, objects, shipped, given, jobs, job>>
          /\ \A n \in Number : n # job.number => working'[n] = working[n]
      BY <1>22, SourceMoves
    <2>2. job.window \in Gone
      BY <2>1 DEF ReportInv, PlaceInv, Gone
    <2>3. \A i \in DOMAIN jobs : jobs[i].number \in Number /\ jobs[i].number # job.number
      BY <2>1, JobsPlace, JobPlace DEF Core, QueueInv
    <2>4. \A i \in DOMAIN jobs' :
              working'[jobs'[i].number] = jobs'[i].window \/ jobs'[i].window \in given'
      BY <2>1, <2>3 DEF ReportInv
    <2>5. \A w \in DOMAIN number' :
               \/ w = open' \/ (\E i \in DOMAIN jobs' : jobs'[i].window = w)
               \/ (step' # "idle" /\ job'.window = w) \/ w \in Gone'
      BY <2>1 DEF ReportInv, Gone
    <2>6. job'.window \in Gone'
      BY <2>1, <2>2 DEF Gone
    <2> QED BY <2>1, <2>4, <2>5, <2>6 DEF ReportInv
  <1>23. CASE Finish
    BY <1>23 DEF ReportInv, Gone, Finish, Compressor, Reports, NoJob, writerVars, passVars
  <1>24. ASSUME NEW w \in Window, Ship(w) PROVE ReportInv'
    BY <1>24 DEF ReportInv, Gone, Ship, writerVars, publishVars, passVars
  <1>25. CASE UNCHANGED vars
    BY <1>25 DEF ReportInv, Gone, vars, writerVars, diskVars, publishVars, passVars
  <1> QED BY <1>1, <1>2, <1>3, <1>4, <1>5, <1>6, <1>7, <1>8, <1>9, <1>10, <1>11, <1>12,
         <1>13, <1>14, <1>15, <1>16, <1>17, <1>18, <1>19, <1>20, <1>21, <1>22, <1>23,
         <1>24, <1>25
         DEF Next, Write, RotateAt, RetentionPass, Publish

-----------------------------------------------------------------------------
(* What the pass keeps of the listed objects, and the floor it leaves.     *)

(* Files that move on while a pass is on, or between passes.               *)
LEMMA FloorFrame ==
    ASSUME Core, FloorInv, UNCHANGED <<at, listed, plan, kept, floor>>,
           objects \cup shipped \subseteq objects' \cup shipped', retained \subseteq retained',
           \A e \in listed : (e.id \in objects' => e.id \in objects)
                             /\ (e.id \in retained' => e.id \in retained)
    PROVE  FloorInv'
  <1>1. \A e \in listed : e.kind = "object" \/ e.kind = "retained"
    BY DEF Core, ScanInv, IsObject
  <1>2. \A e \in listed : There(e) => There(e)'
    BY <1>1 DEF There
  <1>3. \A e \in listed : OnDisk(e)' => OnDisk(e)
    BY <1>1 DEF OnDisk
  <1>4. /\ at' \in {"staging", "classify"} => \A e \in listed' : There(e)'
        /\ at' \in {"staging", "classify", "evict"} =>
               \A e, f \in listed' : e.id = f.id => e = f
        /\ at' = "staging" => \A e \in listed' : e.kind = "object"
    BY <1>2 DEF FloorInv
  <1>5. /\ (\A i \in DOMAIN plan : IsObject(plan[i]) =>
                plan[i] \in listed /\ There(plan[i]) /\ kept < plan[i].id)'
        /\ (\A i, j \in DOMAIN plan : i < j /\ IsObject(plan[j]) =>
                IsObject(plan[i]) /\ plan[i].id < plan[j].id)'
    <2>1. \A i \in DOMAIN plan : IsObject(plan[i]) =>
              plan[i] \in listed /\ There(plan[i]) /\ kept < plan[i].id
      BY DEF FloorInv
    <2>2. \A i, j \in DOMAIN plan : i < j /\ IsObject(plan[j]) =>
              IsObject(plan[i]) /\ plan[i].id < plan[j].id
      BY DEF FloorInv
    <2>3. UNCHANGED <<plan, listed, kept>>
      OBVIOUS
    <2> QED BY <1>2, <2>1, <2>2, <2>3 DEF There, IsObject
  <1>6. at' = "evict" =>
            \A e \in listed' : \/ \E i \in DOMAIN plan' : plan'[i] = e
                               \/ ~OnDisk(e)' \/ (kept' # 0 /\ kept' <= e.id)
    BY <1>3 DEF FloorInv
  <1>7. /\ kept' # 0 => kept' \in objects' \cup retained' \cup shipped'
        /\ floor' \in Number /\ (at' = "down" => floor' = 0 /\ listed' = {})
    BY DEF FloorInv
  <1>8. FloorIsOldest'
    BY <1>3 DEF FloorInv, FloorIsOldest
  <1> QED BY <1>4, <1>5, <1>6, <1>7, <1>8 DEF FloorInv

(* The oldest object left in the plan.                                     *)
LEMMA OldestLeft ==
    ASSUME NEW left \in SUBSET Nat, left # {}
    PROVE  Min(left) \in left /\ \A i \in left : Min(left) <= i
  BY LeastNatural DEF Min

LEMMA FloorNext ==
    ASSUME Core, Core', PlaceInv, PlaceInv', FloorInv, [Next]_vars PROVE FloorInv'
  <1>1. CASE Start
    <2>1. listed' = {} /\ DOMAIN plan' = {} /\ kept' = 0 /\ floor' = 0 /\ at' = "write"
      BY <1>1, StartMoves
    <2> QED BY <2>1, TopPlace DEF FloorInv, FloorIsOldest, NoWindow
  <1>2. CASE Crash
    <2>1. listed' = {} /\ DOMAIN plan' = {} /\ kept' = 0 /\ floor' = 0 /\ at' = "down"
      BY <1>2, CrashMoves
    <2> QED BY <2>1, TopPlace DEF FloorInv, FloorIsOldest, NoWindow
  <1>3. CASE OpenSegment
    BY <1>3, OpenMoves, FloorFrame
  <1>4. CASE Abandon
    BY <1>4, DropMoves, FloorFrame DEF Drops
  <1>5. CASE Rotate
    BY <1>5 DEF FloorInv, There, FloorIsOldest, OnDisk, Rotate, Spent, diskVars, passVars
  <1>6. CASE CloseFails
    BY <1>6, DropMoves, FloorFrame DEF Drops
  <1>7. CASE Sweep
    BY <1>7 DEF FloorInv, There, FloorIsOldest, OnDisk, Sweep, Recording, diskVars, passVars
  <1>8. CASE Collect
    BY <1>8 DEF FloorInv, There, FloorIsOldest, OnDisk, Collect, Recording, diskVars,
           passVars
  <1>9. CASE Stop
    BY <1>9 DEF FloorInv, There, FloorIsOldest, OnDisk, Stop, Recording, diskVars, passVars
  <1>10. CASE FinalPass
    BY <1>10 DEF FloorInv, There, FloorIsOldest, OnDisk, FinalPass, Recording, Settled,
           diskVars, passVars
  <1>11. CASE ListCompleted
    <2>1. /\ at = "list" /\ at' = "staging"
          /\ listed' = {[kind |-> "object", id |-> w, age |-> w] : w \in objects}
          /\ UNCHANGED <<objects, shipped, plan, kept, floor, retained>>
      BY <1>11 DEF ListCompleted, Pass, diskVars
    <2>2. DOMAIN plan' = {} /\ kept' = 0
      BY <2>1 DEF Core, IdleInv
    <2>3. \A e \in listed' : e.kind = "object" /\ e.id \in objects' /\ e = ObjectOf(e.id)
      BY <2>1 DEF ObjectOf
    <2>4. (\A e \in listed' : There(e)') /\ \A e, f \in listed' : e.id = f.id => e = f
      BY <2>3 DEF There
    <2>5. floor' \in Number
      BY <2>1 DEF FloorInv
    <2> QED BY <2>1, <2>2, <2>3, <2>4, <2>5 DEF FloorInv, FloorIsOldest
  <1>12. CASE ListStaging
    <2>1. /\ at = "staging" /\ at' = "classify"
          /\ listed' = listed \cup {[kind |-> "retained", id |-> w, age |-> w] : w \in retained}
          /\ UNCHANGED <<objects, shipped, plan, kept, floor, retained>>
      BY <1>12 DEF ListStaging, Pass, diskVars
    <2>2. DOMAIN plan' = {} /\ kept' = 0
      BY <2>1 DEF Core, IdleInv
    <2>3. \A e \in listed : e.kind = "object" /\ e.id \in objects \cup shipped
      BY <2>1 DEF FloorInv, There
    <2>4. \A e \in listed' \ listed : e.kind = "retained" /\ e.id \in retained /\ e = RetainedOf(e.id)
      BY <2>1 DEF RetainedOf
    <2>5. \A e \in listed' : There(e)'
      BY <2>1, <2>3, <2>4 DEF There
    <2>6. \A e, f \in listed' : e.id = f.id => e = f
      <3>1. retained \cap (objects \cup shipped) = {}
        BY DEF PlaceInv
      <3>2. \A e, f \in listed : e.id = f.id => e = f
        BY <2>1 DEF FloorInv
      <3> QED BY <2>3, <2>4, <3>1, <3>2
    <2>7. floor' \in Number
      BY <2>1 DEF FloorInv
    <2> QED BY <2>1, <2>2, <2>5, <2>6, <2>7 DEF FloorInv, FloorIsOldest
  <1>13. ASSUME NEW n \in Number, Classify(n) PROVE FloorInv'
    BY <1>13 DEF FloorInv, There, FloorIsOldest, OnDisk, Classify, Pass, writerVars,
           diskVars, publishVars
  <1>14. CASE PlanEviction
    <2>1. /\ at = "classify" /\ at' = "evict" /\ kept' = 0
          /\ plan' = Reachable(listed, residue)
          /\ UNCHANGED <<objects, shipped, retained, listed, floor>>
      BY <1>14, ConstTypes DEF PlanEviction, Pass, diskVars
    <2>2. PICK o, r, p : o = listed /\ r = residue /\ p = Reachable(o, r)
      OBVIOUS
    <2>13. plan' = p
      BY <2>1, <2>2
    <2>3. /\ o \in SUBSET Entries /\ r \in SUBSET Entries /\ IsFiniteSet(o) /\ IsFiniteSet(r)
          /\ \A e \in o : IsObject(e) /\ e.age = e.id /\ e.id \in 1 .. next - 1
          /\ \A e \in r : ~IsObject(e)
      BY <2>1, <2>2 DEF Core, ScanInv
    <2>4. /\ DOMAIN p = 1 .. Len(p) /\ \A i \in DOMAIN p : p[i] \in o \cup r
          /\ ToSet(p) = o \cup (r \ NewestQueued(r))
          /\ \E k \in Nat : ObjectsFirst(p, k, o, r)
      <3>1. /\ o \in SUBSET Entries /\ r \in SUBSET Entries /\ IsFiniteSet(o) /\ IsFiniteSet(r)
            /\ p = Reachable(o, r)
        BY <2>2, <2>3
      <3> QED BY <3>1, ReachableLists
    <2>5. PICK k \in Nat :
             /\ \A i \in DOMAIN p : p[i] \in IF i <= k THEN o ELSE r
             /\ \A i, j \in DOMAIN p : i < j /\ j <= k => p[i] # p[j] /\ p[i].age <= p[j].age
      BY <2>4 DEF ObjectsFirst
    <2>6. (\A e \in o : There(e)) /\ \A e, f \in o : e.id = f.id => e = f
      BY <2>1, <2>2 DEF FloorInv
    <2>7. \A i \in DOMAIN p : IsObject(p[i]) => i <= k /\ p[i] \in o
      BY <2>3, <2>5
    <2>8. \A i \in DOMAIN p : IsObject(p[i]) => p[i] \in o /\ There(p[i]) /\ 0 < p[i].id
      BY <2>3, <2>6, <2>7
    <2>9. \A i, j \in DOMAIN p : i < j /\ IsObject(p[j]) => IsObject(p[i]) /\ p[i].id < p[j].id
      <3> SUFFICES ASSUME NEW i \in DOMAIN p, NEW j \in DOMAIN p, i < j, IsObject(p[j])
                   PROVE  IsObject(p[i]) /\ p[i].id < p[j].id
        OBVIOUS
      <3>1. j <= k /\ p[j] \in o /\ i \in Nat /\ j \in Nat
        BY <2>4, <2>7
      <3>2. i <= k /\ p[i] \in o
        BY <2>5, <3>1
      <3>3. p[i] # p[j] /\ p[i].age <= p[j].age
        BY <2>5, <3>1
      <3>4. p[i].id # p[j].id /\ p[i].id <= p[j].id
        BY <2>3, <2>6, <3>1, <3>2, <3>3
      <3> QED BY <2>3, <3>1, <3>2, <3>4
    <2>10. \A e \in o : \E i \in DOMAIN p : p[i] = e
      BY <2>4 DEF ToSet
    <2>11. floor' \in Number
      BY <2>1 DEF FloorInv
    <2>12. \A i \in DOMAIN p : IsObject(p[i]) => There(p[i])'
      BY <2>1, <2>8 DEF There
    <2>14. /\ (\A i \in DOMAIN plan : IsObject(plan[i]) =>
                   plan[i] \in listed /\ There(plan[i]) /\ kept < plan[i].id)'
           /\ (\A i, j \in DOMAIN plan : i < j /\ IsObject(plan[j]) =>
                   IsObject(plan[i]) /\ plan[i].id < plan[j].id)'
      BY <2>1, <2>2, <2>8, <2>9, <2>12, <2>13 DEF There, IsObject
    <2> QED BY <2>1, <2>2, <2>6, <2>10, <2>11, <2>13, <2>14 DEF FloorInv, FloorIsOldest
  <1>15. CASE Evict
    <2>1. PICK e : Takes(e)
      BY <1>15, EvictTakes
    <2>2. /\ at = "evict" /\ at' = "evict" /\ UNCHANGED <<listed, floor, shipped>>
          /\ 1 \in DOMAIN plan /\ e = plan[1] /\ kept' \in Number
          /\ \A i \in DOMAIN plan' : i + 1 \in DOMAIN plan /\ plan'[i] = plan[i + 1] /\ 1 < i + 1
          /\ objects' \subseteq objects /\ retained' \subseteq retained
          /\ \A i \in DOMAIN plan : i = 1 \/ \E k \in DOMAIN plan' : plan'[k] = plan[i]
      <3>1. /\ DOMAIN plan' = 1 .. Len(plan') /\ DOMAIN plan = 1 .. Len(plan)
            /\ Len(plan') \in Nat /\ Len(plan') + 1 = Len(plan)
            /\ \A i \in DOMAIN plan' : i + 1 \in DOMAIN plan /\ plan'[i] = plan[i + 1]
        BY <2>1 DEF Takes
      <3>2. ASSUME NEW i \in DOMAIN plan, i # 1 PROVE \E k \in DOMAIN plan' : plan'[k] = plan[i]
        <4>1. i - 1 \in DOMAIN plan' /\ i - 1 + 1 = i
          BY <3>1, <3>2
        <4> QED BY <3>1, <4>1
      <3>3. \A i \in DOMAIN plan' : 1 < i + 1
        BY <3>1
      <3> QED BY <2>1, <3>1, <3>2, <3>3 DEF Takes
    <2>3. /\ \A i \in DOMAIN plan : IsObject(plan[i]) =>
                 plan[i] \in listed /\ There(plan[i]) /\ kept < plan[i].id
          /\ \A i, j \in DOMAIN plan : i < j /\ IsObject(plan[j]) =>
                 IsObject(plan[i]) /\ plan[i].id < plan[j].id
      BY DEF FloorInv
    <2>4. /\ \A f \in listed : IsObject(f) /\ f.id \in Nat /\ f.id # 0
          /\ kept \in Nat /\ kept' \in Nat
      <3>1. \A f \in listed : IsObject(f) /\ f.id \in 1 .. next - 1
        BY DEF Core, ScanInv
      <3>2. kept \in Number /\ kept' \in Number
        BY <2>2 DEF Core, ScanInv
      <3> QED BY <3>1, <3>2, TopPlace, ConstTypes
    <2>5. \/ UNCHANGED <<retained, objects>>
          \/ IsObject(e) /\ e.id \in retained /\ retained' = retained \ {e.id} /\ objects' = objects
          \/ IsObject(e) /\ e.id \in objects /\ objects' = objects \ {e.id} /\ retained' = retained
      BY <2>1 DEF Takes, Unlinked, IsObject, OnDisk
    <2>6. \A i \in DOMAIN plan' : IsObject(plan'[i]) =>
              /\ plan'[i] \in listed /\ There(plan'[i]) /\ kept < plan'[i].id
              /\ IsObject(e) /\ e.id < plan'[i].id
      BY <2>2, <2>3
    <2>7. IsObject(e) => e \in listed /\ kept < e.id /\ e.id \in Nat /\ e.id # 0
      BY <2>2, <2>3, <2>4
    <2>8. kept' = kept \/ (kept = 0 /\ IsObject(e) /\ OnDisk(e) /\ kept' = e.id /\ UNCHANGED <<objects, retained>>)
      BY <2>1, ConstTypes DEF Takes, Kept
    <2>9. \A i \in DOMAIN plan' : \A f : f = plan'[i] /\ IsObject(f) =>
              f \in listed /\ There(f)' /\ kept' < f.id
      <3> SUFFICES ASSUME NEW i \in DOMAIN plan', NEW f, f = plan'[i], IsObject(f)
                   PROVE  f \in listed /\ There(f)' /\ kept' < f.id
        OBVIOUS
      <3>1. IsObject(plan'[i])
        OBVIOUS
      <3>2. f \in listed /\ There(f) /\ kept < f.id /\ IsObject(e) /\ e.id < f.id /\ f.id \in Nat
        BY <2>4, <2>6, <3>1
      <3>3. f.id # e.id /\ kept' < f.id
        BY <2>7, <2>8, <3>2
      <3>4. There(f)'
        BY <2>2, <2>5, <3>2, <3>3 DEF There
      <3> QED BY <3>2, <3>3, <3>4
    <2>10. \A i, j \in DOMAIN plan' : i < j /\ IsObject(plan'[j]) =>
              IsObject(plan'[i]) /\ plan'[i].id < plan'[j].id
      <3> SUFFICES ASSUME NEW i \in DOMAIN plan', NEW j \in DOMAIN plan', i < j, IsObject(plan'[j])
                   PROVE  IsObject(plan'[i]) /\ plan'[i].id < plan'[j].id
        OBVIOUS
      <3>1. i + 1 < j + 1
        BY <2>1 DEF Takes
      <3> QED BY <2>2, <2>3, <3>1
    <2>11. \A f \in listed : \/ \E i \in DOMAIN plan' : plan'[i] = f
                             \/ ~OnDisk(f)' \/ (kept' # 0 /\ kept' <= f.id)
      <3> SUFFICES ASSUME NEW f \in listed, OnDisk(f)', ~(kept' # 0 /\ kept' <= f.id)
                   PROVE  \E i \in DOMAIN plan' : plan'[i] = f
        OBVIOUS
      <3>1. OnDisk(f)
        BY <2>2, <2>4 DEF OnDisk, IsObject
      <3>2. ~(kept # 0 /\ kept <= f.id)
        BY <2>8
      <3>3. PICK i \in DOMAIN plan : plan[i] = f
        BY <2>2, <3>1, <3>2 DEF FloorInv
      <3>4. i # 1
        <4> SUFFICES ASSUME i = 1 PROVE FALSE
          OBVIOUS
        <4>1. e = f /\ IsObject(e)
          BY <2>2, <2>4, <3>3
        <4>2. ~Spared(e) /\ ~(OnDisk(e)' /\ Unlinked(e))
          BY <4>1 DEF Spared, IsObject, Unlinked, OnDisk
        <4>3. kept' = Kept(e)
          BY <2>1, <3>1, <4>1, <4>2 DEF Takes
        <4>4. kept' # 0 /\ kept' <= f.id
          BY <2>4, <2>7, <4>1, <4>3, ConstTypes DEF Kept
        <4> QED BY <4>4
      <3> QED BY <2>2, <3>3, <3>4
    <2>12. kept' # 0 => kept' \in objects' \cup retained' \cup shipped'
      <3>1. CASE kept' = kept
        <4>1. kept # 0 => kept \in objects \cup retained \cup shipped
          BY DEF FloorInv
        <4>2. IsObject(e) => kept # e.id
          BY <2>4, <2>7
        <4> QED BY <2>2, <2>5, <3>1, <4>1, <4>2
      <3>2. CASE kept' # kept
        BY <2>8, <3>2 DEF OnDisk, IsObject
      <3> QED BY <3>1, <3>2
    <2>13. floor' \in Number /\ \A f, g \in listed' : f.id = g.id => f = g
      BY <2>2 DEF FloorInv
    <2>14. /\ (\A i \in DOMAIN plan : IsObject(plan[i]) =>
                   plan[i] \in listed /\ There(plan[i]) /\ kept < plan[i].id)'
           /\ (\A i, j \in DOMAIN plan : i < j /\ IsObject(plan[j]) =>
                   IsObject(plan[i]) /\ plan[i].id < plan[j].id)'
      BY <2>2, <2>9, <2>10 DEF There, IsObject
    <2> QED BY <2>2, <2>11, <2>12, <2>13, <2>14 DEF FloorInv, FloorIsOldest
  <1>16. CASE EndPass
    <2>1. /\ at = "evict" /\ at' \in {"write", "exited"} /\ kept' = 0 /\ plan' = <<>>
          /\ floor' = FloorAfter
          /\ UNCHANGED <<objects, shipped, retained, recovered, working, listed>>
      BY <1>16, ConstTypes DEF EndPass, Pass, diskVars
    <2>2. /\ \A i \in DOMAIN plan : IsObject(plan[i]) =>
                 plan[i] \in listed /\ There(plan[i]) /\ kept < plan[i].id
          /\ \A i, j \in DOMAIN plan : i < j /\ IsObject(plan[j]) => plan[i].id < plan[j].id
          /\ \A e \in listed : \/ \E i \in DOMAIN plan : plan[i] = e
                               \/ ~OnDisk(e) \/ (kept # 0 /\ kept <= e.id)
          /\ kept # 0 => kept \in objects \cup retained \cup shipped
      BY <2>1 DEF FloorInv
    <2>3. /\ \A e \in listed : IsObject(e) /\ e.id \in Nat /\ e.id # 0 /\ e.id \in Number
          /\ kept \in Nat /\ kept \in Number
      <3>1. (\A e \in listed : IsObject(e) /\ e.id \in 1 .. next - 1) /\ kept \in Number
        BY DEF Core, ScanInv
      <3>2. \A m \in 1 .. next - 1 : m \in Nat /\ m # 0 /\ m \in Number
        BY TopPlace, ConstTypes
      <3> QED BY <3>1, <3>2, ConstTypes
    <2> DEFINE left == {i \in DOMAIN plan : IsObject(plan[i])}
    <2>4. left \in SUBSET Nat
      BY DEF Core, ScanInv
    <2>5. /\ floor' \in Number
          /\ \A e \in listed : OnDisk(e) => floor' \in 1 .. e.id
          /\ floor' # 0 => floor' \in objects \cup retained \cup shipped
      <3>1. CASE kept # 0
        <4>1. floor' = kept
          BY <2>1, <3>1, ConstTypes DEF FloorAfter
        <4>2. \A e \in listed : OnDisk(e) => kept <= e.id
          BY <2>2, <2>3
        <4> QED BY <2>2, <2>3, <3>1, <4>1, <4>2
      <3>2. CASE kept = 0 /\ left = {}
        <4>1. floor' = 0
          BY <2>1, <3>2, ConstTypes DEF FloorAfter
        <4>2. \A e \in listed : ~OnDisk(e)
          BY <2>2, <2>3, <3>2
        <4> QED BY <4>1, <4>2, TopPlace
      <3>3. CASE kept = 0 /\ left # {}
        <4>1. PICK m : m = Min(left)
          OBVIOUS
        <4>2. m \in left /\ \A i \in left : m <= i
          BY <2>4, <3>3, <4>1, OldestLeft
        <4>3. floor' = plan[m].id
          BY <2>1, <3>3, <4>1, ConstTypes DEF FloorAfter
        <4>4. plan[m] \in listed /\ There(plan[m]) /\ m \in DOMAIN plan /\ m \in Nat
          BY <2>2, <2>4, <4>2
        <4>5. ASSUME NEW e \in listed, OnDisk(e) PROVE plan[m].id <= e.id
          <5>1. PICK i \in DOMAIN plan : plan[i] = e
            BY <2>2, <3>3, <4>5
          <5>2. i \in left /\ i \in Nat /\ m <= i
            BY <2>3, <2>4, <4>2, <5>1
          <5>3. CASE m = i
            BY <2>3, <5>1, <5>3
          <5>4. CASE m < i
            BY <2>2, <2>3, <4>4, <5>1, <5>2, <5>4
          <5> QED BY <4>4, <5>2, <5>3, <5>4
        <4> HIDE DEF left
        <4>6. plan[m].id \in objects \cup retained \cup shipped
          BY <4>4 DEF There
        <4>7. plan[m].id \in Nat /\ plan[m].id # 0 /\ plan[m].id \in Number
          BY <2>3, <4>4
        <4> QED BY <2>3, <4>3, <4>5, <4>6, <4>7
      <3> QED BY <2>3, <3>1, <3>2, <3>3
    <2> HIDE DEF left
    <2>6. \A e \in listed : OnDisk(e)' => OnDisk(e)
      BY <2>1 DEF OnDisk
    <2>7. FloorIsOldest'
      <3>1. /\ \A e \in listed : OnDisk(e)' => floor' \in 1 .. e.id
            /\ floor' # 0 => floor' \in objects' \cup retained' \cup shipped'
        BY <2>1, <2>5, <2>6
      <3>2. listed' = listed
        BY <2>1
      <3> QED BY <3>1, <3>2, ConstTypes DEF FloorIsOldest
    <2>8. DOMAIN plan' = {}
      BY <2>1
    <2> QED BY <2>1, <2>5, <2>7, <2>8 DEF FloorInv
  <1>17. CASE StartPublication
    BY <1>17 DEF FloorInv, There, FloorIsOldest, OnDisk, StartPublication, Compressor,
           writerVars, passVars
  <1>18. CASE Seal
    BY <1>18 DEF FloorInv, There, FloorIsOldest, OnDisk, Seal, Compressor, Fault,
           writerVars, passVars
  <1>19. CASE Land("manifest", "object")
    BY <1>19 DEF FloorInv, There, FloorIsOldest, OnDisk, Land, Compressor, Lands, Fault,
           writerVars, passVars
  <1>20. CASE Land("object", "source")
    <2>1. /\ step = "object"
          /\ UNCHANGED <<at, listed, plan, kept, floor, retained, shipped>>
          /\ objects' \in {objects, objects \cup {job.window}}
      BY <1>20 DEF Land, Lands, Compressor, passVars
    <2>2. \A e \in listed : e.id # job.window
      BY <2>1 DEF PlaceInv, Fresh
    <2> QED BY <2>1, <2>2, FloorFrame
  <1>21. CASE RemoveSource
    BY <1>21, SourceMoves, FloorFrame
  <1>22. CASE CleanUp
    <2>1. /\ step = "cleanup" /\ UNCHANGED <<at, listed, plan, kept, floor, objects, shipped>>
          /\ retained' \in {retained, retained \cup {job.window}}
      BY <1>22, SourceMoves
    <2>2. \A e \in listed : e.id # job.window
      BY <2>1 DEF PlaceInv, Fresh
    <2> QED BY <2>1, <2>2, FloorFrame
  <1>23. CASE Finish
    BY <1>23 DEF FloorInv, There, FloorIsOldest, OnDisk, Finish, Compressor, Reports,
           NoJob, writerVars, passVars
  <1>24. ASSUME NEW w \in Window, Ship(w) PROVE FloorInv'
    BY <1>24 DEF FloorInv, There, FloorIsOldest, OnDisk, Ship, writerVars, publishVars,
           passVars
  <1>25. CASE UNCHANGED vars
    BY <1>25 DEF FloorInv, There, FloorIsOldest, OnDisk, vars, writerVars, diskVars,
           publishVars, passVars
  <1> QED BY <1>1, <1>2, <1>3, <1>4, <1>5, <1>6, <1>7, <1>8, <1>9, <1>10, <1>11, <1>12,
         <1>13, <1>14, <1>15, <1>16, <1>17, <1>18, <1>19, <1>20, <1>21, <1>22, <1>23,
         <1>24, <1>25
         DEF Next, Write, RotateAt, RetentionPass, Publish

-----------------------------------------------------------------------------
(* What a pass leaves: every file, once, in the plan or in use.            *)

LEMMA UnionAtMost ==
    ASSUME NEW A, NEW B, IsFiniteSet(A), IsFiniteSet(B)
    PROVE  /\ IsFiniteSet(A \cup B) /\ Cardinality(A) \in Nat /\ Cardinality(B) \in Nat
           /\ Cardinality(A \cup B) \in Nat
           /\ Cardinality(A \cup B) <= Cardinality(A) + Cardinality(B)
           /\ A \cap B = {} => Cardinality(A \cup B) = Cardinality(A) + Cardinality(B)
  <1>1. IsFiniteSet(A \cap B)
    BY FS_Intersection
  <1>2. Cardinality(A) \in Nat /\ Cardinality(B) \in Nat /\ Cardinality(A \cap B) \in Nat
    BY <1>1, FS_CardinalityType
  <1>3. /\ IsFiniteSet(A \cup B)
        /\ Cardinality(A \cup B) = Cardinality(A) + Cardinality(B) - Cardinality(A \cap B)
    BY FS_Union
  <1>4. Cardinality(A \cup B) \in Nat
    BY <1>3, FS_CardinalityType
  <1>5. A \cap B = {} => Cardinality(A \cap B) = 0
    BY FS_EmptySet
  <1> QED BY <1>2, <1>3, <1>4, <1>5

(* Four kinds of a finite set are no more than the set.                    *)
LEMMA FourKinds ==
    ASSUME NEW P, IsFiniteSet(P),
           NEW A \in SUBSET P, NEW B \in SUBSET P, NEW C \in SUBSET P, NEW D \in SUBSET P,
           A \cap B = {}, (A \cup B) \cap C = {}, ((A \cup B) \cup C) \cap D = {}
    PROVE  /\ IsFiniteSet(A) /\ IsFiniteSet(B) /\ IsFiniteSet(C) /\ IsFiniteSet(D)
           /\ Cardinality(A) \in Nat /\ Cardinality(B) \in Nat
           /\ Cardinality(C) \in Nat /\ Cardinality(D) \in Nat /\ Cardinality(P) \in Nat
           /\ Cardinality(A) + Cardinality(B) + Cardinality(C) + Cardinality(D) <= Cardinality(P)
  <1>1. IsFiniteSet(A) /\ IsFiniteSet(B) /\ IsFiniteSet(C) /\ IsFiniteSet(D)
    BY FS_Subset
  <1>2. IsFiniteSet(A \cup B) /\ Cardinality(A \cup B) = Cardinality(A) + Cardinality(B)
    BY <1>1, UnionAtMost
  <1>3. /\ IsFiniteSet((A \cup B) \cup C)
        /\ Cardinality((A \cup B) \cup C) = Cardinality(A \cup B) + Cardinality(C)
    BY <1>1, <1>2, UnionAtMost
  <1>4. /\ Cardinality(((A \cup B) \cup C) \cup D) = Cardinality((A \cup B) \cup C) + Cardinality(D)
    BY <1>1, <1>3, UnionAtMost
  <1>5. ((A \cup B) \cup C) \cup D \in SUBSET P
    OBVIOUS
  <1>6. Cardinality(((A \cup B) \cup C) \cup D) <= Cardinality(P)
    BY <1>5, FS_Subset
  <1>7. /\ Cardinality(A) \in Nat /\ Cardinality(B) \in Nat /\ Cardinality(C) \in Nat
        /\ Cardinality(D) \in Nat /\ Cardinality(P) \in Nat
    BY <1>1, FS_CardinalityType
  <1> QED BY <1>1, <1>2, <1>3, <1>4, <1>6, <1>7

(* A set whose members are all named by an entry is no larger than they.   *)
LEMMA IdCount ==
    ASSUME NEW E, IsFiniteSet(E), NEW N, \A n \in N : \E e \in E : e.id = n
    PROVE  IsFiniteSet(N) /\ Cardinality(N) \in Nat /\ Cardinality(N) <= Cardinality(E)
  <1> DEFINE T == {e.id : e \in E}
             f == [e \in E |-> e.id]
  <1>1. f \in Surjection(E, T)
    BY DEF Surjection
  <1>2. N \in SUBSET T
    OBVIOUS
  <1> HIDE DEF T, f
  <1>3. IsFiniteSet(T) /\ Cardinality(T) <= Cardinality(E)
    BY <1>1, FS_Surjection
  <1>4. IsFiniteSet(N) /\ Cardinality(N) <= Cardinality(T)
    BY <1>2, <1>3, FS_Subset
  <1>5. Cardinality(N) \in Nat /\ Cardinality(T) \in Nat /\ Cardinality(E) \in Nat
    BY <1>3, <1>4, FS_CardinalityType
  <1> QED BY <1>3, <1>4, <1>5

LEMMA PlanSize ==
    ASSUME NEW p \in Seq(Entries)
    PROVE  IsFiniteSet(ToSet(p)) /\ Cardinality(ToSet(p)) <= Len(p)
           /\ Cardinality(ToSet(p)) \in Nat /\ Len(p) \in Nat
  <1>1. Len(p) \in Nat /\ DOMAIN p = 1 .. Len(p)
    OBVIOUS
  <1>2. IsFiniteSet(1 .. Len(p)) /\ Cardinality(1 .. Len(p)) = Len(p)
    <2>1. PICK n \in Nat : n = Len(p)
      BY <1>1
    <2>2. IsFiniteSet(1 .. n) /\ Cardinality(1 .. n) = IF 1 > n THEN 0 ELSE n - 1 + 1
      BY FS_Interval
    <2>3. Cardinality(1 .. n) = n
      BY <2>2
    <2> QED BY <2>1, <2>2, <2>3
  <1> DEFINE f == [i \in 1 .. Len(p) |-> p[i]]
  <1>3. f \in Surjection(1 .. Len(p), ToSet(p))
    BY <1>1 DEF Surjection, ToSet
  <1> HIDE DEF f
  <1>4. IsFiniteSet(ToSet(p)) /\ Cardinality(ToSet(p)) <= Cardinality(1 .. Len(p))
    BY <1>2, <1>3, FS_Surjection
  <1>5. Cardinality(ToSet(p)) \in Nat
    BY <1>4, FS_CardinalityType
  <1> QED BY <1>1, <1>2, <1>4, <1>5

(* The directories are finite.                                             *)
LEMMA DiskFinite ==
    ASSUME Core
    PROVE  /\ IsFiniteSet(recovered) /\ IsFiniteSet(retained) /\ IsFiniteSet(objects)
           /\ IsFiniteSet({n \in Number : working[n] # NoWindow})
           /\ Cardinality(recovered) \in Nat /\ Cardinality(retained) \in Nat
           /\ Cardinality(objects) \in Nat
           /\ Cardinality({n \in Number : working[n] # NoWindow}) \in Nat
  <1>1. IsFiniteSet(recovered) /\ IsFiniteSet(retained) /\ IsFiniteSet(objects)
    BY TopPlace, WindowsFinite DEF Core, DiskTypes
  <1>2. IsFiniteSet(Number)
    BY ConstTypes, FS_Interval
  <1>3. {n \in Number : working[n] # NoWindow} \in SUBSET Number
    OBVIOUS
  <1>4. IsFiniteSet({n \in Number : working[n] # NoWindow})
    BY <1>2, <1>3, FS_Subset
  <1> QED BY <1>1, <1>4, FS_CardinalityType

LEMMA BudgetAtEnd ==
    ASSUME Core, BudgetInv, still, at = "evict", need <= 0 \/ plan = <<>>
    PROVE  Files <= StagingMax + Transient
  <1> DEFINE P == ToSet(plan)
             A == {e \in P : e.kind = "object"}
             B == {e \in P : e.kind = "retained"}
             C == {e \in P : e.kind = "recovered"}
             D == {e \in P : ByName(e)}
             W == {n \in Number : working[n] # NoWindow}
             N == {n \in W : IsPlanned(n)}
  <1>1. /\ need + StagingMax = Len(plan)
        /\ \A w \in objects : ObjectOf(w) \in P
        /\ \A w \in retained : RetainedOf(w) \in P
        /\ \A w \in recovered : RecoveredOf(w) \in P
        /\ \E q \in Number : \A n \in Number : working[n] # 0 =>
               \/ n = seq \/ (step # "idle" /\ n = job.number)
               \/ (n = q /\ jobs # <<>>) \/ IsPlanned(n)
    BY DEF BudgetInv
  <1>2. plan \in Seq(Entries) /\ need \in Int /\ StagingMax \in Nat
    BY ConstTypes DEF Core, ScanInv
  <1>3. IsFiniteSet(P) /\ Cardinality(P) \in Nat /\ Cardinality(P) <= StagingMax
    <2>1. IsFiniteSet(P) /\ Cardinality(P) \in Nat /\ Cardinality(P) <= Len(plan) /\ Len(plan) \in Nat
      BY <1>2, PlanSize
    <2>2. Len(plan) <= StagingMax
      <3>1. plan = <<>> => Len(plan) = 0
        OBVIOUS
      <3> QED BY <1>1, <1>2, <2>1, <3>1
    <2> QED BY <1>2, <2>1, <2>2
  <1>4. /\ A \in SUBSET P /\ B \in SUBSET P /\ C \in SUBSET P /\ D \in SUBSET P
        /\ A \cap B = {} /\ (A \cup B) \cap C = {} /\ ((A \cup B) \cup C) \cap D = {}
    BY DEF ByName
  <1>5. /\ \A w \in objects : \E e \in A : e.id = w
        /\ \A w \in retained : \E e \in B : e.id = w
        /\ \A w \in recovered : \E e \in C : e.id = w
    <2>1. ASSUME NEW w \in objects PROVE \E e \in A : e.id = w
      <3>1. ObjectOf(w) \in P /\ ObjectOf(w).kind = "object" /\ ObjectOf(w).id = w
        BY <1>1 DEF ObjectOf
      <3> QED BY <3>1
    <2>2. ASSUME NEW w \in retained PROVE \E e \in B : e.id = w
      <3>1. RetainedOf(w) \in P /\ RetainedOf(w).kind = "retained" /\ RetainedOf(w).id = w
        BY <1>1 DEF RetainedOf
      <3> QED BY <3>1
    <2>3. ASSUME NEW w \in recovered PROVE \E e \in C : e.id = w
      <3>1. RecoveredOf(w) \in P /\ RecoveredOf(w).kind = "recovered" /\ RecoveredOf(w).id = w
        BY <1>1 DEF RecoveredOf
      <3> QED BY <3>1
    <2> QED BY <2>1, <2>2, <2>3
  <1>6. \A n \in N : \E e \in D : e.id = n
    BY DEF IsPlanned, ToSet
  <1>7. PICK q \in Number : \A n \in W :
            \/ n = seq \/ (step # "idle" /\ n = job.number)
            \/ (n = q /\ jobs # <<>>) \/ n \in N
    BY <1>1, ConstTypes
  <1> DEFINE X == IF working[seq] # NoWindow THEN {seq} ELSE {}
             Y == IF step # "idle" /\ working[job.number] # NoWindow THEN {job.number} ELSE {}
             Z == IF jobs # <<>> THEN {q} ELSE {}
  <1>8. W \subseteq N \cup (X \cup (Y \cup Z))
    <2> SUFFICES ASSUME NEW n \in W PROVE n \in N \cup (X \cup (Y \cup Z))
      OBVIOUS
    <2>1. working[n] # NoWindow
      OBVIOUS
    <2> QED BY <1>7, <2>1
  <1>9. /\ IsFiniteSet(X) /\ Cardinality(X) = One(working[seq] # NoWindow)
        /\ IsFiniteSet(Y) /\ Cardinality(Y) = One(step # "idle" /\ working[job.number] # NoWindow)
        /\ IsFiniteSet(Z) /\ Cardinality(Z) = One(jobs # <<>>)
    BY FS_EmptySet, FS_Singleton DEF One
  <1>10. /\ Cardinality(objects) <= Cardinality(A) /\ Cardinality(retained) <= Cardinality(B)
         /\ Cardinality(recovered) <= Cardinality(C)
         /\ IsFiniteSet(N) /\ Cardinality(N) <= Cardinality(D) /\ Cardinality(N) \in Nat
         /\ Cardinality(A) \in Nat /\ Cardinality(B) \in Nat
         /\ Cardinality(C) \in Nat /\ Cardinality(D) \in Nat
         /\ Cardinality(A) + Cardinality(B) + Cardinality(C) + Cardinality(D) <= Cardinality(P)
    <2> HIDE DEF A, B, C, D, N, P
    <2>1. /\ IsFiniteSet(A) /\ IsFiniteSet(B) /\ IsFiniteSet(C) /\ IsFiniteSet(D)
          /\ Cardinality(A) \in Nat /\ Cardinality(B) \in Nat
          /\ Cardinality(C) \in Nat /\ Cardinality(D) \in Nat
          /\ Cardinality(A) + Cardinality(B) + Cardinality(C) + Cardinality(D) <= Cardinality(P)
      BY <1>3, <1>4, FourKinds
    <2>2. Cardinality(objects) <= Cardinality(A)
      BY <1>5, <2>1, IdCount
    <2>3. Cardinality(retained) <= Cardinality(B)
      BY <1>5, <2>1, IdCount
    <2>4. Cardinality(recovered) <= Cardinality(C)
      BY <1>5, <2>1, IdCount
    <2>5. IsFiniteSet(N) /\ Cardinality(N) <= Cardinality(D) /\ Cardinality(N) \in Nat
      BY <1>6, <2>1, IdCount
    <2> QED BY <2>1, <2>2, <2>3, <2>4, <2>5
  <1>11. Files = Cardinality(W) + Cardinality(recovered) + Cardinality(retained)
                 + Cardinality(objects)
    BY DEF Files
  <1>12. Transient = Cardinality(X) + Cardinality(Y) + Cardinality(Z)
    BY <1>9 DEF Transient
  <1> HIDE DEF A, B, C, D, N, P, W, X, Y, Z
  <1>13. /\ Cardinality(W) <= Cardinality(N) + (Cardinality(X) + (Cardinality(Y) + Cardinality(Z)))
         /\ Cardinality(X) \in Nat /\ Cardinality(Y) \in Nat /\ Cardinality(Z) \in Nat
         /\ Cardinality(W) \in Nat
    <2>1. /\ IsFiniteSet(Y \cup Z) /\ Cardinality(Y \cup Z) <= Cardinality(Y) + Cardinality(Z)
          /\ Cardinality(Y) \in Nat /\ Cardinality(Z) \in Nat /\ Cardinality(Y \cup Z) \in Nat
      BY <1>9, UnionAtMost
    <2>2. /\ IsFiniteSet(X \cup (Y \cup Z))
          /\ Cardinality(X \cup (Y \cup Z)) <= Cardinality(X) + Cardinality(Y \cup Z)
          /\ Cardinality(X) \in Nat /\ Cardinality(X \cup (Y \cup Z)) \in Nat
      BY <1>9, <2>1, UnionAtMost
    <2>3. /\ IsFiniteSet(N \cup (X \cup (Y \cup Z)))
          /\ Cardinality(N \cup (X \cup (Y \cup Z))) <= Cardinality(N) + Cardinality(X \cup (Y \cup Z))
          /\ Cardinality(N \cup (X \cup (Y \cup Z))) \in Nat
      BY <1>10, <2>2, UnionAtMost
    <2>4. IsFiniteSet(W) /\ Cardinality(W) <= Cardinality(N \cup (X \cup (Y \cup Z)))
      BY <1>8, <2>3, FS_Subset
    <2>5. Cardinality(W) \in Nat
      BY <2>4, FS_CardinalityType
    <2>6. PICK a, b, c, d, x, y, z, w :
             /\ a = Cardinality(Y \cup Z) /\ b = Cardinality(X \cup (Y \cup Z))
             /\ c = Cardinality(N \cup (X \cup (Y \cup Z))) /\ d = Cardinality(N)
             /\ x = Cardinality(X) /\ y = Cardinality(Y) /\ z = Cardinality(Z)
             /\ w = Cardinality(W)
      OBVIOUS
    <2>7. /\ a \in Nat /\ b \in Nat /\ c \in Nat /\ d \in Nat
          /\ x \in Nat /\ y \in Nat /\ z \in Nat /\ w \in Nat
          /\ a <= y + z /\ b <= x + a /\ c <= d + b /\ w <= c
      BY <1>10, <2>1, <2>2, <2>3, <2>4, <2>5, <2>6
    <2>8. w <= d + (x + (y + z))
      BY <2>7
    <2> QED BY <2>6, <2>7, <2>8
  <1>14. Cardinality(recovered) \in Nat /\ Cardinality(retained) \in Nat /\ Cardinality(objects) \in Nat
    BY DiskFinite
  <1>15. PICK a, b, c, d, n, p, w, x, y, z, r, t, o :
             /\ a = Cardinality(A) /\ b = Cardinality(B) /\ c = Cardinality(C)
             /\ d = Cardinality(D) /\ n = Cardinality(N) /\ p = Cardinality(P)
             /\ w = Cardinality(W) /\ x = Cardinality(X) /\ y = Cardinality(Y)
             /\ z = Cardinality(Z) /\ r = Cardinality(recovered) /\ t = Cardinality(retained)
             /\ o = Cardinality(objects)
    OBVIOUS
  <1>16. /\ a \in Nat /\ b \in Nat /\ c \in Nat /\ d \in Nat /\ n \in Nat /\ p \in Nat /\ w \in Nat
         /\ x \in Nat /\ y \in Nat /\ z \in Nat /\ r \in Nat /\ t \in Nat /\ o \in Nat
         /\ StagingMax \in Nat
         /\ o <= a /\ t <= b /\ r <= c /\ n <= d /\ a + b + c + d <= p /\ p <= StagingMax
         /\ w <= n + (x + (y + z))
    BY <1>2, <1>3, <1>10, <1>13, <1>14, <1>15
  <1>17. w + r + t + o <= StagingMax + (x + y + z)
    BY <1>16
  <1> QED BY <1>11, <1>12, <1>15, <1>17

LEMMA BudgetNext ==
    ASSUME Core, Core', BudgetInv, [Next]_vars PROVE BudgetInv'
  <1>1. CASE Start
    BY <1>1 DEF BudgetInv, IsPlanned, Files, Transient, Start, Adopted, Fault, writerVars,
           passVars
  <1>2. CASE Crash
    BY <1>2 DEF BudgetInv, IsPlanned, Files, Transient, Crash, NoJob, diskVars
  <1>3. CASE OpenSegment
    BY <1>3 DEF BudgetInv, IsPlanned, Files, Transient, OpenSegment, NameFreed, Fault,
           publishVars, passVars
  <1>4. CASE Abandon
    BY <1>4 DEF BudgetInv, IsPlanned, Files, Transient, Abandon, Preserve, Fault,
           publishVars, passVars
  <1>5. CASE Rotate
    BY <1>5 DEF BudgetInv, IsPlanned, Files, Transient, Rotate, Spent, diskVars, passVars
  <1>6. CASE CloseFails
    BY <1>6 DEF BudgetInv, IsPlanned, Files, Transient, CloseFails, Spent, Preserve,
           Fault, publishVars, passVars
  <1>7. CASE Sweep
    BY <1>7 DEF BudgetInv, IsPlanned, Files, Transient, Sweep, Recording, diskVars, passVars
  <1>8. CASE Collect
    BY <1>8 DEF BudgetInv, IsPlanned, Files, Transient, Collect, Recording, diskVars,
           passVars
  <1>9. CASE Stop
    BY <1>9 DEF BudgetInv, IsPlanned, Files, Transient, Stop, Recording, diskVars, passVars
  <1>10. CASE FinalPass
    BY <1>10 DEF BudgetInv, IsPlanned, Files, Transient, FinalPass, Recording, Settled,
           diskVars, passVars
  <1>11. CASE ListCompleted
    <2>1. /\ at' = "staging" /\ listed' = {[kind |-> "object", id |-> w, age |-> w] : w \in objects}
          /\ objects' = objects
      BY <1>11 DEF ListCompleted, Pass, diskVars
    <2>2. \A w \in objects' : ObjectOf(w) \in listed'
      BY <2>1 DEF ObjectOf
    <2> QED BY <2>1, <2>2 DEF BudgetInv
  <1>12. CASE ListStaging
    <2> SUFFICES ASSUME still' PROVE BudgetInv'
      BY DEF BudgetInv
    <2>1. /\ at = "staging" /\ at' = "classify" /\ still' = still
          /\ listed' = listed \cup {[kind |-> "retained", id |-> w, age |-> w] : w \in retained}
          /\ residue' = {[kind |-> "recovered", id |-> w, age |-> w] : w \in recovered}
          /\ names' = {n \in Number : working[n] # NoWindow /\ n # seq}
          /\ UNCHANGED <<objects, retained, recovered, working, custody, seq>>
      BY <1>12 DEF ListStaging, Pass, diskVars, writerVars
    <2>2. \A w \in objects : ObjectOf(w) \in listed'
      BY <2>1 DEF BudgetInv
    <2>3. \A w \in retained : RetainedOf(w) \in listed'
      BY <2>1 DEF RetainedOf
    <2>4. (\A w \in recovered : RecoveredOf(w) \in residue') /\ \A e \in residue' : e.kind # "queued"
      BY <2>1 DEF RecoveredOf
    <2>5. \A n \in Number : working[n] # 0 => n = seq \/ n \in names'
      BY <2>1, ConstTypes
    <2> QED BY <2>1, <2>2, <2>3, <2>4, <2>5 DEF BudgetInv
  <1>13. ASSUME NEW n \in Number, Classify(n) PROVE BudgetInv'
    <2> SUFFICES ASSUME still' PROVE BudgetInv'
      BY DEF BudgetInv
    <2>1. /\ at = "classify" /\ at' = "classify" /\ still' = still /\ names' = names \ {n}
          /\ UNCHANGED <<objects, retained, recovered, working, custody, seq, listed>>
      BY <1>13 DEF Classify, Pass, diskVars, writerVars
    <2>2. \/ (custody[n] = "inflight" \/ working[n] = NoWindow) /\ residue' = residue
          \/ /\ custody[n] = "queued"
             /\ residue' = residue \cup {[kind |-> "queued", id |-> n, age |-> n]}
          \/ /\ custody[n] # "queued"
             /\ residue' = residue \cup {[kind |-> "orphan", id |-> n, age |-> working[n]]}
      BY <1>13 DEF Classify
    <2>3. /\ \A w \in objects : ObjectOf(w) \in listed
          /\ \A w \in retained : RetainedOf(w) \in listed
          /\ \A w \in recovered : RecoveredOf(w) \in residue
          /\ \A m \in Number : working[m] # 0 =>
                 \/ m = seq \/ custody[m] = "inflight" \/ m \in names
                 \/ \E e \in residue : e.id = m
                        /\ e.kind = IF custody[m] = "queued" THEN "queued" ELSE "orphan"
          /\ \A e \in residue : e.kind = "queued" => custody[e.id] = "queued"
      BY <2>1 DEF BudgetInv
    <2>4. residue \subseteq residue' /\ \A w \in recovered : RecoveredOf(w) \in residue'
      BY <2>2, <2>3
    <2>5. \A e \in residue' : e.kind = "queued" => custody[e.id] = "queued"
      BY <2>2, <2>3
    <2>6. \/ custody[n] = "inflight" \/ working[n] = 0
          \/ \E e \in residue' : e.id = n
                 /\ e.kind = IF custody[n] = "queued" THEN "queued" ELSE "orphan"
      <3>1. CASE /\ custody[n] = "queued"
                 /\ residue' = residue \cup {[kind |-> "queued", id |-> n, age |-> n]}
        <4>1. PICK e : e = [kind |-> "queued", id |-> n, age |-> n]
          OBVIOUS
        <4>2. e \in residue' /\ e.id = n /\ e.kind = "queued"
          BY <3>1, <4>1
        <4> QED BY <3>1, <4>2
      <3>2. CASE /\ custody[n] # "queued"
                 /\ residue' = residue \cup {[kind |-> "orphan", id |-> n, age |-> working[n]]}
        <4>1. PICK e : e = [kind |-> "orphan", id |-> n, age |-> working[n]]
          OBVIOUS
        <4>2. e \in residue' /\ e.id = n /\ e.kind = "orphan"
          BY <3>2, <4>1
        <4> QED BY <3>2, <4>2
      <3> QED BY <2>2, <3>1, <3>2, ConstTypes
    <2>7. \A m \in Number : working[m] # 0 =>
              \/ m = seq \/ custody[m] = "inflight" \/ m \in names'
              \/ \E e \in residue' : e.id = m
                     /\ e.kind = IF custody[m] = "queued" THEN "queued" ELSE "orphan"
      <3> SUFFICES ASSUME NEW m \in Number, working[m] # 0, m # seq, custody[m] # "inflight",
                          m \notin names'
                   PROVE  \E e \in residue' : e.id = m
                              /\ e.kind = IF custody[m] = "queued" THEN "queued" ELSE "orphan"
        OBVIOUS
      <3>1. CASE m = n
        BY <2>6, <3>1
      <3>2. CASE m # n
        BY <2>1, <2>3, <2>4, <3>2
      <3> QED BY <3>1, <3>2
    <2> QED BY <2>1, <2>3, <2>4, <2>5, <2>7 DEF BudgetInv
  <1>14. CASE PlanEviction
    <2> SUFFICES ASSUME still' PROVE BudgetInv'
      BY DEF BudgetInv
    <2>1. /\ at = "classify" /\ at' = "evict" /\ still' = still /\ names = {}
          /\ plan' = Reachable(listed, residue)
          /\ need' = Len(Reachable(listed, residue)) - StagingMax
          /\ UNCHANGED <<objects, retained, recovered, working, custody, seq, jobs, job, step>>
      BY <1>14 DEF PlanEviction, Pass, diskVars, writerVars, publishVars
    <2>2. PICK o, r, p : o = listed /\ r = residue /\ p = Reachable(o, r)
      OBVIOUS
    <2>3. /\ o \in SUBSET Entries /\ r \in SUBSET Entries /\ IsFiniteSet(o) /\ IsFiniteSet(r)
          /\ \A e \in r : e.kind = "queued" => e.age = e.id
          /\ \A e \in r : ~IsObject(e)
      BY <2>2 DEF Core, ScanInv
    <2>4. Len(p) \in Nat /\ DOMAIN p = 1 .. Len(p) /\ ToSet(p) = o \cup (r \ NewestQueued(r))
      <3>1. /\ o \in SUBSET Entries /\ r \in SUBSET Entries /\ IsFiniteSet(o) /\ IsFiniteSet(r)
            /\ p = Reachable(o, r)
        BY <2>2, <2>3
      <3> QED BY <3>1, ReachableLists
    <2>5. plan' = p /\ need' + StagingMax = Len(p)
      BY <2>1, <2>2, <2>4, ConstTypes
    <2>6. /\ \A w \in objects : ObjectOf(w) \in o
          /\ \A w \in retained : RetainedOf(w) \in o
          /\ \A w \in recovered : RecoveredOf(w) \in r
          /\ \A n \in Number : working[n] # 0 =>
                 \/ n = seq \/ custody[n] = "inflight"
                 \/ \E e \in r : e.id = n
                        /\ e.kind = IF custody[n] = "queued" THEN "queued" ELSE "orphan"
      BY <2>1, <2>2 DEF BudgetInv
    <2>7. \A e \in NewestQueued(r) : e.kind = "queued" /\ e \in r
      BY DEF NewestQueued, Queued
    <2>8. \A w \in recovered : RecoveredOf(w) \in ToSet(p)
      BY <2>4, <2>6, <2>7 DEF RecoveredOf
    <2>9. \E q \in Number : \A e \in NewestQueued(r) : e.id = q
      <3>1. CASE NewestQueued(r) = {}
        BY <3>1, TopPlace
      <3>2. CASE NewestQueued(r) # {}
        <4>1. PICK g : g \in NewestQueued(r)
          BY <3>2
        <4>2. \A e \in NewestQueued(r) : e.id <= g.id /\ g.id <= e.id /\ e.id \in Nat
          <5>1. \A e \in NewestQueued(r) : e.age <= g.age /\ g.age <= e.age
            BY <4>1 DEF NewestQueued
          <5>2. \A e \in NewestQueued(r) : e.age = e.id /\ e.id \in Number
            BY <2>3, <2>7 DEF Entries
          <5> QED BY <4>1, <5>1, <5>2, ConstTypes
        <4>3. g.id \in Number
          BY <2>3, <2>7, <4>1 DEF Entries
        <4> QED BY <4>1, <4>2, <4>3
      <3> QED BY <3>1, <3>2
    <2>10. PICK q \in Number : \A e \in NewestQueued(r) : e.id = q
      BY <2>9
    <2>11. \A n \in Number : custody[n] = "queued" => jobs # <<>>
      BY DEF Core, CustodyInv
    <2>12. \A n \in Number : custody[n] = "inflight" => step # "idle" /\ n = job.number
      BY DEF Core, CustodyInv
    <2>13. \A n \in Number : working[n] # 0 =>
               \/ n = seq \/ (step # "idle" /\ n = job.number) \/ (n = q /\ jobs # <<>>)
               \/ \E i \in DOMAIN p : ByName(p[i]) /\ p[i].id = n
      <3> SUFFICES ASSUME NEW n \in Number, working[n] # 0, n # seq,
                          ~(step # "idle" /\ n = job.number), ~(n = q /\ jobs # <<>>)
                   PROVE  \E i \in DOMAIN p : ByName(p[i]) /\ p[i].id = n
        OBVIOUS
      <3>1. PICK e \in r : e.id = n
                /\ e.kind = IF custody[n] = "queued" THEN "queued" ELSE "orphan"
        BY <2>6, <2>12
      <3>2. e \notin NewestQueued(r)
        BY <2>7, <2>10, <2>11, <3>1
      <3>3. e \in ToSet(p) /\ ByName(e)
        BY <2>4, <3>1, <3>2 DEF ByName
      <3> QED BY <3>1, <3>3 DEF ToSet
    <2>14. /\ \A w \in objects : ObjectOf(w) \in ToSet(p)
           /\ \A w \in retained : RetainedOf(w) \in ToSet(p)
      BY <2>4, <2>6
    <2> QED BY <2>1, <2>5, <2>8, <2>13, <2>14 DEF BudgetInv, IsPlanned
  <1>15. CASE Evict
    <2>1. PICK e : Takes(e)
      BY <1>15, EvictTakes
    <2> SUFFICES ASSUME still' PROVE BudgetInv'
      BY DEF BudgetInv
    <2>2. /\ at = "evict" /\ at' = "evict" /\ UNCHANGED <<custody, seq, jobs, job, step>>
          /\ e = plan[1] /\ DOMAIN plan = 1 .. Len(plan) /\ DOMAIN plan' = 1 .. Len(plan')
          /\ Len(plan') \in Nat /\ Len(plan') + 1 = Len(plan)
          /\ \A i \in DOMAIN plan' : i + 1 \in DOMAIN plan /\ plan'[i] = plan[i + 1]
          /\ recovered' \subseteq recovered /\ retained' \subseteq retained
          /\ objects' \subseteq objects
          /\ \A n \in Number : working'[n] \in {working[n], 0}
      BY <2>1 DEF Takes
    <2>3. /\ need' = need - 1 /\ still
          /\ \/ /\ Spared(e) \/ ~OnDisk(e)
                /\ UNCHANGED <<recovered, retained, objects, working>>
             \/ Unlinked(e)
      BY <2>1 DEF Takes
    <2>4. /\ need + StagingMax = Len(plan)
          /\ \A w \in objects : ObjectOf(w) \in ToSet(plan)
          /\ \A w \in retained : RetainedOf(w) \in ToSet(plan)
          /\ \A w \in recovered : RecoveredOf(w) \in ToSet(plan)
          /\ \E q \in Number : \A n \in Number : working[n] # 0 =>
                 \/ n = seq \/ (step # "idle" /\ n = job.number)
                 \/ (n = q /\ jobs # <<>>) \/ IsPlanned(n)
      BY <2>2, <2>3 DEF BudgetInv
    <2>5. need' + StagingMax = Len(plan')
      BY <2>2, <2>3, <2>4, ConstTypes DEF Core, ScanInv
    <2>6. \A i \in DOMAIN plan : i = 1 \/ \E k \in DOMAIN plan' : plan'[k] = plan[i]
      <3> SUFFICES ASSUME NEW i \in DOMAIN plan, i # 1 PROVE \E k \in DOMAIN plan' : plan'[k] = plan[i]
        OBVIOUS
      <3>1. i - 1 \in DOMAIN plan' /\ i - 1 + 1 = i
        BY <2>2
      <3> QED BY <2>2, <3>1
    <2>7. \A f \in ToSet(plan) : f = e \/ f \in ToSet(plan')
      BY <2>2, <2>6 DEF ToSet
    <2>8. \A w \in objects' : ObjectOf(w) # e
      BY <2>2, <2>3 DEF ObjectOf, Spared, OnDisk, Unlinked
    <2>9. \A w \in retained' : RetainedOf(w) # e
      BY <2>2, <2>3 DEF RetainedOf, Spared, OnDisk, Unlinked
    <2>10. \A w \in recovered' : RecoveredOf(w) # e
      BY <2>2, <2>3 DEF RecoveredOf, Spared, OnDisk, Unlinked
    <2>11. PICK q \in Number : \A n \in Number : working[n] # 0 =>
               \/ n = seq \/ (step # "idle" /\ n = job.number)
               \/ (n = q /\ jobs # <<>>) \/ IsPlanned(n)
      BY <2>4
    <2>12. \A n \in Number : working'[n] # 0 =>
               \/ n = seq \/ (step # "idle" /\ n = job.number)
               \/ (n = q /\ jobs # <<>>) \/ \E i \in DOMAIN plan' : ByName(plan'[i]) /\ plan'[i].id = n
      <3> SUFFICES ASSUME NEW n \in Number, working'[n] # 0, n # seq,
                          ~(step # "idle" /\ n = job.number), ~(n = q /\ jobs # <<>>)
                   PROVE  \E i \in DOMAIN plan' : ByName(plan'[i]) /\ plan'[i].id = n
        OBVIOUS
      <3>1. working[n] # 0
        BY <2>2
      <3>2. PICK i \in DOMAIN plan : ByName(plan[i]) /\ plan[i].id = n
        BY <2>11, <3>1 DEF IsPlanned
      <3>3. i # 1
        <4> SUFFICES ASSUME i = 1 PROVE FALSE
          OBVIOUS
        <4>1. e.id = n /\ e.kind \in {"queued", "orphan"}
          BY <2>2, <3>2 DEF ByName
        <4>2. custody[n] # "inflight"
          BY DEF Core, CustodyInv
        <4>3. OnDisk(e) /\ ~Spared(e)
          BY <3>1, <4>1, <4>2, ConstTypes DEF OnDisk, Spared
        <4>4. working' = [working EXCEPT ![n] = 0]
          BY <2>3, <4>1, <4>3, ConstTypes DEF Unlinked
        <4>5. working'[n] = 0
          BY <4>4 DEF Core, NumberTypes
        <4> QED BY <4>5
      <3> QED BY <2>6, <3>2, <3>3
    <2>13. /\ \A w \in objects' : ObjectOf(w) \in ToSet(plan')
           /\ \A w \in retained' : RetainedOf(w) \in ToSet(plan')
           /\ \A w \in recovered' : RecoveredOf(w) \in ToSet(plan')
      BY <2>2, <2>4, <2>7, <2>8, <2>9, <2>10
    <2> QED BY <2>2, <2>5, <2>12, <2>13 DEF BudgetInv, IsPlanned
  <1>16. CASE EndPass
    <2> SUFFICES ASSUME still' PROVE BudgetInv'
      BY DEF BudgetInv
    <2>1. /\ at = "evict" /\ at' \in {"write", "exited"} /\ still /\ (need <= 0 \/ plan = <<>>)
          /\ UNCHANGED <<objects, retained, recovered, working, seq, step, job, jobs>>
      BY <1>16 DEF EndPass, Pass, diskVars, writerVars, publishVars
    <2>2. Files <= StagingMax + Transient
      BY <2>1, BudgetAtEnd
    <2>3. Files' = Files /\ Transient' = Transient
      BY <2>1 DEF Files, Transient
    <2> QED BY <2>1, <2>2, <2>3 DEF BudgetInv
  <1>17. CASE StartPublication
    BY <1>17 DEF BudgetInv, IsPlanned, Files, Transient, StartPublication, Compressor,
           writerVars, passVars
  <1>18. CASE Seal
    BY <1>18 DEF BudgetInv, IsPlanned, Files, Transient, Seal, Compressor, Fault,
           writerVars, passVars
  <1>19. CASE Land("manifest", "object")
    BY <1>19 DEF BudgetInv, IsPlanned, Files, Transient, Land, Compressor, Lands, Fault,
           writerVars, passVars
  <1>20. CASE Land("object", "source")
    BY <1>20 DEF BudgetInv, IsPlanned, Files, Transient, Land, Compressor, Lands, Fault,
           writerVars, passVars
  <1>21. CASE RemoveSource
    BY <1>21 DEF BudgetInv, IsPlanned, Files, Transient, RemoveSource, Compressor, Fault,
           writerVars, passVars
  <1>22. CASE CleanUp
    BY <1>22 DEF BudgetInv, IsPlanned, Files, Transient, CleanUp, Compressor, Fault,
           writerVars, passVars
  <1>23. CASE Finish
    BY <1>23 DEF BudgetInv, IsPlanned, Files, Transient, Finish, Compressor, Reports,
           NoJob, writerVars, passVars
  <1>24. ASSUME NEW w \in Window, Ship(w) PROVE BudgetInv'
    <2> SUFFICES ASSUME still' PROVE BudgetInv'
      BY DEF BudgetInv
    <2>1. /\ objects' = objects \ {w}
          /\ UNCHANGED <<at, still, retained, recovered, working, custody, seq, step, job, jobs,
                         listed, names, residue, plan, need>>
      BY <1>24 DEF Ship, writerVars, publishVars, passVars
    <2>2. Transient' = Transient /\ ToSet(plan') = ToSet(plan)
      BY <2>1 DEF Transient, ToSet
    <2>3. at \in {"write", "exited"} => Files' <= StagingMax + Transient
      <3>1. Cardinality(objects') <= Cardinality(objects) /\ Cardinality(objects') \in Nat
        BY <2>1, DiskFinite, FS_Subset, FS_CardinalityType
      <3>2. Files' = Cardinality({n \in Number : working[n] # NoWindow}) + Cardinality(recovered)
                     + Cardinality(retained) + Cardinality(objects')
        BY <2>1 DEF Files
      <3>3. at \in {"write", "exited"} => Files <= StagingMax + Transient
        BY <2>1 DEF BudgetInv
      <3>4. Transient \in Nat
        BY DEF Transient, One
      <3>5. Files' <= Files /\ Files \in Nat /\ Files' \in Nat
        BY <3>1, <3>2, DiskFinite DEF Files
      <3> QED BY <3>3, <3>4, <3>5, ConstTypes
    <2>4. \A v \in objects' : v \in objects
      BY <2>1
    <2>5. \A n \in Number : IsPlanned(n)' <=> IsPlanned(n)
      BY <2>1 DEF IsPlanned
    <2>6. at' = "classify" =>
               /\ (\A v \in retained : RetainedOf(v) \in listed)'
               /\ (\A v \in recovered : RecoveredOf(v) \in residue)'
               /\ (\A n \in Number : working[n] # 0 =>
                      \/ n = seq \/ custody[n] = "inflight" \/ n \in names
                      \/ \E e \in residue : e.id = n
                             /\ e.kind = IF custody[n] = "queued" THEN "queued" ELSE "orphan")'
               /\ (\A e \in residue : e.kind = "queued" => custody[e.id] = "queued")'
      BY <2>1 DEF BudgetInv
    <2>7. at' = "evict" =>
               /\ (need + StagingMax = Len(plan))'
               /\ (\A v \in objects : ObjectOf(v) \in ToSet(plan))'
               /\ (\A v \in retained : RetainedOf(v) \in ToSet(plan))'
               /\ (\A v \in recovered : RecoveredOf(v) \in ToSet(plan))'
               /\ (\E q \in Number : \A n \in Number : working[n] # 0 =>
                      \/ n = seq \/ (step # "idle" /\ n = job.number)
                      \/ (n = q /\ jobs # <<>>) \/ IsPlanned(n))'
      BY <2>1, <2>2, <2>4, <2>5 DEF BudgetInv
    <2>8. at' \in {"staging", "classify"} => \A v \in objects' : ObjectOf(v) \in listed'
      BY <2>1, <2>4 DEF BudgetInv
    <2> QED BY <2>1, <2>2, <2>3, <2>6, <2>7, <2>8 DEF BudgetInv
  <1>25. CASE UNCHANGED vars
    BY <1>25 DEF BudgetInv, IsPlanned, Files, Transient, vars, writerVars, diskVars,
           publishVars, passVars
  <1> QED BY <1>1, <1>2, <1>3, <1>4, <1>5, <1>6, <1>7, <1>8, <1>9, <1>10, <1>11, <1>12,
         <1>13, <1>14, <1>15, <1>16, <1>17, <1>18, <1>19, <1>20, <1>21, <1>22, <1>23,
         <1>24, <1>25
         DEF Next, Write, RotateAt, RetentionPass, Publish
-----------------------------------------------------------------------------
(* The invariant as a whole.                                               *)

LEMMA NextCore ==
    ASSUME Core, [Next]_vars
    PROVE  Core'
  <1>1. CASE Start
    BY <1>1, StartCore
  <1>2. CASE Crash
    BY <1>2, CrashCore
  <1>3. CASE OpenSegment
    BY <1>3, OpenSegmentCore
  <1>4. CASE Abandon
    BY <1>4, AbandonCore
  <1>5. CASE Rotate
    BY <1>5, RotateCore
  <1>6. CASE CloseFails
    BY <1>6, CloseFailsCore
  <1>7. CASE Sweep
    BY <1>7, SweepCore
  <1>8. CASE Collect
    BY <1>8, CollectCore
  <1>9. CASE Stop
    BY <1>9, StopCore
  <1>10. CASE FinalPass
    BY <1>10, FinalPassCore
  <1>11. CASE ListCompleted
    BY <1>11, ListCompletedCore
  <1>12. CASE ListStaging
    BY <1>12, ListStagingCore
  <1>13. ASSUME NEW n \in Number, Classify(n) PROVE Core'
    BY <1>13, ClassifyCore
  <1>14. CASE PlanEviction
    BY <1>14, PlanEvictionCore
  <1>15. CASE Evict
    BY <1>15, EvictCore
  <1>16. CASE EndPass
    BY <1>16, EndPassCore
  <1>17. CASE StartPublication
    BY <1>17, StartPublicationCore
  <1>18. CASE Seal
    BY <1>18, SealCore
  <1>19. CASE Land("manifest", "object")
    BY <1>19, LandManifestCore
  <1>20. CASE Land("object", "source")
    BY <1>20, LandObjectCore
  <1>21. CASE RemoveSource
    BY <1>21, RemoveSourceCore
  <1>22. CASE CleanUp
    BY <1>22, CleanUpCore
  <1>23. CASE Finish
    BY <1>23, FinishCore
  <1>24. ASSUME NEW w \in Window, Ship(w) PROVE Core'
    BY <1>24, ShipCore
  <1>25. CASE UNCHANGED vars
    <2>1. UNCHANGED Core
      BY <1>25
         DEF vars, writerVars, diskVars, publishVars, passVars, Core, Types, NumberTypes,
             JobTypes,
             DiskTypes, IdleInv, QueueInv, CustodyInv, WorkingInv, ScanInv, Top
    <2> QED BY <2>1
  <1> QED BY <1>1, <1>2, <1>3, <1>4, <1>5, <1>6, <1>7, <1>8, <1>9, <1>10, <1>11, <1>12,
         <1>13, <1>14, <1>15, <1>16, <1>17, <1>18, <1>19, <1>20, <1>21, <1>22, <1>23,
         <1>24, <1>25
         DEF Next, Write, RotateAt, RetentionPass, Publish

LEMMA InitArchive == Init => ArchiveInv
  <1> SUFFICES ASSUME Init PROVE ArchiveInv
    OBVIOUS
  <1>1. Core
    BY InitCore
  <1>2. /\ open = 0 /\ jobs = <<>> /\ DOMAIN jobs = {} /\ plan = <<>> /\ DOMAIN plan = {}
        /\ kept = 0 /\ floor = 0 /\ seq = 0 /\ next = 1 /\ at = "down" /\ step = "idle"
        /\ listed = {} /\ still = FALSE /\ recovered = {} /\ retained = {} /\ objects = {}
        /\ shipped = {} /\ manifests = {} /\ number = [w \in {} |-> 0] /\ DOMAIN number = {}
    BY ConstTypes DEF Init
  <1>3. PlaceInv
    BY <1>2 DEF PlaceInv, Fresh
  <1>4. NumberInv
    <2>1. 0 .. 0 - 1 = {}
      OBVIOUS
    <2>2. {number[w] : w \in DOMAIN number \ {open}} = 0 .. seq - 1
      BY <1>2, <2>1
    <2>3. number \in [DOMAIN number -> Nat]
      BY <1>2
    <2> QED BY <1>2, <2>2, <2>3 DEF NumberInv
  <1>5. NothingVanishes
    <2>1. 1 .. next - 1 = {}
      BY <1>2
    <2> QED BY <2>1 DEF NothingVanishes
  <1>6. ReportInv
    BY <1>2 DEF ReportInv
  <1>7. FloorInv
    BY <1>2, TopPlace, <1>1 DEF FloorInv, FloorIsOldest
  <1>8. BudgetInv
    BY <1>2 DEF BudgetInv
  <1> QED BY <1>1, <1>3, <1>4, <1>5, <1>6, <1>7, <1>8 DEF ArchiveInv

LEMMA NextArchive ==
    ASSUME ArchiveInv, [Next]_vars
    PROVE  ArchiveInv'
  <1>1. Core /\ PlaceInv /\ NumberInv /\ NothingVanishes /\ ReportInv /\ FloorInv /\ BudgetInv
    BY DEF ArchiveInv
  <1>2. Core'
    BY <1>1, NextCore
  <1>3. PlaceInv'
    BY <1>1, <1>2, PlaceNext
  <1>4. NumberInv'
    BY <1>1, NumberNext
  <1>5. NothingVanishes'
    BY <1>1, <1>2, GoneNext
  <1>6. ReportInv'
    BY <1>1, <1>2, ReportNext
  <1>7. FloorInv'
    BY <1>1, <1>2, <1>3, FloorNext
  <1>8. BudgetInv'
    BY <1>1, <1>2, BudgetNext
  <1> QED BY <1>2, <1>3, <1>4, <1>5, <1>6, <1>7, <1>8 DEF ArchiveInv

-----------------------------------------------------------------------------
(* What follows from it.                                                   *)

(* A file has one name, so what is counted by names is counted by windows. *)
LEMMA FilesAreWindows ==
    ASSUME Core, PlaceInv
    PROVE  Files = Cardinality(InStaging) + Cardinality(objects)
  <1> DEFINE W == {n \in Number : working[n] # NoWindow}
             V == {working[n] : n \in Number} \ {NoWindow}
             f == [n \in W |-> working[n]]
  <1>1. f \in Surjection(W, V)
    BY DEF Surjection
  <1>2. f \in Injection(W, V)
    <2>1. f \in [W -> V]
      BY <1>1 DEF Surjection
    <2>2. \A m, n \in W : f[m] = f[n] => m = n
      BY ConstTypes DEF Core, WorkingInv
    <2> HIDE DEF f, W, V
    <2> QED BY <2>1, <2>2 DEF Injection, IsInjective
  <1>3. Files = Cardinality(W) + Cardinality(recovered) + Cardinality(retained)
                + Cardinality(objects)
    BY DEF Files
  <1>4. InStaging = (V \cup recovered) \cup retained
    BY DEF InStaging
  <1>5. V \cap recovered = {} /\ (V \cup recovered) \cap retained = {}
    BY DEF PlaceInv
  <1>6. IsFiniteSet(W) /\ Cardinality(W) \in Nat
    BY DiskFinite
  <1> HIDE DEF W, V, f
  <1>7. IsFiniteSet(V) /\ Cardinality(V) = Cardinality(W)
    BY <1>1, <1>2, <1>6, FS_Surjection
  <1>8. /\ IsFiniteSet(recovered) /\ IsFiniteSet(retained)
        /\ Cardinality(recovered) \in Nat /\ Cardinality(retained) \in Nat
        /\ Cardinality(objects) \in Nat
    BY DiskFinite
  <1>9. /\ IsFiniteSet(V \cup recovered)
        /\ Cardinality(V \cup recovered) = Cardinality(V) + Cardinality(recovered)
    BY <1>5, <1>7, <1>8, UnionAtMost
  <1>10. Cardinality((V \cup recovered) \cup retained)
             = Cardinality(V \cup recovered) + Cardinality(retained)
    BY <1>5, <1>8, <1>9, UnionAtMost
  <1> QED BY <1>3, <1>4, <1>6, <1>7, <1>8, <1>9, <1>10

LEMMA ArchiveTypes ==
    ASSUME Core, PlaceInv, FloorInv
    PROVE  ArchTypeOK
  <1>1. /\ at \in {"down", "write", "list", "staging", "classify", "evict", "exited"}
        /\ stop \in {"no", "settle", "final"}
        /\ next \in 1 .. NumWindows + 1 /\ seq \in Number
        /\ custody \in [Number -> {"none", "queued", "inflight"}]
    BY TopPlace DEF Core, Types, NumberTypes, JobTypes
  <1>2. /\ open \in Window \cup {NoWindow} /\ floor \in Window \cup {NoWindow}
        /\ working \in [Number -> Window \cup {NoWindow}]
    <2>1. open \in Number /\ floor \in Number /\ working \in [Number -> Number]
      BY DEF Core, NumberTypes, FloorInv
    <2>2. Number = Window \cup {NoWindow}
      BY ConstTypes
    <2> QED BY <2>1, <2>2
  <1>3. \A S \in {recovered, retained, temps, objects, manifests, shipped, given, truncated} :
            S \subseteq 1 .. next - 1
    BY DEF Core, DiskTypes
  <1>4. outstanding = Len(jobs) + done + IF step = "idle" THEN 0 ELSE 1
    <2>1. Len(jobs) \in Nat /\ done \in Nat
      BY JobsPlace DEF Core, JobTypes
    <2> QED BY <2>1 DEF Core, JobTypes
  <1>5. need \in Int /\ Len(plan) <= need + StagingMax
    BY DEF Core, ScanInv
  <1> QED BY <1>1, <1>2, <1>3, <1>4, <1>5, FilesAreWindows DEF ArchTypeOK

LEMMA NumbersLeaveGaps ==
    ASSUME NumberInv
    PROVE  LostLeavesGap
  BY DEF NumberInv, LostLeavesGap

LEMMA ExitLosesNothing ==
    ASSUME Core, NumberInv, ReportInv
    PROVE  ShutdownLosesNothing
  <1> SUFFICES ASSUME at = "exited", faults = 0, NEW w \in DOMAIN number
               PROVE  w \in objects \cup shipped \cup given
    BY DEF ShutdownLosesNothing
  <1>1. open = 0 /\ jobs = <<>> /\ step = "idle"
    BY DEF Core, IdleInv
  <1>2. DOMAIN jobs = {}
    BY <1>1
  <1>3. w # 0
    BY TopPlace DEF NumberInv
  <1> QED BY <1>1, <1>2, <1>3 DEF ReportInv, Gone

LEMMA InUse ==
    ASSUME Core
    PROVE  InUseIsLeftAlone
  BY ConstTypes DEF Core, WorkingInv, InUseIsLeftAlone

LEMMA ArchiveImplies ==
    ASSUME ArchiveInv
    PROVE  WindowsAccounted /\ InUseIsLeftAlone /\ ObjectHasManifest /\ BudgetIsMet /\ FloorIsOldest
  <1>1. Core /\ PlaceInv /\ NumberInv /\ NothingVanishes /\ ReportInv /\ FloorInv /\ BudgetInv
    BY DEF ArchiveInv
  <1>2. WindowsAccounted
    BY <1>1, ArchiveTypes, NumbersLeaveGaps, ExitLosesNothing DEF WindowsAccounted
  <1>3. InUseIsLeftAlone
    BY <1>1, InUse
  <1>4. ObjectHasManifest
    BY <1>1 DEF PlaceInv, ObjectHasManifest
  <1>5. BudgetIsMet
    BY <1>1 DEF BudgetInv, BudgetIsMet
  <1>6. FloorIsOldest
    BY <1>1 DEF FloorInv
  <1> QED BY <1>2, <1>3, <1>4, <1>5, <1>6

-----------------------------------------------------------------------------
(* The theorems.                                                           *)

LEMMA ArchiveAlways == Spec => []ArchiveInv
  <1>1. ArchiveInv /\ [Next]_vars => ArchiveInv'
    BY NextArchive
  <1> QED BY <1>1, InitArchive, PTL DEF Spec

(* Whatever fails, and whenever the process dies, every window the write   *)
(* path opened is on the disk under one name, landed, counted as evicted,  *)
(* or truncated where a rename failed; within a run each spent number is   *)
(* one window's, so what did not land leaves a gap (rotate.rs, rotate_at); *)
(* and a run stopped without a fault leaves nothing unlanded and           *)
(* uncounted (settle_archive).                                             *)
THEOREM ArchiveWindowsAccounted == Spec => []WindowsAccounted
  <1>1. ArchiveInv => WindowsAccounted
    BY ArchiveImplies
  <1> QED BY <1>1, ArchiveAlways, PTL

(* Retention takes neither the open segment nor, however stale its scan,   *)
(* the one the compressor is reading: remove_unless_in_flight asks for the *)
(* custody and unlinks under one lock.                                     *)
THEOREM ArchiveInUseIsLeftAlone == Spec => []InUseIsLeftAlone
  <1>1. ArchiveInv => InUseIsLeftAlone
    BY ArchiveImplies
  <1> QED BY <1>1, ArchiveAlways, PTL

(* In the completed directory an object never stands without its manifest, *)
(* through landings, clean-ups that fail, evictions and crashes (publish   *)
(* moves the manifest first, clean_up runs only before the object landed). *)
THEOREM ArchiveObjectHasManifest == Spec => []ObjectHasManifest
  <1>1. ArchiveInv => ObjectHasManifest
    BY ArchiveImplies
  <1> QED BY <1>1, ArchiveAlways, PTL

(* A pass under which only the shipper moved files leaves the budget and   *)
(* at most the open segment, the one being published and the newest of the *)
(* queue, however long the queue is (StagingWatermark::enforce).           *)
THEOREM ArchiveBudgetIsMet == Spec => []BudgetIsMet
  <1>1. ArchiveInv => BudgetIsMet
    BY ArchiveImplies
  <1> QED BY <1>1, ArchiveAlways, PTL

(* After a pass no object it saw on the disk is older than the floor it    *)
(* reports, removals that failed included, and the floor names an object   *)
(* that was there (retained_floor_ns).                                     *)
THEOREM ArchiveFloorIsOldest == Spec => []FloorIsOldest
  <1>1. ArchiveInv => FloorIsOldest
    BY ArchiveImplies
  <1> QED BY <1>1, ArchiveAlways, PTL
=============================================================================
