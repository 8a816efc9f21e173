----------------------- MODULE InstrumentRegistryProofs -----------------------
(***************************************************************************)
(* Proofs about the reference-data registry, for every finite set of       *)
(* symbols, ID space, clock rate and horizon.                              *)
(*                                                                         *)
(* The inductive invariant is about a record, the one on disk or one a     *)
(* crash may leave there: it is Good when every entry holds an ID that may *)
(* still be published for its symbol, and every missing entry belongs to a *)
(* symbol that may be forgotten.  Memory is Synced with it until a write   *)
(* fails, and from then on only the record counts.                         *)
(***************************************************************************)
EXTENDS InstrumentRegistry, FiniteSetTheorems, TLAPS

(* At time t, with T the last publication of each symbol, U the IDs used   *)
(* and P the symbols published:                                            *)

(* s has been unpublished for the horizon, or never was published.         *)
Gone(s, T, t) == T[s] = Absent \/ t >= T[s].at + Horizon * Second

(* s may be published under i, which is what InstrumentIdentity asks.      *)
May(s, i, T, U, t) ==
    \/ T[s] # Absent /\ T[s].id = i
    \/ i \notin U /\ Gone(s, T, t)

(* The second `last' is not before the last publication of s.              *)
Covered(s, last, T, t) == Gone(s, T, t) \/ last * Second >= T[s].at

Good(f, T, U, P, t) ==
    /\ f \in RecordType
    /\ \A s \in Symbol : f.entry[s] = Absent => Gone(s, T, t)
    /\ \A s \in Symbol : f.entry[s] # Absent =>
          /\ f.entry[s].id < f.next
          /\ May(s, f.entry[s].id, T, U, t)
          /\ f.entry[s].at # Listed => Covered(s, f.entry[s].at, T, t)
    /\ \A s, u \in Symbol :
          (f.entry[s] # Absent /\ f.entry[u] # Absent /\ f.entry[s].id = f.entry[u].id)
             => s = u
    /\ \A i \in U : i < f.next
    /\ \A s \in P : T[s] # Absent /\ f.entry[s] = [id |-> T[s].id, at |-> Listed]

(* Memory m, with next ID n, says of every symbol what the record says.    *)
Synced(f, m, n, T, P, t) ==
    /\ ~f.torn /\ f.next = n
    /\ \A s \in Symbol : m[s] = Absent <=> f.entry[s] = Absent
    /\ \A s \in Symbol : m[s] # Absent =>
          /\ m[s].id = f.entry[s].id
          /\ m[s].recorded => f.entry[s].at = Listed
          /\ s \notin P => Covered(s, m[s].last, T, t)

ToldType == [id : Id, at : 0 .. MaxNow] \cup {Absent}

TimeInv ==
    /\ told \in [Symbol -> ToldType]
    /\ \A s \in Symbol : told[s] # Absent => told[s].at <= now
    /\ phase = "down" => published = {}
    /\ \A s \in published : minted[s] # Absent

RecordInv ==
    /\ file # Damaged
    /\ file = NoRecord =>
          /\ told = [s \in Symbol |-> Absent] /\ used = {} /\ published = {}
          /\ ~fault => minted = [s \in Symbol |-> Absent] /\ next = 1
    /\ file # NoRecord => Good(file, told, used, published, now)
    /\ (phase # "down" /\ ~fault /\ file # NoRecord) =>
          Synced(file, minted, next, told, published, now)

RegistryInv == RegistryTypeOK /\ TimeInv /\ RecordInv
-----------------------------------------------------------------------------
LEMMA NotAbsent ==
    /\ \A e \in [id : Id, at : Second0 \cup {Listed}] : e # Absent
    /\ \A e \in [id : Id, recorded : BOOLEAN, last : Second0] : e # Absent
    /\ \A e \in [id : Id, at : 0 .. MaxNow] : e # Absent
  <1>1. Second0 \subseteq Nat /\ 0 .. MaxNow \subseteq Nat
    BY RegistryAssumption DEF Second0
  <1>2. /\ [id : Id, at : Second0 \cup {Listed}] \subseteq [id : Id, at : Nat \cup {Listed}]
        /\ [id : Id, recorded : BOOLEAN, last : Second0]
               \subseteq [id : Id, recorded : BOOLEAN, last : Nat]
        /\ [id : Id, at : 0 .. MaxNow] \subseteq [id : Id, at : Nat \cup {Listed}]
    BY <1>1
  <1> QED BY <1>2, SentinelAssumption

(* A second rounded down is not after the clock, a second rounded up not   *)
(* before it.                                                              *)
LEMMA Rounding ==
    ASSUME now \in 0 .. MaxNow
    PROVE  /\ NowS \in Nat /\ NowS * Second <= now
           /\ StampS \in Second0 /\ StampS * Second >= now
  <1>1. \A d \in Nat \ {0}, x \in Nat :
            x \div d \in Nat /\ d * (x \div d) <= x /\ x < d * (x \div d) + d
    OBVIOUS
  <1>2. \A q \in Nat, d \in Nat \ {0} : d * q = q * d /\ q <= d * q
    OBVIOUS
  <1>3. now \in Nat /\ now <= MaxNow /\ now + Second - 1 \in Nat /\ MaxNow \in Nat
        /\ Second \in Nat \ {0}
    BY RegistryAssumption
  <1>4. NowS \in Nat /\ NowS * Second <= now
    <2>1. NowS \in Nat /\ Second * NowS <= now
      BY <1>1, <1>3 DEF NowS
    <2> QED BY <1>2, <1>3, <2>1
  <1>5. StampS \in Nat /\ Second * StampS <= now + Second - 1
        /\ now + Second - 1 < Second * StampS + Second
    BY <1>1, <1>3 DEF StampS
  <1>6. StampS * Second = Second * StampS /\ StampS <= Second * StampS
        /\ Second * StampS \in Nat
    BY <1>2, <1>3, <1>5
  <1>7. StampS \in Second0 /\ StampS * Second >= now
    BY <1>3, <1>5, <1>6 DEF Second0
  <1> QED BY <1>4, <1>7

(* What the registry forgets has been unpublished for the horizon.         *)
LEMMA ForgetGone ==
    ASSUME now \in 0 .. MaxNow, NEW T \in [Symbol -> ToldType], NEW s \in Symbol,
           NEW x \in Nat, Covered(s, x, T, now), NowS >= x + Horizon
    PROVE  Gone(s, T, now)
  <1> SUFFICES ASSUME T[s] # Absent, x * Second >= T[s].at
               PROVE  now >= T[s].at + Horizon * Second
    BY DEF Covered, Gone
  <1>1. T[s].at \in Nat
    BY RegistryAssumption DEF ToldType
  <1>2. NowS \in Nat /\ NowS * Second <= now /\ now \in Nat
        /\ Second \in Nat /\ Horizon \in Nat
    BY Rounding, RegistryAssumption
  <1>3. \A q, y, h, d \in Nat : q >= y + h => q * d >= y * d + h * d
    <2> SUFFICES ASSUME NEW q \in Nat, NEW y \in Nat, NEW h \in Nat, NEW d \in Nat,
                        q >= y + h
                 PROVE  q * d >= y * d + h * d
      OBVIOUS
    <2>1. q - (y + h) \in Nat /\ (q - (y + h)) * d \in Nat
      OBVIOUS
    <2>2. (q - (y + h)) * d = q * d - (y * d + h * d)
      OBVIOUS
    <2> QED BY <2>1, <2>2
  <1>4. NowS * Second >= x * Second + Horizon * Second
    BY <1>2, <1>3
  <1>5. NowS * Second \in Nat /\ x * Second \in Nat /\ Horizon * Second \in Nat
    BY <1>2
  <1> QED BY <1>1, <1>2, <1>4, <1>5
-----------------------------------------------------------------------------
(* A base written from memory that agrees with a good record is good, and  *)
(* what stays in memory agrees with it.                                    *)
Kept(m, base, live, ph) ==
    [s \in Symbol |-> IF base.entry[s] = Absent THEN Absent
                      ELSE [m[s] EXCEPT !.recorded = StillListed(m, live, ph, s)]]

LEMMA BaseGood ==
    ASSUME now \in 0 .. MaxNow, NEW f, NEW m \in [Symbol -> MintedType], NEW n \in Id,
           NEW T \in [Symbol -> ToldType], NEW U, NEW P \in SUBSET Symbol, NEW ph,
           NEW old \in SUBSET Forgettable(m, P),
           Good(f, T, U, P, now), Synced(f, m, n, T, P, now)
    PROVE  LET base == Base(m, P, ph, old, n)
           IN  /\ Good(base, T, U, P, now)
               /\ Synced(base, Kept(m, base, P, ph), n, T, P, now)
               /\ Kept(m, base, P, ph) \in [Symbol -> MintedType]
               /\ base.base \in Nat
  <1> DEFINE base == Base(m, P, ph, old, n)
             kept == {s \in Symbol \ old : m[s] # Absent}
             k == Kept(m, base, P, ph)
  <1>1. base.base \in Nat /\ base.base = Cardinality(kept)
    <2>1. IsFiniteSet(kept)
      BY RegistryAssumption, FS_Subset
    <2> QED BY <2>1, FS_CardinalityType DEF Base
  <1>2. \A s \in Symbol : m[s] # Absent =>
            /\ m[s] \in [id : Id, recorded : BOOLEAN, last : Second0]
            /\ f.entry[s] # Absent /\ m[s].id = f.entry[s].id
            /\ f.entry[s].id < f.next /\ May(s, m[s].id, T, U, now)
            /\ StillListed(m, P, ph, s) \in BOOLEAN
            /\ ~StillListed(m, P, ph, s) => Covered(s, m[s].last, T, now)
    BY DEF MintedType, Good, Synced, StillListed
  <1>3. \A s \in Symbol :
            /\ s \notin kept => base.entry[s] = Absent
            /\ s \in kept =>
                 /\ m[s] # Absent
                 /\ base.entry[s] \in [id : Id, at : Second0 \cup {Listed}]
                 /\ base.entry[s] # Absent
                 /\ base.entry[s].id = m[s].id
                 /\ StillListed(m, P, ph, s) => base.entry[s].at = Listed
                 /\ ~StillListed(m, P, ph, s) => base.entry[s].at = m[s].last
    <2>1. base.entry = [s \in Symbol |->
                           IF s \notin kept THEN Absent
                           ELSE [id |-> m[s].id,
                                 at |-> IF StillListed(m, P, ph, s) THEN Listed
                                        ELSE m[s].last]]
      BY DEF Base
    <2>2. \A s \in kept : m[s] # Absent
      OBVIOUS
    <2> HIDE DEF base, kept
    <2> SUFFICES ASSUME NEW s \in Symbol
                 PROVE /\ s \notin kept => base.entry[s] = Absent
                       /\ s \in kept =>
                            /\ base.entry[s] \in [id : Id, at : Second0 \cup {Listed}]
                            /\ base.entry[s].id = m[s].id
                            /\ StillListed(m, P, ph, s) => base.entry[s].at = Listed
                            /\ ~StillListed(m, P, ph, s) => base.entry[s].at = m[s].last
      BY <2>2, NotAbsent
    <2> QED BY <1>2, <2>1, <2>2
  <1>4. base \in RecordType /\ base.next = n /\ ~base.torn
    <2>1. base.entry \in [Symbol -> EntryType]
      <3>1. base.entry = [s \in Symbol |-> base.entry[s]]
        BY DEF Base
      <3>2. \A s \in Symbol : base.entry[s] \in EntryType
        BY <1>3 DEF EntryType
      <3> QED BY <3>1, <3>2
    <2>2. base = [entry |-> base.entry, next |-> n, base |-> base.base, lines |-> 0,
                  torn |-> FALSE]
      BY DEF Base
    <2>3. base.next = n /\ ~base.torn
      BY DEF Base
    <2> DEFINE e == base.entry
               c == base.base
    <2>4. e \in [Symbol -> EntryType] /\ c \in Nat
          /\ base = [entry |-> e, next |-> n, base |-> c, lines |-> 0, torn |-> FALSE]
      BY <1>1, <2>1, <2>2
    <2> HIDE DEF base, e, c
    <2>5. base \in RecordType
      BY <2>4 DEF RecordType
    <2> QED BY <2>3, <2>5
  <1>5. \A s \in old : Gone(s, T, now)
    <2> SUFFICES ASSUME NEW s \in old PROVE Gone(s, T, now)
      OBVIOUS
    <2>1. s \in Symbol /\ s \notin P /\ m[s] # Absent /\ NowS >= m[s].last + Horizon
      BY DEF Forgettable
    <2>2. m[s].last \in Nat /\ Covered(s, m[s].last, T, now)
      BY <1>2, <2>1, RegistryAssumption DEF Synced, Second0
    <2> QED BY <2>1, <2>2, ForgetGone
  <1>6. \A s \in P : s \in kept /\ m[s].id = T[s].id /\ T[s] # Absent
                     /\ StillListed(m, P, ph, s)
    <2> SUFFICES ASSUME NEW s \in P
                 PROVE  s \in kept /\ m[s].id = T[s].id /\ T[s] # Absent
                        /\ StillListed(m, P, ph, s)
      OBVIOUS
    <2>1. T[s] # Absent /\ f.entry[s] = [id |-> T[s].id, at |-> Listed]
      BY DEF Good
    <2>2. f.entry[s] # Absent
      <3>1. T[s].id \in Id
        BY <2>1 DEF ToldType
      <3> QED BY <2>1, <3>1, NotAbsent
    <2>3. m[s] # Absent
      BY <2>2 DEF Synced
    <2> QED BY <1>2, <2>1, <2>3 DEF Forgettable, StillListed
  <1>7. \A s \in Symbol : k[s] = IF s \notin kept THEN Absent
                                 ELSE [m[s] EXCEPT !.recorded = StillListed(m, P, ph, s)]
    BY <1>3 DEF Kept
  <1>8. \A s \in kept : /\ k[s] \in [id : Id, recorded : BOOLEAN, last : Second0]
                        /\ k[s] # Absent /\ k[s].id = m[s].id /\ k[s].last = m[s].last
                        /\ k[s].recorded = StillListed(m, P, ph, s)
    <2> SUFFICES ASSUME NEW s \in kept
                 PROVE  /\ k[s] \in [id : Id, recorded : BOOLEAN, last : Second0]
                        /\ k[s].id = m[s].id /\ k[s].last = m[s].last
                        /\ k[s].recorded = StillListed(m, P, ph, s)
      BY NotAbsent
    <2> DEFINE b == StillListed(m, P, ph, s)
    <2>1. k[s] = [m[s] EXCEPT !.recorded = b] /\ b \in BOOLEAN
          /\ m[s] \in [id : Id, recorded : BOOLEAN, last : Second0]
      BY <1>2, <1>7
    <2> HIDE DEF b, k
    <2> QED BY <2>1 DEF b
  <1>9. k \in [Symbol -> MintedType]
    <2>1. k = [s \in Symbol |-> k[s]]
      BY DEF Kept
    <2>2. \A s \in Symbol : k[s] \in MintedType
      BY <1>7, <1>8 DEF MintedType
    <2> QED BY <2>1, <2>2
  <1> HIDE DEF base, k, kept
  <1>10. Good(base, T, U, P, now)
    <2>1. \A s \in Symbol : base.entry[s] = Absent => Gone(s, T, now)
      BY <1>3, <1>5 DEF Good, Synced, kept
    <2>2. \A s \in Symbol : base.entry[s] # Absent =>
              /\ base.entry[s].id < base.next
              /\ May(s, base.entry[s].id, T, U, now)
              /\ base.entry[s].at # Listed => Covered(s, base.entry[s].at, T, now)
      <3> SUFFICES ASSUME NEW s \in Symbol, base.entry[s] # Absent
                   PROVE  /\ base.entry[s].id < base.next
                          /\ May(s, base.entry[s].id, T, U, now)
                          /\ base.entry[s].at # Listed =>
                                 Covered(s, base.entry[s].at, T, now)
        OBVIOUS
      <3>1. /\ s \in kept /\ m[s] # Absent /\ base.entry[s].id = m[s].id
            /\ StillListed(m, P, ph, s) => base.entry[s].at = Listed
            /\ ~StillListed(m, P, ph, s) => base.entry[s].at = m[s].last
        BY <1>3
      <3>2. f.next = n
        BY DEF Synced
      <3>3. /\ f.entry[s].id < f.next /\ m[s].id = f.entry[s].id
            /\ May(s, m[s].id, T, U, now)
            /\ ~StillListed(m, P, ph, s) => Covered(s, m[s].last, T, now)
        BY <1>2, <3>1
      <3> QED BY <1>4, <3>1, <3>2, <3>3
    <2>3. \A s, u \in Symbol :
              (base.entry[s] # Absent /\ base.entry[u] # Absent
               /\ base.entry[s].id = base.entry[u].id) => s = u
      <3> SUFFICES ASSUME NEW s \in Symbol, NEW u \in Symbol, base.entry[s] # Absent,
                          base.entry[u] # Absent, base.entry[s].id = base.entry[u].id
                   PROVE  s = u
        OBVIOUS
      <3>1. /\ m[s] # Absent /\ base.entry[s].id = m[s].id
            /\ m[u] # Absent /\ base.entry[u].id = m[u].id
        BY <1>3
      <3>2. /\ f.entry[s] # Absent /\ f.entry[u] # Absent
            /\ f.entry[s].id = f.entry[u].id
        BY <1>2, <3>1
      <3> QED BY <3>2 DEF Good
    <2>4. \A i \in U : i < base.next
      BY <1>4 DEF Good, Synced
    <2>5. \A s \in P : T[s] # Absent /\ base.entry[s] = [id |-> T[s].id, at |-> Listed]
      BY <1>3, <1>6
    <2> QED BY <1>4, <2>1, <2>2, <2>3, <2>4, <2>5 DEF Good
  <1>11. Synced(base, k, n, T, P, now)
    <2>1. \A s \in Symbol : k[s] = Absent <=> base.entry[s] = Absent
      BY <1>3, <1>7, <1>8
    <2>2. \A s \in Symbol : k[s] # Absent =>
              /\ k[s].id = base.entry[s].id
              /\ k[s].recorded => base.entry[s].at = Listed
              /\ s \notin P => Covered(s, k[s].last, T, now)
      <3> SUFFICES ASSUME NEW s \in Symbol, k[s] # Absent
                   PROVE  /\ k[s].id = base.entry[s].id
                          /\ k[s].recorded => base.entry[s].at = Listed
                          /\ s \notin P => Covered(s, k[s].last, T, now)
        OBVIOUS
      <3>1. s \in kept /\ m[s] # Absent
        BY <1>3, <1>7
      <3>2. /\ base.entry[s].id = m[s].id
            /\ StillListed(m, P, ph, s) => base.entry[s].at = Listed
        BY <1>3, <3>1
      <3>3. s \notin P => Covered(s, m[s].last, T, now)
        BY <3>1 DEF Synced
      <3> QED BY <1>8, <3>1, <3>2, <3>3
    <2> QED BY <1>4, <2>1, <2>2 DEF Synced
  <1> QED BY <1>1, <1>9, <1>10, <1>11 DEF base, k
-----------------------------------------------------------------------------
(* The empty record is a good one of a publisher that published nothing.   *)
LEMMA EmptyGood ==
    ASSUME RegistryTypeOK, file = NoRecord, RecordInv, ~fault
    PROVE  Good(Empty, told, used, published, now)
           /\ Synced(Empty, minted, next, told, published, now)
  <1>1. /\ told = [s \in Symbol |-> Absent] /\ used = {} /\ published = {}
        /\ minted = [s \in Symbol |-> Absent] /\ next = 1
    BY DEF RecordInv
  <1>2. Empty \in RecordType /\ Empty.next = 1 /\ ~Empty.torn
    <2>1. 1 \in Id
      BY RegistryAssumption DEF Id
    <2> QED BY <2>1 DEF Empty, RecordType, EntryType
  <1>3. \A s \in Symbol : Empty.entry[s] = Absent /\ minted[s] = Absent /\ told[s] = Absent
    BY <1>1 DEF Empty
  <1> QED BY <1>1, <1>2, <1>3 DEF Good, Synced, Gone

(* An admission that reaches the record: of the record f it was offered    *)
(* to, what it makes of the record, of memory and of what subscribers      *)
(* were told.                                                              *)
Written(f, s) == IF MustWrite(s) THEN Appended(f, s, AdmittedId(s)) ELSE f
ToldOf(s) == [told EXCEPT ![s] = [id |-> AdmittedId(s), at |-> now]]

LEMMA AdmitGood ==
    ASSUME RegistryTypeOK, TimeInv, NEW f,
           Good(f, told, used, published, now),
           Synced(f, minted, next, told, published, now),
           NEW s \in Symbol, s \notin published, IdSpaceLeft(s)
    PROVE  LET i == AdmittedId(s)
               r == Written(f, s)
               P == published \cup {s}
               U == used \cup {i}
           IN  /\ i \in Id /\ NextAfter(s) \in Id
               /\ Remembered(s) \in [Symbol -> MintedType]
               /\ \A u \in P : Remembered(s)[u] # Absent
               /\ ToldOf(s) \in [Symbol -> ToldType]
               /\ \A u \in Symbol : ToldOf(s)[u] # Absent => ToldOf(s)[u].at <= now
               /\ May(s, i, told, used, now)
               /\ Good(r, ToldOf(s), U, P, now)
               /\ Synced(r, Remembered(s), NextAfter(s), ToldOf(s), P, now)
               /\ Appended(f, s, i) # Damaged
               /\ MustWrite(s) => r = Appended(f, s, i)
  <1> DEFINE i == AdmittedId(s)
             r == Written(f, s)
             P == published \cup {s}
             U == used \cup {i}
             k == Remembered(s)
             T == ToldOf(s)
             n == NextAfter(s)
  <1>1. /\ now \in Nat /\ now \in 0 .. MaxNow /\ 0 \in Second0 /\ Id \subseteq Nat
        /\ f \in RecordType /\ next \in Id /\ f.next = next /\ ~f.torn
        /\ minted \in [Symbol -> MintedType] /\ used \subseteq Id /\ MaxId \in Nat
    BY RegistryAssumption DEF RegistryTypeOK, Good, Synced, Second0, Id
  <1>2. minted[s] = Absent \/ minted[s] \in [id : Id, recorded : BOOLEAN, last : Second0]
    BY <1>1 DEF MintedType
  <1>3. i \in Id /\ n \in Id /\ n >= next /\ i < n
    <2>1. CASE minted[s] = Absent
      BY <1>1, <2>1 DEF AdmittedId, NextAfter, IdSpaceLeft, Id
    <2>2. CASE minted[s] # Absent
      BY <1>1, <1>2, <2>2 DEF AdmittedId, NextAfter, IdSpaceLeft, Id, Good, Synced
    <2> QED BY <2>1, <2>2
  <1>4. May(s, i, told, used, now)
    <2>1. CASE minted[s] = Absent
      <3>1. f.entry[s] = Absent /\ i = f.next
        BY <1>1, <2>1 DEF Synced, AdmittedId
      <3>2. i \notin used
        <4>1. \A j \in used : j < f.next
          BY DEF Good
        <4>2. ~(f.next < f.next)
          BY <1>1
        <4> HIDE DEF i
        <4> QED BY <3>1, <4>1, <4>2
      <3> QED BY <3>1, <3>2 DEF Good, May
    <2>2. CASE minted[s] # Absent
      BY <2>2 DEF Good, Synced, AdmittedId
    <2> QED BY <2>1, <2>2
  <1> DEFINE e == [id |-> i, at |-> Listed]
  <1>5. e \in [id : Id, at : Second0 \cup {Listed}] /\ e # Absent
    BY <1>3, NotAbsent
  <1>6. /\ Appended(f, s, i) # Damaged
        /\ r \in RecordType /\ ~r.torn /\ r.next = n
        /\ r.entry = [f.entry EXCEPT ![s] = e]
    <2> DEFINE a == Appended(f, s, i)
               x == [f.entry EXCEPT ![s] = e]
    <2>1. /\ f.entry \in [Symbol -> EntryType] /\ f.lines + 1 \in Nat
          /\ x \in [Symbol -> EntryType]
      <3>1. f.entry \in [Symbol -> EntryType] /\ f.lines \in Nat
        BY <1>1 DEF RecordType
      <3> HIDE DEF e
      <3> QED BY <1>5, <3>1 DEF EntryType
    <2>2. a \in RecordType /\ ~a.torn /\ a.next = n /\ a.entry = x
      <3>1. CASE minted[s] = Absent
        <4>1. f.entry[s] = Absent /\ i = f.next /\ n = i + 1
          BY <1>1, <3>1 DEF Synced, AdmittedId, NextAfter
        <4>2. a = [f EXCEPT !.entry = x, !.next = i + 1, !.lines = f.lines + 1]
          BY <1>1, <4>1 DEF Appended
        <4> DEFINE z == f.lines + 1
        <4>3. a = [f EXCEPT !.entry = x, !.next = n, !.lines = z] /\ z \in Nat
          BY <2>1, <4>1, <4>2
        <4> HIDE DEF a, x, i, n, z
        <4> QED BY <1>1, <1>3, <2>1, <4>3 DEF RecordType
      <3>2. CASE minted[s] # Absent
        <4>1. f.entry[s] # Absent /\ i = f.entry[s].id /\ n = f.next
          BY <1>1, <3>2 DEF Synced, AdmittedId, NextAfter
        <4>2. f.entry[s] \in [id : Id, at : Second0 \cup {Listed}]
          BY <2>1, <4>1 DEF EntryType
        <4>3. [f.entry[s] EXCEPT !.at = Listed] = e
          BY <4>1, <4>2
        <4>4. a = [f EXCEPT !.entry[s].at = Listed, !.lines = @ + 1]
          BY <1>1, <4>1 DEF Appended
        <4>5. a = [f EXCEPT !.entry = x, !.lines = f.lines + 1]
          BY <4>3, <4>4
        <4> DEFINE z == f.lines + 1
        <4>6. a = [f EXCEPT !.entry = x, !.lines = z] /\ z \in Nat
          BY <2>1, <4>5
        <4> HIDE DEF a, x, i, n, z
        <4> QED BY <1>1, <1>3, <2>1, <4>1, <4>6 DEF RecordType
      <3> QED BY <3>1, <3>2
    <2>3. a # Damaged
      BY <2>2, SentinelAssumption
    <2>4. CASE MustWrite(s)
      BY <2>2, <2>3, <2>4 DEF Written
    <2>5. CASE ~MustWrite(s)
      <3>1. minted[s] # Absent /\ minted[s].recorded /\ r = f
        BY <2>5 DEF MustWrite, Written
      <3>2. /\ f.entry[s] # Absent /\ i = f.entry[s].id /\ n = f.next
            /\ f.entry[s].at = Listed
        BY <1>1, <3>1 DEF Synced, AdmittedId, NextAfter
      <3>3. f.entry[s] = e
        BY <2>1, <3>2 DEF EntryType
      <3>4. f.entry = [f.entry EXCEPT ![s] = e]
        BY <2>1, <3>3
      <3> QED BY <1>1, <2>3, <3>1, <3>2, <3>4
    <2> QED BY <2>4, <2>5
  <1>7. T \in [Symbol -> ToldType] /\ T[s] = [id |-> i, at |-> now] /\ T[s] # Absent
        /\ \A u \in Symbol : u # s => T[u] = told[u]
    BY <1>1, <1>3, NotAbsent DEF ToldOf, TimeInv, ToldType
  <1>8. /\ k \in [Symbol -> MintedType] /\ k[s] # Absent /\ k[s].id = i
        /\ \A u \in Symbol : u # s => k[u] = minted[u]
    <2> DEFINE m1 == [id |-> i, recorded |-> TRUE,
                      last |-> IF minted[s] = Absent THEN 0 ELSE minted[s].last]
    <2>1. m1 \in [id : Id, recorded : BOOLEAN, last : Second0] /\ m1 # Absent /\ m1.id = i
      BY <1>1, <1>2, <1>3, NotAbsent
    <2>2. k = [minted EXCEPT ![s] = m1]
      BY <1>1 DEF Remembered
    <2> HIDE DEF m1, i
    <2> QED BY <1>1, <2>1, <2>2 DEF MintedType
  <1>9. r.entry[s] = e /\ \A u \in Symbol : u # s => r.entry[u] = f.entry[u]
    BY <1>1, <1>6 DEF RecordType
  (* The ID is not another symbol's.                                       *)
  <1>10. \A u \in Symbol : u # s /\ f.entry[u] # Absent =>
             /\ f.entry[u].id # i
             /\ f.entry[u].id \in Id /\ f.entry[u].id < n
    <2> SUFFICES ASSUME NEW u \in Symbol, u # s, f.entry[u] # Absent
                 PROVE  f.entry[u].id # i /\ f.entry[u].id \in Id /\ f.entry[u].id < n
      OBVIOUS
    <2>1. f.entry[u].id \in Id /\ f.entry[u].id < f.next
      BY <1>1 DEF Good, RecordType, EntryType
    <2>4. f.entry[u].id \in Nat /\ n \in Nat /\ f.next \in Nat /\ n >= f.next
      BY <1>1, <1>3, <2>1
    <2>2. CASE minted[s] = Absent
      <3>1. i = f.next
        BY <1>1, <2>2 DEF AdmittedId
      <3> HIDE DEF i, n
      <3> QED BY <2>1, <2>4, <3>1
    <2>3. CASE minted[s] # Absent
      <3>1. f.entry[s] # Absent /\ f.entry[s].id = i
        BY <2>3 DEF Synced, AdmittedId
      <3>2. f.entry[u].id # i
        BY <3>1 DEF Good
      <3> HIDE DEF i, n
      <3> QED BY <2>1, <2>4, <3>2
    <2> QED BY <2>2, <2>3
  <1> HIDE DEF i, r, k, T, n
  <1>11. Good(r, T, U, P, now)
    <2>1. \A u \in Symbol : r.entry[u] = Absent => Gone(u, T, now)
      BY <1>5, <1>7, <1>9 DEF Good, Gone
    <2>2. \A u \in Symbol : r.entry[u] # Absent =>
              /\ r.entry[u].id < r.next
              /\ May(u, r.entry[u].id, T, U, now)
              /\ r.entry[u].at # Listed => Covered(u, r.entry[u].at, T, now)
      <3> SUFFICES ASSUME NEW u \in Symbol, r.entry[u] # Absent
                   PROVE  /\ r.entry[u].id < r.next
                          /\ May(u, r.entry[u].id, T, U, now)
                          /\ r.entry[u].at # Listed => Covered(u, r.entry[u].at, T, now)
        OBVIOUS
      <3>1. CASE u = s
        BY <1>3, <1>6, <1>7, <1>9, <3>1 DEF May
      <3>2. CASE u # s
        BY <1>6, <1>7, <1>9, <1>10, <3>2 DEF Good, May, Covered, Gone
      <3> QED BY <3>1, <3>2
    <2>3. \A u, v \in Symbol :
              (r.entry[u] # Absent /\ r.entry[v] # Absent
               /\ r.entry[u].id = r.entry[v].id) => u = v
      BY <1>9, <1>10 DEF Good
    <2>4. \A j \in U : j < r.next
      <3>1. \A j \in used : j < n
        BY <1>1, <1>3 DEF Good
      <3> QED BY <1>3, <1>6, <3>1
    <2>5. \A u \in P : T[u] # Absent /\ r.entry[u] = [id |-> T[u].id, at |-> Listed]
      BY <1>1, <1>7, <1>9 DEF Good, RegistryTypeOK
    <2> QED BY <1>6, <2>1, <2>2, <2>3, <2>4, <2>5 DEF Good
  <1>12. Synced(r, k, n, T, P, now)
    <2>1. \A u \in Symbol : k[u] = Absent <=> r.entry[u] = Absent
      BY <1>5, <1>8, <1>9 DEF Synced
    <2>2. \A u \in Symbol : k[u] # Absent =>
              /\ k[u].id = r.entry[u].id
              /\ k[u].recorded => r.entry[u].at = Listed
              /\ u \notin P => Covered(u, k[u].last, T, now)
      BY <1>7, <1>8, <1>9 DEF Synced, Covered, Gone
    <2> QED BY <1>6, <2>1, <2>2 DEF Synced
  <1>13. \A u \in P : k[u] # Absent
    BY <1>8 DEF TimeInv, RegistryTypeOK
  <1>14. \A u \in Symbol : T[u] # Absent => T[u].at <= now
    BY <1>1, <1>7 DEF TimeInv
  <1>15. MustWrite(s) => r = Appended(f, s, i)
    BY DEF Written, r, i
  <1> QED BY <1>3, <1>4, <1>6, <1>7, <1>8, <1>11, <1>12, <1>13, <1>14, <1>15
          DEF i, r, k, T, n
(* Until the symbol is published, the record that names it is good for     *)
(* what subscribers were told before.                                      *)
LEMMA Unsaid ==
    ASSUME TimeInv, published \subseteq Symbol, used \subseteq Id,
           NEW f, NEW s \in Symbol, s \notin published, AdmittedId(s) \in Id,
           Good(f, ToldOf(s), used \cup {AdmittedId(s)}, published \cup {s}, now),
           May(s, AdmittedId(s), told, used, now)
    PROVE  Good(f, told, used, published, now)
  <1> DEFINE i == AdmittedId(s)
             T == ToldOf(s)
  <1>1. T[s] = [id |-> i, at |-> now] /\ \A u \in Symbol : u # s => T[u] = told[u]
    BY DEF ToldOf, TimeInv
  <1>2. f.entry[s] = [id |-> i, at |-> Listed]
    BY <1>1 DEF Good
  <1>3. f.entry[s] # Absent
    BY <1>2, NotAbsent
  <1> HIDE DEF i, T
  <1>4. \A u \in Symbol : f.entry[u] = Absent => Gone(u, told, now)
    BY <1>1, <1>3 DEF Good, Gone, T
  <1>5. \A u \in Symbol : f.entry[u] # Absent =>
            /\ f.entry[u].id < f.next
            /\ May(u, f.entry[u].id, told, used, now)
            /\ f.entry[u].at # Listed => Covered(u, f.entry[u].at, told, now)
    <2> SUFFICES ASSUME NEW u \in Symbol, f.entry[u] # Absent
                 PROVE  /\ f.entry[u].id < f.next
                        /\ May(u, f.entry[u].id, told, used, now)
                        /\ f.entry[u].at # Listed => Covered(u, f.entry[u].at, told, now)
      OBVIOUS
    <2>1. CASE u = s
      BY <1>2, <2>1 DEF Good, i
    <2>2. CASE u # s
      BY <1>1, <2>2 DEF Good, May, Covered, Gone, T
    <2> QED BY <2>1, <2>2
  <1>6. \A u \in published : told[u] # Absent /\ f.entry[u] = [id |-> told[u].id, at |-> Listed]
    BY <1>1 DEF Good, T
  <1> QED BY <1>4, <1>5, <1>6 DEF Good

-----------------------------------------------------------------------------
(* What a step leaves behind that wrote, or tried to write, a record.      *)
Left(T, U, P) ==
    /\ Good(file', T, U, P, now)
    /\ minted' \in [Symbol -> MintedType] /\ next' \in Id
    /\ baseSize' \in Nat /\ appended' \in Nat /\ compactAt' \in Nat
    /\ fault' \in BOOLEAN
    /\ \A s \in P : minted'[s] # Absent
    /\ ~fault' => Synced(file', minted', next', T, P, now)

LEMMA PublishedHeld ==
    ASSUME NEW f, NEW m, NEW n, NEW T \in [Symbol -> ToldType], NEW U,
           NEW P \in SUBSET Symbol, Good(f, T, U, P, now), Synced(f, m, n, T, P, now)
    PROVE  \A s \in P : m[s] # Absent
  <1> SUFFICES ASSUME NEW s \in P PROVE m[s] # Absent
    OBVIOUS
  <1>1. T[s] # Absent /\ f.entry[s] = [id |-> T[s].id, at |-> Listed]
    BY DEF Good
  <1>2. f.entry[s] # Absent
    BY <1>1, NotAbsent DEF ToldType
  <1> QED BY <1>2 DEF Synced

LEMMA LandedGood ==
    ASSUME now \in 0 .. MaxNow, NEW f, NEW m \in [Symbol -> MintedType], NEW n \in Id,
           NEW T \in [Symbol -> ToldType], NEW U, NEW P \in SUBSET Symbol, NEW ph,
           NEW old \in SUBSET Forgettable(m, P),
           Good(f, T, U, P, now), Synced(f, m, n, T, P, now),
           Landed(m, P, ph, old, n), fault' = FALSE
    PROVE  Left(T, U, P)
  <1> DEFINE base == Base(m, P, ph, old, n)
             k == Kept(m, base, P, ph)
  <1>1. /\ Good(base, T, U, P, now) /\ Synced(base, k, n, T, P, now)
        /\ k \in [Symbol -> MintedType] /\ base.base \in Nat
    BY BaseGood
  <1>2. /\ file' = base /\ minted' = k /\ next' = n /\ baseSize' = base.base
        /\ appended' = 0 /\ compactAt' = Larger(base.base, Floor)
    BY DEF Landed, Kept
  <1> HIDE DEF base, k
  <1>3. \A s \in P : k[s] # Absent
    BY <1>1, PublishedHeld
  <1> QED BY <1>1, <1>2, <1>3, RegistryAssumption DEF Left, Larger

LEMMA RewrittenGood ==
    ASSUME now \in 0 .. MaxNow, NEW f, NEW m \in [Symbol -> MintedType], NEW n \in Id,
           NEW T \in [Symbol -> ToldType], NEW U, NEW P \in SUBSET Symbol, NEW ph,
           NEW old \in SUBSET Forgettable(m, P),
           Good(f, T, U, P, now), Synced(f, m, n, T, P, now),
           NEW lines \in Nat, NEW size \in Nat, compactAt \in Nat,
           Rewritten(f, m, P, ph, old, n, lines, size)
    PROVE  Left(T, U, P)
  <1>1. \A s \in P : m[s] # Absent
    BY PublishedHeld
  <1>2. Good(Base(m, P, ph, old, n), T, U, P, now)
    BY BaseGood
  <1>3. CASE fault' = FALSE /\ Landed(m, P, ph, old, n)
    BY <1>3, LandedGood
  <1>4. CASE /\ fault' = FALSE /\ file' = f
             /\ minted' = m /\ next' = n /\ baseSize' = size /\ appended' = lines
             /\ compactAt' = lines + Larger(size, Floor)
    <2>1. compactAt' \in Nat
      BY <1>4, RegistryAssumption DEF Larger
    <2> QED BY <1>1, <1>4, <2>1 DEF Left
  <1>5. CASE /\ fault' = TRUE /\ file' \in {f, Base(m, P, ph, old, n)}
             /\ minted' = m /\ next' = n /\ baseSize' = size /\ appended' = lines
             /\ UNCHANGED compactAt
    <2>1. Good(file', T, U, P, now)
      BY <1>2, <1>5
    <2> QED BY <1>1, <1>5, <2>1 DEF Left
  <1> QED BY <1>3, <1>4, <1>5 DEF Rewritten

(* Whatever is left behind is the invariant again.                         *)
LEMMA LeftInv ==
    ASSUME now \in 0 .. MaxNow, now' = now, Left(told', used', published'),
           phase' \in {"down", "seeding", "established"},
           published' \subseteq Symbol, used' \subseteq Id,
           phase' = "down" => published' = {},
           told' \in [Symbol -> ToldType],
           \A s \in Symbol : told'[s] # Absent => told'[s].at <= now
    PROVE  RegistryInv'
  <1>1. file' \in RecordType /\ file' # NoRecord /\ file' # Damaged
    BY SentinelAssumption DEF Left, Good
  <1>2. RegistryTypeOK'
    BY <1>1 DEF Left, RegistryTypeOK
  <1>3. TimeInv'
    BY DEF Left, TimeInv
  <1>4. RecordInv'
    BY <1>1 DEF Left, RecordInv
  <1> QED BY <1>2, <1>3, <1>4 DEF RegistryInv
-----------------------------------------------------------------------------
LEMMA InitInv == Init => RegistryInv
  <1> SUFFICES ASSUME Init PROVE RegistryInv
    OBVIOUS
  <1>1. RegistryTypeOK
    <2>1. 1 \in Id /\ 0 \in 0 .. MaxNow /\ Floor \in Nat
      BY RegistryAssumption DEF Id
    <2>2. minted \in [Symbol -> MintedType]
      BY DEF Init, MintedType
    <2> QED BY <2>1, <2>2 DEF Init, RegistryTypeOK
  <1>2. TimeInv /\ RecordInv
    BY RegistryAssumption DEF Init, TimeInv, RecordInv, ToldType
  <1> QED BY <1>1, <1>2 DEF RegistryInv

(* What the open reads from a good record agrees with it.                  *)
LEMMA RecalledSynced ==
    ASSUME RegistryInv, phase = "down", file # NoRecord,
           NEW m, m = [s \in Symbol |-> IF file.entry[s] = Absent THEN Absent
                                        ELSE Recalled(file.entry[s])]
    PROVE  /\ m \in [Symbol -> MintedType]
           /\ published = {}
           /\ Whole(file) \in RecordType /\ Whole(file).next = file.next
           /\ file.next \in Id /\ file.base \in Nat /\ file.lines \in Nat
           /\ Good(Whole(file), told, used, {}, now)
           /\ Synced(Whole(file), m, file.next, told, {}, now)
  <1> DEFINE w == Whole(file)
  <1>1. /\ Good(file, told, used, {}, now) /\ published = {} /\ now \in 0 .. MaxNow
        /\ file \in RecordType /\ told \in [Symbol -> ToldType]
        /\ \A s \in Symbol : told[s] # Absent => told[s].at \in Nat /\ told[s].at <= now
    BY RegistryAssumption
    DEF RegistryInv, RegistryTypeOK, TimeInv, RecordInv, Good, ToldType
  <1>2. w \in RecordType /\ w.entry = file.entry /\ w.next = file.next /\ ~w.torn
        /\ file.next \in Id /\ file.base \in Nat /\ file.lines \in Nat
    BY <1>1 DEF Whole, RecordType
  <1>3. \A s \in Symbol : file.entry[s] # Absent =>
            /\ m[s] \in [id : Id, recorded : BOOLEAN, last : Second0]
            /\ m[s] # Absent /\ m[s].id = file.entry[s].id
            /\ m[s].recorded => file.entry[s].at = Listed
            /\ Covered(s, m[s].last, told, now)
    <2> SUFFICES ASSUME NEW s \in Symbol, file.entry[s] # Absent
                 PROVE  /\ m[s] \in [id : Id, recorded : BOOLEAN, last : Second0]
                        /\ m[s].id = file.entry[s].id
                        /\ m[s].recorded => file.entry[s].at = Listed
                        /\ Covered(s, m[s].last, told, now)
      BY NotAbsent
    <2> DEFINE e == file.entry[s]
    <2>1. e \in [id : Id, at : Second0 \cup {Listed}]
      BY <1>1 DEF RecordType, EntryType
    <2>2. m[s] = Recalled(e)
      OBVIOUS
    <2>3. e.at # Listed => Covered(s, e.at, told, now) /\ e.at \in Second0
      BY <1>1, <2>1 DEF Good
    <2>4. StampS \in Second0 /\ Covered(s, StampS, told, now)
      <3>1. StampS \in Nat /\ StampS \in Second0 /\ StampS * Second >= now
            /\ StampS * Second \in Nat /\ now \in Nat
        BY <1>1, Rounding, RegistryAssumption DEF Second0
      <3> HIDE DEF e
      <3> QED BY <1>1, <3>1 DEF Covered, Gone
    <2> HIDE DEF e
    <2>5. CASE e.at = Listed
      BY <2>1, <2>2, <2>4, <2>5 DEF Recalled, e
    <2>6. CASE e.at # Listed
      BY <2>1, <2>2, <2>3, <2>6 DEF Recalled, e
    <2> QED BY <2>5, <2>6
  <1>4. \A s \in Symbol : m[s] = Absent <=> file.entry[s] = Absent
    BY <1>3
  <1>5. m \in [Symbol -> MintedType]
    BY <1>3 DEF MintedType
  <1> HIDE DEF w
  <1>6. Good(w, told, used, {}, now)
    BY <1>1, <1>2 DEF Good
  <1>7. Synced(w, m, file.next, told, {}, now)
    BY <1>2, <1>3, <1>4 DEF Synced
  <1> QED BY <1>1, <1>2, <1>5, <1>6, <1>7 DEF w

LEMMA OpenInv ==
    ASSUME RegistryInv, Open
    PROVE  RegistryInv'
  <1>1. /\ phase = "down" /\ UNCHANGED <<published, now, told, used>>
        /\ published = {} /\ now \in 0 .. MaxNow /\ used \subseteq Id
        /\ told \in [Symbol -> ToldType]
        /\ \A s \in Symbol : told[s] # Absent => told[s].at <= now
        /\ baseSize \in Nat /\ appended \in Nat /\ compactAt \in Nat /\ fault \in BOOLEAN
        /\ minted \in [Symbol -> MintedType] /\ next \in Id
        /\ file # Damaged
    BY DEF RegistryInv, RegistryTypeOK, TimeInv, RecordInv, Open, history
  <1>2. CASE file = NoRecord /\ phase' = "seeding" /\ UNCHANGED <<file, memory, fault>>
    <2>1. /\ UNCHANGED <<file, minted, next, baseSize, appended, compactAt, fault>>
      BY <1>2 DEF memory
    <2> QED BY <1>1, <1>2, <2>1 DEF RegistryInv, RegistryTypeOK, TimeInv, RecordInv
  <1>3. CASE file # NoRecord
    <2> DEFINE m == [s \in Symbol |-> IF file.entry[s] = Absent THEN Absent
                                      ELSE Recalled(file.entry[s])]
               w == Whole(file)
               old == Forgettable(m, {})
    <2>1. /\ m \in [Symbol -> MintedType]
          /\ file.next \in Id /\ file.base \in Nat /\ file.lines \in Nat
          /\ Good(w, told, used, {}, now)
          /\ Synced(w, m, file.next, told, {}, now)
      BY <1>1, <1>3, RecalledSynced
    <2>2. PICK due \in BOOLEAN :
             \/ /\ ReadIn(m) /\ file' = w
                /\ compactAt' = Larger(file.base, Floor)
                /\ fault' = FALSE /\ phase' = "seeding"
             \/ /\ Landed(m, {}, "seeding", old, file.next)
                /\ fault' = FALSE /\ phase' = "seeding"
             \/ /\ ReadIn(m) /\ file' = w
                /\ compactAt' = file.lines + Larger(file.base, Floor)
                /\ fault' = FALSE /\ phase' = "seeding"
             \/ /\ file' = Base(m, {}, "seeding", old, file.next)
                /\ UNCHANGED <<memory, fault, phase>>
      BY <1>3 DEF Open
    <2> HIDE DEF m, w, old
    <2>3. {} \in SUBSET Symbol /\ old \in SUBSET Forgettable(m, {})
      BY DEF old
    <2>4. CASE phase' = "seeding" /\ Left(told, used, {})
      BY <1>1, <2>4, LeftInv
    (* The rewrite landed and the open failed: the process never began.    *)
    <2>5. CASE /\ file' = Base(m, {}, "seeding", old, file.next)
               /\ UNCHANGED <<memory, fault, phase>>
      <3>1. Good(file', told, used, {}, now)
        BY <1>1, <2>1, <2>3, <2>5, BaseGood
      <3>2. file' \in RecordType /\ file' # NoRecord /\ file' # Damaged
        BY <3>1, SentinelAssumption DEF Good
      <3>3. UNCHANGED <<minted, next, baseSize, appended, compactAt, fault, phase>>
        BY <2>5 DEF memory
      <3>4. RegistryTypeOK'
        BY <1>1, <3>2, <3>3 DEF RegistryTypeOK
      <3>5. TimeInv' /\ RecordInv'
        BY <1>1, <3>1, <3>2, <3>3 DEF TimeInv, RecordInv
      <3> QED BY <3>4, <3>5 DEF RegistryInv
    <2>6. ASSUME ReadIn(m), file' = w, fault' = FALSE, compactAt' \in Nat
          PROVE  Left(told, used, {})
      BY <2>1, <2>6 DEF Left, ReadIn
    <2>7. Larger(file.base, Floor) \in Nat /\ file.lines + Larger(file.base, Floor) \in Nat
      BY <2>1, RegistryAssumption DEF Larger
    <2>8. ASSUME Landed(m, {}, "seeding", old, file.next), fault' = FALSE
          PROVE  Left(told, used, {})
      BY <1>1, <2>1, <2>3, <2>8, LandedGood
    <2> QED BY <2>2, <2>4, <2>5, <2>6, <2>7, <2>8
  <1> QED BY <1>2, <1>3 DEF Open
(* An admission that ends with the symbol published.                       *)
LEMMA PublishesInv ==
    ASSUME RegistryInv, NEW f, NEW s \in Symbol, s \notin published, IdSpaceLeft(s),
           phase # "down",
           Good(f, told, used, published, now),
           Synced(f, minted, next, told, published, now),
           Publishes(s, AdmittedId(s)),
           Left(ToldOf(s), used \cup {AdmittedId(s)}, published \cup {s})
    PROVE  RegistryInv'
  <1>1. RegistryTypeOK /\ TimeInv
    BY DEF RegistryInv
  <1>2. /\ told' = ToldOf(s) /\ used' = used \cup {AdmittedId(s)}
        /\ published' = published \cup {s} /\ phase' = phase /\ now' = now
    BY DEF Publishes, ToldOf
  <1>3. /\ AdmittedId(s) \in Id /\ ToldOf(s) \in [Symbol -> ToldType]
        /\ \A u \in Symbol : ToldOf(s)[u] # Absent => ToldOf(s)[u].at <= now
    BY <1>1, AdmitGood
  <1>4. published' \subseteq Symbol /\ used' \subseteq Id
        /\ phase \in {"down", "seeding", "established"} /\ now \in 0 .. MaxNow
    BY <1>1, <1>2, <1>3 DEF RegistryTypeOK
  <1> QED BY <1>2, <1>3, <1>4, LeftInv

LEMMA AdmitInv ==
    ASSUME RegistryInv, NEW s \in Symbol, Admit(s)
    PROVE  RegistryInv'
  <1> DEFINE i == AdmittedId(s)
             r == Written(file, s)
             k == Remembered(s)
             n == NextAfter(s)
             T == ToldOf(s)
             U == used \cup {i}
             P == published \cup {s}
             lines == IF MustWrite(s) THEN appended + 1 ELSE appended
  <1>1. /\ RegistryTypeOK /\ TimeInv /\ s \notin published /\ IdSpaceLeft(s)
        /\ phase # "down" /\ ~fault /\ file # NoRecord
        /\ Good(file, told, used, published, now)
        /\ Synced(file, minted, next, told, published, now)
    BY DEF RegistryInv, RecordInv, Admit, Admissible
  <1>2. /\ Compacts(r, k, P, n, lines, baseSize, compactAt)
        /\ Publishes(s, i)
    BY DEF Admit, Written
  <1>3. /\ n \in Id /\ k \in [Symbol -> MintedType]
        /\ \A u \in P : k[u] # Absent
        /\ T \in [Symbol -> ToldType]
        /\ Good(r, T, U, P, now) /\ Synced(r, k, n, T, P, now)
    BY <1>1, AdmitGood
  <1>4. /\ now \in 0 .. MaxNow /\ P \in SUBSET Symbol /\ lines \in Nat
        /\ baseSize \in Nat /\ compactAt \in Nat
    BY <1>1 DEF RegistryTypeOK
  <1> HIDE DEF i, r, k, n, T, U, P, lines
  <1>5. Left(T, U, P)
    <2>1. CASE /\ file' = r /\ minted' = k /\ next' = n
               /\ appended' = lines /\ baseSize' = baseSize /\ compactAt' = compactAt
               /\ fault' = FALSE
      BY <1>3, <1>4, <2>1 DEF Left
    <2>2. CASE Rewritten(r, k, P, phase, Forgettable(k, P), n, lines, baseSize)
      BY <1>3, <1>4, <2>2, RewrittenGood
    <2> QED BY <1>2, <2>1, <2>2 DEF Compacts
  <1> QED BY <1>1, <1>2, <1>5, PublishesInv DEF i, T, U, P

LEMMA AdmitUnwrittenInv ==
    ASSUME RegistryInv, NEW s \in Symbol, AdmitUnwritten(s)
    PROVE  RegistryInv'
  <1>1. /\ RegistryTypeOK /\ TimeInv /\ s \notin published /\ IdSpaceLeft(s)
        /\ phase # "down" /\ ~fault /\ file # NoRecord /\ MustWrite(s)
        /\ Good(file, told, used, published, now)
        /\ Synced(file, minted, next, told, published, now)
        /\ published \subseteq Symbol /\ used \subseteq Id
    BY DEF RegistryInv, RegistryTypeOK, RecordInv, AdmitUnwritten, Admissible
  <1>2. /\ file' \in {file, [file EXCEPT !.torn = TRUE], Appended(file, s, AdmittedId(s))}
        /\ fault' = TRUE
        /\ UNCHANGED <<phase, minted, next, baseSize, appended, compactAt,
                       published, now, told, used>>
    BY DEF AdmitUnwritten, PartlyAppended, memory, history
  <1>3. Good(file', told, used, published, now)
    <2>1. CASE file' = file
      BY <1>1, <2>1
    <2>2. CASE file' = [file EXCEPT !.torn = TRUE]
      <3>1. file' \in RecordType /\ file'.entry = file.entry /\ file'.next = file.next
        BY <1>1, <2>2 DEF Good, RecordType
      <3> QED BY <1>1, <3>1 DEF Good
    <2>3. CASE file' = Appended(file, s, AdmittedId(s))
      <3>1. /\ AdmittedId(s) \in Id /\ May(s, AdmittedId(s), told, used, now)
            /\ Good(Written(file, s), ToldOf(s), used \cup {AdmittedId(s)},
                    published \cup {s}, now)
            /\ Written(file, s) = Appended(file, s, AdmittedId(s))
        BY <1>1, AdmitGood
      <3> QED BY <1>1, <2>3, <3>1, Unsaid
    <2> QED BY <1>2, <2>1, <2>2, <2>3
  <1>4. file' \in RecordType /\ file' # NoRecord /\ file' # Damaged
    BY <1>3, SentinelAssumption DEF Good
  <1>5. RegistryTypeOK' /\ TimeInv' /\ RecordInv'
    BY <1>1, <1>2, <1>3, <1>4 DEF RegistryTypeOK, TimeInv, RecordInv
  <1> QED BY <1>5 DEF RegistryInv

LEMMA AdmitFirstInv ==
    ASSUME RegistryInv, NEW s \in Symbol, AdmitFirst(s)
    PROVE  RegistryInv'
  <1> DEFINE i == AdmittedId(s)
             r == Written(Empty, s)
             k == Remembered(s)
             n == NextAfter(s)
             T == ToldOf(s)
             U == used \cup {i}
             P == published \cup {s}
             base == Base(k, P, phase, {}, n)
  <1>1. /\ RegistryTypeOK /\ TimeInv /\ RecordInv
        /\ s \notin published /\ IdSpaceLeft(s)
        /\ phase # "down" /\ ~fault /\ file = NoRecord
        /\ published = {} /\ used \subseteq Id /\ now \in 0 .. MaxNow
    BY DEF RegistryInv, RegistryTypeOK, RecordInv, AdmitFirst, Admissible
  <1>2. /\ Good(Empty, told, used, published, now)
        /\ Synced(Empty, minted, next, told, published, now)
    BY <1>1, EmptyGood
  <1>3. /\ i \in Id /\ n \in Id /\ k \in [Symbol -> MintedType]
        /\ \A u \in P : k[u] # Absent
        /\ T \in [Symbol -> ToldType] /\ May(s, i, told, used, now)
        /\ Good(r, T, U, P, now) /\ Synced(r, k, n, T, P, now)
    BY <1>1, <1>2, AdmitGood
  <1>4. P = {s} /\ P \in SUBSET Symbol /\ {} \in SUBSET Forgettable(k, P)
    BY <1>1
  <1>5. CASE Landed(k, {s}, phase, {}, n) /\ fault' = FALSE /\ Publishes(s, i)
    <2>1. Left(T, U, P)
      <3> HIDE DEF i, r, k, n, T, U, P
      <3> QED BY <1>1, <1>3, <1>4, <1>5, LandedGood
    <2> QED BY <1>1, <1>2, <1>5, <2>1, PublishesInv
  <1>6. CASE /\ file' \in {NoRecord, Base(k, {s}, phase, {}, n)}
             /\ fault' = TRUE
             /\ UNCHANGED <<phase, memory, published, now, history>>
    <2>1. UNCHANGED <<phase, minted, next, baseSize, appended, compactAt,
                      published, now, told, used>>
      BY <1>6 DEF memory, history
    <2>2. CASE file' = NoRecord
      BY <1>1, <1>6, <2>1, <2>2 DEF RegistryInv, RegistryTypeOK, TimeInv, RecordInv
    <2>3. CASE file' = base
      <3>1. Good(base, T, U, P, now)
        <4> HIDE DEF i, r, k, n, T, U, P
        <4> QED BY <1>1, <1>3, <1>4, BaseGood
      <3>2. Good(base, told, used, published, now)
        <4> HIDE DEF base
        <4> QED BY <1>1, <1>3, <3>1, Unsaid
      <3>3. file' \in RecordType /\ file' # NoRecord /\ file' # Damaged
        BY <2>3, <3>2, SentinelAssumption DEF Good
      <3> HIDE DEF base
      <3>4. RegistryTypeOK' /\ TimeInv' /\ RecordInv'
        BY <1>1, <1>6, <2>1, <2>3, <3>2, <3>3 DEF RegistryTypeOK, TimeInv, RecordInv
      <3> QED BY <3>4 DEF RegistryInv
    <2> QED BY <1>4, <1>6, <2>2, <2>3
  <1> QED BY <1>5, <1>6 DEF AdmitFirst
(* Instruments that cease to be published keep their line in the record.   *)
LEMMA CeasedGood ==
    ASSUME RegistryInv, file # NoRecord, NEW S \in SUBSET published, Ceased(S)
    PROVE  /\ told' \in [Symbol -> ToldType]
           /\ \A s \in Symbol : told'[s] # Absent => told'[s].at <= now
           /\ \A s \in S : told'[s] # Absent /\ told'[s].at = now
           /\ \A s \in Symbol \ S : told'[s] = told[s]
           /\ Good(file, told', used, published \ S, now)
  <1>1. /\ Good(file, told, used, published, now)
        /\ told \in [Symbol -> ToldType] /\ published \subseteq Symbol
        /\ now \in Nat /\ now \in 0 .. MaxNow
        /\ \A s \in Symbol : told[s] # Absent => told[s].at <= now
    BY RegistryAssumption DEF RegistryInv, RegistryTypeOK, TimeInv, RecordInv
  <1>2. \A s \in published : /\ told[s] \in [id : Id, at : 0 .. MaxNow]
                             /\ file.entry[s] = [id |-> told[s].id, at |-> Listed]
    BY <1>1 DEF Good, ToldType
  <1>3. \A s \in S : /\ told'[s] \in [id : Id, at : 0 .. MaxNow]
                     /\ told'[s].id = told[s].id /\ told'[s].at = now
    BY <1>1, <1>2 DEF Ceased
  <1>4. \A s \in S : told'[s] # Absent
    BY <1>3, NotAbsent
  <1>5. told' = [s \in Symbol |-> told'[s]] /\ \A s \in Symbol \ S : told'[s] = told[s]
    BY DEF Ceased
  <1>6. told' \in [Symbol -> ToldType]
    BY <1>1, <1>3, <1>5 DEF ToldType
  <1>7. \A s \in Symbol : told'[s] # Absent => told'[s].at <= now
    BY <1>1, <1>3, <1>5
  <1>8. Good(file, told', used, published \ S, now)
    <2> SUFFICES
            /\ \A s \in Symbol : file.entry[s] = Absent => Gone(s, told', now)
            /\ \A s \in Symbol : file.entry[s] # Absent =>
                  /\ May(s, file.entry[s].id, told', used, now)
                  /\ file.entry[s].at # Listed => Covered(s, file.entry[s].at, told', now)
            /\ \A s \in published \ S :
                  told'[s] # Absent /\ file.entry[s] = [id |-> told'[s].id, at |-> Listed]
      BY <1>1 DEF Good
    <2>1. \A s \in S : file.entry[s] # Absent
      BY <1>2, NotAbsent
    <2>2. \A s \in Symbol : file.entry[s] = Absent => Gone(s, told', now)
      BY <1>1, <1>5, <2>1 DEF Good, Gone
    <2>3. \A s \in Symbol : file.entry[s] # Absent =>
              /\ May(s, file.entry[s].id, told', used, now)
              /\ file.entry[s].at # Listed => Covered(s, file.entry[s].at, told', now)
      <3> SUFFICES ASSUME NEW s \in Symbol, file.entry[s] # Absent
                   PROVE  /\ May(s, file.entry[s].id, told', used, now)
                          /\ file.entry[s].at # Listed =>
                                 Covered(s, file.entry[s].at, told', now)
        OBVIOUS
      <3>1. CASE s \in S
        <4>1. file.entry[s] = [id |-> told[s].id, at |-> Listed]
          BY <1>2, <3>1
        <4>2. told'[s] # Absent /\ told'[s].id = told[s].id
          BY <1>3, <1>4, <3>1
        <4> QED BY <4>1, <4>2 DEF May
      <3>2. CASE s \notin S
        <4>1. told'[s] = told[s]
          BY <1>5, <3>2
        <4>2. /\ May(s, file.entry[s].id, told, used, now)
              /\ file.entry[s].at # Listed => Covered(s, file.entry[s].at, told, now)
          BY <1>1 DEF Good
        <4> QED BY <4>1, <4>2 DEF May, Covered, Gone
      <3> QED BY <3>1, <3>2
    <2>4. \A s \in published \ S :
              told'[s] # Absent /\ file.entry[s] = [id |-> told'[s].id, at |-> Listed]
      BY <1>1, <1>5 DEF Good
    <2> QED BY <2>2, <2>3, <2>4
  <1> QED BY <1>3, <1>4, <1>5, <1>6, <1>7, <1>8

LEMMA WithdrawInv ==
    ASSUME RegistryInv, NEW s \in Symbol, Withdraw(s)
    PROVE  RegistryInv'
  <1>1. /\ RegistryTypeOK /\ TimeInv /\ RecordInv /\ s \in published
        /\ published' = published \ {s} /\ Ceased({s})
        /\ minted' = [minted EXCEPT ![s].last = StampS]
        /\ UNCHANGED <<file, phase, next, baseSize, appended, compactAt, fault, now, used>>
    BY DEF RegistryInv, Withdraw
  <1>2. file # NoRecord /\ phase # "down"
    BY <1>1 DEF RecordInv, TimeInv
  <1>3. /\ told' \in [Symbol -> ToldType]
        /\ \A u \in Symbol : told'[u] # Absent => told'[u].at <= now
        /\ told'[s] # Absent /\ told'[s].at = now
        /\ \A u \in Symbol \ {s} : told'[u] = told[u]
        /\ Good(file, told', used, published', now)
    <2>1. {s} \in SUBSET published
      BY <1>1
    <2> QED BY <1>1, <1>2, <2>1, CeasedGood
  <1>4. /\ StampS \in Second0 /\ StampS \in Nat /\ StampS * Second >= now /\ now \in Nat
        /\ now \in 0 .. MaxNow
    BY <1>1, Rounding, RegistryAssumption DEF RegistryTypeOK, Second0
  <1>5. /\ minted \in [Symbol -> MintedType]
        /\ minted[s] \in [id : Id, recorded : BOOLEAN, last : Second0]
    BY <1>1 DEF RegistryTypeOK, TimeInv, MintedType
  <1> DEFINE ms == [minted[s] EXCEPT !.last = StampS]
  <1>6. /\ ms \in [id : Id, recorded : BOOLEAN, last : Second0] /\ ms # Absent
        /\ ms.id = minted[s].id /\ ms.recorded = minted[s].recorded /\ ms.last = StampS
    <2>1. ms \in [id : Id, recorded : BOOLEAN, last : Second0]
          /\ ms.id = minted[s].id /\ ms.recorded = minted[s].recorded /\ ms.last = StampS
      BY <1>4, <1>5
    <2> QED BY <2>1, NotAbsent
  <1>7. minted' = [minted EXCEPT ![s] = ms]
    BY <1>1
  <1> HIDE DEF ms
  <1>8. /\ minted' \in [Symbol -> MintedType] /\ minted'[s] = ms
        /\ \A u \in Symbol \ {s} : minted'[u] = minted[u]
    BY <1>5, <1>6, <1>7 DEF MintedType
  <1>9. \A u \in published' : minted'[u] # Absent
    BY <1>1, <1>8 DEF TimeInv, RegistryTypeOK
  <1>10. ~fault => Synced(file, minted', next, told', published', now)
    <2> SUFFICES ASSUME ~fault
                 PROVE  Synced(file, minted', next, told', published', now)
      OBVIOUS
    <2>1. Synced(file, minted, next, told, published, now)
      BY <1>1, <1>2 DEF RecordInv
    <2>2. \A u \in Symbol : minted'[u] = Absent <=> file.entry[u] = Absent
      BY <1>5, <1>6, <1>8, <2>1, NotAbsent DEF Synced
    <2>3. ASSUME NEW u \in Symbol, minted'[u] # Absent
          PROVE  /\ minted'[u].id = file.entry[u].id
                 /\ minted'[u].recorded => file.entry[u].at = Listed
                 /\ u \notin published' => Covered(u, minted'[u].last, told', now)
      <3>1. CASE u = s
        <4>1. minted[s] # Absent
          BY <1>5, NotAbsent
        <4>2. Covered(s, StampS, told', now)
          BY <1>3, <1>4 DEF Covered
        <4> QED BY <1>6, <1>8, <2>1, <3>1, <4>1, <4>2 DEF Synced
      <3>2. CASE u # s
        <4>1. minted'[u] = minted[u] /\ told'[u] = told[u] /\ (u \notin published' => u \notin published)
          BY <1>1, <1>3, <1>8, <3>2
        <4> QED BY <2>1, <2>3, <4>1 DEF Synced, Covered, Gone
      <3> QED BY <3>1, <3>2
    <2> QED BY <2>1, <2>2, <2>3 DEF Synced
  <1>11. Left(told', used', published')
    BY <1>1, <1>3, <1>8, <1>9, <1>10 DEF Left, RegistryTypeOK
  <1> QED BY <1>1, <1>2, <1>3, <1>4, <1>11, LeftInv DEF RegistryTypeOK

LEMMA ExitInv ==
    ASSUME RegistryInv, Exit
    PROVE  RegistryInv'
  <1>1. /\ RegistryTypeOK /\ TimeInv /\ RecordInv
        /\ phase' = "down" /\ published' = {} /\ fault' = FALSE
        /\ Ceased(published) /\ UNCHANGED <<file, now, used>>
        /\ minted' = [s \in Symbol |-> Absent]
        /\ next' = 1 /\ baseSize' = 0 /\ appended' = 0 /\ compactAt' = Floor
    BY DEF RegistryInv, Exit, Cleared
  <1>2. /\ told' \in [Symbol -> ToldType]
        /\ \A s \in Symbol : told'[s] # Absent => told'[s].at <= now
        /\ file # NoRecord => Good(file, told', used, {}, now)
        /\ file = NoRecord => told' = told
    <2>1. CASE file # NoRecord
      <3>1. published \ published = {} /\ published \in SUBSET published
        OBVIOUS
      <3> QED BY <1>1, <2>1, <3>1, CeasedGood
    <2>2. CASE file = NoRecord
      <3>1. published = {} /\ told = [s \in Symbol |-> Absent]
        BY <1>1, <2>2 DEF RecordInv
      <3>2. told' = told
        BY <1>1, <3>1 DEF Ceased
      <3> QED BY <1>1, <2>2, <3>2 DEF TimeInv
    <2> QED BY <2>1, <2>2
  <1>3. RegistryTypeOK'
    <2>1. 1 \in Id /\ Floor \in Nat
      BY RegistryAssumption DEF Id
    <2>2. minted' \in [Symbol -> MintedType]
      BY <1>1 DEF MintedType
    <2> QED BY <1>1, <2>1, <2>2 DEF RegistryTypeOK
  <1>4. TimeInv'
    BY <1>1, <1>2 DEF TimeInv
  <1>5. RecordInv'
    BY <1>1, <1>2 DEF RecordInv
  <1> QED BY <1>3, <1>4, <1>5 DEF RegistryInv

(* What is gone stays gone: time is on the side of the record.             *)
LEMMA TickInv ==
    ASSUME RegistryInv, Tick
    PROVE  RegistryInv'
  <1>1. /\ RegistryTypeOK /\ TimeInv /\ RecordInv
        /\ now' = now + 1 /\ now \in Nat /\ now' \in 0 .. MaxNow /\ now' \in Nat
        /\ UNCHANGED <<file, phase, minted, next, baseSize, appended, compactAt,
                       published, fault, told, used>>
    BY RegistryAssumption DEF RegistryInv, RegistryTypeOK, Tick, memory, history
  <1>2. \A s \in Symbol : told[s] # Absent => told[s].at \in Nat
    BY <1>1, RegistryAssumption DEF TimeInv, ToldType
  <1>3. \A s \in Symbol : Gone(s, told, now) => Gone(s, told, now')
    <2>1. Horizon * Second \in Nat
      BY RegistryAssumption
    <2> DEFINE h == Horizon * Second
    <2>2. h \in Nat
      BY <2>1
    <2> HIDE DEF h
    <2>3. \A s \in Symbol : (told[s] # Absent /\ now >= told[s].at + h) => now' >= told[s].at + h
      BY <1>1, <1>2, <2>2
    <2> QED BY <2>3 DEF Gone, h
  <1>4. file # NoRecord => Good(file, told, used, published, now')
    <2> SUFFICES ASSUME Good(file, told, used, published, now)
                 PROVE  Good(file, told, used, published, now')
      BY <1>1 DEF RecordInv
    <2>1. \A s \in Symbol : file.entry[s] # Absent =>
              /\ May(s, file.entry[s].id, told, used, now')
              /\ file.entry[s].at # Listed => Covered(s, file.entry[s].at, told, now')
      BY <1>3 DEF Good, May, Covered
    <2> QED BY <1>3, <2>1 DEF Good
  <1>5. (phase # "down" /\ ~fault /\ file # NoRecord) =>
            Synced(file, minted, next, told, published, now')
    BY <1>1, <1>3 DEF RecordInv, Synced, Covered
  <1>6. RegistryTypeOK'
    BY <1>1 DEF RegistryTypeOK
  <1>7. TimeInv'
    BY <1>1, <1>2 DEF TimeInv
  <1>8. RecordInv'
    BY <1>1, <1>4, <1>5 DEF RecordInv
  <1> QED BY <1>6, <1>7, <1>8 DEF RegistryInv

LEMMA SeedingCompleteInv ==
    ASSUME RegistryInv, SeedingComplete \/ UNCHANGED vars
    PROVE  RegistryInv'
  <1>1. /\ RegistryTypeOK /\ TimeInv /\ RecordInv
        /\ phase' = phase \/ (phase = "seeding" /\ phase' = "established")
        /\ UNCHANGED <<file, minted, next, baseSize, appended, compactAt,
                       published, fault, now, told, used>>
    BY DEF RegistryInv, SeedingComplete, vars, memory, history
  <1>2. RegistryTypeOK' /\ TimeInv' /\ RecordInv'
    BY <1>1 DEF RegistryTypeOK, TimeInv, RecordInv
  <1> QED BY <1>2 DEF RegistryInv

LEMMA NextInv == RegistryInv /\ [Next]_vars => RegistryInv'
  BY OpenInv, SeedingCompleteInv, ExitInv, TickInv, AdmitInv, AdmitUnwrittenInv,
     AdmitFirstInv, WithdrawInv DEF Next

LEMMA InvHolds == Spec => []RegistryInv
  BY InitInv, NextInv, PTL DEF Spec

-----------------------------------------------------------------------------
(* Whatever has failed, the record loads and holds every published symbol  *)
(* as published, under its ID: a crash at any moment finds it on the disk. *)
THEOREM RegistryRecordServes == Spec => []RecordServes
  <1>1. RegistryInv => RecordServes
    BY DEF RegistryInv, RecordServes, RecordLoads, RecordKnowsPublished, RecordInv, Good
  <1> QED BY <1>1, InvHolds, PTL
(* An admission publishes an ID that may be the symbol's: its own, or one  *)
(* never used, the symbol having been gone for the horizon.                *)
LEMMA PublishesKept ==
    ASSUME RegistryTypeOK, TimeInv, NEW f, NEW s \in Symbol, s \notin published,
           IdSpaceLeft(s), Good(f, told, used, published, now),
           Synced(f, minted, next, told, published, now),
           Publishes(s, AdmittedId(s))
    PROVE  Promise!Next
  <1> DEFINE i == AdmittedId(s)
  <1>1. i \in Id /\ May(s, i, told, used, now)
    BY AdmitGood
  <1> HIDE DEF i
  <1>2. Promise!Publish(s, i)
    BY <1>1 DEF Publishes, Promise!Publish, May, Gone, i
  <1> QED BY <1>1, <1>2 DEF Promise!Next

(* Every step of the registry is a step of its promise or changes nothing  *)
(* the promise speaks of.                                                  *)
LEMMA StepsAreKept ==
    ASSUME RegistryInv, [Next]_vars
    PROVE  [Promise!Next]_(Promise!vars)
  <1> USE DEF Promise!vars
  <1>1. RegistryTypeOK /\ TimeInv /\ RecordInv
    BY DEF RegistryInv
  <1>2. CASE \E s \in Symbol : Admit(s)
    <2>1. PICK s \in Symbol : Admit(s)
      BY <1>2
    <2>2. /\ s \notin published /\ IdSpaceLeft(s) /\ Publishes(s, AdmittedId(s))
          /\ Good(file, told, used, published, now)
          /\ Synced(file, minted, next, told, published, now)
      BY <1>1, <2>1 DEF Admit, Admissible, RecordInv
    <2>3. Promise!Next
      BY <1>1, <2>2, PublishesKept
    <2> QED BY <2>3
  <1>3. CASE \E s \in Symbol : AdmitFirst(s)
    <2>1. PICK s \in Symbol : AdmitFirst(s)
      BY <1>3
    <2>2. CASE Publishes(s, AdmittedId(s))
      <3>1. /\ s \notin published /\ IdSpaceLeft(s) /\ ~fault /\ file = NoRecord
        BY <2>1 DEF AdmitFirst, Admissible
      <3>2. Good(Empty, told, used, published, now)
            /\ Synced(Empty, minted, next, told, published, now)
        BY <1>1, <3>1, EmptyGood
      <3>3. Promise!Next
        BY <1>1, <2>2, <3>1, <3>2, PublishesKept
      <3> QED BY <3>3
    <2>3. CASE UNCHANGED <<phase, memory, published, now, history>>
      BY <2>3 DEF history
    <2> QED BY <2>1, <2>2, <2>3 DEF AdmitFirst
  <1>4. CASE \E s \in Symbol : Withdraw(s)
    <2>1. PICK s \in Symbol : Withdraw(s)
      BY <1>4
    <2>2. Promise!Withdraw(s)
      BY <2>1 DEF Withdraw, Ceased, Promise!Withdraw, Promise!Last
    <2> QED BY <2>2 DEF Promise!Next
  <1>5. CASE Exit
    <2>1. Promise!Stop
      BY <1>5 DEF Exit, Ceased, Promise!Stop, Promise!Last
    <2> QED BY <2>1 DEF Promise!Next
  <1>6. CASE Tick
    <2>1. Promise!Tick
      BY <1>6 DEF Tick, history, Promise!Tick
    <2> QED BY <2>1 DEF Promise!Next
  <1>7. CASE Open \/ SeedingComplete \/ (\E s \in Symbol : AdmitUnwritten(s))
             \/ UNCHANGED vars
    BY <1>7 DEF Open, SeedingComplete, AdmitUnwritten, vars, history
  <1> QED BY <1>2, <1>3, <1>4, <1>5, <1>6, <1>7 DEF Next

(* The registry implements its promise to subscribers, whatever fails: no  *)
(* ID names two instruments, and an instrument comes back under its ID.    *)
THEOREM RegistryKeepsIdentity == Spec => IdentityKept
  <1>1. Init => Promise!Init
    BY DEF Init, Promise!Init
  <1> QED BY <1>1, InvHolds, StepsAreKept, PTL DEF Spec, IdentityKept, Promise!Spec
=============================================================================
