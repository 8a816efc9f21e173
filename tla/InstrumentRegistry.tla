-------------------------- MODULE InstrumentRegistry --------------------------
(***************************************************************************)
(* The reference-data registry and its durable record: which Instrument ID *)
(* each symbol of the venue was given, when it was last published, and     *)
(* when it may be forgotten.  The record is a base and the lines appended  *)
(* to it; a base replaces it whole.  The registry runs on one thread, so   *)
(* only a crash comes between two steps of an operation, and an operation  *)
(* that fails half way and is followed by Exit is that crash.              *)
(***************************************************************************)
EXTENDS Naturals, FiniteSets

CONSTANTS
    Symbol,         \* the symbols of the venue
    MaxId,          \* the last Instrument ID (2^32 - 1)
    Second,         \* clock ticks in a second
    Horizon,        \* forget_delisted_after, in whole seconds
    Floor,          \* COMPACTION_FLOOR
    SeedCap, Cap,   \* the selection limits while seeding and afterwards
    MaxNow,         \* bound: the last tick of the clock
    Absent,         \* the symbol is not in the record, or has no ID
    Listed,         \* an entry recorded as published
    NoRecord,       \* no record has been written
    Damaged         \* a record the loader refuses

ASSUME RegistryAssumption ==
    /\ IsFiniteSet(Symbol)
    /\ MaxId \in Nat \ {0} /\ Second \in Nat \ {0}
    /\ Horizon \in Nat /\ Floor \in Nat \ {0}
    /\ SeedCap \in Nat /\ Cap \in Nat /\ MaxNow \in Nat
    /\ Absent \notin Nat /\ Listed \notin Nat /\ NoRecord # Damaged

VARIABLES
    file,       \* the record on disk
    phase,      \* "down", "seeding" or "established"
    minted,     \* per symbol its ID, its state in the record, its last second
    next,       \* next_id
    baseSize,   \* base_entries
    appended,   \* the lines since the base
    compactAt,  \* compaction_at
    published,  \* the symbols published by this process
    fault,      \* the record can no longer be written
    now,        \* the clock of the host, which does not go backwards
    told, used  \* history: see InstrumentIdentity

memory == <<minted, next, baseSize, appended, compactAt>>
history == <<told, used>>
vars == <<file, phase, memory, published, fault, now, history>>

Id == 1 .. MaxId
Larger(a, b) == IF a > b THEN a ELSE b

(* The clock's second, rounded down to compare and rounded up to record.   *)
NowS == now \div Second
(* Mutant: a recorded second is rounded down.                              *)
StampRoundedDown == now \div Second

StampS == (now + Second - 1) \div Second

-----------------------------------------------------------------------------
(* The record.                                                             *)
Empty == [entry |-> [s \in Symbol |-> Absent], next |-> 1, base |-> 0,
          lines |-> 0, torn |-> FALSE]

(* What loading the record reads once the line (s, i) is appended: a       *)
(* restatement, a mint of the next ID, or a refusal.  A line that runs on  *)
(* from a torn one is neither.                                             *)
Appended(record, s, i) ==
    LET held == record.entry[s]
    IN  CASE ~record.torn /\ held # Absent /\ held.id = i ->
                 [record EXCEPT !.entry[s].at = Listed, !.lines = @ + 1]
          [] ~record.torn /\ held = Absent /\ i = record.next ->
                 [record EXCEPT !.entry[s] = [id |-> i, at |-> Listed],
                                !.next = i + 1, !.lines = @ + 1]
          [] OTHER -> Damaged

(* An append that fails has written nothing, a part of the line or all.    *)
PartlyAppended(record, s, i) ==
    {record, [record EXCEPT !.torn = TRUE], Appended(record, s, i)}

-----------------------------------------------------------------------------
(* Rewriting the record.                                                   *)

(* forgettable: not published, and last published the horizon ago.         *)
Forgettable(m, live) ==
    {s \in Symbol \ live : m[s] # Absent /\ NowS >= m[s].last + Horizon}

(* An entry is written as published when it is, or when the seed has not   *)
(* yet said otherwise of one the record holds so.                          *)
StillListed(m, live, ph, s) == s \in live \/ (ph = "seeding" /\ m[s].recorded)

Base(m, live, ph, forgotten, n) ==
    LET kept == {s \in Symbol \ forgotten : m[s] # Absent}
    IN  [entry |-> [s \in Symbol |->
                       IF s \notin kept THEN Absent
                       ELSE [id |-> m[s].id,
                             at |-> IF StillListed(m, live, ph, s) THEN Listed
                                    ELSE m[s].last]],
         next |-> n, base |-> Cardinality(kept), lines |-> 0, torn |-> FALSE]

(* A base that landed: what it forgot leaves the registry with it.         *)
Landed(m, live, ph, forgotten, n) ==
    LET base == Base(m, live, ph, forgotten, n)
    IN  /\ file' = base
        /\ minted' = [s \in Symbol |->
                         IF base.entry[s] = Absent THEN Absent
                         ELSE [m[s] EXCEPT !.recorded = StillListed(m, live, ph, s)]]
        /\ next' = n
        /\ baseSize' = base.base
        /\ appended' = 0
        /\ compactAt' = Larger(base.base, Floor)

(* What a rewrite may come to: it lands; it leaves the record as it was,   *)
(* and is tried again a threshold of lines later; or the directory is not  *)
(* synced and the record is either one.                                    *)
Rewritten(r, m, live, ph, forgotten, n, lines, size) ==
    \/ fault' = FALSE /\ Landed(m, live, ph, forgotten, n)
    \/ /\ fault' = FALSE
       /\ file' = r
       /\ minted' = m /\ next' = n /\ baseSize' = size /\ appended' = lines
       /\ compactAt' = lines + Larger(size, Floor)
    \/ /\ fault' = TRUE
       /\ file' \in {r, Base(m, live, ph, forgotten, n)}
       /\ minted' = m /\ next' = n /\ baseSize' = size /\ appended' = lines
       /\ UNCHANGED compactAt

-----------------------------------------------------------------------------
Init ==
    /\ file = NoRecord
    /\ phase = "down"
    /\ minted = [s \in Symbol |-> Absent]
    /\ next = 1 /\ baseSize = 0 /\ appended = 0 /\ compactAt = Floor
    /\ published = {}
    /\ fault = FALSE
    /\ now = 0
    /\ told = [s \in Symbol |-> Absent]
    /\ used = {}

Cleared ==
    /\ minted' = [s \in Symbol |-> Absent]
    /\ next' = 1 /\ baseSize' = 0 /\ appended' = 0 /\ compactAt' = Floor

(* What the record says of an entry that the open reads.                   *)
Recalled(e) == [id |-> e.id, recorded |-> e.at = Listed,
                last |-> IF e.at = Listed THEN StampS ELSE e.at]

(* A torn final line goes with a rewrite, or is cut off when there is none.*)
Whole(record) == [record EXCEPT !.torn = FALSE]

ReadIn(m) ==
    /\ minted' = m /\ next' = file.next
    /\ baseSize' = file.base /\ appended' = file.lines

(* open: read the record, and rewrite it if its lines are due or there is  *)
(* an entry to forget.                                                     *)
Open ==
    /\ phase = "down"
    /\ UNCHANGED <<published, now, history>>
    /\ \/ /\ file = NoRecord
          /\ phase' = "seeding"
          /\ UNCHANGED <<file, memory, fault>>
       \/ /\ file \notin {NoRecord, Damaged}
          /\ LET m == [s \in Symbol |-> IF file.entry[s] = Absent THEN Absent
                                        ELSE Recalled(file.entry[s])]
                 old == Forgettable(m, {})
                 due == old # {} \/ file.lines >= Larger(file.base, Floor)
             IN  \/ /\ ~due /\ ReadIn(m)
                    /\ file' = Whole(file)
                    /\ compactAt' = Larger(file.base, Floor)
                    /\ fault' = FALSE /\ phase' = "seeding"
                 \/ /\ due
                    /\ Landed(m, {}, "seeding", old, file.next)
                    /\ fault' = FALSE /\ phase' = "seeding"
                 \/ /\ due /\ ReadIn(m)
                    /\ file' = Whole(file)
                    /\ compactAt' = file.lines + Larger(file.base, Floor)
                    /\ fault' = FALSE /\ phase' = "seeding"
                 \/ /\ due
                    /\ file' = Base(m, {}, "seeding", old, file.next)
                    /\ UNCHANGED <<memory, fault, phase>>

Publishes(s, i) ==
    /\ published' = published \cup {s}
    /\ told' = [told EXCEPT ![s] = [id |-> i, at |-> now]]
    /\ used' = used \cup {i}
    /\ UNCHANGED <<phase, now>>

(* An admission: guards that refuse it without a trace.                    *)
Admissible(s) ==
    /\ phase # "down" /\ s \notin published
    /\ ~fault
    /\ Cardinality(published) < IF phase = "seeding" THEN SeedCap ELSE Cap

(* The ID the symbol is admitted under, and whether a line must say so     *)
(* before it is published.                                                 *)
AdmittedId(s) == IF minted[s] = Absent THEN next ELSE minted[s].id
(* Mutant: a relisting writes nothing.                                     *)
MustWriteMint(s) == minted[s] = Absent

MustWrite(s) == minted[s] # Absent => ~minted[s].recorded

Remembered(s) ==
    [minted EXCEPT ![s] = [id |-> AdmittedId(s), recorded |-> TRUE,
                           last |-> IF @ = Absent THEN 0 ELSE @.last]]
NextAfter(s) == IF minted[s] = Absent THEN next + 1 ELSE next

IdSpaceLeft(s) == NextAfter(s) <= MaxId

(* ...and compact, once it is published.                                   *)
Compacts(r, m, live, n, lines, size, at) ==
    LET old == IF lines >= at THEN Forgettable(m, live) ELSE {}
    IN  \/ /\ lines < at
           /\ file' = r /\ minted' = m /\ next' = n
           /\ appended' = lines /\ baseSize' = size /\ compactAt' = at
           /\ fault' = FALSE
        \/ /\ lines >= at
           /\ Rewritten(r, m, live, phase, old, n, lines, size)

(* offer of a symbol not published, the record taking its line...          *)
Admit(s) ==
    /\ Admissible(s) /\ IdSpaceLeft(s)
    /\ file # NoRecord
    /\ LET i == AdmittedId(s)
           write == MustWrite(s)
           r == IF write THEN Appended(file, s, i) ELSE file
       IN  /\ Compacts(r, Remembered(s), published \cup {s}, NextAfter(s),
                       IF write THEN appended + 1 ELSE appended, baseSize, compactAt)
           /\ Publishes(s, i)

(* ...or failing to: nothing is admitted.                                  *)
AdmitUnwritten(s) ==
    /\ Admissible(s) /\ IdSpaceLeft(s)
    /\ file # NoRecord /\ MustWrite(s)
    /\ file' \in PartlyAppended(file, s, AdmittedId(s))
    /\ fault' = TRUE
    /\ UNCHANGED <<phase, memory, published, now, history>>

(* The first write of a directory is a base.                               *)
AdmitFirst(s) ==
    /\ Admissible(s) /\ IdSpaceLeft(s)
    /\ file = NoRecord
    /\ \/ Landed(Remembered(s), {s}, phase, {}, NextAfter(s)) /\ fault' = FALSE
          /\ Publishes(s, AdmittedId(s))
       \/ /\ file' \in {NoRecord, Base(Remembered(s), {s}, phase, {}, NextAfter(s))}
          /\ fault' = TRUE
          /\ UNCHANGED <<phase, memory, published, now, history>>

(* The instruments of S were last published now.                           *)
Ceased(S) == told' = [s \in Symbol |-> IF s \in S THEN [told[s] EXCEPT !.at = now]
                                       ELSE told[s]]

(* withdraw: nothing is written; when it happened waits for the next base. *)
Withdraw(s) ==
    /\ s \in published
    /\ published' = published \ {s}
    /\ minted' = [minted EXCEPT ![s].last = StampS]
    /\ Ceased({s})
    /\ UNCHANGED <<file, phase, next, baseSize, appended, compactAt, fault, now, used>>

SeedingComplete ==
    /\ phase = "seeding"
    /\ phase' = "established"
    /\ UNCHANGED <<file, memory, published, fault, now, history>>

(* The process ends, however it ends.                                      *)
Exit ==
    /\ phase # "down"
    /\ phase' = "down"
    /\ published' = {}
    /\ Cleared
    /\ fault' = FALSE
    /\ Ceased(published)
    /\ UNCHANGED <<file, now, used>>

Tick ==
    /\ now < MaxNow
    /\ now' = now + 1
    /\ UNCHANGED <<file, phase, memory, published, fault, history>>

Next ==
    \/ Open \/ SeedingComplete \/ Exit \/ Tick
    \/ \E s \in Symbol : Admit(s) \/ AdmitUnwritten(s) \/ AdmitFirst(s) \/ Withdraw(s)

Spec == Init /\ [][Next]_vars

-----------------------------------------------------------------------------
Second0 == 0 .. (MaxNow + Second)
EntryType == [id : Id, at : Second0 \cup {Listed}] \cup {Absent}
MintedType == [id : Id, recorded : BOOLEAN, last : Second0] \cup {Absent}
RecordType == [entry : [Symbol -> EntryType], next : Id, base : Nat, lines : Nat,
               torn : BOOLEAN]

(* The values that stand for nothing are not values of something.          *)
ASSUME SentinelAssumption ==
    /\ Absent \notin [id : Id, at : Nat \cup {Listed}]
    /\ Absent \notin [id : Id, recorded : BOOLEAN, last : Nat]
    /\ NoRecord \notin RecordType /\ Damaged \notin RecordType

RegistryTypeOK ==
    /\ file \in RecordType \cup {NoRecord, Damaged}
    /\ phase \in {"down", "seeding", "established"}
    /\ minted \in [Symbol -> MintedType]
    /\ next \in Id /\ baseSize \in Nat /\ appended \in Nat /\ compactAt \in Nat
    /\ published \subseteq Symbol
    /\ fault \in BOOLEAN
    /\ now \in 0 .. MaxNow
    /\ used \subseteq Id

(* No sequence of failed writes, crashes and relistings leaves a record    *)
(* the next start refuses to load.                                         *)
RecordLoads == file # Damaged

(* Whatever happens next, the record already holds every published symbol  *)
(* as published and under its ID: the line is on disk before the first     *)
(* definition, and no failed rewrite takes it back.                        *)
RecordKnowsPublished ==
    \A s \in published :
        file.entry[s] = [id |-> told[s].id, at |-> Listed]

(* The record serves the next start at any moment, whatever has failed.    *)
RecordServes == RegistryTypeOK /\ RecordLoads /\ RecordKnowsPublished

(* The registry keeps its promise to subscribers across failed writes,     *)
(* crashes, compactions and forgetting: no ID names two instruments, and   *)
(* no instrument loses its ID before the horizon has passed.               *)
Promise == INSTANCE InstrumentIdentity WITH
    Forget <- Horizon * Second, Never <- Absent

IdentityKept == Promise!Spec
=============================================================================
