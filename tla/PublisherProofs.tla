--------------------------- MODULE PublisherProofs ---------------------------
(***************************************************************************)
(* Proofs about the two parts of a publisher process that stand before and *)
(* behind its channels.                                                    *)
(*                                                                         *)
(* The era store, for every set of channel instances, every modulus, and   *)
(* every bound on idle starts that is below the modulus.  Its invariant    *)
(* says how far the era files can be from what subscribers were last told: *)
(* whatever the disk may hold is reached from the told era by at most as   *)
(* many steps as eras were recorded since, and an era that has been handed *)
(* out by at least one.                                                    *)
(*                                                                         *)
(* The threaded intake, for every set of connections, every stream and its *)
(* payloads, every depth of the queue, batch and window.  Its invariant    *)
(* (Core) follows a claim from the table through the decoder that won it,  *)
(* what its connection holds and the queue, to the loop's own dedupe.      *)
(* OrderInv adds, for a stream whose counter restarts once, what a decoder *)
(* may believe about the restart: one that has not noticed it is behind a  *)
(* claim of the counters before it, so what it claims it loses.            *)
(***************************************************************************)
EXTENDS EraStore, ThreadedIntake, Integers, SequenceTheorems, FiniteSetTheorems,
        WellFoundedInduction, TLAPS

-----------------------------------------------------------------------------
(* The era store.                                                          *)

(* The era i steps after e.                                                *)
Plus(e, i) == IF e + i < Modulus THEN e + i ELSE e + i - Modulus

Beginning == pc \in {"read", "created", "synced", "renamed"}

(* The channel instances whose era this life has recorded.                 *)
Recorded(c) ==
    /\ c \in enabled /\ era[c] # NoFile
    /\ Beginning => c # cur

Reaches(c) ==
    told[c] # NoFile => \A v \in disk[c] : \E i \in 0 .. idle[c] : v = Plus(told[c], i)

Fresh(c) ==
    told[c] # NoFile => \E i \in 1 .. idle[c] : era[c] = Plus(told[c], i)

FilesInv ==
    \A c \in Channel :
        /\ file[c] \in disk[c]
        /\ disk[c] \subseteq Era \cup {NoFile}
        /\ Reaches(c)

ComposeInv ==
    /\ pc = "down" => enabled = {} /\ era = [c \in Channel |-> NoFile]
    /\ pc \notin {"down", "up"} =>
           \A c \in Channel :
               Recorded(c) => /\ disk[c] = {era[c]} /\ file[c] = era[c]
                              /\ Fresh(c)

BeginInv ==
    /\ Beginning => cur \in enabled /\ era[cur] \in Era
    /\ pc \in {"read", "created", "synced"} => era[cur] = NextEra(file[cur])
    /\ pc \in {"created", "synced"} => tmp[cur].era = era[cur]
    /\ pc = "synced" => tmp[cur].synced
    /\ pc = "renamed" => file[cur] = era[cur] /\ Fresh(cur)

EraInv ==
    /\ EraTypeOK
    /\ FilesInv
    /\ ComposeInv
    /\ BeginInv
    /\ PublishedIsDurable

-----------------------------------------------------------------------------
(* One step after i steps is i + 1 steps, and fewer steps than the modulus *)
(* never come back to where they started.                                  *)
LEMMA PlusSucc ==
    ASSUME NEW e \in Era, NEW i \in 0 .. MaxIdle
    PROVE  /\ Plus(e, i) \in Era
           /\ Succ(Plus(e, i)) = Plus(e, i + 1)
           /\ Plus(e, i + 1) # e
  BY EraAssumption DEF Plus, Succ, Era

LEMMA PlusZero ==
    ASSUME NEW e \in Era
    PROVE  Plus(e, 0) = e
  BY EraAssumption DEF Plus, Era

LEMMA PlusMoves ==
    ASSUME NEW e \in Era, NEW i \in 1 .. MaxIdle + 1
    PROVE  Plus(e, i) # e
  BY EraAssumption DEF Plus, Era

LEMMA NextEraType ==
    ASSUME NEW v \in Era \cup {NoFile}
    PROVE  NextEra(v) \in Era
  <1>1. FirstEra \in Era
    BY EraAssumption DEF FirstEra, Era
  <1>2. CASE v = NoFile
    BY <1>1, <1>2 DEF NextEra
  <1>3. CASE v \in Era
    BY <1>3, EraAssumption DEF NextEra, Succ, Era
  <1> QED BY <1>2, <1>3

LEMMA NoFileNotEra == NoFile \notin Era /\ Torn \notin Era \cup {NoFile}
  BY EraAssumption DEF Era

-----------------------------------------------------------------------------
LEMMA InitInv == EraInit => EraInv
  BY EraAssumption
  DEF EraInit, EraInv, EraTypeOK, FilesInv, ComposeInv, BeginInv, PublishedIsDurable,
      Reaches, Beginning, Recorded, Contents, TmpType, NoTmp

LEMMA OpenStoreInv ==
    ASSUME EraInv, NEW C \in SUBSET Channel, OpenStore(C)
    PROVE  EraInv'
  <1> USE DEF EraInv
  <1>1. EraTypeOK'
    BY DEF OpenStore, EraTypeOK
  <1>2. FilesInv'
    BY DEF OpenStore, FilesInv, Reaches
  <1>3. ComposeInv' /\ BeginInv' /\ PublishedIsDurable'
    BY DEF OpenStore, ComposeInv, BeginInv, PublishedIsDurable, Recorded, Beginning
  <1> QED BY <1>1, <1>2, <1>3

(* The process dies: nothing but its memory is lost.                       *)
LEMMA DiesInv ==
    ASSUME EraInv, Dies, UNCHANGED <<file, disk, tmp, told, idle>>, cur' \in Channel
    PROVE  EraInv'
  <1> USE DEF EraInv
  <1>1. EraTypeOK'
    BY DEF Dies, EraTypeOK
  <1>2. FilesInv'
    BY DEF FilesInv, Reaches
  <1>3. ComposeInv' /\ BeginInv' /\ PublishedIsDurable'
    BY DEF Dies, ComposeInv, BeginInv, PublishedIsDurable, Beginning
  <1> QED BY <1>1, <1>2, <1>3

LEMMA ReadEraInv ==
    ASSUME EraInv, NEW c \in Channel, ReadEra(c)
    PROVE  EraInv'
  <1> USE DEF EraInv
  <1>1. CASE file[c] = Torn
    BY <1>1, DiesInv DEF ReadEra
  <1>2. CASE file[c] # Torn
    <2>1. /\ cur' = c /\ pc' = "read" /\ c \in enabled /\ pc = "compose"
          /\ era' = [era EXCEPT ![c] = NextEra(file[c])]
          /\ era[c] = NoFile
          /\ UNCHANGED <<file, disk, tmp, told, idle, enabled>>
      BY <1>2 DEF ReadEra, Composed
    <2>2. era'[c] \in Era /\ era'[c] = NextEra(file[c])
      <3>1. file[c] \in Era \cup {NoFile}
        BY DEF FilesInv
      <3> QED BY <2>1, <3>1, NextEraType DEF EraTypeOK
    <2>3. EraTypeOK'
      BY <2>1, <2>2 DEF EraTypeOK
    <2>4. FilesInv'
      BY <2>1 DEF FilesInv, Reaches
    <2>5. ComposeInv'
      <3> SUFFICES ASSUME NEW d \in Channel, Recorded(d)'
                   PROVE  (disk[d] = {era[d]} /\ file[d] = era[d] /\ Fresh(d))'
        BY <2>1 DEF ComposeInv
      <3>1. d # c /\ era'[d] = era[d]
        BY <2>1 DEF Recorded, Beginning, EraTypeOK
      <3>2. Recorded(d)
        BY <2>1, <3>1 DEF Recorded, Beginning
      <3> QED BY <2>1, <3>1, <3>2 DEF ComposeInv, Fresh
    <2>6. BeginInv' /\ PublishedIsDurable'
      BY <2>1, <2>2 DEF BeginInv, PublishedIsDurable, Beginning
    <2> QED BY <2>3, <2>4, <2>5, <2>6
  <1> QED BY <1>1, <1>2

LEMMA CreateTmpInv ==
    ASSUME EraInv, CreateTmp
    PROVE  EraInv'
  <1> USE DEF EraInv
  <1>1. EraTypeOK'
    BY DEF CreateTmp, EraTypeOK, TmpType
  <1>2. FilesInv'
    BY DEF CreateTmp, FilesInv, Reaches
  <1>3. ComposeInv'
    BY DEF CreateTmp, ComposeInv, Recorded, Beginning, Fresh
  <1>4. BeginInv' /\ PublishedIsDurable'
    BY DEF CreateTmp, BeginInv, PublishedIsDurable, Beginning, EraTypeOK, TmpType
  <1> QED BY <1>1, <1>2, <1>3, <1>4

LEMMA SyncTmpInv ==
    ASSUME EraInv, SyncTmp
    PROVE  EraInv'
  <1> USE DEF EraInv
  <1>1. EraTypeOK'
    BY DEF SyncTmp, EraTypeOK, TmpType
  <1>2. FilesInv'
    BY DEF SyncTmp, FilesInv, Reaches
  <1>3. ComposeInv'
    BY DEF SyncTmp, ComposeInv, Recorded, Beginning, Fresh
  <1>4. BeginInv' /\ PublishedIsDurable'
    BY DEF SyncTmp, BeginInv, PublishedIsDurable, Beginning, EraTypeOK, TmpType
  <1> QED BY <1>1, <1>2, <1>3, <1>4

LEMMA RenameInv ==
    ASSUME EraInv, Rename
    PROVE  EraInv'
  <1> USE DEF EraInv
  <1> DEFINE e == era[cur]
  <1>1. /\ pc = "synced" /\ pc' = "renamed" /\ cur \in Channel
        /\ UNCHANGED <<enabled, cur, era, told>>
        /\ e \in Era /\ e = NextEra(file[cur])
        /\ tmp[cur].era = e /\ tmp[cur].synced
        /\ cur \in enabled
    BY DEF Rename, BeginInv, Beginning, EraTypeOK
  <1>2. /\ file' = [file EXCEPT ![cur] = e]
        /\ disk' = [disk EXCEPT ![cur] = disk[cur] \cup {e}]
        /\ tmp' = [tmp EXCEPT ![cur] = NoTmp]
    BY <1>1 DEF Rename, EraTypeOK
  <1>3. /\ idle' = [idle EXCEPT ![cur] = idle[cur] + 1]
        /\ idle[cur] \in 0 .. MaxIdle
        /\ idle'[cur] = idle[cur] + 1
    BY EraAssumption DEF Rename, EraTypeOK
  <1>4. EraTypeOK'
    <2>1. file' \in [Channel -> Contents] /\ disk' \in [Channel -> SUBSET Contents]
      BY <1>1, <1>2 DEF EraTypeOK, Contents
    <2>2. tmp' \in [Channel -> TmpType]
      BY <1>2 DEF EraTypeOK, TmpType, NoTmp
    <2>3. idle' \in [Channel -> 0 .. (MaxIdle + 1)]
      BY <1>3, EraAssumption DEF EraTypeOK
    <2> QED BY <1>1, <2>1, <2>2, <2>3 DEF EraTypeOK
  <1>5. told[cur] # NoFile => \E i \in 1 .. idle'[cur] : e = Plus(told[cur], i)
    <2> SUFFICES ASSUME told[cur] # NoFile
                 PROVE  \E i \in 1 .. idle'[cur] : e = Plus(told[cur], i)
      OBVIOUS
    <2>1. told[cur] \in Era
      BY <1>1 DEF EraTypeOK
    <2>2. PICK i \in 0 .. idle[cur] : file[cur] = Plus(told[cur], i)
      BY <1>1 DEF FilesInv, Reaches
    <2>3. i \in 0 .. MaxIdle /\ i + 1 \in 1 .. idle'[cur]
      BY <1>3, <2>2, EraAssumption
    <2>4. Plus(told[cur], i) \in Era /\ Succ(Plus(told[cur], i)) = Plus(told[cur], i + 1)
      BY <2>1, <2>3, PlusSucc
    <2>5. e = Succ(file[cur])
      BY <1>1, <2>2, <2>4, NoFileNotEra DEF NextEra
    <2> QED BY <2>2, <2>3, <2>4, <2>5
  <1>6. FilesInv'
    <2> SUFFICES ASSUME NEW c \in Channel
                 PROVE  (/\ file[c] \in disk[c]
                         /\ disk[c] \subseteq Era \cup {NoFile}
                         /\ Reaches(c))'
      BY DEF FilesInv
    <2>1. CASE c # cur
      BY <1>1, <1>2, <1>3, <2>1 DEF FilesInv, Reaches, EraTypeOK
    <2>2. CASE c = cur
      <3>1. file'[c] = e /\ disk'[c] = disk[c] \cup {e}
        BY <1>1, <1>2, <2>2 DEF EraTypeOK
      <3>2. disk[c] \subseteq Era \cup {NoFile}
        BY DEF FilesInv
      <3>3. Reaches(c)'
        <4> SUFFICES ASSUME told[c] # NoFile, NEW v \in disk'[c]
                     PROVE  \E i \in 0 .. idle'[c] : v = Plus(told[c], i)
          BY <1>1 DEF Reaches
        <4>1. CASE v \in disk[c]
          <5>1. PICK i \in 0 .. idle[c] : v = Plus(told[c], i)
            BY <4>1 DEF FilesInv, Reaches
          <5>2. i \in 0 .. idle'[c]
            BY <1>3, <2>2, <5>1, EraAssumption
          <5> QED BY <5>1, <5>2
        <4>2. CASE v = e
          <5>1. PICK i \in 1 .. idle'[c] : e = Plus(told[c], i)
            BY <1>5, <2>2
          <5>2. i \in 0 .. idle'[c]
            BY <5>1, <1>3, <2>2
          <5> QED BY <4>2, <5>1, <5>2
        <4> QED BY <3>1, <4>1, <4>2
      <3> QED BY <1>1, <3>1, <3>2, <3>3
    <2> QED BY <2>1, <2>2
  <1>7. ComposeInv'
    <2> SUFFICES ASSUME NEW d \in Channel, Recorded(d)'
                 PROVE  (disk[d] = {era[d]} /\ file[d] = era[d] /\ Fresh(d))'
      BY <1>1 DEF ComposeInv
    <2>1. d # cur /\ Recorded(d)
      BY <1>1 DEF Recorded, Beginning
    <2>2. disk'[d] = disk[d] /\ file'[d] = file[d] /\ idle'[d] = idle[d]
      BY <1>2, <1>3, <2>1 DEF EraTypeOK
    <2> QED BY <1>1, <2>1, <2>2 DEF ComposeInv, Fresh
  <1>8. BeginInv'
    <2>1. file'[cur] = e /\ Fresh(cur)'
      BY <1>1, <1>2, <1>5 DEF EraTypeOK, Fresh
    <2> QED BY <1>1, <2>1 DEF BeginInv, Beginning
  <1>9. PublishedIsDurable'
    BY <1>1 DEF PublishedIsDurable
  <1> QED BY <1>4, <1>6, <1>7, <1>8, <1>9

LEMMA SyncDirInv ==
    ASSUME EraInv, SyncDir
    PROVE  EraInv'
  <1> USE DEF EraInv
  <1>1. /\ pc = "renamed" /\ pc' = "compose" /\ cur \in enabled
        /\ disk' = [c \in Channel |-> {file[c]}]
        /\ UNCHANGED <<file, tmp, enabled, cur, era, told, idle>>
        /\ file[cur] = era[cur] /\ Fresh(cur) /\ cur \in Channel
    BY DEF SyncDir, BeginInv, Beginning, EraTypeOK
  <1>2. EraTypeOK'
    BY <1>1 DEF EraTypeOK
  <1>3. FilesInv'
    BY <1>1 DEF FilesInv, Reaches
  <1>4. ComposeInv'
    <2> SUFFICES ASSUME NEW d \in Channel, Recorded(d)'
                 PROVE  (disk[d] = {era[d]} /\ file[d] = era[d] /\ Fresh(d))'
      BY <1>1 DEF ComposeInv
    <2>1. CASE d = cur
      BY <1>1, <2>1 DEF Fresh
    <2>2. CASE d # cur
      <3>1. Recorded(d)
        BY <1>1, <2>2 DEF Recorded, Beginning
      <3> QED BY <1>1, <3>1 DEF ComposeInv, Fresh
    <2> QED BY <2>1, <2>2
  <1>5. BeginInv' /\ PublishedIsDurable'
    BY <1>1 DEF BeginInv, PublishedIsDurable, Beginning
  <1> QED BY <1>2, <1>3, <1>4, <1>5

(* What a channel instance is published under is durable and is not what   *)
(* it was published under before.                                          *)
LEMMA LiveIsFresh ==
    ASSUME EraInv, GoLive, NEW c \in enabled
    PROVE  disk[c] = {era[c]} /\ era[c] \in Era /\ era[c] # told[c]
  <1> USE DEF EraInv
  <1>1. /\ c \in Channel /\ pc = "compose" /\ era[c] # NoFile /\ era[c] \in Era
        /\ Recorded(c)
    BY DEF GoLive, Composed, EraTypeOK, Recorded, Beginning
  <1>2. disk[c] = {era[c]} /\ Fresh(c)
    BY <1>1 DEF ComposeInv
  <1>3. CASE told[c] = NoFile
    BY <1>1, <1>2, <1>3
  <1>4. CASE told[c] # NoFile
    <2>1. PICK i \in 1 .. idle[c] : era[c] = Plus(told[c], i)
      BY <1>2, <1>4 DEF Fresh
    <2>2. i \in 1 .. MaxIdle + 1 /\ told[c] \in Era
      BY <1>1, <1>4, <2>1, EraAssumption DEF EraTypeOK
    <2> QED BY <1>1, <1>2, <2>1, <2>2, PlusMoves
  <1> QED BY <1>3, <1>4

LEMMA GoLiveInv ==
    ASSUME EraInv, GoLive
    PROVE  EraInv'
  <1> USE DEF EraInv
  <1>1. /\ pc' = "up" /\ enabled \subseteq Channel
        /\ told' = [c \in Channel |-> IF c \in enabled THEN era[c] ELSE told[c]]
        /\ idle' = [c \in Channel |-> IF c \in enabled THEN 0 ELSE idle[c]]
        /\ UNCHANGED <<file, disk, tmp, enabled, cur, era>>
    BY DEF GoLive, EraTypeOK
  <1>2. EraTypeOK'
    <2>1. told' \in [Channel -> Era \cup {NoFile}]
      BY <1>1 DEF EraTypeOK
    <2>2. idle' \in [Channel -> 0 .. (MaxIdle + 1)]
      BY <1>1, EraAssumption DEF EraTypeOK
    <2> QED BY <1>1, <2>1, <2>2 DEF EraTypeOK
  <1>3. PublishedIsDurable'
    BY <1>1, LiveIsFresh DEF PublishedIsDurable
  <1>4. FilesInv'
    <2> SUFFICES ASSUME NEW c \in Channel PROVE Reaches(c)'
      BY <1>1 DEF FilesInv
    <2>1. CASE c \in enabled
      <3>1. disk'[c] = {era[c]} /\ told'[c] = era[c] /\ idle'[c] = 0 /\ era[c] \in Era
        BY <1>1, <2>1, LiveIsFresh
      <3>2. era[c] = Plus(era[c], 0) /\ 0 \in 0 .. 0
        BY <3>1, PlusZero
      <3> QED BY <3>1, <3>2 DEF Reaches
    <2>2. CASE c \notin enabled
      BY <1>1, <2>2 DEF FilesInv, Reaches
    <2> QED BY <2>1, <2>2
  <1>5. ComposeInv' /\ BeginInv'
    BY <1>1 DEF ComposeInv, BeginInv, Beginning
  <1> QED BY <1>2, <1>3, <1>4, <1>5

LEMMA PowerLossInv ==
    ASSUME EraInv, PowerLoss
    PROVE  EraInv'
  <1> USE DEF EraInv
  <1>1. PICK found \in [Channel -> Contents] :
            /\ \A c \in Channel : found[c] \in disk[c]
            /\ file' = found
            /\ disk' = [c \in Channel |-> {found[c]}]
    BY DEF PowerLoss
  <1>2. /\ pc' = "down" /\ enabled' = {} /\ era' = [c \in Channel |-> NoFile]
        /\ tmp' = [c \in Channel |-> NoTmp]
        /\ UNCHANGED <<cur, told, idle>>
    BY DEF PowerLoss, Dies
  <1>3. EraTypeOK'
    BY <1>1, <1>2 DEF EraTypeOK, TmpType, NoTmp
  <1>4. FilesInv'
    BY <1>1, <1>2 DEF FilesInv, Reaches
  <1>5. ComposeInv' /\ BeginInv' /\ PublishedIsDurable'
    BY <1>2 DEF ComposeInv, BeginInv, PublishedIsDurable, Beginning
  <1> QED BY <1>3, <1>4, <1>5

LEMMA StutterInv ==
    ASSUME EraInv, UNCHANGED eraVars
    PROVE  EraInv'
  BY DEF EraInv, eraVars, EraTypeOK, FilesInv, ComposeInv, BeginInv, PublishedIsDurable,
         Reaches, Recorded, Beginning, Fresh

LEMMA NextInv == EraInv /\ [EraNext]_eraVars => EraInv'
  <1> SUFFICES ASSUME EraInv, [EraNext]_eraVars PROVE EraInv'
    OBVIOUS
  <1>1. CASE \E C \in SUBSET Channel : OpenStore(C)
    BY <1>1, OpenStoreInv
  <1>2. CASE \E c \in Channel : ReadEra(c)
    BY <1>2, ReadEraInv
  <1>3. CASE CreateTmp \/ SyncTmp \/ Rename
    BY <1>3, CreateTmpInv, SyncTmpInv, RenameInv
  <1>4. CASE SyncDir \/ GoLive
    BY <1>4, SyncDirInv, GoLiveInv
  <1>5. CASE Exit
    BY <1>5, DiesInv DEF Exit, EraInv, EraTypeOK
  <1>6. CASE PowerLoss
    BY <1>6, PowerLossInv
  <1>7. CASE UNCHANGED eraVars
    BY <1>7, StutterInv
  <1> QED BY <1>1, <1>2, <1>3, <1>4, <1>5, <1>6, <1>7 DEF EraNext

LEMMA InvHolds == EraSpec => []EraInv
  BY InitInv, NextInv, PTL DEF EraSpec

-----------------------------------------------------------------------------
(* The variables of the store always have their types.                     *)
THEOREM StoreTyped == EraSpec => []EraTypeOK
  <1>1. EraInv => EraTypeOK
    BY DEF EraInv
  <1> QED BY <1>1, InvHolds, PTL

(* No crash leaves an era file the next start would refuse.                *)
THEOREM StoreNeverTorn == EraSpec => []NeverTorn
  <1>1. EraInv => NeverTorn
    BY NoFileNotEra DEF EraInv, FilesInv, NeverTorn
  <1> QED BY <1>1, InvHolds, PTL

(* A running publisher's eras are on the disk.                             *)
THEOREM StoreDurable == EraSpec => []PublishedIsDurable
  <1>1. EraInv => PublishedIsDurable
    BY DEF EraInv
  <1> QED BY <1>1, InvHolds, PTL

(* Every step of the store is a step of its promise or changes nothing     *)
(* the promise speaks of.                                                  *)
LEMMA StepsAreKept ==
    ASSUME EraInv, [EraNext]_eraVars
    PROVE  [Promise!Next]_(Promise!vars)
  <1> USE DEF Promise!vars
  <1>1. CASE GoLive
    <2> DEFINE new == [c \in enabled |-> era[c]]
    <2>1. new \in [enabled -> Era] /\ \A c \in enabled : new[c] # told[c]
      BY <1>1, LiveIsFresh
    <2>2. told' = [c \in Channel |-> IF c \in enabled THEN new[c] ELSE told[c]]
      BY <1>1 DEF GoLive
    <2>3. Promise!Start(enabled)
      BY <1>1, <2>1, <2>2 DEF GoLive, Promise!Start
    <2>4. enabled \in SUBSET Channel
      BY DEF EraInv, EraTypeOK
    <2> QED BY <2>3, <2>4 DEF Promise!Next
  <1>2. CASE (\E C \in SUBSET Channel : OpenStore(C)) \/ CreateTmp \/ SyncTmp
             \/ Rename \/ SyncDir
    BY <1>2 DEF OpenStore, CreateTmp, SyncTmp, Rename, SyncDir
  <1>3. CASE \E c \in Channel : ReadEra(c)
    BY <1>3 DEF ReadEra, Dies
  <1>4. CASE Exit \/ PowerLoss
    <2>1. Promise!Stop
      BY <1>4 DEF Exit, PowerLoss, Dies, Promise!Stop
    <2> QED BY <2>1 DEF Promise!Next
  <1>5. CASE UNCHANGED eraVars
    BY <1>5 DEF eraVars
  <1> QED BY <1>1, <1>2, <1>3, <1>4, <1>5 DEF EraNext

(* The store implements its promise: subscribers see every restart.        *)
THEOREM StoreKeepsPromise == EraSpec => PromiseKept
  <1>1. EraInit => Promise!Init
    BY DEF EraInit, Promise!Init
  <1> QED BY <1>1, InvHolds, StepsAreKept, PTL DEF EraSpec, PromiseKept, Promise!Spec

-----------------------------------------------------------------------------
(* The threaded intake.                                                    *)

(* What has been pushed and what is pushed next is claimed, and is what    *)
(* its connection decoded.                                                 *)
EventsInv ==
    /\ applied <= claimed
    /\ \A e \in InFlight :
          IF Kind[e.message] = "quote" THEN e.key + 1 <= claimed ELSE e.key = Number[e.message]
    /\ \A c \in Connection :
          /\ at[c] = "push" => key[c] + 1 <= claimed
          /\ at[c] # "next" =>
                 conn[c] = "up" /\ cursor[c] \in Message /\ Kind[cursor[c]] = "quote"

(* What a connection holds is of the payload it decodes, or decoded last.  *)
HeldInv ==
    \A c \in Connection :
        /\ \A i, j \in DOMAIN held[c] : i < j => held[c][i].message < held[c][j].message
        /\ \A i \in DOMAIN held[c] :
              /\ held[c][i].conn = c /\ held[c][i].message < cursor[c]
              /\ \A e \in PayloadEnds : held[c][i].message <= e => cursor[c] <= e + 1
        /\ at[c] # "next" /\ cursor[c] \in {m + 1 : m \in PayloadEnds \cup {0}} => held[c] = <<>>

CarriedInv ==
    /\ claimed \in won \cup {0}
    /\ \A k \in won \ spoiled : k <= applied \/ k \in Carried

(* A trade's identity is in the window, or below what the window let go.   *)
TradesInv ==
    \A i \in DOMAIN published : Kind[published[i]] = "trade" =>
        Number[published[i]] \in ToSet(window) \/ Number[published[i]] + 1 <= evicted

-----------------------------------------------------------------------------
(* The stream.                                                             *)
LEMMA StreamTypes ==
    /\ Len(Kind) \in Nat \ {0} /\ Message = 1 .. Len(Kind)
    /\ \A m \in Message :
          Kind[m] \in {"quote", "trade"} /\ Number[m] \in Nat /\ Number[m] < CounterLimit
    /\ PayloadEnds \subseteq Message /\ Len(Kind) \in PayloadEnds
    /\ {CounterLimit, QueueDepth, Batch, IdentityWindow} \subseteq Nat \ {0}
    /\ MaxFailures \in Nat
  <1>1. Kind \in Seq({"quote", "trade"}) /\ CounterLimit \in Nat
    BY IntakeAssumption
  <1>2. Len(Kind) \in Nat /\ Message = 1 .. Len(Kind)
        /\ \A m \in 1 .. Len(Kind) : Kind[m] \in {"quote", "trade"}
    BY <1>1 DEF Message
  <1>3. PayloadEnds \subseteq Message /\ Len(Kind) \in PayloadEnds /\ Number \in [Message -> 0 .. CounterLimit - 1]
    BY IntakeAssumption
  <1>4. Len(Kind) # 0
    BY <1>2, <1>3
  <1>5. \A m \in Message : Number[m] \in 0 .. CounterLimit - 1
    BY <1>3
  <1> QED BY <1>1, <1>2, <1>3, <1>4, <1>5, IntakeAssumption

(* A set of numbers that has 0 and, up to L, the next of each of its       *)
(* members has every number up to L.                                       *)
LEMMA UpTo ==
    ASSUME NEW L \in Nat, NEW T \in SUBSET (0 .. L), 0 \in T,
           \A n \in 1 .. L : n - 1 \in T => n \in T
    PROVE  \A n \in 0 .. L : n \in T
  <1> SUFFICES ASSUME NEW k \in 0 .. L, k \notin T PROVE FALSE
    OBVIOUS
  <1> DEFINE U == {n \in 0 .. L : n \notin T}
  <1>1. U \in SUBSET Nat /\ U # {}
    OBVIOUS
  <1>2. PICK n \in U : \A m \in U : ~ (<<m, n>> \in OpToRel(<, Nat))
    BY <1>1, NatLessThanWellFounded, WFMin
  <1>3. \A m \in U : ~ (m < n)
    BY <1>1, <1>2 DEF OpToRel
  <1>4. n \in 1 .. L
    <2>1. n \in 0 .. L /\ n \notin T
      BY <1>2
    <2>2. n # 0
      BY <2>1
    <2> QED BY <2>1, <2>2
  <1>5. n - 1 \in 0 .. L /\ n - 1 \in T
    BY <1>3, <1>4
  <1> QED BY <1>2, <1>4, <1>5

(* The end of the payload a message is in.                                 *)
LEMMA PayloadEndIs ==
    ASSUME NEW m \in Message
    PROVE  /\ PayloadEnd(m) \in PayloadEnds /\ m <= PayloadEnd(m)
           /\ \A e \in PayloadEnds : m <= e => PayloadEnd(m) <= e
  <1> DEFINE S == {e \in PayloadEnds : m <= e}
  <1>1. S \in SUBSET Nat /\ S # {} /\ m \in Nat
    <2>1. Len(Kind) \in PayloadEnds /\ m <= Len(Kind) /\ PayloadEnds \subseteq Nat /\ m \in Nat
      BY StreamTypes
    <2>2. Len(Kind) \in S
      BY <2>1
    <2> QED BY <2>1, <2>2
  <1>2. PICK n \in S : \A e \in S : ~ (<<e, n>> \in OpToRel(<, Nat))
    BY <1>1, NatLessThanWellFounded, WFMin
  <1>3. \A e \in S : n <= e
    <2>1. \A e \in S : ~ (e < n)
      BY <1>1, <1>2 DEF OpToRel
    <2>2. n \in Nat /\ \A e \in S : e \in Nat
      BY <1>1
    <2> HIDE DEF S
    <2> QED BY <2>1, <2>2
  <1>4. PayloadEnd(m) \in S /\ \A e \in S : PayloadEnd(m) <= e
    <2>1. \E x \in S : \A e \in S : x <= e
      BY <1>3
    <2> HIDE DEF S
    <2>2. Min(S) \in S /\ \A e \in S : Min(S) <= e
      BY <2>1 DEF Min
    <2>3. PayloadEnd(m) = Min(S)
      BY DEF PayloadEnd, S
    <2> QED BY <2>2, <2>3
  <1> QED BY <1>4

(* The largest of two numbers, and the least.                              *)
LEMMA MaxOfTwo ==
    ASSUME NEW a \in Nat, NEW b \in Nat
    PROVE  Max({a, b}) = IF a >= b THEN a ELSE b
  <1>1. \E x \in {a, b} : \A y \in {a, b} : x >= y
    OBVIOUS
  <1>2. Max({a, b}) \in {a, b} /\ \A y \in {a, b} : Max({a, b}) >= y
    BY <1>1 DEF Max
  <1> QED BY <1>2

LEMMA MinOfTwo ==
    ASSUME NEW a \in Nat, NEW b \in Nat
    PROVE  Min({a, b}) = IF a <= b THEN a ELSE b
  <1>1. \E x \in {a, b} : \A y \in {a, b} : x <= y
    OBVIOUS
  <1>2. Min({a, b}) \in {a, b} /\ \A y \in {a, b} : Min({a, b}) <= y
    BY <1>1 DEF Min
  <1> QED BY <1>2

(* A batch and what is left of the sequence it is taken from.              *)
LEMMA BatchOf ==
    ASSUME NEW S, NEW s \in Seq(S)
    PROVE  \E k \in 0 .. Len(s) :
              /\ s # <<>> => k # 0
              /\ Prefix(s) = SubSeq(s, 1, k) /\ Rest(s) = SubSeq(s, k + 1, Len(s))
  <1>1. Min({Batch, Len(s)}) = IF Batch <= Len(s) THEN Batch ELSE Len(s)
    BY MinOfTwo, IntakeAssumption, LenProperties
  <1> DEFINE k == Min({Batch, Len(s)})
  <1>2. k \in 0 .. Len(s)
    BY <1>1, IntakeAssumption
  <1>3. s # <<>> => k # 0
    BY <1>1, IntakeAssumption, EmptySeq, LenProperties
  <1> QED BY <1>2, <1>3 DEF Prefix, Rest

(* The members of what is left, and of the batch, are the sequence's.      *)
LEMMA PartsOf ==
    ASSUME NEW S, NEW s \in Seq(S), NEW k \in 0 .. Len(s)
    PROVE  /\ SubSeq(s, 1, k) \in Seq(S) /\ SubSeq(s, k + 1, Len(s)) \in Seq(S)
           /\ Len(SubSeq(s, 1, k)) = k /\ Len(SubSeq(s, k + 1, Len(s))) = Len(s) - k
           /\ \A i \in 1 .. k : SubSeq(s, 1, k)[i] = s[i]
           /\ \A i \in 1 .. Len(s) - k : SubSeq(s, k + 1, Len(s))[i] = s[k + i]
  OBVIOUS

-----------------------------------------------------------------------------
(* A batch is judged one event after the other.                            *)
LoopState == [applied : Nat, window : Seq(Nat), evicted : Nat, published : Seq(Message)]
Now == [applied |-> applied, window |-> window, evicted |-> evicted, published |-> published]

LEMMA JudgedType ==
    ASSUME NEW d \in LoopState, NEW e \in Events
    PROVE  Judged(d, e) \in LoopState
  <1>1. Append(d.published, e.message) \in Seq(Message)
    BY DEF LoopState, Events
  <1>2. Append(d.window, e.key) \in Seq(Nat)
    BY DEF LoopState, Events
  <1>3. ASSUME d.window # <<>>
        PROVE  Append(Tail(d.window), e.key) \in Seq(Nat) /\ Max({d.evicted, Head(d.window) + 1}) \in Nat
    <2>1. Head(d.window) \in Nat /\ Tail(d.window) \in Seq(Nat)
      BY <1>3, HeadTailProperties DEF LoopState
    <2>2. Max({d.evicted, Head(d.window) + 1}) \in Nat
      <3>1. d.evicted \in Nat /\ Head(d.window) + 1 \in Nat
        BY <2>1 DEF LoopState
      <3> QED BY <3>1, MaxOfTwo
    <2> QED BY <2>1, <2>2 DEF Events
  <1>4. Len(d.window) >= IdentityWindow => d.window # <<>>
    BY IntakeAssumption DEF LoopState
  <1>5. e.key + 1 \in Nat
    BY DEF Events
  <1> DEFINE done == [d EXCEPT !.published = Append(@, e.message)]
  <1>6. /\ done \in LoopState /\ done.window = d.window /\ done.evicted = d.evicted
        /\ done.applied = d.applied
    BY <1>1 DEF LoopState
  <1>7. [done EXCEPT !.applied = e.key + 1] \in LoopState
    BY <1>5, <1>6 DEF LoopState
  <1>8. Remembered(done, e.key) \in LoopState
    <2>1. CASE Len(d.window) < IdentityWindow
      BY <2>1, <1>2, <1>6 DEF Remembered, LoopState
    <2>2. CASE ~ (Len(d.window) < IdentityWindow)
      <3>1. Len(d.window) >= IdentityWindow
        BY <2>2, IntakeAssumption DEF LoopState
      <3> QED BY <2>2, <3>1, <1>3, <1>4, <1>6 DEF Remembered, LoopState
    <2> QED BY <2>1, <2>2
  <1> HIDE DEF done
  <1> QED BY <1>6, <1>7, <1>8 DEF Judged, done

Judging(events, d) ==
    /\ d \in [0 .. Len(events) -> LoopState]
    /\ d[0] = Now
    /\ \A n \in 1 .. Len(events) : d[n] = Judged(d[n - 1], events[n])

LEMMA JudgingExists ==
    ASSUME NEW events \in Seq(Events), Now \in LoopState
    PROVE  \E d : Judging(events, d)
  <1> DEFINE L == Len(events)
             Upto(k) == {f \in [0 .. k -> LoopState] :
                            /\ f[0] = Now
                            /\ \A n \in 1 .. k : f[n] = Judged(f[n - 1], events[n])}
             T == {k \in 0 .. L : Upto(k) # {}}
  <1>1. 0 \in T
    <2>1. [n \in 0 .. 0 |-> Now] \in Upto(0)
      OBVIOUS
    <2> QED BY <2>1
  <1>2. ASSUME NEW k \in 1 .. L, k - 1 \in T PROVE k \in T
    <2>1. PICK f \in Upto(k - 1) : TRUE
      BY <1>2
    <2>2. f \in [0 .. k - 1 -> LoopState] /\ f[0] = Now
          /\ \A n \in 1 .. k - 1 : f[n] = Judged(f[n - 1], events[n])
      BY <2>1
    <2>3. Judged(f[k - 1], events[k]) \in LoopState
      BY <2>2, JudgedType
    <2>4. PICK g : g = [n \in 0 .. k |-> IF n = k THEN Judged(f[k - 1], events[k]) ELSE f[n]]
      OBVIOUS
    <2>5. g \in [0 .. k -> LoopState]
      BY <2>2, <2>3, <2>4
    <2>6. g[0] = Now /\ \A n \in 1 .. k : g[n] = Judged(g[n - 1], events[n])
      <3>1. g[0] = Now
        BY <2>2, <2>4
      <3>2. ASSUME NEW n \in 1 .. k PROVE g[n] = Judged(g[n - 1], events[n])
        <4>1. g[n - 1] = f[n - 1]
          BY <2>4
        <4> QED BY <4>1, <2>2, <2>4
      <3> QED BY <3>1, <3>2
    <2>7. g \in Upto(k)
      BY <2>5, <2>6
    <2>8. k \in 0 .. L
      OBVIOUS
    <2> HIDE DEF Upto
    <2> QED BY <2>7, <2>8
  <1>3. L \in T
    <2>1. T \in SUBSET (0 .. L) /\ L \in Nat
      OBVIOUS
    <2> HIDE DEF T
    <2>2. \A n \in 0 .. L : n \in T
      BY <1>1, <1>2, <2>1, UpTo
    <2>3. L \in 0 .. L
      OBVIOUS
    <2> QED BY <2>2, <2>3
  <1>4. PICK d \in Upto(L) : TRUE
    BY <1>3
  <1> QED BY <1>4 DEF Judging

LEMMA ApplyJudges ==
    ASSUME NEW events \in Seq(Events), Now \in LoopState, Apply(events)
    PROVE  \E d : /\ Judging(events, d)
                  /\ applied' = d[Len(events)].applied /\ window' = d[Len(events)].window
                  /\ evicted' = d[Len(events)].evicted /\ published' = d[Len(events)].published
  <1> DEFINE F(f) == [n \in 0 .. Len(events) |->
                         IF n = 0 THEN Now ELSE Judged(f[n - 1], events[n])]
             d == CHOOSE f : f = F(f)
  <1>1. PICK g : Judging(events, g)
    BY JudgingExists
  <1>2. g = F(g)
    <2>1. \A n \in 0 .. Len(events) : g[n] = F(g)[n]
      BY <1>1 DEF Judging
    <2>2. g \in [0 .. Len(events) -> LoopState]
      BY <1>1 DEF Judging
    <2> QED BY <2>1, <2>2
  <1>3. d = F(d)
    BY <1>2
  <1>4. applied' = d[Len(events)].applied /\ window' = d[Len(events)].window
        /\ evicted' = d[Len(events)].evicted /\ published' = d[Len(events)].published
    BY DEF Apply, Now
  <1> HIDE DEF d
  <1>5. d[0] = Now /\ \A n \in 1 .. Len(events) : d[n] = Judged(d[n - 1], events[n])
    <2>1. \A n \in 0 .. Len(events) : d[n] = F(d)[n]
      BY <1>3
    <2> QED BY <2>1
  <1>6. \A n \in 0 .. Len(events) : d[n] \in LoopState
    <2> DEFINE T == {n \in 0 .. Len(events) : d[n] \in LoopState}
    <2>1. 0 \in T
      BY <1>5
    <2>2. ASSUME NEW n \in 1 .. Len(events), n - 1 \in T PROVE n \in T
      BY <1>5, <2>2, JudgedType
    <2> HIDE DEF T
    <2>3. T \in SUBSET (0 .. Len(events)) /\ Len(events) \in Nat
      BY DEF T
    <2>4. \A n \in 0 .. Len(events) : n \in T
      BY <2>1, <2>2, <2>3, UpTo
    <2> QED BY <2>4 DEF T
  <1>7. d \in [0 .. Len(events) -> LoopState]
    <2>1. d = [n \in 0 .. Len(events) |-> d[n]]
      BY <1>3
    <2> QED BY <2>1, <1>6
  <1> QED BY <1>4, <1>5, <1>7 DEF Judging

KnownIn(d, k) == k \in ToSet(d.window) \/ k + 1 <= d.evicted

(* A quote is applied when its key is above the last; a trade when its     *)
(* identity is not known, and then it is known.                            *)
LEMMA JudgedQuote ==
    ASSUME NEW d \in LoopState, NEW e \in Events, Kind[e.message] = "quote"
    PROVE  LET x == Judged(d, e) IN
           /\ x.window = d.window /\ x.evicted = d.evicted
           /\ IF e.key + 1 > d.applied
              THEN x.applied = e.key + 1 /\ x.published = Append(d.published, e.message)
              ELSE x = d
  BY DEF Judged, Supersedes, LoopState

LEMMA WindowRemembers ==
    ASSUME NEW w \in Seq(Nat), NEW v \in Nat, NEW k \in Nat, NEW W \in Nat \ {0}, Len(w) <= W,
           NEW x, NEW u,
           IF Len(w) < W THEN x = Append(w, k) /\ u = v
           ELSE x = Append(Tail(w), k) /\ u = Max({v, Head(w) + 1})
    PROVE  /\ Len(x) <= W /\ k \in ToSet(x)
           /\ \A j \in ToSet(w) : j \in ToSet(x) \/ j + 1 <= u
           /\ v <= u
  <1>1. CASE Len(w) < W
    <2>0. x = Append(w, k)
      BY <1>1
    <2>1. Len(x) = Len(w) + 1 /\ Len(w) \in Nat /\ \A i \in 1 .. Len(w) : x[i] = w[i]
      BY <2>0
    <2>2. x[Len(w) + 1] = k /\ x \in Seq(Nat)
      BY <2>0
    <2>3. k \in ToSet(x)
      <3>1. Len(w) + 1 \in DOMAIN x
        BY <2>1, <2>2
      <3> QED BY <2>2, <3>1 DEF ToSet
    <2>4. ASSUME NEW j \in ToSet(w) PROVE j \in ToSet(x)
      <3>1. PICK i \in 1 .. Len(w) : j = w[i]
        BY DEF ToSet
      <3>2. i \in DOMAIN x /\ x[i] = j
        BY <2>1, <2>2, <3>1
      <3> QED BY <3>2 DEF ToSet
    <2>5. u = v
      BY <1>1
    <2> QED BY <1>1, <2>1, <2>3, <2>4, <2>5
  <1>2. CASE ~ (Len(w) < W)
    <2>1. w # <<>> /\ Len(w) \in Nat
      BY <1>2
    <2>2. Head(w) = w[1] /\ Tail(w) \in Seq(Nat) /\ Len(Tail(w)) = Len(w) - 1
          /\ \A i \in 1 .. Len(w) - 1 : Tail(w)[i] = w[i + 1]
      BY <2>1, HeadTailProperties
    <2>3. x \in Seq(Nat) /\ Len(x) = Len(w) /\ x[Len(w)] = k
          /\ \A i \in 1 .. Len(w) - 1 : x[i] = w[i + 1]
      <3>1. x = Append(Tail(w), k)
        BY <1>2
      <3>2. Len(x) = Len(Tail(w)) + 1 /\ x[Len(Tail(w)) + 1] = k /\ x \in Seq(Nat)
            /\ \A i \in 1 .. Len(Tail(w)) : x[i] = Tail(w)[i]
        <4>1. PICK t : t = Tail(w)
          OBVIOUS
        <4>2. t \in Seq(Nat) /\ x = Append(t, k)
          BY <2>2, <3>1, <4>1
        <4>3. Len(x) = Len(t) + 1 /\ x[Len(t) + 1] = k /\ x \in Seq(Nat)
              /\ \A i \in 1 .. Len(t) : x[i] = t[i]
          BY <4>2
        <4> QED BY <4>1, <4>3
      <3>3. Len(Tail(w)) + 1 = Len(w)
        BY <2>1, <2>2
      <3> QED BY <2>2, <3>2, <3>3
    <2>4. w[1] \in Nat
      BY <2>1
    <2>5. u = IF v >= w[1] + 1 THEN v ELSE w[1] + 1
      BY <1>2, <2>2, <2>4, MaxOfTwo
    <2>6. k \in ToSet(x)
      BY <2>1, <2>3 DEF ToSet
    <2>7. ASSUME NEW i \in 1 .. Len(w) PROVE w[i] \in ToSet(x) \/ w[i] + 1 <= u
      <3>1. CASE i = 1
        BY <3>1, <2>4, <2>5
      <3>2. CASE i # 1
        <4>1. PICK j : j = i - 1
          OBVIOUS
        <4>2. j \in 1 .. Len(w) - 1 /\ j + 1 = i
          BY <3>2, <4>1, <2>1
        <4>3. j \in DOMAIN x /\ x[j] = w[i]
          BY <4>2, <2>1, <2>3
        <4> QED BY <4>3 DEF ToSet
      <3> QED BY <3>1, <3>2
    <2>8. ASSUME NEW j \in ToSet(w) PROVE j \in ToSet(x) \/ j + 1 <= u
      <3>1. PICK i \in 1 .. Len(w) : j = w[i]
        BY DEF ToSet
      <3> QED BY <3>1, <2>7
    <2>9. Len(x) <= W /\ v <= u
      BY <2>3, <2>4, <2>5
    <2> QED BY <2>6, <2>8, <2>9
  <1> QED BY <1>1, <1>2

LEMMA JudgedTrade ==
    ASSUME NEW d \in LoopState, NEW e \in Events, Kind[e.message] = "trade",
           Len(d.window) <= IdentityWindow
    PROVE  LET x == Judged(d, e) IN
           /\ x.applied = d.applied
           /\ Len(x.window) <= IdentityWindow
           /\ IF KnownIn(d, e.key) THEN x = d
              ELSE /\ x.published = Append(d.published, e.message)
                   /\ KnownIn(x, e.key)
                   /\ \A k \in Nat : KnownIn(d, k) => KnownIn(x, k)
  <1>1. New(d, e.key) <=> ~ KnownIn(d, e.key)
    BY DEF New, KnownIn, LoopState, Events
  <1>2. CASE KnownIn(d, e.key)
    BY <1>1, <1>2 DEF Judged
  <1>3. CASE ~ KnownIn(d, e.key)
    <2> DEFINE done == [d EXCEPT !.published = Append(@, e.message)]
    <2>1. PICK x : x = Judged(d, e)
      OBVIOUS
    <2>2. x = Remembered(done, e.key)
      BY <1>1, <1>3, <2>1 DEF Judged
    <2>3. done.window = d.window /\ done.evicted = d.evicted /\ done.applied = d.applied
          /\ done.published = Append(d.published, e.message)
      BY DEF LoopState
    <2>4. DOMAIN done = {"applied", "window", "evicted", "published"}
      BY DEF LoopState
    <2> HIDE DEF done
    <2>5. x.applied = d.applied /\ x.published = Append(d.published, e.message)
      BY <2>2, <2>3, <2>4 DEF Remembered
    <2>6. IF Len(d.window) < IdentityWindow THEN x.window = Append(d.window, e.key) /\ x.evicted = d.evicted
          ELSE /\ x.window = Append(Tail(d.window), e.key)
               /\ x.evicted = Max({d.evicted, Head(d.window) + 1})
      BY <2>2, <2>3, <2>4 DEF Remembered
    <2>7. d.window \in Seq(Nat) /\ d.evicted \in Nat /\ e.key \in Nat /\ IdentityWindow \in Nat \ {0}
      BY IntakeAssumption DEF LoopState, Events
    <2>8. /\ Len(x.window) <= IdentityWindow /\ e.key \in ToSet(x.window)
          /\ \A j \in ToSet(d.window) : j \in ToSet(x.window) \/ j + 1 <= x.evicted
          /\ d.evicted <= x.evicted
      <3>1. PICK y, u : y = x.window /\ u = x.evicted
        OBVIOUS
      <3> QED BY <2>6, <2>7, <3>1, WindowRemembers
    <2>9. x.evicted \in Nat
      BY <2>1, JudgedType DEF LoopState
    <2>10. KnownIn(x, e.key) /\ \A k \in Nat : KnownIn(d, k) => KnownIn(x, k)
      BY <2>7, <2>8, <2>9 DEF KnownIn
    <2> QED BY <1>3, <2>1, <2>5, <2>8, <2>10
  <1> QED BY <1>2, <1>3

(* What a batch leaves of the quotes: the highest key of it and of what    *)
(* was applied before.                                                     *)
LEMMA JudgingKeys ==
    ASSUME NEW events \in Seq(Events), NEW d, Judging(events, d), Len(Now.window) <= IdentityWindow
    PROVE  LET x == d[Len(events)] IN
           /\ Len(x.window) <= IdentityWindow
           /\ Now.applied <= x.applied
           /\ \A i \in DOMAIN events :
                 Kind[events[i].message] = "quote" => events[i].key + 1 <= x.applied
           /\ \/ x.applied = Now.applied
              \/ \E i \in DOMAIN events :
                    Kind[events[i].message] = "quote" /\ x.applied = events[i].key + 1
  <1> DEFINE Quote(i) == Kind[events[i].message] = "quote"
             P(n) == /\ Len(d[n].window) <= IdentityWindow
                     /\ Now.applied <= d[n].applied
                     /\ \A i \in 1 .. n : Quote(i) => events[i].key + 1 <= d[n].applied
                     /\ \/ d[n].applied = Now.applied
                        \/ \E i \in 1 .. n : Quote(i) /\ d[n].applied = events[i].key + 1
             T == {n \in 0 .. Len(events) : P(n)}
  <1>1. Len(events) \in Nat /\ DOMAIN events = 1 .. Len(events)
        /\ \A i \in 1 .. Len(events) : events[i] \in Events
    OBVIOUS
  <1>2. \A n \in 0 .. Len(events) : d[n] \in LoopState
    BY DEF Judging
  <1>3. Now.applied \in Nat
    BY <1>1, <1>2 DEF Judging, LoopState
  <1>4. 0 \in T
    <2>1. P(0)
      BY <1>3 DEF Judging
    <2> QED BY <2>1, <1>1
  <1>5. ASSUME NEW n \in 1 .. Len(events), n - 1 \in T PROVE n \in T
    <2>1. d[n] = Judged(d[n - 1], events[n]) /\ events[n] \in Events /\ P(n - 1)
      BY <1>1, <1>5 DEF Judging
    <2>2. PICK c, e, x : c = d[n - 1] /\ e = events[n] /\ x = d[n]
      OBVIOUS
    <2>3. c \in LoopState /\ e \in Events /\ x = Judged(c, e) /\ x \in LoopState
      BY <1>1, <1>2, <2>1, <2>2
    <2>4. c.applied \in Nat /\ x.applied \in Nat /\ e.key \in Nat /\ e.message \in Message
      BY <2>3 DEF LoopState, Events
    <2>5. Kind[e.message] \in {"quote", "trade"}
      BY <2>4, StreamTypes
    <2>6. /\ Len(c.window) <= IdentityWindow /\ Now.applied <= c.applied
          /\ \A i \in 1 .. n - 1 : Quote(i) => events[i].key + 1 <= c.applied
          /\ \/ c.applied = Now.applied
             \/ \E i \in 1 .. n - 1 : Quote(i) /\ c.applied = events[i].key + 1
      BY <2>1, <2>2
    <2>7. CASE Quote(n)
      <3>1. Kind[e.message] = "quote"
        BY <2>2, <2>7
      <3>2. /\ x.window = c.window
            /\ x.applied = IF e.key + 1 > c.applied THEN e.key + 1 ELSE c.applied
        BY <2>3, <3>1, JudgedQuote
      <3>3. c.applied <= x.applied /\ e.key + 1 <= x.applied
        BY <2>4, <3>2
      <3>4. ASSUME NEW i \in 1 .. n, Quote(i) PROVE events[i].key + 1 <= x.applied
        <4>1. CASE i = n
          BY <4>1, <3>3, <2>2
        <4>2. CASE i # n
          <5>1. i \in 1 .. n - 1 /\ events[i].key + 1 <= c.applied
            BY <4>2, <3>4, <2>6
          <5>2. events[i].key \in Nat
            BY <1>1 DEF Events
          <5> QED BY <5>1, <5>2, <3>3, <2>4
        <4> QED BY <4>1, <4>2
      <3>5. x.applied = Now.applied \/ \E i \in 1 .. n : Quote(i) /\ x.applied = events[i].key + 1
        <4>1. CASE x.applied = e.key + 1
          BY <4>1, <2>2, <2>7
        <4>2. CASE x.applied = c.applied
          BY <4>2, <2>6
        <4> QED BY <3>2, <4>1, <4>2
      <3>6. P(n)
        BY <2>2, <2>4, <2>6, <1>3, <3>2, <3>3, <3>4, <3>5, SMTT(30)
      <3> QED BY <3>6
    <2>8. CASE ~ Quote(n)
      <3>1. Kind[e.message] = "trade"
        BY <2>2, <2>5, <2>8
      <3>2. x.applied = c.applied /\ Len(x.window) <= IdentityWindow
        BY <2>3, <2>6, <3>1, JudgedTrade
      <3>3. \A i \in 1 .. n : Quote(i) => i \in 1 .. n - 1
        BY <2>8
      <3>4. P(n)
        BY <2>2, <2>6, <3>2, <3>3
      <3> QED BY <3>4
    <2> QED BY <2>7, <2>8
  <1>6. P(Len(events))
    <2>1. T \in SUBSET (0 .. Len(events))
      OBVIOUS
    <2> HIDE DEF T
    <2>2. \A n \in 0 .. Len(events) : n \in T
      BY <1>1, <1>4, <1>5, <2>1, UpTo
    <2> QED BY <1>1, <2>2 DEF T
  <1> QED BY <1>1, <1>6

(* What a batch leaves of the trades: every identity applied is known, and *)
(* none was applied twice.                                                 *)
TradesKnown(d) ==
    /\ \A i \in DOMAIN d.published : Kind[d.published[i]] = "trade" =>
          KnownIn(d, Number[d.published[i]])
    /\ \A i, j \in DOMAIN d.published :
          /\ Kind[d.published[i]] = "trade" /\ Kind[d.published[j]] = "trade"
          /\ Number[d.published[i]] = Number[d.published[j]]
          => i = j

LEMMA JudgingTrades ==
    ASSUME NEW events \in Seq(Events), NEW d, Judging(events, d), Len(Now.window) <= IdentityWindow,
           TradesKnown(Now),
           \A i \in DOMAIN events : Kind[events[i].message] = "trade" =>
               events[i].key = Number[events[i].message]
    PROVE  TradesKnown(d[Len(events)])
  <1> DEFINE T == {n \in 0 .. Len(events) : TradesKnown(d[n]) /\ Len(d[n].window) <= IdentityWindow}
  <1>1. Len(events) \in Nat /\ DOMAIN events = 1 .. Len(events)
        /\ \A i \in 1 .. Len(events) : events[i] \in Events
    OBVIOUS
  <1>2. \A n \in 0 .. Len(events) : d[n] \in LoopState
    BY DEF Judging
  <1>3. 0 \in T
    BY <1>1 DEF Judging
  <1>4. ASSUME NEW n \in 1 .. Len(events), n - 1 \in T PROVE n \in T
    <2>1. PICK c, e, x : c = d[n - 1] /\ e = events[n] /\ x = d[n]
      OBVIOUS
    <2>2. /\ c \in LoopState /\ e \in Events /\ x = Judged(c, e) /\ x \in LoopState
          /\ Kind[e.message] = "trade" => e.key = Number[e.message]
      BY <1>1, <1>2, <2>1 DEF Judging
    <2>3. TradesKnown(c) /\ Len(c.window) <= IdentityWindow
      BY <1>4, <2>1
    <2>4. e.key \in Nat /\ e.message \in Message /\ Kind[e.message] \in {"quote", "trade"}
          /\ \A m \in Message : Number[m] \in Nat
      BY <2>2, StreamTypes DEF Events
    <2>5. TradesKnown(x) /\ Len(x.window) <= IdentityWindow
      <3>1. CASE Kind[e.message] = "quote"
        <4>1. x.window = c.window /\ x.evicted = c.evicted
          BY <2>2, <3>1, JudgedQuote
        <4>2. x.published = Append(c.published, e.message) \/ x = c
          BY <2>2, <3>1, JudgedQuote
        <4>3. CASE x.published = Append(c.published, e.message)
          <5>1. c.published \in Seq(Message)
            BY <2>2 DEF LoopState
          <5>2. DOMAIN x.published = 1 .. Len(c.published) + 1 /\ x.published[Len(c.published) + 1] = e.message
                /\ DOMAIN c.published = 1 .. Len(c.published)
                /\ \A i \in 1 .. Len(c.published) : x.published[i] = c.published[i]
            BY <4>3, <5>1, <2>4
          <5>3. \A i \in DOMAIN x.published : Kind[x.published[i]] = "trade" =>
                    i \in DOMAIN c.published /\ x.published[i] = c.published[i]
            BY <3>1, <5>2
          <5> QED BY <2>3, <4>1, <5>3 DEF TradesKnown, KnownIn
        <4>4. CASE x = c
          BY <2>3, <4>4
        <4> QED BY <4>2, <4>3, <4>4
      <3>2. CASE Kind[e.message] = "trade"
        <4>1. CASE KnownIn(c, e.key)
          BY <4>1, <2>2, <2>3, <3>2, JudgedTrade
        <4>2. CASE ~ KnownIn(c, e.key)
          <5>1. /\ x.published = Append(c.published, e.message) /\ Len(x.window) <= IdentityWindow
                /\ KnownIn(x, e.key) /\ \A k \in Nat : KnownIn(c, k) => KnownIn(x, k)
            BY <4>2, <2>2, <2>3, <3>2, JudgedTrade
          <5>2. c.published \in Seq(Message)
            BY <2>2 DEF LoopState
          <5>3. DOMAIN x.published = 1 .. Len(c.published) + 1 /\ x.published[Len(c.published) + 1] = e.message
                /\ DOMAIN c.published = 1 .. Len(c.published)
                /\ \A i \in 1 .. Len(c.published) : x.published[i] = c.published[i] /\ c.published[i] \in Message
            BY <5>1, <5>2, <2>4
          <5>4. \A i \in DOMAIN c.published : Kind[c.published[i]] = "trade" =>
                    KnownIn(c, Number[c.published[i]]) /\ Number[c.published[i]] # Number[e.message]
            BY <2>2, <2>3, <3>2, <4>2 DEF TradesKnown
          <5>5. ASSUME NEW i \in DOMAIN x.published, Kind[x.published[i]] = "trade"
                PROVE  KnownIn(x, Number[x.published[i]])
            <6>1. CASE i = Len(c.published) + 1
              BY <6>1, <5>1, <5>3, <2>2, <3>2
            <6>2. CASE i # Len(c.published) + 1
              <7>1. i \in 1 .. Len(c.published)
                BY <6>2, <5>2, <5>3
              <7> QED BY <7>1, <5>1, <5>3, <5>4, <5>5, <2>4
            <6> QED BY <6>1, <6>2
          <5>6. ASSUME NEW i \in DOMAIN x.published, NEW j \in DOMAIN x.published,
                       Kind[x.published[i]] = "trade", Kind[x.published[j]] = "trade",
                       Number[x.published[i]] = Number[x.published[j]]
                PROVE  i = j
            <6> DEFINE L == Len(c.published)
            <6>1. \A k \in DOMAIN x.published : k = L + 1 \/ k \in 1 .. L
              BY <5>2, <5>3
            <6>2. CASE i \in 1 .. L /\ j \in 1 .. L
              BY <6>2, <5>3, <5>6, <2>3 DEF TradesKnown
            <6>3. CASE i \in 1 .. L /\ j = L + 1
              BY <6>3, <5>3, <5>4, <5>6
            <6>4. CASE i = L + 1 /\ j \in 1 .. L
              BY <6>4, <5>3, <5>4, <5>6
            <6> QED BY <6>1, <6>2, <6>3, <6>4
          <5> QED BY <5>1, <5>5, <5>6 DEF TradesKnown
        <4> QED BY <4>1, <4>2
      <3> QED BY <2>4, <3>1, <3>2
    <2> QED BY <2>1, <2>5
  <1>5. TradesKnown(d[Len(events)])
    <2>1. T \in SUBSET (0 .. Len(events))
      OBVIOUS
    <2> HIDE DEF T
    <2>2. \A n \in 0 .. Len(events) : n \in T
      BY <1>1, <1>3, <1>4, <2>1, UpTo
    <2> QED BY <1>1, <2>2 DEF T
  <1> QED BY <1>5

-----------------------------------------------------------------------------
(* What a connection may hold.                                             *)

LEMMA LongestIsLongest ==
    /\ LongestPayload \in Nat
    /\ \A m \in PayloadEnds : Cardinality(Payload(m)) <= LongestPayload
  <1> DEFINE S == {Cardinality(Payload(m)) : m \in PayloadEnds}
             N == Len(Kind)
             U == {k \in 0 .. N : N - k \in S}
  <1>1. N \in Nat /\ Message = 1 .. N /\ PayloadEnds \subseteq Message /\ N \in PayloadEnds
    BY StreamTypes
  <1>2. ASSUME NEW m \in PayloadEnds PROVE Cardinality(Payload(m)) \in 0 .. N
    <2>1. IsFiniteSet(1 .. N) /\ Cardinality(1 .. N) = N
      <3>1. 1 \in Int /\ N \in Int /\ N \in PayloadEnds /\ PayloadEnds \subseteq 1 .. N
        BY <1>1
      <3>2. Cardinality(1 .. N) = (IF 1 > N THEN 0 ELSE N - 1 + 1) /\ IsFiniteSet(1 .. N)
        BY <3>1, FS_Interval
      <3> QED BY <3>1, <3>2
    <2>2. Payload(m) \subseteq 1 .. N
      BY <1>1 DEF Payload
    <2>3. IsFiniteSet(Payload(m)) /\ Cardinality(Payload(m)) <= N
      BY <2>1, <2>2, FS_Subset
    <2> QED BY <1>1, <2>3, FS_CardinalityType
  <1>3. S \subseteq 0 .. N /\ S # {}
    BY <1>1, <1>2
  <1>4. U \in SUBSET Nat /\ U # {}
    <2>1. PICK s \in S : TRUE
      BY <1>3
    <2>2. N - s \in 0 .. N /\ N - (N - s) = s
      BY <1>1, <1>3
    <2> QED BY <2>1, <2>2
  <1>5. PICK k \in U : \A j \in U : ~ (<<j, k>> \in OpToRel(<, Nat))
    BY <1>4, NatLessThanWellFounded, WFMin
  <1>6. \A j \in U : ~ (j < k)
    BY <1>4, <1>5 DEF OpToRel
  <1>7. N - k \in S /\ \A s \in S : N - k >= s
    <2>1. N - k \in S /\ k \in 0 .. N
      OBVIOUS
    <2>2. ASSUME NEW s \in S PROVE N - k >= s
      <3>1. N - s \in 0 .. N /\ N - (N - s) = s /\ s \in 0 .. N
        BY <1>1, <1>3
      <3>2. N - s \in U
        BY <3>1
      <3>3. ~ (N - s < k)
        BY <1>6, <3>2
      <3> QED BY <2>1, <3>1, <3>3, <1>1
    <2> QED BY <2>1, <2>2
  <1>8. Max(S) \in S /\ \A s \in S : Max(S) >= s
    BY <1>7 DEF Max
  <1>9. Max(S) \in Nat /\ \A s \in S : s \in Nat /\ s <= Max(S)
    BY <1>3, <1>8
  <1>10. LongestPayload = Max(S)
    BY DEF LongestPayload
  <1>11. \A m \in PayloadEnds : Cardinality(Payload(m)) \in S
    OBVIOUS
  <1> QED BY <1>9, <1>10, <1>11

LEMMA PayloadBounds ==
    ASSUME NEW h \in Seq(Events), NEW n \in 1 .. Len(Kind) + 1,
           \A i, j \in DOMAIN h : i < j => h[i].message < h[j].message,
           \A i \in DOMAIN h :
              h[i].message < n /\ \A e \in PayloadEnds : h[i].message <= e => n <= e + 1
    PROVE  Len(h) <= LongestPayload
  <1>1. Len(Kind) \in Nat /\ Message = 1 .. Len(Kind) /\ PayloadEnds \subseteq Message
        /\ Len(Kind) \in PayloadEnds
    BY StreamTypes
  <1>2. CASE h = <<>>
    BY <1>2, LongestIsLongest
  <1>3. CASE h # <<>>
    <2>1. Len(h) \in Nat \ {0} /\ DOMAIN h = 1 .. Len(h) /\ \A i \in 1 .. Len(h) : h[i].message \in Message
      <3>1. Len(h) \in Nat \ {0} /\ DOMAIN h = 1 .. Len(h) /\ \A i \in 1 .. Len(h) : h[i] \in Events
        BY <1>3
      <3> QED BY <3>1 DEF Events
    <2> DEFINE U == {e \in PayloadEnds : h[1].message <= e}
    <2>2. U \in SUBSET Nat /\ Len(Kind) \in U
      BY <1>1, <2>1
    <2>3. PICK m \in U : \A j \in U : ~ (<<j, m>> \in OpToRel(<, Nat))
      BY <2>2, NatLessThanWellFounded, WFMin
    <2>4. \A j \in U : ~ (j < m)
      BY <2>2, <2>3 DEF OpToRel
    <2>5. m \in PayloadEnds /\ h[1].message <= m /\ n <= m + 1
      <3>1. m \in PayloadEnds /\ h[1].message <= m
        BY <2>3
      <3>2. 1 \in DOMAIN h
        BY <2>1
      <3> QED BY <3>1, <3>2
    <2>6. ASSUME NEW i \in 1 .. Len(h) PROVE h[i].message \in Payload(m)
      <3>1. h[i].message \in Message /\ h[i].message < n
        BY <2>1
      <3>2. h[i].message <= m
        BY <3>1, <2>5, <1>1
      <3>3. h[1].message <= h[i].message
        <4>1. CASE i = 1
          BY <4>1, <2>1, <1>1
        <4>2. CASE i # 1
          BY <4>2, <2>1, <1>1
        <4> QED BY <4>1, <4>2
      <3>4. ASSUME NEW e \in PayloadEnds, e < m PROVE e < h[i].message
        <4>1. ~ (h[1].message <= e)
          BY <3>4, <2>4
        <4> QED BY <4>1, <3>1, <3>3, <2>1, <1>1
      <3> QED BY <3>1, <3>2, <3>4 DEF Payload
    <2>7. IsFiniteSet(1 .. Len(h)) /\ Cardinality(1 .. Len(h)) = Len(h)
      BY <2>1, FS_Interval, SMTT(30)
    <2>8. IsFiniteSet(Payload(m))
      <3>1. IsFiniteSet(1 .. Len(Kind)) /\ Payload(m) \subseteq 1 .. Len(Kind)
        BY <1>1, FS_Interval DEF Payload
      <3> QED BY <3>1, FS_Subset
    <2>9. PICK f : f = [i \in 1 .. Len(h) |-> h[i].message]
      OBVIOUS
    <2>10. f \in Injection(1 .. Len(h), Payload(m))
      <3>1. f \in [1 .. Len(h) -> Payload(m)]
        BY <2>6, <2>9
      <3>2. ASSUME NEW i \in 1 .. Len(h), NEW j \in 1 .. Len(h), f[i] = f[j] PROVE i = j
        <4>1. h[i].message = h[j].message /\ h[i].message \in Nat /\ h[j].message \in Nat
          BY <3>2, <2>9, <2>1, <1>1
        <4>2. ~ (i < j) /\ ~ (j < i)
          BY <4>1, <2>1
        <4> QED BY <4>2, <2>1
      <3> QED BY <3>1, <3>2 DEF Injection, IsInjective
    <2>11. Cardinality(1 .. Len(h)) <= Cardinality(Payload(m))
      BY <2>7, <2>8, <2>10, FS_Injection
    <2>12. Cardinality(Payload(m)) \in Nat /\ Cardinality(Payload(m)) <= LongestPayload
           /\ LongestPayload \in Nat
      BY <2>5, <2>8, FS_CardinalityType, LongestIsLongest
    <2> QED BY <2>1, <2>7, <2>11, <2>12
  <1> QED BY <1>2, <1>3

-----------------------------------------------------------------------------
(* The steps of a decode.                                                  *)

Types ==
    /\ conn \in [Connection -> {"up", "closing", "ended", "stopped"}]
    /\ cursor \in [Connection -> 1 .. Len(Kind) + 1]
    /\ at \in [Connection -> {"next", "lost", "reclaim", "duplicate", "push"}]
    /\ {key, saw, seen, generation} \subseteq [Connection -> Nat]
    /\ fell \in [Connection -> BOOLEAN]
    /\ {claimed, applied, evicted} \subseteq Nat /\ {won, spoiled} \subseteq SUBSET Nat
    /\ failures \in 0 .. MaxFailures
    /\ queue \in Seq(Events) /\ Len(queue) <= QueueDepth
    /\ held \in [Connection -> Seq(Events)]
    /\ window \in Seq(Nat) /\ Len(window) <= IdentityWindow
    /\ published \in Seq(Message)
    /\ timer \in {"fresh", "armed", "due"}
    /\ exit \in {"none", "signal", "guard"} /\ over \in BOOLEAN

Core == Types /\ EventsInv /\ HeldInv /\ CarriedInv /\ TradesInv /\ TradeOnce

LEMMA InFlightTyped ==
    ASSUME Types
    PROVE  InFlight \subseteq Events
  <1> SUFFICES ASSUME NEW e \in InFlight PROVE e \in Events
    OBVIOUS
  <1>1. \A s \in Seq(Events) : ToSet(s) \subseteq Events
    BY DEF ToSet
  <1>2. queue \in Seq(Events) /\ \A c \in Connection : held[c] \in Seq(Events)
    BY DEF Types
  <1> QED BY <1>1, <1>2 DEF InFlight

LEMMA KeyIsNat ==
    \A g, n \in Nat : Key(g, n) \in Nat
  <1> SUFFICES ASSUME NEW g \in Nat, NEW n \in Nat PROVE Key(g, n) \in Nat
    OBVIOUS
  <1>1. CounterLimit \in Nat
    BY StreamTypes
  <1> QED BY <1>1 DEF Key

LEMMA GenerationIsNat ==
    \A s \in Nat \ {0} : Generation(s) \in Nat
  <1> SUFFICES ASSUME NEW s \in Nat \ {0} PROVE Generation(s) \in Nat
    OBVIOUS
  <1>1. CounterLimit \in Nat \ {0}
    BY StreamTypes
  <1> QED BY <1>1 DEF Generation

(* What a claim, first or second, does to the rest.                        *)
Claiming(c, k, lost) ==
    /\ at[c] \in {"next", "reclaim"}
    /\ conn[c] = "up" /\ cursor[c] \in Message /\ Kind[cursor[c]] = "quote"
    /\ cursor[c] \in {m + 1 : m \in PayloadEnds \cup {0}} => held[c] = <<>>
    /\ ClaimOf(c, k, lost) /\ k \in Nat /\ lost \in {"lost", "duplicate"}
    /\ UNCHANGED <<conn, cursor, held, queue, loopVars, exit, over>>

LEMMA ClaimingKeeps ==
    ASSUME Core, NEW c \in Connection, NEW k, NEW lost, Claiming(c, k, lost),
           {saw', seen', generation'} \subseteq [Connection -> Nat], fell' \in [Connection -> BOOLEAN]
    PROVE  Core'
  <1>1. /\ key \in [Connection -> Nat] /\ claimed \in Nat /\ k \in Nat
        /\ at \in [Connection -> {"next", "lost", "reclaim", "duplicate", "push"}]
    BY DEF Core, Types, Claiming
  <1>2. /\ key' = [key EXCEPT ![c] = k]
        /\ claimed' = IF k + 1 > claimed THEN k + 1 ELSE claimed
        /\ won' = IF k + 1 > claimed THEN won \cup {k + 1} ELSE won
        /\ at' = [at EXCEPT ![c] = IF k + 1 > claimed THEN "push" ELSE lost]
        /\ lost \in {"lost", "duplicate"}
    BY <1>1 DEF Claiming, ClaimOf
  <1>3. UNCHANGED <<conn, cursor, held, queue, applied, window, evicted, published, timer, exit,
                    over, spoiled, failures>>
    BY DEF Claiming, ClaimOf, loopVars
  <1>4. Types'
    <2>1. key' \in [Connection -> Nat] /\ claimed' \in Nat
          /\ at' \in [Connection -> {"next", "lost", "reclaim", "duplicate", "push"}]
      BY <1>1, <1>2
    <2>2. {won, spoiled} \subseteq SUBSET Nat /\ k + 1 \in Nat
      BY <1>1, SMTT(30) DEF Core, Types
    <2>3. {won', spoiled'} \subseteq SUBSET Nat
      BY <2>2, <1>2, <1>3
    <2> QED BY <2>1, <2>3, <1>3 DEF Core, Types
  <1>5. claimed <= claimed' /\ InFlight' = InFlight
    BY <1>1, <1>2, <1>3 DEF InFlight
  <1>6. EventsInv'
    <2>1. applied' <= claimed'
      <3>1. applied \in Nat /\ applied <= claimed /\ applied' = applied
        BY <1>3 DEF Core, Types, EventsInv
      <3> QED BY <3>1, <1>1, <1>2
    <2>2. ASSUME NEW e \in InFlight'
          PROVE  IF Kind[e.message] = "quote" THEN e.key + 1 <= claimed' ELSE e.key = Number[e.message]
      <3>1. e \in InFlight /\ IF Kind[e.message] = "quote" THEN e.key + 1 <= claimed ELSE e.key = Number[e.message]
        BY <1>5 DEF Core, EventsInv
      <3>2. e.key \in Nat
        BY <3>1, InFlightTyped DEF Core, Events
      <3> QED BY <3>1, <3>2, <1>1, <1>2
    <2>3. ASSUME NEW b \in Connection
          PROVE  /\ at'[b] = "push" => key'[b] + 1 <= claimed'
                 /\ at'[b] # "next" =>
                        conn'[b] = "up" /\ cursor'[b] \in Message /\ Kind[cursor'[b]] = "quote"
      <3>1. CASE b = c
        BY <3>1, <1>1, <1>2, <1>3 DEF Claiming
      <3>2. CASE b # c
        BY <3>2, <1>1, <1>2, <1>3 DEF Core, EventsInv
      <3> QED BY <3>1, <3>2
    <2> QED BY <2>1, <2>2, <2>3 DEF EventsInv
  <1>7. HeldInv'
    <2>1. \A b \in Connection : b # c => at'[b] = at[b]
      BY <1>1, <1>2
    <2>2. cursor[c] \in {m + 1 : m \in PayloadEnds \cup {0}} => held[c] = <<>>
      BY DEF Claiming
    <2> QED BY <2>1, <2>2, <1>3 DEF Core, HeldInv
  <1>8. CarriedInv'
    <2>1. ASSUME NEW b \in Connection, at[b] = "push" PROVE at'[b] = "push" /\ key'[b] = key[b]
      <3>1. b # c
        BY <2>1 DEF Claiming
      <3> QED BY <3>1, <2>1, <1>1, <1>2
    <2>2. Carried \subseteq Carried'
      <3>1. {key[b] + 1 : b \in {d \in Connection : at[d] = "push" /\ conn[d] = "up"}}
              \subseteq {key'[b] + 1 : b \in {d \in Connection : at'[d] = "push" /\ conn'[d] = "up"}}
        BY <2>1, <1>3
      <3> QED BY <3>1, <1>5 DEF Carried
    <2>3. k + 1 > claimed => k + 1 \in Carried'
      <3> SUFFICES ASSUME k + 1 > claimed PROVE k + 1 \in Carried'
        OBVIOUS
      <3>1. at'[c] = "push" /\ conn'[c] = "up" /\ key'[c] + 1 = k + 1
        BY <1>1, <1>2, <1>3 DEF Claiming
      <3> QED BY <3>1 DEF Carried
    <2>4. claimed \in won \cup {0} /\ \A j \in won \ spoiled : j <= applied \/ j \in Carried
      BY DEF Core, CarriedInv
    <2>5. claimed' \in won' \cup {0}
      BY <2>4, <1>2
    <2>6. ASSUME NEW j \in won' \ spoiled' PROVE j <= applied' \/ j \in Carried'
      <3>1. j \in won \ spoiled \/ (j = k + 1 /\ k + 1 > claimed)
        BY <2>6, <1>2, <1>3
      <3> QED BY <3>1, <2>2, <2>3, <2>4, <1>3
    <2> QED BY <2>5, <2>6 DEF CarriedInv
  <1>9. TradesInv' /\ TradeOnce'
    BY <1>3 DEF Core, TradesInv, TradeOnce
  <1> QED BY <1>4, <1>6, <1>7, <1>8, <1>9 DEF Core

LEMMA ClaimKeeps ==
    ASSUME Core, NEW c \in Connection, Claim(c)
    PROVE  Core'
  <1>1. /\ {saw, seen, generation} \subseteq [Connection -> Nat] /\ fell \in [Connection -> BOOLEAN]
        /\ cursor[c] \in Message
    BY DEF Core, Types, Claim, Reads
  <1>2. PICK n, g, before :
          /\ n = Number[cursor[c]]
          /\ g = generation[c] + (IF JudgesRestart(c, n) THEN 1 ELSE 0)
          /\ before = IF JudgesRestart(c, n) THEN 0 ELSE seen[c]
    OBVIOUS
  <1>3. n \in Nat /\ g \in Nat /\ before \in Nat
    BY <1>1, <1>2, StreamTypes
  <1>4. /\ saw' = [saw EXCEPT ![c] = n]
        /\ generation' = [generation EXCEPT ![c] = g]
        /\ fell' = [fell EXCEPT ![c] = before # 0 /\ n + 1 < before]
        /\ seen' = [seen EXCEPT ![c] = Max({before, n + 1})]
        /\ ClaimOf(c, Key(g, n), "lost")
    BY <1>2 DEF Claim
  <1>5. Max({before, n + 1}) \in Nat
    BY <1>3, MaxOfTwo
  <1>6. {saw', seen', generation'} \subseteq [Connection -> Nat] /\ fell' \in [Connection -> BOOLEAN]
    BY <1>1, <1>3, <1>4, <1>5
  <1>7. Claiming(c, Key(g, n), "lost")
    <2>1. Key(g, n) \in Nat
      BY <1>3, KeyIsNat
    <2>2. at[c] = "next" /\ conn[c] = "up" /\ Kind[cursor[c]] = "quote"
      BY DEF Claim, Reads
    <2>3. cursor[c] \in {m + 1 : m \in PayloadEnds \cup {0}} => held[c] = <<>>
      BY <2>2 DEF Claim, Reads, BetweenPayloads
    <2> QED BY <1>1, <1>4, <2>1, <2>2, <2>3 DEF Claiming, Claim
  <1> QED BY <1>6, <1>7, ClaimingKeeps

LEMMA ReclaimKeeps ==
    ASSUME Core, NEW c \in Connection, Reclaim(c)
    PROVE  Core'
  <1>1. {saw', seen', generation'} \subseteq [Connection -> Nat] /\ fell' \in [Connection -> BOOLEAN]
    BY DEF Core, Types, Reclaim
  <1>2. Claiming(c, key[c], "duplicate")
    <2>1. key[c] \in Nat
      BY DEF Core, Types
    <2>2. at[c] = "reclaim" /\ conn[c] = "up" /\ cursor[c] \in Message /\ Kind[cursor[c]] = "quote"
      BY DEF Core, EventsInv, Reclaim
    <2>3. cursor[c] \in {m + 1 : m \in PayloadEnds \cup {0}} => held[c] = <<>>
      BY <2>2 DEF Core, HeldInv
    <2> QED BY <2>1, <2>2, <2>3 DEF Claiming, Reclaim
  <1> QED BY <1>1, <1>2, ClaimingKeeps

(* A connection that holds events is within a payload, and moves on in it. *)
LEMMA HeldMovesOn ==
    ASSUME Types, HeldInv, NEW c \in Connection, cursor[c] \in Message,
           cursor[c] \in {m + 1 : m \in PayloadEnds \cup {0}} => held[c] = <<>>,
           NEW i \in DOMAIN held[c]
    PROVE  /\ held[c][i].conn = c /\ held[c][i].message < cursor[c]
           /\ held[c][i].message < cursor[c] + 1
           /\ \A e \in PayloadEnds : held[c][i].message <= e => cursor[c] + 1 <= e + 1
  <1>1. cursor[c] \in Nat \ {0} /\ PayloadEnds \subseteq Nat
    BY StreamTypes
  <1>2. held[c] # <<>> => cursor[c] - 1 \notin PayloadEnds
    BY <1>1
  <1>3. held[c] \in Seq(Events)
    BY DEF Types
  <1>4. held[c] # <<>> /\ held[c][i].message \in Nat
    <2>1. held[c][i] \in Events
      BY <1>3
    <2> QED BY <1>3, <2>1, StreamTypes DEF Events
  <1>5. /\ held[c][i].conn = c /\ held[c][i].message < cursor[c]
        /\ \A e \in PayloadEnds : held[c][i].message <= e => cursor[c] <= e + 1
    BY DEF HeldInv
  <1>6. ASSUME NEW e \in PayloadEnds, held[c][i].message <= e PROVE cursor[c] + 1 <= e + 1
    <2>1. cursor[c] <= e + 1 /\ e # cursor[c] - 1
      BY <1>2, <1>4, <1>5, <1>6
    <2> QED BY <2>1, <1>1
  <1> QED BY <1>1, <1>4, <1>5, <1>6

LEMMA MovesOn ==
    ASSUME Types, HeldInv, NEW c \in Connection, cursor[c] \in Message,
           cursor[c] \in {m + 1 : m \in PayloadEnds \cup {0}} => held[c] = <<>>,
           held' = held, at'[c] = "next", cursor'[c] = cursor[c] + 1,
           \A b \in Connection : b # c => at'[b] = at[b] /\ cursor'[b] = cursor[b]
    PROVE  HeldInv'
  <1>1. \A i \in DOMAIN held[c] :
          /\ held[c][i].conn = c /\ held[c][i].message < cursor[c] + 1
          /\ \A e \in PayloadEnds : held[c][i].message <= e => cursor[c] + 1 <= e + 1
    BY HeldMovesOn
  <1> QED BY <1>1 DEF HeldInv

(* The steps that neither claim nor apply.                                 *)
LEMMA OthersKeep ==
    ASSUME Core, Types', HeldInv',
           UNCHANGED <<claimed, won, applied, window, evicted, published>>,
           spoiled \subseteq spoiled',
           InFlight \subseteq InFlight',
           \A e \in InFlight' : e \in InFlight \/
               IF Kind[e.message] = "quote" THEN e.key + 1 <= claimed ELSE e.key = Number[e.message],
           \A b \in Connection : at'[b] = "push" => at[b] = "push" /\ key'[b] = key[b],
           \A b \in Connection : at'[b] # "next" =>
               at[b] # "next" /\ conn'[b] = conn[b] /\ cursor'[b] = cursor[b],
           \A b \in Connection : at[b] = "push" =>
               \/ at'[b] = "push" \/ key[b] + 1 \in spoiled'
               \/ \E e \in InFlight' : Kind[e.message] = "quote" /\ e.key = key[b]
    PROVE  Core'
  <1>1. EventsInv'
    <2>1. applied' <= claimed'
      BY DEF Core, EventsInv
    <2>2. \A e \in InFlight' :
            IF Kind[e.message] = "quote" THEN e.key + 1 <= claimed' ELSE e.key = Number[e.message]
      BY DEF Core, EventsInv
    <2>3. \A b \in Connection :
            /\ at'[b] = "push" => key'[b] + 1 <= claimed'
            /\ at'[b] # "next" =>
                   conn'[b] = "up" /\ cursor'[b] \in Message /\ Kind[cursor'[b]] = "quote"
      BY DEF Core, EventsInv
    <2> QED BY <2>1, <2>2, <2>3 DEF EventsInv
  <1>2. CarriedInv'
    <2>1. claimed \in won \cup {0} /\ \A k \in won \ spoiled : k <= applied \/ k \in Carried
      BY DEF Core, CarriedInv
    <2>2. ASSUME NEW k \in won' \ spoiled' PROVE k <= applied' \/ k \in Carried'
      <3>1. k \in won \ spoiled
        OBVIOUS
      <3>2. ASSUME k \in Carried
            PROVE  \/ \E e \in InFlight : Kind[e.message] = "quote" /\ k = e.key + 1
                   \/ \E b \in Connection : at[b] = "push" /\ k = key[b] + 1
        BY <3>2 DEF Carried
      <3>3. CASE \E e \in InFlight : Kind[e.message] = "quote" /\ k = e.key + 1
        <4>1. PICK e \in InFlight' : Kind[e.message] = "quote" /\ k = e.key + 1
          BY <3>3
        <4> HIDE DEF InFlight
        <4> QED BY <4>1 DEF Carried
      <3>4. CASE \E b \in Connection : at[b] = "push" /\ k = key[b] + 1
        <4>1. PICK b \in Connection : at[b] = "push" /\ k = key[b] + 1
          BY <3>4
        <4>2. CASE at'[b] = "push"
          <5>1. key'[b] = key[b] /\ conn'[b] = conn[b] /\ conn[b] = "up"
            BY <4>1, <4>2 DEF Core, EventsInv
          <5>2. at'[b] = "push" /\ conn'[b] = "up" /\ k = key'[b] + 1
            BY <4>1, <4>2, <5>1
          <5> QED BY <5>2 DEF Carried
        <4>3. CASE \E e \in InFlight' : Kind[e.message] = "quote" /\ e.key = key[b]
          <5>1. PICK e \in InFlight' : Kind[e.message] = "quote" /\ k = e.key + 1
            BY <4>1, <4>3
          <5> QED BY <5>1 DEF Carried
        <4> QED BY <4>1, <4>2, <4>3
      <3> QED BY <2>1, <3>1, <3>2, <3>3, <3>4
    <2> QED BY <2>1, <2>2 DEF CarriedInv
  <1>3. TradesInv' /\ TradeOnce'
    BY DEF Core, TradesInv, TradeOnce
  <1> QED BY <1>1, <1>2, <1>3 DEF Core

LEMMA AdoptKeeps ==
    ASSUME Core, NEW c \in Connection, Adopt(c)
    PROVE  Core'
  <1>1. /\ at[c] = "lost" /\ Adopts(c)
        /\ at' = [at EXCEPT ![c] = "reclaim"]
        /\ UNCHANGED <<conn, cursor, saw, fell, claimed, won, spoiled, failures, held,
                       queue, timer, applied, window, evicted, published, exit, over>>
    BY DEF Adopt, loopVars, tableVars
  <1>2. PICK n, g : n = Number[cursor[c]] /\ g = Generation(claimed)
    OBVIOUS
  <1>3. /\ generation' = [generation EXCEPT ![c] = g]
        /\ seen' = [seen EXCEPT ![c] = n + 1]
        /\ key' = [key EXCEPT ![c] = Key(g, n)]
    BY <1>2 DEF Adopt
  <1>4. at \in [Connection -> {"next", "lost", "reclaim", "duplicate", "push"}]
        /\ {key, seen, generation} \subseteq [Connection -> Nat] /\ claimed \in Nat
    BY DEF Core, Types
  <1>5. n \in Nat /\ g \in Nat
    <2>1. cursor[c] \in Message
      BY <1>1 DEF Core, EventsInv
    <2>2. claimed # 0
      <3> SUFFICES ASSUME claimed = 0 PROVE FALSE
        OBVIOUS
      <3>1. CounterLimit \in Nat \ {0}
        BY StreamTypes
      <3>2. (0 - 1) \div CounterLimit < 0
        BY <3>1
      <3>3. Generation(0) > generation[c] /\ generation[c] \in Nat
        BY <1>1, <1>4 DEF Adopts
      <3>4. Generation(0) = (0 - 1) \div CounterLimit
        BY DEF Generation
      <3>5. (0 - 1) \div CounterLimit \in Int
        BY <3>1
      <3> QED BY <3>2, <3>3, <3>4, <3>5
    <2> QED BY <1>2, <1>4, <2>1, <2>2, StreamTypes, GenerationIsNat
  <1>6. Key(g, n) \in Nat
    BY <1>5, KeyIsNat
  <1>7. Types'
    <2>1. {key', seen', generation'} \subseteq [Connection -> Nat]
          /\ at' \in [Connection -> {"next", "lost", "reclaim", "duplicate", "push"}]
      BY <1>1, <1>3, <1>4, <1>5, <1>6
    <2>2. saw' \in [Connection -> Nat] /\ fell' \in [Connection -> BOOLEAN]
          /\ conn' \in [Connection -> {"up", "closing", "ended", "stopped"}]
          /\ cursor' \in [Connection -> 1 .. Len(Kind) + 1]
      BY <1>1 DEF Core, Types
    <2>3. /\ {claimed', applied', evicted'} \subseteq Nat /\ {won', spoiled'} \subseteq SUBSET Nat
          /\ failures' \in 0 .. MaxFailures
          /\ queue' \in Seq(Events) /\ Len(queue') <= QueueDepth
          /\ held' \in [Connection -> Seq(Events)]
          /\ window' \in Seq(Nat) /\ Len(window') <= IdentityWindow
          /\ published' \in Seq(Message)
          /\ timer' \in {"fresh", "armed", "due"}
          /\ exit' \in {"none", "signal", "guard"} /\ over' \in BOOLEAN
      BY <1>1 DEF Core, Types
    <2> QED BY <2>1, <2>2, <2>3 DEF Types
  <1>8. \A b \in Connection : b # c => at'[b] = at[b] /\ key'[b] = key[b]
    BY <1>1, <1>3, <1>4
  <1>9. at'[c] = "reclaim"
    BY <1>1, <1>4
  <1>10. HeldInv'
    BY <1>1, <1>8, <1>9 DEF Core, HeldInv
  <1>11. InFlight' = InFlight
    BY <1>1 DEF InFlight
  <1> QED BY <1>1, <1>7, <1>8, <1>9, <1>10, <1>11, OthersKeep

LEMMA DuplicateKeeps ==
    ASSUME Core, NEW c \in Connection, Duplicate(c)
    PROVE  Core'
  <1>1. /\ at[c] \in {"duplicate", "lost"}
        /\ at' = [at EXCEPT ![c] = "next"]
        /\ cursor' = [cursor EXCEPT ![c] = @ + 1]
        /\ UNCHANGED <<conn, key, saw, seen, fell, generation, claimed, won, spoiled,
                       failures, held, queue, timer, applied, window, evicted, published,
                       exit, over>>
    BY DEF Duplicate, loopVars, tableVars
  <1>2. at \in [Connection -> {"next", "lost", "reclaim", "duplicate", "push"}]
        /\ cursor \in [Connection -> 1 .. Len(Kind) + 1]
    BY DEF Core, Types
  <1>3. cursor[c] \in Message /\ cursor[c] + 1 \in 1 .. Len(Kind) + 1
    <2>1. cursor[c] \in Message
      BY <1>1 DEF Core, EventsInv
    <2> QED BY <2>1, StreamTypes
  <1>4. Types'
    <2>1. cursor' \in [Connection -> 1 .. Len(Kind) + 1]
          /\ at' \in [Connection -> {"next", "lost", "reclaim", "duplicate", "push"}]
      BY <1>1, <1>2, <1>3
    <2> QED BY <2>1, <1>1 DEF Core, Types
  <1>5. \A b \in Connection : b # c => at'[b] = at[b] /\ cursor'[b] = cursor[b]
    BY <1>1, <1>2
  <1>6. at'[c] = "next" /\ cursor'[c] = cursor[c] + 1
    BY <1>1, <1>2
  <1>7. HeldInv'
    <2>1. cursor[c] \in {m + 1 : m \in PayloadEnds \cup {0}} => held[c] = <<>>
      BY <1>1 DEF Core, HeldInv
    <2> QED BY <1>1, <1>3, <1>5, <1>6, <2>1, MovesOn DEF Core
  <1>8. InFlight' = InFlight
    BY <1>1 DEF InFlight
  <1> QED BY <1>1, <1>4, <1>5, <1>6, <1>7, <1>8, OthersKeep

(* A decode that fails, or whose event is refused: what it claimed is      *)
(* spoiled, and what it holds stays within its payload.                    *)
LEMMA DroppedKeeps ==
    ASSUME Core, NEW c \in Connection, NEW next \in 1 .. Len(Kind) + 1, Dropped(c, next),
           at[c] \in {"next", "push"},
           \A i \in DOMAIN held[c] :
               /\ held[c][i].conn = c /\ held[c][i].message < next
               /\ \A e \in PayloadEnds : held[c][i].message <= e => next <= e + 1
    PROVE  Core'
  <1>1. /\ failures < MaxFailures /\ failures' = failures + 1
        /\ at' = [at EXCEPT ![c] = "next"] /\ cursor' = [cursor EXCEPT ![c] = next]
        /\ spoiled' = spoiled \cup (IF at[c] = "push" THEN {key[c] + 1} ELSE {})
        /\ UNCHANGED <<conn, key, saw, seen, fell, generation, claimed, won, held, queue, timer,
                       applied, window, evicted, published, exit, over>>
    BY DEF Dropped, loopVars
  <1>2. /\ at \in [Connection -> {"next", "lost", "reclaim", "duplicate", "push"}]
        /\ cursor \in [Connection -> 1 .. Len(Kind) + 1] /\ key[c] \in Nat
        /\ failures \in 0 .. MaxFailures /\ MaxFailures \in Nat /\ spoiled \subseteq Nat
    BY StreamTypes DEF Core, Types
  <1>3. Types'
    <2>1. cursor' \in [Connection -> 1 .. Len(Kind) + 1]
          /\ at' \in [Connection -> {"next", "lost", "reclaim", "duplicate", "push"}]
      BY <1>1, <1>2
    <2>2. failures' \in 0 .. MaxFailures /\ spoiled' \subseteq Nat
      <3>1. failures' \in 0 .. MaxFailures
        BY <1>1, <1>2
      <3>2. {key[c] + 1} \subseteq Nat
        BY <1>2
      <3>3. spoiled' \subseteq spoiled \cup {key[c] + 1}
        BY <1>1
      <3> QED BY <3>1, <3>2, <3>3, <1>2
    <2>3. {won', spoiled'} \subseteq SUBSET Nat
      BY <2>2, <1>1 DEF Core, Types
    <2> QED BY <2>1, <2>2, <2>3, <1>1 DEF Core, Types
  <1>4. at'[c] = "next" /\ cursor'[c] = next
        /\ \A b \in Connection : b # c => at'[b] = at[b] /\ cursor'[b] = cursor[b]
    BY <1>1, <1>2
  <1>5. HeldInv'
    BY <1>1, <1>4 DEF Core, HeldInv
  <1>6. InFlight' = InFlight
    BY <1>1 DEF InFlight
  <1>7. spoiled \subseteq spoiled' /\ (at[c] = "push" => key[c] + 1 \in spoiled')
    BY <1>1
  <1> QED BY <1>1, <1>3, <1>4, <1>5, <1>6, <1>7, OthersKeep

LEMMA FailsKeeps ==
    ASSUME Core, NEW c \in Connection, Fails(c)
    PROVE  Core'
  <1>1. at[c] \in {"next", "push"} /\ cursor[c] \in Message
    BY DEF Fails, Reads, Core, EventsInv
  <1>2. PICK n, p : n = cursor[c] /\ p = PayloadEnd(n)
    OBVIOUS
  <1>3. p \in PayloadEnds /\ n <= p /\ \A e \in PayloadEnds : n <= e => p <= e
    BY <1>1, <1>2, PayloadEndIs
  <1>4. n \in Nat \ {0} /\ p + 1 \in 1 .. Len(Kind) + 1 /\ PayloadEnds \subseteq Nat
    BY <1>1, <1>2, <1>3, StreamTypes
  <1>5. n \in {m + 1 : m \in PayloadEnds \cup {0}} => held[c] = <<>>
    BY <1>1, <1>2 DEF Fails, Reads, BetweenPayloads, Core, HeldInv
  <1>6. ASSUME NEW i \in DOMAIN held[c]
        PROVE  /\ held[c][i].conn = c /\ held[c][i].message < p + 1
               /\ \A e \in PayloadEnds : held[c][i].message <= e => p + 1 <= e + 1
    <2>1. PICK h : h = held[c][i]
      OBVIOUS
    <2>2. /\ h.conn = c /\ h.message < n
          /\ \A e \in PayloadEnds : h.message <= e => n + 1 <= e + 1
      BY <1>1, <1>2, <1>5, <2>1, HeldMovesOn DEF Core
    <2>3. h.message \in Nat
      <3>1. held[c] \in Seq(Events)
        BY DEF Core, Types
      <3>2. h \in Events
        BY <2>1, <3>1
      <3> QED BY <3>2, StreamTypes DEF Events
    <2>4. \A e \in PayloadEnds : h.message <= e => p <= e
      BY <1>3, <1>4, <2>2
    <2> QED BY <1>3, <1>4, <2>1, <2>2, <2>3, <2>4
  <1>7. Dropped(c, p + 1)
    BY <1>2 DEF Fails
  <1> QED BY <1>1, <1>4, <1>6, <1>7, DroppedKeeps

LEMMA RefusedKeeps ==
    ASSUME Core, NEW c \in Connection, Refused(c)
    PROVE  Core'
  <1>1. at[c] \in {"next", "push"} /\ cursor[c] \in Message
    BY DEF Refused, Reads, Core, EventsInv
  <1>2. cursor[c] + 1 \in 1 .. Len(Kind) + 1
    BY <1>1, StreamTypes
  <1>3. cursor[c] \in {m + 1 : m \in PayloadEnds \cup {0}} => held[c] = <<>>
    BY <1>1 DEF Refused, Reads, BetweenPayloads, Core, HeldInv
  <1>4. \A i \in DOMAIN held[c] :
          /\ held[c][i].conn = c /\ held[c][i].message < cursor[c] + 1
          /\ \A e \in PayloadEnds : held[c][i].message <= e => cursor[c] + 1 <= e + 1
    BY <1>1, <1>3, HeldMovesOn DEF Core
  <1>5. Dropped(c, cursor[c] + 1)
    BY DEF Refused
  <1> QED BY <1>1, <1>2, <1>4, <1>5, DroppedKeeps

LEMMA SetOfAppended ==
    ASSUME NEW S, NEW s \in Seq(S), NEW e \in S
    PROVE  ToSet(Append(s, e)) = ToSet(s) \cup {e}
  <1>1. PICK x : x = Append(s, e)
    OBVIOUS
  <1>2. DOMAIN x = 1 .. Len(s) + 1 /\ x[Len(s) + 1] = e /\ DOMAIN s = 1 .. Len(s)
        /\ Len(s) \in Nat /\ \A i \in 1 .. Len(s) : x[i] = s[i]
    BY <1>1
  <1>3. ASSUME NEW v \in ToSet(x) PROVE v \in ToSet(s) \cup {e}
    <2>1. PICK i \in DOMAIN x : v = x[i]
      BY DEF ToSet
    <2>2. i = Len(s) + 1 \/ i \in 1 .. Len(s)
      BY <1>2
    <2> QED BY <1>2, <2>1, <2>2 DEF ToSet
  <1>4. ASSUME NEW v \in ToSet(s) PROVE v \in ToSet(x)
    <2>1. PICK i \in 1 .. Len(s) : v = s[i]
      BY <1>2 DEF ToSet
    <2>2. i \in DOMAIN x /\ v = x[i]
      BY <2>1, <1>2
    <2> QED BY <2>2 DEF ToSet
  <1>5. e \in ToSet(x)
    <2>1. Len(s) + 1 \in DOMAIN x
      BY <1>2
    <2> QED BY <2>1, <1>2 DEF ToSet
  <1> QED BY <1>1, <1>3, <1>4, <1>5

LEMMA PushKeeps ==
    ASSUME Core, NEW c \in Connection, NEW k \in Nat, Pushed(c, k), cursor[c] \in Message,
           cursor[c] \in {m + 1 : m \in PayloadEnds \cup {0}} => held[c] = <<>>,
           at[c] \in {"next", "push"}, at[c] = "push" => k = key[c],
           IF Kind[cursor[c]] = "quote" THEN at[c] = "push" ELSE k = Number[cursor[c]]
    PROVE  Core'
  <1>1. /\ at' = [at EXCEPT ![c] = "next"]
        /\ cursor' = [cursor EXCEPT ![c] = @ + 1]
        /\ UNCHANGED <<conn, key, saw, seen, fell, generation, claimed, won, spoiled,
                       failures, timer, applied, window, evicted, published, exit, over>>
    BY DEF Pushed, loopVars, tableVars
  <1>2. PICK e : e = Event(c, cursor[c], k)
    OBVIOUS
  <1>3. e \in Events /\ e.conn = c /\ e.message = cursor[c] /\ e.key = k
    BY <1>2 DEF Event, Events
  <1>4. IF Offered(c) THEN queue' = Append(queue, e) /\ held' = held
        ELSE held' = [held EXCEPT ![c] = Append(@, e)] /\ queue' = queue
    BY <1>2 DEF Pushed, Outbox
  <1>5. /\ at \in [Connection -> {"next", "lost", "reclaim", "duplicate", "push"}]
        /\ cursor \in [Connection -> 1 .. Len(Kind) + 1]
        /\ queue \in Seq(Events) /\ Len(queue) <= QueueDepth /\ held \in [Connection -> Seq(Events)]
    BY DEF Core, Types
  <1>6. cursor[c] + 1 \in 1 .. Len(Kind) + 1
    BY StreamTypes
  <1>7. /\ \A b \in Connection : b # c => at'[b] = at[b] /\ cursor'[b] = cursor[b]
        /\ at'[c] = "next" /\ cursor'[c] = cursor[c] + 1
    BY <1>1, <1>5
  <1>8. Types'
    <2>1. cursor' \in [Connection -> 1 .. Len(Kind) + 1]
          /\ at' \in [Connection -> {"next", "lost", "reclaim", "duplicate", "push"}]
      BY <1>1, <1>5, <1>6
    <2>2. queue' \in Seq(Events) /\ Len(queue') <= QueueDepth
      <3>1. CASE Offered(c)
        <4>1. queue' = Append(queue, e) /\ Len(queue) < QueueDepth /\ QueueDepth \in Nat
          BY <3>1, <1>4, StreamTypes DEF Offered
        <4>2. queue' \in Seq(Events) /\ Len(queue') = Len(queue) + 1 /\ Len(queue) \in Nat
          BY <4>1, <1>3, <1>5
        <4> QED BY <4>1, <4>2
      <3>2. CASE ~ Offered(c)
        BY <3>2, <1>4, <1>5
      <3> QED BY <3>1, <3>2
    <2>3. held' \in [Connection -> Seq(Events)]
      <3>1. Append(held[c], e) \in Seq(Events)
        BY <1>3, <1>5
      <3> QED BY <3>1, <1>4, <1>5
    <2> QED BY <2>1, <2>2, <2>3, <1>1 DEF Core, Types
  <1>9. HeldInv'
    <2>1. CASE Offered(c)
      BY <2>1, <1>4, <1>7, MovesOn DEF Core
    <2>2. CASE ~ Offered(c)
      <3>1. held' = [held EXCEPT ![c] = Append(@, e)]
        BY <2>2, <1>4
      <3>2. PICK h, x : h = held[c] /\ x = Append(h, e)
        OBVIOUS
      <3>3. h \in Seq(Events) /\ held'[c] = x
        BY <1>5, <3>1, <3>2
      <3>4. DOMAIN x = 1 .. Len(h) + 1 /\ x[Len(h) + 1] = e /\ DOMAIN h = 1 .. Len(h)
            /\ Len(h) \in Nat /\ \A i \in 1 .. Len(h) : x[i] = h[i]
        BY <1>3, <3>2, <3>3
      <3>5. \A i \in DOMAIN h :
              /\ h[i].conn = c /\ h[i].message < cursor[c] /\ h[i].message < cursor[c] + 1
              /\ \A p \in PayloadEnds : h[i].message <= p => cursor[c] + 1 <= p + 1
        BY <3>2, HeldMovesOn DEF Core
      <3>6. cursor[c] \in Nat /\ PayloadEnds \subseteq Nat
        BY StreamTypes
      <3>7. ASSUME NEW i \in DOMAIN x
            PROVE  /\ x[i].conn = c /\ x[i].message < cursor[c] + 1
                   /\ \A p \in PayloadEnds : x[i].message <= p => cursor[c] + 1 <= p + 1
        <4>1. CASE i = Len(h) + 1
          BY <4>1, <3>4, <3>6, <1>3
        <4>2. CASE i # Len(h) + 1
          <5>1. i \in DOMAIN h /\ x[i] = h[i]
            BY <4>2, <3>4
          <5> QED BY <5>1, <3>5
        <4> QED BY <4>1, <4>2
      <3>8. ASSUME NEW i \in DOMAIN x, NEW j \in DOMAIN x, i < j PROVE x[i].message < x[j].message
        <4>1. i \in 1 .. Len(h) /\ x[i] = h[i]
          BY <3>4, <3>8
        <4>2. CASE j = Len(h) + 1
          BY <4>1, <4>2, <3>4, <3>5, <1>3
        <4>3. CASE j # Len(h) + 1
          <5>1. j \in DOMAIN h /\ x[j] = h[j] /\ i \in DOMAIN h
            BY <4>1, <4>3, <3>4
          <5> QED BY <4>1, <5>1, <3>2, <3>8 DEF Core, HeldInv
        <4> QED BY <4>2, <4>3
      <3>9. \A b \in Connection : b # c => held'[b] = held[b]
        BY <3>1, <1>5
      <3>10. ASSUME NEW b \in Connection
             PROVE  /\ \A i, j \in DOMAIN held'[b] : i < j => held'[b][i].message < held'[b][j].message
                    /\ \A i \in DOMAIN held'[b] :
                          /\ held'[b][i].conn = b /\ held'[b][i].message < cursor'[b]
                          /\ \A p \in PayloadEnds : held'[b][i].message <= p => cursor'[b] <= p + 1
                    /\ at'[b] # "next" /\ cursor'[b] \in {m + 1 : m \in PayloadEnds \cup {0}} =>
                          held'[b] = <<>>
        <4>1. CASE b = c
          BY <4>1, <3>3, <3>7, <3>8, <1>7
        <4>2. CASE b # c
          BY <4>2, <3>9, <1>7 DEF Core, HeldInv
        <4> QED BY <4>1, <4>2
      <3> QED BY <3>10 DEF HeldInv
    <2> QED BY <2>1, <2>2
  <1>10. InFlight' = InFlight \cup {e}
    <2>1. \A s \in Seq(Events) : ToSet(Append(s, e)) = ToSet(s) \cup {e}
      BY <1>3, SetOfAppended
    <2>2. CASE Offered(c)
      <3>1. ToSet(queue') = ToSet(queue) \cup {e} /\ held' = held
        BY <2>1, <2>2, <1>4, <1>5
      <3> QED BY <3>1 DEF InFlight
    <2>3. CASE ~ Offered(c)
      <3>1. queue' = queue /\ ToSet(held'[c]) = ToSet(held[c]) \cup {e}
            /\ \A b \in Connection : b # c => held'[b] = held[b]
        BY <2>1, <2>3, <1>4, <1>5
      <3> QED BY <3>1 DEF InFlight
    <2> QED BY <2>2, <2>3
  <1>11. IF Kind[e.message] = "quote" THEN e.key + 1 <= claimed ELSE e.key = Number[e.message]
    BY <1>3 DEF Core, EventsInv
  <1>12. \A b \in Connection : at[b] = "push" =>
            at'[b] = "push" \/ \E f \in InFlight' : Kind[f.message] = "quote" /\ f.key = key[b]
    <2>1. at[c] = "push" => Kind[e.message] = "quote" /\ e.key = key[c]
      BY <1>3 DEF Core, EventsInv
    <2> QED BY <2>1, <1>7, <1>10
  <1> QED BY <1>1, <1>7, <1>8, <1>9, <1>10, <1>11, <1>12, OthersKeep

LEMMA PushQuoteKeeps ==
    ASSUME Core, NEW c \in Connection, PushQuote(c)
    PROVE  Core'
  <1>1. at[c] = "push" /\ Pushed(c, key[c])
    BY DEF PushQuote
  <1>2. key[c] \in Nat /\ cursor[c] \in Message /\ Kind[cursor[c]] = "quote"
    BY <1>1 DEF Core, Types, EventsInv
  <1>3. cursor[c] \in {m + 1 : m \in PayloadEnds \cup {0}} => held[c] = <<>>
    <2>1. HeldInv /\ at[c] # "next"
      BY <1>1 DEF Core
    <2> QED BY <2>1, SMTT(30) DEF HeldInv
  <1> QED BY <1>1, <1>2, <1>3, PushKeeps

LEMMA PushTradeKeeps ==
    ASSUME Core, NEW c \in Connection, PushTrade(c)
    PROVE  Core'
  <1>1. /\ at[c] = "next" /\ cursor[c] \in Message /\ Kind[cursor[c]] = "trade"
        /\ Pushed(c, Number[cursor[c]])
        /\ BetweenPayloads(c) => held[c] = <<>>
    BY DEF PushTrade, Reads
  <1>2. cursor[c] \in {m + 1 : m \in PayloadEnds \cup {0}} => held[c] = <<>>
    BY <1>1 DEF BetweenPayloads
  <1>3. Number[cursor[c]] \in Nat
    BY <1>1, StreamTypes
  <1> QED BY <1>1, <1>2, <1>3, PushKeeps

LEMMA SetOfTail ==
    ASSUME NEW S, NEW s \in Seq(S), s # <<>>
    PROVE  ToSet(s) = ToSet(Tail(s)) \cup {Head(s)} /\ Head(s) \in S /\ Tail(s) \in Seq(S)
  <1>1. PICK t : t = Tail(s)
    OBVIOUS
  <1>2. DOMAIN s = 1 .. Len(s) /\ Len(s) \in Nat \ {0} /\ Head(s) = s[1] /\ t \in Seq(S)
        /\ DOMAIN t = 1 .. Len(s) - 1 /\ \A i \in 1 .. Len(s) - 1 : t[i] = s[i + 1]
    BY <1>1
  <1>3. ASSUME NEW v \in ToSet(s) PROVE v \in ToSet(t) \cup {Head(s)}
    <2>1. PICK i \in DOMAIN s : v = s[i]
      BY DEF ToSet
    <2>2. CASE i = 1
      BY <2>1, <2>2, <1>2
    <2>3. CASE i # 1
      <3>1. i - 1 \in DOMAIN t /\ v = t[i - 1]
        BY <2>1, <2>3, <1>2
      <3> QED BY <3>1 DEF ToSet
    <2> QED BY <2>2, <2>3
  <1>4. ASSUME NEW v \in ToSet(t) PROVE v \in ToSet(s)
    <2>1. PICK i \in DOMAIN t : v = t[i]
      BY DEF ToSet
    <2>2. i + 1 \in DOMAIN s /\ v = s[i + 1]
      BY <2>1, <1>2
    <2> QED BY <2>2 DEF ToSet
  <1>5. Head(s) \in ToSet(s) /\ Head(s) \in S
    <2>1. 1 \in DOMAIN s /\ s[1] \in S
      BY <1>2
    <2> QED BY <2>1, <1>2 DEF ToSet
  <1> QED BY <1>1, <1>2, <1>3, <1>4, <1>5

LEMMA FlushKeeps ==
    ASSUME Core, NEW c \in Connection, Flush(c)
    PROVE  Core'
  <1>1. /\ BetweenPayloads(c) /\ held[c] # <<>> /\ Len(queue) < QueueDepth
        /\ queue' = Append(queue, Head(held[c]))
        /\ held' = [held EXCEPT ![c] = Tail(@)]
        /\ UNCHANGED <<conn, cursor, at, key, saw, seen, fell, generation, claimed, won,
                       spoiled, failures, timer, applied, window, evicted, published, exit,
                       over>>
    BY DEF Flush, decoderVars, loopVars, tableVars
  <1>2. PICK h, e, t : h = held[c] /\ e = Head(h) /\ t = Tail(h)
    OBVIOUS
  <1>3. h \in Seq(Events) /\ queue \in Seq(Events) /\ held \in [Connection -> Seq(Events)]
    BY <1>2 DEF Core, Types
  <1>4. ToSet(h) = ToSet(t) \cup {e} /\ e \in Events /\ t \in Seq(Events)
    BY <1>1, <1>2, <1>3, SetOfTail
  <1>5. held'[c] = t /\ \A b \in Connection : b # c => held'[b] = held[b]
    BY <1>1, <1>2, <1>3
  <1>6. Types'
    <2>1. queue' \in Seq(Events) /\ Len(queue') <= QueueDepth
      <3>1. queue' \in Seq(Events) /\ Len(queue') = Len(queue) + 1 /\ Len(queue) \in Nat
        BY <1>1, <1>2, <1>3, <1>4
      <3>2. QueueDepth \in Nat
        BY StreamTypes
      <3> QED BY <3>1, <3>2, <1>1
    <2>2. held' \in [Connection -> Seq(Events)]
      BY <1>1, <1>2, <1>3, <1>4
    <2> QED BY <2>1, <2>2, <1>1 DEF Core, Types
  <1>7. HeldInv'
    <2>1. DOMAIN t = 1 .. Len(h) - 1 /\ DOMAIN h = 1 .. Len(h) /\ Len(h) \in Nat
          /\ \A i \in DOMAIN t : i + 1 \in DOMAIN h /\ t[i] = h[i + 1]
      BY <1>1, <1>2, <1>3
    <2>2. \A i, j \in DOMAIN t : i < j => t[i].message < t[j].message
      <3> SUFFICES ASSUME NEW i \in DOMAIN t, NEW j \in DOMAIN t, i < j
                   PROVE  t[i].message < t[j].message
        OBVIOUS
      <3>1. i + 1 \in DOMAIN h /\ j + 1 \in DOMAIN h /\ i + 1 < j + 1
        BY <2>1
      <3> QED BY <3>1, <2>1, <1>2, SMTT(30) DEF Core, HeldInv
    <2>3. \A i \in DOMAIN t :
            /\ t[i].conn = c /\ t[i].message < cursor[c]
            /\ \A p \in PayloadEnds : t[i].message <= p => cursor[c] <= p + 1
      BY <2>1, <1>2 DEF Core, HeldInv
    <2>4. at[c] = "next"
      BY <1>1 DEF BetweenPayloads
    <2> QED BY <2>2, <2>3, <2>4, <1>1, <1>5, SMTT(30) DEF Core, HeldInv
  <1>8. InFlight' = InFlight
    <2>1. ToSet(queue') = ToSet(queue) \cup {e}
      BY <1>1, <1>2, <1>3, <1>4, SetOfAppended
    <2>2. ToSet(held[c]) = ToSet(held'[c]) \cup {e}
      BY <1>2, <1>4, <1>5
    <2> QED BY <2>1, <2>2, <1>5 DEF InFlight
  <1> QED BY <1>1, <1>6, <1>7, <1>8, OthersKeep

(* The steps that only move a connection, the tick or the exit.            *)
LEMMA QuietKeeps ==
    ASSUME Core, Types',
           UNCHANGED <<cursor, at, key, claimed, won, spoiled, failures, held, queue,
                       applied, window, evicted, published>>,
           \A b \in Connection : at[b] # "next" => conn'[b] = conn[b]
    PROVE  Core'
  <1>1. HeldInv'
    BY DEF Core, HeldInv
  <1>2. InFlight' = InFlight
    BY DEF InFlight
  <1> QED BY <1>1, <1>2, OthersKeep

LEMMA LifecycleKeeps ==
    ASSUME Core, NEW c \in Connection, Lifecycle(c) \/ Stop(c)
    PROVE  Core'
  <1>1. conn \in [Connection -> {"up", "closing", "ended", "stopped"}]
    BY DEF Core, Types
  <1>2. CASE Disconnect(c)
    <2>1. Types'
      BY <1>1, <1>2 DEF Core, Types, Disconnect, decoderVars, loopVars, tableVars
    <2>2. at[c] = "next" /\ \A b \in Connection : b # c => conn'[b] = conn[b]
      BY <1>1, <1>2 DEF Disconnect, BetweenPayloads
    <2> QED BY <1>2, <2>1, <2>2, QuietKeeps DEF Disconnect, decoderVars, loopVars, tableVars
  <1>3. CASE GiveUp(c)
    <2>1. Types'
      BY <1>1, <1>3 DEF Core, Types, GiveUp, Exits, decoderVars,
         tableVars
    <2>2. at[c] = "next" /\ \A b \in Connection : b # c => conn'[b] = conn[b]
      BY <1>1, <1>3 DEF GiveUp, Core, EventsInv
    <2> QED BY <1>3, <2>1, <2>2, QuietKeeps DEF GiveUp, decoderVars, tableVars
  <1>4. CASE Stop(c)
    <2>1. Types'
      BY <1>1, <1>4 DEF Core, Types, Stop, decoderVars, loopVars, tableVars
    <2>2. at[c] = "next" /\ \A b \in Connection : b # c => conn'[b] = conn[b]
      BY <1>1, <1>4 DEF Stop, Stops, BetweenPayloads
    <2> QED BY <1>4, <2>1, <2>2, QuietKeeps DEF Stop, decoderVars, loopVars, tableVars
  <1>5. CASE Reconnect(c)
    <2>1. /\ conn[c] = "closing" /\ held[c] = <<>>
          /\ conn' = [conn EXCEPT ![c] = "up"]
          /\ UNCHANGED <<at, key, saw, seen, fell, generation, claimed, won, spoiled,
                         failures, held, queue, timer, applied, window, evicted, published,
                         exit, over>>
      BY <1>5 DEF Reconnect, loopVars, tableVars
    <2>2. PICK m \in PayloadEnds \cup {0} : cursor' = [cursor EXCEPT ![c] = m + 1]
      BY <1>5 DEF Reconnect
    <2>3. m + 1 \in 1 .. Len(Kind) + 1
      BY StreamTypes
    <2>4. Types'
      <3>1. cursor \in [Connection -> 1 .. Len(Kind) + 1]
        BY DEF Core, Types
      <3>2. cursor' \in [Connection -> 1 .. Len(Kind) + 1]
            /\ conn' \in [Connection -> {"up", "closing", "ended", "stopped"}]
        BY <1>1, <2>1, <2>2, <2>3, <3>1
      <3> QED BY <2>1, <3>2 DEF Core, Types
    <2>5. at[c] = "next"
      BY <2>1 DEF Core, EventsInv
    <2>6. \A b \in Connection : b # c => conn'[b] = conn[b] /\ cursor'[b] = cursor[b]
      BY <1>1, <2>1, <2>2 DEF Core, Types
    <2>7. HeldInv'
      <3>1. DOMAIN held[c] = {}
        BY <2>1
      <3> QED BY <2>1, <2>5, <2>6, <3>1 DEF Core, HeldInv
    <2>8. InFlight' = InFlight
      BY <2>1 DEF InFlight
    <2> QED BY <2>1, <2>4, <2>5, <2>6, <2>7, <2>8, OthersKeep
  <1> QED BY <1>2, <1>3, <1>4, <1>5 DEF Lifecycle

LEMMA TimersKeep ==
    ASSUME Core, Tick \/ TickDue \/ Signal \/ Finished
    PROVE  Core'
  <1>1. CASE Tick
    BY <1>1, QuietKeeps DEF Tick, decoderVars, tableVars, Core, Types
  <1>2. CASE TickDue
    BY <1>2, QuietKeeps DEF TickDue, decoderVars, tableVars, Core, Types
  <1>3. CASE Signal
    BY <1>3, QuietKeeps DEF Signal, Exits, decoderVars, tableVars, Core, Types
  <1>4. CASE Finished
    BY <1>4, QuietKeeps DEF Finished, decoderVars, loopVars, tableVars, Core, Types
  <1> QED BY <1>1, <1>2, <1>3, <1>4

-----------------------------------------------------------------------------
(* The steps that apply a batch.                                           *)

LEMMA SetOfParts ==
    ASSUME NEW S, NEW s \in Seq(S), NEW k \in 0 .. Len(s)
    PROVE  /\ ToSet(s) = ToSet(SubSeq(s, 1, k)) \cup ToSet(SubSeq(s, k + 1, Len(s)))
           /\ SubSeq(s, 1, k) \in Seq(S) /\ SubSeq(s, k + 1, Len(s)) \in Seq(S)
  <1>0. PICK a, b : a = SubSeq(s, 1, k) /\ b = SubSeq(s, k + 1, Len(s))
    OBVIOUS
  <1>1. /\ a \in Seq(S) /\ b \in Seq(S) /\ Len(s) \in Nat /\ DOMAIN s = 1 .. Len(s)
        /\ DOMAIN a = 1 .. k /\ DOMAIN b = 1 .. Len(s) - k
        /\ \A i \in 1 .. k : a[i] = s[i]
        /\ \A i \in 1 .. Len(s) - k : b[i] = s[k + i]
    <2>1. /\ a \in Seq(S) /\ b \in Seq(S) /\ Len(a) = k /\ Len(b) = Len(s) - k
          /\ \A i \in 1 .. k : a[i] = s[i]
          /\ \A i \in 1 .. Len(s) - k : b[i] = s[k + i]
      BY <1>0, PartsOf
    <2> QED BY <2>1
  <1>2. ASSUME NEW v \in ToSet(s) PROVE v \in ToSet(a) \cup ToSet(b)
    <2>1. PICK i \in 1 .. Len(s) : v = s[i]
      BY <1>1 DEF ToSet
    <2>2. CASE i <= k
      <3>1. i \in DOMAIN a /\ v = a[i]
        BY <2>1, <2>2, <1>1
      <3> QED BY <3>1 DEF ToSet
    <2>3. CASE ~ (i <= k)
      <3>1. i - k \in DOMAIN b /\ v = b[i - k]
        BY <2>1, <2>3, <1>1, SMTT(30)
      <3> QED BY <3>1 DEF ToSet
    <2> QED BY <2>2, <2>3
  <1>3. ASSUME NEW v \in ToSet(a) PROVE v \in ToSet(s)
    <2>1. PICK i \in DOMAIN a : v = a[i]
      BY DEF ToSet
    <2>2. i \in DOMAIN s /\ v = s[i]
      BY <2>1, <1>1
    <2> QED BY <2>2 DEF ToSet
  <1>4. ASSUME NEW v \in ToSet(b) PROVE v \in ToSet(s)
    <2>1. PICK i \in DOMAIN b : v = b[i]
      BY DEF ToSet
    <2>2. k + i \in DOMAIN s /\ v = s[k + i]
      BY <2>1, <1>1
    <2> QED BY <2>2 DEF ToSet
  <1> QED BY <1>0, <1>1, <1>2, <1>3, <1>4

LEMMA NowTyped ==
    ASSUME Core
    PROVE  Now \in LoopState /\ Len(Now.window) <= IdentityWindow /\ TradesKnown(Now)
  <1>1. Now \in LoopState /\ Len(Now.window) <= IdentityWindow
    BY DEF Core, Types, Now, LoopState
  <1>2. TradesKnown(Now)
    BY DEF Core, TradesInv, TradeOnce, TradesKnown, KnownIn, Now
  <1> QED BY <1>1, <1>2

LEMMA ApplyKeeps ==
    ASSUME Core, NEW s \in Seq(Events), ToSet(s) \subseteq InFlight, Apply(s),
           queue' \in Seq(Events), Len(queue') <= QueueDepth, held' \in [Connection -> Seq(Events)],
           HeldInv', InFlight' \subseteq InFlight, InFlight \subseteq InFlight' \cup ToSet(s),
           timer' \in {"fresh", "armed", "due"},
           UNCHANGED <<conn, decoderVars, tableVars, exit, over>>
    PROVE  Core'
  <1>1. PICK d : /\ Judging(s, d)
                 /\ applied' = d[Len(s)].applied /\ window' = d[Len(s)].window
                 /\ evicted' = d[Len(s)].evicted /\ published' = d[Len(s)].published
    BY NowTyped, ApplyJudges
  <1>2. PICK x : x = d[Len(s)]
    OBVIOUS
  <1>3. x \in LoopState
    <2>1. Len(s) \in 0 .. Len(s)
      OBVIOUS
    <2> QED BY <1>1, <1>2, <2>1 DEF Judging
  <1>4. UNCHANGED <<conn, cursor, at, key, saw, seen, fell, generation, claimed, won,
                    spoiled, failures, exit, over>>
    BY DEF decoderVars, tableVars
  <1>5. DOMAIN s = 1 .. Len(s) /\ \A i \in DOMAIN s : s[i] \in ToSet(s) /\ s[i] \in InFlight /\ s[i] \in Events
    BY DEF ToSet
  <1>6. /\ Len(x.window) <= IdentityWindow
        /\ applied <= x.applied
        /\ \A i \in DOMAIN s : Kind[s[i].message] = "quote" => s[i].key + 1 <= x.applied
        /\ \/ x.applied = applied
           \/ \E i \in DOMAIN s : Kind[s[i].message] = "quote" /\ x.applied = s[i].key + 1
    <2>1. Now.applied = applied
      BY DEF Now
    <2> QED BY <1>1, <1>2, <2>1, NowTyped, JudgingKeys
  <1>7. TradesKnown(x)
    <2>1. \A i \in DOMAIN s : Kind[s[i].message] = "trade" => s[i].key = Number[s[i].message]
      BY <1>5 DEF Core, EventsInv
    <2> QED BY <1>1, <1>2, <2>1, NowTyped, JudgingTrades
  <1>8. Types'
    <2>1. /\ x.applied \in Nat /\ x.evicted \in Nat /\ x.window \in Seq(Nat)
          /\ x.published \in Seq(Message)
      BY <1>3 DEF LoopState
    <2>2. /\ {claimed, applied, evicted}' \subseteq Nat
          /\ window' \in Seq(Nat) /\ Len(window') <= IdentityWindow
          /\ published' \in Seq(Message)
      BY <2>1, <1>1, <1>2, <1>4, <1>6 DEF Core, Types
    <2> QED BY <2>2, <1>4 DEF Core, Types
  <1>9. x.applied <= claimed /\ applied' = x.applied
    BY <1>1, <1>2, <1>5, <1>6 DEF Core, EventsInv
  <1>10. EventsInv'
    BY <1>4, <1>9 DEF Core, EventsInv
  <1>11. CarriedInv'
    <2>1. x.applied \in Nat /\ applied \in Nat /\ won \subseteq Nat
      BY <1>3 DEF LoopState, Core, Types
    <2>2. claimed \in won \cup {0} /\ \A k \in won \ spoiled : k <= applied \/ k \in Carried
      BY DEF Core, CarriedInv
    <2>3. ASSUME NEW k \in won' \ spoiled' PROVE k <= applied' \/ k \in Carried'
      <3>1. k \in won \ spoiled /\ k \in Nat
        BY <2>1, <1>4
      <3>2. ASSUME k \in Carried
            PROVE  \/ \E e \in InFlight : Kind[e.message] = "quote" /\ k = e.key + 1
                   \/ \E b \in Connection : at[b] = "push" /\ conn[b] = "up" /\ k = key[b] + 1
        BY <3>2 DEF Carried
      <3>3. CASE k <= applied
        BY <3>1, <3>3, <2>1, <1>6, <1>9
      <3>4. CASE \E e \in InFlight : Kind[e.message] = "quote" /\ k = e.key + 1
        <4>1. PICK e \in InFlight : Kind[e.message] = "quote" /\ k = e.key + 1
          BY <3>4
        <4>2. CASE e \in InFlight'
          <5> HIDE DEF InFlight
          <5> QED BY <4>1, <4>2 DEF Carried
        <4>3. CASE e \in ToSet(s)
          <5>1. PICK i \in DOMAIN s : e = s[i]
            BY <4>3 DEF ToSet
          <5> QED BY <5>1, <4>1, <1>6, <1>9
        <4> QED BY <4>1, <4>2, <4>3
      <3>5. CASE \E b \in Connection : at[b] = "push" /\ conn[b] = "up" /\ k = key[b] + 1
        <4>1. PICK b \in Connection : at'[b] = "push" /\ conn'[b] = "up" /\ k = key'[b] + 1
          BY <3>5, <1>4
        <4> QED BY <4>1 DEF Carried
      <3> QED BY <2>2, <3>1, <3>2, <3>3, <3>4, <3>5
    <2> QED BY <2>2, <2>3, <1>4 DEF CarriedInv
  <1>12. TradesInv' /\ TradeOnce'
    BY <1>1, <1>2, <1>7 DEF TradesKnown, KnownIn, TradesInv, TradeOnce
  <1> QED BY <1>8, <1>10, <1>11, <1>12 DEF Core

LEMMA TakeBatchKeeps ==
    ASSUME Core, TakeBatch, timer' \in {"fresh", "armed", "due"}
    PROVE  Core'
  <1>1. queue \in Seq(Events) /\ Len(queue) <= QueueDepth
    BY DEF Core, Types
  <1>2. PICK k \in 0 .. Len(queue) :
          Prefix(queue) = SubSeq(queue, 1, k) /\ Rest(queue) = SubSeq(queue, k + 1, Len(queue))
    BY <1>1, BatchOf
  <1>3. PICK a, b : a = SubSeq(queue, 1, k) /\ b = SubSeq(queue, k + 1, Len(queue))
    OBVIOUS
  <1>4. /\ Apply(a) /\ queue' = b /\ held' = held
        /\ UNCHANGED <<conn, decoderVars, tableVars, exit, over>>
    BY <1>2, <1>3 DEF TakeBatch
  <1>5. ToSet(queue) = ToSet(a) \cup ToSet(b) /\ a \in Seq(Events) /\ b \in Seq(Events)
    BY <1>1, <1>3, SetOfParts
  <1>6. Len(b) <= QueueDepth
    <2>1. Len(b) = Len(queue) - k
      BY <1>1, <1>3, PartsOf
    <2>2. QueueDepth \in Nat
      BY StreamTypes
    <2> QED BY <1>1, <2>1, <2>2
  <1>7. InFlight' \subseteq InFlight /\ InFlight \subseteq InFlight' \cup ToSet(a) /\ ToSet(a) \subseteq InFlight
    BY <1>4, <1>5 DEF InFlight
  <1>8. HeldInv' /\ held' \in [Connection -> Seq(Events)]
    BY <1>4 DEF Core, Types, HeldInv, decoderVars, tableVars
  <1> QED BY <1>4, <1>5, <1>6, <1>7, <1>8, ApplyKeeps

LEMMA FinishHeldKeeps ==
    ASSUME Core, NEW c \in Connection, FinishHeld(c)
    PROVE  Core'
  <1>1. PICK h : h = held[c]
    OBVIOUS
  <1>2. h \in Seq(Events) /\ held \in [Connection -> Seq(Events)]
    BY <1>1 DEF Core, Types
  <1>3. PICK k \in 0 .. Len(h) : Prefix(h) = SubSeq(h, 1, k) /\ Rest(h) = SubSeq(h, k + 1, Len(h))
    BY <1>2, BatchOf
  <1>4. PICK a, b : a = SubSeq(h, 1, k) /\ b = SubSeq(h, k + 1, Len(h))
    OBVIOUS
  <1>5. /\ Apply(a) /\ held' = [held EXCEPT ![c] = b] /\ queue' = queue
        /\ UNCHANGED <<conn, decoderVars, tableVars, timer, exit, over>>
    BY <1>1, <1>3, <1>4 DEF FinishHeld
  <1>6. ToSet(h) = ToSet(a) \cup ToSet(b) /\ a \in Seq(Events) /\ b \in Seq(Events)
    BY <1>2, <1>4, SetOfParts
  <1>7. held'[c] = b /\ \A d \in Connection : d # c => held'[d] = held[d]
    BY <1>2, <1>5
  <1>8. InFlight' \subseteq InFlight /\ InFlight \subseteq InFlight' \cup ToSet(a) /\ ToSet(a) \subseteq InFlight
    BY <1>1, <1>5, <1>6, <1>7 DEF InFlight
  <1>9. held' \in [Connection -> Seq(Events)]
    BY <1>2, <1>5, <1>6
  <1>10. HeldInv'
    <2>1. DOMAIN b = 1 .. Len(h) - k /\ DOMAIN h = 1 .. Len(h) /\ Len(h) \in Nat
          /\ \A i \in DOMAIN b : k + i \in DOMAIN h /\ b[i] = h[k + i]
      <3>1. b \in Seq(Events) /\ Len(b) = Len(h) - k /\ \A i \in 1 .. Len(h) - k : b[i] = h[k + i]
        BY <1>2, <1>4, PartsOf
      <3>2. DOMAIN b = 1 .. Len(b) /\ DOMAIN h = 1 .. Len(h) /\ Len(h) \in Nat
        BY <3>1, <1>2
      <3> QED BY <3>1, <3>2
    <2>2. \A i, j \in DOMAIN b : i < j => b[i].message < b[j].message
      <3> SUFFICES ASSUME NEW i \in DOMAIN b, NEW j \in DOMAIN b, i < j
                   PROVE  b[i].message < b[j].message
        OBVIOUS
      <3>1. k + i \in DOMAIN h /\ k + j \in DOMAIN h /\ k + i < k + j
        BY <2>1
      <3> QED BY <3>1, <2>1, <1>1 DEF Core, HeldInv
    <2>3. \A i \in DOMAIN b :
            /\ b[i].conn = c /\ b[i].message < cursor[c]
            /\ \A p \in PayloadEnds : b[i].message <= p => cursor[c] <= p + 1
      BY <2>1, <1>1 DEF Core, HeldInv
    <2>4. h = <<>> => b = <<>>
      BY <1>4, <1>2
    <2>5. cursor' = cursor /\ at' = at
      BY <1>5 DEF decoderVars, tableVars
    <2> QED BY <2>2, <2>3, <2>4, <2>5, <1>1, <1>7 DEF Core, HeldInv
  <1>11. queue' \in Seq(Events) /\ Len(queue') <= QueueDepth /\ timer' \in {"fresh", "armed", "due"}
    BY <1>5 DEF Core, Types
  <1> QED BY <1>5, <1>6, <1>8, <1>9, <1>10, <1>11, ApplyKeeps

-----------------------------------------------------------------------------
(* The theorems about what is carried and applied.                         *)

LEMMA InitCore == Init => Core
  <1> SUFFICES ASSUME Init PROVE Core
    OBVIOUS
  <1>1. Types
    <2>1. <<>> \in Seq(Events) /\ Len(<<>>) = 0 /\ <<>> \in Seq(Nat) /\ <<>> \in Seq(Message)
      OBVIOUS
    <2>2. 1 \in 1 .. Len(Kind) + 1 /\ QueueDepth \in Nat /\ IdentityWindow \in Nat
      BY StreamTypes
    <2>3. {key, saw, seen, generation} \subseteq [Connection -> Nat]
          /\ fell \in [Connection -> BOOLEAN] /\ held \in [Connection -> Seq(Events)]
          /\ cursor \in [Connection -> 1 .. Len(Kind) + 1]
      BY <2>1, <2>2 DEF Init
    <2>4. {claimed, applied, evicted} \subseteq Nat /\ queue = <<>> /\ window = <<>> /\ published = <<>>
          /\ {won, spoiled} \subseteq SUBSET Nat
      BY DEF Init
    <2>6. failures \in 0 .. MaxFailures
      BY StreamTypes DEF Init
    <2>5. /\ conn \in [Connection -> {"up", "closing", "ended", "stopped"}]
          /\ at \in [Connection -> {"next", "lost", "reclaim", "duplicate", "push"}]
          /\ timer \in {"fresh", "armed", "due"}
          /\ exit \in {"none", "signal", "guard"} /\ over \in BOOLEAN
      BY DEF Init
    <2> QED BY <2>1, <2>2, <2>3, <2>4, <2>5, <2>6 DEF Types
  <1>2. InFlight = {}
    <2>1. ToSet(<<>>) = {}
      BY DEF ToSet
    <2> QED BY <2>1 DEF Init, InFlight
  <1>3. EventsInv
    BY <1>2 DEF Init, EventsInv
  <1>4. HeldInv
    BY DEF Init, HeldInv
  <1>5. CarriedInv
    BY DEF Init, CarriedInv
  <1>6. TradesInv /\ TradeOnce
    <2>1. DOMAIN published = {}
      BY DEF Init
    <2> QED BY <2>1 DEF TradesInv, TradeOnce
  <1> QED BY <1>1, <1>3, <1>4, <1>5, <1>6 DEF Core

LEMMA NextCore == Core /\ [Next]_vars => Core'
  <1> SUFFICES ASSUME Core, [Next]_vars PROVE Core'
    OBVIOUS
  <1>1. ASSUME NEW c \in Connection, Decode(c) PROVE Core'
    BY <1>1, ClaimKeeps, AdoptKeeps, ReclaimKeeps, DuplicateKeeps, PushQuoteKeeps,
       PushTradeKeeps,
       FailsKeeps, RefusedKeeps DEF Decode
  <1>2. ASSUME NEW c \in Connection, Flush(c) \/ Lifecycle(c) \/ Stop(c) PROVE Core'
    BY <1>2, FlushKeeps, LifecycleKeeps
  <1>3. CASE LoopBatch
    BY <1>3, TakeBatchKeeps DEF LoopBatch
  <1>4. CASE FinishQueue
    BY <1>4, TakeBatchKeeps DEF FinishQueue, Core, Types
  <1>5. ASSUME NEW c \in Connection, FinishHeld(c) PROVE Core'
    BY <1>5, FinishHeldKeeps
  <1>6. CASE Tick \/ TickDue \/ Signal \/ Finished
    BY <1>6, TimersKeep
  <1>7. CASE UNCHANGED vars
    BY <1>7, QuietKeeps DEF vars, decoderVars, loopVars, tableVars, Core, Types
  <1> QED BY <1>1, <1>2, <1>3, <1>4, <1>5, <1>6, <1>7 DEF Next, Loop, WindDown

LEMMA CoreBounds == Core => ClaimedIsCarried
  <1> SUFFICES ASSUME Core PROVE ClaimedIsCarried
    OBVIOUS
  <1>1. \A c \in Connection : Len(held[c]) <= LongestPayload
    <2> SUFFICES ASSUME NEW c \in Connection PROVE Len(held[c]) <= LongestPayload
      OBVIOUS
    <2>1. PICK h, n : h = held[c] /\ n = cursor[c]
      OBVIOUS
    <2>2. h \in Seq(Events) /\ n \in 1 .. Len(Kind) + 1
      BY <2>1 DEF Core, Types
    <2>3. /\ \A i, j \in DOMAIN h : i < j => h[i].message < h[j].message
          /\ \A i \in DOMAIN h :
                h[i].message < n /\ \A e \in PayloadEnds : h[i].message <= e => n <= e + 1
      BY <2>1 DEF Core, HeldInv
    <2> QED BY <2>1, <2>2, <2>3, PayloadBounds
  <1>2. IntakeTypeOK
    BY <1>1 DEF Core, Types, IntakeTypeOK
  <1> QED BY <1>2 DEF Core, CarriedInv, ClaimedIsCarried

(* Every key a decoder won in the shared table (ReadBook::claim) is        *)
(* applied by the loop or superseded there, or on its way to it, unless    *)
(* its decode failed behind the claim or its event was refused: no queue,  *)
(* reconnect, flush or wind-down loses a quote that the claim made every   *)
(* other connection drop.                                                  *)
THEOREM ClaimsAreCarried == Spec => []ClaimedIsCarried
  BY InitCore, NextCore, CoreBounds, PTL DEF Spec

(* The loop's window of identities lets no trade be applied twice, however *)
(* late the copies another connection delivers.                            *)
THEOREM TradesAppliedOnce == Spec => []TradeOnce
  <1>1. Core => TradeOnce
    BY DEF Core
  <1> QED BY InitCore, NextCore, <1>1, PTL DEF Spec

-----------------------------------------------------------------------------
(* What is on its way for a connection.                                    *)

Gathers(c, s, f) ==
    /\ f \in [0 .. Len(s) -> Seq(Message)]
    /\ f[0] = <<>>
    /\ \A n \in 1 .. Len(s) :
          f[n] = IF s[n].conn = c THEN Append(f[n - 1], s[n].message) ELSE f[n - 1]

LEMMA GathersExists ==
    ASSUME NEW c, NEW s \in Seq(Events)
    PROVE  \E f : Gathers(c, s, f)
  <1> DEFINE L == Len(s)
             Step(g, n) == IF s[n].conn = c THEN Append(g, s[n].message) ELSE g
             Upto(k) == {f \in [0 .. k -> Seq(Message)] :
                            f[0] = <<>> /\ \A n \in 1 .. k : f[n] = Step(f[n - 1], n)}
             T == {k \in 0 .. L : Upto(k) # {}}
  <1>0. \A n \in 1 .. L : s[n].message \in Message
    <2>1. \A n \in 1 .. L : s[n] \in Events
      OBVIOUS
    <2> QED BY <2>1 DEF Events
  <1>1. 0 \in T
    <2>1. [n \in 0 .. 0 |-> <<>>] \in Upto(0)
      OBVIOUS
    <2> QED BY <2>1
  <1>2. ASSUME NEW k \in 1 .. L, k - 1 \in T PROVE k \in T
    <2>1. PICK f \in Upto(k - 1) : TRUE
      BY <1>2
    <2>2. f \in [0 .. k - 1 -> Seq(Message)] /\ f[0] = <<>>
          /\ \A n \in 1 .. k - 1 : f[n] = Step(f[n - 1], n)
      BY <2>1
    <2>3. Step(f[k - 1], k) \in Seq(Message)
      <3>1. f[k - 1] \in Seq(Message) /\ s[k].message \in Message
        BY <2>2, <1>0
      <3> QED BY <3>1
    <2> HIDE DEF Step
    <2>4. PICK g : g = [n \in 0 .. k |-> IF n = k THEN Step(f[k - 1], k) ELSE f[n]]
      OBVIOUS
    <2>5. g \in [0 .. k -> Seq(Message)]
      BY <2>2, <2>3, <2>4
    <2>6. g[0] = <<>> /\ \A n \in 1 .. k : g[n] = Step(g[n - 1], n)
      <3>1. g[0] = <<>>
        BY <2>2, <2>4
      <3>2. ASSUME NEW n \in 1 .. k PROVE g[n] = Step(g[n - 1], n)
        <4>1. g[n - 1] = f[n - 1]
          BY <2>4
        <4> QED BY <4>1, <2>2, <2>4, SMTT(30)
      <3> QED BY <3>1, <3>2
    <2>7. g \in Upto(k)
      BY <2>5, <2>6
    <2>8. k \in 0 .. L
      OBVIOUS
    <2> HIDE DEF Upto
    <2> QED BY <2>7, <2>8
  <1>3. L \in T
    <2>1. T \in SUBSET (0 .. L) /\ L \in Nat
      OBVIOUS
    <2> HIDE DEF T
    <2>2. \A n \in 0 .. L : n \in T
      BY <1>1, <1>2, <2>1, UpTo
    <2>3. L \in 0 .. L
      OBVIOUS
    <2> QED BY <2>2, <2>3
  <1>4. PICK f \in Upto(L) : TRUE
    BY <1>3
  <1> QED BY <1>4 DEF Gathers

LEMMA MessagesOfGathers ==
    ASSUME NEW c, NEW s \in Seq(Events)
    PROVE  \E f : Gathers(c, s, f) /\ MessagesOf(c, s) = f[Len(s)]
  <1> DEFINE F(f) == [n \in 0 .. Len(s) |->
                         IF n = 0 THEN <<>>
                         ELSE IF s[n].conn = c THEN Append(f[n - 1], s[n].message) ELSE f[n - 1]]
             f == CHOOSE g : g = F(g)
  <1>1. PICK g : Gathers(c, s, g)
    BY GathersExists
  <1>2. g = F(g)
    <2>1. ASSUME NEW n \in 0 .. Len(s) PROVE g[n] = F(g)[n]
      <3>1. CASE n = 0
        BY <3>1, <1>1 DEF Gathers
      <3>2. CASE n # 0
        <4>1. n \in 1 .. Len(s)
          BY <3>2
        <4>2. g[n] = IF s[n].conn = c THEN Append(g[n - 1], s[n].message) ELSE g[n - 1]
          BY <4>1, <1>1 DEF Gathers
        <4> QED BY <3>2, <4>2
      <3> QED BY <3>1, <3>2
    <2>2. g \in [0 .. Len(s) -> Seq(Message)]
      BY <1>1 DEF Gathers
    <2> QED BY <2>1, <2>2
  <1>3. f = F(f)
    BY <1>2
  <1>4. MessagesOf(c, s) = f[Len(s)]
    BY DEF MessagesOf
  <1> HIDE DEF f
  <1>5. f[0] = <<>>
        /\ \A n \in 1 .. Len(s) :
              f[n] = IF s[n].conn = c THEN Append(f[n - 1], s[n].message) ELSE f[n - 1]
    <2>1. \A n \in 0 .. Len(s) : f[n] = F(f)[n]
      BY <1>3
    <2> QED BY <2>1
  <1>6. \A n \in 0 .. Len(s) : f[n] = g[n]
    <2> DEFINE T == {n \in 0 .. Len(s) : f[n] = g[n]}
    <2>1. 0 \in T
      BY <1>1, <1>5 DEF Gathers
    <2>2. ASSUME NEW n \in 1 .. Len(s), n - 1 \in T PROVE n \in T
      BY <1>1, <1>5, <2>2 DEF Gathers
    <2>3. T \in SUBSET (0 .. Len(s)) /\ Len(s) \in Nat
      OBVIOUS
    <2> HIDE DEF T
    <2>4. \A n \in 0 .. Len(s) : n \in T
      BY <2>1, <2>2, <2>3, UpTo
    <2> QED BY <2>4 DEF T
  <1>7. MessagesOf(c, s) = g[Len(s)]
    BY <1>4, <1>6
  <1> QED BY <1>1, <1>7

LEMMA SamePrefixGathers ==
    ASSUME NEW c, NEW s \in Seq(Events), NEW t \in Seq(Events), NEW f, NEW g,
           Gathers(c, s, f), Gathers(c, t, g),
           NEW k \in 0 .. Len(s), k <= Len(t), \A n \in 1 .. k : s[n] = t[n]
    PROVE  f[k] = g[k]
  <1> DEFINE T == {n \in 0 .. k : f[n] = g[n]}
  <1>1. 0 \in T
    BY DEF Gathers
  <1>2. ASSUME NEW n \in 1 .. k, n - 1 \in T PROVE n \in T
    <2>1. n \in 1 .. Len(s) /\ n \in 1 .. Len(t) /\ s[n] = t[n] /\ f[n - 1] = g[n - 1]
      BY <1>2
    <2>2. f[n] = g[n]
      BY <2>1 DEF Gathers
    <2> QED BY <2>2
  <1>3. T \in SUBSET (0 .. k) /\ k \in Nat /\ k \in 0 .. k
    OBVIOUS
  <1> HIDE DEF T
  <1>4. \A n \in 0 .. k : n \in T
    BY <1>1, <1>2, <1>3, UpTo
  <1> QED BY <1>3, <1>4 DEF T

(* Gathering a sequence with one event more, and without its first ones.   *)
LEMMA GatherTyped ==
    ASSUME NEW c, NEW s \in Seq(Events)
    PROVE  MessagesOf(c, s) \in Seq(Message) /\ (s = <<>> => MessagesOf(c, s) = <<>>)
  <1>1. PICK f : Gathers(c, s, f) /\ MessagesOf(c, s) = f[Len(s)]
    BY MessagesOfGathers
  <1>2. Len(s) \in 0 .. Len(s) /\ (s = <<>> => Len(s) = 0)
    OBVIOUS
  <1> QED BY <1>1, <1>2 DEF Gathers

LEMMA GatherAppended ==
    ASSUME NEW c, NEW s \in Seq(Events), NEW e \in Events
    PROVE  MessagesOf(c, Append(s, e)) =
               IF e.conn = c THEN Append(MessagesOf(c, s), e.message) ELSE MessagesOf(c, s)
  <1>1. PICK f : Gathers(c, s, f) /\ MessagesOf(c, s) = f[Len(s)]
    BY MessagesOfGathers
  <1>2. PICK t : t = Append(s, e)
    OBVIOUS
  <1>3. t \in Seq(Events) /\ Len(t) = Len(s) + 1 /\ t[Len(t)] = e /\ Len(s) \in Nat
        /\ \A n \in 1 .. Len(s) : t[n] = s[n]
    BY <1>2
  <1>4. PICK g : Gathers(c, t, g) /\ MessagesOf(c, t) = g[Len(t)]
    BY <1>3, MessagesOfGathers
  <1>5. f[Len(s)] = g[Len(s)]
    <2>1. Len(s) \in 0 .. Len(s) /\ Len(s) <= Len(t) /\ \A n \in 1 .. Len(s) : s[n] = t[n]
      BY <1>3
    <2> QED BY <1>1, <1>3, <1>4, <2>1, SamePrefixGathers
  <1>6. Len(t) \in 1 .. Len(t) /\ Len(t) - 1 = Len(s)
    BY <1>3
  <1>7. g[Len(t)] = IF e.conn = c THEN Append(g[Len(s)], e.message) ELSE g[Len(s)]
    BY <1>3, <1>4, <1>6 DEF Gathers
  <1> QED BY <1>1, <1>2, <1>4, <1>5, <1>7

LEMMA GatherRest ==
    ASSUME NEW c, NEW s \in Seq(Events), NEW k \in 0 .. Len(s)
    PROVE  \E p \in Seq(Message) :
              MessagesOf(c, s) = p \o MessagesOf(c, SubSeq(s, k + 1, Len(s)))
  <1>1. PICK f : Gathers(c, s, f) /\ MessagesOf(c, s) = f[Len(s)]
    BY MessagesOfGathers
  <1>2. PICK t : t = SubSeq(s, k + 1, Len(s))
    OBVIOUS
  <1>3. t \in Seq(Events) /\ Len(t) = Len(s) - k /\ \A i \in 1 .. Len(s) - k : t[i] = s[k + i]
    BY <1>2, PartsOf
  <1>4. PICK g : Gathers(c, t, g) /\ MessagesOf(c, t) = g[Len(t)]
    BY <1>3, MessagesOfGathers
  <1>5. Len(s) \in Nat /\ Len(t) \in Nat /\ k + Len(t) = Len(s)
    BY <1>3
  <1> DEFINE p == f[k]
             T == {i \in 0 .. Len(t) : f[k + i] = p \o g[i]}
  <1>6. p \in Seq(Message)
    BY <1>1 DEF Gathers
  <1>7. 0 \in T
    <2>1. g[0] = <<>> /\ k + 0 = k /\ 0 \in 0 .. Len(t)
      BY <1>4, <1>5 DEF Gathers
    <2>2. p \o <<>> = p
      BY <1>6
    <2> QED BY <2>1, <2>2
  <1>8. ASSUME NEW i \in 1 .. Len(t), i - 1 \in T PROVE i \in T
    <2>1. k + i \in 1 .. Len(s) /\ t[i] = s[k + i] /\ (k + i) - 1 = k + (i - 1)
      BY <1>3, <1>5
    <2>2. f[k + i] = IF s[k + i].conn = c THEN Append(f[k + (i - 1)], s[k + i].message) ELSE f[k + (i - 1)]
      BY <1>1, <2>1 DEF Gathers
    <2>3. g[i] = IF t[i].conn = c THEN Append(g[i - 1], t[i].message) ELSE g[i - 1]
      BY <1>4 DEF Gathers
    <2>4. f[k + (i - 1)] = p \o g[i - 1]
      BY <1>8
    <2>5. g[i - 1] \in Seq(Message) /\ t[i].message \in Message
      <3>1. t[i] \in Events /\ i - 1 \in 0 .. Len(t)
        BY <1>3
      <3> QED BY <3>1, <1>4 DEF Events, Gathers
    <2>6. p \o Append(g[i - 1], t[i].message) = Append(p \o g[i - 1], t[i].message)
      <3>1. PICK q, m : q = g[i - 1] /\ m = t[i].message
        OBVIOUS
      <3>2. q \in Seq(Message) /\ m \in Message
        BY <2>5, <3>1
      <3> HIDE DEF p
      <3>3. p \o Append(q, m) = Append(p \o q, m)
        BY <1>6, <3>2
      <3> QED BY <3>1, <3>3
    <2>7. f[k + i] = p \o g[i]
      BY <2>1, <2>2, <2>3, <2>4, <2>6
    <2>8. i \in 0 .. Len(t)
      BY <1>5
    <2> HIDE DEF p
    <2> QED BY <2>7, <2>8
  <1>9. \A i \in 0 .. Len(t) : i \in T
    <2>1. T \in SUBSET (0 .. Len(t))
      OBVIOUS
    <2> HIDE DEF T
    <2> QED BY <1>5, <1>7, <1>8, <2>1, UpTo
  <1>10. f[Len(s)] = p \o g[Len(t)]
    <2>1. Len(t) \in 0 .. Len(t)
      BY <1>5
    <2>2. Len(t) \in T
      BY <1>9, <2>1
    <2>3. f[k + Len(t)] = p \o g[Len(t)]
      BY <2>2
    <2> QED BY <2>3, <1>5
  <1> QED BY <1>1, <1>2, <1>4, <1>6, <1>10

LEMMA DropsPrefix ==
    ASSUME NEW S, NEW p \in Seq(S), NEW w \in Seq(S)
    PROVE  \E n \in 0 .. Len(p \o w) : w = SubSeq(p \o w, n + 1, Len(p \o w))
  <1>1. PICK x : x = p \o w
    OBVIOUS
  <1>2. x \in Seq(S) /\ Len(x) = Len(p) + Len(w) /\ Len(p) \in Nat /\ Len(w) \in Nat
        /\ \A i \in 1 .. Len(w) : x[Len(p) + i] = w[i]
    BY <1>1
  <1>3. Len(p) \in 0 .. Len(x)
    BY <1>2
  <1>4. PICK y : y = SubSeq(x, Len(p) + 1, Len(x))
    OBVIOUS
  <1>5. y \in Seq(S) /\ Len(y) = Len(w) /\ \A i \in 1 .. Len(w) : y[i] = x[Len(p) + i]
    BY <1>2, <1>3, <1>4, PartsOf
  <1>6. y = w
    BY <1>2, <1>5, SeqEqual
  <1> QED BY <1>1, <1>3, <1>4, <1>6

(* A connection's events are pushed at the end, moved to the queue in      *)
(* their order, and taken from the front.                                  *)
LEMMA WaitingSame ==
    ASSUME queue' = queue, held' = held
    PROVE  \A c \in Connection : Waiting(c)' = Waiting(c)
  BY DEF Waiting

LEMMA WaitingTyped ==
    ASSUME Types, NEW c \in Connection
    PROVE  MessagesOf(c, queue) \in Seq(Message) /\ Messages(held[c]) \in Seq(Message)
  <1>1. queue \in Seq(Events) /\ held[c] \in Seq(Events)
    BY DEF Types
  <1>2. Messages(held[c]) \in Seq(Message)
    <2>1. PICK h : h = held[c]
      OBVIOUS
    <2>2. h \in Seq(Events) /\ Len(h) \in Nat /\ \A i \in 1 .. Len(h) : h[i] \in Events
      BY <1>1, <2>1
    <2>3. \A i \in 1 .. Len(h) : h[i].message \in Message
      BY <2>2 DEF Events
    <2>4. Messages(h) \in [1 .. Len(h) -> Message]
      BY <2>3 DEF Messages
    <2> QED BY <2>1, <2>2, <2>4
  <1> QED BY <1>1, <1>2, GatherTyped

LEMMA MessagesAppended ==
    ASSUME NEW h \in Seq(Events), NEW e \in Events
    PROVE  Messages(Append(h, e)) = Append(Messages(h), e.message)
  <1>1. PICK x : x = Append(h, e)
    OBVIOUS
  <1>2. Len(x) = Len(h) + 1 /\ Len(h) \in Nat /\ x[Len(h) + 1] = e /\ \A i \in 1 .. Len(h) : x[i] = h[i]
    BY <1>1
  <1>3. \A i \in 1 .. Len(h) : h[i].message \in Message
    <2>1. \A i \in 1 .. Len(h) : h[i] \in Events
      OBVIOUS
    <2> QED BY <2>1 DEF Events
  <1>4. PICK y, z : y = Messages(x) /\ z = Messages(h)
    OBVIOUS
  <1>5. y \in Seq(Message) /\ Len(y) = Len(h) + 1 /\ y[Len(h) + 1] = e.message
        /\ \A i \in 1 .. Len(h) : y[i] = h[i].message
    <2>1. e.message \in Message
      BY DEF Events
    <2> QED BY <1>2, <1>3, <1>4, <2>1 DEF Messages
  <1>6. z \in Seq(Message) /\ Len(z) = Len(h) /\ \A i \in 1 .. Len(h) : z[i] = h[i].message
    BY <1>3, <1>4 DEF Messages
  <1>7. y = Append(z, e.message)
    <2>1. PICK w : w = Append(z, e.message)
      OBVIOUS
    <2>2. w \in Seq(Message) /\ Len(w) = Len(h) + 1 /\ w[Len(h) + 1] = e.message
          /\ \A i \in 1 .. Len(h) : w[i] = h[i].message
      <3>1. e.message \in Message
        BY DEF Events
      <3> QED BY <1>2, <1>6, <2>1, <3>1
    <2>3. \A i \in 1 .. Len(y) : y[i] = w[i]
      <3>1. \A i \in 1 .. Len(y) : i = Len(h) + 1 \/ i \in 1 .. Len(h)
        BY <1>2, <1>5
      <3>2. \A i \in 1 .. Len(h) : y[i] = w[i]
        BY <1>5, <2>2
      <3>3. y[Len(h) + 1] = w[Len(h) + 1]
        BY <1>5, <2>2
      <3> QED BY <3>1, <3>2, <3>3
    <2>4. y = w
      BY <1>5, <2>2, <2>3, SeqEqual
    <2> QED BY <2>1, <2>4
  <1> QED BY <1>1, <1>4, <1>7

LEMMA MessagesHeadTail ==
    ASSUME NEW h \in Seq(Events), h # <<>>
    PROVE  Messages(h) = <<Head(h).message>> \o Messages(Tail(h))
  <1>1. PICK t : t = Tail(h)
    OBVIOUS
  <1>2. t \in Seq(Events) /\ Len(t) = Len(h) - 1 /\ Len(h) \in Nat \ {0} /\ Head(h) = h[1]
        /\ \A i \in 1 .. Len(t) : t[i] = h[i + 1]
    BY <1>1
  <1>3. \A i \in 1 .. Len(h) : h[i].message \in Message
    <2>1. \A i \in 1 .. Len(h) : h[i] \in Events
      OBVIOUS
    <2> QED BY <2>1 DEF Events
  <1>4. PICK y, z, m : y = Messages(h) /\ z = Messages(t) /\ m = h[1].message
    OBVIOUS
  <1>5. y \in Seq(Message) /\ Len(y) = Len(h) /\ \A i \in 1 .. Len(h) : y[i] = h[i].message
    BY <1>3, <1>4 DEF Messages
  <1>6. z \in Seq(Message) /\ Len(z) = Len(h) - 1 /\ \A i \in 1 .. Len(h) - 1 : z[i] = h[i + 1].message
    <2>1. \A i \in 1 .. Len(t) : t[i].message = h[i + 1].message /\ t[i].message \in Message
      BY <1>2, <1>3
    <2> QED BY <1>2, <1>4, <2>1 DEF Messages
  <1>7. m \in Message
    BY <1>2, <1>3, <1>4
  <1>8. PICK w : w = <<m>> \o z
    OBVIOUS
  <1>9. w \in Seq(Message) /\ Len(w) = Len(h) /\ w[1] = m /\ \A i \in 1 .. Len(z) : w[i + 1] = z[i]
    BY <1>2, <1>6, <1>7, <1>8
  <1>10. \A i \in 1 .. Len(h) : y[i] = w[i]
    <2>1. y[1] = w[1]
      BY <1>2, <1>4, <1>5, <1>9
    <2>2. \A j \in 1 .. Len(h) - 1 : y[j + 1] = w[j + 1]
      <3>1. \A j \in 1 .. Len(h) - 1 : j + 1 \in 1 .. Len(h)
        BY <1>2
      <3> QED BY <3>1, <1>5, <1>6, <1>9
    <2>3. \A i \in 1 .. Len(h) : i = 1 \/ (i - 1 \in 1 .. Len(h) - 1 /\ (i - 1) + 1 = i)
      BY <1>2
    <2> QED BY <2>1, <2>2, <2>3
  <1>11. y = w
    BY <1>5, <1>9, <1>10, SeqEqual
  <1> QED BY <1>1, <1>2, <1>4, <1>8, <1>11

LEMMA MessagesRest ==
    ASSUME NEW h \in Seq(Events), NEW k \in 0 .. Len(h)
    PROVE  Messages(SubSeq(h, k + 1, Len(h))) = SubSeq(Messages(h), k + 1, Len(Messages(h)))
           /\ Len(Messages(h)) = Len(h)
  <1>1. PICK t : t = SubSeq(h, k + 1, Len(h))
    OBVIOUS
  <1>2. t \in Seq(Events) /\ Len(t) = Len(h) - k /\ \A i \in 1 .. Len(h) - k : t[i] = h[k + i]
    BY <1>1, PartsOf
  <1>3. Len(h) \in Nat /\ \A i \in 1 .. Len(h) : h[i].message \in Message
    <2>1. \A i \in 1 .. Len(h) : h[i] \in Events
      OBVIOUS
    <2> QED BY <2>1 DEF Events
  <1>4. PICK y, z : y = Messages(h) /\ z = Messages(t)
    OBVIOUS
  <1>5. y \in Seq(Message) /\ Len(y) = Len(h) /\ \A i \in 1 .. Len(h) : y[i] = h[i].message
    BY <1>3, <1>4 DEF Messages
  <1>6. z \in Seq(Message) /\ Len(z) = Len(h) - k /\ \A i \in 1 .. Len(h) - k : z[i] = h[k + i].message
    <2>1. \A i \in 1 .. Len(t) : t[i].message = h[k + i].message /\ t[i].message \in Message
      BY <1>2, <1>3
    <2> QED BY <1>2, <1>4, <2>1 DEF Messages
  <1>7. PICK w : w = SubSeq(y, k + 1, Len(y))
    OBVIOUS
  <1>8. w \in Seq(Message) /\ Len(w) = Len(h) - k /\ \A i \in 1 .. Len(h) - k : w[i] = y[k + i]
    BY <1>5, <1>7, PartsOf
  <1>9. \A i \in 1 .. Len(h) - k : k + i \in 1 .. Len(h)
    BY <1>3
  <1>10. z = w
    <2>1. \A i \in 1 .. Len(z) : z[i] = w[i]
      BY <1>5, <1>6, <1>8, <1>9
    <2> QED BY <1>6, <1>8, <2>1, SeqEqual
  <1> QED BY <1>1, <1>4, <1>5, <1>7, <1>10

LEMMA WaitingNext ==
    \A c \in Connection : Waiting(c)' = MessagesOf(c, queue') \o Messages(held'[c])
  BY DEF Waiting

LEMMA PushedWaits ==
    ASSUME Core, NEW c \in Connection, NEW k \in Nat, Pushed(c, k), cursor[c] \in Message
    PROVE  \E m \in Message : Fifo!Push(c, m)
  <1>1. PICK m, e : m = cursor[c] /\ e = Event(c, m, k)
    OBVIOUS
  <1>2. m \in Message /\ e \in Events /\ e.conn = c /\ e.message = m
    BY <1>1 DEF Event, Events
  <1>3. Outbox(c, e)
    BY <1>1 DEF Pushed
  <1>4. queue \in Seq(Events) /\ held \in [Connection -> Seq(Events)]
    BY DEF Core, Types
  <1>5. \A b \in Connection : MessagesOf(b, queue) \in Seq(Message) /\ Messages(held[b]) \in Seq(Message)
    BY WaitingTyped DEF Core
  <1>6. /\ Waiting(c)' = Append(Waiting(c), m)
        /\ \A b \in Connection : b # c => Waiting(b)' = Waiting(b)
    <2>1. CASE Offered(c)
      <3>1. PICK q : q = Append(queue, e)
        OBVIOUS
      <3>2. queue' = q /\ held' = held /\ held[c] = <<>>
        BY <1>3, <2>1, <3>1 DEF Outbox, Offered
      <3>3. \A b \in Connection : Waiting(b)' = MessagesOf(b, q) \o Messages(held[b])
        BY <3>2, WaitingNext
      <3>4. MessagesOf(c, q) = Append(MessagesOf(c, queue), m)
            /\ \A b \in Connection : b # c => MessagesOf(b, q) = MessagesOf(b, queue)
        BY <1>2, <1>4, <3>1, GatherAppended
      <3>5. Messages(held[c]) = <<>>
        <4>1. Messages(<<>>) = <<>>
          BY DEF Messages
        <4> QED BY <3>2, <4>1
      <3>6. PICK s : s = MessagesOf(c, queue)
        OBVIOUS
      <3>7. s \in Seq(Message) /\ Append(s, m) \o <<>> = Append(s \o <<>>, m)
        BY <1>2, <1>5, <3>6
      <3> QED BY <3>3, <3>4, <3>5, <3>6, <3>7 DEF Waiting
    <2>2. CASE ~ Offered(c)
      <3>1. PICK h, x : h = held[c] /\ x = Append(h, e)
        OBVIOUS
      <3>2. queue' = queue /\ held' = [held EXCEPT ![c] = x]
        BY <1>3, <2>2, <3>1 DEF Outbox
      <3>3. held'[c] = x /\ \A b \in Connection : b # c => held'[b] = held[b]
        BY <3>2, <1>4
      <3>4. h \in Seq(Events)
        BY <1>4, <3>1
      <3>5. Messages(x) = Append(Messages(h), m)
        BY <1>2, <3>1, <3>4, MessagesAppended
      <3>6. PICK s, n : s = MessagesOf(c, queue) /\ n = Messages(h)
        OBVIOUS
      <3>7. s \in Seq(Message) /\ n \in Seq(Message)
        BY <1>5, <3>1, <3>6
      <3>8. s \o Append(n, m) = Append(s \o n, m)
        BY <1>2, <3>7
      <3>9. Waiting(c)' = s \o Append(n, m)
        BY <3>2, <3>3, <3>5, <3>6, WaitingNext
      <3>10. Waiting(c) = s \o n
        BY <3>1, <3>6 DEF Waiting
      <3>11. \A b \in Connection : b # c => Waiting(b)' = Waiting(b)
        BY <3>2, <3>3, WaitingNext DEF Waiting
      <3> QED BY <3>8, <3>9, <3>10, <3>11
    <2> QED BY <2>1, <2>2
  <1>7. [b \in Connection |-> Waiting(b)]' =
            [[b \in Connection |-> Waiting(b)] EXCEPT ![c] = Append(@, m)]
    BY <1>6
  <1> QED BY <1>2, <1>7 DEF Fifo!Push

(* A flush changes where an event waits, not when it is taken.             *)
LEMMA FlushedWaits ==
    ASSUME Core, NEW c \in Connection, Flush(c)
    PROVE  \A b \in Connection : Waiting(b)' = Waiting(b)
  <1>1. PICK h, t, e, q : h = held[c] /\ t = Tail(h) /\ e = Head(h) /\ q = Append(queue, e)
    OBVIOUS
  <1>2. queue \in Seq(Events) /\ held \in [Connection -> Seq(Events)] /\ h \in Seq(Events) /\ h # <<>>
    BY <1>1 DEF Core, Types, Flush
  <1>3. queue' = q /\ held' = [held EXCEPT ![c] = t]
    BY <1>1 DEF Flush
  <1>4. held'[c] = t /\ \A b \in Connection : b # c => held'[b] = held[b]
    BY <1>2, <1>3
  <1>5. e \in Events /\ e.conn = c /\ e.message \in Message
    <2>1. e = h[1] /\ 1 \in DOMAIN h /\ e \in Events
      BY <1>1, <1>2
    <2> QED BY <1>1, <2>1 DEF Core, HeldInv, Events
  <1>6. MessagesOf(c, q) = Append(MessagesOf(c, queue), e.message)
        /\ \A b \in Connection : b # c => MessagesOf(b, q) = MessagesOf(b, queue)
    BY <1>1, <1>2, <1>5, GatherAppended
  <1>7. Messages(h) = <<e.message>> \o Messages(t)
    BY <1>1, <1>2, MessagesHeadTail
  <1>8. PICK s, n, m : s = MessagesOf(c, queue) /\ n = Messages(t) /\ m = e.message
    OBVIOUS
  <1>9. s \in Seq(Message) /\ n \in Seq(Message) /\ m \in Message
    <2>1. s \in Seq(Message)
      BY <1>2, <1>8, GatherTyped
    <2>2. t \in Seq(Events) /\ Len(t) \in Nat
      BY <1>1, <1>2
    <2>3. \A i \in 1 .. Len(t) : t[i].message \in Message
      <3>1. \A i \in 1 .. Len(t) : t[i] \in Events
        BY <2>2
      <3> QED BY <3>1 DEF Events
    <2>4. n \in [1 .. Len(t) -> Message]
      BY <1>8, <2>3 DEF Messages
    <2> QED BY <1>5, <1>8, <2>1, <2>2, <2>4
  <1>10. Append(s, m) \o n = s \o (<<m>> \o n)
    BY <1>9
  <1>11. Waiting(c)' = Append(s, m) \o n
    BY <1>3, <1>4, <1>6, <1>8, WaitingNext
  <1>12. Waiting(c) = s \o (<<m>> \o n)
    BY <1>1, <1>7, <1>8 DEF Waiting
  <1>13. \A b \in Connection : b # c => Waiting(b)' = Waiting(b)
    BY <1>3, <1>4, <1>6, WaitingNext DEF Waiting
  <1> QED BY <1>10, <1>11, <1>12, <1>13

(* A batch is the oldest events of every connection in it.                 *)
LEMMA TakenWaits ==
    ASSUME Core, TakeBatch
    PROVE  \A c \in Connection : \E n \in 0 .. Len(Waiting(c)) :
               Waiting(c)' = SubSeq(Waiting(c), n + 1, Len(Waiting(c)))
  <1> SUFFICES ASSUME NEW c \in Connection
               PROVE  \E n \in 0 .. Len(Waiting(c)) :
                          Waiting(c)' = SubSeq(Waiting(c), n + 1, Len(Waiting(c)))
    OBVIOUS
  <1>1. queue \in Seq(Events)
    BY DEF Core, Types
  <1>2. PICK k \in 0 .. Len(queue) : Rest(queue) = SubSeq(queue, k + 1, Len(queue))
    BY <1>1, BatchOf
  <1>3. PICK q, m, n : q = SubSeq(queue, k + 1, Len(queue)) /\ m = MessagesOf(c, q)
                       /\ n = Messages(held[c])
    OBVIOUS
  <1>4. queue' = q /\ held' = held
    BY <1>2, <1>3 DEF TakeBatch
  <1>5. PICK p \in Seq(Message) : MessagesOf(c, queue) = p \o m
    BY <1>1, <1>3, GatherRest
  <1>6. m \in Seq(Message) /\ n \in Seq(Message)
    <2>1. q \in Seq(Events)
      BY <1>1, <1>3, PartsOf
    <2> QED BY <1>3, <2>1, GatherTyped, WaitingTyped DEF Core
  <1>7. PICK w : w = m \o n
    OBVIOUS
  <1>8. w \in Seq(Message)
    BY <1>6, <1>7
  <1>9. Waiting(c)' = w
    BY <1>3, <1>4, <1>7, WaitingNext
  <1>10. Waiting(c) = p \o w
    <2>1. (p \o m) \o n = p \o (m \o n)
      BY <1>6
    <2> QED BY <1>3, <1>5, <1>7, <2>1 DEF Waiting
  <1>11. \E i \in 0 .. Len(p \o w) : w = SubSeq(p \o w, i + 1, Len(p \o w))
    BY <1>8, DropsPrefix
  <1> QED BY <1>9, <1>10, <1>11

LEMMA FinishedWaits ==
    ASSUME Core, NEW b \in Connection, FinishHeld(b)
    PROVE  \A c \in Connection : \E n \in 0 .. Len(Waiting(c)) :
               Waiting(c)' = SubSeq(Waiting(c), n + 1, Len(Waiting(c)))
  <1>1. PICK h : h = held[b]
    OBVIOUS
  <1>2. h \in Seq(Events) /\ held \in [Connection -> Seq(Events)] /\ queue = <<>>
    BY <1>1 DEF Core, Types, FinishHeld
  <1>3. PICK k \in 0 .. Len(h) : Rest(h) = SubSeq(h, k + 1, Len(h))
    BY <1>2, BatchOf
  <1>4. PICK t : t = SubSeq(h, k + 1, Len(h))
    OBVIOUS
  <1>5. queue' = queue /\ held' = [held EXCEPT ![b] = t]
    BY <1>1, <1>3, <1>4 DEF FinishHeld
  <1>6. held'[b] = t /\ \A c \in Connection : c # b => held'[c] = held[c]
    BY <1>2, <1>5
  <1>7. \A c \in Connection : MessagesOf(c, queue) = <<>> /\ Messages(held[c]) \in Seq(Message)
    <2>1. \A c \in Connection : MessagesOf(c, queue) = <<>>
      <3>1. queue \in Seq(Events)
        BY <1>2
      <3> QED BY <1>2, <3>1, GatherTyped
    <2> QED BY <2>1, WaitingTyped DEF Core
  <1>8. PICK w, v : w = Messages(h) /\ v = Messages(t)
    OBVIOUS
  <1>9. v = SubSeq(w, k + 1, Len(w)) /\ Len(w) = Len(h) /\ w \in Seq(Message)
    BY <1>1, <1>2, <1>4, <1>7, <1>8, MessagesRest
  <1>10. v \in Seq(Message) /\ k \in 0 .. Len(w)
    BY <1>9, PartsOf
  <1>11. Waiting(b) = w /\ Waiting(b)' = v
    <2>1. Waiting(b) = <<>> \o w /\ Waiting(b)' = <<>> \o v
      BY <1>1, <1>5, <1>6, <1>7, <1>8, WaitingNext DEF Waiting
    <2>2. <<>> \o w = w /\ <<>> \o v = v
      BY <1>9, <1>10
    <2> QED BY <2>1, <2>2
  <1>12. \E n \in 0 .. Len(Waiting(b)) : Waiting(b)' = SubSeq(Waiting(b), n + 1, Len(Waiting(b)))
    BY <1>9, <1>10, <1>11
  <1>13. ASSUME NEW c \in Connection, c # b
         PROVE  \E n \in 0 .. Len(Waiting(c)) :
                    Waiting(c)' = SubSeq(Waiting(c), n + 1, Len(Waiting(c)))
    <2>1. Waiting(c)' = Waiting(c)
      BY <1>5, <1>6, <1>13, WaitingNext DEF Waiting
    <2>2. PICK x : x = Waiting(c)
      OBVIOUS
    <2>3. x \in Seq(Message)
      <3>1. PICK n : n = Messages(held[c])
        OBVIOUS
      <3>2. n \in Seq(Message) /\ x = <<>> \o n
        BY <1>7, <2>2, <3>1 DEF Waiting
      <3> QED BY <3>2
    <2>4. 0 \in 0 .. Len(x) /\ x = SubSeq(x, 0 + 1, Len(x))
      BY <2>3
    <2> QED BY <2>1, <2>2, <2>4
  <1> QED BY <1>12, <1>13

(* Init is Fifo's, and each step is a push, a take, or does not change     *)
(* what waits.                                                             *)
LEMMA InitWaits == Init => Fifo!Init
  <1> SUFFICES ASSUME Init PROVE Fifo!Init
    OBVIOUS
  <1>1. \A c \in Connection : Waiting(c) = <<>>
    <2>1. <<>> \in Seq(Events) /\ Messages(<<>>) = <<>>
      BY DEF Messages
    <2>2. \A c \in Connection : MessagesOf(c, <<>>) = <<>>
      BY <2>1, GatherTyped
    <2>3. \A c \in Connection : queue = <<>> /\ held[c] = <<>>
      BY DEF Init
    <2>4. <<>> \o <<>> = <<>>
      OBVIOUS
    <2> QED BY <2>1, <2>2, <2>3, <2>4 DEF Waiting
  <1> QED BY <1>1 DEF Fifo!Init

LEMMA NextWaits == Core /\ [Next]_vars => [Fifo!Next]_([c \in Connection |-> Waiting(c)])
  <1> DEFINE W == [c \in Connection |-> Waiting(c)]
  <1> SUFFICES ASSUME Core, [Next]_vars PROVE Fifo!Next \/ W' = W
    OBVIOUS
  <1>1. ASSUME \A c \in Connection : Waiting(c)' = Waiting(c) PROVE W' = W
    BY <1>1
  <1>2. ASSUME queue' = queue, held' = held PROVE W' = W
    BY <1>1, <1>2, WaitingSame
  <1>3. ASSUME \A c \in Connection : \E n \in 0 .. Len(Waiting(c)) :
                   Waiting(c)' = SubSeq(Waiting(c), n + 1, Len(Waiting(c)))
        PROVE  Fifo!Next
    <2>1. DOMAIN W' = Connection
      OBVIOUS
    <2>2. \A c \in Connection : \E n \in 0 .. Len(W[c]) : (W')[c] = SubSeq(W[c], n + 1, Len(W[c]))
      BY <1>3
    <2>3. Fifo!Take
      BY <2>2 DEF Fifo!Take
    <2> QED BY <2>1, <2>3 DEF Fifo!Next
  <1>4. ASSUME NEW c \in Connection, NEW m \in Message, Fifo!Push(c, m) PROVE Fifo!Next
    BY <1>4 DEF Fifo!Next
  <1>5. ASSUME NEW c \in Connection, Decode(c) PROVE Fifo!Next \/ W' = W
    <2>1. CASE Claim(c) \/ Adopt(c) \/ Reclaim(c) \/ Duplicate(c) \/ Fails(c) \/ Refused(c)
      <3>1. queue' = queue /\ held' = held
        BY <2>1 DEF Claim, Adopt, Reclaim, Duplicate, Fails, Refused, Dropped
      <3> QED BY <3>1, <1>2
    <2>2. CASE PushQuote(c)
      <3>1. cursor[c] \in Message /\ key[c] \in Nat /\ Pushed(c, key[c])
        BY <2>2 DEF PushQuote, Core, EventsInv, Types
      <3> QED BY <3>1, <1>4, PushedWaits
    <2>3. CASE PushTrade(c)
      <3>1. cursor[c] \in Message /\ Pushed(c, Number[cursor[c]])
        BY <2>3 DEF PushTrade, Reads
      <3>2. Number[cursor[c]] \in Nat
        BY <3>1, StreamTypes
      <3> QED BY <3>1, <3>2, <1>4, PushedWaits
    <2> QED BY <1>5, <2>1, <2>2, <2>3 DEF Decode
  <1>6. ASSUME NEW c \in Connection, Flush(c) PROVE W' = W
    BY <1>1, <1>6, FlushedWaits
  <1>7. ASSUME NEW c \in Connection, Lifecycle(c) \/ Stop(c) PROVE W' = W
    <2>1. queue' = queue /\ held' = held
      BY <1>7 DEF Lifecycle, Disconnect, Reconnect, GiveUp, Stop
    <2> QED BY <2>1, <1>2
  <1>8. CASE LoopBatch \/ FinishQueue
    BY <1>3, <1>8, TakenWaits DEF LoopBatch, FinishQueue
  <1>9. ASSUME NEW c \in Connection, FinishHeld(c) PROVE Fifo!Next
    BY <1>3, <1>9, FinishedWaits
  <1>10. CASE Tick \/ TickDue \/ Signal \/ Finished \/ UNCHANGED vars
    <2>1. queue' = queue /\ held' = held
      BY <1>10 DEF Tick, TickDue, Signal, Finished, vars
    <2> QED BY <2>1, <1>2
  <1> HIDE DEF W
  <1> QED BY <1>5, <1>6, <1>7, <1>8, <1>9, <1>10 DEF Next, Loop, WindDown

(* Through what it holds and the shared queue, each connection is a fifo:  *)
(* the loop takes its events in the order its decoder pushed them.         *)
THEOREM ConnectionsKeepOrder == Spec => OrderKept
  <1>1. Spec => []Core
    BY InitCore, NextCore, PTL DEF Spec
  <1> QED BY <1>1, InitWaits, NextWaits, PTL DEF Spec, OrderKept, Fifo!Spec

-----------------------------------------------------------------------------
(* The order of the quotes.                                                *)

(* A quote was sent before the restart.                                    *)
Separates(r) ==
    /\ r \in 1 .. Len(Kind) + 1 /\ RestartsAt(r)
    /\ \A n \in Quotes : r <= n => \E m \in Quotes : m < r

(* The key a quote's place in the stream gives it.                         *)
TrueKey(r, m) == Key(IF m < r THEN 0 ELSE 1, Number[m])

KeysInv(r) ==
    /\ claimed = 0 \/ \E m \in Quotes : claimed = TrueKey(r, m) + 1
    /\ \A e \in InFlight : Kind[e.message] = "quote" => e.key = TrueKey(r, e.message)
    /\ \A c \in Connection : at[c] \in {"reclaim", "push"} => key[c] = TrueKey(r, cursor[c])

(* The quotes a decoder at p has read, or missed, when its cursor is n.    *)
Past(p, n) == {m \in Quotes : m < n \/ (p # "next" /\ m = n)}

(* What a decoder at p, its cursor n, knows of its counters: the last it   *)
(* saw is w and the highest s - 1, its generation is g, the counter fell   *)
(* (f) or did not, and k - 1 is the highest key claimed.  A generation     *)
(* begins with a quote behind the restart.  A decoder that read one and    *)
(* did not see it is behind a claim of the counters before it.             *)
Knows(r, p, n, w, s, g, f, k) ==
    /\ g \in {0, 1}
    /\ s = 0 => Past(p, n) = {} /\ w = 0 /\ g = 0
    /\ s # 0 => \E m \in Past(p, n) : w = Number[m] /\ (g = 1 => r <= m)
    /\ p # "next" => s # 0 /\ w = Number[n]
    /\ g = 0 /\ s # 0 =>
          /\ s <= k
          /\ \E m \in Past(p, n) : m < r /\ Number[m] + 1 <= s
          /\ (\A m \in Past(p, n) : m < r) => s = w + 1
          /\ p = "lost" /\ f => r <= n

GenerationsInv(r) ==
    \A c \in Connection :
        /\ Knows(r, at[c], cursor[c], saw[c], seen[c], generation[c], fell[c], claimed)
        /\ conn[c] = "closing" => seen[c] # 0

AppliedInv(r) ==
    \A i \in DOMAIN published : Kind[published[i]] = "quote" => TrueKey(r, published[i]) + 1 <= applied

OrderInv(r) == KeysInv(r) /\ GenerationsInv(r) /\ AppliedInv(r) /\ QuotesInVenueOrder

(* A key places its quote in the stream.                                   *)
LEMMA TrueKeyIs ==
    ASSUME NEW r, NEW m \in Quotes
    PROVE  /\ TrueKey(r, m) = IF m < r THEN Number[m] ELSE CounterLimit + Number[m]
           /\ TrueKey(r, m) \in Nat
  <1>1. Number[m] \in Nat /\ CounterLimit \in Nat
    BY StreamTypes DEF Quotes
  <1> QED BY <1>1 DEF TrueKey, Key

LEMMA KeyOrders ==
    ASSUME NEW r, Separates(r), NEW m \in Quotes, NEW n \in Quotes, TrueKey(r, m) < TrueKey(r, n)
    PROVE  m < n
  <1>1. m \in Nat /\ n \in Nat /\ Number[m] \in Nat /\ Number[n] \in Nat /\ Number[n] < CounterLimit
        /\ CounterLimit \in Nat /\ r \in Nat
    BY StreamTypes DEF Quotes, Separates
  <1>2. ASSUME n < m PROVE FALSE
    <2>1. IF n < r /\ r <= m THEN Number[m] < Number[n] ELSE Number[n] < Number[m]
      BY <1>2 DEF Separates, RestartsAt
    <2> QED BY <1>1, <1>2, <2>1, TrueKeyIs
  <1>3. m # n
    BY TrueKeyIs
  <1> QED BY <1>1, <1>2, <1>3

LEMMA ClaimedGeneration ==
    ASSUME NEW r, NEW m \in Quotes
    PROVE  Generation(TrueKey(r, m) + 1) \in {0, 1}
  <1>1. PICK k, l : k = TrueKey(r, m) /\ l = CounterLimit
    OBVIOUS
  <1>2. k \in Nat /\ l \in Nat \ {0} /\ k < 2 * l
    <2>1. Number[m] \in Nat /\ Number[m] < l /\ l \in Nat \ {0}
      BY <1>1, StreamTypes DEF Quotes
    <2> QED BY <1>1, <2>1, TrueKeyIs
  <1>3. k \div l \in Int /\ l * (k \div l) <= k /\ k < l * (k \div l) + l
    BY <1>2
  <1>4. k \div l < 2
    <2>1. PICK q : q = k \div l
      OBVIOUS
    <2>2. ASSUME q >= 2 PROVE FALSE
      <3>1. l * q >= l * 2
        BY <1>2, <1>3, <2>1, <2>2
      <3> QED BY <1>2, <1>3, <2>1, <3>1
    <2> QED BY <1>3, <2>1, <2>2
  <1>5. k \div l >= 0
    BY <1>2
  <1>6. (k + 1) - 1 = k
    BY <1>2
  <1> QED BY <1>1, <1>3, <1>4, <1>5, <1>6 DEF Generation

(* Knowledge keeps when others claim, when a decoder moves on, and when a  *)
(* connection misses some of the stream.                                   *)
LEMMA KnowsMore ==
    ASSUME NEW r, NEW p, NEW n, NEW w, NEW s \in Nat, NEW g, NEW f, NEW k \in Nat, NEW l \in Nat,
           Knows(r, p, n, w, s, g, f, k), k <= l
    PROVE  Knows(r, p, n, w, s, g, f, l)
  <1>1. s <= k => s <= l
    OBVIOUS
  <1> QED BY <1>1 DEF Knows

LEMMA KnowsMovesOn ==
    ASSUME NEW r, NEW p, NEW n \in Nat, NEW w, NEW s, NEW g, NEW f, NEW k,
           Knows(r, p, n, w, s, g, f, k), p # "next" \/ n \notin Quotes
    PROVE  Knows(r, "next", n + 1, w, s, g, f, k)
  <1>1. Quotes \subseteq Nat
    BY StreamTypes DEF Quotes
  <1>2. \A m \in Quotes : m < n + 1 <=> m < n \/ m = n
    BY <1>1
  <1>3. Past("next", n + 1) = {m \in Quotes : m < n + 1}
    BY DEF Past
  <1>4. Past(p, n) = {m \in Quotes : m < n \/ m = n}
    BY DEF Past
  <1>5. Past("next", n + 1) = Past(p, n)
    BY <1>2, <1>3, <1>4
  <1> QED BY <1>5 DEF Knows

LEMMA KnowsMissed ==
    ASSUME NEW r, NEW n \in Nat, NEW q \in Nat, NEW w, NEW s, NEW g, NEW f, NEW k,
           Knows(r, "next", n, w, s, g, f, k), n <= q, s # 0
    PROVE  Knows(r, "next", q, w, s, g, f, k)
  <1>1. Quotes \subseteq Nat
    BY StreamTypes DEF Quotes
  <1>2. Past("next", n) \subseteq Past("next", q)
    <2>1. Past("next", n) = {m \in Quotes : m < n} /\ Past("next", q) = {m \in Quotes : m < q}
      BY DEF Past
    <2>2. \A m \in Quotes : m < n => m < q
      BY <1>1
    <2> QED BY <2>1, <2>2
  <1> QED BY <1>2 DEF Knows

(* A step of one connection.                                               *)
LEMMA OrderSteps ==
    ASSUME NEW r, Core, OrderInv(r), published' = published, applied' = applied,
           claimed' \in Nat, claimed <= claimed',
           claimed' = claimed \/ \E m \in Quotes : claimed' = TrueKey(r, m) + 1,
           \A e \in InFlight' :
               e \in InFlight \/ (Kind[e.message] = "quote" => e.key = TrueKey(r, e.message)),
           NEW c \in Connection,
           \A b \in Connection : b # c =>
               /\ at'[b] = at[b] /\ cursor'[b] = cursor[b] /\ saw'[b] = saw[b]
               /\ seen'[b] = seen[b] /\ generation'[b] = generation[b]
               /\ fell'[b] = fell[b] /\ key'[b] = key[b] /\ conn'[b] = conn[b],
           Knows(r, at'[c], cursor'[c], saw'[c], seen'[c], generation'[c], fell'[c], claimed'),
           conn'[c] = "closing" => seen'[c] # 0,
           at'[c] \in {"reclaim", "push"} => key'[c] = TrueKey(r, cursor'[c])
    PROVE  OrderInv(r)'
  <1>1. claimed \in Nat /\ \A b \in Connection : seen[b] \in Nat
    BY DEF Core, Types
  <1>2. KeysInv(r)'
    <2>1. claimed' = 0 \/ \E m \in Quotes : claimed' = TrueKey(r, m) + 1
      BY DEF OrderInv, KeysInv
    <2>2. \A e \in InFlight' : Kind[e.message] = "quote" => e.key = TrueKey(r, e.message)
      BY DEF OrderInv, KeysInv
    <2>3. \A b \in Connection : at'[b] \in {"reclaim", "push"} => key'[b] = TrueKey(r, cursor'[b])
      BY DEF OrderInv, KeysInv
    <2> QED BY <2>1, <2>2, <2>3 DEF KeysInv
  <1>3. GenerationsInv(r)'
    <2>1. ASSUME NEW b \in Connection, b # c
          PROVE  /\ Knows(r, at'[b], cursor'[b], saw'[b], seen'[b], generation'[b], fell'[b], claimed')
                 /\ conn'[b] = "closing" => seen'[b] # 0
      <3>1. /\ Knows(r, at[b], cursor[b], saw[b], seen[b], generation[b], fell[b], claimed)
            /\ conn[b] = "closing" => seen[b] # 0
        BY DEF OrderInv, GenerationsInv
      <3>2. Knows(r, at[b], cursor[b], saw[b], seen[b], generation[b], fell[b], claimed')
        BY <1>1, <3>1, KnowsMore
      <3> QED BY <2>1, <3>1, <3>2
    <2> QED BY <2>1 DEF GenerationsInv
  <1>4. AppliedInv(r)' /\ QuotesInVenueOrder'
    BY DEF OrderInv, AppliedInv, QuotesInVenueOrder
  <1> QED BY <1>2, <1>3, <1>4 DEF OrderInv

(* A step of none.                                                         *)
LEMMA OrderQuiet ==
    ASSUME NEW r, OrderInv(r), InFlight' \subseteq InFlight,
           UNCHANGED <<conn, cursor, at, key, saw, seen, fell, generation, claimed, applied,
                       published>>
    PROVE  OrderInv(r)'
  <1>1. KeysInv(r)'
    BY DEF OrderInv, KeysInv
  <1>2. GenerationsInv(r)'
    BY DEF OrderInv, GenerationsInv
  <1>3. AppliedInv(r)' /\ QuotesInVenueOrder'
    BY DEF OrderInv, AppliedInv, QuotesInVenueOrder
  <1> QED BY <1>1, <1>2, <1>3 DEF OrderInv

LEMMA ClaimOrders ==
    ASSUME NEW r, Separates(r), Core, OrderInv(r), NEW c \in Connection, Claim(c)
    PROVE  OrderInv(r)'
  <1>1. /\ {saw, seen, generation, key} \subseteq [Connection -> Nat]
        /\ fell \in [Connection -> BOOLEAN] /\ claimed \in Nat
        /\ at \in [Connection -> {"next", "lost", "reclaim", "duplicate", "push"}]
        /\ at[c] = "next" /\ conn[c] = "up" /\ cursor[c] \in Quotes
    BY DEF Core, Types, Claim, Reads, Quotes
  <1>2. PICK n, v, w, s, g, k, f : /\ n = cursor[c] /\ v = Number[cursor[c]] /\ w = saw[c]
                                   /\ s = seen[c] /\ g = generation[c] /\ k = claimed /\ f = fell[c]
    OBVIOUS
  <1>3. /\ v \in Nat /\ w \in Nat /\ s \in Nat /\ g \in Nat /\ k \in Nat /\ n \in Nat /\ r \in Nat
        /\ n \in Quotes /\ v < CounterLimit /\ CounterLimit \in Nat
        /\ Quotes \subseteq Nat /\ \A m \in Quotes : Number[m] \in Nat
    BY <1>1, <1>2, StreamTypes, SMTT(30) DEF Quotes, Separates
  <1>4. v = Number[n] /\ Knows(r, "next", n, w, s, g, f, k)
    BY <1>1, <1>2 DEF OrderInv, GenerationsInv
  <1>5. PICK h, b : h = (IF v < w \div 2 THEN g + 1 ELSE g) /\ b = IF v < w \div 2 THEN 0 ELSE s
    OBVIOUS
  <1>6. PICK y, u : y = Max({b, v + 1}) /\ u = Key(h, v)
    OBVIOUS
  <1>7. b \in Nat /\ h \in Nat /\ y = (IF b >= v + 1 THEN b ELSE v + 1) /\ u = h * CounterLimit + v
        /\ u \in Nat /\ y \in Nat \ {0}
    <2>1. b \in Nat /\ h \in Nat
      BY <1>3, <1>5
    <2>2. Max({b, v + 1}) = IF b >= v + 1 THEN b ELSE v + 1
      BY <1>3, <2>1, MaxOfTwo
    <2>3. u \in Nat
      BY <1>3, <1>6, <2>1, KeyIsNat
    <2> QED BY <1>3, <1>6, <2>1, <2>2, <2>3 DEF Key
  <1>8. /\ saw' = [saw EXCEPT ![c] = v] /\ generation' = [generation EXCEPT ![c] = h]
         /\ fell' = [fell EXCEPT ![c] = b # 0 /\ v + 1 < b]
         /\ seen' = [seen EXCEPT ![c] = y] /\ key' = [key EXCEPT ![c] = u]
         /\ claimed' = (IF u + 1 > k THEN u + 1 ELSE k)
         /\ at' = [at EXCEPT ![c] = IF u + 1 > k THEN "push" ELSE "lost"]
         /\ UNCHANGED <<conn, cursor, held, queue, applied, published>>
    <2>1. generation[c] + (IF JudgesRestart(c, v) THEN 1 ELSE 0) = h
      BY <1>2, <1>3, <1>5 DEF JudgesRestart
    <2>2. (IF JudgesRestart(c, v) THEN 0 ELSE seen[c]) = b
      BY <1>2, <1>5 DEF JudgesRestart
    <2>3. ClaimOf(c, u, "lost")
      BY <1>2, <1>6, <2>1, <2>2 DEF Claim
    <2>4. /\ saw' = [saw EXCEPT ![c] = v] /\ generation' = [generation EXCEPT ![c] = h]
          /\ fell' = [fell EXCEPT ![c] = b # 0 /\ v + 1 < b] /\ seen' = [seen EXCEPT ![c] = y]
          /\ UNCHANGED <<conn, cursor, held, queue, applied, published>>
      BY <1>2, <1>6, <2>1, <2>2 DEF Claim, loopVars
    <2> QED BY <1>2, <1>3, <1>7, <2>3, <2>4 DEF ClaimOf
  <1>9. PICK q, p, x : /\ q = (b # 0 /\ v + 1 < b) /\ p = (IF u + 1 > k THEN "push" ELSE "lost")
                        /\ x = (IF u + 1 > k THEN u + 1 ELSE k)
    OBVIOUS
  <1>10. Past(p, n) = Past("next", n) \cup {n} /\ Past("next", n) = {m \in Quotes : m < n}
    <2>1. p # "next"
      BY <1>9
    <2> QED BY <1>3, <2>1 DEF Past
  <1>11. /\ s = 0 => Past("next", n) = {} /\ w = 0 /\ g = 0
         /\ s # 0 => \E m \in Past("next", n) : w = Number[m] /\ (g = 1 => r <= m)
         /\ g \in {0, 1}
         /\ g = 0 /\ s # 0 =>
               /\ s <= k
               /\ \E m \in Past("next", n) : m < r /\ Number[m] + 1 <= s
               /\ (\A m \in Past("next", n) : m < r) => s = w + 1
    BY <1>4 DEF Knows
  <1>12. \A m \in Past("next", n) :
            /\ m \in Quotes /\ m \in Nat /\ Number[m] \in Nat /\ m < n
            /\ IF m < r /\ r <= n THEN v < Number[m] ELSE Number[m] < v
    BY <1>3, <1>4, <1>10 DEF Separates, RestartsAt
  <1>13. TrueKey(r, n) = IF n < r THEN v ELSE CounterLimit + v
    BY <1>3, <1>4, TrueKeyIs
  <1>14. x \in Nat /\ k <= x /\ (p = "push" => x = u + 1) /\ (p = "lost" => x = k) /\ p \in {"push", "lost"}
         /\ u + 1 <= x
    BY <1>3, <1>7, <1>9
  <1>15. Knows(r, p, n, v, y, h, q, x) /\ (p = "push" => u = TrueKey(r, n))
    <2>1. CASE s = 0
      <3>1. Past("next", n) = {} /\ w = 0 /\ g = 0
        BY <2>1, <1>11
      <3>2. h = 0 /\ b = 0 /\ y = v + 1 /\ u = v /\ ~ q
        <4>1. ~(v < w \div 2)
          BY <3>1, <1>3
        <4>2. h = 0 /\ b = 0
          BY <4>1, <2>1, <3>1, <1>5
        <4>3. u = v /\ y = v + 1 /\ ~(b # 0 /\ v + 1 < b)
          BY <4>2, <1>3, <1>7
        <4>4. ~ q
          BY <4>3, <1>9, Zenon
        <4> QED BY <4>2, <4>3, <4>4
      <3>3. n < r
        <4>1. ASSUME r <= n PROVE FALSE
          <5>1. PICK m \in Quotes : m < r
            BY <4>1, <1>3 DEF Separates
          <5>2. m \in Past("next", n)
            BY <4>1, <5>1, <1>3, <1>10
          <5> QED BY <5>2, <3>1
        <4> QED BY <4>1, <1>3
      <3>4. Past(p, n) = {n}
        BY <3>1, <1>10
      <3> QED BY <3>2, <3>3, <3>4, <1>3, <1>4, <1>13, <1>14 DEF Knows
    <2>2. CASE s # 0 /\ v < w \div 2
      <3>1. PICK m \in Past("next", n) : w = Number[m] /\ (g = 1 => r <= m)
        BY <2>2, <1>11
      <3>2. v < w
        BY <2>2, <1>3
      <3>3. m < r /\ r <= n
        BY <3>1, <3>2, <1>3, <1>12
      <3>4. g = 0 /\ h = 1 /\ b = 0 /\ y = v + 1 /\ u = CounterLimit + v
        <4>1. g = 0
          BY <3>1, <3>3, <1>3, <1>11, <1>12
        <4> QED BY <2>2, <4>1, <1>3, <1>5, <1>7
      <3>5. u = TrueKey(r, n)
        BY <3>3, <3>4, <1>3, <1>13
      <3>6. n \in Past(p, n)
        BY <1>10
      <3> QED BY <3>3, <3>4, <3>5, <3>6, <1>3, <1>4, <1>14 DEF Knows
    <2>3. CASE s # 0 /\ ~(v < w \div 2) /\ g = 1
      <3>1. PICK m \in Past("next", n) : r <= m
        BY <2>3, <1>11
      <3>2. r <= n
        BY <3>1, <1>3, <1>12
      <3>3. h = 1 /\ u = CounterLimit + v
        BY <2>3, <1>3, <1>5, <1>7
      <3>4. u = TrueKey(r, n)
        BY <3>2, <3>3, <1>3, <1>13
      <3>5. n \in Past(p, n)
        BY <1>10
      <3> QED BY <3>2, <3>3, <3>4, <3>5, <1>4, <1>7, <1>14 DEF Knows
    <2>4. CASE s # 0 /\ ~(v < w \div 2) /\ g = 0 /\ n < r
      <3>1. PICK m \in Past("next", n) : w = Number[m]
        BY <2>4, <1>11
      <3>2. w < v
        BY <2>4, <3>1, <1>3, <1>12
      <3>3. s = w + 1
        <4>1. \A a \in Past("next", n) : a < r
          BY <2>4, <1>3, <1>12
        <4> QED BY <2>4, <4>1, <1>11
      <3>4. h = 0 /\ b = s /\ y = v + 1 /\ u = v /\ ~ q
        <4>1. h = 0 /\ b = s
          BY <2>4, <1>5
        <4>2. u = v
          BY <4>1, <1>3, <1>7
        <4>3. y = v + 1
          BY <4>1, <3>2, <3>3, <1>3, <1>7
        <4>4. ~ q
          <5>1. ~(b # 0 /\ v + 1 < b)
            BY <4>1, <3>2, <3>3, <1>3
          <5> QED BY <5>1, <1>9, Zenon
        <4> QED BY <4>1, <4>2, <4>3, <4>4
      <3>5. u = TrueKey(r, n)
        BY <2>4, <3>4, <1>13
      <3>6. n \in Past(p, n)
        BY <1>10
      <3>7. y <= x /\ y = v + 1 /\ y # 0
        BY <3>4, <1>3, <1>14
      <3>8. n < r /\ Number[n] + 1 <= y
        BY <2>4, <3>7, <1>3, <1>4
      <3>9. v = Number[n] /\ p # "next"
        BY <1>4, <1>14
      <3>10. h \in {0, 1} /\ y # 0 /\ (h = 1 => r <= n)
        BY <3>4, <3>7
      <3>11. \E a \in Past(p, n) : a < r /\ Number[a] + 1 <= y
        BY <3>6, <3>8
      <3>12. \E a \in Past(p, n) : v = Number[a] /\ (h = 1 => r <= a)
        BY <3>6, <3>9, <3>10
      <3>13. Knows(r, p, n, v, y, h, q, x)
        BY <3>4, <3>7, <3>9, <3>10, <3>11, <3>12 DEF Knows
      <3> QED BY <3>5, <3>13
    <2>5. CASE s # 0 /\ ~(v < w \div 2) /\ g = 0 /\ r <= n
      <3>1. PICK m \in Past("next", n) : m < r /\ Number[m] + 1 <= s
        BY <2>5, <1>11
      <3>2. v < Number[m] /\ m \in Quotes
        BY <2>5, <3>1, <1>3, <1>12
      <3>3. h = 0 /\ b = s /\ y = s /\ u = v /\ v + 1 < s
        BY <2>5, <3>1, <3>2, <1>3, <1>5, <1>7
      <3>4. p = "lost" /\ x = k /\ s <= k
        BY <2>5, <3>3, <1>3, <1>9, <1>11
      <3>5. n \in Past(p, n) /\ m \in Past(p, n) /\ ~(n < r)
        BY <2>5, <3>1, <1>3, <1>10
      <3> QED BY <2>5, <3>1, <3>3, <3>4, <3>5, <1>4 DEF Knows
    <2>6. (g = 0 \/ g = 1) /\ (n < r \/ r <= n)
      BY <1>3, <1>11
    <2> QED BY <2>1, <2>2, <2>3, <2>4, <2>5, <2>6, Zenon
  <1>16. at'[c] = p /\ cursor'[c] = n /\ saw'[c] = v /\ seen'[c] = y /\ generation'[c] = h
         /\ fell'[c] = q /\ claimed' = x /\ key'[c] = u /\ conn'[c] = "up"
    BY <1>1, <1>2, <1>8, <1>9
  <1>17. claimed' = claimed \/ \E m \in Quotes : claimed' = TrueKey(r, m) + 1
    BY <1>2, <1>3, <1>14, <1>15, <1>16
  <1>18. InFlight' = InFlight
    BY <1>8 DEF InFlight
  <1>19. \A d \in Connection : d # c =>
            /\ at'[d] = at[d] /\ cursor'[d] = cursor[d] /\ saw'[d] = saw[d]
            /\ seen'[d] = seen[d] /\ generation'[d] = generation[d]
            /\ fell'[d] = fell[d] /\ key'[d] = key[d] /\ conn'[d] = conn[d]
    BY <1>1, <1>8
  <1>20. claimed' \in Nat /\ claimed <= claimed'
    BY <1>2, <1>14, <1>16
  <1>21. at'[c] \in {"reclaim", "push"} => key'[c] = TrueKey(r, cursor'[c])
    BY <1>14, <1>15, <1>16
  <1>22. Knows(r, at'[c], cursor'[c], saw'[c], seen'[c], generation'[c], fell'[c], claimed')
    BY <1>15, <1>16
  <1> QED BY <1>8, <1>16, <1>17, <1>18, <1>19, <1>20, <1>21, <1>22, OrderSteps

LEMMA AdoptOrders ==
    ASSUME NEW r, Separates(r), Core, OrderInv(r), NEW c \in Connection, Adopt(c)
    PROVE  OrderInv(r)'
  <1>1. /\ {seen, generation, key} \subseteq [Connection -> Nat] /\ claimed \in Nat
        /\ at \in [Connection -> {"next", "lost", "reclaim", "duplicate", "push"}]
        /\ at[c] = "lost" /\ conn[c] = "up" /\ cursor[c] \in Quotes
        /\ fell[c] /\ Generation(claimed) > generation[c]
    <2>1. /\ {seen, generation, key} \subseteq [Connection -> Nat] /\ claimed \in Nat
          /\ at \in [Connection -> {"next", "lost", "reclaim", "duplicate", "push"}]
      BY DEF Core, Types
    <2>2. /\ at[c] = "lost" /\ conn[c] = "up"
          /\ fell[c] /\ Generation(claimed) > generation[c]
      <3>1. fell[c] /\ Generation(claimed) > generation[c]
        BY ZenonT(20) DEF Adopt, Adopts
      <3>2. at[c] = "lost"
        BY DEF Adopt
      <3>3. conn[c] = "up"
        BY <3>2 DEF Core, EventsInv
      <3> QED BY <3>1, <3>2, <3>3
    <2>3. cursor[c] \in Quotes
      BY <2>2 DEF Core, EventsInv, Quotes
    <2> QED BY <2>1, <2>2, <2>3
  <1>2. PICK n, v, g, k, h : /\ n = cursor[c] /\ v = Number[cursor[c]] /\ g = generation[c]
                             /\ k = claimed /\ h = Generation(claimed)
    OBVIOUS
  <1>3. n \in Quotes /\ n \in Nat /\ v \in Nat /\ k \in Nat /\ r \in Nat
    BY <1>1, <1>2, StreamTypes, SMTT(30) DEF Quotes, Separates
  <1>4. Knows(r, "lost", n, saw[c], seen[c], g, TRUE, k)
    <2>1. Knows(r, at[c], n, saw[c], seen[c], g, fell[c], k)
      BY <1>2 DEF OrderInv, GenerationsInv
    <2> QED BY <2>1, <1>1 DEF Knows
  <1>5. k # 0
    <2>1. seen[c] # 0
      BY <1>4 DEF Knows
    <2>2. g = 0 => seen[c] <= k
      BY <2>1, <1>4 DEF Knows
    <2>3. g \in {0, 1} /\ seen[c] \in Nat
      BY <1>1, <1>4 DEF Knows
    <2>4. ASSUME k = 0 PROVE FALSE
      <3>1. h = (0 - 1) \div CounterLimit /\ CounterLimit \in Nat \ {0}
        BY <2>4, <1>2, StreamTypes DEF Generation
      <3>2. h \in Int /\ h <= 0
        BY <3>1
      <3>3. h > g
        BY <1>1, <1>2
      <3> QED BY <3>2, <3>3, <2>3
    <2> QED BY <2>4
  <1>6. h \in {0, 1}
    <2>1. PICK m \in Quotes : k = TrueKey(r, m) + 1
      BY <1>2, <1>5 DEF OrderInv, KeysInv
    <2> QED BY <2>1, <1>2, ClaimedGeneration
  <1>7. h = 1 /\ g = 0
    BY <1>1, <1>2, <1>4, <1>6 DEF Knows
  <1>8. r <= n /\ saw[c] = v
    BY <1>2, <1>4, <1>7 DEF Knows
  <1>9. Key(h, v) = TrueKey(r, n)
    BY <1>2, <1>3, <1>7, <1>8 DEF TrueKey
  <1>10. /\ generation' = [generation EXCEPT ![c] = h]
         /\ seen' = [seen EXCEPT ![c] = v + 1]
         /\ key' = [key EXCEPT ![c] = Key(h, v)]
         /\ at' = [at EXCEPT ![c] = "reclaim"]
         /\ UNCHANGED <<conn, cursor, saw, fell, claimed, held, queue, applied, published>>
    BY <1>2 DEF Adopt, loopVars, tableVars
  <1>11. Knows(r, "reclaim", n, saw[c], v + 1, h, fell[c], k)
    <2>1. n \in Past("reclaim", n)
      BY <1>3 DEF Past
    <2> QED BY <2>1, <1>2, <1>3, <1>7, <1>8 DEF Knows
  <1>12. at'[c] = "reclaim" /\ cursor'[c] = n /\ saw'[c] = saw[c] /\ seen'[c] = v + 1
         /\ generation'[c] = h /\ fell'[c] = fell[c] /\ claimed' = k /\ key'[c] = Key(h, v)
         /\ conn'[c] = "up"
    BY <1>1, <1>2, <1>10
  <1>13. \A d \in Connection : d # c =>
            /\ at'[d] = at[d] /\ cursor'[d] = cursor[d] /\ saw'[d] = saw[d]
            /\ seen'[d] = seen[d] /\ generation'[d] = generation[d]
            /\ fell'[d] = fell[d] /\ key'[d] = key[d] /\ conn'[d] = conn[d]
    BY <1>1, <1>10
  <1>14. InFlight' = InFlight
    BY <1>10 DEF InFlight
  <1>15. Knows(r, at'[c], cursor'[c], saw'[c], seen'[c], generation'[c], fell'[c], claimed')
    BY <1>11, <1>12
  <1>16. claimed' \in Nat /\ claimed <= claimed' /\ claimed' = claimed /\ v + 1 # 0
    BY <1>1, <1>3, <1>10
  <1> QED BY <1>9, <1>10, <1>12, <1>13, <1>14, <1>15, <1>16, OrderSteps

LEMMA ReclaimOrders ==
    ASSUME NEW r, Separates(r), Core, OrderInv(r), NEW c \in Connection, Reclaim(c)
    PROVE  OrderInv(r)'
  <1>1. /\ key \in [Connection -> Nat] /\ claimed \in Nat
        /\ at \in [Connection -> {"next", "lost", "reclaim", "duplicate", "push"}]
        /\ at[c] = "reclaim" /\ conn[c] = "up" /\ cursor[c] \in Quotes
    BY DEF Core, Types, EventsInv, Reclaim, Quotes
  <1>2. PICK k, u, x, p : /\ k = claimed /\ u = key[c]
                          /\ x = (IF u + 1 > k THEN u + 1 ELSE k)
                          /\ p = (IF u + 1 > k THEN "push" ELSE "duplicate")
    OBVIOUS
  <1>3. /\ key' = key /\ claimed' = x
        /\ at' = [at EXCEPT ![c] = p]
        /\ UNCHANGED <<conn, cursor, saw, seen, fell, generation, held, queue, applied, published>>
    BY <1>1, <1>2 DEF Reclaim, ClaimOf, loopVars, tableVars
  <1>4. u = TrueKey(r, cursor[c])
    BY <1>1, <1>2 DEF OrderInv, KeysInv
  <1>5. k \in Nat /\ x \in Nat /\ k <= x /\ (x = k \/ x = u + 1) /\ p \in {"push", "duplicate"}
    BY <1>1, <1>2
  <1>6. Knows(r, "reclaim", cursor[c], saw[c], seen[c], generation[c], fell[c], k)
    BY <1>1, <1>2 DEF OrderInv, GenerationsInv
  <1>7. Knows(r, p, cursor[c], saw[c], seen[c], generation[c], fell[c], k)
    <2>1. Past(p, cursor[c]) = Past("reclaim", cursor[c])
      BY <1>5 DEF Past
    <2> QED BY <2>1, <1>5, <1>6 DEF Knows
  <1>8. Knows(r, p, cursor[c], saw[c], seen[c], generation[c], fell[c], x)
    <2>1. seen[c] \in Nat
      BY DEF Core, Types
    <2> QED BY <2>1, <1>5, <1>7, KnowsMore
  <1>9. at'[c] = p /\ key'[c] = u /\ cursor'[c] = cursor[c] /\ conn'[c] = "up"
    BY <1>1, <1>2, <1>3
  <1>10. \A d \in Connection : d # c => at'[d] = at[d]
    BY <1>1, <1>3
  <1>11. InFlight' = InFlight
    BY <1>3 DEF InFlight
  <1>12. Knows(r, at'[c], cursor'[c], saw'[c], seen'[c], generation'[c], fell'[c], claimed')
    BY <1>3, <1>8, <1>9
  <1>13. claimed' \in Nat /\ claimed <= claimed'
         /\ (claimed' = claimed \/ \E m \in Quotes : claimed' = TrueKey(r, m) + 1)
    BY <1>1, <1>2, <1>3, <1>4, <1>5
  <1> QED BY <1>3, <1>4, <1>9, <1>10, <1>11, <1>12, <1>13, OrderSteps

(* A decoder moves on: behind a duplicate, a push, or over a trade.        *)
LEMMA MovingOrders ==
    ASSUME NEW r, Core, OrderInv(r), NEW c \in Connection,
           at[c] # "next" \/ cursor[c] \notin Quotes, conn[c] = "up",
           at' = [at EXCEPT ![c] = "next"], cursor' = [cursor EXCEPT ![c] = @ + 1],
           UNCHANGED <<conn, key, saw, seen, fell, generation, claimed, applied, published>>,
           \A e \in InFlight' :
               e \in InFlight \/ (Kind[e.message] = "quote" => e.key = TrueKey(r, e.message))
    PROVE  OrderInv(r)'
  <1>1. /\ at \in [Connection -> {"next", "lost", "reclaim", "duplicate", "push"}]
        /\ cursor \in [Connection -> 1 .. Len(Kind) + 1] /\ claimed \in Nat
    BY DEF Core, Types
  <1>2. cursor[c] \in Nat
    BY <1>1, StreamTypes
  <1>3. Knows(r, at[c], cursor[c], saw[c], seen[c], generation[c], fell[c], claimed)
    BY DEF OrderInv, GenerationsInv
  <1>4. Knows(r, "next", cursor[c] + 1, saw[c], seen[c], generation[c], fell[c], claimed)
    BY <1>2, <1>3, KnowsMovesOn
  <1>5. at'[c] = "next" /\ cursor'[c] = cursor[c] + 1 /\ conn'[c] = "up"
    BY <1>1
  <1>6. \A d \in Connection : d # c => at'[d] = at[d] /\ cursor'[d] = cursor[d]
    BY <1>1
  <1>7. Knows(r, at'[c], cursor'[c], saw'[c], seen'[c], generation'[c], fell'[c], claimed')
    BY <1>4, <1>5
  <1>8. claimed' \in Nat /\ claimed <= claimed'
    BY <1>1
  <1> QED BY <1>5, <1>6, <1>7, <1>8, OrderSteps

(* Or it moves on, some way, behind a decode that failed or was refused.   *)
LEMMA DroppedOrders ==
    ASSUME NEW r, Core, OrderInv(r), NEW c \in Connection, conn[c] = "up",
           NEW next \in Nat, Dropped(c, next), cursor[c] < next,
           \/ seen[c] # 0
           \/ next = cursor[c] + 1 /\ cursor[c] \notin Quotes
    PROVE  OrderInv(r)'
  <1>1. /\ at' = [at EXCEPT ![c] = "next"] /\ cursor' = [cursor EXCEPT ![c] = next]
        /\ UNCHANGED <<conn, key, saw, seen, fell, generation, claimed, held, queue, applied,
                       published>>
    BY DEF Dropped, loopVars
  <1>2. /\ at \in [Connection -> {"next", "lost", "reclaim", "duplicate", "push"}]
        /\ cursor \in [Connection -> 1 .. Len(Kind) + 1] /\ claimed \in Nat
    BY DEF Core, Types
  <1>3. PICK p, n, w, s, g, f, k :
            /\ p = at[c] /\ n = cursor[c] /\ w = saw[c] /\ s = seen[c] /\ g = generation[c]
            /\ f = fell[c] /\ k = claimed
    OBVIOUS
  <1>4. n \in Nat /\ Knows(r, p, n, w, s, g, f, k)
    BY <1>2, <1>3, StreamTypes DEF OrderInv, GenerationsInv
  <1>5. Knows(r, "next", next, w, s, g, f, k)
    <2>1. CASE p # "next" \/ n \notin Quotes
      <3>1. Knows(r, "next", n + 1, w, s, g, f, k)
        BY <1>4, <2>1, KnowsMovesOn
      <3>2. n + 1 \in Nat /\ n + 1 <= next
        BY <1>3, <1>4
      <3>3. CASE s # 0
        BY <3>1, <3>2, <3>3, KnowsMissed
      <3>4. CASE s = 0
        BY <3>1, <3>4, <1>3
      <3> QED BY <3>3, <3>4
    <2>2. CASE p = "next" /\ n \in Quotes
      <3>1. s # 0 /\ n <= next
        BY <2>2, <1>3, <1>4
      <3> QED BY <3>1, <2>2, <1>4, KnowsMissed
    <2> QED BY <2>1, <2>2
  <1>6. at'[c] = "next" /\ cursor'[c] = next /\ conn'[c] = "up"
        /\ \A d \in Connection : d # c => at'[d] = at[d] /\ cursor'[d] = cursor[d]
    BY <1>1, <1>2
  <1>7. Knows(r, at'[c], cursor'[c], saw'[c], seen'[c], generation'[c], fell'[c], claimed')
    BY <1>1, <1>3, <1>5, <1>6
  <1>8. claimed' \in Nat /\ claimed <= claimed' /\ InFlight' = InFlight
    BY <1>1, <1>2 DEF InFlight
  <1> QED BY <1>1, <1>6, <1>7, <1>8, OrderSteps

LEMMA DecodeOrders ==
    ASSUME NEW r, Separates(r), Core, OrderInv(r), NEW c \in Connection, Decode(c)
    PROVE  OrderInv(r)'
  <1>1. CASE Duplicate(c)
    <2>1. at[c] # "next" /\ conn[c] = "up"
      BY <1>1 DEF Duplicate, Core, EventsInv
    <2>2. InFlight' = InFlight
      BY <1>1 DEF Duplicate, InFlight
    <2> QED BY <1>1, <2>1, <2>2, MovingOrders DEF Duplicate, loopVars, tableVars
  <1>2. ASSUME NEW k, Pushed(c, k), at[c] # "next" \/ cursor[c] \notin Quotes, conn[c] = "up",
               Kind[cursor[c]] = "quote" => k = TrueKey(r, cursor[c])
        PROVE  OrderInv(r)'
    <2>1. PICK e : e = Event(c, cursor[c], k)
      OBVIOUS
    <2>2. Kind[e.message] = "quote" => e.key = TrueKey(r, e.message)
      BY <1>2, <2>1 DEF Event
    <2>3. InFlight' \subseteq InFlight \cup {e}
      <3>1. queue \in Seq(Events) /\ held \in [Connection -> Seq(Events)]
        BY DEF Core, Types
      <3>2. \A s \in Seq(Events) : ToSet(Append(s, e)) = ToSet(s) \cup {e}
        <4> SUFFICES ASSUME NEW s \in Seq(Events) PROVE ToSet(Append(s, e)) = ToSet(s) \cup {e}
          OBVIOUS
        <4>1. s \in Seq(Events \cup {e})
          OBVIOUS
        <4> QED BY <4>1, SetOfAppended
      <3>3. CASE Offered(c)
        <4>1. queue' = Append(queue, e) /\ held' = held
          BY <1>2, <2>1, <3>3 DEF Pushed, Outbox
        <4> QED BY <4>1, <3>1, <3>2 DEF InFlight
      <3>4. CASE ~ Offered(c)
        <4>1. queue' = queue /\ held' = [held EXCEPT ![c] = Append(@, e)]
          BY <1>2, <2>1, <3>4 DEF Pushed, Outbox
        <4>2. \A b \in Connection : ToSet(held'[b]) \subseteq ToSet(held[b]) \cup {e}
          BY <4>1, <3>1, <3>2
        <4> QED BY <4>1, <4>2 DEF InFlight
      <3> QED BY <3>3, <3>4
    <2>4. /\ at' = [at EXCEPT ![c] = "next"] /\ cursor' = [cursor EXCEPT ![c] = @ + 1]
          /\ UNCHANGED <<conn, key, saw, seen, fell, generation, claimed, applied, published>>
      BY <1>2 DEF Pushed, loopVars, tableVars
    <2>5. \A f \in InFlight' :
              f \in InFlight \/ (Kind[f.message] = "quote" => f.key = TrueKey(r, f.message))
      BY <2>2, <2>3
    <2> QED BY <1>2, <2>4, <2>5, MovingOrders
  <1>3. CASE PushQuote(c)
    <2>1. at[c] = "push" /\ conn[c] = "up" /\ Pushed(c, key[c]) /\ key[c] = TrueKey(r, cursor[c])
      BY <1>3 DEF PushQuote, Core, EventsInv, OrderInv, KeysInv
    <2> QED BY <2>1, <1>2
  <1>4. CASE PushTrade(c)
    <2>1. conn[c] = "up" /\ Kind[cursor[c]] = "trade" /\ Pushed(c, Number[cursor[c]])
      BY <1>4 DEF PushTrade, Reads
    <2> QED BY <2>1, <1>2 DEF Quotes
  <1>5. CASE Fails(c) \/ Refused(c)
    <2>1. /\ conn[c] = "up" /\ cursor[c] \in Message /\ (at[c] = "push" => seen[c] # 0)
          /\ cursor[c] \in Nat
      BY <1>5, StreamTypes DEF Fails, Refused, Reads, Core, EventsInv, OrderInv,
             GenerationsInv, Knows
    <2>2. CASE Fails(c)
      <3>1. PICK q : q = PayloadEnd(cursor[c]) + 1
        OBVIOUS
      <3>2. q \in Nat /\ cursor[c] < q
        <4>1. PICK p : p = PayloadEnd(cursor[c])
          OBVIOUS
        <4>2. p \in PayloadEnds /\ cursor[c] <= p
          BY <2>1, <4>1, PayloadEndIs
        <4>3. p \in Nat
          BY <4>2, StreamTypes
        <4> QED BY <2>1, <3>1, <4>1, <4>2, <4>3
      <3>3. seen[c] # 0 /\ Dropped(c, q)
        BY <2>1, <2>2, <3>1 DEF Fails
      <3> QED BY <2>1, <3>2, <3>3, DroppedOrders
    <2>3. CASE Refused(c)
      <3>1. PICK q : q = cursor[c] + 1
        OBVIOUS
      <3>2. q \in Nat /\ cursor[c] < q
        BY <2>1, <3>1
      <3>3. Dropped(c, q) /\ (seen[c] # 0 \/ cursor[c] \notin Quotes)
        BY <2>1, <2>3, <3>1 DEF Refused, Quotes
      <3> QED BY <2>1, <3>1, <3>2, <3>3, DroppedOrders
    <2> QED BY <1>5, <2>2, <2>3
  <1> QED BY <1>1, <1>3, <1>4, <1>5, ClaimOrders, AdoptOrders, ReclaimOrders DEF Decode

LEMMA LifecycleOrders ==
    ASSUME NEW r, Separates(r), Core, OrderInv(r), NEW c \in Connection, Lifecycle(c) \/ Stop(c)
    PROVE  OrderInv(r)'
  <1>1. /\ conn \in [Connection -> {"up", "closing", "ended", "stopped"}]
        /\ cursor \in [Connection -> 1 .. Len(Kind) + 1] /\ claimed \in Nat
    BY DEF Core, Types
  <1>2. PICK p, n : p = conn'[c] /\ n = cursor'[c]
    OBVIOUS
  <1>3. /\ UNCHANGED <<at, key, saw, seen, fell, generation, claimed, applied, published,
                       held, queue>>
        /\ \A d \in Connection : d # c => conn'[d] = conn[d] /\ cursor'[d] = cursor[d]
        /\ p = "closing" => seen[c] # 0
    <2>1. CASE Disconnect(c)
      BY <2>1, <1>1, <1>2 DEF Disconnect, decoderVars, loopVars, tableVars
    <2>2. CASE Reconnect(c)
      BY <2>2, <1>1, <1>2 DEF Reconnect, loopVars, tableVars
    <2>3. CASE GiveUp(c)
      BY <2>3, <1>1, <1>2 DEF GiveUp, decoderVars, tableVars
    <2>4. CASE Stop(c)
      BY <2>4, <1>1, <1>2 DEF Stop, decoderVars, loopVars, tableVars
    <2> QED BY <2>1, <2>2, <2>3, <2>4 DEF Lifecycle
  <1>4. Knows(r, at[c], cursor[c], saw[c], seen[c], generation[c], fell[c], claimed)
    BY DEF OrderInv, GenerationsInv
  <1>5. Knows(r, at[c], n, saw[c], seen[c], generation[c], fell[c], claimed)
    <2>1. CASE cursor'[c] = cursor[c]
      BY <2>1, <1>2, <1>4
    <2>2. CASE Reconnect(c)
      <3>1. conn[c] = "closing" /\ n >= cursor[c] /\ n \in Nat
        <4>1. PICK m \in PayloadEnds \cup {0} :
                m + 1 >= cursor[c] /\ cursor' = [cursor EXCEPT ![c] = m + 1]
          BY <2>2 DEF Reconnect
        <4>2. n = m + 1 /\ m \in Nat
          BY <4>1, <1>1, <1>2, StreamTypes
        <4> QED BY <4>1, <4>2, <2>2 DEF Reconnect
      <3>2. at[c] = "next"
        BY <3>1 DEF Core, EventsInv
      <3>3. seen[c] # 0
        BY <3>1 DEF OrderInv, GenerationsInv
      <3>4. cursor[c] \in Nat
        BY <1>1, StreamTypes
      <3> QED BY <3>1, <3>2, <3>3, <3>4, <1>4, KnowsMissed
    <2>3. cursor' = cursor \/ Reconnect(c)
      BY DEF Lifecycle, Disconnect, GiveUp, Stop, decoderVars, tableVars
    <2> QED BY <2>1, <2>2, <2>3
  <1>6. InFlight' = InFlight
    BY <1>3 DEF InFlight
  <1>7. at[c] \in {"reclaim", "push"} => key[c] = TrueKey(r, n)
    <2>1. ASSUME at[c] \in {"reclaim", "push"} PROVE cursor'[c] = cursor[c]
      <3>1. conn[c] = "up"
        BY <2>1 DEF Core, EventsInv
      <3> QED BY <3>1 DEF Lifecycle, Disconnect, Reconnect, GiveUp, Stop, decoderVars,
                     tableVars
    <2> QED BY <2>1, <1>2 DEF OrderInv, KeysInv
  <1>8. Knows(r, at'[c], cursor'[c], saw'[c], seen'[c], generation'[c], fell'[c], claimed')
    BY <1>2, <1>3, <1>5
  <1>9. claimed' \in Nat /\ claimed <= claimed'
    BY <1>1, <1>3
  <1> QED BY <1>2, <1>3, <1>6, <1>7, <1>8, <1>9, OrderSteps

LEMMA FlushOrders ==
    ASSUME NEW r, Core, OrderInv(r), NEW c \in Connection, Flush(c)
    PROVE  OrderInv(r)'
  <1>1. /\ held[c] # <<>> /\ queue' = Append(queue, Head(held[c]))
        /\ held' = [held EXCEPT ![c] = Tail(@)]
        /\ UNCHANGED <<conn, cursor, at, key, saw, seen, fell, generation, claimed, applied,
                       published>>
    BY DEF Flush, decoderVars, loopVars, tableVars
  <1>2. PICK h, e, t : h = held[c] /\ e = Head(h) /\ t = Tail(h)
    OBVIOUS
  <1>3. h \in Seq(Events) /\ queue \in Seq(Events) /\ held \in [Connection -> Seq(Events)]
    BY <1>2 DEF Core, Types
  <1>4. ToSet(h) = ToSet(t) \cup {e} /\ e \in Events
    BY <1>1, <1>2, <1>3, SetOfTail
  <1>5. held'[c] = t /\ \A b \in Connection : b # c => held'[b] = held[b]
    BY <1>1, <1>2, <1>3
  <1>6. ToSet(queue') = ToSet(queue) \cup {e}
    BY <1>1, <1>2, <1>3, <1>4, SetOfAppended
  <1>7. InFlight' \subseteq InFlight
    BY <1>2, <1>4, <1>5, <1>6 DEF InFlight
  <1> QED BY <1>1, <1>7, OrderQuiet

(* A batch applies a quote only behind every older one.                    *)
QuotesKnown(r, d) ==
    /\ \A i \in DOMAIN d.published : Kind[d.published[i]] = "quote" =>
          TrueKey(r, d.published[i]) + 1 <= d.applied
    /\ \A i, j \in DOMAIN d.published :
          i < j /\ Kind[d.published[i]] = "quote" /\ Kind[d.published[j]] = "quote" =>
              d.published[i] < d.published[j]

LEMMA JudgingQuotes ==
    ASSUME NEW r, Separates(r), NEW events \in Seq(Events), NEW d, Judging(events, d),
           Len(Now.window) <= IdentityWindow, QuotesKnown(r, Now),
           \A i \in DOMAIN events : Kind[events[i].message] = "quote" =>
               events[i].key = TrueKey(r, events[i].message)
    PROVE  QuotesKnown(r, d[Len(events)])
  <1> DEFINE T == {n \in 0 .. Len(events) :
                       QuotesKnown(r, d[n]) /\ Len(d[n].window) <= IdentityWindow}
  <1>1. Len(events) \in Nat /\ DOMAIN events = 1 .. Len(events)
        /\ \A i \in 1 .. Len(events) : events[i] \in Events
    OBVIOUS
  <1>2. \A n \in 0 .. Len(events) : d[n] \in LoopState
    BY DEF Judging
  <1>3. 0 \in T
    BY <1>1 DEF Judging
  <1>4. ASSUME NEW n \in 1 .. Len(events), n - 1 \in T PROVE n \in T
    <2>1. PICK c, e, x : c = d[n - 1] /\ e = events[n] /\ x = d[n]
      OBVIOUS
    <2>2. /\ c \in LoopState /\ e \in Events /\ x = Judged(c, e) /\ x \in LoopState
          /\ Kind[e.message] = "quote" => e.key = TrueKey(r, e.message)
      <3>1. n \in 0 .. Len(events) /\ n - 1 \in 0 .. Len(events) /\ n \in DOMAIN events
        BY <1>1
      <3>2. c \in LoopState /\ x \in LoopState /\ e \in Events
        BY <1>1, <1>2, <2>1, <3>1
      <3>3. x = Judged(c, e)
        BY <2>1 DEF Judging
      <3>4. Kind[e.message] = "quote" => e.key = TrueKey(r, e.message)
        BY <2>1, <3>1
      <3> QED BY <3>2, <3>3, <3>4
    <2>3. QuotesKnown(r, c) /\ Len(c.window) <= IdentityWindow
      BY <1>4, <2>1
    <2>4. e.key \in Nat /\ e.message \in Message /\ Kind[e.message] \in {"quote", "trade"}
      BY <2>2, StreamTypes DEF Events
    <2>5. c.published \in Seq(Message) /\ c.applied \in Nat
      BY <2>2 DEF LoopState
    <2>6. ASSUME x.published = Append(c.published, e.message)
          PROVE  /\ DOMAIN x.published = 1 .. Len(c.published) + 1
                 /\ x.published[Len(c.published) + 1] = e.message
                 /\ DOMAIN c.published = 1 .. Len(c.published) /\ Len(c.published) \in Nat
                 /\ \A i \in 1 .. Len(c.published) : x.published[i] = c.published[i]
      BY <2>4, <2>5, <2>6
    <2>7. QuotesKnown(r, x) /\ Len(x.window) <= IdentityWindow
      <3>1. CASE Kind[e.message] = "quote"
        <4>1. x.window = c.window
          BY <2>2, <3>1, JudgedQuote
        <4>2. CASE ~(e.key + 1 > c.applied)
          BY <2>2, <2>3, <3>1, <4>2, JudgedQuote
        <4>3. CASE e.key + 1 > c.applied
          <5>1. x.applied = e.key + 1 /\ x.published = Append(c.published, e.message)
            BY <2>2, <3>1, <4>3, JudgedQuote
          <5> DEFINE L == Len(c.published)
          <5>2. /\ DOMAIN x.published = 1 .. L + 1 /\ DOMAIN c.published = 1 .. L /\ L \in Nat
                /\ x.published[L + 1] = e.message
                /\ \A i \in 1 .. L : x.published[i] = c.published[i] /\ c.published[i] \in Message
            BY <5>1, <2>5, <2>6
          <5> HIDE DEF L
          <5>3. e.message \in Quotes /\ e.key = TrueKey(r, e.message)
            BY <2>2, <2>4, <3>1 DEF Quotes
          <5>4. ASSUME NEW i \in 1 .. L, Kind[c.published[i]] = "quote"
                PROVE  /\ TrueKey(r, c.published[i]) + 1 <= x.applied
                       /\ c.published[i] < e.message
            <6>1. PICK m : m = c.published[i]
              OBVIOUS
            <6>2. m \in Quotes /\ TrueKey(r, m) + 1 <= c.applied
              BY <6>1, <5>2, <5>4, <2>3 DEF QuotesKnown, Quotes
            <6>3. TrueKey(r, m) \in Nat
              BY <6>2, TrueKeyIs
            <6>4. TrueKey(r, m) < TrueKey(r, e.message)
              BY <6>2, <6>3, <5>3, <4>3, <2>4, <2>5
            <6>5. m < e.message
              BY <6>2, <6>4, <5>3, KeyOrders
            <6> QED BY <6>1, <6>2, <6>3, <6>5, <5>1, <4>3, <2>4, <2>5
          <5>5. \A i \in 1 .. L + 1 : i \in 1 .. L \/ i = L + 1
            BY <5>2
          <5>6. ASSUME NEW i \in DOMAIN x.published, Kind[x.published[i]] = "quote"
                PROVE  TrueKey(r, x.published[i]) + 1 <= x.applied
            <6>1. CASE i = L + 1
              BY <6>1, <5>1, <5>2, <5>3, <2>4
            <6>2. CASE i \in 1 .. L
              BY <6>2, <5>2, <5>4, <5>6
            <6> QED BY <6>1, <6>2, <5>2, <5>5
          <5>7. ASSUME NEW i \in DOMAIN x.published, NEW j \in DOMAIN x.published, i < j,
                       Kind[x.published[i]] = "quote", Kind[x.published[j]] = "quote"
                PROVE  x.published[i] < x.published[j]
            <6>1. i \in 1 .. L
              BY <5>2, <5>7
            <6>2. CASE j = L + 1
              BY <6>1, <6>2, <5>2, <5>4, <5>7
            <6>3. CASE j \in 1 .. L
              BY <6>1, <6>3, <5>2, <5>7, <2>3 DEF QuotesKnown
            <6> QED BY <6>2, <6>3, <5>2, <5>5
          <5> QED BY <2>3, <4>1, <5>6, <5>7 DEF QuotesKnown
        <4> QED BY <4>2, <4>3
      <3>2. CASE Kind[e.message] = "trade"
        <4>1. x.applied = c.applied /\ Len(x.window) <= IdentityWindow
              /\ (x = c \/ x.published = Append(c.published, e.message))
          BY <2>2, <2>3, <3>2, JudgedTrade
        <4>2. CASE x.published = Append(c.published, e.message)
          <5>1. \A i \in DOMAIN x.published : Kind[x.published[i]] = "quote" =>
                    i \in DOMAIN c.published /\ x.published[i] = c.published[i]
            BY <2>6, <3>2, <4>2
          <5> QED BY <2>3, <4>1, <5>1 DEF QuotesKnown
        <4>3. CASE x = c
          BY <2>3, <4>3
        <4> QED BY <4>1, <4>2, <4>3
      <3> QED BY <2>4, <3>1, <3>2
    <2> QED BY <2>1, <2>7
  <1>5. T \in SUBSET (0 .. Len(events))
    OBVIOUS
  <1>6. \A n \in T : QuotesKnown(r, d[n])
    OBVIOUS
  <1> HIDE DEF T
  <1>7. \A n \in 0 .. Len(events) : n \in T
    BY <1>1, <1>3, <1>4, <1>5, UpTo
  <1> QED BY <1>1, <1>6, <1>7

LEMMA ApplyOrders ==
    ASSUME NEW r, Separates(r), Core, OrderInv(r), NEW s \in Seq(Events),
           ToSet(s) \subseteq InFlight, Apply(s), InFlight' \subseteq InFlight,
           UNCHANGED <<conn, decoderVars, claimed>>
    PROVE  OrderInv(r)'
  <1>1. PICK d : Judging(s, d) /\ applied' = d[Len(s)].applied /\ published' = d[Len(s)].published
    BY NowTyped, ApplyJudges
  <1>2. DOMAIN s = 1 .. Len(s) /\ \A i \in DOMAIN s : s[i] \in InFlight
    BY DEF ToSet
  <1>3. \A i \in DOMAIN s : Kind[s[i].message] = "quote" => s[i].key = TrueKey(r, s[i].message)
    BY <1>2 DEF OrderInv, KeysInv
  <1>4. QuotesKnown(r, Now)
    BY DEF Now, QuotesKnown, OrderInv, AppliedInv, QuotesInVenueOrder
  <1>5. QuotesKnown(r, d[Len(s)])
    BY <1>1, <1>3, <1>4, NowTyped, JudgingQuotes
  <1>6. AppliedInv(r)' /\ QuotesInVenueOrder'
    BY <1>1, <1>5 DEF QuotesKnown, AppliedInv, QuotesInVenueOrder
  <1>7. KeysInv(r)' /\ GenerationsInv(r)'
    BY DEF OrderInv, KeysInv, GenerationsInv, decoderVars, tableVars
  <1> QED BY <1>6, <1>7 DEF OrderInv

LEMMA TakeBatchOrders ==
    ASSUME NEW r, Separates(r), Core, OrderInv(r), TakeBatch
    PROVE  OrderInv(r)'
  <1>1. queue \in Seq(Events)
    BY DEF Core, Types
  <1>2. PICK k \in 0 .. Len(queue) :
          Prefix(queue) = SubSeq(queue, 1, k) /\ Rest(queue) = SubSeq(queue, k + 1, Len(queue))
    BY <1>1, BatchOf
  <1>3. PICK a, b : a = SubSeq(queue, 1, k) /\ b = SubSeq(queue, k + 1, Len(queue))
    OBVIOUS
  <1>4. Apply(a) /\ queue' = b /\ held' = held /\ UNCHANGED <<conn, decoderVars, claimed>>
    BY <1>2, <1>3 DEF TakeBatch, tableVars
  <1>5. ToSet(queue) = ToSet(a) \cup ToSet(b) /\ a \in Seq(Events)
    BY <1>1, <1>3, SetOfParts
  <1>6. InFlight' \subseteq InFlight /\ ToSet(a) \subseteq InFlight
    BY <1>4, <1>5 DEF InFlight
  <1> QED BY <1>4, <1>5, <1>6, ApplyOrders

LEMMA FinishHeldOrders ==
    ASSUME NEW r, Separates(r), Core, OrderInv(r), NEW c \in Connection, FinishHeld(c)
    PROVE  OrderInv(r)'
  <1>1. PICK h : h = held[c]
    OBVIOUS
  <1>2. h \in Seq(Events) /\ held \in [Connection -> Seq(Events)]
    BY <1>1 DEF Core, Types
  <1>3. PICK k \in 0 .. Len(h) : Prefix(h) = SubSeq(h, 1, k) /\ Rest(h) = SubSeq(h, k + 1, Len(h))
    BY <1>2, BatchOf
  <1>4. PICK a, b : a = SubSeq(h, 1, k) /\ b = SubSeq(h, k + 1, Len(h))
    OBVIOUS
  <1>5. /\ Apply(a) /\ held' = [held EXCEPT ![c] = b] /\ queue' = queue
        /\ UNCHANGED <<conn, decoderVars, claimed>>
    BY <1>1, <1>3, <1>4 DEF FinishHeld, tableVars
  <1>6. ToSet(h) = ToSet(a) \cup ToSet(b) /\ a \in Seq(Events)
    BY <1>2, <1>4, SetOfParts
  <1>7. held'[c] = b /\ \A d \in Connection : d # c => held'[d] = held[d]
    BY <1>2, <1>5
  <1>8. InFlight' \subseteq InFlight /\ ToSet(a) \subseteq InFlight
    BY <1>1, <1>5, <1>6, <1>7 DEF InFlight
  <1> QED BY <1>5, <1>6, <1>8, ApplyOrders

LEMMA InitOrders == \A r : Init => OrderInv(r)
  <1> SUFFICES ASSUME NEW r, Init PROVE OrderInv(r)
    OBVIOUS
  <1>1. InFlight = {}
    <2>1. ToSet(<<>>) = {}
      BY DEF ToSet
    <2> QED BY <2>1 DEF Init, InFlight
  <1>2. KeysInv(r)
    BY <1>1 DEF Init, KeysInv
  <1>3. GenerationsInv(r)
    <2>1. Past("next", 1) = {}
      <3>1. \A m \in Quotes : m \in Nat \ {0}
        BY StreamTypes DEF Quotes
      <3> QED BY <3>1 DEF Past
    <2>2. \A c \in Connection :
            /\ at[c] = "next" /\ cursor[c] = 1 /\ saw[c] = 0 /\ seen[c] = 0 /\ generation[c] = 0
            /\ conn[c] = "up"
      BY DEF Init
    <2>3. \A c \in Connection : Knows(r, "next", 1, 0, 0, 0, fell[c], claimed)
      BY <2>1 DEF Knows
    <2> QED BY <2>2, <2>3 DEF GenerationsInv
  <1>4. AppliedInv(r) /\ QuotesInVenueOrder
    <2>1. DOMAIN published = {}
      BY DEF Init
    <2> QED BY <2>1 DEF AppliedInv, QuotesInVenueOrder
  <1> QED BY <1>2, <1>3, <1>4 DEF OrderInv

LEMMA NextOrders ==
    ASSUME NEW r, Separates(r)
    PROVE  Core /\ OrderInv(r) /\ [Next]_vars => OrderInv(r)'
  <1> SUFFICES ASSUME Core, OrderInv(r), [Next]_vars PROVE OrderInv(r)'
    OBVIOUS
  <1>1. ASSUME NEW c \in Connection, Decode(c) \/ Flush(c) \/ Lifecycle(c) \/ Stop(c)
        PROVE  OrderInv(r)'
    BY <1>1, DecodeOrders, FlushOrders, LifecycleOrders
  <1>2. CASE LoopBatch \/ FinishQueue
    BY <1>2, TakeBatchOrders DEF LoopBatch, FinishQueue
  <1>3. ASSUME NEW c \in Connection, FinishHeld(c) PROVE OrderInv(r)'
    BY <1>3, FinishHeldOrders
  <1>4. CASE Tick \/ TickDue \/ Signal \/ Finished \/ UNCHANGED vars
    <2>1. UNCHANGED <<conn, decoderVars, claimed, held, queue, applied, published>>
      BY <1>4 DEF Tick, TickDue, Signal, Finished, vars, loopVars, tableVars
    <2>2. InFlight' = InFlight
      BY <2>1 DEF InFlight
    <2> QED BY <2>1, <2>2, OrderQuiet DEF decoderVars, tableVars
  <1> QED BY <1>1, <1>2, <1>3, <1>4 DEF Next, Loop, WindDown

(* A stream all of whose quotes follow the restart has none: it may as     *)
(* well be placed behind the stream.                                       *)
LEMMA SomeSeparates == RestartsOnce => \E r : Separates(r)
  <1> SUFFICES ASSUME NEW r \in 1 .. Len(Kind) + 1, RestartsAt(r) PROVE \E q : Separates(q)
    BY DEF RestartsOnce
  <1>1. CASE \E m \in Quotes : m < r
    BY <1>1 DEF Separates
  <1>2. CASE \A m \in Quotes : ~(m < r)
    <2>1. PICK q : q = Len(Kind) + 1
      OBVIOUS
    <2>2. q \in 1 .. Len(Kind) + 1 /\ q \in Nat /\ r \in Nat
          /\ \A m \in Quotes : m \in Nat /\ m < q
      BY <2>1, StreamTypes DEF Quotes
    <2>3. RestartsAt(q)
      BY <1>2, <2>2 DEF RestartsAt
    <2>4. \A n \in Quotes : ~(q <= n)
      BY <2>2
    <2> QED BY <2>2, <2>3, <2>4 DEF Separates
  <1> QED BY <1>1, <1>2

(* In a stream whose counter restarts at most once, the claims and the     *)
(* loop's own dedupe apply no quote behind a newer one, whichever          *)
(* connections lost, repeated or delayed it.                               *)
THEOREM QuotesApplyInOrder ==
    ASSUME RestartsOnce
    PROVE  Spec => []QuotesInVenueOrder
  <1>1. PICK r : Separates(r)
    BY SomeSeparates
  <1>2. Init => Core /\ OrderInv(r)
    BY InitCore, InitOrders
  <1>3. Core /\ OrderInv(r) /\ [Next]_vars => (Core /\ OrderInv(r))'
    BY <1>1, NextCore, NextOrders
  <1>4. OrderInv(r) => QuotesInVenueOrder
    BY DEF OrderInv
  <1> QED BY <1>2, <1>3, <1>4, PTL DEF Spec
=============================================================================
