------------------------ MODULE MbpCoordinatorProofs -------------------------
(***************************************************************************)
(* Proofs about the coordinator, for every set of shards, channels,        *)
(* instruments and records, every inbox capacity and every bound.          *)
(*                                                                         *)
(* The inductive invariant says where the message of a barrier or a fence  *)
(* can be: nowhere before its goroutine has sent it, last in the inbox     *)
(* until the shard acknowledges it, and behind it an inbox that stays      *)
(* empty.  So whatever a shard handles was dispatched in the era that is   *)
(* current, and when the last acknowledgement is in, nothing is left.      *)
(***************************************************************************)
EXTENDS MbpCoordinatorStream, FiniteSetTheorems, SequenceTheorems, TLAPS

GroupRec == [inst : Inst, id : {r.id : r \in Records}]

RecordMsgs ==
    [kind : {"record"}, rec : Records, inst : Inst, ch : Channel, epoch : Nat]
PruneMsgs == [kind : {"prune"}, seq : Nat, ch : Channel, epoch : Nat]
PlainMsgs == [kind : {"boundary", "clear_shadows"}]
MarkMsgs == [kind : {"reset", "fence"}, ch : Channel]
Msgs == RecordMsgs \cup PruneMsgs \cup PlainMsgs \cup MarkMsgs

(* A message Dispatch may queue for shard s when the eras are ep.          *)
OrdinaryIn(s, m, ep) ==
    \/ /\ m \in RecordMsgs
       /\ ShardOf[m.inst] = s /\ ChannelOf[m.inst] = m.ch
       /\ m.epoch = ep[m.ch]
    \/ m \in PruneMsgs /\ m.epoch = ep[m.ch]
    \/ m \in PlainMsgs

Ordinary(s, m) == OrdinaryIn(s, m, epoch)

SendsIn(sends, ep) ==
    /\ sends \in [Shard -> Seq(Msgs)]
    /\ \A s \in Shard :
          sends[s] = <<>> \/ (Len(sends[s]) = 1 /\ OrdinaryIn(s, sends[s][1], ep))

Waiting == pc \in {"barrier", "fence"}

(* The message of the barrier or fence that is under way.                  *)
Mark == [kind |-> IF pc = "barrier" THEN "reset" ELSE "fence",
         ch |-> (CHOOSE r \in current : TRUE).ch]

Defines(m, k) ==
    m.kind = "record" /\ m.rec.type = "instrument_definition" /\ m.inst = k

IsStrike(m) == m.kind = "record" /\ m.rec.type = "strike_interval"

(* The next message to the shard of k finds k defined.                     *)
Settled(k) ==
    LET q == inbox[ShardOf[k]]
    IN  IF q = <<>> THEN refdata[k] # {} ELSE Defines(q[Len(q)], k)

Typed ==
    /\ CoordinatorTypeOK
    /\ open \in [Channel -> SUBSET GroupRec]
    /\ \A c \in Channel : \A g \in open[c] : ChannelOf[g.inst] = c
    /\ inbox \in [Shard -> Seq(Msgs)]
    /\ applied \in [Inst -> SUBSET Nat]
    /\ refdata \in [Inst -> SUBSET {r.seq : r \in Records}]

WaitInv ==
    /\ Waiting => \E rec \in Records :
          current = {rec} /\ (pc = "barrier" => epoch[rec.ch] < MaxBarriers)
    /\ Waiting => todo = ToNone /\ prevDefinition = {}
    /\ pc = "read" => todo = ToNone
    /\ Waiting => \A s \in acks : s \notin unsent /\ inbox[s] = <<>>
    /\ pc = "barrier" => \A s \in acks :
          \A k \in Wiped(s, Mark.ch) : applied[k] = {}

(* Every queued message is of the present era, except the one being        *)
(* awaited, which is the last.                                             *)
QueueInv ==
    /\ \A s \in Shard : \A n \in 1 .. Len(inbox[s]) :
          \/ Ordinary(s, inbox[s][n])
          \/ /\ Waiting /\ s \notin unsent \cup acks
             /\ n = Len(inbox[s]) /\ inbox[s][n] = Mark
    /\ SendsIn(todo, epoch)

EraInv == \A k \in Inst : applied[k] \subseteq {epoch[ChannelOf[k]]}

StrikeInv ==
    /\ \A s \in Shard : \A n \in 1 .. Len(inbox[s]) :
          IsStrike(inbox[s][n]) =>
             IF n = 1 THEN refdata[inbox[s][n].inst] # {}
                      ELSE Defines(inbox[s][n - 1], inbox[s][n].inst)
    /\ \A s \in Shard :
          (todo[s] # <<>> /\ IsStrike(todo[s][1])) => Settled(todo[s][1].inst)
    /\ \A def \in prevDefinition :
          /\ def.inst \in Inst
          /\ LET s == ShardOf[def.inst]
             IN  IF todo[s] = <<>> THEN Settled(def.inst)
                                   ELSE Defines(todo[s][1], def.inst)

CoordInv ==
    /\ Typed
    /\ WaitInv
    /\ QueueInv
    /\ EraInv
    /\ StrikeInv

-----------------------------------------------------------------------------
(* What a Dispatch queues.                                                 *)

Eras == [Channel -> Nat]

LEMMA ToNoneOK ==
    ASSUME NEW ep
    PROVE  SendsIn(ToNone, ep) /\ \A s \in Shard : ToNone[s] = <<>>
  BY EmptySeq DEF SendsIn, ToNone

LEMMA ToOneOK ==
    ASSUME NEW rec \in Records, NEW k \in Inst, ChannelOf[k] = rec.ch, epoch' \in Eras
    PROVE  /\ SendsIn(ToOne(k, rec), epoch')
           /\ ToOne(k, rec)[ShardOf[k]] = <<RecordMsg(rec, k)>>
           /\ \A s \in Shard : ToOne(k, rec)[s] # <<>> =>
                 s = ShardOf[k] /\ ToOne(k, rec)[s][1] = RecordMsg(rec, k)
  <1> DEFINE m == RecordMsg(rec, k)
  <1>1. rec.ch \in Channel /\ ShardOf[k] \in Shard
    BY RecordAssumption, CoordinatorAssumption
  <1>2. m \in RecordMsgs /\ m.inst = k /\ m.ch = rec.ch /\ m.epoch = epoch'[m.ch]
    BY <1>1 DEF RecordMsg, RecordMsgs, Eras
  <1>3. m \in Msgs /\ OrdinaryIn(ShardOf[k], m, epoch')
    BY <1>2 DEF Msgs, OrdinaryIn
  <1> HIDE DEF m
  <1>4. \A s \in Shard : ToOne(k, rec)[s] = IF s = ShardOf[k] THEN <<m>> ELSE <<>>
    BY DEF ToOne, m
  <1>5. <<m>> \in Seq(Msgs) /\ <<>> \in Seq(Msgs) /\ Len(<<m>>) = 1 /\ <<m>>[1] = m
    BY <1>3, EmptySeq
  <1>6. ToOne(k, rec) \in [Shard -> Seq(Msgs)]
    BY <1>5 DEF ToOne, m
  <1>7. SendsIn(ToOne(k, rec), epoch')
    BY <1>3, <1>4, <1>5, <1>6 DEF SendsIn
  <1> QED BY <1>1, <1>4, <1>5, <1>7 DEF m

LEMMA ToAllOK ==
    ASSUME NEW ep, NEW m \in Msgs, \A s \in Shard : OrdinaryIn(s, m, ep)
    PROVE  SendsIn(ToAll(m), ep) /\ \A s \in Shard : ToAll(m)[s] = <<m>>
  <1>1. <<m>> \in Seq(Msgs) /\ Len(<<m>>) = 1 /\ <<m>>[1] = m
    OBVIOUS
  <1> QED BY <1>1 DEF ToAll, SendsIn

(* Coordinator.Dispatch's switch: what it queues belongs to the era the    *)
(* step leaves, a definition is queued to its instrument's shard, and a    *)
(* strike only if the record before it was its instrument's definition.    *)
LEMMA ClassifyOK ==
    ASSUME NEW rec \in Records,
           NEW groups \in [Channel -> SUBSET GroupRec],
           \A c \in Channel : \A g \in groups[c] : ChannelOf[g.inst] = c,
           NEW seq \in Nat, NEW defs, epoch' \in Eras,
           Classify(rec, groups, seq, defs)
    PROVE  /\ open' \in [Channel -> SUBSET GroupRec]
           /\ \A c \in Channel : \A g \in open'[c] : ChannelOf[g.inst] = c
           /\ manifest' \in Nat
           /\ prevDefinition' = DefinitionNow(rec)
           /\ SendsIn(todo', epoch')
           /\ rec.type = "instrument_definition" =>
                 /\ rec.inst \in Inst
                 /\ todo'[ShardOf[rec.inst]] # <<>>
                 /\ Defines(todo'[ShardOf[rec.inst]][1], rec.inst)
           /\ \A s \in Shard : (todo'[s] # <<>> /\ IsStrike(todo'[s][1])) =>
                 \E def \in defs : def.inst = todo'[s][1].inst
           /\ pc' \in {"read", "send", "fence"}
           /\ pc' = "read" => todo' = ToNone
           /\ pc' = "fence" => /\ current' = {rec} /\ todo' = ToNone
                               /\ prevDefinition' = {}
                               /\ unsent' = Shard /\ acks' = {}
           /\ pc' # "fence" => current' = {} /\ UNCHANGED <<unsent, acks>>
  <1>1. rec.ch \in Channel
    BY RecordAssumption
  <1>2. /\ open' \in [Channel -> SUBSET GroupRec]
        /\ \A c \in Channel : \A g \in open'[c] : ChannelOf[g.inst] = c
    <2>1. CASE rec.type = "snapshot_begin"
      <3> DEFINE g == [inst |-> rec.inst, id |-> rec.id]
      <3>1. g \in GroupRec /\ ChannelOf[g.inst] = rec.ch
        BY <2>1, RecordAssumption DEF GroupRec, InstrumentScoped
      <3>2. open' = [groups EXCEPT ![rec.ch] = {g}]
        BY <2>1 DEF Classify
      <3> HIDE DEF g
      <3> QED BY <1>1, <3>1, <3>2
    <2>2. CASE rec.type = "snapshot_end"
      BY <2>2, <1>1 DEF Classify
    <2>3. CASE rec.type \notin {"snapshot_begin", "snapshot_end"}
      BY <2>3 DEF Classify
    <2> QED BY <2>1, <2>2, <2>3
  <1>3. manifest' \in Nat /\ prevDefinition' = DefinitionNow(rec)
    BY RecordAssumption DEF Classify
  <1> DEFINE Sent ==
          /\ SendsIn(todo', epoch')
          /\ rec.type = "instrument_definition" =>
                /\ rec.inst \in Inst
                /\ todo'[ShardOf[rec.inst]] # <<>>
                /\ Defines(todo'[ShardOf[rec.inst]][1], rec.inst)
          /\ \A s \in Shard : (todo'[s] # <<>> /\ IsStrike(todo'[s][1])) =>
                \E def \in defs : def.inst = todo'[s][1].inst
             Goes ==
          /\ pc' \in {"read", "send", "fence"}
          /\ pc' = "read" => todo' = ToNone
          /\ pc' = "fence" => /\ current' = {rec} /\ todo' = ToNone
                              /\ prevDefinition' = {}
                              /\ unsent' = Shard /\ acks' = {}
          /\ pc' # "fence" => current' = {} /\ UNCHANGED <<unsent, acks>>
  <1>4. ASSUME NEW sends, Send(sends)
        PROVE  todo' = sends /\ Goes
    BY <1>4 DEF Send
  <1>5. ASSUME NEW k \in Inst, ChannelOf[k] = rec.ch, Send(ToOne(k, rec)),
               rec.type = "instrument_definition" => k = rec.inst,
               rec.type = "strike_interval" => \E def \in defs : def.inst = k
        PROVE  Sent /\ Goes
    <2>1. todo' = ToOne(k, rec) /\ Goes
      BY <1>4, <1>5
    <2>2. /\ SendsIn(todo', epoch')
          /\ todo'[ShardOf[k]] = <<RecordMsg(rec, k)>>
          /\ \A s \in Shard : todo'[s] # <<>> => todo'[s][1] = RecordMsg(rec, k)
      BY <1>5, <2>1, ToOneOK
    <2>3. /\ RecordMsg(rec, k).kind = "record" /\ RecordMsg(rec, k).rec = rec
          /\ RecordMsg(rec, k).inst = k
      BY DEF RecordMsg
    <2>4. <<RecordMsg(rec, k)>> # <<>> /\ <<RecordMsg(rec, k)>>[1] = RecordMsg(rec, k)
      OBVIOUS
    <2> QED BY <1>5, <2>1, <2>2, <2>3, <2>4 DEF Defines, IsStrike
  <1>6. ASSUME Send(ToNone), rec.type # "instrument_definition"
        PROVE  Sent /\ Goes
    BY <1>4, <1>6, ToNoneOK
  <1>7. ASSUME NEW m \in Msgs, m.kind # "record", Send(ToAll(m)),
               \A s \in Shard : OrdinaryIn(s, m, epoch'), rec.type # "instrument_definition"
        PROVE  Sent /\ Goes
    <2>1. todo' = ToAll(m) /\ Goes
      BY <1>4, <1>7
    <2>2. <<m>>[1] = m
      OBVIOUS
    <2> QED BY <1>7, <2>1, <2>2, ToAllOK DEF IsStrike
  <1>8. CASE rec.type \in InstrumentScoped /\ Send(ToOne(rec.inst, rec))
    <2>1. Sent /\ Goes
      BY <1>5, <1>8, RecordAssumption DEF InstrumentScoped
    <2> QED BY <2>1, <1>2, <1>3
  <1>9. CASE /\ rec.type = "strike_interval"
             /\ Send(IF \E def \in defs : Pairs(def, rec)
                     THEN ToOne(rec.inst, rec) ELSE ToNone)
    <2>1. CASE \E def \in defs : Pairs(def, rec)
      <3>1. Sent /\ Goes
        BY <1>5, <1>9, <2>1, RecordAssumption DEF Pairs
      <3> QED BY <3>1, <1>2, <1>3
    <2>2. CASE ~\E def \in defs : Pairs(def, rec)
      <3>1. Sent /\ Goes
        BY <1>6, <1>9, <2>2
      <3> QED BY <3>1, <1>2, <1>3
    <2> QED BY <2>1, <2>2
  <1>10. CASE rec.type = "snapshot_level" /\ Send(RouteLevel(rec, groups[rec.ch]))
    <2>1. CASE \A g \in groups[rec.ch] : g.id # rec.id
      <3>1. Sent /\ Goes
        BY <1>6, <1>10, <2>1 DEF RouteLevel
      <3> QED BY <3>1, <1>2, <1>3
    <2>2. CASE ~\A g \in groups[rec.ch] : g.id # rec.id
      <3> DEFINE g == CHOOSE x \in groups[rec.ch] : x.id = rec.id
      <3>1. g \in groups[rec.ch]
        BY <2>2
      <3>2. RouteLevel(rec, groups[rec.ch]) = ToOne(g.inst, rec)
        BY <2>2 DEF RouteLevel
      <3> HIDE DEF g
      <3>3. g.inst \in Inst /\ ChannelOf[g.inst] = rec.ch
        BY <1>1, <3>1 DEF GroupRec
      <3>4. Sent /\ Goes
        BY <1>5, <1>10, <3>2, <3>3
      <3> QED BY <3>4, <1>2, <1>3
    <2> QED BY <2>1, <2>2
  <1>11. CASE rec.type = "batch_boundary" /\ Send(ToAll([kind |-> "boundary"]))
    <2> DEFINE m == [kind |-> "boundary"]
    <2>1. m \in PlainMsgs /\ m.kind # "record"
      BY DEF PlainMsgs
    <2> HIDE DEF m
    <2>2. Sent /\ Goes
      BY <1>7, <1>11, <2>1 DEF m, Msgs, OrdinaryIn
    <2> QED BY <2>2, <1>2, <1>3
  <1>12. CASE rec.type = "heartbeat" /\ Send(ToNone)
    <2>1. Sent /\ Goes
      BY <1>6, <1>12
    <2> QED BY <2>1, <1>2, <1>3
  <1>13. CASE rec.type = "manifest_summary" /\ Send(RouteManifest(rec, seq))
    <2>1. CASE rec.valid /\ rec.seq > seq
      <3> DEFINE m == PruneMsg(rec)
      <3>1. m \in PruneMsgs /\ m.kind # "record" /\ m.epoch = epoch'[m.ch]
        BY <1>1, <1>13, RecordAssumption DEF PruneMsg, PruneMsgs, Eras
      <3>2. RouteManifest(rec, seq) = ToAll(m)
        BY <2>1 DEF RouteManifest
      <3> HIDE DEF m
      <3>3. m \in Msgs /\ \A s \in Shard : OrdinaryIn(s, m, epoch')
        BY <3>1 DEF Msgs, OrdinaryIn
      <3>4. Sent /\ Goes
        BY <1>7, <1>13, <3>1, <3>2, <3>3
      <3> QED BY <3>4, <1>2, <1>3
    <2>2. CASE ~(rec.valid /\ rec.seq > seq)
      <3>1. Sent /\ Goes
        BY <1>6, <1>13, <2>2 DEF RouteManifest
      <3> QED BY <3>1, <1>2, <1>3
    <2> QED BY <2>1, <2>2
  <1>14. CASE /\ rec.type = "end_of_session"
              /\ pc' = "fence" /\ current' = {rec} /\ todo' = ToNone
              /\ unsent' = Drained(rec) /\ acks' = {}
    <2>1. Sent /\ Goes
      BY <1>3, <1>14, ToNoneOK DEF Drained, DefinitionNow
    <2> QED BY <2>1, <1>2, <1>3
  <1> QED BY <1>8, <1>9, <1>10, <1>11, <1>12, <1>13, <1>14 DEF Classify

-----------------------------------------------------------------------------
(* The initial state, and facts the steps share.                           *)

LEMMA CoordInitInv == Init => CoordInv
  <1> SUFFICES ASSUME Init PROVE CoordInv
    OBVIOUS
  <1>1. \A s \in Shard : inbox[s] = <<>> /\ Len(inbox[s]) = 0
    BY DEF Init
  <1>2. SendsIn(todo, epoch) /\ \A s \in Shard : todo[s] = <<>>
    BY ToNoneOK DEF Init
  <1>3. CoordinatorTypeOK
    BY <1>1, CoordinatorAssumption DEF Init, CoordinatorTypeOK
  <1>4. Typed
    BY <1>3, EmptySeq DEF Init, Typed
  <1>5. WaitInv
    BY DEF Init, WaitInv, Waiting
  <1>6. QueueInv
    BY <1>1, <1>2 DEF QueueInv
  <1>7. EraInv
    BY DEF Init, EraInv
  <1>8. StrikeInv
    BY <1>1, <1>2 DEF Init, StrikeInv
  <1> QED BY <1>4, <1>5, <1>6, <1>7, <1>8 DEF CoordInv

LEMMA Basics ==
    ASSUME CoordInv
    PROVE  /\ epoch \in Eras
           /\ \A k \in Inst : ShardOf[k] \in Shard /\ ChannelOf[k] \in Channel
           /\ \A s \in Shard : /\ inbox[s] \in Seq(Msgs) /\ Len(inbox[s]) \in Nat
                               /\ DOMAIN inbox[s] = 1 .. Len(inbox[s])
                               /\ inbox[s] = <<>> <=> Len(inbox[s]) = 0
                               /\ \A n \in 1 .. Len(inbox[s]) : inbox[s][n] \in Msgs
           /\ InboxCap \in Nat \ {0} /\ MaxBarriers \in Nat /\ MaxRecords \in Nat
  <1>1. epoch \in Eras
    BY CoordinatorAssumption DEF CoordInv, Typed, CoordinatorTypeOK, Eras
  <1>2. \A s \in Shard : inbox[s] \in Seq(Msgs)
    BY DEF CoordInv, Typed
  <1>3. \A s \in Shard : /\ Len(inbox[s]) \in Nat
                         /\ DOMAIN inbox[s] = 1 .. Len(inbox[s])
                         /\ inbox[s] = <<>> <=> Len(inbox[s]) = 0
                         /\ \A n \in 1 .. Len(inbox[s]) : inbox[s][n] \in Msgs
    BY <1>2, LenProperties, ElementOfSeq, EmptySeq
  <1> QED BY <1>1, <1>2, <1>3, CoordinatorAssumption

(* Nothing is awaited while the read loop reads or sends.                  *)
LEMMA AllOrdinary ==
    ASSUME CoordInv, ~Waiting, NEW s \in Shard, NEW n \in 1 .. Len(inbox[s])
    PROVE  Ordinary(s, inbox[s][n])
  BY DEF CoordInv, QueueInv

(* What was awaited has been answered by every shard: nothing is queued.   *)
LEMMA AllEmpty ==
    ASSUME CoordInv, Waiting, AllAcked, NEW s \in Shard
    PROVE  inbox[s] = <<>> /\ Len(inbox[s]) = 0
  BY DEF CoordInv, WaitInv, AllAcked

-----------------------------------------------------------------------------
(* The read loop.                                                          *)

LEMMA DispatchInv ==
    ASSUME CoordInv, NEW rec \in Records, Dispatch(rec)
    PROVE  CoordInv'
  <1>1. /\ pc = "read" /\ nread < MaxRecords /\ nread' = nread + 1
        /\ UNCHANGED <<inbox, epoch, applied, shadow, refdata>>
    BY DEF Dispatch, shardVars
  <1>2. todo = ToNone /\ ~Waiting
    BY <1>1 DEF CoordInv, WaitInv, Waiting
  <1>3. rec.ch \in Channel /\ nread' \in 0 .. MaxRecords
    BY <1>1, RecordAssumption, Basics DEF CoordInv, Typed, CoordinatorTypeOK
  <1>4. \A k \in Inst : Settled(k)' = Settled(k)
    BY <1>1 DEF Settled
  <1>5. \A s \in Shard : \A n \in 1 .. Len(inbox'[s]) : OrdinaryIn(s, inbox'[s][n], epoch')
    BY <1>1, <1>2, AllOrdinary DEF Ordinary
  <1>6. EraInv'
    BY <1>1 DEF CoordInv, EraInv
  <1>7. epoch' \in Eras
    BY <1>1, Basics
  <1>8. CASE /\ SameEra(rec)
             /\ resetCount' = [resetCount EXCEPT ![rec.ch] = {rec.rc}]
             /\ Classify(rec, open, manifest, prevDefinition)
    <2>1. /\ open' \in [Channel -> SUBSET GroupRec]
          /\ \A c \in Channel : \A g \in open'[c] : ChannelOf[g.inst] = c
          /\ manifest' \in Nat
          /\ prevDefinition' = DefinitionNow(rec)
          /\ SendsIn(todo', epoch')
          /\ rec.type = "instrument_definition" =>
                /\ rec.inst \in Inst
                /\ todo'[ShardOf[rec.inst]] # <<>>
                /\ Defines(todo'[ShardOf[rec.inst]][1], rec.inst)
          /\ \A s \in Shard : (todo'[s] # <<>> /\ IsStrike(todo'[s][1])) =>
                \E def \in prevDefinition : def.inst = todo'[s][1].inst
          /\ pc' \in {"read", "send", "fence"}
          /\ pc' = "read" => todo' = ToNone
          /\ pc' = "fence" => /\ current' = {rec} /\ todo' = ToNone
                              /\ prevDefinition' = {}
                              /\ unsent' = Shard /\ acks' = {}
          /\ pc' # "fence" => current' = {} /\ UNCHANGED <<unsent, acks>>
      BY <1>7, <1>8, ClassifyOK DEF CoordInv, Typed, CoordinatorTypeOK
    <2>2. resetCount' \in [Channel -> SUBSET {r.rc : r \in Records}]
      BY <1>3, <1>8 DEF CoordInv, Typed, CoordinatorTypeOK
    <2>3. Typed'
      <3>1. CoordinatorTypeOK'
        BY <1>1, <1>3, <2>1, <2>2 DEF CoordInv, Typed, CoordinatorTypeOK
      <3> QED BY <1>1, <2>1, <3>1
              DEF CoordInv, Typed, GroupRec, Msgs, RecordMsgs, PruneMsgs, PlainMsgs, MarkMsgs
    <2>4. WaitInv'
      BY <2>1 DEF WaitInv, Waiting
    <2>5. QueueInv'
      BY <1>5, <2>1 DEF QueueInv, Ordinary
    <2>6. StrikeInv'
      <3>1. \A def \in prevDefinition : Settled(def.inst) /\ def.inst \in Inst
        BY <1>2, ToNoneOK, Basics DEF CoordInv, StrikeInv
      <3>2. \A s \in Shard :
               (todo'[s] # <<>> /\ IsStrike(todo'[s][1])) => Settled(todo[s][1].inst)'
        BY <1>4, <2>1, <3>1
      <3>3. \A def \in prevDefinition' :
               /\ def.inst \in Inst
               /\ todo'[ShardOf[def.inst]] # <<>>
               /\ Defines(todo'[ShardOf[def.inst]][1], def.inst)
        BY <2>1 DEF DefinitionNow
      <3> QED BY <1>1, <3>2, <3>3 DEF CoordInv, StrikeInv, Settled
    <2> QED BY <1>6, <2>3, <2>4, <2>5, <2>6 DEF CoordInv
  <1>9. CASE /\ ~SameEra(rec) /\ epoch[rec.ch] < MaxBarriers
             /\ pc' = "barrier" /\ current' = {rec}
             /\ unsent' = Drained(rec) /\ acks' = {}
             /\ prevDefinition' = {}
             /\ UNCHANGED <<resetCount, manifest, open, todo>>
    <2>1. unsent' = Shard
      BY <1>9 DEF Drained
    <2>2. Typed'
      <3>1. CoordinatorTypeOK'
        BY <1>1, <1>3, <1>9, <2>1 DEF CoordInv, Typed, CoordinatorTypeOK
      <3> QED BY <1>1, <1>9, <3>1
              DEF CoordInv, Typed, GroupRec, Msgs, RecordMsgs, PruneMsgs, PlainMsgs, MarkMsgs
    <2>3. WaitInv'
      BY <1>1, <1>2, <1>9 DEF WaitInv, Waiting
    <2>4. QueueInv'
      BY <1>1, <1>5, <1>9 DEF CoordInv, QueueInv, Ordinary
    <2>5. StrikeInv'
      BY <1>1, <1>2, <1>9, ToNoneOK DEF CoordInv, StrikeInv
    <2> QED BY <1>6, <2>2, <2>3, <2>4, <2>5 DEF CoordInv
  <1> QED BY <1>8, <1>9 DEF Dispatch

LEMMA OnDisconnectInv ==
    ASSUME CoordInv, OnDisconnect
    PROVE  CoordInv'
  <1> DEFINE m == [kind |-> "clear_shadows"]
  <1>1. /\ pc = "read" /\ nread' \in 0 .. MaxRecords
        /\ UNCHANGED <<resetCount, manifest, epoch, inbox, applied, shadow, refdata,
                       unsent, acks>>
        /\ open' = [c \in Channel |-> {}] /\ prevDefinition' = {} /\ current' = {}
        /\ todo' = ToAll(m) /\ pc' \in {"read", "send"}
        /\ pc' = "read" => todo' = ToNone
    BY Basics DEF OnDisconnect, Send, shardVars, CoordInv, Typed, CoordinatorTypeOK
  <1>2. m \in Msgs /\ m.kind # "record" /\ \A s \in Shard : OrdinaryIn(s, m, epoch)
    BY DEF Msgs, PlainMsgs, OrdinaryIn
  <1> HIDE DEF m
  <1>3. SendsIn(todo', epoch') /\ \A s \in Shard : todo'[s] = <<m>> /\ <<m>>[1] = m
    BY <1>1, <1>2, ToAllOK
  <1>4. Typed'
    <2>1. CoordinatorTypeOK'
      BY <1>1 DEF CoordInv, Typed, CoordinatorTypeOK
    <2> QED BY <1>1, <2>1
            DEF CoordInv, Typed, GroupRec, Msgs, RecordMsgs, PruneMsgs, PlainMsgs, MarkMsgs
  <1>5. WaitInv'
    BY <1>1 DEF WaitInv, Waiting
  <1>6. \A s \in Shard : \A n \in 1 .. Len(inbox'[s]) : OrdinaryIn(s, inbox'[s][n], epoch')
    BY <1>1, AllOrdinary DEF Ordinary, Waiting
  <1>7. QueueInv'
    BY <1>3, <1>6 DEF QueueInv, Ordinary
  <1>8. EraInv'
    BY <1>1 DEF CoordInv, EraInv
  <1>9. StrikeInv'
    BY <1>1, <1>2, <1>3 DEF CoordInv, StrikeInv, IsStrike
  <1> QED BY <1>4, <1>5, <1>7, <1>8, <1>9 DEF CoordInv

(* What a shard is owed arrives last in its inbox.                         *)
LEMMA AppendFacts ==
    ASSUME CoordInv, NEW s \in Shard, NEW m \in Msgs
    PROVE  LET q == Append(inbox[s], m)
               L == Len(inbox[s])
           IN  /\ q \in Seq(Msgs) /\ L \in Nat /\ Len(q) = L + 1
               /\ \A n \in 1 .. L : q[n] = inbox[s][n]
               /\ q[L + 1] = m
               /\ q # <<>> /\ inbox[s] \o <<m>> = q
  <1>1. inbox[s] \in Seq(Msgs) /\ Len(inbox[s]) \in Nat
    BY Basics
  <1> QED BY <1>1, AppendProperties, AppendIsConcat

(* A strike's message names an instrument of the shard it is queued for.   *)
LEMMA StrikeHome ==
    ASSUME NEW s \in Shard, NEW m, NEW ep, OrdinaryIn(s, m, ep), m.kind = "record"
    PROVE  m.inst \in Inst /\ ShardOf[m.inst] = s
  BY DEF OrdinaryIn, RecordMsgs, PruneMsgs, PlainMsgs

LEMMA SendNextInv ==
    ASSUME CoordInv, NEW s \in Shard, SendNext(s)
    PROVE  CoordInv'
  <1> DEFINE m == todo[s][1]
             L == Len(inbox[s])
  <1>1. /\ pc = "send" /\ todo[s] # <<>> /\ HasRoom(s)
        /\ inbox' = [inbox EXCEPT ![s] = inbox[s] \o todo[s]]
        /\ todo' = [todo EXCEPT ![s] = <<>>]
        /\ pc' = IF todo' = ToNone THEN "read" ELSE "send"
        /\ UNCHANGED <<current, unsent, acks, resetCount, manifest, open, prevDefinition,
                       epoch, nread, applied, shadow, refdata>>
    BY DEF SendNext, readVars, shardVars
  <1>2. SendsIn(todo, epoch)
    BY DEF CoordInv, QueueInv
  <1>3. todo[s] = <<m>> /\ m \in Msgs /\ OrdinaryIn(s, m, epoch)
    <2>1. todo[s] \in Seq(Msgs) /\ Len(todo[s]) = 1 /\ OrdinaryIn(s, m, epoch)
      BY <1>1, <1>2 DEF SendsIn
    <2> QED BY <2>1, ElementOfSeq
  <1> HIDE DEF m
  <1>4. /\ L \in Nat /\ inbox'[s] \in Seq(Msgs) /\ Len(inbox'[s]) = L + 1
        /\ inbox'[s] # <<>> /\ inbox'[s][L + 1] = m
        /\ \A n \in 1 .. L : inbox'[s][n] = inbox[s][n]
        /\ \A s2 \in Shard : s2 # s => inbox'[s2] = inbox[s2]
        /\ inbox' \in [Shard -> Seq(Msgs)]
    <2>1. inbox \in [Shard -> Seq(Msgs)]
      BY DEF CoordInv, Typed
    <2> QED BY <1>1, <1>3, <2>1, AppendFacts
  <1>5. \A n \in 1 .. (L + 1) : n \in 1 .. L \/ n = L + 1
    BY <1>4
  <1>6. SendsIn(todo', epoch')
    BY <1>1, <1>2, EmptySeq DEF SendsIn
  <1>7. /\ todo'[s] = <<>>
        /\ \A s2 \in Shard : s2 # s => todo'[s2] = todo[s2]
    BY <1>1, <1>2 DEF SendsIn
  <1>8. Typed'
    <2>1. \A s2 \in Shard : Len(inbox'[s2]) <= InboxCap
      BY <1>1, <1>4, Basics DEF HasRoom, CoordInv, Typed, CoordinatorTypeOK
    <2>2. CoordinatorTypeOK'
      BY <1>1, <2>1 DEF CoordInv, Typed, CoordinatorTypeOK
    <2> QED BY <1>1, <1>4, <2>2
            DEF CoordInv, Typed, GroupRec, Msgs, RecordMsgs, PruneMsgs, PlainMsgs, MarkMsgs
  <1>9. WaitInv'
    BY <1>1 DEF WaitInv, Waiting
  <1>10. QueueInv'
    <2>1. \A s2 \in Shard : \A n \in 1 .. Len(inbox[s2]) : Ordinary(s2, inbox[s2][n])
      BY <1>1, AllOrdinary DEF Waiting
    <2>2. \A s2 \in Shard : \A n \in 1 .. Len(inbox'[s2]) :
             OrdinaryIn(s2, inbox'[s2][n], epoch)
      BY <1>3, <1>4, <1>5, <2>1 DEF Ordinary
    <2> QED BY <1>1, <1>6, <2>2 DEF QueueInv, Ordinary
  <1>11. EraInv'
    BY <1>1 DEF CoordInv, EraInv
  <1>12. StrikeInv'
    <2>1. ASSUME NEW s2 \in Shard, NEW n \in 1 .. Len(inbox'[s2]), IsStrike(inbox'[s2][n])
          PROVE  IF n = 1 THEN refdata[inbox'[s2][n].inst] # {}
                          ELSE Defines(inbox'[s2][n - 1], inbox'[s2][n].inst)
      <3>1. CASE s2 # s
        BY <2>1, <3>1, <1>4 DEF CoordInv, StrikeInv
      <3>2. CASE s2 = s /\ n \in 1 .. L
        <4>1. n # 1 => n - 1 \in 1 .. L
          BY <3>2, <1>4
        <4> QED BY <2>1, <3>2, <4>1, <1>4 DEF CoordInv, StrikeInv
      <3>3. CASE s2 = s /\ n = L + 1
        <4>1. IsStrike(m) /\ ShardOf[m.inst] = s /\ Settled(m.inst)
          BY <2>1, <3>3, <1>1, <1>3, <1>4, StrikeHome
             DEF IsStrike, CoordInv, StrikeInv, m
        <4>2. IF L = 0 THEN refdata[m.inst] # {} ELSE Defines(inbox[s][L], m.inst)
          BY <4>1, Basics DEF Settled
        <4>3. L # 0 => L \in 1 .. L /\ n - 1 = L /\ n # 1
          BY <3>3, <1>4
        <4> QED BY <3>3, <4>2, <4>3, <1>4
      <3> QED BY <2>1, <3>1, <3>2, <3>3, <1>4, <1>5
    <2>2. ASSUME NEW k \in Inst, ShardOf[k] # s PROVE Settled(k)' = Settled(k)
      BY <2>2, <1>1, <1>4, Basics DEF Settled
    <2>3. ASSUME NEW s2 \in Shard, todo'[s2] # <<>>, IsStrike(todo'[s2][1])
          PROVE  Settled(todo[s2][1].inst)'
      <3>1. s2 # s /\ todo'[s2] = todo[s2]
        BY <2>3, <1>7
      <3>2. todo[s2][1].inst \in Inst /\ ShardOf[todo[s2][1].inst] = s2
        BY <2>3, <3>1, <1>2, StrikeHome DEF SendsIn, IsStrike
      <3>3. Settled(todo[s2][1].inst)
        BY <2>3, <3>1 DEF CoordInv, StrikeInv
      <3> QED BY <3>1, <3>2, <3>3, <2>2
    <2>4. ASSUME NEW def \in prevDefinition
          PROVE  /\ def.inst \in Inst
                 /\ IF todo'[ShardOf[def.inst]] = <<>> THEN Settled(def.inst)'
                       ELSE Defines(todo'[ShardOf[def.inst]][1], def.inst)
      <3>1. def.inst \in Inst /\ ShardOf[def.inst] \in Shard
        BY Basics DEF CoordInv, StrikeInv
      <3>2. CASE ShardOf[def.inst] = s
        <4>1. Defines(m, def.inst)
          BY <3>2, <1>1 DEF CoordInv, StrikeInv, m
        <4>2. Settled(def.inst)'
          BY <3>2, <4>1, <1>4 DEF Settled
        <4> QED BY <3>1, <3>2, <4>2, <1>7
      <3>3. CASE ShardOf[def.inst] # s
        BY <3>1, <3>3, <1>7, <2>2 DEF CoordInv, StrikeInv
      <3> QED BY <3>2, <3>3
    <2> QED BY <1>1, <2>1, <2>3, <2>4 DEF StrikeInv
  <1> QED BY <1>8, <1>9, <1>10, <1>11, <1>12 DEF CoordInv

-----------------------------------------------------------------------------
(* The barrier and the fence.                                              *)

LEMMA MarkFacts ==
    ASSUME CoordInv, Waiting
    PROVE  /\ Mark \in MarkMsgs /\ Mark \in Msgs /\ Mark.kind \in {"reset", "fence"}
           /\ \E rec \in Records :
                 /\ current = {rec} /\ Mark.ch = rec.ch /\ rec.ch \in Channel
                 /\ pc = "barrier" => epoch[rec.ch] < MaxBarriers
  <1>1. PICK rec \in Records : current = {rec} /\ (pc = "barrier" => epoch[rec.ch] < MaxBarriers)
    BY DEF CoordInv, WaitInv
  <1>2. (CHOOSE r \in current : TRUE) = rec /\ rec.ch \in Channel
    BY <1>1, RecordAssumption
  <1> QED BY <1>1, <1>2 DEF Mark, MarkMsgs, Msgs

LEMMA BarrierSendInv ==
    ASSUME CoordInv, NEW s \in Shard, BarrierSend(s)
    PROVE  CoordInv'
  <1> DEFINE L == Len(inbox[s])
  <1>1. /\ Waiting /\ s \in unsent /\ HasRoom(s)
        /\ inbox' = [inbox EXCEPT ![s] = Append(inbox[s], Mark)]
        /\ unsent' = unsent \ {s}
        /\ UNCHANGED <<pc, current, todo, acks, resetCount, manifest, open, prevDefinition,
                       epoch, nread, applied, shadow, refdata>>
    BY DEF BarrierSend, Waiting, Mark, readVars, shardVars
  <1>2. /\ Mark' = Mark /\ Mark \in Msgs /\ Mark.kind \in {"reset", "fence"}
        /\ Waiting' = Waiting
    BY <1>1, MarkFacts DEF Mark, Waiting
  <1> HIDE DEF Mark
  <1>3. /\ L \in Nat /\ inbox'[s] \in Seq(Msgs) /\ Len(inbox'[s]) = L + 1
        /\ inbox'[s] # <<>> /\ inbox'[s][L + 1] = Mark
        /\ \A n \in 1 .. L : inbox'[s][n] = inbox[s][n]
        /\ \A s2 \in Shard : s2 # s => inbox'[s2] = inbox[s2]
        /\ inbox' \in [Shard -> Seq(Msgs)]
    <2>1. inbox \in [Shard -> Seq(Msgs)]
      BY DEF CoordInv, Typed
    <2> QED BY <1>1, <1>2, <2>1, AppendFacts
  <1>4. \A n \in 1 .. (L + 1) : n \in 1 .. L \/ n = L + 1
    BY <1>3
  <1>5. todo = ToNone /\ prevDefinition = {} /\ s \notin acks
    BY <1>1 DEF CoordInv, WaitInv
  <1>6. Typed'
    <2>1. \A s2 \in Shard : Len(inbox'[s2]) <= InboxCap
      BY <1>1, <1>3, Basics DEF HasRoom, CoordInv, Typed, CoordinatorTypeOK
    <2>2. CoordinatorTypeOK'
      BY <1>1, <2>1 DEF CoordInv, Typed, CoordinatorTypeOK
    <2> QED BY <1>1, <1>3, <2>2
            DEF CoordInv, Typed, GroupRec, Msgs, RecordMsgs, PruneMsgs, PlainMsgs, MarkMsgs
  <1>7. WaitInv'
    <2>1. \A s2 \in acks : s2 \notin unsent' /\ inbox'[s2] = <<>>
      BY <1>1, <1>3, <1>5 DEF CoordInv, WaitInv, Typed, CoordinatorTypeOK
    <2> QED BY <1>1, <1>2, <2>1 DEF CoordInv, WaitInv, Waiting, Wiped, Owned
  <1>8. QueueInv'
    <2>1. ASSUME NEW s2 \in Shard, NEW n \in 1 .. Len(inbox'[s2])
          PROVE  \/ OrdinaryIn(s2, inbox'[s2][n], epoch)
                 \/ /\ s2 \notin unsent' \cup acks
                    /\ n = Len(inbox'[s2]) /\ inbox'[s2][n] = Mark
      <3>1. CASE s2 # s
        BY <3>1, <1>1, <1>3 DEF CoordInv, QueueInv, Ordinary
      <3>2. CASE s2 = s /\ n \in 1 .. L
        BY <3>2, <1>1, <1>3 DEF CoordInv, QueueInv, Ordinary
      <3>3. CASE s2 = s /\ n = L + 1
        BY <3>3, <1>1, <1>3, <1>5
      <3> QED BY <3>1, <3>2, <3>3, <1>3, <1>4
    <2> QED BY <1>1, <1>2, <2>1 DEF QueueInv, CoordInv, Ordinary
  <1>9. EraInv'
    BY <1>1 DEF CoordInv, EraInv
  <1>10. StrikeInv'
    <2>1. ~IsStrike(Mark)
      BY <1>2 DEF IsStrike
    <2>2. ASSUME NEW s2 \in Shard, NEW n \in 1 .. Len(inbox'[s2]), IsStrike(inbox'[s2][n])
          PROVE  IF n = 1 THEN refdata[inbox'[s2][n].inst] # {}
                          ELSE Defines(inbox'[s2][n - 1], inbox'[s2][n].inst)
      <3>1. CASE s2 # s
        BY <2>2, <3>1, <1>3 DEF CoordInv, StrikeInv
      <3>2. CASE s2 = s
        <4>1. n \in 1 .. L
          BY <2>1, <2>2, <3>2, <1>3, <1>4
        <4>2. n # 1 => n - 1 \in 1 .. L
          BY <4>1, <1>3
        <4> QED BY <2>2, <3>2, <4>1, <4>2, <1>3 DEF CoordInv, StrikeInv
      <3> QED BY <3>1, <3>2
    <2>3. \A s2 \in Shard : todo'[s2] = <<>>
      BY <1>1, <1>5, ToNoneOK
    <2> QED BY <1>1, <1>5, <2>2, <2>3 DEF StrikeInv
  <1> QED BY <1>6, <1>7, <1>8, <1>9, <1>10 DEF CoordInv

(* The tail of the barrier runs when every inbox is empty and every shard  *)
(* has wiped the channel, so the new era starts with nothing of the old.   *)
LEMMA FinishBarrierInv ==
    ASSUME CoordInv, FinishBarrier
    PROVE  CoordInv'
  <1>1. Waiting /\ pc = "barrier" /\ AllAcked
    BY DEF FinishBarrier, Waiting
  <1>2. PICK rec \in Records :
           /\ current = {rec} /\ Mark.ch = rec.ch /\ rec.ch \in Channel
           /\ epoch[rec.ch] < MaxBarriers
    BY <1>1, MarkFacts
  <1> DEFINE groups == [open EXCEPT ![rec.ch] = {}]
  <1>3. /\ resetCount' = [resetCount EXCEPT ![rec.ch] = {rec.rc}]
        /\ epoch' = [epoch EXCEPT ![rec.ch] = @ + 1]
        /\ Classify(rec, groups, 0, {})
        /\ UNCHANGED <<inbox, nread, applied, shadow, refdata>>
    BY <1>2 DEF FinishBarrier, shardVars
  <1>4. /\ epoch' \in [Channel -> 0 .. MaxBarriers] /\ epoch' \in Eras
        /\ \A c \in Channel : c # rec.ch => epoch'[c] = epoch[c]
        /\ resetCount' \in [Channel -> SUBSET {r.rc : r \in Records}]
    BY <1>2, <1>3, Basics DEF CoordInv, Typed, CoordinatorTypeOK, Eras
  <1>5. /\ groups \in [Channel -> SUBSET GroupRec]
        /\ \A c \in Channel : \A g \in groups[c] : ChannelOf[g.inst] = c
    BY DEF CoordInv, Typed
  <1> HIDE DEF groups
  <1>6. /\ open' \in [Channel -> SUBSET GroupRec]
        /\ \A c \in Channel : \A g \in open'[c] : ChannelOf[g.inst] = c
        /\ manifest' \in Nat
        /\ prevDefinition' = DefinitionNow(rec)
        /\ SendsIn(todo', epoch')
        /\ rec.type = "instrument_definition" =>
              /\ rec.inst \in Inst
              /\ todo'[ShardOf[rec.inst]] # <<>>
              /\ Defines(todo'[ShardOf[rec.inst]][1], rec.inst)
        /\ \A s \in Shard : ~(todo'[s] # <<>> /\ IsStrike(todo'[s][1]))
        /\ pc' \in {"read", "send", "fence"}
        /\ pc' = "read" => todo' = ToNone
        /\ pc' = "fence" => /\ current' = {rec} /\ todo' = ToNone
                            /\ prevDefinition' = {}
                            /\ unsent' = Shard /\ acks' = {}
        /\ pc' # "fence" => current' = {} /\ UNCHANGED <<unsent, acks>>
    <2> DEFINE defs == {}
               seq == 0
    <2>1. Classify(rec, groups, seq, defs) /\ seq \in Nat
      BY <1>3
    <2>2. \A def : def \notin defs
      OBVIOUS
    <2> HIDE DEF defs, seq
    <2> QED BY <2>1, <2>2, <1>4, <1>5, ClassifyOK
  <1>7. \A s \in Shard : inbox'[s] = <<>> /\ Len(inbox'[s]) = 0
    BY <1>1, <1>3, AllEmpty
  <1>8. Typed'
    <2>1. CoordinatorTypeOK'
      BY <1>3, <1>4, <1>6 DEF CoordInv, Typed, CoordinatorTypeOK
    <2> QED BY <1>3, <1>6, <2>1
            DEF CoordInv, Typed, GroupRec, Msgs, RecordMsgs, PruneMsgs, PlainMsgs, MarkMsgs
  <1>9. WaitInv'
    BY <1>6 DEF WaitInv, Waiting
  <1>10. QueueInv'
    BY <1>6, <1>7 DEF QueueInv
  <1>11. EraInv'
    <2> SUFFICES ASSUME NEW k \in Inst PROVE applied[k] \subseteq {epoch'[ChannelOf[k]]}
      BY <1>3 DEF EraInv
    <2>1. ShardOf[k] \in acks /\ ChannelOf[k] \in Channel
      BY <1>1, Basics DEF AllAcked
    <2>2. CASE ChannelOf[k] = rec.ch
      <3>1. k \in Wiped(ShardOf[k], Mark.ch)
        BY <1>2, <2>2 DEF Wiped, Owned
      <3> QED BY <1>1, <2>1, <3>1 DEF CoordInv, WaitInv
    <2>3. CASE ChannelOf[k] # rec.ch
      BY <1>4, <2>1, <2>3 DEF CoordInv, EraInv
    <2> QED BY <2>2, <2>3
  <1>12. StrikeInv'
    <2>1. \A def \in prevDefinition' :
             /\ def.inst \in Inst
             /\ todo'[ShardOf[def.inst]] # <<>>
             /\ Defines(todo'[ShardOf[def.inst]][1], def.inst)
      BY <1>6 DEF DefinitionNow
    <2> QED BY <1>6, <1>7, <2>1 DEF StrikeInv
  <1> QED BY <1>8, <1>9, <1>10, <1>11, <1>12 DEF CoordInv

LEMMA FinishFenceInv ==
    ASSUME CoordInv, FinishFence
    PROVE  CoordInv'
  <1>1. /\ Waiting /\ AllAcked /\ pc' = "read" /\ current' = {}
        /\ UNCHANGED <<todo, unsent, acks, resetCount, manifest, open, prevDefinition,
                       epoch, nread, inbox, applied, shadow, refdata>>
    BY DEF FinishFence, Waiting, readVars, shardVars
  <1>2. \A s \in Shard : inbox'[s] = <<>> /\ Len(inbox'[s]) = 0
    BY <1>1, AllEmpty
  <1>3. todo' = ToNone /\ prevDefinition' = {} /\ \A s \in Shard : todo'[s] = <<>>
    BY <1>1, ToNoneOK DEF CoordInv, WaitInv
  <1>4. Typed'
    <2>1. CoordinatorTypeOK'
      BY <1>1 DEF CoordInv, Typed, CoordinatorTypeOK
    <2> QED BY <1>1, <2>1
            DEF CoordInv, Typed, GroupRec, Msgs, RecordMsgs, PruneMsgs, PlainMsgs, MarkMsgs
  <1>5. WaitInv'
    BY <1>1, <1>3 DEF WaitInv, Waiting
  <1>6. QueueInv'
    BY <1>2, <1>3, ToNoneOK DEF QueueInv
  <1>7. EraInv'
    BY <1>1 DEF CoordInv, EraInv
  <1>8. StrikeInv'
    BY <1>2, <1>3 DEF StrikeInv
  <1> QED BY <1>4, <1>5, <1>6, <1>7, <1>8 DEF CoordInv

-----------------------------------------------------------------------------
(* The shards.                                                             *)

(* Shard.Run takes the first message.                                      *)
LEMMA TakenFacts ==
    ASSUME CoordInv, NEW s \in Shard, inbox[s] # <<>>,
           inbox' = [inbox EXCEPT ![s] = Tail(@)]
    PROVE  LET m == Head(inbox[s])
               L == Len(inbox[s])
           IN  /\ L \in Nat /\ L >= 1 /\ 1 \in 1 .. L
               /\ m = inbox[s][1] /\ m \in Msgs
               /\ inbox' \in [Shard -> Seq(Msgs)]
               /\ Len(inbox'[s]) = L - 1 /\ (inbox'[s] = <<>> <=> L = 1)
               /\ \A n \in 1 .. (L - 1) : inbox'[s][n] = inbox[s][n + 1]
               /\ \A s2 \in Shard : s2 # s => inbox'[s2] = inbox[s2]
  <1>1. inbox \in [Shard -> Seq(Msgs)]
    BY DEF CoordInv, Typed
  <1>2. /\ Len(inbox[s]) \in Nat /\ Len(inbox[s]) >= 1 /\ 1 \in 1 .. Len(inbox[s])
        /\ inbox[s][1] \in Msgs
    BY Basics
  <1>3. /\ Tail(inbox[s]) \in Seq(Msgs) /\ Head(inbox[s]) = inbox[s][1]
        /\ Len(Tail(inbox[s])) = Len(inbox[s]) - 1
        /\ \A n \in 1 .. (Len(inbox[s]) - 1) : Tail(inbox[s])[n] = inbox[s][n + 1]
    BY <1>1, HeadTailProperties
  <1>4. Tail(inbox[s]) = <<>> <=> Len(inbox[s]) = 1
    <2>1. Tail(inbox[s]) = <<>> => Len(Tail(inbox[s])) = 0
      BY EmptySeq
    <2>2. Tail(inbox[s]) # <<>> => Len(Tail(inbox[s])) # 0
      BY <1>3, EmptySeq
    <2> QED BY <1>2, <1>3, <2>1, <2>2
  <1> QED BY <1>1, <1>2, <1>3, <1>4

(* A message to handle is of the present era, unless it is the one of the  *)
(* barrier or fence under way, and then it is the only one.                *)
LEMMA TakenMark ==
    ASSUME CoordInv, NEW s \in Shard, inbox[s] # <<>>
    PROVE  LET m == Head(inbox[s])
           IN  \/ Ordinary(s, m) /\ m.kind \notin {"reset", "fence"}
               \/ /\ m = Mark /\ Waiting /\ Len(inbox[s]) = 1
                  /\ m.kind \in {"reset", "fence"}
                  /\ m.kind = "reset" <=> pc = "barrier"
                  /\ s \notin unsent \cup acks
  <1>1. 1 \in 1 .. Len(inbox[s]) /\ Head(inbox[s]) = inbox[s][1]
    BY Basics, HeadTailProperties
  <1>2. CASE Ordinary(s, inbox[s][1])
    BY <1>1, <1>2 DEF Ordinary, OrdinaryIn, RecordMsgs, PruneMsgs, PlainMsgs
  <1>3. CASE ~Ordinary(s, inbox[s][1])
    <2>1. Waiting /\ s \notin unsent \cup acks /\ Len(inbox[s]) = 1 /\ inbox[s][1] = Mark
      BY <1>1, <1>3 DEF CoordInv, QueueInv
    <2> QED BY <1>1, <2>1 DEF Mark
  <1> QED BY <1>2, <1>3

(* What handling one message may do to the instruments: those of other     *)
(* shards are untouched, those of this shard gain the present era or lose  *)
(* everything, a reset empties its channel, a definition defines.          *)
HandledBy(s, m) ==
    /\ applied' \in [Inst -> SUBSET Nat]
    /\ refdata' \in [Inst -> SUBSET {r.seq : r \in Records}]
    /\ \A k \in Inst : ShardOf[k] # s =>
          applied'[k] = applied[k] /\ refdata'[k] = refdata[k]
    /\ \A k \in Inst : applied'[k] \subseteq {epoch[ChannelOf[k]]}
    /\ \A k \in Inst : Defines(m, k) => refdata'[k] # {}
    /\ m.kind = "reset" => \A k \in Wiped(s, m.ch) : applied'[k] = {}
    /\ acks' = IF m.kind \in {"reset", "fence"} THEN acks \cup {s} ELSE acks

LEMMA ForgetFacts ==
    ASSUME CoordInv, NEW s \in Shard, NEW gone \in SUBSET Owned(s), Forget(gone)
    PROVE  /\ applied' \in [Inst -> SUBSET Nat]
           /\ refdata' \in [Inst -> SUBSET {r.seq : r \in Records}]
           /\ \A k \in Inst : ShardOf[k] # s =>
                 applied'[k] = applied[k] /\ refdata'[k] = refdata[k]
           /\ \A k \in Inst : applied'[k] \subseteq {epoch[ChannelOf[k]]}
           /\ \A k \in gone : applied'[k] = {}
  BY DEF Forget, Owned, CoordInv, Typed, EraInv

LEMMA HandledOK ==
    ASSUME CoordInv, NEW s \in Shard, Run(s)
    PROVE  HandledBy(s, Head(inbox[s]))
  <1> DEFINE m == Head(inbox[s])
  <1>1. inbox[s] # <<>> /\ ((m.kind = "record" /\ HandleRecord(m)) \/ HandleControl(s, m))
    BY DEF Run
  <1>2. \/ Ordinary(s, m) /\ m.kind \notin {"reset", "fence"}
        \/ m = Mark /\ m.kind \in {"reset", "fence"}
    BY <1>1, TakenMark
  <1> SUFFICES HandledBy(s, m)
    OBVIOUS
  <1> HIDE DEF m
  <1>3. CASE m.kind = "record" /\ HandleRecord(m)
    <2>1. /\ m \in RecordMsgs /\ ShardOf[m.inst] = s /\ ChannelOf[m.inst] = m.ch
          /\ m.epoch = epoch[m.ch]
      BY <1>2, <1>3 DEF Ordinary, OrdinaryIn, PruneMsgs, PlainMsgs
    <2>2. m.inst \in Inst /\ m.epoch \in Nat /\ m.rec \in Records
      BY <2>1 DEF RecordMsgs
    <2>3. /\ applied' = [applied EXCEPT ![m.inst] = @ \cup {m.epoch}]
          /\ refdata' = IF m.rec.type = "instrument_definition"
                        THEN [refdata EXCEPT ![m.inst] = {m.rec.seq}] ELSE refdata
          /\ acks' = acks
      BY <1>3 DEF HandleRecord
    <2>4. /\ applied \in [Inst -> SUBSET Nat]
          /\ refdata \in [Inst -> SUBSET {r.seq : r \in Records}]
          /\ \A k \in Inst : applied[k] \subseteq {epoch[ChannelOf[k]]}
      BY DEF CoordInv, Typed, EraInv
    <2>5. m.rec.seq \in {r.seq : r \in Records}
      BY <2>2
    <2>6. refdata' \in [Inst -> SUBSET {r.seq : r \in Records}]
      BY <2>2, <2>3, <2>4, <2>5
    <2>7. applied' \in [Inst -> SUBSET Nat]
      BY <2>2, <2>3, <2>4
    <2>8. \A k \in Inst : applied'[k] \subseteq {epoch[ChannelOf[k]]}
      BY <2>1, <2>2, <2>3, <2>4
    <2>9. \A k \in Inst : ShardOf[k] # s =>
             applied'[k] = applied[k] /\ refdata'[k] = refdata[k]
      BY <2>1, <2>2, <2>3, <2>4
    <2>10. \A k \in Inst : Defines(m, k) => refdata'[k] # {}
      BY <2>2, <2>3, <2>4 DEF Defines
    <2> QED BY <1>3, <2>3, <2>6, <2>7, <2>8, <2>9, <2>10 DEF HandledBy
  <1>4. CASE HandleControl(s, m)
    <2>1. CASE m.kind = "reset" /\ Forget(Wiped(s, m.ch)) /\ acks' = acks \cup {s}
      <3>1. Wiped(s, m.ch) \in SUBSET Owned(s)
        BY DEF Wiped
      <3> QED BY <2>1, <3>1, ForgetFacts DEF HandledBy, Defines
    <2>2. CASE m.kind = "prune" /\ Forget(Pruned(s, m.seq)) /\ UNCHANGED acks
      <3>1. Pruned(s, m.seq) \in SUBSET Owned(s)
        BY DEF Pruned
      <3> QED BY <2>2, <3>1, ForgetFacts DEF HandledBy, Defines
    <2>3. CASE /\ m.kind \in {"fence", "clear_shadows", "boundary"}
               /\ UNCHANGED <<applied, refdata>>
               /\ acks' = IF m.kind = "fence" THEN acks \cup {s} ELSE acks
      BY <2>3 DEF HandledBy, Defines, CoordInv, Typed, EraInv
    <2> QED BY <1>4, <2>1, <2>2, <2>3 DEF HandleControl, shardVars
  <1> QED BY <1>1, <1>3, <1>4 DEF m

LEMMA RunInv ==
    ASSUME CoordInv, NEW s \in Shard, Run(s)
    PROVE  CoordInv'
  <1> DEFINE m == Head(inbox[s])
             L == Len(inbox[s])
  <1>1. /\ inbox[s] # <<>> /\ inbox' = [inbox EXCEPT ![s] = Tail(@)]
        /\ UNCHANGED <<pc, current, todo, unsent, resetCount, manifest, open,
                       prevDefinition, epoch, nread>>
    BY DEF Run, readVars
  <1>2. HandledBy(s, m)
    BY HandledOK
  <1>3. /\ L \in Nat /\ L >= 1 /\ 1 \in 1 .. L /\ m = inbox[s][1] /\ m \in Msgs
        /\ inbox' \in [Shard -> Seq(Msgs)]
        /\ Len(inbox'[s]) = L - 1 /\ (inbox'[s] = <<>> <=> L = 1)
        /\ \A n \in 1 .. (L - 1) : inbox'[s][n] = inbox[s][n + 1]
        /\ \A s2 \in Shard : s2 # s => inbox'[s2] = inbox[s2]
    BY <1>1, TakenFacts
  <1>4. \/ Ordinary(s, m) /\ m.kind \notin {"reset", "fence"}
        \/ /\ m = Mark /\ Waiting /\ L = 1
           /\ m.kind \in {"reset", "fence"}
           /\ m.kind = "reset" <=> pc = "barrier"
           /\ s \notin unsent \cup acks
    BY <1>1, TakenMark
  <1> HIDE DEF m, HandledBy
  <1>5. acks' = IF m.kind \in {"reset", "fence"} THEN acks \cup {s} ELSE acks
    BY <1>2 DEF HandledBy
  <1>6. Waiting' = Waiting /\ Mark' = Mark
    BY <1>1 DEF Waiting, Mark
  <1>7. \A s2 \in Shard : s2 # s => (s2 \in acks' <=> s2 \in acks)
    BY <1>5
  <1>8. Typed'
    <2>1. \A s2 \in Shard : Len(inbox'[s2]) <= InboxCap
      <3>1. \A s2 \in Shard : Len(inbox[s2]) <= InboxCap /\ InboxCap \in Nat
        BY Basics DEF CoordInv, Typed, CoordinatorTypeOK
      <3>2. L - 1 <= InboxCap
        BY <1>3, <3>1
      <3> QED BY <1>3, <3>1, <3>2
    <2>2. acks' \subseteq Shard
      BY <1>5 DEF CoordInv, Typed, CoordinatorTypeOK
    <2>3. CoordinatorTypeOK'
      BY <1>1, <2>1, <2>2 DEF CoordInv, Typed, CoordinatorTypeOK
    <2>4. Msgs' = Msgs /\ GroupRec' = GroupRec
      BY DEF GroupRec, Msgs, RecordMsgs, PruneMsgs, PlainMsgs, MarkMsgs
    <2> QED BY <1>1, <1>2, <1>3, <2>3, <2>4 DEF CoordInv, Typed, HandledBy
  <1>9. WaitInv'
    <2>1. ASSUME Waiting, NEW s2 \in acks'
          PROVE  s2 \notin unsent /\ inbox'[s2] = <<>>
      <3>1. CASE s2 # s
        <4>1. s2 \in acks /\ s2 \in Shard
          BY <2>1, <3>1, <1>5 DEF CoordInv, Typed, CoordinatorTypeOK
        <4> QED BY <2>1, <3>1, <4>1, <1>3 DEF CoordInv, WaitInv
      <3>2. CASE s2 = s
        <4>1. s \notin acks
          BY <2>1, <1>1 DEF CoordInv, WaitInv
        <4>2. m.kind \in {"reset", "fence"}
          BY <2>1, <3>2, <4>1, <1>5
        <4> QED BY <3>2, <4>2, <1>3, <1>4
      <3> QED BY <3>1, <3>2
    <2>2. ASSUME pc = "barrier", NEW s2 \in acks', NEW k \in Wiped(s2, Mark.ch)
          PROVE  applied'[k] = {}
      <3>1. k \in Inst /\ ShardOf[k] = s2
        BY DEF Wiped, Owned
      <3>2. CASE s2 # s
        <4>1. s2 \in acks
          BY <2>2, <3>2, <1>5
        <4>2. applied[k] = {}
          BY <2>2, <4>1 DEF CoordInv, WaitInv
        <4> QED BY <3>1, <3>2, <4>2, <1>2 DEF HandledBy
      <3>3. CASE s2 = s
        <4>1. s \notin acks
          BY <2>2, <1>1 DEF CoordInv, WaitInv, Waiting
        <4>2. m.kind = "reset" /\ m = Mark
          BY <2>2, <3>3, <4>1, <1>4, <1>5
        <4> QED BY <2>2, <3>3, <4>2, <1>2 DEF HandledBy
      <3> QED BY <3>2, <3>3
    <2> QED BY <1>1, <1>6, <2>1, <2>2 DEF CoordInv, WaitInv, Wiped, Owned
  <1>10. QueueInv'
    <2>1. ASSUME NEW s2 \in Shard, NEW n \in 1 .. Len(inbox'[s2])
          PROVE  \/ OrdinaryIn(s2, inbox'[s2][n], epoch)
                 \/ /\ Waiting /\ s2 \notin unsent \cup acks'
                    /\ n = Len(inbox'[s2]) /\ inbox'[s2][n] = Mark
      <3>1. CASE s2 # s
        BY <3>1, <1>3, <1>7 DEF CoordInv, QueueInv, Ordinary
      <3>2. CASE s2 = s
        <4>1. /\ n + 1 \in 1 .. L /\ inbox'[s][n] = inbox[s][n + 1]
              /\ (n + 1 = L <=> n = Len(inbox'[s])) /\ L # 1
          BY <2>1, <3>2, <1>3
        <4>2. acks' = acks
          BY <4>1, <1>4, <1>5
        <4> QED BY <3>2, <4>1, <4>2 DEF CoordInv, QueueInv, Ordinary
      <3> QED BY <3>1, <3>2
    <2> QED BY <1>1, <1>6, <2>1 DEF CoordInv, QueueInv, Ordinary
  <1>11. EraInv'
    BY <1>1, <1>2 DEF EraInv, HandledBy
  <1>12. StrikeInv'
    <2>1. ASSUME NEW k \in Inst, Settled(k) PROVE Settled(k)'
      <3>1. CASE ShardOf[k] # s
        BY <2>1, <3>1, <1>2, <1>3, Basics DEF Settled, HandledBy
      <3>2. CASE ShardOf[k] = s
        <4>1. Defines(inbox[s][L], k)
          BY <2>1, <3>2, <1>1 DEF Settled
        <4>2. CASE L = 1
          BY <3>2, <4>1, <4>2, <1>2, <1>3 DEF Settled, HandledBy
        <4>3. CASE L # 1
          <5>1. /\ inbox'[s] # <<>> /\ L - 1 \in 1 .. (L - 1)
                /\ (L - 1) + 1 = L
            BY <4>3, <1>3
          <5>2. inbox'[s][Len(inbox'[s])] = inbox[s][L]
            BY <5>1, <1>3
          <5> QED BY <3>2, <4>1, <5>1, <5>2 DEF Settled
        <4> QED BY <4>2, <4>3
      <3> QED BY <3>1, <3>2
    <2>2. ASSUME NEW s2 \in Shard, NEW n \in 1 .. Len(inbox'[s2]), IsStrike(inbox'[s2][n])
          PROVE  IF n = 1 THEN refdata'[inbox'[s2][n].inst] # {}
                          ELSE Defines(inbox'[s2][n - 1], inbox'[s2][n].inst)
      <3>1. CASE s2 # s
        <4> DEFINE k == inbox[s2][n].inst
        <4>1. /\ inbox'[s2] = inbox[s2] /\ n \in 1 .. Len(inbox[s2])
              /\ IsStrike(inbox[s2][n])
          BY <2>2, <3>1, <1>3
        <4>2. inbox[s2][n] # Mark
          BY <4>1 DEF IsStrike, Mark
        <4>3. OrdinaryIn(s2, inbox[s2][n], epoch)
          BY <4>1, <4>2 DEF CoordInv, QueueInv, Ordinary
        <4>4. k \in Inst /\ ShardOf[k] = s2
          BY <4>1, <4>3, StrikeHome DEF IsStrike
        <4>5. refdata'[k] = refdata[k]
          BY <3>1, <4>4, <1>2 DEF HandledBy
        <4>6. IF n = 1 THEN refdata[k] # {} ELSE Defines(inbox[s2][n - 1], k)
          BY <4>1 DEF CoordInv, StrikeInv
        <4> QED BY <4>1, <4>5, <4>6
      <3>2. CASE s2 = s
        <4> DEFINE k == inbox[s][n + 1].inst
        <4>1. /\ n \in 1 .. (L - 1) /\ n + 1 \in 1 .. L /\ n + 1 # 1
              /\ inbox'[s][n] = inbox[s][n + 1] /\ (n + 1) - 1 = n
          BY <2>2, <3>2, <1>3
        <4>2. Defines(inbox[s][n], k)
          BY <2>2, <3>2, <4>1 DEF CoordInv, StrikeInv
        <4>3. CASE n = 1
          <5>1. inbox[s][n + 1] # Mark
            BY <2>2, <3>2, <4>1 DEF IsStrike, Mark
          <5>2. OrdinaryIn(s, inbox[s][n + 1], epoch)
            BY <4>1, <5>1 DEF CoordInv, QueueInv, Ordinary
          <5>3. k \in Inst
            BY <2>2, <3>2, <4>1, <5>2, StrikeHome DEF IsStrike
          <5>4. refdata'[k] # {}
            BY <4>2, <4>3, <5>3, <1>2, <1>3 DEF HandledBy
          <5> QED BY <3>2, <4>1, <4>3, <5>4
        <4>4. CASE n # 1
          <5>1. n - 1 \in 1 .. (L - 1) /\ (n - 1) + 1 = n
            BY <4>1, <4>4
          <5>2. inbox'[s][n - 1] = inbox[s][n]
            BY <5>1, <1>3
          <5> QED BY <3>2, <4>1, <4>2, <4>4, <5>2
        <4> QED BY <4>3, <4>4
      <3> QED BY <3>1, <3>2
    <2>3. ASSUME NEW s2 \in Shard, todo[s2] # <<>>, IsStrike(todo[s2][1])
          PROVE  Settled(todo[s2][1].inst)'
      <3>1. OrdinaryIn(s2, todo[s2][1], epoch)
        BY <2>3 DEF CoordInv, QueueInv, SendsIn
      <3>2. todo[s2][1].inst \in Inst
        BY <2>3, <3>1, StrikeHome DEF IsStrike
      <3>3. Settled(todo[s2][1].inst)
        BY <2>3 DEF CoordInv, StrikeInv
      <3>4. PICK k \in Inst : k = todo[s2][1].inst
        BY <3>2
      <3>5. Settled(k)'
        BY <2>1, <3>3, <3>4
      <3> QED BY <1>1, <3>4, <3>5 DEF Settled
    <2>4. \A def \in prevDefinition :
             /\ def.inst \in Inst
             /\ IF todo[ShardOf[def.inst]] = <<>> THEN Settled(def.inst)'
                   ELSE Defines(todo[ShardOf[def.inst]][1], def.inst)
      BY <2>1 DEF CoordInv, StrikeInv
    <2> QED BY <1>1, <2>2, <2>3, <2>4 DEF StrikeInv
  <1> QED BY <1>8, <1>9, <1>10, <1>11, <1>12 DEF CoordInv

-----------------------------------------------------------------------------
(* The specification.                                                      *)

LEMMA CoordStutterInv ==
    ASSUME CoordInv, UNCHANGED vars
    PROVE  CoordInv'
  <1>1. UNCHANGED <<resetCount, manifest, open, prevDefinition, pc, current, todo, unsent,
                    acks, inbox, epoch, applied, shadow, refdata, nread>>
    BY DEF vars, readVars, waitVars, shardVars
  <1>2. Typed'
    BY <1>1 DEF CoordInv, Typed, CoordinatorTypeOK, GroupRec, Msgs, RecordMsgs,
                PruneMsgs, PlainMsgs, MarkMsgs
  <1>3. WaitInv'
    BY <1>1 DEF CoordInv, WaitInv, Waiting, Mark, Wiped, Owned
  <1>4. QueueInv'
    BY <1>1 DEF CoordInv, QueueInv, Waiting, Mark, Ordinary
  <1>5. EraInv' /\ StrikeInv'
    BY <1>1 DEF CoordInv, EraInv, StrikeInv, Settled
  <1> QED BY <1>2, <1>3, <1>4, <1>5 DEF CoordInv

LEMMA CoordNextInv ==
    ASSUME CoordInv, Next
    PROVE  CoordInv'
  BY DispatchInv, OnDisconnectInv, SendNextInv, BarrierSendInv, FinishBarrierInv,
     FinishFenceInv, RunInv DEF Next, Coordinate

LEMMA CoordInvHolds == Spec => []CoordInv
  <1>1. CoordInv /\ [Next]_vars => CoordInv'
    BY CoordNextInv, CoordStutterInv
  <1> QED BY <1>1, CoordInitInv, PTL DEF Spec

(* The reset barrier of Coordinator.dispatch: the state of an instrument   *)
(* never mixes two eras of its channel, whatever is queued on whichever    *)
(* shard when the Reset Count changes, and in whatever order the barrier's *)
(* goroutines get through.                                                 *)
THEOREM CoordinatorOneEraPerBook == Spec => []OneEraPerBook
  <1>1. CoordInv => OneEraPerBook
    <2> SUFFICES ASSUME CoordInv, NEW k \in Inst PROVE Cardinality(applied[k]) <= 1
      BY DEF OneEraPerBook
    <2>1. applied[k] \in SUBSET {epoch[ChannelOf[k]]}
      BY DEF CoordInv, EraInv
    <2>2. IsFiniteSet({epoch[ChannelOf[k]]}) /\ Cardinality({epoch[ChannelOf[k]]}) = 1
      BY FS_Singleton
    <2>3. Cardinality(applied[k]) <= Cardinality({epoch[ChannelOf[k]]})
      BY <2>1, <2>2, FS_Subset
    <2> QED BY <2>2, <2>3
  <1> QED BY <1>1, CoordInvHolds, PTL

(* When the read loop goes on, no record and no prune of an era that is    *)
(* over is left in any inbox.                                              *)
THEOREM CoordinatorBarrierDrains == Spec => []BarrierDrains
  <1>1. CoordInv => BarrierDrains
    <2> SUFFICES ASSUME CoordInv, pc \in {"read", "send"}, NEW s \in Shard,
                        NEW n \in 1 .. Len(inbox[s]),
                        inbox[s][n].kind \in {"record", "prune"}
                 PROVE  inbox[s][n].epoch = epoch[inbox[s][n].ch]
      BY DEF BarrierDrains
    <2>1. Ordinary(s, inbox[s][n])
      BY AllOrdinary DEF Waiting
    <2> QED BY <2>1 DEF Ordinary, OrdinaryIn, PlainMsgs
  <1> QED BY <1>1, CoordInvHolds, PTL

LEMMA StrikeHeads ==
    ASSUME CoordInv
    PROVE  StrikeFindsDefinition
  <1> SUFFICES ASSUME NEW s \in Shard, inbox[s] # <<>>,
                      Head(inbox[s]).kind = "record",
                      Head(inbox[s]).rec.type = "strike_interval"
               PROVE  refdata[Head(inbox[s]).inst] # {}
    BY DEF StrikeFindsDefinition
  <1>1. Head(inbox[s]) = inbox[s][1] /\ 1 \in 1 .. Len(inbox[s])
    BY Basics, HeadTailProperties
  <1> QED BY <1>1 DEF CoordInv, StrikeInv, IsStrike

(* applyStrikeInterval never meets an instrument without a definition: no  *)
(* prune, wipe or disconnect comes between a definition and its strike.    *)
THEOREM CoordinatorStrikeFindsDefinition == Spec => []StrikeFindsDefinition
  BY StrikeHeads, CoordInvHolds, PTL

(* Every variable of the coordinator keeps its type; an inbox never holds  *)
(* more than its capacity, whoever sends.                                  *)
THEOREM CoordinatorTyped == Spec => []CoordinatorTypeOK
  <1>1. CoordInv => CoordinatorTypeOK
    BY DEF CoordInv, Typed
  <1> QED BY <1>1, CoordInvHolds, PTL
-----------------------------------------------------------------------------
(* The levels of a stream in which groups do not interleave.               *)

(* An open group is the one the stream has open when n records are behind. *)
GroupsBy(groups, n) ==
    \A c \in Channel : \A g \in groups[c] : \E j \in 1 .. n :
        /\ OpenedBy(j, n)
        /\ Stream[j].ch = c /\ Stream[j].inst = g.inst /\ Stream[j].id = g.id

(* A level on its way is filed with its own instrument.                    *)
Homed(m) == m.kind = "record" /\ m.rec.type = "snapshot_level" => m.rec.of = m.inst

ShadowRec == [id : {r.id : r \in Records}, of : SUBSET Inst]
ShadowsOK == shadow \in [Inst -> SUBSET ShadowRec] /\ LevelsGoHome

(* A barrier holds the record at pos, which is dispatched at its end.      *)
Behind == IF pc = "barrier" THEN pos - 1 ELSE pos

HomeInv ==
    /\ pos \in 0 .. Len(Stream)
    /\ pc = "barrier" => pos # 0 /\ current = {Stream[pos]}
    /\ GroupsBy(open, Behind)
    /\ \A s \in Shard : \A n \in 1 .. Len(inbox[s]) : Homed(inbox[s][n])
    /\ \A s \in Shard : todo[s] # <<>> => Homed(todo[s][1])
    /\ ShadowsOK

LEMMA StreamTypes ==
    /\ Len(Stream) \in Nat
    /\ \A n \in 1 .. Len(Stream) : Stream[n] \in Records /\ Stream[n].ch \in Channel
  <1>1. Stream \in Seq(Records)
    BY StreamAssumption
  <1>2. Len(Stream) \in Nat /\ \A n \in 1 .. Len(Stream) : Stream[n] \in Records
    BY <1>1, LenProperties, ElementOfSeq
  <1> QED BY <1>2, RecordAssumption

(* A group stays open until its channel begins or ends another.            *)
LEMMA StaysOpen ==
    ASSUME NEW n \in Nat, NEW j \in 1 .. n, OpenedBy(j, n),
           Stream[n + 1].ch = Stream[j].ch =>
               Stream[n + 1].type \notin {"snapshot_begin", "snapshot_end"}
    PROVE  OpenedBy(j, n + 1)
  <1>1. \A i \in j + 1 .. n + 1 : i \in j + 1 .. n \/ i = n + 1
    OBVIOUS
  <1> QED BY <1>1 DEF OpenedBy

LEMMA BeginOpens ==
    ASSUME NEW n \in Nat, Stream[n].type = "snapshot_begin", n # 0
    PROVE  n \in 1 .. n /\ OpenedBy(n, n)
  <1>1. n \in 1 .. n /\ n + 1 .. n = {}
    OBVIOUS
  <1> QED BY <1>1 DEF OpenedBy

(* Coordinator.Dispatch's switch keeps its open groups with the stream, so *)
(* a level is filed with the instrument it was sent for.                   *)
LEMMA ClassifyHomes ==
    ASSUME NEW n \in 1 .. Len(Stream),
           NEW groups \in [Channel -> SUBSET GroupRec], GroupsBy(groups, n - 1),
           NEW seq \in Nat, NEW defs,
           Classify(Stream[n], groups, seq, defs)
    PROVE  /\ GroupsBy(open', n)
           /\ \A s \in Shard : todo'[s] # <<>> => Homed(todo'[s][1])
  <1> DEFINE rec == Stream[n]
  <1>1. /\ rec \in Records /\ rec.ch \in Channel /\ n \in Nat /\ n # 0
        /\ n - 1 \in Nat /\ (n - 1) + 1 = n
    BY StreamTypes
  <1>2. GroupsBy(open', n)
    <2>1. ASSUME NEW c \in Channel, NEW g \in groups[c],
                 rec.ch = c => rec.type \notin {"snapshot_begin", "snapshot_end"}
          PROVE  \E j \in 1 .. n :
                    /\ OpenedBy(j, n)
                    /\ Stream[j].ch = c /\ Stream[j].inst = g.inst /\ Stream[j].id = g.id
      <3>1. PICK j \in 1 .. n - 1 :
               /\ OpenedBy(j, n - 1)
               /\ Stream[j].ch = c /\ Stream[j].inst = g.inst /\ Stream[j].id = g.id
        BY DEF GroupsBy
      <3>2. OpenedBy(j, (n - 1) + 1)
        BY <1>1, <2>1, <3>1, StaysOpen
      <3> QED BY <1>1, <3>1, <3>2
    <2>2. CASE rec.type = "snapshot_begin"
      <3>1. open' = [groups EXCEPT ![rec.ch] = {[inst |-> rec.inst, id |-> rec.id]}]
        BY <2>2 DEF Classify
      <3>2. OpenedBy(n, n) /\ n \in 1 .. n
        BY <1>1, <2>2, BeginOpens
      <3> SUFFICES ASSUME NEW c \in Channel, NEW g \in open'[c]
                   PROVE  \E j \in 1 .. n :
                             /\ OpenedBy(j, n) /\ Stream[j].ch = c
                             /\ Stream[j].inst = g.inst /\ Stream[j].id = g.id
        BY DEF GroupsBy
      <3>3. CASE c = rec.ch
        <4>1. g = [inst |-> rec.inst, id |-> rec.id]
          BY <1>1, <3>1, <3>3
        <4> QED BY <3>2, <3>3, <4>1
      <3>4. CASE c # rec.ch
        <4>1. g \in groups[c]
          BY <3>1, <3>4
        <4> QED BY <2>1, <3>4, <4>1
      <3> QED BY <3>3, <3>4
    <2>3. CASE rec.type = "snapshot_end"
      <3>1. open' = [groups EXCEPT ![rec.ch] = {}]
        BY <2>3 DEF Classify
      <3>2. \A c \in Channel : \A g \in open'[c] : c # rec.ch /\ g \in groups[c]
        BY <1>1, <3>1
      <3> QED BY <2>1, <3>2 DEF GroupsBy
    <2>4. CASE rec.type \notin {"snapshot_begin", "snapshot_end"}
      <3>1. open' = groups
        BY <2>4 DEF Classify
      <3> QED BY <2>1, <2>4, <3>1 DEF GroupsBy
    <2> QED BY <2>2, <2>3, <2>4
  <1>3. ASSUME rec.type # "snapshot_level"
        PROVE  \A s \in Shard : todo'[s] # <<>> => Homed(todo'[s][1])
    <2>1. ASSUME NEW k PROVE \A s \in Shard : ToOne(k, rec)[s] # <<>> => Homed(ToOne(k, rec)[s][1])
      BY <1>3 DEF ToOne, RecordMsg, Homed
    <2>2. \A s \in Shard : ToNone[s] = <<>>
      BY DEF ToNone
    <2>3. ASSUME NEW m, m.kind # "record"
          PROVE  \A s \in Shard : Homed(ToAll(m)[s][1])
      BY <2>3 DEF ToAll, Homed
    <2>4. PruneMsg(rec).kind # "record" /\ [kind |-> "boundary"].kind # "record"
      BY DEF PruneMsg
    <2>5. \A sends : Send(sends) => todo' = sends
      BY DEF Send
    <2>6. CASE rec.type \in InstrumentScoped /\ Send(ToOne(rec.inst, rec))
      BY <2>1, <2>5, <2>6
    <2>7. CASE Send(IF \E def \in defs : Pairs(def, rec) THEN ToOne(rec.inst, rec) ELSE ToNone)
      BY <2>1, <2>2, <2>5, <2>7
    <2>8. CASE Send(ToAll([kind |-> "boundary"]))
      BY <2>3, <2>4, <2>5, <2>8
    <2>9. CASE Send(ToNone) \/ todo' = ToNone
      BY <2>2, <2>5, <2>9
    <2>10. CASE Send(RouteManifest(rec, seq))
      BY <2>2, <2>3, <2>4, <2>5, <2>10 DEF RouteManifest
    <2> QED BY <1>3, <2>6, <2>7, <2>8, <2>9, <2>10 DEF Classify
  <1>4. ASSUME rec.type = "snapshot_level"
        PROVE  \A s \in Shard : todo'[s] # <<>> => Homed(todo'[s][1])
    <2>1. todo' = RouteLevel(rec, groups[rec.ch])
      BY <1>4 DEF Classify, Send, InstrumentScoped
    <2>2. CASE \A g \in groups[rec.ch] : g.id # rec.id
      BY <2>1, <2>2 DEF RouteLevel, ToNone
    <2>3. CASE ~\A g \in groups[rec.ch] : g.id # rec.id
      <3> DEFINE g == CHOOSE x \in groups[rec.ch] : x.id = rec.id
      <3>1. g \in groups[rec.ch] /\ g.id = rec.id
        BY <2>3
      <3>2. todo' = ToOne(g.inst, rec)
        BY <2>1, <2>3 DEF RouteLevel
      <3> HIDE DEF g
      <3>3. PICK j \in 1 .. n - 1 :
               /\ OpenedBy(j, n - 1)
               /\ Stream[j].ch = rec.ch /\ Stream[j].inst = g.inst /\ Stream[j].id = g.id
        BY <1>1, <3>1 DEF GroupsBy
      <3>4. j \in 1 .. Len(Stream)
        BY <1>1, StreamTypes
      <3>5. rec.of = g.inst
        BY <1>4, <3>1, <3>3, <3>4, StreamAssumption
      <3>6. \A s \in Shard : todo'[s] # <<>> => todo'[s][1] = RecordMsg(rec, g.inst)
        BY <3>2 DEF ToOne
      <3>7. Homed(RecordMsg(rec, g.inst))
        BY <3>5 DEF Homed, RecordMsg
      <3> QED BY <3>6, <3>7
    <2> QED BY <2>2, <2>3
  <1> QED BY <1>2, <1>3, <1>4

LEMMA HomeInit == StreamInit => HomeInv
  <1> SUFFICES ASSUME StreamInit PROVE HomeInv
    OBVIOUS
  <1>1. /\ pos = 0 /\ pc = "read" /\ shadow = [k \in Inst |-> {}]
        /\ \A c \in Channel : open[c] = {}
        /\ \A s \in Shard : inbox[s] = <<>> /\ Len(inbox[s]) = 0 /\ todo[s] = <<>>
    BY DEF StreamInit, Init, ToNone
  <1>2. ShadowsOK
    BY <1>1 DEF ShadowsOK, LevelsGoHome
  <1>3. GroupsBy(open, Behind)
    BY <1>1 DEF GroupsBy
  <1> QED BY <1>1, <1>2, <1>3, StreamTypes DEF HomeInv

(* The steps of the reader.                                                *)
LEMMA ReadNextHomes ==
    ASSUME CoordInv, HomeInv, ReadNext
    PROVE  HomeInv'
  <1> DEFINE n == pos + 1
             rec == Stream[n]
  <1>1. /\ pos \in Nat /\ n \in 1 .. Len(Stream) /\ pos' = n /\ n - 1 = pos /\ n # 0
        /\ n \in 0 .. Len(Stream) /\ Dispatch(rec)
    BY StreamTypes DEF ReadNext, HomeInv
  <1>2. /\ pc = "read" /\ UNCHANGED <<inbox, shadow>>
        /\ todo = ToNone /\ GroupsBy(open, pos) /\ ShadowsOK
        /\ \A s \in Shard : \A i \in 1 .. Len(inbox[s]) : Homed(inbox[s][i])
    BY <1>1 DEF Dispatch, shardVars, CoordInv, WaitInv, HomeInv, Behind
  <1> HIDE DEF n
  <1>3. ShadowsOK'
    BY <1>2 DEF ShadowsOK, ShadowRec, LevelsGoHome
  <1>4. CASE Classify(rec, open, manifest, prevDefinition)
    <2>1. /\ open \in [Channel -> SUBSET GroupRec] /\ manifest \in Nat
          /\ \A c \in Channel : \A g \in open[c] : ChannelOf[g.inst] = c
      BY DEF CoordInv, Typed, CoordinatorTypeOK
    <2>2. GroupsBy(open', n) /\ \A s \in Shard : todo'[s] # <<>> => Homed(todo'[s][1])
      BY <1>1, <1>2, <1>4, <2>1, ClassifyHomes
    <2>3. pc' # "barrier"
      BY <1>2, <1>4 DEF Classify, Send
    <2>4. Behind' = n
      BY <1>1, <2>3 DEF Behind
    <2> QED BY <1>1, <1>2, <1>3, <2>2, <2>3, <2>4 DEF HomeInv
  <1>5. CASE pc' = "barrier" /\ current' = {rec} /\ UNCHANGED <<open, todo>>
    <2>1. Behind' = pos
      BY <1>1, <1>5 DEF Behind
    <2>2. \A s \in Shard : todo'[s] = <<>>
      BY <1>2, <1>5 DEF ToNone
    <2> QED BY <1>1, <1>2, <1>3, <1>5, <2>1, <2>2 DEF HomeInv
  <1> QED BY <1>1, <1>4, <1>5 DEF Dispatch

(* A break closes every group, so nothing need be known of what it lost.   *)
LEMMA ReconnectHomes ==
    ASSUME CoordInv, HomeInv, Reconnect
    PROVE  HomeInv'
  <1>1. /\ pc' # "barrier" /\ UNCHANGED <<inbox, shadow>>
        /\ open' = [c \in Channel |-> {}] /\ todo' = ToAll([kind |-> "clear_shadows"])
        /\ pos' \in pos .. Len(Stream)
    BY DEF Reconnect, OnDisconnect, Send, shardVars
  <1>2. pos' \in 0 .. Len(Stream)
    BY <1>1, StreamTypes DEF HomeInv
  <1>3. GroupsBy(open', Behind')
    BY <1>1 DEF GroupsBy
  <1>4. \A s \in Shard : Homed(todo'[s][1])
    BY <1>1 DEF ToAll, Homed
  <1>5. ShadowsOK'
    BY <1>1 DEF HomeInv, ShadowsOK, ShadowRec, LevelsGoHome
  <1> QED BY <1>1, <1>2, <1>3, <1>4, <1>5 DEF HomeInv

(* The sends, the barrier and the fence.                                   *)
LEMMA SendNextHomes ==
    ASSUME CoordInv, HomeInv, NEW s \in Shard, SendNext(s), UNCHANGED pos
    PROVE  HomeInv'
  <1> DEFINE m == todo[s][1]
             L == Len(inbox[s])
  <1>1. /\ pc = "send" /\ todo[s] # <<>> /\ inbox' = [inbox EXCEPT ![s] = inbox[s] \o todo[s]]
        /\ todo' = [todo EXCEPT ![s] = <<>>]
        /\ pc' # "barrier" /\ UNCHANGED <<current, open, shadow>>
    BY DEF SendNext, readVars, shardVars
  <1>2. todo[s] = <<m>> /\ m \in Msgs /\ Homed(m)
    <2>1. todo[s] \in Seq(Msgs) /\ Len(todo[s]) = 1
      BY <1>1 DEF CoordInv, QueueInv, SendsIn
    <2> QED BY <1>1, <2>1, ElementOfSeq DEF HomeInv
  <1> HIDE DEF m
  <1>3. /\ L \in Nat /\ Len(inbox'[s]) = L + 1 /\ inbox'[s][L + 1] = m
        /\ \A n \in 1 .. L : inbox'[s][n] = inbox[s][n]
        /\ \A s2 \in Shard : s2 # s => inbox'[s2] = inbox[s2]
    <2>1. inbox \in [Shard -> Seq(Msgs)]
      BY DEF CoordInv, Typed
    <2> QED BY <1>1, <1>2, <2>1, AppendFacts
  <1>4. \A n \in 1 .. L + 1 : n \in 1 .. L \/ n = L + 1
    BY <1>3
  <1>5. \A s2 \in Shard : \A n \in 1 .. Len(inbox'[s2]) : Homed(inbox'[s2][n])
    BY <1>2, <1>3, <1>4 DEF HomeInv
  <1>6. \A s2 \in Shard : todo'[s2] # <<>> => Homed(todo'[s2][1])
    <2>1. todo \in [Shard -> Seq(Msgs)]
      BY DEF CoordInv, QueueInv, SendsIn
    <2> QED BY <1>1, <2>1 DEF HomeInv
  <1>7. ShadowsOK'
    BY <1>1 DEF HomeInv, ShadowsOK, ShadowRec, LevelsGoHome
  <1>8. Behind' = Behind
    BY <1>1 DEF Behind
  <1> QED BY <1>1, <1>5, <1>6, <1>7, <1>8 DEF HomeInv

LEMMA BarrierSendHomes ==
    ASSUME CoordInv, HomeInv, NEW s \in Shard, BarrierSend(s), UNCHANGED pos
    PROVE  HomeInv'
  <1> DEFINE L == Len(inbox[s])
  <1>1. /\ Waiting /\ inbox' = [inbox EXCEPT ![s] = Append(inbox[s], Mark)]
        /\ UNCHANGED <<pc, current, todo, open, shadow>>
    BY DEF BarrierSend, Waiting, Mark, readVars, shardVars
  <1>2. Mark \in Msgs /\ Homed(Mark)
    BY <1>1, MarkFacts DEF Homed
  <1> HIDE DEF Mark
  <1>3. /\ L \in Nat /\ Len(inbox'[s]) = L + 1 /\ inbox'[s][L + 1] = Mark
        /\ \A n \in 1 .. L : inbox'[s][n] = inbox[s][n]
        /\ \A s2 \in Shard : s2 # s => inbox'[s2] = inbox[s2]
    <2>1. inbox \in [Shard -> Seq(Msgs)]
      BY DEF CoordInv, Typed
    <2> QED BY <1>1, <1>2, <2>1, AppendFacts
  <1>4. \A n \in 1 .. L + 1 : n \in 1 .. L \/ n = L + 1
    BY <1>3
  <1>5. \A s2 \in Shard : \A n \in 1 .. Len(inbox'[s2]) : Homed(inbox'[s2][n])
    BY <1>2, <1>3, <1>4 DEF HomeInv
  <1>6. ShadowsOK' /\ Behind' = Behind
    BY <1>1 DEF HomeInv, ShadowsOK, ShadowRec, LevelsGoHome, Behind
  <1> QED BY <1>1, <1>5, <1>6 DEF HomeInv

LEMMA FinishHomes ==
    ASSUME CoordInv, HomeInv, FinishBarrier \/ FinishFence, UNCHANGED pos
    PROVE  HomeInv'
  <1>1. Waiting /\ AllAcked /\ UNCHANGED <<inbox, shadow>>
    BY DEF FinishBarrier, FinishFence, Waiting, shardVars
  <1>2. \A s \in Shard : Len(inbox'[s]) = 0
    BY <1>1, AllEmpty
  <1>3. ShadowsOK'
    BY <1>1 DEF HomeInv, ShadowsOK, ShadowRec, LevelsGoHome
  <1>4. CASE FinishFence
    <2>1. pc' # "barrier" /\ UNCHANGED <<open, todo>> /\ Behind' = Behind
      BY <1>4 DEF FinishFence, readVars, Behind
    <2> QED BY <1>2, <1>3, <2>1 DEF HomeInv
  <1>5. CASE FinishBarrier
    <2>1. PICK n \in 1 .. Len(Stream) : n = pos
      BY <1>5, StreamTypes DEF FinishBarrier, HomeInv
    <2>2. Stream[n].ch \in Channel
      BY StreamTypes
    <2> DEFINE groups == [open EXCEPT ![Stream[n].ch] = {}]
               defs == {}
               seq == 0
    <2>3. current = {Stream[n]} /\ GroupsBy(open, n - 1)
      BY <1>5, <2>1 DEF FinishBarrier, HomeInv, Behind
    <2>4. Classify(Stream[n], groups, seq, defs) /\ seq \in Nat
      BY <1>5, <2>3 DEF FinishBarrier
    <2>5. groups \in [Channel -> SUBSET GroupRec]
      BY <2>2 DEF CoordInv, Typed
    <2>6. GroupsBy(groups, n - 1)
      <3>1. \A c \in Channel : groups[c] \subseteq open[c]
        BY <2>2 DEF CoordInv, Typed
      <3> HIDE DEF groups
      <3> QED BY <2>3, <3>1 DEF GroupsBy
    <2>7. pc' # "barrier"
      BY <2>4 DEF Classify, Send
    <2> HIDE DEF groups, defs, seq
    <2>8. GroupsBy(open', n) /\ \A s \in Shard : todo'[s] # <<>> => Homed(todo'[s][1])
      BY <2>4, <2>5, <2>6, ClassifyHomes
    <2>9. Behind' = n
      BY <2>1, <2>7 DEF Behind
    <2> QED BY <1>2, <1>3, <2>7, <2>8, <2>9 DEF HomeInv
  <1> QED BY <1>4, <1>5

(* The shards: a level joins the shadow of the instrument it was sent for. *)
LEMMA RunHomes ==
    ASSUME CoordInv, HomeInv, NEW s \in Shard, Run(s), UNCHANGED pos
    PROVE  HomeInv'
  <1> DEFINE m == Head(inbox[s])
             L == Len(inbox[s])
  <1>1. /\ inbox[s] # <<>> /\ inbox' = [inbox EXCEPT ![s] = Tail(@)]
        /\ (m.kind = "record" /\ HandleRecord(m)) \/ HandleControl(s, m)
        /\ UNCHANGED <<pc, current, todo, open>>
    BY DEF Run, readVars
  <1>2. /\ L \in Nat /\ 1 \in 1 .. L /\ m = inbox[s][1] /\ m \in Msgs
        /\ Len(inbox'[s]) = L - 1
        /\ \A n \in 1 .. (L - 1) : inbox'[s][n] = inbox[s][n + 1]
        /\ \A s2 \in Shard : s2 # s => inbox'[s2] = inbox[s2]
    BY <1>1, TakenFacts
  <1>3. \A s2 \in Shard : \A n \in 1 .. Len(inbox'[s2]) : Homed(inbox'[s2][n])
    <2>1. ASSUME NEW s2 \in Shard, s2 # s, NEW n \in 1 .. Len(inbox'[s2])
          PROVE  Homed(inbox'[s2][n])
      <3>1. inbox'[s2] = inbox[s2]
        BY <1>2, <2>1
      <3> QED BY <3>1 DEF HomeInv
    <2>2. ASSUME NEW n \in 1 .. Len(inbox'[s])
          PROVE  Homed(inbox'[s][n])
      <3>1. n + 1 \in 1 .. L /\ inbox'[s][n] = inbox[s][n + 1]
        BY <1>2
      <3> QED BY <3>1 DEF HomeInv
    <2> QED BY <2>1, <2>2
  <1>4. Homed(m) /\ shadow \in [Inst -> SUBSET ShadowRec] /\ LevelsGoHome
    BY <1>2 DEF HomeInv, ShadowsOK
  <1>5. Behind' = Behind
    BY <1>1 DEF Behind
  <1> HIDE DEF m, L
  <1>6. ASSUME shadow' \in [Inst -> SUBSET ShadowRec],
               \A k \in Inst : \A sh \in shadow'[k] : sh.of \subseteq {k}
        PROVE  HomeInv'
    <2>1. ShadowsOK'
      BY <1>6 DEF ShadowsOK, ShadowRec, LevelsGoHome
    <2> QED BY <1>1, <1>3, <1>5, <2>1 DEF HomeInv
  <1>7. ASSUME NEW gone, shadow' = [k \in Inst |-> IF k \in gone THEN {} ELSE shadow[k]]
        PROVE  HomeInv'
    <2>1. \A k \in Inst : shadow'[k] = IF k \in gone THEN {} ELSE shadow[k]
      BY <1>7
    <2>2. shadow' \in [Inst -> SUBSET ShadowRec]
      BY <1>4, <1>7
    <2>3. \A k \in Inst : \A sh \in shadow'[k] : sh.of \subseteq {k}
      BY <1>4, <2>1 DEF LevelsGoHome
    <2> QED BY <1>6, <2>2, <2>3
  <1>8. CASE shadow' = shadow
    BY <1>4, <1>6, <1>8 DEF LevelsGoHome
  <1>9. CASE HandleControl(s, m)
    BY <1>7, <1>8, <1>9 DEF HandleControl, Forget, shardVars
  <1>10. CASE m.kind = "record" /\ HandleRecord(m)
    <2>1. m \in RecordMsgs
      BY <1>2, <1>10 DEF Msgs, PruneMsgs, PlainMsgs, MarkMsgs
    <2>2. PICK k \in Inst : k = m.inst
      BY <2>1 DEF RecordMsgs
    <2>3. PICK rec \in Records : rec = m.rec
      BY <2>1 DEF RecordMsgs
    <2>4. rec.type = "snapshot_level" => rec.of = k
      BY <1>4, <1>10, <2>2, <2>3 DEF Homed
    <2>5. HandleSnapshotRecord(rec, k)
      BY <1>10, <2>2, <2>3 DEF HandleRecord
    <2>6. ASSUME NEW S \in SUBSET ShadowRec, \A sh \in S : sh.of \subseteq {k},
                 shadow' = [shadow EXCEPT ![k] = S]
          PROVE  HomeInv'
      <3>1. shadow' \in [Inst -> SUBSET ShadowRec]
        BY <1>4, <2>6
      <3>2. \A k2 \in Inst : shadow'[k2] = IF k2 = k THEN S ELSE shadow[k2]
        BY <1>4, <2>6
      <3>3. \A k2 \in Inst : \A sh \in shadow'[k2] : sh.of \subseteq {k2}
        BY <1>4, <2>6, <3>2 DEF LevelsGoHome
      <3> QED BY <1>6, <3>1, <3>3
    <2>7. CASE shadow' = [shadow EXCEPT ![k] = {[id |-> rec.id, of |-> {}]}]
      <3> DEFINE S == {[id |-> rec.id, of |-> {}]}
      <3>1. S \in SUBSET ShadowRec /\ (\A sh \in S : sh.of \subseteq {k})
        BY DEF ShadowRec
      <3>2. shadow' = [shadow EXCEPT ![k] = S]
        BY <2>7
      <3> HIDE DEF S
      <3> QED BY <2>6, <3>1, <3>2
    <2>8. CASE shadow' = [shadow EXCEPT ![k] = {}]
      <3> DEFINE S == {}
      <3>1. S \in SUBSET ShadowRec /\ (\A sh \in S : sh.of \subseteq {k})
        OBVIOUS
      <3>2. shadow' = [shadow EXCEPT ![k] = S]
        BY <2>8
      <3> HIDE DEF S
      <3> QED BY <2>6, <3>1, <3>2
    <2>9. CASE /\ rec.type = "snapshot_level"
               /\ shadow' = [shadow EXCEPT ![k] =
                     {IF sh.id = rec.id THEN [sh EXCEPT !.of = @ \cup {rec.of}] ELSE sh :
                          sh \in shadow[k]}]
      <3> DEFINE Joined(sh) == IF sh.id = rec.id THEN [sh EXCEPT !.of = @ \cup {rec.of}] ELSE sh
                 S == {Joined(sh) : sh \in shadow[k]}
      <3>1. ASSUME NEW sh \in shadow[k]
            PROVE  Joined(sh) \in ShadowRec /\ Joined(sh).of \subseteq {k}
        <4>1. sh \in ShadowRec /\ sh.of \subseteq {k} /\ rec.of = k
          BY <1>4, <2>4, <2>9 DEF LevelsGoHome
        <4>2. [sh EXCEPT !.of = @ \cup {rec.of}] = [id |-> sh.id, of |-> sh.of \cup {k}]
          BY <4>1 DEF ShadowRec
        <4> QED BY <4>1, <4>2 DEF ShadowRec
      <3>2. shadow' = [shadow EXCEPT ![k] = S]
        BY <2>9
      <3>3. S \in SUBSET ShadowRec /\ \A sh \in S : sh.of \subseteq {k}
        BY <3>1
      <3> HIDE DEF S
      <3> QED BY <2>6, <3>2, <3>3
    <2> QED BY <1>8, <2>5, <2>7, <2>8, <2>9 DEF HandleSnapshotRecord
  <1> QED BY <1>1, <1>9, <1>10

LEMMA HomeStutter ==
    ASSUME HomeInv, UNCHANGED streamVars
    PROVE  HomeInv'
  <1>1. UNCHANGED <<open, pc, current, todo, inbox, shadow, pos>>
    BY DEF streamVars, vars, readVars, waitVars, shardVars
  <1>2. ShadowsOK' /\ Behind' = Behind
    BY <1>1 DEF HomeInv, ShadowsOK, ShadowRec, LevelsGoHome, Behind
  <1> QED BY <1>1, <1>2 DEF HomeInv

(* Every step of the reader is one the coordinator is proved for.          *)
LEMMA StreamNextInv ==
    ASSUME CoordInv, HomeInv, [StreamNext]_streamVars
    PROVE  CoordInv' /\ HomeInv'
  <1>1. CASE ReadNext
    <2>1. Stream[pos + 1] \in Records
      BY <1>1, StreamTypes DEF ReadNext, HomeInv
    <2> QED BY <1>1, <2>1, DispatchInv, ReadNextHomes DEF ReadNext
  <1>2. CASE Reconnect
    BY <1>2, OnDisconnectInv, ReconnectHomes DEF Reconnect
  <1>3. CASE UNCHANGED pos /\ (Coordinate \/ \E s \in Shard : Run(s))
    BY <1>3, CoordNextInv, SendNextHomes, BarrierSendHomes, FinishHomes, RunHomes
       DEF Next, Coordinate
  <1>4. CASE UNCHANGED streamVars
    BY <1>4, CoordStutterInv, HomeStutter DEF streamVars
  <1> QED BY <1>1, <1>2, <1>3, <1>4 DEF StreamNext

(* A strike reaches its definition and a level its own group, whichever    *)
(* connections broke and whatever they lost: OnDisconnect closes the open  *)
(* groups and the shadows before the next record is routed.                *)
THEOREM CoordinatorRecordsGoHome == StreamSpec => []RecordsGoHome
  <1>1. StreamInit => CoordInv /\ HomeInv
    BY CoordInitInv, HomeInit DEF StreamInit
  <1>2. CoordInv /\ HomeInv /\ [StreamNext]_streamVars => (CoordInv /\ HomeInv)'
    BY StreamNextInv
  <1>3. CoordInv /\ HomeInv => RecordsGoHome
    BY StrikeHeads DEF CoordInv, Typed, HomeInv, ShadowsOK, RecordsGoHome
  <1> QED BY <1>1, <1>2, <1>3, PTL DEF StreamSpec
=============================================================================
