--------------------------- MODULE MbpCoordinator ----------------------------
(***************************************************************************)
(* The concurrent half of the market-by-price book-builder: the read loop  *)
(* that dispatches records, the shard goroutines it feeds through bounded  *)
(* inboxes, and the goroutines of a reset barrier or a fence.  Source:     *)
(* go/marketbyprice-bot/coordinator.go, and Shard.Run in dispatch.go.      *)
(*                                                                         *)
(* What a shard does with a record is MbpShard's subject.  Here it is      *)
(* reduced to what the coordinator's ordering decides: which wipe of the   *)
(* channel each record came after, which levels an open shadow received,   *)
(* and which definitions a manifest prune removes.  A level_update stands  *)
(* for a book_clear too.  Trades, rows for the database and the            *)
(* cancellation that ends the process are left out.                        *)
(***************************************************************************)
EXTENDS Naturals, Sequences, FiniteSets, TLC

CONSTANTS
    Shard,        \* the shards
    Channel,      \* channel ids
    Inst,         \* the (channel, instrument id) pairs
    ChannelOf,    \* [Inst -> Channel]
    ShardOf,      \* [Inst -> Shard], shardFor
    Records,      \* the records the parser's socket may deliver
    InboxCap,     \* capacity of Shard.inbox
    MaxRecords,   \* bound: records read
    MaxBarriers   \* bound: barriers per channel

ASSUME CoordinatorAssumption ==
    /\ IsFiniteSet(Shard) /\ Shard # {}
    /\ ChannelOf \in [Inst -> Channel]
    /\ ShardOf \in [Inst -> Shard]
    /\ InboxCap \in Nat \ {0}
    /\ MaxRecords \in Nat /\ MaxBarriers \in Nat

VARIABLES
    resetCount,   \* Coordinator.resetCount: {} or the last count, per channel
    manifest,     \* Coordinator.manifest.Seq
    open,         \* Coordinator.open: {} or the open group, per channel
    prevDefinition, \* Coordinator.prevDefinition: {} or the definition
    pc,           \* where the read loop is: "read", "send", "barrier", "fence"
    current,      \* {} or the record a barrier or a fence is run for
    todo,         \* the sends the current Dispatch still has to make
    unsent,       \* shards whose barrier goroutine has not sent yet
    acks,         \* shards that acknowledged
    inbox,        \* Shard.inbox
    epoch,        \* history: how often each channel was wiped
    applied,      \* per instrument: the epochs of the records in its state
    shadow,       \* per instrument: {} or the shadow, its Snapshot ID and the
                  \* instruments its levels are of
    refdata,      \* per instrument: {} or the Manifest Seq of its definition
    nread         \* history: records read

readVars  == <<resetCount, manifest, open, prevDefinition, epoch, nread>>
waitVars  == <<pc, current, todo, unsent, acks>>
shardVars == <<applied, shadow, refdata>>
vars      == <<readVars, waitVars, inbox, shardVars>>

-----------------------------------------------------------------------------
(* Messages.                                                               *)

(* A record on its way to the shard, with the epoch it is dispatched in:   *)
(* the one the step leaves, since the barrier's tail opens a new one.      *)
RecordMsg(rec, k) ==
    [kind |-> "record", rec |-> rec, inst |-> k,
     ch |-> rec.ch, epoch |-> epoch'[rec.ch]]

PruneMsg(rec) ==
    [kind |-> "prune", seq |-> rec.seq, ch |-> rec.ch, epoch |-> epoch'[rec.ch]]

ToAll(msg) == [s \in Shard |-> <<msg>>]

ToOne(k, rec) ==
    [s \in Shard |-> IF s = ShardOf[k] THEN <<RecordMsg(rec, k)>> ELSE <<>>]

ToNone == [s \in Shard |-> <<>>]

-----------------------------------------------------------------------------
(* Dispatch.                                                               *)

Send(sends) ==
    /\ todo' = sends
    /\ pc' = IF sends = ToNone THEN "read" ELSE "send"
    /\ UNCHANGED <<unsent, acks>> /\ current' = {}

InstrumentScoped ==
    {"level_update", "instrument_reset", "instrument_definition",
     "snapshot_begin", "snapshot_end"}

(* An instrument is named by the channel and the id its record carries, so *)
(* a record never names one of another channel.  A Manifest Seq is a u32.  *)
ASSUME RecordAssumption ==
    \A r \in Records :
        /\ r.ch \in Channel
        /\ r.type \in InstrumentScoped \cup {"strike_interval"} =>
              r.inst \in Inst /\ ChannelOf[r.inst] = r.ch
        /\ r.type = "manifest_summary" => r.seq \in Nat

(* definitionRef.pairs: the strike's message is the one behind the         *)
(* definition's, in the same datagram, of the same instrument and source.  *)
Pairs(def, rec) ==
    /\ def.ch = rec.ch /\ def.datagram = rec.datagram
    /\ rec.index = def.index + 1
    /\ def.inst = rec.inst /\ def.source = rec.source

(* Every record takes and clears the definition before it.                 *)
DefinitionNow(rec) == IF rec.type = "instrument_definition" THEN {rec} ELSE {}

(* A level carries no instrument: it is filed with the open group of its   *)
(* channel if its Snapshot ID is that group's, and discarded otherwise.    *)
RouteLevel(rec, groups) ==
    IF \A g \in groups : g.id # rec.id THEN ToNone
    ELSE LET g == CHOOSE x \in groups : x.id = rec.id IN ToOne(g.inst, rec)

(* The manifest is held once for all channels; a valid one with a larger   *)
(* sequence is a prune for every shard.                                    *)
RouteManifest(rec, seq) ==
    IF rec.valid /\ rec.seq > seq
    THEN ToAll(PruneMsg(rec)) ELSE ToNone

(* Mutant: only the shard that owns the held record's instrument is sent a *)
(* reset, though every shard's acknowledgement is awaited.                 *)
ConcernedShard(rec) ==
    IF "inst" \in DOMAIN rec THEN {ShardOf[rec.inst]} ELSE Shard

(* A barrier and a fence go through every shard, by a goroutine for each.  *)
Drained(rec) == Shard

(* The switch of Dispatch, given the coordinator state it starts from: the *)
(* barrier re-enters it with a wiped one, and with no definition before.   *)
Classify(rec, groups, seq, defs) ==
    /\ open' = CASE rec.type = "snapshot_begin" ->
                       [groups EXCEPT ![rec.ch] = {[inst |-> rec.inst, id |-> rec.id]}]
                 [] rec.type = "snapshot_end" -> [groups EXCEPT ![rec.ch] = {}]
                 [] OTHER -> groups
    /\ manifest' = IF rec.type = "manifest_summary" THEN rec.seq ELSE seq
    /\ prevDefinition' = DefinitionNow(rec)
    /\ \/ /\ rec.type \in InstrumentScoped
          /\ Send(ToOne(rec.inst, rec))
       \/ /\ rec.type = "strike_interval"
          /\ Send(IF \E def \in defs : Pairs(def, rec)
                  THEN ToOne(rec.inst, rec) ELSE ToNone)
       \/ /\ rec.type = "snapshot_level"
          /\ Send(RouteLevel(rec, groups[rec.ch]))
       \/ /\ rec.type = "batch_boundary"
          /\ Send(ToAll([kind |-> "boundary"]))
       \/ /\ rec.type = "heartbeat"
          /\ Send(ToNone)
       \/ /\ rec.type = "manifest_summary"
          /\ Send(RouteManifest(rec, seq))
       \/ /\ rec.type = "end_of_session"
          /\ pc' = "fence" /\ current' = {rec} /\ todo' = ToNone
          /\ unsent' = Drained(rec) /\ acks' = {}

SameEra(rec) == \A c \in resetCount[rec.ch] : c = rec.rc

Dispatch(rec) ==
    /\ pc = "read" /\ nread < MaxRecords
    /\ nread' = nread + 1
    /\ UNCHANGED <<inbox, epoch, shardVars>>
    /\ \/ /\ SameEra(rec)
          /\ resetCount' = [resetCount EXCEPT ![rec.ch] = {rec.rc}]
          /\ Classify(rec, open, manifest, prevDefinition)
       \/ /\ ~SameEra(rec) /\ epoch[rec.ch] < MaxBarriers
          /\ pc' = "barrier" /\ current' = {rec}
          /\ unsent' = Drained(rec) /\ acks' = {}
          /\ prevDefinition' = {}
          /\ UNCHANGED <<resetCount, manifest, open, todo>>

HasRoom(s) == Len(inbox[s]) < InboxCap

(* Coordinator.send and the broadcasts: a full inbox blocks the read loop. *)
(* The sends of one Dispatch are to different shards, one message each, so *)
(* their order, which the code fixes, does not matter: any is allowed.     *)
SendNext(s) ==
    /\ pc = "send" /\ todo[s] # <<>> /\ HasRoom(s)
    /\ inbox' = [inbox EXCEPT ![s] = @ \o todo[s]]
    /\ todo' = [todo EXCEPT ![s] = <<>>]
    /\ pc' = IF todo' = ToNone THEN "read" ELSE "send"
    /\ UNCHANGED <<current, unsent, acks, readVars, shardVars>>

(* Mutant: the reader's type assertion no longer finds OnDisconnect.       *)
DisconnectUnnoticed ==
    /\ pc = "read" /\ nread < MaxRecords
    /\ nread' = nread + 1
    /\ UNCHANGED <<resetCount, manifest, open, prevDefinition, epoch, waitVars,
                   inbox, shardVars>>

(* The socket broke: the open groups are dropped, every shadow is cleared. *)
OnDisconnect ==
    /\ pc = "read" /\ nread < MaxRecords
    /\ nread' = nread + 1
    /\ open' = [c \in Channel |-> {}] /\ prevDefinition' = {}
    /\ Send(ToAll([kind |-> "clear_shadows"]))
    /\ UNCHANGED <<resetCount, manifest, epoch, inbox, shardVars>>

-----------------------------------------------------------------------------
(* The reset barrier and the fence.                                        *)

BarrierSend(s) ==
    /\ pc \in {"barrier", "fence"} /\ s \in unsent /\ HasRoom(s)
    /\ inbox' = [inbox EXCEPT ![s] = Append(@,
           [kind |-> IF pc = "barrier" THEN "reset" ELSE "fence",
            ch |-> (CHOOSE r \in current : TRUE).ch])]
    /\ unsent' = unsent \ {s}
    /\ UNCHANGED <<pc, current, todo, acks, readVars, shardVars>>

(* Mutant: one acknowledgement is enough.                                  *)
AckedByOne == acks # {}

AllAcked == acks = Shard

(* The barrier's tail: the channel starts over and the record that brought *)
(* the new count is dispatched as its first.                               *)
FinishBarrier ==
    /\ pc = "barrier" /\ AllAcked
    /\ \E rec \in current :
          /\ resetCount' = [resetCount EXCEPT ![rec.ch] = {rec.rc}]
          /\ epoch' = [epoch EXCEPT ![rec.ch] = @ + 1]
          /\ Classify(rec, [open EXCEPT ![rec.ch] = {}], 0, {})
    /\ UNCHANGED <<inbox, nread, shardVars>>

FinishFence ==
    /\ pc = "fence" /\ AllAcked
    /\ pc' = "read" /\ current' = {}
    /\ UNCHANGED <<todo, unsent, acks, readVars, inbox, shardVars>>

-----------------------------------------------------------------------------
(* Shard.Run: one message at a time, in order.                             *)

(* A begin opens a shadow or is declined, which MbpShard decides; a level  *)
(* joins only a shadow of its own Snapshot ID; an end closes any shadow.   *)
HandleSnapshotRecord(rec, k) ==
    \/ /\ rec.type = "snapshot_begin"
       /\ \/ shadow' = [shadow EXCEPT ![k] = {[id |-> rec.id, of |-> {}]}]
          \/ UNCHANGED shadow
    \/ /\ rec.type = "snapshot_level"
       /\ shadow' = [shadow EXCEPT ![k] =
              {IF sh.id = rec.id THEN [sh EXCEPT !.of = @ \cup {rec.of}] ELSE sh :
                   sh \in shadow[k]}]
    \/ /\ rec.type \in {"snapshot_end", "instrument_reset"}
       /\ shadow' = [shadow EXCEPT ![k] = {}]
    \/ /\ rec.type \in {"level_update", "instrument_definition", "strike_interval"}
       /\ UNCHANGED shadow

HandleRecord(msg) ==
    LET k == msg.inst
    IN  /\ applied' = [applied EXCEPT ![k] = @ \cup {msg.epoch}]
        /\ HandleSnapshotRecord(msg.rec, k)
        /\ refdata' = IF msg.rec.type = "instrument_definition"
                      THEN [refdata EXCEPT ![k] = {msg.rec.seq}] ELSE refdata
        /\ UNCHANGED acks

Forget(gone) ==
    /\ applied' = [k \in Inst |-> IF k \in gone THEN {} ELSE applied[k]]
    /\ shadow' = [k \in Inst |-> IF k \in gone THEN {} ELSE shadow[k]]
    /\ refdata' = [k \in Inst |-> IF k \in gone THEN {} ELSE refdata[k]]

Owned(s) == {k \in Inst : ShardOf[k] = s}

(* Mutant: only the instruments with a definition are wiped, the ones a    *)
(* prune would find.                                                       *)
WipedIfDefined(s, ch) ==
    {k \in Owned(s) : ChannelOf[k] = ch /\ refdata[k] # {}}

Wiped(s, ch) == {k \in Owned(s) : ChannelOf[k] = ch}

Pruned(s, seq) ==
    {k \in Owned(s) : seq > 1 /\ \E n \in refdata[k] : n < seq - 1}

HandleControl(s, msg) ==
    \/ /\ msg.kind = "reset"
       /\ Forget(Wiped(s, msg.ch))
       /\ acks' = acks \cup {s}
    \/ /\ msg.kind = "fence"
       /\ acks' = acks \cup {s}
       /\ UNCHANGED shardVars
    \/ /\ msg.kind = "prune"
       /\ Forget(Pruned(s, msg.seq))
       /\ UNCHANGED acks
    \/ /\ msg.kind = "clear_shadows"
       /\ shadow' = [k \in Inst |-> IF k \in Owned(s) THEN {} ELSE shadow[k]]
       /\ UNCHANGED <<applied, refdata, acks>>
    \/ /\ msg.kind = "boundary"
       /\ UNCHANGED <<shardVars, acks>>

Run(s) ==
    /\ inbox[s] # <<>>
    /\ LET msg == Head(inbox[s])
       IN  \/ msg.kind = "record" /\ HandleRecord(msg)
           \/ HandleControl(s, msg)
    /\ inbox' = [inbox EXCEPT ![s] = Tail(@)]
    /\ UNCHANGED <<pc, current, todo, unsent, readVars>>

-----------------------------------------------------------------------------

Init ==
    /\ resetCount = [c \in Channel |-> {}]
    /\ manifest = 0
    /\ open = [c \in Channel |-> {}] /\ prevDefinition = {}
    /\ pc = "read" /\ current = {} /\ todo = ToNone /\ unsent = {} /\ acks = {}
    /\ inbox = [s \in Shard |-> <<>>]
    /\ epoch = [c \in Channel |-> 0]
    /\ applied = [k \in Inst |-> {}]
    /\ shadow = [k \in Inst |-> {}]
    /\ refdata = [k \in Inst |-> {}]
    /\ nread = 0

Coordinate ==
    \/ \E s \in Shard : SendNext(s) \/ BarrierSend(s)
    \/ FinishBarrier
    \/ FinishFence

Next ==
    \/ \E rec \in Records : Dispatch(rec)
    \/ OnDisconnect
    \/ Coordinate
    \/ \E s \in Shard : Run(s)

(* Goroutines are scheduled: one that can run does, and one blocked on a   *)
(* channel runs once the channel has room.  Nothing obliges the socket to  *)
(* deliver another record.                                                 *)
Fairness == WF_vars(Coordinate) /\ \A s \in Shard : WF_vars(Run(s))

Spec == Init /\ [][Next]_vars /\ Fairness

-----------------------------------------------------------------------------
(* Properties.                                                             *)

CoordinatorTypeOK ==
    /\ resetCount \in [Channel -> SUBSET {r.rc : r \in Records}]
    /\ manifest \in Nat
    /\ pc \in {"read", "send", "barrier", "fence"}
    /\ current \subseteq Records
    /\ unsent \subseteq Shard /\ acks \subseteq Shard
    /\ \A s \in Shard : Len(inbox[s]) <= InboxCap
    /\ epoch \in [Channel -> 0 .. MaxBarriers]
    /\ nread \in 0 .. MaxRecords

(* An instrument's state never mixes two eras of its channel: every record *)
(* in it was dispatched after the same wipe.  The barrier is what orders   *)
(* the wipe after every record of the old era on every shard and before    *)
(* every record of the new one, although it reaches each shard through a   *)
(* goroutine of its own.                                                   *)
OneEraPerBook ==
    \A k \in Inst : Cardinality(applied[k]) <= 1

(* When the read loop goes on after a barrier, nothing of the channel's    *)
(* old era, neither a record nor a prune, is left in an inbox to be        *)
(* applied to the new one.                                                 *)
BarrierDrains ==
    pc \in {"read", "send"} =>
        \A s \in Shard : \A n \in 1 .. Len(inbox[s]) :
            inbox[s][n].kind \in {"record", "prune"} =>
                inbox[s][n].epoch = epoch[inbox[s][n].ch]

(* A strike that reaches a shard finds the definition it was sent behind:  *)
(* no prune and no wipe comes between the two ("unreachable from the       *)
(* socket", applyStrikeInterval).                                          *)
StrikeFindsDefinition ==
    \A s \in Shard :
        (inbox[s] # <<>> /\ Head(inbox[s]).kind = "record"
                        /\ Head(inbox[s]).rec.type = "strike_interval")
            => refdata[Head(inbox[s]).inst] # {}

(* A snapshot level is filed with its own instrument or with none.         *)
LevelsGoHome ==
    \A k \in Inst : \A sh \in shadow[k] : sh.of \subseteq {k}

(* Records reach what they belong to: a strike its definition, a level the *)
(* group it was sent in.                                                   *)
RecordsGoHome == CoordinatorTypeOK /\ StrikeFindsDefinition /\ LevelsGoHome

(* Nobody waits on everybody: Dispatch returns, whatever is queued, even   *)
(* through a barrier or a fence that finds every inbox full.               *)
DispatchReturns == (pc # "read") ~> (pc = "read")
=============================================================================
