------------------------------- MODULE MbpFeed -------------------------------
(***************************************************************************)
(* The market-by-price feed end to end: the publisher's send path, a       *)
(* network that loses, delays, reorders and repeats datagrams, and a       *)
(* subscriber made of the parser's record stream, the coordinator's open   *)
(* snapshot group and one shard of the book-builder.                       *)
(*                                                                         *)
(* Source: MbpPublisher and MbpShard for the two ends;                     *)
(* go/marketbyprice-parser/runner.go, go/internal/sink/socket.go and       *)
(* go/marketbyprice-bot/{bot,coordinator}.go between them.  The parser     *)
(* writes the records of a datagram as one batch, so datagrams do not      *)
(* interleave; a full client queue drops a whole batch, which is loss.     *)
(* The coordinator's inboxes are FIFO, so routing a record and handling it *)
(* are one step here.                                                      *)
(***************************************************************************)
EXTENDS MbpShard, MbpPublisher

CONSTANT
    DuplicateSnapshots   \* may the network repeat a snapshot datagram?

(* The shard's alphabet holds what the publisher can put on the wire.      *)
ASSUME FeedAssumption ==
    /\ 0 .. MaxMktdataSeq \subseteq MktdataSeqs
    /\ 1 .. MaxDeltas \subseteq InstrumentSeqs
    /\ [id : 0 .. MaxSnapshots - 1, anchor : 0 .. MaxMktdataSeq,
        total : 0 .. Cardinality(Side \X Price), last : 0 .. MaxDeltas]
           \subseteq SnapshotBegins
    /\ Cardinality(Side \X Price) <= MaxLevels
    /\ DuplicateSnapshots \in BOOLEAN

VARIABLES
    inbox,       \* the records of the datagram being dispatched
    group,       \* Coordinator.open of this channel: {} or one open group
    delivered,   \* history: the snapshot datagrams already delivered
    bookGen,     \* history: the generation of the snapshot each book started from
    seenGen,     \* history: the reset each instrument handled last
    toldGen      \* history: the latest reset each instrument was told of

netVars == <<inbox, group, delivered, bookGen, seenGen, toldGen>>
feedVars == <<shardVars, pubVars, netVars>>

-----------------------------------------------------------------------------
(* The publisher never reads the subscriber, so its steps may be taken     *)
(* between two datagrams without losing a behaviour.                       *)
Quiet == Idle /\ inbox = <<>>

Publish ==
    /\ Quiet
    /\ PubNext
    /\ UNCHANGED <<shardVars, netVars>>

(* The network hands the subscriber a datagram that was sent, in any order *)
(* and any number of times; one it never hands over is lost.               *)
Deliver(d) ==
    /\ Quiet
    /\ inbox' = d.recs
    /\ UNCHANGED <<shardVars, pubVars, group, bookGen, seenGen, toldGen>>

DeliverMktdata == \E d \in mktdata : Deliver(d) /\ UNCHANGED delivered

DeliverSnapshot ==
    \E d \in snapshots :
        /\ DuplicateSnapshots \/ d \notin delivered
        /\ Deliver(d)
        /\ delivered' = delivered \cup {d}

DeltaOf(r) == [inst |-> r.inst, mkt |-> r.mkt, pi |-> r.pi, op |-> r.op]

DispatchDelta(r) ==
    /\ ApplyDelta(DeltaOf(r))
    /\ UNCHANGED <<group, bookGen, seenGen, toldGen>>

DispatchReset(r) ==
    /\ ApplyInstrumentReset(r.inst, r.anchor)
    /\ seenGen' = [seenGen EXCEPT ![r.inst] = r.gen]
    /\ toldGen' = [toldGen EXCEPT ![r.inst] = IF r.gen > @ THEN r.gen ELSE @]
    /\ UNCHANGED <<group, bookGen>>

DispatchSnapshotBegin(r) ==
    /\ group' = {[inst |-> r.inst, id |-> r.id]}
    /\ ApplySnapshotBegin(r.inst, [id |-> r.id, anchor |-> r.anchor,
                                   total |-> r.total, last |-> r.last])
    /\ UNCHANGED <<bookGen, seenGen, toldGen>>

(* Mutant: a level goes to the open group whatever its Snapshot ID.        *)
LevelToAnyGroup(r) ==
    /\ \/ /\ group = {}
          /\ Idle /\ UNCHANGED shardVars
       \/ \E g \in group : ApplySnapshotLevel(g.inst, g.id, r.side, r.price, r.qty)
    /\ UNCHANGED <<group, bookGen, seenGen, toldGen>>

(* A level names no instrument: it goes to the open group with its id, and *)
(* is discarded without one.                                               *)
DispatchSnapshotLevel(r) ==
    /\ \/ /\ \A g \in group : g.id # r.id
          /\ Idle /\ UNCHANGED shardVars
       \/ \E g \in group :
             g.id = r.id /\ ApplySnapshotLevel(g.inst, r.id, r.side, r.price, r.qty)
    /\ UNCHANGED <<group, bookGen, seenGen, toldGen>>

GenOf(id) == (CHOOSE d \in snapshots : d.id = id).gen

DispatchSnapshotEnd(r) ==
    /\ ApplySnapshotEnd(r.inst, r.id, r.anchor)
    /\ group' = {}
    /\ bookGen' = IF \E s \in instruments[r.inst].OpenSnapshot :
                        Committable(instruments[r.inst], s, r.id, r.anchor)
                  THEN [bookGen EXCEPT ![r.inst] = GenOf(r.id)] ELSE bookGen
    /\ UNCHANGED <<seenGen, toldGen>>

(* Coordinator.Dispatch of the next record of the datagram.                *)
Dispatch ==
    /\ inbox # <<>>
    /\ LET r == Head(inbox)
       IN  \/ r.type = "delta" /\ DispatchDelta(r)
           \/ r.type = "instrument_reset" /\ DispatchReset(r)
           \/ r.type = "snapshot_begin" /\ DispatchSnapshotBegin(r)
           \/ r.type = "snapshot_level" /\ DispatchSnapshotLevel(r)
           \/ r.type = "snapshot_end" /\ DispatchSnapshotEnd(r)
    /\ inbox' = Tail(inbox)
    /\ UNCHANGED <<pubVars, delivered>>

(* Mutant: the backlogs are dropped with the shadows, but not counted off. *)
DisconnectDropsBacklog ==
    /\ Idle
    /\ instruments' = [k \in Inst |-> [instruments[k] EXCEPT !.OpenSnapshot = {}]]
    /\ deltaBuf' = [k \in Inst |-> <<>>]
    /\ inbox' = <<>> /\ group' = {}
    /\ UNCHANGED <<known, refdata, bufferedN, crossVars, loopVars,
                   pubVars, delivered, bookGen, seenGen, toldGen>>

(* The socket to the parser broke, possibly inside a batch: what was not   *)
(* read is lost, the open group and every shadow are dropped.              *)
OnDisconnect ==
    /\ ClearShadows
    /\ inbox' = <<>> /\ group' = {}
    /\ UNCHANGED <<pubVars, delivered, bookGen, seenGen, toldGen>>

FeedInit ==
    /\ ShardInit
    /\ PubInit
    /\ inbox = <<>> /\ group = {} /\ delivered = {}
    /\ bookGen = [k \in Inst |-> 0]
    /\ seenGen = [k \in Inst |-> 0]
    /\ toldGen = [k \in Inst |-> 0]

FeedNext ==
    \/ Publish
    \/ DeliverMktdata
    \/ DeliverSnapshot
    \/ Dispatch
    \/ OnDisconnect
    \/ HandlerStep /\ UNCHANGED <<pubVars, netVars>>

FeedSpec == FeedInit /\ [][FeedNext]_feedVars

-----------------------------------------------------------------------------
(* Properties.                                                             *)

(* Under the coordinator's routing, its disconnects and any delivery, the  *)
(* shard still takes only steps of MbpShard: one handler at a time, each   *)
(* started with the mutex free.  What is proved of ShardSpec holds here.   *)
ImplementsShard == ShardSpec

(* A book the subscriber calls ready is the book the publisher's adapter   *)
(* held when the snapshot it started from was captured, changed by exactly *)
(* the deltas up to the last one applied, each once and in order: whatever *)
(* was lost, repeated, reordered, evicted, malformed or cut by a           *)
(* disconnect in between.                                                  *)
ReadyBookIsTruth ==
    \A k \in Inst : (Ready(k) /\ busy # k) =>
        instruments[k].Book =
            truth[k][bookGen[k]][instruments[k].LastAppliedInstrumentSeq]

(* A subscriber that handled a reset is ready on an earlier book only      *)
(* through a snapshot of it that carries the very anchor of the reset.     *)
(* Every snapshot with an older anchor is refused, whatever order the      *)
(* reset, the snapshots and the deltas arrive in (SnapshotAcceptable).     *)
(* The reset that counts is the one handled last: Reset overwrites         *)
(* RequiredAnchorSeq, see ResetNeverForgotten.                             *)
ResetAnchors(k, g) ==
    {r.anchor : r \in {x \in Records(mktdata) :
        x.type = "instrument_reset" /\ x.inst = k /\ x.gen = g}}

SnapshotAnchors(k, g) ==
    {r.anchor : r \in {x \in Records({d \in snapshots : d.gen = g}) :
        x.type = "snapshot_begin" /\ x.inst = k}}

DiscardedOnlyAtAnchor ==
    \A k \in Inst : (Ready(k) /\ bookGen[k] < seenGen[k]) =>
        SnapshotAnchors(k, bookGen[k]) \cap ResetAnchors(k, seenGen[k]) # {}

(* The same of the latest reset the subscriber was told of, which is what  *)
(* applyInstrumentReset records the anchor for: the pre-reset snapshot it  *)
(* exists to invalidate must not commit.  An older reset that arrives late *)
(* lowers the requirement, and such a snapshot does.                       *)
ResetNeverForgotten ==
    \A k \in Inst : (Ready(k) /\ bookGen[k] < toldGen[k]) =>
        SnapshotAnchors(k, bookGen[k]) \cap ResetAnchors(k, toldGen[k]) # {}
=============================================================================
