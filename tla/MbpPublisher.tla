---------------------------- MODULE MbpPublisher -----------------------------
(***************************************************************************)
(* The market-by-price send path of the publisher, for the instruments of  *)
(* one shard and so one mktdata channel: lowering, per-instrument          *)
(* numbering, packing into datagrams, per-instrument resets, and the two   *)
(* kinds of snapshot.                                                      *)
(*                                                                         *)
(* Source: rust/publisher/dz-publisher-lowering/src/{seq,depth,snapshot}.rs,*)
(* dz-publisher-egress/src/{egress,sequencer}.rs and                       *)
(* dz-publisher-runtime/src/{publisher,pipeline,run}.rs.                   *)
(*                                                                         *)
(* Every action runs with the publisher and the adapter borrowed, so an    *)
(* adapter's change of its book and the lowering of it are one step.  A    *)
(* datagram that was handed to the sink is in `mktdata' or `snapshots' for *)
(* ever; whether, when and how often it arrives is the network's.  Time,   *)
(* metrics, trades and reference data are left out: none of them touches   *)
(* this state (an idle heartbeat does, and is here).  Inst is the set of   *)
(* instruments published on the channel.                                   *)
(***************************************************************************)
EXTENDS MbpBook, Sequences, FiniteSets

CONSTANTS
    Books,           \* the books an adapter may hold after a resync
    DatagramCap,     \* how many deltas fit one mktdata datagram
    SnapshotCap,     \* how many messages fit one snapshot datagram
    SendOutcomes,    \* what a sink may answer: TRUE, or FALSE for a refused send
    Heartbeats,      \* are heartbeats sent?
    MaxMktdataSeq,   \* bound: mktdata datagrams
    MaxDeltas,       \* bound: deltas per instrument
    MaxSnapshots,    \* bound: snapshots
    MaxResets        \* bound: resets per instrument

ASSUME PublisherAssumption ==
    /\ Ops \subseteq {op \in Op : ~Malformed(op)}
    /\ Books \subseteq Book
    /\ IsFiniteSet(Price)               \* a price is an i64 mantissa
    /\ DatagramCap \in Nat \ {0} /\ SnapshotCap \in Nat \ {0}
    /\ SendOutcomes \subseteq BOOLEAN /\ Heartbeats \in BOOLEAN
    /\ {MaxMktdataSeq, MaxDeltas, MaxSnapshots, MaxResets} \subseteq Nat

VARIABLES
    mktSeq,         \* Sequencer::current of the mktdata channel: the next number
    open,           \* Egress.open: the messages of the datagram being packed
    last,           \* PerInstrumentSeq.last
    book,           \* the adapter's book
    owed,           \* Publisher.owed: the anchor promised by each reset
    nextSnapshotId, \* DepthLowering.next_snapshot_id
    mktdata,        \* history: the mktdata datagrams that were sent
    snapshots,      \* history: the snapshot datagrams that were sent
    gen,            \* history: how often the adapter replaced each book
    truth           \* history: the book of generation g after delta n

pubVars == <<mktSeq, open, last, book, owed, nextSnapshotId,
             mktdata, snapshots, gen, truth>>

DeltaMsg(k, n, op) ==
    [type |-> "delta", inst |-> k, mkt |-> mktSeq, pi |-> n, op |-> op]
ResetMsg(k, anchor) ==
    [type |-> "instrument_reset", inst |-> k, anchor |-> anchor, gen |-> gen[k] + 1]

-----------------------------------------------------------------------------
(* The mktdata egress.                                                     *)

(* Egress::flush_inner: an empty datagram is not sent and spends no number; *)
(* the number is spent before the send, so a refused send loses it.        *)
Flushed(ok) ==
    IF open # <<>> /\ ok
    THEN mktdata \cup {[seq |-> mktSeq, recs |-> open]} ELSE mktdata

(* Mutant: a flush does not advance the sequencer.                         *)
SeqNotAdvanced == mktSeq

SeqAfterFlush == IF open = <<>> THEN mktSeq ELSE mktSeq + 1

(* Egress::push_inner: a full datagram is flushed first, and a refused     *)
(* flush drops the message with it.  The message's datagram number is that *)
(* of the datagram it ends up in.                                          *)
Push(k, op, ok) ==
    LET n == last[k] + 1
        msg == [DeltaMsg(k, n, op) EXCEPT !.mkt =
                    IF Len(open) < DatagramCap THEN mktSeq ELSE mktSeq + 1]
    IN  \/ /\ Len(open) < DatagramCap
           /\ open' = Append(open, msg)
           /\ UNCHANGED <<mktSeq, mktdata>>
        \/ /\ Len(open) >= DatagramCap
           /\ mktdata' = Flushed(ok)
           /\ mktSeq' = SeqAfterFlush
           /\ open' = IF ok THEN <<msg>> ELSE <<>>

(* Event::Level and Event::Clear: lowered, stamped, packed.  The stamp is  *)
(* spent even when the pack fails.                                         *)
Emit(k, op, ok) ==
    /\ last[k] < MaxDeltas
    /\ last' = [last EXCEPT ![k] = @ + 1]
    /\ book' = [book EXCEPT ![k] = ApplyOp(@, op)]
    /\ truth' = [truth EXCEPT ![k] = [g \in DOMAIN @ |->
                    [@[g] EXCEPT ![last[k] + 1] = ApplyOp(truth[k][g][last[k]], op)]]]
    /\ Push(k, op, ok)
    /\ UNCHANGED <<owed, nextSnapshotId, snapshots, gen>>

(* flush_live and flush_expired_live.                                      *)
FlushLive(ok) ==
    /\ open # <<>>
    /\ mktdata' = Flushed(ok)
    /\ mktSeq' = SeqAfterFlush
    /\ open' = <<>>
    /\ UNCHANGED <<last, book, owed, nextSnapshotId, snapshots, gen, truth>>

(* send_heartbeat on an idle channel: a datagram with nothing for a book.  *)
(* With something packed a heartbeat sends that instead, which is          *)
(* FlushLive.                                                              *)
SendHeartbeat ==
    /\ Heartbeats /\ open = <<>>
    /\ mktSeq' = mktSeq + 1
    /\ UNCHANGED <<open, last, book, owed, nextSnapshotId,
                   mktdata, snapshots, gen, truth>>

-----------------------------------------------------------------------------
(* Resets and snapshots.                                                   *)

(* Mutant: the anchor skips the number the next datagram will take.        *)
AnchorOneLate == SeqAfterFlush + 1

(* FeedPipeline::anchor_sequence: sends the open datagram, then the number *)
(* the next one will take.                                                 *)
AnchorSequence == SeqAfterFlush

(* Publisher::desynchronised: the adapter gave up its book of k.  The open *)
(* datagram leaves first, the reset is alone in the next one, anchored at  *)
(* that datagram's own number, and the snapshot is owed only if it left.   *)
(* The per-instrument series is not touched.                               *)
Desynchronised(k, newBook, okOpen, okReset) ==
    LET reset == [seq |-> SeqAfterFlush, recs |-> <<ResetMsg(k, AnchorSequence)>>]
    IN  /\ gen[k] < MaxResets
        /\ gen' = [gen EXCEPT ![k] = @ + 1]
        /\ book' = [book EXCEPT ![k] = newBook]
        /\ truth' = [truth EXCEPT ![k][gen[k] + 1][last[k]] = newBook]
        /\ mktSeq' = SeqAfterFlush + 1
        /\ open' = <<>>
        /\ mktdata' = Flushed(okOpen) \cup (IF okReset THEN {reset} ELSE {})
        /\ owed' = IF okReset THEN owed \cup {<<k, AnchorSequence>>} ELSE owed
        /\ UNCHANGED <<last, nextSnapshotId, snapshots>>

(* The levels of a book in the order the adapter walks them.               *)
OrderedLevels(b) ==
    CHOOSE s \in [1 .. Cardinality(Levels(b)) -> Levels(b)] :
        \A m, n \in DOMAIN s : s[m] = s[n] => m = n

(* Mutant: after a reset the begin declares a series that starts over.     *)
SnapshotGroupRestarted(k, id, anchor) ==
    LET levels == OrderedLevels(book[k])
    IN  <<[type |-> "snapshot_begin", inst |-> k, id |-> id, anchor |-> anchor,
           total |-> Len(levels), last |-> IF gen[k] > 0 THEN 0 ELSE last[k]]>>
        \o [n \in DOMAIN levels |->
               [type |-> "snapshot_level", id |-> id, side |-> levels[n][1],
                price |-> levels[n][2], qty |-> book[k][levels[n]]]]
        \o <<[type |-> "snapshot_end", inst |-> k, id |-> id, anchor |-> anchor]>>

(* SnapshotFramer: begin, one message per resting level, end.  The begin   *)
(* declares the levels that were written and the last number stamped.      *)
SnapshotGroup(k, id, anchor) ==
    LET levels == OrderedLevels(book[k])
    IN  <<[type |-> "snapshot_begin", inst |-> k, id |-> id, anchor |-> anchor,
           total |-> Len(levels), last |-> last[k]]>>
        \o [n \in DOMAIN levels |->
               [type |-> "snapshot_level", id |-> id, side |-> levels[n][1],
                price |-> levels[n][2], qty |-> book[k][levels[n]]]]
        \o <<[type |-> "snapshot_end", inst |-> k, id |-> id, anchor |-> anchor]>>

(* send_snapshot: packed in order into as few datagrams as hold the group. *)
Packed(group, id, g) ==
    {[id |-> id, gen |-> g, part |-> n,
      recs |-> SubSeq(group, (n - 1) * SnapshotCap + 1,
                      IF n * SnapshotCap < Len(group) THEN n * SnapshotCap
                                                      ELSE Len(group))] :
        n \in {m \in 1 .. Len(group) : (m - 1) * SnapshotCap < Len(group)}}

(* capture_and_send.  A send that fails partway leaves a prefix of the     *)
(* group on the wire, which is the group with its tail lost.               *)
CaptureAndSend(k, anchor) ==
    /\ nextSnapshotId < MaxSnapshots
    /\ nextSnapshotId' = nextSnapshotId + 1
    /\ snapshots' = snapshots \cup
           Packed(SnapshotGroup(k, nextSnapshotId, anchor), nextSnapshotId, gen[k])

(* periodic_snapshot: the rotation's turn, anchored where the feed is now. *)
PeriodicSnapshot(k, okOpen) ==
    /\ CaptureAndSend(k, AnchorSequence)
    /\ mktdata' = Flushed(okOpen)
    /\ mktSeq' = SeqAfterFlush
    /\ open' = <<>>
    /\ UNCHANGED <<last, book, owed, gen, truth>>

(* Mutant: the oldest anchor of an instrument owed twice is kept.          *)
OldestOwed == {e \in owed : \A f \in owed : f[1] = e[1] => e[2] <= f[2]}

(* owed_snapshots: one entry per instrument, the latest anchor.            *)
LatestOwed == {e \in owed : \A f \in owed : f[1] = e[1] => f[2] <= e[2]}

(* The tick's drain, one instrument at a time in any order.  Whatever else *)
(* was owed to k goes with it, and a capture the adapter refuses is not    *)
(* retried.                                                                *)
ServeOwed(k, refused) ==
    \E e \in LatestOwed :
        /\ e[1] = k
        /\ owed' = {f \in owed : f[1] # k}
        /\ IF refused THEN UNCHANGED <<nextSnapshotId, snapshots>>
                      ELSE CaptureAndSend(k, e[2])
        /\ UNCHANGED <<mktSeq, open, last, book, mktdata, gen, truth>>

-----------------------------------------------------------------------------

Generations == 0 .. MaxResets

(* An adapter that has bootstrapped: a first book, and no delta sent yet.  *)
PubInit ==
    /\ mktSeq = 0 /\ open = <<>>
    /\ last = [k \in Inst |-> 0]
    /\ owed = {} /\ nextSnapshotId = 0
    /\ mktdata = {} /\ snapshots = {}
    /\ gen = [k \in Inst |-> 0]
    /\ book \in [Inst -> Books]
    /\ truth = [k \in Inst |-> [g \in Generations |-> [n \in 0 .. MaxDeltas |->
                  IF g = 0 /\ n = 0 THEN book[k] ELSE EmptyBook]]]

(* No step spends more than two numbers.                                   *)
Room == mktSeq + 2 <= MaxMktdataSeq

PubNext ==
    /\ Room
    /\ \/ \E k \in Inst, op \in Ops, ok \in SendOutcomes : Emit(k, op, ok)
       \/ \E ok \in SendOutcomes : FlushLive(ok)
       \/ SendHeartbeat
       \/ \E k \in Inst, b \in Books, okOpen, okReset \in SendOutcomes :
             Desynchronised(k, b, okOpen, okReset)
       \/ \E k \in Inst, ok \in SendOutcomes : PeriodicSnapshot(k, ok)
       \/ \E k \in Inst, refused \in BOOLEAN : ServeOwed(k, refused)

PubSpec == PubInit /\ [][PubNext]_pubVars

-----------------------------------------------------------------------------
(* Properties.                                                             *)

Records(datagrams) == UNION {{d.recs[n] : n \in DOMAIN d.recs} : d \in datagrams}
Deltas == {r \in Records(mktdata) : r.type = "delta"}
Begins == {r \in Records(snapshots) : r.type = "snapshot_begin"}
OpenDeltas == {open[n] : n \in DOMAIN open}

PubTypeOK ==
    /\ mktSeq \in Nat /\ nextSnapshotId \in Nat
    /\ last \in [Inst -> 0 .. MaxDeltas]
    /\ book \in [Inst -> Book]
    /\ owed \subseteq Inst \X Nat
    /\ gen \in [Inst -> Generations]
    /\ truth \in [Inst -> [Generations -> [0 .. MaxDeltas -> Book]]]
    /\ Len(open) <= DatagramCap

(* A channel number names one datagram, and an instrument's own numbers    *)
(* climb with the channel's: a delta number names one delta, and a later   *)
(* delta is never in an earlier datagram.  A subscriber orders its backlog *)
(* by channel number alone, so a failed send, a full datagram or a reset   *)
(* must not make the two orders disagree.                                  *)
ChannelOrder ==
    /\ PubTypeOK
    /\ \A d, e \in mktdata : d.seq = e.seq => d = e
    /\ \A d \in mktdata : d.seq < mktSeq
    /\ \A a, b \in Deltas \cup OpenDeltas : a.inst = b.inst =>
          /\ a.pi = b.pi => a = b
          /\ a.pi < b.pi => a.mkt <= b.mkt

(* The anchor of a snapshot separates what it holds from what it does not: *)
(* a delta the snapshot does not contain is in a datagram numbered at or   *)
(* past the anchor, whatever was packed or lost around the capture.  It is *)
(* what entitles a subscriber to drop everything before the anchor.        *)
AnchorSeparates ==
    \A s \in Begins, d \in Deltas \cup OpenDeltas :
        (d.inst = s.inst /\ d.pi > s.last) => d.mkt >= s.anchor

(* A reset is anchored at the number of its own datagram, and that anchor  *)
(* bounds the snapshots around it: none of the book it discards is         *)
(* anchored past it, and every one of the book that replaced it reaches    *)
(* it, so the promised recovery snapshot is never refused.                 *)
ResetBounds ==
    \A e \in mktdata : \A r \in Records({e}) :
        r.type = "instrument_reset" =>
            /\ r.anchor = e.seq
            /\ \A d \in snapshots : \A s \in Records({d}) :
                  (s.type = "snapshot_begin" /\ s.inst = r.inst) =>
                      /\ d.gen < r.gen => s.anchor <= r.anchor
                      /\ d.gen >= r.gen => s.anchor >= r.anchor
=============================================================================
