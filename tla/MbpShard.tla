------------------------------ MODULE MbpShard -------------------------------
(***************************************************************************)
(* One shard of the market-by-price book-builder: the owner of a set of    *)
(* instruments, their books and the deltas buffered while a book is not    *)
(* usable.  Source: go/marketbyprice-bot/{instrument,shard,dispatch}.go.   *)
(*                                                                         *)
(* Every handler runs to completion under Shard.mu.  A handler that loops  *)
(* (the drain of Pending, the replay of the delta buffer, the re-buffering *)
(* of a demoted instrument's Pending) is modelled by one step per          *)
(* iteration: `busy' names the instrument whose handler holds the mutex,   *)
(* and no other record is accepted until FinishHandler has released it.    *)
(*                                                                         *)
(* A nil *uint64 or *uint32 requirement is 0: the code only ever asks      *)
(* whether a value is below the requirement, and none is below 0.  Display *)
(* data, metrics, logging and the event and snapshot writers are left out. *)
(* Inst is the set of instKeys, the (channel, instrument id) pairs, that   *)
(* hash to this shard.                                                     *)
(***************************************************************************)
EXTENDS MbpBook, Sequences, FiniteSets, TLC

CONSTANTS
    Channel,        \* channel ids
    ChannelOf,      \* [Inst -> Channel], the ch field of an instKey
    ReorderWindow,  \* reorderWindow
    MaxBuffered,    \* Shard.maxBuffered
    MktdataSeqs,    \* the datagram sequence numbers that occur
    InstrumentSeqs, \* the Per-Instrument Seq numbers that occur
    SnapshotBegins, \* the snapshot_begin payloads that occur
    ManifestSeqs,   \* the Manifest Seq numbers that occur
    MaxLevels,      \* bound: how many levels one shadow may receive
    None            \* nil

SnapshotBegin == [id : Nat, anchor : Nat, total : Nat, last : Nat]

ASSUME ShardAssumption ==
    /\ IsFiniteSet(Inst)
    /\ ChannelOf \in [Inst -> Channel]
    /\ ReorderWindow \in Nat
    /\ MaxBuffered \in Nat \ {0}
    /\ MktdataSeqs \subseteq Nat
    /\ InstrumentSeqs \subseteq Nat \ {0}
    /\ Ops \subseteq Op
    /\ SnapshotBegins \subseteq SnapshotBegin
    /\ ManifestSeqs \subseteq Nat
    /\ MaxLevels \in Nat
    /\ None \notin Inst

VARIABLES
    known,              \* the keys of Shard.instruments
    instruments,        \* [Inst -> Instrument]; a fresh one off `known'
    refdata,            \* Shard.refdata: the Manifest Seq of each definition
    deltaBuf,           \* Shard.deltaBuf
    bufferedN,          \* Shard.bufferedN
    sawBatchBoundary,   \* Shard.sawBatchBoundary
    touched,            \* Shard.touched
    crossed,            \* Shard.crossed
    busy,               \* the instrument whose handler is in a loop, or None
    held,               \* demoteMalformed: deltas still to re-buffer
    drain,              \* applyDeltaToReady: in the drain loop
    replay,             \* replayBuffer: entries still to replay
    applied             \* did this handler produce an applied event?

bookVars   == <<known, instruments, refdata>>
bufferVars == <<deltaBuf, bufferedN>>
crossVars  == <<sawBatchBoundary, touched, crossed>>
loopVars   == <<busy, held, drain, replay, applied>>
shardVars  == <<known, instruments, refdata, deltaBuf, bufferedN,
                sawBatchBoundary, touched, crossed,
                busy, held, drain, replay, applied>>

-----------------------------------------------------------------------------
(* Data.                                                                   *)

NoDef == -1

Delta == [inst : Inst, mkt : MktdataSeqs, pi : InstrumentSeqs, op : Ops]

PendingSnapshot ==
    [id : Nat, anchor : Nat, total : Nat, last : Nat,
     received : Nat, book : Book]

(* OpenSnapshot is the set of the open shadow, empty for nil.              *)
Instrument ==
    [Status : {"awaiting", "ready", "gap"},
     Book : Book,
     LastAppliedMktdataSeq : Nat,
     LastAppliedInstrumentSeq : Nat,
     RequiredAnchorSeq : Nat,
     RequiredInstrumentSeq : Nat,
     OpenSnapshot : SUBSET PendingSnapshot,
     Pending : SUBSET Delta,
     LostInstrumentSeq : SUBSET Nat]

NewInstrument ==
    [Status |-> "awaiting",
     Book |-> EmptyBook,
     LastAppliedMktdataSeq |-> 0,
     LastAppliedInstrumentSeq |-> 0,
     RequiredAnchorSeq |-> 0,
     RequiredInstrumentSeq |-> 0,
     OpenSnapshot |-> {},
     Pending |-> {},
     LostInstrumentSeq |-> {}]

Ready(k) == k \in known /\ instruments[k].Status = "ready"

-----------------------------------------------------------------------------
(* Instrument methods.                                                     *)

(* The first number after the tracker that was not classified malformed.   *)
NextExpectedInstrumentSeq(i) ==
    LET n == i.LastAppliedInstrumentSeq + 1
    IN  CHOOSE e \in n .. n + Cardinality(i.LostInstrumentSeq) :
            /\ e \notin i.LostInstrumentSeq
            /\ \A x \in n .. e - 1 : x \in i.LostInstrumentSeq

RequireSnapshotAtLeast(i, seq) ==
    [i EXCEPT !.RequiredInstrumentSeq = IF @ >= seq THEN @ ELSE seq]

PruneLost(lost, last) == {s \in lost : s > last}

(* Shard.applyOne on a well-formed delta.                                  *)
ApplyOne(i, d) ==
    [i EXCEPT !.Book = ApplyOp(@, d.op),
              !.LastAppliedMktdataSeq = d.mkt,
              !.LastAppliedInstrumentSeq = d.pi,
              !.LostInstrumentSeq = PruneLost(@, d.pi)]

SnapshotAcceptable(i, anchor, last) ==
    /\ anchor >= i.RequiredAnchorSeq
    /\ last >= i.RequiredInstrumentSeq
    /\ i.Status = "ready" => last > i.LastAppliedInstrumentSeq

(* Replaces whatever shadow was open.                                      *)
BeginSnapshot(i, b) ==
    [i EXCEPT !.OpenSnapshot =
        {[id |-> b.id, anchor |-> b.anchor, total |-> b.total,
          last |-> b.last, received |-> 0, book |-> EmptyBook]}]

(* A level for another group, or for none, leaves the shadow alone.        *)
AddSnapshotLevel(i, id, side, price, qty) ==
    [i EXCEPT !.OpenSnapshot =
        {IF s.id = id
         THEN [s EXCEPT !.book = [@ EXCEPT ![<<side, price>>] = qty], !.received = @ + 1]
         ELSE s : s \in @}]

(* Mutant: EndSnapshot does not ask again what a demotion required since   *)
(* the group was begun.                                                    *)
CommittableIfWhole(i, s, id, anchor) ==
    s.id = id /\ s.anchor = anchor /\ s.received = s.total

(* The checks EndSnapshot makes before it commits shadow s.                *)
Committable(i, s, id, anchor) ==
    /\ s.id = id /\ s.anchor = anchor
    /\ s.received = s.total
    /\ s.last >= i.RequiredInstrumentSeq

CommitSnapshot(i, s) ==
    [i EXCEPT !.Status = "ready",
              !.Book = s.book,
              !.LastAppliedMktdataSeq = s.anchor,
              !.LastAppliedInstrumentSeq = s.last,
              !.RequiredAnchorSeq = IF s.anchor >= @ THEN 0 ELSE @,
              !.RequiredInstrumentSeq = 0,
              !.OpenSnapshot = {},
              !.Pending = {},
              !.LostInstrumentSeq = PruneLost(@, s.last)]

(* Mutant: the reset does not record its anchor.                           *)
ResetForgetsAnchor(anchor) == NewInstrument

(* Instrument.Reset: everything but the new anchor requirement is fresh.   *)
ResetInstrument(anchor) == [NewInstrument EXCEPT !.RequiredAnchorSeq = anchor]

-----------------------------------------------------------------------------
(* The delta buffer and its budget.                                        *)

(* sort.Search's answer: the first n entries are at or before mkt, every   *)
(* later one is after it.  n = Len(buf) is the append of an in-order delta. *)
SplitsAt(buf, n, mkt) ==
    /\ \A j \in 1 .. n : buf[j].mkt <= mkt
    /\ \A j \in n + 1 .. Len(buf) : buf[j].mkt > mkt

(* Mutant: every delta is appended.                                        *)
AppendAnyway(buf, n, d) == Append(buf, d)

InsertAfter(buf, n, d) ==
    [j \in 1 .. Len(buf) + 1 |->
        IF j <= n THEN buf[j] ELSE IF j = n + 1 THEN d ELSE buf[j - 1]]

MaxPi(low, S) == CHOOSE m \in {low} \cup S : \A x \in {low} \cup S : x <= m

(* evictLargestBuffer's effect on the victim's instrument.                 *)
Evicted(i, buf) ==
    RequireSnapshotAtLeast(
        [i EXCEPT !.Status = "gap", !.Pending = {}],
        MaxPi(i.LastAppliedInstrumentSeq + 1, {buf[j].pi : j \in 1 .. Len(buf)}))

(* Mutant: the evicted deltas stay on the count.                           *)
EvictUncounted(buf, insts) ==
    \E v \in Inst :
        /\ \A u \in Inst : Len(buf[u]) <= Len(buf[v])
        /\ deltaBuf' = [buf EXCEPT ![v] = <<>>]
        /\ bufferedN' = bufferedN + 1
        /\ instruments' = [insts EXCEPT ![v] = Evicted(@, buf[v])]
        /\ known' = known \cup {v}

(* Go's map iteration picks any of the longest buffers.                    *)
EvictLargestBuffer(buf, insts) ==
    \E v \in Inst :
        /\ \A u \in Inst : Len(buf[u]) <= Len(buf[v])
        /\ deltaBuf' = [buf EXCEPT ![v] = <<>>]
        /\ bufferedN' = bufferedN + 1 - Len(buf[v])
        /\ instruments' = [insts EXCEPT ![v] = Evicted(@, buf[v])]
        /\ known' = known \cup {v}

(* Shard.bufferDelta, on top of the instruments `insts' the caller has     *)
(* already changed.                                                        *)
BufferDelta(insts, d) ==
    \E n \in 0 .. Len(deltaBuf[d.inst]) :
        /\ SplitsAt(deltaBuf[d.inst], n, d.mkt)
        /\ LET buf == [deltaBuf EXCEPT ![d.inst] = InsertAfter(@, n, d)]
           IN  \/ /\ bufferedN + 1 <= MaxBuffered
                  /\ deltaBuf' = buf
                  /\ bufferedN' = bufferedN + 1
                  /\ instruments' = insts
                  /\ known' = known
               \/ /\ bufferedN + 1 > MaxBuffered
                  /\ EvictLargestBuffer(buf, insts)

-----------------------------------------------------------------------------
(* The crossed-book monitor.                                               *)

(* Mutant: a book that uncrossed stays in the set.                         *)
EvaluateCrossedOnce(k) ==
    crossed' = IF Crossed(instruments[k].Book) THEN crossed \cup {k} ELSE crossed

EvaluateCrossed(k) ==
    crossed' = IF Crossed(instruments[k].Book) THEN crossed \cup {k}
                                               ELSE crossed \ {k}

(* At a consistency point the book is evaluated, or marked for the next    *)
(* batch boundary once this shard has seen one.                            *)
NoteConsistencyPoint(k) ==
    /\ UNCHANGED sawBatchBoundary
    /\ \/ ~applied /\ UNCHANGED <<touched, crossed>>
       \/ /\ applied /\ sawBatchBoundary
          /\ touched' = touched \cup {k}
          /\ UNCHANGED crossed
       \/ /\ applied /\ ~sawBatchBoundary
          /\ EvaluateCrossed(k)
          /\ UNCHANGED touched

-----------------------------------------------------------------------------
(* applyDeltaToReady: one disjunct per classification of delta d for an    *)
(* instrument whose status is ready.  `rest' is what is left to replay.    *)

Loop(k, hold, draining, rest, ap) ==
    /\ busy' = k /\ held' = hold /\ drain' = draining
    /\ replay' = rest /\ applied' = ap

DiscardStale(d, rest) ==
    /\ d.pi < NextExpectedInstrumentSeq(instruments[d.inst])
    /\ Loop(d.inst, {}, FALSE, rest, applied)
    /\ UNCHANGED <<known, instruments, deltaBuf, bufferedN>>

DemoteMalformed(d, rest) ==
    LET i == instruments[d.inst]
    IN  /\ d.pi >= NextExpectedInstrumentSeq(i)
        /\ Malformed(d.op)
        /\ instruments' = [instruments EXCEPT ![d.inst] =
               RequireSnapshotAtLeast(
                   [i EXCEPT !.Status = "gap",
                             !.LostInstrumentSeq = @ \cup {d.pi},
                             !.Pending = {}],
                   d.pi)]
        /\ Loop(d.inst, i.Pending, FALSE, rest, applied)
        /\ UNCHANGED <<known, deltaBuf, bufferedN>>

(* Pending[d.pi] = d, an entry already held under that number replaced.    *)
WithPending(i, d) == {p \in i.Pending : p.pi # d.pi} \cup {d}

InWindow(i, d) ==
    /\ Cardinality(WithPending(i, d)) <= ReorderWindow
    /\ d.pi - NextExpectedInstrumentSeq(i) <= ReorderWindow

HoldOutOfOrder(d, rest) ==
    LET i == instruments[d.inst]
    IN  /\ d.pi > NextExpectedInstrumentSeq(i)
        /\ ~Malformed(d.op)
        /\ InWindow(i, d)
        /\ instruments' = [instruments EXCEPT ![d.inst].Pending = WithPending(i, d)]
        /\ Loop(d.inst, {}, FALSE, rest, applied)
        /\ UNCHANGED <<known, deltaBuf, bufferedN>>

(* The recovery snapshot must cover the hole before d and every other      *)
(* pending delta, all of which are discarded; d itself is buffered.        *)
DeclareGap(d, rest) ==
    LET i == instruments[d.inst]
        others == {p.pi : p \in {q \in i.Pending : q.pi # d.pi}}
        demoted == RequireSnapshotAtLeast(
                       [i EXCEPT !.Status = "gap", !.Pending = {}],
                       MaxPi(d.pi - 1, others))
    IN  /\ d.pi > NextExpectedInstrumentSeq(i)
        /\ ~Malformed(d.op)
        /\ ~InWindow(i, d)
        /\ BufferDelta([instruments EXCEPT ![d.inst] = demoted], d)
        /\ Loop(d.inst, {}, FALSE, rest, applied)

ApplyContiguous(d, rest) ==
    LET i == instruments[d.inst]
    IN  /\ d.pi = NextExpectedInstrumentSeq(i)
        /\ ~Malformed(d.op)
        /\ instruments' = [instruments EXCEPT ![d.inst] = ApplyOne(i, d)]
        /\ Loop(d.inst, {}, TRUE, rest, TRUE)
        /\ UNCHANGED <<known, deltaBuf, bufferedN>>

ApplyDeltaToReady(d, rest) ==
    /\ \/ DiscardStale(d, rest)
       \/ DemoteMalformed(d, rest)
       \/ HoldOutOfOrder(d, rest)
       \/ DeclareGap(d, rest)
       \/ ApplyContiguous(d, rest)
    /\ UNCHANGED <<refdata, sawBatchBoundary, touched, crossed>>

-----------------------------------------------------------------------------
(* The loops of a handler, in the order the code runs them.                *)

(* demoteMalformed: the held deltas go back to the buffer, in map order.   *)
RebufferHeld ==
    /\ held # {}
    /\ \E d \in held :
          /\ BufferDelta(instruments, d)
          /\ held' = held \ {d}
    /\ UNCHANGED <<refdata, crossVars, busy, drain, replay, applied>>

Drain ==
    LET i == instruments[busy]
        next == {p \in i.Pending : p.pi = NextExpectedInstrumentSeq(i)}
    IN  /\ busy # None /\ drain
        /\ \/ \E p \in next :
                 /\ instruments' = [instruments EXCEPT ![busy] =
                        ApplyOne([i EXCEPT !.Pending = @ \ {p}], p)]
                 /\ UNCHANGED drain
           \/ /\ next = {}
              /\ drain' = FALSE
              /\ UNCHANGED instruments
        /\ UNCHANGED <<known, refdata, bufferVars, crossVars,
                       busy, held, replay, applied>>

(* replayBuffer's loop body.  The tracker it compares with moves as the    *)
(* replayed deltas are applied.                                            *)
ReplaySkips(d) == d.mkt <= instruments[d.inst].LastAppliedMktdataSeq

Replay ==
    LET d == Head(replay)
    IN  /\ busy # None /\ held = {} /\ ~drain /\ replay # <<>>
        /\ \/ /\ ReplaySkips(d)
              /\ replay' = Tail(replay)
              /\ UNCHANGED <<bookVars, bufferVars, crossVars,
                             busy, held, drain, applied>>
           \/ /\ ~ReplaySkips(d)
              /\ ~Ready(d.inst)
              /\ BufferDelta(instruments, d)
              /\ replay' = Tail(replay)
              /\ UNCHANGED <<refdata, crossVars, busy, held, drain, applied>>
           \/ /\ ~ReplaySkips(d)
              /\ Ready(d.inst)
              /\ ApplyDeltaToReady(d, Tail(replay))

FinishHandler ==
    /\ busy # None /\ held = {} /\ ~drain /\ replay = <<>>
    /\ NoteConsistencyPoint(busy)
    /\ busy' = None /\ applied' = FALSE
    /\ UNCHANGED <<bookVars, bufferVars, held, drain, replay>>

HandlerStep == RebufferHeld \/ Drain \/ Replay \/ FinishHandler

-----------------------------------------------------------------------------
(* The handlers of Shard.apply, one per record type, and of Shard.Run's    *)
(* control messages.  Each starts only when no handler holds the mutex.    *)

Idle == busy = None

(* level_update, book_clear.                                               *)
ApplyDelta(d) ==
    /\ Idle
    /\ \/ /\ ~Ready(d.inst)
          /\ BufferDelta(instruments, d)
          /\ UNCHANGED <<refdata, crossVars, loopVars>>
       \/ /\ Ready(d.inst)
          /\ ApplyDeltaToReady(d, <<>>)

ApplyInstrumentDefinition(k, manifestSeq) ==
    /\ Idle
    /\ refdata' = [refdata EXCEPT ![k] = manifestSeq]
    /\ known' = known \cup {k}
    /\ UNCHANGED <<instruments, bufferVars, crossVars, loopVars>>

ApplySnapshotBegin(k, b) ==
    /\ Idle
    /\ known' = known \cup {k}
    /\ instruments' = [instruments EXCEPT ![k] =
           IF SnapshotAcceptable(@, b.anchor, b.last)
           THEN BeginSnapshot(@, b) ELSE @]
    /\ UNCHANGED <<refdata, bufferVars, crossVars, loopVars>>

ApplySnapshotLevel(k, id, side, price, qty) ==
    /\ Idle
    /\ instruments' = [instruments EXCEPT ![k] =
           AddSnapshotLevel(@, id, side, price, qty)]
    /\ UNCHANGED <<known, refdata, bufferVars, crossVars, loopVars>>

(* A refused shadow is dropped and the live book is untouched; a committed *)
(* one replaces it and the instrument's whole buffer is taken for replay.  *)
ApplySnapshotEnd(k, id, anchor) ==
    LET i == instruments[k]
    IN  /\ Idle
        /\ \/ /\ i.OpenSnapshot = {}
              /\ UNCHANGED shardVars
           \/ \E s \in i.OpenSnapshot :
                 /\ ~Committable(i, s, id, anchor)
                 /\ instruments' = [instruments EXCEPT ![k].OpenSnapshot = {}]
                 /\ UNCHANGED <<known, refdata, bufferVars, crossVars, loopVars>>
           \/ \E s \in i.OpenSnapshot :
                 /\ Committable(i, s, id, anchor)
                 /\ instruments' = [instruments EXCEPT ![k] = CommitSnapshot(i, s)]
                 /\ deltaBuf' = [deltaBuf EXCEPT ![k] = <<>>]
                 /\ bufferedN' = bufferedN - Len(deltaBuf[k])
                 /\ Loop(k, {}, FALSE, deltaBuf[k], TRUE)
                 /\ UNCHANGED <<known, refdata, crossVars>>

(* Mutant: the whole buffer is taken off the count.                        *)
KeepAfterUncounted(k, anchor) ==
    \E n \in 0 .. Len(deltaBuf[k]) :
        /\ SplitsAt(deltaBuf[k], n, anchor)
        /\ deltaBuf' = [deltaBuf EXCEPT ![k] = SubSeq(@, n + 1, Len(@))]
        /\ bufferedN' = bufferedN - Len(deltaBuf[k])

(* The buffer keeps only what was sent after the reset's anchor, a suffix  *)
(* of it because it is in datagram order (BuffersSorted).                  *)
KeepAfter(k, anchor) ==
    \E n \in 0 .. Len(deltaBuf[k]) :
        /\ SplitsAt(deltaBuf[k], n, anchor)
        /\ deltaBuf' = [deltaBuf EXCEPT ![k] = SubSeq(@, n + 1, Len(@))]
        /\ bufferedN' = bufferedN - n

ApplyInstrumentReset(k, anchor) ==
    /\ Idle
    /\ known' = known \cup {k}
    /\ instruments' = [instruments EXCEPT ![k] = ResetInstrument(anchor)]
    /\ KeepAfter(k, anchor)
    /\ crossed' = crossed \ {k}
    /\ touched' = touched \ {k}
    /\ UNCHANGED <<refdata, sawBatchBoundary, loopVars>>

ApplyBatchBoundary ==
    /\ Idle
    /\ sawBatchBoundary' = TRUE
    /\ crossed' = {k \in crossed : k \notin touched \cap known}
                  \cup {k \in touched \cap known : Crossed(instruments[k].Book)}
    /\ touched' = {}
    /\ UNCHANGED <<bookVars, bufferVars, loopVars>>

(* Shard.resetChannel and Shard.pruneManifest both delete the instruments  *)
(* in `gone' from every map, and take their buffered deltas off the count. *)
Slots(buf, S) == UNION {{k} \X (1 .. Len(buf[k])) : k \in S}

Forget(gone) ==
    /\ known' = known \ gone
    /\ instruments' = [k \in Inst |-> IF k \in gone THEN NewInstrument
                                                    ELSE instruments[k]]
    /\ deltaBuf' = [k \in Inst |-> IF k \in gone THEN <<>> ELSE deltaBuf[k]]
    /\ bufferedN' = bufferedN - Cardinality(Slots(deltaBuf, gone))
    /\ refdata' = [k \in Inst |-> IF k \in gone THEN NoDef ELSE refdata[k]]
    /\ touched' = touched \ gone
    /\ crossed' = crossed \ gone
    /\ UNCHANGED loopVars

PruneManifest(newSeq) ==
    /\ Idle
    /\ newSeq > 1
    /\ Forget({k \in Inst : refdata[k] # NoDef /\ refdata[k] < newSeq - 1})
    /\ UNCHANGED sawBatchBoundary

ResetChannel(ch) ==
    /\ Idle
    /\ Forget({k \in Inst : ChannelOf[k] = ch})
    /\ sawBatchBoundary' = FALSE

ClearShadows ==
    /\ Idle
    /\ instruments' = [k \in Inst |-> [instruments[k] EXCEPT !.OpenSnapshot = {}]]
    /\ UNCHANGED <<known, refdata, bufferVars, crossVars, loopVars>>

(* NewShard.                                                               *)
ShardInit ==
    /\ known = {}
    /\ instruments = [k \in Inst |-> NewInstrument]
    /\ refdata = [k \in Inst |-> NoDef]
    /\ deltaBuf = [k \in Inst |-> <<>>]
    /\ bufferedN = 0
    /\ sawBatchBoundary = FALSE
    /\ touched = {} /\ crossed = {}
    /\ busy = None /\ held = {} /\ drain = FALSE
    /\ replay = <<>> /\ applied = FALSE

GroupIds == {b.id : b \in SnapshotBegins}
GroupAnchors == {b.anchor : b \in SnapshotBegins}

(* The shard on its own, fed any record at any time: no assumption is made *)
(* about the publisher, the network or the coordinator.                    *)
ShardNext ==
    \/ HandlerStep
    \/ \E d \in Delta : ApplyDelta(d)
    \/ \E k \in Inst, m \in ManifestSeqs : ApplyInstrumentDefinition(k, m)
    \/ \E k \in Inst, b \in SnapshotBegins : ApplySnapshotBegin(k, b)
    \/ \E k \in Inst, id \in GroupIds, l \in Side \X Price, q \in Qty :
          /\ \A s \in instruments[k].OpenSnapshot : s.received < MaxLevels
          /\ ApplySnapshotLevel(k, id, l[1], l[2], q)
    \/ \E k \in Inst, id \in GroupIds, anchor \in GroupAnchors :
          ApplySnapshotEnd(k, id, anchor)
    \/ \E k \in Inst, anchor \in MktdataSeqs : ApplyInstrumentReset(k, anchor)
    \/ ApplyBatchBoundary
    \/ \E m \in ManifestSeqs : PruneManifest(m)
    \/ \E ch \in Channel : ResetChannel(ch)
    \/ ClearShadows

ShardSpec == ShardInit /\ [][ShardNext]_shardVars

-----------------------------------------------------------------------------
(* Invariants.                                                             *)

TypeOK ==
    /\ known \subseteq Inst
    /\ instruments \in [Inst -> Instrument]
    /\ refdata \in [Inst -> ManifestSeqs \cup {NoDef}]
    /\ deltaBuf \in [Inst -> Seq(Delta)]
    /\ bufferedN \in Nat
    /\ sawBatchBoundary \in BOOLEAN
    /\ touched \subseteq Inst /\ crossed \subseteq Inst
    /\ busy \in Inst \cup {None}
    /\ held \subseteq Delta
    /\ drain \in BOOLEAN
    /\ replay \in Seq(Delta)
    /\ applied \in BOOLEAN

(* Nothing is buffered for a ready book: a delta is either applied, held   *)
(* inside the reorder window, or its instrument has been demoted.  Were a  *)
(* buffer left behind a ready book, applyDelta would never look at it, and *)
(* an eviction would demote a healthy instrument.                          *)
ReadyHasNoBacklog ==
    \A k \in Inst : Ready(k) => deltaBuf[k] = <<>>

(* A ready book has no malformed delta outstanding: every demotion of      *)
(* demoteMalformed is recovered only by a snapshot past the lost number.   *)
ReadyHasNothingLost ==
    \A k \in Inst : Ready(k) =>
        /\ instruments[k].LostInstrumentSeq = {}
        /\ instruments[k].RequiredInstrumentSeq = 0

(* Only a ready book holds deltas in its reorder window, they are all past *)
(* the tracker and within the window's capacity; off the drain loop, none  *)
(* of them is the next one expected.                                       *)
PendingInWindow ==
    \A k \in Inst :
        LET i == instruments[k]
        IN  /\ i.Pending # {} => Ready(k)
            /\ IsFiniteSet(i.Pending) /\ Cardinality(i.Pending) <= ReorderWindow
            /\ \A p, q \in i.Pending : p.pi = q.pi => p = q
            /\ \A p \in i.Pending :
                  /\ p.inst = k /\ ~Malformed(p.op)
                  /\ p.pi > i.LastAppliedInstrumentSeq
                  /\ (busy = k /\ drain) \/ p.pi # NextExpectedInstrumentSeq(i)

(* An instrument in gap names the number a recovery snapshot has to reach, *)
(* and that number is past everything its book has applied.                *)
GapDemandsNewer ==
    \A k \in Inst : instruments[k].Status = "gap" =>
        instruments[k].RequiredInstrumentSeq > instruments[k].LastAppliedInstrumentSeq

(* bufferDelta keeps each buffer in datagram order by insertion, through   *)
(* re-buffering in map order and through a reset's filter.                 *)
BuffersSorted ==
    \A k \in Inst : \A m, n \in 1 .. Len(deltaBuf[k]) :
        m <= n => deltaBuf[k][m].mkt <= deltaBuf[k][n].mkt

(* A ready book is whole: nothing is buffered for it, nothing lost is      *)
(* outstanding, and what was demoted to gap comes back only past all it    *)
(* had applied.                                                            *)
ReadyIsCaughtUp == ReadyHasNoBacklog /\ ReadyHasNothingLost /\ GapDemandsNewer

(* Deltas wait in order: inside the reorder window and in the buffers.     *)
DeltasWaitInOrder == PendingInWindow /\ BuffersSorted

(* The running total is the number of buffered deltas, and evictions keep  *)
(* it within the budget.                                                   *)
BudgetExact ==
    /\ bufferedN = Cardinality(Slots(deltaBuf, Inst))
    /\ bufferedN <= MaxBuffered

(* What the invariants above rest on.  A handler's loops are over when the *)
(* mutex is free, and while one runs every delta it carries is for the     *)
(* instrument that holds it.                                               *)
LoopShape ==
    /\ busy = None => held = {} /\ ~drain /\ replay = <<>>
    /\ busy # None => busy \in known
    /\ \A d \in held : d.inst = busy
    /\ \A j \in 1 .. Len(replay) : replay[j].inst = busy
    /\ held # {} => ~drain /\ instruments[busy].Status = "gap"
    /\ drain => Ready(busy)

(* A key with no instrument has no book, shadow or window.                 *)
UnknownIsFresh ==
    \A k \in Inst \ known :
        /\ instruments[k].Status = "awaiting"
        /\ instruments[k].OpenSnapshot = {}
        /\ instruments[k].Pending = {}

(* A delta is buffered under its own instrument.                           *)
BacklogKeyed ==
    \A k \in Inst : \A j \in 1 .. Len(deltaBuf[k]) : deltaBuf[k][j].inst = k

(* A lost delta is never past what the recovery snapshot has to cover.     *)
LostCovered ==
    \A k \in Inst : \A n \in instruments[k].LostInstrumentSeq :
        n > 0 /\ n <= instruments[k].RequiredInstrumentSeq

ShardInv ==
    /\ TypeOK
    /\ BudgetExact /\ BuffersSorted /\ BacklogKeyed
    /\ LoopShape /\ UnknownIsFresh
    /\ ReadyHasNoBacklog /\ LostCovered /\ ReadyHasNothingLost
    /\ GapDemandsNewer /\ PendingInWindow

(* Before any batch boundary has been seen, the crossed set is exact for   *)
(* every ready book whose handler is done.                                 *)
CrossedIsExact ==
    \A k \in Inst : (Ready(k) /\ busy # k /\ ~sawBatchBoundary /\ k \notin touched)
        => (k \in crossed <=> Crossed(instruments[k].Book))
=============================================================================
