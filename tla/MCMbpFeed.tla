------------------------------ MODULE MCMbpFeed ------------------------------
(***************************************************************************)
(* MbpFeed for one instrument whose book has one bid and one ask price.    *)
(***************************************************************************)
EXTENDS MbpFeed

CONSTANTS i1, ch

MCChannelOf == i1 :> ch
MCOps == [type : {"level_update"}, side : {"bid"}, price : {1}, qty : {1, 2}]
MCBooks == {EmptyBook}

(* The snapshot_begin payloads this instance can put on the wire.          *)
MCBegins == [id : {0, 1}, anchor : 0 .. MaxMktdataSeq,
             total : 0 .. 2, last : 0 .. MaxDeltas]

(* Nothing the subscriber does changes the publisher, and a datagram once  *)
(* sent can be delivered at any later time, so every behaviour has the     *)
(* subscriber states of one in which the publisher has finished before the *)
(* first record that changes the subscriber.  TLC explores those.          *)
PublisherFirst == (Quiet /\ known = {} /\ bufferedN = 0) \/ UNCHANGED pubVars

(* A book that was replaced is kept short: the resets, deltas and          *)
(* snapshots of its instrument are three together.                         *)
Short == \A k \in Inst : gen[k] = 0 \/ last[k] + gen[k] + nextSnapshotId <= 3

MCSpec == FeedInit /\ [][FeedNext /\ PublisherFirst /\ Short']_feedVars
=============================================================================
