----------------------------- MODULE MCMbpShard ------------------------------
(***************************************************************************)
(* MbpShard fed arbitrary records over small domains, in three families of *)
(* input: `recovery' explores one instrument's recovery state machine in   *)
(* full, `book' the contents of its book, and `pair' two instruments of    *)
(* two channels that share one buffer budget.                              *)
(***************************************************************************)
EXTENDS MbpShard

CONSTANTS i1, i2, ch1, ch2

VARIABLE family     \* the family of inputs of this behaviour

MCChannelOf == (i1 :> ch1) @@ (i2 :> ch2)

(* Bound: an instrument that is not ready buffers no delta behind more     *)
(* than `buffered' others.                                                 *)

(* Recovery: the book content does not matter, a malformed clear does.     *)
RecoveryOps ==
    {[type |-> "level_update", side |-> "bid", price |-> 1, qty |-> 1],
     [type |-> "book_clear", side |-> "both", scope |-> "from", price |-> 1]}

(* Book content: books that cross and uncross, snapshots with levels.      *)
BookOps ==
    [type : {"level_update"}, side : Side, price : {1, 2}, qty : {0, 1}]
    \cup [type : {"book_clear"}, side : {"bid", "both"}, scope : {"all"}, price : {1}]
    \cup [type : {"book_clear"}, side : {"ask"}, scope : {"from"}, price : {2}]

MCOps == RecoveryOps \cup BookOps
MCSnapshotBegins == [id : {1, 2}, anchor : {1}, total : {0, 2}, last : {0, 2}]

Recovery ==
    [insts |-> {i1}, ops |-> RecoveryOps, mkt |-> {1, 2}, pi |-> {1, 2, 3},
     begins |-> [id : {1}, anchor : {1}, total : {0}, last : {0, 2}],
     levels |-> 0, manifests |-> {1, 3}, buffered |-> MaxBuffered]
BookContent ==
    [insts |-> {i1}, ops |-> BookOps, mkt |-> {1}, pi |-> {1, 2},
     begins |-> [id : {1, 2}, anchor : {1}, total : {0, 2}, last : {0}],
     levels |-> MaxLevels, manifests |-> {1, 3}, buffered |-> 0]
Pair ==
    [insts |-> {i1, i2}, ops |-> RecoveryOps, mkt |-> {1}, pi |-> {1, 2},
     begins |-> [id : {1}, anchor : {1}, total : {0}, last : {0}],
     levels |-> 0, manifests |-> {3}, buffered |-> MaxBuffered]

Input == CASE family = "recovery" -> Recovery
           [] family = "book" -> BookContent
           [] family = "pair" -> Pair

MCInit == ShardInit /\ family \in {"recovery", "book", "pair"}

(* ShardNext, its inputs those of the family.                              *)
MCNext ==
    /\ UNCHANGED family
    /\ \/ HandlerStep
       \/ \E k \in Input.insts, m \in Input.mkt, p \in Input.pi, o \in Input.ops :
             /\ Ready(k) \/ bufferedN <= Input.buffered
             /\ ApplyDelta([inst |-> k, mkt |-> m, pi |-> p, op |-> o])
       \/ \E k \in Input.insts, m \in Input.manifests : ApplyInstrumentDefinition(k, m)
       \/ \E k \in Input.insts, b \in Input.begins : ApplySnapshotBegin(k, b)
       \/ \E k \in Input.insts, b \in Input.begins, l \in Side \X Price, q \in Qty :
             /\ \A s \in instruments[k].OpenSnapshot : s.received < Input.levels
             /\ ApplySnapshotLevel(k, b.id, l[1], l[2], q)
       \/ \E k \in Input.insts, b \in Input.begins : ApplySnapshotEnd(k, b.id, b.anchor)
       \/ \E k \in Input.insts, anchor \in Input.mkt : ApplyInstrumentReset(k, anchor)
       \/ ApplyBatchBoundary
       \/ \E m \in Input.manifests : PruneManifest(m)
       \/ \E ch \in {ChannelOf[k] : k \in Input.insts} : ResetChannel(ch)
       \/ ClearShadows

MCSpec == MCInit /\ [][MCNext]_<<shardVars, family>>
=============================================================================
