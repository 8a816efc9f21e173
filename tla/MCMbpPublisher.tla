--------------------------- MODULE MCMbpPublisher ----------------------------
(***************************************************************************)
(* MbpPublisher alone: two deltas to a datagram, so that a reset, a        *)
(* snapshot or a failed send can meet an open datagram that is empty,      *)
(* partly filled or full.                                                  *)
(***************************************************************************)
EXTENDS MbpPublisher

MCOps == [type : {"level_update"}, side : {"bid"}, price : {1}, qty : {1}]
MCBooks == {EmptyBook}
=============================================================================
