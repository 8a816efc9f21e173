------------------------- MODULE MbpCoordinatorStream -------------------------
(***************************************************************************)
(* The coordinator reading one publisher's records through the parser's    *)
(* socket, in the order they were sent.  Source: Bot.Run and Bot.read in   *)
(* go/marketbyprice-bot/bot.go.                                            *)
(*                                                                         *)
(* MbpCoordinator lets any record come next.  A level names no instrument  *)
(* and is filed by where it stands, so what becomes of it is a question    *)
(* about a stream.                                                         *)
(***************************************************************************)
EXTENDS MbpCoordinator

CONSTANT Stream   \* the records, in the order the parser has them

(* Record j opened the group of its channel that is open when n records    *)
(* are behind.                                                             *)
OpenedBy(j, n) ==
    /\ j \in 1 .. n /\ Stream[j].type = "snapshot_begin"
    /\ \A i \in j + 1 .. n :
          Stream[i].ch = Stream[j].ch => Stream[i].type \notin {"snapshot_begin", "snapshot_end"}

(* "Publishers MUST NOT interleave snapshot groups" (coordinator.go:26): a *)
(* level that stands in a group of its Snapshot ID is of that group's      *)
(* instrument.  A level outside of any group is allowed.                   *)
ASSUME StreamAssumption ==
    /\ Stream \in Seq(Records)
    /\ \A j, n \in 1 .. Len(Stream) :
          /\ OpenedBy(j, n - 1) /\ Stream[n].type = "snapshot_level"
          /\ Stream[j].ch = Stream[n].ch /\ Stream[j].id = Stream[n].id
          => Stream[j].inst = Stream[n].of

VARIABLE pos      \* the records that are read, or that a broken socket lost

streamVars == <<vars, pos>>

(* Bot.read hands over one record after another.                           *)
ReadNext ==
    /\ pos < Len(Stream)
    /\ pos' = pos + 1
    /\ Dispatch(Stream[pos + 1])

(* Bot.Run tells the coordinator and connects again.  What the parser      *)
(* wrote to the broken socket, and until the next connection, is lost.     *)
Reconnect ==
    /\ OnDisconnect
    /\ pos' \in pos .. Len(Stream)

StreamInit == Init /\ pos = 0

StreamNext ==
    \/ ReadNext
    \/ Reconnect
    \/ UNCHANGED pos /\ (Coordinate \/ \E s \in Shard : Run(s))

StreamSpec == StreamInit /\ [][StreamNext]_streamVars /\ Fairness
=============================================================================
