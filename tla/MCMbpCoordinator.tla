-------------------------- MODULE MCMbpCoordinator ---------------------------
(***************************************************************************)
(* Two shards, two redundant publishers on channels c1 and c2, inboxes of  *)
(* one message so that the read loop and the barrier goroutines block.     *)
(***************************************************************************)
EXTENDS MbpCoordinatorStream

CONSTANTS
    a, b, x,    \* the instruments: a and b on c1, x on c2
    s1, s2, c1, c2

VARIABLE feed   \* which records this behaviour is about

MCChannelOf == (a :> c1) @@ (b :> c1) @@ (x :> c2)
MCShardOf == (a :> s1) @@ (b :> s2) @@ (x :> s1)

Rec(type, ch, rc) == [type |-> type, ch |-> ch, rc |-> rc]
OnInst(type, k, rc) == Rec(type, MCChannelOf[k], rc) @@ [inst |-> k]

(* Eras: both channels publish, channel c1 changes its Reset Count.        *)
MCEraRecords ==
    {OnInst("level_update", k, rc) : k \in {a, b}, rc \in {1, 2}}
    \cup {OnInst("instrument_reset", x, 1), Rec("end_of_session", c1, 1),
          Rec("heartbeat", c1, 2), Rec("batch_boundary", c2, 1)}

(* Snapshot groups of a and of b at the same Snapshot ID, as a publisher   *)
(* sends them: IDs are counted per instrument.                             *)
Group(k, n) ==
    <<OnInst("snapshot_begin", k, 1) @@ [id |-> n],
      Rec("snapshot_level", MCChannelOf[k], 1) @@ [id |-> n, of |-> k],
      OnInst("snapshot_end", k, 1)>>
MCGroupStream == Group(a, 1) \o Group(b, 1) \o Group(a, 2)

(* Manifests of one channel, through a Reset Count change, with strikes.   *)
MCStrikeRecords ==
    {OnInst("instrument_definition", k, 1)
         @@ [seq |-> 1, datagram |-> 1, index |-> 0, source |-> 1] : k \in {a, b}}
    \cup {OnInst("strike_interval", a, rc)
             @@ [datagram |-> 1, index |-> 1, source |-> src] :
                 rc \in {1, 2}, src \in {1, 2}}
    \cup {Rec("manifest_summary", c1, rc) @@ [seq |-> 3, valid |-> v] :
             rc \in {1, 2}, v \in BOOLEAN}

MCRecords ==
    [era |-> MCEraRecords, strike |-> MCStrikeRecords,
     group |-> {MCGroupStream[n] : n \in 1 .. Len(MCGroupStream)}]
MCAllRecords == UNION {MCRecords[f] : f \in DOMAIN MCRecords}
MCFeeds == DOMAIN MCRecords

(* Era and strike records come in any order, group records in the         *)
(* publisher's.                                                            *)
MCRead ==
    \/ \E rec \in MCRecords[feed] : feed # "group" /\ Dispatch(rec) /\ UNCHANGED pos
    \/ feed # "group" /\ OnDisconnect /\ UNCHANGED pos
    \/ feed = "group" /\ (ReadNext \/ Reconnect)

MCNext ==
    /\ \/ MCRead
       \/ UNCHANGED pos /\ (Coordinate \/ \E s \in Shard : Run(s))
    /\ UNCHANGED feed

MCInit == StreamInit /\ feed \in MCFeeds

MCSpec == MCInit /\ [][MCNext]_<<streamVars, feed>> /\ Fairness
=============================================================================
