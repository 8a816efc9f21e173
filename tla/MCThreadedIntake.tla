--------------------------- MODULE MCThreadedIntake --------------------------
(* Two connections and a stream whose counter restarts once, with a trade  *)
(* on either side of it; payloads of one and of two messages.  A           *)
(* connection that misses the second payload cannot tell from the third    *)
(* that the counter restarted, and adopts the generation of the other.     *)
EXTENDS ThreadedIntake

MCKind == <<"trade", "quote", "quote", "quote", "trade">>
MCNumber == <<1, 6, 1, 4, 2>>
MCPayloadEnds == {2, 3, 5}

(* The stream is one of those the proofs are about.                        *)
ASSUME StreamRestartsOnce == RestartsOnce
=============================================================================
