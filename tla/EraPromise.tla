----------------------------- MODULE EraPromise ------------------------------
(***************************************************************************)
(* What the era store promises the subscribers of a publisher: a restart   *)
(* of a channel instance is visible, because the Reset Count it advertises *)
(* differs from the one it advertised before.                              *)
(***************************************************************************)

CONSTANTS
    Channel,    \* the channel instances of one host: a feed and a shard
    Era,        \* the values of a Reset Count
    NoEra       \* the channel instance has never published

VARIABLES
    told,       \* the era of the last datagrams of each channel instance
    publishing  \* the channel instances the running process publishes

vars == <<told, publishing>>

Init == told = [c \in Channel |-> NoEra] /\ publishing = {}

(* A process starts publishing C, each channel under an era it did not     *)
(* publish under last.                                                     *)
Start(C) ==
    /\ publishing = {}
    /\ publishing' = C
    /\ \E new \in [C -> Era] :
           /\ \A c \in C : new[c] # told[c]
           /\ told' = [c \in Channel |-> IF c \in C THEN new[c] ELSE told[c]]

Stop == publishing' = {} /\ UNCHANGED told

Next == Stop \/ \E C \in SUBSET Channel : Start(C)

Spec == Init /\ [][Next]_vars
=============================================================================
