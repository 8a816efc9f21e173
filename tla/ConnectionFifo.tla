---------------------------- MODULE ConnectionFifo ---------------------------
(***************************************************************************)
(* What the threaded intake promises each connection: the events it pushed *)
(* are taken by the publisher loop in the order they were pushed, none is  *)
(* lost and none is taken twice, however many of them wait in the queue    *)
(* all connections share or on the connection behind it.                   *)
(***************************************************************************)
EXTENDS Naturals, Sequences

CONSTANTS Connection, Item

VARIABLE waiting    \* what each connection pushed and the loop has not taken

Init == waiting = [c \in Connection |-> <<>>]

Push(c, e) == waiting' = [waiting EXCEPT ![c] = Append(@, e)]

(* A batch takes some events of each connection, the oldest first.         *)
Take ==
    \A c \in Connection : \E n \in 0 .. Len(waiting[c]) :
        waiting'[c] = SubSeq(waiting[c], n + 1, Len(waiting[c]))

Next == (\E c \in Connection, e \in Item : Push(c, e))
        \/ (DOMAIN waiting' = Connection /\ Take)

Spec == Init /\ [][Next]_waiting
=============================================================================
