-------------------------- MODULE InstrumentIdentity --------------------------
(***************************************************************************)
(* What the reference-data registry promises the subscribers of a          *)
(* publisher, over all its lives: an Instrument ID never names two         *)
(* instruments, and an instrument comes back under the ID it had unless it *)
(* has been gone for the horizon.                                          *)
(***************************************************************************)
EXTENDS Naturals

CONSTANTS
    Symbol,     \* the instruments of the venue
    Id,         \* the Instrument IDs
    Forget,     \* how long an unpublished instrument keeps its ID, in ticks
    Never       \* the instrument has never been published

VARIABLES
    now,        \* the clock of the host
    published,  \* the instruments the running process publishes
    told,       \* per instrument, its last ID and when it was last published
    used        \* the IDs ever published

vars == <<now, published, told, used>>

Init ==
    /\ now = 0
    /\ published = {}
    /\ told = [s \in Symbol |-> Never]
    /\ used = {}

(* The instruments of S cease to be published, now.                        *)
Last(S) == [s \in Symbol |-> IF s \in S THEN [told[s] EXCEPT !.at = now] ELSE told[s]]

Publish(s, i) ==
    /\ s \notin published
    /\ \/ told[s] # Never /\ told[s].id = i
       \/ i \notin used /\ (told[s] = Never \/ now >= told[s].at + Forget)
    /\ published' = published \cup {s}
    /\ told' = [told EXCEPT ![s] = [id |-> i, at |-> now]]
    /\ used' = used \cup {i}
    /\ UNCHANGED now

Withdraw(s) ==
    /\ s \in published
    /\ published' = published \ {s}
    /\ told' = Last({s})
    /\ UNCHANGED <<now, used>>

Stop ==
    /\ published' = {}
    /\ told' = Last(published)
    /\ UNCHANGED <<now, used>>

Tick == now' = now + 1 /\ UNCHANGED <<published, told, used>>

Next ==
    \/ \E s \in Symbol, i \in Id : Publish(s, i)
    \/ \E s \in Symbol : Withdraw(s)
    \/ Stop \/ Tick

Spec == Init /\ [][Next]_vars
=============================================================================
