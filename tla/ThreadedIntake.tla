---------------------------- MODULE ThreadedIntake ---------------------------
(***************************************************************************)
(* The threaded input model: each connection decodes on a thread of its    *)
(* own, claims a quote's key in a table they share, and pushes the event   *)
(* on a bounded queue without waiting; what the queue cannot take is held  *)
(* on the connection, which does not read again before it is taken.  The   *)
(* publisher loop takes batches off the queue, beside its tick, and its    *)
(* stage of the dedupe is the authority.                                   *)
(*                                                                         *)
(* One instrument.  Its venue sends one stream of messages; every          *)
(* connection reads it in order, at its own pace, and a connection that    *)
(* reconnects has missed some of it.  How a decoder judges that a venue's  *)
(* counter restarted is the venue's own; it is modelled as the             *)
(* repository's test decoders do it.                                       *)
(***************************************************************************)
EXTENDS Naturals, Sequences, FiniteSets, SequencesExt, FiniteSetsExt

CONSTANTS
    Connection,
    Kind,           \* of each message of the stream: "quote" or "trade"
    Number,         \* a quote's update counter, a trade's identity
    PayloadEnds,    \* the messages that end a payload
    CounterLimit,   \* 2^COUNTER_BITS
    QueueDepth,
    Batch,
    IdentityWindow,
    MaxFailures     \* bound: failed decodes and refused events

Message == DOMAIN Kind

ASSUME IntakeAssumption ==
    /\ {CounterLimit, QueueDepth, Batch, IdentityWindow} \subseteq Nat \ {0}
    /\ MaxFailures \in Nat
    /\ Kind \in Seq({"quote", "trade"}) /\ Number \in [Message -> 0 .. CounterLimit - 1]
    /\ PayloadEnds \subseteq Message /\ Len(Kind) \in PayloadEnds

VARIABLES
    conn,       \* "up", "closing", "ended" or, at an exit, "stopped"
    cursor,     \* the message each connection decodes next
    at,         \* where in its decode: "next", "lost", "reclaim", "push"
    key,        \* the key the decoder is claiming or pushing
    saw,        \* the last counter the decoder saw, and...
    seen,       \* CounterGenerations.last: the highest plus one, 0 for none
    fell,       \* whether the counter being claimed fell below it
    generation, \* CounterGenerations.generations
    claimed,    \* the claim table's slot: the highest key plus one
    won,        \* history: every key claimed, plus one
    spoiled,    \* history: those whose decode failed behind the claim
    failures,   \* failed decodes and refused events so far
    held,       \* the events of each connection behind a full queue
    queue,      \* the events the connections share
    timer,      \* the tick's sleep: "fresh", "armed" once polled, "due"
    applied,    \* Dedupe.applied: the last quote's key plus one
    window,     \* the recent identities, the oldest first
    evicted,    \* the highest identity the window let go, plus one
    exit,       \* "none", "signal" or "guard"
    over,       \* the exit is complete
    published   \* history: the messages applied, in order

decoderVars == <<cursor, at, key, saw, seen, fell, generation>>
tableVars == <<claimed, won, spoiled, failures>>
loopVars == <<timer, applied, window, evicted, published>>
vars == <<conn, decoderVars, tableVars, held, queue, loopVars, exit, over>>

Init ==
    /\ conn = [c \in Connection |-> "up"]
    /\ cursor = [c \in Connection |-> 1]
    /\ at = [c \in Connection |-> "next"]
    /\ key = [c \in Connection |-> 0]
    /\ saw = [c \in Connection |-> 0] /\ seen = saw
    /\ fell = [c \in Connection |-> FALSE]
    /\ generation = [c \in Connection |-> 0]
    /\ claimed = 0 /\ won = {} /\ spoiled = {} /\ failures = 0
    /\ held = [c \in Connection |-> <<>>] /\ queue = <<>>
    /\ timer = "fresh"
    /\ applied = 0 /\ window = <<>> /\ evicted = 0 /\ published = <<>>
    /\ exit = "none" /\ over = FALSE

-----------------------------------------------------------------------------
(* A connection.                                                           *)

(* Between two payloads, where the driver awaits.                          *)
BetweenPayloads(c) == at[c] = "next" /\ cursor[c] \in {m + 1 : m \in PayloadEnds \cup {0}}

(* QueuedInput::recv reads nothing while events wait for the queue; a      *)
(* decode does not wait.                                                   *)
Reads(c) ==
    /\ conn[c] = "up" /\ at[c] = "next" /\ cursor[c] \in Message
    /\ BetweenPayloads(c) => held[c] = <<>>

Key(g, n) == g * CounterLimit + n
Generation(stored) == (stored - 1) \div CounterLimit

(* The claim is one fetch_max.                                             *)
ClaimOf(c, k, lost) ==
    /\ key' = [key EXCEPT ![c] = k]
    /\ \/ /\ k + 1 > claimed
          /\ claimed' = k + 1 /\ won' = won \cup {k + 1}
          /\ at' = [at EXCEPT ![c] = "push"]
       \/ /\ k + 1 <= claimed
          /\ at' = [at EXCEPT ![c] = lost]
          /\ UNCHANGED <<claimed, won>>
    /\ UNCHANGED <<spoiled, failures>>

(* The decoder sees a quote; a counter far below the last one it saw is a  *)
(* restart (CounterGenerations::restart).                                  *)
JudgesRestart(c, n) == n < saw[c] \div 2

Claim(c) ==
    /\ Reads(c) /\ Kind[cursor[c]] = "quote"
    /\ LET n == Number[cursor[c]]
           g == generation[c] + (IF JudgesRestart(c, n) THEN 1 ELSE 0)
           before == IF JudgesRestart(c, n) THEN 0 ELSE seen[c] IN
       /\ saw' = [saw EXCEPT ![c] = n]
       /\ generation' = [generation EXCEPT ![c] = g]
       /\ fell' = [fell EXCEPT ![c] = before # 0 /\ n + 1 < before]
       /\ seen' = [seen EXCEPT ![c] = Max({before, n + 1})]
       /\ ClaimOf(c, Key(g, n), "lost")
    /\ UNCHANGED <<conn, cursor, held, queue, loopVars, exit, over>>

(* A claim lost to a newer generation adopts it when the counter fell.     *)
(* Mutant: a rising counter adopts it too.                                 *)
AdoptsAlways(c) == Generation(claimed) > generation[c]
Adopts(c) == fell[c] /\ Generation(claimed) > generation[c]

Adopt(c) ==
    /\ at[c] = "lost" /\ Adopts(c)
    /\ LET n == Number[cursor[c]] IN
       /\ generation' = [generation EXCEPT ![c] = Generation(claimed)]
       /\ seen' = [seen EXCEPT ![c] = n + 1]
       /\ key' = [key EXCEPT ![c] = Key(Generation(claimed), n)]
    /\ at' = [at EXCEPT ![c] = "reclaim"]
    /\ UNCHANGED <<conn, cursor, saw, fell, tableVars, held, queue, loopVars, exit, over>>

Reclaim(c) ==
    /\ at[c] = "reclaim"
    /\ ClaimOf(c, key[c], "duplicate")
    /\ UNCHANGED <<conn, cursor, saw, seen, fell, generation, held, queue, loopVars, exit,
                   over>>

Duplicate(c) ==
    /\ at[c] = "duplicate" \/ (at[c] = "lost" /\ ~Adopts(c))
    /\ at' = [at EXCEPT ![c] = "next"]
    /\ cursor' = [cursor EXCEPT ![c] = @ + 1]
    /\ UNCHANGED <<conn, key, saw, seen, fell, generation, tableVars, held, queue, loopVars,
                   exit, over>>

Event(c, m, k) == [conn |-> c, message |-> m, key |-> k]

(* Outbox::push: behind what is held, or on the queue, or held.            *)
(* Mutant: it overtakes what is held.                                      *)
OfferedOnly(c) == Len(queue) < QueueDepth
Offered(c) == held[c] = <<>> /\ Len(queue) < QueueDepth

Outbox(c, e) ==
    IF Offered(c) THEN queue' = Append(queue, e) /\ UNCHANGED held
    ELSE held' = [held EXCEPT ![c] = Append(@, e)] /\ UNCHANGED queue

Pushed(c, k) ==
    /\ Outbox(c, Event(c, cursor[c], k))
    /\ at' = [at EXCEPT ![c] = "next"]
    /\ cursor' = [cursor EXCEPT ![c] = @ + 1]
    /\ UNCHANGED <<conn, key, saw, seen, fell, generation, tableVars, loopVars, exit, over>>

PushQuote(c) == at[c] = "push" /\ Pushed(c, key[c])

(* A point event is not claimed.                                           *)
PushTrade(c) == Reads(c) /\ Kind[cursor[c]] = "trade" /\ Pushed(c, Number[cursor[c]])

(* What the decoder is decoding does not become an event.                  *)
Dropped(c, next) ==
    /\ failures < MaxFailures /\ failures' = failures + 1
    /\ at' = [at EXCEPT ![c] = "next"]
    /\ cursor' = [cursor EXCEPT ![c] = next]
    /\ spoiled' = spoiled \cup (IF at[c] = "push" THEN {key[c] + 1} ELSE {})
    /\ UNCHANGED <<conn, key, saw, seen, fell, generation, claimed, won, held, queue,
                   loopVars, exit, over>>

PayloadEnd(m) == Min({e \in PayloadEnds : m <= e})

(* The decoder fails, before or behind a claim: the payload ends there,    *)
(* what it pushed stays, the claim stays won, and the driver reads on.  As *)
(* for a disconnect, the decoder has seen the instrument.                  *)
Fails(c) ==
    /\ at[c] = "push" \/ (Reads(c) /\ seen[c] # 0)
    /\ Dropped(c, PayloadEnd(cursor[c]) + 1)

(* The sink refuses an event the queue does not carry, and the decode goes *)
(* on with the next message.                                               *)
Refused(c) ==
    /\ at[c] = "push" \/ (Reads(c) /\ Kind[cursor[c]] = "trade")
    /\ Dropped(c, cursor[c] + 1)

(* Outbox::flush, before a receive, before a connect and in a shutdown: a  *)
(* slot first, then the event.                                             *)
(* Mutant: the event first, and a wait that is abandoned loses it.         *)
FlushAbandoned(c) ==
    /\ conn[c] \in {"up", "closing"} /\ BetweenPayloads(c) /\ held[c] # <<>>
    /\ queue' = IF Len(queue) < QueueDepth THEN Append(queue, Head(held[c])) ELSE queue
    /\ held' = [held EXCEPT ![c] = Tail(@)]
    /\ UNCHANGED <<conn, decoderVars, tableVars, loopVars, exit, over>>
Flush(c) ==
    /\ conn[c] \in {"up", "closing"} /\ BetweenPayloads(c)
    /\ held[c] # <<>> /\ Len(queue) < QueueDepth
    /\ queue' = Append(queue, Head(held[c]))
    /\ held' = [held EXCEPT ![c] = Tail(@)]
    /\ UNCHANGED <<conn, decoderVars, tableVars, loopVars, exit, over>>

(* The transport fails, or the venue closes it.  A decoder that has seen   *)
(* nothing of the instrument cannot know a restart it missed: assumed not  *)
(* to happen.                                                              *)
Disconnect(c) ==
    /\ conn[c] = "up" /\ BetweenPayloads(c) /\ exit = "none" /\ seen[c] # 0
    /\ conn' = [conn EXCEPT ![c] = "closing"]
    /\ UNCHANGED <<decoderVars, tableVars, held, queue, loopVars, exit, over>>

(* It reconnects, and has missed what was sent meanwhile.                  *)
Reconnect(c) ==
    /\ conn[c] = "closing" /\ held[c] = <<>>
    /\ conn' = [conn EXCEPT ![c] = "up"]
    /\ \E m \in PayloadEnds \cup {0} :
           m + 1 >= cursor[c] /\ cursor' = [cursor EXCEPT ![c] = m + 1]
    /\ UNCHANGED <<at, key, saw, seen, fell, generation, tableVars, held, queue, loopVars,
                   exit, over>>

(* The loop ends, and its tick with it.                                    *)
Exits(reason) == exit' = reason /\ timer' = "fresh"

(* Or it gives up, which ends the process or is carried on without.        *)
GiveUp(c) ==
    /\ conn[c] = "closing" /\ held[c] = <<>> /\ exit = "none"
    /\ conn' = [conn EXCEPT ![c] = "ended"]
    /\ (exit' = "none" /\ UNCHANGED timer) \/ Exits("guard")
    /\ UNCHANGED <<decoderVars, tableVars, held, queue, applied, window, evicted, published,
                   over>>

-----------------------------------------------------------------------------
(* The publisher loop.                                                     *)

(* Dedupe::judge of one event after those before it.                       *)
Supersedes(d, k) == k + 1 > d.applied

(* Mutant: what the window let go is taken for new.                        *)
NewToWindow(d, k) == k \notin ToSet(d.window)
New(d, k) == k \notin ToSet(d.window) /\ k + 1 > d.evicted

Remembered(d, k) ==
    IF Len(d.window) < IdentityWindow THEN [d EXCEPT !.window = Append(@, k)]
    ELSE [d EXCEPT !.window = Append(Tail(@), k),
                   !.evicted = Max({@, Head(d.window) + 1})]

Judged(d, e) ==
    LET done == [d EXCEPT !.published = Append(@, e.message)] IN
    IF Kind[e.message] = "quote"
    THEN IF Supersedes(d, e.key) THEN [done EXCEPT !.applied = e.key + 1] ELSE d
    ELSE IF New(d, e.key) THEN Remembered(done, e.key) ELSE d

(* Drain::apply.                                                           *)
Apply(events) ==
    LET d[n \in 0 .. Len(events)] ==
            IF n = 0 THEN [applied |-> applied, window |-> window, evicted |-> evicted,
                           published |-> published]
            ELSE Judged(d[n - 1], events[n])
        after == d[Len(events)] IN
    /\ applied' = after.applied /\ window' = after.window
    /\ evicted' = after.evicted /\ published' = after.published

Prefix(s) == SubSeq(s, 1, Min({Batch, Len(s)}))
Rest(s) == SubSeq(s, Min({Batch, Len(s)}) + 1, Len(s))

(* Drain::recv takes what is there, up to a batch, and applies it.         *)
TakeBatch ==
    /\ queue # <<>>
    /\ Apply(Prefix(queue))
    /\ queue' = Rest(queue)
    /\ UNCHANGED <<conn, decoderVars, tableVars, held, exit, over>>

LoopBatch ==
    /\ exit = "none" /\ timer # "due"
    /\ TakeBatch
    /\ timer' = "armed"

(* The tick goes first when it is due, and may find a reason to exit.  Its *)
(* sleep is started behind its body: the queue is polled before it can be  *)
(* due again.                                                              *)
Tick ==
    /\ exit = "none" /\ timer = "due"
    /\ timer' = "fresh"
    /\ exit' \in {"none", "guard"}
    /\ UNCHANGED <<conn, decoderVars, tableVars, held, queue, applied, window, evicted,
                   published, over>>

(* Mutant: the sleep is started before the body.                           *)
ElapsedInBody == timer # "due"
Elapsed == timer = "armed" \/ (timer = "fresh" /\ queue = <<>>)

TickDue ==
    /\ exit = "none" /\ Elapsed
    /\ timer' = "due"
    /\ UNCHANGED <<conn, decoderVars, tableVars, held, queue, applied, window, evicted,
                   published, exit, over>>

Signal ==
    /\ exit = "none"
    /\ Exits("signal")
    /\ UNCHANGED <<conn, decoderVars, tableVars, held, queue, applied, window, evicted,
                   published, over>>

-----------------------------------------------------------------------------
(* Winding down.                                                           *)

(* Connections::stop: a connection ends at an await, never in a decode.    *)
Stops(c) == BetweenPayloads(c)

Stop(c) ==
    /\ exit # "none" /\ conn[c] \in {"up", "closing"} /\ Stops(c)
    /\ conn' = [conn EXCEPT ![c] = "stopped"]
    /\ UNCHANGED <<decoderVars, tableVars, held, queue, loopVars, exit, over>>

Stopped == exit # "none" /\ \A c \in Connection : conn[c] \in {"ended", "stopped"}

(* Drain::finish: the queue, then what each connection held, in batches.   *)
FinishQueue ==
    /\ Stopped /\ exit = "signal" /\ ~over
    /\ TakeBatch
    /\ UNCHANGED timer

FinishHeld(c) ==
    /\ Stopped /\ exit = "signal" /\ ~over
    /\ queue = <<>> /\ held[c] # <<>>
    /\ Apply(Prefix(held[c]))
    /\ held' = [held EXCEPT ![c] = Rest(@)]
    /\ UNCHANGED <<conn, decoderVars, tableVars, queue, timer, exit, over>>

(* The deadline, or a guard exit, leaves what is left; else nothing is.    *)
Finished ==
    /\ Stopped /\ ~over
    /\ over' = TRUE
    /\ UNCHANGED <<conn, decoderVars, tableVars, held, queue, loopVars, exit>>

-----------------------------------------------------------------------------
Decode(c) ==
    \/ Claim(c) \/ Adopt(c) \/ Reclaim(c) \/ Duplicate(c)
    \/ PushQuote(c) \/ PushTrade(c) \/ Fails(c) \/ Refused(c)
Lifecycle(c) == Disconnect(c) \/ Reconnect(c) \/ GiveUp(c)
Loop == LoopBatch \/ Tick
WindDown == (\E c \in Connection : Stop(c) \/ FinishHeld(c)) \/ FinishQueue \/ Finished

Next ==
    \/ \E c \in Connection : Decode(c) \/ Flush(c) \/ Lifecycle(c)
    \/ Loop \/ TickDue \/ Signal \/ WindDown

(* The loop and every thread run.  A reserve waits its turn behind others  *)
(* that wait for a slot (tokio's semaphore is fair).                       *)
Fairness ==
    /\ WF_vars(Loop)
    /\ \A c \in Connection : WF_vars(Decode(c)) /\ SF_vars(Flush(c))

Spec == Init /\ [][Next]_vars /\ Fairness

-----------------------------------------------------------------------------
Events == [conn : Connection, message : Message, key : Nat]

(* The longest payload bounds what a connection holds behind a full queue. *)
Payload(m) == {k \in Message : k <= m /\ \A e \in PayloadEnds : e < m => e < k}
LongestPayload == Max({Cardinality(Payload(m)) : m \in PayloadEnds})

IntakeTypeOK ==
    /\ conn \in [Connection -> {"up", "closing", "ended", "stopped"}]
    /\ cursor \in [Connection -> 1 .. Len(Kind) + 1]
    /\ at \in [Connection -> {"next", "lost", "reclaim", "duplicate", "push"}]
    /\ {key, saw, seen, generation} \subseteq [Connection -> Nat]
    /\ fell \in [Connection -> BOOLEAN]
    /\ {claimed, applied, evicted} \subseteq Nat /\ {won, spoiled} \subseteq SUBSET Nat
    /\ failures \in 0 .. MaxFailures
    /\ queue \in Seq(Events) /\ Len(queue) <= QueueDepth
    /\ held \in [Connection -> Seq(Events)]
    /\ \A c \in Connection : Len(held[c]) <= LongestPayload
    /\ window \in Seq(Nat) /\ Len(window) <= IdentityWindow
    /\ published \in Seq(Message)
    /\ timer \in {"fresh", "armed", "due"}
    /\ exit \in {"none", "signal", "guard"} /\ over \in BOOLEAN

Quotes == {m \in Message : Kind[m] = "quote"}

(* The stream's counter rises, but for one restart below every counter     *)
(* before it: what a decoder's judgement of restarts is made for.          *)
RestartsAt(r) ==
    \A m, n \in Quotes : m < n =>
        IF m < r /\ r <= n THEN Number[n] < Number[m] ELSE Number[m] < Number[n]

RestartsOnce == \E r \in 1 .. Len(Kind) + 1 : RestartsAt(r)

(* No quote is applied behind a newer one, across connections, a reordered *)
(* queue and a restart of the counter.                                     *)
QuotesInVenueOrder ==
    \A i, j \in DOMAIN published :
        i < j /\ Kind[published[i]] = "quote" /\ Kind[published[j]] = "quote" =>
            published[i] < published[j]

(* A trade's identity is applied once, however late its copies are.        *)
TradeOnce ==
    \A i, j \in DOMAIN published :
        /\ Kind[published[i]] = "trade" /\ Kind[published[j]] = "trade"
        /\ Number[published[i]] = Number[published[j]]
        => i = j

(* A claim makes every other copy of the quote, and every older quote,     *)
(* lose: what won it is applied or superseded, or on its way to the loop.  *)
(* Only a decode that fails behind its claim, or whose event is refused,   *)
(* loses the quote on every connection; a full queue, a reconnect and a    *)
(* connection that ends or is stopped do not.                              *)
InFlight == ToSet(queue) \cup UNION {ToSet(held[c]) : c \in Connection}
Carried ==
    {e.key + 1 : e \in {f \in InFlight : Kind[f.message] = "quote"}}
        \cup {key[c] + 1 : c \in {d \in Connection : at[d] = "push" /\ conn[d] = "up"}}
ClaimedIsCarried ==
    /\ IntakeTypeOK
    /\ claimed \in won \cup {0}
    /\ \A k \in won \ spoiled : k <= applied \/ k \in Carried

(* Each connection's events reach the loop in the order it pushed them.    *)
Messages(s) == [i \in 1 .. Len(s) |-> s[i].message]
MessagesOf(c, s) ==
    LET f[n \in 0 .. Len(s)] ==
            IF n = 0 THEN <<>>
            ELSE IF s[n].conn = c THEN Append(f[n - 1], s[n].message) ELSE f[n - 1]
    IN f[Len(s)]
Waiting(c) == MessagesOf(c, queue) \o Messages(held[c])

Fifo == INSTANCE ConnectionFifo WITH
    Item <- Message, waiting <- [c \in Connection |-> Waiting(c)]

OrderKept == Fifo!Spec

(* What a connection holds is taken, and it reads again, unless the        *)
(* process ends.                                                           *)
HeldDrains == \A c \in Connection : held[c] # <<>> ~> (held[c] = <<>> \/ exit # "none")
=============================================================================
