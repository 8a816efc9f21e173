----------------------------- MODULE InlineSpool -----------------------------
(***************************************************************************)
(* The recorder's inline mode, from the spool to the column store: the     *)
(* derivation stores one directory per window, the posting stage takes the *)
(* windows, inserts them through a sink that coalesces, enters them in the *)
(* ledger and deletes them.  The two threads share the spool behind one    *)
(* lock, which the insert does not hold; the process may die, and be       *)
(* started again, between any two steps.                                   *)
(*                                                                         *)
(* Windows are numbered in the order of their directories' names, and all  *)
(* have one size.  Refused writes, inserts and deletes, panics and crashes *)
(* are drawn from one budget of faults.                                    *)
(***************************************************************************)
EXTENDS Naturals, Sequences, FiniteSets, SequencesExt, FiniteSetsExt, LoadLedger

CONSTANTS
    NumWindows, \* bound: windows the derivation closes
    Budget,     \* windows the spool may hold
    NumGrains,  \* the grains of a window, inserted one after the other
    MaxFaults   \* bound: faults

ASSUME SpoolAssumption == {NumWindows, Budget, NumGrains, MaxFaults} \subseteq Nat \ {0}

Window == 1 .. NumWindows
Grain == 1 .. NumGrains

VARIABLES
    next,       \* the window the derivation stores next
    dir,        \* each window's directory: "absent", "writing", "closed"
    lock,       \* the spool's lock: "free", "derive", "post"
    map,        \* Spool.windows: the windows the spool knows
    inFlight,   \* those whose rows the sink has
    owed,       \* those whose rows landed and whose entry is missing
    unreclaimable, \* windows dropped whose directory could not be removed
    held,       \* the windows whose rows the sink coalesces
    posting,    \* the windows whose rows are being inserted, grain by grain
    grain,      \* the next grain to insert
    store,      \* the grains of each window that are in the column store
    ledger,     \* the ledger's file and memory
    todo,       \* record_landed: the windows still to enter
    pc,         \* where the posting stage is
    after,      \* where it goes when the entries are written
    forgotten,  \* Posting.forgotten: the spool is reconciled with the ledger
    entered,    \* history: windows that had an entry in the ledger
    lost,       \* history: windows removed from the disk without an entry
    told,       \* history: windows this process was told had landed
    interrupted, \* history: those of them a panic took out of its hands
    faults      \* faults so far

spoolVars == <<map, inFlight, owed, unreclaimable>>
sinkVars == <<held, posting, grain, store>>
historyVars == <<entered, told, interrupted>>
recordVars == <<ledger, todo, pc, after, forgotten, historyVars>>
vars == <<next, dir, lock, spoolVars, sinkVars, recordVars, lost, faults>>

Fault == faults < MaxFaults /\ faults' = faults + 1

Init ==
    /\ next = 1
    /\ dir = [w \in Window |-> "absent"]
    /\ lock = "free"
    /\ map = {} /\ inFlight = {} /\ owed = {} /\ unreclaimable = {}
    /\ held = {} /\ posting = {} /\ grain = 1
    /\ store = [w \in Window |-> {}]
    /\ ledger = EmptyLedger
    /\ todo = <<>> /\ pc = "start" /\ after = "take" /\ forgotten = FALSE
    /\ entered = {} /\ lost = {} /\ told = {} /\ interrupted = {}
    /\ faults = 0

(* The windows of S, the oldest first.                                     *)
Ascending(S) ==
    CHOOSE s \in [1 .. Cardinality(S) -> S] : \A i, j \in DOMAIN s : i < j => s[i] < s[j]

Removed(S) == [w \in Window |-> IF w \in S THEN "absent" ELSE dir[w]]

-----------------------------------------------------------------------------
(* The derivation: Spool::store, with the lock held throughout.            *)

(* write_window, up to the grain files: a directory without a sidecar.     *)
StoreBegin ==
    /\ pc # "down" /\ lock = "free" /\ next \in Window
    /\ lock' = "derive"
    /\ dir' = [dir EXCEPT ![next] = "writing"]
    /\ UNCHANGED <<next, spoolVars, sinkVars, recordVars, lost, faults>>

(* write_sidecar: the rename that commits the window.                      *)
StoreClose ==
    /\ lock = "derive" /\ dir[next] = "writing"
    /\ dir' = [dir EXCEPT ![next] = "closed"]
    /\ UNCHANGED <<next, lock, spoolVars, sinkVars, recordVars, lost, faults>>

(* enforce deletes from the oldest, the windows that owe an entry last,    *)
(* until the rest fits the budget.                                         *)
EvictionOrder(m) == Ascending(m \ owed) \o Ascending(m \cap owed)
Excess(m) == IF Cardinality(m) > Budget THEN Cardinality(m) - Budget ELSE 0
Evicted(m) == ToSet(SubSeq(EvictionOrder(m), 1, Excess(m)))

(* What enforce leaves of the spool's windows m: a directory that cannot   *)
(* be removed is a window no more, and ends the pass.                      *)
Enforce(m) ==
    \/ /\ map' = m \ Evicted(m)
       /\ dir' = Removed(Evicted(m))
       /\ lost' = lost \cup (Evicted(m) \ entered)
       /\ UNCHANGED <<unreclaimable, faults>>
    \/ \E stuck \in Evicted(m) :
           /\ Fault
           /\ map' = m \ {stuck}
           /\ unreclaimable' = unreclaimable \cup {stuck}
           /\ UNCHANGED <<dir, lost>>

StoreDone ==
    /\ lock = "derive" /\ dir[next] = "closed"
    /\ lock' = "free"
    /\ Enforce(map \cup {next})
    /\ inFlight' = inFlight \cap map' /\ owed' = owed \cap map'
    /\ next' = next + 1
    /\ UNCHANGED <<sinkVars, recordVars>>

(* Any step of it fails, and the directory is removed.                     *)
StoreFail ==
    /\ lock = "derive" /\ Fault
    /\ lock' = "free"
    /\ dir' = Removed({next})
    /\ lost' = lost \cup {next}
    /\ next' = next + 1
    /\ UNCHANGED <<spoolVars, sinkVars, recordVars>>

-----------------------------------------------------------------------------
(* The posting stage.                                                      *)

(* Spool::release.                                                         *)
Release == inFlight' = {}

(* Spool::delete: the window is forgotten whether or not its directory can *)
(* be removed.                                                             *)
Delete(w) ==
    /\ map' = map \ {w} /\ inFlight' = inFlight \ {w} /\ owed' = owed \ {w}
    /\ \/ dir' = Removed({w}) /\ UNCHANGED <<unreclaimable, faults>>
       \/ /\ Fault
          /\ unreclaimable' = unreclaimable \cup {w}
          /\ UNCHANGED dir

(* posting_stage begins, and begins again behind a panic, by releasing     *)
(* what nobody holds.  forget_loaded then drops what the ledger says is    *)
(* loaded, but once a process: a stage that is restarted behind it does    *)
(* not do it again.                                                        *)
(* Mutant: what was in flight at the panic is left in flight.              *)
BeginUnreleased == UNCHANGED inFlight
BeginReleased == Release

Start ==
    /\ pc = "start" /\ lock = "free"
    /\ pc' = IF forgotten THEN "take" ELSE "forget"
    /\ BeginReleased
    /\ UNCHANGED <<next, dir, lock, map, owed, unreclaimable, sinkVars, ledger, todo,
                   after, forgotten, historyVars, lost, faults>>

Forget(w) ==
    /\ pc = "forget" /\ lock = "free"
    /\ w \in map /\ IsLoaded(ledger, w)
    /\ Delete(w)
    /\ UNCHANGED <<next, lock, sinkVars, recordVars, lost>>

ForgetDone ==
    /\ pc = "forget" /\ lock = "free"
    /\ \A w \in map : ~IsLoaded(ledger, w)
    /\ pc' = "take" /\ forgotten' = TRUE
    /\ UNCHANGED <<next, dir, lock, spoolVars, sinkVars, ledger, todo, after, historyVars,
                   lost, faults>>

(* take_oldest skips what is in flight and what owes only an entry.        *)
(* Mutant: it offers a window that owes an entry again.                    *)
OwedOffered == map \ inFlight
Offered == map \ (inFlight \cup owed)

(* take_oldest, and write_batch takes the rows; a window whose files do    *)
(* not match their digests is discarded instead.                           *)
Take ==
    /\ pc = "take" /\ lock = "free" /\ Offered # {}
    /\ LET w == Min(Offered) IN
       \/ /\ inFlight' = inFlight \cup {w}
          /\ held' = held \cup {w}
          /\ pc' = "batch"
          /\ UNCHANGED <<dir, map, owed, unreclaimable, lost, faults>>
       \/ /\ Fault
          /\ map' = map \ {w}
          /\ dir' = Removed({w})
          /\ lost' = lost \cup ({w} \ entered)
          /\ UNCHANGED <<inFlight, owed, unreclaimable, held, pc>>
    /\ UNCHANGED <<next, lock, posting, grain, store, ledger, todo, after, forgotten,
                   historyVars>>

TakeNone ==
    /\ pc = "take" /\ lock = "free" /\ Offered = {}
    /\ pc' = "due"
    /\ UNCHANGED <<next, dir, lock, spoolVars, sinkVars, ledger, todo, after, forgotten,
                   historyVars, lost, faults>>

(* record_landed takes the lock: the entries that are owed come first,     *)
(* then the windows that landed.                                           *)
ToEnter(landed) == Ascending(owed) \o Ascending(landed \ owed)

RecordLanded(landed, then) ==
    /\ lock = "free" /\ lock' = "post"
    /\ todo' = ToEnter(landed)
    /\ inFlight' = inFlight \ landed
    /\ pc' = "record" /\ after' = then
    /\ told' = told \cup landed /\ interrupted' = interrupted \ landed
    /\ UNCHANGED <<next, dir, map, owed, unreclaimable, ledger, forgotten, entered, lost,
                   faults>>

(* write_batch and post_if_due: the rows are held, or due...               *)
NotDue ==
    /\ pc \in {"batch", "due"}
    /\ RecordLanded({}, IF pc = "batch" THEN "take" ELSE "idle")
    /\ UNCHANGED sinkVars

Post ==
    /\ pc \in {"batch", "due"} /\ held # {}
    /\ posting' = held /\ held' = {} /\ grain' = 1
    /\ after' = IF pc = "batch" THEN "take" ELSE "final"
    /\ pc' = "send"
    /\ UNCHANGED <<next, dir, lock, spoolVars, store, ledger, todo, forgotten,
                   historyVars, lost, faults>>

(* ...and then inserted grain by grain, retries included...                *)
SendGrain ==
    /\ pc = "send" /\ grain \in Grain
    /\ store' = [w \in Window |-> IF w \in posting THEN store[w] \cup {grain}
                                                   ELSE store[w]]
    /\ grain' = grain + 1
    /\ UNCHANGED <<next, dir, lock, spoolVars, held, posting, recordVars, lost, faults>>

SendDone ==
    /\ pc = "send" /\ grain \notin Grain
    /\ RecordLanded(posting, after)
    /\ posting' = {}
    /\ UNCHANGED <<held, grain, store>>

(* Mutant: a batch that was refused is entered all the same.               *)
SendFailLanded ==
    /\ pc = "send" /\ grain \in Grain /\ faults < MaxFaults
    /\ RecordLanded(posting, after)
    /\ posting' = {}
    /\ UNCHANGED <<held, grain, store>>

(* ...or refused, perhaps after the destination took the last grain: all   *)
(* the sink held is gone and released.                                     *)
SendFail ==
    /\ pc = "send" /\ grain \in Grain /\ lock = "free" /\ Fault
    /\ \/ UNCHANGED store
       \/ store' = [w \in Window |-> IF w \in posting THEN store[w] \cup {grain}
                                                      ELSE store[w]]
    /\ posting' = {}
    /\ Release
    /\ pc' = IF after = "take" THEN "due" ELSE "final"
    /\ UNCHANGED <<next, dir, lock, map, owed, unreclaimable, held, grain, ledger, todo,
                   after, forgotten, historyVars, lost>>

(* Mutant: the directory goes although its entry could not be written.     *)
EntryAssumed ==
    /\ pc = "record" /\ todo # <<>>
    /\ LET w == Head(todo) IN
       \/ /\ w \notin map
          /\ todo' = Tail(todo)
          /\ UNCHANGED <<ledger, pc, entered, faults>>
       \/ /\ w \in map
          /\ ledger' \in {Recorded(ledger, w), ledger}
          /\ entered' = entered \cup Readable(ledger')
          /\ pc' = "delete"
          /\ UNCHANGED <<todo, faults>>
    /\ UNCHANGED <<next, dir, lock, map, inFlight, owed, unreclaimable, sinkVars, after,
                   forgotten, told, interrupted, lost>>

(* write_entry: the ledger, then the directory.  A window the spool has    *)
(* evicted meanwhile has nothing left to enter.                            *)
WriteEntry ==
    /\ pc = "record" /\ todo # <<>>
    /\ LET w == Head(todo) IN
       \/ /\ w \notin map
          /\ todo' = Tail(todo)
          /\ UNCHANGED <<ledger, owed, pc, entered, faults>>
       \/ /\ w \in map
          /\ ledger' = Recorded(ledger, w)
          /\ entered' = entered \cup {w}
          /\ pc' = "delete"
          /\ UNCHANGED <<todo, owed, faults>>
       \/ /\ w \in map /\ Fault
          /\ ledger' \in RecordFailures(ledger, w)
          /\ owed' = owed \cup {w}
          /\ entered' = entered \cup Readable(ledger')
          /\ todo' = Tail(todo)
          /\ UNCHANGED pc
    /\ UNCHANGED <<next, dir, lock, map, inFlight, unreclaimable, sinkVars, after,
                   forgotten, told, interrupted, lost>>

DeleteEntered ==
    /\ pc = "delete"
    /\ Delete(Head(todo))
    /\ todo' = Tail(todo)
    /\ pc' = "record"
    /\ UNCHANGED <<next, lock, sinkVars, ledger, after, forgotten, historyVars, lost>>

RecordDone ==
    /\ pc = "record" /\ todo = <<>>
    /\ lock' = "free"
    /\ pc' = after
    /\ UNCHANGED <<next, dir, spoolVars, sinkVars, ledger, todo, after, forgotten,
                   historyVars, lost, faults>>

(* The end of a pass: entries that are owed are retried once more, and the *)
(* next pass begins an interval later.                                     *)
Final ==
    /\ pc = "final"
    /\ RecordLanded({}, "idle")
    /\ UNCHANGED sinkVars

NextPass ==
    /\ pc = "idle"
    /\ pc' = "take"
    /\ UNCHANGED <<next, dir, lock, spoolVars, sinkVars, ledger, todo, after, forgotten,
                   historyVars, lost, faults>>

Posting ==
    \/ Start \/ (\E w \in Window : Forget(w)) \/ ForgetDone
    \/ Take \/ TakeNone \/ NotDue \/ Post \/ SendGrain \/ SendDone \/ SendFail
    \/ WriteEntry \/ DeleteEntered \/ RecordDone \/ Final \/ NextPass

-----------------------------------------------------------------------------
(* A panic of the posting stage: what it held in its hands is gone, what   *)
(* the sink coalesces is not, and a poisoned lock is taken all the same.   *)
(* The windows it was about to enter or to delete are due again: only what *)
(* owes an entry already is known to be in the store.                      *)
Panic ==
    /\ pc \in {"forget", "batch", "send", "record", "delete"} /\ Fault
    /\ lock' = IF lock = "post" THEN "free" ELSE lock
    /\ posting' = {} /\ todo' = <<>>
    /\ pc' = "start"
    /\ interrupted' = interrupted \cup (ToSet(todo) \ owed)
    /\ UNCHANGED <<next, dir, spoolVars, held, grain, store, ledger, after, forgotten,
                   entered, told, lost>>

(* The process dies: its memory is gone, and the open window with it.  An  *)
(* entry that was being appended may be cut.                               *)
Crash ==
    /\ pc # "down" /\ Fault
    /\ pc' = "down" /\ lock' = "free"
    /\ map' = {} /\ inFlight' = {} /\ owed' = {} /\ unreclaimable' = {}
    /\ held' = {} /\ posting' = {} /\ todo' = <<>>
    /\ forgotten' = FALSE /\ told' = {} /\ interrupted' = {}
    /\ next' = IF lock = "derive" THEN next + 1 ELSE next
    /\ \/ ledger' = Forgotten(ledger)
       \/ /\ pc = "record" /\ todo # <<>> /\ Head(todo) \in map
          /\ \E cut \in Cut(ledger, Head(todo)) : ledger' = Forgotten(cut)
    /\ entered' = entered \cup Readable(ledger')
    /\ UNCHANGED <<dir, grain, store, after, lost>>

(* Ledger::open and Spool::open: windows with a sidecar are adopted, the   *)
(* others discarded, and the budget enforced.                              *)
Open ==
    /\ pc = "down"
    /\ pc' = "start"
    /\ LET closed == {w \in Window : dir[w] = "closed"} IN
       /\ map' = closed \ Evicted(closed)
       /\ dir' = [w \in Window |-> IF w \in map' THEN "closed" ELSE "absent"]
       /\ lost' = lost \cup {w \in Evicted(closed) : w \notin entered}
                       \cup {w \in Window : dir[w] = "writing"}
    /\ ledger' = Opened(ledger)
    /\ UNCHANGED <<next, lock, inFlight, owed, unreclaimable, sinkVars, todo, after,
                   forgotten, historyVars, faults>>

Store == StoreBegin \/ StoreClose \/ StoreDone \/ StoreFail

Next == Store \/ Posting \/ Panic \/ Crash \/ Open

(* Both threads run, a supervisor starts the process again, and the sink's *)
(* age bound makes what it holds due in the end.                           *)
Fairness ==
    /\ WF_vars(StoreClose \/ StoreDone) /\ WF_vars(Posting) /\ WF_vars(Open)
    /\ SF_vars(Post)

Spec == Init /\ [][Next]_vars /\ Fairness

-----------------------------------------------------------------------------
SpoolTypeOK ==
    /\ next \in 1 .. (NumWindows + 1)
    /\ dir \in [Window -> {"absent", "writing", "closed"}]
    /\ lock \in {"free", "derive", "post"}
    /\ inFlight \subseteq map /\ owed \subseteq map /\ map \subseteq Window
    /\ inFlight \cap owed = {}
    /\ Cardinality(map) <= Budget
    /\ held \subseteq Window /\ posting \subseteq Window
    /\ grain \in 1 .. (NumGrains + 1)
    /\ store \in [Window -> SUBSET Grain]
    /\ pc \in {"start", "forget", "take", "batch", "due", "send", "record", "delete",
               "final", "idle", "down"}
    /\ \A w \in map : dir[w] = "closed"
    /\ forgotten \in BOOLEAN /\ told \cup interrupted \subseteq Window

Whole(w) == store[w] = Grain

(* An entry is written when the rows of the window are in the store, every *)
(* grain of them, and never when the sink has only accepted them.          *)
EnteredIsWhole ==
    \A w \in Readable(ledger) \cup ledger.loaded \cup entered \cup owed : Whole(w)

(* No crash, panic or refusal loses a window that was closed: until it is  *)
(* evicted or discarded its rows are on the disk or whole in the store,    *)
(* and once it is entered they are whole.                                  *)
NothingForgotten ==
    /\ SpoolTypeOK /\ EnteredIsWhole
    /\ \A w \in 1 .. next - 1 : dir[w] # "absent" \/ w \in lost \/ Whole(w)

(* What has landed is not inserted again: neither a window the sink told   *)
(* this process of, its entry failed or not, nor one that the ledger has   *)
(* from a process before it.  The exception is a panic between the sink's  *)
(* report and the deletion: the stage that is restarted offers that window *)
(* again, until it lands again.                                            *)
NeverInsertedTwice ==
    (told \cup ledger.loaded) \cap (held \cup posting) \subseteq interrupted

(* The spool keeps its promise: a crash is a step nobody can see.          *)
FateOf(w) ==
    CASE w \in entered -> "recorded"
      [] w \in lost \ entered -> "lost"
      [] w \notin lost \cup entered /\ dir[w] = "closed" -> "spooled"
      [] OTHER -> "open"

Fate == INSTANCE WindowFate WITH
    fate <- [w \in Window |-> FateOf(w)],
    landed <- {w \in Window : Whole(w)}

PromiseKept == Fate!Spec

(* Every window that was spooled is entered, or given up, or stuck in a    *)
(* directory that cannot be removed.                                       *)
EveryWindowSettles ==
    \A w \in Window :
        dir[w] = "closed" ~> w \in entered \cup lost \cup unreclaimable
=============================================================================
