---------------------------- MODULE InlineCapture ----------------------------
(***************************************************************************)
(* The recorder's inline mode, from the capture thread to the spool: a     *)
(* ring of preallocated slots between the capture and the derivation, the  *)
(* windows the derivation cuts the stream into, and what it says of each   *)
(* window: its number, whether its anchor is certain, and the total loss   *)
(* at its close.                                                           *)
(*                                                                         *)
(* Datagrams are numbered on the wire, lost ones included, so a gap in the *)
(* numbers the derivation sees is exactly a loss somebody must admit.      *)
(***************************************************************************)
EXTENDS Integers, Sequences, SequencesExt

CONSTANTS
    Capacity,   \* the slots of the ring
    DebtMax,    \* where the owed loss saturates (u32::MAX)
    Bytes,      \* a window is full at this many datagrams (of one byte each)
    AfterStop,  \* panics a stopping stage survives
    KernelLoss, \* the drop deltas the capture reads from the kernel
    MaxWire,    \* bound: datagrams on the wire
    MaxPanics,  \* bound: panics of the derivation
    NoWindow    \* no trailer is held

ASSUME CaptureAssumption ==
    /\ {Capacity, DebtMax, Bytes} \subseteq Nat \ {0}
    /\ {AfterStop, MaxWire, MaxPanics} \subseteq Nat
    /\ KernelLoss \subseteq Nat
    /\ NoWindow \notin Nat

VARIABLES
    wire,       \* the number of the last datagram the capture offered
    declared,   \* RingCounters.capture_declared
    dropped,    \* RingCounters.dropped
    owed,       \* PendingLoss.owed: loss the next accepted datagram admits
    free,       \* how many slots are on the free list
    full,       \* the datagrams waiting in the ring
    inHand,     \* RingReceiver.current, as a sequence of at most one datagram
    stopped,    \* the capture's end is dropped and the stop flag set
    pc,         \* the derivation: "sample", "wait", "close", "done", "gone"
    window,     \* the datagrams of the open window
    total,      \* its capture_drop_total
    closed,     \* why it closed
    windowSeq,  \* the next window number
    preceding,  \* the number of the window whose trailer is held, or none
    panics,     \* panics so far
    remaining,  \* panics a stopping stage still survives
    taken,      \* history: every datagram the derivation took
    windows     \* history: every window that closed with datagrams

ringVars == <<wire, declared, dropped, owed, full, stopped>>
stageVars == <<window, total, closed, windowSeq, preceding, windows>>
vars == <<ringVars, free, inHand, pc, stageVars, panics, remaining, taken>>

Saturate(n) == IF n > DebtMax THEN DebtMax ELSE n

Init ==
    /\ wire = 0 /\ declared = 0 /\ dropped = 0 /\ owed = 0
    /\ free = Capacity /\ full = <<>> /\ inHand = <<>>
    /\ stopped = FALSE
    /\ pc = "sample" /\ window = <<>> /\ total = 0 /\ closed = "open"
    /\ windowSeq = 0 /\ preceding = NoWindow
    /\ panics = 0 /\ remaining = AfterStop
    /\ taken = <<>> /\ windows = <<>>

-----------------------------------------------------------------------------
(* The capture thread.                                                     *)

(* PendingLoss::owe and ::undelivered: a datagram that found no slot is    *)
(* one more lost, and what it declared is owed still.                      *)
Owe(debt, delta) == Saturate(debt + delta)
(* Mutant: a refused datagram hands on what it declared and not itself.    *)
UndeliveredUncounted(debt) == debt
Undelivered(debt) == Saturate(debt + 1)

(* RingSender::offer of the datagram behind delta lost ones.  A slot is    *)
(* free, or the datagram is dropped; that a free slot always fits into the *)
(* ring is SlotsConserved.                                                 *)
Offer(delta) ==
    /\ ~stopped /\ wire + delta < MaxWire
    /\ wire' = wire + delta + 1
    /\ declared' = declared + delta
    /\ \/ /\ free > 0
          /\ free' = free - 1
          /\ full' = Append(full, [n |-> wire', delta |-> Owe(owed, delta)])
          /\ owed' = 0
          /\ UNCHANGED dropped
       \/ /\ free = 0
          /\ dropped' = dropped + 1
          /\ owed' = Undelivered(Owe(owed, delta))
          /\ UNCHANGED <<free, full>>
    /\ UNCHANGED <<inHand, stopped, pc, stageVars, panics, remaining, taken>>

(* Pipeline::stop: the flag is set and the capture's end is dropped.       *)
Stop ==
    /\ ~stopped /\ stopped' = TRUE
    /\ UNCHANGED <<wire, declared, dropped, owed, free, full, inHand, pc, stageVars,
                   panics, remaining, taken>>

-----------------------------------------------------------------------------
(* The derivation stage.                                                   *)

(* WindowSource::open, behind the window that was dropped.                 *)
OpenWindow ==
    /\ window' = <<>> /\ total' = 0 /\ closed' = "open"

(* RingCounters::capture_drop_total: two loads of counters that only grow, *)
(* here at one point between them.                                         *)
CaptureDropTotal == declared + dropped

(* Mutant: the bound is tested behind the receive, and the datagram that   *)
(* does not fit is in no window.                                           *)
SampleTooLate ==
    /\ pc = "sample"
    /\ total' = CaptureDropTotal
    /\ \/ /\ Len(window) >= Bytes /\ full # <<>>
          /\ pc' = "close" /\ closed' = "bytes"
          /\ full' = Tail(full) /\ free' = free + 1
          /\ taken' = Append(taken, Head(full))
       \/ /\ Len(window) < Bytes \/ full = <<>>
          /\ pc' = "wait"
          /\ UNCHANGED <<closed, full, free, taken>>
    /\ UNCHANGED <<wire, declared, dropped, owed, stopped, inHand, window, windowSeq,
                   preceding, windows, panics, remaining>>

(* WindowSource::next samples the live total on every call, and only then  *)
(* tests the byte bound, before it takes anything out of the ring.         *)
Sample ==
    /\ pc = "sample"
    /\ total' = CaptureDropTotal
    /\ \/ Len(window) >= Bytes /\ pc' = "close" /\ closed' = "bytes"
       \/ Len(window) < Bytes /\ pc' = "wait" /\ UNCHANGED closed
    /\ UNCHANGED <<ringVars, free, inHand, window, windowSeq, preceding, windows,
                   panics, remaining, taken>>

(* RingReceiver::wait gives back the slot in hand...                       *)
(* Mutant: it forgets to.                                                  *)
SlotLeaked ==
    /\ pc = "wait" /\ inHand # <<>>
    /\ inHand' = <<>>
    /\ UNCHANGED <<ringVars, free, pc, stageVars, panics, remaining, taken>>

GiveBack ==
    /\ pc = "wait" /\ inHand # <<>>
    /\ inHand' = <<>>
    /\ free' = free + 1
    /\ UNCHANGED <<ringVars, pc, stageVars, panics, remaining, taken>>

(* ...and takes the next datagram into hand and into the window.           *)
Take ==
    /\ pc = "wait" /\ inHand = <<>> /\ full # <<>>
    /\ pc' = "sample"
    /\ full' = Tail(full)
    /\ inHand' = <<Head(full)>>
    /\ window' = Append(window, Head(full))
    /\ taken' = Append(taken, Head(full))
    /\ UNCHANGED <<wire, declared, dropped, owed, stopped, free, total, closed,
                   windowSeq, preceding, windows, panics, remaining>>

(* The window's age is tested before every wait, a slot in hand or not.    *)
CloseOnAge ==
    /\ pc = "wait"
    /\ pc' = "close" /\ closed' = "age"
    /\ UNCHANGED <<ringVars, free, inHand, window, total, windowSeq, preceding,
                   windows, panics, remaining, taken>>

(* The ring is disconnected and empty.                                     *)
(* Mutant: the stop flag ends the stage with datagrams still in the ring.  *)
EndedByFlag == stopped
CaptureEnded == stopped /\ full = <<>>

CloseOnEnd ==
    /\ pc = "wait" /\ inHand = <<>> /\ CaptureEnded
    /\ pc' = "close" /\ closed' = "ended"
    /\ UNCHANGED <<ringVars, free, inHand, window, total, windowSeq, preceding,
                   windows, panics, remaining, taken>>

(* SegmentTrailer::precedes: the trailer held is of the window just before.*)
AnchorIsCertain == preceding # NoWindow /\ preceding + 1 = windowSeq

(* What is handed on to the next window: the trailer of a stored window,   *)
(* and nothing behind one whose rows are lost.                             *)
TrailerAfter(fate) == IF fate = "stored" THEN windowSeq ELSE NoWindow

(* derive_window and Spool::store, each of which may fail and lose the     *)
(* rows.  A window that saw a datagram spends a number all the same.       *)
CloseWindow(fate) ==
    /\ pc = "close"
    /\ pc' = IF closed = "ended" THEN "done" ELSE "sample"
    /\ \/ /\ window = <<>> /\ fate = "stored"
          /\ UNCHANGED <<windowSeq, preceding, windows>>
       \/ /\ window # <<>>
          /\ windowSeq' = windowSeq + 1
          /\ preceding' = TrailerAfter(fate)
          /\ windows' = Append(windows,
                 [seq |-> windowSeq, datagrams |-> window, total |-> total,
                  certain |-> AnchorIsCertain, fate |-> fate])
    /\ OpenWindow
    /\ UNCHANGED <<ringVars, free, inHand, panics, remaining, taken>>

(* spawn_stage: a panic unwinds out of the open window and the stage is    *)
(* begun again with the state it had, a bounded number of times once it is *)
(* stopping.                                                               *)
Panic ==
    /\ pc \in {"sample", "wait", "close"} /\ panics < MaxPanics
    /\ panics' = panics + 1
    /\ \/ ~stopped /\ pc' = "sample" /\ UNCHANGED remaining
       \/ stopped /\ remaining > 0 /\ pc' = "sample" /\ remaining' = remaining - 1
       \/ stopped /\ remaining = 0 /\ pc' = "gone" /\ UNCHANGED remaining
    /\ OpenWindow
    /\ UNCHANGED <<ringVars, free, inHand, windowSeq, preceding, windows, taken>>

Wait == GiveBack \/ Take \/ CloseOnEnd

Derive ==
    \/ Sample \/ Wait \/ CloseOnAge
    \/ \E fate \in {"stored", "lost"} : CloseWindow(fate)

Next == (\E delta \in KernelLoss : Offer(delta)) \/ Stop \/ Derive \/ Panic

(* The derivation is a thread of its own and is scheduled; a deadline may  *)
(* close windows while datagrams wait, and it never does so forever: a     *)
(* fresh window's deadline is a whole interval away.                       *)
Fairness == WF_vars(Derive) /\ SF_vars(Wait)

Spec == Init /\ [][Next]_vars /\ Fairness

-----------------------------------------------------------------------------
Datagram == [n : 1 .. MaxWire, delta : 0 .. DebtMax]

CaptureTypeOK ==
    /\ wire \in 0 .. MaxWire /\ declared \in Nat /\ dropped \in Nat
    /\ owed \in 0 .. DebtMax
    /\ free \in 0 .. Capacity
    /\ full \in Seq(Datagram) /\ inHand \in Seq(Datagram)
    /\ stopped \in BOOLEAN
    /\ pc \in {"sample", "wait", "close", "done", "gone"}
    /\ window \in Seq(Datagram) /\ taken \in Seq(Datagram)
    /\ total \in Nat /\ windowSeq \in Nat
    /\ closed \in {"open", "bytes", "age", "ended"}
    /\ preceding \in Nat \cup {NoWindow}
    /\ panics \in 0 .. MaxPanics /\ remaining \in 0 .. AfterStop

(* No slot is ever lost or made: what the capture may take, the ring has   *)
(* room for, and a feed that is quiet for a while finds every slot free.   *)
SlotsConserved == CaptureTypeOK /\ free + Len(full) + Len(inHand) = Capacity

(* Every loss is admitted by the next datagram that gets through: the      *)
(* numbers missing before it are its delta, up to where the debt saturates.*)
EveryGapAdmitted ==
    \A i \in DOMAIN taken :
        LET before == IF i = 1 THEN 0 ELSE taken[i - 1].n
        IN  taken[i].delta = Saturate(taken[i].n - before - 1)

Stored == {w \in DOMAIN windows : windows[w].fate = "stored"}
FirstOf(w) == windows[w].datagrams[1]
LastOf(w) == Last(windows[w].datagrams)
Lost(x, y) == {d \in ToSet(taken) : x.n < d.n /\ d.n < y.n}

(* A window whose anchor is certain begins where the window before it      *)
(* ended, with nothing taken in between that no row describes, but for     *)
(* what a panic unwound.                                                   *)
CertainIsAdjacent ==
    \A w \in Stored :
        windows[w].certain =>
            /\ w - 1 \in Stored /\ windows[w - 1].seq + 1 = windows[w].seq
            /\ panics = 0 => Lost(LastOf(w - 1), FirstOf(w)) = {}

(* The total a window closes with is never behind what is missing on the   *)
(* wire up to the window's last datagram, and so never behind the loss its *)
(* datagrams, and those of the windows before it, admit.                   *)
MissingUpTo(i) == taken[i].n - i
TotalsCoverLosses ==
    \A w \in DOMAIN windows : \A i \in DOMAIN taken :
        taken[i] = LastOf(w) => MissingUpTo(i) <= windows[w].total

(* No loss goes unsaid, by a datagram or by the total of its window.       *)
LossIsAdmitted == EveryGapAdmitted /\ TotalsCoverLosses

(* A stopped pipeline derives every datagram the ring accepted, or gives   *)
(* up after its last panic.                                                *)
StopDrains ==
    stopped ~> \/ pc = "gone"
               \/ /\ pc = "done" /\ full = <<>>
                  /\ panics = 0 => FlattenSeq([w \in DOMAIN windows |-> windows[w].datagrams])
                                       = taken

(* A zero difference between the totals of two consecutive windows is read *)
(* as the second having lost nothing (overflow_free).                      *)
OverflowFreeIsClean ==
    \A w \in 2 .. Len(windows) :
        windows[w].total = windows[w - 1].total =>
            \A d \in ToSet(windows[w].datagrams) : d.delta = 0
=============================================================================
