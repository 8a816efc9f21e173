--------------------------- MODULE ArchiveRotation ---------------------------
(***************************************************************************)
(* The recorder's archive: the segment the write path appends to, its      *)
(* rotation, the compressor thread that publishes what was rotated, and    *)
(* the retention pass that evicts from both directories.  The pass works   *)
(* on a scan, so the compressor and the shipper move files under it; one   *)
(* lock, on what the compressor holds, is all they share.  The process may *)
(* stop, or die and be started again, between any two steps.               *)
(*                                                                         *)
(* A window is what one segment received; windows are numbered in the      *)
(* order they were opened, which is the order of their stamps and of the   *)
(* files' modification times.  Every file weighs one, a manifest nothing.  *)
(***************************************************************************)
EXTENDS Naturals, Integers, Sequences, FiniteSets, SequencesExt

CONSTANTS
    NumWindows, \* bound: windows the write path opens
    StagingMax, \* the staging budget, in files
    MaxFaults,  \* bound: calls of the file system that fail
    MaxRuns     \* bound: starts of the process

ASSUME ArchiveAssumption ==
    /\ {NumWindows, MaxRuns} \subseteq Nat \ {0}
    /\ {StagingMax, MaxFaults} \subseteq Nat

Window == 1 .. NumWindows
NoWindow == 0
Number == 0 .. NumWindows

VARIABLES
    at,        \* the recording thread: "down", "write", "list", "staging", "classify", "evict", "exited"
    stop,      \* its shutdown: "no", "settle", "final"
    next,      \* the next window
    open,      \* the window of the open segment
    seq,       \* segment_seq
    number,    \* history: the number of each window opened by this run
    working,   \* staging: the window in segment-{n}.pcapng
    recovered, \* staging: windows under a recovered name
    retained,  \* staging: windows under the name of the object they did not become
    temps,     \* staging: the compressor's unfinished files
    objects,   \* completed: objects
    manifests, \* completed: manifests
    shipped,   \* history: objects the shipper has taken
    custody,   \* what the compressor holds, by number: "none", "queued", "inflight"
    jobs,      \* the queue into the compressor
    job,       \* the publication it is at
    step,      \* and how far: "idle", "seal", "manifest", "object", "source", "cleanup", "finish"
    done,      \* results not collected
    outstanding, \* rotations whose result the recording thread has not seen
    listed,    \* the objects the last scan found
    names,     \* working names the scan has still to classify
    residue,   \* those it has classified
    plan,      \* what the pass may evict, in order
    need,      \* how much of it still has to go
    kept,      \* the first object that could not be removed
    floor,     \* retained_floor_ns: where the retained history starts
    given,     \* history: windows whose eviction was counted
    truncated, \* history: windows lost to a partial that could not be moved aside
    still,     \* history: only the pass has touched the disk since it began
    run, faults

writerVars == <<stop, next, open, seq, number, truncated>>
diskVars == <<working, recovered, retained, objects, manifests>>
publishVars == <<jobs, job, step, done, temps>>
passVars == <<listed, names, residue, plan, need, kept, floor>>
vars == <<at, writerVars, diskVars, shipped, custody, publishVars, outstanding, passVars, given,
          still, run, faults>>

Fault == faults < MaxFaults /\ faults' = faults + 1

NoJob == [number |-> 0, window |-> NoWindow, whole |-> FALSE]

Init ==
    /\ at = "down" /\ stop = "no" /\ next = 1 /\ open = NoWindow /\ seq = 0
    /\ number = [w \in {} |-> 0]
    /\ working = [n \in Number |-> NoWindow]
    /\ recovered = {} /\ retained = {} /\ temps = {}
    /\ objects = {} /\ manifests = {} /\ shipped = {}
    /\ custody = [n \in Number |-> "none"]
    /\ jobs = <<>> /\ job = NoJob /\ step = "idle" /\ done = 0 /\ outstanding = 0
    /\ listed = {} /\ names = {} /\ residue = {} /\ plan = <<>> /\ need = 0
    /\ kept = NoWindow /\ floor = NoWindow
    /\ given = {} /\ truncated = {} /\ still = FALSE
    /\ run = 0 /\ faults = 0

-----------------------------------------------------------------------------
(* The write path.                                                         *)

(* preserve_partial: what segment-{n} holds is moved aside, if it can be.  *)
Preserve(n) ==
    \/ /\ recovered' = recovered \cup {working[n]}
       /\ working' = [working EXCEPT ![n] = NoWindow]
    \/ UNCHANGED <<recovered, working>>

(* Mutant: the previous run's file is truncated unseen.                    *)
NameTaken == UNCHANGED <<recovered, truncated, faults>>
(* open_segment: a file under this name is moved aside, or truncated.      *)
NameFreed ==
    \/ working[seq] = NoWindow /\ UNCHANGED <<recovered, truncated, faults>>
    \/ /\ working[seq] # NoWindow
       /\ recovered' = recovered \cup {working[seq]}
       /\ UNCHANGED <<truncated, faults>>
    \/ /\ working[seq] # NoWindow /\ Fault
       /\ truncated' = truncated \cup {working[seq]}
       /\ UNCHANGED recovered

OpenSegment ==
    /\ at = "write" /\ stop = "no" /\ open = NoWindow /\ next \in Window
    /\ NameFreed
    /\ open' = next /\ next' = next + 1
    /\ number' = [w \in DOMAIN number \cup {next} |-> IF w = next THEN seq ELSE number[w]]
    /\ working' = [working EXCEPT ![seq] = next]
    /\ still' = FALSE
    /\ UNCHANGED <<at, stop, seq, retained, objects, manifests, shipped, custody, publishVars,
                   outstanding, passVars, given, run>>

(* A write or a flush failed: abandon_open_segment.                        *)
Abandon ==
    /\ at = "write" /\ open # NoWindow /\ Fault
    /\ open' = NoWindow /\ seq' = seq + 1
    /\ Preserve(seq)
    /\ still' = FALSE
    /\ UNCHANGED <<at, stop, next, number, truncated, retained, objects, manifests, shipped,
                   custody, publishVars, outstanding, passVars, given, run>>

Spent(closed) == seq' = seq + 1

(* rotate_at: the number is spent, the file closed, and handed over.       *)
Rotate ==
    /\ at = "write" /\ stop # "final" /\ open # NoWindow
    /\ open' = NoWindow /\ Spent(TRUE)
    /\ custody' = [custody EXCEPT ![seq] = "queued"]
    /\ jobs' = Append(jobs, [number |-> seq, window |-> open])
    /\ outstanding' = outstanding + 1
    /\ at' = "list" /\ still' = TRUE
    /\ UNCHANGED <<stop, next, number, truncated, diskVars,
                   shipped, job, step, done, temps, passVars, given, run, faults>>

CloseFails ==
    /\ at = "write" /\ stop # "final" /\ open # NoWindow /\ Fault
    /\ open' = NoWindow /\ Spent(FALSE)
    /\ Preserve(seq)
    /\ still' = FALSE
    /\ UNCHANGED <<at, stop, next, number, truncated, retained, objects, manifests, shipped,
                   custody, publishVars, outstanding, passVars, given, run>>

-----------------------------------------------------------------------------
(* The compressor thread: publish, one step for each file it touches.      *)

Compressor(s) ==
    /\ at \notin {"down", "exited"} /\ step = s /\ still' = FALSE
    /\ UNCHANGED <<at, writerVars, recovered, shipped, outstanding, passVars, given, run>>

StartPublication ==
    /\ Compressor("idle") /\ jobs # <<>>
    /\ jobs' = Tail(jobs)
    /\ LET j == Head(jobs) IN
           /\ job' = [number |-> j.number, window |-> j.window,
                      whole |-> working[j.number] = j.window]
           /\ custody' = [custody EXCEPT ![j.number] = "inflight"]
    /\ step' = "seal"
    /\ UNCHANGED <<working, retained, objects, manifests, done, temps, faults>>

(* seal, and the manifest beside it: into temporary files.                 *)
Seal ==
    /\ Compressor("seal")
    /\ \/ /\ working[job.number] = job.window
          /\ temps' = temps \cup {job.window} /\ step' = "manifest"
          /\ UNCHANGED faults
       \/ /\ working[job.number] # job.window
          /\ step' = "cleanup" /\ UNCHANGED <<temps, faults>>
       \/ Fault /\ step' = "cleanup" /\ UNCHANGED temps
    /\ UNCHANGED <<working, retained, objects, manifests, custody, jobs, job, done>>

(* Mutant: the object is moved before its manifest.                        *)
LandsObjectFirst(w) ==
    IF step = "manifest"
        THEN objects' = objects \cup {w} /\ UNCHANGED manifests
        ELSE manifests' = manifests \cup {w} /\ UNCHANGED objects
Lands(w) ==
    IF step = "manifest"
        THEN manifests' = manifests \cup {w} /\ UNCHANGED objects
        ELSE objects' = objects \cup {w} /\ UNCHANGED manifests

(* assemble's two moves, the manifest's and the object's.                  *)
Land(s, then) ==
    /\ Compressor(s)
    /\ \/ /\ Lands(job.window)
          /\ temps' = IF s = "object" THEN temps \ {job.window} ELSE temps
          /\ step' = then
          /\ UNCHANGED faults
       \/ Fault /\ step' = "cleanup" /\ UNCHANGED <<objects, manifests, temps>>
    /\ UNCHANGED <<working, retained, custody, jobs, job, done>>

(* publish: the object has landed, so a source that stays is a copy.       *)
RemoveSource ==
    /\ Compressor("source")
    /\ \/ working' = [working EXCEPT ![job.number] = NoWindow] /\ UNCHANGED faults
       \/ Fault /\ UNCHANGED working
    /\ step' = "finish"
    /\ UNCHANGED <<retained, objects, manifests, custody, jobs, job, done, temps>>

(* clean_up: the segment is kept under the name of its object.  It may     *)
(* fail to remove the manifest, and to rename the segment.                 *)
CleanUp ==
    /\ Compressor("cleanup")
    /\ temps' = temps \ {job.window}
    /\ step' = "finish"
    /\ LET here == working[job.number] = job.window IN
       \E removed, moved \in BOOLEAN :
           /\ IF removed /\ moved THEN UNCHANGED faults ELSE Fault
           /\ manifests' = IF removed THEN manifests \ {job.window} ELSE manifests
           /\ retained' = IF moved /\ here THEN retained \cup {job.window} ELSE retained
           /\ working' = IF moved THEN [working EXCEPT ![job.number] = NoWindow] ELSE working
    /\ UNCHANGED <<objects, custody, jobs, job, done>>

(* Mutant: a publication that failed reports nothing.                      *)
ReportsSuccess(j) == done' = IF j.window \in objects \cup shipped THEN done + 1 ELSE done
Reports(j) == done' = done + 1

(* The custody ends before the result is handed over.                      *)
Finish ==
    /\ Compressor("finish")
    /\ custody' = [custody EXCEPT ![job.number] = "none"]
    /\ Reports(job)
    /\ job' = NoJob /\ step' = "idle"
    /\ UNCHANGED <<working, retained, objects, manifests, jobs, temps, faults>>

Publish ==
    \/ StartPublication \/ Seal
    \/ Land("manifest", "object") \/ Land("object", "source")
    \/ RemoveSource \/ CleanUp \/ Finish

-----------------------------------------------------------------------------
(* The retention pass of the recording thread: StagingWatermark::enforce.  *)

Pass(a) ==
    /\ at = a
    /\ UNCHANGED <<writerVars, shipped, publishVars, custody, outstanding, run>>

(* scan, the completed directory and then the names in staging.  The file  *)
(* of the open segment is the one it does not look at.                     *)
ListCompleted ==
    /\ Pass("list")
    /\ at' = "staging"
    /\ listed' = {[kind |-> "object", id |-> w, age |-> w] : w \in objects}
    /\ UNCHANGED <<diskVars, names, residue, plan, need, kept, floor, given, still, faults>>

ListStaging ==
    /\ Pass("staging")
    /\ at' = "classify"
    /\ listed' = listed \cup {[kind |-> "retained", id |-> w, age |-> w] : w \in retained}
    /\ residue' = {[kind |-> "recovered", id |-> w, age |-> w] : w \in recovered}
    /\ names' = {n \in Number : working[n] # NoWindow /\ n # seq}
    /\ UNCHANGED <<diskVars, plan, need, kept, floor, given, still, faults>>

(* One name: what the compressor reads is skipped, what it has queued is   *)
(* marked.  A file that went in the meantime weighs nothing.               *)
Classify(n) ==
    /\ Pass("classify") /\ n \in names
    /\ names' = names \ {n}
    /\ residue' = IF custody[n] = "inflight" \/ working[n] = NoWindow THEN residue
                  ELSE residue \cup
                           {IF custody[n] = "queued" THEN [kind |-> "queued", id |-> n, age |-> n]
                            ELSE [kind |-> "orphan", id |-> n, age |-> working[n]]}
    /\ UNCHANGED <<at, diskVars, listed, plan, need, kept, floor,
                   given, still, faults>>

Queued(R) == {e \in R : e.kind = "queued"}
NewestQueued(R) == {e \in Queued(R) : \A f \in Queued(R) : f.age <= e.age}
ByAge(R) ==
    CHOOSE s \in [1 .. Cardinality(R) -> R] :
        \A i, j \in DOMAIN s : i < j => s[i] # s[j] /\ s[i].age <= s[j].age

(* Mutant: the queue behind the compressor is nothing eviction may take.   *)
ReachableUnqueued(o, R) == ByAge(o) \o ByAge(R \ Queued(R))
(* Objects, oldest first, then what never became one, then the queue.      *)
Reachable(o, R) == ByAge(o) \o ByAge(R \ Queued(R)) \o ByAge(Queued(R) \ NewestQueued(R))

PlanEviction ==
    /\ Pass("classify") /\ names = {}
    /\ at' = "evict"
    /\ plan' = Reachable(listed, residue)
    /\ need' = Len(Reachable(listed, residue)) - StagingMax
    /\ residue' = {} /\ kept' = NoWindow
    /\ UNCHANGED <<diskVars, listed, names, floor, given, still, faults>>

IsObject(e) == e.kind \in {"object", "retained"}
WindowOf(e) == IF e.kind \in {"queued", "orphan"} THEN working[e.id] ELSE e.id
OnDisk(e) ==
    CASE e.kind = "object" -> e.id \in objects
      [] e.kind = "retained" -> e.id \in retained
      [] e.kind = "recovered" -> e.id \in recovered
      [] OTHER -> working[e.id] # NoWindow

(* Mutant: the phase is the one the scan saw.                              *)
SparedAsScanned(e) == FALSE
(* remove_unless_in_flight: the phase, and the unlink, under one lock.     *)
Spared(e) == e.kind \in {"queued", "orphan"} /\ custody[e.id] = "inflight"

Unlinked(e) ==
    /\ objects' = IF e.kind = "object" THEN objects \ {e.id} ELSE objects
    /\ manifests' = IF e.kind = "object" THEN manifests \ {e.id} ELSE manifests
    /\ retained' = IF e.kind = "retained" THEN retained \ {e.id} ELSE retained
    /\ recovered' = IF e.kind = "recovered" THEN recovered \ {e.id} ELSE recovered
    /\ working' = IF e.kind \in {"queued", "orphan"} THEN [working EXCEPT ![e.id] = NoWindow]
                  ELSE working

(* Mutant: every removal that was tried lowers the floor.                  *)
KeptForgotten(e) == NoWindow
(* The first object that could not be removed is where history starts.     *)
Kept(e) == IF kept = NoWindow /\ IsObject(e) THEN e.id ELSE kept

(* One candidate: spared, gone already, taken and counted, or immovable.   *)
Evict ==
    /\ Pass("evict") /\ need > 0 /\ plan # <<>>
    /\ plan' = Tail(plan)
    /\ LET e == Head(plan) IN
           \/ /\ Spared(e) \/ ~OnDisk(e)
              /\ need' = need - 1
              /\ UNCHANGED <<diskVars, given, kept, still, faults>>
           \/ /\ ~Spared(e) /\ OnDisk(e)
              /\ need' = need - 1
              /\ Unlinked(e)
              /\ given' = given \cup {WindowOf(e)}
              /\ UNCHANGED <<kept, still, faults>>
           \/ /\ ~Spared(e) /\ OnDisk(e) /\ Fault
              /\ kept' = Kept(e)
              /\ still' = FALSE
              /\ UNCHANGED <<need, diskVars, given>>
    /\ UNCHANGED <<at, listed, names, residue, floor>>

FloorAfter ==
    LET left == {i \in DOMAIN plan : IsObject(plan[i])} IN
    IF kept # NoWindow THEN kept ELSE IF left = {} THEN NoWindow ELSE plan[Min(left)].id

EndPass ==
    /\ Pass("evict") /\ (need <= 0 \/ plan = <<>>)
    /\ at' = IF stop = "final" THEN "exited" ELSE "write"
    /\ floor' = FloorAfter
    /\ plan' = <<>> /\ need' = 0 /\ kept' = NoWindow
    /\ UNCHANGED <<diskVars, listed, names, residue, given, still, faults>>

-----------------------------------------------------------------------------
(* The recording thread between passes, and the process.                   *)

Recording ==
    /\ at = "write"
    /\ UNCHANGED <<next, open, seq, number, truncated, diskVars, shipped, custody, jobs, job, step,
                   temps, passVars, given, run, faults>>

(* sweep_staging: the periodic pass.                                       *)
Sweep ==
    /\ Recording /\ stop = "no"
    /\ at' = "list" /\ still' = TRUE
    /\ UNCHANGED <<stop, done, outstanding>>

(* try_completed while it records, wait_completed while it settles.        *)
Collect ==
    /\ Recording /\ done > 0
    /\ done' = done - 1 /\ outstanding' = outstanding - 1
    /\ UNCHANGED <<at, stop, still>>

Stop ==
    /\ Recording /\ stop = "no"
    /\ stop' = "settle"
    /\ UNCHANGED <<at, done, outstanding, still>>

(* settle_archive: rotated, and every rotation's result seen.              *)
Settled == open = NoWindow /\ outstanding = 0

FinalPass ==
    /\ Recording /\ stop = "settle" /\ Settled
    /\ stop' = "final"
    /\ at' = "list" /\ still' = TRUE
    /\ UNCHANGED <<done, outstanding>>

(* The shipper takes an object, and the manifest with it.                  *)
Ship(w) ==
    /\ w \in objects
    /\ objects' = objects \ {w} /\ manifests' = manifests \ {w}
    /\ shipped' = shipped \cup {w}
    /\ UNCHANGED <<at, writerVars, working, recovered, retained, custody, publishVars, outstanding,
                   passVars, given, still, run, faults>>

(* The process dies: what it knew is gone, what is on the disk stays.      *)
Crash ==
    /\ at \notin {"down", "exited"} /\ run < MaxRuns
    /\ at' = "down" /\ stop' = "no" /\ open' = NoWindow /\ seq' = 0 /\ number' = [w \in {} |-> 0]
    /\ custody' = [n \in Number |-> "none"]
    /\ jobs' = <<>> /\ job' = NoJob /\ step' = "idle" /\ done' = 0 /\ outstanding' = 0
    /\ listed' = {} /\ names' = {} /\ residue' = {} /\ plan' = <<>> /\ need' = 0
    /\ kept' = NoWindow /\ floor' = NoWindow
    /\ still' = FALSE
    /\ UNCHANGED <<next, truncated, diskVars, temps, shipped, given, run, faults>>

(* adopt_dead_segments: all but those whose rename fails.                  *)
Adopted(stuck) ==
    /\ recovered' = recovered \cup ({working[n] : n \in Number \ stuck} \ {NoWindow})
    /\ working' = [n \in Number |-> IF n \in stuck THEN working[n] ELSE NoWindow]

(* ArchiveWriter::new: sweep the dead run's files, number from zero.       *)
Start ==
    /\ at \in {"down", "exited"} /\ run < MaxRuns
    /\ at' = "write" /\ run' = run + 1
    /\ seq' = 0 /\ number' = [w \in {} |-> 0]
    /\ temps' = {}
    /\ \E stuck \in SUBSET {n \in Number : working[n] # NoWindow} :
           /\ Adopted(stuck)
           /\ IF stuck = {} THEN UNCHANGED faults ELSE Fault
    /\ stop' = "no" /\ still' = FALSE
    /\ listed' = {} /\ floor' = NoWindow
    /\ UNCHANGED <<next, open, truncated, retained, objects, manifests, shipped, custody, jobs, job,
                   step, done, outstanding, names, residue, plan, need, kept, given>>

Write == OpenSegment \/ Abandon
RotateAt == Rotate \/ CloseFails
RetentionPass ==
    \/ ListCompleted \/ ListStaging \/ (\E n \in Number : Classify(n))
    \/ PlanEviction \/ Evict \/ EndPass

Next ==
    \/ Start \/ Crash
    \/ Write \/ RotateAt \/ Sweep \/ Collect \/ Stop \/ FinalPass
    \/ RetentionPass \/ Publish
    \/ \E w \in Window : Ship(w)

(* Both threads keep running, and a process that is stopping rotates.      *)
Fairness ==
    /\ WF_vars(Publish) /\ WF_vars(RetentionPass) /\ WF_vars(Collect)
    /\ WF_vars(stop = "settle" /\ (RotateAt \/ FinalPass))

Spec == Init /\ [][Next]_vars /\ Fairness

-----------------------------------------------------------------------------
(* What holds.                                                             *)

InStaging == ({working[n] : n \in Number} \ {NoWindow}) \cup recovered \cup retained
Files == Cardinality({n \in Number : working[n] # NoWindow})
         + Cardinality(recovered) + Cardinality(retained) + Cardinality(objects)

(* Types, and a window is in staging under one name only.                  *)
ArchTypeOK ==
    /\ at \in {"down", "write", "list", "staging", "classify", "evict", "exited"}
    /\ stop \in {"no", "settle", "final"}
    /\ next \in 1 .. NumWindows + 1 /\ open \in Window \cup {NoWindow} /\ seq \in Number
    /\ working \in [Number -> Window \cup {NoWindow}]
    /\ custody \in [Number -> {"none", "queued", "inflight"}]
    /\ \A S \in {recovered, retained, temps, objects, manifests, shipped, given, truncated} :
           S \subseteq 1 .. next - 1
    /\ outstanding = Len(jobs) + done + IF step = "idle" THEN 0 ELSE 1
    /\ need \in Int /\ Len(plan) <= need + StagingMax /\ floor \in Window \cup {NoWindow}
    /\ Files = Cardinality(InStaging) + Cardinality(objects)

(* Eviction never takes the open segment, nor the one the compressor reads *)
(* (compress.rs: "the one file eviction must never take").                 *)
InUseIsLeftAlone ==
    /\ open # NoWindow => working[seq] = open
    /\ step \in {"seal", "manifest", "object", "source"} /\ job.whole =>
           working[job.number] = job.window

(* The shipper never finds an object without its manifest (publish).       *)
ObjectHasManifest == objects \subseteq manifests

(* Whatever fails or dies, a window is on the disk, landed, counted as     *)
(* evicted, or lost to a rename that failed twice.                         *)
NothingVanishes ==
    1 .. next - 1 \subseteq InStaging \cup objects \cup shipped \cup given \cup truncated

(* Within a run every number below segment_seq was spent on one window, so *)
(* the objects' numbers have a gap for each window that did not land.      *)
LostLeavesGap ==
    /\ \A v, w \in DOMAIN number : number[v] = number[w] => v = w
    /\ {number[w] : w \in DOMAIN number \ {open}} = 0 .. seq - 1

(* A pass under which nothing else moved leaves the budget and three files *)
(* at most, the open segment, the one being published and the newest of    *)
(* the queue: a publication that hangs does not fill the disk (enforce).   *)
One(b) == IF b THEN 1 ELSE 0
Transient ==
    One(working[seq] # NoWindow) + One(step # "idle" /\ working[job.number] # NoWindow)
    + One(jobs # <<>>)
BudgetIsMet == at \in {"write", "exited"} /\ still => Files <= StagingMax + Transient

(* retained_floor_ns after a pass: no object the pass saw is older, and    *)
(* the one it names was there.                                             *)
FloorIsOldest ==
    at \in {"write", "exited"} =>
        /\ \A e \in listed : OnDisk(e) => floor \in 1 .. e.id
        /\ floor # NoWindow => floor \in objects \cup retained \cup shipped

(* A run that is stopped without a fault has everything landed or counted. *)
ShutdownLosesNothing ==
    at = "exited" /\ faults = 0 => DOMAIN number \subseteq objects \cup shipped \cup given

(* Every window is accounted for, by a file, a count or a gap.             *)
WindowsAccounted ==
    ArchTypeOK /\ NothingVanishes /\ LostLeavesGap /\ ShutdownLosesNothing

(* settle_archive comes back: every rotation has a result to wait for.     *)
SettleReturns == stop = "settle" ~> at \in {"exited", "down"}
=============================================================================
