----------------------------- MODULE LoadLedger ------------------------------
(***************************************************************************)
(* The ledger of what has been loaded: an append-only file of one line per *)
(* entry, and what the running process remembers of it.  A write that      *)
(* fails, or a crash in the middle of one, may leave a line without its    *)
(* end, and the next append continues that line.                           *)
(***************************************************************************)

(* lines: the entries of the whole lines; open: the last line has no end;  *)
(* tail: the entry a reader can parse on that line, if any; loaded: the    *)
(* entries the process remembers.                                          *)
EmptyLedger == [lines |-> {}, open |-> FALSE, tail |-> {}, loaded |-> {}]

Readable(ledger) == ledger.lines \cup ledger.tail

(* Ledger::open drops the lines it cannot parse.                           *)
Opened(ledger) == [ledger EXCEPT !.loaded = Readable(ledger)]

(* The process dies and what it remembered with it.                        *)
Forgotten(ledger) == [ledger EXCEPT !.loaded = {}]

(* The bytes of e and its newline are appended.  Behind an open line they  *)
(* make one line that nobody can parse.                                    *)
Appended(ledger, e) ==
    [ledger EXCEPT !.lines = IF ledger.open THEN @ ELSE @ \cup {e},
                   !.open = FALSE, !.tail = {}]

(* The append of e stops before the newline, within e or behind it.        *)
Cut(ledger, e) ==
    {[ledger EXCEPT !.open = TRUE, !.tail = t] :
        t \in IF ledger.open THEN {{}} ELSE {{}, {e}}}

(* Ledger::record that succeeds: appended, synced, remembered.             *)
Recorded(ledger, e) == [Appended(ledger, e) EXCEPT !.loaded = @ \cup {e}]

(* Ledger::record that fails: before the write, in the middle of it, or at *)
(* the sync behind it.                                                     *)
RecordFailures(ledger, e) == {ledger, Appended(ledger, e)} \cup Cut(ledger, e)

IsLoaded(ledger, e) == e \in ledger.loaded
=============================================================================
