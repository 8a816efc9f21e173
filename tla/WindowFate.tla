----------------------------- MODULE WindowFate ------------------------------
(***************************************************************************)
(* What the spool promises for each window of rows: once it is spooled it  *)
(* stays so, through any crash, until its rows are in the column store and *)
(* an entry says so, or until it is given up; and neither is ever undone.  *)
(***************************************************************************)

CONSTANT Window

VARIABLES
    fate,       \* each window: "open", "spooled", "recorded" or "lost"
    landed      \* the windows whose rows are whole in the store

vars == <<fate, landed>>

Init == fate = [w \in Window |-> "open"] /\ landed = {}

Becomes(S, f) == fate' = [w \in Window |-> IF w \in S THEN f ELSE fate[w]]

Spool(w) == fate[w] = "open" /\ Becomes({w}, "spooled") /\ UNCHANGED landed

(* Rows may still land when their window has been given up.                *)
Land(S) == landed' = landed \cup S /\ UNCHANGED fate

Record(w) ==
    /\ fate[w] = "spooled" /\ w \in landed
    /\ Becomes({w}, "recorded")
    /\ UNCHANGED landed

GiveUp(S) ==
    /\ \A w \in S : fate[w] \in {"open", "spooled"}
    /\ Becomes(S, "lost")
    /\ UNCHANGED landed

Next ==
    \/ \E w \in Window : Spool(w) \/ Record(w)
    \/ \E S \in SUBSET Window : Land(S) \/ GiveUp(S)

Spec == Init /\ [][Next]_vars
=============================================================================
