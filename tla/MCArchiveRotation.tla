-------------------------- MODULE MCArchiveRotation --------------------------
(* Three windows under a budget of one file, with a restart and two        *)
(* faults, but not all of them in one behaviour.                           *)
EXTENDS ArchiveRotation

MCEvents == next + faults + run <= 6 \/ next <= 3
MCInit == Init
MCNext == Next /\ MCEvents'
MCSpec == MCInit /\ [][MCNext]_vars /\ Fairness
=============================================================================
