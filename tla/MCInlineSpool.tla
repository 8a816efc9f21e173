---------------------------- MODULE MCInlineSpool ----------------------------
(* Three windows, room for two of them, two grains.                        *)
EXTENDS InlineSpool
=============================================================================
