--------------------------- MODULE MCInlineCapture ---------------------------
(* Two slots, windows of two datagrams, drop deltas of none or three.             *)
EXTENDS InlineCapture
=============================================================================
