------------------------- MODULE MCInstrumentRegistry -------------------------
(* Two symbols, five IDs, half-second ticks and a horizon of one second.   *)
EXTENDS InstrumentRegistry

CONSTANTS a, b
=============================================================================
