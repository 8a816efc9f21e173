----------------------------- MODULE MCEraStore ------------------------------
(* Two channel instances, eras modulo three and one idle start in a row.   *)
EXTENDS EraStore

CONSTANTS tob, mbp
=============================================================================
