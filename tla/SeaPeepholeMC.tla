--------------------------- MODULE SeaPeepholeMC ---------------------------
(* SeaPeephole with integers of three or four bits.                        *)
EXTENDS SeaPeephole

(* A parameter; and beside it the phi of a loop that is still parsed.      *)
Parameter == <<S64>>
ParameterAndPhi == <<S64, Null>>
=============================================================================
