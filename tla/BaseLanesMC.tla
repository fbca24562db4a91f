---------------------------- MODULE BaseLanesMC ----------------------------
EXTENDS BaseLanes

(* The tick of artifact_cache.c in short: a gathering with its broadcast,   *)
(* a second broadcast, a plain segment.                                     *)
MCTick == <<"gather", "get", "put", "get", "none">>
=============================================================================
