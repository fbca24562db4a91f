----------------------------- MODULE SeaScopeMC -----------------------------
(* SeaScope for a function with one parameter and one more name.           *)
EXTENDS SeaScope

Args == <<"x">>
=============================================================================
