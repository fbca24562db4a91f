---------------------------- MODULE SeaCodegenMC ----------------------------
(* SeaCodegen for functions of one and of two parameters.                  *)
EXTENDS SeaCodegen

One == <<"x">>
Two == <<"x", "a">>
=============================================================================
