---------------------------- MODULE SeaSymbolsMC ----------------------------
(* SeaSymbols with four names, two of which share a bucket.                *)
EXTENDS SeaSymbols

Buckets == [x \in Name |-> CASE x \in {"simp", "ad"} -> 0 [] x = "main" -> 1 [] OTHER -> 2]
=============================================================================
