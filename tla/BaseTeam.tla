------------------------------ MODULE BaseTeam ------------------------------
(***************************************************************************)
(* What the lanes of base/base_entry_point.c promise each other, without    *)
(* barriers, shared memory or condition variables: they do the segments of  *)
(* one round after the other, nobody begins a segment before everybody has  *)
(* finished the one before, and at the end of a round either all go on or    *)
(* all leave, as the first lane found when it finished segment Decide.      *)
(***************************************************************************)
EXTENDS Naturals

CONSTANTS
  Lane,   (* The threads of the team.                 *)
  Lead,   (* Lane 0.                                  *)
  Decide, (* The segment in which the lead looks up.  *)
  Final   (* The last segment of a round.             *)

Out == 0

VARIABLES
  at,       (* The segment a lane is in, or Out          *)
  finished, (* The lanes that have finished theirs       *)
  leave     (* What the lead found the last time         *)

vars == <<at, finished, leave>>

Init == at = [l \in Lane |-> 1] /\ finished = {} /\ leave = FALSE

Following(k) == IF k < Final THEN k + 1 ELSE IF leave THEN Out ELSE 1

Finish(l) ==
  /\ at[l] # Out /\ l \notin finished
  /\ finished' = finished \cup {l}
  /\ IF l = Lead /\ at[l] = Decide THEN leave' \in BOOLEAN ELSE UNCHANGED leave
  /\ UNCHANGED at

Proceed(l) ==
  /\ l \in finished
  /\ \A m \in Lane : (at[m] = at[l] /\ m \in finished) \/ at[m] = Following(at[l])
  /\ at' = [at EXCEPT ![l] = Following(at[l])]
  /\ finished' = finished \ {l}
  /\ UNCHANGED leave

Next == \E l \in Lane : Finish(l) \/ Proceed(l)

Spec == Init /\ [][Next]_vars
=============================================================================
