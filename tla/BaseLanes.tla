----------------------------- MODULE BaseLanes -----------------------------
(***************************************************************************)
(* The lanes of base/base_entry_point.c: threads that go through the same   *)
(* round together, kept in step by barriers (base/base_thread_context.c),   *)
(* until the main thread has them leave. A segment is what a lane does up   *)
(* to its next barrier. The segments in the middle of a round are a         *)
(* constant: what the layers of the build do in their ticks.                *)
(***************************************************************************)
EXTENDS Naturals, Sequences

CONSTANTS
  Lane,   (* The async threads; all of them share one barrier.             *)
  Lead,   (* The lane with index 0.                                        *)
  Tick    (* The segments of the layers' ticks.                            *)

(* A plain segment ends in lane_sync. lane_sync_u64 ends two: before its    *)
(* first barrier the lead puts a value into the shared memory, before the   *)
(* second the others get it. In "gather" the lead empties the requests of   *)
(* the main thread and puts what it found.                                 *)
Kinds == {"none", "put", "gather", "get"}

ASSUME LanesAssumption ==
  /\ Lead \in Lane
  /\ Tick \in Seq(Kinds)
  /\ \A k \in 1 .. Len(Tick) :
       Tick[k] \in {"put", "gather"} => k < Len(Tick) /\ Tick[k + 1] = "get"
  /\ \A k \in 1 .. Len(Tick) :
       Tick[k] = "get" => k > 1 /\ Tick[k - 1] \in {"put", "gather"}

Out == 0
Final == Len(Tick) + 4
Decide == Final - 1

(* A round of async_thread_entry_point.                                    *)
Loop == <<"begin">> \o Tick \o <<"none", "decide", "get">>

VARIABLES
  pos,      (* The segment a lane is in, or Out when its thread ended        *)
  arrived,  (* Lanes that wait at the barrier                                *)
  released, (* Lanes the barrier let go that have not yet run again          *)
  wake,     (* How far the lead is with waiting for the start of a round     *)
  memory,   (* lane_broadcast_val                                            *)
  own,      (* own[l][k]: lane l's local variable that segment k broadcasts  *)
  again,    (* async_loop_again                                              *)
  exit,     (* global_async_exit                                             *)
  main,     (* How far the main thread is                                    *)
  asked     (* A request of the main thread has not been gathered            *)

barrierVars == <<pos, arrived, released, own>>
mainVars == <<exit, main>>
vars == <<pos, arrived, released, wake, memory, own, again, exit, main, asked>>

TypeOK ==
  /\ pos \in [Lane -> 0 .. Final]
  /\ arrived \subseteq Lane /\ released \subseteq Lane
  /\ wake \in {"check", "wait", "clear", "done"}
  /\ memory \in BOOLEAN
  /\ own \in [Lane -> [1 .. Final -> BOOLEAN]]
  /\ again \in BOOLEAN /\ exit \in BOOLEAN /\ asked \in BOOLEAN
  /\ main \in {"run", "pushed", "told", "leave", "join", "left"}

Init ==
  /\ pos = [l \in Lane |-> 1]
  /\ arrived = {} /\ released = {}
  /\ wake = "check"
  /\ memory = FALSE
  /\ own = [l \in Lane |-> [k \in 1 .. Final |-> FALSE]]
  /\ again = FALSE /\ exit = FALSE /\ asked = FALSE
  /\ main = "run"
-----------------------------------------------------------------------------
(* The lead's wait for the start of a round.                                *)

Begins == pos[Lead] # Out /\ Loop[pos[Lead]] = "begin" /\ Lead \notin arrived \cup released

Check ==
  /\ Begins /\ wake = "check"
  /\ wake' = IF again THEN "clear" ELSE "wait"
  /\ UNCHANGED <<barrierVars, memory, again, mainVars, asked>>

(* Mistake: the wait has no end time, and nobody but main ends it.          *)
TimeoutNever ==
  /\ wake = "wait" /\ wake' = "wait"
  /\ UNCHANGED <<barrierVars, memory, again, mainVars, asked>>

(* The condition variable is waited for with an end time, one second on.    *)
Timeout ==
  /\ wake = "wait"
  /\ wake' = "clear"
  /\ UNCHANGED <<barrierVars, memory, again, mainVars, asked>>

Clear ==
  /\ wake = "clear"
  /\ wake' = "done"
  /\ again' = FALSE
  /\ UNCHANGED <<barrierVars, memory, mainVars, asked>>
-----------------------------------------------------------------------------
(* A lane does its segment and comes to the barrier.                        *)

(* Mistake: the lead stores the value it found, but never sends it.         *)
PutNothing(v) ==
  /\ own' = [own EXCEPT ![Lead][pos[Lead]] = v]
  /\ UNCHANGED memory

Put(v) ==
  /\ memory' = v
  /\ own' = [own EXCEPT ![Lead][pos[Lead]] = v]

PutOne == \E v \in BOOLEAN : Put(v) /\ UNCHANGED asked
Gather == Put(asked) /\ asked' = FALSE
PutExit == Put(exit) /\ UNCHANGED asked

Get(l) ==
  /\ own' = IF l = Lead THEN own ELSE [own EXCEPT ![l][pos[l] - 1] = memory]
  /\ UNCHANGED <<memory, asked>>

DoNothing == UNCHANGED <<memory, own, asked>>

Segment(l) ==
  LET kind == Loop[pos[l]] IN
  IF kind = "get" THEN Get(l)
  ELSE IF l # Lead THEN DoNothing
  ELSE CASE kind = "put" -> PutOne
         [] kind = "gather" -> Gather
         [] kind = "decide" -> PutExit
         [] kind \in {"begin", "none"} -> DoNothing

Ready(l) == l = Lead /\ Loop[pos[l]] = "begin" => wake = "done"

(* Mistake: a barrier for one thread less.                                  *)
CompleteEarly(present) == \E l \in Lane : present = Lane \/ present = Lane \ {l}

(* The barrier was made for all lanes: the last to come lets all go.        *)
Complete(present) == present = Lane

Arrive(l) ==
  /\ pos[l] # Out /\ l \notin arrived \cup released
  /\ Ready(l)
  /\ Segment(l)
  /\ IF Complete(arrived \cup {l})
     THEN arrived' = {} /\ released' = released \cup arrived \cup {l}
     ELSE arrived' = arrived \cup {l} /\ UNCHANGED released
  /\ UNCHANGED <<pos, wake, again, mainVars>>

(* Mistake: a lane that may stay does not go back to its start of a round.  *)
AfterOn(l) == IF own[l][Decide] /\ pos[l] = Final THEN Out ELSE pos[l] + 1

After(l) == IF pos[l] < Final THEN pos[l] + 1 ELSE IF own[l][Decide] THEN Out ELSE 1

Return(l) ==
  /\ l \in released
  /\ released' = released \ {l}
  /\ pos' = [pos EXCEPT ![l] = After(l)]
  /\ wake' = IF l = Lead /\ After(l) = 1 THEN "check" ELSE wake
  /\ UNCHANGED <<arrived, memory, own, again, mainVars, asked>>
-----------------------------------------------------------------------------
(* The main thread. It asks for an artifact: pushes a request, broadcasts   *)
(* without the mutex of the waiting lead, and only then sets                *)
(* async_loop_again. When its entry point returns it has the lanes leave.   *)

Wakened == IF wake = "wait" THEN "clear" ELSE wake

Push ==
  /\ main = "run" /\ main' = "pushed"
  /\ asked' = TRUE
  /\ UNCHANGED <<barrierVars, wake, memory, again, exit>>

Tell ==
  /\ main = "pushed" /\ main' = "told"
  /\ wake' = Wakened
  /\ UNCHANGED <<barrierVars, memory, again, exit, asked>>

SetAgain ==
  /\ main = "told" /\ main' = "run"
  /\ again' = TRUE
  /\ UNCHANGED <<barrierVars, wake, memory, exit, asked>>

Exit ==
  /\ main = "run" /\ main' = "leave"
  /\ exit' = TRUE
  /\ UNCHANGED <<barrierVars, wake, memory, again, asked>>

TellExit ==
  /\ main = "leave" /\ main' = "join"
  /\ wake' = Wakened
  /\ UNCHANGED <<barrierVars, memory, again, exit, asked>>

Join ==
  /\ main = "join" /\ \A l \in Lane : pos[l] = Out
  /\ main' = "left"
  /\ UNCHANGED <<barrierVars, wake, memory, again, exit, asked>>
-----------------------------------------------------------------------------
LaneStep(l) == Arrive(l) \/ Return(l)
LeadStep == Check \/ Timeout \/ Clear
MainStep == Push \/ Tell \/ SetAgain \/ Exit \/ TellExit \/ Join

Ended == main = "left" /\ UNCHANGED vars

Next == (\E l \in Lane : LaneStep(l)) \/ LeadStep \/ MainStep \/ Ended

Spec == Init /\ [][Next]_vars

(* The operating system runs every thread, and a timed wait ends. The main  *)
(* thread finishes a call it has begun, but need not end.                   *)
FairSpec ==
  /\ Spec
  /\ \A l \in Lane : WF_vars(LaneStep(l))
  /\ WF_vars(LeadStep)
  /\ WF_vars(Tell \/ SetAgain \/ TellExit \/ Join)
-----------------------------------------------------------------------------
(* A lane that is through the second barrier of a lane_sync_u64, or waits   *)
(* there, has the value the lead sent with it, however far the lead is:     *)
(* the lead does not write the memory again before all have read it.        *)
Heard ==
  \A l \in Lane : pos[l] # Out /\ Loop[pos[l]] = "get" /\ l \in arrived \cup released
    => own[l][pos[l] - 1] = own[Lead][pos[l] - 1]

(* The team of BaseTeam: nobody starts a segment early, all leave or none.  *)
Team == INSTANCE BaseTeam WITH
          at <- pos, finished <- arrived \cup released, leave <- own[Lead][Decide]
LanesInStep == Team!Spec

(* When the main thread wants to end, every lane ends and main is not left  *)
(* waiting for one, wherever the lanes were and if the broadcast is lost.   *)
AllLeave == exit ~> main = "left"

(* A request is gathered in the end, unless the lanes end first.            *)
RequestServed == asked ~> (~asked \/ exit)
=============================================================================
