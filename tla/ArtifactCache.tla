--------------------------- MODULE ArtifactCache ---------------------------
(***************************************************************************)
(* The actions of artifact_cache/artifact_cache.c on one cache with one     *)
(* slot: clients look an artifact up and may wait for it, the lanes of      *)
(* BaseLanes evict artifacts and do the requests, a thread marks nodes      *)
(* nobody waits for. FileStream says what a request computes and composes   *)
(* the actions.                                                            *)
(* How long ago a node was touched is left open: a node without access may  *)
(* expire at any time. A timed wait may end at any time too; that of        *)
(* os_core_linux.c does, as it compares the clock since boot with the date. *)
(***************************************************************************)
EXTENDS Integers, Sequences, FiniteSets

CONSTANTS
  Key, Client,
  Lane, Lead,  (* The async lanes, and the one with index 0                *)
  Calls        (* Records [key, fresh, high, wide]: what is asked for, with *)
               (* which flags                                              *)

None == "none"

ASSUME CacheAssumption ==
  /\ Lead \in Lane /\ IsFiniteSet(Lane) /\ IsFiniteSet(Client)
  /\ None \notin Client \cup Key
  /\ Calls \subseteq [key : Key, fresh : BOOLEAN, high : BOOLEAN, wide : BOOLEAN]

VARIABLES
  node,     (* By key: the AC_Node, or Absent                              *)
  batch,    (* req_batches: 1 of high, 2 of low priority                   *)
  tasks,    (* What is left of the batches gathered in this tick           *)
  hand,     (* The request a lane computes                                 *)
  phase,    (* How far the tick is ...                                     *)
  prio,     (* ... and with which of the tasks                             *)
  taken,    (* Wide requests done; then req_take_counter                   *)
  over,     (* Lanes that are through with the thin requests               *)
  stopped,  (* cancelled: the rest is left to the next tick                *)
  urgent,   (* async_loop_again_high_priority                              *)
  pc, call, (* How far a client is with which call, of which generation    *)
  need,     (* need_request, of the clients                                *)
  got,      (* got_artifact                                                *)
  writer,   (* Who holds the stripe's lock over several steps              *)
  mutex     (* Who holds rwlock_mutex_handle of the condition variable     *)

tickVars == <<tasks, hand, phase, prio, taken, over, stopped>>
clientVars == <<pc, call, need, got>>
lockVars == <<writer, mutex>>
cacheVars == <<node, batch, tickVars, urgent, clientVars, lockVars>>

(* Data, as it compares with what the file has now.                         *)
Data == {"nothing", "same", "other"}

Absent == [present |-> FALSE, working |-> 0, gen |-> 0, completed |-> FALSE,
           cancelled |-> FALSE, refs |-> 0, content |-> "nothing"]
(* Mistake: the request of the first caller is not counted.                 *)
FreshIdle == [Absent EXCEPT !.present = TRUE]
Fresh == [Absent EXCEPT !.present = TRUE, !.working = 1]

Empty == [wide |-> <<>>, thin |-> <<>>]
Queue(wide) == IF wide THEN "wide" ELSE "thin"
NoCall == [key |-> None, gen |-> 0, fresh |-> FALSE, high |-> FALSE, wide |-> FALSE]
NotSeen == "not seen"   (* The lane has not looked at the file yet.         *)
NoRequest == [key |-> None, gen |-> 0, seen |-> NotSeen]

CacheInit ==
  /\ node = [k \in Key |-> Absent]
  /\ batch = [i \in {1, 2} |-> Empty] /\ tasks = batch
  /\ hand = [l \in Lane |-> NoRequest]
  /\ phase = "rest" /\ prio = 1 /\ taken = 0 /\ over = {} /\ stopped = FALSE
  /\ urgent = FALSE
  /\ pc = [c \in Client |-> "idle"] /\ call = [c \in Client |-> NoCall]
  /\ need = {} /\ got = {}
  /\ writer = None /\ mutex = None
-----------------------------------------------------------------------------
(* Clients: ac_artifact_from_key_.                                          *)

(* Nothing of a call is kept after it but the access.                       *)
Leave(c, hit) ==
  /\ pc' = [pc EXCEPT ![c] = IF hit THEN "hold" ELSE "idle"]
  /\ call' = [call EXCEPT ![c] = IF hit THEN [NoCall EXCEPT !.key = call[c].key] ELSE NoCall]

(* A call begins with a generation the caller has read.                     *)
Begin(c, w, gen) ==
  /\ pc[c] = "idle"
  /\ pc' = [pc EXCEPT ![c] = "fast"]
  /\ call' = [call EXCEPT ![c] = [key |-> w.key, gen |-> gen, fresh |-> w.fresh,
                                  high |-> w.high, wide |-> w.wide]]
  /\ UNCHANGED <<node, batch, tickVars, urgent, need, got, lockVars>>

(* The fast path, under the lock for reading.                               *)
Fast(c) ==
  LET k == call[c].key
      n == node[k]
      stale == n.gen # call[c].gen
      hit == n.present /\ n.completed /\ (~stale \/ ~call[c].fresh)
      ask == n.present /\ stale /\ n.working = 0
  IN
  /\ pc[c] = "fast" /\ writer = None
  /\ node' = [node EXCEPT ![k].working = IF ask THEN 1 ELSE @,
                          ![k].refs = IF hit THEN @ + 1 ELSE @]
  /\ got' = IF hit THEN got \cup {c} ELSE got
  /\ need' = IF ask THEN need \cup {c} ELSE need
  /\ IF hit /\ ~ask THEN Leave(c, TRUE)
     ELSE pc' = [pc EXCEPT ![c] = "slow"] /\ UNCHANGED call
  /\ UNCHANGED <<batch, tickVars, urgent, lockVars>>

(* One turn of the slow path, under the lock for writing: after the end     *)
(* time of the call (late) or before it. The turn ends with the lock        *)
(* dropped, or held on the way into the wait.                               *)
Turn(c, late) ==
  LET k == call[c].key
      n == IF node[k].present THEN node[k] ELSE Fresh
      ask == c \in need \/ ~node[k].present
      hit == /\ c \notin got /\ n.completed
             /\ n.gen = call[c].gen \/ ~call[c].fresh \/ late
      b == IF call[c].high THEN 1 ELSE 2
  IN
  /\ node' = [node EXCEPT ![k] = [n EXCEPT !.refs = IF hit THEN @ + 1 ELSE @]]
  /\ need' = need \ {c}
  /\ batch' = IF ask THEN [batch EXCEPT ![b][Queue(call[c].wide)] =
                             Append(@, [key |-> k, gen |-> call[c].gen, seen |-> NotSeen])]
              ELSE batch
  /\ urgent' = (urgent \/ (ask /\ call[c].high))
  /\ got' = IF hit THEN got \cup {c} ELSE got
  /\ IF c \in got' \/ late
     THEN Leave(c, c \in got') /\ writer' = None
     ELSE pc' = [pc EXCEPT ![c] = "enter"] /\ writer' = c /\ UNCHANGED call

Slow(c) ==
  /\ pc[c] = "slow" /\ writer = None
  /\ \E late \in BOOLEAN : Turn(c, late)
  /\ UNCHANGED <<tickVars, mutex>>

(* os_cond_var_wait_rw. The mutex of the condition variable stands in for   *)
(* the lock: it is taken while the lock is held, then the lock is dropped,  *)
(* and the wait drops the mutex ...                                         *)
Sleep(c) ==
  /\ pc[c] = "enter" /\ mutex = None
  /\ writer' = None
  /\ pc' = [pc EXCEPT ![c] = "asleep"]
  /\ UNCHANGED <<node, batch, tickVars, urgent, call, need, got, mutex>>

(* ... and comes back with the mutex ...                                    *)
Wake(c) ==
  /\ pc[c] = "asleep" /\ mutex = None
  /\ mutex' = c
  /\ pc' = [pc EXCEPT ![c] = "woken"]
  /\ UNCHANGED <<node, batch, tickVars, urgent, call, need, got, writer>>

(* Mistake: the mutex is not dropped at the end of the wait.                *)
RelockKeeping(c) ==
  /\ pc[c] = "woken" /\ writer = None
  /\ \E late \in BOOLEAN : Turn(c, late)
  /\ UNCHANGED <<tickVars, mutex>>

(* ... which is held while the lock is taken back.                          *)
Relock(c) ==
  /\ pc[c] = "woken" /\ writer = None
  /\ mutex' = None
  /\ \E late \in BOOLEAN : Turn(c, late)
  /\ UNCHANGED tickVars

(* access_close.                                                            *)
Close(c) ==
  /\ pc[c] = "hold"
  /\ node' = [node EXCEPT ![call[c].key].refs = @ - 1]
  /\ got' = got \ {c}
  /\ Leave(c, FALSE)
  /\ UNCHANGED <<batch, tickVars, urgent, need, lockVars>>
-----------------------------------------------------------------------------
(* The tick: ac_async_tick.                                                 *)

(* The lanes begin a round; async_thread_entry_point clears the signal.     *)
StartTick ==
  /\ phase = "rest" /\ phase' = "gather" /\ prio' = 1
  /\ urgent' = FALSE
  /\ UNCHANGED <<node, batch, tasks, hand, taken, over, stopped, clientVars, lockVars>>

(* Mistake: a held artifact expires.                                        *)
ExpiredHeld(n) == n.present
Expired(n) == n.present /\ n.refs = 0

(* The lanes evict each from slots of their own, and are not in step with   *)
(* the lead, which goes on to gather.                                      *)
Evict(k) ==
  /\ phase = "gather" /\ writer = None
  /\ Expired(node[k]) /\ node[k].working = 0
  /\ node' = [node EXCEPT ![k] = Absent]
  /\ UNCHANGED <<batch, tickVars, urgent, clientVars, lockVars>>

(* Each batch is emptied under its own mutex.                               *)
Gather ==
  /\ phase = "gather"
  /\ tasks' = [tasks EXCEPT ![prio] = batch[prio]]
  /\ batch' = [batch EXCEPT ![prio] = Empty]
  /\ IF prio = 1 THEN prio' = 2 /\ UNCHANGED phase ELSE prio' = 1 /\ phase' = "wide"
  /\ taken' = 0 /\ over' = {} /\ stopped' = FALSE
  /\ UNCHANGED <<node, hand, urgent, clientVars, lockVars>>

Rest == tasks[prio]
TakeFirst(l, queue) ==
  /\ hand' = [hand EXCEPT ![l] = Head(Rest[queue])]
  /\ tasks' = [tasks EXCEPT ![prio][queue] = Tail(@)]

(* Wide requests, all lanes at one: the first of low priority is done       *)
(* always, another only if nothing urgent came.                             *)
StopWide == prio = 2 /\ taken # 0 /\ urgent

TakeWide ==
  /\ phase = "wide" /\ hand[Lead] = NoRequest
  /\ IF Rest.wide = <<>> \/ StopWide
     THEN /\ phase' = "thin" /\ taken' = 0
          /\ stopped' = (stopped \/ (Rest.wide # <<>> /\ StopWide))
          /\ UNCHANGED <<tasks, hand>>
     ELSE /\ TakeFirst(Lead, "wide") /\ taken' = taken + 1
          /\ UNCHANGED <<phase, stopped>>
  /\ UNCHANGED <<node, batch, prio, over, urgent, clientVars, lockVars>>

(* Thin requests, each lane takes one after the other.                      *)
StopThin == prio = 2 /\ taken >= (taken + Len(Rest.thin)) \div 2 /\ urgent

TakeThin(l) ==
  /\ phase = "thin" /\ hand[l] = NoRequest /\ l \notin over
  /\ stopped' = (stopped \/ StopThin)
  /\ IF stopped' \/ Rest.thin = <<>>
     THEN over' = over \cup {l} /\ UNCHANGED <<tasks, hand, taken>>
     ELSE TakeFirst(l, "thin") /\ taken' = taken + 1 /\ UNCHANGED over
  /\ UNCHANGED <<node, batch, phase, prio, urgent, clientVars, lockVars>>

(* A request that is to be tried again goes back, unless its node has been  *)
(* marked; it is then forgotten.                                            *)
Resubmit(l) ==
  LET r == hand[l] IN
  /\ batch' = IF node[r.key].cancelled THEN batch
              ELSE [batch EXCEPT ![prio][phase] = Append(@, [r EXCEPT !.seen = NotSeen])]
  /\ hand' = [hand EXCEPT ![l] = NoRequest]
  /\ UNCHANGED <<node, tasks, phase, prio, taken, over, stopped, urgent, clientVars, lockVars>>

(* The value goes into the node, if there is one.                           *)
Complete(l, content) ==
  LET r == hand[l] IN
  /\ writer = None
  /\ node' = IF node[r.key].present
             THEN [node EXCEPT ![r.key] =
                     [node[r.key] EXCEPT !.gen = r.gen, !.content = content,
                                         !.working = @ - 1, !.completed = TRUE]]
             ELSE node
  /\ hand' = [hand EXCEPT ![l] = NoRequest]
  /\ UNCHANGED <<batch, tasks, phase, prio, taken, over, stopped, urgent, clientVars, lockVars>>

(* What was not done goes back into the batch of low priority.              *)
(* Mistake: only the wide requests.                                         *)
ReturnedWide == [batch[2] EXCEPT !.wide = @ \o Rest.wide]
Returned == [wide |-> batch[2].wide \o Rest.wide, thin |-> batch[2].thin \o Rest.thin]

EndTask ==
  /\ phase = "thin" /\ over = Lane /\ \A l \in Lane : hand[l] = NoRequest
  /\ taken' = 0 /\ over' = {} /\ stopped' = FALSE
  /\ IF prio = 1 THEN prio' = 2 /\ phase' = "wide" ELSE prio' = 1 /\ phase' = "files"
  /\ batch' = IF prio = 2 THEN [batch EXCEPT ![2] = Returned] ELSE batch
  /\ tasks' = [tasks EXCEPT ![prio] = Empty]
  /\ UNCHANGED <<node, hand, urgent, clientVars, lockVars>>

(* The cancel thread, which may look only during the tick.                  *)
Cancel(k) ==
  /\ phase \notin {"rest", "files"} /\ writer = None
  /\ Expired(node[k]) /\ node[k].working > 0
  /\ node' = [node EXCEPT ![k].cancelled = TRUE]
  /\ UNCHANGED <<batch, tickVars, urgent, clientVars, lockVars>>
=============================================================================
