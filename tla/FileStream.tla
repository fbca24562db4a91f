----------------------------- MODULE FileStream -----------------------------
(***************************************************************************)
(* Files read through the cache: file_stream/file_stream.c over             *)
(* ArtifactCache. A key is a range of a file. A read is good when the file  *)
(* has the same time stamp before and after it; the stamp is recorded for   *)
(* the path, and a tick that finds another stamp on the file gives the path *)
(* a new generation, which makes its artifacts stale.                       *)
(***************************************************************************)
EXTENDS ArtifactCache

CONSTANTS
  Path, PathOf,  (* The files, and the file of each key                     *)
  Written,       (* The files somebody writes; the others do not exist      *)
  MaxGen         (* Bound: generations of a path                            *)

ASSUME FileAssumption ==
  PathOf \in [Key -> Path] /\ Written \subseteq Path /\ MaxGen \in Nat

VARIABLES
  exists, (* The files that are there                                       *)
  info    (* FS_Node by path: known; whether last_modified_timestamp is the *)
          (* stamp the file has; gen                                        *)

vars == <<cacheVars, exists, info>>
fileVars == <<exists, info>>

Init ==
  /\ CacheInit
  /\ exists = {}
  /\ info = [p \in Path |-> [known |-> FALSE, same |-> FALSE, gen |-> 0]]

Nodes == [present : BOOLEAN, working : {0, 1}, gen : 0 .. MaxGen, completed : BOOLEAN,
          cancelled : BOOLEAN, refs : 0 .. Cardinality(Client), content : Data]
Requests == [key : Key, gen : 0 .. MaxGen, seen : Data \cup {NotSeen}]
Batches == [{1, 2} -> [wide : Seq(Requests), thin : Seq(Requests)]]
Access == [key : Key \cup {None}, gen : 0 .. MaxGen, fresh : BOOLEAN, high : BOOLEAN,
           wide : BOOLEAN]
ClientPc == {"idle", "fast", "slow", "enter", "asleep", "woken", "hold"}

TypeOK ==
  /\ node \in [Key -> Nodes] /\ \A k \in Key : node[k].present \/ node[k] = Absent
  /\ batch \in Batches /\ tasks \in Batches
  /\ hand \in [Lane -> Requests \cup {NoRequest}]
  /\ phase \in {"rest", "gather", "wide", "thin", "files"} /\ prio \in {1, 2}
  /\ pc \in [Client -> ClientPc] /\ call \in [Client -> Access]
  /\ need \cup got \subseteq Client
  /\ writer \in Client \cup {None} /\ mutex \in Client \cup {None}
  /\ exists \subseteq Path
  /\ info \in [Path -> [known : BOOLEAN, same : BOOLEAN, gen : 0 .. MaxGen]]
-----------------------------------------------------------------------------
(* fs_key_from_path_range reads the generation of the path first.           *)
Call(c) == \E w \in Calls : Begin(c, w, info[PathOf[w.key]].gen)

(* fs_artifact_create: the stamp before the read ...                        *)
Looked(l) == hand[l] # NoRequest /\ hand[l].seen # NotSeen

Look(l) ==
  /\ hand[l] # NoRequest /\ ~Looked(l)
  /\ hand' = [hand EXCEPT ![l].seen = 
              IF PathOf[hand[l].key] \in exists THEN "same" ELSE "nothing"]
  /\ UNCHANGED <<node, batch, tasks, phase, prio, taken, over, stopped, urgent,
                 clientVars, lockVars, fileVars>>

(* ... and the one after it. Without a file before there is no data, and    *)
(* nothing to try again; a read can fail though the stamp is the same.      *)
ReadGood(l) ==
  /\ Looked(l) /\ hand[l].seen = "same"
  /\ info' = [info EXCEPT ![PathOf[hand[l].key]] =
                [@ EXCEPT !.known = TRUE, !.same = TRUE]]
  /\ Complete(l, hand[l].seen)
  /\ UNCHANGED exists

ReadNone(l) ==
  /\ Looked(l) /\ hand[l].seen = "nothing"
  /\ Complete(l, "nothing")
  /\ UNCHANGED fileVars

ReadBad(l) ==
  /\ Looked(l) /\ hand[l].seen # "nothing"
  /\ Resubmit(l)
  /\ UNCHANGED fileVars

(* fs_async_tick, after the tick of the cache in the same round.            *)
(* Mistake: the new stamp is recorded, the generation not raised.           *)
BumpedStamp(i) == IF i.known /\ ~i.same THEN [i EXCEPT !.same = TRUE] ELSE i
Bumped(i) == IF i.known /\ ~i.same /\ i.gen < MaxGen THEN [i EXCEPT !.gen = @ + 1] ELSE i

TickFiles ==
  /\ phase = "files" /\ phase' = "rest"
  /\ info' = [p \in Path |-> Bumped(info[p])]
  /\ UNCHANGED <<node, batch, tasks, hand, prio, taken, over, stopped, urgent,
                 clientVars, lockVars, exists>>

(* Somebody writes a file: what was the same is so no more.                 *)
Outdated(data) == IF data = "same" THEN "other" ELSE data

Write(p) ==
  /\ p \in Written
  /\ exists' = exists \cup {p}
  /\ node' = [k \in Key |-> IF PathOf[k] = p
                            THEN [node[k] EXCEPT !.content = Outdated(@)] ELSE node[k]]
  /\ hand' = [l \in Lane |-> IF hand[l] # NoRequest /\ PathOf[hand[l].key] = p
                             THEN [hand[l] EXCEPT !.seen = Outdated(@)] ELSE hand[l]]
  /\ info' = [info EXCEPT ![p].same = FALSE]
  /\ UNCHANGED <<batch, tasks, phase, prio, taken, over, stopped, urgent, clientVars, lockVars>>
-----------------------------------------------------------------------------
ClientStep(c) == Fast(c) \/ Slow(c) \/ Sleep(c) \/ Wake(c) \/ Relock(c) \/ Close(c)

Tick ==
  \/ StartTick \/ Gather \/ TakeWide \/ EndTask
  \/ \E l \in Lane : TakeThin(l)
  \/ \E k \in Key : Evict(k) \/ Cancel(k)

Create(l) == Look(l) \/ ReadGood(l) \/ ReadNone(l) \/ ReadBad(l)

Next ==
  \/ (\E c \in Client : Call(c) \/ ClientStep(c)) /\ UNCHANGED fileVars
  \/ Tick /\ UNCHANGED fileVars
  \/ \E l \in Lane : Create(l)
  \/ TickFiles
  \/ \E p \in Path : Write(p)

Spec == Init /\ [][Next]_vars
-----------------------------------------------------------------------------
Holders(k) == {c \in got : call[c].key = k}

(* An artifact somebody holds is not evicted, and the count of accesses is  *)
(* that of the holders: none is lost or counted twice by the two paths, the *)
(* eviction and the closing of accesses, which share no lock.               *)
HeldStays == \A k \in Key : /\ node[k].refs = Cardinality(Holders(k))
                            /\ Holders(k) # {} => node[k].present

In(k, seq) == Cardinality({i \in DOMAIN seq : seq[i].key = k})
InFlight(k) ==
  In(k, batch[1].wide) + In(k, batch[1].thin) + In(k, batch[2].wide) + In(k, batch[2].thin)
  + In(k, tasks[1].wide) + In(k, tasks[1].thin) + In(k, tasks[2].wide) + In(k, tasks[2].thin)
  + Cardinality({l \in Lane : hand[l].key = k})
  + Cardinality({c \in need : call[c].key = k})

(* A node has at most one request on its way, through tries, leftovers and  *)
(* ticks; a node with a request stays, so that the pointer the request has  *)
(* into it is good. Only a marked node may count a request that was dropped.*)
OneRequest ==
  \A k \in Key : \/ node[k].working = InFlight(k)
                 \/ node[k].cancelled /\ node[k].working = 1 /\ InFlight(k) = 0

(* Cached data that is not what the file has is noticed: the path's stamp   *)
(* is not the file's, so that the next tick gives it a generation, or its   *)
(* generation is not the artifact's, or a request is on its way. Two holes: *)
(* the stamp is recorded for the path by a read of another range, and a     *)
(* file that was not there when it was read has no record at all.           *)
OtherRange(k) == \E j \in Key \ {k} : PathOf[j] = PathOf[k]
ChangesSeen ==
  \A k \in Key :
    LET i == info[PathOf[k]] IN
    node[k].completed /\ node[k].content = "other" =>
      \/ i.known /\ (~i.same \/ i.gen # node[k].gen)
      \/ InFlight(k) > 0
      \/ OtherRange(k)

(* Clients wait for each other in one way only: one holds the lock and      *)
(* wants the mutex to go to sleep, another holds the mutex and wants the    *)
(* lock back.                                                              *)
Blocked(c) == IF pc[c] \in {"enter", "asleep"} THEN mutex # None ELSE writer # None
Inverted == \E c, d \in Client : /\ pc[c] = "enter" /\ writer = c
                                 /\ pc[d] = "woken" /\ mutex = d
OnlyInversion ==
  LET busy == {c \in Client : pc[c] \notin {"idle", "hold"}} IN
  busy # {} /\ (\A c \in busy : Blocked(c)) => Inverted
=============================================================================
