-------------------------- MODULE FileStreamProofs --------------------------
(***************************************************************************)
(* Proofs about the artifact cache and the files read through it, for every *)
(* number of clients, lanes, keys and files: accesses are counted right, a  *)
(* node has at most one request on its way, a change of a file is noticed,  *)
(* and there is one way only in which clients block each other.             *)
(***************************************************************************)
EXTENDS FileStream, FiniteSetTheorems, SequenceTheorems, TLAPS

(* The types without the bounds of the two counters of a node, which follow *)
(* from what they count.                                                   *)
Entry == [present : BOOLEAN, working : Int, gen : 0 .. MaxGen, completed : BOOLEAN,
          cancelled : BOOLEAN, refs : Int, content : Data]

Nodes0 ==
  /\ node \in [Key -> Entry]
  /\ \A k \in Key : ~ node[k].present =>
       /\ ~ node[k].completed /\ ~ node[k].cancelled
       /\ node[k].working = 0 /\ node[k].gen = 0 /\ node[k].content = "nothing"
Queues ==
  /\ batch \in Batches /\ tasks \in Batches
  /\ hand \in [Lane -> Requests \cup {NoRequest}]
  /\ phase \in {"rest", "gather", "wide", "thin", "files"} /\ prio \in {1, 2}
  /\ \A l \in Lane : hand[l] # NoRequest => phase \in {"wide", "thin"}
Callers ==
  /\ pc \in [Client -> ClientPc] /\ call \in [Client -> Access]
  /\ need \subseteq Client /\ got \subseteq Client
  /\ writer \in Client \cup {None} /\ mutex \in Client \cup {None}
  /\ \A c \in Client : pc[c] # "idle" => call[c].key \in Key
Files == exists \subseteq Path /\ info \in [Path -> [known : BOOLEAN, same : BOOLEAN, gen : 0 .. MaxGen]]
Types == Nodes0 /\ Queues /\ Callers /\ Files

(* Who has an access, who has to ask, and who holds a lock over a step.     *)
Clients ==
  /\ \A c \in need : pc[c] = "slow"
  /\ \A c \in got : pc[c] \in {"slow", "hold"}
  /\ \A c \in Client : pc[c] = "hold" => c \in got
  /\ \A c \in Client : pc[c] = "enter" <=> writer = c
  /\ \A c \in Client : pc[c] = "woken" <=> mutex = c

(* A batch is gathered when the last one is done.                           *)
Doing == phase \in {"wide", "thin"}
Phases ==
  /\ phase \in {"rest", "files"} => tasks[1] = Empty /\ tasks[2] = Empty
  /\ phase = "gather" => tasks[2] = Empty /\ (prio = 1 => tasks[1] = Empty)
  /\ phase = "wide" => over = {}
  /\ Doing /\ prio = 2 => tasks[1] = Empty
  /\ Doing /\ prio = 1 => ~ stopped
  /\ phase = "thin" /\ prio = 1 =>
       tasks[1].wide = <<>> /\ (over # {} => tasks[1].thin = <<>>)

(* Data is in the cache only for a path that has a record, and is outdated  *)
(* only when the record is.                                                *)
Noticed ==
  \A k \in Key : ~ OtherRange(k) /\ node[k].completed =>
    /\ node[k].content # "nothing" => info[PathOf[k]].known
    /\ node[k].content = "other" => ~ info[PathOf[k]].same

(* A node counts its request.                                               *)
Counted(k) ==
  /\ node[k].working \in {0, 1}
  /\ \/ node[k].working = InFlight(k)
     \/ node[k].cancelled /\ node[k].working = 1 /\ InFlight(k) = 0
Requested == \A k \in Key : Counted(k)

IInv == Types /\ Clients /\ Phases /\ HeldStays /\ Requested /\ Noticed

-----------------------------------------------------------------------------
(* The requests for a key in a queue, and in all four of them.              *)
LEMMA InType ==
  ASSUME NEW k, NEW s \in Seq(Requests)
  PROVE  In(k, s) \in Nat /\ IsFiniteSet({i \in DOMAIN s : s[i].key = k})
<1>1. DOMAIN s = 1 .. Len(s) /\ Len(s) \in Nat BY LenProperties
<1>2. IsFiniteSet(1 .. Len(s)) BY <1>1, FS_Interval
<1>3. IsFiniteSet({i \in DOMAIN s : s[i].key = k}) BY <1>1, <1>2, FS_Subset
<1> QED BY <1>3, FS_CardinalityType DEF In

LEMMA InShort ==
  ASSUME NEW k, NEW r \in Requests
  PROVE  In(k, <<>>) = 0 /\ In(k, <<r>>) = IF r.key = k THEN 1 ELSE 0
<1>1. {i \in DOMAIN <<>> : <<>>[i].key = k} = {} BY EmptySeq
<1>2. DOMAIN <<r>> = {1} /\ <<r>>[1] = r OBVIOUS
<1>3. CASE r.key = k
  <2>1. {i \in DOMAIN <<r>> : <<r>>[i].key = k} = {1} BY <1>2, <1>3
  <2> QED BY <1>1, <1>3, <2>1, FS_EmptySet, FS_Singleton DEF In
<1>4. CASE r.key # k
  <2>1. {i \in DOMAIN <<r>> : <<r>>[i].key = k} = {} BY <1>2, <1>4
  <2> QED BY <1>1, <1>4, <2>1, FS_EmptySet DEF In
<1> QED BY <1>3, <1>4

LEMMA InConcat ==
  ASSUME NEW k, NEW s \in Seq(Requests), NEW t \in Seq(Requests)
  PROVE  In(k, s \o t) = In(k, s) + In(k, t)
<1> DEFINE A == {i \in DOMAIN s : s[i].key = k}
           B == {i \in DOMAIN t : t[i].key = k}
           C == {i \in Len(s) + 1 .. Len(s) + Len(t) : t[i - Len(s)].key = k}
           shift == [i \in B |-> Len(s) + i]
<1>1. /\ DOMAIN s = 1 .. Len(s) /\ Len(s) \in Nat /\ DOMAIN t = 1 .. Len(t) /\ Len(t) \in Nat
      /\ DOMAIN (s \o t) = 1 .. Len(s) + Len(t)
  BY LenProperties, ConcatProperties
<1>2. \A i \in 1 .. Len(s) + Len(t) :
         (s \o t)[i] = IF i <= Len(s) THEN s[i] ELSE t[i - Len(s)]
  BY ConcatProperties
<1>3. {i \in DOMAIN (s \o t) : (s \o t)[i].key = k} = A \cup C
  <2> SUFFICES ASSUME NEW i
               PROVE  i \in 1 .. Len(s) + Len(t) /\ (s \o t)[i].key = k <=> i \in A \cup C
    BY <1>1
  <2>1. CASE i \in 1 .. Len(s) BY <1>1, <1>2, <2>1
  <2>2. CASE i \in Len(s) + 1 .. Len(s) + Len(t) BY <1>1, <1>2, <2>2
  <2>3. CASE i \notin 1 .. Len(s) + Len(t) BY <1>1, <2>3
  <2> QED BY <1>1, <2>1, <2>2, <2>3
<1>4. A \cap C = {} BY <1>1
<1>5. shift \in Bijection(B, C)
  <2>1. shift \in [B -> C] BY <1>1
  <2>2. \A i \in B, j \in B : shift[i] = shift[j] => i = j BY <1>1
  <2>3. \A c \in C : \E i \in B : shift[i] = c
    <3> SUFFICES ASSUME NEW c \in C PROVE c - Len(s) \in B /\ shift[c - Len(s)] = c OBVIOUS
    <3> QED BY <1>1
  <2> QED BY <2>1, <2>2, <2>3 DEF Bijection, Injection, Surjection, IsInjective
<1>6. IsFiniteSet(A) /\ IsFiniteSet(B) BY InType
<1>7. A \cup C = {i \in DOMAIN (s \o t) : (s \o t)[i].key = k} BY <1>3
<1>8. Cardinality(A) = In(k, s) /\ Cardinality(B) = In(k, t) /\ Cardinality(A \cup C) = In(k, s \o t)
  BY <1>7 DEF In
<1> HIDE DEF A, B, C
<1>9. ExistsBijection(B, C)
  <2> HIDE DEF shift
  <2> QED BY <1>5 DEF ExistsBijection
<1>10. IsFiniteSet(C) /\ Cardinality(C) = Cardinality(B) BY <1>6, <1>9, FS_Bijection
<1>11. Cardinality(A \cup C) = Cardinality(A) + Cardinality(C) - Cardinality(A \cap C)
  BY <1>6, <1>10, FS_Union
<1>12. Cardinality(A \cap C) = 0 BY <1>4, FS_EmptySet
<1>13. In(k, s) \in Nat /\ In(k, t) \in Nat BY InType
<1> QED BY <1>8, <1>10, <1>11, <1>12, <1>13

LEMMA InAppend ==
  ASSUME NEW k, NEW s \in Seq(Requests), NEW r \in Requests
  PROVE  In(k, Append(s, r)) = In(k, s) + (IF r.key = k THEN 1 ELSE 0)
<1>1. Append(s, r) = s \o <<r>> /\ <<r>> \in Seq(Requests) BY AppendIsConcat
<1>2. In(k, s \o <<r>>) = In(k, s) + In(k, <<r>>) BY <1>1, InConcat
<1>3. In(k, <<r>>) = IF r.key = k THEN 1 ELSE 0 BY InShort
<1> QED BY <1>1, <1>2, <1>3

LEMMA InTail ==
  ASSUME NEW k, NEW s \in Seq(Requests), s # <<>>
  PROVE  /\ Head(s) \in Requests /\ Tail(s) \in Seq(Requests)
         /\ In(k, s) = In(k, Tail(s)) + (IF Head(s).key = k THEN 1 ELSE 0)
<1>1. /\ Head(s) \in Requests /\ Tail(s) \in Seq(Requests) /\ Len(Tail(s)) = Len(s) - 1
      /\ \A i \in 1 .. Len(Tail(s)) : Tail(s)[i] = s[i + 1]
  BY HeadTailProperties
<1> DEFINE h == Head(s)
           t == Tail(s)
<1>2. <<h>> \in Seq(Requests) /\ Len(<<h>>) = 1 /\ <<h>>[1] = h /\ h = s[1] BY <1>1
<1>3. Len(s) \in Nat \ {0} BY EmptySeq
<1> HIDE DEF h, t
<1>4. <<h>> \o t \in Seq(Requests) /\ Len(<<h>> \o t) = Len(s)
  BY <1>1, <1>2, <1>3, ConcatProperties DEF t
<1>5. ASSUME NEW i \in 1 .. Len(s) PROVE (<<h>> \o t)[i] = s[i]
  <2>1. i \in 1 .. Len(<<h>>) + Len(t) BY <1>1, <1>2, <1>3 DEF t
  <2>2. (<<h>> \o t)[i] = IF i <= 1 THEN <<h>>[i] ELSE t[i - 1]
    BY <1>1, <1>2, <2>1, ConcatProperties DEF t
  <2>3. CASE i = 1 BY <1>2, <2>2, <2>3
  <2>4. CASE i # 1
    <3>1. i - 1 \in 1 .. Len(t) /\ ~ (i <= 1) BY <1>1, <1>3, <2>4 DEF t
    <3> QED BY <1>1, <2>2, <3>1 DEF t
  <2> QED BY <2>3, <2>4
<1>6. s = <<h>> \o t BY <1>4, <1>5, SeqEqual
<1>7. In(k, s) = In(k, <<h>>) + In(k, t) BY <1>1, <1>2, <1>6, InConcat DEF t
<1>8. In(k, <<h>>) = IF h.key = k THEN 1 ELSE 0 BY <1>1, InShort DEF h
<1>9. In(k, t) \in Nat BY <1>1, InType DEF t
<1> QED BY <1>1, <1>7, <1>8, <1>9 DEF h, t

Pair == [wide : Seq(Requests), thin : Seq(Requests)]
Both(k, p) == In(k, p.wide) + In(k, p.thin)
Queued(k, q) == Both(k, q[1]) + Both(k, q[2])

LEMMA PairType ==
  ASSUME NEW q \in Batches
  PROVE  /\ q[1] \in Pair /\ q[2] \in Pair /\ Empty \in Pair
         /\ \A p \in Pair, k \in Key : Both(k, p) \in Nat
         /\ \A k \in Key : Queued(k, q) \in Nat /\ Both(k, Empty) = 0
<1>1. q[1] \in Pair /\ q[2] \in Pair BY DEF Batches, Pair
<1>2. Empty \in Pair BY DEF Empty, Pair
<1>3. ASSUME NEW e \in Pair, NEW k \in Key PROVE Both(k, e) \in Nat
  <2>1. e.wide \in Seq(Requests) /\ e.thin \in Seq(Requests) BY DEF Pair
  <2>2. In(k, e.wide) \in Nat /\ In(k, e.thin) \in Nat BY <2>1, InType
  <2> QED BY <2>2 DEF Both
<1>4. ASSUME NEW k \in Key PROVE Both(k, Empty) = 0
  <2>1. Empty.wide = <<>> /\ Empty.thin = <<>> BY DEF Empty
  <2>2. In(k, <<>>) = 0
    <3>1. {i \in DOMAIN <<>> : <<>>[i].key = k} = {} BY EmptySeq
    <3> QED BY <3>1, FS_EmptySet DEF In
  <2> QED BY <2>1, <2>2 DEF Both
<1> QED BY <1>1, <1>2, <1>3, <1>4 DEF Queued

(* The batches p and q are the same but for one batch, or for one queue.    *)
Apart(p, q, b) == \A c \in {1, 2} : c # b => p[c] = q[c]
Nearly(p, q, b, w) ==
  Apart(p, q, b) /\ \A v \in {"wide", "thin"} : v # w => p[b][v] = q[b][v]

LEMMA QueueSet ==
  ASSUME NEW q \in Batches, NEW p \in Batches, NEW b \in {1, 2}, Apart(p, q, b), NEW k \in Key
  PROVE  Queued(k, p) = Queued(k, q) - Both(k, q[b]) + Both(k, p[b])
<1>1. \A i \in {1, 2} : Both(k, q[i]) \in Nat /\ Both(k, p[i]) \in Nat
  BY PairType
<1>2. CASE b = 1 BY <1>1, <1>2 DEF Queued, Apart
<1>3. CASE b = 2 BY <1>1, <1>3 DEF Queued, Apart
<1> QED BY <1>2, <1>3

LEMMA QueueChange ==
  ASSUME NEW q \in Batches, NEW p \in Batches, NEW b \in {1, 2}, NEW w \in {"wide", "thin"},
         Nearly(p, q, b, w), NEW k \in Key
  PROVE  Queued(k, p) = Queued(k, q) - In(k, q[b][w]) + In(k, p[b][w])
<1>1. q[b] \in Pair /\ p[b] \in Pair BY PairType
<1>2. /\ In(k, q[b].wide) \in Nat /\ In(k, q[b].thin) \in Nat
      /\ In(k, p[b].wide) \in Nat /\ In(k, p[b].thin) \in Nat
  <2>1. /\ q[b].wide \in Seq(Requests) /\ q[b].thin \in Seq(Requests)
        /\ p[b].wide \in Seq(Requests) /\ p[b].thin \in Seq(Requests)
    BY <1>1 DEF Pair
  <2> QED BY <2>1, InType
<1>3. Both(k, p[b]) - Both(k, q[b]) = In(k, p[b][w]) - In(k, q[b][w])
  <2>1. CASE w = "wide" BY <1>2, <2>1 DEF Both, Nearly
  <2>2. CASE w = "thin" BY <1>2, <2>2 DEF Both, Nearly
  <2> QED BY <2>1, <2>2
<1>4. Queued(k, p) = Queued(k, q) - Both(k, q[b]) + Both(k, p[b]) BY QueueSet DEF Nearly
<1>5. /\ Both(k, p[b]) \in Nat /\ Both(k, q[b]) \in Nat /\ Queued(k, q) \in Nat
      /\ In(k, p[b][w]) \in Nat /\ In(k, q[b][w]) \in Nat
  BY <1>1, <1>2, PairType
<1> QED BY <1>3, <1>4, <1>5

Put(q, b, w, r) == [q EXCEPT ![b][w] = Append(@, r)]
Taken(q, b, w) == [q EXCEPT ![b][w] = Tail(@)]

LEMMA QueuePut ==
  ASSUME NEW q \in Batches, NEW b \in {1, 2}, NEW w \in {"wide", "thin"}, NEW r \in Requests
  PROVE  /\ Put(q, b, w, r) \in Batches
         /\ \A k \in Key :
              Queued(k, Put(q, b, w, r)) = Queued(k, q) + (IF r.key = k THEN 1 ELSE 0)
<1> DEFINE s == Append(q[b][w], r)
           p == Put(q, b, w, r)
<1>1. q[b][w] \in Seq(Requests) BY DEF Batches
<1>2. s \in Seq(Requests) BY <1>1, AppendProperties
<1>3. p \in Batches /\ p[b][w] = s /\ Nearly(p, q, b, w)
  BY <1>2 DEF Batches, Put, Nearly, Apart
<1> HIDE DEF p
<1>4. ASSUME NEW k \in Key PROVE Queued(k, p) = Queued(k, q) + (IF r.key = k THEN 1 ELSE 0)
  <2>1. Queued(k, p) = Queued(k, q) - In(k, q[b][w]) + In(k, p[b][w]) BY <1>3, QueueChange
  <2>2. In(k, s) = In(k, q[b][w]) + (IF r.key = k THEN 1 ELSE 0) BY <1>1, InAppend
  <2>3. In(k, q[b][w]) \in Nat /\ Queued(k, q) \in Nat BY <1>1, InType, PairType
  <2> HIDE DEF s
  <2> QED BY <1>3, <2>1, <2>2, <2>3
<1> QED BY <1>3, <1>4 DEF p

LEMMA QueueTake ==
  ASSUME NEW q \in Batches, NEW b \in {1, 2}, NEW w \in {"wide", "thin"}, q[b][w] # <<>>
  PROVE  /\ Taken(q, b, w) \in Batches /\ Head(q[b][w]) \in Requests
         /\ Nearly(Taken(q, b, w), q, b, w)
         /\ \A k \in Key :
              Queued(k, q) = Queued(k, Taken(q, b, w)) + (IF Head(q[b][w]).key = k THEN 1 ELSE 0)
<1> DEFINE s == Tail(q[b][w])
           h == Head(q[b][w])
           p == Taken(q, b, w)
<1>1. q[b][w] \in Seq(Requests) BY DEF Batches
<1>2. s \in Seq(Requests) /\ h \in Requests BY <1>1, HeadTailProperties
<1>3. p \in Batches /\ p[b][w] = s /\ Nearly(p, q, b, w)
  BY <1>2 DEF Batches, Taken, Nearly, Apart
<1> HIDE DEF p
<1>4. ASSUME NEW k \in Key PROVE Queued(k, q) = Queued(k, p) + (IF h.key = k THEN 1 ELSE 0)
  <2>1. Queued(k, p) = Queued(k, q) - In(k, q[b][w]) + In(k, p[b][w]) BY <1>3, QueueChange
  <2>2. In(k, q[b][w]) = In(k, s) + (IF h.key = k THEN 1 ELSE 0) BY <1>1, InTail
  <2>3. In(k, s) \in Nat /\ Queued(k, q) \in Nat BY <1>2, InType, PairType
  <2> HIDE DEF s, h
  <2> QED BY <1>3, <2>1, <2>2, <2>3
<1> QED BY <1>2, <1>3, <1>4 DEF p

-----------------------------------------------------------------------------
(* The types.                                                              *)
LEMMA Constants ==
  /\ Absent \in Entry /\ Fresh \in Entry /\ NoCall \in Access /\ NoRequest.key = None
  /\ NoRequest \notin Requests /\ None \notin Key /\ 0 \in 0 .. MaxGen
  /\ Outdated("nothing") = "nothing" /\ \A d \in Data : Outdated(d) \in Data
  /\ \A r \in Requests : r.key \in Key /\ r.gen \in 0 .. MaxGen
<1>1. None \notin Key /\ 0 \in 0 .. MaxGen BY CacheAssumption, FileAssumption
<1>2. Absent \in Entry /\ Fresh \in Entry
  <2>1. Absent \in Entry BY <1>1 DEF Absent, Entry, Data
  <2>2. \A e \in Entry : [e EXCEPT !.working = 1] \in Entry BY DEF Entry
  <2>3. [Absent EXCEPT !.present = TRUE] \in Entry BY <2>1 DEF Entry
  <2>4. Fresh = [[Absent EXCEPT !.present = TRUE] EXCEPT !.working = 1] BY DEF Fresh
  <2> QED BY <2>1, <2>2, <2>3, <2>4
<1>3. NoCall \in Access BY <1>1 DEF NoCall, Access
<1>4. NoRequest.key = None /\ NoRequest \notin Requests BY <1>1 DEF NoRequest, Requests
<1>5. Outdated("nothing") = "nothing" /\ \A d \in Data : Outdated(d) \in Data
  BY DEF Outdated, Data
<1> QED BY <1>1, <1>2, <1>3, <1>4, <1>5 DEF Requests

LEMMA NodesStep ==
  ASSUME Types, [Next]_vars PROVE Nodes0'
<1> USE DEF Types, Nodes0
<1>1. ASSUME NEW c \in Client, Fast(c) PROVE Nodes0'
  <2> DEFINE k == call[c].key
  <2>1. k \in Key BY <1>1 DEF Callers, Fast
  <2>2. node' \in [Key -> Entry] BY <1>1, <2>1 DEF Fast, Entry
  <2> QED BY <1>1, <2>1, <2>2 DEF Fast, Entry
<1>2. ASSUME NEW c \in Client, NEW late \in BOOLEAN, Turn(c, late), call[c].key \in Key
      PROVE  Nodes0'
  <2> DEFINE k == call[c].key
             n == IF node[k].present THEN node[k] ELSE Fresh
             m == node'[k]
  <2>1. n \in Entry /\ n.present BY <1>2, Constants DEF Fresh, Absent
  <2>2. /\ node' = [node EXCEPT ![k] = [n EXCEPT !.refs = @ + 1]]
           \/ node' = [node EXCEPT ![k] = n]
    BY <1>2, <2>1 DEF Turn, Entry
  <2>3. node' \in [Key -> Entry] /\ node'[k].present BY <1>2, <2>1, <2>2 DEF Entry
  <2> QED BY <1>2, <2>2, <2>3
<1>3. ASSUME NEW c \in Client, Close(c) PROVE Nodes0'
  <2>1. call[c].key \in Key BY <1>3 DEF Callers, Close
  <2>2. node' \in [Key -> Entry] BY <1>3, <2>1 DEF Close, Entry
  <2> QED BY <1>3, <2>1, <2>2 DEF Close, Entry
<1>4. ASSUME NEW k \in Key, Evict(k) \/ Cancel(k) PROVE Nodes0'
  <2>1. CASE Evict(k) BY <2>1, Constants DEF Evict, Absent
  <2>2. CASE Cancel(k)
    <3>1. node' \in [Key -> Entry] BY <2>2 DEF Cancel, Entry
    <3> QED BY <2>2, <3>1 DEF Cancel, Entry, Expired
  <2> QED BY <1>4, <2>1, <2>2
<1>5. ASSUME NEW l \in Lane, NEW d \in Data, Complete(l, d), hand[l] \in Requests
      PROVE  Nodes0'
  <2> DEFINE k == hand[l].key
  <2>1. k \in Key /\ hand[l].gen \in 0 .. MaxGen BY <1>5, Constants
  <2>2. CASE ~ node[k].present BY <1>5, <2>2 DEF Complete
  <2>3. CASE node[k].present
    <3> DEFINE m == [node[k] EXCEPT !.gen = hand[l].gen, !.content = d, !.working = @ - 1,
                                    !.completed = TRUE]
    <3>1. node' = [node EXCEPT ![k] = m] BY <1>5, <2>3 DEF Complete
    <3>2. m \in Entry /\ m.present
      <4>1. node[k] \in Entry /\ node[k].working - 1 \in Int BY <2>1 DEF Entry
      <4>2. [node[k] EXCEPT !.gen = hand[l].gen, !.content = d] \in Entry BY <2>1, <4>1 DEF Entry
      <4> QED BY <2>3, <4>1, <4>2 DEF Entry
    <3> HIDE DEF m
    <3>3. node' \in [Key -> Entry] /\ node'[k].present BY <2>1, <3>1, <3>2
    <3> QED BY <2>1, <3>1, <3>3
  <2> QED BY <2>2, <2>3
<1>6. ASSUME NEW p \in Path, Write(p) PROVE Nodes0'
  <2>1. node' \in [Key -> Entry] BY <1>6, Constants DEF Write, Entry
  <2> QED BY <1>6, <2>1, Constants DEF Write, Entry
<1>7. ASSUME NEW c \in Client, Slow(c) \/ Relock(c) PROVE Nodes0'
  <2>1. call[c].key \in Key BY <1>7 DEF Callers, Slow, Relock
  <2> QED BY <1>2, <1>7, <2>1 DEF Slow, Relock
<1>8. ASSUME NEW l \in Lane, ReadGood(l) \/ ReadNone(l) PROVE Nodes0'
  <2>1. hand[l] \in Requests BY <1>8 DEF ReadGood, ReadNone, Looked, Queues
  <2> QED BY <1>5, <1>8, <2>1 DEF ReadGood, ReadNone, Data
<1>9. ASSUME UNCHANGED node PROVE Nodes0' BY <1>9
<1> QED
  BY <1>1, <1>3, <1>4, <1>6, <1>7, <1>8, <1>9
     DEF Next, vars, cacheVars, Tick, ClientStep, Create, Call, Begin, Sleep, Wake, StartTick,
         Gather, TakeWide, TakeThin, EndTask, Look, ReadBad, Resubmit, TickFiles

(* A request of a call, put into a batch; and leftovers put back.           *)
Asking(c) == [key |-> call[c].key, gen |-> call[c].gen, seen |-> NotSeen]
Place(c) == IF call[c].high THEN 1 ELSE 2

LEMMA AskingType ==
  ASSUME Types, NEW c \in Client, call[c].key \in Key
  PROVE  Asking(c) \in Requests /\ Queue(call[c].wide) \in {"wide", "thin"} /\ Place(c) \in {1, 2}
<1>1. call[c].gen \in 0 .. MaxGen BY DEF Types, Callers, Access
<1> QED BY <1>1 DEF Asking, Requests, Queue, Place

LEMMA ReturnedType ==
  ASSUME Types, prio = 2
  PROVE  Returned \in Pair /\ \A k \in Key : Both(k, Returned) = Both(k, batch[2]) + Both(k, tasks[2])
<1> DEFINE b == batch[2]
           t == tasks[2]
<1>1. b \in Pair /\ t \in Pair BY PairType DEF Types, Queues
<1> HIDE DEF b, t
<1>2. /\ b.wide \in Seq(Requests) /\ b.thin \in Seq(Requests)
      /\ t.wide \in Seq(Requests) /\ t.thin \in Seq(Requests)
  BY <1>1 DEF Pair
<1>3. Returned = [wide |-> b.wide \o t.wide, thin |-> b.thin \o t.thin]
  BY DEF Returned, Rest, b, t
<1>4. b.wide \o t.wide \in Seq(Requests) /\ b.thin \o t.thin \in Seq(Requests)
  BY <1>2, ConcatProperties
<1>5. Returned \in Pair /\ Returned.wide = b.wide \o t.wide /\ Returned.thin = b.thin \o t.thin
  BY <1>3, <1>4 DEF Pair
<1>6. ASSUME NEW k \in Key PROVE Both(k, Returned) = Both(k, b) + Both(k, t)
  <2>1. /\ In(k, b.wide \o t.wide) = In(k, b.wide) + In(k, t.wide)
        /\ In(k, b.thin \o t.thin) = In(k, b.thin) + In(k, t.thin)
    BY <1>2, InConcat
  <2>2. /\ In(k, b.wide) \in Nat /\ In(k, t.wide) \in Nat
        /\ In(k, b.thin) \in Nat /\ In(k, t.thin) \in Nat
    BY <1>2, InType
  <2> QED BY <1>5, <2>1, <2>2 DEF Both
<1> QED BY <1>5, <1>6 DEF b, t

(* What the actions do with the batches, in the terms of the lemmas above.  *)
LEMMA TurnQueues ==
  ASSUME Types, NEW c \in Client, NEW late \in BOOLEAN, Turn(c, late), call[c].key \in Key
  PROVE  IF c \in need \/ ~ node[call[c].key].present
         THEN batch' = Put(batch, Place(c), Queue(call[c].wide), Asking(c))
         ELSE batch' = batch
BY DEF Turn, Put, Place, Asking

LEMMA QueuesStep ==
  ASSUME Types, [Next]_vars PROVE Queues'
<1> USE DEF Types
<1>1. /\ batch \in Batches /\ tasks \in Batches /\ Empty \in Pair
      /\ hand \in [Lane -> Requests \cup {NoRequest}] /\ prio \in {1, 2}
      /\ \A i \in {1, 2} : batch[i] \in Pair
      /\ \A q \in Batches, i \in {1, 2}, p \in Pair : [q EXCEPT ![i] = p] \in Batches
  BY PairType DEF Queues, Batches, Pair
<1>2. ASSUME NEW c \in Client, Slow(c) \/ Relock(c) PROVE Queues'
  <2>1. PICK late \in BOOLEAN : Turn(c, late) BY <1>2 DEF Slow, Relock
  <2>2. call[c].key \in Key BY <1>2 DEF Callers, Slow, Relock
  <2>3. Put(batch, Place(c), Queue(call[c].wide), Asking(c)) \in Batches
    BY <1>1, <2>2, AskingType, QueuePut
  <2>4. batch' = batch \/ batch' = Put(batch, Place(c), Queue(call[c].wide), Asking(c))
    BY <2>1, <2>2, TurnQueues
  <2>5. batch' \in Batches BY <1>1, <2>3, <2>4
  <2> QED BY <1>2, <2>5 DEF Queues, Slow, Relock, tickVars
<1>3. ASSUME Gather PROVE Queues'
  <2>1. batch' = [batch EXCEPT ![prio] = Empty] /\ tasks' = [tasks EXCEPT ![prio] = batch[prio]]
    BY <1>3 DEF Gather
  <2>2. batch' \in Batches /\ tasks' \in Batches BY <1>1, <2>1
  <2> QED BY <1>3, <2>2 DEF Gather, Queues
<1>4. ASSUME NEW l \in Lane, NEW w \in {"wide", "thin"}, TakeFirst(l, w), Rest[w] # <<>>,
             phase \in {"wide", "thin"}, UNCHANGED <<batch, phase, prio>>
      PROVE  Queues'
  <2>1. tasks' = Taken(tasks, prio, w) /\ hand' = [hand EXCEPT ![l] = Head(tasks[prio][w])]
    BY <1>4 DEF TakeFirst, Taken, Rest
  <2>2. tasks' \in Batches /\ Head(tasks[prio][w]) \in Requests
    BY <1>1, <1>4, <2>1, QueueTake DEF Rest
  <2> QED BY <1>1, <1>4, <2>1, <2>2 DEF Queues
<1>5. ASSUME TakeWide PROVE Queues'
  <2>1. CASE Rest.wide = <<>> \/ StopWide BY <1>5, <2>1 DEF TakeWide, Queues
  <2>2. CASE ~ (Rest.wide = <<>> \/ StopWide)
    <3>1. TakeFirst(Lead, "wide") /\ UNCHANGED <<batch, phase, prio>> /\ phase = "wide"
      BY <1>5, <2>2 DEF TakeWide
    <3> QED BY <1>4, <2>2, <3>1, CacheAssumption
  <2> QED BY <2>1, <2>2
<1>6. ASSUME NEW l \in Lane, TakeThin(l) PROVE Queues'
  <2>1. CASE stopped' \/ Rest.thin = <<>> BY <1>6, <2>1 DEF TakeThin, Queues
  <2>2. CASE ~ (stopped' \/ Rest.thin = <<>>)
    <3>1. TakeFirst(l, "thin") /\ UNCHANGED <<batch, phase, prio>> /\ phase = "thin"
      BY <1>6, <2>2 DEF TakeThin
    <3> QED BY <1>4, <2>2, <3>1
  <2> QED BY <2>1, <2>2
<1>7. ASSUME EndTask PROVE Queues'
  <2>1. tasks' = [tasks EXCEPT ![prio] = Empty] /\ tasks' \in Batches
    BY <1>1, <1>7 DEF EndTask
  <2>2. batch' \in Batches BY <1>1, <1>7, ReturnedType DEF EndTask
  <2> QED BY <1>7, <2>1, <2>2 DEF EndTask, Queues
<1>8. ASSUME NEW l \in Lane, hand[l] \in Requests, Resubmit(l) PROVE Queues'
  <2> DEFINE r == [hand[l] EXCEPT !.seen = NotSeen]
  <2>1. r \in Requests /\ phase \in {"wide", "thin"}
    BY <1>8, Constants DEF Queues, Requests
  <2>2. batch' = batch \/ batch' = Put(batch, prio, phase, r) BY <1>8 DEF Resubmit, Put
  <2> HIDE DEF r
  <2>3. batch' \in Batches BY <1>1, <2>1, <2>2, QueuePut
  <2> QED BY <1>8, <2>3 DEF Resubmit, Queues
<1>9. ASSUME NEW l \in Lane, NEW d \in Data, Complete(l, d) PROVE Queues'
  BY <1>9 DEF Complete, Queues
<1>10. ASSUME NEW l \in Lane, Create(l) PROVE Queues'
  <2>1. CASE Look(l)
    <3>1. hand[l] \in Requests BY <2>1 DEF Look, Queues
    <3>2. \A d \in Data : [hand[l] EXCEPT !.seen = d] \in Requests BY <3>1 DEF Requests
    <3>3. \E d \in Data : hand' = [hand EXCEPT ![l] = [hand[l] EXCEPT !.seen = d]]
      BY <2>1 DEF Look, Data
    <3>4. hand' \in [Lane -> Requests \cup {NoRequest}] BY <1>1, <3>2, <3>3
    <3> QED BY <2>1, <3>1, <3>3, <3>4, Constants DEF Look, Queues
  <2>2. CASE ReadGood(l) \/ ReadNone(l) BY <1>9, <2>2 DEF ReadGood, ReadNone, Looked, Data
  <2>3. CASE ReadBad(l)
    <3>1. hand[l] \in Requests BY <2>3 DEF ReadBad, Looked, Queues
    <3> QED BY <1>8, <2>3, <3>1 DEF ReadBad
  <2> QED BY <1>10, <2>1, <2>2, <2>3 DEF Create
<1>11. ASSUME NEW p \in Path, Write(p) PROVE Queues'
  <2>1. \A r \in Requests : [r EXCEPT !.seen = Outdated(@)] \in Requests
    BY DEF Requests, Outdated, Data
  <2>2. /\ hand' \in [Lane -> Requests \cup {NoRequest}]
        /\ \A l \in Lane : hand'[l] # NoRequest => hand[l] # NoRequest
    BY <1>1, <1>11, <2>1 DEF Write
  <2> QED BY <1>11, <2>2 DEF Write, Queues
<1>12. ASSUME phase = "rest" \/ phase = "files", phase' \in {"gather", "rest"},
              UNCHANGED <<batch, tasks, hand>>, prio' \in {1, 2}
       PROVE  Queues'
  BY <1>12 DEF Queues
<1>13. ASSUME UNCHANGED <<batch, tasks, hand, phase, prio>> PROVE Queues' BY <1>13 DEF Queues
<1>14. StartTick \/ TickFiles => Queues' BY <1>1, <1>12 DEF StartTick, TickFiles
<1> QED
  BY <1>2, <1>3, <1>5, <1>6, <1>7, <1>10, <1>11, <1>13, <1>14
     DEF Next, vars, cacheVars, tickVars, Tick, ClientStep, Call, Begin, Fast, Sleep, Wake,
         Close, Evict, Cancel

LEMMA LeaveCallers ==
  ASSUME Callers, NEW c \in Client, NEW hit \in BOOLEAN, Leave(c, hit), call[c].key \in Key
  PROVE  /\ pc' \in [Client -> ClientPc] /\ call' \in [Client -> Access]
         /\ \A d \in Client : pc'[d] # "idle" => call'[d].key \in Key
         /\ \A d \in Client : d # c => pc'[d] = pc[d] /\ call'[d] = call[d]
         /\ pc'[c] = IF hit THEN "hold" ELSE "idle"
         /\ hit => call'[c].key = call[c].key
<1> DEFINE e == IF hit THEN [NoCall EXCEPT !.key = call[c].key] ELSE NoCall
<1>1. NoCall \in Access BY Constants
<1>2. \A k \in Key : [NoCall EXCEPT !.key = k] \in Access /\ [NoCall EXCEPT !.key = k].key = k
  BY <1>1 DEF Access
<1>3. e \in Access /\ (hit => e.key = call[c].key) BY <1>1, <1>2
<1>4. call' = [call EXCEPT ![c] = e] BY DEF Leave
<1> HIDE DEF e
<1>5. /\ pc' \in [Client -> ClientPc] /\ pc'[c] = IF hit THEN "hold" ELSE "idle"
      /\ \A d \in Client : d # c => pc'[d] = pc[d]
  BY DEF Callers, Leave, ClientPc
<1> QED BY <1>3, <1>4, <1>5 DEF Callers

(* How a turn ends for the client: it leaves, with or without an access, or *)
(* goes to the wait with the lock.                                         *)
LEMMA TurnEnds ==
  ASSUME Types, NEW c \in Client, NEW late \in BOOLEAN, Turn(c, late), call[c].key \in Key
  PROVE  /\ need' = need \ {c} /\ got' \in {got, got \cup {c}}
         /\ \/ (IF c \in got' THEN Leave(c, TRUE) ELSE Leave(c, FALSE)) /\ writer' = None
            \/ /\ pc' = [pc EXCEPT ![c] = "enter"] /\ writer' = c /\ call' = call
               /\ c \notin got'
         /\ Callers' \/ mutex' \notin Client \cup {None}
<1>1. need' = need \ {c} /\ got' \in {got, got \cup {c}} BY DEF Turn
<1>2. \/ (IF c \in got' THEN Leave(c, TRUE) ELSE Leave(c, FALSE)) /\ writer' = None
      \/ /\ pc' = [pc EXCEPT ![c] = "enter"] /\ writer' = c /\ call' = call
         /\ c \notin got'
  BY DEF Turn, Leave
<1>3. ASSUME mutex' \in Client \cup {None} PROVE Callers'
  <2>1. need' \subseteq Client /\ got' \subseteq Client BY <1>1 DEF Types, Callers
  <2>2. CASE (Leave(c, TRUE) \/ Leave(c, FALSE)) /\ writer' = None
    BY <1>3, <2>1, <2>2, LeaveCallers DEF Types, Callers
  <2>3. CASE /\ pc' = [pc EXCEPT ![c] = "enter"] /\ writer' = c /\ call' = call
    BY <1>3, <2>1, <2>3 DEF Types, Callers, ClientPc
  <2> QED BY <1>2, <2>2, <2>3
<1> QED BY <1>1, <1>2, <1>3

LEMMA CallersStep ==
  ASSUME Types, [Next]_vars PROVE Callers'
<1> USE DEF Types
<1>1. ASSUME NEW c \in Client, Call(c) PROVE Callers'
  <2>1. PICK w \in Calls : Begin(c, w, info[PathOf[w.key]].gen) BY <1>1 DEF Call
  <2>2. w.key \in Key /\ w.fresh \in BOOLEAN /\ w.high \in BOOLEAN /\ w.wide \in BOOLEAN
    BY CacheAssumption
  <2>3. info[PathOf[w.key]].gen \in 0 .. MaxGen BY <2>2, FileAssumption DEF Files
  <2> DEFINE e == [key |-> w.key, gen |-> info[PathOf[w.key]].gen, fresh |-> w.fresh,
                   high |-> w.high, wide |-> w.wide]
  <2>4. e \in Access /\ e.key \in Key BY <2>2, <2>3 DEF Access
  <2>5. call' = [call EXCEPT ![c] = e] BY <2>1 DEF Begin
  <2> HIDE DEF e
  <2> QED BY <2>1, <2>4, <2>5 DEF Begin, Callers, ClientPc, lockVars
<1>2. ASSUME NEW c \in Client, Fast(c) PROVE Callers'
  <2>1. call[c].key \in Key /\ pc[c] = "fast" BY <1>2 DEF Fast, Callers
  <2>2. need' \subseteq Client /\ got' \subseteq Client /\ UNCHANGED <<writer, mutex>>
    BY <1>2 DEF Fast, Callers, lockVars
  <2>3. \/ Leave(c, TRUE)
        \/ pc' = [pc EXCEPT ![c] = "slow"] /\ UNCHANGED call
    BY <1>2 DEF Fast
  <2>4. CASE Leave(c, TRUE) BY <2>1, <2>2, <2>4, LeaveCallers DEF Callers
  <2>5. CASE pc' = [pc EXCEPT ![c] = "slow"] /\ UNCHANGED call
    BY <2>1, <2>2, <2>5 DEF Callers, ClientPc
  <2> QED BY <2>3, <2>4, <2>5
<1>3. ASSUME NEW c \in Client, Slow(c) \/ Relock(c) PROVE Callers'
  <2>1. PICK late \in BOOLEAN : Turn(c, late) BY <1>3 DEF Slow, Relock
  <2>2. call[c].key \in Key /\ mutex' \in Client \cup {None} BY <1>3 DEF Callers, Slow, Relock
  <2> QED BY <2>1, <2>2, TurnEnds
<1>4. ASSUME NEW c \in Client, Sleep(c) \/ Wake(c) PROVE Callers'
  BY <1>4 DEF Sleep, Wake, Callers, ClientPc
<1>5. ASSUME NEW c \in Client, Close(c) PROVE Callers'
  <2>1. /\ call[c].key \in Key /\ Leave(c, FALSE) /\ UNCHANGED <<need, writer, mutex>>
        /\ got' \subseteq Client
    BY <1>5 DEF Close, Callers, lockVars
  <2> QED BY <2>1, LeaveCallers DEF Callers
<1>6. ASSUME UNCHANGED <<clientVars, lockVars>> PROVE Callers'
  BY <1>6 DEF clientVars, lockVars, Callers
<1> QED
  BY <1>1, <1>2, <1>3, <1>4, <1>5, <1>6
     DEF Next, vars, cacheVars, Tick, ClientStep, Create, StartTick, Gather, TakeWide, TakeThin,
         EndTask, Evict, Cancel, Look, ReadGood, ReadNone, ReadBad, Complete, Resubmit,
         TickFiles, Write

LEMMA FilesStep ==
  ASSUME Types, [Next]_vars PROVE Files'
<1> USE DEF Types, Files
<1>1. ASSUME NEW l \in Lane, ReadGood(l) PROVE Files' BY <1>1 DEF ReadGood
<1>2. ASSUME TickFiles PROVE Files'
  <2>1. ASSUME NEW p \in Path PROVE Bumped(info[p]) \in [known : BOOLEAN, same : BOOLEAN, gen : 0 .. MaxGen]
    BY FileAssumption DEF Bumped
  <2> QED BY <1>2, <2>1 DEF TickFiles
<1>3. ASSUME NEW p \in Path, Write(p) PROVE Files' BY <1>3 DEF Write
<1>4. ASSUME UNCHANGED fileVars PROVE Files' BY <1>4 DEF fileVars
<1> QED
  BY <1>1, <1>2, <1>3, <1>4 DEF Next, vars, fileVars, Create, Look, ReadNone, ReadBad

LEMMA TypesStep == Types /\ [Next]_vars => Types'
BY NodesStep, QueuesStep, CallersStep, FilesStep DEF Types

-----------------------------------------------------------------------------
(* The protocol of the clients, and the lock and the mutex they go through. *)
LEMMA TurnClients ==
  ASSUME Types, Clients, NEW c \in Client, NEW late \in BOOLEAN, Turn(c, late),
         \/ pc[c] = "slow" /\ mutex' = mutex
         \/ pc[c] = "woken" /\ mutex' = None,
         writer = None
  PROVE  Clients'
<1> USE DEF Clients
<1>1. /\ call[c].key \in Key /\ None \notin Client
      /\ pc \in [Client -> ClientPc] /\ need \subseteq Client /\ got \subseteq Client
      /\ mutex \in Client \cup {None} /\ mutex' \in Client \cup {None}
  BY CacheAssumption DEF Types, Callers
<1>2. /\ need' = need \ {c} /\ got' \in {got, got \cup {c}}
      /\ \/ (IF c \in got' THEN Leave(c, TRUE) ELSE Leave(c, FALSE)) /\ writer' = None
         \/ /\ pc' = [pc EXCEPT ![c] = "enter"] /\ writer' = c /\ c \notin got'
  BY <1>1, TurnEnds
<1>3. \/ pc' = [pc EXCEPT ![c] = IF c \in got' THEN "hold" ELSE "idle"] /\ writer' = None
      \/ pc' = [pc EXCEPT ![c] = "enter"] /\ writer' = c /\ c \notin got'
  BY <1>2 DEF Leave
<1>4. \A d \in Client : d # c => pc'[d] = pc[d] /\ (d \in got' <=> d \in got)
  BY <1>1, <1>2, <1>3
<1>5. /\ pc'[c] = "hold" <=> c \in got'
      /\ pc'[c] \in {"hold", "idle", "enter"} /\ (pc'[c] = "enter" <=> writer' = c)
  BY <1>1, <1>3
<1>6. \A d \in need' : pc'[d] = "slow" BY <1>1, <1>2, <1>4
<1>7. /\ \A d \in got' : pc'[d] \in {"slow", "hold"}
      /\ \A d \in Client : pc'[d] = "hold" => d \in got'
  BY <1>1, <1>2, <1>4, <1>5
<1>8. \A d \in Client : pc'[d] = "enter" <=> writer' = d BY <1>1, <1>3, <1>4, <1>5
<1>9. \A d \in Client : pc'[d] = "woken" <=> mutex' = d BY <1>1, <1>4, <1>5
<1> QED BY <1>6, <1>7, <1>8, <1>9

LEMMA ClientsStep ==
  ASSUME Types, Clients, [Next]_vars PROVE Clients'
<1> USE DEF Clients
<1>1. /\ None \notin Client /\ pc \in [Client -> ClientPc] /\ need \subseteq Client
      /\ got \subseteq Client /\ writer \in Client \cup {None} /\ mutex \in Client \cup {None}
  BY CacheAssumption DEF Types, Callers
<1>2. ASSUME NEW c \in Client, Call(c) PROVE Clients'
  BY <1>1, <1>2 DEF Call, Begin, lockVars
<1>3. ASSUME NEW c \in Client, Fast(c) PROVE Clients'
  <2>1. /\ pc[c] = "fast" /\ UNCHANGED <<writer, mutex>>
        /\ \/ /\ pc' = [pc EXCEPT ![c] = "hold"] /\ got' = got \cup {c} /\ need' = need
           \/ /\ pc' = [pc EXCEPT ![c] = "slow"] /\ got' \in {got, got \cup {c}}
              /\ need' \in {need, need \cup {c}}
    BY <1>3 DEF Fast, Leave, lockVars
  <2> QED BY <1>1, <2>1
<1>4. ASSUME NEW c \in Client, Slow(c) \/ Relock(c) PROVE Clients'
  <2>1. PICK late \in BOOLEAN : Turn(c, late) BY <1>4 DEF Slow, Relock
  <2> QED BY <1>4, <2>1, TurnClients DEF Slow, Relock
<1>5. ASSUME NEW c \in Client, Sleep(c) \/ Wake(c) \/ Close(c) PROVE Clients'
  <2>1. CASE Sleep(c) BY <1>1, <2>1 DEF Sleep
  <2>2. CASE Wake(c) BY <1>1, <2>2 DEF Wake
  <2>3. CASE Close(c) BY <1>1, <2>3 DEF Close, Leave, lockVars
  <2> QED BY <1>5, <2>1, <2>2, <2>3
<1>6. ASSUME UNCHANGED <<pc, need, got, lockVars>> PROVE Clients' BY <1>6 DEF lockVars
<1> QED
  BY <1>2, <1>3, <1>4, <1>5, <1>6
     DEF Next, vars, cacheVars, clientVars, Tick, ClientStep, Create, StartTick, Gather, TakeWide,
         TakeThin, EndTask, Evict, Cancel, Look, ReadGood, ReadNone, ReadBad, Complete,
         Resubmit, TickFiles, Write

(* When every busy client is blocked, one of them holds the lock and wants  *)
(* the mutex, and another one holds the mutex and wants the lock.           *)
LEMMA BlockedInverted == Types /\ Clients => OnlyInversion
<1> SUFFICES ASSUME Types, Clients,
                    NEW c \in Client, pc[c] \notin {"idle", "hold"},
                    \A d \in Client : pc[d] \notin {"idle", "hold"} => Blocked(d)
             PROVE  Inverted
  BY DEF OnlyInversion
<1>1. writer \in Client \cup {None} /\ mutex \in Client \cup {None} BY DEF Types, Callers
<1>2. ASSUME mutex # None PROVE Inverted
  <2>1. mutex \in Client /\ pc[mutex] = "woken" BY <1>1, <1>2 DEF Clients
  <2>2. writer # None BY <2>1 DEF Blocked
  <2>3. writer \in Client /\ pc[writer] = "enter" BY <1>1, <2>2 DEF Clients
  <2> QED BY <2>1, <2>3 DEF Inverted
<1>3. ASSUME writer # None PROVE Inverted
  <2>1. writer \in Client /\ pc[writer] = "enter" BY <1>1, <1>3 DEF Clients
  <2>2. mutex # None BY <2>1 DEF Blocked
  <2> QED BY <1>2, <2>2
<1> QED BY <1>2, <1>3 DEF Blocked
-----------------------------------------------------------------------------
(* The tick empties one batch of tasks before it gathers the next.          *)
LEMMA PhasesStep ==
  ASSUME Types, Phases, [Next]_vars PROVE Phases'
<1> USE DEF Phases, Doing
<1>1. /\ tasks \in Batches /\ prio \in {1, 2} /\ Lead \in Lane
      /\ phase \in {"rest", "gather", "wide", "thin", "files"}
      /\ \A i \in {1, 2} : [tasks EXCEPT ![i] = Empty][i] = Empty
      /\ \A p : \A i \in {1, 2}, j \in {1, 2} : i # j => [tasks EXCEPT ![i] = p][j] = tasks[j]
  BY CacheAssumption DEF Types, Queues, Batches
<1>2. ASSUME Gather PROVE Phases'
  <2>1. CASE prio = 1 BY <1>1, <1>2, <2>1 DEF Gather
  <2>2. CASE prio = 2 BY <1>1, <1>2, <2>2 DEF Gather
  <2> QED BY <1>1, <2>1, <2>2
<1>3. ASSUME TakeWide PROVE Phases'
  <2>1. CASE Rest.wide = <<>> \/ StopWide
    <3>1. /\ phase = "wide" /\ phase' = "thin" /\ UNCHANGED <<tasks, prio, over>>
          /\ stopped' = (stopped \/ (Rest.wide # <<>> /\ StopWide))
      BY <1>3, <2>1 DEF TakeWide
    <3>2. CASE prio = 1
      <4>1. ~ StopWide /\ tasks[1].wide = <<>> BY <2>1, <3>2 DEF StopWide, Rest
      <4>2. ~ stopped' BY <3>1, <3>2, <4>1
      <4> QED BY <3>1, <3>2, <4>1, <4>2
    <3>3. CASE prio = 2 BY <3>1, <3>3
    <3> QED BY <1>1, <3>2, <3>3
  <2>2. CASE ~ (Rest.wide = <<>> \/ StopWide)
    <3>1. /\ phase = "wide" /\ UNCHANGED <<phase, prio, over, stopped>>
          /\ tasks' = Taken(tasks, prio, "wide")
      BY <1>3, <2>2 DEF TakeWide, TakeFirst, Taken
    <3>2. Nearly(tasks', tasks, prio, "wide") BY <1>1, <2>2, <3>1, QueueTake DEF Rest
    <3>3. \A i \in {1, 2} : i # prio => tasks'[i] = tasks[i] BY <3>2 DEF Nearly, Apart
    <3> QED BY <1>1, <3>1, <3>3
  <2> QED BY <2>1, <2>2
<1>4. ASSUME NEW l \in Lane, TakeThin(l) PROVE Phases'
  <2>1. CASE stopped' \/ Rest.thin = <<>>
    <3>1. /\ phase = "thin" /\ UNCHANGED <<tasks, prio, phase>>
          /\ stopped' = (stopped \/ StopThin)
      BY <1>4, <2>1 DEF TakeThin
    <3>2. CASE prio = 1
      <4>1. ~ StopThin BY <3>2 DEF StopThin
      <4>2. ~ stopped' BY <3>1, <3>2, <4>1
      <4>3. tasks[1].thin = <<>> BY <2>1, <3>2, <4>2 DEF Rest
      <4> QED BY <3>1, <3>2, <4>2, <4>3
    <3>3. CASE prio = 2 BY <3>1, <3>3
    <3> QED BY <1>1, <3>2, <3>3
  <2>2. CASE ~ (stopped' \/ Rest.thin = <<>>)
    <3>1. /\ phase = "thin" /\ UNCHANGED <<phase, prio, over>> /\ ~ stopped'
          /\ tasks' = Taken(tasks, prio, "thin")
      BY <1>4, <2>2 DEF TakeThin, TakeFirst, Taken
    <3>2. Nearly(tasks', tasks, prio, "thin") BY <1>1, <2>2, <3>1, QueueTake DEF Rest
    <3>3. /\ \A i \in {1, 2} : i # prio => tasks'[i] = tasks[i]
          /\ tasks'[prio].wide = tasks[prio].wide
      BY <3>2 DEF Nearly, Apart
    <3>4. tasks[prio].thin # <<>> BY <2>2 DEF Rest
    <3>5. CASE prio = 1 BY <1>1, <3>1, <3>3, <3>4, <3>5
    <3>6. CASE prio = 2 BY <1>1, <3>1, <3>3, <3>6
    <3> QED BY <1>1, <3>5, <3>6
  <2> QED BY <2>1, <2>2
<1>5. ASSUME EndTask PROVE Phases'
  <2>1. /\ phase = "thin" /\ tasks' = [tasks EXCEPT ![prio] = Empty] /\ over' = {} /\ stopped' = FALSE
        /\ \/ prio = 1 /\ prio' = 2 /\ phase' = "wide"
           \/ prio = 2 /\ prio' = 1 /\ phase' = "files"
    BY <1>1, <1>5 DEF EndTask
  <2>2. tasks'[prio] = Empty /\ \A i \in {1, 2} : i # prio => tasks'[i] = tasks[i]
    BY <1>1, <2>1
  <2> QED BY <1>1, <2>1, <2>2
<1>6. ASSUME StartTick \/ TickFiles PROVE Phases' BY <1>1, <1>6 DEF StartTick, TickFiles
<1>7. ASSUME UNCHANGED <<tasks, phase, prio, over, stopped>> PROVE Phases' BY <1>7
<1> QED
  BY <1>2, <1>3, <1>4, <1>5, <1>6, <1>7
     DEF Next, vars, cacheVars, tickVars, Tick, ClientStep, Create, Call, Begin, Fast, Slow,
         Relock, Sleep, Wake, Close, Evict, Cancel, Look, ReadGood, ReadNone, ReadBad, Complete,
         Resubmit, Write

(* What is left of a batch when its round of requests is over.              *)
LEMMA EndEmpty ==
  ASSUME Types, Phases, EndTask, prio = 1 PROVE tasks[1] = Empty
<1>1. over # {} /\ phase = "thin" BY CacheAssumption DEF EndTask
<1>2. tasks[1].wide = <<>> /\ tasks[1].thin = <<>> BY <1>1 DEF Phases
<1>3. tasks[1] \in Pair BY PairType DEF Types, Queues
<1> QED BY <1>2, <1>3 DEF Pair, Empty

-----------------------------------------------------------------------------
(* What the two paths of a lookup do to the node.                           *)
Same(k) ==
  /\ node'[k].present = node[k].present /\ node'[k].completed = node[k].completed
  /\ node'[k].cancelled = node[k].cancelled /\ node'[k].content = node[k].content
  /\ node'[k].gen = node[k].gen
Others(k) == \A j \in Key : j # k => node'[j] = node[j]

LEMMA TurnNode ==
  ASSUME Types, NEW c \in Client, NEW late \in BOOLEAN, Turn(c, late), NEW k \in Key,
         k = call[c].key
  PROVE  /\ Others(k) /\ node'[k].present
         /\ node[k].present => Same(k) /\ node'[k].working = node[k].working
         /\ ~ node[k].present => /\ node'[k].working = 1 /\ ~ node'[k].completed
                                 /\ ~ node'[k].cancelled
         /\ \/ /\ c \notin got /\ got' = got \cup {c} /\ node[k].present
               /\ node'[k].refs = node[k].refs + 1
            \/ /\ got' = got
               /\ node'[k].refs = IF node[k].present THEN node[k].refs ELSE 0
<1> DEFINE n == IF node[k].present THEN node[k] ELSE Fresh
           hit == /\ c \notin got /\ n.completed
                  /\ n.gen = call[c].gen \/ ~call[c].fresh \/ late
<1>1. node \in [Key -> Entry] /\ n \in Entry BY Constants DEF Types, Nodes0
<1>2. Fresh.present /\ Fresh.working = 1 /\ ~ Fresh.completed /\ ~ Fresh.cancelled /\ Fresh.refs = 0
  BY DEF Fresh, Absent
<1>3. /\ hit => node' = [node EXCEPT ![k] = [n EXCEPT !.refs = @ + 1]] /\ got' = got \cup {c}
      /\ ~ hit => node' = [node EXCEPT ![k] = [n EXCEPT !.refs = @]] /\ got' = got
  BY DEF Turn
<1>4. hit => node[k].present /\ c \notin got BY <1>2
<1> HIDE DEF hit
<1>5. CASE node[k].present
  <2>1. n = node[k] BY <1>5
  <2> HIDE DEF n
  <2>2. ASSUME NEW e \in Int, node' = [node EXCEPT ![k] = [n EXCEPT !.refs = e]]
        PROVE  /\ Others(k) /\ Same(k) /\ node'[k].working = node[k].working
               /\ node'[k].refs = e
    BY <1>1, <2>1, <2>2 DEF Others, Same, Entry
  <2>3. n.refs = node[k].refs /\ n.refs \in Int BY <1>1, <2>1 DEF Entry
  <2>4. CASE hit
    <3>1. node' = [node EXCEPT ![k] = [n EXCEPT !.refs = n.refs + 1]] BY <1>3, <2>4
    <3>2. n.refs + 1 \in Int BY <2>3
    <3>3. /\ Others(k) /\ Same(k) /\ node'[k].working = node[k].working
          /\ node'[k].refs = n.refs + 1
      BY <2>2, <3>1, <3>2
    <3> QED BY <1>3, <1>4, <1>5, <2>3, <2>4, <3>3 DEF Same
  <2>5. CASE ~ hit BY <1>3, <1>5, <2>2, <2>3, <2>5 DEF Same
  <2> QED BY <2>4, <2>5
<1>6. CASE ~ node[k].present
  <2>1. ~ hit /\ n = Fresh BY <1>4, <1>6
  <2> QED BY <1>1, <1>2, <1>3, <1>6, <2>1 DEF Others, Entry
<1> QED BY <1>5, <1>6

LEMMA FastNode ==
  ASSUME Types, NEW c \in Client, Fast(c), NEW k \in Key, k = call[c].key
  PROVE  /\ Others(k) /\ Same(k)
         /\ \/ need' = need /\ node'[k].working = node[k].working
            \/ /\ need' = need \cup {c} /\ node[k].present
               /\ node[k].working = 0 /\ node'[k].working = 1
         /\ \/ /\ got' = got \cup {c} /\ node[k].present
               /\ node'[k].refs = node[k].refs + 1
            \/ got' = got /\ node'[k].refs = node[k].refs
         /\ pc[c] = "fast" /\ \A d \in Client : d # c => call'[d] = call[d]
         /\ call'[c].key = k /\ UNCHANGED <<batch, tickVars>>
<1>1. node \in [Key -> Entry] /\ call \in [Client -> Access] BY DEF Types, Nodes0, Callers
<1> DEFINE stale == node[k].gen # call[c].gen
           hit == node[k].present /\ node[k].completed /\ (~stale \/ ~call[c].fresh)
           ask == node[k].present /\ stale /\ node[k].working = 0
<1>2. /\ node' = [node EXCEPT ![k].working = IF ask THEN 1 ELSE @,
                              ![k].refs = IF hit THEN @ + 1 ELSE @]
      /\ got' = IF hit THEN got \cup {c} ELSE got
      /\ need' = IF ask THEN need \cup {c} ELSE need
      /\ pc[c] = "fast" /\ UNCHANGED <<batch, tickVars>>
      /\ Leave(c, TRUE) \/ call' = call
  BY DEF Fast
<1>3. (hit => node[k].present) /\ (ask => node[k].present /\ node[k].working = 0) OBVIOUS
<1> HIDE DEF hit, ask
<1>4. /\ Others(k) /\ Same(k)
      /\ node'[k].working = IF ask THEN 1 ELSE node[k].working
      /\ node'[k].refs = IF hit THEN node[k].refs + 1 ELSE node[k].refs
  BY <1>1, <1>2 DEF Others, Same, Entry
<1>5. (\A d \in Client : d # c => call'[d] = call[d]) /\ call'[c].key = k
  <2>1. CASE call' = call BY <2>1
  <2>2. CASE Leave(c, TRUE) BY <2>2, LeaveCallers DEF Types
  <2> QED BY <1>2, <2>1, <2>2
<1> QED BY <1>2, <1>3, <1>4, <1>5

(* The count of accesses.                                                  *)
LEMMA HoldersType ==
  ASSUME Types, NEW k PROVE IsFiniteSet(Holders(k)) /\ Cardinality(Holders(k)) \in 0 .. Cardinality(Client)
<1>1. Holders(k) \subseteq Client /\ IsFiniteSet(Client)
  BY CacheAssumption DEF Types, Callers, Holders
<1>2. IsFiniteSet(Holders(k)) /\ Cardinality(Holders(k)) <= Cardinality(Client)
  BY <1>1, FS_Subset
<1> QED BY <1>1, <1>2, FS_CardinalityType

LEMMA HeldSame ==
  ASSUME HeldStays, got' = got, \A d \in got : call'[d].key = call[d].key,
         \A k \in Key : /\ node'[k].refs = node[k].refs
                        /\ Holders(k) # {} => node'[k].present
  PROVE  HeldStays'
<1>1. \A k : Holders(k)' = Holders(k) BY DEF Holders
<1> QED BY <1>1 DEF HeldStays

LEMMA HeldGained ==
  ASSUME Types, HeldStays, NEW c \in Client, c \notin got, got' = got \cup {c},
         NEW k \in Key, call'[c].key = k, \A d \in got : call'[d].key = call[d].key,
         node'[k].refs = node[k].refs + 1, node'[k].present, Others(k)
  PROVE  HeldStays'
<1>1. Holders(k)' = Holders(k) \cup {c} /\ c \notin Holders(k) BY DEF Holders
<1>2. \A j \in Key : j # k => Holders(j)' = Holders(j) BY DEF Holders
<1>3. Cardinality(Holders(k) \cup {c}) = Cardinality(Holders(k)) + 1
  BY <1>1, HoldersType, FS_AddElement
<1>4. node'[k].refs = Cardinality(Holders(k)') BY <1>1, <1>3 DEF HeldStays
<1>5. \A j \in Key : j # k => node'[j].refs = Cardinality(Holders(j)') /\ (Holders(j)' # {} => node'[j].present)
  BY <1>2 DEF HeldStays, Others
<1> QED BY <1>4, <1>5 DEF HeldStays

LEMMA HeldLost ==
  ASSUME Types, HeldStays, NEW c \in got, got' = got \ {c},
         NEW k \in Key, call[c].key = k, \A d \in got : d # c => call'[d].key = call[d].key,
         node'[k].refs = node[k].refs - 1, node[k].present => node'[k].present, Others(k)
  PROVE  HeldStays'
<1>1. Holders(k)' = Holders(k) \ {c} /\ c \in Holders(k) BY DEF Holders
<1>2. \A j \in Key : j # k => Holders(j)' = Holders(j) BY DEF Holders
<1>3. Cardinality(Holders(k) \ {c}) = Cardinality(Holders(k)) - 1
  <2>1. IsFiniteSet(Holders(k)) BY HoldersType
  <2>2. Cardinality(Holders(k) \ {c})
          = IF c \in Holders(k) THEN Cardinality(Holders(k)) - 1 ELSE Cardinality(Holders(k))
    BY <2>1, FS_RemoveElement
  <2> QED BY <1>1, <2>2
<1>4. node'[k].refs = Cardinality(Holders(k)') /\ node'[k].present BY <1>1, <1>3 DEF HeldStays
<1>5. \A j \in Key : j # k => node'[j].refs = Cardinality(Holders(j)') /\ (Holders(j)' # {} => node'[j].present)
  BY <1>2 DEF HeldStays, Others
<1> QED BY <1>4, <1>5 DEF HeldStays

LEMMA HeldStep ==
  ASSUME Types, Clients, HeldStays, [Next]_vars PROVE HeldStays'
<1>1. /\ node \in [Key -> Entry] /\ call \in [Client -> Access] /\ got \subseteq Client
      /\ \A k \in Key : Holders(k) # {} => node[k].present
      /\ \A k \in Key : node[k].refs = 0 <=> Holders(k) = {}
  BY HoldersType, FS_EmptySet DEF Types, Nodes0, Callers, HeldStays
<1>2. ASSUME NEW c \in Client, Call(c) PROVE HeldStays'
  <2>1. /\ pc[c] = "idle" /\ UNCHANGED <<node, got>>
        /\ \A d \in Client : d # c => call'[d] = call[d]
    BY <1>1, <1>2 DEF Call, Begin
  <2>2. c \notin got BY <2>1 DEF Clients
  <2> QED BY <1>1, <2>1, <2>2, HeldSame
<1>3. ASSUME NEW c \in Client, Fast(c) PROVE HeldStays'
  <2> DEFINE k == call[c].key
  <2>1. k \in Key BY <1>3 DEF Fast, Types, Callers
  <2> HIDE DEF k
  <2>2. /\ Others(k) /\ Same(k) /\ pc[c] = "fast" /\ call'[c].key = k
        /\ \A d \in Client : d # c => call'[d] = call[d]
        /\ \/ got' = got \cup {c} /\ node[k].present /\ node'[k].refs = node[k].refs + 1
           \/ got' = got /\ node'[k].refs = node[k].refs
    BY <1>3, <2>1, FastNode DEF k
  <2>3. c \notin got BY <2>2 DEF Clients
  <2>4. CASE got' = got \cup {c} /\ node[k].present /\ node'[k].refs = node[k].refs + 1
    BY <1>1, <2>1, <2>2, <2>3, <2>4, HeldGained DEF Same
  <2>5. CASE got' = got /\ node'[k].refs = node[k].refs
    <3>1. \A j \in Key : node'[j].refs = node[j].refs /\ node'[j].present = node[j].present
      BY <2>2, <2>5 DEF Others, Same
    <3> QED BY <1>1, <2>2, <2>3, <2>5, <3>1, HeldSame
  <2> QED BY <2>2, <2>4, <2>5
<1>4. ASSUME NEW c \in Client, Slow(c) \/ Relock(c) PROVE HeldStays'
  <2> DEFINE k == call[c].key
  <2>1. PICK late \in BOOLEAN : Turn(c, late) BY <1>4 DEF Slow, Relock
  <2>2. k \in Key BY <1>4 DEF Slow, Relock, Types, Callers
  <2>3. /\ \A d \in Client : d # c => call'[d] = call[d]
        /\ c \in got' => call'[c].key = call[c].key
    <3>1. CASE call' = call BY <3>1
    <3>2. CASE IF c \in got' THEN Leave(c, TRUE) ELSE Leave(c, FALSE)
      <4>1. Callers BY DEF Types
      <4>2. CASE c \in got' BY <2>2, <3>2, <4>1, <4>2, LeaveCallers
      <4>3. CASE c \notin got' BY <2>2, <3>2, <4>1, <4>3, LeaveCallers
      <4> QED BY <4>2, <4>3
    <3> QED BY <2>1, <2>2, <3>1, <3>2, TurnEnds
  <2> HIDE DEF k
  <2>4. /\ Others(k) /\ node'[k].present
        /\ \/ /\ c \notin got /\ got' = got \cup {c} /\ node[k].present
              /\ node'[k].refs = node[k].refs + 1
           \/ /\ got' = got /\ node'[k].refs = IF node[k].present THEN node[k].refs ELSE 0
    BY <2>1, <2>2, TurnNode DEF k
  <2>5. CASE /\ c \notin got /\ got' = got \cup {c} /\ node[k].present
             /\ node'[k].refs = node[k].refs + 1
    BY <1>1, <2>2, <2>3, <2>4, <2>5, HeldGained DEF k
  <2>6. CASE got' = got /\ node'[k].refs = IF node[k].present THEN node[k].refs ELSE 0
    <3>1. node'[k].refs = node[k].refs BY <1>1, <2>2, <2>6
    <3>2. \A j \in Key : node'[j].refs = node[j].refs /\ (node[j].present => node'[j].present)
      BY <2>4, <3>1 DEF Others
    <3> QED BY <1>1, <2>3, <2>6, <3>2, HeldSame
  <2> QED BY <2>4, <2>5, <2>6
<1>5. ASSUME NEW c \in Client, Close(c) PROVE HeldStays'
  <2> DEFINE k == call[c].key
  <2>1. k \in Key /\ c \in got BY <1>5 DEF Close, Types, Callers, Clients
  <2>2. /\ got' = got \ {c} /\ node' = [node EXCEPT ![k].refs = @ - 1] /\ Leave(c, FALSE)
    BY <1>5 DEF Close
  <2>3. \A d \in Client : d # c => call'[d] = call[d]
    BY <2>1, <2>2, LeaveCallers DEF Types
  <2> HIDE DEF k
  <2>4. /\ Others(k) /\ node'[k].refs = node[k].refs - 1 /\ node'[k].present = node[k].present
    BY <1>1, <2>1, <2>2 DEF Others, Entry
  <2> QED BY <1>1, <2>1, <2>2, <2>3, <2>4, HeldLost DEF k
<1>6. ASSUME NEW k \in Key, Evict(k) PROVE HeldStays'
  <2>1. node[k].refs = 0 /\ node' = [node EXCEPT ![k] = Absent] /\ UNCHANGED <<got, call>>
    BY <1>6 DEF Evict, Expired, clientVars
  <2>2. Holders(k) = {} BY <1>1, <2>1
  <2>3. \A j \in Key : node'[j].refs = node[j].refs /\ (j # k => node'[j] = node[j])
    BY <1>1, <2>1 DEF Absent
  <2> QED BY <1>1, <2>1, <2>2, <2>3, HeldSame
<1>7. ASSUME UNCHANGED <<got, call>>,
             \A k \in Key : node'[k].refs = node[k].refs /\ node'[k].present = node[k].present
      PROVE  HeldStays'
  BY <1>1, <1>7, HeldSame
<1>8. ASSUME NEW k \in Key, Cancel(k) PROVE HeldStays'
  <2>1. \A j \in Key : node'[j].refs = node[j].refs /\ node'[j].present = node[j].present
    BY <1>1, <1>8 DEF Cancel, Entry
  <2> QED BY <1>7, <1>8, <2>1 DEF Cancel, clientVars
<1>9. ASSUME NEW l \in Lane, NEW d \in Data, Complete(l, d) PROVE HeldStays'
  <2>1. \A j \in Key : node'[j].refs = node[j].refs /\ node'[j].present = node[j].present
    BY <1>1, <1>9 DEF Complete, Entry
  <2> QED BY <1>7, <1>9, <2>1 DEF Complete, clientVars
<1>10. ASSUME NEW p \in Path, Write(p) PROVE HeldStays'
  <2>1. \A j \in Key : node'[j].refs = node[j].refs /\ node'[j].present = node[j].present
    BY <1>1, <1>10 DEF Write, Entry
  <2> QED BY <1>7, <1>10, <2>1 DEF Write, clientVars
<1>11. ASSUME NEW l \in Lane, ReadGood(l) \/ ReadNone(l) PROVE HeldStays'
  BY <1>9, <1>11 DEF ReadGood, ReadNone, Looked, Data
<1>12. ASSUME UNCHANGED <<node, got, call>> PROVE HeldStays' BY <1>7, <1>12
<1> QED
  BY <1>2, <1>3, <1>4, <1>5, <1>6, <1>8, <1>10, <1>11, <1>12
     DEF Next, vars, cacheVars, clientVars, Tick, ClientStep, Create, Sleep, Wake, StartTick,
         Gather, TakeWide, TakeThin, EndTask, Look, ReadBad, Resubmit, TickFiles

-----------------------------------------------------------------------------
(* The requests on their way: in a batch, among the tasks, in the hand of a *)
(* lane, or about to be made by a client.                                  *)
Hands(k) == Cardinality({l \in Lane : hand[l].key = k})
Asked(k) == Cardinality({c \in need : call[c].key = k})

LEMMA QueuedSum ==
  ASSUME NEW q \in Batches, NEW k \in Key
  PROVE  /\ Queued(k, q) = In(k, q[1].wide) + In(k, q[1].thin) + In(k, q[2].wide) + In(k, q[2].thin)
         /\ In(k, q[1].wide) \in Nat /\ In(k, q[1].thin) \in Nat
         /\ In(k, q[2].wide) \in Nat /\ In(k, q[2].thin) \in Nat
<1>1. \A i \in {1, 2} : q[i].wide \in Seq(Requests) /\ q[i].thin \in Seq(Requests)
  BY PairType DEF Pair
<1>2. \A i \in {1, 2} : In(k, q[i].wide) \in Nat /\ In(k, q[i].thin) \in Nat BY <1>1, InType
<1> QED BY <1>2 DEF Queued, Both

LEMMA Parts ==
  ASSUME Types, NEW k \in Key
  PROVE  /\ InFlight(k) = Queued(k, batch) + Queued(k, tasks) + Hands(k) + Asked(k)
         /\ Queued(k, batch) \in Nat /\ Queued(k, tasks) \in Nat
         /\ Hands(k) \in Nat /\ Asked(k) \in Nat
         /\ IsFiniteSet({l \in Lane : hand[l].key = k}) /\ IsFiniteSet({c \in need : call[c].key = k})
<1>1. /\ batch \in Batches /\ tasks \in Batches /\ need \subseteq Client
      /\ IsFiniteSet(Client) /\ IsFiniteSet(Lane)
  BY CacheAssumption DEF Types, Queues, Callers
<1>2. IsFiniteSet({l \in Lane : hand[l].key = k}) /\ Hands(k) \in Nat
  BY <1>1, FS_Subset, FS_CardinalityType DEF Hands
<1>3. IsFiniteSet({c \in need : call[c].key = k}) /\ Asked(k) \in Nat
  <2>1. {c \in need : call[c].key = k} \in SUBSET Client BY <1>1
  <2> QED BY <1>1, <2>1, FS_Subset, FS_CardinalityType DEF Asked
<1>4. Queued(k, batch) \in Nat /\ Queued(k, tasks) \in Nat BY <1>1, PairType
<1>5. InFlight(k) = Queued(k, batch) + Queued(k, tasks) + Hands(k) + Asked(k)
  BY <1>1, <1>2, <1>3, QueuedSum DEF InFlight, Hands, Asked
<1> QED BY <1>2, <1>3, <1>4, <1>5

LEMMA PartsNext ==
  ASSUME Types', NEW k \in Key
  PROVE  /\ InFlight(k)' = Queued(k, batch') + Queued(k, tasks') + Hands(k)' + Asked(k)'
         /\ Asked(k)' \in Nat
<1>1. /\ batch' \in Batches /\ tasks' \in Batches /\ need' \subseteq Client
      /\ IsFiniteSet(Client) /\ IsFiniteSet(Lane)
  BY CacheAssumption DEF Types, Queues, Callers
<1>2. Hands(k)' \in Nat BY <1>1, FS_Subset, FS_CardinalityType DEF Hands
<1>3. Asked(k)' \in Nat
  <2>1. {c \in need' : call'[c].key = k} \in SUBSET Client BY <1>1
  <2> QED BY <1>1, <2>1, FS_Subset, FS_CardinalityType DEF Asked
<1> QED BY <1>1, <1>2, <1>3, QueuedSum DEF InFlight, Hands, Asked

(* A lane changes what it has in its hand.                                  *)
LEMMA HandChange ==
  ASSUME Types, NEW l \in Lane, NEW h, hand' = [hand EXCEPT ![l] = h], NEW k \in Key
  PROVE  Hands(k)' = Hands(k) - (IF hand[l].key = k THEN 1 ELSE 0) + (IF h.key = k THEN 1 ELSE 0)
<1> DEFINE A == {m \in Lane : hand[m].key = k}
           B == {m \in Lane : hand'[m].key = k}
<1>1. /\ hand'[l] = h /\ \A m \in Lane : m # l => hand'[m] = hand[m]
  BY DEF Types, Queues
<1>2. Hands(k) = Cardinality(A) /\ Hands(k)' = Cardinality(B) BY DEF Hands
<1>3. /\ B \ {l} = A \ {l}
      /\ (l \in A <=> hand[l].key = k) /\ (l \in B <=> h.key = k)
  BY <1>1
<1>4. IsFiniteSet(A) /\ IsFiniteSet(B) /\ Cardinality(A) \in Nat /\ Cardinality(B) \in Nat
  BY CacheAssumption, FS_Subset, FS_CardinalityType
<1> HIDE DEF A, B
<1>5. /\ Cardinality(A \ {l}) = IF l \in A THEN Cardinality(A) - 1 ELSE Cardinality(A)
      /\ Cardinality(B \ {l}) = IF l \in B THEN Cardinality(B) - 1 ELSE Cardinality(B)
  BY <1>4, FS_RemoveElement
<1>6. Cardinality(B \ {l}) = Cardinality(A \ {l}) BY <1>3
<1>7. Cardinality(B) - (IF l \in B THEN 1 ELSE 0) = Cardinality(A) - (IF l \in A THEN 1 ELSE 0)
  BY <1>4, <1>5, <1>6
<1> QED BY <1>2, <1>3, <1>4, <1>7

LEMMA HandSame ==
  ASSUME \A l \in Lane : hand'[l].key = hand[l].key, NEW k PROVE Hands(k)' = Hands(k)
BY DEF Hands

(* A client begins or ends to need a request.                               *)
LEMMA AskedGained ==
  ASSUME Types, NEW c \in Client, c \notin need, need' = need \cup {c},
         \A d \in need' : call'[d].key = call[d].key, NEW k \in Key
  PROVE  Asked(k)' = Asked(k) + (IF call[c].key = k THEN 1 ELSE 0)
<1> DEFINE A == {d \in need : call[d].key = k}
           B == {d \in need' : call'[d].key = k}
<1>1. Asked(k) = Cardinality(A) /\ Asked(k)' = Cardinality(B) /\ IsFiniteSet(A) BY Parts DEF Asked
<1>2. B = (IF call[c].key = k THEN A \cup {c} ELSE A) /\ c \notin A OBVIOUS
<1> HIDE DEF A, B
<1>3. Cardinality(A \cup {c}) = IF c \in A THEN Cardinality(A) ELSE Cardinality(A) + 1
  BY <1>1, FS_AddElement
<1>4. Cardinality(A) \in Nat BY <1>1, FS_CardinalityType
<1> QED BY <1>1, <1>2, <1>3, <1>4

LEMMA AskedDropped ==
  ASSUME Types, NEW c \in Client, need' = need \ {c},
         \A d \in need' : call'[d].key = call[d].key, NEW k \in Key
  PROVE  Asked(k)' = Asked(k) - (IF c \in need /\ call[c].key = k THEN 1 ELSE 0)
<1> DEFINE A == {d \in need : call[d].key = k}
           B == {d \in need' : call'[d].key = k}
<1>1. Asked(k) = Cardinality(A) /\ Asked(k)' = Cardinality(B) /\ IsFiniteSet(A) BY Parts DEF Asked
<1>2. B = A \ {c} /\ (c \in A <=> c \in need /\ call[c].key = k) OBVIOUS
<1> HIDE DEF A, B
<1>3. Cardinality(A \ {c}) = IF c \in A THEN Cardinality(A) - 1 ELSE Cardinality(A)
  BY <1>1, FS_RemoveElement
<1>4. Cardinality(A) \in Nat BY <1>1, FS_CardinalityType
<1> QED BY <1>1, <1>2, <1>3, <1>4

LEMMA AskedSame ==
  ASSUME need' = need, \A d \in need : call'[d].key = call[d].key, NEW k
  PROVE  Asked(k)' = Asked(k)
BY DEF Asked

LEMMA FlightSame ==
  ASSUME Types, Types', NEW k \in Key, Queued(k, batch') = Queued(k, batch),
         Queued(k, tasks') = Queued(k, tasks), Hands(k)' = Hands(k), Asked(k)' = Asked(k)
  PROVE  InFlight(k)' = InFlight(k)
BY Parts, PartsNext

LEMMA CountSame ==
  ASSUME NEW k \in Key, Counted(k), InFlight(k)' = InFlight(k),
         node'[k].working = node[k].working, node[k].cancelled => node'[k].cancelled
  PROVE  Counted(k)'
BY DEF Counted

LEMMA TurnAsked ==
  ASSUME Types, NEW c \in Client, NEW late \in BOOLEAN, Turn(c, late), call[c].key \in Key
  PROVE  need' = need \ {c} /\ \A d \in Client : d # c => call'[d] = call[d]
<1>1. Callers BY DEF Types
<1>2. /\ need' = need \ {c}
      /\ \/ (IF c \in got' THEN Leave(c, TRUE) ELSE Leave(c, FALSE)) /\ writer' = None
         \/ /\ pc' = [pc EXCEPT ![c] = "enter"] /\ writer' = c /\ call' = call
            /\ c \notin got'
  BY TurnEnds
<1>3. call' = call \/ Leave(c, TRUE) \/ Leave(c, FALSE) BY <1>2
<1>4. CASE call' = call BY <1>2, <1>4
<1>5. CASE Leave(c, TRUE) BY <1>1, <1>2, <1>5, LeaveCallers
<1>6. CASE Leave(c, FALSE) BY <1>1, <1>2, <1>6, LeaveCallers
<1> QED BY <1>3, <1>4, <1>5, <1>6

(* What a turn asks for: by a client that has to, or because there is no    *)
(* node.                                                                   *)
LEMMA TurnParts ==
  ASSUME Types, NEW c \in Client, NEW late \in BOOLEAN, Turn(c, late),
         NEW k \in Key, k = call[c].key, UNCHANGED <<tasks, hand>>, NEW j \in Key
  PROVE  /\ Queued(j, batch') = Queued(j, batch)
              + (IF (c \in need \/ ~ node[k].present) /\ k = j THEN 1 ELSE 0)
         /\ Asked(j)' = Asked(j) - (IF c \in need /\ k = j THEN 1 ELSE 0)
         /\ Hands(j)' = Hands(j) /\ Queued(j, tasks') = Queued(j, tasks)
<1> DEFINE asks == c \in need \/ ~ node[k].present
           w == Queue(call[c].wide)
<1>1. IF asks THEN batch' = Put(batch, Place(c), w, Asking(c)) ELSE batch' = batch
  BY TurnQueues
<1>2. /\ Asking(c) \in Requests /\ Asking(c).key = k /\ w \in {"wide", "thin"}
      /\ Place(c) \in {1, 2} /\ batch \in Batches /\ need \subseteq Client
  BY AskingType DEF Asking, Types, Queues, Callers
<1>3. need' = need \ {c} /\ \A d \in Client : d # c => call'[d] = call[d] BY TurnAsked
<1>4. Asked(j)' = Asked(j) - (IF c \in need /\ call[c].key = j THEN 1 ELSE 0)
  BY <1>2, <1>3, AskedDropped
<1> HIDE DEF asks, w
<1>5. Queued(j, Put(batch, Place(c), w, Asking(c)))
        = Queued(j, batch) + (IF Asking(c).key = j THEN 1 ELSE 0)
  BY <1>2, QueuePut
<1>6. Queued(j, batch) \in Nat BY Parts
<1>7. Queued(j, batch') = Queued(j, batch) + (IF asks /\ k = j THEN 1 ELSE 0)
  <2>1. CASE asks BY <1>1, <1>2, <1>5, <2>1
  <2>2. CASE ~ asks BY <1>1, <1>6, <2>2
  <2> QED BY <2>1, <2>2
<1> QED BY <1>4, <1>7 DEF asks, Hands

LEMMA TurnCounts ==
  ASSUME Types, Types', Requested, NEW c \in Client, NEW late \in BOOLEAN, Turn(c, late),
         NEW k \in Key, k = call[c].key, UNCHANGED <<tasks, hand>>
  PROVE  Requested'
<1>1. \A j \in Key :
         /\ Queued(j, batch') = Queued(j, batch)
              + (IF (c \in need \/ ~ node[k].present) /\ k = j THEN 1 ELSE 0)
         /\ Asked(j)' = Asked(j) - (IF c \in need /\ k = j THEN 1 ELSE 0)
         /\ Hands(j)' = Hands(j) /\ Queued(j, tasks') = Queued(j, tasks)
  BY TurnParts
<1>2. /\ Others(k)
      /\ node[k].present =>
           node'[k].working = node[k].working /\ node'[k].cancelled = node[k].cancelled
      /\ ~ node[k].present => node'[k].working = 1 /\ ~ node'[k].cancelled
  BY TurnNode DEF Same
<1>3. ~ node[k].present => node[k].working = 0 /\ ~ node[k].cancelled
  BY DEF Types, Nodes0
<1>4. \A j \in Key :
        /\ InFlight(j) = Queued(j, batch) + Queued(j, tasks) + Hands(j) + Asked(j)
        /\ InFlight(j)' = Queued(j, batch') + Queued(j, tasks') + Hands(j)' + Asked(j)'
        /\ Queued(j, batch) \in Nat /\ Queued(j, tasks) \in Nat /\ Hands(j) \in Nat
        /\ Asked(j) \in Nat /\ Asked(j)' \in Nat
  BY Parts, PartsNext
<1>5. ASSUME NEW j \in Key, j # k PROVE Counted(j)'
  <2>1. /\ Queued(j, batch') = Queued(j, batch) /\ Asked(j)' = Asked(j)
        /\ Hands(j)' = Hands(j) /\ Queued(j, tasks') = Queued(j, tasks)
    BY <1>1, <1>4, <1>5
  <2>2. InFlight(j)' = InFlight(j) BY <2>1, FlightSame
  <2>3. node'[j] = node[j] BY <1>2, <1>5 DEF Others
  <2> QED BY <2>2, <2>3, CountSame DEF Requested
<1>6. CASE node[k].present
  <2>1. InFlight(k)' = InFlight(k) BY <1>1, <1>4, <1>6
  <2>2. Counted(k)' BY <1>2, <1>6, <2>1, CountSame DEF Requested
  <2> QED BY <1>5, <2>2 DEF Requested
<1>7. CASE ~ node[k].present
  <2>1. InFlight(k) = 0 BY <1>3, <1>7 DEF Requested, Counted
  <2>2. /\ Queued(k, batch) = 0 /\ Queued(k, tasks) = 0 /\ Hands(k) = 0 /\ Asked(k) = 0
    BY <1>4, <2>1
  <2>3. Queued(k, batch') = 1 /\ Queued(k, tasks') = 0 /\ Hands(k)' = 0
    BY <1>1, <1>7, <2>2
  <2>4. Asked(k)' = 0 BY <1>1, <1>4, <2>2
  <2>5. InFlight(k)' = 1 BY <1>4, <2>3, <2>4
  <2>6. Counted(k)' BY <1>2, <1>7, <2>5 DEF Counted
  <2> QED BY <1>5, <2>6 DEF Requested
<1> QED BY <1>6, <1>7

LEMMA FastCounts ==
  ASSUME Types, Types', Clients, Requested, NEW c \in Client, Fast(c),
         NEW k \in Key, k = call[c].key
  PROVE  Requested'
<1>1. /\ Others(k) /\ Same(k) /\ UNCHANGED <<batch, tasks, hand>> /\ pc[c] = "fast"
      /\ \A d \in Client : call'[d].key = call[d].key
      /\ \/ need' = need /\ node'[k].working = node[k].working
         \/ /\ need' = need \cup {c} /\ node[k].present /\ node[k].working = 0
            /\ node'[k].working = 1
  BY FastNode DEF tickVars
<1>2. need \subseteq Client /\ c \notin need BY <1>1 DEF Types, Callers, Clients
<1>3. \A j \in Key : Hands(j)' = Hands(j) BY <1>1 DEF Hands
<1>4. CASE need' = need /\ node'[k].working = node[k].working
  <2> SUFFICES ASSUME NEW j \in Key PROVE Counted(j)' BY DEF Requested
  <2>1. Asked(j)' = Asked(j) BY <1>1, <1>2, <1>4, AskedSame
  <2>2. InFlight(j)' = InFlight(j) BY <1>1, <1>3, <2>1, FlightSame
  <2>3. node'[j].working = node[j].working /\ node'[j].cancelled = node[j].cancelled
    BY <1>1, <1>4 DEF Others, Same
  <2> QED BY <2>2, <2>3, CountSame DEF Requested
<1>5. CASE /\ need' = need \cup {c} /\ node[k].present /\ node[k].working = 0
           /\ node'[k].working = 1
  <2>1. ASSUME NEW j \in Key PROVE Asked(j)' = Asked(j) + (IF k = j THEN 1 ELSE 0)
    BY <1>1, <1>2, <1>5, AskedGained
  <2>2. ASSUME NEW j \in Key, j # k PROVE Counted(j)'
    <3>1. Asked(j) \in Nat /\ Asked(j)' = Asked(j) + 0 BY <2>1, <2>2, Parts
    <3>2. InFlight(j)' = InFlight(j)
      <4>1. Asked(j)' = Asked(j) BY <3>1
      <4> QED BY <1>1, <1>3, <4>1, FlightSame
    <3>3. node'[j] = node[j] BY <1>1, <2>2 DEF Others
    <3> QED BY <3>2, <3>3, CountSame DEF Requested
  <2>3. Counted(k)'
    <3>1. InFlight(k) = 0 BY <1>5 DEF Requested, Counted
    <3>2. Asked(k)' = Asked(k) + 1 BY <2>1
    <3>3. /\ InFlight(k) = Queued(k, batch) + Queued(k, tasks) + Hands(k) + Asked(k)
          /\ Queued(k, batch) \in Nat /\ Queued(k, tasks) \in Nat /\ Hands(k) \in Nat
          /\ Asked(k) \in Nat
      BY Parts
    <3>4. InFlight(k)' = Queued(k, batch') + Queued(k, tasks') + Hands(k)' + Asked(k)'
      BY PartsNext
    <3>5. /\ Queued(k, batch') = Queued(k, batch) /\ Queued(k, tasks') = Queued(k, tasks)
          /\ Hands(k)' = Hands(k)
      BY <1>1, <1>3
    <3>6. InFlight(k)' = InFlight(k) + 1 BY <3>2, <3>3, <3>4, <3>5
    <3> QED BY <1>5, <3>1, <3>6 DEF Counted
  <2> QED BY <2>2, <2>3 DEF Requested
<1> QED BY <1>1, <1>4, <1>5

(* What the other actions do to the requests on their way for a key.        *)
LEMMA PairZero ==
  ASSUME Types, NEW k \in Key, NEW i \in {1, 2}, tasks[i] = Empty PROVE Both(k, tasks[i]) = 0
BY PairType DEF Types, Queues

LEMMA GatherFlight ==
  ASSUME Types, Types', Phases, Gather, NEW k \in Key PROVE InFlight(k)' = InFlight(k)
<1>1. /\ batch' = [batch EXCEPT ![prio] = Empty] /\ tasks' = [tasks EXCEPT ![prio] = batch[prio]]
      /\ UNCHANGED <<hand, need, call>> /\ phase = "gather"
  BY DEF Gather, clientVars
<1>2. batch \in Batches /\ tasks \in Batches /\ batch' \in Batches /\ tasks' \in Batches /\ prio \in {1, 2}
  BY DEF Types, Queues
<1>3. tasks[prio] = Empty BY <1>1, <1>2 DEF Phases
<1>4. /\ Apart(batch', batch, prio) /\ batch'[prio] = Empty
      /\ Apart(tasks', tasks, prio) /\ tasks'[prio] = batch[prio]
  BY <1>1, <1>2 DEF Apart, Batches
<1>5. Queued(k, batch') = Queued(k, batch) - Both(k, batch[prio]) + Both(k, batch'[prio])
  BY <1>2, <1>4, QueueSet
<1>6. Queued(k, tasks') = Queued(k, tasks) - Both(k, tasks[prio]) + Both(k, tasks'[prio])
  BY <1>2, <1>4, QueueSet
<1>7. Both(k, Empty) = 0 /\ Both(k, batch[prio]) \in Nat BY <1>2, PairType
<1>8. Hands(k)' = Hands(k) /\ Asked(k)' = Asked(k) BY <1>1 DEF Hands, Asked
<1>9. /\ Queued(k, batch') = Queued(k, batch) - Both(k, batch[prio])
      /\ Queued(k, tasks') = Queued(k, tasks) + Both(k, batch[prio])
  <2>1. Queued(k, batch) \in Nat /\ Queued(k, tasks) \in Nat BY Parts
  <2> QED BY <1>3, <1>4, <1>5, <1>6, <1>7, <2>1
<1>10. /\ InFlight(k) = Queued(k, batch) + Queued(k, tasks) + Hands(k) + Asked(k)
       /\ Queued(k, batch) \in Nat /\ Queued(k, tasks) \in Nat /\ Hands(k) \in Nat
       /\ Asked(k) \in Nat
  BY Parts
<1>11. InFlight(k)' = Queued(k, batch') + Queued(k, tasks') + Hands(k)' + Asked(k)'
  BY PartsNext
<1> QED BY <1>7, <1>8, <1>9, <1>10, <1>11

LEMMA TakeFlight ==
  ASSUME Types, Types', NEW l \in Lane, hand[l] = NoRequest, NEW w \in {"wide", "thin"},
         TakeFirst(l, w), Rest[w] # <<>>, UNCHANGED <<batch, need, call>>, NEW k \in Key
  PROVE  InFlight(k)' = InFlight(k)
<1>1. tasks' = Taken(tasks, prio, w) /\ hand' = [hand EXCEPT ![l] = Head(tasks[prio][w])]
  BY DEF TakeFirst, Taken, Rest
<1>2. tasks \in Batches /\ prio \in {1, 2} /\ tasks[prio][w] # <<>> BY DEF Types, Queues, Rest
<1> DEFINE h == Head(tasks[prio][w])
           one == IF h.key = k THEN 1 ELSE 0
<1>3. Queued(k, tasks) = Queued(k, tasks') + one BY <1>1, <1>2, QueueTake
<1>4. Queued(k, tasks') \in Nat BY PairType DEF Types, Queues
<1>5. hand[l].key # k BY Constants
<1>6. Hands(k)' = Hands(k) - (IF hand[l].key = k THEN 1 ELSE 0) + one BY <1>1, HandChange
<1>7. /\ InFlight(k) = Queued(k, batch) + Queued(k, tasks) + Hands(k) + Asked(k)
      /\ Queued(k, batch) \in Nat /\ Hands(k) \in Nat /\ Asked(k) \in Nat
  BY Parts
<1>8. InFlight(k)' = Queued(k, batch') + Queued(k, tasks') + Hands(k)' + Asked(k)'
  BY PartsNext
<1>9. Queued(k, batch') = Queued(k, batch) /\ Asked(k)' = Asked(k) BY DEF Asked
<1>10. one \in {0, 1} OBVIOUS
<1> HIDE DEF one
<1>11. Hands(k)' = Hands(k) + one BY <1>5, <1>6, <1>7, <1>10
<1> QED BY <1>3, <1>4, <1>7, <1>8, <1>9, <1>10, <1>11

LEMMA EndFlight ==
  ASSUME Types, Types', Phases, EndTask, NEW k \in Key PROVE InFlight(k)' = InFlight(k)
<1>1. /\ tasks' = [tasks EXCEPT ![prio] = Empty] /\ UNCHANGED <<hand, need, call>>
      /\ batch' = IF prio = 2 THEN [batch EXCEPT ![2] = Returned] ELSE batch
  BY DEF EndTask, clientVars
<1>2. batch \in Batches /\ tasks \in Batches /\ batch' \in Batches /\ tasks' \in Batches /\ prio \in {1, 2}
  BY DEF Types, Queues
<1>3. Apart(tasks', tasks, prio) /\ tasks'[prio] = Empty BY <1>1, <1>2 DEF Apart, Batches
<1>4. Queued(k, tasks') = Queued(k, tasks) - Both(k, tasks[prio]) + Both(k, tasks'[prio])
  BY <1>2, <1>3, QueueSet
<1>5. Both(k, Empty) = 0 /\ Both(k, tasks[prio]) \in Nat BY <1>2, PairType
<1>6. Hands(k)' = Hands(k) /\ Asked(k)' = Asked(k) BY <1>1 DEF Hands, Asked
<1>7. /\ InFlight(k) = Queued(k, batch) + Queued(k, tasks) + Hands(k) + Asked(k)
      /\ Queued(k, batch) \in Nat /\ Queued(k, tasks) \in Nat /\ Hands(k) \in Nat
      /\ Asked(k) \in Nat
  BY Parts
<1>8. InFlight(k)' = Queued(k, batch') + Queued(k, tasks') + Hands(k)' + Asked(k)'
  BY PartsNext
<1>9. Queued(k, tasks') = Queued(k, tasks) - Both(k, tasks[prio]) BY <1>3, <1>4, <1>5, <1>7
<1>10. CASE prio = 1
  <2>1. Both(k, tasks[prio]) = 0 /\ batch' = batch BY <1>1, <1>5, <1>10, EndEmpty
  <2> QED BY <1>6, <1>7, <1>8, <1>9, <2>1
<1>11. CASE prio = 2
  <2>1. Both(k, Returned) = Both(k, batch[2]) + Both(k, tasks[2]) /\ Returned \in Pair
    BY <1>11, ReturnedType
  <2>2. Apart(batch', batch, 2) /\ batch'[2] = Returned BY <1>1, <1>2, <1>11 DEF Apart, Batches
  <2>3. Queued(k, batch') = Queued(k, batch) - Both(k, batch[2]) + Both(k, batch'[2])
    BY <1>2, <2>2, QueueSet
  <2>4. Both(k, batch[2]) \in Nat /\ Both(k, tasks[2]) \in Nat BY <1>2, PairType
  <2>5. Queued(k, batch') = Queued(k, batch) + Both(k, tasks[2])
    BY <1>7, <2>1, <2>2, <2>3, <2>4
  <2> QED BY <1>6, <1>7, <1>8, <1>9, <1>11, <2>4, <2>5
<1> QED BY <1>2, <1>10, <1>11

(* A lane puts its request down: it is done, or back in a batch.            *)
LEMMA DropFlight ==
  ASSUME Types, Types', NEW l \in Lane, hand[l] \in Requests, hand' = [hand EXCEPT ![l] = NoRequest],
         UNCHANGED <<batch, tasks, need, call>>, NEW k \in Key
  PROVE  /\ InFlight(k) \in Nat
         /\ k = hand[l].key => InFlight(k) > 0 /\ InFlight(k)' = InFlight(k) - 1
         /\ k # hand[l].key => InFlight(k)' = InFlight(k)
<1>1. NoRequest.key # k BY Constants
<1>2. Hands(k)' = Hands(k) - (IF hand[l].key = k THEN 1 ELSE 0) + (IF NoRequest.key = k THEN 1 ELSE 0)
  BY HandChange
<1>3. /\ InFlight(k) = Queued(k, batch) + Queued(k, tasks) + Hands(k) + Asked(k)
      /\ Queued(k, batch) \in Nat /\ Queued(k, tasks) \in Nat /\ Hands(k) \in Nat
      /\ Asked(k) \in Nat
  BY Parts
<1>4. InFlight(k)' = Queued(k, batch) + Queued(k, tasks) + Hands(k)' + Asked(k)'
  BY PartsNext
<1>5. Hands(k)' \in Nat
  <2>1. IsFiniteSet({m \in Lane : hand'[m].key = k}) BY CacheAssumption, FS_Subset
  <2> QED BY <2>1, FS_CardinalityType DEF Hands
<1>6. Asked(k)' = Asked(k) BY DEF Asked
<1>7. CASE k = hand[l].key
  <2>1. Hands(k)' = Hands(k) - 1 BY <1>1, <1>2, <1>3, <1>7
  <2> QED BY <1>3, <1>4, <1>5, <1>6, <1>7, <2>1
<1>8. CASE k # hand[l].key
  <2>1. Hands(k)' = Hands(k) BY <1>1, <1>2, <1>3, <1>8
  <2> QED BY <1>3, <1>4, <1>6, <1>8, <2>1
<1> QED BY <1>7, <1>8

LEMMA BackFlight ==
  ASSUME Types, Types', NEW l \in Lane, hand[l] \in Requests, Resubmit(l),
         ~ node[hand[l].key].cancelled, NEW j \in Key
  PROVE  InFlight(j)' = InFlight(j)
<1> DEFINE one == IF hand[l].key = j THEN 1 ELSE 0
<1>1. PICK h \in Requests : h = [hand[l] EXCEPT !.seen = NotSeen] /\ h.key = hand[l].key
  <2>1. [hand[l] EXCEPT !.seen = NotSeen] \in Requests BY DEF Requests
  <2>2. [hand[l] EXCEPT !.seen = NotSeen].key = hand[l].key BY DEF Requests
  <2> QED BY <2>1, <2>2
<1>2. /\ batch' = Put(batch, prio, phase, h) /\ hand' = [hand EXCEPT ![l] = NoRequest]
      /\ UNCHANGED <<tasks, need, call>>
  BY <1>1 DEF Resubmit, Put, clientVars
<1>3. batch \in Batches /\ prio \in {1, 2} /\ phase \in {"wide", "thin"}
  BY Constants DEF Types, Queues
<1>4. Queued(j, batch') = Queued(j, batch) + one
  <2>1. h \in Requests BY <1>1
  <2>2. \A i \in {1, 2}, u \in {"wide", "thin"} :
           Queued(j, Put(batch, i, u, h)) = Queued(j, batch) + (IF h.key = j THEN 1 ELSE 0)
    <3> TAKE i \in {1, 2}, u \in {"wide", "thin"}
    <3>1. \A x \in Key : Queued(x, Put(batch, i, u, h)) = Queued(x, batch) + (IF h.key = x THEN 1 ELSE 0)
      BY <1>3, <2>1, QueuePut, SMTT(60)
    <3> QED BY <3>1
  <2> QED BY <1>1, <1>2, <1>3, <2>2
<1>5. NoRequest.key # j BY Constants
<1>6. Hands(j)' = Hands(j) - one + (IF NoRequest.key = j THEN 1 ELSE 0) BY <1>2, HandChange
<1>7. /\ InFlight(j) = Queued(j, batch) + Queued(j, tasks) + Hands(j) + Asked(j)
      /\ Queued(j, batch) \in Nat /\ Queued(j, tasks) \in Nat /\ Hands(j) \in Nat
      /\ Asked(j) \in Nat
  BY Parts
<1>8. InFlight(j)' = Queued(j, batch') + Queued(j, tasks') + Hands(j)' + Asked(j)'
  BY PartsNext
<1>9. Asked(j)' = Asked(j) /\ Queued(j, tasks') = Queued(j, tasks) BY <1>2 DEF Asked
<1>10. one \in {0, 1} OBVIOUS
<1> HIDE DEF one
<1>11. Hands(j)' = Hands(j) - one BY <1>5, <1>6, <1>7, <1>10
<1> QED BY <1>4, <1>7, <1>8, <1>9, <1>10, <1>11

(* A node keeps its count of the requests on their way.                     *)
LEMMA CountAll ==
  ASSUME Requested, \A k \in Key : InFlight(k)' = InFlight(k),
         \A k \in Key : /\ node'[k].working = node[k].working
                        /\ node[k].cancelled => node'[k].cancelled
  PROVE  Requested'
<1> SUFFICES ASSUME NEW k \in Key PROVE Counted(k)' BY DEF Requested
<1>1. Counted(k) BY DEF Requested
<1> QED BY <1>1, CountSame

LEMMA CompleteCounts ==
  ASSUME Types, Types', Requested, NEW l \in Lane, hand[l] \in Requests, NEW d \in Data,
         Complete(l, d)
  PROVE  Requested'
<1>1. /\ hand' = [hand EXCEPT ![l] = NoRequest] /\ UNCHANGED <<batch, tasks, need, call>>
      /\ node' = IF node[hand[l].key].present
                 THEN [node EXCEPT ![hand[l].key] =
                         [node[hand[l].key] EXCEPT !.gen = hand[l].gen, !.content = d,
                                                   !.working = @ - 1, !.completed = TRUE]]
                 ELSE node
  BY DEF Complete, clientVars
<1>2. node \in [Key -> Entry] BY DEF Types, Nodes0
<1>3. PICK k \in Key : k = hand[l].key BY Constants
<1>4. InFlight(k) > 0 /\ InFlight(k) \in Nat /\ InFlight(k)' = InFlight(k) - 1
  BY <1>1, <1>3, DropFlight
<1>5. node[k].working = 1 /\ InFlight(k) = 1 BY <1>4 DEF Requested, Counted
<1>6. node[k].present BY <1>5 DEF Types, Nodes0
<1>7. /\ node'[k].working = node[k].working - 1 /\ node'[k].cancelled = node[k].cancelled
      /\ Others(k)
  BY <1>1, <1>2, <1>3, <1>6 DEF Entry, Others
<1>8. Counted(k)' BY <1>4, <1>5, <1>7 DEF Counted
<1>9. ASSUME NEW j \in Key, j # k PROVE Counted(j)'
  <2>1. InFlight(j)' = InFlight(j) BY <1>1, <1>3, <1>9, DropFlight
  <2>2. node'[j] = node[j] BY <1>7, <1>9 DEF Others
  <2> QED BY <2>1, <2>2, CountSame DEF Requested
<1> QED BY <1>8, <1>9 DEF Requested

LEMMA ResubmitCounts ==
  ASSUME Types, Types', Requested, NEW l \in Lane, hand[l] \in Requests, Resubmit(l)
  PROVE  Requested'
<1>1. hand' = [hand EXCEPT ![l] = NoRequest] /\ UNCHANGED <<node, tasks, need, call>>
  BY DEF Resubmit, clientVars
<1>2. CASE ~ node[hand[l].key].cancelled BY <1>1, <1>2, BackFlight, CountAll
<1>3. CASE node[hand[l].key].cancelled
  <2>1. PICK k \in Key : k = hand[l].key BY Constants
  <2>2. batch' = batch BY <1>3 DEF Resubmit
  <2>3. InFlight(k) > 0 /\ InFlight(k) \in Nat /\ InFlight(k)' = InFlight(k) - 1
    BY <1>1, <2>1, <2>2, DropFlight
  <2>4. node[k].working = 1 /\ InFlight(k) = 1 BY <2>3 DEF Requested, Counted
  <2>5. Counted(k)' BY <1>1, <1>3, <2>1, <2>3, <2>4 DEF Counted
  <2>6. ASSUME NEW j \in Key, j # k PROVE Counted(j)'
    <3>1. InFlight(j)' = InFlight(j) BY <1>1, <2>1, <2>2, <2>6, DropFlight
    <3> QED BY <1>1, <3>1, CountSame DEF Requested
  <2> QED BY <2>5, <2>6 DEF Requested
<1> QED BY <1>2, <1>3

LEMMA EvictCounts ==
  ASSUME Types, Types', Requested, NEW k \in Key, Evict(k) PROVE Requested'
<1>1. /\ node' = [node EXCEPT ![k] = Absent] /\ node[k].working = 0
      /\ UNCHANGED <<batch, tasks, hand, need, call>>
  BY DEF Evict, clientVars, tickVars
<1>2. node'[k].working = 0 /\ Others(k)
  BY <1>1 DEF Types, Nodes0, Absent, Others
<1>3. \A j \in Key : InFlight(j)' = InFlight(j) BY <1>1 DEF InFlight
<1>4. Counted(k)' BY <1>1, <1>2, <1>3 DEF Requested, Counted
<1>5. ASSUME NEW j \in Key, j # k PROVE Counted(j)'
  BY <1>2, <1>3, <1>5, CountSame DEF Requested, Others
<1> QED BY <1>4, <1>5 DEF Requested

LEMMA RequestStep ==
  ASSUME Types, Types', Clients, Phases, Requested, [Next]_vars PROVE Requested'
<1>1. /\ node \in [Key -> Entry] /\ call \in [Client -> Access] /\ need \subseteq Client
      /\ prio \in {1, 2} /\ hand \in [Lane -> Requests \cup {NoRequest}]
      /\ \A c \in Client : pc[c] # "idle" => call[c].key \in Key
  BY DEF Types, Nodes0, Callers, Queues
<1>2. ASSUME UNCHANGED <<node, batch, tasks, hand, need>>, \A c \in need : call'[c].key = call[c].key
      PROVE  Requested'
  <2>1. \A k \in Key : InFlight(k)' = InFlight(k) BY <1>2, HandSame, AskedSame, FlightSame
  <2> QED BY <1>2, <2>1, CountAll
<1>3. ASSUME NEW c \in Client, Call(c) PROVE Requested'
  <2>1. c \notin need BY <1>3 DEF Call, Begin, Clients
  <2> QED BY <1>1, <1>2, <1>3, <2>1 DEF Call, Begin, tickVars
<1>4. ASSUME NEW c \in Client, Fast(c) PROVE Requested'
  <2>1. call[c].key \in Key BY <1>1, <1>4 DEF Fast
  <2> QED BY <1>4, <2>1, FastCounts
<1>5. ASSUME NEW c \in Client, Slow(c) \/ Relock(c) PROVE Requested'
  <2>1. PICK late \in BOOLEAN : Turn(c, late) BY <1>5 DEF Slow, Relock
  <2>2. call[c].key \in Key /\ UNCHANGED <<tasks, hand>>
    BY <1>1, <1>5 DEF Slow, Relock, tickVars
  <2> QED BY <2>1, <2>2, TurnCounts
<1>6. ASSUME NEW c \in Client, Close(c) PROVE Requested'
  <2>1. /\ c \notin need /\ call[c].key \in Key /\ Leave(c, FALSE)
        /\ UNCHANGED <<batch, tasks, hand, need>>
        /\ node' = [node EXCEPT ![call[c].key].refs = @ - 1]
    BY <1>1, <1>6 DEF Close, Clients, tickVars
  <2>2. \A d \in need : call'[d] = call[d] BY <1>1, <2>1, LeaveCallers DEF Types
  <2>3. \A k \in Key : /\ node'[k].working = node[k].working
                       /\ node'[k].cancelled = node[k].cancelled
    BY <1>1, <2>1 DEF Entry
  <2>4. \A k \in Key : InFlight(k)' = InFlight(k) BY <2>1, <2>2, HandSame, AskedSame, FlightSame
  <2> QED BY <2>3, <2>4, CountAll
<1>7. ASSUME Gather PROVE Requested'
  <2>1. node' = node BY <1>7 DEF Gather
  <2> QED BY <1>7, <2>1, GatherFlight, CountAll
<1>8. ASSUME TakeWide PROVE Requested'
  <2>1. CASE Rest.wide = <<>> \/ StopWide
    BY <1>2, <1>8, <2>1 DEF TakeWide, clientVars
  <2>2. CASE ~ (Rest.wide = <<>> \/ StopWide)
    <3>1. /\ TakeFirst(Lead, "wide") /\ UNCHANGED <<node, batch, need, call>>
          /\ hand[Lead] = NoRequest /\ Lead \in Lane
      BY <1>8, <2>2, CacheAssumption DEF TakeWide, clientVars
    <3> QED BY <2>2, <3>1, TakeFlight, CountAll
  <2> QED BY <2>1, <2>2
<1>9. ASSUME NEW l \in Lane, TakeThin(l) PROVE Requested'
  <2>1. CASE stopped' \/ Rest.thin = <<>>
    BY <1>2, <1>9, <2>1 DEF TakeThin, clientVars
  <2>2. CASE ~ (stopped' \/ Rest.thin = <<>>)
    <3>1. /\ TakeFirst(l, "thin") /\ UNCHANGED <<node, batch, need, call>>
          /\ hand[l] = NoRequest
      BY <1>9, <2>2 DEF TakeThin, clientVars
    <3> QED BY <2>2, <3>1, TakeFlight, CountAll
  <2> QED BY <2>1, <2>2
<1>10. ASSUME EndTask PROVE Requested'
  <2>1. node' = node BY <1>10 DEF EndTask
  <2> QED BY <1>10, <2>1, EndFlight, CountAll
<1>11. ASSUME NEW k \in Key, Cancel(k) PROVE Requested'
  <2>1. \A j \in Key : /\ node'[j].working = node[j].working
                       /\ node[j].cancelled => node'[j].cancelled
    BY <1>1, <1>11 DEF Cancel, Entry
  <2>2. \A j \in Key : InFlight(j)' = InFlight(j)
    BY <1>11 DEF Cancel, clientVars, tickVars, InFlight
  <2> QED BY <2>1, <2>2, CountAll
<1>12. ASSUME NEW l \in Lane, Create(l) PROVE Requested'
  <2>1. CASE Look(l)
    <3>1. hand[l] \in Requests BY <1>1, <2>1 DEF Look
    <3>2. /\ \A m \in Lane : hand'[m].key = hand[m].key
          /\ UNCHANGED <<node, batch, tasks, need, call>>
      BY <1>1, <2>1, <3>1 DEF Look, Requests, clientVars
    <3>3. \A k \in Key : InFlight(k)' = InFlight(k) BY <3>2, HandSame, AskedSame, FlightSame
    <3> QED BY <3>2, <3>3, CountAll
  <2>2. CASE ReadGood(l) \/ ReadNone(l) \/ ReadBad(l)
    <3>1. hand[l] \in Requests BY <1>1, <2>2 DEF ReadGood, ReadNone, ReadBad, Looked
    <3>2. (\E d \in Data : Complete(l, d)) \/ Resubmit(l)
      BY <2>2 DEF ReadGood, ReadNone, ReadBad, Looked, Data
    <3> QED BY <3>1, <3>2, CompleteCounts, ResubmitCounts
  <2> QED BY <1>12, <2>1, <2>2 DEF Create
<1>13. ASSUME NEW p \in Path, Write(p) PROVE Requested'
  <2>1. /\ \A m \in Lane : hand'[m].key = hand[m].key
        /\ UNCHANGED <<batch, tasks, need, call>>
    BY <1>1, <1>13 DEF Write, Requests, clientVars
  <2>2. \A k \in Key : InFlight(k)' = InFlight(k) BY <2>1, HandSame, AskedSame, FlightSame
  <2>3. \A k \in Key : /\ node'[k].working = node[k].working
                       /\ node'[k].cancelled = node[k].cancelled
    BY <1>1, <1>13 DEF Write, Entry
  <2> QED BY <2>2, <2>3, CountAll
<1>14. ASSUME NEW k \in Key, Evict(k) PROVE Requested' BY <1>14, EvictCounts
<1>15. ASSUME UNCHANGED <<node, batch, tasks, hand, need, call>> PROVE Requested' BY <1>2, <1>15
<1> QED
  BY <1>3, <1>4, <1>5, <1>6, <1>7, <1>8, <1>9, <1>10, <1>11, <1>12, <1>13, <1>14, <1>15
     DEF Next, vars, cacheVars, clientVars, tickVars, Tick, ClientStep, Sleep, Wake, StartTick,
         TickFiles

-----------------------------------------------------------------------------
(* A change of a file is noticed.                                          *)
LEMMA NoticedSame ==
  ASSUME Noticed, info' = info,
         \A k \in Key : node'[k].completed =>
           node[k].completed /\ node'[k].content = node[k].content
  PROVE  Noticed'
BY DEF Noticed, OtherRange

LEMMA CompleteData ==
  ASSUME Types, Types', Requested, NEW l \in Lane, hand[l] \in Requests, NEW d \in Data,
         Complete(l, d), NEW k \in Key, k = hand[l].key
  PROVE  node'[k].content = d /\ Others(k)
<1>1. /\ hand' = [hand EXCEPT ![l] = NoRequest] /\ UNCHANGED <<batch, tasks, need, call>>
      /\ node' = IF node[k].present
                 THEN [node EXCEPT ![k] =
                         [node[k] EXCEPT !.gen = hand[l].gen, !.content = d,
                                         !.working = @ - 1, !.completed = TRUE]]
                 ELSE node
  BY DEF Complete, clientVars
<1>2. node \in [Key -> Entry] BY DEF Types, Nodes0
<1>3. InFlight(k) > 0 /\ InFlight(k) \in Nat BY <1>1, DropFlight
<1>4. node[k].working = 1 BY <1>3 DEF Requested, Counted
<1>5. node[k].present BY <1>4 DEF Types, Nodes0
<1> QED BY <1>1, <1>2, <1>5 DEF Entry, Others

LEMMA NoticedStep ==
  ASSUME Types, Types', Requested, Noticed, [Next]_vars PROVE Noticed'
<1>1. /\ node \in [Key -> Entry] /\ PathOf \in [Key -> Path]
      /\ info \in [Path -> [known : BOOLEAN, same : BOOLEAN, gen : 0 .. MaxGen]]
      /\ hand \in [Lane -> Requests \cup {NoRequest}]
  BY FileAssumption DEF Types, Nodes0, Files, Queues
<1>2. ASSUME NEW c \in Client, Fast(c), UNCHANGED info PROVE Noticed'
  <2>1. call[c].key \in Key BY <1>2 DEF Fast, Types, Callers
  <2>2. \A k \in Key : node'[k].completed = node[k].completed /\ node'[k].content = node[k].content
    BY <1>2, <2>1, FastNode DEF Others, Same
  <2> QED BY <1>2, <2>2, NoticedSame
<1>3. ASSUME NEW c \in Client, Slow(c) \/ Relock(c), UNCHANGED info PROVE Noticed'
  <2>1. PICK late \in BOOLEAN : Turn(c, late) BY <1>3 DEF Slow, Relock
  <2>2. PICK k \in Key : k = call[c].key BY <1>3 DEF Slow, Relock, Types, Callers
  <2>3. /\ Others(k)
        /\ node[k].present => Same(k)
        /\ ~ node[k].present => ~ node'[k].completed
    BY <2>1, <2>2, TurnNode
  <2>4. \A j \in Key : node'[j].completed => node[j].completed /\ node'[j].content = node[j].content
    BY <2>3 DEF Others, Same
  <2> QED BY <1>3, <2>4, NoticedSame
<1>4. ASSUME UNCHANGED info,
             \A k \in Key : node'[k].completed => node[k].completed /\ node'[k].content = node[k].content
      PROVE  Noticed'
  BY <1>4, NoticedSame
<1>5. ASSUME NEW l \in Lane, ReadGood(l) PROVE Noticed'
  <2>1. hand[l] \in Requests /\ Complete(l, "same") /\ "same" \in Data
    BY <1>1, <1>5 DEF ReadGood, Looked, Data
  <2>2. PICK k \in Key : k = hand[l].key BY <2>1, Constants
  <2>3. node'[k].content = "same" /\ Others(k) BY <2>1, <2>2, CompleteData
  <2>4. /\ info'[PathOf[k]].known /\ info'[PathOf[k]].same
        /\ \A p \in Path : p # PathOf[k] => info'[p] = info[p]
    BY <1>1, <1>5, <2>2 DEF ReadGood
  <2> SUFFICES ASSUME NEW j \in Key, ~ OtherRange(j), node'[j].completed
               PROVE  /\ node'[j].content # "nothing" => info'[PathOf[j]].known
                      /\ node'[j].content = "other" => ~ info'[PathOf[j]].same
    BY DEF Noticed, OtherRange
  <2>5. CASE j = k BY <2>3, <2>4, <2>5
  <2>6. CASE j # k
    <3>1. PathOf[j] # PathOf[k] BY <2>6 DEF OtherRange
    <3> QED BY <1>1, <2>3, <2>4, <2>6, <3>1 DEF Others, Noticed
  <2> QED BY <2>5, <2>6
<1>6. ASSUME NEW l \in Lane, ReadNone(l) PROVE Noticed'
  <2>1. /\ hand[l] \in Requests /\ Complete(l, "nothing") /\ "nothing" \in Data /\ info' = info
    BY <1>1, <1>6 DEF ReadNone, Looked, Data, fileVars
  <2>2. PICK k \in Key : k = hand[l].key BY <2>1, Constants
  <2>3. node'[k].content = "nothing" /\ Others(k) BY <2>1, <2>2, CompleteData
  <2> QED BY <2>1, <2>3 DEF Noticed, OtherRange, Others
<1>7. ASSUME TickFiles PROVE Noticed'
  <2>1. \A p \in Path : info'[p].known = info[p].known /\ info'[p].same = info[p].same
    BY <1>1, <1>7 DEF TickFiles, Bumped
  <2>2. node' = node BY <1>7 DEF TickFiles
  <2> QED BY <1>1, <2>1, <2>2 DEF Noticed, OtherRange
<1>8. ASSUME NEW p \in Path, Write(p) PROVE Noticed'
  <2>1. \A q \in Path : /\ info'[q].known = info[q].known
                        /\ info'[q].same = IF q = p THEN FALSE ELSE info[q].same
    BY <1>1, <1>8 DEF Write
  <2>2. ASSUME NEW k \in Key
        PROVE  /\ node'[k].completed = node[k].completed
               /\ PathOf[k] # p => node'[k] = node[k]
               /\ node'[k].content = "nothing" <=> node[k].content = "nothing"
    BY <1>1, <1>8 DEF Write, Outdated, Entry, Data
  <2> QED BY <1>1, <2>1, <2>2 DEF Noticed, OtherRange
<1>9. ASSUME NEW c \in Client, Close(c), UNCHANGED info PROVE Noticed'
  <2>1. \A k \in Key : node'[k].completed = node[k].completed /\ node'[k].content = node[k].content
    BY <1>1, <1>9 DEF Close, Entry
  <2> QED BY <1>9, <2>1, NoticedSame
<1>10. ASSUME NEW k \in Key, Evict(k) \/ Cancel(k), UNCHANGED info PROVE Noticed'
  <2>1. \A j \in Key : node'[j].completed => node[j].completed /\ node'[j].content = node[j].content
    <3>1. CASE Evict(k)
      <4>1. node' = [node EXCEPT ![k] = Absent] /\ ~ Absent.completed
        BY <3>1 DEF Evict, Absent
      <4> QED BY <1>1, <4>1
    <3>2. CASE Cancel(k) BY <1>1, <3>2 DEF Cancel, Entry
    <3> QED BY <1>10, <3>1, <3>2
  <2> QED BY <1>10, <2>1, NoticedSame
<1>11. ASSUME UNCHANGED <<node, info>> PROVE Noticed' BY <1>11, NoticedSame
<1>12. ASSUME NEW c \in Client, UNCHANGED info, Call(c) \/ ClientStep(c) PROVE Noticed'
  BY <1>2, <1>3, <1>9, <1>11, <1>12 DEF ClientStep, Call, Begin, Sleep, Wake
<1>13. ASSUME NEW l \in Lane, Create(l) PROVE Noticed'
  BY <1>5, <1>6, <1>11, <1>13 DEF Create, Look, ReadBad, Resubmit, fileVars
<1>14. ASSUME Tick, UNCHANGED info PROVE Noticed'
  BY <1>10, <1>11, <1>14 DEF Tick, StartTick, Gather, TakeWide, TakeThin, EndTask
<1> QED
  BY <1>7, <1>8, <1>11, <1>12, <1>13, <1>14 DEF Next, vars, cacheVars, fileVars

-----------------------------------------------------------------------------
LEMMA Start == Init => IInv
<1> SUFFICES ASSUME Init PROVE IInv OBVIOUS
<1> USE DEF Init, CacheInit
<1>1. /\ Absent \in Entry /\ NoCall \in Access /\ NoRequest.key = None /\ Empty \in Pair
      /\ None \notin Key /\ None \notin Client /\ 0 \in 0 .. MaxGen
  <2>1. Empty \in Pair BY DEF Empty, Pair
  <2> QED BY <2>1, Constants, CacheAssumption
<1>2. batch \in Batches /\ tasks \in Batches /\ \A i \in {1, 2} : batch[i] = Empty /\ tasks[i] = Empty
  BY <1>1 DEF Batches, Pair
<1>3. Types
  <2>1. Nodes0 BY <1>1 DEF Nodes0, Absent
  <2>2. Queues BY <1>2 DEF Queues
  <2>3. Callers BY <1>1 DEF Callers, ClientPc
  <2>4. Files BY <1>1 DEF Files
  <2> QED BY <2>1, <2>2, <2>3, <2>4 DEF Types
<1>4. Clients BY <1>1 DEF Clients
<1>5. Phases BY <1>2 DEF Phases, Doing
<1>6. HeldStays
  <2>1. \A k \in Key : Holders(k) = {} /\ node[k].refs = 0 BY DEF Holders, Absent
  <2> QED BY <2>1, FS_EmptySet DEF HeldStays
<1>7. Requested
  <2> SUFFICES ASSUME NEW k \in Key PROVE Counted(k) BY DEF Requested
  <2>1. Queued(k, batch) = 0 /\ Queued(k, tasks) = 0 BY <1>2, PairType DEF Queued
  <2>2. {l \in Lane : hand[l].key = k} = {} /\ {c \in need : call[c].key = k} = {} BY <1>1
  <2>3. Hands(k) = 0 /\ Asked(k) = 0 BY <2>2, FS_EmptySet DEF Hands, Asked
  <2>4. InFlight(k) = 0 BY <1>3, <2>1, <2>3, Parts
  <2> QED BY <2>4 DEF Counted, Absent
<1>8. Noticed BY DEF Noticed, Absent
<1> QED BY <1>3, <1>4, <1>5, <1>6, <1>7, <1>8 DEF IInv

LEMMA Step == IInv /\ [Next]_vars => IInv'
<1> SUFFICES ASSUME IInv, [Next]_vars PROVE IInv' OBVIOUS
<1> USE DEF IInv
<1>1. Types' BY TypesStep
<1>2. Clients' BY ClientsStep
<1>3. Phases' BY PhasesStep
<1>4. HeldStays' BY HeldStep
<1>5. Requested' BY <1>1, RequestStep
<1>6. Noticed' BY <1>1, NoticedStep
<1> QED BY <1>1, <1>2, <1>3, <1>4, <1>5, <1>6

LEMMA Invariance == Spec => []IInv
BY Start, Step, PTL DEF Spec

(* The types, with the two counters of a node inside their bounds and       *)
(* nothing left of a node that was evicted.                                *)
LEMMA TypesHold == IInv => TypeOK
<1> SUFFICES ASSUME IInv PROVE TypeOK OBVIOUS
<1> USE DEF IInv, Types
<1>1. node \in [Key -> Entry] BY DEF Nodes0
<1>2. ASSUME NEW k \in Key PROVE node[k] \in Nodes /\ (node[k].present \/ node[k] = Absent)
  <2>1. node[k].refs \in 0 .. Cardinality(Client) BY HoldersType DEF HeldStays
  <2>2. node[k].working \in {0, 1} BY DEF Requested, Counted
  <2>3. node[k] \in Nodes BY <1>1, <2>1, <2>2 DEF Entry, Nodes
  <2>4. CASE ~ node[k].present
    <3>1. Holders(k) = {} BY <2>4 DEF HeldStays
    <3>2. node[k].refs = 0 BY <3>1, FS_EmptySet DEF HeldStays
    <3>3. /\ ~ node[k].completed /\ ~ node[k].cancelled /\ node[k].working = 0
          /\ node[k].gen = 0 /\ node[k].content = "nothing"
      BY <2>4 DEF Nodes0
    <3>4. node[k] = Absent BY <1>1, <2>4, <3>2, <3>3 DEF Entry, Absent
    <3> QED BY <2>3, <3>4
  <2> QED BY <2>3, <2>4
<1>3. node \in [Key -> Nodes] BY <1>1, <1>2
<1> QED BY <1>2, <1>3 DEF TypeOK, Queues, Callers, Files

(* Every field of the cache, of the tick and of the file records keeps its  *)
(* type: working_count is 0 or 1, access_refcount never below 0 and never   *)
(* above the number of clients.                                            *)
THEOREM CacheTypes == Spec => []TypeOK
BY Invariance, TypesHold, PTL

(* access_refcount is the number of accesses that are open, and a node with *)
(* one is not evicted, though the fast path counts under the lock for       *)
(* reading and access_close under none.                                    *)
THEOREM AccessesCounted == Spec => []HeldStays
<1>1. IInv => HeldStays BY DEF IInv
<1> QED BY <1>1, Invariance, PTL

(* However clients, lanes, tries and ticks interleave, a node has one       *)
(* request on its way at most, and working_count says whether it has.       *)
THEOREM RequestsCounted == Spec => []OneRequest
<1>1. IInv => OneRequest BY DEF IInv, Requested, Counted, OneRequest
<1> QED BY <1>1, Invariance, PTL

(* Data in the cache that is not what the file has does not pass for good:  *)
(* the record of the path differs from the file, but for the two holes      *)
(* ChangesSeen names.                                                      *)
THEOREM ChangesNoticed == Spec => []ChangesSeen
<1>1. IInv => ChangesSeen
  <2> SUFFICES ASSUME IInv, NEW k \in Key, node[k].completed, node[k].content = "other",
                      ~ OtherRange(k)
               PROVE  info[PathOf[k]].known /\ ~ info[PathOf[k]].same
    BY DEF ChangesSeen
  <2> QED BY DEF IInv, Noticed
<1> QED BY <1>1, Invariance, PTL

(* Clients that are all blocked are so in one way only: one in              *)
(* os_cond_var_wait_rw with the lock, another coming back with the mutex.   *)
THEOREM InversionAlone == Spec => []OnlyInversion
<1>1. IInv => OnlyInversion BY BlockedInverted DEF IInv
<1> QED BY <1>1, Invariance, PTL
=============================================================================
