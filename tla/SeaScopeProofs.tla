--------------------------- MODULE SeaScopeProofs ---------------------------
(***************************************************************************)
(* Proofs about SeaScope for every program, every number of names, nodes    *)
(* and blocks: the Asserts of the scope manager hold, scopes that meet      *)
(* correspond slot by slot, phis are complete, and a scope means what the   *)
(* source means on every run.                                              *)
(***************************************************************************)
EXTENDS SeaScope, SequenceTheorems, FiniteSetTheorems, WellFoundedInduction, TLAPS

Cell  == [name : Name \cup {"@ctrl"}, slot : Nat]
Data  == [inputlen : Nat, cells : Seq(Cell)]
Scope == [slots : Slots, list : Seq(Data)]
Rec   == [kind : {"def", "region", "loop", "phi", "gone"}, reg : Node \cup {Null}, args : Slots]
Env   == UNION {[S -> Node] : S \in SUBSET Name}

(* The nodes that are made, and those of them that hold data.              *)
Made   == 1 .. next - 1
Valued == {n \in Made : val[n] # Null}

Branch == {"then", "between", "else", "merge"}
Frame ==
  [fn : {"func", "block"}]
  \cup [fn : Branch, other : Scope, was : BOOLEAN, take : BOOLEAN, cont : BOOLEAN,
        ctrl : Node \cup {Live, Dead}]
  \cup [fn : {"body"}, head : Scope, was : BOOLEAN, go : BOOLEAN, exit : Scope,
        before : Seq(Env), at : Seq(Env)]

(* The blocks of a scope number its slots, and no block has a name twice.  *)
Laid(sc) ==
  /\ sc \in Scope
  /\ Numbered(sc)
  /\ \A l \in DOMAIN sc.list : \A i, j \in DOMAIN sc.list[l].cells :
       sc.list[l].cells[i].name = sc.list[l].cells[j].name => i = j
  /\ Len(sc.list[1].cells) >= 1
  /\ \A l \in DOMAIN sc.list : \A i \in DOMAIN sc.list[l].cells :
       sc.list[l].cells[i].name = "@ctrl" <=> l = 1 /\ i = 1
Filled(sc) ==
  /\ sc.slots[1] \in Made \cup {Live, Dead}
  /\ \A s \in 2 .. Len(sc.slots) : sc.slots[s] \in Valued

(* A scope on the followed run gives each variable a node with its value.   *)
Means(sc) ==
  /\ \A l \in DOMAIN sc.list :
       DOMAIN env[l] = {x \in Name : \E i \in DOMAIN sc.list[l].cells : sc.list[l].cells[i].name = x}
  /\ \A l \in DOMAIN sc.list : \A i \in DOMAIN sc.list[l].cells :
       sc.list[l].cells[i].name # "@ctrl" =>
         val[sc.slots[sc.list[l].cells[i].slot]] = env[l][sc.list[l].cells[i].name]

(* Nodes are made in order; a phi belongs to a loop or region, and lacks a  *)
(* value while the loop is read. A node has the value of one that has its   *)
(* own.                                                                    *)
Graph ==
  /\ next \in 1 .. MaxNode + 1
  /\ nodes \in [Node -> Rec]
  /\ \A n \in Node : n >= next => nodes[n] = Gone
  /\ \A n \in Node : nodes[n].kind \in {"region", "loop"} => Len(nodes[n].args) = 2
  /\ \A n \in Node : nodes[n].kind = "phi" =>
       /\ nodes[n].reg \in 1 .. n - 1 /\ nodes[nodes[n].reg].kind \in {"region", "loop"}
       /\ Len(nodes[n].args) = 2
       /\ n \in Valued
       /\ nodes[n].args[1] \in Valued /\ nodes[n].args[2] \in Valued \cup {Null}
       /\ nodes[n].args[2] = Null <=> nodes[n].reg \in OpenLoops
  /\ \A e \in table : e.node \in Node /\ e.reg \in Node /\ e.args \in Slots
Values ==
  /\ val \in [Node -> Node \cup {Null}]
  /\ \A n \in Node : n >= next => val[n] = Null
  /\ \A n \in Valued : val[n] \in Valued /\ val[val[n]] = val[n]
  /\ env \in Seq(Env)
  /\ \A l \in DOMAIN env : \A x \in DOMAIN env[l] :
       env[l][x] \in Valued /\ val[env[l][x]] = env[l][x]
Rest == read \in 0 .. MaxStmt /\ fault = "none" /\ on \in BOOLEAN

(* The blocks that are open below each frame.                              *)
Levels(lev) ==
  /\ lev[1] = 2 /\ frames[1].fn = "func"
  /\ \A i \in 2 .. Len(frames) :
       /\ frames[i].fn # "func"
       /\ lev[i] = lev[i - 1] + (IF frames[i].fn \in {"between", "merge"} THEN 0 ELSE 1)
       /\ \A sc \in PutAside(frames[i]) :
            /\ Laid(sc) /\ Filled(sc)
            /\ Len(sc.list) = lev[i - 1]
            /\ \A l \in 1 .. Len(sc.list) : sc.list[l] = curr.list[l]
  /\ \A i, j \in DOMAIN frames : i <= j => lev[i] <= lev[j]
  /\ lev[Len(frames)] = Len(curr.list)
Blocks0 ==
  /\ frames \in Seq(Frame)
  /\ curr \in Scope
  /\ frames = <<>> => curr = NoScope
  /\ frames # <<>> =>
       /\ Laid(curr) /\ Filled(curr) /\ Len(env) = Len(curr.list)
       /\ \E lev \in [DOMAIN frames -> Nat] : Levels(lev)

(* A loop that is read has one phi, made when it was opened, for each slot. *)
LoopOK(f) ==
  LET loop == Ctrl(f.head) IN
  /\ loop \in Made /\ nodes[loop].kind = "loop" /\ nodes[loop].args[2] = Null
  /\ f.exit.list = f.head.list /\ Len(f.exit.slots) = Len(f.head.slots)
  /\ Ctrl(f.exit) \in {Live, Dead, loop}
  /\ \A s \in 2 .. Len(f.head.slots) :
       /\ f.head.slots[s] = loop + s - 1 /\ f.exit.slots[s] = loop + s - 1
       /\ IsPhiOf(nodes, loop + s - 1, loop) /\ val[loop + s - 1] = loop + s - 1
  /\ \A n \in Node : IsPhiOf(nodes, n, loop) => n \in loop + 1 .. loop + Len(f.head.slots) - 1
  /\ Len(f.at) = Len(f.head.list)
  /\ \A l \in DOMAIN f.at : \A x \in DOMAIN f.at[l] : f.at[l][x] \in Valued
  /\ ~ (f.was /\ f.go) => \A l \in DOMAIN f.at : f.at[l] = env[l]
  /\ ~ f.was => \A l \in DOMAIN f.at : \A x \in DOMAIN f.at[l] : f.at[l][x] < loop
Loops ==
  /\ \A i \in DOMAIN frames : frames[i].fn = "body" => LoopOK(frames[i])
  /\ \A i, j \in DOMAIN frames : i < j /\ frames[i].fn = "body" /\ frames[j].fn = "body" =>
       Ctrl(frames[i].head) < Ctrl(frames[j].head)

(* The followed run comes through a frame on the side that is being read.   *)
OnSide(f) ==
  /\ f.fn = "then" => f.was /\ f.take
  /\ f.fn \in {"between", "else", "merge"} => f.was /\ ~ f.take
  /\ f.fn = "body" => f.was /\ f.go
Run ==
  /\ on => \A i \in DOMAIN frames : OnSide(frames[i])
  /\ \A i, j \in DOMAIN frames :
       j < i /\ frames[i].fn \in Branch \cup {"body"} /\ frames[i].was => OnSide(frames[j])
Pending(f) ==
  /\ f.fn = "then" => f.ctrl \in Made \cup {Live, Dead}
  /\ f.fn = "then" /\ f.was /\ ~ f.take => Means(f.other) /\ f.ctrl # Dead
  /\ f.fn \in {"between", "else", "merge"} /\ f.cont =>
       f.was /\ f.take /\ Means(f.other) /\ Ctrl(f.other) # Dead
  /\ f.fn = "body" /\ f.was /\ ~ f.go => Means(f.exit) /\ Ctrl(f.exit) # Dead
Meanings ==
  /\ on /\ frames # <<>> => Means(curr) /\ Ctrl(curr) # Dead
  /\ \A i \in DOMAIN frames : Pending(frames[i])

IInv == Graph /\ Values /\ Rest /\ Blocks0 /\ Loops /\ Run /\ Meanings

-----------------------------------------------------------------------------
LEMMA Induct ==
  ASSUME NEW S, 0 \in S, \A n \in Nat : n \in S => n + 1 \in S
  PROVE  Nat \subseteq S
<1> DEFINE T == {n \in Nat : n \notin S}
           R == {p \in Nat \X Nat : p[1] < p[2]}
<1>1. IsWellFoundedOn(R, Nat) BY NatLessThanWellFounded DEF OpToRel
<1>2. SUFFICES ASSUME T # {} PROVE FALSE OBVIOUS
<1>3. PICK x \in T : \A y \in T : ~ (<<y, x>> \in R) BY <1>1, <1>2, WFMin, T \subseteq Nat
<1>4. x # 0 /\ x - 1 \in Nat /\ x \notin S OBVIOUS
<1>5. x - 1 \in T \/ x - 1 \in S OBVIOUS
<1>6. <<x - 1, x>> \in R BY <1>4
<1> QED BY <1>3, <1>4, <1>5, <1>6

(* The innermost of the blocks that declare a name.                        *)
LEMMA MaxIn ==
  ASSUME NEW n \in Nat, NEW S, S \subseteq 1 .. n, S # {}
  PROVE  Max(S) \in S /\ \A y \in S : y <= Max(S)
<1> DEFINE T == {k \in Nat : \A y \in S : y <= k}
           R == {p \in Nat \X Nat : p[1] < p[2]}
<1>1. IsWellFoundedOn(R, Nat) BY NatLessThanWellFounded DEF OpToRel
<1>2. n \in T /\ T \subseteq Nat OBVIOUS
<1>3. PICK k \in T : \A y \in T : ~ (<<y, k>> \in R) BY <1>1, <1>2, WFMin, Zenon
<1>4. k \in S
  <2> SUFFICES ASSUME k \notin S PROVE FALSE OBVIOUS
  <2>1. PICK y \in S : TRUE OBVIOUS
  <2>2. k \in Nat /\ k # 0 BY <2>1
  <2>3. k - 1 \in Nat /\ \A z \in S : z <= k - 1 BY <2>2
  <2>4. k - 1 \in T BY <2>3
  <2>5. <<k - 1, k>> \in R BY <2>2
  <2> QED BY <1>3, <2>4, <2>5
<1>5. \E x \in S : \A y \in S : x >= y
  <2>1. \A y \in S : k >= y OBVIOUS
  <2> QED BY <1>4, <2>1
<1>6. Max(S) \in S /\ \A y \in S : Max(S) >= y BY <1>5 DEF Max
<1> QED BY <1>6

-----------------------------------------------------------------------------
(* A scope and its parts.                                                  *)
LEMMA ScopeParts ==
  ASSUME NEW sc \in Scope
  PROVE  /\ sc = [slots |-> sc.slots, list |-> sc.list]
         /\ sc.slots \in Slots /\ Len(sc.slots) \in Nat /\ DOMAIN sc.slots = 1 .. Len(sc.slots)
         /\ sc.list \in Seq(Data) /\ Len(sc.list) \in Nat /\ DOMAIN sc.list = 1 .. Len(sc.list)
         /\ \A l \in DOMAIN sc.list :
              /\ sc.list[l] \in Data /\ sc.list[l].inputlen \in Nat
              /\ sc.list[l].cells \in Seq(Cell) /\ Len(sc.list[l].cells) \in Nat
              /\ DOMAIN sc.list[l].cells = 1 .. Len(sc.list[l].cells)
              /\ \A i \in DOMAIN sc.list[l].cells : sc.list[l].cells[i] \in Cell
<1>1. sc = [slots |-> sc.slots, list |-> sc.list] BY DEF Scope
<1>2. sc.slots \in Slots /\ sc.list \in Seq(Data) BY DEF Scope
<1>3. \A l \in DOMAIN sc.list : sc.list[l] \in Data BY <1>2
<1>4. \A l \in DOMAIN sc.list : sc.list[l].inputlen \in Nat /\ sc.list[l].cells \in Seq(Cell)
  BY <1>3 DEF Data
<1> QED BY <1>1, <1>2, <1>3, <1>4 DEF Slots

(* Blocks that follow one another: a where they begin, b how long they are. *)
LEMMA Ascending ==
  ASSUME NEW n \in Nat, NEW a \in [1 .. n -> Nat], NEW b \in [1 .. n -> Nat],
         \A k \in 1 .. n : k # n => a[k] + b[k] = a[k + 1],
         NEW l \in 1 .. n, NEW m \in 1 .. n, l < m
  PROVE  a[l] + b[l] <= a[m]
<1> DEFINE S == {d \in Nat : l + 1 + d <= n => a[l] + b[l] <= a[l + 1 + d]}
<1>1. 0 \in S OBVIOUS
<1>2. \A d \in Nat : d \in S => d + 1 \in S
  <2> SUFFICES ASSUME NEW d \in Nat, d \in S, l + 1 + (d + 1) <= n
               PROVE  a[l] + b[l] <= a[l + 1 + (d + 1)]
    OBVIOUS
  <2> DEFINE e == l + 1 + d
  <2>1. e \in 1 .. n /\ e # n /\ l + 1 + (d + 1) = e + 1 /\ e + 1 \in 1 .. n OBVIOUS
  <2>2. a[l] + b[l] <= a[e] BY <2>1
  <2> HIDE DEF e, S
  <2>3. a[e] + b[e] = a[e + 1] /\ a[e] \in Nat /\ b[e] \in Nat /\ a[e + 1] \in Nat
        /\ a[l] \in Nat /\ b[l] \in Nat
    BY <2>1
  <2>4. a[l] + b[l] <= a[e + 1] BY <2>2, <2>3
  <2> QED BY <2>1, <2>4
<1>3. m - l - 1 \in Nat /\ l + 1 + (m - l - 1) = m OBVIOUS
<1>4. m - l - 1 \in S
  <2> HIDE DEF S
  <2> QED BY <1>1, <1>2, <1>3, Induct
<1> QED BY <1>3, <1>4

Filling(n, a, b, z) ==
  /\ n \in Nat /\ n >= 1 /\ z \in Nat
  /\ a \in [1 .. n -> Nat] /\ b \in [1 .. n -> Nat]
  /\ \A k \in 1 .. n : k # n => a[k] + b[k] = a[k + 1]
  /\ a[1] = 0 /\ b[1] >= 1 /\ a[n] + b[n] = z

LEMMA Numbering ==
  ASSUME NEW n, NEW a, NEW b, NEW z, Filling(n, a, b, z),
         NEW u \in 1 .. n, NEW v \in 1 .. b[u]
  PROVE  /\ a[u] + v \in 1 .. z
         /\ a[u] + v = 1 <=> u = 1 /\ v = 1
         /\ \A m \in 1 .. n : \A j \in 1 .. b[m] : a[m] + j = a[u] + v => m = u /\ j = v
<1>0. /\ n \in Nat /\ n >= 1 /\ z \in Nat
      /\ a \in [1 .. n -> Nat] /\ b \in [1 .. n -> Nat]
      /\ \A k \in 1 .. n : k # n => a[k] + b[k] = a[k + 1]
      /\ a[1] = 0 /\ b[1] >= 1 /\ a[n] + b[n] = z
  BY DEF Filling
<1>1. a[u] \in Nat /\ b[u] \in Nat /\ a[n] \in Nat /\ b[n] \in Nat /\ b[1] \in Nat /\ v \in Nat
      /\ v >= 1 /\ v <= b[u] BY <1>0
<1>2. a[u] + b[u] <= z
  <2>1. CASE u = n BY <1>0, <1>1, <2>1
  <2>2. CASE u # n
    <3>1. u < n /\ n \in 1 .. n BY <1>0, <2>2
    <3>2. a[u] + b[u] <= a[n] BY <1>0, <3>1, Ascending
    <3> QED BY <1>0, <1>1, <3>2
  <2> QED BY <2>1, <2>2
<1>3. a[u] + v \in 1 .. z BY <1>0, <1>1, <1>2
<1>4. a[u] + v = 1 <=> u = 1 /\ v = 1
  <2>1. CASE u = 1 BY <1>0, <1>1, <2>1
  <2>2. CASE u # 1
    <3>1. 1 < u /\ 1 \in 1 .. n BY <1>0, <2>2
    <3>2. a[1] + b[1] <= a[u] BY <1>0, <3>1, Ascending
    <3> QED BY <1>0, <1>1, <2>2, <3>2
  <2> QED BY <2>1, <2>2
<1>5. ASSUME NEW m \in 1 .. n, NEW j \in 1 .. b[m], a[m] + j = a[u] + v
      PROVE  m = u /\ j = v
  <2>0. a[m] \in Nat /\ b[m] \in Nat /\ j \in Nat /\ j >= 1 /\ j <= b[m] BY <1>0
  <2>1. CASE m < u
    <3>1. a[m] + b[m] <= a[u] BY <1>0, <2>1, Ascending
    <3> QED BY <1>1, <1>5, <2>0, <3>1
  <2>2. CASE u < m
    <3>1. a[u] + b[u] <= a[m] BY <1>0, <2>2, Ascending
    <3> QED BY <1>1, <1>5, <2>0, <3>1
  <2>3. CASE m = u BY <1>1, <1>5, <2>0, <2>3
  <2> QED BY <2>1, <2>2, <2>3
<1> QED BY <1>3, <1>4, <1>5

(* Each cell has a slot of its own, the control the first.                 *)
LEMMA CellSlots ==
  ASSUME NEW sc, Laid(sc), NEW l \in DOMAIN sc.list, NEW i \in DOMAIN sc.list[l].cells
  PROVE  /\ sc.list[l].cells[i].slot = sc.list[l].inputlen + i
         /\ sc.list[l].cells[i].slot \in 1 .. Len(sc.slots)
         /\ sc.list[l].cells[i].name # "@ctrl" => sc.list[l].cells[i].slot \in 2 .. Len(sc.slots)
         /\ \A m \in DOMAIN sc.list : \A j \in DOMAIN sc.list[m].cells :
              sc.list[m].cells[j].slot = sc.list[l].cells[i].slot => m = l /\ j = i
<1> DEFINE count == Len(sc.list)
           from == [k \in 1 .. count |-> sc.list[k].inputlen]
           size == [k \in 1 .. count |-> Len(sc.list[k].cells)]
           last == Len(sc.slots)
<1>1. /\ sc \in Scope /\ DOMAIN sc.list = 1 .. count /\ count \in Nat /\ last \in Nat /\ count >= 1
      /\ \A k \in 1 .. count : /\ sc.list[k].inputlen \in Nat /\ Len(sc.list[k].cells) \in Nat
                           /\ DOMAIN sc.list[k].cells = 1 .. Len(sc.list[k].cells)
  BY ScopeParts DEF Laid
<1>2. from \in [1 .. count -> Nat] /\ size \in [1 .. count -> Nat] BY <1>1
<1>3. \A k \in 1 .. count : \A j \in 1 .. size[k] : sc.list[k].cells[j].slot = from[k] + j
  BY <1>1 DEF Laid, Numbered
<1>4. \A k \in 1 .. count : k # count => from[k] + size[k] = from[k + 1]
  <2> TAKE k \in 1 .. count
  <2> HAVE k # count
  <2>1. k + 1 \in 1 .. count BY <1>1
  <2> QED BY <1>1, <2>1 DEF Laid, Numbered
<1>5. from[1] = 0 /\ from[count] + size[count] = last /\ size[1] >= 1
  <2>1. 1 \in 1 .. count /\ count \in 1 .. count BY <1>1
  <2>2. sc.list[1].inputlen = 0 /\ Len(sc.list[1].cells) >= 1 BY DEF Laid, Numbered
  <2>3. sc.list[count].inputlen + Len(sc.list[count].cells) = last BY <1>1, <2>1 DEF Laid, Numbered
  <2> QED BY <2>1, <2>2, <2>3
<1>6. l \in 1 .. count /\ i \in 1 .. size[l] BY <1>1
<1>7. \A m \in 1 .. count : \A j \in DOMAIN sc.list[m].cells : j \in 1 .. size[m] BY <1>1
<1>8. DOMAIN sc.list = 1 .. count /\ count \in Nat /\ last \in Nat /\ count >= 1 BY <1>1
<1>9. sc.list[l].inputlen = from[l] BY <1>6
<1>10. sc.list[l].cells[i].name = "@ctrl" <=> l = 1 /\ i = 1 BY DEF Laid
<1> HIDE DEF from, size, count, last
<1>0. Filling(count, from, size, last) BY <1>2, <1>4, <1>5, <1>8 DEF Filling
<1>11. /\ from[l] + i \in 1 .. last
       /\ from[l] + i = 1 <=> l = 1 /\ i = 1
       /\ \A m \in 1 .. count : \A j \in 1 .. size[m] : from[m] + j = from[l] + i => m = l /\ j = i
  BY <1>0, <1>6, Numbering
<1>12. sc.list[l].cells[i].slot = from[l] + i BY <1>3, <1>6
<1>13. from[l] + i # 1 => from[l] + i \in 2 .. last BY <1>8, <1>11
<1>14. \A m \in DOMAIN sc.list : \A j \in DOMAIN sc.list[m].cells :
         sc.list[m].cells[j].slot = from[l] + i => m = l /\ j = i
  BY <1>3, <1>7, <1>8, <1>11
<1>15. sc.list[l].cells[i].slot = sc.list[l].inputlen + i BY <1>9, <1>12
<1>16. sc.list[l].cells[i].slot \in 1 .. Len(sc.slots) BY <1>11, <1>12 DEF last
<1>17. sc.list[l].cells[i].name # "@ctrl" => sc.list[l].cells[i].slot \in 2 .. Len(sc.slots)
  BY <1>5, <1>10, <1>11, <1>12, <1>13 DEF last
<1> QED BY <1>12, <1>14, <1>15, <1>16, <1>17

-----------------------------------------------------------------------------
(* The operations on a scope keep its layout.                              *)
LEMMA SameShape ==
  ASSUME NEW sc, Laid(sc), NEW sd \in Scope, sd.list = sc.list, Len(sd.slots) = Len(sc.slots)
  PROVE  Laid(sd)
BY DEF Laid, Numbered

LEMMA Several ==
  ASSUME NEW n \in Nat, n >= 1, n # 1
  PROVE  n > 1 /\ n \in 1 .. n
OBVIOUS

LEMMA Within ==
  ASSUME NEW a \in Nat, NEW b \in Nat, NEW c \in Nat, NEW d \in Nat, NEW e \in Nat,
         a + b <= c, c + d = e
  PROVE  a <= e
OBVIOUS

LEMMA LaidParts ==
  ASSUME NEW sc, Laid(sc)
  PROVE  /\ sc \in Scope /\ Len(sc.list) \in Nat /\ Len(sc.list) >= 1 /\ DOMAIN sc.list = 1 .. Len(sc.list)
         /\ Len(sc.slots) \in Nat /\ Len(sc.slots) >= 1 /\ DOMAIN sc.slots = 1 .. Len(sc.slots)
         /\ \A l \in 1 .. Len(sc.list) :
              /\ sc.list[l] \in Data
              /\ sc.list[l].inputlen \in 0 .. Len(sc.slots)
              /\ l > 1 => sc.list[l].inputlen >= 1
              /\ Len(sc.list[l].cells) \in Nat
              /\ DOMAIN sc.list[l].cells = 1 .. Len(sc.list[l].cells)
<1>1. /\ sc \in Scope /\ Len(sc.list) \in Nat /\ DOMAIN sc.list = 1 .. Len(sc.list)
      /\ Len(sc.slots) \in Nat /\ DOMAIN sc.slots = 1 .. Len(sc.slots)
      /\ \A l \in 1 .. Len(sc.list) : /\ sc.list[l] \in Data /\ sc.list[l].inputlen \in Nat
                                     /\ Len(sc.list[l].cells) \in Nat
                                     /\ DOMAIN sc.list[l].cells = 1 .. Len(sc.list[l].cells)
  BY ScopeParts DEF Laid
<1>2. Len(sc.list) >= 1 BY <1>1 DEF Laid, Numbered
<1>3. Len(sc.list[1].cells) >= 1 /\ sc.list[1].inputlen = 0 BY DEF Laid, Numbered
<1>4. \A l, m \in 1 .. Len(sc.list) : l < m =>
        sc.list[l].inputlen + Len(sc.list[l].cells) <= sc.list[m].inputlen
  <2> DEFINE count == Len(sc.list)
             from == [k \in 1 .. count |-> sc.list[k].inputlen]
             size == [k \in 1 .. count |-> Len(sc.list[k].cells)]
  <2>1. count \in Nat /\ from \in [1 .. count -> Nat] /\ size \in [1 .. count -> Nat] BY <1>1
  <2>2. \A k \in 1 .. count : k # count => from[k] + size[k] = from[k + 1]
    <3> TAKE k \in 1 .. count
    <3> HAVE k # count
    <3>1. k + 1 \in 1 .. count BY <1>1
    <3> QED BY <1>1, <3>1 DEF Laid, Numbered
  <2>3. \A k \in 1 .. count : from[k] = sc.list[k].inputlen /\ size[k] = Len(sc.list[k].cells)
    OBVIOUS
  <2> HIDE DEF from, size, count
  <2>4. \A u, v \in 1 .. count : u < v => from[u] + size[u] <= from[v]
    BY <2>1, <2>2, Ascending
  <2> QED BY <2>3, <2>4 DEF count
<1>5. sc.list[Len(sc.list)].inputlen + Len(sc.list[Len(sc.list)].cells) = Len(sc.slots)
  BY <1>1, <1>2 DEF Laid, Numbered
<1>6. \A l \in 1 .. Len(sc.list) : sc.list[l].inputlen \in 0 .. Len(sc.slots)
                                  /\ (l > 1 => sc.list[l].inputlen >= 1)
  <2> TAKE l \in 1 .. Len(sc.list)
  <2>0. Len(sc.list) \in 1 .. Len(sc.list) /\ 1 \in 1 .. Len(sc.list) BY <1>1, <1>2
  <2>1. l # Len(sc.list) => l < Len(sc.list) BY <1>1
  <2>2. l # Len(sc.list) =>
          sc.list[l].inputlen + Len(sc.list[l].cells) <= sc.list[Len(sc.list)].inputlen
    BY <1>4, <2>0, <2>1
  <2>3. sc.list[l].inputlen <= Len(sc.slots)
    <3>0. /\ sc.list[l].inputlen \in Nat /\ Len(sc.list[l].cells) \in Nat /\ Len(sc.slots) \in Nat
          /\ sc.list[Len(sc.list)].inputlen \in Nat /\ Len(sc.list[Len(sc.list)].cells) \in Nat
      BY <1>1, <2>0
    <3>1. CASE l = Len(sc.list) BY <1>5, <3>0, <3>1
    <3>2. CASE l # Len(sc.list) BY <1>5, <2>2, <3>0, <3>2, Within
    <3> QED BY <3>1, <3>2
  <2>4. l > 1 => sc.list[1].inputlen + Len(sc.list[1].cells) <= sc.list[l].inputlen
    BY <1>4, <2>0
  <2> QED BY <1>1, <1>3, <2>0, <2>3, <2>4
<1>7. Len(sc.slots) >= 1
  <2>1. CASE Len(sc.list) = 1 BY <1>3, <1>5, <2>1
  <2>2. CASE Len(sc.list) # 1
    <3>0. Len(sc.list) \in Nat BY <1>1
    <3>1. Len(sc.list) > 1 /\ Len(sc.list) \in 1 .. Len(sc.list) BY <1>2, <2>2, <3>0, Several
    <3>2. sc.list[Len(sc.list)].inputlen \in 0 .. Len(sc.slots) /\ sc.list[Len(sc.list)].inputlen >= 1
      BY <1>6, <3>1
    <3> QED BY <1>1, <3>2
  <2> QED BY <2>1, <2>2
<1> QED BY <1>1, <1>2, <1>6, <1>7

LEMMA Pushed ==
  ASSUME NEW sc, Laid(sc)
  PROVE  /\ Laid(PushScope(sc))
         /\ PushScope(sc).slots = sc.slots
         /\ Len(PushScope(sc).list) = Len(sc.list) + 1
         /\ \A l \in 1 .. Len(sc.list) : PushScope(sc).list[l] = sc.list[l]
         /\ PushScope(sc).list[Len(sc.list) + 1].cells = <<>>
<1> DEFINE d == [inputlen |-> Len(sc.slots), cells |-> <<>>]
           q == Append(sc.list, d)
           sd == [slots |-> sc.slots, list |-> q]
<1>0. sc \in Scope /\ Len(sc.list) \in Nat /\ Len(sc.list) >= 1 /\ DOMAIN sc.list = 1 .. Len(sc.list)
      /\ Len(sc.slots) \in Nat /\ sc.slots \in Slots /\ sc.list \in Seq(Data)
  BY LaidParts DEF Scope
<1>1. PushScope(sc) = sd BY <1>0, ScopeParts DEF PushScope
<1>2. d \in Data /\ d.inputlen = Len(sc.slots) /\ d.cells = <<>> /\ Len(d.cells) = 0
      /\ DOMAIN d.cells = {} BY <1>0 DEF Data
<1>3. q \in Seq(Data) /\ Len(q) = Len(sc.list) + 1 /\ q[Len(sc.list) + 1] = d
      /\ DOMAIN q = 1 .. Len(sc.list) + 1
      /\ \A l \in 1 .. Len(sc.list) : q[l] = sc.list[l]
  <2> HIDE DEF d
  <2> QED BY <1>0, <1>2
<1>4. sd \in Scope /\ sd.list = q /\ sd.slots = sc.slots BY <1>0, <1>3 DEF Scope
<1> HIDE DEF sd, q, d
<1>5. \A l \in 1 .. Len(sc.list) + 1 : l \in 1 .. Len(sc.list) \/ l = Len(sc.list) + 1 BY <1>0
<1>6. Numbered(sd)
  <2>1. q # <<>> /\ q[1].inputlen = 0 BY <1>0, <1>3 DEF Laid, Numbered
  <2>2. ASSUME NEW l \in DOMAIN q, NEW i \in DOMAIN q[l].cells
        PROVE  q[l].cells[i].slot = q[l].inputlen + i
    <3>1. l \in 1 .. Len(sc.list) /\ q[l] = sc.list[l] BY <1>2, <1>3, <1>5
    <3> QED BY <1>0, <3>1 DEF Laid, Numbered
  <2>3. ASSUME NEW l \in DOMAIN q
        PROVE  q[l].inputlen + Len(q[l].cells) = IF l = Len(q) THEN Len(sd.slots) ELSE q[l + 1].inputlen
    <3>1. CASE l = Len(sc.list) + 1 BY <1>0, <1>2, <1>3, <1>4, <3>1
    <3>2. CASE l = Len(sc.list)
      <4>1. l \in 1 .. Len(sc.list) /\ l # Len(q) /\ l \in DOMAIN sc.list BY <1>0, <1>3, <3>2
      <4>2. sc.list[l].inputlen + Len(sc.list[l].cells) = Len(sc.slots)
        BY <3>2, <4>1 DEF Laid, Numbered
      <4> QED BY <1>2, <1>3, <3>2, <4>1, <4>2
    <3>3. CASE l \in 1 .. Len(sc.list) - 1
      <4>1. l \in 1 .. Len(sc.list) /\ l # Len(q) /\ l \in DOMAIN sc.list /\ l # Len(sc.list)
            /\ l + 1 \in 1 .. Len(sc.list) BY <1>0, <1>3, <3>3
      <4>2. sc.list[l].inputlen + Len(sc.list[l].cells) = sc.list[l + 1].inputlen
        BY <4>1 DEF Laid, Numbered
      <4> QED BY <1>3, <4>1, <4>2
    <3> QED BY <1>0, <1>3, <3>1, <3>2, <3>3
  <2> QED BY <1>4, <2>1, <2>2, <2>3 DEF Numbered
<1>7. \A l \in DOMAIN q : \A i, j \in DOMAIN q[l].cells :
        q[l].cells[i].name = q[l].cells[j].name => i = j
  BY <1>0, <1>2, <1>3, <1>5 DEF Laid
<1>8. \A l \in DOMAIN q : \A i \in DOMAIN q[l].cells :
        q[l].cells[i].name = "@ctrl" <=> l = 1 /\ i = 1
  BY <1>0, <1>2, <1>3, <1>5 DEF Laid
<1>9. Len(q[1].cells) >= 1 BY <1>0, <1>3 DEF Laid
<1>10. Laid(sd) BY <1>4, <1>6, <1>7, <1>8, <1>9 DEF Laid
<1> QED BY <1>1, <1>2, <1>3, <1>4, <1>10

LEMMA Popped ==
  ASSUME NEW sc, Laid(sc), Len(sc.list) >= 2
  PROVE  /\ Laid(PopScope(sc))
         /\ Len(PopScope(sc).slots) \in 1 .. Len(sc.slots)
         /\ \A s \in 1 .. Len(PopScope(sc).slots) : PopScope(sc).slots[s] = sc.slots[s]
         /\ Len(PopScope(sc).list) = Len(sc.list) - 1
         /\ \A l \in 1 .. Len(sc.list) - 1 : PopScope(sc).list[l] = sc.list[l]
<1> DEFINE n == Len(sc.list)
           k == sc.list[n].inputlen
           q == SubSeq(sc.list, 1, n - 1)
           r == SubSeq(sc.slots, 1, k)
           sd == [slots |-> r, list |-> q]
<1>0. /\ sc \in Scope /\ n \in Nat /\ n >= 2 /\ DOMAIN sc.list = 1 .. n
      /\ sc.slots \in Slots /\ sc.list \in Seq(Data) /\ Len(sc.slots) \in Nat
  BY LaidParts DEF Scope
<1>1. k \in 1 .. Len(sc.slots) BY <1>0, LaidParts, SMTT(30)
<1>2. PopScope(sc) = sd BY <1>0 DEF PopScope, Last, Front, Scope
<1>3. q \in Seq(Data) /\ Len(q) = n - 1 /\ DOMAIN q = 1 .. n - 1
      /\ \A l \in 1 .. n - 1 : q[l] = sc.list[l]
  BY <1>0
<1>4. r \in Slots /\ Len(r) = k /\ \A s \in 1 .. k : r[s] = sc.slots[s]
  <2> HIDE DEF k
  <2> QED BY <1>0, <1>1 DEF Slots
<1>5. sd \in Scope /\ sd.list = q /\ sd.slots = r BY <1>3, <1>4 DEF Scope
<1> HIDE DEF sd, q, r
<1>6. Numbered(sd)
  <2>1. q # <<>> /\ q[1].inputlen = 0 BY <1>0, <1>3 DEF Laid, Numbered
  <2>2. ASSUME NEW l \in DOMAIN q, NEW i \in DOMAIN q[l].cells
        PROVE  q[l].cells[i].slot = q[l].inputlen + i
    <3>1. l \in DOMAIN sc.list /\ q[l] = sc.list[l] BY <1>0, <1>3
    <3> QED BY <3>1 DEF Laid, Numbered
  <2>3. ASSUME NEW l \in DOMAIN q
        PROVE  q[l].inputlen + Len(q[l].cells) = IF l = Len(q) THEN Len(sd.slots) ELSE q[l + 1].inputlen
    <3>1. l \in 1 .. n - 1 /\ l \in DOMAIN sc.list /\ l # n BY <1>0, <1>3
    <3>2. sc.list[l].inputlen + Len(sc.list[l].cells) = sc.list[l + 1].inputlen
      BY <3>1 DEF Laid, Numbered
    <3>3. l # n - 1 => l + 1 \in 1 .. n - 1 BY <1>0, <3>1
    <3>4. l = n - 1 => l + 1 = n BY <1>0
    <3> QED BY <1>3, <1>4, <1>5, <3>1, <3>2, <3>3, <3>4
  <2> QED BY <1>5, <2>1, <2>2, <2>3 DEF Numbered
<1>7. \A l \in DOMAIN q : \A i, j \in DOMAIN q[l].cells :
        q[l].cells[i].name = q[l].cells[j].name => i = j
  BY <1>0, <1>3, SMTT(30) DEF Laid
<1>8. \A l \in DOMAIN q : \A i \in DOMAIN q[l].cells :
        q[l].cells[i].name = "@ctrl" <=> l = 1 /\ i = 1
  BY <1>0, <1>3, SMTT(30) DEF Laid
<1>9. Len(q[1].cells) >= 1 BY <1>0, <1>3 DEF Laid
<1>10. Laid(sd) BY <1>5, <1>6, <1>7, <1>8, <1>9 DEF Laid
<1> QED BY <1>1, <1>2, <1>3, <1>4, <1>5, <1>10

-----------------------------------------------------------------------------
(* Names: the innermost cell of a name is the one that is found.           *)
LEMMA Declared ==
  ASSUME NEW sc \in Scope, NEW x
  PROVE  Declares(sc, x) = {l \in DOMAIN sc.list :
                              \E i \in DOMAIN sc.list[l].cells : sc.list[l].cells[i].name = x}
BY DEF Declares, Cells, ToSet

LEMMA Found ==
  ASSUME NEW sc, Laid(sc), NEW x, Declares(sc, x) # {}
  PROVE  /\ Max(Declares(sc, x)) \in Declares(sc, x)
         /\ \A l \in Declares(sc, x) : l <= Max(Declares(sc, x))
         /\ \E i \in DOMAIN sc.list[Max(Declares(sc, x))].cells :
              /\ sc.list[Max(Declares(sc, x))].cells[i].name = x
              /\ FoundSlot(sc, x) = sc.list[Max(Declares(sc, x))].cells[i].slot
<1> DEFINE D == Declares(sc, x)
           l == Max(D)
<1>1. sc \in Scope /\ Len(sc.list) \in Nat /\ DOMAIN sc.list = 1 .. Len(sc.list) BY LaidParts
<1>2. D \subseteq 1 .. Len(sc.list) BY <1>1 DEF Declares
<1>3. l \in D /\ \A m \in D : m <= l
  <2> HIDE DEF D
  <2> QED BY <1>1, <1>2, MaxIn DEF D
<1> HIDE DEF l
<1>4. PICK i \in DOMAIN sc.list[l].cells : sc.list[l].cells[i].name = x
  BY <1>1, <1>3, Declared
<1>5. Cells(sc, l) = {sc.list[l].cells[j] : j \in DOMAIN sc.list[l].cells} BY DEF Cells, ToSet
<1>6. \A c \in Cells(sc, l) : c.name = x => c = sc.list[l].cells[i]
  <2> SUFFICES ASSUME NEW j \in DOMAIN sc.list[l].cells, sc.list[l].cells[j].name = x
               PROVE  j = i
    BY <1>5
  <2>1. l \in DOMAIN sc.list BY <1>2, <1>3, <1>1
  <2> QED BY <1>4, <2>1 DEF Laid
<1>7. (CHOOSE c \in Cells(sc, l) : c.name = x) = sc.list[l].cells[i]
  <2>1. \E c \in Cells(sc, l) : c.name = x BY <1>4, <1>5
  <2> QED BY <2>1, <1>6
<1>8. FoundSlot(sc, x) = sc.list[l].cells[i].slot BY <1>7 DEF FoundSlot, l
<1> QED BY <1>3, <1>4, <1>8 DEF l

LEMMA Updated ==
  ASSUME NEW sc, Laid(sc), NEW x, Declares(sc, x) # {}, NEW n \in Node
  PROVE  /\ Laid(Update(sc, x, n))
         /\ Update(sc, x, n).list = sc.list
         /\ FoundSlot(sc, x) \in 1 .. Len(sc.slots)
         /\ x # "@ctrl" => FoundSlot(sc, x) # 1
         /\ Update(sc, x, n).slots = [sc.slots EXCEPT ![FoundSlot(sc, x)] = n]
         /\ Len(Update(sc, x, n).slots) = Len(sc.slots)
<1> DEFINE s == FoundSlot(sc, x)
           r == [sc.slots EXCEPT ![s] = n]
           sd == [slots |-> r, list |-> sc.list]
<1>1. /\ sc \in Scope /\ Len(sc.slots) \in Nat /\ DOMAIN sc.slots = 1 .. Len(sc.slots)
      /\ sc.slots \in Slots /\ sc.list \in Seq(Data)
  BY LaidParts DEF Scope
<1>2. Update(sc, x, n) = sd BY <1>1, ScopeParts, SMTT(30) DEF Update
<1>3. s \in 1 .. Len(sc.slots) /\ (x # "@ctrl" => s # 1)
  <2>1. PICK l \in DOMAIN sc.list : \E i \in DOMAIN sc.list[l].cells :
          sc.list[l].cells[i].name = x /\ s = sc.list[l].cells[i].slot
    BY <1>1, Found, Declared
  <2>2. s \in 1 .. Len(sc.slots) /\ (x # "@ctrl" => s \in 2 .. Len(sc.slots))
    BY <2>1, CellSlots
  <2> HIDE DEF s
  <2> QED BY <2>2
<1> HIDE DEF s
<1>4. r \in Slots /\ Len(r) = Len(sc.slots) BY <1>1, <1>3 DEF Slots
<1> HIDE DEF r
<1>5. sd \in Scope /\ sd.list = sc.list /\ sd.slots = r BY <1>1, <1>4 DEF Scope
<1>6. Laid(sd) BY <1>4, <1>5, SameShape
<1> QED BY <1>2, <1>3, <1>4, <1>5, <1>6 DEF r, s

LEMMA AddCell ==
  ASSUME NEW t \in Seq(Data), NEW h \in 1 .. Len(t), NEW cell \in Cell
  PROVE  [t EXCEPT ![h].cells = Append(@, cell)]
           = [t EXCEPT ![h] = [inputlen |-> t[h].inputlen, cells |-> Append(t[h].cells, cell)]]
<1>1. t[h] \in Data OBVIOUS
<1>2. t[h] = [inputlen |-> t[h].inputlen, cells |-> t[h].cells] BY <1>1 DEF Data
<1> DEFINE w == Append(t[h].cells, cell)
<1>3. [t[h] EXCEPT !.cells = w] = [inputlen |-> t[h].inputlen, cells |-> w]
  <2> HIDE DEF w
  <2> QED BY <1>2
<1> QED BY <1>3

LEMMA ReplaceLast ==
  ASSUME NEW S, NEW t \in Seq(S), NEW v \in S, NEW w \in S
  PROVE  [Append(t, v) EXCEPT ![Len(t) + 1] = w] = Append(t, w)
<1> DEFINE a == Append(t, v)
           b == Append(t, w)
           n == Len(t) + 1
<1>1. Len(t) \in Nat /\ n \in 1 .. n OBVIOUS
<1>2. /\ a \in Seq(S) /\ Len(a) = n /\ \A i \in 1 .. Len(t) : a[i] = t[i]
      /\ b \in Seq(S) /\ Len(b) = n /\ \A i \in 1 .. Len(t) : b[i] = t[i]
      /\ b[n] = w
  OBVIOUS
<1>3. \A i \in 1 .. n : i = n \/ i \in 1 .. Len(t) BY <1>1
<1> HIDE DEF a, b, n
<1>4. /\ [a EXCEPT ![n] = w] \in Seq(S) /\ Len([a EXCEPT ![n] = w]) = n
      /\ \A i \in 1 .. n : [a EXCEPT ![n] = w][i] = IF i = n THEN w ELSE a[i]
  BY <1>1, <1>2, ExceptSeq
<1>5. \A i \in 1 .. n : [a EXCEPT ![n] = w][i] = b[i] BY <1>2, <1>3, <1>4
<1>6. [a EXCEPT ![n] = w] = b
  <2> DEFINE e == [a EXCEPT ![n] = w]
  <2> HIDE DEF e
  <2> QED BY <1>2, <1>4, <1>5, SeqEqual DEF e
<1> QED BY <1>6 DEF a, b, n

LEMMA OneLonger ==
  ASSUME NEW S, NEW t \in Seq(S), NEW h \in 1 .. Len(t)
  PROVE  SubSeq(t, 1, h) = Append(SubSeq(t, 1, h - 1), t[h])
OBVIOUS

LEMMA OneMore ==
  ASSUME NEW e \in Nat, NEW f \in Nat, NEW g \in Nat, e + f = g
  PROVE  e + (f + 1) = g + 1
OBVIOUS

(* A name the innermost block does not have gets a slot at the end.         *)
LEMMA Inserted ==
  ASSUME NEW sc, Laid(sc), NEW x \in Name, Len(sc.list) \notin Declares(sc, x),
         Len(sc.list) >= 2, NEW n \in Node
  PROVE  LET sd == Insert(sc, x, n) IN
         /\ Laid(sd)
         /\ Len(sd.list) = Len(sc.list)
         /\ Len(sd.slots) = Len(sc.slots) + 1 /\ sd.slots[Len(sd.slots)] = n
         /\ \A s \in 1 .. Len(sc.slots) : sd.slots[s] = sc.slots[s]
         /\ \A l \in 1 .. Len(sc.list) - 1 : sd.list[l] = sc.list[l]
         /\ sd.list[Len(sc.list)].cells
              = Append(sc.list[Len(sc.list)].cells, [name |-> x, slot |-> Len(sc.slots) + 1])
<1> DEFINE z == Len(sc.slots)
           k == Len(sc.list)
           c == [name |-> x, slot |-> z + 1]
           old == sc.list[k].cells
           cs == Append(old, c)
           d == [inputlen |-> sc.list[k].inputlen, cells |-> cs]
           q == [sc.list EXCEPT ![k] = d]
           r == Append(sc.slots, n)
           sd == [slots |-> r, list |-> q]
<1>1. /\ sc \in Scope /\ z \in Nat /\ k \in Nat /\ k >= 2 /\ DOMAIN sc.list = 1 .. k
      /\ sc.slots \in Slots /\ sc.list \in Seq(Data) /\ k \in 1 .. k
      /\ \A l \in 1 .. k : sc.list[l] \in Data
  BY LaidParts DEF Scope
<1>2. sc.list[k] = [inputlen |-> sc.list[k].inputlen, cells |-> old] /\ sc.list[k].inputlen \in Nat
      /\ old \in Seq(Cell)
  BY <1>1 DEF Data
<1>3. Insert(sc, x, n) = sd
  <2>1. [sc.list EXCEPT ![k].cells = Append(@, c)] = q
    <3>1. c \in Cell BY <1>1 DEF Cell
    <3> HIDE DEF c
    <3> QED BY <1>1, <3>1, AddCell
  <2>2. Insert(sc, x, n) = [slots |-> Append(sc.slots, n),
                            list |-> [sc.list EXCEPT ![k].cells = Append(@, c)]]
    BY DEF Insert
  <2> QED BY <2>1, <2>2
<1>4. c \in Cell /\ c.name = x /\ c.slot = z + 1 BY <1>1 DEF Cell
<1> HIDE DEF c
<1>5. /\ Len(old) \in Nat /\ DOMAIN old = 1 .. Len(old)
      /\ cs \in Seq(Cell) /\ Len(cs) = Len(old) + 1 /\ DOMAIN cs = 1 .. Len(old) + 1
      /\ cs[Len(old) + 1] = c /\ \A i \in 1 .. Len(old) : cs[i] = old[i]
  <2> HIDE DEF old
  <2> QED BY <1>2, <1>4
<1> HIDE DEF cs
<1>6. d \in Data /\ d.inputlen = sc.list[k].inputlen /\ d.cells = cs BY <1>2, <1>5 DEF Data
<1> HIDE DEF d
<1>7. /\ q \in Seq(Data) /\ Len(q) = k /\ DOMAIN q = 1 .. k /\ q[k] = d
      /\ \A l \in 1 .. k - 1 : q[l] = sc.list[l]
  BY <1>1, <1>6
<1>8. r \in Slots /\ Len(r) = z + 1 /\ r[z + 1] = n /\ \A s \in 1 .. z : r[s] = sc.slots[s]
  BY <1>1 DEF Slots
<1>9. sd \in Scope /\ sd.list = q /\ sd.slots = r BY <1>7, <1>8 DEF Scope
<1> HIDE DEF sd, q, r
<1>10. sc.list[k].inputlen + Len(old) = z BY <1>1 DEF Laid, Numbered
<1>21. sc.list[k].inputlen + (Len(old) + 1) = z + 1
  <2>1. sc.list[k].inputlen \in Nat /\ Len(old) \in Nat /\ z \in Nat BY <1>1, <1>2, <1>5
  <2> HIDE DEF z, old, k
  <2> QED BY <1>10, <2>1, OneMore, SMTT(30)
<1>11. \A l \in 1 .. k : l \in 1 .. k - 1 \/ l = k BY <1>1
<1>12. \A l \in 1 .. k - 1 : l \in 1 .. k /\ l \in DOMAIN sc.list /\ l # k BY <1>1
<1>13. \A i \in 1 .. Len(old) + 1 : i \in 1 .. Len(old) \/ i = Len(old) + 1 BY <1>5
<1>14. Numbered(sd)
  <2>1. q # <<>> /\ q[1].inputlen = 0
    <3>1. 1 \in 1 .. k - 1 BY <1>1
    <3> QED BY <1>7, <3>1, <1>1 DEF Laid, Numbered
  <2>2. ASSUME NEW l \in DOMAIN q, NEW i \in DOMAIN q[l].cells
        PROVE  q[l].cells[i].slot = q[l].inputlen + i
    <3>1. CASE l \in 1 .. k - 1
      <4>1. l \in DOMAIN sc.list /\ q[l] = sc.list[l] BY <1>7, <1>12, <3>1
      <4> QED BY <4>1 DEF Laid, Numbered
    <3>2. CASE l = k
      <4>1. q[l].cells = cs /\ q[l].inputlen = sc.list[k].inputlen BY <1>6, <1>7, <3>2
      <4>2. CASE i \in 1 .. Len(old)
        <5>1. cs[i] = old[i] BY <1>5, <4>2
        <5>2. old[i].slot = sc.list[k].inputlen + i BY <1>1, <1>5, <4>2 DEF Laid, Numbered
        <5> QED BY <4>1, <5>1, <5>2
      <4>3. CASE i = Len(old) + 1
        <5>1. cs[i].slot = z + 1 BY <1>4, <1>5, <4>3
        <5> QED BY <1>21, <4>1, <4>3, <5>1
      <4> QED BY <1>5, <1>13, <4>1, <4>2, <4>3
    <3> QED BY <1>7, <1>11, <3>1, <3>2
  <2>3. ASSUME NEW l \in DOMAIN q
        PROVE  q[l].inputlen + Len(q[l].cells) = IF l = Len(q) THEN Len(sd.slots) ELSE q[l + 1].inputlen
    <3>1. CASE l \in 1 .. k - 1
      <4>1. l \in DOMAIN sc.list /\ l # Len(sc.list) /\ l # Len(q) /\ q[l] = sc.list[l]
            /\ l + 1 \in 1 .. k BY <1>1, <1>7, <1>12, <3>1, SMTT(30)
      <4>2. sc.list[l].inputlen + Len(sc.list[l].cells) = sc.list[l + 1].inputlen
        BY <4>1 DEF Laid, Numbered
      <4>3. q[l + 1].inputlen = sc.list[l + 1].inputlen BY <1>6, <1>7, <1>11, <4>1
      <4> QED BY <4>1, <4>2, <4>3
    <3>2. CASE l = k
      <4>1. q[l].cells = cs /\ q[l].inputlen = sc.list[k].inputlen /\ l = Len(q)
        BY <1>6, <1>7, <3>2
      <4> QED BY <1>5, <1>8, <1>9, <1>21, <4>1
    <3> QED BY <1>7, <1>11, <3>1, <3>2
  <2> QED BY <1>9, <2>1, <2>2, <2>3 DEF Numbered
<1>15. \A i \in 1 .. Len(old) : old[i].name # x
  BY <1>1, <1>5, Declared
<1>16. ASSUME NEW l \in DOMAIN q, NEW i \in DOMAIN q[l].cells, NEW j \in DOMAIN q[l].cells,
              q[l].cells[i].name = q[l].cells[j].name
       PROVE  i = j
  <2>1. CASE l \in 1 .. k - 1
    <3>1. l \in DOMAIN sc.list /\ q[l] = sc.list[l] BY <1>7, <1>12, <2>1
    <3> QED BY <1>16, <3>1 DEF Laid
  <2>2. CASE l = k
    <3>1. q[l].cells = cs BY <1>6, <1>7, <2>2
    <3>2. ASSUME i \in 1 .. Len(old), j \in 1 .. Len(old) PROVE i = j
      <4>1. old[i].name = old[j].name BY <1>5, <1>16, <3>1, <3>2
      <4>2. k \in DOMAIN sc.list /\ i \in DOMAIN old /\ j \in DOMAIN old BY <1>1, <1>5, <3>2
      <4> QED BY <4>1, <4>2 DEF Laid
    <3> QED BY <1>4, <1>5, <1>13, <1>15, <1>16, <3>1, <3>2
  <2> QED BY <1>7, <1>11, <2>1, <2>2
<1>17. ASSUME NEW l \in DOMAIN q, NEW i \in DOMAIN q[l].cells
       PROVE  q[l].cells[i].name = "@ctrl" <=> l = 1 /\ i = 1
  <2>1. CASE l \in 1 .. k - 1
    <3>1. l \in DOMAIN sc.list /\ q[l] = sc.list[l] BY <1>7, <1>12, <2>1
    <3> QED BY <3>1 DEF Laid
  <2>2. CASE l = k
    <3>1. q[l].cells = cs /\ l # 1 BY <1>1, <1>6, <1>7, <2>2
    <3>2. i \in 1 .. Len(old) => old[i].name # "@ctrl" BY <1>1, <1>5, <2>2, <3>1 DEF Laid
    <3>3. x # "@ctrl" BY ScopeAssumption
    <3> QED BY <1>4, <1>5, <1>13, <3>1, <3>2, <3>3
  <2> QED BY <1>7, <1>11, <2>1, <2>2
<1>18. Len(q[1].cells) >= 1
  <2>1. 1 \in 1 .. k - 1 BY <1>1
  <2> QED BY <1>7, <2>1 DEF Laid
<1>19. Laid(sd) BY <1>9, <1>14, <1>16, <1>17, <1>18 DEF Laid
<1>20. q[k].cells = cs BY <1>6, <1>7, SMTT(30)
<1> QED BY <1>3, <1>7, <1>8, <1>9, <1>19, <1>20 DEF cs, c

-----------------------------------------------------------------------------
(* sea_duplicate_scope makes an equal scope, and its Assert holds.         *)
Copied(sc, l, k) ==
  [sc |-> [slots |-> SubSeq(sc.slots, 1, sc.list[l].inputlen + k),
           list  |-> Append(SubSeq(sc.list, 1, l - 1),
                            [inputlen |-> sc.list[l].inputlen,
                             cells |-> SubSeq(sc.list[l].cells, 1, k)])],
   ok |-> TRUE]
Above(sc, l) ==
  [sc |-> [slots |-> SubSeq(sc.slots, 1, sc.list[l].inputlen),
           list  |-> SubSeq(sc.list, 1, l - 1)],
   ok |-> TRUE]

LEMMA CopyStep ==
  ASSUME NEW sc, Laid(sc), NEW l \in DOMAIN sc.list, NEW k \in 1 .. Len(sc.list[l].cells)
  PROVE  CopyCell(Copied(sc, l, k - 1), sc.list[l].cells[k], sc.slots[sc.list[l].cells[k].slot])
           = Copied(sc, l, k)
<1> DEFINE p == sc.list[l].inputlen
           cells == sc.list[l].cells
           x == cells[k].name
           n == sc.slots[p + k]
           q == SubSeq(sc.list, 1, l - 1)
           cs == SubSeq(cells, 1, k - 1)
           d == [inputlen |-> p, cells |-> cs]
           r == SubSeq(sc.slots, 1, p + (k - 1))
           old == [slots |-> r, list |-> Append(q, d)]
           c == [name |-> x, slot |-> p + k]
<1>1. /\ sc \in Scope /\ Len(sc.list) \in Nat /\ DOMAIN sc.list = 1 .. Len(sc.list) /\ Len(sc.slots) \in Nat
      /\ sc.slots \in Slots /\ sc.list \in Seq(Data) /\ sc.list[l] \in Data
      /\ p \in Nat /\ cells \in Seq(Cell) /\ Len(cells) \in Nat /\ DOMAIN cells = 1 .. Len(cells)
  BY LaidParts, ZenonT(40) DEF Scope, Data
<1>2. /\ k \in DOMAIN cells /\ cells[k] \in Cell /\ l \in Nat /\ l >= 1 /\ k \in Nat /\ k >= 1
      /\ k <= Len(cells) /\ l <= Len(sc.list)
  BY <1>1
<1>3. cells[k].slot = p + k /\ p + k \in 1 .. Len(sc.slots) BY <1>2, CellSlots
<1>4. cells[k] = c BY <1>2, <1>3 DEF Cell
<1>5. q \in Seq(Data) /\ Len(q) = l - 1 BY <1>1, <1>2
<1>6. /\ cs \in Seq(Cell) /\ Len(cs) = k - 1 /\ DOMAIN cs = 1 .. k - 1
      /\ \A i \in 1 .. k - 1 : cs[i] = cells[i]
  <2> HIDE DEF cells
  <2> QED BY <1>1, <1>2
<1>7. Append(cs, cells[k]) = SubSeq(cells, 1, k)
  <2> HIDE DEF cells
  <2> QED BY <1>1, <1>2, OneLonger
<1>8. r \in Slots /\ Len(r) = p + (k - 1) /\ Append(r, n) = SubSeq(sc.slots, 1, p + k)
  <2> DEFINE e == p + k
  <2>1. e \in Nat /\ e >= 1 /\ e <= Len(sc.slots) /\ p + (k - 1) = e - 1 /\ e - 1 \in Nat
    BY <1>1, <1>2, <1>3, SMTT(30)
  <2> HIDE DEF e, p
  <2>2. SubSeq(sc.slots, 1, e - 1) \in Slots /\ Len(SubSeq(sc.slots, 1, e - 1)) = e - 1
    BY <1>1, <2>1 DEF Slots
  <2>3. SubSeq(sc.slots, 1, e) = Append(SubSeq(sc.slots, 1, e - 1), sc.slots[e])
    <3>1. e \in 1 .. Len(sc.slots) BY <1>1, <2>1
    <3> QED BY <1>1, <3>1, OneLonger DEF Slots
  <2> QED BY <2>1, <2>2, <2>3 DEF e
<1>9. d \in Data /\ d.inputlen = p /\ d.cells = cs
  <2> HIDE DEF p, cs
  <2> QED BY <1>1, <1>6 DEF Data
<1>10. Append(q, d) \in Seq(Data) /\ Len(Append(q, d)) = l /\ Append(q, d)[l] = d
  <2> HIDE DEF d, q
  <2> QED BY <1>2, <1>5, <1>9
<1> HIDE DEF q, r, cs, d
<1>11. old \in Scope /\ old.list = Append(q, d) /\ old.slots = r BY <1>8, <1>10 DEF Scope
<1> HIDE DEF old
<1>12. Len(old.list) = l /\ l \notin Declares(old, x)
  <2>1. \A i \in 1 .. k - 1 : cs[i].name # x
    <3> TAKE i \in 1 .. k - 1
    <3>1. i \in DOMAIN cells /\ i # k BY <1>1, <1>2
    <3> QED BY <1>2, <1>6, <3>1 DEF Laid
  <2> QED BY <1>6, <1>9, <1>10, <1>11, <2>1, Declared
<1> DEFINE longer == [Append(q, d) EXCEPT ![l].cells = Append(@, c)]
<1>13. Insert(old, x, n) = [slots |-> Append(r, n), list |-> longer]
  <2>1. Len(old.slots) + 1 = p + k
    <3> HIDE DEF p
    <3> QED BY <1>1, <1>2, <1>8, <1>11
  <2> QED BY <1>11, <1>12, <2>1 DEF Insert
<1>14. longer = Append(q, [inputlen |-> p, cells |-> SubSeq(cells, 1, k)])
  <2> DEFINE all == Append(q, d)
             d2 == [inputlen |-> p, cells |-> Append(cs, c)]
  <2>1. c \in Cell BY <1>2, <1>4
  <2>2. all \in Seq(Data) /\ Len(all) = l /\ l \in 1 .. Len(all) /\ all[l] = d BY <1>2, <1>10
  <2> HIDE DEF all, c
  <2>3. [all EXCEPT ![l].cells = Append(@, c)]
          = [all EXCEPT ![l] = [inputlen |-> all[l].inputlen, cells |-> Append(all[l].cells, c)]]
    <3> DEFINE w == Append(all[l].cells, c)
    <3>1. all[l] = [inputlen |-> all[l].inputlen, cells |-> all[l].cells]
      <4>1. all[l] \in Data BY <2>2
      <4> QED BY <4>1 DEF Data
    <3>2. [all[l] EXCEPT !.cells = w] = [inputlen |-> all[l].inputlen, cells |-> w]
      <4> HIDE DEF w
      <4> QED BY <3>1
    <3> QED BY <3>2
  <2>4. [inputlen |-> all[l].inputlen, cells |-> Append(all[l].cells, c)] = d2
    BY <1>9, <2>2
  <2>5. d2 \in Data
    <3>1. Append(cs, c) \in Seq(Cell) BY <1>6, <2>1
    <3> QED BY <1>1, <3>1 DEF Data
  <2> HIDE DEF d2
  <2>6. [all EXCEPT ![l] = d2] = Append(q, d2)
    <3>1. l = Len(q) + 1 BY <1>2, <1>5
    <3> QED BY <1>5, <1>9, <2>5, <3>1, ReplaceLast DEF all
  <2>7. Append(cs, c) = SubSeq(cells, 1, k) BY <1>4, <1>7
  <2> QED BY <2>3, <2>4, <2>6, <2>7 DEF d2, all, longer
<1>15. Copied(sc, l, k - 1) = [sc |-> old, ok |-> TRUE] BY DEF Copied, old, r, q, d, cs
<1> HIDE DEF longer
<1>16. Insert(old, x, n) = Copied(sc, l, k).sc
  BY <1>8, <1>13, <1>14 DEF Copied, q
<1>17. Len(old.slots) + 1 = cells[k].slot
  <2> HIDE DEF p
  <2> QED BY <1>1, <1>2, <1>3, <1>8, <1>11, SMTT(40)
<1>18. sc.slots[sc.list[l].cells[k].slot] = n BY <1>3
<1> QED BY <1>15, <1>16, <1>17, <1>18 DEF CopyCell, Copied

Upto(sc, l) ==
  [sc |-> [slots |-> SubSeq(sc.slots, 1, IF l = 0 THEN 0 ELSE sc.list[l].inputlen + Len(sc.list[l].cells)),
           list  |-> SubSeq(sc.list, 1, l)],
   ok |-> TRUE]

LEMMA Emptied ==
  ASSUME NEW s
  PROVE  SubSeq(s, 1, 0) = <<>>
BY SubSeqEmpty

LEMMA CopyStart ==
  ASSUME NEW sc, Laid(sc), NEW l \in DOMAIN sc.list
  PROVE  [sc |-> PushScope(Above(sc, l).sc), ok |-> Above(sc, l).ok] = Copied(sc, l, 0)
<1> DEFINE p == sc.list[l].inputlen
           q == SubSeq(sc.list, 1, l - 1)
           r == SubSeq(sc.slots, 1, p)
           sd == [slots |-> r, list |-> q]
<1>1. /\ sc \in Scope /\ sc.slots \in Slots /\ p \in 0 .. Len(sc.slots) /\ Len(sc.slots) \in Nat
  BY LaidParts DEF Scope
<1>2. Len(r) = p
  <2> HIDE DEF p
  <2> QED BY <1>1 DEF Slots
<1>3. p + 0 = p BY <1>1
<1> HIDE DEF p
<1>4. Copied(sc, l, 0) = [sc |-> [slots |-> r, list |-> Append(q, [inputlen |-> p, cells |-> <<>>])], ok |-> TRUE]
  BY <1>3, Emptied DEF Copied, p
<1>5. Above(sc, l) = [sc |-> sd, ok |-> TRUE] BY DEF Above, p
<1> HIDE DEF q, r
<1>6. PushScope(sd) = [slots |-> r, list |-> Append(q, [inputlen |-> p, cells |-> <<>>])]
  BY <1>2, SMTT(30) DEF PushScope
<1> HIDE DEF sd
<1> QED BY <1>4, <1>5, <1>6

LEMMA CopyEnd ==
  ASSUME NEW sc, Laid(sc), NEW l \in DOMAIN sc.list
  PROVE  Copied(sc, l, Len(sc.list[l].cells)) = Upto(sc, l)
<1> DEFINE d == sc.list[l]
<1>1. /\ sc \in Scope /\ sc.list \in Seq(Data) /\ d \in Data /\ l \in 1 .. Len(sc.list) /\ Len(sc.list) \in Nat
  BY LaidParts DEF Scope
<1>2. d = [inputlen |-> d.inputlen, cells |-> d.cells] /\ d.cells \in Seq(Cell) BY <1>1 DEF Data
<1>3. SubSeq(d.cells, 1, Len(d.cells)) = d.cells
  <2> DEFINE cs == d.cells
  <2> HIDE DEF cs
  <2> QED BY <1>2, SubSeqFull DEF cs
<1>4. Append(SubSeq(sc.list, 1, l - 1), d) = SubSeq(sc.list, 1, l) BY <1>1, OneLonger
<1>5. l # 0 BY <1>1
<1> QED BY <1>2, <1>3, <1>4, <1>5 DEF Copied, Upto

LEMMA NextAbove ==
  ASSUME NEW sc, Laid(sc), NEW l \in DOMAIN sc.list
  PROVE  Upto(sc, l - 1) = Above(sc, l)
<1>1. /\ l \in 1 .. Len(sc.list) /\ Len(sc.list) \in Nat /\ DOMAIN sc.list = 1 .. Len(sc.list)
  BY LaidParts
<1>2. CASE l = 1
  <2>1. sc.list[1].inputlen = 0 BY DEF Laid, Numbered
  <2> QED BY <1>2, <2>1 DEF Upto, Above
<1>3. CASE l # 1
  <2>1. l - 1 \in DOMAIN sc.list /\ l - 1 # Len(sc.list) /\ (l - 1) + 1 = l /\ l - 1 # 0 BY <1>1, <1>3
  <2>2. sc.list[l - 1].inputlen + Len(sc.list[l - 1].cells) = sc.list[(l - 1) + 1].inputlen
    BY <2>1 DEF Laid, Numbered
  <2> QED BY <2>1, <2>2 DEF Upto, Above
<1> QED BY <1>2, <1>3

LEMMA BlockCopied ==
  ASSUME NEW sc, Laid(sc), NEW l \in DOMAIN sc.list
  PROVE  CopyBlock(Above(sc, l), sc, sc.list[l]) = Upto(sc, l)
<1> DEFINE data == sc.list[l]
           n == Len(data.cells)
           Step(f, i) == IF i = 0 THEN [sc |-> PushScope(Above(sc, l).sc), ok |-> Above(sc, l).ok]
                         ELSE CopyCell(f[i - 1], data.cells[i], sc.slots[data.cells[i].slot])
           Of(f) == f = [i \in 0 .. n |-> Step(f, i)]
           g == [i \in 0 .. n |-> Copied(sc, l, i)]
           h == CHOOSE f : Of(f)
<1>1. n \in Nat /\ l \in 1 .. Len(sc.list) /\ Len(sc.list) \in Nat /\ DOMAIN sc.list = 1 .. Len(sc.list) BY LaidParts
<1>2. CopyBlock(Above(sc, l), sc, data) = h[n] BY DEF CopyBlock
<1>3. \A i \in 1 .. n : CopyCell(Copied(sc, l, i - 1), data.cells[i], sc.slots[data.cells[i].slot]) = Copied(sc, l, i)
  BY CopyStep
<1>4. [sc |-> PushScope(Above(sc, l).sc), ok |-> Above(sc, l).ok] = Copied(sc, l, 0) BY CopyStart
<1>5. \A i \in 0 .. n : i # 0 => i \in 1 .. n /\ i - 1 \in 0 .. n BY <1>1
<1>0. 0 \in 0 .. n /\ n \in 0 .. n BY <1>1
<1> DEFINE a == [sc |-> PushScope(Above(sc, l).sc), ok |-> Above(sc, l).ok]
<1> HIDE DEF n, data
<1>6. Of(g)
  <2>1. \A i \in 0 .. n : Step(g, i) = Copied(sc, l, i)
    <3> TAKE i \in 0 .. n
    <3>1. CASE i = 0 BY <1>4, <3>1
    <3>2. CASE i # 0
      <4>1. i \in 1 .. n /\ g[i - 1] = Copied(sc, l, i - 1) BY <1>5, <3>2, SMTT(30)
      <4> QED BY <1>3, <3>2, <4>1
    <3> QED BY <3>1, <3>2
  <2> QED BY <2>1
<1>7. Of(h) BY <1>6
<1> HIDE DEF h
<1>8. \A i \in 0 .. n : h[i] = Step(h, i) BY <1>7
<1> DEFINE S == {i \in Nat : i <= n => h[i] = Copied(sc, l, i)}
<1>9. 0 \in S BY <1>0, <1>4, <1>8
<1>10. \A i \in Nat : i \in S => i + 1 \in S
  <2> SUFFICES ASSUME NEW i \in Nat, i \in S, i + 1 <= n PROVE h[i + 1] = Copied(sc, l, i + 1)
    OBVIOUS
  <2>1. i + 1 \in 0 .. n /\ i + 1 \in 1 .. n /\ i + 1 # 0 /\ (i + 1) - 1 = i /\ i <= n BY <1>1
  <2>2. h[i + 1] = CopyCell(h[i], data.cells[i + 1], sc.slots[data.cells[i + 1].slot]) BY <1>8, <2>1
  <2>3. h[i] = Copied(sc, l, i) BY <2>1
  <2> QED BY <1>3, <2>1, <2>2, <2>3
<1> HIDE DEF S
<1>11. Nat \subseteq S BY <1>9, <1>10, Induct
<1>12. h[n] = Copied(sc, l, n)
  <2>1. n \in S /\ n <= n BY <1>1, <1>11
  <2> QED BY <2>1 DEF S
<1> QED BY <1>2, <1>12, CopyEnd DEF n, data

LEMMA AllCopied ==
  ASSUME NEW sc, Laid(sc)
  PROVE  Upto(sc, Len(sc.list)) = [sc |-> sc, ok |-> TRUE]
<1> DEFINE n == Len(sc.list)
<1>1. /\ sc \in Scope /\ sc.slots \in Slots /\ sc.list \in Seq(Data) /\ n \in Nat /\ n >= 1 /\ n \in DOMAIN sc.list
  BY LaidParts DEF Scope
<1>2. n # 0 /\ sc.list[n].inputlen + Len(sc.list[n].cells) = Len(sc.slots)
  BY <1>1 DEF Laid, Numbered
<1>3. SubSeq(sc.slots, 1, Len(sc.slots)) = sc.slots /\ SubSeq(sc.list, 1, n) = sc.list
  BY <1>1, SubSeqFull DEF Slots
<1>4. sc = [slots |-> sc.slots, list |-> sc.list] BY <1>1, ScopeParts
<1> HIDE DEF n
<1>5. Upto(sc, n) = [sc |-> [slots |-> sc.slots, list |-> sc.list], ok |-> TRUE]
  BY <1>2, <1>3 DEF Upto
<1> QED BY <1>4, <1>5 DEF n

(* A copy is equal to its scope, and each cell is given the slot it had: the *)
(* Assert of sea_duplicate_scope.                                          *)
THEOREM DuplicateIsEqual ==
  \A sc : Laid(sc) => Duplicate(sc) = [sc |-> sc, ok |-> TRUE]
<1> SUFFICES ASSUME NEW sc, Laid(sc) PROVE Duplicate(sc) = [sc |-> sc, ok |-> TRUE]
  OBVIOUS
<1> DEFINE n == Len(sc.list)
           Step(f, l) == IF l = 0 THEN [sc |-> NoScope, ok |-> TRUE]
                         ELSE CopyBlock(f[l - 1], sc, sc.list[l])
           Of(f) == f = [l \in 0 .. n |-> Step(f, l)]
           g == [l \in 0 .. n |-> Upto(sc, l)]
           h == CHOOSE f : Of(f)
<1>1. n \in Nat /\ DOMAIN sc.list = 1 .. n BY LaidParts
<1>2. Duplicate(sc) = h[n] BY DEF Duplicate
<1>3. \A l \in 1 .. n : CopyBlock(Upto(sc, l - 1), sc, sc.list[l]) = Upto(sc, l)
  <2> TAKE l \in 1 .. n
  <2>1. l \in DOMAIN sc.list BY <1>1
  <2> QED BY <2>1, BlockCopied, NextAbove
<1>4. [sc |-> NoScope, ok |-> TRUE] = Upto(sc, 0) BY Emptied DEF Upto, NoScope
<1>5. \A l \in 0 .. n : l # 0 => l \in 1 .. n /\ l - 1 \in 0 .. n BY <1>1
<1>0. 0 \in 0 .. n /\ n \in 0 .. n BY <1>1
<1> HIDE DEF n
<1>6. Of(g)
  <2>1. \A l \in 0 .. n : Step(g, l) = Upto(sc, l)
    <3> TAKE l \in 0 .. n
    <3>1. CASE l = 0 BY <1>4, <3>1
    <3>2. CASE l # 0
      <4>1. l \in 1 .. n /\ g[l - 1] = Upto(sc, l - 1) BY <1>5, <3>2
      <4> QED BY <1>3, <3>2, <4>1
    <3> QED BY <3>1, <3>2
  <2> QED BY <2>1
<1>7. Of(h) BY <1>6
<1> HIDE DEF h
<1>8. \A l \in 0 .. n : h[l] = Step(h, l) BY <1>7
<1> DEFINE S == {l \in Nat : l <= n => h[l] = Upto(sc, l)}
<1>9. 0 \in S BY <1>0, <1>4, <1>8
<1>10. \A l \in Nat : l \in S => l + 1 \in S
  <2> SUFFICES ASSUME NEW l \in Nat, l \in S, l + 1 <= n PROVE h[l + 1] = Upto(sc, l + 1)
    OBVIOUS
  <2>1. l + 1 \in 0 .. n /\ l + 1 \in 1 .. n /\ l + 1 # 0 /\ (l + 1) - 1 = l /\ l <= n BY <1>1
  <2>2. h[l + 1] = CopyBlock(h[l], sc, sc.list[l + 1]) BY <1>8, <2>1
  <2>3. h[l] = Upto(sc, l) BY <2>1
  <2> QED BY <1>3, <2>1, <2>2, <2>3
<1> HIDE DEF S
<1>11. Nat \subseteq S BY <1>9, <1>10, Induct
<1>12. h[n] = Upto(sc, n)
  <2>1. n \in S /\ n <= n BY <1>1, <1>11
  <2> QED BY <2>1 DEF S
<1> QED BY <1>2, <1>12, AllCopied DEF n

-----------------------------------------------------------------------------
(* A frame and its parts.                                                  *)
BranchFrame == [fn : Branch, other : Scope, was : BOOLEAN, take : BOOLEAN, cont : BOOLEAN,
                ctrl : Node \cup {Live, Dead}]
LoopFrame   == [fn : {"body"}, head : Scope, was : BOOLEAN, go : BOOLEAN, exit : Scope,
                before : Seq(Env), at : Seq(Env)]

LEMMA FrameParts ==
  ASSUME NEW f \in Frame
  PROVE  /\ f.fn \in {"func", "block", "body"} \cup Branch
         /\ f.fn \in Branch => f \in BranchFrame /\ PutAside(f) = {f.other}
         /\ f.fn = "body" => f \in LoopFrame /\ PutAside(f) = {f.head, f.exit}
         /\ f.fn \in {"func", "block"} => PutAside(f) = {}
<1>1. f \in [fn : {"func", "block"}] \/ f \in BranchFrame \/ f \in LoopFrame
  BY DEF Frame, BranchFrame, LoopFrame
<1>2. CASE f \in [fn : {"func", "block"}] BY <1>2 DEF Branch, PutAside
<1>3. CASE f \in BranchFrame BY <1>3 DEF Branch, BranchFrame, PutAside
<1>4. CASE f \in LoopFrame BY <1>4 DEF Branch, LoopFrame, PutAside
<1> QED BY <1>1, <1>2, <1>3, <1>4

LEMMA Retagged ==
  ASSUME NEW f \in BranchFrame, NEW fn \in Branch
  PROVE  LET g == Become(f, fn) IN
         /\ g \in BranchFrame /\ g \in Frame /\ g.fn = fn /\ g.other = f.other
         /\ g.was = f.was /\ g.take = f.take /\ g.cont = f.cont /\ g.ctrl = f.ctrl
BY DEF BranchFrame, Become, Frame

(* What a frame keeps when only the part of the statement changes.          *)
Kin(g, f) ==
  \/ g = f
  \/ /\ f \in BranchFrame /\ f.fn = "between" /\ g = Become(f, "merge")

LEMMA KinParts ==
  ASSUME NEW f \in Frame, NEW g, Kin(g, f)
  PROVE  /\ g \in Frame /\ PutAside(g) = PutAside(f)
         /\ g.fn = "func" <=> f.fn = "func"
         /\ g.fn \in {"between", "merge"} <=> f.fn \in {"between", "merge"}
         /\ g.fn = "body" <=> f.fn = "body"
         /\ g.fn = "body" => g = f
         /\ g.fn \in Branch \cup {"body"} <=> f.fn \in Branch \cup {"body"}
         /\ f.fn \in Branch \cup {"body"} => g.was = f.was
         /\ OnSide(g) <=> OnSide(f)
         /\ Pending(f) => Pending(g)
<1>1. CASE g = f BY <1>1
<1>2. CASE f \in BranchFrame /\ f.fn = "between" /\ g = Become(f, "merge")
  <2>1. "merge" \in Branch BY DEF Branch
  <2>2. /\ g \in BranchFrame /\ g \in Frame /\ g.fn = "merge" /\ g.other = f.other
        /\ g.was = f.was /\ g.take = f.take /\ g.cont = f.cont
    BY <1>2, <2>1, Retagged
  <2> QED BY <1>2, <2>2 DEF PutAside, OnSide, Pending, Branch
<1> QED BY <1>1, <1>2 DEF Kin

-----------------------------------------------------------------------------
(* A step that makes nodes and changes none that are made.                 *)
Grown ==
  /\ next' \in next .. MaxNode + 1
  /\ \A n \in 1 .. next - 1 : nodes'[n] = nodes[n] /\ val'[n] = val[n]
  /\ \A n \in Node : n >= next /\ nodes'[n].kind = "phi" => nodes'[n].reg >= next

LEMMA MadeMore ==
  ASSUME NEW a \in Nat, NEW b \in Nat, a <= b, NEW c \in Nat, a <= c + 1
  PROVE  1 .. a - 1 \subseteq 1 .. b - 1 /\ 1 .. a - 1 \subseteq 1 .. c
OBVIOUS

LEMMA GrownNodes ==
  ASSUME Graph, Grown
  PROVE  /\ Made \subseteq Made' /\ Valued \subseteq Valued'
         /\ \A n \in Valued : val'[n] = val[n]
         /\ Made \subseteq Node
<1>1. next \in Nat /\ next' \in Nat /\ next <= next' /\ MaxNode \in Nat /\ next <= MaxNode + 1
  BY ScopeAssumption DEF Graph, Grown
<1>2. Made \subseteq Made' /\ Made \subseteq Node BY <1>1, MadeMore DEF Made, Node
<1>3. \A n \in Made : val'[n] = val[n] BY DEF Grown, Made
<1> QED BY <1>2, <1>3 DEF Valued

LEMMA FilledStays ==
  ASSUME Graph, Grown, NEW sc, Filled(sc)
  PROVE  Filled(sc)'
BY GrownNodes DEF Filled

(* The frames up to m stay, and f is on top of them.                       *)
Stay(m) ==
  /\ m \in 1 .. Len(frames)
  /\ Len(frames') \in {m, m + 1}
  /\ frames' \in Seq(Frame)
  /\ \A i \in 1 .. m : Kin(frames'[i], frames[i])

LEMMA BlocksStep ==
  ASSUME Blocks0, NEW m \in Nat, m >= 1, NEW k \in Nat, m <= k, k = Len(frames),
         NEW n \in Nat, n = Len(frames'), n = m \/ n = m + 1, Stay(m), NEW lev \in [DOMAIN frames -> Nat], Levels(lev),
         \A sc : Filled(sc) => Filled(sc)',
         Laid(curr'), Filled(curr)', Len(env') = Len(curr'.list),
         \A i \in 2 .. m : \A l \in 1 .. lev[i - 1] : curr'.list[l] = curr.list[l],
         n = m => Len(curr'.list) = lev[m],
         n = m + 1 =>
           /\ frames'[m + 1].fn # "func"
           /\ Len(curr'.list) = lev[m] + (IF frames'[m + 1].fn \in {"between", "merge"} THEN 0 ELSE 1)
           /\ \A sc \in PutAside(frames'[m + 1]) :
                /\ Laid(sc) /\ Filled(sc)' /\ Len(sc.list) = lev[m]
                /\ \A l \in 1 .. Len(sc.list) : sc.list[l] = curr'.list[l]
  PROVE  Blocks0'
<1>1. frames \in Seq(Frame) /\ DOMAIN frames = 1 .. k /\ frames' \in Seq(Frame) /\ DOMAIN frames' = 1 .. n
  BY DEF Blocks0, Stay
<1>2. \A i \in 1 .. m : i \in DOMAIN frames BY <1>1
<1>0. /\ m \in 1 .. m /\ 1 \in 1 .. m /\ \A i \in 1 .. m : i \in Nat /\ i # m + 1 /\ i \in 1 .. n
      /\ \A i \in 1 .. m, j \in 1 .. k : j <= i => j \in 1 .. m
      /\ \A i \in 1 .. m : i \in 2 .. n => i \in 2 .. m /\ i \in 2 .. k /\ i - 1 \in 1 .. m
  OBVIOUS
<1> DEFINE top == IF frames'[m + 1].fn \in {"between", "merge"} THEN 0 ELSE 1
<1>4. \A i \in 1 .. n : i \in 1 .. m \/ (i = m + 1 /\ n = m + 1) OBVIOUS
<1>3. \A i \in 1 .. m : lev[i] \in Nat BY <1>2
<1>5. PICK lv \in [1 .. n -> Nat] :
        /\ \A i \in 1 .. m : lv[i] = lev[i]
        /\ n = m + 1 => lv[m + 1] = lev[m] + top
  <2> DEFINE lw == [i \in 1 .. n |-> IF i = m + 1 THEN lev[m] + top ELSE lev[i]]
  <2>1. lev[m] \in Nat /\ top \in Nat BY <1>0, <1>3
  <2>2. lev[m] + top \in Nat BY <2>1
  <2> HIDE DEF top
  <2>3. lw \in [1 .. n -> Nat] BY <1>3, <1>4, <2>2
  <2>4. \A i \in 1 .. m : lw[i] = lev[i] BY <1>0
  <2>5. n = m + 1 => lw[m + 1] = lev[m] + top OBVIOUS
  <2> HIDE DEF lw
  <2> QED BY <2>3, <2>4, <2>5
<1>6. \A i \in 1 .. m : frames'[i] \in Frame /\ frames[i] \in Frame /\ Kin(frames'[i], frames[i])
  <2> TAKE i \in 1 .. m
  <2>1. i \in DOMAIN frames /\ i \in DOMAIN frames' BY <1>0, <1>2
  <2>2. frames'[i] \in Frame
    <3>1. i \in 1 .. Len(frames') BY <1>0
    <3> QED BY <1>1, <3>1, ElementOfSeq
  <2>3. frames[i] \in Frame BY <1>1, <2>1
  <2> QED BY <2>2, <2>3 DEF Stay
<1>13. \A i \in 1 .. m : PutAside(frames'[i]) = PutAside(frames[i])
         /\ (frames'[i].fn = "func" <=> frames[i].fn = "func")
         /\ (frames'[i].fn \in {"between", "merge"} <=> frames[i].fn \in {"between", "merge"})
  BY <1>6, KinParts
<1>8. lv[1] = 2 /\ frames'[1].fn = "func"
  <2>1. lev[1] = 2 /\ frames[1].fn = "func" BY DEF Levels
  <2> QED BY <1>0, <1>5, <1>13, <2>1
<1>9. ASSUME NEW i \in 2 .. n
      PROVE  /\ frames'[i].fn # "func"
             /\ lv[i] = lv[i - 1] + (IF frames'[i].fn \in {"between", "merge"} THEN 0 ELSE 1)
             /\ \A sc \in PutAside(frames'[i]) :
                  /\ Laid(sc) /\ Filled(sc)' /\ Len(sc.list) = lv[i - 1]
                  /\ \A l \in 1 .. Len(sc.list) : sc.list[l] = curr'.list[l]
  <2>1. CASE i \in 1 .. m
    <3>1. i \in 2 .. m /\ i \in 2 .. k /\ i - 1 \in 1 .. m BY <1>0, <1>9, <2>1
    <3>2. lv[i] = lev[i] /\ lv[i - 1] = lev[i - 1] BY <1>5, <2>1, <3>1
    <3>3. /\ frames[i].fn # "func"
          /\ lev[i] = lev[i - 1] + (IF frames[i].fn \in {"between", "merge"} THEN 0 ELSE 1)
          /\ \A sc \in PutAside(frames[i]) :
               /\ Laid(sc) /\ Filled(sc) /\ Len(sc.list) = lev[i - 1]
               /\ \A l \in 1 .. Len(sc.list) : sc.list[l] = curr.list[l]
      BY <3>1 DEF Levels
    <3>4. \A sc \in PutAside(frames'[i]) :
            /\ Laid(sc) /\ Filled(sc)' /\ Len(sc.list) = lv[i - 1]
            /\ \A l \in 1 .. Len(sc.list) : sc.list[l] = curr'.list[l]
      BY <1>13, <2>1, <3>1, <3>2, <3>3
    <3> QED BY <1>13, <2>1, <3>2, <3>3, <3>4
  <2>2. CASE i = m + 1 /\ n = m + 1
    <3>1. i - 1 = m /\ m \in 1 .. m BY <1>2, <2>2
    <3> QED BY <1>5, <2>2, <3>1
  <2> QED BY <1>4, <1>9, <2>1, <2>2
<1>10. \A i, j \in DOMAIN frames' : i <= j => lv[i] <= lv[j]
  <2> TAKE i, j \in DOMAIN frames'
  <2> HAVE i <= j
  <2>1. CASE j \in 1 .. m
    <3>1. i \in 1 .. m /\ i \in DOMAIN frames /\ j \in DOMAIN frames
      <4>1. i \in 1 .. n BY <1>1
      <4>2. i \in 1 .. m BY <2>1, <4>1
      <4> QED BY <1>2, <2>1, <4>2
    <3>2. lev[i] <= lev[j] BY <3>1 DEF Levels
    <3> QED BY <1>5, <2>1, <3>1, <3>2
  <2>2. CASE j = m + 1 /\ n = m + 1
    <3>1. CASE i = m + 1 BY <1>2, <1>5, <2>2, <3>1
    <3>2. CASE i \in 1 .. m
      <4>1. i \in DOMAIN frames /\ m \in DOMAIN frames /\ i <= m /\ m \in 1 .. m BY <1>2, <3>2
      <4>2. lev[i] <= lev[m] /\ lev[i] \in Nat /\ lev[m] \in Nat BY <1>3, <3>2, <4>1 DEF Levels
      <4>3. lv[j] = lev[m] + top /\ top \in Nat BY <1>5, <2>2
      <4>4. lv[i] = lev[i] BY <1>5, <3>2
      <4> HIDE DEF top
      <4> QED BY <4>2, <4>3, <4>4
    <3> QED BY <1>2, <1>4, <3>1, <3>2
  <2> QED BY <1>2, <1>4, <2>1, <2>2
<1>11. lv[n] = Len(curr'.list)
  <2>1. CASE n = m
    <3> QED BY <1>0, <1>5, <2>1
  <2>2. CASE n = m + 1 BY <1>5, <2>2
  <2> QED BY <1>2, <2>1, <2>2
<1>12. Levels(lv)'
  <2>1. \A i \in 2 .. Len(frames') :
             /\ frames'[i].fn # "func"
             /\ lv[i] = lv[i - 1] + (IF frames'[i].fn \in {"between", "merge"} THEN 0 ELSE 1)
             /\ \A sc \in PutAside(frames'[i]) :
                  /\ Laid(sc) /\ Filled(sc)' /\ Len(sc.list) = lv[i - 1]
                  /\ \A l \in 1 .. Len(sc.list) : sc.list[l] = curr'.list[l]
    BY <1>9
  <2>2. lv[Len(frames')] = Len(curr'.list) BY <1>11
  <2>3. \A i : PutAside(frames[i])' = PutAside(frames'[i]) BY DEF PutAside
  <2>4. (lv[1] = 2 /\ frames[1].fn = "func")' BY <1>8
  <2>5. (\A i \in 2 .. Len(frames) : frames[i].fn # "func")' BY <2>1
  <2>6. (\A i \in 2 .. Len(frames) : lv[i] = lv[i - 1] + (IF frames[i].fn \in {"between", "merge"} THEN 0 ELSE 1))' BY <2>1
  <2>7. (\A i \in 2 .. Len(frames) : \A sc \in PutAside(frames[i]) :
                  /\ Laid(sc) /\ Filled(sc) /\ Len(sc.list) = lv[i - 1]
                  /\ \A l \in 1 .. Len(sc.list) : sc.list[l] = curr.list[l])' BY <2>1, <2>3
  <2>8. (\A i, j \in DOMAIN frames : i <= j => lv[i] <= lv[j])' BY <1>10
  <2>9. (lv[Len(frames)] = Len(curr.list))' BY <2>2
  <2> QED BY <2>4, <2>5, <2>6, <2>7, <2>8, <2>9 DEF Levels
<1>14. curr' \in Scope BY LaidParts
<1>15. Laid(curr)' BY DEF Laid, Numbered
<1>16. frames' # <<>>
  <2>1. 1 \in DOMAIN frames' BY <1>0, <1>1
  <2> QED BY <2>1
<1> QED BY <1>1, <1>5, <1>12, <1>14, <1>15, <1>16, Zenon DEF Blocks0

-----------------------------------------------------------------------------
(* Loops and branches that are not closed by a step stay as they are.      *)
LEMMA MeansStays ==
  ASSUME Graph, Grown, NEW sc, Laid(sc), Filled(sc), Means(sc),
         \A l \in DOMAIN sc.list : env'[l] = env[l]
  PROVE  Means(sc)'
<1>1. \A l \in DOMAIN sc.list : \A i \in DOMAIN sc.list[l].cells :
        sc.list[l].cells[i].name # "@ctrl" =>
          val'[sc.slots[sc.list[l].cells[i].slot]] = val[sc.slots[sc.list[l].cells[i].slot]]
  <2> SUFFICES ASSUME NEW l \in DOMAIN sc.list, NEW i \in DOMAIN sc.list[l].cells,
                      sc.list[l].cells[i].name # "@ctrl"
               PROVE  val'[sc.slots[sc.list[l].cells[i].slot]] = val[sc.slots[sc.list[l].cells[i].slot]]
    OBVIOUS
  <2>1. sc.list[l].cells[i].slot \in 2 .. Len(sc.slots) BY CellSlots
  <2>2. sc.slots[sc.list[l].cells[i].slot] \in Valued BY <2>1 DEF Filled
  <2> QED BY <2>2, GrownNodes
<1>2. \A l \in DOMAIN sc.list :
        DOMAIN env'[l] = {x \in Name : \E i \in DOMAIN sc.list[l].cells : sc.list[l].cells[i].name = x}
  BY ZenonT(40) DEF Means
<1>3. \A l \in DOMAIN sc.list : \A i \in DOMAIN sc.list[l].cells :
        sc.list[l].cells[i].name # "@ctrl" =>
          val'[sc.slots[sc.list[l].cells[i].slot]] = env'[l][sc.list[l].cells[i].name]
  <2> SUFFICES ASSUME NEW l \in DOMAIN sc.list, NEW i \in DOMAIN sc.list[l].cells,
                      sc.list[l].cells[i].name # "@ctrl"
               PROVE  val'[sc.slots[sc.list[l].cells[i].slot]] = env'[l][sc.list[l].cells[i].name]
    OBVIOUS
  <2>1. val[sc.slots[sc.list[l].cells[i].slot]] = env[l][sc.list[l].cells[i].name] BY DEF Means
  <2> QED BY <1>1, <2>1, Zenon
<1> QED BY <1>2, <1>3, Zenon DEF Means

LEMMA LoopStays ==
  ASSUME Graph, Grown, NEW f \in LoopFrame, LoopOK(f),
         ~ (f.was /\ f.go) => \A l \in DOMAIN f.at : env'[l] = env[l]
  PROVE  LoopOK(f)'
<1> DEFINE loop == Ctrl(f.head)
           size == Len(f.head.slots)
<1>1. /\ loop \in Made /\ nodes[loop].kind = "loop" /\ nodes[loop].args[2] = Null
      /\ f.exit.list = f.head.list /\ Len(f.exit.slots) = size
      /\ Ctrl(f.exit) \in {Live, Dead, loop}
      /\ \A s \in 2 .. size :
           /\ f.head.slots[s] = loop + s - 1 /\ f.exit.slots[s] = loop + s - 1
           /\ IsPhiOf(nodes, loop + s - 1, loop) /\ val[loop + s - 1] = loop + s - 1
      /\ \A n \in Node : IsPhiOf(nodes, n, loop) => n \in loop + 1 .. loop + size - 1
      /\ Len(f.at) = Len(f.head.list)
      /\ \A l \in DOMAIN f.at : \A x \in DOMAIN f.at[l] : f.at[l][x] \in Valued
      /\ ~ (f.was /\ f.go) => \A l \in DOMAIN f.at : f.at[l] = env[l]
      /\ ~ f.was => \A l \in DOMAIN f.at : \A x \in DOMAIN f.at[l] : f.at[l][x] < loop
  BY DEF LoopOK
<1> HIDE DEF loop, size
<1>2. \A n \in Node : nodes[n].kind = "phi" => n \in Made
  <2> TAKE n \in Node
  <2> HAVE nodes[n].kind = "phi"
  <2>1. ~ (n >= next) BY DEF Graph, Gone
  <2> QED BY <2>1 DEF Node, Made, Graph
<1>3. \A n \in Made : nodes'[n] = nodes[n] /\ val'[n] = val[n] BY DEF Grown, Made
<1>4. loop \in Made' /\ nodes'[loop].kind = "loop" /\ nodes'[loop].args[2] = Null
  BY <1>1, <1>3, GrownNodes
<1>5. ASSUME NEW s \in 2 .. size
      PROVE  IsPhiOf(nodes', loop + s - 1, loop) /\ val'[loop + s - 1] = loop + s - 1
  <2> DEFINE phi == loop + s - 1
  <2>1. IsPhiOf(nodes, phi, loop) /\ val[phi] = phi BY <1>1
  <2> HIDE DEF phi
  <2>2. phi \in Made BY <1>2, <2>1 DEF IsPhiOf
  <2>3. IsPhiOf(nodes', phi, loop) /\ val'[phi] = phi BY <1>3, <2>1, <2>2 DEF IsPhiOf
  <2> QED BY <2>3 DEF phi
<1>6. ASSUME NEW n \in Node, IsPhiOf(nodes', n, loop)
      PROVE  n \in loop + 1 .. loop + size - 1
  <2>1. CASE n \in Made BY <1>1, <1>3, <1>6, <2>1 DEF IsPhiOf
  <2>2. CASE n \notin Made
    <3>1. n >= next BY <2>2 DEF Made, Node, Graph
    <3>2. loop >= next BY <1>6, <3>1 DEF Grown, IsPhiOf
    <3>3. loop < next BY <1>1 DEF Made, Graph
    <3> QED BY <3>2, <3>3, <1>1 DEF Made, Graph
  <2> QED BY <2>1, <2>2
<1>7. \A l \in DOMAIN f.at : \A x \in DOMAIN f.at[l] : f.at[l][x] \in Valued' BY <1>1, GrownNodes
<1>8. ~ (f.was /\ f.go) => \A l \in DOMAIN f.at : f.at[l] = env'[l] BY <1>1
<1>9. LoopOK(f)' <=>
      /\ loop \in Made' /\ nodes'[loop].kind = "loop" /\ nodes'[loop].args[2] = Null
      /\ f.exit.list = f.head.list /\ Len(f.exit.slots) = size
      /\ Ctrl(f.exit) \in {Live, Dead, loop}
      /\ \A s \in 2 .. size :
           /\ f.head.slots[s] = loop + s - 1 /\ f.exit.slots[s] = loop + s - 1
           /\ IsPhiOf(nodes', loop + s - 1, loop) /\ val'[loop + s - 1] = loop + s - 1
      /\ \A n \in Node : IsPhiOf(nodes', n, loop) => n \in loop + 1 .. loop + size - 1
      /\ Len(f.at) = Len(f.head.list)
      /\ \A l \in DOMAIN f.at : \A x \in DOMAIN f.at[l] : f.at[l][x] \in Valued'
      /\ ~ (f.was /\ f.go) => \A l \in DOMAIN f.at : f.at[l] = env'[l]
      /\ ~ f.was => \A l \in DOMAIN f.at : \A x \in DOMAIN f.at[l] : f.at[l][x] < loop
  BY Zenon DEF LoopOK, loop, size, IsPhiOf
<1> QED BY <1>1, <1>4, <1>5, <1>6, <1>7, <1>8, <1>9

LEMMA LoopsStep ==
  ASSUME Graph, Grown, Blocks0, Loops, NEW m \in Nat, m >= 1, NEW k \in Nat, m <= k, k = Len(frames),
         NEW n \in Nat, n = Len(frames'), n = m \/ n = m + 1, Stay(m),
         NEW lev \in [DOMAIN frames -> Nat], Levels(lev),
         ~ on => \A l \in 1 .. lev[m] : env'[l] = env[l],
         \A i \in 1 .. m : OnSide(frames[i]) \/ ~ on,
         n = m + 1 /\ frames'[m + 1].fn = "body" =>
           /\ LoopOK(frames[m + 1])'
           /\ \A i \in 1 .. m : frames[i].fn = "body" =>
                Ctrl(frames[i].head) < Ctrl(frames'[m + 1].head)
  PROVE  Loops'
<1>1. frames \in Seq(Frame) /\ DOMAIN frames = 1 .. k /\ frames' \in Seq(Frame) /\ DOMAIN frames' = 1 .. n
  BY DEF Blocks0, Stay
<1>2. \A i \in 1 .. m : i \in DOMAIN frames /\ i \in 1 .. k /\ frames[i] \in Frame BY <1>1
<1>3. \A i \in 1 .. n : i \in 1 .. m \/ (i = m + 1 /\ n = m + 1) OBVIOUS
<1>4. \A i \in 1 .. m : /\ frames'[i].fn = "body" <=> frames[i].fn = "body"
                        /\ frames'[i].fn = "body" => frames'[i] = frames[i]
  BY <1>2, KinParts DEF Stay
<1>5. ASSUME NEW i \in 1 .. m, frames[i].fn = "body" PROVE LoopOK(frames[i])'
  <2>1. PICK f : f = frames[i] OBVIOUS
  <2>2. f = frames'[i] /\ f.fn = "body" BY <1>4, <1>5, <2>1
  <2>3. f \in LoopFrame /\ PutAside(f) = {f.head, f.exit} BY <1>2, <2>1, <2>2, FrameParts
  <2>4. LoopOK(f) BY <1>2, <1>5, <2>1 DEF Loops
  <2>5. ~ (f.was /\ f.go) => \A l \in DOMAIN f.at : env'[l] = env[l]
    <3> SUFFICES ASSUME ~ (f.was /\ f.go) PROVE \A l \in DOMAIN f.at : env'[l] = env[l]
      OBVIOUS
    <3>1. ~ on BY <2>1, <2>2 DEF OnSide
    <3>2. i # 1 BY <1>5 DEF Levels
    <3>3. i \in 2 .. k /\ i - 1 \in 1 .. m /\ i - 1 <= m /\ m \in 1 .. k BY <1>2, <3>2
    <3>4. Len(f.head.list) = lev[i - 1] BY <2>1, <2>3, <3>3 DEF Levels
    <3>5. lev[i - 1] <= lev[m] /\ lev[i - 1] \in Nat /\ lev[m] \in Nat
      BY <1>1, <1>2, <3>3 DEF Levels
    <3>6. DOMAIN f.at = 1 .. lev[i - 1]
      <4>1. Len(f.at) = Len(f.head.list) BY <2>4 DEF LoopOK
      <4>2. DOMAIN f.at = 1 .. Len(f.at) BY <2>3 DEF LoopFrame
      <4> QED BY <3>4, <4>1, <4>2
    <3>7. \A l \in 1 .. lev[i - 1] : l \in 1 .. lev[m] BY <3>5
    <3> QED BY <3>1, <3>6, <3>7
  <2>6. LoopOK(f)' BY <2>3, <2>4, <2>5, LoopStays
  <2> QED BY <2>2, <2>6
<1>6. \A i \in DOMAIN frames' : frames'[i].fn = "body" => LoopOK(frames[i])'
  BY <1>1, <1>3, <1>4, <1>5
<1>7. \A i, j \in DOMAIN frames' : i < j /\ frames'[i].fn = "body" /\ frames'[j].fn = "body" =>
        Ctrl(frames'[i].head) < Ctrl(frames'[j].head)
  <2> SUFFICES ASSUME NEW i \in 1 .. n, NEW j \in 1 .. n, i < j,
                      frames'[i].fn = "body", frames'[j].fn = "body"
               PROVE  Ctrl(frames'[i].head) < Ctrl(frames'[j].head)
    BY <1>1
  <2>1. i \in 1 .. m OBVIOUS
  <2>2. frames'[i] = frames[i] BY <1>4, <2>1
  <2>3. CASE j \in 1 .. m
    <3>1. frames'[j] = frames[j] BY <1>4, <2>3
    <3>2. i \in DOMAIN frames /\ j \in DOMAIN frames BY <1>2, <2>1, <2>3
    <3> QED BY <2>2, <3>1, <3>2 DEF Loops
  <2>4. CASE j = m + 1 /\ n = m + 1 BY <2>1, <2>2, <2>4
  <2> QED BY <1>3, <2>3, <2>4
<1>8. (\A i \in DOMAIN frames : frames[i].fn = "body" => LoopOK(frames[i]))' BY <1>6
<1>9. (\A i, j \in DOMAIN frames : i < j /\ frames[i].fn = "body" /\ frames[j].fn = "body" =>
        Ctrl(frames[i].head) < Ctrl(frames[j].head))' BY <1>7 DEF Ctrl
<1> QED BY <1>8, <1>9 DEF Loops

LEMMA RunStep ==
  ASSUME Run, Blocks0, NEW m \in Nat, m >= 1, NEW k \in Nat, m <= k, k = Len(frames),
         NEW n \in Nat, n = Len(frames'), n = m \/ n = m + 1, Stay(m),
         on' => /\ \A i \in 1 .. m : OnSide(frames[i])
                /\ n = m + 1 => OnSide(frames'[m + 1]),
         n = m + 1 /\ frames'[m + 1].fn \in Branch \cup {"body"} /\ frames'[m + 1].was =>
           \A j \in 1 .. m : OnSide(frames[j])
  PROVE  Run'
<1>1. frames \in Seq(Frame) /\ DOMAIN frames = 1 .. k /\ DOMAIN frames' = 1 .. n
  BY DEF Blocks0, Stay
<1>2. \A i \in 1 .. m : i \in DOMAIN frames /\ frames[i] \in Frame BY <1>1
<1>3. \A i \in 1 .. n : i \in 1 .. m \/ (i = m + 1 /\ n = m + 1) OBVIOUS
<1>4. \A i \in 1 .. m : /\ OnSide(frames'[i]) <=> OnSide(frames[i])
                        /\ frames'[i].fn \in Branch \cup {"body"} <=> frames[i].fn \in Branch \cup {"body"}
                        /\ frames[i].fn \in Branch \cup {"body"} => frames'[i].was = frames[i].was
  <2> TAKE i \in 1 .. m
  <2>1. frames[i] \in Frame /\ Kin(frames'[i], frames[i]) BY <1>2 DEF Stay
  <2> QED BY <2>1, KinParts
<1>5. on' => \A i \in DOMAIN frames' : OnSide(frames'[i]) BY <1>1, <1>3, <1>4
<1>6. \A i, j \in DOMAIN frames' :
        j < i /\ frames'[i].fn \in Branch \cup {"body"} /\ frames'[i].was => OnSide(frames'[j])
  <2> SUFFICES ASSUME NEW i \in 1 .. n, NEW j \in 1 .. n, j < i,
                      frames'[i].fn \in Branch \cup {"body"}, frames'[i].was
               PROVE  OnSide(frames'[j])
    BY <1>1
  <2>1. j \in 1 .. m OBVIOUS
  <2>2. CASE i \in 1 .. m
    <3>1. i \in DOMAIN frames /\ j \in DOMAIN frames BY <1>2, <2>1, <2>2
    <3>2. frames[i].fn \in Branch \cup {"body"} /\ frames[i].was BY <1>4, <2>2
    <3> QED BY <1>4, <2>1, <3>1, <3>2 DEF Run
  <2>3. CASE i = m + 1 /\ n = m + 1 BY <1>4, <2>1, <2>3
  <2> QED BY <1>3, <2>2, <2>3
<1>7. \A i : OnSide(frames[i])' <=> OnSide(frames'[i]) BY DEF OnSide
<1>8. (on => \A i \in DOMAIN frames : OnSide(frames[i]))' BY <1>5, <1>7
<1>9. (\A i, j \in DOMAIN frames :
        j < i /\ frames[i].fn \in Branch \cup {"body"} /\ frames[i].was => OnSide(frames[j]))'
  BY <1>6, <1>7 DEF Branch
<1> QED BY <1>8, <1>9 DEF Run

LEMMA MeaningsStep ==
  ASSUME Graph, Grown, Blocks0, Meanings, NEW m \in Nat, m >= 1, NEW k \in Nat, m <= k, k = Len(frames),
         NEW n \in Nat, n = Len(frames'), n = m \/ n = m + 1, Stay(m),
         NEW lev \in [DOMAIN frames -> Nat], Levels(lev),
         ~ on => \A l \in 1 .. lev[m] : env'[l] = env[l],
         \A i \in 1 .. m : OnSide(frames[i]) \/ ~ on,
         on' => Means(curr)' /\ Ctrl(curr') # Dead,
         n = m + 1 => Pending(frames[m + 1])'
  PROVE  Meanings'
<1>1. frames \in Seq(Frame) /\ DOMAIN frames = 1 .. k /\ DOMAIN frames' = 1 .. n
  BY DEF Blocks0, Stay
<1>2. \A i \in 1 .. m : i \in DOMAIN frames /\ i \in 1 .. k /\ frames[i] \in Frame BY <1>1
<1>3. \A i \in 1 .. n : i \in 1 .. m \/ (i = m + 1 /\ n = m + 1) OBVIOUS
<1>4. ASSUME NEW i \in 1 .. m PROVE Pending(frames[i])'
  <2>1. PICK f : f = frames[i] OBVIOUS
  <2>2. PICK g : g = frames'[i] OBVIOUS
  <2>3. f \in Frame /\ Kin(g, f) BY <1>2, <2>1, <2>2 DEF Stay
  <2>4. Pending(f) BY <1>2, <2>1 DEF Meanings
  <2>7. f.fn = "then" => f.ctrl \in Made' \cup {Live, Dead} BY <2>4, GrownNodes DEF Pending
  <2>5. Pending(f)'
    <3>1. CASE OnSide(f)
      <4>1. /\ f.fn = "then" => f.was /\ f.take
            /\ f.fn \in {"between", "else", "merge"} => f.was /\ ~ f.take
            /\ f.fn = "body" => f.was /\ f.go
        BY <3>1 DEF OnSide
      <4>2. f.fn \in {"between", "else", "merge"} /\ f.cont => f.take BY <2>4 DEF Pending
      <4>3. ~ (f.fn = "then" /\ f.was /\ ~ f.take) BY <4>1
      <4>4. ~ (f.fn \in {"between", "else", "merge"} /\ f.cont) BY <4>1, <4>2
      <4>5. ~ (f.fn = "body" /\ f.was /\ ~ f.go) BY <4>1
      <4> QED BY <2>7, <4>3, <4>4, <4>5 DEF Pending
    <3>2. CASE ~ on
      <4>1. \A sc \in PutAside(f) : Means(sc) => Means(sc)'
        <5> SUFFICES ASSUME NEW sc \in PutAside(f), Means(sc) PROVE Means(sc)' OBVIOUS
        <5>1. i # 1
          <6>1. PutAside(f) # {} OBVIOUS
          <6>2. f.fn # "func" BY <2>3, <6>1, FrameParts
          <6> QED BY <2>1, <6>2 DEF Levels
        <5>2. i \in 2 .. k /\ i - 1 \in 1 .. m /\ i - 1 <= m /\ m \in 1 .. k BY <1>2, <5>1
        <5>3. Laid(sc) /\ Filled(sc) /\ Len(sc.list) = lev[i - 1] BY <2>1, <5>2 DEF Levels
        <5>4. lev[i - 1] <= lev[m] /\ lev[i - 1] \in Nat /\ lev[m] \in Nat
          BY <1>1, <1>2, <5>2 DEF Levels
        <5>5. DOMAIN sc.list = 1 .. lev[i - 1] BY <5>3, LaidParts
        <5>6. \A l \in 1 .. lev[i - 1] : l \in 1 .. lev[m] BY <5>4
        <5>7. \A l \in DOMAIN sc.list : env'[l] = env[l] BY <3>2, <5>5, <5>6
        <5> QED BY <5>3, <5>7, MeansStays
      <4>2. f.fn \in {"then", "between", "else", "merge"} => f.other \in PutAside(f)
        BY <2>3, FrameParts DEF Branch
      <4>3. f.fn = "body" => f.exit \in PutAside(f) BY <2>3, FrameParts
      <4> QED BY <2>4, <2>7, <4>1, <4>2, <4>3 DEF Pending, Ctrl
    <3> QED BY <2>1, <3>1, <3>2
  <2>6. Pending(g)'
    <3>1. CASE g = f BY <2>5, <3>1
    <3>2. CASE f \in BranchFrame /\ f.fn = "between" /\ g = Become(f, "merge")
      <4>1. "merge" \in Branch BY DEF Branch
      <4>2. g.fn = "merge" /\ g.other = f.other /\ g.was = f.was /\ g.take = f.take /\ g.cont = f.cont
        BY <3>2, <4>1, Retagged
      <4> QED BY <2>5, <3>2, <4>2 DEF Pending, Ctrl
    <3> QED BY <2>3, <3>1, <3>2 DEF Kin
  <2> QED BY <2>2, <2>6
<1>5. \A i \in DOMAIN frames' : Pending(frames[i])' BY <1>1, <1>3, <1>4
<1>6. (on /\ frames # <<>> => Means(curr) /\ Ctrl(curr) # Dead)' BY DEF Ctrl
<1>7. (\A i \in DOMAIN frames : Pending(frames[i]))' BY <1>5
<1> QED BY <1>6, <1>7 DEF Meanings

-----------------------------------------------------------------------------
(* What a variable means, and what the scope has for it.                   *)
LEMMA Looked ==
  ASSUME NEW sc, Laid(sc), Filled(sc), NEW x \in Name, Declares(sc, x) # {}
  PROVE  Lookup(sc, x) \in Valued
<1>1. sc \in Scope BY LaidParts
<1>2. x # "@ctrl" BY ScopeAssumption
<1> DEFINE l == Max(Declares(sc, x))
<1>3. l \in Declares(sc, x) /\ \E i \in DOMAIN sc.list[l].cells :
        sc.list[l].cells[i].name = x /\ FoundSlot(sc, x) = sc.list[l].cells[i].slot
  BY Found
<1>4. l \in DOMAIN sc.list BY <1>1, <1>3, Declared
<1> HIDE DEF l
<1>5. FoundSlot(sc, x) \in 2 .. Len(sc.slots) BY <1>2, <1>3, <1>4, CellSlots
<1> QED BY <1>5 DEF Lookup, Filled

LEMMA Understood ==
  ASSUME Laid(curr), Means(curr), Len(env) = Len(curr.list), env \in Seq(Env), NEW x \in Name
  PROVE  /\ Blocks(x) = Declares(curr, x)
         /\ Blocks(x) # {} => val[Lookup(curr, x)] = Meaning(x)
<1>1. curr \in Scope /\ DOMAIN curr.list = 1 .. Len(curr.list) BY LaidParts
<1>2. DOMAIN env = DOMAIN curr.list BY <1>1
<1>3. x # "@ctrl" BY ScopeAssumption
<1>4. \A l \in DOMAIN env : x \in DOMAIN env[l]
                <=> \E i \in DOMAIN curr.list[l].cells : curr.list[l].cells[i].name = x
  <2> TAKE l \in DOMAIN env
  <2>1. DOMAIN env[l] = {y \in Name : \E i \in DOMAIN curr.list[l].cells : curr.list[l].cells[i].name = y}
    BY <1>2 DEF Means
  <2> QED BY <2>1
<1>5. Blocks(x) = Declares(curr, x) BY <1>1, <1>2, <1>4, Declared DEF Blocks
<1>6. ASSUME Blocks(x) # {} PROVE val[Lookup(curr, x)] = Meaning(x)
  <2> DEFINE l == Max(Declares(curr, x))
  <2>1. Declares(curr, x) # {} BY <1>5, <1>6
  <2>2. l \in Declares(curr, x) /\ \E i \in DOMAIN curr.list[l].cells :
          curr.list[l].cells[i].name = x /\ FoundSlot(curr, x) = curr.list[l].cells[i].slot
    BY <2>1, Found
  <2>3. l \in DOMAIN curr.list BY <1>1, <2>2, Declared
  <2>4. Meaning(x) = env[l][x] BY <1>5 DEF Meaning
  <2> HIDE DEF l
  <2>5. PICK i \in DOMAIN curr.list[l].cells :
          curr.list[l].cells[i].name = x /\ FoundSlot(curr, x) = curr.list[l].cells[i].slot
    BY <2>2
  <2>6. val[curr.slots[curr.list[l].cells[i].slot]] = env[l][curr.list[l].cells[i].name]
    BY <1>3, <2>3, <2>5 DEF Means
  <2> QED BY <2>4, <2>5, <2>6 DEF Lookup
<1> QED BY <1>5, <1>6

-----------------------------------------------------------------------------
(* Steps that make no node, and the one node of an expression.             *)
ValOK == /\ val \in [Node -> Node \cup {Null}]
         /\ \A n \in Node : n >= next => val[n] = Null
         /\ \A n \in Valued : val[n] \in Valued /\ val[val[n]] = val[n]
EnvOK == /\ env \in Seq(Env)
         /\ \A l \in DOMAIN env : \A x \in DOMAIN env[l] :
              env[l][x] \in Valued /\ val[env[l][x]] = env[l][x]

LEMMA OpenKept ==
  ASSUME Blocks0, NEW m \in Nat, m >= 1, NEW k \in Nat, m <= k, k = Len(frames),
         NEW n \in Nat, n = Len(frames'), n = m \/ n = m + 1, Stay(m),
         \A i \in m + 1 .. k : frames[i].fn # "body",
         n = m + 1 => frames'[m + 1].fn # "body"
  PROVE  OpenLoops' = OpenLoops
<1>1. frames \in Seq(Frame) /\ DOMAIN frames = 1 .. k /\ DOMAIN frames' = 1 .. n
  BY DEF Blocks0, Stay
<1>2. \A i \in 1 .. m : i \in 1 .. k /\ i \in 1 .. n /\ frames[i] \in Frame BY <1>1
<1>3. \A i \in 1 .. n : i \in 1 .. m \/ (i = m + 1 /\ n = m + 1) OBVIOUS
<1>4. \A i \in 1 .. m : /\ frames'[i].fn = "body" <=> frames[i].fn = "body"
                        /\ frames'[i].fn = "body" => frames'[i] = frames[i]
  BY <1>2, KinParts DEF Stay
<1>5. \A i \in 1 .. k : i \in 1 .. m \/ i \in m + 1 .. k OBVIOUS
<1> DEFINE A == {j \in DOMAIN frames : frames[j].fn = "body"}
           B == {j \in DOMAIN frames' : frames'[j].fn = "body"}
<1>6. A = B BY <1>1, <1>2, <1>3, <1>4, <1>5
<1>7. \A j \in A : frames'[j] = frames[j] BY <1>1, <1>4, <1>5
<1>8. OpenLoops = {Ctrl(frames[i].head) : i \in A} BY DEF OpenLoops
<1>9. OpenLoops' = {Ctrl(frames'[i].head) : i \in B} BY DEF OpenLoops, Ctrl
<1> HIDE DEF A, B
<1> QED BY <1>6, <1>7, <1>8, <1>9

LEMMA Quiet ==
  ASSUME Graph, Values, UNCHANGED <<nodes, next, table, val>>, OpenLoops' = OpenLoops
  PROVE  Graph' /\ Grown /\ ValOK' /\ Valued' = Valued
<1>1. next' = next /\ nodes' = nodes /\ val' = val /\ table' = table OBVIOUS
<1>2. Made' = Made /\ Valued' = Valued BY <1>1 DEF Made, Valued
<1>3. Graph' BY <1>1, <1>2 DEF Graph
<1>4. ValOK' BY <1>1, <1>2 DEF Values, ValOK
<1>5. Grown
  <2>1. next' \in next .. MaxNode + 1
    <3>1. next \in 1 .. MaxNode + 1 /\ MaxNode \in Nat BY ScopeAssumption DEF Graph
    <3> QED BY <1>1, <3>1
  <2>2. \A n \in Node : n >= next /\ nodes'[n].kind = "phi" => nodes'[n].reg >= next
    BY <1>1 DEF Graph, Gone
  <2> QED BY <1>1, <2>1, <2>2 DEF Grown
<1> QED BY <1>2, <1>3, <1>4, <1>5

LEMMA ComputeStep ==
  ASSUME Graph, Values, NEW e \in Expr, Compute(e), table' = table, OpenLoops' = OpenLoops,
         Laid(curr), Filled(curr), Len(env) = Len(curr.list), on => Means(curr), on \in BOOLEAN
  PROVE  /\ Graph' /\ Grown /\ ValOK' /\ Value(e) \in Valued'
         /\ on => Meant(e) \in Valued' /\ val'[Meant(e)] = Meant(e) /\ val'[Value(e)] = Meant(e)
<1>1. CASE e # "new"
  <2>1. UNCHANGED <<nodes, next, table, val>> BY <1>1 DEF Compute
  <2>2. Graph' /\ Grown /\ ValOK' /\ Valued' = Valued BY <2>1, Quiet
  <2>3. e \in Name /\ Declares(curr, e) # {} /\ Value(e) = Lookup(curr, e)
    BY <1>1 DEF Expr, Visible, Value
  <2>4. Value(e) \in Valued BY <2>3, Looked
  <2>5. ASSUME on PROVE Meant(e) = val[Value(e)]
    <3>1. Blocks(e) # {} /\ val[Lookup(curr, e)] = Meaning(e)
      BY <2>3, <2>5, Understood DEF Values
    <3> QED BY <1>1, <2>3, <2>5, <3>1 DEF Meant
  <2>6. val[Value(e)] \in Valued /\ val[val[Value(e)]] = val[Value(e)] BY <2>4 DEF Values
  <2> QED BY <2>1, <2>2, <2>4, <2>5, <2>6
<1>2. CASE e = "new"
  <2>1. next <= MaxNode /\ nodes' = [nodes EXCEPT ![next] = Def] /\ val' = [val EXCEPT ![next] = next]
        /\ next' = next + 1
    BY <1>2 DEF Compute
  <2>2. next \in Nat /\ next >= 1 /\ MaxNode \in Nat /\ next \in Node /\ next # Null
    <3>1. next \in 1 .. MaxNode + 1 /\ MaxNode \in Nat BY ScopeAssumption DEF Graph
    <3> QED BY <2>1, <3>1 DEF Node, Null
  <2>3. nodes \in [Node -> Rec] /\ val \in [Node -> Node \cup {Null}] BY DEF Graph, Values
  <2>4. \A n \in Node : n # next => nodes'[n] = nodes[n] /\ val'[n] = val[n] BY <2>1, <2>3
  <2>5. nodes'[next] = Def /\ val'[next] = next BY <2>1, <2>2, <2>3
  <2>6. Grown
    <3>1. next' \in next .. MaxNode + 1 BY <2>1, <2>2
    <3>2. \A n \in 1 .. next - 1 : n \in Node /\ n # next BY <2>1, <2>2 DEF Node
    <3>3. \A n \in Node : n >= next /\ nodes'[n].kind = "phi" => nodes'[n].reg >= next
      <4> TAKE n \in Node
      <4>1. CASE n = next BY <2>5, <4>1 DEF Def
      <4>2. CASE n # next BY <2>4, <4>2 DEF Graph, Gone
      <4> QED BY <4>1, <4>2
    <3> QED BY <2>4, <3>1, <3>2, <3>3 DEF Grown
  <2>7. Made \subseteq Made' /\ Valued \subseteq Valued' /\ next \in Valued' /\ Made' = Made \cup {next}
    <3>1. Made' = Made \cup {next} BY <2>1, <2>2 DEF Made
    <3> QED BY <2>2, <2>5, <2>6, <3>1, GrownNodes DEF Valued
  <2>8. Valued' = Valued \cup {next}
    <3>1. next \notin Made BY <2>2 DEF Made
    <3>2. \A n \in Made : n # next /\ n \in Node BY <2>6, <3>1, GrownNodes
    <3> QED BY <2>4, <2>7, <3>2 DEF Valued
  <2>9. ValOK'
    <3>1. val' \in [Node -> Node \cup {Null}] BY <2>1, <2>2, <2>3
    <3>2. \A n \in Valued' : val'[n] \in Valued' /\ val'[val'[n]] = val'[n]
      <4> TAKE n \in Valued'
      <4>1. CASE n = next BY <2>5, <2>7, <4>1
      <4>2. CASE n \in Valued
        <5>1. val[n] \in Valued /\ val[val[n]] = val[n] BY <4>2 DEF Values
        <5>2. val'[n] = val[n] /\ val'[val[n]] = val[val[n]] BY <2>6, <4>2, <5>1, GrownNodes
        <5> QED BY <2>7, <5>1, <5>2
      <4> QED BY <2>8, <4>1, <4>2
    <3>3. \A n \in Node : n >= next' => val'[n] = Null
      <4> TAKE n \in Node
      <4> HAVE n >= next'
      <4>1. n >= next /\ n # next BY <2>1, <2>2 DEF Node
      <4> QED BY <2>4, <4>1 DEF Values
    <3> QED BY <3>1, <3>2, <3>3 DEF ValOK
  <2>10. Graph'
    <3>1. next' \in 1 .. MaxNode + 1 BY <2>1, <2>2
    <3>2. Def \in Rec BY DEF Def, Rec, Slots, Null
    <3>3. nodes' \in [Node -> Rec] BY <2>1, <2>3, <3>2
    <3>4. \A n \in Node : n >= next' => nodes'[n] = Gone
      <4> TAKE n \in Node
      <4> HAVE n >= next'
      <4>1. n >= next /\ n # next BY <2>1, <2>2 DEF Node
      <4> QED BY <2>4, <4>1 DEF Graph
    <3>5. \A n \in Node : nodes'[n].kind \in {"region", "loop"} => Len(nodes'[n].args) = 2
      <4> TAKE n \in Node
      <4>1. CASE n = next BY <2>5, <4>1 DEF Def
      <4>2. CASE n # next BY <2>4, <4>2 DEF Graph
      <4> QED BY <4>1, <4>2
    <3>6. ASSUME NEW n \in Node, nodes'[n].kind = "phi"
          PROVE  /\ nodes'[n].reg \in 1 .. n - 1 /\ nodes'[nodes'[n].reg].kind \in {"region", "loop"}
                 /\ Len(nodes'[n].args) = 2
                 /\ n \in Valued'
                 /\ nodes'[n].args[1] \in Valued' /\ nodes'[n].args[2] \in Valued' \cup {Null}
                 /\ nodes'[n].args[2] = Null <=> nodes'[n].reg \in OpenLoops'
      <4>1. n # next BY <2>5, <3>6 DEF Def
      <4>2. nodes'[n] = nodes[n] /\ nodes[n].kind = "phi" BY <2>4, <3>6, <4>1
      <4>3. /\ nodes[n].reg \in 1 .. n - 1 /\ nodes[nodes[n].reg].kind \in {"region", "loop"}
            /\ Len(nodes[n].args) = 2 /\ n \in Valued
            /\ nodes[n].args[1] \in Valued /\ nodes[n].args[2] \in Valued \cup {Null}
            /\ nodes[n].args[2] = Null <=> nodes[n].reg \in OpenLoops
        BY <4>2 DEF Graph
      <4>4. nodes[n].reg \in Node /\ nodes[n].reg # next
        <5>1. n \in 1 .. next - 1 BY <4>3 DEF Valued, Made
        <5> QED BY <2>1, <2>2, <4>3, <5>1 DEF Node
      <4>5. nodes'[nodes[n].reg] = nodes[nodes[n].reg] BY <2>4, <4>4
      <4> QED BY <2>7, <4>2, <4>3, <4>5
    <3>7. \A r \in table' : r.node \in Node /\ r.reg \in Node /\ r.args \in Slots BY DEF Graph
    <3> QED BY <3>1, <3>3, <3>4, <3>5, <3>6, <3>7 DEF Graph
  <2>11. Value(e) = next /\ Meant(e) = next BY <1>2 DEF Value, Meant
  <2> QED BY <2>5, <2>6, <2>7, <2>9, <2>10, <2>11
<1> QED BY <1>1, <1>2

-----------------------------------------------------------------------------
(* The frame on top and the blocks below it.                               *)
LEMMA Tops ==
  ASSUME Blocks0, NEW fs, Top(fs)
  PROVE  /\ frames \in Seq(Frame) /\ Len(frames) \in Nat /\ Len(frames) >= 1
         /\ DOMAIN frames = 1 .. Len(frames) /\ frames # <<>>
         /\ Last(frames) = frames[Len(frames)] /\ Last(frames) \in Frame /\ Last(frames).fn \in fs
         /\ Laid(curr) /\ Filled(curr) /\ Len(env) = Len(curr.list)
         /\ Len(curr.list) \in Nat /\ Len(curr.list) >= 2
         /\ \E lev \in [DOMAIN frames -> Nat] :
              /\ Levels(lev) /\ lev[Len(frames)] = Len(curr.list)
              /\ \A i \in 1 .. Len(frames) : lev[i] \in Nat /\ lev[i] >= 2 /\ lev[i] <= Len(curr.list)
              /\ Last(frames).fn # "func" =>
                   /\ Len(frames) >= 2
                   /\ Len(curr.list) = lev[Len(frames) - 1]
                        + (IF Last(frames).fn \in {"between", "merge"} THEN 0 ELSE 1)
                   /\ \A sc \in PutAside(Last(frames)) :
                        /\ Laid(sc) /\ Filled(sc) /\ Len(sc.list) = lev[Len(frames) - 1]
                        /\ \A l \in 1 .. Len(sc.list) : sc.list[l] = curr.list[l]
              /\ \A i \in 2 .. Len(frames) : lev[i - 1] <= lev[Len(frames) - 1]
              /\ Last(frames).fn = "func" => Len(frames) = 1
<1> DEFINE k == Len(frames)
           z == Len(curr.list)
<1>1. frames \in Seq(Frame) /\ frames # <<>> BY DEF Blocks0, Top
<1>2. k \in Nat /\ k >= 1 /\ DOMAIN frames = 1 .. k BY <1>1
<1>3. Last(frames) = frames[k] BY DEF Last
<1>4. k \in 1 .. k /\ 1 \in 1 .. k BY <1>2
<1>5. frames[k] \in Frame BY <1>1, <1>2, <1>4
<1>6. Laid(curr) /\ Filled(curr) /\ Len(env) = z /\ z \in Nat BY <1>1, LaidParts DEF Blocks0
<1>7. PICK lev \in [DOMAIN frames -> Nat] : Levels(lev) BY <1>1 DEF Blocks0
<1>8. lev[k] = z /\ lev[1] = 2 BY <1>7 DEF Levels
<1> HIDE DEF z
<1>9. \A i \in 1 .. k : lev[i] \in Nat /\ lev[i] >= 2 /\ lev[i] <= z
  <2> TAKE i \in 1 .. k
  <2>1. lev[i] \in Nat BY <1>2, <1>7
  <2>2. lev[1] <= lev[i] /\ lev[i] <= lev[k]
    <3>1. 1 <= i /\ i <= k BY <1>2
    <3> QED BY <1>2, <1>4, <1>7, <3>1 DEF Levels
  <2> QED BY <1>8, <2>1, <2>2
<1>10. z >= 2 BY <1>4, <1>6, <1>8, <1>9
<1>11. ASSUME frames[k].fn # "func"
       PROVE  /\ k >= 2 /\ z = lev[k - 1] + (IF frames[k].fn \in {"between", "merge"} THEN 0 ELSE 1)
              /\ \A sc \in PutAside(frames[k]) :
                        /\ Laid(sc) /\ Filled(sc) /\ Len(sc.list) = lev[k - 1]
                        /\ \A l \in 1 .. Len(sc.list) : sc.list[l] = curr.list[l]
  <2>1. k # 1 BY <1>7, <1>11 DEF Levels
  <2>2. k >= 2 /\ k \in 2 .. k BY <1>2, <2>1
  <2> QED BY <1>7, <1>8, <2>2 DEF Levels
<1>12. \A i \in 2 .. k : lev[i - 1] <= lev[k - 1]
  <2> TAKE i \in 2 .. k
  <2>1. i - 1 \in DOMAIN frames /\ k - 1 \in DOMAIN frames /\ i - 1 <= k - 1 BY <1>2
  <2> QED BY <1>7, <2>1 DEF Levels
<1>13. frames[k].fn = "func" => k = 1
  <2>1. k # 1 => k \in 2 .. k BY <1>2
  <2> QED BY <1>7, <2>1 DEF Levels
<1>14. frames[k].fn \in fs BY <1>3 DEF Top
<1> HIDE DEF k
<1>15. \E lv \in [DOMAIN frames -> Nat] :
              /\ Levels(lv) /\ lv[k] = z
              /\ \A i \in 1 .. k : lv[i] \in Nat /\ lv[i] >= 2 /\ lv[i] <= z
              /\ frames[k].fn # "func" =>
                   /\ k >= 2
                   /\ z = lv[k - 1] + (IF frames[k].fn \in {"between", "merge"} THEN 0 ELSE 1)
                   /\ \A sc \in PutAside(frames[k]) :
                        /\ Laid(sc) /\ Filled(sc) /\ Len(sc.list) = lv[k - 1]
                        /\ \A l \in 1 .. Len(sc.list) : sc.list[l] = curr.list[l]
              /\ \A i \in 2 .. k : lv[i - 1] <= lv[k - 1]
              /\ frames[k].fn = "func" => k = 1
  <2> WITNESS lev \in [DOMAIN frames -> Nat]
  <2> QED BY <1>7, <1>8, <1>9, <1>11, <1>12, <1>13
<1> QED BY <1>1, <1>2, <1>3, <1>5, <1>6, <1>10, <1>14, <1>15 DEF k, z

LEMMA Unmoved ==
  ASSUME frames \in Seq(Frame), Len(frames) \in Nat, Len(frames) >= 1, frames' = frames
  PROVE  Stay(Len(frames)) /\ Len(frames') = Len(frames)
<1>1. Len(frames') = Len(frames) OBVIOUS
<1>2. \A i \in 1 .. Len(frames) : Kin(frames'[i], frames[i]) BY DEF Kin
<1> DEFINE k == Len(frames)
<1>3. k \in 1 .. k OBVIOUS
<1> QED BY <1>1, <1>2, <1>3 DEF Stay

-----------------------------------------------------------------------------
(* What the variables mean, when blocks are opened and names are bound.    *)
LEMMA NoNames ==
  /\ <<>> \in Env /\ DOMAIN <<>> = {}
<1>1. DOMAIN <<>> = {} /\ {} \subseteq Name OBVIOUS
<1>2. <<>> \in [{} -> Node] OBVIOUS
<1> QED BY <1>1, <1>2 DEF Env

LEMMA EnvStays ==
  ASSUME Graph, Grown, Values, env' \in Seq(Env),
         \A l \in DOMAIN env' : (l \in DOMAIN env /\ env'[l] = env[l]) \/ env'[l] = <<>>
  PROVE  EnvOK'
<1>1. ASSUME NEW l \in DOMAIN env', NEW x \in DOMAIN env'[l]
      PROVE  env'[l][x] \in Valued' /\ val'[env'[l][x]] = env'[l][x]
  <2>1. l \in DOMAIN env /\ env'[l] = env[l] BY NoNames
  <2>2. x \in DOMAIN env[l] BY <2>1
  <2>3. env[l][x] \in Valued /\ val[env[l][x]] = env[l][x] BY <2>1, <2>2 DEF Values
  <2>4. env'[l][x] = env[l][x] BY <2>1
  <2> QED BY <2>3, <2>4, GrownNodes
<1> QED BY <1>1 DEF EnvOK

LEMMA Bound ==
  ASSUME Graph, Grown, Values, NEW b \in DOMAIN env, NEW x \in Name, NEW v \in Valued', val'[v] = v,
         on, Valued' \subseteq Node, env' = Bind(b, x, v)
  PROVE  /\ EnvOK' /\ Len(env') = Len(env) /\ DOMAIN env' = DOMAIN env
         /\ \A l \in DOMAIN env : l # b => env'[l] = env[l]
         /\ DOMAIN env'[b] = DOMAIN env[b] \cup {x}
         /\ \A y \in DOMAIN env[b] \cup {x} : env'[b][y] = IF y = x THEN v ELSE env[b][y]
<1> DEFINE w == [y \in DOMAIN env[b] \cup {x} |-> IF y = x THEN v ELSE env[b][y]]
<1>1. env' = [env EXCEPT ![b] = w] BY DEF Bind
<1>2. env \in Seq(Env) /\ DOMAIN env = 1 .. Len(env) /\ Len(env) \in Nat BY DEF Values
<1>3. env[b] \in Env BY <1>2
<1>4. PICK S \in SUBSET Name : env[b] \in [S -> Node] BY <1>3 DEF Env
<1>5. w \in [S \cup {x} -> Node] BY <1>4
<1>6. w \in Env BY <1>5 DEF Env
<1>7. DOMAIN w = DOMAIN env[b] \cup {x}
      /\ \A y \in DOMAIN env[b] \cup {x} : w[y] = IF y = x THEN v ELSE env[b][y]
  OBVIOUS
<1> HIDE DEF w
<1>8. env' \in Seq(Env) /\ Len(env') = Len(env) /\ DOMAIN env' = DOMAIN env /\ env'[b] = w
      /\ \A l \in DOMAIN env : l # b => env'[l] = env[l]
  BY <1>1, <1>2, <1>6
<1>9. ASSUME NEW l \in DOMAIN env', NEW y \in DOMAIN env'[l]
      PROVE  env'[l][y] \in Valued' /\ val'[env'[l][y]] = env'[l][y]
  <2>1. CASE l = b /\ y = x BY <1>7, <1>8, <2>1
  <2>2. CASE ~ (l = b /\ y = x)
    <3>1. y \in DOMAIN env[l] /\ env'[l][y] = env[l][y]
      <4>1. CASE l = b BY <1>7, <1>8, <2>2, <4>1
      <4>2. CASE l # b BY <1>8, <4>2
      <4> QED BY <4>1, <4>2
    <3>2. env[l][y] \in Valued /\ val[env[l][y]] = env[l][y] BY <1>8, <3>1 DEF Values
    <3> QED BY <3>1, <3>2, GrownNodes
  <2> QED BY <2>1, <2>2
<1> QED BY <1>7, <1>8, <1>9 DEF EnvOK

Rebound(b, x, v) ==
  /\ \A l \in DOMAIN env : l # b => env'[l] = env[l]
  /\ DOMAIN env'[b] = DOMAIN env[b] \cup {x}
  /\ \A y \in DOMAIN env[b] \cup {x} : env'[b][y] = IF y = x THEN v ELSE env[b][y]

LEMMA MeansUpdate ==
  ASSUME Graph, Grown, NEW sc, Laid(sc), Filled(sc), Means(sc), DOMAIN env = DOMAIN sc.list,
         NEW x \in Name, Declares(sc, x) # {}, NEW v, NEW n \in Node, val'[n] = v,
         NEW b, b = Max(Declares(sc, x)), Rebound(b, x, v), NEW sd, sd = Update(sc, x, n)
  PROVE  Means(sd)'
<1>1. /\ sd.list = sc.list /\ FoundSlot(sc, x) \in 1 .. Len(sc.slots)
      /\ sd.slots = [sc.slots EXCEPT ![FoundSlot(sc, x)] = n]
  BY Updated
<1>2. sc \in Scope /\ DOMAIN sc.slots = 1 .. Len(sc.slots) BY LaidParts
<1>3. b \in Declares(sc, x) /\ \E i \in DOMAIN sc.list[b].cells :
        sc.list[b].cells[i].name = x /\ FoundSlot(sc, x) = sc.list[b].cells[i].slot
  BY Found
<1>4. b \in DOMAIN sc.list BY <1>2, <1>3, Declared
<1>5. PICK j \in DOMAIN sc.list[b].cells :
        sc.list[b].cells[j].name = x /\ FoundSlot(sc, x) = sc.list[b].cells[j].slot
  BY <1>3
<1>6. x \in DOMAIN env[b]
  <2>1. DOMAIN env[b] = {y \in Name : \E i \in DOMAIN sc.list[b].cells : sc.list[b].cells[i].name = y}
    BY <1>4 DEF Means
  <2> QED BY <1>5, <2>1
<1>7. ASSUME NEW l \in DOMAIN sc.list
      PROVE  DOMAIN env'[l] = {y \in Name : \E i \in DOMAIN sc.list[l].cells : sc.list[l].cells[i].name = y}
  <2>1. DOMAIN env'[l] = DOMAIN env[l]
    <3>1. CASE l = b BY <1>6, <3>1, SMTT(30) DEF Rebound
    <3>2. CASE l # b BY <3>2 DEF Rebound
    <3> QED BY <3>1, <3>2
  <2> QED BY <2>1 DEF Means
<1>8. ASSUME NEW l \in DOMAIN sc.list, NEW i \in DOMAIN sc.list[l].cells,
             sc.list[l].cells[i].name # "@ctrl"
      PROVE  val'[sd.slots[sc.list[l].cells[i].slot]] = env'[l][sc.list[l].cells[i].name]
  <2> DEFINE s == sc.list[l].cells[i].slot
             y == sc.list[l].cells[i].name
  <2>1. /\ s \in 2 .. Len(sc.slots) /\ s \in 1 .. Len(sc.slots)
        /\ s = FoundSlot(sc, x) => l = b /\ i = j
    BY <1>4, <1>5, <1>8, CellSlots, SMTT(30)
  <2>2. y \in DOMAIN env[l] /\ val[sc.slots[s]] = env[l][y]
    <3>1. y \in Name
      <4>1. sc.list[l].cells[i] \in Cell BY <1>2, ScopeParts
      <4> QED BY <1>8, <4>1 DEF Cell
    <3>2. y \in {u \in Name : \E q \in DOMAIN sc.list[l].cells : sc.list[l].cells[q].name = u} BY <3>1
    <3> QED BY <1>8, <3>2 DEF Means
  <2>3. CASE l = b /\ i = j
    <3>1. y = x /\ s = FoundSlot(sc, x) BY <1>5, <2>3
    <3>2. sd.slots[s] = n BY <1>1, <1>2, <2>1, <3>1
    <3>3. env'[l][y] = v BY <2>2, <2>3, <3>1, SMTT(30) DEF Rebound
    <3> QED BY <3>2, <3>3
  <2>4. CASE ~ (l = b /\ i = j)
    <3>1. s # FoundSlot(sc, x) BY <2>1, <2>4
    <3>2. sd.slots[s] = sc.slots[s] BY <1>1, <1>2, <2>1, <3>1
    <3>3. sc.slots[s] \in Valued BY <2>1 DEF Filled
    <3>4. val'[sc.slots[s]] = val[sc.slots[s]] BY <3>3, GrownNodes
    <3>5. env'[l][y] = env[l][y]
      <4>1. CASE l # b BY <4>1, SMTT(30) DEF Rebound
      <4>2. CASE l = b
        <5>1. i # j BY <2>4, <4>2
        <5>2. y # x BY <1>5, <4>2, <5>1 DEF Laid
        <5> QED BY <2>2, <4>2, <5>2 DEF Rebound
      <4> QED BY <4>1, <4>2
    <3> QED BY <2>2, <3>2, <3>4, <3>5
  <2> QED BY <2>3, <2>4
<1>9. \A l \in DOMAIN sd.list :
        DOMAIN env'[l] = {y \in Name : \E i \in DOMAIN sd.list[l].cells : sd.list[l].cells[i].name = y}
  BY <1>1, <1>7
<1>10. \A l \in DOMAIN sd.list : \A i \in DOMAIN sd.list[l].cells :
        sd.list[l].cells[i].name # "@ctrl" =>
          val'[sd.slots[sd.list[l].cells[i].slot]] = env'[l][sd.list[l].cells[i].name]
  <2> SUFFICES ASSUME NEW l \in DOMAIN sd.list, NEW i \in DOMAIN sd.list[l].cells,
                      sd.list[l].cells[i].name # "@ctrl"
               PROVE  val'[sd.slots[sd.list[l].cells[i].slot]] = env'[l][sd.list[l].cells[i].name]
    OBVIOUS
  <2>1. l \in DOMAIN sc.list /\ sd.list[l] = sc.list[l] BY <1>1
  <2> QED BY <1>8, <2>1, ZenonT(40)
<1> QED BY <1>9, <1>10, Zenon DEF Means

LEMMA MeansInsert ==
  ASSUME Graph, Grown, NEW sc, Laid(sc), Filled(sc), Means(sc), DOMAIN env = DOMAIN sc.list,
         NEW x \in Name, Len(sc.list) \notin Declares(sc, x), Len(sc.list) >= 2,
         NEW v, NEW n \in Node, val'[n] = v,
         NEW b, b = Len(sc.list), Rebound(b, x, v), NEW sd, sd = Insert(sc, x, n)
  PROVE  Means(sd)'
<1> DEFINE z == Len(sc.slots)
           old == sc.list[b].cells
           c == [name |-> x, slot |-> z + 1]
<1>1. /\ Len(sd.list) = b /\ Len(sd.slots) = z + 1 /\ sd.slots[z + 1] = n /\ Laid(sd)
      /\ \A s \in 1 .. z : sd.slots[s] = sc.slots[s]
      /\ \A l \in 1 .. b - 1 : sd.list[l] = sc.list[l]
      /\ sd.list[b].cells = Append(old, c)
  <2> DEFINE t == Insert(sc, x, n)
  <2>1. /\ Laid(t)
        /\ Len(t.list) = Len(sc.list)
        /\ Len(t.slots) = Len(sc.slots) + 1 /\ t.slots[Len(t.slots)] = n
        /\ \A s \in 1 .. Len(sc.slots) : t.slots[s] = sc.slots[s]
        /\ \A l \in 1 .. Len(sc.list) - 1 : t.list[l] = sc.list[l]
        /\ t.list[Len(sc.list)].cells
             = Append(sc.list[Len(sc.list)].cells, [name |-> x, slot |-> Len(sc.slots) + 1])
    BY Inserted, Zenon
  <2>2. sd = t OBVIOUS
  <2> HIDE DEF t
  <2> QED BY <2>1, <2>2, SMTT(30)
<1>2. /\ sc \in Scope /\ DOMAIN sc.list = 1 .. b /\ b \in Nat /\ z \in Nat /\ b \in DOMAIN sc.list
      /\ \A l \in 1 .. b : l \in 1 .. b - 1 \/ l = b
      /\ DOMAIN sd.list = 1 .. b
  BY <1>1, LaidParts
<1>3. old \in Seq(Cell) BY <1>2, ScopeParts
<1>4. c \in Cell BY <1>2 DEF Cell
<1>5. /\ DOMAIN Append(old, c) = 1 .. Len(old) + 1 /\ Append(old, c)[Len(old) + 1] = c
      /\ \A i \in 1 .. Len(old) + 1 : i \in DOMAIN old \/ i = Len(old) + 1
      /\ \A i \in DOMAIN old : i \in 1 .. Len(old) + 1 /\ Append(old, c)[i] = old[i]
      /\ Len(old) + 1 \in 1 .. Len(old) + 1
  <2> HIDE DEF old, c
  <2>1. Len(old) \in Nat /\ DOMAIN old = 1 .. Len(old) BY <1>3
  <2> QED BY <1>3, <1>4, <2>1
<1>6. c.name = x /\ c.slot = z + 1 OBVIOUS
<1>7. \A i \in DOMAIN old : old[i].name # x BY <1>2, Declared
<1>8. ASSUME NEW l \in DOMAIN sc.list, NEW i \in DOMAIN sc.list[l].cells,
             sc.list[l].cells[i].name # "@ctrl"
      PROVE  /\ val'[sd.slots[sc.list[l].cells[i].slot]] = env'[l][sc.list[l].cells[i].name]
  <2> DEFINE s == sc.list[l].cells[i].slot
             y == sc.list[l].cells[i].name
  <2>1. s \in 2 .. z /\ s \in 1 .. z BY <1>8, CellSlots, SMTT(30)
  <2>2. y \in DOMAIN env[l] /\ val[sc.slots[s]] = env[l][y]
    <3>1. y \in Name
      <4>1. sc.list[l].cells[i] \in Cell BY <1>2, ScopeParts
      <4> QED BY <1>8, <4>1 DEF Cell
    <3>2. y \in {u \in Name : \E q \in DOMAIN sc.list[l].cells : sc.list[l].cells[q].name = u} BY <3>1, SMTT(30)
    <3> QED BY <1>8, <3>2 DEF Means
  <2>3. sd.slots[s] = sc.slots[s] BY <1>1, <2>1
  <2>4. sc.slots[s] \in Valued BY <2>1 DEF Filled
  <2>5. val'[sc.slots[s]] = val[sc.slots[s]] BY <2>4, GrownNodes
  <2>6. env'[l][y] = env[l][y]
    <3>1. CASE l # b BY <3>1, SMTT(30) DEF Rebound
    <3>2. CASE l = b
      <4>1. y # x BY <1>7, <3>2
      <4> QED BY <2>2, <3>2, <4>1 DEF Rebound
    <3> QED BY <3>1, <3>2
  <2> QED BY <2>2, <2>3, <2>5, <2>6
<1>9. env'[b][x] = v BY SMTT(30) DEF Rebound
<1> HIDE DEF c, old
<1>10. ASSUME NEW l \in 1 .. b
       PROVE  /\ DOMAIN env'[l] = {y \in Name : \E i \in DOMAIN sd.list[l].cells : sd.list[l].cells[i].name = y}
              /\ \A i \in DOMAIN sd.list[l].cells : sd.list[l].cells[i].name # "@ctrl" =>
                   val'[sd.slots[sd.list[l].cells[i].slot]] = env'[l][sd.list[l].cells[i].name]
  <2>1. CASE l \in 1 .. b - 1
    <3>1. sd.list[l] = sc.list[l] /\ l \in DOMAIN sc.list /\ l # b BY <1>1, <1>2, <2>1
    <3>2. env'[l] = env[l] BY <3>1 DEF Rebound
    <3>3. DOMAIN env[l] = {y \in Name : \E i \in DOMAIN sc.list[l].cells : sc.list[l].cells[i].name = y}
      BY <3>1 DEF Means
    <3>4. DOMAIN env'[l] = {y \in Name : \E i \in DOMAIN sd.list[l].cells : sd.list[l].cells[i].name = y}
      BY <3>1, <3>2, <3>3
    <3>5. ASSUME NEW i \in DOMAIN sd.list[l].cells, sd.list[l].cells[i].name # "@ctrl"
          PROVE  val'[sd.slots[sd.list[l].cells[i].slot]] = env'[l][sd.list[l].cells[i].name]
      BY <1>8, <3>1, <3>5, ZenonT(40)
    <3> QED BY <3>4, <3>5
  <2>2. CASE l = b
    <3>1. DOMAIN env[b] = {y \in Name : \E i \in DOMAIN old : old[i].name = y}
      BY <1>2 DEF Means, old
    <3>2. DOMAIN env'[b] = DOMAIN env[b] \cup {x} BY DEF Rebound
    <3> DEFINE q == Append(old, c)
    <3>3. sd.list[b].cells = q BY <1>1
    <3>6. /\ DOMAIN q = 1 .. Len(old) + 1 /\ q[Len(old) + 1] = c
          /\ \A i \in 1 .. Len(old) + 1 : i \in DOMAIN old \/ i = Len(old) + 1
          /\ \A i \in DOMAIN old : i \in 1 .. Len(old) + 1 /\ q[i] = old[i]
          /\ Len(old) + 1 \in 1 .. Len(old) + 1
      BY <1>5
    <3> HIDE DEF q
    <3>4. DOMAIN env'[b] = {y \in Name : \E i \in DOMAIN q : q[i].name = y}
      BY <1>6, <3>1, <3>2, <3>6
    <3>5. ASSUME NEW i \in DOMAIN q, q[i].name # "@ctrl"
          PROVE  val'[sd.slots[q[i].slot]] = env'[b][q[i].name]
      <4>1. CASE i \in DOMAIN old
        <5>1. q[i] = old[i] BY <3>6, <4>1
        <5>2. i \in DOMAIN sc.list[b].cells /\ old[i] = sc.list[b].cells[i] BY <4>1 DEF old
        <5>3. val'[sd.slots[sc.list[b].cells[i].slot]] = env'[b][sc.list[b].cells[i].name]
          <6>1. sc.list[b].cells[i].name # "@ctrl" BY <3>5, <5>1, <5>2
          <6> QED BY <1>2, <1>8, <5>2, <6>1
        <5> QED BY <5>1, <5>2, <5>3
      <4>2. CASE i = Len(old) + 1 BY <1>1, <1>6, <1>9, <3>6, <4>2
      <4> QED BY <3>6, <4>1, <4>2
    <3> QED BY <2>2, <3>3, <3>4, <3>5
  <2> QED BY <1>2, <2>1, <2>2
<1>11. \A l \in DOMAIN sd.list :
        DOMAIN env'[l] = {y \in Name : \E i \in DOMAIN sd.list[l].cells : sd.list[l].cells[i].name = y}
  BY <1>2, <1>10
<1>12. \A l \in DOMAIN sd.list : \A i \in DOMAIN sd.list[l].cells :
        sd.list[l].cells[i].name # "@ctrl" =>
          val'[sd.slots[sd.list[l].cells[i].slot]] = env'[l][sd.list[l].cells[i].name]
  <2> SUFFICES ASSUME NEW l \in DOMAIN sd.list, NEW i \in DOMAIN sd.list[l].cells,
                      sd.list[l].cells[i].name # "@ctrl"
               PROVE  val'[sd.slots[sd.list[l].cells[i].slot]] = env'[l][sd.list[l].cells[i].name]
    OBVIOUS
  <2>1. l \in 1 .. b BY <1>2
  <2> QED BY <1>10, <2>1
<1> QED BY <1>11, <1>12, Zenon DEF Means

LEMMA Below ==
  ASSUME NEW a \in Nat, NEW b \in Nat, NEW z \in Nat, a <= b, z = b + 1, NEW l \in 1 .. a
  PROVE  l \in 1 .. z - 1
OBVIOUS

(* A statement that opens and closes nothing.                              *)
LEMMA SameBlocks ==
  ASSUME IInv, Top(InBlock), frames' = frames, Graph', Grown, ValOK', EnvOK', Rest',
         Laid(curr'), Filled(curr)', Len(curr'.list) = Len(curr.list), Len(env') = Len(env),
         \A l \in 1 .. Len(curr.list) - 1 : curr'.list[l] = curr.list[l],
         ~ on => env' = env, on' => on, on' => Means(curr)' /\ Ctrl(curr') # Dead
  PROVE  IInv'
<1> DEFINE k == Len(frames)
<1>1. /\ frames \in Seq(Frame) /\ k \in Nat /\ k >= 1 /\ DOMAIN frames = 1 .. k /\ frames # <<>>
      /\ Last(frames).fn \in InBlock /\ Last(frames) \in Frame
      /\ Len(env) = Len(curr.list) /\ Len(curr.list) \in Nat
  BY Tops DEF IInv
<1>2. PICK lev \in [DOMAIN frames -> Nat] :
              /\ Levels(lev) /\ lev[k] = Len(curr.list)
              /\ \A i \in 1 .. k : lev[i] \in Nat /\ lev[i] >= 2 /\ lev[i] <= Len(curr.list)
              /\ Last(frames).fn # "func" =>
                   /\ k >= 2
                   /\ Len(curr.list) = lev[k - 1]
                        + (IF Last(frames).fn \in {"between", "merge"} THEN 0 ELSE 1)
              /\ \A i \in 2 .. k : lev[i - 1] <= lev[k - 1]
              /\ Last(frames).fn = "func" => k = 1
  BY Tops DEF IInv
<1>3. Stay(k) /\ Len(frames') = k BY <1>1, Unmoved
<1>20. k \in Nat /\ k >= 1 BY <1>1
<1> HIDE DEF k
<1>4. k <= k /\ k + 1 # k BY <1>20
<1>5. \A i \in 2 .. k : \A l \in 1 .. lev[i - 1] : curr'.list[l] = curr.list[l]
  <2> SUFFICES ASSUME NEW i \in 2 .. k, NEW l \in 1 .. lev[i - 1] PROVE curr'.list[l] = curr.list[l]
    OBVIOUS
  <2>1. k # 1 /\ i - 1 \in 1 .. k /\ k - 1 \in 1 .. k BY <1>1
  <2>2. Last(frames).fn # "func" BY <1>2, <2>1
  <2>3. Last(frames).fn \notin {"between", "merge"} BY <1>1 DEF InBlock
  <2>4. Len(curr.list) = lev[k - 1] + 1 BY <1>2, <2>2, <2>3
  <2>5. lev[i - 1] <= lev[k - 1] /\ lev[i - 1] \in Nat /\ lev[k - 1] \in Nat BY <1>2, <2>1
  <2>6. l \in 1 .. Len(curr.list) - 1 BY <1>1, <2>4, <2>5, Below
  <2> QED BY <2>6
<1>6. Graph /\ Blocks0 /\ Loops /\ Run /\ Meanings /\ Values BY DEF IInv
<1>7. \A sc : Filled(sc) => Filled(sc)' BY <1>6, FilledStays
<1>8. \A i \in 1 .. k : OnSide(frames[i]) \/ ~ on BY <1>1, <1>6, Zenon DEF Run
<1>9. ~ on => \A l \in 1 .. lev[k] : env'[l] = env[l] OBVIOUS
<1>10. Blocks0'
  <2>1. Len(curr'.list) = lev[k] /\ Len(env') = Len(curr'.list) BY <1>1, <1>2, SMTT(30)
  <2> QED BY <1>1, <1>2, <1>3, <1>4, <1>5, <1>6, <1>7, <2>1, BlocksStep, Zenon DEF k
<1>11. Loops' BY <1>1, <1>2, <1>3, <1>4, <1>6, <1>8, <1>9, LoopsStep, ZenonT(40) DEF k
<1>12. Run'
  <2>1. on' => \A i \in 1 .. k : OnSide(frames[i]) BY <1>8, SMTT(30)
  <2> QED BY <1>1, <1>3, <1>4, <1>6, <2>1, RunStep, Zenon DEF k
<1>13. Meanings' BY <1>1, <1>2, <1>3, <1>4, <1>6, <1>8, <1>9, MeaningsStep, Zenon DEF k
<1>14. Values' BY DEF ValOK, EnvOK, Values
<1> QED BY <1>10, <1>11, <1>12, <1>13, <1>14 DEF IInv

LEMMA Reading ==
  ASSUME IInv, NEW fs, ReadIn(fs), fault' = fault, on' = on
  PROVE  Top(fs) /\ Rest'
<1>1. Top(fs) /\ read < MaxStmt /\ read' = read + 1 BY DEF ReadIn
<1>2. read \in 0 .. MaxStmt /\ MaxStmt \in Nat /\ fault = "none" /\ on \in BOOLEAN
  BY ScopeAssumption DEF IInv, Rest
<1>3. read' \in 0 .. MaxStmt BY <1>1, <1>2
<1> QED BY <1>1, <1>2, <1>3 DEF Rest

LEMMA Binding ==
  ASSUME IInv, Graph', Grown, ValOK', NEW x \in Name, NEW e \in Expr, NEW b \in DOMAIN env,
         on => env' = Bind(b, x, Meant(e)), ~ on => env' = env,
         on => Meant(e) \in Valued' /\ val'[Meant(e)] = Meant(e)
  PROVE  /\ EnvOK' /\ Len(env') = Len(env)
         /\ on => Rebound(b, x, Meant(e))
<1>1. Graph /\ Values BY DEF IInv
<1>2. CASE ~ on
  <2>1. env' = env BY <1>2
  <2>2. env' \in Seq(Env) /\ \A l \in DOMAIN env' : l \in DOMAIN env /\ env'[l] = env[l]
    BY <1>1, <2>1 DEF Values
  <2> QED BY <1>1, <1>2, <2>1, <2>2, EnvStays
<1>3. CASE on
  <2>1. Valued' \subseteq Node
    <3>1. next' \in 1 .. MaxNode + 1 /\ MaxNode \in Nat BY ScopeAssumption DEF Graph
    <3> QED BY <3>1 DEF Valued, Made, Node
  <2>2. env' = Bind(b, x, Meant(e)) /\ Meant(e) \in Valued' /\ val'[Meant(e)] = Meant(e) BY <1>3
  <2> QED BY <1>1, <1>3, <2>1, <2>2, Bound DEF Rebound
<1> QED BY <1>2, <1>3

LEMMA GivenOld ==
  ASSUME IInv, Statement, NEW x \in Name, NEW e \in Expr, Compute(e),
         UNCHANGED <<table, frames, fault, on>>, Declares(curr, x) # {},
         NEW b, b = Max(Declares(curr, x)), curr' = Update(curr, x, Value(e)),
         on => env' = Bind(b, x, Meant(e)), ~ on => env' = env
  PROVE  IInv'
<1>1. Graph /\ Values /\ Meanings /\ on \in BOOLEAN /\ Blocks0 BY DEF IInv, Rest
<1>2. Top(InBlock) /\ Rest' BY Reading DEF Statement
<1>3. Laid(curr) /\ Filled(curr) /\ Len(env) = Len(curr.list) /\ frames # <<>>
      /\ Len(curr.list) \in Nat /\ Len(curr.list) >= 2
  BY <1>1, <1>2, Tops
<1>4. on => Means(curr) /\ Ctrl(curr) # Dead BY <1>1, <1>3 DEF Meanings
<1>5. OpenLoops' = OpenLoops BY DEF OpenLoops, Ctrl
<1>6. /\ Graph' /\ Grown /\ ValOK' /\ Value(e) \in Valued'
      /\ on => Meant(e) \in Valued' /\ val'[Meant(e)] = Meant(e) /\ val'[Value(e)] = Meant(e)
  BY <1>1, <1>3, <1>4, <1>5, ComputeStep
<1>7. curr \in Scope /\ env \in Seq(Env) /\ DOMAIN curr.list = 1 .. Len(curr.list)
      /\ DOMAIN curr.slots = 1 .. Len(curr.slots) /\ Len(curr.slots) >= 1 /\ Len(curr.slots) \in Nat
  BY <1>1, <1>3, LaidParts DEF Values
<1>8. DOMAIN env = DOMAIN curr.list BY <1>3, <1>7
<1>9. b \in DOMAIN env
  <2>1. b \in Declares(curr, x) BY <1>3, Found
  <2> QED BY <1>7, <1>8, <2>1, Declared
<1>10. EnvOK' /\ Len(env') = Len(env) /\ (on => Rebound(b, x, Meant(e)))
  BY <1>6, <1>9, Binding
<1>11. Value(e) \in Node
  <2>1. next' \in 1 .. MaxNode + 1 /\ MaxNode \in Nat BY <1>6, ScopeAssumption DEF Graph
  <2> QED BY <1>6, <2>1 DEF Valued, Made, Node
<1>12. /\ Laid(curr') /\ curr'.list = curr.list /\ FoundSlot(curr, x) \in 1 .. Len(curr.slots)
       /\ FoundSlot(curr, x) # 1 /\ curr'.slots = [curr.slots EXCEPT ![FoundSlot(curr, x)] = Value(e)]
       /\ Len(curr'.slots) = Len(curr.slots)
  <2>1. x # "@ctrl" BY ScopeAssumption
  <2> QED BY <1>3, <1>11, <2>1, Updated
<1>13. curr'.slots[1] = curr.slots[1] BY <1>7, <1>12
<1>14. Filled(curr)'
  <2>1. curr'.slots[1] \in Made' \cup {Live, Dead} BY <1>1, <1>3, <1>6, <1>13, GrownNodes DEF Filled
  <2>2. ASSUME NEW s \in 2 .. Len(curr'.slots) PROVE curr'.slots[s] \in Valued'
    <3>1. s \in 2 .. Len(curr.slots) /\ s \in DOMAIN curr.slots BY <1>7, <1>12
    <3>2. curr'.slots[s] = IF s = FoundSlot(curr, x) THEN Value(e) ELSE curr.slots[s]
      BY <1>12, <3>1
    <3>3. curr.slots[s] \in Valued BY <1>3, <3>1 DEF Filled
    <3> QED BY <1>1, <1>6, <3>2, <3>3, GrownNodes
  <2> QED BY <2>1, <2>2 DEF Filled
<1>15. on => Means(curr)'
  <2> SUFFICES ASSUME on PROVE Means(curr)' OBVIOUS
  <2>1. PICK sd : sd = curr' OBVIOUS
  <2>2. sd = Update(curr, x, Value(e)) BY <2>1
  <2>3. Means(sd)'
    <3>1. PICK sc : sc = curr OBVIOUS
    <3>2. PICK n : n = Value(e) OBVIOUS
    <3>3. PICK v : v = Meant(e) OBVIOUS
    <3>4. Laid(sc) /\ Filled(sc) /\ Means(sc) /\ DOMAIN env = DOMAIN sc.list /\ Declares(sc, x) # {}
          /\ n \in Node /\ val'[n] = v /\ b = Max(Declares(sc, x)) /\ Rebound(b, x, v)
          /\ sd = Update(sc, x, n)
      BY <1>3, <1>4, <1>6, <1>8, <1>10, <1>11, <2>2, <3>1, <3>2, <3>3
    <3> QED BY <1>1, <1>6, <3>4, MeansUpdate
  <2> QED BY <2>1, <2>3
<1>16. on' => Means(curr)' /\ Ctrl(curr') # Dead BY <1>4, <1>13, <1>15 DEF Ctrl
<1> QED BY <1>2, <1>6, <1>10, <1>12, <1>14, <1>16, SameBlocks

LEMMA GivenNew ==
  ASSUME IInv, Statement, NEW x \in Name, NEW e \in Expr, Compute(e),
         UNCHANGED <<table, frames, fault, on>>, Len(curr.list) \notin Declares(curr, x),
         NEW b, b = Len(curr.list), curr' = Insert(curr, x, Value(e)),
         on => env' = Bind(b, x, Meant(e)), ~ on => env' = env
  PROVE  IInv'
<1>1. Graph /\ Values /\ Meanings /\ on \in BOOLEAN /\ Blocks0 BY DEF IInv, Rest
<1>2. Top(InBlock) /\ Rest' BY Reading DEF Statement
<1>3. Laid(curr) /\ Filled(curr) /\ Len(env) = Len(curr.list) /\ frames # <<>>
      /\ Len(curr.list) \in Nat /\ Len(curr.list) >= 2
  BY <1>1, <1>2, Tops
<1>4. on => Means(curr) /\ Ctrl(curr) # Dead BY <1>1, <1>3 DEF Meanings
<1>5. OpenLoops' = OpenLoops BY DEF OpenLoops, Ctrl
<1>6. /\ Graph' /\ Grown /\ ValOK' /\ Value(e) \in Valued'
      /\ on => Meant(e) \in Valued' /\ val'[Meant(e)] = Meant(e) /\ val'[Value(e)] = Meant(e)
  BY <1>1, <1>3, <1>4, <1>5, ComputeStep
<1>7. curr \in Scope /\ env \in Seq(Env) /\ DOMAIN curr.list = 1 .. Len(curr.list)
      /\ DOMAIN curr.slots = 1 .. Len(curr.slots) /\ Len(curr.slots) >= 1 /\ Len(curr.slots) \in Nat
  BY <1>1, <1>3, LaidParts DEF Values
<1>8. DOMAIN env = DOMAIN curr.list BY <1>3, <1>7
<1>9. b \in DOMAIN env BY <1>3, <1>7, <1>8
<1>10. EnvOK' /\ Len(env') = Len(env) /\ (on => Rebound(b, x, Meant(e)))
  BY <1>6, <1>9, Binding
<1>11. Value(e) \in Node
  <2>1. next' \in 1 .. MaxNode + 1 /\ MaxNode \in Nat BY <1>6, ScopeAssumption DEF Graph
  <2> QED BY <1>6, <2>1 DEF Valued, Made, Node
<1>12. /\ Laid(curr') /\ Len(curr'.list) = Len(curr.list)
       /\ Len(curr'.slots) = Len(curr.slots) + 1 /\ curr'.slots[Len(curr'.slots)] = Value(e)
       /\ \A s \in 1 .. Len(curr.slots) : curr'.slots[s] = curr.slots[s]
       /\ \A l \in 1 .. Len(curr.list) - 1 : curr'.list[l] = curr.list[l]
  BY <1>3, <1>11, Inserted, ZenonT(40)
<1>13. curr'.slots[1] = curr.slots[1] BY <1>7, <1>12
<1>14. Filled(curr)'
  <2>1. curr'.slots[1] \in Made' \cup {Live, Dead} BY <1>1, <1>3, <1>6, <1>13, GrownNodes DEF Filled
  <2>2. ASSUME NEW s \in 2 .. Len(curr'.slots) PROVE curr'.slots[s] \in Valued'
    <3>1. CASE s = Len(curr'.slots) BY <1>6, <1>12, <3>1
    <3>2. CASE s # Len(curr'.slots)
      <4>1. s \in 2 .. Len(curr.slots) /\ s \in 1 .. Len(curr.slots) BY <1>7, <1>12, <3>2
      <4>2. curr'.slots[s] = curr.slots[s] /\ curr.slots[s] \in Valued BY <1>3, <1>12, <4>1 DEF Filled
      <4> QED BY <1>1, <1>6, <4>2, GrownNodes
    <3> QED BY <3>1, <3>2
  <2> QED BY <2>1, <2>2 DEF Filled
<1>15. on => Means(curr)'
  <2> SUFFICES ASSUME on PROVE Means(curr)' OBVIOUS
  <2>1. PICK sd : sd = curr' OBVIOUS
  <2>2. sd = Insert(curr, x, Value(e)) BY <2>1
  <2>3. Means(sd)'
    <3>1. PICK sc : sc = curr OBVIOUS
    <3>2. PICK n : n = Value(e) OBVIOUS
    <3>3. PICK v : v = Meant(e) OBVIOUS
    <3>4. Laid(sc) /\ Filled(sc) /\ Means(sc) /\ DOMAIN env = DOMAIN sc.list
          /\ Len(sc.list) \notin Declares(sc, x) /\ Len(sc.list) >= 2
          /\ n \in Node /\ val'[n] = v /\ b = Len(sc.list) /\ Rebound(b, x, v)
          /\ sd = Insert(sc, x, n)
      BY <1>3, <1>4, <1>6, <1>8, <1>10, <1>11, <2>2, <3>1, <3>2, <3>3
    <3> QED BY <1>1, <1>6, <3>4, MeansInsert
  <2> QED BY <2>1, <2>3
<1>16. on' => Means(curr)' /\ Ctrl(curr') # Dead BY <1>4, <1>13, <1>15 DEF Ctrl
<1> QED BY <1>2, <1>6, <1>10, <1>12, <1>14, <1>16, SameBlocks

LEMMA DeclareStep ==
  ASSUME IInv, NEW x \in Name, NEW e \in Expr, Declare(x, e)
  PROVE  IInv'
<1>1. /\ Statement /\ Compute(e) /\ curr' = Insert(curr, x, Value(e))
      /\ env' = Bind(Len(env), x, Meant(e)) /\ UNCHANGED <<table, frames, fault, on>>
  BY DEF Declare
<1>2. Blocks0 /\ Top(InBlock) BY <1>1 DEF IInv, Statement, ReadIn
<1>3. Laid(curr) /\ Len(env) = Len(curr.list) /\ Len(curr.list) \in Nat BY <1>2, Tops
<1>4. ~ on => env' = env BY <1>1 DEF Bind
<1>5. CASE Len(curr.list) \in Declares(curr, x)
  <2>1. curr' = Update(curr, x, Value(e)) BY <1>1, <1>5 DEF Insert
  <2>2. Max(Declares(curr, x)) \in Declares(curr, x)
        /\ Len(curr.list) <= Max(Declares(curr, x)) BY <1>3, <1>5, Found
  <2>3. curr \in Scope /\ DOMAIN curr.list = 1 .. Len(curr.list) BY <1>3, LaidParts
  <2>4. Max(Declares(curr, x)) \in 1 .. Len(curr.list) BY <2>2, <2>3, Declared
  <2>5. Len(curr.list) = Max(Declares(curr, x)) BY <1>3, <2>2, <2>4
  <2> QED BY <1>1, <1>3, <1>4, <1>5, <2>1, <2>5, GivenOld
<1>6. CASE Len(curr.list) \notin Declares(curr, x) BY <1>1, <1>3, <1>4, <1>6, GivenNew
<1> QED BY <1>5, <1>6

LEMMA AssignStep ==
  ASSUME IInv, NEW x \in Name, NEW e \in Expr, Assign(x, e)
  PROVE  IInv'
<1>1. /\ Statement /\ x \in Visible(curr) /\ Compute(e) /\ curr' = Update(curr, x, Value(e))
      /\ env' = (IF on THEN Bind(Max(Blocks(x)), x, Meant(e)) ELSE env)
      /\ UNCHANGED <<table, frames, fault, on>>
  BY DEF Assign
<1>2. Blocks0 /\ Top(InBlock) /\ Meanings /\ Values BY <1>1 DEF IInv, Statement, ReadIn
<1>3. Laid(curr) /\ Len(env) = Len(curr.list) /\ frames # <<>> BY <1>2, Tops
<1>4. Declares(curr, x) # {} BY <1>1 DEF Visible
<1>5. on => Blocks(x) = Declares(curr, x) BY <1>2, <1>3, Understood DEF Meanings, Values
<1>6. on => env' = Bind(Max(Declares(curr, x)), x, Meant(e)) BY <1>1, <1>5
<1>7. ~ on => env' = env BY <1>1
<1> QED BY <1>1, <1>4, <1>6, <1>7, GivenOld

LEMMA NewControl ==
  ASSUME NEW sc, Laid(sc), NEW c \in Node \cup {Live, Dead}
  PROVE  /\ Laid(SetCtrl(sc, c)) /\ SetCtrl(sc, c).list = sc.list
         /\ Len(SetCtrl(sc, c).slots) = Len(sc.slots) /\ Ctrl(SetCtrl(sc, c)) = c
         /\ SetCtrl(sc, c).slots[1] = c
         /\ \A s \in 2 .. Len(sc.slots) : SetCtrl(sc, c).slots[s] = sc.slots[s]
<1> DEFINE r == [sc.slots EXCEPT ![1] = c]
           sd == [slots |-> r, list |-> sc.list]
<1>1. /\ sc \in Scope /\ Len(sc.slots) \in Nat /\ Len(sc.slots) >= 1 /\ DOMAIN sc.slots = 1 .. Len(sc.slots)
      /\ sc.slots \in Slots /\ sc.list \in Seq(Data)
  BY LaidParts DEF Scope
<1>2. SetCtrl(sc, c) = sd BY <1>1, ScopeParts DEF SetCtrl
<1>3. /\ r \in Slots /\ Len(r) = Len(sc.slots) /\ r[1] = c
      /\ \A s \in 2 .. Len(sc.slots) : r[s] = sc.slots[s]
  BY <1>1 DEF Slots
<1> HIDE DEF r
<1>4. sd \in Scope /\ sd.list = sc.list /\ sd.slots = r BY <1>1, <1>3 DEF Scope
<1>5. Laid(sd) BY <1>3, <1>4, SameShape
<1> QED BY <1>2, <1>3, <1>4, <1>5 DEF Ctrl

LEMMA ReturnStep ==
  ASSUME IInv, Return
  PROVE  IInv'
<1>1. /\ Statement /\ curr' = SetCtrl(curr, Dead) /\ on' = FALSE
      /\ UNCHANGED <<nodes, next, table, frames, fault, val, env>>
  BY DEF Return
<1>2. Graph /\ Values /\ Blocks0 BY DEF IInv
<1>3. Top(InBlock) /\ Rest'
  <2>1. Top(InBlock) /\ read < MaxStmt /\ read' = read + 1 BY <1>1 DEF Statement, ReadIn
  <2>2. read \in 0 .. MaxStmt /\ MaxStmt \in Nat /\ fault = "none" BY ScopeAssumption DEF IInv, Rest
  <2>3. read' \in 0 .. MaxStmt BY <2>1, <2>2
  <2> QED BY <1>1, <2>1, <2>2, <2>3 DEF Rest
<1>4. Laid(curr) /\ Filled(curr) BY <1>2, <1>3, Tops
<1>5. OpenLoops' = OpenLoops BY <1>1 DEF OpenLoops, Ctrl
<1>6. Graph' /\ Grown /\ ValOK' /\ Valued' = Valued BY <1>1, <1>2, <1>5, Quiet
<1>7. EnvOK'
  <2>1. env' \in Seq(Env) /\ \A l \in DOMAIN env' : l \in DOMAIN env /\ env'[l] = env[l]
    BY <1>1, <1>2 DEF Values
  <2> QED BY <1>2, <1>6, <2>1, EnvStays
<1>8. /\ Laid(curr') /\ curr'.list = curr.list /\ Len(curr'.slots) = Len(curr.slots)
      /\ curr'.slots[1] = Dead /\ \A s \in 2 .. Len(curr.slots) : curr'.slots[s] = curr.slots[s]
  BY <1>1, <1>4, NewControl
<1>9. Filled(curr)' BY <1>4, <1>6, <1>8 DEF Filled
<1>10. \A l \in 1 .. Len(curr.list) - 1 : curr'.list[l] = curr.list[l] BY <1>8
<1> QED BY <1>1, <1>3, <1>6, <1>7, <1>8, <1>9, <1>10, SameBlocks

-----------------------------------------------------------------------------
(* Steps that open or close a block and make no node.                      *)
LEMMA StayPush ==
  ASSUME frames \in Seq(Frame), NEW k \in Nat, k >= 1, k = Len(frames), NEW f \in Frame,
         frames' = Append(frames, f)
  PROVE  Stay(k) /\ Len(frames') = k + 1 /\ frames'[k + 1] = f
<1>1. frames' \in Seq(Frame) /\ Len(frames') = k + 1 /\ frames'[k + 1] = f
      /\ \A i \in 1 .. k : frames'[i] = frames[i]
  OBVIOUS
<1>2. \A i \in 1 .. k : Kin(frames'[i], frames[i]) BY <1>1 DEF Kin
<1>3. k \in 1 .. k OBVIOUS
<1> QED BY <1>1, <1>2, <1>3 DEF Stay

LEMMA StayTop ==
  ASSUME frames \in Seq(Frame), NEW k \in Nat, k >= 2, k = Len(frames), NEW f \in Frame,
         frames' = SetTop(f)
  PROVE  Stay(k - 1) /\ Len(frames') = k /\ frames'[k] = f
<1>1. frames' \in Seq(Frame) /\ Len(frames') = k /\ frames'[k] = f
      /\ \A i \in 1 .. k : i # k => frames'[i] = frames[i]
  BY DEF SetTop
<1>2. k - 1 \in 1 .. k /\ (k - 1) + 1 = k /\ \A i \in 1 .. k - 1 : i \in 1 .. k /\ i # k OBVIOUS
<1>3. \A i \in 1 .. k - 1 : Kin(frames'[i], frames[i]) BY <1>1, <1>2 DEF Kin
<1> QED BY <1>1, <1>2, <1>3 DEF Stay

LEMMA StayPop ==
  ASSUME frames \in Seq(Frame), NEW k \in Nat, k >= 2, k = Len(frames), frames' = Front(frames)
  PROVE  Stay(k - 1) /\ Len(frames') = k - 1
<1>1. frames' \in Seq(Frame) /\ Len(frames') = k - 1
      /\ \A i \in 1 .. k - 1 : frames'[i] = frames[i]
  BY DEF Front
<1>2. k - 1 \in 1 .. k OBVIOUS
<1>3. \A i \in 1 .. k - 1 : Kin(frames'[i], frames[i]) BY <1>1 DEF Kin
<1> QED BY <1>1, <1>2, <1>3 DEF Stay

LEMMA StayPushTagged ==
  ASSUME frames \in Seq(Frame), NEW k \in Nat, k >= 1, k = Len(frames), NEW f \in Frame,
         NEW g, g = Last(frames), g \in BranchFrame, g.fn = "between",
         frames' = Append(SetTop(Become(g, "merge")), f)
  PROVE  Stay(k) /\ Len(frames') = k + 1 /\ frames'[k + 1] = f
<1> DEFINE fs == SetTop(Become(g, "merge"))
<1>1. "merge" \in Branch BY DEF Branch
<1>2. Become(g, "merge") \in Frame BY <1>1, Retagged
<1>3. g = frames[k] BY DEF Last
<1>4. fs \in Seq(Frame) /\ Len(fs) = k /\ fs[k] = Become(g, "merge")
      /\ \A i \in 1 .. k : i # k => fs[i] = frames[i]
  <2> DEFINE h == Become(g, "merge")
  <2> HIDE DEF h
  <2>1. h \in Frame BY <1>2 DEF h
  <2>2. fs = [frames EXCEPT ![k] = h] BY DEF SetTop, h
  <2> HIDE DEF fs
  <2> QED BY <2>1, <2>2 DEF h
<1> HIDE DEF fs
<1>5. frames' = Append(fs, f) BY DEF fs
<1>6. frames' \in Seq(Frame) /\ Len(frames') = k + 1 /\ frames'[k + 1] = f
      /\ \A i \in 1 .. k : frames'[i] = fs[i]
  <2>1. PICK t : t = fs OBVIOUS
  <2>2. t \in Seq(Frame) /\ Len(t) = k BY <1>4, <2>1
  <2>3. frames' = Append(t, f) BY <1>5, <2>1
  <2>4. Append(t, f) \in Seq(Frame) /\ Len(Append(t, f)) = k + 1 /\ Append(t, f)[k + 1] = f
        /\ \A i \in 1 .. k : Append(t, f)[i] = t[i]
    BY <2>2
  <2> QED BY <2>1, <2>3, <2>4
<1>7. \A i \in 1 .. k : Kin(frames'[i], frames[i]) BY <1>3, <1>4, <1>6 DEF Kin
<1>8. k \in 1 .. k OBVIOUS
<1> QED BY <1>6, <1>7, <1>8 DEF Stay

LEMMA EnvPush ==
  ASSUME env \in Seq(Env), env' = Append(env, <<>>)
  PROVE  /\ env' \in Seq(Env) /\ Len(env') = Len(env) + 1 /\ env'[Len(env) + 1] = <<>>
         /\ \A l \in 1 .. Len(env) : env'[l] = env[l]
         /\ \A l \in DOMAIN env' : (l \in DOMAIN env /\ env'[l] = env[l]) \/ env'[l] = <<>>
<1> DEFINE z == Len(env)
<1>1. z \in Nat /\ DOMAIN env = 1 .. z OBVIOUS
<1>2. /\ env' \in Seq(Env) /\ Len(env') = z + 1 /\ env'[z + 1] = <<>>
      /\ \A l \in 1 .. z : env'[l] = env[l]
  BY NoNames, AppendProperties
<1>3. DOMAIN env' = 1 .. z + 1 BY <1>2
<1> HIDE DEF z
<1>4. \A l \in 1 .. z + 1 : l \in 1 .. z \/ l = z + 1 BY <1>1
<1> QED BY <1>1, <1>2, <1>3, <1>4 DEF z

LEMMA EnvPop ==
  ASSUME env \in Seq(Env), NEW z \in Nat, z >= 1, z = Len(env), env' = Front(env)
  PROVE  /\ env' \in Seq(Env) /\ Len(env') = z - 1
         /\ \A l \in 1 .. z - 1 : env'[l] = env[l]
         /\ \A l \in DOMAIN env' : (l \in DOMAIN env /\ env'[l] = env[l]) \/ env'[l] = <<>>
<1>1. /\ env' \in Seq(Env) /\ Len(env') = z - 1 /\ DOMAIN env' = 1 .. z - 1 /\ DOMAIN env = 1 .. z
      /\ \A l \in 1 .. z - 1 : env'[l] = env[l]
  BY DEF Front
<1>2. \A l \in 1 .. z - 1 : l \in 1 .. z OBVIOUS
<1> QED BY <1>1, <1>2

LEMMA MeansPush ==
  ASSUME NEW sc, Laid(sc), Means(sc)', env'[Len(sc.list) + 1] = <<>>, NEW sd, sd = PushScope(sc)
  PROVE  Means(sd)'
<1> DEFINE z == Len(sc.list)
<1>1. /\ Laid(sd) /\ sd.slots = sc.slots /\ Len(sd.list) = z + 1
      /\ \A l \in 1 .. z : sd.list[l] = sc.list[l]
      /\ sd.list[z + 1].cells = <<>>
  BY Pushed
<1>2. z \in Nat /\ DOMAIN sc.list = 1 .. z /\ DOMAIN sd.list = 1 .. z + 1
  BY <1>1, LaidParts
<1>3. env'[z + 1] = <<>> OBVIOUS
<1>8. DOMAIN sd.list[z + 1].cells = {} BY <1>1
<1> HIDE DEF z
<1>4. \A l \in 1 .. z + 1 : l \in 1 .. z \/ l = z + 1 BY <1>2
<1>5. \A l \in DOMAIN sd.list :
        DOMAIN env'[l] = {y \in Name : \E i \in DOMAIN sd.list[l].cells : sd.list[l].cells[i].name = y}
  <2> TAKE l \in DOMAIN sd.list
  <2>1. CASE l \in 1 .. z
    <3>1. sd.list[l] = sc.list[l] /\ l \in DOMAIN sc.list BY <1>1, <1>2, <2>1
    <3>2. DOMAIN env'[l] = {y \in Name : \E i \in DOMAIN sc.list[l].cells : sc.list[l].cells[i].name = y}
      BY <3>1, Zenon DEF Means
    <3> QED BY <3>1, <3>2
  <2>2. CASE l = z + 1 BY <1>3, <1>8, <2>2, NoNames
  <2> QED BY <1>2, <1>4, <2>1, <2>2
<1>6. \A l \in DOMAIN sd.list : \A i \in DOMAIN sd.list[l].cells :
        sd.list[l].cells[i].name # "@ctrl" =>
          val'[sd.slots[sd.list[l].cells[i].slot]] = env'[l][sd.list[l].cells[i].name]
  <2> SUFFICES ASSUME NEW l \in DOMAIN sd.list, NEW i \in DOMAIN sd.list[l].cells,
                      sd.list[l].cells[i].name # "@ctrl"
               PROVE  val'[sd.slots[sd.list[l].cells[i].slot]] = env'[l][sd.list[l].cells[i].name]
    OBVIOUS
  <2>1. l \in 1 .. z BY <1>2, <1>4, <1>8
  <2>2. sd.list[l] = sc.list[l] /\ l \in DOMAIN sc.list BY <1>1, <1>2, <2>1
  <2>3. \A u \in DOMAIN sc.list : \A q \in DOMAIN sc.list[u].cells :
          sc.list[u].cells[q].name # "@ctrl" =>
            val'[sc.slots[sc.list[u].cells[q].slot]] = env'[u][sc.list[u].cells[q].name]
    BY Zenon DEF Means
  <2>4. val'[sc.slots[sc.list[l].cells[i].slot]] = env'[l][sc.list[l].cells[i].name]
    BY <2>2, <2>3
  <2> QED BY <1>1, <2>2, <2>4
<1> QED BY <1>5, <1>6, Zenon DEF Means

(* Two scopes with the same blocks, and the same values in their slots.     *)
LEMMA MeansAlike ==
  ASSUME NEW sc, Laid(sc), Means(sc)', NEW sd, sd.list = sc.list,
         \A s \in 2 .. Len(sc.slots) : val'[sd.slots[s]] = val'[sc.slots[s]]
  PROVE  Means(sd)'
<1>1. \A l \in DOMAIN sc.list :
        DOMAIN env'[l] = {y \in Name : \E i \in DOMAIN sc.list[l].cells : sc.list[l].cells[i].name = y}
  BY Zenon DEF Means
<1>2. \A u \in DOMAIN sc.list : \A q \in DOMAIN sc.list[u].cells :
        sc.list[u].cells[q].name # "@ctrl" =>
          val'[sc.slots[sc.list[u].cells[q].slot]] = env'[u][sc.list[u].cells[q].name]
  BY Zenon DEF Means
<1>3. \A u \in DOMAIN sc.list : \A q \in DOMAIN sc.list[u].cells :
        sc.list[u].cells[q].name # "@ctrl" =>
          val'[sd.slots[sc.list[u].cells[q].slot]] = env'[u][sc.list[u].cells[q].name]
  <2> SUFFICES ASSUME NEW u \in DOMAIN sc.list, NEW q \in DOMAIN sc.list[u].cells,
                      sc.list[u].cells[q].name # "@ctrl"
               PROVE  val'[sd.slots[sc.list[u].cells[q].slot]] = env'[u][sc.list[u].cells[q].name]
    OBVIOUS
  <2>1. sc.list[u].cells[q].slot \in 2 .. Len(sc.slots) BY CellSlots
  <2> QED BY <1>2, <2>1
<1>4. \A l \in DOMAIN sd.list :
        DOMAIN env'[l] = {y \in Name : \E i \in DOMAIN sd.list[l].cells : sd.list[l].cells[i].name = y}
  BY <1>1
<1>5. \A u \in DOMAIN sd.list : \A q \in DOMAIN sd.list[u].cells :
        sd.list[u].cells[q].name # "@ctrl" =>
          val'[sd.slots[sd.list[u].cells[q].slot]] = env'[u][sd.list[u].cells[q].name]
  <2>1. PICK t : t = sc.list OBVIOUS
  <2>2. sd.list = t BY <2>1
  <2>3. \A u \in DOMAIN t : \A q \in DOMAIN t[u].cells :
          t[u].cells[q].name # "@ctrl" =>
            val'[sd.slots[t[u].cells[q].slot]] = env'[u][t[u].cells[q].name]
    BY <1>3, <2>1, Zenon
  <2> QED BY <2>2, <2>3, Zenon
<1> QED BY <1>4, <1>5, Zenon DEF Means

LEMMA IfControls ==
  ASSUME NEW c, NEW cond, NEW branch
  PROVE  IfControl(c, cond, branch) \in {c, Live, Dead}
BY DEF IfControl

(* The run goes where the control is live.                                 *)
LEMMA IfTaken ==
  ASSUME NEW c, NEW cond, Takes(cond, TRUE), c # Dead
  PROVE  IfControl(c, cond, "true") # Dead
<1>1. Live # Dead BY DEF Live, Dead
<1>2. cond = "any" \/ cond = "true" BY DEF Takes
<1> QED BY <1>1, <1>2 DEF IfControl

LEMMA IfPassed ==
  ASSUME NEW c, NEW cond, Takes(cond, FALSE), c # Dead
  PROVE  IfControl(c, cond, "false") # Dead
<1>1. Live # Dead BY DEF Live, Dead
<1>2. cond = "any" \/ cond = "false" BY DEF Takes
<1> QED BY <1>1, <1>2 DEF IfControl

-----------------------------------------------------------------------------
(* The frames, and the ends of branches.                                    *)
(* A frame that comes to lie on m others, of which the last has lev blocks. *)
NewFrame(f, m, blocks) ==
  /\ f.fn # "func"
  /\ Len(curr'.list) = blocks + (IF f.fn \in {"between", "merge"} THEN 0 ELSE 1)
  /\ \A sc \in PutAside(f) :
       /\ Laid(sc) /\ Filled(sc)' /\ Len(sc.list) = blocks
       /\ \A l \in 1 .. Len(sc.list) : sc.list[l] = curr'.list[l]
  /\ f.fn = "body" =>
       /\ LoopOK(f)'
       /\ \A i \in 1 .. m : frames[i].fn = "body" => Ctrl(frames[i].head) < Ctrl(f.head)
  /\ on' => OnSide(f)
  /\ f.fn \in Branch \cup {"body"} /\ f.was => \A j \in 1 .. m : OnSide(frames[j])
  /\ Pending(f)'

(* All steps but the end of a loop keep what was made, and the frames up to *)
(* the mth.                                                                *)
LEMMA FramesStep ==
  ASSUME IInv, Graph', Grown, ValOK', EnvOK', Rest',
         NEW m \in Nat, m >= 1, NEW k \in Nat, m <= k, k = Len(frames),
         NEW n \in Nat, n = Len(frames'), n = m \/ n = m + 1, Stay(m),
         NEW lev \in [DOMAIN frames -> Nat], Levels(lev),
         Laid(curr'), Filled(curr)', Len(env') = Len(curr'.list),
         \A l \in 1 .. lev[m] : curr'.list[l] = curr.list[l],
         ~ on => \A l \in 1 .. lev[m] : env'[l] = env[l],
         on' => \A i \in 1 .. m : OnSide(frames[i]),
         on' => Means(curr)' /\ Ctrl(curr') # Dead,
         n = m => Len(curr'.list) = lev[m],
         n = m + 1 => \E f : f = frames'[m + 1] /\ NewFrame(f, m, lev[m])
  PROVE  IInv'
<1>1. Graph /\ Values /\ Blocks0 /\ Loops /\ Run /\ Meanings BY DEF IInv
<1>2. frames \in Seq(Frame) /\ DOMAIN frames = 1 .. k BY <1>1 DEF Blocks0
<1>3. \A i \in 1 .. m : i \in 1 .. k OBVIOUS
<1>4. \A i \in 1 .. m : OnSide(frames[i]) \/ ~ on BY <1>1, <1>2, <1>3 DEF Run
<1>5. \A sc : Filled(sc) => Filled(sc)' BY <1>1, FilledStays
<1>6. \A i \in 2 .. m : \A l \in 1 .. lev[i - 1] : curr'.list[l] = curr.list[l]
  <2> SUFFICES ASSUME NEW i \in 2 .. m, NEW l \in 1 .. lev[i - 1] PROVE curr'.list[l] = curr.list[l]
    OBVIOUS
  <2>1. i - 1 \in 1 .. k /\ m \in 1 .. k /\ i - 1 <= m OBVIOUS
  <2>2. lev[i - 1] <= lev[m] /\ lev[i - 1] \in Nat /\ lev[m] \in Nat BY <1>2, <2>1 DEF Levels
  <2>3. l \in 1 .. lev[m] BY <2>2
  <2> QED BY <2>3
<1>7. ASSUME n = m + 1
      PROVE  /\ frames'[m + 1].fn # "func"
             /\ Len(curr'.list) = lev[m] + (IF frames'[m + 1].fn \in {"between", "merge"} THEN 0 ELSE 1)
             /\ \A sc \in PutAside(frames'[m + 1]) :
                  /\ Laid(sc) /\ Filled(sc)' /\ Len(sc.list) = lev[m]
                  /\ \A l \in 1 .. Len(sc.list) : sc.list[l] = curr'.list[l]
             /\ frames'[m + 1].fn = "body" =>
                  /\ LoopOK(frames[m + 1])'
                  /\ \A i \in 1 .. m : frames[i].fn = "body" =>
                       Ctrl(frames[i].head) < Ctrl(frames'[m + 1].head)
             /\ on' => OnSide(frames'[m + 1])
             /\ frames'[m + 1].fn \in Branch \cup {"body"} /\ frames'[m + 1].was =>
                  \A j \in 1 .. m : OnSide(frames[j])
             /\ Pending(frames[m + 1])'
  <2>1. PICK f : f = frames'[m + 1] /\ NewFrame(f, m, lev[m]) BY <1>7
  <2>2. LoopOK(f)' <=> LoopOK(frames[m + 1])' BY <2>1 DEF LoopOK, Ctrl, IsPhiOf
  <2>3. Pending(f)' <=> Pending(frames[m + 1])' BY <2>1 DEF Pending, Ctrl
  <2> QED BY <2>1, <2>2, <2>3 DEF NewFrame
<1>8. Blocks0' BY <1>1, <1>5, <1>6, <1>7, BlocksStep
<1>9. Loops' BY <1>1, <1>4, <1>7, LoopsStep
<1>10. Run' BY <1>1, <1>7, RunStep
<1>11. Meanings' BY <1>1, <1>4, <1>7, MeaningsStep
<1>12. Values' BY DEF ValOK, EnvOK, Values
<1> QED BY <1>8, <1>9, <1>10, <1>11, <1>12 DEF IInv

(* Most of them make nothing.                                              *)
LEMMA QuietStep ==
  ASSUME IInv, UNCHANGED <<nodes, next, table, val>>,
         NEW m \in Nat, m >= 1, NEW k \in Nat, m <= k, k = Len(frames),
         NEW n \in Nat, n = Len(frames'), n = m \/ n = m + 1, Stay(m),
         \A i \in m + 1 .. k : frames[i].fn # "body",
         n = m + 1 => frames'[m + 1].fn # "body",
         env' \in Seq(Env),
         \A l \in DOMAIN env' : (l \in DOMAIN env /\ env'[l] = env[l]) \/ env'[l] = <<>>
  PROVE  /\ Graph' /\ Grown /\ ValOK' /\ EnvOK' /\ Valued' = Valued
         /\ \A sc : Filled(sc) => Filled(sc)'
<1>1. Graph /\ Values /\ Blocks0 BY DEF IInv
<1>2. OpenLoops' = OpenLoops BY <1>1, OpenKept
<1>3. Graph' /\ Grown /\ ValOK' /\ Valued' = Valued BY <1>1, <1>2, Quiet
<1>4. EnvOK' BY <1>1, <1>3, EnvStays
<1>5. \A sc : Filled(sc) => Filled(sc)' BY <1>1, <1>3, FilledStays
<1> QED BY <1>3, <1>4, <1>5

-----------------------------------------------------------------------------
LEMMA FilledPush ==
  ASSUME NEW sc, Laid(sc), Filled(sc)', NEW sd, sd = PushScope(sc)
  PROVE  Filled(sd)'
BY Pushed DEF Filled

LEMMA FilledPop ==
  ASSUME NEW sc, Laid(sc), Len(sc.list) >= 2, Filled(sc), NEW sd, sd = PopScope(sc)
  PROVE  Filled(sd)
<1>1. /\ Len(sd.slots) \in 1 .. Len(sc.slots)
      /\ \A s \in 1 .. Len(sd.slots) : sd.slots[s] = sc.slots[s]
  BY Popped
<1>2. Len(sc.slots) \in Nat BY LaidParts
<1>3. sd.slots[1] = sc.slots[1] BY <1>1, <1>2
<1>4. \A s \in 2 .. Len(sd.slots) : s \in 2 .. Len(sc.slots) /\ sd.slots[s] = sc.slots[s] BY <1>1, <1>2
<1> QED BY <1>3, <1>4 DEF Filled

LEMMA MeansPop ==
  ASSUME NEW sc, Laid(sc), Len(sc.list) >= 2, Means(sc), NEW sd, sd = PopScope(sc)
  PROVE  Means(sd)
<1> DEFINE z == Len(sc.list)
<1>1. /\ Laid(sd) /\ Len(sd.list) = z - 1 /\ \A l \in 1 .. z - 1 : sd.list[l] = sc.list[l]
      /\ \A s \in 1 .. Len(sd.slots) : sd.slots[s] = sc.slots[s]
  BY Popped
<1>2. z \in Nat /\ DOMAIN sc.list = 1 .. z /\ DOMAIN sd.list = 1 .. z - 1 BY <1>1, LaidParts
<1> HIDE DEF z
<1>3. \A l \in DOMAIN sd.list : l \in DOMAIN sc.list /\ sd.list[l] = sc.list[l] BY <1>1, <1>2
<1>4. \A l \in DOMAIN sc.list :
        DOMAIN env[l] = {y \in Name : \E i \in DOMAIN sc.list[l].cells : sc.list[l].cells[i].name = y}
  BY Zenon DEF Means
<1>5. \A u \in DOMAIN sc.list : \A q \in DOMAIN sc.list[u].cells :
        sc.list[u].cells[q].name # "@ctrl" =>
          val[sc.slots[sc.list[u].cells[q].slot]] = env[u][sc.list[u].cells[q].name]
  BY Zenon DEF Means
<1>6. \A l \in DOMAIN sd.list :
        DOMAIN env[l] = {y \in Name : \E i \in DOMAIN sd.list[l].cells : sd.list[l].cells[i].name = y}
  BY <1>3, <1>4, SMTT(30)
<1>7. \A u \in DOMAIN sd.list : \A q \in DOMAIN sd.list[u].cells :
        sd.list[u].cells[q].name # "@ctrl" =>
          val[sd.slots[sd.list[u].cells[q].slot]] = env[u][sd.list[u].cells[q].name]
  <2> SUFFICES ASSUME NEW u \in DOMAIN sd.list, NEW q \in DOMAIN sd.list[u].cells,
                      sd.list[u].cells[q].name # "@ctrl"
               PROVE  val[sd.slots[sd.list[u].cells[q].slot]] = env[u][sd.list[u].cells[q].name]
    BY Zenon
  <2>1. sd.list[u].cells[q].slot \in 1 .. Len(sd.slots) BY <1>1, CellSlots, SMTT(30)
  <2>2. val[sc.slots[sd.list[u].cells[q].slot]] = env[u][sd.list[u].cells[q].name]
    <3>1. PICK d : d = sd.list[u] OBVIOUS
    <3>2. u \in DOMAIN sc.list /\ sc.list[u] = d /\ q \in DOMAIN d.cells /\ d.cells[q].name # "@ctrl"
      BY <1>3, <3>1
    <3>3. \A p \in DOMAIN d.cells : d.cells[p].name # "@ctrl" =>
            val[sc.slots[d.cells[p].slot]] = env[u][d.cells[p].name]
      BY <1>5, <3>2, Zenon
    <3> QED BY <3>1, <3>2, <3>3, Zenon
  <2> QED BY <1>1, <2>1, <2>2, Zenon
<1> QED BY <1>6, <1>7, Zenon DEF Means

(* Statements that open a block.                                           *)
LEMMA OpenBlockStep ==
  ASSUME IInv, OpenBlock
  PROVE  IInv'
<1> DEFINE z == Len(curr.list)
           f == [fn |-> "block"]
<1>1. /\ Statement /\ curr' = PushScope(curr) /\ env' = Append(env, <<>>)
      /\ frames' = Append(frames, f) /\ UNCHANGED <<nodes, next, table, fault, val, on>>
  BY DEF OpenBlock, Enter
<1>2. Top(InBlock) /\ Rest' BY <1>1, Reading DEF Statement
<1>3. PICK k : k = Len(frames) OBVIOUS
<1>4. /\ frames \in Seq(Frame) /\ k \in Nat /\ k >= 1 /\ DOMAIN frames = 1 .. k /\ frames # <<>>
      /\ Laid(curr) /\ Filled(curr) /\ Len(env) = z /\ z \in Nat
  BY <1>2, <1>3, Tops DEF IInv
<1>5. PICK lev \in [DOMAIN frames -> Nat] : Levels(lev) /\ lev[k] = z
  BY <1>2, <1>3, Tops DEF IInv
<1>6. f \in Frame BY DEF Frame
<1>7. Stay(k) /\ Len(frames') = k + 1 /\ frames'[k + 1] = f BY <1>1, <1>3, <1>4, <1>6, StayPush
<1>8. /\ env' \in Seq(Env) /\ Len(env') = z + 1 /\ env'[z + 1] = <<>>
      /\ \A l \in 1 .. z : env'[l] = env[l]
      /\ \A l \in DOMAIN env' : (l \in DOMAIN env /\ env'[l] = env[l]) \/ env'[l] = <<>>
  BY <1>1, <1>4, EnvPush DEF IInv, Values
<1>9. /\ Laid(curr') /\ Len(curr'.list) = z + 1 /\ \A l \in 1 .. z : curr'.list[l] = curr.list[l]
      /\ curr'.slots = curr.slots
  BY <1>1, <1>4, Pushed
<1>10. /\ Graph' /\ Grown /\ ValOK' /\ EnvOK' /\ \A sc : Filled(sc) => Filled(sc)'
  <2>1. \A i \in k + 1 .. k : frames[i].fn # "body" BY <1>4
  <2>2. k + 1 \in Nat /\ k <= k /\ k + 1 # k BY <1>4
  <2>3. frames'[k + 1].fn # "body" BY <1>7
  <2>4. UNCHANGED <<nodes, next, table, val>> BY <1>1
  <2> QED BY <1>3, <1>4, <1>7, <1>8, <2>1, <2>2, <2>3, <2>4, QuietStep
<1>11. Filled(curr)'
  <2>1. PICK sc : sc = curr OBVIOUS
  <2>2. PICK sd : sd = curr' OBVIOUS
  <2>3. Laid(sc) /\ Filled(sc)' /\ sd = PushScope(sc) BY <1>1, <1>4, <1>10, <2>1, <2>2
  <2>4. Filled(sd)' BY <2>3, FilledPush
  <2> QED BY <2>2, <2>4 DEF Filled
<1>12. on => Means(curr) /\ Ctrl(curr) # Dead BY <1>4 DEF IInv, Meanings
<1>13. on' => Means(curr)' /\ Ctrl(curr') # Dead
  <2> SUFFICES ASSUME on PROVE Means(curr)' /\ Ctrl(curr') # Dead BY <1>1
  <2>1. PICK sc : sc = curr OBVIOUS
  <2>2. PICK sd : sd = curr' OBVIOUS
  <2>3. Laid(sc) /\ Filled(sc) /\ Means(sc) /\ sd = PushScope(sc) /\ env'[Len(sc.list) + 1] = <<>>
    BY <1>1, <1>4, <1>8, <1>12, <2>1, <2>2
  <2>4. \A l \in DOMAIN sc.list : env'[l] = env[l] BY <1>8, <2>1, <2>3, LaidParts
  <2>5. Means(sc)' BY <1>10, <2>3, <2>4, MeansStays DEF IInv
  <2>6. Means(sd)' BY <2>3, <2>5, MeansPush
  <2> QED BY <1>9, <1>12, <2>2, <2>6 DEF Ctrl
<1>14. on' => \A i \in 1 .. k : OnSide(frames[i]) BY <1>1, <1>4 DEF IInv, Run
<1>15. NewFrame(f, k, lev[k])
  <2>1. Len(curr'.list) = lev[k] + (IF f.fn \in {"between", "merge"} THEN 0 ELSE 1) BY <1>5, <1>9
  <2>2. PutAside(f) = {} BY <1>6, FrameParts
  <2>3. Pending(f)' BY DEF Pending
  <2>4. OnSide(f) BY DEF OnSide
  <2> HIDE DEF z
  <2> QED BY <2>1, <2>2, <2>3, <2>4 DEF NewFrame, Branch
<1>16. k + 1 \in Nat /\ k <= k /\ k + 1 # k BY <1>4
<1> HIDE DEF z, f
<1>17. Len(env') = Len(curr'.list) BY <1>8, <1>9
<1> QED BY <1>3, <1>4, <1>5, <1>2, <1>7, <1>8, <1>9, <1>10, <1>11, <1>13, <1>14, <1>15, <1>16, <1>17, FramesStep, ZenonT(40)

LEMMA CloseBlockStep ==
  ASSUME IInv, CloseBlock
  PROVE  IInv'
<1> DEFINE z == Len(curr.list)
<1>1. /\ Top({"block"}) /\ curr' = PopScope(curr) /\ env' = Front(env) /\ frames' = Front(frames)
      /\ UNCHANGED <<nodes, next, table, read, fault, val, on>>
  BY DEF CloseBlock
<1>2. Rest' BY <1>1 DEF IInv, Rest
<1>3. PICK k : k = Len(frames) OBVIOUS
<1>4. /\ frames \in Seq(Frame) /\ k \in Nat /\ DOMAIN frames = 1 .. k /\ frames # <<>>
      /\ Last(frames) = frames[k] /\ Last(frames).fn = "block"
      /\ Laid(curr) /\ Filled(curr) /\ Len(env) = z /\ z \in Nat /\ z >= 2
  BY <1>1, <1>3, Tops DEF IInv
<1>5. PICK lev \in [DOMAIN frames -> Nat] : Levels(lev) /\ k >= 2 /\ z = lev[k - 1] + 1
  BY <1>1, <1>3, <1>4, Tops DEF IInv
<1>6. /\ k - 1 \in Nat /\ k - 1 >= 1 /\ k - 1 <= k /\ \A i \in (k - 1) + 1 .. k : i = k
      /\ k - 1 # (k - 1) + 1 /\ k - 1 \in 1 .. k
      /\ \A i \in 1 .. k - 1 : i \in 1 .. k
  BY <1>4, <1>5
<1>7. lev[k - 1] \in Nat /\ lev[k - 1] = z - 1 BY <1>4, <1>5, <1>6
<1>8. Stay(k - 1) /\ Len(frames') = k - 1 BY <1>1, <1>3, <1>4, <1>5, StayPop
<1>9. /\ env' \in Seq(Env) /\ Len(env') = z - 1 /\ \A l \in 1 .. z - 1 : env'[l] = env[l]
      /\ \A l \in DOMAIN env' : (l \in DOMAIN env /\ env'[l] = env[l]) \/ env'[l] = <<>>
  <2>1. PICK y : y = z OBVIOUS
  <2>2. y \in Nat /\ y >= 1 /\ y = Len(env) BY <1>4, <2>1
  <2>3. env \in Seq(Env) BY DEF IInv, Values
  <2> HIDE DEF z
  <2> QED BY <1>1, <2>1, <2>2, <2>3, EnvPop
<1>10. /\ Laid(curr') /\ Len(curr'.list) = z - 1 /\ \A l \in 1 .. z - 1 : curr'.list[l] = curr.list[l]
       /\ Len(curr'.slots) \in 1 .. Len(curr.slots)
       /\ \A s \in 1 .. Len(curr'.slots) : curr'.slots[s] = curr.slots[s]
  BY <1>1, <1>4, Popped
<1>11. Graph' /\ Grown /\ ValOK' /\ EnvOK' /\ \A sc : Filled(sc) => Filled(sc)'
  <2>1. \A i \in (k - 1) + 1 .. k : frames[i].fn # "body" BY <1>4, <1>6
  <2>2. UNCHANGED <<nodes, next, table, val>> BY <1>1
  <2>3. PICK m : m = k - 1 OBVIOUS
  <2>4. m \in Nat /\ m >= 1 /\ m <= k /\ Stay(m) /\ Len(frames') = m /\ m # m + 1
        /\ \A i \in m + 1 .. k : frames[i].fn # "body"
    BY <1>6, <1>8, <2>1, <2>3
  <2> QED BY <1>3, <1>4, <1>9, <2>2, <2>4, QuietStep
<1>12. Filled(curr)' /\ (on => Means(curr)' /\ Ctrl(curr') # Dead)
  <2>1. PICK sc : sc = curr OBVIOUS
  <2>2. PICK sd : sd = curr' OBVIOUS
  <2>3. Laid(sc) /\ Filled(sc) /\ sd = PopScope(sc) /\ Len(sc.list) >= 2 BY <1>1, <1>4, <2>1, <2>2
  <2>4. Filled(sd) /\ Laid(sd) BY <1>10, <2>2, <2>3, FilledPop
  <2>5. Filled(sd)' BY <1>11, <2>4
  <2>6. Filled(curr)' BY <2>2, <2>5 DEF Filled
  <2>7. ASSUME on PROVE Means(curr)' /\ Ctrl(curr') # Dead
    <3>1. Means(sc) /\ Ctrl(sc) # Dead BY <1>4, <2>1, <2>7 DEF IInv, Meanings
    <3>2. Means(sd) BY <2>3, <3>1, MeansPop
    <3>3. \A l \in DOMAIN sd.list : env'[l] = env[l] BY <1>9, <1>10, <2>2, <2>4, LaidParts
    <3>4. Means(sd)' BY <1>11, <2>4, <3>2, <3>3, MeansStays DEF IInv
    <3>5. Ctrl(curr') = Ctrl(sc)
      <4>1. Len(curr.slots) \in Nat BY <1>4, LaidParts
      <4>2. 1 \in 1 .. Len(curr'.slots) BY <1>10, <4>1
      <4> QED BY <1>10, <2>1, <4>2 DEF Ctrl
    <3> QED BY <2>2, <3>1, <3>4, <3>5
  <2> QED BY <2>6, <2>7
<1>13. on' => \A i \in 1 .. k - 1 : OnSide(frames[i]) BY <1>1, <1>4, <1>6 DEF IInv, Run
<1>14. on' => Means(curr)' /\ Ctrl(curr') # Dead BY <1>1, <1>12 DEF Ctrl
<1>15. Len(env') = Len(curr'.list) BY <1>9, <1>10
<1> HIDE DEF z
<1>16. PICK m : m = k - 1 OBVIOUS
<1>17. /\ m \in Nat /\ m >= 1 /\ m <= k /\ Stay(m) /\ Len(frames') = m /\ m # m + 1
       /\ lev[m] = z - 1 /\ \A i \in 1 .. m : on' => OnSide(frames[i])
  BY <1>6, <1>7, <1>8, <1>13, <1>16
<1>18. /\ \A l \in 1 .. lev[m] : curr'.list[l] = curr.list[l]
       /\ \A l \in 1 .. lev[m] : env'[l] = env[l]
       /\ Len(curr'.list) = lev[m]
  BY <1>9, <1>10, <1>17
<1> QED BY <1>2, <1>3, <1>4, <1>5, <1>10, <1>11, <1>12, <1>14, <1>15, <1>17, <1>18, FramesStep

LEMMA EndFunctionStep ==
  ASSUME IInv, EndFunction
  PROVE  IInv'
<1>1. /\ Top({"func"}) /\ frames' = <<>> /\ curr' = NoScope /\ env' = <<>>
      /\ UNCHANGED <<nodes, next, table, read, fault, val, on>>
  BY DEF EndFunction
<1>2. Graph /\ Values /\ Blocks0 /\ Rest BY DEF IInv
<1>3. frames \in Seq(Frame) /\ Len(frames) = 1 /\ frames[1].fn = "func"
  <2>1. Last(frames).fn = "func" BY <1>1, <1>2, Tops
  <2>2. Len(frames) = 1 BY <1>1, <1>2, <2>1, Tops
  <2> QED BY <1>1, <1>2, <2>1, <2>2, Tops
<1>4. OpenLoops = {} /\ OpenLoops' = {}
  <2>1. DOMAIN frames = {1} /\ DOMAIN frames' = {} BY <1>1, <1>3
  <2> QED BY <1>3, <2>1 DEF OpenLoops
<1>5. Graph' /\ ValOK' BY <1>1, <1>2, <1>4, Quiet
<1>6. <<>> \in Seq(Env) /\ <<>> \in Seq(Frame) /\ NoScope \in Scope BY DEF NoScope, Scope, Slots
<1>7. EnvOK' BY <1>1, <1>6 DEF EnvOK
<1>8. Values' BY <1>5, <1>7 DEF ValOK, EnvOK, Values
<1>9. Rest' BY <1>1, <1>2 DEF Rest
<1>10. Blocks0' BY <1>1, <1>6 DEF Blocks0
<1>11. DOMAIN frames' = {} BY <1>1
<1>12. Loops' BY <1>11 DEF Loops
<1>13. Run' BY <1>11 DEF Run
<1>14. Meanings' BY <1>1, <1>11 DEF Meanings
<1> QED BY <1>5, <1>8, <1>9, <1>10, <1>12, <1>13, <1>14 DEF IInv

(* Open a block on a scope: what is left of it when only its control is new. *)
LEMMA FilledControl ==
  ASSUME NEW sc, Laid(sc), Filled(sc), NEW c \in Made \cup {Live, Dead}, c \in Node \cup {Live, Dead}
  PROVE  Filled(SetCtrl(sc, c))
BY NewControl DEF Filled

LEMMA MeansControl ==
  ASSUME NEW sc, Laid(sc), Means(sc)', NEW c \in Node \cup {Live, Dead}, NEW sd, sd = SetCtrl(sc, c)
  PROVE  Means(sd)'
BY NewControl, MeansAlike

LEMMA Controls ==
  ASSUME Graph, NEW sc, Laid(sc), Filled(sc)
  PROVE  Ctrl(sc) \in Made \cup {Live, Dead} /\ Made \subseteq Node /\ Live \notin Made /\ Dead \notin Made
<1>1. next \in 1 .. MaxNode + 1 /\ MaxNode \in Nat BY ScopeAssumption DEF Graph
<1>2. Made \subseteq Node /\ Live \notin Made /\ Dead \notin Made BY <1>1 DEF Made, Node, Live, Dead
<1> QED BY <1>2 DEF Filled, Ctrl

LEMMA IfStep ==
  ASSUME IInv, NEW cond, NEW take \in BOOLEAN, If(cond, take)
  PROVE  IInv'
<1> DEFINE z == Len(curr.list)
           inner == IfControl(Ctrl(curr), cond, "true")
           outer == IfControl(Ctrl(curr), cond, "false")
           new == [fn |-> "then", other |-> curr, was |-> on, take |-> take, cont |-> FALSE, ctrl |-> outer]
<1>0. Top(InBlock \cup {"between"}) BY DEF If, ReadIn
<1>1. Graph /\ Values /\ Blocks0 /\ Rest /\ Run /\ Meanings BY DEF IInv
<1>2. PICK k : k = Len(frames) OBVIOUS
<1>3. /\ frames \in Seq(Frame) /\ k \in Nat /\ k >= 1 /\ DOMAIN frames = 1 .. k /\ frames # <<>>
      /\ Last(frames) \in Frame /\ Last(frames).fn \in InBlock \cup {"between"}
      /\ Laid(curr) /\ Filled(curr) /\ Len(env) = z /\ z \in Nat
  BY <1>0, <1>1, <1>2, Tops
<1>4. Duplicate(curr) = [sc |-> curr, ok |-> TRUE] BY <1>3, DuplicateIsEqual
<1>5. /\ read < MaxStmt /\ read' = read + 1 /\ Takes(cond, take) /\ fault' = fault
      /\ curr' = PushScope(SetCtrl(curr, inner)) /\ env' = Append(env, <<>>)
      /\ frames' = Append(IF Top(InBlock) THEN frames
                          ELSE SetTop(Become(Last(frames), "merge")), new)
      /\ on' = (on /\ take) /\ UNCHANGED <<nodes, next, table, val>>
  BY <1>4 DEF If, Enter, ReadIn
<1>6. Rest'
  <2>1. MaxStmt \in Nat BY ScopeAssumption
  <2>2. read' \in 0 .. MaxStmt BY <1>1, <1>5, <2>1 DEF Rest
  <2> QED BY <1>1, <1>5, <2>2 DEF Rest
<1>7. PICK lev \in [DOMAIN frames -> Nat] : Levels(lev) /\ lev[k] = z
  BY <1>0, <1>1, <1>2, Tops
<1>8. Ctrl(curr) \in Made \cup {Live, Dead} /\ Made \subseteq Node BY <1>1, <1>3, Controls
<1>9. inner \in Made \cup {Live, Dead} /\ outer \in Made \cup {Live, Dead}
      /\ inner \in Node \cup {Live, Dead} /\ outer \in Node \cup {Live, Dead}
  BY <1>5, <1>8, IfControls
<1>29. PICK f : f = new OBVIOUS
<1>30. PICK st : st = curr OBVIOUS
<1>31. f = [fn |-> "then", other |-> st, was |-> on, take |-> take, cont |-> FALSE, ctrl |-> outer]
  BY <1>29, <1>30
<1>10. f \in Frame /\ PutAside(f) = {st}
  <2>1. curr \in Scope /\ on \in BOOLEAN BY <1>1 DEF Blocks0, Rest
  <2> HIDE DEF outer
  <2>2. f \in BranchFrame BY <1>9, <1>30, <1>31, <2>1 DEF BranchFrame, Branch
  <2>3. f \in Frame BY <2>2 DEF BranchFrame, Frame
  <2> QED BY <1>31, <2>3, FrameParts DEF Branch
<1> HIDE DEF inner, outer
<1>11. Stay(k) /\ Len(frames') = k + 1 /\ frames'[k + 1] = f
  <2>1. CASE Top(InBlock)
    <3>1. frames' = Append(frames, f) BY <1>5, <1>29, <2>1
    <3> HIDE DEF new
    <3> QED BY <1>2, <1>3, <1>10, <3>1, StayPush
  <2>2. CASE ~ Top(InBlock)
    <3>1. Last(frames).fn = "between" BY <1>0, <1>3, <2>2 DEF Top
    <3>2. PICK g : g = Last(frames) OBVIOUS
    <3>3. g \in BranchFrame /\ g.fn = "between" BY <1>3, <3>1, <3>2, FrameParts DEF Branch
    <3>4. frames' = Append(SetTop(Become(g, "merge")), f) BY <1>5, <1>29, <2>2, <3>2
    <3> HIDE DEF new
    <3> QED BY <1>2, <1>3, <1>10, <3>2, <3>3, <3>4, StayPushTagged
  <2> QED BY <2>1, <2>2
<1>12. /\ env' \in Seq(Env) /\ Len(env') = z + 1 /\ env'[z + 1] = <<>>
       /\ \A l \in 1 .. z : env'[l] = env[l]
       /\ \A l \in DOMAIN env' : (l \in DOMAIN env /\ env'[l] = env[l]) \/ env'[l] = <<>>
  BY <1>1, <1>3, <1>5, EnvPush DEF Values
<1> HIDE DEF new
<1>13. PICK sh : sh = SetCtrl(curr, inner) OBVIOUS
<1>14. /\ Laid(sh) /\ Filled(sh) /\ Len(sh.list) = z /\ sh.slots[1] = inner
       /\ sh.list = curr.list
  BY <1>3, <1>9, <1>13, NewControl, FilledControl
<1>15. /\ Laid(curr') /\ Len(curr'.list) = z + 1 /\ \A l \in 1 .. z : curr'.list[l] = curr.list[l]
       /\ curr'.slots = sh.slots
  <2>1. curr' = PushScope(sh) BY <1>5, <1>13
  <2> QED BY <1>14, <2>1, Pushed
<1>16. /\ Graph' /\ Grown /\ ValOK' /\ EnvOK' /\ \A sc : Filled(sc) => Filled(sc)'
  <2>1. \A i \in k + 1 .. k : frames[i].fn # "body" BY <1>3
  <2>2. k + 1 \in Nat /\ k <= k /\ k + 1 # k BY <1>3
  <2>3. frames'[k + 1].fn # "body" BY <1>11, <1>31
  <2>4. UNCHANGED <<nodes, next, table, val>> BY <1>5
  <2>5. env' \in Seq(Env) /\ \A l \in DOMAIN env' : (l \in DOMAIN env /\ env'[l] = env[l]) \/ env'[l] = <<>>
    BY <1>12
  <2>6. k \in Nat /\ k >= 1 /\ Stay(k) /\ Len(frames') = k + 1 BY <1>3, <1>11
  <2> QED BY <1>2, <2>1, <2>2, <2>3, <2>4, <2>5, <2>6, QuietStep
<1>17. PICK sd : sd = curr' OBVIOUS
<1>18. sd = PushScope(sh) BY <1>5, <1>13, <1>17
<1>19. Filled(curr)'
  <2>1. Filled(sd)' BY <1>14, <1>16, <1>18, FilledPush
  <2> QED BY <1>17, <2>1 DEF Filled
<1>20. on => Means(curr) /\ Ctrl(curr) # Dead BY <1>1, <1>3 DEF Meanings
<1>22. on => Means(st)'
  <2> SUFFICES ASSUME on PROVE Means(st)' OBVIOUS
  <2>1. Laid(st) /\ Filled(st) /\ Means(st) BY <1>3, <1>20, <1>30
  <2>2. \A l \in DOMAIN st.list : env'[l] = env[l] BY <1>12, <1>30, <2>1, LaidParts
  <2> QED BY <1>1, <1>16, <2>1, <2>2, MeansStays
<1>23. on' => Means(curr)' /\ Ctrl(curr') # Dead
  <2> SUFFICES ASSUME on /\ take PROVE Means(curr)' /\ Ctrl(curr') # Dead BY <1>5
  <2>1. Laid(st) /\ sh = SetCtrl(st, inner) BY <1>3, <1>13, <1>30
  <2>2. Means(sh)' BY <1>9, <1>22, <2>1, MeansControl
  <2>3. env'[Len(sh.list) + 1] = <<>> BY <1>12, <1>14
  <2>4. Means(sd)' BY <1>14, <1>18, <2>2, <2>3, MeansPush
  <2>5. inner # Dead
    <3>2. PICK x : x = Ctrl(curr) OBVIOUS
    <3>3. Takes(cond, TRUE) /\ x # Dead BY <1>5, <1>20, <3>2 DEF Takes
    <3>4. IfControl(x, cond, "true") # Dead BY <3>3, IfTaken
    <3> QED BY <3>2, <3>4 DEF inner
  <2> QED BY <1>14, <1>15, <1>17, <2>4, <2>5 DEF Ctrl
<1>24. on => \A i \in 1 .. k : OnSide(frames[i]) BY <1>1, <1>3 DEF Run
<1>25. NewFrame(f, k, lev[k])
  <2>1. Len(curr'.list) = lev[k] + (IF f.fn \in {"between", "merge"} THEN 0 ELSE 1) BY <1>7, <1>15, <1>31
  <2>2. \A s \in PutAside(f) : /\ Laid(s) /\ Filled(s)' /\ Len(s.list) = lev[k]
                               /\ \A l \in 1 .. Len(s.list) : s.list[l] = curr'.list[l]
    BY <1>3, <1>7, <1>10, <1>15, <1>16, <1>30
  <2>3. Pending(f)'
    <3>1. ASSUME on, ~ take PROVE outer # Dead
      <4>1. PICK x : x = Ctrl(curr) OBVIOUS
      <4>2. Takes(cond, FALSE) /\ x # Dead BY <1>5, <1>20, <3>1, <4>1 DEF Takes
      <4>3. IfControl(x, cond, "false") # Dead BY <4>2, IfPassed
      <4> QED BY <4>1, <4>3 DEF outer
    <3>2. on => Means(f.other)'
      <4>1. f.other = st BY <1>31
      <4> QED BY <1>22, <4>1
    <3>3. outer \in Made' \cup {Live, Dead} BY <1>1, <1>9, <1>16, GrownNodes
    <3> QED BY <1>31, <3>1, <3>2, <3>3 DEF Pending
  <2>4. on' => OnSide(f) BY <1>5, <1>31 DEF OnSide
  <2>5. f.was => \A j \in 1 .. k : OnSide(frames[j]) BY <1>24, <1>31
  <2>6. f.fn = "then" BY <1>31
  <2> HIDE DEF z
  <2> QED BY <2>1, <2>2, <2>3, <2>4, <2>5, <2>6 DEF NewFrame, Branch
<1>26. k + 1 \in Nat /\ k <= k /\ k + 1 # k BY <1>3
<1> HIDE DEF z
<1>27. Len(env') = Len(curr'.list) BY <1>12, <1>15
<1>28. on' => \A i \in 1 .. k : OnSide(frames[i]) BY <1>5, <1>24
<1> QED BY <1>2, <1>3, <1>6, <1>7, <1>11, <1>12, <1>15, <1>16, <1>19, <1>23, <1>25, <1>26, <1>27, <1>28, FramesStep, SMTT(30)

-----------------------------------------------------------------------------
(* The frame of an if, and the step that ends or begins one of its branches. *)
LEMMA BranchTop ==
  ASSUME IInv, NEW fs, fs \subseteq Branch, Top(fs)
  PROVE  \E k \in Nat, g \in BranchFrame, lev \in [DOMAIN frames -> Nat], z \in Nat :
           /\ k = Len(frames) /\ k >= 2 /\ DOMAIN frames = 1 .. k /\ g = frames[k] /\ g = Last(frames)
           /\ g.fn \in fs
           /\ Levels(lev) /\ z = Len(curr.list) /\ z >= 2 /\ Len(env) = z
           /\ z = lev[k - 1] + (IF g.fn \in {"between", "merge"} THEN 0 ELSE 1)
           /\ Laid(curr) /\ Filled(curr)
           /\ Laid(g.other) /\ Filled(g.other) /\ Len(g.other.list) = lev[k - 1]
           /\ \A l \in 1 .. lev[k - 1] : g.other.list[l] = curr.list[l]
           /\ Pending(g) /\ (on => OnSide(g) /\ Means(curr) /\ Ctrl(curr) # Dead)
           /\ \A j \in 1 .. k - 1 : (on \/ g.was => OnSide(frames[j]))
<1>1. Blocks0 /\ Run /\ Meanings BY DEF IInv
<1>2. PICK k : k = Len(frames) OBVIOUS
<1>3. PICK g : g = Last(frames) OBVIOUS
<1>4. PICK z : z = Len(curr.list) OBVIOUS
<1>5. /\ k \in Nat /\ DOMAIN frames = 1 .. k /\ g = frames[k] /\ g \in Frame /\ g.fn \in fs
      /\ Laid(curr) /\ Filled(curr) /\ Len(env) = z /\ z \in Nat /\ z >= 2 /\ frames # <<>> /\ k >= 1
  BY <1>1, <1>2, <1>3, <1>4, Tops
<1>6. g \in BranchFrame /\ PutAside(g) = {g.other} /\ g.fn # "func"
  <2>1. g.fn \in Branch BY <1>5
  <2> QED BY <1>5, <2>1, FrameParts DEF Branch
<1>7. PICK lev \in [DOMAIN frames -> Nat] :
         /\ Levels(lev) /\ k >= 2
         /\ z = lev[k - 1] + (IF g.fn \in {"between", "merge"} THEN 0 ELSE 1)
         /\ \A sc \in PutAside(g) :
              /\ Laid(sc) /\ Filled(sc) /\ Len(sc.list) = lev[k - 1]
              /\ \A l \in 1 .. Len(sc.list) : sc.list[l] = curr.list[l]
  BY <1>1, <1>2, <1>3, <1>4, <1>6, Tops
<1>8. /\ Laid(g.other) /\ Filled(g.other) /\ Len(g.other.list) = lev[k - 1]
      /\ \A l \in 1 .. lev[k - 1] : g.other.list[l] = curr.list[l]
  BY <1>6, <1>7
<1>9. k \in DOMAIN frames BY <1>5
<1>10. Pending(g) /\ (on => OnSide(g)) BY <1>1, <1>5, <1>9 DEF Meanings, Run
<1>11. \A j \in 1 .. k - 1 : (on \/ g.was => OnSide(frames[j]))
  <2> TAKE j \in 1 .. k - 1
  <2>1. j \in DOMAIN frames /\ j < k BY <1>5
  <2>2. g.fn \in Branch \cup {"body"} BY <1>5
  <2> QED BY <1>1, <1>5, <1>9, <2>1, <2>2 DEF Run
<1>12. on => Means(curr) /\ Ctrl(curr) # Dead BY <1>1, <1>5 DEF Meanings
<1> QED BY <1>2, <1>3, <1>4, <1>5, <1>6, <1>7, <1>8, <1>10, <1>11, <1>12

(* h takes the place of the frame on top.                                  *)
LEMMA BranchStep ==
  ASSUME IInv, UNCHANGED <<nodes, next, table, read, fault, val>>, on' \in BOOLEAN,
         NEW k \in Nat, k = Len(frames), k >= 2, NEW g \in BranchFrame, g = frames[k],
         NEW h \in BranchFrame, frames' = SetTop(h),
         NEW lev \in [DOMAIN frames -> Nat], Levels(lev), NEW b \in Nat, b = lev[k - 1],
         env' \in Seq(Env),
         \A l \in DOMAIN env' : (l \in DOMAIN env /\ env'[l] = env[l]) \/ env'[l] = <<>>,
         \A l \in 1 .. b : curr'.list[l] = curr.list[l] /\ env'[l] = env[l],
         Laid(curr'), Filled(curr'), Len(env') = Len(curr'.list),
         Len(curr'.list) = b + (IF h.fn \in {"between", "merge"} THEN 0 ELSE 1),
         Laid(h.other), Filled(h.other), Len(h.other.list) = b,
         \A l \in 1 .. b : h.other.list[l] = curr.list[l],
         \A j \in 1 .. k - 1 : (on' \/ h.was => OnSide(frames[j])),
         on' => OnSide(h) /\ Means(curr)' /\ Ctrl(curr') # Dead,
         Pending(h)'
  PROVE  IInv'
<1>1. frames \in Seq(Frame) /\ DOMAIN frames = 1 .. k BY DEF IInv, Blocks0
<1>2. h \in Frame /\ h.fn \in Branch /\ PutAside(h) = {h.other}
  <2>1. h \in Frame /\ h.fn \in Branch BY DEF BranchFrame, Frame
  <2> QED BY <2>1, FrameParts
<1>3. PICK m : m = k - 1 OBVIOUS
<1>4. /\ m \in Nat /\ m >= 1 /\ m <= k /\ k = m + 1 /\ k # m /\ \A i \in m + 1 .. k : i = k
      /\ lev[m] = b
  BY <1>3
<1>5. Stay(m) /\ Len(frames') = k /\ frames'[k] = h BY <1>1, <1>2, <1>3, StayTop
<1>6. frames[k].fn # "body" /\ h.fn # "body" /\ h.fn # "func"
  BY <1>2 DEF BranchFrame, Branch
<1>7. /\ Graph' /\ Grown /\ ValOK' /\ EnvOK' /\ \A sc : Filled(sc) => Filled(sc)'
  <2>1. \A i \in m + 1 .. k : frames[i].fn # "body" BY <1>4, <1>6
  <2>2. k = m + 1 => frames'[m + 1].fn # "body" BY <1>5, <1>6
  <2>3. UNCHANGED <<nodes, next, table, val>> OBVIOUS
  <2> QED BY <1>4, <1>5, <2>1, <2>2, <2>3, QuietStep
<1>8. Rest' BY DEF IInv, Rest
<1>9. Filled(curr)'
  <2>1. PICK sd : sd = curr' OBVIOUS
  <2>2. Filled(sd)' BY <1>7, <2>1
  <2> QED BY <2>1, <2>2 DEF Filled
<1>10. NewFrame(h, m, lev[m])
  <2>1. \A s \in PutAside(h) : /\ Laid(s) /\ Filled(s)' /\ Len(s.list) = b
                               /\ \A l \in 1 .. Len(s.list) : s.list[l] = curr'.list[l]
    BY <1>2, <1>7
  <2>2. h.was => \A j \in 1 .. m : OnSide(frames[j]) BY <1>3
  <2> QED BY <1>4, <1>6, <2>1, <2>2 DEF NewFrame
<1>11. on' => \A i \in 1 .. m : OnSide(frames[i]) BY <1>3
<1>12. /\ \A l \in 1 .. lev[m] : curr'.list[l] = curr.list[l]
       /\ \A l \in 1 .. lev[m] : env'[l] = env[l]
  BY <1>4
<1>13. k = m + 1 => \E f : f = frames'[m + 1] /\ NewFrame(f, m, lev[m]) BY <1>4, <1>5, <1>10
<1> QED BY <1>4, <1>5, <1>7, <1>8, <1>9, <1>11, <1>12, <1>13, FramesStep

LEMMA PoppedEnv ==
  ASSUME env \in Seq(Env), NEW z \in Nat, z >= 1, z = Len(env), env' = Front(env), NEW b, b = z - 1
  PROVE  /\ env' \in Seq(Env) /\ Len(env') = b /\ \A l \in 1 .. b : env'[l] = env[l]
         /\ \A l \in DOMAIN env' : (l \in DOMAIN env /\ env'[l] = env[l]) \/ env'[l] = <<>>
BY EnvPop

(* Two scopes that go on with the same meaning.                            *)
LEMMA MeansOn ==
  ASSUME IInv, Grown, NEW sc, Laid(sc), Filled(sc), Means(sc), NEW b, Len(sc.list) = b,
         \A l \in 1 .. b : env'[l] = env[l]
  PROVE  Means(sc)'
<1>1. DOMAIN sc.list = 1 .. b BY LaidParts
<1> QED BY <1>1, MeansStays DEF IInv

LEMMA QuietGrown ==
  ASSUME IInv, UNCHANGED <<nodes, next, table, val>>
  PROVE  Grown
<1>1. next' = next /\ nodes' = nodes /\ val' = val OBVIOUS
<1>2. next \in 1 .. MaxNode + 1 /\ MaxNode \in Nat BY ScopeAssumption DEF IInv, Graph
<1>3. next' \in next .. MaxNode + 1 BY <1>1, <1>2
<1>4. \A n \in Node : n >= next /\ nodes'[n].kind = "phi" => nodes'[n].reg >= next
  BY <1>1 DEF IInv, Graph, Gone
<1> QED BY <1>1, <1>3, <1>4 DEF Grown

LEMMA EndThenStep ==
  ASSUME IInv, EndThen
  PROVE  IInv'
<1>0. Top({"then"}) /\ {"then"} \subseteq Branch BY DEF EndThen, Branch
<1>1. PICK k \in Nat, g \in BranchFrame, lev \in [DOMAIN frames -> Nat], z \in Nat :
        /\ k = Len(frames) /\ k >= 2 /\ DOMAIN frames = 1 .. k /\ g = frames[k] /\ g = Last(frames)
        /\ g.fn \in {"then"}
        /\ Levels(lev) /\ z = Len(curr.list) /\ z >= 2 /\ Len(env) = z
        /\ z = lev[k - 1] + (IF g.fn \in {"between", "merge"} THEN 0 ELSE 1)
        /\ Laid(curr) /\ Filled(curr)
        /\ Laid(g.other) /\ Filled(g.other) /\ Len(g.other.list) = lev[k - 1]
        /\ \A l \in 1 .. lev[k - 1] : g.other.list[l] = curr.list[l]
        /\ Pending(g) /\ (on => OnSide(g) /\ Means(curr) /\ Ctrl(curr) # Dead)
        /\ \A j \in 1 .. k - 1 : (on \/ g.was => OnSide(frames[j]))
  BY <1>0, BranchTop
<1>2. PICK b : b = lev[k - 1] OBVIOUS
<1>3. b \in Nat /\ z = b + 1 /\ b = z - 1 /\ z >= 1
  <2>1. k - 1 \in 1 .. k BY <1>1
  <2>2. b \in Nat BY <1>1, <1>2, <2>1
  <2> QED BY <1>1, <1>2, <2>2, SMTT(30)
<1> DEFINE new == [g EXCEPT !.fn = "between", !.other = PopScope(curr), !.cont = on]
<1>4. /\ frames' = SetTop(new) /\ curr' = SetCtrl(g.other, g.ctrl) /\ env' = Front(env)
      /\ on' = (g.was /\ ~ g.take)
      /\ UNCHANGED <<nodes, next, table, read, fault, val>>
  BY <1>1 DEF EndThen
<1>5. PICK sc : sc = PopScope(curr) OBVIOUS
<1>6. PICK hh : hh = new OBVIOUS
<1>7. on \in BOOLEAN /\ env \in Seq(Env) BY DEF IInv, Rest, Values
<1>9. /\ Laid(sc) /\ Len(sc.list) = b /\ \A l \in 1 .. b : sc.list[l] = curr.list[l]
      /\ Filled(sc) /\ sc \in Scope /\ sc.slots[1] = curr.slots[1]
  <2>1. /\ Laid(sc) /\ Len(sc.list) = b /\ \A l \in 1 .. b : sc.list[l] = curr.list[l]
        /\ Len(sc.slots) \in 1 .. Len(curr.slots)
        /\ \A s \in 1 .. Len(sc.slots) : sc.slots[s] = curr.slots[s]
    BY <1>1, <1>3, <1>5, Popped, ZenonT(40)
  <2>2. Len(curr.slots) \in Nat BY <1>1, LaidParts
  <2>3. 1 \in 1 .. Len(sc.slots) BY <2>1, <2>2
  <2> QED BY <1>1, <1>5, <2>1, <2>3, FilledPop, LaidParts
<1>10. /\ hh \in BranchFrame /\ hh.fn = "between" /\ hh.other = sc /\ hh.was = g.was
       /\ hh.take = g.take /\ hh.cont = on
  <2>1. "between" \in Branch BY DEF Branch
  <2>2. hh = [g EXCEPT !.fn = "between", !.other = sc, !.cont = on] BY <1>5, <1>6
  <2> HIDE DEF new
  <2>3. hh.fn = "between" /\ hh.other = sc /\ hh.was = g.was /\ hh.take = g.take /\ hh.cont = on
    BY <2>2 DEF BranchFrame
  <2>4. hh \in BranchFrame BY <1>7, <1>9, <2>1, <2>2 DEF BranchFrame
  <2> QED BY <2>3, <2>4
<1> HIDE DEF new
<1>11. g.ctrl \in Made \cup {Live, Dead} /\ g.ctrl \in Node \cup {Live, Dead}
  BY <1>1 DEF Pending, BranchFrame
<1>12. /\ Laid(curr') /\ Filled(curr') /\ Len(curr'.list) = b /\ Ctrl(curr') = g.ctrl
       /\ \A l \in 1 .. b : curr'.list[l] = curr.list[l]
  BY <1>1, <1>2, <1>4, <1>11, NewControl, FilledControl
<1>13. /\ env' \in Seq(Env) /\ Len(env') = b /\ \A l \in 1 .. b : env'[l] = env[l]
       /\ \A l \in DOMAIN env' : (l \in DOMAIN env /\ env'[l] = env[l]) \/ env'[l] = <<>>
  BY <1>1, <1>3, <1>4, <1>7, PoppedEnv
<1>14. Grown BY <1>4, QuietGrown
<1>15. on' \in BOOLEAN /\ \A j \in 1 .. k - 1 : (on' \/ hh.was => OnSide(frames[j]))
  BY <1>1, <1>4, <1>10 DEF BranchFrame
<1>16. on' => Means(curr)' /\ Ctrl(curr') # Dead
  <2> SUFFICES ASSUME g.was, ~ g.take PROVE Means(curr)' /\ Ctrl(curr') # Dead BY <1>4
  <2>1. g.fn = "then" BY <1>1
  <2>2. Means(g.other) /\ g.ctrl # Dead BY <1>1, <2>1 DEF Pending
  <2>3. PICK st : st = g.other OBVIOUS
  <2>4. Laid(st) /\ Filled(st) /\ Means(st) /\ Len(st.list) = b BY <1>1, <1>2, <2>2, <2>3
  <2>5. Means(st)' BY <1>13, <1>14, <2>4, MeansOn
  <2>6. PICK sd : sd = curr' OBVIOUS
  <2>7. sd = SetCtrl(st, g.ctrl) BY <1>4, <2>3, <2>6
  <2>8. Means(sd)' BY <1>11, <2>4, <2>5, <2>7, MeansControl
  <2> QED BY <1>12, <2>2, <2>6, <2>8
<1>17. Pending(hh)'
  <2>1. ASSUME on PROVE hh.was /\ hh.take /\ Means(hh.other)' /\ Ctrl(hh.other) # Dead
    <3>1. g.was /\ g.take BY <1>1, <2>1 DEF OnSide
    <3>2. Means(curr) /\ Ctrl(curr) # Dead BY <1>1, <2>1
    <3>3. PICK st : st = curr OBVIOUS
    <3>4. Laid(st) /\ Means(st) /\ Len(st.list) >= 2 /\ sc = PopScope(st) BY <1>1, <1>5, <3>2, <3>3
    <3>5. Means(sc) BY <3>4, MeansPop
    <3>6. Means(sc)' BY <1>9, <1>13, <1>14, <3>5, MeansOn
    <3>7. Ctrl(sc) # Dead BY <1>9, <3>2 DEF Ctrl
    <3> QED BY <1>10, <3>1, <3>6, <3>7
  <2>2. Ctrl(hh.other)' = Ctrl(hh.other) BY DEF Ctrl
  <2> QED BY <1>10, <2>1, <2>2 DEF Pending
<1>18. on' => OnSide(hh) BY <1>4, <1>10 DEF OnSide
<1>19. /\ Len(env') = Len(curr'.list)
       /\ Len(curr'.list) = b + (IF hh.fn \in {"between", "merge"} THEN 0 ELSE 1)
  BY <1>3, <1>10, <1>12, <1>13
<1>20. /\ Laid(hh.other) /\ Filled(hh.other) /\ Len(hh.other.list) = b
       /\ \A l \in 1 .. b : hh.other.list[l] = curr.list[l]
  BY <1>9, <1>10
<1>21. \A l \in 1 .. b : curr'.list[l] = curr.list[l] /\ env'[l] = env[l] BY <1>12, <1>13
<1>22. frames' = SetTop(hh) BY <1>4, <1>6
<1>23. UNCHANGED <<nodes, next, table, read, fault, val>> BY <1>4
<1>24. k = Len(frames) /\ k >= 2 /\ g = frames[k] /\ Levels(lev) /\ b \in Nat /\ b = lev[k - 1]
  BY <1>1, <1>2, <1>3
<1>25. Laid(curr') /\ Filled(curr') BY <1>12
<1>26. /\ env' \in Seq(Env)
       /\ \A l \in DOMAIN env' : (l \in DOMAIN env /\ env'[l] = env[l]) \/ env'[l] = <<>>
  BY <1>13
<1>27. on' => OnSide(hh) /\ Means(curr)' /\ Ctrl(curr') # Dead BY <1>16, <1>18
<1>28. hh \in BranchFrame BY <1>10
<1> QED BY <1>15, <1>17, <1>19, <1>20, <1>21, <1>22, <1>23, <1>24, <1>25, <1>26, <1>27, <1>28, BranchStep, ZenonT(40)

LEMMA ElseStep ==
  ASSUME IInv, Else
  PROVE  IInv'
<1>0. Top({"between"}) /\ {"between"} \subseteq Branch BY DEF Else, Branch
<1>1. PICK k \in Nat, g \in BranchFrame, lev \in [DOMAIN frames -> Nat], z \in Nat :
        /\ k = Len(frames) /\ k >= 2 /\ DOMAIN frames = 1 .. k /\ g = frames[k] /\ g = Last(frames)
        /\ g.fn \in {"between"}
        /\ Levels(lev) /\ z = Len(curr.list) /\ z >= 2 /\ Len(env) = z
        /\ z = lev[k - 1] + (IF g.fn \in {"between", "merge"} THEN 0 ELSE 1)
        /\ Laid(curr) /\ Filled(curr)
        /\ Laid(g.other) /\ Filled(g.other) /\ Len(g.other.list) = lev[k - 1]
        /\ \A l \in 1 .. lev[k - 1] : g.other.list[l] = curr.list[l]
        /\ Pending(g) /\ (on => OnSide(g) /\ Means(curr) /\ Ctrl(curr) # Dead)
        /\ \A j \in 1 .. k - 1 : (on \/ g.was => OnSide(frames[j]))
  BY <1>0, BranchTop
<1>2. PICK b : b = lev[k - 1] OBVIOUS
<1>3. b \in Nat /\ z = b
  <2>1. k - 1 \in 1 .. k BY <1>1
  <2>2. b \in Nat BY <1>1, <1>2, <2>1
  <2> QED BY <1>1, <1>2, <2>2
<1>4. PICK h : h = Become(g, "else") OBVIOUS
<1>5. /\ frames' = SetTop(h) /\ curr' = PushScope(curr) /\ env' = Append(env, <<>>)
      /\ UNCHANGED <<nodes, next, table, read, fault, val, on>>
  BY <1>1, <1>4 DEF Else, Enter
<1>6. /\ h \in BranchFrame /\ h.fn = "else" /\ h.other = g.other /\ h.was = g.was
      /\ h.take = g.take /\ h.cont = g.cont
  <2>1. "else" \in Branch BY DEF Branch
  <2> QED BY <1>4, <2>1, Retagged
<1>7. on \in BOOLEAN /\ env \in Seq(Env) BY DEF IInv, Rest, Values
<1>8. /\ env' \in Seq(Env) /\ Len(env') = b + 1 /\ env'[b + 1] = <<>>
      /\ \A l \in 1 .. b : env'[l] = env[l]
      /\ \A l \in DOMAIN env' : (l \in DOMAIN env /\ env'[l] = env[l]) \/ env'[l] = <<>>
  BY <1>1, <1>3, <1>5, <1>7, EnvPush
<1>9. /\ Laid(curr') /\ Len(curr'.list) = b + 1 /\ \A l \in 1 .. b : curr'.list[l] = curr.list[l]
      /\ curr'.slots = curr.slots
  <2>1. Laid(curr) /\ Len(curr.list) = b /\ curr' = PushScope(curr) BY <1>1, <1>3, <1>5
  <2> QED BY <2>1, Pushed
<1>10. Filled(curr') BY <1>1, <1>9 DEF Filled
<1>11. Grown BY <1>5, QuietGrown
<1>12. on' => OnSide(h) /\ Means(curr)' /\ Ctrl(curr') # Dead
  <2> SUFFICES ASSUME on PROVE OnSide(h) /\ Means(curr)' /\ Ctrl(curr') # Dead BY <1>5
  <2>1. PICK st : st = curr OBVIOUS
  <2>2. PICK sd : sd = curr' OBVIOUS
  <2>3. Laid(st) /\ Filled(st) /\ Means(st) /\ Len(st.list) = b /\ sd = PushScope(st)
    BY <1>1, <1>3, <1>5, <2>1, <2>2
  <2>4. Means(st)' BY <1>8, <1>11, <2>3, MeansOn
  <2>5. env'[Len(st.list) + 1] = <<>> BY <1>8, <2>3
  <2>6. Means(sd)' BY <2>3, <2>4, <2>5, MeansPush
  <2>7. OnSide(h) BY <1>1, <1>6 DEF OnSide
  <2> QED BY <1>1, <1>9, <2>2, <2>6, <2>7 DEF Ctrl
<1>13. Pending(h)'
  <2>1. ASSUME h.cont PROVE h.was /\ h.take /\ Means(h.other)' /\ Ctrl(h.other) # Dead
    <3>1. g.was /\ g.take /\ Means(g.other) /\ Ctrl(g.other) # Dead BY <1>1, <1>6, <2>1 DEF Pending
    <3>2. PICK st : st = g.other OBVIOUS
    <3>3. Laid(st) /\ Filled(st) /\ Means(st) /\ Len(st.list) = b BY <1>1, <1>2, <3>1, <3>2
    <3>4. Means(st)' BY <1>8, <1>11, <3>3, MeansOn
    <3>5. h.other = st BY <1>6, <3>2
    <3> QED BY <1>6, <3>1, <3>2, <3>4, <3>5
  <2>2. Ctrl(h.other)' = Ctrl(h.other) BY DEF Ctrl
  <2> QED BY <1>6, <2>1, <2>2 DEF Pending
<1>14. on' \in BOOLEAN /\ \A j \in 1 .. k - 1 : (on' \/ h.was => OnSide(frames[j]))
  BY <1>1, <1>5, <1>6, <1>7
<1>15. /\ Len(env') = Len(curr'.list)
       /\ Len(curr'.list) = b + (IF h.fn \in {"between", "merge"} THEN 0 ELSE 1)
  BY <1>3, <1>6, <1>8, <1>9
<1>16. /\ Laid(h.other) /\ Filled(h.other) /\ Len(h.other.list) = b
       /\ \A l \in 1 .. b : h.other.list[l] = curr.list[l]
  BY <1>1, <1>2, <1>6
<1>17. \A l \in 1 .. b : curr'.list[l] = curr.list[l] /\ env'[l] = env[l] BY <1>8, <1>9
<1>18. frames' = SetTop(h) /\ h \in BranchFrame BY <1>5, <1>6
<1>19. UNCHANGED <<nodes, next, table, read, fault, val>> BY <1>5
<1>20. k = Len(frames) /\ k >= 2 /\ g = frames[k] /\ Levels(lev) /\ b \in Nat /\ b = lev[k - 1]
  BY <1>1, <1>2, <1>3
<1>21. Laid(curr') BY <1>9
<1>22. /\ env' \in Seq(Env)
       /\ \A l \in DOMAIN env' : (l \in DOMAIN env /\ env'[l] = env[l]) \/ env'[l] = <<>>
  BY <1>8
<1> QED BY <1>10, <1>12, <1>13, <1>14, <1>15, <1>16, <1>17, <1>18, <1>19, <1>20, <1>21, <1>22, BranchStep, ZenonT(40)

LEMMA EndElseStep ==
  ASSUME IInv, EndElse
  PROVE  IInv'
<1>0. Top({"else"}) /\ {"else"} \subseteq Branch BY DEF EndElse, Branch
<1>1. PICK k \in Nat, g \in BranchFrame, lev \in [DOMAIN frames -> Nat], z \in Nat :
        /\ k = Len(frames) /\ k >= 2 /\ DOMAIN frames = 1 .. k /\ g = frames[k] /\ g = Last(frames)
        /\ g.fn \in {"else"}
        /\ Levels(lev) /\ z = Len(curr.list) /\ z >= 2 /\ Len(env) = z
        /\ z = lev[k - 1] + (IF g.fn \in {"between", "merge"} THEN 0 ELSE 1)
        /\ Laid(curr) /\ Filled(curr)
        /\ Laid(g.other) /\ Filled(g.other) /\ Len(g.other.list) = lev[k - 1]
        /\ \A l \in 1 .. lev[k - 1] : g.other.list[l] = curr.list[l]
        /\ Pending(g) /\ (on => OnSide(g) /\ Means(curr) /\ Ctrl(curr) # Dead)
        /\ \A j \in 1 .. k - 1 : (on \/ g.was => OnSide(frames[j]))
  BY <1>0, BranchTop
<1>2. PICK b : b = lev[k - 1] OBVIOUS
<1>3. b \in Nat /\ z = b + 1 /\ b = z - 1 /\ z >= 1
  <2>1. k - 1 \in 1 .. k BY <1>1
  <2>2. b \in Nat BY <1>1, <1>2, <2>1
  <2> QED BY <1>1, <1>2, <2>2
<1>4. PICK h : h = Become(g, "merge") OBVIOUS
<1>5. /\ frames' = SetTop(h) /\ curr' = PopScope(curr) /\ env' = Front(env)
      /\ UNCHANGED <<nodes, next, table, read, fault, val, on>>
  BY <1>1, <1>4 DEF EndElse
<1>6. /\ h \in BranchFrame /\ h.fn = "merge" /\ h.other = g.other /\ h.was = g.was
      /\ h.take = g.take /\ h.cont = g.cont
  <2>1. "merge" \in Branch BY DEF Branch
  <2> QED BY <1>4, <2>1, Retagged
<1>7. on \in BOOLEAN /\ env \in Seq(Env) BY DEF IInv, Rest, Values
<1>8. /\ env' \in Seq(Env) /\ Len(env') = b /\ \A l \in 1 .. b : env'[l] = env[l]
      /\ \A l \in DOMAIN env' : (l \in DOMAIN env /\ env'[l] = env[l]) \/ env'[l] = <<>>
  BY <1>1, <1>3, <1>5, <1>7, PoppedEnv
<1>9. /\ Laid(curr') /\ Len(curr'.list) = b /\ \A l \in 1 .. b : curr'.list[l] = curr.list[l]
      /\ Filled(curr') /\ curr'.slots[1] = curr.slots[1]
  <2>1. /\ Laid(curr') /\ Len(curr'.list) = b /\ \A l \in 1 .. b : curr'.list[l] = curr.list[l]
        /\ Len(curr'.slots) \in 1 .. Len(curr.slots)
        /\ \A s \in 1 .. Len(curr'.slots) : curr'.slots[s] = curr.slots[s]
    BY <1>1, <1>3, <1>5, Popped, ZenonT(40)
  <2>2. Len(curr.slots) \in Nat BY <1>1, LaidParts
  <2>3. 1 \in 1 .. Len(curr'.slots) BY <2>1, <2>2
  <2> QED BY <1>1, <1>5, <2>1, <2>3, FilledPop
<1>11. Grown BY <1>5, QuietGrown
<1>12. on' => OnSide(h) /\ Means(curr)' /\ Ctrl(curr') # Dead
  <2> SUFFICES ASSUME on PROVE OnSide(h) /\ Means(curr)' /\ Ctrl(curr') # Dead BY <1>5
  <2>1. PICK st : st = curr OBVIOUS
  <2>2. PICK sd : sd = curr' OBVIOUS
  <2>3. Laid(st) /\ Means(st) /\ Len(st.list) >= 2 /\ sd = PopScope(st)
    BY <1>1, <1>5, <2>1, <2>2
  <2>4. Means(sd) BY <2>3, MeansPop
  <2>5. Laid(sd) /\ Filled(sd) /\ Len(sd.list) = b BY <1>9, <2>2
  <2>6. Means(sd)' BY <1>8, <1>11, <2>4, <2>5, MeansOn
  <2>7. OnSide(h) BY <1>1, <1>6 DEF OnSide
  <2> QED BY <1>1, <1>9, <2>2, <2>6, <2>7 DEF Ctrl
<1>13. Pending(h)'
  <2>1. ASSUME h.cont PROVE h.was /\ h.take /\ Means(h.other)' /\ Ctrl(h.other) # Dead
    <3>1. g.was /\ g.take /\ Means(g.other) /\ Ctrl(g.other) # Dead BY <1>1, <1>6, <2>1 DEF Pending
    <3>2. PICK st : st = g.other OBVIOUS
    <3>3. Laid(st) /\ Filled(st) /\ Means(st) /\ Len(st.list) = b BY <1>1, <1>2, <3>1, <3>2
    <3>4. Means(st)' BY <1>8, <1>11, <3>3, MeansOn
    <3>5. h.other = st BY <1>6, <3>2
    <3> QED BY <1>6, <3>1, <3>2, <3>4, <3>5
  <2>2. Ctrl(h.other)' = Ctrl(h.other) BY DEF Ctrl
  <2> QED BY <1>6, <2>1, <2>2 DEF Pending
<1>14. on' \in BOOLEAN /\ \A j \in 1 .. k - 1 : (on' \/ h.was => OnSide(frames[j]))
  BY <1>1, <1>5, <1>6, <1>7
<1>15. /\ Len(env') = Len(curr'.list)
       /\ Len(curr'.list) = b + (IF h.fn \in {"between", "merge"} THEN 0 ELSE 1)
  BY <1>3, <1>6, <1>8, <1>9
<1>16. /\ Laid(h.other) /\ Filled(h.other) /\ Len(h.other.list) = b
       /\ \A l \in 1 .. b : h.other.list[l] = curr.list[l]
  BY <1>1, <1>2, <1>6
<1>17. \A l \in 1 .. b : curr'.list[l] = curr.list[l] /\ env'[l] = env[l] BY <1>8, <1>9
<1>18. frames' = SetTop(h) /\ h \in BranchFrame BY <1>5, <1>6
<1>19. UNCHANGED <<nodes, next, table, read, fault, val>> BY <1>5
<1>20. k = Len(frames) /\ k >= 2 /\ g = frames[k] /\ Levels(lev) /\ b \in Nat /\ b = lev[k - 1]
  BY <1>1, <1>2, <1>3
<1>21. Laid(curr') /\ Filled(curr') BY <1>9
<1>22. /\ env' \in Seq(Env)
       /\ \A l \in DOMAIN env' : (l \in DOMAIN env /\ env'[l] = env[l]) \/ env'[l] = <<>>
  BY <1>8
<1> QED BY <1>12, <1>13, <1>14, <1>15, <1>16, <1>17, <1>18, <1>19, <1>20, <1>21, <1>22, BranchStep, ZenonT(40)
=============================================================================
