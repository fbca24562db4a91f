------------------------ MODULE SeaScopeSafetyProofs ------------------------
(***************************************************************************)
(* The rest of the proofs about SeaScope: merges and loops keep the         *)
(* invariant, what follows from it, and that the phis of a loop mean what   *)
(* its variables did before the loop and at the end of its body.           *)
(***************************************************************************)
EXTENDS SeaScopeProofs

-----------------------------------------------------------------------------
(* Where branches meet.                                                    *)
LEMMA Counting ==
  ASSUME NEW z \in Nat, NEW D, D \subseteq 2 .. z
  PROVE  /\ Cardinality(D) \in Nat
         /\ \A i \in D : Cardinality({j \in D : j <= i}) \in 1 .. Cardinality(D)
         /\ \A i, h \in D :
              Cardinality({j \in D : j <= i}) = Cardinality({j \in D : j <= h}) => i = h
<1>1. IsFiniteSet(D)
  <2>1. IsFiniteSet(2 .. z) BY FS_Interval
  <2>2. D \in SUBSET (2 .. z) OBVIOUS
  <2> QED BY <2>1, <2>2, FS_Subset
<1>9. \A i \in D : i \in Nat OBVIOUS
<1>2. Cardinality(D) \in Nat BY <1>1, FS_CardinalityType
<1> DEFINE upto(i) == {j \in D : j <= i}
           count(i) == Cardinality(upto(i))
<1>3. \A i \in D : upto(i) \subseteq D /\ i \in upto(i) OBVIOUS
<1>4. \A i \in D : IsFiniteSet(upto(i)) /\ count(i) \in Nat /\ count(i) <= Cardinality(D)
  <2> TAKE i \in D
  <2>1. upto(i) \in SUBSET D BY <1>3
  <2> HIDE DEF upto
  <2>2. IsFiniteSet(upto(i)) /\ Cardinality(upto(i)) <= Cardinality(D) BY <1>1, <2>1, FS_Subset
  <2>3. Cardinality(upto(i)) \in Nat BY <2>2, FS_CardinalityType
  <2> QED BY <2>2, <2>3
<1>5. \A i \in D : count(i) # 0
  <2> TAKE i \in D
  <2>1. upto(i) # {} BY <1>3
  <2> HIDE DEF upto
  <2> QED BY <1>4, <2>1, FS_EmptySet
<1>6. \A i, h \in D : h < i => count(h) < count(i)
  <2> SUFFICES ASSUME NEW i \in D, NEW h \in D, h < i PROVE count(h) < count(i) OBVIOUS
  <2>0. i \in Nat /\ h \in Nat OBVIOUS
  <2>1. upto(h) \in SUBSET upto(i) /\ i \notin upto(h) /\ i \in upto(i)
    <3>1. i \in upto(i) BY <2>0
    <3>2. i \notin upto(h) BY <2>0
    <3>3. \A j \in upto(h) : j \in upto(i)
      <4> TAKE j \in upto(h)
      <4>1. j \in D /\ j \in Nat /\ j <= h BY <1>9
      <4>2. j <= i BY <2>0, <4>1
      <4> QED BY <4>1, <4>2
    <3> QED BY <3>1, <3>2, <3>3
  <2> HIDE DEF upto
  <2>2. /\ Cardinality(upto(h)) <= Cardinality(upto(i))
        /\ Cardinality(upto(i)) = Cardinality(upto(h)) => upto(i) = upto(h)
    BY <1>4, <2>1, FS_Subset
  <2>3. Cardinality(upto(h)) # Cardinality(upto(i)) BY <2>1, <2>2
  <2>4. count(h) \in Nat /\ count(i) \in Nat BY <1>4
  <2> QED BY <2>2, <2>3, <2>4
<1>7. \A i \in D : count(i) \in 1 .. Cardinality(D)
  <2> TAKE i \in D
  <2>1. PICK w : w = count(i) OBVIOUS
  <2>2. w \in Nat /\ w <= Cardinality(D) /\ w # 0 BY <1>4, <1>5, <2>1
  <2>3. w \in 1 .. Cardinality(D) BY <1>2, <2>2
  <2> QED BY <2>1, <2>3
<1>8. \A i, h \in D : count(i) = count(h) => i = h
  <2> SUFFICES ASSUME NEW i \in D, NEW h \in D, count(i) = count(h), i # h PROVE FALSE OBVIOUS
  <2>1. i \in Nat /\ h \in Nat OBVIOUS
  <2>2. i < h \/ h < i BY <2>1
  <2>3. count(i) \in Nat /\ count(h) \in Nat BY <1>4
  <2> HIDE DEF count
  <2> QED BY <1>6, <2>2, <2>3
<1> QED BY <1>2, <1>7, <1>8

(* Scopes with the same blocks have as many slots.                         *)
LEMMA SameSlots ==
  ASSUME NEW this, Laid(this), NEW that, Laid(that), this.list = that.list
  PROVE  Len(this.slots) = Len(that.slots)
<1>1. Len(this.list) \in DOMAIN this.list BY LaidParts
<1> QED BY <1>1 DEF Laid, Numbered

Meet(this, that) ==
  /\ Laid(this) /\ Filled(this) /\ Laid(that) /\ Filled(that) /\ this.list = that.list
  /\ next + Cardinality(Differing(this, that)) <= MaxNode

(* The phis of a merge are new nodes, one for each slot that differs.       *)
LEMMA MergePhis ==
  ASSUME Graph, NEW this, NEW that, Meet(this, that)
  PROVE  /\ next \in Node /\ next \in Nat /\ Cardinality(Differing(this, that)) \in Nat
         /\ \A i \in Differing(this, that) :
              /\ i \in 2 .. Len(this.slots)
              /\ MergePhi(this, that, i) \in next + 1 .. next + Cardinality(Differing(this, that))
              /\ MergePhi(this, that, i) \in Node
         /\ \A i, h \in Differing(this, that) :
              MergePhi(this, that, i) = MergePhi(this, that, h) => i = h
<1> DEFINE D == Differing(this, that)
           c == Cardinality(D)
<1>1. Len(this.slots) \in Nat BY LaidParts DEF Meet
<1>2. D \subseteq 2 .. Len(this.slots) BY DEF Differing
<1> HIDE DEF D
<1>3. /\ c \in Nat
      /\ \A i \in D : Cardinality({j \in D : j <= i}) \in 1 .. c
      /\ \A i, h \in D : Cardinality({j \in D : j <= i}) = Cardinality({j \in D : j <= h}) => i = h
  BY <1>1, <1>2, Counting
<1>4. next \in 1 .. MaxNode + 1 /\ MaxNode \in Nat /\ next + c <= MaxNode
  BY ScopeAssumption DEF Graph, Meet, D
<1> HIDE DEF c
<1>5. next \in Node /\ next \in Nat BY <1>3, <1>4 DEF Node
<1>6. \A i : MergePhi(this, that, i) = next + Cardinality({j \in D : j <= i}) BY DEF MergePhi, D
<1>7. ASSUME NEW i \in D
      PROVE  MergePhi(this, that, i) \in next + 1 .. next + c /\ MergePhi(this, that, i) \in Node
  <2>1. PICK w : w = Cardinality({j \in D : j <= i}) OBVIOUS
  <2>2. w \in 1 .. c /\ MergePhi(this, that, i) = next + w BY <1>3, <1>6, <2>1
  <2> QED BY <1>3, <1>4, <2>2 DEF Node
<1>8. ASSUME NEW i \in D, NEW h \in D, MergePhi(this, that, i) = MergePhi(this, that, h)
      PROVE  i = h
  <2>1. PICK w : w = Cardinality({j \in D : j <= i}) OBVIOUS
  <2>2. PICK v : v = Cardinality({j \in D : j <= h}) OBVIOUS
  <2>3. w \in 1 .. c /\ v \in 1 .. c /\ next + w = next + v BY <1>3, <1>6, <1>8, <2>1, <2>2
  <2>4. w = v BY <1>3, <1>5, <2>3
  <2> QED BY <1>3, <2>1, <2>2, <2>4
<1> QED BY <1>2, <1>3, <1>5, <1>7, <1>8 DEF D, c

(* The nodes and the scope of a merge, before its region is looked at.      *)
LEMMA Merged ==
  ASSUME Graph, NEW this, NEW that, Meet(this, that)
  PROVE  LET nds == MergeNodes(this, that)
             sc  == MergeHead(this, that)
             D   == Differing(this, that)
         IN
         /\ nds \in [Node -> Rec]
         /\ \A n \in 1 .. next - 1 : nds[n] = nodes[n]
         /\ nds[next] = Region(<<Ctrl(this), Ctrl(that)>>)
         /\ \A i \in D : nds[MergePhi(this, that, i)] = Phi(next, <<this.slots[i], that.slots[i]>>)
         /\ \A n \in Node : n >= next =>
              n = next \/ (\E i \in D : n = MergePhi(this, that, i)) \/ nds[n] = Gone
         /\ Laid(sc) /\ sc.list = this.list /\ Len(sc.slots) = Len(this.slots)
         /\ sc.slots[1] = this.slots[1]
         /\ \A i \in 2 .. Len(this.slots) :
              sc.slots[i] = IF i \in D THEN MergePhi(this, that, i) ELSE this.slots[i]
         /\ \A i \in 2 .. Len(this.slots) :
              /\ this.slots[i] \in Valued /\ that.slots[i] \in Valued
              /\ i \notin D => this.slots[i] = that.slots[i]
<1> DEFINE nds == MergeNodes(this, that)
           sc  == MergeHead(this, that)
           D   == Differing(this, that)
           c   == Cardinality(D)
           p(i) == MergePhi(this, that, i)
           rec(n) == IF n = next THEN Region(<<Ctrl(this), Ctrl(that)>>)
                     ELSE IF \E i \in D : n = p(i)
                     THEN LET i == CHOOSE j \in D : n = p(j)
                          IN  Phi(next, <<this.slots[i], that.slots[i]>>)
                     ELSE nodes[n]
<1>1. /\ Laid(this) /\ Filled(this) /\ Laid(that) /\ Filled(that) /\ this.list = that.list
      /\ next + c <= MaxNode
  BY DEF Meet
<1>2. /\ next \in Node /\ next \in Nat /\ c \in Nat
      /\ \A i \in D : i \in 2 .. Len(this.slots) /\ p(i) \in next + 1 .. next + c /\ p(i) \in Node
      /\ \A i, h \in D : p(i) = p(h) => i = h
  BY MergePhis
<1>3. Len(this.slots) = Len(that.slots) /\ Len(this.slots) \in Nat BY <1>1, SameSlots, LaidParts
<1>4. \A i \in 2 .. Len(this.slots) : this.slots[i] \in Valued /\ that.slots[i] \in Valued
  BY <1>1, <1>3 DEF Filled
<1>5. \A i \in 2 .. Len(this.slots) : i \notin D => this.slots[i] = that.slots[i]
  BY DEF Differing
<1>6. nds = [n \in Node |-> rec(n)] BY DEF MergeNodes
<1>7. Made \subseteq Node /\ next \notin Made /\ Null \notin Made
  /\ Ctrl(this) \in Made \cup {Live, Dead} /\ Ctrl(that) \in Made \cup {Live, Dead}
  <2>1. next \in 1 .. MaxNode + 1 /\ MaxNode \in Nat BY ScopeAssumption DEF Graph
  <2>2. Made \subseteq Node /\ next \notin Made /\ Null \notin Made BY <2>1 DEF Made, Node, Null
  <2> QED BY <1>1, <2>2 DEF Filled, Ctrl
<1> HIDE DEF D, c, p
<1>8. ASSUME NEW i \in D PROVE rec(p(i)) = Phi(next, <<this.slots[i], that.slots[i]>>)
  <2> DEFINE h == CHOOSE j \in D : p(i) = p(j)
  <2>1. h \in D /\ p(i) = p(h) BY <1>8
  <2>2. h = i BY <1>2, <2>1, Zenon
  <2>3. p(i) # next BY <1>2
  <2> QED BY <2>2, <2>3, Zenon
<1>9. ASSUME NEW n \in Node PROVE rec(n) \in Rec
  <2>1. CASE n = next
    <3>1. Region(<<Ctrl(this), Ctrl(that)>>) \in Rec
      <4>1. Ctrl(this) \in Node \cup {Null, Live, Dead} /\ Ctrl(that) \in Node \cup {Null, Live, Dead}
        BY <1>7
      <4>2. <<Ctrl(this), Ctrl(that)>> \in Slots BY <4>1 DEF Slots
      <4> QED BY <4>2 DEF Region, Rec
    <3> QED BY <2>1, <3>1
  <2>2. CASE n # next /\ \E i \in D : n = p(i)
    <3>1. PICK i \in D : n = p(i) BY <2>2
    <3>2. rec(n) = Phi(next, <<this.slots[i], that.slots[i]>>) BY <1>8, <3>1
    <3> HIDE DEF rec
    <3>3. this.slots[i] \in Node /\ that.slots[i] \in Node BY <1>2, <1>4, <1>7, <3>1 DEF Valued
    <3>4. <<this.slots[i], that.slots[i]>> \in Slots BY <3>3 DEF Slots
    <3> QED BY <1>2, <3>2, <3>4 DEF Phi, Rec
  <2>3. CASE n # next /\ ~ \E i \in D : n = p(i) BY <2>3 DEF Graph
  <2> QED BY <2>1, <2>2, <2>3
<1>10. nds \in [Node -> Rec]
  <2> HIDE DEF rec
  <2> QED BY <1>6, <1>9
<1>11. \A n \in 1 .. next - 1 : nds[n] = nodes[n]
  <2> TAKE n \in 1 .. next - 1
  <2>1. n \in Node /\ n # next BY <1>2, <1>7 DEF Made
  <2>2. \A i \in D : n # p(i)
    <3> TAKE i \in D
    <3>1. p(i) \in next + 1 .. next + c BY <1>2
    <3> QED BY <1>2, <3>1
  <2> QED BY <1>6, <2>1, <2>2
<1>12. nds[next] = Region(<<Ctrl(this), Ctrl(that)>>) BY <1>2, <1>6
<1>13. \A i \in D : nds[p(i)] = Phi(next, <<this.slots[i], that.slots[i]>>)
  <2> HIDE DEF rec
  <2> QED BY <1>2, <1>6, <1>8
<1>14. \A n \in Node : n >= next => n = next \/ (\E i \in D : n = p(i)) \/ nds[n] = Gone
  BY <1>6 DEF Graph
<1>15. /\ sc \in Scope /\ sc.list = this.list /\ Len(sc.slots) = Len(this.slots)
       /\ sc.slots[1] = this.slots[1]
       /\ \A i \in 2 .. Len(this.slots) :
            sc.slots[i] = IF i \in D THEN p(i) ELSE this.slots[i]
  <2> DEFINE w == [i \in 1 .. Len(this.slots) |-> IF i \in D THEN p(i) ELSE this.slots[i]]
  <2>1. /\ this \in Scope /\ DOMAIN this.slots = 1 .. Len(this.slots) /\ this.slots \in Slots
        /\ this.list \in Seq(Data) /\ Len(this.slots) >= 1
    BY <1>1, LaidParts DEF Scope
  <2>2. sc = [slots |-> w, list |-> this.list]
    <3>1. this = [slots |-> this.slots, list |-> this.list] BY <2>1, ScopeParts
    <3>2. sc = [this EXCEPT !.slots = w] BY <2>1 DEF MergeHead, D, p
    <3> HIDE DEF w, sc
    <3> QED BY <3>1, <3>2
  <2>3. \A i \in 1 .. Len(this.slots) : w[i] \in Node \cup {Null, Live, Dead}
    BY <1>2, <2>1 DEF Slots
  <2>4. w \in Slots /\ Len(w) = Len(this.slots)
    <3>1. PICK q : q = Len(this.slots) OBVIOUS
    <3>2. q \in Nat /\ w \in [1 .. q -> Node \cup {Null, Live, Dead}] BY <1>3, <2>3, <3>1
    <3> HIDE DEF w
    <3>3. w \in Seq(Node \cup {Null, Live, Dead}) /\ Len(w) = q BY <3>2
    <3> QED BY <3>1, <3>3 DEF Slots
  <2>5. w[1] = this.slots[1]
    <3>1. 1 \notin D BY <1>2
    <3>2. 1 \in 1 .. Len(this.slots) BY <1>3, <2>1
    <3> QED BY <3>1, <3>2
  <2>6. \A i \in 2 .. Len(this.slots) : w[i] = IF i \in D THEN p(i) ELSE this.slots[i] BY <1>3
  <2> HIDE DEF w
  <2> QED BY <2>1, <2>2, <2>4, <2>5, <2>6 DEF Scope
<1>16. Laid(sc) BY <1>1, <1>15, SameShape
<1> HIDE DEF nds, sc
<1> QED BY <1>4, <1>5, <1>10, <1>11, <1>12, <1>13, <1>14, <1>15, <1>16 DEF nds, sc, D, p

(* What is left of two inputs when the first or only the second is dead.    *)
LEMMA LeftOver ==
  ASSUME NEW S, NEW a \in S, NEW b \in S
  PROVE  RemoveInput(<<a, b>>, 1)[1] = b /\ RemoveInput(<<a, b>>, 2)[1] = a
<1>1. ASSUME NEW u \in Seq(S), Len(u) = 2 PROVE Front(u)[1] = u[1]
  <2>1. Front(u) = SubSeq(u, 1, 1) BY <1>1 DEF Front
  <2> QED BY <1>1, <2>1
<1> DEFINE t == <<a, b>>
<1>2. t \in Seq(S) /\ Len(t) = 2 /\ Last(t) = b /\ t[1] = a /\ t[2] = b BY DEF Last
<1> HIDE DEF t
<1>3. ASSUME NEW s \in {1, 2} PROVE RemoveInput(t, s)[1] = [t EXCEPT ![s] = b][1]
  <2> DEFINE u == [t EXCEPT ![s] = b]
  <2>1. u \in Seq(S) /\ Len(u) = 2 BY <1>2, <1>3
  <2>2. RemoveInput(t, s) = Front(u) BY <1>2 DEF RemoveInput
  <2> HIDE DEF u
  <2>3. Front(u)[1] = u[1] BY <1>1, <2>1
  <2> QED BY <2>2, <2>3 DEF u
<1>4. [t EXCEPT ![1] = b][1] = b /\ [t EXCEPT ![2] = b][1] = a BY <1>2
<1> QED BY <1>3, <1>4 DEF t

(* Of its two values, the phi of a region keeps the one of the live control. *)
LEMMA MergeLive ==
  ASSUME Graph, NEW this, NEW that, Meet(this, that), Ctrl(this) # Dead, Ctrl(that) # Dead
  PROVE  IdealizeRegion(MergeNodes(this, that), MergeHead(this, that), next)
           = [nodes |-> MergeNodes(this, that), sc |-> SetCtrl(MergeHead(this, that), next)]
<1> DEFINE nds == MergeNodes(this, that)
           dead == {i \in DOMAIN nds[next].args : nds[next].args[i] = Dead}
<1>1. nds[next] = Region(<<Ctrl(this), Ctrl(that)>>) BY Merged
<1>2. nds[next].args = <<Ctrl(this), Ctrl(that)>> BY <1>1 DEF Region
<1>3. dead = {}
  <2>1. \A i \in DOMAIN nds[next].args : i = 1 \/ i = 2 BY <1>2
  <2> HIDE DEF nds
  <2> QED BY <1>2, <2>1
<1> HIDE DEF nds
<1> QED BY <1>3 DEF IdealizeRegion, nds

LEMMA MergeGone ==
  ASSUME Graph, NEW this, NEW that, Meet(this, that), NEW w \in Node
  PROVE  w = next \/ IsPhiOf(MergeNodes(this, that), w, next)
           <=> w = next \/ \E i \in Differing(this, that) : w = MergePhi(this, that, i)
<1> DEFINE nds == MergeNodes(this, that)
           sc  == MergeHead(this, that)
           D   == Differing(this, that)
           p(i) == MergePhi(this, that, i)
           z == Len(this.slots)
<1>1. /\ nds \in [Node -> Rec]
      /\ \A n \in 1 .. next - 1 : nds[n] = nodes[n]
      /\ nds[next] = Region(<<Ctrl(this), Ctrl(that)>>)
      /\ \A i \in D : nds[p(i)] = Phi(next, <<this.slots[i], that.slots[i]>>)
      /\ \A n \in Node : n >= next => n = next \/ (\E i \in D : n = p(i)) \/ nds[n] = Gone
      /\ Laid(sc) /\ sc.list = this.list /\ Len(sc.slots) = z
      /\ sc.slots[1] = this.slots[1]
      /\ \A i \in 2 .. z : sc.slots[i] = IF i \in D THEN p(i) ELSE this.slots[i]
      /\ \A i \in 2 .. z : /\ this.slots[i] \in Valued /\ that.slots[i] \in Valued
                           /\ i \notin D => this.slots[i] = that.slots[i]
  BY Merged
<1>2. \A i \in D : p(i) \in Node BY MergePhis
<1> HIDE DEF nds, D, p
<1>3. ASSUME NEW i \in D, w = p(i) PROVE IsPhiOf(nds, w, next)
  <2>1. nds[w] = Phi(next, <<this.slots[i], that.slots[i]>>) BY <1>1, <1>3
  <2> QED BY <1>2, <1>3, <2>1 DEF IsPhiOf, Phi
<1>4. ASSUME IsPhiOf(nds, w, next), w # next PROVE \E i \in D : w = p(i)
  <2>1. next \in Nat /\ w \in Nat /\ w >= 1 BY MergePhis DEF Node
  <2>2. CASE w < next
    <3>1. nds[w] = nodes[w] BY <1>1, <2>1, <2>2
    <3>2. next \in 1 .. w - 1 BY <1>4, <3>1 DEF IsPhiOf, Graph
    <3> QED BY <2>1, <2>2, <3>2
  <2>3. CASE w >= next BY <1>1, <1>4, <2>3 DEF IsPhiOf, Gone
  <2> QED BY <2>1, <2>2, <2>3
<1> QED BY <1>3, <1>4 DEF nds, D, p

LEMMA MergeDead ==
  ASSUME Graph, NEW this, NEW that, Meet(this, that), Ctrl(this) = Dead \/ Ctrl(that) = Dead
  PROVE  IdealizeRegion(MergeNodes(this, that), MergeHead(this, that), next)
           = [nodes |-> nodes, sc |-> IF Ctrl(this) = Dead THEN that ELSE this]
<1> DEFINE nds == MergeNodes(this, that)
           sc  == MergeHead(this, that)
           D   == Differing(this, that)
           p(i) == MergePhi(this, that, i)
           dead == {i \in DOMAIN nds[next].args : nds[next].args[i] = Dead}
           left(n) == RemoveInput(nds[n].args, Min(dead))[1]
           gone == {n \in Node : n = next \/ IsPhiOf(nds, n, next)}
           live == IF Ctrl(this) = Dead THEN that ELSE this
           z == Len(this.slots)
           rest == [nds2 \in Node |-> IF nds2 \in gone THEN Gone ELSE nds[nds2]]
           kept == [i \in DOMAIN sc.slots |-> IF sc.slots[i] \in gone THEN left(sc.slots[i])
                                                                   ELSE sc.slots[i]]
<1>1. /\ nds \in [Node -> Rec]
      /\ \A n \in 1 .. next - 1 : nds[n] = nodes[n]
      /\ nds[next] = Region(<<Ctrl(this), Ctrl(that)>>)
      /\ \A i \in D : nds[p(i)] = Phi(next, <<this.slots[i], that.slots[i]>>)
      /\ \A n \in Node : n >= next => n = next \/ (\E i \in D : n = p(i)) \/ nds[n] = Gone
      /\ Laid(sc) /\ sc.list = this.list /\ Len(sc.slots) = z
      /\ sc.slots[1] = this.slots[1]
      /\ \A i \in 2 .. z : sc.slots[i] = IF i \in D THEN p(i) ELSE this.slots[i]
      /\ \A i \in 2 .. z : /\ this.slots[i] \in Valued /\ that.slots[i] \in Valued
                           /\ i \notin D => this.slots[i] = that.slots[i]
  BY Merged
<1>2. /\ next \in Node /\ next \in Nat
      /\ \A i \in D : i \in 2 .. z /\ p(i) \in Node
  BY MergePhis
<1>3. \A n \in Node : n \in gone <=> n = next \/ \E i \in D : n = p(i) BY MergeGone
<1>4. nds[next].args = <<Ctrl(this), Ctrl(that)>> BY <1>1 DEF Region
<1>5. \A i \in D : nds[p(i)].args = <<this.slots[i], that.slots[i]>>
  <2> TAKE i \in D
  <2>1. nds[p(i)] = Phi(next, <<this.slots[i], that.slots[i]>>) BY <1>1
  <2> HIDE DEF nds, p, D
  <2> QED BY <2>1 DEF Phi
<1>6. /\ Laid(this) /\ Laid(that) /\ this.list = that.list /\ Len(that.slots) = z
      /\ z \in Nat /\ z >= 1 /\ this \in Scope /\ that \in Scope
      /\ DOMAIN sc.slots = 1 .. z /\ sc \in Scope
  BY <1>1, SameSlots, LaidParts DEF Meet
<1>7. IdealizeRegion(nds, sc, next)
        = IF dead = {} THEN [nodes |-> nds, sc |-> SetCtrl(sc, next)]
          ELSE [nodes |-> rest, sc |-> SetCtrl([sc EXCEPT !.slots = kept], left(next))]
  BY DEF IdealizeRegion
<1> HIDE DEF nds, sc, D, p, gone
<1>8. \A i : i \in dead <=> (i = 1 /\ Ctrl(this) = Dead) \/ (i = 2 /\ Ctrl(that) = Dead)
  <2>1. DOMAIN <<Ctrl(this), Ctrl(that)>> = {1, 2} OBVIOUS
  <2>2. <<Ctrl(this), Ctrl(that)>>[1] = Ctrl(this) /\ <<Ctrl(this), Ctrl(that)>>[2] = Ctrl(that) OBVIOUS
  <2>3. \A i : i \in dead <=> i \in {1, 2} /\ <<Ctrl(this), Ctrl(that)>>[i] = Dead BY <1>4, <2>1
  <2> QED BY <2>2, <2>3
<1>9. dead # {} /\ Min(dead) = IF Ctrl(this) = Dead THEN 1 ELSE 2
  <2>1. CASE Ctrl(this) = Dead
    <3>1. 1 \in dead /\ \A i \in dead : i = 1 \/ i = 2 BY <1>8, <2>1
    <3> HIDE DEF dead
    <3>2. \A x \in dead : (\A y \in dead : x <= y) <=> x = 1 BY <3>1
    <3>3. Min(dead) = 1 BY <3>1, <3>2 DEF Min
    <3> QED BY <2>1, <3>1, <3>3
  <2>2. CASE Ctrl(this) # Dead
    <3>1. 2 \in dead /\ \A i \in dead : i = 2 BY <1>8, <2>2
    <3> HIDE DEF dead
    <3>2. \A x \in dead : (\A y \in dead : x <= y) <=> x = 2 BY <3>1
    <3>3. Min(dead) = 2 BY <3>1, <3>2 DEF Min
    <3> QED BY <2>2, <3>1, <3>3
  <2> QED BY <2>1, <2>2
<1>10. \A n, a, b : nds[n].args = <<a, b>> => left(n) = IF Ctrl(this) = Dead THEN b ELSE a
  <2> SUFFICES ASSUME NEW n, NEW a, NEW b, nds[n].args = <<a, b>>
               PROVE  left(n) = IF Ctrl(this) = Dead THEN b ELSE a
    OBVIOUS
  <2> DEFINE s == Min(dead)
  <2>1. s = (IF Ctrl(this) = Dead THEN 1 ELSE 2) BY <1>9
  <2>2. left(n) = RemoveInput(<<a, b>>, s)[1] OBVIOUS
  <2> HIDE DEF s, left
  <2>3. RemoveInput(<<a, b>>, 1)[1] = b /\ RemoveInput(<<a, b>>, 2)[1] = a
    <3>1. a \in {a, b} /\ b \in {a, b} OBVIOUS
    <3> QED BY <3>1, LeftOver
  <2> QED BY <2>1, <2>2, <2>3
<1> HIDE DEF dead, left
<1>11. rest = nodes
  <2>1. \A n \in Node : (IF n \in gone THEN Gone ELSE nds[n]) = nodes[n]
    <3> TAKE n \in Node
    <3>1. n \in Nat /\ n >= 1 BY DEF Node
    <3>2. CASE n < next
      <4>1. nds[n] = nodes[n] /\ n \in 1 .. next - 1 BY <1>1, <1>2, <3>1, <3>2
      <4>2. n \notin gone
        <5> SUFFICES ASSUME n \in gone PROVE FALSE OBVIOUS
        <5>1. IsPhiOf(nds, n, next) BY <1>2, <3>2 DEF gone
        <5>2. next \in 1 .. n - 1 BY <4>1, <5>1 DEF IsPhiOf, Graph
        <5> QED BY <1>2, <3>1, <3>2, <5>2
      <4> QED BY <4>1, <4>2
    <3>3. CASE n >= next
      <4>1. nodes[n] = Gone BY <3>3 DEF Graph
      <4> QED BY <1>1, <1>3, <3>3, <4>1
    <3> QED BY <1>2, <3>1, <3>2, <3>3
  <2>2. nodes \in [Node -> Rec] BY DEF Graph
  <2> QED BY <2>1, <2>2
<1>12. left(next) = Ctrl(live) BY <1>4, <1>10
<1>13. \A i \in 2 .. z : kept[i] = live.slots[i]
  <2> TAKE i \in 2 .. z
  <2>1. i \in DOMAIN sc.slots BY <1>6
  <2>2. CASE i \in D
    <3>1. sc.slots[i] = p(i) /\ p(i) \in gone BY <1>1, <1>2, <1>3, <2>2
    <3>2. left(p(i)) = live.slots[i] BY <1>5, <1>10, <2>2
    <3> QED BY <2>1, <3>1, <3>2
  <2>3. CASE i \notin D
    <3>1. sc.slots[i] = this.slots[i] /\ this.slots[i] = that.slots[i] /\ this.slots[i] \in Made
      BY <1>1, <2>3 DEF Valued
    <3>2. this.slots[i] \notin gone
      <4> SUFFICES ASSUME this.slots[i] \in gone PROVE FALSE OBVIOUS
      <4>1. this.slots[i] \in 1 .. next - 1 BY <3>1 DEF Made
      <4>2. \A h \in D : p(h) \in next + 1 .. next + Cardinality(D) BY MergePhis DEF D, p
      <4>3. this.slots[i] = next \/ \E h \in D : this.slots[i] = p(h) BY <1>3 DEF gone
      <4> QED BY <1>2, <4>1, <4>2, <4>3
    <3> QED BY <2>1, <3>1, <3>2
  <2> QED BY <2>2, <2>3
<1>14. SetCtrl([sc EXCEPT !.slots = kept], left(next)) = live
  <2> DEFINE w == [kept EXCEPT ![1] = Ctrl(live)]
  <2>1. sc = [slots |-> sc.slots, list |-> this.list] BY <1>1, <1>6, ScopeParts
  <2>2. [sc EXCEPT !.slots = kept] = [slots |-> kept, list |-> this.list]
    <3> HIDE DEF kept
    <3> QED BY <2>1
  <2>3. SetCtrl([slots |-> kept, list |-> this.list], left(next)) = [slots |-> w, list |-> this.list]
    <3> HIDE DEF kept
    <3> QED BY <1>12 DEF SetCtrl
  <2>4. live = [slots |-> live.slots, list |-> this.list] /\ live.slots \in Slots /\ Len(live.slots) = z
    BY <1>6, ScopeParts
  <2>5. w = live.slots
    <3>1. DOMAIN w = 1 .. z /\ \A i \in 1 .. z : w[i] = IF i = 1 THEN Ctrl(live) ELSE kept[i]
      <4>1. DOMAIN kept = 1 .. z BY <1>6
      <4> HIDE DEF kept
      <4> QED BY <1>6, <4>1
    <3> HIDE DEF w, kept, live
    <3>2. \A i \in 1 .. z : i # 1 => i \in 2 .. z BY <1>6
    <3>3. \A i \in 1 .. z : w[i] = live.slots[i] BY <1>13, <3>1, <3>2 DEF Ctrl
    <3>4. DOMAIN live.slots = 1 .. z BY <2>4 DEF Slots
    <3>5. w = [i \in 1 .. z |-> w[i]] BY <3>1 DEF w
    <3>6. live.slots = [i \in 1 .. z |-> live.slots[i]] BY <2>4, <3>4 DEF Slots
    <3> QED BY <3>3, <3>5, <3>6
  <2> HIDE DEF w, kept, live
  <2> QED BY <2>2, <2>3, <2>4, <2>5
<1> QED BY <1>7, <1>9, <1>11, <1>14 DEF nds, sc

(* The value of the phi in a slot, on the run that came in on one side.     *)
Chosen(this, that, take) == IF take THEN that ELSE this

Valuation(this, that, take) ==
  [n \in Node |-> IF n < next \/ nodes'[n].kind # "phi" THEN val[n]
                  ELSE LET in == nodes'[n].args[IF take THEN 2 ELSE 1] IN val[in]]

LEMMA MergeValues ==
  ASSUME Graph, Values, NEW this, NEW that, Meet(this, that), NEW take,
         nodes' = MergeNodes(this, that),
         val' = Valuation(this, that, take)
  PROVE  /\ val' \in [Node -> Node \cup {Null}]
         /\ \A n \in Made : n \in Node /\ val'[n] = val[n]
         /\ \A i \in Differing(this, that) :
              val'[MergePhi(this, that, i)] = val[Chosen(this, that, take).slots[i]]
         /\ \A n \in Node : n >= next /\ (\A i \in Differing(this, that) : n # MergePhi(this, that, i))
              => val'[n] = Null
<1> DEFINE nds == MergeNodes(this, that)
           sc  == MergeHead(this, that)
           D   == Differing(this, that)
           p(i) == MergePhi(this, that, i)
           z == Len(this.slots)
<1>1. /\ nds \in [Node -> Rec]
      /\ \A n \in 1 .. next - 1 : nds[n] = nodes[n]
      /\ nds[next] = Region(<<Ctrl(this), Ctrl(that)>>)
      /\ \A i \in D : nds[p(i)] = Phi(next, <<this.slots[i], that.slots[i]>>)
      /\ \A n \in Node : n >= next => n = next \/ (\E i \in D : n = p(i)) \/ nds[n] = Gone
      /\ Laid(sc) /\ sc.list = this.list /\ Len(sc.slots) = z
      /\ sc.slots[1] = this.slots[1]
      /\ \A i \in 2 .. z : sc.slots[i] = IF i \in D THEN p(i) ELSE this.slots[i]
      /\ \A i \in 2 .. z : /\ this.slots[i] \in Valued /\ that.slots[i] \in Valued
                           /\ i \notin D => this.slots[i] = that.slots[i]
  BY Merged
<1>2. /\ next \in Node /\ next \in Nat
      /\ \A i \in D : /\ i \in 2 .. z
                      /\ p(i) \in next + 1 .. next + Cardinality(D)
                      /\ p(i) \in Node
  BY MergePhis
<1>3. nds = nodes' OBVIOUS
<1> HIDE DEF nds, sc, D, p
<1>4. \A i \in D : p(i) >= next + 1 /\ ~ (p(i) < next)
  <2> TAKE i \in D
  <2>1. PICK c : c = Cardinality(D) OBVIOUS
  <2>2. p(i) \in next + 1 .. next + c BY <1>2, <2>1
  <2> QED BY <1>2, <2>2
<1>5. val \in [Node -> Node \cup {Null}] /\ \A n \in Node : n >= next => val[n] = Null BY DEF Values
<1>6. Made \subseteq Node
  <2>1. next \in 1 .. MaxNode + 1 /\ MaxNode \in Nat BY ScopeAssumption DEF Graph
  <2> QED BY <2>1 DEF Made, Node
<1>7. \A i \in D : val'[p(i)] = val[Chosen(this, that, take).slots[i]]
  <2> TAKE i \in D
  <2>1. nodes'[p(i)] = Phi(next, <<this.slots[i], that.slots[i]>>) BY <1>1, <1>3
  <2>2. nodes'[p(i)].kind = "phi" /\ nodes'[p(i)].args = <<this.slots[i], that.slots[i]>>
    BY <2>1 DEF Phi
  <2>3. val'[p(i)] = val[nodes'[p(i)].args[IF take THEN 2 ELSE 1]]
    BY <1>2, <1>4, <2>2 DEF Valuation
  <2> QED BY <2>2, <2>3 DEF Chosen
<1>8. \A n \in Made : n \in Node /\ val'[n] = val[n]
  <2> TAKE n \in Made
  <2>1. n \in Node /\ n < next BY <1>2, <1>6 DEF Made
  <2> QED BY <2>1 DEF Valuation
<1>9. ASSUME NEW n \in Node, n >= next, \A i \in D : n # p(i) PROVE val'[n] = Null
  <2>1. nodes'[n].kind # "phi" BY <1>1, <1>3, <1>9 DEF Region, Gone
  <2> QED BY <1>5, <1>9, <2>1 DEF Valuation
<1>10. \A n \in Node : val'[n] \in Node \cup {Null}
  <2> TAKE n \in Node
  <2>1. n \in Made \/ n >= next BY <1>2 DEF Made, Node
  <2>2. CASE n \in Made BY <1>5, <1>8, <2>2
  <2>3. CASE n >= next /\ \A i \in D : n # p(i) BY <1>9, <2>3
  <2>4. CASE \E i \in D : n = p(i)
    <3>1. PICK i \in D : n = p(i) BY <2>4
    <3>2. Chosen(this, that, take).slots[i] \in Valued BY <1>1, <1>2, <3>1 DEF Chosen
    <3> QED BY <1>5, <1>6, <1>7, <3>1, <3>2 DEF Valued
  <2> QED BY <2>1, <2>2, <2>3, <2>4
<1>11. val' \in [Node -> Node \cup {Null}]
  <2>1. val' = [n \in Node |-> val'[n]] BY DEF Valuation
  <2> QED BY <1>10, <2>1
<1> QED BY <1>7, <1>8, <1>9, <1>11 DEF D, p

LEMMA MergeMakes ==
  ASSUME Graph, Values, NEW this, NEW that, Meet(this, that), NEW take,
         nodes' = MergeNodes(this, that), table' = table,
         next' = next + (1 + Cardinality(Differing(this, that))),
         val' = Valuation(this, that, take),
         OpenLoops' = OpenLoops, next \notin OpenLoops
  PROVE  /\ Graph' /\ Grown /\ ValOK'
         /\ next \in Made'
         /\ \A i \in Differing(this, that) : MergePhi(this, that, i) \in Valued'
<1> DEFINE nds == MergeNodes(this, that)
           sc  == MergeHead(this, that)
           D   == Differing(this, that)
           p(i) == MergePhi(this, that, i)
           z == Len(this.slots)
           c == Cardinality(D)
           from(i) == Chosen(this, that, take).slots[i]
<1>1. /\ nds \in [Node -> Rec]
      /\ \A n \in 1 .. next - 1 : nds[n] = nodes[n]
      /\ nds[next] = Region(<<Ctrl(this), Ctrl(that)>>)
      /\ \A i \in D : nds[p(i)] = Phi(next, <<this.slots[i], that.slots[i]>>)
      /\ \A n \in Node : n >= next => n = next \/ (\E i \in D : n = p(i)) \/ nds[n] = Gone
      /\ Laid(sc) /\ sc.list = this.list /\ Len(sc.slots) = z
      /\ sc.slots[1] = this.slots[1]
      /\ \A i \in 2 .. z : sc.slots[i] = IF i \in D THEN p(i) ELSE this.slots[i]
      /\ \A i \in 2 .. z : /\ this.slots[i] \in Valued /\ that.slots[i] \in Valued
                           /\ i \notin D => this.slots[i] = that.slots[i]
  BY Merged
<1>2. /\ next \in Node /\ next \in Nat /\ c \in Nat
      /\ \A i \in D : /\ i \in 2 .. z
                      /\ p(i) \in next + 1 .. next + c
                      /\ p(i) \in Node
  BY MergePhis
<1>3. nds = nodes' /\ next' = next + (1 + c) OBVIOUS
<1>4. /\ val' \in [Node -> Node \cup {Null}]
      /\ \A n \in Made : n \in Node /\ val'[n] = val[n]
      /\ \A i \in D : val'[p(i)] = val[from(i)]
      /\ \A n \in Node : n >= next /\ (\A i \in D : n # p(i)) => val'[n] = Null
  BY MergeValues
<1>5. MaxNode \in Nat /\ next + c <= MaxNode /\ next >= 1
  BY <1>2, ScopeAssumption DEF Meet, Node
<1>6. /\ val \in [Node -> Node \cup {Null}] /\ \A n \in Node : n >= next => val[n] = Null
      /\ \A n \in Valued : val[n] \in Valued /\ val[val[n]] = val[n]
  BY DEF Values
<1> HIDE DEF nds, sc, D, p, c
<1>7. \A i \in D : this.slots[i] \in Valued /\ that.slots[i] \in Valued /\ from(i) \in Valued
  BY <1>1, <1>2 DEF Chosen
<1> HIDE DEF from
<1>8. next' \in Nat /\ next' = next + c + 1 /\ next' <= MaxNode + 1 /\ next < next' BY <1>2, <1>3, <1>5
<1>9. \A n : n \in Made <=> n \in Nat /\ 1 <= n /\ n < next BY <1>2 DEF Made
<1>10. \A n : n \in Made' <=> n \in Nat /\ 1 <= n /\ n < next' BY <1>8 DEF Made
<1>11. \A n \in Node : n \in Nat /\ 1 <= n /\ n <= MaxNode BY <1>5 DEF Node
<1>19. \A n \in Node : n >= next' => n >= next /\ n # next
  <2> TAKE n \in Node
  <2>1. PICK y : y = next' OBVIOUS
  <2>2. y \in Nat /\ next < y /\ next \in Nat /\ n \in Nat BY <1>2, <1>8, <1>11, <2>1
  <2>3. n >= y => n >= next /\ n # next BY <2>2
  <2> QED BY <2>1, <2>3
<1>12. \A i \in D : p(i) \in Made' /\ p(i) > next /\ p(i) \notin Made
  <2> TAKE i \in D
  <2>1. p(i) \in Nat /\ next + 1 <= p(i) /\ p(i) <= next + c BY <1>2
  <2> QED BY <1>2, <1>5, <1>8, <1>9, <1>10, <2>1
<1>13. next \in Made' /\ next \notin Made BY <1>2, <1>5, <1>8, <1>9, <1>10
<1>14. Grown
  <2>1. next' \in next .. MaxNode + 1 BY <1>2, <1>5, <1>8
  <2>2. \A n \in 1 .. next - 1 : nodes'[n] = nodes[n] /\ val'[n] = val[n]
    BY <1>1, <1>3, <1>4 DEF Made
  <2>3. ASSUME NEW n \in Node, n >= next, nodes'[n].kind = "phi" PROVE nodes'[n].reg >= next
    <3>1. PICK i \in D : n = p(i) BY <1>1, <1>3, <2>3 DEF Region, Gone
    <3>2. nodes'[n] = Phi(next, <<this.slots[i], that.slots[i]>>) BY <1>1, <1>3, <3>1
    <3>3. nodes'[n].reg = next BY <3>2 DEF Phi
    <3> QED BY <1>2, <3>3
  <2> QED BY <2>1, <2>2, <2>3 DEF Grown
<1>15. Made \subseteq Made' /\ Valued \subseteq Valued' /\ \A n \in Valued : val'[n] = val[n]
  BY <1>14, GrownNodes
<1>16. \A i \in D : p(i) \in Valued' /\ val'[p(i)] \in Valued
  <2> TAKE i \in D
  <2>1. val'[p(i)] \in Valued BY <1>4, <1>6, <1>7
  <2>2. val'[p(i)] \in Made BY <2>1 DEF Valued
  <2>3. val'[p(i)] # Null BY <1>9, <2>2 DEF Null
  <2> QED BY <1>12, <2>1, <2>3 DEF Valued
<1>17. ValOK'
  <2>1. \A n \in Node : n >= next' => val'[n] = Null
    <3> TAKE n \in Node
    <3> HAVE n >= next'
    <3>1. n >= next BY <1>19
    <3>2. \A i \in D : n # p(i) BY <1>8, <1>10, <1>11, <1>12
    <3> QED BY <1>4, <3>1, <3>2
  <2>2. \A n \in Valued' : val'[n] \in Valued' /\ val'[val'[n]] = val'[n]
    <3> TAKE n \in Valued'
    <3>1. n \in Made' /\ val'[n] # Null BY DEF Valued
    <3>2. CASE n \in Made
      <4>1. n \in Valued /\ val'[n] = val[n] BY <1>4, <3>1, <3>2 DEF Valued
      <4>2. val[n] \in Valued /\ val[val[n]] = val[n] BY <1>6, <4>1
      <4> QED BY <1>15, <4>1, <4>2
    <3>3. CASE n \notin Made
      <4>1. n \in Node /\ n >= next BY <1>2, <1>5, <1>8, <1>9, <1>10, <3>1, <3>3 DEF Node
      <4>2. PICK i \in D : n = p(i) BY <1>4, <3>1, <4>1
      <4>3. val'[n] \in Valued /\ val'[n] = val[from(i)] BY <1>4, <1>16, <4>2
      <4>4. val[val'[n]] = val'[n]
        <5>1. from(i) \in Valued BY <1>7
        <5>2. val[val[from(i)]] = val[from(i)] BY <1>6, <5>1
        <5> QED BY <4>3, <5>2
      <4> QED BY <1>15, <4>3, <4>4
    <3> QED BY <3>2, <3>3
  <2> QED BY <1>4, <2>1, <2>2 DEF ValOK
<1>18. Graph'
  <2>1. next' \in 1 .. MaxNode + 1 BY <1>2, <1>5, <1>8
  <2>2. \A n \in Node : n >= next' => nodes'[n] = Gone
    <3> TAKE n \in Node
    <3> HAVE n >= next'
    <3>1. n >= next /\ n # next BY <1>19
    <3>2. \A i \in D : n # p(i) BY <1>8, <1>10, <1>11, <1>12
    <3> QED BY <1>1, <1>3, <3>1, <3>2
  <2>3. ASSUME NEW n \in Node
        PROVE  \/ n \in Made /\ nodes'[n] = nodes[n]
               \/ n = next /\ nodes'[n] = Region(<<Ctrl(this), Ctrl(that)>>)
               \/ \E i \in D : n = p(i) /\ nodes'[n] = Phi(next, <<this.slots[i], that.slots[i]>>)
               \/ nodes'[n] = Gone
    <3>1. n \in Made \/ n >= next BY <1>2, <1>9, <1>11
    <3>2. n \in Made => nodes'[n] = nodes[n] BY <1>1, <1>3 DEF Made
    <3> QED BY <1>1, <1>3, <3>1, <3>2
  <2>4. \A n \in Node : nodes'[n].kind \in {"region", "loop"} => Len(nodes'[n].args) = 2
    <3> TAKE n \in Node
    <3>1. CASE n \in Made /\ nodes'[n] = nodes[n] BY <3>1 DEF Graph
    <3>2. CASE nodes'[n] = Region(<<Ctrl(this), Ctrl(that)>>) BY <3>2 DEF Region
    <3>3. CASE \E i \in D : n = p(i) /\ nodes'[n] = Phi(next, <<this.slots[i], that.slots[i]>>)
      BY <3>3 DEF Phi
    <3>4. CASE nodes'[n] = Gone BY <3>4 DEF Gone
    <3> QED BY <2>3, <3>1, <3>2, <3>3, <3>4
  <2>5. ASSUME NEW n \in Node, nodes'[n].kind = "phi"
        PROVE  /\ nodes'[n].reg \in 1 .. n - 1 /\ nodes'[nodes'[n].reg].kind \in {"region", "loop"}
               /\ Len(nodes'[n].args) = 2
               /\ n \in Valued'
               /\ nodes'[n].args[1] \in Valued' /\ nodes'[n].args[2] \in Valued' \cup {Null}
               /\ nodes'[n].args[2] = Null <=> nodes'[n].reg \in OpenLoops'
    <3>1. CASE n \in Made /\ nodes'[n] = nodes[n]
      <4>1. /\ nodes[n].reg \in 1 .. n - 1 /\ nodes[nodes[n].reg].kind \in {"region", "loop"}
            /\ Len(nodes[n].args) = 2 /\ n \in Valued
            /\ nodes[n].args[1] \in Valued /\ nodes[n].args[2] \in Valued \cup {Null}
            /\ nodes[n].args[2] = Null <=> nodes[n].reg \in OpenLoops
        BY <2>5, <3>1 DEF Graph
      <4>2. nodes[n].reg \in 1 .. next - 1 BY <1>2, <1>9, <3>1, <4>1
      <4>3. nodes'[nodes[n].reg] = nodes[nodes[n].reg] BY <1>1, <1>3, <4>2
      <4> QED BY <1>15, <3>1, <4>1, <4>3
    <3>2. CASE n \notin Made \/ nodes'[n] # nodes[n]
      <4>1. PICK i \in D : n = p(i) /\ nodes'[n] = Phi(next, <<this.slots[i], that.slots[i]>>)
        BY <2>3, <2>5, <3>2 DEF Region, Gone
      <4>2. nodes'[n].reg = next /\ nodes'[n].args = <<this.slots[i], that.slots[i]>>
        BY <4>1 DEF Phi
      <4>3. nodes'[next].kind = "region" BY <1>1, <1>3 DEF Region
      <4>4. next \in 1 .. n - 1 BY <1>2, <1>5, <1>11, <1>12, <4>1
      <4>5. this.slots[i] \in Valued /\ that.slots[i] \in Valued /\ that.slots[i] # Null
        BY <1>7, <1>9, <4>1 DEF Valued, Null
      <4>6. nodes'[n].args[1] = this.slots[i] /\ nodes'[n].args[2] = that.slots[i]
            /\ Len(nodes'[n].args) = 2
        BY <4>2
      <4> QED BY <1>15, <1>16, <4>1, <4>2, <4>3, <4>4, <4>5, <4>6
    <3> QED BY <3>1, <3>2
  <2>6. \A r \in table' : r.node \in Node /\ r.reg \in Node /\ r.args \in Slots BY DEF Graph
  <2>7. nodes' \in [Node -> Rec] BY <1>1, <1>3
  <2> QED BY <2>1, <2>2, <2>4, <2>5, <2>6, <2>7 DEF Graph
<1> QED BY <1>13, <1>14, <1>16, <1>17, <1>18 DEF D, p

(* The scope that goes on where two branches meet.                         *)
LEMMA MergeScope ==
  ASSUME Graph, Values, NEW this, NEW that, Meet(this, that), NEW take,
         nodes' = MergeNodes(this, that), table' = table,
         next' = next + (1 + Cardinality(Differing(this, that))),
         val' = Valuation(this, that, take),
         OpenLoops' = OpenLoops, next \notin OpenLoops,
         NEW sd, sd = SetCtrl(MergeHead(this, that), next), env' = env
  PROVE  /\ Laid(sd) /\ Filled(sd)' /\ sd.list = this.list /\ Ctrl(sd) = next
         /\ Means(Chosen(this, that, take)) => Means(sd)'
<1> DEFINE nds == MergeNodes(this, that)
           sc  == MergeHead(this, that)
           D   == Differing(this, that)
           p(i) == MergePhi(this, that, i)
           z == Len(this.slots)
           from(i) == Chosen(this, that, take).slots[i]
<1>1. /\ nds \in [Node -> Rec]
      /\ \A n \in 1 .. next - 1 : nds[n] = nodes[n]
      /\ nds[next] = Region(<<Ctrl(this), Ctrl(that)>>)
      /\ \A i \in D : nds[p(i)] = Phi(next, <<this.slots[i], that.slots[i]>>)
      /\ \A n \in Node : n >= next => n = next \/ (\E i \in D : n = p(i)) \/ nds[n] = Gone
      /\ Laid(sc) /\ sc.list = this.list /\ Len(sc.slots) = z
      /\ sc.slots[1] = this.slots[1]
      /\ \A i \in 2 .. z : sc.slots[i] = IF i \in D THEN p(i) ELSE this.slots[i]
      /\ \A i \in 2 .. z : /\ this.slots[i] \in Valued /\ that.slots[i] \in Valued
                           /\ i \notin D => this.slots[i] = that.slots[i]
  BY Merged
<1>2. Graph' /\ Grown /\ next \in Made' /\ \A i \in D : p(i) \in Valued' BY MergeMakes
<1>3. /\ val' \in [Node -> Node \cup {Null}]
      /\ \A n \in Made : n \in Node /\ val'[n] = val[n]
      /\ \A i \in D : val'[p(i)] = val[from(i)]
      /\ \A n \in Node : n >= next /\ (\A i \in D : n # p(i)) => val'[n] = Null
  BY MergeValues
<1>4. next \in Node BY MergePhis
<1>5. Laid(this) /\ Laid(that) /\ this.list = that.list BY DEF Meet
<1> HIDE DEF nds, D, p, from
<1>6. /\ Laid(sd) /\ sd.list = this.list /\ Len(sd.slots) = z /\ Ctrl(sd) = next /\ sd.slots[1] = next
      /\ \A i \in 2 .. z : sd.slots[i] = IF i \in D THEN p(i) ELSE this.slots[i]
  <2>1. PICK st : st = sc OBVIOUS
  <2>2. Laid(st) /\ sd = SetCtrl(st, next) /\ next \in Node \cup {Live, Dead} BY <1>1, <1>4, <2>1
  <2>3. /\ Laid(sd) /\ sd.list = st.list /\ Len(sd.slots) = Len(st.slots) /\ Ctrl(sd) = next
        /\ sd.slots[1] = next
        /\ \A s \in 2 .. Len(st.slots) : sd.slots[s] = st.slots[s]
    BY <2>2, NewControl
  <2>4. \A i \in 2 .. z : st.slots[i] = IF i \in D THEN p(i) ELSE this.slots[i] BY <1>1, <2>1
  <2>5. st.list = this.list /\ Len(st.slots) = z BY <1>1, <2>1
  <2> QED BY <2>3, <2>4, <2>5
<1>7. Valued \subseteq Valued' /\ \A n \in Valued : val'[n] = val[n] BY <1>2, GrownNodes
<1>8. Filled(sd)'
  <2>1. \A i \in 2 .. z : sd.slots[i] \in Valued'
    <3> TAKE i \in 2 .. z
    <3>1. this.slots[i] \in Valued' BY <1>1, <1>7
    <3> QED BY <1>2, <1>6, <3>1
  <2> QED BY <1>2, <1>6, <2>1 DEF Filled
<1>9. ASSUME Means(Chosen(this, that, take)) PROVE Means(sd)'
  <2>1. PICK st : st = Chosen(this, that, take) OBVIOUS
  <2>2. st = this \/ st = that BY <2>1 DEF Chosen
  <2>3. Laid(st) /\ Filled(st) /\ Means(st) /\ st.list = this.list /\ Len(st.slots) = z
    BY <1>5, <1>9, <2>1, <2>2, SameSlots DEF Meet
  <2>4. Means(st)'
    <3>1. \A l \in DOMAIN st.list : env'[l] = env[l] OBVIOUS
    <3> QED BY <1>2, <2>3, <3>1, MeansStays
  <2>5. \A s \in 2 .. Len(st.slots) : val'[sd.slots[s]] = val'[st.slots[s]]
    <3> SUFFICES ASSUME NEW s \in 2 .. z PROVE val'[sd.slots[s]] = val'[st.slots[s]] BY <2>3
    <3>1. st.slots[s] \in Valued /\ val'[st.slots[s]] = val[st.slots[s]] BY <1>1, <1>7, <2>2
    <3>2. CASE s \in D
      <4>1. sd.slots[s] = p(s) /\ val'[p(s)] = val[from(s)] BY <1>3, <1>6, <3>2
      <4>2. from(s) = st.slots[s] BY <2>1 DEF from
      <4> QED BY <3>1, <4>1, <4>2
    <3>3. CASE s \notin D
      <4>1. sd.slots[s] = this.slots[s] /\ st.slots[s] = this.slots[s] BY <1>1, <1>6, <2>2, <3>3
      <4> QED BY <4>1
    <3> QED BY <3>2, <3>3
  <2>6. sd.list = st.list BY <1>6, <2>3
  <2> QED BY <2>3, <2>4, <2>5, <2>6, MeansAlike
<1> QED BY <1>6, <1>8, <1>9

LEMMA SameBlocksThere ==
  ASSUME NEW this, Laid(this), NEW that, Laid(that), Len(this.list) = Len(that.list),
         \A l \in 1 .. Len(this.list) : that.list[l] = this.list[l]
  PROVE  this.list = that.list
<1>1. /\ this.list \in Seq(Data) /\ that.list \in Seq(Data)
      /\ DOMAIN this.list = 1 .. Len(this.list) /\ DOMAIN that.list = 1 .. Len(this.list)
  BY LaidParts DEF Scope
<1>2. PICK s : s = this.list OBVIOUS
<1>3. PICK t : t = that.list OBVIOUS
<1>4. s \in Seq(Data) /\ t \in Seq(Data) /\ Len(s) = Len(t) /\ \A l \in 1 .. Len(s) : s[l] = t[l]
  BY <1>1, <1>2, <1>3
<1>5. s = t BY <1>4
<1> QED BY <1>2, <1>3, <1>5

(* Loops that are read were made before.                                   *)
LEMMA OpenMade ==
  ASSUME Loops
  PROVE  OpenLoops \subseteq Made
BY DEF Loops, LoopOK, OpenLoops

LEMMA MergeStep ==
  ASSUME IInv, Merge
  PROVE  IInv'
<1>0. Top({"between", "merge"}) /\ {"between", "merge"} \subseteq Branch BY DEF Merge, Branch
<1>1. PICK k \in Nat, g \in BranchFrame, lev \in [DOMAIN frames -> Nat], z \in Nat :
        /\ k = Len(frames) /\ k >= 2 /\ DOMAIN frames = 1 .. k /\ g = frames[k] /\ g = Last(frames)
        /\ g.fn \in {"between", "merge"}
        /\ Levels(lev) /\ z = Len(curr.list) /\ z >= 2 /\ Len(env) = z
        /\ z = lev[k - 1] + (IF g.fn \in {"between", "merge"} THEN 0 ELSE 1)
        /\ Laid(curr) /\ Filled(curr)
        /\ Laid(g.other) /\ Filled(g.other) /\ Len(g.other.list) = lev[k - 1]
        /\ \A l \in 1 .. lev[k - 1] : g.other.list[l] = curr.list[l]
        /\ Pending(g) /\ (on => OnSide(g) /\ Means(curr) /\ Ctrl(curr) # Dead)
        /\ \A j \in 1 .. k - 1 : (on \/ g.was => OnSide(frames[j]))
  BY <1>0, BranchTop
<1>2. PICK m : m = k - 1 OBVIOUS
<1>3. /\ m \in Nat /\ m >= 1 /\ m <= k /\ m # m + 1 /\ k = m + 1 /\ lev[m] = z
      /\ \A i \in m + 1 .. k : i = k
  <2>1. k - 1 \in 1 .. k BY <1>1
  <2>2. lev[k - 1] \in Nat BY <1>1, <2>1
  <2>3. lev[k - 1] = z BY <1>1, <2>2
  <2> QED BY <1>1, <1>2, <2>3
<1>4. PICK this : this = curr OBVIOUS
<1>5. PICK that : that = g.other OBVIOUS
<1>6. PICK take : take = g.take OBVIOUS
<1>7. /\ Laid(this) /\ Filled(this) /\ Laid(that) /\ Filled(that) /\ this.list = that.list
      /\ Len(this.list) = z
  <2>1. /\ Laid(this) /\ Filled(this) /\ Laid(that) /\ Filled(that) /\ Len(this.list) = z
        /\ Len(this.list) = Len(that.list)
        /\ \A l \in 1 .. Len(this.list) : that.list[l] = this.list[l]
    BY <1>1, <1>2, <1>3, <1>4, <1>5
  <2> QED BY <2>1, SameBlocksThere
<1> DEFINE c == Cardinality(Differing(this, that))
           done == IdealizeRegion(MergeNodes(this, that), MergeHead(this, that), next)
<1>8. Len(this.slots) = Len(that.slots) BY <1>7, SameSlots
<1>9. /\ frames' = Front(frames) /\ on' = (IF take THEN g.cont ELSE on)
      /\ next + (1 + c) - 1 <= MaxNode
      /\ nodes' = done.nodes /\ curr' = done.sc
      /\ next' = (IF Ctrl(done.sc) = next THEN next + (1 + c) ELSE next)
      /\ val' = Valuation(this, that, take)
      /\ UNCHANGED <<fault, table, read, env>>
  BY <1>1, <1>4, <1>5, <1>6, <1>8 DEF Merge, Valuation
<1> HIDE DEF done
<1>10. Meet(this, that)
  <2>1. c \in Nat
    <3>1. Len(this.slots) \in Nat BY <1>7, LaidParts
    <3>2. Differing(this, that) \subseteq 2 .. Len(this.slots) BY DEF Differing
    <3> QED BY <3>1, <3>2, Counting
  <2> HIDE DEF c
  <2>2. next \in Nat /\ MaxNode \in Nat
    <3>1. next \in 1 .. MaxNode + 1 /\ MaxNode \in Nat BY ScopeAssumption DEF IInv, Graph
    <3> QED BY <3>1
  <2>3. next + c <= MaxNode BY <1>9, <2>1, <2>2
  <2> QED BY <1>7, <2>3 DEF Meet, c
<1> HIDE DEF c
<1>11. on' \in BOOLEAN BY <1>9 DEF BranchFrame, IInv, Rest
<1>12. PICK side : side = Chosen(this, that, take) OBVIOUS
<1>13. on' => Means(side) /\ Ctrl(side) # Dead /\ \A i \in 1 .. m : OnSide(frames[i])
  <2> SUFFICES ASSUME on' PROVE Means(side) /\ Ctrl(side) # Dead /\ \A i \in 1 .. m : OnSide(frames[i])
    OBVIOUS
  <2>1. CASE take
    <3>1. g.cont /\ side = that BY <1>9, <1>12, <2>1 DEF Chosen
    <3>2. g.was /\ Means(g.other) /\ Ctrl(g.other) # Dead BY <1>1, <3>1 DEF Pending
    <3> QED BY <1>1, <1>2, <1>5, <3>1, <3>2
  <2>2. CASE ~ take
    <3>1. on /\ side = this BY <1>9, <1>12, <2>2 DEF Chosen
    <3> QED BY <1>1, <1>2, <1>4, <3>1
  <2> QED BY <2>1, <2>2
<1>14. Stay(m) /\ Len(frames') = m
  <2>1. frames \in Seq(Frame) BY <1>1 DEF IInv, Blocks0
  <2> QED BY <1>1, <1>2, <1>9, <2>1, StayPop
<1>15. OpenLoops' = OpenLoops /\ next \notin OpenLoops
  <2>1. \A i \in m + 1 .. k : frames[i].fn # "body" BY <1>1, <1>3
  <2>2. OpenLoops' = OpenLoops BY <1>1, <1>3, <1>14, <2>1, OpenKept DEF IInv
  <2>3. next \notin Made
    <3>1. next \in 1 .. MaxNode + 1 /\ MaxNode \in Nat BY ScopeAssumption DEF IInv, Graph
    <3> QED BY <3>1 DEF Made
  <2> QED BY <2>2, <2>3, OpenMade DEF IInv
<1>16. PICK sd : sd = curr' OBVIOUS
<1>17. Graph /\ Values BY DEF IInv
<1>18. /\ Graph' /\ Grown /\ ValOK'
       /\ Laid(sd) /\ Filled(sd)' /\ sd.list = this.list
       /\ Ctrl(side) # Dead => (Means(side) => Means(sd)') /\ Ctrl(sd) # Dead
  <2>1. CASE Ctrl(this) = Dead \/ Ctrl(that) = Dead
    <3>1. PICK live : live = IF Ctrl(this) = Dead THEN that ELSE this OBVIOUS
    <3>2. done = [nodes |-> nodes, sc |-> live] BY <1>10, <1>17, <2>1, <3>1, MergeDead DEF done
    <3>3. /\ Laid(live) /\ Filled(live) /\ live.list = this.list /\ Len(live.list) = z
          /\ Ctrl(live) \in Made \cup {Live, Dead}
      BY <1>7, <3>1 DEF Filled, Ctrl
    <3>4. next \in Nat /\ next \notin Made /\ next # Live /\ next # Dead
      <4>1. next \in 1 .. MaxNode + 1 /\ MaxNode \in Nat BY <1>17, ScopeAssumption DEF Graph
      <4> QED BY <4>1 DEF Made, Live, Dead
    <3>5. nodes' = nodes /\ sd = live /\ next' = next BY <1>9, <1>16, <3>2, <3>3, <3>4
    <3>6. val' = val
      <4>1. val \in [Node -> Node \cup {Null}] /\ \A n \in Node : n >= next => nodes[n] = Gone
        BY <1>17 DEF Graph, Values
      <4>2. \A n \in Node : n < next \/ nodes'[n].kind # "phi"
        <5> TAKE n \in Node
        <5>1. n < next \/ n >= next BY <3>4 DEF Node
        <5> QED BY <3>5, <4>1, <5>1 DEF Gone
      <4>3. val' = [n \in Node |-> val[n]] BY <1>9, <4>2 DEF Valuation
      <4> QED BY <4>1, <4>3
    <3>7. Graph' /\ Grown /\ ValOK'
      <4>1. UNCHANGED <<nodes, next, table, val>> BY <1>9, <3>5, <3>6
      <4> QED BY <1>15, <1>17, <4>1, Quiet
    <3>8. Filled(sd)' BY <1>17, <3>3, <3>5, <3>7, FilledStays
    <3>9. Ctrl(side) # Dead => side = live BY <1>12, <2>1, <3>1 DEF Chosen
    <3>10. Means(live) => Means(live)'
      <4>1. \A l \in 1 .. z : env'[l] = env[l] BY <1>9
      <4> QED BY <3>3, <3>7, <4>1, MeansOn
    <3> QED BY <3>3, <3>5, <3>7, <3>8, <3>9, <3>10
  <2>2. CASE Ctrl(this) # Dead /\ Ctrl(that) # Dead
    <3> DEFINE st == SetCtrl(MergeHead(this, that), next)
    <3>1. done = [nodes |-> MergeNodes(this, that), sc |-> st]
      BY <1>10, <1>17, <2>2, MergeLive DEF done
    <3>2. nodes' = MergeNodes(this, that) /\ sd = SetCtrl(MergeHead(this, that), next)
      BY <1>9, <1>16, <3>1
    <3>3. Ctrl(done.sc) = next
      <4>1. Laid(MergeHead(this, that)) BY <1>10, <1>17, Merged
      <4>2. next \in Node BY <1>10, <1>17, MergePhis
      <4>3. Ctrl(SetCtrl(MergeHead(this, that), next)) = next BY <4>1, <4>2, NewControl
      <4> QED BY <3>1, <4>3
    <3>4. next' = next + (1 + Cardinality(Differing(this, that))) BY <1>9, <3>3 DEF c
    <3>5. table' = table /\ env' = env /\ val' = Valuation(this, that, take) BY <1>9
    <3> HIDE DEF st
    <3>6. Graph' /\ Grown /\ ValOK' BY <1>10, <1>15, <1>17, <3>2, <3>4, <3>5, MergeMakes
    <3>7. /\ Laid(sd) /\ Filled(sd)' /\ sd.list = this.list /\ Ctrl(sd) = next
          /\ Means(Chosen(this, that, take)) => Means(sd)'
      BY <1>10, <1>15, <1>17, <3>2, <3>4, <3>5, MergeScope
    <3>8. next # Dead
      <4>1. next \in Node BY <1>10, <1>17, MergePhis
      <4> QED BY <4>1 DEF Node, Dead
    <3> QED BY <1>12, <3>6, <3>7, <3>8
  <2> QED BY <2>1, <2>2
<1>19. EnvOK'
  <2>1. env' \in Seq(Env) /\ \A l \in DOMAIN env' : l \in DOMAIN env /\ env'[l] = env[l]
    BY <1>9, <1>17 DEF Values
  <2> QED BY <1>17, <1>18, <2>1, EnvStays
<1>20. Rest' BY <1>9, <1>11 DEF IInv, Rest
<1>21. Laid(curr') /\ Filled(curr)' BY <1>16, <1>18 DEF Filled
<1>22. Len(env') = Len(curr'.list) /\ Len(curr'.list) = lev[m] BY <1>1, <1>3, <1>7, <1>9, <1>16, <1>18
<1>23. \A l \in 1 .. lev[m] : curr'.list[l] = curr.list[l] BY <1>4, <1>16, <1>18
<1>24. \A l \in 1 .. lev[m] : env'[l] = env[l] BY <1>9
<1>25. on' => Means(curr)' /\ Ctrl(curr') # Dead
  <2> SUFFICES ASSUME on' PROVE Means(curr)' /\ Ctrl(curr') # Dead OBVIOUS
  <2>1. Means(sd)' /\ Ctrl(sd) # Dead BY <1>13, <1>18
  <2> QED BY <1>16, <2>1
<1>26. on' => \A i \in 1 .. m : OnSide(frames[i]) BY <1>13
<1>27. k = Len(frames) /\ Levels(lev) BY <1>1
<1> QED BY <1>3, <1>14, <1>18, <1>19, <1>20, <1>21, <1>22, <1>23, <1>24, <1>25, <1>26, <1>27, FramesStep

-----------------------------------------------------------------------------
(* The head of a loop: its node, and a phi for each slot.                  *)
HeadShape(hd, sc, z) ==
  /\ Laid(hd) /\ hd.list = sc.list /\ Len(hd.slots) = z
  /\ hd.slots[1] = next /\ Ctrl(hd) = next
  /\ \A s \in 2 .. z : hd.slots[s] = next + s - 1

LEMMA LoopHeadIs ==
  ASSUME next \in Node, next \in Nat, NEW sc, Laid(sc), NEW z \in Nat, z = Len(sc.slots),
         \A s \in 2 .. z : next + s - 1 \in Node,
         NEW hd, hd = LoopHead(SetCtrl(sc, next))
  PROVE  HeadShape(hd, sc, z)
<1> DEFINE w == [i \in 1 .. z |-> IF i = 1 THEN next ELSE next + i - 1]
<1>1. PICK sd : sd = SetCtrl(sc, next) OBVIOUS
<1>2. next \in Node \cup {Live, Dead} OBVIOUS
<1>3. /\ Laid(sd) /\ sd.list = sc.list /\ Len(sd.slots) = z /\ sd.slots[1] = next
  BY <1>1, <1>2, NewControl
<1>4. /\ sd \in Scope /\ DOMAIN sd.slots = 1 .. z /\ z >= 1 /\ sd.list \in Seq(Data)
      /\ sd = [slots |-> sd.slots, list |-> sd.list]
  <2>1. sd \in Scope /\ DOMAIN sd.slots = 1 .. z /\ z >= 1 BY <1>3, LaidParts
  <2>2. sd = [slots |-> sd.slots, list |-> sd.list] BY <2>1, ScopeParts
  <2>3. sd.list \in Seq(Data) BY <2>1 DEF Scope
  <2> QED BY <2>1, <2>2, <2>3
<1>5. hd = [sd EXCEPT !.slots = w]
  <2>1. hd = [sd EXCEPT !.slots = [i \in DOMAIN @ |-> IF i = 1 THEN @[1] ELSE LoopPhi(i)]]
    BY <1>1 DEF LoopHead
  <2>2. hd = [sd EXCEPT !.slots = [i \in 1 .. z |-> IF i = 1 THEN next ELSE LoopPhi(i)]]
    BY <1>3, <1>4, <2>1
  <2> QED BY <2>2 DEF LoopPhi
<1>6. hd = [slots |-> w, list |-> sd.list]
  <2> HIDE DEF w
  <2> QED BY <1>4, <1>5
<1>7. \A i \in 1 .. z : w[i] \in Node
  <2> TAKE i \in 1 .. z
  <2>1. i = 1 \/ i \in 2 .. z OBVIOUS
  <2> QED BY <2>1
<1>8. w \in Slots /\ Len(w) = z
  <2>1. w \in [1 .. z -> Node \cup {Null, Live, Dead}] BY <1>7
  <2> HIDE DEF w
  <2>2. w \in Seq(Node \cup {Null, Live, Dead}) /\ Len(w) = z BY <2>1
  <2> QED BY <2>2 DEF Slots
<1>9. w[1] = next /\ \A s \in 2 .. z : w[s] = next + s - 1 BY <1>4
<1> HIDE DEF w
<1>10. hd \in Scope BY <1>4, <1>6, <1>8 DEF Scope
<1>11. Laid(hd) BY <1>3, <1>6, <1>8, <1>10, SameShape
<1> QED BY <1>3, <1>6, <1>8, <1>9, <1>11 DEF Ctrl, HeadShape

LoopValuation == [n \in Node |-> IF nodes'[n].kind = "phi" /\ n >= next THEN n ELSE val[n]]

LoopShape(nds, sc, z) ==
  /\ next \in Node /\ next \in Nat /\ z >= 1 /\ MaxNode \in Nat
  /\ nds \in [Node -> Rec]
  /\ \A n \in 1 .. next - 1 : nds[n] = nodes[n]
  /\ nds[next] = Loop(<<Ctrl(sc), Null>>)
  /\ \A s \in 2 .. z : /\ next + s - 1 \in Node /\ sc.slots[s] \in Valued
                       /\ nds[next + s - 1] = Phi(next, <<sc.slots[s], Null>>)
  /\ \A n \in Node : n >= next => n = next \/ (\E s \in 2 .. z : n = next + s - 1) \/ nds[n] = Gone

LEMMA LoopMade ==
  ASSUME Graph, NEW sc, Laid(sc), Filled(sc), NEW z \in Nat, z = Len(sc.slots), next + z - 1 <= MaxNode,
         NEW nds, nds = LoopNodes(sc, Ctrl(sc))
  PROVE  LoopShape(nds, sc, z)
<1> DEFINE rec(n) == IF n = next THEN Loop(<<Ctrl(sc), Null>>)
                     ELSE IF \E s \in 2 .. z : n = next + s - 1
                     THEN Phi(next, <<sc.slots[n - next + 1], Null>>)
                     ELSE nodes[n]
<1>1. nds = [n \in Node |-> rec(n)] BY DEF LoopNodes, LoopSlots, LoopPhi
<1>2. z >= 1 BY LaidParts
<1>3. next \in Nat /\ next >= 1 /\ MaxNode \in Nat /\ next \in Node
  <2>1. next \in 1 .. MaxNode + 1 /\ MaxNode \in Nat BY ScopeAssumption DEF Graph
  <2> QED BY <1>2, <2>1 DEF Node
<1>4. \A s \in 2 .. z : next + s - 1 \in Node /\ next + s - 1 # next /\ (next + s - 1) - next + 1 = s
  BY <1>3 DEF Node
<1>5. \A s \in 2 .. z : sc.slots[s] \in Valued BY DEF Filled
<1>6. \A n \in Made : n \in Node /\ n # Null BY <1>3 DEF Made, Node, Null
<1>7. \A s \in 2 .. z : rec(next + s - 1) = Phi(next, <<sc.slots[s], Null>>)
  <2> TAKE s \in 2 .. z
  <2>1. PICK n : n = next + s - 1 OBVIOUS
  <2>2. n # next /\ n - next + 1 = s BY <1>4, <2>1
  <2>3. rec(n) = Phi(next, <<sc.slots[n - next + 1], Null>>) BY <2>1, <2>2
  <2> QED BY <2>1, <2>2, <2>3
<1>8. ASSUME NEW n \in Node PROVE rec(n) \in Rec
  <2>1. CASE n = next
    <3>1. Ctrl(sc) \in Node \cup {Null, Live, Dead} BY <1>6 DEF Filled, Ctrl
    <3>2. <<Ctrl(sc), Null>> \in Slots BY <3>1 DEF Slots
    <3>3. Loop(<<Ctrl(sc), Null>>) \in Rec BY <3>2 DEF Loop, Rec
    <3> QED BY <2>1, <3>3
  <2>2. CASE n # next /\ \E s \in 2 .. z : n = next + s - 1
    <3>1. PICK s \in 2 .. z : n = next + s - 1 BY <2>2
    <3>2. rec(n) = Phi(next, <<sc.slots[s], Null>>) BY <1>7, <3>1
    <3> HIDE DEF rec
    <3>3. sc.slots[s] \in Node BY <1>5, <1>6, <3>1 DEF Valued
    <3>4. <<sc.slots[s], Null>> \in Slots BY <3>3 DEF Slots
    <3> QED BY <1>3, <3>2, <3>4 DEF Phi, Rec
  <2>3. CASE n # next /\ ~ \E s \in 2 .. z : n = next + s - 1 BY <2>3 DEF Graph
  <2> QED BY <2>1, <2>2, <2>3
<1>9. nds \in [Node -> Rec]
  <2> HIDE DEF rec
  <2> QED BY <1>1, <1>8
<1>10. \A n \in 1 .. next - 1 : nds[n] = nodes[n]
  <2> TAKE n \in 1 .. next - 1
  <2>1. n \in Node /\ n # next BY <1>3 DEF Node
  <2>2. \A s \in 2 .. z : n # next + s - 1 BY <1>3
  <2> QED BY <1>1, <2>1, <2>2
<1>11. nds[next] = Loop(<<Ctrl(sc), Null>>) BY <1>1, <1>3
<1>12. \A s \in 2 .. z : nds[next + s - 1] = Phi(next, <<sc.slots[s], Null>>)
  <2> TAKE s \in 2 .. z
  <2>1. nds[next + s - 1] = rec(next + s - 1)
    <3>1. next + s - 1 \in Node BY <1>4
    <3> HIDE DEF rec
    <3> QED BY <1>1, <3>1
  <2> HIDE DEF rec
  <2> QED BY <1>7, <2>1
<1>13. \A n \in Node : n >= next => n = next \/ (\E s \in 2 .. z : n = next + s - 1) \/ nds[n] = Gone
  BY <1>1 DEF Graph
<1> QED BY <1>2, <1>3, <1>4, <1>5, <1>9, <1>10, <1>11, <1>12, <1>13 DEF LoopShape

LEMMA LoopMakes ==
  ASSUME Graph, Values, NEW sc, Laid(sc), Filled(sc), NEW z \in Nat, z = Len(sc.slots),
         next + z - 1 <= MaxNode, nodes' = LoopNodes(sc, Ctrl(sc)), table' = table,
         next' = next + z, val' = LoopValuation,
         OpenLoops' = OpenLoops \cup {next}
  PROVE  /\ Graph' /\ Grown /\ ValOK'
         /\ next \in Made' /\ nodes'[next].kind = "loop" /\ nodes'[next].args[2] = Null
         /\ \A s \in 2 .. z : /\ next + s - 1 \in Valued' /\ val'[next + s - 1] = next + s - 1
                              /\ IsPhiOf(nodes', next + s - 1, next)
         /\ \A n \in Node : IsPhiOf(nodes', n, next) => n \in next + 1 .. next + z - 1
<1>1. PICK nw : nw = nodes' OBVIOUS
<1>2. nw = LoopNodes(sc, Ctrl(sc)) BY <1>1
<1>3. /\ next \in Node /\ next \in Nat /\ z >= 1 /\ MaxNode \in Nat
      /\ nw \in [Node -> Rec]
      /\ \A n \in 1 .. next - 1 : nw[n] = nodes[n]
      /\ nw[next] = Loop(<<Ctrl(sc), Null>>)
      /\ \A s \in 2 .. z : /\ next + s - 1 \in Node /\ sc.slots[s] \in Valued
                           /\ nw[next + s - 1] = Phi(next, <<sc.slots[s], Null>>)
      /\ \A n \in Node : n >= next => n = next \/ (\E s \in 2 .. z : n = next + s - 1) \/ nw[n] = Gone
  <2>1. LoopShape(nw, sc, z) BY <1>2, LoopMade
  <2> QED BY <2>1 DEF LoopShape
<1>4. next >= 1 /\ next' \in Nat /\ next < next' /\ next' <= MaxNode + 1 BY <1>3 DEF Node
<1>5. \A n : n \in Made <=> n \in Nat /\ 1 <= n /\ n < next BY <1>3 DEF Made
<1>6. \A n : n \in Made' <=> n \in Nat /\ 1 <= n /\ n < next' BY <1>4 DEF Made
<1>7. \A n \in Node : n \in Nat /\ 1 <= n /\ n <= MaxNode BY <1>3 DEF Node
<1>8. \A n \in Node : n >= next' => n >= next /\ n # next
  <2> TAKE n \in Node
  <2>1. PICK y : y = next' OBVIOUS
  <2>2. y \in Nat /\ next < y /\ next \in Nat /\ n \in Nat BY <1>3, <1>4, <1>7, <2>1
  <2>3. n >= y => n >= next /\ n # next BY <2>2
  <2> QED BY <2>1, <2>3
<1>9. \A s \in 2 .. z : /\ next + s - 1 \in Made' /\ next + s - 1 \notin Made
                        /\ next + s - 1 >= next /\ next + s - 1 # next
                        /\ next + s - 1 \in next + 1 .. next + z - 1
  <2> TAKE s \in 2 .. z
  <2>1. next + s - 1 \in Nat /\ next + s - 1 >= next + 1 /\ next + s - 1 < next + z BY <1>3, SMTT(30)
  <2> QED BY <1>3, <1>4, <1>5, <1>6, <2>1, SMTT(30)
<1>10. next \in Made' /\ next \notin Made BY <1>3, <1>4, <1>5, <1>6
<1>11. \A n \in Node : n \in Made \/ n >= next BY <1>3, <1>5, <1>7
<1>12. ASSUME NEW n \in Node
       PROVE  \/ n \in Made /\ nw[n] = nodes[n]
              \/ n = next /\ nw[n] = Loop(<<Ctrl(sc), Null>>)
              \/ \E s \in 2 .. z : n = next + s - 1 /\ nw[n] = Phi(next, <<sc.slots[s], Null>>)
              \/ n >= next /\ nw[n] = Gone
  <2>1. n \in Made => nw[n] = nodes[n] BY <1>3 DEF Made
  <2> QED BY <1>3, <1>11, <2>1
<1>13. /\ val \in [Node -> Node \cup {Null}] /\ \A n \in Node : n >= next => val[n] = Null
       /\ \A n \in Valued : val[n] \in Valued /\ val[val[n]] = val[n]
  BY DEF Values
<1>14. \A n \in Made : n \in Node /\ val'[n] = val[n]
  <2> TAKE n \in Made
  <2>1. n \in Node /\ ~ (n >= next) BY <1>3, <1>5 DEF Node
  <2> QED BY <2>1 DEF LoopValuation
<1>15. \A s \in 2 .. z : val'[next + s - 1] = next + s - 1
  <2> TAKE s \in 2 .. z
  <2>1. PICK n : n = next + s - 1 OBVIOUS
  <2>2. n \in Node /\ n >= next /\ nw[n].kind = "phi"
    <3>1. n \in Node /\ n >= next /\ nw[n] = Phi(next, <<sc.slots[s], Null>>) BY <1>3, <1>9, <2>1
    <3> QED BY <3>1 DEF Phi
  <2>3. val'[n] = n BY <1>1, <2>2 DEF LoopValuation
  <2> QED BY <2>1, <2>3
<1>16. \A n \in Node : n >= next /\ (\A s \in 2 .. z : n # next + s - 1) => val'[n] = Null
  <2> SUFFICES ASSUME NEW n \in Node, n >= next, \A s \in 2 .. z : n # next + s - 1
               PROVE  val'[n] = Null
    OBVIOUS
  <2>0. n = next \/ nw[n] = Gone BY <1>3
  <2>1. nw[n].kind # "phi" BY <1>3, <2>0 DEF Loop, Gone
  <2>2. val'[n] = val[n] BY <1>1, <2>1 DEF LoopValuation
  <2> QED BY <1>13, <2>2
<1>17. Grown
  <2>1. next' \in next .. MaxNode + 1 BY <1>3, <1>4
  <2>2. \A n \in 1 .. next - 1 : nodes'[n] = nodes[n] /\ val'[n] = val[n]
    BY <1>1, <1>3, <1>14 DEF Made
  <2>3. ASSUME NEW n \in Node, n >= next, nodes'[n].kind = "phi" PROVE nodes'[n].reg >= next
    <3>1. n \notin Made BY <1>3, <1>5, <2>3
    <3>2. nw[n].kind = "phi" BY <1>1, <2>3
    <3>3. PICK s \in 2 .. z : nw[n] = Phi(next, <<sc.slots[s], Null>>)
      BY <1>12, <3>1, <3>2 DEF Loop, Gone
    <3>4. nw[n].reg = next BY <3>3 DEF Phi
    <3> QED BY <1>1, <1>3, <3>4
  <2> QED BY <2>1, <2>2, <2>3 DEF Grown
<1>18. Made \subseteq Made' /\ Valued \subseteq Valued' /\ \A n \in Valued : val'[n] = val[n]
  BY <1>17, GrownNodes
<1>19. \A s \in 2 .. z : next + s - 1 \in Valued'
  <2> TAKE s \in 2 .. z
  <2>1. PICK n : n = next + s - 1 OBVIOUS
  <2>2. n \in Made' /\ val'[n] = n /\ n \in Node BY <1>3, <1>9, <1>15, <2>1
  <2>3. n # Null BY <1>7, <2>2 DEF Null
  <2>4. n \in Valued' BY <2>2, <2>3 DEF Valued
  <2> QED BY <2>1, <2>4
<1>20. ValOK'
  <2>1. \A n \in Node : n >= next' => val'[n] = Null
    <3> TAKE n \in Node
    <3> HAVE n >= next'
    <3>1. n >= next BY <1>8
    <3>2. n \notin Made' BY <1>4, <1>6, <1>7
    <3>3. \A s \in 2 .. z : n # next + s - 1 BY <1>9, <3>2
    <3> QED BY <1>16, <3>1, <3>3
  <2>2. \A n \in Valued' : val'[n] \in Valued' /\ val'[val'[n]] = val'[n]
    <3> TAKE n \in Valued'
    <3>1. n \in Made' /\ val'[n] # Null BY DEF Valued
    <3>2. CASE n \in Made
      <4>1. n \in Valued /\ val'[n] = val[n] BY <1>14, <3>1, <3>2 DEF Valued
      <4>2. val[n] \in Valued /\ val[val[n]] = val[n] BY <1>13, <4>1
      <4> QED BY <1>18, <4>1, <4>2
    <3>3. CASE n \notin Made
      <4>1. n \in Node /\ n >= next BY <1>3, <1>4, <1>5, <1>6, <3>1, <3>3 DEF Node
      <4>2. PICK s \in 2 .. z : n = next + s - 1 BY <1>16, <3>1, <4>1
      <4>3. val'[n] = n BY <1>15, <4>2
      <4> QED BY <4>3
    <3> QED BY <3>2, <3>3
  <2>3. val' \in [Node -> Node \cup {Null}]
    <3>1. val' = [n \in Node |-> val'[n]] BY DEF LoopValuation
    <3>2. \A n \in Node : val'[n] \in Node \cup {Null} BY <1>13 DEF LoopValuation
    <3> QED BY <3>1, <3>2
  <2> QED BY <2>1, <2>2, <2>3 DEF ValOK
<1>21. Graph'
  <2>1. next' \in 1 .. MaxNode + 1 BY <1>3, <1>4
  <2>2. \A n \in Node : n >= next' => nodes'[n] = Gone
    <3> TAKE n \in Node
    <3> HAVE n >= next'
    <3>1. n >= next /\ n # next BY <1>8
    <3>2. n \notin Made' BY <1>4, <1>6, <1>7
    <3>3. \A s \in 2 .. z : n # next + s - 1 BY <1>9, <3>2
    <3> QED BY <1>1, <1>3, <3>1, <3>3
  <2>3. \A n \in Node : nw[n].kind \in {"region", "loop"} => Len(nw[n].args) = 2
    <3> TAKE n \in Node
    <3>1. CASE n \in Made /\ nw[n] = nodes[n] BY <3>1 DEF Graph
    <3>2. CASE nw[n] = Loop(<<Ctrl(sc), Null>>) BY <3>2 DEF Loop
    <3>3. CASE \E s \in 2 .. z : n = next + s - 1 /\ nw[n] = Phi(next, <<sc.slots[s], Null>>)
      BY <3>3 DEF Phi
    <3>4. CASE nw[n] = Gone BY <3>4 DEF Gone
    <3> QED BY <1>12, <3>1, <3>2, <3>3, <3>4
  <2>4. ASSUME NEW n \in Node, nw[n].kind = "phi"
        PROVE  /\ nw[n].reg \in 1 .. n - 1 /\ nw[nw[n].reg].kind \in {"region", "loop"}
               /\ Len(nw[n].args) = 2
               /\ n \in Valued'
               /\ nw[n].args[1] \in Valued' /\ nw[n].args[2] \in Valued' \cup {Null}
               /\ nw[n].args[2] = Null <=> nw[n].reg \in OpenLoops'
    <3>1. CASE n \in Made
      <4>0. nw[n] = nodes[n] BY <1>3, <3>1 DEF Made
      <4>1. /\ nodes[n].reg \in 1 .. n - 1 /\ nodes[nodes[n].reg].kind \in {"region", "loop"}
            /\ Len(nodes[n].args) = 2 /\ n \in Valued
            /\ nodes[n].args[1] \in Valued /\ nodes[n].args[2] \in Valued \cup {Null}
            /\ nodes[n].args[2] = Null <=> nodes[n].reg \in OpenLoops
        BY <2>4, <4>0 DEF Graph
      <4>2. nodes[n].reg \in 1 .. next - 1 /\ nodes[n].reg # next BY <1>3, <1>5, <3>1, <4>1
      <4>3. nw[nodes[n].reg] = nodes[nodes[n].reg] BY <1>3, <4>2
      <4>4. nodes[n].reg \in OpenLoops' <=> nodes[n].reg \in OpenLoops BY <4>2
      <4> QED BY <1>18, <4>0, <4>1, <4>3, <4>4
    <3>2. CASE n \notin Made
      <4>1. PICK s \in 2 .. z : n = next + s - 1 /\ nw[n] = Phi(next, <<sc.slots[s], Null>>)
        BY <1>12, <2>4, <3>2 DEF Loop, Gone
      <4>2. nw[n].reg = next /\ nw[n].args = <<sc.slots[s], Null>> BY <4>1 DEF Phi
      <4>3. nw[next].kind = "loop" BY <1>3 DEF Loop
      <4>4. n \in Nat /\ n >= next + 1 BY <1>3, <4>1, SMTT(30)
      <4>5. next \in 1 .. n - 1 BY <1>3, <1>4, <4>4
      <4>6. nw[n].args[1] = sc.slots[s] /\ nw[n].args[2] = Null /\ Len(nw[n].args) = 2 BY <4>2
      <4>7. sc.slots[s] \in Valued' /\ n \in Valued' BY <1>3, <1>18, <1>19, <4>1
      <4> QED BY <4>2, <4>3, <4>5, <4>6, <4>7
    <3> QED BY <3>1, <3>2
  <2>5. \A r \in table' : r.node \in Node /\ r.reg \in Node /\ r.args \in Slots BY DEF Graph
  <2>6. nodes' \in [Node -> Rec] BY <1>1, <1>3
  <2> QED BY <1>1, <2>1, <2>2, <2>3, <2>4, <2>5, <2>6 DEF Graph
<1>22. nodes'[next].kind = "loop" /\ nodes'[next].args[2] = Null BY <1>1, <1>3 DEF Loop
<1>23. \A s \in 2 .. z : IsPhiOf(nodes', next + s - 1, next)
  <2> TAKE s \in 2 .. z
  <2>1. PICK n : n = next + s - 1 OBVIOUS
  <2>2. n \in Node /\ nodes'[n] = Phi(next, <<sc.slots[s], Null>>) BY <1>1, <1>3, <2>1
  <2>3. IsPhiOf(nodes', n, next) BY <2>2 DEF IsPhiOf, Phi
  <2> QED BY <2>1, <2>3
<1>24. \A n \in Node : IsPhiOf(nodes', n, next) => n \in next + 1 .. next + z - 1
  <2> SUFFICES ASSUME NEW n \in Node, IsPhiOf(nodes', n, next) PROVE n \in next + 1 .. next + z - 1
    OBVIOUS
  <2>1. nw[n].kind = "phi" /\ nw[n].reg = next BY <1>1 DEF IsPhiOf
  <2>2. n \notin Made
    <3> SUFFICES ASSUME n \in Made PROVE FALSE OBVIOUS
    <3>1. nodes[n].kind = "phi" /\ nodes[n].reg = next BY <1>3, <2>1 DEF Made
    <3>2. next \in 1 .. n - 1 BY <3>1 DEF Graph
    <3> QED BY <1>3, <1>5, <3>2
  <2>3. PICK s \in 2 .. z : n = next + s - 1
    <3>1. nw[n] # Gone /\ nw[n] # Loop(<<Ctrl(sc), Null>>) BY <2>1 DEF Loop, Gone
    <3> QED BY <1>12, <2>2, <3>1
  <2> QED BY <1>9, <2>3
<1> QED BY <1>10, <1>15, <1>17, <1>19, <1>20, <1>21, <1>22, <1>23, <1>24

(* What the variables mean in any iteration: the phi of their slot.         *)
Tokens(hd) ==
  [l \in DOMAIN env |-> [x \in DOMAIN env[l] |->
     LoopPhi((CHOOSE c \in Cells(hd, l) : c.name = x).slot)]]

LEMMA OneCell ==
  ASSUME NEW hd, Laid(hd), NEW l \in DOMAIN hd.list, NEW i \in DOMAIN hd.list[l].cells
  PROVE  (CHOOSE c \in Cells(hd, l) : c.name = hd.list[l].cells[i].name) = hd.list[l].cells[i]
<1>1. PICK d : d = hd.list[l].cells OBVIOUS
<1>2. Cells(hd, l) = {d[j] : j \in DOMAIN d} BY <1>1 DEF Cells, ToSet
<1>3. \A j \in DOMAIN d : d[j].name = d[i].name => j = i BY <1>1 DEF Laid
<1>4. d[i] \in Cells(hd, l) BY <1>1, <1>2
<1>5. \A c \in Cells(hd, l) : c.name = d[i].name => c = d[i] BY <1>2, <1>3
<1> QED BY <1>1, <1>4, <1>5

(* Each block of the meaning has the names of the block in the scope.        *)
Fits(list) ==
  \A l \in DOMAIN list :
    DOMAIN env[l] = {x \in Name : \E i \in DOMAIN list[l].cells : list[l].cells[i].name = x}

Marked(hd, toks, z) ==
  /\ toks \in Seq(Env) /\ Len(toks) = Len(env)
  /\ \A l \in DOMAIN hd.list : DOMAIN toks[l] = DOMAIN env[l]
  /\ \A l \in DOMAIN hd.list : \A i \in DOMAIN hd.list[l].cells :
       hd.list[l].cells[i].name # "@ctrl" =>
         toks[l][hd.list[l].cells[i].name] = next + hd.list[l].cells[i].slot - 1
  /\ \A l \in DOMAIN toks : \A x \in DOMAIN toks[l] : \E s \in 2 .. z : toks[l][x] = next + s - 1

LEMMA TokensMean ==
  ASSUME NEW hd, Laid(hd), env \in Seq(Env), Len(env) = Len(hd.list), Fits(hd.list),
         NEW z \in Nat, z = Len(hd.slots), \A s \in 2 .. z : next + s - 1 \in Node
  PROVE  Marked(hd, Tokens(hd), z)
<1> PICK toks : toks = Tokens(hd) OBVIOUS
<1> SUFFICES Marked(hd, toks, z) OBVIOUS
<1>0. \A l \in DOMAIN hd.list :
        DOMAIN env[l] = {x \in Name : \E i \in DOMAIN hd.list[l].cells : hd.list[l].cells[i].name = x}
  BY DEF Fits
<1> DEFINE pick(l, x) == CHOOSE c \in Cells(hd, l) : c.name = x
           tok(l, x) == LoopPhi(pick(l, x).slot)
           y == Len(env)
<1>1. /\ hd \in Scope /\ DOMAIN hd.list = 1 .. y /\ y \in Nat /\ DOMAIN env = 1 .. y
  BY LaidParts
<1>2. toks = [l \in 1 .. y |-> [x \in DOMAIN env[l] |-> tok(l, x)]] BY <1>1 DEF Tokens
<1>3. \A l \in DOMAIN hd.list : \A i \in DOMAIN hd.list[l].cells :
        pick(l, hd.list[l].cells[i].name) = hd.list[l].cells[i]
  BY OneCell
<1> HIDE DEF pick, y
<1>4. ASSUME NEW l \in 1 .. y, NEW x \in DOMAIN env[l]
      PROVE  \E i \in DOMAIN hd.list[l].cells :
               /\ hd.list[l].cells[i].name = x
               /\ hd.list[l].cells[i].slot \in 2 .. z
               /\ tok(l, x) = next + hd.list[l].cells[i].slot - 1
  <2>1. x \in Name /\ \E i \in DOMAIN hd.list[l].cells : hd.list[l].cells[i].name = x BY <1>0, <1>1, <1>4
  <2>2. PICK i \in DOMAIN hd.list[l].cells : hd.list[l].cells[i].name = x BY <2>1
  <2>3. x # "@ctrl" BY <2>1, ScopeAssumption
  <2>4. hd.list[l].cells[i].slot \in 2 .. z BY <1>1, <2>2, <2>3, CellSlots
  <2>5. pick(l, x) = hd.list[l].cells[i] BY <1>1, <1>3, <2>2
  <2> QED BY <2>2, <2>4, <2>5 DEF LoopPhi
<1>5. \A l \in 1 .. y : \A x \in DOMAIN env[l] : \E s \in 2 .. z : tok(l, x) = next + s - 1 BY <1>4
<1>6. \A l \in DOMAIN hd.list : \A i \in DOMAIN hd.list[l].cells :
        hd.list[l].cells[i].name # "@ctrl" =>
          /\ hd.list[l].cells[i].name \in DOMAIN env[l]
          /\ tok(l, hd.list[l].cells[i].name) = next + hd.list[l].cells[i].slot - 1
  <2> SUFFICES ASSUME NEW l \in DOMAIN hd.list, NEW i \in DOMAIN hd.list[l].cells,
                      hd.list[l].cells[i].name # "@ctrl"
               PROVE  /\ hd.list[l].cells[i].name \in DOMAIN env[l]
                      /\ tok(l, hd.list[l].cells[i].name) = next + hd.list[l].cells[i].slot - 1
    OBVIOUS
  <2>1. hd.list[l].cells[i] \in Cell BY <1>1, ScopeParts
  <2>2. hd.list[l].cells[i].name \in Name BY <2>1 DEF Cell
  <2>3. hd.list[l].cells[i].name \in DOMAIN env[l] BY <1>0, <2>2
  <2>4. pick(l, hd.list[l].cells[i].name) = hd.list[l].cells[i] BY <1>3
  <2> QED BY <2>3, <2>4 DEF LoopPhi
<1> HIDE DEF tok
<1>7. \A l \in 1 .. y : DOMAIN toks[l] = DOMAIN env[l] /\ \A x \in DOMAIN env[l] : toks[l][x] = tok(l, x)
  BY <1>2
<1>8. \A l \in 1 .. y : toks[l] \in Env
  <2> TAKE l \in 1 .. y
  <2>1. toks[l] = [x \in DOMAIN env[l] |-> tok(l, x)] BY <1>2
  <2>2. \A x \in DOMAIN env[l] : tok(l, x) \in Node BY <1>5
  <2>3. DOMAIN env[l] \subseteq Name BY <1>0, <1>1
  <2>4. toks[l] \in [DOMAIN env[l] -> Node] BY <2>1, <2>2
  <2> QED BY <2>3, <2>4 DEF Env
<1>9. toks \in Seq(Env) /\ Len(toks) = y
  <2>1. y \in Nat /\ DOMAIN toks = 1 .. y /\ toks = [l \in 1 .. y |-> toks[l]] BY <1>1, <1>2
  <2>2. toks \in [1 .. y -> Env] BY <1>8, <2>1
  <2> QED BY <2>1, <2>2
<1>10. DOMAIN toks = 1 .. y BY <1>2
<1>11. \A l \in DOMAIN hd.list : \A i \in DOMAIN hd.list[l].cells :
        hd.list[l].cells[i].name # "@ctrl" =>
          toks[l][hd.list[l].cells[i].name] = next + hd.list[l].cells[i].slot - 1
  BY <1>1, <1>6, <1>7
<1>12. \A l \in DOMAIN toks : \A x \in DOMAIN toks[l] : \E s \in 2 .. z : toks[l][x] = next + s - 1
  BY <1>5, <1>7, <1>10
<1> QED BY <1>1, <1>7, <1>9, <1>11, <1>12 DEF y, Marked

(* The opening of a loop, the copy of its head left out.                   *)
LEMMA SameTokens ==
  ASSUME NEW hd
  PROVE  LET henv == [l \in DOMAIN env |-> [x \in DOMAIN env[l] |->
                       CHOOSE c \in Cells(hd, l) : c.name = x]]
         IN  [l \in DOMAIN env |-> [x \in DOMAIN env[l] |-> LoopPhi(henv[l][x].slot)]] = Tokens(hd)
<1> DEFINE pick(l, x) == CHOOSE c \in Cells(hd, l) : c.name = x
           henv == [l \in DOMAIN env |-> [x \in DOMAIN env[l] |-> pick(l, x)]]
<1>1. Tokens(hd) = [l \in DOMAIN env |-> [x \in DOMAIN env[l] |-> LoopPhi(pick(l, x).slot)]]
  BY DEF Tokens
<1>2. SUFFICES [l \in DOMAIN env |-> [x \in DOMAIN env[l] |-> LoopPhi(henv[l][x].slot)]]
             = [l \in DOMAIN env |-> [x \in DOMAIN env[l] |-> LoopPhi(pick(l, x).slot)]]
  BY <1>1
<1> HIDE DEF pick
<1>3. \A l \in DOMAIN env : \A x \in DOMAIN env[l] : henv[l][x] = pick(l, x) OBVIOUS
<1> HIDE DEF henv
<1>4. \A l \in DOMAIN env : [x \in DOMAIN env[l] |-> LoopPhi(henv[l][x].slot)]
                           = [x \in DOMAIN env[l] |-> LoopPhi(pick(l, x).slot)]
  <2> TAKE l \in DOMAIN env
  <2>1. \A x \in DOMAIN env[l] : LoopPhi(henv[l][x].slot) = LoopPhi(pick(l, x).slot) BY <1>3
  <2> QED BY <2>1
<1> QED BY <1>4

At(hd) == IF on THEN Tokens(hd) ELSE env

LEMMA WhileParts ==
  ASSUME NEW cond, NEW go, While(cond, go), NEW hd, hd = LoopHead(SetCtrl(curr, next)), Laid(hd)
  PROVE  /\ Statement
         /\ Takes(cond, go)
         /\ next + Len(curr.slots) - 1 <= MaxNode
         /\ nodes' = LoopNodes(curr, Ctrl(curr))
         /\ next' = next + Len(curr.slots)
         /\ val' = LoopValuation
         /\ fault' = fault
         /\ curr' = PushScope(SetCtrl(hd, IfControl(next, cond, "true")))
         /\ env' = Append(At(hd), <<>>)
         /\ frames' = Append(frames,
              [fn |-> "body", head |-> hd, was |-> on, go |-> go,
               exit |-> SetCtrl(hd, IfControl(next, cond, "false")),
               before |-> env, at |-> At(hd)])
         /\ on' = (on /\ go)
         /\ table' = table
<1> DEFINE dup == Duplicate(hd)
           henv == [l \in DOMAIN env |-> [x \in DOMAIN env[l] |->
                       CHOOSE c \in Cells(hd, l) : c.name = x]]
           tokens == [l \in DOMAIN env |-> [x \in DOMAIN env[l] |-> LoopPhi(henv[l][x].slot)]]
<1>1. dup = [sc |-> hd, ok |-> TRUE] BY DuplicateIsEqual
<1>2. dup.ok /\ dup.sc = hd BY <1>1
<1>3. tokens = Tokens(hd) BY SameTokens
<1>4. /\ Statement /\ Takes(cond, go)
      /\ next + Len(curr.slots) - 1 <= MaxNode
      /\ nodes' = LoopNodes(curr, Ctrl(curr))
      /\ next' = next + Len(curr.slots)
      /\ val' = LoopValuation
      /\ fault' = IF dup.ok THEN fault ELSE "slot_moved"
      /\ curr' = PushScope(SetCtrl(dup.sc, IfControl(next, cond, "true")))
      /\ env' = Append(IF on THEN tokens ELSE env, <<>>)
      /\ frames' = Append(frames,
              [fn |-> "body", head |-> hd, was |-> on, go |-> go,
               exit |-> SetCtrl(dup.sc, IfControl(next, cond, "false")),
               before |-> env, at |-> IF on THEN tokens ELSE env])
      /\ on' = (on /\ go)
      /\ table' = table
  BY DEF While, LoopValuation
<1> HIDE DEF dup, tokens
<1> QED BY <1>2, <1>3, <1>4 DEF At

(* What the variables mean in the loop: still what the head has for them.   *)
LEMMA LoopMeans ==
  ASSUME NEW hd, Laid(hd), NEW sc, Laid(sc), hd.list = sc.list, Len(hd.slots) = Len(sc.slots), Means(sc),
         env \in Seq(Env), Len(env) = Len(hd.list),
         NEW z \in Nat, z = Len(hd.slots), \A s \in 2 .. z : next + s - 1 \in Node,
         \A s \in 2 .. z : hd.slots[s] = next + s - 1 /\ val'[next + s - 1] = next + s - 1,
         \A l \in DOMAIN hd.list : env'[l] = Tokens(hd)[l]
  PROVE  Means(hd)'
<1> DEFINE marks == Tokens(hd)
<1>0. Fits(sc.list) BY Zenon DEF Means, Fits
<1>1. Fits(hd.list) BY <1>0
<1> HIDE DEF marks
<1>2. Marked(hd, marks, z) BY <1>1, TokensMean DEF marks
<1>3. \A l \in DOMAIN hd.list : env'[l] = marks[l] BY DEF marks
<1>4. \A l \in DOMAIN hd.list :
        DOMAIN env'[l] = {x \in Name : \E i \in DOMAIN hd.list[l].cells : hd.list[l].cells[i].name = x}
  <2> TAKE l \in DOMAIN hd.list
  <2>1. DOMAIN env'[l] = DOMAIN env[l] BY <1>2, <1>3 DEF Marked
  <2> QED BY <1>1, <2>1 DEF Fits
<1>5. \A l \in DOMAIN hd.list : \A i \in DOMAIN hd.list[l].cells :
       hd.list[l].cells[i].name # "@ctrl" =>
         val'[hd.slots[hd.list[l].cells[i].slot]] = env'[l][hd.list[l].cells[i].name]
  <2> SUFFICES ASSUME NEW l \in DOMAIN hd.list, NEW i \in DOMAIN hd.list[l].cells,
                      hd.list[l].cells[i].name # "@ctrl"
               PROVE  val'[hd.slots[hd.list[l].cells[i].slot]] = env'[l][hd.list[l].cells[i].name]
    BY Zenon
  <2>1. hd.list[l].cells[i].slot \in 2 .. z BY CellSlots
  <2>2. val'[hd.slots[hd.list[l].cells[i].slot]] = next + hd.list[l].cells[i].slot - 1 BY <2>1, Zenon
  <2>3. marks[l][hd.list[l].cells[i].name] = next + hd.list[l].cells[i].slot - 1 BY <1>2 DEF Marked
  <2> QED BY <1>3, <2>2, <2>3, Zenon
<1> QED BY <1>4, <1>5, Zenon DEF Means

LEMMA LoopEnv ==
  ASSUME Graph, Grown, Values, NEW hd, Laid(hd), on \in BOOLEAN, on => Means(curr), hd.list = curr.list,
         Len(env) = Len(hd.list), NEW z \in Nat, z = Len(hd.slots),
         \A s \in 2 .. z : next + s - 1 \in Node /\ next + s - 1 \in Valued' /\ val'[next + s - 1] = next + s - 1,
         env' = Append(At(hd), <<>>)
  PROVE  /\ EnvOK' /\ Len(env') = Len(env) + 1 /\ env'[Len(env) + 1] = <<>>
         /\ At(hd) \in Seq(Env) /\ Len(At(hd)) = Len(env)
         /\ \A l \in DOMAIN At(hd) : env'[l] = At(hd)[l]
         /\ \A l \in DOMAIN At(hd) : \A x \in DOMAIN At(hd)[l] : At(hd)[l][x] \in Valued'
         /\ ~ on => \A l \in DOMAIN At(hd) : \A x \in DOMAIN At(hd)[l] : At(hd)[l][x] < next
<1> DEFINE at == At(hd)
           marks == Tokens(hd)
<1>0. env \in Seq(Env) /\ \A l \in DOMAIN env : \A x \in DOMAIN env[l] :
                             env[l][x] \in Valued /\ val[env[l][x]] = env[l][x]
  BY DEF Values
<1>1. /\ at \in Seq(Env) /\ Len(at) = Len(env)
      /\ \A l \in DOMAIN at : \A x \in DOMAIN at[l] : at[l][x] \in Valued' /\ val'[at[l][x]] = at[l][x]
  <2>1. CASE on
    <3>0. Fits(curr.list) BY <2>1, Zenon DEF Means, Fits
    <3>1. Fits(hd.list) BY <3>0
    <3>2. \A s \in 2 .. z : next + s - 1 \in Node OBVIOUS
    <3> HIDE DEF marks
    <3>3. Marked(hd, marks, z) BY <1>0, <3>1, <3>2, TokensMean DEF marks
    <3>4. at = marks BY <2>1 DEF At, marks
    <3> QED BY <3>3, <3>4 DEF Marked
  <2>2. CASE ~ on
    <3>1. at = env BY <2>2 DEF At
    <3>2. Valued \subseteq Valued' /\ \A n \in Valued : val'[n] = val[n] BY GrownNodes
    <3> QED BY <1>0, <3>1, <3>2
  <2> QED BY <2>1, <2>2
<1>2. ~ on => \A l \in DOMAIN at : \A x \in DOMAIN at[l] : at[l][x] < next
  <2> SUFFICES ASSUME ~ on PROVE \A l \in DOMAIN at : \A x \in DOMAIN at[l] : at[l][x] < next OBVIOUS
  <2>1. at = env BY DEF At
  <2>2. \A n \in Valued : n < next BY DEF Valued, Made, Graph
  <2> QED BY <1>0, <2>1, <2>2
<1> HIDE DEF at, marks
<1>3. env' = Append(at, <<>>) BY DEF at
<1>4. <<>> \in Env /\ DOMAIN <<>> = {} BY NoNames
<1>5. /\ env' \in Seq(Env) /\ Len(env') = Len(env) + 1 /\ env'[Len(env) + 1] = <<>>
      /\ \A l \in DOMAIN at : env'[l] = at[l]
      /\ \A l \in DOMAIN env' : l \in DOMAIN at \/ env'[l] = <<>>
  <2> DEFINE y == Len(at)
  <2>1. at \in Seq(Env) /\ y \in Nat /\ DOMAIN at = 1 .. y /\ y = Len(env) BY <1>1
  <2>0. \A t \in Seq(Env) : \A v \in Env :
          /\ Append(t, v) \in Seq(Env) /\ Len(Append(t, v)) = Len(t) + 1 /\ Append(t, v)[Len(t) + 1] = v
          /\ \A l \in 1 .. Len(t) : Append(t, v)[l] = t[l]
    BY AppendProperties
  <2>2. /\ env' \in Seq(Env) /\ Len(env') = y + 1 /\ env'[y + 1] = <<>>
        /\ \A l \in 1 .. y : env'[l] = at[l]
    <3>1. PICK none \in Env : none = <<>> BY <1>4
    <3>2. env' = Append(at, none) BY <1>3, <3>1
    <3>3. /\ Append(at, none) \in Seq(Env) /\ Len(Append(at, none)) = Len(at) + 1
          /\ Append(at, none)[Len(at) + 1] = none
          /\ \A l \in 1 .. Len(at) : Append(at, none)[l] = at[l]
      BY <2>0, <2>1
    <3> QED BY <3>1, <3>2, <3>3, Zenon
  <2>3. DOMAIN env' = 1 .. y + 1 BY <2>2
  <2> HIDE DEF y
  <2>4. \A l \in 1 .. y + 1 : l \in 1 .. y \/ l = y + 1 BY <2>1
  <2>5. \A l \in DOMAIN env' : l \in DOMAIN at \/ env'[l] = <<>> BY <2>1, <2>2, <2>3, <2>4
  <2> QED BY <2>1, <2>2, <2>5
<1>6. \A l \in DOMAIN env' : \A x \in DOMAIN env'[l] : env'[l][x] \in Valued' /\ val'[env'[l][x]] = env'[l][x]
  <2> TAKE l \in DOMAIN env'
  <2>1. CASE l \in DOMAIN at BY <1>1, <1>5, <2>1
  <2>2. CASE env'[l] = <<>> BY <1>4, <2>2
  <2> QED BY <1>5, <2>1, <2>2
<1>7. EnvOK' BY <1>5, <1>6 DEF EnvOK
<1>8. /\ at \in Seq(Env) /\ Len(at) = Len(env)
      /\ \A l \in DOMAIN at : \A x \in DOMAIN at[l] : at[l][x] \in Valued'
  BY <1>1
<1> QED BY <1>2, <1>5, <1>7, <1>8 DEF at

LEMMA OneMoreLoop ==
  ASSUME frames \in Seq(Frame), NEW k \in Nat, k = Len(frames), NEW f, f.fn = "body",
         frames' = Append(frames, f)
  PROVE  OpenLoops' = OpenLoops \cup {Ctrl(f.head)}
<1>1. /\ DOMAIN frames = 1 .. k /\ DOMAIN frames' = 1 .. k + 1
      /\ \A i \in 1 .. k : frames'[i] = frames[i]
      /\ frames'[k + 1] = f
  OBVIOUS
<1>2. \A i \in 1 .. k + 1 : i \in 1 .. k \/ i = k + 1 OBVIOUS
<1>3. k + 1 \in 1 .. k + 1 /\ 1 .. k \subseteq 1 .. k + 1 OBVIOUS
<1>4. OpenLoops' \subseteq OpenLoops \cup {Ctrl(f.head)}
  <2> SUFFICES ASSUME NEW i \in 1 .. k + 1, frames'[i].fn = "body"
               PROVE  Ctrl(frames'[i].head) \in OpenLoops \cup {Ctrl(f.head)}
    BY <1>1 DEF OpenLoops
  <2>1. CASE i \in 1 .. k BY <1>1, <2>1 DEF OpenLoops
  <2>2. CASE i = k + 1 BY <1>1, <2>2
  <2> QED BY <1>2, <2>1, <2>2
<1>5. OpenLoops \subseteq OpenLoops' BY <1>1, <1>3 DEF OpenLoops
<1>6. Ctrl(f.head) \in OpenLoops' BY <1>1, <1>3 DEF OpenLoops
<1> QED BY <1>4, <1>5, <1>6

LEMMA LoopOpens ==
  ASSUME NEW f, NEW hd, Laid(hd), f.head = hd, Ctrl(hd) = next, NEW z \in Nat, z = Len(hd.slots),
         NEW c \in {next, Live, Dead}, NEW ex, ex = SetCtrl(hd, c), f.exit = ex, next \in Node,
         \A s \in 2 .. z : hd.slots[s] = next + s - 1,
         \A s \in 2 .. z : val'[next + s - 1] = next + s - 1 /\ IsPhiOf(nodes', next + s - 1, next),
         next \in Made', nodes'[next].kind = "loop", nodes'[next].args[2] = Null,
         \A n \in Node : IsPhiOf(nodes', n, next) => n \in next + 1 .. next + z - 1,
         f.was = on, f.at = At(hd), Len(At(hd)) = Len(hd.list),
         \A l \in DOMAIN At(hd) : env'[l] = At(hd)[l],
         \A l \in DOMAIN At(hd) : \A x \in DOMAIN At(hd)[l] : At(hd)[l][x] \in Valued',
         ~ on => \A l \in DOMAIN At(hd) : \A x \in DOMAIN At(hd)[l] : At(hd)[l][x] < next
  PROVE  LoopOK(f)'
<1>1. /\ Laid(ex) /\ ex.list = hd.list /\ Len(ex.slots) = z /\ Ctrl(ex) = c
      /\ \A s \in 2 .. z : ex.slots[s] = hd.slots[s]
  BY NewControl
<1> PICK at : at = At(hd) OBVIOUS
<1>2. /\ Len(at) = Len(hd.list)
      /\ \A l \in DOMAIN at : env'[l] = at[l]
      /\ \A l \in DOMAIN at : \A x \in DOMAIN at[l] : at[l][x] \in Valued'
      /\ ~ on => \A l \in DOMAIN at : \A x \in DOMAIN at[l] : at[l][x] < next
  OBVIOUS
<1>3. Ctrl(f.head) = next /\ f.exit = ex /\ f.at = at /\ f.head = hd /\ f.was = on OBVIOUS
<1>4. /\ Ctrl(f.head) \in Made' /\ nodes'[Ctrl(f.head)].kind = "loop" /\ nodes'[Ctrl(f.head)].args[2] = Null
      /\ f.exit.list = f.head.list /\ Len(f.exit.slots) = Len(f.head.slots)
      /\ Ctrl(f.exit) \in {Live, Dead, Ctrl(f.head)}
  BY <1>1, <1>3
<1>5. \A s \in 2 .. Len(f.head.slots) :
       /\ f.head.slots[s] = Ctrl(f.head) + s - 1 /\ f.exit.slots[s] = Ctrl(f.head) + s - 1
       /\ IsPhiOf(nodes', Ctrl(f.head) + s - 1, Ctrl(f.head))
       /\ val'[Ctrl(f.head) + s - 1] = Ctrl(f.head) + s - 1
  BY <1>1, <1>3
<1>6. \A n \in Node : IsPhiOf(nodes', n, Ctrl(f.head)) =>
        n \in Ctrl(f.head) + 1 .. Ctrl(f.head) + Len(f.head.slots) - 1
  BY <1>3
<1>7. /\ Len(f.at) = Len(f.head.list)
      /\ \A l \in DOMAIN f.at : \A x \in DOMAIN f.at[l] : f.at[l][x] \in Valued'
      /\ ~ (f.was /\ f.go) => \A l \in DOMAIN f.at : f.at[l] = env'[l]
      /\ ~ f.was => \A l \in DOMAIN f.at : \A x \in DOMAIN f.at[l] : f.at[l][x] < Ctrl(f.head)
  BY <1>2, <1>3
<1> QED BY <1>4, <1>5, <1>6, <1>7, Zenon DEF LoopOK

LEMMA WhileStep ==
  ASSUME IInv, NEW cond, NEW go \in BOOLEAN, While(cond, go)
  PROVE  IInv'
<1> DEFINE inner == IfControl(next, cond, "true")
           outer == IfControl(next, cond, "false")
<1>0. Top(InBlock) BY DEF While, Statement, ReadIn
<1>1. Graph /\ Values /\ Blocks0 /\ Rest /\ Loops /\ Run /\ Meanings BY DEF IInv
<1>2. PICK k : k = Len(frames) OBVIOUS
<1>3. PICK sc : sc = curr OBVIOUS
<1>4. PICK z : z = Len(sc.slots) OBVIOUS
<1>5. PICK h : h = Len(sc.list) OBVIOUS
<1>6. /\ frames \in Seq(Frame) /\ k \in Nat /\ k >= 1 /\ DOMAIN frames = 1 .. k /\ frames # <<>>
      /\ Laid(sc) /\ Filled(sc) /\ Len(env) = h /\ h \in Nat
  BY <1>0, <1>1, <1>2, <1>3, <1>5, Tops
<1>7. PICK lev \in [DOMAIN frames -> Nat] : Levels(lev) /\ lev[k] = h
  BY <1>0, <1>1, <1>2, <1>3, <1>5, Tops
<1>8. z \in Nat /\ DOMAIN sc.list = 1 .. h BY <1>4, <1>5, <1>6, LaidParts
<1>9. next + z - 1 <= MaxNode /\ nodes' = LoopNodes(sc, Ctrl(sc)) /\ next' = next + z /\ table' = table
  BY <1>3, <1>4 DEF While
<1>10. LoopShape(nodes', sc, z)
  <2>1. PICK nds : nds = nodes' OBVIOUS
  <2>2. nds = LoopNodes(sc, Ctrl(sc)) BY <1>9, <2>1
  <2>3. LoopShape(nds, sc, z) BY <1>1, <1>4, <1>6, <1>8, <1>9, <2>2, LoopMade
  <2> QED BY <2>1, <2>3
<1>11. next \in Node /\ next \in Nat /\ \A s \in 2 .. z : next + s - 1 \in Node
  BY <1>10 DEF LoopShape
<1>12. PICK hd : hd = LoopHead(SetCtrl(sc, next)) OBVIOUS
<1>13. /\ Laid(hd) /\ hd.list = sc.list /\ Len(hd.slots) = z
       /\ hd.slots[1] = next /\ Ctrl(hd) = next
       /\ \A s \in 2 .. z : hd.slots[s] = next + s - 1
  <2>1. Laid(sc) /\ z \in Nat /\ z = Len(sc.slots) BY <1>4, <1>6, <1>8
  <2>2. HeadShape(hd, sc, z) BY <1>11, <1>12, <2>1, LoopHeadIs
  <2> QED BY <2>2 DEF HeadShape
<1>14. PICK f : f = [fn |-> "body", head |-> hd, was |-> on, go |-> go,
                     exit |-> SetCtrl(hd, outer), before |-> env, at |-> At(hd)]
  OBVIOUS
<1>15. /\ Statement /\ Takes(cond, go)
       /\ val' = LoopValuation /\ fault' = fault
       /\ curr' = PushScope(SetCtrl(hd, inner))
       /\ env' = Append(At(hd), <<>>)
       /\ frames' = Append(frames, f)
       /\ on' = (on /\ go)
  <2>1. hd = LoopHead(SetCtrl(curr, next)) BY <1>3, <1>12
  <2> HIDE DEF inner, outer
  <2> QED BY <1>13, <1>14, <2>1, WhileParts DEF inner, outer
<1>16. Rest'
  <2>1. read < MaxStmt /\ read' = read + 1 BY <1>15 DEF Statement, ReadIn
  <2>2. MaxStmt \in Nat BY ScopeAssumption
  <2>3. read' \in 0 .. MaxStmt BY <1>1, <2>1, <2>2 DEF Rest
  <2> QED BY <1>1, <1>15, <2>3 DEF Rest
<1>17. on => Means(sc) /\ Ctrl(sc) # Dead BY <1>1, <1>3, <1>6 DEF Meanings
<1>18. inner \in {next, Live, Dead} /\ outer \in {next, Live, Dead} BY IfControls
<1>19. inner \in Node \cup {Live, Dead} /\ outer \in Node \cup {Live, Dead} BY <1>11, <1>18
<1>20. /\ f.fn = "body" /\ f.head = hd /\ f.was = on /\ f.go = go /\ f.exit = SetCtrl(hd, outer)
       /\ f.before = env /\ f.at = At(hd)
  BY <1>14
<1> HIDE DEF inner, outer
<1>21. OpenLoops' = OpenLoops \cup {next}
  BY <1>2, <1>6, <1>13, <1>15, <1>20, OneMoreLoop
<1>22. /\ Graph' /\ Grown /\ ValOK'
       /\ next \in Made' /\ nodes'[next].kind = "loop" /\ nodes'[next].args[2] = Null
       /\ \A s \in 2 .. z : /\ next + s - 1 \in Valued' /\ val'[next + s - 1] = next + s - 1
                            /\ IsPhiOf(nodes', next + s - 1, next)
       /\ \A n \in Node : IsPhiOf(nodes', n, next) => n \in next + 1 .. next + z - 1
  BY <1>1, <1>4, <1>6, <1>8, <1>9, <1>15, <1>21, LoopMakes
<1>23. /\ EnvOK' /\ Len(env') = h + 1 /\ env'[h + 1] = <<>>
       /\ At(hd) \in Seq(Env) /\ Len(At(hd)) = h
       /\ \A l \in DOMAIN At(hd) : env'[l] = At(hd)[l]
       /\ \A l \in DOMAIN At(hd) : \A x \in DOMAIN At(hd)[l] : At(hd)[l][x] \in Valued'
       /\ ~ on => \A l \in DOMAIN At(hd) : \A x \in DOMAIN At(hd)[l] : At(hd)[l][x] < next
  <2>1. \A s \in 2 .. z : next + s - 1 \in Node /\ next + s - 1 \in Valued' /\ val'[next + s - 1] = next + s - 1
    BY <1>11, <1>22
  <2>2. on \in BOOLEAN /\ (on => Means(curr)) /\ hd.list = curr.list /\ Len(env) = Len(hd.list)
    BY <1>1, <1>3, <1>5, <1>6, <1>13, <1>17 DEF Rest
  <2>3. z = Len(hd.slots) BY <1>13
  <2>4. /\ EnvOK' /\ Len(env') = Len(env) + 1 /\ env'[Len(env) + 1] = <<>>
        /\ At(hd) \in Seq(Env) /\ Len(At(hd)) = Len(env)
        /\ \A l \in DOMAIN At(hd) : env'[l] = At(hd)[l]
        /\ \A l \in DOMAIN At(hd) : \A x \in DOMAIN At(hd)[l] : At(hd)[l][x] \in Valued'
        /\ ~ on => \A l \in DOMAIN At(hd) : \A x \in DOMAIN At(hd)[l] : At(hd)[l][x] < next
    BY <1>1, <1>8, <1>13, <1>15, <1>22, <2>1, <2>2, <2>3, LoopEnv
  <2> QED BY <1>6, <2>4
<1>24. f \in Frame /\ PutAside(f) = {hd, f.exit}
  <2>1. hd \in Scope /\ on \in BOOLEAN /\ env \in Seq(Env) BY <1>1, <1>13 DEF Laid, Rest, Values
  <2>2. SetCtrl(hd, outer) \in Scope BY <1>13, <1>19, NewControl DEF Laid
  <2>3. f \in LoopFrame BY <1>14, <1>23, <2>1, <2>2 DEF LoopFrame
  <2>4. f \in Frame BY <2>3 DEF LoopFrame, Frame
  <2> QED BY <1>20, <2>4, FrameParts
<1>25. Stay(k) /\ Len(frames') = k + 1 /\ frames'[k + 1] = f
  BY <1>2, <1>6, <1>15, <1>24, StayPush
<1>26. on => Means(hd)'
  <2> SUFFICES ASSUME on PROVE Means(hd)' OBVIOUS
  <2>1. Means(sc) /\ env \in Seq(Env) /\ Len(env) = Len(hd.list) /\ Len(hd.slots) = Len(sc.slots) /\ z = Len(hd.slots)
    BY <1>1, <1>4, <1>5, <1>6, <1>13, <1>17 DEF Values
  <2>2. \A s \in 2 .. z : hd.slots[s] = next + s - 1 /\ val'[next + s - 1] = next + s - 1 BY <1>13, <1>22
  <2>3. \A l \in DOMAIN hd.list : env'[l] = Tokens(hd)[l]
    <3>1. At(hd) = Tokens(hd) BY DEF At
    <3>2. DOMAIN At(hd) = 1 .. h /\ DOMAIN hd.list = 1 .. h BY <1>8, <1>13, <1>23
    <3> QED BY <1>23, <3>1, <3>2
  <2> QED BY <1>6, <1>8, <1>11, <1>13, <2>1, <2>2, <2>3, LoopMeans
<1>27. Filled(hd)'
  <2>1. hd.slots[1] \in Made' \cup {Live, Dead} BY <1>13, <1>22
  <2>2. \A s \in 2 .. Len(hd.slots) : hd.slots[s] \in Valued' BY <1>13, <1>22
  <2> QED BY <2>1, <2>2 DEF Filled
<1>28. ASSUME NEW c \in {next, Live, Dead}, NEW sd, sd = SetCtrl(hd, c)
       PROVE  Laid(sd) /\ Filled(sd)' /\ sd.list = sc.list /\ Len(sd.list) = h /\ Ctrl(sd) = c /\ (on => Means(sd)')
  <2>1. c \in Node \cup {Live, Dead} BY <1>11
  <2>2. /\ Laid(sd) /\ sd.list = hd.list /\ Len(sd.slots) = z /\ Ctrl(sd) = c /\ sd.slots[1] = c
        /\ \A s \in 2 .. z : sd.slots[s] = hd.slots[s]
    BY <1>13, <1>28, <2>1, NewControl
  <2>3. sd.slots[1] \in Made' \cup {Live, Dead} BY <1>22, <2>2
  <2>4. \A s \in 2 .. Len(sd.slots) : sd.slots[s] \in Valued' BY <1>13, <1>22, <2>2
  <2>5. Filled(sd)' BY <2>3, <2>4 DEF Filled
  <2>6. on => Means(sd)' BY <1>13, <1>26, <1>28, <2>1, MeansControl
  <2> QED BY <1>5, <1>13, <2>2, <2>5, <2>6
<1>29. PICK bd : bd = SetCtrl(hd, inner) OBVIOUS
<1>30. PICK ex : ex = SetCtrl(hd, outer) OBVIOUS
<1>31. /\ Laid(bd) /\ Filled(bd)' /\ bd.list = sc.list /\ Len(bd.list) = h /\ Ctrl(bd) = inner
       /\ on => Means(bd)'
  BY <1>18, <1>28, <1>29
<1>32. /\ Laid(ex) /\ Filled(ex)' /\ ex.list = sc.list /\ Len(ex.list) = h /\ Ctrl(ex) = outer
       /\ on => Means(ex)'
  BY <1>18, <1>28, <1>30
<1>33. PICK cu : cu = curr' OBVIOUS
<1>34. cu = PushScope(bd) BY <1>15, <1>29, <1>33
<1>35. /\ Laid(cu) /\ Len(cu.list) = h + 1 /\ \A l \in 1 .. h : cu.list[l] = sc.list[l]
       /\ cu.slots = bd.slots
  BY <1>31, <1>34, Pushed
<1>36. Filled(cu)' BY <1>31, <1>34, FilledPush
<1>37. next # Dead BY <1>11 DEF Node, Dead
<1>38. on' => Means(cu)' /\ Ctrl(cu) # Dead
  <2> SUFFICES ASSUME on, go PROVE Means(cu)' /\ Ctrl(cu) # Dead BY <1>15
  <2>1. env'[Len(bd.list) + 1] = <<>> BY <1>23, <1>31
  <2>2. Means(cu)' BY <1>31, <1>34, <2>1, MeansPush
  <2>3. Takes(cond, TRUE) BY <1>15 DEF Takes
  <2>4. inner # Dead BY <1>37, <2>3, IfTaken DEF inner
  <2> QED BY <1>31, <1>35, <2>2, <2>4 DEF Ctrl
<1>39. on => \A i \in 1 .. k : OnSide(frames[i]) BY <1>1, <1>6 DEF Run
<1>40. NewFrame(f, k, lev[k])
  <2>1. Len(curr'.list) = lev[k] + (IF f.fn \in {"between", "merge"} THEN 0 ELSE 1)
    BY <1>7, <1>20, <1>33, <1>35
  <2>2. \A s \in PutAside(f) : /\ Laid(s) /\ Filled(s)' /\ Len(s.list) = lev[k]
                               /\ \A l \in 1 .. Len(s.list) : s.list[l] = curr'.list[l]
    <3>1. /\ Laid(hd) /\ Filled(hd)' /\ Len(hd.list) = lev[k]
          /\ \A l \in 1 .. Len(hd.list) : hd.list[l] = curr'.list[l]
      BY <1>5, <1>7, <1>13, <1>27, <1>33, <1>35
    <3>2. /\ Laid(ex) /\ Filled(ex)' /\ Len(ex.list) = lev[k]
          /\ \A l \in 1 .. Len(ex.list) : ex.list[l] = curr'.list[l]
      BY <1>7, <1>32, <1>33, <1>35
    <3>3. PutAside(f) = {hd, ex} BY <1>20, <1>24, <1>30
    <3> QED BY <3>1, <3>2, <3>3
  <2>3. LoopOK(f)'
    <3>1. f.exit = ex BY <1>20, <1>30
    <3>2. z = Len(hd.slots) /\ Len(At(hd)) = Len(hd.list) BY <1>5, <1>13, <1>23
    <3>3. \A s \in 2 .. z : val'[next + s - 1] = next + s - 1 /\ IsPhiOf(nodes', next + s - 1, next) BY <1>22
    <3> QED BY <1>8, <1>11, <1>13, <1>18, <1>20, <1>22, <1>23, <1>30, <3>1, <3>2, <3>3, LoopOpens, ZenonT(40)
  <2>4. \A i \in 1 .. k : frames[i].fn = "body" => Ctrl(frames[i].head) < Ctrl(f.head)
    <3> SUFFICES ASSUME NEW i \in 1 .. k, frames[i].fn = "body" PROVE Ctrl(frames[i].head) < Ctrl(f.head)
      OBVIOUS
    <3>1. LoopOK(frames[i]) BY <1>1, <1>6 DEF Loops
    <3>2. Ctrl(frames[i].head) \in Made BY <3>1 DEF LoopOK
    <3> QED BY <1>11, <1>13, <1>20, <3>2 DEF Made
  <2>5. Pending(f)'
    <3>1. f.fn = "body" /\ f.was = on /\ f.go = go /\ f.exit = ex BY <1>20, <1>30
    <3>2. on /\ ~ go => outer # Dead
      <4> SUFFICES ASSUME on, ~ go PROVE outer # Dead OBVIOUS
      <4>1. Takes(cond, FALSE) BY <1>15 DEF Takes
      <4> QED BY <1>37, <4>1, IfPassed DEF outer
    <3>3. on /\ ~ go => Means(f.exit)' /\ Ctrl(f.exit) # Dead BY <1>32, <3>1, <3>2
    <3> QED BY <3>1, <3>3 DEF Pending
  <2>6. on' => OnSide(f) BY <1>15, <1>20 DEF OnSide
  <2>7. f.was => \A j \in 1 .. k : OnSide(frames[j]) BY <1>20, <1>39
  <2> QED BY <1>20, <2>1, <2>2, <2>3, <2>4, <2>5, <2>6, <2>7 DEF NewFrame
<1>41. k + 1 \in Nat /\ k <= k /\ k + 1 # k BY <1>6
<1>42. Laid(curr') /\ Filled(curr)' /\ Len(env') = Len(curr'.list) BY <1>23, <1>33, <1>35, <1>36 DEF Filled
<1>43. \A l \in 1 .. lev[k] : curr'.list[l] = curr.list[l] BY <1>3, <1>7, <1>33, <1>35
<1>44. ~ on => \A l \in 1 .. lev[k] : env'[l] = env[l]
  <2>1. DOMAIN At(hd) = 1 .. h BY <1>6, <1>23
  <2> QED BY <1>7, <1>23, <2>1 DEF At
<1>45. on' => Means(curr)' /\ Ctrl(curr') # Dead BY <1>33, <1>38
<1>46. on' => \A i \in 1 .. k : OnSide(frames[i]) BY <1>15, <1>39
<1> QED BY <1>2, <1>6, <1>7, <1>16, <1>22, <1>23, <1>25, <1>40, <1>41, <1>42, <1>43, <1>44, <1>45, <1>46, FramesStep

-----------------------------------------------------------------------------
(* What sea_node_subsume does to a scope, and to the nodes.                *)
LEMMA SwapSlots ==
  ASSUME NEW t \in Slots, NEW old, NEW new \in Node, NEW u, u = Swap(t, old, new)
  PROVE  /\ u \in Slots /\ Len(u) = Len(t) /\ DOMAIN u = 1 .. Len(t) /\ Len(t) \in Nat
         /\ \A s \in 1 .. Len(t) : u[s] = IF t[s] = old THEN new ELSE t[s]
         /\ t = <<>> => u = <<>>
<1> PICK z \in Nat : z = Len(t) BY DEF Slots
<1> DEFINE N == Node \cup {Null, Live, Dead}
<1>1. t \in [1 .. z -> N] /\ DOMAIN t = 1 .. z
  <2>1. t \in Seq(N) BY DEF Slots
  <2> HIDE DEF N
  <2> QED BY <2>1
<1>2. u = [s \in 1 .. z |-> IF t[s] = old THEN new ELSE t[s]] BY <1>1 DEF Swap
<1>3. \A s \in 1 .. z : (IF t[s] = old THEN new ELSE t[s]) \in N
  <2>1. new \in N OBVIOUS
  <2> HIDE DEF N
  <2> QED BY <1>1, <2>1
<1>4. u \in Seq(N) /\ Len(u) = z /\ DOMAIN u = 1 .. z
  <2> HIDE DEF N
  <2>1. u \in [1 .. z -> N] BY <1>2, <1>3
  <2> QED BY <2>1
<1>5. t = <<>> => u = <<>>
  <2> SUFFICES ASSUME t = <<>> PROVE u = <<>> OBVIOUS
  <2>1. z = 0 OBVIOUS
  <2> HIDE DEF N
  <2>2. Len(u) = 0 /\ u \in Seq(N) BY <1>4, <2>1
  <2> QED BY <2>2, EmptySeq
<1>6. \A s \in 1 .. z : u[s] = IF t[s] = old THEN new ELSE t[s] BY <1>2
<1>7. u \in Slots BY <1>4 DEF Slots
<1> QED BY <1>4, <1>5, <1>6, <1>7

LEMMA SwapScope ==
  ASSUME NEW sc \in Scope, NEW old, NEW new \in Node, NEW sd, sd = SwapIn(sc, old, new)
  PROVE  /\ sd \in Scope /\ sd.list = sc.list /\ Len(sd.slots) = Len(sc.slots)
         /\ \A s \in 1 .. Len(sc.slots) : sd.slots[s] = IF sc.slots[s] = old THEN new ELSE sc.slots[s]
<1>1. sc = [slots |-> sc.slots, list |-> sc.list] /\ sc.slots \in Slots /\ sc.list \in Seq(Data)
  BY ScopeParts
<1>2. PICK u : u = Swap(sc.slots, old, new) OBVIOUS
<1>3. sd = [slots |-> u, list |-> sc.list] BY <1>1, <1>2 DEF SwapIn
<1>4. /\ u \in Slots /\ Len(u) = Len(sc.slots)
      /\ \A s \in 1 .. Len(sc.slots) : u[s] = IF sc.slots[s] = old THEN new ELSE sc.slots[s]
  BY <1>1, <1>2, SwapSlots
<1>5. sd \in Scope BY <1>1, <1>3, <1>4 DEF Scope
<1> QED BY <1>3, <1>4, <1>5

SwappedNodes(nds, old, new, ndt) ==
  /\ ndt \in [Node -> Rec] /\ ndt[old] = Gone
  /\ \A n \in Node : n # old =>
       /\ ndt[n].kind = nds[n].kind /\ ndt[n].reg = nds[n].reg
       /\ Len(ndt[n].args) = Len(nds[n].args) /\ Len(nds[n].args) \in Nat
       /\ \A s \in 1 .. Len(nds[n].args) :
            ndt[n].args[s] = IF nds[n].args[s] = old THEN new ELSE nds[n].args[s]
  /\ \A n \in Node : nds[n] = Gone => ndt[n] = Gone

LEMMA SwapNodes ==
  ASSUME NEW nds \in [Node -> Rec], NEW old \in Node, NEW new \in Node, NEW ndt, ndt = Subsume(nds, old, new)
  PROVE  SwappedNodes(nds, old, new, ndt)
<1>1. \A n \in Node : ndt[n] = IF n = old THEN Gone ELSE [nds[n] EXCEPT !.args = Swap(@, old, new)]
  BY DEF Subsume
<1>2. \A n \in Node : nds[n] \in Rec /\ nds[n].args \in Slots BY DEF Rec
<1>3. Gone \in Rec
  <2>1. <<>> \in Slots BY DEF Slots
  <2> QED BY <2>1 DEF Gone, Rec
<1>4. \A n \in Node : n # old =>
       /\ ndt[n].kind = nds[n].kind /\ ndt[n].reg = nds[n].reg
       /\ ndt[n].args = Swap(nds[n].args, old, new)
       /\ ndt[n] = [kind |-> nds[n].kind, reg |-> nds[n].reg, args |-> Swap(nds[n].args, old, new)]
  BY <1>1, <1>2 DEF Rec
<1>5. \A n \in Node : n # old =>
       /\ ndt[n].args \in Slots
       /\ Len(ndt[n].args) = Len(nds[n].args) /\ Len(nds[n].args) \in Nat
       /\ \A s \in 1 .. Len(nds[n].args) :
            ndt[n].args[s] = IF nds[n].args[s] = old THEN new ELSE nds[n].args[s]
       /\ nds[n].args = <<>> => ndt[n].args = <<>>
  <2> SUFFICES ASSUME NEW n \in Node, n # old
               PROVE  /\ ndt[n].args \in Slots
                      /\ Len(ndt[n].args) = Len(nds[n].args) /\ Len(nds[n].args) \in Nat
                      /\ \A s \in 1 .. Len(nds[n].args) :
                           ndt[n].args[s] = IF nds[n].args[s] = old THEN new ELSE nds[n].args[s]
                      /\ nds[n].args = <<>> => ndt[n].args = <<>>
    OBVIOUS
  <2>1. PICK t : t = nds[n].args OBVIOUS
  <2>2. PICK u : u = ndt[n].args OBVIOUS
  <2>3. t \in Slots /\ u = Swap(t, old, new) BY <1>2, <1>4, <2>1, <2>2
  <2>4. /\ u \in Slots /\ Len(u) = Len(t) /\ DOMAIN u = 1 .. Len(t) /\ Len(t) \in Nat
        /\ \A s \in 1 .. Len(t) : u[s] = IF t[s] = old THEN new ELSE t[s]
        /\ t = <<>> => u = <<>>
    BY <2>3, SwapSlots
  <2> QED BY <2>1, <2>2, <2>4
<1>6. \A n \in Node : ndt[n] \in Rec
  <2> TAKE n \in Node
  <2>1. CASE n = old BY <1>1, <1>3, <2>1
  <2>2. CASE n # old
    <3>1. nds[n].kind \in {"def", "region", "loop", "phi", "gone"} /\ nds[n].reg \in Node \cup {Null}
      BY <1>2 DEF Rec
    <3>2. PICK t \in Slots : t = Swap(nds[n].args, old, new)
      <4>1. Swap(nds[n].args, old, new) \in Slots BY <1>4, <1>5, <2>2
      <4> QED BY <4>1
    <3>3. ndt[n] = [kind |-> nds[n].kind, reg |-> nds[n].reg, args |-> t] BY <1>4, <2>2, <3>2
    <3> QED BY <3>1, <3>3 DEF Rec
  <2> QED BY <2>1, <2>2
<1>7. ndt \in [Node -> Rec]
  <2>1. ndt = [n \in Node |-> ndt[n]] BY DEF Subsume
  <2> QED BY <1>6, <2>1
<1>8. \A n \in Node : nds[n] = Gone => ndt[n] = Gone
  <2> SUFFICES ASSUME NEW n \in Node, nds[n] = Gone PROVE ndt[n] = Gone OBVIOUS
  <2>1. CASE n = old BY <1>1, <2>1
  <2>2. CASE n # old
    <3>1. nds[n].kind = "gone" /\ nds[n].reg = Null /\ nds[n].args = <<>> BY DEF Gone
    <3>2. ndt[n].args = <<>> BY <1>5, <2>2, <3>1
    <3>3. ndt[n] = [kind |-> "gone", reg |-> Null, args |-> <<>>] BY <1>4, <2>2, <3>1, <3>2
    <3> QED BY <3>3 DEF Gone
  <2> QED BY <2>1, <2>2
<1>9. ndt[old] = Gone BY <1>1
<1> QED BY <1>4, <1>5, <1>7, <1>8, <1>9 DEF SwappedNodes

(* The loop that closes: its phis follow it, one for each slot.             *)
LoopHere(loop, z) ==
  /\ z \in Nat /\ loop \in Nat /\ loop \in Node /\ loop \in Made
  /\ nodes[loop].kind = "loop" /\ loop \in OpenLoops
  /\ \A s \in 2 .. z : loop + s - 1 \in Valued /\ IsPhiOf(nodes, loop + s - 1, loop)
  /\ \A n \in Node : IsPhiOf(nodes, n, loop) => n \in loop + 1 .. loop + z - 1

(* The nodes when the slots up to i are closed.                            *)
NodesClosed(nds, i, loop) ==
  /\ nds \in [Node -> Rec]
  /\ \A n \in Node : n >= next => nds[n] = Gone
  /\ \A n \in Node : nds[n].kind \in {"region", "loop"} => Len(nds[n].args) = 2
  /\ \A n \in Node : \/ nds[n].kind = nodes[n].kind /\ (nodes[n].kind = "phi" => nds[n].reg = nodes[n].reg)
                     \/ nds[n] = Gone /\ IsPhiOf(nodes, n, loop) /\ n < loop + i
  /\ \A n \in Node : nds[n].kind = "phi" =>
       /\ Len(nds[n].args) = 2 /\ nds[n].args[1] \in Valued /\ nds[n].args[2] \in Valued \cup {Null}
       /\ nds[n].args[2] = Null <=> nodes[n].reg \in OpenLoops /\ (nodes[n].reg = loop => n >= loop + i)
  /\ \A n \in Node : n # loop /\ nodes[n].kind = "loop" /\ nodes[n].args[2] = Null => nds[n].args[2] = Null

LEMMA NodesWhole ==
  ASSUME Graph
  PROVE  /\ next \in Nat /\ MaxNode \in Nat /\ Made \subseteq Node /\ Valued \subseteq Node
         /\ Null \notin Valued
         /\ \A n \in Valued : n < next /\ n \in Nat
         /\ \A n \in Node : nodes[n].kind = "phi" => n \in Valued
<1>1. next \in Nat /\ MaxNode \in Nat /\ next <= MaxNode + 1 BY ScopeAssumption DEF Graph
<1>2. Made \subseteq Node BY <1>1 DEF Made, Node
<1>3. Valued \subseteq Made BY DEF Valued
<1>4. \A n \in Made : n < next /\ n \in Nat /\ n # Null BY <1>1 DEF Made, Null
<1>5. \A n \in Node : nodes[n].kind = "phi" => n \in Valued BY SMTT(30) DEF Graph
<1> QED BY <1>1, <1>2, <1>3, <1>4, <1>5

(* The second value of a phi is set.                                       *)
SecondSet(nds, phi, entry, other) == [nds EXCEPT ![phi] = Phi(@.reg, <<entry, other>>)]
IsPhi(nds, phi, r, entry, other) ==
  nds[phi].kind = "phi" /\ nds[phi].reg = r /\ nds[phi].args = <<entry, other>>

LEMMA SetSecond ==
  ASSUME Graph, NEW loop, NEW z, LoopHere(loop, z), NEW i \in 2 .. z,
         NEW nds, NodesClosed(nds, i - 1, loop), NEW phi, phi = loop + i - 1, nds[phi].kind = "phi",
         NEW entry, entry = nds[phi].args[1], NEW other \in Valued,
         NEW ndt, ndt = SecondSet(nds, phi, entry, other)
  PROVE  NodesClosed(ndt, i, loop) /\ IsPhi(ndt, phi, loop, entry, other)
<1>1. /\ next \in Nat /\ MaxNode \in Nat /\ Made \subseteq Node /\ Valued \subseteq Node
      /\ Null \notin Valued
      /\ \A n \in Valued : n < next /\ n \in Nat
      /\ \A n \in Node : nodes[n].kind = "phi" => n \in Valued
  BY NodesWhole
<1>2. /\ z \in Nat /\ loop \in Nat /\ loop \in Node /\ loop \in OpenLoops
      /\ phi \in Valued /\ IsPhiOf(nodes, phi, loop) /\ phi \in Nat
  BY <1>1 DEF LoopHere
<1>3. phi \in Node /\ nodes[phi].kind = "phi" /\ nodes[phi].reg = loop /\ phi # loop
  BY <1>2 DEF IsPhiOf
<1>4. /\ nds \in [Node -> Rec]
      /\ \A n \in Node : n >= next => nds[n] = Gone
      /\ \A n \in Node : nds[n].kind \in {"region", "loop"} => Len(nds[n].args) = 2
  BY DEF NodesClosed
<1>5. \A n \in Node : \/ nds[n].kind = nodes[n].kind /\ (nodes[n].kind = "phi" => nds[n].reg = nodes[n].reg)
                      \/ nds[n] = Gone /\ IsPhiOf(nodes, n, loop) /\ n < loop + (i - 1)
  BY DEF NodesClosed
<1>6. \A n \in Node : nds[n].kind = "phi" =>
       /\ Len(nds[n].args) = 2 /\ nds[n].args[1] \in Valued /\ nds[n].args[2] \in Valued \cup {Null}
       /\ nds[n].args[2] = Null <=> nodes[n].reg \in OpenLoops /\ (nodes[n].reg = loop => n >= loop + (i - 1))
  BY DEF NodesClosed
<1>7. \A n \in Node : n # loop /\ nodes[n].kind = "loop" /\ nodes[n].args[2] = Null => nds[n].args[2] = Null
  BY DEF NodesClosed
<1>8. entry \in Valued BY <1>3, <1>6
<1>9. nds[phi].reg = loop
  <2>1. Gone.kind # "phi" BY DEF Gone
  <2> QED BY <1>3, <1>5, <2>1
<1>10. /\ ndt[phi] = Phi(loop, <<entry, other>>) /\ \A n \in Node : n # phi => ndt[n] = nds[n]
       /\ DOMAIN ndt = Node
  BY <1>3, <1>4, <1>9, SMTT(30) DEF SecondSet
<1>11. ndt[phi].kind = "phi" /\ ndt[phi].reg = loop /\ ndt[phi].args = <<entry, other>>
  BY <1>10 DEF Phi
<1>12. <<entry, other>> \in Slots /\ Len(<<entry, other>>) = 2 /\ <<entry, other>>[1] = entry /\ <<entry, other>>[2] = other
  BY <1>1, <1>8 DEF Slots
<1>13. Phi(loop, <<entry, other>>) \in Rec BY <1>2, <1>12 DEF Phi, Rec
<1>14. ndt \in [Node -> Rec]
  <2> PICK one \in Rec : one = Phi(loop, <<entry, other>>) BY <1>13
  <2>1. Phi(nds[phi].reg, <<entry, other>>) = one BY <1>9
  <2>2. ndt = [nds EXCEPT ![phi] = one] BY <2>1 DEF SecondSet
  <2> QED BY <1>3, <1>4, <2>2
<1>15. \A n \in Node : n >= next => ndt[n] = Gone BY <1>1, <1>2, <1>4, <1>10
<1>16. \A n \in Node : ndt[n].kind \in {"region", "loop"} => Len(ndt[n].args) = 2
  BY <1>4, <1>10, <1>11
<1>17. \A n \in Node : \/ ndt[n].kind = nodes[n].kind /\ (nodes[n].kind = "phi" => ndt[n].reg = nodes[n].reg)
                       \/ ndt[n] = Gone /\ IsPhiOf(nodes, n, loop) /\ n < loop + i
  <2> TAKE n \in Node
  <2>1. n \in Nat BY <1>1 DEF Node
  <2>2. n < loop + (i - 1) => n < loop + i BY <1>2, <2>1, SMTT(30)
  <2>3. CASE n = phi BY <1>3, <1>11, <2>3
  <2>4. CASE n # phi BY <1>5, <1>10, <2>2, <2>4, SMTT(30)
  <2> QED BY <2>3, <2>4
<1>18. ASSUME NEW n \in Node, ndt[n].kind = "phi"
       PROVE  /\ Len(ndt[n].args) = 2 /\ ndt[n].args[1] \in Valued /\ ndt[n].args[2] \in Valued \cup {Null}
              /\ ndt[n].args[2] = Null <=> nodes[n].reg \in OpenLoops /\ (nodes[n].reg = loop => n >= loop + i)
  <2>1. n \in Nat BY <1>1 DEF Node
  <2>2. CASE n = phi
    <3>1. ~ (phi >= loop + i) BY <1>2, SMTT(30)
    <3> QED BY <1>1, <1>3, <1>8, <1>11, <1>12, <2>2, <3>1
  <2>3. CASE n # phi
    <3>1. n >= loop + (i - 1) <=> n >= loop + i BY <1>2, <2>1, <2>3
    <3> QED BY <1>6, <1>10, <1>18, <2>3, <3>1
  <2> QED BY <2>2, <2>3, ZenonT(40)
<1>19. \A n \in Node : n # loop /\ nodes[n].kind = "loop" /\ nodes[n].args[2] = Null => ndt[n].args[2] = Null
  <2> TAKE n \in Node
  <2>1. nodes[n].kind = "loop" => n # phi BY <1>3, SMTT(30)
  <2> QED BY <1>7, <1>10, <2>1
<1>20. NodesClosed(ndt, i, loop) BY <1>14, <1>15, <1>16, <1>17, <1>18, <1>19, Zenon DEF NodesClosed
<1> QED BY <1>11, <1>20, Zenon DEF IsPhi

(* And when the phi is another node, that one takes its place.             *)
LEMMA Subsumed ==
  ASSUME Graph, NEW loop, NEW z, LoopHere(loop, z), NEW i \in 2 .. z,
         NEW nds, NodesClosed(nds, i, loop), NEW phi, phi = loop + i - 1, NEW in \in Valued,
         NEW ndt, ndt = Subsume(nds, phi, in)
  PROVE  NodesClosed(ndt, i, loop)
<1>1. /\ next \in Nat /\ MaxNode \in Nat /\ Made \subseteq Node /\ Valued \subseteq Node
      /\ Null \notin Valued
      /\ \A n \in Valued : n < next /\ n \in Nat
      /\ \A n \in Node : nodes[n].kind = "phi" => n \in Valued
  BY NodesWhole
<1>2. /\ z \in Nat /\ loop \in Nat /\ loop \in Node /\ loop \in OpenLoops
      /\ phi \in Valued /\ IsPhiOf(nodes, phi, loop) /\ phi \in Nat
  BY <1>1 DEF LoopHere
<1>3. phi \in Node /\ nodes[phi].kind = "phi" /\ nodes[phi].reg = loop /\ phi # loop /\ phi < loop + i /\ phi # Null
  BY <1>1, <1>2 DEF IsPhiOf
<1>4. /\ nds \in [Node -> Rec]
      /\ \A n \in Node : n >= next => nds[n] = Gone
      /\ \A n \in Node : nds[n].kind \in {"region", "loop"} => Len(nds[n].args) = 2
  BY DEF NodesClosed
<1>5. \A n \in Node : \/ nds[n].kind = nodes[n].kind /\ (nodes[n].kind = "phi" => nds[n].reg = nodes[n].reg)
                      \/ nds[n] = Gone /\ IsPhiOf(nodes, n, loop) /\ n < loop + i
  BY DEF NodesClosed
<1>6. \A n \in Node : nds[n].kind = "phi" =>
       /\ Len(nds[n].args) = 2 /\ nds[n].args[1] \in Valued /\ nds[n].args[2] \in Valued \cup {Null}
       /\ nds[n].args[2] = Null <=> nodes[n].reg \in OpenLoops /\ (nodes[n].reg = loop => n >= loop + i)
  BY DEF NodesClosed
<1>7. \A n \in Node : n # loop /\ nodes[n].kind = "loop" /\ nodes[n].args[2] = Null => nds[n].args[2] = Null
  BY DEF NodesClosed
<1>8. SwappedNodes(nds, phi, in, ndt) BY <1>1, <1>3, <1>4, SwapNodes
<1>9. ndt \in [Node -> Rec] /\ ndt[phi] = Gone /\ \A n \in Node : nds[n] = Gone => ndt[n] = Gone
  BY <1>8 DEF SwappedNodes
<1>10. \A n \in Node : n # phi =>
       /\ ndt[n].kind = nds[n].kind /\ ndt[n].reg = nds[n].reg
       /\ Len(ndt[n].args) = Len(nds[n].args) /\ Len(nds[n].args) \in Nat
       /\ \A s \in 1 .. Len(nds[n].args) :
            ndt[n].args[s] = IF nds[n].args[s] = phi THEN in ELSE nds[n].args[s]
  BY <1>8 DEF SwappedNodes
<1>11. Gone.kind = "gone" BY DEF Gone
<1>12. \A n \in Node : ndt[n].kind \in {"region", "loop"} => Len(ndt[n].args) = 2
  BY <1>4, <1>9, <1>10, <1>11
<1>13. \A n \in Node : \/ ndt[n].kind = nodes[n].kind /\ (nodes[n].kind = "phi" => ndt[n].reg = nodes[n].reg)
                       \/ ndt[n] = Gone /\ IsPhiOf(nodes, n, loop) /\ n < loop + i
  <2> TAKE n \in Node
  <2>1. CASE n = phi BY <1>2, <1>3, <1>9, <2>1
  <2>2. CASE n # phi BY <1>5, <1>9, <1>10, <2>2
  <2> QED BY <2>1, <2>2
<1>14. ASSUME NEW n \in Node, ndt[n].kind = "phi"
       PROVE  /\ Len(ndt[n].args) = 2 /\ ndt[n].args[1] \in Valued /\ ndt[n].args[2] \in Valued \cup {Null}
              /\ ndt[n].args[2] = Null <=> nodes[n].reg \in OpenLoops /\ (nodes[n].reg = loop => n >= loop + i)
  <2>1. n # phi BY <1>9, <1>11, <1>14
  <2>2. nds[n].kind = "phi" BY <1>10, <1>14, <2>1
  <2>3. Len(nds[n].args) = 2 /\ nds[n].args[1] \in Valued /\ nds[n].args[2] \in Valued \cup {Null} BY <1>6, <2>2
  <2>4. /\ Len(ndt[n].args) = 2
        /\ ndt[n].args[1] = (IF nds[n].args[1] = phi THEN in ELSE nds[n].args[1])
        /\ ndt[n].args[2] = (IF nds[n].args[2] = phi THEN in ELSE nds[n].args[2])
    <3>1. /\ Len(ndt[n].args) = Len(nds[n].args)
          /\ \A s \in 1 .. Len(nds[n].args) :
               ndt[n].args[s] = IF nds[n].args[s] = phi THEN in ELSE nds[n].args[s]
      BY <1>10, <2>1
    <3>2. Len(nds[n].args) = 2 BY <2>3
    <3>3. 1 \in 1 .. Len(nds[n].args) /\ 2 \in 1 .. Len(nds[n].args) BY <3>2
    <3> QED BY <3>1, <3>2, <3>3
  <2>5. ndt[n].args[2] = Null <=> nds[n].args[2] = Null BY <1>1, <1>3, <2>4
  <2> QED BY <1>6, <2>2, <2>3, <2>4, <2>5
<1>15. \A n \in Node : n # loop /\ nodes[n].kind = "loop" /\ nodes[n].args[2] = Null => ndt[n].args[2] = Null
  <2> SUFFICES ASSUME NEW n \in Node, n # loop, nodes[n].kind = "loop", nodes[n].args[2] = Null
               PROVE  ndt[n].args[2] = Null
    OBVIOUS
  <2>1. n # phi BY <1>3
  <2>2. nds[n].kind = "loop" BY <1>5 DEF IsPhiOf
  <2>3. Len(nds[n].args) = 2 /\ nds[n].args[2] = Null BY <1>4, <1>7, <2>2
  <2>4. ndt[n].args[2] = (IF nds[n].args[2] = phi THEN in ELSE nds[n].args[2]) BY <1>10, <2>1, <2>3, SMTT(30)
  <2> QED BY <1>3, <2>3, <2>4
<1>16. \A n \in Node : n >= next => ndt[n] = Gone BY <1>4, <1>9
<1> QED BY <1>9, <1>12, <1>13, <1>14, <1>15, <1>16 DEF NodesClosed

(* The values when the slots up to i are closed.                           *)
ValuesClosed(v, i, loop, z) ==
  /\ v \in [Node -> Node \cup {Null}]
  /\ \A n \in Node : v[n] = Null <=> val[n] = Null
  /\ \A n \in Valued : /\ v[n] \in Valued /\ v[v[n]] = v[n]
                       /\ val[n] \notin loop + 1 .. loop + z - 1 => v[n] = val[n]
  /\ \A s \in 2 .. z : s > i => v[loop + s - 1] = loop + s - 1

LEMMA ValueGiven ==
  ASSUME Graph, NEW loop, NEW z, LoopHere(loop, z), NEW i \in 2 .. z,
         NEW v, ValuesClosed(v, i - 1, loop, z), NEW phi, phi = loop + i - 1, NEW in \in Valued,
         NEW w, w = Swap(v, phi, v[in])
  PROVE  /\ ValuesClosed(w, i, loop, z)
         /\ \A a, b \in Valued : v[a] = v[b] => w[a] = w[b]
         /\ w[in] = w[phi]
<1>1. /\ Valued \subseteq Node /\ Null \notin Valued /\ \A n \in Valued : n < next /\ n \in Nat BY NodesWhole
<1>2. /\ z \in Nat /\ loop \in Nat /\ phi \in Valued /\ phi \in loop + 1 .. loop + z - 1 /\ i \in Nat
  BY DEF LoopHere
<1>3. v \in [Node -> Node \cup {Null}] /\ \A n \in Node : v[n] = Null <=> val[n] = Null
  BY DEF ValuesClosed
<1>4. \A n \in Valued : /\ v[n] \in Valued /\ v[v[n]] = v[n]
                        /\ val[n] \notin loop + 1 .. loop + z - 1 => v[n] = val[n]
  BY DEF ValuesClosed
<1>5. \A s \in 2 .. z : s > i - 1 => v[loop + s - 1] = loop + s - 1 BY DEF ValuesClosed
<1>6. v[phi] = phi BY <1>2, <1>5
<1>7. PICK to : to = v[in] OBVIOUS
<1>8. to \in Valued /\ v[to] = to /\ to # Null BY <1>1, <1>4, <1>7
<1>9. \A n \in Node : w[n] = IF v[n] = phi THEN to ELSE v[n] BY <1>3, <1>7 DEF Swap
<1>10. w = [n \in Node |-> w[n]] BY <1>3 DEF Swap
<1>11. \A n \in Node : w[n] \in Node \cup {Null} BY <1>1, <1>3, <1>8, <1>9
<1>12. \A n \in Node : w[n] = Null <=> val[n] = Null BY <1>1, <1>2, <1>3, <1>8, <1>9
<1>13. \A n \in Valued : w[n] \in Valued /\ w[w[n]] = w[n]
  <2> TAKE n \in Valued
  <2>1. w[n] = IF v[n] = phi THEN to ELSE v[n] BY <1>1, <1>9
  <2>2. w[to] = to BY <1>1, <1>8, <1>9
  <2>3. CASE v[n] = phi BY <1>8, <2>1, <2>2, <2>3
  <2>4. CASE v[n] # phi
    <3>1. v[n] \in Valued /\ v[v[n]] = v[n] BY <1>4
    <3>2. w[v[n]] = v[n] BY <1>1, <1>9, <2>4, <3>1
    <3> QED BY <2>1, <2>4, <3>1, <3>2
  <2> QED BY <2>3, <2>4
<1>14. \A n \in Valued : val[n] \notin loop + 1 .. loop + z - 1 => w[n] = val[n]
  <2> SUFFICES ASSUME NEW n \in Valued, val[n] \notin loop + 1 .. loop + z - 1 PROVE w[n] = val[n] OBVIOUS
  <2>1. v[n] = val[n] /\ v[n] # phi BY <1>2, <1>4
  <2> QED BY <1>1, <1>9, <2>1
<1>15. \A s \in 2 .. z : s > i => w[loop + s - 1] = loop + s - 1
  <2> SUFFICES ASSUME NEW s \in 2 .. z, s > i PROVE w[loop + s - 1] = loop + s - 1 OBVIOUS
  <2>1. s > i - 1 /\ loop + s - 1 # phi BY <1>2
  <2>2. v[loop + s - 1] = loop + s - 1 /\ loop + s - 1 \in Node BY <1>1, <1>5, <2>1 DEF LoopHere
  <2> QED BY <1>9, <2>1, <2>2
<1>16. ValuesClosed(w, i, loop, z) BY <1>10, <1>11, <1>12, <1>13, <1>14, <1>15 DEF ValuesClosed
<1>17. \A a, b \in Valued : v[a] = v[b] => w[a] = w[b] BY <1>1, <1>9
<1>18. w[in] = w[phi] BY <1>1, <1>2, <1>6, <1>7, <1>9
<1> QED BY <1>16, <1>17, <1>18

(* A phi that closes and stays.                                            *)
LEMMA ValueKept ==
  ASSUME NEW loop, NEW z \in Nat, NEW i \in 2 .. z, NEW v, ValuesClosed(v, i - 1, loop, z)
  PROVE  ValuesClosed(v, i, loop, z)
<1>1. \A s \in 2 .. z : s > i => s > i - 1 OBVIOUS
<1> QED BY <1>1 DEF ValuesClosed

(* What sea_peephole gives for a phi has a value.                          *)
LEMMA PeepholeGives ==
  ASSUME Graph, NEW nds, NEW phi \in Valued, NEW first \in Valued, NEW second \in Valued,
         nds[phi].args = <<first, second>>,
         \A n \in Node : nds[n].kind = "phi" => n \in Valued,
         NEW tbl, \A e \in tbl : e.node \in Node
  PROVE  PeepholePhi(nds, tbl, phi) \in Valued
<1>1. CASE Same(nds, tbl, phi) # {}
  <2>1. PICK e : e = CHOOSE d \in Same(nds, tbl, phi) : TRUE OBVIOUS
  <2>2. e \in Same(nds, tbl, phi) BY <1>1, <2>1
  <2>3. e \in tbl /\ nds[e.node].kind = "phi" BY <2>2 DEF Same
  <2>4. e.node \in Valued BY <2>3
  <2> QED BY <1>1, <2>1, <2>4 DEF PeepholePhi
<1>2. CASE Same(nds, tbl, phi) = {} /\ Cardinality(LiveArgs(nds, phi)) = 1
  <2>0. PICK S : S = LiveArgs(nds, phi) OBVIOUS
  <2>1. LiveArgs(nds, phi) # {}
    <3>1. Cardinality(S) = 1 BY <1>2, <2>0
    <3>2. Cardinality({}) = 0 BY FS_EmptySet
    <3>3. S # {} BY <3>1, <3>2, SMTT(30)
    <3> QED BY <2>0, <3>3
  <2>2. PICK m : m = CHOOSE d \in LiveArgs(nds, phi) : TRUE OBVIOUS
  <2>3. m \in LiveArgs(nds, phi) BY <2>1, <2>2
  <2>4. DOMAIN nds[phi].args = {1, 2} OBVIOUS
  <2>5. PICK j \in {1, 2} : m = nds[phi].args[j] BY <2>3, <2>4 DEF LiveArgs
  <2>6. m \in Valued BY <2>5
  <2> QED BY <1>2, <2>2, <2>6 DEF PeepholePhi
<1>3. CASE Same(nds, tbl, phi) = {} /\ Cardinality(LiveArgs(nds, phi)) # 1
  BY <1>3 DEF PeepholePhi
<1> QED BY <1>1, <1>2, <1>3

(* One turn of the loop of sea_scope_end_loop.                             *)
Whole(st) ==
  st = [nodes |-> st.nodes, table |-> st.table, val |-> st.val, ok |-> st.ok,
        head |-> st.head, back |-> st.back, exit |-> st.exit]

Turn(sd, st, nds, phi, in) ==
  /\ in = phi => sd = [nodes |-> nds, table |-> st.table \cup {PhiKey(nds, phi)}, val |-> st.val,
                       ok |-> st.ok, head |-> st.head, back |-> st.back, exit |-> st.exit]
  /\ in # phi => sd = [nodes |-> Subsume(nds, phi, in), table |-> st.table,
                       val |-> Swap(st.val, phi, st.val[in]), ok |-> st.ok,
                       head |-> SwapIn(st.head, phi, in), back |-> SwapIn(st.back, phi, in),
                       exit |-> SwapIn(st.exit, phi, in)]

LEMMA ClosePhiIs ==
  ASSUME NEW st, Whole(st), NEW i, NEW phi, phi = st.head.slots[i],
         IsPhiOf(st.nodes, phi, Ctrl(st.head)),
         NEW entry, entry = st.nodes[phi].args[1],
         NEW other, other = IF st.back.slots[i] = phi THEN entry ELSE st.back.slots[i],
         NEW nds, nds = [st.nodes EXCEPT ![phi] = Phi(@.reg, <<entry, other>>)],
         NEW in, in = PeepholePhi(nds, st.table, phi),
         NEW sd, sd = ClosePhi(st, i)
  PROVE  Turn(sd, st, nds, phi, in)
<1> DEFINE p == st.head.slots[i]
           b == st.back.slots[i]
           n == st.nodes[p].args[1]
           d == [st.nodes EXCEPT ![p] = Phi(@.reg, <<n, IF b = p THEN n ELSE b>>)]
           q == PeepholePhi(d, st.table, p)
<1>1. p = phi /\ n = entry /\ d = nds /\ q = in BY Zenon
<1>2. sd = IF ~ IsPhiOf(st.nodes, p, Ctrl(st.head)) THEN [st EXCEPT !.ok = FALSE]
           ELSE IF q = p
           THEN [st EXCEPT !.nodes = d, !.table = @ \cup {PhiKey(d, p)}]
           ELSE [st EXCEPT !.nodes = Subsume(d, p, q),
                           !.head = SwapIn(@, p, q),
                           !.back = SwapIn(@, p, q),
                           !.exit = SwapIn(@, p, q),
                           !.val = Swap(@, p, st.val[q])]
  BY ZenonT(40) DEF ClosePhi
<1> HIDE DEF p, b, n, d, q
<1>3. IsPhiOf(st.nodes, p, Ctrl(st.head)) BY <1>1, ZenonT(40)
<1> DEFINE t == st.table \cup {PhiKey(d, p)}
           ns == Subsume(d, p, q)
           h == SwapIn(st.head, p, q)
           k == SwapIn(st.back, p, q)
           x == SwapIn(st.exit, p, q)
           v == Swap(st.val, p, st.val[q])
<1>4. /\ q = p => sd = [st EXCEPT !.nodes = d, !.table = t]
      /\ q # p => sd = [st EXCEPT !.nodes = ns, !.head = h, !.back = k, !.exit = x, !.val = v]
  BY <1>2, <1>3, ZenonT(40)
<1>5. ns = Subsume(nds, phi, in) /\ h = SwapIn(st.head, phi, in) /\ k = SwapIn(st.back, phi, in)
      /\ x = SwapIn(st.exit, phi, in) /\ v = Swap(st.val, phi, st.val[in])
      /\ t = st.table \cup {PhiKey(nds, phi)}
  BY <1>1, ZenonT(40)
<1> HIDE DEF t, ns, h, k, x, v
<1>6. /\ q = p => sd = [nodes |-> d, table |-> t, val |-> st.val,
                        ok |-> st.ok, head |-> st.head, back |-> st.back, exit |-> st.exit]
      /\ q # p => sd = [nodes |-> ns, table |-> st.table, val |-> v,
                        ok |-> st.ok, head |-> h, back |-> k, exit |-> x]
  BY <1>4, ZenonT(40) DEF Whole
<1> QED BY <1>1, <1>5, <1>6, ZenonT(40) DEF Turn

TableTyped(tbl) == \A e \in tbl : e.node \in Node /\ e.reg \in Node /\ e.args \in Slots

ScopesClosed(head, back, exit, v, i, loop, z, out) ==
  /\ head \in Scope /\ back \in Scope /\ exit \in Scope
  /\ Len(head.slots) = z /\ Len(back.slots) = z /\ Len(exit.slots) = z
  /\ Ctrl(head) = loop /\ exit.list = out.list /\ Ctrl(exit) = Ctrl(out)
  /\ \A s \in 2 .. z : /\ back.slots[s] \in Valued /\ exit.slots[s] \in Valued
                       /\ v[exit.slots[s]] = v[loop + s - 1]
                       /\ s > i => head.slots[s] = loop + s - 1

Closed(st, i, loop, z, out) ==
  /\ Whole(st) /\ st.ok = TRUE
  /\ NodesClosed(st.nodes, i, loop) /\ ValuesClosed(st.val, i, loop, z) /\ TableTyped(st.table)
  /\ ScopesClosed(st.head, st.back, st.exit, st.val, i, loop, z, out)

LEMMA ScopesKept ==
  ASSUME NEW head, NEW back, NEW exit, NEW v, NEW z \in Nat, NEW i \in 2 .. z, NEW loop, NEW out,
         ScopesClosed(head, back, exit, v, i - 1, loop, z, out)
  PROVE  ScopesClosed(head, back, exit, v, i, loop, z, out)
<1>1. \A s \in 2 .. z : s > i => s > i - 1 OBVIOUS
<1> QED BY <1>1 DEF ScopesClosed

LEMMA ScopesSwapped ==
  ASSUME Graph, NEW z, NEW loop, LoopHere(loop, z), NEW i \in 2 .. z, z >= 1,
         NEW head, NEW back, NEW exit, NEW v, NEW out,
         ScopesClosed(head, back, exit, v, i - 1, loop, z, out),
         Ctrl(out) \in {Live, Dead, loop},
         NEW phi, phi = loop + i - 1, NEW in \in Valued,
         NEW w, \A a, b \in Valued : v[a] = v[b] => w[a] = w[b], w[in] = w[phi]
  PROVE  ScopesClosed(SwapIn(head, phi, in), SwapIn(back, phi, in), SwapIn(exit, phi, in), w, i, loop, z, out)
<1>1. /\ Valued \subseteq Node /\ \A n \in Valued : n < next /\ n \in Nat /\ n # Null BY NodesWhole
<1>2. /\ z \in Nat /\ loop \in Nat /\ phi \in Valued /\ i \in Nat /\ loop # phi
      /\ \A s \in 2 .. z : loop + s - 1 \in Valued
  <2>1. z \in Nat /\ loop \in Nat /\ \A s \in 2 .. z : loop + s - 1 \in Valued BY DEF LoopHere
  <2>2. i \in Nat /\ i >= 2 BY <2>1
  <2>3. phi \in Valued /\ loop # phi BY <2>1, <2>2
  <2> QED BY <2>1, <2>2, <2>3
<1>3. /\ head \in Scope /\ back \in Scope /\ exit \in Scope
      /\ Len(head.slots) = z /\ Len(back.slots) = z /\ Len(exit.slots) = z
      /\ Ctrl(head) = loop /\ exit.list = out.list /\ Ctrl(exit) = Ctrl(out)
  BY DEF ScopesClosed
<1>4. \A s \in 2 .. z : /\ back.slots[s] \in Valued /\ exit.slots[s] \in Valued
                        /\ v[exit.slots[s]] = v[loop + s - 1]
                        /\ s > i - 1 => head.slots[s] = loop + s - 1
  BY DEF ScopesClosed
<1>5. PICK hd : hd = SwapIn(head, phi, in) OBVIOUS
<1>6. PICK bk : bk = SwapIn(back, phi, in) OBVIOUS
<1>7. PICK ex : ex = SwapIn(exit, phi, in) OBVIOUS
<1>8. in \in Node BY <1>1
<1>9. /\ hd \in Scope /\ Len(hd.slots) = z
      /\ \A s \in 1 .. z : hd.slots[s] = IF head.slots[s] = phi THEN in ELSE head.slots[s]
  BY <1>3, <1>5, <1>8, SwapScope
<1>10. /\ bk \in Scope /\ Len(bk.slots) = z
       /\ \A s \in 1 .. z : bk.slots[s] = IF back.slots[s] = phi THEN in ELSE back.slots[s]
  BY <1>3, <1>6, <1>8, SwapScope
<1>11. /\ ex \in Scope /\ ex.list = exit.list /\ Len(ex.slots) = z
       /\ \A s \in 1 .. z : ex.slots[s] = IF exit.slots[s] = phi THEN in ELSE exit.slots[s]
  BY <1>3, <1>7, <1>8, SwapScope
<1>12. 1 \in 1 .. z /\ \A s \in 2 .. z : s \in 1 .. z BY <1>2
<1>13. Ctrl(hd) = loop BY <1>2, <1>3, <1>9, <1>12 DEF Ctrl
<1>14. Ctrl(ex) = Ctrl(out)
  <2>1. exit.slots[1] \in {Live, Dead, loop} BY <1>3 DEF Ctrl
  <2>2. phi # Live /\ phi # Dead /\ phi # loop BY <1>1, <1>2 DEF Live, Dead
  <2> QED BY <1>3, <1>11, <1>12, <2>1, <2>2 DEF Ctrl
<1>15. ASSUME NEW s \in 2 .. z
       PROVE  /\ bk.slots[s] \in Valued /\ ex.slots[s] \in Valued
              /\ w[ex.slots[s]] = w[loop + s - 1]
              /\ s > i => hd.slots[s] = loop + s - 1
  <2>1. bk.slots[s] \in Valued /\ ex.slots[s] \in Valued BY <1>4, <1>10, <1>11, <1>12
  <2>2. w[ex.slots[s]] = w[loop + s - 1]
    <3>1. v[exit.slots[s]] = v[loop + s - 1] /\ exit.slots[s] \in Valued /\ loop + s - 1 \in Valued
      BY <1>2, <1>4
    <3>2. w[exit.slots[s]] = w[loop + s - 1] BY <3>1
    <3>3. CASE exit.slots[s] = phi BY <1>11, <1>12, <3>2, <3>3
    <3>4. CASE exit.slots[s] # phi BY <1>11, <1>12, <3>2, <3>4
    <3> QED BY <3>3, <3>4
  <2>3. s > i => hd.slots[s] = loop + s - 1
    <3> SUFFICES ASSUME s > i PROVE hd.slots[s] = loop + s - 1 OBVIOUS
    <3>1. s > i - 1 /\ loop + s - 1 # phi BY <1>2
    <3> QED BY <1>4, <1>9, <1>12, <3>1
  <2> QED BY <2>1, <2>2, <2>3
<1>16. ScopesClosed(hd, bk, ex, w, i, loop, z, out)
  BY <1>3, <1>9, <1>10, <1>11, <1>13, <1>14, <1>15 DEF ScopesClosed
<1> QED BY <1>5, <1>6, <1>7, <1>16

(* What a turn computes, and what sea_peephole chooses for the phi.         *)
Turning(st, sd, i, loop, phi, entry, other, set, in) ==
  /\ phi = loop + i - 1 /\ phi \in Valued
  /\ st.nodes[phi].kind = "phi" /\ entry = st.nodes[phi].args[1] /\ entry \in Valued
  /\ other = (IF st.back.slots[i] = phi THEN entry ELSE st.back.slots[i]) /\ other \in Valued
  /\ set = SecondSet(st.nodes, phi, entry, other)
  /\ NodesClosed(set, i, loop) /\ IsPhi(set, phi, loop, entry, other)
  /\ in = PeepholePhi(set, st.table, phi) /\ in \in Valued
  /\ Turn(sd, st, set, phi, in)

LEMMA TurnTaken ==
  ASSUME Graph, NEW z, NEW loop, LoopHere(loop, z), NEW i \in 2 .. z, z >= 1,
         NEW st, NEW out, Closed(st, i - 1, loop, z, out),
         NEW sd, sd = ClosePhi(st, i)
  PROVE  \E phi, entry, other, set, in : Turning(st, sd, i, loop, phi, entry, other, set, in)
<1>1. /\ Valued \subseteq Node /\ \A n \in Valued : n < next /\ n \in Nat /\ n # Null BY NodesWhole
<1>2. z \in Nat /\ loop \in Nat /\ loop \in Node /\ \A s \in 2 .. z : loop + s - 1 \in Valued /\ IsPhiOf(nodes, loop + s - 1, loop)
  BY DEF LoopHere
<1>3. PICK phi : phi = loop + i - 1 OBVIOUS
<1>4. phi \in Valued /\ phi \in Node /\ nodes[phi].kind = "phi" /\ nodes[phi].reg = loop
  BY <1>1, <1>2, <1>3 DEF IsPhiOf
<1>5. /\ Whole(st) /\ st.ok = TRUE
      /\ NodesClosed(st.nodes, i - 1, loop) /\ ValuesClosed(st.val, i - 1, loop, z) /\ TableTyped(st.table)
      /\ ScopesClosed(st.head, st.back, st.exit, st.val, i - 1, loop, z, out)
  BY DEF Closed
<1>6. i > i - 1 BY <1>2
<1>7. phi = st.head.slots[i] /\ Ctrl(st.head) = loop /\ st.back.slots[i] \in Valued
  BY <1>3, <1>5, <1>6 DEF ScopesClosed
<1>8. IsPhiOf(st.nodes, phi, loop)
  <2>1. ~ (phi < loop + (i - 1)) BY <1>2, <1>3
  <2>2. st.nodes[phi].kind = nodes[phi].kind /\ st.nodes[phi].reg = nodes[phi].reg
    BY <1>4, <1>5, <2>1 DEF NodesClosed
  <2> QED BY <1>4, <2>2 DEF IsPhiOf
<1>9. PICK entry : entry = st.nodes[phi].args[1] OBVIOUS
<1>10. PICK other : other = IF st.back.slots[i] = phi THEN entry ELSE st.back.slots[i] OBVIOUS
<1>11. PICK set : set = [st.nodes EXCEPT ![phi] = Phi(@.reg, <<entry, other>>)] OBVIOUS
<1>12. PICK in : in = PeepholePhi(set, st.table, phi) OBVIOUS
<1>13. entry \in Valued /\ other \in Valued
  <2>1. st.nodes[phi].kind = "phi" BY <1>8 DEF IsPhiOf
  <2>2. entry \in Valued BY <1>4, <1>5, <1>9, <2>1 DEF NodesClosed
  <2> QED BY <1>7, <1>10, <2>2
<1>14. /\ set = SecondSet(st.nodes, phi, entry, other)
       /\ NodesClosed(set, i, loop) /\ IsPhi(set, phi, loop, entry, other)
  <2>1. PICK ns : ns = st.nodes OBVIOUS
  <2>2. NodesClosed(ns, i - 1, loop) /\ ns[phi].kind = "phi" BY <1>5, <1>8, <2>1 DEF IsPhiOf
  <2>3. entry = ns[phi].args[1] /\ set = SecondSet(ns, phi, entry, other)
    BY <1>9, <1>11, <2>1 DEF SecondSet
  <2>4. NodesClosed(set, i, loop) /\ IsPhi(set, phi, loop, entry, other)
    BY <1>3, <1>13, <2>2, <2>3, SetSecond
  <2> QED BY <2>1, <2>3, <2>4
<1>15. in \in Valued
  <2>1. \A n \in Node : set[n].kind = "phi" => n \in Valued
    <3> TAKE n \in Node
    <3>1. set[n].kind = nodes[n].kind \/ set[n] = Gone BY <1>14 DEF NodesClosed
    <3>2. nodes[n].kind = "phi" => n \in Valued BY NodesWhole
    <3>3. Gone.kind # "phi" BY DEF Gone
    <3> QED BY <3>1, <3>2, <3>3
  <2>2. \A e \in st.table : e.node \in Node BY <1>5 DEF TableTyped
  <2>3. set[phi].args = <<entry, other>> BY <1>14 DEF IsPhi
  <2> QED BY <1>4, <1>12, <1>13, <2>1, <2>2, <2>3, PeepholeGives
<1>16. Turn(sd, st, set, phi, in)
  <2>1. IsPhiOf(st.nodes, phi, Ctrl(st.head)) /\ Whole(st) /\ phi = st.head.slots[i] BY <1>5, <1>7, <1>8, SMTT(30)
  <2> QED BY <1>9, <1>10, <1>11, <1>12, <2>1, ClosePhiIs, ZenonT(40)
<1>17. st.nodes[phi].kind = "phi" BY <1>8 DEF IsPhiOf
<1>18. Turning(st, sd, i, loop, phi, entry, other, set, in)
  BY <1>3, <1>4, <1>9, <1>10, <1>12, <1>13, <1>14, <1>15, <1>16, <1>17, Zenon DEF Turning
<1> QED BY <1>18, Zenon

LEMMA CloseStep ==
  ASSUME Graph, NEW z, NEW loop, LoopHere(loop, z), NEW i \in 2 .. z, z >= 1,
         NEW st, NEW out, Closed(st, i - 1, loop, z, out), Ctrl(out) \in {Live, Dead, loop},
         NEW sd, sd = ClosePhi(st, i)
  PROVE  Closed(sd, i, loop, z, out)
<1>1. PICK phi, entry, other, set, in : Turning(st, sd, i, loop, phi, entry, other, set, in)
  BY TurnTaken, Zenon
<1>2. /\ phi = loop + i - 1 /\ phi \in Valued
      /\ entry \in Valued /\ other \in Valued
      /\ NodesClosed(set, i, loop) /\ IsPhi(set, phi, loop, entry, other) /\ in \in Valued
      /\ Turn(sd, st, set, phi, in)
  BY <1>1, Zenon DEF Turning
<1>3. /\ Valued \subseteq Node /\ z \in Nat /\ loop \in Nat /\ loop \in Node /\ phi \in Node
  <2>1. z \in Nat /\ loop \in Nat /\ loop \in Node BY DEF LoopHere
  <2> QED BY <1>2, <2>1, NodesWhole
<1>4. /\ Whole(st) /\ st.ok = TRUE
      /\ NodesClosed(st.nodes, i - 1, loop) /\ ValuesClosed(st.val, i - 1, loop, z) /\ TableTyped(st.table)
      /\ ScopesClosed(st.head, st.back, st.exit, st.val, i - 1, loop, z, out)
  BY DEF Closed
<1>5. set[phi].kind = "phi" /\ set[phi].reg = loop /\ set[phi].args = <<entry, other>> BY <1>2 DEF IsPhi
<1>6. /\ in = phi => sd = [nodes |-> set, table |-> st.table \cup {PhiKey(set, phi)}, val |-> st.val,
                           ok |-> st.ok, head |-> st.head, back |-> st.back, exit |-> st.exit]
      /\ in # phi => sd = [nodes |-> Subsume(set, phi, in), table |-> st.table,
                           val |-> Swap(st.val, phi, st.val[in]), ok |-> st.ok,
                           head |-> SwapIn(st.head, phi, in), back |-> SwapIn(st.back, phi, in),
                           exit |-> SwapIn(st.exit, phi, in)]
  BY <1>2 DEF Turn
<1>7. CASE in = phi
  <2>1. PICK key : key = PhiKey(set, phi) OBVIOUS
  <2>2. sd = [nodes |-> set, table |-> st.table \cup {key}, val |-> st.val,
              ok |-> st.ok, head |-> st.head, back |-> st.back, exit |-> st.exit]
    BY <1>6, <1>7, <2>1
  <2>3. /\ sd.nodes = set /\ sd.table = st.table \cup {key} /\ sd.val = st.val /\ sd.ok = st.ok
        /\ sd.head = st.head /\ sd.back = st.back /\ sd.exit = st.exit
    BY <2>2
  <2>4. Whole(sd) BY <2>2 DEF Whole
  <2>5. TableTyped(sd.table)
    <3>1. key.node \in Node /\ key.reg \in Node /\ key.args \in Slots
      <4>1. <<entry, other>> \in Slots BY <1>3, <1>2 DEF Slots
      <4> QED BY <1>2, <1>3, <1>5, <2>1, <4>1 DEF PhiKey
    <3> QED BY <1>4, <2>3, <3>1 DEF TableTyped
  <2>6. ValuesClosed(sd.val, i, loop, z) BY <1>3, <1>4, <2>3, ValueKept
  <2>7. ScopesClosed(sd.head, sd.back, sd.exit, sd.val, i, loop, z, out) BY <1>3, <1>4, <2>3, ScopesKept
  <2> QED BY <1>4, <1>2, <2>3, <2>4, <2>5, <2>6, <2>7 DEF Closed
<1>8. CASE in # phi
  <2>1. PICK ndt : ndt = Subsume(set, phi, in) OBVIOUS
  <2>2. PICK v : v = st.val OBVIOUS
  <2>3. PICK w : w = Swap(v, phi, v[in]) OBVIOUS
  <2>4. PICK hd : hd = SwapIn(st.head, phi, in) OBVIOUS
  <2>5. PICK bk : bk = SwapIn(st.back, phi, in) OBVIOUS
  <2>6. PICK ex : ex = SwapIn(st.exit, phi, in) OBVIOUS
  <2>7. sd = [nodes |-> ndt, table |-> st.table, val |-> w, ok |-> st.ok, head |-> hd, back |-> bk, exit |-> ex]
    BY <1>6, <1>8, <2>1, <2>2, <2>3, <2>4, <2>5, <2>6
  <2>8. /\ sd.nodes = ndt /\ sd.table = st.table /\ sd.val = w /\ sd.ok = st.ok
        /\ sd.head = hd /\ sd.back = bk /\ sd.exit = ex
    BY <2>7
  <2>9. Whole(sd) BY <2>7 DEF Whole
  <2>10. NodesClosed(ndt, i, loop) BY <1>2, <2>1, Subsumed
  <2>11. ValuesClosed(v, i - 1, loop, z) BY <1>4, <2>2
  <2>12. /\ ValuesClosed(w, i, loop, z)
         /\ \A a, b \in Valued : v[a] = v[b] => w[a] = w[b]
         /\ w[in] = w[phi]
    BY <1>2, <2>3, <2>11, ValueGiven
  <2>13. ScopesClosed(st.head, st.back, st.exit, v, i - 1, loop, z, out) BY <1>4, <2>2
  <2>14. ScopesClosed(hd, bk, ex, w, i, loop, z, out)
    BY <1>2, <2>4, <2>5, <2>6, <2>12, <2>13, ScopesSwapped
  <2> QED BY <1>4, <2>8, <2>9, <2>10, <2>12, <2>14 DEF Closed
<1> QED BY <1>7, <1>8

(* Before the first slot: the back edge is set.                            *)
LEMMA CloseStart ==
  ASSUME Graph, Values, NEW z, NEW loop, LoopHere(loop, z), z >= 1,
         NEW head \in Scope, NEW back \in Scope, NEW out \in Scope,
         Len(head.slots) = z, Len(back.slots) = z, Len(out.slots) = z, Ctrl(head) = loop,
         \A s \in 2 .. z : /\ back.slots[s] \in Valued /\ val[loop + s - 1] = loop + s - 1
                           /\ head.slots[s] = loop + s - 1 /\ out.slots[s] = loop + s - 1,
         NEW st, st = Closing(head, back, out)
  PROVE  Closed(st, 1, loop, z, out)
<1>1. /\ Valued \subseteq Node /\ Made \subseteq Node /\ \A n \in Valued : n < next /\ n \in Nat /\ n # Null BY NodesWhole
<1>2. /\ z \in Nat /\ loop \in Nat /\ loop \in Node /\ loop \in Made /\ nodes[loop].kind = "loop" /\ loop \in OpenLoops
      /\ \A s \in 2 .. z : loop + s - 1 \in Valued /\ IsPhiOf(nodes, loop + s - 1, loop)
      /\ \A n \in Node : IsPhiOf(nodes, n, loop) => n \in loop + 1 .. loop + z - 1
  BY DEF LoopHere
<1>3. PICK nds : nds = [nodes EXCEPT ![loop] = Loop(<<@.args[1], Ctrl(back)>>)] OBVIOUS
<1>4. st = [nodes |-> nds, table |-> table, val |-> val, ok |-> TRUE, head |-> head, back |-> back, exit |-> out]
  BY <1>2, <1>3 DEF Closing
<1>5. /\ st.nodes = nds /\ st.table = table /\ st.val = val /\ st.ok = TRUE
      /\ st.head = head /\ st.back = back /\ st.exit = out
  BY <1>4
<1>6. Whole(st) BY <1>4 DEF Whole
<1>7. NodesClosed(nds, 1, loop)
  <2>1. /\ nodes \in [Node -> Rec] /\ \A n \in Node : n >= next => nodes[n] = Gone
        /\ \A n \in Node : nodes[n].kind \in {"region", "loop"} => Len(nodes[n].args) = 2
        /\ \A n \in Node : nodes[n].kind = "phi" =>
             /\ Len(nodes[n].args) = 2 /\ nodes[n].args[1] \in Valued /\ nodes[n].args[2] \in Valued \cup {Null}
             /\ nodes[n].args[2] = Null <=> nodes[n].reg \in OpenLoops
    BY DEF Graph
  <2>2. PICK a : a = <<nodes[loop].args[1], Ctrl(back)>> OBVIOUS
  <2>3. a \in Slots /\ Len(a) = 2
    <3>1. nodes[loop].args \in Slots /\ Len(nodes[loop].args) = 2 BY <1>2, <2>1 DEF Rec
    <3>2. nodes[loop].args[1] \in Node \cup {Null, Live, Dead} BY <3>1 DEF Slots
    <3>3. back.slots \in Slots /\ DOMAIN back.slots = 1 .. z BY ScopeParts
    <3>4. 1 \in 1 .. z BY <1>2
    <3>5. Ctrl(back) \in Node \cup {Null, Live, Dead} BY <3>3, <3>4 DEF Slots, Ctrl
    <3> QED BY <2>2, <3>2, <3>5 DEF Slots
  <2>4. Loop(a) \in Rec BY <2>3 DEF Loop, Rec, Null
  <2>5. nds = [nodes EXCEPT ![loop] = Loop(a)] BY <1>3, <2>2
  <2>6. nds \in [Node -> Rec] /\ nds[loop] = Loop(a) /\ \A n \in Node : n # loop => nds[n] = nodes[n]
    <3> PICK one \in Rec : one = Loop(a) BY <2>4
    <3>1. nds = [nodes EXCEPT ![loop] = one] BY <2>5
    <3> QED BY <1>2, <2>1, <3>1
  <2>7. nds[loop].kind = "loop" /\ nds[loop].args = a BY <2>6 DEF Loop
  <2>8. loop < next /\ next \in Nat BY <1>2, NodesWhole DEF Made
  <2>9. \A n \in Node : n >= next => nds[n] = Gone BY <1>2, <2>1, <2>6, <2>8
  <2>10. \A n \in Node : nds[n].kind \in {"region", "loop"} => Len(nds[n].args) = 2 BY <2>1, <2>3, <2>6, <2>7
  <2>11. \A n \in Node : \/ nds[n].kind = nodes[n].kind /\ (nodes[n].kind = "phi" => nds[n].reg = nodes[n].reg)
                         \/ nds[n] = Gone /\ IsPhiOf(nodes, n, loop) /\ n < loop + 1
    BY <1>2, <2>6, <2>7
  <2>12. ASSUME NEW n \in Node, nds[n].kind = "phi"
         PROVE  /\ Len(nds[n].args) = 2 /\ nds[n].args[1] \in Valued /\ nds[n].args[2] \in Valued \cup {Null}
                /\ nds[n].args[2] = Null <=> nodes[n].reg \in OpenLoops /\ (nodes[n].reg = loop => n >= loop + 1)
    <3>1. n # loop /\ nds[n] = nodes[n] BY <2>6, <2>7, <2>12
    <3>2. nodes[n].reg = loop => n >= loop + 1 BY <1>2, <2>12, <3>1 DEF IsPhiOf
    <3> QED BY <2>1, <2>12, <3>1, <3>2
  <2>13. \A n \in Node : n # loop /\ nodes[n].kind = "loop" /\ nodes[n].args[2] = Null => nds[n].args[2] = Null
    BY <2>6
  <2> QED BY <2>6, <2>9, <2>10, <2>11, <2>12, <2>13 DEF NodesClosed
<1>8. ValuesClosed(val, 1, loop, z) BY <1>2 DEF ValuesClosed, Values
<1>9. TableTyped(table) BY DEF TableTyped, Graph
<1>10. ScopesClosed(head, back, out, val, 1, loop, z, out) BY <1>2 DEF ScopesClosed
<1> QED BY <1>5, <1>6, <1>7, <1>8, <1>9, <1>10 DEF Closed

(* All turns of the loop, from the first slot to the last.                 *)
TurnsOf(f, n, start) ==
  f = [i \in 1 .. n |-> IF i = 1 THEN start ELSE ClosePhi(f[i - 1], i)]

LEMMA TurnsExist ==
  ASSUME NEW start, NEW n \in Nat
  PROVE  \E f : TurnsOf(f, n, start)
<1> DEFINE S == {k \in Nat : \E f : TurnsOf(f, k, start)}
<1>1. 0 \in S
  <2> DEFINE f == [i \in 1 .. 0 |-> start]
  <2>1. f = [i \in 1 .. 0 |-> IF i = 1 THEN start ELSE ClosePhi(f[i - 1], i)]
    <3>1. \A i \in 1 .. 0 : FALSE OBVIOUS
    <3> QED BY <3>1
  <2> QED BY <2>1 DEF TurnsOf
<1>2. \A k \in Nat : k \in S => k + 1 \in S
  <2> SUFFICES ASSUME NEW k \in Nat, k \in S PROVE \E g : TurnsOf(g, k + 1, start) OBVIOUS
  <2>1. PICK f : TurnsOf(f, k, start) OBVIOUS
  <2> DEFINE Step(h, i) == IF i = 1 THEN start ELSE ClosePhi(h[i - 1], i)
             g == [i \in 1 .. k + 1 |-> IF i <= k THEN f[i] ELSE Step(f, i)]
  <2>2. \A i \in 1 .. k : f[i] = Step(f, i) BY <2>1 DEF TurnsOf
  <2>3. \A i \in 1 .. k + 1 : i # 1 => i - 1 \in 1 .. k /\ i - 1 \in 1 .. k + 1 OBVIOUS
  <2>4. \A i \in 1 .. k + 1 : i <= k => i \in 1 .. k OBVIOUS
  <2>5. \A i \in 1 .. k + 1 : Step(g, i) = Step(f, i)
    <3> TAKE i \in 1 .. k + 1
    <3>1. i # 1 => i - 1 \in 1 .. k + 1 /\ i - 1 <= k BY <2>3
    <3>2. i # 1 => g[i - 1] = f[i - 1] BY <3>1
    <3> HIDE DEF g
    <3> QED BY <3>2
  <2>6. \A i \in 1 .. k + 1 : g[i] = Step(f, i)
    <3> TAKE i \in 1 .. k + 1
    <3> HIDE DEF Step
    <3> QED BY <2>2, <2>4
  <2>7. g = [i \in 1 .. k + 1 |-> g[i]] OBVIOUS
  <2> HIDE DEF g
  <2>8. g = [i \in 1 .. k + 1 |-> Step(g, i)]
    <3> HIDE DEF Step
    <3> QED BY <2>5, <2>6, <2>7
  <2> QED BY <2>8 DEF TurnsOf
<1> HIDE DEF S
<1>3. n \in S BY <1>1, <1>2, Induct
<1> QED BY <1>3 DEF S

LEMMA LoopCloses ==
  ASSUME Graph, Values, NEW z, NEW loop, LoopHere(loop, z), z >= 1,
         NEW head \in Scope, NEW back \in Scope, NEW out \in Scope,
         Len(head.slots) = z, Len(back.slots) = z, Len(out.slots) = z, Ctrl(head) = loop,
         Ctrl(out) \in {Live, Dead, loop},
         \A s \in 2 .. z : /\ back.slots[s] \in Valued /\ val[loop + s - 1] = loop + s - 1
                           /\ head.slots[s] = loop + s - 1 /\ out.slots[s] = loop + s - 1,
         NEW end, end = EndLoop(head, back, out)
  PROVE  Closed(end, z, loop, z, out)
<1>1. z \in Nat BY DEF LoopHere
<1>2. PICK start : start = Closing(head, back, out) OBVIOUS
<1>3. Closed(start, 1, loop, z, out) BY <1>2, CloseStart
<1> DEFINE h == CHOOSE f : TurnsOf(f, z, start)
<1>4. TurnsOf(h, z, start) BY <1>1, TurnsExist
<1>5. end = h[z] BY <1>2 DEF EndLoop, TurnsOf
<1> HIDE DEF h
<1>6. \A i \in 1 .. z : h[i] = IF i = 1 THEN start ELSE ClosePhi(h[i - 1], i) BY <1>4 DEF TurnsOf
<1> DEFINE S == {i \in Nat : i + 1 <= z => Closed(h[i + 1], i + 1, loop, z, out)}
<1>7. 0 \in S
  <2>1. h[1] = start BY <1>1, <1>6
  <2> QED BY <1>3, <2>1
<1>8. \A i \in Nat : i \in S => i + 1 \in S
  <2> SUFFICES ASSUME NEW i \in Nat, i \in S, (i + 1) + 1 <= z
               PROVE  Closed(h[(i + 1) + 1], (i + 1) + 1, loop, z, out)
    OBVIOUS
  <2>1. PICK j : j = (i + 1) + 1 OBVIOUS
  <2>2. j \in 2 .. z /\ j \in 1 .. z /\ j # 1 /\ j - 1 = i + 1 /\ i + 1 <= z BY <1>1, <2>1
  <2>3. h[j] = ClosePhi(h[j - 1], j) BY <1>6, <2>2
  <2>4. Closed(h[j - 1], j - 1, loop, z, out) BY <2>2
  <2>5. PICK st : st = h[j - 1] OBVIOUS
  <2>6. PICK sd : sd = h[j] OBVIOUS
  <2> HIDE DEF S
  <2>7. Closed(st, j - 1, loop, z, out) /\ sd = ClosePhi(st, j) BY <2>3, <2>4, <2>5, <2>6
  <2>8. Closed(sd, j, loop, z, out) BY <2>2, <2>7, CloseStep
  <2> QED BY <2>1, <2>6, <2>8
<1> HIDE DEF S
<1>9. z - 1 \in Nat /\ (z - 1) + 1 = z BY <1>1
<1>10. z - 1 \in S BY <1>7, <1>8, <1>9, Induct
<1>11. Closed(h[z], z, loop, z, out)
  <2>1. z <= z BY <1>1
  <2> QED BY <1>9, <1>10, <2>1 DEF S
<1> QED BY <1>5, <1>11

(* What the end of a loop leaves as it was.                                *)
Shut(loop, z) ==
  /\ LoopHere(loop, z) /\ next' = next
  /\ NodesClosed(nodes', z, loop) /\ ValuesClosed(val', z, loop, z) /\ TableTyped(table')

LEMMA ShutParts ==
  ASSUME Graph, NEW loop, NEW z, Shut(loop, z)
  PROVE  /\ z \in Nat /\ loop \in Nat /\ loop \in Node /\ loop < next
         /\ \A n \in Node : IsPhiOf(nodes, n, loop) => n \in loop + 1 .. loop + z - 1
         /\ \A s \in 2 .. z : IsPhiOf(nodes, loop + s - 1, loop) /\ loop + s - 1 \in Valued
         /\ Made' = Made /\ Valued' = Valued /\ next' = next
         /\ \A n \in Node : \/ nodes'[n].kind = nodes[n].kind /\ (nodes[n].kind = "phi" => nodes'[n].reg = nodes[n].reg)
                            \/ nodes'[n] = Gone /\ IsPhiOf(nodes, n, loop)
         /\ \A n \in Valued : /\ val'[n] \in Valued /\ val'[val'[n]] = val'[n]
                              /\ val[n] \notin loop + 1 .. loop + z - 1 => val'[n] = val[n]
<1>1. LoopHere(loop, z) /\ next' = next /\ NodesClosed(nodes', z, loop) /\ ValuesClosed(val', z, loop, z)
  BY DEF Shut
<1>2. /\ z \in Nat /\ loop \in Nat /\ loop \in Node /\ loop < next
      /\ \A n \in Node : IsPhiOf(nodes, n, loop) => n \in loop + 1 .. loop + z - 1
      /\ \A s \in 2 .. z : IsPhiOf(nodes, loop + s - 1, loop) /\ loop + s - 1 \in Valued
  <2>1. /\ z \in Nat /\ loop \in Nat /\ loop \in Node /\ loop \in Made
        /\ \A n \in Node : IsPhiOf(nodes, n, loop) => n \in loop + 1 .. loop + z - 1
        /\ \A s \in 2 .. z : IsPhiOf(nodes, loop + s - 1, loop) /\ loop + s - 1 \in Valued
    BY <1>1 DEF LoopHere
  <2>2. next \in Nat BY NodesWhole
  <2>3. loop < next BY <2>1, <2>2 DEF Made
  <2> QED BY <2>1, <2>3
<1>3. Made' = Made BY <1>1 DEF Made
<1>4. Valued' = Valued
  <2>1. \A n \in Made : val'[n] = Null <=> val[n] = Null BY <1>1, NodesWhole DEF ValuesClosed
  <2> QED BY <1>3, <2>1 DEF Valued
<1>5. \A n \in Node : \/ nodes'[n].kind = nodes[n].kind /\ (nodes[n].kind = "phi" => nodes'[n].reg = nodes[n].reg)
                      \/ nodes'[n] = Gone /\ IsPhiOf(nodes, n, loop)
  BY <1>1 DEF NodesClosed
<1>6. \A n \in Valued : /\ val'[n] \in Valued /\ val'[val'[n]] = val'[n]
                        /\ val[n] \notin loop + 1 .. loop + z - 1 => val'[n] = val[n]
  BY <1>1 DEF ValuesClosed
<1> QED BY <1>1, <1>2, <1>3, <1>4, <1>5, <1>6

LEMMA ShutMakes ==
  ASSUME Graph, Values, NEW loop, NEW z, Shut(loop, z), OpenLoops' = OpenLoops \ {loop}
  PROVE  Graph' /\ ValOK'
<1>1. /\ z \in Nat /\ loop \in Nat /\ loop \in Node /\ loop < next
      /\ \A n \in Node : IsPhiOf(nodes, n, loop) => n \in loop + 1 .. loop + z - 1
      /\ Made' = Made /\ Valued' = Valued /\ next' = next
  BY ShutParts
<1>2. \A n \in Node : \/ nodes'[n].kind = nodes[n].kind /\ (nodes[n].kind = "phi" => nodes'[n].reg = nodes[n].reg)
                      \/ nodes'[n] = Gone /\ IsPhiOf(nodes, n, loop)
  BY ShutParts
<1>3. \A n \in Valued : val'[n] \in Valued /\ val'[val'[n]] = val'[n] BY ShutParts
<1>4. NodesClosed(nodes', z, loop) /\ ValuesClosed(val', z, loop, z) /\ TableTyped(table') BY DEF Shut
<1>5. /\ nodes' \in [Node -> Rec]
      /\ \A n \in Node : n >= next => nodes'[n] = Gone
      /\ \A n \in Node : nodes'[n].kind \in {"region", "loop"} => Len(nodes'[n].args) = 2
  BY <1>4 DEF NodesClosed
<1>6. \A n \in Node : nodes'[n].kind = "phi" =>
        /\ Len(nodes'[n].args) = 2 /\ nodes'[n].args[1] \in Valued /\ nodes'[n].args[2] \in Valued \cup {Null}
        /\ nodes'[n].args[2] = Null <=> nodes[n].reg \in OpenLoops /\ (nodes[n].reg = loop => n >= loop + z)
  BY <1>4 DEF NodesClosed
<1>7. Gone.kind = "gone" BY DEF Gone
<1>8. ASSUME NEW n \in Node, nodes'[n].kind = "phi"
      PROVE  /\ nodes'[n].reg \in 1 .. n - 1 /\ nodes'[nodes'[n].reg].kind \in {"region", "loop"}
             /\ Len(nodes'[n].args) = 2 /\ n \in Valued
             /\ nodes'[n].args[1] \in Valued /\ nodes'[n].args[2] \in Valued \cup {Null}
             /\ nodes'[n].args[2] = Null <=> nodes'[n].reg \in OpenLoops'
  <2>1. nodes[n].kind = "phi" /\ nodes'[n].reg = nodes[n].reg BY <1>2, <1>7, <1>8
  <2>2. nodes[n].reg \in 1 .. n - 1 /\ nodes[nodes[n].reg].kind \in {"region", "loop"} /\ n \in Valued
    BY <2>1 DEF Graph
  <2>3. PICK r : r = nodes[n].reg OBVIOUS
  <2>4. r \in Node /\ nodes[r].kind # "phi" BY <2>2, <2>3, NodesWhole DEF Node
  <2>5. nodes'[r].kind = nodes[r].kind BY <1>2, <2>4 DEF IsPhiOf
  <2>6. r = loop => ~ (n >= loop + z)
    <3> SUFFICES ASSUME r = loop PROVE ~ (n >= loop + z) OBVIOUS
    <3>1. n \in loop + 1 .. loop + z - 1 BY <1>1, <2>1, <2>3 DEF IsPhiOf
    <3> QED BY <1>1, <3>1
  <2>7. nodes'[n].args[2] = Null <=> r \in OpenLoops' BY <1>6, <1>8, <2>3, <2>6
  <2> QED BY <1>6, <1>8, <2>1, <2>2, <2>3, <2>5, <2>7
<1>9. /\ next' \in 1 .. MaxNode + 1
      /\ \A e \in table' : e.node \in Node /\ e.reg \in Node /\ e.args \in Slots
  BY <1>1, <1>4 DEF Graph, TableTyped
<1>10. \A n \in Node : n >= next' => nodes'[n] = Gone BY <1>1, <1>5
<1>11. \A n \in Node : nodes'[n].kind = "phi" =>
         /\ nodes'[n].reg \in 1 .. n - 1 /\ nodes'[nodes'[n].reg].kind \in {"region", "loop"}
         /\ Len(nodes'[n].args) = 2
         /\ n \in Valued'
         /\ nodes'[n].args[1] \in Valued' /\ nodes'[n].args[2] \in Valued' \cup {Null}
         /\ nodes'[n].args[2] = Null <=> nodes'[n].reg \in OpenLoops'
  BY <1>1, <1>8
<1>12. Graph' BY <1>5, <1>9, <1>10, <1>11 DEF Graph
<1>13. val' \in [Node -> Node \cup {Null}] /\ \A n \in Node : n >= next' => val'[n] = Null
  BY <1>1, <1>4 DEF ValuesClosed, Values
<1>14. ValOK' BY <1>1, <1>3, <1>13 DEF ValOK
<1> QED BY <1>12, <1>14

LEMMA ShutFilled ==
  ASSUME Graph, NEW loop, NEW z, Shut(loop, z), NEW sc, Filled(sc)
  PROVE  Filled(sc)'
<1>1. Made' = Made /\ Valued' = Valued BY ShutParts
<1> QED BY <1>1 DEF Filled

LEMMA ShutMeans ==
  ASSUME Graph, NEW loop, NEW z, Shut(loop, z), NEW sc, Laid(sc), Filled(sc), Means(sc),
         \A l \in DOMAIN sc.list : env'[l] = env[l],
         \A l \in DOMAIN sc.list : \A x \in DOMAIN env[l] : env[l][x] \in Nat /\ env[l][x] < loop
  PROVE  Means(sc)'
<1>1. /\ loop \in Nat /\ z \in Nat
      /\ \A n \in Valued : val[n] \notin loop + 1 .. loop + z - 1 => val'[n] = val[n]
  BY ShutParts
<1>2. \A l \in DOMAIN sc.list :
        DOMAIN env'[l] = {x \in Name : \E i \in DOMAIN sc.list[l].cells : sc.list[l].cells[i].name = x}
  <2>1. Fits(sc.list) BY Zenon DEF Means, Fits
  <2> QED BY <2>1 DEF Fits
<1>3. \A l \in DOMAIN sc.list : \A i \in DOMAIN sc.list[l].cells :
       sc.list[l].cells[i].name # "@ctrl" =>
         val'[sc.slots[sc.list[l].cells[i].slot]] = env'[l][sc.list[l].cells[i].name]
  <2> SUFFICES ASSUME NEW l \in DOMAIN sc.list, NEW i \in DOMAIN sc.list[l].cells,
                      sc.list[l].cells[i].name # "@ctrl"
               PROVE  val'[sc.slots[sc.list[l].cells[i].slot]] = env'[l][sc.list[l].cells[i].name]
    BY Zenon
  <2>1. PICK x : x = sc.list[l].cells[i].name OBVIOUS
  <2>2. PICK n : n = sc.slots[sc.list[l].cells[i].slot] BY SMTT(30)
  <2>3. val[n] = env[l][x] BY <2>1, <2>2, Zenon DEF Means
  <2>4. n \in Valued
    <3>1. sc.list[l].cells[i].slot \in 2 .. Len(sc.slots) BY CellSlots
    <3> QED BY <2>2, <3>1 DEF Filled
  <2>5. x \in DOMAIN env[l]
    <3>1. x \in Name
      <4>1. sc \in Scope BY LaidParts
      <4>2. sc.list[l].cells[i] \in Cell BY <4>1, ScopeParts
      <4> QED BY <2>1, <4>2 DEF Cell
    <3>2. env'[l] = env[l] OBVIOUS
    <3> QED BY <1>2, <2>1, <3>1, <3>2
  <2>6. val'[n] = val[n] BY <1>1, <2>3, <2>4, <2>5
  <2> QED BY <2>1, <2>2, <2>3, <2>6, Zenon
<1> QED BY <1>2, <1>3, Zenon DEF Means

(* The loops around the one that ends are still read.                      *)
LEMMA LoopStaysShut ==
  ASSUME Graph, NEW loop, NEW z, Shut(loop, z), NEW g \in LoopFrame, LoopOK(g), Ctrl(g.head) # loop,
         ~ (g.was /\ g.go) => \A l \in DOMAIN g.at : env'[l] = env[l]
  PROVE  LoopOK(g)'
<1>1. PICK h : h = Ctrl(g.head) OBVIOUS
<1>2. /\ z \in Nat /\ loop \in Nat
      /\ \A s \in 2 .. z : IsPhiOf(nodes, loop + s - 1, loop)
      /\ Made' = Made /\ Valued' = Valued
  BY ShutParts
<1>3. \A n \in Node : \/ nodes'[n].kind = nodes[n].kind /\ (nodes[n].kind = "phi" => nodes'[n].reg = nodes[n].reg)
                      \/ nodes'[n] = Gone /\ IsPhiOf(nodes, n, loop)
  BY ShutParts
<1>4. \A n \in Valued : val[n] \notin loop + 1 .. loop + z - 1 => val'[n] = val[n] BY ShutParts
<1>5. \A n \in Node : n # loop /\ nodes[n].kind = "loop" /\ nodes[n].args[2] = Null => nodes'[n].args[2] = Null
  BY DEF Shut, NodesClosed
<1>6. /\ h \in Made /\ nodes[h].kind = "loop" /\ nodes[h].args[2] = Null
      /\ g.exit.list = g.head.list /\ Len(g.exit.slots) = Len(g.head.slots)
      /\ Ctrl(g.exit) \in {Live, Dead, h}
      /\ \A s \in 2 .. Len(g.head.slots) :
           /\ g.head.slots[s] = h + s - 1 /\ g.exit.slots[s] = h + s - 1
           /\ IsPhiOf(nodes, h + s - 1, h) /\ val[h + s - 1] = h + s - 1
      /\ \A n \in Node : IsPhiOf(nodes, n, h) => n \in h + 1 .. h + Len(g.head.slots) - 1
      /\ Len(g.at) = Len(g.head.list)
      /\ \A l \in DOMAIN g.at : \A x \in DOMAIN g.at[l] : g.at[l][x] \in Valued
      /\ ~ (g.was /\ g.go) => \A l \in DOMAIN g.at : g.at[l] = env[l]
      /\ ~ g.was => \A l \in DOMAIN g.at : \A x \in DOMAIN g.at[l] : g.at[l][x] < h
  BY <1>1, Zenon DEF LoopOK
<1>7. Gone.kind = "gone" BY DEF Gone
<1>8. Made \subseteq Node /\ \A n \in Node : nodes[n].kind = "phi" => n \in Valued BY NodesWhole
<1>9. h \in Made' /\ nodes'[h].kind = "loop" /\ nodes'[h].args[2] = Null
  <2>1. h \in Node /\ h # loop BY <1>1, <1>6, <1>8
  <2>2. nodes'[h].kind = nodes[h].kind BY <1>3, <1>6, <2>1 DEF IsPhiOf
  <2>3. nodes'[h].args[2] = Null BY <1>5, <1>6, <2>1
  <2> QED BY <1>2, <1>6, <2>2, <2>3
<1>10. ASSUME NEW s \in 2 .. Len(g.head.slots)
       PROVE  IsPhiOf(nodes', h + s - 1, h) /\ val'[h + s - 1] = h + s - 1
  <2>1. PICK n : n = h + s - 1 OBVIOUS
  <2>2. n \in Node /\ nodes[n].kind = "phi" /\ nodes[n].reg = h /\ val[n] = n
    BY <1>6, <1>10, <2>1 DEF IsPhiOf
  <2>3. h # loop BY <1>1
  <2>4. nodes'[n].kind = "phi" /\ nodes'[n].reg = h BY <1>3, <2>2, <2>3 DEF IsPhiOf
  <2>5. n \notin loop + 1 .. loop + z - 1
    <3> SUFFICES ASSUME n \in loop + 1 .. loop + z - 1 PROVE FALSE OBVIOUS
    <3>1. n - loop + 1 \in 2 .. z /\ n = loop + (n - loop + 1) - 1 BY <1>2
    <3>2. IsPhiOf(nodes, n, loop) BY <1>2, <3>1
    <3> QED BY <2>2, <2>3, <3>2 DEF IsPhiOf
  <2>6. val'[n] = n BY <1>4, <1>8, <2>2, <2>5
  <2> QED BY <2>1, <2>2, <2>4, <2>6 DEF IsPhiOf
<1>11. ASSUME NEW n \in Node, IsPhiOf(nodes', n, h)
       PROVE  n \in h + 1 .. h + Len(g.head.slots) - 1
  <2>1. nodes'[n].kind = "phi" /\ nodes'[n].reg = h BY <1>11 DEF IsPhiOf
  <2>2. nodes[n].kind = "phi" /\ nodes[n].reg = h BY <1>3, <1>7, <2>1
  <2> QED BY <1>6, <2>2 DEF IsPhiOf
<1>12. \A l \in DOMAIN g.at : \A x \in DOMAIN g.at[l] : g.at[l][x] \in Valued' BY <1>2, <1>6
<1>13. ~ (g.was /\ g.go) => \A l \in DOMAIN g.at : g.at[l] = env'[l] BY <1>6
<1> QED BY <1>1, <1>6, <1>9, <1>10, <1>11, <1>12, <1>13, Zenon DEF LoopOK

(* What the variables mean behind the loop: what their phis have become.    *)
After(at) == [l \in DOMAIN at |-> [x \in DOMAIN at[l] |-> val'[at[l][x]]]]

LEMMA ShutEnv ==
  ASSUME Graph, NEW loop, NEW z, Shut(loop, z), NEW at \in Seq(Env),
         \A l \in DOMAIN at : \A x \in DOMAIN at[l] : at[l][x] \in Valued,
         env' = After(at)
  PROVE  /\ EnvOK' /\ Len(env') = Len(at)
         /\ \A l \in DOMAIN at : /\ DOMAIN env'[l] = DOMAIN at[l]
                                 /\ \A x \in DOMAIN at[l] : env'[l][x] = val'[at[l][x]]
<1>1. Valued' = Valued /\ \A n \in Valued : val'[n] \in Valued /\ val'[val'[n]] = val'[n]
  BY ShutParts
<1>2. Valued \subseteq Node BY NodesWhole
<1>3. DOMAIN at = 1 .. Len(at) /\ Len(at) \in Nat BY LenProperties
<1>4. \A l \in DOMAIN at : env'[l] = [x \in DOMAIN at[l] |-> val'[at[l][x]]] BY DEF After
<1>5. \A l \in DOMAIN at : /\ DOMAIN env'[l] = DOMAIN at[l]
                           /\ \A x \in DOMAIN at[l] : env'[l][x] = val'[at[l][x]]
  BY <1>4, ZenonT(40)
<1>6. ASSUME NEW l \in DOMAIN at PROVE env'[l] \in Env
  <2>1. at[l] \in Env BY <1>3
  <2>2. PICK S \in SUBSET Name : at[l] \in [S -> Node] BY <2>1 DEF Env
  <2>3. DOMAIN at[l] = S BY <2>2
  <2>4. \A x \in S : val'[at[l][x]] \in Node BY <1>1, <1>2, <2>3
  <2>5. [x \in S |-> val'[at[l][x]]] \in [S -> Node] BY <2>4, Zenon
  <2>6. [x \in S |-> val'[at[l][x]]] \in Env BY <2>5, Zenon DEF Env
  <2>7. env'[l] = [x \in S |-> val'[at[l][x]]] BY <1>4, <2>3, Zenon
  <2> QED BY <2>6, <2>7, Zenon
<1>7. DOMAIN env' = DOMAIN at BY DEF After
<1>8. env' = [l \in 1 .. Len(at) |-> env'[l]] BY <1>3, <1>4 DEF After
<1>9. env' \in [1 .. Len(at) -> Env] BY <1>3, <1>6, <1>8
<1>10. env' \in Seq(Env) /\ Len(env') = Len(at)
  <2>1. env' \in Seq(Env) BY <1>3, <1>9, IsASeq
  <2> QED BY <1>3, <1>7, <2>1, LenProperties
<1>11. \A l \in DOMAIN env' : \A x \in DOMAIN env'[l] :
         env'[l][x] \in Valued' /\ val'[env'[l][x]] = env'[l][x]
  BY <1>1, <1>5, <1>7
<1>12. EnvOK' BY <1>10, <1>11 DEF EnvOK
<1> QED BY <1>5, <1>10, <1>12

(* A run that does not come to the loop sees nothing of it.                *)
LEMMA ShutUnseen ==
  ASSUME Graph, Values, NEW loop, NEW z, Shut(loop, z), NEW at \in Seq(Env), Len(at) <= Len(env),
         \A l \in DOMAIN at : at[l] = env[l],
         \A l \in DOMAIN at : \A x \in DOMAIN at[l] : at[l][x] < loop,
         env' = After(at)
  PROVE  \A l \in DOMAIN at : /\ env'[l] = env[l]
                              /\ \A x \in DOMAIN env[l] : env[l][x] \in Nat /\ env[l][x] < loop
<1>1. z \in Nat /\ loop \in Nat /\ \A n \in Valued : val[n] \notin loop + 1 .. loop + z - 1 => val'[n] = val[n]
  BY ShutParts
<1>2. \A n \in Valued : n \in Nat BY NodesWhole
<1>3. env \in Seq(Env) /\ \A l \in DOMAIN env : \A x \in DOMAIN env[l] : env[l][x] \in Valued /\ val[env[l][x]] = env[l][x]
  BY DEF Values
<1>4. DOMAIN at = 1 .. Len(at) /\ Len(at) \in Nat /\ DOMAIN env = 1 .. Len(env) /\ Len(env) \in Nat
  BY <1>3, LenProperties
<1> TAKE l \in DOMAIN at
<1>5. l \in DOMAIN env BY <1>4
<1>6. env'[l] = [x \in DOMAIN at[l] |-> val'[at[l][x]]] BY DEF After
<1>7. at[l] = env[l] OBVIOUS
<1>8. \A x \in DOMAIN env[l] : env[l][x] \in Nat /\ env[l][x] < loop BY <1>2, <1>3, <1>5, <1>7
<1>9. ASSUME NEW x \in DOMAIN env[l] PROVE val'[at[l][x]] = env[l][x]
  <2>1. PICK n : n = env[l][x] OBVIOUS
  <2>2. n \in Valued /\ val[n] = n BY <1>3, <1>5, <2>1
  <2>3. n \in Nat /\ n < loop BY <1>8, <2>1
  <2>4. val'[n] = n BY <1>1, <2>2, <2>3
  <2> QED BY <1>7, <2>1, <2>4
<1>10. env[l] \in Env BY <1>3, <1>5
<1>11. PICK S \in SUBSET Name : env[l] \in [S -> Node] BY <1>10 DEF Env
<1>12. DOMAIN env[l] = S /\ env[l] = [x \in S |-> env[l][x]] BY <1>11
<1>13. env'[l] = [x \in S |-> env[l][x]] BY <1>6, <1>7, <1>9, <1>12
<1>14. env'[l] = env[l] BY <1>12, <1>13
<1> QED BY <1>8, <1>14

(* What is below the loop that ends does not see it: on its run, it is not  *)
(* looked at again, and on another, nothing there is a value of the loop's. *)
Unseen(was, m, blocks, loop) ==
  /\ was => \A i \in 1 .. m : OnSide(frames[i])
  /\ ~ was => \A l \in 1 .. blocks :
       env'[l] = env[l] /\ \A x \in DOMAIN env[l] : env[l][x] \in Nat /\ env[l][x] < loop

LEMMA LoopsShut ==
  ASSUME Graph, Blocks0, Loops, NEW loop, NEW z, Shut(loop, z),
         NEW m \in Nat, m >= 1, NEW k \in Nat, k = m + 1, k = Len(frames),
         Stay(m), Len(frames') = m, frames[k].fn = "body", Ctrl(frames[k].head) = loop,
         NEW lev \in [DOMAIN frames -> Nat], Levels(lev),
         NEW was, Unseen(was, m, lev[m], loop)
  PROVE  Loops'
<1>1. frames \in Seq(Frame) /\ DOMAIN frames = 1 .. k /\ frames' \in Seq(Frame) /\ DOMAIN frames' = 1 .. m
  BY DEF Blocks0, Stay
<1>2. \A i \in 1 .. m : i \in DOMAIN frames /\ i \in 1 .. k /\ frames[i] \in Frame /\ i < k BY <1>1
<1>4. \A i \in 1 .. m : /\ frames'[i].fn = "body" <=> frames[i].fn = "body"
                        /\ frames'[i].fn = "body" => frames'[i] = frames[i]
  BY <1>2, KinParts DEF Stay
<1>5. ASSUME NEW i \in 1 .. m, frames[i].fn = "body" PROVE LoopOK(frames[i])'
  <2>1. PICK f : f = frames[i] OBVIOUS
  <2>2. f = frames'[i] /\ f.fn = "body" BY <1>4, <1>5, <2>1
  <2>3. f \in LoopFrame /\ PutAside(f) = {f.head, f.exit} BY <1>2, <2>1, <2>2, FrameParts
  <2>4. LoopOK(f) BY <1>2, <1>5, <2>1 DEF Loops
  <2>5. ~ (f.was /\ f.go) => \A l \in DOMAIN f.at : env'[l] = env[l]
    <3> SUFFICES ASSUME ~ (f.was /\ f.go) PROVE \A l \in DOMAIN f.at : env'[l] = env[l]
      OBVIOUS
    <3>1. ~ was BY <2>1, <2>2 DEF OnSide, Unseen
    <3>2. i # 1 BY <1>5 DEF Levels
    <3>3. i \in 2 .. k /\ i - 1 \in 1 .. m /\ i - 1 <= m /\ m \in 1 .. k BY <1>2, <3>2
    <3>4. Len(f.head.list) = lev[i - 1] BY <2>1, <2>3, <3>3 DEF Levels
    <3>5. lev[i - 1] <= lev[m] /\ lev[i - 1] \in Nat /\ lev[m] \in Nat
      BY <1>1, <1>2, <3>3 DEF Levels
    <3>6. DOMAIN f.at = 1 .. lev[i - 1]
      <4>1. Len(f.at) = Len(f.head.list) BY <2>4 DEF LoopOK
      <4>2. DOMAIN f.at = 1 .. Len(f.at) BY <2>3 DEF LoopFrame
      <4> QED BY <3>4, <4>1, <4>2
    <3>7. \A l \in 1 .. lev[i - 1] : l \in 1 .. lev[m] BY <3>5
    <3> QED BY <3>1, <3>6, <3>7 DEF Unseen
  <2>6. Ctrl(f.head) # loop
    <3>1. k \in DOMAIN frames BY <1>1
    <3>2. Ctrl(f.head) < loop BY <1>2, <1>5, <2>1, <3>1 DEF Loops
    <3>3. loop \in Nat BY ShutParts
    <3>4. PICK h : h = Ctrl(f.head) OBVIOUS
    <3>5. h < loop BY <3>2, <3>4
    <3>6. h # loop BY <3>3, <3>5
    <3> QED BY <3>4, <3>6
  <2>7. LoopOK(f)' BY <2>3, <2>4, <2>5, <2>6, LoopStaysShut
  <2> QED BY <2>2, <2>7
<1>6. \A i \in DOMAIN frames' : frames'[i].fn = "body" => LoopOK(frames[i])'
  BY <1>1, <1>4, <1>5
<1>7. \A i, j \in DOMAIN frames' : i < j /\ frames'[i].fn = "body" /\ frames'[j].fn = "body" =>
        Ctrl(frames'[i].head) < Ctrl(frames'[j].head)
  <2> SUFFICES ASSUME NEW i \in 1 .. m, NEW j \in 1 .. m, i < j,
                      frames'[i].fn = "body", frames'[j].fn = "body"
               PROVE  Ctrl(frames'[i].head) < Ctrl(frames'[j].head)
    BY <1>1
  <2>1. frames'[i] = frames[i] /\ frames'[j] = frames[j] BY <1>4
  <2>2. i \in DOMAIN frames /\ j \in DOMAIN frames BY <1>2
  <2> QED BY <2>1, <2>2 DEF Loops
<1>8. (\A i \in DOMAIN frames : frames[i].fn = "body" => LoopOK(frames[i]))' BY <1>6
<1>9. (\A i, j \in DOMAIN frames : i < j /\ frames[i].fn = "body" /\ frames[j].fn = "body" =>
        Ctrl(frames[i].head) < Ctrl(frames[j].head))' BY <1>7 DEF Ctrl
<1> QED BY <1>8, <1>9 DEF Loops

LEMMA MeaningsShut ==
  ASSUME Graph, Blocks0, Meanings, NEW loop, NEW z, Shut(loop, z),
         NEW m \in Nat, m >= 1, NEW k \in Nat, k = m + 1, k = Len(frames),
         Stay(m), Len(frames') = m,
         NEW lev \in [DOMAIN frames -> Nat], Levels(lev),
         NEW was, Unseen(was, m, lev[m], loop),
         on' => Means(curr)' /\ Ctrl(curr') # Dead
  PROVE  Meanings'
<1>1. frames \in Seq(Frame) /\ DOMAIN frames = 1 .. k /\ DOMAIN frames' = 1 .. m
  BY DEF Blocks0, Stay
<1>2. \A i \in 1 .. m : i \in DOMAIN frames /\ i \in 1 .. k /\ frames[i] \in Frame BY <1>1
<1>3. Made' = Made BY ShutParts
<1>4. ASSUME NEW i \in 1 .. m PROVE Pending(frames[i])'
  <2>1. PICK f : f = frames[i] OBVIOUS
  <2>2. PICK g : g = frames'[i] OBVIOUS
  <2>3. f \in Frame /\ Kin(g, f) BY <1>2, <2>1, <2>2 DEF Stay
  <2>4. Pending(f) BY <1>2, <2>1 DEF Meanings
  <2>7. f.fn = "then" => f.ctrl \in Made' \cup {Live, Dead} BY <1>3, <2>4 DEF Pending
  <2>5. Pending(f)'
    <3>1. CASE OnSide(f)
      <4>1. /\ f.fn = "then" => f.was /\ f.take
            /\ f.fn \in {"between", "else", "merge"} => f.was /\ ~ f.take
            /\ f.fn = "body" => f.was /\ f.go
        BY <3>1 DEF OnSide
      <4>2. f.fn \in {"between", "else", "merge"} /\ f.cont => f.take BY <2>4 DEF Pending
      <4>3. ~ (f.fn = "then" /\ f.was /\ ~ f.take) BY <4>1
      <4>4. ~ (f.fn \in {"between", "else", "merge"} /\ f.cont) BY <4>1, <4>2
      <4>5. ~ (f.fn = "body" /\ f.was /\ ~ f.go) BY <4>1
      <4> QED BY <2>7, <4>3, <4>4, <4>5 DEF Pending
    <3>2. CASE ~ was
      <4>1. \A sc \in PutAside(f) : Means(sc) => Means(sc)'
        <5> SUFFICES ASSUME NEW sc \in PutAside(f), Means(sc) PROVE Means(sc)' OBVIOUS
        <5>1. i # 1
          <6>1. PutAside(f) # {} OBVIOUS
          <6>2. f.fn # "func" BY <2>3, <6>1, FrameParts
          <6> QED BY <2>1, <6>2 DEF Levels
        <5>2. i \in 2 .. k /\ i - 1 \in 1 .. m /\ i - 1 <= m /\ m \in 1 .. k BY <1>2, <5>1
        <5>3. Laid(sc) /\ Filled(sc) /\ Len(sc.list) = lev[i - 1] BY <2>1, <5>2 DEF Levels
        <5>4. lev[i - 1] <= lev[m] /\ lev[i - 1] \in Nat /\ lev[m] \in Nat
          BY <1>1, <1>2, <5>2 DEF Levels
        <5>5. DOMAIN sc.list = 1 .. lev[i - 1] BY <5>3, LaidParts
        <5>6. \A l \in 1 .. lev[i - 1] : l \in 1 .. lev[m] BY <5>4
        <5>7. \A l \in DOMAIN sc.list : env'[l] = env[l] BY <3>2, <5>5, <5>6 DEF Unseen
        <5>8. \A l \in DOMAIN sc.list : \A x \in DOMAIN env[l] : env[l][x] \in Nat /\ env[l][x] < loop
          BY <3>2, <5>5, <5>6 DEF Unseen
        <5> QED BY <5>3, <5>7, <5>8, ShutMeans
      <4>2. f.fn \in {"then", "between", "else", "merge"} => f.other \in PutAside(f)
        BY <2>3, FrameParts DEF Branch
      <4>3. f.fn = "body" => f.exit \in PutAside(f) BY <2>3, FrameParts
      <4> QED BY <2>4, <2>7, <4>1, <4>2, <4>3 DEF Pending, Ctrl
    <3> QED BY <2>1, <3>1, <3>2 DEF Unseen
  <2>6. Pending(g)'
    <3>1. CASE g = f BY <2>5, <3>1
    <3>2. CASE f \in BranchFrame /\ f.fn = "between" /\ g = Become(f, "merge")
      <4>1. "merge" \in Branch BY DEF Branch
      <4>2. g.fn = "merge" /\ g.other = f.other /\ g.was = f.was /\ g.take = f.take /\ g.cont = f.cont
        BY <3>2, <4>1, Retagged
      <4> QED BY <2>5, <3>2, <4>2 DEF Pending, Ctrl
    <3> QED BY <2>3, <3>1, <3>2 DEF Kin
  <2> QED BY <2>2, <2>6
<1>5. \A i \in DOMAIN frames' : Pending(frames[i])' BY <1>1, <1>4
<1>6. (on /\ frames # <<>> => Means(curr) /\ Ctrl(curr) # Dead)' BY DEF Ctrl
<1>7. (\A i \in DOMAIN frames : Pending(frames[i]))' BY <1>5
<1> QED BY <1>6, <1>7 DEF Meanings

(* The frame of a while whose block ends.                                  *)
InLoop(k, f, lev, b) ==
  /\ k = Len(frames) /\ k >= 2 /\ DOMAIN frames = 1 .. k /\ f = frames[k] /\ f = Last(frames)
  /\ f.fn = "body" /\ LoopOK(f)
  /\ Levels(lev) /\ b = lev[k - 1] /\ b >= 1 /\ Len(curr.list) = b + 1 /\ Len(env) = b + 1
  /\ Laid(curr) /\ Filled(curr)
  /\ \A sc \in {f.head, f.exit} :
       /\ Laid(sc) /\ Filled(sc) /\ Len(sc.list) = b
       /\ \A l \in 1 .. b : sc.list[l] = curr.list[l]
  /\ Pending(f) /\ (on => OnSide(f))
  /\ \A j \in 1 .. k - 1 : (f.was => OnSide(frames[j]))

LEMMA LoopTop ==
  ASSUME IInv, Top({"body"})
  PROVE  \E k \in Nat, f \in LoopFrame, lev \in [DOMAIN frames -> Nat], b \in Nat : InLoop(k, f, lev, b)
<1>1. Blocks0 /\ Loops /\ Run /\ Meanings BY DEF IInv
<1>2. PICK k : k = Len(frames) OBVIOUS
<1>3. PICK f : f = Last(frames) OBVIOUS
<1>4. PICK z : z = Len(curr.list) OBVIOUS
<1>5. /\ k \in Nat /\ DOMAIN frames = 1 .. k /\ f = frames[k] /\ f \in Frame /\ f.fn \in {"body"}
      /\ Laid(curr) /\ Filled(curr) /\ Len(env) = z /\ z \in Nat /\ z >= 2 /\ frames # <<>> /\ k >= 1
  BY <1>1, <1>2, <1>3, <1>4, Tops
<1>6. f \in LoopFrame /\ PutAside(f) = {f.head, f.exit} /\ f.fn # "func" /\ f.fn = "body"
      /\ f.fn \notin {"between", "merge"}
  BY <1>5, FrameParts
<1>7. PICK lev \in [DOMAIN frames -> Nat] :
         /\ Levels(lev) /\ k >= 2
         /\ z = lev[k - 1] + (IF f.fn \in {"between", "merge"} THEN 0 ELSE 1)
         /\ \A sc \in PutAside(f) :
              /\ Laid(sc) /\ Filled(sc) /\ Len(sc.list) = lev[k - 1]
              /\ \A l \in 1 .. Len(sc.list) : sc.list[l] = curr.list[l]
  BY <1>1, <1>2, <1>3, <1>4, <1>6, Tops
<1>8. PICK b : b = lev[k - 1] OBVIOUS
<1>9. b \in Nat /\ z = b + 1 /\ b >= 1
  <2>1. k - 1 \in 1 .. k BY <1>5, <1>7
  <2>2. b \in Nat BY <1>5, <1>7, <1>8, <2>1
  <2> QED BY <1>5, <1>6, <1>7, <1>8, <2>2
<1>10. \A sc \in {f.head, f.exit} :
         /\ Laid(sc) /\ Filled(sc) /\ Len(sc.list) = b
         /\ \A l \in 1 .. b : sc.list[l] = curr.list[l]
  BY <1>6, <1>7, <1>8
<1>11. k \in DOMAIN frames BY <1>5
<1>12. LoopOK(f) /\ Pending(f) /\ (on => OnSide(f)) BY <1>1, <1>5, <1>6, <1>11 DEF Loops, Meanings, Run
<1>13. \A j \in 1 .. k - 1 : (f.was => OnSide(frames[j]))
  <2> TAKE j \in 1 .. k - 1
  <2>1. j \in DOMAIN frames /\ j < k BY <1>5
  <2>2. f.fn \in Branch \cup {"body"} BY <1>5
  <2> QED BY <1>1, <1>5, <1>11, <2>1, <2>2 DEF Run
<1>14. k \in Nat /\ f \in LoopFrame /\ b \in Nat BY <1>5, <1>6, <1>9
<1>15. /\ k = Len(frames) /\ k >= 2 /\ DOMAIN frames = 1 .. k /\ f = frames[k] /\ f = Last(frames)
       /\ f.fn = "body" /\ LoopOK(f)
  BY <1>2, <1>3, <1>5, <1>6, <1>7, <1>12
<1>16. /\ Levels(lev) /\ b = lev[k - 1] /\ b >= 1 /\ Len(curr.list) = b + 1 /\ Len(env) = b + 1
       /\ Laid(curr) /\ Filled(curr)
  BY <1>4, <1>5, <1>7, <1>8, <1>9
<1>17. InLoop(k, f, lev, b) BY <1>10, <1>12, <1>13, <1>15, <1>16 DEF InLoop
<1> QED BY <1>14, <1>17

(* The end of a loop, the Asserts left out.                                *)
LEMMA EndWhileParts ==
  ASSUME EndWhile, NEW f, f = Last(frames), NEW end, end = EndLoop(f.head, PopScope(curr), f.exit),
         nodes[Ctrl(f.head)].kind = "loop", nodes[Ctrl(f.head)].args[2] = Null, end.ok = TRUE
  PROVE  /\ frames' = Front(frames) /\ on' = (f.was /\ ~ f.go)
         /\ curr' = end.exit /\ fault' = fault
         /\ nodes' = end.nodes /\ table' = end.table /\ val' = end.val
         /\ env' = After(f.at) /\ next' = next /\ read' = read
<1>1. /\ frames' = Front(frames) /\ on' = (f.was /\ ~ f.go)
      /\ curr' = end.exit
      /\ (IF nodes[Ctrl(f.head)].kind # "loop" \/ nodes[Ctrl(f.head)].args[2] # Null
          THEN fault' = "not_in_progress" /\ UNCHANGED <<nodes, table, val>>
          ELSE /\ fault' = IF end.ok THEN fault ELSE "not_a_phi"
               /\ nodes' = end.nodes
               /\ table' = end.table
               /\ val' = end.val)
      /\ env' = [l \in DOMAIN f.at |-> [x \in DOMAIN f.at[l] |-> val'[f.at[l][x]]]]
      /\ UNCHANGED <<next, read>>
  BY Zenon DEF EndWhile
<1>2. env' = After(f.at) BY <1>1, Zenon DEF After
<1> QED BY <1>1, <1>2

(* What the loop that ends finds: its phis, and a scope at the end of its   *)
(* block with a node for each.                                             *)
Closable(loop, z, head, back, out) ==
  /\ LoopHere(loop, z) /\ z >= 1 /\ head \in Scope /\ back \in Scope /\ out \in Scope
  /\ Len(head.slots) = z /\ Len(back.slots) = z /\ Len(out.slots) = z
  /\ Ctrl(head) = loop /\ Ctrl(out) \in {Live, Dead, loop}
  /\ \A s \in 2 .. z : /\ back.slots[s] \in Valued /\ val[loop + s - 1] = loop + s - 1
                       /\ head.slots[s] = loop + s - 1 /\ out.slots[s] = loop + s - 1

LEMMA LoopReady ==
  ASSUME IInv, NEW k \in Nat, NEW f \in LoopFrame, NEW lev \in [DOMAIN frames -> Nat], NEW b \in Nat,
         InLoop(k, f, lev, b), NEW loop, loop = Ctrl(f.head), NEW z, z = Len(f.head.slots)
  PROVE  Closable(loop, z, f.head, PopScope(curr), f.exit)
<1>1. Graph /\ Values BY DEF IInv
<1>2. PICK head : head = f.head OBVIOUS
<1>3. PICK out : out = f.exit OBVIOUS
<1>4. PICK back : back = PopScope(curr) OBVIOUS
<1>5. /\ k \in DOMAIN frames /\ f = frames[k] /\ f.fn = "body"
      /\ Laid(head) /\ Laid(out) /\ Filled(head) /\ Len(head.list) = b
      /\ \A l \in 1 .. b : head.list[l] = curr.list[l]
      /\ Laid(curr) /\ Filled(curr) /\ Len(curr.list) = b + 1 /\ b >= 1
  BY <1>2, <1>3 DEF InLoop
<1>6. /\ loop \in Made /\ nodes[loop].kind = "loop" /\ nodes[loop].args[2] = Null
      /\ Len(out.slots) = z
      /\ Ctrl(out) \in {Live, Dead, loop}
      /\ \A s \in 2 .. z :
           /\ head.slots[s] = loop + s - 1 /\ out.slots[s] = loop + s - 1
           /\ IsPhiOf(nodes, loop + s - 1, loop) /\ val[loop + s - 1] = loop + s - 1
      /\ \A n \in Node : IsPhiOf(nodes, n, loop) => n \in loop + 1 .. loop + z - 1
  <2>1. LoopOK(f) BY DEF InLoop
  <2> QED BY <1>2, <1>3, <2>1, Zenon DEF LoopOK
<1>7. z \in Nat /\ z >= 1 /\ head \in Scope /\ out \in Scope BY <1>2, <1>5, LaidParts
<1>8. LoopHere(loop, z)
  <2>1. loop \in Node /\ loop \in Nat
    <3>1. next \in Nat /\ Made \subseteq Node BY <1>1, NodesWhole
    <3> QED BY <1>6, <3>1 DEF Made
  <2>2. loop \in OpenLoops BY <1>5 DEF OpenLoops
  <2>3. \A s \in 2 .. z : loop + s - 1 \in Valued
    <3>1. \A n \in Node : nodes[n].kind = "phi" => n \in Valued BY <1>1, NodesWhole
    <3> QED BY <1>6, <3>1 DEF IsPhiOf
  <2> QED BY <1>6, <1>7, <2>1, <2>2, <2>3 DEF LoopHere
<1>9. /\ Laid(back) /\ Filled(back) /\ Len(back.list) = b /\ \A l \in 1 .. b : back.list[l] = head.list[l]
  <2>1. PICK sc : sc = curr OBVIOUS
  <2>2. Laid(sc) /\ Filled(sc) /\ Len(sc.list) >= 2 /\ back = PopScope(sc) /\ Len(sc.list) = b + 1
    BY <1>4, <1>5, <2>1
  <2>3. /\ Laid(back) /\ Len(back.list) = Len(sc.list) - 1
        /\ \A l \in 1 .. Len(sc.list) - 1 : back.list[l] = sc.list[l]
    BY <2>2, Popped
  <2>4. Filled(back) BY <2>2, FilledPop
  <2>5. Len(sc.list) - 1 = b BY <2>2
  <2>6. Len(back.list) = b /\ \A l \in 1 .. b : back.list[l] = sc.list[l] BY <2>3, <2>5
  <2> QED BY <1>5, <2>1, <2>3, <2>4, <2>6
<1>10. head.list = back.list BY <1>5, <1>9, SameBlocksThere
<1>11. Len(back.slots) = z
  <2>1. Len(head.slots) = Len(back.slots) BY <1>5, <1>9, <1>10, SameSlots
  <2> QED BY <1>2, <2>1
<1>12. back \in Scope /\ \A s \in 2 .. z : back.slots[s] \in Valued
  BY <1>9, <1>11, LaidParts DEF Filled
<1>13. \A s \in 2 .. z : /\ back.slots[s] \in Valued /\ val[loop + s - 1] = loop + s - 1
                         /\ head.slots[s] = loop + s - 1 /\ out.slots[s] = loop + s - 1
  BY <1>6, <1>12
<1>14. Len(head.slots) = z /\ Ctrl(head) = loop BY <1>2
<1>15. Closable(loop, z, head, back, out)
  BY <1>6, <1>7, <1>8, <1>11, <1>12, <1>13, <1>14, Zenon DEF Closable
<1> QED BY <1>2, <1>3, <1>4, <1>15

LEMMA OneLoopLess ==
  ASSUME Loops, frames \in Seq(Frame), NEW k \in Nat, k >= 2, k = Len(frames), frames[k].fn = "body",
         NEW loop \in Nat, loop = Ctrl(frames[k].head), frames' = Front(frames)
  PROVE  OpenLoops' = OpenLoops \ {loop}
<1>1. /\ DOMAIN frames = 1 .. k /\ Len(frames') = k - 1 /\ DOMAIN frames' = 1 .. k - 1
      /\ \A i \in 1 .. k - 1 : frames'[i] = frames[i]
  BY DEF Front
<1>2. \A i \in 1 .. k - 1 : frames[i].fn = "body" => Ctrl(frames[i].head) # loop
  <2> SUFFICES ASSUME NEW i \in 1 .. k - 1, frames[i].fn = "body" PROVE Ctrl(frames[i].head) # loop
    OBVIOUS
  <2>1. i \in DOMAIN frames /\ k \in DOMAIN frames /\ i < k BY <1>1
  <2>2. Ctrl(frames[i].head) < loop BY <2>1 DEF Loops
  <2>3. PICK h : h = Ctrl(frames[i].head) OBVIOUS
  <2>4. h < loop BY <2>2, <2>3
  <2>5. h # loop BY <2>4
  <2> QED BY <2>3, <2>5
<1>3. \A i \in 1 .. k : i \in 1 .. k - 1 \/ i = k OBVIOUS
<1>4. \A c : c \in OpenLoops <=> \E i \in 1 .. k : frames[i].fn = "body" /\ c = Ctrl(frames[i].head)
  BY <1>1 DEF OpenLoops
<1>5. \A c : c \in OpenLoops' <=> \E i \in 1 .. k - 1 : frames[i].fn = "body" /\ c = Ctrl(frames[i].head)
  BY <1>1 DEF OpenLoops, Ctrl
<1>6. \A i \in 1 .. k - 1 : i \in 1 .. k OBVIOUS
<1>7. \A c : c \in OpenLoops' <=> c \in OpenLoops /\ c # loop
  BY <1>2, <1>3, <1>4, <1>5, <1>6
<1> QED BY <1>7

(* Past the loop, the scope of its exit means what the variables do.        *)
Passed(ex, sd, at, loop) ==
  /\ \A s \in 2 .. Len(ex.slots) : /\ ex.slots[s] = loop + s - 1 /\ val[loop + s - 1] = loop + s - 1
                                    /\ val'[sd.slots[s]] = val'[loop + s - 1]
  /\ DOMAIN at = DOMAIN ex.list
  /\ \A l \in DOMAIN at : /\ at[l] = env[l] /\ DOMAIN env'[l] = DOMAIN at[l]
                           /\ \A x \in DOMAIN at[l] : env'[l][x] = val'[at[l][x]]
  /\ sd.list = ex.list

LEMMA ExitMeans ==
  ASSUME NEW ex, Laid(ex), Means(ex), NEW sd, NEW at, NEW loop, Passed(ex, sd, at, loop)
  PROVE  Means(sd)'
<1> DEFINE z == Len(ex.slots)
<1>0. /\ \A s \in 2 .. z : /\ ex.slots[s] = loop + s - 1 /\ val[loop + s - 1] = loop + s - 1
                            /\ val'[sd.slots[s]] = val'[loop + s - 1]
      /\ DOMAIN at = DOMAIN ex.list
      /\ \A l \in DOMAIN at : /\ at[l] = env[l] /\ DOMAIN env'[l] = DOMAIN at[l]
                               /\ \A x \in DOMAIN at[l] : env'[l][x] = val'[at[l][x]]
      /\ sd.list = ex.list
  BY DEF Passed
<1>1. \A l \in DOMAIN ex.list :
        DOMAIN env'[l] = {x \in Name : \E i \in DOMAIN ex.list[l].cells : ex.list[l].cells[i].name = x}
  <2>1. Fits(ex.list) BY Zenon DEF Means, Fits
  <2>2. \A l \in DOMAIN ex.list : DOMAIN env'[l] = DOMAIN env[l] BY <1>0
  <2> QED BY <2>1, <2>2 DEF Fits
<1>2. \A l \in DOMAIN ex.list : \A i \in DOMAIN ex.list[l].cells :
       ex.list[l].cells[i].name # "@ctrl" =>
         val'[sd.slots[ex.list[l].cells[i].slot]] = env'[l][ex.list[l].cells[i].name]
  <2> SUFFICES ASSUME NEW l \in DOMAIN ex.list, NEW i \in DOMAIN ex.list[l].cells,
                      ex.list[l].cells[i].name # "@ctrl"
               PROVE  val'[sd.slots[ex.list[l].cells[i].slot]] = env'[l][ex.list[l].cells[i].name]
    BY Zenon
  <2>1. PICK x : x = ex.list[l].cells[i].name OBVIOUS
  <2>2. PICK s : s = ex.list[l].cells[i].slot OBVIOUS
  <2>3. val[ex.slots[s]] = env[l][x] BY <2>1, <2>2, Zenon DEF Means
  <2>4. s \in 2 .. z BY <2>2, CellSlots
  <2>5. env[l][x] = loop + s - 1 BY <1>0, <2>3, <2>4
  <2>6. x \in DOMAIN env[l]
    <3>1. x \in Name
      <4>1. ex \in Scope BY LaidParts
      <4>2. ex.list[l].cells[i] \in Cell BY <4>1, ScopeParts
      <4> QED BY <2>1, <4>2 DEF Cell
    <3>2. DOMAIN env'[l] = DOMAIN env[l] BY <1>0
    <3> QED BY <1>1, <2>1, <3>1, <3>2
  <2>7. env'[l][x] = val'[env[l][x]] BY <1>0, <2>6
  <2>8. val'[sd.slots[s]] = val'[loop + s - 1] BY <1>0, <2>4
  <2> QED BY <2>1, <2>2, <2>5, <2>7, <2>8, Zenon
<1>3. \A l \in DOMAIN sd.list :
        DOMAIN env'[l] = {x \in Name : \E i \in DOMAIN sd.list[l].cells : sd.list[l].cells[i].name = x}
  <2>1. sd.list = ex.list BY <1>0
  <2> QED BY <1>1, <2>1, SMT
<1>4. \A l \in DOMAIN sd.list : \A i \in DOMAIN sd.list[l].cells :
       sd.list[l].cells[i].name # "@ctrl" =>
         val'[sd.slots[sd.list[l].cells[i].slot]] = env'[l][sd.list[l].cells[i].name]
  <2> SUFFICES ASSUME NEW l \in DOMAIN sd.list, NEW i \in DOMAIN sd.list[l].cells,
                      sd.list[l].cells[i].name # "@ctrl"
               PROVE  val'[sd.slots[sd.list[l].cells[i].slot]] = env'[l][sd.list[l].cells[i].name]
    BY Zenon
  <2>1. sd.list = ex.list BY <1>0
  <2>2. l \in DOMAIN ex.list /\ i \in DOMAIN ex.list[l].cells /\ ex.list[l].cells[i] = sd.list[l].cells[i]
    BY <2>1
  <2>3. PICK x : x = ex.list[l].cells[i].name OBVIOUS
  <2>4. PICK s : s = ex.list[l].cells[i].slot BY SMTT(30)
  <2>5. val'[sd.slots[s]] = env'[l][x] BY <1>2, <2>2, <2>3, <2>4, Zenon
  <2>6. x = sd.list[l].cells[i].name /\ s = sd.list[l].cells[i].slot BY <2>2, <2>3, <2>4
  <2> QED BY <2>5, <2>6, Zenon
<1> QED BY <1>3, <1>4, Zenon DEF Means

LEMMA EndWhileStep ==
  ASSUME IInv, EndWhile
  PROVE  IInv'
<1>1. Top({"body"}) BY DEF EndWhile
<1>2. PICK k \in Nat, f \in LoopFrame, lev \in [DOMAIN frames -> Nat], b \in Nat : InLoop(k, f, lev, b)
  BY <1>1, LoopTop
<1>3. PICK loop : loop = Ctrl(f.head) OBVIOUS
<1>4. PICK z : z = Len(f.head.slots) OBVIOUS
<1>5. PICK end : end = EndLoop(f.head, PopScope(curr), f.exit) OBVIOUS
<1>6. PICK out : out = f.exit OBVIOUS
<1>7. PICK m : m = k - 1 OBVIOUS
<1>8. Graph /\ Values /\ Blocks0 /\ Loops /\ Run /\ Meanings BY DEF IInv
<1>9. /\ k = Len(frames) /\ k >= 2 /\ DOMAIN frames = 1 .. k /\ f = frames[k] /\ f = Last(frames)
      /\ f.fn = "body" /\ LoopOK(f)
      /\ Levels(lev) /\ b = lev[k - 1] /\ b >= 1 /\ Len(curr.list) = b + 1 /\ Len(env) = b + 1
      /\ Pending(f)
      /\ \A j \in 1 .. k - 1 : (f.was => OnSide(frames[j]))
  BY <1>2 DEF InLoop
<1>10. Laid(out) /\ Filled(out) /\ Len(out.list) = b /\ \A l \in 1 .. b : out.list[l] = curr.list[l]
  BY <1>2, <1>6 DEF InLoop
<1>11. LoopHere(loop, z) /\ Closed(end, z, loop, z, out)
  <2>1. PICK head : head = f.head OBVIOUS
  <2>2. PICK back : back = PopScope(curr) OBVIOUS
  <2>3. Closable(loop, z, head, back, out) BY <1>2, <1>3, <1>4, <1>6, <2>1, <2>2, LoopReady
  <2>4. end = EndLoop(head, back, out) BY <1>5, <1>6, <2>1, <2>2
  <2> QED BY <1>8, <2>3, <2>4, LoopCloses DEF Closable
<1>12. /\ nodes[loop].args[2] = Null /\ Len(out.slots) = z
       /\ \A s \in 2 .. z : out.slots[s] = loop + s - 1 /\ val[loop + s - 1] = loop + s - 1
       /\ Len(f.at) = b
       /\ \A l \in DOMAIN f.at : \A x \in DOMAIN f.at[l] : f.at[l][x] \in Valued
       /\ ~ (f.was /\ f.go) => \A l \in DOMAIN f.at : f.at[l] = env[l]
       /\ ~ f.was => \A l \in DOMAIN f.at : \A x \in DOMAIN f.at[l] : f.at[l][x] < loop
  <2>1. Len(f.head.list) = b BY <1>2 DEF InLoop
  <2> QED BY <1>3, <1>4, <1>6, <1>9, <2>1, Zenon DEF LoopOK
<1>13. z \in Nat /\ loop \in Nat /\ nodes[loop].kind = "loop" BY <1>11 DEF LoopHere
<1>14. /\ end.ok = TRUE
       /\ NodesClosed(end.nodes, z, loop) /\ ValuesClosed(end.val, z, loop, z) /\ TableTyped(end.table)
       /\ ScopesClosed(end.head, end.back, end.exit, end.val, z, loop, z, out)
  BY <1>11 DEF Closed
<1>15. /\ frames' = Front(frames) /\ on' = (f.was /\ ~ f.go)
       /\ curr' = end.exit /\ fault' = fault
       /\ nodes' = end.nodes /\ table' = end.table /\ val' = end.val
       /\ env' = After(f.at) /\ next' = next /\ read' = read
  <2>1. nodes[Ctrl(f.head)].kind = "loop" /\ nodes[Ctrl(f.head)].args[2] = Null BY <1>3, <1>12, <1>13
  <2> QED BY <1>5, <1>9, <1>14, <2>1, EndWhileParts, ZenonT(40)
<1>16. Shut(loop, z) BY <1>11, <1>14, <1>15 DEF Shut
<1>17. /\ m \in Nat /\ m >= 1 /\ m <= k /\ k = m + 1 /\ lev[m] = b /\ m # m + 1
  BY <1>7, <1>9
<1>18. frames \in Seq(Frame) BY <1>8 DEF Blocks0
<1>19. Stay(m) /\ Len(frames') = m BY <1>7, <1>9, <1>15, <1>18, StayPop
<1>20. OpenLoops' = OpenLoops \ {loop} BY <1>3, <1>8, <1>9, <1>13, <1>15, <1>18, OneLoopLess
<1>21. Graph' /\ ValOK' BY <1>8, <1>16, <1>20, ShutMakes
<1>22. f.at \in Seq(Env) /\ f.was \in BOOLEAN /\ f.go \in BOOLEAN BY DEF LoopFrame
<1>23. /\ EnvOK' /\ Len(env') = b
       /\ \A l \in DOMAIN f.at : /\ DOMAIN env'[l] = DOMAIN f.at[l]
                                 /\ \A x \in DOMAIN f.at[l] : env'[l][x] = val'[f.at[l][x]]
  BY <1>8, <1>12, <1>15, <1>16, <1>22, ShutEnv
<1>24. DOMAIN f.at = 1 .. b BY <1>12, <1>22, LenProperties
<1>25. Values' BY <1>21, <1>23 DEF ValOK, EnvOK, Values
<1>26. Rest' BY <1>15, <1>22 DEF IInv, Rest
<1>27. PICK sd : sd = curr' OBVIOUS
<1>28. /\ sd \in Scope /\ Len(sd.slots) = z /\ sd.list = out.list /\ Ctrl(sd) = Ctrl(out)
       /\ \A s \in 2 .. z : sd.slots[s] \in Valued /\ val'[sd.slots[s]] = val'[loop + s - 1]
  BY <1>14, <1>15, <1>27 DEF ScopesClosed
<1>29. Laid(sd) BY <1>10, <1>12, <1>28, SameShape
<1>30. Filled(sd)'
  <2>1. Filled(sd) BY <1>10, <1>28 DEF Filled, Ctrl
  <2> QED BY <1>8, <1>16, <2>1, ShutFilled
<1>31. Unseen(f.was, m, lev[m], loop)
  <2>1. f.was => \A i \in 1 .. m : OnSide(frames[i]) BY <1>7, <1>9
  <2>2. ASSUME ~ f.was
        PROVE  \A l \in DOMAIN f.at : /\ env'[l] = env[l]
                                      /\ \A x \in DOMAIN env[l] : env[l][x] \in Nat /\ env[l][x] < loop
    <3>1. Len(f.at) <= Len(env) BY <1>9, <1>12
    <3>2. \A l \in DOMAIN f.at : f.at[l] = env[l] BY <1>12, <2>2
    <3>3. \A l \in DOMAIN f.at : \A x \in DOMAIN f.at[l] : f.at[l][x] < loop BY <1>12, <2>2
    <3> QED BY <1>8, <1>15, <1>16, <1>22, <3>1, <3>2, <3>3, ShutUnseen
  <2> QED BY <1>17, <1>24, <2>1, <2>2 DEF Unseen
<1>32. on' => Means(sd)' /\ Ctrl(sd) # Dead
  <2> SUFFICES ASSUME on' PROVE Means(sd)' /\ Ctrl(sd) # Dead OBVIOUS
  <2>1. f.was /\ ~ f.go BY <1>15
  <2>2. Means(out) /\ Ctrl(out) # Dead BY <1>6, <1>9, <2>1 DEF Pending
  <2>3. \A l \in DOMAIN f.at : f.at[l] = env[l] BY <1>12, <2>1
  <2>4. PICK at : at = f.at OBVIOUS
  <2>5. DOMAIN at = DOMAIN out.list
    <3>1. DOMAIN out.list = 1 .. b BY <1>10, LaidParts
    <3> QED BY <1>24, <2>4, <3>1
  <2>6. /\ \A l \in DOMAIN at : at[l] = env[l]
        /\ \A l \in DOMAIN at : /\ DOMAIN env'[l] = DOMAIN at[l]
                                /\ \A x \in DOMAIN at[l] : env'[l][x] = val'[at[l][x]]
    BY <1>23, <2>3, <2>4
  <2>7. \A s \in 2 .. z : val'[sd.slots[s]] = val'[loop + s - 1] BY <1>28
  <2>8. Passed(out, sd, at, loop) BY <1>12, <1>28, <2>5, <2>6, <2>7 DEF Passed
  <2>9. Laid(out) /\ Means(out) BY <1>10, <2>2
  <2>10. Means(sd)' BY <2>8, <2>9, ExitMeans
  <2> QED BY <1>28, <2>2, <2>10
<1>33. Laid(curr') /\ Filled(curr)' /\ (on' => Means(curr)' /\ Ctrl(curr') # Dead)
  <2>1. Laid(curr') /\ Filled(curr)' BY <1>27, <1>29, <1>30 DEF Filled
  <2>2. on' => Means(curr)' /\ Ctrl(curr') # Dead
    <3> SUFFICES ASSUME on' PROVE Means(curr)' /\ Ctrl(curr') # Dead OBVIOUS
    <3>1. Means(sd)' /\ Ctrl(sd) # Dead BY <1>32
    <3> QED BY <1>27, <3>1
  <2> QED BY <2>1, <2>2
<1>34. Len(curr'.list) = b /\ \A l \in 1 .. b : curr'.list[l] = curr.list[l] BY <1>10, <1>27, <1>28
<1>35. Blocks0'
  <2>1. \A sc : Filled(sc) => Filled(sc)' BY <1>8, <1>16, ShutFilled
  <2>2. \A i \in 2 .. m : \A l \in 1 .. lev[i - 1] : curr'.list[l] = curr.list[l]
    <3> SUFFICES ASSUME NEW i \in 2 .. m, NEW l \in 1 .. lev[i - 1] PROVE curr'.list[l] = curr.list[l]
      OBVIOUS
    <3>1. i - 1 \in 1 .. k /\ m \in 1 .. k /\ i - 1 <= m BY <1>17
    <3>2. lev[i - 1] <= lev[m] /\ lev[i - 1] \in Nat BY <1>9, <3>1 DEF Levels
    <3>3. l \in 1 .. b BY <1>17, <3>2
    <3> QED BY <1>34, <3>3
  <2>3. Len(env') = Len(curr'.list) /\ Len(curr'.list) = lev[m] BY <1>17, <1>23, <1>34
  <2> QED BY <1>8, <1>9, <1>17, <1>19, <1>33, <2>1, <2>2, <2>3, BlocksStep
<1>36. Loops' BY <1>3, <1>8, <1>9, <1>16, <1>17, <1>19, <1>31, LoopsShut
<1>37. Run'
  <2>1. on' => \A i \in 1 .. m : OnSide(frames[i]) BY <1>7, <1>9, <1>15
  <2> QED BY <1>8, <1>9, <1>17, <1>19, <2>1, RunStep
<1>38. Meanings' BY <1>8, <1>9, <1>16, <1>17, <1>19, <1>31, <1>33, MeaningsShut
<1> QED BY <1>21, <1>25, <1>26, <1>35, <1>36, <1>37, <1>38 DEF IInv

(* The scope a function starts with: its control, and its parameters.       *)
FirstCells == <<[name |-> "@ctrl", slot |-> 1]>> \o [i \in DOMAIN Arg |-> [name |-> Arg[i], slot |-> i + 1]]
FirstSlots == <<Live>> \o [i \in 1 .. Len(Arg) |-> i]
FirstScope == [slots |-> FirstSlots, list |-> <<[inputlen |-> 0, cells |-> FirstCells]>>]
FirstEnv   == [x \in ToSet(Arg) |-> CHOOSE i \in DOMAIN Arg : Arg[i] = x]

LEMMA Params ==
  /\ Len(Arg) \in Nat /\ DOMAIN Arg = 1 .. Len(Arg) /\ Len(Arg) <= MaxNode /\ MaxNode \in Nat
  /\ \A i \in 1 .. Len(Arg) : Arg[i] \in Name /\ Arg[i] # "@ctrl" /\ i \in Node
  /\ \A i, j \in 1 .. Len(Arg) : Arg[i] = Arg[j] => i = j
<1>1. Arg \in Seq(Name) /\ Len(Arg) <= MaxNode /\ MaxNode \in Nat BY ScopeAssumption
<1>2. Len(Arg) \in Nat /\ DOMAIN Arg = 1 .. Len(Arg) BY <1>1, LenProperties
<1>3. \A i \in 1 .. Len(Arg) : Arg[i] \in Name BY <1>1, <1>2
<1>4. \A i \in 1 .. Len(Arg) : Arg[i] # "@ctrl" BY <1>3, ScopeAssumption
<1>5. \A i \in 1 .. Len(Arg) : i \in Node BY <1>1, <1>2 DEF Node
<1> QED BY <1>1, <1>2, <1>3, <1>4, <1>5, ScopeAssumption

LEMMA FirstIs ==
  /\ FirstCells \in Seq(Cell) /\ Len(FirstCells) = Len(Arg) + 1
  /\ FirstCells[1] = [name |-> "@ctrl", slot |-> 1]
  /\ \A i \in 1 .. Len(Arg) : FirstCells[i + 1] = [name |-> Arg[i], slot |-> i + 1]
  /\ FirstSlots \in Slots /\ Len(FirstSlots) = Len(Arg) + 1
  /\ FirstSlots[1] = Live
  /\ \A i \in 1 .. Len(Arg) : FirstSlots[i + 1] = i
<1> DEFINE c == [i \in DOMAIN Arg |-> [name |-> Arg[i], slot |-> i + 1]]
           a == [name |-> "@ctrl", slot |-> 1]
           s == [i \in 1 .. Len(Arg) |-> i]
           V == Node \cup {Null, Live, Dead}
<1>1. a \in Cell BY DEF Cell
<1>2. \A i \in 1 .. Len(Arg) : [name |-> Arg[i], slot |-> i + 1] \in Cell BY Params DEF Cell
<1>3. c \in Seq(Cell) /\ Len(c) = Len(Arg) /\ \A i \in 1 .. Len(Arg) : c[i] = [name |-> Arg[i], slot |-> i + 1]
  <2>1. c \in [1 .. Len(Arg) -> Cell] BY <1>2, Params
  <2>2. c \in Seq(Cell) BY <2>1, Params, IsASeq
  <2> QED BY <2>1, <2>2, Params, LenProperties
<1>4. s \in Seq(V) /\ Len(s) = Len(Arg) /\ \A i \in 1 .. Len(Arg) : s[i] = i
  <2>1. s \in [1 .. Len(Arg) -> V] BY Params
  <2>2. s \in Seq(V) BY <2>1, Params, IsASeq
  <2> QED BY <2>1, <2>2, Params, LenProperties
<1> HIDE DEF a, c, s
<1>5. <<a>> \in Seq(Cell) /\ Len(<<a>>) = 1 /\ <<a>>[1] = a BY <1>1
<1>6. <<Live>> \in Seq(V) /\ Len(<<Live>>) = 1 /\ <<Live>>[1] = Live OBVIOUS
<1> HIDE DEF V
<1>7. /\ <<a>> \o c \in Seq(Cell) /\ Len(<<a>> \o c) = 1 + Len(c)
      /\ \A i \in 1 .. 1 + Len(c) : (<<a>> \o c)[i] = IF i <= 1 THEN <<a>>[i] ELSE c[i - 1]
  BY <1>3, <1>5, ConcatProperties
<1>8. /\ <<Live>> \o s \in Seq(V) /\ Len(<<Live>> \o s) = 1 + Len(s)
      /\ \A i \in 1 .. 1 + Len(s) : (<<Live>> \o s)[i] = IF i <= 1 THEN <<Live>>[i] ELSE s[i - 1]
  BY <1>4, <1>6, ConcatProperties
<1>9. FirstCells = <<a>> \o c BY DEF FirstCells, a, c
<1>10. FirstSlots = <<Live>> \o s BY DEF FirstSlots, s
<1>11. \A i \in 1 .. Len(Arg) : i + 1 \in 1 .. 1 + Len(Arg) /\ ~ (i + 1 <= 1) /\ (i + 1) - 1 = i BY Params
<1>12. 1 \in 1 .. 1 + Len(Arg) /\ 1 + Len(Arg) = Len(Arg) + 1 BY Params
<1>13. FirstCells[1] = a /\ \A i \in 1 .. Len(Arg) : FirstCells[i + 1] = c[i]
  BY <1>3, <1>5, <1>7, <1>9, <1>11, <1>12
<1>14. FirstSlots[1] = Live /\ \A i \in 1 .. Len(Arg) : FirstSlots[i + 1] = s[i]
  BY <1>4, <1>6, <1>8, <1>10, <1>11, <1>12
<1>15. FirstCells \in Seq(Cell) /\ Len(FirstCells) = Len(Arg) + 1 BY <1>3, <1>7, <1>9, <1>12
<1>16. FirstSlots \in Slots /\ Len(FirstSlots) = Len(Arg) + 1 BY <1>4, <1>8, <1>10, <1>12 DEF V, Slots
<1> QED BY <1>3, <1>4, <1>13, <1>14, <1>15, <1>16 DEF a

LEMMA FirstLaid ==
  Laid(FirstScope) /\ Len(FirstScope.list) = 1 /\ FirstScope.slots = FirstSlots
  /\ FirstScope.list[1] = [inputlen |-> 0, cells |-> FirstCells]
<1> DEFINE sc == FirstScope
           d == [inputlen |-> 0, cells |-> FirstCells]
<1>1. d \in Data BY FirstIs DEF Data
<1> HIDE DEF d
<1>2. sc.list = <<d>> /\ sc.slots = FirstSlots BY DEF FirstScope, d
<1>3. <<d>> \in Seq(Data) /\ Len(<<d>>) = 1 /\ DOMAIN <<d>> = 1 .. 1 /\ <<d>>[1] = d BY <1>1
<1>4. sc \in Scope
  <2>1. <<d>> \in Seq(Data) /\ FirstSlots \in Slots BY <1>3, FirstIs
  <2> QED BY <2>1 DEF FirstScope, Scope, d
<1>5. DOMAIN sc.list = 1 .. 1 /\ Len(sc.list) = 1 /\ sc.list[1] = d BY <1>2, <1>3
<1>6. d.inputlen = 0 /\ d.cells = FirstCells BY DEF d
<1>7. DOMAIN FirstCells = 1 .. Len(Arg) + 1 /\ Len(FirstCells) = Len(Arg) + 1 /\ Len(Arg) \in Nat
  BY FirstIs, Params, LenProperties
<1>8. \A i \in 1 .. Len(Arg) + 1 : i = 1 \/ (i - 1 \in 1 .. Len(Arg) /\ i = (i - 1) + 1) BY <1>7
<1>9. /\ FirstCells[1].name = "@ctrl" /\ FirstCells[1].slot = 1
      /\ \A i \in 1 .. Len(Arg) : FirstCells[i + 1].name = Arg[i] /\ FirstCells[i + 1].slot = i + 1
  <2>1. FirstCells[1] = [name |-> "@ctrl", slot |-> 1] BY FirstIs
  <2>2. \A i \in 1 .. Len(Arg) : FirstCells[i + 1] = [name |-> Arg[i], slot |-> i + 1] BY FirstIs
  <2>3. FirstCells[1].name = "@ctrl" /\ FirstCells[1].slot = 1 BY <2>1
  <2>4. ASSUME NEW i \in 1 .. Len(Arg)
        PROVE  FirstCells[i + 1].name = Arg[i] /\ FirstCells[i + 1].slot = i + 1
    <3>1. PICK j : j = i + 1 OBVIOUS
    <3>2. PICK a : a = Arg[i] OBVIOUS
    <3>3. PICK cell : cell = FirstCells[j] OBVIOUS
    <3>4. cell = [name |-> a, slot |-> j] BY <2>2, <3>1, <3>2, <3>3
    <3>5. cell.name = a /\ cell.slot = j BY <3>4
    <3> QED BY <3>1, <3>2, <3>3, <3>5
  <2> QED BY <2>3, <2>4
<1>10. \A i \in 1 .. Len(Arg) + 1 : FirstCells[i].slot = i BY <1>8, <1>9
<1>11. \A i \in 1 .. Len(Arg) + 1 : FirstCells[i].name = "@ctrl" <=> i = 1
  <2> TAKE i \in 1 .. Len(Arg) + 1
  <2>1. CASE i = 1 BY <1>9, <2>1
  <2>2. CASE i # 1
    <3>1. PICK j \in 1 .. Len(Arg) : i = j + 1 BY <1>8, <2>2
    <3>2. FirstCells[i].name = Arg[j] BY <1>9, <3>1
    <3>3. Arg[j] # "@ctrl" BY Params
    <3> QED BY <2>2, <3>2, <3>3
  <2> QED BY <2>1, <2>2
<1>12. \A i, j \in 1 .. Len(Arg) + 1 : FirstCells[i].name = FirstCells[j].name => i = j
  <2> SUFFICES ASSUME NEW i \in 1 .. Len(Arg) + 1, NEW j \in 1 .. Len(Arg) + 1,
                      FirstCells[i].name = FirstCells[j].name
               PROVE  i = j
    OBVIOUS
  <2>1. CASE i = 1 \/ j = 1 BY <1>11, <2>1
  <2>2. CASE i # 1 /\ j # 1
    <3>1. PICK u \in 1 .. Len(Arg) : i = u + 1 BY <1>8, <2>2
    <3>2. PICK v \in 1 .. Len(Arg) : j = v + 1 BY <1>8, <2>2
    <3>3. Arg[u] = Arg[v] BY <1>9, <3>1, <3>2
    <3>4. u = v BY <3>3, Params
    <3> QED BY <3>1, <3>2, <3>4
  <2> QED BY <2>1, <2>2
<1>13. Numbered(sc)
  <2>1. \A l \in DOMAIN sc.list :
          /\ \A i \in DOMAIN sc.list[l].cells : sc.list[l].cells[i].slot = sc.list[l].inputlen + i
          /\ l = Len(sc.list) /\ sc.list[l].inputlen + Len(sc.list[l].cells) = Len(sc.slots)
    <3> TAKE l \in DOMAIN sc.list
    <3>1. l = 1 BY <1>5
    <3>2. sc.list[l] = d BY <1>5, <3>1
    <3>3. \A i \in DOMAIN FirstCells : FirstCells[i].slot = 0 + i BY <1>7, <1>10
    <3>4. 0 + Len(FirstCells) = Len(FirstSlots) BY <1>7, FirstIs
    <3> QED BY <1>2, <1>5, <1>6, <3>1, <3>2, <3>3, <3>4
  <2>2. sc.list # <<>> /\ sc.list[1].inputlen = 0 BY <1>5, <1>6
  <2> QED BY <2>1, <2>2 DEF Numbered
<1>14. \A l \in DOMAIN sc.list : l = 1 /\ sc.list[l].cells = FirstCells BY <1>5, <1>6
<1>15. /\ \A l \in DOMAIN sc.list : \A i, j \in DOMAIN sc.list[l].cells :
            sc.list[l].cells[i].name = sc.list[l].cells[j].name => i = j
       /\ \A l \in DOMAIN sc.list : \A i \in DOMAIN sc.list[l].cells :
            sc.list[l].cells[i].name = "@ctrl" <=> l = 1 /\ i = 1
  BY <1>7, <1>11, <1>12, <1>14
<1>16. Len(sc.list[1].cells) >= 1 BY <1>5, <1>6, <1>7
<1> HIDE DEF sc
<1>17. Laid(sc) BY <1>4, <1>13, <1>15, <1>16 DEF Laid
<1> QED BY <1>2, <1>5, <1>17 DEF sc, d

LEMMA FirstMeaning ==
  /\ FirstEnv \in Env /\ DOMAIN FirstEnv = ToSet(Arg)
  /\ \A x \in ToSet(Arg) : x \in Name
  /\ \A i \in 1 .. Len(Arg) : Arg[i] \in ToSet(Arg) /\ FirstEnv[Arg[i]] = i
  /\ \A x \in ToSet(Arg) : \E i \in 1 .. Len(Arg) : x = Arg[i]
<1>1. ToSet(Arg) = {Arg[i] : i \in 1 .. Len(Arg)} BY Params DEF ToSet
<1>2. \A x \in ToSet(Arg) : \E i \in 1 .. Len(Arg) : x = Arg[i] BY <1>1
<1>3. \A i \in 1 .. Len(Arg) : Arg[i] \in ToSet(Arg) BY <1>1
<1>4. \A x \in ToSet(Arg) : x \in Name BY <1>2, Params
<1>5. ASSUME NEW i \in 1 .. Len(Arg) PROVE FirstEnv[Arg[i]] = i
  <2>1. FirstEnv[Arg[i]] = CHOOSE j \in DOMAIN Arg : Arg[j] = Arg[i] BY <1>3 DEF FirstEnv
  <2>2. DOMAIN Arg = 1 .. Len(Arg) BY Params
  <2>3. \E j \in DOMAIN Arg : Arg[j] = Arg[i] BY <2>2
  <2>4. FirstEnv[Arg[i]] \in DOMAIN Arg /\ Arg[FirstEnv[Arg[i]]] = Arg[i] BY <2>1, <2>3
  <2> QED BY <2>2, <2>4, Params
<1>6. DOMAIN FirstEnv = ToSet(Arg) BY DEF FirstEnv
<1>7. \A x \in ToSet(Arg) : FirstEnv[x] \in Node
  <2> TAKE x \in ToSet(Arg)
  <2>1. PICK i \in 1 .. Len(Arg) : x = Arg[i] BY <1>2
  <2> QED BY <1>5, <2>1, Params
<1>8. FirstEnv = [x \in ToSet(Arg) |-> FirstEnv[x]] BY DEF FirstEnv
<1>9. FirstEnv \in [ToSet(Arg) -> Node] BY <1>7, <1>8
<1>10. ToSet(Arg) \in SUBSET Name BY <1>4
<1>11. FirstEnv \in Env BY <1>9, <1>10 DEF Env
<1> QED BY <1>2, <1>3, <1>4, <1>5, <1>6, <1>11

LEMMA InitParts ==
  ASSUME Init
  PROVE  /\ nodes = [n \in Node |-> IF n <= Len(Arg) THEN Def ELSE Gone]
         /\ next = Len(Arg) + 1 /\ table = {} /\ read = 0 /\ fault = "none" /\ on = TRUE
         /\ curr = PushScope(FirstScope) /\ frames = <<[fn |-> "func"]>>
         /\ val = [n \in Node |-> IF n <= Len(Arg) THEN n ELSE Null]
         /\ env = <<FirstEnv, <<>>>>
BY Zenon DEF Init, FirstScope, FirstSlots, FirstCells, FirstEnv

LEMMA InitInv ==
  ASSUME Init
  PROVE  IInv
<1> DEFINE p == Len(Arg)
<1>1. p \in Nat /\ p <= MaxNode /\ MaxNode \in Nat /\ MaxStmt \in Nat BY Params, ScopeAssumption
<1> HIDE DEF p
<1>2. /\ nodes = [n \in Node |-> IF n <= p THEN Def ELSE Gone]
      /\ next = p + 1 /\ table = {} /\ read = 0 /\ fault = "none" /\ on = TRUE
      /\ curr = PushScope(FirstScope) /\ frames = <<[fn |-> "func"]>>
      /\ val = [n \in Node |-> IF n <= p THEN n ELSE Null]
      /\ env = <<FirstEnv, <<>>>>
  BY InitParts DEF p
<1>3. Made = 1 .. p /\ \A n \in 1 .. p : n \in Node /\ val[n] = n /\ n # Null
  BY <1>1, <1>2 DEF Made, Node, Null
<1>4. Valued = 1 .. p BY <1>3 DEF Valued
<1>5. /\ Def \in Rec /\ Gone \in Rec /\ Def.kind = "def" /\ Gone.kind = "gone"
  BY DEF Def, Gone, Rec, Slots
<1>6. \A n \in Node : nodes[n] = Def \/ nodes[n] = Gone BY <1>2
<1>7. Graph
  <2>1. nodes \in [Node -> Rec] BY <1>2, <1>5
  <2>2. \A n \in Node : n >= next => nodes[n] = Gone BY <1>1, <1>2 DEF Node
  <2>3. \A n \in Node : nodes[n].kind \notin {"region", "loop", "phi"} BY <1>5, <1>6
  <2>4. next \in 1 .. MaxNode + 1 BY <1>1, <1>2
  <2> QED BY <1>2, <2>1, <2>2, <2>3, <2>4 DEF Graph
<1>8. /\ env \in Seq(Env) /\ Len(env) = 2 /\ DOMAIN env = 1 .. 2 /\ env[1] = FirstEnv /\ env[2] = <<>>
  <2>1. FirstEnv \in Env BY FirstMeaning
  <2>2. PICK none \in Env : none = <<>> /\ DOMAIN none = {} BY NoNames
  <2>3. PICK one \in Env : one = FirstEnv BY <2>1
  <2>4. env = <<one, none>> BY <1>2, <2>2, <2>3
  <2> QED BY <2>2, <2>3, <2>4
<1>9. \A l \in DOMAIN env : \A x \in DOMAIN env[l] : env[l][x] \in Valued /\ val[env[l][x]] = env[l][x]
  <2> SUFFICES ASSUME NEW l \in DOMAIN env, NEW x \in DOMAIN env[l]
               PROVE  env[l][x] \in Valued /\ val[env[l][x]] = env[l][x]
    OBVIOUS
  <2>1. l = 1
    <3>1. DOMAIN env[2] = {} BY <1>8, NoNames
    <3>2. l = 1 \/ l = 2 BY <1>8
    <3> QED BY <3>1, <3>2
  <2>2. x \in ToSet(Arg) /\ env[l] = FirstEnv BY <1>8, <2>1, FirstMeaning
  <2>3. PICK i \in 1 .. Len(Arg) : x = Arg[i] BY <2>2, FirstMeaning
  <2>4. env[l][x] = i BY <2>2, <2>3, FirstMeaning
  <2> QED BY <1>3, <1>4, <2>3, <2>4 DEF p
<1>10. Values
  <2>1. val \in [Node -> Node \cup {Null}]
    <3>1. \A n \in Node : (IF n <= p THEN n ELSE Null) \in Node \cup {Null} OBVIOUS
    <3> QED BY <1>2, <3>1
  <2>2. \A n \in Node : n >= next => val[n] = Null BY <1>1, <1>2 DEF Node
  <2>3. \A n \in Valued : val[n] \in Valued /\ val[val[n]] = val[n] BY <1>3, <1>4
  <2> QED BY <1>8, <1>9, <2>1, <2>2, <2>3 DEF Values
<1>11. Rest BY <1>1, <1>2 DEF Rest
<1>12. PICK sc : sc = FirstScope OBVIOUS
<1>13. Laid(sc) /\ Len(sc.list) = 1 /\ sc.slots = FirstSlots /\ sc.list[1] = [inputlen |-> 0, cells |-> FirstCells]
  BY <1>12, FirstLaid
<1>14. /\ Laid(curr) /\ curr.slots = FirstSlots /\ Len(curr.list) = 2
       /\ curr.list[1] = [inputlen |-> 0, cells |-> FirstCells] /\ curr.list[2].cells = <<>>
  <2>1. curr = PushScope(sc) BY <1>2, <1>12
  <2>2. /\ Laid(curr) /\ curr.slots = sc.slots /\ Len(curr.list) = Len(sc.list) + 1
        /\ \A l \in 1 .. Len(sc.list) : curr.list[l] = sc.list[l]
        /\ curr.list[Len(sc.list) + 1].cells = <<>>
    BY <1>13, <2>1, Pushed
  <2>3. 1 \in 1 .. Len(sc.list) BY <1>13
  <2> QED BY <1>13, <2>2, <2>3
<1>15. DOMAIN curr.list = 1 .. 2 /\ \A l \in DOMAIN curr.list : l = 1 \/ l = 2 BY <1>14, LaidParts
<1>16. \A s \in 2 .. Len(FirstSlots) : s - 1 \in 1 .. p /\ FirstSlots[s] = s - 1
  <2> TAKE s \in 2 .. Len(FirstSlots)
  <2>1. Len(FirstSlots) = p + 1 BY FirstIs DEF p
  <2>2. s - 1 \in 1 .. p /\ (s - 1) + 1 = s BY <1>1, <2>1
  <2>3. FirstSlots[(s - 1) + 1] = s - 1 BY <2>2, FirstIs DEF p
  <2> QED BY <2>2, <2>3
<1>17. Filled(curr)
  <2>1. curr.slots[1] = Live BY <1>14, FirstIs
  <2>2. \A s \in 2 .. Len(curr.slots) : curr.slots[s] \in Valued BY <1>4, <1>14, <1>16
  <2> QED BY <2>1, <2>2 DEF Filled
<1>18. frames = <<[fn |-> "func"]>> /\ [fn |-> "func"] \in Frame BY <1>2 DEF Frame
<1>19. frames \in Seq(Frame) /\ Len(frames) = 1 /\ DOMAIN frames = 1 .. 1 /\ frames[1].fn = "func"
  <2>1. PICK f \in Frame : f = [fn |-> "func"] BY <1>18
  <2>2. f.fn = "func" /\ frames = <<f>> BY <1>18, <2>1
  <2> QED BY <2>2
<1>20. Blocks0
  <2>1. [i \in 1 .. 1 |-> 2] \in [DOMAIN frames -> Nat] BY <1>19
  <2>2. PICK lev \in [DOMAIN frames -> Nat] : \A i \in 1 .. 1 : lev[i] = 2 BY <1>19, <2>1
  <2>3. lev[1] = 2 /\ 2 .. Len(frames) = {} BY <1>19, <2>2
  <2>4. Levels(lev) BY <1>14, <1>19, <2>2, <2>3 DEF Levels
  <2>5. curr \in Scope BY <1>14, LaidParts
  <2>6. frames # <<>> BY <1>18
  <2> QED BY <1>8, <1>14, <1>17, <1>19, <2>4, <2>5, <2>6 DEF Blocks0
<1>21. \A i \in DOMAIN frames : frames[i].fn = "func" /\ i = 1 BY <1>19
<1>22. Loops BY <1>21 DEF Loops
<1>23. Run BY <1>21 DEF Run, OnSide, Branch
<1>24. Means(curr)
  <2>1. DOMAIN FirstCells = 1 .. p + 1 /\ Len(FirstCells) = p + 1
    <3>1. Len(FirstCells) = p + 1 /\ FirstCells \in Seq(Cell) BY FirstIs DEF p
    <3> QED BY <3>1, LenProperties
  <2>2. /\ FirstCells[1].name = "@ctrl"
        /\ \A i \in 1 .. p : FirstCells[i + 1].name = Arg[i] /\ FirstCells[i + 1].slot = i + 1
    <3>1. FirstCells[1] = [name |-> "@ctrl", slot |-> 1] BY FirstIs
    <3>2. \A i \in 1 .. p : FirstCells[i + 1] = [name |-> Arg[i], slot |-> i + 1] BY FirstIs DEF p
    <3>3. FirstCells[1].name = "@ctrl" BY <3>1
    <3>4. ASSUME NEW i \in 1 .. p
          PROVE  FirstCells[i + 1].name = Arg[i] /\ FirstCells[i + 1].slot = i + 1
      <4>1. PICK j : j = i + 1 OBVIOUS
      <4>2. PICK a : a = Arg[i] OBVIOUS
      <4>3. PICK cell : cell = FirstCells[j] OBVIOUS
      <4>4. cell = [name |-> a, slot |-> j] BY <3>2, <4>1, <4>2, <4>3
      <4>5. cell.name = a /\ cell.slot = j BY <4>4
      <4> QED BY <4>1, <4>2, <4>3, <4>5
    <3> QED BY <3>3, <3>4
  <2>3. \A i \in 1 .. p + 1 : i = 1 \/ (i - 1 \in 1 .. p /\ i = (i - 1) + 1) BY <1>1
  <2>4. \A i \in 1 .. p : i + 1 \in 1 .. p + 1 /\ i + 1 \in 2 .. Len(FirstSlots) /\ (i + 1) - 1 = i
    BY <1>1, FirstIs DEF p
  <2>5. \A x \in Name : (\E i \in DOMAIN FirstCells : FirstCells[i].name = x) <=> x \in ToSet(Arg)
    <3> TAKE x \in Name
    <3>1. ASSUME NEW i \in DOMAIN FirstCells, FirstCells[i].name = x PROVE x \in ToSet(Arg)
      <4>1. i # 1 BY <2>2, <3>1, ScopeAssumption
      <4>2. PICK j \in 1 .. p : i = j + 1 BY <2>1, <2>3, <4>1
      <4>3. x = Arg[j] BY <2>2, <3>1, <4>2
      <4> QED BY <4>3, FirstMeaning DEF p
    <3>2. ASSUME x \in ToSet(Arg) PROVE \E i \in DOMAIN FirstCells : FirstCells[i].name = x
      <4>1. PICK j \in 1 .. p : x = Arg[j] BY <3>2, FirstMeaning DEF p
      <4>2. FirstCells[j + 1].name = x /\ j + 1 \in DOMAIN FirstCells BY <2>1, <2>2, <2>4, <4>1
      <4> QED BY <4>2
    <3> QED BY <3>1, <3>2
  <2>6. DOMAIN env[1] = {x \in Name : \E i \in DOMAIN FirstCells : FirstCells[i].name = x}
    <3>1. DOMAIN env[1] = ToSet(Arg) /\ \A x \in ToSet(Arg) : x \in Name BY <1>8, FirstMeaning
    <3> QED BY <2>5, <3>1
  <2>7. curr.list[1].cells = FirstCells BY <1>14
  <2>8. DOMAIN env[2] = {} /\ DOMAIN curr.list[2].cells = {} BY <1>8, <1>14, NoNames
  <2>9. \A l \in DOMAIN curr.list :
         DOMAIN env[l] = {x \in Name : \E i \in DOMAIN curr.list[l].cells : curr.list[l].cells[i].name = x}
    <3> TAKE l \in DOMAIN curr.list
    <3>1. CASE l = 1 BY <2>6, <2>7, <3>1
    <3>2. CASE l = 2 BY <2>8, <3>2
    <3> QED BY <1>15, <3>1, <3>2
  <2>10. \A l \in DOMAIN curr.list : \A i \in DOMAIN curr.list[l].cells :
           curr.list[l].cells[i].name # "@ctrl" =>
             val[curr.slots[curr.list[l].cells[i].slot]] = env[l][curr.list[l].cells[i].name]
    <3> SUFFICES ASSUME NEW l \in DOMAIN curr.list, NEW i \in DOMAIN curr.list[l].cells,
                        curr.list[l].cells[i].name # "@ctrl"
                 PROVE  val[curr.slots[curr.list[l].cells[i].slot]] = env[l][curr.list[l].cells[i].name]
      BY Zenon
    <3>1. l = 1 BY <1>15, <2>8
    <3>2. i \in DOMAIN FirstCells /\ curr.list[l].cells[i] = FirstCells[i] BY <2>7, <3>1
    <3>3. i # 1 BY <2>2, <3>2
    <3>4. PICK j \in 1 .. p : i = j + 1 BY <2>1, <2>3, <3>2, <3>3
    <3>5. curr.list[l].cells[i].name = Arg[j] /\ curr.list[l].cells[i].slot = j + 1
      BY <2>2, <3>2, <3>4
    <3>6. FirstSlots[j + 1] = j BY <1>16, <2>4
    <3>7. val[curr.slots[j + 1]] = j BY <1>3, <1>14, <3>6
    <3>8. env[l][Arg[j]] = j BY <1>8, <3>1, FirstMeaning DEF p
    <3> QED BY <3>5, <3>7, <3>8, SMTT(30)
  <2> QED BY <2>9, <2>10, Zenon DEF Means
<1>25. Ctrl(curr) # Dead
  <2>1. Ctrl(curr) = Live BY <1>14, FirstIs DEF Ctrl
  <2> QED BY <2>1 DEF Live, Dead
<1>26. \A i \in DOMAIN frames : Pending(frames[i]) BY <1>21 DEF Pending
<1>27. Meanings BY <1>24, <1>25, <1>26 DEF Meanings
<1> QED BY <1>7, <1>10, <1>11, <1>20, <1>22, <1>23, <1>27 DEF IInv

-----------------------------------------------------------------------------
(* Every step keeps the invariant.                                         *)
LEMMA StutterStep ==
  ASSUME IInv, UNCHANGED vars
  PROVE  IInv'
<1>1. UNCHANGED <<nodes, next, table, curr, read, frames, fault, val, on, env>> BY DEF vars
<1>2. Graph /\ Values /\ Rest /\ Blocks0 /\ Loops /\ Run /\ Meanings BY DEF IInv
<1>3. Made' = Made /\ Valued' = Valued /\ OpenLoops' = OpenLoops BY <1>1 DEF Made, Valued, OpenLoops, Ctrl
<1>4. \A sc : Filled(sc)' <=> Filled(sc) BY <1>3 DEF Filled
<1>5. \A sc : Means(sc)' <=> Means(sc) BY <1>1 DEF Means
<1>8. \A lev : Levels(lev)' <=> Levels(lev) BY <1>1, <1>4 DEF Levels, PutAside
<1>9. Graph' BY <1>1, <1>2, <1>3 DEF Graph
<1>10. Values' BY <1>1, <1>2, <1>3 DEF Values
<1>11. Rest' BY <1>1, <1>2 DEF Rest
<1>12. Laid(curr)' = Laid(curr) /\ Filled(curr)' = Filled(curr) BY <1>1, <1>3 DEF Laid, Numbered, Filled
<1>13. Blocks0' BY <1>1, <1>2, <1>8, <1>12 DEF Blocks0
<1>14. \A i \in DOMAIN frames : LoopOK(frames[i])' <=> LoopOK(frames[i]) BY <1>1, <1>3 DEF LoopOK, Ctrl, IsPhiOf
<1>15. Loops' BY <1>1, <1>2, <1>14 DEF Loops, Ctrl
<1>16. Run' BY <1>1, <1>2 DEF Run
<1>17. Means(curr)' <=> Means(curr) BY <1>1 DEF Means
<1>18. \A i \in DOMAIN frames : Pending(frames[i])' <=> Pending(frames[i])
  BY <1>1, <1>3, <1>5 DEF Pending, Ctrl
<1>19. Meanings' BY <1>1, <1>2, <1>17, <1>18 DEF Meanings, Ctrl
<1> QED BY <1>9, <1>10, <1>11, <1>13, <1>15, <1>16, <1>19 DEF IInv

LEMMA NextStep ==
  ASSUME IInv, [Next]_vars
  PROVE  IInv'
<1>1. CASE \E x \in Name, e \in {"new"} \cup Name : e \in Expr /\ (Declare(x, e) \/ Assign(x, e))
  BY <1>1, DeclareStep, AssignStep
<1>2. CASE Return BY <1>2, ReturnStep
<1>3. CASE OpenBlock BY <1>3, OpenBlockStep
<1>4. CASE CloseBlock BY <1>4, CloseBlockStep
<1>5. CASE \E c \in Conditions, b \in BOOLEAN : If(c, b) \/ While(c, b)
  BY <1>5, IfStep, WhileStep
<1>6. CASE EndThen BY <1>6, EndThenStep
<1>7. CASE Else BY <1>7, ElseStep
<1>8. CASE EndElse BY <1>8, EndElseStep
<1>9. CASE Merge BY <1>9, MergeStep
<1>10. CASE EndWhile BY <1>10, EndWhileStep
<1>11. CASE EndFunction BY <1>11, EndFunctionStep
<1>12. CASE UNCHANGED vars BY <1>12, StutterStep
<1> QED
  BY <1>1, <1>2, <1>3, <1>4, <1>5, <1>6, <1>7, <1>8, <1>9, <1>10, <1>11, <1>12 DEF Next

(* The strengthened invariant: what the scope manager relies on between     *)
(* two statements, for every program.                                      *)
THEOREM Invariance == Spec => []IInv
<1>1. Init => IInv BY InitInv
<1>2. IInv /\ [Next]_vars => IInv' BY NextStep
<1> QED BY <1>1, <1>2, PTL DEF Spec
-----------------------------------------------------------------------------
(* What follows from it.                                                   *)
LEMMA ScopeTyped ==
  ASSUME NEW sc, Laid(sc)
  PROVE  IsScope(sc)
<1>1. sc \in Scope BY LaidParts
<1>2. sc.slots \in Slots /\ DOMAIN sc.slots = 1 .. Len(sc.slots) BY <1>1, ScopeParts
<1>3. ASSUME NEW l \in DOMAIN sc.list
      PROVE  /\ sc.list[l].inputlen \in Nat
             /\ \A c \in Cells(sc, l) : c.name \in Name \cup {"@ctrl"} /\ c.slot \in DOMAIN sc.slots
  <2>1. sc.list[l].inputlen \in Nat BY <1>1, ScopeParts
  <2>2. ASSUME NEW c \in Cells(sc, l)
        PROVE  c.name \in Name \cup {"@ctrl"} /\ c.slot \in DOMAIN sc.slots
    <3>1. PICK i \in DOMAIN sc.list[l].cells : c = sc.list[l].cells[i] BY <2>2 DEF Cells, ToSet
    <3>2. c \in Cell BY <1>1, <3>1, ScopeParts
    <3>3. sc.list[l].cells[i].slot \in 1 .. Len(sc.slots) BY <3>1, CellSlots
    <3>4. c.slot \in DOMAIN sc.slots BY <1>2, <3>1, <3>3
    <3>5. c.name \in Name \cup {"@ctrl"} BY <3>2 DEF Cell
    <3> QED BY <3>4, <3>5
  <2> QED BY <2>1, <2>2
<1> QED BY <1>2, <1>3 DEF IsScope

(* What is put aside has the blocks of the current scope, up to its own.    *)
LEMMA AsideParts ==
  ASSUME Blocks0, NEW i \in DOMAIN frames, NEW sc \in PutAside(frames[i])
  PROVE  Laid(sc) /\ Laid(curr) /\ Len(sc.list) <= Len(curr.list)
         /\ \A l \in 1 .. Len(sc.list) : sc.list[l] = curr.list[l]
<1>1. frames \in Seq(Frame) /\ DOMAIN frames = 1 .. Len(frames) /\ Len(frames) \in Nat
  BY LenProperties DEF Blocks0
<1>2. frames # <<>> BY <1>1
<1>3. PICK lev \in [DOMAIN frames -> Nat] : Levels(lev) BY <1>2 DEF Blocks0
<1>4. Laid(curr) BY <1>2 DEF Blocks0
<1>5. i \in 2 .. Len(frames)
  <2>1. frames[i] \in Frame BY <1>1
  <2>2. PutAside(frames[i]) # {} OBVIOUS
  <2>3. frames[i].fn # "func" BY <2>1, <2>2, FrameParts
  <2>4. i # 1 BY <1>3, <2>3 DEF Levels
  <2> QED BY <1>1, <2>4
<1>6. Laid(sc) /\ Len(sc.list) = lev[i - 1] /\ \A l \in 1 .. Len(sc.list) : sc.list[l] = curr.list[l]
  BY <1>3, <1>5 DEF Levels
<1>7. i - 1 \in DOMAIN frames /\ Len(frames) \in DOMAIN frames /\ i - 1 <= Len(frames) BY <1>1, <1>5
<1>8. lev[i - 1] <= lev[Len(frames)] /\ lev[Len(frames)] = Len(curr.list) BY <1>3, <1>7 DEF Levels
<1> QED BY <1>4, <1>6, <1>8

LEMMA TypesHold ==
  ASSUME IInv
  PROVE  TypeOK
<1>1. Graph /\ Values /\ Rest /\ Blocks0 BY DEF IInv
<1>2. ASSUME NEW n \in Node
      PROVE  /\ nodes[n].kind \in {"def", "region", "loop", "phi", "gone"}
             /\ nodes[n].reg \in Node \cup {Null} /\ nodes[n].args \in Slots
  <2>1. nodes[n] \in Rec BY <1>1 DEF Graph
  <2> QED BY <2>1 DEF Rec
<1>3. IsScope(curr)
  <2>1. CASE frames = <<>>
    <3>1. curr = NoScope BY <1>1, <2>1 DEF Blocks0
    <3>2. curr.slots = <<>> /\ curr.list = <<>> BY <3>1 DEF NoScope
    <3>3. <<>> \in Slots BY DEF Slots
    <3> QED BY <3>2, <3>3 DEF IsScope
  <2>2. CASE frames # <<>>
    <3>1. Laid(curr) BY <1>1, <2>2 DEF Blocks0
    <3> QED BY <3>1, ScopeTyped
  <2> QED BY <2>1, <2>2
<1>4. ASSUME NEW i \in DOMAIN frames
      PROVE  /\ frames[i].fn \in InBlock \cup {"between", "merge"}
             /\ frames[i].fn \in {"then", "between", "else", "merge"} => IsScope(frames[i].other)
             /\ frames[i].fn = "body" => IsScope(frames[i].head) /\ IsScope(frames[i].exit)
  <2>1. PICK f : f = frames[i] OBVIOUS
  <2>2. f \in Frame
    <3>1. frames \in Seq(Frame) BY <1>1 DEF Blocks0
    <3> QED BY <2>1, <3>1
  <2>3. \A sc \in PutAside(f) : IsScope(sc)
    <3> TAKE sc \in PutAside(f)
    <3>1. Laid(sc) BY <1>1, <2>1, AsideParts
    <3> QED BY <3>1, ScopeTyped
  <2>4. /\ f.fn \in {"func", "block", "body"} \cup Branch
        /\ f.fn \in Branch => PutAside(f) = {f.other}
        /\ f.fn = "body" => PutAside(f) = {f.head, f.exit}
    BY <2>2, FrameParts
  <2> QED BY <2>1, <2>3, <2>4 DEF Branch, InBlock
<1>5. \A l \in DOMAIN env : \A x \in DOMAIN env[l] : env[l][x] \in Node
  <2>1. Valued \subseteq Node BY <1>1, NodesWhole
  <2> QED BY <1>1, <2>1 DEF Values
<1>6. /\ next \in 1 .. MaxNode + 1
      /\ \A e \in table : e.node \in Node /\ e.reg \in Node /\ e.args \in Slots
  BY <1>1 DEF Graph
<1>7. /\ read \in 0 .. MaxStmt /\ on \in BOOLEAN
      /\ fault \in {"none", "slot_moved", "lengths_differ", "not_in_progress", "not_a_phi"}
  BY <1>1 DEF Rest
<1>8. val \in [Node -> Node \cup {Null}] BY <1>1 DEF Values
<1> QED BY <1>2, <1>3, <1>4, <1>5, <1>6, <1>7, <1>8, Zenon DEF TypeOK

LEMMA LayoutHolds ==
  ASSUME IInv
  PROVE  SameLayout
<1>1. Blocks0 BY DEF IInv
<1> SUFFICES ASSUME frames # <<>>
             PROVE  /\ Numbered(curr)
                    /\ \A i \in DOMAIN frames : \A sc \in PutAside(frames[i]) :
                         Numbered(sc) /\ IsPrefix(sc.list, curr.list)
  BY Zenon DEF SameLayout
<1>2. Numbered(curr) BY <1>1 DEF Blocks0, Laid
<1>3. ASSUME NEW i \in DOMAIN frames, NEW sc \in PutAside(frames[i])
      PROVE  Numbered(sc) /\ IsPrefix(sc.list, curr.list)
  <2>1. /\ Laid(sc) /\ Laid(curr) /\ Len(sc.list) <= Len(curr.list)
        /\ \A l \in 1 .. Len(sc.list) : sc.list[l] = curr.list[l]
    BY <1>1, AsideParts
  <2>2. PICK s : s = sc.list OBVIOUS
  <2>3. PICK t : t = curr.list OBVIOUS
  <2>4. s \in Seq(Data) /\ t \in Seq(Data)
    <3>1. sc \in Scope /\ curr \in Scope BY <2>1, LaidParts
    <3> QED BY <2>2, <2>3, <3>1, ScopeParts
  <2>5. Len(s) <= Len(t) /\ \A l \in 1 .. Len(s) : s[l] = t[l] BY <2>1, <2>2, <2>3
  <2>6. SubSeq(s, 1, Len(s)) = SubSeq(t, 1, Len(s)) BY <2>4, <2>5
  <2>7. IsPrefix(s, t) BY <2>5, <2>6 DEF IsPrefix
  <2>8. Numbered(sc) BY <2>1 DEF Laid
  <2> QED BY <2>2, <2>3, <2>7, <2>8
<1> QED BY <1>2, <1>3

LEMMA PhisHold ==
  ASSUME IInv
  PROVE  PhisComplete
<1>1. Graph BY DEF IInv
<1>2. ASSUME NEW n \in Node, nodes[n].kind = "phi"
      PROVE  /\ nodes[nodes[n].reg].kind \in {"region", "loop"}
             /\ Len(nodes[n].args) = Len(nodes[nodes[n].reg].args)
             /\ Null \in ToSet(nodes[n].args) <=> nodes[n].reg \in OpenLoops
  <2>1. PICK r : r = nodes[n].reg OBVIOUS
  <2>2. PICK a : a = nodes[n].args OBVIOUS
  <2>3. /\ r \in 1 .. n - 1 /\ nodes[r].kind \in {"region", "loop"} /\ Len(a) = 2 /\ a[1] \in Valued
        /\ a[2] = Null <=> r \in OpenLoops
    BY <1>1, <1>2, <2>1, <2>2 DEF Graph
  <2>4. r \in Node BY <2>3, NodesWhole, <1>1 DEF Node
  <2>5. Len(nodes[r].args) = 2 BY <1>1, <2>3, <2>4 DEF Graph
  <2>6. a[1] # Null BY <1>1, <2>3, NodesWhole
  <2>7. a \in Slots
    <3>1. nodes[n] \in Rec BY <1>1 DEF Graph
    <3> QED BY <2>2, <3>1 DEF Rec
  <2>8. DOMAIN a = 1 .. 2 BY <2>3, <2>7 DEF Slots
  <2>9. ToSet(a) = {a[i] : i \in 1 .. 2} BY <2>8 DEF ToSet
  <2>10. Null \in ToSet(a) <=> a[2] = Null BY <2>6, <2>9
  <2> QED BY <2>1, <2>2, <2>3, <2>5, <2>10
<1> QED BY <1>2, Zenon DEF PhisComplete

LEMMA MeaningHolds ==
  ASSUME IInv
  PROVE  ScopeMeaning /\ LiveCode
<1>1. Blocks0 /\ Values /\ Meanings BY DEF IInv
<1>2. ASSUME on, frames # <<>>, NEW x \in Name, Blocks(x) # {}
      PROVE  val[Lookup(curr, x)] = Meaning(x)
  <2>1. Laid(curr) /\ Means(curr) /\ Len(env) = Len(curr.list) BY <1>1, <1>2 DEF Blocks0, Meanings
  <2>2. env \in Seq(Env) BY <1>1 DEF Values
  <2> QED BY <1>2, <2>1, <2>2, Understood
<1>3. LiveCode BY <1>1 DEF Meanings, LiveCode
<1>4. ScopeMeaning BY <1>2 DEF ScopeMeaning
<1> QED BY <1>3, <1>4

(* The scope manager keeps its data well formed (sea_scope.c): every cell   *)
(* of every block names a slot of its scope.                               *)
THEOREM ScopeTypes == Spec => []TypeOK
BY Invariance, TypesHold, PTL

(* Scopes that meet correspond slot by slot: every scope that parse_if and  *)
(* parse_while put aside has the blocks of the current one, and blocks      *)
(* number their slots without gaps.                                        *)
THEOREM LayoutsAgree == Spec => []SameLayout
BY Invariance, LayoutHolds, PTL

(* No program stops the compiler at an Assert of sea_duplicate_scope,       *)
(* sea_merge_scopes or sea_scope_end_loop.                                 *)
THEOREM AssertsPass == Spec => []AssertsHold
<1>1. IInv => AssertsHold BY DEF IInv, Rest, AssertsHold
<1> QED BY <1>1, Invariance, PTL

(* A phi has a value for each control of its region or loop, but for the    *)
(* way back of a loop that parse_while still reads.                        *)
THEOREM PhisAreWhole == Spec => []PhisComplete
BY Invariance, PhisHold, PTL

(* On every run of the compiled program, the node that the scope gives for  *)
(* a variable has the value that the source gives it: the phis of           *)
(* sea_merge_scopes and of the loops are those the language asks for.       *)
THEOREM ScopeIsMeaning == Spec => []ScopeMeaning
BY Invariance, MeaningHolds, PTL

(* Where a run comes through, the control is not dead: what is dropped      *)
(* behind dead control was never run.                                      *)
THEOREM RunsAreLive == Spec => []LiveCode
BY Invariance, MeaningHolds, PTL

-----------------------------------------------------------------------------
(* The first value of a loop and of its phis comes from before the loop, and *)
(* is the one that each variable has there on a run that reaches the loop.   *)
Entered(f, loop, z, list, nds, v) ==
  /\ nds[loop].args[1] < loop
  /\ \A s \in 2 .. z : nds[loop + s - 1].args[1] < loop
  /\ f.was =>
       /\ nds[loop].args[1] # Dead
       /\ \A l \in DOMAIN f.at : \A x \in DOMAIN f.at[l] :
            \E i \in DOMAIN list[l].cells :
              /\ list[l].cells[i].name = x /\ list[l].cells[i].slot \in 2 .. z
              /\ f.before[l][x] < loop
              /\ f.before[l][x] = v[nds[loop + list[l].cells[i].slot - 1].args[1]]
EnteredOK(f, nds, v) == Entered(f, Ctrl(f.head), Len(f.head.slots), f.head.list, nds, v)
Entries ==
  /\ \A i \in DOMAIN frames : frames[i].fn = "body" => EnteredOK(frames[i], nodes, val)
  /\ \A e \in table : e.reg < next /\ e.reg \notin OpenLoops

(* The loops of a step that opens none were open before it.                 *)
NoNewLoops ==
  \A i \in DOMAIN frames' : frames'[i].fn = "body" => \E j \in DOMAIN frames : frames'[i] = frames[j]
(* A step that leaves the nodes that are made as they are.                  *)
KeepsMade ==
  next' \in Nat /\ next <= next' /\ \A n \in Made : nodes'[n] = nodes[n] /\ val'[n] = val[n]

LEMMA EnteredStays ==
  ASSUME Graph, KeepsMade, NEW f, LoopOK(f), EnteredOK(f, nodes, val)
  PROVE  EnteredOK(f, nodes', val')
<1>1. PICK loop : loop = Ctrl(f.head) OBVIOUS
<1>2. PICK z : z = Len(f.head.slots) OBVIOUS
<1>3. PICK list : list = f.head.list OBVIOUS
<1>4. \A n \in Made : nodes'[n] = nodes[n] /\ val'[n] = val[n] BY DEF KeepsMade
<1>5. \A n \in Valued : n \in Made /\ n \in Node BY NodesWhole DEF Valued
<1>6. loop \in Made /\ \A s \in 2 .. z : IsPhiOf(nodes, loop + s - 1, loop) BY <1>1, <1>2, Zenon DEF LoopOK
<1>7. \A s \in 2 .. z : loop + s - 1 \in Made /\ nodes[loop + s - 1].args[1] \in Made
  <2> SUFFICES ASSUME NEW s \in 2 .. z PROVE loop + s - 1 \in Made /\ nodes[loop + s - 1].args[1] \in Made
    OBVIOUS
  <2>1. PICK n : n = loop + s - 1 OBVIOUS
  <2>2. n \in Node /\ nodes[n].kind = "phi" BY <1>6, <2>1 DEF IsPhiOf
  <2>3. n \in Valued /\ nodes[n].args[1] \in Valued BY <2>2 DEF Graph
  <2> QED BY <1>5, <2>1, <2>3
<1>8. /\ nodes[loop].args[1] < loop
      /\ \A s \in 2 .. z : nodes[loop + s - 1].args[1] < loop
      /\ f.was =>
           /\ nodes[loop].args[1] # Dead
           /\ \A l \in DOMAIN f.at : \A x \in DOMAIN f.at[l] :
                \E i \in DOMAIN list[l].cells :
                  /\ list[l].cells[i].name = x /\ list[l].cells[i].slot \in 2 .. z
                  /\ f.before[l][x] < loop
                  /\ f.before[l][x] = val[nodes[loop + list[l].cells[i].slot - 1].args[1]]
  <2>1. Entered(f, loop, z, list, nodes, val) BY <1>1, <1>2, <1>3 DEF EnteredOK
  <2> QED BY <2>1, Zenon DEF Entered
<1>9. nodes'[loop] = nodes[loop] /\ \A s \in 2 .. z : nodes'[loop + s - 1] = nodes[loop + s - 1]
  BY <1>4, <1>6, <1>7
<1>10. \A s \in 2 .. z : val'[nodes'[loop + s - 1].args[1]] = val[nodes[loop + s - 1].args[1]]
  BY <1>4, <1>7, <1>9
<1>11. f.was =>
         \A l \in DOMAIN f.at : \A x \in DOMAIN f.at[l] :
           \E i \in DOMAIN list[l].cells :
             /\ list[l].cells[i].name = x /\ list[l].cells[i].slot \in 2 .. z
             /\ f.before[l][x] < loop
             /\ f.before[l][x] = val'[nodes'[loop + list[l].cells[i].slot - 1].args[1]]
  <2> SUFFICES ASSUME f.was, NEW l \in DOMAIN f.at, NEW x \in DOMAIN f.at[l]
               PROVE  \E i \in DOMAIN list[l].cells :
                        /\ list[l].cells[i].name = x /\ list[l].cells[i].slot \in 2 .. z
                        /\ f.before[l][x] < loop
                        /\ f.before[l][x] = val'[nodes'[loop + list[l].cells[i].slot - 1].args[1]]
    BY Zenon, ZenonT(40)
  <2>1. PICK i \in DOMAIN list[l].cells :
          /\ list[l].cells[i].name = x /\ list[l].cells[i].slot \in 2 .. z
          /\ f.before[l][x] < loop
          /\ f.before[l][x] = val[nodes[loop + list[l].cells[i].slot - 1].args[1]]
    BY <1>8, ZenonT(40)
  <2> QED BY <1>10, <2>1, Zenon
<1>12. /\ nodes'[loop].args[1] < loop
       /\ \A s \in 2 .. z : nodes'[loop + s - 1].args[1] < loop
       /\ f.was => nodes'[loop].args[1] # Dead
  BY <1>8, <1>9
<1>13. Entered(f, loop, z, list, nodes', val') BY <1>11, <1>12, Zenon DEF Entered
<1> QED BY <1>1, <1>2, <1>3, <1>13 DEF EnteredOK

LEMMA EntriesStay ==
  ASSUME IInv, Entries, KeepsMade, NoNewLoops, table' = table
  PROVE  Entries'
<1>1. Graph /\ Loops BY DEF IInv
<1>2. ASSUME NEW i \in DOMAIN frames', frames'[i].fn = "body" PROVE EnteredOK(frames'[i], nodes', val')
  <2>1. PICK j \in DOMAIN frames : frames'[i] = frames[j] BY <1>2 DEF NoNewLoops
  <2>2. PICK f : f = frames[j] OBVIOUS
  <2>3. f.fn = "body" /\ frames'[i] = f BY <1>2, <2>1, <2>2
  <2>4. LoopOK(f) /\ EnteredOK(f, nodes, val) BY <1>1, <2>2, <2>3 DEF Loops, Entries
  <2>5. EnteredOK(f, nodes', val') BY <1>1, <2>4, EnteredStays
  <2> QED BY <2>3, <2>5
<1>3. OpenLoops' \subseteq OpenLoops
  <2> SUFFICES ASSUME NEW i \in DOMAIN frames', frames'[i].fn = "body"
               PROVE  Ctrl(frames'[i].head) \in OpenLoops
    BY DEF OpenLoops, Ctrl
  <2>1. PICK j \in DOMAIN frames : frames'[i] = frames[j] BY DEF NoNewLoops
  <2> QED BY <2>1 DEF OpenLoops
<1>4. ASSUME NEW e \in table' PROVE e.reg < next' /\ e.reg \notin OpenLoops'
  <2>1. e.reg < next /\ e.reg \notin OpenLoops BY DEF Entries
  <2>2. e.reg \in Nat /\ next \in Nat BY <1>1, NodesWhole DEF Graph, Node
  <2> QED BY <1>3, <2>1, <2>2 DEF KeepsMade
<1> QED BY <1>2, <1>4 DEF Entries

LEMMA FewerLoops ==
  ASSUME frames \in Seq(Frame), frames' = Front(frames), frames # <<>>
  PROVE  NoNewLoops
<1>1. PICK k : k = Len(frames) OBVIOUS
<1>2. k \in Nat /\ k >= 1 BY <1>1
<1>3. DOMAIN frames' = 1 .. k - 1 /\ \A i \in 1 .. k - 1 : frames'[i] = frames[i] BY <1>1, <1>2 DEF Front
<1>4. \A i \in 1 .. k - 1 : i \in DOMAIN frames BY <1>1, <1>2
<1> QED BY <1>3, <1>4 DEF NoNewLoops

LEMMA TopLoops ==
  ASSUME frames \in Seq(Frame), NEW g, g.fn # "body", frames' = SetTop(g)
  PROVE  NoNewLoops
<1>1. DOMAIN frames' = DOMAIN frames BY DEF SetTop
<1>2. \A i \in DOMAIN frames : frames'[i] = g \/ frames'[i] = frames[i] BY DEF SetTop
<1> QED BY <1>1, <1>2 DEF NoNewLoops

LEMMA PushLoops ==
  ASSUME frames \in Seq(Frame), NEW f \in Frame, f.fn # "body", NEW g \in Frame, g.fn # "body",
         frames # <<>>, NEW fs, fs = frames \/ fs = SetTop(g), frames' = Append(fs, f)
  PROVE  NoNewLoops
<1>1. PICK k : k = Len(frames) OBVIOUS
<1>2. k \in Nat /\ k >= 1 BY <1>1
<1>3. /\ fs \in Seq(Frame) /\ Len(fs) = k
      /\ \A i \in 1 .. k : fs[i] = g \/ fs[i] = frames[i]
  <2>1. CASE fs = frames BY <1>1, <2>1
  <2>2. CASE fs = SetTop(g)
    <3>1. fs = [frames EXCEPT ![k] = g] BY <1>1, <2>2 DEF SetTop
    <3> QED BY <1>1, <1>2, <3>1
  <2> QED BY <2>1, <2>2
<1>4. DOMAIN frames' = 1 .. k + 1 /\ frames'[k + 1] = f /\ \A i \in 1 .. k : frames'[i] = fs[i]
  <2>1. PICK t \in Seq(Frame) : t = fs BY <1>3
  <2>2. frames' = Append(t, f) /\ Len(t) = k BY <1>3, <2>1
  <2> QED BY <2>1, <2>2
<1>5. \A i \in 1 .. k + 1 : i \in 1 .. k \/ i = k + 1 BY <1>2
<1>6. DOMAIN frames = 1 .. k BY <1>1
<1> QED BY <1>3, <1>4, <1>5, <1>6 DEF NoNewLoops

LEMMA QuietKeeps ==
  ASSUME Graph, UNCHANGED <<nodes, next, val>>
  PROVE  KeepsMade
<1>1. next \in Nat BY NodesWhole
<1> QED BY <1>1 DEF KeepsMade

LEMMA ComputeKeeps ==
  ASSUME Graph, Values, NEW e, Compute(e)
  PROVE  KeepsMade
<1>1. next \in Nat /\ Made \subseteq Node BY NodesWhole
<1>2. CASE e # "new" BY <1>2, QuietKeeps DEF Compute
<1>3. CASE e = "new"
  <2>1. /\ nodes' = [nodes EXCEPT ![next] = Def] /\ val' = [val EXCEPT ![next] = next]
        /\ next' = next + 1
    BY <1>3 DEF Compute
  <2>2. nodes \in [Node -> Rec] /\ val \in [Node -> Node \cup {Null}] BY DEF Graph, Values
  <2>3. \A n \in Made : n # next BY <1>1 DEF Made
  <2>4. \A n \in Made : nodes'[n] = nodes[n] /\ val'[n] = val[n] BY <1>1, <2>1, <2>2, <2>3
  <2> QED BY <1>1, <2>1, <2>4 DEF KeepsMade
<1> QED BY <1>2, <1>3

LEMMA MergeKeeps ==
  ASSUME IInv, Merge, fault' = "none"
  PROVE  KeepsMade
<1>0. Graph /\ Blocks0 BY DEF IInv
<1>1. next \in Nat /\ Made \subseteq Node /\ \A n \in Made : n \in Nat /\ n < next BY <1>0, NodesWhole DEF Made
<1>2. PICK this : this = curr OBVIOUS
<1>3. PICK that : that = Last(frames).other OBVIOUS
<1>4. PICK c : c = Cardinality(Differing(this, that)) OBVIOUS
<1>5. PICK made : made = MergeNodes(this, that) OBVIOUS
<1>6. PICK head : head = MergeHead(this, that) OBVIOUS
<1>7. PICK done : done = IdealizeRegion(made, head, next) OBVIOUS
<1>8. PICK take : take = Last(frames).take OBVIOUS
<1>9. Top({"between", "merge"}) BY DEF Merge
<1>10. /\ nodes' = done.nodes
       /\ next' = (IF Ctrl(done.sc) = next THEN next + (1 + c) ELSE next)
       /\ val' = [n \in Node |->
               IF n < next \/ nodes'[n].kind # "phi" THEN val[n]
               ELSE LET in == nodes'[n].args[IF take THEN 2 ELSE 1]
                    IN  val[in]]
  BY <1>2, <1>3, <1>4, <1>5, <1>6, <1>7, <1>8, SMTT(30) DEF Merge
<1>11. PICK z \in Nat : z = Len(this.slots)
  <2>1. Laid(this) BY <1>0, <1>2, <1>9, Tops
  <2> QED BY <2>1, LaidParts
<1>12. Differing(this, that) \subseteq 2 .. z BY <1>11 DEF Differing
<1>13. /\ c \in Nat
       /\ \A i \in Differing(this, that) :
            Cardinality({j \in Differing(this, that) : j <= i}) \in 1 .. Cardinality(Differing(this, that))
  <2>1. PICK D : D = Differing(this, that) OBVIOUS
  <2>2. D \subseteq 2 .. z BY <1>12, <2>1
  <2>3. Cardinality(D) \in Nat /\ \A i \in D : Cardinality({j \in D : j <= i}) \in 1 .. Cardinality(D)
    BY <2>2, Counting
  <2> QED BY <1>4, <2>1, <2>3
<1>14. \A i \in Differing(this, that) : \A n \in Made : n # MergePhi(this, that, i)
  <2> TAKE i \in Differing(this, that)
  <2> TAKE n \in Made
  <2>1. PICK d : d = Cardinality({j \in Differing(this, that) : j <= i}) OBVIOUS
  <2>2. d \in 1 .. c BY <1>4, <1>13, <2>1
  <2>3. MergePhi(this, that, i) = next + d BY <2>1 DEF MergePhi
  <2> QED BY <1>1, <1>13, <2>2, <2>3
<1>15. \A n \in Made : made[n] = nodes[n]
  <2> TAKE n \in Made
  <2>1. n \in Node /\ n # next BY <1>1
  <2>2. ~ \E i \in Differing(this, that) : n = MergePhi(this, that, i) BY <1>14
  <2> QED BY <1>5, <2>1, <2>2 DEF MergeNodes
<1>16. \A n \in Made : done.nodes[n] = nodes[n]
  <2> TAKE n \in Made
  <2>1. n \in Node /\ n # next /\ n \in Nat BY <1>1
  <2>2. ~ IsPhiOf(made, n, next)
    <3> SUFFICES ASSUME nodes[n].kind = "phi" PROVE nodes[n].reg # next BY <1>15 DEF IsPhiOf
    <3>1. nodes[n].reg \in 1 .. n - 1 BY <1>0, <2>1 DEF Graph
    <3> QED BY <1>1, <2>1, <3>1
  <2>3. done.nodes = made
        \/ done.nodes = [m \in Node |-> IF m \in {p \in Node : p = next \/ IsPhiOf(made, p, next)}
                                        THEN Gone ELSE made[m]]
    <3> DEFINE left(m) == RemoveInput(made[m].args, Min({i \in DOMAIN made[next].args : made[next].args[i] = Dead}))[1]
               gone == {p \in Node : p = next \/ IsPhiOf(made, p, next)}
               sd == SetCtrl([head EXCEPT !.slots =
                       [i \in DOMAIN @ |-> IF @[i] \in gone THEN left(@[i]) ELSE @[i]]], left(next))
               ns == [m \in Node |-> IF m \in gone THEN Gone ELSE made[m]]
    <3>1. done = (IF {i \in DOMAIN made[next].args : made[next].args[i] = Dead} = {}
                  THEN [nodes |-> made, sc |-> SetCtrl(head, next)] ELSE [nodes |-> ns, sc |-> sd])
      BY <1>7, Zenon DEF IdealizeRegion
    <3> HIDE DEF sd, ns
    <3>2. done.nodes = made \/ done.nodes = ns BY <3>1
    <3> QED BY <3>2 DEF ns
  <2>4. CASE done.nodes = made BY <1>15, <2>4
  <2>5. CASE done.nodes = [m \in Node |-> IF m \in {p \in Node : p = next \/ IsPhiOf(made, p, next)}
                                          THEN Gone ELSE made[m]]
    BY <1>15, <2>1, <2>2, <2>5
  <2> QED BY <2>3, <2>4, <2>5
<1>17. \A n \in Made : val'[n] = val[n] BY <1>1, <1>10
<1>18. next' \in Nat /\ next <= next'
  <2>1. next' = next + (1 + c) \/ next' = next BY <1>10
  <2> QED BY <1>1, <1>13, <2>1
<1> QED BY <1>10, <1>16, <1>17, <1>18 DEF KeepsMade

(* Every statement but the two ends of a loop.                              *)
LEMMA SimpleEntries ==
  ASSUME IInv, Entries, frames' = frames, table' = table, KeepsMade
  PROVE  Entries'
<1>1. NoNewLoops BY DEF NoNewLoops
<1> QED BY <1>1, EntriesStay

LEMMA ValueEntries ==
  ASSUME IInv, Entries, NEW x, NEW e, Declare(x, e) \/ Assign(x, e)
  PROVE  Entries'
<1>1. Compute(e) /\ UNCHANGED <<table, frames>> BY DEF Declare, Assign
<1>2. KeepsMade BY <1>1, ComputeKeeps DEF IInv
<1> QED BY <1>1, <1>2, SimpleEntries

LEMMA FrontEntries ==
  ASSUME IInv, Entries, NEW fs, Top(fs), frames' = Front(frames), KeepsMade, table' = table
  PROVE  Entries'
<1>1. frames \in Seq(Frame) /\ frames # <<>> BY Tops DEF IInv
<1>2. NoNewLoops BY <1>1, FewerLoops
<1> QED BY <1>2, EntriesStay

LEMMA BlockEntries ==
  ASSUME IInv, Entries, OpenBlock
  PROVE  Entries'
<1> PICK f : f = [fn |-> "block"] OBVIOUS
<1>1. Top(InBlock) /\ frames' = Append(frames, f) /\ UNCHANGED <<nodes, next, table, val>>
  BY DEF OpenBlock, Statement, ReadIn
<1>2. frames \in Seq(Frame) /\ frames # <<>> BY <1>1, Tops DEF IInv
<1>3. f \in Frame /\ f.fn # "body" BY DEF Frame
<1>4. NoNewLoops BY <1>1, <1>2, <1>3, PushLoops
<1>5. KeepsMade BY <1>1, QuietKeeps DEF IInv
<1> QED BY <1>1, <1>4, <1>5, EntriesStay

LEMMA IfEntries ==
  ASSUME IInv, Entries, NEW cond, NEW take \in BOOLEAN, If(cond, take)
  PROVE  Entries'
<1>1. Graph /\ Blocks0 /\ Rest BY DEF IInv
<1>2. Top(InBlock \cup {"between"}) /\ Takes(cond, take) BY DEF If, ReadIn
<1>3. /\ frames \in Seq(Frame) /\ frames # <<>> /\ Last(frames) \in Frame
      /\ Last(frames).fn \in InBlock \cup {"between"} /\ Laid(curr) /\ Filled(curr)
  BY <1>1, <1>2, Tops
<1>4. Duplicate(curr) = [sc |-> curr, ok |-> TRUE] BY <1>3, DuplicateIsEqual
<1>5. PICK outer : outer = IfControl(Ctrl(curr), cond, "false") OBVIOUS
<1>6. PICK f : f = [fn |-> "then", other |-> curr, was |-> on, take |-> take, cont |-> FALSE, ctrl |-> outer]
  OBVIOUS
<1>7. PICK g : g = IF Top(InBlock) THEN [fn |-> "block"] ELSE Become(Last(frames), "merge") OBVIOUS
<1>8. /\ UNCHANGED <<nodes, next, table, val>>
      /\ frames' = Append(IF Top(InBlock) THEN frames ELSE SetTop(Become(Last(frames), "merge")), f)
  BY <1>4, <1>5, <1>6 DEF If
<1>9. Ctrl(curr) \in Made \cup {Live, Dead} /\ Made \subseteq Node BY <1>1, <1>3, Controls
<1>10. outer \in Node \cup {Live, Dead} BY <1>2, <1>5, <1>9, IfControls
<1>11. f \in Frame /\ f.fn # "body"
  <2>1. curr \in Scope /\ on \in BOOLEAN BY <1>1 DEF Blocks0, Rest
  <2> QED BY <1>6, <1>10, <2>1 DEF Frame, Branch
<1>12. g \in Frame /\ g.fn # "body" /\ (~ Top(InBlock) => g = Become(Last(frames), "merge"))
  <2>1. CASE Top(InBlock) BY <1>7, <2>1 DEF Frame
  <2>2. CASE ~ Top(InBlock)
    <3>1. Last(frames).fn = "between" BY <1>2, <1>3, <2>2 DEF Top
    <3>2. Last(frames) \in BranchFrame BY <1>3, <3>1, FrameParts DEF Branch
    <3>3. "merge" \in Branch BY DEF Branch
    <3> QED BY <1>7, <2>2, <3>2, <3>3, Retagged
  <2> QED BY <2>1, <2>2
<1>13. PICK fs : fs = IF Top(InBlock) THEN frames ELSE SetTop(Become(Last(frames), "merge")) OBVIOUS
<1>14. (fs = frames \/ fs = SetTop(g)) /\ frames' = Append(fs, f) BY <1>8, <1>12, <1>13
<1>15. NoNewLoops BY <1>3, <1>11, <1>12, <1>14, PushLoops
<1>16. KeepsMade BY <1>1, <1>8, QuietKeeps
<1> QED BY <1>8, <1>15, <1>16, EntriesStay

LEMMA SideEntries ==
  ASSUME IInv, Entries, EndThen \/ Else \/ EndElse
  PROVE  Entries'
<1>1. PICK g : frames' = SetTop(g) /\ g.fn # "body"
  <2>1. CASE EndThen
    <3>1. Top({"then"}) /\ {"then"} \subseteq Branch BY <2>1 DEF EndThen, Branch
    <3>2. Last(frames) \in BranchFrame BY <3>1, BranchTop
    <3>3. PICK h \in BranchFrame : h = Last(frames) BY <3>2
    <3>4. frames' = SetTop([h EXCEPT !.fn = "between", !.other = PopScope(curr), !.cont = on])
      BY <2>1, <3>3 DEF EndThen
    <3>5. [h EXCEPT !.fn = "between", !.other = PopScope(curr), !.cont = on].fn = "between" BY DEF BranchFrame
    <3> QED BY <3>4, <3>5
  <2>2. CASE Else
    <3>1. Top({"between"}) /\ {"between"} \subseteq Branch BY <2>2 DEF Else, Branch
    <3>2. Last(frames) \in BranchFrame BY <3>1, BranchTop
    <3>3. "else" \in Branch BY DEF Branch
    <3>4. Become(Last(frames), "else").fn = "else" BY <3>2, <3>3, Retagged
    <3>5. frames' = SetTop(Become(Last(frames), "else")) BY <2>2 DEF Else
    <3> QED BY <3>4, <3>5
  <2>3. CASE EndElse
    <3>1. Top({"else"}) /\ {"else"} \subseteq Branch BY <2>3 DEF EndElse, Branch
    <3>2. Last(frames) \in BranchFrame BY <3>1, BranchTop
    <3>3. "merge" \in Branch BY DEF Branch
    <3>4. Become(Last(frames), "merge").fn = "merge" BY <3>2, <3>3, Retagged
    <3>5. frames' = SetTop(Become(Last(frames), "merge")) BY <2>3 DEF EndElse
    <3> QED BY <3>4, <3>5
  <2> QED BY <2>1, <2>2, <2>3
<1>2. UNCHANGED <<nodes, next, table, val>> BY DEF EndThen, Else, EndElse
<1>3. frames \in Seq(Frame) BY DEF IInv, Blocks0
<1>4. NoNewLoops BY <1>1, <1>3, TopLoops
<1>5. KeepsMade BY <1>2, QuietKeeps DEF IInv
<1> QED BY <1>2, <1>4, <1>5, EntriesStay

LEMMA QuietEntries ==
  ASSUME IInv, Entries, Return \/ CloseBlock \/ EndFunction \/ UNCHANGED vars
  PROVE  Entries'
<1>1. UNCHANGED <<nodes, next, table, val>> BY DEF Return, CloseBlock, EndFunction, vars
<1>2. KeepsMade BY <1>1, QuietKeeps DEF IInv
<1>3. CASE Return \/ UNCHANGED vars
  <2>1. frames' = frames BY <1>3 DEF Return, vars
  <2> QED BY <1>1, <1>2, <2>1, SimpleEntries
<1>4. CASE CloseBlock
  <2>1. Top({"block"}) /\ frames' = Front(frames) BY <1>4 DEF CloseBlock
  <2> QED BY <1>1, <1>2, <2>1, FrontEntries
<1>5. CASE EndFunction
  <2>1. frames' = <<>> BY <1>5 DEF EndFunction
  <2>2. NoNewLoops
    <3>1. DOMAIN frames' = {} BY <2>1
    <3> QED BY <3>1 DEF NoNewLoops
  <2> QED BY <1>1, <1>2, <2>2, EntriesStay
<1> QED BY <1>3, <1>4, <1>5

LEMMA MergeEntries ==
  ASSUME IInv, Entries, Merge, fault' = "none"
  PROVE  Entries'
<1>1. Top({"between", "merge"}) /\ frames' = Front(frames) /\ table' = table BY DEF Merge
<1>2. KeepsMade BY MergeKeeps
<1> QED BY <1>1, <1>2, FrontEntries

(* A loop that opens takes what the scope has in front of it.               *)
LEMMA LoopEntered ==
  ASSUME Graph, Values, on \in BOOLEAN,
         NEW sc, Laid(sc), Filled(sc), on => Means(sc) /\ Ctrl(sc) # Dead,
         NEW z \in Nat, z = Len(sc.slots),
         LoopShape(nodes', sc, z), \A n \in Made : val'[n] = val[n],
         Len(env) = Len(sc.list),
         NEW hd, HeadShape(hd, sc, z),
         NEW f, f.head = hd, f.was = on, f.before = env, f.at = At(hd)
  PROVE  EnteredOK(f, nodes', val')
<1>1. /\ next \in Nat /\ Made \subseteq Node /\ Null \notin Valued
      /\ \A n \in Valued : n < next /\ n \in Nat /\ n \in Made
  BY NodesWhole DEF Valued
<1>2. /\ Laid(hd) /\ hd.list = sc.list /\ Len(hd.slots) = z /\ Ctrl(hd) = next
      /\ \A s \in 2 .. z : hd.slots[s] = next + s - 1
  BY DEF HeadShape
<1>3. PICK nw : nw = nodes' OBVIOUS
<1>4. /\ nw[next] = Loop(<<Ctrl(sc), Null>>)
      /\ \A s \in 2 .. z : /\ next + s - 1 \in Node /\ sc.slots[s] \in Valued
                           /\ nw[next + s - 1] = Phi(next, <<sc.slots[s], Null>>)
  BY <1>3 DEF LoopShape
<1>5. nw[next].args[1] = Ctrl(sc) /\ \A s \in 2 .. z : nw[next + s - 1].args[1] = sc.slots[s]
  <2>1. PICK c : c = Ctrl(sc) OBVIOUS
  <2>2. nw[next].args = <<c, Null>> BY <1>4, <2>1 DEF Loop
  <2>3. \A s \in 2 .. z : nw[next + s - 1].args[1] = sc.slots[s]
    <3> TAKE s \in 2 .. z
    <3>1. PICK d : d = sc.slots[s] OBVIOUS
    <3>2. PICK a : a = <<d, Null>> OBVIOUS
    <3>3. PICK p : p = next + s - 1 OBVIOUS
    <3>4. nw[p] = Phi(next, a) BY <1>4, <3>1, <3>2, <3>3
    <3>5. nw[p].args = a BY <3>4 DEF Phi
    <3>6. nw[p].args[1] = d BY <3>2, <3>5
    <3> QED BY <3>1, <3>3, <3>6
  <2> QED BY <2>1, <2>2, <2>3
<1>6. Ctrl(sc) < next
  <2>1. Ctrl(sc) \in Made \cup {Live, Dead} BY Controls
  <2> QED BY <1>1, <2>1 DEF Made, Live, Dead
<1>7. \A s \in 2 .. z : sc.slots[s] < next /\ val'[sc.slots[s]] = val[sc.slots[s]] BY <1>1, <1>4
<1>8. PICK list : list = hd.list OBVIOUS
<1>9. PICK at : at = At(hd) OBVIOUS
<1>10. ASSUME on, NEW l \in DOMAIN at, NEW x \in DOMAIN at[l]
       PROVE  \E i \in DOMAIN list[l].cells :
                /\ list[l].cells[i].name = x /\ list[l].cells[i].slot \in 2 .. z
                /\ env[l][x] < next
                /\ env[l][x] = val'[nw[next + list[l].cells[i].slot - 1].args[1]]
  <2>1. env \in Seq(Env) /\ Len(env) = Len(hd.list) BY <1>2 DEF Values
  <2>2. Means(sc) BY <1>10
  <2>3. Fits(sc.list) BY <2>2, Zenon DEF Means, Fits
  <2>4. Fits(hd.list) BY <1>2, <2>3
  <2>5. at = Tokens(hd) BY <1>9, <1>10 DEF At
  <2>6. Marked(hd, at, z) BY <1>2, <1>4, <2>1, <2>4, <2>5, TokensMean
  <2>7. DOMAIN at = DOMAIN env /\ DOMAIN env = DOMAIN hd.list
    <3>1. at \in Seq(Env) /\ Len(at) = Len(env) BY <2>6 DEF Marked
    <3>2. DOMAIN at = 1 .. Len(at) /\ DOMAIN env = 1 .. Len(env) BY <2>1, <3>1, LenProperties
    <3>3. DOMAIN hd.list = 1 .. Len(hd.list) BY <1>2, LaidParts
    <3> QED BY <2>1, <3>1, <3>2, <3>3
  <2>8. l \in DOMAIN hd.list /\ l \in DOMAIN env BY <2>7
  <2>9. x \in DOMAIN env[l] BY <2>6, <2>8 DEF Marked
  <2>10. x \in Name /\ \E i \in DOMAIN list[l].cells : list[l].cells[i].name = x
    BY <1>8, <2>4, <2>8, <2>9 DEF Fits
  <2>11. PICK i \in DOMAIN list[l].cells : list[l].cells[i].name = x BY <2>10
  <2>12. x # "@ctrl" BY <2>10, ScopeAssumption
  <2>13. list[l].cells[i].slot \in 2 .. z BY <1>2, <1>8, <2>8, <2>11, <2>12, CellSlots
  <2>14. PICK s : s = list[l].cells[i].slot BY SMTT(30)
  <2>15. val[sc.slots[s]] = env[l][x]
    <3>1. sc.list = list BY <1>2, <1>8
    <3>2. l \in DOMAIN sc.list /\ i \in DOMAIN sc.list[l].cells /\ sc.list[l].cells[i].name = x
          /\ s = sc.list[l].cells[i].slot
      BY <2>8, <2>11, <2>14, <3>1, <1>8
    <3> QED BY <2>2, <2>12, <3>2, Zenon DEF Means
  <2>16. env[l][x] \in Valued BY <2>8, <2>9 DEF Values
  <2>17. nw[next + s - 1].args[1] = sc.slots[s] /\ val'[sc.slots[s]] = val[sc.slots[s]]
    BY <1>5, <1>7, <2>13, <2>14, Zenon
  <2> QED BY <1>1, <2>11, <2>13, <2>14, <2>15, <2>16, <2>17, Zenon
<1>11. nw[next].args[1] < next /\ \A s \in 2 .. z : nw[next + s - 1].args[1] < next
  BY <1>5, <1>6, <1>7
<1>12. f.was => nw[next].args[1] # Dead BY <1>5, SMTT(30)
<1>13. f.was =>
         \A l \in DOMAIN f.at : \A x \in DOMAIN f.at[l] :
            \E i \in DOMAIN list[l].cells :
              /\ list[l].cells[i].name = x /\ list[l].cells[i].slot \in 2 .. z
              /\ f.before[l][x] < next
              /\ f.before[l][x] = val'[nw[next + list[l].cells[i].slot - 1].args[1]]
  <2>1. f.at = at /\ f.before = env /\ (f.was <=> on) BY <1>9
  <2> QED BY <1>10, <2>1
<1>14. Entered(f, next, z, list, nw, val') BY <1>11, <1>12, <1>13, Zenon DEF Entered
<1> QED BY <1>2, <1>3, <1>8, <1>14 DEF EnteredOK

LEMMA WhileEntries ==
  ASSUME IInv, Entries, NEW cond, NEW go \in BOOLEAN, While(cond, go)
  PROVE  Entries'
<1>0. Top(InBlock) BY DEF While, Statement, ReadIn
<1>1. Graph /\ Values /\ Blocks0 /\ Rest /\ Loops /\ Meanings BY DEF IInv
<1>2. PICK k : k = Len(frames) OBVIOUS
<1>3. PICK sc : sc = curr OBVIOUS
<1>4. PICK z : z = Len(sc.slots) OBVIOUS
<1>5. /\ frames \in Seq(Frame) /\ k \in Nat /\ k >= 1 /\ DOMAIN frames = 1 .. k /\ frames # <<>>
      /\ Laid(sc) /\ Filled(sc) /\ Len(env) = Len(sc.list)
  BY <1>0, <1>1, <1>2, <1>3, Tops
<1>6. z \in Nat BY <1>4, <1>5, LaidParts
<1>7. next + z - 1 <= MaxNode /\ nodes' = LoopNodes(sc, Ctrl(sc)) /\ next' = next + z /\ table' = table
  BY <1>3, <1>4 DEF While
<1>8. LoopShape(nodes', sc, z)
  <2>1. PICK nds : nds = nodes' OBVIOUS
  <2>2. nds = LoopNodes(sc, Ctrl(sc)) BY <1>7, <2>1
  <2>3. LoopShape(nds, sc, z) BY <1>1, <1>4, <1>5, <1>6, <1>7, <2>2, LoopMade
  <2> QED BY <2>1, <2>3
<1>9. next \in Node /\ next \in Nat /\ \A s \in 2 .. z : next + s - 1 \in Node
  BY <1>8 DEF LoopShape
<1>10. PICK hd : hd = LoopHead(SetCtrl(sc, next)) OBVIOUS
<1>11. HeadShape(hd, sc, z) BY <1>4, <1>5, <1>6, <1>9, <1>10, LoopHeadIs
<1>12. Laid(hd) /\ Ctrl(hd) = next BY <1>11 DEF HeadShape
<1>13. PICK f : f = [fn |-> "body", head |-> hd, was |-> on, go |-> go,
                     exit |-> SetCtrl(hd, IfControl(next, cond, "false")), before |-> env, at |-> At(hd)]
  OBVIOUS
<1>14. val' = LoopValuation /\ frames' = Append(frames, f)
  <2>1. hd = LoopHead(SetCtrl(curr, next)) BY <1>3, <1>10
  <2> QED BY <1>12, <1>13, <2>1, WhileParts
<1>15. f.fn = "body" /\ f.head = hd /\ f.was = on /\ f.before = env /\ f.at = At(hd) BY <1>13
<1>16. OpenLoops' = OpenLoops \cup {next} BY <1>2, <1>5, <1>12, <1>14, <1>15, OneMoreLoop
<1>17. Grown BY <1>1, <1>4, <1>5, <1>6, <1>7, <1>14, <1>16, LoopMakes
<1>18. KeepsMade
  <2>1. \A n \in Made : nodes'[n] = nodes[n] /\ val'[n] = val[n] BY <1>17 DEF Grown, Made
  <2>2. next' \in Nat /\ next <= next' BY <1>6, <1>7, <1>9
  <2> QED BY <2>1, <2>2 DEF KeepsMade
<1>19. EnteredOK(f, nodes', val')
  <2>1. on => Means(sc) /\ Ctrl(sc) # Dead BY <1>1, <1>3, <1>5 DEF Meanings
  <2>2. \A n \in Made : val'[n] = val[n] BY <1>18 DEF KeepsMade
  <2>3. on \in BOOLEAN BY <1>1 DEF Rest
  <2> QED BY <1>1, <1>4, <1>5, <1>6, <1>8, <1>11, <1>15, <2>1, <2>2, <2>3, LoopEntered
<1>20. /\ DOMAIN frames' = 1 .. k + 1 /\ frames'[k + 1] = f
       /\ \A i \in 1 .. k : frames'[i] = frames[i]
  BY <1>2, <1>5, <1>14
<1>21. ASSUME NEW i \in DOMAIN frames', frames'[i].fn = "body" PROVE EnteredOK(frames'[i], nodes', val')
  <2>1. CASE i = k + 1 BY <1>19, <1>20, <2>1
  <2>2. CASE i \in 1 .. k
    <3>1. PICK g : g = frames[i] OBVIOUS
    <3>2. g.fn = "body" /\ frames'[i] = g BY <1>20, <1>21, <2>2, <3>1
    <3>3. LoopOK(g) /\ EnteredOK(g, nodes, val) BY <1>1, <1>5, <2>2, <3>1, <3>2 DEF Loops, Entries
    <3>4. EnteredOK(g, nodes', val') BY <1>1, <1>18, <3>3, EnteredStays
    <3> QED BY <3>2, <3>4
  <2>3. i \in 1 .. k \/ i = k + 1 BY <1>5, <1>20
  <2> QED BY <2>1, <2>2, <2>3
<1>22. ASSUME NEW e \in table' PROVE e.reg < next' /\ e.reg \notin OpenLoops'
  <2>1. e.reg < next /\ e.reg \notin OpenLoops BY <1>7 DEF Entries
  <2>2. e.reg \in Nat BY <1>1, <1>7, NodesWhole DEF Graph, Node
  <2> QED BY <1>7, <1>9, <1>16, <1>18, <2>1, <2>2 DEF KeepsMade
<1> QED BY <1>21, <1>22 DEF Entries

(* What it gives on a loop that is entered: an equal phi, the value of its   *)
(* entry, or the phi.                                                      *)
PhiChoice(nds, tbl, phi, loop, entry, other, in) ==
  \/ /\ \E e \in tbl : e.node = in /\ e.reg = loop /\ e.args = <<entry, other>>
     /\ IsPhi(nds, in, loop, entry, other)
  \/ in = entry /\ (nds[loop].args[2] # Dead => other = entry)
  \/ in = phi /\ (nds[loop].args[2] # Dead => other # entry)

LEMMA PhiGiven ==
  ASSUME NEW nds, NEW phi, NEW loop, NEW entry, NEW other, IsPhi(nds, phi, loop, entry, other),
         entry # phi, other # phi, nds[loop].args[1] # Dead,
         NEW tbl, NEW in, in = PeepholePhi(nds, tbl, phi)
  PROVE  PhiChoice(nds, tbl, phi, loop, entry, other, in)
<1>1. nds[phi].kind = "phi" /\ nds[phi].reg = loop /\ nds[phi].args = <<entry, other>> BY DEF IsPhi
<1>2. CASE Same(nds, tbl, phi) # {}
  <2>1. PICK e : e = CHOOSE d \in Same(nds, tbl, phi) : TRUE OBVIOUS
  <2>2. e \in Same(nds, tbl, phi) BY <1>2, <2>1
  <2>3. /\ e \in tbl /\ e.reg = loop /\ e.args = <<entry, other>> /\ PhiKey(nds, e.node) = e
        /\ nds[e.node].kind = "phi"
    BY <1>1, <2>2 DEF Same
  <2>4. in = e.node BY <1>2, <2>1 DEF PeepholePhi
  <2>5. nds[in].reg = loop /\ nds[in].args = <<entry, other>>
    <3>1. PhiKey(nds, in).reg = nds[in].reg /\ PhiKey(nds, in).args = nds[in].args BY DEF PhiKey
    <3> QED BY <2>3, <2>4, <3>1
  <2>6. IsPhi(nds, in, loop, entry, other) BY <2>3, <2>4, <2>5 DEF IsPhi
  <2> QED BY <2>3, <2>4, <2>6 DEF PhiChoice
<1>3. CASE Same(nds, tbl, phi) = {}
  <2>1. PICK S : S = LiveArgs(nds, phi) OBVIOUS
  <2>2. in = IF Cardinality(S) = 1 THEN CHOOSE m \in S : TRUE ELSE phi BY <1>3, <2>1 DEF PeepholePhi
  <2>3. entry \in S /\ (nds[loop].args[2] # Dead => other \in S) /\ S \subseteq {entry, other}
    <3>1. DOMAIN nds[phi].args = {1, 2} /\ nds[phi].args[1] = entry /\ nds[phi].args[2] = other BY <1>1
    <3>2. S = {nds[phi].args[j] : j \in {q \in {1, 2} : nds[loop].args[q] # Dead}} \ {phi}
      BY <1>1, <2>1, <3>1 DEF LiveArgs
    <3> QED BY <3>1, <3>2
  <2>4. CASE Cardinality(S) = 1
    <3>1. IsFiniteSet({entry, other}) /\ IsFiniteSet(S)
      <4>1. PICK T : T = {entry} OBVIOUS
      <4>2. IsFiniteSet(T) BY <4>1, FS_Singleton
      <4>3. IsFiniteSet(T \cup {other}) BY <4>2, FS_AddElement
      <4>4. {entry, other} = T \cup {other} BY <4>1
      <4>5. IsFiniteSet({entry, other}) BY <4>3, <4>4
      <4> QED BY <2>3, <4>5, FS_Subset
    <3>2. PICK m : S = {m} BY <2>4, <3>1, FS_Singleton
    <3>3. in = entry BY <2>2, <2>3, <2>4, <3>2
    <3>4. nds[loop].args[2] # Dead => other = entry BY <2>3, <3>2
    <3> QED BY <3>3, <3>4 DEF PhiChoice
  <2>5. CASE Cardinality(S) # 1
    <3>1. in = phi BY <2>2, <2>5
    <3>2. other # entry
      <4> SUFFICES ASSUME other = entry PROVE FALSE OBVIOUS
      <4>1. S = {entry} BY <2>3
      <4>2. Cardinality(S) = 1 BY <4>1, FS_Singleton
      <4> QED BY <2>5, <4>2
    <3> QED BY <3>1, <3>2 DEF PhiChoice
  <2> QED BY <2>4, <2>5
<1> QED BY <1>2, <1>3

(* What the turns keep of the loop that closes.  back is the scope at the    *)
(* end of its body.                                                        *)
LoopEntry(loop, z, was) ==
  /\ nodes[loop].args[1] < loop
  /\ \A s \in 2 .. z : nodes[loop + s - 1].args[1] < loop
  /\ was => nodes[loop].args[1] # Dead
  /\ on => was
  /\ \A e \in table : e.reg # loop
FirstKept(nds, loop) ==
  \A n \in Node : nds[n].kind \in {"phi", "loop"} /\ nodes[n].args[1] < loop =>
    nds[n].args[1] = nodes[n].args[1]
(* A phi that goes into the table differs from its entry.                   *)
TableClosed(tbl, i, loop) ==
  \A e \in tbl : e \in table \/ (e.reg = loop /\ e.node < loop + i /\ (on => e.args[1] # e.args[2]))
ClosedSlot(nds, v, n, entry, i, loop, m) ==
  \/ n = entry /\ (on => v[n] = v[m])
  \/ /\ n \in loop + 1 .. loop + i - 1 /\ IsPhiOf(nds, n, loop) /\ nds[n].args[1] = entry
     /\ on => v[nds[n].args[2]] = v[m]
Followed(nds, tbl, v, bk, ex, i, loop, z, back, was) ==
  /\ FirstKept(nds, loop) /\ TableClosed(tbl, i, loop)
  /\ \A a, b \in Valued : val[a] = val[b] => v[a] = v[b]
  /\ on => nds[loop].args[2] # Dead
  /\ was => nds[loop].args[1] # Dead
  /\ \A s \in 2 .. z : v[bk.slots[s]] = v[back.slots[s]]
  /\ \A s \in 2 .. z : s > i => ex.slots[s] = loop + s - 1
  /\ was => \A s \in 2 .. i :
       ClosedSlot(nds, v, ex.slots[s], nodes[loop + s - 1].args[1], i, loop, back.slots[s])

(* One turn whose phi stays, and one whose phi goes.                        *)
Turned(nds, tbl, v, bk, ex, i, loop, z, back, was, phi, entry, other, set) ==
  /\ i \in 2 .. z /\ phi = loop + i - 1 /\ entry = nodes[phi].args[1]
  /\ nds \in [Node -> Rec] /\ TableTyped(tbl) /\ LoopEntry(loop, z, was)
  /\ Followed(nds, tbl, v, bk, ex, i - 1, loop, z, back, was)
  /\ other = (IF bk.slots[i] = phi THEN entry ELSE bk.slots[i]) /\ other \in Valued
  /\ set = SecondSet(nds, phi, entry, other) /\ IsPhi(set, phi, loop, entry, other)
Going(tbl, v, bk, ex, i, loop, z, back, was, phi, entry, other, set, in, ndt, w) ==
  /\ bk \in Scope /\ ex \in Scope /\ Len(bk.slots) = z /\ Len(ex.slots) = z
  /\ \A s \in 2 .. z : bk.slots[s] \in Valued /\ back.slots[s] \in Valued
  /\ NodesClosed(set, i, loop) /\ in \in Valued /\ in # phi
  /\ was => PhiChoice(set, tbl, phi, loop, entry, other, in)
  /\ SwappedNodes(set, phi, in, ndt)
  /\ w[in] = w[phi] /\ \A a, b \in Valued : v[a] = v[b] => w[a] = w[b]

LEMMA PhiStays ==
  ASSUME Graph, NEW loop, NEW z, LoopHere(loop, z), NEW i, NEW phi, NEW entry, NEW other,
         NEW nds, NEW tbl, NEW v, NEW bk, NEW ex, NEW back, NEW was, NEW set,
         Turned(nds, tbl, v, bk, ex, i, loop, z, back, was, phi, entry, other, set),
         on => other # entry, NEW key, key = PhiKey(set, phi)
  PROVE  Followed(set, tbl \cup {key}, v, bk, ex, i, loop, z, back, was)
<1>a. i \in 2 .. z /\ phi = loop + i - 1 /\ entry = nodes[phi].args[1] BY Zenon DEF Turned
<1>b. nds \in [Node -> Rec] /\ TableTyped(tbl) /\ LoopEntry(loop, z, was) BY Zenon DEF Turned
<1>c. Followed(nds, tbl, v, bk, ex, i - 1, loop, z, back, was) BY Zenon DEF Turned
<1>d. other = (IF bk.slots[i] = phi THEN entry ELSE bk.slots[i]) /\ other \in Valued BY Zenon DEF Turned
<1>e. set = SecondSet(nds, phi, entry, other) /\ IsPhi(set, phi, loop, entry, other) BY Zenon DEF Turned
<1>1. /\ z \in Nat /\ loop \in Nat /\ i \in Nat /\ phi \in Node /\ phi # loop /\ phi < loop + i
  <2>1. z \in Nat /\ loop \in Nat /\ phi \in Valued BY <1>a DEF LoopHere
  <2> QED BY <1>a, <2>1, NodesWhole
<1>2. \A n \in Node : n # phi => set[n] = nds[n] BY <1>b, <1>e DEF SecondSet
<1>3. set[phi].kind = "phi" /\ set[phi].reg = loop /\ set[phi].args = <<entry, other>>
      /\ set[phi].args[1] = entry /\ set[phi].args[2] = other
  <2>1. set[phi].kind = "phi" /\ set[phi].reg = loop /\ set[phi].args = <<entry, other>> BY <1>e DEF IsPhi
  <2>2. PICK a : a = <<entry, other>> OBVIOUS
  <2>3. a[1] = entry /\ a[2] = other BY <2>2
  <2> QED BY <2>1, <2>2, <2>3
<1>4. /\ FirstKept(nds, loop) /\ TableClosed(tbl, i - 1, loop)
      /\ \A a, b \in Valued : val[a] = val[b] => v[a] = v[b]
      /\ on => nds[loop].args[2] # Dead
      /\ was => nds[loop].args[1] # Dead
      /\ \A s \in 2 .. z : v[bk.slots[s]] = v[back.slots[s]]
      /\ \A s \in 2 .. z : s > i - 1 => ex.slots[s] = loop + s - 1
      /\ was => \A s \in 2 .. i - 1 :
           ClosedSlot(nds, v, ex.slots[s], nodes[loop + s - 1].args[1], i - 1, loop, back.slots[s])
  BY <1>c DEF Followed
<1>5. FirstKept(set, loop)
  <2> SUFFICES ASSUME NEW n \in Node, set[n].kind \in {"phi", "loop"}, nodes[n].args[1] < loop
               PROVE  set[n].args[1] = nodes[n].args[1]
    BY DEF FirstKept
  <2>1. CASE n = phi BY <1>a, <1>3, <2>1
  <2>2. CASE n # phi
    <3>1. set[n] = nds[n] BY <1>2, <2>2
    <3> QED BY <1>4, <3>1 DEF FirstKept
  <2> QED BY <2>1, <2>2
<1>6. TableClosed(tbl \cup {key}, i, loop)
  <2> SUFFICES ASSUME NEW e \in tbl \cup {key}, e \notin table
               PROVE  e.reg = loop /\ e.node < loop + i /\ (on => e.args[1] # e.args[2])
    BY DEF TableClosed
  <2>1. CASE e = key
    <3>1. e.node = phi /\ e.reg = set[phi].reg /\ e.args = set[phi].args BY <2>1 DEF PhiKey
    <3> QED BY <1>1, <1>3, <3>1
  <2>2. CASE e \in tbl
    <3>1. e.reg = loop /\ e.node < loop + (i - 1) /\ (on => e.args[1] # e.args[2])
      BY <1>4, <2>2 DEF TableClosed
    <3>2. e.node \in Nat BY <1>b, <2>2 DEF TableTyped, Node
    <3> QED BY <1>1, <3>1, <3>2
  <2> QED BY <2>1, <2>2
<1>7. on => set[loop].args[2] # Dead BY <1>1, <1>2, <1>4 DEF LoopHere
<1>8. was => set[loop].args[1] # Dead BY <1>1, <1>2, <1>4 DEF LoopHere
<1>9. \A s \in 2 .. z : s > i => ex.slots[s] = loop + s - 1 BY <1>1, <1>4
<1>10. ASSUME was, NEW s \in 2 .. i
       PROVE  ClosedSlot(set, v, ex.slots[s], nodes[loop + s - 1].args[1], i, loop, back.slots[s])
  <2>1. CASE s = i
    <3>1. ex.slots[s] = phi
      <4>1. i > i - 1 BY <1>1
      <4>2. i \in 2 .. z /\ phi = loop + i - 1 BY <1>a
      <4> QED BY <1>4, <2>1, <4>1, <4>2
    <3>2. phi \in loop + 1 .. loop + i - 1
      <4>1. i >= 2 /\ i \in Nat /\ loop \in Nat BY <1>a, <1>1
      <4> QED BY <1>a, <4>1
    <3>5. IsPhiOf(set, phi, loop) BY <1>1, <1>3 DEF IsPhiOf
    <3>3. on => v[other] = v[back.slots[s]]
      <4> SUFFICES ASSUME on PROVE v[other] = v[back.slots[s]] OBVIOUS
      <4>1. other = bk.slots[i] BY <1>d
      <4> QED BY <1>a, <1>4, <2>1, <4>1
    <3>4. nodes[loop + s - 1].args[1] = entry BY <1>a, <2>1
    <3> QED BY <1>3, <3>1, <3>2, <3>3, <3>4, <3>5 DEF ClosedSlot
  <2>2. CASE s \in 2 .. i - 1
    <3>1. PICK n : n = ex.slots[s] OBVIOUS
    <3>2. PICK first : first = nodes[loop + s - 1].args[1] OBVIOUS
    <3>3. PICK m : m = back.slots[s] OBVIOUS
    <3>4. ClosedSlot(nds, v, n, first, i - 1, loop, m) BY <1>4, <1>10, <2>2, <3>1, <3>2, <3>3, SMTT(30)
    <3>5. CASE n = first /\ (on => v[n] = v[m]) BY <3>1, <3>2, <3>3, <3>5 DEF ClosedSlot
    <3>6. CASE /\ n \in loop + 1 .. loop + (i - 1) - 1 /\ IsPhiOf(nds, n, loop) /\ nds[n].args[1] = first
               /\ on => v[nds[n].args[2]] = v[m]
      <4>1. n \in loop + 1 .. loop + i - 1 /\ n # phi BY <1>a, <1>1, <3>6
      <4>2. n \in Node BY <3>6 DEF IsPhiOf
      <4>3. set[n] = nds[n] BY <1>2, <4>1, <4>2
      <4>4. IsPhiOf(set, n, loop) BY <3>6, <4>3 DEF IsPhiOf
      <4> QED BY <3>1, <3>2, <3>3, <3>6, <4>1, <4>3, <4>4 DEF ClosedSlot
    <3> QED BY <3>4, <3>5, <3>6 DEF ClosedSlot
  <2>3. s = i \/ s \in 2 .. i - 1 BY <1>1
  <2> QED BY <2>1, <2>2, <2>3
<1> QED BY <1>4, <1>5, <1>6, <1>7, <1>8, <1>9, <1>10, Zenon DEF Followed

LEMMA PhiGoes ==
  ASSUME Graph, NEW loop, NEW z, LoopHere(loop, z), NEW i, NEW phi, NEW entry, NEW other,
         NEW nds, NEW tbl, NEW v, NEW bk, NEW ex, NEW back, NEW was, NEW set,
         Turned(nds, tbl, v, bk, ex, i, loop, z, back, was, phi, entry, other, set),
         NEW in, NEW ndt, NEW w,
         Going(tbl, v, bk, ex, i, loop, z, back, was, phi, entry, other, set, in, ndt, w)
  PROVE  Followed(ndt, tbl, w, SwapIn(bk, phi, in), SwapIn(ex, phi, in), i, loop, z, back, was)
<1>a. i \in 2 .. z /\ phi = loop + i - 1 /\ entry = nodes[phi].args[1] BY Zenon DEF Turned
<1>b. nds \in [Node -> Rec] /\ TableTyped(tbl) /\ LoopEntry(loop, z, was) BY Zenon DEF Turned
<1>c. Followed(nds, tbl, v, bk, ex, i - 1, loop, z, back, was) BY Zenon DEF Turned
<1>d. other = (IF bk.slots[i] = phi THEN entry ELSE bk.slots[i]) /\ other \in Valued BY Zenon DEF Turned
<1>e. set = SecondSet(nds, phi, entry, other) /\ IsPhi(set, phi, loop, entry, other) BY Zenon DEF Turned
<1>f. bk \in Scope /\ ex \in Scope /\ Len(bk.slots) = z /\ Len(ex.slots) = z BY Zenon DEF Going
<1>g. \A s \in 2 .. z : bk.slots[s] \in Valued /\ back.slots[s] \in Valued BY Zenon DEF Going
<1>h. NodesClosed(set, i, loop) /\ SwappedNodes(set, phi, in, ndt) BY Zenon DEF Going
<1>j. in \in Valued /\ in # phi BY Zenon DEF Going
<1>k. was => PhiChoice(set, tbl, phi, loop, entry, other, in) BY Zenon DEF Going
<1>l. w[in] = w[phi] /\ \A a, b \in Valued : v[a] = v[b] => w[a] = w[b] BY Zenon DEF Going
<1>0. /\ Valued \subseteq Node /\ \A n \in Valued : n \in Nat /\ n # Null /\ n # Dead
  BY NodesWhole DEF Dead
<1>1. /\ z \in Nat /\ loop \in Nat /\ loop \in Node /\ i \in Nat /\ phi \in Node /\ phi \in Valued /\ phi # loop
      /\ phi < loop + i /\ nodes[loop].kind = "loop" /\ phi \in Nat
      /\ \A n \in Node : IsPhiOf(nodes, n, loop) => n \in loop + 1 .. loop + z - 1
      /\ \A s \in 2 .. z : loop + s - 1 \in Valued
  <2>1. /\ z \in Nat /\ loop \in Nat /\ loop \in Node /\ nodes[loop].kind = "loop"
        /\ \A n \in Node : IsPhiOf(nodes, n, loop) => n \in loop + 1 .. loop + z - 1
        /\ \A s \in 2 .. z : loop + s - 1 \in Valued
    BY DEF LoopHere
  <2>5. i \in Nat /\ i >= 2
    <3>1. i \in 2 .. z BY <1>a
    <3> QED BY <2>1, <3>1
  <2>2. phi \in Valued /\ i \in Nat /\ i >= 2 BY <1>a, <2>1, <2>5
  <2>3. phi \in Node /\ phi \in Nat BY <1>0, <2>2
  <2>4. phi # loop /\ phi < loop + i BY <1>a, <2>1, <2>5
  <2> QED BY <2>1, <2>2, <2>3, <2>4
<1>2. \A n \in Node : n # phi => set[n] = nds[n] BY <1>b, <1>e DEF SecondSet
<1>3. set[phi].kind = "phi" /\ set[phi].reg = loop /\ set[phi].args = <<entry, other>>
      /\ set[phi].args[1] = entry /\ set[phi].args[2] = other
  <2>1. set[phi].kind = "phi" /\ set[phi].reg = loop /\ set[phi].args = <<entry, other>> BY <1>e DEF IsPhi
  <2>2. PICK a : a = <<entry, other>> OBVIOUS
  <2>3. a[1] = entry /\ a[2] = other BY <2>2
  <2> QED BY <2>1, <2>2, <2>3
<1>4. /\ FirstKept(nds, loop) /\ TableClosed(tbl, i - 1, loop)
      /\ \A a, b \in Valued : val[a] = val[b] => v[a] = v[b]
      /\ on => nds[loop].args[2] # Dead
      /\ was => nds[loop].args[1] # Dead
      /\ \A s \in 2 .. z : v[bk.slots[s]] = v[back.slots[s]]
      /\ \A s \in 2 .. z : s > i - 1 => ex.slots[s] = loop + s - 1
      /\ was => \A s \in 2 .. i - 1 :
           ClosedSlot(nds, v, ex.slots[s], nodes[loop + s - 1].args[1], i - 1, loop, back.slots[s])
  BY <1>c DEF Followed
<1>5. /\ entry < loop /\ \A s \in 2 .. z : nodes[loop + s - 1].args[1] < loop
      /\ on => was
      /\ \A e \in table : e.reg # loop
  <2>1. /\ \A s \in 2 .. z : nodes[loop + s - 1].args[1] < loop
        /\ on => was
        /\ \A e \in table : e.reg # loop
    BY <1>b DEF LoopEntry
  <2> QED BY <1>a, <2>1
<1>6. \A n \in Node : n # phi =>
       /\ ndt[n].kind = set[n].kind /\ ndt[n].reg = set[n].reg
       /\ Len(set[n].args) \in Nat
       /\ \A s \in 1 .. Len(set[n].args) :
            ndt[n].args[s] = IF set[n].args[s] = phi THEN in ELSE set[n].args[s]
  BY <1>h DEF SwappedNodes
<1>7. \A n \in Node : set[n].kind \in {"phi", "loop"} => Len(set[n].args) = 2
  BY <1>h DEF NodesClosed
<1>8. ASSUME NEW n \in Node, n # phi, set[n].kind \in {"phi", "loop"}
      PROVE  /\ ndt[n].kind = set[n].kind /\ ndt[n].reg = set[n].reg
             /\ ndt[n].args[1] = IF set[n].args[1] = phi THEN in ELSE set[n].args[1]
             /\ ndt[n].args[2] = IF set[n].args[2] = phi THEN in ELSE set[n].args[2]
  <2>1. Len(set[n].args) = 2 BY <1>7, <1>8
  <2>2. 1 \in 1 .. Len(set[n].args) /\ 2 \in 1 .. Len(set[n].args)
    <3>1. 1 \in 1 .. 2 /\ 2 \in 1 .. 2 OBVIOUS
    <3> QED BY <2>1, <3>1, Zenon
  <2>3. ndt[n].kind = set[n].kind /\ ndt[n].reg = set[n].reg BY <1>6, <1>8
  <2>4. \A s \in 1 .. Len(set[n].args) :
          ndt[n].args[s] = IF set[n].args[s] = phi THEN in ELSE set[n].args[s]
    BY <1>6, <1>8
  <2> QED BY <2>2, <2>3, <2>4, Zenon
<1>9. ndt[phi].kind = "gone"
  <2>1. ndt[phi] = Gone BY <1>h DEF SwappedNodes
  <2> QED BY <2>1 DEF Gone
<1>10. entry # phi /\ other # phi BY <1>a, <1>d, <1>1, <1>5
<1>11. PICK bt : bt = SwapIn(bk, phi, in) OBVIOUS
<1>12. PICK et : et = SwapIn(ex, phi, in) OBVIOUS
<1>13. \A s \in 2 .. z : /\ bt.slots[s] = (IF bk.slots[s] = phi THEN in ELSE bk.slots[s])
                         /\ et.slots[s] = (IF ex.slots[s] = phi THEN in ELSE ex.slots[s])
  <2>1. in \in Node BY <1>j, <1>0
  <2>2. \A s \in 2 .. z : s \in 1 .. z BY <1>1
  <2>3. \A s \in 1 .. z : bt.slots[s] = (IF bk.slots[s] = phi THEN in ELSE bk.slots[s])
    BY <1>f, <1>11, <2>1, <1>1, SwapScope
  <2>4. \A s \in 1 .. z : et.slots[s] = (IF ex.slots[s] = phi THEN in ELSE ex.slots[s])
    BY <1>f, <1>12, <2>1, <1>1, SwapScope
  <2> QED BY <2>2, <2>3, <2>4
<1>14. FirstKept(ndt, loop)
  <2> SUFFICES ASSUME NEW n \in Node, ndt[n].kind \in {"phi", "loop"}, nodes[n].args[1] < loop
               PROVE  ndt[n].args[1] = nodes[n].args[1]
    BY DEF FirstKept
  <2>1. n # phi BY <1>9
  <2>2. set[n] = nds[n] /\ ndt[n].kind = set[n].kind BY <1>2, <1>6, <2>1
  <2>3. nds[n].args[1] = nodes[n].args[1]
    <3>1. nds[n].kind \in {"phi", "loop"} BY <2>2
    <3>2. FirstKept(nds, loop) BY <1>4
    <3> QED BY <3>1, <3>2, Zenon DEF FirstKept
  <2>4. nodes[n].args[1] # phi BY <1>a, <1>1
  <2>5. set[n].kind \in {"phi", "loop"} BY <2>2
  <2>6. ndt[n].args[1] = IF set[n].args[1] = phi THEN in ELSE set[n].args[1] BY <1>8, <2>1, <2>5, Zenon
  <2>7. set[n].args[1] # phi BY <2>2, <2>3, <2>4
  <2> QED BY <2>2, <2>3, <2>6, <2>7
<1>15. TableClosed(tbl, i, loop)
  <2> SUFFICES ASSUME NEW e \in tbl, e \notin table
               PROVE  e.reg = loop /\ e.node < loop + i /\ (on => e.args[1] # e.args[2])
    BY DEF TableClosed
  <2>1. e.reg = loop /\ e.node < loop + (i - 1) /\ (on => e.args[1] # e.args[2])
    BY <1>4 DEF TableClosed
  <2>2. e.node \in Nat BY <1>b DEF TableTyped, Node
  <2> QED BY <1>1, <2>1, <2>2
<1>16. \A a, b \in Valued : val[a] = val[b] => w[a] = w[b] BY <1>4, <1>l
<1>17. set[loop] = nds[loop] /\ set[loop].kind = "loop"
  <2>1. set[loop] = nds[loop] BY <1>1, <1>2
  <2>2. set[loop].kind = nodes[loop].kind BY <1>1, <1>h DEF NodesClosed, IsPhiOf
  <2> QED BY <1>1, <2>1, <2>2
<1>18. (on => ndt[loop].args[2] # Dead) /\ (was => ndt[loop].args[1] # Dead)
  <2>1. /\ ndt[loop].args[1] = IF set[loop].args[1] = phi THEN in ELSE set[loop].args[1]
        /\ ndt[loop].args[2] = IF set[loop].args[2] = phi THEN in ELSE set[loop].args[2]
    BY <1>1, <1>8, <1>17, Zenon
  <2>2. in # Dead BY <1>j, <1>0
  <2> QED BY <1>4, <1>17, <2>1, <2>2
<1>19. ASSUME NEW s \in 2 .. z PROVE w[bt.slots[s]] = w[back.slots[s]]
  <2>1. w[bk.slots[s]] = w[back.slots[s]] BY <1>4, <1>g, <1>l
  <2> QED BY <1>13, <1>l, <2>1
<1>20. ASSUME NEW s \in 2 .. z, s > i PROVE et.slots[s] = loop + s - 1
  <2>1. ex.slots[s] = loop + s - 1 /\ loop + s - 1 # phi BY <1>a, <1>1, <1>4, <1>20
  <2> QED BY <1>13, <2>1
<1>21. ASSUME was, NEW s \in 2 .. i
       PROVE  ClosedSlot(ndt, w, et.slots[s], nodes[loop + s - 1].args[1], i, loop, back.slots[s])
  <2>0. s \in 2 .. z BY <1>a, <1>1
  <2>1. PICK m : m = back.slots[s] OBVIOUS
  <2>2. PICK first : first = nodes[loop + s - 1].args[1] OBVIOUS
  <2>3. CASE s = i
    <3>1. ex.slots[s] = phi
      <4>1. i > i - 1 BY <1>1
      <4> QED BY <1>a, <1>4, <2>3, <4>1
    <3>2. et.slots[s] = in /\ first = entry BY <1>a, <1>13, <2>0, <2>2, <2>3, <3>1
    <3>3. w[bk.slots[i]] = w[m] /\ (bk.slots[i] = phi \/ other = bk.slots[i])
      <4>1. v[bk.slots[s]] = v[m] BY <1>4, <2>0, <2>1
      <4>2. bk.slots[s] \in Valued /\ m \in Valued BY <1>g, <2>0, <2>1
      <4>3. w[bk.slots[i]] = w[m] BY <1>l, <2>3, <4>1, <4>2
      <4> QED BY <1>d, <4>3
    <3>4. CASE in = entry /\ (set[loop].args[2] # Dead => other = entry)
      <4>1. on => w[in] = w[m]
        <5> SUFFICES ASSUME on PROVE w[in] = w[m] OBVIOUS
        <5>1. other = entry BY <1>4, <1>17, <3>4
        <5>2. in = other BY <3>4, <5>1
        <5> QED BY <1>l, <3>3, <5>2
      <4> QED BY <2>1, <2>2, <3>2, <3>4, <4>1 DEF ClosedSlot
    <3>5. CASE /\ \E e \in tbl : e.node = in /\ e.reg = loop /\ e.args = <<entry, other>>
               /\ IsPhi(set, in, loop, entry, other)
      <4>1. PICK e \in tbl : e.node = in /\ e.reg = loop /\ e.args = <<entry, other>> BY <3>5
      <4>2. in < loop + (i - 1) /\ (on => entry # other)
        <5>1. e \notin table BY <1>5, <4>1
        <5>2. e.node < loop + (i - 1) /\ (on => e.args[1] # e.args[2]) BY <1>4, <5>1 DEF TableClosed
        <5>3. PICK a : a = <<entry, other>> OBVIOUS
        <5>4. a[1] = entry /\ a[2] = other BY <5>3
        <5>5. e.args[1] = entry /\ e.args[2] = other BY <4>1, <5>3, <5>4, Zenon
        <5> QED BY <4>1, <5>2, <5>5, Zenon
      <4>3. in \in Node /\ in \in Nat BY <1>j, <1>0
      <4>4. set[in].kind = "phi" /\ set[in].reg = loop /\ set[in].args = <<entry, other>>
        BY <3>5 DEF IsPhi
      <4>5. in > loop
        <5>0. Gone.kind = "gone" BY DEF Gone
        <5>1. set[in] # Gone BY <4>4, <5>0
        <5>2. \/ set[in].kind = nodes[in].kind /\ (nodes[in].kind = "phi" => set[in].reg = nodes[in].reg)
              \/ set[in] = Gone
          BY <1>h, <4>3, Zenon DEF NodesClosed
        <5>4. IsPhiOf(nodes, in, loop) BY <4>3, <4>4, <5>1, <5>2 DEF IsPhiOf
        <5>5. in \in loop + 1 .. loop + z - 1 BY <1>1, <4>3, <5>4
        <5> QED BY <1>1, <5>5
      <4>6. in \in loop + 1 .. loop + i - 1 BY <1>1, <4>2, <4>3, <4>5
      <4>7. set[in].args[1] = entry /\ set[in].args[2] = other
        <5>1. PICK a : a = <<entry, other>> OBVIOUS
        <5>2. a[1] = entry /\ a[2] = other BY <5>1
        <5> QED BY <4>4, <5>1, <5>2
      <4>8. ndt[in].kind = "phi" /\ ndt[in].reg = loop /\ ndt[in].args[1] = entry /\ ndt[in].args[2] = other
        <5>1. set[in].kind \in {"phi", "loop"} BY <4>4
        <5>2. /\ ndt[in].kind = set[in].kind /\ ndt[in].reg = set[in].reg
              /\ ndt[in].args[1] = IF set[in].args[1] = phi THEN in ELSE set[in].args[1]
              /\ ndt[in].args[2] = IF set[in].args[2] = phi THEN in ELSE set[in].args[2]
          BY <1>j, <1>8, <4>3, <5>1, Zenon
        <5> QED BY <1>10, <4>4, <4>7, <5>2
      <4>9. on => w[other] = w[m] BY <1>d, <3>3, <4>2
      <4>10. IsPhiOf(ndt, in, loop) BY <4>3, <4>8 DEF IsPhiOf
      <4> QED BY <2>1, <2>2, <3>2, <4>6, <4>8, <4>9, <4>10 DEF ClosedSlot
    <3>6. PhiChoice(set, tbl, phi, loop, entry, other, in) BY <1>k, <1>21
    <3> QED BY <3>4, <3>5, <3>6, <1>j DEF PhiChoice
  <2>4. CASE s \in 2 .. i - 1
    <3>1. PICK n : n = ex.slots[s] OBVIOUS
    <3>2. ClosedSlot(nds, v, n, first, i - 1, loop, m) BY <1>4, <1>21, <2>1, <2>2, <2>4, <3>1
    <3>3. first < loop /\ m \in Valued BY <1>g, <1>5, <2>0, <2>1, <2>2, SMTT(30)
    <3>4. CASE n = first /\ (on => v[n] = v[m])
      <4>1. n # phi BY <1>a, <1>1, <3>3, <3>4
      <4>2. et.slots[s] = n BY <1>13, <2>0, <3>1, <4>1
      <4>3. first \in Valued
        <5>1. loop + s - 1 \in Valued /\ IsPhiOf(nodes, loop + s - 1, loop) BY <2>0 DEF LoopHere
        <5>2. PICK p : p = loop + s - 1 OBVIOUS
        <5>3. p \in Node /\ nodes[p].kind = "phi" BY <5>1, <5>2 DEF IsPhiOf
        <5>4. nodes[p].args[1] \in Valued BY <5>3 DEF Graph
        <5> QED BY <2>2, <5>2, <5>4
      <4>4. on => w[n] = w[m] BY <1>l, <3>3, <3>4, <4>3
      <4> QED BY <2>1, <2>2, <3>4, <4>2, <4>4 DEF ClosedSlot
    <3>5. CASE /\ n \in loop + 1 .. loop + (i - 1) - 1 /\ IsPhiOf(nds, n, loop) /\ nds[n].args[1] = first
               /\ on => v[nds[n].args[2]] = v[m]
      <4>1. n \in loop + 1 .. loop + i - 1 /\ n # phi /\ n < loop + i /\ n \in Nat
        <5>1. n \in loop + 1 .. loop + (i - 1) - 1 BY <3>5
        <5>2. loop \in Nat /\ i \in Nat BY <1>1
        <5> QED BY <1>a, <5>1, <5>2
      <4>2. n \in Node /\ nds[n].kind = "phi" /\ nds[n].reg = loop BY <3>5 DEF IsPhiOf
      <4>3. et.slots[s] = n BY <1>13, <2>0, <3>1, <4>1
      <4>4. set[n] = nds[n] BY <1>2, <4>1, <4>2
      <4>5. /\ ndt[n].kind = "phi" /\ ndt[n].reg = loop
            /\ ndt[n].args[1] = (IF nds[n].args[1] = phi THEN in ELSE nds[n].args[1])
            /\ ndt[n].args[2] = (IF nds[n].args[2] = phi THEN in ELSE nds[n].args[2])
        <5>1. set[n].kind \in {"phi", "loop"} BY <4>2, <4>4
        <5>2. /\ ndt[n].kind = set[n].kind /\ ndt[n].reg = set[n].reg
              /\ ndt[n].args[1] = IF set[n].args[1] = phi THEN in ELSE set[n].args[1]
              /\ ndt[n].args[2] = IF set[n].args[2] = phi THEN in ELSE set[n].args[2]
          BY <1>8, <4>1, <4>2, <5>1, Zenon
        <5>3. ndt[n].kind = "phi" /\ ndt[n].reg = loop BY <4>2, <4>4, <5>2
        <5>4. PICK a : a = nds[n].args OBVIOUS
        <5>5. /\ ndt[n].args[1] = IF a[1] = phi THEN in ELSE a[1]
              /\ ndt[n].args[2] = IF a[2] = phi THEN in ELSE a[2]
          <6>1. set[n].args = a BY <4>4, <5>4
          <6> QED BY <5>2, <6>1, Zenon
        <5> QED BY <5>3, <5>4, <5>5, Zenon
      <4>6. IsPhiOf(ndt, n, loop) /\ ndt[n].args[1] = first
        <5>1. first # phi BY <1>a, <1>1, <3>3
        <5> QED BY <3>5, <4>2, <4>5, <5>1 DEF IsPhiOf
      <4>7. nds[n].args[2] \in Valued
        <5>1. set[n].kind = "phi" BY <4>2, <4>4
        <5>2. /\ set[n].args[2] \in Valued \cup {Null}
              /\ set[n].args[2] = Null <=> nodes[n].reg \in OpenLoops /\ (nodes[n].reg = loop => n >= loop + i)
          BY <1>h, <4>2, <5>1 DEF NodesClosed
        <5>3. nodes[n].reg = loop
          <6>1. nodes[n].kind = "phi" => set[n].reg = nodes[n].reg \/ set[n] = Gone BY <1>h, <4>2 DEF NodesClosed
          <6>4. Gone.kind = "gone" BY DEF Gone
          <6>2. set[n] # Gone BY <5>1, <6>4
          <6>3. set[n].kind = nodes[n].kind BY <1>h, <4>2, <6>2 DEF NodesClosed
          <6> QED BY <4>2, <4>4, <5>1, <6>1, <6>2, <6>3
        <5>4. ~ (n >= loop + i) BY <1>1, <4>1
        <5> QED BY <4>4, <5>2, <5>3, <5>4
      <4>8. on => w[ndt[n].args[2]] = w[m]
        <5> SUFFICES ASSUME on PROVE w[ndt[n].args[2]] = w[m] OBVIOUS
        <5>1. PICK a : a = nds[n].args[2] OBVIOUS
        <5>2. w[a] = w[m] BY <1>l, <3>3, <3>5, <4>7, <5>1
        <5>3. nds[n].args[2] = phi => w[in] = w[nds[n].args[2]] BY <1>l
        <5> QED BY <4>5, <5>1, <5>2, <5>3
      <4> QED BY <2>1, <2>2, <4>1, <4>3, <4>6, <4>8 DEF ClosedSlot
    <3> QED BY <3>2, <3>4, <3>5 DEF ClosedSlot
  <2>5. s = i \/ s \in 2 .. i - 1 BY <1>1
  <2> QED BY <2>3, <2>4, <2>5
<1>22. Followed(ndt, tbl, w, bt, et, i, loop, z, back, was)
  BY <1>14, <1>15, <1>16, <1>18, <1>19, <1>20, <1>21, Zenon DEF Followed
<1> QED BY <1>11, <1>12, <1>22
LEMMA FollowStep ==
  ASSUME Graph, NEW loop, NEW z, LoopHere(loop, z), NEW i \in 2 .. z, z >= 1,
         NEW st, NEW out, Closed(st, i - 1, loop, z, out), NEW sd, sd = ClosePhi(st, i),
         NEW back, \A s \in 2 .. z : back.slots[s] \in Valued, NEW was, LoopEntry(loop, z, was),
         Followed(st.nodes, st.table, st.val, st.back, st.exit, i - 1, loop, z, back, was)
  PROVE  Followed(sd.nodes, sd.table, sd.val, sd.back, sd.exit, i, loop, z, back, was)
<1>1. PICK phi, entry, other, set, in : Turning(st, sd, i, loop, phi, entry, other, set, in)
  BY TurnTaken, Zenon
<1>2. PICK nds : nds = st.nodes OBVIOUS
<1>3. PICK tbl : tbl = st.table OBVIOUS
<1>4. PICK v : v = st.val OBVIOUS
<1>5. PICK bk : bk = st.back OBVIOUS
<1>6. PICK ex : ex = st.exit OBVIOUS
<1>7. /\ phi = loop + i - 1 /\ phi \in Valued
      /\ nds[phi].kind = "phi" /\ entry = nds[phi].args[1] /\ entry \in Valued
      /\ other = (IF bk.slots[i] = phi THEN entry ELSE bk.slots[i]) /\ other \in Valued
      /\ set = SecondSet(nds, phi, entry, other)
      /\ NodesClosed(set, i, loop) /\ IsPhi(set, phi, loop, entry, other)
      /\ in = PeepholePhi(set, tbl, phi) /\ in \in Valued
  BY <1>1, <1>2, <1>3, <1>5, Zenon DEF Turning
<1>8. /\ nds \in [Node -> Rec] /\ TableTyped(tbl) /\ ValuesClosed(v, i - 1, loop, z)
      /\ bk \in Scope /\ ex \in Scope /\ Len(bk.slots) = z /\ Len(ex.slots) = z
      /\ \A s \in 2 .. z : bk.slots[s] \in Valued
  BY <1>2, <1>3, <1>4, <1>5, <1>6 DEF Closed, ScopesClosed, NodesClosed
<1>9. Followed(nds, tbl, v, bk, ex, i - 1, loop, z, back, was) BY <1>2, <1>3, <1>4, <1>5, <1>6
<1>10. /\ Valued \subseteq Node /\ \A n \in Valued : n \in Nat
       /\ z \in Nat /\ loop \in Nat /\ loop \in Node /\ phi \in Node /\ phi # loop /\ i \in Nat
  <2>1. z \in Nat /\ loop \in Nat /\ loop \in Node BY DEF LoopHere
  <2> QED BY <1>7, <2>1, NodesWhole
<1>11. entry = nodes[phi].args[1] /\ entry < loop
  <2>1. nodes[phi].args[1] < loop BY <1>7, SMTT(30) DEF LoopEntry
  <2>2. nds[phi].args[1] = nodes[phi].args[1] BY <1>7, <1>9, <1>10, <2>1 DEF Followed, FirstKept
  <2> QED BY <1>7, <2>1, <2>2
<1>12. entry # phi /\ other # phi BY <1>7, <1>10, <1>11, SMTT(30)
<1>13. was => PhiChoice(set, tbl, phi, loop, entry, other, in)
  <2> SUFFICES ASSUME was PROVE PhiChoice(set, tbl, phi, loop, entry, other, in) OBVIOUS
  <2>1. set[loop] = nds[loop] BY <1>7, <1>10 DEF SecondSet
  <2>2. set[loop].args[1] # Dead BY <1>9, <2>1 DEF Followed
  <2> QED BY <1>7, <1>12, <2>2, PhiGiven
<1>16. Turned(nds, tbl, v, bk, ex, i, loop, z, back, was, phi, entry, other, set)
  BY <1>7, <1>8, <1>9, <1>11 DEF Turned
<1>14. CASE in = phi
  <2>1. PICK key : key = PhiKey(set, phi) OBVIOUS
  <2>2. sd = [nodes |-> set, table |-> tbl \cup {key}, val |-> v, ok |-> st.ok,
              head |-> st.head, back |-> bk, exit |-> ex]
    BY <1>1, <1>3, <1>4, <1>5, <1>6, <1>14, <2>1, Zenon DEF Turning, Turn
  <2>3. sd.nodes = set /\ sd.table = tbl \cup {key} /\ sd.val = v /\ sd.back = bk /\ sd.exit = ex
    BY <2>2
  <2>4. on => other # entry
    <3> SUFFICES ASSUME on PROVE other # entry OBVIOUS
    <3>1. was BY DEF LoopEntry
    <3>2. set[loop].args[2] # Dead
      <4>1. set[loop] = nds[loop] BY <1>7, <1>10 DEF SecondSet
      <4> QED BY <1>9, <4>1 DEF Followed
    <3>3. ~ \E e \in tbl : e.node = in /\ e.reg = loop /\ e.args = <<entry, other>>
      <4> SUFFICES ASSUME NEW e \in tbl, e.node = in, e.reg = loop PROVE FALSE OBVIOUS
      <4>1. e \notin table BY DEF LoopEntry
      <4>2. e.node < loop + (i - 1) BY <1>9, <4>1 DEF Followed, TableClosed
      <4> QED BY <1>7, <1>10, <1>14, <4>2
    <3> QED BY <1>12, <1>13, <1>14, <3>1, <3>2, <3>3 DEF PhiChoice
  <2>5. Followed(set, tbl \cup {key}, v, bk, ex, i, loop, z, back, was)
    BY <1>16, <2>1, <2>4, PhiStays
  <2> QED BY <2>3, <2>5
<1>15. CASE in # phi
  <2>1. PICK ndt : ndt = Subsume(set, phi, in) OBVIOUS
  <2>2. PICK w : w = Swap(v, phi, v[in]) OBVIOUS
  <2>3. PICK bt : bt = SwapIn(bk, phi, in) OBVIOUS
  <2>4. PICK et : et = SwapIn(ex, phi, in) OBVIOUS
  <2>5. sd = [nodes |-> ndt, table |-> tbl, val |-> w, ok |-> st.ok,
              head |-> SwapIn(st.head, phi, in), back |-> bt, exit |-> et]
    BY <1>1, <1>3, <1>4, <1>5, <1>6, <1>15, <2>1, <2>2, <2>3, <2>4, ZenonT(40) DEF Turning, Turn
  <2>6. sd.nodes = ndt /\ sd.table = tbl /\ sd.val = w /\ sd.back = bt /\ sd.exit = et BY <2>5
  <2>7. SwappedNodes(set, phi, in, ndt)
    <3>1. set \in [Node -> Rec] BY <1>7, Zenon DEF NodesClosed
    <3> QED BY <1>7, <1>10, <2>1, <3>1, SwapNodes
  <2>8. (\A a, b \in Valued : v[a] = v[b] => w[a] = w[b]) /\ w[in] = w[phi]
    <3>1. phi = loop + i - 1 /\ in \in Valued BY <1>7
    <3>2. ValuesClosed(v, i - 1, loop, z) BY <1>8
    <3> QED BY <2>2, <3>1, <3>2, ValueGiven
  <2>9. Going(tbl, v, bk, ex, i, loop, z, back, was, phi, entry, other, set, in, ndt, w)
    <3>1. /\ bk \in Scope /\ ex \in Scope /\ Len(bk.slots) = z /\ Len(ex.slots) = z
          /\ \A s \in 2 .. z : bk.slots[s] \in Valued /\ back.slots[s] \in Valued
      BY <1>8
    <3>2. NodesClosed(set, i, loop) /\ in \in Valued /\ in # phi BY <1>7, <1>15
    <3> QED BY <1>13, <2>7, <2>8, <3>1, <3>2, Zenon DEF Going
  <2>10. Followed(ndt, tbl, w, SwapIn(bk, phi, in), SwapIn(ex, phi, in), i, loop, z, back, was)
    BY <1>16, <2>9, PhiGoes
  <2> QED BY <2>3, <2>4, <2>6, <2>10
<1> QED BY <1>14, <1>15

(* When the back edge is set.                                              *)
LEMMA FollowStart ==
  ASSUME Graph, NEW loop, NEW z, LoopHere(loop, z), NEW was, LoopEntry(loop, z, was),
         NEW head, NEW back, NEW out, Ctrl(head) = loop, on => Ctrl(back) # Dead,
         \A s \in 2 .. z : out.slots[s] = loop + s - 1,
         NEW st, st = Closing(head, back, out)
  PROVE  Followed(st.nodes, st.table, st.val, st.back, st.exit, 1, loop, z, back, was)
<1>1. PICK a : a = <<nodes[loop].args[1], Ctrl(back)>> OBVIOUS
<1>2. a[1] = nodes[loop].args[1] /\ a[2] = Ctrl(back) BY <1>1
<1>3. PICK nds : nds = [nodes EXCEPT ![loop] = Loop(a)] OBVIOUS
<1>4. st = [nodes |-> nds, table |-> table, val |-> val, ok |-> TRUE, head |-> head, back |-> back, exit |-> out]
  BY <1>1, <1>3 DEF Closing
<1>5. st.nodes = nds /\ st.table = table /\ st.val = val /\ st.back = back /\ st.exit = out BY <1>4
<1>6. nds[loop].args = a /\ \A n \in Node : n # loop => nds[n] = nodes[n]
  <2>1. loop \in Node /\ nodes \in [Node -> Rec] BY DEF LoopHere, Graph
  <2>2. PICK one : one = Loop(a) OBVIOUS
  <2>3. nds[loop] = one BY <1>3, <2>1, <2>2
  <2>4. one.args = a BY <2>2 DEF Loop
  <2> QED BY <1>3, <2>1, <2>3, <2>4
<1>7. FirstKept(nds, loop) BY <1>2, <1>6 DEF FirstKept
<1>8. TableClosed(table, 1, loop) BY DEF TableClosed
<1>9. (on => nds[loop].args[2] # Dead) /\ (was => nds[loop].args[1] # Dead) BY <1>2, <1>6 DEF LoopEntry
<1>10. \A s \in 2 .. 1 : FALSE OBVIOUS
<1>11. was => \A s \in 2 .. 1 :
         ClosedSlot(nds, val, out.slots[s], nodes[loop + s - 1].args[1], 1, loop, back.slots[s])
  BY <1>10
<1>12. Followed(nds, table, val, back, out, 1, loop, z, back, was)
  BY <1>7, <1>8, <1>9, <1>11, Zenon DEF Followed
<1> QED BY <1>5, <1>12

(* And through all turns.                                                  *)
LEMMA LoopFollowed ==
  ASSUME Graph, Values, NEW z, NEW loop, LoopHere(loop, z), z >= 1,
         NEW head \in Scope, NEW back \in Scope, NEW out \in Scope,
         Len(head.slots) = z, Len(back.slots) = z, Len(out.slots) = z, Ctrl(head) = loop,
         Ctrl(out) \in {Live, Dead, loop},
         \A s \in 2 .. z : /\ back.slots[s] \in Valued /\ val[loop + s - 1] = loop + s - 1
                           /\ head.slots[s] = loop + s - 1 /\ out.slots[s] = loop + s - 1,
         NEW was, LoopEntry(loop, z, was), on => Ctrl(back) # Dead,
         NEW end, end = EndLoop(head, back, out)
  PROVE  Followed(end.nodes, end.table, end.val, end.back, end.exit, z, loop, z, back, was)
<1>1. z \in Nat BY DEF LoopHere
<1>2. PICK start : start = Closing(head, back, out) OBVIOUS
<1> DEFINE Good(st, i) == /\ Closed(st, i, loop, z, out)
                          /\ Followed(st.nodes, st.table, st.val, st.back, st.exit, i, loop, z, back, was)
<1>3. Good(start, 1) BY <1>2, CloseStart, FollowStart
<1> DEFINE h == CHOOSE f : TurnsOf(f, z, start)
<1>4. TurnsOf(h, z, start) BY <1>1, TurnsExist
<1>5. end = h[z] BY <1>2 DEF EndLoop, TurnsOf
<1> HIDE DEF h
<1>6. \A i \in 1 .. z : h[i] = IF i = 1 THEN start ELSE ClosePhi(h[i - 1], i) BY <1>4 DEF TurnsOf
<1>7. ASSUME NEW i \in 2 .. z, NEW st, Good(st, i - 1), NEW sd, sd = ClosePhi(st, i) PROVE Good(sd, i)
  <2>1. Closed(st, i - 1, loop, z, out) BY <1>7
  <2>2. Closed(sd, i, loop, z, out) BY <1>7, <2>1, CloseStep
  <2>3. Followed(st.nodes, st.table, st.val, st.back, st.exit, i - 1, loop, z, back, was) BY <1>7
  <2>4. \A s \in 2 .. z : back.slots[s] \in Valued OBVIOUS
  <2>5. Followed(sd.nodes, sd.table, sd.val, sd.back, sd.exit, i, loop, z, back, was)
    BY <1>7, <2>1, <2>3, <2>4, FollowStep
  <2> QED BY <2>2, <2>5
<1> HIDE DEF Good
<1> DEFINE S == {i \in Nat : i + 1 <= z => Good(h[i + 1], i + 1)}
<1>8. 0 \in S
  <2>1. h[1] = start BY <1>1, <1>6
  <2> QED BY <1>3, <2>1
<1>9. \A i \in Nat : i \in S => i + 1 \in S
  <2> SUFFICES ASSUME NEW i \in Nat, i \in S, (i + 1) + 1 <= z PROVE Good(h[(i + 1) + 1], (i + 1) + 1)
    OBVIOUS
  <2>1. PICK j : j = (i + 1) + 1 OBVIOUS
  <2>2. j \in 2 .. z /\ j \in 1 .. z /\ j # 1 /\ j - 1 = i + 1 /\ i + 1 <= z BY <1>1, <2>1
  <2>3. h[j] = ClosePhi(h[j - 1], j) BY <1>6, <2>2
  <2>4. Good(h[j - 1], j - 1) BY <2>2
  <2>5. Good(h[j], j) BY <1>7, <2>2, <2>3, <2>4
  <2> QED BY <2>1, <2>5
<1> HIDE DEF S
<1>10. z - 1 \in Nat /\ (z - 1) + 1 = z BY <1>1
<1>11. z - 1 \in S BY <1>8, <1>9, <1>10, Induct
<1>12. Good(h[z], z)
  <2>1. z <= z BY <1>1
  <2> QED BY <1>10, <1>11, <2>1 DEF S
<1> QED BY <1>5, <1>12 DEF Good

LEMMA LoopWays ==
  ASSUME IInv, Entries, NEW k \in Nat, NEW f \in LoopFrame, NEW lev \in [DOMAIN frames -> Nat], NEW b \in Nat,
         InLoop(k, f, lev, b), NEW loop, loop = Ctrl(f.head), NEW z, z = Len(f.head.slots),
         NEW back, back = PopScope(curr), NEW end, end = EndLoop(f.head, back, f.exit)
  PROVE  /\ Closable(loop, z, f.head, back, f.exit) /\ LoopEntry(loop, z, f.was)
         /\ Closed(end, z, loop, z, f.exit)
         /\ Followed(end.nodes, end.table, end.val, end.back, end.exit, z, loop, z, back, f.was)
<1>1. Graph /\ Values /\ Meanings BY DEF IInv
<1>2. PICK head : head = f.head OBVIOUS
<1>3. PICK out : out = f.exit OBVIOUS
<1>4. Closable(loop, z, head, back, out) BY <1>2, <1>3, LoopReady
<1>5. /\ LoopHere(loop, z) /\ z >= 1 /\ head \in Scope /\ back \in Scope /\ out \in Scope
      /\ Len(head.slots) = z /\ Len(back.slots) = z /\ Len(out.slots) = z
      /\ Ctrl(head) = loop /\ Ctrl(out) \in {Live, Dead, loop}
      /\ \A s \in 2 .. z : /\ back.slots[s] \in Valued /\ val[loop + s - 1] = loop + s - 1
                           /\ head.slots[s] = loop + s - 1 /\ out.slots[s] = loop + s - 1
  BY <1>4 DEF Closable
<1>6. /\ k \in DOMAIN frames /\ f = frames[k] /\ f.fn = "body" /\ (on => f.was) /\ frames # <<>>
      /\ Laid(curr) /\ Len(curr.list) >= 2
  <2>1. /\ k = Len(frames) /\ k >= 2 /\ DOMAIN frames = 1 .. k /\ f = frames[k] /\ f.fn = "body"
        /\ (on => OnSide(f)) /\ Laid(curr) /\ Len(curr.list) = b + 1 /\ b >= 1
    BY DEF InLoop
  <2>2. on => f.was BY <2>1 DEF OnSide
  <2>3. frames # <<>> BY <2>1
  <2> QED BY <2>1, <2>2, <2>3
<1>7. LoopEntry(loop, z, f.was)
  <2>1. EnteredOK(f, nodes, val) /\ \A e \in table : e.reg \notin OpenLoops BY <1>6 DEF Entries
  <2>2. loop \in OpenLoops BY <1>5 DEF LoopHere
  <2>3. /\ nodes[loop].args[1] < loop /\ \A s \in 2 .. z : nodes[loop + s - 1].args[1] < loop
        /\ f.was => nodes[loop].args[1] # Dead
    BY <2>1, Zenon DEF EnteredOK, Entered
  <2> QED BY <1>6, <2>1, <2>2, <2>3 DEF LoopEntry
<1>8. on => Ctrl(back) # Dead
  <2> SUFFICES ASSUME on PROVE Ctrl(back) # Dead OBVIOUS
  <2>1. Ctrl(curr) # Dead BY <1>1, <1>6 DEF Meanings
  <2>2. PICK sc : sc = curr OBVIOUS
  <2>3. Laid(sc) /\ Len(sc.list) >= 2 /\ back = PopScope(sc) BY <1>6, <2>2
  <2>4. \A s \in 1 .. Len(back.slots) : back.slots[s] = sc.slots[s] BY <2>3, Popped
  <2>5. 1 \in 1 .. Len(back.slots) BY <1>5 DEF LoopHere
  <2> QED BY <2>1, <2>2, <2>4, <2>5 DEF Ctrl
<1>9. end = EndLoop(head, back, out) BY <1>2, <1>3
<1>10. Closed(end, z, loop, z, out) BY <1>1, <1>5, <1>9, LoopCloses
<1>11. PICK was : was = f.was OBVIOUS
<1>12. LoopEntry(loop, z, was) BY <1>7, <1>11
<1>13. Followed(end.nodes, end.table, end.val, end.back, end.exit, z, loop, z, back, was)
  BY <1>1, <1>5, <1>8, <1>9, <1>12, LoopFollowed, ZenonT(40)
<1> QED BY <1>2, <1>3, <1>4, <1>7, <1>10, <1>11, <1>13

(* The end of a loop, with what its turns keep.                            *)
Ending(f, k, b, loop, z, back, bk) ==
  /\ f \in LoopFrame /\ f = Last(frames) /\ k \in Nat /\ k >= 2 /\ k = Len(frames) /\ f = frames[k]
  /\ f.fn = "body"
  /\ loop = Ctrl(f.head) /\ z = Len(f.head.slots) /\ back = PopScope(curr)
  /\ Laid(curr) /\ b \in Nat /\ b >= 1 /\ Len(curr.list) = b + 1 /\ Laid(f.head) /\ Len(f.head.list) = b
  /\ \A l \in 1 .. b : f.head.list[l] = curr.list[l]
  /\ Len(back.slots) = z /\ \A s \in 2 .. z : back.slots[s] \in Valued
  /\ Len(f.at) = b
  /\ LoopEntry(loop, z, f.was) /\ Shut(loop, z) /\ frames' = Front(frames)
  /\ Followed(nodes', table', val', bk, curr', z, loop, z, back, f.was)

LEMMA EndWhileTaken ==
  ASSUME IInv, Entries, EndWhile
  PROVE  \E f, k, b, loop, z, back, bk : Ending(f, k, b, loop, z, back, bk)
<1>1. Top({"body"}) BY DEF EndWhile
<1>2. PICK k \in Nat, f \in LoopFrame, lev \in [DOMAIN frames -> Nat], b \in Nat : InLoop(k, f, lev, b)
  BY <1>1, LoopTop
<1>3. PICK loop : loop = Ctrl(f.head) OBVIOUS
<1>4. PICK z : z = Len(f.head.slots) OBVIOUS
<1>5. PICK back : back = PopScope(curr) OBVIOUS
<1>6. PICK end : end = EndLoop(f.head, back, f.exit) OBVIOUS
<1>7. /\ Closable(loop, z, f.head, back, f.exit) /\ LoopEntry(loop, z, f.was)
      /\ Closed(end, z, loop, z, f.exit)
      /\ Followed(end.nodes, end.table, end.val, end.back, end.exit, z, loop, z, back, f.was)
  BY <1>2, <1>3, <1>4, <1>5, <1>6, LoopWays
<1>8. /\ k = Len(frames) /\ k >= 2 /\ f = frames[k] /\ f = Last(frames) /\ f.fn = "body" /\ LoopOK(f)
      /\ b >= 1 /\ Len(curr.list) = b + 1 /\ Laid(curr) /\ Laid(f.head) /\ Len(f.head.list) = b
      /\ \A l \in 1 .. b : f.head.list[l] = curr.list[l]
  BY <1>2 DEF InLoop
<1>9. nodes[loop].kind = "loop" /\ nodes[loop].args[2] = Null /\ Len(f.at) = b
  BY <1>3, <1>8, Zenon DEF LoopOK
<1>10. /\ LoopHere(loop, z) /\ Len(back.slots) = z /\ \A s \in 2 .. z : back.slots[s] \in Valued
  BY <1>7 DEF Closable
<1>11. /\ end.ok = TRUE
       /\ NodesClosed(end.nodes, z, loop) /\ ValuesClosed(end.val, z, loop, z) /\ TableTyped(end.table)
  BY <1>7 DEF Closed
<1>12. /\ frames' = Front(frames) /\ curr' = end.exit
       /\ nodes' = end.nodes /\ table' = end.table /\ val' = end.val /\ next' = next
  <2>1. nodes[Ctrl(f.head)].kind = "loop" /\ nodes[Ctrl(f.head)].args[2] = Null BY <1>3, <1>9
  <2>2. end = EndLoop(f.head, PopScope(curr), f.exit) BY <1>5, <1>6
  <2>3. f = Last(frames) BY <1>8
  <2>4. end.ok = TRUE BY <1>11
  <2> QED BY <2>1, <2>2, <2>3, <2>4, EndWhileParts
<1>13. Shut(loop, z) BY <1>10, <1>11, <1>12 DEF Shut
<1>14. PICK bk : bk = end.back OBVIOUS
<1>15. Followed(nodes', table', val', bk, curr', z, loop, z, back, f.was) BY <1>7, <1>12, <1>14
<1>16. Ending(f, k, b, loop, z, back, bk)
  BY <1>2, <1>3, <1>4, <1>5, <1>7, <1>8, <1>9, <1>10, <1>12, <1>13, <1>15, Zenon DEF Ending
<1> QED BY <1>16, Zenon

LEMMA EnteredShut ==
  ASSUME Graph, Values, NEW loop, NEW z, Shut(loop, z), FirstKept(nodes', loop),
         NEW f, LoopOK(f), EnteredOK(f, nodes, val), Ctrl(f.head) < loop
  PROVE  EnteredOK(f, nodes', val')
<1>1. PICK head : head = Ctrl(f.head) OBVIOUS
<1>2. PICK y : y = Len(f.head.slots) OBVIOUS
<1>3. PICK list : list = f.head.list OBVIOUS
<1>4. /\ Valued \subseteq Node /\ \A n \in Valued : n \in Nat
      /\ Made \subseteq Node /\ next \in Nat
  BY NodesWhole
<1>5. /\ head \in Made /\ nodes[head].kind = "loop"
      /\ \A s \in 2 .. y : IsPhiOf(nodes, head + s - 1, head)
  BY <1>1, <1>2, Zenon DEF LoopOK
<1>6. /\ loop \in Nat
      /\ \A n \in Node : \/ nodes'[n].kind = nodes[n].kind
                         \/ nodes'[n] = Gone /\ IsPhiOf(nodes, n, loop)
      /\ \A n \in Valued : val[n] \notin loop + 1 .. loop + z - 1 => val'[n] = val[n]
  BY ShutParts
<1>7. head \in Node /\ head \in Nat /\ head < loop BY <1>1, <1>4, <1>5 DEF Made
<1>8. /\ nodes[head].args[1] < head
      /\ \A s \in 2 .. y : nodes[head + s - 1].args[1] < head
      /\ f.was =>
           /\ nodes[head].args[1] # Dead
           /\ \A l \in DOMAIN f.at : \A x \in DOMAIN f.at[l] :
                \E i \in DOMAIN list[l].cells :
                  /\ list[l].cells[i].name = x /\ list[l].cells[i].slot \in 2 .. y
                  /\ f.before[l][x] < head
                  /\ f.before[l][x] = val[nodes[head + list[l].cells[i].slot - 1].args[1]]
  <2>1. Entered(f, head, y, list, nodes, val) BY <1>1, <1>2, <1>3 DEF EnteredOK
  <2> QED BY <2>1, Zenon DEF Entered
<1>9. nodes'[head].args[1] = nodes[head].args[1]
  <2>1. nodes'[head].kind = "loop" BY <1>5, <1>6, <1>7, SMTT(30) DEF IsPhiOf
  <2>2. nodes[head].args[1] < loop
    <3>1. nodes[head] \in Rec /\ Len(nodes[head].args) = 2 BY <1>5, <1>7 DEF Graph
    <3>2. nodes[head].args[1] \in Node \cup {Null, Live, Dead} BY <3>1 DEF Rec, Slots
    <3>3. PICK a : a = nodes[head].args[1] OBVIOUS
    <3>4. a \in Int BY <3>2, <3>3, ScopeAssumption DEF Node, Null, Live, Dead
    <3> QED BY <1>6, <1>7, <1>8, <3>3, <3>4
  <2> QED BY <1>7, <2>1, <2>2 DEF FirstKept
<1>10. \A s \in 2 .. y : nodes'[head + s - 1].args[1] = nodes[head + s - 1].args[1]
                          /\ nodes[head + s - 1].args[1] \in Valued
  <2> TAKE s \in 2 .. y
  <2>1. PICK n : n = head + s - 1 OBVIOUS
  <2>2. n \in Node /\ nodes[n].kind = "phi" /\ nodes[n].reg = head BY <1>5, <2>1 DEF IsPhiOf
  <2>3. ~ IsPhiOf(nodes, n, loop) BY <1>7, <2>2 DEF IsPhiOf
  <2>4. nodes'[n].kind = "phi" BY <1>6, <2>2, <2>3
  <2>5. PICK a : a = nodes[n].args[1] OBVIOUS
  <2>6. a \in Valued BY <2>2, <2>5, SMTT(30) DEF Graph
  <2>7. a < loop BY <1>4, <1>6, <1>7, <1>8, <2>1, <2>5, <2>6
  <2>8. nodes'[n].args[1] = a BY <2>2, <2>4, <2>5, <2>7 DEF FirstKept
  <2> QED BY <2>1, <2>5, <2>6, <2>8
<1>11. f.was =>
         \A l \in DOMAIN f.at : \A x \in DOMAIN f.at[l] :
           \E i \in DOMAIN list[l].cells :
             /\ list[l].cells[i].name = x /\ list[l].cells[i].slot \in 2 .. y
             /\ f.before[l][x] < head
             /\ f.before[l][x] = val'[nodes'[head + list[l].cells[i].slot - 1].args[1]]
  <2> SUFFICES ASSUME f.was, NEW l \in DOMAIN f.at, NEW x \in DOMAIN f.at[l]
               PROVE  \E i \in DOMAIN list[l].cells :
                        /\ list[l].cells[i].name = x /\ list[l].cells[i].slot \in 2 .. y
                        /\ f.before[l][x] < head
                        /\ f.before[l][x] = val'[nodes'[head + list[l].cells[i].slot - 1].args[1]]
    BY Zenon
  <2>1. PICK i \in DOMAIN list[l].cells :
          /\ list[l].cells[i].name = x /\ list[l].cells[i].slot \in 2 .. y
          /\ f.before[l][x] < head
          /\ f.before[l][x] = val[nodes[head + list[l].cells[i].slot - 1].args[1]]
    BY <1>8, Zenon
  <2>2. PICK s : s = list[l].cells[i].slot OBVIOUS
  <2>3. PICK a : a = nodes[head + s - 1].args[1] OBVIOUS
  <2>4. a \in Valued /\ nodes'[head + s - 1].args[1] = a BY <1>10, <2>1, <2>2, <2>3, Zenon
  <2>5. val[a] < head /\ val[a] \in Valued BY <2>1, <2>2, <2>3, <2>4, Zenon DEF Values
  <2>6. PICK u : u = val[a] OBVIOUS
  <2>7. u \notin loop + 1 .. loop + z - 1 BY <1>4, <1>6, <1>7, <2>5, <2>6
  <2>8. val'[a] = val[a] BY <1>6, <2>4, <2>6, <2>7, SMTT(30)
  <2> QED BY <2>1, <2>2, <2>3, <2>4, <2>8, Zenon
<1>12. /\ nodes'[head].args[1] < head
       /\ \A s \in 2 .. y : nodes'[head + s - 1].args[1] < head
       /\ f.was => nodes'[head].args[1] # Dead
  BY <1>8, <1>9, <1>10
<1>13. Entered(f, head, y, list, nodes', val') BY <1>11, <1>12, Zenon DEF Entered
<1> QED BY <1>1, <1>2, <1>3, <1>13 DEF EnteredOK

LEMMA EndWhileEntries ==
  ASSUME IInv, Entries, EndWhile
  PROVE  Entries'
<1>1. Graph /\ Values /\ Blocks0 /\ Loops BY DEF IInv
<1>2. PICK f, k, b, loop, z, back, bk : Ending(f, k, b, loop, z, back, bk) BY EndWhileTaken, ZenonT(40)
<1>3. /\ k \in Nat /\ k >= 2 /\ k = Len(frames) /\ f = frames[k] /\ f.fn = "body" /\ loop = Ctrl(f.head)
      /\ Shut(loop, z) /\ frames' = Front(frames)
      /\ FirstKept(nodes', loop) /\ TableClosed(table', z, loop)
  BY <1>2 DEF Ending, Followed
<1>4. loop \in Nat /\ loop < next /\ next' = next /\ next \in Nat
  <2>1. loop \in Nat /\ loop < next /\ next' = next BY <1>1, <1>3, ShutParts
  <2> QED BY <1>1, <2>1, NodesWhole
<1>5. frames \in Seq(Frame) BY <1>1 DEF Blocks0
<1>6. OpenLoops' = OpenLoops \ {loop} BY <1>1, <1>3, <1>4, <1>5, OneLoopLess
<1>7. /\ DOMAIN frames = 1 .. k /\ DOMAIN frames' = 1 .. k - 1
      /\ \A i \in 1 .. k - 1 : frames'[i] = frames[i]
  BY <1>3, <1>5 DEF Front
<1>8. ASSUME NEW i \in DOMAIN frames', frames'[i].fn = "body" PROVE EnteredOK(frames'[i], nodes', val')
  <2>1. i \in 1 .. k /\ i < k /\ k \in 1 .. k /\ frames'[i] = frames[i] BY <1>3, <1>7
  <2>2. PICK g : g = frames[i] OBVIOUS
  <2>3. g.fn = "body" /\ frames'[i] = g BY <1>8, <2>1, <2>2
  <2>4. LoopOK(g) /\ EnteredOK(g, nodes, val) BY <1>1, <1>7, <2>1, <2>2, <2>3 DEF Loops, Entries
  <2>5. Ctrl(g.head) < loop BY <1>1, <1>3, <1>7, <2>1, <2>2, <2>3 DEF Loops
  <2>6. EnteredOK(g, nodes', val') BY <1>1, <1>3, <2>4, <2>5, EnteredShut
  <2> QED BY <2>3, <2>6
<1>9. ASSUME NEW e \in table' PROVE e.reg < next' /\ e.reg \notin OpenLoops'
  <2>1. CASE e \in table BY <1>4, <1>6, <2>1 DEF Entries
  <2>2. CASE e.reg = loop BY <1>4, <1>6, <2>2
  <2> QED BY <1>3, <2>1, <2>2 DEF TableClosed
<1> QED BY <1>8, <1>9 DEF Entries
(* What the run's way into a loop that closes and its way back find for one *)
(* variable.                                                               *)
LEMMA SlotMeans ==
  ASSUME Graph, Values, NEW loop, NEW z, Shut(loop, z), NEW n, NEW entry \in Valued, NEW m \in Valued,
         entry < loop, val[entry] < loop, ClosedSlot(nodes', val', n, entry, z, loop, m)
  PROVE  /\ val[entry] = val'[IF IsPhiOf(nodes', n, loop) THEN nodes'[n].args[1] ELSE n]
         /\ on => val'[m] = val'[IF IsPhiOf(nodes', n, loop) THEN nodes'[n].args[2] ELSE n]
<1>1. /\ Valued \subseteq Node /\ \A a \in Valued : a \in Nat BY NodesWhole
<1>2. /\ loop \in Nat
      /\ \A a \in Node : IsPhiOf(nodes, a, loop) => a \in loop + 1 .. loop + z - 1
      /\ \A a \in Node : \/ nodes'[a].kind = nodes[a].kind /\ (nodes[a].kind = "phi" => nodes'[a].reg = nodes[a].reg)
                         \/ nodes'[a] = Gone /\ IsPhiOf(nodes, a, loop)
      /\ \A a \in Valued : val[a] \notin loop + 1 .. loop + z - 1 => val'[a] = val[a]
  BY ShutParts
<1>3. val'[entry] = val[entry]
  <2>1. PICK u : u = val[entry] OBVIOUS
  <2>2. u \in Nat BY <1>1, <2>1 DEF Values
  <2>3. u \notin loop + 1 .. loop + z - 1 BY <1>2, <2>1, <2>2
  <2> QED BY <1>2, <2>1, <2>3
<1>4. CASE n = entry /\ (on => val'[n] = val'[m])
  <2>1. ~ IsPhiOf(nodes', n, loop)
    <3> SUFFICES ASSUME IsPhiOf(nodes', n, loop) PROVE FALSE OBVIOUS
    <3>1. n \in Node /\ nodes'[n].kind = "phi" /\ nodes'[n].reg = loop BY DEF IsPhiOf
    <3>2. nodes'[n] # Gone
      <4>1. Gone.kind = "gone" BY DEF Gone
      <4> QED BY <3>1, <4>1
    <3>3. IsPhiOf(nodes, n, loop) BY <1>2, <3>1, <3>2 DEF IsPhiOf
    <3>4. n \in loop + 1 .. loop + z - 1 BY <1>2, <3>1, <3>3
    <3>5. n < loop /\ n \in Nat BY <1>1, <1>4
    <3> QED BY <1>2, <3>4, <3>5
  <2> QED BY <1>3, <1>4, <2>1
<1>5. CASE /\ IsPhiOf(nodes', n, loop) /\ nodes'[n].args[1] = entry
           /\ on => val'[nodes'[n].args[2]] = val'[m]
  BY <1>3, <1>5
<1> QED BY <1>4, <1>5 DEF ClosedSlot

LEMMA LoopClosed ==
  ASSUME IInv, Entries, EndWhile
  PROVE  ClosedLoop(Last(frames))
<1>1. Graph /\ Values /\ Meanings BY DEF IInv
<1>2. PICK f, k, b, loop, z, back, bk : Ending(f, k, b, loop, z, back, bk) BY EndWhileTaken, Zenon
<1>3. /\ f \in LoopFrame /\ f = Last(frames) /\ k \in Nat /\ k >= 2 /\ k = Len(frames) /\ f = frames[k]
      /\ f.fn = "body"
      /\ loop = Ctrl(f.head) /\ z = Len(f.head.slots) /\ back = PopScope(curr)
      /\ Laid(curr) /\ b \in Nat /\ b >= 1 /\ Len(curr.list) = b + 1 /\ Laid(f.head) /\ Len(f.head.list) = b
      /\ \A l \in 1 .. b : f.head.list[l] = curr.list[l]
      /\ Len(back.slots) = z /\ \A s \in 2 .. z : back.slots[s] \in Valued
      /\ Len(f.at) = b
      /\ LoopEntry(loop, z, f.was) /\ Shut(loop, z) /\ frames' = Front(frames)
      /\ Followed(nodes', table', val', bk, curr', z, loop, z, back, f.was)
  BY <1>2, Zenon DEF Ending
<1>4. z \in Nat /\ loop \in Nat /\ \A s \in 2 .. z : IsPhiOf(nodes, loop + s - 1, loop)
  BY <1>1, <1>3, ShutParts, SMTT(30)
<1>5. /\ \A a, c \in Valued : val[a] = val[c] => val'[a] = val'[c]
      /\ f.was => \A s \in 2 .. z :
           ClosedSlot(nodes', val', curr'.slots[s], nodes[loop + s - 1].args[1], z, loop, back.slots[s])
  BY <1>3 DEF Followed
<1>6. on => f.was BY <1>3 DEF LoopEntry
<1>7. DOMAIN f.at = 1 .. b /\ DOMAIN f.head.list = 1 .. b /\ DOMAIN curr.list = 1 .. b + 1
  <2>1. f.at \in Seq(Env) BY <1>3 DEF LoopFrame
  <2>2. DOMAIN f.at = 1 .. b BY <1>3, <2>1, LenProperties
  <2> QED BY <1>3, <2>2, LaidParts
<1>8. EnteredOK(f, nodes, val)
  <2>1. frames \in Seq(Frame) BY DEF IInv, Blocks0
  <2>2. k \in DOMAIN frames BY <1>3, <2>1
  <2> QED BY <1>3, <2>2 DEF Entries
<1>9. ASSUME NEW l \in DOMAIN f.at, NEW x \in DOMAIN f.at[l], f.was
      PROVE  \E s : /\ s = (CHOOSE c \in Cells(f.head, l) : c.name = x).slot
                    /\ f.before[l][x] = val'[IF IsPhiOf(nodes', curr'.slots[s], Ctrl(f.head))
                                             THEN nodes'[curr'.slots[s]].args[1] ELSE curr'.slots[s]]
                    /\ on => val'[env[l][x]] = val'[IF IsPhiOf(nodes', curr'.slots[s], Ctrl(f.head))
                                                    THEN nodes'[curr'.slots[s]].args[2] ELSE curr'.slots[s]]
  <2>1. PICK hd : hd = f.head OBVIOUS
  <2>2. PICK i \in DOMAIN hd.list[l].cells :
          /\ hd.list[l].cells[i].name = x /\ hd.list[l].cells[i].slot \in 2 .. z
          /\ f.before[l][x] < loop
          /\ f.before[l][x] = val[nodes[loop + hd.list[l].cells[i].slot - 1].args[1]]
    <3>1. Entered(f, loop, z, hd.list, nodes, val) BY <1>3, <1>8, <2>1 DEF EnteredOK
    <3> QED BY <1>9, <3>1, ZenonT(40) DEF Entered
  <2>3. PICK s : s = hd.list[l].cells[i].slot OBVIOUS
  <2>4. PICK entry : entry = nodes[loop + s - 1].args[1] OBVIOUS
  <2>5. PICK m : m = back.slots[s] OBVIOUS
  <2>6. PICK n : n = curr'.slots[s] OBVIOUS
  <2>7. s \in 2 .. z /\ m \in Valued BY <1>3, <2>2, <2>3, <2>5, Zenon
  <2>8. entry \in Valued
    <3>1. PICK p : p = loop + s - 1 OBVIOUS
    <3>2. p \in Node /\ nodes[p].kind = "phi" BY <1>4, <2>7, <3>1 DEF IsPhiOf
    <3>3. nodes[p].args[1] \in Valued BY <1>1, <3>2 DEF Graph
    <3> QED BY <2>4, <3>1, <3>3
  <2>9. entry < loop /\ val[entry] < loop /\ f.before[l][x] = val[entry]
    <3>1. entry < loop BY <1>3, <2>4, <2>7 DEF LoopEntry
    <3> QED BY <2>2, <2>3, <2>4, <3>1, ZenonT(40)
  <2>10. ClosedSlot(nodes', val', n, entry, z, loop, m) BY <1>5, <1>9, <2>4, <2>5, <2>6, <2>7
  <2>11. /\ val[entry] = val'[IF IsPhiOf(nodes', n, loop) THEN nodes'[n].args[1] ELSE n]
         /\ on => val'[m] = val'[IF IsPhiOf(nodes', n, loop) THEN nodes'[n].args[2] ELSE n]
    <3>1. Shut(loop, z) BY <1>3
    <3> QED BY <1>1, <2>7, <2>8, <2>9, <2>10, <3>1, SlotMeans
  <2>12. on => val'[env[l][x]] = val'[m]
    <3> SUFFICES ASSUME on PROVE val'[env[l][x]] = val'[m] OBVIOUS
    <3>1. Means(curr)
      <4>1. frames # <<>> BY <1>3
      <4> QED BY <1>1, <4>1 DEF Meanings
    <3>2. PICK sc : sc = curr OBVIOUS
    <3>3. Laid(sc) /\ Len(sc.list) >= 2 /\ back = PopScope(sc) BY <1>3, <3>2
    <3>4. m = sc.slots[s]
      <4>1. \A q \in 1 .. Len(back.slots) : back.slots[q] = sc.slots[q] BY <3>3, Popped
      <4>2. s \in 1 .. Len(back.slots) BY <1>3, <1>4, <2>7
      <4> QED BY <2>5, <4>1, <4>2
    <3>5. l \in 1 .. b /\ l \in DOMAIN sc.list /\ hd.list[l] = sc.list[l]
      BY <1>3, <1>7, <2>1, <3>2
    <3>6. val[sc.slots[s]] = env[l][x]
      <4>1. i \in DOMAIN sc.list[l].cells /\ sc.list[l].cells[i].name = x /\ sc.list[l].cells[i].slot = s
        BY <2>2, <2>3, <3>5, Zenon
      <4>2. x # "@ctrl"
        <5>1. l \in DOMAIN f.at /\ f.at[l] \in Env
          <6>1. f.at \in Seq(Env) BY <1>3 DEF LoopFrame
          <6> QED BY <6>1
        <5>2. DOMAIN f.at[l] \subseteq Name BY <5>1 DEF Env
        <5> QED BY <5>2, ScopeAssumption
      <4>3. Means(sc) BY <3>1, <3>2
      <4> QED BY <3>5, <4>1, <4>2, <4>3, Zenon DEF Means
    <3>7. val[m] \in Valued /\ val[val[m]] = val[m] BY <1>1, <2>7 DEF Values
    <3>8. val'[val[m]] = val'[m] BY <1>5, <2>7, <3>7
    <3> QED BY <3>4, <3>6, <3>8
  <2>13. (CHOOSE c \in Cells(hd, l) : c.name = x).slot = s
    <3>1. Laid(hd) /\ l \in DOMAIN hd.list BY <1>3, <1>7, <2>1
    <3>2. (CHOOSE c \in Cells(hd, l) : c.name = hd.list[l].cells[i].name) = hd.list[l].cells[i]
      BY <3>1, OneCell, SMTT(30)
    <3> QED BY <2>2, <2>3, <3>2, Zenon
  <2>14. WITNESS s
  <2> QED BY <1>3, <2>1, <2>6, <2>9, <2>11, <2>12, <2>13, Zenon
<1>10. ASSUME NEW l \in DOMAIN f.at, NEW x \in DOMAIN f.at[l]
       PROVE  LET slot == (CHOOSE c \in Cells(f.head, l) : c.name = x).slot
                  n    == curr'.slots[slot]
                  phi  == IsPhiOf(nodes', n, Ctrl(f.head))
              IN  /\ f.was => f.before[l][x] = val'[IF phi THEN nodes'[n].args[1] ELSE n]
                  /\ on => val'[env[l][x]] = val'[IF phi THEN nodes'[n].args[2] ELSE n]
  <2>1. CASE f.was
    <3>1. PICK s : /\ s = (CHOOSE c \in Cells(f.head, l) : c.name = x).slot
                   /\ f.before[l][x] = val'[IF IsPhiOf(nodes', curr'.slots[s], Ctrl(f.head))
                                            THEN nodes'[curr'.slots[s]].args[1] ELSE curr'.slots[s]]
                   /\ on => val'[env[l][x]] = val'[IF IsPhiOf(nodes', curr'.slots[s], Ctrl(f.head))
                                                   THEN nodes'[curr'.slots[s]].args[2] ELSE curr'.slots[s]]
      BY <1>9, <2>1, Zenon
    <3> QED BY <3>1, Zenon
  <2>2. CASE ~ f.was BY <1>6, <2>2, Zenon
  <2> QED BY <2>1, <2>2, Zenon
<1>11. ClosedLoop(f) BY <1>10, Zenon DEF ClosedLoop
<1> QED BY <1>3, <1>11

LEMMA EntriesStep ==
  ASSUME IInv, Entries, [Next]_vars
  PROVE  Entries'
<1>1. CASE \E x \in Name, e \in {"new"} \cup Name : e \in Expr /\ (Declare(x, e) \/ Assign(x, e))
  BY <1>1, ValueEntries
<1>2. CASE Return BY <1>2, QuietEntries
<1>3. CASE OpenBlock BY <1>3, BlockEntries
<1>4. CASE CloseBlock BY <1>4, QuietEntries
<1>5. CASE \E c \in Conditions, d \in BOOLEAN : If(c, d) \/ While(c, d)
  BY <1>5, IfEntries, WhileEntries
<1>6. CASE EndThen BY <1>6, SideEntries
<1>7. CASE Else BY <1>7, SideEntries
<1>8. CASE EndElse BY <1>8, SideEntries
<1>9. CASE Merge
  <2>1. fault' = "none"
    <3>1. IInv' BY <1>9, MergeStep
    <3> QED BY <3>1 DEF IInv, Rest
  <2> QED BY <1>9, <2>1, MergeEntries
<1>10. CASE EndWhile BY <1>10, EndWhileEntries
<1>11. CASE EndFunction BY <1>11, QuietEntries
<1>12. CASE UNCHANGED vars BY <1>12, QuietEntries
<1> QED
  BY <1>1, <1>2, <1>3, <1>4, <1>5, <1>6, <1>7, <1>8, <1>9, <1>10, <1>11, <1>12 DEF Next
(* Only the end of its block takes a loop off the frames.                   *)
LEMMA LoopLeaves ==
  ASSUME IInv, Next, frames # <<>>, Last(frames).fn = "body", Len(frames') < Len(frames)
  PROVE  EndWhile
<1>1. frames \in Seq(Frame) BY DEF IInv, Blocks0
<1>2. Len(frames) \in Nat BY <1>1
<1>3. \A fs : ~ (Top(fs) /\ "body" \notin fs) BY DEF Top
<1>4. ~ (frames' = frames) BY <1>2
<1>5. ~ \E f, g : frames' = Append(frames, f) \/ frames' = Append(SetTop(g), f)
  <2> SUFFICES ASSUME NEW f, NEW g, frames' = Append(frames, f) \/ frames' = Append(SetTop(g), f) PROVE FALSE
    OBVIOUS
  <2>1. CASE frames' = Append(frames, f)
    <3>1. Len(frames') = Len(frames) + 1 BY <1>1, <2>1
    <3> QED BY <1>2, <3>1
  <2>2. CASE frames' = Append(SetTop(g), f)
    <3>1. PICK fs : fs = SetTop(g) OBVIOUS
    <3>2. Len(fs) = Len(frames) /\ fs \in Seq({fs[i] : i \in DOMAIN fs})
      BY <1>1, <3>1 DEF SetTop
    <3>3. Len(Append(fs, f)) = Len(fs) + 1 BY <3>2, SMTT(30)
    <3> QED BY <1>2, <2>2, <3>1, <3>2, <3>3
  <2> QED BY <2>1, <2>2
<1>6. CASE \E x \in Name, e \in {"new"} \cup Name : e \in Expr /\ (Declare(x, e) \/ Assign(x, e))
  BY <1>4, <1>6 DEF Declare, Assign
<1>7. CASE Return BY <1>4, <1>7 DEF Return
<1>8. CASE OpenBlock BY <1>5, <1>8, Zenon DEF OpenBlock
<1>9. CASE CloseBlock BY <1>3, <1>9 DEF CloseBlock
<1>10. CASE \E c \in Conditions, d \in BOOLEAN : If(c, d) \/ While(c, d)
  <2>1. PICK c \in Conditions, d \in BOOLEAN : If(c, d) \/ While(c, d) BY <1>10
  <2>2. CASE If(c, d)
    <3>1. \E f : frames' = Append(IF Top(InBlock) THEN frames ELSE SetTop(Become(Last(frames), "merge")), f)
      BY <2>2, Zenon DEF If
    <3> QED BY <1>5, <3>1, Zenon
  <2>3. CASE While(c, d)
    <3>1. \E f : frames' = Append(frames, f) BY <2>3, Zenon DEF While
    <3> QED BY <1>5, <3>1, Zenon
  <2> QED BY <2>1, <2>2, <2>3
<1>11. CASE EndThen BY <1>3, <1>11 DEF EndThen
<1>12. CASE Else BY <1>3, <1>12 DEF Else
<1>13. CASE EndElse BY <1>3, <1>13 DEF EndElse
<1>14. CASE Merge BY <1>3, <1>14 DEF Merge
<1>15. CASE EndFunction BY <1>3, <1>15 DEF EndFunction
<1> QED BY <1>6, <1>7, <1>8, <1>9, <1>10, <1>11, <1>12, <1>13, <1>14, <1>15 DEF Next

LEMMA FirstEntries ==
  ASSUME Init
  PROVE  Entries
<1>1. frames = <<[fn |-> "func"]>> /\ table = {} BY DEF Init
<1>2. \A i \in DOMAIN frames : frames[i].fn # "body"
  <2>1. PICK f : f = [fn |-> "func"] OBVIOUS
  <2>2. f.fn = "func" BY <2>1
  <2>3. frames = <<f>> BY <1>1, <2>1
  <2>4. \A i \in DOMAIN frames : frames[i] = f BY <2>3
  <2> QED BY <2>2, <2>4
<1> QED BY <1>1, <1>2 DEF Entries

(* When parse_while ends, the scope it leaves holds for each variable a phi, *)
(* or the node that stands for it, with the value from before the loop on   *)
(* the entry and the value at the end of the body on the way back: the      *)
(* simplification of one phi by sea_scope_end_loop never gives another      *)
(* variable, or another loop, a wrong value.                               *)
THEOREM ClosedLoopsAreRight == Spec => LoopPhis
<1>1. Init => IInv /\ Entries BY InitInv, FirstEntries
<1>2. IInv /\ Entries /\ [Next]_vars => (IInv /\ Entries)' BY NextStep, EntriesStep
<1>3. IInv /\ Entries /\ [Next]_vars =>
        [frames # <<>> /\ Last(frames).fn = "body" /\ Len(frames') < Len(frames)
         /\ fault' = "none"
           => ClosedLoop(Last(frames))]_vars
  <2> SUFFICES ASSUME IInv, Entries, Next, frames # <<>>, Last(frames).fn = "body",
                      Len(frames') < Len(frames)
               PROVE  ClosedLoop(Last(frames))
    BY Zenon
  <2>1. EndWhile BY LoopLeaves
  <2> QED BY <2>1, LoopClosed
<1> QED BY <1>1, <1>2, <1>3, PTL DEF Spec, LoopPhis
=============================================================================
