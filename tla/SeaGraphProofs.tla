--------------------------- MODULE SeaGraphProofs ---------------------------
(***************************************************************************)
(* Proofs about SeaGraph, for every set of nodes, every array length and   *)
(* every depth of the recursion between sea_node_set_input and             *)
(* sea_node_kill.                                                          *)
(***************************************************************************)
EXTENDS SeaGraph, SequenceTheorems, TLAPS

(* A call pushes a frame on top of the others.                             *)
LEMMA PushFrame ==
  ASSUME NEW q \in Seq(Frame), NEW f \in Frame
  PROVE  /\ Append(q, f) \in Seq(Frame)
         /\ Len(Append(q, f)) = Len(q) + 1
         /\ Append(q, f)[Len(q) + 1] = f
         /\ \A i \in 1 .. Len(q) : Append(q, f)[i] = q[i]
OBVIOUS

(* The first calls of the client.                                          *)
LEMMA FirstFrames ==
  ASSUME NEW f \in Frame, NEW g \in Frame
  PROVE  /\ <<f>> \in Seq(Frame) /\ Len(<<f>>) = 1 /\ <<f>>[1] = f
         /\ <<f, g>> \in Seq(Frame) /\ Len(<<f, g>>) = 2
         /\ <<f, g>>[1] = f /\ <<f, g>>[2] = g
         /\ Append(<<>>, f) = <<f>> /\ Append(<<f>>, g) = <<f, g>>
<1>1. <<f>> \in Seq(Frame) /\ Len(<<f>>) = 1 /\ <<f>>[1] = f
  OBVIOUS
<1>2. <<f, g>> \in Seq(Frame) /\ Len(<<f, g>>) = 2
  OBVIOUS
<1>3. <<f, g>>[1] = f /\ <<f, g>>[2] = g
  OBVIOUS
<1>4. Append(<<>>, f) = <<f>>
  OBVIOUS
<1>5. Append(<<f>>, g) = <<f, g>>
  <2> DEFINE q == <<f>>
             r == <<f, g>>
  <2>1. q \in Seq(Frame) /\ Len(q) = 1 /\ q[1] = f
    BY <1>1
  <2>2. r \in Seq(Frame) /\ Len(r) = 2 /\ r[1] = f /\ r[2] = g
    BY <1>2, <1>3
  <2> HIDE DEF q, r
  <2>3. /\ Append(q, g) \in Seq(Frame) /\ Len(Append(q, g)) = 2
        /\ Append(q, g)[2] = g /\ Append(q, g)[1] = f
    <3> DEFINE p == Append(q, g)
    <3>1. /\ p \in Seq(Frame) /\ Len(p) = Len(q) + 1 /\ p[Len(q) + 1] = g
          /\ \A i \in 1 .. Len(q) : p[i] = q[i]
      BY <2>1, PushFrame
    <3> HIDE DEF p
    <3>2. p \in Seq(Frame) /\ Len(p) = 2 /\ p[2] = g /\ p[1] = f
      BY <2>1, <3>1
    <3>3. QED
      BY <3>2 DEF p
  <2>4. \A i \in 1 .. 2 : Append(q, g)[i] = r[i]
    <3>1. \A i \in 1 .. 2 : i = 1 \/ i = 2
      OBVIOUS
    <3>2. QED
      BY <2>2, <2>3, <3>1
  <2>5. Append(q, g) = r
    BY <2>2, <2>3, <2>4, SeqEqual
  <2>6. QED
    BY <2>5 DEF q, r
<1>6. QED
  BY <1>1, <1>2, <1>3, <1>4, <1>5

(* A return uncovers the frame below.                                      *)
LEMMA PopFrame ==
  ASSUME NEW q \in Seq(Frame), q # <<>>
  PROVE  /\ Front(q) \in Seq(Frame)
         /\ Len(q) \in Nat \ {0}
         /\ Len(Front(q)) = Len(q) - 1
         /\ \A i \in 1 .. Len(q) - 1 : Front(q)[i] = q[i]
         /\ Last(q) = q[Len(q)]
         /\ Last(q) \in Frame
<1>1. Len(q) \in Nat \ {0}
  BY EmptySeq
<1>2. \A i \in 1 .. Len(q) - 1 : q[i] \in Frame
  BY <1>1, ElementOfSeq
<1>3. /\ Front(q) \in Seq(Frame)
      /\ Len(Front(q)) = Len(q) - 1
      /\ \A i \in 1 .. Len(q) - 1 : Front(q)[i] = q[i]
  <2> DEFINE n == Len(q) - 1
  <2>1. n \in Nat /\ \A i \in 1 .. n : q[i] \in Frame
    BY <1>1, <1>2
  <2>2. Front(q) = SubSeq(q, 1, n)
    BY DEF Front
  <2> HIDE DEF n
  <2>3. /\ SubSeq(q, 1, n) \in Seq(Frame)
        /\ Len(SubSeq(q, 1, n)) = n
        /\ \A i \in 1 .. n : SubSeq(q, 1, n)[i] = q[i]
    BY <2>1, SubSeqProperties
  <2>4. QED
    BY <2>2, <2>3 DEF n
<1>4. Last(q) = q[Len(q)] /\ Last(q) \in Frame
  BY <1>1, ElementOfSeq DEF Last
<1>5. QED
  BY <1>1, <1>3, <1>4

LEMMA FrameFields ==
  ASSUME NEW q \in Seq(Frame), NEW i \in 1 .. Len(q)
  PROVE  /\ q[i] \in Frame
         /\ q[i].fn \in Functions /\ q[i].node \in Node
         /\ q[i].slot \in 0 .. MaxIn /\ q[i].input \in Node \cup {Null}
<1>1. q[i] \in Frame
  BY ElementOfSeq
<1>2. QED
  BY <1>1 DEF Frame

THEOREM InitInv == Init => IInv
<1> SUFFICES ASSUME Init PROVE IInv
  OBVIOUS
<1> USE GraphAssumption
<1>1. TypeOK
  BY DEF Init, TypeOK, Slot
<1>2. stack = <<>> /\ Len(stack) = 0
  BY DEF Init
<1>3. DefUse
  BY <1>2 DEF Init, DefUse
<1>4. StackInv
  BY <1>2 DEF StackInv, CallShape, HoldsKeep, RemoveOpen, PendingFull,
              PendingOnce, KillCleared
<1>5. QED
  BY <1>1, <1>3, <1>4 DEF IInv

(* The invariant of the stack, for the frames q a step leaves.             *)
LEMMA NextStack ==
  ASSUME NEW q, stack' = q, CallShape(q), HoldsKeep(q, keeps'),
         RemoveOpen(q, inputlen)', PendingFull(q)', PendingOnce(q), KillCleared(q)'
  PROVE  StackInv'
<1>1. CallShape(stack)'
  BY DEF CallShape, ShapeAt
<1>2. HoldsKeep(stack, keeps)'
  BY DEF HoldsKeep
<1>3. RemoveOpen(stack, inputlen)'
  BY DEF RemoveOpen, OpenAt
<1>4. PendingFull(stack)' /\ PendingOnce(stack)'
  BY DEF PendingFull, PendingOnce
<1>5. KillCleared(stack)'
  BY DEF KillCleared, ClearingAbove
<1>6. QED
  BY <1>1, <1>2, <1>3, <1>4, <1>5 DEF StackInv

(* What the caller of sea_node_set_input(n, in, s) has to provide: its own *)
(* frames k are in order, apart from the slot it is about to clear.        *)
Ready(n, in, s, k) ==
  /\ k \in Seq(Frame)
  /\ \A u \in Node, t \in Slot : Pending(k, u, t) <=> Pending(stack, u, t)
  /\ CallShape(k) /\ HoldsKeep(k, keeps') /\ RemoveOpen(k, inputlen')
  /\ PendingFull(k) /\ PendingOnce(k)
  /\ \A i \in 1 .. Len(k), t \in Slot :
       k[i].fn = "kill" /\ t < k[i].slot =>
         \/ inputs[k[i].node][t] = Null
         \/ ClearingAbove(k, i, t)
         \/ i = Len(k) /\ k[i].node = n /\ t = s
  /\ Len(k) > 1 => /\ in = Null
                   /\ k[Len(k)].fn = "kill"
                   /\ k[Len(k)].node = n /\ k[Len(k)].slot = s + 1
  /\ Len(k) = 1 /\ k[1].fn \in Removing =>
       /\ k[1].node = n /\ s < inputlen'[n]
       /\ k[1].fn = "remove_cleared" => s = k[1].slot
  /\ \A i \in 1 .. Len(k) :
       k[i].fn = "remove_cleared" /\ k[i].node = n => s <= k[i].slot

(* sea_node_set_input with the frames of its caller in order keeps the     *)
(* invariant, whichever way it goes.                                       *)
LEMMA SetInputInv ==
  ASSUME IInv, fault = "none",
         NEW n \in Node, NEW in \in Node \cup {Null}, NEW s \in Slot, NEW k,
         kind' = kind,
         inputlen' \in [Node -> 0 .. MaxIn],
         keeps' \in [Node -> Nat],
         Ready(n, in, s, k),
         SetInput(n, in, s, k)
  PROVE  IInv'
<1> USE GraphAssumption
<1> DEFINE old == inputs[n][s]
<1>0. /\ TypeOK /\ DefUse /\ StackInv
      /\ k \in Seq(Frame)
      /\ old \in Node \cup {Null}
  <2>1. TypeOK /\ DefUse /\ StackInv
    BY DEF IInv
  <2>2. k \in Seq(Frame)
    BY DEF Ready
  <2>3. inputs \in [Node -> [Slot -> Node \cup {Null}]]
    BY <2>1 DEF TypeOK
  <2>4. QED
    BY <2>1, <2>2, <2>3
<1>r. /\ CallShape(k) /\ HoldsKeep(k, keeps') /\ RemoveOpen(k, inputlen')
      /\ PendingFull(k) /\ PendingOnce(k)
  BY DEF Ready
<1>k. \A i \in 1 .. Len(k) :
        /\ k[i].fn \in Functions /\ k[i].node \in Node
        /\ k[i].slot \in 0 .. MaxIn /\ k[i].input \in Node \cup {Null}
  BY <1>0, FrameFields
<1>1. CASE in = old /\ stack' = k /\ UNCHANGED <<inputs, users, count, fault>>
  <2>1. TypeOK'
    BY <1>0, <1>1 DEF TypeOK
  <2>2. DefUse'
    BY <1>0, <1>1 DEF DefUse, Ready
  <2>3. KillCleared(k)'
    <3>1. \A i \in 1 .. Len(k) : k[i].fn = "kill" => Len(k) > 1 /\ in = Null
      BY <1>0 DEF Ready, CallShape, ShapeAt
    <3>2. QED
      BY <1>1, <3>1 DEF Ready, KillCleared, ClearingAbove
  <2>4. RemoveOpen(k, inputlen)' /\ PendingFull(k)'
    BY <1>1, <1>r DEF RemoveOpen, OpenAt, PendingFull
  <2>5. StackInv'
    BY <1>1, <1>r, <2>3, <2>4, NextStack
  <2>6. QED
    BY <2>1, <2>2, <2>5 DEF IInv
<1>2. ASSUME in # old,
             \/ old = Null
             \/ old # Null /\ <<n, s>> \in users[old],
             users' = [m \in Node |-> IF m = in THEN users[m] \cup {<<n, s>>}
                                               ELSE users[m] \ {<<n, s>>}],
             inputs' = [inputs EXCEPT ![n][s] = in],
             stack' = k, UNCHANGED <<count, fault>>
      PROVE  IInv'
  <2>1. TypeOK'
    <3>1. users' \in [Node -> SUBSET User]
      <4>1. <<n, s>> \in User /\ users \in [Node -> SUBSET User]
        BY <1>0 DEF TypeOK, User
      <4>2. QED
        BY <1>2, <4>1
    <3>2. inputs' \in [Node -> [Slot -> Node \cup {Null}]]
      BY <1>0, <1>2 DEF TypeOK
    <3>3. QED
      BY <1>0, <1>2, <3>1, <3>2 DEF TypeOK
  <2>2. /\ inputs'[n][s] = in
        /\ \A u \in Node, t \in Slot : <<u, t>> # <<n, s>> => inputs'[u][t] = inputs[u][t]
    BY <1>0, <1>2 DEF TypeOK
  <2>3. ~ Pending(k, n, s)
    <3>1. CASE old = Null
      BY <1>0, <3>1 DEF StackInv, PendingFull, Pending, Ready
    <3>2. CASE old # Null /\ <<n, s>> \in users[old]
      BY <1>0, <3>2 DEF DefUse, Ready
    <3>3. QED
      BY <1>2, <3>1, <3>2
  <2>4. DefUse'
    <3> SUFFICES ASSUME NEW m \in Node, NEW u \in Node, NEW t \in Slot
                 PROVE  (<<u, t>> \in users[m] <=>
                           inputs[u][t] = m /\ ~ Pending(stack, u, t))'
      BY DEF DefUse
    <3>1. Pending(stack, u, t)' <=> Pending(k, u, t)
      <4>1. stack' = k
        BY <1>2
      <4>2. QED
        BY <4>1 DEF Pending
    <3>2. CASE <<u, t>> = <<n, s>>
      BY <1>2, <2>2, <2>3, <3>1, <3>2
    <3>3. CASE <<u, t>> # <<n, s>>
      BY <1>0, <1>2, <2>2, <3>1, <3>3 DEF DefUse, Ready
    <3>4. QED
      BY <3>2, <3>3
  <2>5. PendingFull(k)'
    <3>1. \A i \in 1 .. Len(k) :
            k[i].fn = "set_input" => /\ k[i].node \in Node /\ k[i].slot \in Slot
                                     /\ <<k[i].node, k[i].slot>> # <<n, s>>
      BY <1>k, <1>r, <2>3 DEF CallShape, ShapeAt, Pending
    <3>2. QED
      BY <1>r, <2>2, <3>1 DEF PendingFull
  <2>6. KillCleared(k)'
    <3>1. \A i \in 1 .. Len(k) :
             k[i].fn = "kill" => Len(k) > 1 /\ in = Null /\ k[i].node \in Node
      <4>1. \A i \in 1 .. Len(k) : k[i].fn = "kill" => Len(k) > 1
        BY <1>0, <1>r DEF CallShape, ShapeAt
      <4>2. Len(k) > 1 => in = Null
        BY DEF Ready
      <4>3. QED
        BY <1>k, <4>1, <4>2
    <3> SUFFICES ASSUME NEW i \in 1 .. Len(k), NEW t \in Slot,
                        k[i].fn = "kill", t < k[i].slot
                 PROVE  inputs'[k[i].node][t] = Null \/ ClearingAbove(k, i, t)
      BY DEF KillCleared, ClearingAbove
    <3>2. \/ inputs[k[i].node][t] = Null
          \/ ClearingAbove(k, i, t)
          \/ k[i].node = n /\ t = s
      BY DEF Ready
    <3>3. QED
      BY <2>2, <3>1, <3>2
  <2>7. RemoveOpen(k, inputlen)'
    <3> SUFFICES ASSUME NEW i \in 1 .. Len(k), NEW t \in Slot,
                        k[i].fn = "remove_cleared", k[i].slot < t,
                        t < inputlen'[k[i].node]
                 PROVE  inputs'[k[i].node][t] # Null
      BY <1>r DEF RemoveOpen, OpenAt
    <3>1. inputs[k[i].node][t] # Null
      BY <1>r DEF RemoveOpen, OpenAt, Removing
    <3>2. <<k[i].node, t>> # <<n, s>>
      BY <1>k DEF Ready, Slot
    <3>3. k[i].node \in Node
      BY <1>k
    <3>4. QED
      BY <2>2, <3>1, <3>2, <3>3
  <2>8. StackInv'
    BY <1>2, <1>r, <2>5, <2>6, <2>7, NextStack
  <2>9. QED
    BY <2>1, <2>4, <2>8 DEF IInv
<1>3. CASE UNCHANGED <<inputs, users, count, stack>> /\ fault' = "user_missing"
  BY <1>0, <1>3 DEF IInv, TypeOK, DefUse
<1>4. ASSUME in # old, old # Null, users[old] = {<<n, s>>},
             users' = [users EXCEPT ![old] = {}],
             Kill(old, Append(k, Call("set_input", n, s, in))),
             UNCHANGED inputs
      PROVE  IInv'
  <2> DEFINE f == Call("set_input", n, s, in)
             g == Call("kill", old, 0, Null)
             q == Append(Append(k, f), g)
  <2>1. f \in Frame /\ g \in Frame
    BY <1>0, <1>4 DEF Call, Frame, Functions, Slot
  <2>2. /\ f.fn = "set_input" /\ f.node = n /\ f.slot = s /\ f.input = in
        /\ g.fn = "kill" /\ g.node = old /\ g.slot = 0
    BY DEF Call
  <2>3. stack' = q
    BY <1>4 DEF Kill
  <2> HIDE DEF f, g
  <2>4. /\ q \in Seq(Frame) /\ Len(k) \in Nat /\ Len(q) = Len(k) + 2
        /\ q[Len(k) + 1] = f /\ q[Len(k) + 2] = g
        /\ \A i \in 1 .. Len(k) : q[i] = k[i]
    BY <1>0, <2>1, PushFrame
  <2> HIDE DEF q
  <2>5. TypeOK'
    <3>1. users' \in [Node -> SUBSET User]
      BY <1>0, <1>4 DEF TypeOK
    <3>2. /\ count' \in Int
          /\ fault' \in {"none", "user_missing", "start_killed"}
      BY <1>0, <1>4 DEF TypeOK, Kill
    <3>3. QED
      BY <1>0, <1>4, <2>3, <2>4, <3>1, <3>2 DEF TypeOK
  <2>6. ~ Pending(k, n, s)
    BY <1>0, <1>4 DEF DefUse, Ready
  <2>7. \A i \in 1 .. Len(q) :
          \/ i \in 1 .. Len(k) /\ q[i] = k[i]
          \/ i = Len(k) + 1 /\ q[i] = f
          \/ i = Len(k) + 2 /\ q[i] = g
    <3> SUFFICES ASSUME NEW i \in 1 .. Len(q)
                 PROVE  \/ i \in 1 .. Len(k) /\ q[i] = k[i]
                        \/ i = Len(k) + 1 /\ q[i] = f
                        \/ i = Len(k) + 2 /\ q[i] = g
      OBVIOUS
    <3>1. i \in 1 .. Len(k) \/ i = Len(k) + 1 \/ i = Len(k) + 2
      BY <2>4
    <3>2. QED
      BY <2>4, <3>1
  <2>8. DefUse'
    <3> SUFFICES ASSUME NEW m \in Node, NEW u \in Node, NEW t \in Slot
                 PROVE  (<<u, t>> \in users[m] <=>
                           inputs[u][t] = m /\ ~ Pending(stack, u, t))'
      BY DEF DefUse
    <3>1. Pending(stack, u, t)' <=> Pending(k, u, t) \/ <<u, t>> = <<n, s>>
      <4>1. Pending(q, u, t) <=> Pending(k, u, t) \/ <<u, t>> = <<n, s>>
        <5>1. ASSUME Pending(q, u, t)
              PROVE  Pending(k, u, t) \/ <<u, t>> = <<n, s>>
          BY <2>2, <2>7, <5>1 DEF Pending
        <5>2. Pending(k, u, t) => Pending(q, u, t)
          BY <2>4 DEF Pending
        <5>3. <<u, t>> = <<n, s>> => Pending(q, u, t)
          <6>1. Len(k) + 1 \in 1 .. Len(q)
            BY <2>4
          <6>2. QED
            BY <2>2, <2>4, <6>1 DEF Pending
        <5>4. QED
          BY <5>1, <5>2, <5>3
      <4>2. QED
        BY <2>3, <4>1 DEF Pending
    <3>2. <<u, t>> \in users'[m] <=> <<u, t>> \in users[m] /\ <<u, t>> # <<n, s>>
      <4>1. users'[m] = IF m = old THEN {} ELSE users[m]
        BY <1>0, <1>4 DEF TypeOK
      <4>2. m # old => <<n, s>> \notin users[m]
        BY <1>0 DEF DefUse
      <4>3. QED
        BY <1>4, <4>1, <4>2
    <3>3. QED
      BY <1>0, <1>4, <3>1, <3>2 DEF DefUse, Ready
  <2>9. CallShape(q)
    <3> SUFFICES ASSUME NEW i \in 1 .. Len(q) PROVE ShapeAt(q, i)
      BY DEF CallShape
    <3>1. CASE i \in 1 .. Len(k)
      <4>1. ShapeAt(k, i) /\ q[i] = k[i] /\ (i > 1 => q[i - 1] = k[i - 1])
        <5>1. ShapeAt(k, i) /\ q[i] = k[i]
          BY <1>r, <2>4, <3>1 DEF CallShape
        <5>2. i > 1 => i - 1 \in 1 .. Len(k)
          BY <2>4, <3>1
        <5>3. QED
          BY <2>4, <5>1, <5>2
      <4>2. QED
        BY <2>4, <3>1, <4>1 DEF ShapeAt
    <3>2. CASE i = Len(k) + 1
      <4>1. Len(k) > 1 => q[i - 1] = k[Len(k)]
        BY <2>4, <3>2
      <4>2. QED
        BY <2>2, <2>4, <3>2, <4>1 DEF ShapeAt, Ready
    <3>3. CASE i = Len(k) + 2
      BY <2>2, <2>4, <3>3 DEF ShapeAt
    <3>4. QED
      BY <2>7, <3>1, <3>2, <3>3
  <2>10. HoldsKeep(q, keeps')
    BY <2>2, <2>7 DEF HoldsKeep, Ready, Holding
  <2>11. RemoveOpen(q, inputlen')
    <3> SUFFICES ASSUME NEW i \in 1 .. Len(q), q[i].fn \in Removing
                 PROVE  OpenAt(q, i, inputlen')
      BY DEF RemoveOpen, OpenAt
    <3>1. i \in 1 .. Len(k) /\ q[i] = k[i] /\ OpenAt(k, i, inputlen')
      BY <2>2, <2>7 DEF Removing, Ready, RemoveOpen
    <3>2. i = 1
      BY <3>1 DEF Ready, CallShape, ShapeAt, Removing
    <3>3. CASE Len(k) = 1
      BY <2>2, <2>4, <3>1, <3>2, <3>3 DEF OpenAt, Ready
    <3>4. CASE Len(k) > 1
      <4>0. Len(k) \in Nat /\ 2 \in 1 .. Len(k)
        BY <2>4, <3>4
      <4>1. q[2] = k[2]
        BY <2>4, <4>0
      <4>2. QED
        BY <2>4, <3>1, <3>4, <4>1 DEF OpenAt
    <3>5. Len(k) = 1 \/ Len(k) > 1
      <4> DEFINE L == Len(k)
      <4>1. L \in Nat /\ 1 \in 1 .. L
        BY <2>4, <3>1, <3>2
      <4> HIDE DEF L
      <4>2. L = 1 \/ L > 1
        BY <4>1
      <4>3. QED
        BY <4>2 DEF L
    <3>6. QED
      BY <3>3, <3>4, <3>5
  <2>12. PendingFull(q) /\ PendingOnce(q)
    <3>1. \A i \in 1 .. Len(q) :
            q[i].fn = "set_input" => \/ i \in 1 .. Len(k) /\ q[i] = k[i]
                                     \/ i = Len(k) + 1 /\ q[i] = f
      BY <2>2, <2>7
    <3>2. \A i \in 1 .. Len(k) :
            k[i].fn = "set_input" => <<k[i].node, k[i].slot>> # <<n, s>>
      BY <2>6 DEF Pending
    <3>3. PendingFull(q)
      BY <1>4, <1>r, <2>2, <3>1 DEF PendingFull
    <3>4. PendingOnce(q)
      <4> SUFFICES ASSUME NEW i \in 1 .. Len(q), NEW j \in 1 .. Len(q),
                          q[i].fn = "set_input", q[j].fn = "set_input",
                          q[i].node = q[j].node, q[i].slot = q[j].slot
                   PROVE  i = j
        BY DEF PendingOnce
      <4>1. CASE i \in 1 .. Len(k) /\ q[i] = k[i]
        <5>1. j \in 1 .. Len(k) /\ q[j] = k[j]
          BY <2>2, <3>1, <3>2, <4>1
        <5>2. QED
          BY <4>1, <5>1 DEF PendingOnce, Ready
      <4>2. CASE i = Len(k) + 1 /\ q[i] = f
        <5>1. j = Len(k) + 1
          BY <2>2, <3>1, <3>2, <4>2
        <5>2. QED
          BY <4>2, <5>1
      <4>3. QED
        BY <3>1, <4>1, <4>2
    <3>5. QED
      BY <3>3, <3>4
  <2>12a. KillCleared(q)
    <3> SUFFICES ASSUME NEW i \in 1 .. Len(q), NEW t \in Slot,
                        q[i].fn = "kill", t < q[i].slot
                 PROVE  inputs[q[i].node][t] = Null \/ ClearingAbove(q, i, t)
      BY DEF KillCleared
    <3>1. i \in 1 .. Len(k) /\ q[i] = k[i]
      <4>1. ~ (t < 0)
        BY DEF Slot
      <4>2. QED
        BY <2>2, <2>7, <4>1
    <3>2. CASE i = Len(k)
      <4>1. \/ inputs[k[i].node][t] = Null
            \/ ClearingAbove(k, i, t)
            \/ k[i].node = n /\ t = s
        BY <3>1 DEF Ready
      <4>2. ~ ClearingAbove(k, i, t)
        BY <2>4, <3>2 DEF ClearingAbove
      <4>3. i < Len(q) /\ q[i + 1] = f
        <5>1. i < Len(q)
          BY <2>4, <3>2
        <5>2. QED
          BY <2>4, <3>2, <5>1
      <4>4. k[i].node = n /\ t = s => ClearingAbove(q, i, t)
        BY <2>2, <3>1, <4>3 DEF ClearingAbove
      <4>5. QED
        BY <3>1, <4>1, <4>2, <4>4
    <3>3. CASE i < Len(k)
      <4>1. q[i + 1] = k[i + 1]
        BY <2>4, <3>1, <3>3
      <4>2. inputs[k[i].node][t] = Null \/ ClearingAbove(k, i, t)
        BY <3>1, <3>3 DEF Ready
      <4>3. ClearingAbove(k, i, t) => ClearingAbove(q, i, t)
        BY <2>4, <3>1, <3>3, <4>1 DEF ClearingAbove
      <4>4. QED
        BY <3>1, <4>2, <4>3
    <3>4. QED
      BY <2>4, <3>1, <3>2, <3>3
  <2>13. StackInv'
    <3>1. PICK r : r = q
      OBVIOUS
    <3>2. stack' = r /\ CallShape(r) /\ HoldsKeep(r, keeps') /\ PendingOnce(r)
      BY <2>3, <2>9, <2>10, <2>12, <3>1
    <3>3. RemoveOpen(r, inputlen)' /\ PendingFull(r)' /\ KillCleared(r)'
      <4>1. RemoveOpen(r, inputlen') /\ PendingFull(r) /\ KillCleared(r)
        BY <2>11, <2>12, <2>12a, <3>1
      <4>2. QED
        BY <1>4, <4>1 DEF RemoveOpen, OpenAt, PendingFull, KillCleared, ClearingAbove
    <3>4. QED
      BY <3>2, <3>3, NextStack
  <2>14. QED
    BY <2>5, <2>8, <2>13 DEF IInv
<1>5. CASE /\ in # old /\ old = Null
           /\ users' = [users EXCEPT ![in] = @ \cup {<<n, s>>}]
           /\ inputs' = [inputs EXCEPT ![n][s] = in]
           /\ stack' = k
           /\ UNCHANGED <<count, fault>>
  <2>1. \A m \in Node : <<n, s>> \notin users[m]
    BY <1>0, <1>5 DEF DefUse
  <2>2. users' = [m \in Node |-> IF m = in THEN users[m] \cup {<<n, s>>}
                                          ELSE users[m] \ {<<n, s>>}]
    <3>1. users = [m \in Node |-> users[m]] /\ in \in Node
      BY <1>0, <1>5 DEF TypeOK
    <3>2. \A m \in Node : users[m] \ {<<n, s>>} = users[m]
      BY <2>1
    <3>3. QED
      BY <1>5, <3>1, <3>2
  <2>3. QED
    BY <1>2, <1>5, <2>2
<1>6. QED
  BY <1>1, <1>2, <1>3, <1>4, <1>5 DEF SetInput

-----------------------------------------------------------------------------
(* Outside of the calls, and in a call that has only just begun, no edge   *)
(* is being replaced.                                                      *)
LEMMA NothingPending ==
  ASSUME NEW q, \A i \in 1 .. Len(q) : q[i].fn # "set_input"
  PROVE  \A u \in Node, t \in Slot : ~ Pending(q, u, t)
BY DEF Pending

(* With no call on the stack the invariant is TypeOK and DefUse.           *)
LEMMA IdleInv ==
  ASSUME TypeOK', DefUse', Len(stack') = 0
  PROVE  IInv'
<1>1. 1 .. Len(stack') = {}
  OBVIOUS
<1>2. StackInv'
  BY <1>1 DEF StackInv, CallShape, HoldsKeep, RemoveOpen, PendingFull,
              PendingOnce, KillCleared
<1>3. QED
  BY <1>2 DEF IInv

LEMMA DefUseKept ==
  ASSUME DefUse, fault = "none", UNCHANGED <<users, inputs>>,
         \A u \in Node, t \in Slot : Pending(stack, u, t)' <=> Pending(stack, u, t)
  PROVE  DefUse'
<1> SUFFICES ASSUME NEW m \in Node, NEW u \in Node, NEW t \in Slot
             PROVE  (<<u, t>> \in users[m] <=>
                       inputs[u][t] = m /\ ~ Pending(stack, u, t))'
  BY DEF DefUse
<1>1. <<u, t>> \in users[m] <=> inputs[u][t] = m /\ ~ Pending(stack, u, t)
  BY DEF DefUse
<1>2. users' = users /\ inputs' = inputs /\ (Pending(stack, u, t)' <=> Pending(stack, u, t))
  OBVIOUS
<1>3. QED
  BY <1>1, <1>2

(* sea_node_set_input called by the client itself.                         *)
LEMMA ReadyNone ==
  ASSUME stack = <<>>, NEW n \in Node, NEW in, NEW s \in Slot
  PROVE  Ready(n, in, s, <<>>)
<1> DEFINE k == <<>>
<1>1. k \in Seq(Frame) /\ Len(k) = 0 /\ 1 .. Len(k) = {} /\ k = stack
  OBVIOUS
<1> HIDE DEF k
<1>2. Ready(n, in, s, k)
  BY <1>1 DEF Ready, CallShape, HoldsKeep, RemoveOpen, PendingFull, PendingOnce
<1>3. QED
  BY <1>2 DEF k

(* sea_node_set_input called by a function that the client called.         *)
LEMMA ReadyOne ==
  ASSUME NEW n \in Node, NEW in, NEW s \in Slot, NEW k \in Seq(Frame),
         Len(k) = 1, k[1].fn \notin {"set_input", "kill"}, k[1].slot \in Slot,
         k[1].fn \in Holding => k[1].input \in Node /\ keeps'[k[1].input] > 0,
         k[1].fn \in Removing => /\ k[1].node = n /\ s < inputlen'[n]
                                 /\ k[1].slot < inputlen'[n],
         k[1].fn = "remove_cleared" =>
           /\ s = k[1].slot
           /\ \A t \in Slot : s < t /\ t < inputlen'[n] => inputs[n][t] # Null,
         \A u \in Node, t \in Slot : ~ Pending(stack, u, t)
  PROVE  Ready(n, in, s, k)
<1>1. \A i \in 1 .. Len(k) : i = 1
  OBVIOUS
<1>2. \A u \in Node, t \in Slot : Pending(k, u, t) <=> Pending(stack, u, t)
  BY <1>1, NothingPending
<1>3. CallShape(k) /\ HoldsKeep(k, keeps') /\ PendingFull(k) /\ PendingOnce(k)
  BY <1>1 DEF CallShape, ShapeAt, HoldsKeep, PendingFull, PendingOnce
<1>4. RemoveOpen(k, inputlen')
  BY <1>1 DEF RemoveOpen, OpenAt, Removing
<1>5. \A i \in 1 .. Len(k) : k[i].fn # "kill"
  BY <1>1
<1>6. \A i \in 1 .. Len(k) :
        k[i].fn = "remove_cleared" /\ k[i].node = n => s <= k[i].slot
  BY <1>1 DEF Slot
<1>7. QED
  BY <1>2, <1>3, <1>4, <1>5, <1>6 DEF Ready

(* The frame that runs, and the ones it will return to.                    *)
LEMMA Top ==
  ASSUME IInv, fault = "none", stack # <<>>
  PROVE  /\ TypeOK /\ DefUse /\ StackInv
         /\ stack \in Seq(Frame) /\ Front(stack) \in Seq(Frame)
         /\ Len(stack) \in Nat \ {0} /\ Len(Front(stack)) = Len(stack) - 1
         /\ \A i \in 1 .. Len(stack) - 1 : Front(stack)[i] = stack[i]
         /\ Last(stack) = stack[Len(stack)]
         /\ Last(stack) \in Frame
         /\ Last(stack).fn \in Functions /\ Last(stack).node \in Node
         /\ Last(stack).slot \in 0 .. MaxIn
         /\ Last(stack).input \in Node \cup {Null}
         /\ \A i \in 1 .. Len(stack) :
              /\ stack[i].fn \in Functions /\ stack[i].node \in Node
              /\ stack[i].slot \in 0 .. MaxIn
              /\ stack[i].input \in Node \cup {Null}
<1>1. TypeOK /\ DefUse /\ StackInv /\ stack \in Seq(Frame)
  BY DEF IInv, TypeOK
<1>2. \A i \in 1 .. Len(stack) :
        /\ stack[i].fn \in Functions /\ stack[i].node \in Node
        /\ stack[i].slot \in 0 .. MaxIn /\ stack[i].input \in Node \cup {Null}
  BY <1>1, FrameFields
<1>3. /\ Front(stack) \in Seq(Frame)
      /\ Len(stack) \in Nat \ {0} /\ Len(Front(stack)) = Len(stack) - 1
      /\ \A i \in 1 .. Len(stack) - 1 : Front(stack)[i] = stack[i]
      /\ Last(stack) = stack[Len(stack)] /\ Last(stack) \in Frame
  BY <1>1, PopFrame
<1>4. Len(stack) \in 1 .. Len(stack)
  BY <1>3
<1>5. QED
  BY <1>1, <1>2, <1>3, <1>4

(* A function that the client calls is alone on the stack when it runs.    *)
LEMMA TopOutermost ==
  ASSUME IInv, fault = "none", stack # <<>>,
         Last(stack).fn \notin {"set_input", "kill"}
  PROVE  /\ Len(stack) = 1 /\ stack[1] = Last(stack)
         /\ Last(stack).slot \in Slot
         /\ \A u \in Node, t \in Slot : ~ Pending(stack, u, t)
<1>1. ShapeAt(stack, Len(stack))
  BY Top DEF StackInv, CallShape
<1>2. Len(stack) = 1
  BY <1>1, Top DEF ShapeAt
<1>3. stack[1] = Last(stack) /\ \A i \in 1 .. Len(stack) : i = 1
  BY <1>2, Top
<1>4. QED
  BY <1>1, <1>2, <1>3, NothingPending DEF ShapeAt

LEMMA UnkeepInv ==
  ASSUME IInv, fault = "none", Unkeep PROVE IInv'
<1> USE GraphAssumption
<1> DEFINE f == Last(stack)
<1>1. stack # <<>> /\ f.fn = "unkeep"
  BY DEF Unkeep, In
<1>2. Len(stack) = 1 /\ stack[1] = f
  BY <1>1, TopOutermost
<1>3. f.input \in Node /\ keeps[f.input] > 0
  BY <1>1, <1>2, Top DEF StackInv, HoldsKeep, Holding
<1>4. Front(stack) \in Seq(Frame) /\ Len(stack') = 0
  BY <1>1, <1>2, Top DEF Unkeep
<1>5. keeps' \in [Node -> Nat]
  BY <1>1, <1>3, Top DEF Unkeep, TypeOK
<1>6. TypeOK'
  BY <1>1, <1>4, <1>5, Top DEF Unkeep, TypeOK
<1>7. \A u \in Node, t \in Slot : ~ Pending(stack, u, t) /\ ~ Pending(stack, u, t)'
  BY <1>1, <1>4, TopOutermost DEF Pending
<1>8. DefUse'
  <2>1. UNCHANGED <<users, inputs>>
    BY DEF Unkeep
  <2>2. QED
    BY <1>1, <1>7, <2>1, Top, DefUseKept
<1>9. QED
  BY <1>4, <1>6, <1>8, IdleInv

LEMMA RemoveReturnInv ==
  ASSUME IInv, fault = "none", RemoveReturn PROVE IInv'
<1> USE GraphAssumption
<1> DEFINE f == Last(stack)
<1>1. stack # <<>> /\ f.fn \in {"remove_cleared", "remove_filled"}
  BY DEF RemoveReturn, In
<1>2. Len(stack) = 1 /\ stack[1] = f
  BY <1>1, TopOutermost
<1>3. /\ f.slot < inputlen[f.node]
      /\ f.fn = "remove_filled" => f.input \in Node /\ keeps[f.input] > 0
  BY <1>1, <1>2, Top DEF StackInv, HoldsKeep, Holding, RemoveOpen, OpenAt, Removing
<1>4. Front(stack) \in Seq(Frame) /\ Len(stack') = 0
  BY <1>1, <1>2, Top DEF RemoveReturn
<1>5. keeps' \in [Node -> Nat]
  <2>0. keeps \in [Node -> Nat]
    BY <1>1, Top DEF TypeOK
  <2>1. CASE In("remove_cleared") /\ keeps' = keeps
    BY <2>0, <2>1
  <2>2. CASE In("remove_filled") /\ keeps' = [keeps EXCEPT ![f.input] = @ - 1]
    BY <1>3, <2>0, <2>2 DEF In
  <2>3. QED
    BY <2>1, <2>2 DEF RemoveReturn
<1>6. inputlen' \in [Node -> 0 .. MaxIn]
  <2>1. f.node \in Node /\ f.slot \in 0 .. MaxIn /\ inputlen[f.node] \in 0 .. MaxIn
    BY <1>1, Top DEF TypeOK
  <2>2. inputlen[f.node] - 1 \in 0 .. MaxIn
    BY <1>3, <2>1
  <2>3. QED
    BY <1>1, <2>2, Top DEF RemoveReturn, TypeOK
<1>7. TypeOK'
  BY <1>1, <1>4, <1>5, <1>6, Top DEF RemoveReturn, TypeOK
<1>8. \A u \in Node, t \in Slot : ~ Pending(stack, u, t) /\ ~ Pending(stack, u, t)'
  BY <1>1, <1>4, TopOutermost DEF Pending
<1>9. DefUse'
  <2>1. UNCHANGED <<users, inputs>>
    BY DEF RemoveReturn
  <2>2. QED
    BY <1>1, <1>8, <2>1, Top, DefUseKept
<1>10. QED
  BY <1>4, <1>7, <1>9, IdleInv

(* A step of a function that the client called, up to its next call of     *)
(* sea_node_set_input.                                                     *)
LEMMA SubsumeUserInv ==
  ASSUME IInv, fault = "none", SubsumeUser PROVE IInv'
<1> USE GraphAssumption
<1> DEFINE f == Last(stack)
<1>1. stack # <<>> /\ f.fn = "subsume"
  BY DEF SubsumeUser, In
<1>2. Len(stack) = 1 /\ stack[1] = f
  BY <1>1, TopOutermost
<1>3. f.input \in Node /\ keeps[f.input] > 0 /\ f.node \in Node
  BY <1>1, <1>2, Top DEF StackInv, HoldsKeep, Holding
<1>4. keeps' = keeps /\ kind' = kind /\ inputlen' = inputlen
  BY DEF SubsumeUser
<1>5. PICK u \in users[f.node] : SetInput(u[1], f.input, u[2], stack)
  BY DEF SubsumeUser
<1>6. u[1] \in Node /\ u[2] \in Slot
  <2>1. u \in User
    BY <1>1, <1>3, Top DEF TypeOK
  <2>2. QED
    BY <2>1 DEF User
<1>7. Ready(u[1], f.input, u[2], stack)
  BY <1>1, <1>2, <1>3, <1>4, <1>6, Top, TopOutermost, ReadyOne DEF Removing
<1>8. inputlen' \in [Node -> 0 .. MaxIn] /\ keeps' \in [Node -> Nat]
  BY <1>1, <1>4, Top DEF TypeOK
<1>9. QED
  BY <1>3, <1>4, <1>5, <1>6, <1>7, <1>8, SetInputInv

LEMMA RemoveMoveInv ==
  ASSUME IInv, fault = "none", RemoveMove PROVE IInv'
<1> USE GraphAssumption
<1> DEFINE f == Last(stack)
           n == f.node
           last == inputlen[n] - 1
           tmp == inputs[n][last]
           c == Call("remove_moved", n, f.slot, tmp)
           k == Append(Front(stack), c)
<1>1. stack # <<>> /\ f.fn = "remove_cleared" /\ f.slot < last
  BY DEF RemoveMove, In
<1>2. Len(stack) = 1 /\ stack[1] = f /\ n \in Node /\ f.slot \in Slot
  BY <1>1, TopOutermost, Top
<1>3. last \in Slot
  BY <1>1, <1>2, Top DEF TypeOK, Slot
<1>4. tmp \in Node
  <2>1. OpenAt(stack, 1, inputlen)
    BY <1>1, <1>2, Top DEF StackInv, RemoveOpen
  <2>2. tmp # Null
    <3>1. last < inputlen[n]
      BY <1>1, <1>2, Top DEF TypeOK
    <3>2. QED
      BY <1>1, <1>2, <1>3, <2>1, <3>1 DEF OpenAt, Removing
  <2>3. QED
    BY <1>1, <1>2, <1>3, <2>2, Top DEF TypeOK
<1>5. c \in Frame /\ c.fn = "remove_moved" /\ c.node = n /\ c.slot = f.slot /\ c.input = tmp
  BY <1>2, <1>4 DEF Call, Frame, Functions, Slot
<1>6. k \in Seq(Frame) /\ Len(k) = 1 /\ k[1] = c
  <2> HIDE DEF c
  <2>1. QED
    BY <1>1, <1>2, <1>5, Top, PushFrame
<1>7. /\ keeps' = [keeps EXCEPT ![tmp] = @ + 1]
      /\ kind' = kind /\ inputlen' = inputlen
      /\ SetInput(n, Null, last, k)
  BY DEF RemoveMove
<1>8. keeps' \in [Node -> Nat] /\ keeps'[tmp] > 0 /\ inputlen' \in [Node -> 0 .. MaxIn]
  <2>1. keeps \in [Node -> Nat] /\ inputlen \in [Node -> 0 .. MaxIn]
    BY <1>1, Top DEF TypeOK
  <2> HIDE DEF tmp
  <2>2. QED
    BY <1>4, <1>7, <2>1
<1>9. last < inputlen'[n] /\ f.slot < inputlen'[n]
  <2>1. inputlen'[n] \in 0 .. MaxIn /\ inputlen'[n] = inputlen[n]
    BY <1>2, <1>7, <1>8
  <2>2. QED
    BY <1>1, <1>2, <2>1 DEF Slot
<1> HIDE DEF k, c, tmp, last
<1>10. Ready(n, Null, last, k)
  BY <1>1, <1>2, <1>3, <1>4, <1>5, <1>6, <1>8, <1>9, TopOutermost, ReadyOne
<1>11. QED
  BY <1>2, <1>3, <1>7, <1>8, <1>10, SetInputInv

LEMMA RemoveFillInv ==
  ASSUME IInv, fault = "none", RemoveFill PROVE IInv'
<1> USE GraphAssumption
<1> DEFINE f == Last(stack)
           c == Call("remove_filled", f.node, f.slot, f.input)
           k == Append(Front(stack), c)
<1>1. stack # <<>> /\ f.fn = "remove_moved"
  BY DEF RemoveFill, In
<1>2. Len(stack) = 1 /\ stack[1] = f /\ f.node \in Node /\ f.slot \in Slot
  BY <1>1, TopOutermost, Top
<1>3. /\ f.input \in Node /\ keeps[f.input] > 0
      /\ f.slot < inputlen[f.node]
  BY <1>1, <1>2, Top DEF StackInv, HoldsKeep, Holding, RemoveOpen, OpenAt, Removing
<1>4. c \in Frame /\ c.fn = "remove_filled" /\ c.node = f.node /\ c.slot = f.slot /\ c.input = f.input
  BY <1>2, <1>3 DEF Call, Frame, Functions, Slot
<1>5. k \in Seq(Frame) /\ Len(k) = 1 /\ k[1] = c
  <2> HIDE DEF c
  <2>1. QED
    BY <1>1, <1>2, <1>4, Top, PushFrame
<1>6. /\ keeps' = keeps /\ kind' = kind /\ inputlen' = inputlen
      /\ SetInput(f.node, f.input, f.slot, k)
  BY DEF RemoveFill
<1>7. keeps' \in [Node -> Nat] /\ inputlen' \in [Node -> 0 .. MaxIn]
  BY <1>1, <1>6, Top DEF TypeOK
<1> HIDE DEF k, c
<1>8. Ready(f.node, f.input, f.slot, k)
  BY <1>1, <1>2, <1>3, <1>4, <1>5, <1>6, TopOutermost, ReadyOne
<1>9. QED
  BY <1>2, <1>3, <1>6, <1>7, <1>8, SetInputInv

-----------------------------------------------------------------------------
(* What a running sea_node_kill finds below it: it is not outermost, the   *)
(* slots it has passed are empty, and when it works on the node that       *)
(* sea_node_remove_input shortens it has not passed the open slot, which   *)
(* is still full.                                                          *)
LEMMA KillFrame ==
  ASSUME IInv, fault = "none", stack # <<>>, Last(stack).fn = "kill"
  PROVE  /\ Len(stack) > 1
         /\ \A t \in Slot : t < Last(stack).slot => inputs[Last(stack).node][t] = Null
         /\ \A i \in 1 .. Len(stack) : stack[i].fn \in Removing =>
              /\ i = 1 /\ Len(stack) > 2
              /\ stack[2].node = stack[1].node
              /\ stack[2].slot < inputlen[stack[1].node]
              /\ stack[1].fn = "remove_cleared" => stack[2].slot = stack[1].slot
              /\ stack[1].node = Last(stack).node => Last(stack).slot <= stack[2].slot
<1> DEFINE f == Last(stack)
           L == Len(stack)
<1>1. L \in Nat \ {0} /\ f = stack[L] /\ L \in 1 .. L
  BY Top
<1>2. L > 1
  BY <1>1, Top DEF StackInv, CallShape, ShapeAt
<1>3. \A t \in Slot : t < f.slot => inputs[f.node][t] = Null
  BY <1>1, Top DEF StackInv, KillCleared, ClearingAbove
<1>4. ASSUME NEW i \in 1 .. L, stack[i].fn \in Removing
      PROVE  /\ i = 1 /\ L > 2
             /\ stack[2].node = stack[1].node
             /\ stack[2].slot < inputlen[stack[1].node]
             /\ stack[1].fn = "remove_cleared" => stack[2].slot = stack[1].slot
             /\ stack[1].node = f.node => f.slot <= stack[2].slot
  <2>1. ShapeAt(stack, i) /\ OpenAt(stack, i, inputlen)
    BY Top DEF StackInv, CallShape, RemoveOpen
  <2>2. i = 1
    BY <1>1, <1>4, <2>1 DEF ShapeAt, Removing
  <2>3. /\ stack[2].fn = "set_input" /\ stack[2].node = stack[1].node
        /\ stack[2].slot < inputlen[stack[1].node]
        /\ stack[1].fn = "remove_cleared" => stack[2].slot = stack[1].slot
    BY <1>1, <1>2, <1>4, <2>1, <2>2 DEF OpenAt
  <2>4. L > 2
    <3>1. L # 2
      BY <1>1, <2>3
    <3> HIDE DEF L
    <3>2. QED
      BY <1>1, <1>2, <3>1
  <2>5. 2 \in 1 .. L
    BY <1>1, <2>4
  <2>6. inputs[stack[2].node][stack[2].slot] # Null
    BY <2>3, <2>5, Top DEF StackInv, PendingFull
  <2>7. stack[2].slot \in Slot
    BY <2>3, <2>5, Top DEF StackInv, CallShape, ShapeAt
  <2>8. stack[1].node = f.node => ~ (stack[2].slot < f.slot)
    BY <1>3, <2>3, <2>6, <2>7
  <2>9. f.slot \in 0 .. MaxIn
    BY Top
  <2>10. stack[1].node = f.node => f.slot <= stack[2].slot
    BY <2>7, <2>8, <2>9, GraphAssumption DEF Slot
  <2>11. QED
    BY <2>2, <2>3, <2>4, <2>10
<1>5. QED
  BY <1>2, <1>3, <1>4

LEMMA KillReturnInv ==
  ASSUME IInv, fault = "none", KillReturn PROVE IInv'
<1> USE GraphAssumption
<1> DEFINE f == Last(stack)
           L == Len(stack)
<1>0. PICK q : q = Front(stack)
  OBVIOUS
<1>1. stack # <<>> /\ f.fn = "kill" /\ f.slot >= inputlen[f.node] /\ stack' = q
  BY <1>0 DEF KillReturn, In
<1>2. /\ L \in Nat \ {0} /\ f = stack[L] /\ f.node \in Node /\ L > 1
      /\ q \in Seq(Frame) /\ Len(q) = L - 1
      /\ \A i \in 1 .. Len(q) : i \in 1 .. L /\ q[i] = stack[i]
  BY <1>0, <1>1, Top, KillFrame
<1>3. UNCHANGED <<inputs, users, keeps, count, fault>>
  BY DEF KillReturn
<1>4. inputlen' = [inputlen EXCEPT ![f.node] = 0] /\ kind' = [kind EXCEPT ![f.node] = "Invalid"]
  BY DEF KillReturn
<1>5. StackInv
  BY <1>1, Top
<1> HIDE DEF L
<1>6. TypeOK'
  BY <1>1, <1>2, <1>3, <1>4, Top DEF TypeOK
<1>7. DefUse'
  <2>1. ASSUME NEW u \in Node, NEW t \in Slot
        PROVE  Pending(stack, u, t)' <=> Pending(stack, u, t)
    <3>1. Pending(q, u, t) => Pending(stack, u, t)
      BY <1>2 DEF Pending, L
    <3>2. Pending(stack, u, t) => Pending(q, u, t)
      <4>1. \A i \in 1 .. L : stack[i].fn = "set_input" => i \in 1 .. Len(q)
        BY <1>1, <1>2
      <4>2. QED
        BY <1>2, <4>1 DEF Pending, L
    <3>3. QED
      BY <1>1, <3>1, <3>2 DEF Pending
  <2>2. QED
    BY <1>1, <1>3, <2>1, Top, DefUseKept
<1>8. CallShape(q)
  <2> SUFFICES ASSUME NEW i \in 1 .. Len(q) PROVE ShapeAt(q, i)
    BY DEF CallShape
  <2>1. ShapeAt(stack, i) /\ q[i] = stack[i] /\ (i > 1 => q[i - 1] = stack[i - 1])
    BY <1>2, <1>5 DEF StackInv, CallShape, L
  <2>2. QED
    BY <1>2, <2>1 DEF ShapeAt
<1>9. HoldsKeep(q, keeps) /\ PendingFull(q) /\ PendingOnce(q)
  BY <1>2, <1>5 DEF StackInv, HoldsKeep, PendingFull, PendingOnce, L
<1>10. RemoveOpen(q, inputlen')
  <2> SUFFICES ASSUME NEW i \in 1 .. Len(q), q[i].fn \in Removing
               PROVE  OpenAt(q, i, inputlen')
    BY DEF RemoveOpen, OpenAt
  <2>1. /\ i = 1 /\ L > 2 /\ q[1] = stack[1] /\ q[2] = stack[2]
        /\ stack[2].slot < inputlen[stack[1].node]
        /\ stack[1].node = f.node => f.slot <= stack[2].slot
        /\ stack[1].node \in Node
        /\ OpenAt(stack, 1, inputlen)
    <3>1. i \in 1 .. L /\ stack[i].fn \in Removing /\ q[i] = stack[i]
      BY <1>2
    <3>2. /\ i = 1 /\ L > 2
          /\ stack[2].slot < inputlen[stack[1].node]
          /\ stack[1].node = f.node => f.slot <= stack[2].slot
      BY <1>1, <3>1, KillFrame DEF L
    <3>3. q[2] = stack[2]
      BY <1>2, <3>2
    <3>4. stack[1].node \in Node /\ OpenAt(stack, 1, inputlen)
      BY <1>1, <1>5, <3>1, <3>2, Top DEF StackInv, RemoveOpen, L
    <3>5. QED
      BY <3>1, <3>2, <3>3, <3>4
  <2>2. stack[1].node # f.node
    <3>1. stack[2].slot \in 0 .. MaxIn /\ f.slot \in 0 .. MaxIn /\ inputlen[f.node] \in 0 .. MaxIn
      <4>1. 2 \in 1 .. Len(stack)
        BY <1>2, <2>1 DEF L
      <4>2. QED
        BY <1>1, <1>2, <4>1, Top DEF TypeOK
    <3>2. QED
      BY <1>1, <2>1, <3>1
  <2>3. inputlen'[stack[1].node] = inputlen[stack[1].node]
    BY <1>1, <1>4, <2>1, <2>2, Top DEF TypeOK
  <2>4. QED
    BY <1>2, <2>1, <2>3 DEF OpenAt, L
<1>11. KillCleared(q)
  <2> SUFFICES ASSUME NEW i \in 1 .. Len(q), NEW s \in Slot,
                      q[i].fn = "kill", s < q[i].slot
               PROVE  inputs[q[i].node][s] = Null \/ ClearingAbove(q, i, s)
    BY DEF KillCleared
  <2>1. i \in 1 .. L /\ q[i] = stack[i]
    BY <1>2
  <2>2. inputs[q[i].node][s] = Null \/ ClearingAbove(stack, i, s)
    BY <1>5, <2>1 DEF StackInv, KillCleared, L
  <2>3. ClearingAbove(stack, i, s) => i + 1 \in 1 .. Len(q)
    BY <1>1, <1>2, <2>1 DEF ClearingAbove, L
  <2>4. ClearingAbove(stack, i, s) => ClearingAbove(q, i, s)
    <3>1. ASSUME ClearingAbove(stack, i, s) PROVE q[i + 1] = stack[i + 1] /\ i < Len(q)
      BY <1>2, <2>1, <2>3, <3>1
    <3>2. QED
      BY <2>1, <3>1 DEF ClearingAbove
  <2>5. QED
    BY <2>2, <2>4
<1>12. StackInv'
  <2>1. RemoveOpen(q, inputlen)' /\ PendingFull(q)' /\ KillCleared(q)'
    BY <1>3, <1>9, <1>10, <1>11
       DEF RemoveOpen, OpenAt, PendingFull, KillCleared, ClearingAbove
  <2>2. HoldsKeep(q, keeps')
    BY <1>3, <1>9
  <2>3. QED
    BY <1>1, <1>8, <1>9, <2>1, <2>2, NextStack
<1>13. QED
  BY <1>6, <1>7, <1>12 DEF IInv

LEMMA KillInputInv ==
  ASSUME IInv, fault = "none", KillInput PROVE IInv'
<1> USE GraphAssumption
<1> DEFINE f == Last(stack)
           L == Len(stack)
           c == Call("kill", f.node, f.slot + 1, Null)
           k == Append(Front(stack), c)
<1>1. stack # <<>> /\ f.fn = "kill" /\ f.slot < inputlen[f.node]
  BY DEF KillInput, In
<1>2. L \in Nat \ {0} /\ f = stack[L] /\ f.node \in Node /\ L > 1
  BY <1>1, Top, KillFrame
<1>3. f.slot \in Slot /\ f.slot + 1 \in 0 .. MaxIn
  <2>1. f.slot \in 0 .. MaxIn /\ inputlen[f.node] \in 0 .. MaxIn
    BY <1>1, <1>2, Top DEF TypeOK
  <2>2. QED
    BY <1>1, <2>1 DEF Slot
<1>4. c \in Frame /\ c.fn = "kill" /\ c.node = f.node /\ c.slot = f.slot + 1
  BY <1>2, <1>3 DEF Call, Frame, Functions
<1>5. /\ k \in Seq(Frame) /\ Len(k) = L /\ k[L] = c
      /\ \A i \in 1 .. L : i # L => k[i] = stack[i]
  <2> HIDE DEF c
  <2>1. /\ Front(stack) \in Seq(Frame) /\ Len(Front(stack)) = L - 1
        /\ \A i \in 1 .. L - 1 : Front(stack)[i] = stack[i]
    BY <1>1, Top
  <2>2. /\ k \in Seq(Frame) /\ Len(k) = L - 1 + 1 /\ k[L - 1 + 1] = c
        /\ \A i \in 1 .. L - 1 : k[i] = Front(stack)[i]
    BY <1>4, <2>1, PushFrame
  <2>3. QED
    BY <1>2, <2>1, <2>2
<1>6. /\ keeps' = keeps /\ kind' = kind /\ inputlen' = inputlen
      /\ SetInput(f.node, Null, f.slot, k)
  BY DEF KillInput
<1>7. keeps' \in [Node -> Nat] /\ inputlen' \in [Node -> 0 .. MaxIn]
  BY <1>1, <1>6, Top DEF TypeOK
<1>8. StackInv
  BY <1>1, Top
<1>9. \A i \in 1 .. L : stack[i].fn \in Removing =>
        /\ i = 1 /\ L > 2
        /\ stack[1].node = f.node => f.slot <= stack[2].slot
        /\ stack[1].fn = "remove_cleared" => stack[2].slot = stack[1].slot
  BY <1>1, KillFrame
<1> HIDE DEF k, c, L
<1>10. \A u \in Node, t \in Slot : Pending(k, u, t) <=> Pending(stack, u, t)
  <2> SUFFICES ASSUME NEW u \in Node, NEW t \in Slot
               PROVE  Pending(k, u, t) <=> Pending(stack, u, t)
    OBVIOUS
  <2>1. \A i \in 1 .. L : k[i].fn = "set_input" => i # L /\ k[i] = stack[i]
    BY <1>4, <1>5
  <2>2. \A i \in 1 .. L : stack[i].fn = "set_input" => i # L /\ k[i] = stack[i]
    BY <1>1, <1>2, <1>5
  <2>3. Pending(k, u, t) => Pending(stack, u, t)
    BY <1>5, <2>1 DEF Pending, L
  <2>4. Pending(stack, u, t) => Pending(k, u, t)
    BY <1>5, <2>2 DEF Pending, L
  <2>5. QED
    BY <2>3, <2>4
<1>11. CallShape(k)
  <2> SUFFICES ASSUME NEW i \in 1 .. L PROVE ShapeAt(k, i)
    BY <1>5 DEF CallShape
  <2>1. CASE i = L
    BY <1>2, <1>4, <1>5, <2>1 DEF ShapeAt
  <2>2. CASE i # L
    <3>1. ShapeAt(stack, i) /\ k[i] = stack[i] /\ (i > 1 => k[i - 1] = stack[i - 1])
      BY <1>2, <1>5, <1>8, <2>2 DEF StackInv, CallShape, L
    <3>2. QED
      BY <1>2, <3>1 DEF ShapeAt
  <2>3. QED
    BY <2>1, <2>2
<1>12. HoldsKeep(k, keeps') /\ PendingFull(k) /\ PendingOnce(k)
  <2>1. \A i \in 1 .. L : k[i].fn # "kill" => k[i] = stack[i]
    BY <1>4, <1>5
  <2>2. HoldsKeep(stack, keeps) /\ PendingFull(stack) /\ PendingOnce(stack)
    BY <1>8 DEF StackInv
  <2>3. HoldsKeep(k, keeps')
    BY <1>5, <1>6, <2>1, <2>2 DEF HoldsKeep, Holding, L
  <2>4. PendingFull(k) /\ PendingOnce(k)
    BY <1>5, <2>1, <2>2 DEF PendingFull, PendingOnce, L
  <2>5. QED
    BY <2>3, <2>4
<1>13. RemoveOpen(k, inputlen')
  <2> SUFFICES ASSUME NEW i \in 1 .. L, k[i].fn \in Removing
               PROVE  OpenAt(k, i, inputlen')
    BY <1>5 DEF RemoveOpen, OpenAt
  <2>1. i # L /\ k[i] = stack[i]
    BY <1>4, <1>5 DEF Removing
  <2>2. i = 1 /\ L > 2
    BY <1>9, <2>1
  <2>3. k[2] = stack[2]
    BY <1>2, <1>5, <2>2
  <2>4. OpenAt(stack, i, inputlen)
    BY <1>8 DEF StackInv, RemoveOpen, L
  <2>5. QED
    BY <1>2, <1>5, <1>6, <2>1, <2>2, <2>3, <2>4 DEF OpenAt, L
<1>14. ASSUME NEW i \in 1 .. L, NEW t \in Slot, k[i].fn = "kill", t < k[i].slot
       PROVE  \/ inputs[k[i].node][t] = Null
              \/ ClearingAbove(k, i, t)
              \/ i = L /\ k[i].node = f.node /\ t = f.slot
  <2>1. CASE i = L
    <3>1. t < f.slot \/ t = f.slot
      BY <1>3, <1>4, <1>5, <1>14, <2>1 DEF Slot
    <3>2. t < f.slot => inputs[f.node][t] = Null
      BY <1>1, KillFrame
    <3>3. QED
      BY <1>4, <1>5, <2>1, <3>1, <3>2
  <2>2. CASE i # L
    <3>1. inputs[k[i].node][t] = Null \/ ClearingAbove(stack, i, t)
      BY <1>5, <1>8, <1>14, <2>2 DEF StackInv, KillCleared, L
    <3>2. ClearingAbove(stack, i, t) => i + 1 \in 1 .. L /\ i + 1 # L
      BY <1>1, <1>2, <2>2 DEF ClearingAbove, L
    <3>3. ClearingAbove(stack, i, t) => ClearingAbove(k, i, t)
      BY <1>5, <2>2, <3>2 DEF ClearingAbove, L
    <3>4. QED
      BY <3>1, <3>3
  <2>3. QED
    BY <2>1, <2>2
<1>15. ASSUME NEW i \in 1 .. L, k[i].fn = "remove_cleared", k[i].node = f.node
       PROVE  f.slot <= k[i].slot
  BY <1>4, <1>5, <1>9, <1>15 DEF Removing
<1>16. Ready(f.node, Null, f.slot, k)
  BY <1>2, <1>4, <1>5, <1>10, <1>11, <1>12, <1>13, <1>14, <1>15 DEF Ready
<1>17. QED
  BY <1>1, <1>2, <1>3, <1>6, <1>7, <1>16, SetInputInv

LEMMA SetInputReturnInv ==
  ASSUME IInv, fault = "none", SetInputReturn PROVE IInv'
<1> USE GraphAssumption
<1> DEFINE f == Last(stack)
           L == Len(stack)
<1>0. PICK q : q = Front(stack)
  OBVIOUS
<1>1. stack # <<>> /\ f.fn = "set_input" /\ stack' = q
  BY <1>0 DEF SetInputReturn, In
<1>2. /\ L \in Nat \ {0} /\ f = stack[L] /\ f.node \in Node /\ f.input \in Node \cup {Null}
      /\ q \in Seq(Frame) /\ Len(q) = L - 1
      /\ \A i \in 1 .. Len(q) : i \in 1 .. L /\ q[i] = stack[i]
  BY <1>0, <1>1, Top
<1>3. UNCHANGED <<kind, inputlen, keeps, count, fault>>
  BY DEF SetInputReturn
<1>4. StackInv /\ TypeOK /\ DefUse
  BY <1>1, Top
<1> HIDE DEF L
<1>5. f.slot \in Slot
  BY <1>1, <1>2, <1>4 DEF StackInv, CallShape, ShapeAt, L
<1>6. /\ inputs'[f.node][f.slot] = f.input
      /\ \A u \in Node, t \in Slot :
           <<u, t>> # <<f.node, f.slot>> => inputs'[u][t] = inputs[u][t]
      /\ inputs' \in [Node -> [Slot -> Node \cup {Null}]]
  BY <1>2, <1>4, <1>5 DEF SetInputReturn, TypeOK
<1>7. /\ users' \in [Node -> SUBSET User]
      /\ \A m \in Node :
           users'[m] = IF m = f.input THEN users[m] \cup {<<f.node, f.slot>>}
                                      ELSE users[m]
  <2>1. <<f.node, f.slot>> \in User /\ users \in [Node -> SUBSET User]
    BY <1>2, <1>4, <1>5 DEF User, TypeOK
  <2>2. QED
    BY <2>1 DEF SetInputReturn
<1>8. TypeOK'
  BY <1>1, <1>2, <1>3, <1>4, <1>6, <1>7 DEF TypeOK
<1>9. \A i \in 1 .. Len(q) :
         q[i].fn = "set_input" => <<q[i].node, q[i].slot>> # <<f.node, f.slot>>
  <2> SUFFICES ASSUME NEW i \in 1 .. Len(q), q[i].fn = "set_input",
                      q[i].node = f.node, q[i].slot = f.slot
               PROVE  FALSE
    OBVIOUS
  <2>1. i \in 1 .. L /\ L \in 1 .. L /\ i # L /\ q[i] = stack[i]
    BY <1>2
  <2>2. QED
    BY <1>1, <1>2, <1>4, <2>1 DEF StackInv, PendingOnce, L
<1>10. \A u \in Node, t \in Slot :
         Pending(stack, u, t) <=> (Pending(q, u, t) \/ <<u, t>> = <<f.node, f.slot>>)
  <2> SUFFICES ASSUME NEW u \in Node, NEW t \in Slot
               PROVE  Pending(stack, u, t) <=>
                        (Pending(q, u, t) \/ <<u, t>> = <<f.node, f.slot>>)
    OBVIOUS
  <2>1. \A i \in 1 .. L : i = L \/ (i \in 1 .. Len(q) /\ q[i] = stack[i])
    BY <1>2
  <2>2. Pending(stack, u, t) => (Pending(q, u, t) \/ <<u, t>> = <<f.node, f.slot>>)
    BY <1>2, <2>1 DEF Pending, L
  <2>3. Pending(q, u, t) => Pending(stack, u, t)
    BY <1>2 DEF Pending, L
  <2>4. <<u, t>> = <<f.node, f.slot>> => Pending(stack, u, t)
    <3>1. L \in 1 .. L
      BY <1>2
    <3>2. QED
      BY <1>1, <1>2, <3>1 DEF Pending, L
  <2>5. QED
    BY <2>2, <2>3, <2>4
<1>11. DefUse'
  <2> SUFFICES ASSUME NEW m \in Node, NEW u \in Node, NEW t \in Slot
               PROVE  (<<u, t>> \in users[m] <=>
                         inputs[u][t] = m /\ ~ Pending(stack, u, t))'
    BY DEF DefUse
  <2>1. Pending(stack, u, t)' <=> Pending(q, u, t)
    BY <1>1 DEF Pending
  <2>2. <<u, t>> \in users[m] <=> inputs[u][t] = m /\ ~ Pending(stack, u, t)
    BY <1>4 DEF DefUse
  <2>3. CASE <<u, t>> = <<f.node, f.slot>>
    <3>1. ~ Pending(q, u, t) /\ <<u, t>> \notin users[m]
      BY <1>9, <1>10, <2>2, <2>3 DEF Pending
    <3>2. QED
      BY <1>6, <1>7, <2>1, <2>3, <3>1
  <2>4. CASE <<u, t>> # <<f.node, f.slot>>
    <3>1. inputs'[u][t] = inputs[u][t] /\ (<<u, t>> \in users'[m] <=> <<u, t>> \in users[m])
      BY <1>6, <1>7, <2>4
    <3>2. QED
      BY <1>10, <2>1, <2>2, <2>4, <3>1
  <2>5. QED
    BY <2>3, <2>4
<1>12. CallShape(q)
  <2> SUFFICES ASSUME NEW i \in 1 .. Len(q) PROVE ShapeAt(q, i)
    BY DEF CallShape
  <2>1. ShapeAt(stack, i) /\ q[i] = stack[i] /\ (i > 1 => q[i - 1] = stack[i - 1])
    <3>1. ShapeAt(stack, i) /\ q[i] = stack[i]
      BY <1>2, <1>4 DEF StackInv, CallShape, L
    <3>2. i > 1 => i - 1 \in 1 .. Len(q)
      BY <1>2
    <3>3. QED
      BY <1>2, <3>1, <3>2
  <2>2. QED
    BY <1>2, <2>1 DEF ShapeAt
<1>13. HoldsKeep(q, keeps) /\ PendingOnce(q)
  BY <1>2, <1>4 DEF StackInv, HoldsKeep, PendingOnce, L
<1>14. PendingFull(q)'
  <2>1. \A i \in 1 .. Len(q) : q[i].fn = "set_input" =>
           /\ q[i].node \in Node /\ q[i].slot \in Slot
           /\ inputs[q[i].node][q[i].slot] # Null
    BY <1>1, <1>2, <1>4, <1>12, Top DEF StackInv, PendingFull, CallShape, ShapeAt, L
  <2>2. QED
    BY <1>6, <1>9, <2>1 DEF PendingFull
<1>15. L > 2 => /\ f.input = Null
                /\ stack[L - 1].fn = "kill" /\ stack[L - 1].node = f.node
                /\ stack[L - 1].slot = f.slot + 1
  <2>1. ShapeAt(stack, L)
    BY <1>2, <1>4 DEF StackInv, CallShape, L
  <2>2. QED
    BY <1>1, <1>2, <2>1 DEF ShapeAt
<1>16. KillCleared(q)'
  <2> SUFFICES ASSUME NEW i \in 1 .. Len(q), NEW s \in Slot,
                      q[i].fn = "kill", s < q[i].slot
               PROVE  inputs'[q[i].node][s] = Null \/ ClearingAbove(q, i, s)
    BY DEF KillCleared, ClearingAbove
  <2>1. i \in 1 .. L /\ q[i] = stack[i] /\ i # L /\ q[i].node \in Node
    BY <1>1, <1>2, Top DEF L
  <2>2. inputs[q[i].node][s] = Null \/ ClearingAbove(stack, i, s)
    BY <1>4, <2>1 DEF StackInv, KillCleared, L
  <2>3. L > 2
    <3>1. ShapeAt(stack, i)
      BY <1>4, <2>1 DEF StackInv, CallShape, L
    <3>2. i > 1
      BY <2>1, <3>1 DEF ShapeAt
    <3>3. QED
      BY <1>2, <2>1, <3>2
  <2>4. CASE inputs[q[i].node][s] = Null
    BY <1>6, <1>15, <2>1, <2>3, <2>4
  <2>5. CASE ClearingAbove(stack, i, s)
    <3>1. CASE i + 1 = L
      BY <1>2, <1>6, <1>15, <2>1, <2>3, <2>5, <3>1 DEF ClearingAbove, L
    <3>2. CASE i + 1 # L
      <4>1. i + 1 \in 1 .. Len(q)
        BY <1>2, <2>1, <3>2
      <4>2. q[i + 1] = stack[i + 1] /\ i < Len(q)
        BY <1>2, <2>1, <4>1
      <4>3. QED
        BY <2>1, <2>5, <4>2 DEF ClearingAbove
    <3>3. QED
      BY <3>1, <3>2
  <2>6. QED
    BY <2>2, <2>4, <2>5
<1>17. RemoveOpen(q, inputlen)'
  <2> SUFFICES ASSUME NEW i \in 1 .. Len(q), q[i].fn \in Removing
               PROVE  OpenAt(q, i, inputlen)'
    BY DEF RemoveOpen, OpenAt
  <2> DEFINE n == q[i].node
  <2>1. /\ i = 1 /\ L > 1 /\ i \in 1 .. L /\ q[1] = stack[1] /\ n \in Node
        /\ OpenAt(stack, 1, inputlen)
    <3>1. i \in 1 .. L /\ q[i] = stack[i] /\ ShapeAt(q, i)
      BY <1>2, <1>12 DEF CallShape
    <3>2. i = 1
      BY <3>1 DEF ShapeAt, Removing
    <3>3. OpenAt(stack, 1, inputlen) /\ n \in Node
      BY <1>1, <1>4, <3>1, <3>2, Top DEF StackInv, RemoveOpen, L
    <3>4. QED
      BY <1>2, <3>1, <3>2, <3>3
  <2>2. /\ stack[2].fn = "set_input" /\ stack[2].node = n
        /\ stack[2].slot < inputlen[n] /\ q[i].slot < inputlen[n]
        /\ q[i].fn = "remove_cleared" => stack[2].slot = q[i].slot
    BY <2>1 DEF OpenAt, L
  <2>3. Len(q) > 1 => q[2] = stack[2]
    BY <1>2
  <2>4. ASSUME q[i].fn = "remove_cleared", NEW t \in Slot, q[i].slot < t, t < inputlen[n]
        PROVE  inputs'[n][t] # Null
    <3>1. inputs[n][t] # Null
      BY <2>1, <2>4 DEF OpenAt, Removing
    <3>2. <<n, t>> # <<f.node, f.slot>>
      <4> SUFFICES ASSUME n = f.node, t = f.slot PROVE FALSE
        OBVIOUS
      <4>1. q[i].slot \in Slot
        BY <1>12, <2>1, <2>4 DEF CallShape, ShapeAt
      <4>2. t # q[i].slot
        BY <2>4, <4>1 DEF Slot
      <4>3. L > 2
        <5>1. L # 2
          BY <1>2, <2>2, <2>4, <4>2
        <5>2. QED
          BY <1>2, <2>1, <5>1
      <4>4. 2 \in 1 .. L /\ L - 1 \in 1 .. L
        BY <1>2, <4>3
      <4>5. inputs[n][q[i].slot] # Null
        BY <1>4, <2>2, <2>4, <4>4 DEF StackInv, PendingFull, L
      <4>6. stack[L - 1].fn = "kill" /\ stack[L - 1].node = n /\ q[i].slot < stack[L - 1].slot
        BY <1>15, <2>4, <4>1, <4>3 DEF Slot
      <4>7. inputs[n][q[i].slot] = Null \/ ClearingAbove(stack, L - 1, q[i].slot)
        BY <1>4, <4>1, <4>4, <4>6 DEF StackInv, KillCleared, L
      <4>8. ClearingAbove(stack, L - 1, q[i].slot) => f.slot = q[i].slot
        BY <1>2 DEF ClearingAbove, L
      <4>9. QED
        BY <4>2, <4>5, <4>7, <4>8
    <3>3. QED
      BY <1>6, <2>1, <3>1, <3>2
  <2>5. QED
    BY <1>3, <2>1, <2>2, <2>3, <2>4 DEF OpenAt
<1>18. StackInv'
  <2>1. HoldsKeep(q, keeps')
    BY <1>3, <1>13
  <2>2. QED
    BY <1>1, <1>12, <1>13, <1>14, <1>16, <1>17, <2>1, NextStack
<1>19. QED
  BY <1>8, <1>11, <1>18 DEF IInv

(* A call of sea_node_kill that is not made by sea_node_set_input: the     *)
(* caller waits to unkeep a node it has kept.                              *)
LEMMA KillCallInv ==
  ASSUME IInv, fault = "none",
         \A u \in Node, t \in Slot : ~ Pending(stack, u, t),
         NEW n \in Node, NEW m \in Node, NEW k \in Seq(Frame),
         k = <<>>, Kill(n, Append(k, Call("unkeep", n, 0, m))),
         keeps' \in [Node -> Nat], keeps'[m] > 0,
         UNCHANGED <<kind, inputs, inputlen, users>>
  PROVE  IInv'
<1> USE GraphAssumption
<1> DEFINE f == Call("unkeep", n, 0, m)
           g == Call("kill", n, 0, Null)
<1>1. /\ f \in Frame /\ f.fn = "unkeep" /\ f.slot = 0 /\ f.input = m
      /\ g \in Frame /\ g.fn = "kill" /\ g.slot = 0
  BY DEF Call, Frame, Functions
<1>2. stack' = Append(Append(k, f), g)
  BY DEF Kill
<1> HIDE DEF f, g
<1>3. PICK q \in Seq(Frame) :
        /\ stack' = q
        /\ \A i \in 1 .. Len(q) : \/ i = 1 /\ q[i] = f
                                  \/ i = 2 /\ q[i] = g
  <2>1. stack' = <<f, g>>
    BY <1>1, <1>2, FirstFrames
  <2>2. <<f, g>> \in Seq(Frame) /\ Len(<<f, g>>) = 2 /\ <<f, g>>[1] = f /\ <<f, g>>[2] = g
    BY <1>1, FirstFrames
  <2>3. \A i \in 1 .. 2 : i = 1 \/ i = 2
    OBVIOUS
  <2>4. QED
    BY <2>1, <2>2, <2>3
<1>4. TypeOK'
  <2>1. TypeOK
    BY DEF IInv
  <2>2. count' \in Int /\ fault' \in {"none", "user_missing", "start_killed"}
    BY <2>1 DEF TypeOK, Kill
  <2>3. QED
    BY <1>3, <2>1, <2>2 DEF TypeOK
<1>5. DefUse'
  <2>1. \A i \in 1 .. Len(q) : q[i].fn # "set_input"
    BY <1>1, <1>3
  <2>2. \A u \in Node, t \in Slot : ~ Pending(stack, u, t)'
    BY <1>3, <2>1 DEF Pending
  <2>3. DefUse /\ UNCHANGED <<users, inputs>>
    BY DEF IInv
  <2>4. QED
    BY <2>2, <2>3, DefUseKept
<1>6. /\ CallShape(q) /\ HoldsKeep(q, keeps') /\ RemoveOpen(q, inputlen)'
      /\ PendingFull(q)' /\ PendingOnce(q) /\ KillCleared(q)'
  <2>1. CallShape(q)
    BY <1>1, <1>3 DEF CallShape, ShapeAt, Slot
  <2>2. HoldsKeep(q, keeps')
    BY <1>1, <1>3 DEF HoldsKeep, Holding
  <2>3. RemoveOpen(q, inputlen)'
    BY <1>1, <1>3 DEF RemoveOpen, OpenAt, Removing
  <2>4. PendingFull(q)' /\ PendingOnce(q)
    BY <1>1, <1>3 DEF PendingFull, PendingOnce
  <2>5. KillCleared(q)'
    BY <1>1, <1>3 DEF KillCleared, Slot
  <2>6. QED
    BY <2>1, <2>2, <2>3, <2>4, <2>5
<1>7. StackInv'
  BY <1>3, <1>6, NextStack
<1>8. QED
  BY <1>4, <1>5, <1>7 DEF IInv

LEMMA SubsumeKillInv ==
  ASSUME IInv, fault = "none", SubsumeKill PROVE IInv'
<1> USE GraphAssumption
<1> DEFINE f == Last(stack)
<1>1. stack # <<>> /\ f.fn = "subsume"
  BY DEF SubsumeKill, In
<1>2. Len(stack) = 1 /\ stack[1] = f
  BY <1>1, TopOutermost
<1>3. f.input \in Node /\ keeps[f.input] > 0 /\ f.node \in Node
  BY <1>1, <1>2, Top DEF StackInv, HoldsKeep, Holding
<1>4. Front(stack) \in Seq(Frame) /\ Front(stack) = <<>>
  BY <1>1, <1>2, Top, EmptySeq
<1>5. keeps' \in [Node -> Nat] /\ keeps'[f.input] > 0
  BY <1>1, <1>3, Top DEF SubsumeKill, TypeOK
<1>6. \A u \in Node, t \in Slot : ~ Pending(stack, u, t)
  BY <1>1, TopOutermost
<1>7. /\ Kill(f.node, Append(Front(stack), Call("unkeep", f.node, 0, f.input)))
      /\ UNCHANGED <<kind, inputs, inputlen, users>>
  BY DEF SubsumeKill
<1>8. QED
  BY <1>3, <1>4, <1>5, <1>6, <1>7, KillCallInv

(* Between two calls of the client.                                        *)
LEMMA IdleState ==
  ASSUME IInv, Idle
  PROVE  /\ fault = "none" /\ stack = <<>> /\ Len(stack) = 0
         /\ TypeOK /\ DefUse
         /\ \A u \in Node, t \in Slot : ~ Pending(stack, u, t)
BY DEF Idle, IInv, Pending

(* The calls of the client that do not call sea_node_set_input.            *)
LEMMA ClientInv ==
  ASSUME IInv, NEW n \in Node, NEW m \in Node,
         \/ \E k \in Kinds, len \in Lens : Alloc(n, k, len)
         \/ Subsume(n, m) \/ DeadCodeElim(n, m) \/ KeepNode(n) \/ UnkeepNode(n)
  PROVE  IInv'
<1> USE GraphAssumption
<1>1. Idle
  BY DEF Alloc, Subsume, DeadCodeElim, KeepNode, UnkeepNode
<1>2. /\ fault = "none" /\ stack = <<>> /\ Len(stack) = 0 /\ TypeOK /\ DefUse
      /\ \A u \in Node, t \in Slot : ~ Pending(stack, u, t)
  BY <1>1, IdleState
<1>3. ASSUME \/ \E k \in Kinds, len \in Lens : Alloc(n, k, len)
             \/ KeepNode(n) \/ UnkeepNode(n)
      PROVE  IInv'
  <2>1. TypeOK'
    <3>1. CASE \E k \in Kinds, len \in Lens : Alloc(n, k, len)
      BY <1>2, <3>1 DEF TypeOK, Alloc
    <3>2. CASE KeepNode(n)
      BY <1>2, <3>2 DEF TypeOK, KeepNode
    <3>3. CASE UnkeepNode(n)
      BY <1>2, <3>3 DEF TypeOK, UnkeepNode
    <3>4. QED
      BY <1>3, <3>1, <3>2, <3>3
  <2>2. UNCHANGED <<users, inputs, stack, fault>>
    BY <1>3 DEF Alloc, KeepNode, UnkeepNode
  <2>3. DefUse'
    <3>1. \A u \in Node, t \in Slot : Pending(stack, u, t)' <=> Pending(stack, u, t)
      BY <2>2 DEF Pending
    <3>2. QED
      BY <1>2, <2>2, <3>1, DefUseKept
  <2>4. QED
    BY <1>2, <2>1, <2>2, <2>3, IdleInv
<1>4. CASE Subsume(n, m)
  <2> DEFINE f == Call("subsume", n, 0, m)
  <2>1. f \in Frame /\ f.fn = "subsume" /\ f.slot = 0 /\ f.input = m
    BY DEF Call, Frame, Functions
  <2>2. stack' = <<f>> /\ keeps' = [keeps EXCEPT ![m] = @ + 1]
    BY <1>4 DEF Subsume
  <2>3. UNCHANGED <<kind, inputs, inputlen, users, count, fault>>
    BY <1>4 DEF Subsume
  <2> HIDE DEF f
  <2>4. PICK q \in Seq(Frame) : stack' = q /\ \A i \in 1 .. Len(q) : i = 1 /\ q[i] = f
    <3>1. <<f>> \in Seq(Frame) /\ Len(<<f>>) = 1 /\ <<f>>[1] = f
      BY <2>1, FirstFrames
    <3>2. \A i \in 1 .. 1 : i = 1
      OBVIOUS
    <3>3. QED
      BY <2>2, <3>1, <3>2
  <2>5. keeps' \in [Node -> Nat] /\ keeps'[m] > 0
    BY <1>2, <2>2 DEF TypeOK
  <2>6. TypeOK'
    BY <1>2, <2>3, <2>4, <2>5 DEF TypeOK
  <2>7. DefUse'
    <3>1. \A u \in Node, t \in Slot : ~ Pending(stack, u, t)'
      BY <2>1, <2>4 DEF Pending
    <3>2. QED
      BY <1>2, <2>3, <3>1, DefUseKept
  <2>8. /\ CallShape(q) /\ HoldsKeep(q, keeps') /\ RemoveOpen(q, inputlen)'
        /\ PendingFull(q)' /\ PendingOnce(q) /\ KillCleared(q)'
    BY <2>1, <2>4, <2>5 DEF CallShape, ShapeAt, HoldsKeep, RemoveOpen, OpenAt,
       Removing, PendingFull, PendingOnce, KillCleared, Slot
  <2>9. StackInv'
    BY <2>4, <2>8, NextStack
  <2>10. QED
    BY <2>6, <2>7, <2>9 DEF IInv
<1>5. CASE DeadCodeElim(n, m)
  <2> DEFINE k0 == <<>>
  <2>1. k0 \in Seq(Frame) /\ Append(k0, Call("unkeep", n, 0, m)) = <<Call("unkeep", n, 0, m)>>
    OBVIOUS
  <2>2. /\ keeps' = [keeps EXCEPT ![m] = @ + 1]
        /\ Kill(n, <<Call("unkeep", n, 0, m)>>)
        /\ UNCHANGED <<kind, inputs, inputlen, users>>
    BY <1>5 DEF DeadCodeElim
  <2>3. keeps' \in [Node -> Nat] /\ keeps'[m] > 0
    BY <1>2, <2>2 DEF TypeOK
  <2>4. Kill(n, Append(k0, Call("unkeep", n, 0, m)))
    BY <2>1, <2>2
  <2>5. QED
    BY <1>2, <2>1, <2>2, <2>3, <2>4, KillCallInv
<1>6. QED
  BY <1>3, <1>4, <1>5

(* The calls of the client that do.                                        *)
LEMMA StoreInv ==
  ASSUME IInv, Idle, NEW n \in Node, NEW in \in Node \cup {Null}, NEW s \in Slot,
         keeps' = keeps, kind' = kind, inputlen' \in [Node -> 0 .. MaxIn],
         SetInput(n, in, s, <<>>)
  PROVE  IInv'
<1> DEFINE k == <<>>
<1>1. fault = "none" /\ stack = <<>> /\ TypeOK
  BY IdleState
<1>2. keeps' \in [Node -> Nat]
  BY <1>1 DEF TypeOK
<1>3. Ready(n, in, s, k)
  BY <1>1, ReadyNone
<1>4. SetInput(n, in, s, k)
  OBVIOUS
<1> HIDE DEF k
<1>5. QED
  BY <1>1, <1>2, <1>3, <1>4, SetInputInv

LEMMA StoreClientInv ==
  ASSUME IInv, NEW n \in Node, NEW m \in Node, NEW s \in Slot,
         \/ Link(n, m, s) \/ Clear(n, s) \/ Store(n, m, s) \/ AppendInput(n, m)
  PROVE  IInv'
<1> USE GraphAssumption
<1>1. Idle
  BY DEF Link, Clear, Store, AppendInput
<1>2. TypeOK
  BY <1>1, IdleState
<1>3. inputlen \in [Node -> 0 .. MaxIn]
  BY <1>2 DEF TypeOK
<1>4. CASE Link(n, m, s)
  <2>1. keeps' = keeps /\ kind' = kind /\ inputlen' = inputlen /\ SetInput(n, m, s, <<>>)
    BY <1>4 DEF Link
  <2>2. QED
    BY <1>1, <1>3, <2>1, StoreInv
<1>5. CASE Store(n, m, s)
  <2>1. keeps' = keeps /\ kind' = kind /\ inputlen' = inputlen /\ SetInput(n, m, s, <<>>)
    BY <1>5 DEF Store
  <2>2. QED
    BY <1>1, <1>3, <2>1, StoreInv
<1>6. CASE Clear(n, s)
  <2>1. keeps' = keeps /\ kind' = kind /\ inputlen' = inputlen /\ SetInput(n, Null, s, <<>>)
    BY <1>6 DEF Clear
  <2>2. QED
    BY <1>1, <1>3, <2>1, StoreInv
<1>7. CASE AppendInput(n, m)
  <2> DEFINE t == inputlen[n]
  <2>1. t \in Slot /\ t + 1 \in 0 .. MaxIn
    BY <1>3, <1>7 DEF AppendInput, Slot
  <2>2. keeps' = keeps /\ kind' = kind /\ inputlen' = [inputlen EXCEPT ![n] = t + 1]
        /\ SetInput(n, m, t, <<>>)
    BY <1>7 DEF AppendInput
  <2> HIDE DEF t
  <2>3. inputlen' \in [Node -> 0 .. MaxIn]
    BY <1>3, <2>1, <2>2
  <2>4. QED
    BY <1>1, <2>1, <2>2, <2>3, StoreInv
<1>8. QED
  BY <1>4, <1>5, <1>6, <1>7

LEMMA KeepingClientInv ==
  ASSUME IInv, NEW n \in Node, NEW m \in Node, NEW s \in Slot,
         SetCtrl(n, m) \/ RemoveInput(n, s)
  PROVE  IInv'
<1> USE GraphAssumption
<1>1. Idle
  BY DEF SetCtrl, RemoveInput
<1>2. /\ TypeOK /\ fault = "none"
      /\ \A u \in Node, t \in Slot : ~ Pending(stack, u, t)
  BY <1>1, IdleState
<1>3. keeps \in [Node -> Nat] /\ inputlen \in [Node -> 0 .. MaxIn]
  BY <1>2 DEF TypeOK
<1>4. CASE SetCtrl(n, m)
  <2> DEFINE c == Call("unkeep", n, 0, m)
             k == <<c>>
  <2>1. c \in Frame /\ c.fn = "unkeep" /\ c.slot = 0 /\ c.input = m /\ 0 \in Slot
    BY DEF Call, Frame, Functions, Slot
  <2>2. /\ keeps' = [keeps EXCEPT ![m] = @ + 1] /\ kind' = kind /\ inputlen' = inputlen
        /\ SetInput(n, m, 0, k)
    BY <1>4 DEF SetCtrl
  <2> HIDE DEF c
  <2>3. k \in Seq(Frame) /\ Len(k) = 1 /\ k[1] = c
    BY <2>1
  <2>4. keeps' \in [Node -> Nat] /\ keeps'[m] > 0
    BY <1>3, <2>2
  <2> HIDE DEF k
  <2>5. Ready(n, m, 0, k)
    BY <1>2, <2>1, <2>3, <2>4, ReadyOne DEF Removing
  <2>6. QED
    BY <1>2, <1>3, <2>1, <2>2, <2>4, <2>5, SetInputInv
<1>5. CASE RemoveInput(n, s)
  <2> DEFINE c == Call("remove_cleared", n, s, Null)
             k == <<c>>
  <2>1. c \in Frame /\ c.fn = "remove_cleared" /\ c.slot = s /\ c.node = n
    BY DEF Call, Frame, Functions, Slot
  <2>2. /\ keeps' = keeps /\ kind' = kind /\ inputlen' = inputlen
        /\ s < inputlen[n]
        /\ \A t \in 0 .. inputlen[n] - 1 : inputs[n][t] # Null
        /\ SetInput(n, Null, s, k)
    BY <1>5 DEF RemoveInput
  <2> HIDE DEF c
  <2>3. k \in Seq(Frame) /\ Len(k) = 1 /\ k[1] = c
    BY <2>1
  <2> HIDE DEF k
  <2>4. \A t \in Slot : s < t /\ t < inputlen'[n] => inputs[n][t] # Null
    BY <1>3, <2>2 DEF Slot
  <2>5. Ready(n, Null, s, k)
    BY <1>2, <2>1, <2>2, <2>3, <2>4, ReadyOne DEF Holding
  <2>6. QED
    BY <1>2, <1>3, <2>2, <2>5, SetInputInv
<1>6. QED
  BY <1>4, <1>5

LEMMA StepInv == IInv /\ [Next]_vars => IInv'
<1> SUFFICES ASSUME IInv, [Next]_vars PROVE IInv'
  OBVIOUS
<1>1. CASE Return
  <2>1. fault = "none"
    BY <1>1 DEF Return, SetInputReturn, KillInput, KillReturn, Unkeep, SubsumeUser,
                SubsumeKill, RemoveMove, RemoveFill, RemoveReturn, In
  <2>2. QED
    BY <1>1, <2>1, SetInputReturnInv, KillInputInv, KillReturnInv, UnkeepInv,
       SubsumeUserInv, SubsumeKillInv, RemoveMoveInv, RemoveFillInv,
       RemoveReturnInv DEF Return
<1>2. CASE GuardedCall
  <2>1. PICK n \in Node :
          \/ \E k \in Kinds \ {"Start"}, len \in Lens : Alloc(n, k, len)
          \/ \E s \in Slot : Clear(n, s) \/ RemoveInput(n, s)
          \/ \E m \in Node : \/ AppendInput(n, m) \/ SetCtrl(n, m)
                             \/ Subsume(n, m) \/ DeadCodeElim(n, m)
                             \/ \E s \in Slot : Link(n, m, s)
          \/ KeepNode(n) \/ UnkeepNode(n)
    BY <1>2 DEF GuardedCall
  <2>2. 0 \in Slot
    BY GraphAssumption DEF Slot
  <2>3. CASE \E k \in Kinds \ {"Start"}, len \in Lens : Alloc(n, k, len)
    BY <2>3, ClientInv
  <2>4. CASE \E s \in Slot : Clear(n, s) \/ RemoveInput(n, s)
    BY <2>4, StoreClientInv, KeepingClientInv
  <2>5. CASE \E m \in Node : AppendInput(n, m) \/ SetCtrl(n, m)
                             \/ \E s \in Slot : Link(n, m, s)
    BY <2>2, <2>5, StoreClientInv, KeepingClientInv
  <2>6. ASSUME (\E m \in Node : Subsume(n, m) \/ DeadCodeElim(n, m))
                 \/ KeepNode(n) \/ UnkeepNode(n)
        PROVE  IInv'
    BY <2>6, ClientInv
  <2>7. QED
    BY <2>1, <2>3, <2>4, <2>5, <2>6
<1>3. CASE \E n, m \in Node, s \in Slot : Store(n, m, s)
  BY <1>3, StoreClientInv
<1>4. CASE UNCHANGED vars
  BY <1>4 DEF IInv, TypeOK, DefUse, StackInv, CallShape, ShapeAt, HoldsKeep, RemoveOpen,
     OpenAt, PendingFull, PendingOnce, KillCleared, ClearingAbove, Pending, vars
<1>5. QED
  BY <1>1, <1>2, <1>3, <1>4 DEF Next, GuardedNext

(* What a node lists as its users is exactly what the input arrays hold,   *)
(* in every state the functions of sea_node.c can reach from a new         *)
(* function, however they are called.                                      *)
THEOREM Invariance == Spec => []IInv
<1>1. Init => IInv
  BY InitInv
<1>2. IInv /\ [Next]_vars => IInv'
  BY StepInv
<1>3. QED
  BY <1>1, <1>2, PTL DEF Spec

THEOREM TypeCorrect == Spec => []TypeOK
<1>1. IInv => TypeOK
  BY DEF IInv
<1>2. QED
  BY <1>1, Invariance, PTL

THEOREM DefUseHolds == Spec => []DefUse
<1>1. IInv => DefUse
  BY DEF IInv
<1>2. QED
  BY <1>1, Invariance, PTL

-----------------------------------------------------------------------------
(***************************************************************************)
(* The Trap of sea_node_remove_user needs a cycle, and the calls that hold  *)
(* on to the node they store free nothing that is used or kept.            *)
(***************************************************************************)
LEMMA OneOrMore ==
  ASSUME NEW l \in Nat, NEW i \in 1 .. l
  PROVE  l = 1 \/ l > 1
OBVIOUS

LEMMA Below ==
  ASSUME NEW l \in Nat \ {0}, NEW i \in 1 .. l - 1
  PROVE  i \in 1 .. l /\ l > 1 /\ l # 1 /\ (l - 1 = 1 => l = 2)
OBVIOUS

(* What sea_node_set_input(n, in, s) has done when it traps, returns or     *)
(* calls sea_node_kill.                                                    *)
Trapped(n, s) ==
  /\ inputs[n][s] # Null /\ <<n, s>> \notin users[inputs[n][s]]
  /\ UNCHANGED <<inputs, users, stack>> /\ fault' = "user_missing"
Stored(n, in, s, k) ==
  /\ inputs[n][s] \in {in, Null} \/ <<n, s>> \in users[inputs[n][s]]
  /\ stack' = k /\ fault' = fault
  /\ inputs'[n][s] = in
  /\ \A u \in Node, t \in Slot : <<u, t>> # <<n, s>> => inputs'[u][t] = inputs[u][t]
  /\ \A m \in Node : users'[m] \subseteq users[m] \cup (IF m = in THEN {<<n, s>>} ELSE {})
Killing(n, in, s, k) ==
  LET old == inputs[n][s] IN
  /\ old \in Node /\ old # in
  /\ <<n, s>> \in users[old] /\ keeps'[old] = 0 /\ users' = [users EXCEPT ![old] = {}]
  /\ UNCHANGED inputs /\ fault' # "user_missing"
  /\ stack' = Append(Append(k, Call("set_input", n, s, in)), Call("kill", old, 0, Null))

LEMMA SetResult ==
  ASSUME TypeOK, fault = "none", NEW n \in Node, NEW in \in Node \cup {Null}, NEW s \in Slot,
         NEW k, SetInput(n, in, s, k)
  PROVE  Trapped(n, s) \/ Stored(n, in, s, k) \/ Killing(n, in, s, k)
<1> DEFINE old == inputs[n][s]
<1>1. /\ inputs \in [Node -> [Slot -> Node \cup {Null}]] /\ users \in [Node -> SUBSET User]
      /\ old \in Node \cup {Null}
  BY DEF TypeOK
<1>2. CASE in = old /\ stack' = k /\ UNCHANGED <<inputs, users, count, fault>>
  BY <1>2 DEF Stored
<1>3. CASE /\ in # old /\ old = Null
           /\ users' = [users EXCEPT ![in] = @ \cup {<<n, s>>}]
           /\ inputs' = [inputs EXCEPT ![n][s] = in]
           /\ stack' = k /\ UNCHANGED <<count, fault>>
  BY <1>1, <1>3 DEF Stored
<1>4. CASE /\ in # old /\ old # Null /\ <<n, s>> \notin users[old]
           /\ fault' = "user_missing" /\ UNCHANGED <<inputs, users, count, stack>>
  BY <1>4 DEF Trapped
<1>5. CASE /\ in # old /\ old # Null /\ <<n, s>> \in users[old]
           /\ users' = [m \in Node |-> IF m = in THEN users[m] \cup {<<n, s>>}
                                             ELSE users[m] \ {<<n, s>>}]
           /\ inputs' = [inputs EXCEPT ![n][s] = in]
           /\ stack' = k /\ UNCHANGED <<count, fault>>
  BY <1>1, <1>5 DEF Stored
<1>6. CASE /\ in # old /\ old # Null /\ users[old] = {<<n, s>>} /\ keeps'[old] = 0
           /\ users' = [users EXCEPT ![old] = {}]
           /\ Kill(old, Append(k, Call("set_input", n, s, in)))
           /\ UNCHANGED inputs
  BY <1>1, <1>6 DEF Killing, Kill
<1> QED BY <1>2, <1>3, <1>4, <1>5, <1>6 DEF SetInput
-----------------------------------------------------------------------------
(* A sea_node_kill below the top is dropping an input, and the node that    *)
(* sea_node_set_input waits for is the one its slot still holds.           *)
ChainAt(q, i) ==
  /\ q[i].fn = "set_input" =>
       q[i + 1].fn = "kill" /\ q[i + 1].node = inputs[q[i].node][q[i].slot]
  /\ q[i].fn = "kill" => q[i + 1].fn = "set_input"
Chain(q) == \A i \in 1 .. Len(q) - 1 : ChainAt(q, i)
TrapInv == (fault = "none" => Chain(stack)) /\ TrapNeedsCycle

(* The nodes being killed from the one that waits for slot s of n up to n   *)
(* itself use one another.                                                 *)
LEMMA TrapCycle ==
  ASSUME IInv, fault = "none", stack # <<>>, Chain(stack), Last(stack).fn = "kill",
         NEW s \in Slot, Pending(stack, Last(stack).node, s)
  PROVE  Cyclic
<1> DEFINE L == Len(stack)
           n == Last(stack).node
<1>1. PICK i \in 1 .. L : stack[i].fn = "set_input" /\ stack[i].node = n /\ stack[i].slot = s
  BY DEF Pending
<1>2. /\ L \in Nat \ {0} /\ Last(stack) = stack[L] /\ StackInv
      /\ \A j \in 1 .. L : stack[j].node \in Node
  BY Top
<1>3. i < L BY <1>1, <1>2
<1> DEFINE C == {stack[j].node : j \in {j \in i .. L : stack[j].fn = "kill"}}
<1>4. ASSUME NEW j \in 1 .. L, j < L, stack[j].fn = "set_input", j >= i
      PROVE  inputs[stack[j].node][stack[j].slot] \in C /\ stack[j].slot \in Slot
  <2>1. j \in 1 .. L - 1 /\ j + 1 \in i .. L BY <1>2, <1>4
  <2>2. ChainAt(stack, j) BY <2>1 DEF Chain
  <2>3. ShapeAt(stack, j) BY <1>2 DEF StackInv, CallShape
  <2> QED BY <1>4, <2>1, <2>2, <2>3 DEF ChainAt, ShapeAt
<1>5. ASSUME NEW m \in C
      PROVE  \E t \in Slot : inputs[m][t] \in C
  <2>1. PICK j \in i .. L : stack[j].fn = "kill" /\ stack[j].node = m OBVIOUS
  <2>2. CASE j = L
    <3>1. m = n BY <1>2, <2>1, <2>2
    <3> QED BY <1>1, <1>3, <1>4, <3>1
  <2>3. CASE j # L
    <3>1. j \in 1 .. L - 1 /\ j + 1 \in 1 .. L /\ j + 1 >= i BY <1>2, <2>3
    <3>2. stack[j + 1].fn = "set_input" BY <2>1, <3>1 DEF Chain, ChainAt
    <3>3. j + 1 < L BY <1>2, <3>1, <3>2
    <3>4. stack[j + 1].node = m
      <4>1. j > 1 BY <1>2, <2>1, <3>1 DEF StackInv, CallShape, ShapeAt
      <4>2. ShapeAt(stack, j + 1) BY <1>2, <3>1 DEF StackInv, CallShape
      <4> QED BY <2>1, <3>1, <3>2, <4>1, <4>2 DEF ShapeAt
    <3> QED BY <1>4, <3>1, <3>2, <3>3, <3>4
  <2> QED BY <2>2, <2>3
<1>6. C \in (SUBSET Node) \ {{}}
  <2>1. L \in i .. L /\ stack[L].fn = "kill" /\ stack[L].node = n BY <1>2, <1>3
  <2>2. n \in C BY <2>1
  <2>3. C \subseteq Node BY <1>2
  <2> QED BY <2>2, <2>3
<1> QED BY <1>5, <1>6 DEF Cyclic

(* sea_node_set_input keeps the chain of calls when its caller is in it.    *)
LEMMA SetChain ==
  ASSUME IInv, fault = "none", NEW n \in Node, NEW in \in Node \cup {Null}, NEW s \in Slot,
         NEW k \in Seq(Frame), SetInput(n, in, s, k), Chain(k),
         Len(k) > 0 => k[Len(k)].fn # "set_input",
         Len(k) > 0 /\ k[Len(k)].fn = "kill" => k[Len(k)].node = n,
         \A u \in Node, t \in Slot : Pending(k, u, t) <=> Pending(stack, u, t),
         \A i \in 1 .. Len(k) : k[i].fn = "set_input" => k[i].slot \in Slot,
         Pending(stack, n, s) => Cyclic
  PROVE  TrapInv'
<1> DEFINE old == inputs[n][s]
<1>1. /\ TypeOK /\ DefUse /\ StackInv
      /\ inputs \in [Node -> [Slot -> Node \cup {Null}]] /\ old \in Node \cup {Null}
      /\ Len(k) \in Nat
  BY DEF IInv, TypeOK
<1>2. \A i \in 1 .. Len(k) : k[i].node \in Node BY FrameFields
<1>3. CASE Trapped(n, s)
  <2>1. Pending(stack, n, s) BY <1>1, <1>3 DEF Trapped, DefUse
  <2> QED BY <1>3, <2>1 DEF Trapped, TrapInv, TrapNeedsCycle, Cyclic
<1>4. CASE Stored(n, in, s, k)
  <2>1. ASSUME NEW i \in 1 .. Len(k), k[i].fn = "set_input"
        PROVE  inputs'[k[i].node][k[i].slot] = inputs[k[i].node][k[i].slot]
    <3>0. Pending(k, k[i].node, k[i].slot) BY <2>1 DEF Pending
    <3>1. Pending(stack, k[i].node, k[i].slot) BY <1>2, <2>1, <3>0
    <3>2. inputs[k[i].node][k[i].slot] # Null
      BY <1>1, <3>1 DEF StackInv, PendingFull, Pending
    <3>3. CASE <<k[i].node, k[i].slot>> = <<n, s>>
      <4>1. old = in BY <1>1, <1>4, <3>1, <3>2, <3>3 DEF Stored, DefUse
      <4> QED BY <1>4, <3>3, <4>1 DEF Stored
    <3> QED BY <1>2, <1>4, <2>1, <3>3 DEF Stored
  <2>2. Chain(k)' BY <1>1, <2>1 DEF Chain, ChainAt
  <2>3. Chain(stack)' BY <1>4, <2>2 DEF Stored, Chain, ChainAt
  <2> QED BY <1>4, <2>3 DEF Stored, TrapInv, TrapNeedsCycle
<1>5. CASE Killing(n, in, s, k)
  <2> DEFINE f == Call("set_input", n, s, in)
             g == Call("kill", old, 0, Null)
  <2>1. /\ f \in Frame /\ f.fn = "set_input" /\ f.node = n /\ f.slot = s
        /\ g \in Frame /\ g.fn = "kill" /\ g.node = old
    BY <1>1, <1>5, GraphAssumption DEF Killing, Call, Frame, Functions, Slot
  <2>3. stack' = Append(Append(k, f), g) BY <1>5 DEF Killing
  <2> HIDE DEF f, g
  <2>2. PICK q : /\ stack' = q
                 /\ Len(q) = Len(k) + 2 /\ q[Len(k) + 1] = f /\ q[Len(k) + 2] = g
                 /\ \A i \in 1 .. Len(k) : q[i] = k[i]
    <3> DEFINE p == Append(k, f)
               r == Append(p, g)
    <3>1. /\ p \in Seq(Frame) /\ Len(p) = Len(k) + 1 /\ p[Len(k) + 1] = f
          /\ \A i \in 1 .. Len(k) : p[i] = k[i]
      BY <2>1, PushFrame
    <3> HIDE DEF p
    <3>2. /\ Len(r) = Len(p) + 1 /\ r[Len(p) + 1] = g
          /\ \A i \in 1 .. Len(p) : r[i] = p[i]
      BY <2>1, <3>1, PushFrame
    <3> HIDE DEF r
    <3>3. Len(k) + 1 \in 1 .. Len(p) /\ \A i \in 1 .. Len(k) : i \in 1 .. Len(p)
      BY <1>1, <3>1
    <3>4. stack' = r BY <2>3 DEF p, r
    <3> QED BY <1>1, <3>1, <3>2, <3>3, <3>4
  <2>4. ASSUME NEW i \in 1 .. Len(q) - 1 PROVE ChainAt(q, i)
    <3>1. CASE i < Len(k)
      <4>1. i \in 1 .. Len(k) - 1 /\ q[i] = k[i] /\ q[i + 1] = k[i + 1]
        BY <1>1, <2>2, <2>4, <3>1
      <4> QED BY <4>1 DEF Chain, ChainAt
    <3>2. CASE i = Len(k)
      <4>1. q[i] = k[i] /\ q[i + 1] = f BY <1>1, <2>2, <2>4, <3>2
      <4> QED BY <1>1, <2>1, <3>2, <4>1 DEF ChainAt
    <3>3. CASE i = Len(k) + 1
      <4>1. q[i] = f /\ q[i + 1] = g BY <1>1, <2>2, <2>4, <3>3
      <4> QED BY <2>1, <4>1 DEF ChainAt
    <3> QED BY <1>1, <2>2, <2>4, <3>1, <3>2, <3>3
  <2>5. inputs' = inputs BY <1>5 DEF Killing
  <2>6. Chain(stack)' BY <2>2, <2>4, <2>5 DEF Chain, ChainAt
  <2> QED BY <1>5, <2>6 DEF Killing, TrapInv, TrapNeedsCycle
<1> QED BY <1>1, <1>3, <1>4, <1>5, SetResult

(* ... a function that the client called, or the client, is.               *)
LEMMA SetChainOne ==
  ASSUME IInv, fault = "none", NEW n \in Node, NEW in \in Node \cup {Null}, NEW s \in Slot,
         NEW k \in Seq(Frame), SetInput(n, in, s, k), Len(k) \in {0, 1},
         Len(k) = 1 => k[1].fn \notin {"set_input", "kill"},
         \A u \in Node, t \in Slot : ~ Pending(stack, u, t)
  PROVE  TrapInv'
<1>1. CASE Len(k) = 0
  <2>1. 1 .. Len(k) = {} /\ 1 .. Len(k) - 1 = {} BY <1>1
  <2>2. Chain(k) BY <2>1 DEF Chain
  <2>3. \A u \in Node, t \in Slot : ~ Pending(k, u, t) BY <2>1 DEF Pending
  <2>4. ~ Len(k) > 0 /\ \A i \in 1 .. Len(k) : k[i].fn # "set_input" BY <1>1, <2>1
  <2> QED BY <2>2, <2>3, <2>4, SetChain
<1>2. CASE Len(k) = 1
  <2>1. 1 .. Len(k) = {1} /\ 1 .. Len(k) - 1 = {} BY <1>2
  <2>2. Chain(k) BY <2>1 DEF Chain
  <2>3. \A u \in Node, t \in Slot : ~ Pending(k, u, t) BY <1>2, <2>1 DEF Pending
  <2>4. /\ k[Len(k)].fn \notin {"set_input", "kill"}
        /\ \A i \in 1 .. Len(k) : k[i].fn # "set_input"
    BY <1>2, <2>1
  <2> QED BY <2>2, <2>3, <2>4, SetChain
<1> QED BY <1>1, <1>2

(* No chain is left when at most the client's function is.                 *)
LEMMA ShortChain ==
  ASSUME fault' # "user_missing", Len(stack') \in {0, 1}
  PROVE  TrapInv'
<1>1. 1 .. Len(stack') - 1 = {}
  <2>1. CASE Len(stack') = 0 BY <2>1
  <2>2. CASE Len(stack') = 1 BY <2>2
  <2> QED BY <2>1, <2>2
<1> QED BY <1>1 DEF TrapInv, TrapNeedsCycle, Chain

LEMMA KillInputChain ==
  ASSUME IInv, TrapInv, fault = "none", KillInput PROVE TrapInv'
<1> DEFINE f == Last(stack)
           L == Len(stack)
           c == Call("kill", f.node, f.slot + 1, Null)
           k == Append(Front(stack), c)
<1>1. stack # <<>> /\ f.fn = "kill" /\ f.slot < inputlen[f.node]
  BY DEF KillInput, In
<1>2. /\ L \in Nat \ {0} /\ f = stack[L] /\ f.node \in Node
      /\ f.slot \in 0 .. MaxIn /\ inputlen[f.node] \in 0 .. MaxIn
  BY <1>1, Top DEF TypeOK
<1>3. f.slot \in Slot /\ f.slot + 1 \in 0 .. MaxIn
  BY <1>1, <1>2, GraphAssumption DEF Slot
<1>4. c \in Frame /\ c.fn = "kill" /\ c.node = f.node
  BY <1>2, <1>3 DEF Call, Frame, Functions
<1>5. SetInput(f.node, Null, f.slot, k) BY DEF KillInput
<1> HIDE DEF c
<1>6. /\ k \in Seq(Frame) /\ Len(k) = L /\ k[L] = c
      /\ \A i \in 1 .. L : i # L => k[i] = stack[i]
  <2>1. /\ Front(stack) \in Seq(Frame) /\ Len(Front(stack)) = L - 1
        /\ \A i \in 1 .. L - 1 : Front(stack)[i] = stack[i]
    BY <1>1, Top
  <2>2. /\ k \in Seq(Frame) /\ Len(k) = L - 1 + 1 /\ k[L - 1 + 1] = c
        /\ \A i \in 1 .. L - 1 : k[i] = Front(stack)[i]
    BY <1>4, <2>1, PushFrame
  <2> QED BY <1>2, <2>1, <2>2
<1> HIDE DEF k, L
<1>7. \A i \in 1 .. L : k[i].fn = stack[i].fn /\ k[i].node = stack[i].node
                        /\ (k[i].fn # "kill" => k[i] = stack[i])
  BY <1>1, <1>2, <1>4, <1>6
<1>8. \A u \in Node, t \in Slot : Pending(k, u, t) <=> Pending(stack, u, t)
  <2> SUFFICES ASSUME NEW u \in Node, NEW t \in Slot
               PROVE  Pending(k, u, t) <=> Pending(stack, u, t)
    OBVIOUS
  <2>1. \A i \in 1 .. L : k[i].fn = "set_input" \/ stack[i].fn = "set_input" => k[i] = stack[i]
    BY <1>7
  <2> QED BY <1>6, <2>1 DEF Pending, L
<1>9. Chain(k)
  <2> SUFFICES ASSUME NEW i \in 1 .. L - 1 PROVE ChainAt(k, i) BY <1>6 DEF Chain
  <2>1. ChainAt(stack, i) BY DEF TrapInv, Chain, L
  <2>2. i \in 1 .. L /\ i + 1 \in 1 .. L BY <1>2
  <2> QED BY <1>7, <2>1, <2>2 DEF ChainAt
<1>10. \A i \in 1 .. L : k[i].fn = "set_input" => k[i].slot \in Slot
  BY <1>1, <1>7, Top DEF StackInv, CallShape, ShapeAt, L
<1>11. Pending(stack, f.node, f.slot) => Cyclic
  BY <1>1, <1>3, TrapCycle DEF TrapInv
<1> QED BY <1>2, <1>3, <1>4, <1>5, <1>6, <1>8, <1>9, <1>10, <1>11, SetChain

(* A return uncovers a shorter chain.                                      *)
LEMMA PopChain ==
  ASSUME IInv, TrapInv, fault = "none", SetInputReturn \/ KillReturn PROVE TrapInv'
<1> DEFINE f == Last(stack)
           L == Len(stack)
<1>1. /\ stack # <<>> /\ stack' = Front(stack) /\ fault' = "none"
      /\ f.fn \in {"set_input", "kill"}
  BY DEF SetInputReturn, KillReturn, In
<1>2. /\ L \in Nat \ {0} /\ f = stack[L] /\ Len(stack') = L - 1 /\ StackInv
      /\ \A i \in 1 .. L - 1 : stack'[i] = stack[i]
      /\ \A i \in 1 .. L : stack[i].node \in Node
      /\ inputs \in [Node -> [Slot -> Node \cup {Null}]]
  BY <1>1, Top DEF TypeOK
<1>3. ASSUME NEW i \in 1 .. L - 1, stack[i].fn = "set_input"
      PROVE  inputs'[stack[i].node][stack[i].slot] = inputs[stack[i].node][stack[i].slot]
  <2>1. CASE KillReturn BY <2>1 DEF KillReturn
  <2>2. CASE SetInputReturn
    <3>1. inputs' = [inputs EXCEPT ![f.node][f.slot] = f.input] /\ f.fn = "set_input"
      BY <2>2 DEF SetInputReturn, In
    <3>2. i \in 1 .. L /\ L \in 1 .. L /\ i # L BY <1>2
    <3>3. stack[i].node # f.node \/ stack[i].slot # f.slot
      BY <1>2, <1>3, <3>1, <3>2 DEF StackInv, PendingOnce
    <3>4. stack[i].slot \in Slot /\ f.slot \in Slot
      BY <1>2, <1>3, <3>1, <3>2 DEF StackInv, CallShape, ShapeAt
    <3> QED BY <1>2, <3>1, <3>2, <3>3, <3>4
  <2> QED BY <2>1, <2>2
<1>4. ASSUME NEW i \in 1 .. L - 2 PROVE ChainAt(stack, i)'
  <2>1. i \in 1 .. L - 1 /\ i + 1 \in 1 .. L - 1 BY <1>2
  <2>2. ChainAt(stack, i) BY <2>1 DEF TrapInv, Chain
  <2> QED BY <1>2, <1>3, <2>1, <2>2 DEF ChainAt
<1>5. Chain(stack)' BY <1>2, <1>4 DEF Chain
<1> QED BY <1>1, <1>5 DEF TrapInv, TrapNeedsCycle

(* sea_node_kill for a caller that waits to unkeep a node.                 *)
LEMMA KillChain ==
  ASSUME NEW n \in Node, NEW m \in Node \cup {Null}, fault = "none",
         Kill(n, Append(<<>>, Call("unkeep", n, 0, m)))
  PROVE  TrapInv'
<1> DEFINE f == Call("unkeep", n, 0, m)
           g == Call("kill", n, 0, Null)
<1>1. /\ f \in Frame /\ f.fn = "unkeep" /\ g \in Frame
  BY GraphAssumption DEF Call, Frame, Functions
<1>2. stack' = Append(Append(<<>>, f), g) /\ fault' # "user_missing" BY DEF Kill
<1> HIDE DEF f, g
<1>3. Len(stack') = 2 /\ stack'[1] = f BY <1>1, <1>2, FirstFrames
<1>4. \A i \in 1 .. Len(stack') - 1 : i = 1 BY <1>3
<1> QED BY <1>1, <1>2, <1>3, <1>4 DEF TrapInv, TrapNeedsCycle, Chain, ChainAt

(* The functions the client calls, when they run.                          *)
LEMMA OutermostChain ==
  ASSUME IInv, fault = "none",
         SubsumeUser \/ SubsumeKill \/ RemoveMove \/ RemoveFill \/ RemoveReturn \/ Unkeep
  PROVE  TrapInv'
<1> DEFINE f == Last(stack)
<1>1. stack # <<>> /\ f.fn \notin {"set_input", "kill"}
  BY DEF SubsumeUser, SubsumeKill, RemoveMove, RemoveFill, RemoveReturn, Unkeep, In
<1>2. /\ Len(stack) = 1 /\ stack[1] = f /\ f.slot \in Slot
      /\ \A u \in Node, t \in Slot : ~ Pending(stack, u, t)
      /\ stack \in Seq(Frame) /\ f \in Frame /\ f.node \in Node /\ f.input \in Node \cup {Null}
      /\ Front(stack) \in Seq(Frame) /\ Len(Front(stack)) = 0 /\ TypeOK /\ StackInv
  BY <1>1, Top, TopOutermost
<1>3. CASE SubsumeUser
  <2>1. PICK u \in users[f.node] : SetInput(u[1], f.input, u[2], stack)
    BY <1>3 DEF SubsumeUser
  <2>2. u[1] \in Node /\ u[2] \in Slot
    BY <1>2, <2>1 DEF TypeOK, User
  <2> QED BY <1>1, <1>2, <2>1, <2>2, SetChainOne
<1>4. ASSUME NEW n \in Node, NEW in \in Node \cup {Null}, NEW s \in Slot,
             NEW c \in Frame, c.fn \notin {"set_input", "kill"},
             SetInput(n, in, s, Append(Front(stack), c))
      PROVE  TrapInv'
  <2> DEFINE k == Append(Front(stack), c)
  <2>1. k \in Seq(Frame) /\ Len(k) = 1 /\ k[1] = c
    BY <1>2, PushFrame
  <2>2. SetInput(n, in, s, k) BY <1>4
  <2> HIDE DEF k
  <2> QED BY <1>2, <1>4, <2>1, <2>2, SetChainOne
<1>5. CASE RemoveMove
  <2> DEFINE last == inputlen[f.node] - 1
             tmp == inputs[f.node][last]
             c == Call("remove_moved", f.node, f.slot, tmp)
  <2>1. f.slot < last /\ SetInput(f.node, Null, last, Append(Front(stack), c))
    BY <1>5 DEF RemoveMove
  <2>2. inputlen[f.node] \in 0 .. MaxIn /\ MaxIn \in Nat BY <1>2, GraphAssumption DEF TypeOK
  <2>3. last \in Slot BY <1>2, <2>1, <2>2 DEF Slot
  <2>4. tmp \in Node \cup {Null} BY <1>2, <2>3 DEF TypeOK
  <2>5. c \in Frame /\ c.fn = "remove_moved"
    BY <1>2, <2>2, <2>4 DEF Call, Frame, Functions, Slot
  <2> HIDE DEF c, last
  <2> QED BY <1>2, <1>4, <2>1, <2>3, <2>5
<1>6. CASE RemoveFill
  <2> DEFINE c == Call("remove_filled", f.node, f.slot, f.input)
  <2>1. SetInput(f.node, f.input, f.slot, Append(Front(stack), c))
    BY <1>6 DEF RemoveFill
  <2>2. c \in Frame /\ c.fn = "remove_filled"
    BY <1>2, GraphAssumption DEF Call, Frame, Functions, Slot
  <2> HIDE DEF c
  <2> QED BY <1>2, <1>4, <2>1, <2>2
<1>7. CASE RemoveReturn \/ Unkeep
  <2>1. stack' = Front(stack) /\ fault' = "none" BY <1>7 DEF RemoveReturn, Unkeep
  <2> QED BY <1>2, <2>1, ShortChain
<1>8. CASE SubsumeKill
  <2>1. Kill(f.node, Append(Front(stack), Call("unkeep", f.node, 0, f.input)))
    BY <1>8 DEF SubsumeKill
  <2>2. Front(stack) = <<>> BY <1>2, EmptySeq
  <2> QED BY <1>2, <2>1, <2>2, KillChain
<1> QED BY <1>3, <1>5, <1>6, <1>7, <1>8

(* The calls of the client.                                                *)
LEMMA ClientChain ==
  ASSUME IInv, Idle, GuardedCall \/ \E n, m \in Node, s \in Slot : Store(n, m, s)
  PROVE  TrapInv'
<1>1. /\ fault = "none" /\ stack = <<>> /\ Len(stack) = 0 /\ TypeOK
      /\ \A u \in Node, t \in Slot : ~ Pending(stack, u, t)
  BY IdleState
<1>2. ASSUME NEW n \in Node, NEW in \in Node \cup {Null}, NEW s \in Slot,
             SetInput(n, in, s, <<>>)
      PROVE  TrapInv'
  <2> DEFINE k == <<>>
  <2>1. k \in Seq(Frame) /\ Len(k) = 0 OBVIOUS
  <2>2. SetInput(n, in, s, k) BY <1>2
  <2> HIDE DEF k
  <2>3. Len(k) \in {0, 1} /\ (Len(k) = 1 => k[1].fn \notin {"set_input", "kill"})
    BY <2>1
  <2> QED BY <1>1, <2>1, <2>2, <2>3, SetChainOne
<1>3. ASSUME NEW n \in Node, NEW in \in Node \cup {Null}, NEW s \in Slot,
             NEW c \in Frame, c.fn \notin {"set_input", "kill"}, SetInput(n, in, s, <<c>>)
      PROVE  TrapInv'
  <2> DEFINE k == <<c>>
  <2>1. k \in Seq(Frame) /\ Len(k) = 1 /\ k[1] = c BY FirstFrames
  <2>2. SetInput(n, in, s, k) BY <1>3
  <2> HIDE DEF k
  <2> QED BY <1>1, <1>3, <2>1, <2>2, SetChainOne
<1>4. 0 \in Slot BY GraphAssumption DEF Slot
<1>5. ASSUME NEW n \in Node
      PROVE  /\ (\E k \in Kinds \ {"Start"}, len \in Lens : Alloc(n, k, len)) => TrapInv'
             /\ KeepNode(n) \/ UnkeepNode(n) => TrapInv'
  <2>1. KeepNode(n) \/ UnkeepNode(n) \/ (\E k \in Kinds \ {"Start"}, len \in Lens : Alloc(n, k, len))
           => fault' = "none" /\ stack' = <<>>
    BY <1>1 DEF Alloc, KeepNode, UnkeepNode
  <2>2. fault' = "none" /\ stack' = <<>> => TrapInv' BY ShortChain
  <2> QED BY <2>1, <2>2
<1>6. ASSUME NEW n \in Node, NEW s \in Slot, Clear(n, s) PROVE TrapInv'
  BY <1>2, <1>6 DEF Clear
<1>7. ASSUME NEW n \in Node, NEW s \in Slot, RemoveInput(n, s) PROVE TrapInv'
  <2> DEFINE c == Call("remove_cleared", n, s, Null)
  <2>1. SetInput(n, Null, s, <<c>>) BY <1>7 DEF RemoveInput
  <2>2. c \in Frame /\ c.fn = "remove_cleared"
    BY GraphAssumption DEF Call, Frame, Functions, Slot
  <2> HIDE DEF c
  <2> QED BY <1>3, <2>1, <2>2
<1>8. ASSUME NEW n \in Node, NEW m \in Node, NEW s \in Slot, Link(n, m, s) \/ Store(n, m, s)
      PROVE  TrapInv'
  BY <1>2, <1>8 DEF Link, Store
<1>9. ASSUME NEW n \in Node, NEW m \in Node, AppendInput(n, m) PROVE TrapInv'
  <2>1. SetInput(n, m, inputlen[n], <<>>) /\ inputlen[n] < MaxIn BY <1>9 DEF AppendInput
  <2>2. inputlen[n] \in Slot BY <1>1, <2>1, GraphAssumption DEF TypeOK, Slot
  <2> QED BY <1>2, <2>1, <2>2
<1>10. ASSUME NEW n \in Node, NEW m \in Node, SetCtrl(n, m) PROVE TrapInv'
  <2> DEFINE c == Call("unkeep", n, 0, m)
  <2>1. SetInput(n, m, 0, <<c>>) BY <1>10 DEF SetCtrl
  <2>2. c \in Frame /\ c.fn = "unkeep"
    BY GraphAssumption DEF Call, Frame, Functions, Slot
  <2> HIDE DEF c
  <2> QED BY <1>3, <1>4, <2>1, <2>2
<1>11. ASSUME NEW n \in Node, NEW m \in Node, Subsume(n, m) PROVE TrapInv'
  <2>1. stack' = <<Call("subsume", n, 0, m)>> /\ fault' = "none"
    BY <1>1, <1>11 DEF Subsume
  <2> QED BY <2>1, ShortChain
<1>12. ASSUME NEW n \in Node, NEW m \in Node, DeadCodeElim(n, m) PROVE TrapInv'
  <2>1. Kill(n, <<Call("unkeep", n, 0, m)>>) BY <1>12 DEF DeadCodeElim
  <2>2. Append(<<>>, Call("unkeep", n, 0, m)) = <<Call("unkeep", n, 0, m)>> OBVIOUS
  <2> QED BY <1>1, <2>1, <2>2, KillChain
<1> QED
  BY <1>4, <1>5, <1>6, <1>7, <1>8, <1>9, <1>10, <1>11, <1>12 DEF GuardedCall

(* The Trap of sea_node_remove_user: the only state in which a user is not  *)
(* listed is a kill that has come back, along a cycle of inputs, to the    *)
(* slot it started from.                                                   *)
THEOREM TrapOnCycle == Spec => []TrapNeedsCycle
<1>1. Init => TrapInv
  BY DEF Init, TrapInv, TrapNeedsCycle, Chain
<1>2. IInv /\ TrapInv /\ [Next]_vars => TrapInv'
  <2> SUFFICES ASSUME IInv, TrapInv, [Next]_vars PROVE TrapInv' OBVIOUS
  <2>1. CASE Return
    <3>1. fault = "none"
      BY <2>1 DEF Return, SetInputReturn, KillInput, KillReturn, Unkeep, SubsumeUser,
                  SubsumeKill, RemoveMove, RemoveFill, RemoveReturn, In
    <3> QED BY <2>1, <3>1, PopChain, KillInputChain, OutermostChain DEF Return
  <2>2. CASE GuardedCall \/ \E n, m \in Node, s \in Slot : Store(n, m, s)
    <3>1. Idle
      BY <2>2 DEF GuardedCall, Alloc, Clear, RemoveInput, AppendInput, SetCtrl, Subsume,
                  DeadCodeElim, Link, KeepNode, UnkeepNode, Store
    <3> QED BY <2>2, <3>1, ClientChain
  <2>3. CASE UNCHANGED vars
    BY <2>3 DEF vars, TrapInv, TrapNeedsCycle, Cyclic, Chain, ChainAt
  <2> QED BY <2>1, <2>2, <2>3 DEF Next, GuardedNext
<1>3. TrapInv => TrapNeedsCycle BY DEF TrapInv
<1> QED BY <1>1, <1>2, <1>3, Invariance, PTL DEF Spec

-----------------------------------------------------------------------------
(* Memory safety of the calls that hold on to the node they store. A node   *)
(* that is not alive has no users, no keep entries and no slots; a slot     *)
(* past inputlen is empty.                                                 *)
Gone ==
  \A m \in Node : ~ Live(m) => users[m] = {} /\ keeps[m] = 0 /\ inputlen[m] = 0
Unset == \A m \in Node, t \in Slot : t >= inputlen[m] => inputs[m][t] = Null
Sound ==
  \A u \in Node, t \in Slot :
    inputs[u][t] # Null /\ ~ Pending(stack, u, t) => Live(inputs[u][t])

(* A node that is being killed has no users and no keep entries, one that   *)
(* is stored after a kill is kept, and what sea_node_remove_input moves     *)
(* loses no node on the way.                                               *)
SafeAt(q, i) ==
  /\ q[i].fn = "kill" => users[q[i].node] = {} /\ keeps[q[i].node] = 0
  /\ q[i].fn = "set_input" =>
       /\ q[i].slot < inputlen[q[i].node]
       /\ q[i].input # Null => keeps[q[i].input] > 0
  /\ q[i].fn = "subsume" => keeps[q[i].node] = 0
  /\ q[i].fn = "remove_cleared" =>
       /\ Len(q) = 1 => inputs[q[i].node][q[i].slot] = Null
       /\ Len(q) > 1 => q[2].input = Null
  /\ q[i].fn \in {"remove_moved", "remove_filled"} =>
       /\ Len(q) = 1 /\ q[i].slot < inputlen[q[i].node] - 1
       /\ inputs[q[i].node][inputlen[q[i].node] - 1] = Null
       /\ q[i].fn = "remove_moved" => inputs[q[i].node][q[i].slot] = Null
Safe(q) == \A i \in 1 .. Len(q) : SafeAt(q, i)

MemInv == Gone /\ Unset /\ Sound /\ (fault = "none" => Safe(stack))

LEMMA NextSafe ==
  ASSUME NEW q, stack' = q, Safe(q)'
  PROVE  Safe(stack)'
BY DEF Safe, SafeAt

(* What the caller of sea_node_set_input(n, in, s) owes: the node it stores *)
(* is alive, and kept when another one may die for it; its own frame says   *)
(* which slot it clears or fills.                                          *)
CallerAt(n, in, s, k, i) ==
  /\ k[i].fn = "kill" => in = Null /\ users[k[i].node] = {} /\ keeps'[k[i].node] = 0
  /\ k[i].fn = "set_input" =>
       /\ k[i].slot \in Slot /\ k[i].slot < inputlen'[k[i].node]
       /\ k[i].input # Null => keeps'[k[i].input] > 0
  /\ k[i].fn = "subsume" => keeps'[k[i].node] = 0
  /\ k[i].fn = "remove_cleared" =>
       /\ i = 1 /\ in = Null
       /\ Len(k) = 1 => k[i].node = n /\ k[i].slot = s
       /\ Len(k) > 1 => k[2].input = Null
  /\ k[i].fn \in {"remove_moved", "remove_filled"} =>
       /\ Len(k) = 1 /\ k[i].node = n /\ k[i].slot \in Slot
       /\ k[i].slot < inputlen'[n] - 1 /\ inputlen'[n] - 1 \in Slot
       /\ inputs[n][s] # Null => keeps'[inputs[n][s]] > 0
       /\ k[i].fn = "remove_moved" =>
            s = inputlen'[n] - 1 /\ in = Null /\ inputs[n][k[i].slot] = Null
       /\ k[i].fn = "remove_filled" =>
            s = k[i].slot /\ inputs[n][inputlen'[n] - 1] = Null
Caller(n, in, s, k) ==
  /\ k \in Seq(Frame)
  /\ \A u \in Node, t \in Slot : Pending(k, u, t) <=> Pending(stack, u, t)
  /\ \A m \in Node : ~ Live(m) => keeps'[m] = 0 /\ inputlen'[m] = 0
  /\ \A m \in Node, t \in Slot : t >= inputlen'[m] => inputs[m][t] = Null
  /\ inputlen' \in [Node -> 0 .. MaxIn]
  /\ in # Null => Live(in) /\ s < inputlen'[n] /\ (inputs[n][s] # Null => keeps'[in] > 0)
  /\ \A i \in 1 .. Len(k) : CallerAt(n, in, s, k, i)

LEMMA SetMem ==
  ASSUME IInv, MemInv, fault = "none", NEW n \in Node, NEW in \in Node \cup {Null},
         NEW s \in Slot, NEW k, SetInput(n, in, s, k), Caller(n, in, s, k), kind' = kind
  PROVE  MemInv'
<1> DEFINE old == inputs[n][s]
<1>1. /\ TypeOK /\ old \in Node \cup {Null} /\ k \in Seq(Frame) /\ Len(k) \in Nat
      /\ \A m \in Node : Live(m)' <=> Live(m)
      /\ users \in [Node -> SUBSET User]
  BY DEF IInv, TypeOK, Caller, Live
<1>2. \A i \in 1 .. Len(k) : k[i].node \in Node /\ k[i].input \in Node \cup {Null}
  BY <1>1, FrameFields
<1>3. CASE Trapped(n, s)
  <2>1. UNCHANGED <<inputs, users, stack>> /\ fault' # "none" BY <1>3 DEF Trapped
  <2>2. Gone' BY <1>1, <2>1 DEF Gone, MemInv, Caller
  <2>3. Unset' BY <2>1 DEF Unset, Caller
  <2>4. Sound'
    BY <1>1, <2>1 DEF Sound, MemInv, Pending, TypeOK
  <2> QED BY <2>1, <2>2, <2>3, <2>4 DEF MemInv
<1>4. CASE Stored(n, in, s, k)
  <2>1. /\ stack' = k /\ inputs'[n][s] = in
        /\ \A u \in Node, t \in Slot : <<u, t>> # <<n, s>> => inputs'[u][t] = inputs[u][t]
        /\ \A m \in Node : users'[m] \subseteq users[m] \cup (IF m = in THEN {<<n, s>>} ELSE {})
    BY <1>4 DEF Stored
  <2>2. Gone'
    <3> SUFFICES ASSUME NEW m \in Node, ~ Live(m)
                 PROVE  users'[m] = {} /\ keeps'[m] = 0 /\ inputlen'[m] = 0
      BY <1>1 DEF Gone
    <3>1. m # in BY GraphAssumption DEF Caller
    <3> QED BY <2>1, <3>1 DEF Gone, MemInv, Caller
  <2>3. Unset'
    <3> SUFFICES ASSUME NEW m \in Node, NEW t \in Slot, t >= inputlen'[m]
                 PROVE  inputs'[m][t] = Null
      BY DEF Unset
    <3>1. CASE <<m, t>> = <<n, s>>
      <4>1. inputlen'[n] \in 0 .. MaxIn /\ s \in Nat BY DEF Caller, Slot
      <4> QED BY <2>1, <3>1, <4>1 DEF Caller
    <3>2. CASE <<m, t>> # <<n, s>>
      BY <2>1, <3>2 DEF Caller
    <3> QED BY <3>1, <3>2
  <2>4. Sound'
    <3> SUFFICES ASSUME NEW u \in Node, NEW t \in Slot, inputs'[u][t] # Null,
                        ~ Pending(k, u, t)
                 PROVE  Live(inputs'[u][t])
      <4>1. \A u \in Node, t \in Slot : Pending(stack, u, t)' <=> Pending(k, u, t)
        BY <2>1 DEF Pending
      <4> QED BY <4>1 DEF Sound, Live
    <3>1. CASE <<u, t>> = <<n, s>> BY <2>1, <3>1 DEF Caller
    <3>2. CASE <<u, t>> # <<n, s>> BY <2>1, <3>2 DEF Caller, MemInv, Sound
    <3> QED BY <3>1, <3>2
  <2>5. ASSUME NEW i \in 1 .. Len(k) PROVE SafeAt(k, i)'
    <3>1. CallerAt(n, in, s, k, i) BY DEF Caller
    <3>2. k[i].fn = "kill" => users'[k[i].node] = {} /\ keeps'[k[i].node] = 0
      BY <1>2, <2>1, <3>1, GraphAssumption DEF CallerAt
    <3>3. k[i].fn = "remove_cleared" =>
            /\ Len(k) = 1 => inputs'[k[i].node][k[i].slot] = Null
            /\ Len(k) > 1 => k[2].input = Null
      BY <2>1, <3>1 DEF CallerAt
    <3>4. ASSUME k[i].fn \in {"remove_moved", "remove_filled"}
          PROVE  /\ Len(k) = 1 /\ k[i].slot < inputlen'[k[i].node] - 1
                 /\ inputs'[k[i].node][inputlen'[k[i].node] - 1] = Null
                 /\ k[i].fn = "remove_moved" => inputs'[k[i].node][k[i].slot] = Null
      <4>1. inputlen'[n] \in Int BY DEF Caller
      <4>2. k[i].slot # inputlen'[n] - 1 BY <3>1, <3>4, <4>1 DEF CallerAt, Slot
      <4> QED BY <2>1, <3>1, <3>4, <4>2 DEF CallerAt
    <3> QED BY <3>1, <3>2, <3>3, <3>4 DEF CallerAt, SafeAt
  <2>6. Safe(stack)' BY <2>1, <2>5, NextSafe DEF Safe
  <2> QED BY <2>2, <2>3, <2>4, <2>6 DEF MemInv
<1>5. CASE Killing(n, in, s, k)
  <2> DEFINE f == Call("set_input", n, s, in)
             g == Call("kill", old, 0, Null)
  <2>1. /\ old \in Node /\ keeps'[old] = 0 /\ UNCHANGED inputs
        /\ users'[old] = {} /\ \A m \in Node : users'[m] \subseteq users[m]
    BY <1>1, <1>5 DEF Killing
  <2>2. /\ f \in Frame /\ f.fn = "set_input" /\ f.node = n /\ f.slot = s /\ f.input = in
        /\ g \in Frame /\ g.fn = "kill" /\ g.node = old
    BY <2>1, GraphAssumption DEF Call, Frame, Functions, Slot
  <2>3. stack' = Append(Append(k, f), g) BY <1>5 DEF Killing
  <2> HIDE DEF f, g
  <2>4. PICK q : /\ stack' = q
                 /\ Len(q) = Len(k) + 2 /\ q[Len(k) + 1] = f /\ q[Len(k) + 2] = g
                 /\ \A i \in 1 .. Len(k) : q[i] = k[i]
    <3> DEFINE p == Append(k, f)
               r == Append(p, g)
    <3>1. /\ p \in Seq(Frame) /\ Len(p) = Len(k) + 1 /\ p[Len(k) + 1] = f
          /\ \A i \in 1 .. Len(k) : p[i] = k[i]
      BY <1>1, <2>2, PushFrame
    <3> HIDE DEF p
    <3>2. /\ Len(r) = Len(p) + 1 /\ r[Len(p) + 1] = g
          /\ \A i \in 1 .. Len(p) : r[i] = p[i]
      BY <2>2, <3>1, PushFrame
    <3> HIDE DEF r
    <3>3. Len(k) + 1 \in 1 .. Len(p) /\ \A i \in 1 .. Len(k) : i \in 1 .. Len(p)
      BY <1>1, <3>1
    <3>4. stack' = r BY <2>3 DEF p, r
    <3> QED BY <1>1, <3>1, <3>2, <3>3, <3>4
  <2>5. Gone' BY <1>1, <2>1 DEF Gone, MemInv, Caller
  <2>6. Unset' BY <2>1 DEF Unset, Caller
  <2>7. Sound'
    <3>1. \A u \in Node, t \in Slot : Pending(k, u, t) => Pending(stack, u, t)'
      <4>1. \A i \in 1 .. Len(k) : i \in 1 .. Len(q) BY <1>1, <2>4
      <4> QED BY <2>4, <4>1 DEF Pending
    <3>2. inputs \in [Node -> [Slot -> Node \cup {Null}]] BY <1>1 DEF TypeOK
    <3> QED BY <1>1, <2>1, <3>1, <3>2 DEF Sound, MemInv, Caller
  <2>8. s < inputlen'[n] /\ old # Null
    <3>1. inputlen'[n] \in 0 .. MaxIn /\ s \in Nat BY DEF Caller, Slot
    <3> QED BY <2>1, <3>1, GraphAssumption DEF Caller
  <2>9. ASSUME NEW i \in 1 .. Len(q) PROVE SafeAt(q, i)'
    <3>1. CASE i \in 1 .. Len(k)
      <4>1. CallerAt(n, in, s, k, i) /\ q[i] = k[i] BY <2>4, <3>1 DEF Caller
      <4>2. k[i].fn = "kill" => users'[k[i].node] = {}
        BY <1>2, <2>1, <3>1, <4>1 DEF CallerAt
      <4>3. k[i].fn \notin {"remove_moved", "remove_filled"}
        BY <2>1, <2>8, <4>1 DEF CallerAt
      <4>4. k[i].fn = "remove_cleared" => Len(q) # 1 /\ q[2].input = Null
        <5>1. CASE Len(k) = 1
          <6>1. q[2] = f /\ Len(q) = 3 BY <2>4, <5>1
          <6> QED BY <2>2, <4>1, <6>1 DEF CallerAt
        <5>2. CASE Len(k) > 1
          <6>1. 2 \in 1 .. Len(k) /\ Len(q) # 1 BY <1>1, <2>4, <5>2
          <6> QED BY <2>4, <4>1, <5>2, <6>1 DEF CallerAt
        <5>3. Len(k) = 1 \/ Len(k) > 1 BY <1>1, <3>1, OneOrMore
        <5> QED BY <5>1, <5>2, <5>3
      <4> QED BY <4>1, <4>2, <4>3, <4>4 DEF CallerAt, SafeAt
    <3>2. CASE i = Len(k) + 1
      <4>1. q[i] = f BY <2>4, <3>2
      <4> QED BY <2>2, <2>8, <4>1 DEF SafeAt, Caller
    <3>3. CASE i = Len(k) + 2
      <4>1. q[i] = g BY <2>4, <3>3
      <4> QED BY <2>1, <2>2, <4>1 DEF SafeAt
    <3> QED BY <1>1, <2>4, <2>9, <3>1, <3>2, <3>3
  <2>10. Safe(stack)' BY <2>4, <2>9, NextSafe DEF Safe
  <2> QED BY <2>5, <2>6, <2>7, <2>10 DEF MemInv
<1> QED BY <1>1, <1>3, <1>4, <1>5, SetResult

(* sea_node_kill drops an input: its caller is what it was.                *)
LEMMA KillInputMem ==
  ASSUME IInv, MemInv, fault = "none", KillInput PROVE MemInv'
<1> DEFINE f == Last(stack)
           L == Len(stack)
           c == Call("kill", f.node, f.slot + 1, Null)
           k == Append(Front(stack), c)
<1>1. stack # <<>> /\ f.fn = "kill" /\ f.slot < inputlen[f.node] BY DEF KillInput, In
<1>2. /\ L \in Nat \ {0} /\ L > 1 /\ f = stack[L] /\ f.node \in Node
      /\ f.slot \in 0 .. MaxIn /\ inputlen \in [Node -> 0 .. MaxIn] /\ StackInv
  BY <1>1, Top, KillFrame DEF TypeOK
<1>3. f.slot \in Slot /\ f.slot + 1 \in 0 .. MaxIn
  BY <1>1, <1>2, GraphAssumption DEF Slot
<1>4. c \in Frame /\ c.fn = "kill" /\ c.node = f.node /\ c.input = Null
  BY <1>2, <1>3 DEF Call, Frame, Functions
<1>5. /\ UNCHANGED <<kind, inputlen, keeps>>
      /\ SetInput(f.node, Null, f.slot, k)
  BY DEF KillInput
<1> HIDE DEF c
<1>6. /\ k \in Seq(Frame) /\ Len(k) = L /\ k[L] = c
      /\ \A i \in 1 .. L : i # L => k[i] = stack[i]
  <2>1. /\ Front(stack) \in Seq(Frame) /\ Len(Front(stack)) = L - 1
        /\ \A i \in 1 .. L - 1 : Front(stack)[i] = stack[i]
    BY <1>1, Top
  <2>2. /\ k \in Seq(Frame) /\ Len(k) = L - 1 + 1 /\ k[L - 1 + 1] = c
        /\ \A i \in 1 .. L - 1 : k[i] = Front(stack)[i]
    BY <1>4, <2>1, PushFrame
  <2> QED BY <1>2, <2>1, <2>2
<1> HIDE DEF k, L
<1>7. \A i \in 1 .. L : \/ k[i] = stack[i]
                        \/ i = L /\ k[i].fn = "kill" /\ k[i].node = stack[i].node
                                 /\ stack[i].fn = "kill"
  BY <1>1, <1>2, <1>4, <1>6
<1>8. \A u \in Node, t \in Slot : Pending(k, u, t) <=> Pending(stack, u, t)
  <2> SUFFICES ASSUME NEW u \in Node, NEW t \in Slot
               PROVE  Pending(k, u, t) <=> Pending(stack, u, t)
    OBVIOUS
  <2>1. \A i \in 1 .. L : k[i].fn = "set_input" \/ stack[i].fn = "set_input" => k[i] = stack[i]
    BY <1>7
  <2> QED BY <1>6, <2>1 DEF Pending, L
<1>9. ASSUME NEW i \in 1 .. L PROVE CallerAt(f.node, Null, f.slot, k, i)
  <2>1. SafeAt(stack, i) /\ ShapeAt(stack, i)
    BY <1>2 DEF MemInv, Safe, StackInv, CallShape, L
  <2>2. CASE k[i].fn = "kill"
    BY <1>5, <1>7, <2>1, <2>2 DEF SafeAt, CallerAt
  <2>3. CASE k[i].fn # "kill"
    <3>1. k[i] = stack[i] BY <1>7, <2>3
    <3>2. k[i].fn \notin {"remove_moved", "remove_filled"}
      BY <1>2, <2>1, <3>1 DEF SafeAt, L
    <3>3. k[i].fn = "remove_cleared" => i = 1 /\ Len(k) # 1 /\ k[2].input = Null
      <4>1. k[i].fn = "remove_cleared" => i = 1 /\ L > 2 /\ stack[2].input = Null
        BY <1>1, <3>1, <2>1, KillFrame DEF SafeAt, Removing, L
      <4>2. L > 2 => k[2] = stack[2] BY <1>2, <1>6
      <4> QED BY <1>6, <4>1, <4>2
    <3>4. k[i].fn = "set_input" => k[i].slot \in Slot
      BY <2>1, <3>1 DEF ShapeAt
    <3> QED BY <1>5, <2>1, <2>3, <3>1, <3>2, <3>3, <3>4 DEF SafeAt, CallerAt
  <2> QED BY <2>2, <2>3
<1>10. Caller(f.node, Null, f.slot, k)
  BY <1>2, <1>5, <1>6, <1>8, <1>9 DEF Caller, MemInv, Gone, Unset
<1> QED BY <1>2, <1>3, <1>5, <1>10, SetMem

(* A node that has been killed has dropped all it used.                    *)
LEMMA KillReturnMem ==
  ASSUME IInv, MemInv, fault = "none", KillReturn PROVE MemInv'
<1> DEFINE f == Last(stack)
           L == Len(stack)
<1>1. stack # <<>> /\ f.fn = "kill" /\ f.slot >= inputlen[f.node] /\ stack' = Front(stack)
  BY DEF KillReturn, In
<1>2. /\ L \in Nat \ {0} /\ L > 1 /\ f = stack[L] /\ f.node \in Node /\ TypeOK
      /\ Len(stack') = L - 1 /\ \A i \in 1 .. L - 1 : stack'[i] = stack[i]
      /\ \A i \in 1 .. L : stack[i].node \in Node
      /\ StackInv /\ DefUse /\ f.slot \in 0 .. MaxIn /\ inputlen \in [Node -> 0 .. MaxIn]
      /\ MaxIn \in Nat /\ kind \in [Node -> Kinds \cup {"Free", "Invalid"}]
  BY <1>1, Top, KillFrame, GraphAssumption DEF TypeOK
<1>3. /\ UNCHANGED <<inputs, users, keeps, fault>>
      /\ kind' = [kind EXCEPT ![f.node] = "Invalid"]
      /\ inputlen' = [inputlen EXCEPT ![f.node] = 0]
  BY DEF KillReturn
<1>4. users[f.node] = {} /\ keeps[f.node] = 0
  BY <1>1, <1>2 DEF MemInv, Safe, SafeAt
<1>5. \A t \in Slot : inputs[f.node][t] = Null
  <2> SUFFICES ASSUME NEW t \in Slot PROVE inputs[f.node][t] = Null OBVIOUS
  <2>1. t < f.slot => inputs[f.node][t] = Null BY <1>1, KillFrame
  <2>2. t >= inputlen[f.node] => inputs[f.node][t] = Null BY <1>2 DEF MemInv, Unset
  <2> QED BY <1>1, <1>2, <2>1, <2>2 DEF Slot
<1>6. /\ kind'[f.node] \notin Kinds /\ inputlen'[f.node] = 0
      /\ \A m \in Node : m # f.node => (Live(m)' <=> Live(m)) /\ inputlen'[m] = inputlen[m]
  <2>1. "Invalid" \notin Kinds BY GraphAssumption
  <2>2. kind'[f.node] = "Invalid" /\ \A m \in Node : m # f.node => kind'[m] = kind[m]
    BY <1>2, <1>3
  <2> QED BY <1>2, <1>3, <2>1, <2>2 DEF Live
<1>7. Gone' BY <1>3, <1>4, <1>6 DEF Gone, MemInv, Live
<1>8. Unset' BY <1>3, <1>5, <1>6 DEF Unset, MemInv
<1>9. Sound'
  <2>1. \A u \in Node, t \in Slot : Pending(stack, u, t) => Pending(stack, u, t)'
    <3>1. \A i \in 1 .. L : stack[i].fn = "set_input" => i \in 1 .. L - 1
      BY <1>1, <1>2
    <3> QED BY <1>2, <3>1 DEF Pending
  <2> SUFFICES ASSUME NEW u \in Node, NEW t \in Slot, inputs[u][t] # Null,
                      ~ Pending(stack, u, t)
               PROVE  Live(inputs[u][t])'
    BY <1>3, <2>1 DEF Sound, Live
  <2>2. Live(inputs[u][t]) BY DEF MemInv, Sound
  <2>3. inputs[u][t] \in Node BY <1>2 DEF TypeOK
  <2>4. inputs[u][t] # f.node BY <1>2, <1>4, <2>3 DEF DefUse
  <2> DEFINE m == inputs[u][t]
  <2>5. Live(m)' BY <1>3, <1>6, <2>2, <2>3, <2>4 DEF Live
  <2> QED BY <1>3, <2>5 DEF Live
<1>10. ASSUME NEW i \in 1 .. L - 1 PROVE SafeAt(stack, i)'
  <2>1. i \in 1 .. L /\ stack'[i] = stack[i] BY <1>2, <1>10
  <2>2. SafeAt(stack, i) /\ ShapeAt(stack, i)
    BY <1>2, <2>1 DEF MemInv, Safe, StackInv, CallShape
  <2>3. stack[i].fn = "set_input" => inputlen'[stack[i].node] = inputlen[stack[i].node]
    <3>1. stack[i].fn = "set_input" => stack[i].node # f.node
      BY <1>2, <1>5, <2>1, <2>2 DEF StackInv, PendingFull, ShapeAt
    <3> QED BY <1>2, <1>6, <2>1, <3>1
  <2>4. stack[i].fn \notin {"remove_moved", "remove_filled"}
    BY <1>2, <2>2 DEF SafeAt
  <2>5. stack[i].fn = "remove_cleared" => Len(stack') # 1 /\ stack'[2].input = Null
    <3>1. stack[i].fn = "remove_cleared" => L > 2
      BY <1>1, <2>1, KillFrame DEF Removing
    <3>2. L > 2 => stack'[2] = stack[2] BY <1>2
    <3>3. L > 2 => Len(stack') # 1 BY <1>2
    <3> QED BY <1>2, <2>2, <3>1, <3>2, <3>3 DEF SafeAt
  <2> QED BY <1>3, <2>1, <2>2, <2>3, <2>4, <2>5 DEF SafeAt
<1>11. Safe(stack)' BY <1>2, <1>10 DEF Safe
<1> QED BY <1>7, <1>8, <1>9, <1>11 DEF MemInv

(* What sea_node_set_input stores when it is back from the kill is kept.   *)
LEMMA SetInputReturnMem ==
  ASSUME IInv, MemInv, fault = "none", SetInputReturn PROVE MemInv'
<1> DEFINE f == Last(stack)
           L == Len(stack)
<1>1. stack # <<>> /\ f.fn = "set_input" /\ stack' = Front(stack)
  BY DEF SetInputReturn, In
<1>2. /\ L \in Nat \ {0} /\ f = stack[L] /\ f.node \in Node /\ f.input \in Node \cup {Null}
      /\ TypeOK /\ StackInv
      /\ Len(stack') = L - 1 /\ \A i \in 1 .. L - 1 : stack'[i] = stack[i]
      /\ \A i \in 1 .. L : stack[i].node \in Node /\ stack[i].slot \in 0 .. MaxIn
      /\ inputs \in [Node -> [Slot -> Node \cup {Null}]] /\ users \in [Node -> SUBSET User]
      /\ inputlen \in [Node -> 0 .. MaxIn] /\ keeps \in [Node -> Nat]
  BY <1>1, Top DEF TypeOK
<1>3. UNCHANGED <<kind, inputlen, keeps, fault>> /\ \A m \in Node : Live(m)' <=> Live(m)
  BY DEF SetInputReturn, Live
<1>4. /\ f.slot \in Slot /\ f.slot < inputlen[f.node]
      /\ f.input # Null => keeps[f.input] > 0
  BY <1>1, <1>2 DEF MemInv, Safe, SafeAt, StackInv, CallShape, ShapeAt
<1>5. /\ inputs'[f.node][f.slot] = f.input
      /\ \A u \in Node, t \in Slot :
           <<u, t>> # <<f.node, f.slot>> => inputs'[u][t] = inputs[u][t]
      /\ \A m \in Node : m # f.input => users'[m] = users[m]
  BY <1>2, <1>4 DEF SetInputReturn
<1>6. f.input # Null => Live(f.input) BY <1>2, <1>4 DEF MemInv, Gone
<1>7. Gone'
  <2> SUFFICES ASSUME NEW m \in Node, ~ Live(m)
               PROVE  users'[m] = {} /\ keeps'[m] = 0 /\ inputlen'[m] = 0
    BY <1>3 DEF Gone
  <2>1. m # f.input BY <1>6, GraphAssumption
  <2> QED BY <1>3, <1>5, <2>1 DEF MemInv, Gone
<1>8. Unset'
  <2> SUFFICES ASSUME NEW m \in Node, NEW t \in Slot, t >= inputlen[m]
               PROVE  inputs'[m][t] = Null
    BY <1>3 DEF Unset
  <2>1. <<m, t>> # <<f.node, f.slot>> BY <1>2, <1>4 DEF Slot
  <2> QED BY <1>5, <2>1 DEF MemInv, Unset
<1>9. Sound'
  <2> SUFFICES ASSUME NEW u \in Node, NEW t \in Slot, inputs'[u][t] # Null,
                      ~ Pending(stack', u, t)
               PROVE  Live(inputs'[u][t])
    BY <1>3 DEF Sound, Pending, Live
  <2>1. CASE <<u, t>> = <<f.node, f.slot>> BY <1>5, <1>6, <2>1
  <2>2. CASE <<u, t>> # <<f.node, f.slot>>
    <3>1. ~ Pending(stack, u, t)
      <4> SUFFICES ASSUME NEW i \in 1 .. L, stack[i].fn = "set_input",
                          stack[i].node = u, stack[i].slot = t
                   PROVE  FALSE
        BY DEF Pending
      <4>1. i # L BY <1>2, <2>2
      <4>2. i \in 1 .. L - 1 BY <1>2, <4>1
      <4> QED BY <1>2, <4>2 DEF Pending
    <3> QED BY <1>5, <2>2, <3>1 DEF MemInv, Sound
  <2> QED BY <2>1, <2>2
<1>10. ASSUME NEW i \in 1 .. L - 1 PROVE SafeAt(stack, i)'
  <2>1. i \in 1 .. L /\ stack'[i] = stack[i] /\ L > 1 /\ L # 1 /\ (L - 1 = 1 => L = 2)
    BY <1>2, <1>10, Below
  <2>2. SafeAt(stack, i) /\ OpenAt(stack, i, inputlen) /\ ShapeAt(stack, i)
    BY <1>2, <2>1 DEF MemInv, Safe, StackInv, RemoveOpen, CallShape
  <2>3. stack[i].fn = "kill" => users'[stack[i].node] = {}
    <3>1. stack[i].fn = "kill" => stack[i].node # f.input
      BY <1>2, <1>4, <2>1, <2>2, GraphAssumption DEF SafeAt
    <3> QED BY <1>2, <1>5, <2>1, <2>2, <3>1 DEF SafeAt
  <2>4. stack[i].fn \notin {"remove_moved", "remove_filled"}
    BY <2>1, <2>2 DEF SafeAt
  <2>5. ASSUME stack[i].fn = "remove_cleared"
        PROVE  /\ Len(stack') = 1 => inputs'[stack[i].node][stack[i].slot] = Null
               /\ Len(stack') > 1 => stack'[2].input = Null
    <3>1. /\ stack[2].input = Null /\ stack[2].node = stack[i].node
          /\ stack[2].slot = stack[i].slot
      BY <1>2, <2>1, <2>2, <2>5 DEF SafeAt, OpenAt, Removing
    <3>2. Len(stack') = 1 => f = stack[2]
      <4>1. Len(stack') = 1 => L = 2 BY <1>2, <2>1
      <4> QED BY <1>2, <4>1
    <3>3. Len(stack') > 1 => stack'[2] = stack[2] BY <1>2
    <3> QED BY <1>5, <3>1, <3>2, <3>3
  <2> QED BY <1>3, <2>1, <2>2, <2>3, <2>4, <2>5 DEF SafeAt
<1>11. Safe(stack)' BY <1>2, <1>10 DEF Safe
<1> QED BY <1>7, <1>8, <1>9, <1>11 DEF MemInv

(* sea_node_set_input called by the client or a function that it called.    *)
Lengths ==
  /\ \A m \in Node : ~ Live(m) => keeps'[m] = 0 /\ inputlen'[m] = 0
  /\ \A m \in Node, t \in Slot : t >= inputlen'[m] => inputs[m][t] = Null
  /\ inputlen' \in [Node -> 0 .. MaxIn]

LEMMA SetMemNone ==
  ASSUME IInv, MemInv, Idle, NEW n \in Node, NEW in \in Node \cup {Null}, NEW s \in Slot,
         SetInput(n, in, s, <<>>), Lengths, kind' = kind,
         in # Null => Live(in) /\ s < inputlen'[n] /\ (inputs[n][s] # Null => keeps'[in] > 0)
  PROVE  MemInv'
<1> DEFINE k == <<>>
<1>1. fault = "none" /\ \A u \in Node, t \in Slot : ~ Pending(stack, u, t) BY IdleState
<1>2. k \in Seq(Frame) /\ Len(k) = 0 OBVIOUS
<1>3. SetInput(n, in, s, k) OBVIOUS
<1> HIDE DEF k
<1>4. 1 .. Len(k) = {} BY <1>2
<1>5. \A u \in Node, t \in Slot : ~ Pending(k, u, t) BY <1>4 DEF Pending
<1>6. Caller(n, in, s, k) BY <1>1, <1>2, <1>4, <1>5 DEF Caller, Lengths
<1> QED BY <1>1, <1>3, <1>6, SetMem

LEMMA SetMemOne ==
  ASSUME IInv, MemInv, fault = "none", NEW n \in Node, NEW in \in Node \cup {Null},
         NEW s \in Slot, NEW k \in Seq(Frame), SetInput(n, in, s, k), Lengths, kind' = kind,
         in # Null => Live(in) /\ s < inputlen'[n] /\ (inputs[n][s] # Null => keeps'[in] > 0),
         \A u \in Node, t \in Slot : ~ Pending(stack, u, t),
         Len(k) = 1, k[1].fn \notin {"kill", "set_input"}, CallerAt(n, in, s, k, 1)
  PROVE  MemInv'
<1>1. 1 .. Len(k) = {1} OBVIOUS
<1>2. \A u \in Node, t \in Slot : ~ Pending(k, u, t) BY <1>1 DEF Pending
<1>3. Caller(n, in, s, k) BY <1>1, <1>2 DEF Caller, Lengths
<1> QED BY <1>3, SetMem

(* A step of the functions that the client calls.                          *)
LEMMA OutermostState ==
  ASSUME IInv, MemInv, fault = "none", stack # <<>>, Last(stack).fn \notin {"set_input", "kill"}
  PROVE  /\ Len(stack) = 1 /\ stack[1] = Last(stack) /\ stack \in Seq(Frame)
         /\ Last(stack).slot \in Slot /\ Last(stack).node \in Node
         /\ Last(stack).input \in Node \cup {Null}
         /\ \A u \in Node, t \in Slot : ~ Pending(stack, u, t)
         /\ Front(stack) \in Seq(Frame) /\ Len(Front(stack)) = 0 /\ Front(stack) = <<>>
         /\ TypeOK /\ DefUse /\ SafeAt(stack, 1) /\ OpenAt(stack, 1, inputlen)
         /\ Last(stack).fn \in Holding => Last(stack).input \in Node /\ keeps[Last(stack).input] > 0
         /\ inputs \in [Node -> [Slot -> Node \cup {Null}]]
         /\ inputlen \in [Node -> 0 .. MaxIn] /\ keeps \in [Node -> Nat]
         /\ users \in [Node -> SUBSET User]
<1>1. /\ Len(stack) = 1 /\ stack[1] = Last(stack) /\ Last(stack).slot \in Slot
      /\ \A u \in Node, t \in Slot : ~ Pending(stack, u, t)
  BY TopOutermost
<1>2. /\ StackInv /\ TypeOK /\ DefUse /\ stack \in Seq(Frame) /\ Last(stack).node \in Node
      /\ Last(stack).input \in Node \cup {Null}
      /\ Front(stack) \in Seq(Frame) /\ Len(Front(stack)) = 0
  BY <1>1, Top
<1>3. 1 \in 1 .. Len(stack) BY <1>1
<1>4. SafeAt(stack, 1) BY <1>3 DEF MemInv, Safe
<1>5. /\ OpenAt(stack, 1, inputlen)
      /\ stack[1].fn \in Holding => stack[1].input \in Node /\ keeps[stack[1].input] > 0
  BY <1>2, <1>3 DEF StackInv, RemoveOpen, HoldsKeep
<1>6. Front(stack) = <<>> BY <1>2, EmptySeq
<1> QED BY <1>1, <1>2, <1>4, <1>5, <1>6 DEF TypeOK

LEMMA SubsumeUserMem ==
  ASSUME IInv, MemInv, fault = "none", SubsumeUser PROVE MemInv'
<1> DEFINE f == Last(stack)
<1>1. stack # <<>> /\ f.fn = "subsume" /\ UNCHANGED <<kind, keeps, inputlen>>
  BY DEF SubsumeUser, In
<1>2. /\ Len(stack) = 1 /\ stack[1] = f /\ stack \in Seq(Frame) /\ f.node \in Node
      /\ f.input \in Node /\ keeps[f.input] > 0 /\ keeps[f.node] = 0
      /\ \A u \in Node, t \in Slot : ~ Pending(stack, u, t)
      /\ DefUse /\ users \in [Node -> SUBSET User] /\ inputlen \in [Node -> 0 .. MaxIn]
  BY <1>1, OutermostState DEF Holding, SafeAt
<1>3. PICK u \in users[f.node] : SetInput(u[1], f.input, u[2], stack)
  BY DEF SubsumeUser
<1>4. u[1] \in Node /\ u[2] \in Slot /\ u = <<u[1], u[2]>> BY <1>2, <1>3 DEF User
<1>5. inputs[u[1]][u[2]] = f.node BY <1>2, <1>4 DEF DefUse
<1>6. u[2] < inputlen[u[1]]
  <2>1. inputlen[u[1]] \in Int /\ u[2] \in Int BY <1>2, <1>4 DEF Slot
  <2> QED BY <1>2, <1>4, <1>5, <2>1, GraphAssumption DEF MemInv, Unset
<1>7. Live(f.input) BY <1>2 DEF MemInv, Gone
<1>8. Lengths BY <1>1, <1>2 DEF Lengths, MemInv, Gone, Unset
<1>9. CallerAt(u[1], f.input, u[2], stack, 1) BY <1>1, <1>2 DEF CallerAt
<1> QED BY <1>1, <1>2, <1>3, <1>4, <1>6, <1>7, <1>8, <1>9, SetMemOne

(* The last input is kept while it has no slot.                            *)
LEMMA RemoveMoveMem ==
  ASSUME IInv, MemInv, fault = "none", RemoveMove PROVE MemInv'
<1> DEFINE f == Last(stack)
           n == f.node
           last == inputlen[n] - 1
           tmp == inputs[n][last]
           c == Call("remove_moved", n, f.slot, tmp)
           k == Append(Front(stack), c)
<1>1. /\ stack # <<>> /\ f.fn = "remove_cleared" /\ f.slot < last
      /\ UNCHANGED <<kind, inputlen>> /\ keeps' = [keeps EXCEPT ![tmp] = @ + 1]
      /\ SetInput(n, Null, last, k)
  BY DEF RemoveMove, In
<1>2. /\ Len(stack) = 1 /\ stack[1] = f /\ f.slot \in Slot /\ n \in Node
      /\ Front(stack) \in Seq(Frame) /\ Len(Front(stack)) = 0
      /\ \A u \in Node, t \in Slot : ~ Pending(stack, u, t)
      /\ inputs[n][f.slot] = Null
      /\ inputlen \in [Node -> 0 .. MaxIn] /\ keeps \in [Node -> Nat]
      /\ inputs \in [Node -> [Slot -> Node \cup {Null}]]
      /\ \A t \in Slot : f.slot < t /\ t < inputlen[n] => inputs[n][t] # Null
  BY <1>1, OutermostState DEF SafeAt, OpenAt, Removing
<1>3. last \in Slot /\ last < inputlen[n]
  BY <1>1, <1>2, GraphAssumption DEF Slot
<1>4. tmp \in Node /\ tmp # Null BY <1>1, <1>2, <1>3
<1>5. Live(tmp) BY <1>2, <1>3, <1>4 DEF MemInv, Sound
<1>6. c \in Frame /\ c.fn = "remove_moved" /\ c.node = n /\ c.slot = f.slot
  BY <1>2, <1>4, GraphAssumption DEF Call, Frame, Functions, Slot
<1>7. keeps'[tmp] > 0 /\ \A m \in Node : m # tmp => keeps'[m] = keeps[m]
  BY <1>1, <1>2, <1>4
<1>8. Lengths BY <1>1, <1>2, <1>5, <1>7 DEF Lengths, MemInv, Gone, Unset
<1>9. k \in Seq(Frame) /\ Len(k) = 1 /\ k[1] = c
  <2> HIDE DEF c
  <2> QED BY <1>2, <1>6, PushFrame
<1> HIDE DEF c, k
<1>10. CallerAt(n, Null, last, k, 1)
  BY <1>1, <1>2, <1>3, <1>6, <1>7, <1>9 DEF CallerAt
<1> HIDE DEF last
<1> QED BY <1>1, <1>2, <1>3, <1>6, <1>8, <1>9, <1>10, SetMemOne

LEMMA RemoveFillMem ==
  ASSUME IInv, MemInv, fault = "none", RemoveFill PROVE MemInv'
<1> DEFINE f == Last(stack)
           n == f.node
           c == Call("remove_filled", n, f.slot, f.input)
           k == Append(Front(stack), c)
<1>1. /\ stack # <<>> /\ f.fn = "remove_moved"
      /\ UNCHANGED <<kind, inputlen, keeps>> /\ SetInput(n, f.input, f.slot, k)
  BY DEF RemoveFill, In
<1>2. /\ Len(stack) = 1 /\ stack[1] = f /\ f.slot \in Slot /\ n \in Node
      /\ f.input \in Node /\ keeps[f.input] > 0
      /\ Front(stack) \in Seq(Frame) /\ Len(Front(stack)) = 0
      /\ \A u \in Node, t \in Slot : ~ Pending(stack, u, t)
      /\ inputs[n][f.slot] = Null /\ inputs[n][inputlen[n] - 1] = Null
      /\ f.slot < inputlen[n] - 1 /\ inputlen \in [Node -> 0 .. MaxIn]
  BY <1>1, OutermostState DEF SafeAt, Holding
<1>3. inputlen[n] - 1 \in Slot /\ f.slot < inputlen[n]
  BY <1>2, GraphAssumption DEF Slot
<1>4. Live(f.input) BY <1>2 DEF MemInv, Gone
<1>5. c \in Frame /\ c.fn = "remove_filled" /\ c.node = n /\ c.slot = f.slot
  BY <1>2, GraphAssumption DEF Call, Frame, Functions, Slot
<1>6. Lengths BY <1>1, <1>2 DEF Lengths, MemInv, Gone, Unset
<1>7. k \in Seq(Frame) /\ Len(k) = 1 /\ k[1] = c
  <2> HIDE DEF c
  <2> QED BY <1>2, <1>5, PushFrame
<1> HIDE DEF c, k
<1>8. CallerAt(n, f.input, f.slot, k, 1)
  BY <1>1, <1>2, <1>3, <1>5, <1>7 DEF CallerAt
<1> QED BY <1>1, <1>2, <1>3, <1>4, <1>5, <1>6, <1>7, <1>8, SetMemOne

LEMMA NoFrames ==
  ASSUME Gone', Unset', Sound', Len(stack') = 0
  PROVE  MemInv'
<1>1. 1 .. Len(stack') = {} OBVIOUS
<1> QED BY <1>1 DEF MemInv, Safe

LEMMA UnkeepMem ==
  ASSUME IInv, MemInv, fault = "none", Unkeep PROVE MemInv'
<1> DEFINE f == Last(stack)
<1>1. /\ stack # <<>> /\ f.fn = "unkeep" /\ stack' = Front(stack)
      /\ UNCHANGED <<kind, inputs, inputlen, users>> /\ keeps' = [keeps EXCEPT ![f.input] = @ - 1]
  BY DEF Unkeep, In
<1>2. /\ Len(stack') = 0 /\ f.input \in Node /\ keeps[f.input] > 0 /\ keeps \in [Node -> Nat]
      /\ \A u \in Node, t \in Slot : ~ Pending(stack, u, t)
  BY <1>1, OutermostState DEF Holding
<1>3. Gone'
  <2>1. \A m \in Node : ~ Live(m) => m # f.input BY <1>2 DEF MemInv, Gone
  <2> QED BY <1>1, <1>2, <2>1 DEF MemInv, Gone, Live
<1>4. Unset' /\ Sound' BY <1>1, <1>2 DEF MemInv, Unset, Sound, Live
<1> QED BY <1>2, <1>3, <1>4, NoFrames

(* The slot that sea_node_remove_input gives up is empty.                  *)
LEMMA RemoveReturnMem ==
  ASSUME IInv, MemInv, fault = "none", RemoveReturn PROVE MemInv'
<1> DEFINE f == Last(stack)
           n == f.node
           last == inputlen[n] - 1
<1>1. /\ stack # <<>> /\ f.fn \in {"remove_cleared", "remove_filled"} /\ stack' = Front(stack)
      /\ UNCHANGED <<kind, inputs, users>> /\ inputlen' = [inputlen EXCEPT ![n] = @ - 1]
      /\ f.fn = "remove_cleared" => f.slot >= last /\ keeps' = keeps
      /\ f.fn = "remove_filled" => keeps' = [keeps EXCEPT ![f.input] = @ - 1]
  BY DEF RemoveReturn, In
<1>2. /\ Len(stack') = 0 /\ stack[1] = f /\ Len(stack) = 1 /\ n \in Node /\ f.slot \in Slot
      /\ f.fn = "remove_filled" => f.input \in Node /\ keeps[f.input] > 0
      /\ keeps \in [Node -> Nat] /\ inputlen \in [Node -> 0 .. MaxIn]
      /\ \A u \in Node, t \in Slot : ~ Pending(stack, u, t)
      /\ f.fn = "remove_cleared" => inputs[n][f.slot] = Null
      /\ f.fn = "remove_filled" => inputs[n][last] = Null
      /\ f.slot < inputlen[n]
  BY <1>1, OutermostState DEF Holding, SafeAt, OpenAt, Removing
<1>3. Live(n)
  <2>1. inputlen[n] # 0 BY <1>2 DEF Slot
  <2> QED BY <1>2, <2>1 DEF MemInv, Gone
<1>4. Gone'
  <2> SUFFICES ASSUME NEW m \in Node, ~ Live(m)
               PROVE  users[m] = {} /\ keeps'[m] = 0 /\ inputlen'[m] = 0
    BY <1>1 DEF Gone, Live
  <2>1. users[m] = {} /\ keeps[m] = 0 /\ inputlen[m] = 0 BY DEF MemInv, Gone
  <2>2. inputlen'[m] = inputlen[m] BY <1>1, <1>2, <1>3
  <2>3. keeps'[m] = keeps[m] BY <1>1, <1>2, <2>1
  <2> QED BY <2>1, <2>2, <2>3
<1>5. inputs[n][last] = Null
  <2>1. f.fn = "remove_cleared" => f.slot = last BY <1>1, <1>2 DEF Slot
  <2> QED BY <1>1, <1>2, <2>1
<1>6. Unset'
  <2> SUFFICES ASSUME NEW m \in Node, NEW t \in Slot, t >= inputlen'[m]
               PROVE  inputs[m][t] = Null
    BY <1>1 DEF Unset
  <2>1. CASE m = n
    <3>1. inputlen'[n] = last /\ inputlen[n] \in Int BY <1>1, <1>2
    <3>2. t \in Int /\ t >= last BY <2>1, <3>1 DEF Slot
    <3>3. t = last \/ t >= inputlen[n] BY <3>1, <3>2
    <3> QED BY <1>5, <2>1, <3>3 DEF MemInv, Unset
  <2>2. CASE m # n BY <1>1, <1>2, <2>2 DEF MemInv, Unset
  <2> QED BY <2>1, <2>2
<1>7. Sound' BY <1>1, <1>2 DEF MemInv, Sound, Live
<1> QED BY <1>2, <1>4, <1>6, <1>7, NoFrames

(* sea_node_kill for a caller that keeps another node meanwhile.           *)
LEMMA KillMem ==
  ASSUME IInv, MemInv, fault = "none", NEW n \in Node, NEW m \in Node,
         users[n] = {}, keeps'[n] = 0, \A i \in Node : ~ Live(i) => keeps'[i] = 0,
         Kill(n, Append(<<>>, Call("unkeep", n, 0, m))),
         \A u \in Node, t \in Slot : ~ Pending(stack, u, t),
         UNCHANGED <<kind, inputs, inputlen, users>>
  PROVE  MemInv'
<1> DEFINE f == Call("unkeep", n, 0, m)
           g == Call("kill", n, 0, Null)
<1>1. /\ f \in Frame /\ f.fn = "unkeep" /\ g \in Frame /\ g.fn = "kill" /\ g.node = n
  BY GraphAssumption DEF Call, Frame, Functions
<1>2. stack' = Append(Append(<<>>, f), g) BY DEF Kill
<1> HIDE DEF f, g
<1>3. stack' = <<f, g>> /\ Len(stack') = 2 /\ stack'[1] = f /\ stack'[2] = g
  BY <1>1, <1>2, FirstFrames
<1>4. \A i \in 1 .. Len(stack') : i = 1 \/ i = 2 BY <1>3
<1>5. Gone' /\ Unset' /\ Sound' BY DEF MemInv, Gone, Unset, Sound, Live
<1>6. Safe(stack)' BY <1>1, <1>3, <1>4 DEF Safe, SafeAt
<1> QED BY <1>5, <1>6 DEF MemInv

LEMMA SubsumeKillMem ==
  ASSUME IInv, MemInv, fault = "none", SubsumeKill PROVE MemInv'
<1> DEFINE f == Last(stack)
<1>1. /\ stack # <<>> /\ f.fn = "subsume" /\ users[f.node] = {}
      /\ Kill(f.node, Append(Front(stack), Call("unkeep", f.node, 0, f.input)))
      /\ UNCHANGED <<kind, inputs, inputlen, users, keeps>>
  BY DEF SubsumeKill, In
<1>2. /\ f.node \in Node /\ f.input \in Node /\ keeps[f.node] = 0 /\ Front(stack) = <<>>
      /\ \A u \in Node, t \in Slot : ~ Pending(stack, u, t)
  BY <1>1, OutermostState DEF Holding, SafeAt
<1>3. \A i \in Node : ~ Live(i) => keeps'[i] = 0 BY <1>1 DEF MemInv, Gone
<1> QED BY <1>1, <1>2, <1>3, KillMem

(* The calls of the client.                                                *)
LEMMA ClientMem ==
  ASSUME IInv, MemInv, Idle, GuardedCall PROVE MemInv'
<1>1. /\ fault = "none" /\ stack = <<>> /\ Len(stack) = 0
      /\ \A u \in Node, t \in Slot : ~ Pending(stack, u, t)
      /\ kind \in [Node -> Kinds \cup {"Free", "Invalid"}]
      /\ inputlen \in [Node -> 0 .. MaxIn] /\ keeps \in [Node -> Nat]
      /\ inputs \in [Node -> [Slot -> Node \cup {Null}]]
  BY IdleState DEF TypeOK
<1>2. ASSUME UNCHANGED <<kind, keeps, inputlen>> PROVE Lengths
  BY <1>1, <1>2 DEF Lengths, MemInv, Gone, Unset
<1>3. ASSUME NEW n \in Node, NEW k \in Kinds, NEW len \in Lens, Alloc(n, k, len)
      PROVE  MemInv'
  <2>1. /\ kind[n] = "Free" /\ ~ Live(n) /\ stack' = <<>> /\ UNCHANGED <<inputs, users, keeps, stack>>
        /\ kind' = [kind EXCEPT ![n] = k] /\ inputlen' = [inputlen EXCEPT ![n] = len]
    BY <1>1, <1>3, GraphAssumption DEF Alloc, Live
  <2>2. /\ Live(n)' /\ \A m \in Node : m # n => (Live(m)' <=> Live(m)) /\ inputlen'[m] = inputlen[m]
    BY <1>1, <2>1 DEF Live
  <2>3. inputlen[n] = 0 BY <2>1 DEF MemInv, Gone
  <2>4. \A t \in Slot : inputs[n][t] = Null BY <2>3 DEF MemInv, Unset, Slot
  <2>5. Gone' /\ Unset' BY <2>1, <2>2, <2>4 DEF MemInv, Gone, Unset
  <2>6. Sound'
    <3> SUFFICES ASSUME NEW u \in Node, NEW t \in Slot, inputs[u][t] # Null
                 PROVE  kind'[inputs[u][t]] \in Kinds
      BY <2>1 DEF Sound, Live
    <3>1. Live(inputs[u][t]) /\ inputs[u][t] \in Node BY <1>1 DEF MemInv, Sound
    <3> QED BY <2>1, <2>2, <3>1 DEF Live
  <2>7. Len(stack') = 0 BY <1>1, <2>1
  <2> QED BY <2>5, <2>6, <2>7, NoFrames
<1>4. ASSUME NEW n \in Node, KeepNode(n) \/ UnkeepNode(n) PROVE MemInv'
  <2>1. /\ UNCHANGED <<kind, inputs, inputlen, users, stack>>
        /\ \A m \in Node : m # n => keeps'[m] = keeps[m]
    BY <1>1, <1>4 DEF KeepNode, UnkeepNode
  <2>2. Live(n) BY <1>4 DEF KeepNode, UnkeepNode, MemInv, Gone
  <2>3. Gone' BY <2>1, <2>2 DEF MemInv, Gone, Live
  <2>4. Unset' /\ Sound' BY <1>1, <2>1 DEF MemInv, Unset, Sound, Live, Pending
  <2>5. Len(stack') = 0 BY <1>1, <2>1
  <2> QED BY <2>3, <2>4, <2>5, NoFrames
<1>5. ASSUME NEW n \in Node, NEW s \in Slot, Clear(n, s) PROVE MemInv'
  BY <1>2, <1>5, SetMemNone DEF Clear
<1>6. ASSUME NEW n \in Node, NEW m \in Node, NEW s \in Slot, Link(n, m, s) PROVE MemInv'
  BY <1>2, <1>6, SetMemNone DEF Link
<1>7. ASSUME NEW n \in Node, NEW m \in Node, AppendInput(n, m) PROVE MemInv'
  <2> DEFINE s == inputlen[n]
  <2>1. /\ s \in Slot /\ Live(n) /\ Live(m) /\ SetInput(n, m, s, <<>>) /\ UNCHANGED <<kind, keeps>>
        /\ inputlen' = [inputlen EXCEPT ![n] = s + 1] /\ s + 1 \in 0 .. MaxIn
    BY <1>1, <1>7, GraphAssumption DEF AppendInput, Slot
  <2>2. inputs[n][s] = Null BY <1>1, <2>1 DEF MemInv, Unset, Slot
  <2>3. Lengths
    <3>1. inputlen' \in [Node -> 0 .. MaxIn] BY <1>1, <2>1
    <3>2. \A i \in Node : i # n => inputlen'[i] = inputlen[i] BY <1>1, <2>1
    <3>3. \A t \in Slot : t >= inputlen'[n] => t >= inputlen[n] BY <1>1, <2>1 DEF Slot
    <3> QED BY <2>1, <3>1, <3>2, <3>3 DEF Lengths, MemInv, Gone, Unset
  <2>4. s < inputlen'[n] BY <1>1, <2>1
  <2> HIDE DEF s
  <2> QED BY <2>1, <2>2, <2>3, <2>4, SetMemNone
<1>8. ASSUME NEW n \in Node, NEW m \in Node, SetCtrl(n, m) PROVE MemInv'
  <2> DEFINE c == Call("unkeep", n, 0, m)
             k == <<c>>
  <2>1. /\ Live(m) /\ 0 < inputlen[n] /\ SetInput(n, m, 0, k) /\ UNCHANGED <<kind, inputlen>>
        /\ keeps' = [keeps EXCEPT ![m] = @ + 1]
    BY <1>8 DEF SetCtrl
  <2>2. c \in Frame /\ c.fn = "unkeep" /\ 0 \in Slot
    BY GraphAssumption DEF Call, Frame, Functions, Slot
  <2>3. keeps'[m] > 0 /\ \A i \in Node : i # m => keeps'[i] = keeps[i] BY <1>1, <2>1
  <2>4. Lengths BY <1>1, <2>1, <2>3 DEF Lengths, MemInv, Gone, Unset
  <2> HIDE DEF c
  <2>5. k \in Seq(Frame) /\ Len(k) = 1 /\ k[1] = c BY <2>2, FirstFrames
  <2> HIDE DEF k
  <2>6. CallerAt(n, m, 0, k, 1) BY <2>2, <2>5 DEF CallerAt
  <2> QED BY <1>1, <2>1, <2>2, <2>3, <2>4, <2>5, <2>6, SetMemOne
<1>9. ASSUME NEW n \in Node, NEW s \in Slot, RemoveInput(n, s) PROVE MemInv'
  <2> DEFINE c == Call("remove_cleared", n, s, Null)
             k == <<c>>
  <2>1. SetInput(n, Null, s, k) /\ UNCHANGED <<kind, inputlen, keeps>>
    BY <1>9 DEF RemoveInput
  <2>2. c \in Frame /\ c.fn = "remove_cleared" /\ c.node = n /\ c.slot = s
    BY GraphAssumption DEF Call, Frame, Functions, Slot
  <2>3. Lengths BY <1>2, <2>1
  <2> HIDE DEF c
  <2>4. k \in Seq(Frame) /\ Len(k) = 1 /\ k[1] = c BY <2>2, FirstFrames
  <2> HIDE DEF k
  <2>5. CallerAt(n, Null, s, k, 1) BY <2>2, <2>4 DEF CallerAt
  <2> QED BY <1>1, <2>1, <2>2, <2>3, <2>4, <2>5, SetMemOne
<1>10. ASSUME NEW n \in Node, NEW m \in Node, Subsume(n, m) PROVE MemInv'
  <2> DEFINE c == Call("subsume", n, 0, m)
  <2>1. /\ Live(m) /\ n # m /\ keeps[n] = 0 /\ keeps' = [keeps EXCEPT ![m] = @ + 1]
        /\ stack' = <<c>> /\ UNCHANGED <<kind, inputs, inputlen, users>>
    BY <1>10 DEF Subsume
  <2>2. c \in Frame /\ c.fn = "subsume" /\ c.node = n
    BY GraphAssumption DEF Call, Frame, Functions, Slot
  <2>3. \A i \in Node : i # m => keeps'[i] = keeps[i] BY <1>1, <2>1
  <2>4. Gone' /\ Unset' /\ Sound'
    BY <1>1, <2>1, <2>3 DEF MemInv, Gone, Unset, Sound, Live
  <2> HIDE DEF c
  <2>5. Len(stack') = 1 /\ stack'[1] = c BY <2>1, <2>2, FirstFrames
  <2>6. \A i \in 1 .. Len(stack') : i = 1 BY <2>5
  <2>7. Safe(stack)' BY <2>1, <2>2, <2>3, <2>5, <2>6 DEF Safe, SafeAt
  <2> QED BY <2>4, <2>7 DEF MemInv
<1>11. ASSUME NEW n \in Node, NEW m \in Node, DeadCodeElim(n, m) PROVE MemInv'
  <2>1. /\ Live(m) /\ n # m /\ users[n] = {} /\ keeps[n] = 0
        /\ keeps' = [keeps EXCEPT ![m] = @ + 1]
        /\ Kill(n, <<Call("unkeep", n, 0, m)>>) /\ UNCHANGED <<kind, inputs, inputlen, users>>
    BY <1>11 DEF DeadCodeElim, Unused
  <2>2. Append(<<>>, Call("unkeep", n, 0, m)) = <<Call("unkeep", n, 0, m)>> OBVIOUS
  <2>3. \A i \in Node : i # m => keeps'[i] = keeps[i] BY <1>1, <2>1
  <2>4. keeps'[n] = 0 /\ \A i \in Node : ~ Live(i) => keeps'[i] = 0
    BY <2>1, <2>3 DEF MemInv, Gone
  <2> QED BY <1>1, <2>1, <2>2, <2>4, KillMem
<1> QED
  BY <1>3, <1>4, <1>5, <1>6, <1>7, <1>8, <1>9, <1>10, <1>11 DEF GuardedCall

(* The invariant holds as long as every call holds on to what it stores.    *)
LEMMA GuardedStep == IInv /\ MemInv /\ [GuardedNext]_vars => MemInv'
<1> SUFFICES ASSUME IInv, MemInv, [GuardedNext]_vars PROVE MemInv' OBVIOUS
<1>1. CASE Return
  <2>1. fault = "none"
    BY <1>1 DEF Return, SetInputReturn, KillInput, KillReturn, Unkeep, SubsumeUser,
                SubsumeKill, RemoveMove, RemoveFill, RemoveReturn, In
  <2> QED
    BY <1>1, <2>1, SetInputReturnMem, KillInputMem, KillReturnMem, UnkeepMem, SubsumeUserMem,
       SubsumeKillMem, RemoveMoveMem, RemoveFillMem, RemoveReturnMem DEF Return
<1>2. CASE GuardedCall
  <2>1. Idle
    BY <1>2 DEF GuardedCall, Alloc, Clear, RemoveInput, AppendInput, SetCtrl, Subsume,
                DeadCodeElim, Link, KeepNode, UnkeepNode
  <2> QED BY <1>2, <2>1, ClientMem
<1>3. CASE UNCHANGED vars
  BY <1>3 DEF vars, MemInv, Gone, Unset, Sound, Live, Pending, Safe, SafeAt
<1> QED BY <1>1, <1>2, <1>3 DEF GuardedNext

THEOREM GuardedInvariance == GuardedSpec => [](IInv /\ MemInv)
<1>1. Init => IInv /\ MemInv
  <2> SUFFICES ASSUME Init PROVE MemInv BY InitInv
  <2>1. /\ \A m \in Node : users[m] = {} /\ keeps[m] = 0 /\ inputlen[m] = 0
        /\ \A m \in Node, t \in Slot : inputs[m][t] = Null
        /\ stack = <<>> /\ Len(stack) = 0
    BY DEF Init
  <2>2. 1 .. Len(stack) = {} BY <2>1
  <2> QED BY <2>1, <2>2 DEF MemInv, Gone, Unset, Sound, Safe
<1>2. IInv /\ MemInv /\ [GuardedNext]_vars => (IInv /\ MemInv)'
  BY StepInv, GuardedStep DEF Next
<1> QED BY <1>1, <1>2, PTL DEF GuardedSpec

(* Memory safety: while the client's calls keep the node they store, no     *)
(* slot of any node holds one that sea_node_kill has freed, except the slot *)
(* whose old value is being killed right now.                              *)
THEOREM NothingDangles == GuardedSpec => []NoDangling
<1>1. MemInv => NoDangling BY DEF MemInv, Sound, NoDangling
<1> QED BY <1>1, GuardedInvariance, PTL

(* sea_node_keep does what it is for: no step of the recursive kills        *)
(* changes the kind of a node that has a keep entry.                       *)
THEOREM KeptNodesSurvive == GuardedSpec => KeptSurvives
<1>1. ASSUME IInv, MemInv, GuardedNext, NEW m \in Node, keeps[m] > 0
      PROVE  kind'[m] = kind[m]
  <2>1. CASE Return
    <3>1. ASSUME KillReturn PROVE kind'[m] = kind[m]
      <4>1. /\ stack # <<>> /\ fault = "none" /\ Last(stack).fn = "kill"
            /\ kind' = [kind EXCEPT ![Last(stack).node] = "Invalid"]
        BY <3>1 DEF KillReturn, In
      <4>2. Len(stack) \in Nat \ {0} /\ Last(stack) = stack[Len(stack)] /\ TypeOK
        BY <1>1, <4>1, Top
      <4>3. keeps[Last(stack).node] = 0
        <5>1. Len(stack) \in 1 .. Len(stack) BY <4>2
        <5>2. SafeAt(stack, Len(stack)) BY <1>1, <4>1, <5>1 DEF MemInv, Safe
        <5> QED BY <4>1, <4>2, <5>2 DEF SafeAt
      <4>4. m # Last(stack).node BY <1>1, <4>3
      <4> QED BY <1>1, <4>1, <4>2, <4>4 DEF TypeOK
    <3>2. KillReturn \/ kind' = kind
      BY <2>1 DEF Return, SetInputReturn, KillInput, Unkeep, SubsumeUser, SubsumeKill,
                  RemoveMove, RemoveFill, RemoveReturn
    <3> QED BY <3>1, <3>2
  <2>2. CASE GuardedCall
    <3>1. ASSUME NEW n \in Node, NEW k \in Kinds, NEW len \in Lens, Alloc(n, k, len)
          PROVE  kind'[m] = kind[m]
      <4>1. kind[n] = "Free" /\ kind' = [kind EXCEPT ![n] = k] BY <3>1 DEF Alloc
      <4>2. ~ Live(n) BY <4>1, GraphAssumption DEF Live
      <4>3. m # n BY <1>1, <4>2 DEF MemInv, Gone
      <4> QED BY <1>1, <4>1, <4>3 DEF IInv, TypeOK
    <3>2. kind' = kind \/ \E n \in Node, k \in Kinds, len \in Lens : Alloc(n, k, len)
      BY <2>2 DEF GuardedCall, Clear, RemoveInput, AppendInput, SetCtrl, Subsume,
                  DeadCodeElim, Link, KeepNode, UnkeepNode
    <3> QED BY <3>1, <3>2
  <2> QED BY <1>1, <2>1, <2>2 DEF GuardedNext
<1> DEFINE Kept == \A n \in Node : keeps[n] > 0 => kind'[n] = kind[n]
<1>2. IInv /\ MemInv /\ [GuardedNext]_vars => [Kept]_vars
  BY <1>1
<1>3. [][Kept]_vars => KeptSurvives BY PTL DEF KeptSurvives
<1>4. GuardedSpec => [][Kept]_vars
  <2> HIDE DEF Kept
  <2> QED BY <1>2, GuardedInvariance, PTL DEF GuardedSpec
<1> QED BY <1>3, <1>4, PTL
=============================================================================
