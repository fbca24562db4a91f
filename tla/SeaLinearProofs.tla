-------------------------- MODULE SeaLinearProofs --------------------------
(***************************************************************************)
(* Proofs about SeaLinear for every number of parameters, every schedule    *)
(* and every limit of the allocator: live ranges cover their uses, colours  *)
(* are ones the machine can write, and where they do not clash the code     *)
(* returns the value that the schedule returns.                            *)
(***************************************************************************)
EXTENDS SeaLinear, TLAPS

Instr == [op : Operations \cup {"Arg", "Ret"}, ins : Seq(Nat)]

Arity(op) ==
  IF op = "Arg" THEN 0 ELSE IF op \in {"AddI", "CmpEqI", "Ret"} THEN 1 ELSE 2

(* The parameters come first and the return last; a node follows its inputs. *)
InOrder ==
  /\ sched \in Seq(Instr) /\ Len(sched) \in Params .. MaxSched
  /\ \A n \in Nodes :
       /\ Len(sched[n].ins) = Arity(sched[n].op)
       /\ \A s \in 1 .. Arity(sched[n].op) : sched[n].ins[s] \in 1 .. n - 1
       /\ sched[n].op = "Arg" <=> n <= Params
       /\ sched[n].op = "Ret" <=> phase # "schedule" /\ n = Len(sched)
       /\ sched[n].op \in Ops \cup {"Arg", "Ret"}

(* How far the passes are: which nodes have a range and which a colour.     *)
Progress ==
  /\ at \in 1 .. Len(sched)
  /\ phase \in {"schedule", "intervals", "colours", "encode", "done"}
  /\ phase = "schedule" => at = 1
  /\ Ranges = CASE phase = "schedule" -> {}
                [] phase = "intervals" -> 1 .. at - 1
                [] OTHER -> 1 .. Len(sched) - 1
  /\ active \subseteq Ranges
  /\ DOMAIN colour = Nodes /\ Len(colour) = Len(sched) /\ colour \in Seq(Reg \cup {NoReg})
  /\ fault \in {"none", "spill"}

(* A range reaches from its node to the last use that has been seen.        *)
Seen == IF phase = "intervals" THEN at - 1 ELSE Len(sched)
Covered ==
  \A n \in Ranges :
    /\ lastuse[n] \in n .. Seen
    /\ \A u \in Nodes, s \in {1, 2} :
         u <= Seen /\ s \in DOMAIN sched[u].ins /\ sched[u].ins[s] = n => u <= lastuse[n]

(* A node that reg_alloc has passed has a colour it can be written in.      *)
Coloring ==
  \A n \in Ranges :
    Coloured \/ (phase = "colours" /\ n < at) => colour[n] \in OutMask(n)

Shape == InOrder /\ Progress /\ Covered /\ Coloring

(* Where no two ranges that live share a register, a value that is computed *)
(* and still used is in its register. Parameters are there from the start.  *)
Good == NoShare /\ SecondSafe
Waiting(n) ==
  /\ sched[n].op = "Arg" \/ n < at
  /\ phase = "encode" /\ lastuse[n] >= at
Params0 == \A k \in 1 .. Params : regs[ArgReg[k]] = k
RegsOK == regs \in [Reg -> {Junk} \cup Nodes]
Holding ==
  /\ phase \notin {"encode", "done"} => Params0
  /\ Good => \A n \in Ranges : Waiting(n) => regs[colour[n]] = n
  /\ CodeRight

IInv == Shape /\ RegsOK /\ Holding
-----------------------------------------------------------------------------
(* The least register of a set is in the set.                              *)
LEMMA MinReg ==
  ASSUME NEW S, S \subseteq Reg, S # {}
  PROVE  Min(S) \in S
<1>1. \E x \in S : \A y \in S : x <= y
  <2>1. \A x \in S : x \in {0, 1, 2, 3, 6, 7} BY DEF Reg, General
  <2> QED BY <2>1
<1> QED BY <1>1 DEF Min

(* The registers of the calling convention, and those an operation writes.  *)
LEMMA Masks ==
  ASSUME NEW n \in Nodes, InOrder
  PROVE  /\ OutMask(n) \subseteq Reg /\ OutMask(n) # {}
         /\ Mask(n) \subseteq OutMask(n) /\ Mask(n) # {}
         /\ sched[n].op = "Arg" => OutMask(n) = {ArgReg[n]} /\ n \in 1 .. Params
<1>1. \A k \in 1 .. 4 : ArgReg[k] \in Reg BY DEF ArgReg, Reg, General
<1>2. sched[n].op = "Arg" => n \in 1 .. 4 BY LinearAssumption DEF InOrder, Nodes, ArgReg
<1>3. OutMask(n) \subseteq Reg /\ OutMask(n) # {}
  BY <1>1, <1>2 DEF OutMask, Reg, General
<1>4. Wanted(n) \subseteq OutMask(n) BY DEF Wanted
<1>5. sched[n].op = "Arg" => n \in 1 .. Params BY DEF InOrder, Nodes
<1> QED BY <1>3, <1>4, <1>5 DEF Mask, OutMask

(* The slots of a node.                                                    *)
LEMMA Inputs ==
  ASSUME InOrder, NEW n \in Nodes
  PROVE  /\ DOMAIN sched[n].ins = 1 .. Len(sched[n].ins)
         /\ \A s \in DOMAIN sched[n].ins : sched[n].ins[s] \in 1 .. n - 1
<1>1. sched[n] \in Instr BY DEF InOrder, Nodes
<1>2. sched[n].ins \in Seq(Nat) BY <1>1 DEF Instr
<1> QED BY <1>2 DEF InOrder
-----------------------------------------------------------------------------
LEMMA InitShape == Init => Shape
<1> SUFFICES ASSUME Init PROVE Shape OBVIOUS
<1>1. /\ sched \in Seq(Instr) /\ Len(sched) = Params /\ Nodes = 1 .. Params
      /\ \A n \in Nodes : sched[n] = [op |-> "Arg", ins |-> <<>>]
  BY LinearAssumption DEF Init, Instr, Nodes
<1>2. InOrder BY <1>1, LinearAssumption DEF Init, InOrder, Arity
<1>3. Progress
  <2>1. Params \in 1 .. 4 BY LinearAssumption DEF ArgReg
  <2>2. colour \in Seq(Reg \cup {NoReg}) /\ Len(colour) = Params /\ DOMAIN colour = 1 .. Params
    BY <2>1 DEF Init
  <2> QED BY <1>1, <2>1, <2>2 DEF Init, Progress, Ranges
<1>4. Covered /\ Coloring BY DEF Init, Covered, Coloring, Ranges
<1> QED BY <1>2, <1>3, <1>4 DEF Shape

(* Placing a node leaves the others and their inputs as they are.          *)
LEMMA PlaceShape ==
  ASSUME Shape, NEW op \in Ops \cup {"Ret"}, NEW ins \in Seq(Nodes), Place(op, ins),
         Len(ins) = Arity(op), Len(sched) < MaxSched, at' = at,
         op = "Ret" <=> phase' # "schedule", phase' \in {"schedule", "intervals"},
         UNCHANGED <<lastuse, active, fault>>
  PROVE  Shape'
<1>1. /\ sched \in Seq(Instr) /\ Len(sched) \in Nat /\ Nodes = 1 .. Len(sched)
      /\ phase = "schedule" /\ at = 1 /\ Ranges = {}
  BY LinearAssumption DEF Shape, InOrder, Progress, Nodes, Place
<1>2. op \in Operations \cup {"Ret"} /\ op # "Arg"
  BY LinearAssumption DEF Operations
<1>3. ins \in Seq(Nat) /\ \A s \in 1 .. Len(ins) : ins[s] \in 1 .. Len(sched)
  BY <1>1
<1>4. [op |-> op, ins |-> ins] \in Instr BY <1>2, <1>3 DEF Instr
<1>5. /\ sched' \in Seq(Instr) /\ Len(sched') = Len(sched) + 1
      /\ Nodes' = 1 .. Len(sched) + 1
      /\ \A n \in Nodes : sched'[n] = sched[n]
      /\ sched'[Len(sched) + 1] = [op |-> op, ins |-> ins]
  BY <1>1, <1>4 DEF Place, Nodes
<1>6. InOrder'
  <2>1. Len(sched)' \in Params .. MaxSched
    BY <1>1, <1>5, LinearAssumption DEF Shape, InOrder
  <2> SUFFICES ASSUME NEW n \in Nodes'
               PROVE /\ Len(sched'[n].ins) = Arity(sched'[n].op)
                     /\ \A s \in 1 .. Arity(sched'[n].op) : sched'[n].ins[s] \in 1 .. n - 1
                     /\ sched'[n].op = "Arg" <=> n <= Params
                     /\ sched'[n].op = "Ret" <=> phase' # "schedule" /\ n = Len(sched)'
                     /\ sched'[n].op \in Ops \cup {"Arg", "Ret"}
    BY <1>5, <2>1 DEF InOrder
  <2>2. CASE n \in Nodes
    BY <2>2, <1>1, <1>5 DEF Shape, InOrder
  <2>3. CASE n = Len(sched) + 1
    <3>1. sched'[n].op = op /\ sched'[n].ins = ins BY <2>3, <1>5
    <3>2. ~ n <= Params BY <2>3, <1>1, LinearAssumption DEF Shape, InOrder
    <3> QED BY <3>1, <3>2, <2>3, <1>1, <1>2, <1>3, <1>5
  <2> QED BY <2>2, <2>3, <1>1, <1>5
<1>7. Progress'
  <2>1. /\ colour' \in Seq(Reg \cup {NoReg}) /\ Len(colour') = Len(sched')
        /\ DOMAIN colour' = Nodes'
    BY <1>1, <1>5 DEF Shape, Progress, Place
  <2>2. Ranges' = {} /\ active' \subseteq Ranges' BY <1>1 DEF Shape, Progress, Ranges
  <2> QED BY <1>1, <1>5, <2>1, <2>2 DEF Shape, Progress
<1>8. Covered' /\ Coloring' BY <1>1 DEF Covered, Coloring, Ranges
<1> QED BY <1>6, <1>7, <1>8 DEF Shape

LEMMA ScheduleShape == ASSUME Shape, Schedule PROVE Shape'
<1>1. PICK op \in Ops, a \in Nodes, b \in Nodes :
         Place(op, IF op \in {"AddI", "CmpEqI"} THEN <<a>> ELSE <<a, b>>)
  BY DEF Schedule
<1> DEFINE ins == IF op \in {"AddI", "CmpEqI"} THEN <<a>> ELSE <<a, b>>
<1>2. op \in Operations BY LinearAssumption
<1>3. phase = "schedule" /\ phase' = "schedule" BY <1>1 DEF Schedule, Place
<1>4. Len(sched) < MaxSched
  BY LinearAssumption DEF Schedule, Shape, InOrder, ArgReg
<1>5. ins \in Seq(Nodes) /\ Len(ins) = Arity(op)
  BY <1>2 DEF Arity, Operations
<1>6. op # "Ret" BY <1>2 DEF Operations
<1>7. at' = at /\ UNCHANGED <<lastuse, active, fault>> BY DEF Schedule
<1> HIDE DEF ins
<1>8. Place(op, ins) BY <1>1 DEF ins
<1> QED BY <1>3, <1>4, <1>5, <1>6, <1>7, <1>8, PlaceShape

LEMMA ScheduleRetShape == ASSUME Shape, ScheduleRet PROVE Shape'
<1>1. PICK a \in Nodes : Place("Ret", <<a>>) BY DEF ScheduleRet
<1>2. <<a>> \in Seq(Nodes) /\ Len(<<a>>) = Arity("Ret") BY DEF Arity
<1>3. /\ phase' = "intervals" /\ at' = at /\ Len(sched) < MaxSched
      /\ UNCHANGED <<lastuse, active, fault>>
  BY DEF ScheduleRet
<1> QED BY <1>1, <1>2, <1>3, PlaceShape

(* The masks depend on the schedule alone.                                 *)
LEMMA SameSched ==
  ASSUME UNCHANGED sched
  PROVE  /\ Nodes' = Nodes
         /\ \A n \in Nodes : OutMask(n)' = OutMask(n)
         /\ \A n \in Nodes : Uses(n)' = Uses(n)
BY DEF Nodes, OutMask, Uses

LEMMA BuildIntervalShape == ASSUME Shape, BuildInterval PROVE Shape'
<1>1. /\ Len(sched) \in Nat /\ Nodes = 1 .. Len(sched) /\ at \in Nodes
      /\ phase = "intervals" /\ Ranges = 1 .. at - 1 /\ UNCHANGED sched
      /\ Nodes' = Nodes /\ UNCHANGED <<colour, active, regs, fault>>
  BY SameSched DEF Shape, InOrder, Progress, Nodes, BuildInterval
<1>2. NeedsReg(at) <=> at # Len(sched)
  BY <1>1 DEF NeedsReg, Shape, InOrder
<1>3. /\ at < Len(sched) => at' = at + 1 /\ phase' = "intervals"
      /\ at = Len(sched) => at' = 1 /\ phase' = "colours"
  BY <1>1 DEF BuildInterval, Loop
<1>4. /\ Ranges' = Ranges \cup (IF NeedsReg(at) THEN {at} ELSE {})
      /\ \A n \in Ranges' : lastuse'[n] = IF n = at \/ UsedHere(n) THEN at ELSE lastuse[n]
  BY DEF BuildInterval, Ranges
<1>5. /\ at < Len(sched) => Ranges' = 1 .. at
      /\ at = Len(sched) => Ranges' = 1 .. Len(sched) - 1
  BY <1>1, <1>2, <1>4
<1>6. Seen = at - 1 /\ Seen' = at
  BY <1>1, <1>3 DEF Seen
<1>7. InOrder'
  BY <1>1, <1>3 DEF Shape, InOrder
<1>8. Progress'
  <2>1. at' \in 1 .. Len(sched') BY <1>1, <1>3
  <2>2. active' \subseteq Ranges' BY <1>1, <1>4 DEF Shape, Progress
  <2>3. Ranges' = CASE phase' = "intervals" -> 1 .. at' - 1
                    [] OTHER -> 1 .. Len(sched') - 1
    BY <1>1, <1>3, <1>5
  <2>4. phase' \in {"intervals", "colours"} BY <1>1, <1>3
  <2> QED BY <1>1, <2>1, <2>2, <2>3, <2>4 DEF Shape, Progress
<1>9. Covered'
  <2> SUFFICES ASSUME NEW n \in Ranges'
               PROVE /\ lastuse'[n] \in n .. at
                     /\ \A u \in Nodes, s \in {1, 2} :
                          u <= at /\ s \in DOMAIN sched[u].ins /\ sched[u].ins[s] = n
                            => u <= lastuse'[n]
    BY <1>1, <1>6 DEF Covered
  <2>1. n \in 1 .. at BY <1>1, <1>5
  <2>2. CASE n = at \/ UsedHere(n) BY <1>1, <1>4, <2>1, <2>2
  <2>3. CASE ~(n = at \/ UsedHere(n))
    <3>1. n \in Ranges /\ lastuse'[n] = lastuse[n] BY <1>1, <1>4, <2>1, <2>3
    <3>2. lastuse[n] \in n .. at - 1 BY <1>6, <3>1 DEF Shape, Covered
    <3>3. ASSUME NEW u \in Nodes, NEW s \in {1, 2}, u <= at,
                 s \in DOMAIN sched[u].ins, sched[u].ins[s] = n
          PROVE  u <= lastuse[n]
      <4>1. u # at BY <2>3, <3>3 DEF UsedHere
      <4>2. u <= Seen BY <1>1, <1>6, <3>3, <4>1
      <4> QED BY <3>1, <3>3, <4>2 DEF Shape, Covered
    <3> QED BY <1>1, <3>1, <3>2, <3>3
  <2> QED BY <2>2, <2>3
<1>10. Coloring' BY <1>1, <1>3, <1>5 DEF Coloring, Coloured
<1> QED BY <1>7, <1>8, <1>9, <1>10 DEF Shape

LEMMA ColourShape == ASSUME Shape, Colour PROVE Shape'
<1>1. /\ Len(sched) \in Nat /\ Nodes = 1 .. Len(sched) /\ at \in Nodes
      /\ phase = "colours" /\ Ranges = 1 .. Len(sched) - 1
      /\ UNCHANGED <<sched, lastuse, regs>>
      /\ Nodes' = Nodes /\ Ranges' = Ranges
  BY SameSched DEF Shape, InOrder, Progress, Nodes, Colour, Ranges
<1>2. \A n \in Nodes : OutMask(n)' = OutMask(n) BY <1>1, SameSched
<1>3. \/ UNCHANGED <<at, phase>>
      \/ at < Len(sched) /\ at' = at + 1 /\ phase' = phase
      \/ at = Len(sched) /\ at' = 1 /\ phase' = "encode"
  BY <1>1 DEF Colour, Loop
<1>4. \/ UNCHANGED colour /\ (UNCHANGED <<at, phase>> \/ at \notin Ranges)
      \/ at \in Ranges /\ colour' = [colour EXCEPT ![at] = Min(Mask(at))]
  BY DEF Colour
<1>5. active' \subseteq Ranges /\ fault' \in {"none", "spill"}
  BY <1>1 DEF Colour, Shape, Progress
<1>6. Min(Mask(at)) \in OutMask(at) /\ OutMask(at) \subseteq Reg
  BY <1>1, Masks, MinReg DEF Shape
<1>7. colour' \in Seq(Reg \cup {NoReg}) /\ Len(colour') = Len(colour) /\ DOMAIN colour' = Nodes
  BY <1>1, <1>4, <1>6 DEF Shape, Progress
<1>8. InOrder' /\ Progress'
  BY <1>1, <1>3, <1>5, <1>7 DEF Shape, InOrder, Progress
<1>9. Covered'
  BY <1>1, <1>3 DEF Shape, Covered, Seen
<1>10. Coloring'
  <2> SUFFICES ASSUME NEW n \in Ranges, Coloured' \/ (phase' = "colours" /\ n < at')
               PROVE  colour'[n] \in OutMask(n)
    BY <1>1, <1>2 DEF Coloring
  <2>1. n \in Nodes /\ n < Len(sched) BY <1>1
  <2>2. CASE n = at
    BY <1>1, <1>3, <1>4, <1>6, <2>1, <2>2 DEF Shape, Progress, Coloured
  <2>3. CASE n # at
    <3>1. colour'[n] = colour[n] BY <1>1, <1>4, <2>3 DEF Shape, Progress
    <3>2. n < at BY <1>1, <1>3, <2>1, <2>3 DEF Coloured
    <3> QED BY <1>1, <3>1, <3>2 DEF Shape, Coloring
  <2> QED BY <2>2, <2>3
<1> QED BY <1>8, <1>9, <1>10 DEF Shape

LEMMA EncodeShape == ASSUME Shape, Encode PROVE Shape'
<1>1. /\ Len(sched) \in Nat /\ Nodes = 1 .. Len(sched)
      /\ phase = "encode" /\ at \in Nodes /\ phase' \in {"encode", "done"}
      /\ at' \in Nodes /\ UNCHANGED <<sched, lastuse, colour, active, fault>>
      /\ Nodes' = Nodes /\ Ranges' = Ranges
      /\ \A n \in Nodes : OutMask(n)' = OutMask(n)
  BY SameSched DEF Shape, InOrder, Progress, Nodes, Ranges, Encode, Loop
<1>2. InOrder' /\ Progress' BY <1>1 DEF Shape, InOrder, Progress
<1>3. Covered' BY <1>1 DEF Shape, Covered, Seen
<1>4. Coloring' BY <1>1 DEF Shape, InOrder, Progress, Coloring, Coloured
<1> QED BY <1>2, <1>3, <1>4 DEF Shape

LEMMA NextShape == Shape /\ [Next]_vars => Shape'
<1> SUFFICES ASSUME Shape, [Next]_vars PROVE Shape' OBVIOUS
<1>1. CASE UNCHANGED vars
  BY <1>1 DEF vars, Shape, InOrder, Progress, Covered, Coloring, Seen, Coloured, Nodes,
              Ranges, OutMask
<1> QED
  BY <1>1, ScheduleShape, ScheduleRetShape, BuildIntervalShape, ColourShape, EncodeShape
  DEF Next

(* What a node, a range and a colour may be, for every operation set: the   *)
(* invariant of the passes that the register contents do not enter.        *)
THEOREM ShapeInvariant == Spec => []Shape
<1>1. Init => Shape BY InitShape
<1>2. Shape /\ [Next]_vars => Shape' BY NextShape
<1> QED BY <1>1, <1>2, PTL DEF Spec
-----------------------------------------------------------------------------
(* The parameters come in different registers.                             *)
LEMMA ArgRegs ==
  /\ Params \in 1 .. 4
  /\ \A k \in 1 .. 4 : ArgReg[k] \in Reg
  /\ \A j, k \in 1 .. 4 : ArgReg[j] = ArgReg[k] => j = k
BY LinearAssumption DEF ArgReg, Reg, General

(* A move keeps the contents of the registers nodes that are there or Junk. *)
LEMMA MovedType ==
  ASSUME RegsOK, NEW dst \in Reg, NEW from \in Reg
  PROVE  Moved(dst, from) \in [Reg -> {Junk} \cup Nodes]
BY DEF RegsOK, Moved

(* The colours the encoder reads are registers.                            *)
LEMMA EncodeColours ==
  ASSUME Shape, Coloured
  PROVE  /\ \A n \in Ranges : colour[n] \in Reg
         /\ \A n \in Nodes : sched[n].op # "Ret" => n \in Ranges /\ colour[n] \in Reg
         /\ \A n \in Nodes : \A s \in 1 .. Len(sched[n].ins) :
              /\ sched[n].ins[s] \in Ranges /\ sched[n].ins[s] < n
              /\ colour[sched[n].ins[s]] \in Reg
<1>1. /\ Len(sched) \in Nat /\ Nodes = 1 .. Len(sched) /\ Ranges = 1 .. Len(sched) - 1
      /\ \A n \in Nodes : sched[n].op = "Ret" <=> n = Len(sched)
  BY DEF Shape, InOrder, Progress, Nodes, Coloured
<1>2. \A n \in Ranges : colour[n] \in Reg
  BY <1>1, Masks DEF Shape, Coloring
<1>3. \A n \in Nodes : \A s \in 1 .. Len(sched[n].ins) : sched[n].ins[s] \in 1 .. n - 1
  BY DEF Shape, InOrder
<1> QED BY <1>1, <1>2, <1>3

LEMMA EncodeRegs == ASSUME Shape, RegsOK, Encode PROVE RegsOK'
<1> DEFINE op == sched[at].op
           ins == sched[at].ins
           r == MoveFirst(at, ins)
<1>1. /\ at \in Nodes /\ phase = "encode" /\ Coloured /\ Nodes' = Nodes
      /\ Len(ins) = Arity(op) /\ op \in Operations \cup {"Arg", "Ret"}
  BY SameSched, LinearAssumption
  DEF Shape, InOrder, Progress, Encode, Coloured, Nodes
<1>2. /\ op # "Ret" => colour[at] \in Reg
      /\ \A s \in 1 .. Len(ins) : colour[ins[s]] \in Reg
  BY <1>1, EncodeColours
<1>3. op # "Arg" => Len(ins) >= 1 BY <1>1 DEF Arity
<1>4. op # "Arg" => colour[ins[1]] \in Reg
  BY <1>1, <1>2, <1>3 DEF Arity
<1>5. r \in [Reg -> {Junk} \cup Nodes]
  BY <1>1, <1>2, <1>4, MovedType DEF MoveFirst, TwoAddress, RegsOK
<1>6. \/ op = "Arg" /\ regs' = regs
      \/ op = "Ret" /\ regs' = Moved(RAX, colour[ins[1]])
      \/ \E reg, value : value \in {at, Junk} /\ regs' = [r EXCEPT ![reg] = value]
  <2> HIDE DEF r
  <2>1. CASE op = "Arg" BY <2>1 DEF Encode
  <2>2. CASE op = "Ret" BY <2>2 DEF Encode
  <2>3. CASE op = "AddI" BY <2>3 DEF Encode, r
  <2>4. CASE op = "Add" BY <2>4 DEF Encode, r
  <2>5. CASE op = "Mul" BY <2>5 DEF Encode, r
  <2>6. CASE op = "CmpEqI" BY <2>6 DEF Encode, r
  <2> QED BY <1>1, <2>1, <2>2, <2>3, <2>4, <2>5, <2>6 DEF Operations
<1>7. RAX \in Reg BY DEF RAX, Reg, General
<1> HIDE DEF r, op, ins
<1>8. CASE op = "Arg" /\ regs' = regs BY <1>1, <1>8 DEF RegsOK
<1>9. CASE op = "Ret" /\ regs' = Moved(RAX, colour[ins[1]])
  BY <1>1, <1>4, <1>7, <1>9, MovedType DEF RegsOK
<1>10. CASE \E reg, value : value \in {at, Junk} /\ regs' = [r EXCEPT ![reg] = value]
  <2> PICK reg, value : value \in {at, Junk} /\ regs' = [r EXCEPT ![reg] = value] BY <1>10
  <2> QED BY <1>1, <1>5 DEF RegsOK
<1> QED BY <1>6, <1>8, <1>9, <1>10

LEMMA NextRegs == Shape /\ RegsOK /\ [Next]_vars => RegsOK'
<1> SUFFICES ASSUME Shape, RegsOK, [Next]_vars PROVE RegsOK' OBVIOUS
<1>1. CASE Encode BY <1>1, EncodeRegs
<1>2. ASSUME UNCHANGED regs, Nodes \subseteq Nodes' PROVE RegsOK'
  BY <1>2 DEF RegsOK
<1>3. CASE Schedule \/ ScheduleRet
  <2>1. PICK op, ins : Place(op, ins) BY <1>3 DEF Schedule, ScheduleRet
  <2>2. Nodes \subseteq Nodes'
    BY <2>1 DEF Place, Nodes, Shape, InOrder
  <2> QED BY <1>2, <1>3, <2>2 DEF Schedule, ScheduleRet
<1>4. CASE BuildInterval \/ Colour \/ UNCHANGED vars
  <2>1. UNCHANGED <<sched, regs>> BY <1>4 DEF BuildInterval, Colour, vars
  <2> QED BY <1>2, <2>1, SameSched
<1> QED BY <1>1, <1>3, <1>4 DEF Next

LEMMA InitRegs == Init => RegsOK
<1> SUFFICES ASSUME Init PROVE RegsOK OBVIOUS
<1>1. Nodes = 1 .. Params BY ArgRegs DEF Init, Nodes
<1>2. \A r \in Reg : (\E k \in 1 .. Params : ArgReg[k] = r) =>
        (CHOOSE k \in 1 .. Params : ArgReg[k] = r) \in 1 .. Params
  OBVIOUS
<1> QED BY <1>1, <1>2 DEF Init, RegsOK

LEMMA ShapeFacts == Shape => RangesCover /\ InMachine
<1> SUFFICES ASSUME Shape PROVE RangesCover /\ InMachine OBVIOUS
<1>1. /\ Len(sched) \in Nat /\ Nodes = 1 .. Len(sched)
      /\ phase \in {"colours", "encode", "done"} => Seen = Len(sched)
  BY DEF Shape, InOrder, Nodes, Seen
<1>2. RangesCover
  <2> SUFFICES ASSUME phase \in {"colours", "encode", "done"}, NEW n \in Ranges, NEW use \in Uses(n)
               PROVE use[1] \in n .. lastuse[n]
    BY DEF RangesCover
  <2>1. /\ use[1] \in Nodes /\ use[2] \in {1, 2}
        /\ use[2] \in DOMAIN sched[use[1]].ins /\ sched[use[1]].ins[use[2]] = n
    BY DEF Uses
  <2>2. lastuse[n] \in n .. Seen /\ use[1] <= lastuse[n]
    BY <1>1, <2>1 DEF Shape, Covered
  <2>3. n \in 1 .. use[1] - 1
    BY <2>1, Inputs DEF Shape
  <2> QED BY <1>1, <2>1, <2>2, <2>3
<1>3. InMachine BY DEF Shape, Coloring, InMachine
<1> QED BY <1>2, <1>3

LEMMA ShapeTypes == Shape /\ RegsOK => TypeOK
<1> SUFFICES ASSUME Shape, RegsOK PROVE TypeOK OBVIOUS
<1>1. /\ Len(sched) \in Params .. MaxSched /\ Nodes = 1 .. Len(sched)
      /\ Params \in Nat /\ MaxSched \in Nat
  BY LinearAssumption, ArgRegs DEF Shape, InOrder, Nodes
<1>2. \A n \in Nodes : \A s \in DOMAIN sched[n].ins : sched[n].ins[s] \in 1 .. n - 1
  BY Inputs DEF Shape
<1>3. Ranges \subseteq Nodes
  BY <1>1 DEF Shape, Progress
<1>4. \A n \in Ranges : lastuse[n] \in n .. Len(sched)
  <2>1. Seen <= Len(sched) BY <1>1 DEF Shape, Progress, Seen
  <2> QED BY <1>1, <1>3, <2>1 DEF Shape, Covered, Progress, Seen
<1>5. \A n \in Nodes : colour[n] \in Reg \cup {NoReg}
  BY <1>1 DEF Shape, Progress
<1> QED BY <1>1, <1>2, <1>3, <1>4, <1>5 DEF Shape, Progress, RegsOK, TypeOK

(* The schedule stays in the order of its inputs, live ranges begin at their *)
(* node and end in the schedule, colours and register contents are ones    *)
(* that exist, whatever reg_alloc and x64_encode do.                       *)
THEOREM LinearTypes == Spec => []TypeOK
<1>1. Init => Shape /\ RegsOK BY InitShape, InitRegs
<1>2. Shape /\ RegsOK /\ [Next]_vars => (Shape /\ RegsOK)' BY NextShape, NextRegs
<1> QED BY <1>1, <1>2, ShapeTypes, PTL DEF Spec

(* build_intervals covers every use: after it, each node is used within the *)
(* live range that it has, for a schedule of any length.                   *)
THEOREM RangesCoverUses == Spec => []RangesCover
BY ShapeInvariant, ShapeFacts, PTL

(* reg_alloc gives every range a register that x64_rmask_out allows.        *)
THEOREM ColoursInMachine == Spec => []InMachine
BY ShapeInvariant, ShapeFacts, PTL

-----------------------------------------------------------------------------
(* The value of an operand is in its register when the operation is reached. *)
LEMMA OperandThere ==
  ASSUME Shape, RegsOK, Holding, Good, phase = "encode",
         NEW s \in 1 .. Len(sched[at].ins)
  PROVE  LET i == sched[at].ins[s] IN
           i \in Ranges /\ i < at /\ colour[i] \in Reg /\ regs[colour[i]] = i
<1> DEFINE i == sched[at].ins[s]
<1>1. at \in Nodes /\ Coloured /\ Len(sched) \in Nat /\ Nodes = 1 .. Len(sched)
  BY DEF Shape, InOrder, Progress, Coloured, Nodes
<1>2. i \in Ranges /\ i < at /\ colour[i] \in Reg
  BY <1>1, EncodeColours
<1>3. s \in {1, 2} /\ s \in DOMAIN sched[at].ins
  BY <1>1, Inputs DEF Shape, InOrder, Arity
<1>4. Seen = Len(sched) BY DEF Seen
<1>5. lastuse[i] >= at
  BY <1>1, <1>2, <1>3, <1>4 DEF Shape, Covered
<1> QED BY <1>2, <1>5 DEF Holding, Waiting

(* An operation that is not a product leaves its value in its register and  *)
(* changes no other.                                                       *)
LEMMA OperationRight ==
  ASSUME Shape, RegsOK, Holding, Good, Encode, sched[at].op \in {"AddI", "Add", "CmpEqI"}
  PROVE  /\ colour[at] \in Reg
         /\ regs'[colour[at]] = at
         /\ \A reg \in Reg : reg # colour[at] => regs'[reg] = regs[reg]
<1> DEFINE op == sched[at].op
           ins == sched[at].ins
           i == ins[1]
           j == ins[2]
           r == MoveFirst(at, ins)
<1>1. at \in Nodes /\ phase = "encode" /\ Coloured /\ Len(ins) = Arity(op)
  BY DEF Shape, InOrder, Progress, Encode, Coloured, Nodes
<1>2. colour[at] \in Reg BY <1>1, EncodeColours
<1>3. i \in Ranges /\ colour[i] \in Reg /\ regs[colour[i]] = i
  BY <1>1, OperandThere DEF Arity
<1>4. op = "Add" => j \in Ranges /\ colour[j] \in Reg /\ regs[colour[j]] = j
  BY <1>1, OperandThere DEF Arity
<1>5. op = "Add" => colour[j] # colour[at] \/ j = i
  BY <1>1 DEF Good, SecondSafe, Arity
<1>6. /\ r \in [Reg -> {Junk} \cup Nodes]
      /\ op \in {"AddI", "Add"} => r = Moved(colour[at], colour[i])
      /\ op = "CmpEqI" => r = regs
  BY <1>2, <1>3, MovedType DEF MoveFirst, TwoAddress, RegsOK
<1>7. \A reg \in Reg : reg # colour[at] => r[reg] = regs[reg]
  BY <1>2, <1>6 DEF Moved, RegsOK
<1>8. op \in {"AddI", "Add"} => r[colour[at]] = i
  BY <1>2, <1>3, <1>6 DEF Moved, RegsOK
<1>9. op = "Add" => r[colour[j]] = j
  BY <1>3, <1>4, <1>5, <1>7, <1>8
<1>10. op = "CmpEqI" => r[colour[i]] = i BY <1>3, <1>6
<1> HIDE DEF r
<1>11. regs' = [r EXCEPT ![colour[at]] = at]
  <2>1. CASE op = "AddI" BY <1>8, <2>1 DEF Encode, r
  <2>2. CASE op = "Add" BY <1>8, <1>9, <2>2 DEF Encode, r
  <2>3. CASE op = "CmpEqI" BY <1>10, <2>3 DEF Encode, r
  <2> QED BY <2>1, <2>2, <2>3
<1> QED BY <1>2, <1>6, <1>7, <1>11

LEMMA EncodeHolds ==
  ASSUME "Mul" \notin Ops, Shape, RegsOK, Holding, Encode
  PROVE  Holding'
<1>1. /\ at \in Nodes /\ phase = "encode" /\ Coloured /\ Coloured'
      /\ Len(sched) \in Nat /\ Nodes = 1 .. Len(sched) /\ Ranges = 1 .. Len(sched) - 1
      /\ UNCHANGED <<sched, lastuse, colour>> /\ Nodes' = Nodes /\ Ranges' = Ranges
      /\ sched[at].op = "Ret" <=> at = Len(sched)
      /\ sched[at].op \in {"Arg", "Ret", "AddI", "Add", "CmpEqI"}
      /\ \/ at < Len(sched) /\ at' = at + 1 /\ phase' = "encode"
         \/ at = Len(sched) /\ at' = 1 /\ phase' = "done"
  BY SameSched, LinearAssumption
  DEF Shape, InOrder, Progress, Nodes, Ranges, Encode, Loop, Coloured, Operations
<1>2. Good' => Good
  BY <1>1 DEF Good, NoShare, SecondSafe
<1>3. ASSUME Good, at < Len(sched), NEW n \in Ranges, Waiting(n)'
      PROVE  regs'[colour[n]] = n
  <2>1. n \in Nodes /\ lastuse[n] > at /\ (sched[n].op = "Arg" \/ n <= at)
    BY <1>1, <1>3 DEF Waiting, Shape, Covered, Seen
  <2>2. lastuse[n] >= at BY <1>1, <2>1 DEF Shape, Covered, Seen
  <2>3. n # at \/ sched[n].op = "Arg" => regs[colour[n]] = n
    <3>1. sched[n].op = "Arg" \/ n < at \/ n = at BY <1>1, <2>1
    <3> QED BY <1>1, <1>3, <2>2, <3>1 DEF Holding, Waiting
  <2>4. CASE sched[at].op = "Arg"
    <3>1. regs' = regs BY <2>4 DEF Encode
    <3> QED BY <2>3, <2>4, <3>1
  <2>5. CASE sched[at].op # "Arg"
    <3>1. sched[at].op \in {"AddI", "Add", "CmpEqI"} BY <1>1, <1>3, <2>5
    <3>2. /\ colour[at] \in Reg /\ regs'[colour[at]] = at
          /\ \A reg \in Reg : reg # colour[at] => regs'[reg] = regs[reg]
      BY <1>3, <3>1, OperationRight
    <3>3. CASE n = at BY <3>2, <3>3
    <3>4. CASE n # at
      <4>1. n < at
        BY <1>1, <2>1, <2>5, <3>4, ArgRegs DEF Shape, InOrder
      <4>2. at \in Ranges BY <1>1, <1>3
      <4>3. colour[n] # colour[at]
        BY <1>1, <1>3, <2>1, <4>1, <4>2 DEF Good, NoShare
      <4>4. colour[n] \in Reg BY <1>1, <1>3, EncodeColours
      <4> QED BY <2>3, <3>2, <3>4, <4>3, <4>4
    <3> QED BY <3>3, <3>4
  <2> QED BY <2>4, <2>5
<1>4. ASSUME Good, at = Len(sched)
      PROVE  regs'[RAX] = sched[Len(sched)].ins[1]
  <2> DEFINE i == sched[at].ins[1]
  <2>1. sched[at].op = "Ret" /\ Len(sched[at].ins) = 1
    BY <1>1, <1>4 DEF Shape, InOrder, Arity
  <2>2. colour[i] \in Reg /\ regs[colour[i]] = i
    BY <1>1, <1>4, <2>1, OperandThere
  <2>3. regs' = Moved(RAX, colour[i]) BY <2>1 DEF Encode
  <2>4. RAX \in Reg BY DEF RAX, Reg, General
  <2> QED BY <1>4, <2>2, <2>3, <2>4 DEF Moved, RegsOK
<1>5. Good' => \A n \in Ranges' : Waiting(n)' => regs'[colour'[n]] = n
  BY <1>1, <1>2, <1>3 DEF Waiting
<1>6. CodeRight'
  BY <1>1, <1>2, <1>4 DEF CodeRight, Good
<1> QED BY <1>1, <1>5, <1>6 DEF Holding

LEMMA InitHolds == Init => Holding
<1> SUFFICES ASSUME Init PROVE Holding OBVIOUS
<1>1. Params0
  <2> SUFFICES ASSUME NEW k \in 1 .. Params PROVE regs[ArgReg[k]] = k BY DEF Params0
  <2>1. k \in 1 .. 4 /\ Params \in 1 .. 4 BY ArgRegs
  <2>2. ArgReg[k] \in Reg BY <2>1, ArgRegs
  <2>3. (CHOOSE j \in 1 .. Params : ArgReg[j] = ArgReg[k]) = k
    BY <2>1, ArgRegs
  <2> QED BY <2>2, <2>3 DEF Init
<1> QED BY <1>1 DEF Init, Holding, Waiting, CodeRight

(* Up to the end of reg_alloc nothing is emitted, and the parameters are in *)
(* their registers when x64_encode starts.                                 *)
LEMMA ColourHolds == ASSUME Shape, Holding, Colour PROVE Holding'
<1>1. phase = "colours" /\ phase' \in {"colours", "encode"} /\ UNCHANGED <<sched, lastuse, regs>>
      /\ Params0'
  BY DEF Colour, Loop, Holding, Params0
<1>2. Shape' BY ColourShape
<1>3. ASSUME NEW n \in Ranges', Waiting(n)'
      PROVE  regs'[colour'[n]] = n
  <2>1. /\ phase' = "encode" /\ at' = 1 /\ Ranges' = 1 .. Len(sched') - 1
        /\ Nodes' = 1 .. Len(sched') /\ Len(sched') \in Nat
    BY <1>1, <1>2, <1>3 DEF Colour, Loop, Waiting, Shape, InOrder, Progress, Nodes
  <2>2. n \in Nodes' /\ sched'[n].op = "Arg" BY <1>3, <2>1 DEF Waiting
  <2>3. colour'[n] \in OutMask(n)' BY <1>2, <1>3, <2>1 DEF Shape, Coloring, Coloured
  <2>4. colour'[n] = ArgReg[n] /\ n \in 1 .. Params
    BY <1>2, <2>2, <2>3, <2>1 DEF OutMask, Shape, InOrder
  <2> QED BY <1>1, <2>4 DEF Params0
<1>4. CodeRight' BY <1>1 DEF CodeRight
<1> QED BY <1>1, <1>3, <1>4 DEF Holding

LEMMA NextHolds ==
  ASSUME "Mul" \notin Ops, Shape, RegsOK, Holding, [Next]_vars
  PROVE  Holding'
<1>1. CASE Encode BY <1>1, EncodeHolds
<1>2. CASE Colour BY <1>2, ColourHolds
<1>3. CASE Schedule \/ ScheduleRet \/ BuildInterval
  <2>1. /\ phase \in {"schedule", "intervals"} /\ phase' \in {"schedule", "intervals", "colours"}
        /\ UNCHANGED regs
    BY <1>3 DEF Schedule, ScheduleRet, BuildInterval, Loop, Place
  <2> QED BY <2>1 DEF Holding, Params0, Waiting, CodeRight
<1>4. CASE UNCHANGED vars
  BY <1>4 DEF vars, Holding, Params0, Waiting, CodeRight, Good, NoShare, SecondSafe, Coloured,
              Nodes, Ranges
<1> QED BY <1>1, <1>2, <1>3, <1>4 DEF Next

(* What the emitted code keeps: without products, and where no two ranges   *)
(* that live share a register and no second operand is in the register of   *)
(* the result, every value still used is in the register of its node.      *)
THEOREM LinearInvariant == ASSUME "Mul" \notin Ops PROVE Spec => []IInv
<1>1. Init => IInv BY InitShape, InitRegs, InitHolds DEF IInv
<1>2. IInv /\ [Next]_vars => IInv'
  BY NextShape, NextRegs, NextHolds DEF IInv
<1> QED BY <1>1, <1>2, PTL DEF Spec

(* The code x64_encode emits returns the value that the schedule returns,   *)
(* for any schedule of additions and comparisons and any colours that do    *)
(* not clash. The hypothesis leaves out the product, which the encoder     *)
(* writes to the register of its second operand.                           *)
THEOREM CodeReturns == ASSUME "Mul" \notin Ops PROVE Spec => []CodeRight
<1>1. IInv => CodeRight BY DEF IInv, Holding
<1> QED BY <1>1, LinearInvariant, PTL
=============================================================================
