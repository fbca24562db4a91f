----------------------------- MODULE SeaLinear -----------------------------
(***************************************************************************)
(* The back end on a function without branches: the live ranges and the     *)
(* colours of sea/sea_ra_linear.c, with the masks of sea/sea_x64.c, and the *)
(* code of sea/sea_x64_encode.c, which the model executes as it is emitted. *)
(* A register holds a node, the value that node computes, or Junk.  Any     *)
(* schedule that places a node after its inputs is taken.                  *)
(***************************************************************************)
EXTENDS Integers, Sequences, FiniteSetsExt

CONSTANTS
  Ops,        (* The operations in use, of Operations below.               *)
  Params,     (* Parameters of the function.                               *)
  MaxActive,  (* 16 in the code: more active ranges are not implemented.   *)
  MaxSched    (* Bound: nodes of the schedule.                             *)

(* An operation with an integer, on two registers, a product, a comparison. *)
Operations == {"AddI", "Add", "Mul", "CmpEqI"}
(* RDI, RSI, RDX, RCX: mach.conv.args                                      *)
ArgReg == <<7, 6, 2, 1>>

ASSUME LinearAssumption ==
  /\ Ops \subseteq Operations
  /\ Params \in 1 .. Len(ArgReg)
  /\ MaxActive \in Nat
  /\ MaxSched \in Nat /\ MaxSched >= Params

RAX == 0
General == 0 .. 3       (* X64_RMASK *)
Reg == General \cup {6, 7}
NoReg == -1
Junk == 0

VARIABLES
  sched,    (* fn->sched: the operations and their inputs                  *)
  lastuse,  (* LiveRange.lastuse; def is the place in the schedule         *)
  colour,   (* LiveRange.colour                                            *)
  active,   (* The ranges reg_alloc has not seen end                       *)
  regs,     (* What the registers hold after the code emitted so far       *)
  phase,    (* What runs: the scheduler, build_intervals, reg_alloc, ...   *)
  at,       (* ... and its loop counter                                    *)
  fault

vars == <<sched, lastuse, colour, active, regs, phase, at, fault>>

Nodes == DOMAIN sched
Ranges == DOMAIN lastuse

(* The schedule is in the order of its inputs, live ranges begin at their   *)
(* node and end in the schedule, colours are registers.                    *)
TypeOK ==
  /\ Len(sched) <= MaxSched
  /\ \A n \in Nodes : \A s \in DOMAIN sched[n].ins : sched[n].ins[s] \in 1 .. n - 1
  /\ Ranges \subseteq Nodes /\ \A n \in Ranges : lastuse[n] \in n .. Len(sched)
  /\ DOMAIN colour = Nodes /\ \A n \in Nodes : colour[n] \in Reg \cup {NoReg}
  /\ active \subseteq Ranges
  /\ regs \in [Reg -> {Junk} \cup Nodes]
  /\ phase \in {"schedule", "intervals", "colours", "encode", "done"}
  /\ at \in 1 .. Len(sched)
  /\ fault \in {"none", "spill"}

Init ==
  /\ sched = [k \in 1 .. Params |-> [op |-> "Arg", ins |-> <<>>]]
  /\ lastuse = <<>>
  /\ colour = [k \in 1 .. Params |-> NoReg]
  /\ active = {}
  /\ regs = [r \in Reg |->
               IF \E k \in 1 .. Params : ArgReg[k] = r
               THEN CHOOSE k \in 1 .. Params : ArgReg[k] = r ELSE Junk]
  /\ phase = "schedule" /\ at = 1 /\ fault = "none"
-----------------------------------------------------------------------------
Uses(n) ==
  {use \in Nodes \X {1, 2} :
     use[2] \in DOMAIN sched[use[1]].ins /\ sched[use[1]].ins[use[2]] = n}

(* sched_node: one more node, after its inputs.                            *)
Place(op, ins) ==
  /\ phase = "schedule"
  /\ sched' = Append(sched, [op |-> op, ins |-> ins])
  /\ colour' = Append(colour, NoReg)

Schedule ==
  /\ Len(sched) + 1 < MaxSched
  /\ \E op \in Ops, a, b \in Nodes :
       Place(op, IF op \in {"AddI", "CmpEqI"} THEN <<a>> ELSE <<a, b>>)
  /\ UNCHANGED <<lastuse, active, regs, phase, at, fault>>

(* The last node is the return; a node that nothing uses is dead and is    *)
(* not there.                                                              *)
ScheduleRet ==
  /\ Len(sched) < MaxSched
  /\ \E a \in Nodes :
       /\ \A n \in Nodes \ {a} : sched[n].op = "Arg" \/ Uses(n) # {}
       /\ Place("Ret", <<a>>)
  /\ phase' = "intervals"
  /\ UNCHANGED <<lastuse, active, regs, at, fault>>

(* node_needs_reg                                                          *)
NeedsReg(n) == sched[n].op # "Ret"

(* Mistake: the loops run to schedlen.                                     *)
LoopPast(next) ==
  IF at <= Len(sched) THEN at' = at + 1 /\ UNCHANGED phase ELSE at' = 1 /\ phase' = next
Loop(next) ==
  IF at < Len(sched) THEN at' = at + 1 /\ UNCHANGED phase ELSE at' = 1 /\ phase' = next

(* Mistake: the loop over the inputs starts at 2.                          *)
LaterInput(n) ==
  \E s \in DOMAIN sched[at].ins : s > 1 /\ sched[at].ins[s] = n
UsedHere(n) == \E s \in DOMAIN sched[at].ins : sched[at].ins[s] = n

(* One iteration of build_intervals.                                       *)
BuildInterval ==
  /\ phase = "intervals"
  /\ lastuse' = [n \in Ranges \cup (IF NeedsReg(at) THEN {at} ELSE {}) |->
                   IF n = at \/ UsedHere(n) THEN at ELSE lastuse[n]]
  /\ Loop("colours")
  /\ UNCHANGED <<sched, colour, active, regs, fault>>

(* x64_rmask_out and x64_rmask_in.                                         *)
OutMask(n) == IF sched[n].op = "Arg" THEN {ArgReg[n]} ELSE General
InMask(u) == IF sched[u].op = "Ret" THEN {RAX} ELSE General

Wanted(n) == {r \in OutMask(n) : \A use \in Uses(n) : r \in InMask(use[1])}

(* Mistake: the output alone counts.                                       *)
UsersMask(n) == IF Wanted(n) = {} THEN General ELSE Wanted(n)
Mask(n) == IF Wanted(n) = {} THEN OutMask(n) ELSE Wanted(n)

(* One iteration of reg_alloc.  The pool of free registers it keeps is not *)
(* read, and is left out.                                                  *)
Colour ==
  /\ phase = "colours" /\ fault = "none"
  /\ LET live == {n \in active : lastuse[n] > at} IN
     IF at \notin Ranges THEN UNCHANGED <<colour, active, fault>> /\ Loop("encode")
     ELSE IF Cardinality(live) > MaxActive
     THEN fault' = "spill" /\ active' = live /\ UNCHANGED <<colour, phase, at>>
     ELSE /\ active' = live \cup {at}
          /\ colour' = [colour EXCEPT ![at] = Min(Mask(at))]
          /\ UNCHANGED fault
          /\ Loop("encode")
  /\ UNCHANGED <<sched, lastuse, regs>>

TwoAddress(op) == op \in {"AddI", "Add", "Mul"}

Moved(dst, src) == IF dst = src THEN regs ELSE [regs EXCEPT ![dst] = regs[src]]

(* Mistake: no move before a two address operation.                        *)
MoveNone(n, ins) == regs
(* The registers when the operation itself executes.                       *)
MoveFirst(n, ins) ==
  IF TwoAddress(sched[n].op) THEN Moved(colour[n], colour[ins[1]]) ELSE regs

(* x64_encode for the next node.  imul has its destination where add and   *)
(* sub have their source, and gets the operands in their order.            *)
Encode ==
  LET op == sched[at].op
      ins == sched[at].ins
      r == MoveFirst(at, ins)
      Holds(k, reg) == r[reg] = ins[k]
      value == CASE op = "AddI" -> IF Holds(1, colour[at]) THEN at ELSE Junk
                 [] op = "CmpEqI" -> IF Holds(1, colour[ins[1]]) THEN at ELSE Junk
                 [] op \in {"Add", "Mul"} ->
                      IF Holds(1, colour[at]) /\ Holds(2, colour[ins[2]]) THEN at ELSE Junk
  IN
  /\ phase = "encode"
  /\ regs' = CASE op = "Arg" -> regs
               [] op = "Ret" -> Moved(RAX, colour[ins[1]])
               [] op = "Mul" -> [r EXCEPT ![colour[ins[2]]] = value]
               [] op \in {"AddI", "Add", "CmpEqI"} -> [r EXCEPT ![colour[at]] = value]
  /\ Loop("done")
  /\ UNCHANGED <<sched, lastuse, colour, active, fault>>

Next == Schedule \/ ScheduleRet \/ BuildInterval \/ Colour \/ Encode

Spec == Init /\ [][Next]_vars
-----------------------------------------------------------------------------
Coloured == phase \in {"encode", "done"}

(* Every use of a node lies in its live range.                             *)
RangesCover ==
  phase \in {"colours", "encode", "done"} =>
    \A n \in Ranges : \A use \in Uses(n) : use[1] \in n .. lastuse[n]

(* A register is free until a range that holds it has ended (sea_ra_linear.c:
   "expired - free its register"): two ranges that both live share none.   *)
NoShare ==
  Coloured =>
    \A m, n \in Ranges : m < n /\ lastuse[m] > n => colour[m] # colour[n]

(* The machine takes the first operand of an operation from the register    *)
(* of the result.                                                          *)
SecondSafe ==
  \A n \in Nodes :
    Len(sched[n].ins) = 2 =>
      \/ colour[sched[n].ins[2]] # colour[n]
      \/ sched[n].ins[2] = sched[n].ins[1]

(* When the colours are good the code returns the value of the schedule.   *)
CodeRight ==
  phase = "done" /\ NoShare /\ SecondSafe => regs[RAX] = sched[Len(sched)].ins[1]

(* A parameter stays in the register it comes in, everything else is in a  *)
(* register its operation can write (sea_x64.c: "Any GPR").                *)
InMachine ==
  Coloured => \A n \in Ranges : colour[n] \in OutMask(n)
=============================================================================
