---------------------------- MODULE SeaPeephole ----------------------------
(***************************************************************************)
(* The expressions of a function without loops or branches: what the parser *)
(* builds node by node, with the type of each node (sea/sea_compute.c), the *)
(* one node kept for equal ones (sea/sea_node.c) and the rewriting of a new *)
(* node (sea/sea_peeps.c).  val is what a node computes, means what the      *)
(* source says, each as a function of the values the program starts from.   *)
(* Nodes are never freed here.                                             *)
(***************************************************************************)
EXTENDS SeaRange, Sequences

CONSTANTS
  Ops,         (* The operators the program uses.                          *)
  Inputs,      (* The types of what it starts from, a sequence: S64 for a   *)
               (* parameter, Bot for a phi, Null for an open loop's phi.    *)
  Literals,    (* Integers of the source.                                  *)
  MaxExpr      (* Bound: expressions of the program.                       *)

ASSUME PeepholeAssumption ==
  /\ Ops \subseteq Unary \cup Binary
  /\ Literals \subseteq 0 .. MaxInt
  /\ Inputs \in Seq({S64, Bot, Null})
  /\ MaxInt >= 2

VARIABLES
  nodes,   (* The nodes, an operation names its inputs by their places.     *)
  exprs,   (* The expressions parsed: the node of each and its meaning.     *)
  runs,    (* What the program may start from without trapping so far.      *)
  fault    (* "trap": the compiler has divided where it must not;           *)
           (* "deep": the bound on the calls of a rewrite was too low.      *)

vars == <<nodes, exprs, runs, fault>>

Int64 == MinInt .. MaxInt
Run == [DOMAIN Inputs -> Int64]

TypeOK ==
  /\ \A k \in DOMAIN nodes :
       LET n == nodes[k] IN
       /\ n.a \in 0 .. k - 1 /\ n.b \in 0 .. k - 1
       /\ n.val \in [Run -> Int64]
       /\ n.type.min \in Int64 /\ n.type.max \in Int64
  /\ \A e \in DOMAIN exprs : exprs[e].node \in DOMAIN nodes
  /\ runs \subseteq Run
  /\ fault \in {"none", "trap"}

Input(k) == [r \in Run |-> r[k]]

Init ==
  /\ nodes = [k \in DOMAIN Inputs |->
                [op |-> "Input", a |-> 0, b |-> 0, lit |-> k,
                 type |-> Inputs[k], val |-> Input(k)]]
  /\ exprs = [k \in DOMAIN Inputs |-> [node |-> k, means |-> Input(k)]]
  /\ runs = Run
  /\ fault = "none"
-----------------------------------------------------------------------------
(* An operation on all runs; 0 stands for what it gives where it traps.     *)
Values(op, x, y) ==
  [r \in Run |-> IF Defined(op, x[r], y[r]) THEN Apply(op, x[r], y[r]) ELSE 0]
Always(v) == [r \in Run |-> v]

(* What creating a node gives: the nodes there are then and the place of    *)
(* the node that stands for it.                                            *)
Result(ns, k) == [nodes |-> ns, node |-> k, end |-> "none"]
Trap(ns) == [nodes |-> ns, node |-> 0, end |-> "trap"]

(* Mistake: constants are compared by their kind.                          *)
AnyLit(m, n) == m.op = n.op /\ m.a = n.a /\ m.b = n.b

(* sea_node_equal.                                                         *)
Same(m, n) ==
  /\ m.op = n.op /\ m.a = n.a /\ m.b = n.b
  /\ m.op = "ConstInt" => m.lit = n.lit

(* The node itself, when the map has none like it.                         *)
Canon(ns, n) ==
  IF \E k \in DOMAIN ns : Same(ns[k], n)
  THEN Result(ns, CHOOSE k \in DOMAIN ns : Same(ns[k], n))
  ELSE Result(Append(ns, n), Len(ns) + 1)

(* sea_create_const_int.                                                   *)
Const(ns, v) ==
  Canon(ns, [op |-> "ConstInt", a |-> 0, b |-> 0, lit |-> v,
             type |-> IntType(v, v), val |-> Always(v)])

IsLit(n) == n.op = "ConstInt"

(* sea_create_urnary_op with its peephole.                                 *)
CreateUnary(ns, op, a) ==
  LET x == ns[a]
      t == UnaryType(op, x.type)
      n == [op |-> op, a |-> a, b |-> 0, lit |-> 0, type |-> t,
            val |-> Values(op, x.val, Always(0))]
  IN  IF x.type = Null THEN Trap(ns)
      ELSE IF \E k \in DOMAIN ns : Same(ns[k], n) THEN Canon(ns, n)
      ELSE IF IsLit(x) THEN Const(ns, Apply(op, x.lit, 0))
      ELSE IF IsConst(t) THEN Const(ns, t.min)
      ELSE Canon(ns, n)

(* The rules of sea_idealize_int, each where the ones before do not apply. *)
Commutes(op) == op \in {"AddI", "MulI"}
(* Mistake: only sums.                                                     *)
SwapsSum(op, x, y) == op = "AddI" /\ IsLit(x) /\ ~ IsLit(y)
Swaps(op, x, y) == Commutes(op) /\ IsLit(x) /\ ~ IsLit(y)
Regroups(ns, op, x) == Commutes(op) /\ x.op = op /\ IsLit(ns[x.b])

(* What comes of a node that is created, given what the creations it asks   *)
(* for come to: with its inputs swapped, regrouped, and as a product.       *)
BinRules(ns, op, a, b, swapped, regrouped, doubled) ==
  LET x == ns[a]
      y == ns[b]
      t == BinType(op, x.type, y.type)
      n == [op |-> op, a |-> a, b |-> b, lit |-> 0, type |-> t,
            val |-> Values(op, x.val, y.val)]
  IN
  IF BinTraps(op, x.type, y.type) THEN Trap(ns)
  ELSE IF \E k \in DOMAIN ns : Same(ns[k], n) THEN Canon(ns, n)
  ELSE IF op = "ModI" THEN Canon(ns, n)
  ELSE IF IsLit(x) /\ IsLit(y)
  THEN IF Defined(op, x.lit, y.lit) THEN Const(ns, Apply(op, x.lit, y.lit)) ELSE Trap(ns)
  ELSE IF Swaps(op, x, y) THEN swapped
  ELSE IF Regroups(ns, op, x) THEN regrouped
  ELSE IF op = "AddI" /\ a = b THEN doubled
  ELSE IF op = "SubI" /\ a = b THEN Const(ns, 0)
  ELSE IF op = "MulI" /\ IsLit(y) /\ y.lit = 1 THEN Result(ns, a)
  ELSE IF op = "DivI" /\ a = b THEN Const(ns, 1)
  ELSE IF op = "DivI" /\ IsLit(y) /\ y.lit = 1 THEN Result(ns, a)
  ELSE IF IsConst(t) THEN Const(ns, t.min)
  ELSE Canon(ns, n)

(* sea_idealize_int: the node is created by Create from the one that right  *)
(* came to.                                                                *)
Onto(Create(_, _, _, _), right, op, a) ==
  IF right.end = "none" THEN Create(right.nodes, op, a, right.node) ELSE right

(* sea_create_bin_op whose calls of itself are Create.                     *)
Rewrite(Create(_, _, _, _), ns, op, a, b) ==
  BinRules(ns, op, a, b,
           Create(ns, op, b, a),
           Onto(Create, Create(ns, op, ns[a].b, b), op, ns[a].a),
           Onto(Create, Const(ns, 2), "MulI", a))

(* sea_create_bin_op, up to four calls of it that are open at a time.  Were *)
(* a fifth needed, the end would be "deep".                                 *)
TooDeep(ns, op, a, b) == [nodes |-> ns, node |-> 0, end |-> "deep"]
CreateBin1(ns, op, a, b) == Rewrite(TooDeep, ns, op, a, b)
CreateBin2(ns, op, a, b) == Rewrite(CreateBin1, ns, op, a, b)
CreateBin3(ns, op, a, b) == Rewrite(CreateBin2, ns, op, a, b)
CreateBin(ns, op, a, b)  == Rewrite(CreateBin3, ns, op, a, b)

Parse(created, means) ==
  /\ fault = "none" /\ Len(exprs) < MaxExpr
  /\ nodes' = created.nodes
  /\ fault' = created.end
  /\ exprs' = IF created.end = "none"
               THEN Append(exprs, [node |-> created.node, means |-> means]) ELSE exprs

(* An integer of the source: parse_urnary.                                 *)
Literal ==
  /\ \E v \in Literals : Parse(Const(nodes, v), Always(v))
  /\ UNCHANGED runs

(* - or ! before an expression: parse_urnary.                              *)
UnaryExpr ==
  /\ \E op \in Ops \cap Unary, i \in DOMAIN exprs :
       Parse(CreateUnary(nodes, op, exprs[i].node),
             Values(op, exprs[i].means, Always(0)))
  /\ UNCHANGED runs

(* An operator between two: parse_bin_expr.  Runs on which the program      *)
(* divides where it traps end there.                                       *)
BinaryExpr ==
  \E op \in Ops \cap Binary, i, j \in DOMAIN exprs :
    LET x == exprs[i].means
        y == exprs[j].means
    IN
    /\ Parse(CreateBin(nodes, op, exprs[i].node, exprs[j].node), Values(op, x, y))
    /\ runs' = {r \in runs : Defined(op, x[r], y[r])}

Next == Literal \/ UnaryExpr \/ BinaryExpr

Spec == Init /\ [][Next]_vars
-----------------------------------------------------------------------------
(* The type of a node holds what the node computes.                        *)
TypeSound ==
  \A k \in DOMAIN nodes, r \in runs : Has(nodes[k].type, nodes[k].val[r])

(* Types, sharing and rewriting leave the meaning of the source.           *)
MeaningKept ==
  \A e \in DOMAIN exprs, r \in runs : nodes[exprs[e].node].val[r] = exprs[e].means[r]

(* What the rules work towards: a constant is a ConstInt, it stands on the  *)
(* right of a sum or product, and is regrouped with those before it.       *)
Canonical ==
  \A k \in DOMAIN nodes :
    LET n == nodes[k] IN
    /\ n.op \in Unary \cup Binary => ~ IsConst(n.type)
    /\ Commutes(n.op) => ~ IsLit(nodes[n.a])
    /\ Commutes(n.op) /\ nodes[n.a].op = n.op => ~ IsLit(nodes[nodes[n.a].b])
=============================================================================
