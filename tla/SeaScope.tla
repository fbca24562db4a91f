------------------------------ MODULE SeaScope ------------------------------
(***************************************************************************)
(* The scope manager (sea/sea_scope.c) under the statements of the parser  *)
(* (front/parser.c).  A scope node holds in slot 0 the current control and *)
(* in the slots after it the node that each variable in scope stands for.  *)
(* The parser reads the program once, in order, and the scope manager      *)
(* makes the phis: where two branches meet, and for every variable at the  *)
(* head of a loop before the loop's body has been seen.                    *)
(*                                                                         *)
(* One action is one statement, or the opening or closing part of one; the *)
(* program is whatever sequence of them is taken.  What an expression      *)
(* computes is left out: it gives a new node or the node of a variable.    *)
(* Nodes are not freed here (SeaGraph has that), and a killed one is       *)
(* "gone".                                                                 *)
(*                                                                         *)
(* The variables on and env do not exist in the compiler.  They follow one *)
(* run of the compiled program, chosen as the text is read: env is what    *)
(* the variables mean on that run, by the rules of the language.           *)
(***************************************************************************)
EXTENDS Integers, Sequences, SequencesExt, FiniteSets, FiniteSetsExt

CONSTANTS
  Name,      (* The variable names of the program.                         *)
  Arg,       (* The parameters of the function.                            *)
  MaxNode,   (* Bound: data nodes, loops and regions that are made.        *)
  Conditions,(* The conditions of its ifs and whiles: "true" and "false"   *)
             (* are constants, "any" is everything else.                   *)
  MaxStmt,   (* Bound: statements of the program.                          *)
  MaxDepth   (* Bound: blocks open at a time.                              *)

ASSUME ScopeAssumption ==
  /\ MaxNode \in Nat \ {0}
  /\ MaxStmt \in Nat /\ MaxDepth \in Nat
  /\ Conditions \subseteq {"any", "true", "false"}
  /\ Arg \in Seq(Name) /\ Len(Arg) <= MaxNode
  /\ \A i, j \in DOMAIN Arg : Arg[i] = Arg[j] => i = j
  /\ "@ctrl" \notin Name

VARIABLES
  nodes,    (* the nodes made so far                                       *)
  next,     (* the next one                                                *)
  table,    (* fn->map: the phis in it, with the inputs they went in with  *)
  curr,     (* m->curr                                                     *)
  read,     (* how many statements have been read                          *)
  frames,   (* parse_block, parse_if and parse_while on the C stack        *)
  fault,    (* "none", or the Assert that stopped the compiler             *)
  val,      (* ghost: what a node evaluates to on the followed run         *)
  on,       (* ghost: the followed run comes through here                  *)
  env       (* ghost: what each variable means, block by block             *)

vars == <<nodes, next, table, curr, read, frames, fault, val, on, env>>

Node == 1 .. MaxNode
Null == 0
(* Control that is not a loop or a region: the Start or If projections, and *)
(* anything of type CtrlDead.                                              *)
Live == -1
Dead == -2

Def         == [kind |-> "def",  reg |-> Null, args |-> <<>>]
Region(a)   == [kind |-> "region", reg |-> Null, args |-> a]
Loop(a)     == [kind |-> "loop", reg |-> Null, args |-> a]
Phi(r, a)   == [kind |-> "phi",  reg |-> r,    args |-> a]
Gone        == [kind |-> "gone", reg |-> Null, args |-> <<>>]

IsPhiOf(nds, n, r) == n \in Node /\ nds[n].kind = "phi" /\ nds[n].reg = r
-----------------------------------------------------------------------------
(* A scope: slots are the inputs of its node (slot 0 is slots[1]), list the *)
(* SeaScopeData of its blocks.  A cell gives a name its slot.               *)
NoScope == [slots |-> <<>>, list |-> <<>>]

PushScope(sc) ==
  [sc EXCEPT !.list = Append(@, [inputlen |-> Len(sc.slots), cells |-> <<>>])]

(* Mistake: the slots of the block stay.                                   *)
PopScopeKeeping(sc) == [sc EXCEPT !.list = Front(@)]

PopScope(sc) ==
  [slots |-> SubSeq(sc.slots, 1, Last(sc.list).inputlen), list |-> Front(sc.list)]

Cells(sc, l)    == ToSet(sc.list[l].cells)
Declares(sc, x) == {l \in DOMAIN sc.list : \E c \in Cells(sc, l) : c.name = x}
Visible(sc)     == {x \in Name : Declares(sc, x) # {}}

(* The walk from l->tail back, innermost block first.                      *)
FoundSlot(sc, x) ==
  (CHOOSE c \in Cells(sc, Max(Declares(sc, x))) : c.name = x).slot

Lookup(sc, x) == sc.slots[FoundSlot(sc, x)]

Update(sc, x, n) == [sc EXCEPT !.slots[FoundSlot(sc, x)] = n]

(* Mistake: l->head for l->tail.                                           *)
InsertOutermost(sc, x, n) ==
  IF 1 \in Declares(sc, x) THEN Update(sc, x, n)
  ELSE [slots |-> Append(sc.slots, n),
        list |-> [sc.list EXCEPT ![1].cells =
                    Append(@, [name |-> x, slot |-> Len(sc.slots) + 1])]]

(* sea_scope_insert_symbol looks in the innermost block only.              *)
Insert(sc, x, n) ==
  IF Len(sc.list) \in Declares(sc, x) THEN Update(sc, x, n)
  ELSE [slots |-> Append(sc.slots, n),
        list |-> [sc.list EXCEPT ![Len(sc.list)].cells =
                    Append(@, [name |-> x, slot |-> Len(sc.slots) + 1])]]

Ctrl(sc)       == sc.slots[1]
SetCtrl(sc, c) == [sc EXCEPT !.slots[1] = c]

(* What sea_node_subsume(old, new) does to a node or a scope that uses old.*)
Swap(seq, old, new) == [i \in DOMAIN seq |-> IF seq[i] = old THEN new ELSE seq[i]]
SwapIn(sc, old, new) == [sc EXCEPT !.slots = Swap(@, old, new)]
Subsume(nds, old, new) ==
  [n \in Node |-> IF n = old THEN Gone
                  ELSE [nds[n] EXCEPT !.args = Swap(@, old, new)]]

(* sea_node_remove_input: the last input takes the free slot.              *)
RemoveInput(args, s) == Front([args EXCEPT ![s] = Last(args)])
-----------------------------------------------------------------------------
(* sea_duplicate_scope copies the cells in order with                      *)
(* sea_scope_insert_symbol.  ok is the Assert that a cell keeps its slot.  *)
CopyCell(st, cell, n) ==
  [sc |-> Insert(st.sc, cell.name, n),
   ok |-> st.ok /\ Len(st.sc.slots) + 1 = cell.slot]

CopyBlock(st, sc, data) ==
  LET copied[i \in 0 .. Len(data.cells)] ==
        IF i = 0 THEN [sc |-> PushScope(st.sc), ok |-> st.ok]
        ELSE CopyCell(copied[i - 1], data.cells[i], sc.slots[data.cells[i].slot])
  IN  copied[Len(data.cells)]

Duplicate(sc) ==
  LET copied[l \in 0 .. Len(sc.list)] ==
        IF l = 0 THEN [sc |-> NoScope, ok |-> TRUE]
        ELSE CopyBlock(copied[l - 1], sc, sc.list[l])
  IN  copied[Len(sc.list)]

(* In front of a loop every variable of the scope and of its copy becomes a *)
(* phi whose second value is not known yet.  The phis are made in the order *)
(* of the slots, after the loop node next.                                 *)
LoopPhi(i)     == next + i - 1
LoopSlots(sc)  == 2 .. Len(sc.slots)
LoopHead(sc)   == [sc EXCEPT !.slots =
                     [i \in DOMAIN @ |-> IF i = 1 THEN @[1] ELSE LoopPhi(i)]]
LoopNodes(sc, ctrl) ==
  [n \in Node |->
    IF n = next THEN Loop(<<ctrl, Null>>)
    ELSE IF \E i \in LoopSlots(sc) : n = LoopPhi(i)
         THEN Phi(next, <<sc.slots[n - next + 1], Null>>)
         ELSE nodes[n]]
-----------------------------------------------------------------------------
(* sea_merge_scopes makes a region, next, and a phi for every slot in which *)
(* the scopes differ.                                                      *)
Differing(this, that) ==
  {i \in 2 .. Len(this.slots) : this.slots[i] # that.slots[i]}
(* Mistake: one node further.                                              *)
MergePhiLate(this, that, i) ==
  next + 1 + Cardinality({j \in Differing(this, that) : j <= i})

MergePhi(this, that, i) ==
  next + Cardinality({j \in Differing(this, that) : j <= i})
MergeHead(this, that) ==
  [this EXCEPT !.slots =
     [i \in DOMAIN @ |-> IF i \in Differing(this, that)
                         THEN MergePhi(this, that, i) ELSE @[i]]]

MergeNodes(this, that) ==
  [n \in Node |->
    IF n = next THEN Region(<<Ctrl(this), Ctrl(that)>>)
    ELSE IF \E i \in Differing(this, that) : n = MergePhi(this, that, i)
         THEN LET i == CHOOSE j \in Differing(this, that) :
                         n = MergePhi(this, that, j)
              IN  Phi(next, <<this.slots[i], that.slots[i]>>)
         ELSE nodes[n]]

(* Mistake: the dead control goes, the value each phi has for it stays.    *)
IdealizeRegionPhisWhole(nds, sc, r) ==
  LET dead == {i \in DOMAIN nds[r].args : nds[r].args[i] = Dead}
      left(n) == IF n = r THEN RemoveInput(nds[n].args, Min(dead))[1]
                           ELSE nds[n].args[1]
      gone == {n \in Node : n = r \/ IsPhiOf(nds, n, r)}
  IN  IF dead = {} THEN [nodes |-> nds, sc |-> SetCtrl(sc, r)]
      ELSE [nodes |-> [n \in Node |-> IF n \in gone THEN Gone ELSE nds[n]],
            sc |-> SetCtrl([sc EXCEPT !.slots =
                     [i \in DOMAIN @ |-> IF @[i] \in gone THEN left(@[i])
                                                          ELSE @[i]]],
                           left(r))]

(* sea_idealize_region, for a region r with two controls: a dead one goes,  *)
(* with the value each phi has for it, and the phis of a region with one   *)
(* control left are their value.                                           *)
IdealizeRegion(nds, sc, r) ==
  LET dead == {i \in DOMAIN nds[r].args : nds[r].args[i] = Dead}
      left(n) == RemoveInput(nds[n].args, Min(dead))[1]
      gone == {n \in Node : n = r \/ IsPhiOf(nds, n, r)}
  IN  IF dead = {} THEN [nodes |-> nds, sc |-> SetCtrl(sc, r)]
      ELSE [nodes |-> [n \in Node |-> IF n \in gone THEN Gone ELSE nds[n]],
            sc |-> SetCtrl([sc EXCEPT !.slots =
                     [i \in DOMAIN @ |-> IF @[i] \in gone THEN left(@[i])
                                                          ELSE @[i]]],
                           left(r))]
-----------------------------------------------------------------------------
(* sea_peephole on the phi of a loop: an equal phi in the table stands for  *)
(* it; otherwise it goes into the table, and sea_idealize_phi gives the one *)
(* value it has on its live controls, itself aside.                        *)
PhiKey(nds, n) == [node |-> n, reg |-> nds[n].reg, args |-> nds[n].args]
Same(nds, tbl, n) ==
  {e \in tbl : e.reg = nds[n].reg /\ e.args = nds[n].args
                /\ PhiKey(nds, e.node) = e /\ nds[e.node].kind = "phi"}
LiveArgs(nds, n) ==
  {nds[n].args[i] : i \in {j \in DOMAIN nds[n].args :
                            nds[nds[n].reg].args[j] # Dead}} \ {n}

(* Mistake: the search for the one live value does not reset on a second.  *)
PeepholePhiFirst(nds, tbl, n) == nds[n].args[1]

PeepholePhi(nds, tbl, n) ==
  IF Same(nds, tbl, n) # {} THEN (CHOOSE e \in Same(nds, tbl, n) : TRUE).node
  ELSE IF Cardinality(LiveArgs(nds, n)) = 1 THEN CHOOSE m \in LiveArgs(nds, n) : TRUE
  ELSE n

(* One turn of the loop of sea_scope_end_loop, for slot i.                 *)
ClosePhi(st, i) ==
  LET phi   == st.head.slots[i]
      other == st.back.slots[i]
      entry == st.nodes[phi].args[1]
      nds   == [st.nodes EXCEPT ![phi] =
                  Phi(@.reg, <<entry, IF other = phi THEN entry ELSE other>>)]
      in    == PeepholePhi(nds, st.table, phi)
  IN  IF ~ IsPhiOf(st.nodes, phi, Ctrl(st.head)) THEN [st EXCEPT !.ok = FALSE]
      ELSE IF in = phi
      THEN [st EXCEPT !.nodes = nds, !.table = @ \cup {PhiKey(nds, phi)}]
      ELSE [st EXCEPT !.nodes = Subsume(nds, phi, in),
                      !.head = SwapIn(@, phi, in),
                      !.back = SwapIn(@, phi, in),
                      !.exit = SwapIn(@, phi, in),
                      !.val = Swap(@, phi, st.val[in])]

(* Before its loop: the back edge is set.                                  *)
Closing(head, back, exit) ==
  [nodes |-> [nodes EXCEPT ![Ctrl(head)] = Loop(<<@.args[1], Ctrl(back)>>)],
   table |-> table, val |-> val, ok |-> TRUE,
   head |-> head, back |-> back, exit |-> exit]

(* Mistake: starts at the second variable.                                 *)
EndLoopLate(head, back, exit) ==
  LET closed[i \in 1 .. Len(head.slots)] ==
        IF i <= 2 THEN Closing(head, back, exit) ELSE ClosePhi(closed[i - 1], i)
  IN  closed[Len(head.slots)]

(* The rest of sea_scope_end_loop.                                         *)
EndLoop(head, back, exit) ==
  LET closed[i \in 1 .. Len(head.slots)] ==
        IF i = 1 THEN Closing(head, back, exit) ELSE ClosePhi(closed[i - 1], i)
  IN  closed[Len(head.slots)]
-----------------------------------------------------------------------------
(* The meaning of a name on the followed run, innermost block first.       *)
Blocks(x)  == {l \in DOMAIN env : x \in DOMAIN env[l]}
Meaning(x) == env[Max(Blocks(x))][x]
Bind(l, x, v) ==
  IF on THEN [env EXCEPT ![l] = [y \in DOMAIN @ \cup {x} |->
                                  IF y = x THEN v ELSE @[y]]]
  ELSE env

(* The values expressions have: a new node, or that of a variable.         *)
Expr == {"new"} \cup Visible(curr)
Value(e)   == IF e = "new" THEN next ELSE Lookup(curr, e)
Meant(e)   == IF e = "new" \/ ~ on THEN next ELSE Meaning(e)
Compute(e) ==
  IF e # "new" THEN UNCHANGED <<nodes, next, val>>
  ELSE /\ next <= MaxNode
       /\ nodes' = [nodes EXCEPT ![next] = Def]
       /\ val' = [val EXCEPT ![next] = next]
       /\ next' = next + 1

InBlock == {"func", "block", "then", "else", "body"}
Top(fs) == fault = "none" /\ frames # <<>> /\ Last(frames).fn \in fs
ReadIn(fs) == /\ Top(fs) /\ read < MaxStmt
              /\ read' = read + 1
Statement  == ReadIn(InBlock)
Depth   == Len(curr.list) - 2

(* The frame on top, and what fn goes on with.                             *)
SetTop(f) == [frames EXCEPT ![Len(frames)] = f]
Become(f, fn) == [f EXCEPT !.fn = fn]

(* sea_begin_scope, sea_add_function and the '{' of the body: one block for *)
(* the parameters, one for the body.                                       *)
Init ==
  LET params == Len(Arg)
      cells == <<[name |-> "@ctrl", slot |-> 1]>>
               \o [i \in DOMAIN Arg |-> [name |-> Arg[i], slot |-> i + 1]]
  IN  /\ nodes = [n \in Node |-> IF n <= params THEN Def ELSE Gone]
      /\ next = params + 1
      /\ table = {}
      /\ read = 0
      /\ curr = PushScope([slots |-> <<Live>> \o [i \in 1 .. params |-> i],
                           list |-> <<[inputlen |-> 0, cells |-> cells]>>])
      /\ frames = <<[fn |-> "func"]>>
      /\ fault = "none"
      /\ val = [n \in Node |-> IF n <= params THEN n ELSE Null]
      /\ on = TRUE
      /\ env = <<[x \in ToSet(Arg) |-> CHOOSE i \in DOMAIN Arg : Arg[i] = x], <<>>>>

(* int x = e.                                                              *)
Declare(x, e) ==
  /\ Statement
  /\ Compute(e)
  /\ curr' = Insert(curr, x, Value(e))
  /\ env' = Bind(Len(env), x, Meant(e))
  /\ UNCHANGED <<table, frames, fault, on>>

(* x = e.                                                                  *)
Assign(x, e) ==
  /\ Statement /\ x \in Visible(curr)
  /\ Compute(e)
  /\ curr' = Update(curr, x, Value(e))
  /\ env' = IF on THEN Bind(Max(Blocks(x)), x, Meant(e)) ELSE env
  /\ UNCHANGED <<table, frames, fault, on>>

(* return e: sea_node_set_ctrl(curr, sea_create_dead_ctrl).                *)
Return ==
  /\ Statement
  /\ curr' = SetCtrl(curr, Dead)
  /\ on' = FALSE
  /\ UNCHANGED <<nodes, next, table, frames, fault, val, env>>

Enter(sc) ==
  /\ curr' = PushScope(sc)
  /\ env' = Append(env, <<>>)

OpenBlock ==
  /\ Statement /\ Depth < MaxDepth
  /\ Enter(curr)
  /\ frames' = Append(frames, [fn |-> "block"])
  /\ UNCHANGED <<nodes, next, table, fault, val, on>>

CloseBlock ==
  /\ Top({"block"})
  /\ curr' = PopScope(curr)
  /\ env' = Front(env)
  /\ frames' = Front(frames)
  /\ UNCHANGED <<nodes, next, table, read, fault, val, on>>

(* The control of the two projections of an If (compute_if,                *)
(* sea_idealize_proj).                                                     *)

(* Mistake: the projection asks for its own type, not for the other one's. *)
IfControlOwn(ctrl, cond, branch) ==
  CASE ctrl = Dead   -> Dead
    [] cond = "any"  -> Live
    [] cond = branch -> Dead
    [] OTHER         -> ctrl

IfControl(ctrl, cond, branch) ==
  CASE ctrl = Dead   -> Dead
    [] cond = "any"  -> Live
    [] cond = branch -> ctrl
    [] OTHER         -> Dead
Takes(cond, take) == cond = "any" \/ cond = (IF take THEN "true" ELSE "false")

(* parse_if up to its first block.                                         *)
If(cond, take) ==
  LET dup == Duplicate(curr) IN
  /\ ReadIn(InBlock \cup {"between"})
  /\ Depth < MaxDepth /\ Takes(cond, take)
  /\ fault' = IF dup.ok THEN fault ELSE "slot_moved"
  /\ Enter(SetCtrl(curr, IfControl(Ctrl(curr), cond, "true")))
  /\ frames' = Append(
       IF Top(InBlock) THEN frames ELSE SetTop(Become(Last(frames), "merge")),
       [fn |-> "then", other |-> dup.sc, was |-> on, take |-> take, cont |-> FALSE,
        ctrl |-> IfControl(Ctrl(curr), cond, "false")])
  /\ on' = (on /\ take)
  /\ UNCHANGED <<nodes, next, table, val>>

(* The '}' of the first block, and the switch to the other scope.          *)
EndThen ==
  LET f == Last(frames) IN
  /\ Top({"then"})
  /\ frames' = SetTop([f EXCEPT !.fn = "between", !.other = PopScope(curr),
                               !.cont = on])
  /\ curr' = SetCtrl(f.other, f.ctrl)
  /\ env' = Front(env)
  /\ on' = (f.was /\ ~ f.take)
  /\ UNCHANGED <<nodes, next, table, read, fault, val>>

(* else { ... }; else if is an If on top of this one.                      *)
Else ==
  /\ Top({"between"}) /\ Depth < MaxDepth
  /\ Enter(curr)
  /\ frames' = SetTop(Become(Last(frames), "else"))
  /\ UNCHANGED <<nodes, next, table, read, fault, val, on>>

EndElse ==
  /\ Top({"else"})
  /\ curr' = PopScope(curr)
  /\ env' = Front(env)
  /\ frames' = SetTop(Become(Last(frames), "merge"))
  /\ UNCHANGED <<nodes, next, table, read, fault, val, on>>

(* The end of parse_if: sea_merge_scopes, and its region as the control.   *)
(* Nodes that the dead control of the region takes away are made again.    *)
Merge ==
  LET f    == Last(frames)
      that == f.other
      made == 1 + Cardinality(Differing(curr, that))
      done == IdealizeRegion(MergeNodes(curr, that), MergeHead(curr, that), next)
  IN
  /\ Top({"between", "merge"})
  /\ frames' = Front(frames)
  /\ on' = IF f.take THEN f.cont ELSE on
  /\ IF Len(curr.slots) # Len(that.slots)
     THEN /\ fault' = "lengths_differ"
          /\ UNCHANGED <<nodes, next, curr, val>>
     ELSE /\ next + made - 1 <= MaxNode
          /\ nodes' = done.nodes
          /\ curr' = done.sc
          /\ next' = IF Ctrl(done.sc) = next THEN next + made ELSE next
          /\ val' = [n \in Node |->
               IF n < next \/ nodes'[n].kind # "phi" THEN val[n]
               ELSE LET in == nodes'[n].args[IF f.take THEN 2 ELSE 1]
                    IN  val[in]]
          /\ UNCHANGED fault
  /\ UNCHANGED <<table, read, env>>

(* parse_while up to its block: the run goes into the body or past it from *)
(* any of the iterations, with the variables as they are then, each the    *)
(* value of its phi.                                                       *)
While(cond, go) ==
  LET head == LoopHead(SetCtrl(curr, next))
      dup  == Duplicate(head)
      henv == [l \in DOMAIN env |-> [x \in DOMAIN env[l] |->
                CHOOSE c \in Cells(head, l) : c.name = x]]
      tokens == [l \in DOMAIN env |-> [x \in DOMAIN env[l] |->
                  LoopPhi(henv[l][x].slot)]]
  IN
  /\ Statement
  /\ Depth < MaxDepth /\ Takes(cond, go)
  /\ next + Len(curr.slots) - 1 <= MaxNode
  /\ nodes' = LoopNodes(curr, Ctrl(curr))
  /\ next' = next + Len(curr.slots)
  /\ val' = [n \in Node |-> IF nodes'[n].kind = "phi" /\ n >= next THEN n ELSE val[n]]
  /\ fault' = IF dup.ok THEN fault ELSE "slot_moved"
  /\ curr' = PushScope(SetCtrl(dup.sc, IfControl(next, cond, "true")))
  /\ env' = Append(IF on THEN tokens ELSE env, <<>>)
  /\ frames' = Append(frames,
       [fn |-> "body", head |-> head, was |-> on, go |-> go,
        exit |-> SetCtrl(dup.sc, IfControl(next, cond, "false")),
        before |-> env, at |-> IF on THEN tokens ELSE env])
  /\ on' = (on /\ go)
  /\ UNCHANGED table

(* The '}' of the body and the rest of parse_while.                        *)
EndWhile ==
  LET f    == Last(frames)
      loop == nodes[Ctrl(f.head)]
      end  == EndLoop(f.head, PopScope(curr), f.exit)
  IN
  /\ Top({"body"})
  /\ frames' = Front(frames)
  /\ on' = (f.was /\ ~ f.go)
  /\ curr' = end.exit
  /\ IF loop.kind # "loop" \/ loop.args[2] # Null
     THEN fault' = "not_in_progress" /\ UNCHANGED <<nodes, table, val>>
     ELSE /\ fault' = IF end.ok THEN fault ELSE "not_a_phi"
          /\ nodes' = end.nodes
          /\ table' = end.table
          /\ val' = end.val
  /\ env' = [l \in DOMAIN f.at |-> [x \in DOMAIN f.at[l] |-> val'[f.at[l][x]]]]
  /\ UNCHANGED <<next, read>>

(* The '}' of the function and sea_end_scope.                              *)
EndFunction ==
  /\ Top({"func"})
  /\ frames' = <<>>
  /\ curr' = NoScope
  /\ env' = <<>>
  /\ UNCHANGED <<nodes, next, table, read, fault, val, on>>

Next ==
  \/ \E x \in Name, e \in {"new"} \cup Name :
       e \in Expr /\ (Declare(x, e) \/ Assign(x, e))
  \/ Return \/ OpenBlock \/ CloseBlock
  \/ \E c \in Conditions, b \in BOOLEAN : If(c, b) \/ While(c, b)
  \/ EndThen \/ Else \/ EndElse \/ Merge \/ EndWhile \/ EndFunction

Spec == Init /\ [][Next]_vars
-----------------------------------------------------------------------------
Slots     == Seq(Node \cup {Null, Live, Dead})
IsScope(sc) ==
  /\ sc.slots \in Slots
  /\ \A l \in DOMAIN sc.list :
       /\ sc.list[l].inputlen \in Nat
       /\ \A c \in Cells(sc, l) : c.name \in Name \cup {"@ctrl"}
                                  /\ c.slot \in DOMAIN sc.slots
TypeOK ==
  /\ \A n \in Node :
       /\ nodes[n].kind \in {"def", "region", "loop", "phi", "gone"}
       /\ nodes[n].reg \in Node \cup {Null}
       /\ nodes[n].args \in Slots
  /\ next \in 1 .. MaxNode + 1
  /\ \A e \in table : e.node \in Node /\ e.reg \in Node /\ e.args \in Slots
  /\ IsScope(curr)
  /\ read \in 0 .. MaxStmt
  /\ \A i \in DOMAIN frames :
       /\ frames[i].fn \in InBlock \cup {"between", "merge"}
       /\ frames[i].fn \in {"then", "between", "else", "merge"} => IsScope(frames[i].other)
       /\ frames[i].fn = "body" => IsScope(frames[i].head) /\ IsScope(frames[i].exit)
  /\ fault \in {"none", "slot_moved", "lengths_differ", "not_in_progress", "not_a_phi"}
  /\ val \in [Node -> Node \cup {Null}]
  /\ on \in BOOLEAN
  /\ \A l \in DOMAIN env : \A x \in DOMAIN env[l] : env[l][x] \in Node

(* On every run that comes through here, the scope gives each variable a   *)
(* node that evaluates to what the variable means: the phis of the merges  *)
(* and loops before, and the lookup of shadowed names, are right.          *)
ScopeMeaning ==
  on /\ frames # <<>> =>
    \A x \in Name : Blocks(x) # {} => val[Lookup(curr, x)] = Meaning(x)

(* Code that a run comes through never has dead control: what              *)
(* sea_create_return drops behind dead control was never run.              *)
LiveCode == on /\ frames # <<>> => Ctrl(curr) # Dead

(* The Asserts of sea_duplicate_scope, sea_merge_scopes and                *)
(* sea_scope_end_loop hold for every program.                              *)
AssertsHold == fault = "none"

(* A phi has one value for each control of its region or loop, and only the *)
(* phis of a loop whose body is being read lack one.                       *)
OpenLoops == {Ctrl(frames[i].head) : i \in {j \in DOMAIN frames :
                                             frames[j].fn = "body"}}
PhisComplete ==
  fault = "none" => \A n \in Node :
    nodes[n].kind = "phi" =>
      LET r == nodes[n].reg IN
      /\ nodes[r].kind \in {"region", "loop"}
      /\ Len(nodes[n].args) = Len(nodes[r].args)
      /\ Null \in ToSet(nodes[n].args) <=> r \in OpenLoops

(* The blocks of a scope number its slots without gaps, in order, and the  *)
(* scopes parse_if and parse_while put aside have the blocks of the current *)
(* one, up to the block being read: why two scopes that meet correspond    *)
(* slot by slot.                                                           *)
Numbered(sc) ==
  /\ sc.list # <<>> /\ sc.list[1].inputlen = 0
  /\ \A l \in DOMAIN sc.list :
       /\ \A i \in DOMAIN sc.list[l].cells :
            sc.list[l].cells[i].slot = sc.list[l].inputlen + i
       /\ sc.list[l].inputlen + Len(sc.list[l].cells)
            = IF l = Len(sc.list) THEN Len(sc.slots) ELSE sc.list[l + 1].inputlen
PutAside(f) ==
  CASE f.fn \in {"then", "between", "else", "merge"} -> {f.other}
    [] f.fn = "body" -> {f.head, f.exit}
    [] OTHER -> {}
SameLayout ==
  fault = "none" /\ frames # <<>> =>
    /\ Numbered(curr)
    /\ \A i \in DOMAIN frames : \A sc \in PutAside(frames[i]) :
         Numbered(sc) /\ IsPrefix(sc.list, curr.list)

(* When a loop closes, what the scope then holds for each variable has the *)
(* variable's value before the loop on the entry, and its value at the end *)
(* of the body on the way back: what makes the phi, or the node that stands *)
(* for it, the value of the variable in every iteration.                   *)
ClosedLoop(f) ==
  \A l \in DOMAIN f.at : \A x \in DOMAIN f.at[l] :
    LET slot == (CHOOSE c \in Cells(f.head, l) : c.name = x).slot
        n    == curr'.slots[slot]
        phi  == IsPhiOf(nodes', n, Ctrl(f.head))
    IN  /\ f.was => f.before[l][x] = val'[IF phi THEN nodes'[n].args[1] ELSE n]
        /\ on => val'[env[l][x]] = val'[IF phi THEN nodes'[n].args[2] ELSE n]
LoopPhis ==
  [][frames # <<>> /\ Last(frames).fn = "body" /\ Len(frames') < Len(frames)
     /\ fault' = "none"
       => ClosedLoop(Last(frames))]_vars
=============================================================================
