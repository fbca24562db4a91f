----------------------------- MODULE SeaCodegen -----------------------------
(***************************************************************************)
(* sea/sea_codegen.c on functions with branches and loops.  The statements *)
(* of the parser build a function graph; then the instruction selection,   *)
(* the code motion of SeaMotion, the copies for the phis, the local        *)
(* scheduler and the encoder run one after the other, and the code they    *)
(* leave is executed, every branch both ways.                              *)
(*                                                                         *)
(* A value is the node that computes it.  Every operation of a program is  *)
(* another operator, so that no peephole applies and only sharing is left. *)
(***************************************************************************)
EXTENDS SeaMotion

CONSTANTS
  Var,       (* The variables, all of them parameters: a sequence of names. *)
  MaxStmt,   (* Bound: statements of the program.                           *)
  MaxOp,     (* Bound: operations, conditions aside; there are four that    *)
             (* the machine has.                                            *)
  MaxDepth   (* Bound: branches and loops open at a time.                   *)

ASSUME CodegenAssumption ==
  /\ Len(Var) \in Nat \ {0} /\ MaxStmt \in Nat /\ MaxDepth \in Nat
  /\ MaxOp \in 0 .. 4

VARIABLES
  fn,       (* the function graph                                          *)
  scope,    (* m->curr: the control, then what each variable stands for    *)
  frames,   (* parse_if and parse_while on the C stack                     *)
  read,     (* how many statements have been read                          *)
  phase,    (* what runs                                                   *)
  code,     (* fn->sched, block by block as they are encoded               *)
  cpu       (* where the code is executed and what it has computed         *)

vars == <<fn, scope, frames, read, phase, code, cpu>>

Dead    == -1
Vars    == DOMAIN Var
Ctrl    == scope[1]
Of(v)   == scope[v + 1]
Count(kind) == Cardinality({n \in DOMAIN fn.node : Kind(fn, n) = kind})

(* A node of the parser has no list of users: the selection makes them.    *)
Node(kind, ins) == [kind |-> kind, ins |-> ins, vint |-> 0]
Proj(in, i)     == [kind |-> "Proj", ins |-> <<in>>, vint |-> i]
Made(nodes)     == fn' = [fn EXCEPT !.node = @ \o nodes]
New             == Len(fn.node) + 1
-----------------------------------------------------------------------------
(* sea_create_start and the Stop.                                          *)
Init ==
  /\ fn = [node  |-> <<Node("Stop", <<>>), Node("Start", <<>>)>>
                     \o [i \in 1 .. Len(Var) + 1 |-> Proj(2, i - 1)],
           users |-> <<>>, depth |-> <<>>, fault |-> "none", stale |-> FALSE]
  /\ scope = [i \in 1 .. Len(Var) + 1 |-> i + 2]
  /\ frames = <<>> /\ read = 0 /\ phase = "read"
  /\ code = <<>> /\ cpu = [at |-> 0]

Statement ==
  /\ phase = "read" /\ read < MaxStmt /\ Ctrl # Dead
  /\ read' = read + 1
  /\ UNCHANGED <<phase, code, cpu>>

(* v = an operation on all of the variables, or one there is already: the  *)
(* node map gives that one (sea_peephole).                                 *)
Operands == <<Null>> \o Tail(scope)
Equal    == {n \in DOMAIN fn.node : fn.node[n] = Node("Op", Operands)}
Assign(v) ==
  /\ Statement
  /\ \/ \E n \in Equal : scope' = [scope EXCEPT ![v + 1] = n] /\ UNCHANGED fn
     \/ /\ Count("Op") < MaxOp
        /\ Made(<<Node("Op", Operands)>>)
        /\ scope' = [scope EXCEPT ![v + 1] = New]
  /\ UNCHANGED frames

(* parse_if up to its first block: the condition, the If, its projections. *)
If(v) ==
  /\ Statement /\ Len(frames) < MaxDepth
  /\ Made(<<Node("Cmp", <<Null, Of(v)>>), Node("If", <<Ctrl, New>>),
            Proj(New + 1, 0), Proj(New + 1, 1)>>)
  /\ frames' = Append(frames, [at |-> "then", other |-> [scope EXCEPT ![1] = New + 2]])
  /\ scope' = [scope EXCEPT ![1] = New + 3]

(* The '}' of the first block: the second one starts, perhaps an empty one. *)
EndThen ==
  LET f == Last(frames) IN
  /\ phase = "read" /\ frames # <<>> /\ f.at = "then"
  /\ frames' = Append(Front(frames), [at |-> "else", other |-> scope])
  /\ scope' = f.other
  /\ UNCHANGED <<fn, read, phase, code, cpu>>

(* sea_merge_scopes: a region and its phis, or the scope that is alive.    *)
Merge ==
  LET that   == Last(frames).other
      differ == SelectSeq([i \in Vars |-> i + 1], LAMBDA i : scope[i] # that[i])
      phi(j) == Node("Phi", <<New, scope[differ[j]], that[differ[j]]>>)
  IN
  /\ phase = "read" /\ frames # <<>> /\ Last(frames).at = "else"
  /\ frames' = Front(frames)
  /\ IF Dead \in {Ctrl, that[1]}
     THEN scope' = (IF Ctrl = Dead THEN that ELSE scope) /\ UNCHANGED fn
     ELSE /\ Made(<<Node("Region", <<Null, Ctrl, that[1]>>)>>
                  \o [j \in DOMAIN differ |-> phi(j)])
          /\ scope' = [i \in DOMAIN scope |->
               IF i = 1 THEN New
               ELSE IF scope[i] = that[i] THEN scope[i]
               ELSE New + CHOOSE j \in DOMAIN differ : differ[j] = i]
  /\ UNCHANGED <<read, phase, code, cpu>>

(* parse_while up to its block: phis of all variables, and then as an if.  *)
While(v) ==
  LET phis == [w \in Vars |-> Node("Phi", <<New, Of(w), Null>>)]
      cmp  == New + Len(Var) + 1
      head == <<New>> \o [w \in Vars |-> New + w]
  IN
  /\ Statement /\ Len(frames) < MaxDepth
  /\ Made(<<Node("Loop", <<Null, Ctrl, Null>>)>> \o phis
          \o <<Node("Cmp", <<Null, New + v>>), Node("If", <<New, cmp>>),
               Proj(cmp + 1, 0), Proj(cmp + 1, 1)>>)
  /\ frames' = Append(frames, [at |-> "body", head |-> head,
                               other |-> [head EXCEPT ![1] = cmp + 2]])
  /\ scope' = [head EXCEPT ![1] = cmp + 3]

(* sea_scope_end_loop: a phi that only has its value before the loop is    *)
(* that value.                                                             *)
Swap(seq, old, new) == [i \in DOMAIN seq |-> IF seq[i] = old THEN new ELSE seq[i]]
ClosePhi(st, i) ==
  LET phi  == st.head[i]
      from == st.node[phi].ins[2]
      set  == [st.node EXCEPT ![phi].ins[3] = st.back[i]]
  IN  IF st.back[i] \notin {phi, from} THEN [st EXCEPT !.node = set]
      ELSE [node |-> [n \in DOMAIN set |-> [set[n] EXCEPT !.ins = Swap(@, phi, from)]],
            head |-> Swap(st.head, phi, from), back |-> Swap(st.back, phi, from),
            exit |-> Swap(st.exit, phi, from)]
EndWhile ==
  LET f   == Last(frames)
      end == FoldLeft(ClosePhi,
               [node |-> [fn.node EXCEPT ![f.head[1]].ins[3] = Ctrl],
                head |-> f.head, back |-> scope, exit |-> f.other],
               [w \in Vars |-> w + 1])
  IN
  /\ phase = "read" /\ frames # <<>> /\ f.at = "body" /\ Ctrl # Dead
  /\ frames' = Front(frames)
  /\ fn' = [fn EXCEPT !.node = end.node]
  /\ scope' = end.exit
  /\ UNCHANGED <<read, phase, code, cpu>>

(* return v: the Stop gets one more input, and the control is dead.        *)
Return(v) ==
  /\ IF frames = <<>> THEN read' = read /\ phase = "read" /\ Ctrl # Dead
                           /\ UNCHANGED <<phase, code, cpu>>
     ELSE Statement
  /\ fn' = [fn EXCEPT !.node = Append([@ EXCEPT ![1].ins = Append(@, New)],
                                      Node("Return", <<Ctrl, Of(v)>>))]
  /\ scope' = [scope EXCEPT ![1] = Dead]
  /\ UNCHANGED frames
-----------------------------------------------------------------------------
(* The walk from the Stop over the inputs; edges are in the order in which *)
(* the second walk of sea_instruction_selection adds the users.            *)
RECURSIVE Walk(_, _)
Walk(st, n) ==
  IF n \in ToSet(st.order) THEN st
  ELSE FoldLeft(LAMBDA s, i :
                  LET in == fn.node[n].ins[i] IN
                  IF in = Null THEN s
                  ELSE Walk([s EXCEPT !.edges =
                         Append(@, [in |-> in, node |-> n, slot |-> i - 1])], in),
                [st EXCEPT !.order = Append(@, n)],
                [i \in DOMAIN fn.node[n].ins |-> i])

Selected(kind) ==
  CASE kind = "If" -> "Jmp" [] kind = "Return" -> "Ret" [] OTHER -> kind

(* sea_instruction_selection: what the Stop needs, cloned, with new numbers. *)
Select ==
  LET walk   == Walk([order |-> <<>>, edges |-> <<>>], 1)
      new(n) == IF n = Null THEN Null ELSE IndexFirstSubSeq(<<n>>, walk.order)
      clone(n) == [kind |-> Selected(Kind(fn, n)), vint |-> fn.node[n].vint,
                   ins |-> [i \in DOMAIN fn.node[n].ins |-> new(fn.node[n].ins[i])]]
      uses(n)  == Reverse(SelectSeq(walk.edges, LAMBDA e : e.in = n))
  IN
  /\ phase = "read" /\ frames = <<>> /\ Ctrl = Dead
  /\ phase' = "selected"
  /\ fn' = [fn EXCEPT
       !.node  = [k \in DOMAIN walk.order |-> clone(walk.order[k])],
       !.users = [k \in DOMAIN walk.order |->
                    LET us == uses(walk.order[k]) IN
                    [i \in DOMAIN us |-> [node |-> new(us[i].node), slot |-> us[i].slot]]],
       !.depth = [k \in DOMAIN walk.order |-> 0]]
  /\ scope' = <<>>
  /\ UNCHANGED <<frames, read, code, cpu>>

Pass(from, to, f) ==
  /\ phase = from
  /\ fn' = f
  /\ phase' = IF f.fault = "none" THEN to ELSE "crashed"
  /\ UNCHANGED <<scope, frames, read, cpu>>

MoveEarly == Pass("selected", "early", ScheduleEarly(fn)) /\ UNCHANGED code
MoveLate  == Pass("early", "late", ScheduleLate(fn)) /\ UNCHANGED code

(* dessa_walk: every value of a phi is copied where its control comes from. *)
Copies(f, phi) ==
  FoldLeft(LAMBDA g, s :
             SetInput(Alloc(g, "Copy", <<In(g, In(g, phi, 0), s), In(g, phi, s)>>),
                      phi, s, Len(g.node) + 1),
           f, Tail(Slots(f, phi)))
RECURSIVE Dessa(_, _)
Dessa(st, n) ==
  IF n = Null \/ n \in st.seen \/ ~ IsCfg(st.f, n) THEN st
  ELSE LET ins == FoldLeft(LAMBDA s, in : Dessa(s, in), [st EXCEPT !.seen = @ \cup {n}], st.f.node[n].ins)
       IN  IF Kind(ins.f, n) \notin {"Loop", "Region"} THEN ins
           ELSE [ins EXCEPT !.f =
                   FoldLeft(LAMBDA g, u : IF Kind(g, u) = "Phi" THEN Copies(g, u) ELSE g,
                            @, Users(ins.f, n))]
Deconstruct ==
  Pass("late", "copied", Dessa([f |-> fn, seen |-> {}], Stop(fn)).f) /\ UNCHANGED code
-----------------------------------------------------------------------------
(* node_starts_bb                                                          *)
Starts(f, n) ==
  IsCfg(f, n) /\ Kind(f, n) \in {"Start", "Region", "Loop", "Proj"}

RECURSIVE BlockAbove(_, _)
BlockAbove(f, n) ==
  LET up == Idom(f, n) IN
  IF up.v = Null \/ Starts(up.f, up.v) THEN up ELSE BlockAbove(up.f, up.v)

(* Mistake: the sides of a branch are not hung up before the region.       *)
RECURSIVE DomTree(_, _)
DomTreeUnordered(st, n) ==
  IF n = Null \/ n \in st.seen \/ ~ IsCfg(st.f, n) \/ st.f.fault # "none" THEN st
  ELSE LET here == [st EXCEPT !.seen = @ \cup {n}]
           up   == BlockAbove(here.f, n)
           dom  == DomTree([here EXCEPT !.f = up.f], up.v)
           hung == CASE ~ Starts(st.f, n) -> here
                     [] up.v = Null -> [here EXCEPT !.f = up.f]
                     [] OTHER -> [dom EXCEPT !.under[up.v] = Append(@, n)]
       IN  FoldLeft(LAMBDA s, m : DomTree(s, m), hung, Users(st.f, n))

(* build_dom_tree; under gives the children of a block in their order.     *)
DomTree(st, n) ==
  IF n = Null \/ n \in st.seen \/ ~ IsCfg(st.f, n) \/ st.f.fault # "none" THEN st
  ELSE LET here == [st EXCEPT !.seen = @ \cup {n}]
           up   == BlockAbove(here.f, n)
           dom  == DomTree([here EXCEPT !.f = up.f], up.v)
           ends == IF Kind(st.f, n) # "Region" THEN dom
                   ELSE FoldLeft(LAMBDA s, m : DomTree(s, m), dom, st.f.node[n].ins)
           hung == CASE ~ Starts(st.f, n) -> here
                     [] up.v = Null -> [here EXCEPT !.f = up.f]
                     [] OTHER -> [ends EXCEPT !.under[up.v] = Append(@, n)]
       IN  FoldLeft(LAMBDA s, m : DomTree(s, m), hung, Users(st.f, n))

Within(f, b) == SelectSeq(Users(f, b), LAMBDA u : CfgZero(f, u) = b)
Waits(f, b, done, n) ==
  \E s \in 1 .. Len(f.node[n].ins) - 1 :
    LET in == In(f, n, s) IN in # Null /\ CfgZero(f, in) = b /\ in \notin ToSet(done)
RECURSIVE Drain(_, _, _, _, _)
(* Mistake: only the first node that became ready is taken over.           *)
DrainFirst(f, b, done, ready, waiting) ==
  IF ready = <<>> THEN done
  ELSE LET now  == Append(done, Last(ready))
           Free(n) == ~ Waits(f, b, now, n)
           free == SelectSeq(waiting, Free)
       IN  Drain(f, b, now, Front(ready) \o (IF free = <<>> THEN <<>> ELSE <<Head(free)>>),
                 SelectSeq(waiting, LAMBDA n : ~ Free(n)))

(* sched_bb: the last node that became ready goes first.                   *)
Drain(f, b, done, ready, waiting) ==
  IF ready = <<>> THEN done
  ELSE LET now  == Append(done, Last(ready))
           Free(n) == ~ Waits(f, b, now, n)
       IN  Drain(f, b, now,
                 Front(ready) \o SelectSeq(waiting, Free),
                 SelectSeq(waiting, LAMBDA n : ~ Free(n)))
SchedBlock(f, b) ==
  LET Free(n) == ~ Waits(f, b, <<>>, n) IN
  [begin |-> b, nodes |-> Drain(f, b, <<>>, SelectSeq(Within(f, b), Free),
                                SelectSeq(Within(f, b), LAMBDA n : ~ Free(n)))]

(* sched_dom_tree and encode_block: a block, then the blocks under it.     *)
RECURSIVE Blocks(_, _, _)
Blocks(f, under, b) ==
  <<SchedBlock(f, b)>> \o FlattenSeq([i \in DOMAIN under[b] |-> Blocks(f, under, under[b][i])])

(* sea_local_schedule and the order of sea_encode.                         *)
Schedule ==
  LET tree == DomTree([f |-> fn, seen |-> {},
                       under |-> [n \in DOMAIN fn.node |-> <<>>]], Start(fn))
  IN  /\ Pass("copied", "run", tree.f)
      /\ code' = IF tree.f.fault = "none"
                 THEN Blocks(tree.f, tree.under, Start(fn)) ELSE <<>>
-----------------------------------------------------------------------------
(* Where the jumps of encode_block go: to the false projection of a branch, *)
(* and from the end of a true projection to what it flows into.            *)
FirstUser(n, wanted) ==
  LET us == SelectSeq(Users(fn, n), LAMBDA u : u \in wanted) IN
  IF us = <<>> THEN Null ELSE us[1]
FalseOf(jmp) ==
  FirstUser(jmp, {u \in DOMAIN fn.node : Kind(fn, u) = "Proj" /\ fn.node[u].vint = 0})
JoinOf(b) ==
  FirstUser(b, {u \in DOMAIN fn.node : Kind(fn, u) \in {"Region", "Loop"}})
Jumps(b)     == Kind(fn, b) = "Proj" /\ fn.node[b].vint = 1
                /\ Kind(fn, In(fn, b, 0)) # "Start"

Block  == code[cpu.at]
Instr  == Block.nodes[cpu.i]
AtNode == phase = "run" /\ cpu.at \in DOMAIN code /\ cpu.i <= Len(Block.nodes)

(* The blocks of the code by their position.                               *)
Position(b) == IF \E k \in DOMAIN code : code[k].begin = b
               THEN CHOOSE k \in DOMAIN code : code[k].begin = b ELSE 0
(* A phi is no code: it is there on the way into its block, in the register *)
(* of the copies, when the copy for this way has been made.                *)
Arrived(from, b) ==
  {phi \in ToSet(Users(fn, b)) :
     /\ Kind(fn, phi) = "Phi" /\ In(fn, phi, 0) = b
     /\ \E s \in 1 .. 2 : In(fn, b, s) = from /\ In(fn, phi, s) \in cpu.done}
Goto(k) ==
  cpu' = [from |-> Block.begin, at |-> k, i |-> 1,
          done |-> cpu.done \cup IF k \notin DOMAIN code THEN {}
                                 ELSE Arrived(Block.begin, code[k].begin)]
Running == UNCHANGED <<fn, scope, frames, read, phase, code>>

Call ==
  /\ phase = "run" /\ cpu.at = 0
  /\ cpu' = [at |-> 1, i |-> 1, from |-> Null, done |-> {}]
  /\ Running

Compute ==
  /\ cpu.at # 0 /\ AtNode /\ Kind(fn, Instr) # "Ret"
  /\ cpu' = [cpu EXCEPT !.i = @ + 1, !.done = @ \cup IF Kind(fn, Instr) = "Phi" THEN {} ELSE {Instr}]
  /\ Running

Jump ==
  /\ cpu.at # 0 /\ AtNode /\ Kind(fn, Instr) = "Jmp"
  /\ Goto(Position(FalseOf(Instr)))
  /\ Running

EndOfBlock ==
  /\ cpu.at # 0 /\ ~ AtNode /\ phase = "run" /\ cpu.at \in DOMAIN code
  /\ Goto(IF Jumps(Block.begin) THEN Position(JoinOf(Block.begin)) ELSE cpu.at + 1)
  /\ Running

Next ==
  \/ \E v \in Vars : Assign(v) \/ If(v) \/ While(v) \/ Return(v)
  \/ EndThen \/ Merge \/ EndWhile
  \/ Select \/ MoveEarly \/ MoveLate \/ Deconstruct \/ Schedule
  \/ Call \/ Compute \/ Jump \/ EndOfBlock

Spec == Init /\ [][Next]_vars
-----------------------------------------------------------------------------
(* The control nodes on every path from the Start to n.                    *)
RECURSIVE Doms(_)
Doms(n) ==
  {n} \cup
  CASE Kind(fn, n) = "Start"  -> {}
    [] Kind(fn, n) = "Loop"   -> Doms(In(fn, n, 1))
    [] Kind(fn, n) = "Region" -> Doms(In(fn, n, 1)) \cap Doms(In(fn, n, 2))
    [] OTHER -> Doms(In(fn, n, 0))

Nodes    == DOMAIN fn.node
Inputs(n) == {In(fn, n, s) : s \in 1 .. Len(fn.node[n].ins) - 1} \ {Null}
Values   == {n \in Nodes : ~ Pinned(fn, n)}
UsedIn(n, u) ==
  IF Kind(fn, u) # "Phi" THEN {In(fn, u, 0)}
  ELSE {In(fn, In(fn, u, 0), s) : s \in {t \in 1 .. 2 : In(fn, u, t) = n}}

(* The blocks a value may be in: they dominate all of its uses, and those   *)
(* of its inputs dominate them.                                            *)
Legal(n) ==
  {b \in Nodes : /\ IsCfg(fn, b)
                 /\ \A u \in ToSet(Users(fn, n)) : \A c \in UsedIn(n, u) : b \in Doms(c)
                 /\ \A in \in Inputs(n) : CfgZero(fn, in) \in Doms(b)}

(* Of these, the last one in the fewest loops.                             *)
Best(n) ==
  LET loops == Min({LoopDepth(fn, b) : b \in Legal(n)})
      least == {b \in Legal(n) : LoopDepth(fn, b) = loops}
  IN  CHOOSE b \in least : \A c \in least : c \in Doms(b)

(* The lists of users and the inputs are the same edges, through selection, *)
(* code motion and the copies, and every node has a known kind.            *)
TypeOK ==
  /\ phase \in {"read", "selected", "early", "late", "copied", "run", "crashed"}
  /\ \A n \in Nodes : Kind(fn, n) \in
       {"Start", "Stop", "Region", "Loop", "If", "Return", "Jmp", "Ret", "Proj",
        "Phi", "Copy", "Op", "Cmp"}
  /\ phase # "read" => \A n \in Nodes :
       /\ Len(fn.users[n]) = Cardinality(ToSet(fn.users[n]))
       /\ ToSet(fn.users[n]) =
            UNION {{[node |-> m, slot |-> s - 1] : s \in {t \in DOMAIN fn.node[m].ins :
                                                           fn.node[m].ins[t] = n}} : m \in Nodes}

(* The code motion gives every value a block in which it is computed before *)
(* it is used on every path, whatever the depths it had.                   *)
Placement == phase = "late" => \A n \in Values : In(fn, n, 0) \in Legal(n)

(* While no depth is made from one that is missing, the block is the best   *)
(* one and the search for it does not leave the graph. With such a depth,   *)
(* sea_node_lca can climb past the Start, or a value be moved up for       *)
(* nothing.                                                                *)
Motion ==
  /\ phase = "crashed" => fn.stale
  /\ phase = "late" /\ ~ fn.stale => \A n \in Values : In(fn, n, 0) = Best(n)

(* The Assert of schedule_late that a value is not placed at a branch knows *)
(* If, and there are only Jmp. The values placed there, those that both    *)
(* sides of a branch use and nothing before it, are the ones local         *)
(* scheduling never sees; all other nodes are in the code once.            *)
Lost(n)   == n \in Values /\ Kind(fn, In(fn, n, 0)) = "Jmp"
Places(n) == {<<k, i>> \in (DOMAIN code) \X (1 .. Len(fn.node)) :
                 i \in DOMAIN code[k].nodes /\ code[k].nodes[i] = n}
Begins(n) == {k \in DOMAIN code : code[k].begin = n}
Scheduled ==
  phase = "run" /\ cpu.at = 0 => \A n \in Nodes :
    /\ Cardinality(Begins(n)) = IF Starts(fn, n) THEN 1 ELSE 0
    /\ Cardinality(Places(n)) =
         IF CfgZero(fn, n) = Null \/ Lost(n) \/ Kind(fn, n) = "Stop"
            \/ (Starts(fn, n) /\ Kind(fn, In(fn, n, 0)) = "Jmp") THEN 0 ELSE 1

(* A true projection whose block joins the rest, or goes round the loop, at *)
(* its end: the only place where encode_block writes a jump.               *)
Joins ==
  \A n \in Nodes : Jumps(n) =>
    LET join == JoinOf(n) IN join # Null /\ In(fn, join, 2) = n

(* The code of a function takes the edges of its graph and no others, does  *)
(* not run past its end, and computes every node from inputs that have      *)
(* been computed, for every outcome of its branches: if no value is lost,   *)
(* none was moved up for nothing, and the code of every first branch and    *)
(* of every loop is one block that is not left in another way.             *)
Edge(p, b) ==
  IF Kind(fn, b) \in {"Region", "Loop"} THEN p \in {In(fn, b, 1), In(fn, b, 2)}
  ELSE CfgZero(fn, b) = p
Ready(n) == IF Kind(fn, n) = "Phi" THEN n \in cpu.done ELSE Inputs(n) \subseteq cpu.done
CodeRuns ==
  phase = "run" /\ cpu.at # 0 /\ ~ fn.stale /\ Joins /\ ~ (\E n \in Nodes : Lost(n)) =>
    /\ cpu.at \in DOMAIN code
    /\ cpu.from # Null => Edge(cpu.from, Block.begin)
    /\ AtNode => Ready(Instr)
=============================================================================
