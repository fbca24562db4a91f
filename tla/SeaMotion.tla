----------------------------- MODULE SeaMotion -----------------------------
(***************************************************************************)
(* Where a value is computed: the dominators and their cached depths, and  *)
(* the two walks of sea/sea_codemotion.c that give every node that may     *)
(* move a block.  Everything is an operator on a function graph f:         *)
(*   f.node    the nodes: kind, inputs, vint; f.node[n].ins[1] is slot 0   *)
(*   f.users   the users of each node with the slot they use it in, newest *)
(*             first                                                       *)
(*   f.depth   node->idepth, 0 for not computed                            *)
(*   f.fault   "none", or what stopped the compiler                        *)
(*   f.stale   ghost: a depth was made from one that was not there yet     *)
(* A C function that writes depths gives [v |-> its result, f |-> f after].*)
(***************************************************************************)
EXTENDS Integers, Sequences, SequencesExt, FiniteSets, FiniteSetsExt

Null == 0

Kind(f, n)  == f.node[n].kind
In(f, n, s) == f.node[n].ins[s + 1]
Slots(f, n) == [i \in DOMAIN f.node[n].ins |-> i - 1]
Users(f, n) == [i \in DOMAIN f.users[n] |-> f.users[n][i].node]

(* sea_node_is_cfg                                                         *)
IsCfg(f, n) ==
  \/ Kind(f, n) \in {"Start", "Stop", "Region", "Loop", "If", "Return", "Jmp", "Ret"}
  \/ /\ Kind(f, n) = "Proj"
     /\ \/ Kind(f, In(f, n, 0)) = "Start" /\ f.node[n].vint = 0
        \/ Kind(f, In(f, n, 0)) \in {"If", "Jmp"}

(* node_is_pinned                                                          *)
Pinned(f, n) == Kind(f, n) \in {"Proj", "Copy", "Phi"} \/ IsCfg(f, n)

(* Mistake: the old input keeps the user.                                  *)
SetInputKept(f, n, s, in) ==
  IF in = In(f, n, s) THEN f
  ELSE [f EXCEPT !.users[in] = <<[node |-> n, slot |-> s]>> \o @,
                 !.node[n].ins[s + 1] = in]

(* sea_node_set_input, sea_node_alloc and its inputs.                      *)
SetInput(f, n, s, in) ==
  LET old == In(f, n, s)
      use == [node |-> n, slot |-> s]
      g   == IF old = Null THEN f
             ELSE [f EXCEPT !.users[old] = SelectSeq(@, LAMBDA u : u # use)]
  IN  IF in = old THEN f
      ELSE [g EXCEPT !.users[in] = <<use>> \o @, !.node[n].ins[s + 1] = in]

Alloc(f, kind, ins) ==
  LET n == Len(f.node) + 1
      g == [f EXCEPT !.node  = Append(@, [kind |-> kind, vint |-> 0,
                                          ins |-> [i \in DOMAIN ins |-> Null]]),
                     !.users = Append(@, <<>>), !.depth = Append(@, 0)]
  IN  FoldLeft(LAMBDA h, s : SetInput(h, n, s, ins[s + 1]), g, Slots(g, n))

Stop(f)  == CHOOSE n \in DOMAIN f.node : Kind(f, n) = "Stop"
Start(f) == CHOOSE n \in DOMAIN f.node : Kind(f, n) = "Start"
-----------------------------------------------------------------------------
Crash(f, what) == [v |-> Null, f |-> [f EXCEPT !.fault = what]]

RECURSIVE Idom(_, _), Idepth(_, _), Climb(_, _, _)

(* sea_node_idepth of two nodes, of a and then of b.                       *)
Pair(a, b)        == [a |-> a.v, b |-> b.v, f |-> b.f]
AndDepth(a, b)    == Pair(a, Idepth(a.f, b))
Depths(f, a, b)   == AndDepth(Idepth(f, a), b)

(* sea_node_lca                                                            *)
Lca(f, l, r) == IF r = Null THEN [v |-> l, f |-> f] ELSE Climb(f, l, r)

(* The loop of sea_node_lca, which ends without a return: build.sh's        *)
(* compiler leaves lhs, which the loop compared last, in the register.  The *)
(* deeper one goes up, both if they are level, the left one first.         *)
UpIf(test, f, n)     == IF test THEN Idom(f, n) ELSE [v |-> n, f |-> f]
ClimbOn(l, r)        == Climb(r.f, l, r.v)
ClimbRight(d, l, r)  == ClimbOn(l.v, UpIf(d.a <= d.b, l.f, r))
ClimbBoth(d, l, r)   == ClimbRight(d, UpIf(d.a >= d.b, d.f, l), r)
Climb(f, l, r) ==
  IF l = r \/ f.fault # "none" THEN [v |-> l, f |-> f]
  ELSE ClimbBoth(Depths(f, l, r), l, r)

(* sea_node_idom: on the way it writes the depth of a node with one        *)
(* control above it, from a depth above that may not be there yet.         *)
CacheDepth(f, n, up) ==
  [v |-> up, f |-> [f EXCEPT
     !.depth[n] = f.depth[up] + 1,
     !.stale = @ \/ (f.depth[up] = 0 /\ Kind(f, up) # "Start")]]
IdomAbove(f, n, up) ==
  CacheDepth(IF f.depth[up] = 0 THEN Idom(f, up).f ELSE f, n, up)
Idom(f, n) ==
  IF f.fault # "none" \/ n = Null THEN Crash(f, "null")
  ELSE CASE Kind(f, n) = "Region" ->
              FoldLeft(LAMBDA r, in : Lca(r.f, in, r.v),
                       [v |-> Null, f |-> f], f.node[n].ins)
         [] Kind(f, n) = "Loop" -> [v |-> In(f, n, 1), f |-> f]
         [] Kind(f, n) \in {"Start", "Stop"} -> [v |-> Null, f |-> f]
         [] OTHER -> IdomAbove(f, n, In(f, n, 0))

(* sea_node_idepth                                                         *)
DepthOf(dom)    == Idepth(dom.f, dom.v)
Under(n, depth) == [v |-> depth.v + 1, f |-> [depth.f EXCEPT !.depth[n] = depth.v + 1]]
Idepth(f, n) ==
  IF f.fault # "none" \/ n = Null THEN Crash(f, "null")
  ELSE CASE f.depth[n] # 0 -> [v |-> f.depth[n], f |-> f]
         [] f.depth[n] = 0 /\ Kind(f, n) = "Start" -> [v |-> 0, f |-> f]
         [] OTHER -> Under(n, DepthOf(Idom(f, n)))

(* sea_node_loop_depth.  The exit of a loop is looked for under an If, and *)
(* there is no If left after the instruction selection.  The case of Loop  *)
(* ends without a return; its depth is stored, and sea_global_code_motion  *)
(* asks every Loop, for nothing, before any node under it.                 *)
RECURSIVE LoopDepth(_, _)
LoopDepth(f, n) ==
  CASE Kind(f, n) \in {"Start", "Stop"} -> 1
    [] Kind(f, n) = "Region" -> LoopDepth(f, In(f, n, 1))
    [] Kind(f, n) = "Loop"   -> LoopDepth(f, In(f, n, 1)) + 1
    [] OTHER -> LoopDepth(f, In(f, n, 0))
                - IF Kind(f, n) = "Proj" /\ f.node[n].vint = 0
                     /\ Kind(f, In(f, n, 0)) = "If"
                     /\ Kind(f, In(f, In(f, n, 0), 0)) = "Loop" THEN 1 ELSE 0
-----------------------------------------------------------------------------
(* rpo_cfg                                                                 *)
RECURSIVE Rpo(_, _, _)
Rpo(f, list, n) ==
  IF ~ IsCfg(f, n) \/ n \in list.seen THEN list
  ELSE LET all == FoldLeft(LAMBDA l, u : Rpo(f, l, u),
                           [list EXCEPT !.seen = @ \cup {n}], Users(f, n))
       IN  [all EXCEPT !.order = <<n>> \o @]

(* cfg_zero: the block that a node is placed in; that of a projection is   *)
(* the one before its branch.                                              *)
CfgZero(f, n) ==
  IF n = Null \/ Kind(f, n) = "Start" THEN Null
  ELSE LET up == In(f, n, 0)
       IN  IF Kind(f, n) = "Proj" /\ Kind(f, up) # "Start" THEN In(f, up, 0) ELSE up

(* schedule_early: below all of the inputs, as far as depths tell.         *)
DeeperOf(early, block, d) == [f |-> d.f, early |-> IF d.b > d.a THEN block ELSE early]
Deeper(st, n, s) ==
  LET block == CfgZero(st.f, In(st.f, n, s)) IN
  IF In(st.f, n, s) = Null THEN st
  ELSE DeeperOf(st.early, block, Depths(st.f, st.early, block))

PlaceEarly(st, n, best) == [st EXCEPT !.f = SetInput(best.f, n, 0, best.early)]
EarlyHere(st, n) ==
  IF Pinned(st.f, n) THEN st
  ELSE PlaceEarly(st, n, FoldLeft(LAMBDA b, s : Deeper(b, n, s),
                                  [f |-> st.f, early |-> Start(st.f)],
                                  Tail(Slots(st.f, n))))

RECURSIVE Early(_, _)
Early(st, n) ==
  IF n = Null \/ n \in st.seen THEN st
  ELSE EarlyHere(FoldLeft(LAMBDA s, in :
                            IF in = Null \/ Pinned(s.f, in) THEN s ELSE Early(s, in),
                          [st EXCEPT !.seen = @ \cup {n}], st.f.node[n].ins), n)

(* The first half of sea_global_code_motion.                               *)
ScheduleEarly(f) ==
  LET rpo == Rpo(f, [seen |-> {}, order |-> <<>>], Start(f))
      Phis(st, n) == IF Kind(st.f, n) \notin {"Loop", "Region"} THEN st
                     ELSE FoldLeft(LAMBDA s, u :
                                     IF Kind(s.f, u) = "Phi" THEN Early(s, u) ELSE s,
                                   st, Users(st.f, n))
  IN  FoldLeft(LAMBDA st, n :
                 FoldLeft(LAMBDA s, in : Phis(Early(s, in), n), st, f.node[n].ins),
               [f |-> f, seen |-> rpo.seen], rpo.order).f
-----------------------------------------------------------------------------
(* is_forward_edge                                                         *)
Forward(f, user, n) ==
  ~ /\ Len(f.node[user].ins) > 2 /\ In(f, user, 2) = n
    /\ \/ Kind(f, user) = "Loop"
       \/ Kind(f, user) = "Phi" /\ Kind(f, In(f, user, 0)) = "Loop"

(* Mistake: a phi uses its input where it is itself.                       *)
UseBlockOfPhi(f, late, n, user) == late[user]

(* use_block: a phi uses its input at the end of the block it comes from.  *)
UseBlock(f, late, n, user) ==
  IF Kind(f, user) # "Phi" THEN late[user]
  ELSE In(f, In(f, user, 0), Min({s \in 1 .. Len(f.node[user].ins) - 1 :
                                    In(f, user, s) = n}))

(* Mistake: the loops are not looked at.                                   *)
BetterFlat(f, lca, best, d) == Kind(f, best) = "If" \/ d.a > d.b

(* better, with the depths of both blocks.                                 *)
Better(f, lca, best, d) ==
  \/ LoopDepth(f, lca) < LoopDepth(f, best)
  \/ Kind(f, best) = "If"
  \/ d.a > d.b

(* The last loop of schedule_late: up from the lowest block to the highest. *)
RECURSIVE Choose(_, _, _, _)
Up(up, best, early) == Choose(up.f, up.v, best, early)
Compared(d, lca, best, early) ==
  Up(Idom(d.f, lca), IF Better(d.f, lca, best, d) THEN lca ELSE best, early)
ChooseBelow(end, lca, best, early) ==
  IF end.f.fault # "none" \/ lca = end.v THEN [v |-> best, f |-> end.f]
  ELSE IF lca = Null THEN Crash(end.f, "null")
  ELSE Compared(Depths(end.f, lca, best), lca, best, early)
Choose(f, lca, best, early) == ChooseBelow(Idom(f, early), lca, best, early)
ChooseFrom(lca, early) == Choose(lca.f, lca.v, lca.v, early)

(* The lowest block above all uses.                                        *)
LcaOfUses(st, n) ==
  FoldLeft(LAMBDA r, u : Lca(r.f, UseBlock(r.f, st.late, n, u), r.v),
           [v |-> Null, f |-> st.f], Users(st.f, n))

Placed(st, n, block) == [st EXCEPT !.late[n] = block.v, !.f = block.f]

PlaceLate(st, n) ==
  IF Pinned(st.f, n) \/ st.f.fault # "none" THEN st
  ELSE Placed(st, n, ChooseFrom(LcaOfUses(st, n), In(st.f, n, 0)))

(* schedule_late: the users that are below first.                          *)
RECURSIVE Late(_, _)
Late(st, n) ==
  LET f    == st.f
      head == CASE IsCfg(f, n) /\ Kind(f, n) \in {"Start", "Stop", "Proj"} -> n
                [] IsCfg(f, n) \/ Kind(f, n) = "Phi" -> In(f, n, 0)
                [] OTHER -> Null
  IN  IF st.late[n] # Null THEN st
      ELSE PlaceLate(FoldLeft(LAMBDA s, u : IF Forward(f, u, n) THEN Late(s, u) ELSE s,
                              [st EXCEPT !.late[n] = head], Users(f, n)), n)

(* The second half of sea_global_code_motion, in the order of the numbers. *)
MoveDown(st) ==
  IF st.f.fault # "none" THEN st.f
  ELSE FoldLeft(LAMBDA g, n : SetInput(g, n, 0, st.late[n]), st.f,
                SelectSeq([n \in DOMAIN st.f.node |-> n],
                          LAMBDA n : ~ Pinned(st.f, n)))
ScheduleLate(f) ==
  MoveDown(Late([f |-> f, late |-> [n \in DOMAIN f.node |-> Null]], Start(f)))
=============================================================================
