------------------------------ MODULE SeaGraph ------------------------------
(***************************************************************************)
(* The node graph of one function (sea/sea_node.c): every node has an      *)
(* array of inputs and a list of users, and each edge is stored twice, as  *)
(* inputs[slot] of the user and as a <<user, slot>> entry in the user list *)
(* of the node it uses.                                                    *)
(*                                                                         *)
(* Nodes are reference counted through their user lists: sea_node_set_input*)
(* kills the node it drops when that was its last user, and               *)
(* sea_node_kill drops the inputs of the dying node with                   *)
(* sea_node_set_input.  The two functions are mutually recursive and work  *)
(* in place, so the model keeps the C call stack: one step runs from one   *)
(* call or return to the next.                                             *)
(*                                                                         *)
(* A definition under the word "Mistake:" is a wrong form of the one after *)
(* it, kept to see that the properties notice; no specification uses it.   *)
(***************************************************************************)
EXTENDS Integers, Sequences, SequencesExt

CONSTANTS
  Node,     (* The addresses sea_alloc can hand out.                       *)
  Kinds,    (* The node kinds in use; "Start" is one of them.              *)
  Lens,     (* The input lengths the creators allocate nodes with.         *)
  MaxIn,    (* Bound: the slots of an input array.                         *)
  MaxKeep,  (* Bound: sea_node_keep entries the client puts on a node.     *)
  Root,     (* fn->start.                                                  *)
  Null      (* The null pointer.                                           *)

ASSUME GraphAssumption ==
  /\ Null \notin Node
  /\ Root \in Node
  /\ MaxIn \in Nat \ {0}
  /\ Lens \subseteq 0 .. MaxIn
  /\ MaxKeep \in Nat
  /\ "Start" \in Kinds
  /\ Kinds \cap {"Free", "Invalid"} = {}

VARIABLES
  kind,      (* "Free" until sea_node_alloc, "Invalid" after sea_node_kill *)
  inputs,    (* node->inputs, Null in a slot that is not set               *)
  inputlen,  (* node->inputlen                                             *)
  users,     (* node->users without the entries of sea_node_keep           *)
  keeps,     (* how many sea_node_keep entries node->users has             *)
  count,     (* fn->node_count                                             *)
  stack,     (* the C call stack, the innermost call last                  *)
  fault      (* "none", or the Trap or Assert that stopped the process     *)

vars  == <<kind, inputs, inputlen, users, keeps, count, stack, fault>>

Slot == 0 .. MaxIn - 1
User == Node \X Slot

(* A frame holds the locals its function needs after the call it waits for. *)
Functions == {"set_input", "kill", "subsume", "unkeep",
              "remove_cleared", "remove_moved", "remove_filled"}
Frame == [fn: Functions, node: Node, slot: 0 .. MaxIn,
          input: Node \cup {Null}]

Call(f, n, s, in) == [fn |-> f, node |-> n, slot |-> s, input |-> in]

Live(n)   == kind[n] \in Kinds

(* Mistake: a node that is only kept counts as unused.                     *)
UnusedButKept(n) == users[n] = {}

Unused(n) == users[n] = {} /\ keeps[n] = 0
Idle      == stack = <<>> /\ fault = "none"
In(f)     == stack # <<>> /\ fault = "none" /\ Last(stack).fn = f

(* The edges a sea_node_set_input on the stack q has taken out of the user   *)
(* list and not yet overwritten in the input array.                        *)
Pending(q, u, s) ==
  \E i \in 1 .. Len(q) :
    q[i].fn = "set_input" /\ q[i].node = u /\ q[i].slot = s

TypeOK ==
  /\ kind \in [Node -> Kinds \cup {"Free", "Invalid"}]
  /\ inputs \in [Node -> [Slot -> Node \cup {Null}]]
  /\ inputlen \in [Node -> 0 .. MaxIn]
  /\ users \in [Node -> SUBSET User]
  /\ keeps \in [Node -> Nat]
  /\ count \in Int
  /\ stack \in Seq(Frame)
  /\ fault \in {"none", "user_missing", "start_killed"}

(* A new function: its Start node, nothing else (sea_add_function).        *)
Init ==
  /\ kind = [n \in Node |-> IF n = Root THEN "Start" ELSE "Free"]
  /\ inputs = [n \in Node |-> [s \in Slot |-> Null]]
  /\ inputlen = [n \in Node |-> 0]
  /\ users = [n \in Node |-> {}]
  /\ keeps = [n \in Node |-> 0]
  /\ count = 1
  /\ stack = <<>>
  /\ fault = "none"

-----------------------------------------------------------------------------
(* sea_node_kill(n) up to its loop, for the caller whose frames are k.     *)
Kill(n, k) ==
  /\ fault' = IF kind[n] = "Start" THEN "start_killed" ELSE fault
  /\ count' = count - 1
  /\ stack' = Append(k, Call("kill", n, 0, Null))

(* sea_node_set_input(n, in, s), up to its return or its call of           *)
(* sea_node_kill, for the caller whose frames are k.  The caller says what *)
(* keeps' is: it may just have put or dropped an entry.                    *)
SetInput(n, in, s, k) ==
  LET old == inputs[n][s] IN
  \/ /\ in = old                                    \* nothing to change
     /\ stack' = k
     /\ UNCHANGED <<inputs, users, count, fault>>
  \/ /\ in # old /\ old = Null                      \* an empty slot
     /\ users' = [users EXCEPT ![in] = @ \cup {<<n, s>>}]
     /\ inputs' = [inputs EXCEPT ![n][s] = in]
     /\ stack' = k
     /\ UNCHANGED <<count, fault>>
  \/ /\ in # old /\ old # Null                      \* Trap in remove_user
     /\ <<n, s>> \notin users[old]
     /\ fault' = "user_missing"
     /\ UNCHANGED <<inputs, users, count, stack>>
  \/ /\ in # old /\ old # Null                      \* old keeps other users
     /\ <<n, s>> \in users[old]
     /\ users[old] # {<<n, s>>} \/ keeps'[old] # 0
     /\ users' = [m \in Node |->
                    IF m = in THEN users[m] \cup {<<n, s>>}
                              ELSE users[m] \ {<<n, s>>}]
     /\ inputs' = [inputs EXCEPT ![n][s] = in]
     /\ stack' = k
     /\ UNCHANGED <<count, fault>>
  \/ /\ in # old /\ old # Null                      \* old was used here only
     /\ users[old] = {<<n, s>>} /\ keeps'[old] = 0
     /\ users' = [users EXCEPT ![old] = {}]
     /\ Kill(old, Append(k, Call("set_input", n, s, in)))
     /\ UNCHANGED inputs

(* Mistake: no sea_node_append_user once the old input has been killed.    *)
SetInputUnlisted ==
  LET f == Last(stack) IN
  /\ In("set_input")
  /\ inputs' = [inputs EXCEPT ![f.node][f.slot] = f.input]
  /\ stack' = Front(stack)
  /\ UNCHANGED <<kind, inputlen, users, keeps, count, fault>>

(* ... and from the return of sea_node_kill on.                            *)
SetInputReturn ==
  LET f == Last(stack) IN
  /\ In("set_input")
  /\ users' = [m \in Node |->
                 IF m = f.input THEN users[m] \cup {<<f.node, f.slot>>}
                                ELSE users[m]]
  /\ inputs' = [inputs EXCEPT ![f.node][f.slot] = f.input]
  /\ stack' = Front(stack)
  /\ UNCHANGED <<kind, inputlen, keeps, count, fault>>

(* Mistake: the loop does not advance.                                     *)
KillInputAgain ==
  LET f == Last(stack) IN
  /\ In("kill")
  /\ f.slot < inputlen[f.node]
  /\ keeps' = keeps
  /\ SetInput(f.node, Null, f.slot, stack)
  /\ UNCHANGED <<kind, inputlen>>

(* One turn of the loop of sea_node_kill: drop the next input.             *)
KillInput ==
  LET f == Last(stack) IN
  /\ In("kill")
  /\ f.slot < inputlen[f.node]
  /\ keeps' = keeps
  /\ SetInput(f.node, Null, f.slot,
              Append(Front(stack), Call("kill", f.node, f.slot + 1, Null)))
  /\ UNCHANGED <<kind, inputlen>>

KillReturn ==
  LET f == Last(stack) IN
  /\ In("kill")
  /\ f.slot >= inputlen[f.node]
  /\ kind' = [kind EXCEPT ![f.node] = "Invalid"]
  /\ inputlen' = [inputlen EXCEPT ![f.node] = 0]
  /\ stack' = Front(stack)
  /\ UNCHANGED <<inputs, users, keeps, count, fault>>

(* sea_node_unkeep as the last statement of its caller.                    *)
Unkeep ==
  /\ In("unkeep")
  /\ keeps' = [keeps EXCEPT ![Last(stack).input] = @ - 1]
  /\ stack' = Front(stack)
  /\ UNCHANGED <<kind, inputs, inputlen, users, count, fault>>
-----------------------------------------------------------------------------
(* The loop of sea_node_subsume takes the head of the user list; the order *)
(* of the list is left open, so any user may come first.                   *)
SubsumeUser ==
  LET f == Last(stack) IN
  /\ In("subsume")
  /\ keeps' = keeps
  /\ \E u \in users[f.node] : SetInput(u[1], f.input, u[2], stack)
  /\ UNCHANGED <<kind, inputlen>>

(* The call of sea_node_kill after the loop.  When the loop ran at all,    *)
(* sea_node_set_input has killed old already.                              *)
SubsumeKill ==
  LET f == Last(stack) IN
  /\ In("subsume")
  /\ users[f.node] = {}
  /\ Kill(f.node, Append(Front(stack), Call("unkeep", f.node, 0, f.input)))
  /\ UNCHANGED <<kind, inputs, inputlen, users, keeps>>

(* sea_node_remove_input: the slot has been cleared; the last input moves  *)
(* into it, kept while it has no slot.                                     *)
RemoveMove ==
  LET f == Last(stack)
      last == inputlen[f.node] - 1
      tmp == inputs[f.node][last]
  IN
  /\ In("remove_cleared")
  /\ f.slot < last
  /\ keeps' = [keeps EXCEPT ![tmp] = @ + 1]
  /\ SetInput(f.node, Null, last,
              Append(Front(stack), Call("remove_moved", f.node, f.slot, tmp)))
  /\ UNCHANGED <<kind, inputlen>>

RemoveFill ==
  LET f == Last(stack) IN
  /\ In("remove_moved")
  /\ keeps' = keeps
  /\ SetInput(f.node, f.input, f.slot,
              Append(Front(stack), Call("remove_filled", f.node, f.slot, f.input)))
  /\ UNCHANGED <<kind, inputlen>>

RemoveReturn ==
  LET f == Last(stack) IN
  /\ \/ In("remove_cleared") /\ f.slot >= inputlen[f.node] - 1 /\ keeps' = keeps
     \/ In("remove_filled") /\ keeps' = [keeps EXCEPT ![f.input] = @ - 1]
  /\ inputlen' = [inputlen EXCEPT ![f.node] = @ - 1]
  /\ stack' = Front(stack)
  /\ UNCHANGED <<kind, inputs, users, count, fault>>

(* The process between two calls of the functions above.                   *)
Return ==
  \/ SetInputReturn \/ KillInput \/ KillReturn \/ Unkeep
  \/ SubsumeUser \/ SubsumeKill \/ RemoveMove \/ RemoveFill \/ RemoveReturn
-----------------------------------------------------------------------------
(* The calls of the code that builds and rewrites the graph.  It passes    *)
(* pointers to nodes that are alive when it calls.                         *)

(* sea_node_alloc(fn, k, _, len).                                          *)
Alloc(n, k, len) ==
  /\ Idle /\ kind[n] = "Free"
  /\ kind' = [kind EXCEPT ![n] = k]
  /\ inputlen' = [inputlen EXCEPT ![n] = len]
  /\ count' = count + 1
  /\ UNCHANGED <<inputs, users, keeps, stack, fault>>

(* The creators, and the back edges of loops and phis: a slot that is      *)
(* still empty is filled.                                                  *)
Link(n, in, s) ==
  /\ Idle /\ Live(n) /\ Live(in)
  /\ s < inputlen[n] /\ inputs[n][s] = Null
  /\ keeps' = keeps
  /\ SetInput(n, in, s, <<>>)
  /\ UNCHANGED <<kind, inputlen>>

(* sea_node_append_input.                                                  *)
AppendInput(n, in) ==
  LET s == inputlen[n] IN
  /\ Idle /\ Live(n) /\ Live(in) /\ n # Root     \* Start has no inputs
  /\ s < MaxIn
  /\ inputlen' = [inputlen EXCEPT ![n] = s + 1]
  /\ keeps' = keeps
  /\ SetInput(n, in, s, <<>>)
  /\ UNCHANGED kind

(* Scope slots that go out of scope: sea_node_set_input(fn, n, 0, s).      *)
Clear(n, s) ==
  /\ Idle /\ Live(n) /\ s < inputlen[n]
  /\ keeps' = keeps
  /\ SetInput(n, Null, s, <<>>)
  /\ UNCHANGED <<kind, inputlen>>

(* Mistake: sea_node_set_ctrl without its sea_node_keep.                   *)
SetCtrlUnkept(n, ctrl) ==
  /\ Idle /\ Live(n) /\ Live(ctrl) /\ 0 < inputlen[n]
  /\ keeps' = keeps
  /\ SetInput(n, ctrl, 0, <<Call("unkeep", n, 0, ctrl)>>)
  /\ UNCHANGED <<kind, inputlen>>

(* sea_node_set_ctrl: slot 0 changes under a sea_node_keep of its new value. *)
SetCtrl(n, ctrl) ==
  /\ Idle /\ Live(n) /\ Live(ctrl) /\ 0 < inputlen[n]
  /\ keeps' = [keeps EXCEPT ![ctrl] = @ + 1]
  /\ SetInput(n, ctrl, 0, <<Call("unkeep", n, 0, ctrl)>>)
  /\ UNCHANGED <<kind, inputlen>>

(* A slot that is in use changes without a keep, as in                     *)
(* sea_scope_update_symbol.                                                *)
Store(n, in, s) ==
  /\ Idle /\ Live(n) /\ Live(in) /\ s < inputlen[n]
  /\ keeps' = keeps
  /\ SetInput(n, in, s, <<>>)
  /\ UNCHANGED <<kind, inputlen>>

(* sea_node_remove_input on a node whose slots are all set.                *)
RemoveInput(n, s) ==
  /\ Idle /\ Live(n) /\ s < inputlen[n]
  /\ \A t \in 0 .. inputlen[n] - 1 : inputs[n][t] # Null
  /\ keeps' = keeps
  /\ SetInput(n, Null, s, <<Call("remove_cleared", n, s, Null)>>)
  /\ UNCHANGED <<kind, inputlen>>

(* sea_node_subsume; the callers do not subsume a node they keep.          *)
Subsume(old, new) ==
  /\ Idle /\ Live(old) /\ Live(new) /\ old # new /\ keeps[old] = 0
  /\ keeps' = [keeps EXCEPT ![new] = @ + 1]
  /\ stack' = <<Call("subsume", old, 0, new)>>
  /\ UNCHANGED <<kind, inputs, inputlen, users, count, fault>>

(* sea_dead_code_elim: the node a peephole replaced dies when unused.      *)
DeadCodeElim(this, m) ==
  /\ Idle /\ Live(this) /\ Live(m) /\ this # m /\ Unused(this)
  /\ keeps' = [keeps EXCEPT ![m] = @ + 1]
  /\ Kill(this, <<Call("unkeep", this, 0, m)>>)
  /\ UNCHANGED <<kind, inputs, inputlen, users>>

(* sea_node_keep and sea_node_unkeep around a stretch of client code.      *)
KeepNode(n) ==
  /\ Idle /\ Live(n) /\ keeps[n] < MaxKeep
  /\ keeps' = [keeps EXCEPT ![n] = @ + 1]
  /\ UNCHANGED <<kind, inputs, inputlen, users, count, stack, fault>>

UnkeepNode(n) ==
  /\ Idle /\ keeps[n] > 0
  /\ keeps' = [keeps EXCEPT ![n] = @ - 1]
  /\ UNCHANGED <<kind, inputs, inputlen, users, count, stack, fault>>

GuardedCall ==
  \E n \in Node :
    \/ \E k \in Kinds \ {"Start"}, len \in Lens : Alloc(n, k, len)
    \/ \E s \in Slot : Clear(n, s) \/ RemoveInput(n, s)
    \/ \E m \in Node : \/ AppendInput(n, m) \/ SetCtrl(n, m)
                       \/ Subsume(n, m) \/ DeadCodeElim(n, m)
                       \/ \E s \in Slot : Link(n, m, s)
    \/ KeepNode(n) \/ UnkeepNode(n)

(* The calls that hold on to the node they store.                          *)
GuardedNext == Return \/ GuardedCall
GuardedSpec == Init /\ [][GuardedNext]_vars /\ WF_vars(Return)

(* Every call the repository makes.                                        *)
Next == GuardedNext \/ \E n, m \in Node, s \in Slot : Store(n, m, s)
Spec == Init /\ [][Next]_vars /\ WF_vars(Return)
-----------------------------------------------------------------------------
(* The two copies of every edge agree: a node lists <<user, slot>> exactly *)
(* when that slot holds it, except for a slot whose old value is being     *)
(* killed right now.  What sea_node_append_user, sea_node_remove_user and  *)
(* sea_node_set_input maintain together, through every nested kill.        *)
DefUse ==
  fault = "none" =>
    \A n, u \in Node, s \in Slot :
      <<u, s>> \in users[n] <=> inputs[u][s] = n /\ ~ Pending(stack, u, s)

(* No input of a living node is a killed node: what the keep entries of    *)
(* sea_node_set_ctrl, sea_node_remove_input, sea_node_subsume and          *)
(* sea_dead_code_elim are there for.                                       *)
NoDangling ==
  \A n \in Node, s \in Slot :
    Live(n) /\ inputs[n][s] # Null /\ ~ Pending(stack, n, s) => Live(inputs[n][s])

(* The graph has a cycle: a set of nodes each of which uses one of them.   *)
Cyclic ==
  \E C \in (SUBSET Node) \ {{}} :
    \A n \in C : \E s \in Slot : inputs[n][s] \in C

(* The Trap at the end of sea_node_remove_user (the user is not listed)    *)
(* needs a cycle of inputs: only a kill that comes back to the slot it     *)
(* started from finds its own entry gone.                                  *)
TrapNeedsCycle == fault = "user_missing" => Cyclic

(* The inductive invariant behind DefUse.  The pieces are stated for a     *)
(* stack q, since a step first replaces the frame that runs and then enters *)
(* sea_node_set_input.                                                     *)
Holding == {"subsume", "unkeep", "remove_moved", "remove_filled"}
Removing == {"remove_cleared", "remove_moved", "remove_filled"}

(* Who may call whom: the client's function is outermost, only calls of    *)
(* sea_node_kill nest, and everything they store is null.                  *)
ShapeAt(q, i) ==
  /\ i > 1 => q[i].fn \in {"set_input", "kill"}
  /\ q[i].fn = "kill" => i > 1
  /\ q[i].fn # "kill" => q[i].slot \in Slot
  /\ q[i].fn = "set_input" /\ q[i].input # Null => i <= 2
  /\ q[i].fn = "set_input" /\ i > 2 => /\ q[i - 1].fn = "kill"
                                      /\ q[i - 1].node = q[i].node
                                      /\ q[i - 1].slot = q[i].slot + 1
CallShape(q) == \A i \in 1 .. Len(q) : ShapeAt(q, i)

(* A frame that is going to unkeep a node has kept it.                     *)
HoldsKeep(q, kp) ==
  \A i \in 1 .. Len(q) :
    q[i].fn \in Holding => q[i].input \in Node /\ kp[q[i].input] > 0

(* The node sea_node_remove_input works on keeps its length meanwhile, and *)
(* the slots behind the cleared one keep their nodes.                      *)
OpenAt(q, i, len) ==
  q[i].fn \in Removing =>
    /\ q[i].slot < len[q[i].node]
    /\ Len(q) > 1 =>
         /\ q[2].fn = "set_input" /\ q[2].node = q[i].node
         /\ q[2].slot < len[q[i].node]
         /\ q[i].fn = "remove_cleared" => q[2].slot = q[i].slot
    /\ q[i].fn = "remove_cleared" =>
         \A t \in Slot : q[i].slot < t /\ t < len[q[i].node]
                          => inputs[q[i].node][t] # Null
RemoveOpen(q, len) == \A i \in 1 .. Len(q) : OpenAt(q, i, len)

(* An edge that is being replaced is still in the input array, and no two  *)
(* calls replace the same one.                                             *)
PendingFull(q) ==
  \A i \in 1 .. Len(q) :
    q[i].fn = "set_input" => inputs[q[i].node][q[i].slot] # Null
PendingOnce(q) ==
  \A i, j \in 1 .. Len(q) :
    /\ q[i].fn = "set_input" /\ q[j].fn = "set_input"
    /\ q[i].node = q[j].node /\ q[i].slot = q[j].slot
    => i = j

(* The loop of sea_node_kill has cleared the slots it has passed, the one  *)
(* that the frame above it is clearing excepted.                           *)
ClearingAbove(q, i, s) ==
  /\ i < Len(q) /\ q[i + 1].fn = "set_input"
  /\ q[i + 1].node = q[i].node /\ q[i + 1].slot = s
KillCleared(q) ==
  \A i \in 1 .. Len(q), s \in Slot :
    q[i].fn = "kill" /\ s < q[i].slot =>
      inputs[q[i].node][s] = Null \/ ClearingAbove(q, i, s)

StackInv ==
  /\ CallShape(stack)
  /\ HoldsKeep(stack, keeps)
  /\ RemoveOpen(stack, inputlen)
  /\ PendingFull(stack)
  /\ PendingOnce(stack)
  /\ KillCleared(stack)

IInv == TypeOK /\ DefUse /\ (fault = "none" => StackInv)

(* A node that is kept is never killed, whatever loses its last user       *)
(* meanwhile (sea_node_keep).                                              *)
KeptSurvives ==
  [][\A n \in Node : keeps[n] > 0 => kind'[n] = kind[n]]_vars

(* Every call comes back: the mutual recursion of sea_node_set_input and   *)
(* sea_node_kill ends, on cyclic graphs too, unless the process stops.     *)
CallsReturn == (stack # <<>>) ~> (stack = <<>> \/ fault # "none")
=============================================================================
