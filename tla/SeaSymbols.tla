----------------------------- MODULE SeaSymbols -----------------------------
(***************************************************************************)
(* The symbol table of a module (sea/sea_module.c) from the declarations    *)
(* of the parser to the encoder and the jit.  A bucket is a chain of       *)
(* entries linked by next_hash, and every walk along it is                 *)
(*                                                                         *)
(*     while ( *cell) { ...  *cell = ( *cell)->next_hash; }                *)
(*                                                                         *)
(* which does not move cell: it stores the next entry into the bucket.  So *)
(* the entries a walk passes are no longer in the table, and a lookup, made *)
(* under the read lock, is a write.                                        *)
(***************************************************************************)
EXTENDS Integers, Sequences

CONSTANTS
  Name,        (* Names of functions, structs, variables and types.        *)
  Bucket,      (* 0 .. symbols.cap - 1                                     *)
  Hash,        (* u64_hash_from_str8(name) % cap                           *)
  MaxSymbol,   (* Bound: entries of the queue.                             *)
  MaxFunction  (* Bound: functions with a body.                            *)

ASSUME SymbolAssumption ==
  /\ Hash \in [Name -> Bucket]
  /\ MaxSymbol \in Nat
  /\ MaxFunction \in Nat

VARIABLES
  cells,      (* symbols.cells: for each bucket its chain of entries       *)
  entries,    (* the queue symbols.first .. symbols.last                   *)
  functions,  (* the queue mod->functions: their names                     *)
  encoded,    (* how many of them sea_codegen_module has done              *)
  fault       (* "null_entry": the process died on a null pointer          *)

vars == <<cells, entries, functions, encoded, fault>>

(* An entry is known by its place in the queue.  The position it gets is    *)
(* that of a function in the code, the first one starting at 0.            *)
EntryRecord == [name : Name, pos : 0 .. MaxFunction]

TypeOK ==
  /\ entries \in Seq(EntryRecord)
  /\ cells \in [Bucket -> Seq(1 .. Len(entries))]
  /\ functions \in Seq(Name) /\ Len(functions) <= MaxFunction
  /\ encoded \in 0 .. Len(functions)
  /\ fault \in {"none", "null_entry"}

Init ==
  /\ cells = [b \in Bucket |-> <<>>]
  /\ entries = <<>>
  /\ functions = <<>>
  /\ encoded = 0
  /\ fault = "none"
-----------------------------------------------------------------------------
Found(chain, x) == \E i \in DOMAIN chain : entries[chain[i]].name = x

(* Where the walk stops: at the first entry with the name.                 *)
StopsAt(chain, x) ==
  CHOOSE i \in DOMAIN chain :
    /\ entries[chain[i]].name = x
    /\ \A j \in 1 .. i - 1 : entries[chain[j]].name # x

(* Mistake: the walk stops one entry too late.                             *)
WalkPast(chain, x) ==
  IF Found(chain, x) THEN SubSeq(chain, StopsAt(chain, x) + 1, Len(chain)) ELSE <<>>

(* What the walk leaves of the chain.                                      *)
Walk(chain, x) ==
  IF Found(chain, x) THEN SubSeq(chain, StopsAt(chain, x), Len(chain)) ELSE <<>>

(* sea_lookup_symbol, which gives the head of the chain it leaves.         *)
Lookup(x) == cells' = [cells EXCEPT ![Hash[x]] = Walk(@, x)]

(* Mistake: no check for the name.                                         *)
AddAgain(x) ==
  /\ Len(entries) < MaxSymbol
  /\ entries' = Append(entries, [name |-> x, pos |-> 0])
  /\ cells' = [cells EXCEPT ![Hash[x]] = <<Len(entries) + 1>>]

(* Mistake: the entry is not put into the queue.                           *)
AddUnqueued(x) ==
  /\ Len(entries) < MaxSymbol
  /\ cells' = [cells EXCEPT ![Hash[x]] = <<Len(entries) + 1>>]
  /\ UNCHANGED entries

(* sea_add_symbol.                                                         *)
Add(x) ==
  \/ /\ Found(cells[Hash[x]], x)
     /\ Lookup(x)
     /\ UNCHANGED entries
  \/ /\ ~ Found(cells[Hash[x]], x)
     /\ Len(entries) < MaxSymbol
     /\ entries' = Append(entries, [name |-> x, pos |-> 0])
     /\ cells' = [cells EXCEPT ![Hash[x]] =
                    Append(Walk(@, x), Len(entries) + 1)]

Parsing == encoded = 0 /\ fault = "none"

(* A function without a body, or a struct.                                 *)
Declare(x) ==
  /\ Parsing
  /\ Add(x)
  /\ UNCHANGED <<functions, encoded, fault>>

(* A function with a body: sea_add_function.                               *)
Define(x) ==
  /\ Parsing /\ Len(functions) < MaxFunction
  /\ functions' = Append(functions, x)
  /\ Add(x)
  /\ UNCHANGED <<encoded, fault>>

(* An identifier in an expression, at the start of a statement or where a  *)
(* type may be: parse_urnary, parse_expr_stmt and parse_type look all of   *)
(* them up, variables too.                                                 *)
Mention(x) ==
  /\ Parsing
  /\ Lookup(x)
  /\ UNCHANGED <<entries, functions, encoded, fault>>

(* Mistake: the entry is looked for in the queue.                          *)
EncodeByQueue ==
  LET x == functions[encoded + 1] IN
  /\ fault = "none" /\ encoded < Len(functions)
  /\ Lookup(x)
  /\ \E i \in DOMAIN entries :
       /\ entries[i].name = x /\ \A j \in 1 .. i - 1 : entries[j].name # x
       /\ entries' = [entries EXCEPT ![i].pos = encoded]
  /\ encoded' = encoded + 1
  /\ UNCHANGED <<functions, fault>>

(* sea_encode for the next function: its entry gets the position, without  *)
(* a test whether there is one.                                            *)
Encode ==
  LET x == functions[encoded + 1]
      chain == cells[Hash[x]]
  IN
  /\ fault = "none" /\ encoded < Len(functions)
  /\ Lookup(x)
  /\ \/ /\ Found(chain, x)
        /\ entries' = [entries EXCEPT ![chain[StopsAt(chain, x)]].pos = encoded]
        /\ encoded' = encoded + 1
        /\ UNCHANGED fault
     \/ /\ ~ Found(chain, x)
        /\ fault' = "null_entry"
        /\ UNCHANGED <<entries, encoded>>
  /\ UNCHANGED functions

Next ==
  \/ \E x \in Name : Declare(x) \/ Define(x) \/ Mention(x)
  \/ Encode

Spec == Init /\ [][Next]_vars
-----------------------------------------------------------------------------
(* No other name falls into the bucket of x.                               *)
Alone(x) == \A y \in Name : Hash[y] = Hash[x] => y = x

(* The symbol table is there for finding functions (todo.md: "Hash map for  *)
(* finding Functions"): every function with a body is found when its code   *)
(* is placed.                                                              *)
AllFound == fault = "none"

(* The encoder fails to find a function only if its name shares its bucket. *)
FunctionsFound == fault # "none" => ~ Alone(functions[encoded + 1])

(* A name alone in its bucket has one entry at most, however often it is   *)
(* declared and mentioned: sea_add_symbol refuses the second.              *)
NamesOnce ==
  \A i, j \in DOMAIN entries :
    entries[i].name = entries[j].name /\ Alone(entries[i].name) => i = j

(* sea_jit looks for "simp" in the queue and keeps the last one it meets:  *)
(* of any name, that is the entry which got the position of the last       *)
(* function of that name, even when entries have been dropped from the     *)
(* table and made again.                                                   *)
LastEntry(x) ==
  CHOOSE i \in DOMAIN entries :
    entries[i].name = x /\ \A j \in i + 1 .. Len(entries) : entries[j].name # x
LastPlaced(x) ==
  CHOOSE k \in 1 .. encoded : functions[k] = x /\ \A j \in k + 1 .. encoded : functions[j] # x
JitFinds ==
  \A k \in 1 .. encoded :
    entries[LastEntry(functions[k])].pos = LastPlaced(functions[k]) - 1

(* The entries in a bucket belong there, and a function alone in its bucket *)
(* is in it.                                                               *)
BucketsRight ==
  \A b \in Bucket : \A i \in DOMAIN cells[b] : Hash[entries[cells[b][i]].name] = b
FunctionsListed ==
  \A k \in DOMAIN functions :
    Alone(functions[k]) => Found(cells[Hash[functions[k]]], functions[k])

(* A name alone in its bucket that has an entry is in the bucket; an entry  *)
(* in a bucket is the last one of its name in the queue; and a function     *)
(* that is placed has an entry, the last of which has the position of the   *)
(* last function of the name.                                              *)
EntriesListed ==
  \A i \in DOMAIN entries :
    Alone(entries[i].name) => Found(cells[Hash[entries[i].name]], entries[i].name)
LastListed ==
  \A b \in Bucket : \A i \in DOMAIN cells[b] :
    \A j \in cells[b][i] + 1 .. Len(entries) : entries[j].name # entries[cells[b][i]].name
Placed ==
  \A k \in 1 .. encoded :
    /\ \E i \in DOMAIN entries : entries[i].name = functions[k]
    /\ \A i \in DOMAIN entries :
         /\ entries[i].name = functions[k]
         /\ \A j \in i + 1 .. Len(entries) : entries[j].name # functions[k]
         /\ \A j \in k + 1 .. encoded : functions[j] # functions[k]
         => entries[i].pos = k - 1
Queued == NamesOnce /\ EntriesListed /\ LastListed /\ Placed

IInv == TypeOK /\ BucketsRight /\ FunctionsListed /\ FunctionsFound
=============================================================================
