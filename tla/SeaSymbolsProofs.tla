-------------------------- MODULE SeaSymbolsProofs --------------------------
(* Whatever the hash: a name alone in its bucket stays in the table, and its *)
(* function is found when its code is placed.                              *)
EXTENDS SeaSymbols, WellFoundedInduction, TLAPS

(* A walk for the name of a bucket leaves the bucket's chain as it is.     *)
LEMMA WalkKeeps ==
  ASSUME NEW chain \in Seq(Nat), NEW x, Found(chain, x),
         \A i \in DOMAIN chain : entries[chain[i]].name = x
  PROVE  Walk(chain, x) = chain
<1>1. 1 \in DOMAIN chain
  BY DEF Found
<1>2. \E i \in DOMAIN chain : /\ entries[chain[i]].name = x
                              /\ \A j \in 1 .. i - 1 : entries[chain[j]].name # x
  BY <1>1
<1>3. /\ StopsAt(chain, x) \in DOMAIN chain
      /\ \A j \in 1 .. StopsAt(chain, x) - 1 : entries[chain[j]].name # x
  BY <1>2 DEF StopsAt
<1>4. StopsAt(chain, x) = 1
  BY <1>1, <1>3
<1>5. SubSeq(chain, 1, Len(chain)) = chain
  OBVIOUS
<1> QED
  BY <1>4, <1>5 DEF Walk

(* What a walk leaves was in the chain.                                    *)
LEMMA WalkWithin ==
  ASSUME NEW S, NEW chain \in Seq(S), NEW x
  PROVE  /\ Walk(chain, x) \in Seq(S)
         /\ \A i \in DOMAIN Walk(chain, x) :
              \E j \in DOMAIN chain : Walk(chain, x)[i] = chain[j]
<1>1. CASE Found(chain, x)
  <2> DEFINE P(i) == entries[chain[i]].name = x
  <2>1. \E i \in DOMAIN chain : P(i)
    BY <1>1 DEF Found
  <2>2. \E i \in DOMAIN chain : P(i) /\ \A j \in 1 .. i - 1 : ~ P(j)
    <3>1. DOMAIN chain \subseteq Nat /\ \A i \in DOMAIN chain : 1 .. i - 1 \subseteq DOMAIN chain
      OBVIOUS
    <3> DEFINE H == {i \in DOMAIN chain : P(i)}
    <3>2. H # {} /\ H \in SUBSET Nat
      BY <2>1, <3>1
    <3> HIDE DEF H, P
    <3> DEFINE R == {ss \in Nat \X Nat : ss[1] < ss[2]}
    <3>r. IsWellFoundedOn(R, Nat)
      BY NatLessThanWellFounded DEF OpToRel
    <3> HIDE DEF R
    <3>3. PICK m \in H : \A k \in H : ~ (<<k, m>> \in R)
      BY <3>2, <3>r, WFMin
    <3> USE DEF R
    <3>a. \A k \in H : ~ (k < m)
      BY <3>2, <3>3
    <3> USE DEF H
    <3>4. \A j \in 1 .. m - 1 : j \notin H
      BY <3>1, <3>a
    <3>5. \A j \in 1 .. m - 1 : ~ P(j)
      BY <3>1, <3>3, <3>4
    <3> QED
      BY <3>3, <3>5
  <2>3. StopsAt(chain, x) \in DOMAIN chain
    BY <2>2 DEF StopsAt
  <2> HIDE DEF P
  <2>4. Walk(chain, x) = SubSeq(chain, StopsAt(chain, x), Len(chain))
    BY <1>1 DEF Walk
  <2> DEFINE m == StopsAt(chain, x)
  <2>5. m \in 1 .. Len(chain) /\ Len(chain) \in Nat
    BY <2>3
  <2> HIDE DEF m
  <2>6. /\ SubSeq(chain, m, Len(chain)) \in Seq(S)
        /\ Len(SubSeq(chain, m, Len(chain))) = Len(chain) - m + 1
        /\ \A i \in 1 .. Len(chain) - m + 1 :
             SubSeq(chain, m, Len(chain))[i] = chain[m + i - 1]
    BY <2>5
  <2>7. \A i \in 1 .. Len(chain) - m + 1 : m + i - 1 \in DOMAIN chain
    BY <2>5
  <2>8. DOMAIN SubSeq(chain, m, Len(chain)) = 1 .. Len(chain) - m + 1
    BY <2>5, <2>6
  <2>9. Walk(chain, x) = SubSeq(chain, m, Len(chain))
    BY <2>4 DEF m
  <2> QED
    BY <2>6, <2>7, <2>8, <2>9
<1>2. CASE ~ Found(chain, x)
  <2>1. Walk(chain, x) = <<>>
    BY <1>2 DEF Walk
  <2> QED
    BY <2>1
<1> QED
  BY <1>1, <1>2

LEMMA InitInv == Init => IInv
BY SymbolAssumption DEF Init, IInv, TypeOK, BucketsRight, FunctionsListed,
   FunctionsFound

(* The entries are records with a name.                                    *)
LEMMA EntryNames ==
  ASSUME TypeOK, NEW b \in Bucket, NEW i \in DOMAIN cells[b]
  PROVE  /\ cells[b][i] \in 1 .. Len(entries)
         /\ cells[b][i] \in DOMAIN entries
         /\ entries[cells[b][i]].name \in Name
<1>1. cells[b] \in Seq(1 .. Len(entries)) /\ cells \in [Bucket -> Seq(1 .. Len(entries))]
  BY DEF TypeOK
<1>2. cells[b][i] \in 1 .. Len(entries)
  BY <1>1
<1>3. entries \in Seq(EntryRecord)
  BY DEF TypeOK
<1>4. cells[b][i] \in DOMAIN entries
  BY <1>2, <1>3
<1>5. entries[cells[b][i]] \in EntryRecord
  BY <1>3, <1>4
<1>6. entries[cells[b][i]].name \in Name
  BY <1>5 DEF EntryRecord
<1> QED
  BY <1>2, <1>4, <1>6

(* The entries of a bucket that is that of x alone all have that name, and  *)
(* Lookup changes nothing.                                                 *)
LEMMA LookupKeeps ==
  ASSUME IInv, NEW x \in Name, Alone(x), Found(cells[Hash[x]], x), Lookup(x)
  PROVE  cells' = cells
<1>1. Hash[x] \in Bucket
  BY SymbolAssumption
<1>2. TypeOK /\ BucketsRight
  BY DEF IInv
<1>3. cells \in [Bucket -> Seq(1 .. Len(entries))]
  BY <1>2 DEF TypeOK
<1>4. cells[Hash[x]] \in Seq(Nat)
  BY <1>1, <1>3
<1>5. ASSUME NEW i \in DOMAIN cells[Hash[x]]
      PROVE  entries[cells[Hash[x]][i]].name = x
  <2>1. entries[cells[Hash[x]][i]].name \in Name
    BY <1>1, <1>2, EntryNames
  <2>2. Hash[entries[cells[Hash[x]][i]].name] = Hash[x]
    BY <1>1, <1>2 DEF BucketsRight
  <2> QED
    BY <2>1, <2>2 DEF Alone
<1>6. Walk(cells[Hash[x]], x) = cells[Hash[x]]
  BY <1>4, <1>5, WalkKeeps
<1>7. cells' = [cells EXCEPT ![Hash[x]] = Walk(@, x)]
  BY DEF Lookup
<1> QED
  BY <1>3, <1>6, <1>7

(* A lookup keeps the entries in their buckets and loses no name that is    *)
(* alone in its bucket.                                                    *)
LEMMA LookupInv ==
  ASSUME IInv, NEW x \in Name, Lookup(x)
  PROVE  /\ cells' \in [Bucket -> Seq(1 .. Len(entries))]
         /\ \A b \in Bucket : \A i \in DOMAIN cells'[b] : Hash[entries[cells'[b][i]].name] = b
         /\ \A y \in Name : Alone(y) /\ Found(cells[Hash[y]], y) =>
              cells'[Hash[y]] = cells[Hash[y]]
<1>1. Hash[x] \in Bucket /\ Hash \in [Name -> Bucket]
  BY SymbolAssumption
<1>2. /\ cells \in [Bucket -> Seq(1 .. Len(entries))]
      /\ BucketsRight
  BY DEF IInv, TypeOK
<1>3. cells' = [cells EXCEPT ![Hash[x]] = Walk(cells[Hash[x]], x)]
  BY DEF Lookup
<1>4. cells[Hash[x]] \in Seq(1 .. Len(entries))
  BY <1>1, <1>2
<1>5. /\ Walk(cells[Hash[x]], x) \in Seq(1 .. Len(entries))
      /\ \A i \in DOMAIN Walk(cells[Hash[x]], x) :
           \E j \in DOMAIN cells[Hash[x]] : Walk(cells[Hash[x]], x)[i] = cells[Hash[x]][j]
  BY <1>4, WalkWithin
<1>6. cells' \in [Bucket -> Seq(1 .. Len(entries))]
  BY <1>1, <1>2, <1>3, <1>5
<1>7. ASSUME NEW b \in Bucket, NEW i \in DOMAIN cells'[b]
      PROVE  Hash[entries[cells'[b][i]].name] = b
  <2>1. CASE b = Hash[x]
    <3>1. cells'[b] = Walk(cells[b], x)
      BY <1>2, <1>3, <2>1
    <3>2. PICK j \in DOMAIN cells[b] : cells'[b][i] = cells[b][j]
      BY <1>5, <2>1, <3>1
    <3> QED
      BY <1>2, <3>2 DEF BucketsRight
  <2>2. CASE b # Hash[x]
    BY <1>2, <1>3, <2>2 DEF BucketsRight
  <2> QED
    BY <2>1, <2>2
<1>8. ASSUME NEW y \in Name, Alone(y), Found(cells[Hash[y]], y)
      PROVE  cells'[Hash[y]] = cells[Hash[y]]
  <2>1. CASE y = x
    BY <1>8, <2>1, LookupKeeps
  <2>2. CASE y # x
    <3>1. Hash[y] # Hash[x]
      BY <1>8, <2>2 DEF Alone
    <3> QED
      BY <1>1, <1>2, <1>3, <3>1
  <2> QED
    BY <2>1, <2>2
<1> QED
  BY <1>6, <1>7, <1>8

(* Adding x loses no name that is alone in its bucket, and x is found       *)
(* afterwards if it is.                                                    *)
LEMMA AddInv ==
  ASSUME IInv, NEW x \in Name, Add(x)
  PROVE  /\ entries' \in Seq(EntryRecord)
         /\ cells' \in [Bucket -> Seq(1 .. Len(entries'))]
         /\ BucketsRight'
         /\ \A y \in Name : Alone(y) /\ Found(cells[Hash[y]], y) => Found(cells[Hash[y]], y)'
         /\ Alone(x) => Found(cells[Hash[x]], x)'
<1>1. Hash[x] \in Bucket /\ Hash \in [Name -> Bucket]
  BY SymbolAssumption
<1>2. TypeOK /\ BucketsRight
  BY DEF IInv
<1>3. /\ entries \in Seq(EntryRecord)
      /\ cells \in [Bucket -> Seq(1 .. Len(entries))]
  BY <1>2 DEF TypeOK
<1>4. CASE Found(cells[Hash[x]], x) /\ Lookup(x) /\ entries' = entries
  <2>1. /\ cells' \in [Bucket -> Seq(1 .. Len(entries))]
        /\ \A b \in Bucket : \A i \in DOMAIN cells'[b] : Hash[entries[cells'[b][i]].name] = b
        /\ \A y \in Name : Alone(y) /\ Found(cells[Hash[y]], y) =>
             cells'[Hash[y]] = cells[Hash[y]]
    BY <1>4, LookupInv
  <2>2. BucketsRight'
    BY <1>4, <2>1 DEF BucketsRight
  <2>3. ASSUME NEW y \in Name, Alone(y), Found(cells[Hash[y]], y)
        PROVE  Found(cells[Hash[y]], y)'
    BY <1>4, <2>1, <2>3 DEF Found
  <2> QED
    BY <1>3, <1>4, <2>1, <2>2, <2>3
<1>5. CASE /\ ~ Found(cells[Hash[x]], x)
           /\ entries' = Append(entries, [name |-> x, pos |-> 0])
           /\ cells' = [cells EXCEPT ![Hash[x]] =
                          Append(Walk(@, x), Len(entries) + 1)]
  <2> DEFINE n == Len(entries) + 1
  <2>1. Walk(cells[Hash[x]], x) = <<>>
    BY <1>5 DEF Walk
  <2>2. cells' = [cells EXCEPT ![Hash[x]] = <<n>>]
    BY <1>5, <2>1
  <2>3. [name |-> x, pos |-> 0] \in EntryRecord
    BY SymbolAssumption DEF EntryRecord
  <2>4. /\ entries' \in Seq(EntryRecord)
        /\ Len(entries') = n
        /\ entries'[n] = [name |-> x, pos |-> 0]
        /\ \A i \in 1 .. Len(entries) : entries'[i] = entries[i]
    BY <1>3, <1>5, <2>3
  <2>5. \A b \in Bucket : \A i \in DOMAIN cells[b] : cells[b][i] \in 1 .. Len(entries)
    BY <1>3
  <2>6. ASSUME NEW b \in Bucket
        PROVE  /\ cells'[b] \in Seq(1 .. n)
               /\ \A i \in DOMAIN cells'[b] : Hash[entries'[cells'[b][i]].name] = b
    <3>1. CASE b = Hash[x]
      <4>1. cells'[b] = <<n>>
        BY <1>3, <2>2, <3>1
      <4>2. n \in 1 .. n
        BY <1>3
      <4> QED
        BY <3>1, <4>1, <4>2, <2>4
    <3>2. CASE b # Hash[x]
      <4>1. cells'[b] = cells[b]
        BY <1>3, <2>2, <3>2
      <4>2. cells[b] \in Seq(1 .. Len(entries))
        BY <1>3
      <4>3. cells[b] \in Seq(1 .. n)
        BY <1>3, <4>2
      <4> QED
        BY <1>2, <4>1, <4>3, <2>4, <2>5 DEF BucketsRight
    <3> QED
      BY <3>1, <3>2
  <2>7. cells' \in [Bucket -> Seq(1 .. Len(entries'))]
    BY <1>3, <2>2, <2>4, <2>6
  <2>8. BucketsRight'
    BY <2>6 DEF BucketsRight
  <2>9. Found(cells[Hash[x]], x)'
    <3>1. cells'[Hash[x]] = <<n>>
      BY <1>1, <1>3, <2>2
    <3> QED
      BY <3>1, <2>4 DEF Found
  <2>10. ASSUME NEW y \in Name, Alone(y), Found(cells[Hash[y]], y)
         PROVE  Found(cells[Hash[y]], y)'
    <3>1. CASE y = x
      BY <3>1, <2>9
    <3>2. CASE y # x
      <4>1. Hash[y] # Hash[x] /\ Hash[y] \in Bucket
        BY <1>1, <2>10, <3>2 DEF Alone
      <4>2. cells'[Hash[y]] = cells[Hash[y]]
        BY <1>3, <2>2, <4>1
      <4> QED
        BY <4>1, <4>2, <2>4, <2>5, <2>10 DEF Found
    <3> QED
      BY <3>1, <3>2
  <2> QED
    BY <2>4, <2>7, <2>8, <2>9, <2>10
<1> QED
  BY <1>4, <1>5 DEF Add

(* What is to be shown for FunctionsListed to hold after a step.           *)
LEMMA ListedNext ==
  ASSUME functions' \in Seq(Name),
         \A y \in Name : Alone(y) /\ (\E k \in DOMAIN functions' : functions'[k] = y)
                           => Found(cells[Hash[y]], y)'
  PROVE  FunctionsListed'
<1>1. ASSUME NEW k \in DOMAIN functions', Alone(functions'[k])
      PROVE  Found(cells[Hash[functions[k]]], functions[k])'
  <2>1. functions'[k] \in Name
    OBVIOUS
  <2>2. PICK y \in Name : y = functions'[k]
    BY <2>1
  <2>3. Found(cells[Hash[y]], y)'
    BY <1>1, <2>2
  <2> QED
    BY <2>2, <2>3 DEF Found
<1> QED
  BY <1>1 DEF FunctionsListed, Alone

(* Every step keeps the invariant.                                         *)
LEMMA StepInv ==
  ASSUME IInv, [Next]_vars
  PROVE  IInv'
<1>0. /\ functions \in Seq(Name) /\ Len(functions) <= MaxFunction
      /\ encoded \in 0 .. Len(functions)
      /\ Hash \in [Name -> Bucket]
      /\ MaxFunction \in Nat
      /\ fault \in {"none", "null_entry"}
      /\ TypeOK /\ BucketsRight
  BY SymbolAssumption DEF IInv, TypeOK
<1>a. /\ entries \in Seq(EntryRecord)
      /\ cells \in [Bucket -> Seq(1 .. Len(entries))]
  BY DEF IInv, TypeOK
<1>b. \A k \in DOMAIN functions : /\ functions[k] \in Name
                                  /\ Hash[functions[k]] \in Bucket
                                  /\ Alone(functions[k]) =>
                                       Found(cells[Hash[functions[k]]], functions[k])
  BY <1>0 DEF IInv, FunctionsListed
<1>c. \A b \in Bucket : \A i \in DOMAIN cells[b] : cells[b][i] \in DOMAIN entries
  BY <1>0, EntryNames
<1>1. ASSUME NEW x \in Name, Declare(x)
      PROVE  IInv'
  <2>1. /\ Add(x) /\ functions' = functions /\ encoded' = encoded
        /\ fault' = "none"
    BY <1>1 DEF Declare, Parsing
  <2>2. /\ entries' \in Seq(EntryRecord)
        /\ cells' \in [Bucket -> Seq(1 .. Len(entries'))]
        /\ BucketsRight'
        /\ \A y \in Name : Alone(y) /\ Found(cells[Hash[y]], y) => Found(cells[Hash[y]], y)'
    BY <2>1, AddInv
  <2>3. FunctionsListed'
    BY <1>0, <1>b, <2>1, <2>2, ListedNext
  <2> QED
    BY <1>0, <2>1, <2>2, <2>3 DEF IInv, TypeOK, FunctionsFound
<1>2. ASSUME NEW x \in Name, Define(x)
      PROVE  IInv'
  <2>1. /\ Add(x) /\ functions' = Append(functions, x)
        /\ Len(functions) < MaxFunction
        /\ encoded' = encoded /\ fault' = "none"
    BY <1>2 DEF Define, Parsing
  <2>2. /\ entries' \in Seq(EntryRecord)
        /\ cells' \in [Bucket -> Seq(1 .. Len(entries'))]
        /\ BucketsRight'
        /\ \A y \in Name : Alone(y) /\ Found(cells[Hash[y]], y) => Found(cells[Hash[y]], y)'
        /\ Alone(x) => Found(cells[Hash[x]], x)'
    BY <2>1, AddInv
  <2>3. /\ functions' \in Seq(Name) /\ Len(functions') = Len(functions) + 1
        /\ \A k \in DOMAIN functions' :
             \/ functions'[k] = x
             \/ k \in DOMAIN functions /\ functions'[k] = functions[k]
    BY <1>0, <2>1
  <2>4. FunctionsListed'
    <3>1. ASSUME NEW y \in Name, Alone(y), NEW k \in DOMAIN functions', functions'[k] = y
          PROVE  Found(cells[Hash[y]], y)'
      BY <1>b, <2>2, <2>3, <3>1
    <3> QED
      BY <2>3, <3>1, ListedNext
  <2>5. Len(functions') <= MaxFunction /\ encoded' \in 0 .. Len(functions')
    <3>1. Len(functions) \in Nat
      BY <1>0
    <3> QED
      BY <3>1, <1>0, <2>1, <2>3
  <2>6. fault' = "none"
    BY <1>0, <2>1
  <2> QED
    BY <2>2, <2>3, <2>4, <2>5, <2>6 DEF IInv, TypeOK, FunctionsFound
<1>3. ASSUME NEW x \in Name, Mention(x)
      PROVE  IInv'
  <2>1. /\ Lookup(x) /\ entries' = entries /\ functions' = functions
        /\ encoded' = encoded /\ fault' = "none"
    BY <1>3 DEF Mention, Parsing
  <2>2. /\ cells' \in [Bucket -> Seq(1 .. Len(entries))]
        /\ \A b \in Bucket : \A i \in DOMAIN cells'[b] : Hash[entries[cells'[b][i]].name] = b
        /\ \A y \in Name : Alone(y) /\ Found(cells[Hash[y]], y) =>
             cells'[Hash[y]] = cells[Hash[y]]
    BY <2>1, LookupInv
  <2>3. BucketsRight'
    BY <2>1, <2>2 DEF BucketsRight
  <2>4. FunctionsListed'
    <3>1. ASSUME NEW y \in Name, Alone(y), Found(cells[Hash[y]], y)
          PROVE  Found(cells[Hash[y]], y)'
      BY <2>1, <2>2, <3>1 DEF Found
    <3> QED
      BY <1>0, <1>b, <2>1, <3>1, ListedNext
  <2> QED
    BY <1>0, <1>a, <2>1, <2>2, <2>3, <2>4 DEF IInv, TypeOK, FunctionsFound
<1>4. ASSUME Encode
      PROVE  IInv'
  <2> DEFINE k == encoded + 1
             x == functions[k]
             chain == cells[Hash[x]]
             j == chain[StopsAt(chain, x)]
  <2>1. k \in DOMAIN functions /\ functions' = functions /\ Lookup(x)
    <3>1. encoded < Len(functions) /\ functions' = functions /\ Lookup(x)
      BY <1>4 DEF Encode
    <3>2. Len(functions) \in Nat /\ DOMAIN functions = 1 .. Len(functions)
      BY <1>0
    <3> QED
      BY <1>0, <3>1, <3>2
  <2>2. x \in Name /\ Hash[x] \in Bucket /\ (Alone(x) => Found(chain, x))
    BY <1>b, <2>1
  <2>3. /\ cells' \in [Bucket -> Seq(1 .. Len(entries))]
        /\ \A b \in Bucket : \A i \in DOMAIN cells'[b] : Hash[entries[cells'[b][i]].name] = b
        /\ \A y \in Name : Alone(y) /\ Found(cells[Hash[y]], y) =>
             cells'[Hash[y]] = cells[Hash[y]]
    BY <2>1, <2>2, LookupInv
  <2>4. /\ entries' \in Seq(EntryRecord) /\ Len(entries') = Len(entries)
        /\ \A i \in DOMAIN entries : entries'[i].name = entries[i].name
        /\ encoded' \in 0 .. Len(functions')
        /\ FunctionsFound' /\ fault' \in {"none", "null_entry"}
    <3>1. CASE /\ Found(chain, x)
               /\ entries' = [entries EXCEPT ![j].pos = encoded]
               /\ encoded' = k /\ fault' = fault
      <4>1. fault' = "none"
        BY <1>4, <3>1 DEF Encode
      <4>2. encoded \in 0 .. MaxFunction
        BY <1>0, <2>1
      <4>3. ASSUME NEW e \in EntryRecord
            PROVE  /\ [e EXCEPT !.pos = encoded] \in EntryRecord
                   /\ [e EXCEPT !.pos = encoded].name = e.name
        BY <4>2 DEF EntryRecord
      <4>4. entries' = [entries EXCEPT ![j] = [entries[j] EXCEPT !.pos = encoded]]
        BY <3>1
      <4> HIDE DEF j
      <4>5. entries' \in Seq(EntryRecord) /\ Len(entries') = Len(entries)
        <5>1. CASE j \in DOMAIN entries
          <6>1. entries[j] \in EntryRecord
            BY <1>a, <5>1
          <6>2. [entries[j] EXCEPT !.pos = encoded] \in EntryRecord
            BY <4>3, <6>1
          <6> QED
            BY <1>a, <4>4, <5>1, <6>2
        <5>2. CASE j \notin DOMAIN entries
          <6>1. entries' = entries
            BY <1>a, <4>4, <5>2
          <6> QED
            BY <1>a, <6>1
        <5> QED
          BY <5>1, <5>2
      <4>6. ASSUME NEW i \in DOMAIN entries
            PROVE  entries'[i].name = entries[i].name
        <5>1. entries[i] \in EntryRecord
          BY <1>a
        <5>2. entries'[i] = IF i = j THEN [entries[i] EXCEPT !.pos = encoded] ELSE entries[i]
          BY <1>a, <4>4
        <5> QED
          BY <4>3, <5>1, <5>2
      <4>7. encoded' \in 0 .. Len(functions')
        BY <1>0, <2>1, <3>1
      <4> QED
        BY <4>1, <4>5, <4>6, <4>7 DEF FunctionsFound
    <3>2. CASE ~ Found(chain, x) /\ fault' = "null_entry" /\ entries' = entries /\ encoded' = encoded
      <4>1. ~ Alone(x)
        BY <2>2, <3>2
      <4>2. FunctionsFound'
        BY <2>1, <3>2, <4>1 DEF FunctionsFound, Alone
      <4> QED
        BY <1>0, <1>a, <2>1, <3>2, <4>2
    <3> QED
      BY <1>4, <3>1, <3>2 DEF Encode
  <2>5. BucketsRight'
    <3>1. ASSUME NEW b \in Bucket, NEW i \in DOMAIN cells'[b]
          PROVE  Hash[entries'[cells'[b][i]].name] = b
      <4>1. cells'[b][i] \in 1 .. Len(entries)
        BY <2>3
      <4>2. cells'[b][i] \in DOMAIN entries
        BY <1>a, <4>1
      <4> QED
        BY <2>3, <2>4, <4>2
    <3> QED
      BY <3>1 DEF BucketsRight
  <2>6. FunctionsListed'
    <3>1. ASSUME NEW y \in Name, Hash[y] \in Bucket, Alone(y), Found(cells[Hash[y]], y)
          PROVE  Found(cells[Hash[y]], y)'
      <4>1. PICK i \in DOMAIN cells[Hash[y]] : entries[cells[Hash[y]][i]].name = y
        BY <3>1 DEF Found
      <4>2. entries'[cells[Hash[y]][i]].name = y
        BY <1>c, <3>1, <4>1, <2>4
      <4>3. cells'[Hash[y]] = cells[Hash[y]]
        BY <2>3, <3>1
      <4> QED
        BY <4>1, <4>2, <4>3 DEF Found
    <3>2. functions' = functions
      BY <2>1
    <3> HIDE DEF j, k, x, chain
    <3> QED
      BY <1>0, <1>b, <3>1, <3>2, ListedNext
  <2>7. cells' \in [Bucket -> Seq(1 .. Len(entries'))]
    BY <2>3, <2>4
  <2> QED
    BY <1>0, <2>1, <2>4, <2>5, <2>6, <2>7 DEF IInv, TypeOK
<1>5. CASE UNCHANGED vars
  <2>1. TypeOK'
    BY <1>0, <1>5 DEF vars, TypeOK
  <2>2. BucketsRight'
    BY <1>0, <1>5 DEF vars, BucketsRight
  <2>3. FunctionsListed'
    BY <1>b, <1>5 DEF vars, FunctionsListed, Found, Alone
  <2>4. FunctionsFound'
    BY <1>5 DEF vars, IInv, FunctionsFound, Alone
  <2> QED
    BY <2>1, <2>2, <2>3, <2>4 DEF IInv
<1> QED
  BY <1>1, <1>2, <1>3, <1>4, <1>5 DEF Next

(* A function whose name shares its bucket with no other name has its entry *)
(* when sea_encode asks for it, whatever else shares buckets.              *)
THEOREM FunctionsAreFound == Spec => []FunctionsFound
<1>1. Init => IInv
  BY InitInv
<1>2. IInv /\ [Next]_vars => IInv'
  BY StepInv
<1>3. IInv => FunctionsFound
  BY DEF IInv
<1> QED
  BY <1>1, <1>2, <1>3, PTL DEF Spec

-----------------------------------------------------------------------------
(* The queue: an entry that is not in its bucket any more can be found in   *)
(* the queue only. What a lookup leaves of a bucket was in it.              *)
LEMMA LookupWithin ==
  ASSUME IInv, NEW x \in Name, Lookup(x), NEW b \in Bucket, NEW i \in DOMAIN cells'[b]
  PROVE  \E j \in DOMAIN cells[b] : cells'[b][i] = cells[b][j]
<1>1. Hash[x] \in Bucket /\ cells \in [Bucket -> Seq(1 .. Len(entries))]
  BY SymbolAssumption DEF IInv, TypeOK
<1>2. cells' = [cells EXCEPT ![Hash[x]] = Walk(cells[Hash[x]], x)] BY DEF Lookup
<1>3. CASE b = Hash[x]
  <2>1. cells[b] \in Seq(1 .. Len(entries)) /\ cells'[b] = Walk(cells[b], x)
    BY <1>1, <1>2, <1>3
  <2> QED BY <2>1, WalkWithin
<1>4. CASE b # Hash[x] BY <1>1, <1>2, <1>4
<1> QED BY <1>3, <1>4

(* Where a walk stops, if there is such an entry.                          *)
LEMMA StopsThere ==
  ASSUME NEW S, NEW chain \in Seq(S), NEW x, Found(chain, x)
  PROVE  StopsAt(chain, x) \in DOMAIN chain /\ entries[chain[StopsAt(chain, x)]].name = x
<1> DEFINE H == {i \in DOMAIN chain : entries[chain[i]].name = x}
           R == {ss \in Nat \X Nat : ss[1] < ss[2]}
<1>1. DOMAIN chain \subseteq Nat /\ \A i \in DOMAIN chain : 1 .. i - 1 \subseteq DOMAIN chain
  OBVIOUS
<1>2. H # {} /\ H \in SUBSET Nat BY <1>1 DEF Found
<1>3. IsWellFoundedOn(R, Nat) BY NatLessThanWellFounded DEF OpToRel
<1> HIDE DEF R, H
<1>4. PICK m \in H : \A k \in H : ~ (<<k, m>> \in R) BY <1>2, <1>3, WFMin
<1>5. \A k \in H : ~ (k < m) BY <1>2, <1>4 DEF R
<1>6. \A j \in 1 .. m - 1 : j \notin H
  <2>1. m \in Nat BY <1>2, <1>4
  <2> QED BY <1>5, <2>1
<1>7. m \in DOMAIN chain /\ entries[chain[m]].name = x /\ \A j \in 1 .. m - 1 : entries[chain[j]].name # x
  BY <1>1, <1>4, <1>6 DEF H
<1> QED BY <1>7 DEF StopsAt

(* A set of places in a sequence that is not empty has a last one.         *)
LEMMA LastPlace ==
  ASSUME NEW n \in Nat, NEW H \in SUBSET (1 .. n), H # {}
  PROVE  \E i \in H : \A j \in i + 1 .. n : j \notin H
<1> DEFINE G == {n - i : i \in H}
           R == {ss \in Nat \X Nat : ss[1] < ss[2]}
<1>1. G # {} /\ G \in SUBSET Nat
  <2>1. PICK i \in H : TRUE OBVIOUS
  <2>2. n - i \in G BY <2>1
  <2>3. \A j \in 1 .. n : n - j \in Nat OBVIOUS
  <2> QED BY <2>2, <2>3
<1>2. IsWellFoundedOn(R, Nat) BY NatLessThanWellFounded DEF OpToRel
<1>3. PICK m \in G : \A g \in G : ~ (<<g, m>> \in R)
  <2> HIDE DEF R, G
  <2> QED BY <1>1, <1>2, WFMin
<1>4. m \in Nat /\ \A g \in G : ~ (g < m) BY <1>1, <1>3
<1>5. PICK i \in H : m = n - i BY <1>3
<1>6. \A j \in H : ~ (n - j < n - i) BY <1>4, <1>5
<1> QED BY <1>5, <1>6

(* Adding a name.                                                          *)
LEMMA AddQueued ==
  ASSUME IInv, Queued, encoded = 0, encoded' = 0, NEW x \in Name, Add(x)
  PROVE  Queued'
<1>1. /\ Hash \in [Name -> Bucket] /\ entries \in Seq(EntryRecord)
      /\ cells \in [Bucket -> Seq(1 .. Len(entries))] /\ BucketsRight
      /\ NamesOnce /\ EntriesListed /\ LastListed
      /\ \A i \in DOMAIN entries : entries[i].name \in Name
      /\ Len(entries) \in Nat /\ DOMAIN entries = 1 .. Len(entries)
  <2>1. /\ Hash \in [Name -> Bucket] /\ entries \in Seq(EntryRecord)
        /\ cells \in [Bucket -> Seq(1 .. Len(entries))] /\ BucketsRight
        /\ NamesOnce /\ EntriesListed /\ LastListed
    BY SymbolAssumption DEF IInv, TypeOK, Queued
  <2>2. \A i \in DOMAIN entries : entries[i] \in EntryRecord BY <2>1
  <2> QED BY <2>1, <2>2 DEF EntryRecord
<1>2. Placed' BY DEF Placed
<1>3. /\ \A y \in Name : Alone(y) /\ Found(cells[Hash[y]], y) => Found(cells[Hash[y]], y)'
      /\ Alone(x) => Found(cells[Hash[x]], x)'
  BY AddInv
<1>4. CASE Lookup(x) /\ entries' = entries
  <2>1. NamesOnce' BY <1>1, <1>4 DEF NamesOnce, Alone
  <2>2. EntriesListed'
    <3> SUFFICES ASSUME NEW i \in DOMAIN entries, Alone(entries[i].name)
                 PROVE  Found(cells[Hash[entries[i].name]], entries[i].name)'
      BY <1>4 DEF EntriesListed, Alone
    <3>1. PICK y \in Name : y = entries[i].name BY <1>1
    <3>2. Found(cells[Hash[y]], y)' BY <1>1, <1>3, <3>1 DEF EntriesListed
    <3> QED BY <1>4, <3>1, <3>2 DEF Found
  <2>3. LastListed'
    <3> SUFFICES ASSUME NEW b \in Bucket, NEW i \in DOMAIN cells'[b]
                 PROVE  \A j \in cells'[b][i] + 1 .. Len(entries) :
                          entries[j].name # entries[cells'[b][i]].name
      BY <1>4 DEF LastListed
    <3>1. PICK h \in DOMAIN cells[b] : cells'[b][i] = cells[b][h] BY <1>4, LookupWithin
    <3> QED BY <1>1, <3>1 DEF LastListed
  <2> QED BY <1>2, <2>1, <2>2, <2>3 DEF Queued
<1>5. CASE /\ ~ Found(cells[Hash[x]], x)
           /\ entries' = Append(entries, [name |-> x, pos |-> 0])
           /\ cells' = [cells EXCEPT ![Hash[x]] = Append(Walk(@, x), Len(entries) + 1)]
  <2> DEFINE n == Len(entries) + 1
  <2>1. cells' = [cells EXCEPT ![Hash[x]] = <<n>>] BY <1>5 DEF Walk
  <2>2. /\ Len(entries') = n /\ DOMAIN entries' = 1 .. n /\ entries'[n].name = x
        /\ \A i \in 1 .. Len(entries) : entries'[i] = entries[i]
    BY <1>1, <1>5
  <2>3. Alone(x) => \A i \in DOMAIN entries : entries[i].name # x
    BY <1>1, <1>5 DEF EntriesListed
  <2>4. NamesOnce'
    <3> SUFFICES ASSUME NEW i \in 1 .. n, NEW j \in 1 .. n,
                        entries'[i].name = entries'[j].name, Alone(entries'[i].name)
                 PROVE  i = j
      BY <2>2 DEF NamesOnce, Alone
    <3>4. \A h \in 1 .. n : h = n \/ h \in DOMAIN entries BY <1>1
    <3>5. \A h \in DOMAIN entries : entries'[h] = entries[h] BY <1>1, <2>2
    <3>1. CASE i = n /\ j # n BY <2>2, <2>3, <3>1, <3>4, <3>5
    <3>2. CASE i # n /\ j = n BY <2>2, <2>3, <3>2, <3>4, <3>5
    <3>3. CASE i # n /\ j # n
      <4>1. i \in DOMAIN entries /\ j \in DOMAIN entries BY <1>1, <3>3
      <4>2. entries[i].name = entries[j].name /\ Alone(entries[i].name) BY <1>1, <2>2, <4>1
      <4> QED BY <1>1, <4>1, <4>2 DEF NamesOnce
    <3> QED BY <3>1, <3>2, <3>3
  <2>5. EntriesListed'
    <3> SUFFICES ASSUME NEW i \in 1 .. n, Alone(entries'[i].name)
                 PROVE  Found(cells[Hash[entries[i].name]], entries[i].name)'
      BY <2>2 DEF EntriesListed, Alone
    <3>1. CASE i = n BY <1>3, <2>2, <3>1 DEF Found
    <3>2. CASE i # n
      <4>0. i \in DOMAIN entries /\ entries'[i] = entries[i] BY <1>1, <2>2, <3>2
      <4>1. PICK y \in Name : y = entries[i].name /\ entries'[i].name = y
        BY <1>1, <4>0
      <4>2. Found(cells[Hash[y]], y) BY <1>1, <4>0, <4>1 DEF EntriesListed
      <4>3. Found(cells[Hash[y]], y)' BY <1>3, <4>1, <4>2
      <4> QED BY <4>1, <4>3 DEF Found
    <3> QED BY <3>1, <3>2
  <2>6. LastListed'
    <3> SUFFICES ASSUME NEW b \in Bucket, NEW i \in DOMAIN cells'[b],
                        NEW j \in cells'[b][i] + 1 .. n
                 PROVE  entries'[j].name # entries'[cells'[b][i]].name
      BY <2>2 DEF LastListed
    <3>1. CASE b = Hash[x]
      <4>1. cells'[b] = <<n>> BY <1>1, <2>1, <3>1
      <4> QED BY <1>1, <4>1
    <3>2. CASE b # Hash[x]
      <4>1. cells'[b] = cells[b] BY <1>1, <2>1, <3>2
      <4>2. cells[b][i] \in 1 .. Len(entries) /\ i \in DOMAIN cells[b] BY <1>1, <4>1
      <4>3. Hash[entries[cells[b][i]].name] = b BY <1>1, <4>2 DEF BucketsRight
      <4>4. CASE j = n BY <1>1, <2>2, <3>2, <4>1, <4>2, <4>3, <4>4
      <4>5. CASE j # n
        <5>0. PICK h \in 1 .. Len(entries) : h = cells[b][i] BY <4>2
        <5>1. j \in h + 1 .. Len(entries) /\ j \in 1 .. Len(entries)
          BY <1>1, <4>1, <4>5, <5>0
        <5>2. entries[j].name # entries[cells[b][i]].name BY <1>1, <4>2, <5>0, <5>1 DEF LastListed
        <5> QED BY <2>2, <4>1, <4>2, <5>1, <5>2
      <4> QED BY <4>4, <4>5
    <3> QED BY <3>1, <3>2
  <2> QED BY <1>2, <2>4, <2>5, <2>6 DEF Queued
<1> QED BY <1>4, <1>5 DEF Add

(* A lookup that leaves the queue alone.                                   *)
LEMMA LookupQueued ==
  ASSUME IInv, Queued, NEW x \in Name, Lookup(x),
         Len(entries') = Len(entries), DOMAIN entries' = DOMAIN entries,
         \A i \in DOMAIN entries : entries'[i].name = entries[i].name
  PROVE  NamesOnce' /\ EntriesListed' /\ LastListed'
<1>1. /\ entries \in Seq(EntryRecord) /\ cells \in [Bucket -> Seq(1 .. Len(entries))]
      /\ NamesOnce /\ EntriesListed /\ LastListed /\ Hash \in [Name -> Bucket]
  BY SymbolAssumption DEF IInv, TypeOK, Queued
<1>2. /\ \A i \in DOMAIN entries : entries[i].name \in Name
      /\ Len(entries) \in Nat /\ DOMAIN entries = 1 .. Len(entries)
  <2>1. \A i \in DOMAIN entries : entries[i] \in EntryRecord BY <1>1
  <2> QED BY <1>1, <2>1 DEF EntryRecord
<1>3. NamesOnce' BY <1>1 DEF NamesOnce, Alone
<1>4. EntriesListed'
  <2> SUFFICES ASSUME NEW i \in DOMAIN entries, Alone(entries[i].name)
               PROVE  Found(cells[Hash[entries[i].name]], entries[i].name)'
    BY DEF EntriesListed, Alone
  <2>1. PICK y \in Name : y = entries[i].name /\ entries'[i].name = y BY <1>2
  <2>2. Found(cells[Hash[y]], y) /\ Alone(y) BY <1>1, <2>1 DEF EntriesListed
  <2>3. cells'[Hash[y]] = cells[Hash[y]] BY <2>2, LookupInv
  <2>4. PICK h \in DOMAIN cells[Hash[y]] : entries[cells[Hash[y]][h]].name = y BY <2>2 DEF Found
  <2>5. cells[Hash[y]][h] \in DOMAIN entries BY <1>1, EntryNames DEF IInv
  <2>6. entries'[cells'[Hash[y]][h]].name = y BY <2>3, <2>4, <2>5
  <2> QED BY <2>1, <2>3, <2>6 DEF Found
<1>5. LastListed'
  <2> SUFFICES ASSUME NEW b \in Bucket, NEW i \in DOMAIN cells'[b],
                      NEW j \in cells'[b][i] + 1 .. Len(entries)
               PROVE  entries'[j].name # entries'[cells'[b][i]].name
    BY DEF LastListed
  <2>1. PICK h \in DOMAIN cells[b] : cells'[b][i] = cells[b][h] BY LookupWithin
  <2>2. PICK m \in 1 .. Len(entries) : m = cells[b][h] BY <1>1, EntryNames DEF IInv
  <2>3. j \in m + 1 .. Len(entries) /\ j \in DOMAIN entries /\ m \in DOMAIN entries
    BY <1>2, <2>1, <2>2
  <2>4. entries[j].name # entries[m].name BY <1>1, <2>2, <2>3 DEF LastListed
  <2> QED BY <2>1, <2>2, <2>3, <2>4
<1> QED BY <1>3, <1>4, <1>5

(* Placing a function.                                                     *)
LEMMA EncodeQueued ==
  ASSUME IInv, Queued, Encode PROVE Queued'
<1>1. /\ entries \in Seq(EntryRecord) /\ cells \in [Bucket -> Seq(1 .. Len(entries))]
      /\ functions \in Seq(Name) /\ encoded \in 0 .. Len(functions) /\ Hash \in [Name -> Bucket]
      /\ LastListed /\ Placed /\ Len(entries) \in Nat /\ DOMAIN entries = 1 .. Len(entries)
      /\ Len(functions) \in Nat /\ \A i \in DOMAIN entries : entries[i] \in EntryRecord
  BY SymbolAssumption DEF IInv, TypeOK, Queued
<1>2. PICK n \in 1 .. Len(functions) : n = encoded + 1
  <2>1. encoded < Len(functions) BY DEF Encode
  <2>2. encoded \in Nat BY <1>1
  <2>3. encoded + 1 \in 1 .. Len(functions) BY <1>1, <2>1, <2>2
  <2> QED BY <2>3
<1>3. PICK x \in Name : x = functions[n] BY <1>1, <1>2
<1>4. Lookup(x) /\ functions' = functions BY <1>2, <1>3 DEF Encode
<1>5. PICK b \in Bucket : b = Hash[x] BY <1>1
<1>6. CASE ~ Found(cells[b], x)
  <2>1. entries' = entries /\ encoded' = encoded BY <1>2, <1>3, <1>5, <1>6 DEF Encode
  <2>2. NamesOnce' /\ EntriesListed' /\ LastListed' BY <1>4, <2>1, LookupQueued
  <2>3. Placed'
    <3>1. Placed BY <1>1
    <3>2. UNCHANGED <<entries, encoded, functions>> BY <1>4, <2>1
    <3> QED BY <3>1, <3>2 DEF Placed
  <2> QED BY <2>2, <2>3 DEF Queued
<1>7. CASE Found(cells[b], x)
  <2>1. /\ entries' = [entries EXCEPT ![cells[b][StopsAt(cells[b], x)]].pos = encoded]
        /\ encoded' = encoded + 1
    BY <1>2, <1>3, <1>5, <1>7 DEF Encode
  <2>2. cells[b] \in Seq(1 .. Len(entries)) BY <1>1
  <2>3. PICK i \in DOMAIN cells[b] : i = StopsAt(cells[b], x) /\ entries[cells[b][i]].name = x
    BY <1>7, <2>2, StopsThere
  <2>4. PICK m \in DOMAIN entries : m = cells[b][i] BY <1>1, <2>2, <2>3
  <2>5. entries[m].name = x /\ \A j \in m + 1 .. Len(entries) : entries[j].name # x
    BY <1>1, <2>3, <2>4 DEF LastListed
  <2>6. entries' = [entries EXCEPT ![m].pos = encoded] BY <2>1, <2>3, <2>4
  <2>7. /\ entries'[m].pos = encoded /\ DOMAIN entries' = DOMAIN entries
        /\ Len(entries') = Len(entries)
        /\ \A j \in DOMAIN entries : /\ entries'[j].name = entries[j].name
                                     /\ j # m => entries'[j] = entries[j]
    <3>1. entries' = [entries EXCEPT ![m] = [entries[m] EXCEPT !.pos = encoded]] BY <2>6
    <3>2. entries[m] \in EntryRecord BY <1>1
    <3>3. /\ [entries[m] EXCEPT !.pos = encoded].pos = encoded
          /\ [entries[m] EXCEPT !.pos = encoded].name = entries[m].name
      BY <3>2 DEF EntryRecord
    <3> QED BY <1>1, <3>1, <3>3
  <2>8. NamesOnce' /\ EntriesListed' /\ LastListed' BY <1>4, <2>7, LookupQueued
  <2>9. ASSUME NEW k \in 1 .. n, NEW j \in DOMAIN entries
        PROVE  /\ \E h \in DOMAIN entries : entries'[h].name = functions[k]
               /\ /\ entries'[j].name = functions[k]
                  /\ \A h \in j + 1 .. Len(entries) : entries'[h].name # functions[k]
                  /\ \A h \in k + 1 .. n : functions[h] # functions[k]
                  => entries'[j].pos = k - 1
    <3>1. CASE k = n
      <4>1. entries'[m].name = functions[k] BY <1>3, <2>5, <2>7, <3>1
      <4>2. ASSUME entries'[j].name = functions[k],
                   \A h \in j + 1 .. Len(entries) : entries'[h].name # functions[k]
            PROVE  j = m
        <5>1. entries[j].name = x BY <1>3, <2>7, <3>1, <4>2
        <5>2. ~ (j < m)
          <6>1. j \in Nat /\ m \in Nat /\ m <= Len(entries) /\ Len(entries) \in Nat BY <1>1
          <6>2. j < m => m \in j + 1 .. Len(entries) BY <6>1
          <6> QED BY <4>1, <4>2, <6>2
        <5>3. ~ (j > m) BY <1>1, <2>5, <5>1
        <5> QED BY <1>1, <5>2, <5>3
      <4>3. entries'[m].pos = k - 1 BY <1>1, <1>2, <2>7, <3>1
      <4> QED BY <4>1, <4>2, <4>3
    <3>2. CASE k # n
      <4>1. k \in 1 .. encoded BY <1>1, <1>2, <3>2
      <4>2. PICK h \in DOMAIN entries : entries[h].name = functions[k] BY <1>1, <4>1 DEF Placed
      <4>3. entries'[h].name = functions[k] BY <2>7, <4>2
      <4>4. ASSUME entries'[j].name = functions[k],
                   \A g \in j + 1 .. Len(entries) : entries'[g].name # functions[k],
                   \A g \in k + 1 .. n : functions[g] # functions[k]
            PROVE  entries'[j].pos = k - 1
        <5>1. functions[k] # x
          <6>1. n \in k + 1 .. n BY <1>1, <1>2, <4>1
          <6> QED BY <1>3, <4>4, <6>1
        <5>2. entries'[j] = entries[j] BY <2>5, <2>7, <4>4, <5>1
        <5>3. \A g \in j + 1 .. Len(entries) : entries[g].name # functions[k]
          <6>1. \A g \in j + 1 .. Len(entries) : g \in DOMAIN entries BY <1>1
          <6> QED BY <2>7, <4>4, <6>1
        <5>4. \A g \in k + 1 .. encoded : functions[g] # functions[k]
          BY <1>1, <1>2, <4>4
        <5>5. entries[j].pos = k - 1 BY <1>1, <4>1, <4>4, <5>2, <5>3, <5>4 DEF Placed
        <5> QED BY <5>2, <5>5
      <4> QED BY <4>3, <4>4
    <3> QED BY <3>1, <3>2
  <2>10. Placed'
    <3>1. encoded' = n BY <1>2, <2>1
    <3>2. functions' = functions BY <1>4
    <3>3. DOMAIN entries' = DOMAIN entries /\ Len(entries') = Len(entries) BY <2>7
    <3>4. ASSUME NEW k \in 1 .. encoded'
          PROVE  /\ \E h \in DOMAIN entries' : entries'[h].name = functions'[k]
                 /\ \A h \in DOMAIN entries' :
                      /\ entries'[h].name = functions'[k]
                      /\ \A j \in h + 1 .. Len(entries') : entries'[j].name # functions'[k]
                      /\ \A j \in k + 1 .. encoded' : functions'[j] # functions'[k]
                      => entries'[h].pos = k - 1
      <4>1. k \in 1 .. n BY <3>1
      <4>2. \E h \in DOMAIN entries : entries'[h].name = functions[k] BY <2>4, <2>9, <4>1
      <4>3. ASSUME NEW j \in DOMAIN entries,
                   entries'[j].name = functions[k],
                   \A h \in j + 1 .. Len(entries) : entries'[h].name # functions[k],
                   \A h \in k + 1 .. n : functions[h] # functions[k]
            PROVE  entries'[j].pos = k - 1
        BY <2>9, <4>1, <4>3
      <4> QED BY <3>1, <3>2, <3>3, <4>2, <4>3
    <3> QED BY <3>4 DEF Placed
  <2> QED BY <2>8, <2>10 DEF Queued
<1> QED BY <1>6, <1>7

LEMMA QueuedStep ==
  ASSUME IInv, Queued, [Next]_vars PROVE Queued'
<1>1. ASSUME NEW x \in Name, Declare(x) \/ Define(x) PROVE Queued'
  BY <1>1, AddQueued DEF Declare, Define, Parsing
<1>2. ASSUME NEW x \in Name, Mention(x) PROVE Queued'
  <2>1. Lookup(x) /\ entries' = entries /\ encoded = 0 /\ encoded' = 0
    BY <1>2 DEF Mention, Parsing
  <2>2. NamesOnce' /\ EntriesListed' /\ LastListed' BY <2>1, LookupQueued
  <2>3. Placed'
    <3>1. encoded' = 0 BY <2>1
    <3> QED BY <3>1 DEF Placed
  <2> QED BY <2>2, <2>3 DEF Queued
<1>3. ASSUME UNCHANGED vars PROVE Queued'
  BY <1>3 DEF vars, Queued, NamesOnce, EntriesListed, LastListed, Placed, Alone, Found
<1> QED BY <1>1, <1>2, <1>3, EncodeQueued DEF Next

LEMMA QueueInvariance == Spec => [](IInv /\ Queued)
<1>1. Init => IInv /\ Queued
  <2>1. Init => Queued
    BY SymbolAssumption DEF Init, Queued, NamesOnce, EntriesListed, LastListed, Placed
  <2> QED BY <2>1, InitInv
<1>2. IInv /\ Queued /\ [Next]_vars => (IInv /\ Queued)' BY StepInv, QueuedStep
<1> QED BY <1>1, <1>2, PTL DEF Spec

(* The entry sea_jit takes is there, and is the one that got the position   *)
(* of the last function of the name.                                       *)
LEMMA LastFound == IInv /\ Queued => JitFinds
<1> SUFFICES ASSUME IInv, Queued, NEW k \in 1 .. encoded
             PROVE  entries[LastEntry(functions[k])].pos = LastPlaced(functions[k]) - 1
  BY DEF JitFinds
<1> DEFINE x == functions[k]
           E == {i \in DOMAIN entries : entries[i].name = x}
           F == {i \in 1 .. encoded : functions[i] = x}
<1>1. /\ DOMAIN entries = 1 .. Len(entries) /\ Len(entries) \in Nat /\ encoded \in Nat /\ Placed
  BY DEF IInv, TypeOK, Queued
<1>2. E \in SUBSET (1 .. Len(entries)) /\ E # {} BY <1>1 DEF Placed
<1>3. F \in SUBSET (1 .. encoded) /\ F # {} OBVIOUS
<1> HIDE DEF E, F
<1>4. \E i \in E : \A j \in i + 1 .. Len(entries) : j \notin E BY <1>1, <1>2, LastPlace
<1>5. \E i \in F : \A j \in i + 1 .. encoded : j \notin F BY <1>1, <1>3, LastPlace
<1> USE DEF E, F
<1>6. \E i \in DOMAIN entries :
        entries[i].name = x /\ \A j \in i + 1 .. Len(entries) : entries[j].name # x
  <2>1. PICK i \in E : \A j \in i + 1 .. Len(entries) : j \notin E BY <1>4
  <2>2. \A j \in i + 1 .. Len(entries) : j \in DOMAIN entries BY <1>1, <1>2, <2>1
  <2> QED BY <2>1, <2>2
<1>7. \E i \in 1 .. encoded :
        functions[i] = x /\ \A j \in i + 1 .. encoded : functions[j] # x
  <2>1. PICK i \in F : \A j \in i + 1 .. encoded : j \notin F BY <1>5
  <2>2. \A j \in i + 1 .. encoded : j \in 1 .. encoded BY <1>1, <1>3, <2>1
  <2> QED BY <2>1, <2>2
<1>8. /\ LastEntry(x) \in DOMAIN entries /\ entries[LastEntry(x)].name = x
      /\ \A j \in LastEntry(x) + 1 .. Len(entries) : entries[j].name # x
  BY <1>6 DEF LastEntry
<1>9. /\ LastPlaced(x) \in 1 .. encoded /\ functions[LastPlaced(x)] = x
      /\ \A j \in LastPlaced(x) + 1 .. encoded : functions[j] # x
  BY <1>7 DEF LastPlaced
<1> HIDE DEF x, E, F
<1>10. entries[LastEntry(x)].pos = LastPlaced(x) - 1
  <2>1. PICK h \in 1 .. encoded : h = LastPlaced(x) BY <1>9
  <2>2. PICK i \in DOMAIN entries : i = LastEntry(x) BY <1>8
  <2>3. functions[h] = x /\ \A j \in h + 1 .. encoded : functions[j] # functions[h] BY <1>9, <2>1
  <2>4. /\ entries[i].name = functions[h]
        /\ \A j \in i + 1 .. Len(entries) : entries[j].name # functions[h]
    BY <1>8, <2>2, <2>3
  <2>5. entries[i].pos = h - 1 BY <1>1, <2>3, <2>4 DEF Placed
  <2> QED BY <2>1, <2>2, <2>5
<1> QED BY <1>10 DEF x

(* The names, chains, positions and counts keep their types.               *)
THEOREM SymbolTypes == Spec => []TypeOK
<1>1. IInv /\ Queued => TypeOK BY DEF IInv
<1> QED BY <1>1, QueueInvariance, PTL

(* sea_add_symbol makes one entry for a name that is alone in its bucket,   *)
(* though every lookup writes to the table.                                *)
THEOREM NamesAreOnce == Spec => []NamesOnce
<1>1. IInv /\ Queued => NamesOnce BY DEF Queued
<1> QED BY <1>1, QueueInvariance, PTL

(* sea_jit finds the position of the last function of a name, whatever      *)
(* entries lookups dropped from the table.                                 *)
THEOREM JitFindsLast == Spec => []JitFinds
BY QueueInvariance, LastFound, PTL
=============================================================================
