-------------------------- MODULE BaseLanesProofs --------------------------
(***************************************************************************)
(* Proofs about BaseLanes for every number of lanes and every tick: the     *)
(* barrier and the broadcast implement the team of BaseTeam.                *)
(***************************************************************************)
EXTENDS BaseLanes, TLAPS

Puts == {"put", "gather", "decide"}

(* What a round looks like: the values that are put are got next.           *)
LEMMA LoopShape ==
  /\ Final \in Nat /\ Final >= 4
  /\ Loop \in [1 .. Final -> Kinds \cup {"begin", "decide"}]
  /\ Loop[1] = "begin" /\ Loop[Decide] = "decide" /\ Loop[Final] = "get"
  /\ \A k \in 1 .. Final : Loop[k] = "get" => k > 1 /\ Loop[k - 1] \in Puts
  /\ \A k \in 1 .. Final : Loop[k] = "decide" => k = Decide
<1> DEFINE n == Len(Tick)
<1>1. Tick \in Seq(Kinds) /\ n \in Nat /\ Tick \in [1 .. n -> Kinds]
  BY LanesAssumption
<1>2. /\ Len(Loop) = Final
      /\ \A k \in 1 .. Final :
           Loop[k] = IF k = 1 THEN "begin" ELSE IF k <= n + 1 THEN Tick[k - 1]
                     ELSE IF k = n + 2 THEN "none" ELSE IF k = n + 3 THEN "decide" ELSE "get"
  BY <1>1 DEF Loop, Final
<1>3. Loop \in Seq(Kinds \cup {"begin", "decide"})
  BY <1>1 DEF Loop, Kinds
<1>4. Loop \in [1 .. Final -> Kinds \cup {"begin", "decide"}]
  BY <1>2, <1>3
<1>5. ASSUME NEW k \in 1 .. Final, Loop[k] = "get"
      PROVE  k > 1 /\ Loop[k - 1] \in Puts
  <2>1. CASE k = Final
    BY <2>1, <1>1, <1>2 DEF Final, Puts
  <2>2. CASE k # Final
    <3>1. k > 1 /\ k <= n + 1 /\ Tick[k - 1] = "get"
      BY <2>2, <1>1, <1>2, <1>5 DEF Final
    <3>2. k - 1 \in 1 .. n
      BY <3>1, <1>1
    <3>3. k - 1 > 1 /\ Tick[k - 2] \in {"put", "gather"}
      BY <3>1, <3>2, LanesAssumption
    <3> QED
      BY <3>1, <3>3, <1>1, <1>2 DEF Final, Puts
  <2> QED
    BY <2>1, <2>2
<1>6. ASSUME NEW k \in 1 .. Final, Loop[k] = "decide"
      PROVE  k = Decide
  BY <1>1, <1>2, <1>6 DEF Final, Decide, Kinds
<1> QED
  BY <1>1, <1>2, <1>4, <1>5, <1>6 DEF Final, Decide
-----------------------------------------------------------------------------
(* The lanes are in step: those the barrier has let go are still in the     *)
(* segment they finished, all others are in the next one; when none is let  *)
(* go all are in the same.                                                  *)
InStep ==
  /\ arrived \cap released = {} /\ arrived # Lane
  /\ \A l \in arrived \cup released : pos[l] # Out
  /\ \A l \in Lane, m \in Lane :
       /\ (l \in released <=> m \in released) => pos[l] = pos[m]
       /\ l \in released /\ m \notin released => pos[m] = After(l)

(* The memory holds what the lead sent last until all others have it.       *)
Sent ==
  \A k \in 1 .. Final :
    Loop[k] = "get" /\ (pos[Lead] = k \/ (pos[Lead] = k - 1 /\ Lead \in arrived \cup released))
      => memory = own[Lead][k - 1]

IInv == TypeOK /\ InStep /\ Sent /\ Heard

LEMMA InitInv == Init => IInv
<1> SUFFICES ASSUME Init PROVE IInv
  OBVIOUS
<1> USE LoopShape, LanesAssumption DEF Init
<1>1. TypeOK
  <2>1. pos \in [Lane -> 0 .. Final] /\ own \in [Lane -> [1 .. Final -> BOOLEAN]]
    OBVIOUS
  <2> QED
    BY <2>1, Zenon DEF TypeOK
<1>2. InStep
  BY DEF InStep
<1>3. Sent
  <2> SUFFICES ASSUME NEW k \in 1 .. Final,
                      Loop[k] = "get" /\ (pos[Lead] = k \/ (pos[Lead] = k - 1 /\ Lead \in arrived \cup released))
               PROVE  FALSE
    BY DEF Sent
  <2> QED
    OBVIOUS
<1>4. Heard
  BY DEF Heard
<1> QED
  BY <1>1, <1>2, <1>3, <1>4 DEF IInv

(* The type invariant is inductive by itself.                               *)
LEMMA TypeStep == TypeOK /\ [Next]_vars => TypeOK'
<1> SUFFICES ASSUME TypeOK, [Next]_vars PROVE TypeOK'
  OBVIOUS
<1> USE LoopShape, LanesAssumption
<1>1. ASSUME NEW l \in Lane, Arrive(l) PROVE TypeOK'
  <2>1. pos[l] \in 1 .. Final /\ Lead \in Lane
    BY <1>1 DEF Arrive, TypeOK, Out
  <2>2. ASSUME NEW v \in BOOLEAN, l = Lead, Put(v)
        PROVE  memory' \in BOOLEAN /\ own' \in [Lane -> [1 .. Final -> BOOLEAN]]
    BY <2>1, <2>2 DEF Put, TypeOK
  <2>3. /\ memory' \in BOOLEAN /\ asked' \in BOOLEAN
        /\ own' \in [Lane -> [1 .. Final -> BOOLEAN]]
    <3>1. CASE Loop[pos[l]] = "get"
      <4>1. pos[l] - 1 \in 1 .. Final
        BY <2>1, <3>1
      <4>2. Get(l)
        BY <1>1, <3>1 DEF Arrive, Segment
      <4> QED
        BY <2>1, <4>1, <4>2 DEF Get, TypeOK
    <3>2. CASE Loop[pos[l]] # "get" /\ l # Lead
      BY <1>1, <3>2 DEF Arrive, Segment, DoNothing, TypeOK
    <3>3. CASE Loop[pos[l]] # "get" /\ l = Lead
      <4>1. CASE PutOne
        BY <3>3, <4>1, <2>2 DEF PutOne, TypeOK
      <4>2. CASE Gather
        BY <3>3, <4>2, <2>2 DEF Gather, TypeOK
      <4>3. CASE PutExit
        BY <3>3, <4>3, <2>2 DEF PutExit, TypeOK
      <4>4. CASE DoNothing
        BY <4>4 DEF DoNothing, TypeOK
      <4> QED
        BY <1>1, <2>1, <3>3, <4>1, <4>2, <4>3, <4>4 DEF Arrive, Segment, Kinds
    <3> QED
      BY <3>1, <3>2, <3>3
  <2> QED
    BY <1>1, <2>3 DEF Arrive, TypeOK, mainVars
<1>2. ASSUME NEW l \in Lane, Return(l) PROVE TypeOK'
  <2>1. After(l) \in 0 .. Final
    BY DEF After, TypeOK, Out
  <2> QED
    BY <1>2, <2>1 DEF Return, TypeOK, mainVars
<1>3. CASE LeadStep
  BY <1>3 DEF LeadStep, Check, Timeout, Clear, TypeOK, barrierVars, mainVars
<1>4. CASE MainStep
  BY <1>4 DEF MainStep, Push, Tell, SetAgain, Exit, TellExit, Join, Wakened, TypeOK, barrierVars
<1>5. CASE UNCHANGED vars
  BY <1>5 DEF vars, TypeOK
<1> QED
  BY <1>1, <1>2, <1>3, <1>4, <1>5 DEF Next, LaneStep, Ended
-----------------------------------------------------------------------------
(* What one segment may touch: the variable of the lane itself, for the     *)
(* lead only the one its segment sends, and the memory only with that.      *)
LEMMA SegmentFrame ==
  ASSUME TypeOK, NEW l \in Lane, Arrive(l)
  PROVE  /\ pos[l] \in 1 .. Final
         /\ pos' = pos
         /\ arrived' \cup released' = arrived \cup released \cup {l}
         /\ \A m \in Lane : m # l => own'[m] = own[m]
         /\ Loop[pos[l]] \notin Puts \/ l # Lead =>
              memory' = memory /\ own'[Lead] = own[Lead]
         /\ Loop[pos[l]] \in Puts /\ l = Lead =>
              /\ memory' = own'[Lead][pos[Lead]]
              /\ \A k \in 1 .. Final : k # pos[Lead] => own'[Lead][k] = own[Lead][k]
         /\ Loop[pos[l]] = "get" /\ l # Lead => own'[l][pos[l] - 1] = memory
<1> USE LanesAssumption
<1>1. /\ pos[l] \in 1 .. Final
      /\ Loop[pos[l]] \in Kinds \cup {"begin", "decide"}
      /\ Loop[pos[l]] = "get" => pos[l] - 1 \in 1 .. Final
  BY LoopShape DEF Arrive, TypeOK, Out
<1>2. pos' = pos /\ arrived' \cup released' = arrived \cup released \cup {l}
  BY DEF Arrive
<1>3. CASE Loop[pos[l]] = "get"
  <2>1. Get(l)
    BY <1>3 DEF Arrive, Segment
  <2> QED
    BY <1>1, <1>2, <1>3, <2>1 DEF Get, TypeOK, Puts
<1>4. CASE Loop[pos[l]] # "get" /\ l # Lead
  BY <1>1, <1>2, <1>4 DEF Arrive, Segment, DoNothing
<1>5. CASE Loop[pos[l]] \in Puts /\ l = Lead
  <2>1. PICK v \in BOOLEAN : Put(v)
    BY <1>5 DEF Arrive, Segment, PutOne, Gather, PutExit, Puts, TypeOK
  <2>2. /\ memory' = own'[Lead][pos[Lead]]
        /\ \A k \in 1 .. Final : k # pos[Lead] => own'[Lead][k] = own[Lead][k]
        /\ \A m \in Lane : m # Lead => own'[m] = own[m]
    BY <1>1, <1>5, <2>1 DEF Put, TypeOK
  <2> QED
    BY <1>1, <1>2, <1>5, <2>2 DEF Puts
<1>6. CASE Loop[pos[l]] \in {"begin", "none"} /\ l = Lead
  BY <1>1, <1>2, <1>6 DEF Arrive, Segment, DoNothing, Puts
<1> QED
  BY <1>1, <1>3, <1>4, <1>5, <1>6 DEF Kinds, Puts

(* All lanes that are let go take the same next segment.                   *)
LEMMA SameNext ==
  ASSUME TypeOK, InStep, Heard, NEW l \in released
  PROVE  /\ pos[l] \in 1 .. Final
         /\ After(l) \in 0 .. Final
         /\ After(l) = Team!Following(pos[l])
         /\ \A m \in released : pos[m] = pos[l] /\ After(m) = After(l)
<1> USE LoopShape, LanesAssumption
<1>1. \A m \in released : m \in Lane /\ pos[m] \in 1 .. Final /\ pos[m] = pos[l]
  BY DEF TypeOK, InStep, Out
<1>2. \A m \in released : pos[m] = Final => own[m][Decide] = own[Lead][Decide]
  BY <1>1 DEF Heard, Decide, Out
<1>3. \A m \in released : After(m) = Team!Following(pos[m])
  BY <1>1, <1>2 DEF After, Team!Following, Out, Team!Out
<1>4. After(l) \in 0 .. Final
  BY <1>1 DEF After, Out
<1> QED
  BY <1>1, <1>3, <1>4

LEMMA ArriveInStep ==
  ASSUME TypeOK, InStep, NEW l \in Lane, Arrive(l)
  PROVE  InStep'
<1>1. /\ pos[l] # Out /\ l \notin arrived \cup released
      /\ pos' = pos /\ \A m \in Lane : m # l => own'[m] = own[m]
  BY SegmentFrame DEF Arrive
<1>2. CASE arrived \cup {l} = Lane
  <2>1. released = {}
    BY <1>1, <1>2 DEF InStep, TypeOK
  <2>2. arrived' = {} /\ released' = Lane
    BY <1>2, <2>1 DEF Arrive, Complete
  <2>3. \A m \in Lane : pos[m] = pos[l]
    BY <2>1 DEF InStep
  <2> QED
    BY <1>1, <2>2, <2>3 DEF InStep
<1>3. CASE arrived \cup {l} # Lane
  <2>1. arrived' = arrived \cup {l} /\ released' = released
    BY <1>3 DEF Arrive, Complete
  <2>2. \A m \in released : m \in Lane /\ m # l /\ After(m)' = After(m)
    BY <1>1 DEF After, TypeOK
  <2> QED
    BY <1>1, <1>3, <2>1, <2>2 DEF InStep
<1> QED
  BY <1>2, <1>3

LEMMA ReturnInStep ==
  ASSUME TypeOK, InStep, Heard, NEW l \in Lane, Return(l)
  PROVE  InStep'
<1>1. /\ l \in released /\ released' = released \ {l} /\ arrived' = arrived
      /\ own' = own /\ pos' = [pos EXCEPT ![l] = After(l)]
  BY DEF Return
<1>2. /\ pos'[l] = After(l)
      /\ \A m \in Lane : m # l => pos'[m] = pos[m] /\ After(m)' = After(m)
  BY <1>1 DEF TypeOK, After
<1>3. \A m \in released : pos[m] = pos[l] /\ After(m) = After(l)
  BY <1>1, SameNext
<1>4. \A m \in Lane : m \notin released => pos[m] = After(l)
  BY <1>1 DEF InStep
<1>5. arrived' \cap released' = {} /\ arrived' # Lane
  BY <1>1 DEF InStep
<1>6. \A m \in arrived' \cup released' : pos'[m] # Out
  BY <1>1, <1>2 DEF InStep, TypeOK
<1>7. ASSUME NEW m \in Lane, NEW n \in Lane
      PROVE  /\ (m \in released' <=> n \in released') => pos'[m] = pos'[n]
             /\ m \in released' /\ n \notin released' => pos'[n] = After(m)'
  BY <1>1, <1>2, <1>3, <1>4
<1> QED
  BY <1>5, <1>6, <1>7 DEF InStep

LEMMA ArriveSent ==
  ASSUME TypeOK, InStep, Sent, NEW l \in Lane, Arrive(l)
  PROVE  Sent'
<1> USE LoopShape, LanesAssumption
<1> SUFFICES ASSUME NEW k \in 1 .. Final, Loop[k] = "get",
                    pos'[Lead] = k \/ (pos'[Lead] = k - 1 /\ Lead \in arrived' \cup released')
             PROVE  memory' = own'[Lead][k - 1]
  BY DEF Sent
<1>1. Loop[k - 1] \in Puts /\ "get" \notin Puts /\ k - 1 \in 1 .. Final /\ pos' = pos
  BY SegmentFrame DEF Puts
<1>2. CASE l # Lead
  BY <1>1, <1>2, SegmentFrame DEF Sent
<1>3. CASE l = Lead /\ pos[Lead] = k
  BY <1>1, <1>3, SegmentFrame DEF Sent
<1>4. CASE l = Lead /\ pos[Lead] = k - 1
  BY <1>1, <1>4, SegmentFrame
<1> QED
  BY <1>1, <1>2, <1>3, <1>4

LEMMA ReturnSent ==
  ASSUME TypeOK, InStep, Sent, Heard, NEW l \in Lane, Return(l)
  PROVE  Sent'
<1> USE LoopShape, LanesAssumption
<1> SUFFICES ASSUME NEW k \in 1 .. Final, Loop[k] = "get",
                    pos'[Lead] = k \/ (pos'[Lead] = k - 1 /\ Lead \in arrived' \cup released')
             PROVE  memory' = own'[Lead][k - 1]
  BY DEF Sent
<1>1. /\ l \in released /\ released' = released \ {l} /\ arrived' = arrived
      /\ own' = own /\ memory' = memory /\ pos' = [pos EXCEPT ![l] = After(l)]
  BY DEF Return
<1>2. CASE l # Lead
  <2>1. pos'[Lead] = pos[Lead]
    BY <1>1, <1>2 DEF TypeOK
  <2> QED
    BY <1>1, <2>1 DEF Sent
<1>3. CASE l = Lead
  <2>1. pos'[Lead] = After(Lead) /\ Lead \notin arrived' \cup released'
    BY <1>1, <1>3 DEF TypeOK, InStep
  <2>2. pos[Lead] \in 1 .. Final /\ k > 1
    BY <1>1, <1>3, SameNext
  <2>3. pos[Lead] = k - 1
    BY <2>1, <2>2 DEF After, Out
  <2> QED
    BY <1>1, <1>3, <2>3 DEF Sent
<1> QED
  BY <1>2, <1>3

LEMMA ArriveHeard ==
  ASSUME TypeOK, InStep, Sent, Heard, NEW l \in Lane, Arrive(l)
  PROVE  Heard'
<1> USE LoopShape, LanesAssumption
<1>1. pos[l] \in 1 .. Final /\ l \notin arrived \cup released /\ pos' = pos
  BY SegmentFrame DEF Arrive
<1> SUFFICES ASSUME NEW m \in Lane, pos[m] # Out, Loop[pos[m]] = "get",
                    m \in arrived \cup released \cup {l}
             PROVE  own'[m][pos[m] - 1] = own'[Lead][pos[m] - 1]
  BY <1>1, SegmentFrame DEF Heard
<1>2. pos[m] \in 1 .. Final /\ pos[m] > 1 /\ "get" \notin Puts
  BY DEF TypeOK, Out, Puts
<1>3. CASE m = l /\ l # Lead
  <2>1. pos[Lead] = pos[l] \/ (pos[Lead] = pos[l] - 1 /\ Lead \in released)
    <3>1. CASE Lead \in released
      <4>1. pos[l] = After(Lead) /\ pos[Lead] \in 1 .. Final
        BY <1>1, <3>1, SameNext DEF InStep
      <4> QED
        BY <1>2, <1>3, <3>1, <4>1 DEF After, Out
    <3>2. CASE Lead \notin released
      BY <1>1, <3>2 DEF InStep
    <3> QED
      BY <3>1, <3>2
  <2>2. memory = own[Lead][pos[l] - 1]
    BY <1>1, <1>3, <2>1 DEF Sent
  <2> QED
    BY <1>3, <2>2, SegmentFrame
<1>4. CASE m # l /\ l # Lead
  BY <1>4, SegmentFrame DEF Heard
<1>5. CASE m # l /\ l = Lead
  <2>1. pos[m] - 1 # pos[Lead]
    <3>1. CASE m \in released
      <4>1. pos[Lead] = After(m)
        BY <1>1, <1>5, <3>1 DEF InStep
      <4> QED
        BY <1>1, <1>2, <1>5, <4>1 DEF After, Out
    <3>2. CASE m \notin released
      <4>1. pos[m] = pos[Lead]
        BY <1>1, <1>5, <3>2 DEF InStep
      <4> QED
        BY <1>2, <4>1
    <3> QED
      BY <3>1, <3>2
  <2>2. own'[m] = own[m] /\ pos[m] - 1 \in 1 .. Final
    BY <1>2, <1>5, SegmentFrame
  <2>3. own'[Lead][pos[m] - 1] = own[Lead][pos[m] - 1]
    BY <1>5, <2>1, <2>2, SegmentFrame
  <2> QED
    BY <1>5, <2>2, <2>3 DEF Heard
<1>6. CASE m = l /\ l = Lead
  BY <1>6
<1> QED
  BY <1>3, <1>4, <1>5, <1>6

LEMMA ReturnHeard ==
  ASSUME TypeOK, InStep, Heard, NEW l \in Lane, Return(l)
  PROVE  Heard'
<1>1. /\ l \in released /\ released' = released \ {l} /\ arrived' = arrived
      /\ own' = own /\ pos' = [pos EXCEPT ![l] = After(l)]
  BY DEF Return
<1>2. \A m \in Lane : m \in arrived' \cup released' => m # l /\ m \in arrived \cup released
  BY <1>1 DEF InStep
<1>3. \A m \in Lane : m # l => pos'[m] = pos[m]
  BY <1>1 DEF TypeOK
<1> QED
  BY <1>1, <1>2, <1>3 DEF Heard

(* The steps of the lead's wait and of the main thread leave the barrier     *)
(* and the memory alone.                                                    *)
LEMMA OtherSteps ==
  ASSUME LeadStep \/ MainStep \/ UNCHANGED vars
  PROVE  UNCHANGED <<pos, arrived, released, own, memory>>
BY DEF LeadStep, Check, Timeout, Clear, MainStep, Push, Tell, SetAgain, Exit,
       TellExit, Join, vars, barrierVars

LEMMA StepInv == IInv /\ [Next]_vars => IInv'
<1> SUFFICES ASSUME IInv, [Next]_vars PROVE IInv'
  OBVIOUS
<1>1. TypeOK'
  BY TypeStep DEF IInv
<1>2. ASSUME NEW l \in Lane, Arrive(l) PROVE InStep' /\ Sent' /\ Heard'
  BY <1>2, ArriveInStep, ArriveSent, ArriveHeard DEF IInv
<1>3. ASSUME NEW l \in Lane, Return(l) PROVE InStep' /\ Sent' /\ Heard'
  BY <1>3, ReturnInStep, ReturnSent, ReturnHeard DEF IInv
<1>4. CASE LeadStep \/ MainStep \/ UNCHANGED vars
  <2>1. UNCHANGED <<pos, arrived, released, own, memory>>
    BY <1>4, OtherSteps
  <2> QED
    BY <1>1, <2>1 DEF IInv, InStep, Sent, Heard, After
<1> QED
  BY <1>1, <1>2, <1>3, <1>4 DEF Next, LaneStep, Ended, IInv

LEMMA Invariant == Spec => []IInv
<1>1. Init => IInv
  BY InitInv
<1>2. IInv /\ [Next]_vars => IInv'
  BY StepInv
<1> QED
  BY <1>1, <1>2, PTL DEF Spec

(* Every step leaves the variables in their types, for every team and tick. *)
THEOREM TypesKept == Spec => []TypeOK
<1>1. IInv => TypeOK
  BY DEF IInv
<1> QED
  BY <1>1, Invariant, PTL

(* lane_sync_u64 gives every lane the value of the lead, however the lanes  *)
(* run and whatever is sent next.                                          *)
THEOREM ValueHeard == Spec => []Heard
<1>1. IInv => Heard
  BY DEF IInv
<1> QED
  BY <1>1, Invariant, PTL
-----------------------------------------------------------------------------
LEMMA ArriveFinishes ==
  ASSUME IInv, NEW l \in Lane, Arrive(l), TypeOK'
  PROVE  Team!Finish(l)
<1> USE LoopShape, LanesAssumption
<1>1. /\ pos[l] # Out /\ l \notin arrived \cup released /\ pos' = pos
      /\ arrived' \cup released' = (arrived \cup released) \cup {l}
  BY SegmentFrame DEF IInv, Arrive
<1>2. Decide \in 1 .. Final
  BY DEF Decide
<1>3. CASE l = Lead /\ pos[l] = Decide
  <2>1. own'[Lead][Decide] \in BOOLEAN
    BY <1>2 DEF TypeOK
  <2> QED
    BY <1>1, <1>3, <2>1 DEF Team!Finish, Team!Out, Out
<1>4. CASE ~(l = Lead /\ pos[l] = Decide)
  <2>1. own'[Lead][Decide] = own[Lead][Decide]
    BY <1>2, <1>4, SegmentFrame DEF IInv
  <2> QED
    BY <1>1, <1>4, <2>1 DEF Team!Finish, Team!Out, Out
<1> QED
  BY <1>3, <1>4

LEMMA ReturnProceeds ==
  ASSUME IInv, NEW l \in Lane, Return(l)
  PROVE  Team!Proceed(l)
<1>1. /\ l \in released /\ released' = released \ {l} /\ arrived' = arrived
      /\ own' = own /\ pos' = [pos EXCEPT ![l] = After(l)]
  BY DEF Return
<1>2. After(l) = Team!Following(pos[l])
  BY <1>1, SameNext DEF IInv
<1>3. arrived' \cup released' = (arrived \cup released) \ {l}
  BY <1>1 DEF IInv, InStep
<1>4. \A m \in Lane : (pos[m] = pos[l] /\ m \in arrived \cup released) \/ pos[m] = After(l)
  <2> TAKE m \in Lane
  <2>1. CASE m \in released
    BY <1>1, <2>1 DEF IInv, InStep
  <2>2. CASE m \notin released
    BY <1>1, <2>2 DEF IInv, InStep
  <2> QED
    BY <2>1, <2>2
<1> QED
  BY <1>1, <1>2, <1>3, <1>4 DEF Team!Proceed

(* The lanes with their barrier and their memory are a team: no lane begins *)
(* a segment before all have finished the one before, and all leave in the  *)
(* same round or none.                                                      *)
THEOREM Implements == Spec => LanesInStep
<1>1. Init => Team!Init
  BY LoopShape, LanesAssumption DEF Init, Team!Init, Decide
<1>2. IInv /\ IInv' /\ [Next]_vars => [Team!Next]_Team!vars
  <2> SUFFICES ASSUME IInv, IInv', [Next]_vars PROVE [Team!Next]_Team!vars
    OBVIOUS
  <2>1. ASSUME NEW l \in Lane, Arrive(l) PROVE Team!Next
    BY <2>1, ArriveFinishes DEF IInv, Team!Next
  <2>2. ASSUME NEW l \in Lane, Return(l) PROVE Team!Next
    BY <2>2, ReturnProceeds DEF Team!Next
  <2>3. CASE LeadStep \/ MainStep \/ UNCHANGED vars
    BY <2>3, OtherSteps DEF Team!vars
  <2> QED
    BY <2>1, <2>2, <2>3 DEF Next, LaneStep, Ended
<1> QED
  BY <1>1, <1>2, Invariant, PTL DEF Spec, LanesInStep, Team!Spec
=============================================================================
