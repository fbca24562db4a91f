------------------------------ MODULE SeaRange ------------------------------
(***************************************************************************)
(* The integer types of the lattice (sea/sea_type.c) and the types that     *)
(* sea/sea_compute.c gives to operations on them.  An integer type is a     *)
(* range; Bot says nothing of a value, and a node whose type is not         *)
(* computed yet, a phi of a loop that is still parsed, has a null type.     *)
(* Integers have the width that MaxInt leaves them, and wrap.               *)
(***************************************************************************)
EXTENDS Integers, FiniteSetsExt

CONSTANT MaxInt  (* max_S64 *)

ASSUME RangeAssumption == MaxInt \in Nat \ {0}

MinInt == - MaxInt - 1
Size == MaxInt - MinInt + 1
Wrap(v) == MinInt + ((v - MinInt) % Size)

Compare == {"EqualI", "NotEqualI", "GreaterThanI", "GreaterEqualI",
            "LesserThanI", "LesserEqualI"}
Unary == {"NegI", "Not"}
Binary == {"AddI", "SubI", "MulI", "DivI", "ModI"} \cup Compare

(* Division rounds towards 0.                                              *)
Abs(v) == IF v < 0 THEN - v ELSE v
Quot(x, y) == IF (x < 0) = (y < 0) THEN Abs(x) \div Abs(y) ELSE - (Abs(x) \div Abs(y))
Rem(x, y) == x - y * Quot(x, y)

(* The operands a division instruction does not trap on.                   *)
Divides(x, y) == y # 0 /\ ~ (x = MinInt /\ y = -1)

Truth(b) == IF b THEN 1 ELSE 0

(* What an operation of the source gives.                                  *)
Apply(op, x, y) ==
  CASE op = "AddI" -> Wrap(x + y)
    [] op = "SubI" -> Wrap(x - y)
    [] op = "MulI" -> Wrap(x * y)
    [] op = "DivI" -> Quot(x, y)
    [] op = "ModI" -> Rem(x, y)
    [] op = "NegI" -> Wrap(- x)
    [] op = "Not" -> Truth(x = 0)
    [] op = "EqualI" -> Truth(x = y)
    [] op = "NotEqualI" -> Truth(x # y)
    [] op = "GreaterThanI" -> Truth(x > y)
    [] op = "GreaterEqualI" -> Truth(x >= y)
    [] op = "LesserThanI" -> Truth(x < y)
    [] op = "LesserEqualI" -> Truth(x <= y)

Defined(op, x, y) == op \in {"DivI", "ModI"} => Divides(x, y)
-----------------------------------------------------------------------------
IntType(lo, hi) == [kind |-> "int", min |-> lo, max |-> hi]
S64 == IntType(MinInt, MaxInt)
Bool == IntType(0, 1)
(* sea_type_Bot has zeros where an integer type has its range.             *)
Bot == [kind |-> "bot", min |-> 0, max |-> 0]
Null == [kind |-> "null", min |-> 0, max |-> 0]

(* sea_type_is_const_int                                                   *)
IsConst(t) == t.kind = "int" /\ t.min = t.max

Ends(t) == {t.min, t.max}
Hull(S) == IntType(Min(S), Max(S))

Has(t, v) == t.kind = "int" => t.min <= v /\ v <= t.max

(* Mistake: only the upper end is watched.                                 *)
AddUnder(s, t) ==
  IF t.max > 0 /\ s.max > MaxInt - t.max
  THEN S64
  ELSE IntType(Wrap(s.min + t.min), s.max + t.max)

AddType(s, t) ==
  IF \/ t.max > 0 /\ s.max > MaxInt - t.max
     \/ t.min < 0 /\ s.min < MinInt - t.min
  THEN S64
  ELSE IntType(s.min + t.min, s.max + t.max)

(* Mistake: overflow is not watched.                                       *)
SubAny(s, t) == IntType(s.min - t.max, s.max - t.min)

SubType(s, t) ==
  IF \/ t.min < 0 /\ s.max > MaxInt + t.min
     \/ t.max > 0 /\ s.min < MinInt + t.max
  THEN S64
  ELSE IntType(s.min - t.max, s.max - t.min)

(* Each corner is divided again to see whether it overflowed.              *)
MulType(s, t) ==
  IF \E x \in Ends(s), y \in Ends(t) : y # 0 /\ Quot(Wrap(x * y), y) # x
  THEN S64
  ELSE Hull({Wrap(x * y) : x \in Ends(s), y \in Ends(t)})

DivType(s, t) ==
  IF t.min <= 0 /\ t.max >= 0
  THEN S64
  ELSE Hull({Quot(x, y) : x \in Ends(s), y \in Ends(t)})

ModType(s, t) ==
  CASE IsConst(s) /\ IsConst(t) -> IntType(Rem(s.min, t.min), Rem(s.min, t.min))
    [] ~ IsConst(s) /\ IsConst(t) ->
         IntType(Min({0, Rem(s.min, t.min)}), t.min - 1)
    [] ~ IsConst(t) -> S64

(* A comparison that always, or never, holds.                              *)
Decided(always, never) ==
  IF always THEN IntType(1, 1) ELSE IF never THEN IntType(0, 0) ELSE Bool

Equal(s, t) == IsConst(s) /\ IsConst(t) /\ s.min = t.min
Distinct(s, t) == s.max < t.min \/ s.min > t.max

(* compute_int_bin_op                                                      *)
BinType(op, s, t) ==
  CASE Null \in {s, t} -> IF op \in Compare THEN Bool ELSE S64
    [] Null \notin {s, t} /\ Bot \in {s, t} -> Bot
    [] {Null, Bot} \cap {s, t} = {} ->
       CASE op = "AddI" -> AddType(s, t)
         [] op = "SubI" -> SubType(s, t)
         [] op = "MulI" -> MulType(s, t)
         [] op = "DivI" -> DivType(s, t)
         [] op = "ModI" -> ModType(s, t)
         [] op = "EqualI" -> Decided(Equal(s, t), Distinct(s, t))
         [] op = "NotEqualI" -> Decided(Distinct(s, t), Equal(s, t))
         [] op = "GreaterThanI" -> Decided(s.min > t.max, s.max <= t.min)
         [] op = "GreaterEqualI" -> Decided(s.min >= t.max, s.max < t.min)
         [] op = "LesserThanI" -> Decided(s.max < t.min, s.min >= t.max)
         [] op = "LesserEqualI" -> Decided(s.max <= t.min, s.min > t.max)

(* Where computing it divides in a way that traps.                         *)
BinTraps(op, s, t) ==
  /\ {s.kind, t.kind} = {"int"}
  /\ \/ /\ op = "MulI"
        /\ \E x \in Ends(s), y \in Ends(t) : y # 0 /\ ~ Divides(Wrap(x * y), y)
     \/ /\ op = "DivI" /\ ~ (t.min <= 0 /\ t.max >= 0)
        /\ \E x \in Ends(s), y \in Ends(t) : ~ Divides(x, y)
     \/ op = "ModI" /\ IsConst(t) /\ ~ Divides(s.min, t.min)

(* compute_int_urnary_op.  For a constant the code computes !min.          *)
NegType(s) ==
  CASE s.min = MinInt -> S64
    [] s.min # MinInt /\ IsConst(s) -> IntType(Truth(s.min = 0), Truth(s.min = 0))
    [] s.min # MinInt /\ ~ IsConst(s) -> IntType(- s.max, - s.min)

UnaryType(op, s) == IF op = "NegI" THEN NegType(s) ELSE Bool
=============================================================================
