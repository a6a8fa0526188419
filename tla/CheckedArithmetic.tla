-------------------------- MODULE CheckedArithmetic --------------------------
(***************************************************************************)
(* The exact integer arithmetic of include/valseg/policy.hpp.              *)
(*                                                                         *)
(* The code computes on long long and throws std::overflow_error when an   *)
(* exact result does not fit.  Here the width is the constant MaxVal, and  *)
(* a thrown overflow is the value Overflow, which every operation hands on *)
(* to its caller: an expression is Overflow exactly when the code that     *)
(* evaluates it throws.                                                    *)
(***************************************************************************)
EXTENDS Integers

CONSTANT MaxVal   \* std::numeric_limits<long long>::max()

ASSUME MaxValAssumption == MaxVal \in Nat \ {0}

MinVal == -MaxVal - 1      \* two's complement

Value == MinVal .. MaxVal

Overflow == MaxVal + 1     \* not a Value: stands for the thrown exception

Outcome == Value \cup {Overflow}

Representable(x) == x \in Value

\* Seeded bug: the sum is stored without a check.
CheckedAddUnchecked(left, right) == left + right

CheckedAdd(left, right) ==
  IF left # Overflow /\ right # Overflow /\ Representable(left + right)
  THEN left + right ELSE Overflow

CheckedMultiply(left, right) ==
  IF left # Overflow /\ right # Overflow /\ Representable(left * right)
  THEN left * right ELSE Overflow

CheckedLength(length) == IF length > MaxVal THEN Overflow ELSE length

(***************************************************************************)
(* SumAddPolicy::apply: the effect of adding action to each of length      *)
(* elements on their sum.                                                  *)
(***************************************************************************)
Apply(action, aggregate, length) ==
  CheckedAdd(aggregate, CheckedMultiply(action, CheckedLength(length)))

=============================================================================
