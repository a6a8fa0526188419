------------------------------- MODULE Policies -------------------------------
(***************************************************************************)
(* The policies of include/valseg/policy.hpp over which the generic trees  *)
(* are templates: what a segment's aggregate is, what an action does to    *)
(* it, and how two actions compose.  The template parameter is the first   *)
(* argument of each operator.  The two adding policies throw on a result   *)
(* that does not fit (Overflow, handed on); AffineSumMod is modular.       *)
(***************************************************************************)
EXTENDS CheckedArithmetic, Sequences

CONSTANT Modulus      \* of AffineSumModPolicy; its actions are <<scale, shift>>

ASSUME ModulusAssumption == Modulus \in Nat /\ Modulus > 1

PolicyNames == {"SumAdd", "MinAdd", "AffineSumMod"}

KInducedActionsCommute(policy) == policy # "AffineSumMod"

MinCombine(left, right) ==
  IF Overflow \in {left, right} THEN Overflow ELSE IF left < right THEN left ELSE right

MinApply(action, aggregate, length) ==
  IF length = 0 THEN aggregate ELSE CheckedAdd(aggregate, action)

AddReduced(left, right) == (left + right) % Modulus
MultiplyReduced(left, right) == (left * right) % Modulus

AffineAction(scale, shift) == <<scale % Modulus, shift % Modulus>>

AffineCombine(left, right) == AddReduced(left % Modulus, right % Modulus)

AffineCompose(newer, older) ==
  AffineAction(MultiplyReduced(newer[1], older[1]),
               AddReduced(MultiplyReduced(newer[1], older[2]), newer[2]))

AffineApply(action, aggregate, length) ==
  AddReduced(MultiplyReduced(action[1], aggregate % Modulus),
             MultiplyReduced(action[2], length % Modulus))

Combine(policy, left, right) ==
  CASE policy = "SumAdd" -> CheckedAdd(left, right)
    [] policy = "MinAdd" -> MinCombine(left, right)
    [] policy = "AffineSumMod" -> AffineCombine(left, right)

AggregateIdentity(policy) == IF policy = "MinAdd" THEN MaxVal ELSE 0

Compose(policy, newer, older) ==
  IF policy = "AffineSumMod" THEN AffineCompose(newer, older) ELSE CheckedAdd(newer, older)

ActionIdentity(policy) == IF policy = "AffineSumMod" THEN AffineAction(1, 0) ELSE 0

ApplyAction(policy, action, aggregate, length) ==
  CASE policy = "SumAdd" -> Apply(action, aggregate, length)
    [] policy = "MinAdd" -> MinApply(action, aggregate, length)
    [] policy = "AffineSumMod" -> AffineApply(action, aggregate, length)

Throws(policy, tag) == policy # "AffineSumMod" /\ tag = Overflow

=============================================================================
