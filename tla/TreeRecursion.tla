---------------------------- MODULE TreeRecursion ----------------------------
(***************************************************************************)
(* The recursion shared by build and by the path-copying updates of the    *)
(* persistent trees: each invocation works on one segment, descends into   *)
(* the left half, then the right half, as far as it has to, and then makes *)
(* its node and returns its arena index.  A frame is such an invocation    *)
(* before it has returned.                                                 *)
(***************************************************************************)
EXTENDS CanonicalTree, Sequences

NoNode == 0

Sides == {"left", "right"}

(***************************************************************************)
(* node is the node an update works on; newLeft and newRight are the       *)
(* children its node will get; todo holds the halves still to be done.     *)
(***************************************************************************)
Frame == [segment : Nat \X Nat, node : Nat, newLeft : Nat, newRight : Nat,
          todo : SUBSET Sides]

BuildFrame(c) ==
  [segment |-> c, node |-> NoNode, newLeft |-> NoNode, newRight |-> NoNode,
   todo |-> IF IsLeaf(c) THEN {} ELSE Sides]

Half(c, side) == IF side = "left" THEN LeftHalf(c) ELSE RightHalf(c)

(***************************************************************************)
(* The halves of a segment that meet the range left .. right, given that   *)
(* the segment does.                                                       *)
(***************************************************************************)
MeetingSides(c, left, right) ==
  {side \in Sides : \/ side = "left" /\ left <= Midpoint(c)
                    \/ side = "right" /\ right > Midpoint(c)}

NextSide(f) == IF "left" \in f.todo THEN "left" ELSE "right"

(***************************************************************************)
(* The invocation for the next half returns index to its caller f.         *)
(***************************************************************************)
Receive(f, index) ==
  [f EXCEPT !.newLeft  = IF NextSide(f) = "left" THEN index ELSE @,
            !.newRight = IF NextSide(f) = "right" THEN index ELSE @,
            !.todo     = @ \ {NextSide(f)}]

(***************************************************************************)
(* The frames after the innermost one has returned index.                  *)
(***************************************************************************)
Resume(frames, index) ==
  LET callers == SubSeq(frames, 1, Len(frames) - 1)
  IN  IF callers = <<>> THEN <<>>
      ELSE [callers EXCEPT ![Len(callers)] = Receive(@, index)]

=============================================================================
