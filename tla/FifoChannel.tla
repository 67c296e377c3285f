---------------------------- MODULE FifoChannel ----------------------------
(***************************************************************************)
(* What reliable peer delivery promises one ordered pair of room members:  *)
(* the bodies one member submits are applied by the other in submission    *)
(* order, each exactly once.  Several bodies may become applicable in one  *)
(* step, because a frame that closes a gap releases everything behind it.  *)
(***************************************************************************)
EXTENDS Naturals, Sequences

CONSTANT Body      \* what a member can submit

VARIABLES
  submitted,       \* every body submitted so far, in order
  applied          \* every body the receiver has applied, in order

vars == <<submitted, applied>>

Init ==
  /\ submitted = <<>>
  /\ applied = <<>>

Submit(b) ==
  /\ submitted' = Append(submitted, b)
  /\ UNCHANGED applied

Deliver ==
  /\ \E n \in Len(applied) + 1 .. Len(submitted) :
       applied' = [i \in 1..n |-> submitted[i]]
  /\ UNCHANGED submitted

Next ==
  \/ \E b \in Body : Submit(b)
  \/ Deliver

Spec == Init /\ [][Next]_vars
=============================================================================
