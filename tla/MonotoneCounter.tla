-------------------------- MODULE MonotoneCounter --------------------------
(***************************************************************************)
(* What a signing counter promises its verifiers: the numbers it hands     *)
(* out, over every process that ever opens it, form a strictly increasing  *)
(* sequence.  A receiver's replay window relies on nothing else.           *)
(***************************************************************************)
EXTENDS Naturals

VARIABLE last    \* the greatest number used so far, 0 before the first

Init == last = 0

Issue == /\ last' \in Nat
         /\ last' > last

Spec == Init /\ [][Issue]_last
=============================================================================
