--------------------------- MODULE MCControlInput ---------------------------
(* Two or three sessions share two buttons and two keys.                     *)
EXTENDS ControlInput, TLC

Symmetries == Permutations(Sessions) \cup Permutations(Buttons) \cup Permutations(Keys)
=============================================================================
