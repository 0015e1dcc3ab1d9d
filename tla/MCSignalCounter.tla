-------------------------- MODULE MCSignalCounter --------------------------
(* Two processes, blocks of two numbers and a counter that runs out after *)
(* three blocks: reopening, refilling and exhaustion all happen.           *)
EXTENDS SignalCounter
=============================================================================
