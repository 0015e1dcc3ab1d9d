---------------------------- MODULE MCSignalBus ----------------------------
(* The signaling bus with one session and one subscriber: two commands and   *)
(* two events, with a full history after the first event.                    *)
EXTENDS SignalBus
=============================================================================
