---------------------------- MODULE MCSignalClient ----------------------------
(* Instances of SignalClient for TLC.                                         *)
EXTENDS SignalClient

CONSTANTS w1, w2, w3

==============================================================================
