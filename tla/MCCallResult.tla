---------------------------- MODULE MCCallResult ----------------------------
(***************************************************************************)
(* Small instances of CallResult for TLC.  Two calls of one application    *)
(* thread are enough for one to be completed, or its callback to run,      *)
(* while the thread is inside Then or Wait for the other; two workers are  *)
(* enough for callbacks to overtake each other.                            *)
(***************************************************************************)
EXTENDS CallResult

CONSTANTS c1, c2, w1, w2

MCCalls   == {c1, c2}
MCWorkers == {w1, w2}

=============================================================================
