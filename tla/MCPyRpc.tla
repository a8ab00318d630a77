------------------------------ MODULE MCPyRpc -------------------------------
(***************************************************************************)
(* A small instance of PyRpc for TLC.  One call is of a method that gives  *)
(* its result at once, the other of one that starts a thread, so that      *)
(* their answers may change places; the notification waits for its write   *)
(* callback while their answers and time-outs stop the loop.  With two     *)
(* attempts the first may fail and the second succeed, or both fail.       *)
(***************************************************************************)
EXTENDS PyRpc

MCCalls == {1, 2}
MCAsync == {2}
MCNotes == {3}

=============================================================================
