----------------------------- MODULE MCEndPoint -----------------------------
(***************************************************************************)
(* Small instances of EndPoint for TLC.  Two method calls are the fewest   *)
(* that can be answered, timed out and queued out of order.  In MCEvents   *)
(* the second is an event, whose pending entry expires at once.  With      *)
(* MaxTry = 2 the attempts can be used up, restored by ResetFail or by an  *)
(* answer, and used up again within the bound on faults.                   *)
(***************************************************************************)
EXTENDS EndPoint

MCTwo    == {1, 2}
MCEvents == {2}
MCNoEvents == {}

=============================================================================
