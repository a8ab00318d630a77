------------------------------ MODULE MCServer ------------------------------
(***************************************************************************)
(* A small instance of Server for TLC.  Three calls are made on one        *)
(* connection: two for the workers, the fewest whose answers can be out of *)
(* order, and one for the application thread, whose handler closes the     *)
(* connection, so that two threads queue packets and a close against each  *)
(* other and against the connection's own failure.  The connection may be  *)
(* made, fail and be unregistered before, while or after the monitor is    *)
(* set.                                                                    *)
(***************************************************************************)
EXTENDS Server

MCConns    == {1}
MCCalls    == {1, 2, 3}
MCConnOf   == [c \in MCCalls |-> 1]
MCAppCalls == {3}
MCClosers  == {3}

=============================================================================
