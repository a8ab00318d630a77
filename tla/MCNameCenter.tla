---------------------------- MODULE MCNameCenter ----------------------------
(***************************************************************************)
(* Small instances of NameCenter for TLC: a server, 2, that clients call.  *)
(* Both the server and its client 3 may be started twice; or there are two *)
(* clients, 3 and 5, whose ids are odd both, and each process runs once.   *)
(***************************************************************************)
EXTENDS NameCenter

MCApps     == {2, 3}
MCRuns     == [a \in Apps |-> 2]
MCOddApps  == {2, 3, 5}
MCOnce     == [a \in Apps |-> 1]
MCDepends  == [a \in Apps |-> IF a = 2 THEN {} ELSE {2}]
=============================================================================
