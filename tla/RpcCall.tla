------------------------------ MODULE RpcCall -------------------------------
(***************************************************************************)
(* What the endpoint promises to the code that makes method calls: a call  *)
(* reaches the peer at most once, is completed at most once, is answered   *)
(* only after it reached the peer, and may be given up - timed out, or     *)
(* failed for good - whether or not it did.  Several calls may be given up *)
(* in one step, as one timer tick does.                                    *)
(***************************************************************************)
EXTENDS Naturals

CONSTANT Methods

VARIABLES
  phase,       \* of each call: "idle", "open", or how it was completed
  deliveries   \* how many times each call has reached the peer

vars == <<phase, deliveries>>

Answered == {"ok", "fault"}
GivenUp  == {"timeout", "final_fail"}

Init ==
  /\ phase = [c \in Methods |-> "idle"]
  /\ deliveries = [c \in Methods |-> 0]

Issue(c) ==
  /\ phase[c] = "idle"
  /\ phase' = [phase EXCEPT ![c] = "open"]
  /\ UNCHANGED deliveries

\* A call given up earlier may still be delivered.
Deliver(c) ==
  /\ phase[c] # "idle" /\ deliveries[c] = 0
  /\ deliveries' = [deliveries EXCEPT ![c] = 1]
  /\ UNCHANGED phase

Answer(c, r) ==
  /\ phase[c] = "open" /\ deliveries[c] = 1
  /\ phase' = [phase EXCEPT ![c] = r]
  /\ UNCHANGED deliveries

GiveUp(S, r) ==
  /\ \A c \in S : phase[c] = "open"
  /\ phase' = [c \in Methods |-> IF c \in S THEN r ELSE phase[c]]
  /\ UNCHANGED deliveries

Next ==
  \/ \E c \in Methods : Issue(c) \/ Deliver(c)
  \/ \E c \in Methods, r \in Answered : Answer(c, r)
  \/ \E S \in SUBSET Methods, r \in GivenUp : GiveUp(S, r)

Spec == Init /\ [][Next]_vars

-----------------------------------------------------------------------------
(* What the code that makes calls may rely on.                             *)

\* No call reaches the peer twice, and an answer is that of a call which did:
\* TcpEndPoint::OnCallResult completes no result before its packet was sent.
AnsweredDelivered ==
  \A c \in Methods :
    deliveries[c] \in {0, 1} /\ (phase[c] \in Answered => deliveries[c] = 1)

\* A call that was completed keeps its outcome: neither a late answer, nor a
\* time-out, nor the final failure replaces it.
KeepsOutcome ==
  \A c \in Methods : phase[c] \in Answered \cup GivenUp => phase'[c] = phase[c]

CompletedOnce == [][KeepsOutcome]_vars

=============================================================================
