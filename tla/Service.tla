------------------------------- MODULE Service -------------------------------
(***************************************************************************)
(* What a server promises the peers of its connections, whatever threads   *)
(* run the handlers: a call is answered at most once, only if it was       *)
(* received, on the connection it came on and while that is open; nothing  *)
(* follows the notice that ends a connection.                              *)
(***************************************************************************)
EXTENDS Integers, Sequences

CONSTANTS
  Conns,    \* connections
  Calls,    \* calls the peers may make
  ConnOf    \* the connection each call is made on

Notice == 0   \* the header with session 0 that announces a close

VARIABLES
  link,     \* each connection: "none", "open", "closed"
  asked,    \* calls received
  replies   \* what was written on each connection: answers and the notice

Written(s) == {s[i] : i \in DOMAIN s}

Init ==
  /\ link = [k \in Conns |-> "none"]
  /\ asked = {}
  /\ replies = [k \in Conns |-> <<>>]

Open(k) ==
  /\ link[k] = "none"
  /\ link' = [link EXCEPT ![k] = "open"]
  /\ UNCHANGED <<asked, replies>>

Ask(c) ==
  /\ link[ConnOf[c]] = "open" /\ c \notin asked
  /\ asked' = asked \cup {c}
  /\ UNCHANGED <<link, replies>>

Reply(c) ==
  /\ link[ConnOf[c]] = "open"
  /\ c \in asked /\ c \notin Written(replies[ConnOf[c]])
  /\ replies' = [replies EXCEPT ![ConnOf[c]] = Append(@, c)]
  /\ UNCHANGED <<link, asked>>

Close(k) ==
  /\ link[k] = "open"
  /\ link' = [link EXCEPT ![k] = "closed"]
  /\ \/ UNCHANGED replies
     \/ replies' = [replies EXCEPT ![k] = Append(@, Notice)]
  /\ UNCHANGED asked

Next == \/ \E k \in Conns : Open(k) \/ Close(k)
        \/ \E c \in Calls : Ask(c) \/ Reply(c)

Spec == Init /\ [][Next]_<<link, asked, replies>>

-----------------------------------------------------------------------------
(* What the peers may rely on.                                             *)

\* Each answer on a connection is the only one to a call that was received on
\* that connection; the notice is the last thing written on it, and only once
\* the connection is closed.
AnsweredOnce ==
  \A k \in Conns : \A i \in DOMAIN replies[k] :
    IF replies[k][i] = Notice
    THEN i = Len(replies[k]) /\ link[k] = "closed"
    ELSE /\ replies[k][i] \in asked /\ ConnOf[replies[k][i]] = k
         /\ \A j \in DOMAIN replies[k] : replies[k][j] = replies[k][i] => j = i

=============================================================================
