------------------------------- MODULE PyWire -------------------------------
(***************************************************************************)
(* The connection between a Python Client and a Python Server, as the two  *)
(* sides share it.  A client has one connection in its life: see           *)
(* ClientTransport in PyClient.  Messages are those on_read gives to       *)
(* on_message; requests and notifications are named by what the            *)
(* application sent, an answer by its call and by what it carries.         *)
(***************************************************************************)
EXTENDS Naturals, Sequences

CONSTANTS
  Calls,  \* requests the client's application may make, non-zero numbers
  Notes   \* notifications it may send, non-zero numbers

ASSUME MessagesAssumption ==
  Calls \subseteq Nat \ {0} /\ Notes \subseteq Nat \ {0} /\ Calls \cap Notes = {}

VARIABLES
  link,      \* "none", "up"; "down": the connection is gone, which the
             \* client has not seen; "broken": its stream has closed itself
  requests,  \* messages under way to the server, in order
  responses  \* answers under way to the client, in order

wireVars == <<link, requests, responses>>

WireInit == link = "none" /\ requests = <<>> /\ responses = <<>>

\* The server's process or the network ends the connection.  What is under way
\* may be lost, or be read before the end of the stream is.
LinkBreaks ==
  /\ link = "up"
  /\ link' = "down"
  /\ requests' \in {requests, <<>>}
  /\ responses' \in {responses, <<>>}

=============================================================================
