------------------------------ MODULE PyClient ------------------------------
(***************************************************************************)
(* The Python client: Session, Future, Loop and ClientTransport.           *)
(*                                                                         *)
(* One thread runs the application, which enters the loop in Future.join   *)
(* and in Session.notify; callbacks run only there.  stop() makes the loop *)
(* return when the callbacks at hand have run.  The start() that follows   *)
(* a stop() in step_timeout returns at once, as Tornado's does: the two    *)
(* together are a stop().                                                  *)
(*                                                                         *)
(* A call stands for its message id; the ids of _NoSyncIDGenerator come    *)
(* back after 2^30 + 1 calls, which is out of reach of the model.          *)
(***************************************************************************)
EXTENDS PyWire

CONSTANTS
  ReconnectLimit,  \* attempts to connect
  Timeout          \* Client's timeout: the periodic callbacks a request is
                   \* given; 0 for none

ASSUME ClientAssumption == ReconnectLimit \in Nat /\ Timeout \in Nat

Nobody == 0

VARIABLES
  app,         \* what the application waits for inside Loop.start, if it does
  stopped,     \* has Loop.stop been called meanwhile?
  closed,      \* _closed of the transport; the session's _transport is None
  connecting,  \* _connecting
  dials,       \* streams that are being connected
  pending,     \* _pending
  table,       \* _request_table
  ttl,         \* _timeout of each Future
  future,      \* each call's Future: "none" before it is made, "unset", or what
               \* it was set to; "raised" if send_request gave an exception
  note         \* each notification, up to its write callback

sessionVars == <<closed, table, ttl, future>>
sendVars    == <<connecting, dials, pending>>
clientVars  == <<app, stopped, sessionVars, sendVars, note>>

\* What set_error and set_result may leave: an answer, or TimeoutError, or
\* TransportError.
Outcomes == {"result", "error", "timeout", "transport"}

ClientInit ==
  /\ app = Nobody /\ stopped = FALSE
  /\ closed = FALSE /\ connecting = 0 /\ dials = 0 /\ pending = <<>>
  /\ table = {} /\ ttl = [c \in Calls |-> Timeout]
  /\ future = [c \in Calls |-> "none"]
  /\ note = [n \in Notes |-> "idle"]

\* Future.set_result and set_error.
SetFutures(S, outcome) ==
  [c \in Calls |-> IF c \in S THEN outcome ELSE future[c]]

-----------------------------------------------------------------------------
(* Sending.                                                                *)

InSockets == link # "none"     \* len(_sockets) > 0

\* Mutant: the attempt is not counted.
DialUncounted == dials' = dials + 1 /\ UNCHANGED connecting

\* ClientTransport.connect, and _connecting = 1.
Dial == dials' = dials + 1 /\ connecting' = 1

Written(m) ==
  [n \in Notes |-> IF n = m THEN "written" ELSE note[n]]

\* ClientTransport.send_message when it does not fail.  What is written on a
\* connection that is gone is lost, and may make the stream notice.
SendMessage(m) ==
  \/ /\ ~InSockets
     /\ IF connecting = 0 THEN Dial ELSE UNCHANGED <<connecting, dials>>
     /\ pending' = Append(pending, m)
     /\ note' = [n \in Notes |-> IF n = m THEN "pending" ELSE note[n]]
     /\ UNCHANGED wireVars
  \/ /\ link = "up"
     /\ requests' = Append(requests, m) /\ note' = Written(m)
     /\ UNCHANGED <<sendVars, link, responses>>
  \/ /\ link = "down"
     /\ link' \in {"down", "broken"} /\ note' = Written(m)
     /\ UNCHANGED <<sendVars, requests, responses>>

\* send_message fails: there is no transport, or the stream has closed itself,
\* or the address cannot be resolved.
SendMayRaise == closed \/ link = "broken" \/ (~InSockets /\ connecting = 0)

\* Mutant: the message is sent before its Future is in the table.
UnregisteredIfLate(c) == IF InSockets THEN table ELSE table \cup {c}

Registered(c) == table \cup {c}

\* send_request: the Future is in the table before the message is sent, and
\* stays there if that fails.
SendRequest(c) ==
  /\ app = Nobody /\ future[c] = "none"
  /\ table' = Registered(c)
  /\ \/ /\ ~closed
        /\ SendMessage(c)
        /\ future' = [future EXCEPT ![c] = "unset"]
     \/ /\ SendMayRaise
        /\ future' = [future EXCEPT ![c] = "raised"]
        /\ UNCHANGED <<wireVars, sendVars, note>>
  /\ UNCHANGED <<app, stopped, closed, ttl>>

\* Future.join: the loop runs until the Future is set.
Join(c) ==
  /\ app = Nobody /\ future[c] = "unset"
  /\ app' = c /\ stopped' = FALSE
  /\ UNCHANGED <<sessionVars, sendVars, note, wireVars>>

\* notify: the loop runs until somebody stops it, the write callback or
\* another.
Notify(n) ==
  /\ app = Nobody /\ note[n] = "idle"
  /\ \/ ~closed /\ SendMessage(n) /\ app' = n
     \/ /\ SendMayRaise
        /\ note' = [note EXCEPT ![n] = "raised"]
        /\ UNCHANGED <<wireVars, sendVars, app>>
  /\ stopped' = FALSE
  /\ UNCHANGED sessionVars

\* Session.close and ClientTransport.close.  A stream that is still connecting
\* is not in _sockets, and is left alone.
Close ==
  /\ app = Nobody /\ ~closed
  /\ closed' = TRUE /\ table' = {}
  /\ connecting' = 0 /\ pending' = <<>>
  /\ link' = "none" /\ responses' = <<>>
  /\ UNCHANGED <<app, stopped, ttl, future, dials, note, requests>>

-----------------------------------------------------------------------------
(* Callbacks of the loop.                                                  *)

InLoop == app # Nobody

\* The end of Loop.start; join starts the loop again while its Future is unset.
LoopReturns ==
  /\ InLoop /\ stopped
  /\ stopped' = FALSE
  /\ app' = IF app \in Calls /\ future[app] = "unset" THEN app ELSE Nobody
  /\ UNCHANGED <<sessionVars, sendVars, note, wireVars>>

\* ClientSocket.on_connect and ClientTransport.on_connect: what is pending is
\* sent.  The session may have been closed meanwhile.
OnConnect ==
  /\ InLoop /\ dials > 0
  /\ dials' = dials - 1 /\ link' = "up"
  /\ requests' = requests \o pending /\ pending' = <<>>
  /\ note' = [n \in Notes |-> IF note[n] = "pending" THEN "written" ELSE note[n]]
  /\ UNCHANGED <<app, stopped, sessionVars, connecting, responses>>

\* Mutant: the application that waits is not woken.
FailQuietly == UNCHANGED stopped

FailLoudly == stopped' = TRUE

\* on_connect_failed beyond the limit, and Session.on_connect_failed: every
\* request fails, the session closes, the loop stops.
GiveUp ==
  /\ connecting' = 0 /\ pending' = <<>>
  /\ future' = SetFutures(table, "transport")
  /\ table' = {} /\ closed' = TRUE
  /\ FailLoudly
  /\ dials' = dials - 1

\* on_close of a stream that was never connected, and on_connect_failed.  The
\* address may not resolve any more: then nothing connects again.
ConnectFails ==
  /\ InLoop /\ dials > 0
  /\ IF closed
       THEN dials' = dials - 1 /\ UNCHANGED <<sessionVars, connecting, pending,
                                              stopped>>
     ELSE IF connecting < ReconnectLimit
       THEN /\ \/ connecting' = connecting + 1 /\ UNCHANGED dials
               \/ dials' = dials - 1 /\ UNCHANGED connecting
            /\ UNCHANGED <<sessionVars, pending, stopped>>
     ELSE GiveUp /\ UNCHANGED ttl
  /\ UNCHANGED <<app, note, wireVars>>

\* on_close of a connected stream.  _connecting keeps its value: the transport
\* does not connect again.
OnClose ==
  /\ InLoop /\ link \in {"down", "broken"} /\ ~closed
  /\ link' = "none" /\ responses' = <<>>
  /\ UNCHANGED <<clientVars, requests>>

\* The write callback of notify.
WriteCallback(n) ==
  /\ InLoop /\ note[n] = "written" /\ link # "none"
  /\ note' = [note EXCEPT ![n] = "done"]
  /\ stopped' = TRUE
  /\ UNCHANGED <<app, sessionVars, sendVars, wireVars>>

\* on_message and Session.on_response: an answer to an unknown request is
\* dropped.
OnResponse ==
  /\ InLoop /\ responses # <<>>
  /\ responses' = Tail(responses)
  /\ LET r == Head(responses)
     IN  IF r.call \in table
           THEN /\ table' = table \ {r.call}
                /\ future' = SetFutures({r.call}, r.carries)
                /\ stopped' = TRUE
           ELSE UNCHANGED <<table, future, stopped>>
  /\ UNCHANGED <<app, closed, ttl, sendVars, note, link, requests>>

\* Future.step_timeout.
Due == {c \in table : ttl[c] < 1}

\* Mutant: a request that timed out stays in the table.
KeepDue == table

DropDue == table \ Due

\* Mutant: the loop goes on.
WakeNobody(due) == stopped

WakeFor(due) == stopped \/ due # {}

\* Client attaches the periodic callback only if there is a time-out.
Ticks == Timeout > 0

\* Session.step_timeout, each second.
StepTimeout ==
  /\ InLoop /\ Ticks
  /\ ttl' = [c \in Calls |-> IF c \in table \ Due THEN ttl[c] - 1 ELSE ttl[c]]
  /\ table' = DropDue
  /\ future' = SetFutures(Due, "timeout")
  /\ stopped' = WakeFor(Due)
  /\ UNCHANGED <<app, closed, sendVars, note, wireVars>>

-----------------------------------------------------------------------------
ClientNext ==
  \/ \E c \in Calls : SendRequest(c) \/ Join(c)
  \/ \E n \in Notes : Notify(n) \/ WriteCallback(n)
  \/ Close \/ LoopReturns \/ OnConnect \/ ConnectFails \/ OnClose
  \/ OnResponse \/ StepTimeout

=============================================================================
