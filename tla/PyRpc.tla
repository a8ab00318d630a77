-------------------------------- MODULE PyRpc --------------------------------
(***************************************************************************)
(* A Python client and a Python server on one connection.                  *)
(***************************************************************************)
EXTENDS PyClient, PyServer, FiniteSets

vars == <<clientVars, serverVars, wireVars>>

Init == WireInit /\ ClientInit /\ ServerInit

OfClient(A) == A /\ UNCHANGED serverVars
OfServer(A) == A /\ UNCHANGED clientVars

\* A connection is made only to a server that listens.
ClientStep == OfClient(ClientNext) /\ (~InSockets /\ link' = "up" => serving)

Next == \/ ClientStep
        \/ OfServer(ServerNext)
        \/ LinkBreaks /\ UNCHANGED <<clientVars, serverVars>>

Spec == Init /\ [][Next]_vars

\* The loops run their callbacks and return when they are stopped, an attempt
\* to connect ends, threads go on.  Nothing is assumed of the application, of
\* the network or of the server's life.
Fairness ==
  /\ WF_vars(OfClient(LoopReturns))
  /\ WF_vars(OfClient(ConnectFails \/ (serving /\ OnConnect)))
  /\ WF_vars(OfClient(OnClose)) /\ WF_vars(OfClient(StepTimeout))
  /\ WF_vars(OfClient(OnResponse))
  /\ \A n \in Notes : WF_vars(OfClient(WriteCallback(n)))
  /\ WF_vars(OfServer(\E c \in Calls : Dispatch(c)))
  /\ WF_vars(OfServer(\E c \in AsyncCalls : DispatchAsync(c)))
  /\ WF_vars(OfServer(StoreResponder)) /\ WF_vars(OfServer(CheckResult))
  /\ WF_vars(OfServer(OnNotify))
  /\ \A c \in AsyncCalls :
       WF_vars(OfServer(LookForResponder(c))) /\ WF_vars(OfServer(StoreResult(c)))

FairSpec == Spec /\ Fairness

-----------------------------------------------------------------------------
(* Properties.                                                             *)

Messages == Calls \cup Notes

\* The variables of both sides keep their types; _connecting passes neither
\* the limit nor the one attempt that send_message makes.
TypeOK ==
  /\ link \in {"none", "up", "down", "broken"}
  /\ requests \in Seq(Messages)
  /\ responses \in Seq([call : Calls, carries : {"result", "error"}])
  /\ app \in Messages \cup {Nobody}
  /\ stopped \in BOOLEAN /\ closed \in BOOLEAN
  /\ connecting \in Nat /\ (connecting <= ReconnectLimit \/ connecting = 1)
  /\ dials \in Nat
  /\ pending \in Seq(Messages)
  /\ table \subseteq Calls /\ ttl \in [Calls -> 0..Timeout]
  /\ future \in [Calls -> {"none", "unset", "raised"} \cup Outcomes]
  /\ note \in [Notes -> {"idle", "pending", "written", "done", "raised"}]
  /\ serving \in BOOLEAN /\ checking \in BOOLEAN
  /\ dispatching \in AsyncCalls \cup {Nothing}
  /\ responder \subseteq AsyncCalls /\ result \subseteq AsyncCalls
  /\ worker \in [AsyncCalls -> {"none", "running", "storing", "done"}]
  /\ sent \subseteq Calls /\ handled \in [Calls -> Nat]

\* However sends, failures and closes interleave with an attempt to connect,
\* the client never has two streams, of which the second would send what is
\* pending again or take the place of the first; and a transport that is not
\* closed and has a stream knows that it need not connect.
OneStream ==
  /\ dials + (IF InSockets THEN 1 ELSE 0) <= 1
  /\ ~closed /\ (dials > 0 \/ InSockets) => connecting > 0

\* A Future that the application holds is set or in the request table, where
\* an answer, a time-out or the failure of the connection will find it, unless
\* the application closed the session; what is in the table is not set.
FutureKept ==
  \A c \in Calls :
    /\ future[c] = "unset" => c \in table \/ closed
    /\ c \in table => future[c] \in {"unset", "raised"}

\* The application waits for a Future that close() has forgotten.
Forgotten(c) == future[c] = "unset" /\ c \notin table

\* With a time-out, a thread blocked in join returns, whatever becomes of the
\* connection, the server and the other requests, unless the session was
\* closed before.
JoinReturns ==
  \A c \in Calls : Timeout > 0 => (app = c ~> app = Nobody \/ Forgotten(c))

\* The transport has lost its connection, or could not try again, and will not
\* connect any more.
Lost == ~InSockets /\ dials = 0 /\ connecting > 0

\* A thread blocked in notify returns when the connection is made and the
\* message is written, or when the attempts to connect are used up; only when a
\* connection is lost does nobody wake it.
NotifyReturns == \A n \in Notes : app = n ~> app = Nobody \/ Lost

\* Everything that waits runs the one loop, and any callback may stop it for
\* another.  While it has not been stopped, whoever waits in it has its wake-up
\* to come: the Future joined is not set, or the notification waits for the
\* attempt to connect that is under way or, written, for its write callback;
\* only a lost connection leaves a notification without one.
WakeupIsDue ==
  app # Nobody /\ ~stopped =>
    IF app \in Calls THEN future[app] = "unset"
    ELSE \/ note[app] = "pending" /\ dials > 0
         \/ note[app] = "written" /\ InSockets
         \/ Lost

\* A call whose AsyncResult has been given its value is answered.
AsyncAnswered ==
  \A c \in AsyncCalls : worker[c] = "done" /\ dispatching # c => c \in sent

-----------------------------------------------------------------------------
(* Client and server implement RpcCall, as the C++ endpoint does.          *)

RPC == INSTANCE RpcCall WITH
  Methods <- Calls,
  phase <- [c \in Calls |-> CASE future[c] = "none" -> "idle"
                              [] future[c] \in {"unset", "raised"} -> "open"
                              [] future[c] = "result" -> "ok"
                              [] future[c] = "error" -> "fault"
                              [] future[c] = "timeout" -> "timeout"
                              [] future[c] = "transport" -> "final_fail"],
  deliveries <- handled

\* Every behaviour of client and server is one of RpcCall: a request is handled
\* at most once, its Future set at most once, by an answer only when it was
\* handled, and a late answer changes nothing.
ImplementsRpcCall == RPC!Spec

=============================================================================
