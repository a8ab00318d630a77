------------------------------ MODULE PyServer ------------------------------
(***************************************************************************)
(* The Python server: Server.dispatch, _Responder and AsyncResult, with    *)
(* the threads that give an AsyncResult its value, as the methods of       *)
(* test_msgpackrpc.py do.  dispatch of such a method is three steps of the *)
(* loop's thread, AsyncResult.set_result two of the other one.             *)
(***************************************************************************)
EXTENDS PyWire

CONSTANT AsyncCalls   \* calls of methods that return an AsyncResult

ASSUME ServerAssumption == AsyncCalls \subseteq Calls

Nothing == 0    \* no call is being dispatched

VARIABLES
  serving,      \* the loop runs and the listener is open
  dispatching,  \* the call whose AsyncResult dispatch has in hand
  checking,     \* has set_responder stored the responder of that call?
  responder,    \* calls whose AsyncResult has its _responder
  result,       \* calls whose AsyncResult has its _result
  worker,       \* where the thread of an AsyncResult is
  sent,         \* calls whose _Responder has _sent
  handled       \* history: how often each call was dispatched

asyncVars  == <<dispatching, checking, responder, result, worker>>
serverVars == <<serving, asyncVars, sent, handled>>

ServerInit ==
  /\ serving = TRUE /\ dispatching = Nothing /\ checking = FALSE
  /\ responder = {} /\ result = {} /\ sent = {}
  /\ worker = [c \in AsyncCalls |-> "none"]
  /\ handled = [c \in Calls |-> 0]

-----------------------------------------------------------------------------
\* _Responder.set_result and set_error: the answer is sent once.  On a
\* connection that is gone it is lost.
Respond(c, carries) ==
  /\ sent' = sent \cup {c}
  /\ responses' = IF link = "up" /\ c \notin sent
                    THEN Append(responses, [call |-> c, carries |-> carries])
                    ELSE responses

Serves == serving /\ dispatching = Nothing /\ requests # <<>>

\* Mutant: the message is looked at and stays.
Peek == UNCHANGED requests

Consume == requests' = Tail(requests)

Handled(c) == handled' = [handled EXCEPT ![c] = @ + 1]

\* on_request of a method that returns its result, raises, does not exist, or
\* returns what cannot be packed.
Dispatch(c) ==
  /\ Serves /\ Head(requests) = c /\ c \notin AsyncCalls
  /\ Consume /\ Handled(c)
  /\ \E carries \in {"result", "error"} : Respond(c, carries)
  /\ UNCHANGED <<serving, asyncVars, link>>

\* on_request of a method that starts a thread and returns an AsyncResult.
DispatchAsync(c) ==
  /\ Serves /\ Head(requests) = c
  /\ Consume /\ Handled(c)
  /\ dispatching' = c /\ worker' = [worker EXCEPT ![c] = "running"]
  /\ UNCHANGED <<serving, checking, responder, result, sent, link, responses>>

\* AsyncResult.set_responder stores the responder ...
StoreResponder ==
  /\ dispatching # Nothing /\ ~checking
  /\ responder' = responder \cup {dispatching} /\ checking' = TRUE
  /\ UNCHANGED <<serving, dispatching, result, worker, sent, handled, wireVars>>

\* ... and then looks for a result.
CheckResult ==
  /\ checking
  /\ IF dispatching \in result
       THEN \E carries \in {"result", "error"} : Respond(dispatching, carries)
       ELSE UNCHANGED <<sent, responses>>
  /\ result' = result \ {dispatching}
  /\ dispatching' = Nothing /\ checking' = FALSE
  /\ UNCHANGED <<serving, responder, worker, handled, link, requests>>

\* AsyncResult.set_result, on its own thread, looks for the responder, which
\* it uses, with a result or an error ...
LookForResponder(c) ==
  /\ worker[c] = "running"
  /\ IF c \in responder
       THEN /\ \E carries \in {"result", "error"} : Respond(c, carries)
            /\ worker' = [worker EXCEPT ![c] = "done"]
       ELSE /\ worker' = [worker EXCEPT ![c] = "storing"]
            /\ UNCHANGED <<sent, responses>>
  /\ UNCHANGED <<serving, dispatching, checking, responder, result, handled,
                 link, requests>>

\* ... or else leaves the result for it.
StoreResult(c) ==
  /\ worker[c] = "storing"
  /\ worker' = [worker EXCEPT ![c] = "done"]
  /\ result' = result \cup {c}
  /\ UNCHANGED <<serving, dispatching, checking, responder, sent, handled,
                 wireVars>>

\* on_notify: the answer goes to a _NullResponder.
OnNotify ==
  /\ Serves /\ Head(requests) \in Notes
  /\ requests' = Tail(requests)
  /\ UNCHANGED <<serverVars, link, responses>>

\* Server.stop, then close: the callback at hand ends, the threads go on.
Stop ==
  /\ serving
  /\ serving' = FALSE
  /\ UNCHANGED <<asyncVars, sent, handled, wireVars>>

ServerNext ==
  \/ \E c \in Calls : Dispatch(c)
  \/ \E c \in AsyncCalls :
       DispatchAsync(c) \/ LookForResponder(c) \/ StoreResult(c)
  \/ StoreResponder \/ CheckResult \/ OnNotify \/ Stop

=============================================================================
