----------------------------- MODULE PyRpcProofs -----------------------------
(***************************************************************************)
(* Proofs about PyRpc, for any calls and notifications, any time-out and   *)
(* any number of attempts to connect.                                      *)
(***************************************************************************)
EXTENDS PyRpc, TLAPS

USE MessagesAssumption, ClientAssumption, ServerAssumption

-----------------------------------------------------------------------------
(* Sequences.                                                              *)

LEMMA FirstAndRest ==
  ASSUME NEW S, NEW s \in Seq(S), s # <<>>
  PROVE  Head(s) \in S /\ Tail(s) \in Seq(S)
OBVIOUS

LEMMA AppendType ==
  ASSUME NEW S, NEW s \in Seq(S), NEW e \in S
  PROVE  Append(s, e) \in Seq(S)
OBVIOUS

-----------------------------------------------------------------------------
(* Types.                                                                  *)

ClientType ==
  /\ app \in Messages \cup {Nobody}
  /\ connecting \in Nat /\ (connecting <= ReconnectLimit \/ connecting = 1)
  /\ dials \in Nat
  /\ pending \in Seq(Messages)
  /\ table \subseteq Calls /\ ttl \in [Calls -> 0..Timeout]
  /\ future \in [Calls -> {"none", "unset", "raised"} \cup Outcomes]
  /\ note \in [Notes -> {"idle", "pending", "written", "done", "raised"}]

ServerType ==
  /\ dispatching \in AsyncCalls \cup {Nothing}
  /\ responder \subseteq AsyncCalls /\ result \subseteq AsyncCalls
  /\ worker \in [AsyncCalls -> {"none", "running", "storing", "done"}]
  /\ sent \subseteq Calls /\ handled \in [Calls -> Nat]

Answers == [call : Calls, carries : {"result", "error"}]

WireType ==
  /\ link \in {"none", "up", "down", "broken"}
  /\ requests \in Seq(Messages)
  /\ responses \in Seq(Answers)

Flags ==
  /\ stopped \in BOOLEAN /\ closed \in BOOLEAN
  /\ serving \in BOOLEAN /\ checking \in BOOLEAN

Types == ClientType /\ ServerType /\ WireType

LEMMA TypeParts == TypeOK <=> Types /\ Flags
BY DEF TypeOK, Types, ClientType, ServerType, WireType, Flags, Answers

LEMMA InitType == Init => Types /\ Flags
<1> SUFFICES ASSUME Init PROVE Types /\ Flags
  OBVIOUS
<1>1. Flags
  BY Zenon DEF Init, ClientInit, ServerInit, Flags
<1>2. ClientType
  BY DEF Init, ClientInit, ClientType
<1>3. ServerType
  BY DEF Init, ServerInit, ServerType
<1>4. WireType
  BY DEF Init, WireInit, WireType
<1> QED BY <1>1, <1>2, <1>3, <1>4 DEF Types

\* Every flag is left alone or given a truth value.
LEMMA StepFlags == Flags /\ [Next]_vars => Flags'
<1> SUFFICES ASSUME Flags, [Next]_vars PROVE Flags'
  OBVIOUS
<1> USE DEF Flags, OfClient, OfServer
<1>1. CASE OfClient(ClientNext)
  BY <1>1, Zenon DEF ClientNext, SendRequest, Join, Notify, WriteCallback, Close,
       LoopReturns, OnConnect, ConnectFails, GiveUp, FailLoudly, OnClose, OnResponse,
       StepTimeout, WakeFor, sessionVars, clientVars, serverVars, asyncVars
<1>2. CASE OfServer(ServerNext)
  BY <1>2, Zenon DEF ServerNext, Dispatch, DispatchAsync, LookForResponder,
       StoreResult, StoreResponder, CheckResult, OnNotify, Stop, clientVars,
       sessionVars, asyncVars, serverVars
<1>3. CASE UNCHANGED <<clientVars, serverVars>>
  BY <1>3, Zenon DEF clientVars, sessionVars, asyncVars, serverVars
<1> QED BY <1>1, <1>2, <1>3 DEF Next, ClientStep, vars

LEMMA SendType ==
  ASSUME Types, NEW m \in Messages, SendMessage(m)
  PROVE  /\ WireType'
         /\ connecting' \in Nat /\ (connecting' <= ReconnectLimit \/ connecting' = 1)
         /\ dials' \in Nat /\ pending' \in Seq(Messages)
         /\ note' \in [Notes -> {"idle", "pending", "written", "done", "raised"}]
<1> HIDE DEF Messages, Answers
<1>1. Append(pending, m) \in Seq(Messages) /\ Append(requests, m) \in Seq(Messages)
  BY AppendType DEF Types, ClientType, WireType
<1>2. CASE ~InSockets /\ UNCHANGED wireVars
  <2>1. WireType'
    BY <1>2 DEF Types, WireType, wireVars
  <2>2. /\ pending' = Append(pending, m)
        /\ note' = [n \in Notes |-> IF n = m THEN "pending" ELSE note[n]]
        /\ Dial \/ UNCHANGED <<connecting, dials>>
    BY <1>2 DEF SendMessage, InSockets
  <2>3. note' \in [Notes -> {"idle", "pending", "written", "done", "raised"}]
    BY <2>2 DEF Types, ClientType
  <2> QED BY <1>1, <2>1, <2>2, <2>3 DEF Dial, Types, ClientType
<1>3. CASE InSockets
  BY <1>1, <1>3 DEF SendMessage, Written, Types, ClientType, WireType, InSockets, sendVars
<1> QED BY <1>2, <1>3 DEF SendMessage, InSockets

\* The application's thread outside the loop.
LEMMA ApplicationType ==
  ASSUME Types, UNCHANGED serverVars,
         \/ \E c \in Calls : SendRequest(c) \/ Join(c)
         \/ \E n \in Notes : Notify(n)
         \/ Close
  PROVE  Types'
<1>0. ServerType'
  BY DEF Types, ServerType, serverVars, asyncVars
<1>1. ASSUME NEW c \in Calls, SendRequest(c) PROVE Types'
  <2>1. CASE SendMessage(c)
    <3>1. c \in Messages
      BY DEF Messages
    <3> QED BY <1>0, <1>1, <2>1, <3>1, SendType
         DEF SendRequest, Registered, Types, ClientType, sendVars, wireVars
  <2>2. CASE UNCHANGED <<wireVars, sendVars, note>>
    BY <1>0, <1>1, <2>2
    DEF SendRequest, Registered, Types, ClientType, WireType, sendVars, wireVars
  <2> QED BY <1>1, <2>1, <2>2 DEF SendRequest
<1>2. ASSUME NEW c \in Calls, Join(c) PROVE Types'
  BY <1>0, <1>2 DEF Join, Types, ClientType, WireType, sendVars, wireVars, sessionVars,
                    Messages
<1>3. ASSUME NEW n \in Notes, Notify(n) PROVE Types'
  <2>1. n \in Messages
    BY DEF Messages
  <2>2. CASE SendMessage(n) /\ app' = n
    BY <1>0, <1>3, <2>1, <2>2, SendType DEF Notify, Types, ClientType, sessionVars
  <2>3. CASE note' = [note EXCEPT ![n] = "raised"] /\ UNCHANGED <<wireVars, sendVars, app>>
    BY <1>0, <1>3, <2>3
    DEF Notify, Types, ClientType, WireType, sendVars, wireVars, sessionVars
  <2> QED BY <1>3, <2>2, <2>3 DEF Notify
<1>4. CASE Close
  BY <1>0, <1>4 DEF Close, Types, ClientType, WireType
<1> QED BY <1>1, <1>2, <1>3, <1>4

LEMMA SetType ==
  ASSUME Types, NEW S, NEW outcome \in Outcomes
  PROVE  SetFutures(S, outcome) \in [Calls -> {"none", "unset", "raised"} \cup Outcomes]
BY DEF SetFutures, Types, ClientType

\* Callbacks of the loop.
LEMMA CallbackType ==
  ASSUME Types, UNCHANGED serverVars,
         \/ \E n \in Notes : WriteCallback(n)
         \/ LoopReturns \/ OnConnect \/ ConnectFails \/ OnClose \/ OnResponse
         \/ StepTimeout
  PROVE  Types'
<1>0. ServerType'
  BY DEF Types, ServerType, serverVars, asyncVars
<1>1. ASSUME NEW n \in Notes, WriteCallback(n) PROVE Types'
  BY <1>0, <1>1 DEF WriteCallback, Types, ClientType, WireType, sendVars, wireVars,
                    sessionVars
<1>2. CASE LoopReturns
  BY <1>0, <1>2 DEF LoopReturns, Types, ClientType, WireType, sendVars, wireVars,
                    sessionVars
<1>3. CASE OnConnect
  <2>1. requests \o pending \in Seq(Messages)
    BY DEF Types, ClientType, WireType
  <2> QED BY <1>0, <1>3, <2>1 DEF OnConnect, Types, ClientType, WireType, sessionVars
<1>4. CASE ConnectFails
  <2>1. dials - 1 \in Nat
    BY <1>4 DEF ConnectFails, Types, ClientType
  <2>2. CASE GiveUp /\ UNCHANGED ttl
    <3>1. future' = SetFutures(table, "transport")
      BY <2>2 DEF GiveUp
    <3>2. future' \in [Calls -> {"none", "unset", "raised"} \cup Outcomes]
      BY <3>1, SetType DEF Outcomes
    <3>3. pending' \in Seq(Messages)
      BY <2>2 DEF GiveUp
    <3> QED BY <1>0, <1>4, <2>1, <2>2, <3>2, <3>3
         DEF ConnectFails, GiveUp, Types, ClientType, WireType, wireVars
  <2>3. CASE UNCHANGED <<sessionVars, pending>>
    BY <1>0, <1>4, <2>1, <2>2, <2>3 DEF ConnectFails, Types, ClientType, WireType,
         wireVars, sessionVars, ClientAssumption
  <2> QED BY <1>4, <2>2, <2>3 DEF ConnectFails
<1>5. CASE OnClose
  BY <1>0, <1>5 DEF OnClose, Types, ClientType, WireType, clientVars, sessionVars, sendVars
<1>6. CASE OnResponse
  <2> DEFINE r == Head(responses)
  <2>1. r \in Answers /\ responses' \in Seq(Answers)
    BY <1>6, FirstAndRest DEF OnResponse, Types, WireType
  <2>2. r.carries \in Outcomes
    BY <2>1 DEF Answers, Outcomes
  <2> HIDE DEF Answers
  <2>3. table' \subseteq table /\ future' \in {future, SetFutures({r.call}, r.carries)}
    BY <1>6 DEF OnResponse
  <2>4. future' \in [Calls -> {"none", "unset", "raised"} \cup Outcomes]
    BY <2>2, <2>3, SetType DEF Types, ClientType
  <2> QED BY <1>0, <1>6, <2>1, <2>3, <2>4
       DEF OnResponse, Types, ClientType, WireType, sendVars
<1>7. CASE StepTimeout
  <2>1. ttl' \in [Calls -> 0..Timeout]
    BY <1>7 DEF StepTimeout, Due, Types, ClientType
  <2>2. future' \in [Calls -> {"none", "unset", "raised"} \cup Outcomes]
    BY <1>7, SetType DEF StepTimeout, Outcomes
  <2> QED BY <1>0, <1>7, <2>1, <2>2
       DEF StepTimeout, DropDue, Types, ClientType, WireType, sendVars, wireVars
<1> QED BY <1>1, <1>2, <1>3, <1>4, <1>5, <1>6, <1>7

LEMMA RespondType ==
  ASSUME Types, NEW c \in Calls,
         \E carries \in {"result", "error"} : Respond(c, carries)
  PROVE  sent' \subseteq Calls /\ responses' \in Seq(Answers)
<1>1. PICK carries \in {"result", "error"} : Respond(c, carries)
  OBVIOUS
<1>2. [call |-> c, carries |-> carries] \in Answers
  BY DEF Answers
<1> HIDE DEF Answers
<1>3. Append(responses, [call |-> c, carries |-> carries]) \in Seq(Answers)
  BY <1>2, AppendType DEF Types, WireType
<1> QED BY <1>1, <1>3 DEF Respond, Types, WireType, ServerType

LEMMA ServerStepType ==
  ASSUME Types, UNCHANGED clientVars, ServerNext
  PROVE  Types'
<1>0. ClientType'
  BY DEF Types, ClientType, clientVars, sessionVars, sendVars
<1>1. Serves => Tail(requests) \in Seq(Messages)
  BY FirstAndRest DEF Serves, Types, WireType
<1> HIDE DEF Messages, Answers
<1>2. ASSUME NEW c \in Calls, Dispatch(c) PROVE Types'
  <2>1. sent' \subseteq Calls /\ responses' \in Seq(Answers)
    BY <1>2, RespondType DEF Dispatch
  <2>2. handled' \in [Calls -> Nat] /\ requests' \in Seq(Messages)
    BY <1>1, <1>2 DEF Dispatch, Consume, Handled, Types, ServerType
  <2> QED BY <1>0, <1>2, <2>1, <2>2 DEF Dispatch, Types, ServerType, WireType, asyncVars
<1>3. ASSUME NEW c \in AsyncCalls, DispatchAsync(c) PROVE Types'
  <2>1. handled' \in [Calls -> Nat] /\ requests' \in Seq(Messages)
    BY <1>1, <1>3 DEF DispatchAsync, Consume, Handled, Types, ServerType
  <2>2. worker' \in [AsyncCalls -> {"none", "running", "storing", "done"}]
    BY <1>3 DEF DispatchAsync, Types, ServerType
  <2>3. ServerType'
    BY <1>3, <2>1, <2>2 DEF DispatchAsync, Types, ServerType
  <2>4. WireType'
    BY <1>3, <2>1 DEF DispatchAsync, Types, WireType
  <2> QED BY <1>0, <2>3, <2>4 DEF Types
<1>4. ASSUME NEW c \in AsyncCalls, LookForResponder(c) PROVE Types'
  <2>1. sent' \subseteq Calls /\ responses' \in Seq(Answers)
    BY <1>4, RespondType DEF LookForResponder, Types, ServerType, WireType
  <2> QED BY <1>0, <1>4, <2>1 DEF LookForResponder, Types, ServerType, WireType
<1>5. ASSUME NEW c \in AsyncCalls, StoreResult(c) PROVE Types'
  BY <1>0, <1>5 DEF StoreResult, Types, ServerType, WireType, wireVars
<1>6. CASE StoreResponder
  BY <1>0, <1>6 DEF StoreResponder, Types, ServerType, WireType, wireVars
<1>7. CASE CheckResult
  <2>1. sent' \subseteq Calls /\ responses' \in Seq(Answers)
    <3>1. CASE dispatching \in result
      BY <1>7, <3>1, RespondType DEF CheckResult, Types, ServerType, WireType
    <3>2. CASE dispatching \notin result
      BY <1>7, <3>2 DEF CheckResult, Types, ServerType, WireType
    <3> QED BY <3>1, <3>2
  <2> QED BY <1>0, <1>7, <2>1 DEF CheckResult, Types, ServerType, WireType
<1>8. CASE OnNotify
  BY <1>0, <1>1, <1>8 DEF OnNotify, Types, ServerType, WireType, serverVars, asyncVars
<1>9. CASE Stop
  BY <1>0, <1>9 DEF Stop, Types, ServerType, WireType, asyncVars, wireVars
<1> QED BY <1>2, <1>3, <1>4, <1>5, <1>6, <1>7, <1>8, <1>9 DEF ServerNext

LEMMA StepType == Types /\ [Next]_vars => Types'
<1> SUFFICES ASSUME Types, [Next]_vars PROVE Types'
  OBVIOUS
<1>1. CASE OfClient(ClientNext)
  BY <1>1, ApplicationType, CallbackType DEF OfClient, ClientNext
<1>2. CASE OfServer(ServerNext)
  BY <1>2, ServerStepType DEF OfServer
<1>3. CASE LinkBreaks /\ UNCHANGED <<clientVars, serverVars>>
  <2> HIDE DEF Messages, Answers
  <2>1. requests' \in Seq(Messages) /\ responses' \in Seq(Answers)
    <3>1. <<>> \in Seq(Messages) /\ <<>> \in Seq(Answers)
      OBVIOUS
    <3> QED BY <1>3, <3>1 DEF LinkBreaks, Types, WireType
  <2>2. ClientType' /\ ServerType'
    BY <1>3 DEF Types, ClientType, ServerType, clientVars, sessionVars, sendVars,
                serverVars, asyncVars
  <2> QED BY <1>3, <2>1, <2>2 DEF LinkBreaks, Types, WireType
<1>4. CASE UNCHANGED vars
  BY <1>4 DEF vars, Types, ClientType, ServerType, WireType, clientVars,
              sessionVars, sendVars, serverVars, asyncVars, wireVars
<1> QED BY <1>1, <1>2, <1>3, <1>4 DEF Next, ClientStep

LEMMA TypesInvariant == Spec => [](Types /\ Flags)
BY InitType, StepType, StepFlags, PTL DEF Spec

\* The variables of both sides keep their types, and _connecting its limit.
THEOREM TypeCorrect == Spec => []TypeOK
BY TypesInvariant, TypeParts, PTL

-----------------------------------------------------------------------------
(* The connection and the Futures.                                         *)

\* With its types each of the two invariants is inductive.
StreamInv == Types /\ OneStream

LEMMA SendStream ==
  ASSUME StreamInv, ~closed, NEW m, SendMessage(m), closed' = closed
  PROVE  OneStream'
<1>1. CASE ~InSockets /\ Dial /\ connecting = 0 /\ link' = link
  BY <1>1 DEF StreamInv, OneStream, Dial, InSockets, Types, ClientType
<1>2. CASE UNCHANGED <<connecting, dials>> /\ (InSockets' <=> InSockets)
  BY <1>2 DEF StreamInv, OneStream
<1> QED BY <1>1, <1>2 DEF SendMessage, InSockets, sendVars, wireVars

LEMMA StepStream == StreamInv /\ [Next]_vars => OneStream'
<1> SUFFICES ASSUME StreamInv, [Next]_vars PROVE OneStream'
  OBVIOUS
<1>1. CASE UNCHANGED <<closed, connecting, dials, link>>
  BY <1>1 DEF StreamInv, OneStream, InSockets
<1>2. ASSUME NEW c \in Calls, SendRequest(c) PROVE OneStream'
  BY <1>1, <1>2, SendStream DEF SendRequest, sendVars, wireVars
<1>3. ASSUME NEW n \in Notes, Notify(n) PROVE OneStream'
  BY <1>1, <1>3, SendStream DEF Notify, sendVars, wireVars, sessionVars
<1>4. CASE Close
  BY <1>4 DEF Close, StreamInv, OneStream, InSockets, Types, ClientType
<1>5. CASE OnConnect
  BY <1>5 DEF OnConnect, StreamInv, OneStream, InSockets, Types, ClientType, sessionVars
<1>6. CASE ConnectFails
  <2>1. dials \in Nat /\ dials > 0 /\ connecting \in Nat /\ link' = link
        /\ ~InSockets /\ dials = 1
    BY <1>6 DEF ConnectFails, StreamInv, OneStream, Types, ClientType, wireVars
  <2>2. CASE dials' = dials - 1
    BY <2>1, <2>2 DEF OneStream, InSockets
  <2>3. CASE connecting' = connecting + 1 /\ UNCHANGED dials
    BY <2>1, <2>3 DEF OneStream, InSockets
  <2> QED BY <1>6, <2>2, <2>3 DEF ConnectFails, GiveUp
<1>7. CASE OnClose
  BY <1>7 DEF OnClose, StreamInv, OneStream, InSockets, Types, ClientType, clientVars,
              sessionVars, sendVars
<1>8. CASE LinkBreaks /\ UNCHANGED <<clientVars, serverVars>>
  BY <1>8 DEF LinkBreaks, StreamInv, OneStream, InSockets, clientVars, sessionVars, sendVars
<1>9. CASE OfServer(ServerNext)
  BY <1>1, <1>9 DEF OfServer, ServerNext, Dispatch, DispatchAsync, LookForResponder,
       StoreResult, StoreResponder, CheckResult, OnNotify, Stop, clientVars, sessionVars,
       sendVars, wireVars
<1>10. CASE \/ \E c \in Calls : Join(c)
            \/ \E n \in Notes : WriteCallback(n)
            \/ LoopReturns \/ OnResponse \/ StepTimeout \/ UNCHANGED vars
  BY <1>1, <1>10 DEF Join, WriteCallback, LoopReturns, OnResponse, StepTimeout,
       clientVars, sessionVars, sendVars, wireVars, vars
<1> QED BY <1>2, <1>3, <1>4, <1>5, <1>6, <1>7, <1>8, <1>9, <1>10
     DEF Next, ClientStep, OfClient, ClientNext

\* The client never has two streams, and knows when it need not connect.
THEOREM OneStreamCorrect == Spec => []OneStream
<1>1. Init => OneStream
  BY DEF Init, ClientInit, WireInit, OneStream, InSockets
<1>2. StreamInv /\ [Next]_vars => OneStream'
  BY StepStream
<1> QED BY <1>1, <1>2, TypesInvariant, PTL DEF Spec, StreamInv

LEMMA StepFuture == Types /\ FutureKept /\ [Next]_vars => FutureKept'
<1> SUFFICES ASSUME Types, FutureKept, [Next]_vars PROVE FutureKept'
  OBVIOUS
<1>1. CASE UNCHANGED <<closed, table, future>>
  BY <1>1 DEF FutureKept
<1>2. ASSUME NEW c \in Calls, SendRequest(c) PROVE FutureKept'
  BY <1>2 DEF SendRequest, Registered, FutureKept, Types, ClientType
<1>3. CASE Close
  BY <1>3 DEF Close, FutureKept
<1>4. CASE ConnectFails
  <2>1. CASE GiveUp
    BY <2>1 DEF GiveUp, SetFutures, FutureKept
  <2>2. CASE UNCHANGED sessionVars
    BY <1>1, <2>2 DEF sessionVars
  <2> QED BY <1>4, <2>1, <2>2 DEF ConnectFails
<1>5. CASE OnResponse
  <2> DEFINE r == Head(responses)
  <2>1. CASE r.call \in table
    <3>1. /\ table' = table \ {r.call} /\ closed' = closed
          /\ future' = SetFutures({r.call}, r.carries)
      BY <1>5, <2>1 DEF OnResponse
    <3>2. r.carries \in {"result", "error"}
      <4>1. r \in Answers
        BY <1>5, FirstAndRest DEF OnResponse, Types, WireType
      <4> QED BY <4>1 DEF Answers
    <3> HIDE DEF r
    <3> QED BY <3>1, <3>2 DEF SetFutures, FutureKept
  <2>2. CASE r.call \notin table
    BY <1>1, <1>5, <2>2 DEF OnResponse
  <2> QED BY <2>1, <2>2
<1>6. CASE StepTimeout
  <2>1. /\ table' = table \ Due /\ closed' = closed
        /\ future' = SetFutures(Due, "timeout")
    BY <1>6 DEF StepTimeout, DropDue
  <2> QED BY <2>1 DEF SetFutures, FutureKept
<1>7. CASE UNCHANGED clientVars
  BY <1>1, <1>7 DEF clientVars, sessionVars
<1>8. CASE \/ \E c \in Calls : Join(c)
           \/ \E n \in Notes : Notify(n) \/ WriteCallback(n)
           \/ LoopReturns \/ OnConnect \/ OnClose
  BY <1>1, <1>8 DEF Join, Notify, WriteCallback, LoopReturns, OnConnect, OnClose,
       clientVars, sessionVars
<1> QED BY <1>2, <1>3, <1>4, <1>5, <1>6, <1>7, <1>8
     DEF Next, ClientStep, OfClient, ClientNext, OfServer, vars

\* A Future that is not set is where an answer, a time-out or the failure of
\* the connection finds it, unless the session was closed.
THEOREM FutureKeptCorrect == Spec => []FutureKept
<1>1. Init => FutureKept
  BY DEF Init, ClientInit, FutureKept
<1> QED BY <1>1, StepFuture, TypesInvariant, PTL DEF Spec

-----------------------------------------------------------------------------
(* Who waits in the loop will be woken.                                    *)

\* A notification is made on an open session, and the failure that closes it
\* stops the loop.
NotifyIsOpen == app \in Notes /\ ~stopped => ~closed

WakeInv == StreamInv /\ Flags /\ NotifyIsOpen /\ WakeupIsDue

\* With the loop not entered, or stopped, there is nothing to show.
LEMMA AwakeOrOut ==
  app' = Nobody \/ stopped' => NotifyIsOpen' /\ WakeupIsDue'
BY DEF NotifyIsOpen, WakeupIsDue, Nobody

\* The application enters the loop.
LEMMA WakeEnters ==
  ASSUME WakeInv,
         \/ \E c \in Calls : SendRequest(c) \/ Join(c)
         \/ \E n \in Notes : Notify(n)
         \/ Close
  PROVE  NotifyIsOpen' /\ WakeupIsDue'
<1>1. CASE app' = Nobody
  BY <1>1, AwakeOrOut
<1>2. ASSUME NEW c \in Calls, Join(c) PROVE NotifyIsOpen' /\ WakeupIsDue'
  BY <1>2 DEF Join, NotifyIsOpen, WakeupIsDue, sessionVars
<1>3. ASSUME NEW n \in Notes, Notify(n) PROVE NotifyIsOpen' /\ WakeupIsDue'
  <2>1. CASE ~closed /\ SendMessage(n) /\ app' = n
    <3>1. n \notin Calls /\ closed' = closed /\ note \in [Notes -> {"idle", "pending",
             "written", "done", "raised"}] /\ dials \in Nat /\ connecting \in Nat
      BY <1>3 DEF Notify, sessionVars, WakeInv, StreamInv, Types, ClientType
    <3>2. CASE link # "none"
      <4>1. note' = Written(n) /\ link' # "none"
        BY <2>1, <3>2 DEF SendMessage, InSockets
      <4>2. note'[n] = "written"
        BY <4>1 DEF Written
      <4> QED BY <2>1, <3>1, <4>1, <4>2 DEF NotifyIsOpen, WakeupIsDue, InSockets
    <3>3. CASE link = "none"
      <4>1. /\ note' = [m \in Notes |-> IF m = n THEN "pending" ELSE note[m]]
            /\ IF connecting = 0 THEN Dial ELSE UNCHANGED <<connecting, dials>>
            /\ link' = link
        BY <2>1, <3>3 DEF SendMessage, InSockets, wireVars
      <4>2. note'[n] = "pending"
        BY <4>1
      <4>3. dials' > 0 \/ Lost'
        BY <3>1, <3>3, <4>1 DEF Dial, Lost, InSockets
      <4> QED BY <2>1, <3>1, <4>2, <4>3 DEF NotifyIsOpen, WakeupIsDue
    <3> QED BY <3>2, <3>3
  <2>2. CASE app' = app
    BY <1>1, <1>3, <2>2 DEF Notify
  <2> QED BY <1>3, <2>1, <2>2 DEF Notify
<1> QED BY <1>1, <1>2, <1>3 DEF SendRequest, Close

\* What its callbacks do: each that ends somebody's wait stops the loop.
LEMMA WakeCallback ==
  ASSUME WakeInv, InLoop,
         \/ \E n \in Notes : WriteCallback(n)
         \/ LoopReturns \/ OnConnect \/ ConnectFails \/ OnClose \/ OnResponse
         \/ StepTimeout
  PROVE  NotifyIsOpen' /\ WakeupIsDue'
<1>1. CASE stopped'
  BY <1>1, AwakeOrOut
<1> SUFFICES ASSUME ~stopped' PROVE NotifyIsOpen' /\ WakeupIsDue'
  BY <1>1
<1>2. CASE LoopReturns
  <2>1. CASE app \in Calls /\ future[app] = "unset"
    BY <1>2, <2>1 DEF LoopReturns, NotifyIsOpen, WakeupIsDue, sessionVars
  <2>2. CASE ~(app \in Calls /\ future[app] = "unset")
    BY <1>2, <2>2, AwakeOrOut DEF LoopReturns
  <2> QED BY <2>1, <2>2
<1>3. CASE UNCHANGED <<app, stopped, closed, future, note, dials, connecting, link>>
  BY <1>3 DEF WakeInv, NotifyIsOpen, WakeupIsDue, Lost, InSockets
<1>4. CASE \E n \in Notes : WriteCallback(n)
  BY <1>4 DEF WriteCallback
<1>5. CASE OnConnect
  <2>1. /\ link' = "up" /\ UNCHANGED <<app, stopped, closed, future>>
        /\ note' = [n \in Notes |-> IF note[n] = "pending" THEN "written" ELSE note[n]]
        /\ dials > 0
    BY <1>5 DEF OnConnect, sessionVars
  <2>2. app \in Calls \/ app \in Notes
    BY DEF WakeInv, StreamInv, Types, ClientType, Messages, InLoop
  <2>3. app \in Notes /\ app \notin Calls => note[app] \in {"pending", "written"}
    BY <2>1 DEF WakeInv, WakeupIsDue, Lost, Nobody, InLoop
  <2>4. app \in Notes /\ app \notin Calls => note'[app] = "written"
    BY <2>1, <2>3
  <2> QED BY <2>1, <2>2, <2>4 DEF WakeInv, NotifyIsOpen, WakeupIsDue, InSockets
<1>6. CASE ConnectFails
  <2>1. UNCHANGED <<app, note, link>> /\ dials > 0
    BY <1>6 DEF ConnectFails, wireVars
  <2>2. CASE GiveUp
    BY <2>2 DEF GiveUp, FailLoudly
  <2>3. CASE UNCHANGED sessionVars /\ UNCHANGED stopped
    <3>1. UNCHANGED <<closed, future, stopped>> /\ ~stopped
      BY <2>3 DEF sessionVars
    <3>2. NotifyIsOpen'
      BY <2>1, <3>1 DEF WakeInv, NotifyIsOpen
    <3>3. CASE app \in Calls
      <4>1. future[app] = "unset"
        BY <3>1, <3>3 DEF WakeInv, WakeupIsDue, InLoop
      <4> QED BY <2>1, <3>1, <3>2, <3>3, <4>1 DEF WakeupIsDue
    <3>4. CASE app \in Notes /\ app \notin Calls
      <4>1. ~closed
        BY <3>1, <3>4 DEF WakeInv, NotifyIsOpen
      <4>2. dials = 1 /\ ~InSockets /\ connecting > 0 /\ connecting \in Nat
        BY <2>1, <4>1 DEF WakeInv, StreamInv, OneStream, Types, ClientType
      <4>3. note[app] = "pending"
        BY <2>1, <3>1, <3>4, <4>2 DEF WakeInv, WakeupIsDue, Lost, InLoop
      <4>4. \/ connecting' = connecting + 1 /\ dials' = dials
            \/ dials' = dials - 1 /\ connecting' = connecting
        <5>1. ~GiveUp
          BY DEF GiveUp, FailLoudly
        <5> QED BY <1>6, <4>1, <5>1 DEF ConnectFails
      <4>5. dials' > 0 \/ Lost'
        BY <2>1, <4>2, <4>4 DEF Lost, InSockets
      <4> QED BY <2>1, <3>2, <3>4, <4>3, <4>5 DEF WakeupIsDue
    <3> QED BY <3>3, <3>4 DEF WakeInv, StreamInv, Types, ClientType, Messages, InLoop
  <2> QED BY <1>6, <2>2, <2>3 DEF ConnectFails
<1>7. CASE OnClose
  <2>1. /\ ~closed /\ link # "none" /\ link' = "none"
        /\ UNCHANGED <<app, stopped, closed, future, dials, connecting>>
    BY <1>7 DEF OnClose, clientVars, sessionVars, sendVars
  <2>2. dials = 0 /\ connecting > 0
    BY <2>1 DEF WakeInv, StreamInv, OneStream, InSockets, Types, ClientType
  <2>3. Lost'
    BY <2>1, <2>2 DEF Lost, InSockets
  <2> QED BY <2>1, <2>3 DEF WakeInv, NotifyIsOpen, WakeupIsDue
<1>8. CASE OnResponse
  <2>1. Head(responses).call \notin table
    BY <1>8 DEF OnResponse
  <2> QED BY <1>3, <1>8, <2>1 DEF OnResponse, sendVars
<1>9. CASE StepTimeout
  <2>1. Due = {} /\ UNCHANGED <<app, stopped, closed, note, dials, connecting, link>>
    BY <1>9 DEF StepTimeout, WakeFor, sendVars, wireVars, WakeInv, Flags
  <2>2. future' = future
    BY <1>9, <2>1 DEF StepTimeout, SetFutures, WakeInv, StreamInv, Types, ClientType
  <2> QED BY <1>3, <2>1, <2>2
<1> QED BY <1>2, <1>4, <1>5, <1>6, <1>7, <1>8, <1>9

LEMMA StepWake == WakeInv /\ [Next]_vars => NotifyIsOpen' /\ WakeupIsDue'
<1> SUFFICES ASSUME WakeInv, [Next]_vars PROVE NotifyIsOpen' /\ WakeupIsDue'
  OBVIOUS
<1>1. CASE OfClient(ClientNext)
  <2>1. \A n \in Notes : WriteCallback(n) => InLoop
    BY DEF WriteCallback
  <2>2. LoopReturns \/ OnConnect \/ ConnectFails \/ OnClose \/ OnResponse
          \/ StepTimeout => InLoop
    BY DEF LoopReturns, OnConnect, ConnectFails, OnClose, OnResponse, StepTimeout
  <2> QED BY <1>1, <2>1, <2>2, WakeEnters, WakeCallback DEF OfClient, ClientNext
<1>2. CASE UNCHANGED clientVars /\ (InSockets' <=> InSockets)
  <2>1. UNCHANGED <<app, stopped, closed, future, note, dials, connecting>>
    BY <1>2 DEF clientVars, sessionVars, sendVars
  <2> QED BY <1>2, <2>1 DEF WakeInv, NotifyIsOpen, WakeupIsDue, Lost
<1>3. CASE OfServer(ServerNext)
  <2>1. link' = link
    BY <1>3 DEF OfServer, ServerNext, Dispatch, DispatchAsync, LookForResponder,
         StoreResult, StoreResponder, CheckResult, OnNotify, Stop, wireVars
  <2> QED BY <1>2, <1>3, <2>1 DEF OfServer, InSockets
<1>4. CASE LinkBreaks /\ UNCHANGED <<clientVars, serverVars>>
  BY <1>2, <1>4 DEF LinkBreaks, InSockets
<1>5. CASE UNCHANGED vars
  BY <1>2, <1>5 DEF vars, wireVars, InSockets
<1> QED BY <1>1, <1>3, <1>4, <1>5 DEF Next, ClientStep

\* No wake-up is lost: while the loop goes on, a Future that is joined is not
\* set, and a notification has its write callback to come, unless the
\* connection is lost.
THEOREM WakeupCorrect == Spec => []WakeupIsDue
<1>1. Init => NotifyIsOpen /\ WakeupIsDue
  BY DEF Init, ClientInit, NotifyIsOpen, WakeupIsDue, Nobody
<1>2. WakeInv /\ [Next]_vars => (NotifyIsOpen /\ WakeupIsDue)'
  BY StepWake
<1> QED BY <1>1, <1>2, TypesInvariant, OneStreamCorrect, PTL DEF Spec, WakeInv, StreamInv

-----------------------------------------------------------------------------
(* Client and server implement RpcCall.                                    *)

Contains(s, x) == \E i \in DOMAIN s : s[i] = x

\* A call is in s once at most.
CallsOnce(s) ==
  \A i, j \in DOMAIN s : s[i] \in Calls /\ s[i] = s[j] => i = j

UnderWay(c) == Contains(requests, c) \/ Contains(pending, c)

\* A request is sent once, before it is handled; it is handled once, before it
\* is answered.
CallInv ==
  /\ CallsOnce(requests) /\ CallsOnce(pending)
  /\ \A c \in Calls :
       /\ ~(Contains(requests, c) /\ Contains(pending, c))
       /\ handled[c] \in {0, 1}
       /\ UnderWay(c) => handled[c] = 0
       /\ UnderWay(c) \/ handled[c] = 1 => future[c] # "none"
  /\ \A i \in DOMAIN responses : handled[responses[i].call] = 1
  /\ dispatching # Nothing => handled[dispatching] = 1
  /\ \A c \in AsyncCalls : worker[c] # "none" => handled[c] = 1

LEMMA AppendOnce ==
  ASSUME NEW S, NEW s \in Seq(S), NEW e \in S
  PROVE  /\ \A x : Contains(Append(s, e), x) <=> x = e \/ Contains(s, x)
         /\ CallsOnce(s) /\ ~(e \in Calls /\ Contains(s, e)) => CallsOnce(Append(s, e))
<1> DEFINE n == Len(s)
           t == Append(s, e)
<1>1. /\ DOMAIN s = 1..n /\ n \in Nat /\ DOMAIN t = 1..(n + 1) /\ t[n + 1] = e
  OBVIOUS
<1>2. \A i \in 1..n : t[i] = s[i]
  OBVIOUS
<1> HIDE DEF n, t
<1>3. \A i \in 1..(n + 1) : i \in 1..n \/ i = n + 1
  BY <1>1
<1>4. n + 1 \in DOMAIN t /\ \A i \in 1..n : i \in DOMAIN t
  BY <1>1
<1>5. ASSUME NEW x PROVE Contains(t, x) <=> x = e \/ Contains(s, x)
  <2>1. Contains(s, x) => Contains(t, x)
    BY <1>1, <1>2, <1>4 DEF Contains
  <2>2. Contains(t, e)
    BY <1>1, <1>4 DEF Contains
  <2>3. Contains(t, x) => x = e \/ Contains(s, x)
    BY <1>1, <1>2, <1>3 DEF Contains
  <2> QED BY <2>1, <2>2, <2>3
<1>6. ASSUME CallsOnce(s), ~(e \in Calls /\ Contains(s, e)) PROVE CallsOnce(t)
  <2>1. \A i \in 1..n : t[i] = e => e \notin Calls
    BY <1>1, <1>2, <1>6 DEF Contains
  <2> QED BY <1>1, <1>2, <1>3, <1>6, <2>1 DEF CallsOnce
<1> QED BY <1>5, <1>6 DEF t

LEMMA TailOnce ==
  ASSUME NEW S, NEW s \in Seq(S), s # <<>>
  PROVE  /\ \A x : Contains(Tail(s), x) => Contains(s, x)
         /\ Contains(s, Head(s))
         /\ CallsOnce(s) => CallsOnce(Tail(s))
              /\ (Head(s) \in Calls => ~Contains(Tail(s), Head(s)))
<1> DEFINE n == Len(s)
           t == Tail(s)
<1>1. n \in Nat \ {0} /\ DOMAIN s = 1..n /\ Head(s) = s[1]
  OBVIOUS
<1>2. DOMAIN t = 1..(n - 1) /\ \A i \in 1..(n - 1) : t[i] = s[i + 1]
  BY <1>1
<1> HIDE DEF n, t
<1>3. \A i \in DOMAIN t : i \in Nat /\ i + 1 \in DOMAIN s /\ i + 1 # 1 /\ t[i] = s[i + 1]
  BY <1>1, <1>2
<1>4. ASSUME NEW x, Contains(t, x) PROVE Contains(s, x)
  BY <1>3, <1>4 DEF Contains
<1>5. Contains(s, Head(s))
  BY <1>1 DEF Contains
<1>6. ASSUME CallsOnce(s)
      PROVE  CallsOnce(t) /\ (Head(s) \in Calls => ~Contains(t, Head(s)))
  <2>1. ASSUME NEW i \in DOMAIN t, NEW j \in DOMAIN t, t[i] \in Calls, t[i] = t[j]
        PROVE  i = j
    <3>1. i + 1 = j + 1
      BY <1>3, <1>6, <2>1 DEF CallsOnce
    <3> QED BY <1>3, <3>1
  <2>2. ASSUME NEW i \in DOMAIN t, t[i] = Head(s) PROVE Head(s) \notin Calls
    <3>1. 1 \in DOMAIN s /\ s[1] = s[i + 1] /\ i + 1 \in DOMAIN s /\ i + 1 # 1
      BY <1>1, <1>3, <2>2
    <3> QED BY <1>1, <1>6, <3>1 DEF CallsOnce
  <2> QED BY <2>1, <2>2 DEF CallsOnce, Contains
<1> QED BY <1>4, <1>5, <1>6 DEF t

LEMMA JoinedOnce ==
  ASSUME NEW S, NEW s \in Seq(S), NEW u \in Seq(S)
  PROVE  /\ \A x : Contains(s \o u, x) <=> Contains(s, x) \/ Contains(u, x)
         /\ CallsOnce(s) /\ CallsOnce(u)
              /\ (\A c \in Calls : ~(Contains(s, c) /\ Contains(u, c)))
              => CallsOnce(s \o u)
<1> DEFINE n == Len(s)
           m == Len(u)
           t == s \o u
<1>1. /\ n \in Nat /\ m \in Nat /\ DOMAIN s = 1..n /\ DOMAIN u = 1..m
      /\ DOMAIN t = 1..(n + m)
  OBVIOUS
<1>2. \A i \in 1..n : t[i] = s[i]
  OBVIOUS
<1>3. \A i \in 1..m : t[n + i] = u[i]
  OBVIOUS
<1> HIDE DEF n, m, t
<1>4. \A i \in 1..n : i \in DOMAIN t
  BY <1>1
<1>5. \A i \in 1..m : n + i \in DOMAIN t
  BY <1>1
<1>6. \A i \in DOMAIN t : i \in 1..n \/ (i - n \in 1..m /\ i = n + (i - n))
  BY <1>1
<1>7. ASSUME NEW x PROVE Contains(t, x) <=> Contains(s, x) \/ Contains(u, x)
  <2>1. Contains(s, x) => Contains(t, x)
    BY <1>1, <1>2, <1>4 DEF Contains
  <2>2. Contains(u, x) => Contains(t, x)
    BY <1>1, <1>3, <1>5 DEF Contains
  <2>3. Contains(t, x) => Contains(s, x) \/ Contains(u, x)
    BY <1>1, <1>2, <1>3, <1>6 DEF Contains
  <2> QED BY <2>1, <2>2, <2>3
<1>8. ASSUME CallsOnce(s), CallsOnce(u),
             \A c \in Calls : ~(Contains(s, c) /\ Contains(u, c)),
             NEW i \in DOMAIN t, NEW j \in DOMAIN t, t[i] \in Calls, t[i] = t[j]
      PROVE  i = j
  <2>1. CASE i \in 1..n /\ j \in 1..n
    BY <1>1, <1>2, <1>8, <2>1 DEF CallsOnce
  <2>2. CASE i - n \in 1..m /\ j - n \in 1..m
    <3>1. t[i] = u[i - n] /\ t[j] = u[j - n]
      BY <1>1, <1>3, <1>6, <1>8, <2>2
    <3>2. i - n = j - n
      BY <1>1, <1>8, <2>2, <3>1 DEF CallsOnce
    <3> QED BY <1>1, <1>8, <3>2
  <2>3. ASSUME NEW k \in 1..n, NEW l \in 1..m, t[k] \in Calls, t[k] = t[n + l]
        PROVE  FALSE
    <3>1. Contains(s, t[k]) /\ Contains(u, t[k])
      BY <1>1, <1>2, <1>3, <2>3 DEF Contains
    <3> QED BY <1>8, <2>3, <3>1
  <2> QED BY <1>6, <1>8, <2>1, <2>2, <2>3
<1> QED BY <1>7, <1>8 DEF CallsOnce, t

\* A Future that was made stays made.
Made == \A c \in Calls : future[c] # "none" => future'[c] # "none"

LEMMA StepMade == Types /\ [Next]_vars => Made
<1> SUFFICES ASSUME Types, [Next]_vars PROVE Made
  OBVIOUS
<1>1. CASE UNCHANGED future
  BY <1>1 DEF Made
<1>2. ASSUME NEW c \in Calls, SendRequest(c) PROVE Made
  BY <1>2 DEF SendRequest, Made, Types, ClientType
<1>3. ASSUME NEW S, NEW r \in Outcomes, future' = SetFutures(S, r) PROVE Made
  BY <1>3 DEF SetFutures, Outcomes, Made
<1>4. CASE ConnectFails
  BY <1>1, <1>3, <1>4 DEF ConnectFails, GiveUp, Outcomes, sessionVars
<1>5. CASE OnResponse
  <2>1. Head(responses) \in Answers
    BY <1>5, FirstAndRest DEF OnResponse, Types, WireType
  <2>2. Head(responses).carries \in Outcomes
    BY <2>1 DEF Answers, Outcomes
  <2>3. CASE UNCHANGED future
    BY <1>1, <2>3
  <2>4. CASE future' = SetFutures({Head(responses).call}, Head(responses).carries)
    BY <1>3, <2>2, <2>4
  <2> QED BY <1>5, <2>3, <2>4 DEF OnResponse
<1>6. CASE StepTimeout
  BY <1>3, <1>6 DEF StepTimeout, Outcomes
<1>7. CASE \/ \E c \in Calls : Join(c)
           \/ \E n \in Notes : Notify(n) \/ WriteCallback(n)
           \/ LoopReturns \/ OnConnect \/ OnClose \/ Close \/ UNCHANGED clientVars
  BY <1>1, <1>7 DEF Join, Notify, WriteCallback, LoopReturns, OnConnect, OnClose, Close,
       clientVars, sessionVars
<1> QED BY <1>2, <1>4, <1>5, <1>6, <1>7
     DEF Next, ClientStep, OfClient, ClientNext, OfServer, vars

\* Whatever sends nothing.
LEMMA CallsLess ==
  ASSUME Types, CallInv, Made, UNCHANGED serverVars,
         requests' \in {requests, <<>>}, pending' \in {pending, <<>>},
         \A i \in DOMAIN responses' : \E j \in DOMAIN responses : responses'[i] = responses[j]
  PROVE  CallInv'
<1>1. UNCHANGED <<handled, dispatching, worker>>
  BY DEF serverVars, asyncVars
<1>2. /\ \A x : Contains(requests', x) => Contains(requests, x)
      /\ \A x : Contains(pending', x) => Contains(pending, x)
      /\ CallsOnce(requests') /\ CallsOnce(pending')
  BY DEF Contains, CallsOnce, CallInv
<1>3. \A i \in DOMAIN responses' : handled[responses'[i].call] = 1
  BY DEF CallInv
<1> QED BY <1>1, <1>2, <1>3 DEF CallInv, UnderWay, Made

\* What sends a message that was not sent before.
LEMMA CallsMore ==
  ASSUME Types, CallInv, Made, UNCHANGED serverVars, NEW m \in Messages, SendMessage(m),
         m \in Calls => future[m] = "none" /\ future'[m] # "none"
  PROVE  CallInv'
<1>1. UNCHANGED <<handled, dispatching, worker>>
  BY DEF serverVars, asyncVars
<1>2. \/ requests' = requests /\ pending' = Append(pending, m)
      \/ requests' = Append(requests, m) /\ pending' = pending
      \/ requests' = requests /\ pending' = pending
  BY DEF SendMessage, wireVars, sendVars
<1>3. responses' = responses
  BY DEF SendMessage, wireVars
<1>4. /\ requests \in Seq(Messages) /\ pending \in Seq(Messages)
      /\ CallsOnce(requests) /\ CallsOnce(pending)
  BY DEF Types, ClientType, WireType, CallInv
<1>5. m \in Calls => ~Contains(requests, m) /\ ~Contains(pending, m) /\ handled[m] = 0
  BY DEF CallInv, UnderWay
<1> HIDE DEF Messages
<1>6. /\ CallsOnce(requests') /\ CallsOnce(pending')
      /\ \A x : Contains(requests', x) => x = m \/ Contains(requests, x)
      /\ \A x : Contains(pending', x) => x = m \/ Contains(pending, x)
      /\ ~(Contains(requests', m) /\ Contains(pending', m)) \/ m \notin Calls
  <2>1. CASE requests' = requests /\ pending' = Append(pending, m)
    BY <1>4, <1>5, <2>1, AppendOnce
  <2>2. CASE requests' = Append(requests, m) /\ pending' = pending
    BY <1>4, <1>5, <2>2, AppendOnce
  <2>3. CASE requests' = requests /\ pending' = pending
    BY <1>4, <1>5, <2>3
  <2> QED BY <1>2, <2>1, <2>2, <2>3
<1>7. ASSUME NEW c \in Calls
      PROVE  /\ ~(Contains(requests', c) /\ Contains(pending', c))
             /\ handled'[c] \in {0, 1}
             /\ UnderWay(c)' => handled'[c] = 0
             /\ UnderWay(c)' \/ handled'[c] = 1 => future'[c] # "none"
  <2>1. CASE c = m
    BY <1>1, <1>5, <1>6, <2>1 DEF UnderWay
  <2>2. CASE c # m
    BY <1>1, <1>6, <2>2 DEF CallInv, UnderWay, Made
  <2> QED BY <2>1, <2>2
<1> QED BY <1>1, <1>3, <1>6, <1>7 DEF CallInv

LEMMA CallsClient ==
  ASSUME Types, CallInv, Made, OfClient(ClientNext)
  PROVE  CallInv'
<1>0. UNCHANGED serverVars /\ ClientNext
  BY DEF OfClient
<1>1. CASE /\ UNCHANGED <<requests, responses>> /\ pending' \in {pending, <<>>}
  BY <1>0, <1>1, CallsLess
<1>2. ASSUME NEW c \in Calls, SendRequest(c) PROVE CallInv'
  <2>1. CASE SendMessage(c) /\ future' = [future EXCEPT ![c] = "unset"]
    <3>1. c \in Messages /\ future[c] = "none" /\ future'[c] # "none"
      BY <1>2, <2>1 DEF SendRequest, Messages, Types, ClientType
    <3> QED BY <1>0, <2>1, <3>1, CallsMore
  <2> QED BY <1>1, <1>2, <2>1 DEF SendRequest, sendVars, wireVars
<1>3. ASSUME NEW n \in Notes, Notify(n) PROVE CallInv'
  <2>1. n \in Messages /\ n \notin Calls
    BY DEF Messages
  <2> QED BY <1>0, <1>1, <1>3, <2>1, CallsMore DEF Notify, sendVars, wireVars
<1>4. CASE Close \/ OnClose
  <2>1. /\ requests' = requests /\ pending' \in {pending, <<>>} /\ responses' = <<>>
    BY <1>4 DEF Close, OnClose, clientVars, sendVars
  <2> QED BY <1>0, <2>1, CallsLess
<1>5. CASE OnConnect
  <2>1. /\ requests' = requests \o pending /\ pending' = <<>>
        /\ UNCHANGED <<responses, future, handled, dispatching, worker>>
    BY <1>0, <1>5 DEF OnConnect, sessionVars, serverVars, asyncVars
  <2>2. /\ requests \in Seq(Messages) /\ pending \in Seq(Messages)
    BY DEF Types, ClientType, WireType
  <2> HIDE DEF Messages
  <2>3. /\ \A x : Contains(requests', x) <=> Contains(requests, x) \/ Contains(pending, x)
        /\ CallsOnce(requests')
    BY <2>1, <2>2, JoinedOnce DEF CallInv
  <2>4. CallsOnce(pending') /\ \A x : ~Contains(pending', x)
    BY <2>1 DEF CallsOnce, Contains
  <2> QED BY <2>1, <2>3, <2>4 DEF CallInv, UnderWay
<1>6. CASE OnResponse
  <2>1. responses \in Seq(Answers) /\ responses # <<>> /\ responses' = Tail(responses)
    BY <1>6 DEF OnResponse, Types, WireType
  <2> HIDE DEF Answers
  <2>2. \A i \in DOMAIN responses' :
          i + 1 \in DOMAIN responses /\ responses'[i] = responses[i + 1]
    BY <2>1
  <2>3. UNCHANGED <<requests, pending>>
    BY <1>6 DEF OnResponse, sendVars
  <2> QED BY <1>0, <2>2, <2>3, CallsLess
<1>7. CASE ConnectFails
  BY <1>1, <1>7 DEF ConnectFails, GiveUp, wireVars
<1>8. CASE \/ \E c \in Calls : Join(c)
           \/ \E n \in Notes : WriteCallback(n)
           \/ LoopReturns \/ StepTimeout
  BY <1>1, <1>8 DEF Join, WriteCallback, LoopReturns, StepTimeout, sendVars, wireVars
<1> QED BY <1>0, <1>2, <1>3, <1>4, <1>5, <1>6, <1>7, <1>8 DEF ClientNext

LEMMA RespondAnswers ==
  ASSUME Types, NEW c \in Calls,
         \E carries \in {"result", "error"} : Respond(c, carries)
  PROVE  \A i \in DOMAIN responses' :
           responses'[i].call = c \/ \E j \in DOMAIN responses : responses'[i] = responses[j]
<1>1. PICK carries \in {"result", "error"} : Respond(c, carries)
  OBVIOUS
<1> DEFINE r == [call |-> c, carries |-> carries]
           t == Append(responses, r)
<1>2. r.call = c /\ r \in Answers /\ responses \in Seq(Answers)
  BY DEF Answers, Types, WireType
<1>3. responses' = t \/ responses' = responses
  BY <1>1 DEF Respond
<1> HIDE DEF r, Answers
<1>4. \A i \in DOMAIN t : t[i] = r \/ (i \in DOMAIN responses /\ t[i] = responses[i])
  BY <1>2
<1> HIDE DEF t
<1> QED BY <1>2, <1>3, <1>4

\* The server takes the first request: the call it hands to a method has not
\* been handled and is not sent again.
LEMMA CallsHandled ==
  ASSUME Types, CallInv, UNCHANGED clientVars, NEW c \in Calls, requests # <<>>,
         Head(requests) = c, requests' = Tail(requests),
         handled' = [handled EXCEPT ![c] = @ + 1],
         \A i \in DOMAIN responses' :
           responses'[i].call = c \/ \E j \in DOMAIN responses : responses'[i] = responses[j],
         dispatching' \in {dispatching, c},
         \A d \in AsyncCalls : worker'[d] = worker[d] \/ d = c
  PROVE  CallInv'
<1>1. requests \in Seq(Messages) /\ handled \in [Calls -> Nat] /\ UNCHANGED <<pending, future>>
  BY DEF Types, WireType, ServerType, clientVars, sendVars, sessionVars
<1> HIDE DEF Messages
<1>2. /\ \A x : Contains(requests', x) => Contains(requests, x)
      /\ Contains(requests, c) /\ CallsOnce(requests') /\ ~Contains(requests', c)
  BY <1>1, TailOnce DEF CallInv
<1>3. \A x : Contains(pending', x) <=> Contains(pending, x)
  BY <1>1
<1>4. handled[c] = 0 /\ ~Contains(pending, c) /\ future[c] # "none"
  BY <1>2 DEF CallInv, UnderWay
<1>5. handled'[c] = 1 /\ \A d \in Calls : d # c => handled'[d] = handled[d]
  BY <1>1, <1>4
<1>6. \A d \in Calls : handled[d] = 1 => handled'[d] = 1
  BY <1>5
<1>7. \A i \in DOMAIN responses : responses[i].call \in Calls
  <2>1. \A i \in DOMAIN responses : responses[i] \in Answers
    BY DEF Types, WireType
  <2> QED BY <2>1 DEF Answers
<1>8. \A i \in DOMAIN responses' : handled'[responses'[i].call] = 1
  BY <1>5, <1>6, <1>7 DEF CallInv
<1>9. dispatching' # Nothing => handled'[dispatching'] = 1
  BY <1>5, <1>6 DEF CallInv, Types, ServerType
<1>10. \A d \in AsyncCalls : worker'[d] # "none" => handled'[d] = 1
  BY <1>5, <1>6 DEF CallInv
<1>11. CallsOnce(pending')
  BY <1>1 DEF CallInv
<1>12. ASSUME NEW d \in Calls
       PROVE  /\ ~(Contains(requests', d) /\ Contains(pending', d))
              /\ handled'[d] \in {0, 1}
              /\ UnderWay(d)' => handled'[d] = 0
              /\ UnderWay(d)' \/ handled'[d] = 1 => future'[d] # "none"
  <2>1. CASE d = c
    BY <1>1, <1>2, <1>3, <1>4, <1>5, <2>1 DEF UnderWay
  <2>2. CASE d # c
    BY <1>1, <1>2, <1>3, <1>5, <2>2 DEF CallInv, UnderWay
  <2> QED BY <2>1, <2>2
<1> QED BY <1>2, <1>8, <1>9, <1>10, <1>11, <1>12 DEF CallInv

\* An answer is that of a call that was handled.
LEMMA CallsAnswered ==
  ASSUME Types, CallInv, UNCHANGED <<clientVars, handled, requests>>,
         NEW c \in Calls, handled[c] = 1,
         \A i \in DOMAIN responses' :
           responses'[i].call = c \/ \E j \in DOMAIN responses : responses'[i] = responses[j],
         dispatching' \in {dispatching, Nothing},
         \A d \in AsyncCalls : worker'[d] # "none" => worker[d] # "none"
  PROVE  CallInv'
<1>1. UNCHANGED <<pending, future>>
  BY DEF clientVars, sendVars, sessionVars
<1>2. \A i \in DOMAIN responses' : handled[responses'[i].call] = 1
  BY DEF CallInv
<1>3. \A d \in Calls : (Contains(requests', d) <=> Contains(requests, d))
                      /\ (Contains(pending', d) <=> Contains(pending, d))
  BY <1>1
<1>4. CallsOnce(requests') /\ CallsOnce(pending')
  BY <1>1 DEF CallInv
<1> QED BY <1>1, <1>2, <1>3, <1>4 DEF CallInv, UnderWay

LEMMA CallsServer ==
  ASSUME Types, CallInv, OfServer(ServerNext)
  PROVE  CallInv'
<1>0. UNCHANGED clientVars /\ ServerNext
  BY DEF OfServer
<1>1. ASSUME NEW c \in Calls, Dispatch(c) PROVE CallInv'
  <2>1. \A i \in DOMAIN responses' :
          responses'[i].call = c \/ \E j \in DOMAIN responses : responses'[i] = responses[j]
    BY <1>1, RespondAnswers DEF Dispatch
  <2> QED BY <1>0, <1>1, <2>1, CallsHandled DEF Dispatch, Serves, Consume, Handled, asyncVars
<1>2. ASSUME NEW c \in AsyncCalls, DispatchAsync(c) PROVE CallInv'
  <2>1. c \in Calls /\ \A d \in AsyncCalls : worker'[d] = worker[d] \/ d = c
    BY <1>2 DEF DispatchAsync, Types, ServerType
  <2> QED BY <1>0, <1>2, <2>1, CallsHandled DEF DispatchAsync, Serves, Consume, Handled
<1>3. ASSUME NEW c \in AsyncCalls, LookForResponder(c) PROVE CallInv'
  <2>1. c \in Calls /\ handled[c] = 1
        /\ \A d \in AsyncCalls : worker'[d] # "none" => worker[d] # "none"
    BY <1>3 DEF LookForResponder, CallInv, Types, ServerType
  <2>2. \A i \in DOMAIN responses' :
          responses'[i].call = c \/ \E j \in DOMAIN responses : responses'[i] = responses[j]
    BY <1>3, <2>1, RespondAnswers DEF LookForResponder
  <2> QED BY <1>0, <1>3, <2>1, <2>2, CallsAnswered DEF LookForResponder
<1>4. ASSUME NEW c \in AsyncCalls, StoreResult(c) PROVE CallInv'
  <2>1. c \in Calls /\ handled[c] = 1
        /\ \A d \in AsyncCalls : worker'[d] # "none" => worker[d] # "none"
    BY <1>4 DEF StoreResult, CallInv, Types, ServerType
  <2> QED BY <1>0, <1>4, <2>1, CallsAnswered DEF StoreResult, wireVars
<1>5. CASE CheckResult
  <2>1. CASE dispatching \in result
    <3>1. dispatching \in Calls /\ dispatching # Nothing
      BY <2>1 DEF Types, ServerType, Nothing
    <3>2. handled[dispatching] = 1
      BY <3>1 DEF CallInv
    <3>3. \A i \in DOMAIN responses' : responses'[i].call = dispatching
            \/ \E j \in DOMAIN responses : responses'[i] = responses[j]
      BY <1>5, <2>1, <3>1, RespondAnswers DEF CheckResult
    <3> QED BY <1>0, <1>5, <3>1, <3>2, <3>3, CallsAnswered DEF CheckResult
  <2>2. CASE dispatching \notin result
    <3>1. dispatching' = Nothing /\ UNCHANGED <<requests, responses, handled, worker,
                                                pending, future>>
      BY <1>0, <1>5, <2>2 DEF CheckResult, clientVars, sendVars, sessionVars
    <3> QED BY <3>1 DEF CallInv, UnderWay, Contains
  <2> QED BY <2>1, <2>2
<1>6. CASE StoreResponder \/ Stop
  BY <1>0, <1>6 DEF StoreResponder, Stop, CallInv, UnderWay, Contains, clientVars, sendVars,
       sessionVars, asyncVars, wireVars
<1>7. CASE OnNotify
  <2>1. /\ requests \in Seq(Messages) /\ requests # <<>> /\ requests' = Tail(requests)
        /\ UNCHANGED <<pending, future, responses, handled, dispatching, worker>>
    BY <1>0, <1>7 DEF OnNotify, Serves, Types, WireType, clientVars, sendVars, sessionVars,
         serverVars, asyncVars
  <2>2. /\ \A x : Contains(requests', x) => Contains(requests, x)
        /\ CallsOnce(requests')
    BY <2>1, TailOnce DEF CallInv
  <2>3. \A x : Contains(pending', x) <=> Contains(pending, x)
    BY <2>1
  <2> QED BY <2>1, <2>2, <2>3 DEF CallInv, UnderWay
<1> QED BY <1>0, <1>1, <1>2, <1>3, <1>4, <1>5, <1>6, <1>7 DEF ServerNext

LEMMA StepCalls == Types /\ CallInv /\ [Next]_vars => CallInv'
<1> SUFFICES ASSUME Types, CallInv, [Next]_vars PROVE CallInv'
  OBVIOUS
<1>0. Made
  BY StepMade
<1>1. CASE LinkBreaks /\ UNCHANGED <<clientVars, serverVars>>
  <2>1. /\ requests' \in {requests, <<>>} /\ responses' \in {responses, <<>>}
        /\ UNCHANGED <<pending, serverVars>>
    BY <1>1 DEF LinkBreaks, clientVars, sendVars
  <2> QED BY <1>0, <2>1, CallsLess
<1>2. CASE UNCHANGED vars
  <2>1. UNCHANGED <<requests, responses, pending, serverVars>>
    BY <1>2 DEF vars, wireVars, clientVars, sendVars
  <2> QED BY <1>0, <2>1, CallsLess
<1> QED BY <1>0, <1>1, <1>2, CallsClient, CallsServer DEF Next, ClientStep

LEMMA InitCalls == Init => CallInv
BY DEF Init, WireInit, ClientInit, ServerInit, CallInv, CallsOnce, UnderWay, Contains

RefinesInv == Types /\ FutureKept /\ CallInv

\* The phases that the refinement mapping gives the calls whose Futures are f.
Phases(f) == [c \in Calls |-> CASE f[c] = "none" -> "idle"
                               [] f[c] \in {"unset", "raised"} -> "open"
                               [] f[c] = "result" -> "ok"
                               [] f[c] = "error" -> "fault"
                               [] f[c] = "timeout" -> "timeout"
                               [] f[c] = "transport" -> "final_fail"]

PhaseOf(x) == IF x = "none" THEN "idle"
              ELSE IF x \in {"unset", "raised"} THEN "open"
              ELSE IF x = "result" THEN "ok"
              ELSE IF x = "error" THEN "fault"
              ELSE IF x = "timeout" THEN "timeout"
              ELSE "final_fail"

LEMMA PhasesAre ==
  ASSUME NEW f \in [Calls -> {"none", "unset", "raised"} \cup Outcomes]
  PROVE  Phases(f) = [c \in Calls |-> PhaseOf(f[c])]
<1> SUFFICES ASSUME NEW c \in Calls PROVE Phases(f)[c] = PhaseOf(f[c])
  BY DEF Phases
<1>1. f[c] \in {"none", "unset", "raised"} \cup Outcomes
  OBVIOUS
<1> QED BY <1>1 DEF Phases, PhaseOf, Outcomes

LEMMA PhaseIs ==
  Types => /\ future \in [Calls -> {"none", "unset", "raised"} \cup Outcomes]
           /\ Phases(future) = [c \in Calls |-> PhaseOf(future[c])]
BY PhasesAre DEF Types, ClientType

LEMMA InitRefines == Init => RPC!Init
<1> SUFFICES ASSUME Init PROVE RPC!Init
  OBVIOUS
<1>1. future = [c \in Calls |-> "none"] /\ handled = [c \in Calls |-> 0]
  BY DEF Init, ClientInit, ServerInit
<1>2. Phases(future) = [c \in Calls |-> "idle"]
  BY <1>1 DEF Phases
<1> QED BY <1>1, <1>2 DEF RPC!Init, Phases

\* A Future is set: that call is answered, or several calls are given up.
LEMMA RefinesSet ==
  ASSUME RefinesInv, Types', UNCHANGED handled, NEW S \in SUBSET table,
         NEW r \in {"timeout", "transport"}, future' = SetFutures(S, r)
  PROVE  RPC!Next
<1> DEFINE q == PhaseOf(r)
<1>1. q \in {"timeout", "final_fail"}
  BY DEF PhaseOf
<1>2. \A c \in S : Phases(future)[c] = "open"
  BY PhaseIs DEF RefinesInv, FutureKept, PhaseOf, Types, ClientType
<1>3. Phases(future') = [c \in Calls |-> IF c \in S THEN q ELSE Phases(future)[c]]
  <2>1. Phases(future') = [c \in Calls |-> PhaseOf(future'[c])]
    BY PhasesAre DEF Types, ClientType
  <2>2. \A c \in Calls : future'[c] = IF c \in S THEN r ELSE future[c]
    BY DEF SetFutures
  <2>3. Phases(future) = [c \in Calls |-> PhaseOf(future[c])]
    BY PhaseIs DEF RefinesInv
  <2> QED BY <2>1, <2>2, <2>3
<1>4. S \in SUBSET Calls
  BY DEF RefinesInv, Types, ClientType
<1> HIDE DEF q
<1>5. RPC!GiveUp(S, q)
  BY <1>2, <1>3 DEF RPC!GiveUp, Phases
<1> QED BY <1>1, <1>4, <1>5 DEF RPC!Next, RPC!GivenUp

LEMMA RefinesStutter ==
  ASSUME UNCHANGED <<future, handled>>
  PROVE  UNCHANGED RPC!vars
BY DEF RPC!vars

LEMMA RefinesSend ==
  ASSUME RefinesInv, Types', NEW c \in Calls, SendRequest(c), UNCHANGED serverVars
  PROVE  RPC!Next
<1>1. future[c] = "none" /\ handled' = handled
  BY DEF SendRequest, serverVars
<1>2. PICK r \in {"unset", "raised"} : future' = [future EXCEPT ![c] = r]
  BY DEF SendRequest
<1>3. Phases(future) = [d \in Calls |-> PhaseOf(future[d])]
      /\ Phases(future') = [d \in Calls |-> PhaseOf(future'[d])]
  BY PhaseIs, PhasesAre DEF RefinesInv, Types, ClientType
<1>4. Phases(future)[c] = "idle"
  BY <1>1, <1>3 DEF PhaseOf
<1>5. Phases(future') = [Phases(future) EXCEPT ![c] = "open"]
  <2>1. \A d \in Calls : future'[d] = IF d = c THEN r ELSE future[d]
    BY <1>2 DEF RefinesInv, Types, ClientType
  <2>2. PhaseOf(r) = "open"
    BY DEF PhaseOf
  <2> QED BY <1>3, <2>1, <2>2
<1>6. RPC!Issue(c)
  BY <1>1, <1>4, <1>5 DEF RPC!Issue, Phases
<1> QED BY <1>6 DEF RPC!Next

LEMMA RefinesResponse ==
  ASSUME RefinesInv, Types', OnResponse, UNCHANGED serverVars
  PROVE  RPC!Next \/ UNCHANGED RPC!vars
<1> DEFINE r == Head(responses)
<1>0. handled' = handled
  BY DEF serverVars
<1>1. CASE r.call \notin table
  <2>1. UNCHANGED future
    BY <1>1 DEF OnResponse
  <2> QED BY <1>0, <2>1, RefinesStutter
<1>2. CASE r.call \in table
  <2>1. r \in Answers /\ 1 \in DOMAIN responses /\ r = responses[1]
    BY FirstAndRest DEF OnResponse, RefinesInv, Types, WireType
  <2>2. PICK c \in Calls, k \in {"result", "error"} : r.call = c /\ r.carries = k
    BY <2>1 DEF Answers
  <2>3. handled[c] = 1
    BY <2>1, <2>2 DEF RefinesInv, CallInv
  <2>4. future' = SetFutures({c}, k)
    BY <1>2, <2>2 DEF OnResponse
  <2>5. Phases(future) = [d \in Calls |-> PhaseOf(future[d])]
        /\ Phases(future') = [d \in Calls |-> PhaseOf(future'[d])]
    BY PhaseIs, PhasesAre DEF RefinesInv, Types, ClientType
  <2>6. Phases(future)[c] = "open"
    <3>1. future[c] \in {"unset", "raised"}
      BY <1>2, <2>2 DEF RefinesInv, FutureKept
    <3> QED BY <2>5, <3>1 DEF PhaseOf
  <2> DEFINE q == PhaseOf(k)
  <2>7. q \in {"ok", "fault"}
    BY DEF PhaseOf
  <2>8. Phases(future') = [Phases(future) EXCEPT ![c] = q]
    <3>1. \A d \in Calls : future'[d] = IF d = c THEN k ELSE future[d]
      BY <2>4 DEF SetFutures
    <3> QED BY <2>5, <3>1
  <2> HIDE DEF q
  <2>9. RPC!Answer(c, q)
    BY <1>0, <2>3, <2>6, <2>8 DEF RPC!Answer, Phases
  <2> QED BY <2>7, <2>9 DEF RPC!Next, RPC!Answered
<1> QED BY <1>1, <1>2

LEMMA RefinesHandled ==
  ASSUME RefinesInv, UNCHANGED clientVars, NEW c \in Calls, Serves, Head(requests) = c,
         Handled(c)
  PROVE  RPC!Next
<1>1. requests \in Seq(Messages) /\ requests # <<>> /\ handled \in [Calls -> Nat]
  BY DEF Serves, RefinesInv, Types, WireType, ServerType
<1> HIDE DEF Messages
<1>2. Contains(requests, c)
  BY <1>1, TailOnce
<1>3. handled[c] = 0 /\ future[c] # "none"
  BY <1>2 DEF RefinesInv, CallInv, UnderWay
<1>4. handled' = [handled EXCEPT ![c] = 1] /\ future' = future
  BY <1>1, <1>3 DEF Handled, clientVars, sessionVars
<1>5. Phases(future)[c] # "idle"
  BY <1>3, PhaseIs DEF RefinesInv, PhaseOf
<1>6. Phases(future') = Phases(future)
  BY <1>4
<1>7. RPC!Deliver(c)
  BY <1>3, <1>4, <1>5, <1>6, Zenon DEF RPC!Deliver, Phases
<1> QED BY <1>7 DEF RPC!Next

LEMMA StepRefines ==
  RefinesInv /\ [Next]_vars => [RPC!Next]_RPC!vars
<1> SUFFICES ASSUME RefinesInv, [Next]_vars PROVE RPC!Next \/ UNCHANGED RPC!vars
  OBVIOUS
<1>0. Types'
  BY StepType DEF RefinesInv
<1>1. CASE UNCHANGED <<future, handled>>
  BY <1>1, RefinesStutter
<1>2. CASE OfClient(ClientNext)
  <2>0. UNCHANGED serverVars /\ handled' = handled
    BY <1>2 DEF OfClient, serverVars
  <2>1. ASSUME NEW c \in Calls, SendRequest(c) PROVE RPC!Next
    BY <1>0, <2>0, <2>1, RefinesSend
  <2>2. CASE OnResponse
    BY <1>0, <2>0, <2>2, RefinesResponse
  <2>3. CASE StepTimeout
    <3>1. future' = SetFutures(Due, "timeout") /\ Due \in SUBSET table
      BY <2>3 DEF StepTimeout, Due
    <3> QED BY <1>0, <2>0, <3>1, RefinesSet
  <2>4. CASE ConnectFails
    <3>1. CASE GiveUp
      <4>1. future' = SetFutures(table, "transport")
        BY <3>1 DEF GiveUp
      <4> QED BY <1>0, <2>0, <4>1, RefinesSet
    <3> QED BY <1>1, <2>0, <2>4, <3>1 DEF ConnectFails, sessionVars
  <2>5. CASE UNCHANGED future
    BY <1>1, <2>0, <2>5
  <2> QED BY <1>2, <2>1, <2>2, <2>3, <2>4, <2>5
       DEF OfClient, ClientNext, Join, Notify, WriteCallback, Close, LoopReturns, OnConnect,
           OnClose, clientVars, sessionVars
<1>3. CASE OfServer(ServerNext)
  <2>0. UNCHANGED clientVars /\ future' = future
    BY <1>3 DEF OfServer, clientVars, sessionVars
  <2>1. ASSUME NEW c \in Calls, Dispatch(c) \/ (c \in AsyncCalls /\ DispatchAsync(c))
        PROVE  RPC!Next
    BY <2>0, <2>1, RefinesHandled DEF Dispatch, DispatchAsync
  <2>2. CASE UNCHANGED handled
    BY <1>1, <2>0, <2>2
  <2>3. ASSUME NEW c \in AsyncCalls PROVE c \in Calls
    OBVIOUS
  <2> QED BY <1>3, <2>1, <2>2, <2>3
       DEF OfServer, ServerNext, LookForResponder, StoreResult, StoreResponder, CheckResult,
           OnNotify, Stop, serverVars
<1>4. CASE UNCHANGED <<clientVars, serverVars>>
  BY <1>1, <1>4 DEF clientVars, sessionVars, serverVars
<1> QED BY <1>2, <1>3, <1>4 DEF Next, ClientStep, vars

\* A Python client and server keep the promise of RpcCall: a request is handled
\* once at most, and its Future set once, by an answer only if it was handled.
THEOREM ImplementsCorrect == Spec => ImplementsRpcCall
<1>1. Types /\ CallInv /\ [Next]_vars => CallInv'
  BY StepCalls
<1>2. Types /\ FutureKept /\ CallInv => RefinesInv
  BY DEF RefinesInv
<1>3. Init => CallInv
  BY InitCalls
<1>4. Spec => []CallInv
  BY <1>1, <1>3, TypesInvariant, PTL DEF Spec
<1> QED BY <1>2, <1>4, FutureKeptCorrect, TypesInvariant, InitRefines, StepRefines, PTL
     DEF Spec, ImplementsRpcCall, RPC!Spec


=============================================================================
