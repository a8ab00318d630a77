------------------------------ MODULE EndPoint ------------------------------
(***************************************************************************)
(* The asynchronous client endpoint: EndPoint and TcpEndPoint over         *)
(* TcpClientTransport.  Application threads issue calls; one I/O thread    *)
(* runs the libuv loop that owns the connection, writes the queued         *)
(* packets, receives the answers, and from a 100 ms timer times calls out, *)
(* fails them for good, and reconnects.                                    *)
(*                                                                         *)
(* A step is what one thread does between two points where another thread  *)
(* can see the difference: callers take separate steps to enter the        *)
(* pending table, to queue the packet and to signal the loop; the I/O      *)
(* thread runs one loop callback at a time, and a callback that releases a *)
(* lock part-way (the asynchronous send, the final failure, a result) is   *)
(* split there, ioPc telling which callback is running.                    *)
(*                                                                         *)
(* Time is abstract: Expire(c) is the moment the time-out of c has passed, *)
(* RetryDue the moment the back-off delay has.                             *)
(***************************************************************************)
EXTENDS Integers, Sequences, FiniteSets

CONSTANTS
  Calls,               \* session ids, drawn from CIdGenerator (1, 2, ...)
  Events,              \* those with a void result: fired events, void methods
  MaxTry,              \* m_maxTryCount
  MaxFaults,           \* bound: failures the network or the peer may cause
  SyncConnectMayFail,  \* may a libuv call inside Connect fail at once?
  SyncWriteMayFail,    \* may uv_write fail at once? (only HTTP framing: its
                       \* Send copies the payload and can be tried again)
  UseAuth              \* is SetAuth called (RegisterApi does; an application
                       \* that creates the endpoint itself does not)

ASSUME CallsAssumption ==
  Calls \subseteq Nat \ {0} /\ IsFiniteSet(Calls) /\ Events \subseteq Calls

ASSUME BoundsAssumption == MaxTry \in Nat \ {0} /\ MaxFaults \in Nat

ASSUME FlagsAssumption ==
  {SyncConnectMayFail, SyncWriteMayFail, UseAuth} \subseteq BOOLEAN

Methods  == Calls \ Events
Auth     == 0                  \* an EPT_AUTH packet; session ids start at 1
Packets  == Calls \cup {Auth}
Outcomes == {"unknown", "ok", "fault", "timeout", "final_fail"}

VARIABLES
  (* the connection, owned by the I/O thread *)
  status,     \* m_connectStatu; CS_FAIL never outlives the callback that sets it
  handle,     \* m_tcp as libuv sees it: "none", "open", "closing", "closed"
  connReq,    \* is a connect request outstanding?
  writing,    \* is a write request outstanding?
  onWire,     \* packets written on this connection, not answered yet
  retry,      \* m_nextTryTime: "unset" (-1), "waiting", "due"
  tryCount,   \* m_tryCount, also reset by application threads
  faults,     \* failures caused so far
  (* authentication *)
  appId,      \* is m_appId set (not -1)?
  authSeen,   \* progress of SetAuth: "unread", "no", "early" (read before the
              \* identity was visible), "yes", "pushed", "done"
  (* the calls *)
  pc,         \* the thread of each call: "idle", "registered", "pushed", "done"
  pending,    \* keys of m_pendingResult
  expired,    \* calls whose time-out has passed
  outcome,    \* m_errorNo of each method result
  (* the task list and the loop *)
  taskList,   \* m_taskList
  signalled,  \* has m_asyncHandle been sent and not served?
  ioPc,       \* callback being run: "boot", "loop", "async", "settle"
  batch,      \* clone_request, what is left of it
  retries,    \* retry_request
  held,       \* results taken out of the table and not completed yet
  verdict,    \* what they are about to be completed with
  (* history *)
  pushed,     \* calls in the order they entered m_taskList
  sent        \* calls in the order uv_write took them, over all connections

connVars == <<status, handle, connReq, writing, onWire, retry>>
failVars == <<tryCount, faults>>
authVars == <<appId, authSeen>>
callVars == <<pc, pending, expired, outcome>>
loopVars == <<taskList, signalled, ioPc, batch, retries, held, verdict>>
histVars == <<pushed, sent>>
vars == <<connVars, failVars, authVars, callVars, loopVars, histVars>>

Init ==
  /\ status = "INIT" /\ handle = "none" /\ connReq = FALSE
  /\ writing = FALSE /\ onWire = {} /\ retry = "unset"
  /\ tryCount = 0 /\ faults = 0
  /\ appId = FALSE /\ authSeen = "unread"
  /\ pc = [c \in Calls |-> "idle"]
  /\ pending = {} /\ expired = Events
  /\ outcome = [c \in Methods |-> "unknown"]
  /\ taskList = <<>> /\ signalled = FALSE /\ ioPc = "boot"
  /\ batch = <<>> /\ retries = <<>> /\ held = {} /\ verdict = "unknown"
  /\ pushed = <<>> /\ sent = <<>>

-----------------------------------------------------------------------------
(* The connection.                                                         *)

\* Mutant: one attempt too many.
FinalFailedLate == tryCount > MaxTry

FinalFailed == tryCount >= MaxTry

Fault == faults < MaxFaults /\ faults' = faults + 1

\* TcpClientTransport::Close: a no-op once CLOSED, else uv_close.
Close ==
  IF status = "CLOSED"
  THEN UNCHANGED <<status, handle, onWire>>
  ELSE status' = "CLOSED" /\ handle' = "closing" /\ onWire' = {}

\* TcpClientTransport::Connect and its early returns: uv_tcp_connect accepts
\* the request, refuses it after the status has become CONNECTING, or an
\* earlier libuv call fails and nothing has changed.
Connect ==
  \/ status' = "CONNECTING" /\ handle' = "open" /\ connReq' = TRUE
  \/ /\ SyncConnectMayFail
     /\ status' = "CONNECTING" /\ handle' = "open" /\ connReq' = FALSE
  \/ SyncConnectMayFail /\ UNCHANGED <<status, handle, connReq>>

ChannelNeeded == status \in {"CLOSED", "INIT"}

CreateChannel ==
  /\ retry' = "unset"
  /\ IF ChannelNeeded
     THEN Connect
     ELSE UNCHANGED <<status, handle, connReq>>

\* EndPoint::_DoWork up to uv_run.  Init() waits for it, so no call is made
\* through the endpoint before.
Boot ==
  /\ ioPc = "boot"
  /\ ioPc' = "loop"
  /\ CreateChannel
  /\ UNCHANGED <<writing, onWire, failVars, authVars, callVars, histVars,
                 taskList, signalled, batch, retries, held, verdict>>

\* Mutant: once SetAuth has sent the authentication, it is not sent again.
AuthOnConnectOnce == appId /\ authSeen # "done"

\* TrySendAuth, from OnConnected.
AuthOnConnect == appId

\* _OnConnected with status 0; OnConnected(true) queues the authentication.
ConnectSucceeds ==
  /\ ioPc = "loop" /\ connReq
  /\ connReq' = FALSE /\ status' = "CONNECTED"
  /\ IF AuthOnConnect
     THEN taskList' = Append(taskList, Auth) /\ signalled' = TRUE
     ELSE UNCHANGED <<taskList, signalled>>
  /\ UNCHANGED <<handle, writing, onWire, retry, failVars, authVars, callVars,
                 histVars, ioPc, batch, retries, held, verdict>>

\* _OnConnected with an error: CS_FAIL, then OnConnected(false) closes.
ConnectFails ==
  /\ ioPc = "loop" /\ connReq
  /\ Fault
  /\ connReq' = FALSE
  /\ Close
  /\ UNCHANGED <<writing, retry, tryCount, authVars, callVars, loopVars,
                 histVars>>

\* OnRead with an error or end of file.
PeerCloses ==
  /\ ioPc = "loop" /\ status = "CONNECTED"
  /\ Fault
  /\ Close
  /\ UNCHANGED <<connReq, writing, retry, tryCount, authVars, callVars,
                 loopVars, histVars>>

WriteSucceeds ==
  /\ ioPc = "loop" /\ writing /\ status = "CONNECTED"
  /\ writing' = FALSE
  /\ UNCHANGED <<status, handle, connReq, onWire, retry, failVars, authVars,
                 callVars, loopVars, histVars>>

\* write_cb with an error; other writes may still be outstanding.
WriteFails ==
  /\ ioPc = "loop" /\ writing /\ status = "CONNECTED"
  /\ Fault
  /\ writing' \in BOOLEAN
  /\ Close
  /\ UNCHANGED <<connReq, retry, tryCount, authVars, callVars, loopVars,
                 histVars>>

\* write_cb with UV_ECANCELED for what uv_close found outstanding; it too
\* calls Close.
WriteCancelled ==
  /\ ioPc = "loop" /\ writing /\ handle = "closing"
  /\ writing' = FALSE
  /\ Close
  /\ UNCHANGED <<connReq, retry, failVars, authVars, callVars, loopVars,
                 histVars>>

\* close_cb and TcpEndPoint::OnAfterClose.  libuv has run the callbacks of
\* the cancelled writes before.
OnAfterClose ==
  /\ ioPc = "loop" /\ handle = "closing" /\ ~writing
  /\ handle' = "closed"
  /\ retry' = "waiting"
  /\ tryCount' = tryCount + 1
  /\ UNCHANGED <<status, connReq, writing, onWire, faults, authVars, callVars,
                 loopVars, histVars>>

RetryDue ==
  /\ retry = "waiting"
  /\ retry' = "due"
  /\ UNCHANGED <<status, handle, connReq, writing, onWire, failVars, authVars,
                 callVars, loopVars, histVars>>

\* EndPointManager::IsAllEndpointReady, from an application thread.
ResetFail ==
  /\ ioPc # "boot" /\ status # "CONNECTED"
  /\ tryCount' = 0
  /\ UNCHANGED <<connVars, faults, authVars, callVars, loopVars, histVars>>

-----------------------------------------------------------------------------
(* Application threads.                                                    *)

\* EndPoint::Call<R>, under m_resultMutex: enter the pending table.
Register(c) ==
  /\ ioPc # "boot" /\ pc[c] = "idle"
  /\ pc' = [pc EXCEPT ![c] = "registered"]
  /\ pending' = pending \cup {c}
  /\ UNCHANGED <<connVars, failVars, authVars, expired, outcome, loopVars,
                 histVars>>

Push(c) ==
  /\ pc[c] = "registered"
  /\ pc' = [pc EXCEPT ![c] = "pushed"]
  /\ taskList' = Append(taskList, c)
  /\ pushed' = Append(pushed, c)
  /\ UNCHANGED <<connVars, failVars, authVars, pending, expired, outcome,
                 signalled, ioPc, batch, retries, held, verdict, sent>>

Signal(c) ==
  /\ pc[c] = "pushed"
  /\ pc' = [pc EXCEPT ![c] = "done"]
  /\ signalled' = TRUE
  /\ UNCHANGED <<connVars, failVars, authVars, pending, expired, outcome,
                 taskList, ioPc, batch, retries, held, verdict, histVars>>

\* The call is older than its time-out (3000 ms, or SetTimeoutValue).
Expire(c) ==
  /\ pc[c] # "idle" /\ c \notin expired
  /\ expired' = expired \cup {c}
  /\ UNCHANGED <<connVars, failVars, authVars, pc, pending, outcome, loopVars,
                 histVars>>

\* TcpEndPoint::SetAuth, from an application thread.  m_appId and the status
\* are plain variables of two threads: the store of the identity may become
\* visible after the status has been read.  SetAuth stores the identity ...
StoreAppId ==
  /\ UseAuth /\ ioPc # "boot" /\ ~appId
  /\ appId' = TRUE
  /\ UNCHANGED <<connVars, failVars, authSeen, callVars, loopVars, histVars>>

\* ... read the status in TrySendAuth ...
LoadStatus ==
  /\ UseAuth /\ ioPc # "boot" /\ authSeen = "unread"
  /\ authSeen' = IF status = "CONNECTED" THEN "yes"
                 ELSE IF appId THEN "no" ELSE "early"
  /\ UNCHANGED <<connVars, failVars, appId, callVars, loopVars, histVars>>

\* ... and if connected queue the authentication and signal the loop.
PushAuth ==
  /\ authSeen = "yes" /\ appId
  /\ authSeen' = "pushed"
  /\ taskList' = Append(taskList, Auth)
  /\ UNCHANGED <<connVars, failVars, appId, callVars, signalled, ioPc, batch,
                 retries, held, verdict, histVars>>

SignalAuth ==
  /\ authSeen = "pushed"
  /\ authSeen' = "done"
  /\ signalled' = TRUE
  /\ UNCHANGED <<connVars, failVars, appId, callVars, taskList, ioPc, batch,
                 retries, held, verdict, histVars>>

-----------------------------------------------------------------------------
(* The I/O thread: EndPoint::_OnAsyncWork.                                 *)

\* Mutant: the list is copied and not cleared.
ListAfterClone == taskList

\* ThreadSafeList::clone empties the list under the lock.
ClonedList == <<>>

\* libuv clears the signal before it runs the callback, which takes the
\* whole list.
AsyncBegin ==
  /\ ioPc = "loop" /\ signalled
  /\ ioPc' = "async"
  /\ signalled' = FALSE
  /\ batch' = taskList
  /\ taskList' = ClonedList
  /\ UNCHANGED <<connVars, failVars, authVars, callVars, histVars, retries,
                 held, verdict>>

CanWrite == status = "CONNECTED"

\* DoTask, its four ways out: the packet is dropped, kept for later, written,
\* or refused by uv_write, which closes the connection and keeps the packet.
DropTask ==
  /\ FinalFailed
  /\ UNCHANGED <<connVars, failVars, retries, sent>>

RetryTask(p) ==
  /\ ~FinalFailed /\ ~CanWrite
  /\ retries' = Append(retries, p)
  /\ UNCHANGED <<connVars, failVars, sent>>

WriteTask(p) ==
  /\ ~FinalFailed /\ CanWrite
  /\ writing' = TRUE
  /\ onWire' = onWire \cup {p}
  /\ sent' = IF p = Auth THEN sent ELSE Append(sent, p)
  /\ UNCHANGED <<status, handle, connReq, retry, failVars, retries>>

RefuseTask(p) ==
  /\ SyncWriteMayFail
  /\ ~FinalFailed /\ CanWrite
  /\ Fault
  /\ Close
  /\ retries' = Append(retries, p)
  /\ UNCHANGED <<connReq, writing, retry, tryCount, sent>>

DoTask(p) == DropTask \/ RetryTask(p) \/ WriteTask(p) \/ RefuseTask(p)

AsyncTask ==
  /\ ioPc = "async" /\ batch # <<>>
  /\ DoTask(Head(batch))
  /\ batch' = Tail(batch)
  /\ UNCHANGED <<authVars, callVars, taskList, signalled, ioPc, held, verdict,
                 pushed>>

\* Mutant: what was queued meanwhile is overwritten.
PutBackOnly == retries

\* Mutant: retries go to the back.
PutBackLast == taskList \o retries

PutBack == retries \o taskList

\* Mutant: a signal sent during the callback is forgotten.
SignalReset == retries # <<>>

\* Mutant: the loop does not signal itself.
SignalKept == signalled

SignalAfter == signalled \/ retries # <<>>

\* What could not be sent goes back in front of what was queued meanwhile,
\* and the loop signals itself to try again.
AsyncEnd ==
  /\ ioPc = "async" /\ batch = <<>>
  /\ ioPc' = "loop"
  /\ taskList' = PutBack
  /\ retries' = <<>>
  /\ signalled' = SignalAfter
  /\ UNCHANGED <<connVars, failVars, authVars, callVars, histVars, batch, held,
                 verdict>>

-----------------------------------------------------------------------------
(* The I/O thread: answers.                                                *)

\* A void method is answered by a bare header, which completes nothing.  (The
\* server does not answer a fired event.)
Answers(c) == IF c \in Events THEN {"unknown"} ELSE {"ok", "fault"}

\* Mutant: the result stays in the table.
NotErased(c) == pending

Erased(c) == pending \ {c}

\* OnProcessResult and OnCallResult up to the unlock: any packet clears the
\* failure count; an answer to a call that is not pending is ignored.
OnCallResult(c) ==
  /\ ioPc = "loop" /\ status = "CONNECTED" /\ c \in onWire
  /\ onWire' = onWire \ {c}
  /\ tryCount' = 0
  /\ IF c \in pending
     THEN /\ pending' = Erased(c)
          /\ held' = {c}
          /\ verdict' \in Answers(c)
          /\ ioPc' = "settle"
     ELSE UNCHANGED <<pending, held, verdict, ioPc>>
  /\ UNCHANGED <<status, handle, connReq, writing, retry, faults, authVars, pc,
                 expired, outcome, taskList, signalled, batch, retries,
                 histVars>>

\* Any other packet: an event pushed by the peer, the header with session 0
\* it sends before it closes.
OnOtherPacket ==
  /\ ioPc = "loop" /\ status = "CONNECTED"
  /\ tryCount' = 0
  /\ UNCHANGED <<connVars, faults, authVars, callVars, loopVars, histVars>>

\* A packet that OnProcessResult or the subscriber table rejects: OnRead
\* closes the connection.
OnRejectedPacket ==
  /\ ioPc = "loop" /\ status = "CONNECTED"
  /\ Fault
  /\ tryCount' = 0
  /\ Close
  /\ UNCHANGED <<connReq, writing, retry, authVars, callVars, loopVars,
                 histVars>>

-----------------------------------------------------------------------------
(* The I/O thread: the timer.                                              *)

\* TRpcCallResult<T>::IsTimeouted; a void result always is.
IsTimeouted(c) == c \in Events \/ (outcome[c] = "unknown" /\ c \in expired)

\* Mutant: no time-outs while disconnected.
TimedOutConnected ==
  {c \in pending : CanWrite /\ \A d \in pending : d <= c => IsTimeouted(d)}

\* CheckCallTimeout walks the table in key order and stops at the first
\* entry that is not timed out.
TimedOut == {c \in pending : \A d \in pending : d <= c => IsTimeouted(d)}

\* Mutant: the entry at which the scan stops is erased too.
UnexpiredAfterStop == {c \in pending : \E d \in pending \ TimedOut : d < c}

Unexpired == pending \ TimedOut

\* Mutant: no attempt is made for its own sake.
ReconnectForCalls == retry = "due" /\ pending # {}

\* Mutant: the time of the next attempt is not looked at.
ReconnectAtOnce == status = "CLOSED"

ReconnectIsDue == retry = "due"

ReConnectIfNecessary ==
  IF ReconnectIsDue
  THEN CreateChannel
  ELSE UNCHANGED <<status, handle, connReq, retry>>

\* _OnTimerLong while there are attempts left.
OnTimer ==
  /\ ioPc = "loop" /\ ~FinalFailed
  /\ pending' = Unexpired
  /\ outcome' = [c \in Methods |-> IF c \in TimedOut THEN "timeout"
                                                     ELSE outcome[c]]
  /\ ReConnectIfNecessary
  /\ UNCHANGED <<writing, onWire, failVars, authVars, pc, expired, loopVars,
                 histVars>>

\* OnFinalFailed up to the unlock: clone and clear the table.
OnFinalFailed ==
  /\ ioPc = "loop" /\ FinalFailed /\ pending # {}
  /\ held' = pending
  /\ pending' = {}
  /\ verdict' = "final_fail"
  /\ ioPc' = "settle"
  /\ UNCHANGED <<connVars, failVars, authVars, pc, expired, outcome, taskList,
                 signalled, batch, retries, histVars>>

\* SetResult or SetException on a result taken out of the table, in key order;
\* either refuses a result that is complete.
Settle(c) ==
  /\ ioPc = "settle" /\ c \in held /\ \A d \in held : c <= d
  /\ held' = held \ {c}
  /\ ioPc' = IF held = {c} THEN "loop" ELSE "settle"
  /\ outcome' = [d \in Methods |-> IF d = c /\ outcome[d] = "unknown"
                                  THEN verdict ELSE outcome[d]]
  /\ UNCHANGED <<connVars, failVars, authVars, pc, pending, expired, taskList,
                 signalled, batch, retries, verdict, histVars>>

-----------------------------------------------------------------------------
Caller == \/ ResetFail \/ StoreAppId \/ LoadStatus \/ PushAuth \/ SignalAuth
          \/ \E c \in Calls : Register(c) \/ Push(c) \/ Signal(c)

Clock == RetryDue \/ \E c \in Calls : Expire(c)

Link == \/ ConnectSucceeds \/ ConnectFails \/ PeerCloses
        \/ WriteSucceeds \/ WriteFails \/ WriteCancelled \/ OnAfterClose

Packet == OnOtherPacket \/ OnRejectedPacket \/ \E c \in Calls : OnCallResult(c)

Work == \/ Boot \/ AsyncBegin \/ AsyncTask \/ AsyncEnd
        \/ OnTimer \/ OnFinalFailed \/ \E c \in Calls : Settle(c)

Next == Caller \/ Clock \/ Link \/ Packet \/ Work

Spec == Init /\ [][Next]_vars

\* A thread that has started a call or SetAuth goes on.  Deadlines pass.  A
\* callback that runs finishes (weak fairness).  An iteration of the libuv
\* loop runs the timer that is due, every signalled or ready callback and
\* every pending close, so that none of them is passed over for ever by a
\* loop that keeps signalling itself (strong fairness).  A connect request is
\* answered.  Nothing is assumed of the peer or of callers that have not
\* started.
Fairness ==
  /\ \A c \in Calls : WF_vars(Push(c)) /\ WF_vars(Signal(c)) /\ WF_vars(Expire(c))
  /\ WF_vars(PushAuth) /\ WF_vars(SignalAuth)
  /\ WF_vars(RetryDue)
  /\ WF_vars(Boot \/ AsyncTask \/ AsyncEnd \/ \E c \in Calls : Settle(c))
  /\ SF_vars(AsyncBegin)
  /\ SF_vars(OnTimer) /\ SF_vars(OnFinalFailed)
  /\ SF_vars(ConnectSucceeds \/ ConnectFails)
  /\ SF_vars(WriteCancelled) /\ SF_vars(OnAfterClose)

FairSpec == Spec /\ Fairness

-----------------------------------------------------------------------------
(* Properties.                                                             *)

\* The variables of the endpoint keep their types.
TypeOK ==
  /\ status \in {"INIT", "CONNECTING", "CONNECTED", "CLOSED"}
  /\ handle \in {"none", "open", "closing", "closed"}
  /\ connReq \in BOOLEAN /\ writing \in BOOLEAN
  /\ onWire \subseteq Packets
  /\ retry \in {"unset", "waiting", "due"}
  /\ tryCount \in 0..MaxTry /\ faults \in 0..MaxFaults
  /\ appId \in BOOLEAN
  /\ authSeen \in {"unread", "no", "early", "yes", "pushed", "done"}
  /\ pc \in [Calls -> {"idle", "registered", "pushed", "done"}]
  /\ pending \subseteq Calls /\ expired \subseteq Calls
  /\ outcome \in [Methods -> Outcomes]
  /\ taskList \in Seq(Packets) /\ signalled \in BOOLEAN
  /\ ioPc \in {"boot", "loop", "async", "settle"}
  /\ batch \in Seq(Packets) /\ retries \in Seq(Packets)
  /\ held \subseteq Calls /\ verdict \in Outcomes
  /\ pushed \in Seq(Calls) /\ sent \in Seq(Calls)

\* A result still in the pending table, or taken out of it and about to be
\* completed, is not complete: otherwise SetResult or SetException would
\* refuse it, and IsTimeouted, false for a complete result, would stop the
\* time-out scan at it for ever.
PendingUndecided ==
  \A c \in Methods : c \in pending \cup held => outcome[c] = "unknown"

\* A call that was made and has no outcome is in the pending table or in the
\* hands of the I/O thread: whatever the interleaving of Call with answers,
\* time-outs and the final failure, no result is forgotten.
NoOrphan ==
  \A c \in Methods :
    pc[c] # "idle" /\ outcome[c] = "unknown" => c \in pending \cup held

\* A reconnection is scheduled only when the last connection is closed and
\* its handle has been given back by libuv, so that Connect never initialises
\* m_tcp while libuv still uses it.
ReconnectOnClosedHandle ==
  retry # "unset" => status = "CLOSED" /\ handle = "closed" /\ ~connReq

\* While uv_close is under way the status is CLOSED, and a write request is
\* outstanding only on the connection that made it: the late error of an old
\* write can close nothing.
StaleWriteHarmless ==
  /\ handle = "closing" => status = "CLOSED"
  /\ writing => status = "CONNECTED" \/ handle = "closing"

\* The changes of m_tcp that libuv allows.
HandleStep ==
  <<handle, handle'>> \in {<<"none", "open">>, <<"open", "closing">>,
                          <<"closing", "closed">>, <<"closed", "open">>}

\* m_tcp goes through libuv's life cycle: it is initialised only when new or
\* closed, and uv_close is called on it once.
HandleLifeCycle == [][HandleStep]_handle

\* Once the attempts are used up the connection is closed and its handle is
\* given back: the packets that DoTask then drops could not have been sent.
FinalFailedIsClosed ==
  FinalFailed => status = "CLOSED" /\ handle = "closed" /\ retry # "unset"

\* No wake-up is lost: whatever waits in the task list has a signal under way,
\* or its thread is about to send one.
NoLostWakeup ==
  taskList # <<>> =>
    signalled \/ authSeen = "pushed" \/ \E c \in Calls : pc[c] = "pushed"

\* Calls reach the wire at most once and in the order they were queued, through
\* every retry: written calls, those put aside, the rest of the batch and the
\* task list, in this order, follow the queueing order without repetition.
FifoOnce ==
  LET flow   == sent \o retries \o batch \o taskList
      Pos(c) == CHOOSE k \in DOMAIN pushed : pushed[k] = c
  IN  \A i, j \in DOMAIN flow :
        i < j /\ Auth \notin {flow[i], flow[j]} => Pos(flow[i]) < Pos(flow[j])

\* The packets that have not been written yet, those put aside first.
Queue == retries \o batch \o taskList

Waits(p) == \E i \in DOMAIN Queue : Queue[i] = p

\* No queued packet is lost between the application threads and the loop: a
\* packet stays queued through the clone of the list, the tasks and the list
\* put back in front of what was pushed meanwhile, until it is written on the
\* connection; only an endpoint out of attempts drops it.
QueueKept ==
  [][\A p \in Packets : Waits(p) => Waits(p)' \/ p \in onWire' \/ FinalFailed]_vars

\* On a connection made with an identity set, the authentication is written,
\* queued or about to be queued by SetAuth, unless SetAuth read the status
\* before its store of the identity was visible.
AuthNotLost ==
  status = "CONNECTED" /\ appId /\ authSeen \notin {"unread", "early"} =>
    \/ Auth \in onWire
    \/ authSeen = "yes"
    \/ Waits(Auth)

\* Every method call made is completed: by its answer, by its time-out, or by
\* the final failure of the endpoint, even when the connection is stuck.
EveryCallSettles ==
  \A c \in Methods : pc[c] # "idle" ~> outcome[c] # "unknown"

\* Connect has failed at once: nothing is under way and no attempt is planned.
Stuck == ioPc # "boot" /\ status # "CONNECTED" /\ ~connReq /\ retry = "unset"
         /\ handle # "closing"

\* Every packet queued by a call is written or dropped in the end, unless
\* Connect has failed at once.
QueueDrains ==
  \A c \in Calls : pc[c] = "pushed" ~> Stuck \/ ~Waits(c)

\* A connection that closes is made again, or the attempts are used up, unless
\* Connect has failed at once.
Reconnects == status = "CLOSED" ~> status = "CONNECTED" \/ FinalFailed \/ Stuck

-----------------------------------------------------------------------------
(* The endpoint implements RpcCall.                                        *)

RPC == INSTANCE RpcCall WITH
  phase <- [c \in Methods |->
              IF pc[c] = "idle" THEN "idle"
              ELSE IF outcome[c] = "unknown" THEN "open" ELSE outcome[c]],
  deliveries <- [c \in Methods |->
                   Cardinality({i \in DOMAIN sent : sent[i] = c})]

\* Every behaviour of the endpoint is one of RpcCall: no call is written twice
\* or completed twice, answers belong to written calls, whatever the retries,
\* reconnections, late answers and time-outs.
ImplementsRpcCall == RPC!Spec

=============================================================================
