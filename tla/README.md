# yyrpc in TLA+

yyrpc is a C++ RPC library on libuv (`src/src`), with a name center
(`src/name_center`) and a Python client and server (`src/yyrpc_python`). This
directory holds TLA+ models of its core, the TLC configurations that check them on
small instances, and TLAPS proofs of their main invariants for every instance.
Source paths below are relative to `src/src/` unless they begin with `src/`.

    tlc -workers 2 -config MCEndPointCalls.cfg MCEndPoint.tla
    tlapm EndPointProofs.tla

| file | what it is |
| --- | --- |
| `RpcCall.tla` | what a client endpoint promises to the code that makes method calls |
| `EndPoint.tla`, `MCEndPoint.tla`, `MCEndPoint*.cfg` | the client endpoint: connection, task list, call table, timer, answers |
| `EndPointProofs.tla` | its types, connection, call table and wake-up, proved |
| `EndPointOrderProofs.tla` | the order of its packets, that none is lost, the identity on every connection, and its refinement of `RpcCall`, proved |
| `CallResult.tla`, `MCCallResult.tla`, `MCCallResult*.cfg` | one call's result between the threads that touch it |
| `CallResultProofs.tla` | its types, Wait and the promise and the release of who waits, callbacks that run once and where asked, proved |
| `Framing.tla`, `MCFraming.tla`, `MCFraming*.cfg` | the binary framing of packets in a byte stream |
| `FramingProofs.tla` | the decoder's buffer positions, the length a packet announces, and that packets arrive whole, proved |
| `Service.tla` | what a server promises the peers of its connections |
| `Server.tla`, `MCServer.tla`, `MCServer*.cfg` | the server: connections, handlers and their threads, answers, connection monitor |
| `ServerProofs.tla` | its types, the wake-up of its loop, that no call is lost, the order of answers, the monitor's story, and its refinement of `Service`, proved |
| `PyWire.tla`, `PyClient.tla`, `PyServer.tla`, `PyRpc.tla` | the Python client and server, and the connection that joins them |
| `MCPyRpc.tla`, `MCPyRpc*.cfg`, `PyRpcProofs.tla` | their instance, and their types, streams, Futures, wake-ups and refinement of `RpcCall`, proved |
| `NameCenter.tla`, `MCNameCenter.tla`, `MCNameCenter*.cfg` | the name center, and the tokens of the clients and servers that say hello to it |
| `NameCenterProofs.tla` | its tables, the agreement on tokens, which calls are accepted, and when keys differ, proved |
| `QueueOrder.tla` | lemmas about sequences that follow one another's order, used by the proofs of endpoint, call result and server |
| `PROJECT.json` | components, runs, mutants, source lines of every definition, findings, hazards, theorems |

## 1. The system

### 1.1 Components

**Client endpoint** (`endpoint/endpoint.*`, `transport/tcp_client_transport.*`,
`util/thread_safe_list.h`). One object and one I/O thread per server address.
*State*: the connection status `m_connectStatu`, the libuv handle `m_tcp`, the
failure count `m_tryCount` and the time of the next attempt `m_nextTryTime`, the
task list `m_taskList`, the table `m_pendingResult` of calls that wait for an
answer, the identity `m_appId`. *Operations*: `Call` and `SetAuth` from application
threads; on the I/O thread the loop's callbacks: the asynchronous handle (send what
is queued), the 100 ms timer (time-outs, final failure, reconnection), connect,
read, write and close callbacks. *Hard*: the three steps of `Call` against
everything the I/O thread does; packets put back in front of a list that others
append to; the late errors of an old connection's writes; what happens to calls when
the endpoint gives up. *Correct when*: each call is completed once, with its own
answer, its time-out or the final failure; packets are written at most once and in
order; libuv's handle is never reused early; no wake-up is lost.

**Call result and caller manager** (`stub/call_result.*`, `stub/caller_manager.*`,
`worker/client_worker.*`). *State*: `m_errorNo`, `m_promise`, `m_callThreadId` and
two callbacks per result; a queue of results per application thread
(`m_specThreadResult`) and per client worker. *Operations*: `Then`, `Wait`,
`PumpMessage` on application threads; `SetResult`, `SetException`, `IsTimeouted`,
`OnResult` on the I/O thread; `_OnIdle` on the workers. *Hard*: the fields of a
result are shared without a lock. *Correct when*: a callback runs once, on the
thread it was asked to run on; `Wait` agrees with the way the call ended; a promise
is set once.

**Endpoint manager** (`endpoint/endpoint_manager.*`). Table of endpoints by address
and by method; forwards `RegisterApi` to `SetAuth`, resets the failure count of
endpoints that are not connected.

**Packet framing** (`packet/*`, `buff_stream.*`). *State*: a receive buffer and its
read and write positions. *Operations*: the two `Send`s of a transport,
`GetWriteBuffer`, `Process`, `Reset`; the HTTP decoder does the same for HTTP.
*Hard*: a stream is cut anywhere; lengths are 16 bits wide; the buffer is moved
while packets are in it. *Correct when*: the packets received are those sent, the
buffer never overflows and always has room, a new connection starts afresh.

**Server transport, acceptor, connection monitor** (`transport/*server_transport.*`,
`acceptor/*`, `stub/connection_monitor.*`). *State*: a status per connection, the
table of transports with a `TcpPeer` each, the result list of the acceptor, the
monitor's two lists of opened and closed peers. *Operations*: accept, read, close on
the I/O thread; `QueueSend` from any thread; `SetConnectMonitor` and
`PumpMonitorMessage` on the application thread. *Hard*: answers and close requests
of several threads against connections that fail meanwhile; a monitor set while
connections come and go; the peer handed to a handler. *Correct when*: an answer is
written once, on its own connection, while that is open; the monitor is told of each
connection once, and of its close.

**Callee manager and server workers** (`stub/callee_manager.*`, `stub/callback.inl`,
`worker/server_worker.*`). *State*: the methods bound, a list of tasks per worker
and per application thread. *Operations*: `OnCall` on the I/O thread, `_OnIdle` and
`PumpMessage` on the threads that run handlers. *Correct when*: every call accepted
is handled once and answered; calls of one kind on a connection are answered in
order.

**Worker threads** (`thread/thread_worker.*`). `Start`, `Stop` and `Join` of a
thread that runs a libuv loop with one asynchronous handle.

**Name center** (`src/name_center`) and **method authorisation**
(`stub/method_auth.*`). *State*: at the center, the application registered on each
connection and the connection of each application, the token of each pair of client
and server, the keys under which an application has tokens; in each process, the
tokens it presents and those it accepts. *Operations*: hello of a client or server,
the end of a connection, events that tell servers of clients that come and go;
`CheckAuth` when a call arrives. *Hard*: hellos, ends of connections and the events
they fire overtake each other; a process started again says hello before the center
has noticed its old connection; tables hold raw `TcpPeer*`. *Correct when*: the
tables agree with each other and with the connections; a registered server accepts
the token of each registered client, and none of a client that is gone.

**Python client** (`src/yyrpc_python/msgpackrpc/session.py`, `future.py`, `loop.py`,
`client.py`, `transport/tcp.py`). *State*: the request table, a Future with its
time-out per request, the transport's sockets, pending messages and attempts to
connect. *Operations*: `send_request`, `join`, `notify`, `close`; in the loop,
answers, time-out ticks, the callbacks of a stream. *Hard*: everything that waits
runs the one loop, which anybody stops; attempts to connect that fail, succeed late,
or are overtaken by a close. *Correct when*: a request's Future is set once, by its
own answer, its time-out or the failure of the connection; whoever waits returns;
there is one stream.

**Python server** (`server.py`). *State*: for each request a responder, and for an
asynchronous one an `AsyncResult`. *Operations*: `dispatch`, and the threads that
give an `AsyncResult` its value. *Correct when*: each request is answered once.

**Synchronous transport**, **stubs** (`method.inl`, `event.inl`), **memory pool**,
**start-up** (`rpc_application.cpp`, `listenpoint/*`): not modelled, see 6.

### 1.2 Interactions

An application thread enters `EndPoint::Call`, which fills the shared table and list
and sends a libuv asynchronous signal; the I/O thread reads the list and writes to
the transport, whose callbacks call the endpoint back (`IConnectionMonitor`). An
answer travels transport → decoder → `OnProcessResult` → result →
`CallerManager::OnResult` → a queue of the application thread or of a client worker.
On the server: acceptor thread → decoder → `ProcessCall` → worker queue → callback →
`QueueSend` → acceptor thread → transport. The name center is itself a yyrpc server
whose events make clients call `RegisterApi` and servers update `MethodAuth`. A
Python client and server exchange requests and responses over one Tornado stream
each.

Which behaviours are hard to test, and which property would catch each going wrong,
is listed line by line under `hazards` in `PROJECT.json`.

## 2. What is modelled

### 2.1 EndPoint

A step is what one thread does between two points where another thread can see the
difference. `Call` is therefore three actions (`Register`, `Push`, `Signal`),
`SetAuth` four; the I/O thread runs one libuv callback per action, and a callback
that gives up a lock part-way is split there, `ioPc` naming the callback in
progress:

| code | model |
| --- | --- |
| `_DoWork` up to `uv_run`; `Init` waits for it | `Boot` |
| `Connect`, its early returns included | `Connect` in `CreateChannel` |
| `_OnConnected`, `OnConnected`, `TrySendAuth` | `ConnectSucceeds`, `ConnectFails` |
| `OnRead` with an error; `write_cb`; `close_cb` with `OnAfterClose` | `PeerCloses`; `WriteSucceeds`, `WriteFails`, `WriteCancelled`; `OnAfterClose` |
| `_OnAsyncWork`: clone, `DoTask` per packet, put back, signal again | `AsyncBegin`, `AsyncTask`, `AsyncEnd` |
| `OnProcessResult` and `OnCallResult` | `OnCallResult` then `Settle`; `OnOtherPacket`, `OnRejectedPacket` |
| `_OnTimerLong` | `OnTimer`; `OnFinalFailed` then `Settle` |
| `IsAllEndpointReady` | `ResetFail` |

`handle` is `m_tcp` as libuv sees it: new, initialised, closing, given back. The
callbacks libuv runs for requests it cancels (`WriteCancelled`) run before
`close_cb`. `onWire` is what was written on the present connection and is not
answered yet; answers come in any order, and are lost with the connection. `pushed`
and `sent` are history.

Time is abstract: `Expire(c)` is the moment a call's time-out has passed, from when
it is made, `RetryDue` the moment the back-off has. `IsTimeouted` and the early stop
of the scan at the first entry that has not timed out are as in the code: a fired
event (a void result) always counts as timed out.

`RpcCall` is the abstract specification: a call is issued, delivered at most once,
and completed once, by an answer only after it was delivered. `EndPoint` implements
it under the refinement mapping at the end of `EndPoint.tla`: the phase of a call is
its result's error number, its deliveries are counted in `sent`. The packet of a
call that was given up may still be delivered: nothing takes it out of the task
list.

### 2.2 CallResult

Here the grain is the access to one field. `EndPoint` takes results out of its table
and completes them in one step (`Settle`); `CallResult` shows what other threads can
see meanwhile: `m_errorNo` is stored before the promise is set; the thread id is
read before the callbacks are looked at; `Then` stores the thread id, the first and
the second callback in three steps. On a time-out, `IsTimeouted` completes the
result and `CheckCallTimeout` completes it again (`io.inner`). Which calls are
completed, and how, is left open: any call, once, in any way, which is what
`EndPoint` guarantees (`PendingUndecided`, `NoOrphan`). A result is in one place
between the table and its callback: held by the I/O thread, in the queue of an
application thread, in that thread's hands, or with one worker.

### 2.3 Framing

Bytes are abstracted to their place in the stream of a connection; `base` is the
place of the first byte of the buffer, so that the `memmove` of `AdjustWriteSpace`
adds to `base`. `OnRead` reads any number of bytes up to the room offered;
`OnRecvPacket` is one turn of the loop of `Process`; the loop ends in
`AdjustWriteSpace`. The length field is read at a position: there is a header there
or, if the decoder has lost its place, arbitrary bytes (`LengthAt`). Lengths are
taken modulo `BufferSize + 1`, the model's 2^16. `Close` covers the end of a
connection between reads and a callback that refuses a packet; the decoder is reset.

### 2.4 Server

One acceptor with its I/O thread, a pool of workers, one application thread. The I/O
thread runs one libuv callback per action, the asynchronous send one packet at a
time (`AsyncBegin`, `DoSend`), and nothing else while `sending` is not empty. A
thread that runs handlers takes its whole list (`TakeTasks`), starts a handler
(`DoTask`, which reads the peer pointer, as `Invork` does), and queues what it
sends, each packet in two steps (`Push`, `Signal`), as `QueueSend` does. The
application thread goes round `PumpMonitor` (both lists, under the lock),
`TellOpen`, `TellClose`, `TakeTasks`; `SetConnectMonitor` may come at any time.

| code | model |
| --- | --- |
| `_OnTcpConnection`, `RegisterTransport`; `uv_accept` may fail behind it | `OnTcpConnection` (status `INIT` if it fails) |
| `ProcessCall`, `CalleeManager::OnCall`, `QueuePacket` | `OnCall`, `ThreadOf` |
| `OnRead` with an error, `write_cb` with an error, a packet or call that is refused: `Close(reason)` | `ConnectionFails` |
| `close_cb`, `UnRegisterTransport` | `OnAfterClose` |
| `TcpPeer::CloseConnection`, an empty packet in the result list | `NullBuffer`, `CloseQuietly` |
| `OnRequireClose`, the header with session 0 | `Notice` |

`GroupId` is 1 for every call: `callee_manager.cpp:158` computes
`(int64_t)param.transport.get() && 0xFF`, a truth value where a mask seems meant.
All calls therefore go to one worker, whatever the size of the pool;
`AnswersInOrder` would also hold if calls were spread by connection. `dropped`
records answers that `uv_write` refused, as it does on a closed handle; the model
lets it refuse any. An answer queued behind the close its own handler asked for is
always dropped.

`Service` is the abstract specification: a connection opens and closes once, a call
is answered at most once, on its connection while that is open, and nothing follows
the notice of a close.

### 2.5 Python client and server

`PyWire` is the connection: what the client has written and the server has not read,
and the answers on their way back, in order, until the connection breaks
(`LinkBreaks`), which its client notices later or when it writes. `PyRpc` joins
`PyClient` and `PyServer`. The client's application is one thread; inside
`Loop.start` only callbacks run.

| code | model |
| --- | --- |
| `Session.send_request`, `ClientTransport.send_message` | `SendRequest`, `SendMessage`: written, or pending while a stream is being connected, or an exception |
| `Future.join`, `Session.notify`; `Loop.stop` and the return of `start` | `Join`, `Notify`; `stopped` and `LoopReturns` |
| `on_connect`; `on_connect_failed` below the limit, at it, or on a closed transport | `OnConnect`; `ConnectFails`, `GiveUp` |
| `ClientTransport.on_close`, the stream's write callback | `OnClose`, `WriteCallback` |
| `on_message`, `Session.on_response` | `OnResponse` |
| `Session.step_timeout`, `Future.step_timeout` | `StepTimeout`, `Due` |
| `Session.close`, `ClientTransport.close` | `Close` |
| `Server.dispatch`: a method that returns, an asynchronous one, a notification | `Dispatch`; `DispatchAsync`, `StoreResponder`, `CheckResult`; `OnNotify` |
| `AsyncResult.set_result` on its thread | `LookForResponder`, `StoreResult` |

`AsyncResult` is where two threads meet without a lock; each side looks for what the
other stores, and each look and each store is a step. The rest of the code runs on
its loop's thread, one callback a step.

### 2.6 NameCenter

The center's I/O thread accepts hellos and notices ends; its application thread goes
round the monitor's list, then the hellos, as `Server` describes. A process is
started at most `Runs` times; each run has a connection of its own, and the center
may see the next before the end of the last. A `TcpPeer*`, and the token made of it,
is named by its connection.

| code | model |
| --- | --- |
| `DoInit` of an application, its connection and hello | `Hello` |
| `UnRegisterTransport`, the monitor's list | `ConnectionEnds` |
| `PumpMonitorMessage`, `PumpMessage` | `PumpMonitor`, `TakeTasks` |
| `ServiceManager::OnCloseConnection`, `FireOnClientDisConnect` | `OnCloseConnection`, `Farewell` |
| `OnClientHello`, `OnServerHello`, `FillClientInfo`, `FireOnClientConnect` | `OnValidHello`, `Answer`, `Welcome` |
| a hello refused: `CloseConnection` before the answer | `OnInvalidHello` |
| a hello whose peer is null | `OnHelloOfNobody`: the center's process ends |
| `OnHelloResponse`, `OnClientConnected`, `OnClientDisconnected` | `Receive` |
| `MethodAuth::CheckAuth` | `CheckAuth` |

`Key` is computed as the code does, in `Word` values (2^32 there).

## 3. What is checked

| run | question | states |
| --- | --- | --- |
| `endpoint_calls` | two method calls against answers, time-outs, refused connections and writes, final failure and its reset: is every result completed once, every packet kept until it is written, once and in order? does the endpoint implement `RpcCall`? | 170 000 |
| `endpoint_connection` | a method call, an event and `SetAuth` against every connection failure: is the handle's life cycle respected, no wake-up lost, the identity sent on every connection? | 3 400 000 |
| `endpoint_progress` | are calls completed, queues drained, connections made again? | 75 000 |
| `result_threads` | two results between the application thread, the I/O thread and two workers: do callbacks run once and where asked, does who waits have a release to come? safety and progress | 127 000 |
| `framing_stream` | four packets cut in every way over two connections: safety and progress | 27 000 |
| `server_calls` | two worker calls and an application-thread call whose handler closes the connection, against its failure and a monitor set at any time: is every call accepted kept until it is answered? order, refinement of `Service`, and progress | 192 000 |
| `python_calls` | a call answered at once, a call answered by a thread and a notification, against two attempts to connect, loss of the connection, time-outs and close: one stream, no Future lost, refinement of `RpcCall`; does who waits in the loop have a wake-up to come, and do `join` and `notify` return? | 200 000 |
| `name_center` | a server and its client, each started twice, with every order of hellos and ends: do the tables agree, does the server accept exactly the tokens and the calls it should, in the end too? | 265 000 |
| `late_then`, `handler_peer`, `python_async`, `name_keys` | four places where the code does not do what the repository says, see 3.3 | |

Each property of a passing run has a mutant in `PROJECT.json`: a plausible mistake
in one mapped definition (a list copied but not cleared, a time not reset, a
callback test on the wrong condition) under which the run fails. The mutated forms
stand in the modules, before the definition they replace.

Deadlock is checked except where the system may really stop: `framing_stream` ends
when its packets are received; a Python application may wait for ever for a Future
that `close` has forgotten (`Forgotten`); the name center has nothing to do when
every process has been started as often as it may be and nothing is on its way, or
when it crashed.

### 3.1 Bounds

`MaxTry = 2` lets the attempts be used up, be restored by `ResetFail` or by an
answer, and be used up again within `MaxFaults = 2` or `3`, which bounds the
failures the network and the peer cause, not the library's reactions. Two calls are
the fewest whose packets can be reordered, of which one can be answered while the
other stops the time-out scan, and whose registration can interleave. `Connect` may
fail at once (`SyncConnectMayFail`) any number of times. In `Framing`, the header
has 4 bytes as in the code and the buffer 11 in place of 65535: bodies of 0, 3 and 7
(the longest allowed) put packet ends on, before and behind every boundary;
`MaxPackets = 4` fills the buffer more than twice. In `CallResult` nothing is
bounded but the two calls and two workers. `Server` has no bound but its constants:
two calls of one connection for the workers are the fewest whose answers could
change places, the third makes two threads queue packets and a close against each
other, and with two workers in the pool the choice of the worker matters. One
connection suffices for what is said of it: connections share only the lists (of
tasks, results, opened and closed peers), in which entries of one connection do not
affect those of another, and the proofs of section 4 hold for any number. `PyRpc` is
bounded by its two calls and one notification: one call answered at once and one by
a thread are the fewest whose answers change places, the notification waits while
their answers stop the loop; two attempts to connect may fail both, or the second
succeed; a time-out of one tick may pass before, between and after. In `NameCenter`
two runs of each process let an old connection end after the new one was registered,
on either side; three applications with one run each show the keys. `Word = 16`
keeps the shift of a 32-bit word for ids below 8.

### 3.2 Fairness

*EndPoint*: a thread inside `Call` or `SetAuth` goes on; deadlines pass; a callback
in progress finishes (weak fairness). One iteration of the libuv loop serves the
timer that is due, each signalled handle, each ready request and each pending close,
and `uv_async_send` from inside a callback is served in a later iteration, so none
is passed over for ever although another may intermittently disable it: strong
fairness of `AsyncBegin`, `OnTimer`, `OnFinalFailed`, the connect result, cancelled
writes and `OnAfterClose`. The operating system answers a connect request. Nothing
is assumed of the peer: it need not answer, and no write need succeed.

*CallResult*: every call is completed (`EveryCallSettles` of `EndPoint`), the
application pumps, the workers run. *Server*: the application runs its loop
(`RpcApplication::Run`), workers run their idle callbacks, the I/O loop serves its
signal and its closing handles; handlers return; peers do as they like. *Framing*:
bytes sent arrive while the connection lives, and the decoder runs. *PyRpc*: a loop
that was started runs its callbacks and returns when stopped, an attempt to connect
ends, time passes, threads go on; the application need not call anything, the
network may fail at any time, the server may stop. *NameCenter*: its application
thread goes round, what is sent arrives, a connection that `CloseConnection` was
called for ends; processes start and end as they like.

`EveryCallSettles` holds even when `Connect` fails at once. In that case nothing
schedules another attempt: the status remains `INIT`, `CONNECTING` or `CLOSED` with
no request and no retry time, and only time-outs complete calls. `Stuck` names this
state; `QueueDrains` and `Reconnects` hold unless it is reached.

### 3.3 Findings

* `late_then`: `Then` does not look whether the result is complete, and `OnResult`
  looks for callbacks only once; a callback registered while, or after, its result
  is completed is never called. `src/README.md:51` promises a callback when the
  result returns. `EarlyThenKept`, `EarlyThenThread` and `EarlyThenRuns` show that
  callbacks registered in time are called, on the right thread, for every ending but
  a time-out. (The same window lets a callback asked for on the calling thread run
  on a worker, when `Then` begins between the reading of the thread id and the test
  for callbacks.)
* `handler_peer`: `UnRegisterTransport` resets the peer of a closed connection while
  calls accepted from it wait for a worker or run: a handler bound with
  `BindWithPeer` is given a null `TcpPeer*`, or holds one whose owner goes away. The
  handlers of `src/server_test` and `src/name_center` use it unconditionally.
* `python_async`: `AsyncResult.set_result` looks for the responder and stores the
  result; `set_responder`, on another thread, stores the responder and looks for the
  result. If both look before either stores, the request is never answered.
  `src/yyrpc_python/test/test_msgpackrpc.py:167` expects the answer.
* `name_keys`: `(uint32_t)clientId << 31` keeps only the lowest bit of the client's
  id, where `src/name_center/service_manager.h:31` announces a shift by 32 of a
  64-bit key. Two clients of one server with odd ids share an entry: the server is
  given the second one's token for both. `KeysCorrect` says which installations are
  exposed: those in which one server has two clients with ids of the same parity.

Observed while modelling, without a run of their own:

* After a time-out the error callback is never called: `IsTimeouted` has completed
  the result before `CheckCallTimeout` tries to, and `OnResult` is called only if
  that second completion succeeds (`EarlyThenKept` makes exactly this exception). A
  blocked `Wait` is released.
* `Wait` on a call that has already failed builds the exception and does not throw
  it: it returns a default value at the place marked "never reached" (`WaitAgrees`
  allows `"default"` for a failed call).
* `Send(uint16_t, BufferStream&)` does not check the length that the other `Send`
  refuses, and announces it modulo 2^16. `Framing` has both; `framing_stream` and
  `LengthCorrect` are about the `Send` that checks (`Checked`).
* A Python client that loses an established connection never connects again, for
  `on_close` leaves `_connecting` as it is: later requests can only time out, and a
  `notify` blocks (`Lost` in `NotifyReturns`). A `close` while a stream is being
  connected leaves that stream open.
* A process that is started again before the name center has noticed the end of its
  old connection is registered, then erased by that end, and says hello only once:
  it stays unregistered. The center and the servers agree about this (`TablesOK`,
  `TokensAgree`).

## 4. What is proved

Every theorem holds for all values of the constants that satisfy the named
assumptions in the modules; none is about an instance. "Inv is inductive" means: it
holds initially and every step preserves it.

**Endpoint** (`EndPointProofs`, `EndPointOrderProofs`; any calls, `MaxTry`,
`MaxFaults` and flags)

* `TypeCorrect`, `ReconnectCorrect`, `StaleWriteCorrect`, `FinalFailedCorrect`,
  `HandleCorrect`, from `TypeOK /\ ConnInv`. `TypeOK` alone is not inductive: that
  `tryCount` stays within `MaxTry`, although `OnAfterClose` increments it without a
  test, needs `FinalFailedIsClosed` (no close is pending once the attempts are used
  up), which needs the scheduling of reconnections (`ReconnectOnClosedHandle`),
  which needs the relation of status, handle and requests in `ConnInv`.
  `ReconnectOnClosedHandle`, `StaleWriteHarmless` and `FinalFailedIsClosed` are
  proved and in no run.
* `UndecidedCorrect`, `NoOrphanCorrect`, from `CallInv`: the table and the results
  held by the I/O thread are disjoint, results are held only while `ioPc` is
  `"settle"`, and what a method's result is about to receive is an outcome.
* `WakeupCorrect`: `NoLostWakeup` is inductive given the types.
* `NotStuck`: if no libuv call inside `Connect` fails at once, `Stuck` is never
  reached, so that `QueueDrains` and `Reconnects` hold without their exception. It
  needs `ConnInv`: a close gives the handle back and then plans an attempt, and an
  attempt is used up only by a `Connect`.
* `QueueKeptCorrect`: no step loses a queued packet, from `FlowInv` (the batch is
  empty when the list is taken). It is the safety core of `QueueDrains`, and with
  `FifoCorrect` says that, while attempts are left, the packet of a call waits in
  one place or has been written, once.
* `FifoCorrect`, from `FlowInv`: what was sent, followed by the packets put aside
  for a retry, those of the callback that runs, and the task list, is a subsequence
  of the calls in the order they were pushed, each once; packets are put aside only
  while nothing can be written. That last clause is what makes putting them back in
  front of the list right.
* `AuthCorrect`, from `AuthInv`: `AuthNotLost` with the three places where the
  identity may wait named one by one.
* `ImplementsCorrect`: every step of the endpoint is one of `RpcCall` or leaves its
  state alone. It needs `WireInv` (an answer on the wire, or about to be handed
  over, belongs to a call that was written) besides `CallInv` and `FlowInv`. What
  `RpcCall` promises in words is proved of its steps and carried over:
  `AnsweredCorrect` (an answered call was written, none is written twice) and
  `CompletedCorrect` (no outcome is ever replaced).

**Call result** (`CallResultProofs`; any number of calls and workers)

* `TypeCorrect`; `WaitCorrect` and `PromiseCorrect`, from `FieldsInv`: a result in
  the table is untouched; a promise is empty when it is about to be set and agrees
  with the error number afterwards; a future retrieved and waited for belongs to a
  complete result, so that `Wait` does not retrieve it again.
* `RunsOnceCorrect`, from `PlaceInv`: a result is in one place at a time and no list
  repeats one.
* `EarlyThenCorrect`, `EarlyThreadCorrect`, from `EarlyInv` and `ThreadInv`: a
  callback registered in time has its thread recorded, and only a time-out is
  completed twice; the lists of the application thread hold only callbacks asked for
  there.
* `ReleaseCorrect`, from `ReleaseInv`: a step of the I/O thread that stores the error
  number of a call and leaves its promise empty is followed by the one that sets it,
  the second completion of a time-out included.

**Framing** (`FramingProofs`; any buffer larger than a header, any stream)

* `PositionsCorrect`, `RoomCorrect`, from `RestIsShort`: between two reads what is
  left in the buffer is shorter than `BufferSize`, because `AdjustWriteSpace` moves
  it to the front as soon as it reaches that mark and an incomplete packet is no
  longer than the longest length a header can announce.
* `LengthCorrect`: with the `Send` that checks, every packet announces the length it
  has.
* `IntactCorrect`, from `IntactInv` and with that `Send`: every packet has a header, no byte
  arrives before it was sent (`StreamInv`), and the decoder's read position, counted
  in the stream (`base`), is where the packets received so far end (`Intact`
  itself). The end of the first n packets is the recursive function `Bytes`; what is needed of it (that it is
  defined, that it grows, that it depends only on the first n packets) is proved by
  an induction whose hypothesis is a set (`SetInduction`, from the principle of the
  least element): the library's induction theorems take an operator and cannot be
  used. Without `Checked` the theorem fails, as the observation on
  `Send(uint16_t, BufferStream&)` in 3.3 says.

**Server** (`ServerProofs`; any connections, calls, handlers and number of workers)

* `TypeCorrect`: that `OnAfterClose` never appends a null peer rests on its guard
  (the handle is closed once, while the transport is registered). `NoAnswerIsLost`
  is inductive given the types.
* `KeptCorrect`: `CallKept` is inductive given the types. A call passes from a
  thread's queue to its batch, the handler's packets, the result list and the list
  being sent, and leaves it written or refused; the step that takes the first packet
  keeps the others (`SendingLeft`).
* `OrderCorrect`, from `OrderInv`: for each connection and thread, what was written,
  then what is being sent, the result list, what the handler has still to queue, the
  thread's batch and its queue, restricted to the calls of that thread, follow
  `received`. `GroupId` enters here: all worker calls have one thread.
* `ImplementsCorrect`, from `OrderInv` and `PacketInv`: a packet between a handler
  and the wire is a notice to close or an answer to a call accepted on that
  connection, which was opened. `AnsweredCorrect` carries over what `Service`
  promises in words: each answer on a connection is the only one to a call received
  there, and the notice is the last thing written and the connection then closed.
* `MonitorCorrect`, from `MonitorInv`: no list repeats a connection; the opening of
  a connection is in one place (one of two lists, or told), its close is listed only
  once it has left the table and only behind its opening, and a monitor that is not
  set has heard of nothing. `MonitorAgrees` counts entries of lists; that a list
  made of a permutation of the table repeats nothing is a fact about finite sets.

**Python** (`PyRpcProofs`; any calls, notifications, time-out, limit of attempts)

* `TypeCorrect`, `OneStreamCorrect`, `FutureKeptCorrect`, and `ImplementsCorrect`:
  client and server together implement `RpcCall`. The refinement needs `CallInv`: a
  request that is pending or on the wire is there once and was not handled, a
  request handled was handled once, and an answer on its way back, an `AsyncResult`
  and its thread exist only for a request that was. The race of `python_async` loses
  an answer and makes none.
* `WakeupCorrect`, from `WakeInv`: `OneStream` and `NotifyIsOpen` (a notification that
  waits belongs to the connection being made or made). It is the safety core of
  `JoinReturns` and `NotifyReturns`.

**Name center** (`NameCenterProofs`; any applications, dependencies, number of runs)

* `TypeCorrect`, `TablesCorrect`, from `TablesInv`: a peer is registered for its own
  application only, and the closed peers in hand are told before any hello.
* `TokensCorrect`, from `AgreeInv`: a process says hello once, tokens in the table
  are those of registered peers, and what is on its way to a server, applied in
  order to what it accepts, gives the table.
* `AcceptCorrect`, from `AcceptInv`: what `CheckAuth` compares agrees. To what
  `AgreeInv` says of the server, `HoldsOwn` adds the client's side: a registered
  process presents to each application it depends on the token of its own
  registration, or is about to be given it.
* `TokensCorrect` and `AcceptCorrect` assume `KeysDistinct` (different applications
  have no key in common), which the code does not ensure; the run `name_keys` shows
  that it is needed, `name_center` uses ids that satisfy it. `KeysCorrect` says what
  it amounts to after the shift by 31 in 32 bits: no two clients of one server have
  ids of the same parity. So the two theorems are about installations in which each
  server has at most two clients.

`QueueOrder` holds the lemmas on "follows the order of" that `FlowInv`, `PlaceInv`,
`OrderInv` and `MonitorInv` share.

Only model-checked: the liveness properties (temporal proofs under fairness, and
`ENABLED`, are outside what the proof system here can do). What they rest on is
proved where it could be stated as safety: `NoOrphan` and `NotStuck` under
`EveryCallSettles` and `Reconnects`, `QueueKept` and `NoLostWakeup` under
`QueueDrains`, `ReleaseIsDue` under the return of `Wait`, `CallKept` and
`NoLostAnswer` under the answers of the server, `WakeupIsDue` under `JoinReturns`
and `NotifyReturns`, `AcceptsExactly` under `ServersLearn`. What remains is that the
threads go on. Every invariant and action property that a passing run checks is
stated by a theorem; `NoLostAnswer`, and the types of `CallResult`, `Server`,
`PyRpc` and `NameCenter`, are proved and in no run.

## 5. Abstractions and limits

* The build modelled is the one `src/src/CMakeLists.txt` makes: the legacy sources
  (`yyrpc.cpp`, `callee_manager.*` and `caller_manager.*` beside it,
  `listenpoint/rpc_client_accept.*`) are not in it, and `ORPC_USE_FIBER` is off.
  Both decoders are enabled; at least one client worker always exists.
* In `EndPoint` the peer answers a method call with a value or an error. An answer
  with error 0 and no body takes the result out of the table without completing it;
  the library's own server sends such an answer only for an event. The case is
  listed as a hazard.
* `SetAuth` stores the identity and reads the status; the connect callback stores
  the status and reads the identity. Both variables are plain, and a processor with
  a store buffer (x86 too) may let `SetAuth` read the status before its store is
  visible: `LoadStatus` may precede `StoreAppId`. Then neither side sends the
  identity until the next connection. `AuthNotLost` excludes exactly this case
  (`authSeen = "early"`).
* `uv_write` failing at once (`SyncWriteMayFail`) is considered for HTTP framing
  only, whose `Send` copies: with binary framing the packet that is kept for a retry
  has given its buffer away. Listed as a hazard.
* In `CallResult`, one application thread makes the calls and uses `Then` or `Wait`
  on a result, not both; assignment of a `std::function` is one step, and stores
  appear in program order. `m_value` is stored with `m_errorNo`.
* In `Server`, a handler returns (an exception that leaves a worker's thread ends
  the process) and, if it closes its connection, looks whether it has a peer. The
  pool has a worker: with none, `QueuePacket` refuses every call and nobody looks.
  Fired events, data an application sends through a `TcpPeer` of its own accord, and
  the race of `GetPeerIp` with `SetConnected` are left out, and so is a second
  `SetConnectMonitor`.
* In `PyRpc`, messages are what `on_read` hands to `on_message`. `on_read` of
  `transport/tcp.py` itself is left out: as it stands its indentation does not
  parse, and it calls a parser by an undefined name. Message ids, which come back
  after 2^30 + 1 calls, are distinct in the model. Callbacks that an application
  attaches to a Future are left out, and so is an exception out of `on_connect`
  while it sends what is pending. There is one client and one connection.
* In `NameCenter`, the privileges that travel with the tokens, `EventManager` and
  the reading of the settings are left out. What is on its way when a connection
  ends is lost, or handled by a process the center does not know any more, which is
  the same for what is checked. `CheckAuth` reads tables that another thread
  changes, without a lock: the model takes it as one step, and the race is listed as
  a hazard.
* `UnInit` and the destruction of endpoints are not modelled: no action stops a
  loop.
* Payloads, serialisation and logging are left out.

## 6. Plan, and what is not modelled

The plan was: the endpoint, its results, the framing, the server, then the Python
side and the name center, each with its runs and then its proofs. All of these are
done. What is left, in the order in which it would be worth doing:

1. **Authorised calls**: `EndPoint`'s queue composed with the server's `ProcessAuth`
   and `CheckAuth`; on a reconnection the identity is queued behind the calls that
   wait.
2. **Workers and `UnInit`**: `ThreadWorker`'s `Stop` and `Join` against the
   asynchronous handle. They run when the process ends.
3. **HTTP decoder and BufferStream**: a sequential parser, and the growth of a
   buffer.

Not modelled, and why:

* *Synchronous transport*: blocking calls of the one thread that owns it; it shares
  the decoder with `Framing` and has no concurrency of its own.
* *Stubs and marshalling*: they turn arguments into bytes and call `EndPoint::Call`;
  data only.
* *Memory pool*: a free list under one lock.
* *Start-up*: sequential; its effect is the initial states, `Boot`, `StoreAppId` and
  `Hello`.
* *Table of endpoints*: a map under one lock, filled while methods are registered.
* *Server, what is left of it*: fired events, data an application sends of its own
  accord, binding and unbinding of methods while calls come in.
* The demos and benchmarks, vendored code (`get-pip.py` of the Python directory is a
  downloaded installer), the INI and JSON readers, the fiber variants and the legacy
  sources that are not built.
