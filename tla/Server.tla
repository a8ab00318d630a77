------------------------------- MODULE Server -------------------------------
(***************************************************************************)
(* The server side: RpcClientAccept and its RpcTcpServerTransports on one  *)
(* I/O thread, CalleeManager, the ServerWorkerPool, and the application    *)
(* thread, which pumps the connection monitor and the handlers bound to    *)
(* it.                                                                     *)
(*                                                                         *)
(* The I/O thread runs one libuv callback at a time, the asynchronous send *)
(* one packet at a time.  A handler reads its peer pointer when it starts, *)
(* and queues what it sends in two steps, the list and the signal, as      *)
(* QueueSend does.  A handler is one that returns, with a value or an      *)
(* error; which of the two the answer carries is not modelled.             *)
(***************************************************************************)
EXTENDS Integers, Sequences, FiniteSets

CONSTANTS
  Conns,      \* connections, non-zero numbers
  Calls,      \* calls the peers may make, non-zero numbers
  ConnOf,     \* the connection each call is made on
  AppCalls,   \* calls of methods bound to the application thread
  Closers,    \* calls whose handler calls TcpPeer::CloseConnection
  WorkerNum   \* threads of the ServerWorkerPool

ASSUME ConnsAssumption == Conns \subseteq Nat \ {0} /\ IsFiniteSet(Conns)

ASSUME CallsAssumption ==
  /\ Calls \subseteq Nat \ {0}
  /\ ConnOf \in [Calls -> Conns]
  /\ AppCalls \subseteq Calls /\ Closers \subseteq Calls

\* With no worker QueuePacket refuses every call, and nobody looks.
ASSUME WorkersAssumption == WorkerNum \in Nat \ {0}

App     == WorkerNum        \* the application thread; workers count from 0
Threads == 0..WorkerNum

NullBuffer == 0             \* a ResultPacket with an empty buffer
Notice     == 0             \* the header with session 0
NullPeer   == 0             \* a null shared_ptr<TcpPeer>

VARIABLES
  (* the I/O thread *)
  status,      \* m_connectStatu of each connection; "none" before it exists
  written,     \* what uv_write took on each connection, in order
  dropped,     \* answers that uv_write refused at once
  sending,     \* the list _OnAsync has taken
  (* shared lists *)
  resultList,  \* m_resultList: records of a connection and a call
  signalled,   \* has m_asyncHandle been sent and not served?
  queue,       \* m_taskList of a worker, m_specThreadCallee[App]
  (* TransportManager, under m_transportMutex *)
  table,       \* m_rsConn
  monitor,     \* is m_connMonitor set?
  openList,    \* m_openList
  closeList,   \* m_closeList
  (* each thread that runs handlers *)
  batch,       \* tasks it has taken
  out,         \* what the running handler has still to queue
  sig,         \* has it queued something and not signalled yet?
  (* the application thread *)
  pump,        \* "tell": in PumpMonitorMessage; "tasks": after it
  opens,       \* openList of PumpMonitorMessage, what is left of it
  closes,      \* closeList of PumpMonitorMessage, what is left of it
  (* history *)
  received,    \* calls accepted, in order
  told         \* what the monitor was told of each connection

ioVars   == <<status, written, dropped, sending>>
sendVars == <<resultList, signalled>>
connVars == <<table, monitor, openList, closeList>>
taskVars == <<batch, out, sig>>
pumpVars == <<pump, opens, closes, told>>
vars == <<ioVars, sendVars, queue, connVars, taskVars, pumpVars, received>>

Packet == [conn : Conns, call : Calls \cup {NullBuffer}]

Init ==
  /\ status = [k \in Conns |-> "none"]
  /\ written = [k \in Conns |-> <<>>] /\ dropped = {} /\ sending = <<>>
  /\ resultList = <<>> /\ signalled = FALSE
  /\ queue = [t \in Threads |-> <<>>]
  /\ table = {} /\ monitor = FALSE /\ openList = <<>> /\ closeList = <<>>
  /\ batch = [t \in Threads |-> <<>>]
  /\ out = [t \in Threads |-> <<>>] /\ sig = [t \in Threads |-> FALSE]
  /\ pump = "tasks" /\ opens = <<>> /\ closes = <<>>
  /\ received = <<>> /\ told = [k \in Conns |-> <<>>]

-----------------------------------------------------------------------------
(* Connections.                                                            *)

InLoop == sending = <<>>     \* no callback of the I/O thread is under way

\* Mutant: a connection is listed whether or not there is a monitor.
AnnouncedAlways(k) == Append(openList, k)

Announced(k) == IF monitor THEN Append(openList, k) ELSE openList

\* _OnTcpConnection: the transport is registered before uv_accept, whose
\* failure leaves it registered.
OnTcpConnection(k) ==
  /\ InLoop /\ status[k] = "none"
  /\ table' = table \cup {k}
  /\ openList' = Announced(k)
  /\ status' \in {[status EXCEPT ![k] = s] : s \in {"INIT", "CONNECTED"}}
  /\ UNCHANGED <<written, dropped, sending, sendVars, queue, monitor,
                 closeList, taskVars, pumpVars, received>>

\* OnRequireClose sends the notice at once: it is called on the I/O thread.
CloseFor(k) ==
  /\ status' = [status EXCEPT ![k] = "CLOSED"]
  /\ written' = [written EXCEPT ![k] = Append(@, Notice)]

\* Close(reason) with a reason: a read or a write failed, the packet was
\* malformed, the method is unknown, or CheckAuth refused the call.
ConnectionFails(k) ==
  /\ InLoop /\ status[k] = "CONNECTED"
  /\ CloseFor(k)
  /\ UNCHANGED <<dropped, sending, sendVars, queue, connVars, taskVars,
                 pumpVars, received>>

PeerOf(k) == IF k \in table THEN k ELSE NullPeer

\* close_cb, then UnRegisterTransport.
OnAfterClose(k) ==
  /\ InLoop /\ status[k] = "CLOSED" /\ k \in table
  /\ table' = table \ {k}
  /\ closeList' = IF monitor THEN Append(closeList, PeerOf(k)) ELSE closeList
  /\ UNCHANGED <<ioVars, sendVars, queue, monitor, openList, taskVars,
                 pumpVars, received>>

-----------------------------------------------------------------------------
(* Calls.                                                                  *)

\* (int64_t)param.transport.get() && 0xFF
GroupId == 1

\* Mutant: calls are spread one by one.
CallWorker(c) == c % WorkerNum

WorkerOf(c) == GroupId % WorkerNum

ThreadOf(c) == IF c \in AppCalls THEN App ELSE WorkerOf(c)

\* OnRecvPacket, ProcessCall and CalleeManager::OnCall for a call they accept.
OnCall(c) ==
  /\ InLoop /\ status[ConnOf[c]] = "CONNECTED"
  /\ \A i \in DOMAIN received : received[i] # c
  /\ received' = Append(received, c)
  /\ queue' = [queue EXCEPT ![ThreadOf(c)] = Append(@, c)]
  /\ UNCHANGED <<ioVars, sendVars, connVars, taskVars, pumpVars>>

Idle(t) == batch[t] = <<>> /\ out[t] = <<>> /\ ~sig[t]

\* ServerWorker::_OnIdle, or the application thread in PumpMessage.
TakeTasks(t) ==
  /\ Idle(t)
  /\ t = App => pump = "tell" /\ opens = <<>> /\ closes = <<>>
  /\ batch' = [batch EXCEPT ![t] = queue[t]]
  /\ queue' = [queue EXCEPT ![t] = <<>>]
  /\ pump' = IF t = App THEN "tasks" ELSE pump
  /\ UNCHANGED <<ioVars, sendVars, connVars, out, sig, opens, closes, told,
                 received>>

\* What the handler of c sends: its own CloseConnection, if it has a peer to
\* call it on, and the answer Invork sends when the handler has returned.
Sends(c) ==
  LET P(x) == [conn |-> ConnOf[c], call |-> x]
  IN  IF c \in Closers /\ PeerOf(ConnOf[c]) # NullPeer
      THEN <<P(NullBuffer), P(c)>>
      ELSE <<P(c)>>

\* DoTask: the handler starts, with the peer of its connection.
DoTask(t) ==
  /\ batch[t] # <<>> /\ out[t] = <<>> /\ ~sig[t]
  /\ batch' = [batch EXCEPT ![t] = Tail(@)]
  /\ out' = [out EXCEPT ![t] = Sends(Head(batch[t]))]
  /\ UNCHANGED <<ioVars, sendVars, queue, connVars, sig, pumpVars, received>>

\* QueueSend puts the packet in the list ...
Push(t) ==
  /\ out[t] # <<>> /\ ~sig[t]
  /\ resultList' = Append(resultList, Head(out[t]))
  /\ out' = [out EXCEPT ![t] = Tail(@)]
  /\ sig' = [sig EXCEPT ![t] = TRUE]
  /\ UNCHANGED <<ioVars, signalled, queue, connVars, batch, pumpVars, received>>

SignalSent == TRUE

\* ... and signals the loop.
Signal(t) ==
  /\ sig[t]
  /\ sig' = [sig EXCEPT ![t] = FALSE]
  /\ signalled' = SignalSent
  /\ UNCHANGED <<ioVars, resultList, queue, connVars, batch, out, pumpVars,
                 received>>

-----------------------------------------------------------------------------
(* RpcClientAccept::_OnAsync.                                              *)

\* libuv clears the signal, then _OnAsync takes the whole list.
AsyncBegin ==
  /\ InLoop /\ signalled
  /\ signalled' = FALSE
  /\ sending' = resultList
  /\ resultList' = <<>>
  /\ UNCHANGED <<status, written, dropped, queue, connVars, taskVars, pumpVars,
                 received>>

\* An empty buffer: Close(0), without notice.
CloseQuietly(k) ==
  /\ status' = [status EXCEPT ![k] = "CLOSED"]
  /\ UNCHANGED <<written, dropped>>

\* Mutant: a packet is written whatever became of its connection.
SendableAlways(k) == TRUE

\* uv_write refuses a handle that was closed.
Sendable(k) == status[k] = "CONNECTED"

\* Send: the packet is written, or lost because uv_write refused it at once,
\* as it may on any handle; DoSend ignores which.
SendAnswer(k, c) ==
  \/ /\ Sendable(k)
     /\ written' = [written EXCEPT ![k] = Append(@, c)]
     /\ UNCHANGED <<status, dropped>>
  \/ /\ dropped' = dropped \cup {c}
     /\ UNCHANGED <<status, written>>

\* Mutant: the loop stops at the first packet that cannot be sent.
SendingUntilFailure ==
  IF Sendable(Head(sending).conn) THEN Tail(sending) ELSE <<>>

SendingLeft == Tail(sending)

DoSend ==
  /\ sending # <<>>
  /\ LET p == Head(sending)
     IN  IF p.call = NullBuffer
         THEN CloseQuietly(p.conn)
         ELSE SendAnswer(p.conn, p.call)
  /\ sending' = SendingLeft
  /\ UNCHANGED <<sendVars, queue, connVars, taskVars, pumpVars, received>>

-----------------------------------------------------------------------------
(* The application thread: RpcApplication::RunOnce over and over.          *)

\* SetConnectMonitor, once, outside PumpMonitorMessage.  The order in which an
\* unordered_map is walked is unspecified.
SetConnectMonitor ==
  /\ pump = "tasks" /\ ~monitor
  /\ monitor' = TRUE
  /\ \E order \in [1..Cardinality(table) -> table] :
       /\ \A k \in table : \E i \in DOMAIN order : order[i] = k
       /\ openList' = openList \o order
  /\ UNCHANGED <<ioVars, sendVars, queue, table, closeList, taskVars, pumpVars,
                 received>>

\* Mutant: nothing is taken unless a connection was opened.
HasNewConnection == monitor /\ openList # <<>>

HasMonitor == monitor

\* PumpMonitorMessage up to the unlock.
PumpMonitor ==
  /\ pump = "tasks" /\ Idle(App)
  /\ pump' = "tell"
  /\ IF HasMonitor
     THEN /\ opens' = openList /\ closes' = closeList
          /\ openList' = <<>> /\ closeList' = <<>>
     ELSE UNCHANGED <<opens, closes, openList, closeList>>
  /\ UNCHANGED <<ioVars, sendVars, queue, table, monitor, taskVars, told,
                 received>>

TellOpen ==
  /\ pump = "tell" /\ opens # <<>>
  /\ told' = [told EXCEPT ![Head(opens)] = Append(@, "open")]
  /\ opens' = Tail(opens)
  /\ UNCHANGED <<ioVars, sendVars, queue, connVars, taskVars, pump, closes,
                 received>>

TellClose ==
  /\ pump = "tell" /\ opens = <<>> /\ closes # <<>>
  /\ told' = [told EXCEPT ![Head(closes)] = Append(@, "close")]
  /\ closes' = Tail(closes)
  /\ UNCHANGED <<ioVars, sendVars, queue, connVars, taskVars, pump, opens,
                 received>>

-----------------------------------------------------------------------------
Handler(t) == TakeTasks(t) \/ DoTask(t) \/ Push(t) \/ Signal(t)

Peer == \/ \E k \in Conns : OnTcpConnection(k) \/ ConnectionFails(k)
        \/ \E c \in Calls : OnCall(c)

Next == \/ Peer \/ AsyncBegin \/ DoSend \/ \E k \in Conns : OnAfterClose(k)
        \/ \E t \in Threads : Handler(t)
        \/ SetConnectMonitor \/ PumpMonitor \/ TellOpen \/ TellClose

Spec == Init /\ [][Next]_vars

\* The I/O loop serves its signal and its closing handles, a worker its list
\* from an idle callback that never stops, and the application runs its loop.
\* Nothing is assumed of the peers.
Fairness ==
  /\ WF_vars(AsyncBegin) /\ WF_vars(DoSend)
  /\ \A k \in Conns : SF_vars(OnAfterClose(k))
  /\ \A t \in Threads : WF_vars(Handler(t))
  /\ WF_vars(PumpMonitor) /\ WF_vars(TellOpen) /\ WF_vars(TellClose)

FairSpec == Spec /\ Fairness

-----------------------------------------------------------------------------
(* Properties.                                                             *)

\* The variables of the server keep their types; no list of peers holds the
\* null peer of a connection that was unregistered before.
TypeOK ==
  /\ status \in [Conns -> {"none", "INIT", "CONNECTED", "CLOSED"}]
  /\ written \in [Conns -> Seq(Calls \cup {Notice})] /\ dropped \subseteq Calls
  /\ sending \in Seq(Packet) /\ resultList \in Seq(Packet)
  /\ signalled \in BOOLEAN
  /\ queue \in [Threads -> Seq(Calls)] /\ batch \in [Threads -> Seq(Calls)]
  /\ out \in [Threads -> Seq(Packet)] /\ sig \in [Threads -> BOOLEAN]
  /\ table \subseteq Conns /\ monitor \in BOOLEAN
  /\ openList \in Seq(Conns) /\ closeList \in Seq(Conns)
  /\ pump \in {"tell", "tasks"}
  /\ opens \in Seq(Conns) /\ closes \in Seq(Conns)
  /\ received \in Seq(Calls)
  /\ told \in [Conns -> Seq({"open", "close"})]

\* Answers to calls that one thread runs are written on their connection in
\* the order the calls came in, through the thread's list, the handlers and
\* the result list: a peer that pipelines calls of one kind reads the answers
\* in order, however many workers there are.
AnswersInOrder ==
  LET Pos(c) == CHOOSE i \in DOMAIN received : received[i] = c
  IN  \A k \in Conns : \A i, j \in DOMAIN written[k] :
        LET c == written[k][i]
            d == written[k][j]
        IN  i < j /\ Notice \notin {c, d} /\ (c \in AppCalls <=> d \in AppCalls)
              => Pos(c) < Pos(d)

\* What the monitor was told of a connection and what is still to be told, in
\* the order it will be.
Marks(list, k, what) ==
  [i \in 1..Cardinality({j \in DOMAIN list : list[j] = k}) |-> what]

Story(k) == told[k] \o Marks(opens, k, "open") \o Marks(closes, k, "close")
                    \o Marks(openList, k, "open") \o Marks(closeList, k, "close")

\* Whenever the monitor is set, and however opens, closes and pumps interleave
\* with it, it is told once of every connection that is open then or later,
\* and once of its close, after that; a connection that closed before is not
\* mentioned.
MonitorAgrees ==
  \A k \in Conns :
    IF ~monitor THEN Story(k) = <<>>
    ELSE IF k \in table THEN Story(k) = <<"open">>
    ELSE Story(k) \in {<<>>, <<"open", "close">>}
         /\ (status[k] = "none" => Story(k) = <<>>)

\* A packet in the result list has a signal under way, or the thread that put
\* it there is about to send one.
NoLostAnswer ==
  resultList # <<>> => signalled \/ \E t \in Threads : sig[t]

Answered(c) == \E i \in DOMAIN written[ConnOf[c]] : written[ConnOf[c]][i] = c

Has(list, x) == \E i \in DOMAIN list : list[i] = x

AnswerTo(c) == [conn |-> ConnOf[c], call |-> c]

\* No call is lost between two threads, nor an answer behind one that cannot be
\* sent: a call that OnCall accepted waits for a thread, or its answer is on
\* its way to its connection, or was written there, or refused by uv_write.
CallKept ==
  \A c \in Calls : Has(received, c) =>
    \/ \E t \in Threads : \/ Has(queue[t], c) \/ Has(batch[t], c)
                          \/ Has(out[t], AnswerTo(c))
    \/ Has(resultList, AnswerTo(c)) \/ Has(sending, AnswerTo(c))
    \/ Answered(c) \/ c \in dropped

\* Every call that OnCall accepts is answered, or uv_write refused the answer:
\* whichever connection fails, and whatever other answers are lost.
CallsAnswered ==
  \A c \in Calls :
    (\E i \in DOMAIN received : received[i] = c) ~> Answered(c) \/ c \in dropped

\* A connection that a handler asks to close is closed, and a monitor that
\* knows of a connection is told when it has closed.
CloseTold ==
  \A k \in Conns :
    /\ (\E t \in Threads : \E i \in DOMAIN out[t] :
          out[t][i] = [conn |-> k, call |-> NullBuffer])
         ~> status[k] = "CLOSED"
    /\ Story(k) # <<>> /\ status[k] = "CLOSED"
         ~> told[k] = <<"open", "close">>

\* The object behind the TcpPeer* of a connection, while something owns it.
PeerAlive(k) ==
  \/ k \in table
  \/ \E list \in {openList, closeList, opens, closes} :
       \E i \in DOMAIN list : list[i] = k

\* A handler that runs has a peer: its TcpPeer* is not null and its object
\* has not been freed.
HandlerHasPeer ==
  \A t \in Threads : \A i \in DOMAIN out[t] : PeerAlive(out[t][i].conn)

-----------------------------------------------------------------------------
(* The server implements Service.                                          *)

Links(st) == [k \in Conns |-> IF st[k] = "CONNECTED" THEN "open"
                              ELSE IF st[k] = "CLOSED" THEN "closed"
                              ELSE "none"]

Asked(list) == {list[i] : i \in DOMAIN list}

SVC == INSTANCE Service WITH
  link <- Links(status), asked <- Asked(received), replies <- written

\* Every behaviour of the server is one of Service: a call is answered at most
\* once, on its connection and while that is open, and nothing follows the
\* notice of a close.
ImplementsService == SVC!Spec

=============================================================================
