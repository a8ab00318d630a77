---------------------------- MODULE ServerProofs ----------------------------
(***************************************************************************)
(* Proofs about Server, for any connections, calls, handlers and number of *)
(* workers.                                                                *)
(***************************************************************************)
EXTENDS Server, QueueOrder, FiniteSetTheorems

USE ConnsAssumption, CallsAssumption, WorkersAssumption

-----------------------------------------------------------------------------
(* Operators.                                                              *)

LEMMA ElementType ==
  ASSUME NEW S, NEW s \in Seq(S), s # <<>>
  PROVE  Head(s) \in S /\ Tail(s) \in Seq(S)
OBVIOUS

LEMMA AppendType ==
  ASSUME NEW D, NEW S, NEW f \in [D -> Seq(S)], NEW d \in D, NEW x \in S
  PROVE  [f EXCEPT ![d] = Append(@, x)] \in [D -> Seq(S)]
<1>1. Append(f[d], x) \in Seq(S)
  OBVIOUS
<1> QED BY <1>1

LEMMA FunctionType ==
  ASSUME NEW S, NEW n \in Nat, NEW f \in [1..n -> S]
  PROVE  f \in Seq(S)
<1>1. [1..n -> S] \in {[1..m -> S] : m \in Nat}
  BY Zenon
<1>2. f \in UNION {[1..m -> S] : m \in Nat}
  BY <1>1, Zenon
<1> QED BY <1>2, SeqDef, Zenon

LEMMA ThreadsType == App \in Threads /\ \A c \in Calls : ThreadOf(c) \in Threads
<1>1. GroupId % WorkerNum \in 0..(WorkerNum - 1)
  BY DEF GroupId
<1> QED BY <1>1 DEF App, Threads, ThreadOf, WorkerOf

LEMMA SendsType == \A c \in Calls : Sends(c) \in Seq(Packet)
<1> SUFFICES ASSUME NEW c \in Calls PROVE Sends(c) \in Seq(Packet)
  OBVIOUS
<1>1. ConnOf[c] \in Conns
  OBVIOUS
<1>2. /\ [conn |-> ConnOf[c], call |-> NullBuffer] \in Packet
      /\ [conn |-> ConnOf[c], call |-> c] \in Packet
  BY <1>1 DEF Packet
<1> HIDE DEF Packet
<1> QED BY <1>2 DEF Sends

-----------------------------------------------------------------------------
(* Types.                                                                  *)

\* The Boolean variables, whose type Zenon proves and the SMT solver does not.
BooleansOK ==
  signalled \in BOOLEAN /\ monitor \in BOOLEAN /\ sig \in [Threads -> BOOLEAN]

LEMMA StepBooleans == BooleansOK /\ [Next]_vars => BooleansOK'
<1> SUFFICES ASSUME BooleansOK, [Next]_vars PROVE BooleansOK'
  OBVIOUS
<1> USE DEF BooleansOK, ioVars, sendVars, connVars, taskVars, pumpVars
<1>1. CASE Peer
  BY <1>1, Zenon DEF Peer, OnTcpConnection, ConnectionFails, OnCall
<1>2. CASE AsyncBegin \/ DoSend \/ \E k \in Conns : OnAfterClose(k)
  BY <1>2, Zenon DEF AsyncBegin, DoSend, OnAfterClose
<1>3. ASSUME NEW t \in Threads, Handler(t) PROVE BooleansOK'
  <2>1. CASE TakeTasks(t) \/ DoTask(t)
    BY <2>1, Zenon DEF TakeTasks, DoTask
  <2>2. CASE Push(t)
    <3>1. [sig EXCEPT ![t] = TRUE] \in [Threads -> BOOLEAN]
      OBVIOUS
    <3> QED BY <2>2, <3>1, Zenon DEF Push
  <2>3. CASE Signal(t)
    <3>1. [sig EXCEPT ![t] = FALSE] \in [Threads -> BOOLEAN]
      OBVIOUS
    <3> QED BY <2>3, <3>1, Zenon DEF Signal, SignalSent
  <2> QED BY <1>3, <2>1, <2>2, <2>3 DEF Handler
<1>4. CASE SetConnectMonitor \/ PumpMonitor \/ TellOpen \/ TellClose
  BY <1>4, Zenon DEF SetConnectMonitor, PumpMonitor, TellOpen, TellClose
<1>5. CASE UNCHANGED vars
  BY <1>5, Zenon DEF vars
<1> QED BY <1>1, <1>2, <1>3, <1>4, <1>5 DEF Next

LEMMA InitInv == Init => TypeOK /\ NoLostAnswer
<1> SUFFICES ASSUME Init PROVE TypeOK /\ NoLostAnswer
  OBVIOUS
<1>1. BooleansOK
  BY Zenon DEF Init, BooleansOK
<1> QED BY <1>1 DEF Init, TypeOK, BooleansOK, NoLostAnswer

LEMMA StepType == TypeOK /\ [Next]_vars => TypeOK'
<1> SUFFICES ASSUME TypeOK, [Next]_vars PROVE TypeOK'
  OBVIOUS
<1>0. BooleansOK'
  BY StepBooleans DEF TypeOK, BooleansOK
<1> USE <1>0 DEF TypeOK, BooleansOK, ioVars, sendVars, connVars, taskVars, pumpVars
<1>1. CASE Peer
  <2>1. ASSUME NEW k \in Conns, OnTcpConnection(k) PROVE TypeOK'
    <3>1. openList' \in Seq(Conns)
      BY <2>1 DEF OnTcpConnection, Announced
    <3>2. status' \in [Conns -> {"none", "INIT", "CONNECTED", "CLOSED"}]
      BY <2>1 DEF OnTcpConnection
    <3> QED BY <2>1, <3>1, <3>2 DEF OnTcpConnection
  <2>2. ASSUME NEW k \in Conns, ConnectionFails(k) PROVE TypeOK'
    <3>1. written' \in [Conns -> Seq(Calls \cup {Notice})]
      BY <2>2 DEF ConnectionFails, CloseFor
    <3>2. status' \in [Conns -> {"none", "INIT", "CONNECTED", "CLOSED"}]
      BY <2>2 DEF ConnectionFails, CloseFor
    <3> QED BY <2>2, <3>1, <3>2 DEF ConnectionFails
  <2>3. ASSUME NEW c \in Calls, OnCall(c) PROVE TypeOK'
    <3>1. queue' \in [Threads -> Seq(Calls)]
      BY <2>3, ThreadsType DEF OnCall
    <3> QED BY <2>3, <3>1 DEF OnCall
  <2> QED BY <1>1, <2>1, <2>2, <2>3 DEF Peer
<1>2. CASE AsyncBegin
  BY <1>2 DEF AsyncBegin
<1>3. CASE DoSend
  <2>1. Head(sending) \in Packet /\ Tail(sending) \in Seq(Packet)
    BY <1>3, ElementType, Zenon DEF DoSend
  <2>2. Head(sending).conn \in Conns /\ Head(sending).call \in Calls \cup {NullBuffer}
    BY <2>1 DEF Packet
  <2>3. sending' \in Seq(Packet)
    BY <1>3, <2>1 DEF DoSend, SendingLeft
  <2>4. CASE Head(sending).call = NullBuffer
    <3>1. CloseQuietly(Head(sending).conn)
      BY <1>3, <2>4 DEF DoSend
    <3>2. status' \in [Conns -> {"none", "INIT", "CONNECTED", "CLOSED"}]
      BY <2>2, <3>1 DEF CloseQuietly
    <3> QED BY <1>3, <2>3, <3>1, <3>2 DEF DoSend, CloseQuietly
  <2>5. CASE Head(sending).call # NullBuffer
    <3>1. SendAnswer(Head(sending).conn, Head(sending).call)
      BY <1>3, <2>5 DEF DoSend
    <3>2. Head(sending).call \in Calls
      BY <2>2, <2>5
    <3>6. /\ written \in [Conns -> Seq(Calls \cup {Notice})]
          /\ Head(sending).call \in Calls \cup {Notice}
      BY <3>2
    <3>3. [written EXCEPT ![Head(sending).conn] = Append(@, Head(sending).call)]
            \in [Conns -> Seq(Calls \cup {Notice})]
      BY <2>2, <3>6, AppendType, Zenon
    <3>5. written' \in [Conns -> Seq(Calls \cup {Notice})]
      BY <3>1, <3>3, Zenon DEF SendAnswer
    <3>4. dropped' \subseteq Calls /\ status' = status
      BY <3>1, <3>2 DEF SendAnswer
    <3> QED BY <1>3, <2>3, <3>4, <3>5 DEF DoSend
  <2> QED BY <2>4, <2>5
<1>4. ASSUME NEW k \in Conns, OnAfterClose(k) PROVE TypeOK'
  <2>1. closeList' \in Seq(Conns)
    BY <1>4 DEF OnAfterClose, PeerOf
  <2> QED BY <1>4, <2>1 DEF OnAfterClose
<1>5. ASSUME NEW t \in Threads, Handler(t) PROVE TypeOK'
  <2>1. CASE TakeTasks(t)
    <3>1. batch' \in [Threads -> Seq(Calls)] /\ queue' \in [Threads -> Seq(Calls)]
      BY <2>1 DEF TakeTasks
    <3>2. pump' \in {"tell", "tasks"}
      BY <2>1 DEF TakeTasks
    <3> QED BY <2>1, <3>1, <3>2 DEF TakeTasks
  <2>2. CASE DoTask(t)
    <3>1. Head(batch[t]) \in Calls /\ Tail(batch[t]) \in Seq(Calls)
      BY <2>2, ElementType DEF DoTask
    <3>2. batch' \in [Threads -> Seq(Calls)]
      BY <2>2, <3>1 DEF DoTask
    <3>3. out' \in [Threads -> Seq(Packet)]
      BY <2>2, <3>1, SendsType DEF DoTask
    <3> QED BY <2>2, <3>2, <3>3 DEF DoTask
  <2>3. CASE Push(t)
    <3>1. Head(out[t]) \in Packet /\ Tail(out[t]) \in Seq(Packet)
      BY <2>3, ElementType DEF Push
    <3>2. out' \in [Threads -> Seq(Packet)]
      BY <2>3, <3>1 DEF Push
    <3>3. resultList' \in Seq(Packet)
      BY <2>3, <3>1 DEF Push
    <3> QED BY <2>3, <3>2, <3>3 DEF Push
  <2>4. CASE Signal(t)
    BY <2>4 DEF Signal
  <2> QED BY <1>5, <2>1, <2>2, <2>3, <2>4 DEF Handler
<1>6. CASE SetConnectMonitor
  <2>1. Cardinality(table) \in Nat
    BY FS_Subset, FS_CardinalityType
  <2>2. PICK order \in [1..Cardinality(table) -> table] : openList' = openList \o order
    BY <1>6 DEF SetConnectMonitor
  <2>3. order \in [1..Cardinality(table) -> Conns]
    OBVIOUS
  <2>5. order \in Seq(Conns)
    BY <2>1, <2>3, FunctionType
  <2>4. openList' \in Seq(Conns)
    BY <2>2, <2>5
  <2> QED BY <1>6, <2>4 DEF SetConnectMonitor
<1>7. CASE PumpMonitor
  <2>1. CASE HasMonitor
    BY <1>7, <2>1 DEF PumpMonitor
  <2>2. CASE ~HasMonitor
    BY <1>7, <2>2 DEF PumpMonitor
  <2> QED BY <2>1, <2>2
<1>8. CASE TellOpen
  <2>1. Head(opens) \in Conns /\ Tail(opens) \in Seq(Conns)
    BY <1>8, ElementType DEF TellOpen
  <2>2. [told EXCEPT ![Head(opens)] = Append(@, "open")]
          \in [Conns -> Seq({"open", "close"})]
    BY <2>1, AppendType
  <2>3. told' \in [Conns -> Seq({"open", "close"})]
    BY <1>8, <2>2, Zenon DEF TellOpen
  <2> QED BY <1>8, <2>1, <2>3 DEF TellOpen
<1>9. CASE TellClose
  <2>1. Head(closes) \in Conns /\ Tail(closes) \in Seq(Conns)
    BY <1>9, ElementType DEF TellClose
  <2>2. [told EXCEPT ![Head(closes)] = Append(@, "close")]
          \in [Conns -> Seq({"open", "close"})]
    BY <2>1, AppendType
  <2>3. told' \in [Conns -> Seq({"open", "close"})]
    BY <1>9, <2>2, Zenon DEF TellClose
  <2> QED BY <1>9, <2>1, <2>3 DEF TellClose
<1>10. CASE UNCHANGED vars
  BY <1>10 DEF vars
<1> QED BY <1>1, <1>2, <1>3, <1>4, <1>5, <1>6, <1>7, <1>8, <1>9, <1>10 DEF Next

\* The variables of the server keep their types.
THEOREM TypeCorrect == Spec => []TypeOK
<1>1. Init => TypeOK BY InitInv
<1>2. TypeOK /\ [Next]_vars => TypeOK' BY StepType
<1> QED BY <1>1, <1>2, PTL DEF Spec

-----------------------------------------------------------------------------
(* The result list and its signal.                                         *)

LEMMA StepNoLostAnswer ==
  ASSUME TypeOK, NoLostAnswer, [Next]_vars
  PROVE  NoLostAnswer'
<1> USE DEF NoLostAnswer, ioVars, sendVars, connVars, taskVars, pumpVars
<1>1. CASE Peer
  BY <1>1 DEF Peer, OnTcpConnection, ConnectionFails, OnCall
<1>2. CASE AsyncBegin
  BY <1>2 DEF AsyncBegin
<1>3. CASE DoSend \/ \E k \in Conns : OnAfterClose(k)
  BY <1>3 DEF DoSend, OnAfterClose
<1>4. ASSUME NEW t \in Threads, Handler(t) PROVE NoLostAnswer'
  <2>1. CASE TakeTasks(t) \/ DoTask(t)
    BY <2>1 DEF TakeTasks, DoTask
  <2>2. CASE Push(t)
    <3>1. sig'[t]
      BY <2>2 DEF Push, TypeOK
    <3> QED BY <3>1
  <2>3. CASE Signal(t)
    <3>1. signalled'
      BY <2>3, Zenon DEF Signal, SignalSent
    <3> QED BY <3>1
  <2> QED BY <1>4, <2>1, <2>2, <2>3 DEF Handler
<1>5. CASE SetConnectMonitor \/ PumpMonitor \/ TellOpen \/ TellClose
  BY <1>5 DEF SetConnectMonitor, PumpMonitor, TellOpen, TellClose
<1>6. CASE UNCHANGED vars
  BY <1>6 DEF vars
<1> QED BY <1>1, <1>2, <1>3, <1>4, <1>5, <1>6 DEF Next

\* Whatever threads queue packets against the loop that sends them, no packet
\* waits in the result list without a signal that will have it sent.
THEOREM NoAnswerIsLost == Spec => []NoLostAnswer
<1>1. Init => TypeOK /\ NoLostAnswer BY InitInv
<1>2. TypeOK /\ NoLostAnswer /\ [Next]_vars => (TypeOK /\ NoLostAnswer)'
  BY StepType, StepNoLostAnswer
<1> QED BY <1>1, <1>2, PTL DEF Spec

-----------------------------------------------------------------------------
(* No call is lost.                                                        *)

\* Where the call c, or its answer, is.
Waits(c, q, b) == \E t \in Threads : In(c, q[t]) \/ In(c, b[t])
Produced(c, o) == \E t \in Threads : In(AnswerTo(c), o[t])
Leaving(c, l, s) == In(AnswerTo(c), l) \/ In(AnswerTo(c), s)
Over(c, w, d) == In(c, w[ConnOf[c]]) \/ c \in d

Somewhere(c) ==
  \/ Waits(c, queue, batch) \/ Produced(c, out) \/ Leaving(c, resultList, sending)
  \/ Over(c, written, dropped)

LEMMA KeptIs ==
  CallKept <=> \A c \in Calls : In(c, received) => Somewhere(c)
BY DEF CallKept, Has, In, Somewhere, Waits, Produced, Leaving, Over, Answered

LEMMA AnswerType ==
  \A c \in Calls : /\ AnswerTo(c) \in Packet
                   /\ AnswerTo(c).conn = ConnOf[c] /\ AnswerTo(c).call = c
                   /\ \A p \in Packet : p = AnswerTo(c) <=> p.call = c /\ p.conn = ConnOf[c]
BY DEF AnswerTo, Packet

\* The answer is among what a handler sends.
LEMMA SendsAnswer == \A c \in Calls : In(AnswerTo(c), Sends(c))
<1> SUFFICES ASSUME NEW c \in Calls PROVE In(AnswerTo(c), Sends(c))
  OBVIOUS
<1> DEFINE n == [conn |-> ConnOf[c], call |-> NullBuffer]
           a == AnswerTo(c)
<1>1. Sends(c) = <<n, a>> \/ Sends(c) = <<a>>
  BY DEF Sends, AnswerTo
<1> HIDE DEF n, a
<1>2. 2 \in DOMAIN <<n, a>> /\ <<n, a>>[2] = a /\ 1 \in DOMAIN <<a>> /\ <<a>>[1] = a
  OBVIOUS
<1>3. In(a, <<n, a>>) /\ In(a, <<a>>)
  BY <1>2 DEF In
<1> QED BY <1>1, <1>3 DEF a

\* A step that moves no call.
LEMMA SomewhereStays ==
  ASSUME NEW c, Somewhere(c),
         Waits(c, queue, batch) => Waits(c, queue', batch'),
         Produced(c, out) => Produced(c, out'),
         Leaving(c, resultList, sending) => Leaving(c, resultList', sending'),
         Over(c, written, dropped) => Over(c, written', dropped')
  PROVE  Somewhere(c)'
BY DEF Somewhere

LEMMA KeptCall ==
  ASSUME TypeOK, CallKept, NEW d \in Calls, OnCall(d)
  PROVE  CallKept'
<1> SUFFICES ASSUME NEW c \in Calls, In(c, received') PROVE Somewhere(c)'
  BY DEF CallKept, Has, In, Somewhere, Waits, Produced, Leaving, Over, Answered
<1> DEFINE u == ThreadOf(d)
<1>1. /\ received' = Append(received, d) /\ received \in Seq(Calls)
      /\ queue' = [queue EXCEPT ![u] = Append(@, d)] /\ queue \in [Threads -> Seq(Calls)]
      /\ u \in Threads
      /\ UNCHANGED <<batch, out, resultList, sending, written, dropped>>
  BY ThreadsType DEF OnCall, TypeOK, ioVars, sendVars, taskVars
<1> HIDE DEF u
<1>2. \A x : In(x, Append(queue[u], d)) <=> In(x, queue[u]) \/ x = d
  <2>1. queue[u] \in Seq(Calls)
    BY <1>1
  <2> QED BY <2>1, InAppend
<1>3. queue'[u] = Append(queue[u], d) /\ \A t \in Threads : t # u => queue'[t] = queue[t]
  BY <1>1
<1>4. CASE c = d
  <2>1. In(c, queue'[u])
    BY <1>2, <1>3, <1>4
  <2> QED BY <1>1, <2>1 DEF Somewhere, Waits
<1>5. CASE c # d
  <2>1. In(c, received)
    BY <1>1, <1>5, InAppend
  <2>2. Somewhere(c)
    BY <2>1, KeptIs
  <2>3. Waits(c, queue, batch) => Waits(c, queue', batch')
    BY <1>1, <1>2, <1>3 DEF Waits
  <2> QED BY <1>1, <2>2, <2>3, SomewhereStays
<1> QED BY <1>4, <1>5

LEMMA KeptHandler ==
  ASSUME TypeOK, CallKept, NEW u \in Threads, TakeTasks(u) \/ DoTask(u) \/ Push(u)
  PROVE  CallKept'
<1> SUFFICES ASSUME NEW c \in Calls, In(c, received) PROVE Somewhere(c)'
  BY DEF CallKept, Has, In, Somewhere, Waits, Produced, Leaving, Over, Answered,
         TakeTasks, DoTask, Push
<1>1. Somewhere(c)
  BY KeptIs
<1>2. /\ queue \in [Threads -> Seq(Calls)] /\ batch \in [Threads -> Seq(Calls)]
      /\ out \in [Threads -> Seq(Packet)] /\ resultList \in Seq(Packet)
      /\ UNCHANGED <<sending, written, dropped>>
  BY DEF TypeOK, TakeTasks, DoTask, Push, ioVars
<1> HIDE DEF Packet
<1>3. CASE TakeTasks(u)
  <2>1. /\ batch[u] = <<>> /\ batch' = [batch EXCEPT ![u] = queue[u]]
        /\ queue' = [queue EXCEPT ![u] = <<>>]
        /\ UNCHANGED <<out, resultList>>
    BY <1>3 DEF TakeTasks, Idle, sendVars
  <2>2. ~In(c, batch[u])
    BY <2>1 DEF In
  <2>3. Waits(c, queue, batch) => Waits(c, queue', batch')
    BY <1>2, <2>1, <2>2 DEF Waits
  <2> QED BY <1>1, <1>2, <2>1, <2>3, SomewhereStays
<1>4. CASE DoTask(u)
  <2>1. /\ batch[u] # <<>> /\ batch' = [batch EXCEPT ![u] = Tail(batch[u])]
        /\ out[u] = <<>> /\ out' = [out EXCEPT ![u] = Sends(Head(batch[u]))]
        /\ UNCHANGED <<queue, resultList>>
    BY <1>4 DEF DoTask, sendVars
  <2>2. ~In(AnswerTo(c), out[u])
    BY <2>1 DEF In
  <2>3. In(c, batch[u]) => c = Head(batch[u]) \/ In(c, batch'[u])
    BY <1>2, <2>1, InHeadTail
  <2>4. c = Head(batch[u]) => In(AnswerTo(c), out'[u])
    BY <1>2, <2>1, SendsAnswer
  <2>5. Produced(c, out) => Produced(c, out')
    BY <1>2, <2>1, <2>2 DEF Produced
  <2>6. Waits(c, queue, batch) => Waits(c, queue', batch') \/ Produced(c, out')
    BY <1>2, <2>1, <2>3, <2>4 DEF Waits, Produced
  <2> QED BY <1>1, <1>2, <2>1, <2>5, <2>6 DEF Somewhere
<1>5. CASE Push(u)
  <2>1. /\ out[u] # <<>> /\ out' = [out EXCEPT ![u] = Tail(out[u])]
        /\ resultList' = Append(resultList, Head(out[u]))
        /\ UNCHANGED <<queue, batch>>
    BY <1>5 DEF Push
  <2>2. Head(out[u]) \in Packet
    BY <1>2, <2>1, ElementType
  <2>3. \A x : In(x, resultList') <=> In(x, resultList) \/ x = Head(out[u])
    BY <1>2, <2>1, <2>2, InAppend
  <2>4. \A x : In(x, out[u]) => x = Head(out[u]) \/ In(x, out'[u])
    BY <1>2, <2>1, InHeadTail
  <2>5. Produced(c, out) => Produced(c, out') \/ Leaving(c, resultList', sending')
    BY <1>2, <2>1, <2>3, <2>4 DEF Produced, Leaving
  <2>6. Leaving(c, resultList, sending) => Leaving(c, resultList', sending')
    BY <1>2, <2>3 DEF Leaving
  <2> QED BY <1>1, <1>2, <2>1, <2>5, <2>6 DEF Somewhere
<1> QED BY <1>3, <1>4, <1>5

LEMMA KeptSend ==
  ASSUME TypeOK, CallKept, AsyncBegin \/ DoSend
  PROVE  CallKept'
<1> SUFFICES ASSUME NEW c \in Calls, In(c, received) PROVE Somewhere(c)'
  BY DEF CallKept, Has, In, Somewhere, Waits, Produced, Leaving, Over, Answered,
         AsyncBegin, DoSend
<1>1. Somewhere(c)
  BY KeptIs
<1>2. UNCHANGED <<queue, batch, out>>
  BY DEF AsyncBegin, DoSend, taskVars
<1>3. CASE AsyncBegin
  <2>1. sending = <<>> /\ sending' = resultList /\ UNCHANGED <<written, dropped>>
    BY <1>3 DEF AsyncBegin, InLoop
  <2>2. ~In(AnswerTo(c), sending)
    BY <2>1 DEF In
  <2>3. Leaving(c, resultList, sending) => Leaving(c, resultList', sending')
    BY <2>1, <2>2 DEF Leaving
  <2> QED BY <1>1, <1>2, <2>1, <2>3, SomewhereStays
<1>4. CASE DoSend
  <2> DEFINE p == Head(sending)
             k == p.conn
  <2>1. /\ sending # <<>> /\ sending' = Tail(sending) /\ sending \in Seq(Packet)
        /\ resultList' = resultList
        /\ written \in [Conns -> Seq(Calls \cup {Notice})]
        /\ dropped \subseteq Calls
    BY <1>4 DEF DoSend, SendingLeft, sendVars, TypeOK
  <2>2. p \in Packet
    BY <2>1, ElementType
  <2>3. In(AnswerTo(c), sending) => p = AnswerTo(c) \/ In(AnswerTo(c), sending')
    BY <2>1, InHeadTail
  <2>4. CASE p.call = NullBuffer
    <3>1. UNCHANGED <<written, dropped>>
      BY <1>4, <2>4 DEF DoSend, CloseQuietly
    <3>2. p # AnswerTo(c)
      BY <2>4, AnswerType DEF NullBuffer
    <3>3. Leaving(c, resultList, sending) => Leaving(c, resultList', sending')
      BY <2>1, <2>3, <3>2 DEF Leaving
    <3> QED BY <1>1, <1>2, <3>1, <3>3, SomewhereStays
  <2>5. CASE p.call # NullBuffer
    <3>1. SendAnswer(k, p.call)
      BY <1>4, <2>5 DEF DoSend
    <3>2. k \in Conns /\ p.call \in Calls \cup {Notice} /\ written[k] \in Seq(Calls \cup {Notice})
      BY <2>1, <2>2 DEF Packet, NullBuffer, Notice
    <3> HIDE DEF p, k
    <3>3. \A x : In(x, Append(written[k], p.call)) <=> In(x, written[k]) \/ x = p.call
      BY <3>2, InAppend
    <3>4. p = AnswerTo(c) => p.call = c /\ k = ConnOf[c]
      BY AnswerType DEF k
    <3>5. /\ Over(c, written, dropped) => Over(c, written', dropped')
          /\ p = AnswerTo(c) => Over(c, written', dropped')
      <4>0. ConnOf[c] \in Conns
        OBVIOUS
      <4>1. CASE written' = [written EXCEPT ![k] = Append(@, p.call)] /\ dropped' = dropped
        <5>1. /\ written'[k] = Append(written[k], p.call)
              /\ \A l \in Conns : l # k => written'[l] = written[l]
          BY <2>1, <3>2, <4>1
        <5>2. In(c, written[ConnOf[c]]) => In(c, written'[ConnOf[c]])
          BY <3>3, <4>0, <5>1
        <5>3. p = AnswerTo(c) => In(c, written'[ConnOf[c]])
          BY <3>3, <3>4, <5>1
        <5> QED BY <4>1, <5>2, <5>3 DEF Over
      <4>2. CASE written' = written /\ dropped' = dropped \cup {p.call}
        BY <3>4, <4>2 DEF Over
      <4> QED BY <3>1, <4>1, <4>2 DEF SendAnswer
    <3>6. Leaving(c, resultList, sending) =>
            Leaving(c, resultList', sending') \/ Over(c, written', dropped')
      BY <2>1, <2>3, <3>5 DEF Leaving, p
    <3> QED BY <1>1, <1>2, <3>5, <3>6 DEF Somewhere
  <2> QED BY <2>4, <2>5
<1> QED BY <1>3, <1>4

LEMMA StepKept ==
  ASSUME TypeOK, CallKept, [Next]_vars
  PROVE  CallKept'
<1> USE DEF ioVars, sendVars, connVars, taskVars, pumpVars
<1>1. CASE UNCHANGED <<received, queue, batch, out, resultList, sending, written, dropped>>
  BY <1>1 DEF CallKept, Has, Answered
<1>2. ASSUME NEW k \in Conns, ConnectionFails(k) PROVE CallKept'
  <2>1. /\ written' = [written EXCEPT ![k] = Append(@, Notice)]
        /\ written \in [Conns -> Seq(Calls \cup {Notice})]
        /\ UNCHANGED <<received, queue, batch, out, resultList, sending, dropped>>
    BY <1>2 DEF ConnectionFails, CloseFor, TypeOK
  <2>2. \A x : In(x, written[k]) => In(x, Append(written[k], Notice))
    <3>1. written[k] \in Seq(Calls \cup {Notice}) /\ Notice \in Calls \cup {Notice}
      BY <2>1
    <3> QED BY <3>1, InAppend
  <2> SUFFICES ASSUME NEW c \in Calls, In(c, received) PROVE Somewhere(c)'
    BY <2>1 DEF CallKept, Has, In, Somewhere, Waits, Produced, Leaving, Over, Answered
  <2>3. Over(c, written, dropped) => Over(c, written', dropped')
    BY <2>1, <2>2 DEF Over
  <2> QED BY <2>1, <2>3, KeptIs, SomewhereStays
<1>3. CASE \/ \E k \in Conns : OnTcpConnection(k) \/ OnAfterClose(k)
           \/ \E t \in Threads : Signal(t)
           \/ SetConnectMonitor \/ PumpMonitor \/ TellOpen \/ TellClose
           \/ UNCHANGED vars
  BY <1>1, <1>3 DEF OnTcpConnection, OnAfterClose, Signal, SetConnectMonitor,
       PumpMonitor, TellOpen, TellClose, vars
<1> QED BY <1>2, <1>3, KeptCall, KeptHandler, KeptSend DEF Next, Peer, Handler

\* Every call accepted is somewhere between its connection and its answer,
\* whatever becomes of the connection, the other calls and their answers.
THEOREM KeptCorrect == Spec => []CallKept
<1>1. Init => CallKept
  BY DEF Init, CallKept, Has
<1>2. TypeOK /\ CallKept /\ [Next]_vars => CallKept'
  BY StepKept
<1> QED BY <1>1, <1>2, TypeCorrect, PTL DEF Spec

-----------------------------------------------------------------------------
(* The way of a call through the server: its thread's list, the tasks the  *)
(* thread has taken, the handler's packets, the result list, the list      *)
(* _OnAsync has taken, the wire.                                           *)

Items == Calls \cup {0}

\* The calls of one thread.
Mine(t) == {c \in Calls : ThreadOf(c) = t}

CallsOf(list) == [i \in DOMAIN list |-> list[i].call]

LEMMA ZeroIsNoCall == 0 \in Items /\ 0 \notin Calls
BY CallsAssumption DEF Items

LEMMA CallsOfType ==
  ASSUME NEW s \in Seq(Packet)
  PROVE  CallsOf(s) \in Seq(Items) /\ Len(CallsOf(s)) = Len(s)
<1>1. \A i \in DOMAIN s : s[i].call \in Items
  <2>1. \A p \in Packet : p.call \in Items
    BY DEF Packet, Items, NullBuffer
  <2> QED BY <2>1
<1> QED BY <1>1 DEF CallsOf

LEMMA CallsOfAppend ==
  ASSUME NEW s \in Seq(Packet), NEW p \in Packet
  PROVE  CallsOf(Append(s, p)) = CallsOf(s) \o <<p.call>>
<1>1. p.call \in Items
  BY DEF Packet, Items, NullBuffer
<1> HIDE DEF Packet
<1>2. /\ Append(s, p) \in Seq(Packet) /\ <<p.call>> \in Seq(Items)
      /\ Len(Append(s, p)) = Len(s) + 1
  BY <1>1
<1> DEFINE a == CallsOf(Append(s, p))
           c == CallsOf(s)
           d == c \o <<p.call>>
<1>3. a \in Seq(Items) /\ Len(a) = Len(Append(s, p))
  BY <1>2, CallsOfType, Zenon
<1>4. c \in Seq(Items) /\ Len(c) = Len(s)
  BY CallsOfType, Zenon
<1>5. \A i \in 1..(Len(s) + 1) : a[i] = d[i]
  BY <1>2, CallsOfType DEF CallsOf
<1>6. d \in Seq(Items) /\ Len(d) = Len(s) + 1
  <2> HIDE DEF c
  <2> QED BY <1>1, <1>4
<1> HIDE DEF a, d
<1>7. a = d
  BY <1>2, <1>3, <1>5, <1>6, SeqEqual
<1> QED BY <1>7 DEF a, d

LEMMA CallsOfHead ==
  ASSUME NEW s \in Seq(Packet), s # <<>>
  PROVE  CallsOf(s) = <<Head(s).call>> \o CallsOf(Tail(s))
<1>1. Head(s) \in Packet /\ Tail(s) \in Seq(Packet) /\ Len(Tail(s)) = Len(s) - 1
  OBVIOUS
<1>2. Head(s).call \in Items
  BY <1>1 DEF Packet, Items, NullBuffer
<1> HIDE DEF Packet
<1> DEFINE a == CallsOf(s)
           c == CallsOf(Tail(s))
           h == <<Head(s).call>>
           d == h \o c
<1>3. a \in Seq(Items) /\ Len(a) = Len(s)
  BY CallsOfType, Zenon
<1>4. c \in Seq(Items) /\ Len(c) = Len(Tail(s))
  BY <1>1, CallsOfType, Zenon
<1>8. h \in Seq(Items) /\ Len(h) = 1
  BY <1>2
<1>6. d \in Seq(Items) /\ Len(d) = Len(s)
  <2> HIDE DEF c, h
  <2>1. Len(c) = Len(s) - 1 /\ Len(s) \in Nat
    BY <1>1, <1>4
  <2>2. d \in Seq(Items)
    BY <1>8, <1>4
  <2>3. Len(h \o c) = Len(h) + Len(c)
    <3>1. h \in Seq(Items) /\ c \in Seq(Items)
      BY <1>8, <1>4
    <3> QED BY <3>1, ConcatProperties
  <2>4. Len(d) = Len(h) + Len(c)
    BY <2>3, Zenon
  <2> HIDE DEF d
  <2> QED BY <1>8, <2>1, <2>2, <2>4
<1>5. \A i \in 1..Len(s) : a[i] = d[i]
  <2> SUFFICES ASSUME NEW i \in 1..Len(s)
               PROVE  CallsOf(s)[i] = (<<Head(s).call>> \o CallsOf(Tail(s)))[i]
    OBVIOUS
  <2>0. CallsOf(Tail(s)) \in Seq(Items) /\ Len(CallsOf(Tail(s))) = Len(s) - 1
    BY <1>1, CallsOfType
  <2>1. CASE i = 1
    BY <1>1, <1>2, <2>0, <2>1 DEF CallsOf
  <2>2. CASE i # 1
    <3>1. i - 1 \in 1..Len(Tail(s)) /\ Tail(s)[i - 1] = s[i]
      BY <1>1, <2>2
    <3>2. CallsOf(Tail(s))[i - 1] = s[i].call
      BY <1>1, <3>1 DEF CallsOf
    <3>3. (<<Head(s).call>> \o CallsOf(Tail(s)))[i] = CallsOf(Tail(s))[i - 1]
      BY <1>2, <2>0, <2>2, <3>1
    <3> QED BY <3>2, <3>3 DEF CallsOf
  <2> QED BY <2>1, <2>2
<1> HIDE DEF a, d
<1>7. a = d
  BY <1>3, <1>5, <1>6, SeqEqual
<1> QED BY <1>7 DEF a, d

LEMMA AppendAsConcat ==
  ASSUME NEW S, NEW s \in Seq(S), NEW c \in S
  PROVE  Append(s, c) = s \o <<c>> /\ <<c>> \in Seq(S)
OBVIOUS

WayOf(k, t) == Line(written[k], CallsOf(sending), CallsOf(resultList),
                    CallsOf(out[t]), batch[t], queue[t])

LEMMA WayTypes ==
  ASSUME TypeOK, NEW k \in Conns, NEW t \in Threads
  PROVE  /\ written[k] \in Seq(Items) /\ CallsOf(sending) \in Seq(Items)
         /\ CallsOf(resultList) \in Seq(Items) /\ CallsOf(out[t]) \in Seq(Items)
         /\ batch[t] \in Seq(Items) /\ queue[t] \in Seq(Items)
         /\ received \in Seq(Items)
<1>1. written[k] \in Seq(Items)
  BY DEF TypeOK, Items, Notice
<1>2. sending \in Seq(Packet) /\ resultList \in Seq(Packet) /\ out[t] \in Seq(Packet)
  BY DEF TypeOK
<1>3. /\ CallsOf(sending) \in Seq(Items) /\ CallsOf(resultList) \in Seq(Items)
      /\ CallsOf(out[t]) \in Seq(Items)
  BY <1>2, CallsOfType, Zenon
<1>4. batch[t] \in Seq(Items) /\ queue[t] \in Seq(Items) /\ received \in Seq(Items)
  BY DEF TypeOK, Items
<1> QED BY <1>1, <1>3, <1>4

\* A thread has tasks and packets of its own calls only.
OwnCalls ==
  \A t \in Threads :
    /\ queue[t] \in Seq(Mine(t)) /\ batch[t] \in Seq(Mine(t))
    /\ \A i \in DOMAIN out[t] : out[t][i].call \in Mine(t) \cup {0}

\* Along the way of each thread's calls to a connection they keep the order in
\* which they came in.
WayInv == \A k \in Conns, t \in Threads : Follows(received, WayOf(k, t), Mine(t))

OrderInv == Distinct(received) /\ OwnCalls /\ WayInv

LEMMA MineAlone ==
  /\ \A t \in Threads : Mine(t) \subseteq Items /\ 0 \notin Mine(t)
  /\ \A t, u \in Threads : t # u => Mine(t) \cap Mine(u) = {}
<1>1. \A t \in Threads : Mine(t) \subseteq Items /\ 0 \notin Mine(t)
  BY ZeroIsNoCall DEF Mine, Items
<1> QED BY <1>1 DEF Mine

LEMMA InitOrder == Init => OrderInv
<1> SUFFICES ASSUME Init PROVE OrderInv
  OBVIOUS
<1>1. Distinct(received)
  BY DEF Init, Distinct
<1>2. OwnCalls
  BY DEF Init, OwnCalls
<1>3. ASSUME NEW k \in Conns, NEW t \in Threads
      PROVE  Follows(received, WayOf(k, t), Mine(t))
  <2>1. CallsOf(<<>>) = <<>>
    BY DEF CallsOf
  <2>2. WayOf(k, t) = Line(<<>>, <<>>, <<>>, <<>>, <<>>, <<>>)
    BY <2>1, Zenon DEF Init, WayOf
  <2>3. Line(<<>>, <<>>, <<>>, <<>>, <<>>, <<>>) = <<>>
    BY DEF Line
  <2>4. WayOf(k, t) = <<>>
    BY <2>2, <2>3, Zenon
  <2>5. \A r, R : Follows(r, <<>>, R)
    BY DEF Follows
  <2> QED BY <2>4, <2>5, Zenon
<1> QED BY <1>1, <1>2, <1>3 DEF OrderInv, WayInv

LEMMA StepDistinct ==
  ASSUME TypeOK, Distinct(received), [Next]_vars
  PROVE  Distinct(received)'
<1>1. ASSUME NEW c \in Calls, OnCall(c) PROVE Distinct(received)'
  <2>1. received' = Append(received, c) /\ received \in Seq(Calls)
        /\ \A i \in DOMAIN received : received[i] # c
    BY <1>1 DEF OnCall, TypeOK
  <2> QED BY <2>1 DEF Distinct
<1>2. CASE received' = received
  BY <1>2 DEF Distinct
<1>3. CASE Peer
  BY <1>1, <1>2, <1>3, Zenon DEF Peer, OnTcpConnection, ConnectionFails
<1>4. CASE ~Peer
  <2>1. received' = received
    BY <1>4, Zenon DEF Next, Handler, TakeTasks, DoTask, Push, Signal, AsyncBegin,
       DoSend, OnAfterClose, SetConnectMonitor, PumpMonitor, TellOpen, TellClose, vars
  <2> QED BY <1>2, <2>1
<1> QED BY <1>3, <1>4

LEMMA StepOwn ==
  ASSUME TypeOK, OwnCalls, [Next]_vars
  PROVE  OwnCalls'
<1> USE DEF ioVars, sendVars, connVars, taskVars, pumpVars
<1>1. CASE UNCHANGED <<queue, batch, out>>
  BY <1>1 DEF OwnCalls
<1>2. ASSUME NEW c \in Calls, OnCall(c) PROVE OwnCalls'
  <2> SUFFICES ASSUME NEW t \in Threads
               PROVE  /\ queue'[t] \in Seq(Mine(t)) /\ batch'[t] \in Seq(Mine(t))
                      /\ \A i \in DOMAIN out'[t] : out'[t][i].call \in Mine(t) \cup {0}
    BY DEF OwnCalls, Mine
  <2>1. batch' = batch /\ out' = out
    BY <1>2 DEF OnCall
  <2>2. queue'[t] \in Seq(Mine(t))
    <3>1. CASE t = ThreadOf(c)
      <4>1. c \in Mine(t) /\ queue'[t] = Append(queue[t], c)
        BY <1>2, <3>1 DEF OnCall, Mine, TypeOK
      <4>2. queue[t] \in Seq(Mine(t))
        BY DEF OwnCalls
      <4> QED BY <4>1, <4>2
    <3>2. CASE t # ThreadOf(c)
      BY <1>2, <3>2 DEF OnCall, TypeOK, OwnCalls
    <3> QED BY <3>1, <3>2
  <2> QED BY <2>1, <2>2 DEF OwnCalls
<1>3. ASSUME NEW u \in Threads, TakeTasks(u) PROVE OwnCalls'
  <2> SUFFICES ASSUME NEW t \in Threads
               PROVE  /\ queue'[t] \in Seq(Mine(t)) /\ batch'[t] \in Seq(Mine(t))
                      /\ \A i \in DOMAIN out'[t] : out'[t][i].call \in Mine(t) \cup {0}
    BY DEF OwnCalls, Mine
  <2>1. /\ out' = out
        /\ queue'[t] = IF t = u THEN <<>> ELSE queue[t]
        /\ batch'[t] = IF t = u THEN queue[t] ELSE batch[t]
    BY <1>3 DEF TakeTasks, TypeOK
  <2> QED BY <2>1 DEF OwnCalls
<1>4. ASSUME NEW u \in Threads, DoTask(u) PROVE OwnCalls'
  <2> SUFFICES ASSUME NEW t \in Threads
               PROVE  /\ queue'[t] \in Seq(Mine(t)) /\ batch'[t] \in Seq(Mine(t))
                      /\ \A i \in DOMAIN out'[t] : out'[t][i].call \in Mine(t) \cup {0}
    BY DEF OwnCalls, Mine
  <2>1. CASE t = u
    <3>1. /\ batch'[t] = Tail(batch[t]) /\ out'[t] = Sends(Head(batch[t]))
          /\ queue' = queue /\ batch[t] # <<>>
      BY <1>4, <2>1 DEF DoTask, TypeOK
    <3>2. Head(batch[t]) \in Mine(t) /\ Tail(batch[t]) \in Seq(Mine(t))
      BY <3>1 DEF OwnCalls
    <3>3. \A c \in Mine(t) : \A i \in DOMAIN Sends(c) :
            Sends(c)[i].call \in Mine(t) \cup {0}
      BY DEF Sends, NullBuffer
    <3> QED BY <3>1, <3>2, <3>3 DEF OwnCalls
  <2>2. CASE t # u
    <3>1. batch'[t] = batch[t] /\ out'[t] = out[t] /\ queue' = queue
      BY <1>4, <2>2 DEF DoTask, TypeOK
    <3> QED BY <3>1 DEF OwnCalls
  <2> QED BY <2>1, <2>2
<1>5. ASSUME NEW u \in Threads, Push(u) PROVE OwnCalls'
  <2> SUFFICES ASSUME NEW t \in Threads
               PROVE  /\ queue'[t] \in Seq(Mine(t)) /\ batch'[t] \in Seq(Mine(t))
                      /\ \A i \in DOMAIN out'[t] : out'[t][i].call \in Mine(t) \cup {0}
    BY DEF OwnCalls, Mine
  <2>1. CASE t = u
    <3>1. /\ batch' = batch /\ queue' = queue /\ out'[t] = Tail(out[t])
          /\ out[t] # <<>> /\ out[t] \in Seq(Packet)
      BY <1>5, <2>1 DEF Push, TypeOK
    <3>2. \A i \in DOMAIN Tail(out[t]) :
            i + 1 \in DOMAIN out[t] /\ Tail(out[t])[i] = out[t][i + 1]
      <4> HIDE DEF Packet
      <4> QED BY <3>1
    <3> QED BY <3>1, <3>2 DEF OwnCalls
  <2>2. CASE t # u
    <3>1. batch' = batch /\ out'[t] = out[t] /\ queue' = queue
      BY <1>5, <2>2 DEF Push, TypeOK
    <3> QED BY <3>1 DEF OwnCalls
  <2> QED BY <2>1, <2>2
<1>6. ASSUME NEW t \in Threads, Handler(t) PROVE OwnCalls'
  <2>1. Signal(t) => OwnCalls'
    BY <1>1, Zenon DEF Signal
  <2> QED BY <1>3, <1>4, <1>5, <1>6, <2>1, Zenon DEF Handler
<1>7. CASE Peer
  <2>1. ASSUME NEW k \in Conns, OnTcpConnection(k) \/ ConnectionFails(k) PROVE OwnCalls'
    BY <1>1, <2>1, Zenon DEF OnTcpConnection, ConnectionFails
  <2> QED BY <1>2, <1>7, <2>1, Zenon DEF Peer
<1>8. CASE AsyncBegin \/ DoSend \/ \E k \in Conns : OnAfterClose(k)
  BY <1>1, <1>8, Zenon DEF AsyncBegin, DoSend, OnAfterClose
<1>9. CASE SetConnectMonitor \/ PumpMonitor \/ TellOpen \/ TellClose
  BY <1>1, <1>9, Zenon DEF SetConnectMonitor, PumpMonitor, TellOpen, TellClose
<1>10. CASE UNCHANGED vars
  BY <1>1, <1>10, Zenon DEF vars
<1> QED BY <1>6, <1>7, <1>8, <1>9, <1>10, Zenon DEF Next

(* Each step that moves a call keeps the order along its way.              *)

LEMMA WayCall ==
  ASSUME TypeOK, WayInv, NEW c \in Calls, OnCall(c)
  PROVE  WayInv'
<1> SUFFICES ASSUME NEW k \in Conns, NEW t \in Threads
             PROVE  Follows(received', WayOf(k, t)', Mine(t))
  BY DEF WayInv, Mine
<1>1. /\ written' = written /\ sending' = sending /\ resultList' = resultList
      /\ out' = out /\ batch' = batch /\ received' = Append(received, c)
      /\ queue' = [queue EXCEPT ![ThreadOf(c)] = Append(@, c)]
  BY DEF OnCall, ioVars, sendVars, taskVars
<1>2. /\ written[k] \in Seq(Items) /\ CallsOf(sending) \in Seq(Items)
      /\ CallsOf(resultList) \in Seq(Items) /\ CallsOf(out[t]) \in Seq(Items)
      /\ batch[t] \in Seq(Items) /\ queue[t] \in Seq(Items)
      /\ received \in Seq(Items) /\ c \in Items
  BY WayTypes DEF Items
<1>3. Follows(received, WayOf(k, t), Mine(t))
  BY DEF WayInv
<1>4. CASE t = ThreadOf(c)
  <2>1. queue'[t] = Append(queue[t], c)
    BY <1>1, <1>4 DEF TypeOK
  <2>2. queue'[t] = queue[t] \o <<c>> /\ <<c>> \in Seq(Items)
    <3>1. Append(queue[t], c) = queue[t] \o <<c>>
      BY <1>2, AppendAsConcat, Zenon
    <3>2. <<c>> \in Seq(Items)
      BY <1>2
    <3> QED BY <2>1, <3>1, <3>2, Zenon
  <2> DEFINE w == WayOf(k, t)
  <2>3. w \in Seq(Items)
    BY <1>2, <2>2, LineEnd, Zenon DEF WayOf
  <2> HIDE DEF w
  <2>4. Follows(Append(received, c), Append(w, c), Mine(t))
    BY <1>2, <1>3, <2>3, FollowsPush DEF w
  <2>5. Append(w, c) = w \o <<c>>
    BY <1>2, <2>3, AppendAsConcat, Zenon
  <2>6. Follows(Append(received, c), w \o <<c>>, Mine(t))
    BY <2>4, <2>5, Zenon
  <2>7. Follows(Append(received, c),
                Line(written[k], CallsOf(sending), CallsOf(resultList),
                     CallsOf(out[t]), batch[t], queue[t] \o <<c>>), Mine(t))
    BY <1>2, <2>2, <2>6, LineEnd, Zenon DEF w, WayOf
  <2> QED BY <1>1, <2>2, <2>7, Zenon DEF WayOf
<1>5. CASE t # ThreadOf(c)
  <2>1. queue'[t] = queue[t]
    BY <1>1, <1>5 DEF TypeOK
  <2>2. WayOf(k, t)' = WayOf(k, t)
    BY <1>1, <2>1, Zenon DEF WayOf
  <2>3. Follows(Append(received, c), WayOf(k, t), Mine(t))
    BY <1>2, <1>3, FollowsLater, Zenon
  <2> QED BY <1>1, <2>2, <2>3, Zenon
<1> QED BY <1>4, <1>5

LEMMA WayTake ==
  ASSUME TypeOK, WayInv, NEW u \in Threads, TakeTasks(u)
  PROVE  WayInv'
<1> SUFFICES ASSUME NEW k \in Conns, NEW t \in Threads
             PROVE  Follows(received', WayOf(k, t)', Mine(t))
  BY DEF WayInv, Mine
<1>1. /\ written' = written /\ sending' = sending /\ resultList' = resultList
      /\ out' = out /\ received' = received
      /\ batch' = [batch EXCEPT ![u] = queue[u]]
      /\ queue' = [queue EXCEPT ![u] = <<>>]
  BY DEF TakeTasks, ioVars, sendVars
<1>2. /\ written[k] \in Seq(Items) /\ CallsOf(sending) \in Seq(Items)
      /\ CallsOf(resultList) \in Seq(Items) /\ queue[t] \in Seq(Items)
  BY WayTypes
<1>3. Follows(received, WayOf(k, t), Mine(t))
  BY DEF WayInv
<1>4. CASE t = u
  <2>1. batch'[t] = queue[t] /\ queue'[t] = <<>> /\ batch[t] = <<>> /\ out[t] = <<>>
    BY <1>1, <1>4 DEF TypeOK, TakeTasks, Idle
  <2>2. CallsOf(out[t]) = <<>>
    BY <2>1 DEF CallsOf
  <2>3. Follows(received, Line(written[k], CallsOf(sending), CallsOf(resultList),
                               <<>>, <<>>, queue[t]), Mine(t))
    BY <1>3, <2>1, <2>2, Zenon DEF WayOf
  <2>4. Follows(received, Line(written[k], CallsOf(sending), CallsOf(resultList),
                               <<>>, queue[t], <<>>), Mine(t))
    BY <1>2, <2>3, LineTake, Zenon
  <2> QED BY <1>1, <2>1, <2>2, <2>4, Zenon DEF WayOf
<1>5. CASE t # u
  <2>1. queue'[t] = queue[t] /\ batch'[t] = batch[t]
    BY <1>1, <1>5 DEF TypeOK
  <2> QED BY <1>1, <1>3, <2>1, Zenon DEF WayOf
<1> QED BY <1>4, <1>5

LEMMA WayDo ==
  ASSUME TypeOK, WayInv, NEW u \in Threads, DoTask(u)
  PROVE  WayInv'
<1> SUFFICES ASSUME NEW k \in Conns, NEW t \in Threads
             PROVE  Follows(received', WayOf(k, t)', Mine(t))
  BY DEF WayInv, Mine
<1>1. /\ written' = written /\ sending' = sending /\ resultList' = resultList
      /\ queue' = queue /\ received' = received
      /\ batch' = [batch EXCEPT ![u] = Tail(@)]
      /\ out' = [out EXCEPT ![u] = Sends(Head(batch[u]))]
  BY DEF DoTask, ioVars, sendVars
<1>2. /\ written[k] \in Seq(Items) /\ CallsOf(sending) \in Seq(Items)
      /\ CallsOf(resultList) \in Seq(Items) /\ batch[t] \in Seq(Items)
      /\ queue[t] \in Seq(Items)
  BY WayTypes
<1>3. Follows(received, WayOf(k, t), Mine(t))
  BY DEF WayInv
<1>4. CASE t = u
  <2> DEFINE c == Head(batch[t])
             b == Tail(batch[t])
  <2>1. /\ batch'[t] = b /\ out'[t] = Sends(c) /\ batch[t] # <<>>
        /\ out[t] = <<>> /\ queue'[t] = queue[t]
    BY <1>1, <1>4 DEF TypeOK, DoTask
  <2>2. /\ c \in Items /\ b \in Seq(Items) /\ batch[t] = <<c>> \o b
    BY <1>2, <2>1, HeadThenTail, Zenon
  <2>3. CallsOf(out[t]) = <<>>
    BY <2>1 DEF CallsOf
  <2>4. CallsOf(Sends(c)) = <<c>> \/ CallsOf(Sends(c)) = <<0, c>>
    BY DEF CallsOf, Sends, NullBuffer
  <2> HIDE DEF c, b
  <2>5. Follows(received, Line(written[k], CallsOf(sending), CallsOf(resultList),
                               <<>>, <<c>> \o b, queue[t]), Mine(t))
    BY <1>3, <2>2, <2>3, Zenon DEF WayOf
  <2>6. Follows(received, Line(written[k], CallsOf(sending), CallsOf(resultList),
                               <<c>>, b, queue[t]), Mine(t))
    BY <1>2, <2>2, <2>5, LineStart, Zenon
  <2>7. 0 \in Items /\ 0 \notin Mine(t)
    BY ZeroIsNoCall, MineAlone
  <2>8. Follows(received, Line(written[k], CallsOf(sending), CallsOf(resultList),
                               <<0, c>>, b, queue[t]), Mine(t))
    BY <1>2, <2>2, <2>5, <2>7, LineStartTwo, Zenon
  <2> QED BY <1>1, <2>1, <2>4, <2>6, <2>8, Zenon DEF WayOf
<1>5. CASE t # u
  <2>1. out'[t] = out[t] /\ batch'[t] = batch[t]
    BY <1>1, <1>5 DEF TypeOK
  <2> QED BY <1>1, <1>3, <2>1, Zenon DEF WayOf
<1> QED BY <1>4, <1>5

LEMMA WayPush ==
  ASSUME TypeOK, OwnCalls, WayInv, NEW u \in Threads, Push(u)
  PROVE  WayInv'
<1> SUFFICES ASSUME NEW k \in Conns, NEW t \in Threads
             PROVE  Follows(received', WayOf(k, t)', Mine(t))
  BY DEF WayInv, Mine
<1> DEFINE p == Head(out[u])
           c == p.call
           l == CallsOf(resultList)
<1>1. /\ written' = written /\ sending' = sending /\ queue' = queue
      /\ batch' = batch /\ received' = received
      /\ resultList' = Append(resultList, p)
      /\ out' = [out EXCEPT ![u] = Tail(@)]
  BY DEF Push, ioVars
<1>2. /\ written[k] \in Seq(Items) /\ CallsOf(sending) \in Seq(Items)
      /\ l \in Seq(Items) /\ CallsOf(out[t]) \in Seq(Items)
      /\ batch[t] \in Seq(Items) /\ queue[t] \in Seq(Items)
  BY WayTypes
<1>3. Follows(received, WayOf(k, t), Mine(t))
  BY DEF WayInv
<1>6. /\ out[u] \in Seq(Packet) /\ out[u] # <<>> /\ p \in Packet
      /\ Tail(out[u]) \in Seq(Packet) /\ resultList \in Seq(Packet)
  <2>1. out[u] \in Seq(Packet) /\ out[u] # <<>> /\ resultList \in Seq(Packet)
    BY DEF TypeOK, Push
  <2> QED BY <2>1, ElementType, Zenon
<1>7. c \in Items
  BY <1>6 DEF Packet, Items, NullBuffer
<1>8. CallsOf(resultList') = l \o <<c>>
  BY <1>1, <1>6, CallsOfAppend, Zenon
<1>4. CASE t = u
  <2>1. out'[t] = Tail(out[t])
    BY <1>1, <1>4 DEF TypeOK
  <2>2. CallsOf(out[t]) = <<c>> \o CallsOf(Tail(out[t]))
    BY <1>4, <1>6, CallsOfHead, Zenon
  <2>3. CallsOf(Tail(out[t])) \in Seq(Items)
    BY <1>4, <1>6, CallsOfType, Zenon
  <2>4. <<c>> \in Seq(Items)
    <3> HIDE DEF c
    <3> QED BY <1>7
  <2> HIDE DEF l, c
  <2>5. Follows(received, Line(written[k], CallsOf(sending), l,
                               <<c>> \o CallsOf(Tail(out[t])), batch[t], queue[t]), Mine(t))
    BY <1>3, <2>2, Zenon DEF WayOf, l
  <2>6. Follows(received, Line(written[k], CallsOf(sending), l \o <<c>>,
                               CallsOf(Tail(out[t])), batch[t], queue[t]), Mine(t))
    BY <1>2, <2>3, <2>4, <2>5, LinePush, Zenon
  <2> QED BY <1>1, <1>8, <2>1, <2>6, Zenon DEF WayOf
<1>5. CASE t # u
  <2>1. out'[t] = out[t]
    BY <1>1, <1>5 DEF TypeOK
  <2>2. c \notin Mine(t)
    <3>1. 1 \in DOMAIN out[u] /\ out[u][1] = p
      <4> HIDE DEF Packet
      <4> QED BY <1>6
    <3>2. c \in Mine(u) \cup {0}
      BY <3>1, Zenon DEF OwnCalls
    <3> QED BY <1>5, <3>2, MineAlone
  <2> HIDE DEF l, c
  <2>3. Follows(received, Line(written[k], CallsOf(sending), l \o <<c>>,
                               CallsOf(out[t]), batch[t], queue[t]), Mine(t))
    BY <1>2, <1>3, <1>7, <2>2, LinePushOther, Zenon DEF WayOf, l
  <2> QED BY <1>1, <1>8, <2>1, <2>3, Zenon DEF WayOf
<1> QED BY <1>4, <1>5

LEMMA WayAsync ==
  ASSUME TypeOK, WayInv, AsyncBegin
  PROVE  WayInv'
<1> SUFFICES ASSUME NEW k \in Conns, NEW t \in Threads
             PROVE  Follows(received', WayOf(k, t)', Mine(t))
  BY DEF WayInv, Mine
<1>1. /\ written' = written /\ queue' = queue /\ batch' = batch /\ out' = out
      /\ received' = received /\ sending = <<>> /\ sending' = resultList
      /\ resultList' = <<>>
  BY DEF AsyncBegin, InLoop, taskVars
<1>2. /\ written[k] \in Seq(Items)
      /\ CallsOf(resultList) \in Seq(Items) /\ CallsOf(out[t]) \in Seq(Items)
      /\ batch[t] \in Seq(Items) /\ queue[t] \in Seq(Items)
  BY WayTypes
<1>3. CallsOf(<<>>) = <<>>
  BY DEF CallsOf
<1>4. Follows(received, Line(written[k], <<>>, CallsOf(resultList), CallsOf(out[t]),
                             batch[t], queue[t]), Mine(t))
  BY <1>1, <1>3, Zenon DEF WayInv, WayOf
<1>5. Follows(received, Line(written[k], CallsOf(resultList), <<>>, CallsOf(out[t]),
                             batch[t], queue[t]), Mine(t))
  BY <1>2, <1>4, LineAsync, Zenon
<1> QED BY <1>1, <1>3, <1>5, Zenon DEF WayOf

LEMMA WaySend ==
  ASSUME TypeOK, WayInv, DoSend
  PROVE  WayInv'
<1> SUFFICES ASSUME NEW k \in Conns, NEW t \in Threads
             PROVE  Follows(received', WayOf(k, t)', Mine(t))
  BY DEF WayInv, Mine
<1> DEFINE p == Head(sending)
           c == p.call
           s == CallsOf(Tail(sending))
<1>1. /\ resultList' = resultList /\ queue' = queue /\ batch' = batch /\ out' = out
      /\ received' = received /\ sending' = Tail(sending) /\ sending # <<>>
  BY DEF DoSend, SendingLeft, sendVars, taskVars
<1>2. /\ written[k] \in Seq(Items) /\ CallsOf(resultList) \in Seq(Items)
      /\ CallsOf(out[t]) \in Seq(Items) /\ batch[t] \in Seq(Items)
      /\ queue[t] \in Seq(Items)
  BY WayTypes
<1>3. sending \in Seq(Packet) /\ p \in Packet /\ Tail(sending) \in Seq(Packet)
  <2>1. sending \in Seq(Packet)
    BY DEF TypeOK
  <2> QED BY <1>1, <2>1, ElementType, Zenon
<1>4. p.conn \in Conns /\ c \in Items
  BY <1>3 DEF Packet, Items, NullBuffer
<1>5. CallsOf(sending) = <<c>> \o s
  BY <1>1, <1>3, CallsOfHead, Zenon
<1>6. s \in Seq(Items)
  BY <1>3, CallsOfType, Zenon
<1>7. <<c>> \in Seq(Items)
  <2> HIDE DEF c
  <2> QED BY <1>4
<1>8. written'[k] = written[k] \/ written'[k] = Append(written[k], c)
  <2>1. CASE c = NullBuffer
    BY <2>1 DEF DoSend, CloseQuietly
  <2>2. CASE c # NullBuffer
    <3>1. SendAnswer(p.conn, c)
      BY <2>2 DEF DoSend
    <3>2. \/ written' = written
          \/ written' = [written EXCEPT ![p.conn] = Append(@, c)]
      BY <3>1 DEF SendAnswer
    <3>3. written \in [Conns -> Seq(Calls \cup {Notice})]
      BY DEF TypeOK
    <3> HIDE DEF c
    <3> QED BY <3>2, <3>3
  <2> QED BY <2>1, <2>2
<1> HIDE DEF c, s, p
<1>9. Follows(received, Line(written[k], <<c>> \o s, CallsOf(resultList),
                             CallsOf(out[t]), batch[t], queue[t]), Mine(t))
  BY <1>5, Zenon DEF WayInv, WayOf
<1>10. CASE written'[k] = written[k]
  <2>1. Follows(received, Line(written[k], s, CallsOf(resultList),
                               CallsOf(out[t]), batch[t], queue[t]), Mine(t))
    BY <1>2, <1>4, <1>6, <1>9, LineDrop, Zenon
  <2> QED BY <1>1, <1>10, <2>1, Zenon DEF WayOf, s
<1>11. CASE written'[k] = Append(written[k], c)
  <2>1. written'[k] = written[k] \o <<c>>
    BY <1>2, <1>4, <1>11, AppendAsConcat, Zenon
  <2>2. Follows(received, Line(written[k] \o <<c>>, s, CallsOf(resultList),
                               CallsOf(out[t]), batch[t], queue[t]), Mine(t))
    BY <1>2, <1>6, <1>7, <1>9, LineWrite, Zenon
  <2> QED BY <1>1, <2>1, <2>2, Zenon DEF WayOf, s
<1> QED BY <1>8, <1>10, <1>11

LEMMA WayFails ==
  ASSUME TypeOK, WayInv, NEW j \in Conns, ConnectionFails(j)
  PROVE  WayInv'
<1> SUFFICES ASSUME NEW k \in Conns, NEW t \in Threads
             PROVE  Follows(received', WayOf(k, t)', Mine(t))
  BY DEF WayInv, Mine
<1>1. /\ sending' = sending /\ resultList' = resultList /\ queue' = queue
      /\ batch' = batch /\ out' = out /\ received' = received
      /\ written' = [written EXCEPT ![j] = Append(@, Notice)]
  BY DEF ConnectionFails, CloseFor, sendVars, taskVars
<1>2. /\ written[k] \in Seq(Items) /\ CallsOf(sending) \in Seq(Items)
      /\ CallsOf(resultList) \in Seq(Items) /\ CallsOf(out[t]) \in Seq(Items)
      /\ batch[t] \in Seq(Items) /\ queue[t] \in Seq(Items)
  BY WayTypes
<1>3. Follows(received, WayOf(k, t), Mine(t))
  BY DEF WayInv
<1>4. CASE k = j
  <2>1. written'[k] = Append(written[k], 0)
    BY <1>1, <1>4 DEF TypeOK, Notice
  <2>2. 0 \in Items /\ 0 \notin Mine(t)
    BY ZeroIsNoCall, MineAlone
  <2>3. written'[k] = written[k] \o <<0>>
    BY <1>2, <2>1, <2>2, AppendAsConcat, Zenon
  <2>4. Follows(received, Line(written[k] \o <<0>>, CallsOf(sending),
                 CallsOf(resultList), CallsOf(out[t]), batch[t], queue[t]), Mine(t))
    BY <1>2, <1>3, <2>2, LineNote, Zenon DEF WayOf
  <2> QED BY <1>1, <2>3, <2>4, Zenon DEF WayOf
<1>5. CASE k # j
  <2>1. written'[k] = written[k]
    BY <1>1, <1>5 DEF TypeOK
  <2> QED BY <1>1, <1>3, <2>1, Zenon DEF WayOf
<1> QED BY <1>4, <1>5

LEMMA StepWay ==
  ASSUME TypeOK, OrderInv, [Next]_vars
  PROVE  WayInv'
<1> USE DEF OrderInv, ioVars, sendVars, connVars, taskVars, pumpVars
<1>1. CASE UNCHANGED <<written, sending, resultList, out, batch, queue, received>>
  BY <1>1, Zenon DEF WayInv, WayOf, Mine
<1>2. CASE Peer
  <2>1. ASSUME NEW k \in Conns, OnTcpConnection(k) PROVE WayInv'
    BY <1>1, <2>1, Zenon DEF OnTcpConnection
  <2> QED BY <1>2, <2>1, WayFails, WayCall, Zenon DEF Peer
<1>3. ASSUME NEW t \in Threads, Handler(t) PROVE WayInv'
  <2>1. Signal(t) => WayInv'
    BY <1>1, Zenon DEF Signal
  <2> QED BY <1>3, <2>1, WayTake, WayDo, WayPush, Zenon DEF Handler
<1>4. ASSUME NEW k \in Conns, OnAfterClose(k) PROVE WayInv'
  BY <1>1, <1>4, Zenon DEF OnAfterClose
<1>5. CASE SetConnectMonitor \/ PumpMonitor \/ TellOpen \/ TellClose
  BY <1>1, <1>5, Zenon DEF SetConnectMonitor, PumpMonitor, TellOpen, TellClose
<1>6. CASE UNCHANGED vars
  BY <1>1, <1>6, Zenon DEF vars
<1> QED BY <1>2, <1>3, <1>4, <1>5, <1>6, WayAsync, WaySend, Zenon DEF Next

LEMMA OrderIsInvariant == Spec => [](TypeOK /\ OrderInv)
<1>1. Init => TypeOK /\ OrderInv BY InitInv, InitOrder
<1>2. TypeOK /\ OrderInv /\ [Next]_vars => (TypeOK /\ OrderInv)'
  <2> SUFFICES ASSUME TypeOK, OrderInv, [Next]_vars PROVE (TypeOK /\ OrderInv)'
    OBVIOUS
  <2>1. TypeOK' BY StepType
  <2>2. Distinct(received)' BY StepDistinct DEF OrderInv
  <2>3. OwnCalls' BY StepOwn DEF OrderInv
  <2>4. WayInv' BY StepWay
  <2> QED BY <2>1, <2>2, <2>3, <2>4 DEF OrderInv
<1> QED BY <1>1, <1>2, PTL DEF Spec

LEMMA WayGivesOrder == TypeOK /\ OrderInv => AnswersInOrder
<1> SUFFICES ASSUME TypeOK, OrderInv PROVE AnswersInOrder
  OBVIOUS
<1> DEFINE Pos(c) == CHOOSE i \in DOMAIN received : received[i] = c
<1> SUFFICES ASSUME NEW k \in Conns, NEW i \in DOMAIN written[k],
                    NEW j \in DOMAIN written[k], i < j,
                    Notice \notin {written[k][i], written[k][j]},
                    written[k][i] \in AppCalls <=> written[k][j] \in AppCalls
             PROVE  Pos(written[k][i]) < Pos(written[k][j])
  BY Zenon DEF AnswersInOrder
<1> DEFINE c == written[k][i]
           d == written[k][j]
           t == ThreadOf(c)
<1>1. c \in Calls /\ d \in Calls
  BY DEF TypeOK
<1>2. t \in Threads /\ c \in Mine(t) /\ d \in Mine(t)
  BY <1>1, ThreadsType DEF Mine, ThreadOf, WorkerOf
<1> HIDE DEF t
<1>3. Follows(received, WayOf(k, t), Mine(t))
  BY <1>2, Zenon DEF OrderInv, WayInv
<1>4. Follows(received, written[k], Mine(t))
  <2>1. /\ written[k] \in Seq(Items) /\ CallsOf(sending) \in Seq(Items)
        /\ CallsOf(resultList) \in Seq(Items) /\ CallsOf(out[t]) \in Seq(Items)
        /\ batch[t] \in Seq(Items) /\ queue[t] \in Seq(Items)
    BY <1>2, WayTypes
  <2> DEFINE x == CallsOf(resultList) \o (CallsOf(out[t]) \o (batch[t] \o queue[t]))
             y == CallsOf(sending) \o x
  <2>2. x \in Seq(Items)
    BY <2>1, TailLine, Zenon
  <2> HIDE DEF x
  <2>3. y \in Seq(Items)
    <3> DEFINE s == CallsOf(sending)
    <3>1. s \in Seq(Items) BY <2>1
    <3> HIDE DEF s
    <3>2. s \o x \in Seq(Items) BY <2>2, <3>1
    <3> QED BY <3>2 DEF s
  <2> HIDE DEF y
  <2>4. Follows(received, written[k] \o y, Mine(t))
    BY <1>3, Zenon DEF WayOf, Line, x, y
  <2> QED BY <2>1, <2>3, <2>4, FollowsPrefix, Zenon
<1>5. PICK m \in DOMAIN received, n \in DOMAIN received :
        m < n /\ received[m] = c /\ received[n] = d
  BY <1>2, <1>4 DEF Follows
<1>6. \A x \in DOMAIN received, y \in DOMAIN received :
        received[x] = received[y] => x = y
  BY Zenon DEF OrderInv, Distinct
<1> HIDE DEF c, d
<1>7. Pos(c) = m
  <2>1. Pos(c) \in DOMAIN received /\ received[Pos(c)] = c
    BY <1>5, Zenon
  <2> QED BY <1>5, <1>6, <2>1, Zenon
<1>8. Pos(d) = n
  <2>1. Pos(d) \in DOMAIN received /\ received[Pos(d)] = d
    BY <1>5, Zenon
  <2> QED BY <1>5, <1>6, <2>1, Zenon
<1> HIDE DEF Pos
<1>9. Pos(c) < Pos(d)
  BY <1>5, <1>7, <1>8
<1> QED BY <1>9 DEF c, d

\* The answers of the calls that one thread runs are written on a connection
\* in the order in which the calls came in, whatever else the loop, the workers
\* and the application do meanwhile.
THEOREM OrderCorrect == Spec => []AnswersInOrder
<1>1. TypeOK /\ OrderInv => AnswersInOrder BY WayGivesOrder
<1> QED BY <1>1, OrderIsInvariant, PTL

-----------------------------------------------------------------------------
(* The server implements Service.                                          *)

\* A connection that was accepted, when the statuses are st.
Up(st, k) == k \in Conns /\ st[k] \in {"CONNECTED", "CLOSED"}

\* A packet is for a connection that was accepted, the one its call came on.
PacketOK(st, p) == Up(st, p.conn) /\ (p.call # NullBuffer => p.conn = ConnOf[p.call])

Ready(st, list) == \A i \in DOMAIN list : PacketOK(st, list[i])

Due(st, list) == \A i \in DOMAIN list : Up(st, ConnOf[list[i]])

ThreadPackets(t) ==
  Ready(status, out[t]) /\ Due(status, batch[t]) /\ Due(status, queue[t])

PacketInv ==
  /\ Ready(status, sending) /\ Ready(status, resultList)
  /\ \A t \in Threads : ThreadPackets(t)

LEMMA ReadyTail ==
  ASSUME NEW st, NEW s \in Seq(Packet), s # <<>>, Ready(st, s)
  PROVE  PacketOK(st, Head(s)) /\ Ready(st, Tail(s))
<1> HIDE DEF Packet
<1>1. /\ 1 \in DOMAIN s /\ s[1] = Head(s)
      /\ \A i \in DOMAIN Tail(s) : i + 1 \in DOMAIN s /\ Tail(s)[i] = s[i + 1]
  OBVIOUS
<1> QED BY <1>1, Zenon DEF Ready

LEMMA ReadyAppend ==
  ASSUME NEW st, NEW s \in Seq(Packet), NEW p \in Packet, Ready(st, s), PacketOK(st, p)
  PROVE  Ready(st, Append(s, p))
<1> HIDE DEF Packet
<1>1. \A i \in DOMAIN Append(s, p) :
        (i \in DOMAIN s /\ Append(s, p)[i] = s[i]) \/ Append(s, p)[i] = p
  OBVIOUS
<1> QED BY <1>1, Zenon DEF Ready

LEMMA DueTail ==
  ASSUME NEW st, NEW s \in Seq(Calls), s # <<>>, Due(st, s)
  PROVE  Up(st, ConnOf[Head(s)]) /\ Due(st, Tail(s))
<1>1. /\ 1 \in DOMAIN s /\ s[1] = Head(s)
      /\ \A i \in DOMAIN Tail(s) : i + 1 \in DOMAIN s /\ Tail(s)[i] = s[i + 1]
  OBVIOUS
<1> QED BY <1>1, Zenon DEF Due

LEMMA DueAppend ==
  ASSUME NEW st, NEW s \in Seq(Calls), NEW c \in Calls, Due(st, s), Up(st, ConnOf[c])
  PROVE  Due(st, Append(s, c))
<1>1. \A i \in DOMAIN Append(s, c) :
        (i \in DOMAIN s /\ Append(s, c)[i] = s[i]) \/ Append(s, c)[i] = c
  OBVIOUS
<1> QED BY <1>1, Zenon DEF Due

LEMMA EmptyReady == \A st : Ready(st, <<>>) /\ Due(st, <<>>)
BY DEF Ready, Due

\* A connection that was accepted never goes back.
LEMMA UpStays ==
  ASSUME TypeOK, [Next]_vars
  PROVE  \A k : Up(status, k) => Up(status', k)
<1> SUFFICES ASSUME NEW k \in Conns, Up(status, k) PROVE Up(status', k)
  BY DEF Up
<1> USE DEF Up
<1>0. status \in [Conns -> {"none", "INIT", "CONNECTED", "CLOSED"}]
  BY DEF TypeOK
<1>1. CASE status' = status
  BY <1>1
<1>2. ASSUME NEW j \in Conns, OnTcpConnection(j) PROVE Up(status', k)
  <2>1. PICK x \in {"INIT", "CONNECTED"} : status' = [status EXCEPT ![j] = x]
    BY <1>2 DEF OnTcpConnection
  <2>2. k # j
    BY <1>2 DEF OnTcpConnection
  <2> QED BY <1>0, <2>1, <2>2
<1>3. ASSUME NEW j \in Conns, ConnectionFails(j) PROVE Up(status', k)
  BY <1>0, <1>3 DEF ConnectionFails, CloseFor
<1>4. CASE DoSend
  <2>1. status' = status \/ \E j : status' = [status EXCEPT ![j] = "CLOSED"]
    BY <1>4, Zenon DEF DoSend, CloseQuietly, SendAnswer
  <2> QED BY <1>0, <2>1
<1>5. CASE Peer
  <2>1. \A c \in Calls : OnCall(c) => status' = status
    BY Zenon DEF OnCall, ioVars
  <2> QED BY <1>1, <1>2, <1>3, <1>5, <2>1, Zenon DEF Peer
<1>6. CASE ~Peer /\ ~DoSend
  <2>1. status' = status
    BY <1>6, Zenon DEF Next, Handler, TakeTasks, DoTask, Push, Signal, AsyncBegin,
       OnAfterClose, SetConnectMonitor, PumpMonitor, TellOpen, TellClose, vars, ioVars
  <2> QED BY <1>1, <2>1
<1> QED BY <1>4, <1>5, <1>6

LEMMA InitPackets == Init => PacketInv
<1> SUFFICES ASSUME Init PROVE PacketInv
  OBVIOUS
<1>1. /\ sending = <<>> /\ resultList = <<>>
      /\ \A t \in Threads : out[t] = <<>> /\ batch[t] = <<>> /\ queue[t] = <<>>
  BY DEF Init
<1> QED BY <1>1, EmptyReady, Zenon DEF PacketInv, ThreadPackets

LEMMA PacketTypes ==
  ASSUME TypeOK
  PROVE  /\ sending \in Seq(Packet) /\ resultList \in Seq(Packet)
         /\ \A t \in Threads : /\ out[t] \in Seq(Packet)
                               /\ batch[t] \in Seq(Calls) /\ queue[t] \in Seq(Calls)
BY DEF TypeOK

LEMMA StepPackets ==
  ASSUME TypeOK, PacketInv, [Next]_vars
  PROVE  PacketInv'
<1> USE DEF ioVars, sendVars, connVars, taskVars, pumpVars
<1>0. /\ \A k : Up(status, k) => Up(status', k)
      /\ \A s : Ready(status, s) => Ready(status', s)
      /\ \A s : Due(status, s) => Due(status', s)
  <2>1. \A k : Up(status, k) => Up(status', k)
    BY UpStays
  <2> QED BY <2>1, Zenon DEF PacketOK, Ready, Due
<1>a. /\ Ready(status', sending) /\ Ready(status', resultList)
      /\ \A t \in Threads : /\ Ready(status', out[t]) /\ Due(status', batch[t])
                            /\ Due(status', queue[t])
  BY <1>0, Zenon DEF PacketInv, ThreadPackets
<1>b. ASSUME NEW u \in Threads, ThreadPackets(u)',
             \A t \in Threads : t # u => /\ out'[t] = out[t] /\ batch'[t] = batch[t]
                                         /\ queue'[t] = queue[t]
      PROVE  \A t \in Threads : ThreadPackets(t)'
  <2> SUFFICES ASSUME NEW t \in Threads PROVE ThreadPackets(t)'
    OBVIOUS
  <2>1. CASE t = u BY <1>b, <2>1, Zenon
  <2>2. CASE t # u BY <1>a, <1>b, <2>2, Zenon DEF ThreadPackets
  <2> QED BY <2>1, <2>2
<1>1. CASE UNCHANGED <<out, batch, queue>> /\ Ready(status, sending')
           /\ Ready(status, resultList')
  BY <1>0, <1>a, <1>1, Zenon DEF PacketInv, ThreadPackets
<1>2. ASSUME NEW c \in Calls, OnCall(c) PROVE PacketInv'
  <2> DEFINE u == ThreadOf(c)
  <2>1. u \in Threads
    BY ThreadsType
  <2>2. /\ sending' = sending /\ resultList' = resultList /\ out' = out /\ batch' = batch
        /\ status[ConnOf[c]] = "CONNECTED"
        /\ queue'[u] = Append(queue[u], c)
        /\ \A t \in Threads : t # u => queue'[t] = queue[t]
    BY <1>2, <2>1 DEF OnCall, TypeOK
  <2> HIDE DEF u
  <2>3. Up(status, ConnOf[c])
    BY <2>2 DEF Up
  <2>4. Due(status', Append(queue[u], c))
    BY <1>0, <1>a, <2>1, <2>3, DueAppend, PacketTypes, Zenon
  <2>5. ThreadPackets(u)'
    BY <1>a, <2>1, <2>2, <2>4, Zenon DEF ThreadPackets
  <2>6. \A t \in Threads : ThreadPackets(t)'
    BY <1>b, <2>1, <2>2, <2>5, Zenon
  <2> QED BY <1>a, <2>2, <2>6, Zenon DEF PacketInv
<1>3. ASSUME NEW u \in Threads, TakeTasks(u) PROVE PacketInv'
  <2>1. /\ sending' = sending /\ resultList' = resultList /\ out' = out
        /\ batch'[u] = queue[u] /\ queue'[u] = <<>>
        /\ \A t \in Threads : t # u => batch'[t] = batch[t] /\ queue'[t] = queue[t]
    BY <1>3 DEF TakeTasks, TypeOK
  <2>2. ThreadPackets(u)'
    BY <1>a, <2>1, EmptyReady, Zenon DEF ThreadPackets
  <2>3. \A t \in Threads : ThreadPackets(t)'
    BY <1>b, <2>1, <2>2, Zenon
  <2> QED BY <1>a, <2>1, <2>3, Zenon DEF PacketInv
<1>4. ASSUME NEW u \in Threads, DoTask(u) PROVE PacketInv'
  <2> DEFINE c == Head(batch[u])
  <2>1. /\ sending' = sending /\ resultList' = resultList /\ queue' = queue
        /\ batch[u] # <<>> /\ batch'[u] = Tail(batch[u]) /\ out'[u] = Sends(c)
        /\ \A t \in Threads : t # u => batch'[t] = batch[t] /\ out'[t] = out[t]
    BY <1>4 DEF DoTask, TypeOK
  <2>2. c \in Calls
    BY <2>1, ElementType, PacketTypes, Zenon
  <2>3. Up(status', ConnOf[c]) /\ Due(status', Tail(batch[u]))
    BY <1>a, <2>1, DueTail, PacketTypes, Zenon
  <2> HIDE DEF c
  <2>4. Ready(status', Sends(c))
    <3>1. \A i \in DOMAIN Sends(c) : /\ Sends(c)[i].conn = ConnOf[c]
                                     /\ Sends(c)[i].call \in {NullBuffer, c}
      BY <2>2 DEF Sends
    <3> QED BY <2>3, <3>1, Zenon DEF Ready, PacketOK
  <2>5. ThreadPackets(u)'
    BY <1>a, <2>1, <2>3, <2>4, Zenon DEF ThreadPackets
  <2>6. \A t \in Threads : ThreadPackets(t)'
    BY <1>b, <2>1, <2>5, Zenon
  <2> QED BY <1>a, <2>1, <2>6, Zenon DEF PacketInv
<1>5. ASSUME NEW u \in Threads, Push(u) PROVE PacketInv'
  <2>1. /\ sending' = sending /\ queue' = queue /\ batch' = batch
        /\ out[u] # <<>> /\ out'[u] = Tail(out[u])
        /\ resultList' = Append(resultList, Head(out[u]))
        /\ \A t \in Threads : t # u => out'[t] = out[t]
    BY <1>5 DEF Push, TypeOK
  <2>2. out[u] \in Seq(Packet) /\ resultList \in Seq(Packet)
    BY PacketTypes
  <2>3. PacketOK(status', Head(out[u])) /\ Ready(status', Tail(out[u]))
    BY <1>a, <2>1, <2>2, ReadyTail, Zenon
  <2>4. Head(out[u]) \in Packet
    BY <2>1, <2>2, ElementType, Zenon
  <2>5. Ready(status', resultList')
    BY <1>a, <2>1, <2>2, <2>3, <2>4, ReadyAppend, Zenon
  <2>6. ThreadPackets(u)'
    BY <1>a, <2>1, <2>3, Zenon DEF ThreadPackets
  <2>7. \A t \in Threads : ThreadPackets(t)'
    BY <1>b, <2>1, <2>6, Zenon
  <2> QED BY <1>a, <2>1, <2>5, <2>7, Zenon DEF PacketInv
<1>6. ASSUME NEW t \in Threads, Handler(t) PROVE PacketInv'
  <2>1. Signal(t) => PacketInv'
    BY <1>1, Zenon DEF Signal, PacketInv
  <2> QED BY <1>3, <1>4, <1>5, <1>6, <2>1, Zenon DEF Handler
<1>7. CASE Peer
  <2>1. ASSUME NEW k \in Conns, OnTcpConnection(k) \/ ConnectionFails(k) PROVE PacketInv'
    BY <1>1, <2>1, Zenon DEF OnTcpConnection, ConnectionFails, PacketInv
  <2> QED BY <1>2, <1>7, <2>1, Zenon DEF Peer
<1>8. CASE AsyncBegin
  BY <1>1, <1>8, EmptyReady, Zenon DEF AsyncBegin, PacketInv
<1>9. CASE DoSend
  <2>1. /\ UNCHANGED <<out, batch, queue, resultList>>
        /\ sending # <<>> /\ sending' = Tail(sending)
    BY <1>9, Zenon DEF DoSend, SendingLeft
  <2>2. Ready(status, Tail(sending))
    BY <2>1, ReadyTail, PacketTypes, Zenon DEF PacketInv
  <2> QED BY <1>1, <2>1, <2>2, Zenon DEF PacketInv
<1>10. ASSUME NEW k \in Conns, OnAfterClose(k) PROVE PacketInv'
  BY <1>1, <1>10, Zenon DEF OnAfterClose, PacketInv
<1>11. CASE SetConnectMonitor \/ PumpMonitor \/ TellOpen \/ TellClose
  BY <1>1, <1>11, Zenon DEF SetConnectMonitor, PumpMonitor, TellOpen, TellClose, PacketInv
<1>12. CASE UNCHANGED vars
  BY <1>1, <1>12, Zenon DEF vars, PacketInv
<1> QED BY <1>6, <1>7, <1>8, <1>9, <1>10, <1>11, <1>12, Zenon DEF Next

LinkOf(x) == IF x = "CONNECTED" THEN "open"
             ELSE IF x = "CLOSED" THEN "closed"
             ELSE "none"

LEMMA LinksAre ==
  ASSUME NEW f, NEW k \in Conns, NEW x, f \in [Conns -> {"none", "INIT", "CONNECTED", "CLOSED"}]
  PROVE  /\ Links(f) = [j \in Conns |-> LinkOf(f[j])]
         /\ Links(f)[k] = LinkOf(f[k])
         /\ Links([f EXCEPT ![k] = x]) = [Links(f) EXCEPT ![k] = LinkOf(x)]
<1>1. Links(f) = [j \in Conns |-> LinkOf(f[j])]
  BY DEF Links, LinkOf
<1>2. Links([f EXCEPT ![k] = x]) = [j \in Conns |-> LinkOf([f EXCEPT ![k] = x][j])]
  BY DEF Links, LinkOf
<1>3. Links(f)[k] = LinkOf(f[k])
  BY <1>1
<1>4. \A j \in Conns : LinkOf([f EXCEPT ![k] = x][j])
                       = [[i \in Conns |-> LinkOf(f[i])] EXCEPT ![k] = LinkOf(x)][j]
  BY DEF LinkOf
<1>5. Links([f EXCEPT ![k] = x]) = [[i \in Conns |-> LinkOf(f[i])] EXCEPT ![k] = LinkOf(x)]
  BY <1>2, <1>4
<1> QED BY <1>1, <1>3, <1>5, Zenon

RefinesInv == TypeOK /\ OrderInv /\ PacketInv

LEMMA StatusType ==
  TypeOK => status \in [Conns -> {"none", "INIT", "CONNECTED", "CLOSED"}]
BY DEF TypeOK

LEMMA InitRefines == Init => SVC!Init
<1> SUFFICES ASSUME Init PROVE SVC!Init
  OBVIOUS
<1>1. Links(status) = [k \in Conns |-> "none"]
  BY DEF Init, Links
<1>2. Asked(received) = {}
  BY DEF Init, Asked
<1>3. written = [k \in Conns |-> <<>>]
  BY DEF Init
<1> QED BY <1>1, <1>2, <1>3 DEF SVC!Init

SVCvars == <<Links(status), Asked(received), written>>

LEMMA RefinesOpen ==
  ASSUME RefinesInv, NEW k \in Conns, OnTcpConnection(k)
  PROVE  SVC!Next \/ UNCHANGED SVCvars
<1>1. written' = written /\ received' = received /\ status[k] = "none"
  BY DEF OnTcpConnection
<1>2. PICK x \in {"INIT", "CONNECTED"} : status' = [status EXCEPT ![k] = x]
  BY DEF OnTcpConnection
<1>3. /\ Links(status)[k] = LinkOf(status[k])
      /\ Links(status') = [Links(status) EXCEPT ![k] = LinkOf(x)]
      /\ Links(status) = [j \in Conns |-> LinkOf(status[j])]
  BY <1>2, LinksAre, StatusType DEF RefinesInv
<1>4. Asked(received)' = Asked(received)
  BY <1>1, Zenon DEF Asked
<1>5. CASE x = "INIT"
  <2>1. Links(status') = Links(status)
    BY <1>1, <1>3, <1>5 DEF LinkOf
  <2> QED BY <1>1, <1>4, <2>1, Zenon DEF SVCvars, Links
<1>6. CASE x = "CONNECTED"
  <2>1. Links(status)[k] = "none" /\ Links(status') = [Links(status) EXCEPT ![k] = "open"]
    BY <1>1, <1>3, <1>6 DEF LinkOf
  <2>2. SVC!Open(k)
    BY <1>1, <1>4, <2>1, Zenon DEF SVC!Open, Links, Asked
  <2> QED BY <2>2, Zenon DEF SVC!Next
<1> QED BY <1>5, <1>6

\* A connection that is open closes, with the notice or without.
LEMMA RefinesClose ==
  ASSUME RefinesInv, NEW k \in Conns, status[k] = "CONNECTED",
         status' = [status EXCEPT ![k] = "CLOSED"], received' = received,
         written' = written \/ written' = [written EXCEPT ![k] = Append(@, Notice)]
  PROVE  SVC!Next
<1>1. /\ Links(status)[k] = LinkOf(status[k])
      /\ Links(status') = [Links(status) EXCEPT ![k] = LinkOf("CLOSED")]
  BY LinksAre, StatusType DEF RefinesInv
<1>2. Links(status)[k] = "open" /\ Links(status') = [Links(status) EXCEPT ![k] = "closed"]
  BY <1>1 DEF LinkOf
<1>4. Asked(received') = Asked(received)
  BY Zenon
<1>5. \/ UNCHANGED written
      \/ written' = [written EXCEPT ![k] = Append(@, SVC!Notice)]
  BY Zenon DEF Notice, SVC!Notice
<1>3. SVC!Close(k)
  BY <1>2, <1>4, <1>5, Zenon DEF SVC!Close, Links, Asked
<1> QED BY <1>3, Zenon DEF SVC!Next

LEMMA RefinesCall ==
  ASSUME RefinesInv, NEW c \in Calls, OnCall(c)
  PROVE  SVC!Next
<1>1. /\ status[ConnOf[c]] = "CONNECTED" /\ \A i \in DOMAIN received : received[i] # c
      /\ received' = Append(received, c) /\ written' = written /\ status' = status
      /\ ConnOf[c] \in Conns /\ received \in Seq(Calls)
  BY DEF OnCall, ioVars, RefinesInv, TypeOK
<1>2. Links(status)[ConnOf[c]] = "open"
  BY <1>1, LinksAre, StatusType DEF RefinesInv, LinkOf
<1>3. c \notin Asked(received)
  BY <1>1 DEF Asked
<1>4. Asked(Append(received, c)) = Asked(received) \cup {c}
  <2>1. \A x : In(x, Append(received, c)) <=> In(x, received) \/ x = c
    BY <1>1, InAppend
  <2>2. \A s, x : x \in Asked(s) <=> In(x, s)
    BY DEF Asked, In
  <2> QED BY <2>1, <2>2
<1>5. SVC!Ask(c)
  BY <1>1, <1>2, <1>3, <1>4, Zenon DEF SVC!Ask, Links, Asked
<1> QED BY <1>5, Zenon DEF SVC!Next

\* An answer that is about to be sent is to a call that came in, and was not
\* answered yet.
LEMMA AnswerIsDue ==
  ASSUME RefinesInv, sending # <<>>, Head(sending).call # NullBuffer
  PROVE  LET p == Head(sending)
         IN  /\ p.conn = ConnOf[p.call] /\ p.conn \in Conns /\ p.call \in Calls
             /\ In(p.call, received) /\ ~In(p.call, written[p.conn])
<1> DEFINE p == Head(sending)
           c == p.call
           s == CallsOf(Tail(sending))
           k == p.conn
           t == ThreadOf(c)
<1>1. sending \in Seq(Packet) /\ p \in Packet /\ Tail(sending) \in Seq(Packet)
  <2>1. sending \in Seq(Packet)
    BY DEF RefinesInv, TypeOK
  <2> QED BY <2>1, ElementType, Zenon
<1>2. k \in Conns /\ c \in Calls /\ c \in Items
  BY <1>1 DEF Packet, Items
<1>3. k = ConnOf[c]
  <2>1. PacketOK(status, p)
    BY <1>1, ReadyTail, Zenon DEF RefinesInv, PacketInv
  <2> QED BY <2>1 DEF PacketOK
<1>4. t \in Threads /\ c \in Mine(t)
  BY <1>2, ThreadsType DEF Mine
<1>5. CallsOf(sending) = <<c>> \o s
  BY <1>1, CallsOfHead, Zenon
<1>6. s \in Seq(Items)
  BY <1>1, CallsOfType, Zenon
<1> HIDE DEF t, c, s, k
<1>7. /\ written[k] \in Seq(Items)
      /\ CallsOf(resultList) \in Seq(Items) /\ CallsOf(out[t]) \in Seq(Items)
      /\ batch[t] \in Seq(Items) /\ queue[t] \in Seq(Items) /\ received \in Seq(Items)
  BY <1>2, <1>4, WayTypes DEF RefinesInv
<1> DEFINE x == CallsOf(resultList) \o (CallsOf(out[t]) \o (batch[t] \o queue[t]))
           y == s \o x
           h == <<c>>
<1>8. x \in Seq(Items)
  BY <1>7, TailLine, Zenon
<1>9. h \in Seq(Items)
  BY <1>2
<1> HIDE DEF x, h
<1>10. y \in Seq(Items) /\ (h \o s) \o x = h \o y
  BY <1>6, <1>8, <1>9
<1> HIDE DEF y
<1>11. Follows(received, WayOf(k, t), Mine(t))
  BY <1>2, <1>4, Zenon DEF RefinesInv, OrderInv, WayInv
<1>12. Follows(received, written[k] \o (<<c>> \o y), Mine(t))
  BY <1>5, <1>10, <1>11, Zenon DEF WayOf, Line, x, h
<1>13. In(c, received) /\ ~In(c, written[k])
  <2>1. Distinct(received)
    BY DEF RefinesInv, OrderInv
  <2> QED BY <1>2, <1>4, <1>7, <1>10, <1>12, <2>1, FollowsNext, Zenon
<1> QED BY <1>2, <1>3, <1>13, Zenon DEF c, k

LEMMA RefinesSend ==
  ASSUME RefinesInv, DoSend
  PROVE  SVC!Next \/ UNCHANGED SVCvars
<1> DEFINE p == Head(sending)
           c == p.call
           k == p.conn
<1>1. received' = received /\ sending # <<>>
  BY DEF DoSend
<1>2. PacketOK(status, p)
  BY <1>1, ReadyTail, PacketTypes, Zenon DEF RefinesInv, PacketInv
<1>3. k \in Conns /\ status[k] \in {"CONNECTED", "CLOSED"}
  BY <1>2 DEF PacketOK, Up
<1>4. CASE c = NullBuffer
  <2>1. status' = [status EXCEPT ![k] = "CLOSED"] /\ written' = written
    BY <1>4 DEF DoSend, CloseQuietly
  <2>2. CASE status[k] = "CONNECTED"
    BY <1>1, <1>3, <2>1, <2>2, RefinesClose
  <2>3. CASE status[k] = "CLOSED"
    <3>1. status' = status
      BY <2>1, <2>3, StatusType DEF RefinesInv
    <3> QED BY <1>1, <2>1, <3>1, Zenon DEF SVCvars, Links, Asked
  <2> QED BY <1>3, <2>2, <2>3
<1>5. CASE c # NullBuffer
  <2>1. SendAnswer(k, c)
    BY <1>5 DEF DoSend
  <2>2. CASE UNCHANGED <<status, written>>
    BY <1>1, <2>2, Zenon DEF SVCvars, Links, Asked
  <2>3. CASE /\ status[k] = "CONNECTED" /\ status' = status
             /\ written' = [written EXCEPT ![k] = Append(@, c)]
    <3>1. /\ k = ConnOf[c] /\ c \in Calls
          /\ In(c, received) /\ ~In(c, written[k])
      BY <1>1, <1>5, AnswerIsDue
    <3>2. Links(status)[k] = "open"
      BY <1>3, <2>3, LinksAre, StatusType DEF RefinesInv, LinkOf
    <3>3. c \in Asked(received) /\ c \notin SVC!Written(written[k])
      BY <3>1 DEF In, Asked, SVC!Written
    <3> HIDE DEF c, k
    <3>4. SVC!Reply(c)
      BY <1>1, <2>3, <3>1, <3>2, <3>3, Zenon DEF SVC!Reply, Links, Asked
    <3> QED BY <3>1, <3>4, Zenon DEF SVC!Next
  <2> QED BY <2>1, <2>2, <2>3, Zenon DEF SendAnswer, Sendable
<1> QED BY <1>4, <1>5

LEMMA StepRefines ==
  ASSUME RefinesInv, [Next]_vars
  PROVE  SVC!Next \/ UNCHANGED SVCvars
<1> USE DEF ioVars, sendVars, connVars, taskVars, pumpVars
<1>1. CASE UNCHANGED <<status, received, written>>
  BY <1>1, Zenon DEF SVCvars, Links, Asked
<1>2. CASE Peer
  <2>1. ASSUME NEW k \in Conns, ConnectionFails(k) PROVE SVC!Next
    <3>1. /\ status[k] = "CONNECTED" /\ status' = [status EXCEPT ![k] = "CLOSED"]
          /\ received' = received /\ written' = [written EXCEPT ![k] = Append(@, Notice)]
      BY <2>1 DEF ConnectionFails, CloseFor
    <3> QED BY <3>1, RefinesClose, Zenon
  <2> QED BY <1>2, <2>1, RefinesOpen, RefinesCall, Zenon DEF Peer
<1>3. CASE DoSend
  BY <1>3, RefinesSend
<1>4. CASE ~Peer /\ ~DoSend
  <2>1. UNCHANGED <<status, received, written>>
    BY <1>4, Zenon DEF Next, Handler, TakeTasks, DoTask, Push, Signal, AsyncBegin,
       OnAfterClose, SetConnectMonitor, PumpMonitor, TellOpen, TellClose, vars
  <2> QED BY <1>1, <2>1, Zenon
<1> QED BY <1>2, <1>3, <1>4

\* Every behaviour of the server is one of Service: each call it received is
\* answered at most once, on its connection and while that is open, and nothing
\* follows the notice of a close.
THEOREM ImplementsCorrect == Spec => ImplementsService
<1>1. TypeOK /\ PacketInv /\ [Next]_vars => PacketInv'
  BY StepPackets
<1>2. RefinesInv /\ [Next]_vars => [SVC!Next]_SVCvars
  BY StepRefines
<1>3. TypeOK /\ OrderInv /\ PacketInv => RefinesInv
  BY DEF RefinesInv
<1>4. [SVC!Next]_SVCvars => [SVC!Next]_<<Links(status), Asked(received), written>>
  BY DEF SVCvars
<1> QED BY <1>1, <1>2, <1>3, <1>4, OrderIsInvariant, InitPackets, InitRefines, PTL
     DEF Spec, ImplementsService, SVC!Spec

\* What Service promises, of the values its variables are mapped to.
Promised(l, a, r) ==
  \A k \in Conns : \A i \in DOMAIN r[k] :
    IF r[k][i] = Notice
    THEN i = Len(r[k]) /\ l[k] = "closed"
    ELSE /\ r[k][i] \in a /\ ConnOf[r[k][i]] = k
         /\ \A j \in DOMAIN r[k] : r[k][j] = r[k][i] => j = i

LEMMA PromisedStep ==
  ASSUME NEW l \in [Conns -> {"none", "open", "closed"}], NEW a \in SUBSET Calls,
         NEW r \in [Conns -> Seq(Calls \cup {Notice})], Promised(l, a, r)
  PROVE  /\ \A k \in Conns : l[k] = "none" => Promised([l EXCEPT ![k] = "open"], a, r)
         /\ \A c \in Calls : Promised(l, a \cup {c}, r)
         /\ \A c \in a :
              l[ConnOf[c]] = "open" /\ ~In(c, r[ConnOf[c]]) =>
                Promised(l, a, [r EXCEPT ![ConnOf[c]] = Append(@, c)])
         /\ \A k \in Conns : l[k] = "open" =>
              /\ Promised([l EXCEPT ![k] = "closed"], a, r)
              /\ Promised([l EXCEPT ![k] = "closed"], a, [r EXCEPT ![k] = Append(@, Notice)])
<1> USE DEF Promised
<1>1. ASSUME NEW k \in Conns, l[k] \in {"none", "open"}, NEW x
      PROVE  Promised([l EXCEPT ![k] = x], a, r)
  BY <1>1
<1>2. ASSUME NEW c \in Calls PROVE Promised(l, a \cup {c}, r)
  OBVIOUS
<1>3. ASSUME NEW k \in Conns, l[k] = "open" PROVE \A i \in DOMAIN r[k] : r[k][i] # Notice
  BY <1>3
<1>4. ASSUME NEW c \in a, l[ConnOf[c]] = "open", ~In(c, r[ConnOf[c]])
      PROVE  Promised(l, a, [r EXCEPT ![ConnOf[c]] = Append(@, c)])
  <2> DEFINE k == ConnOf[c]
             s == r[k]
             n == Append(s, c)
  <2>1. k \in Conns /\ s \in Seq(Calls \cup {Notice}) /\ c \in Calls /\ c # Notice
    BY CallsAssumption DEF Notice
  <2>2. \A i \in DOMAIN s : s[i] # Notice /\ s[i] # c
    BY <1>3, <1>4, <2>1 DEF In
  <2>3. /\ \A i \in DOMAIN s : s[i] \in a /\ ConnOf[s[i]] = k
        /\ \A i, j \in DOMAIN s : s[j] = s[i] => j = i
    BY <2>1, <2>2
  <2>4. [r EXCEPT ![k] = Append(@, c)] = [r EXCEPT ![k] = n]
    OBVIOUS
  <2>5. ConnOf[c] = k
    OBVIOUS
  <2> HIDE DEF k, s
  <2>6. \A i \in DOMAIN n : IF i = Len(s) + 1 THEN n[i] = c ELSE i \in DOMAIN s /\ n[i] = s[i]
    BY <2>1
  <2>7. \A i \in DOMAIN n : n[i] # Notice /\ n[i] \in a /\ ConnOf[n[i]] = k
    BY <2>1, <2>2, <2>3, <2>5, <2>6
  <2>8. \A i, j \in DOMAIN n : n[j] = n[i] => j = i
    BY <2>2, <2>3, <2>6
  <2> HIDE DEF n
  <2>9. Promised(l, a, [r EXCEPT ![k] = n])
    BY <2>1, <2>7, <2>8
  <2> QED BY <2>4, <2>9 DEF k
<1>5. ASSUME NEW k \in Conns, l[k] = "open"
      PROVE  Promised([l EXCEPT ![k] = "closed"], a, [r EXCEPT ![k] = Append(@, Notice)])
  <2> DEFINE s == r[k]
             n == Append(s, Notice)
  <2>1. s \in Seq(Calls \cup {Notice}) /\ \A i \in DOMAIN s : s[i] # Notice
    BY <1>3, <1>5
  <2>2. /\ \A i \in DOMAIN s : s[i] \in a /\ ConnOf[s[i]] = k
        /\ \A i, j \in DOMAIN s : s[j] = s[i] => j = i
    BY <2>1
  <2> HIDE DEF s
  <2>3. /\ Len(n) = Len(s) + 1
        /\ \A i \in DOMAIN n : IF i = Len(n) THEN n[i] = Notice
                              ELSE i \in DOMAIN s /\ n[i] = s[i]
    BY <2>1
  <2> HIDE DEF n
  <2>4. \A i \in DOMAIN n :
          IF n[i] = Notice THEN i = Len(n)
          ELSE n[i] \in a /\ ConnOf[n[i]] = k /\ \A j \in DOMAIN n : n[j] = n[i] => j = i
    BY <2>1, <2>2, <2>3
  <2>5. Promised([l EXCEPT ![k] = "closed"], a, [r EXCEPT ![k] = n])
    BY <2>4
  <2> QED BY <2>5 DEF n, s
<1> QED BY <1>1, <1>2, <1>4, <1>5

\* Whatever threads run the handlers and wherever a connection fails, no peer
\* reads two answers to a call, an answer to a call it did not make on that
\* connection, or anything behind the notice that ends it: the refinement
\* gives Service's promise to what uv_write took.
THEOREM AnsweredCorrect == Spec => []SVC!AnsweredOnce
<1>0. SVC!AnsweredOnce <=> Promised(Links(status), Asked(received), written)
  BY DEF SVC!AnsweredOnce, SVC!Notice, Notice, Promised, Links, Asked
<1>1. Init => Promised(Links(status), Asked(received), written)
  BY DEF Init, Promised
<1>2. ASSUME RefinesInv, Promised(Links(status), Asked(received), written), [Next]_vars
      PROVE  Promised(Links(status), Asked(received), written)'
  <2> DEFINE l == Links(status)
             a == Asked(received)
             r == written
             m == Links(status')
             b == Asked(received')
  <2>0. Promised(l, a, r)
    BY <1>2
  <2>1. /\ l \in [Conns -> {"none", "open", "closed"}] /\ a \in SUBSET Calls
        /\ r \in [Conns -> Seq(Calls \cup {Notice})]
    BY <1>2 DEF RefinesInv, TypeOK, Links, Asked
  <2>2. SVC!Next \/ UNCHANGED SVCvars
    BY <1>2, StepRefines
  <2>3. SUFFICES Promised(m, b, written')
    BY Zenon DEF Links, Asked, Promised
  <2>4. CASE UNCHANGED SVCvars
    BY <2>0, <2>4, Zenon DEF SVCvars
  <2>5. ASSUME NEW k \in Conns, SVC!Open(k) PROVE Promised(m, b, written')
    <3>1. l[k] = "none" /\ m = [l EXCEPT ![k] = "open"] /\ b = a /\ written' = r
      BY <2>5, Zenon DEF SVC!Open, Links, Asked
    <3> HIDE DEF l, m, a, b, r
    <3> QED BY <2>0, <2>1, <3>1, PromisedStep
  <2>6. ASSUME NEW k \in Conns, SVC!Close(k) PROVE Promised(m, b, written')
    <3>1. /\ l[k] = "open" /\ m = [l EXCEPT ![k] = "closed"] /\ b = a
          /\ written' = r \/ written' = [r EXCEPT ![k] = Append(@, Notice)]
      BY <2>6, Zenon DEF SVC!Close, SVC!Notice, Notice, Links, Asked
    <3> HIDE DEF l, m, a, b, r
    <3>2. /\ Promised([l EXCEPT ![k] = "closed"], a, r)
          /\ Promised([l EXCEPT ![k] = "closed"], a, [r EXCEPT ![k] = Append(@, Notice)])
      BY <2>0, <2>1, <3>1, PromisedStep, Zenon
    <3> QED BY <3>1, <3>2, Zenon
  <2>7. ASSUME NEW c \in Calls, SVC!Ask(c) PROVE Promised(m, b, written')
    <3>1. m = l /\ b = a \cup {c} /\ written' = r
      BY <2>7, Zenon DEF SVC!Ask, Links, Asked
    <3> HIDE DEF l, m, a, b, r
    <3> QED BY <2>0, <2>1, <3>1, PromisedStep
  <2>8. ASSUME NEW c \in Calls, SVC!Reply(c) PROVE Promised(m, b, written')
    <3>1. /\ l[ConnOf[c]] = "open" /\ c \in a /\ m = l /\ b = a
          /\ written' = [r EXCEPT ![ConnOf[c]] = Append(@, c)]
          /\ c \notin SVC!Written(r[ConnOf[c]])
      BY <2>8, Zenon DEF SVC!Reply, Links, Asked
    <3>2. ~In(c, r[ConnOf[c]])
      BY <3>1, Zenon DEF SVC!Written, In
    <3> HIDE DEF l, m, a, b, r
    <3>3. Promised(l, a, [r EXCEPT ![ConnOf[c]] = Append(@, c)])
      BY <2>0, <2>1, <3>1, <3>2, PromisedStep, Zenon
    <3> QED BY <3>1, <3>3, Zenon
  <2> QED BY <2>2, <2>4, <2>5, <2>6, <2>7, <2>8 DEF SVC!Next
<1>3. TypeOK /\ OrderInv /\ PacketInv => RefinesInv
  BY DEF RefinesInv
<1>4. TypeOK /\ PacketInv /\ [Next]_vars => PacketInv'
  BY StepPackets
<1> QED BY <1>0, <1>1, <1>2, <1>3, <1>4, OrderIsInvariant, InitPackets, PTL DEF Spec

-----------------------------------------------------------------------------
(* What the monitor is told.                                               *)

Nothing   == <<>>
Opened    == <<"open">>
Closed    == <<"close">>
OpenClose == <<"open", "close">>

LEMMA Stories ==
  /\ Nothing # Opened /\ Nothing # OpenClose /\ Opened # OpenClose
  /\ Append(Nothing, "open") = Opened /\ Append(Opened, "close") = OpenClose
<1>1. Len(Nothing) = 0
  BY DEF Nothing
<1>2. Len(Opened) = 1
  BY DEF Opened
<1>3. Len(OpenClose) = 2
  BY DEF OpenClose
<1>4. Nothing # Opened /\ Nothing # OpenClose /\ Opened # OpenClose
  BY <1>1, <1>2, <1>3
<1>5. Append(Nothing, "open") = Opened
  BY DEF Nothing, Opened
<1>6. Append(Opened, "close") = OpenClose
  <2>1. Opened \in Seq({"open", "close"}) /\ OpenClose \in Seq({"open", "close"})
    BY DEF Opened, OpenClose
  <2>2. /\ Append(Opened, "close") \in Seq({"open", "close"})
        /\ Len(Append(Opened, "close")) = 2
    <3>1. \A s \in Seq({"open", "close"}) : Append(s, "close") \in Seq({"open", "close"})
      OBVIOUS
    <3>2. \A s \in Seq({"open", "close"}) : Len(Append(s, "close")) = Len(s) + 1
      OBVIOUS
    <3>3. Append(Opened, "close") \in Seq({"open", "close"})
      BY <2>1, <3>1, Zenon
    <3>4. Len(Append(Opened, "close")) = 1 + 1
      BY <1>2, <2>1, <3>2, Zenon
    <3> QED BY <3>3, <3>4
  <2>3. Append(Opened, "close")[1] = "open" /\ Append(Opened, "close")[2] = "close"
    BY <1>2, <2>1 DEF Opened
  <2>4. OpenClose[1] = "open" /\ OpenClose[2] = "close"
    BY DEF OpenClose
  <2> QED BY <1>3, <2>1, <2>2, <2>3, <2>4
<1> QED BY <1>4, <1>5, <1>6

LEMMA StoriesJoin ==
  /\ \A s \in {Nothing, Opened, Closed, OpenClose} : s \o Nothing = s /\ Nothing \o s = s
  /\ Opened \o Closed = OpenClose
<1>1. \A s \in Seq({"open", "close"}) : s \o <<>> = s /\ <<>> \o s = s
  OBVIOUS
<1>2. /\ Nothing \in Seq({"open", "close"}) /\ Opened \in Seq({"open", "close"})
      /\ Closed \in Seq({"open", "close"}) /\ OpenClose \in Seq({"open", "close"})
  BY DEF Nothing, Opened, Closed, OpenClose
<1>3. \A s \in {Nothing, Opened, Closed, OpenClose} : s \o Nothing = s /\ Nothing \o s = s
  BY <1>1, <1>2, Zenon DEF Nothing
<1>4. Opened \o Closed = OpenClose
  <2>1. Opened \o Closed = Append(Opened, "close")
    BY <1>2 DEF Closed
  <2> QED BY <2>1, Stories
<1> QED BY <1>3, <1>4

\* No list mentions a connection twice, and those of PumpMonitorMessage are
\* empty outside it.
ListsInv ==
  /\ Distinct(opens) /\ Distinct(closes) /\ Distinct(openList) /\ Distinct(closeList)
  /\ pump = "tasks" => opens = <<>> /\ closes = <<>>

Unmentioned(k) ==
  /\ told[k] = Nothing /\ ~In(k, opens) /\ ~In(k, closes)
  /\ ~In(k, openList) /\ ~In(k, closeList)

\* The open of a connection is in one place: in a list, or told.
OpenKnown(k) == In(k, opens) \/ In(k, openList) \/ told[k] = Opened

StoryInv(k) ==
  /\ told[k] \in {Nothing, Opened, OpenClose}
  /\ ~monitor => Unmentioned(k)
  /\ status[k] = "none" => k \notin table /\ Unmentioned(k)
  /\ In(k, opens) => told[k] = Nothing /\ ~In(k, openList)
  /\ In(k, openList) => told[k] = Nothing
  /\ In(k, closes) => k \notin table /\ OpenKnown(k) /\ ~In(k, openList) /\ ~In(k, closeList)
  /\ In(k, closeList) => k \notin table /\ OpenKnown(k)
  /\ monitor /\ k \in table => OpenKnown(k)
  /\ told[k] = OpenClose => ~In(k, closes) /\ ~In(k, closeList) /\ k \notin table
  /\ k \notin table /\ OpenKnown(k) => In(k, closes) \/ In(k, closeList)

MonitorInv == ListsInv /\ \A k \in Conns : StoryInv(k)

LEMMA EmptyList == Distinct(<<>>) /\ \A x : ~In(x, <<>>)
BY DEF Distinct, In

LEMMA ListGrows ==
  ASSUME NEW list \in Seq(Conns), Distinct(list), NEW k \in Conns, ~In(k, list),
         NEW known, NEW longer, longer = IF known THEN Append(list, k) ELSE list
  PROVE  /\ \A x : In(x, longer) <=> In(x, list) \/ (known /\ x = k)
         /\ Distinct(longer)
<1>1. CASE known
  <2>1. longer = Append(list, k)
    BY <1>1, Zenon
  <2>2. \A x : In(x, Append(list, k)) <=> In(x, list) \/ x = k
    BY InAppend, Zenon
  <2>3. Distinct(Append(list, k))
    BY DistinctAppend, Zenon
  <2>4. \A x : In(x, longer) <=> In(x, list) \/ (known /\ x = k)
    BY <1>1, <2>1, <2>2
  <2>5. Distinct(longer)
    BY <2>1, <2>3, Zenon
  <2> QED BY <2>4, <2>5, Zenon
<1>2. CASE ~known
  <2>1. longer = list
    BY <1>2, Zenon
  <2> QED BY <1>2, <2>1
<1> QED BY <1>1, <1>2, Zenon

LEMMA ListTypes ==
  ASSUME TypeOK
  PROVE  /\ opens \in Seq(Conns) /\ closes \in Seq(Conns)
         /\ openList \in Seq(Conns) /\ closeList \in Seq(Conns)
         /\ status \in [Conns -> {"none", "INIT", "CONNECTED", "CLOSED"}]
         /\ DOMAIN told = Conns
BY DEF TypeOK

LEMMA InitMonitor == Init => MonitorInv
<1> SUFFICES ASSUME Init PROVE MonitorInv
  OBVIOUS
<1>1. /\ opens = <<>> /\ closes = <<>> /\ openList = <<>> /\ closeList = <<>>
      /\ table = {} /\ monitor = FALSE
      /\ \A k \in Conns : told[k] = Nothing
  BY DEF Init, Nothing
<1>2. ListsInv
  BY <1>1, EmptyList, Zenon DEF ListsInv
<1>3. ASSUME NEW k \in Conns PROVE StoryInv(k)
  <2>1. told[k] = Nothing /\ k \notin table
    BY <1>1
  <2> QED BY <1>1, <2>1, EmptyList, Stories, Zenon DEF StoryInv, Unmentioned, OpenKnown
<1> QED BY <1>2, <1>3 DEF MonitorInv

\* A step that tells the monitor nothing and leaves its lists.
LEMMA MonitorKept ==
  ASSUME MonitorInv, UNCHANGED <<opens, closes, openList, closeList, told, table, monitor>>,
         pump' = "tasks" => pump = "tasks" \/ (opens = <<>> /\ closes = <<>>),
         \A k \in Conns : status'[k] = "none" => status[k] = "none"
  PROVE  MonitorInv'
<1>1. ListsInv'
  BY Zenon DEF MonitorInv, ListsInv
<1>2. ASSUME NEW k \in Conns PROVE StoryInv(k)'
  <2>1. StoryInv(k) /\ (status'[k] = "none" => status[k] = "none")
    BY DEF MonitorInv
  <2> QED BY <2>1, Zenon DEF StoryInv, Unmentioned, OpenKnown
<1> QED BY <1>1, <1>2, Zenon DEF MonitorInv

LEMMA MonitorConnection ==
  ASSUME TypeOK, MonitorInv, NEW k \in Conns, OnTcpConnection(k)
  PROVE  MonitorInv'
<1>1. /\ status[k] = "none" /\ table' = table \cup {k}
      /\ openList' = Announced(k)
      /\ UNCHANGED <<opens, closes, closeList, told, monitor, pump>>
  BY DEF OnTcpConnection, pumpVars
<1>2. status'[k] # "none" /\ \A j \in Conns : j # k => status'[j] = status[j]
  BY ListTypes DEF OnTcpConnection
<1>3. StoryInv(k) /\ Unmentioned(k) /\ k \notin table
  BY <1>1, Zenon DEF MonitorInv, StoryInv
<1>4. /\ \A x : In(x, openList') <=> In(x, openList) \/ (monitor /\ x = k)
      /\ Distinct(openList')
  <2>1. ~In(k, openList) /\ Distinct(openList) /\ openList \in Seq(Conns)
    BY <1>3, ListTypes, Zenon DEF Unmentioned, MonitorInv, ListsInv
  <2>2. openList' = IF monitor THEN Append(openList, k) ELSE openList
    BY <1>1, Zenon DEF Announced
  <2> QED BY <2>1, <2>2, ListGrows, Zenon
<1>5. ListsInv'
  BY <1>1, <1>4, Zenon DEF MonitorInv, ListsInv
<1>6. ASSUME NEW j \in Conns PROVE StoryInv(j)'
  <2>1. CASE j = k
    <3>1. told'[k] = Nothing /\ k \in table' /\ monitor' = monitor /\ status'[k] # "none"
          /\ ~In(k, opens') /\ ~In(k, closes') /\ ~In(k, closeList')
          /\ (In(k, openList') <=> monitor)
      BY <1>1, <1>2, <1>3, <1>4, Zenon DEF Unmentioned
    <3>2. StoryInv(k)'
      BY <3>1, Stories, Zenon DEF StoryInv, OpenKnown, Unmentioned
    <3> QED BY <2>1, <3>2, Zenon
  <2>2. CASE j # k
    <3>1. StoryInv(j)
      BY DEF MonitorInv
    <3>2. (j \in table' <=> j \in table) /\ status'[j] = status[j]
      BY <1>1, <1>2, <2>2
    <3>3. In(j, openList') <=> In(j, openList)
      BY <1>4, <2>2
    <3> QED BY <1>1, <3>1, <3>2, <3>3, Zenon DEF StoryInv, OpenKnown, Unmentioned
  <2> QED BY <2>1, <2>2
<1> QED BY <1>5, <1>6, Zenon DEF MonitorInv

LEMMA MonitorClose ==
  ASSUME TypeOK, MonitorInv, NEW k \in Conns, OnAfterClose(k)
  PROVE  MonitorInv'
<1>1. /\ status' = status /\ k \in table /\ table' = table \ {k}
      /\ closeList' = IF monitor THEN Append(closeList, k) ELSE closeList
      /\ UNCHANGED <<opens, closes, openList, told, monitor, pump>>
  BY Zenon DEF OnAfterClose, PeerOf, ioVars, pumpVars
<1>2. StoryInv(k)
  BY DEF MonitorInv
<1>3. ~In(k, closes) /\ ~In(k, closeList)
  BY <1>1, <1>2, Zenon DEF StoryInv
<1>4. /\ \A x : In(x, closeList') <=> In(x, closeList) \/ (monitor /\ x = k)
      /\ Distinct(closeList')
  <2>1. Distinct(closeList) /\ closeList \in Seq(Conns)
    BY ListTypes DEF MonitorInv, ListsInv
  <2> QED BY <1>1, <1>3, <2>1, ListGrows, Zenon
<1>5. ListsInv'
  BY <1>1, <1>4, Zenon DEF MonitorInv, ListsInv
<1>6. ASSUME NEW j \in Conns PROVE StoryInv(j)'
  <2>1. CASE j = k
    <3>1. /\ k \notin table' /\ ~In(k, closes') /\ (In(k, closeList') <=> monitor)
          /\ (OpenKnown(k)' <=> OpenKnown(k))
      BY <1>1, <1>3, <1>4, Zenon DEF OpenKnown
    <3>2. /\ (Unmentioned(k) <=> told[k] = Nothing /\ ~In(k, opens) /\ ~In(k, openList))
          /\ (monitor => OpenKnown(k)) /\ (~monitor => Unmentioned(k))
          /\ status[k] # "none"
      BY <1>1, <1>2, <1>3, Zenon DEF StoryInv, Unmentioned
    <3>3. StoryInv(k)'
      BY <1>1, <1>2, <3>1, <3>2, Stories, Zenon DEF StoryInv, Unmentioned, OpenKnown
    <3> QED BY <2>1, <3>3, Zenon
  <2>2. CASE j # k
    <3>1. StoryInv(j)
      BY DEF MonitorInv
    <3>2. j \in table' <=> j \in table
      BY <1>1, <2>2
    <3>3. In(j, closeList') <=> In(j, closeList)
      BY <1>4, <2>2
    <3> QED BY <1>1, <3>1, <3>2, <3>3, Zenon DEF StoryInv, OpenKnown, Unmentioned
  <2> QED BY <2>1, <2>2
<1> QED BY <1>5, <1>6, Zenon DEF MonitorInv

\* A list as long as its set is large repeats nothing.
LEMMA OrderDistinct ==
  ASSUME NEW n \in Nat, NEW T, Cardinality(T) = n, NEW f \in [1..n -> T],
         \A x \in T : \E i \in DOMAIN f : f[i] = x
  PROVE  Distinct(f) /\ \A x : In(x, f) <=> x \in T
<1>1. IsFiniteSet(1..n) /\ Cardinality(1..n) = n
  BY FS_Interval
<1>2. f \in Surjection(1..n, T)
  BY DEF Surjection
<1>3. f \in Injection(1..n, T)
  BY <1>1, <1>2, FS_SurjSameCardinalityImpliesInj
<1>4. Distinct(f)
  BY <1>3 DEF Injection, IsInjective, Distinct
<1>5. \A x : In(x, f) <=> x \in T
  BY DEF In
<1> QED BY <1>4, <1>5

LEMMA MonitorSet ==
  ASSUME TypeOK, MonitorInv, SetConnectMonitor
  PROVE  MonitorInv'
<1>1. /\ ~monitor /\ monitor' = TRUE /\ pump = "tasks"
      /\ UNCHANGED <<status, opens, closes, closeList, told, table, pump>>
  BY Zenon DEF SetConnectMonitor, ioVars, pumpVars
<1>2. \A k \in Conns : Unmentioned(k)
  BY <1>1, Zenon DEF MonitorInv, StoryInv
<1>3. openList = <<>>
  <2>1. openList \in Seq(Conns)
    BY ListTypes
  <2>2. ASSUME openList # <<>> PROVE FALSE
    <3>1. PICK j \in Conns : j = Head(openList)
      BY <2>1, <2>2, ElementType
    <3>2. In(j, openList)
      BY <2>1, <2>2, <3>1, InHeadTail, Zenon
    <3> QED BY <1>2, <3>2, Zenon DEF Unmentioned
  <2> QED BY <2>2
<1>4. PICK order \in [1..Cardinality(table) -> table] :
        /\ \A k \in table : \E i \in DOMAIN order : order[i] = k
        /\ openList' = openList \o order
  BY DEF SetConnectMonitor
<1>5. table \subseteq Conns /\ IsFiniteSet(table) /\ Cardinality(table) \in Nat
  <2>1. table \subseteq Conns
    BY DEF TypeOK
  <2> QED BY <2>1, FS_Subset, FS_CardinalityType
<1>6. openList' = order
  <2>1. order \in Seq(table)
    BY <1>5, FunctionType, Zenon
  <2> QED BY <1>3, <1>4, <2>1
<1>7. Distinct(openList') /\ \A x : In(x, openList') <=> x \in table
  <2>1. Distinct(order) /\ \A x : In(x, order) <=> x \in table
    BY <1>4, <1>5, OrderDistinct, Zenon
  <2> QED BY <1>6, <2>1, Zenon
<1>8. ListsInv'
  BY <1>1, <1>7, Zenon DEF MonitorInv, ListsInv
<1>9. ASSUME NEW k \in Conns PROVE StoryInv(k)'
  <2>1. /\ told'[k] = Nothing /\ ~In(k, opens') /\ ~In(k, closes') /\ ~In(k, closeList')
        /\ (In(k, openList') <=> k \in table') /\ (status'[k] = "none" => k \notin table')
    BY <1>1, <1>2, <1>7, Zenon DEF Unmentioned, MonitorInv, StoryInv
  <2> QED BY <1>1, <2>1, Stories, Zenon DEF StoryInv, Unmentioned, OpenKnown
<1> QED BY <1>8, <1>9, Zenon DEF MonitorInv

LEMMA MonitorPump ==
  ASSUME TypeOK, MonitorInv, PumpMonitor
  PROVE  MonitorInv'
<1>1. /\ pump = "tasks" /\ pump' = "tell"
      /\ UNCHANGED <<status, told, table, monitor>>
  BY Zenon DEF PumpMonitor, ioVars
<1>2. opens = <<>> /\ closes = <<>>
  BY <1>1, Zenon DEF MonitorInv, ListsInv
<1>3. "tell" # "tasks"
  OBVIOUS
<1>4. CASE /\ opens' = openList /\ closes' = closeList
           /\ openList' = <<>> /\ closeList' = <<>>
  <2>1. ListsInv'
    BY <1>1, <1>3, <1>4, EmptyList, Zenon DEF MonitorInv, ListsInv
  <2>2. ASSUME NEW k \in Conns PROVE StoryInv(k)'
    <3>1. StoryInv(k)
      BY DEF MonitorInv
    <3>2. /\ ~In(k, opens) /\ ~In(k, closes) /\ ~In(k, openList') /\ ~In(k, closeList')
      BY <1>2, <1>4, EmptyList, Zenon
    <3> QED BY <1>1, <1>4, <3>1, <3>2, Zenon DEF StoryInv, Unmentioned, OpenKnown
  <2> QED BY <2>1, <2>2, Zenon DEF MonitorInv
<1>5. CASE UNCHANGED <<opens, closes, openList, closeList>>
  <2>1. \A k \in Conns : status'[k] = "none" => status[k] = "none"
    BY <1>1
  <2> QED BY <1>1, <1>3, <1>5, <2>1, MonitorKept, Zenon
<1> QED BY <1>4, <1>5, Zenon DEF PumpMonitor

LEMMA MonitorTellOpen ==
  ASSUME TypeOK, MonitorInv, TellOpen
  PROVE  MonitorInv'
<1>0. opens # <<>> /\ opens \in Seq(Conns) /\ Distinct(opens)
  BY ListTypes DEF TellOpen, MonitorInv, ListsInv
<1>a. PICK k \in Conns : k = Head(opens)
  BY <1>0, ElementType
<1>1. /\ opens' = Tail(opens) /\ pump' = pump /\ pump = "tell"
      /\ told' = [told EXCEPT ![k] = Append(@, "open")]
      /\ UNCHANGED <<status, closes, openList, closeList, table, monitor>>
  BY <1>a, Zenon DEF TellOpen, ioVars, connVars
<1>2. /\ \A x : In(x, opens) <=> x = k \/ In(x, Tail(opens))
      /\ ~In(k, Tail(opens)) /\ Distinct(Tail(opens))
  BY <1>0, <1>a, InHeadTail, DistinctTail, Zenon
<1>3. "tell" # "tasks"
  OBVIOUS
<1>4. ListsInv'
  BY <1>1, <1>2, <1>3, Zenon DEF MonitorInv, ListsInv
<1>5. StoryInv(k) /\ In(k, opens)
  BY <1>2, Zenon DEF MonitorInv
<1>6. told[k] = Nothing
  BY <1>5, Zenon DEF StoryInv
<1>7. told'[k] = Opened /\ \A j \in Conns : j # k => told'[j] = told[j]
  <2>1. /\ told'[k] = Append(told[k], "open")
        /\ \A j \in Conns : j # k => told'[j] = told[j]
    BY <1>1, ListTypes
  <2> QED BY <1>6, <2>1, Stories, Zenon
<1>8. ASSUME NEW j \in Conns PROVE StoryInv(j)'
  <2>1. CASE j = k
    <3>1. StoryInv(k)'
      BY <1>1, <1>2, <1>5, <1>6, <1>7, Stories, Zenon DEF StoryInv, Unmentioned, OpenKnown
    <3> QED BY <2>1, <3>1, Zenon
  <2>2. CASE j # k
    <3>1. StoryInv(j) /\ (In(j, opens') <=> In(j, opens)) /\ told'[j] = told[j]
      BY <1>1, <1>2, <1>7, <2>2, Zenon DEF MonitorInv
    <3> QED BY <1>1, <3>1, Zenon DEF StoryInv, OpenKnown, Unmentioned
  <2> QED BY <2>1, <2>2
<1> QED BY <1>4, <1>8, Zenon DEF MonitorInv

LEMMA MonitorTellClose ==
  ASSUME TypeOK, MonitorInv, TellClose
  PROVE  MonitorInv'
<1>0. closes # <<>> /\ closes \in Seq(Conns) /\ Distinct(closes)
  BY ListTypes DEF TellClose, MonitorInv, ListsInv
<1>a. PICK k \in Conns : k = Head(closes)
  BY <1>0, ElementType
<1>1. /\ closes' = Tail(closes) /\ pump' = pump /\ pump = "tell" /\ opens = <<>>
      /\ told' = [told EXCEPT ![k] = Append(@, "close")]
      /\ UNCHANGED <<status, opens, openList, closeList, table, monitor>>
  BY <1>a, Zenon DEF TellClose, ioVars, connVars
<1>2. /\ \A x : In(x, closes) <=> x = k \/ In(x, Tail(closes))
      /\ ~In(k, Tail(closes)) /\ Distinct(Tail(closes))
  BY <1>0, <1>a, InHeadTail, DistinctTail, Zenon
<1>3. "tell" # "tasks"
  OBVIOUS
<1>4. ListsInv'
  BY <1>1, <1>2, <1>3, Zenon DEF MonitorInv, ListsInv
<1>5. StoryInv(k) /\ In(k, closes) /\ ~In(k, opens)
  BY <1>1, <1>2, EmptyList, Zenon DEF MonitorInv
<1>6. /\ told[k] = Opened /\ ~In(k, openList) /\ ~In(k, closeList) /\ k \notin table
      /\ monitor /\ status[k] # "none"
  BY <1>5, Zenon DEF StoryInv, OpenKnown, Unmentioned
<1>7. told'[k] = OpenClose /\ \A j \in Conns : j # k => told'[j] = told[j]
  <2>1. /\ told'[k] = Append(told[k], "close")
        /\ \A j \in Conns : j # k => told'[j] = told[j]
    BY <1>1, ListTypes
  <2> QED BY <1>6, <2>1, Stories, Zenon
<1>8. ASSUME NEW j \in Conns PROVE StoryInv(j)'
  <2>1. CASE j = k
    <3>1. StoryInv(k)'
      BY <1>1, <1>2, <1>5, <1>6, <1>7, Stories, Zenon DEF StoryInv, OpenKnown
    <3> QED BY <2>1, <3>1, Zenon
  <2>2. CASE j # k
    <3>1. StoryInv(j) /\ (In(j, closes') <=> In(j, closes)) /\ told'[j] = told[j]
      BY <1>1, <1>2, <1>7, <2>2, Zenon DEF MonitorInv
    <3> QED BY <1>1, <3>1, Zenon DEF StoryInv, OpenKnown, Unmentioned
  <2> QED BY <2>1, <2>2
<1> QED BY <1>4, <1>8, Zenon DEF MonitorInv

LEMMA StepMonitor ==
  ASSUME TypeOK, MonitorInv, [Next]_vars
  PROVE  MonitorInv'
<1> USE DEF ioVars, sendVars, connVars, taskVars, pumpVars
<1>1. CASE UNCHANGED <<status, opens, closes, openList, closeList, told, table, monitor, pump>>
  <2>1. /\ UNCHANGED <<opens, closes, openList, closeList, told, table, monitor>>
        /\ \A k \in Conns : status'[k] = "none" => status[k] = "none"
    BY <1>1
  <2>2. pump' = "tasks" => pump = "tasks" \/ (opens = <<>> /\ closes = <<>>)
    BY <1>1
  <2> QED BY <2>1, <2>2, MonitorKept, Zenon
<1>2. CASE Peer
  <2>1. ASSUME NEW k \in Conns, ConnectionFails(k) PROVE MonitorInv'
    <3>1. status' = [status EXCEPT ![k] = "CLOSED"]
      BY <2>1, Zenon DEF ConnectionFails, CloseFor
    <3>2. \A j \in Conns : status'[j] = "none" => status[j] = "none"
      BY <3>1, ListTypes
    <3>3. UNCHANGED <<opens, closes, openList, closeList, told, table, monitor, pump>>
      BY <2>1, Zenon DEF ConnectionFails
    <3> QED BY <3>2, <3>3, MonitorKept, Zenon
  <2>2. ASSUME NEW c \in Calls, OnCall(c) PROVE MonitorInv'
    BY <1>1, <2>2, Zenon DEF OnCall
  <2> QED BY <1>2, <2>1, <2>2, MonitorConnection, Zenon DEF Peer
<1>3. CASE DoSend
  <2>1. status' = status \/ \E j : status' = [status EXCEPT ![j] = "CLOSED"]
    BY <1>3, Zenon DEF DoSend, CloseQuietly, SendAnswer
  <2>2. \A j \in Conns : status'[j] = "none" => status[j] = "none"
    BY <2>1, ListTypes
  <2>3. UNCHANGED <<opens, closes, openList, closeList, told, table, monitor, pump>>
    BY <1>3, Zenon DEF DoSend
  <2> QED BY <2>2, <2>3, MonitorKept, Zenon
<1>4. ASSUME NEW t \in Threads, Handler(t) PROVE MonitorInv'
  <2>1. CASE TakeTasks(t)
    <3>1. UNCHANGED <<status, opens, closes, openList, closeList, told, table, monitor>>
      BY <2>1, Zenon DEF TakeTasks
    <3>2. pump' = "tasks" => pump = "tasks" \/ (opens = <<>> /\ closes = <<>>)
      BY <2>1 DEF TakeTasks
    <3>3. \A j \in Conns : status'[j] = "none" => status[j] = "none"
      BY <3>1
    <3> QED BY <3>1, <3>2, <3>3, MonitorKept, Zenon
  <2> QED BY <1>1, <1>4, <2>1, Zenon DEF Handler, DoTask, Push, Signal
<1>5. CASE AsyncBegin \/ UNCHANGED vars
  BY <1>1, <1>5, Zenon DEF AsyncBegin, vars
<1> QED BY <1>2, <1>3, <1>4, <1>5, MonitorClose, MonitorSet, MonitorPump, MonitorTellOpen,
           MonitorTellClose, Zenon DEF Next

LEMMA MarksAre ==
  ASSUME NEW list \in Seq(Conns), Distinct(list), NEW k, NEW what
  PROVE  Marks(list, k, what) = IF In(k, list) THEN <<what>> ELSE <<>>
<1> DEFINE P == {j \in DOMAIN list : list[j] = k}
<1>1. CASE In(k, list)
  <2>1. PICK j \in DOMAIN list : list[j] = k
    BY <1>1 DEF In
  <2>2. P = {j}
    BY <2>1 DEF Distinct
  <2>3. Cardinality(P) = 1
    BY <2>2, FS_Singleton
  <2> HIDE DEF P
  <2>4. [i \in 1..Cardinality(P) |-> what] = <<what>>
    BY <2>3
  <2> QED BY <1>1, <2>4 DEF Marks, P
<1>2. CASE ~In(k, list)
  <2>1. P = {}
    BY <1>2 DEF In
  <2>2. Cardinality(P) = 0
    BY <2>1, FS_EmptySet
  <2> HIDE DEF P
  <2>3. [i \in 1..Cardinality(P) |-> what] = <<>>
    BY <2>2
  <2> QED BY <1>2, <2>3 DEF Marks, P
<1> QED BY <1>1, <1>2

LEMMA MonitorGivesStory == TypeOK /\ MonitorInv => MonitorAgrees
<1> SUFFICES ASSUME TypeOK, MonitorInv, NEW k \in Conns
             PROVE  IF ~monitor THEN Story(k) = Nothing
                    ELSE IF k \in table THEN Story(k) = Opened
                    ELSE Story(k) \in {Nothing, OpenClose}
                         /\ (status[k] = "none" => Story(k) = Nothing)
  BY Zenon DEF MonitorAgrees, Nothing, Opened, OpenClose
<1> DEFINE o1 == IF In(k, opens) THEN Opened ELSE Nothing
           c1 == IF In(k, closes) THEN Closed ELSE Nothing
           o2 == IF In(k, openList) THEN Opened ELSE Nothing
           c2 == IF In(k, closeList) THEN Closed ELSE Nothing
<1>1. StoryInv(k)
  BY DEF MonitorInv
<1>2. Story(k) = told[k] \o o1 \o c1 \o o2 \o c2
  <2>1. Marks(opens, k, "open") = o1
    BY ListTypes, MarksAre, Zenon DEF MonitorInv, ListsInv, Opened, Nothing
  <2>2. Marks(closes, k, "close") = c1
    BY ListTypes, MarksAre, Zenon DEF MonitorInv, ListsInv, Closed, Nothing
  <2>3. Marks(openList, k, "open") = o2
    BY ListTypes, MarksAre, Zenon DEF MonitorInv, ListsInv, Opened, Nothing
  <2>4. Marks(closeList, k, "close") = c2
    BY ListTypes, MarksAre, Zenon DEF MonitorInv, ListsInv, Closed, Nothing
  <2> HIDE DEF o1, c1, o2, c2
  <2> QED BY <2>1, <2>2, <2>3, <2>4, Zenon DEF Story
<1>3. CASE Unmentioned(k)
  <2>1. /\ told[k] = Nothing /\ o1 = Nothing /\ c1 = Nothing
        /\ o2 = Nothing /\ c2 = Nothing
    BY <1>3 DEF Unmentioned
  <2>2. Story(k) = Nothing
    <3> HIDE DEF o1, c1, o2, c2
    <3> QED BY <1>2, <2>1, StoriesJoin
  <2>3. monitor => k \notin table
    BY <1>1, <1>3, Stories, Zenon DEF StoryInv, Unmentioned, OpenKnown
  <2> QED BY <2>2, <2>3, Zenon
<1>4. CASE monitor /\ k \in table
  <2>1. /\ ~In(k, closes) /\ ~In(k, closeList)
        /\ \/ told[k] = Nothing /\ In(k, opens) /\ ~In(k, openList)
           \/ told[k] = Nothing /\ ~In(k, opens) /\ In(k, openList)
           \/ told[k] = Opened /\ ~In(k, opens) /\ ~In(k, openList)
    BY <1>1, <1>4, Stories, Zenon DEF StoryInv, OpenKnown
  <2>2. /\ c1 = Nothing /\ c2 = Nothing
        /\ \/ told[k] = Nothing /\ o1 = Opened /\ o2 = Nothing
           \/ told[k] = Nothing /\ o1 = Nothing /\ o2 = Opened
           \/ told[k] = Opened /\ o1 = Nothing /\ o2 = Nothing
    BY <2>1
  <2>3. Story(k) = Opened
    <3> HIDE DEF o1, c1, o2, c2
    <3> QED BY <1>2, <2>2, StoriesJoin
  <2> QED BY <1>4, <2>3, Zenon
<1>5. CASE monitor /\ k \notin table /\ ~Unmentioned(k)
  <2>1. \/ told[k] = OpenClose /\ ~In(k, opens) /\ ~In(k, closes) /\ ~In(k, openList)
           /\ ~In(k, closeList)
        \/ told[k] = Opened /\ ~In(k, opens) /\ ~In(k, openList)
           /\ (In(k, closes) <=> ~In(k, closeList))
        \/ told[k] = Nothing /\ In(k, opens) /\ ~In(k, openList)
           /\ (In(k, closes) <=> ~In(k, closeList))
        \/ told[k] = Nothing /\ ~In(k, opens) /\ In(k, openList)
           /\ ~In(k, closes) /\ In(k, closeList)
    BY <1>1, <1>5, Stories, Zenon DEF StoryInv, OpenKnown, Unmentioned
  <2>2. \/ told[k] = OpenClose /\ o1 = Nothing /\ c1 = Nothing /\ o2 = Nothing /\ c2 = Nothing
        \/ told[k] = Opened /\ o1 = Nothing /\ o2 = Nothing
           /\ ((c1 = Closed /\ c2 = Nothing) \/ (c1 = Nothing /\ c2 = Closed))
        \/ told[k] = Nothing /\ o1 = Opened /\ o2 = Nothing
           /\ ((c1 = Closed /\ c2 = Nothing) \/ (c1 = Nothing /\ c2 = Closed))
        \/ told[k] = Nothing /\ o1 = Nothing /\ o2 = Opened /\ c1 = Nothing /\ c2 = Closed
    BY <2>1
  <2>3. Story(k) = OpenClose
    <3> HIDE DEF o1, c1, o2, c2
    <3> QED BY <1>2, <2>2, StoriesJoin
  <2>4. status[k] # "none"
    BY <1>1, <1>5, Zenon DEF StoryInv
  <2> QED BY <1>5, <2>3, <2>4, Zenon
<1>6. ~monitor => Unmentioned(k)
  BY <1>1, Zenon DEF StoryInv
<1> QED BY <1>3, <1>4, <1>5, <1>6, Zenon

\* The monitor is told once of every connection that is open when it is set or
\* later, and once of its close, after that: however connections, closes, the
\* setting of the monitor and its pumps interleave.
THEOREM MonitorCorrect == Spec => []MonitorAgrees
<1>1. Init => TypeOK /\ MonitorInv
  BY InitInv, InitMonitor
<1>2. TypeOK /\ MonitorInv /\ [Next]_vars => (TypeOK /\ MonitorInv)'
  BY StepType, StepMonitor
<1> QED BY <1>1, <1>2, MonitorGivesStory, PTL DEF Spec

=============================================================================
