------------------------- MODULE EndPointOrderProofs -------------------------
(***************************************************************************)
(* Proofs about EndPoint, continued: the order in which packets reach the  *)
(* wire, the authentication that comes with a connection, and the          *)
(* refinement of RpcCall.                                                  *)
(***************************************************************************)
EXTENDS EndPointProofs, QueueOrder, FiniteSetTheorems

-----------------------------------------------------------------------------
(* Calls, and the authentication, which has no place in their order.       *)

LEMMA AuthIsNoCall == Auth \in Packets /\ Auth \notin Calls
BY CallsAssumption DEF Auth, Packets

LEMMA CallsArePackets == ASSUME NEW s \in Seq(Calls) PROVE s \in Seq(Packets)
BY DEF Packets

-----------------------------------------------------------------------------
(* The flow of packets: those written, those put aside, the rest of the    *)
(* batch and the task list.                                                *)

Flow(s, r, b, t) == s \o r \o b \o t

LEMMA FlowType ==
  ASSUME NEW s \in Seq(Packets), NEW r \in Seq(Packets),
         NEW b \in Seq(Packets), NEW t \in Seq(Packets)
  PROVE  Flow(s, r, b, t) \in Seq(Packets)
BY DEF Flow

\* Three parts of the flow may be grouped either way.
Grouped(x, y, z) == (x \o y) \o z = x \o (y \o z)

LEMMA PacketsGroup == \A x, y, z \in Seq(Packets) : Grouped(x, y, z)
<1> SUFFICES ASSUME NEW x \in Seq(Packets), NEW y \in Seq(Packets), NEW z \in Seq(Packets)
             PROVE  (x \o y) \o z = x \o (y \o z)
  BY DEF Grouped
<1> HIDE DEF Packets
<1> QED BY ConcatAssociative

\* What is queued enters the flow behind everything else.
LEMMA FlowQueued ==
  ASSUME NEW q \in Seq(Calls), NEW s \in Seq(Packets), NEW r \in Seq(Packets),
         NEW b \in Seq(Packets), NEW t \in Seq(Packets),
         Follows(q, Flow(s, r, b, t), Calls)
  PROVE  /\ Follows(q, Flow(s, r, b, Append(t, Auth)), Calls)
         /\ \A c \in Calls : Follows(Append(q, c), Flow(s, r, b, Append(t, c)), Calls)
<1>1. ASSUME NEW p \in Packets
      PROVE  Flow(s, r, b, Append(t, p)) = Append(Flow(s, r, b, t), p)
  <2>1. s \o r \o b \in Seq(Packets) /\ <<p>> \in Seq(Packets)
    OBVIOUS
  <2>2. Grouped(s \o r \o b, t, <<p>>)
    BY <2>1, PacketsGroup, Zenon
  <2>3. Append(t, p) = t \o <<p>>
    BY AppendIsConcat
  <2>4. Append(Flow(s, r, b, t), p) = Flow(s, r, b, t) \o <<p>>
    BY FlowType, AppendIsConcat
  <2> QED BY <2>2, <2>3, <2>4 DEF Flow
<1>2. Flow(s, r, b, t) \in Seq(Packets)
  BY FlowType
<1>3. Follows(q, Append(Flow(s, r, b, t), Auth), Calls)
  <2> DEFINE f == Flow(s, r, b, t)
  <2>1. Append(f, Auth) = f \o <<Auth>> /\ f \o <<>> = f
    BY <1>2, AuthIsNoCall, AppendIsConcat, ConcatEmptySeq
  <2>2. f \o (<<Auth>> \o <<>>) = f \o <<Auth>> /\ <<>> \in Seq(Packets)
    OBVIOUS
  <2> HIDE DEF f
  <2>3. Follows(q, f \o (<<Auth>> \o <<>>), Calls)
    BY <1>2, <2>1, <2>2, AuthIsNoCall, FollowsInsert DEF f
  <2> QED BY <2>1, <2>2, <2>3 DEF f
<1>4. \A c \in Calls : Follows(Append(q, c), Append(Flow(s, r, b, t), c), Calls)
  BY <1>2, FollowsPush DEF Packets
<1>5. \A c \in Calls : c \in Packets
  BY DEF Packets
<1> QED BY <1>1, <1>3, <1>4, <1>5, AuthIsNoCall, Zenon

\* The callback takes the whole list.
LEMMA FlowTake ==
  ASSUME NEW s \in Seq(Packets), NEW t \in Seq(Packets)
  PROVE  Flow(s, <<>>, t, <<>>) = Flow(s, <<>>, <<>>, t)
BY ConcatEmptySeq DEF Flow

\* The callback puts back in front what it could not write.
LEMMA FlowPutBack ==
  ASSUME NEW s \in Seq(Packets), NEW r \in Seq(Packets), NEW t \in Seq(Packets)
  PROVE  Flow(s, <<>>, <<>>, r \o t) = Flow(s, r, <<>>, t)
BY ConcatEmptySeq, ConcatAssociative DEF Flow

\* A packet put aside keeps its place.
LEMMA FlowRetry ==
  ASSUME NEW s \in Seq(Packets), NEW r \in Seq(Packets),
         NEW b \in Seq(Packets), NEW t \in Seq(Packets), b # <<>>
  PROVE  Flow(s, Append(r, Head(b)), Tail(b), t) = Flow(s, r, b, t)
<1> DEFINE h == <<Head(b)>>
<1>1. h \in Seq(Packets) /\ Tail(b) \in Seq(Packets) /\ b = h \o Tail(b)
  BY HeadThenTail
<1>2. Append(r, Head(b)) = r \o h
  BY HeadThenTail, AppendIsConcat
<1> HIDE DEF h
<1>3. Grouped(s, r, h)
  BY <1>1, PacketsGroup, Zenon
<1>4. s \o r \in Seq(Packets)
  OBVIOUS
<1>5. Grouped(s \o r, h, Tail(b))
  BY <1>1, <1>4, PacketsGroup, Zenon
<1> QED BY <1>1, <1>2, <1>3, <1>5 DEF Flow, Grouped

\* So does a packet written while none has been put aside.
LEMMA FlowWrite ==
  ASSUME NEW s \in Seq(Packets), NEW b \in Seq(Packets), NEW t \in Seq(Packets),
         b # <<>>
  PROVE  Flow(Append(s, Head(b)), <<>>, Tail(b), t) = Flow(s, <<>>, b, t)
<1> DEFINE h == <<Head(b)>>
           e == Tail(b)
<1>1. h \in Seq(Packets) /\ e \in Seq(Packets) /\ b = h \o e
  BY HeadThenTail
<1>2. Append(s, Head(b)) = s \o h
  BY HeadThenTail, AppendIsConcat
<1> HIDE DEF h, e
<1>3. (s \o h) \o <<>> = s \o h /\ s \o <<>> = s
  BY <1>1, ConcatEmptySeq
<1>4. Grouped(s, h, e)
  BY <1>1, PacketsGroup, Zenon
<1>5. Flow(s \o h, <<>>, e, t) = Flow(s, <<>>, h \o e, t)
  BY <1>3, <1>4 DEF Flow, Grouped
<1> QED BY <1>1, <1>2, <1>5 DEF e

\* A packet dropped, or the authentication once written, leaves the flow.
LEMMA FlowDrop ==
  ASSUME NEW q \in Seq(Calls), NEW s \in Seq(Packets), NEW r \in Seq(Packets),
         NEW b \in Seq(Packets), NEW t \in Seq(Packets), b # <<>>,
         Follows(q, Flow(s, r, b, t), Calls)
  PROVE  Follows(q, Flow(s, r, Tail(b), t), Calls)
<1> DEFINE p == Head(b)
           h == <<p>>
           e == Tail(b)
           g == s \o r
<1>1. p \in Packets /\ h \in Seq(Packets) /\ e \in Seq(Packets) /\ b = h \o e
  BY HeadThenTail
<1>2. g \in Seq(Packets) /\ e \o t \in Seq(Packets)
  BY <1>1
<1> HIDE DEF h, e, g, p
<1>3. Grouped(g, e, t)
  BY <1>1, <1>2, PacketsGroup, Zenon
<1>4. Grouped(g, b, t)
  BY <1>2, PacketsGroup, Zenon
<1>5. Grouped(h, e, t)
  BY <1>1, PacketsGroup, Zenon
<1>6. Flow(s, r, b, t) = g \o (h \o (e \o t))
  BY <1>1, <1>4, <1>5 DEF Flow, g, Grouped
<1>7. Follows(q, g \o (e \o t), Calls)
  <2> DEFINE u == e \o t
  <2>1. u \in Seq(Packets) /\ Follows(q, g \o (<<p>> \o u), Calls)
    BY <1>2, <1>6 DEF h
  <2> HIDE DEF u
  <2>2. Follows(q, g \o u, Calls)
    BY <1>1, <1>2, <2>1, FollowsDrop
  <2> QED BY <2>2 DEF u
<1> QED BY <1>3, <1>7 DEF Flow, Grouped, g, e

-----------------------------------------------------------------------------
(* Every packet written once and in order.                                 *)

\* What the flow follows, with what makes a step keep it: a call is queued
\* once; a callback that is not running holds nothing; packets are put aside
\* only while nothing can be written.
FlowInv ==
  /\ Distinct(pushed)
  /\ Follows(pushed, Flow(sent, retries, batch, taskList), Calls)
  /\ \A k \in DOMAIN pushed : pc[pushed[k]] \in {"pushed", "done"}
  /\ ioPc # "async" => batch = <<>> /\ retries = <<>>
  /\ retries # <<>> => status # "CONNECTED"

QueueTypes ==
  /\ sent \in Seq(Packets) /\ retries \in Seq(Packets)
  /\ batch \in Seq(Packets) /\ taskList \in Seq(Packets)
  /\ pushed \in Seq(Calls)

LEMMA QueuesTyped == TypeOK => QueueTypes
BY CallsArePackets DEF TypeOK, QueueTypes

LEMMA FlowUnseen ==
  ASSUME FlowInv, TypeOK, UNCHANGED <<pushed, sent, retries, batch, taskList>>,
         \A c \in Calls : pc[c] \in {"pushed", "done"} => pc'[c] \in {"pushed", "done"},
         ioPc' # "async" => ioPc # "async",
         ioPc = "async" /\ status' = "CONNECTED" => status = "CONNECTED"
  PROVE  FlowInv'
BY DEF FlowInv, TypeOK

LEMMA InitFlow == Init => FlowInv
<1> SUFFICES ASSUME Init PROVE FlowInv
  OBVIOUS
<1>1. /\ pushed = <<>> /\ sent = <<>> /\ retries = <<>> /\ batch = <<>>
      /\ taskList = <<>>
  BY DEF Init
<1>2. Flow(sent, retries, batch, taskList) = <<>>
  BY <1>1 DEF Flow
<1>3. DOMAIN <<>> = {}
  OBVIOUS
<1> QED BY <1>1, <1>2, <1>3 DEF FlowInv, Follows, Distinct

LEMMA FlowAuth ==
  ASSUME TypeOK, FlowInv, taskList' = Append(taskList, Auth), 
         UNCHANGED <<pushed, sent, retries, batch, ioPc, pc>>,
         ioPc = "async" => UNCHANGED status
  PROVE  FlowInv'
<1>1. Follows(pushed, Flow(sent, retries, batch, Append(taskList, Auth)), Calls)
  BY QueuesTyped, FlowQueued DEF QueueTypes, FlowInv
<1> QED BY <1>1 DEF FlowInv

LEMMA FlowPush ==
  ASSUME TypeOK, FlowInv, NEW c \in Calls, Push(c)
  PROVE  FlowInv'
<1>0. UNCHANGED <<sent, retries, batch, ioPc, status>>
  BY DEF Push, connVars
<1>1. /\ taskList' = Append(taskList, c) /\ pushed' = Append(pushed, c)
      /\ pc[c] = "registered" /\ pc' = [pc EXCEPT ![c] = "pushed"]
  BY DEF Push
<1>3. QueueTypes
  BY QueuesTyped
<1>4. Follows(pushed', Flow(sent', retries', batch', taskList'), Calls)
  BY <1>0, <1>1, <1>3, FlowQueued DEF QueueTypes, FlowInv
<1>5. \A k \in DOMAIN pushed : pushed[k] # c /\ pushed[k] \in Calls
  <2>1. ASSUME NEW k \in DOMAIN pushed PROVE pushed[k] \in Calls
    BY <1>3 DEF QueueTypes
  <2>2. \A k \in DOMAIN pushed : pc[pushed[k]] # "registered"
    BY DEF FlowInv
  <2> QED BY <1>1, <2>1, <2>2
<1>6. /\ DOMAIN pushed' = DOMAIN pushed \cup {Len(pushed) + 1}
      /\ pushed'[Len(pushed) + 1] = c
      /\ \A k \in DOMAIN pushed : pushed'[k] = pushed[k]
  BY <1>1, QueuesTyped DEF QueueTypes
<1>7. Distinct(pushed')
  BY <1>5, <1>6 DEF Distinct, FlowInv
<1>8. \A k \in DOMAIN pushed' : pc'[pushed'[k]] \in {"pushed", "done"}
  BY <1>1, <1>5, <1>6 DEF FlowInv, TypeOK
<1> QED BY <1>0, <1>4, <1>7, <1>8 DEF FlowInv

LEMMA FlowTask ==
  ASSUME TypeOK, ConnInv, FlowInv, AsyncTask
  PROVE  FlowInv'
<1>0. /\ batch # <<>> /\ batch' = Tail(batch) /\ ioPc' = "async"
      /\ UNCHANGED <<taskList, pushed, pc>>
  BY DEF AsyncTask, callVars
<1>1. Head(batch) \in Packets
  BY <1>0, HeadThenTail, QueuesTyped DEF QueueTypes
<1> SUFFICES /\ Follows(pushed, Flow(sent', retries', Tail(batch), taskList), Calls)
             /\ retries' # <<>> => status' # "CONNECTED"
  BY <1>0 DEF FlowInv
<1>2. CASE DropTask
  BY <1>0, <1>2, FlowDrop, QueuesTyped DEF DropTask, connVars, FlowInv, QueueTypes
<1>3. CASE RetryTask(Head(batch))
  BY <1>0, <1>3, FlowRetry, QueuesTyped
     DEF RetryTask, CanWrite, connVars, FlowInv, QueueTypes
<1>4. CASE WriteTask(Head(batch))
  <2>1. retries = <<>> /\ retries' = <<>>
    BY <1>4 DEF WriteTask, CanWrite, FlowInv
  <2>2. CASE Head(batch) = Auth
    <3>1. sent' = sent
      BY <1>4, <2>2 DEF WriteTask
    <3> QED BY <1>0, <2>1, <3>1, FlowDrop, QueuesTyped DEF FlowInv, QueueTypes
  <2>3. CASE Head(batch) # Auth
    <3>1. sent' = Append(sent, Head(batch))
      BY <1>4, <2>3 DEF WriteTask
    <3> QED BY <1>0, <2>1, <3>1, FlowWrite, QueuesTyped DEF FlowInv, QueueTypes
  <2> QED BY <2>2, <2>3
<1>5. CASE RefuseTask(Head(batch))
  <2>1. status' = "CLOSED" /\ sent' = sent /\ retries' = Append(retries, Head(batch))
    BY <1>5 DEF RefuseTask, Close, CanWrite
  <2> QED BY <1>0, <2>1, FlowRetry, QueuesTyped DEF FlowInv, QueueTypes
<1> QED BY <1>2, <1>3, <1>4, <1>5 DEF AsyncTask, DoTask

LEMMA StepFlow == TypeOK /\ ConnInv /\ FlowInv /\ [Next]_vars => FlowInv'
<1> SUFFICES ASSUME TypeOK, ConnInv, FlowInv, [Next]_vars PROVE FlowInv'
  OBVIOUS
<1> USE DEF connVars, failVars, authVars, callVars, loopVars, histVars
<1>1. CASE Caller
  <2>1. CASE ResetFail \/ StoreAppId \/ LoadStatus \/ SignalAuth
    BY <2>1, FlowUnseen DEF ResetFail, StoreAppId, LoadStatus, SignalAuth
  <2>2. CASE PushAuth BY <2>2, FlowAuth DEF PushAuth
  <2>3. ASSUME NEW c \in Calls, Register(c) PROVE FlowInv'
    BY <2>3, FlowUnseen DEF Register, TypeOK
  <2>4. ASSUME NEW c \in Calls, Push(c) PROVE FlowInv'
    BY <2>4, FlowPush
  <2>5. ASSUME NEW c \in Calls, Signal(c) PROVE FlowInv'
    BY <2>5, FlowUnseen DEF Signal, TypeOK
  <2> QED BY <1>1, <2>1, <2>2, <2>3, <2>4, <2>5 DEF Caller
<1>2. CASE Clock
  BY <1>2, FlowUnseen DEF Clock, RetryDue, Expire
<1>3. CASE Link
  <2>1. CASE ConnectSucceeds
    <3>1. CASE AuthOnConnect
      BY <2>1, <3>1, FlowAuth DEF ConnectSucceeds
    <3>2. CASE ~AuthOnConnect
      BY <2>1, <3>2, FlowUnseen DEF ConnectSucceeds
    <3> QED BY <3>1, <3>2
  <2>2. CASE \/ ConnectFails \/ PeerCloses \/ WriteSucceeds \/ WriteFails
             \/ WriteCancelled \/ OnAfterClose
    BY <2>2, FlowUnseen DEF ConnectFails, PeerCloses, WriteSucceeds, WriteFails,
                            WriteCancelled, OnAfterClose
  <2> QED BY <1>3, <2>1, <2>2 DEF Link
<1>4. CASE Packet
  BY <1>4, FlowUnseen DEF Packet, OnOtherPacket, OnRejectedPacket, OnCallResult
<1>5. CASE Work
  <2>1. CASE Boot \/ OnTimer \/ OnFinalFailed \/ \E c \in Calls : Settle(c)
    BY <2>1, FlowUnseen DEF Boot, OnTimer, OnFinalFailed, Settle
  <2>2. CASE AsyncBegin
    <3>1. /\ batch = <<>> /\ retries = <<>> /\ retries' = <<>>
          /\ batch' = taskList /\ taskList' = <<>> /\ ioPc' = "async"
          /\ UNCHANGED <<sent, pushed, pc>>
      BY <2>2 DEF AsyncBegin, ClonedList, FlowInv
    <3> QED BY <3>1, FlowTake, QueuesTyped DEF FlowInv, QueueTypes
  <2>3. CASE AsyncTask BY <2>3, FlowTask
  <2>4. CASE AsyncEnd
    <3>1. /\ batch = <<>> /\ batch' = <<>> /\ retries' = <<>>
          /\ taskList' = retries \o taskList
          /\ UNCHANGED <<sent, pushed, pc>>
      BY <2>4 DEF AsyncEnd, PutBack
    <3> QED BY <3>1, FlowPutBack, QueuesTyped DEF FlowInv, QueueTypes
  <2> QED BY <1>5, <2>1, <2>2, <2>3, <2>4 DEF Work
<1>6. CASE UNCHANGED vars
  BY <1>6, FlowUnseen DEF vars
<1> QED BY <1>1, <1>2, <1>3, <1>4, <1>5, <1>6 DEF Next

LEMMA FlowCorrect == Spec => []FlowInv
BY InitFlow, StepFlow, ConnCorrect, PTL DEF Spec

\* Calls reach the wire at most once and in the order they were queued, through
\* every retry.
THEOREM FifoCorrect == Spec => []FifoOnce
<1>1. TypeOK /\ FlowInv => FifoOnce
  <2> SUFFICES ASSUME TypeOK, FlowInv PROVE FifoOnce
    OBVIOUS
  <2> DEFINE flow   == sent \o retries \o batch \o taskList
             Pos(c) == CHOOSE k \in DOMAIN pushed : pushed[k] = c
  <2>1. \A k \in DOMAIN pushed : Pos(pushed[k]) = k
    BY DEF FlowInv, Distinct
  <2>2. Follows(pushed, flow, Calls)
    BY DEF FlowInv, Flow
  <2> HIDE DEF flow, Pos
  <2>3. ASSUME NEW i \in DOMAIN flow, NEW j \in DOMAIN flow, i < j,
               flow[i] # Auth, flow[j] # Auth
        PROVE  Pos(flow[i]) < Pos(flow[j])
    <3>1. flow \in Seq(Packets)
      BY QueuesTyped, FlowType DEF QueueTypes, Flow, flow
    <3>2. \A x \in Packets : x # Auth => x \in Calls
      BY DEF Packets
    <3>3. flow[i] \in Calls /\ flow[j] \in Calls
      BY <2>3, <3>1, <3>2
    <3> QED BY <2>1, <2>2, <2>3, <3>3 DEF Follows
  <2>4. \A i, j \in DOMAIN flow :
          i < j /\ Auth \notin {flow[i], flow[j]} => Pos(flow[i]) < Pos(flow[j])
    BY <2>3
  <2> QED BY <2>4 DEF FifoOnce, flow, Pos
<1> QED BY <1>1, FlowCorrect, TypeCorrect, PTL

-----------------------------------------------------------------------------
(* The authentication.                                                     *)

AuthWaits == In(Auth, retries) \/ In(Auth, batch) \/ In(Auth, taskList)

\* AuthNotLost, with the three lists apart, and the identity set once SetAuth
\* has seen it.
AuthInv ==
  /\ authSeen \in {"no", "pushed", "done"} => appId
  /\ status = "CONNECTED" /\ appId /\ authSeen \notin {"unread", "early"} =>
       Auth \in onWire \/ authSeen = "yes" \/ AuthWaits

LEMMA AuthUnseen ==
  ASSUME AuthInv, UNCHANGED <<appId, authSeen, retries, batch>>,
         In(Auth, taskList) => In(Auth, taskList'),
         status' = "CONNECTED" =>
           status = "CONNECTED" /\ (Auth \in onWire => Auth \in onWire')
  PROVE  AuthInv'
<1>1. AuthWaits => AuthWaits'
  BY DEF AuthWaits
<1> QED BY <1>1 DEF AuthInv

LEMMA AuthTask ==
  ASSUME TypeOK, ConnInv, AuthInv, AsyncTask
  PROVE  AuthInv'
<1>0. /\ batch # <<>> /\ batch' = Tail(batch)
      /\ UNCHANGED <<authSeen, appId, taskList>>
  BY DEF AsyncTask, authVars
<1>1. Head(batch) \in Packets /\ (In(Auth, batch) <=> Auth = Head(batch) \/ In(Auth, batch'))
  <2>1. batch \in Seq(Packets) BY DEF TypeOK
  <2> QED BY <1>0, <2>1, InHeadTail, HeadThenTail
<1>2. CASE DropTask
  BY <1>0, <1>2 DEF DropTask, connVars, AuthInv, ConnInv, FinalFailedIsClosed
<1>3. CASE RetryTask(Head(batch))
  BY <1>0, <1>3 DEF RetryTask, CanWrite, connVars, AuthInv
<1>4. CASE WriteTask(Head(batch))
  <2>1. onWire' = onWire \cup {Head(batch)} /\ UNCHANGED <<status, retries>>
    BY <1>4 DEF WriteTask
  <2>2. AuthWaits => Auth = Head(batch) \/ AuthWaits'
    BY <1>0, <1>1, <2>1 DEF AuthWaits
  <2> QED BY <1>0, <2>1, <2>2 DEF AuthInv
<1>5. CASE RefuseTask(Head(batch))
  <2>1. status' = "CLOSED"
    BY <1>5 DEF RefuseTask, Close, CanWrite
  <2> QED BY <1>0, <2>1 DEF AuthInv
<1> QED BY <1>2, <1>3, <1>4, <1>5 DEF AsyncTask, DoTask

LEMMA StepAuth == TypeOK /\ ConnInv /\ FlowInv /\ AuthInv /\ [Next]_vars => AuthInv'
<1> SUFFICES ASSUME TypeOK, ConnInv, FlowInv, AuthInv, [Next]_vars PROVE AuthInv'
  OBVIOUS
<1> USE DEF connVars, failVars, authVars, callVars, loopVars, histVars
<1>0. taskList \in Seq(Packets) /\ retries \in Seq(Packets) /\ Calls \subseteq Packets
  BY DEF TypeOK, Packets
<1>1. CASE Caller
  <2>1. CASE ResetFail \/ SignalAuth \/ \E c \in Calls : Register(c) \/ Signal(c)
    <3>1. CASE SignalAuth
      BY <3>1 DEF SignalAuth, AuthInv, AuthWaits
    <3>2. CASE ResetFail \/ \E c \in Calls : Register(c) \/ Signal(c)
      BY <3>2, AuthUnseen DEF ResetFail, Register, Signal
    <3> QED BY <2>1, <3>1, <3>2
  <2>2. CASE StoreAppId
    BY <2>2 DEF StoreAppId, AuthInv, TypeOK
  <2>3. CASE LoadStatus
    BY <2>3 DEF LoadStatus, AuthInv
  <2>4. CASE PushAuth
    <3>1. In(Auth, taskList')
      BY <1>0, <2>4, InAppend, AuthIsNoCall DEF PushAuth
    <3> QED BY <2>4, <3>1 DEF PushAuth, AuthInv, AuthWaits
  <2>5. ASSUME NEW c \in Calls, Push(c) PROVE AuthInv'
    <3>1. In(Auth, taskList) => In(Auth, taskList')
      BY <1>0, <2>5, InAppend DEF Push
    <3> QED BY <2>5, <3>1, AuthUnseen DEF Push
  <2> QED BY <1>1, <2>1, <2>2, <2>3, <2>4, <2>5 DEF Caller
<1>2. CASE Clock
  BY <1>2, AuthUnseen DEF Clock, RetryDue, Expire
<1>3. CASE Link
  <2>1. CASE ConnectSucceeds
    <3>1. CASE AuthOnConnect
      <4>1. In(Auth, taskList')
        <5>1. taskList' = Append(taskList, Auth)
          BY <2>1, <3>1, Zenon DEF ConnectSucceeds
        <5>2. In(Auth, Append(taskList, Auth))
          BY <1>0, InAppend, AuthIsNoCall
        <5> QED BY <5>1, <5>2, Zenon
      <4> QED BY <2>1, <4>1 DEF ConnectSucceeds, AuthInv, AuthWaits
    <3>2. CASE ~AuthOnConnect
      BY <2>1, <3>2 DEF ConnectSucceeds, AuthOnConnect, AuthInv
    <3> QED BY <3>1, <3>2
  <2>2. CASE WriteSucceeds \/ OnAfterClose
    BY <2>2, AuthUnseen DEF WriteSucceeds, OnAfterClose
  <2>3. CASE ConnectFails \/ PeerCloses \/ WriteFails \/ WriteCancelled
    BY <2>3, AuthUnseen DEF ConnectFails, PeerCloses, WriteFails, WriteCancelled, Close
  <2> QED BY <1>3, <2>1, <2>2, <2>3 DEF Link
<1>4. CASE Packet
  <2>1. CASE OnOtherPacket BY <2>1, AuthUnseen DEF OnOtherPacket
  <2>2. CASE OnRejectedPacket BY <2>2, AuthUnseen DEF OnRejectedPacket, Close
  <2>3. ASSUME NEW c \in Calls, OnCallResult(c) PROVE AuthInv'
    BY <2>3, AuthIsNoCall, AuthUnseen DEF OnCallResult
  <2> QED BY <1>4, <2>1, <2>2, <2>3 DEF Packet
<1>5. CASE Work
  <2>1. CASE Boot \/ OnTimer
    BY <2>1, AuthUnseen DEF Boot, OnTimer, ReConnectIfNecessary, CreateChannel, Connect
  <2>2. CASE OnFinalFailed \/ \E c \in Calls : Settle(c)
    BY <2>2, AuthUnseen DEF OnFinalFailed, Settle
  <2>3. CASE AsyncBegin
    <3>1. UNCHANGED <<authSeen, appId, status, onWire, retries>> /\ batch' = taskList
          /\ batch = <<>>
      BY <2>3 DEF AsyncBegin, FlowInv
    <3>2. AuthWaits => AuthWaits'
      BY <3>1 DEF AuthWaits, In
    <3> QED BY <3>1, <3>2 DEF AuthInv
  <2>4. CASE AsyncTask BY <2>4, AuthTask
  <2>5. CASE AsyncEnd
    <3>1. UNCHANGED <<authSeen, appId, status, onWire, batch>>
          /\ taskList' = retries \o taskList
      BY <2>5 DEF AsyncEnd, PutBack
    <3>2. AuthWaits => AuthWaits'
      BY <1>0, <3>1, InConcat DEF AuthWaits
    <3> QED BY <3>1, <3>2 DEF AuthInv
  <2> QED BY <1>5, <2>1, <2>2, <2>3, <2>4, <2>5 DEF Work
<1>6. CASE UNCHANGED vars
  BY <1>6, AuthUnseen DEF vars
<1> QED BY <1>1, <1>2, <1>3, <1>4, <1>5, <1>6 DEF Next

\* Whoever sets the identity, and whenever, a connection made with it set gets
\* the authentication, unless SetAuth read the status too early.
THEOREM AuthCorrect == Spec => []AuthNotLost
<1>1. Init => AuthInv
  BY DEF Init, AuthInv
<1>2. TypeOK /\ AuthInv => AuthNotLost
  <2> SUFFICES ASSUME TypeOK, AuthInv PROVE AuthNotLost
    OBVIOUS
  <2>1. In(Auth, retries \o batch \o taskList) <=> AuthWaits
    <3>1. /\ retries \in Seq(Packets) /\ batch \in Seq(Packets)
          /\ taskList \in Seq(Packets) /\ retries \o batch \in Seq(Packets)
      BY DEF TypeOK
    <3> QED BY <3>1, InConcat DEF AuthWaits
  <2> QED BY <2>1, Zenon DEF AuthInv, AuthNotLost, Waits, Queue, In
<1>3. Spec => []AuthInv
  BY <1>1, StepAuth, FlowCorrect, ConnCorrect, PTL DEF Spec
<1> QED BY <1>2, <1>3, TypeCorrect, PTL

-----------------------------------------------------------------------------
(* No packet is lost.                                                      *)

InQueue(p) == In(p, retries) \/ In(p, batch) \/ In(p, taskList)

LEMMA WaitsIs == ASSUME TypeOK, NEW p PROVE Waits(p) <=> InQueue(p)
<1>1. /\ retries \in Seq(Packets) /\ batch \in Seq(Packets)
      /\ taskList \in Seq(Packets) /\ retries \o batch \in Seq(Packets)
  BY DEF TypeOK
<1>2. In(p, Queue) <=> InQueue(p)
  BY <1>1, InConcat DEF Queue, InQueue
<1> QED BY <1>2, Zenon DEF Waits, In

LEMMA StepKeeps ==
  ASSUME TypeOK, FlowInv, [Next]_vars, NEW p \in Packets, InQueue(p)
  PROVE  InQueue(p)' \/ p \in onWire' \/ FinalFailed
<1> USE DEF connVars, failVars, authVars, callVars, loopVars, histVars
<1>0. /\ taskList \in Seq(Packets) /\ retries \in Seq(Packets)
      /\ batch \in Seq(Packets) /\ Calls \subseteq Packets
  BY DEF TypeOK, Packets
<1>1. ASSUME UNCHANGED <<retries, batch>>, In(p, taskList) => In(p, taskList')
      PROVE  InQueue(p)'
  BY <1>1 DEF InQueue
<1>2. CASE Caller
  <2>1. CASE \/ ResetFail \/ StoreAppId \/ LoadStatus \/ SignalAuth
             \/ \E c \in Calls : Register(c) \/ Signal(c)
    BY <1>1, <2>1 DEF ResetFail, StoreAppId, LoadStatus, SignalAuth, Register, Signal
  <2>2. CASE PushAuth
    BY <1>0, <1>1, <2>2, InAppend, AuthIsNoCall DEF PushAuth
  <2>3. ASSUME NEW c \in Calls, Push(c) PROVE InQueue(p)'
    BY <1>0, <1>1, <2>3, InAppend DEF Push
  <2> QED BY <1>2, <2>1, <2>2, <2>3 DEF Caller
<1>3. CASE Clock
  BY <1>1, <1>3 DEF Clock, RetryDue, Expire
<1>4. CASE Link
  <2>1. CASE ConnectSucceeds
    <3>1. CASE AuthOnConnect
      <4>1. taskList' = Append(taskList, Auth)
        BY <2>1, <3>1, Zenon DEF ConnectSucceeds
      <4>2. In(p, taskList) => In(p, Append(taskList, Auth))
        BY <1>0, InAppend, AuthIsNoCall
      <4>3. In(p, taskList) => In(p, taskList')
        BY <4>1, <4>2, Zenon
      <4> QED BY <1>1, <2>1, <4>3 DEF ConnectSucceeds
    <3>2. CASE ~AuthOnConnect
      BY <1>1, <2>1, <3>2 DEF ConnectSucceeds
    <3> QED BY <3>1, <3>2
  <2>2. CASE \/ ConnectFails \/ PeerCloses \/ WriteSucceeds \/ WriteFails
             \/ WriteCancelled \/ OnAfterClose
    BY <1>1, <2>2 DEF ConnectFails, PeerCloses, WriteSucceeds, WriteFails,
                      WriteCancelled, OnAfterClose
  <2> QED BY <1>4, <2>1, <2>2 DEF Link
<1>5. CASE Packet
  BY <1>1, <1>5 DEF Packet, OnOtherPacket, OnRejectedPacket, OnCallResult
<1>6. CASE Work
  <2>1. CASE Boot \/ OnTimer \/ OnFinalFailed \/ \E c \in Calls : Settle(c)
    BY <1>1, <2>1 DEF Boot, OnTimer, OnFinalFailed, Settle
  <2>2. CASE AsyncBegin
    <3>1. batch = <<>> /\ batch' = taskList /\ retries' = retries
      BY <2>2 DEF AsyncBegin, FlowInv
    <3> QED BY <3>1 DEF InQueue, In
  <2>3. CASE AsyncTask
    <3>1. /\ batch # <<>> /\ batch' = Tail(batch) /\ taskList' = taskList
          /\ DoTask(Head(batch)) /\ Head(batch) \in Packets
      BY <1>0, <2>3 DEF AsyncTask
    <3>2. In(p, batch) <=> p = Head(batch) \/ In(p, batch')
      BY <1>0, <3>1, InHeadTail
    <3>3. CASE DropTask BY <3>3 DEF DropTask
    <3>4. CASE RetryTask(Head(batch)) \/ RefuseTask(Head(batch))
      <4>1. retries' = Append(retries, Head(batch))
        BY <3>4 DEF RetryTask, RefuseTask
      <4>2. In(p, retries') <=> In(p, retries) \/ p = Head(batch)
        BY <1>0, <3>1, <4>1, InAppend
      <4> QED BY <3>1, <3>2, <4>2 DEF InQueue
    <3>5. CASE WriteTask(Head(batch))
      <4>1. Head(batch) \in onWire' /\ retries' = retries
        BY <3>5 DEF WriteTask
      <4> QED BY <3>1, <3>2, <4>1 DEF InQueue
    <3> QED BY <3>1, <3>3, <3>4, <3>5 DEF DoTask
  <2>4. CASE AsyncEnd
    <3>1. batch' = batch /\ taskList' = retries \o taskList
      BY <2>4 DEF AsyncEnd, PutBack
    <3>2. In(p, taskList') <=> In(p, retries) \/ In(p, taskList)
      BY <1>0, <3>1, InConcat
    <3> QED BY <3>1, <3>2 DEF InQueue
  <2> QED BY <1>6, <2>1, <2>2, <2>3, <2>4 DEF Work
<1>7. CASE UNCHANGED vars
  BY <1>1, <1>7 DEF vars
<1> QED BY <1>2, <1>3, <1>4, <1>5, <1>6, <1>7 DEF Next

\* Whatever the threads push while the loop clones, writes, puts aside and
\* puts back, a queued packet is lost only by an endpoint out of attempts.
THEOREM QueueKeptCorrect == Spec => QueueKept
<1> DEFINE Kept == \A p \in Packets :
                     Waits(p) => Waits(p)' \/ p \in onWire' \/ FinalFailed
<1>1. ASSUME TypeOK, TypeOK', FlowInv, [Next]_vars PROVE Kept
  <2> SUFFICES ASSUME NEW p \in Packets, Waits(p)
               PROVE  Waits(p)' \/ p \in onWire' \/ FinalFailed
    OBVIOUS
  <2>1. Waits(p) <=> InQueue(p) BY <1>1, WaitsIs
  <2>2. Waits(p)' <=> InQueue(p)'
    BY <1>1, WaitsIs, PTL
  <2>3. InQueue(p)' \/ p \in onWire' \/ FinalFailed
    BY <1>1, <2>1, StepKeeps
  <2> QED BY <2>2, <2>3
<1>2. TypeOK /\ TypeOK' /\ FlowInv /\ [Next]_vars => [Kept]_vars
  BY <1>1
<1> QED BY <1>2, TypeCorrect, FlowCorrect, PTL DEF Spec, QueueKept

-----------------------------------------------------------------------------
(* The refinement of RpcCall.                                              *)

\* An answer on the wire, and one about to be handed over, belongs to a call
\* that was written.
WireInv ==
  /\ \A c \in Calls : c \in onWire => In(c, sent)
  /\ verdict \in {"ok", "fault"} => \A c \in held : In(c, sent)

LEMMA WireUnseen ==
  ASSUME WireInv, UNCHANGED <<sent, held, verdict>>, onWire' \subseteq onWire
  PROVE  WireInv'
BY DEF WireInv

LEMMA StepWire == TypeOK /\ WireInv /\ [Next]_vars => WireInv'
<1> SUFFICES ASSUME TypeOK, WireInv, [Next]_vars PROVE WireInv'
  OBVIOUS
<1> USE DEF connVars, failVars, authVars, callVars, loopVars, histVars
<1>1. CASE Caller
  BY <1>1, WireUnseen DEF Caller, ResetFail, StoreAppId, LoadStatus, PushAuth,
                          SignalAuth, Register, Push, Signal
<1>2. CASE Clock
  BY <1>2, WireUnseen DEF Clock, RetryDue, Expire
<1>3. CASE Link
  BY <1>3, WireUnseen DEF Link, ConnectSucceeds, ConnectFails, PeerCloses,
                          WriteSucceeds, WriteFails, WriteCancelled,
                          OnAfterClose, Close
<1>4. CASE Packet
  <2>1. CASE OnOtherPacket \/ OnRejectedPacket
    BY <2>1, WireUnseen DEF OnOtherPacket, OnRejectedPacket, Close
  <2>2. ASSUME NEW c \in Calls, OnCallResult(c) PROVE WireInv'
    <3>1. In(c, sent) /\ sent' = sent /\ onWire' \subseteq onWire
      BY <2>2 DEF OnCallResult, WireInv
    <3>2. held' = {c} \/ UNCHANGED <<held, verdict>>
      BY <2>2 DEF OnCallResult
    <3> QED BY <3>1, <3>2 DEF WireInv
  <2> QED BY <1>4, <2>1, <2>2 DEF Packet
<1>5. CASE Work
  <2>1. CASE Boot \/ AsyncBegin \/ AsyncEnd \/ OnTimer
    BY <2>1, WireUnseen DEF Boot, AsyncBegin, AsyncEnd, OnTimer
  <2>2. CASE OnFinalFailed
    BY <2>2 DEF OnFinalFailed, WireInv
  <2>3. ASSUME NEW c \in Calls, Settle(c) PROVE WireInv'
    BY <2>3 DEF Settle, WireInv
  <2>4. CASE AsyncTask
    <3>0. UNCHANGED <<held, verdict>>
      BY <2>4 DEF AsyncTask
    <3>1. CASE DropTask \/ RetryTask(Head(batch)) \/ RefuseTask(Head(batch))
      BY <3>0, <3>1, WireUnseen DEF DropTask, RetryTask, RefuseTask, Close
    <3>2. CASE WriteTask(Head(batch))
      <4>1. Head(batch) \in Packets
        BY <2>4, HeadThenTail DEF AsyncTask, TypeOK
      <4>2. onWire' = onWire \cup {Head(batch)}
        BY <3>2 DEF WriteTask
      <4>3. \A c \in Calls : In(c, sent) \/ c = Head(batch) => In(c, sent')
        <5>1. CASE Head(batch) = Auth
          BY <3>2, <5>1, AuthIsNoCall DEF WriteTask
        <5>2. CASE Head(batch) # Auth
          <6>1. sent' = Append(sent, Head(batch)) /\ sent \in Seq(Packets)
            BY <3>2, <5>2, QueuesTyped DEF WriteTask, QueueTypes
          <6> QED BY <4>1, <6>1, InAppend
        <5> QED BY <5>1, <5>2
      <4> QED BY <3>0, <4>2, <4>3 DEF WireInv, TypeOK
    <3> QED BY <2>4, <3>1, <3>2 DEF AsyncTask, DoTask
  <2> QED BY <1>5, <2>1, <2>2, <2>3, <2>4 DEF Work
<1>6. CASE UNCHANGED vars
  BY <1>6, WireUnseen DEF vars
<1> QED BY <1>1, <1>2, <1>3, <1>4, <1>5, <1>6 DEF Next

\* The flow repeats no call, and so what was written does not.
LEMMA SentDistinct == TypeOK /\ FlowInv => Distinct(sent)
<1> SUFFICES ASSUME TypeOK, FlowInv,
                    NEW i \in DOMAIN sent, NEW j \in DOMAIN sent, i < j, sent[i] = sent[j]
             PROVE  FALSE
  <2>1. DOMAIN sent \subseteq Nat
    BY DEF TypeOK
  <2> QED BY <2>1 DEF Distinct
<1> DEFINE f == Flow(sent, retries, batch, taskList)
<1>1. /\ i \in DOMAIN f /\ f[i] = sent[i]
      /\ j \in DOMAIN f /\ f[j] = sent[j]
  <2> DEFINE u == (retries \o batch) \o taskList
  <2>1. f = sent \o u /\ u \in Seq(Packets)
    <3>1. /\ sent \in Seq(Packets) /\ retries \in Seq(Packets)
          /\ batch \in Seq(Packets) /\ taskList \in Seq(Packets)
          /\ retries \o batch \in Seq(Packets)
      BY QueuesTyped DEF QueueTypes
    <3>2. Grouped(sent, retries, batch) /\ Grouped(sent, retries \o batch, taskList)
      BY <3>1, PacketsGroup, Zenon
    <3> QED BY <3>1, <3>2 DEF Flow, Grouped
  <2> HIDE DEF f, u
  <2>2. sent \in Seq(Packets)
    BY QueuesTyped DEF QueueTypes
  <2> QED BY <2>1, <2>2
<1>2. sent[i] \in Calls
  BY DEF TypeOK
<1> HIDE DEF f
<1>3. Follows(pushed, f, Calls)
  BY DEF FlowInv, f
<1> QED BY <1>1, <1>2, <1>3, FollowsDistinct DEF FlowInv, TypeOK

\* What the refinement maps to the variables of RpcCall.
Phases(p, o) ==
  [c \in Methods |-> IF p[c] = "idle" THEN "idle"
                     ELSE IF o[c] = "unknown" THEN "open" ELSE o[c]]
Deliveries(s) ==
  [c \in Methods |-> Cardinality({i \in DOMAIN s : s[i] = c})]

LEMMA DeliveriesAre ==
  ASSUME NEW s \in Seq(Calls), Distinct(s)
  PROVE  Deliveries(s) = [c \in Methods |-> IF In(c, s) THEN 1 ELSE 0]
<1> SUFFICES ASSUME NEW c \in Methods
             PROVE  Cardinality({i \in DOMAIN s : s[i] = c}) = IF In(c, s) THEN 1 ELSE 0
  BY DEF Deliveries
<1>1. CASE In(c, s)
  <2>1. PICK k \in DOMAIN s : s[k] = c
    BY <1>1 DEF In
  <2>2. {i \in DOMAIN s : s[i] = c} = {k}
    BY <2>1 DEF Distinct
  <2> QED BY <1>1, <2>2, FS_Singleton
<1>2. CASE ~In(c, s)
  <2>1. {i \in DOMAIN s : s[i] = c} = {}
    BY <1>2 DEF In
  <2> QED BY <1>2, <2>1, FS_EmptySet
<1> QED BY <1>1, <1>2

\* What waits in the batch was queued by a call that was made.
LEMMA BatchMade ==
  TypeOK /\ FlowInv => \A c \in Calls : In(c, batch) => pc[c] # "idle"
<1> SUFFICES ASSUME TypeOK, FlowInv, NEW c \in Calls, In(c, batch)
             PROVE  pc[c] # "idle"
  OBVIOUS
<1> DEFINE f == Flow(sent, retries, batch, taskList)
<1>1. In(c, f)
  <2>1. /\ sent \in Seq(Packets) /\ retries \in Seq(Packets)
        /\ batch \in Seq(Packets) /\ taskList \in Seq(Packets)
        /\ sent \o retries \in Seq(Packets)
        /\ (sent \o retries) \o batch \in Seq(Packets)
    BY QueuesTyped DEF QueueTypes
  <2>2. In(c, (sent \o retries) \o batch)
    BY <2>1, InConcat
  <2> QED BY <2>1, <2>2, InConcat DEF Flow
<1> HIDE DEF f
<1>2. Follows(pushed, f, Calls)
  BY DEF FlowInv, f
<1>3. In(c, pushed)
  BY <1>1, <1>2, AuthIsNoCall DEF Follows, In
<1> QED BY <1>3 DEF FlowInv, In

RefinesInv ==
  /\ TypeOK /\ CallInv /\ WireInv /\ Distinct(sent)
  /\ \A c \in Calls : In(c, batch) => pc[c] # "idle"

LEMMA InitRefines == Init => RPC!Init
<1> SUFFICES ASSUME Init PROVE RPC!Init
  OBVIOUS
<1>1. Phases(pc, outcome) = [c \in Methods |-> "idle"]
  <2>1. \A c \in Methods : pc[c] = "idle"
    BY DEF Init, Methods
  <2> QED BY <2>1 DEF Phases
<1>2. Deliveries(sent) = [c \in Methods |-> 0]
  <2>1. sent = <<>> BY DEF Init
  <2>2. \A c \in Methods : {i \in DOMAIN sent : sent[i] = c} = {}
    BY <2>1
  <2> QED BY <2>2, FS_EmptySet DEF Deliveries
<1> QED BY <1>1, <1>2 DEF RPC!Init, Phases, Deliveries

LEMMA RefinesStutter ==
  ASSUME Phases(pc', outcome') = Phases(pc, outcome), Deliveries(sent') = Deliveries(sent)
  PROVE  UNCHANGED RPC!vars
BY DEF RPC!vars, Phases, Deliveries

\* A step that completes no result and makes no call.
LEMMA RefinesUnseen ==
  ASSUME TypeOK, UNCHANGED <<outcome, sent>>,
         \A c \in Calls : pc'[c] = "idle" <=> pc[c] = "idle"
  PROVE  UNCHANGED RPC!vars
<1>1. Phases(pc', outcome') = Phases(pc, outcome)
  BY DEF Phases, Methods
<1> QED BY <1>1, RefinesStutter

LEMMA RefinesRegister ==
  ASSUME RefinesInv, NEW c \in Calls, Register(c)
  PROVE  RPC!Next \/ UNCHANGED RPC!vars
<1>1. /\ pc[c] = "idle" /\ pc' = [pc EXCEPT ![c] = "registered"]
      /\ UNCHANGED <<outcome, sent>>
  BY DEF Register, histVars
<1>2. pc \in [Calls -> {"idle", "registered", "pushed", "done"}]
  BY DEF RefinesInv, TypeOK
<1>3. CASE c \in Methods
  <2>1. outcome[c] = "unknown"
    BY <1>1, <1>3 DEF RefinesInv, CallInv
  <2>2. /\ Phases(pc, outcome)[c] = "idle"
        /\ Phases(pc', outcome') = [Phases(pc, outcome) EXCEPT ![c] = "open"]
    BY <1>1, <1>2, <1>3, <2>1 DEF Phases, Methods
  <2>3. RPC!Issue(c)
    BY <1>1, <2>2 DEF RPC!Issue, Phases
  <2> QED BY <1>3, <2>3 DEF RPC!Next
<1>4. CASE c \notin Methods
  <2>1. Phases(pc', outcome') = Phases(pc, outcome)
    BY <1>1, <1>2, <1>4 DEF Phases, Methods
  <2> QED BY <1>1, <2>1, RefinesStutter
<1> QED BY <1>3, <1>4

LEMMA RefinesTask ==
  ASSUME RefinesInv, RefinesInv', AsyncTask
  PROVE  RPC!Next \/ UNCHANGED RPC!vars
<1> DEFINE p == Head(batch)
<1>0. UNCHANGED <<pc, outcome>> /\ batch # <<>> /\ batch \in Seq(Packets)
  BY DEF AsyncTask, callVars, RefinesInv, TypeOK
<1>1. CASE sent' = sent
  BY <1>0, <1>1, RefinesUnseen DEF RefinesInv
<1>2. CASE sent' # sent
  <2>1. sent' = Append(sent, p) /\ p # Auth
    BY <1>2 DEF AsyncTask, DoTask, DropTask, RetryTask, WriteTask, RefuseTask
  <2>2. p \in Packets /\ In(p, batch)
    BY <1>0, HeadThenTail, InHeadTail
  <2>3. p \in Calls /\ pc[p] # "idle"
    BY <2>1, <2>2 DEF Packets, RefinesInv
  <2> HIDE DEF p
  <2>4. sent \in Seq(Calls) /\ sent' \in Seq(Calls) /\ sent \in Seq(Packets)
    BY CallsArePackets DEF RefinesInv, TypeOK
  <2>5. \A c \in Methods : In(c, sent') <=> In(c, sent) \/ c = p
    BY <2>1, <2>2, <2>4, InAppend
  <2>6. ~In(p, sent)
    <3>1. SUFFICES ASSUME NEW i \in DOMAIN sent, sent[i] = p PROVE FALSE
      BY DEF In
    <3>2. /\ i \in DOMAIN sent' /\ sent'[i] = p /\ i # Len(sent) + 1
          /\ Len(sent) + 1 \in DOMAIN sent' /\ sent'[Len(sent) + 1] = p
      BY <2>1, <2>4, <3>1
    <3> QED BY <3>2 DEF RefinesInv, Distinct
  <2>7. /\ Deliveries(sent) = [c \in Methods |-> IF In(c, sent) THEN 1 ELSE 0]
        /\ Deliveries(sent') = [c \in Methods |-> IF In(c, sent') THEN 1 ELSE 0]
    BY <2>4, DeliveriesAre DEF RefinesInv
  <2>8. CASE p \in Methods
    <3>1. Deliveries(sent)[p] = 0
      BY <2>6, <2>7, <2>8
    <3>2. Deliveries(sent') = [Deliveries(sent) EXCEPT ![p] = 1]
      BY <2>5, <2>7, <2>8
    <3>3. Phases(pc, outcome)[p] # "idle" /\ Phases(pc', outcome') = Phases(pc, outcome)
      <4>1. outcome[p] # "idle"
        BY <2>8 DEF RefinesInv, TypeOK, Outcomes
      <4> QED BY <1>0, <2>3, <2>8, <4>1 DEF Phases
    <3>4. RPC!Deliver(p)
      BY <3>1, <3>2, <3>3 DEF RPC!Deliver, Phases, Deliveries
    <3> QED BY <2>8, <3>4 DEF RPC!Next
  <2>9. CASE p \notin Methods
    <3>1. Deliveries(sent') = Deliveries(sent)
      BY <2>5, <2>7, <2>9
    <3> QED BY <1>0, <3>1, RefinesStutter
  <2> QED BY <2>8, <2>9
<1> QED BY <1>1, <1>2

LEMMA RefinesTimer ==
  ASSUME RefinesInv, OnTimer
  PROVE  RPC!Next
<1> DEFINE S == TimedOut \cap Methods
<1>1. /\ outcome' = [c \in Methods |-> IF c \in TimedOut THEN "timeout" ELSE outcome[c]]
      /\ UNCHANGED <<pc, sent>>
  BY DEF OnTimer, histVars
<1>2. \A c \in S : pc[c] # "idle" /\ outcome[c] = "unknown"
  BY DEF RefinesInv, CallInv, PendingUndecided, TimedOut, Methods
<1>3. \A c \in S : Phases(pc, outcome)[c] = "open"
  BY <1>2 DEF Phases
<1>4. Phases(pc', outcome') =
        [c \in Methods |-> IF c \in S THEN "timeout" ELSE Phases(pc, outcome)[c]]
  BY <1>1, <1>2 DEF Phases
<1>5. S \in SUBSET Methods
  OBVIOUS
<1> HIDE DEF S
<1>6. RPC!GiveUp(S, "timeout")
  BY <1>1, <1>3, <1>4 DEF RPC!GiveUp, Phases, Deliveries
<1> QED BY <1>5, <1>6 DEF RPC!Next, RPC!GivenUp

LEMMA RefinesSettle ==
  ASSUME RefinesInv, NEW c \in Calls, Settle(c)
  PROVE  RPC!Next \/ UNCHANGED RPC!vars
<1>1. /\ c \in held
      /\ outcome' = [d \in Methods |-> IF d = c /\ outcome[d] = "unknown"
                                       THEN verdict ELSE outcome[d]]
      /\ UNCHANGED <<pc, sent>>
  BY DEF Settle, histVars
<1>2. outcome \in [Methods -> Outcomes] /\ verdict \in Outcomes
  BY DEF RefinesInv, TypeOK
<1>3. CASE c \notin Methods
  <2>1. outcome' = outcome
    BY <1>1, <1>2, <1>3
  <2> QED BY <1>1, <2>1, RefinesUnseen DEF RefinesInv
<1>4. CASE c \in Methods
  <2>1. outcome[c] = "unknown" /\ pc[c] # "idle" /\ verdict # "unknown"
    BY <1>1, <1>4 DEF RefinesInv, CallInv, PendingUndecided
  <2>2. Phases(pc, outcome)[c] = "open"
    BY <1>4, <2>1 DEF Phases
  <2>3. \A d \in Methods : Phases(pc', outcome')[d] =
           IF d = c THEN verdict ELSE Phases(pc, outcome)[d]
    BY <1>1, <2>1 DEF Phases
  <2>4. CASE verdict \in {"ok", "fault"}
    <3>1. In(c, sent) /\ sent \in Seq(Calls) /\ Distinct(sent)
      BY <1>1, <2>4 DEF RefinesInv, WireInv, TypeOK
    <3>2. Deliveries(sent)[c] = 1
      BY <1>4, <3>1, DeliveriesAre
    <3>3. Phases(pc', outcome') = [Phases(pc, outcome) EXCEPT ![c] = verdict]
      BY <1>4, <2>3 DEF Phases
    <3>4. PICK r \in {"ok", "fault"} : r = verdict
      BY <2>4
    <3>5. RPC!Answer(c, r)
      BY <1>1, <2>2, <3>2, <3>3, <3>4 DEF RPC!Answer, Phases, Deliveries
    <3> QED BY <1>4, <3>5 DEF RPC!Next, RPC!Answered
  <2>5. CASE verdict \in {"timeout", "final_fail"}
    <3>1. Phases(pc', outcome') =
            [d \in Methods |-> IF d \in {c} THEN verdict ELSE Phases(pc, outcome)[d]]
      BY <2>3 DEF Phases
    <3>2. PICK r \in {"timeout", "final_fail"} : r = verdict
      BY <2>5
    <3>3. RPC!GiveUp({c}, r)
      BY <1>1, <2>2, <3>1, <3>2 DEF RPC!GiveUp, Phases, Deliveries
    <3>4. {c} \in SUBSET Methods
      BY <1>4
    <3> QED BY <3>3, <3>4 DEF RPC!Next, RPC!GivenUp
  <2> QED BY <1>2, <2>1, <2>4, <2>5 DEF Outcomes
<1> QED BY <1>3, <1>4

LEMMA StepRefines == RefinesInv /\ RefinesInv' /\ [Next]_vars => [RPC!Next]_(RPC!vars)
<1> SUFFICES ASSUME RefinesInv, RefinesInv', [Next]_vars
             PROVE  RPC!Next \/ UNCHANGED RPC!vars
  OBVIOUS
<1> USE DEF connVars, failVars, authVars, callVars, loopVars, histVars
<1>0. TypeOK /\ pc \in [Calls -> {"idle", "registered", "pushed", "done"}]
  BY DEF RefinesInv, TypeOK
<1>1. CASE Caller
  <2>1. CASE ResetFail \/ StoreAppId \/ LoadStatus \/ PushAuth \/ SignalAuth
    BY <1>0, <2>1, RefinesUnseen
       DEF ResetFail, StoreAppId, LoadStatus, PushAuth, SignalAuth
  <2>2. ASSUME NEW c \in Calls, Register(c) PROVE RPC!Next \/ UNCHANGED RPC!vars
    BY <2>2, RefinesRegister
  <2>3. ASSUME NEW c \in Calls, Push(c) \/ Signal(c) PROVE UNCHANGED RPC!vars
    <3>1. UNCHANGED <<outcome, sent>>
      BY <2>3 DEF Push, Signal
    <3>2. \A d \in Calls : pc'[d] = "idle" <=> pc[d] = "idle"
      BY <1>0, <2>3 DEF Push, Signal
    <3> QED BY <1>0, <3>1, <3>2, RefinesUnseen
  <2> QED BY <1>1, <2>1, <2>2, <2>3 DEF Caller
<1>2. CASE Clock
  BY <1>0, <1>2, RefinesUnseen DEF Clock, RetryDue, Expire
<1>3. CASE Link
  BY <1>0, <1>3, RefinesUnseen
     DEF Link, ConnectSucceeds, ConnectFails, PeerCloses, WriteSucceeds,
         WriteFails, WriteCancelled, OnAfterClose
<1>4. CASE Packet
  BY <1>0, <1>4, RefinesUnseen
     DEF Packet, OnOtherPacket, OnRejectedPacket, OnCallResult
<1>5. CASE Work
  <2>1. CASE Boot \/ AsyncBegin \/ AsyncEnd \/ OnFinalFailed
    BY <1>0, <2>1, RefinesUnseen DEF Boot, AsyncBegin, AsyncEnd, OnFinalFailed
  <2>2. CASE AsyncTask BY <2>2, RefinesTask
  <2>3. CASE OnTimer BY <2>3, RefinesTimer
  <2>4. ASSUME NEW c \in Calls, Settle(c) PROVE RPC!Next \/ UNCHANGED RPC!vars
    BY <2>4, RefinesSettle
  <2> QED BY <1>5, <2>1, <2>2, <2>3, <2>4 DEF Work
<1>6. CASE UNCHANGED vars
  BY <1>0, <1>6, RefinesUnseen DEF vars
<1> QED BY <1>1, <1>2, <1>3, <1>4, <1>5, <1>6 DEF Next

\* The endpoint keeps the promise of RpcCall: a call is written once at most and
\* completed once, by an answer only if it was written, through retries,
\* reconnections, late answers and time-outs.
THEOREM ImplementsCorrect == Spec => ImplementsRpcCall
<1>1. Init => WireInv
  BY DEF Init, WireInv
<1>2. Spec => []WireInv
  BY <1>1, StepWire, TypeCorrect, PTL DEF Spec
<1>3. TypeOK /\ CallInv /\ WireInv /\ FlowInv => RefinesInv
  BY SentDistinct, BatchMade DEF RefinesInv
<1>4. Spec => []RefinesInv
  BY <1>2, <1>3, TypeCorrect, CallCorrect, FlowCorrect, PTL
<1> QED BY <1>4, InitRefines, StepRefines, PTL DEF Spec, ImplementsRpcCall, RPC!Spec

\* What RpcCall promises follows from its steps.
LEMMA PromiseKept ==
  /\ RPC!Init => RPC!AnsweredDelivered
  /\ RPC!AnsweredDelivered /\ RPC!Next => RPC!AnsweredDelivered'
<1> USE DEF RPC!AnsweredDelivered, RPC!Answered, RPC!GivenUp
<1>1. RPC!Init => RPC!AnsweredDelivered
  BY DEF RPC!Init
<1>2. ASSUME RPC!AnsweredDelivered, RPC!Next PROVE RPC!AnsweredDelivered'
  <2>1. CASE \E c \in Methods : RPC!Issue(c) BY <1>2, <2>1 DEF RPC!Issue
  <2>2. CASE \E c \in Methods : RPC!Deliver(c) BY <1>2, <2>2 DEF RPC!Deliver
  <2>3. CASE \E c \in Methods, r \in RPC!Answered : RPC!Answer(c, r)
    BY <1>2, <2>3 DEF RPC!Answer
  <2>4. CASE \E S \in SUBSET Methods, r \in RPC!GivenUp : RPC!GiveUp(S, r)
    BY <1>2, <2>4 DEF RPC!GiveUp
  <2> QED BY <1>2, <2>1, <2>2, <2>3, <2>4 DEF RPC!Next
<1> QED BY <1>1, <1>2

\* The endpoint completes a call with an answer only once its packet was
\* written, and writes no packet twice: the refinement gives RpcCall's promise
\* to the results of EndPoint::Call.
THEOREM AnsweredCorrect == Spec => []RPC!AnsweredDelivered
<1>1. RPC!AnsweredDelivered /\ UNCHANGED RPC!vars => RPC!AnsweredDelivered'
  BY DEF RPC!AnsweredDelivered, RPC!vars
<1> QED BY <1>1, PromiseKept, ImplementsCorrect, PTL DEF ImplementsRpcCall, RPC!Spec

\* The outcome of a call is never replaced by another.
THEOREM CompletedCorrect == Spec => RPC!CompletedOnce
<1>1. ASSUME RPC!Next PROVE RPC!KeepsOutcome
  <2> USE DEF RPC!KeepsOutcome, RPC!Answered, RPC!GivenUp
  <2>1. CASE \E c \in Methods : RPC!Issue(c) BY <2>1 DEF RPC!Issue
  <2>2. CASE \E c \in Methods : RPC!Deliver(c) BY <2>2 DEF RPC!Deliver
  <2>3. CASE \E c \in Methods, r \in RPC!Answered : RPC!Answer(c, r)
    BY <2>3 DEF RPC!Answer
  <2>4. CASE \E S \in SUBSET Methods, r \in RPC!GivenUp : RPC!GiveUp(S, r)
    BY <2>4 DEF RPC!GiveUp
  <2> QED BY <1>1, <2>1, <2>2, <2>3, <2>4 DEF RPC!Next
<1> QED BY <1>1, ImplementsCorrect, PTL
     DEF ImplementsRpcCall, RPC!Spec, RPC!CompletedOnce

=============================================================================
