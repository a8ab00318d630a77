--------------------------- MODULE EndPointProofs ---------------------------
(***************************************************************************)
(* Proofs about EndPoint, for any set of calls and any bounds.             *)
(***************************************************************************)
EXTENDS EndPoint, TLAPS

USE CallsAssumption, BoundsAssumption, FlagsAssumption

-----------------------------------------------------------------------------
(* The connection.                                                         *)

\* How the status, the libuv handle, the outstanding requests, the scheduled
\* reconnection and the failure count depend on each other.
ConnInv ==
  /\ ReconnectOnClosedHandle
  /\ StaleWriteHarmless
  /\ FinalFailedIsClosed
  /\ connReq => status = "CONNECTING" /\ handle = "open"
  /\ status \in {"CONNECTING", "CONNECTED"} => handle = "open"
  /\ status = "INIT" => handle = "none"
  /\ status = "CLOSED" => handle \in {"closing", "closed"}
  /\ ioPc = "boot" => status = "INIT" /\ tryCount = 0 /\ retry = "unset"

\* The Boolean variables, whose type Zenon proves and the SMT solver does not.
BooleansOK ==
  /\ connReq \in BOOLEAN /\ writing \in BOOLEAN
  /\ appId \in BOOLEAN /\ signalled \in BOOLEAN

LEMMA StepBooleans == BooleansOK /\ [Next]_vars => BooleansOK'
<1> SUFFICES ASSUME BooleansOK, [Next]_vars PROVE BooleansOK'
  OBVIOUS
<1> USE DEF BooleansOK, connVars, failVars, authVars, callVars, loopVars, histVars
<1>1. CASE Caller
  BY <1>1, Zenon DEF Caller, ResetFail, StoreAppId, LoadStatus, PushAuth,
                     SignalAuth, Register, Push, Signal
<1>2. CASE Clock
  BY <1>2, Zenon DEF Clock, RetryDue, Expire
<1>3. CASE Link
  BY <1>3, Zenon DEF Link, ConnectSucceeds, ConnectFails, PeerCloses,
                     WriteSucceeds, WriteFails, WriteCancelled, OnAfterClose
<1>4. CASE Packet
  BY <1>4, Zenon DEF Packet, OnOtherPacket, OnRejectedPacket, OnCallResult
<1>5. CASE Work
  <2>1. CASE Boot \/ OnTimer
    BY <2>1, Zenon DEF Boot, OnTimer, ReConnectIfNecessary, CreateChannel, Connect
  <2>2. CASE AsyncBegin \/ OnFinalFailed \/ \E c \in Calls : Settle(c)
    BY <2>2, Zenon DEF AsyncBegin, OnFinalFailed, Settle
  <2>3. CASE AsyncTask
    BY <2>3, Zenon DEF AsyncTask, DoTask, DropTask, RetryTask, WriteTask, RefuseTask
  <2>4. CASE AsyncEnd
    <3>1. SignalAfter \in BOOLEAN BY Zenon DEF SignalAfter
    <3> QED BY <2>4, <3>1, Zenon DEF AsyncEnd
  <2> QED BY <1>5, <2>1, <2>2, <2>3, <2>4 DEF Work
<1>6. CASE UNCHANGED vars
  BY <1>6, Zenon DEF vars
<1> QED BY <1>1, <1>2, <1>3, <1>4, <1>5, <1>6 DEF Next

LEMMA InitConn == Init => TypeOK /\ ConnInv
<1> SUFFICES ASSUME Init PROVE TypeOK /\ ConnInv
  OBVIOUS
<1>1. BooleansOK BY Zenon DEF Init, BooleansOK
<1>2. TypeOK BY <1>1 DEF Init, TypeOK, BooleansOK, Outcomes
<1>3. ConnInv
  BY DEF Init, ConnInv, ReconnectOnClosedHandle, StaleWriteHarmless,
         FinalFailedIsClosed, FinalFailed
<1> QED BY <1>2, <1>3

LEMMA StepType == TypeOK /\ ConnInv /\ [Next]_vars => TypeOK'
<1> SUFFICES ASSUME TypeOK, ConnInv, [Next]_vars PROVE TypeOK'
  OBVIOUS
<1>0. BooleansOK'
  BY StepBooleans DEF TypeOK, BooleansOK
<1> USE <1>0 DEF TypeOK, BooleansOK, connVars, failVars, authVars, callVars, loopVars, histVars
<1>1. CASE Caller
  <2>1. CASE ResetFail BY <2>1 DEF ResetFail
  <2>2. CASE StoreAppId BY <2>2 DEF StoreAppId
  <2>3. CASE LoadStatus BY <2>3 DEF LoadStatus
  <2>4. CASE PushAuth BY <2>4 DEF PushAuth, Packets, Auth
  <2>5. CASE SignalAuth BY <2>5 DEF SignalAuth
  <2>6. ASSUME NEW c \in Calls, Register(c) PROVE TypeOK'
    BY <2>6 DEF Register
  <2>7. ASSUME NEW c \in Calls, Push(c) PROVE TypeOK'
    BY <2>7 DEF Push, Packets
  <2>8. ASSUME NEW c \in Calls, Signal(c) PROVE TypeOK'
    BY <2>8 DEF Signal
  <2> QED BY <1>1, <2>1, <2>2, <2>3, <2>4, <2>5, <2>6, <2>7, <2>8 DEF Caller
<1>2. CASE Clock
  <2>1. CASE RetryDue BY <2>1 DEF RetryDue
  <2>2. ASSUME NEW c \in Calls, Expire(c) PROVE TypeOK'
    BY <2>2 DEF Expire
  <2> QED BY <1>2, <2>1, <2>2 DEF Clock
<1>3. CASE Link
  <2>1. CASE ConnectSucceeds
    <3>1. taskList' \in Seq(Packets)
      <4>0. Auth \in Packets BY DEF Packets
      <4>1. CASE appId
        <5>1. taskList' = Append(taskList, Auth)
          BY <2>1, <4>1, Zenon DEF ConnectSucceeds, AuthOnConnect
        <5> QED BY <4>0, <5>1
      <4>2. CASE ~appId
        BY <2>1, <4>2 DEF ConnectSucceeds, AuthOnConnect
      <4> QED BY <4>1, <4>2
    <3>2. status' = "CONNECTED"
      BY <2>1 DEF ConnectSucceeds
    <3> QED BY <2>1, <3>1, <3>2 DEF ConnectSucceeds
  <2>2. CASE ConnectFails BY <2>2 DEF ConnectFails, Fault, Close
  <2>3. CASE PeerCloses BY <2>3 DEF PeerCloses, Fault, Close
  <2>4. CASE WriteSucceeds BY <2>4 DEF WriteSucceeds
  <2>5. CASE WriteFails BY <2>5 DEF WriteFails, Fault, Close
  <2>6. CASE WriteCancelled BY <2>6 DEF WriteCancelled, Close
  <2>7. CASE OnAfterClose
    <3>1. ~FinalFailed
      BY <2>7 DEF OnAfterClose, ConnInv, FinalFailedIsClosed
    <3> QED BY <2>7, <3>1 DEF OnAfterClose, FinalFailed
  <2> QED BY <1>3, <2>1, <2>2, <2>3, <2>4, <2>5, <2>6, <2>7 DEF Link
<1>4. CASE Packet
  <2>1. CASE OnOtherPacket BY <2>1 DEF OnOtherPacket
  <2>2. CASE OnRejectedPacket BY <2>2 DEF OnRejectedPacket, Fault, Close
  <2>3. ASSUME NEW c \in Calls, OnCallResult(c) PROVE TypeOK'
    <3>1. pending' \subseteq Calls /\ held' \subseteq Calls
      BY <2>3 DEF OnCallResult, Erased
    <3>2. verdict' \in Outcomes
      BY <2>3 DEF OnCallResult, Answers, Outcomes
    <3>3. ioPc' \in {"loop", "settle"}
      BY <2>3 DEF OnCallResult
    <3>4. onWire' \subseteq Packets /\ tryCount' \in 0..MaxTry
      BY <2>3 DEF OnCallResult
    <3> QED BY <2>3, <3>1, <3>2, <3>3, <3>4 DEF OnCallResult
  <2> QED BY <1>4, <2>1, <2>2, <2>3 DEF Packet
<1>5. CASE Work
  <2>1. CASE Boot BY <2>1 DEF Boot, CreateChannel, Connect
  <2>2. CASE AsyncBegin BY <2>2 DEF AsyncBegin, ClonedList
  <2>3. CASE AsyncTask
    <3>1. Head(batch) \in Packets /\ Tail(batch) \in Seq(Packets)
      BY <2>3 DEF AsyncTask
    <3>2. CASE DropTask BY <2>3, <3>1, <3>2 DEF AsyncTask, DropTask
    <3>3. CASE RetryTask(Head(batch))
      BY <2>3, <3>1, <3>3 DEF AsyncTask, RetryTask
    <3>4. CASE WriteTask(Head(batch))
      <4>1. onWire' \subseteq Packets BY <3>1, <3>4 DEF WriteTask
      <4>2. sent' \in Seq(Calls)
        <5>1. CASE Head(batch) = Auth BY <3>4, <5>1 DEF WriteTask
        <5>2. CASE Head(batch) \in Calls
          BY <3>4, <5>2 DEF WriteTask, Auth
        <5> QED BY <3>1, <5>1, <5>2 DEF Packets
      <4> QED BY <2>3, <3>1, <3>4, <4>1, <4>2 DEF AsyncTask, WriteTask
    <3>5. CASE RefuseTask(Head(batch))
      BY <2>3, <3>1, <3>5 DEF AsyncTask, RefuseTask, Fault, Close
    <3> QED BY <2>3, <3>2, <3>3, <3>4, <3>5 DEF AsyncTask, DoTask
  <2>4. CASE AsyncEnd BY <2>4 DEF AsyncEnd, PutBack, SignalAfter
  <2>5. CASE OnTimer
    BY <2>5 DEF OnTimer, Unexpired, TimedOut, ReConnectIfNecessary,
                CreateChannel, Connect, Outcomes, Methods
  <2>6. CASE OnFinalFailed BY <2>6 DEF OnFinalFailed, Outcomes
  <2>7. ASSUME NEW c \in Calls, Settle(c) PROVE TypeOK'
    BY <2>7 DEF Settle
  <2> QED BY <1>5, <2>1, <2>2, <2>3, <2>4, <2>5, <2>6, <2>7 DEF Work
<1>6. CASE UNCHANGED vars
  BY <1>6 DEF vars
<1> QED BY <1>1, <1>2, <1>3, <1>4, <1>5, <1>6 DEF Next

LEMMA StepConn == TypeOK /\ ConnInv /\ [Next]_vars => ConnInv'
<1> SUFFICES ASSUME TypeOK, ConnInv, [Next]_vars PROVE ConnInv'
  OBVIOUS
<1> USE DEF ConnInv, ReconnectOnClosedHandle, StaleWriteHarmless,
            FinalFailedIsClosed, FinalFailed, TypeOK,
            connVars, failVars, authVars, callVars, loopVars, histVars
<1>1. CASE Caller
  <2>1. CASE ResetFail BY <2>1 DEF ResetFail
  <2>2. CASE StoreAppId BY <2>2 DEF StoreAppId
  <2>3. CASE LoadStatus BY <2>3 DEF LoadStatus
  <2>4. CASE PushAuth BY <2>4 DEF PushAuth
  <2>5. CASE SignalAuth BY <2>5 DEF SignalAuth
  <2>6. ASSUME NEW c \in Calls, Register(c) PROVE ConnInv'
    BY <2>6 DEF Register
  <2>7. ASSUME NEW c \in Calls, Push(c) PROVE ConnInv'
    BY <2>7 DEF Push
  <2>8. ASSUME NEW c \in Calls, Signal(c) PROVE ConnInv'
    BY <2>8 DEF Signal
  <2> QED BY <1>1, <2>1, <2>2, <2>3, <2>4, <2>5, <2>6, <2>7, <2>8 DEF Caller
<1>2. CASE Clock
  <2>1. CASE RetryDue BY <2>1 DEF RetryDue
  <2>2. ASSUME NEW c \in Calls, Expire(c) PROVE ConnInv'
    BY <2>2 DEF Expire
  <2> QED BY <1>2, <2>1, <2>2 DEF Clock
<1>3. CASE Link
  <2>1. CASE ConnectSucceeds BY <2>1 DEF ConnectSucceeds
  <2>2. CASE ConnectFails BY <2>2 DEF ConnectFails, Fault, Close
  <2>3. CASE PeerCloses BY <2>3 DEF PeerCloses, Fault, Close
  <2>4. CASE WriteSucceeds BY <2>4 DEF WriteSucceeds
  <2>5. CASE WriteFails BY <2>5 DEF WriteFails, Fault, Close
  <2>6. CASE WriteCancelled BY <2>6 DEF WriteCancelled, Close
  <2>7. CASE OnAfterClose BY <2>7 DEF OnAfterClose
  <2> QED BY <1>3, <2>1, <2>2, <2>3, <2>4, <2>5, <2>6, <2>7 DEF Link
<1>4. CASE Packet
  <2>1. CASE OnOtherPacket BY <2>1 DEF OnOtherPacket
  <2>2. CASE OnRejectedPacket BY <2>2 DEF OnRejectedPacket, Fault, Close
  <2>3. ASSUME NEW c \in Calls, OnCallResult(c) PROVE ConnInv'
    BY <2>3 DEF OnCallResult
  <2> QED BY <1>4, <2>1, <2>2, <2>3 DEF Packet
<1>5. CASE Work
  <2>1. CASE Boot BY <2>1 DEF Boot, CreateChannel, ChannelNeeded, Connect
  <2>2. CASE AsyncBegin BY <2>2 DEF AsyncBegin
  <2>3. CASE AsyncTask
    <3>1. CASE DropTask BY <2>3, <3>1 DEF AsyncTask, DropTask
    <3>2. CASE RetryTask(Head(batch)) BY <2>3, <3>2 DEF AsyncTask, RetryTask
    <3>3. CASE WriteTask(Head(batch))
      BY <2>3, <3>3 DEF AsyncTask, WriteTask, CanWrite
    <3>4. CASE RefuseTask(Head(batch))
      BY <2>3, <3>4 DEF AsyncTask, RefuseTask, Fault, Close, CanWrite
    <3> QED BY <2>3, <3>1, <3>2, <3>3, <3>4 DEF AsyncTask, DoTask
  <2>4. CASE AsyncEnd BY <2>4 DEF AsyncEnd
  <2>5. CASE OnTimer
    BY <2>5 DEF OnTimer, ReConnectIfNecessary, ReconnectIsDue, CreateChannel,
                ChannelNeeded, Connect
  <2>6. CASE OnFinalFailed BY <2>6 DEF OnFinalFailed
  <2>7. ASSUME NEW c \in Calls, Settle(c) PROVE ConnInv'
    BY <2>7 DEF Settle
  <2> QED BY <1>5, <2>1, <2>2, <2>3, <2>4, <2>5, <2>6, <2>7 DEF Work
<1>6. CASE UNCHANGED vars
  BY <1>6 DEF vars
<1> QED BY <1>1, <1>2, <1>3, <1>4, <1>5, <1>6 DEF Next

LEMMA ConnCorrect == Spec => [](TypeOK /\ ConnInv)
<1>1. TypeOK /\ ConnInv /\ [Next]_vars => (TypeOK /\ ConnInv)'
  BY StepType, StepConn
<1> QED BY InitConn, <1>1, PTL DEF Spec

\* The variables of the endpoint keep their types; the failure count never
\* passes MaxTry, although OnAfterClose increments it unconditionally.
THEOREM TypeCorrect == Spec => []TypeOK
BY ConnCorrect, PTL

\* Connect never finds m_tcp in use by libuv.
THEOREM ReconnectCorrect == Spec => []ReconnectOnClosedHandle
<1>1. ConnInv => ReconnectOnClosedHandle BY DEF ConnInv
<1> QED BY ConnCorrect, <1>1, PTL

\* The late error of a write on an old connection closes nothing.
THEOREM StaleWriteCorrect == Spec => []StaleWriteHarmless
<1>1. ConnInv => StaleWriteHarmless BY DEF ConnInv
<1> QED BY ConnCorrect, <1>1, PTL

\* An endpoint out of attempts has no connection DoTask could have written to.
THEOREM FinalFailedCorrect == Spec => []FinalFailedIsClosed
<1>1. ConnInv => FinalFailedIsClosed BY DEF ConnInv
<1> QED BY ConnCorrect, <1>1, PTL

\* m_tcp goes through libuv's life cycle.
THEOREM HandleCorrect == Spec => HandleLifeCycle
<1> DEFINE Legal == \/ handle = "none" /\ handle' = "open"
                    \/ handle = "open" /\ handle' = "closing"
                    \/ handle = "closing" /\ handle' = "closed"
                    \/ handle = "closed" /\ handle' = "open"
<1>1. ASSUME TypeOK, ConnInv, [Next]_vars
      PROVE  handle' = handle \/ Legal
  <2> USE DEF connVars
  <2>0. /\ status \in {"INIT", "CONNECTING", "CONNECTED", "CLOSED"}
        /\ status \in {"CONNECTING", "CONNECTED"} => handle = "open"
        /\ status = "INIT" => handle = "none"
        /\ status = "CLOSED" => handle \in {"closing", "closed"}
        /\ retry = "due" => status = "CLOSED" /\ handle = "closed"
        /\ connReq => status = "CONNECTING"
        /\ ioPc = "boot" => status = "INIT"
    BY <1>1 DEF TypeOK, ConnInv, ReconnectOnClosedHandle
  <2>1. CASE Caller
    BY <2>1 DEF Caller, ResetFail, StoreAppId, LoadStatus, PushAuth,
                SignalAuth, Register, Push, Signal
  <2>2. CASE Clock
    BY <2>2 DEF Clock, RetryDue, Expire
  <2>3. CASE Link
    <3>1. CASE ConnectSucceeds \/ WriteSucceeds \/ OnAfterClose
      BY <3>1 DEF ConnectSucceeds, WriteSucceeds, OnAfterClose
    <3>2. CASE ConnectFails BY <3>2, <2>0 DEF ConnectFails, Close
    <3>3. CASE PeerCloses BY <3>3, <2>0 DEF PeerCloses, Close
    <3>4. CASE WriteFails BY <3>4, <2>0 DEF WriteFails, Close
    <3>5. CASE WriteCancelled
      BY <3>5, <2>0 DEF WriteCancelled, Close
    <3> QED BY <2>3, <3>1, <3>2, <3>3, <3>4, <3>5 DEF Link
  <2>4. CASE Packet
    <3>1. CASE OnRejectedPacket BY <3>1, <2>0 DEF OnRejectedPacket, Close
    <3>2. CASE OnOtherPacket \/ \E c \in Calls : OnCallResult(c)
      BY <3>2 DEF OnOtherPacket, OnCallResult
    <3> QED BY <2>4, <3>1, <3>2 DEF Packet
  <2>5. CASE Work
    <3>1. CASE Boot
      BY <3>1, <2>0 DEF Boot, CreateChannel, ChannelNeeded, Connect
    <3>2. CASE AsyncTask
      <4>1. CASE DropTask \/ RetryTask(Head(batch)) \/ WriteTask(Head(batch))
        BY <4>1 DEF DropTask, RetryTask, WriteTask
      <4>2. CASE RefuseTask(Head(batch))
        BY <4>2, <2>0 DEF RefuseTask, Close, CanWrite
      <4> QED BY <3>2, <4>1, <4>2 DEF AsyncTask, DoTask
    <3>3. CASE OnTimer
      BY <3>3, <2>0 DEF OnTimer, ReConnectIfNecessary, ReconnectIsDue,
                        CreateChannel, ChannelNeeded, Connect
    <3>4. CASE AsyncBegin \/ AsyncEnd \/ OnFinalFailed \/ \E c \in Calls : Settle(c)
      BY <3>4 DEF AsyncBegin, AsyncEnd, OnFinalFailed, Settle
    <3> QED BY <2>5, <3>1, <3>2, <3>3, <3>4 DEF Work
  <2>6. CASE UNCHANGED vars
    BY <2>6 DEF vars
  <2> QED BY <1>1, <2>1, <2>2, <2>3, <2>4, <2>5, <2>6 DEF Next
<1>2. TypeOK /\ ConnInv /\ [Next]_vars => [HandleStep]_handle
  BY <1>1 DEF HandleStep
<1> QED BY ConnCorrect, <1>2, PTL DEF Spec, HandleLifeCycle

\* Unless Connect fails at once, a connection that is down keeps a request or
\* a close under way, or an attempt planned.
LEMMA StepNotStuck ==
  ASSUME ~SyncConnectMayFail, TypeOK, ConnInv, ~Stuck, [Next]_vars
  PROVE  ~Stuck'
<1> USE DEF Stuck, connVars, failVars, authVars, callVars, loopVars, histVars
<1>0. /\ status \in {"INIT", "CONNECTING", "CONNECTED", "CLOSED"}
      /\ connReq => status = "CONNECTING"
      /\ status = "CONNECTED" => handle = "open"
      /\ ioPc = "boot" => status = "INIT"
  BY DEF TypeOK, ConnInv
<1>1. CASE Caller
  BY <1>1 DEF Caller, ResetFail, StoreAppId, LoadStatus, PushAuth, SignalAuth,
              Register, Push, Signal
<1>2. CASE Clock
  BY <1>2 DEF Clock, RetryDue, Expire
<1>3. CASE Link
  BY <1>0, <1>3 DEF Link, ConnectSucceeds, ConnectFails, PeerCloses,
              WriteSucceeds, WriteFails, WriteCancelled, OnAfterClose, Close
<1>4. CASE Packet
  BY <1>0, <1>4 DEF Packet, OnOtherPacket, OnRejectedPacket, OnCallResult, Close
<1>5. CASE Work
  <2>1. CASE Boot
    BY <1>0, <2>1 DEF Boot, CreateChannel, ChannelNeeded, Connect
  <2>2. CASE AsyncTask
    BY <1>0, <2>2 DEF AsyncTask, DoTask, DropTask, RetryTask, WriteTask,
                      RefuseTask, Close, CanWrite
  <2>3. CASE OnTimer
    BY <1>0, <2>3 DEF OnTimer, ReConnectIfNecessary, ReconnectIsDue, ConnInv,
                ReconnectOnClosedHandle, CreateChannel, ChannelNeeded, Connect
  <2>4. CASE AsyncBegin \/ AsyncEnd \/ OnFinalFailed \/ \E c \in Calls : Settle(c)
    BY <2>4 DEF AsyncBegin, AsyncEnd, OnFinalFailed, Settle
  <2> QED BY <1>5, <2>1, <2>2, <2>3, <2>4 DEF Work
<1>6. CASE UNCHANGED vars
  BY <1>6 DEF vars
<1> QED BY <1>1, <1>2, <1>3, <1>4, <1>5, <1>6 DEF Next

\* Where no libuv call inside Connect fails at once, an endpoint whose
\* connection is down is never left with nothing under way: its only ways to
\* stop trying are the failures that Connect reports and nobody looks at.
THEOREM NotStuck == ASSUME ~SyncConnectMayFail PROVE Spec => []~Stuck
<1>1. Init => ~Stuck
  BY DEF Init, Stuck
<1>2. TypeOK /\ ConnInv /\ ~Stuck /\ [Next]_vars => ~Stuck'
  BY StepNotStuck
<1> QED BY <1>1, <1>2, ConnCorrect, PTL DEF Spec

-----------------------------------------------------------------------------
(* The calls.                                                              *)

\* Where the result of a call is, and what it may already have been given.
\* The results held are those of the callback that runs; a result given back
\* to nobody is complete; a call not made has left no trace.
CallInv ==
  /\ PendingUndecided
  /\ NoOrphan
  /\ pending \cap held = {}
  /\ ioPc # "settle" => held = {}
  /\ held \cap Methods # {} => verdict # "unknown"
  /\ \A c \in Calls : pc[c] = "idle" => c \notin pending \cup held
  /\ \A c \in Methods : pc[c] = "idle" => outcome[c] = "unknown"

\* A step that leaves the results alone and does not leave "settle".
LEMMA StepCallUnseen ==
  ASSUME CallInv, UNCHANGED <<pc, pending, outcome, held, verdict>>,
         ioPc = "settle" => ioPc' = "settle"
  PROVE  CallInv'
BY DEF CallInv, PendingUndecided, NoOrphan

LEMMA StepCall == TypeOK /\ CallInv /\ [Next]_vars => CallInv'
<1> SUFFICES ASSUME TypeOK, CallInv, [Next]_vars PROVE CallInv'
  OBVIOUS
<1> USE DEF connVars, failVars, authVars, callVars, loopVars, histVars
<1>1. CASE Caller
  <2>1. CASE ResetFail \/ StoreAppId \/ LoadStatus \/ PushAuth \/ SignalAuth
    BY <2>1, StepCallUnseen
       DEF ResetFail, StoreAppId, LoadStatus, PushAuth, SignalAuth
  <2>2. ASSUME NEW c \in Calls, Register(c) PROVE CallInv'
    BY <2>2 DEF Register, CallInv, PendingUndecided, NoOrphan, TypeOK, Methods
  <2>3. ASSUME NEW c \in Calls, Push(c) PROVE CallInv'
    BY <2>3 DEF Push, CallInv, PendingUndecided, NoOrphan, TypeOK
  <2>4. ASSUME NEW c \in Calls, Signal(c) PROVE CallInv'
    BY <2>4 DEF Signal, CallInv, PendingUndecided, NoOrphan, TypeOK
  <2> QED BY <1>1, <2>1, <2>2, <2>3, <2>4 DEF Caller
<1>2. CASE Clock
  BY <1>2, StepCallUnseen DEF Clock, RetryDue, Expire
<1>3. CASE Link
  BY <1>3, StepCallUnseen
     DEF Link, ConnectSucceeds, ConnectFails, PeerCloses, WriteSucceeds,
         WriteFails, WriteCancelled, OnAfterClose
<1>4. CASE Packet
  <2>1. CASE OnOtherPacket \/ OnRejectedPacket
    BY <2>1, StepCallUnseen DEF OnOtherPacket, OnRejectedPacket
  <2>2. ASSUME NEW c \in Calls, OnCallResult(c) PROVE CallInv'
    <3>1. CASE c \notin pending
      BY <2>2, <3>1, StepCallUnseen DEF OnCallResult
    <3>2. CASE c \in pending
      <4>1. /\ pending' = pending \ {c} /\ held' = {c} /\ held = {}
            /\ verdict' \in Answers(c) /\ ioPc' = "settle"
            /\ UNCHANGED <<pc, outcome>>
        BY <2>2, <3>2 DEF OnCallResult, Erased, CallInv
      <4>2. held' \cap Methods # {} => verdict' # "unknown"
        BY <4>1 DEF Answers, Methods
      <4> QED BY <3>2, <4>1, <4>2 DEF CallInv, PendingUndecided, NoOrphan
    <3> QED BY <3>1, <3>2
  <2> QED BY <1>4, <2>1, <2>2 DEF Packet
<1>5. CASE Work
  <2>1. CASE Boot \/ AsyncBegin \/ AsyncTask \/ AsyncEnd
    BY <2>1, StepCallUnseen DEF Boot, AsyncBegin, AsyncTask, AsyncEnd
  <2>2. CASE OnTimer
    <3>1. /\ pending' = pending \ TimedOut /\ TimedOut \subseteq pending
          /\ outcome' = [c \in Methods |-> IF c \in TimedOut THEN "timeout"
                                                              ELSE outcome[c]]
          /\ UNCHANGED <<pc, held, verdict, ioPc>>
      BY <2>2 DEF OnTimer, Unexpired, TimedOut
    <3> QED BY <3>1 DEF CallInv, PendingUndecided, NoOrphan, Methods
  <2>3. CASE OnFinalFailed
    BY <2>3 DEF OnFinalFailed, CallInv, PendingUndecided, NoOrphan
  <2>4. ASSUME NEW c \in Calls, Settle(c) PROVE CallInv'
    <3>1. /\ ioPc = "settle" /\ c \in held /\ held' = held \ {c}
          /\ ioPc' = IF held = {c} THEN "loop" ELSE "settle"
          /\ outcome' = [d \in Methods |-> IF d = c /\ outcome[d] = "unknown"
                                           THEN verdict ELSE outcome[d]]
          /\ UNCHANGED <<pc, pending, verdict>>
      BY <2>4 DEF Settle
    <3>2. c \in Methods => verdict # "unknown"
      BY <3>1 DEF CallInv
    <3>3. c \notin pending
      BY <3>1 DEF CallInv
    <3>4. \A d \in Methods \ {c} : outcome'[d] = outcome[d]
      BY <3>1
    <3>5. c \in Methods => outcome'[c] # "unknown"
      BY <3>1, <3>2
    <3>6. PendingUndecided' /\ NoOrphan'
      BY <3>1, <3>3, <3>4, <3>5 DEF CallInv, PendingUndecided, NoOrphan
    <3>7. pc[c] # "idle"
      BY <3>1 DEF CallInv
    <3> QED BY <3>1, <3>4, <3>6, <3>7 DEF CallInv
  <2> QED BY <1>5, <2>1, <2>2, <2>3, <2>4 DEF Work
<1>6. CASE UNCHANGED vars
  BY <1>6, StepCallUnseen DEF vars
<1> QED BY <1>1, <1>2, <1>3, <1>4, <1>5, <1>6 DEF Next

LEMMA CallCorrect == Spec => []CallInv
<1>1. ASSUME Init PROVE CallInv
  <2>1. /\ pending = {} /\ held = {}
        /\ \A c \in Calls : pc[c] = "idle"
        /\ \A c \in Methods : outcome[c] = "unknown"
    BY <1>1 DEF Init
  <2> QED BY <2>1 DEF CallInv, PendingUndecided, NoOrphan, Methods
<1> QED BY <1>1, StepCall, TypeCorrect, PTL DEF Spec

\* A result to be completed is not complete yet.
THEOREM UndecidedCorrect == Spec => []PendingUndecided
<1>1. CallInv => PendingUndecided BY DEF CallInv
<1> QED BY CallCorrect, <1>1, PTL

\* No call is forgotten before it has an outcome.
THEOREM NoOrphanCorrect == Spec => []NoOrphan
<1>1. CallInv => NoOrphan BY DEF CallInv
<1> QED BY CallCorrect, <1>1, PTL

-----------------------------------------------------------------------------
(* The task list.                                                          *)

LEMMA StepWakeup == TypeOK /\ NoLostWakeup /\ [Next]_vars => NoLostWakeup'
<1> SUFFICES ASSUME TypeOK, NoLostWakeup, [Next]_vars PROVE NoLostWakeup'
  OBVIOUS
<1> USE DEF NoLostWakeup, connVars, failVars, authVars, callVars, loopVars, histVars
<1>0. ASSUME UNCHANGED <<taskList, signalled, authSeen, pc>>
      PROVE  NoLostWakeup'
  BY <1>0
<1>1. CASE Caller
  <2>1. CASE ResetFail \/ StoreAppId
    BY <1>0, <2>1 DEF ResetFail, StoreAppId
  <2>2. CASE LoadStatus BY <2>2 DEF LoadStatus
  <2>3. CASE PushAuth BY <2>3 DEF PushAuth
  <2>4. CASE SignalAuth BY <2>4, Zenon DEF SignalAuth
  <2>5. ASSUME NEW c \in Calls, Register(c) PROVE NoLostWakeup'
    BY <2>5 DEF Register, TypeOK
  <2>6. ASSUME NEW c \in Calls, Push(c) PROVE NoLostWakeup'
    <3>1. pc'[c] = "pushed" BY <2>6 DEF Push, TypeOK
    <3> QED BY <3>1
  <2>7. ASSUME NEW c \in Calls, Signal(c) PROVE NoLostWakeup'
    BY <2>7, Zenon DEF Signal
  <2> QED BY <1>1, <2>1, <2>2, <2>3, <2>4, <2>5, <2>6, <2>7 DEF Caller
<1>2. CASE Clock
  BY <1>0, <1>2 DEF Clock, RetryDue, Expire
<1>3. CASE Link
  <2>1. CASE ConnectSucceeds
    <3>1. CASE AuthOnConnect
      <4>1. signalled' BY <2>1, <3>1, Zenon DEF ConnectSucceeds
      <4> QED BY <4>1
    <3>2. CASE ~AuthOnConnect
      BY <1>0, <2>1, <3>2 DEF ConnectSucceeds
    <3> QED BY <3>1, <3>2
  <2>2. CASE \/ ConnectFails \/ PeerCloses \/ WriteSucceeds \/ WriteFails
             \/ WriteCancelled \/ OnAfterClose
    BY <1>0, <2>2 DEF ConnectFails, PeerCloses, WriteSucceeds, WriteFails,
                      WriteCancelled, OnAfterClose
  <2> QED BY <1>3, <2>1, <2>2 DEF Link
<1>4. CASE Packet
  BY <1>0, <1>4 DEF Packet, OnOtherPacket, OnRejectedPacket, OnCallResult
<1>5. CASE Work
  <2>1. CASE \/ Boot \/ AsyncTask \/ OnTimer \/ OnFinalFailed
             \/ \E c \in Calls : Settle(c)
    BY <1>0, <2>1 DEF Boot, AsyncTask, OnTimer, OnFinalFailed, Settle
  <2>2. CASE AsyncBegin BY <2>2 DEF AsyncBegin, ClonedList
  <2>3. CASE AsyncEnd
    <3>1. taskList' # <<>> => retries # <<>> \/ taskList # <<>>
      BY <2>3 DEF AsyncEnd, PutBack, TypeOK
    <3>2. retries # <<>> \/ signalled => signalled'
      BY <2>3, Zenon DEF AsyncEnd, SignalAfter
    <3> QED BY <2>3, <3>1, <3>2 DEF AsyncEnd
  <2> QED BY <1>5, <2>1, <2>2, <2>3 DEF Work
<1>6. CASE UNCHANGED vars
  BY <1>0, <1>6 DEF vars
<1> QED BY <1>1, <1>2, <1>3, <1>4, <1>5, <1>6 DEF Next

\* Nothing waits in the task list without a signal.
THEOREM WakeupCorrect == Spec => []NoLostWakeup
<1>1. Init => NoLostWakeup
  BY DEF Init, NoLostWakeup
<1> QED BY <1>1, StepWakeup, TypeCorrect, PTL DEF Spec

=============================================================================
