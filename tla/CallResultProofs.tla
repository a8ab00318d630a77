-------------------------- MODULE CallResultProofs --------------------------
(***************************************************************************)
(* Proofs about CallResult, for any sets of calls and of workers.          *)
(***************************************************************************)
EXTENDS CallResult, QueueOrder

\* The types WaitInv needs.
FieldsOK ==
  /\ errorNo \in [Calls -> Endings \cup {"unknown"}]
  /\ promise \in [Calls -> {"empty", "value", "exception"}]
  /\ pc \in [Calls -> {"idle", "made", "result", "exception", "then", "waiting",
                       "waited"}]
  /\ retrieved \subseteq Calls /\ pending \subseteq Calls
  /\ got \in [Calls -> {"nothing", "value", "exception", "default",
                        "future_error"}]
  /\ io \in {Nobody} \cup
            [step : {"errorNo", "promise", "threadId", "queue"}, call : Calls,
             ending : Endings, inner : BOOLEAN, id : {"none", "app"}]
  /\ threadId \in [Calls -> {"none", "app"}]

\* A result not taken out of the table is untouched, and the fields of one
\* that is being completed are set in order: its error number, its promise,
\* and for a time-out the error number once more, in vain.
FieldsInv ==
  /\ \A c \in Calls :
       /\ pc[c] = "idle" => c \notin pending /\ errorNo[c] = "unknown"
       /\ c \in pending => errorNo[c] = "unknown"
       /\ promise[c] = "value" => errorNo[c] = "ok"
       /\ promise[c] = "exception" => errorNo[c] \in Errors
       /\ pc[c] \in {"idle", "made"} => c \notin retrieved
       /\ c \in retrieved /\ pc[c] = "waited" => errorNo[c] # "unknown"
  /\ io # Nobody => io.call \notin pending /\ pc[io.call] # "idle"
  /\ At("promise") => errorNo[io.call] = io.ending /\ promise[io.call] = "empty"

LEMMA StepFieldsOK == FieldsOK /\ [Next]_vars => FieldsOK'
<1> SUFFICES ASSUME FieldsOK, [Next]_vars PROVE FieldsOK'
  OBVIOUS
<1> USE DEF FieldsOK, resultVars, appVars, Endings, Errors
<1>1. ASSUME NEW c \in Calls, Call(c) PROVE FieldsOK'
  BY <1>1 DEF Call
<1>2. ASSUME NEW c \in Calls, NEW where \in {"this", "any"}, ThenThread(c, where)
      PROVE  FieldsOK'
  BY <1>2 DEF ThenThread
<1>3. ASSUME NEW c \in Calls, ThenResult(c) PROVE FieldsOK'
  BY <1>3 DEF ThenResult
<1>4. ASSUME NEW c \in Calls, ThenException(c) PROVE FieldsOK'
  BY <1>4 DEF ThenException
<1>5. ASSUME NEW c \in Calls, WaitReady(c) PROVE FieldsOK'
  BY <1>5 DEF WaitReady
<1>6. ASSUME NEW c \in Calls, WaitFuture(c) PROVE FieldsOK'
  BY <1>6 DEF WaitFuture
<1>7. ASSUME NEW c \in Calls, WaitReturns(c) PROVE FieldsOK'
  BY <1>7 DEF WaitReturns
<1>8. CASE PumpMessage \/ PumpCallback \/ \E w \in Workers : OnIdle(w)
  BY <1>8 DEF PumpMessage, PumpCallback, OnIdle
<1>9. ASSUME NEW c \in Calls, NEW e \in Endings, Take(c, e) PROVE FieldsOK'
  <2>1. (e = "timeout") \in BOOLEAN OBVIOUS
  <2> QED BY <1>9, <2>1 DEF Take
<1>10. CASE Completion
  <2> USE <1>10 DEF At
  <2>0. io = Nobody => io.step = "idle" BY DEF Nobody
  <2>1. CASE StoreErrorNo BY <2>0, <2>1 DEF StoreErrorNo
  <2>2. CASE SetPromise BY <2>0, <2>2 DEF SetPromise, Promised
  <2>3. CASE ReadThreadId BY <2>0, <2>3 DEF ReadThreadId
  <2>4. CASE OnResult BY <2>0, <2>4 DEF OnResult
  <2> QED BY <2>1, <2>2, <2>3, <2>4 DEF Completion
<1>11. CASE UNCHANGED vars
  BY <1>11 DEF vars
<1> QED BY <1>1, <1>2, <1>3, <1>4, <1>5, <1>6, <1>7, <1>8, <1>9, <1>10, <1>11
       DEF Next, App, IoThread

\* A step that stores no error number leaves what WaitAgrees says alone, if
\* what Wait gives is right.
LEMMA StepWait ==
  ASSUME FieldsOK, FieldsInv, WaitAgrees, [Next]_vars
  PROVE  WaitAgrees'
<1> USE DEF resultVars, appVars
<1>1. ASSUME UNCHANGED <<errorNo, got>> PROVE WaitAgrees'
  BY <1>1 DEF WaitAgrees
<1>2. ASSUME NEW c \in Calls, WaitReady(c) PROVE WaitAgrees'
  <2>1. errorNo[c] \in Endings /\ errorNo' = errorNo
    BY <1>2 DEF WaitReady, Completed, FieldsOK
  <2>2. got' = [got EXCEPT ![c] = IF errorNo[c] = "ok" THEN "value" ELSE "default"]
    BY <1>2 DEF WaitReady, HasValue
  <2> QED BY <2>1, <2>2 DEF WaitAgrees, FieldsOK, Endings
<1>3. ASSUME NEW c \in Calls, WaitFuture(c) PROVE WaitAgrees'
  <2>1. c \notin retrieved
    BY <1>3 DEF WaitFuture, Completed, FieldsInv
  <2> QED BY <1>1, <1>3, <2>1 DEF WaitFuture
<1>4. ASSUME NEW c \in Calls, WaitReturns(c) PROVE WaitAgrees'
  <2>1. /\ promise[c] \in {"value", "exception"}
        /\ errorNo' = errorNo /\ got' = [got EXCEPT ![c] = promise[c]]
    BY <1>4 DEF WaitReturns, FieldsOK
  <2> QED BY <2>1 DEF WaitAgrees, FieldsOK, FieldsInv
<1>5. CASE StoreErrorNo
  <2>1. CASE Refused BY <1>1, <1>5, <2>1 DEF StoreErrorNo
  <2>2. CASE ~Refused
    <3>1. /\ errorNo[io.call] = "unknown"
          /\ \A c \in Calls : c # io.call => errorNo'[c] = errorNo[c]
          /\ UNCHANGED got
      BY <1>5, <2>2 DEF StoreErrorNo, Refused, FieldsOK
    <3> QED BY <3>1 DEF WaitAgrees, Errors
  <2> QED BY <2>1, <2>2
<1>6. CASE \/ PumpMessage \/ PumpCallback \/ \E w \in Workers : OnIdle(w)
           \/ \E c \in Calls : Call(c) \/ ThenResult(c) \/ ThenException(c)
           \/ \E c \in Calls, where \in {"this", "any"} : ThenThread(c, where)
           \/ \E c \in Calls, e \in Endings : Take(c, e)
           \/ SetPromise \/ ReadThreadId \/ OnResult \/ UNCHANGED vars
  BY <1>1, <1>6 DEF PumpMessage, PumpCallback, OnIdle, Call, ThenResult,
       ThenException, ThenThread, Take, SetPromise, ReadThreadId, OnResult, vars
<1> QED BY <1>2, <1>3, <1>4, <1>5, <1>6 DEF Next, App, IoThread, Completion

LEMMA StepFields ==
  ASSUME FieldsOK, FieldsInv, [Next]_vars
  PROVE  FieldsInv'
<1> USE DEF FieldsOK, FieldsInv, resultVars, appVars, At
<1>0. io # Nobody => io.step # "idle" /\ io.call \in Calls
  OBVIOUS
<1>1. ASSUME NEW c \in Calls, Call(c) PROVE FieldsInv'
  BY <1>0, <1>1 DEF Call
<1>2. ASSUME NEW c \in Calls, NEW where \in {"this", "any"}, ThenThread(c, where)
      PROVE  FieldsInv'
  BY <1>0, <1>2 DEF ThenThread
<1>3. ASSUME NEW c \in Calls, ThenResult(c) PROVE FieldsInv'
  BY <1>0, <1>3 DEF ThenResult
<1>4. ASSUME NEW c \in Calls, ThenException(c) PROVE FieldsInv'
  BY <1>0, <1>4 DEF ThenException
<1>5. ASSUME NEW c \in Calls, WaitReady(c) PROVE FieldsInv'
  BY <1>0, <1>5 DEF WaitReady, Completed
<1>6. ASSUME NEW c \in Calls, WaitFuture(c) PROVE FieldsInv'
  BY <1>0, <1>6 DEF WaitFuture, Completed
<1>7. ASSUME NEW c \in Calls, WaitReturns(c) PROVE FieldsInv'
  BY <1>0, <1>7 DEF WaitReturns, Errors
<1>8. CASE PumpMessage \/ PumpCallback \/ \E w \in Workers : OnIdle(w)
  BY <1>8 DEF PumpMessage, PumpCallback, OnIdle
<1>9. ASSUME NEW c \in Calls, NEW e \in Endings, Take(c, e) PROVE FieldsInv'
  BY <1>9 DEF Take
<1>10. CASE StoreErrorNo
  BY <1>0, <1>10 DEF StoreErrorNo, Refused, Nobody, Endings, Errors
<1>11. CASE SetPromise
  BY <1>0, <1>11 DEF SetPromise, Promised, Nobody, Endings
<1>12. CASE ReadThreadId
  BY <1>0, <1>12 DEF ReadThreadId, Nobody
<1>13. CASE OnResult
  <2>1. io' = Nobody /\ io'.step = "idle"
    BY <1>13 DEF OnResult, Nobody
  <2> QED BY <1>13, <2>1 DEF OnResult
<1>14. CASE UNCHANGED vars
  BY <1>14 DEF vars
<1> QED BY <1>1, <1>2, <1>3, <1>4, <1>5, <1>6, <1>7, <1>8, <1>9, <1>10, <1>11,
           <1>12, <1>13, <1>14 DEF Next, App, IoThread, Completion

LEMMA FieldsCorrect == Spec => [](FieldsOK /\ FieldsInv /\ WaitAgrees)
<1>1. Init => FieldsOK /\ FieldsInv /\ WaitAgrees
  <2> SUFFICES ASSUME Init PROVE FieldsOK /\ FieldsInv /\ WaitAgrees
    OBVIOUS
  <2>1. FieldsOK BY DEF Init, FieldsOK
  <2>2. io.step = "idle" BY DEF Init, Nobody
  <2>3. FieldsInv BY <2>2 DEF Init, FieldsInv, At
  <2>4. WaitAgrees BY DEF Init, WaitAgrees
  <2> QED BY <2>1, <2>3, <2>4
<1>2. FieldsOK /\ FieldsInv /\ WaitAgrees /\ [Next]_vars
        => (FieldsOK /\ FieldsInv /\ WaitAgrees)'
  BY StepFieldsOK, StepFields, StepWait
<1> QED BY <1>1, <1>2, PTL DEF Spec

\* Every call made has its promise set, or will have: a result that is
\* complete has an empty promise only while the I/O thread is about to set it.
WillRelease(c) ==
  \/ promise[c] # "empty"
  \/ c \in pending
  \/ io # Nobody /\ io.call = c /\ io.step \in {"errorNo", "promise"}

ReleaseInv ==
  \A c \in Calls :
    /\ pc[c] # "idle" => WillRelease(c)
    /\ errorNo[c] # "unknown" /\ promise[c] = "empty" =>
         io # Nobody /\ io.call = c /\ io.step = "promise"

LEMMA StepRelease ==
  ASSUME FieldsOK, FieldsInv, ReleaseInv, [Next]_vars
  PROVE  ReleaseInv'
<1> USE DEF FieldsOK, resultVars, appVars, At
<1>0. (io # Nobody => io.step # "idle" /\ io.call \in Calls) /\ Nobody.step = "idle"
  BY DEF Nobody
<1>1. ASSUME NEW c \in Calls, pc' = [pc EXCEPT ![c] = "made"], pending' = pending \cup {c},
             UNCHANGED <<errorNo, promise, io>>
      PROVE  ReleaseInv'
  BY <1>1 DEF ReleaseInv, WillRelease
<1>2. ASSUME UNCHANGED <<errorNo, promise, io, pending>>,
             \A c \in Calls : pc'[c] # "idle" => pc[c] # "idle"
      PROVE  ReleaseInv'
  BY <1>2 DEF ReleaseInv, WillRelease
<1>3. ASSUME NEW c \in Calls, NEW e \in Endings, Take(c, e) PROVE ReleaseInv'
  <2>1. /\ io = Nobody /\ pending' = pending \ {c} /\ errorNo[c] = "unknown"
        /\ io' # Nobody /\ io'.call = c /\ io'.step = "errorNo"
        /\ UNCHANGED <<pc, errorNo, promise>>
    BY <1>0, <1>3 DEF Take, FieldsInv, Nobody
  <2> QED BY <2>1 DEF ReleaseInv, WillRelease
<1>4. CASE StoreErrorNo
  <2>1. /\ io # Nobody /\ io.call \in Calls /\ io.step = "errorNo"
        /\ UNCHANGED <<pc, promise, pending>>
    BY <1>0, <1>4 DEF StoreErrorNo
  <2>2. CASE errorNo[io.call] # "unknown"
    <3>1. promise[io.call] # "empty" /\ errorNo' = errorNo /\ io' = Nobody
      BY <1>4, <2>1, <2>2 DEF StoreErrorNo, Refused, ReleaseInv
    <3> QED BY <2>1, <3>1 DEF ReleaseInv, WillRelease
  <2>3. CASE errorNo[io.call] = "unknown"
    <3>1. /\ errorNo' = [errorNo EXCEPT ![io.call] = io.ending]
          /\ io' # Nobody /\ io'.call = io.call /\ io'.step = "promise"
      BY <1>0, <1>4, <2>1, <2>3 DEF StoreErrorNo, Refused, Nobody
    <3> QED BY <2>1, <3>1 DEF ReleaseInv, WillRelease
  <2> QED BY <2>2, <2>3
<1>5. CASE SetPromise
  <2>1. /\ io # Nobody /\ io.call \in Calls /\ io.step = "promise"
        /\ promise' = [promise EXCEPT ![io.call] = Promised] /\ Promised # "empty"
        /\ UNCHANGED <<pc, errorNo, pending>>
    BY <1>0, <1>5 DEF SetPromise, Promised
  <2> QED BY <2>1 DEF ReleaseInv, WillRelease
<1>6. CASE ReadThreadId \/ OnResult
  <2>1. /\ io # Nobody /\ io.step \notin {"errorNo", "promise"}
        /\ io' = Nobody \/ io'.step \notin {"errorNo", "promise"}
        /\ UNCHANGED <<pc, errorNo, promise, pending>>
    BY <1>0, <1>6 DEF ReadThreadId, OnResult, Nobody
  <2> QED BY <2>1 DEF ReleaseInv, WillRelease
<1>7. ASSUME NEW c \in Calls, Call(c) PROVE ReleaseInv'
  BY <1>1, <1>7 DEF Call
<1>8. ASSUME NEW c \in Calls,
             \/ \E where \in {"this", "any"} : ThenThread(c, where)
             \/ ThenResult(c) \/ ThenException(c)
             \/ WaitReady(c) \/ WaitFuture(c) \/ WaitReturns(c)
      PROVE  ReleaseInv'
  <2>1. pc[c] # "idle" /\ UNCHANGED <<errorNo, promise, io, pending>>
    BY <1>8 DEF ThenThread, ThenResult, ThenException, WaitReady, WaitFuture, WaitReturns
  <2>2. \E next : pc' = [pc EXCEPT ![c] = next]
    BY <1>8, Zenon DEF ThenThread, ThenResult, ThenException, WaitReady, WaitFuture,
                       WaitReturns
  <2> QED BY <1>2, <2>1, <2>2
<1>9. CASE \/ PumpMessage \/ PumpCallback \/ \E w \in Workers : OnIdle(w)
           \/ UNCHANGED vars
  BY <1>2, <1>9 DEF PumpMessage, PumpCallback, OnIdle, vars
<1> QED BY <1>3, <1>4, <1>5, <1>6, <1>7, <1>8, <1>9
     DEF Next, App, IoThread, Completion

\* A thread blocked in Wait has its release to come, whichever way the call ends.
THEOREM ReleaseCorrect == Spec => []ReleaseIsDue
<1>1. Init => ReleaseInv
  BY DEF Init, ReleaseInv
<1>2. FieldsOK /\ FieldsInv /\ ReleaseInv /\ [Next]_vars => ReleaseInv'
  BY StepRelease
<1>3. ReleaseInv => ReleaseIsDue
  BY DEF ReleaseInv, WillRelease, ReleaseIsDue
<1> QED BY <1>1, <1>2, <1>3, FieldsCorrect, PTL DEF Spec

\* What Wait gives agrees with the way the call ended.
THEOREM WaitCorrect == Spec => []WaitAgrees
BY FieldsCorrect, PTL

\* The I/O thread never sets a promise twice, whichever way it completes a
\* result.
THEOREM PromiseCorrect == Spec => []PromiseOnce
<1>1. FieldsInv => PromiseOnce BY DEF FieldsInv, PromiseOnce
<1> QED BY FieldsCorrect, <1>1, PTL

-----------------------------------------------------------------------------
(* Types.                                                                  *)

QueuesOK ==
  /\ pumping \in Seq(Calls) /\ queue \in Seq(Calls) /\ tasks \in [Workers -> Seq(Calls)]
  /\ called \in [Calls -> Seq(Threads \X {"result", "exception", "nothing"})]

HistoryOK ==
  /\ resultCb \subseteq Calls /\ exceptionCb \subseteq Calls /\ early \subseteq Calls
  /\ asked \in [Calls -> {"none", "this", "any"}]

LEMMA TypesAre == TypeOK <=> FieldsOK /\ QueuesOK /\ HistoryOK
BY DEF TypeOK, FieldsOK, QueuesOK, HistoryOK

LEMMA HeadType ==
  ASSUME NEW S, NEW s \in Seq(S), s # <<>>
  PROVE  Head(s) \in S /\ Tail(s) \in Seq(S)
OBVIOUS

LEMMA RunType ==
  ASSUME QueuesOK, NEW c \in Calls, NEW t \in Threads, RunCallback(c, t)
  PROVE  /\ called' \in [Calls -> Seq(Threads \X {"result", "exception", "nothing"})]
         /\ \E which : called' = [called EXCEPT ![c] = Append(@, <<t, which>>)]
<1> DEFINE T == Threads \X {"result", "exception", "nothing"}
           which == CASE errorNo[c] = "ok" /\ c \in resultCb        -> "result"
                      [] errorNo[c] \in Errors /\ c \in exceptionCb -> "exception"
                      [] OTHER                                      -> "nothing"
<1>1. called' = [called EXCEPT ![c] = Append(@, <<t, which>>)]
  BY Zenon DEF RunCallback
<1>2. which \in {"result", "exception", "nothing"}
  OBVIOUS
<1> HIDE DEF which
<1>3. <<t, which>> \in T
  BY <1>2
<1> HIDE DEF T
<1>4. called \in [Calls -> Seq(T)]
  BY DEF QueuesOK, T
<1> DEFINE x == <<t, which>>
<1>5. x \in T
  BY <1>3
<1> HIDE DEF x
<1>6. [called EXCEPT ![c] = Append(@, x)] \in [Calls -> Seq(T)]
  <2>1. Append(called[c], x) \in Seq(T)
    BY <1>4, <1>5
  <2> QED BY <1>4, <2>1
<1> QED BY <1>1, <1>6, Zenon DEF T, x

LEMMA StepQueuesOK ==
  ASSUME FieldsOK, QueuesOK, [Next]_vars
  PROVE  QueuesOK'
<1> USE DEF resultVars, appVars
<1>1. CASE UNCHANGED <<pumping, queue, tasks, called>>
  BY <1>1, Zenon DEF QueuesOK
<1>2. CASE PumpMessage
  BY <1>2 DEF PumpMessage, QueueCleared, QueuesOK
<1>3. CASE PumpCallback
  <2>1. Head(pumping) \in Calls /\ Tail(pumping) \in Seq(Calls)
    BY <1>3, HeadType, Zenon DEF PumpCallback, QueuesOK
  <2>2. called' \in [Calls -> Seq(Threads \X {"result", "exception", "nothing"})]
    BY <1>3, <2>1, RunType DEF PumpCallback, Threads
  <2> QED BY <1>3, <2>1, <2>2, Zenon DEF PumpCallback, QueuesOK
<1>4. ASSUME NEW w \in Workers, OnIdle(w) PROVE QueuesOK'
  <2>0. tasks[w] \in Seq(Calls) /\ tasks[w] # <<>>
    BY <1>4 DEF OnIdle, QueuesOK
  <2>1. Head(tasks[w]) \in Calls /\ Tail(tasks[w]) \in Seq(Calls)
    BY <2>0, HeadType, Zenon
  <2>2. called' \in [Calls -> Seq(Threads \X {"result", "exception", "nothing"})]
    BY <1>4, <2>1, RunType DEF OnIdle, Threads
  <2>3. tasks' \in [Workers -> Seq(Calls)]
    BY <1>4, <2>1 DEF OnIdle, QueuesOK
  <2> QED BY <1>4, <2>2, <2>3, Zenon DEF OnIdle, QueuesOK
<1>5. CASE OnResult
  <2>1. io.call \in Calls
    BY <1>5 DEF OnResult, At, FieldsOK, Nobody
  <2>2. UNCHANGED <<pumping, called>>
    BY <1>5, Zenon DEF OnResult
  <2>5. queue \in Seq(Calls) /\ tasks \in [Workers -> Seq(Calls)]
    BY DEF QueuesOK
  <2>3. queue' \in Seq(Calls)
    <3>1. queue' = queue \/ queue' = Append(queue, io.call)
      BY <1>5, Zenon DEF OnResult
    <3> QED BY <2>1, <2>5, <3>1
  <2>4. tasks' \in [Workers -> Seq(Calls)]
    <3>1. \/ tasks' = tasks
          \/ \E w \in Workers : tasks' = [tasks EXCEPT ![w] = Append(@, io.call)]
      BY <1>5, Zenon DEF OnResult
    <3>2. ASSUME NEW w \in Workers, tasks' = [tasks EXCEPT ![w] = Append(@, io.call)]
          PROVE  tasks' \in [Workers -> Seq(Calls)]
      <4>1. Append(tasks[w], io.call) \in Seq(Calls)
        BY <2>1, <2>5
      <4> QED BY <2>5, <3>2, <4>1
    <3> QED BY <2>5, <3>1, <3>2, Zenon
  <2> QED BY <2>2, <2>3, <2>4, Zenon DEF QueuesOK
<1>6. CASE \/ \E c \in Calls : Call(c) \/ ThenResult(c) \/ ThenException(c)
           \/ \E c \in Calls : WaitReady(c) \/ WaitFuture(c) \/ WaitReturns(c)
           \/ \E c \in Calls, where \in {"this", "any"} : ThenThread(c, where)
           \/ \E c \in Calls, e \in Endings : Take(c, e)
           \/ StoreErrorNo \/ SetPromise \/ ReadThreadId \/ UNCHANGED vars
  BY <1>1, <1>6, Zenon DEF Call, ThenResult, ThenException, WaitReady, WaitFuture,
     WaitReturns, ThenThread, Take, StoreErrorNo, SetPromise, ReadThreadId, vars
<1> QED BY <1>2, <1>3, <1>4, <1>5, <1>6, Zenon DEF Next, App, IoThread, Completion

LEMMA StepHistoryOK ==
  ASSUME HistoryOK, [Next]_vars
  PROVE  HistoryOK'
<1> USE DEF resultVars, appVars, HistoryOK
<1>1. CASE UNCHANGED <<resultCb, exceptionCb, early, asked>>
  BY <1>1
<1>2. ASSUME NEW c \in Calls, ThenResult(c) \/ ThenException(c) PROVE HistoryOK'
  BY <1>2 DEF ThenResult, ThenException
<1>3. ASSUME NEW c \in Calls, NEW where \in {"this", "any"}, ThenThread(c, where)
      PROVE  HistoryOK'
  BY <1>3 DEF ThenThread
<1>4. ASSUME NEW c \in Calls, NEW e \in Endings, Take(c, e) PROVE HistoryOK'
  BY <1>4 DEF Take
<1>5. CASE \/ PumpMessage \/ PumpCallback \/ \E w \in Workers : OnIdle(w)
           \/ \E c \in Calls : Call(c) \/ WaitReady(c) \/ WaitFuture(c) \/ WaitReturns(c)
           \/ Completion \/ UNCHANGED vars
  BY <1>1, <1>5, Zenon DEF PumpMessage, PumpCallback, OnIdle, Call, WaitReady,
     WaitFuture, WaitReturns, Completion, StoreErrorNo, SetPromise, ReadThreadId,
     OnResult, vars
<1> QED BY <1>2, <1>3, <1>4, <1>5, Zenon DEF Next, App, IoThread

LEMMA InitTypes == Init => FieldsOK /\ QueuesOK /\ HistoryOK
<1> SUFFICES ASSUME Init PROVE FieldsOK /\ QueuesOK /\ HistoryOK
  OBVIOUS
<1>1. FieldsOK BY DEF Init, FieldsOK
<1>2. QueuesOK BY DEF Init, QueuesOK
<1>3. HistoryOK BY DEF Init, HistoryOK
<1> QED BY <1>1, <1>2, <1>3

\* The fields of the results and the queues keep their types.
THEOREM TypeCorrect == Spec => []TypeOK
<1>1. Init => FieldsOK /\ QueuesOK /\ HistoryOK
  BY InitTypes
<1>2. FieldsOK /\ QueuesOK /\ HistoryOK /\ [Next]_vars
        => (FieldsOK /\ QueuesOK /\ HistoryOK)'
  BY StepFieldsOK, StepQueuesOK, StepHistoryOK
<1>3. Spec => [](FieldsOK /\ QueuesOK /\ HistoryOK)
  BY <1>1, <1>2, PTL DEF Spec
<1> QED BY <1>3, TypesAre, PTL

-----------------------------------------------------------------------------
(* A result, or its callback, is in one place at a time: EndPoint's table, *)
(* the completion under way, one of the queues; then the callback has run. *)

InIo(c) == io # Nobody /\ io.call = c

\* Before its callback is queued.
Fresh(c) == InIo(c) \/ c \in pending \/ pc[c] = "idle"

Queued(q, p, ts, c) ==
  InSeq(c, q) \/ InSeq(c, p) \/ \E w \in Workers : InSeq(c, ts[w])

OnePlace(c) ==
  /\ Len(called[c]) <= 1
  /\ Fresh(c) => called[c] = <<>> /\ ~Queued(queue, pumping, tasks, c)
  /\ Queued(queue, pumping, tasks, c) => called[c] = <<>>
  /\ InSeq(c, queue) => ~InSeq(c, pumping) /\ \A w \in Workers : ~InSeq(c, tasks[w])
  /\ InSeq(c, pumping) => \A w \in Workers : ~InSeq(c, tasks[w])
  /\ \A v, w \in Workers : InSeq(c, tasks[v]) /\ InSeq(c, tasks[w]) => v = w

NoRepeats ==
  Distinct(queue) /\ Distinct(pumping) /\ \A w \in Workers : Distinct(tasks[w])

PlaceInv == NoRepeats /\ \A c \in Calls : OnePlace(c)

LEMMA SameIn == \A x, s : InSeq(x, s) <=> In(x, s)
BY DEF InSeq, In

LEMMA EmptyIn == Distinct(<<>>) /\ \A x : ~InSeq(x, <<>>)
BY DEF Distinct, InSeq

LEMMA AppendIn ==
  ASSUME NEW S, NEW s \in Seq(S), NEW c \in S
  PROVE  /\ \A x : InSeq(x, Append(s, c)) <=> InSeq(x, s) \/ x = c
         /\ Distinct(s) /\ ~InSeq(c, s) => Distinct(Append(s, c))
BY InAppend, DistinctAppend, SameIn

LEMMA TailIn ==
  ASSUME NEW S, NEW s \in Seq(S), s # <<>>, Distinct(s)
  PROVE  /\ InSeq(Head(s), s) /\ ~InSeq(Head(s), Tail(s)) /\ Distinct(Tail(s))
         /\ \A x : InSeq(x, s) <=> x = Head(s) \/ InSeq(x, Tail(s))
BY InHeadTail, DistinctTail, SameIn

LEMMA InitPlace == Init => PlaceInv
<1> SUFFICES ASSUME Init PROVE PlaceInv
  OBVIOUS
<1>1. queue = <<>> /\ pumping = <<>> /\ \A w \in Workers : tasks[w] = <<>>
  BY DEF Init
<1>2. \A c \in Calls : called[c] = <<>>
  BY DEF Init
<1>3. Len(<<>>) <= 1
  OBVIOUS
<1>4. NoRepeats
  BY <1>1, EmptyIn, Zenon DEF NoRepeats
<1>5. \A c \in Calls : OnePlace(c)
  BY <1>1, <1>2, <1>3, EmptyIn, Zenon DEF OnePlace, Queued
<1> QED BY <1>4, <1>5, Zenon DEF PlaceInv

\* A step that moves nothing between the queues.
LEMMA PlaceKept ==
  ASSUME PlaceInv, UNCHANGED <<queue, pumping, tasks, called>>,
         \A c \in Calls : Fresh(c)' => Fresh(c)
  PROVE  PlaceInv'
<1>1. NoRepeats'
  BY Zenon DEF PlaceInv, NoRepeats
<1>2. ASSUME NEW c \in Calls PROVE OnePlace(c)'
  <2>1. OnePlace(c) /\ (Fresh(c)' => Fresh(c))
    BY DEF PlaceInv
  <2> HIDE DEF Fresh
  <2> QED BY <2>1, Zenon DEF OnePlace
<1> QED BY <1>1, <1>2, Zenon DEF PlaceInv

LEMMA PlaceOnResult ==
  ASSUME FieldsOK, FieldsInv, QueuesOK, PlaceInv, OnResult
  PROVE  PlaceInv'
<1>0. io.call \in Calls /\ io # Nobody
  BY DEF OnResult, At, Nobody, FieldsOK
<1>a. PICK c \in Calls : c = io.call
  BY <1>0
<1>1. /\ c \in Calls /\ InIo(c) /\ c \notin pending /\ pc[c] # "idle"
  BY <1>0, <1>a DEF FieldsInv, InIo
<1>2. /\ io' = Nobody /\ pending' = pending /\ pc' = pc
      /\ pumping' = pumping /\ called' = called
  BY Zenon DEF OnResult, appVars
<1>3. \A d \in Calls : Fresh(d)' => Fresh(d) /\ d # c
  BY <1>1, <1>2, Zenon DEF Fresh, InIo
<1>4. OnePlace(c) /\ Fresh(c)
  BY <1>1, Zenon DEF PlaceInv, Fresh
<1>5. called[c] = <<>> /\ ~Queued(queue, pumping, tasks, c)
  BY <1>4, Zenon DEF OnePlace
<1>6. CASE UNCHANGED <<queue, tasks>>
  BY <1>2, <1>3, <1>6, PlaceKept, Zenon
<1>7. CASE queue' = Append(queue, c) /\ tasks' = tasks
  <2>1. queue \in Seq(Calls)
    BY DEF QueuesOK
  <2>2. /\ \A x : InSeq(x, queue') <=> InSeq(x, queue) \/ x = c
        /\ Distinct(queue')
    BY <1>1, <1>5, <1>7, <2>1, AppendIn, Zenon DEF Queued, PlaceInv, NoRepeats
  <2>3. NoRepeats'
    BY <1>2, <1>7, <2>2, Zenon DEF PlaceInv, NoRepeats
  <2>4. ASSUME NEW d \in Calls PROVE OnePlace(d)'
    <3>1. OnePlace(d)
      BY DEF PlaceInv
    <3> HIDE DEF Fresh
    <3> QED BY <1>2, <1>3, <1>5, <1>7, <2>2, <3>1, Zenon DEF OnePlace, Queued
  <2> QED BY <2>3, <2>4, Zenon DEF PlaceInv
<1>8. ASSUME NEW w \in Workers, tasks' = [tasks EXCEPT ![w] = Append(@, c)],
             queue' = queue
      PROVE  PlaceInv'
  <2>1. tasks \in [Workers -> Seq(Calls)]
    BY DEF QueuesOK
  <2>2. /\ tasks'[w] = Append(tasks[w], c)
        /\ \A v \in Workers : v # w => tasks'[v] = tasks[v]
        /\ tasks[w] \in Seq(Calls)
    BY <1>8, <2>1
  <2>3. /\ \A x : InSeq(x, tasks'[w]) <=> InSeq(x, tasks[w]) \/ x = c
        /\ Distinct(tasks'[w])
    <3>1. Distinct(tasks[w]) /\ ~InSeq(c, tasks[w])
      BY <1>5, Zenon DEF Queued, PlaceInv, NoRepeats
    <3>2. /\ \A x : InSeq(x, Append(tasks[w], c)) <=> InSeq(x, tasks[w]) \/ x = c
          /\ Distinct(Append(tasks[w], c))
      BY <1>1, <2>2, <3>1, AppendIn, Zenon
    <3> QED BY <2>2, <3>2, Zenon
  <2>4. \A v \in Workers : Distinct(tasks'[v])
    BY <2>2, <2>3, Zenon DEF PlaceInv, NoRepeats
  <2>5. NoRepeats'
    BY <1>2, <1>8, <2>4, Zenon DEF PlaceInv, NoRepeats
  <2>6. \A v \in Workers : \A x : x # c =>
          (InSeq(x, tasks'[v]) <=> InSeq(x, tasks[v]))
    BY <2>2, <2>3, Zenon
  <2>7. \A v \in Workers : InSeq(c, tasks'[v]) => v = w
    BY <1>5, <2>2, Zenon DEF Queued
  <2>8. ASSUME NEW d \in Calls, d # c PROVE OnePlace(d)'
    <3>1. OnePlace(d)
      BY DEF PlaceInv
    <3>2. Queued(queue', pumping', tasks', d) <=> Queued(queue, pumping, tasks, d)
      BY <1>2, <1>8, <2>6, <2>8, Zenon DEF Queued
    <3> HIDE DEF Fresh
    <3> QED BY <1>2, <1>3, <1>8, <2>6, <2>8, <3>1, <3>2, Zenon DEF OnePlace
  <2>9. OnePlace(c)'
    <3>1. ~Fresh(c)'
      BY <1>1, <1>3, Zenon
    <3>2. Len(called'[c]) <= 1
      BY <1>2, <1>4, Zenon DEF OnePlace
    <3> HIDE DEF Fresh
    <3> QED BY <1>2, <1>5, <1>8, <2>7, <3>1, <3>2, Zenon DEF OnePlace, Queued
  <2> QED BY <2>5, <2>8, <2>9, Zenon DEF PlaceInv
<1> QED BY <1>a, <1>6, <1>7, <1>8, Zenon DEF OnResult

\* A callback that runs is taken out of the only queue it is in.
LEMMA PlaceRun ==
  ASSUME QueuesOK, PlaceInv, NEW c \in Calls, NEW which, NEW t,
         called' = [called EXCEPT ![c] = Append(@, <<t, which>>)],
         Queued(queue, pumping, tasks, c), ~Queued(queue', pumping', tasks', c),
         \A d \in Calls : (Fresh(d)' <=> Fresh(d)),
         \A d \in Calls : InSeq(d, queue') => InSeq(d, queue),
         \A d \in Calls : InSeq(d, pumping') => InSeq(d, pumping),
         \A w \in Workers : \A d \in Calls : InSeq(d, tasks'[w]) => InSeq(d, tasks[w]),
         NoRepeats'
  PROVE  PlaceInv'
<1>1. OnePlace(c)
  BY DEF PlaceInv
<1>2. called[c] = <<>> /\ ~Fresh(c)
  BY <1>1, Zenon DEF OnePlace
<1>3. Len(called'[c]) <= 1 /\ \A d \in Calls : d # c => called'[d] = called[d]
  <2>1. DOMAIN called = Calls
    BY DEF QueuesOK
  <2>2. called'[c] = Append(<<>>, <<t, which>>)
    BY <1>2, <2>1
  <2> QED BY <2>1, <2>2
<1> HIDE DEF Fresh
<1>4. OnePlace(c)'
  BY <1>2, <1>3, Zenon DEF OnePlace, Queued
<1>5. ASSUME NEW d \in Calls, d # c PROVE OnePlace(d)'
  <2>1. OnePlace(d) /\ called'[d] = called[d]
    BY <1>3, <1>5, Zenon DEF PlaceInv
  <2>2. Queued(queue', pumping', tasks', d) => Queued(queue, pumping, tasks, d)
    BY Zenon DEF Queued
  <2> QED BY <2>1, <2>2, Zenon DEF OnePlace
<1> QED BY <1>4, <1>5, Zenon DEF PlaceInv

LEMMA StepPlace ==
  ASSUME FieldsOK, FieldsInv, QueuesOK, PlaceInv, [Next]_vars
  PROVE  PlaceInv'
<1> USE DEF resultVars, appVars
<1>1. CASE UNCHANGED <<queue, pumping, tasks, called, pc, pending>>
           /\ \/ io' = Nobody \/ io' = io
              \/ io # Nobody /\ io'.call = io.call
  <2>1. \A c \in Calls : Fresh(c)' => Fresh(c)
    BY <1>1, Zenon DEF Fresh, InIo
  <2> QED BY <1>1, <2>1, PlaceKept, Zenon
<1>2. ASSUME NEW c \in Calls, Call(c) PROVE PlaceInv'
  <2>1. \A d \in Calls : Fresh(d)' => Fresh(d)
    BY <1>2 DEF Call, Fresh, InIo, FieldsOK
  <2> QED BY <1>2, <2>1, PlaceKept, Zenon DEF Call
<1>3. ASSUME NEW c \in Calls, NEW x \in {"result", "exception", "then", "waiting", "waited"},
             pc' = [pc EXCEPT ![c] = x],
             UNCHANGED <<queue, pumping, tasks, called, pending, io>>
      PROVE  PlaceInv'
  <2>1. \A d \in Calls : Fresh(d)' => Fresh(d)
    BY <1>3 DEF Fresh, InIo, FieldsOK
  <2> QED BY <1>3, <2>1, PlaceKept, Zenon
<1>4. ASSUME NEW c \in Calls, NEW e \in Endings, Take(c, e) PROVE PlaceInv'
  <2>1. /\ c \in pending /\ pending' = pending \ {c} /\ io'.call = c /\ pc' = pc
        /\ UNCHANGED <<queue, pumping, tasks, called>>
    BY <1>4 DEF Take
  <2>2. \A d \in Calls : Fresh(d)' => Fresh(d)
    BY <2>1 DEF Fresh, InIo
  <2> QED BY <2>1, <2>2, PlaceKept, Zenon
<1>5. CASE PumpMessage
  <2>1. /\ pumping = <<>> /\ pumping' = queue /\ queue' = <<>>
        /\ UNCHANGED <<tasks, called, pc, pending, io>>
    BY <1>5, Zenon DEF PumpMessage, QueueCleared, Free
  <2>2. NoRepeats'
    BY <2>1, EmptyIn, Zenon DEF PlaceInv, NoRepeats
  <2>3. \A c \in Calls : Fresh(c)' => Fresh(c)
    BY <2>1, Zenon DEF Fresh, InIo
  <2>4. ASSUME NEW c \in Calls PROVE OnePlace(c)'
    <3>1. OnePlace(c)
      BY DEF PlaceInv
    <3> HIDE DEF Fresh
    <3> QED BY <2>1, <2>3, <3>1, EmptyIn, Zenon DEF OnePlace, Queued
  <2> QED BY <2>2, <2>4, Zenon DEF PlaceInv
<1>6. CASE PumpCallback
  <2> DEFINE c == Head(pumping)
  <2>1. /\ pumping # <<>> /\ pumping' = Tail(pumping) /\ RunCallback(c, "app")
        /\ UNCHANGED <<queue, tasks, pc, pending, io>>
    BY <1>6, Zenon DEF PumpCallback
  <2>2. pumping \in Seq(Calls) /\ c \in Calls
    BY <2>1, HeadType, Zenon DEF QueuesOK
  <2>3. /\ InSeq(c, pumping) /\ ~InSeq(c, Tail(pumping)) /\ Distinct(Tail(pumping))
        /\ \A x : InSeq(x, pumping) <=> x = c \/ InSeq(x, Tail(pumping))
    BY <2>1, <2>2, TailIn, Zenon DEF PlaceInv, NoRepeats
  <2>4. \E which : called' = [called EXCEPT ![c] = Append(@, <<"app", which>>)]
    BY <2>1, <2>2, RunType DEF Threads
  <2> HIDE DEF c
  <2>5. NoRepeats'
    BY <2>1, <2>3, Zenon DEF PlaceInv, NoRepeats
  <2>6. \A d \in Calls : Fresh(d)' <=> Fresh(d)
    BY <2>1, Zenon DEF Fresh, InIo
  <2>7. OnePlace(c)
    BY <2>2 DEF PlaceInv
  <2>8. ~Queued(queue', pumping', tasks', c) /\ Queued(queue, pumping, tasks, c)
    BY <2>1, <2>3, <2>7, Zenon DEF OnePlace, Queued
  <2> HIDE DEF Fresh
  <2> QED BY <2>1, <2>2, <2>3, <2>4, <2>5, <2>6, <2>8, PlaceRun, Zenon
<1>7. ASSUME NEW w \in Workers, OnIdle(w) PROVE PlaceInv'
  <2> DEFINE c == Head(tasks[w])
  <2>0. tasks \in [Workers -> Seq(Calls)]
    BY DEF QueuesOK
  <2>1. /\ tasks[w] # <<>> /\ tasks'[w] = Tail(tasks[w]) /\ RunCallback(c, w)
        /\ \A v \in Workers : v # w => tasks'[v] = tasks[v]
        /\ UNCHANGED <<queue, pumping, pc, pending, io>>
    BY <1>7, <2>0 DEF OnIdle
  <2>2. tasks[w] \in Seq(Calls) /\ c \in Calls
    BY <2>0, <2>1, HeadType, Zenon
  <2>3. /\ InSeq(c, tasks[w]) /\ ~InSeq(c, Tail(tasks[w])) /\ Distinct(Tail(tasks[w]))
        /\ \A x : InSeq(x, tasks[w]) <=> x = c \/ InSeq(x, Tail(tasks[w]))
    BY <2>1, <2>2, TailIn, Zenon DEF PlaceInv, NoRepeats
  <2>4. \E which : called' = [called EXCEPT ![c] = Append(@, <<w, which>>)]
    BY <2>1, <2>2, RunType DEF Threads
  <2> HIDE DEF c
  <2>a. \A v \in Workers : Distinct(tasks'[v])
    BY <2>1, <2>3, Zenon DEF PlaceInv, NoRepeats
  <2>5. NoRepeats'
    BY <2>1, <2>a, Zenon DEF PlaceInv, NoRepeats
  <2>6. \A d \in Calls : Fresh(d)' <=> Fresh(d)
    BY <2>1, Zenon DEF Fresh, InIo
  <2>7. OnePlace(c)
    BY <2>2 DEF PlaceInv
  <2>b. \A v \in Workers : ~InSeq(c, tasks'[v])
    BY <2>1, <2>3, <2>7, Zenon DEF OnePlace
  <2>8. ~Queued(queue', pumping', tasks', c) /\ Queued(queue, pumping, tasks, c)
    BY <2>1, <2>3, <2>7, <2>b, Zenon DEF OnePlace, Queued
  <2>9. \A v \in Workers : \A d \in Calls : InSeq(d, tasks'[v]) => InSeq(d, tasks[v])
    BY <2>1, <2>3, Zenon
  <2> HIDE DEF Fresh
  <2> QED BY <2>1, <2>2, <2>4, <2>5, <2>6, <2>8, <2>9, PlaceRun, Zenon
<1>8. ASSUME NEW c \in Calls,
             \/ ThenResult(c) \/ ThenException(c) \/ WaitReady(c) \/ WaitFuture(c)
             \/ WaitReturns(c) \/ \E where \in {"this", "any"} : ThenThread(c, where)
      PROVE  PlaceInv'
  BY <1>3, <1>8, Zenon DEF ThenResult, ThenException, WaitReady, WaitFuture,
     WaitReturns, ThenThread
<1>9. CASE StoreErrorNo \/ SetPromise \/ ReadThreadId
  <2>1. io \in [step : {"errorNo", "promise", "threadId", "queue"}, call : Calls,
                ending : Endings, inner : BOOLEAN, id : {"none", "app"}] /\ io # Nobody
    BY <1>9 DEF StoreErrorNo, SetPromise, ReadThreadId, At, FieldsOK, Nobody
  <2>2. io' = Nobody \/ io'.call = io.call
    BY <1>9, <2>1 DEF StoreErrorNo, SetPromise, ReadThreadId
  <2> QED BY <1>1, <1>9, <2>1, <2>2, Zenon DEF StoreErrorNo, SetPromise, ReadThreadId
<1>10. CASE UNCHANGED vars
  BY <1>1, <1>10, Zenon DEF vars
<1> QED BY <1>2, <1>4, <1>5, <1>6, <1>7, <1>8, <1>9, <1>10, PlaceOnResult, Zenon
       DEF Next, App, IoThread, Completion

\* A callback runs at most once, and not again once it is queued or has run:
\* the completion by the I/O thread, the list of the application thread and
\* those of the workers hand each result on.
THEOREM RunsOnceCorrect == Spec => []RunsOnce
<1>1. PlaceInv => RunsOnce
  <2> SUFFICES ASSUME PlaceInv, NEW c \in Calls
               PROVE  Len(called[c]) <= 1 /\ (called[c] # <<>> => ~Scheduled(c))
    BY DEF RunsOnce
  <2>1. OnePlace(c)
    BY DEF PlaceInv
  <2> QED BY <2>1, Zenon DEF OnePlace, Scheduled, Queued, Fresh, InIo
<1>2. FieldsOK /\ FieldsInv /\ QueuesOK /\ PlaceInv /\ [Next]_vars => PlaceInv'
  BY StepPlace
<1>3. FieldsOK /\ QueuesOK /\ [Next]_vars => QueuesOK'
  BY StepQueuesOK
<1>4. Init => QueuesOK /\ PlaceInv
  BY InitTypes, InitPlace
<1> QED BY <1>1, <1>2, <1>3, <1>4, FieldsCorrect, PTL DEF Spec

-----------------------------------------------------------------------------
(* The callback of a Then that ended before the completion began.          *)

\* Such a Then has set a callback and recorded its thread, and both stay; the
\* completion is refused only the second time, after a time-out.
EarlyInv ==
  /\ \A c \in Calls :
       /\ pc[c] \in {"idle", "made"} => threadId[c] = "none"
       /\ pc[c] \in {"result", "exception", "then"} =>
            (threadId[c] = "app" <=> asked[c] = "this")
       /\ pc[c] = "then" => HasCallback(c)
       /\ c \in early => pc[c] = "then"
  /\ io # Nobody =>
       /\ io.inner => io.ending = "timeout"
       /\ io.step = "errorNo" => errorNo[io.call] \in {"unknown", "timeout"}
       /\ io.step = "queue" /\ io.call \in early => io.id = threadId[io.call]

LEMMA InitEarly == Init => EarlyInv
BY DEF Init, EarlyInv

LEMMA StepEarly ==
  ASSUME FieldsOK, FieldsInv, HistoryOK, EarlyInv, [Next]_vars
  PROVE  EarlyInv'
<1> USE DEF resultVars, appVars
<1>0. io # Nobody => io.step # "idle" /\ io.call \in Calls
  BY DEF FieldsOK
<1>1. ASSUME NEW c \in Calls, Call(c) PROVE EarlyInv'
  BY <1>0, <1>1 DEF Call, EarlyInv, FieldsOK, HasCallback
<1>2. ASSUME NEW c \in Calls, NEW where \in {"this", "any"}, ThenThread(c, where)
      PROVE  EarlyInv'
  BY <1>0, <1>2 DEF ThenThread, EarlyInv, FieldsOK, HistoryOK, HasCallback
<1>3. ASSUME NEW c \in Calls, ThenResult(c) PROVE EarlyInv'
  BY <1>0, <1>3 DEF ThenResult, EarlyInv, FieldsOK, HasCallback
<1>4. ASSUME NEW c \in Calls, ThenException(c) PROVE EarlyInv'
  BY <1>0, <1>4 DEF ThenException, EarlyInv, FieldsOK, HasCallback
<1>5. ASSUME NEW c \in Calls, WaitReady(c) \/ WaitFuture(c) \/ WaitReturns(c)
      PROVE  EarlyInv'
  BY <1>0, <1>5 DEF WaitReady, WaitFuture, WaitReturns, EarlyInv, FieldsOK, HasCallback
<1>6. ASSUME NEW c \in Calls, NEW e \in Endings, Take(c, e) PROVE EarlyInv'
  BY <1>6 DEF Take, EarlyInv, FieldsInv, HasCallback, Nobody
<1>7. CASE StoreErrorNo
  BY <1>0, <1>7 DEF StoreErrorNo, Refused, At, EarlyInv, FieldsOK, HasCallback, Nobody
<1>8. CASE SetPromise
  BY <1>0, <1>8 DEF SetPromise, At, EarlyInv, FieldsOK, FieldsInv, HasCallback, Nobody
<1>9. CASE ReadThreadId
  BY <1>0, <1>9 DEF ReadThreadId, At, EarlyInv, FieldsOK, HasCallback, Nobody
<1>10. CASE OnResult
  BY <1>0, <1>10 DEF OnResult, EarlyInv, HasCallback
<1>11. CASE PumpMessage \/ PumpCallback \/ (\E w \in Workers : OnIdle(w)) \/ UNCHANGED vars
  BY <1>11 DEF PumpMessage, PumpCallback, OnIdle, EarlyInv, HasCallback, vars
<1> QED BY <1>1, <1>2, <1>3, <1>4, <1>5, <1>6, <1>7, <1>8, <1>9, <1>10, <1>11
       DEF Next, App, IoThread, Completion

\* Where the callback of c may be queued is where asked says.
RightThread(c) ==
  /\ InSeq(c, queue) \/ InSeq(c, pumping) => asked[c] = "this"
  /\ \A w \in Workers : InSeq(c, tasks[w]) => asked[c] # "this"
  /\ \A i \in DOMAIN called[c] : called[c][i][1] = "app" <=> asked[c] = "this"

ThreadInv == \A c \in early : RightThread(c)

LEMMA InitThread == Init => EarlyThenKept /\ ThreadInv
BY DEF Init, EarlyThenKept, ThreadInv

\* A step that neither queues a callback nor runs one.
LEMMA ThreadKept ==
  ASSUME ThreadInv, UNCHANGED <<queue, pumping, tasks, called, early>>,
         \A c \in early : asked'[c] = asked[c]
  PROVE  ThreadInv'
<1> SUFFICES ASSUME NEW c \in early PROVE RightThread(c)'
  BY Zenon DEF ThreadInv
<1>1. RightThread(c)
  BY DEF ThreadInv
<1> QED BY <1>1, Zenon DEF RightThread

\* A callback that is run, by the thread of the queue it was in.
LEMMA ThreadRun ==
  ASSUME QueuesOK, PlaceInv, ThreadInv, early \subseteq Calls,
         NEW c \in Calls, NEW t, NEW which,
         called' = [called EXCEPT ![c] = Append(@, <<t, which>>)],
         Queued(queue, pumping, tasks, c), UNCHANGED <<early, asked>>,
         c \in early => (t = "app" <=> asked[c] = "this"),
         \A d \in Calls : InSeq(d, queue') => InSeq(d, queue),
         \A d \in Calls : InSeq(d, pumping') => InSeq(d, pumping),
         \A w \in Workers : \A d \in Calls : InSeq(d, tasks'[w]) => InSeq(d, tasks[w])
  PROVE  ThreadInv'
<1>1. OnePlace(c)
  BY DEF PlaceInv
<1>2. called[c] = <<>>
  BY <1>1, Zenon DEF OnePlace
<1>3. /\ DOMAIN called'[c] = {1} /\ called'[c][1] = <<t, which>>
      /\ \A d \in Calls : d # c => called'[d] = called[d]
  <2>1. DOMAIN called = Calls
    BY DEF QueuesOK
  <2>2. called'[c] = Append(<<>>, <<t, which>>)
    BY <1>2, <2>1
  <2> QED BY <2>1, <2>2
<1> SUFFICES ASSUME NEW d \in early PROVE RightThread(d)'
  BY Zenon DEF ThreadInv
<1>4. RightThread(d) /\ d \in Calls
  BY DEF ThreadInv
<1>5. \A i \in DOMAIN called'[d] : called'[d][i][1] = "app" <=> asked[d] = "this"
  <2>1. CASE d = c
    BY <1>3, <2>1
  <2>2. CASE d # c
    BY <1>3, <1>4, <2>2, Zenon DEF RightThread
  <2> QED BY <2>1, <2>2
<1> QED BY <1>4, <1>5, Zenon DEF RightThread

LEMMA StepThread ==
  ASSUME FieldsOK, FieldsInv, QueuesOK, HistoryOK, PlaceInv, EarlyInv, ThreadInv,
         [Next]_vars
  PROVE  ThreadInv'
<1> USE DEF resultVars, appVars
<1>a. early \subseteq Calls /\ \A c \in early : pc[c] = "then"
  BY DEF HistoryOK, EarlyInv
<1>1. CASE UNCHANGED <<queue, pumping, tasks, called, early, asked>>
  BY <1>1, ThreadKept, Zenon
<1>2. ASSUME NEW c \in Calls, NEW where \in {"this", "any"}, ThenThread(c, where)
      PROVE  ThreadInv'
  <2>1. \A d \in early : asked'[d] = asked[d]
    BY <1>a, <1>2 DEF ThenThread, HistoryOK
  <2> QED BY <1>2, <2>1, ThreadKept, Zenon DEF ThenThread
<1>3. ASSUME NEW c \in Calls, NEW e \in Endings, Take(c, e) PROVE ThreadInv'
  <2>1. /\ c \in pending /\ UNCHANGED <<queue, pumping, tasks, called, asked>>
        /\ early' \subseteq early \cup {c}
    BY <1>3 DEF Take
  <2>2. called[c] = <<>> /\ ~Queued(queue, pumping, tasks, c)
    BY <2>1, Zenon DEF PlaceInv, OnePlace, Fresh
  <2>3. RightThread(c)
    <3>1. \A i \in DOMAIN called[c] : FALSE
      BY <2>2
    <3> QED BY <2>2, <3>1, Zenon DEF RightThread, Queued
  <2>4. \A d \in early' : RightThread(d)
    BY <2>1, <2>3 DEF ThreadInv
  <2> QED BY <2>1, <2>4, Zenon DEF ThreadInv, RightThread
<1>4. CASE PumpMessage
  <2>1. /\ pumping = <<>> /\ pumping' = queue /\ queue' = <<>>
        /\ UNCHANGED <<tasks, called, early, asked>>
    BY <1>4, Zenon DEF PumpMessage, QueueCleared, Free
  <2> QED BY <2>1, EmptyIn, Zenon DEF ThreadInv, RightThread
<1>5. CASE PumpCallback
  <2>0. pumping # <<>> /\ pumping \in Seq(Calls)
    BY <1>5 DEF PumpCallback, QueuesOK
  <2>p. PICK c \in Calls : c = Head(pumping)
    BY <2>0, HeadType
  <2>1. /\ pumping' = Tail(pumping) /\ RunCallback(c, "app")
        /\ UNCHANGED <<queue, tasks, early, asked>>
    BY <1>5, <2>p, Zenon DEF PumpCallback
  <2>3. /\ InSeq(c, pumping)
        /\ \A x : InSeq(x, pumping) <=> x = c \/ InSeq(x, Tail(pumping))
    BY <2>0, <2>p, TailIn, Zenon DEF PlaceInv, NoRepeats
  <2>4. \E which : called' = [called EXCEPT ![c] = Append(@, <<"app", which>>)]
    BY <2>1, RunType DEF Threads
  <2>5. c \in early => asked[c] = "this"
    BY <2>3, Zenon DEF ThreadInv, RightThread
  <2>6. Queued(queue, pumping, tasks, c)
    BY <2>3, Zenon DEF Queued
  <2> QED BY <1>a, <2>1, <2>3, <2>4, <2>5, <2>6, ThreadRun, Zenon
<1>6. ASSUME NEW w \in Workers, OnIdle(w) PROVE ThreadInv'
  <2>0. tasks[w] # <<>> /\ tasks[w] \in Seq(Calls) /\ tasks \in [Workers -> Seq(Calls)]
    BY <1>6 DEF OnIdle, QueuesOK
  <2>p. PICK c \in Calls : c = Head(tasks[w])
    BY <2>0, HeadType
  <2>1. /\ tasks'[w] = Tail(tasks[w])
        /\ \A v \in Workers : v # w => tasks'[v] = tasks[v]
    BY <1>6, <2>0 DEF OnIdle
  <2>2. RunCallback(c, w) /\ UNCHANGED <<queue, pumping, early, asked>>
    BY <1>6, <2>p, Zenon DEF OnIdle
  <2>3. /\ InSeq(c, tasks[w])
        /\ \A x : InSeq(x, tasks[w]) <=> x = c \/ InSeq(x, Tail(tasks[w]))
    BY <2>0, <2>p, TailIn, Zenon DEF PlaceInv, NoRepeats
  <2>4. \E which : called' = [called EXCEPT ![c] = Append(@, <<w, which>>)]
    BY <2>2, RunType DEF Threads
  <2>5. c \in early => asked[c] # "this"
    BY <2>3, Zenon DEF ThreadInv, RightThread
  <2>6. Queued(queue, pumping, tasks, c)
    BY <2>3, Zenon DEF Queued
  <2>7. w # "app"
    BY WorkersAssumption
  <2>8. \A v \in Workers : \A d \in Calls : InSeq(d, tasks'[v]) => InSeq(d, tasks[v])
    BY <2>1, <2>3, Zenon
  <2> QED BY <1>a, <2>2, <2>4, <2>5, <2>6, <2>7, <2>8, ThreadRun, Zenon
<1>7. CASE OnResult
  <2>0. io.call \in Calls /\ io # Nobody /\ io.step = "queue"
    BY <1>7 DEF OnResult, At, Nobody, FieldsOK
  <2>p. PICK c \in Calls : c = io.call
    BY <2>0
  <2>1. UNCHANGED <<pumping, called, early, asked>>
    BY <1>7, Zenon DEF OnResult
  <2>2. c \in early => (NoThread <=> asked[c] # "this")
    <3> SUFFICES ASSUME c \in early PROVE NoThread <=> asked[c] # "this"
      OBVIOUS
    <3>1. io.id = threadId[c] /\ pc[c] = "then" /\ (threadId[c] = "app" <=> asked[c] = "this")
      BY <2>0, <2>p DEF EarlyInv
    <3> QED BY <3>1 DEF NoThread, FieldsOK
  <2>3. CASE NoThread /\ queue' = queue
             /\ \E w \in Workers : tasks' = [tasks EXCEPT ![w] = Append(@, c)]
    <3>1. tasks \in [Workers -> Seq(Calls)]
      BY DEF QueuesOK
    <3>2. PICK w \in Workers : tasks' = [tasks EXCEPT ![w] = Append(@, c)]
      BY <2>3
    <3>3. /\ tasks'[w] = Append(tasks[w], c) /\ tasks[w] \in Seq(Calls)
          /\ \A v \in Workers : v # w => tasks'[v] = tasks[v]
      BY <3>1, <3>2
    <3>4. \A x : InSeq(x, Append(tasks[w], c)) <=> InSeq(x, tasks[w]) \/ x = c
      BY <3>3, AppendIn, Zenon
    <3>5. \A v \in Workers : \A x : InSeq(x, tasks'[v]) => InSeq(x, tasks[v]) \/ x = c
      BY <3>3, <3>4, Zenon
    <3> QED BY <2>1, <2>2, <2>3, <3>5, Zenon DEF ThreadInv, RightThread
  <2>4. CASE ~NoThread /\ tasks' = tasks /\ queue' = Append(queue, c)
    <3>1. queue \in Seq(Calls)
      BY DEF QueuesOK
    <3>2. \A x : InSeq(x, queue') <=> InSeq(x, queue) \/ x = c
      BY <2>4, <3>1, AppendIn, Zenon
    <3> QED BY <2>1, <2>2, <2>4, <3>2, Zenon DEF ThreadInv, RightThread
  <2>5. CASE UNCHANGED <<queue, tasks>>
    BY <1>1, <2>1, <2>5, Zenon
  <2> QED BY <1>7, <2>p, <2>3, <2>4, <2>5, Zenon DEF OnResult
<1>8. CASE \/ \E c \in Calls : Call(c) \/ ThenResult(c) \/ ThenException(c)
           \/ \E c \in Calls : WaitReady(c) \/ WaitFuture(c) \/ WaitReturns(c)
           \/ StoreErrorNo \/ SetPromise \/ ReadThreadId \/ UNCHANGED vars
  BY <1>1, <1>8, Zenon DEF Call, ThenResult, ThenException, WaitReady, WaitFuture,
     WaitReturns, StoreErrorNo, SetPromise, ReadThreadId, vars
<1> QED BY <1>2, <1>3, <1>4, <1>5, <1>6, <1>7, <1>8, Zenon DEF Next, App, IoThread,
       Completion

LEMMA StepKept ==
  ASSUME FieldsOK, FieldsInv, QueuesOK, HistoryOK, PlaceInv, EarlyInv, EarlyThenKept,
         [Next]_vars
  PROVE  EarlyThenKept'
<1> USE DEF resultVars, appVars
<1> DEFINE Done == Endings \ {"timeout"}
           Has(c) == InIo(c) \/ Queued(queue, pumping, tasks, c) \/ called[c] # <<>>
<1>a. \A c \in early : c \in Calls /\ pc[c] = "then" /\ HasCallback(c)
  BY DEF HistoryOK, EarlyInv
<1>b. \A c \in early : errorNo[c] \in Done => Has(c)
  BY Zenon DEF EarlyThenKept, Scheduled, InIo, Queued
<1>c. (\A c \in early' : errorNo'[c] \in Done => Has(c)') => EarlyThenKept'
  BY Zenon DEF EarlyThenKept, Scheduled, InIo, Queued
<1> HIDE DEF Done
<1>1. CASE UNCHANGED <<errorNo, io, queue, pumping, tasks, called, early>>
  <2> SUFFICES ASSUME NEW c \in early', errorNo'[c] \in Done PROVE Has(c)'
    BY <1>c
  <2>1. Has(c)
    BY <1>1, <1>b
  <2> QED BY <1>1, <2>1, Zenon DEF InIo, Queued
<1>2. ASSUME NEW c \in Calls, NEW e \in Endings, Take(c, e) PROVE EarlyThenKept'
  <2>1. /\ UNCHANGED <<errorNo, queue, pumping, tasks, called>>
        /\ io'.call = c /\ io'.step = "errorNo"
        /\ early' \subseteq early \cup {c} /\ io.step = "idle"
    BY <1>2 DEF Take, At
  <2>2. io' # Nobody /\ io = Nobody
    BY <2>1 DEF Nobody, FieldsOK
  <2> SUFFICES ASSUME NEW d \in early', errorNo'[d] \in Done PROVE Has(d)'
    BY <1>c
  <2>3. CASE d = c
    BY <2>1, <2>2, <2>3, Zenon DEF InIo
  <2>4. CASE d # c
    <3>1. Has(d)
      BY <1>b, <2>1, <2>4
    <3> QED BY <2>1, <2>2, <3>1, Zenon DEF InIo, Queued
  <2> QED BY <2>3, <2>4
<1>3. CASE StoreErrorNo \/ SetPromise \/ ReadThreadId
  <2>1. /\ UNCHANGED <<queue, pumping, tasks, called, early>>
        /\ io # Nobody /\ io.call \in Calls
    BY <1>3 DEF StoreErrorNo, SetPromise, ReadThreadId, At, Nobody, FieldsOK
  <2>2. \A d \in Calls : d # io.call => errorNo'[d] = errorNo[d]
    BY <1>3, <2>1 DEF StoreErrorNo, SetPromise, ReadThreadId, FieldsOK
  <2>3. \/ io'.call = io.call /\ io' # Nobody
        \/ errorNo' = errorNo /\ errorNo[io.call] \notin Done
    <3>1. CASE StoreErrorNo /\ Refused
      BY <2>1, <3>1 DEF StoreErrorNo, Refused, At, EarlyInv, Done
    <3>2. CASE StoreErrorNo /\ ~Refused
      <4>1. io'.call = io.call /\ io'.step = "promise"
        BY <2>1, <3>2 DEF StoreErrorNo, FieldsOK, Nobody
      <4> QED BY <4>1 DEF Nobody
    <3>3. CASE SetPromise
      <4>1. io'.call = io.call /\ io'.step \in {"errorNo", "threadId"}
        BY <2>1, <3>3 DEF SetPromise, FieldsOK, Nobody
      <4> QED BY <4>1 DEF Nobody
    <3>4. CASE ReadThreadId
      <4>1. io'.call = io.call /\ io'.step = "queue"
        BY <2>1, <3>4 DEF ReadThreadId, FieldsOK, Nobody
      <4> QED BY <4>1 DEF Nobody
    <3> QED BY <1>3, <3>1, <3>2, <3>3, <3>4
  <2> SUFFICES ASSUME NEW d \in early', errorNo'[d] \in Done PROVE Has(d)'
    BY <1>c
  <2>4. d \in early /\ d \in Calls
    BY <1>a, <2>1
  <2>5. CASE d = io.call
    BY <2>3, <2>5, Zenon DEF InIo
  <2>6. CASE d # io.call
    <3>1. Has(d)
      BY <1>b, <2>2, <2>4, <2>6
    <3> QED BY <2>1, <2>6, <3>1, Zenon DEF InIo, Queued
  <2> QED BY <2>5, <2>6
<1>4. CASE OnResult
  <2>0. io.call \in Calls /\ io # Nobody
    BY <1>4 DEF OnResult, At, Nobody, FieldsOK
  <2>p. PICK c \in Calls : c = io.call
    BY <2>0
  <2>1. UNCHANGED <<pumping, called, early, errorNo>>
    BY <1>4, Zenon DEF OnResult
  <2>2. queue \in Seq(Calls) /\ tasks \in [Workers -> Seq(Calls)]
    BY DEF QueuesOK
  <2>3. /\ \A d \in Calls : Queued(queue, pumping, tasks, d) => Queued(queue', pumping', tasks', d)
        /\ HasCallback(c) => Queued(queue', pumping', tasks', c)
    <3>1. CASE UNCHANGED <<queue, tasks>> /\ ~HasCallback(c)
      BY <2>1, <3>1, Zenon DEF Queued
    <3>2. CASE queue' = Append(queue, c) /\ tasks' = tasks
      <4>1. \A x : InSeq(x, queue') <=> InSeq(x, queue) \/ x = c
        BY <2>2, <3>2, AppendIn, Zenon
      <4> QED BY <2>1, <3>2, <4>1, Zenon DEF Queued
    <3>3. ASSUME NEW w \in Workers, tasks' = [tasks EXCEPT ![w] = Append(@, c)],
                 queue' = queue
          PROVE  <2>3!1 /\ <2>3!2
      <4>1. /\ tasks'[w] = Append(tasks[w], c) /\ tasks[w] \in Seq(Calls)
            /\ \A v \in Workers : v # w => tasks'[v] = tasks[v]
        BY <2>2, <3>3
      <4>2. \A x : InSeq(x, Append(tasks[w], c)) <=> InSeq(x, tasks[w]) \/ x = c
        BY <4>1, AppendIn, Zenon
      <4>3. /\ \A v \in Workers : \A x : InSeq(x, tasks[v]) => InSeq(x, tasks'[v])
            /\ InSeq(c, tasks'[w])
        BY <4>1, <4>2, Zenon
      <4> QED BY <2>1, <3>3, <4>3, Zenon DEF Queued
    <3> QED BY <1>4, <2>p, <3>1, <3>2, <3>3, Zenon DEF OnResult
  <2> SUFFICES ASSUME NEW d \in early', errorNo'[d] \in Done PROVE Has(d)'
    BY <1>c
  <2>4. d \in early /\ d \in Calls /\ Has(d) /\ HasCallback(d)
    BY <1>a, <1>b, <2>1
  <2>5. CASE d = c
    BY <2>3, <2>4, <2>5, Zenon
  <2>6. CASE d # c
    BY <2>p, <2>1, <2>3, <2>4, <2>6, Zenon DEF InIo
  <2> QED BY <2>5, <2>6
<1>5. CASE PumpMessage
  <2>1. /\ pumping = <<>> /\ pumping' = queue /\ queue' = <<>>
        /\ UNCHANGED <<tasks, called, early, errorNo, io>>
    BY <1>5, Zenon DEF PumpMessage, QueueCleared, Free
  <2> SUFFICES ASSUME NEW d \in early', errorNo'[d] \in Done PROVE Has(d)'
    BY <1>c
  <2>2. Has(d)
    BY <1>b, <2>1
  <2> QED BY <2>1, <2>2, EmptyIn, Zenon DEF InIo, Queued
<1>6. ASSUME NEW c \in Calls, NEW t \in Threads, RunCallback(c, t),
             UNCHANGED <<early, errorNo, io>>,
             \A d \in Calls : d # c /\ Queued(queue, pumping, tasks, d)
               => Queued(queue', pumping', tasks', d)
      PROVE  EarlyThenKept'
  <2>1. PICK which : called' = [called EXCEPT ![c] = Append(@, <<t, which>>)]
    BY <1>6, RunType
  <2>2. called'[c] # <<>> /\ \A d \in Calls : d # c => called'[d] = called[d]
    <3>1. called[c] \in Seq(Threads \X {"result", "exception", "nothing"})
          /\ DOMAIN called = Calls
      BY DEF QueuesOK
    <3>2. called'[c] = Append(called[c], <<t, which>>)
      BY <2>1, <3>1
    <3>3. Len(called'[c]) = Len(called[c]) + 1 /\ Len(called[c]) \in Nat
      BY <3>1, <3>2
    <3>4. called'[c] # <<>>
      BY <3>3
    <3> QED BY <2>1, <3>1, <3>4
  <2> SUFFICES ASSUME NEW d \in early', errorNo'[d] \in Done PROVE Has(d)'
    BY <1>c
  <2>3. d \in early /\ d \in Calls /\ Has(d)
    BY <1>a, <1>b, <1>6
  <2>4. CASE d = c
    BY <2>2, <2>4, Zenon
  <2>5. CASE d # c
    BY <1>6, <2>2, <2>3, <2>5, Zenon DEF InIo
  <2> QED BY <2>4, <2>5
<1>7. CASE PumpCallback
  <2>0. pumping # <<>> /\ pumping \in Seq(Calls)
    BY <1>7 DEF PumpCallback, QueuesOK
  <2>p. PICK c \in Calls : c = Head(pumping)
    BY <2>0, HeadType
  <2>1. /\ pumping' = Tail(pumping) /\ RunCallback(c, "app")
        /\ UNCHANGED <<queue, tasks, early, errorNo, io>>
    BY <1>7, <2>p, Zenon DEF PumpCallback
  <2>2. \A x : InSeq(x, pumping) <=> x = c \/ InSeq(x, Tail(pumping))
    BY <2>0, <2>p, TailIn, Zenon DEF PlaceInv, NoRepeats
  <2>3. \A d \in Calls : d # c /\ Queued(queue, pumping, tasks, d)
          => Queued(queue', pumping', tasks', d)
    BY <2>1, <2>2, Zenon DEF Queued
  <2>4. "app" \in Threads
    BY DEF Threads
  <2> QED BY <1>6, <2>1, <2>3, <2>4, Zenon
<1>8. ASSUME NEW w \in Workers, OnIdle(w) PROVE EarlyThenKept'
  <2>0. tasks[w] # <<>> /\ tasks[w] \in Seq(Calls) /\ tasks \in [Workers -> Seq(Calls)]
    BY <1>8 DEF OnIdle, QueuesOK
  <2>p. PICK c \in Calls : c = Head(tasks[w])
    BY <2>0, HeadType
  <2>1. /\ tasks'[w] = Tail(tasks[w])
        /\ \A v \in Workers : v # w => tasks'[v] = tasks[v]
    BY <1>8, <2>0 DEF OnIdle
  <2>2. RunCallback(c, w) /\ UNCHANGED <<queue, pumping, early, errorNo, io>>
    BY <1>8, <2>p, Zenon DEF OnIdle
  <2>3. \A x : InSeq(x, tasks[w]) <=> x = c \/ InSeq(x, Tail(tasks[w]))
    BY <2>0, <2>p, TailIn, Zenon DEF PlaceInv, NoRepeats
  <2>4. \A d \in Calls : d # c /\ Queued(queue, pumping, tasks, d)
          => Queued(queue', pumping', tasks', d)
    BY <2>1, <2>2, <2>3, Zenon DEF Queued
  <2>5. w \in Threads
    BY DEF Threads
  <2> QED BY <1>6, <2>2, <2>4, <2>5, Zenon
<1>9. CASE \/ \E c \in Calls : Call(c) \/ ThenResult(c) \/ ThenException(c)
           \/ \E c \in Calls : WaitReady(c) \/ WaitFuture(c) \/ WaitReturns(c)
           \/ \E c \in Calls, where \in {"this", "any"} : ThenThread(c, where)
           \/ UNCHANGED vars
  BY <1>1, <1>9, Zenon DEF Call, ThenResult, ThenException, WaitReady, WaitFuture,
     WaitReturns, ThenThread, vars
<1> QED BY <1>2, <1>3, <1>4, <1>5, <1>7, <1>8, <1>9, Zenon DEF Next, App, IoThread,
       Completion

LEMMA EarlyIsInvariant == Spec => [](EarlyThenKept /\ HistoryOK /\ ThreadInv)
<1>1. FieldsOK /\ FieldsInv /\ QueuesOK /\ HistoryOK /\ PlaceInv /\ EarlyInv
        /\ EarlyThenKept /\ ThreadInv /\ [Next]_vars
      => (QueuesOK /\ HistoryOK /\ PlaceInv /\ EarlyInv /\ EarlyThenKept /\ ThreadInv)'
  BY StepQueuesOK, StepHistoryOK, StepPlace, StepEarly, StepKept, StepThread
<1>2. Init => QueuesOK /\ HistoryOK /\ PlaceInv /\ EarlyInv /\ EarlyThenKept /\ ThreadInv
  BY InitTypes, InitPlace, InitEarly, InitThread
<1> QED BY <1>1, <1>2, FieldsCorrect, PTL DEF Spec

\* A callback registered before the completion of its result begins, which is
\* not that of a time-out, is not lost on its way between the threads ...
THEOREM EarlyThenCorrect == Spec => []EarlyThenKept
BY EarlyIsInvariant, PTL

\* ... and is run by the thread it was asked to run on.
THEOREM EarlyThreadCorrect == Spec => []EarlyThenThread
<1>1. ThreadInv => EarlyThenThread
  BY Zenon DEF ThreadInv, RightThread, EarlyThenThread
<1> QED BY <1>1, EarlyIsInvariant, PTL

=============================================================================
