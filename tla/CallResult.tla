----------------------------- MODULE CallResult -----------------------------
(***************************************************************************)
(* The result of a call (TRpcCallResult) between the application thread    *)
(* that made the call, which waits for it or registers callbacks and pumps *)
(* messages, the I/O thread that completes it, and the client workers that *)
(* run the callbacks asked to run on any thread.                           *)
(*                                                                         *)
(* No lock protects a result: a step is one access of one of its fields    *)
(* that another thread can see.  EndPoint decides which results are        *)
(* completed and how; here any call may be completed in any way, once, as  *)
(* EndPoint takes each one out of its table once.  The application calls   *)
(* Then or Wait on a result, not both, and Wait as often as it likes.      *)
(***************************************************************************)
EXTENDS Integers, Sequences, FiniteSets

CONSTANTS
  Calls,     \* the results of method calls
  Workers    \* the threads of ClientWorkerPool, at least one

ASSUME CallsAssumption == IsFiniteSet(Calls)

ASSUME WorkersAssumption == Workers # {} /\ "app" \notin Workers

Errors   == {"fault", "timeout", "final_fail"}      \* m_errorNo > 0
Endings  == {"ok"} \cup Errors
Threads  == Workers \cup {"app"}
Nobody   == [step |-> "idle"]

VARIABLES
  (* the fields of each result *)
  errorNo,     \* m_errorNo: "unknown" (-1), "ok" (0) or one of Errors
  promise,     \* m_promise: "empty", "value", "exception"
  threadId,    \* m_callThreadId: "none" or "app"
  resultCb,    \* the results whose m_resultCallback is set
  exceptionCb, \* those whose m_exceptionCallback is set
  (* the application thread *)
  pc,          \* of each call: what its thread is doing with the result
  asked,       \* the thread Then was asked for: "none", "this", "any"
  retrieved,   \* the results whose get_future has been called
  got,         \* what Wait gave last
  pumping,     \* cloneSet of PumpMessage, what is left of it
  (* the I/O thread *)
  pending,     \* the calls that EndPoint has not completed
  io,          \* the completion under way
  (* the queues of callbacks to run *)
  queue,       \* m_specThreadResult of the application thread
  tasks,       \* m_taskList of each worker
  (* history *)
  called,      \* the callbacks run for each result: by whom, which
  early        \* results on which Then had ended before the completion began

resultVars == <<errorNo, promise, threadId, resultCb, exceptionCb>>
appVars    == <<pc, asked, retrieved, got>>
vars == <<resultVars, appVars, pumping, pending, io, queue, tasks, called, early>>

Init ==
  /\ errorNo = [c \in Calls |-> "unknown"]
  /\ promise = [c \in Calls |-> "empty"]
  /\ threadId = [c \in Calls |-> "none"]
  /\ resultCb = {} /\ exceptionCb = {}
  /\ pc = [c \in Calls |-> "idle"]
  /\ asked = [c \in Calls |-> "none"]
  /\ retrieved = {} /\ got = [c \in Calls |-> "nothing"]
  /\ pumping = <<>> /\ pending = {} /\ io = Nobody
  /\ queue = <<>> /\ tasks = [w \in Workers |-> <<>>]
  /\ called = [c \in Calls |-> <<>>] /\ early = {}

-----------------------------------------------------------------------------
(* The application thread.                                                 *)

\* It is neither inside Then or Wait, nor running callbacks.
Free == pumping = <<>> /\ \A c \in Calls : pc[c] \in {"idle", "made", "then", "waited"}

Call(c) ==
  /\ Free /\ pc[c] = "idle"
  /\ pc' = [pc EXCEPT ![c] = "made"]
  /\ pending' = pending \cup {c}
  /\ UNCHANGED <<resultVars, asked, retrieved, got, pumping, io, queue, tasks,
                 called, early>>

\* CallResultWrapper::Then begins: this_thread_t records the thread.
ThenThread(c, where) ==
  /\ Free /\ pc[c] = "made"
  /\ pc' = [pc EXCEPT ![c] = "result"]
  /\ asked' = [asked EXCEPT ![c] = where]
  /\ threadId' = [threadId EXCEPT ![c] = IF where = "this" THEN "app" ELSE @]
  /\ UNCHANGED <<errorNo, promise, resultCb, exceptionCb, retrieved, got,
                 pumping, pending, io, queue, tasks, called, early>>

\* Then with one callback ends here, with two it goes on.
ThenResult(c) ==
  /\ pc[c] = "result"
  /\ resultCb' = resultCb \cup {c}
  /\ \E next \in {"then", "exception"} : pc' = [pc EXCEPT ![c] = next]
  /\ UNCHANGED <<errorNo, promise, threadId, exceptionCb, asked, retrieved, got,
                 pumping, pending, io, queue, tasks, called, early>>

ThenException(c) ==
  /\ pc[c] = "exception"
  /\ exceptionCb' = exceptionCb \cup {c}
  /\ pc' = [pc EXCEPT ![c] = "then"]
  /\ UNCHANGED <<errorNo, promise, threadId, resultCb, asked, retrieved, got,
                 pumping, pending, io, queue, tasks, called, early>>

\* Wait looks at m_errorNo first.
Completed(c) == errorNo[c] # "unknown"

\* Mutant: an error is taken for a value.
HasNumber(c) == errorNo[c] # "unknown"

HasValue(c) == errorNo[c] = "ok"

\* A complete result is returned at once; the exception made for an error is
\* not thrown, and the default value is returned.
WaitReady(c) ==
  /\ Free /\ pc[c] \in {"made", "waited"} /\ Completed(c)
  /\ got' = [got EXCEPT ![c] = IF HasValue(c) THEN "value" ELSE "default"]
  /\ pc' = [pc EXCEPT ![c] = "waited"]
  /\ UNCHANGED <<resultVars, asked, retrieved, pumping, pending, io, queue,
                 tasks, called, early>>

\* Else Wait blocks on the future, which can be retrieved only once.
WaitFuture(c) ==
  /\ Free /\ pc[c] \in {"made", "waited"} /\ ~Completed(c)
  /\ retrieved' = retrieved \cup {c}
  /\ IF c \in retrieved
     THEN pc' = [pc EXCEPT ![c] = "waited"] /\ got' = [got EXCEPT ![c] = "future_error"]
     ELSE pc' = [pc EXCEPT ![c] = "waiting"] /\ UNCHANGED got
  /\ UNCHANGED <<resultVars, asked, pumping, pending, io, queue, tasks, called,
                 early>>

WaitReturns(c) ==
  /\ pc[c] = "waiting" /\ promise[c] # "empty"
  /\ pc' = [pc EXCEPT ![c] = "waited"]
  /\ got' = [got EXCEPT ![c] = promise[c]]
  /\ UNCHANGED <<resultVars, asked, retrieved, pumping, pending, io, queue,
                 tasks, called, early>>

\* Mutant: the list is copied and not cleared.
QueueKept == queue

QueueCleared == <<>>

\* PumpMessage takes the whole list of its thread under m_resultMutex ...
PumpMessage ==
  /\ Free
  /\ pumping' = queue
  /\ queue' = QueueCleared
  /\ UNCHANGED <<resultVars, appVars, pending, io, tasks, called, early>>

\* RunCallback: the one for the way the result was completed, if it is set.
RunCallback(c, thread) ==
  called' = [called EXCEPT ![c] = Append(@, <<thread,
              CASE errorNo[c] = "ok" /\ c \in resultCb        -> "result"
                [] errorNo[c] \in Errors /\ c \in exceptionCb -> "exception"
                [] OTHER                                      -> "nothing">>)]

\* ... and runs the callbacks.
PumpCallback ==
  /\ pumping # <<>>
  /\ RunCallback(Head(pumping), "app")
  /\ pumping' = Tail(pumping)
  /\ UNCHANGED <<resultVars, appVars, pending, io, queue, tasks, early>>

-----------------------------------------------------------------------------
(* The I/O thread.  io.step is the field that is touched next.             *)

At(step) == io.step = step

\* EndPoint takes the result out of its table: OnCallResult, CheckCallTimeout
\* or OnFinalFailed.  CheckCallTimeout calls IsTimeouted, which completes the
\* result itself, and completes it again.
Take(c, ending) ==
  /\ At("idle") /\ c \in pending
  /\ pending' = pending \ {c}
  /\ io' = [step |-> "errorNo", call |-> c, ending |-> ending,
            inner |-> ending = "timeout", id |-> "none"]
  /\ early' = IF pc[c] = "then" THEN early \cup {c} ELSE early
  /\ UNCHANGED <<resultVars, appVars, pumping, queue, tasks, called>>

\* Mutant: a complete result is completed again.
NeverRefused == FALSE

\* SetResult and SetException return false on a complete result, and the
\* caller goes no further.
Refused == errorNo[io.call] # "unknown"

\* They store m_errorNo (and m_value) first, ...
StoreErrorNo ==
  /\ At("errorNo")
  /\ IF Refused
     THEN io' = Nobody /\ UNCHANGED errorNo
     ELSE /\ errorNo' = [errorNo EXCEPT ![io.call] = io.ending]
          /\ io' = [io EXCEPT !.step = "promise"]
  /\ UNCHANGED <<promise, threadId, resultCb, exceptionCb, appVars, pumping,
                 pending, queue, tasks, called, early>>

\* Mutant: an exception is not set.
PromisedValue == IF io.ending = "ok" THEN "value" ELSE "empty"

Promised == IF io.ending = "ok" THEN "value" ELSE "exception"

\* ... and set the promise next.
SetPromise ==
  /\ At("promise")
  /\ promise' = [promise EXCEPT ![io.call] = Promised]
  /\ io' = IF io.inner THEN [io EXCEPT !.step = "errorNo", !.inner = FALSE]
                       ELSE [io EXCEPT !.step = "threadId"]
  /\ UNCHANGED <<errorNo, threadId, resultCb, exceptionCb, appVars, pumping,
                 pending, queue, tasks, called, early>>

\* GetRunThreadId is evaluated before OnResult is entered.
ReadThreadId ==
  /\ At("threadId")
  /\ io' = [io EXCEPT !.step = "queue", !.id = threadId[io.call]]
  /\ UNCHANGED <<resultVars, appVars, pumping, pending, queue, tasks, called,
                 early>>

\* Mutant: only a result with both callbacks has one.
HasBothCallbacks(c) == c \in resultCb \cap exceptionCb

HasCallback(c) == c \in resultCb \cup exceptionCb

\* Mutant: every callback goes to the workers.
ToWorkers == TRUE

\* CallerManager::OnResult sends the callback to the thread that was read, or
\* to the workers if there is none.
NoThread == io.id = "none"

\* OnResult; the worker depends on the address of the result.
OnResult ==
  /\ At("queue")
  /\ io' = Nobody
  /\ IF ~HasCallback(io.call) THEN UNCHANGED <<queue, tasks>>
     ELSE IF NoThread
     THEN /\ \E w \in Workers : tasks' = [tasks EXCEPT ![w] = Append(@, io.call)]
          /\ UNCHANGED queue
     ELSE queue' = Append(queue, io.call) /\ UNCHANGED tasks
  /\ UNCHANGED <<resultVars, appVars, pumping, pending, called, early>>

-----------------------------------------------------------------------------
(* The client workers.                                                     *)

\* ClientWorker::_OnIdle.  Only the worker takes from its list, so that taking
\* all of it first makes no difference.
OnIdle(w) ==
  /\ tasks[w] # <<>>
  /\ RunCallback(Head(tasks[w]), w)
  /\ tasks' = [tasks EXCEPT ![w] = Tail(@)]
  /\ UNCHANGED <<resultVars, appVars, pumping, pending, io, queue, early>>

-----------------------------------------------------------------------------
App == \/ PumpMessage \/ PumpCallback
       \/ \E c \in Calls :
            \/ Call(c) \/ \E where \in {"this", "any"} : ThenThread(c, where)
            \/ ThenResult(c) \/ ThenException(c)
            \/ WaitReady(c) \/ WaitFuture(c) \/ WaitReturns(c)

Completion == StoreErrorNo \/ SetPromise \/ ReadThreadId \/ OnResult

IoThread == Completion \/ \E c \in Calls, e \in Endings : Take(c, e)

Next == App \/ IoThread \/ \E w \in Workers : OnIdle(w)

Spec == Init /\ [][Next]_vars

\* Every call is completed (EndPoint's EveryCallSettles), a thread inside Then
\* or Wait goes on, the application's loop pumps, and the workers run.
Fairness ==
  /\ \A c \in Calls :
       /\ WF_vars(ThenResult(c)) /\ WF_vars(ThenException(c))
       /\ WF_vars(WaitReturns(c))
       /\ SF_vars(\E e \in Endings : Take(c, e))
  /\ WF_vars(PumpMessage) /\ WF_vars(PumpCallback)
  /\ WF_vars(Completion)
  /\ \A w \in Workers : WF_vars(OnIdle(w))

FairSpec == Spec /\ Fairness

-----------------------------------------------------------------------------
(* Properties.                                                             *)

\* Where the callback of a result may be waiting to run.
InSeq(c, s) == \E i \in DOMAIN s : s[i] = c

Scheduled(c) ==
  \/ io # Nobody /\ io.call = c
  \/ InSeq(c, queue) \/ InSeq(c, pumping)
  \/ \E w \in Workers : InSeq(c, tasks[w])

\* The fields of the results and the queues keep their types.
TypeOK ==
  /\ errorNo \in [Calls -> Endings \cup {"unknown"}]
  /\ promise \in [Calls -> {"empty", "value", "exception"}]
  /\ threadId \in [Calls -> {"none", "app"}]
  /\ resultCb \subseteq Calls /\ exceptionCb \subseteq Calls
  /\ pc \in [Calls -> {"idle", "made", "result", "exception", "then", "waiting",
                       "waited"}]
  /\ asked \in [Calls -> {"none", "this", "any"}]
  /\ retrieved \subseteq Calls
  /\ got \in [Calls -> {"nothing", "value", "exception", "default",
                        "future_error"}]
  /\ pumping \in Seq(Calls) /\ pending \subseteq Calls
  /\ io \in {Nobody} \cup
            [step : {"errorNo", "promise", "threadId", "queue"}, call : Calls,
             ending : Endings, inner : BOOLEAN, id : {"none", "app"}]
  /\ queue \in Seq(Calls) /\ tasks \in [Workers -> Seq(Calls)]
  /\ called \in [Calls -> Seq(Threads \X {"result", "exception", "nothing"})]
  /\ early \subseteq Calls

\* A callback runs at most once, and not again once it is queued or has run.
RunsOnce ==
  \A c \in Calls : Len(called[c]) <= 1 /\ (called[c] # <<>> => ~Scheduled(c))

\* A promise is set only once: std::promise throws on the second time, on the
\* I/O thread, which catches nothing.
PromiseOnce == At("promise") => promise[io.call] = "empty"

\* What Wait gives agrees with the way the call ended, and waiting again never
\* retrieves the future a second time.
WaitAgrees ==
  \A c \in Calls :
    /\ got[c] = "value" => errorNo[c] = "ok"
    /\ got[c] \in {"exception", "default"} => errorNo[c] \in Errors
    /\ got[c] # "future_error"

\* No release is lost, though the error number is stored before the promise and
\* a time-out completes its result twice, the second time in vain: while a
\* thread is blocked in Wait, its promise is set, or the I/O thread is about to
\* set it, or the call waits to be completed.
ReleaseIsDue ==
  \A c \in Calls : pc[c] = "waiting" =>
    \/ promise[c] # "empty"
    \/ c \in pending
    \/ io # Nobody /\ io.call = c /\ io.step \in {"errorNo", "promise"}

\* A callback registered before its result is completed, other than by a
\* time-out, is never lost between the two threads: it is on its way or has
\* run ...
EarlyThenKept ==
  \A c \in early : errorNo[c] \in Endings \ {"timeout"} =>
    Scheduled(c) \/ called[c] # <<>>

\* ... and runs on the thread it was asked to run on.
EarlyThenThread ==
  \A c \in early : \A i \in DOMAIN called[c] :
    (called[c][i][1] = "app") <=> (asked[c] = "this")

\* A callback registered before its result is completed, other than by a
\* time-out, runs in the end.
EarlyThenRuns ==
  \A c \in Calls :
    c \in early /\ errorNo[c] \in Endings \ {"timeout"} ~> called[c] # <<>>

\* A thread blocked in Wait is released.
WaitEnds == \A c \in Calls : pc[c] = "waiting" ~> pc[c] = "waited"

(* What the repository says of results, and the code does not do.          *)

\* Then registers a function that is called when the RPC returns its result.
ThenIsCalled ==
  \A c \in Calls : pc[c] = "then" /\ errorNo[c] = "ok" =>
    Scheduled(c) \/ called[c] # <<>>

=============================================================================
