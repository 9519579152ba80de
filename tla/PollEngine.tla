------------------------------ MODULE PollEngine ------------------------------
(***************************************************************************)
(* PollEngineImpl: a chain of tasks, each of which calls the user's        *)
(* callback and dispatches the next one, kept going by m_running and taken *)
(* off the queue through m_poll_request_id, the id of the latest of them.  *)
(* Both members are atomic and no lock holds them together: start, stop    *)
(* and the two halves of a poll interleave.                                *)
(*                                                                         *)
(* The pool is the abstract one of TaskService. A queued poll task is the  *)
(* pair of its request id and the thread that has dispatched it: a thread  *)
(* stores a new id before it dispatches again, so that no two are the same *)
(* pair. The interval is a delay of any length.                            *)
(***************************************************************************)
EXTENDS Naturals, FiniteSets

CONSTANTS Owner,      \* the thread that owns the engine
          Workers,    \* threads of the engine's pool
          MaxId,      \* bound: request ids in use at a time
          MaxStarts   \* bound: calls of start

ASSUME PollEngineAssumption ==
  /\ Owner \notin Workers
  /\ IsFiniteSet(Workers)
  /\ MaxId \in Nat /\ MaxStarts \in Nat

Threads == Workers \cup {Owner}
Ids == 1..MaxId
Polls == Ids \X Threads

\* Callbacks after stop are counted up to one more than there should be.
AtMost(n) == IF n > Cardinality(Workers) THEN Cardinality(Workers) + 1 ELSE n

NoId == 0   \* m_poll_request_id before the first poll

VARIABLES
  m_running,
  m_poll_request_id,
  pending,  \* the poll tasks in the pool's queue
  open,     \* the pool takes tasks
  pc,       \* per thread: the next step of its call or of its poll task
  nested,   \* per thread: its call of start or stop was made by the callback
  loaded,   \* per thread: the request id it has read
  starts,   \* calls of start so far
  late,     \* history: callbacks called since m_running was last set to false
  doubled,  \* history: the last start found an earlier chain alive
  raced,    \* history: since the last start, a stop and a start overlapped
  failed    \* history: since the last start, a chain ended with an exception

engineVars == <<m_running, m_poll_request_id>>
threadVars == <<pc, nested, loaded>>
historyVars == <<starts, late, doubled, raced, failed>>
vars == <<engineVars, pending, open, threadVars, historyVars>>

Init ==
  /\ m_running = FALSE
  /\ m_poll_request_id = NoId
  /\ pending = {}
  /\ open = TRUE
  /\ pc = [t \in Threads |-> "idle"]
  /\ nested = [t \in Threads |-> FALSE]
  /\ loaded = [t \in Threads |-> NoId]
  /\ starts = 0 /\ late = 0
  /\ doubled = FALSE /\ raced = FALSE /\ failed = FALSE

InRun(t) == pc[t] \in {"store", "load", "dispatch"}
InStop(t) == pc[t] \in {"stop_load", "stop_cancel"}
InPoll(w) == pc[w] # "idle"

\* A chain is a queued poll, a poll a worker carries out, or a start on its way
\* to the first poll.
Chains ==
  Cardinality(pending)
    + Cardinality({w \in Workers : InPoll(w)})
    + Cardinality({t \in Threads : InRun(t) /\ (t = Owner \/ nested[t])})

\* Where a thread goes on when start, stop or a poll returns or throws.
Back(t) == IF nested[t] THEN "callback" ELSE "idle"

Goto(t, label) == pc' = [pc EXCEPT ![t] = label]

Returns(t) ==
  /\ pc' = [pc EXCEPT ![t] = Back(t)]
  /\ nested' = [nested EXCEPT ![t] = FALSE]
  /\ loaded' = [loaded EXCEPT ![t] = NoId]

-----------------------------------------------------------------------------
(* start and stop: calls of the owner, or of the callback.                 *)

MayCall(t) == pc[t] = IF t = Owner THEN "idle" ELSE "callback"

Calls(t, label) ==
  /\ MayCall(t)
  /\ Goto(t, label)
  /\ nested' = [nested EXCEPT ![t] = t # Owner]

\* Mutant: an engine that is running is not started again.
StartUnlessRunning(t) ==
  /\ starts < MaxStarts
  /\ IF m_running THEN MayCall(t) /\ UNCHANGED threadVars ELSE Calls(t, "store")
  /\ m_running' = TRUE
  /\ starts' = starts + 1
  /\ late' = 0
  /\ doubled' = (Chains > 0)
  /\ raced' = (\E u \in Threads : InStop(u))
  /\ failed' = FALSE
  /\ UNCHANGED <<m_poll_request_id, pending, open, loaded>>

Start(t) ==
  /\ starts < MaxStarts
  /\ Calls(t, "store")
  /\ m_running' = TRUE
  /\ starts' = starts + 1
  /\ late' = 0
  /\ doubled' = (Chains > 0)
  /\ raced' = (\E u \in Threads : InStop(u))
  /\ failed' = FALSE
  /\ UNCHANGED <<m_poll_request_id, pending, open, loaded>>

\* A start on another thread may not have dispatched its first poll yet.
Stop(t) ==
  /\ Calls(t, "stop_load")
  /\ m_running' = FALSE
  /\ late' = IF m_running THEN 0 ELSE late
  /\ raced' = (raced \/ \E u \in Threads : InRun(u) /\ (u = Owner \/ nested[u]))
  /\ UNCHANGED <<m_poll_request_id, pending, open, loaded, starts, doubled, failed>>

StopLoads(t) ==
  /\ pc[t] = "stop_load"
  /\ loaded' = [loaded EXCEPT ![t] = m_poll_request_id]
  /\ Goto(t, "stop_cancel")
  /\ UNCHANGED <<engineVars, pending, open, nested, historyVars>>

\* cancel_pending( thread_pool_name, request_id )
StopCancels(t) ==
  /\ pc[t] = "stop_cancel"
  /\ pending' = {p \in pending : p[1] # loaded[t]}
  /\ Returns(t)
  /\ UNCHANGED <<engineVars, open, historyVars>>

-----------------------------------------------------------------------------
(* run_impl                                                                *)

\* create_request_id( ): an id nothing refers to. Ids that are forgotten are
\* used again here, which the code never does, to keep them few.
FreshIds ==
  {id \in Ids : /\ \A p \in pending : p[1] # id
                /\ id # m_poll_request_id
                /\ \A t \in Threads : loaded[t] # id}
FreshId == CHOOSE id \in FreshIds : TRUE

\* Mutant: no request id is created.
StoreIdNever(t) ==
  /\ pc[t] = "store"
  /\ Goto(t, "load")
  /\ UNCHANGED <<engineVars, pending, open, nested, loaded, historyVars>>

StoreId(t) ==
  /\ pc[t] = "store" /\ FreshIds # {}
  /\ m_poll_request_id' = FreshId
  /\ Goto(t, "load")
  /\ UNCHANGED <<m_running, pending, open, nested, loaded, historyVars>>

\* Mutant: create_request_id( ) is called again for the dispatch.
LoadAnotherId(t) ==
  /\ pc[t] = "load" /\ FreshIds # {}
  /\ loaded' = [loaded EXCEPT ![t] = FreshId]
  /\ Goto(t, "dispatch")
  /\ UNCHANGED <<engineVars, pending, open, nested, historyVars>>

LoadId(t) ==
  /\ pc[t] = "load"
  /\ loaded' = [loaded EXCEPT ![t] = m_poll_request_id]
  /\ Goto(t, "dispatch")
  /\ UNCHANGED <<engineVars, pending, open, nested, historyVars>>

Dispatch(t) ==
  /\ pc[t] = "dispatch" /\ open
  /\ pending' = pending \cup {<<loaded[t], t>>}
  /\ Returns(t)
  /\ UNCHANGED <<engineVars, open, historyVars>>

\* dispatch throws, out of start or out of the poll task.
DispatchThrows(t) ==
  /\ pc[t] = "dispatch" /\ ~open
  /\ failed' = TRUE
  /\ Returns(t)
  /\ UNCHANGED <<engineVars, pending, open, starts, late, doubled, raced>>

-----------------------------------------------------------------------------
(* poll_impl on a worker                                                   *)

\* Its assertion holds: the pool had started when the engine did, see
\* RecognisedOnceStarted of TaskDispatcher.
Take(w) ==
  /\ pc[w] = "idle"
  /\ \E p \in pending : pending' = pending \ {p}
  /\ Goto(w, "test")
  /\ UNCHANGED <<engineVars, open, nested, loaded, historyVars>>

\* Mutant: the flag is not tested.
TestRunningNever(w) ==
  /\ pc[w] = "test"
  /\ Goto(w, "call")
  /\ UNCHANGED <<engineVars, pending, open, nested, loaded, historyVars>>

TestRunning(w) ==
  /\ pc[w] = "test"
  /\ Goto(w, IF m_running THEN "call" ELSE "idle")
  /\ UNCHANGED <<engineVars, pending, open, nested, loaded, historyVars>>

\* Mutant: the next poll is dispatched before the callback, and after it.
BeginCallbackAndDispatch(w) ==
  /\ pc[w] = "call"
  /\ Goto(w, "callback")
  /\ late' = IF m_running THEN late ELSE AtMost(late + 1)
  /\ pending' = pending \cup {<<m_poll_request_id, w>>}
  /\ UNCHANGED <<engineVars, open, nested, loaded, starts, doubled, raced, failed>>

BeginCallback(w) ==
  /\ pc[w] = "call"
  /\ Goto(w, "callback")
  /\ late' = IF m_running THEN late ELSE AtMost(late + 1)
  /\ UNCHANGED <<engineVars, pending, open, nested, loaded, starts, doubled, raced, failed>>

\* Mutant: the next poll is left to somebody else.
EndCallbackWithoutRun(w) ==
  /\ pc[w] = "callback" /\ ~nested[w]
  /\ Goto(w, "idle")
  /\ UNCHANGED <<engineVars, pending, open, nested, loaded, historyVars>>

EndCallback(w) ==
  /\ pc[w] = "callback" /\ ~nested[w]
  /\ Goto(w, "store")
  /\ UNCHANGED <<engineVars, pending, open, nested, loaded, historyVars>>

\* The pool logs what the task throws and goes on; m_running stays.
CallbackThrows(w) ==
  /\ pc[w] = "callback" /\ ~nested[w]
  /\ failed' = TRUE
  /\ Goto(w, "idle")
  /\ UNCHANGED <<engineVars, pending, open, nested, loaded, starts, late, doubled, raced>>

-----------------------------------------------------------------------------
\* The pool is stopped while the engine still polls.
ClosePool ==
  /\ open
  /\ open' = FALSE
  /\ UNCHANGED <<engineVars, pending, threadVars, historyVars>>

Call(t) ==
  \/ StopLoads(t) \/ StopCancels(t)
  \/ StoreId(t) \/ LoadId(t) \/ Dispatch(t) \/ DispatchThrows(t)
Poll(w) == Take(w) \/ TestRunning(w) \/ BeginCallback(w) \/ EndCallback(w) \/ CallbackThrows(w)

Next ==
  \/ \E t \in Threads : Start(t) \/ Stop(t) \/ Call(t)
  \/ \E w \in Workers : Poll(w)
  \/ ClosePool

Spec == Init /\ [][Next]_vars

\* Calls go on, the workers take queued polls when their interval is over and
\* carry them out, and a callback comes to an end, although it may call start
\* or stop first, again and again.
Fairness ==
  /\ \A t \in Threads : WF_vars(Call(t))
  /\ \A w \in Workers :
       /\ WF_vars(Take(w)) /\ WF_vars(TestRunning(w) \/ BeginCallback(w))
       /\ SF_vars(EndCallback(w) \/ CallbackThrows(w))

FairSpec == Spec /\ Fairness

-----------------------------------------------------------------------------
TypeOK ==
  /\ m_running \in BOOLEAN
  /\ m_poll_request_id \in Ids \cup {NoId}
  /\ pending \subseteq Polls
  /\ open \in BOOLEAN
  /\ pc \in [Threads -> {"idle", "store", "load", "dispatch", "stop_load", "stop_cancel",
                         "test", "call", "callback"}]
  /\ nested \in [Threads -> BOOLEAN]
  /\ loaded \in [Threads -> Ids \cup {NoId}]
  /\ starts \in 0..MaxStarts /\ late \in 0..Cardinality(Workers) + 1
  /\ doubled \in BOOLEAN /\ raced \in BOOLEAN /\ failed \in BOOLEAN

\* A start that finds no chain alive makes one, and it stays one: polls do not
\* multiply, and no two callbacks of it run at a time, whatever stop, a failure
\* or the callback itself does in between.
OneChainPerStart == Chains <= starts /\ (~doubled => Chains <= 1)

\* Whenever no thread is within run_impl, a stop finds the queued poll of a
\* single chain under m_poll_request_id: nothing that refers to the engine is
\* left in the queue when it returns.
QueuedPollIsCancellable ==
  ~doubled /\ (\A t \in Threads : ~InRun(t)) =>
    \A p \in pending : p[1] = m_poll_request_id

\* After stop has set m_running, a callback is called at most by the polls that
\* were past their test: once, by each worker.
FewCallbacksAfterStop == late <= Cardinality(Workers) /\ late <= starts

\* An engine that was started runs a chain until it is stopped, unless an
\* exception ended it or a stop and a start overlapped.
RunningMeansPolling == m_running /\ ~failed /\ ~raced => Chains > 0

\* An engine that is not stopped polls again and again.
PollsGoOn ==
  <>[](m_running /\ ~failed /\ ~raced) => []<>(\E w \in Workers : pc[w] = "callback")
=============================================================================
