---------------------------- MODULE TaskDispatcher ----------------------------
(***************************************************************************)
(* TaskDispatcherImpl: named thread pools that are started and stopped one *)
(* after another, in the iteration order of m_thread_pools, while clients  *)
(* and tasks of any pool dispatch to and cancel in any other.              *)
(*                                                                         *)
(* A pool is abstracted as TaskService abstracts it: its queue is a set,   *)
(* in no order and without a clock. Its threads are kept, because          *)
(* on_one_of_threads asks for them, stop joins them, and a task may call   *)
(* stop on one of them.                                                    *)
(*                                                                         *)
(* The destructor frees the pools, and the nodes of the map they are in,   *)
(* one after another. A task that calls the dispatcher meanwhile searches  *)
(* that map: what happens then is undefined, and the behaviour ends there. *)
(***************************************************************************)
EXTENDS Naturals, Sequences, FiniteSets

CONSTANTS PoolOrder,     \* the pools, in the iteration order of the map
          UnknownPool,   \* a name no pool has
          Workers,       \* threads of pools, whether constructed yet or not
          PoolOf,        \* per worker: the pool that may construct it
          Main,          \* the thread that starts, stops and destroys
          Clients,       \* other threads outside the pools
          Tasks,         \* callables handed to the dispatcher
          None,          \* no task, no thread, no call
          MaxOwnIds      \* bound: request ids users create for themselves

Pools == {PoolOrder[i] : i \in DOMAIN PoolOrder}
WorkersOf(p) == {w \in Workers : PoolOf[w] = p}
Callers == Clients \cup Workers

ASSUME DispatcherAssumption ==
  /\ PoolOrder \in Seq(Pools)
  /\ \A i, j \in DOMAIN PoolOrder : PoolOrder[i] = PoolOrder[j] => i = j
  /\ UnknownPool \notin Pools
  /\ PoolOf \in [Workers -> Pools]
  /\ None \notin Tasks \cup Workers
  /\ Main \notin Workers
  /\ MaxOwnIds \in Nat

VARIABLES
  m_started, closed, m_threads,  \* per pool
  thread,     \* per worker: outside, live in worker_thread, or returned from it
  running,    \* per worker: the task it runs
  fate,       \* per task
  home,       \* per task: the pool it was handed to
  m_request_id,
  s_REQUEST_ID,
  own,        \* request ids users have created for themselves
  op, actor,  \* the call of start, stop or ~TaskDispatcher in progress, and its thread
  at, phase,  \* its iterator, and where it is in the pool's own start or stop
  spawned, newThread,
  cancelling, \* per caller: in cancel, the pool and callback still to be dispatched
  staffed,    \* history: pools that have had a thread
  stopped     \* history: start was not called since Main's call of stop returned

poolVars == <<m_started, closed, m_threads, thread, staffed>>
taskVars == <<running, fate, home, m_request_id>>
idVars == <<s_REQUEST_ID, own>>
opVars == <<op, actor, at, phase, spawned, newThread, stopped>>
vars == <<poolVars, taskVars, idVars, opVars, cancelling>>

Fate == {"new", "queued", "running", "done", "cancelled", "refused", "inline", "destroyed"}
Queue(p) == {t \in Tasks : fate[t] = "queued" /\ home[t] = p}

\* Mutant: stop goes through the pools the other way round.
CurrentReversed == IF op = "stop" THEN PoolOrder[Len(PoolOrder) + 1 - at] ELSE PoolOrder[at]

Current == PoolOrder[at]
AtEnd == at = Len(PoolOrder) + 1

Init ==
  /\ m_started = [p \in Pools |-> FALSE]
  /\ closed = [p \in Pools |-> FALSE]
  /\ m_threads = [p \in Pools |-> {}]
  /\ thread = [w \in Workers |-> "outside"]
  /\ running = [w \in Workers |-> None]
  /\ fate = [t \in Tasks |-> "new"]
  /\ home = [t \in Tasks |-> UnknownPool]
  /\ m_request_id = [t \in Tasks |-> 0]
  /\ s_REQUEST_ID = 0
  /\ own = {}
  /\ op = "idle" /\ actor = None
  /\ at = 1 /\ phase = "enter"
  /\ spawned = 0 /\ newThread = None
  /\ cancelling = [c \in Callers |-> None]
  /\ staffed = {}
  /\ stopped = TRUE

-----------------------------------------------------------------------------
(* start_impl, stop_impl and the destructors: loops over the pools.        *)

Begin(o, c) ==
  /\ op = "idle"
  /\ op' = o /\ actor' = c
  /\ at' = 1 /\ phase' = "enter"
  /\ stopped' = (stopped /\ o # "start")
  /\ UNCHANGED <<poolVars, taskVars, idVars, spawned, newThread, cancelling>>

\* The call returns, or leaves with an exception.
End(o) ==
  /\ op' = o /\ actor' = None
  /\ at' = 1 /\ phase' = "enter"
  /\ stopped' = (stopped \/ (op = "stop" /\ actor = Main /\ AtEnd))
  /\ UNCHANGED <<poolVars, taskVars, idVars, spawned, newThread, cancelling>>

Start == Begin("start", Main)

\* stop, called by Main or by a task.
Stop(c) ==
  /\ c \in Workers => running[c] # None /\ cancelling[c] = None
  /\ Begin("stop", c)

\* ~TaskDispatcherImpl, for the last Runtime that refers to it: no client is in
\* a call, but tasks may run and be in one. Only Main lets go of it: a thread
\* cannot be destroyed on itself.
Destroy ==
  /\ \A c \in Clients : cancelling[c] = None
  /\ Begin("destroy", Main)

Return ==
  /\ op \in {"start", "stop", "destroy"} /\ AtEnd
  /\ End(IF op = "destroy" THEN "destroyed" ELSE "idle")

\* A task calls the dispatcher, or goes on in a call, while ~unordered_map frees
\* the pools: find_thread_pool searches nodes and reaches pools that may be gone.
CallsDestroyed(w) ==
  /\ op = "destroy" /\ running[w] # None
  /\ End("undefined")

\* start of a pool: throws when it is started.
EnterStart ==
  /\ op = "start" /\ ~AtEnd /\ phase = "enter"
  /\ ~m_started[Current]
  /\ m_started' = [m_started EXCEPT ![Current] = TRUE]
  /\ phase' = "spawn" /\ spawned' = 0
  /\ UNCHANGED <<closed, m_threads, thread, staffed, taskVars, idVars,
                 op, actor, at, newThread, stopped, cancelling>>

StartThrows ==
  /\ op = "start" /\ ~AtEnd /\ phase = "enter"
  /\ m_started[Current]
  /\ End("idle")

SpawnThread(w) ==
  /\ phase = "spawn" /\ spawned < Cardinality(WorkersOf(Current))
  /\ PoolOf[w] = Current /\ thread[w] = "outside"
  /\ thread' = [thread EXCEPT ![w] = "live"]
  /\ newThread' = w
  /\ phase' = "push_back"
  /\ UNCHANGED <<m_started, closed, m_threads, staffed, taskVars, idVars,
                 op, actor, at, spawned, stopped, cancelling>>

\* The constructor of std::thread throws.
SpawnFails ==
  /\ phase = "spawn" /\ spawned < Cardinality(WorkersOf(Current))
  /\ End("idle")

PushBackThread ==
  /\ phase = "push_back"
  /\ m_threads' = [m_threads EXCEPT ![Current] = @ \cup {newThread}]
  /\ staffed' = staffed \cup {Current}
  /\ newThread' = None
  /\ spawned' = spawned + 1
  /\ phase' = "spawn"
  /\ UNCHANGED <<m_started, closed, thread, taskVars, idVars,
                 op, actor, at, stopped, cancelling>>

NextPool ==
  /\ at' = at + 1 /\ phase' = "enter"
  /\ UNCHANGED <<op, actor, spawned, newThread, stopped, cancelling, idVars>>

PoolStarted ==
  /\ phase = "spawn" /\ spawned = Cardinality(WorkersOf(Current))
  /\ NextPool
  /\ UNCHANGED <<poolVars, taskVars>>

\* stop of a pool: throws when it is stopped. The destructor does not ask.
EnterStop ==
  /\ op \in {"stop", "destroy"} /\ ~AtEnd /\ phase = "enter"
  /\ op = "stop" => m_started[Current]
  /\ m_started' = IF op = "stop" THEN [m_started EXCEPT ![Current] = FALSE] ELSE m_started
  /\ phase' = "close"
  /\ UNCHANGED <<closed, m_threads, thread, staffed, taskVars, idVars,
                 op, actor, at, spawned, newThread, stopped, cancelling>>

StopThrows ==
  /\ op = "stop" /\ ~AtEnd /\ phase = "enter"
  /\ ~m_started[Current]
  /\ End("idle")

ClosePool ==
  /\ phase = "close"
  /\ closed' = [closed EXCEPT ![Current] = TRUE]
  /\ phase' = "join"
  /\ UNCHANGED <<m_started, m_threads, thread, staffed, taskVars, idVars,
                 op, actor, at, spawned, newThread, stopped, cancelling>>

\* Mutant: the threads are detached.
JoinableDetached == {}

\* Mutant: the calling thread waits for itself.
JoinableByItself == m_threads[Current]

\* join waits for every thread but the calling one, whose join throws a
\* system_error that is swallowed and which stays joinable.
Joinable == m_threads[Current] \ {actor}

\* Mutant: the vector is cleared.
Cleared == {}

\* What is left in m_threads that answers to on_one_of_threads.
NotJoined == m_threads[Current] \ Joinable

\* join, and at the end of ~ThreadPoolImpl the queue goes, and the pool with it:
\* who calls the dispatcher from then on takes CallsDestroyed.
JoinPool ==
  /\ phase = "join"
  /\ \A w \in Joinable : thread[w] = "returned"
  /\ thread' = [w \in Workers |-> IF w \in Joinable THEN "outside" ELSE thread[w]]
  /\ m_threads' = [m_threads EXCEPT ![Current] = NotJoined]
  /\ fate' = [t \in Tasks |-> IF op = "destroy" /\ t \in Queue(Current)
                                THEN "destroyed" ELSE fate[t]]
  /\ NextPool
  /\ UNCHANGED <<m_started, closed, staffed, running, home, m_request_id>>

-----------------------------------------------------------------------------
(* Calls of clients, and of tasks on the thread they run on.               *)

\* The dispatcher is there to be called. A call of a client keeps it alive.
Alive == op \notin {"destroy", "destroyed", "undefined"}

MayCall(c) ==
  /\ Alive /\ cancelling[c] = None
  /\ c \in Workers => running[c] # None /\ actor # c

\* A callable nobody has handed over yet.
Fresh(t) ==
  /\ fate[t] = "new"
  /\ \A c \in Callers : cancelling[c] # None => cancelling[c].callback # t

\* Mutant: neither m_started nor the queue is asked.
AdmitsAlways(p) == p \in Pools

\* add_task: the task is queued, or the call throws. While a pool is between
\* its m_started = false and the closing of its queue, both may happen.
Admits(p) ==
  /\ ~closed[p]
  /\ m_started[p] \/ (op = "stop" /\ phase = "close" /\ Current = p)

Refuses(p) == p \in Pools => ~m_started[p] \/ closed[p]

AddTask(name, t) ==
  /\ \/ /\ name \in Pools /\ Admits(name)
        /\ fate' = [fate EXCEPT ![t] = "queued"]
        /\ home' = [home EXCEPT ![t] = name]
     \/ /\ Refuses(name)
        /\ fate' = [fate EXCEPT ![t] = "refused"]
        /\ UNCHANGED home
  /\ UNCHANGED <<running, poolVars, opVars>>

\* Mutant: the task keeps the request id it was created with.
WithoutRequestId(t) ==
  /\ s_REQUEST_ID' = s_REQUEST_ID + 1
  /\ UNCHANGED <<own, m_request_id>>

\* create_request_id( ), for a task dispatched without one.
WithNewRequestId(t) ==
  /\ s_REQUEST_ID' = s_REQUEST_ID + 1
  /\ m_request_id' = [m_request_id EXCEPT ![t] = s_REQUEST_ID']
  /\ UNCHANGED own

\* Mutant: the counter is read before it is incremented.
CreateRequestIdPostfix ==
  /\ op # "undefined"
  /\ Cardinality(own) < MaxOwnIds
  /\ s_REQUEST_ID' = s_REQUEST_ID + 1
  /\ own' = own \cup {s_REQUEST_ID}
  /\ UNCHANGED <<poolVars, taskVars, opVars, cancelling>>

\* create_request_id( ), called by a user for its own use.
CreateRequestId ==
  /\ op # "undefined"
  /\ Cardinality(own) < MaxOwnIds
  /\ s_REQUEST_ID' = s_REQUEST_ID + 1
  /\ own' = own \cup {s_REQUEST_ID'}
  /\ UNCHANGED <<poolVars, taskVars, opVars, cancelling>>

Dispatch(c, name, t) ==
  /\ MayCall(c) /\ Fresh(t)
  /\ AddTask(name, t)
  /\ WithNewRequestId(t)
  /\ UNCHANGED cancelling

DispatchWithId(c, name, t, id) ==
  /\ MayCall(c) /\ Fresh(t)
  /\ AddTask(name, t)
  /\ m_request_id' = [m_request_id EXCEPT ![t] = id]
  /\ UNCHANGED <<idVars, cancelling>>

OnOneOfThreads(c, p) == c \in m_threads[p]

\* dispatch_or_execute on a thread of the pool: the callable is called at once.
\* Elsewhere it is a dispatch.
ExecuteInline(c, p, t) ==
  /\ MayCall(c) /\ Fresh(t)
  /\ OnOneOfThreads(c, p)
  /\ fate' = [fate EXCEPT ![t] = "inline"]
  /\ home' = [home EXCEPT ![t] = p]
  /\ UNCHANGED <<running, m_request_id, poolVars, idVars, opVars, cancelling>>

\* Mutant: tasks that run are taken for pending ones.
RemoveRunning(name, id) ==
  fate' = [t \in Tasks |-> IF fate[t] \in {"queued", "running"} /\ home[t] = name
                               /\ m_request_id[t] = id
                             THEN "cancelled" ELSE fate[t]]

\* cancel_pending: nothing happens for a name no pool has.
Remove(name, id) ==
  fate' = [t \in Tasks |-> IF fate[t] = "queued" /\ home[t] = name
                               /\ m_request_id[t] = id
                             THEN "cancelled" ELSE fate[t]]

CancelPending(c, name, id) ==
  /\ MayCall(c)
  /\ Remove(name, id)
  /\ UNCHANGED <<running, home, m_request_id, poolVars, idVars, opVars, cancelling>>

\* cancel: removes the pending tasks, and then, in a second step, dispatches the
\* callback to the same pool.
Cancel(c, name, id, t) ==
  /\ MayCall(c) /\ Fresh(t)
  /\ Remove(name, id)
  /\ cancelling' = [cancelling EXCEPT ![c] = [name |-> name, callback |-> t]]
  /\ UNCHANGED <<running, home, m_request_id, poolVars, idVars, opVars>>

CancelDispatches(c) ==
  /\ Alive /\ cancelling[c] # None
  /\ AddTask(cancelling[c].name, cancelling[c].callback)
  /\ WithNewRequestId(cancelling[c].callback)
  /\ cancelling' = [cancelling EXCEPT ![c] = None]

-----------------------------------------------------------------------------
(* worker_thread                                                           *)

Take(w) ==
  /\ op # "undefined"
  /\ thread[w] = "live" /\ running[w] = None
  /\ \E t \in Queue(PoolOf[w]) :
       /\ running' = [running EXCEPT ![w] = t]
       /\ fate' = [fate EXCEPT ![t] = "running"]
  /\ UNCHANGED <<home, m_request_id, poolVars, idVars, opVars, cancelling>>

\* The task returns or throws; a task that is in a call does neither.
Finish(w) ==
  /\ op # "undefined"
  /\ running[w] # None /\ cancelling[w] = None /\ actor # w
  /\ fate' = [fate EXCEPT ![running[w]] = "done"]
  /\ running' = [running EXCEPT ![w] = None]
  /\ UNCHANGED <<home, m_request_id, poolVars, idVars, opVars, cancelling>>

\* wait_pop returns nothing: the queue is closed and empty.
Leave(w) ==
  /\ op # "undefined"
  /\ thread[w] = "live" /\ running[w] = None
  /\ closed[PoolOf[w]] /\ Queue(PoolOf[w]) = {}
  /\ thread' = [thread EXCEPT ![w] = "returned"]
  /\ UNCHANGED <<m_started, closed, m_threads, staffed, taskVars, idVars, opVars, cancelling>>

-----------------------------------------------------------------------------
Names == Pools \cup {UnknownPool}

Control ==
  \/ Start \/ Destroy \/ Return
  \/ \E c \in Workers \cup {Main} : Stop(c)
  \/ EnterStart \/ StartThrows \/ SpawnFails \/ PushBackThread \/ PoolStarted
  \/ \E w \in Workers : SpawnThread(w) \/ CallsDestroyed(w)
  \/ EnterStop \/ StopThrows \/ ClosePool \/ JoinPool

Caller(c) ==
  \/ \E name \in Names, t \in Tasks :
       \/ Dispatch(c, name, t)
       \/ \E id \in own : DispatchWithId(c, name, t, id)
       \/ \E id \in own : Cancel(c, name, id, t)
  \/ \E p \in Pools, t \in Tasks : ExecuteInline(c, p, t)
  \/ \E name \in Names, id \in own \cup {0} : CancelPending(c, name, id)
  \/ CancelDispatches(c)

Worker(w) == Take(w) \/ Finish(w) \/ Leave(w)

Next ==
  \/ Control
  \/ \E c \in Callers : Caller(c)
  \/ \E w \in Workers : Worker(w)
  \/ CreateRequestId

Spec == Init /\ [][Next]_vars

\* A call of start or stop goes on when it can, a worker takes tasks and leaves,
\* cancel goes on to its dispatch, and a task returns, although it may make
\* calls first. Nobody has to call the dispatcher.
Fairness ==
  /\ WF_vars(Return \/ EnterStop \/ StopThrows \/ ClosePool \/ JoinPool)
  /\ \A c \in Callers : WF_vars(CancelDispatches(c))
  /\ \A w \in Workers :
       /\ WF_vars(Take(w)) /\ WF_vars(Leave(w))
       /\ SF_vars(Finish(w))
       /\ WF_vars(cancelling[w] # None /\ CallsDestroyed(w))

FairSpec == Spec /\ Fairness

-----------------------------------------------------------------------------
TypeOK ==
  /\ m_started \in [Pools -> BOOLEAN]
  /\ closed \in [Pools -> BOOLEAN]
  /\ m_threads \in [Pools -> SUBSET Workers]
  /\ thread \in [Workers -> {"outside", "live", "returned"}]
  /\ running \in [Workers -> Tasks \cup {None}]
  /\ fate \in [Tasks -> Fate]
  /\ home \in [Tasks -> Names]
  /\ m_request_id \in [Tasks -> Nat]
  /\ s_REQUEST_ID \in Nat
  /\ own \subseteq 1..s_REQUEST_ID
  /\ op \in {"idle", "start", "stop", "destroy", "destroyed", "undefined"}
  /\ actor \in Workers \cup {Main, None}
  /\ at \in 1..Len(PoolOrder) + 1
  /\ phase \in {"enter", "spawn", "push_back", "close", "join"}
  /\ spawned \in Nat
  /\ newThread \in Workers \cup {None}
  /\ cancelling \in [Callers -> {None} \cup [name : Names, callback : Tasks]]
  /\ staffed \subseteq Pools
  /\ stopped \in BOOLEAN

Drained(p) ==
  /\ Queue(p) = {}
  /\ \A w \in WorkersOf(p) : running[w] = None

\* stop drains one pool after another. A pool it is done with stays drained
\* while tasks of the pools that are still running go on dispatching to it:
\* they are refused, and nothing is left anywhere when stop returns. In the
\* destructor such a dispatch is undefined.
DrainedPoolsStayDrained ==
  op = "stop" /\ actor = Main =>
    \A i \in 1..at - 1 : PoolOrder[i] \in staffed => Drained(PoolOrder[i])

\* A dispatcher that Main has stopped, or never started, can be destroyed: no
\* task is left that could call it while its pools are freed one by one.
\* Without the stop the destructor drains the pools too, but may be called.
StoppedMayBeDestroyed == op = "undefined" => ~stopped

\* stop leaves no pool started, not even when it throws half way because start
\* had thrown half way: both go through the pools in the same order.
StopReachesStarted ==
  [][op = "stop" /\ op' = "idle" => \A p \in Pools : ~m_started'[p]]_vars

\* on_one_of_threads answers true to every task, and dispatch_or_execute to
\* its own pool executes, except while start is creating threads: a task that
\* was dispatched when start had returned never finds itself elsewhere.
RecognisedOnceStarted ==
  \A w \in Workers :
    running[w] # None /\ op # "start" => OnOneOfThreads(w, PoolOf[w])

\* A task is cancelled only through a request id its user created: the ids of
\* tasks dispatched without one are nobody's, nor are they the 0 of an id that
\* was never set (PollEngineImpl::m_poll_request_id before the first poll).
OnlyOwnIdsCancelled ==
  \A t \in Tasks : fate[t] = "cancelled" => m_request_id[t] \in own

\* A pool from which stop, or ~ThreadPool, has returned: all its threads are
\* joined, at least one.
Halted(p) ==
  /\ closed[p] /\ p \in staffed
  /\ \A w \in WorkersOf(p) : thread[w] # "live"

ServiceStatus(p, t) ==
  IF home[t] # p \/ fate[t] \in {"new", "refused", "inline"} THEN "new"
  ELSE IF fate[t] = "queued" THEN "accepted"
  ELSE IF fate[t] = "running" THEN "running"
  ELSE IF fate[t] = "done" THEN "finished"
  ELSE "cancelled"

Service(p) ==
  INSTANCE TaskService WITH
    status <- [t \in Tasks |-> ServiceStatus(p, t)],
    open <- ~closed[p],
    halted <- Halted(p)

\* Every pool of the dispatcher is the service that ThreadPool implements.
ImplementsServices ==
  /\ \A p \in Pools : Service(p)!Init
  /\ [][\A p \in Pools : [Service(p)!Next]_(Service(p)!serviceVars)]_vars

\* stop returns, in whichever order the pools are drained, and also when a task
\* calls it on a thread that has to be joined. So does the destructor, unless a
\* task calls the dispatcher meanwhile.
StopReturns ==
  op \in {"stop", "destroy"} ~> op \in {"idle", "destroyed", "undefined"}
=============================================================================
