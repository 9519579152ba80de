----------------------------- MODULE ThreadPool -----------------------------
(***************************************************************************)
(* ThreadPoolImpl<TaskType, TaskCmp>: worker threads that share a          *)
(* DelayQueue, the thread that starts, stops and destroys the pool (the    *)
(* owner), and the client threads that add and cancel tasks meanwhile. The *)
(* consumers of the queue are the worker threads, the ones not created yet *)
(* included; a worker that runs a task may add and cancel tasks as well.   *)
(*                                                                         *)
(* add_task, start and stop are not critical sections: they are split      *)
(* where another thread can act, between the test of m_started and the     *)
(* push, and between every two steps of do_start and do_stop.              *)
(***************************************************************************)
EXTENDS DelayQueue

CONSTANTS Clients,       \* threads outside the pool that use it
          ThreadsCount,  \* m_threads_count
          NoThread

ASSUME PoolAssumption ==
  /\ ThreadsCount \in Nat
  /\ Clients \cap Consumers = {}
  /\ NoThread \notin Consumers

VARIABLES
  m_started,
  m_threads,   \* the threads of the vector, joined ones included
  joined,      \* those of them that join has been called on
  owner,       \* where the owner is
  spawned,     \* loop counter of do_start
  spawning,    \* the thread constructed and not yet in m_threads
  destroying,  \* the owner is in ~ThreadPoolImpl
  adding,      \* per caller: the task add_task is to push, the test being over
  accepted     \* history: the tasks add_task returned for

ownerVars == <<m_started, m_threads, joined, owner, spawned, spawning, destroying>>
callVars == <<adding, accepted>>
poolVars == <<ownerVars, callVars>>
allVars == <<vars, poolVars>>

Callers == Clients \cup Consumers

\* Between calls; in the loop of do_start, before and after the thread is
\* constructed; in do_stop, before each of its steps; after ~ThreadPoolImpl.
OwnerLocation ==
  {"idle", "start", "push_back", "close", "notify", "join", "destroyed"}

\* Who may call the pool: a client until the pool is being destroyed, a worker
\* from within a task.
MayCall(c) ==
  \/ c \in Clients /\ ~destroying
  \/ c \in Consumers /\ pc[c] = "busy"

\* A task its submitter may still change, add or drop.
Unshared(t) == InHand(t) /\ \A c \in Callers : adding[c] # t

-----------------------------------------------------------------------------
PoolInit ==
  /\ Init
  /\ m_started = FALSE
  /\ m_threads = {}
  /\ joined = {}
  /\ owner = "idle"
  /\ spawned = 0
  /\ spawning = NoThread
  /\ destroying = FALSE
  /\ adding = [c \in Callers |-> NoTask]
  /\ accepted = {}

\* start: throws when m_started.
Start ==
  /\ owner = "idle"
  /\ ~m_started
  /\ m_started' = TRUE
  /\ owner' = "start"
  /\ spawned' = 0
  /\ UNCHANGED <<vars, m_threads, joined, spawning, destroying, callVars>>

\* do_start: std::thread thread(...), which begins to run worker_thread.
SpawnThread(w) ==
  /\ owner = "start"
  /\ spawned < ThreadsCount
  /\ Enter(w)
  /\ spawning' = w
  /\ owner' = "push_back"
  /\ UNCHANGED <<m_started, m_threads, joined, spawned, destroying, callVars>>

\* do_start: the constructor of std::thread throws, and so does start.
SpawnFails ==
  /\ owner = "start"
  /\ spawned < ThreadsCount
  /\ owner' = "idle"
  /\ UNCHANGED <<vars, m_started, m_threads, joined, spawned, spawning, destroying, callVars>>

\* do_start: m_threads.push_back( std::move( thread ) ).
PushBackThread ==
  /\ owner = "push_back"
  /\ m_threads' = m_threads \cup {spawning}
  /\ spawning' = NoThread
  /\ spawned' = spawned + 1
  /\ owner' = "start"
  /\ UNCHANGED <<vars, m_started, joined, destroying, callVars>>

StartReturns ==
  /\ owner = "start"
  /\ spawned = ThreadsCount
  /\ owner' = "idle"
  /\ UNCHANGED <<vars, m_started, m_threads, joined, spawned, spawning, destroying, callVars>>

-----------------------------------------------------------------------------
\* stop: throws when not m_started.
Stop ==
  /\ owner = "idle"
  /\ m_started
  /\ m_started' = FALSE
  /\ owner' = "close"
  /\ UNCHANGED <<vars, m_threads, joined, spawned, spawning, destroying, callVars>>

\* ~ThreadPoolImpl: do_stop, whatever m_started is; no client is in a call.
Destroy ==
  /\ owner = "idle"
  /\ \A c \in Clients : adding[c] = NoTask
  /\ destroying' = TRUE
  /\ owner' = "close"
  /\ UNCHANGED <<vars, m_started, m_threads, joined, spawned, spawning, callVars>>

CloseQueue ==
  /\ owner = "close"
  /\ SetClosed
  /\ owner' = "notify"
  /\ UNCHANGED <<m_started, m_threads, joined, spawned, spawning, destroying, callVars>>

CloseNotifies ==
  /\ owner = "notify"
  /\ NotifyAll
  /\ owner' = "join"
  /\ UNCHANGED <<m_started, m_threads, joined, spawned, spawning, destroying, callVars>>

\* Mutant: the thread is not waited for.
JoinDetached(w) ==
  /\ owner = "join"
  /\ w \in m_threads \ joined
  /\ joined' = joined \cup {w}
  /\ UNCHANGED <<vars, m_started, m_threads, owner, spawned, spawning, destroying, callVars>>

\* join: a joinable thread of m_threads; returns when worker_thread has.
JoinThread(w) ==
  /\ owner = "join"
  /\ w \in m_threads \ joined
  /\ pc[w] = "returned"
  /\ joined' = joined \cup {w}
  /\ UNCHANGED <<vars, m_started, m_threads, owner, spawned, spawning, destroying, callVars>>

StopReturns ==
  /\ owner = "join"
  /\ m_threads \subseteq joined
  /\ ~destroying
  /\ owner' = "idle"
  /\ UNCHANGED <<vars, m_started, m_threads, joined, spawned, spawning, destroying, callVars>>

\* ~ThreadPoolImpl, after its body: the members go, m_queue among them.
DestroyReturns ==
  /\ owner = "join"
  /\ m_threads \subseteq joined
  /\ destroying
  /\ DestroyElements
  /\ owner' = "destroyed"
  /\ UNCHANGED <<m_started, m_threads, joined, spawned, spawning, destroying, callVars>>

-----------------------------------------------------------------------------
\* add_task, throw_if_stopped: goes on only if m_started.
AddTaskCheck(c, t) ==
  /\ MayCall(c)
  /\ adding[c] = NoTask
  /\ Unshared(t)
  /\ m_started
  /\ adding' = [adding EXCEPT ![c] = t]
  /\ UNCHANGED <<vars, accepted, ownerVars>>

\* add_task, m_queue.push.
AddTaskPush(c) ==
  /\ adding[c] # NoTask
  /\ Push(adding[c])
  /\ accepted' = accepted \cup {adding[c]}
  /\ adding' = [adding EXCEPT ![c] = NoTask]
  /\ UNCHANGED ownerVars

\* add_task, m_queue.push throws QueueClosedException.
AddTaskThrows(c) ==
  /\ adding[c] # NoTask
  /\ m_closed
  /\ adding' = [adding EXCEPT ![c] = NoTask]
  /\ UNCHANGED <<vars, accepted, ownerVars>>

CancelPending(c, r) ==
  /\ MayCall(c)
  /\ adding[c] = NoTask
  /\ Remove(r)
  /\ UNCHANGED poolVars

\* worker_thread: task.run( ) returns or throws a std::exception; either way
\* the thread goes on.
RunTask(w, outcome) ==
  /\ adding[w] = NoTask
  /\ Consume(w, outcome)
  /\ UNCHANGED poolVars

-----------------------------------------------------------------------------
Owner ==
  \/ Start
  \/ \E w \in Consumers : SpawnThread(w)
  \/ SpawnFails
  \/ PushBackThread
  \/ StartReturns
  \/ Stop
  \/ Destroy
  \/ CloseQueue
  \/ CloseNotifies
  \/ \E w \in Consumers : JoinThread(w)
  \/ StopReturns
  \/ DestroyReturns

Caller(c) ==
  \/ \E t \in Tasks : AddTaskCheck(c, t)
  \/ AddTaskPush(c)
  \/ AddTaskThrows(c)
  \/ \E r \in RequestIds \cup {0} : CancelPending(c, r)

Worker(w) ==
  \/ WaitPop(w) /\ UNCHANGED poolVars
  \/ Timeout(w) /\ UNCHANGED poolVars
  \/ SpuriousWakeup(w) /\ UNCHANGED poolVars
  \/ \E outcome \in Outcome : RunTask(w, outcome)

\* What a submitter does with a task of its own before it adds it.
Submitter(t) ==
  \/ Construct(t)
  \/ Unshared(t) /\ \E d \in Delays : SetDueTime(t, d)
  \/ Unshared(t) /\ \E r \in RequestIds : SetRequestId(t, r)
  \/ Unshared(t) /\ Discard({t})

PoolNext ==
  \/ Owner
  \/ \E c \in Callers : Caller(c)
  \/ \E w \in Consumers : Worker(w)
  \/ \E t \in Tasks : Submitter(t) /\ UNCHANGED <<queueVars, poolVars>>
  \/ Tick /\ UNCHANGED <<queueVars, poolVars>>

PoolSpec == PoolInit /\ [][PoolNext]_allVars

\* The owner, add_task and wait_pop go on when they can, and the clock does. A
\* task that runs returns in the end. Nobody has to call the pool, and the
\* condition variable does not have to wake anyone for no reason.
Fairness ==
  /\ WF_allVars(PushBackThread \/ StartReturns \/ SpawnFails
                 \/ \E w \in Consumers : SpawnThread(w))
  /\ WF_allVars(CloseQueue \/ CloseNotifies \/ StopReturns \/ DestroyReturns
                 \/ \E w \in Consumers : JoinThread(w))
  /\ WF_allVars(Tick /\ UNCHANGED <<queueVars, poolVars>>)
  /\ \A c \in Callers : WF_allVars(AddTaskPush(c) \/ AddTaskThrows(c))
  /\ \A w \in Consumers :
       /\ WF_allVars(WaitPop(w) /\ UNCHANGED poolVars)
       /\ WF_allVars(Timeout(w) /\ UNCHANGED poolVars)
       /\ SF_allVars(\E outcome \in Outcome : RunTask(w, outcome))

FairPoolSpec == PoolSpec /\ Fairness

-----------------------------------------------------------------------------
PoolTypeOK ==
  /\ TypeOK
  /\ m_started \in BOOLEAN
  /\ m_threads \subseteq Consumers
  /\ joined \subseteq m_threads
  /\ owner \in OwnerLocation
  /\ spawned \in 0..ThreadsCount
  /\ spawning \in Consumers \cup {NoThread}
  /\ destroying \in BOOLEAN
  /\ adding \in [Callers -> Tasks \cup {NoTask}]
  /\ accepted \subseteq Tasks

Queued(t) == t \in m_elements
Held(t) == \E w \in Consumers : held[w] = t

\* add_task keeps its word: a task it has returned for is in the queue or with
\* a worker until it is run, cancelled or destroyed with the queue; and no
\* task is run, queued or taken by a worker that add_task threw for.
NoTaskLost ==
  \A t \in Tasks :
    /\ t \in accepted /\ m_promise[t] = "pending" => Queued(t) \/ Held(t)
    /\ Queued(t) \/ Held(t) \/ m_promise[t] \in Outcome => t \in accepted

\* stop, or the destructor, has returned from a pool that has had a thread.
Halted ==
  /\ m_closed
  /\ owner \in {"idle", "destroyed"}
  /\ joined # {} /\ m_threads \subseteq joined

\* stop executes what was added: whoever observes that it has returned finds
\* every accepted task run or cancelled, the delayed ones and those added by
\* tasks or clients while stop was under way included.
StopExecutesAll ==
  Halted => \A t \in accepted : m_promise[t] \in Settled

\* The same, whatever became of the threads ("Executes all tasks that were
\* already added to thread pool", ThreadPool.hpp).
StopAlwaysExecutesAll ==
  m_closed /\ owner = "idle" => \A t \in accepted : m_promise[t] \in Settled

\* add_task throws only for a stopped pool (ThreadPool.hpp): a pool whose start
\* has returned, and which is not being stopped or destroyed, has an open queue.
StartedPoolAccepts ==
  m_started /\ owner = "idle" /\ spawned = ThreadsCount => ~m_closed

\* on_one_of_threads, asked by thread w.
OnOneOfThreads(w) == w \in m_threads

\* on_one_of_threads answers true to a task that runs on a thread of the pool.
WorkersRecognised ==
  \A w \in Consumers : pc[w] = "busy" => OnOneOfThreads(w)

\* The pool uses its queue the way the queue may be used: it starts every
\* thread once, runs what wait_pop returned and nothing else, and destroys the
\* queue when close has returned and every thread has left wait_pop for good.
ImplementsQueue == Spec

ServiceStatus(t) ==
  IF t \notin accepted THEN "new"
  ELSE IF Queued(t) THEN "accepted"
  ELSE IF Held(t) THEN "running"
  ELSE IF m_promise[t] \in Outcome THEN "finished"
  ELSE "cancelled"

Service ==
  INSTANCE TaskService WITH
    status <- [t \in Tasks |-> ServiceStatus(t)],
    open <- ~m_closed,
    halted <- Halted

\* The pool is the service it is meant to be: what it accepts it runs once or
\* cancels before it has begun, and nothing is left when it halts.
ImplementsService == Service!Spec

\* stop and the destructor return, whatever the workers were doing, and
\* whether they slept with or without a timeout when the queue was closed.
StopTerminates ==
  owner = "close" ~> owner \in {"idle", "destroyed"}

\* An accepted task is settled in the end, if the pool has a thread.
AcceptedSettles ==
  \A t \in Tasks :
    t \in accepted /\ m_threads # {} ~> m_promise[t] \in Settled
=============================================================================
