# uni-tasks in TLA+

Specifications, model-checking configurations and machine-checked proofs for
this repository: task objects, the queues, the thread pool, the task dispatcher
over several pools, the poll engine, requests and the component written with
them, and the templates that make tasks out of calls. Paths below are relative to the repository root.

## The system

`uni-tasks` is a C++17 library that runs tasks on named thread pools. A task is
a callable with a due time, a request id, a sequence id and a promise. A thread
pool is a set of threads that pop tasks from one queue ordered by due time. A
task dispatcher owns the pools by name; a runtime owns the dispatcher; poll
engines, requests and components are written against it.

| Component | State | Operations | Talks to |
|---|---|---|---|
| Task (`TaskBaseImpl`) | `m_due_time`, `m_request_id`, `m_sequence_id`, `m_promise`; the global counter `s_SEQUENCE_ID` | construct, `set_due_time`, `set_request_id`, `run`, `delay`, `due_time` | the submitter through a future |
| Delay queue (`Queue<T, std::set>`) | `m_elements`, `m_mutex`, `m_cond`, `m_closed` | `push`, `wait_pop`, `close`, `remove` | task `delay` and comparators |
| FIFO queue (`Queue<T, std::deque>`) | the same | the same, without due times | nothing else in the repository uses it |
| Thread pool (`ThreadPoolImpl`) | `m_queue`, `m_threads_count`, `m_started`, `m_threads` | `start`, `stop`, destructor, `add_task`, `cancel_pending`, `on_one_of_threads`, `worker_thread` | the queue; tasks call back into the pool |
| Task dispatcher | `m_thread_pools` | `start`, `stop`, `dispatch`, `dispatch_or_execute`, `cancel`, `cancel_pending`, `assert_execution_context` | several pools |
| Runtime | dispatcher | start and stop through construction and destruction | dispatcher |
| Poll engine | `m_running`, `m_poll_request_id`, interval, callback | `start`, `stop`, `set_*`, `poll_impl` | dispatches itself again and again |
| Request | `m_started`, `m_future`, two callbacks | `start`, `cancel` | callbacks of a component |
| Demo component (integration tests) | `m_calculate_1_cancelled` | start, run and cancel a calculation | two pools, requests |
| Task factory, task classes, member function wrappers | the tuple of decayed arguments, a copy of a shared receiver | the overloads of `create_task`, `create_task_ptr`, `dispatch`, `dispatch_or_execute` | chosen at compile time, layer by layer |
| Utilities | two counters | `get_next_sequence_id`, `create_request_id`, `invoke`, `apply`, `ptr2wrapper` | used by all |

What is hard, and what correctness means, per component:

* **Task.** Due times are compared and waited for in whole milliseconds while
  the clock is finer. Two tasks must never compare equivalent (a `std::set`
  would drop one). A promise is satisfied by a run, or broken when the task is
  destroyed.
* **Delay queue.** Several consumers wait on one condition variable, with and
  without a timeout, and `push` wakes only one, perhaps the wrong one. Not everybody
  may oversleep an element, and an idle thread may be left asleep beside one only by
  such a wakeup; `close`
  sets its flag and notifies in two steps and must still reach everyone; after
  `close` the queue is drained, delayed elements included, and nobody returns
  before it is.
* **Thread pool.** `add_task`, `start` and `stop` are sequences of steps without
  a lock around them. What `add_task` accepted must be executed or cancelled,
  also when a stop, a restart, the destructor or a failing `std::thread`
  constructor comes in between; stop must return; `add_task` throws only when the
  pool is stopped; `on_one_of_threads` recognises every worker.
* **FIFO queue.** First in, first out for one producer; close drains it; `remove`
  reports whether it removed anything (the `std::deque` version compares with an
  iterator that is always `end()`).
* **Dispatcher.** Pools are started and stopped one after another: a task of one
  may find another one stopped. `cancel` is a removal and then a dispatch. The
  destructor frees the pools one by one and must not be called into meanwhile.
* **Poll engine.** `stop` races a poll in progress: a callback after `stop` has
  returned, a stray task, two chains after stop and start.
* **Request.** `start` and `cancel` test and set a flag around callbacks that may
  throw and may only be called once.
* **Demo component.** One cancellation flag for all calculations; a cancel task
  that waits for another task on the same pool.
* **Call forms.** Four layers of overloads must agree on which calls they take, and
  take those the headers declare,
  and a task that outlives the call must own what it uses.

Every such place is listed with its line under `hazards` in `PROJECT.json`.

## Modules

| Module | What it is |
|---|---|
| `TaskBase` | state and operations of task objects, the clock, the comparator |
| `DelayQueue` | the queue over `std::set` and the threads in `wait_pop`; extends `TaskBase` |
| `ThreadPool` | `ThreadPoolImpl`: the owner thread, clients and workers around a `DelayQueue`; extends it |
| `TaskService` | what a pool promises: accept, begin, end, cancel, shut down, halt, resume |
| `TaskDispatcher` | `TaskDispatcherImpl`: several pools, each as `TaskService` sees it, started and stopped one after another |
| `PollEngine` | `PollEngineImpl`: the chain of polls over an abstract pool |
| `Request` | `RequestImpl`: start, cancel and their callbacks |
| `Calculation` | `DemoComponentImpl`: requests, calculations and cancel tasks on one pool; extends `Request` |
| `Channel` | what a closable queue promises to its users |
| `FifoQueue` | the queue over `std::deque` and the threads in `wait_pop` |
| `CallForms` | the overloads and task classes: what compiles, and what the task keeps |
| `MCDelayQueue`, `MCThreadPool`, `MCTaskDispatcher`, `MCPollEngine`, `MCCalculation`, `MCFifoQueue`, `MCCallForms` | values and symmetry for TLC |
| `DelayQueueProofs`, `ThreadPoolProofs`, `ThreadPoolServiceProofs`, `FifoQueueProofs`, `TaskDispatcherProofs`, `PollEngineProofs`, `CalculationProofs`, `CallFormsProofs` | theorems |

The modules meet in three places. `ThreadPool` is shown to implement both
`DelayQueue` and `TaskService`; `TaskDispatcher`, `PollEngine` and `Calculation`
use a pool as `TaskService` describes it, and `TaskDispatcher` is shown to keep
each of its pools one (`ImplementsServices`). `Calculation` is shown to use its
requests as `RequestSpec` describes them. `FifoQueue` implements `Channel`.

### How the models correspond to the code

`TaskBase` counts time in ticks, `Res` of them to a millisecond, so that the
truncation in `due_time()` and `delay()` shows: `DueTime` and `Delay` divide as
the code does, `Before` is `TaskPtrCmp`. `m_promise[t]` is `absent` before the
object exists, then `pending`, then `value`, `exception` or `broken`.

`DelayQueue` has one action per critical section of `m_mutex` and one per passage
through the condition variable. `wait_pop` holds the lock from one wait to the
next, so one iteration of its loops is one action: `Pop`, `WaitForFirst`,
`WaitForElement` or `ReturnEmpty`. The two loops do the same with a non-empty
queue, open or closed, and share `Pop` and `WaitForFirst`. A wait with a predicate
returns to the same test of the queue as the loop does, so a woken thread is
`ready` again in every case. `notify_one` picks any blocked thread; spurious
wakeups are steps of their own. `close` is `SetClosed` then `NotifyAll`. The clock
does not advance inside a critical section: the code reads it in `delay()` and
`wait_for` reads it again, so a real timeout ends later than the modelled one by
the time between the two reads.

`ThreadPool` adds the owner, the thread that starts, stops and destroys the
pool, with the variable `owner` for its place in `do_start` and `do_stop`; clients
and workers that call `add_task` (`AddTaskCheck`, then `AddTaskPush` or
`AddTaskThrows`) and `cancel_pending`; and the history `accepted` of the tasks
`add_task` returned for. `Consumers` are thread identities: a thread is used
once, `outside` until it is constructed. A worker calls the pool only while it
runs a task. `SpawnFails` is an exception of the `std::thread` constructor, and
what `start` does when no thread identity is left. The vector `m_threads` is a set:
`join` waits for all of it, and in which order makes no difference to the owner.
Clients do not call a pool that is being destroyed (the object's lifetime), while
workers do.

`TaskDispatcher` drops the clock and the order of a pool's queue and keeps the
threads: `on_one_of_threads` asks for them, `stop` joins them, and a task may
call `stop` on one. The dispatcher's loops are the variables `op` (which call),
`actor` (on which thread), `at` (the iterator over `m_thread_pools`, whose order is
the constant `PoolOrder`) and `phase` (where in the pool's own `start` or `stop`).
An exception out of a pool's `start` or `stop` ends the loop half way. `cancel` is
`Cancel` and then `CancelDispatches`. `dispatch_or_execute` is `ExecuteInline` on a
thread of the pool and `Dispatch` elsewhere. `JoinPool` leaves the calling worker
in `m_threads`: its `join` throws `resource_deadlock_would_occur`, which the code
swallows. A task is only ever refused (`AddTask` throws) or queued; which of them
happens between `m_started = false` and the closing of the queue is open, because
`add_task` tests the flag first. The destructor of `m_thread_pools` drains and frees
the pools and their nodes one after another, and `find_thread_pool` on that map is
undefined from its beginning on: a task that calls the dispatcher then, or is still
in a call, takes `CallsDestroyed`, which ends the behaviour (`op = "undefined"`).
The history `stopped` says that `Main`'s `stop` has returned, or that nothing was
started.

`PollEngine` keeps the queue as a set of polls, each a pair of its request id and
the thread that dispatched it; no two queued polls are the same pair
(`PollsAreDistinct`), so that the set counts them right. It has one action for every
access of `m_running` and `m_poll_request_id`: `start` is `Start`, `StoreId`,
`LoadId`, `Dispatch`; `stop` is `Stop`, `StopLoads`, `StopCancels`; a poll is
`Take`, `TestRunning`, `BeginCallback`, `EndCallback` and again `StoreId`, `LoadId`,
`Dispatch`. The callback may call `start` and `stop` on its worker (`nested`).
Request ids that nothing refers to any more are used again (`FreshIds`), which keeps
the state space finite and is invisible to a comparison of ids.

`Request` has two actions per call, its beginning and its end, for the callbacks
run in between and may throw; an empty callback always throws
(`std::bad_function_call`). `Calculation` fills in what the demo component's
callbacks do. A pool is its number of threads and whether it is open; a thread
is busy with a calculation or a cancel task. The rounds of a calculation and the
reports on them are abstracted to how the loop ends. The component is referred
to by weak pointers in the callbacks and the cancel task, hence `alive`; it is
dropped only while no calculation refers to it with a plain pointer.

`FifoQueue` is to `Queue<T, std::deque<T>>` what `DelayQueue` is to the other
specialisation, without clock; `remove` keeps any subsequence, as a predicate may
be anything.

`CallForms` is a small compiler. `layer` says how far a call has come: facade,
`dispatch_or_execute_impl`, `dispatch_impl`, factory, task class. At each layer an
overload is chosen by the receiver's type and value category and by the kind of
function, a bare member function may be wrapped and passed to the sibling
overload, and everything in the body has to compile. `Specific` and `Choose` are
overload resolution cut down to what decides here: the forwarding overload wins
where it binds the receiver without a conversion. The tables `FacadeDispatch` ..
`CreateTaskPtr` are the overload sets of the headers. A call that compiles is run,
with `argument`, `frame` and `owners` for what the task may still use. Six entry
points, seven kinds of receiver, five of function, four of parameter and two of
argument are told apart.

Definitions marked `Mutant` are not part of the specifications: each is a
plausible mistake in the definition that follows it, which makes the property
named for it in `PROJECT.json` fail.

## Runs

| Run | Shows |
|---|---|
| `delay_queue` | no ties, one owner per task, no early pop, due order; only a misdirected wakeup leaves an idle thread beside an element without a thread of its own; close reaches everyone, nobody returns from a queue that is not drained |
| `pool_safety` | no accepted task is lost, stop executes all, the pool implements the queue's specification and `TaskService` |
| `pool_liveness` | stop and the destructor return, every accepted task is settled |
| `dispatcher` | pools drained one after another stay drained while tasks of the others dispatch to them; also when a task calls stop; only ids their user created cancel anything; each pool remains a `TaskService`; stop returns; a dispatcher that was stopped is not called while it is destroyed |
| `poll_engine` | polls do not multiply, a stop finds the queued poll, few callbacks come after stop, and an engine that was started polls until stopped or failed |
| `calculations` | a future has one owner, a calculation is started once, no cancel task waits for one behind it, and everything comes to an end, even with one thread |
| `fifo_queue` | the queue is a `Channel`, loses no wakeup, and close lets every consumer end |
| `call_forms` | the layers accept nothing the headers do not declare, and of what they declare refuse bare member functions only; nothing a task uses dangles, shared receivers are released |
| `pool_restart` | violated: a pool started after a stop refuses every task |
| `pool_spawn_window` | violated: a task runs on a thread that `on_one_of_threads` does not know yet |
| `pool_no_threads` | violated: with no threads, stop leaves accepted tasks unexecuted |
| `call_forms_documented` | violated: a documented form of `create_task` does not compile |

The four violated properties state what the comments of `ThreadPool.hpp` and
`TaskFactory.hpp` say without exception; each is a finding in `PROJECT.json`. Their passing
counterparts say what does hold: `StopExecutesAll` for a pool that has had a
thread, `NoTaskLost` for a restarted one, whose `add_task` throws and leaves
the task with its caller, and `OnlyBareFormsAreRefused` for the forms of a call. In the trace of `pool_restart` the first `start` happens
to fail in the `std::thread` constructor, which is only the shortest way to a
`stop`; the second one returns normally. A pool stopped after a normal start
closes the same queue.

Deadlock is not checked: all tasks done, all consumers returned, all calls made
and the bounded clock at its end is a legal end of every run. That nothing stops
earlier is what the liveness properties say. `call_forms` has no type invariant: its
next-state relation assigns literal values only.

### Bounds

* `delay_queue`: 2 tasks, 3 consumers, 2 ticks to a millisecond, clock up to tick 4,
  delays of -1, 0, 1 and 2 ms. Two tasks are enough for every property of a pair,
  two ticks for due times that share a millisecond, four for two distinct
  milliseconds with a clock in between. With three consumers all may be blocked, in
  both kinds of wait, when one push or one close comes, and one may be idle while a
  second runs a task and a third was woken for nothing.
* `pool_safety`: 2 tasks, 3 threads for a pool of 2, so that a restart creates a
  thread and then fails, 1 client, delays of 0 and 1 ms, one request id besides the
  default 0. A second client would add nothing a worker inside a task does not do.
* `pool_liveness`: 2 tasks, a pool of 2, cancellation of request id 0 only.
* The findings need 1 or 2 tasks and 0 or 1 thread per start.

* `dispatcher`: two pools with a thread each, one client, two tasks, one request
  id of the user's own. Two pools are what it takes for one to be drained while a
  task of the other dispatches, in both directions: the first of the order is
  stopped first, and tasks of either call either.
* `poll_engine`: two workers and the owner, two starts, six request ids. Six are one
  more than starts, workers and the latest id together, so that `create_request_id`
  always finds one: `BoundSuffices` proves that this is enough for every number of
  starts and workers. Two starts are a second chain; the invariants pass with three
  starts and seven ids too, in 939,000 states.
* `calculations`: two requests on a pool of one or two threads, so that the flag
  is shared and the only thread may be the one that waits.
* `fifo_queue`: three consumers, three elements.
* `call_forms`: all 1,600 calls that the distinctions above make, and where each
  task may go.

`MaxTime` bounds the clock and, in the guard of `SetDueTime`, due times; the
number of tasks bounds the sequence ids; `Consumers` bounds the threads ever
created. Symmetry permutes tasks, and consumers, in the safety runs: nothing in
the models tells them apart. The liveness run uses none.

### Fairness

`pool_liveness` assumes weak fairness of the owner inside `do_start` and `do_stop`
(not of its decision to start, stop or destroy), of the second half of `add_task`,
of every worker's `wait_pop` and timeout, and of the clock: threads are scheduled
and time passes. Strong fairness of `RunTask` says that a task that runs
returns; strong, because a task may add tasks meanwhile, during which its return
is not enabled. Submitters, clients and spurious wakeups are not fair.

`dispatcher` has the same for its pools: a call of `stop` goes on when it can,
workers take tasks and leave, `cancel` goes on to its dispatch, and a task returns
(strongly fair, as it may make calls first); a task in the middle of `cancel` goes on
to its dispatch also when that has become undefined. `start` need not go on for
`StopReturns`.
`poll_engine`: calls go on, a worker takes a queued poll some time after its
interval, and a callback ends, strongly fair because it may start and stop the
engine first. `calculations`: calls that were begun go on, and the pool's threads
take tasks and run them. `fifo_queue`: threads go on in `wait_pop`, come back with
their element, and a close notifies. `call_forms`: compilers end, workers take
tasks, calls return, scopes end and owners let go. In none of them has anybody to
start, stop, dispatch, push, close or cancel.

## Proofs

All theorems hold for every value of the constants that the named assumptions of the
modules allow. `TaskAssumption`: `Res` is positive, the bounds are numbers.
`QueueAssumption`: `NoTask` is no task, and the consumers are finitely many. `PoolAssumption`: clients are not consumers,
`NoThread` is neither. `DispatcherAssumption`: the map names each pool once, every
worker belongs to one pool, `Main` is no worker. `PollEngineAssumption`: the owner is
no worker, and the workers are finitely many.

`DelayQueueProofs`. `Inv` is the conjunction of the type invariant, `SequenceIds`,
`OneOwner`, `SomebodyComesBack`, `CloseReachesAll`, `ReturnedMeansDrained` and the
finiteness of the queue; each part has a step lemma. `SequenceIds` (ids distinct and
not above the counter) is what strengthens `KeysDistinct`; `OneOwner` is needed by
`SomebodyComesBack`, for a submitter may move the due time of a task only while it is
not queued. `SomebodyComesBack` (theorem `NotAllOversleep`) is the least that holds of
`notify_one`: some thread comes to the queue in time, or when its task has returned.
How much is lost by a wakeup that goes astray is `IdleOnlyByMisdirection`, by
counting: `Shorthanded` compares the elements with the threads `OnTheWay`, a pop takes
one of each, a timeout or a spurious wakeup keeps a thread on its way, and a thread
goes to sleep without a timeout on an empty queue only; so nothing but a push adds an
element without a thread, and a push does so only if it notifies a thread from
`wait_for`. Without delays nobody is in `wait_for`, and `UndelayedNeverShorthanded`
follows. `DueOrder` is the action property, from the type invariant and the bounds of
`Delay`; `HeadOfLineBound` (a task that is due is held up by a first element that is
not only within one millisecond) needs only that division is monotone.

`ThreadPoolProofs`. Every step of the pool is a step of the queue or leaves it
alone (`StepImplements`), so `PoolImplementsQueue` holds and with it every theorem
about the queue holds of the pool, `PoolIdlesOnlyByMisdirection` for one. `PoolInv` adds
`Threads`: a thread that exists is in `m_threads` or about to be stored, joined
threads have returned, the queue is closed and notified when the owner joins.
This is what makes the destruction of the queue legal, and what gives
`StopExecutes`: a joined thread has returned, hence the queue is closed and
empty for good; all others have returned too, hence nobody holds a task; and by
`NoTaskLost` an accepted task that is nowhere is settled. `PoolLosesNoTask` uses
`KeysDistinct`: an insert that refused a task would lose it.

`ThreadPoolServiceProofs`. The refinement mapping reads the status of a task off
`accepted`, the queue, the workers and the promise; `open` is the negation of
`m_closed`; `halted` means that `stop` or the destructor has returned from a pool
whose threads are all joined, at least one. Each step maps to a step of
`TaskService` or to a stutter; the return of `stop` maps to `Halt`, whose guard is
the substance of the theorem.

`FifoQueueProofs`. `Inv` is the type invariant, `WakeupNotLost` and
`CloseReachesAll`. The type invariant carries that the queue is strictly
increasing, which is why the head is the oldest and why removing it removes one
element. `WakeupNotLost` compares a length with the number of threads that are
`ready`: every step that adds an element to a queue with sleepers wakes one, the
step that takes one uses one up, and a thread goes to sleep on an empty queue
only; its lemmas count with the theorems on finite sets. `FifoImplementsChannel`
follows step by step.

`TaskDispatcherProofs`. The type invariant says nothing of the loops, so `Inv` adds
where they are (`Place`) and what they have done (`InOrder`): a pool is started only
after all before it in `PoolOrder`, and a stop has stopped all it has passed.
`StopReachesStarted` is what is left of that when the loop ends or throws: it throws
at the first pool that is not started, after which none is. `Threads` and `Runs` tie
the vectors, the threads and the tasks they run together, and give
`RecognisedOnceStarted`. For `DrainedPoolsStayDrained`, `Drainage` says that a
thread returns only from a closed and empty pool and that it stays so, because
`Admits` refuses closed pools; `PassedAreShut` that the pools behind the iterator of
`Main`'s stop have no live thread. At the end of that loop these are all, which is
`Quiet`: no thread is live until the next start, so that no task is left to call a
dispatcher that is being destroyed (`StoppedMayBeDestroyed`). `Ids` needs that a queued task has an id at all,
and that the callback of a `cancel` in progress is nobody else's task. From the same
`Inv`, every step is a step of `TaskService` or a stutter, for each pool
(`PoolsAreServices`): a call that cancels, or a destructor that destroys queued
tasks, is one `Cancel`; closing is `Shutdown`; the return of the last thread is
`Halt`, whose guard is what `Drainage` provides; a thread created in a closed pool
is `Resume`. `ThreadPool` implements `TaskService` too, which is what makes the
abstract pools stand for those of the code. `JoinsOnlyWhatCanEnd` is the part of
`StopReturns` that is a safety property.

`PollEngineProofs`. A step makes at most one chain more, and only `Start` does:
`Chains` is a sum of cardinalities, followed through every step (`ChainsKept`).
`OneChainPerStart` is inductive with that; the other parts of `Inv` say what a
single chain is like in the middle of a call. `UnderLatestId` extends
`QueuedPollIsCancellable` to the thread that is about to dispatch, `CallbacksLeft`
adds to the callbacks after a stop those that workers are past their test for,
and `StopsAreOver` is why a running engine that met no race is not about to be
cancelled. `Nesting` and `Identified` keep the calls a callback makes apart.

`CalculationProofs`. For requests alone, `RequestInv` adds to `FutureHasOneOwner`
that `m_started` is up during the start callback, so that no cancel comes between
and the future goes to a started request. Every step of the component is a step
of its requests or leaves them alone (`ComponentUsesRequests`), so that carries
over. `Protocol` is what else the component needs: a calculation exists only
after the start callback is used up (hence `CalculationStartedOnce`), and between
removing the calculation and dispatching the cancel task the handed future is
not one of a queued calculation (hence `CancelTaskNeedsNoThread`).

`CallFormsProofs`. The acceptance of a call is proved layer by layer: each part of
`CompileInv` says what the layers passed so far let through, in terms of the call
as it was written, and that the function a layer receives is that function or its
wrapper. A declared call is refused only where `ptr2wrapper` is not found, hence bare. `Owned` follows the task's copies. The module has no constants, so the
theorems say no more than the run, but they say why.

Only model-checked, because fairness is outside what the provers handle: the
liveness properties `StopTerminates`, `AcceptedSettles`, `StopReturns`, `PollsGoOn`,
`AllComesToAnEnd`, `CloseEndsConsumers` and `SharedReceiverReleased`. Every invariant,
action property and refinement of the passing runs is proved. The findings are
counterexamples. `SomebodyComesBack` and `HeadOfLine` are proved and not part of a run.

## What the models show of the code's edges

Some behaviours are what the code does and no statement in the repository denies;
the properties are stated around them.

* **Delay queue.** An element may wait although it is due and a thread is idle. Two
  threads are in the untimed wait; a task with a delay is pushed and one of them goes
  to `wait_for`; a second push notifies that same thread, which takes the first task
  when it is due and is busy with it; `wait_pop` notifies nobody when it returns an
  element, so the second task waits until the first has returned, and the other
  thread sleeps on. `IdleOnlyByMisdirection` says that this is the only way to come
  to it, and `UndelayedNeverShorthanded` that it takes a delay. `AcceptedSettles` sees
  no more of it than that the wait ends, since every task returns.
* **Dispatcher.** A dispatcher destroyed without a stop executes what its pools have
  accepted, unless a task dispatches meanwhile, which is undefined. A task drained from one pool that dispatches to a pool stopped
  before it is refused: `dispatch` throws out of the task. In which direction
  depends on the hash order of the names.
* **Poll engine.** A stop followed by a start before the last poll has ended leaves
  two chains (`doubled`), as does start twice. A stop that overlaps a start may
  cancel nothing or cancel the new chain and leave `m_running` true (`raced`). A
  callback that stops its own engine is followed by one more poll in the queue,
  which finds `m_running` false. An exception ends the chain and leaves `m_running`
  true (`failed`). After `stop` has returned each worker may still call the
  callback once, so an engine must outlive its pool's tasks.
* **Request.** A start callback that throws leaves the request started; cancel then
  hands an invalid future to the cancel callback. A start after a cancel throws
  `bad_function_call` and leaves the request started.
* **Demo component.** `m_calculate_1_cancelled` is shared: a cancellation may end
  another calculation, and the reset of one that ends may undo the cancellation
  of another, which then runs to completion while the cancel task waits for it.
* **FIFO queue.** `remove` answers false whatever it removed.
* **Call forms.** Four declared forms do not compile, because `ptr2wrapper` is
  called without `utils::` (finding of `call_forms_documented`): `create_task` with a
  const member function on a pointer and with either kind of bare member function on
  a shared pointer, and `dispatch_or_execute` with a const member function on a
  pointer. A shared pointer that is not const, a pointer to const and a pointer to
  a derived class reach the forwarding overload and do not compile. A lvalue
  reference parameter of a functor is bound to the task's copy when the task is
  queued and to the caller's variable when it is executed inline.

## Not modelled

* Exceptions that are not `std::exception`: they leave `worker_thread` and
  terminate the process.
* Two threads in `start` or `stop` of one pool or dispatcher at a time: they use
  the vector `m_threads` without a lock, which is undefined behaviour, and nobody in
  the repository does it. A `stop` on a worker is modelled (`TaskDispatcher`). The
  data race on `m_threads` between `push_back` and `on_one_of_threads` appears only
  as the answer false.
* What a call does to a dispatcher that is being destroyed, and the destruction of one
  by a task, which would leave its own thread joinable and terminate the process.
* Overflow of due times, of sequence ids and of request ids.
* `set_poll_callback` and `set_poll_interval` of a running engine (the callback is
  not guarded), and the lifetime of the engine, to which queued polls refer with a
  plain pointer.
* Two callers of one request at a time: callbacks and future are not guarded.
* The rounds of a calculation, the values it computes and its reports on progress.
* `get_value`, `Expects`, `IsUniquePointer` and the version header: they compute or
  reject and keep nothing. A `Runtime` adds to its dispatcher that it is shared.
* Overload resolution beyond the receivers, functions and parameters listed in
  `CallForms`: overloaded functors, conversions of arguments, references to tasks
  of other types.

## Plan

Done: every module above with its runs, and the proofs of all invariants, action
properties and refinements that the runs check.

Left: theorems beyond the runs' properties. What `TaskService` promises of itself (a
task is executed or cancelled at most once, nothing is accepted after a halt) would
carry over to `ThreadPool` and to every pool of the dispatcher by the
refinements that are proved; likewise the order of delivery of `Channel` to
`FifoQueue`.
