------------------------------ MODULE DelayQueue ------------------------------
(***************************************************************************)
(* Queue<T, std::set<T, Cmp>>: a closable queue ordered by due time, whose *)
(* wait_pop blocks until the first element is due.                         *)
(*                                                                         *)
(* Every step below is one critical section of m_mutex, or one passage of  *)
(* a thread through m_cond. A consumer is one of the threads that call     *)
(* wait_pop over and over (ThreadPoolImpl::worker_thread):                 *)
(*   outside   it has not called wait_pop yet;                             *)
(*   ready     it is about to look at the queue, in wait_pop;              *)
(*   wait      it is in m_cond.wait: the queue was empty;                  *)
(*   wait_for  it is in m_cond.wait_for, until deadline;                   *)
(*   busy      wait_pop has returned held[c] to it;                        *)
(*   returned  wait_pop has returned the empty optional to it.             *)
(***************************************************************************)
EXTENDS TaskBase, FiniteSets

CONSTANTS Consumers,  \* threads that call wait_pop
          NoTask      \* the empty optional

ASSUME QueueAssumption == NoTask \notin Tasks /\ IsFiniteSet(Consumers)

VARIABLES
  m_elements,
  m_closed,
  notify_due,  \* a close() has set m_closed and not yet called notify_all
  pc,          \* per consumer
  deadline,    \* per consumer: when its wait_for times out
  held         \* per consumer: the element wait_pop returned

queueVars == <<m_elements, m_closed, notify_due, pc, deadline, held>>
vars == <<taskVars, queueVars>>

Location == {"outside", "ready", "wait", "wait_for", "busy", "returned"}

\* Threads blocked on m_cond.
Blocked == {c \in Consumers : pc[c] \in {"wait", "wait_for"}}

\* A task its submitter still owns: neither in the queue nor returned by it.
InHand(t) ==
  /\ m_promise[t] = "pending"
  /\ t \notin m_elements
  /\ \A c \in Consumers : held[c] # t

\* *m_elements.begin( )
IsFirst(t) ==
  /\ t \in m_elements
  /\ \A u \in m_elements \ {t} : Before(t, u)

\* std::set::insert: an element equivalent to one of the set is not inserted.
Insert(S, t) ==
  IF \E u \in S : ~Before(u, t) /\ ~Before(t, u) THEN S ELSE S \cup {t}

\* notify_one: some blocked thread, if there is one, returns to its loop.
NotifyOne ==
  IF Blocked = {}
    THEN UNCHANGED <<pc, deadline>>
    ELSE \E c \in Blocked : /\ pc' = [pc EXCEPT ![c] = "ready"]
                            /\ deadline' = [deadline EXCEPT ![c] = 0]

\* Mutant: cancellation reaches the tasks that workers run.
MatchingRunning(r) ==
  {t \in Tasks : /\ t \in m_elements \/ \E c \in Consumers : held[c] = t
                 /\ m_request_id[t] = r}

\* The elements whose request id is r.
Matching(r) == {t \in m_elements : m_request_id[t] = r}

-----------------------------------------------------------------------------
Init ==
  /\ TaskInit
  /\ m_elements = {}
  /\ m_closed = FALSE
  /\ notify_due = FALSE
  /\ pc = [c \in Consumers |-> "outside"]
  /\ deadline = [c \in Consumers |-> 0]
  /\ held = [c \in Consumers |-> NoTask]

\* Mutant: a thread is notified of the first element only.
PushNotifyingIfEmpty(t) ==
  /\ InHand(t) /\ ~m_closed
  /\ m_elements' = Insert(m_elements, t)
  /\ IF m_elements = {} THEN NotifyOne ELSE UNCHANGED <<pc, deadline>>
  /\ UNCHANGED <<taskVars, m_closed, notify_due, held>>

\* Mutant: nobody is notified.
PushNotifyingNobody(t) ==
  /\ InHand(t) /\ ~m_closed
  /\ m_elements' = Insert(m_elements, t)
  /\ UNCHANGED <<taskVars, pc, deadline, m_closed, notify_due, held>>

\* push: throws when closed (the element stays with the caller).
Push(t) ==
  /\ InHand(t)
  /\ ~m_closed
  /\ m_elements' = Insert(m_elements, t)
  /\ NotifyOne
  /\ UNCHANGED <<taskVars, m_closed, notify_due, held>>

\* close, first half: the flag, under the lock.
SetClosed ==
  /\ m_closed' = TRUE
  /\ notify_due' = TRUE
  /\ UNCHANGED <<taskVars, m_elements, pc, deadline, held>>

\* Mutant: close notifies one thread.
NotifyOneOnClose ==
  /\ notify_due
  /\ notify_due' = FALSE
  /\ NotifyOne
  /\ UNCHANGED <<taskVars, m_elements, m_closed, held>>

\* close, second half: the notification, after the lock is released.
NotifyAll ==
  /\ notify_due
  /\ notify_due' = FALSE
  /\ pc' = [c \in Consumers |-> IF c \in Blocked THEN "ready" ELSE pc[c]]
  /\ deadline' = [c \in Consumers |-> 0]
  /\ UNCHANGED <<taskVars, m_elements, m_closed, held>>

\* remove: every element with request id r is erased and destroyed.
Remove(r) ==
  /\ m_elements' = m_elements \ Matching(r)
  /\ Discard(Matching(r))
  /\ UNCHANGED <<m_closed, notify_due, pc, deadline, held>>

\* ~Queue: the elements go with it.
DestroyElements ==
  /\ m_elements' = {}
  /\ Discard(m_elements)
  /\ UNCHANGED <<m_closed, notify_due, pc, deadline, held>>

\* A queue may be destroyed when close( ) has returned and no thread is in
\* wait_pop or about to call it.
Destruct ==
  /\ m_closed /\ ~notify_due
  /\ \A c \in Consumers : pc[c] \in {"outside", "returned"}
  /\ DestroyElements

-----------------------------------------------------------------------------
\* A consumer thread makes its first call of wait_pop.
Enter(c) ==
  /\ pc[c] = "outside"
  /\ pc' = [pc EXCEPT ![c] = "ready"]
  /\ UNCHANGED <<taskVars, m_elements, m_closed, notify_due, deadline, held>>

\* wait_pop, first element due, queue open or closed: extract and return it.
Pop(c) ==
  /\ pc[c] = "ready"
  /\ \E t \in m_elements :
       /\ IsFirst(t)
       /\ Delay(t) <= 0
       /\ m_elements' = m_elements \ {t}
       /\ held' = [held EXCEPT ![c] = t]
  /\ pc' = [pc EXCEPT ![c] = "busy"]
  /\ UNCHANGED <<taskVars, m_closed, notify_due, deadline>>

\* wait_pop, first element not due, queue open or closed: wait_for its delay.
WaitForFirst(c) ==
  /\ pc[c] = "ready"
  /\ \E t \in m_elements :
       /\ IsFirst(t)
       /\ Delay(t) > 0
       /\ deadline' = [deadline EXCEPT ![c] = now + Delay(t) * Res]
  /\ pc' = [pc EXCEPT ![c] = "wait_for"]
  /\ UNCHANGED <<taskVars, m_elements, m_closed, notify_due, held>>

\* wait_pop, empty and open: wait without a timeout.
WaitForElement(c) ==
  /\ pc[c] = "ready"
  /\ m_elements = {}
  /\ ~m_closed
  /\ pc' = [pc EXCEPT ![c] = "wait"]
  /\ UNCHANGED <<taskVars, m_elements, m_closed, notify_due, deadline, held>>

\* Mutant: a closed queue is not drained.
ReturnOnClose(c) ==
  /\ pc[c] = "ready"
  /\ m_closed
  /\ pc' = [pc EXCEPT ![c] = "returned"]
  /\ UNCHANGED <<taskVars, m_elements, m_closed, notify_due, deadline, held>>

\* wait_pop, empty and closed: return the empty optional.
ReturnEmpty(c) ==
  /\ pc[c] = "ready"
  /\ m_elements = {}
  /\ m_closed
  /\ pc' = [pc EXCEPT ![c] = "returned"]
  /\ UNCHANGED <<taskVars, m_elements, m_closed, notify_due, deadline, held>>

\* wait_for reaches its timeout.
Timeout(c) ==
  /\ pc[c] = "wait_for"
  /\ now >= deadline[c]
  /\ pc' = [pc EXCEPT ![c] = "ready"]
  /\ deadline' = [deadline EXCEPT ![c] = 0]
  /\ UNCHANGED <<taskVars, m_elements, m_closed, notify_due, held>>

\* A condition variable may wake a thread for no reason.
SpuriousWakeup(c) ==
  /\ c \in Blocked
  /\ pc' = [pc EXCEPT ![c] = "ready"]
  /\ deadline' = [deadline EXCEPT ![c] = 0]
  /\ UNCHANGED <<taskVars, m_elements, m_closed, notify_due, held>>

\* The consumer runs the element, destroys it and calls wait_pop again.
Consume(c, outcome) ==
  /\ pc[c] = "busy"
  /\ Run(held[c], outcome)
  /\ held' = [held EXCEPT ![c] = NoTask]
  /\ pc' = [pc EXCEPT ![c] = "ready"]
  /\ UNCHANGED <<m_elements, m_closed, notify_due, deadline>>

-----------------------------------------------------------------------------
WaitPop(c) == Pop(c) \/ WaitForFirst(c) \/ WaitForElement(c) \/ ReturnEmpty(c)

Producer(t) ==
  \/ Construct(t) /\ UNCHANGED queueVars
  \/ InHand(t) /\ (\E d \in Delays : SetDueTime(t, d)) /\ UNCHANGED queueVars
  \/ InHand(t) /\ (\E r \in RequestIds : SetRequestId(t, r)) /\ UNCHANGED queueVars
  \/ Push(t)
  \/ InHand(t) /\ Discard({t}) /\ UNCHANGED queueVars

Consumer(c) ==
  \/ Enter(c)
  \/ WaitPop(c)
  \/ Timeout(c)
  \/ SpuriousWakeup(c)
  \/ \E outcome \in Outcome : Consume(c, outcome)

Next ==
  \/ \E t \in Tasks : Producer(t)
  \/ \E c \in Consumers : Consumer(c)
  \/ SetClosed
  \/ NotifyAll
  \/ \E r \in RequestIds \cup {0} : Remove(r)
  \/ Destruct
  \/ Tick /\ UNCHANGED queueVars

Spec == Init /\ [][Next]_vars

-----------------------------------------------------------------------------
TypeOK ==
  /\ TaskTypeOK
  /\ m_elements \subseteq Tasks
  /\ m_closed \in BOOLEAN
  /\ notify_due \in BOOLEAN
  /\ pc \in [Consumers -> Location]
  /\ deadline \in [Consumers -> 0..MaxTime]
  /\ held \in [Consumers -> Tasks \cup {NoTask}]

\* Two task objects never compare equivalent, whatever their due times: the
\* set of the queue orders them one way, and insert refuses no new task.
KeysDistinct ==
  \A s, t \in Constructed :
    s # t => Before(s, t) # Before(t, s)

\* A task has one owner: the queue, or the one consumer it was returned to,
\* and it is unsatisfied as long as it has one.
OneOwner ==
  /\ \A t \in m_elements : m_promise[t] = "pending"
  /\ \A c \in Consumers : (pc[c] = "busy") = (held[c] # NoTask)
  /\ \A c \in Consumers : held[c] # NoTask =>
       /\ m_promise[held[c]] = "pending"
       /\ held[c] \notin m_elements
       /\ \A d \in Consumers \ {c} : held[d] # held[c]

\* Not everybody oversleeps: while the queue holds elements and a consumer is
\* blocked, some consumer is about to look at the queue, or looks at it when
\* the element it runs has returned, or sleeps no longer than to the
\* millisecond in which the first element is due.
SomebodyComesBack ==
  Blocked # {} /\ m_elements # {} =>
    \E c \in Consumers :
      \/ pc[c] \in {"ready", "busy"}
      \/ pc[c] = "wait_for" /\ \A t \in m_elements : deadline[c] \div Res <= DueTime(t)

\* The consumers that come to look at the queue without a further push, and
\* without an element to run first.
OnTheWay == {c \in Consumers : pc[c] \in {"ready", "wait_for"}}

\* An idle thread sleeps without a timeout although the queue holds more
\* elements than threads are on their way to it: one of the elements has to
\* wait, due or not, until a busy thread comes back.
Shorthanded ==
  /\ \E c \in Consumers : pc[c] = "wait"
  /\ Cardinality(m_elements) > Cardinality(OnTheWay)

\* An idle thread is left asleep beside an element that has no thread of its
\* own only by a push whose notify_one reaches a thread that sleeps until a
\* due time and so was on its way already. wait_pop hands no wakeup on when
\* it returns an element, and does not need to for any other reason: pops,
\* timeouts, cancellations and tasks that return never leave a thread out.
IdleOnlyByMisdirection ==
  [][~Shorthanded /\ Shorthanded' =>
       /\ m_elements' # m_elements
       /\ \E c \in Consumers : pc[c] = "wait_for" /\ pc'[c] = "ready"]_vars

\* close reaches everyone: after its notify_all nobody is in the wait without
\* timeout, and nobody enters it again, so no thread sleeps through a stop.
CloseReachesAll ==
  m_closed /\ ~notify_due => \A c \in Consumers : pc[c] # "wait"

\* A consumer that was told the queue is finished was told the truth: it is
\* closed and empty, and stays so.
ReturnedMeansDrained ==
  (\E c \in Consumers : pc[c] = "returned") => m_closed /\ m_elements = {}

\* A task whose delay is 0 is held up by a first element that is not due yet
\* only if both fall due in the same millisecond.
HeadOfLine ==
  \A h, t \in m_elements :
    IsFirst(h) /\ Delay(h) > 0 /\ Delay(t) = 0 => DueTime(h) = DueTime(t)

\* wait_pop returns no element a millisecond or more before it is due, and
\* none while another one is due in an earlier millisecond.
PopsInDueOrder ==
  [][\A c \in Consumers : held[c] = NoTask /\ held'[c] # NoTask =>
       /\ m_due_time[held'[c]] - now < Res
       /\ \A u \in m_elements : DueTime(held'[c]) <= DueTime(u)]_vars
=============================================================================
