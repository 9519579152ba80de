--------------------------- MODULE ThreadPoolProofs ---------------------------
(***************************************************************************)
(* The pool implements its queue, so that every theorem of                 *)
(* DelayQueueProofs holds of it; it loses no task; and stop executes all   *)
(* of them. For every number of threads, clients and tasks.                *)
(***************************************************************************)
EXTENDS ThreadPool, DelayQueueProofs

USE DEF ownerVars, callVars

\* Which threads exist, and how far the owner has come.
Threads ==
  /\ \A w \in Consumers : pc[w] # "outside" => w \in m_threads \cup {spawning}
  /\ \A w \in joined : pc[w] = "returned"
  /\ spawning # NoThread => owner = "push_back"
  /\ owner = "push_back" => spawning \in Consumers /\ spawned < ThreadsCount
  /\ notify_due => owner = "notify"
  /\ owner \in {"notify", "join", "destroyed"} => m_closed

PoolInv ==
  /\ Inv
  /\ PoolTypeOK
  /\ Threads
  /\ accepted \subseteq Constructed
  /\ NoTaskLost

-----------------------------------------------------------------------------
\* Every step of the pool is a step of its queue or leaves the queue alone.
LEMMA OwnerImplements ==
  ASSUME PoolInv, Owner
  PROVE  [Next]_vars
<1>1. CASE \E w \in Consumers : SpawnThread(w)
  BY <1>1 DEF SpawnThread, Next, Consumer
<1>2. CASE CloseQueue \/ CloseNotifies
  BY <1>2 DEF CloseQueue, CloseNotifies, Next
<1>3. CASE DestroyReturns
  <2>1. m_closed /\ ~notify_due /\ spawning = NoThread /\ m_threads \subseteq joined
    BY <1>3 DEF DestroyReturns, PoolInv, Threads
  <2>2. \A c \in Consumers : pc[c] \in {"outside", "returned"}
    BY <2>1, PoolAssumption DEF PoolInv, Threads
  <2> QED BY <1>3, <2>1, <2>2 DEF DestroyReturns, Destruct, Next
<1>4. CASE Start \/ SpawnFails \/ PushBackThread \/ StartReturns \/ Stop \/ Destroy
             \/ (\E w \in Consumers : JoinThread(w)) \/ StopReturns
  BY <1>4 DEF Start, SpawnFails, PushBackThread, StartReturns, Stop, Destroy, JoinThread,
    StopReturns
<1> QED BY <1>1, <1>2, <1>3, <1>4 DEF Owner

LEMMA CallerImplements ==
  ASSUME PoolInv, NEW c \in Callers, Caller(c)
  PROVE  [Next]_vars
<1>1. CASE AddTaskPush(c)
  <2>1. adding[c] \in Tasks
    BY <1>1 DEF AddTaskPush, PoolInv, PoolTypeOK
  <2> QED BY <1>1, <2>1 DEF AddTaskPush, Next, Producer
<1>2. CASE \E r \in RequestIds \cup {0} : CancelPending(c, r)
  BY <1>2 DEF CancelPending, Next
<1>3. CASE (\E t \in Tasks : AddTaskCheck(c, t)) \/ AddTaskThrows(c)
  BY <1>3 DEF AddTaskCheck, AddTaskThrows
<1> QED BY <1>1, <1>2, <1>3 DEF Caller

LEMMA WorkerImplements ==
  ASSUME NEW w \in Consumers, Worker(w)
  PROVE  [Next]_vars
BY DEF Worker, RunTask, Next, Consumer

LEMMA SubmitterImplements ==
  ASSUME NEW t \in Tasks, Submitter(t), UNCHANGED queueVars
  PROVE  [Next]_vars
BY DEF Submitter, Unshared, Next, Producer

LEMMA StepImplements ==
  ASSUME PoolInv, [PoolNext]_allVars
  PROVE  [Next]_vars
<1>1. CASE Tick /\ UNCHANGED <<queueVars, poolVars>>
  BY <1>1 DEF Next
<1>2. CASE UNCHANGED allVars
  BY <1>2 DEF allVars
<1>3. ASSUME NEW t \in Tasks, Submitter(t), UNCHANGED <<queueVars, poolVars>>
      PROVE  [Next]_vars
  BY <1>3, SubmitterImplements
<1> QED BY <1>1, <1>2, <1>3, OwnerImplements, CallerImplements, WorkerImplements DEF PoolNext

-----------------------------------------------------------------------------
LEMMA PoolTypeStep ==
  ASSUME TypeOK', PoolTypeOK, Threads, PoolNext
  PROVE  PoolTypeOK'
<1> USE DEF PoolTypeOK, OwnerLocation
<1>1. CASE Owner
  <2>1. ASSUME NEW w \in Consumers, SpawnThread(w) PROVE PoolTypeOK'
    BY <2>1 DEF SpawnThread
  <2>2. CASE PushBackThread
    <3>1. m_threads' \subseteq Consumers
      BY <2>2 DEF PushBackThread, Threads
    <3>2. spawned' \in 0..ThreadsCount
      BY <2>2, PoolAssumption DEF PushBackThread, Threads
    <3> QED BY <2>2, <3>1, <3>2 DEF PushBackThread
  <2>3. ASSUME NEW w \in Consumers, JoinThread(w) PROVE PoolTypeOK'
    BY <2>3 DEF JoinThread
  <2>4. CASE Start
    <3>1. spawned' \in 0..ThreadsCount
      BY <2>4, PoolAssumption DEF Start
    <3> QED BY <2>4, <3>1 DEF Start
  <2>5. CASE \/ Stop \/ Destroy \/ SpawnFails \/ StartReturns
             \/ CloseQueue \/ CloseNotifies \/ StopReturns
               \/ DestroyReturns
    BY <2>5 DEF Stop, Destroy, SpawnFails, StartReturns, CloseQueue, CloseNotifies,
      StopReturns, DestroyReturns
  <2> QED BY <1>1, <2>1, <2>2, <2>3, <2>4, <2>5 DEF Owner
<1>2. ASSUME NEW c \in Callers, Caller(c) PROVE PoolTypeOK'
  BY <1>2 DEF Caller, AddTaskCheck, AddTaskPush, AddTaskThrows, CancelPending, poolVars
<1>3. CASE UNCHANGED poolVars
  BY <1>3 DEF poolVars
<1> QED BY <1>1, <1>2, <1>3 DEF PoolNext, Worker, RunTask

-----------------------------------------------------------------------------
LEMMA ThreadsStep ==
  ASSUME TypeOK, PoolTypeOK, Threads, PoolNext
  PROVE  Threads'
<1>0. pc \in [Consumers -> Location] /\ joined \subseteq m_threads /\ m_threads \subseteq Consumers
  BY DEF TypeOK, PoolTypeOK
<1>1. CASE Owner
  <2>1. CASE Start
    BY <2>1, PoolAssumption DEF Start, Threads, vars, queueVars
  <2>2. ASSUME NEW w \in Consumers, SpawnThread(w) PROVE Threads'
    <3>1. /\ pc[w] = "outside" /\ pc' = [pc EXCEPT ![w] = "ready"]
          /\ spawning = NoThread /\ spawning' = w /\ spawned < ThreadsCount
          /\ owner = "start" /\ owner' = "push_back"
          /\ UNCHANGED <<m_threads, joined, spawned, m_closed, notify_due>>
      BY <2>2 DEF SpawnThread, Enter, Threads
    <3>2. notify_due = FALSE
      BY <3>1 DEF Threads, TypeOK
    <3>3. \A v \in Consumers : pc'[v] # "outside" => v \in m_threads' \cup {spawning'}
      BY <1>0, <3>1, PoolAssumption DEF Threads
    <3>4. \A v \in joined' : pc'[v] = "returned"
      BY <1>0, <3>1 DEF Threads
    <3> QED BY <3>1, <3>2, <3>3, <3>4 DEF Threads
  <2>3. CASE SpawnFails \/ StartReturns
    BY <2>3 DEF SpawnFails, StartReturns, Threads, vars, queueVars
  <2>4. CASE PushBackThread
    BY <2>4 DEF PushBackThread, Threads, vars, queueVars
  <2>5. CASE Stop \/ Destroy
    BY <2>5 DEF Stop, Destroy, Threads, vars, queueVars
  <2>6. CASE CloseQueue
    BY <2>6 DEF CloseQueue, SetClosed, Threads
  <2>7. CASE CloseNotifies
    <3>1. \A w \in Consumers : /\ pc[w] = "returned" => pc'[w] = "returned"
                               /\ pc'[w] # "outside" => pc[w] # "outside"
      BY <1>0, <2>7 DEF CloseNotifies, NotifyAll, Blocked
    <3> QED BY <1>0, <2>7, <3>1 DEF CloseNotifies, NotifyAll, Threads
  <2>8. ASSUME NEW w \in Consumers, JoinThread(w) PROVE Threads'
    BY <2>8 DEF JoinThread, Threads, vars, queueVars
  <2>9. CASE StopReturns
    BY <2>9 DEF StopReturns, Threads, vars, queueVars
  <2>10. CASE DestroyReturns
    BY <2>10 DEF DestroyReturns, DestroyElements, Threads
  <2> QED BY <1>1, <2>1, <2>2, <2>3, <2>4, <2>5, <2>6, <2>7, <2>8, <2>9, <2>10 DEF Owner
<1>2. ASSUME UNCHANGED <<m_threads, joined, owner, spawned, spawning, m_closed, notify_due>>,
             \A w \in Consumers : /\ pc[w] = "returned" => pc'[w] = "returned"
                                  /\ pc'[w] # "outside" => pc[w] # "outside"
      PROVE  Threads'
  BY <1>0, <1>2 DEF Threads
<1>3. ASSUME NEW c \in Callers, Caller(c) PROVE Threads'
  <2>1. ASSUME NEW t \in Tasks, AddTaskCheck(c, t) PROVE Threads'
    BY <1>2, <2>1 DEF AddTaskCheck, vars, queueVars
  <2>2. CASE AddTaskPush(c)
    <3>1. \A w \in Consumers : /\ pc[w] = "returned" => pc'[w] = "returned"
                               /\ pc'[w] # "outside" => pc[w] # "outside"
      BY <1>0, <2>2 DEF AddTaskPush, Push, NotifyOne, Blocked
    <3> QED BY <1>2, <2>2, <3>1 DEF AddTaskPush, Push
  <2>3. CASE AddTaskThrows(c)
    BY <1>2, <2>3 DEF AddTaskThrows, vars, queueVars
  <2>4. ASSUME NEW r, CancelPending(c, r) PROVE Threads'
    BY <1>2, <2>4 DEF CancelPending, Remove, poolVars
  <2> QED BY <1>3, <2>1, <2>2, <2>3, <2>4 DEF Caller
<1>4. ASSUME NEW w \in Consumers, Worker(w) PROVE Threads'
  <2>1. /\ UNCHANGED <<poolVars, m_closed, notify_due>>
        /\ pc[w] \notin {"outside", "returned"}
        /\ \A v \in Consumers \ {w} : pc'[v] = pc[v]
    BY <1>0, <1>4 DEF Worker, WaitPop, Pop, WaitForFirst, WaitForElement, ReturnEmpty, Timeout,
      SpuriousWakeup, Blocked, RunTask, Consume
  <2> QED BY <1>2, <2>1 DEF poolVars
<1>5. CASE UNCHANGED <<queueVars, poolVars>>
  BY <1>2, <1>5 DEF queueVars, poolVars
<1> QED BY <1>1, <1>3, <1>4, <1>5 DEF PoolNext

-----------------------------------------------------------------------------
\* No two tasks compare equivalent, hence insert inserts.
LEMMA PushInserts ==
  ASSUME Inv, NEW t \in Tasks, Push(t)
  PROVE  m_elements' = m_elements \cup {t}
<1>1. t \in Constructed /\ t \notin m_elements
  BY DEF Push, InHand, Constructed
<1>2. \A u \in m_elements : u \in Constructed /\ u # t
  BY <1>1 DEF Inv, OneOwner, TypeOK, Constructed
<1>3. \A u \in m_elements : Before(u, t) \/ Before(t, u)
  BY <1>1, <1>2, InvKeysDistinct DEF KeysDistinct, Before
<1> QED BY <1>3 DEF Push, Insert

\* A task once made stays made.
LEMMA ConstructedGrows ==
  ASSUME TypeOK, [Next]_vars
  PROVE  Constructed \subseteq Constructed'
<1>1. ASSUME NEW S, Discard(S) PROVE Constructed \subseteq Constructed'
  BY <1>1 DEF Discard, Constructed
<1>2. ASSUME NEW t, NEW outcome, Run(t, outcome) PROVE Constructed \subseteq Constructed'
  BY <1>2 DEF Run, Constructed, Outcome, TypeOK, TaskTypeOK
<1>3. ASSUME NEW t \in Tasks, Construct(t) PROVE Constructed \subseteq Constructed'
  BY <1>3 DEF Construct, Constructed, TypeOK, TaskTypeOK
<1>4. CASE UNCHANGED m_promise
  BY <1>4 DEF Constructed
<1>5. ASSUME NEW t \in Tasks, Producer(t) PROVE Constructed \subseteq Constructed'
  BY <1>1, <1>3, <1>4, <1>5 DEF Producer, SetDueTime, SetRequestId, Push, taskVars
<1>6. ASSUME NEW c \in Consumers, Consumer(c) PROVE Constructed \subseteq Constructed'
  BY <1>2, <1>4, <1>6 DEF Consumer, Enter, WaitPop, Pop, WaitForFirst, WaitForElement,
    ReturnEmpty, Timeout, SpuriousWakeup, Consume, taskVars
<1>7. CASE Destruct \/ \E r \in RequestIds \cup {0} : Remove(r)
  BY <1>1, <1>7 DEF Destruct, DestroyElements, Remove
<1>8. CASE SetClosed \/ NotifyAll \/ Tick
  BY <1>4, <1>8 DEF SetClosed, NotifyAll, Tick, taskVars
<1>9. CASE UNCHANGED vars
  BY <1>4, <1>9 DEF vars, taskVars
<1> QED BY <1>5, <1>6, <1>7, <1>8, <1>9 DEF Next

\* A step that moves no task and settles none keeps the accounts.
LEMMA AccountsUnmoved ==
  ASSUME NoTaskLost, UNCHANGED <<m_elements, held, m_promise, accepted>>
  PROVE  NoTaskLost'
BY DEF NoTaskLost, Queued, Held

LEMMA NoTaskLostStep ==
  ASSUME PoolInv, PoolNext
  PROVE  NoTaskLost'
<1>0. /\ m_elements \subseteq Tasks /\ accepted \subseteq Constructed
      /\ held \in [Consumers -> Tasks \cup {NoTask}]
      /\ pc \in [Consumers -> Location]
      /\ m_promise \in [Tasks -> PromiseState]
      /\ NoTaskLost /\ OneOwner /\ Inv
  BY DEF PoolInv, Inv, TypeOK, TaskTypeOK
<1>1. ASSUME NEW S, Discard(S), accepted' = accepted, held' = held,
             m_elements' \subseteq m_elements, m_elements \ m_elements' \subseteq S
      PROVE  NoTaskLost'
  <2>1. \A t \in Tasks : m_promise'[t] = IF t \in S /\ m_promise[t] = "pending"
                                         THEN "broken" ELSE m_promise[t]
    BY <1>1 DEF Discard
  <2>2. \A t \in Tasks : m_promise'[t] = "pending" => m_promise[t] = "pending" /\ t \notin S
    BY <2>1
  <2>3. \A t \in Tasks : m_promise'[t] \in Outcome => m_promise[t] \in Outcome
    BY <2>1 DEF Outcome
  <2>4. \A t \in Tasks : Held(t)' = Held(t)
    BY <1>1 DEF Held
  <2>5. \A t \in Tasks : Queued(t)' => Queued(t)
    BY <1>1 DEF Queued
  <2>6. \A t \in Tasks : Queued(t) /\ t \notin S => Queued(t)'
    BY <1>1 DEF Queued
  <2> QED BY <1>0, <1>1, <2>2, <2>3, <2>4, <2>5, <2>6 DEF NoTaskLost
<1>2. CASE Owner
  <2>1. CASE DestroyReturns
    BY <1>1, <2>1 DEF DestroyReturns, DestroyElements
  <2>2. CASE ~DestroyReturns
    BY <1>0, <1>2, <2>2, AccountsUnmoved DEF Owner, Start, SpawnThread, Enter, SpawnFails,
      PushBackThread, StartReturns, Stop, Destroy, CloseQueue, SetClosed, CloseNotifies,
      NotifyAll, JoinThread, StopReturns, vars, taskVars, queueVars
  <2> QED BY <2>1, <2>2
<1>3. ASSUME NEW c \in Callers, Caller(c) PROVE NoTaskLost'
  <2>1. CASE AddTaskPush(c)
    <3> DEFINE t == adding[c]
    <3>1. t \in Tasks /\ Push(t) /\ accepted' = accepted \cup {t}
      BY <2>1 DEF AddTaskPush, PoolInv, PoolTypeOK
    <3>2. m_elements' = m_elements \cup {t} /\ UNCHANGED <<held, m_promise>>
      BY <1>0, <3>1, PushInserts DEF Push, taskVars
    <3> HIDE DEF t
    <3> QED BY <1>0, <3>1, <3>2 DEF NoTaskLost, Queued, Held
  <2>2. ASSUME NEW r, CancelPending(c, r) PROVE NoTaskLost'
    BY <1>1, <2>2 DEF CancelPending, Remove, poolVars
  <2>3. CASE (\E t \in Tasks : AddTaskCheck(c, t)) \/ AddTaskThrows(c)
    BY <1>0, <2>3, AccountsUnmoved DEF AddTaskCheck, AddTaskThrows, vars, taskVars, queueVars
  <2> QED BY <1>3, <2>1, <2>2, <2>3 DEF Caller
<1>4. ASSUME NEW w \in Consumers, Worker(w) PROVE NoTaskLost'
  <2>1. CASE Pop(w) /\ UNCHANGED poolVars
    <3>1. PICK t \in m_elements : /\ m_elements' = m_elements \ {t}
                                 /\ held' = [held EXCEPT ![w] = t]
      BY <2>1 DEF Pop
    <3>2. held[w] = NoTask /\ UNCHANGED <<m_promise, accepted>>
      BY <1>0, <2>1 DEF Pop, OneOwner, taskVars, poolVars
    <3>3. \A u \in Tasks : Queued(u)' \/ Held(u)' <=> Queued(u) \/ Held(u)
      BY <1>0, <3>1, <3>2, QueueAssumption DEF Queued, Held
    <3> QED BY <1>0, <3>2, <3>3 DEF NoTaskLost
  <2>2. ASSUME NEW outcome \in Outcome, RunTask(w, outcome) PROVE NoTaskLost'
    <3> DEFINE t == held[w]
    <3>1. t \in Tasks /\ m_promise[t] = "pending" /\ t \in accepted
      BY <1>0, <2>2 DEF RunTask, Consume, OneOwner, NoTaskLost, Held
    <3>2. /\ m_promise' = [m_promise EXCEPT ![t] = outcome]
          /\ held' = [held EXCEPT ![w] = NoTask]
          /\ UNCHANGED <<m_elements, accepted>>
      BY <1>0, <2>2, <3>1 DEF RunTask, Consume, Run, poolVars
    <3>3. \A u \in Tasks \ {t} : (Queued(u) \/ Held(u))' <=> Queued(u) \/ Held(u)
      BY <1>0, <3>2, QueueAssumption DEF Queued, Held
    <3> HIDE DEF t
    <3>4. \A u \in Tasks \ {t} : m_promise'[u] = m_promise[u]
      BY <1>0, <3>2
    <3>5. m_promise'[t] \in Outcome /\ m_promise'[t] # "pending"
      BY <1>0, <3>1, <3>2 DEF Outcome
    <3> QED BY <1>0, <3>1, <3>2, <3>3, <3>4, <3>5 DEF NoTaskLost
  <2>3. CASE UNCHANGED poolVars /\ (\/ WaitForFirst(w) \/ WaitForElement(w) \/ ReturnEmpty(w)
                                   \/ Timeout(w) \/ SpuriousWakeup(w))
    BY <1>0, <2>3, AccountsUnmoved DEF WaitForFirst, WaitForElement, ReturnEmpty, Timeout,
      SpuriousWakeup, taskVars, poolVars
  <2> QED BY <1>4, <2>1, <2>2, <2>3 DEF Worker, WaitPop
<1>5. ASSUME NEW t \in Tasks, Submitter(t), UNCHANGED <<queueVars, poolVars>>
      PROVE  NoTaskLost'
  <2>1. CASE Construct(t)
    <3>1. t \notin accepted /\ \A u \in Tasks \ {t} : m_promise'[u] = m_promise[u]
      BY <1>0, <2>1 DEF Construct, Constructed
    <3>2. m_promise'[t] = "pending"
      BY <1>0, <2>1 DEF Construct
    <3> QED BY <1>0, <1>5, <3>1, <3>2 DEF NoTaskLost, Queued, Held, Outcome, queueVars, poolVars,
      Construct, OneOwner
  <2>2. CASE Discard({t})
    BY <1>1, <1>5, <2>2 DEF queueVars, poolVars
  <2>3. CASE (\E d \in Delays : SetDueTime(t, d)) \/ (\E r \in RequestIds : SetRequestId(t, r))
    BY <1>0, <1>5, <2>3, AccountsUnmoved DEF SetDueTime, SetRequestId, queueVars, poolVars
  <2> QED BY <1>5, <2>1, <2>2, <2>3 DEF Submitter
<1>6. CASE Tick /\ UNCHANGED <<queueVars, poolVars>>
  BY <1>0, <1>6, AccountsUnmoved DEF Tick, queueVars, poolVars
<1> QED BY <1>2, <1>3, <1>4, <1>5, <1>6 DEF PoolNext

LEMMA AcceptedConstructedStep ==
  ASSUME PoolInv, PoolNext
  PROVE  accepted' \subseteq Constructed'
<1>1. accepted \subseteq Constructed'
  BY StepImplements, ConstructedGrows DEF PoolInv, Inv
<1>2. ASSUME NEW c \in Callers, AddTaskPush(c) PROVE accepted' \subseteq Constructed'
  <2>1. /\ adding[c] \in Tasks /\ accepted' = accepted \cup {adding[c]}
        /\ m_promise'[adding[c]] = "pending"
    BY <1>2 DEF AddTaskPush, Push, InHand, taskVars, PoolInv, PoolTypeOK
  <2> QED BY <1>1, <2>1 DEF Constructed
<1>3. CASE accepted' = accepted
  BY <1>1, <1>3
<1> QED
  BY <1>2, <1>3 DEF PoolNext, Owner, Start, SpawnThread, SpawnFails, PushBackThread,
    StartReturns, Stop, Destroy, CloseQueue, CloseNotifies, JoinThread, StopReturns,
    DestroyReturns, Caller, AddTaskCheck, AddTaskThrows, CancelPending, Worker, RunTask, poolVars

-----------------------------------------------------------------------------
LEMMA PoolInvInit == PoolInit => PoolInv
<1> SUFFICES ASSUME PoolInit PROVE PoolInv
  OBVIOUS
<1>1. Inv
  BY InvInit DEF PoolInit
<1>2. PoolTypeOK
  <2>1. 0 \in 0..ThreadsCount /\ TypeOK
    BY <1>1, PoolAssumption DEF Inv
  <2> QED BY <2>1 DEF PoolInit, PoolTypeOK, OwnerLocation
<1>3. Threads
  BY DEF PoolInit, Init, Threads
<1>4. accepted \subseteq Constructed
  BY DEF PoolInit
<1>5. NoTaskLost
  BY QueueAssumption DEF PoolInit, Init, TaskInit, NoTaskLost, Queued, Held, Outcome
<1> QED BY <1>1, <1>2, <1>3, <1>4, <1>5 DEF PoolInv

LEMMA PoolInvStep == PoolInv /\ [PoolNext]_allVars => PoolInv'
<1> SUFFICES ASSUME PoolInv, [PoolNext]_allVars PROVE PoolInv'
  OBVIOUS
<1>1. CASE PoolNext
  <2>1. Inv'
    BY StepImplements, InvStep DEF PoolInv
  <2>2. TypeOK /\ TypeOK'
    BY <2>1 DEF PoolInv, Inv
  <2> QED BY <1>1, <2>1, <2>2, PoolTypeStep, ThreadsStep, AcceptedConstructedStep, NoTaskLostStep
    DEF PoolInv
<1>2. CASE UNCHANGED allVars
  <2>1. Inv'
    BY StepImplements, InvStep DEF PoolInv
  <2>2. PoolTypeOK'
    BY <1>2, <2>1 DEF PoolInv, Inv, PoolTypeOK, allVars, poolVars
  <2>3. Threads'
    BY <1>2 DEF PoolInv, Threads, allVars, poolVars, vars, queueVars
  <2>4. NoTaskLost' /\ accepted' \subseteq Constructed'
    BY <1>2, AccountsUnmoved DEF PoolInv, Constructed, allVars, poolVars, vars, queueVars, taskVars
  <2> QED BY <2>1, <2>2, <2>3, <2>4 DEF PoolInv
<1> QED BY <1>1, <1>2

\* The inductive invariant of the pool.
THEOREM PoolInvariant == PoolSpec => []PoolInv
BY PoolInvInit, PoolInvStep, PTL DEF PoolSpec

\* The vector of threads, the owner and the accounts have their types; joined
\* threads are threads of the vector.
THEOREM PoolTypeCorrect == PoolSpec => []PoolTypeOK
<1>1. PoolInv => PoolTypeOK
  BY DEF PoolInv
<1> QED BY <1>1, PoolInvariant, PTL

\* The pool uses the queue as it may be used. With it every theorem about the
\* specification of the queue is one about the pool.
THEOREM PoolImplementsQueue == PoolSpec => ImplementsQueue
<1>1. PoolInit => Init
  BY DEF PoolInit
<1>2. PoolInv /\ [PoolNext]_allVars => [Next]_vars
  BY StepImplements
<1> QED BY <1>1, <1>2, PoolInvariant, PTL DEF PoolSpec, ImplementsQueue, Spec

\* PoolImplementsQueue at work: in the pool too only a push whose notification
\* reaches a thread in the timed wait leaves an idle worker asleep beside a task
\* that no worker is on its way to.
THEOREM PoolIdlesOnlyByMisdirection == PoolSpec => IdleOnlyByMisdirection
BY PoolImplementsQueue, OnlyMisdirectionIdles, PTL DEF ImplementsQueue

\* A pool whose tasks are not delayed has no such worker at all.
THEOREM UndelayedPoolNeverShorthanded ==
  ASSUME NoDelays
  PROVE  PoolSpec => []~Shorthanded
BY PoolImplementsQueue, UndelayedNeverShorthanded, PTL DEF ImplementsQueue

\* add_task keeps its word.
THEOREM PoolLosesNoTask == PoolSpec => []NoTaskLost
<1>1. PoolInv => NoTaskLost
  BY DEF PoolInv
<1> QED BY <1>1, PoolInvariant, PTL

\* When the pool has halted every thread of it has returned, hence the queue
\* is empty and nobody holds a task.
LEMMA HaltedIsIdle ==
  ASSUME PoolInv, Halted, NEW t \in Tasks
  PROVE  ~Queued(t) /\ ~Held(t)
<1>1. PICK w \in joined : w \in Consumers /\ pc[w] = "returned"
  BY DEF Halted, PoolInv, Threads, PoolTypeOK
<1>2. m_elements = {}
  BY <1>1 DEF PoolInv, Inv, ReturnedMeansDrained
<1>3. spawning = NoThread
  BY DEF Halted, PoolInv, Threads
<1>4. \A v \in Consumers : pc[v] # "busy"
  BY <1>3, PoolAssumption DEF Halted, PoolInv, Threads
<1>5. \A v \in Consumers : held[v] = NoTask
  BY <1>4 DEF PoolInv, Inv, OneOwner
<1> QED BY <1>2, <1>5, QueueAssumption DEF Queued, Held

\* stop executes all tasks that were added, if the pool has had a thread.
THEOREM StopExecutes == PoolSpec => []StopExecutesAll
<1>1. PoolInv => StopExecutesAll
  <2> SUFFICES ASSUME PoolInv, Halted, NEW t \in accepted
               PROVE  m_promise[t] \in Settled
    BY DEF StopExecutesAll
  <2>1. t \in Tasks /\ m_promise[t] \in PromiseState /\ m_promise[t] # "absent"
    BY DEF PoolInv, PoolTypeOK, TypeOK, TaskTypeOK, Constructed
  <2>2. m_promise[t] # "pending"
    BY <2>1, HaltedIsIdle DEF PoolInv, NoTaskLost
  <2> QED BY <2>1, <2>2 DEF PromiseState
<1> QED BY <1>1, PoolInvariant, PTL
=============================================================================
