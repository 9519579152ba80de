------------------------ MODULE ThreadPoolServiceProofs ------------------------
(***************************************************************************)
(* The pool implements TaskService: every step of it is a step of the      *)
(* service, or changes nothing that the service shows.                     *)
(***************************************************************************)
EXTENDS ThreadPoolProofs

USE DEF ownerVars, callVars

\* No task changes its status.
StatusUnchanged == \A t \in Tasks : ServiceStatus(t)' = ServiceStatus(t)

LEMMA ServiceStutters ==
  ASSUME StatusUnchanged, m_closed' = m_closed, Halted' = Halted
  PROVE  UNCHANGED Service!serviceVars
BY DEF StatusUnchanged, Service!serviceVars

LEMMA StatusUnmoved ==
  ASSUME UNCHANGED <<m_elements, held, m_promise, accepted>>
  PROVE  StatusUnchanged
BY DEF StatusUnchanged, ServiceStatus, Queued, Held

\* A step that moves no task and not the owner either.
LEMMA PoolUnmoved ==
  ASSUME UNCHANGED <<m_elements, held, m_promise, accepted, m_closed, owner, joined, m_threads>>
  PROVE  UNCHANGED Service!serviceVars
BY StatusUnmoved, ServiceStutters DEF Halted

\* One task changes its status.
LEMMA ServiceChange ==
  ASSUME NEW t \in Tasks, NEW from, NEW to,
         ServiceStatus(t) = from, ServiceStatus(t)' = to,
         \A u \in Tasks \ {t} : ServiceStatus(u)' = ServiceStatus(u),
         UNCHANGED <<m_closed, owner, joined, m_threads>>
  PROVE  Service!Change(t, from, to)
<1>1. Halted' = Halted
  BY DEF Halted
<1> QED BY <1>1 DEF Service!Change

\* The status of a task, read off the invariant: what is queued or held has
\* been accepted and is pending, and not both.
LEMMA StatusFacts ==
  ASSUME PoolInv, NEW t \in Tasks
  PROVE  /\ Queued(t) => t \in accepted /\ m_promise[t] = "pending" /\ ~Held(t)
         /\ Held(t) => t \in accepted /\ m_promise[t] = "pending" /\ ~Queued(t)
         /\ Queued(t) => ServiceStatus(t) = "accepted"
         /\ Held(t) => ServiceStatus(t) = "running"
         /\ ServiceStatus(t) = "accepted" => Queued(t)
         /\ ServiceStatus(t) = "running" => Held(t)
<1>1. /\ Queued(t) => t \in accepted /\ m_promise[t] = "pending" /\ ~Held(t)
      /\ Held(t) => t \in accepted /\ m_promise[t] = "pending" /\ ~Queued(t)
  BY QueueAssumption DEF PoolInv, Inv, OneOwner, NoTaskLost, Queued, Held
<1> QED BY <1>1 DEF ServiceStatus

\* With every thread of a non-empty vector joined, and none on its way into
\* it, no task is left.
LEMMA AllJoinedIsIdle ==
  ASSUME PoolInv, joined # {}, m_threads \subseteq joined, spawning = NoThread
  PROVE  /\ m_closed
         /\ m_elements = {}
         /\ \A t \in Tasks : ServiceStatus(t) \notin {"accepted", "running"}
<1>1. PICK w \in joined : w \in Consumers /\ pc[w] = "returned"
  BY DEF PoolInv, Threads, PoolTypeOK
<1>2. m_closed /\ m_elements = {}
  BY <1>1 DEF PoolInv, Inv, ReturnedMeansDrained
<1>3. \A v \in Consumers : pc[v] # "busy"
  BY PoolAssumption DEF PoolInv, Threads
<1>4. \A t \in Tasks : ~Queued(t) /\ ~Held(t)
  BY <1>2, <1>3, QueueAssumption DEF PoolInv, Inv, OneOwner, Queued, Held
<1> QED BY <1>2, <1>4, StatusFacts

-----------------------------------------------------------------------------
\* The owner's return to idle halts the service, or it was not running.
LEMMA OwnerReturns ==
  ASSUME PoolInv, StatusUnchanged, owner \in {"start", "join"}, owner' \in {"idle", "destroyed"},
         UNCHANGED <<m_closed, joined, m_threads>>
  PROVE  [Service!Next]_(Service!serviceVars)
<1>1. spawning = NoThread /\ ~Halted
  BY DEF PoolInv, Threads, Halted
<1>2. CASE Halted'
  <2>1. joined # {} /\ m_threads \subseteq joined
    BY <1>2 DEF Halted
  <2>2. m_closed /\ \A t \in Tasks : ServiceStatus(t) \notin {"accepted", "running"}
    BY <1>1, <2>1, AllJoinedIsIdle
  <2>3. Service!Halt
    BY <1>2, <2>2 DEF Service!Halt, StatusUnchanged
  <2> QED BY <2>3 DEF Service!Next
<1>3. CASE ~Halted'
  BY <1>1, <1>3, ServiceStutters DEF Halted
<1> QED BY <1>2, <1>3

\* The owner leaves idle: a halted service resumes.
LEMMA OwnerLeaves ==
  ASSUME StatusUnchanged, owner' \notin {"idle", "destroyed"}, m_closed' = m_closed
  PROVE  [Service!Next]_(Service!serviceVars)
<1>1. ~Halted'
  BY DEF Halted
<1>2. Service!Resume
  BY <1>1 DEF Service!Resume, StatusUnchanged
<1> QED BY <1>2 DEF Service!Next

LEMMA ServiceDestroyReturns ==
  ASSUME PoolInv, DestroyReturns
  PROVE  [Service!Next]_(Service!serviceVars)
<1>1. /\ owner = "join" /\ owner' = "destroyed" /\ m_threads \subseteq joined
      /\ m_elements' = {} /\ Discard(m_elements)
      /\ UNCHANGED <<m_closed, joined, m_threads, held, accepted>>
  BY DEF DestroyReturns, DestroyElements
<1>2. CASE joined = {}
  <2>1. Halted' = Halted
    BY <1>1, <1>2 DEF Halted
  <2>2. m_elements \in SUBSET Tasks
    BY DEF PoolInv, Inv, TypeOK
  <2>3. ASSUME NEW t \in Tasks
        PROVE  ServiceStatus(t)' = IF t \in m_elements THEN "cancelled" ELSE ServiceStatus(t)
    <3>1. m_promise'[t] = IF t \in m_elements /\ m_promise[t] = "pending"
                            THEN "broken" ELSE m_promise[t]
      BY <1>1 DEF Discard
    <3>2. Held(t)' = Held(t) /\ ~Queued(t)'
      BY <1>1 DEF Held, Queued
    <3> QED BY <1>1, <3>1, <3>2, StatusFacts DEF ServiceStatus, Queued, Outcome
  <2>4. \A t \in m_elements : ServiceStatus(t) = "accepted"
    BY <2>2, StatusFacts DEF Queued
  <2>5. Service!Cancel(m_elements)
    BY <1>1, <2>1, <2>2, <2>3, <2>4 DEF Service!Cancel
  <2> QED BY <2>2, <2>5 DEF Service!Next
<1>3. CASE joined # {}
  <2>1. m_elements = {}
    BY <1>1, <1>3, AllJoinedIsIdle DEF PoolInv, Threads
  <2>2. \A t \in Tasks : m_promise'[t] = m_promise[t]
    BY <1>1, <2>1 DEF Discard
  <2>3. StatusUnchanged
    BY <1>1, <2>1, <2>2 DEF StatusUnchanged, ServiceStatus, Queued, Held
  <2> QED BY <1>1, <2>3, OwnerReturns
<1> QED BY <1>2, <1>3

LEMMA OwnerServes ==
  ASSUME PoolInv, Owner
  PROVE  [Service!Next]_(Service!serviceVars)
<1>1. CASE Start \/ Stop \/ Destroy
  BY <1>1, StatusUnmoved, OwnerLeaves DEF Start, Stop, Destroy, vars, taskVars, queueVars
<1>2. CASE (\E w \in Consumers : SpawnThread(w) \/ JoinThread(w)) \/ PushBackThread \/ CloseNotifies
  BY <1>2, StatusUnmoved, OwnerLeaves DEF SpawnThread, Enter, JoinThread, PushBackThread,
    CloseNotifies, NotifyAll, vars, taskVars, queueVars
<1>3. CASE CloseQueue
  <2>1. StatusUnchanged /\ m_closed' = TRUE /\ Halted' = Halted
    BY <1>3, StatusUnmoved DEF CloseQueue, SetClosed, Halted, taskVars
  <2>2. Service!Shutdown
    BY <2>1 DEF Service!Shutdown, StatusUnchanged
  <2> QED BY <2>2 DEF Service!Next
<1>4. CASE SpawnFails \/ StartReturns \/ StopReturns
  BY <1>4, StatusUnmoved, OwnerReturns DEF SpawnFails, StartReturns, StopReturns, vars, taskVars,
    queueVars
<1>5. CASE DestroyReturns
  BY <1>5, ServiceDestroyReturns
<1> QED BY <1>1, <1>2, <1>3, <1>4, <1>5 DEF Owner

LEMMA CallerServes ==
  ASSUME PoolInv, NEW c \in Callers, Caller(c)
  PROVE  [Service!Next]_(Service!serviceVars)
<1>1. CASE AddTaskPush(c)
  <2>1. PICK t \in Tasks : /\ Push(t) /\ accepted' = accepted \cup {t}
                           /\ UNCHANGED <<owner, joined, m_threads>>
    BY <1>1 DEF AddTaskPush, PoolInv, PoolTypeOK
  <2>2. m_elements' = m_elements \cup {t} /\ UNCHANGED <<held, m_promise, m_closed>> /\ ~m_closed
    BY <2>1, PushInserts DEF Push, taskVars, PoolInv
  <2>3. ServiceStatus(t) = "new"
    BY <2>1 DEF Push, InHand, PoolInv, NoTaskLost, Queued, Held, ServiceStatus
  <2>4. ServiceStatus(t)' = "accepted"
    BY <2>1, <2>2 DEF ServiceStatus, Queued
  <2>5. \A u \in Tasks \ {t} : ServiceStatus(u)' = ServiceStatus(u)
    BY <2>1, <2>2 DEF ServiceStatus, Queued, Held
  <2>6. Service!Accept(t)
    BY <2>1, <2>2, <2>3, <2>4, <2>5, ServiceChange DEF Service!Accept
  <2> QED BY <2>1, <2>6 DEF Service!Next
<1>2. ASSUME NEW r, CancelPending(c, r) PROVE [Service!Next]_(Service!serviceVars)
  <2> DEFINE S == Matching(r)
  <2>1. /\ S \subseteq m_elements /\ S \in SUBSET Tasks
        /\ m_elements' = m_elements \ S /\ Discard(S)
        /\ UNCHANGED <<m_closed, held, poolVars>>
    BY <1>2 DEF CancelPending, Remove, Matching, PoolInv, Inv, TypeOK
  <2> HIDE DEF S
  <2>2. Halted' = Halted
    BY <2>1 DEF Halted, poolVars
  <2>3. ASSUME NEW t \in Tasks
        PROVE  ServiceStatus(t)' = IF t \in S THEN "cancelled" ELSE ServiceStatus(t)
    <3>1. m_promise'[t] = IF t \in S /\ m_promise[t] = "pending" THEN "broken" ELSE m_promise[t]
      BY <2>1 DEF Discard
    <3>2. Held(t)' = Held(t) /\ (Queued(t)' <=> Queued(t) /\ t \notin S) /\ (t \in S => Queued(t))
      BY <2>1 DEF Held, Queued
    <3> QED BY <2>1, <3>1, <3>2, StatusFacts DEF ServiceStatus, Outcome, poolVars
  <2>4. \A t \in S : ServiceStatus(t) = "accepted"
    BY <2>1, StatusFacts DEF Queued
  <2>5. Service!Cancel(S)
    BY <2>1, <2>2, <2>3, <2>4 DEF Service!Cancel
  <2> QED BY <2>1, <2>5 DEF Service!Next
<1>3. CASE (\E t \in Tasks : AddTaskCheck(c, t)) \/ AddTaskThrows(c)
  BY <1>3, PoolUnmoved DEF AddTaskCheck, AddTaskThrows, vars, taskVars, queueVars
<1> QED BY <1>1, <1>2, <1>3 DEF Caller

LEMMA WorkerServes ==
  ASSUME PoolInv, NEW w \in Consumers, Worker(w)
  PROVE  [Service!Next]_(Service!serviceVars)
<1>0. /\ m_elements \subseteq Tasks
      /\ held \in [Consumers -> Tasks \cup {NoTask}]
      /\ m_promise \in [Tasks -> PromiseState]
      /\ OneOwner
  BY DEF PoolInv, Inv, TypeOK, TaskTypeOK
<1>1. CASE Pop(w) /\ UNCHANGED poolVars
  <2>1. PICK t \in m_elements : m_elements' = m_elements \ {t} /\ held' = [held EXCEPT ![w] = t]
    BY <1>1 DEF Pop
  <2>2. /\ held[w] = NoTask /\ t \in Tasks
        /\ UNCHANGED <<m_promise, m_closed, accepted, owner, joined, m_threads>>
    BY <1>0, <1>1 DEF Pop, OneOwner, taskVars, poolVars
  <2>3. ServiceStatus(t) = "accepted" /\ t \in accepted
    BY <2>1, <2>2, StatusFacts DEF Queued
  <2>4. ServiceStatus(t)' = "running"
    BY <1>0, <2>1, <2>2, <2>3 DEF ServiceStatus, Queued, Held
  <2>5. \A u \in Tasks \ {t} : ServiceStatus(u)' = ServiceStatus(u)
    <3>1. \A u \in Tasks \ {t} : Queued(u)' = Queued(u) /\ (Held(u)' <=> Held(u))
      BY <1>0, <2>1, <2>2, QueueAssumption DEF Queued, Held
    <3> QED BY <2>2, <3>1 DEF ServiceStatus
  <2>6. ~Halted
    BY <2>1, <2>2, HaltedIsIdle DEF Queued
  <2>7. Service!Begin(t)
    BY <2>2, <2>3, <2>4, <2>5, <2>6, ServiceChange DEF Service!Begin
  <2> QED BY <2>2, <2>7 DEF Service!Next
<1>2. ASSUME NEW outcome \in Outcome, RunTask(w, outcome)
      PROVE  [Service!Next]_(Service!serviceVars)
  <2>1. PICK t \in Tasks : t = held[w] /\ m_promise[t] = "pending"
    BY <1>0, <1>2 DEF RunTask, Consume, OneOwner
  <2>2. /\ m_promise' = [m_promise EXCEPT ![t] = outcome]
        /\ held' = [held EXCEPT ![w] = NoTask]
        /\ UNCHANGED <<m_elements, m_closed, accepted, owner, joined, m_threads>>
    BY <1>0, <1>2, <2>1 DEF RunTask, Consume, Run, poolVars
  <2>3. ServiceStatus(t) = "running" /\ t \in accepted /\ ~Queued(t)
    BY <2>1, StatusFacts DEF Held
  <2>4. ~Held(t)' /\ ~Queued(t)' /\ m_promise'[t] \in Outcome
    BY <1>0, <2>1, <2>2, <2>3, QueueAssumption DEF Held, Queued, OneOwner
  <2>5. ServiceStatus(t)' = "finished"
    BY <2>2, <2>3, <2>4 DEF ServiceStatus
  <2>6. \A u \in Tasks \ {t} : ServiceStatus(u)' = ServiceStatus(u)
    <3>1. \A u \in Tasks \ {t} : /\ Queued(u)' = Queued(u) /\ (Held(u)' <=> Held(u))
                                /\ m_promise'[u] = m_promise[u]
      BY <1>0, <2>1, <2>2, QueueAssumption DEF Queued, Held
    <3> QED BY <2>2, <3>1 DEF ServiceStatus
  <2>7. Service!End(t)
    BY <2>2, <2>3, <2>5, <2>6, ServiceChange DEF Service!End
  <2> QED BY <2>7 DEF Service!Next
<1>3. CASE UNCHANGED poolVars /\ (\/ WaitForFirst(w) \/ WaitForElement(w) \/ ReturnEmpty(w)
                                 \/ Timeout(w) \/ SpuriousWakeup(w))
  BY <1>3, PoolUnmoved DEF WaitForFirst, WaitForElement, ReturnEmpty, Timeout, SpuriousWakeup,
    taskVars, poolVars
<1> QED BY <1>1, <1>2, <1>3 DEF Worker, WaitPop

LEMMA SubmitterServes ==
  ASSUME PoolInv, NEW t \in Tasks, Submitter(t), UNCHANGED <<queueVars, poolVars>>
  PROVE  [Service!Next]_(Service!serviceVars)
<1>1. CASE Construct(t) \/ (Unshared(t) /\ Discard({t}))
  <2>1. t \notin accepted
    BY <1>1 DEF Construct, Unshared, InHand, PoolInv, Constructed, NoTaskLost, Queued, Held
  <2>2. \A u \in Tasks \ {t} : m_promise'[u] = m_promise[u]
    BY <1>1 DEF Construct, Discard, PoolInv, Inv, TypeOK, TaskTypeOK
  <2>3. StatusUnchanged
    BY <2>1, <2>2 DEF StatusUnchanged, ServiceStatus, Queued, Held, queueVars, poolVars
  <2> QED BY <2>3, ServiceStutters DEF Halted, queueVars, poolVars
<1>2. CASE (\E d \in Delays : SetDueTime(t, d)) \/ (\E r \in RequestIds : SetRequestId(t, r))
  BY <1>2, PoolUnmoved DEF SetDueTime, SetRequestId, queueVars, poolVars
<1> QED BY <1>1, <1>2 DEF Submitter

\* Accepted tasks are run once or cancelled, nothing is accepted once the pool
\* is stopped, and nothing is left when stop has returned.
THEOREM PoolImplementsService == PoolSpec => ImplementsService
<1>1. PoolInit => Service!Init
  BY DEF PoolInit, Init, Service!Init, ServiceStatus, Halted
<1>2. PoolInv /\ [PoolNext]_allVars => [Service!Next]_(Service!serviceVars)
  <2> SUFFICES ASSUME PoolInv, [PoolNext]_allVars
               PROVE  [Service!Next]_(Service!serviceVars)
    OBVIOUS
  <2>1. CASE Tick /\ UNCHANGED <<queueVars, poolVars>>
    BY <2>1, PoolUnmoved DEF Tick, queueVars, poolVars
  <2>2. CASE UNCHANGED allVars
    BY <2>2, PoolUnmoved DEF allVars, vars, taskVars, queueVars, poolVars
  <2> QED BY <2>1, <2>2, OwnerServes, CallerServes, WorkerServes, SubmitterServes DEF PoolNext
<1> QED BY <1>1, <1>2, PoolInvariant, PTL DEF PoolSpec, ImplementsService, Service!Spec
=============================================================================
