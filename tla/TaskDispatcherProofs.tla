------------------------- MODULE TaskDispatcherProofs -------------------------
(***************************************************************************)
(* The dispatcher, for any number of pools, threads, clients and tasks.    *)
(*                                                                         *)
(* Inv has one part per concern: where the call of start or stop is, which *)
(* pools it has started, which threads there are, what a pool that is      *)
(* closed has left, what is left when stop has returned, and which tasks   *)
(* and request ids are whose.                                              *)
(***************************************************************************)
EXTENDS TaskDispatcher, SequenceTheorems, TLAPS

USE DEF poolVars, taskVars, idVars, opVars

-----------------------------------------------------------------------------
\* The iterator is in the call, and the call in the pool it has come to.
Place ==
  /\ phase \in {"spawn", "push_back"} => op = "start"
  /\ phase \in {"close", "join"} => op \in {"stop", "destroy"}
  /\ phase # "enter" => at <= Len(PoolOrder)
  /\ op \in {"start", "destroy"} => actor = Main
  /\ phase = "push_back" <=> newThread # None
  /\ phase = "join" => closed[Current]

\* The i-th pool has been started, or stopped, by the call in progress.
Passed(i) == i < at \/ (i = at /\ phase # "enter")

\* Pools are started from the first on: one is started only after all before
\* it, and stopped only by a stop that has stopped those.
InOrder ==
  /\ op = "start" => \A i \in DOMAIN PoolOrder : Passed(i) => m_started[PoolOrder[i]]
  /\ op = "stop" => \A i \in DOMAIN PoolOrder : Passed(i) => ~m_started[PoolOrder[i]]
  /\ \A i, j \in DOMAIN PoolOrder :
       i < j /\ m_started[PoolOrder[j]] =>
         m_started[PoolOrder[i]] \/ (op = "stop" /\ Passed(i))

\* A thread that exists is in its pool's vector, or about to be stored there.
Threads ==
  /\ \A p \in Pools : \A w \in m_threads[p] : PoolOf[w] = p /\ thread[w] # "outside"
  /\ \A w \in Workers : thread[w] # "outside" => w \in m_threads[PoolOf[w]] \/ w = newThread
  /\ newThread # None => PoolOf[newThread] = Current /\ thread[newThread] # "outside"

\* A task runs on one thread, of the pool it was handed to.
Runs ==
  /\ \A w \in Workers : running[w] # None =>
       /\ thread[w] = "live"
       /\ fate[running[w]] = "running" /\ home[running[w]] = PoolOf[w]
  /\ \A v, w \in Workers : running[v] # None /\ running[v] = running[w] => v = w
  /\ \A t \in Tasks : fate[t] = "running" => \E w \in Workers : running[w] = t

\* A thread returns from a pool that is closed and empty, and it stays so. A pool
\* that has had threads has them still, or was drained.
Drainage ==
  /\ \A w \in Workers : thread[w] = "returned" =>
       closed[PoolOf[w]] /\ Queue(PoolOf[w]) = {}
  /\ \A p \in staffed : m_threads[p] # {} \/ (closed[p] /\ Queue(p) = {})

\* A pool that Main's call of stop, or the destructor, is done with is closed and
\* has no thread.
Shut(p) == closed[p] /\ \A w \in WorkersOf(p) : thread[w] # "live"
PassedAreShut ==
  op \in {"stop", "destroy"} /\ actor = Main => \A i \in 1..at - 1 : Shut(PoolOrder[i])

\* The callback of a cancel in progress is nobody else's, and a task in a queue
\* has a request id.
Ids ==
  /\ \A c \in Callers : cancelling[c] # None => fate[cancelling[c].callback] = "new"
  /\ \A c, d \in Callers : cancelling[c] # None /\ cancelling[d] # None
       /\ cancelling[c].callback = cancelling[d].callback => c = d
  /\ \A t \in Tasks : fate[t] = "queued" => m_request_id[t] # 0
  /\ OnlyOwnIdsCancelled

\* While it is stopped no pool has a thread that could run a task.
Quiet ==
  /\ stopped => op # "start" /\ \A w \in Workers : thread[w] # "live"
  /\ StoppedMayBeDestroyed

Inv ==
  /\ TypeOK /\ Place /\ InOrder /\ Threads /\ Runs
  /\ Drainage /\ PassedAreShut /\ Quiet /\ Ids

-----------------------------------------------------------------------------
(* Steps by what they leave alone.                                         *)

LEMMA OrderFacts ==
  /\ Len(PoolOrder) \in Nat
  /\ DOMAIN PoolOrder = 1..Len(PoolOrder)
  /\ \A i \in 1..Len(PoolOrder) : PoolOrder[i] \in Pools
  /\ \A i, j \in 1..Len(PoolOrder) : PoolOrder[i] = PoolOrder[j] => i = j
<1>1. Len(PoolOrder) \in Nat /\ DOMAIN PoolOrder = 1..Len(PoolOrder)
  BY DispatcherAssumption, LenProperties
<1> QED
  BY <1>1, DispatcherAssumption DEF Pools

LEMMA CurrentIsPool ==
  ASSUME TypeOK, at <= Len(PoolOrder)
  PROVE  at \in 1..Len(PoolOrder) /\ Current \in Pools
BY OrderFacts DEF TypeOK, Current

\* The steps of start, stop and the destructor.
MayStop(o, c) == o \in {"start", "stop", "destroy"} /\ c \in Workers \cup {Main}
                   /\ (o # "stop" => c = Main)
Outcomes == {"idle", "destroyed", "undefined"}
Ends(o) ==
  /\ o \in Outcomes
  /\ op = "stop" => o = "idle" /\ (AtEnd \/ (~AtEnd /\ phase = "enter" /\ ~m_started[Current]))
  /\ phase \in {"enter", "spawn"} \/ op = "destroy"
  /\ o = "undefined" => op = "destroy" /\ \E w \in Workers : running[w] # None
  /\ End(o)

LEMMA ControlSteps ==
  ASSUME TypeOK, Place, Control
  PROVE  \/ \E o \in {"start", "stop", "destroy"}, c \in Workers \cup {Main} :
              MayStop(o, c) /\ Begin(o, c)
         \/ \E o \in Outcomes : Ends(o)
         \/ EnterStart \/ PushBackThread \/ PoolStarted
         \/ \E w \in Workers : SpawnThread(w)
         \/ EnterStop \/ ClosePool \/ JoinPool
<1>1. CASE Start
  BY <1>1 DEF Start, MayStop
<1>2. CASE Destroy
  BY <1>2 DEF Destroy, MayStop
<1>3. ASSUME NEW c \in Workers \cup {Main}, Stop(c)
      PROVE  MayStop("stop", c) /\ Begin("stop", c)
  BY <1>3 DEF Stop, MayStop
<1>4. CASE Return
  <2> DEFINE o == IF op = "destroy" THEN "destroyed" ELSE "idle"
  <2>1. o \in Outcomes \ {"undefined"} /\ (op = "stop" => o = "idle")
    BY DEF Outcomes
  <2>2. phase = "enter"
    BY <1>4, OrderFacts DEF Return, Place, AtEnd, TypeOK
  <2>3. Ends(o)
    BY <1>4, <2>1, <2>2 DEF Return, Ends
  <2> QED
    BY <2>1, <2>3
<1>5. CASE StartThrows
  BY <1>5 DEF StartThrows, Ends, Outcomes
<1>6. CASE StopThrows
  BY <1>6 DEF StopThrows, Ends, Outcomes
<1>7. CASE SpawnFails
  BY <1>7 DEF SpawnFails, Ends, Place, Outcomes
<1>8. ASSUME NEW w \in Workers, CallsDestroyed(w)
      PROVE  Ends("undefined") /\ "undefined" \in Outcomes
  BY <1>8 DEF CallsDestroyed, Ends, Outcomes
<1> QED
  BY <1>1, <1>2, <1>3, <1>4, <1>5, <1>6, <1>7, <1>8 DEF Control

\* The calls of clients and tasks change tasks and request ids, and no more.
Calls ==
  \/ \E c \in Callers : Caller(c)
  \/ CreateRequestId

LEMMA CallsFrame ==
  ASSUME Calls
  PROVE  UNCHANGED <<poolVars, opVars, running>>
BY DEF Calls, Caller, Dispatch, DispatchWithId, AddTask, Cancel, ExecuteInline,
       CancelPending, CancelDispatches, CreateRequestId

\* The steps of start, stop and the destructor change no task, except that the
\* destructor destroys what is left in a queue.
LEMMA ControlFrame ==
  ASSUME TypeOK, Place, Control
  PROVE  /\ UNCHANGED <<running, home, m_request_id, idVars, cancelling>>
         /\ \A t \in Tasks : \/ fate'[t] = fate[t]
                             \/ fate[t] = "queued" /\ fate'[t] = "destroyed" /\ JoinPool
<1>1. CASE JoinPool
  BY <1>1 DEF JoinPool, NextPool, Queue, TypeOK
<1>2. CASE ~JoinPool
  BY <1>2, ControlSteps
     DEF Begin, Ends, End, EnterStart, PushBackThread, PoolStarted, NextPool,
         SpawnThread, EnterStop, ClosePool
<1> QED
  BY <1>1, <1>2

\* What a call does to the tasks: it hands a fresh one over, which is queued,
\* refused or executed inline, or it cancels queued ones.
Hands(t, f, name) ==
  /\ fate[t] = "new" /\ f \in {"queued", "refused", "inline"}
  /\ fate' = [fate EXCEPT ![t] = f]
  /\ home' = [home EXCEPT ![t] = name]
  /\ f = "queued" => name \in Pools /\ ~closed[name]
Removes ==
  /\ home' = home
  /\ \E name \in Names, id \in own \cup {0} : Remove(name, id)

LEMMA AddTaskHands ==
  ASSUME TypeOK, NEW name \in Names, NEW t \in Tasks, fate[t] = "new", AddTask(name, t)
  PROVE  \E f \in {"queued", "refused", "inline"}, n \in Names : Hands(t, f, n)
<1>1. CASE fate' = [fate EXCEPT ![t] = "queued"] /\ home' = [home EXCEPT ![t] = name]
            /\ name \in Pools /\ Admits(name)
  <2>1. Hands(t, "queued", name)
    BY <1>1 DEF Hands, Admits
  <2> QED
    BY <2>1
<1>2. CASE fate' = [fate EXCEPT ![t] = "refused"] /\ home' = home
  <2>1. home' = [home EXCEPT ![t] = home[t]] /\ home[t] \in Names
    BY <1>2 DEF TypeOK
  <2>2. Hands(t, "refused", home[t])
    BY <1>2, <2>1 DEF Hands
  <2> QED
    BY <2>1, <2>2
<1> QED
  BY <1>1, <1>2 DEF AddTask

LEMMA CallbackTyped ==
  ASSUME TypeOK, NEW c \in Callers, cancelling[c] # None
  PROVE  cancelling[c].name \in Names /\ cancelling[c].callback \in Tasks
BY DEF TypeOK

LEMMA CallTasks ==
  ASSUME TypeOK, Ids, Calls
  PROVE  \/ UNCHANGED <<fate, home>>
         \/ \E t \in Tasks, f \in {"queued", "refused", "inline"}, name \in Names :
              Hands(t, f, name)
         \/ Removes
<1> USE DEF Names
<1>1. ASSUME NEW c \in Callers, NEW name \in Names, NEW t \in Tasks,
             Dispatch(c, name, t) \/ (\E id \in own : DispatchWithId(c, name, t, id))
      PROVE  \E f \in {"queued", "refused", "inline"}, n \in Names : Hands(t, f, n)
  BY <1>1, AddTaskHands DEF Dispatch, DispatchWithId, Fresh
<1>2. ASSUME NEW c \in Callers, CancelDispatches(c)
      PROVE  \E t \in Tasks, f \in {"queued", "refused", "inline"}, n \in Names : Hands(t, f, n)
  <2>1. fate[cancelling[c].callback] = "new"
    BY <1>2 DEF CancelDispatches, Ids
  <2> QED
    BY <1>2, <2>1, CallbackTyped, AddTaskHands DEF CancelDispatches
<1>3. ASSUME NEW c \in Callers, NEW p \in Pools, NEW t \in Tasks, ExecuteInline(c, p, t)
      PROVE  Hands(t, "inline", p)
  BY <1>3 DEF ExecuteInline, Fresh, Hands
<1>4. ASSUME NEW c \in Callers, NEW name \in Names, NEW id \in own \cup {0},
             CancelPending(c, name, id) \/ (\E t \in Tasks : id \in own /\ Cancel(c, name, id, t))
      PROVE  Removes
  BY <1>4 DEF CancelPending, Cancel, Removes
<1>5. CASE CreateRequestId
  BY <1>5 DEF CreateRequestId
<1> QED
  BY <1>1, <1>2, <1>3, <1>4, <1>5 DEF Calls, Caller

-----------------------------------------------------------------------------
(* The type invariant.                                                     *)

ControlTyped ==
  /\ m_started \in [Pools -> BOOLEAN]
  /\ closed \in [Pools -> BOOLEAN]
  /\ m_threads \in [Pools -> SUBSET Workers]
  /\ thread \in [Workers -> {"outside", "live", "returned"}]
  /\ op \in {"idle", "start", "stop", "destroy", "destroyed", "undefined"}
  /\ actor \in Workers \cup {Main, None}
  /\ at \in 1..Len(PoolOrder) + 1
  /\ phase \in {"enter", "spawn", "push_back", "close", "join"}
  /\ spawned \in Nat
  /\ newThread \in Workers \cup {None}
  /\ staffed \subseteq Pools
  /\ stopped \in BOOLEAN

TasksTyped ==
  /\ running \in [Workers -> Tasks \cup {None}]
  /\ fate \in [Tasks -> Fate]
  /\ home \in [Tasks -> Names]
  /\ m_request_id \in [Tasks -> Nat]
  /\ s_REQUEST_ID \in Nat
  /\ own \subseteq 1..s_REQUEST_ID
  /\ cancelling \in [Callers -> {None} \cup [name : Names, callback : Tasks]]

LEMMA TypeParts ==
  /\ TypeOK <=> ControlTyped /\ TasksTyped
  /\ TypeOK' <=> ControlTyped' /\ TasksTyped'
BY DEF TypeOK, ControlTyped, TasksTyped

LEMMA NextPoolTyped ==
  ASSUME TypeOK, at <= Len(PoolOrder), NextPool
  PROVE  /\ at' \in 1..Len(PoolOrder) + 1 /\ phase' = "enter"
         /\ UNCHANGED <<op, actor, spawned, newThread, stopped>>
BY OrderFacts DEF TypeOK, NextPool

LEMMA ControlStepsTyped ==
  ASSUME TypeOK, Place, Control
  PROVE  ControlTyped'
<1> USE OrderFacts DEF ControlTyped
<1>t. ControlTyped
  BY TypeParts
<1>1. ASSUME NEW o \in {"start", "stop", "destroy"}, NEW c \in Workers \cup {Main}, Begin(o, c)
      PROVE  ControlTyped'
  BY <1>1, <1>t DEF Begin
<1>2. ASSUME NEW o \in Outcomes, Ends(o)
      PROVE  ControlTyped'
  BY <1>2, <1>t DEF Ends, End, Outcomes
<1>3. CASE EnterStart
  BY <1>3, <1>t DEF EnterStart
<1>4. CASE PushBackThread
  <2>1. Current \in Pools /\ newThread \in Workers
    BY <1>4, <1>t, CurrentIsPool DEF PushBackThread, Place
  <2> QED
    BY <1>4, <1>t, <2>1 DEF PushBackThread
<1>5. CASE PoolStarted
  BY <1>5, <1>t, NextPoolTyped DEF PoolStarted, Place
<1>6. ASSUME NEW w \in Workers, SpawnThread(w)
      PROVE  ControlTyped'
  BY <1>6, <1>t DEF SpawnThread
<1>7. CASE EnterStop
  BY <1>7, <1>t DEF EnterStop
<1>8. CASE ClosePool
  BY <1>8, <1>t DEF ClosePool
<1>9. CASE JoinPool
  <2>1. thread' \in [Workers -> {"outside", "live", "returned"}]
    BY <1>9, <1>t DEF JoinPool
  <2>2. m_threads' \in [Pools -> SUBSET Workers]
    <3>1. NotJoined \in SUBSET Workers
      BY <1>9, <1>t, CurrentIsPool DEF JoinPool, Place, NotJoined
    <3> QED
      BY <1>9, <1>t, <3>1 DEF JoinPool
  <2> QED
    BY <1>9, <1>t, <2>1, <2>2, NextPoolTyped DEF JoinPool, Place
<1> QED
  BY <1>1, <1>2, <1>3, <1>4, <1>5, <1>6, <1>7, <1>8, <1>9, ControlSteps

LEMMA CallsTyped ==
  ASSUME TypeOK, Ids, Calls
  PROVE  TasksTyped'
<1> USE DEF TasksTyped
<1>t. TasksTyped
  BY TypeParts
<1>1. fate' \in [Tasks -> Fate] /\ home' \in [Tasks -> Names]
  <2>1. ASSUME NEW t \in Tasks, NEW f \in {"queued", "refused", "inline"}, NEW name \in Names,
               Hands(t, f, name)
        PROVE  fate' \in [Tasks -> Fate] /\ home' \in [Tasks -> Names]
    BY <1>t, <2>1 DEF Hands, Fate
  <2>2. CASE Removes
    BY <1>t, <2>2 DEF Removes, Remove, Fate
  <2> QED
    BY <1>t, <2>1, <2>2, CallTasks
<1>2. /\ s_REQUEST_ID' \in Nat /\ s_REQUEST_ID <= s_REQUEST_ID'
      /\ own' \subseteq 1..s_REQUEST_ID'
      /\ m_request_id' \in [Tasks -> Nat]
  <2>1. ASSUME NEW t \in Tasks, WithNewRequestId(t)
        PROVE  <1>2!:
    BY <1>t, <2>1 DEF WithNewRequestId
  <2>2. ASSUME NEW t \in Tasks, NEW id \in own, m_request_id' = [m_request_id EXCEPT ![t] = id],
               UNCHANGED idVars
        PROVE  <1>2!:
    BY <1>t, <2>2
  <2>3. CASE CreateRequestId
    <3>1. /\ s_REQUEST_ID' = s_REQUEST_ID + 1 /\ own' = own \cup {s_REQUEST_ID'}
          /\ m_request_id' = m_request_id
      BY <2>3 DEF CreateRequestId
    <3> QED
      BY <1>t, <3>1
  <2>4. CASE UNCHANGED <<m_request_id, s_REQUEST_ID, own>>
    BY <1>t, <2>4
  <2>5. ASSUME NEW c \in Callers, CancelDispatches(c)
        PROVE  \E t \in Tasks : WithNewRequestId(t)
    BY <2>5, CallbackTyped DEF CancelDispatches
  <2> QED
    BY <2>1, <2>2, <2>3, <2>4, <2>5
       DEF Calls, Caller, Dispatch, DispatchWithId, Cancel, ExecuteInline, CancelPending
<1>3. cancelling' \in [Callers -> {None} \cup [name : Names, callback : Tasks]]
  BY <1>t DEF Calls, Caller, Dispatch, DispatchWithId, Cancel, ExecuteInline,
              CancelPending, CancelDispatches, CreateRequestId, Fresh
<1>4. running' \in [Workers -> Tasks \cup {None}]
  BY <1>t, CallsFrame
<1> QED
  BY <1>1, <1>2, <1>3, <1>4

LEMMA StepTyped ==
  ASSUME TypeOK, Place, Ids, [Next]_vars
  PROVE  TypeOK'
<1>1. CASE Control
  <2>1. TasksTyped'
    <3>1. \A t \in Tasks : fate'[t] \in Fate
      BY <1>1, ControlFrame DEF TypeOK, Fate
    <3>2. fate' \in [Tasks -> Fate]
      BY <1>1, <3>1, ControlSteps
         DEF Begin, Ends, End, EnterStart, PushBackThread, PoolStarted, SpawnThread,
             EnterStop, ClosePool, JoinPool, TypeOK, Fate
    <3> QED
      BY <1>1, <3>2, ControlFrame DEF TypeOK, TasksTyped
  <2> QED
    BY <1>1, <2>1, ControlStepsTyped, TypeParts
<1>2. CASE Calls
  BY <1>2, CallsTyped, CallsFrame, TypeParts DEF ControlTyped
<1>3. ASSUME NEW w \in Workers, Take(w)
      PROVE  TypeOK'
  BY <1>3 DEF Take, Queue, TypeOK, Fate
<1>4. ASSUME NEW w \in Workers, Finish(w)
      PROVE  TypeOK'
  BY <1>4 DEF Finish, TypeOK, Fate
<1>5. ASSUME NEW w \in Workers, Leave(w)
      PROVE  TypeOK'
  BY <1>5 DEF Leave, TypeOK
<1>6. CASE UNCHANGED vars
  BY <1>6 DEF vars, TypeOK
<1> QED
  BY <1>1, <1>2, <1>3, <1>4, <1>5, <1>6 DEF Next, Worker, Calls

-----------------------------------------------------------------------------
(* The call of start or stop.                                              *)

\* Whoever is not in Control leaves the call where it is.
Others == Calls \/ (\E w \in Workers : Worker(w)) \/ UNCHANGED vars

LEMMA StepKinds == [Next]_vars <=> Control \/ Others
BY DEF Next, Others, Calls

LEMMA OthersFrame ==
  ASSUME Others
  PROVE  UNCHANGED <<opVars, m_started, closed, m_threads, staffed>>
BY CallsFrame DEF Others, Worker, Take, Finish, Leave, vars

LEMMA StepPlace ==
  ASSUME TypeOK, Place, [Next]_vars
  PROVE  Place'
<1> USE OrderFacts DEF Place
<1>1. ASSUME NEW o \in {"start", "stop", "destroy"}, NEW c \in Workers \cup {Main},
             MayStop(o, c), Begin(o, c)
      PROVE  Place'
  BY <1>1 DEF MayStop, Begin
<1>2. ASSUME NEW o \in Outcomes, Ends(o)
      PROVE  Place'
  BY <1>2 DEF Ends, End, Outcomes
<1>3. CASE EnterStart
  BY <1>3 DEF EnterStart, AtEnd, TypeOK
<1>4. CASE PushBackThread
  BY <1>4 DEF PushBackThread
<1>5. CASE PoolStarted
  BY <1>5 DEF PoolStarted, NextPool
<1>6. ASSUME NEW w \in Workers, SpawnThread(w)
      PROVE  Place'
  BY <1>6, DispatcherAssumption DEF SpawnThread
<1>7. CASE EnterStop
  BY <1>7 DEF EnterStop, AtEnd, TypeOK
<1>8. CASE ClosePool
  <2>1. Current \in Pools /\ Current' = Current
    BY <1>8, CurrentIsPool DEF ClosePool, Current
  <2>2. closed'[Current]
    BY <1>8, <2>1 DEF ClosePool, TypeOK
  <2> QED
    BY <1>8, <2>1, <2>2 DEF ClosePool
<1>9. CASE JoinPool
  BY <1>9 DEF JoinPool, NextPool
<1>10. CASE Others
  BY <1>10, OthersFrame DEF Current
<1> QED
  BY <1>1, <1>2, <1>3, <1>4, <1>5, <1>6, <1>7, <1>8, <1>9, <1>10, ControlSteps, StepKinds

LEMMA StepInOrder ==
  ASSUME TypeOK, Place, InOrder, [Next]_vars
  PROVE  InOrder'
<1> USE OrderFacts DEF InOrder, Passed
<1>t. at \in 1..Len(PoolOrder) + 1 /\ m_started \in [Pools -> BOOLEAN]
  BY DEF TypeOK
<1>1. ASSUME NEW o \in {"start", "stop", "destroy"}, NEW c \in Workers \cup {Main},
             MayStop(o, c), Begin(o, c)
      PROVE  InOrder'
  BY <1>1 DEF MayStop, Begin
<1>2. ASSUME NEW o \in Outcomes, Ends(o)
      PROVE  InOrder'
  <2>1. /\ op' = o /\ m_started' = m_started
        /\ op = "stop" => AtEnd \/ (~AtEnd /\ phase = "enter" /\ ~m_started[Current])
    BY <1>2 DEF Ends, End, Outcomes
  <2>2. ASSUME NEW i \in DOMAIN PoolOrder, NEW j \in DOMAIN PoolOrder,
               i < j, m_started[PoolOrder[j]]
        PROVE  m_started[PoolOrder[i]]
    <3>1. CASE op = "stop" /\ Passed(i) /\ ~m_started[PoolOrder[i]]
      <4>1. ~Passed(j)
        BY <2>2, <3>1
      <4>2. at \in DOMAIN PoolOrder /\ i < at /\ at <= j /\ phase = "enter"
        BY <1>t, <2>1, <2>2, <3>1, <4>1 DEF AtEnd
      <4>3. ~m_started[PoolOrder[at]]
        BY <2>1, <3>1, <4>2 DEF AtEnd, Current
      <4>4. at < j
        BY <1>t, <2>2, <4>2, <4>3
      <4> QED
        BY <1>t, <2>2, <4>2, <4>3, <4>4
    <3> QED
      BY <2>2, <3>1
  <2> QED
    BY <2>1, <2>2 DEF Outcomes
<1>3. CASE EnterStart
  <2>1. at \in DOMAIN PoolOrder /\ op = "start" /\ phase = "enter" /\ Current = PoolOrder[at]
    BY <1>3, <1>t DEF EnterStart, AtEnd, Current
  <2>2. /\ op' = op /\ at' = at /\ phase' = "spawn"
        /\ \A i \in DOMAIN PoolOrder :
             m_started'[PoolOrder[i]] = IF i = at THEN TRUE ELSE m_started[PoolOrder[i]]
    BY <1>3, <1>t, <2>1 DEF EnterStart
  <2> QED
    BY <1>t, <2>1, <2>2
<1>4. CASE PushBackThread
  BY <1>4 DEF PushBackThread
<1>5. CASE PoolStarted
  BY <1>5, <1>t DEF PoolStarted, NextPool, Place
<1>6. ASSUME NEW w \in Workers, SpawnThread(w)
      PROVE  InOrder'
  BY <1>6 DEF SpawnThread
<1>7. CASE EnterStop
  <2>1. at \in DOMAIN PoolOrder /\ phase = "enter" /\ Current = PoolOrder[at]
    BY <1>7, <1>t DEF EnterStop, AtEnd, Current
  <2>2. /\ op' = op /\ at' = at /\ phase' = "close" /\ op # "start"
        /\ \A i \in DOMAIN PoolOrder :
             m_started'[PoolOrder[i]] = IF i = at /\ op = "stop" THEN FALSE
                                          ELSE m_started[PoolOrder[i]]
    BY <1>7, <1>t, <2>1 DEF EnterStop
  <2> QED
    BY <1>t, <2>1, <2>2
<1>8. CASE ClosePool
  BY <1>8 DEF ClosePool
<1>9. CASE JoinPool
  BY <1>9, <1>t DEF JoinPool, NextPool, Place
<1>10. CASE Others
  BY <1>10, OthersFrame
<1> QED
  BY <1>1, <1>2, <1>3, <1>4, <1>5, <1>6, <1>7, <1>8, <1>9, <1>10, ControlSteps, StepKinds

-----------------------------------------------------------------------------
(* Threads, and what they run.                                             *)

LEMMA StepThreads ==
  ASSUME TypeOK, Place, Threads, [Next]_vars
  PROVE  Threads'
<1> USE DEF Threads
<1>t. /\ m_threads \in [Pools -> SUBSET Workers]
      /\ thread \in [Workers -> {"outside", "live", "returned"}]
      /\ newThread \in Workers \cup {None}
      /\ PoolOf \in [Workers -> Pools] /\ None \notin Workers
  BY DispatcherAssumption DEF TypeOK
<1>n. /\ phase # "push_back" <=> newThread = None
      /\ op # "start" => newThread = None
  BY DEF Place
<1>1. ASSUME NEW o \in {"start", "stop", "destroy"}, NEW c \in Workers \cup {Main},
             MayStop(o, c), Begin(o, c)
      PROVE  Threads'
  BY <1>1, <1>n DEF Begin, Place
<1>2. ASSUME NEW o \in Outcomes, Ends(o)
      PROVE  Threads'
  BY <1>2, <1>n DEF Ends, End, Outcomes
<1>3. CASE EnterStart
  BY <1>3 DEF EnterStart, Current
<1>4. CASE PushBackThread
  <2>1. Current \in Pools /\ newThread \in Workers
    BY <1>4, <1>t, <1>n, CurrentIsPool DEF PushBackThread, Place
  <2> QED
    BY <1>4, <1>t, <2>1 DEF PushBackThread
<1>5. CASE PoolStarted
  BY <1>5, <1>n DEF PoolStarted, NextPool
<1>6. ASSUME NEW w \in Workers, SpawnThread(w)
      PROVE  Threads'
  <2>1. newThread = None
    BY <1>6, <1>n DEF SpawnThread
  <2> QED
    BY <1>6, <1>t, <2>1 DEF SpawnThread, Current
<1>7. CASE EnterStop
  BY <1>7 DEF EnterStop, Current
<1>8. CASE ClosePool
  BY <1>8 DEF ClosePool, Current
<1>9. CASE JoinPool
  <2>1. Current \in Pools /\ newThread = None /\ newThread' = None
    BY <1>9, <1>n, CurrentIsPool DEF JoinPool, NextPool, Place
  <2>2. Joinable \subseteq m_threads[Current]
    BY DEF Joinable
  <2>3. \A p \in Pools : m_threads'[p] = m_threads[p] \ Joinable
    BY <1>9, <1>t, <2>1, <2>2 DEF JoinPool, NotJoined
  <2>4. \A w \in Workers : thread'[w] = IF w \in Joinable THEN "outside" ELSE thread[w]
    BY <1>9 DEF JoinPool
  <2>5. \A p \in Pools : \A w \in m_threads'[p] : PoolOf[w] = p /\ thread'[w] # "outside"
    BY <1>t, <2>3, <2>4
  <2>6. \A w \in Workers : thread'[w] # "outside" => w \in m_threads'[PoolOf[w]]
    BY <1>t, <2>1, <2>3, <2>4
  <2> QED
    BY <2>1, <2>5, <2>6
<1>10. CASE Others
  <2>1. CASE Calls \/ UNCHANGED vars \/ (\E w \in Workers : Take(w) \/ Finish(w))
    BY <2>1, CallsFrame DEF vars, Take, Finish, Current
  <2>2. ASSUME NEW w \in Workers, Leave(w)
        PROVE  Threads'
    BY <1>t, <2>2 DEF Leave, Current
  <2> QED
    BY <1>10, <2>1, <2>2 DEF Others, Worker
<1> QED
  BY <1>1, <1>2, <1>3, <1>4, <1>5, <1>6, <1>7, <1>8, <1>9, <1>10, ControlSteps, StepKinds

\* The threads that stop has joined are no live ones.
LEMMA ControlKeepsLive ==
  ASSUME TypeOK, Place, Control
  PROVE  \A w \in Workers :
           /\ thread[w] = "live" => thread'[w] = "live"
           /\ thread'[w] = "returned" => thread[w] = "returned"
           /\ thread'[w] = "live" => thread[w] = "live" \/ op = "start"
<1>1. CASE JoinPool
  BY <1>1 DEF JoinPool
<1>2. ASSUME NEW v \in Workers, SpawnThread(v)
      PROVE  \A w \in Workers :
           /\ thread[w] = "live" => thread'[w] = "live"
           /\ thread'[w] = "returned" => thread[w] = "returned"
           /\ thread'[w] = "live" => thread[w] = "live" \/ op = "start"
  BY <1>2 DEF SpawnThread, TypeOK, Place
<1> QED
  BY <1>1, <1>2, ControlSteps
     DEF Begin, Ends, End, EnterStart, PushBackThread, PoolStarted, NextPool, EnterStop, ClosePool

LEMMA StepRuns ==
  ASSUME TypeOK, Place, Runs, Ids, [Next]_vars
  PROVE  Runs'
<1> USE DEF Runs
<1>t. /\ running \in [Workers -> Tasks \cup {None}]
      /\ fate \in [Tasks -> Fate] /\ home \in [Tasks -> Names]
      /\ thread \in [Workers -> {"outside", "live", "returned"}]
      /\ None \notin Tasks
  BY DispatcherAssumption DEF TypeOK
<1>1. CASE Control
  BY <1>1, <1>t, ControlFrame, ControlKeepsLive
<1>2. CASE Calls
  <2>1. ASSUME NEW w \in Workers, running[w] # None
        PROVE  fate'[running[w]] = "running" /\ home'[running[w]] = PoolOf[w]
    <3>1. running[w] \in Tasks
      BY <1>t, <2>1
    <3>2. ASSUME NEW t \in Tasks, NEW f \in {"queued", "refused", "inline"}, NEW name \in Names,
                 Hands(t, f, name)
          PROVE  fate'[running[w]] = "running" /\ home'[running[w]] = PoolOf[w]
      BY <1>t, <2>1, <3>1, <3>2 DEF Hands
    <3>3. CASE Removes
      BY <1>t, <2>1, <3>1, <3>3 DEF Removes, Remove
    <3> QED
      BY <1>2, <2>1, <3>2, <3>3, CallTasks
  <2>2. ASSUME NEW t \in Tasks, fate'[t] = "running"
        PROVE  fate[t] = "running"
    <3>1. ASSUME NEW u \in Tasks, NEW f \in {"queued", "refused", "inline"}, NEW name \in Names,
                 Hands(u, f, name)
          PROVE  fate[t] = "running"
      BY <1>t, <2>2, <3>1 DEF Hands
    <3>2. CASE Removes
      BY <1>t, <2>2, <3>2 DEF Removes, Remove
    <3> QED
      BY <1>2, <2>2, <3>1, <3>2, CallTasks
  <2> QED
    BY <1>2, <2>1, <2>2, CallsFrame
<1>3. ASSUME NEW w \in Workers, Take(w)
      PROVE  Runs'
  <2>1. PICK t \in Queue(PoolOf[w]) : /\ running' = [running EXCEPT ![w] = t]
                                      /\ fate' = [fate EXCEPT ![t] = "running"]
    BY <1>3 DEF Take
  <2>2. t \in Tasks /\ fate[t] = "queued" /\ home[t] = PoolOf[w]
    BY <2>1 DEF Queue
  <2>3. thread[w] = "live" /\ running[w] = None /\ UNCHANGED <<thread, home>>
    BY <1>3 DEF Take
  <2>4. ASSUME NEW u \in Tasks, fate'[u] = "running"
        PROVE  \E v \in Workers : running'[v] = u
    <3>1. CASE u = t
      BY <1>t, <2>1, <3>1
    <3>2. CASE u # t
      <4>1. PICK v \in Workers : running[v] = u
        BY <1>t, <2>1, <2>2, <2>4, <3>2
      <4> QED
        BY <1>t, <2>1, <2>3, <4>1
    <3> QED
      BY <3>1, <3>2
  <2> QED
    BY <1>t, <2>1, <2>2, <2>3, <2>4
<1>4. ASSUME NEW w \in Workers, Finish(w)
      PROVE  Runs'
  BY <1>4, <1>t DEF Finish
<1>5. ASSUME NEW w \in Workers, Leave(w)
      PROVE  Runs'
  BY <1>5, <1>t DEF Leave
<1>6. CASE UNCHANGED vars
  BY <1>6 DEF vars
<1> QED
  BY <1>1, <1>2, <1>3, <1>4, <1>5, <1>6, StepKinds DEF Others, Worker

-----------------------------------------------------------------------------
(* What a pool that is closed has left.                                    *)

LEMMA StaysDrained ==
  ASSUME TypeOK, Place, Runs, Ids, [Next]_vars, NEW p \in Pools, closed[p], Queue(p) = {}
  PROVE  closed'[p] /\ Queue(p)' = {}
<1>t. /\ closed \in [Pools -> BOOLEAN]
      /\ running \in [Workers -> Tasks \cup {None}]
      /\ fate \in [Tasks -> Fate] /\ home \in [Tasks -> Names]
  BY DEF TypeOK
<1>c. closed'[p]
  <2>1. CASE ClosePool
    BY <1>t, <2>1 DEF ClosePool
  <2>2. CASE Control /\ ~ClosePool
    BY <2>2, ControlSteps
       DEF Begin, Ends, End, EnterStart, PushBackThread, PoolStarted, NextPool,
           SpawnThread, EnterStop, JoinPool
  <2> QED
    BY <2>1, <2>2, OthersFrame, StepKinds
<1> SUFFICES ASSUME NEW u \in Tasks, fate'[u] = "queued", home'[u] = p
             PROVE  fate[u] = "queued" /\ home[u] = p
  BY <1>c DEF Queue
<1>1. CASE Control
  BY <1>1, <1>t, ControlFrame
<1>2. CASE Calls
  <2>1. ASSUME NEW t \in Tasks, NEW f \in {"queued", "refused", "inline"}, NEW name \in Names,
               Hands(t, f, name)
        PROVE  fate[u] = "queued" /\ home[u] = p
    BY <1>t, <2>1 DEF Hands
  <2>2. CASE Removes
    BY <1>t, <2>2 DEF Removes, Remove
  <2> QED
    BY <1>2, <2>1, <2>2, CallTasks
<1>3. ASSUME NEW w \in Workers, Take(w)
      PROVE  fate[u] = "queued" /\ home[u] = p
  BY <1>3, <1>t DEF Take, Queue
<1>4. ASSUME NEW w \in Workers, Finish(w)
      PROVE  fate[u] = "queued" /\ home[u] = p
  BY <1>4, <1>t DEF Finish
<1>5. ASSUME NEW w \in Workers, Leave(w)
      PROVE  fate[u] = "queued" /\ home[u] = p
  BY <1>5 DEF Leave
<1>6. CASE UNCHANGED vars
  BY <1>6 DEF vars
<1> QED
  BY <1>1, <1>2, <1>3, <1>4, <1>5, <1>6, StepKinds DEF Others, Worker

LEMMA StepDrainage ==
  ASSUME TypeOK, Place, Threads, Runs, Drainage, Ids, [Next]_vars
  PROVE  Drainage'
<1> USE DEF Drainage
<1>t. /\ m_threads \in [Pools -> SUBSET Workers]
      /\ thread \in [Workers -> {"outside", "live", "returned"}]
      /\ staffed \subseteq Pools
      /\ PoolOf \in [Workers -> Pools]
  BY DispatcherAssumption DEF TypeOK
<1>d. \A p \in Pools : closed[p] /\ Queue(p) = {} => closed'[p] /\ Queue(p)' = {}
  BY StaysDrained
<1>1. ASSUME NEW w \in Workers, thread'[w] = "returned"
      PROVE  closed'[PoolOf[w]] /\ Queue(PoolOf[w])' = {}
  <2>1. CASE Control
    BY <1>1, <1>t, <1>d, <2>1, ControlKeepsLive
  <2>2. CASE thread' = thread
    BY <1>1, <1>t, <1>d, <2>2
  <2>3. ASSUME NEW v \in Workers, Leave(v)
        PROVE  thread[w] = "returned" \/ (closed[PoolOf[w]] /\ Queue(PoolOf[w]) = {})
    BY <1>1, <1>t, <2>3 DEF Leave
  <2>4. CASE Calls
    BY <2>2, <2>4, CallsFrame
  <2>5. CASE UNCHANGED vars \/ (\E v \in Workers : Take(v) \/ Finish(v))
    BY <2>2, <2>5 DEF vars, Take, Finish
  <2> QED
    BY <1>t, <1>d, <2>1, <2>3, <2>4, <2>5, StepKinds DEF Others, Worker
<1>2. ASSUME NEW p \in staffed'
      PROVE  m_threads'[p] # {} \/ (closed'[p] /\ Queue(p)' = {})
  <2>1. CASE PushBackThread
    <3>1. Current \in Pools
      BY <2>1, CurrentIsPool DEF PushBackThread, Place
    <3>2. m_threads'[Current] # {}
      BY <1>t, <2>1, <3>1 DEF PushBackThread
    <3>3. CASE p # Current
      <4>1. p \in staffed /\ m_threads'[p] = m_threads[p]
        BY <1>2, <1>t, <2>1, <3>3 DEF PushBackThread
      <4> QED
        BY <1>t, <1>d, <4>1
    <3> QED
      BY <3>2, <3>3
  <2>2. CASE JoinPool
    <3>1. p \in staffed /\ p \in Pools /\ Current \in Pools
      BY <1>2, <1>t, <2>2, CurrentIsPool DEF JoinPool, Place
    <3>2. CASE p # Current
      <4>1. m_threads'[p] = m_threads[p]
        BY <1>t, <2>2, <3>1, <3>2 DEF JoinPool
      <4> QED
        BY <1>d, <3>1, <4>1
    <3>3. CASE p = Current /\ m_threads[p] # {} /\ m_threads'[p] = {}
      <4>1. NotJoined = {}
        BY <1>t, <2>2, <3>1, <3>3 DEF JoinPool
      <4>2. PICK w \in Joinable : w \in m_threads[p]
        BY <3>3, <4>1 DEF NotJoined
      <4>3. w \in Workers /\ PoolOf[w] = p /\ thread[w] = "returned"
        BY <1>t, <2>2, <3>1, <4>2 DEF JoinPool, Threads
      <4> QED
        BY <1>d, <3>1, <4>3
    <3>4. CASE p = Current /\ m_threads[p] = {}
      BY <1>d, <3>1, <3>4
    <3> QED
      BY <3>2, <3>3, <3>4
  <2>3. CASE m_threads' = m_threads /\ staffed' = staffed
    BY <1>2, <1>t, <1>d, <2>3
  <2>4. CASE Control /\ ~PushBackThread /\ ~JoinPool
    BY <2>3, <2>4, ControlSteps
       DEF Begin, Ends, End, EnterStart, PoolStarted, NextPool, SpawnThread, EnterStop, ClosePool
  <2> QED
    BY <2>1, <2>2, <2>3, <2>4, OthersFrame, StepKinds
<1> QED
  BY <1>1, <1>2

LEMMA StepPassed ==
  ASSUME TypeOK, Place, Threads, PassedAreShut, [Next]_vars
  PROVE  PassedAreShut'
<1> USE OrderFacts
<1>t. /\ at \in 1..Len(PoolOrder) + 1
      /\ closed \in [Pools -> BOOLEAN] /\ thread \in [Workers -> {"outside", "live", "returned"}]
      /\ PoolOf \in [Workers -> Pools] /\ Main \notin Workers
  BY DispatcherAssumption DEF TypeOK
<1>s. ASSUME NEW p \in Pools, Shut(p), op \in {"stop", "destroy"}
      PROVE  Shut(p)'
  <2>1. closed'[p]
    <3>1. CASE ClosePool
      BY <1>s, <1>t, <3>1 DEF ClosePool, Shut
    <3>2. CASE Control /\ ~ClosePool
      BY <1>s, <3>2, ControlSteps
         DEF Begin, Ends, End, EnterStart, PushBackThread, PoolStarted, NextPool,
             SpawnThread, EnterStop, JoinPool, Shut
    <3> QED
      BY <1>s, <3>1, <3>2, OthersFrame, StepKinds DEF Shut
  <2>2. \A w \in Workers : thread'[w] = "live" => thread[w] = "live"
    <3>1. CASE Control
      BY <1>s, <3>1, ControlKeepsLive
    <3>2. CASE Calls
      BY <3>2, CallsFrame
    <3>3. CASE UNCHANGED vars \/ (\E w \in Workers : Worker(w))
      BY <1>t, <3>3 DEF vars, Worker, Take, Finish, Leave
    <3> QED
      BY <3>1, <3>2, <3>3, StepKinds DEF Others
  <2> QED
    BY <1>s, <2>1, <2>2 DEF Shut, WorkersOf
<1>1. CASE op \notin {"stop", "destroy"} \/ at' = 1
  <2>1. op' \in {"stop", "destroy"} => at' = 1
    <3>1. CASE op \notin {"stop", "destroy"}
      BY <3>1, ControlSteps, StepKinds, OthersFrame
         DEF Begin, Ends, End, EnterStart, PushBackThread, PoolStarted, NextPool,
             SpawnThread, EnterStop, ClosePool, JoinPool, Place
    <3> QED
      BY <1>1, <3>1
  <2> QED
    BY <2>1 DEF PassedAreShut
<1>2. CASE /\ op \in {"stop", "destroy"} /\ op' = op /\ actor' = actor
           /\ at' = at
  BY <1>2, <1>s, <1>t DEF PassedAreShut
<1>3. CASE JoinPool /\ op \in {"stop", "destroy"}
  <2>1. /\ at \in 1..Len(PoolOrder) /\ Current = PoolOrder[at] /\ Current \in Pools
        /\ at' = at + 1 /\ op' = op /\ actor' = actor /\ newThread = None
        /\ closed[Current] /\ closed' = closed
    BY <1>3, CurrentIsPool DEF JoinPool, NextPool, Place, Current
  <2>2. ASSUME actor = Main, NEW w \in Workers, PoolOf[w] = Current
        PROVE  thread'[w] # "live"
    <3>1. w \in Joinable <=> w \in m_threads[Current]
      BY <1>t, <2>2 DEF Joinable
    <3>2. thread[w] = "live" => w \in m_threads[Current]
      BY <2>1, <2>2, DispatcherAssumption DEF Threads
    <3> QED
      BY <1>3, <3>1, <3>2 DEF JoinPool
  <2> QED
    BY <2>1, <2>2, <1>s, <1>t DEF PassedAreShut, Shut, WorkersOf
<1> QED
  BY <1>1, <1>2, <1>3, ControlSteps, StepKinds, OthersFrame
     DEF Begin, Ends, End, EnterStart, PushBackThread, PoolStarted, NextPool,
         SpawnThread, EnterStop, ClosePool, Place

LEMMA StepQuiet ==
  ASSUME TypeOK, Place, Runs, PassedAreShut, Quiet, [Next]_vars
  PROVE  Quiet'
<1> USE DEF Quiet, StoppedMayBeDestroyed
<1>1. ASSUME NEW o \in {"start", "stop", "destroy"}, NEW c \in Workers \cup {Main},
             Begin(o, c)
      PROVE  Quiet'
  BY <1>1 DEF Begin
<1>2. ASSUME NEW o \in Outcomes, Ends(o)
      PROVE  Quiet'
  <2>1. op' = o /\ thread' = thread /\ o # "start"
    BY <1>2 DEF Ends, End, Outcomes
  <2>2. CASE op = "stop" /\ actor = Main /\ AtEnd
    <3>1. \A p \in Pools : Shut(p)
      BY <2>2, OrderFacts DEF PassedAreShut, AtEnd, Pools
    <3>2. \A w \in Workers : thread[w] # "live"
      BY <3>1, DispatcherAssumption DEF Shut, WorkersOf
    <3> QED
      BY <1>2, <2>1, <2>2, <3>2 DEF Ends
  <2>3. CASE ~(op = "stop" /\ actor = Main /\ AtEnd)
    <3>1. stopped' = stopped
      BY <1>2, <2>3 DEF Ends, End, TypeOK
    <3>2. o = "undefined" => ~stopped
      BY <1>2 DEF Ends, Runs
    <3> QED
      BY <2>1, <3>1, <3>2
  <2> QED
    BY <2>2, <2>3
<1>3. CASE Control /\ op' = op /\ stopped' = stopped
  BY <1>3, ControlKeepsLive
<1>4. CASE Others
  <2>1. \A w \in Workers : thread'[w] = "live" => thread[w] = "live"
    <3>1. CASE Calls
      BY <3>1, CallsFrame
    <3>2. CASE UNCHANGED vars \/ (\E w \in Workers : Worker(w))
      BY <3>2 DEF vars, Worker, Take, Finish, Leave, TypeOK
    <3> QED
      BY <1>4, <3>1, <3>2 DEF Others
  <2> QED
    BY <1>4, <2>1, OthersFrame
<1> QED
  BY <1>1, <1>2, <1>3, <1>4, ControlSteps, StepKinds
     DEF EnterStart, PushBackThread, PoolStarted, NextPool, SpawnThread,
         EnterStop, ClosePool, JoinPool

-----------------------------------------------------------------------------
(* Whose tasks and request ids are whose.                                  *)

\* What is left of Ids when the tasks other than t keep their place, and t is
\* no longer the callback of a cancel in progress.
LEMMA HandedKeepsIds ==
  ASSUME TypeOK, Ids,
         NEW t \in Tasks, NEW f \in {"queued", "refused", "inline"}, NEW name \in Names,
         Hands(t, f, name),
         f = "queued" => m_request_id'[t] # 0,
         \A u \in Tasks \ {t} : m_request_id'[u] = m_request_id[u],
         own \subseteq own',
         \A c \in Callers : cancelling'[c] # None =>
           cancelling'[c] = cancelling[c] /\ cancelling[c].callback # t
  PROVE  Ids'
<1>t. fate \in [Tasks -> Fate]
  BY DEF TypeOK
<1>f. \A u \in Tasks : fate'[u] = IF u = t THEN f ELSE fate[u]
  BY <1>t DEF Hands
<1>1. \A c \in Callers : cancelling'[c] # None => fate'[cancelling'[c].callback] = "new"
  BY <1>f, CallbackTyped DEF Ids
<1>2. \A c, d \in Callers : cancelling'[c] # None /\ cancelling'[d] # None
        /\ cancelling'[c].callback = cancelling'[d].callback => c = d
  BY DEF Ids
<1>3. \A u \in Tasks : fate'[u] = "queued" => m_request_id'[u] # 0
  BY <1>f DEF Ids
<1>4. \A u \in Tasks : fate'[u] = "cancelled" => m_request_id'[u] \in own'
  BY <1>f DEF Ids, OnlyOwnIdsCancelled
<1> QED
  BY <1>1, <1>2, <1>3, <1>4 DEF Ids, OnlyOwnIdsCancelled

LEMMA RemoveKeepsIds ==
  ASSUME TypeOK, Ids, NEW name \in Names, NEW id \in own \cup {0}, Remove(name, id),
         UNCHANGED <<m_request_id, own>>
  PROVE  /\ \A u \in Tasks : fate[u] = "new" <=> fate'[u] = "new"
         /\ \A t \in Tasks : fate'[t] = "queued" => m_request_id'[t] # 0
         /\ OnlyOwnIdsCancelled'
<1>f. \A u \in Tasks : \/ fate'[u] = fate[u]
                       \/ /\ fate[u] = "queued" /\ fate'[u] = "cancelled"
                          /\ m_request_id[u] = id
  BY DEF Remove
<1> QED
  BY <1>f DEF Ids, OnlyOwnIdsCancelled

LEMMA StepIds ==
  ASSUME TypeOK, Place, Runs, Ids, [Next]_vars
  PROVE  Ids'
<1>t. /\ running \in [Workers -> Tasks \cup {None}]
      /\ fate \in [Tasks -> Fate]
      /\ cancelling \in [Callers -> {None} \cup [name : Names, callback : Tasks]]
      /\ m_request_id \in [Tasks -> Nat]
      /\ s_REQUEST_ID \in Nat /\ own \subseteq 1..s_REQUEST_ID
  BY DEF TypeOK
<1>k. ASSUME UNCHANGED <<m_request_id, idVars, cancelling>>,
             \A t \in Tasks : \/ fate'[t] = fate[t]
                              \/ /\ fate[t] \in {"queued", "running"}
                                 /\ fate'[t] \notin {"queued", "cancelled"}
      PROVE  Ids'
  <2>1. \A t \in Tasks : fate[t] = "new" => fate'[t] = "new"
    BY <1>k
  <2> QED
    BY <1>k, <2>1, CallbackTyped DEF Ids, OnlyOwnIdsCancelled
<1>1. CASE Control
  BY <1>1, <1>k, ControlFrame
<1>2. ASSUME NEW w \in Workers, Take(w)
      PROVE  Ids'
  BY <1>2, <1>t, <1>k DEF Take, Queue
<1>3. ASSUME NEW w \in Workers, Finish(w)
      PROVE  Ids'
  BY <1>3, <1>t, <1>k DEF Finish, Runs
<1>4. CASE UNCHANGED vars \/ (\E w \in Workers : Leave(w))
  BY <1>4, <1>k DEF vars, Leave
<1>5. ASSUME NEW c \in Callers, NEW name \in Names, NEW t \in Tasks,
             \/ Dispatch(c, name, t)
             \/ \E id \in own : DispatchWithId(c, name, t, id)
      PROVE  Ids'
  <2>1. PICK f \in {"queued", "refused", "inline"}, n \in Names : Hands(t, f, n)
    BY <1>5, AddTaskHands DEF Dispatch, DispatchWithId, Fresh
  <2>2. /\ m_request_id'[t] # 0 /\ own' = own
        /\ \A u \in Tasks \ {t} : m_request_id'[u] = m_request_id[u]
    BY <1>5, <1>t DEF Dispatch, DispatchWithId, WithNewRequestId
  <2>3. cancelling' = cancelling /\ Fresh(t)
    BY <1>5 DEF Dispatch, DispatchWithId
  <2> QED
    BY <2>1, <2>2, <2>3, HandedKeepsIds DEF Fresh
<1>6. ASSUME NEW c \in Callers, CancelDispatches(c)
      PROVE  Ids'
  <2> DEFINE t == cancelling[c].callback
  <2>1. t \in Tasks /\ fate[t] = "new" /\ cancelling[c] # None
    BY <1>6, CallbackTyped DEF CancelDispatches, Ids
  <2>2. PICK f \in {"queued", "refused", "inline"}, n \in Names : Hands(t, f, n)
    BY <1>6, <2>1, CallbackTyped, AddTaskHands DEF CancelDispatches
  <2>3. /\ m_request_id'[t] # 0 /\ own' = own
        /\ \A u \in Tasks \ {t} : m_request_id'[u] = m_request_id[u]
    BY <1>6, <1>t, <2>1 DEF CancelDispatches, WithNewRequestId
  <2>4. \A d \in Callers : cancelling'[d] # None =>
          cancelling'[d] = cancelling[d] /\ cancelling[d].callback # t
    BY <1>6, <1>t, <2>1 DEF CancelDispatches, Ids
  <2> HIDE DEF t
  <2> QED
    BY <2>1, <2>2, <2>3, <2>4, HandedKeepsIds
<1>7. ASSUME NEW c \in Callers, NEW p \in Pools, NEW t \in Tasks, ExecuteInline(c, p, t)
      PROVE  Ids'
  <2>1. Hands(t, "inline", p) /\ p \in Names
    BY <1>7 DEF ExecuteInline, Fresh, Hands, Names
  <2> QED
    BY <1>7, <2>1, HandedKeepsIds DEF ExecuteInline, Fresh
<1>8. ASSUME NEW c \in Callers, NEW name \in Names, NEW id \in own \cup {0},
             CancelPending(c, name, id)
      PROVE  Ids'
  <2>1. Remove(name, id) /\ UNCHANGED <<m_request_id, own, cancelling>>
    BY <1>8 DEF CancelPending
  <2> QED
    BY <2>1, RemoveKeepsIds, CallbackTyped DEF Ids
<1>9. ASSUME NEW c \in Callers, NEW name \in Names, NEW id \in own, NEW t \in Tasks,
             Cancel(c, name, id, t)
      PROVE  Ids'
  <2>1. /\ Remove(name, id) /\ UNCHANGED <<m_request_id, own>> /\ Fresh(t)
        /\ cancelling' = [cancelling EXCEPT ![c] = [name |-> name, callback |-> t]]
    BY <1>9 DEF Cancel
  <2>2. \A d \in Callers : cancelling'[d] # None =>
          IF d = c THEN cancelling'[d].callback = t ELSE cancelling'[d] = cancelling[d]
    BY <1>t, <2>1
  <2>3. \A d \in Callers : cancelling'[d] # None => fate'[cancelling'[d].callback] = "new"
    BY <2>1, <2>2, RemoveKeepsIds, CallbackTyped DEF Ids, Fresh
  <2>4. \A d, e \in Callers : cancelling'[d] # None /\ cancelling'[e] # None
          /\ cancelling'[d].callback = cancelling'[e].callback => d = e
    BY <2>1, <2>2 DEF Ids, Fresh
  <2> QED
    BY <2>1, <2>3, <2>4, RemoveKeepsIds DEF Ids
<1>10. CASE CreateRequestId
  BY <1>10, <1>t DEF CreateRequestId, Ids, OnlyOwnIdsCancelled
<1> QED
  BY <1>1, <1>2, <1>3, <1>4, <1>5, <1>6, <1>7, <1>8, <1>9, <1>10, StepKinds
     DEF Others, Calls, Caller, Worker

-----------------------------------------------------------------------------
(* The theorems.                                                           *)

LEMMA InitInv == Init => Inv
<1> SUFFICES ASSUME Init
             PROVE  Inv
  OBVIOUS
<1>1. TypeOK
  BY OrderFacts, DispatcherAssumption DEF Init, TypeOK, Fate, Names
<1>2. Place /\ InOrder
  BY <1>1, OrderFacts DEF Init, Place, InOrder
<1>3. Threads /\ Runs /\ Drainage /\ PassedAreShut /\ Quiet /\ Ids
  BY DEF Init, Threads, Runs, Drainage, PassedAreShut, Quiet, StoppedMayBeDestroyed,
         Ids, OnlyOwnIdsCancelled
<1> QED
  BY <1>1, <1>2, <1>3 DEF Inv

LEMMA StepInv == Inv /\ [Next]_vars => Inv'
BY StepTyped, StepPlace, StepInOrder, StepThreads, StepRuns, StepDrainage, StepPassed, StepQuiet,
   StepIds
   DEF Inv

\* Whatever threads, clients and the call of start or stop do, in any order.
THEOREM DispatcherInvariant == Spec => []Inv
<1>1. Init => Inv
  BY InitInv
<1>2. Inv /\ [Next]_vars => Inv'
  BY StepInv
<1> QED
  BY <1>1, <1>2, PTL DEF Spec

\* Every variable of the dispatcher keeps its type.
THEOREM TypeCorrect == Spec => []TypeOK
<1>1. Inv => TypeOK
  BY DEF Inv
<1> QED
  BY <1>1, DispatcherInvariant, PTL

\* cancel_pending and cancel take away the tasks of the id they are given, which
\* no task has that was dispatched without one.
THEOREM OwnIdsOnly == Spec => []OnlyOwnIdsCancelled
<1>1. Inv => OnlyOwnIdsCancelled
  BY DEF Inv, Ids
<1> QED
  BY <1>1, DispatcherInvariant, PTL

\* A task finds itself on one of its pool's threads whenever no start is in
\* progress: every thread that exists has been stored in m_threads by then.
THEOREM Recognised == Spec => []RecognisedOnceStarted
<1>1. Inv => RecognisedOnceStarted
  <2> SUFFICES ASSUME Inv, NEW w \in Workers, running[w] # None, op # "start"
               PROVE  w \in m_threads[PoolOf[w]]
    BY DEF RecognisedOnceStarted, OnOneOfThreads
  <2>1. newThread = None
    BY DEF Inv, Place
  <2>2. thread[w] = "live"
    BY DEF Inv, Runs
  <2> QED
    BY <2>1, <2>2, DispatcherAssumption DEF Inv, Threads
<1> QED
  BY <1>1, DispatcherInvariant, PTL

\* Main's stop leaves behind it pools without a queued or running task, whoever
\* goes on dispatching to them.
THEOREM StayDrained == Spec => []DrainedPoolsStayDrained
<1>1. Inv => DrainedPoolsStayDrained
  <2> SUFFICES ASSUME Inv, op = "stop", actor = Main,
                      NEW i \in 1..at - 1, PoolOrder[i] \in staffed
               PROVE  Drained(PoolOrder[i])
    BY DEF DrainedPoolsStayDrained
  <2> DEFINE p == PoolOrder[i]
  <2>1. p \in Pools /\ m_threads[p] \subseteq Workers /\ Shut(p)
    BY OrderFacts DEF Inv, TypeOK, PassedAreShut
  <2>2. Queue(p) = {}
    <3>1. CASE m_threads[p] # {}
      <4>1. PICK w \in m_threads[p] : w \in Workers /\ PoolOf[w] = p /\ thread[w] # "outside"
        BY <2>1, <3>1 DEF Inv, Threads
      <4>2. thread[w] = "returned"
        BY <2>1, <4>1 DEF Inv, TypeOK, Shut, WorkersOf
      <4> QED
        BY <4>1, <4>2 DEF Inv, Drainage
    <3>2. CASE m_threads[p] = {}
      BY <3>2 DEF Inv, Drainage
    <3> QED
      BY <3>1, <3>2
  <2>3. \A w \in WorkersOf(p) : running[w] = None
    BY <2>1 DEF Inv, Runs, Shut, WorkersOf
  <2> QED
    BY <2>2, <2>3 DEF Drained
<1> QED
  BY <1>1, DispatcherInvariant, PTL

\* Once Main's stop has returned, and until the next start, no task is left that
\* could call a dispatcher that is being destroyed.
THEOREM StoppedDestroyable == Spec => []StoppedMayBeDestroyed
<1>1. Inv => StoppedMayBeDestroyed
  BY DEF Inv, Quiet
<1> QED
  BY <1>1, DispatcherInvariant, PTL

\* stop has set every pool's m_started to false when it is over, also when it
\* was cut short by a pool that a failed start had not reached.
THEOREM StopReaches == Spec => StopReachesStarted
<1>1. Inv /\ [Next]_vars => [op = "stop" /\ op' = "idle" => \A p \in Pools : ~m_started'[p]]_vars
  <2> SUFFICES ASSUME Inv, [Next]_vars, op = "stop", op' = "idle", NEW p \in Pools
               PROVE  ~m_started'[p]
    OBVIOUS
  <2> USE OrderFacts
  <2>1. PICK o \in Outcomes : Ends(o)
    <3>1. Control /\ TypeOK /\ Place
      BY StepKinds, OthersFrame DEF Inv
    <3> QED
      BY <3>1, ControlSteps
         DEF MayStop, Begin, EnterStart, PushBackThread, PoolStarted, NextPool, SpawnThread,
             EnterStop, ClosePool, JoinPool
  <2>2. /\ m_started' = m_started
        /\ AtEnd \/ (~AtEnd /\ phase = "enter" /\ ~m_started[Current])
    BY <2>1 DEF Ends, End, Outcomes
  <2>3. at \in 1..Len(PoolOrder) + 1 /\ m_started \in [Pools -> BOOLEAN]
    BY DEF Inv, TypeOK
  <2>4. PICK i \in 1..Len(PoolOrder) : p = PoolOrder[i]
    BY DEF Pools
  <2>5. CASE i < at
    BY <2>2, <2>4, <2>5 DEF Inv, InOrder, Passed
  <2>6. CASE i >= at
    <3>1. at \in 1..Len(PoolOrder) /\ phase = "enter" /\ ~m_started[PoolOrder[at]]
      BY <2>2, <2>3, <2>4, <2>6 DEF AtEnd, Current
    <3> QED
      BY <2>2, <2>3, <2>4, <2>6, <3>1 DEF Inv, InOrder, Passed
  <2> QED
    BY <2>3, <2>4, <2>5, <2>6
<1> QED
  BY <1>1, DispatcherInvariant, PTL DEF Spec, StopReachesStarted

\* What a thread that join waits for can do: go on with its task, take one, or
\* leave. It does not wait for an element that never comes.
CanEnd(w) ==
  /\ w # actor /\ PoolOf[w] = Current
  /\ \/ thread[w] = "returned"
     \/ thread[w] = "live" /\ running[w] # None
     \/ thread[w] = "live" /\ closed[PoolOf[w]]

\* join waits for no thread that cannot end, also when it is called on a thread of
\* the pool: it does not wait for its own, and the pool is closed before.
THEOREM JoinsOnlyWhatCanEnd ==
  Spec => [](phase = "join" => \A w \in Joinable : CanEnd(w))
<1>1. Inv => (phase = "join" => \A w \in Joinable : CanEnd(w))
  <2> SUFFICES ASSUME Inv, phase = "join", NEW w \in Joinable
               PROVE  CanEnd(w)
    OBVIOUS
  <2>1. Current \in Pools /\ closed[Current] /\ m_threads[Current] \subseteq Workers
    BY CurrentIsPool DEF Inv, Place, TypeOK
  <2>2. w \in Workers /\ w # actor /\ PoolOf[w] = Current /\ thread[w] # "outside"
    BY <2>1 DEF Inv, Threads, Joinable
  <2>3. thread[w] \in {"live", "returned"}
    BY <2>2 DEF Inv, TypeOK
  <2> QED
    BY <2>1, <2>2, <2>3 DEF CanEnd
<1> QED
  BY <1>1, DispatcherInvariant, PTL

-----------------------------------------------------------------------------
(* Every pool is a task service.                                           *)

\* What the service of a pool shows of a task.
LEMMA StatusFacts ==
  ASSUME NEW p, NEW t \in Tasks
  PROVE  /\ ServiceStatus(p, t) = "accepted" <=> fate[t] = "queued" /\ home[t] = p
         /\ ServiceStatus(p, t) = "running" <=> fate[t] = "running" /\ home[t] = p
         /\ fate[t] = "new" => ServiceStatus(p, t) = "new"
BY DEF ServiceStatus

LEMMA StatusUnmoved ==
  ASSUME NEW p, UNCHANGED <<fate, home>>
  PROVE  \A t \in Tasks : ServiceStatus(p, t)' = ServiceStatus(p, t)
BY DEF ServiceStatus

LEMMA ServiceStutters ==
  ASSUME NEW p \in Pools, \A t \in Tasks : ServiceStatus(p, t)' = ServiceStatus(p, t),
         closed'[p] = closed[p], Halted(p)' = Halted(p)
  PROVE  UNCHANGED Service(p)!serviceVars
BY DEF Service!serviceVars

\* One task changes its status.
LEMMA ServiceChange ==
  ASSUME NEW p \in Pools, NEW t \in Tasks, NEW from, NEW to,
         ServiceStatus(p, t) = from, ServiceStatus(p, t)' = to,
         \A u \in Tasks \ {t} : ServiceStatus(p, u)' = ServiceStatus(p, u),
         closed'[p] = closed[p], Halted(p)' = Halted(p)
  PROVE  Service(p)!Change(t, from, to)
BY DEF Service!Change

LEMMA HaltedUnmoved ==
  ASSUME NEW p, UNCHANGED poolVars
  PROVE  Halted(p)' = Halted(p)
BY DEF Halted

\* Queued tasks that are no longer queued have been cancelled.
LEMMA ServiceCancels ==
  ASSUME NEW p \in Pools, closed'[p] = closed[p], Halted(p)' = Halted(p),
         home' = home,
         \A t \in Tasks : \/ fate'[t] = fate[t]
                          \/ fate[t] = "queued" /\ fate'[t] \in {"cancelled", "destroyed"}
  PROVE  Service(p)!Next
<1>s. PICK S \in SUBSET Tasks :
        S = {t \in Tasks : fate[t] = "queued" /\ home[t] = p /\ fate'[t] # "queued"}
  OBVIOUS
<1>1. \A t \in S : ServiceStatus(p, t) = "accepted"
  BY <1>s, StatusFacts
<1>2. ASSUME NEW t \in Tasks
      PROVE  ServiceStatus(p, t)' = IF t \in S THEN "cancelled" ELSE ServiceStatus(p, t)
  <2>1. CASE t \in S
    BY <1>s, <2>1 DEF ServiceStatus
  <2>2. CASE t \notin S /\ fate'[t] = fate[t]
    BY <2>2 DEF ServiceStatus
  <2>3. CASE t \notin S /\ fate'[t] # fate[t]
    <3>1. home[t] # p
      BY <1>s, <2>3
    <3> QED
      BY <2>3, <3>1 DEF ServiceStatus
  <2> QED
    BY <2>1, <2>2, <2>3
<1>3. Service(p)!Cancel(S)
  BY <1>1, <1>2 DEF Service!Cancel
<1> QED
  BY <1>3 DEF Service!Next

LEMMA ServiceTakes ==
  ASSUME Inv, NEW p \in Pools, NEW w \in Workers, Take(w)
  PROVE  [Service(p)!Next]_(Service(p)!serviceVars)
<1>t. fate \in [Tasks -> Fate]
  BY DEF Inv, TypeOK
<1>1. PICK t \in Queue(PoolOf[w]) : fate' = [fate EXCEPT ![t] = "running"]
  BY DEF Take
<1>2. t \in Tasks /\ fate[t] = "queued" /\ home[t] = PoolOf[w]
  BY <1>1 DEF Queue
<1>3. UNCHANGED poolVars /\ home' = home /\ thread[w] = "live"
  BY DEF Take
<1>4. \A u \in Tasks \ {t} : ServiceStatus(p, u)' = ServiceStatus(p, u)
  BY <1>t, <1>1, <1>3 DEF ServiceStatus
<1>5. Halted(p)' = Halted(p)
  BY <1>3, HaltedUnmoved
<1>6. CASE PoolOf[w] = p
  <2>1. ServiceStatus(p, t) = "accepted" /\ ServiceStatus(p, t)' = "running"
    BY <1>t, <1>1, <1>2, <1>3, <1>6 DEF ServiceStatus
  <2>2. Service(p)!Change(t, "accepted", "running")
    BY <1>2, <1>3, <1>4, <1>5, <2>1, ServiceChange
  <2>3. ~Halted(p)
    BY <1>3, <1>6 DEF Halted, WorkersOf
  <2> QED
    BY <1>2, <2>2, <2>3 DEF Service!Next, Service!Begin
<1>7. CASE PoolOf[w] # p
  <2>1. ServiceStatus(p, t)' = ServiceStatus(p, t)
    BY <1>2, <1>3, <1>7 DEF ServiceStatus
  <2>2. \A u \in Tasks : ServiceStatus(p, u)' = ServiceStatus(p, u)
    BY <1>4, <2>1
  <2> QED
    BY <1>3, <1>5, <2>2, ServiceStutters
<1> QED
  BY <1>6, <1>7

LEMMA ServiceFinishes ==
  ASSUME Inv, NEW p \in Pools, NEW w \in Workers, Finish(w)
  PROVE  [Service(p)!Next]_(Service(p)!serviceVars)
<1>1. PICK t \in Tasks : t = running[w] /\ fate[t] = "running"
  BY DEF Inv, TypeOK, Runs, Finish
<1>t. fate \in [Tasks -> Fate]
  BY DEF Inv, TypeOK
<1>2. fate' = [fate EXCEPT ![t] = "done"] /\ UNCHANGED poolVars /\ home' = home
  BY <1>1 DEF Finish
<1>3. Halted(p)' = Halted(p)
  BY <1>2, HaltedUnmoved
<1>4. \A u \in Tasks \ {t} : ServiceStatus(p, u)' = ServiceStatus(p, u)
  BY <1>t, <1>2 DEF ServiceStatus
<1>5. CASE home[t] = p
  <2>1. ServiceStatus(p, t) = "running" /\ ServiceStatus(p, t)' = "finished"
    BY <1>1, <1>t, <1>2, <1>5 DEF ServiceStatus
  <2>2. Service(p)!Change(t, "running", "finished")
    BY <1>1, <1>2, <1>3, <1>4, <2>1, ServiceChange
  <2> QED
    BY <1>1, <2>2 DEF Service!Next, Service!End
<1>6. CASE home[t] # p
  <2>1. ServiceStatus(p, t)' = ServiceStatus(p, t)
    BY <1>2, <1>6 DEF ServiceStatus
  <2>2. \A u \in Tasks : ServiceStatus(p, u)' = ServiceStatus(p, u)
    BY <1>4, <2>1
  <2> QED
    BY <1>2, <1>3, <2>2, ServiceStutters
<1> QED
  BY <1>5, <1>6

LEMMA ServiceCalls ==
  ASSUME Inv, NEW p \in Pools, Calls
  PROVE  [Service(p)!Next]_(Service(p)!serviceVars)
<1>1. TypeOK /\ Ids /\ fate \in [Tasks -> Fate] /\ home \in [Tasks -> Names]
  BY DEF Inv, TypeOK
<1>2. closed' = closed /\ Halted(p)' = Halted(p)
  BY CallsFrame, HaltedUnmoved
<1>3. CASE UNCHANGED <<fate, home>>
  BY <1>2, <1>3, StatusUnmoved, ServiceStutters
<1>4. ASSUME NEW t \in Tasks, NEW f \in {"queued", "refused", "inline"}, NEW name \in Names,
             Hands(t, f, name)
      PROVE  [Service(p)!Next]_(Service(p)!serviceVars)
  <2>1. ServiceStatus(p, t) = "new"
    BY <1>4, StatusFacts DEF Hands
  <2>2. fate'[t] = f /\ home'[t] = name
    BY <1>1, <1>4 DEF Hands
  <2>3. \A u \in Tasks \ {t} : ServiceStatus(p, u)' = ServiceStatus(p, u)
    BY <1>1, <1>4 DEF Hands, ServiceStatus
  <2>4. CASE f = "queued" /\ name = p
    <3>1. ServiceStatus(p, t)' = "accepted"
      BY <2>2, <2>4 DEF ServiceStatus
    <3>2. Service(p)!Change(t, "new", "accepted")
      BY <1>2, <2>1, <2>3, <3>1, ServiceChange
    <3>3. ~closed[p]
      BY <1>4, <2>4 DEF Hands
    <3> QED
      BY <3>2, <3>3 DEF Service!Next, Service!Accept
  <2>5. CASE ~(f = "queued" /\ name = p)
    <3>1. ServiceStatus(p, t)' = "new"
      BY <2>2, <2>5 DEF ServiceStatus
    <3>2. \A u \in Tasks : ServiceStatus(p, u)' = ServiceStatus(p, u)
      BY <2>1, <2>3, <3>1
    <3> QED
      BY <1>2, <3>2, ServiceStutters
  <2> QED
    BY <2>4, <2>5
<1>5. CASE Removes
  <2>1. /\ home' = home
        /\ \A t \in Tasks : \/ fate'[t] = fate[t]
                            \/ fate[t] = "queued" /\ fate'[t] \in {"cancelled", "destroyed"}
    BY <1>5 DEF Removes, Remove
  <2> QED
    BY <1>2, <2>1, ServiceCancels
<1> QED
  BY <1>1, <1>3, <1>4, <1>5, CallTasks

\* A pool that has threads but no live one has nothing left to do.
HaltedAreIdle ==
  \A p \in Pools : Halted(p) =>
    \A t \in Tasks : ServiceStatus(p, t) \notin {"accepted", "running"}

LEMMA InvHaltedIdle == Inv => HaltedAreIdle
<1> SUFFICES ASSUME Inv, NEW p \in Pools, Halted(p), NEW t \in Tasks, home[t] = p
             PROVE  fate[t] \notin {"queued", "running"}
  BY StatusFacts DEF HaltedAreIdle
<1>1. fate[t] # "queued"
  <2>1. CASE m_threads[p] # {}
    <3>1. PICK w \in m_threads[p] : w \in Workers /\ PoolOf[w] = p /\ thread[w] # "outside"
      BY <2>1 DEF Inv, TypeOK, Threads
    <3>2. thread[w] = "returned"
      BY <3>1 DEF Inv, TypeOK, Halted, WorkersOf
    <3> QED
      BY <3>1, <3>2 DEF Inv, Drainage, Queue
  <2>2. CASE m_threads[p] = {}
    BY <2>2 DEF Inv, Drainage, Halted, Queue
  <2> QED
    BY <2>1, <2>2
<1>2. fate[t] # "running"
  <2> SUFFICES ASSUME fate[t] = "running"
               PROVE  FALSE
    OBVIOUS
  <2>1. PICK w \in Workers : running[w] = t
    BY DEF Inv, Runs
  <2>2. thread[w] = "live" /\ PoolOf[w] = p
    BY <2>1, DispatcherAssumption DEF Inv, Runs
  <2> QED
    BY <2>2 DEF Halted, WorkersOf
<1> QED
  BY <1>1, <1>2

LEMMA InvHaltedIdleNext == Inv' => HaltedAreIdle'
BY InvHaltedIdle, PTL

\* A step that moves no task and closes no queue may halt a service, whose tasks
\* are all done then, or resume it.
LEMMA ServiceUnmoved ==
  ASSUME Inv', NEW p \in Pools, UNCHANGED <<fate, home>>, closed'[p] = closed[p],
         closed[p] \in BOOLEAN
  PROVE  [Service(p)!Next]_(Service(p)!serviceVars)
<1>1. \A t \in Tasks : ServiceStatus(p, t)' = ServiceStatus(p, t)
  BY StatusUnmoved
<1>2. CASE Halted(p)' = Halted(p)
  BY <1>1, <1>2, ServiceStutters
<1>3. CASE Halted(p)' /\ ~Halted(p)
  <2>1. \A t \in Tasks : ServiceStatus(p, t) \notin {"accepted", "running"}
    BY <1>1, <1>3, InvHaltedIdleNext DEF HaltedAreIdle
  <2>2. closed[p]
    BY <1>3 DEF Halted
  <2>3. Service(p)!Halt
    BY <1>1, <1>3, <2>1, <2>2 DEF Service!Halt
  <2> QED
    BY <2>3 DEF Service!Next
<1>4. CASE ~Halted(p)' /\ Halted(p)
  <2>1. Service(p)!Resume
    BY <1>1, <1>4 DEF Service!Resume
  <2> QED
    BY <2>1 DEF Service!Next
<1> QED
  BY <1>2, <1>3, <1>4 DEF Halted

\* A pool whose queue is open has a live thread, if it has ever had one.
LEMMA OpenIsNotHalted ==
  ASSUME Inv, NEW p \in staffed, ~closed[p]
  PROVE  \E w \in WorkersOf(p) : thread[w] = "live"
<1>1. PICK w \in m_threads[p] : w \in Workers /\ PoolOf[w] = p /\ thread[w] # "outside"
  BY DEF Inv, TypeOK, Threads, Drainage
<1> QED
  BY <1>1 DEF Inv, TypeOK, Drainage, WorkersOf

LEMMA ServiceCloses ==
  ASSUME Inv, NEW p \in Pools, ClosePool, p = Current, ~closed[p]
  PROVE  Service(p)!Next
<1>1. UNCHANGED <<fate, home, thread, staffed>> /\ closed'[p]
  BY DEF ClosePool, Inv, TypeOK
<1>2. ~Halted(p) /\ ~Halted(p)'
  <2>1. CASE p \in staffed
    <3>1. PICK w \in WorkersOf(p) : thread[w] = "live"
      BY <2>1, OpenIsNotHalted
    <3> QED
      BY <1>1, <3>1 DEF Halted, WorkersOf
  <2>2. CASE p \notin staffed
    BY <1>1, <2>2 DEF Halted
  <2> QED
    BY <2>1, <2>2
<1>3. \A t \in Tasks : ServiceStatus(p, t)' = ServiceStatus(p, t)
  BY <1>1, StatusUnmoved
<1>4. Halted(p)' = Halted(p)
  BY <1>2 DEF Halted
<1>5. Service(p)!Shutdown
  BY <1>1, <1>3, <1>4 DEF Service!Shutdown
<1> QED
  BY <1>5 DEF Service!Next

LEMMA ServiceJoins ==
  ASSUME Inv, NEW p \in Pools, JoinPool
  PROVE  Service(p)!Next
<1>1. UNCHANGED <<closed, home, staffed>>
  BY DEF JoinPool
<1>2. \A t \in Tasks : fate'[t] = fate[t] \/ (fate[t] = "queued" /\ fate'[t] = "destroyed")
  BY DEF JoinPool, Queue
<1>3. \A w \in Workers : thread'[w] = "live" <=> thread[w] = "live"
  BY DEF JoinPool
<1>4. Halted(p)' = Halted(p)
  BY <1>1, <1>3 DEF Halted, WorkersOf
<1> QED
  BY <1>1, <1>2, <1>4, ServiceCancels

\* A step of the dispatcher is a step of every pool's service, or changes nothing
\* that the service shows.
LEMMA ServiceStep ==
  ASSUME Inv, [Next]_vars, NEW p \in Pools
  PROVE  [Service(p)!Next]_(Service(p)!serviceVars)
<1>1. Inv' /\ TypeOK /\ Place /\ closed[p] \in BOOLEAN
  BY StepInv DEF Inv, TypeOK
<1>2. CASE JoinPool
  BY <1>2, ServiceJoins
<1>3. CASE ClosePool
  <2>1. CASE p = Current /\ ~closed[p]
    BY <1>3, <2>1, ServiceCloses
  <2>2. CASE ~(p = Current /\ ~closed[p])
    <3>1. UNCHANGED <<fate, home>> /\ closed'[p] = closed[p]
      BY <1>3, <2>2 DEF ClosePool, Inv, TypeOK
    <3> QED
      BY <1>1, <3>1, ServiceUnmoved
  <2> QED
    BY <2>1, <2>2
<1>4. CASE Control /\ ~JoinPool /\ ~ClosePool
  <2>1. UNCHANGED <<fate, home, closed>>
    BY <1>1, <1>4, ControlSteps
       DEF Begin, Ends, End, EnterStart, PushBackThread, PoolStarted, NextPool,
           SpawnThread, EnterStop
  <2> QED
    BY <1>1, <2>1, ServiceUnmoved
<1>5. CASE Calls
  BY <1>5, ServiceCalls
<1>6. ASSUME NEW w \in Workers, Take(w) \/ Finish(w)
      PROVE  [Service(p)!Next]_(Service(p)!serviceVars)
  BY <1>6, ServiceTakes, ServiceFinishes
<1>7. CASE UNCHANGED vars \/ (\E w \in Workers : Leave(w))
  <2>1. UNCHANGED <<fate, home, closed>>
    BY <1>7 DEF vars, Leave
  <2> QED
    BY <1>1, <2>1, ServiceUnmoved
<1> QED
  BY <1>2, <1>3, <1>4, <1>5, <1>6, <1>7, StepKinds DEF Others, Worker

\* Every pool of the dispatcher promises what a single pool promises: a task
\* that was accepted is run once or cancelled, and stop leaves none behind,
\* while tasks of the other pools go on dispatching and cancelling.
THEOREM PoolsAreServices == Spec => ImplementsServices
<1> DEFINE Inits == \A p \in Pools : Service(p)!Init
           Steps == \A p \in Pools : [Service(p)!Next]_(Service(p)!serviceVars)
<1>1. Init => Inits
  BY DEF Init, ServiceStatus, Halted, Service!Init
<1>2. Inv /\ [Next]_vars => [Steps]_vars
  BY ServiceStep
<1> QED
  BY <1>1, <1>2, DispatcherInvariant, PTL DEF Spec, ImplementsServices
=============================================================================
