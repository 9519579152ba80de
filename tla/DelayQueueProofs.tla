--------------------------- MODULE DelayQueueProofs ---------------------------
(***************************************************************************)
(* The invariants of DelayQueue, for every number of tasks and consumers,  *)
(* every set of delays and every resolution of the clock. Inv is their     *)
(* conjunction with what makes it inductive: where the sequence ids come   *)
(* from, who owns a task, and that a queue never holds infinitely many.    *)
(***************************************************************************)
EXTENDS DelayQueue, FiniteSetTheorems, TLAPS

\* The ids of the tasks made so far are distinct, and below the counter.
SequenceIds ==
  /\ \A t \in Constructed : m_sequence_id[t] <= s_SEQUENCE_ID
  /\ \A s, t \in Constructed : s # t => m_sequence_id[s] # m_sequence_id[t]

Inv ==
  /\ TypeOK
  /\ SequenceIds
  /\ IsFiniteSet(m_elements)
  /\ OneOwner
  /\ SomebodyComesBack
  /\ CloseReachesAll
  /\ ReturnedMeansDrained

-----------------------------------------------------------------------------
\* Division by the resolution, which turns ticks into milliseconds.
LEMMA DivisionNat ==
  ASSUME NEW a \in Nat
  PROVE  a \div Res \in Nat
BY TaskAssumption

LEMMA DivisionMonotone ==
  ASSUME NEW a \in Nat, NEW b \in Nat, a <= b
  PROVE  a \div Res <= b \div Res
BY TaskAssumption

LEMMA DivisionBounds ==
  ASSUME NEW a \in Nat
  PROVE  /\ (a \div Res) * Res \in 0..a
         /\ a < (a \div Res) * Res + Res
BY TaskAssumption

\* What a task's delay says about its due time.
LEMMA DelayBounds ==
  ASSUME TypeOK, NEW t \in Tasks
  PROVE  /\ Delay(t) \in Nat
         /\ Delay(t) <= 0 => m_due_time[t] - now < Res
         /\ Delay(t) > 0 => /\ m_due_time[t] - now >= Res
                            /\ now + Delay(t) * Res \in 0..m_due_time[t]
<1>1. now \in Nat /\ m_due_time[t] \in Nat /\ Res \in Nat \ {0}
  BY TaskAssumption DEF TypeOK, TaskTypeOK
<1>2. CASE m_due_time[t] < now
  BY <1>1, <1>2 DEF Delay
<1>3. CASE ~(m_due_time[t] < now)
  <2> DEFINE left == m_due_time[t] - now
  <2>1. left \in Nat /\ Delay(t) = left \div Res
    BY <1>1, <1>3 DEF Delay
  <2>2. /\ left \div Res \in Nat
        /\ (left \div Res) * Res \in 0..left
        /\ left < (left \div Res) * Res + Res
    BY <2>1, DivisionNat, DivisionBounds
  <2>3. left \div Res > 0 => left >= Res
    BY <1>1, <2>1
  <2>4. left \div Res <= 0 => left < Res
    BY <1>1, <2>1
  <2> QED BY <1>1, <2>1, <2>2, <2>3, <2>4
<1> QED BY <1>2, <1>3

LEMMA DueTimeNat ==
  ASSUME TypeOK, NEW t \in Tasks
  PROVE  DueTime(t) \in Nat
BY TaskAssumption, DivisionNat DEF TypeOK, TaskTypeOK, DueTime

\* The first element falls due no later than any other.
LEMMA FirstIsEarliest ==
  ASSUME TypeOK, NEW h \in m_elements, IsFirst(h), NEW t \in m_elements
  PROVE  DueTime(h) <= DueTime(t)
BY DueTimeNat DEF IsFirst, Before, TypeOK

-----------------------------------------------------------------------------
LEMMA TypeInit == Init => TypeOK
<1> SUFFICES ASSUME Init PROVE TypeOK
  OBVIOUS
<1>1. 0 \in 0..MaxTime /\ "absent" \in PromiseState /\ "outside" \in Location
  BY TaskAssumption DEF PromiseState, Location
<1>2. TaskTypeOK
  BY <1>1 DEF Init, TaskInit, TaskTypeOK
<1> QED BY <1>1, <1>2 DEF Init, TypeOK

\* NotifyOne changes the place and the deadline of one consumer, if any.
LEMMA NotifyOneType ==
  ASSUME TypeOK, NotifyOne
  PROVE  pc' \in [Consumers -> Location] /\ deadline' \in [Consumers -> 0..MaxTime]
<1>1. 0 \in 0..MaxTime /\ "ready" \in Location
  BY TaskAssumption DEF Location
<1>2. CASE UNCHANGED <<pc, deadline>>
  BY <1>2 DEF TypeOK
<1>3. CASE \E c \in Blocked : /\ pc' = [pc EXCEPT ![c] = "ready"]
                             /\ deadline' = [deadline EXCEPT ![c] = 0]
  BY <1>1, <1>3 DEF TypeOK
<1> QED BY <1>2, <1>3 DEF NotifyOne

LEMMA TypeStep ==
  ASSUME TypeOK, Next
  PROVE  TypeOK'
<1> USE DEF TypeOK, TaskTypeOK, PromiseState, Settled, Outcome, Location
<1>1. ASSUME NEW t \in Tasks, Producer(t) PROVE TypeOK'
  <2>1. CASE Construct(t) /\ UNCHANGED queueVars
    BY <2>1 DEF Construct, queueVars
  <2>2. CASE (\E d \in Delays : SetDueTime(t, d)) /\ UNCHANGED queueVars
    BY <2>2 DEF SetDueTime, queueVars
  <2>3. CASE (\E r \in RequestIds : SetRequestId(t, r)) /\ UNCHANGED queueVars
    BY <2>3 DEF SetRequestId, queueVars
  <2>4. CASE Push(t)
    <3>1. m_elements' \subseteq Tasks
      BY <2>4 DEF Push, Insert
    <3> QED BY <2>4, <3>1, NotifyOneType DEF Push, taskVars
  <2>5. CASE Discard({t}) /\ UNCHANGED queueVars
    BY <2>5 DEF Discard, queueVars
  <2> QED BY <1>1, <2>1, <2>2, <2>3, <2>4, <2>5 DEF Producer
<1>2. ASSUME NEW c \in Consumers, Consumer(c) PROVE TypeOK'
  <2>1. CASE Enter(c)
    BY <2>1 DEF Enter, taskVars
  <2>2. CASE Pop(c)
    BY <2>2 DEF Pop, taskVars
  <2>3. CASE WaitForFirst(c)
    <3>1. PICK t \in m_elements :
            /\ Delay(t) > 0
            /\ deadline' = [deadline EXCEPT ![c] = now + Delay(t) * Res]
      BY <2>3 DEF WaitForFirst
    <3>2. now + Delay(t) * Res \in 0..MaxTime
      BY <3>1, DelayBounds, TaskAssumption
    <3>3. deadline' \in [Consumers -> 0..MaxTime]
      BY <3>1, <3>2
    <3> QED BY <2>3, <3>3 DEF WaitForFirst, taskVars
  <2>4. CASE WaitForElement(c)
    BY <2>4 DEF WaitForElement, taskVars
  <2>5. CASE ReturnEmpty(c)
    BY <2>5 DEF ReturnEmpty, taskVars
  <2>6. CASE Timeout(c)
    BY <2>6, TaskAssumption DEF Timeout, taskVars
  <2>7. CASE SpuriousWakeup(c)
    BY <2>7, TaskAssumption DEF SpuriousWakeup, taskVars
  <2>8. CASE \E outcome \in Outcome : Consume(c, outcome)
    <3>1. PICK outcome \in Outcome : Consume(c, outcome)
      BY <2>8
    <3>2. m_promise' \in [Tasks -> PromiseState]
      BY <3>1 DEF Consume, Run
    <3>3. held' \in [Consumers -> Tasks \cup {NoTask}] /\ pc' \in [Consumers -> Location]
      BY <3>1 DEF Consume
    <3> QED BY <3>1, <3>2, <3>3 DEF Consume, Run
  <2> QED BY <1>2, <2>1, <2>2, <2>3, <2>4, <2>5, <2>6, <2>7, <2>8 DEF Consumer, WaitPop
<1>3. CASE SetClosed
  BY <1>3 DEF SetClosed, taskVars
<1>4. CASE NotifyAll
  <2>1. pc' \in [Consumers -> Location]
    BY <1>4 DEF NotifyAll
  <2>2. deadline' \in [Consumers -> 0..MaxTime]
    BY <1>4, TaskAssumption DEF NotifyAll
  <2> QED BY <1>4, <2>1, <2>2 DEF NotifyAll, taskVars
<1>5. CASE \E r \in RequestIds \cup {0} : Remove(r)
  BY <1>5 DEF Remove, Discard
<1>6. CASE Destruct
  BY <1>6 DEF Destruct, DestroyElements, Discard
<1>7. CASE Tick /\ UNCHANGED queueVars
  BY <1>7, TaskAssumption DEF Tick, queueVars
<1> QED BY <1>1, <1>2, <1>3, <1>4, <1>5, <1>6, <1>7 DEF Next

-----------------------------------------------------------------------------
\* Only Construct makes a task, and only Construct gives out sequence ids.
LEMMA SequenceIdsStep ==
  ASSUME TypeOK, SequenceIds, Next
  PROVE  SequenceIds'
<1>1. ASSUME NEW t \in Tasks, Construct(t) PROVE SequenceIds'
  <2>1. Constructed' = Constructed \cup {t} /\ t \notin Constructed
    BY <1>1 DEF Construct, Constructed, TypeOK, TaskTypeOK
  <2>2. /\ s_SEQUENCE_ID' = s_SEQUENCE_ID + 1
        /\ m_sequence_id'[t] = s_SEQUENCE_ID + 1
        /\ \A u \in Constructed : m_sequence_id'[u] = m_sequence_id[u]
    BY <1>1, <2>1 DEF Construct, Constructed, TypeOK, TaskTypeOK
  <2>3. Constructed \subseteq Tasks /\ \A u \in Tasks : m_sequence_id[u] \in Nat
    BY DEF Constructed, TypeOK, TaskTypeOK
  <2> QED BY <2>1, <2>2, <2>3 DEF SequenceIds, TypeOK, TaskTypeOK
<1>2. ASSUME Constructed' = Constructed, UNCHANGED <<s_SEQUENCE_ID, m_sequence_id>>
      PROVE  SequenceIds'
  BY <1>2 DEF SequenceIds
<1>3. ASSUME NEW S, Discard(S)
      PROVE  Constructed' = Constructed /\ UNCHANGED <<s_SEQUENCE_ID, m_sequence_id>>
  BY <1>3 DEF Discard, Constructed
<1>4. ASSUME NEW t \in Tasks, NEW outcome \in Outcome, Run(t, outcome)
      PROVE  Constructed' = Constructed /\ UNCHANGED <<s_SEQUENCE_ID, m_sequence_id>>
  BY <1>4 DEF Run, Constructed, Outcome, TypeOK, TaskTypeOK
<1>5. ASSUME UNCHANGED <<s_SEQUENCE_ID, m_sequence_id, m_promise>> PROVE SequenceIds'
  BY <1>2, <1>5 DEF Constructed
<1>6. ASSUME NEW t \in Tasks, Producer(t) PROVE SequenceIds'
  BY <1>1, <1>2, <1>3, <1>5, <1>6 DEF Producer, SetDueTime, SetRequestId, Push, taskVars
<1>7. ASSUME NEW c \in Consumers, NEW outcome \in Outcome, Consume(c, outcome)
      PROVE  SequenceIds'
  <2>1. CASE held[c] \in Tasks
    BY <1>2, <1>4, <1>7, <2>1 DEF Consume
  <2>2. CASE held[c] \notin Tasks
    BY <1>5, <1>7, <2>2 DEF Consume, Run, TypeOK, TaskTypeOK
  <2> QED BY <2>1, <2>2
<1>8. ASSUME NEW c \in Consumers, Consumer(c) PROVE SequenceIds'
  BY <1>5, <1>7, <1>8 DEF Consumer, Enter, WaitPop, Pop, WaitForFirst, WaitForElement,
    ReturnEmpty, Timeout, SpuriousWakeup, taskVars
<1>9. ASSUME NEW r \in RequestIds \cup {0}, Remove(r) PROVE SequenceIds'
  BY <1>2, <1>3, <1>9 DEF Remove
<1> QED
  BY <1>2, <1>3, <1>5, <1>6, <1>8, <1>9 DEF Next, SetClosed, NotifyAll, Destruct, DestroyElements,
    Tick, taskVars

-----------------------------------------------------------------------------
\* Steps that move no task, or only one that nobody owns, keep the owners.
LEMMA OwnersUnmoved ==
  ASSUME OneOwner,
         m_elements' \subseteq m_elements,
         held' = held,
         \A c \in Consumers : (pc'[c] = "busy") = (pc[c] = "busy"),
         \A t \in Tasks : t \in m_elements' \/ (\E c \in Consumers : held[c] = t)
                        => m_promise'[t] = m_promise[t],
         m_elements \subseteq Tasks,
         \A c \in Consumers : held[c] \in Tasks \cup {NoTask}
  PROVE  OneOwner'
BY DEF OneOwner

LEMMA OneOwnerStep ==
  ASSUME TypeOK, OneOwner, Next
  PROVE  OneOwner'
<1>0. /\ m_elements \subseteq Tasks
      /\ pc \in [Consumers -> Location]
      /\ held \in [Consumers -> Tasks \cup {NoTask}]
      /\ m_promise \in [Tasks -> PromiseState]
  BY DEF TypeOK, TaskTypeOK
<1>1. ASSUME NEW t \in Tasks, Producer(t) PROVE OneOwner'
  <2>1. CASE Construct(t) /\ UNCHANGED queueVars
    BY <1>0, <2>1, OwnersUnmoved DEF Construct, queueVars, OneOwner
  <2>2. CASE (\E d \in Delays : SetDueTime(t, d)) /\ UNCHANGED queueVars
    BY <1>0, <2>2, OwnersUnmoved DEF SetDueTime, queueVars
  <2>3. CASE (\E r \in RequestIds : SetRequestId(t, r)) /\ UNCHANGED queueVars
    BY <1>0, <2>3, OwnersUnmoved DEF SetRequestId, queueVars
  <2>4. CASE InHand(t) /\ Discard({t}) /\ UNCHANGED queueVars
    BY <1>0, <2>4, OwnersUnmoved DEF Discard, InHand, queueVars
  <2>5. CASE Push(t)
    <3>1. m_elements' \subseteq m_elements \cup {t}
      BY <2>5 DEF Push, Insert
    <3>2. \A c \in Consumers : (pc'[c] = "busy") = (pc[c] = "busy")
      BY <1>0, <2>5 DEF Push, NotifyOne, Blocked
    <3> QED BY <2>5, <3>1, <3>2 DEF Push, InHand, OneOwner, taskVars
  <2> QED BY <1>1, <2>1, <2>2, <2>3, <2>4, <2>5 DEF Producer
<1>2. ASSUME NEW c \in Consumers, Consumer(c) PROVE OneOwner'
  <2>1. CASE Enter(c)
    BY <1>0, <2>1, OwnersUnmoved DEF Enter, taskVars
  <2>2. CASE Pop(c)
    <3>1. PICK t \in m_elements : /\ m_elements' = m_elements \ {t}
                                 /\ held' = [held EXCEPT ![c] = t]
      BY <2>2 DEF Pop
    <3>2. pc' = [pc EXCEPT ![c] = "busy"] /\ m_promise' = m_promise
      BY <2>2 DEF Pop, taskVars
    <3> QED BY <1>0, <3>1, <3>2, QueueAssumption DEF OneOwner
  <2>3. CASE WaitForFirst(c)
    BY <1>0, <2>3, OwnersUnmoved DEF WaitForFirst, taskVars
  <2>4. CASE WaitForElement(c)
    BY <1>0, <2>4, OwnersUnmoved DEF WaitForElement, taskVars
  <2>5. CASE ReturnEmpty(c)
    BY <1>0, <2>5, OwnersUnmoved DEF ReturnEmpty, taskVars
  <2>6. CASE Timeout(c)
    BY <1>0, <2>6, OwnersUnmoved DEF Timeout, taskVars
  <2>7. CASE SpuriousWakeup(c)
    BY <1>0, <2>7, OwnersUnmoved DEF SpuriousWakeup, Blocked, taskVars
  <2>8. CASE \E outcome \in Outcome : Consume(c, outcome)
    <3>1. PICK outcome \in Outcome : Consume(c, outcome)
      BY <2>8
    <3>2. held[c] \in Tasks /\ pc[c] = "busy"
      BY <1>0, <3>1 DEF Consume, OneOwner
    <3>3. /\ held' = [held EXCEPT ![c] = NoTask]
          /\ pc' = [pc EXCEPT ![c] = "ready"]
          /\ m_elements' = m_elements
          /\ \A t \in Tasks \ {held[c]} : m_promise'[t] = m_promise[t]
      BY <1>0, <3>1, <3>2 DEF Consume, Run
    <3>4. \A t \in m_elements' : m_promise'[t] = "pending"
      BY <1>0, <3>2, <3>3 DEF OneOwner
    <3>5. \A d \in Consumers : (pc'[d] = "busy") = (held'[d] # NoTask)
      BY <1>0, <3>3 DEF OneOwner
    <3>6. ASSUME NEW d \in Consumers, held'[d] # NoTask
          PROVE  /\ m_promise'[held'[d]] = "pending"
                 /\ held'[d] \notin m_elements'
                 /\ \A e \in Consumers \ {d} : held'[e] # held'[d]
      <4>1. d # c /\ held'[d] = held[d] /\ held[d] \in Tasks \ {held[c]}
        BY <1>0, <3>2, <3>3, <3>6 DEF OneOwner
      <4> QED BY <1>0, <3>3, <3>6, <4>1 DEF OneOwner
    <3> QED BY <3>4, <3>5, <3>6 DEF OneOwner
  <2> QED BY <1>2, <2>1, <2>2, <2>3, <2>4, <2>5, <2>6, <2>7, <2>8 DEF Consumer, WaitPop
<1>3. CASE SetClosed
  BY <1>0, <1>3, OwnersUnmoved DEF SetClosed, taskVars
<1>4. CASE NotifyAll
  BY <1>0, <1>4, OwnersUnmoved DEF NotifyAll, Blocked, taskVars
<1>5. CASE \E r \in RequestIds \cup {0} : Remove(r)
  <2>1. PICK r \in RequestIds \cup {0} : Remove(r)
    BY <1>5
  <2>2. \A t \in Tasks : t \notin Matching(r) => m_promise'[t] = m_promise[t]
    BY <2>1 DEF Remove, Discard
  <2> QED BY <1>0, <2>1, <2>2, OwnersUnmoved DEF Remove, Matching, OneOwner
<1>6. CASE Destruct
  <2>1. \A t \in Tasks : t \notin m_elements => m_promise'[t] = m_promise[t]
    BY <1>6 DEF Destruct, DestroyElements, Discard
  <2> QED BY <1>0, <1>6, <2>1, OwnersUnmoved DEF Destruct, DestroyElements, OneOwner
<1>7. CASE Tick /\ UNCHANGED queueVars
  BY <1>0, <1>7, OwnersUnmoved DEF Tick, queueVars
<1> QED BY <1>1, <1>2, <1>3, <1>4, <1>5, <1>6, <1>7 DEF Next

-----------------------------------------------------------------------------
\* A step that leaves the consumers alone, adds nothing to the queue and moves
\* no queued task leaves nobody asleep for longer.
LEMMA SleepersUnmoved ==
  ASSUME SomebodyComesBack,
         pc' = pc, deadline' = deadline,
         m_elements' \subseteq m_elements,
         \A t \in m_elements' : m_due_time'[t] = m_due_time[t]
  PROVE  SomebodyComesBack'
BY DEF SomebodyComesBack, Blocked, DueTime

\* Nor does a step after which some consumer is awake.
LEMMA AwakeComesBack ==
  ASSUME NEW c \in Consumers, pc'[c] \in {"ready", "busy"}
  PROVE  SomebodyComesBack'
BY DEF SomebodyComesBack

\* A consumer that begins to wait for the first element comes back: its timeout
\* ends in the millisecond in which that element is due, or before.
LEMMA WaitForFirstComesBack ==
  ASSUME TypeOK, NEW c \in Consumers, WaitForFirst(c)
  PROVE  SomebodyComesBack'
<1>1. PICK h \in m_elements :
        /\ IsFirst(h)
        /\ Delay(h) > 0
        /\ deadline' = [deadline EXCEPT ![c] = now + Delay(h) * Res]
  BY DEF WaitForFirst
<1>2. h \in Tasks /\ m_due_time[h] \in Nat
  BY DEF TypeOK, TaskTypeOK
<1>3. deadline'[c] \in 0..m_due_time[h]
  BY <1>1, <1>2, DelayBounds DEF TypeOK
<1>4. deadline'[c] \div Res <= DueTime(h)
  BY <1>2, <1>3, DivisionMonotone DEF DueTime
<1>5. \A t \in m_elements : DueTime(h) <= DueTime(t)
  BY <1>1, FirstIsEarliest
<1>6. \A t \in m_elements : DueTime(t) \in Nat
  BY DueTimeNat DEF TypeOK
<1>7. deadline'[c] \div Res \in Nat
  BY <1>3, DivisionNat
<1>8. \A t \in m_elements : deadline'[c] \div Res <= DueTime(t)
  BY <1>4, <1>5, <1>6, <1>7
<1>9. /\ pc'[c] = "wait_for"
      /\ m_elements' = m_elements
      /\ \A t \in m_elements : DueTime(t)' = DueTime(t)
  BY DEF WaitForFirst, TypeOK, taskVars, DueTime
<1> QED BY <1>8, <1>9 DEF SomebodyComesBack

LEMMA SomebodyComesBackStep ==
  ASSUME TypeOK, OneOwner, SomebodyComesBack, Next
  PROVE  SomebodyComesBack'
<1>0. pc \in [Consumers -> Location]
  BY DEF TypeOK
<1>1. ASSUME NEW t \in Tasks, Producer(t) PROVE SomebodyComesBack'
  <2>1. CASE Construct(t) /\ UNCHANGED queueVars
    <3>1. t \notin m_elements /\ m_elements \subseteq Tasks
      BY <2>1 DEF Construct, OneOwner, TypeOK
    <3> QED BY <2>1, <3>1, SleepersUnmoved DEF Construct, queueVars, TypeOK, TaskTypeOK
  <2>2. CASE InHand(t) /\ (\E d \in Delays : SetDueTime(t, d)) /\ UNCHANGED queueVars
    <3>1. t \notin m_elements /\ m_elements \subseteq Tasks
      BY <2>2 DEF InHand, TypeOK
    <3> QED BY <2>2, <3>1, SleepersUnmoved DEF SetDueTime, queueVars, TypeOK, TaskTypeOK
  <2>3. CASE (\E r \in RequestIds : SetRequestId(t, r)) /\ UNCHANGED queueVars
    BY <2>3, SleepersUnmoved DEF SetRequestId, queueVars
  <2>4. CASE Discard({t}) /\ UNCHANGED queueVars
    BY <2>4, SleepersUnmoved DEF Discard, queueVars
  <2>5. CASE Push(t)
    <3>1. CASE Blocked = {}
      BY <2>5, <3>1 DEF Push, NotifyOne, Blocked, SomebodyComesBack
    <3>2. CASE Blocked # {}
      <4>1. PICK c \in Blocked : pc' = [pc EXCEPT ![c] = "ready"]
        BY <2>5, <3>2 DEF Push, NotifyOne
      <4>2. c \in Consumers /\ pc'[c] = "ready"
        BY <1>0, <4>1 DEF Blocked
      <4> QED BY <4>2, AwakeComesBack
    <3> QED BY <3>1, <3>2
  <2> QED BY <1>1, <2>1, <2>2, <2>3, <2>4, <2>5 DEF Producer
<1>2. ASSUME NEW c \in Consumers, Consumer(c) PROVE SomebodyComesBack'
  <2>1. CASE Enter(c) \/ Pop(c) \/ Timeout(c) \/ SpuriousWakeup(c)
    <3>1. pc'[c] \in {"ready", "busy"}
      BY <1>0, <2>1 DEF Enter, Pop, Timeout, SpuriousWakeup
    <3> QED BY <3>1, AwakeComesBack
  <2>2. CASE \E outcome \in Outcome : Consume(c, outcome)
    <3>1. pc'[c] = "ready"
      BY <1>0, <2>2 DEF Consume
    <3> QED BY <3>1, AwakeComesBack
  <2>3. CASE WaitForFirst(c)
    BY <2>3, WaitForFirstComesBack
  <2>4. CASE WaitForElement(c) \/ ReturnEmpty(c)
    BY <2>4 DEF WaitForElement, ReturnEmpty, SomebodyComesBack
  <2> QED BY <1>2, <2>1, <2>2, <2>3, <2>4 DEF Consumer, WaitPop
<1>3. CASE SetClosed
  BY <1>3, SleepersUnmoved DEF SetClosed, taskVars
<1>4. CASE NotifyAll
  BY <1>0, <1>4 DEF NotifyAll, Blocked, SomebodyComesBack
<1>5. CASE \E r \in RequestIds \cup {0} : Remove(r)
  BY <1>5, SleepersUnmoved DEF Remove, Discard
<1>6. CASE Destruct
  BY <1>6 DEF Destruct, DestroyElements, SomebodyComesBack
<1>7. CASE Tick /\ UNCHANGED queueVars
  BY <1>7, SleepersUnmoved DEF Tick, queueVars
<1> QED BY <1>1, <1>2, <1>3, <1>4, <1>5, <1>6, <1>7 DEF Next

-----------------------------------------------------------------------------
\* After its notify_all a closed queue has no thread in the untimed wait: the
\* notification emptied it, and wait_pop does not enter it when closed.
LEMMA CloseReachesAllStep ==
  ASSUME TypeOK, CloseReachesAll, Next
  PROVE  CloseReachesAll'
<1>0. pc \in [Consumers -> Location]
  BY DEF TypeOK
<1>1. ASSUME NEW t \in Tasks, Producer(t) PROVE CloseReachesAll'
  <2>1. CASE UNCHANGED queueVars
    BY <2>1 DEF queueVars, CloseReachesAll
  <2>2. CASE Push(t)
    BY <1>0, <2>2 DEF Push, CloseReachesAll
  <2> QED BY <1>1, <2>1, <2>2 DEF Producer
<1>2. ASSUME NEW c \in Consumers, Consumer(c) PROVE CloseReachesAll'
  <2>1. CASE WaitForElement(c)
    BY <2>1 DEF WaitForElement, CloseReachesAll
  <2>2. CASE ~WaitForElement(c)
    <3>1. /\ UNCHANGED <<m_closed, notify_due>>
          /\ \E place \in Location \ {"wait"} : pc' = [pc EXCEPT ![c] = place]
      BY <1>2, <2>2 DEF Consumer, Enter, WaitPop, Pop, WaitForFirst, ReturnEmpty, Timeout,
        SpuriousWakeup, Consume, Location
    <3> QED BY <1>0, <3>1 DEF CloseReachesAll
  <2> QED BY <2>1, <2>2
<1>3. CASE SetClosed
  BY <1>3 DEF SetClosed, CloseReachesAll
<1>4. CASE NotifyAll
  BY <1>0, <1>4 DEF NotifyAll, Blocked, CloseReachesAll
<1>5. CASE \E r \in RequestIds \cup {0} : Remove(r)
  BY <1>5 DEF Remove, CloseReachesAll
<1>6. CASE Destruct
  BY <1>6 DEF Destruct, DestroyElements, CloseReachesAll
<1>7. CASE Tick /\ UNCHANGED queueVars
  BY <1>7 DEF queueVars, CloseReachesAll
<1> QED BY <1>1, <1>2, <1>3, <1>4, <1>5, <1>6, <1>7 DEF Next

\* A consumer returns from a queue that is closed and empty; nothing opens it
\* again and nothing is inserted while it is closed.
LEMMA ReturnedMeansDrainedStep ==
  ASSUME TypeOK, ReturnedMeansDrained, Next
  PROVE  ReturnedMeansDrained'
<1>0. pc \in [Consumers -> Location]
  BY DEF TypeOK
<1>1. ASSUME NEW t \in Tasks, Producer(t) PROVE ReturnedMeansDrained'
  <2>1. CASE UNCHANGED queueVars
    BY <2>1 DEF queueVars, ReturnedMeansDrained
  <2>2. CASE Push(t)
    <3>1. \A c \in Consumers : pc[c] # "returned"
      BY <2>2 DEF Push, ReturnedMeansDrained
    <3>2. \A c \in Consumers : pc'[c] # "returned"
      BY <1>0, <2>2, <3>1 DEF Push, NotifyOne
    <3> QED BY <3>2 DEF ReturnedMeansDrained
  <2> QED BY <1>1, <2>1, <2>2 DEF Producer
<1>2. ASSUME NEW c \in Consumers, Consumer(c) PROVE ReturnedMeansDrained'
  <2>1. CASE ReturnEmpty(c)
    BY <2>1 DEF ReturnEmpty, ReturnedMeansDrained
  <2>2. CASE ~ReturnEmpty(c)
    <3>1. /\ m_closed' = m_closed
          /\ m_elements' \subseteq m_elements
          /\ \E place \in Location \ {"returned"} : pc' = [pc EXCEPT ![c] = place]
      BY <1>2, <2>2 DEF Consumer, Enter, WaitPop, Pop, WaitForFirst, WaitForElement, Timeout,
        SpuriousWakeup, Consume, Location
    <3> QED BY <1>0, <3>1 DEF ReturnedMeansDrained
  <2> QED BY <2>1, <2>2
<1>3. CASE SetClosed
  BY <1>3 DEF SetClosed, ReturnedMeansDrained
<1>4. CASE NotifyAll
  BY <1>0, <1>4 DEF NotifyAll, ReturnedMeansDrained
<1>5. CASE \E r \in RequestIds \cup {0} : Remove(r)
  BY <1>5 DEF Remove, ReturnedMeansDrained
<1>6. CASE Destruct
  BY <1>6 DEF Destruct, DestroyElements, ReturnedMeansDrained
<1>7. CASE Tick /\ UNCHANGED queueVars
  BY <1>7 DEF queueVars, ReturnedMeansDrained
<1> QED BY <1>1, <1>2, <1>3, <1>4, <1>5, <1>6, <1>7 DEF Next

-----------------------------------------------------------------------------
\* Only push adds to the queue, and one element at a time.
LEMMA ElementsStep ==
  ASSUME Next
  PROVE  \/ m_elements' \subseteq m_elements
         \/ \E t \in Tasks : Push(t) /\ m_elements' = m_elements \cup {t}
<1>1. ASSUME NEW t \in Tasks, Push(t)
      PROVE  m_elements' = m_elements \/ m_elements' = m_elements \cup {t}
  BY <1>1 DEF Push, Insert
<1> QED
  BY <1>1 DEF Next, Producer, Consumer, WaitPop, Enter, Pop, WaitForFirst, WaitForElement,
    ReturnEmpty, Timeout, SpuriousWakeup, Consume, SetClosed, NotifyAll, Remove, Destruct,
    DestroyElements, queueVars

LEMMA ElementsFinite ==
  ASSUME IsFiniteSet(m_elements), Next
  PROVE  IsFiniteSet(m_elements')
BY ElementsStep, FS_Subset, FS_AddElement

-----------------------------------------------------------------------------
\* The threads on their way, and how their number changes with one of them.
LEMMA OnTheWayFinite == IsFiniteSet(OnTheWay) /\ Cardinality(OnTheWay) \in Nat
BY QueueAssumption, FS_Subset, FS_CardinalityType DEF OnTheWay

LEMMA NoneLeaves ==
  ASSUME OnTheWay \subseteq OnTheWay', Inv, m_elements' \subseteq m_elements
  PROVE  Cardinality(m_elements') > Cardinality(OnTheWay')
           => Cardinality(m_elements) > Cardinality(OnTheWay)
<1>1. IsFiniteSet(OnTheWay') /\ Cardinality(OnTheWay') \in Nat
  BY QueueAssumption, FS_Subset, FS_CardinalityType DEF OnTheWay
<1>2. Cardinality(OnTheWay) <= Cardinality(OnTheWay')
  BY <1>1, FS_Subset
<1>3. Cardinality(m_elements') <= Cardinality(m_elements)
  BY FS_Subset DEF Inv
<1>4. /\ Cardinality(m_elements) \in Nat /\ Cardinality(m_elements') \in Nat
      /\ Cardinality(OnTheWay) \in Nat
  BY FS_Subset, FS_CardinalityType, OnTheWayFinite DEF Inv
<1> QED BY <1>1, <1>2, <1>3, <1>4

\* A push that is the element too many, with a thread still asleep, has
\* notified a thread that slept until a due time.
LEMMA PushLeavesIdle ==
  ASSUME Inv, NEW t \in Tasks, Push(t), ~Shorthanded, Shorthanded'
  PROVE  \E c \in Consumers : pc[c] = "wait_for" /\ pc'[c] = "ready"
<1>0. pc \in [Consumers -> Location]
  BY DEF Inv, TypeOK
<1>1. PICK d \in Consumers : pc'[d] = "wait"
  BY DEF Shorthanded
<1>2. d \in Blocked /\ pc[d] = "wait"
  BY <1>0, <1>1 DEF Push, NotifyOne, Blocked
<1>3. PICK c \in Blocked : pc' = [pc EXCEPT ![c] = "ready"]
  BY <1>2 DEF Push, NotifyOne
<1>4. CASE pc[c] = "wait_for"
  BY <1>0, <1>3, <1>4 DEF Blocked
<1>5. CASE pc[c] = "wait"
  <2>1. OnTheWay' = OnTheWay \cup {c} /\ c \notin OnTheWay
    BY <1>0, <1>3, <1>5 DEF OnTheWay, Blocked
  <2>2. Cardinality(OnTheWay') = Cardinality(OnTheWay) + 1
    BY <2>1, OnTheWayFinite, FS_AddElement
  <2>3. /\ Cardinality(m_elements) \in Nat /\ Cardinality(m_elements') \in Nat
        /\ Cardinality(m_elements') <= Cardinality(m_elements) + 1
    <3>1. IsFiniteSet(m_elements) /\ Cardinality(m_elements) \in Nat
      BY FS_CardinalityType DEF Inv
    <3>2. /\ IsFiniteSet(m_elements \cup {t})
          /\ Cardinality(m_elements \cup {t})
               = IF t \in m_elements THEN Cardinality(m_elements) ELSE Cardinality(m_elements) + 1
      BY <3>1, FS_AddElement, Zenon
    <3>3. m_elements' = m_elements \/ m_elements' = m_elements \cup {t}
      BY DEF Push, Insert
    <3> QED BY <3>1, <3>2, <3>3
  <2>4. Cardinality(OnTheWay) \in Nat
    BY OnTheWayFinite
  <2>5. Cardinality(m_elements) <= Cardinality(OnTheWay)
    BY <1>2, <2>3, <2>4 DEF Shorthanded
  <2>6. Cardinality(m_elements') > Cardinality(OnTheWay')
    BY DEF Shorthanded
  <2> QED BY <2>2, <2>3, <2>4, <2>5, <2>6
<1> QED BY <1>3, <1>4, <1>5 DEF Blocked

\* A thread that returns an element leaves the way with it; one that falls
\* asleep without a timeout, or is told the end, finds no element.
LEMMA ShorthandedStep ==
  ASSUME Inv, Next, ~Shorthanded, Shorthanded'
  PROVE  \E t \in Tasks : Push(t) /\ m_elements' # m_elements
<1>0. pc \in [Consumers -> Location]
  BY DEF Inv, TypeOK
<1>1. ASSUME NEW t \in Tasks, Push(t), m_elements' = m_elements
      PROVE  FALSE
  <2>1. OnTheWay \subseteq OnTheWay'
    BY <1>0, <1>1 DEF Push, NotifyOne, OnTheWay, Blocked
  <2>2. (\E c \in Consumers : pc'[c] = "wait") => (\E c \in Consumers : pc[c] = "wait")
    BY <1>0, <1>1 DEF Push, NotifyOne, Blocked
  <2> QED BY <1>1, <2>1, <2>2, NoneLeaves DEF Shorthanded
<1>2. ASSUME OnTheWay \subseteq OnTheWay', m_elements' \subseteq m_elements,
             \A c \in Consumers : pc'[c] = "wait" => pc[c] = "wait"
      PROVE  FALSE
  BY <1>2, NoneLeaves DEF Shorthanded
<1>3. ASSUME NEW t \in Tasks, Producer(t), ~Push(t) PROVE FALSE
  BY <1>2, <1>3 DEF Producer, queueVars, OnTheWay
<1>4. ASSUME NEW c \in Consumers, Consumer(c) PROVE FALSE
  <2>1. CASE Pop(c)
    <3>1. PICK t \in m_elements : m_elements' = m_elements \ {t}
      BY <2>1 DEF Pop
    <3>2. /\ OnTheWay' = OnTheWay \ {c} /\ c \in OnTheWay
          /\ \A d \in Consumers : pc'[d] = "wait" => pc[d] = "wait"
      BY <1>0, <2>1 DEF Pop, OnTheWay
    <3>3. /\ Cardinality(m_elements') = Cardinality(m_elements) - 1
          /\ Cardinality(OnTheWay') = Cardinality(OnTheWay) - 1
      BY <3>1, <3>2, OnTheWayFinite, FS_RemoveElement DEF Inv
    <3>4. Cardinality(m_elements) \in Nat /\ Cardinality(OnTheWay) \in Nat
      BY OnTheWayFinite, FS_CardinalityType DEF Inv
    <3> QED BY <3>2, <3>3, <3>4 DEF Shorthanded
  <2>2. CASE WaitForElement(c) \/ ReturnEmpty(c)
    <3>1. m_elements' = {}
      BY <2>2 DEF WaitForElement, ReturnEmpty
    <3>2. Cardinality(m_elements') = 0 /\ Cardinality(OnTheWay)' \in Nat
      BY <3>1, QueueAssumption, FS_EmptySet, FS_Subset, FS_CardinalityType DEF OnTheWay
    <3> QED BY <3>2 DEF Shorthanded
  <2>3. CASE Enter(c) \/ WaitForFirst(c) \/ Timeout(c) \/ SpuriousWakeup(c)
             \/ \E outcome \in Outcome : Consume(c, outcome)
    <3>1. /\ OnTheWay \subseteq OnTheWay' /\ m_elements' = m_elements
          /\ \A d \in Consumers : pc'[d] = "wait" => pc[d] = "wait"
      BY <1>0, <2>3 DEF Enter, WaitForFirst, Timeout, SpuriousWakeup, Consume, OnTheWay
    <3> QED BY <1>2, <3>1
  <2> QED BY <1>4, <2>1, <2>2, <2>3 DEF Consumer, WaitPop
<1>5. CASE NotifyAll
  BY <1>0, <1>5 DEF NotifyAll, Blocked, Shorthanded
<1>6. ASSUME UNCHANGED pc, m_elements' \subseteq m_elements PROVE FALSE
  BY <1>2, <1>6 DEF OnTheWay
<1>7. CASE SetClosed \/ (\E r \in RequestIds \cup {0} : Remove(r)) \/ Destruct
           \/ (Tick /\ UNCHANGED queueVars)
  BY <1>6, <1>7 DEF SetClosed, Remove, Destruct, DestroyElements, queueVars
<1> QED BY <1>1, <1>3, <1>4, <1>5, <1>7 DEF Next

-----------------------------------------------------------------------------
LEMMA InvInit == Init => Inv
<1> SUFFICES ASSUME Init PROVE Inv
  OBVIOUS
<1>1. TypeOK
  BY TypeInit
<1>2. SequenceIds
  BY DEF Init, TaskInit, SequenceIds, Constructed
<1>3. OneOwner
  BY DEF Init, OneOwner
<1>4. SomebodyComesBack /\ CloseReachesAll /\ ReturnedMeansDrained
  BY DEF Init, SomebodyComesBack, CloseReachesAll, ReturnedMeansDrained
<1>5. IsFiniteSet(m_elements)
  BY FS_EmptySet DEF Init
<1> QED BY <1>1, <1>2, <1>3, <1>4, <1>5 DEF Inv

LEMMA InvStep == Inv /\ [Next]_vars => Inv'
<1> SUFFICES ASSUME Inv, [Next]_vars PROVE Inv'
  OBVIOUS
<1>1. CASE Next
  BY <1>1, TypeStep, SequenceIdsStep, ElementsFinite, OneOwnerStep, SomebodyComesBackStep, CloseReachesAllStep,
    ReturnedMeansDrainedStep DEF Inv
<1>2. CASE UNCHANGED vars
  BY <1>2 DEF vars, taskVars, queueVars, Inv, TypeOK, TaskTypeOK, SequenceIds, Constructed,
    OneOwner, SomebodyComesBack, Blocked, DueTime, CloseReachesAll, ReturnedMeansDrained
<1> QED BY <1>1, <1>2

\* The inductive invariant.
THEOREM QueueInvariant == Spec => []Inv
BY InvInit, InvStep, PTL DEF Spec

\* The state of the queue and of its consumers has its type; no deadline of a
\* wait_for lies beyond the last due time.
THEOREM TypeCorrect == Spec => []TypeOK
<1>1. Inv => TypeOK
  BY DEF Inv
<1> QED BY <1>1, QueueInvariant, PTL

\* Not everybody oversleeps: while the queue holds elements some consumer runs
\* one, or looks at the queue by the first due time.
THEOREM NotAllOversleep == Spec => []SomebodyComesBack
<1>1. Inv => SomebodyComesBack
  BY DEF Inv
<1> QED BY <1>1, QueueInvariant, PTL

\* An idle thread is left asleep beside an element without a thread only by a
\* push whose notification reaches a thread in the timed wait.
THEOREM OnlyMisdirectionIdles == Spec => IdleOnlyByMisdirection
<1> DEFINE Misdirected ==
      ~Shorthanded /\ Shorthanded' =>
        /\ m_elements' # m_elements
        /\ \E c \in Consumers : pc[c] = "wait_for" /\ pc'[c] = "ready"
<1>1. Inv /\ [Next]_vars => [Misdirected]_vars
  BY ShorthandedStep, PushLeavesIdle
<1> QED BY <1>1, QueueInvariant, PTL DEF Spec, IdleOnlyByMisdirection

\* No task is given a due time that lies ahead.
NoDelays == \A d \in Delays : d <= 0

\* Then no task is ever waited for.
AllDue ==
  /\ \A t \in Tasks : m_due_time[t] <= now
  /\ \A c \in Consumers : pc[c] # "wait_for"

LEMMA AllDueStep ==
  ASSUME NoDelays, TypeOK, AllDue, [Next]_vars
  PROVE  AllDue'
<1>0. /\ pc \in [Consumers -> Location] /\ now \in Nat /\ Res \in Nat \ {0}
      /\ m_due_time \in [Tasks -> 0..MaxTime]
  BY TaskAssumption DEF TypeOK, TaskTypeOK
<1>1. \A t \in Tasks : Delay(t) <= 0
  <2>1. ASSUME NEW t \in Tasks PROVE m_due_time[t] < now \/ m_due_time[t] - now = 0
    BY <1>0 DEF AllDue
  <2>2. 0 \div Res = 0
    BY <1>0
  <2> QED BY <2>1, <2>2 DEF Delay
<1>2. ASSUME NEW t \in Tasks, NEW d \in Delays, SetDueTime(t, d)
      PROVE  m_due_time'[t] <= now
  <2>1. d \in Int /\ d <= 0
    BY TaskAssumption DEF NoDelays
  <2>2. d * Res <= 0
    BY <1>0, <2>1
  <2> QED BY <1>0, <1>2, <2>1, <2>2 DEF SetDueTime
<1>3. \A t \in Tasks : m_due_time'[t] <= now'
  <2>1. CASE UNCHANGED <<now, m_due_time>>
    BY <2>1 DEF AllDue
  <2>2. CASE Tick
    BY <1>0, <2>2 DEF Tick, AllDue
  <2>3. ASSUME NEW t \in Tasks, Construct(t) PROVE \A u \in Tasks : m_due_time'[u] <= now'
    BY <1>0, <2>3 DEF Construct, AllDue
  <2>4. ASSUME NEW t \in Tasks, NEW d \in Delays, SetDueTime(t, d)
        PROVE  \A u \in Tasks : m_due_time'[u] <= now'
    BY <1>0, <1>2, <2>4 DEF SetDueTime, AllDue
  <2> QED
    BY <2>1, <2>2, <2>3, <2>4 DEF Next, Producer, SetRequestId, Push, Discard, Consumer, WaitPop,
      Enter, Pop, WaitForFirst, WaitForElement, ReturnEmpty, Timeout, SpuriousWakeup, Consume,
      Run, SetClosed, NotifyAll, Remove, Destruct, DestroyElements, vars, taskVars
<1>4. \A c \in Consumers : pc'[c] # "wait_for"
  <2>1. ASSUME NEW c \in Consumers, WaitForFirst(c) PROVE FALSE
    BY <1>0, <1>1, <2>1, DelayBounds DEF WaitForFirst, TypeOK
  <2>2. CASE UNCHANGED pc
    BY <2>2 DEF AllDue
  <2>3. ASSUME NEW t \in Tasks, Push(t) PROVE \A c \in Consumers : pc'[c] # "wait_for"
    BY <1>0, <2>3 DEF Push, NotifyOne, AllDue
  <2>4. CASE NotifyAll
    BY <1>0, <2>4 DEF NotifyAll, AllDue
  <2>5. ASSUME NEW c \in Consumers, Consumer(c) PROVE \A d \in Consumers : pc'[d] # "wait_for"
    BY <1>0, <2>1, <2>5 DEF Consumer, WaitPop, Enter, Pop, WaitForElement, ReturnEmpty, Timeout,
      SpuriousWakeup, Consume, AllDue
  <2> QED
    BY <2>2, <2>3, <2>4, <2>5 DEF Next, Producer, SetClosed, Remove, Destruct, DestroyElements,
      vars, queueVars
<1> QED BY <1>3, <1>4 DEF AllDue

\* A queue without delayed elements never leaves a thread idle while it holds
\* more elements than threads are on their way: what a misdirected wakeup holds
\* up is held up for the sake of a delayed element.
THEOREM UndelayedNeverShorthanded ==
  ASSUME NoDelays
  PROVE  Spec => []~Shorthanded
<1>1. Init => AllDue /\ ~Shorthanded
  BY DEF Init, TaskInit, AllDue, Shorthanded
<1>2. Inv /\ AllDue /\ [Next]_vars => AllDue'
  BY AllDueStep DEF Inv
<1>3. Inv /\ AllDue /\ ~Shorthanded /\ [Next]_vars => ~Shorthanded'
  <2> SUFFICES ASSUME Inv, AllDue, ~Shorthanded, [Next]_vars, Shorthanded'
               PROVE  FALSE
    OBVIOUS
  <2>1. CASE UNCHANGED vars
    BY <2>1 DEF vars, queueVars, Shorthanded, OnTheWay
  <2>2. CASE Next
    BY <2>2, ShorthandedStep, PushLeavesIdle DEF AllDue
  <2> QED BY <2>1, <2>2
<1> QED BY <1>1, <1>2, <1>3, QueueInvariant, PTL DEF Spec

\* close leaves nobody in the untimed wait.
THEOREM CloseWakesAll == Spec => []CloseReachesAll
<1>1. Inv => CloseReachesAll
  BY DEF Inv
<1> QED BY <1>1, QueueInvariant, PTL

\* The empty optional means that the queue is closed, and empty for good.
THEOREM EmptyMeansDrained == Spec => []ReturnedMeansDrained
<1>1. Inv => ReturnedMeansDrained
  BY DEF Inv
<1> QED BY <1>1, QueueInvariant, PTL

\* A task is never in the queue and with a consumer, nor with two consumers.
THEOREM SingleOwner == Spec => []OneOwner
<1>1. Inv => OneOwner
  BY DEF Inv
<1> QED BY <1>1, QueueInvariant, PTL

\* Distinct ids break every tie of due times.
LEMMA InvKeysDistinct == Inv => KeysDistinct
<1> SUFFICES ASSUME Inv, NEW s \in Constructed, NEW t \in Constructed, s # t
             PROVE  Before(s, t) # Before(t, s)
  BY DEF KeysDistinct
<1>1. s \in Tasks /\ t \in Tasks
  BY DEF Constructed
<1>2. DueTime(s) \in Nat /\ DueTime(t) \in Nat
  BY <1>1, DueTimeNat DEF Inv
<1>3. /\ m_sequence_id[s] \in Nat /\ m_sequence_id[t] \in Nat
      /\ m_sequence_id[s] # m_sequence_id[t]
  BY <1>1 DEF Inv, TypeOK, TaskTypeOK, SequenceIds
<1> QED BY <1>2, <1>3 DEF Before

\* TaskPtrCmp orders any two tasks one way, so insert never refuses a task.
THEOREM StrictOrder == Spec => []KeysDistinct
BY InvKeysDistinct, QueueInvariant, PTL

\* Truncation to milliseconds delays a due task by another one's wait for at
\* most the millisecond they share.
THEOREM HeadOfLineBound == Spec => []HeadOfLine
<1>1. TypeOK => HeadOfLine
  <2> SUFFICES ASSUME TypeOK, NEW h \in m_elements, NEW t \in m_elements,
                      IsFirst(h), Delay(h) > 0, Delay(t) = 0
               PROVE  DueTime(h) = DueTime(t)
    BY DEF HeadOfLine
  <2>1. /\ h \in Tasks /\ t \in Tasks /\ now \in Nat
        /\ m_due_time[h] \in Nat /\ m_due_time[t] \in Nat
    BY DEF TypeOK, TaskTypeOK
  <2>2. m_due_time[t] - now < Res /\ m_due_time[h] - now >= Res
    BY <2>1, DelayBounds
  <2>3. m_due_time[t] <= m_due_time[h]
    BY <2>1, <2>2, TaskAssumption
  <2>4. DueTime(t) <= DueTime(h)
    BY <2>1, <2>3, DivisionMonotone DEF DueTime
  <2>5. DueTime(h) <= DueTime(t)
    BY FirstIsEarliest
  <2> QED BY <2>1, <2>4, <2>5, DueTimeNat
<1> QED BY <1>1, TypeCorrect, PTL

\* wait_pop returns what is due, and the earliest first.
THEOREM DueOrder == Spec => PopsInDueOrder
<1> DEFINE Ordered ==
      \A c \in Consumers : held[c] = NoTask /\ held'[c] # NoTask =>
        /\ m_due_time[held'[c]] - now < Res
        /\ \A u \in m_elements : DueTime(held'[c]) <= DueTime(u)
<1>1. Inv /\ [Next]_vars => [Ordered]_vars
  <2> SUFFICES ASSUME Inv, Next, NEW c \in Consumers, held[c] = NoTask, held'[c] # NoTask
               PROVE  /\ m_due_time[held'[c]] - now < Res
                      /\ \A u \in m_elements : DueTime(held'[c]) <= DueTime(u)
    OBVIOUS
  <2>1. held \in [Consumers -> Tasks \cup {NoTask}] /\ TypeOK /\ m_elements \subseteq Tasks
    BY DEF Inv, TypeOK
  <2>2. Pop(c)
    BY <2>1 DEF Next, Producer, Push, Consumer, Enter, WaitPop, Pop, WaitForFirst,
      WaitForElement, ReturnEmpty, Timeout, SpuriousWakeup, Consume, SetClosed, NotifyAll,
      Remove, Destruct, DestroyElements, queueVars
  <2>3. PICK t \in m_elements : IsFirst(t) /\ Delay(t) <= 0 /\ held'[c] = t
    BY <2>1, <2>2 DEF Pop
  <2> QED BY <2>1, <2>3, DelayBounds, FirstIsEarliest
<1> QED BY <1>1, QueueInvariant, PTL DEF Spec, PopsInDueOrder
=============================================================================
