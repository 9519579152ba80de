--------------------------- MODULE FifoQueueProofs ---------------------------
(***************************************************************************)
(* The FIFO queue, for every set of consumers and any number of elements:  *)
(* its invariants, and that it is the Channel.                             *)
(***************************************************************************)
EXTENDS FifoQueue, FiniteSetTheorems, SequenceTheorems, TLAPS

Ready == {c \in Consumers : pc[c] = "ready"}

\* A close reaches every thread: none stays blocked on a closed queue unless the
\* notification is still to come.
CloseReachesAll == m_closed /\ ~notify_due => Blocked = {}

Inv == TypeOK /\ WakeupNotLost /\ CloseReachesAll

-----------------------------------------------------------------------------
\* Sequences as functions, which is how the provers see them best.
LEMMA SeqIsFunction ==
  ASSUME NEW S, NEW s \in Seq(S)
  PROVE  /\ Len(s) \in Nat
         /\ DOMAIN s = 1..Len(s)
         /\ s \in [1..Len(s) -> S]
BY LenProperties, ElementOfSeq

LEMMA FunctionIsSeq ==
  ASSUME NEW S, NEW n \in Nat, NEW s \in [1..n -> S]
  PROVE  s \in Seq(S) /\ Len(s) = n
BY SeqDef, LenProperties

\* What NotifyOne does to the program counters.
LEMMA NotifyOneWakes ==
  ASSUME TypeOK, NotifyOne
  PROVE  /\ pc' \in [Consumers -> Location]
         /\ \A c \in Consumers :
              /\ pc'[c] = pc[c] \/ (pc[c] = "wait" /\ pc'[c] = "ready")
              /\ (pc'[c] = "busy") = (pc[c] = "busy")
              /\ (pc'[c] = "returned") = (pc[c] = "returned")
<1>1. CASE Blocked = {}
  BY <1>1 DEF NotifyOne, TypeOK
<1>2. CASE Blocked # {}
  <2>1. PICK d \in Blocked : pc' = [pc EXCEPT ![d] = "ready"]
    BY <1>2 DEF NotifyOne
  <2> QED
    BY <2>1 DEF TypeOK, Blocked, Location
<1> QED
  BY <1>1, <1>2

-----------------------------------------------------------------------------
\* The type invariant, for the steps that change the elements.
LEMMA PushTyped ==
  ASSUME TypeOK, Push
  PROVE  TypeOK'
<1> USE FifoAssumption
<1>1. /\ pushed \in Nat /\ pushed' = pushed + 1 /\ pushed' \in 0..MaxPushed
      /\ m_elements' = Append(m_elements, pushed')
  BY DEF TypeOK, Push
<1>2. /\ Len(m_elements) \in Nat
      /\ DOMAIN m_elements = 1..Len(m_elements)
      /\ \A i \in 1..Len(m_elements) : m_elements[i] \in 1..pushed
  BY SeqIsFunction DEF TypeOK
<1>3. m_elements \in Seq(1..pushed')
  BY <1>1, 1..pushed \subseteq 1..pushed', SeqMonotonic DEF TypeOK
<1>4. m_elements' \in Seq(1..pushed')
  <2>1. pushed' \in 1..pushed'
    BY <1>1
  <2> QED
    BY <1>1, <1>3, <2>1, AppendProperties
<1>5. /\ DOMAIN m_elements' = 1..(Len(m_elements) + 1)
      /\ \A i \in 1..Len(m_elements) : m_elements'[i] = m_elements[i]
      /\ m_elements'[Len(m_elements) + 1] = pushed'
  BY <1>1, <1>2, <1>3, AppendProperties, SeqIsFunction
<1>6. \A i, j \in DOMAIN m_elements' : i < j => m_elements'[i] < m_elements'[j]
  <2> SUFFICES ASSUME NEW i \in DOMAIN m_elements', NEW j \in DOMAIN m_elements', i < j
               PROVE  m_elements'[i] < m_elements'[j]
    OBVIOUS
  <2>1. i \in 1..Len(m_elements) /\ m_elements'[i] = m_elements[i]
    BY <1>2, <1>5
  <2>2. CASE j = Len(m_elements) + 1
    BY <1>1, <1>2, <1>5, <2>1, <2>2
  <2>3. CASE j # Len(m_elements) + 1
    <3>1. j \in 1..Len(m_elements) /\ m_elements'[j] = m_elements[j]
      BY <1>2, <1>5, <2>3
    <3> QED
      BY <1>2, <2>1, <3>1 DEF TypeOK
  <2> QED
    BY <2>2, <2>3
<1>7. held' \in [Consumers -> 0..pushed']
  BY <1>1 DEF TypeOK, Push
<1>8. pc' \in [Consumers -> Location] /\ \A c \in Consumers : (pc'[c] = "busy") = (held'[c] # 0)
  BY NotifyOneWakes DEF Push, TypeOK
<1> QED
  BY <1>1, <1>4, <1>6, <1>7, <1>8 DEF TypeOK, Push

LEMMA RemoveTyped ==
  ASSUME TypeOK, Remove
  PROVE  /\ TypeOK'
         /\ Len(m_elements') <= Len(m_elements)
         /\ InQueue' \subseteq InQueue
<1>1. PICK n \in 0..Len(m_elements) :
        \E kept \in [1..n -> DOMAIN m_elements] :
          /\ \A i, j \in 1..n : i < j => kept[i] < kept[j]
          /\ m_elements' = [i \in 1..n |-> m_elements[kept[i]]]
  BY DEF Remove
<1>2. PICK kept \in [1..n -> DOMAIN m_elements] :
          /\ \A i, j \in 1..n : i < j => kept[i] < kept[j]
          /\ m_elements' = [i \in 1..n |-> m_elements[kept[i]]]
  BY <1>1
<1>3. /\ Len(m_elements) \in Nat /\ n \in Nat /\ n <= Len(m_elements)
      /\ DOMAIN m_elements = 1..Len(m_elements)
      /\ \A i \in DOMAIN m_elements : m_elements[i] \in 1..pushed
  BY SeqIsFunction DEF TypeOK
<1>4. m_elements' \in [1..n -> 1..pushed]
  BY <1>2, <1>3
<1>5. m_elements' \in Seq(1..pushed) /\ Len(m_elements') = n /\ DOMAIN m_elements' = 1..n
  BY <1>3, <1>4, FunctionIsSeq, SeqIsFunction
<1>6. \A i, j \in 1..n : i < j => m_elements'[i] < m_elements'[j]
  BY <1>2 DEF TypeOK
<1>7. InQueue' \subseteq InQueue
  BY <1>2, <1>5 DEF InQueue
<1> QED
  BY <1>3, <1>5, <1>6, <1>7 DEF TypeOK, Remove

\* The first element is the oldest, and leaves the others behind.
LEMMA PopTyped ==
  ASSUME TypeOK, NEW c \in Consumers, Pop(c)
  PROVE  /\ TypeOK'
         /\ Len(m_elements') = Len(m_elements) - 1
         /\ Len(m_elements) \in Nat \ {0}
         /\ held'[c] \in InQueue
         /\ \A e \in InQueue : held'[c] <= e
         /\ InQueue' = InQueue \ {held'[c]}
<1>1. /\ Len(m_elements) \in Nat
      /\ DOMAIN m_elements = 1..Len(m_elements)
      /\ \A i \in DOMAIN m_elements : m_elements[i] \in 1..pushed
  BY SeqIsFunction DEF TypeOK
<1>2. /\ m_elements \in Seq(1..pushed) /\ m_elements # <<>>
      /\ m_elements' = Tail(m_elements)
      /\ held' = [held EXCEPT ![c] = Head(m_elements)]
  BY DEF Pop, TypeOK
<1>3. /\ Tail(m_elements) \in Seq(1..pushed)
      /\ Len(Tail(m_elements)) = Len(m_elements) - 1
      /\ \A i \in 1..Len(Tail(m_elements)) : Tail(m_elements)[i] = m_elements[i + 1]
      /\ Head(m_elements) = m_elements[1]
      /\ Len(m_elements) # 0
  BY <1>2, HeadTailProperties, EmptySeq
<1>4. DOMAIN m_elements' = 1..(Len(m_elements) - 1)
  BY <1>2, <1>3, SeqIsFunction
<1>5. held'[c] = m_elements[1] /\ m_elements[1] \in 1..pushed
  BY <1>1, <1>2, <1>3 DEF TypeOK
<1>6. \A i, j \in DOMAIN m_elements' : i < j => m_elements'[i] < m_elements'[j]
  <2> SUFFICES ASSUME NEW i \in DOMAIN m_elements', NEW j \in DOMAIN m_elements', i < j
               PROVE  m_elements'[i] < m_elements'[j]
    OBVIOUS
  <2>1. /\ i + 1 \in DOMAIN m_elements /\ j + 1 \in DOMAIN m_elements /\ i + 1 < j + 1
        /\ m_elements'[i] = m_elements[i + 1] /\ m_elements'[j] = m_elements[j + 1]
    BY <1>1, <1>2, <1>3, <1>4
  <2> QED
    BY <2>1 DEF TypeOK
<1>7. TypeOK'
  <2>1. held' \in [Consumers -> 0..pushed] /\ pc' \in [Consumers -> Location]
    BY <1>2, <1>3, <1>5 DEF TypeOK, Pop, Location
  <2>2. \A d \in Consumers : (pc'[d] = "busy") = (held'[d] # 0)
    BY <1>2, <1>5 DEF TypeOK, Pop
  <2> QED
    BY <1>2, <1>3, <1>6, <2>1, <2>2 DEF TypeOK, Pop
<1>8. \A e \in InQueue : held'[c] <= e
  <2> SUFFICES ASSUME NEW i \in DOMAIN m_elements
               PROVE  m_elements[1] <= m_elements[i]
    BY <1>5 DEF InQueue
  <2>1. CASE i = 1
    BY <1>1, <2>1
  <2>2. CASE i # 1
    BY <1>1, <2>2 DEF TypeOK
  <2> QED
    BY <2>1, <2>2
<1>9. InQueue' = InQueue \ {held'[c]}
  <2>1. ASSUME NEW i \in DOMAIN m_elements'
        PROVE  m_elements'[i] \in InQueue /\ m_elements'[i] # m_elements[1]
    <3>1. i + 1 \in DOMAIN m_elements /\ 1 < i + 1 /\ m_elements'[i] = m_elements[i + 1]
      BY <1>1, <1>2, <1>3, <1>4
    <3>2. m_elements[1] < m_elements[i + 1]
      BY <1>1, <1>3, <3>1, 1 \in DOMAIN m_elements DEF TypeOK
    <3> QED
      BY <1>1, <3>1, <3>2 DEF InQueue
  <2>2. ASSUME NEW i \in DOMAIN m_elements, m_elements[i] # m_elements[1]
        PROVE  m_elements[i] \in InQueue'
    <3>1. i - 1 \in DOMAIN m_elements' /\ m_elements'[i - 1] = m_elements[i]
      BY <1>1, <1>2, <1>3, <1>4, <2>2
    <3> QED
      BY <3>1 DEF InQueue
  <2> QED
    BY <1>5, <2>1, <2>2 DEF InQueue
<1>10. Len(m_elements) \in Nat \ {0} /\ Len(m_elements') = Len(m_elements) - 1
  BY <1>1, <1>2, <1>3
<1>11. held'[c] \in InQueue
  BY <1>1, <1>5, <1>10 DEF InQueue
<1> QED
  BY <1>7, <1>8, <1>9, <1>10, <1>11

LEMMA InitTyped == Init => Inv
<1> SUFFICES ASSUME Init PROVE Inv
  OBVIOUS
<1>1. m_elements \in Seq(1..pushed) /\ DOMAIN m_elements = {}
  BY EmptySeq, SeqIsFunction DEF Init
<1>2. pc \in [Consumers -> Location] /\ held \in [Consumers -> 0..pushed]
  BY DEF Init, Location
<1>3. pushed \in 0..MaxPushed
  BY FifoAssumption DEF Init
<1>4. TypeOK
  BY <1>1, <1>2, <1>3 DEF Init, TypeOK
<1>5. Blocked = {}
  BY DEF Init, Blocked
<1> QED
  BY <1>4, <1>5 DEF Inv, WakeupNotLost, CloseReachesAll

LEMMA StepTyped ==
  ASSUME TypeOK, [Next]_vars
  PROVE  TypeOK'
<1>1. CASE Push
  BY <1>1, PushTyped
<1>2. CASE SetClosed
  BY <1>2 DEF SetClosed, TypeOK
<1>3. CASE NotifyAll
  <2>1. pc' \in [Consumers -> Location]
    BY <1>3 DEF NotifyAll, TypeOK, Location
  <2>2. \A c \in Consumers : (pc'[c] = "busy") = (held'[c] # 0)
    BY <1>3 DEF NotifyAll, TypeOK, Blocked
  <2> QED
    BY <1>3, <2>1, <2>2 DEF NotifyAll, TypeOK
<1>4. CASE Remove
  BY <1>4, RemoveTyped
<1>5. ASSUME NEW c \in Consumers, Pop(c)
      PROVE  TypeOK'
  BY <1>5, PopTyped
<1>6. ASSUME NEW c \in Consumers,
             Enter(c) \/ Wait(c) \/ ReturnClosed(c) \/ SpuriousWakeup(c)
      PROVE  TypeOK'
  <2>1. /\ UNCHANGED <<m_elements, notify_due, m_closed, pushed, held>>
        /\ pc[c] # "busy"
        /\ \E l \in Location \ {"busy"} : pc' = [pc EXCEPT ![c] = l]
    BY <1>6 DEF Enter, Wait, ReturnClosed, SpuriousWakeup, Location
  <2>2. PICK l \in Location \ {"busy"} : pc' = [pc EXCEPT ![c] = l]
    BY <2>1
  <2>3. pc' \in [Consumers -> Location] /\ \A d \in Consumers : (pc'[d] = "busy") = (pc[d] = "busy")
    BY <2>1, <2>2 DEF TypeOK
  <2> QED
    BY <2>1, <2>3 DEF TypeOK
<1>7. ASSUME NEW c \in Consumers, Consume(c)
      PROVE  TypeOK'
  <2>1. /\ pc' = [pc EXCEPT ![c] = "ready"] /\ held' = [held EXCEPT ![c] = 0]
        /\ UNCHANGED <<m_elements, m_closed, notify_due, pushed>>
    BY <1>7 DEF Consume
  <2>2. 0 \in 0..pushed
    BY FifoAssumption DEF TypeOK
  <2>3. pc' \in [Consumers -> Location] /\ held' \in [Consumers -> 0..pushed]
    BY <2>1, <2>2 DEF TypeOK, Location
  <2>4. \A d \in Consumers : (pc'[d] = "busy") = (held'[d] # 0)
    BY <2>1 DEF TypeOK
  <2> QED
    BY <2>1, <2>3, <2>4 DEF TypeOK
<1>8. CASE UNCHANGED vars
  BY <1>8 DEF vars, TypeOK
<1> QED
  BY <1>1, <1>2, <1>3, <1>4, <1>5, <1>6, <1>7, <1>8 DEF Next, WaitPop

-----------------------------------------------------------------------------
\* The number of threads on their way to an element, when one joins or leaves.
LEMMA ReadyIsFinite == IsFiniteSet(Ready) /\ Cardinality(Ready) \in Nat
BY FifoAssumption, FS_Subset, FS_CardinalityType DEF Ready

LEMMA OneMoreReady ==
  ASSUME TypeOK, NEW c \in Consumers, pc[c] # "ready", pc' = [pc EXCEPT ![c] = "ready"]
  PROVE  Cardinality(Ready') = Cardinality(Ready) + 1
<1>1. Ready' = Ready \cup {c} /\ c \notin Ready
  BY DEF TypeOK, Ready
<1> QED
  BY <1>1, ReadyIsFinite, FS_AddElement

LEMMA OneLessReady ==
  ASSUME TypeOK, NEW c \in Consumers, pc[c] = "ready",
         NEW l \in Location \ {"ready"}, pc' = [pc EXCEPT ![c] = l]
  PROVE  Cardinality(Ready') = Cardinality(Ready) - 1
<1>1. Ready' = Ready \ {c} /\ c \in Ready
  BY DEF TypeOK, Ready
<1> QED
  BY <1>1, ReadyIsFinite, FS_RemoveElement

LEMMA BlockedShrinks ==
  ASSUME TypeOK, NEW c \in Consumers, NEW l \in Location \ {"wait"},
         pc' = [pc EXCEPT ![c] = l]
  PROVE  Blocked' \subseteq Blocked
BY DEF TypeOK, Blocked

\* An element that is added has a thread woken for it, an element that a thread
\* on the way takes away was its own, and a thread falls asleep only on a queue
\* without elements.
LEMMA StepWakeupNotLost ==
  ASSUME TypeOK, WakeupNotLost, [Next]_vars
  PROVE  WakeupNotLost'
<1> DEFINE Room == Len(m_elements) <= Cardinality(Ready)
<1>1. Len(m_elements) \in Nat /\ Cardinality(Ready) \in Nat
  BY SeqIsFunction, ReadyIsFinite DEF TypeOK
<1>2. SUFFICES Blocked' = {} \/ (Blocked # {} => Room) => Blocked' = {} \/ Room'
  BY DEF WakeupNotLost, Ready
<1>3. Blocked # {} => Room
  BY DEF WakeupNotLost, Ready
<1>4. CASE Push
  <2>1. CASE Blocked = {}
    BY <1>4, <2>1 DEF Push, NotifyOne, Blocked
  <2>2. CASE Blocked # {}
    <3>1. PICK d \in Blocked : pc' = [pc EXCEPT ![d] = "ready"]
      BY <1>4, <2>2 DEF Push, NotifyOne
    <3>2. Cardinality(Ready') = Cardinality(Ready) + 1
      BY <3>1, OneMoreReady DEF Blocked
    <3>3. Len(m_elements') = Len(m_elements) + 1
      BY <1>4 DEF Push, TypeOK
    <3> QED
      BY <1>1, <1>3, <2>2, <3>2, <3>3
  <2> QED
    BY <2>1, <2>2
<1>5. CASE SetClosed
  BY <1>3, <1>5 DEF SetClosed, Blocked, Ready
<1>6. CASE NotifyAll
  <2>1. Blocked' = {}
    BY <1>6 DEF NotifyAll, Blocked
  <2> QED
    BY <2>1
<1>7. CASE Remove
  <2>1. Len(m_elements') <= Len(m_elements) /\ Len(m_elements') \in Nat
    <3>1. TypeOK' /\ Len(m_elements') <= Len(m_elements)
      BY <1>7, RemoveTyped
    <3>2. Len(m_elements') \in Nat
      BY <3>1, SeqIsFunction DEF TypeOK
    <3> QED
      BY <3>1, <3>2
  <2>2. Blocked' = Blocked /\ Ready' = Ready
    BY <1>7 DEF Remove, Blocked, Ready
  <2> QED
    BY <1>1, <1>3, <2>1, <2>2
<1>8. ASSUME NEW c \in Consumers, Pop(c)
      PROVE  Blocked' = {} \/ Room'
  <2>1. Len(m_elements') = Len(m_elements) - 1
    BY <1>8, PopTyped
  <2>2. pc[c] = "ready" /\ pc' = [pc EXCEPT ![c] = "busy"]
    BY <1>8 DEF Pop
  <2>3. Cardinality(Ready') = Cardinality(Ready) - 1
    BY <2>2, OneLessReady DEF Location
  <2>4. Blocked' \subseteq Blocked
    BY <2>2, BlockedShrinks DEF Location
  <2> QED
    BY <1>1, <1>3, <2>1, <2>3, <2>4
<1>9. ASSUME NEW c \in Consumers, Wait(c) \/ ReturnClosed(c)
      PROVE  Blocked' = {} \/ Room'
  <2>1. m_elements' = <<>> /\ TypeOK'
    BY <1>9, StepTyped DEF Wait, ReturnClosed, Next, WaitPop
  <2>2. Len(m_elements') = 0 /\ Cardinality(Ready') \in Nat
    <3>1. Ready' \subseteq Consumers
      BY DEF Ready
    <3> QED
      BY <2>1, <3>1, FifoAssumption, FS_Subset, FS_CardinalityType
  <2> QED
    BY <2>2
<1>10. ASSUME NEW c \in Consumers, Enter(c) \/ SpuriousWakeup(c) \/ Consume(c)
       PROVE  Blocked' = {} \/ Room'
  <2>1. pc[c] # "ready" /\ pc' = [pc EXCEPT ![c] = "ready"] /\ m_elements' = m_elements
    BY <1>10 DEF Enter, SpuriousWakeup, Consume
  <2>2. Cardinality(Ready') = Cardinality(Ready) + 1
    BY <2>1, OneMoreReady
  <2>3. Blocked' \subseteq Blocked
    BY <2>1, BlockedShrinks DEF Location
  <2> QED
    BY <1>1, <1>3, <2>1, <2>2, <2>3
<1>11. CASE UNCHANGED vars
  BY <1>3, <1>11 DEF vars, Blocked, Ready
<1> QED
  BY <1>4, <1>5, <1>6, <1>7, <1>8, <1>9, <1>10, <1>11 DEF Next, WaitPop

\* A thread falls asleep only on an open queue, and the second half of close
\* leaves nobody asleep.
LEMMA StepCloseReachesAll ==
  ASSUME TypeOK, CloseReachesAll, [Next]_vars
  PROVE  CloseReachesAll'
<1>1. CASE Push
  BY <1>1 DEF Push, CloseReachesAll
<1>2. CASE SetClosed
  BY <1>2 DEF SetClosed, CloseReachesAll
<1>3. CASE NotifyAll
  BY <1>3 DEF NotifyAll, CloseReachesAll, Blocked
<1>4. CASE Remove
  BY <1>4 DEF Remove, CloseReachesAll, Blocked
<1>5. ASSUME NEW c \in Consumers, Wait(c)
      PROVE  CloseReachesAll'
  BY <1>5 DEF Wait, CloseReachesAll
<1>6. ASSUME NEW c \in Consumers,
             Enter(c) \/ Pop(c) \/ ReturnClosed(c) \/ SpuriousWakeup(c) \/ Consume(c)
      PROVE  CloseReachesAll'
  <2>1. /\ UNCHANGED <<m_closed, notify_due>>
        /\ \E l \in Location \ {"wait"} : pc' = [pc EXCEPT ![c] = l]
    BY <1>6 DEF Enter, Pop, ReturnClosed, SpuriousWakeup, Consume, Location
  <2>2. Blocked' \subseteq Blocked
    BY <2>1, BlockedShrinks
  <2> QED
    BY <2>1, <2>2 DEF CloseReachesAll
<1>7. CASE UNCHANGED vars
  BY <1>7 DEF vars, CloseReachesAll, Blocked
<1> QED
  BY <1>1, <1>2, <1>3, <1>4, <1>5, <1>6, <1>7 DEF Next, WaitPop

\* Every behaviour has the invariants TypeOK, WakeupNotLost and CloseReachesAll.
THEOREM FifoInvariants == Spec => []Inv
<1>1. Init => Inv
  BY InitTyped
<1>2. Inv /\ [Next]_vars => Inv'
  BY StepTyped, StepWakeupNotLost, StepCloseReachesAll DEF Inv
<1> QED
  BY <1>1, <1>2, PTL DEF Spec

\* The elements in the queue and with the consumers are accepted ones, in order.
THEOREM FifoTypeCorrect == Spec => []TypeOK
BY FifoInvariants, PTL DEF Inv

\* push, which notifies one thread, and wait_pop, which tests its predicate
\* under the lock, leave no thread asleep that an element waits for.
THEOREM FifoNoLostWakeup == Spec => []WakeupNotLost
BY FifoInvariants, PTL DEF Inv

\* close, which sets the flag and notifies in two steps, leaves no thread asleep.
THEOREM FifoCloseReachesAll == Spec => []CloseReachesAll
BY FifoInvariants, PTL DEF Inv

-----------------------------------------------------------------------------
(* The refinement.                                                         *)

LEMMA InitImplements == Init => Promise!Init
<1> SUFFICES ASSUME Init PROVE Promise!Init
  OBVIOUS
<1>1. InQueue = {}
  BY EmptySeq, SeqIsFunction DEF Init, InQueue
<1> QED
  BY <1>1 DEF Init, Promise!Init

\* The last element of the queue is the one that was pushed.
LEMMA PushImplements ==
  ASSUME TypeOK, Push
  PROVE  Promise!Accept
<1>1. /\ Len(m_elements) \in Nat
      /\ DOMAIN m_elements = 1..Len(m_elements)
  BY SeqIsFunction DEF TypeOK
<1>2. /\ DOMAIN m_elements' = 1..(Len(m_elements) + 1)
      /\ \A i \in 1..Len(m_elements) : m_elements'[i] = m_elements[i]
      /\ m_elements'[Len(m_elements) + 1] = pushed'
  <2>1. m_elements' = Append(m_elements, pushed') /\ m_elements \in Seq(1..pushed)
    BY DEF Push, TypeOK
  <2> QED
    BY <1>1, <2>1
<1>3. InQueue' = InQueue \cup {pushed'}
  BY <1>1, <1>2 DEF InQueue
<1>4. \A c \in Consumers : (pc'[c] = "returned") = (pc[c] = "returned")
  BY NotifyOneWakes DEF Push
<1> QED
  BY <1>3, <1>4 DEF Push, Promise!Accept

LEMMA StepImplements ==
  ASSUME TypeOK, [Next]_vars
  PROVE  [Promise!Next]_(Promise!channelVars)
<1> DEFINE Same == UNCHANGED <<pushed, InQueue, m_closed, held,
                               [c \in Consumers |-> pc[c] = "returned"]>>
<1>1. CASE Push
  BY <1>1, PushImplements DEF Promise!Next
<1>2. CASE SetClosed
  <2>1. Promise!Close
    BY <1>2 DEF SetClosed, InQueue, Promise!Close
  <2> QED
    BY <2>1 DEF Promise!Next
<1>3. CASE NotifyAll
  <2>1. \A c \in Consumers : (pc'[c] = "returned") = (pc[c] = "returned")
    BY <1>3 DEF NotifyAll, Blocked, TypeOK
  <2>2. Same
    BY <1>3, <2>1 DEF NotifyAll, InQueue
  <2> QED
    BY <2>2 DEF Promise!channelVars
<1>4. CASE Remove
  <2>1. InQueue' \subseteq InQueue
    BY <1>4, RemoveTyped
  <2>2. Promise!Remove
    BY <1>4, <2>1 DEF Remove, Promise!Remove
  <2> QED
    BY <2>2 DEF Promise!Next
<1>5. ASSUME NEW c \in Consumers, Pop(c)
      PROVE  Promise!Next
  <2>1. /\ held'[c] \in InQueue
        /\ \A e \in InQueue : held'[c] <= e
        /\ InQueue' = InQueue \ {held'[c]}
    BY <1>5, PopTyped
  <2>2. held[c] = 0 /\ pc[c] # "returned"
    BY <1>5 DEF Pop, TypeOK
  <2>3. held' = [held EXCEPT ![c] = held'[c]]
    BY <1>5 DEF Pop, TypeOK
  <2>4. \A d \in Consumers : (pc'[d] = "returned") = (pc[d] = "returned")
    BY <1>5 DEF Pop, TypeOK
  <2>5. Promise!Deliver(c)
    BY <1>5, <2>1, <2>2, <2>3, <2>4 DEF Pop, Promise!Deliver
  <2> QED
    BY <2>5 DEF Promise!Next
<1>6. ASSUME NEW c \in Consumers, ReturnClosed(c)
      PROVE  Promise!Next
  <2>1. InQueue = {} /\ InQueue' = {}
    BY <1>6, EmptySeq, SeqIsFunction DEF ReturnClosed, InQueue
  <2>2. held[c] = 0
    BY <1>6 DEF ReturnClosed, TypeOK
  <2>3. \A d \in Consumers : (pc'[d] = "returned") = (pc[d] = "returned" \/ d = c)
    BY <1>6 DEF ReturnClosed, TypeOK
  <2>4. Promise!End(c)
    BY <1>6, <2>1, <2>2, <2>3 DEF ReturnClosed, Promise!End
  <2> QED
    BY <2>4 DEF Promise!Next
<1>7. ASSUME NEW c \in Consumers, Consume(c)
      PROVE  Promise!Next
  <2>1. held[c] # 0
    BY <1>7 DEF Consume, TypeOK
  <2>2. \A d \in Consumers : (pc'[d] = "returned") = (pc[d] = "returned")
    BY <1>7 DEF Consume, TypeOK
  <2>3. Promise!Ask(c)
    BY <1>7, <2>1, <2>2 DEF Consume, InQueue, Promise!Ask
  <2> QED
    BY <2>3 DEF Promise!Next
<1>8. ASSUME NEW c \in Consumers, Enter(c) \/ Wait(c) \/ SpuriousWakeup(c)
      PROVE  UNCHANGED Promise!channelVars
  <2>1. \A d \in Consumers : (pc'[d] = "returned") = (pc[d] = "returned")
    BY <1>8 DEF Enter, Wait, SpuriousWakeup, TypeOK
  <2>2. Same
    BY <1>8, <2>1 DEF Enter, Wait, SpuriousWakeup, InQueue
  <2> QED
    BY <2>2 DEF Promise!channelVars
<1>9. CASE UNCHANGED vars
  BY <1>9 DEF vars, InQueue, Promise!channelVars
<1> QED
  BY <1>1, <1>2, <1>3, <1>4, <1>5, <1>6, <1>7, <1>8, <1>9 DEF Next, WaitPop

\* The queue delivers every element once, in order of acceptance, and ends no
\* consumer before it is closed and drained: it implements the channel.
THEOREM FifoImplementsChannel == Spec => ImplementsChannel
<1>1. Init => Promise!Init
  BY InitImplements
<1>2. TypeOK /\ [Next]_vars => [Promise!Next]_(Promise!channelVars)
  BY StepImplements
<1> QED
  BY <1>1, <1>2, FifoTypeCorrect, PTL DEF Spec, ImplementsChannel, Promise!Spec
=============================================================================
