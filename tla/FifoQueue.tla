------------------------------- MODULE FifoQueue -------------------------------
(***************************************************************************)
(* Queue<T, std::deque<T>>: the closable queue in order of arrival, which  *)
(* Queue is when no other container is asked for. Every step is a critical *)
(* section of m_mutex or a passage of a thread through m_cond, as in       *)
(* DelayQueue; there is no clock, and wait_pop waits with a predicate.     *)
(*                                                                         *)
(* Elements are told apart by the order in which they were pushed: the     *)
(* n-th element accepted is n.                                             *)
(***************************************************************************)
EXTENDS Naturals, Sequences, FiniteSets

CONSTANTS Consumers,   \* threads that call wait_pop over and over
          MaxPushed    \* bound: elements pushed

ASSUME FifoAssumption == IsFiniteSet(Consumers) /\ MaxPushed \in Nat

VARIABLES
  m_elements,
  m_closed,
  notify_due,  \* a close() has set m_closed and not yet called notify_all
  pushed,      \* elements accepted so far
  pc,          \* per consumer
  held         \* per consumer: the element wait_pop returned, or 0

vars == <<m_elements, m_closed, notify_due, pushed, pc, held>>

Location == {"outside", "ready", "wait", "busy", "returned"}
Blocked == {c \in Consumers : pc[c] = "wait"}
InQueue == {m_elements[i] : i \in DOMAIN m_elements}

Init ==
  /\ m_elements = <<>>
  /\ m_closed = FALSE
  /\ notify_due = FALSE
  /\ pushed = 0
  /\ pc = [c \in Consumers |-> "outside"]
  /\ held = [c \in Consumers |-> 0]

\* notify_one: some blocked thread, if there is one, tests the predicate again.
NotifyOne ==
  IF Blocked = {}
    THEN UNCHANGED pc
    ELSE \E c \in Blocked : pc' = [pc EXCEPT ![c] = "ready"]

\* Mutant: the element is put in front.
PushFront ==
  /\ pushed < MaxPushed /\ ~m_closed
  /\ pushed' = pushed + 1
  /\ m_elements' = <<pushed'>> \o m_elements
  /\ NotifyOne
  /\ UNCHANGED <<m_closed, notify_due, held>>

\* Mutant: a thread is notified of the first element only.
PushNotifyingIfEmpty ==
  /\ pushed < MaxPushed /\ ~m_closed
  /\ pushed' = pushed + 1
  /\ m_elements' = Append(m_elements, pushed')
  /\ IF m_elements = <<>> THEN NotifyOne ELSE UNCHANGED pc
  /\ UNCHANGED <<m_closed, notify_due, held>>

\* push: throws when closed.
Push ==
  /\ pushed < MaxPushed /\ ~m_closed
  /\ pushed' = pushed + 1
  /\ m_elements' = Append(m_elements, pushed')
  /\ NotifyOne
  /\ UNCHANGED <<m_closed, notify_due, held>>

\* close, first half.
SetClosed ==
  /\ m_closed' = TRUE
  /\ notify_due' = TRUE
  /\ UNCHANGED <<m_elements, pushed, pc, held>>

\* Mutant: close notifies one thread.
NotifyOneOnClose ==
  /\ notify_due
  /\ notify_due' = FALSE
  /\ NotifyOne
  /\ UNCHANGED <<m_elements, m_closed, pushed, held>>

\* close, second half.
NotifyAll ==
  /\ notify_due
  /\ notify_due' = FALSE
  /\ pc' = [c \in Consumers |-> IF c \in Blocked THEN "ready" ELSE pc[c]]
  /\ UNCHANGED <<m_elements, m_closed, pushed, held>>

\* remove: whatever the predicate is, the elements it does not hold of stay, in
\* their order. The code answers false in any case: what erase returns is
\* compared with the end it has moved there.
Remove ==
  /\ \E n \in 0..Len(m_elements) :
       \E kept \in [1..n -> DOMAIN m_elements] :
         /\ \A i, j \in 1..n : i < j => kept[i] < kept[j]
         /\ m_elements' = [i \in 1..n |-> m_elements[kept[i]]]
  /\ UNCHANGED <<m_closed, notify_due, pushed, pc, held>>

-----------------------------------------------------------------------------
Enter(c) ==
  /\ pc[c] = "outside"
  /\ pc' = [pc EXCEPT ![c] = "ready"]
  /\ UNCHANGED <<m_elements, m_closed, notify_due, pushed, held>>

\* wait_pop, not empty, whether closed or not.
Pop(c) ==
  /\ pc[c] = "ready" /\ m_elements # <<>>
  /\ held' = [held EXCEPT ![c] = Head(m_elements)]
  /\ m_elements' = Tail(m_elements)
  /\ pc' = [pc EXCEPT ![c] = "busy"]
  /\ UNCHANGED <<m_closed, notify_due, pushed>>

\* wait_pop, the predicate is false.
Wait(c) ==
  /\ pc[c] = "ready" /\ m_elements = <<>> /\ ~m_closed
  /\ pc' = [pc EXCEPT ![c] = "wait"]
  /\ UNCHANGED <<m_elements, m_closed, notify_due, pushed, held>>

\* Mutant: a closed queue is not drained.
ReturnOnClose(c) ==
  /\ pc[c] = "ready" /\ m_closed
  /\ pc' = [pc EXCEPT ![c] = "returned"]
  /\ UNCHANGED <<m_elements, m_closed, notify_due, pushed, held>>

\* wait_pop returns OperationStatus::closed.
ReturnClosed(c) ==
  /\ pc[c] = "ready" /\ m_elements = <<>> /\ m_closed
  /\ pc' = [pc EXCEPT ![c] = "returned"]
  /\ UNCHANGED <<m_elements, m_closed, notify_due, pushed, held>>

SpuriousWakeup(c) ==
  /\ pc[c] = "wait"
  /\ pc' = [pc EXCEPT ![c] = "ready"]
  /\ UNCHANGED <<m_elements, m_closed, notify_due, pushed, held>>

\* The consumer is done with the element and calls wait_pop again.
Consume(c) ==
  /\ pc[c] = "busy"
  /\ held' = [held EXCEPT ![c] = 0]
  /\ pc' = [pc EXCEPT ![c] = "ready"]
  /\ UNCHANGED <<m_elements, m_closed, notify_due, pushed>>

-----------------------------------------------------------------------------
WaitPop(c) == Pop(c) \/ Wait(c) \/ ReturnClosed(c)

Next ==
  \/ Push \/ SetClosed \/ NotifyAll \/ Remove
  \/ \E c \in Consumers : Enter(c) \/ WaitPop(c) \/ SpuriousWakeup(c) \/ Consume(c)

Spec == Init /\ [][Next]_vars

\* Threads go on in wait_pop, come to an end with their element, and a close
\* that was begun notifies. Nobody has to push, to close or to call wait_pop, and
\* no thread has to be woken without a reason.
FairSpec ==
  /\ Spec
  /\ WF_vars(NotifyAll)
  /\ \A c \in Consumers : WF_vars(WaitPop(c)) /\ WF_vars(Consume(c))

-----------------------------------------------------------------------------
\* The elements in the queue and with the consumers are of those accepted, and
\* the queue holds them in the order of their acceptance.
TypeOK ==
  /\ pushed \in 0..MaxPushed
  /\ m_elements \in Seq(1..pushed)
  /\ \A i, j \in DOMAIN m_elements : i < j => m_elements[i] < m_elements[j]
  /\ m_closed \in BOOLEAN
  /\ notify_due \in BOOLEAN
  /\ pc \in [Consumers -> Location]
  /\ held \in [Consumers -> 0..pushed]
  /\ \A c \in Consumers : (pc[c] = "busy") = (held[c] # 0)

\* No wakeup is lost, although a thread that was notified may be overtaken by
\* another one: as long as a thread is blocked, every element has a thread of its
\* own on the way to it, and none waits for a consumer to come back.
WakeupNotLost ==
  Blocked # {} => Len(m_elements) <= Cardinality({c \in Consumers : pc[c] = "ready"})

Promise ==
  INSTANCE Channel WITH
    accepted <- pushed,
    here <- InQueue,
    open <- ~m_closed,
    got <- held,
    ended <- [c \in Consumers |-> pc[c] = "returned"]

\* The queue is the channel its users may take it for.
ImplementsChannel == Promise!Spec

\* When the queue is closed, every thread that asks comes to an end, after the
\* elements that are left.
CloseEndsConsumers ==
  \A c \in Consumers : m_closed /\ pc[c] # "outside" ~> pc[c] = "returned"
=============================================================================
