------------------------------- MODULE TaskBase -------------------------------
(***************************************************************************)
(* The state of task objects (TaskBaseImpl): the sequence id and the due   *)
(* time that order a queue, the request id that cancellation looks for,    *)
(* and the promise that tells the submitter what became of the task.       *)
(*                                                                         *)
(* Time is counted in ticks of the steady clock, Res of them to a          *)
(* millisecond: due_time() and delay() truncate to milliseconds, and the   *)
(* truncation is observable in the order and the moment tasks start.       *)
(***************************************************************************)
EXTENDS Integers

CONSTANTS Tasks,       \* task objects
          RequestIds,  \* ids passed to set_request_id and cancel_pending
          Delays,      \* milliseconds passed to set_due_time
          Res,         \* clock ticks per millisecond
          MaxTime      \* bound: the last tick of the modelled clock

ASSUME TaskAssumption ==
  /\ Res \in Nat \ {0}
  /\ MaxTime \in Nat
  /\ Delays \subseteq Int
  /\ RequestIds \subseteq Nat

VARIABLES
  now,            \* steady_clock::now(), in ticks
  s_SEQUENCE_ID,  \* the last sequence id handed out
  m_sequence_id,  \* per task
  m_due_time,     \* per task, in ticks
  m_request_id,   \* per task
  m_promise       \* per task: no object yet, unsatisfied, or how it was satisfied

taskVars ==
  <<now, s_SEQUENCE_ID, m_sequence_id, m_due_time, m_request_id, m_promise>>

Outcome == {"value", "exception"}
Settled == Outcome \cup {"broken"}
PromiseState == {"absent", "pending"} \cup Settled

Constructed == {t \in Tasks : m_promise[t] # "absent"}

-----------------------------------------------------------------------------
\* due_time(): the due time in whole milliseconds. The steady clock is
\* positive, so duration_cast rounds down.
DueTime(t) == m_due_time[t] \div Res

\* Mutant: a millisecond too many.
DelayLate(t) == IF m_due_time[t] < now THEN 0
                                       ELSE (m_due_time[t] - now) \div Res + 1

\* delay(): whole milliseconds left, never negative. A task that is less
\* than one millisecond away has delay 0.
Delay(t) == IF m_due_time[t] < now THEN 0
                                   ELSE (m_due_time[t] - now) \div Res

\* Mutant: the order forgets the due time.
BeforeBySequence(s, t) == m_sequence_id[s] < m_sequence_id[t]

\* Mutant: the order forgets the sequence id.
BeforeByDueTime(s, t) == DueTime(s) < DueTime(t)

\* TaskPtrCmp and TaskCmp: by due time in milliseconds, ties by sequence id.
Before(s, t) ==
  \/ DueTime(s) < DueTime(t)
  \/ DueTime(s) = DueTime(t) /\ m_sequence_id[s] < m_sequence_id[t]

-----------------------------------------------------------------------------
TaskInit ==
  /\ now = 0
  /\ s_SEQUENCE_ID = 0
  /\ m_sequence_id = [t \in Tasks |-> 0]
  /\ m_due_time = [t \in Tasks |-> 0]
  /\ m_request_id = [t \in Tasks |-> 0]
  /\ m_promise = [t \in Tasks |-> "absent"]

\* create_task, create_task_ptr: the member initialisers read the clock and
\* take the next sequence id; the request id is 0 until set.
Construct(t) ==
  /\ m_promise[t] = "absent"
  /\ s_SEQUENCE_ID' = s_SEQUENCE_ID + 1
  /\ m_sequence_id' = [m_sequence_id EXCEPT ![t] = s_SEQUENCE_ID']
  /\ m_due_time' = [m_due_time EXCEPT ![t] = now]
  /\ m_promise' = [m_promise EXCEPT ![t] = "pending"]
  /\ UNCHANGED <<now, m_request_id>>

\* set_due_time(d): d milliseconds from now. The guard keeps due times on
\* the modelled clock.
SetDueTime(t, d) ==
  /\ now + d * Res \in 0..MaxTime
  /\ m_due_time' = [m_due_time EXCEPT ![t] = now + d * Res]
  /\ UNCHANGED <<now, s_SEQUENCE_ID, m_sequence_id, m_request_id, m_promise>>

SetRequestId(t, r) ==
  /\ m_request_id' = [m_request_id EXCEPT ![t] = r]
  /\ UNCHANGED <<now, s_SEQUENCE_ID, m_sequence_id, m_due_time, m_promise>>

\* run(): the stored call returns and the promise gets its value, or throws a
\* std::exception that the promise takes. A promise that is satisfied already
\* stays as it is (std::future_error).
Run(t, outcome) ==
  /\ outcome \in Outcome
  /\ m_promise' = [m_promise EXCEPT ![t] = IF @ = "pending" THEN outcome ELSE @]
  /\ UNCHANGED <<now, s_SEQUENCE_ID, m_sequence_id, m_due_time, m_request_id>>

\* Task objects are destroyed: an unsatisfied promise becomes broken.
Discard(S) ==
  /\ m_promise' = [t \in Tasks |-> IF t \in S /\ m_promise[t] = "pending"
                                     THEN "broken" ELSE m_promise[t]]
  /\ UNCHANGED <<now, s_SEQUENCE_ID, m_sequence_id, m_due_time, m_request_id>>

\* The steady clock advances.
Tick ==
  /\ now < MaxTime
  /\ now' = now + 1
  /\ UNCHANGED <<s_SEQUENCE_ID, m_sequence_id, m_due_time, m_request_id, m_promise>>

TaskTypeOK ==
  /\ now \in 0..MaxTime
  /\ s_SEQUENCE_ID \in Nat
  /\ m_sequence_id \in [Tasks -> Nat]
  /\ m_due_time \in [Tasks -> 0..MaxTime]
  /\ m_request_id \in [Tasks -> RequestIds \cup {0}]
  /\ m_promise \in [Tasks -> PromiseState]
=============================================================================
