-------------------------------- MODULE Request --------------------------------
(***************************************************************************)
(* RequestImpl: a start and a cancel callback, either of which is used up  *)
(* by the call that returns from it. A callback may throw, and it may be   *)
(* empty: then the call of it throws (std::bad_function_call). m_started   *)
(* is set before either is called, and stays when they throw.              *)
(*                                                                         *)
(* m_started is atomic, the callbacks and the future are not: a request    *)
(* has one caller at a time.                                               *)
(***************************************************************************)
CONSTANT Requests

VARIABLES
  m_started,          \* per request, as the next three
  m_start_callback,   \* it is not empty
  m_cancel_callback,  \* it is not empty
  m_future,           \* it is valid
  calling,            \* per request: the callback in progress, or none
  handed              \* per request: the future in the cancel callback's hands is valid

requestVars ==
  <<m_started, m_start_callback, m_cancel_callback, m_future, calling, handed>>

RequestInit ==
  /\ m_started = [r \in Requests |-> FALSE]
  /\ m_start_callback = [r \in Requests |-> TRUE]
  /\ m_cancel_callback = [r \in Requests |-> TRUE]
  /\ m_future = [r \in Requests |-> FALSE]
  /\ calling = [r \in Requests |-> "none"]
  /\ handed = [r \in Requests |-> FALSE]

-----------------------------------------------------------------------------
\* start: throws when started, and that is all.
EnterStart(r) ==
  /\ calling[r] = "none" /\ ~m_started[r]
  /\ m_started' = [m_started EXCEPT ![r] = TRUE]
  /\ calling' = [calling EXCEPT ![r] = "start"]
  /\ UNCHANGED <<m_start_callback, m_cancel_callback, m_future, handed>>

\* Mutant: the start callback is kept.
StartReturnsKeeping(r, valid) ==
  /\ calling[r] = "start" /\ m_start_callback[r]
  /\ m_future' = [m_future EXCEPT ![r] = valid]
  /\ calling' = [calling EXCEPT ![r] = "none"]
  /\ UNCHANGED <<m_started, m_start_callback, m_cancel_callback, handed>>

\* The start callback returns a future, which is valid or not.
StartReturns(r, valid) ==
  /\ calling[r] = "start" /\ m_start_callback[r]
  /\ m_future' = [m_future EXCEPT ![r] = valid]
  /\ m_start_callback' = [m_start_callback EXCEPT ![r] = FALSE]
  /\ calling' = [calling EXCEPT ![r] = "none"]
  /\ UNCHANGED <<m_started, m_cancel_callback, handed>>

StartThrows(r) ==
  /\ calling[r] = "start"
  /\ calling' = [calling EXCEPT ![r] = "none"]
  /\ UNCHANGED <<m_started, m_start_callback, m_cancel_callback, m_future, handed>>

\* Mutant: the callback gets a copy of the future.
EnterCancelCopying(r) ==
  /\ calling[r] = "none" /\ m_started[r]
  /\ m_started' = [m_started EXCEPT ![r] = FALSE]
  /\ handed' = [handed EXCEPT ![r] = m_future[r]]
  /\ calling' = [calling EXCEPT ![r] = "cancel"]
  /\ UNCHANGED <<m_start_callback, m_cancel_callback, m_future>>

\* cancel: throws unless started. The future is moved into the argument, also
\* of an empty callback.
EnterCancel(r) ==
  /\ calling[r] = "none" /\ m_started[r]
  /\ m_started' = [m_started EXCEPT ![r] = FALSE]
  /\ handed' = [handed EXCEPT ![r] = m_future[r]]
  /\ m_future' = [m_future EXCEPT ![r] = FALSE]
  /\ calling' = [calling EXCEPT ![r] = "cancel"]
  /\ UNCHANGED <<m_start_callback, m_cancel_callback>>

CancelReturns(r) ==
  /\ calling[r] = "cancel" /\ m_cancel_callback[r]
  /\ m_cancel_callback' = [m_cancel_callback EXCEPT ![r] = FALSE]
  /\ calling' = [calling EXCEPT ![r] = "none"]
  /\ handed' = [handed EXCEPT ![r] = FALSE]
  /\ UNCHANGED <<m_started, m_start_callback, m_future>>

CancelThrows(r) ==
  /\ calling[r] = "cancel"
  /\ calling' = [calling EXCEPT ![r] = "none"]
  /\ handed' = [handed EXCEPT ![r] = FALSE]
  /\ UNCHANGED <<m_started, m_start_callback, m_cancel_callback, m_future>>

-----------------------------------------------------------------------------
RequestNext ==
  \E r \in Requests :
    \/ EnterStart(r)
    \/ \E valid \in BOOLEAN : StartReturns(r, valid)
    \/ StartThrows(r)
    \/ EnterCancel(r) \/ CancelReturns(r) \/ CancelThrows(r)

RequestSpec == RequestInit /\ [][RequestNext]_requestVars

RequestTypeOK ==
  /\ m_started \in [Requests -> BOOLEAN]
  /\ m_start_callback \in [Requests -> BOOLEAN]
  /\ m_cancel_callback \in [Requests -> BOOLEAN]
  /\ m_future \in [Requests -> BOOLEAN]
  /\ calling \in [Requests -> {"none", "start", "cancel"}]
  /\ handed \in [Requests -> BOOLEAN]

\* One future, one owner: a request that has a future was started and has used
\* its start callback up, so no second start replaces the future, and the
\* cancel callback that has it is the only one that will.
FutureHasOneOwner ==
  \A r \in Requests :
    m_future[r] \/ handed[r] =>
      /\ ~m_start_callback[r]
      /\ ~(m_future[r] /\ handed[r])
      /\ m_future[r] => m_started[r] /\ calling[r] = "none"
      /\ handed[r] => ~m_started[r] /\ calling[r] = "cancel"
=============================================================================
