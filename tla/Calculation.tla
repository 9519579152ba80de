------------------------------ MODULE Calculation ------------------------------
(***************************************************************************)
(* DemoComponentImpl, the integration tests' user of the library: requests *)
(* whose start callback dispatches a calculation to the pool "background", *)
(* and whose cancel callback removes the calculation if it is still queued *)
(* and dispatches, to the same pool, a task that sets a flag and waits for *)
(* the calculation's future.                                               *)
(*                                                                         *)
(* The flag belongs to the component: its calculations share it. Threads   *)
(* of the pool are told apart by what they run, the pool is that of        *)
(* TaskDispatcher, and a future is ready when its task has run, thrown or  *)
(* been destroyed (TaskBase).                                              *)
(***************************************************************************)
EXTENDS Request, Naturals, FiniteSets

CONSTANT MaxThreads  \* bound: threads of the pool

ASSUME CalculationAssumption == MaxThreads \in Nat \ {0}

VARIABLES
  threads,      \* of the pool
  pool,         \* not started yet, open, or stopped for good
  alive,        \* the component exists
  m_calculate_1_cancelled,
  calc,         \* per request: where its calculation is
  report,       \* per request: the status of its on_calculation_done
  cancel_task,  \* per request: where its cancel task is
  task_future   \* per request: the future in the cancel task is valid

componentVars == <<threads, pool, alive>>
calcVars == <<calc, report, m_calculate_1_cancelled>>
cancelVars == <<cancel_task, task_future>>
vars == <<requestVars, componentVars, calcVars, cancelVars>>

Init ==
  /\ RequestInit
  /\ threads \in 1..MaxThreads
  /\ pool = "unstarted"
  /\ alive = TRUE
  /\ m_calculate_1_cancelled = FALSE
  /\ calc = [r \in Requests |-> "none"]
  /\ report = [r \in Requests |-> "none"]
  /\ cancel_task = [r \in Requests |-> "none"]
  /\ task_future = [r \in Requests |-> FALSE]

Busy == Cardinality({r \in Requests : calc[r] \in {"running", "reset"}})
      + Cardinality({r \in Requests : cancel_task[r] \in {"flag", "wait"}})

-----------------------------------------------------------------------------
(* The callbacks of a request.                                             *)

CallStart(r) == EnterStart(r) /\ UNCHANGED <<componentVars, calcVars, cancelVars>>

\* schedule_calculation_1, if the component still exists.
StartCallback(r) ==
  /\ IF alive THEN pool = "open" /\ calc' = [calc EXCEPT ![r] = "queued"]
              ELSE UNCHANGED calc
  /\ StartReturns(r, alive)
  /\ UNCHANGED <<componentVars, report, m_calculate_1_cancelled, cancelVars>>

\* dispatch throws, or there is no callback.
StartCallbackThrows(r) ==
  /\ m_start_callback[r] => alive /\ pool # "open"
  /\ StartThrows(r)
  /\ UNCHANGED <<componentVars, calcVars, cancelVars>>

CallCancel(r) == EnterCancel(r) /\ UNCHANGED <<componentVars, calcVars, cancelVars>>

\* Mutant: nothing is removed.
CancelRemovesNothing(r) ==
  /\ calling[r] = "cancel" /\ m_cancel_callback[r] /\ alive
  /\ cancel_task[r] = "none"
  /\ cancel_task' = [cancel_task EXCEPT ![r] = "removed"]
  /\ UNCHANGED <<requestVars, componentVars, calcVars, task_future>>

\* schedule_cancel_calculation_1, cancel of the dispatcher: a calculation that
\* is queued goes, and its future is ready.
CancelRemoves(r) ==
  /\ calling[r] = "cancel" /\ m_cancel_callback[r] /\ alive
  /\ cancel_task[r] = "none"
  /\ calc' = [calc EXCEPT ![r] = IF @ = "queued" THEN "settled" ELSE @]
  /\ cancel_task' = [cancel_task EXCEPT ![r] = "removed"]
  /\ UNCHANGED <<requestVars, componentVars, report, m_calculate_1_cancelled, task_future>>

CancelDispatches(r) ==
  /\ cancel_task[r] = "removed" /\ pool = "open"
  /\ cancel_task' = [cancel_task EXCEPT ![r] = "queued"]
  /\ task_future' = [task_future EXCEPT ![r] = handed[r]]
  /\ CancelReturns(r)
  /\ UNCHANGED <<componentVars, calcVars>>

\* Mutant: the task is still to be dispatched, by nobody.
CancelCallbackThrowsBetween(r) ==
  /\ m_cancel_callback[r] => cancel_task[r] = "removed" /\ pool # "open"
  /\ CancelThrows(r)
  /\ UNCHANGED <<componentVars, calcVars, cancelVars>>

\* dispatch throws, and the future goes with the task; or there is no callback.
CancelCallbackThrows(r) ==
  /\ m_cancel_callback[r] => cancel_task[r] = "removed" /\ pool # "open"
  /\ cancel_task' = [cancel_task EXCEPT ![r] = IF @ = "removed" THEN "none" ELSE @]
  /\ CancelThrows(r)
  /\ UNCHANGED <<componentVars, calcVars, task_future>>

\* The component is gone.
CancelCallbackLate(r) ==
  /\ ~alive
  /\ CancelReturns(r)
  /\ UNCHANGED <<componentVars, calcVars, cancelVars>>

-----------------------------------------------------------------------------
(* do_calculation_1. Its assertions hold (TaskDispatcher, see              *)
(* RecognisedOnceStarted), its rounds and the reports on them are left out.*)

TakeCalculation(r) ==
  /\ calc[r] = "queued" /\ Busy < threads
  /\ calc' = [calc EXCEPT ![r] = "running"]
  /\ UNCHANGED <<requestVars, componentVars, report, m_calculate_1_cancelled, cancelVars>>

\* The loop ends, when the flag is seen or after the last round.
EndLoop(r) ==
  /\ calc[r] = "running"
  /\ \/ m_calculate_1_cancelled /\ report' = [report EXCEPT ![r] = "cancelled"]
     \/ report' = [report EXCEPT ![r] = "completed"]
  /\ calc' = [calc EXCEPT ![r] = "reset"]
  /\ UNCHANGED <<requestVars, componentVars, m_calculate_1_cancelled, cancelVars>>

\* The dispatch of a report throws, out of the task: the flag stays.
ReportThrows(r) ==
  /\ calc[r] = "running"
  /\ calc' = [calc EXCEPT ![r] = "settled"]
  /\ UNCHANGED <<requestVars, componentVars, report, m_calculate_1_cancelled, cancelVars>>

ResetFlag(r) ==
  /\ calc[r] = "reset"
  /\ m_calculate_1_cancelled' = FALSE
  /\ calc' = [calc EXCEPT ![r] = "settled"]
  /\ UNCHANGED <<requestVars, componentVars, report, cancelVars>>

-----------------------------------------------------------------------------
(* The cancel task, on a thread of the same pool.                          *)

TakeCancel(r) ==
  /\ cancel_task[r] = "queued" /\ Busy < threads
  /\ cancel_task' = [cancel_task EXCEPT ![r] = "flag"]
  /\ UNCHANGED <<requestVars, componentVars, calcVars, task_future>>

\* cancel_calculation_1, if the component still exists.
CancelSetsFlag(r) ==
  /\ cancel_task[r] = "flag"
  /\ cancel_task' = [cancel_task EXCEPT ![r] = "wait"]
  /\ m_calculate_1_cancelled' = (m_calculate_1_cancelled \/ alive)
  /\ UNCHANGED <<requestVars, componentVars, calc, report, task_future>>

\* task_future.wait( ), if it is valid.
CancelWaited(r) ==
  /\ cancel_task[r] = "wait"
  /\ task_future[r] => calc[r] = "settled"
  /\ cancel_task' = [cancel_task EXCEPT ![r] = "returned"]
  /\ UNCHANGED <<requestVars, componentVars, calcVars, task_future>>

-----------------------------------------------------------------------------
StartPool ==
  /\ pool = "unstarted" /\ pool' = "open"
  /\ UNCHANGED <<requestVars, threads, alive, calcVars, cancelVars>>

StopPool ==
  /\ pool = "open" /\ pool' = "stopped"
  /\ UNCHANGED <<requestVars, threads, alive, calcVars, cancelVars>>

\* The component is dropped: not before the tasks that refer to it with a plain
\* pointer are done, and not while a callback holds it.
DropComponent ==
  /\ alive
  /\ \A r \in Requests : calc[r] \in {"none", "settled"} /\ cancel_task[r] # "removed"
  /\ alive' = FALSE
  /\ UNCHANGED <<requestVars, threads, pool, calcVars, cancelVars>>

Caller(r) ==
  \/ StartCallback(r) \/ StartCallbackThrows(r)
  \/ CancelRemoves(r) \/ CancelDispatches(r) \/ CancelCallbackThrows(r) \/ CancelCallbackLate(r)

Calculate(r) == TakeCalculation(r) \/ EndLoop(r) \/ ReportThrows(r) \/ ResetFlag(r)
CancelTask(r) == TakeCancel(r) \/ CancelSetsFlag(r) \/ CancelWaited(r)

Next ==
  \/ \E r \in Requests : CallStart(r) \/ CallCancel(r) \/ Caller(r) \/ Calculate(r) \/ CancelTask(r)
  \/ StartPool \/ StopPool \/ DropComponent

Spec == Init /\ [][Next]_vars

\* Calls that were begun go on, and the threads of the pool take tasks and run
\* them to their end. Nobody has to start a request.
Fairness ==
  \A r \in Requests : WF_vars(Caller(r)) /\ WF_vars(Calculate(r)) /\ WF_vars(CancelTask(r))

FairSpec == Spec /\ Fairness

-----------------------------------------------------------------------------
TypeOK ==
  /\ RequestTypeOK
  /\ threads \in 1..MaxThreads
  /\ pool \in {"unstarted", "open", "stopped"}
  /\ alive \in BOOLEAN
  /\ m_calculate_1_cancelled \in BOOLEAN
  /\ calc \in [Requests -> {"none", "queued", "running", "reset", "settled"}]
  /\ report \in [Requests -> {"none", "completed", "cancelled"}]
  /\ cancel_task \in [Requests -> {"none", "removed", "queued", "flag", "wait", "returned"}]
  /\ task_future \in [Requests -> BOOLEAN]
  /\ \A r \in Requests : cancel_task[r] = "removed" => calling[r] = "cancel"

\* A cancel task occupies a thread of the pool its calculation needs: it waits
\* only for a calculation that has a thread already, or has none to need.
CancelWaitsForNoQueuedTask ==
  \A r \in Requests :
    cancel_task[r] \in {"queued", "flag", "wait"} /\ task_future[r] => calc[r] # "queued"

\* A request has one calculation: it is not started again by a start after a
\* cancel, after a start that threw, or after a cancel that threw.
NeverStartedAgain ==
  [][\A r \in Requests : calc'[r] = "queued" /\ calc[r] # "queued" => calc[r] = "none"]_vars

\* Whatever is started or cancelled comes to an end: no thread of the pool waits
\* for ever, not even the only one, and no calculation stays in its queue.
AllComesToAnEnd ==
  <>[](\A r \in Requests :
         calc[r] \in {"none", "settled"} /\ cancel_task[r] \notin {"queued", "flag", "wait"})
=============================================================================
