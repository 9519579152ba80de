--------------------------- MODULE CalculationProofs ---------------------------
(***************************************************************************)
(* Requests, for every set of them, and the component that uses them, for  *)
(* every number of threads of its pool.                                    *)
(***************************************************************************)
EXTENDS Calculation, TLAPS

-----------------------------------------------------------------------------
(* A request by itself.                                                    *)

\* What makes FutureHasOneOwner inductive: m_started is up while start is in its
\* callback, so no cancel comes in between and the future goes to a started
\* request.
RequestInv ==
  /\ RequestTypeOK
  /\ FutureHasOneOwner
  /\ \A r \in Requests : calling[r] = "start" => m_started[r]

LEMMA RequestInitInv == RequestInit => RequestInv
BY DEF RequestInit, RequestInv, RequestTypeOK, FutureHasOneOwner

\* A step changes one request, and gives it values of their types.
LEMMA RequestStepTyped ==
  ASSUME RequestTypeOK, [RequestNext]_requestVars
  PROVE  RequestTypeOK'
<1>1. ASSUME NEW r \in Requests, EnterStart(r) PROVE RequestTypeOK'
  BY <1>1 DEF EnterStart, RequestTypeOK
<1>2. ASSUME NEW r \in Requests, NEW valid \in BOOLEAN, StartReturns(r, valid) PROVE RequestTypeOK'
  BY <1>2 DEF StartReturns, RequestTypeOK
<1>3. ASSUME NEW r \in Requests, StartThrows(r) PROVE RequestTypeOK'
  BY <1>3 DEF StartThrows, RequestTypeOK
<1>4. ASSUME NEW r \in Requests, EnterCancel(r) PROVE RequestTypeOK'
  <2>1. m_future[r] \in BOOLEAN
    BY DEF RequestTypeOK
  <2> QED
    BY <1>4, <2>1 DEF EnterCancel, RequestTypeOK
<1>5. ASSUME NEW r \in Requests, CancelReturns(r) PROVE RequestTypeOK'
  BY <1>5 DEF CancelReturns, RequestTypeOK
<1>6. ASSUME NEW r \in Requests, CancelThrows(r) PROVE RequestTypeOK'
  BY <1>6 DEF CancelThrows, RequestTypeOK
<1>7. CASE UNCHANGED requestVars
  BY <1>7 DEF requestVars, RequestTypeOK
<1> QED
  BY <1>1, <1>2, <1>3, <1>4, <1>5, <1>6, <1>7 DEF RequestNext

LEMMA RequestStepInv ==
  ASSUME RequestInv, [RequestNext]_requestVars
  PROVE  RequestInv'
<1>0. RequestTypeOK /\ RequestTypeOK'
  BY RequestStepTyped DEF RequestInv
<1> DEFINE Owned(r) ==
             /\ m_future[r] \/ handed[r] =>
                  /\ ~m_start_callback[r]
                  /\ ~(m_future[r] /\ handed[r])
                  /\ m_future[r] => m_started[r] /\ calling[r] = "none"
                  /\ handed[r] => ~m_started[r] /\ calling[r] = "cancel"
             /\ calling[r] = "start" => m_started[r]
<1> SUFFICES ASSUME NEW s \in Requests PROVE Owned(s)'
  BY <1>0 DEF RequestInv, FutureHasOneOwner
<1>h. Owned(s)
  BY DEF RequestInv, FutureHasOneOwner
<1>1. ASSUME NEW r \in Requests, EnterStart(r) PROVE Owned(s)'
  BY <1>0, <1>1, <1>h DEF EnterStart, RequestTypeOK
<1>2. ASSUME NEW r \in Requests, NEW valid \in BOOLEAN, StartReturns(r, valid) PROVE Owned(s)'
  BY <1>0, <1>2, <1>h DEF StartReturns, RequestTypeOK
<1>3. ASSUME NEW r \in Requests, StartThrows(r) PROVE Owned(s)'
  BY <1>0, <1>3, <1>h DEF StartThrows, RequestTypeOK
<1>4. ASSUME NEW r \in Requests, EnterCancel(r) PROVE Owned(s)'
  BY <1>0, <1>4, <1>h DEF EnterCancel, RequestTypeOK
<1>5. ASSUME NEW r \in Requests, CancelReturns(r) PROVE Owned(s)'
  BY <1>0, <1>5, <1>h DEF CancelReturns, RequestTypeOK
<1>6. ASSUME NEW r \in Requests, CancelThrows(r) PROVE Owned(s)'
  BY <1>0, <1>6, <1>h DEF CancelThrows, RequestTypeOK
<1>7. CASE UNCHANGED requestVars
  BY <1>7, <1>h DEF requestVars
<1> QED
  BY <1>1, <1>2, <1>3, <1>4, <1>5, <1>6, <1>7 DEF RequestNext

\* A request, whoever uses it and whatever its callbacks do, never has two owners
\* of one future: start, cancel and the exceptions out of either keep that.
THEOREM RequestFutureHasOneOwner == RequestSpec => []FutureHasOneOwner
<1>1. RequestInit => RequestInv
  BY RequestInitInv
<1>2. RequestInv /\ [RequestNext]_requestVars => RequestInv'
  BY RequestStepInv
<1>3. RequestInv => FutureHasOneOwner
  BY DEF RequestInv
<1> QED
  BY <1>1, <1>2, <1>3, PTL DEF RequestSpec

-----------------------------------------------------------------------------
(* The component's steps are steps of its requests.                        *)

LEMMA StepIsRequestStep ==
  ASSUME TypeOK, [Next]_vars
  PROVE  [RequestNext]_requestVars
<1>1. ASSUME NEW r \in Requests, CallStart(r) \/ CallCancel(r) \/ Caller(r)
      PROVE  [RequestNext]_requestVars
  <2>1. CASE CallStart(r)
    BY <2>1 DEF CallStart, RequestNext
  <2>2. CASE CallCancel(r)
    BY <2>2 DEF CallCancel, RequestNext
  <2>3. CASE StartCallback(r)
    <3>1. alive \in BOOLEAN /\ StartReturns(r, alive)
      BY <2>3 DEF StartCallback, TypeOK
    <3> QED
      BY <3>1 DEF RequestNext
  <2>4. CASE StartCallbackThrows(r)
    BY <2>4 DEF StartCallbackThrows, RequestNext
  <2>5. CASE CancelRemoves(r)
    BY <2>5 DEF CancelRemoves
  <2>6. CASE CancelDispatches(r)
    BY <2>6 DEF CancelDispatches, RequestNext
  <2>7. CASE CancelCallbackThrows(r)
    BY <2>7 DEF CancelCallbackThrows, RequestNext
  <2>8. CASE CancelCallbackLate(r)
    BY <2>8 DEF CancelCallbackLate, RequestNext
  <2> QED
    BY <1>1, <2>1, <2>2, <2>3, <2>4, <2>5, <2>6, <2>7, <2>8 DEF Caller
<1>2. ASSUME NEW r \in Requests, Calculate(r) \/ CancelTask(r)
      PROVE  UNCHANGED requestVars
  BY <1>2 DEF Calculate, TakeCalculation, EndLoop, ReportThrows, ResetFlag,
              CancelTask, TakeCancel, CancelSetsFlag, CancelWaited
<1>3. CASE StartPool \/ StopPool \/ DropComponent
  BY <1>3 DEF StartPool, StopPool, DropComponent
<1>4. CASE UNCHANGED vars
  BY <1>4 DEF vars
<1> QED
  BY <1>1, <1>2, <1>3, <1>4 DEF Next

-----------------------------------------------------------------------------
(* The component.                                                          *)

\* A calculation exists only after its start callback is used up, a cancel task
\* has a future only of a calculation that left the queue, and the component is
\* not dropped while a cancel callback holds it.
Protocol(r) ==
  /\ m_start_callback[r] => calc[r] = "none" /\ ~task_future[r]
  /\ cancel_task[r] = "removed" => alive /\ (handed[r] => calc[r] # "queued")
  /\ cancel_task[r] \in {"queued", "flag", "wait"} /\ task_future[r] => calc[r] # "queued"

Inv == TypeOK /\ RequestInv /\ \A r \in Requests : Protocol(r)

ComponentTypeOK ==
  /\ threads \in 1..MaxThreads
  /\ pool \in {"unstarted", "open", "stopped"}
  /\ alive \in BOOLEAN
  /\ m_calculate_1_cancelled \in BOOLEAN
  /\ calc \in [Requests -> {"none", "queued", "running", "reset", "settled"}]
  /\ report \in [Requests -> {"none", "completed", "cancelled"}]
  /\ cancel_task \in [Requests -> {"none", "removed", "queued", "flag", "wait", "returned"}]
  /\ task_future \in [Requests -> BOOLEAN]

LEMMA TypeParts ==
  TypeOK <=> /\ RequestTypeOK /\ ComponentTypeOK
             /\ \A r \in Requests : cancel_task[r] = "removed" => calling[r] = "cancel"
BY DEF TypeOK, ComponentTypeOK

LEMMA ComponentStepTyped ==
  ASSUME RequestTypeOK, ComponentTypeOK, [Next]_vars
  PROVE  ComponentTypeOK'
<1> USE DEF ComponentTypeOK, componentVars, calcVars, cancelVars
<1>1. ASSUME NEW r \in Requests, CallStart(r) PROVE ComponentTypeOK'
  BY <1>1 DEF CallStart
<1>2. ASSUME NEW r \in Requests, CallCancel(r) PROVE ComponentTypeOK'
  BY <1>2 DEF CallCancel
<1>3. ASSUME NEW r \in Requests, StartCallback(r) PROVE ComponentTypeOK'
  BY <1>3 DEF StartCallback
<1>4. ASSUME NEW r \in Requests, StartCallbackThrows(r) PROVE ComponentTypeOK'
  BY <1>4 DEF StartCallbackThrows
<1>5. ASSUME NEW r \in Requests, CancelRemoves(r) PROVE ComponentTypeOK'
  BY <1>5 DEF CancelRemoves
<1>6. ASSUME NEW r \in Requests, CancelDispatches(r) PROVE ComponentTypeOK'
  <2>1. handed[r] \in BOOLEAN
    BY DEF RequestTypeOK
  <2> QED
    BY <1>6, <2>1 DEF CancelDispatches
<1>7. ASSUME NEW r \in Requests, CancelCallbackThrows(r) PROVE ComponentTypeOK'
  BY <1>7 DEF CancelCallbackThrows
<1>8. ASSUME NEW r \in Requests, CancelCallbackLate(r) PROVE ComponentTypeOK'
  BY <1>8 DEF CancelCallbackLate
<1>9. ASSUME NEW r \in Requests, TakeCalculation(r) PROVE ComponentTypeOK'
  BY <1>9 DEF TakeCalculation
<1>10. ASSUME NEW r \in Requests, EndLoop(r) PROVE ComponentTypeOK'
  BY <1>10 DEF EndLoop
<1>11. ASSUME NEW r \in Requests, ReportThrows(r) PROVE ComponentTypeOK'
  BY <1>11 DEF ReportThrows
<1>12. ASSUME NEW r \in Requests, ResetFlag(r) PROVE ComponentTypeOK'
  BY <1>12 DEF ResetFlag
<1>13. ASSUME NEW r \in Requests, TakeCancel(r) PROVE ComponentTypeOK'
  BY <1>13 DEF TakeCancel
<1>14. ASSUME NEW r \in Requests, CancelSetsFlag(r) PROVE ComponentTypeOK'
  BY <1>14 DEF CancelSetsFlag
<1>15. ASSUME NEW r \in Requests, CancelWaited(r) PROVE ComponentTypeOK'
  BY <1>15 DEF CancelWaited
<1>16. CASE StartPool
  BY <1>16 DEF StartPool
<1>17. CASE StopPool
  BY <1>17 DEF StopPool
<1>18. CASE DropComponent
  BY <1>18 DEF DropComponent
<1>19. CASE UNCHANGED vars
  BY <1>19 DEF vars
<1> QED
  BY <1>1, <1>2, <1>3, <1>4, <1>5, <1>6, <1>7, <1>8, <1>9, <1>10, <1>11, <1>12, <1>13, <1>14,
     <1>15, <1>16, <1>17, <1>18, <1>19
     DEF Next, Caller, Calculate, CancelTask

LEMMA RemovedWhileCancelling ==
  ASSUME Inv, [Next]_vars, NEW s \in Requests
  PROVE  cancel_task'[s] = "removed" => calling'[s] = "cancel"
<1> USE DEF componentVars, calcVars, cancelVars
<1>h. /\ cancel_task[s] = "removed" => calling[s] = "cancel" /\ alive
      /\ calling \in [Requests -> {"none", "start", "cancel"}]
      /\ cancel_task \in [Requests -> {"none", "removed", "queued", "flag", "wait", "returned"}]
  BY DEF Inv, TypeOK, RequestTypeOK, Protocol
<1> DEFINE Goal == cancel_task'[s] = "removed" => calling'[s] = "cancel"
<1>1. ASSUME NEW r \in Requests, CallStart(r) PROVE Goal
  BY <1>1, <1>h DEF CallStart, EnterStart
<1>2. ASSUME NEW r \in Requests, CallCancel(r) PROVE Goal
  BY <1>2, <1>h DEF CallCancel, EnterCancel
<1>3. ASSUME NEW r \in Requests, StartCallback(r) PROVE Goal
  BY <1>3, <1>h DEF StartCallback, StartReturns
<1>4. ASSUME NEW r \in Requests, StartCallbackThrows(r) PROVE Goal
  BY <1>4, <1>h DEF StartCallbackThrows, StartThrows
<1>5. ASSUME NEW r \in Requests, CancelRemoves(r) PROVE Goal
  BY <1>5, <1>h DEF CancelRemoves, requestVars
<1>6. ASSUME NEW r \in Requests, CancelDispatches(r) PROVE Goal
  BY <1>6, <1>h DEF CancelDispatches, CancelReturns
<1>7. ASSUME NEW r \in Requests, CancelCallbackThrows(r) PROVE Goal
  BY <1>7, <1>h DEF CancelCallbackThrows, CancelThrows
<1>8. ASSUME NEW r \in Requests, CancelCallbackLate(r) PROVE Goal
  BY <1>8, <1>h DEF CancelCallbackLate, CancelReturns
<1>9. ASSUME NEW r \in Requests, TakeCalculation(r) PROVE Goal
  BY <1>9, <1>h DEF TakeCalculation, requestVars
<1>10. ASSUME NEW r \in Requests, EndLoop(r) PROVE Goal
  BY <1>10, <1>h DEF EndLoop, requestVars
<1>11. ASSUME NEW r \in Requests, ReportThrows(r) PROVE Goal
  BY <1>11, <1>h DEF ReportThrows, requestVars
<1>12. ASSUME NEW r \in Requests, ResetFlag(r) PROVE Goal
  BY <1>12, <1>h DEF ResetFlag, requestVars
<1>13. ASSUME NEW r \in Requests, TakeCancel(r) PROVE Goal
  BY <1>13, <1>h DEF TakeCancel, requestVars
<1>14. ASSUME NEW r \in Requests, CancelSetsFlag(r) PROVE Goal
  BY <1>14, <1>h DEF CancelSetsFlag, requestVars
<1>15. ASSUME NEW r \in Requests, CancelWaited(r) PROVE Goal
  BY <1>15, <1>h DEF CancelWaited, requestVars
<1>16. CASE StartPool
  BY <1>16, <1>h DEF StartPool, requestVars
<1>17. CASE StopPool
  BY <1>17, <1>h DEF StopPool, requestVars
<1>18. CASE DropComponent
  BY <1>18, <1>h DEF DropComponent, requestVars
<1>19. CASE UNCHANGED vars
  BY <1>19, <1>h DEF vars, requestVars
<1> QED
  BY <1>1, <1>2, <1>3, <1>4, <1>5, <1>6, <1>7, <1>8, <1>9, <1>10, <1>11, <1>12, <1>13, <1>14,
     <1>15, <1>16, <1>17, <1>18, <1>19
     DEF Next, Caller, Calculate, CancelTask

LEMMA StepProtocol ==
  ASSUME Inv, [Next]_vars, NEW s \in Requests
  PROVE  Protocol(s)'
<1> USE DEF componentVars, calcVars, cancelVars, Protocol
<1>t. TypeOK
  BY DEF Inv
<1>h. /\ Protocol(s)
      /\ cancel_task[s] = "removed" => calling[s] = "cancel"
      /\ handed[s] => ~m_start_callback[s]
      /\ m_future[s] => ~m_start_callback[s]
  BY DEF Inv, TypeOK, RequestInv, FutureHasOneOwner
<1>1. ASSUME NEW r \in Requests, CallStart(r) PROVE Protocol(s)'
  BY <1>1, <1>t, <1>h DEF CallStart, EnterStart, TypeOK, RequestTypeOK
<1>2. ASSUME NEW r \in Requests, CallCancel(r) PROVE Protocol(s)'
  BY <1>2, <1>t, <1>h DEF CallCancel, EnterCancel, TypeOK, RequestTypeOK
<1>3. ASSUME NEW r \in Requests, StartCallback(r) PROVE Protocol(s)'
  BY <1>3, <1>t, <1>h DEF StartCallback, StartReturns, TypeOK, RequestTypeOK
<1>4. ASSUME NEW r \in Requests, StartCallbackThrows(r) PROVE Protocol(s)'
  BY <1>4, <1>t, <1>h DEF StartCallbackThrows, StartThrows, TypeOK, RequestTypeOK
<1>5. ASSUME NEW r \in Requests, CancelRemoves(r) PROVE Protocol(s)'
  BY <1>5, <1>t, <1>h DEF CancelRemoves, requestVars, TypeOK, RequestTypeOK
<1>6. ASSUME NEW r \in Requests, CancelDispatches(r) PROVE Protocol(s)'
  BY <1>6, <1>t, <1>h DEF CancelDispatches, CancelReturns, TypeOK, RequestTypeOK
<1>7. ASSUME NEW r \in Requests, CancelCallbackThrows(r) PROVE Protocol(s)'
  BY <1>7, <1>t, <1>h DEF CancelCallbackThrows, CancelThrows, TypeOK, RequestTypeOK
<1>8. ASSUME NEW r \in Requests, CancelCallbackLate(r) PROVE Protocol(s)'
  BY <1>8, <1>t, <1>h DEF CancelCallbackLate, CancelReturns, TypeOK, RequestTypeOK
<1>9. ASSUME NEW r \in Requests, TakeCalculation(r) PROVE Protocol(s)'
  BY <1>9, <1>t, <1>h DEF TakeCalculation, requestVars, TypeOK, RequestTypeOK
<1>10. ASSUME NEW r \in Requests, EndLoop(r) PROVE Protocol(s)'
  BY <1>10, <1>t, <1>h DEF EndLoop, requestVars, TypeOK, RequestTypeOK
<1>11. ASSUME NEW r \in Requests, ReportThrows(r) PROVE Protocol(s)'
  BY <1>11, <1>t, <1>h DEF ReportThrows, requestVars, TypeOK, RequestTypeOK
<1>12. ASSUME NEW r \in Requests, ResetFlag(r) PROVE Protocol(s)'
  BY <1>12, <1>t, <1>h DEF ResetFlag, requestVars, TypeOK, RequestTypeOK
<1>13. ASSUME NEW r \in Requests, TakeCancel(r) PROVE Protocol(s)'
  BY <1>13, <1>t, <1>h DEF TakeCancel, requestVars, TypeOK, RequestTypeOK
<1>14. ASSUME NEW r \in Requests, CancelSetsFlag(r) PROVE Protocol(s)'
  BY <1>14, <1>t, <1>h DEF CancelSetsFlag, requestVars, TypeOK, RequestTypeOK
<1>15. ASSUME NEW r \in Requests, CancelWaited(r) PROVE Protocol(s)'
  BY <1>15, <1>t, <1>h DEF CancelWaited, requestVars, TypeOK, RequestTypeOK
<1>16. CASE StartPool
  BY <1>16, <1>t, <1>h DEF StartPool, requestVars, TypeOK, RequestTypeOK
<1>17. CASE StopPool
  BY <1>17, <1>t, <1>h DEF StopPool, requestVars, TypeOK, RequestTypeOK
<1>18. CASE DropComponent
  BY <1>18, <1>t, <1>h DEF DropComponent, requestVars, TypeOK, RequestTypeOK
<1>19. CASE UNCHANGED vars
  BY <1>19, <1>h DEF vars, requestVars
<1> QED
  BY <1>1, <1>2, <1>3, <1>4, <1>5, <1>6, <1>7, <1>8, <1>9, <1>10, <1>11, <1>12, <1>13, <1>14,
     <1>15, <1>16, <1>17, <1>18, <1>19
     DEF Next, Caller, Calculate, CancelTask

THEOREM CalculationInvariants == Spec => []Inv
<1>1. Init => Inv
  <2> SUFFICES ASSUME Init PROVE Inv
    OBVIOUS
  <2>1. RequestInv
    BY RequestInitInv DEF Init
  <2>2. ComponentTypeOK
    BY CalculationAssumption DEF Init, ComponentTypeOK
  <2>3. \A r \in Requests : Protocol(r) /\ cancel_task[r] # "removed"
    BY DEF Init, Protocol
  <2> QED
    BY <2>1, <2>2, <2>3, TypeParts DEF Inv, RequestInv
<1>2. Inv /\ [Next]_vars => Inv'
  <2> SUFFICES ASSUME Inv, [Next]_vars PROVE Inv'
    OBVIOUS
  <2>1. RequestInv'
    BY StepIsRequestStep, RequestStepInv DEF Inv
  <2>2. ComponentTypeOK'
    BY ComponentStepTyped, TypeParts DEF Inv
  <2>3. \A r \in Requests : Protocol(r)'
    BY StepProtocol
  <2>4. \A r \in Requests : cancel_task'[r] = "removed" => calling'[r] = "cancel"
    BY RemovedWhileCancelling
  <2>5. TypeOK'
    BY <2>1, <2>2, <2>4 DEF TypeOK, ComponentTypeOK, RequestInv
  <2> QED
    BY <2>1, <2>3, <2>5 DEF Inv
<1> QED
  BY <1>1, <1>2, PTL DEF Spec

\* The component and the pool of its tasks have the types of the model.
THEOREM CalculationTypeCorrect == Spec => []TypeOK
BY CalculationInvariants, PTL DEF Inv

\* The component uses its requests by their protocol, so what holds of requests
\* holds of its own.
THEOREM ComponentUsesRequests == Spec => RequestSpec
<1>1. Init => RequestInit
  BY DEF Init
<1>2. Inv /\ [Next]_vars => [RequestNext]_requestVars
  BY StepIsRequestStep DEF Inv
<1> QED
  BY <1>1, <1>2, CalculationInvariants, PTL DEF Spec, RequestSpec

\* Of a calculation's future there is one owner: the request, or its cancel
\* callback.
THEOREM CalculationFutureHasOneOwner == Spec => []FutureHasOneOwner
BY ComponentUsesRequests, RequestFutureHasOneOwner, PTL

\* The cancel task, which occupies a thread of the pool while it waits, waits
\* only for a calculation that is not in the queue: schedule_cancel_calculation_1
\* removes it there before it dispatches the task.
THEOREM CancelTaskNeedsNoThread == Spec => []CancelWaitsForNoQueuedTask
<1>1. Inv => CancelWaitsForNoQueuedTask
  BY DEF Inv, Protocol, CancelWaitsForNoQueuedTask
<1> QED
  BY <1>1, CalculationInvariants, PTL

\* A request's calculation is dispatched once: by the call of the start callback
\* that uses it up.
THEOREM CalculationStartedOnce == Spec => NeverStartedAgain
<1>1. ASSUME Inv, [Next]_vars, NEW s \in Requests, calc'[s] = "queued", calc[s] # "queued"
      PROVE  calc[s] = "none"
  <2> USE DEF componentVars, calcVars
  <2>1. calc \in [Requests -> {"none", "queued", "running", "reset", "settled"}]
    BY <1>1 DEF Inv, TypeOK
  <2>2. PICK r \in Requests : StartCallback(r) /\ r = s
    <3>1. ASSUME NEW r \in Requests, CancelRemoves(r) \/ Calculate(r) PROVE FALSE
      BY <1>1, <2>1, <3>1 DEF CancelRemoves, Calculate, TakeCalculation, EndLoop,
                              ReportThrows, ResetFlag
    <3>2. ASSUME NEW r \in Requests, StartCallback(r), r # s PROVE FALSE
      BY <1>1, <2>1, <3>2 DEF StartCallback
    <3>3. ASSUME calc' = calc PROVE FALSE
      BY <1>1, <3>3
    <3> QED
      BY <1>1, <3>1, <3>2, <3>3
         DEF Next, Caller, CallStart, CallCancel, StartCallbackThrows, CancelDispatches,
             CancelCallbackThrows, CancelCallbackLate, CancelTask, TakeCancel,
             CancelSetsFlag, CancelWaited, StartPool, StopPool, DropComponent, vars
  <2> QED
    BY <1>1, <2>2 DEF StartCallback, StartReturns, Inv, Protocol
<1>2. Inv /\ [Next]_vars =>
        [\A r \in Requests : calc'[r] = "queued" /\ calc[r] # "queued" => calc[r] = "none"]_vars
  BY <1>1
<1> QED
  BY <1>2, CalculationInvariants, PTL DEF Spec, NeverStartedAgain
=============================================================================
