----------------------------- MODULE TaskService -----------------------------
(***************************************************************************)
(* What a thread pool promises to those who hand tasks to it, without      *)
(* threads, queue or clock: an accepted task is run once or cancelled,     *)
(* nothing is accepted once the service is shut down, and when it halts    *)
(* nothing it has accepted is left.                                        *)
(***************************************************************************)
CONSTANT Tasks

VARIABLES
  status,  \* per task
  open,    \* tasks are accepted
  halted   \* stop has returned

serviceVars == <<status, open, halted>>

Status == {"new", "accepted", "running", "finished", "cancelled"}

Init ==
  /\ status = [t \in Tasks |-> "new"]
  /\ open = TRUE
  /\ halted = FALSE

Change(t, from, to) ==
  /\ status[t] = from
  /\ status' = [status EXCEPT ![t] = to]
  /\ UNCHANGED <<open, halted>>

Accept(t) == open /\ Change(t, "new", "accepted")

Begin(t) == ~halted /\ Change(t, "accepted", "running")

End(t) == Change(t, "running", "finished")

Cancel(S) ==
  /\ \A t \in S : status[t] = "accepted"
  /\ status' = [t \in Tasks |-> IF t \in S THEN "cancelled" ELSE status[t]]
  /\ UNCHANGED <<open, halted>>

Shutdown ==
  /\ open' = FALSE
  /\ UNCHANGED <<status, halted>>

Halt ==
  /\ ~open
  /\ \A t \in Tasks : status[t] \notin {"accepted", "running"}
  /\ halted' = TRUE
  /\ UNCHANGED <<status, open>>

\* Started again: the service still accepts nothing.
Resume ==
  /\ halted' = FALSE
  /\ UNCHANGED <<status, open>>

Next ==
  \/ \E t \in Tasks : Accept(t) \/ Begin(t) \/ End(t)
  \/ \E S \in SUBSET Tasks : Cancel(S)
  \/ Shutdown
  \/ Halt
  \/ Resume

Spec == Init /\ [][Next]_serviceVars
=============================================================================
