--------------------------- MODULE PollEngineProofs ---------------------------
(***************************************************************************)
(* The engine, for any number of threads, starts and request ids.          *)
(*                                                                         *)
(* A step either starts one chain or makes no more of them: Chains, the    *)
(* sum of three cardinalities, is followed through every step. The rest    *)
(* of Inv says what a single chain, a stopped engine and a running engine  *)
(* look like in the middle of a call.                                      *)
(***************************************************************************)
EXTENDS PollEngine, FiniteSetTheorems, TLAPS

USE DEF engineVars, threadVars, historyVars

-----------------------------------------------------------------------------
\* The owner polls nothing, and a worker calls start and stop out of its callback.
Nesting ==
  /\ ~nested[Owner]
  /\ pc[Owner] \notin {"test", "call", "callback"}
  /\ \A w \in Workers :
       /\ nested[w] => InRun(w) \/ InStop(w)
       /\ InStop(w) => nested[w]

\* A poll is dispatched with an id, and no queued poll is the same pair. An id
\* that was read is forgotten when the call returns.
Identified ==
  \A t \in Threads :
    /\ loaded[t] # NoId => pc[t] \in {"dispatch", "stop_cancel"}
    /\ pc[t] = "load" => m_poll_request_id # NoId /\ <<m_poll_request_id, t>> \notin pending
    /\ pc[t] = "dispatch" => loaded[t] # NoId /\ <<loaded[t], t>> \notin pending

\* The poll of a single chain is queued, or about to be, under the latest id.
UnderLatestId ==
  ~doubled =>
    /\ \A t \in Threads : pc[t] = "dispatch" => loaded[t] = m_poll_request_id
    /\ \A p \in pending : p[1] = m_poll_request_id

\* After stop, the callbacks that were called and those still to come.
Past == {w \in Workers : pc[w] = "call"}
CallbacksLeft ==
  IF m_running THEN late = 0
  ELSE late + Cardinality(Past) <= Cardinality(Workers) /\ late + Cardinality(Past) <= starts

\* No stop is at work on an engine that runs, unless it met a start.
StopsAreOver == m_running /\ ~raced => \A t \in Threads : ~InStop(t)

Inv ==
  /\ TypeOK /\ Nesting /\ Identified
  /\ OneChainPerStart /\ UnderLatestId
  /\ CallbacksLeft
  /\ StopsAreOver /\ RunningMeansPolling

-----------------------------------------------------------------------------
(* Facts about the operators of the model.                                 *)

LEMMA Finite ==
  /\ IsFiniteSet(Workers) /\ Cardinality(Workers) \in Nat
  /\ IsFiniteSet(Threads) /\ IsFiniteSet(Polls)
<1>1. IsFiniteSet(Workers) /\ Cardinality(Workers) \in Nat
  BY PollEngineAssumption, FS_CardinalityType
<1>2. IsFiniteSet(Threads)
  BY <1>1, FS_AddElement DEF Threads
<1>3. IsFiniteSet(Ids)
  BY PollEngineAssumption, FS_Interval DEF Ids
<1> QED
  BY <1>1, <1>2, <1>3, FS_Product DEF Polls

\* The two kinds of chain that are not queued.
Polling == {w \in Workers : InPoll(w)}
Starting == {t \in Threads : InRun(t) /\ (t = Owner \/ nested[t])}

Counted ==
  /\ Chains = Cardinality(pending) + Cardinality(Polling) + Cardinality(Starting)
  /\ IsFiniteSet(pending) /\ Cardinality(pending) \in Nat
  /\ IsFiniteSet(Polling) /\ Cardinality(Polling) \in Nat
  /\ IsFiniteSet(Starting) /\ Cardinality(Starting) \in Nat
  /\ Chains \in Nat

LEMMA Counts == TypeOK => Counted
<1> SUFFICES ASSUME TypeOK
             PROVE  Counted
  OBVIOUS
<1>1. Chains = Cardinality(pending) + Cardinality(Polling) + Cardinality(Starting)
  BY DEF Chains, Polling, Starting
<1>2. pending \in SUBSET Polls /\ Polling \in SUBSET Workers /\ Starting \in SUBSET Threads
  BY DEF TypeOK, Polling, Starting
<1>3. IsFiniteSet(pending) /\ IsFiniteSet(Polling) /\ IsFiniteSet(Starting)
  BY <1>2, Finite, FS_Subset
<1>4. /\ Cardinality(pending) \in Nat /\ Cardinality(Polling) \in Nat
      /\ Cardinality(Starting) \in Nat
  BY <1>3, FS_CardinalityType
<1> QED
  BY <1>1, <1>3, <1>4 DEF Counted

LEMMA CountsNext == TypeOK' => Counted'
BY Counts, PTL

LEMMA FreshIdFacts ==
  ASSUME FreshIds # {}
  PROVE  /\ FreshId \in Ids /\ FreshId # m_poll_request_id
         /\ \A p \in pending : p[1] # FreshId
BY DEF FreshIds, FreshId

LEMMA OwnerIsNoWorker == Owner \in Threads /\ Owner \notin Workers /\ Workers \subseteq Threads
                           /\ \A t \in Threads : t = Owner \/ t \in Workers
BY PollEngineAssumption DEF Threads

Labels == {"idle", "store", "load", "dispatch", "stop_load", "stop_cancel",
           "test", "call", "callback"}

\* The labels of the threads after a step that moves one of them.
LEMMA GotoFacts ==
  ASSUME TypeOK, NEW t \in Threads, NEW label, Goto(t, label)
  PROVE  /\ pc'[t] = label
         /\ \A u \in Threads \ {t} : pc'[u] = pc[u]
         /\ label \in Labels => pc' \in [Threads -> Labels]
BY DEF TypeOK, Goto, Labels

LEMMA ReturnFacts ==
  ASSUME TypeOK, NEW t \in Threads, Returns(t)
  PROVE  /\ pc'[t] = IF nested[t] THEN "callback" ELSE "idle"
         /\ \A u \in Threads \ {t} : pc'[u] = pc[u]
         /\ pc' \in [Threads -> Labels]
         /\ ~nested'[t] /\ loaded'[t] = NoId
         /\ \A u \in Threads \ {t} : nested'[u] = nested[u] /\ loaded'[u] = loaded[u]
         /\ nested' \in [Threads -> BOOLEAN]
         /\ loaded' \in [Threads -> Ids \cup {NoId}]
BY DEF TypeOK, Returns, Back, Labels

\* A call of start or stop is made by the owner, or out of the callback.
LEMMA CallFacts ==
  ASSUME TypeOK, NEW t \in Threads, NEW label \in {"store", "stop_load"}, Calls(t, label)
  PROVE  /\ pc[t] = IF t = Owner THEN "idle" ELSE "callback"
         /\ pc'[t] = label /\ nested'[t] = (t # Owner)
         /\ \A u \in Threads \ {t} : pc'[u] = pc[u] /\ nested'[u] = nested[u]
         /\ pc' \in [Threads -> Labels]
         /\ nested' \in [Threads -> BOOLEAN]
BY GotoFacts DEF TypeOK, Calls, MayCall, Labels

\* The steps, each by the thread that takes it.
Ends(w) == TestRunning(w) \/ BeginCallback(w) \/ EndCallback(w) \/ CallbackThrows(w)

LEMMA Steps ==
  ASSUME [Next]_vars
  PROVE  \/ \E t \in Threads :
              \/ Start(t) \/ Stop(t) \/ StopLoads(t) \/ StopCancels(t)
              \/ StoreId(t) \/ LoadId(t) \/ Dispatch(t) \/ DispatchThrows(t)
         \/ \E w \in Workers : Take(w) \/ Ends(w)
         \/ ClosePool \/ UNCHANGED vars
BY DEF Next, Call, Poll, Ends

-----------------------------------------------------------------------------
(* The type invariant.                                                     *)

LEMMA StepTyped ==
  ASSUME TypeOK, Identified, [Next]_vars
  PROVE  TypeOK'
<1>t. /\ Cardinality(Workers) \in Nat /\ MaxStarts \in Nat
      /\ Workers \subseteq Threads
  BY Finite, PollEngineAssumption, OwnerIsNoWorker
<1> USE DEF TypeOK
<1>1. ASSUME NEW t \in Threads, Start(t)
      PROVE  TypeOK'
  <2>1. starts' \in 0..MaxStarts
    BY <1>1, <1>t DEF Start
  <2>2. pc' \in [Threads -> Labels] /\ nested' \in [Threads -> BOOLEAN]
    BY <1>1, CallFacts DEF Start
  <2>3. late' \in 0..Cardinality(Workers) + 1
    BY <1>1, <1>t DEF Start
  <2>4. doubled' \in BOOLEAN /\ failed' \in BOOLEAN /\ m_running' \in BOOLEAN
    <3>1. (Chains > 0) \in BOOLEAN
      BY Counts DEF Counted
    <3> QED
      BY <1>1, <3>1 DEF Start
  <2>6. raced' \in BOOLEAN
    BY <1>1 DEF Start
  <2>5. UNCHANGED <<m_poll_request_id, pending, open, loaded>>
    BY <1>1 DEF Start
  <2> QED
    BY <2>1, <2>2, <2>3, <2>4, <2>5, <2>6 DEF Labels
<1>2. ASSUME NEW t \in Threads, Stop(t)
      PROVE  TypeOK'
  <2>1. pc' \in [Threads -> Labels] /\ nested' \in [Threads -> BOOLEAN]
    BY <1>2, CallFacts DEF Stop
  <2>2. late' \in 0..Cardinality(Workers) + 1
    BY <1>2, <1>t DEF Stop
  <2>3. raced' \in BOOLEAN /\ m_running' \in BOOLEAN
    BY <1>2 DEF Stop
  <2>4. UNCHANGED <<m_poll_request_id, pending, open, loaded, starts, doubled, failed>>
    BY <1>2 DEF Stop
  <2> QED
    BY <2>1, <2>2, <2>3, <2>4 DEF Labels
<1>3. ASSUME NEW t \in Threads, StopLoads(t)
      PROVE  TypeOK'
  BY <1>3, GotoFacts DEF StopLoads, Labels
<1>4. ASSUME NEW t \in Threads, StopCancels(t)
      PROVE  TypeOK'
  BY <1>4, ReturnFacts DEF StopCancels, Labels
<1>5. ASSUME NEW t \in Threads, StoreId(t)
      PROVE  TypeOK'
  BY <1>5, GotoFacts, FreshIdFacts DEF StoreId, Labels
<1>6. ASSUME NEW t \in Threads, LoadId(t)
      PROVE  TypeOK'
  BY <1>6, GotoFacts DEF LoadId, Labels
<1>7. ASSUME NEW t \in Threads, Dispatch(t)
      PROVE  TypeOK'
  <2>1. <<loaded[t], t>> \in Polls
    BY <1>7 DEF Dispatch, Identified, Polls
  <2> QED
    BY <1>7, <2>1, ReturnFacts DEF Dispatch, Labels
<1>8. ASSUME NEW t \in Threads, DispatchThrows(t)
      PROVE  TypeOK'
  BY <1>8, ReturnFacts DEF DispatchThrows, Labels
<1>9. ASSUME NEW w \in Workers, Take(w)
      PROVE  TypeOK'
  BY <1>9, <1>t, GotoFacts DEF Take, Labels
<1>10. ASSUME NEW w \in Workers, Ends(w)
       PROVE  TypeOK'
  <2>1. AtMost(late + 1) \in 0..Cardinality(Workers) + 1
    BY <1>t DEF AtMost
  <2> QED
    BY <1>10, <1>t, <2>1, GotoFacts
       DEF Ends, TestRunning, BeginCallback, EndCallback, CallbackThrows, Labels
<1>11. CASE ClosePool
  BY <1>11 DEF ClosePool
<1>12. CASE UNCHANGED vars
  BY <1>12 DEF vars
<1> QED
  BY <1>1, <1>2, <1>3, <1>4, <1>5, <1>6, <1>7, <1>8, <1>9, <1>10, <1>11, <1>12, Steps

-----------------------------------------------------------------------------
(* Where the threads are, and which ids they hold.                         *)

LEMMA StepNesting ==
  ASSUME TypeOK, Nesting, [Next]_vars
  PROVE  Nesting'
<1> USE OwnerIsNoWorker DEF Nesting, InRun, InStop
<1>1. ASSUME NEW t \in Threads, Start(t) \/ Stop(t)
      PROVE  Nesting'
  <2>1. CASE Start(t)
    BY <2>1, CallFacts DEF Start
  <2>2. CASE Stop(t)
    BY <2>2, CallFacts DEF Stop
  <2> QED
    BY <1>1, <2>1, <2>2
<1>2. ASSUME NEW t \in Threads, StopLoads(t) \/ StoreId(t) \/ LoadId(t)
      PROVE  Nesting'
  <2>1. nested' = nested /\ \A u \in Threads \ {t} : pc'[u] = pc[u]
    BY <1>2, GotoFacts DEF StopLoads, StoreId, LoadId
  <2>2. \/ pc[t] = "stop_load" /\ pc'[t] = "stop_cancel"
        \/ pc[t] = "store" /\ pc'[t] = "load"
        \/ pc[t] = "load" /\ pc'[t] = "dispatch"
    BY <1>2, GotoFacts DEF StopLoads, StoreId, LoadId
  <2> QED
    BY <2>1, <2>2
<1>3. ASSUME NEW t \in Threads, StopCancels(t) \/ Dispatch(t) \/ DispatchThrows(t)
      PROVE  Nesting'
  <2>1. Returns(t)
    BY <1>3 DEF StopCancels, Dispatch, DispatchThrows
  <2> QED
    BY <2>1, ReturnFacts
<1>4. ASSUME NEW w \in Workers, Take(w) \/ Ends(w)
      PROVE  Nesting'
  <2>1. nested' = nested /\ \A u \in Threads \ {w} : pc'[u] = pc[u]
    BY <1>4, GotoFacts DEF Take, Ends, TestRunning, BeginCallback, EndCallback, CallbackThrows
  <2>2. /\ pc[w] \in {"idle", "test", "call"} \/ (pc[w] = "callback" /\ ~nested[w])
        /\ pc'[w] \in {"test", "call", "callback", "store", "idle"}
    BY <1>4, GotoFacts DEF Take, Ends, TestRunning, BeginCallback, EndCallback, CallbackThrows
  <2> QED
    BY <2>1, <2>2
<1>5. CASE ClosePool
  BY <1>5 DEF ClosePool
<1>6. CASE UNCHANGED vars
  BY <1>6 DEF vars
<1> QED
  BY <1>1, <1>2, <1>3, <1>4, <1>5, <1>6, Steps

LEMMA StepIdentified ==
  ASSUME TypeOK, Identified, [Next]_vars
  PROVE  Identified'
<1> USE OwnerIsNoWorker DEF Identified
<1>1. ASSUME NEW t \in Threads, Start(t) \/ Stop(t)
      PROVE  Identified'
  <2>1. CASE Start(t)
    BY <2>1, CallFacts DEF Start
  <2>2. CASE Stop(t)
    BY <2>2, CallFacts DEF Stop
  <2> QED
    BY <1>1, <2>1, <2>2
<1>2. ASSUME NEW t \in Threads, StopLoads(t)
      PROVE  Identified'
  BY <1>2, GotoFacts DEF StopLoads, TypeOK
<1>3. ASSUME NEW t \in Threads, StopCancels(t) \/ DispatchThrows(t)
      PROVE  Identified'
  <2>1. Returns(t) /\ pending' \subseteq pending /\ UNCHANGED m_poll_request_id
    BY <1>3 DEF StopCancels, DispatchThrows
  <2> QED
    BY <2>1, ReturnFacts
<1>4. ASSUME NEW t \in Threads, StoreId(t)
      PROVE  Identified'
  <2>1. /\ m_poll_request_id' # NoId
        /\ \A u \in Threads : <<m_poll_request_id', u>> \notin pending
    BY <1>4, FreshIdFacts, PollEngineAssumption DEF StoreId, Ids, NoId
  <2>2. /\ UNCHANGED <<pending, loaded>> /\ pc[t] = "store" /\ pc'[t] = "load"
        /\ \A u \in Threads \ {t} : pc'[u] = pc[u]
    BY <1>4, GotoFacts DEF StoreId
  <2> QED
    BY <2>1, <2>2
<1>5. ASSUME NEW t \in Threads, LoadId(t)
      PROVE  Identified'
  BY <1>5, GotoFacts DEF LoadId, TypeOK
<1>6. ASSUME NEW t \in Threads, Dispatch(t)
      PROVE  Identified'
  <2>1. /\ pending' = pending \cup {<<loaded[t], t>>}
        /\ Returns(t) /\ UNCHANGED m_poll_request_id
    BY <1>6 DEF Dispatch
  <2>2. ASSUME NEW u \in Threads \ {t}, NEW id
        PROVE  <<id, u>> \in pending' <=> <<id, u>> \in pending
    BY <2>1
  <2>3. /\ pc'[t] \in {"callback", "idle"} /\ loaded'[t] = NoId
        /\ \A u \in Threads \ {t} : pc'[u] = pc[u] /\ loaded'[u] = loaded[u]
    BY <2>1, ReturnFacts
  <2> QED
    BY <2>1, <2>2, <2>3
<1>7. ASSUME NEW w \in Workers, Take(w) \/ Ends(w)
      PROVE  Identified'
  <2>1. /\ pending' \subseteq pending /\ UNCHANGED <<m_poll_request_id, loaded>>
        /\ \A u \in Threads \ {w} : pc'[u] = pc[u]
        /\ pc[w] \in {"test", "call", "callback", "idle"}
        /\ pc'[w] \in {"test", "call", "callback", "store", "idle"}
    BY <1>7, GotoFacts DEF Take, Ends, TestRunning, BeginCallback, EndCallback, CallbackThrows
  <2> QED
    BY <2>1
<1>8. CASE ClosePool
  BY <1>8 DEF ClosePool
<1>9. CASE UNCHANGED vars
  BY <1>9 DEF vars
<1> QED
  BY <1>1, <1>2, <1>3, <1>4, <1>5, <1>6, <1>7, <1>8, <1>9, Steps

-----------------------------------------------------------------------------
(* How many chains there are.                                              *)

LEMMA ChainsShrink ==
  ASSUME TypeOK, TypeOK',
         pending' \subseteq pending, Polling' \subseteq Polling, Starting' \subseteq Starting
  PROVE  Chains' <= Chains
<1>1. Counted /\ Counted'
  BY Counts, CountsNext
<1>2. /\ Cardinality(pending') <= Cardinality(pending)
      /\ Cardinality(Polling') <= Cardinality(Polling)
      /\ Cardinality(Starting') <= Cardinality(Starting)
  BY <1>1, FS_Subset DEF Counted
<1> QED
  BY <1>1, <1>2 DEF Counted

LEMMA StartAddsChain ==
  ASSUME TypeOK, TypeOK', Nesting, NEW t \in Threads, Start(t)
  PROVE  /\ Chains' = Chains + 1 /\ starts' = starts + 1
         /\ ~doubled' => Chains = 0
<1> USE OwnerIsNoWorker
<1>1. Counted /\ Counted'
  BY Counts, CountsNext
<1>2. /\ pc[t] = IF t = Owner THEN "idle" ELSE "callback"
      /\ pc'[t] = "store" /\ nested'[t] = (t # Owner)
      /\ \A u \in Threads \ {t} : pc'[u] = pc[u] /\ nested'[u] = nested[u]
  BY CallFacts DEF Start
<1>3. pending' = pending
  BY DEF Start
<1>4. Polling' = Polling
  BY <1>2 DEF Polling, InPoll
<1>5. Starting' = Starting \cup {t} /\ t \notin Starting
  BY <1>2 DEF Starting, InRun
<1>6. Cardinality(Starting') = Cardinality(Starting) + 1
  BY <1>1, <1>5, FS_AddElement DEF Counted
<1>7. starts' = starts + 1 /\ (~doubled' => Chains = 0)
  <2>1. doubled' = (Chains > 0) /\ starts' = starts + 1
    BY DEF Start
  <2>2. (Chains > 0) = TRUE \/ Chains = 0
    BY <1>1 DEF Counted
  <2> QED
    BY <2>1, <2>2
<1> QED
  BY <1>1, <1>3, <1>4, <1>6, <1>7 DEF Counted

LEMMA DispatchKeepsChains ==
  ASSUME TypeOK, TypeOK', NEW t \in Threads, Dispatch(t)
  PROVE  Chains' <= Chains
<1> USE OwnerIsNoWorker
<1>1. Counted /\ Counted'
  BY Counts, CountsNext
<1>2. Cardinality(pending') <= Cardinality(pending) + 1
  <2>1. PICK p : p = <<loaded[t], t>>
    OBVIOUS
  <2>2. pending' = pending \cup {p}
    BY <2>1 DEF Dispatch
  <2>3. \/ Cardinality(pending \cup {p}) = Cardinality(pending)
        \/ Cardinality(pending \cup {p}) = Cardinality(pending) + 1
    BY <1>1, FS_AddElement DEF Counted
  <2> QED
    BY <1>1, <2>2, <2>3 DEF Counted
<1>3. /\ pc[t] = "dispatch" /\ nested \in [Threads -> BOOLEAN]
      /\ pc'[t] = IF nested[t] THEN "callback" ELSE "idle"
      /\ \A u \in Threads \ {t} : pc'[u] = pc[u] /\ nested'[u] = nested[u]
  BY ReturnFacts DEF Dispatch, TypeOK
<1>4. CASE t = Owner \/ nested[t]
  <2>1. Starting' = Starting \ {t} /\ t \in Starting
    BY <1>3, <1>4 DEF Starting, InRun
  <2>2. Cardinality(Starting') = Cardinality(Starting) - 1
    BY <1>1, <2>1, FS_RemoveElement DEF Counted
  <2>3. Polling' = Polling
    BY <1>3, <1>4 DEF Polling, InPoll
  <2> QED
    BY <1>1, <1>2, <2>2, <2>3 DEF Counted
<1>5. CASE t # Owner /\ ~nested[t]
  <2>1. Polling' = Polling \ {t} /\ t \in Polling
    BY <1>3, <1>5 DEF Polling, InPoll
  <2>2. Cardinality(Polling') = Cardinality(Polling) - 1
    BY <1>1, <2>1, FS_RemoveElement DEF Counted
  <2>3. Starting' = Starting
    BY <1>3, <1>5 DEF Starting, InRun
  <2> QED
    BY <1>1, <1>2, <2>2, <2>3 DEF Counted
<1> QED
  BY <1>4, <1>5

LEMMA TakeKeepsChains ==
  ASSUME TypeOK, TypeOK', NEW w \in Workers, Take(w)
  PROVE  Chains' = Chains
<1> USE OwnerIsNoWorker
<1>1. Counted /\ Counted'
  BY Counts, CountsNext
<1>2. PICK p \in pending : pending' = pending \ {p}
  BY DEF Take
<1>3. Cardinality(pending') = Cardinality(pending) - 1
  BY <1>1, <1>2, FS_RemoveElement DEF Counted
<1>4. /\ pc[w] = "idle" /\ pc'[w] = "test" /\ nested' = nested
      /\ \A u \in Threads \ {w} : pc'[u] = pc[u]
  BY GotoFacts DEF Take
<1>5. Polling' = Polling \cup {w} /\ w \notin Polling
  BY <1>4 DEF Polling, InPoll
<1>6. Cardinality(Polling') = Cardinality(Polling) + 1
  BY <1>1, <1>5, FS_AddElement DEF Counted
<1>7. Starting' = Starting
  BY <1>4 DEF Starting, InRun
<1> QED
  BY <1>1, <1>3, <1>6, <1>7 DEF Counted

\* No step but a start adds a chain.
LEMMA ChainsKept ==
  ASSUME TypeOK, TypeOK', Nesting, [Next]_vars, \A t \in Threads : ~Start(t)
  PROVE  Chains' <= Chains /\ UNCHANGED <<starts, doubled>>
<1> USE OwnerIsNoWorker
<1>0. UNCHANGED <<starts, doubled>>
  BY Steps DEF Stop, StopLoads, StopCancels, StoreId, LoadId, Dispatch, DispatchThrows, Take,
       Ends, TestRunning, BeginCallback, EndCallback, CallbackThrows, ClosePool, vars
<1>1. ASSUME NEW t \in Threads, Stop(t)
      PROVE  Chains' <= Chains
  <2>1. /\ pc[t] = IF t = Owner THEN "idle" ELSE "callback"
        /\ pc'[t] = "stop_load"
        /\ \A u \in Threads \ {t} : pc'[u] = pc[u] /\ nested'[u] = nested[u]
    BY <1>1, CallFacts DEF Stop
  <2>2. pending' = pending /\ Polling' = Polling /\ Starting' = Starting
    BY <1>1, <2>1 DEF Stop, Polling, InPoll, Starting, InRun
  <2> QED
    BY <2>2, ChainsShrink
<1>2. ASSUME NEW t \in Threads, StopLoads(t) \/ StoreId(t) \/ LoadId(t)
      PROVE  Chains' <= Chains
  <2>1. UNCHANGED <<pending, nested>> /\ \A u \in Threads \ {t} : pc'[u] = pc[u]
    BY <1>2, GotoFacts DEF StopLoads, StoreId, LoadId
  <2>2. \/ pc[t] = "stop_load" /\ pc'[t] = "stop_cancel"
        \/ pc[t] = "store" /\ pc'[t] = "load"
        \/ pc[t] = "load" /\ pc'[t] = "dispatch"
    BY <1>2, GotoFacts DEF StopLoads, StoreId, LoadId
  <2>3. Polling' = Polling /\ Starting' = Starting
    BY <2>1, <2>2 DEF Polling, InPoll, Starting, InRun
  <2> QED
    BY <2>1, <2>3, ChainsShrink
<1>3. ASSUME NEW t \in Threads, StopCancels(t) \/ DispatchThrows(t)
      PROVE  Chains' <= Chains
  <2>1. pending' \subseteq pending /\ pc[t] \in {"stop_cancel", "dispatch"}
    BY <1>3 DEF StopCancels, DispatchThrows
  <2>2. /\ pc'[t] \in {"callback", "idle"}
        /\ \A u \in Threads \ {t} : pc'[u] = pc[u] /\ nested'[u] = nested[u]
    BY <1>3, ReturnFacts DEF StopCancels, DispatchThrows
  <2>3. Polling' \subseteq Polling /\ Starting' \subseteq Starting
    BY <2>1, <2>2 DEF Polling, InPoll, Starting, InRun
  <2> QED
    BY <2>1, <2>3, ChainsShrink
<1>4. ASSUME NEW w \in Workers, Ends(w)
      PROVE  Chains' <= Chains
  <2>1. UNCHANGED <<pending, nested>> /\ \A u \in Threads \ {w} : pc'[u] = pc[u]
    BY <1>4, GotoFacts DEF Ends, TestRunning, BeginCallback, EndCallback, CallbackThrows
  <2>2. /\ pc[w] \in {"test", "call"} \/ (pc[w] = "callback" /\ ~nested[w])
        /\ pc'[w] \in {"call", "callback", "idle"} \/ (pc'[w] = "store" /\ ~nested[w])
    BY <1>4, GotoFacts DEF Ends, TestRunning, BeginCallback, EndCallback, CallbackThrows
  <2>3. Polling' \subseteq Polling /\ Starting' \subseteq Starting
    BY <2>1, <2>2 DEF Polling, InPoll, Starting, InRun
  <2> QED
    BY <2>1, <2>3, ChainsShrink
<1>5. ASSUME ClosePool \/ UNCHANGED vars
      PROVE  Chains' <= Chains
  <2>1. pending' = pending /\ Polling' = Polling /\ Starting' = Starting
    BY <1>5 DEF ClosePool, vars, Polling, InPoll, Starting, InRun
  <2> QED
    BY <2>1, ChainsShrink
<1>6. ASSUME NEW t \in Threads, Dispatch(t)
      PROVE  Chains' <= Chains
  BY <1>6, DispatchKeepsChains
<1>7. ASSUME NEW w \in Workers, Take(w)
      PROVE  Chains' <= Chains
  BY <1>7, TakeKeepsChains, Counts DEF Counted
<1>8. Chains' <= Chains
  BY <1>1, <1>2, <1>3, <1>4, <1>5, <1>6, <1>7, Steps
<1> QED
  BY <1>0, <1>8

LEMMA StepOneChain ==
  ASSUME TypeOK, TypeOK', Nesting, OneChainPerStart, [Next]_vars
  PROVE  OneChainPerStart'
<1>1. Chains \in Nat /\ Chains' \in Nat /\ starts \in Nat
  BY Counts, CountsNext DEF Counted, TypeOK
<1>2. ASSUME NEW t \in Threads, Start(t)
      PROVE  OneChainPerStart'
  BY <1>1, <1>2, StartAddsChain DEF OneChainPerStart
<1>3. CASE \A t \in Threads : ~Start(t)
  BY <1>1, <1>3, ChainsKept DEF OneChainPerStart
<1> QED
  BY <1>2, <1>3

-----------------------------------------------------------------------------
(* The id of a single chain.                                               *)

LEMMA AtMostOne ==
  ASSUME NEW S, IsFiniteSet(S), Cardinality(S) <= 1, NEW a \in S, NEW b \in S
  PROVE  a = b /\ Cardinality(S) = 1
<1>1. Cardinality(S) \in Nat /\ Cardinality(S) # 0
  BY FS_CardinalityType, FS_EmptySet
<1>2. Cardinality(S) = 1
  BY <1>1
<1>3. PICK x : S = {x}
  BY <1>2, FS_Singleton
<1> QED
  BY <1>2, <1>3

\* A thread in run_impl is the whole of a single chain.
LEMMA SingleChain ==
  ASSUME TypeOK, Chains <= 1, NEW t \in Threads, InRun(t)
  PROVE  pending = {} /\ \A u \in Threads : InRun(u) => u = t
<1> USE OwnerIsNoWorker
<1>1. Counted
  BY Counts
<1>2. \A u \in Threads : InRun(u) => u \in Starting \/ u \in Polling
  BY DEF Starting, Polling, InPoll, InRun
<1>3. ASSUME NEW u \in Starting
      PROVE  Cardinality(Starting) = 1 /\ pending = {} /\ Polling = {}
  <2>1. Cardinality(Starting) = 1
    BY <1>1, AtMostOne DEF Counted
  <2> QED
    BY <1>1, <2>1, FS_EmptySet DEF Counted
<1>4. ASSUME NEW u \in Polling
      PROVE  Cardinality(Polling) = 1 /\ pending = {} /\ Starting = {}
  <2>1. Cardinality(Polling) = 1
    BY <1>1, AtMostOne DEF Counted
  <2> QED
    BY <1>1, <2>1, FS_EmptySet DEF Counted
<1>5. ASSUME NEW u \in Threads, InRun(u)
      PROVE  u = t
  <2>1. CASE t \in Starting
    BY <1>1, <1>2, <1>3, <1>5, <2>1, AtMostOne DEF Counted
  <2>2. CASE t \in Polling
    BY <1>1, <1>2, <1>4, <1>5, <2>2, AtMostOne DEF Counted
  <2> QED
    BY <1>2, <2>1, <2>2
<1> QED
  BY <1>2, <1>3, <1>4, <1>5

LEMMA StepUnderLatestId ==
  ASSUME TypeOK, Identified, OneChainPerStart, UnderLatestId, [Next]_vars
  PROVE  UnderLatestId'
<1> USE OwnerIsNoWorker DEF UnderLatestId
<1>s. ASSUME ~doubled, NEW t \in Threads, InRun(t)
      PROVE  pending = {} /\ \A u \in Threads : InRun(u) => u = t
  BY <1>s, SingleChain DEF OneChainPerStart
<1>1. ASSUME NEW t \in Threads, Start(t)
      PROVE  UnderLatestId'
  <2> SUFFICES ASSUME ~doubled'
               PROVE  pending' = {} /\ \A u \in Threads : pc'[u] # "dispatch"
    OBVIOUS
  <2>1. Counted /\ Chains = 0
    <3>1. doubled' = (Chains > 0)
      BY <1>1 DEF Start
    <3>2. (Chains > 0) = TRUE \/ Chains = 0
      BY Counts DEF Counted
    <3> QED
      BY <3>1, <3>2, Counts
  <2>2. pending = {} /\ Polling = {} /\ Starting = {}
    <3>1. /\ Cardinality(pending) = 0 /\ Cardinality(Polling) = 0
          /\ Cardinality(Starting) = 0
      BY <2>1 DEF Counted
    <3> QED
      BY <2>1, <3>1, FS_EmptySet DEF Counted
  <2>3. \A u \in Threads : pc[u] # "dispatch"
    BY <2>2 DEF Polling, Starting, InPoll, InRun
  <2> QED
    BY <1>1, <2>2, <2>3, CallFacts DEF Start
<1>2. ASSUME NEW t \in Threads, Stop(t)
      PROVE  UnderLatestId'
  BY <1>2, CallFacts DEF Stop
<1>3. ASSUME NEW t \in Threads, StopLoads(t)
      PROVE  UnderLatestId'
  BY <1>3, GotoFacts DEF StopLoads, TypeOK
<1>4. ASSUME NEW t \in Threads, StopCancels(t) \/ DispatchThrows(t)
      PROVE  UnderLatestId'
  <2>1. Returns(t) /\ pending' \subseteq pending /\ UNCHANGED <<m_poll_request_id, doubled>>
    BY <1>4 DEF StopCancels, DispatchThrows
  <2> QED
    BY <2>1, ReturnFacts
<1>5. ASSUME NEW t \in Threads, StoreId(t)
      PROVE  UnderLatestId'
  <2> SUFFICES ASSUME ~doubled
               PROVE  pending' = {} /\ \A u \in Threads : pc'[u] # "dispatch"
    BY <1>5 DEF StoreId
  <2>1. pending = {} /\ \A u \in Threads \ {t} : pc[u] # "dispatch"
    BY <1>5, <1>s DEF StoreId, InRun
  <2> QED
    BY <1>5, <2>1, GotoFacts DEF StoreId
<1>6. ASSUME NEW t \in Threads, LoadId(t)
      PROVE  UnderLatestId'
  BY <1>6, GotoFacts DEF LoadId, TypeOK
<1>7. ASSUME NEW t \in Threads, Dispatch(t)
      PROVE  UnderLatestId'
  <2>1. /\ pending' = pending \cup {<<loaded[t], t>>} /\ pc[t] = "dispatch"
        /\ Returns(t) /\ UNCHANGED <<m_poll_request_id, doubled>>
    BY <1>7 DEF Dispatch
  <2>2. <<loaded[t], t>>[1] = loaded[t]
    OBVIOUS
  <2>3. ~doubled => \A p \in pending' : p[1] = m_poll_request_id
    BY <2>1, <2>2
  <2> QED
    BY <2>1, <2>3, ReturnFacts
<1>8. ASSUME NEW w \in Workers, Take(w) \/ Ends(w)
      PROVE  UnderLatestId'
  <2>1. /\ pending' \subseteq pending /\ UNCHANGED <<m_poll_request_id, loaded, doubled>>
        /\ \A u \in Threads \ {w} : pc'[u] = pc[u]
        /\ pc'[w] \in {"test", "call", "callback", "store", "idle"}
    BY <1>8, GotoFacts DEF Take, Ends, TestRunning, BeginCallback, EndCallback, CallbackThrows
  <2> QED
    BY <2>1
<1>9. CASE ClosePool
  BY <1>9 DEF ClosePool
<1>10. CASE UNCHANGED vars
  BY <1>10 DEF vars
<1> QED
  BY <1>1, <1>2, <1>3, <1>4, <1>5, <1>6, <1>7, <1>8, <1>9, <1>10, Steps

-----------------------------------------------------------------------------
(* What stop leaves to come, and what an engine that runs has.             *)

LEMMA PastCounts ==
  ASSUME TypeOK
  PROVE  /\ IsFiniteSet(Past) /\ Cardinality(Past) \in Nat
         /\ Cardinality(Past) <= Cardinality(Workers)
         /\ Cardinality(Past) <= Chains
<1>1. Past \in SUBSET Workers /\ Past \in SUBSET Polling
  BY DEF Past, Polling, InPoll
<1>2. Counted
  BY Counts
<1>3. Cardinality(Past) <= Cardinality(Polling)
  BY <1>1, <1>2, FS_Subset DEF Counted
<1>4. /\ IsFiniteSet(Past) /\ Cardinality(Past) \in Nat
      /\ Cardinality(Past) <= Cardinality(Workers)
  BY <1>1, Finite, FS_Subset, FS_CardinalityType
<1> QED
  BY <1>2, <1>3, <1>4 DEF Counted

\* Nobody new gets past the test.
LEMMA PastShrinks ==
  ASSUME TypeOK, Past' \subseteq Past
  PROVE  Cardinality(Past') <= Cardinality(Past) /\ Cardinality(Past') \in Nat
BY PastCounts, FS_Subset, FS_CardinalityType

LEMMA StepCallbacksLeft ==
  ASSUME TypeOK, OneChainPerStart, CallbacksLeft, [Next]_vars
  PROVE  CallbacksLeft'
<1> USE OwnerIsNoWorker
<1>t. /\ late \in Nat /\ starts \in Nat /\ m_running \in BOOLEAN
      /\ Cardinality(Workers) \in Nat
      /\ Cardinality(Past) \in Nat /\ Cardinality(Past) <= Cardinality(Workers)
      /\ Cardinality(Past) <= starts
  BY Finite, PastCounts, Counts DEF TypeOK, OneChainPerStart, Counted
<1>s. ASSUME UNCHANGED <<m_running, late, starts>>, m_running \/ Past' \subseteq Past
      PROVE  CallbacksLeft'
  BY <1>s, <1>t, PastShrinks DEF CallbacksLeft
<1>1. ASSUME NEW t \in Threads, Start(t)
      PROVE  CallbacksLeft'
  BY <1>1 DEF Start, CallbacksLeft
<1>2. ASSUME NEW t \in Threads, Stop(t)
      PROVE  CallbacksLeft'
  <2>1. Past' \subseteq Past
    BY <1>2, CallFacts DEF Stop, Past
  <2>2. ~m_running' /\ starts' = starts /\ late' = IF m_running THEN 0 ELSE late
    BY <1>2 DEF Stop
  <2> QED
    BY <1>t, <2>1, <2>2, PastShrinks DEF CallbacksLeft
<1>3. ASSUME NEW t \in Threads,
             \/ StopLoads(t) \/ StopCancels(t)
             \/ StoreId(t) \/ LoadId(t) \/ Dispatch(t) \/ DispatchThrows(t)
      PROVE  CallbacksLeft'
  <2>1. UNCHANGED <<m_running, late, starts>>
    BY <1>3 DEF StopLoads, StopCancels, StoreId, LoadId, Dispatch, DispatchThrows
  <2>2. pc'[t] # "call" /\ \A u \in Threads \ {t} : pc'[u] = pc[u]
    BY <1>3, GotoFacts, ReturnFacts
       DEF StopLoads, StopCancels, StoreId, LoadId, Dispatch, DispatchThrows
  <2>3. Past' \subseteq Past
    BY <2>2 DEF Past
  <2> QED
    BY <1>s, <2>1, <2>3
<1>4. ASSUME NEW w \in Workers, Take(w) \/ TestRunning(w) \/ EndCallback(w) \/ CallbackThrows(w)
      PROVE  CallbacksLeft'
  <2>1. UNCHANGED <<m_running, late, starts>>
    BY <1>4 DEF Take, TestRunning, EndCallback, CallbackThrows
  <2>2. /\ pc'[w] = "call" => m_running
        /\ \A u \in Threads \ {w} : pc'[u] = pc[u]
    BY <1>4, GotoFacts DEF Take, TestRunning, EndCallback, CallbackThrows
  <2>3. m_running \/ Past' \subseteq Past
    BY <2>2 DEF Past
  <2> QED
    BY <1>s, <2>1, <2>3
<1>5. ASSUME NEW w \in Workers, BeginCallback(w)
      PROVE  CallbacksLeft'
  <2>1. /\ UNCHANGED <<m_running, starts>>
        /\ late' = IF m_running THEN late ELSE AtMost(late + 1)
    BY <1>5 DEF BeginCallback
  <2>2. Past' = Past \ {w} /\ w \in Past
    BY <1>5, GotoFacts DEF BeginCallback, Past
  <2>3. Cardinality(Past') = Cardinality(Past) - 1
    BY <2>2, PastCounts, FS_RemoveElement
  <2>4. ~m_running => AtMost(late + 1) = late + 1
    <3>1. Cardinality(Past') \in Nat
      BY <2>2, PastShrinks
    <3> QED
      BY <1>t, <2>3, <3>1 DEF CallbacksLeft, AtMost
  <2> QED
    BY <1>t, <2>1, <2>3, <2>4 DEF CallbacksLeft
<1>6. CASE ClosePool \/ UNCHANGED vars
  BY <1>6, <1>s DEF ClosePool, vars, Past
<1> QED
  BY <1>1, <1>2, <1>3, <1>4, <1>5, <1>6, Steps DEF Ends

LEMMA StepStopsAreOver ==
  ASSUME TypeOK, StopsAreOver, [Next]_vars
  PROVE  StopsAreOver'
<1> USE OwnerIsNoWorker DEF StopsAreOver, InStop
<1>1. ASSUME NEW t \in Threads, Start(t)
      PROVE  StopsAreOver'
  <2>1. ~raced' => \A u \in Threads : ~InStop(u)
    BY <1>1 DEF Start
  <2>2. pc'[t] = "store" /\ \A u \in Threads \ {t} : pc'[u] = pc[u]
    BY <1>1, CallFacts DEF Start
  <2> QED
    BY <2>1, <2>2
<1>2. ASSUME NEW t \in Threads, Stop(t)
      PROVE  StopsAreOver'
  BY <1>2 DEF Stop
<1>3. ASSUME NEW t \in Threads, StopLoads(t)
      PROVE  StopsAreOver'
  BY <1>3 DEF StopLoads
<1>4. ASSUME NEW t \in Threads,
             StopCancels(t) \/ StoreId(t) \/ LoadId(t) \/ Dispatch(t) \/ DispatchThrows(t)
      PROVE  StopsAreOver'
  <2>1. UNCHANGED <<m_running, raced>>
    BY <1>4 DEF StopCancels, StoreId, LoadId, Dispatch, DispatchThrows
  <2>2. /\ pc'[t] \in {"load", "dispatch", "callback", "idle"}
        /\ \A u \in Threads \ {t} : pc'[u] = pc[u]
    BY <1>4, GotoFacts, ReturnFacts DEF StopCancels, StoreId, LoadId, Dispatch, DispatchThrows
  <2> QED
    BY <2>1, <2>2
<1>5. ASSUME NEW w \in Workers, Take(w) \/ Ends(w)
      PROVE  StopsAreOver'
  <2>1. /\ UNCHANGED <<m_running, raced>>
        /\ \A u \in Threads \ {w} : pc'[u] = pc[u]
        /\ pc'[w] \in {"test", "call", "callback", "store", "idle"}
    BY <1>5, GotoFacts DEF Take, Ends, TestRunning, BeginCallback, EndCallback, CallbackThrows
  <2> QED
    BY <2>1
<1>6. CASE ClosePool \/ UNCHANGED vars
  BY <1>6 DEF ClosePool, vars
<1> QED
  BY <1>1, <1>2, <1>3, <1>4, <1>5, <1>6, Steps

\* There is a chain.
Alive == pending # {} \/ Polling # {} \/ Starting # {}

AliveCounted == Chains > 0 <=> Alive

LEMMA AliveCounts == TypeOK => AliveCounted
<1> SUFFICES ASSUME TypeOK
             PROVE  Chains > 0 <=> Alive
  BY DEF AliveCounted
<1>1. Counted
  BY Counts
<1>2. /\ Cardinality(pending) = 0 <=> pending = {}
      /\ Cardinality(Polling) = 0 <=> Polling = {}
      /\ Cardinality(Starting) = 0 <=> Starting = {}
  BY <1>1, FS_EmptySet DEF Counted
<1>3. Chains = 0 <=> ~Alive
  <2>1. Chains = 0 <=> /\ Cardinality(pending) = 0 /\ Cardinality(Polling) = 0
                       /\ Cardinality(Starting) = 0
    BY <1>1 DEF Counted
  <2> QED
    BY <1>2, <2>1 DEF Alive
<1>4. Chains > 0 <=> Chains # 0
  BY <1>1 DEF Counted
<1> QED
  BY <1>3, <1>4

LEMMA AliveCountsNext == TypeOK' => AliveCounted'
BY AliveCounts, PTL

LEMMA StepRunning ==
  ASSUME TypeOK, TypeOK', Nesting, StopsAreOver, RunningMeansPolling, [Next]_vars
  PROVE  RunningMeansPolling'
<1> USE OwnerIsNoWorker
<1>a. (Chains > 0 <=> Alive) /\ (Chains' > 0 <=> Alive')
  BY AliveCounts, AliveCountsNext DEF AliveCounted
<1> SUFFICES ASSUME m_running', ~failed', ~raced'
             PROVE  Alive'
  BY <1>a DEF RunningMeansPolling
<1>p. m_running /\ ~failed /\ ~raced => Alive /\ \A t \in Threads : ~InStop(t)
  BY <1>a DEF RunningMeansPolling, StopsAreOver
<1>1. ASSUME NEW t \in Threads, Start(t)
      PROVE  Alive'
  <2>1. pc'[t] = "store" /\ nested'[t] = (t # Owner)
    BY <1>1, CallFacts DEF Start
  <2>2. t \in Starting'
    BY <2>1 DEF Starting, InRun
  <2> QED
    BY <2>2 DEF Alive
<1>2. ASSUME NEW t \in Threads, Stop(t) \/ StopCancels(t) \/ DispatchThrows(t)
      PROVE  FALSE
  <2>1. CASE Stop(t)
    BY <2>1 DEF Stop
  <2>2. CASE StopCancels(t)
    BY <1>p, <2>2 DEF StopCancels, InStop
  <2>3. CASE DispatchThrows(t)
    BY <2>3 DEF DispatchThrows
  <2> QED
    BY <1>2, <2>1, <2>2, <2>3
<1>3. ASSUME NEW t \in Threads, StopLoads(t) \/ StoreId(t) \/ LoadId(t)
      PROVE  Alive'
  <2>1. /\ UNCHANGED <<pending, nested, m_running, failed, raced>>
        /\ \A u \in Threads \ {t} : pc'[u] = pc[u]
    BY <1>3, GotoFacts DEF StopLoads, StoreId, LoadId
  <2>2. \/ pc[t] = "stop_load" /\ pc'[t] = "stop_cancel"
        \/ pc[t] = "store" /\ pc'[t] = "load"
        \/ pc[t] = "load" /\ pc'[t] = "dispatch"
    BY <1>3, GotoFacts DEF StopLoads, StoreId, LoadId
  <2>3. Polling' = Polling /\ Starting' = Starting
    BY <2>1, <2>2 DEF Polling, InPoll, Starting, InRun
  <2> QED
    BY <1>p, <2>1, <2>3 DEF Alive
<1>4. ASSUME NEW t \in Threads, Dispatch(t)
      PROVE  Alive'
  BY <1>4 DEF Dispatch, Alive
<1>5. ASSUME NEW w \in Workers, Take(w)
      PROVE  Alive'
  <2>1. w \in Polling'
    BY <1>5, GotoFacts DEF Take, Polling, InPoll
  <2> QED
    BY <2>1 DEF Alive
<1>6. ASSUME NEW w \in Workers, Ends(w)
      PROVE  Alive'
  <2>1. pc'[w] # "idle"
    BY <1>6, GotoFacts DEF Ends, TestRunning, BeginCallback, EndCallback, CallbackThrows
  <2>2. w \in Polling'
    BY <2>1 DEF Polling, InPoll
  <2> QED
    BY <2>2 DEF Alive
<1>7. ASSUME ClosePool \/ UNCHANGED vars
      PROVE  Alive'
  <2>1. UNCHANGED <<pending, pc, nested, m_running, failed, raced>>
    BY <1>7 DEF ClosePool, vars
  <2>2. Polling' = Polling /\ Starting' = Starting
    BY <2>1 DEF Polling, InPoll, Starting, InRun
  <2> QED
    BY <1>p, <2>1, <2>2 DEF Alive
<1> QED
  BY <1>1, <1>2, <1>3, <1>4, <1>5, <1>6, <1>7, Steps

-----------------------------------------------------------------------------
(* The theorems.                                                           *)

LEMMA InitInv == Init => Inv
<1> SUFFICES ASSUME Init
             PROVE  Inv
  OBVIOUS
<1>1. TypeOK
  <2>1. 0 \in 0..MaxStarts /\ 0 \in 0..Cardinality(Workers) + 1
    BY Finite, PollEngineAssumption
  <2> QED
    BY <2>1 DEF Init, TypeOK
<1>2. Nesting /\ Identified /\ UnderLatestId /\ StopsAreOver /\ RunningMeansPolling
  BY OwnerIsNoWorker
     DEF Init, Nesting, Identified, UnderLatestId, StopsAreOver, RunningMeansPolling, InRun, InStop
<1>3. pending = {} /\ Polling = {} /\ Starting = {} /\ Past = {}
  BY OwnerIsNoWorker DEF Init, Polling, InPoll, Starting, InRun, Past
<1>4. Chains = 0
  BY <1>1, <1>3, Counts, FS_EmptySet DEF Counted
<1>5. OneChainPerStart /\ CallbacksLeft
  BY <1>3, <1>4, Finite, FS_EmptySet DEF Init, OneChainPerStart, CallbacksLeft
<1> QED
  BY <1>1, <1>2, <1>5 DEF Inv

LEMMA StepInv == Inv /\ [Next]_vars => Inv'
<1> SUFFICES ASSUME Inv, [Next]_vars
             PROVE  Inv'
  OBVIOUS
<1>1. TypeOK'
  BY StepTyped DEF Inv
<1> QED
  BY <1>1, StepNesting, StepIdentified, StepOneChain, StepUnderLatestId, StepCallbacksLeft,
     StepStopsAreOver, StepRunning
     DEF Inv

\* The invariant of every interleaving of start, stop and polls.
THEOREM EngineInvariant == Spec => []Inv
<1>1. Init => Inv
  BY InitInv
<1>2. Inv /\ [Next]_vars => Inv'
  BY StepInv
<1> QED
  BY <1>1, <1>2, PTL DEF Spec

\* Every variable of the engine keeps its type: in particular, a poll is
\* dispatched with an id that has been created for it.
THEOREM TypeCorrect == Spec => []TypeOK
<1>1. Inv => TypeOK
  BY DEF Inv
<1> QED
  BY <1>1, EngineInvariant, PTL

\* Polls do not multiply, whichever calls overlap: there are at most as many
\* chains as calls of start, and one if the start found none alive.
THEOREM OneChain == Spec => []OneChainPerStart
<1>1. Inv => OneChainPerStart
  BY DEF Inv
<1> QED
  BY <1>1, EngineInvariant, PTL

\* What stop cancels by m_poll_request_id is the queued poll of a single chain.
THEOREM Cancellable == Spec => []QueuedPollIsCancellable
<1>1. Inv => QueuedPollIsCancellable
  BY DEF Inv, UnderLatestId, QueuedPollIsCancellable
<1> QED
  BY <1>1, EngineInvariant, PTL

\* After stop, each worker calls the callback once more at most.
THEOREM FewCallbacks == Spec => []FewCallbacksAfterStop
<1>1. Inv => FewCallbacksAfterStop
  <2> SUFFICES ASSUME Inv
               PROVE  late <= Cardinality(Workers) /\ late <= starts
    BY DEF FewCallbacksAfterStop
  <2>1. /\ late \in Nat /\ starts \in Nat /\ Cardinality(Workers) \in Nat
        /\ Cardinality(Past) \in Nat
    BY Finite, PastCounts DEF Inv, TypeOK
  <2> QED
    BY <2>1 DEF Inv, CallbacksLeft
<1> QED
  BY <1>1, EngineInvariant, PTL

\* An engine that runs has a chain, unless an exception ended it or a stop and a
\* start overlapped.
THEOREM Running == Spec => []RunningMeansPolling
<1>1. Inv => RunningMeansPolling
  BY DEF Inv
<1> QED
  BY <1>1, EngineInvariant, PTL

\* A step by which a queued poll is taken or cancelled is no loss of another: the
\* pair that Dispatch queues is in no queue before.
THEOREM PollsAreDistinct ==
  Spec => [][\A t \in Threads : Dispatch(t) => <<loaded[t], t>> \notin pending]_vars
<1>1. Inv /\ [Next]_vars => [\A t \in Threads : Dispatch(t) => <<loaded[t], t>> \notin pending]_vars
  BY DEF Inv, Identified, Dispatch
<1> QED
  BY <1>1, EngineInvariant, PTL DEF Spec

-----------------------------------------------------------------------------
(* The bound on request ids.                                               *)

LEMMA ImageCounts ==
  ASSUME NEW S, IsFiniteSet(S), NEW f, f \in [S -> {f[x] : x \in S}]
  PROVE  /\ IsFiniteSet({f[x] : x \in S})
         /\ Cardinality({f[x] : x \in S}) <= Cardinality(S)
<1> DEFINE T == {f[x] : x \in S}
<1>1. f \in Surjection(S, T)
  BY DEF Surjection
<1> HIDE DEF T
<1>2. IsFiniteSet(T) /\ Cardinality(T) <= Cardinality(S)
  BY <1>1, FS_Surjection
<1> QED
  BY <1>2 DEF T

LEMMA UnionCounts ==
  ASSUME NEW S, NEW T, IsFiniteSet(S), IsFiniteSet(T)
  PROVE  IsFiniteSet(S \cup T) /\ Cardinality(S \cup T) <= Cardinality(S) + Cardinality(T)
<1>1. IsFiniteSet(S \cap T)
  BY FS_Subset
<1>2. /\ Cardinality(S \cap T) \in Nat /\ Cardinality(S) \in Nat /\ Cardinality(T) \in Nat
  BY <1>1, FS_CardinalityType
<1>3. Cardinality(S \cup T) = Cardinality(S) + Cardinality(T) - Cardinality(S \cap T)
  BY FS_Union
<1>4. IsFiniteSet(S \cup T)
  BY FS_Union
<1> QED
  BY <1>2, <1>3, <1>4

\* A thread that is to create a request id finds one.
IdLeft == \A t \in Threads : pc[t] = "store" => FreshIds # {}

\* The bound MaxId never holds a poll up: with one id more than there can be polls,
\* threads and a latest id, run_impl always finds one to create.
THEOREM BoundSuffices ==
  ASSUME MaxId > MaxStarts + Cardinality(Workers) + 1
  PROVE  Spec => []IdLeft
<1>1. Inv => IdLeft
  <2> SUFFICES ASSUME Inv, NEW t \in Threads, pc[t] = "store", FreshIds = {}
               PROVE  FALSE
    BY DEF IdLeft
  <2>t. TypeOK /\ Counted /\ Chains <= starts /\ starts <= MaxStarts /\ starts \in Nat
    BY Counts, PollEngineAssumption DEF Inv, OneChainPerStart, TypeOK
  <2> DEFINE others == Threads \ {t}
             queued == [p \in pending |-> p[1]]
             read == [u \in others |-> loaded[u]]
             A == {queued[p] : p \in pending}
             B == {read[u] : u \in others}
  <2>1. IsFiniteSet(A) /\ Cardinality(A) <= Cardinality(pending)
    BY <2>t, ImageCounts DEF Counted
  <2>2. IsFiniteSet(others) /\ Cardinality(others) = Cardinality(Workers)
    <3>1. Cardinality(Threads) = Cardinality(Workers) + 1
      BY PollEngineAssumption, FS_AddElement DEF Threads
    <3>2. IsFiniteSet(others) /\ Cardinality(others) = Cardinality(Threads) - 1
      BY Finite, FS_RemoveElement
    <3> QED
      BY <3>1, <3>2, Finite
  <2>3. IsFiniteSet(B) /\ Cardinality(B) <= Cardinality(Workers)
    BY <2>2, ImageCounts
  <2>4. Ids \subseteq (A \cup B) \cup {m_poll_request_id}
    <3> SUFFICES ASSUME NEW id \in Ids, id # m_poll_request_id, id \notin B
                 PROVE  id \in A
      OBVIOUS
    <3>1. loaded[t] = NoId
      BY DEF Inv, Identified
    <3>2. id # NoId
      BY PollEngineAssumption DEF Ids, NoId
    <3>3. \A u \in Threads : loaded[u] # id
      BY <3>1, <3>2
    <3> QED
      BY <3>3 DEF FreshIds
  <2> HIDE DEF A, B, others
  <2>5. /\ IsFiniteSet((A \cup B) \cup {m_poll_request_id})
        /\ Cardinality((A \cup B) \cup {m_poll_request_id}) <= Cardinality(A \cup B) + 1
    <3>1. IsFiniteSet(A \cup B) /\ Cardinality(A \cup B) \in Nat
      BY <2>1, <2>3, UnionCounts, FS_CardinalityType
    <3>2. /\ IsFiniteSet((A \cup B) \cup {m_poll_request_id})
          /\ \/ Cardinality((A \cup B) \cup {m_poll_request_id}) = Cardinality(A \cup B)
             \/ Cardinality((A \cup B) \cup {m_poll_request_id}) = Cardinality(A \cup B) + 1
      BY <3>1, FS_AddElement
    <3> QED
      BY <3>1, <3>2
  <2>6. Cardinality(Ids) = MaxId /\ Cardinality(Ids) <= Cardinality(A \cup B) + 1
    <3>1. Cardinality(Ids) = MaxId
      BY PollEngineAssumption, FS_Interval DEF Ids
    <3>2. /\ IsFiniteSet(A \cup B) /\ Cardinality(A \cup B) \in Nat
          /\ Cardinality((A \cup B) \cup {m_poll_request_id}) \in Nat
      BY <2>1, <2>3, <2>5, UnionCounts, FS_CardinalityType
    <3>3. Cardinality(Ids) <= Cardinality((A \cup B) \cup {m_poll_request_id})
      BY <2>4, <2>5, FS_Subset
    <3> QED
      BY <2>5, <3>1, <3>2, <3>3, PollEngineAssumption
  <2>7. /\ Cardinality(A \cup B) <= Cardinality(A) + Cardinality(B)
        /\ Cardinality(A) \in Nat /\ Cardinality(B) \in Nat /\ Cardinality(A \cup B) \in Nat
    BY <2>1, <2>3, UnionCounts, FS_CardinalityType
  <2>8. Cardinality(pending) <= starts
    BY <2>t DEF Counted
  <2> QED
    BY <2>t, <2>1, <2>3, <2>6, <2>7, <2>8, Finite, PollEngineAssumption DEF Counted
<1> QED
  BY <1>1, EngineInvariant, PTL
=============================================================================
