---------------------------- MODULE CallFormsProofs ----------------------------
(***************************************************************************)
(* Calls through the templates: which of them the layers of overloads      *)
(* accept, and what a task owns of the call that made it.                  *)
(***************************************************************************)
EXTENDS CallForms, TLAPS

-------------------------------------------------------------------------------
(* Which calls the layers let through.                                     *)

Direct == {"pointer", "const_shared"}

\* What each layer has to go by, said of the call as it was written.
FromFacade == call.entry \in Basic => call.receiver = "pointer" /\ call.function = "member"
FromExecute ==
  call.entry \in Executes =>
    /\ call.receiver \in Direct \cup {"none"}
    /\ Accepts(call.parameter, call.passed)
FromFactory ==
  /\ chosen = "specific" <=> call.receiver \in Direct
  /\ chosen \in {"specific", "forwarding"}

\* A layer is handed the function as it was written or, once an overload has called
\* its sibling, the wrapper of it.
FunctionKept ==
  /\ function \in MemberFunctions \cup {"functor"}
  /\ function = "functor" <=> call.receiver = "none"
  /\ function \in Bare => function = call.function
  /\ layer = "facade" => function = call.function

LayersPassed ==
  /\ layer \in {"facade", "execute", "dispatch"} => call.entry \notin Factories
  /\ layer = "execute" => call.entry \in Executes
  /\ layer \in {"execute", "dispatch", "factory", "details"} => FromFacade
  /\ layer \in {"dispatch", "factory", "details"} => FromExecute
  /\ layer = "details" => FromFactory

CompileInv ==
  /\ call \in Calls
  /\ FunctionKept /\ LayersPassed
  /\ layer \in {"facade", "execute", "dispatch", "factory", "details", "compiled", "rejected"}
  /\ OnlyBareFormsAreRefused

LEMMA CallFacts ==
  ASSUME call \in Calls
  PROVE  /\ call.entry \in Entries
         /\ call.receiver \in Receivers \cup {"none"}
         /\ call.function \in MemberFunctions \cup {"functor"}
         /\ call.parameter \in {"value", "const_ref", "ref", "rvalue_ref"}
         /\ call.passed \in {"lvalue", "rvalue"}
         /\ call.receiver = "none" <=> call.function = "functor"
BY DEF Calls

LEMMA InitCompile == Init => CompileInv
<1> SUFFICES ASSUME Init
             PROVE  CompileInv
  OBVIOUS
<1> QED
  BY CallFacts
     DEF Init, CompileInv, FunctionKept, LayersPassed, OnlyBareFormsAreRefused, FromFacade,
         FromExecute, Factories, Basic, Executes, Bare

LEMMA FacadeStep == CompileInv /\ Facade => CompileInv'
<1> SUFFICES ASSUME CompileInv, Facade
             PROVE  CompileInv'
  OBVIOUS
<1> USE DEF CompileInv
<1>1. function = call.function /\ layer = "facade" /\ call' = call /\ function' = function
  BY DEF Facade, FunctionKept
<1>2. <<call.receiver, function>> \in FacadeBasic <=>
        call.receiver = "pointer" /\ function = "member"
  BY DEF FacadeBasic
<1>3. call.entry \in Basic =>
        (chosen' = "specific" <=> call.receiver = "pointer" /\ call.function = "member")
  BY <1>1, <1>2 DEF Facade, Choose, Specific, Basic
<1>4. layer' = IF call.entry \in Basic => chosen' = "specific"
               THEN IF call.entry \in Executes THEN "execute" ELSE "dispatch" ELSE "rejected"
  BY DEF Facade, MoveOn
<1>5. layer' = "rejected" => ~Documented(call)
  BY <1>1, <1>3, <1>4 DEF Documented, Executes
<1>6. layer' # "rejected" => FromFacade
  BY <1>1, <1>3, <1>4 DEF FromFacade
<1> QED
  BY <1>1, <1>4, <1>5, <1>6
     DEF FunctionKept, LayersPassed, FromFacade, FromExecute, OnlyBareFormsAreRefused

\* A specific overload is chosen for what it can be deduced from.
LEMMA Deduced ==
  ASSUME CompileInv
  PROVE  <<call.receiver, function>> \in AllForms <=> call.receiver \in Direct
BY CallFacts DEF CompileInv, FunctionKept, AllForms, Direct

LEMMA ExecuteStep == CompileInv /\ Execute => CompileInv'
<1> SUFFICES ASSUME CompileInv, Execute
             PROVE  CompileInv'
  OBVIOUS
<1> USE DEF CompileInv
<1>1. /\ call' = call /\ layer = "execute" /\ call.entry \in Executes /\ FromFacade
      /\ call.entry \notin Factories
  BY DEF Execute, LayersPassed
<1>2. CASE Wrap(ImplExecute, QualifiedInExecute)
  <2>1. call.receiver \in Direct /\ function \in Bare /\ function = call.function
    BY <1>2, Deduced DEF Wrap, Redirects, Specific, ImplExecute, FunctionKept
  <2>2. CASE <<call.receiver, function>> \in QualifiedInExecute
    <3>1. function' \in Wrappers /\ layer' = "execute"
      BY <1>1, <1>2, <2>2 DEF Wrap, Wrapped, Wrappers
    <3>2. function' \notin Bare \cup {"functor"}
      BY <3>1 DEF Bare, Wrappers
    <3>3. FunctionKept'
      BY <1>1, <2>1, <3>1, <3>2 DEF FunctionKept, MemberFunctions, Direct
    <3> QED
      BY <1>1, <3>1, <3>3 DEF LayersPassed, FromFacade, OnlyBareFormsAreRefused
  <2>3. CASE <<call.receiver, function>> \notin QualifiedInExecute
    <3>1. function' = function /\ layer' = "rejected"
      BY <1>2, <2>3 DEF Wrap
    <3>2. call.receiver = "pointer" /\ call.function = "const_member"
      BY <2>1, <2>3 DEF QualifiedInExecute, AllForms, MemberFunctions, Direct
    <3>3. call.entry \notin Basic /\ call.function \in Bare
      BY <1>1, <2>1, <3>2 DEF FromFacade
    <3> QED
      BY <1>1, <3>1, <3>3 DEF FunctionKept, LayersPassed, OnlyBareFormsAreRefused
  <2> QED
    BY <2>2, <2>3
<1>3. CASE ~Redirects(ImplExecute) /\ ~Wrap(ImplExecute, QualifiedInExecute)
  <2>1. /\ function' = function
        /\ chosen' = IF call.receiver \in Direct THEN "specific" ELSE "forwarding"
        /\ call.receiver \in Direct => function \notin Bare
    BY <1>3, Deduced DEF Execute, Choose, Redirects, Specific, ImplExecute
  <2>2. layer' = IF /\ call.receiver \in Direct \cup {"none"}
                    /\ Accepts(call.parameter, call.passed)
                 THEN "dispatch" ELSE "rejected"
    BY <1>3, <2>1 DEF Execute, MoveOn, Direct
  <2>3. layer' = "rejected" => ~Documented(call)
    BY <1>1, <2>2 DEF Documented, Direct
  <2> QED
    BY <1>1, <2>1, <2>2, <2>3
       DEF FunctionKept, LayersPassed, FromFacade, FromExecute, OnlyBareFormsAreRefused, Executes
<1> QED
  BY <1>2, <1>3 DEF Execute, Wrap

LEMMA DispatchStep == CompileInv /\ Dispatch => CompileInv'
<1> SUFFICES ASSUME CompileInv, Dispatch
             PROVE  CompileInv'
  OBVIOUS
<1>1. /\ call' = call /\ function' = function /\ layer = "dispatch" /\ layer' = "factory"
      /\ call.entry \notin Factories
  BY DEF Dispatch, CompileInv, LayersPassed
<1> QED
  BY <1>1 DEF CompileInv, FunctionKept, LayersPassed, FromFacade, FromExecute,
     OnlyBareFormsAreRefused, Factories

LEMMA FactoryStep == CompileInv /\ Factory => CompileInv'
<1> SUFFICES ASSUME CompileInv, Factory
             PROVE  CompileInv'
  OBVIOUS
<1> USE DEF CompileInv
<1>1. call' = call /\ layer = "factory" /\ FromFacade /\ FromExecute
  BY DEF Factory, LayersPassed
<1>2. CASE call.entry = "create_task" /\ Wrap(CreateTask, QualifiedInCreateTask)
  <2>1. call.receiver \in Direct /\ function \in Bare /\ function = call.function
    BY <1>2, Deduced DEF Wrap, Redirects, Specific, CreateTask, FunctionKept
  <2>2. CASE <<call.receiver, function>> \in QualifiedInCreateTask
    <3>1. function' \in Wrappers /\ layer' = "factory"
      BY <1>1, <1>2, <2>2 DEF Wrap, Wrapped, Wrappers
    <3>2. function' \notin Bare \cup {"functor"}
      BY <3>1 DEF Bare, Wrappers
    <3> QED
      BY <1>1, <2>1, <2>2, <3>1, <3>2
         DEF FunctionKept, LayersPassed, FromFacade, FromExecute, MemberFunctions,
             OnlyBareFormsAreRefused, Direct
  <2>3. CASE <<call.receiver, function>> \notin QualifiedInCreateTask
    <3>1. function' = function /\ layer' = "rejected"
      BY <1>2, <2>3 DEF Wrap
    <3>2. call.entry \notin Basic /\ call.function \in Bare
      BY <1>2, <2>1 DEF Basic
    <3> QED
      BY <1>1, <3>1, <3>2 DEF FunctionKept, LayersPassed, OnlyBareFormsAreRefused
  <2> QED
    BY <2>2, <2>3
<1>3. CASE call.entry # "create_task" /\ Wrap(CreateTaskPtr \ Unwrapped, QualifiedInCreateTaskPtr)
  <2>1. call.receiver \in Direct /\ function \in Bare
    BY <1>3, Deduced DEF Wrap, Redirects, Specific, CreateTaskPtr, FunctionKept
  <2>2. <<call.receiver, function>> \in QualifiedInCreateTaskPtr
    BY <2>1, Deduced DEF QualifiedInCreateTaskPtr
  <2>3. function' \in Wrappers /\ layer' = "factory"
    BY <1>1, <1>3, <2>2 DEF Wrap, Wrapped, Wrappers
  <2>4. function' \notin Bare \cup {"functor"}
    BY <2>3 DEF Bare, Wrappers
  <2> QED
    BY <1>1, <1>3, <2>1, <2>3, <2>4
       DEF FunctionKept, LayersPassed, FromFacade, FromExecute, MemberFunctions,
           OnlyBareFormsAreRefused, Direct
<1>4. ASSUME /\ layer' = "details" /\ function' = function
             /\ chosen' = IF call.receiver \in Direct THEN "specific" ELSE "forwarding"
      PROVE  CompileInv'
  BY <1>1, <1>4
     DEF FunctionKept, LayersPassed, FromFacade, FromExecute, FromFactory,
         OnlyBareFormsAreRefused
<1>5. CASE call.entry = "create_task" /\ ~Wrap(CreateTask \ {}, QualifiedInCreateTask)
  <2>1. ~Redirects(CreateTask \ {}) /\ Choose(CreateTask) /\ layer' = "details"
        /\ function' = function
    BY <1>5 DEF Factory, Create
  <2> QED
    BY <1>4, <2>1, Deduced DEF Redirects, Choose, Specific, CreateTask
<1>6. CASE call.entry # "create_task" /\ ~Wrap(CreateTaskPtr \ Unwrapped, QualifiedInCreateTaskPtr)
  <2>1. Choose(CreateTaskPtr) /\ layer' = "details" /\ function' = function
    BY <1>6 DEF Factory, Create
  <2> QED
    BY <1>4, <1>6, <2>1, Deduced DEF Choose, Specific, CreateTaskPtr
<1>7. CreateTask \ {} = CreateTask
  OBVIOUS
<1> QED
  BY <1>2, <1>3, <1>5, <1>6, <1>7

\* The last layer: the call is compiled, or its class cannot be.
LEMMA DetailsStep == CompileInv /\ Details => CompileInv'
<1> SUFFICES ASSUME CompileInv, Details
             PROVE  CompileInv'
  OBVIOUS
<1> USE DEF CompileInv
<1>1. call' = call /\ function' = function /\ FromFacade /\ FromExecute /\ FromFactory
  BY DEF Details, LayersPassed
<1>2. layer' = IF /\ TaskClass = "Task" => call.receiver = "none"
                  /\ Accepts(call.parameter, HandedOver(TaskClass))
               THEN "compiled" ELSE "rejected"
  BY DEF Details, MoveOn
<1>3. TaskClass = IF call.receiver \notin Direct THEN "Task"
                  ELSE IF call.receiver = "pointer" THEN "MemberFnTask" ELSE "MemberFnTask_shared"
  BY <1>1 DEF TaskClass, FromFactory
<1>4. (TaskClass = "Task" => call.receiver = "none") <=> call.receiver \in Direct \cup {"none"}
  BY <1>3 DEF Direct
<1>5. ASSUME call.receiver \in Direct \cup {"none"}
      PROVE  Accepts(call.parameter, HandedOver(TaskClass)) <=>
               /\ call.parameter = "ref" => call.receiver = "none"
               /\ call.parameter = "rvalue_ref" => call.receiver # "none"
  <2>1. HandedOver(TaskClass) = IF call.receiver = "none" THEN "lvalue" ELSE "rvalue"
    BY <1>3, <1>5 DEF HandedOver, Direct
  <2> QED
    BY <2>1, CallFacts DEF Accepts
<1>6. layer' = "compiled" <=> Documented(call)
  BY <1>1, <1>2, <1>4, <1>5 DEF Documented, Direct, FromFacade, FromExecute, FromFactory
<1>7. layer' = "compiled" => class' = TaskClass
  BY DEF Details
<1> QED
  BY <1>1, <1>2, <1>3, <1>4, <1>6, <1>7
     DEF FunctionKept, LayersPassed, OnlyBareFormsAreRefused, Direct

LEMMA StepCompile == CompileInv /\ [Next]_vars => CompileInv'
<1> SUFFICES ASSUME CompileInv, [Next]_vars
             PROVE  CompileInv'
  OBVIOUS
<1>1. CASE UNCHANGED compiled
  BY <1>1 DEF compiled, CompileInv, FunctionKept, LayersPassed, FromFacade, FromExecute,
     FromFactory, OnlyBareFormsAreRefused
<1>2. UNCHANGED compiled \/ Facade \/ Execute \/ Dispatch \/ Factory \/ Details
  BY DEF vars, compiled, Next, Compile, Worker, Caller, MakeTask, ExecuteInline, Enqueue,
     EnqueueThrows, EndInline, Return, EndFrame, Take, Gone, RunByCaller, OwnerDrops
<1> QED
  BY <1>1, <1>2, FacadeStep, ExecuteStep, DispatchStep, FactoryStep, DetailsStep

\* Four layers of overloads, each with its own set of forms, refuse none of the
\* calls the headers declare but bare member functions, in the layers that do not
\* find ptr2wrapper, and make a task of the class that goes with the receiver.
THEOREM LayersRefuseOnlyBareForms == Spec => []OnlyBareFormsAreRefused
<1>1. CompileInv => OnlyBareFormsAreRefused
  BY DEF CompileInv
<1> QED
  BY <1>1, InitCompile, StepCompile, PTL DEF Spec

-------------------------------------------------------------------------------
(* What a task owns.                                                       *)

\* Where there is a task that its function may still be called for.
Made == place \in {"caller", "queue", "running"} \/ (place = "inline" /\ argument = Kept)

\* The task has copies of the arguments and of a shared receiver as long as it may
\* be run; before there is one, and in an inline execution, the call goes on and
\* its caller has them.
Owned ==
  /\ place # "unmade" => layer = "compiled"
  /\ layer = "compiled" /\ call.receiver = "const_shared" => class = "MemberFnTask_shared"
  /\ argument \in {"caller", Kept}
  /\ frame = "calling" /\ call.receiver # "none" => "owner" \in owners
  /\ Made => TaskOwners \subseteq owners /\ argument = Kept
  /\ place = "unmade" => argument = "caller"
  /\ place = "unmade" \/ (place = "inline" /\ argument = "caller") => frame = "calling"

LEMMA InitOwned == Init => Owned
BY DEF Init, Owned, Made, Kept, TaskOwners

\* The class of a task decides whether it holds its receiver.
LEMMA CompileOwned == Owned /\ Compile => Owned'
<1> SUFFICES ASSUME Owned, Compile
             PROVE  Owned'
  OBVIOUS
<1>1. /\ layer # "compiled" /\ UNCHANGED <<call, place, argument, frame, owners>>
      /\ layer' = "compiled" /\ call.receiver = "const_shared" => class' = "MemberFnTask_shared"
  <2>1. CASE Facade
    BY <2>1 DEF Facade, MoveOn
  <2>2. CASE Execute
    BY <2>2 DEF Execute, Wrap, MoveOn
  <2>3. CASE Dispatch
    BY <2>3 DEF Dispatch
  <2>4. CASE Factory
    BY <2>4 DEF Factory, Create, Wrap
  <2>5. CASE Details
    BY <2>5 DEF Details, MoveOn, TaskClass
  <2> QED
    BY <2>1, <2>2, <2>3, <2>4, <2>5 DEF Compile
<1> QED
  BY <1>1 DEF Owned, Made, Kept

LEMMA StepOwned == Owned /\ [Next]_vars => Owned'
<1> SUFFICES ASSUME Owned, [Next]_vars
             PROVE  Owned'
  OBVIOUS
<1> USE DEF Owned, Made, Kept, compiled, TaskOwners
<1>1. CASE MakeTask
  BY <1>1 DEF MakeTask
<1>2. CASE ExecuteInline
  BY <1>2 DEF ExecuteInline
<1>3. CASE Enqueue
  BY <1>3 DEF Enqueue
<1>4. CASE EnqueueThrows
  BY <1>4 DEF EnqueueThrows, Destroy
<1>5. CASE RunByCaller
  BY <1>5 DEF RunByCaller
<1>6. CASE EndInline
  BY <1>6 DEF EndInline
<1>7. CASE Take
  BY <1>7 DEF Take
<1>8. ASSUME NEW from \in {"queue", "running"}, Gone(from)
      PROVE  Owned'
  BY <1>8 DEF Gone, Destroy
<1>9. CASE Return
  BY <1>9 DEF Return
<1>10. CASE EndFrame
  BY <1>10 DEF EndFrame, Destroy
<1>11. CASE OwnerDrops
  BY <1>11 DEF OwnerDrops
<1>12. CASE UNCHANGED vars
  BY <1>12 DEF vars
<1> QED
  BY <1>1, <1>2, <1>3, <1>4, <1>5, <1>6, <1>7, <1>8, <1>9, <1>10, <1>11, <1>12, CompileOwned
     DEF Next, Worker, Caller

\* What a function uses is there when it runs, also when the caller's frame and the
\* receiver's owner are gone: a task uses its own copies, and an inline execution
\* ends before its caller goes on.
THEOREM TasksDoNotDangle == Spec => []NothingDangles
<1>1. Owned => NothingDangles
  BY DEF Owned, Made, Kept, TaskOwners, NothingDangles, Called
<1> QED
  BY <1>1, InitOwned, StepOwned, PTL DEF Spec
=============================================================================
