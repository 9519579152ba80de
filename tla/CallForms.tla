------------------------------- MODULE CallForms -------------------------------
(***************************************************************************)
(* The templates that turn "this function, on this object, with these      *)
(* arguments" into a task: the overloads of TaskDispatcher (the facade), of*)
(* TaskDispatcherImpl and of the task factory, the three task classes, and *)
(* what a task keeps of the call that made it.                             *)
(*                                                                         *)
(* A behaviour is one call. First the compiler takes it through the layers,*)
(* choosing an overload at each: layer says where it has come. The body of *)
(* an overload is compiled whole, so every check of a layer counts, that of*)
(* the branch not taken at run time too. A call that compiles is then run: *)
(* place says where its task, or its inline execution, is.                 *)
(***************************************************************************)
VARIABLES
  call,      \* the call expression, and whether a worker of the pool makes it
  layer,     \* of the compilation
  function,  \* the function as the current layer receives it
  chosen,    \* the overload chosen last: the forwarding one or a specific one
  class,     \* of the task, once compiled
  place,
  argument,  \* whose argument the function refers to: the caller's or the task's
  frame,     \* the stack frame of the caller
  owners     \* who keeps the receiver alive

vars == <<call, layer, function, chosen, class, place, argument, frame, owners>>
compiled == <<call, layer, function, chosen, class>>

Factories == {"create_task", "create_task_ptr"}
Basic == {"basic_dispatch", "basic_dispatch_or_execute"}
Executes == {"dispatch_or_execute", "basic_dispatch_or_execute"}
Entries == Factories \cup Basic \cup {"dispatch", "dispatch_or_execute"}

Bare == {"member", "const_member"}           \* MemberFnPtr, ConstMemberFnPtr
Wrappers == {"wrapper", "const_wrapper"}     \* MemberFnPtrWrapper, of either
MemberFunctions == Bare \cup Wrappers

\* A receiver is told apart by its type and value category: const_shared is
\* a const lvalue, shared a variable, moved_shared a temporary.
Receivers == {"pointer", "pointer_to_const", "pointer_to_derived",
              "const_shared", "shared", "moved_shared"}

Calls ==
  {c \in [entry : Entries, receiver : Receivers \cup {"none"},
          function : MemberFunctions \cup {"functor"},
          parameter : {"value", "const_ref", "ref", "rvalue_ref"},
          passed : {"lvalue", "rvalue"}, on_worker : BOOLEAN] :
     /\ c.receiver = "none" <=> c.function = "functor"
     /\ c.on_worker => c.entry \in Executes}

Init ==
  /\ call \in Calls
  /\ layer = IF call.entry \in Factories THEN "factory" ELSE "facade"
  /\ function = call.function
  /\ chosen = "none"
  /\ class = "none"
  /\ place = "unmade"
  /\ argument = "caller"
  /\ frame = "calling"
  /\ owners = IF call.receiver = "none" THEN {} ELSE {"owner"}

-------------------------------------------------------------------------------
(* The overloads with a receiver, as pairs of receiver and function.       *)

AllForms == {"pointer", "const_shared"} \X MemberFunctions
FacadeDispatch == ({"pointer"} \X MemberFunctions) \cup ({"const_shared"} \X Wrappers)
FacadeExecute == AllForms
FacadeBasic == {<<"pointer", "member">>}
ImplDispatch == AllForms
ImplExecute == AllForms
CreateTask == AllForms
\* Mutant: the overload for a wrapped const function of a shared object is missing.
CreateTaskPtrLess == AllForms \ {<<"const_shared", "const_wrapper">>}
CreateTaskPtr == AllForms

\* The forwarding overload binds a pointer to shared that is not const
\* without adding const, so it is preferred there; otherwise both match
\* exactly and the specific overload is more specialised. Object is deduced
\* from receiver and function alike: no specific overload takes a pointer to
\* const or to a derived class.
Specific(overloads) == <<call.receiver, function>> \in overloads
Choose(overloads) == chosen' = IF Specific(overloads) THEN "specific" ELSE "forwarding"
Redirects(overloads) == Specific(overloads) /\ function \in Bare

Wrapped == IF function = "member" THEN "wrapper" ELSE "const_wrapper"

\* The calls of ptr2wrapper that are not qualified with utils:: find nothing:
\* a member pointer has no namespace that holds it.
QualifiedInExecute == AllForms \ {<<"pointer", "const_member">>}
QualifiedInCreateTask == {<<"pointer", "member">>}
QualifiedInCreateTaskPtr == AllForms

\* What a parameter of the function can be bound to.
Accepts(parameter, passed) ==
  \/ parameter \in {"value", "const_ref"}
  \/ <<parameter, passed>> \in {<<"ref", "lvalue">>, <<"rvalue_ref", "rvalue">>}

MoveOn(ok, next) == layer' = IF ok THEN next ELSE "rejected"

\* The overload of a bare member function calls the one of its wrapper.
Wrap(overloads, qualified) ==
  /\ Redirects(overloads)
  /\ chosen' = "specific"
  /\ IF <<call.receiver, function>> \in qualified
     THEN function' = Wrapped /\ layer' = layer
     ELSE function' = function /\ layer' = "rejected"

\* TaskDispatcher and TaskDispatcherBasic; the second has no forwarding overload.
Facade ==
  /\ layer = "facade"
  /\ Choose(IF call.entry = "dispatch" THEN FacadeDispatch
            ELSE IF call.entry \in Basic THEN FacadeBasic ELSE FacadeExecute)
  /\ MoveOn(call.entry \in Basic => chosen' = "specific",
            IF call.entry \in Executes THEN "execute" ELSE "dispatch")
  /\ UNCHANGED <<call, function, class, place, argument, frame, owners>>

\* dispatch_or_execute_impl: its inline branch calls the function with the
\* arguments as they were passed, its other branch is dispatch_impl.
Execute ==
  /\ layer = "execute"
  /\ \/ Wrap(ImplExecute, QualifiedInExecute)
     \/ /\ ~Redirects(ImplExecute)
        /\ Choose(ImplExecute)
        /\ MoveOn(/\ chosen' = "specific" \/ call.receiver = "none"
                  /\ Accepts(call.parameter, call.passed),
                  "dispatch")
        /\ UNCHANGED function
  /\ UNCHANGED <<call, class, place, argument, frame, owners>>

\* dispatch_impl creates the task with create_task_ptr.
Dispatch ==
  /\ layer = "dispatch"
  /\ Choose(ImplDispatch)
  /\ layer' = "factory"
  /\ UNCHANGED <<call, function, class, place, argument, frame, owners>>

\* create_task_ptr of a bare member function on a pointer, which is also all
\* there is in TaskFactoryBasic, needs no wrapper.
Unwrapped == {<<"pointer", "member">>}

\* create_task or create_task_ptr: its overloads, those of them that take a
\* bare member function as it is, and its qualified calls.
Create(overloads, unwrapped, qualified) ==
  \/ Wrap(overloads \ unwrapped, qualified)
  \/ /\ ~Redirects(overloads \ unwrapped)
     /\ Choose(overloads)
     /\ layer' = "details"
     /\ UNCHANGED function

Factory ==
  /\ layer = "factory"
  /\ IF call.entry = "create_task"
     THEN Create(CreateTask, {}, QualifiedInCreateTask)
     ELSE Create(CreateTaskPtr, Unwrapped, QualifiedInCreateTaskPtr)
  /\ UNCHANGED <<call, class, place, argument, frame, owners>>

\* A task class forwards what ITask asks of it to the m_impl it holds; the
\* classes differ in what that keeps and how it calls.
Classes == {"Task", "MemberFnTask", "MemberFnTask_shared"}

\* The forwarding overloads tag their call, the specific ones pass the object.
TaskClass ==
  IF chosen = "forwarding" THEN "Task"
  ELSE IF call.receiver = "pointer" THEN "MemberFnTask" ELSE "MemberFnTask_shared"

\* call_impl of a Task hands its copies over as lvalues (utils::apply), that
\* of a MemberFnTask forwards them as rvalues.
HandedOver(c) == IF c = "Task" THEN "lvalue" ELSE "rvalue"

\* call_impl is virtual, so it is compiled with the class: a Task of a
\* receiver calls the receiver.
Details ==
  /\ layer = "details"
  /\ MoveOn(/\ TaskClass = "Task" => call.receiver = "none"
            /\ Accepts(call.parameter, HandedOver(TaskClass)),
            "compiled")
  /\ class' = IF layer' = "compiled" THEN TaskClass ELSE "none"
  /\ UNCHANGED <<call, function, chosen, place, argument, frame, owners>>

-------------------------------------------------------------------------------
(* The call is run.                                                        *)

\* Mutant: the task keeps the bare pointer of a shared receiver.
TaskOwnersNone == {}
\* A MemberFnTask of a shared pointer holds a copy of it.
TaskOwners == IF class = "MemberFnTask_shared" THEN {"task"} ELSE {}

\* The tuple of a task holds decayed copies of the arguments.
Kept == "task"

Inline == call.entry \in Executes /\ call.on_worker

MakeTask ==
  /\ layer = "compiled" /\ place = "unmade" /\ ~Inline
  /\ place' = "caller"
  /\ owners' = owners \cup TaskOwners
  /\ argument' = Kept
  /\ UNCHANGED <<compiled, frame>>

\* dispatch_or_execute_impl on a worker of the pool.
ExecuteInline ==
  /\ layer = "compiled" /\ place = "unmade" /\ Inline
  /\ place' = "inline"
  /\ UNCHANGED <<compiled, argument, frame, owners>>

\* The task goes to the pool: within the call, or later through
\* dispatch( name, std::unique_ptr< ITask > ).
Enqueue ==
  /\ place = "caller"
  /\ \/ call.entry \notin Factories
     \/ call.entry = "create_task_ptr" /\ frame = "returned"
  /\ place' = "queue"
  /\ UNCHANGED <<compiled, argument, frame, owners>>

\* Mutant: a task removed from the queue is forgotten, not destroyed.
DestroyOnlyIfRun == owners' = IF place = "running" THEN owners \ {"task"} ELSE owners
Destroy == owners' = owners \ {"task"}

\* add_task throws when the pool is stopped.
EnqueueThrows ==
  /\ place = "caller" /\ call.entry \notin Factories
  /\ place' = "gone"
  /\ Destroy
  /\ UNCHANGED <<compiled, argument, frame>>

\* A task in the caller's hands is run by the caller.
RunByCaller ==
  /\ place = "caller" /\ call.entry \in Factories /\ frame = "returned"
  /\ place' = "inline"
  /\ UNCHANGED <<compiled, argument, frame, owners>>

EndInline ==
  /\ place = "inline"
  /\ place' = IF call.entry \in Factories THEN "ran" ELSE "gone"
  /\ UNCHANGED <<compiled, argument, frame, owners>>

Take ==
  /\ place = "queue"
  /\ place' = "running"
  /\ UNCHANGED <<compiled, argument, frame, owners>>

\* cancel_pending destroys the task in the queue; a worker destroys the one
\* it has run before it waits for the next.
Gone(from) ==
  /\ place = from
  /\ place' = "gone"
  /\ Destroy
  /\ UNCHANGED <<compiled, argument, frame>>

Return ==
  /\ layer = "compiled" /\ frame = "calling"
  /\ place \in IF call.entry \in Factories THEN {"caller"} ELSE {"queue", "running", "gone"}
  /\ frame' = "returned"
  /\ UNCHANGED <<compiled, place, argument, owners>>

\* The caller's variables go, a task it still holds among them.
EndFrame ==
  /\ frame = "returned" /\ place # "inline"
  /\ frame' = "ended"
  /\ IF place \in {"caller", "ran"}
     THEN place' = "gone" /\ Destroy
     ELSE UNCHANGED <<place, owners>>
  /\ UNCHANGED <<compiled, argument>>

\* The owner drops its shared pointer, or deletes the object, whatever
\* became of the task.
OwnerDrops ==
  /\ frame # "calling" /\ "owner" \in owners
  /\ owners' = owners \ {"owner"}
  /\ UNCHANGED <<compiled, place, argument, frame>>

Compile == Facade \/ Execute \/ Dispatch \/ Factory \/ Details
Worker == Take \/ Gone("running")
Caller == MakeTask \/ ExecuteInline \/ Enqueue \/ EnqueueThrows \/ EndInline
            \/ Return \/ EndFrame
Next == Compile \/ Worker \/ Caller \/ Gone("queue") \/ RunByCaller \/ OwnerDrops

\* Compilers end, workers go on taking tasks, calls return and scopes end.
Spec ==
  /\ Init /\ [][Next]_vars
  /\ WF_vars(Compile) /\ WF_vars(Worker) /\ WF_vars(Caller) /\ WF_vars(OwnerDrops)

-------------------------------------------------------------------------------
Called == place \in {"running", "inline"}

\* The calls the headers declare, said without layers: a functor, or any member
\* function on a pointer to its own class or a const shared pointer, bare or
\* wrapped (for TaskDispatcherBasic a member function on a pointer only). What
\* a parameter can be bound to limits them: a lvalue reference is for a functor
\* and a rvalue reference for a member function, neither against the category
\* of an argument that may be passed on inline.
Documented(c) ==
  /\ IF c.entry \in Basic
     THEN c.receiver = "pointer" /\ c.function = "member"
     ELSE c.receiver \in {"none", "pointer", "const_shared"}
  /\ c.parameter = "ref" => c.receiver = "none"
  /\ c.parameter = "rvalue_ref" => c.receiver # "none"
  /\ c.entry \in Executes => Accepts(c.parameter, c.passed)

\* What the headers declare compiles, whichever layers it goes through.
AcceptsWhatIsDocumented == layer = "rejected" => ~Documented(call)

\* The layers of overloads let nothing else through, and the task they make is
\* of the class that goes with the receiver. Of what the headers declare they
\* refuse bare member functions only, and not those of TaskDispatcherBasic: a
\* call with the wrapper, as for an overloaded function, passes every layer.
OnlyBareFormsAreRefused ==
  /\ layer = "rejected" /\ Documented(call) =>
       call.function \in Bare /\ call.entry \notin Basic
  /\ layer = "compiled" =>
       /\ Documented(call)
       /\ class = IF call.receiver = "none" THEN "Task"
                  ELSE IF call.receiver = "pointer" THEN "MemberFnTask"
                  ELSE "MemberFnTask_shared"

\* What a function uses is there when it runs, be the caller's frame gone or
\* its owner. A task owns its arguments and, if it got a shared pointer, its
\* object: create_task and the dispatches copy them. An inline execution
\* borrows them, within the call. (An object given by a plain pointer is its
\* owner's to keep.)
NothingDangles ==
  Called =>
    /\ call.receiver = "const_shared" => owners # {}
    /\ argument = "caller" => frame = "calling"

\* Whatever becomes of the task - run, removed from the queue, refused by a
\* stopped pool or dropped by the caller - a shared receiver is released.
SharedReceiverReleased ==
  layer = "compiled" /\ call.receiver = "const_shared" ~> owners = {}
=============================================================================
